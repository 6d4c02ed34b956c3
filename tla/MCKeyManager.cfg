SPECIFICATION FairSpec
CONSTANTS
    c1 = c1
    c2 = c2
    c3 = c3
    Calls <- TwoCalls
    MaxRows = 2
    MaxEntries = 1
INVARIANTS
    TypeOK
    SelectedListed
    PanelTruthful
    NoStraySecret
PROPERTIES
    PanelComes
