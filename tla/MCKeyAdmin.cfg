SPECIFICATION Spec
CONSTANTS
    old = old
    key1 = key1
    key2 = key2
    auth1 = auth1
    auth2 = auth2
    job1 = job1
    job2 = job2
    secret1 = secret1
    secret2 = secret2
    None = None
    MaxRows = 2
    Legacy = old
    Keys <- ThreeKeys
    Instances <- TwoInstances
    Jobs <- TwoJobs
    Secrets <- TwoSecrets
SYMMETRY Symmetry
INVARIANTS
    TypeOK
    SeededOnce
    ShownSecretWorks
    GaugeSettles
