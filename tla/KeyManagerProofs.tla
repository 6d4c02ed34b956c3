-------------------------- MODULE KeyManagerProofs --------------------------
(***************************************************************************)
(* Proofs about KeyManager, for any number of handlers, keys and entries.  *)
(***************************************************************************)
EXTENDS KeyManager, TLAPS

(***************************************************************************)
(* Types.  A handler's call names keys and entries that exist, and none of *)
(* them is ever removed, so CallType only grows.                           *)
(***************************************************************************)

\* CallType, when there are r keys and the entries of E.
CallsOf(r, E) ==
    {Idle, Create}
    \union [op : {"list"}, key : 0..r]
    \union [op : {"listed"}, key : 0..r, count : 1..r]
    \union [op : {"effect", "details", "created", "add", "edited"}, key : 1..r]
    \union [op : {"told"}, key : 1..r, entries : SUBSET E]
    \union [op : {"remove"}, key : 1..r, entry : E]

\* What a call may be stays so when keys and entries are added.
LEMMA CallsGrow ==
    ASSUME NEW r \in Nat, NEW s \in Nat, r <= s, NEW E, NEW F, E \subseteq F
    PROVE  CallsOf(r, E) \subseteq CallsOf(s, F)
<1>1. 0..r \subseteq 0..s /\ 1..r \subseteq 1..s
  OBVIOUS
<1>2. SUBSET E \subseteq SUBSET F
  OBVIOUS
<1>. QED  BY <1>1, <1>2 DEF CallsOf, Idle, Create

\* What is known of a call whose operation is known.
LEMMA CallKinds ==
    ASSUME NEW r \in Nat, NEW E, NEW w \in CallsOf(r, E)
    PROVE  /\ w.op = "list" => w.key \in 0..r
           /\ w.op = "listed" => w.key \in 0..r /\ w.count \in 1..r
           /\ w.op \in {"effect", "details", "created", "add", "edited", "told", "remove"} => w.key \in 1..r
           /\ w.op = "told" => w.entries \in SUBSET E
           /\ w.op = "remove" => w.entry \in E
BY DEF CallsOf, Idle, Create

\* The calls the handlers make, and the answers to them.
LEMMA CallsMade ==
    ASSUME NEW r \in Nat, NEW E
    PROVE  /\ Idle \in CallsOf(r, E) /\ Create \in CallsOf(r, E)
           /\ \A k \in 0..r : List(k) \in CallsOf(r, E)
           /\ \A k \in 0..r, n \in 1..r : Listed(k, n) \in CallsOf(r, E)
           /\ \A k \in 1..r : /\ Effect(k) \in CallsOf(r, E)
                              /\ Details(k) \in CallsOf(r, E)
                              /\ Created(k) \in CallsOf(r, E)
                              /\ Add(k) \in CallsOf(r, E)
                              /\ Edited(k) \in CallsOf(r, E)
           /\ \A k \in 1..r, S \in SUBSET E : Told(k, S) \in CallsOf(r, E)
           /\ \A k \in 1..r, e \in E : Remove(k, e) \in CallsOf(r, E)
BY DEF CallsOf, Idle, Create, List, Listed, Effect, Details, Created, Add, Edited, Told, Remove

\* TypeOK in the words of this module.
Typed ==
    /\ rows \in Nat \ {0}
    /\ allow \in Seq(0..rows)
    /\ token \in {"none", "valid", "expired"}
    /\ listed \in 0..rows /\ selected \in 0..listed
    /\ panel \in [key : 0..rows, entries : SUBSET DOMAIN allow]
    /\ secret \in 0..rows
    /\ call \in [Calls -> CallsOf(rows, DOMAIN allow)]
    /\ newest \subseteq Calls
    /\ excuse \subseteq Excuses
    /\ token = "none" => listed = 0 /\ \A c \in Calls : call[c] = Idle

LEMMA TypedIsTypeOK == TypeOK <=> Typed
BY DEF TypeOK, Typed, CallType, CallsOf

\* A handler that starts or goes on: its new call is a legal one.
LEMMA CallStep ==
    ASSUME Typed, NEW c \in Calls, NEW w \in CallsOf(rows, DOMAIN allow),
           call' = [call EXCEPT ![c] = w]
    PROVE  call' \in [Calls -> CallsOf(rows, DOMAIN allow)]
BY DEF Typed

LEMMA MountTyped ==
    ASSUME Typed, NEW c \in Calls, Mount(c), token' \in {"valid", "expired"}
    PROVE  Typed'
<1>. USE DEF Typed
<1>1. call' \in [Calls -> CallsOf(rows, DOMAIN allow)]
  BY CallsMade DEF Mount
<1>2. panel' \in [key : 0..rows, entries : SUBSET DOMAIN allow]
  BY DEF Mount, Unmount, NoPanel
<1>. QED  BY <1>1, <1>2 DEF Mount, Unmount, Forget, serverVars, Excuses

LEMMA ServeTyped ==
    ASSUME Typed, NEW c \in Calls, Serve(c)
    PROVE  Typed'
<1>. DEFINE E == DOMAIN allow
<1>a. rows \in Nat /\ E \subseteq Nat /\ call[c] \in CallsOf(rows, E)
  BY DEF Typed
<1>b. ASSUME rows' \in Nat, rows <= rows', E \subseteq E', allow' \in Seq(0..rows'),
             NEW w, w \in CallsOf(rows', E'), call' = [call EXCEPT ![c] = w]
      PROVE  Typed'
  <2>1. CallsOf(rows, E) \subseteq CallsOf(rows', E')
    BY <1>a, <1>b, CallsGrow
  <2>2. call' \in [Calls -> CallsOf(rows', E')]
    BY <1>b, <2>1 DEF Typed
  <2>3. panel' \in [key : 0..rows', entries : SUBSET E']
    <3>1. 0..rows \subseteq 0..rows' /\ SUBSET E \subseteq SUBSET E'
      BY <1>a, <1>b
    <3>. QED  BY <3>1 DEF Typed, Serve, shownVars
  <2>. QED  BY <1>b, <2>2, <2>3 DEF Typed, Serve, shownVars
<1>1. CASE ServeList(c)
  <2>. DEFINE w == Listed(call[c].key, rows)
  <2>1. call[c].key \in 0..rows /\ rows \in 1..rows
    BY <1>1, <1>a, CallKinds DEF ServeList, Typed
  <2>7. UNCHANGED rows /\ E' = E /\ rows <= rows' /\ allow' \in Seq(0..rows') /\ rows' \in Nat
    BY <1>1 DEF ServeList, serverVars, Typed
  <2>8. w \in CallsOf(rows', E')
    BY <2>1, <2>7, <1>a, CallsMade
  <2>9. call' = [call EXCEPT ![c] = w]
    BY <1>1 DEF ServeList, Answer
  <2>. HIDE DEF w
  <2>. QED  BY <1>b, <2>7, <2>8, <2>9
<1>2. CASE ServeDetails(c)
  <2>. DEFINE w == Told(call[c].key, EntriesOf(call[c].key))
  <2>1. call[c].key \in 1..rows /\ EntriesOf(call[c].key) \in SUBSET E
    BY <1>2, <1>a, CallKinds DEF ServeDetails, EntriesOf
  <2>7. UNCHANGED rows /\ E' = E /\ rows <= rows' /\ allow' \in Seq(0..rows') /\ rows' \in Nat
    BY <1>2 DEF ServeDetails, serverVars, Typed
  <2>8. w \in CallsOf(rows', E')
    BY <2>1, <2>7, <1>a, CallsMade
  <2>9. call' = [call EXCEPT ![c] = w]
    BY <1>2 DEF ServeDetails, Answer
  <2>. HIDE DEF w
  <2>. QED  BY <1>b, <2>7, <2>8, <2>9
<1>3. CASE ServeCreate(c)
  <2>. DEFINE w == Created(rows')
  <2>7. rows' = rows + 1 /\ E' = E /\ rows <= rows' /\ allow' \in Seq(0..rows') /\ rows' \in Nat
    BY <1>3 DEF ServeCreate, Typed
  <2>1. rows' \in 1..rows'
    BY <2>7, <1>a
  <2>8. w \in CallsOf(rows', E')
    BY <2>1, <2>7, <1>a, CallsMade
  <2>9. call' = [call EXCEPT ![c] = w]
    BY <1>3 DEF ServeCreate, Answer
  <2>. HIDE DEF w
  <2>. QED  BY <1>b, <2>7, <2>8, <2>9
<1>4. CASE ServeAdd(c)
  <2>. DEFINE w == Edited(call[c].key)
  <2>1. call[c].key \in 1..rows
    BY <1>4, <1>a, CallKinds DEF ServeAdd
  <2>2. allow' = Append(allow, call[c].key)
    BY <1>4 DEF ServeAdd
  <2>7. UNCHANGED rows /\ E \subseteq E' /\ rows <= rows' /\ allow' \in Seq(0..rows') /\ rows' \in Nat
    BY <1>4, <2>1, <2>2 DEF ServeAdd, Typed
  <2>8. w \in CallsOf(rows', E')
    BY <2>1, <2>7, <1>a, CallsMade
  <2>9. call' = [call EXCEPT ![c] = w]
    BY <1>4 DEF ServeAdd, Answer
  <2>. HIDE DEF w
  <2>. QED  BY <1>b, <2>7, <2>8, <2>9
<1>5. CASE ServeRemove(c)
  <2>. DEFINE w == Edited(call[c].key)
  <2>1. call[c].key \in 1..rows /\ call[c].entry \in E
    BY <1>5, <1>a, CallKinds DEF ServeRemove
  <2>2. allow' = [allow EXCEPT ![call[c].entry] = 0]
    BY <1>5 DEF ServeRemove
  <2>7. UNCHANGED rows /\ E' = E /\ rows <= rows' /\ allow' \in Seq(0..rows') /\ rows' \in Nat
    BY <1>5, <2>1, <2>2 DEF ServeRemove, Typed
  <2>8. w \in CallsOf(rows', E')
    BY <2>1, <2>7, <1>a, CallsMade
  <2>9. call' = [call EXCEPT ![c] = w]
    BY <1>5 DEF ServeRemove, Answer
  <2>. HIDE DEF w
  <2>. QED  BY <1>b, <2>7, <2>8, <2>9
<1>. QED  BY <1>1, <1>2, <1>3, <1>4, <1>5 DEF Serve

LEMMA ElsewhereTyped ==
    ASSUME Typed, Elsewhere
    PROVE  Typed'
<1>. DEFINE E == DOMAIN allow
<1>1. rows' \in Nat \ {0} /\ rows <= rows' /\ E \subseteq E' /\ allow' \in Seq(0..rows')
  <2>1. CASE rows' = rows + 1 /\ UNCHANGED allow
    BY <2>1 DEF Typed
  <2>2. CASE \E k \in 1..rows : allow' = Append(allow, k) /\ UNCHANGED rows
    BY <2>2 DEF Typed
  <2>3. CASE \E e \in DOMAIN allow : allow' = [allow EXCEPT ![e] = 0] /\ UNCHANGED rows
    BY <2>3 DEF Typed
  <2>. QED  BY <2>1, <2>2, <2>3 DEF Elsewhere
<1>2. CallsOf(rows, E) \subseteq CallsOf(rows', E')
  <2>1. rows \in Nat /\ rows' \in Nat
    BY <1>1 DEF Typed
  <2>. QED  BY <1>1, <2>1, CallsGrow
<1>3. call' \in [Calls -> CallsOf(rows', E')]
  BY <1>2 DEF Typed, Elsewhere
<1>4. panel' \in [key : 0..rows', entries : SUBSET E']
  <2>1. 0..rows \subseteq 0..rows' /\ SUBSET E \subseteq SUBSET E'
    BY <1>1 DEF Typed
  <2>. QED  BY <2>1 DEF Typed, Elsewhere, shownVars
<1>5. excuse' \subseteq Excuses
  BY DEF Typed, Elsewhere, Excuses
<1>. QED  BY <1>1, <1>3, <1>4, <1>5 DEF Typed, Elsewhere, shownVars

\* A key is pointed at: what was selected and awaited stays of its type.
LEMMA PointTyped ==
    ASSUME Typed, NEW c \in Calls, NEW k \in 1..listed', listed' \in 0..rows,
           token # "none", Point(c, k), UNCHANGED <<serverVars, token, panel>>
    PROVE  Typed'
<1>. DEFINE E == DOMAIN allow
<1>1. rows \in Nat /\ k \in 1..rows /\ k \in 0..rows
  BY DEF Typed
<1>2. call' \in [Calls -> CallsOf(rows, E)]
  <2>1. (IF k = selected THEN Idle ELSE Effect(k)) \in CallsOf(rows, E)
    BY <1>1, CallsMade
  <2>. QED  BY <2>1, CallStep DEF Point
<1>3. selected' = k /\ UNCHANGED <<secret, newest, excuse>>
  BY DEF Point
<1>. QED  BY <1>1, <1>2, <1>3 DEF Typed, serverVars

LEMMA ArriveTyped ==
    ASSUME Typed, NEW c \in Calls, Arrive(c)
    PROVE  Typed'
<1>. DEFINE E == DOMAIN allow
<1>a. rows \in Nat /\ call[c] \in CallsOf(rows, E) /\ UNCHANGED <<serverVars, token>>
  BY DEF Typed, Arrive
<1>b. call[c] # Idle => token # "none"
  BY DEF Typed
<1>1. CASE ListArrives(c)
  <2>1. call[c].key \in 0..rows /\ call[c].count \in 1..rows
    BY <1>1, <1>a, CallKinds DEF ListArrives
  <2>2. Preferred(call[c].key, call[c].count) \in 1..call[c].count
    BY <2>1 DEF Preferred
  <2>3. listed' = call[c].count /\ Point(c, Preferred(call[c].key, call[c].count))
    BY <1>1 DEF ListArrives
  <2>4. token # "none" /\ UNCHANGED panel
    BY <1>1, <1>b DEF ListArrives, Idle
  <2>. QED  BY <1>a, <2>1, <2>2, <2>3, <2>4, PointTyped
<1>2. CASE DetailsArrive(c)
  <2>1. call[c].key \in 1..rows /\ call[c].entries \in SUBSET E
    BY <1>2, <1>a, CallKinds DEF DetailsArrive
  <2>2. call' \in [Calls -> CallsOf(rows, E)]
    BY <1>2, <1>a, CallsMade, CallStep DEF DetailsArrive, End
  <2>3. panel' \in [key : 0..rows, entries : SUBSET E] /\ secret' \in 0..rows
    BY <1>2, <2>1, <1>a DEF DetailsArrive
  <2>4. newest' \subseteq Calls /\ excuse' \subseteq Excuses
    <3>1. newest \subseteq Calls /\ excuse \subseteq Excuses
      BY DEF Typed
    <3>. QED  BY <1>2, <3>1 DEF DetailsArrive, Excuses
  <2>5. token # "none"
    BY <1>2, <1>b DEF DetailsArrive, Idle
  <2>. QED  BY <1>2, <1>a, <2>2, <2>3, <2>4, <2>5 DEF DetailsArrive, Typed, serverVars
<1>3. CASE CreatedArrives(c)
  <2>1. call[c].key \in 0..rows
    BY <1>3, <1>a, CallKinds DEF CreatedArrives
  <2>2. call' \in [Calls -> CallsOf(rows, E)]
    BY <1>3, <1>a, <2>1, CallsMade, CallStep DEF CreatedArrives
  <2>3. token # "none"
    BY <1>3, <1>b DEF CreatedArrives, Idle
  <2>. QED  BY <1>3, <1>a, <2>2, <2>3 DEF CreatedArrives, Typed, serverVars, shownVars
<1>4. CASE EditArrives(c) \/ EffectRuns(c)
  <2>0. /\ call[c].op \in {"edited", "effect"}
        /\ Ask(c, call[c].key) /\ UNCHANGED <<listed, selected, panel>>
    BY <1>4 DEF EditArrives, EffectRuns
  <2>1. call[c].key \in 1..rows
    BY <2>0, <1>a, CallKinds
  <2>2. call' \in [Calls -> CallsOf(rows, E)]
    BY <2>0, <1>a, <2>1, CallsMade, CallStep DEF Ask
  <2>3. secret' \in 0..rows /\ newest' \subseteq Calls /\ excuse' \subseteq Excuses
    BY <2>0, <1>a DEF Ask, Excuses
  <2>4. token # "none"
    BY <2>0, <1>b DEF Idle
  <2>. QED  BY <1>a, <2>0, <2>2, <2>3, <2>4 DEF Typed, serverVars
<1>. QED  BY <1>1, <1>2, <1>3, <1>4 DEF Arrive

LEMMA PageTyped ==
    ASSUME Typed, NEW c \in Calls,
           \/ Fail(c)
           \/ \E k \in 1..listed : Select(c, k)
           \/ ClickCreate(c) \/ ClickAdd(c)
           \/ \E e \in panel.entries : ClickRemove(c, e)
    PROVE  Typed'
<1>. DEFINE E == DOMAIN allow
<1>a. rows \in Nat /\ selected \in 0..rows /\ panel.entries \subseteq E
  BY DEF Typed
<1>b. selected # 0 => token # "none"
  BY DEF Typed
<1>1. CASE Fail(c)
  <2>1. call' \in [Calls -> CallsOf(rows, E)]
    BY <1>1, <1>a, CallsMade, CallStep DEF Fail, End
  <2>2. newest' \subseteq Calls /\ excuse' \subseteq Excuses
    BY <1>1 DEF Fail, Typed, Excuses
  <2>3. token # "none"
    BY <1>1 DEF Fail, Typed, Idle
  <2>. QED  BY <1>1, <2>1, <2>2, <2>3 DEF Fail, Typed, serverVars, shownVars
<1>2. ASSUME NEW k \in 1..listed, Select(c, k)
      PROVE  Typed'
  <2>1. listed' = listed /\ listed \in 0..rows /\ token # "none"
    BY <1>2 DEF Select, Typed
  <2>2. Point(c, k) /\ UNCHANGED <<serverVars, token, panel>>
    BY <1>2 DEF Select
  <2>. QED  BY <2>1, <2>2, PointTyped
<1>3. ASSUME NEW w \in CallsOf(rows, E), Click(c, w), token # "none"
      PROVE  Typed'
  <2>1. call' \in [Calls -> CallsOf(rows, E)]
    BY <1>3, CallStep DEF Click
  <2>. QED  BY <1>3, <2>1 DEF Click, Typed, serverVars, shownVars
<1>4. CASE ClickCreate(c)
  BY <1>3, <1>4, <1>a, CallsMade DEF ClickCreate
<1>5. CASE ClickAdd(c)
  <2>1. selected \in 1..rows
    BY <1>5, <1>a DEF ClickAdd
  <2>. QED  BY <1>3, <1>5, <1>a, <1>b, <2>1, CallsMade DEF ClickAdd
<1>6. ASSUME NEW e \in panel.entries, ClickRemove(c, e)
      PROVE  Typed'
  <2>1. selected \in 1..rows /\ e \in E
    BY <1>6, <1>a DEF ClickRemove
  <2>. QED  BY <1>3, <1>6, <1>a, <1>b, <2>1, CallsMade DEF ClickRemove
<1>. QED  BY <1>1, <1>2, <1>4, <1>5, <1>6

\* Init and every step of Next keep the types.
LEMMA TypedHolds ==
    /\ Init => Typed
    /\ Typed /\ [Next]_vars => Typed'
<1>1. ASSUME Init
      PROVE  Typed
  <2>1. call \in [Calls -> CallsOf(rows, DOMAIN allow)]
    BY <1>1, CallsMade DEF Init
  <2>2. panel \in [key : 0..rows, entries : SUBSET DOMAIN allow]
    BY <1>1 DEF Init, NoPanel
  <2>3. allow \in Seq(0..rows)
    BY <1>1 DEF Init
  <2>. QED  BY <1>1, <2>1, <2>2, <2>3 DEF Init, Typed, Excuses
<1>2. ASSUME Typed, [Next]_vars
      PROVE  Typed'
  <2>. USE <1>2
  <2>1. ASSUME NEW c \in Calls, SignIn(c) \/ Reload(c)
        PROVE  Typed'
    BY <2>1, MountTyped DEF SignIn, Reload, Typed
  <2>2. ASSUME NEW c \in Calls, Serve(c) \/ Arrive(c)
        PROVE  Typed'
    BY <2>2, ServeTyped, ArriveTyped
  <2>3. CASE SignOut
    <3>1. call' \in [Calls -> CallsOf(rows, DOMAIN allow)]
      BY <2>3, CallsMade DEF SignOut, Typed
    <3>2. panel' \in [key : 0..rows, entries : SUBSET DOMAIN allow]
      BY <2>3 DEF SignOut, Unmount, NoPanel, Typed
    <3>. QED  BY <2>3, <3>1, <3>2 DEF SignOut, Unmount, Forget, serverVars, Typed, Excuses
  <2>4. CASE Expire
    BY <2>4 DEF Expire, Typed, serverVars, shownVars, askedVars
  <2>5. CASE UNCHANGED vars
    BY <2>5 DEF vars, Typed, serverVars, shownVars, askedVars
  <2>. QED  BY <2>1, <2>2, <2>3, <2>4, <2>5, ElsewhereTyped, PageTyped DEF Next
<1>. QED  BY <1>1, <1>2

\* The page and the service keep their types, no call names a key or an entry
\* that never was, and a page without a token is blank.
THEOREM TypeCorrect == Spec => []TypeOK
BY TypedIsTypeOK, TypedHolds, PTL DEF Spec

(***************************************************************************)
(* Which key is selected.                                                  *)
(***************************************************************************)

\* One of the keys on the list is selected, in whatever order lists arrive.
THEOREM SelectionListed == Spec => []SelectedListed
<1>1. Init => SelectedListed
  BY DEF Init, SelectedListed
<1>2. ASSUME Typed, SelectedListed, [Next]_vars
      PROVE  SelectedListed'
  <2>. USE <1>2
  <2>1. ASSUME NEW c \in Calls, ListArrives(c)
        PROVE  SelectedListed'
    <3>1. rows \in Nat /\ call[c] \in CallsOf(rows, DOMAIN allow)
      BY DEF Typed
    <3>2. call[c].count \in 1..rows
      BY <2>1, <3>1, CallKinds DEF ListArrives
    <3>3. Preferred(call[c].key, call[c].count) \in 1..call[c].count
      BY <3>1, <3>2 DEF Preferred
    <3>. QED  BY <2>1, <3>3 DEF ListArrives, Point, SelectedListed
  <2>2. ASSUME NEW c \in Calls, Arrive(c)
        PROVE  SelectedListed'
    BY <2>1, <2>2 
    DEF Arrive, DetailsArrive, CreatedArrives, EditArrives, EffectRuns, shownVars, SelectedListed
  <2>3. ASSUME NEW c \in Calls, NEW k \in 1..listed, Select(c, k)
        PROVE  SelectedListed'
    BY <2>3 DEF Select, Point, SelectedListed
  <2>4. CASE UNCHANGED <<listed, selected>>
    BY <2>4 DEF SelectedListed
  <2>5. CASE Unmount
    BY <2>5 DEF Unmount, SelectedListed
  <2>. QED
    BY <2>2, <2>3, <2>4, <2>5
    DEF Next, vars, shownVars, SignIn, Reload, Mount, Serve, Fail, ClickCreate, ClickAdd,
        ClickRemove, Click, SignOut, Expire, Elsewhere
<1>. QED  BY <1>1, <1>2, TypedHolds, PTL DEF Spec

(***************************************************************************)
(* What the page shows.  Once the effect of the last selection has run,    *)
(* and unless the panel has gone astray, the last refreshDetails either    *)
(* awaits the answers for the selected key or has put them on the page;    *)
(* only an edit whose answer has yet to come, or a change elsewhere, may   *)
(* have made them old.                                                     *)
(***************************************************************************)

EditPending == \E c \in Calls : call[c].op = "edited"

\* No two refreshes are the last, and the last one awaits its answers.
LastRefresh ==
    \A c \in newest : newest = {c} /\ call[c].op \in {"details", "told"}

\* The refresh is over: what it brought is on the page.
ShownWell ==
    Rendered /\ newest = {} =>
        /\ ~Astray => secret \in {0, selected}
        /\ excuse = {} /\ selected # 0 =>
            /\ panel.key = selected /\ secret = selected
            /\ panel.entries = EntriesOf(selected) \/ EditPending

\* The refresh is under way: it will bring what is right.
ComingWell ==
    Rendered => \A c \in newest :
        /\ ~Astray => call[c].key = selected
        /\ excuse = {} /\ call[c].op = "told" =>
            call[c].entries = EntriesOf(selected) \/ EditPending

PanelInv == LastRefresh /\ ShownWell /\ ComingWell

LEMMA PanelInvSuffices == Typed /\ PanelInv => PanelTruthful
<1>. SUFFICES ASSUME Typed, PanelInv, \A c \in Calls : call[c] = Idle, excuse = {}, selected # 0
              PROVE  /\ panel = [key |-> selected,
                                 entries |-> {e \in DOMAIN allow : allow[e] = selected}]
                     /\ secret = selected
  BY DEF PanelTruthful
<1>1. newest = {}
  BY DEF PanelInv, LastRefresh, Idle, Typed
<1>2. ~EditPending /\ Rendered
  BY DEF EditPending, Rendered, Idle
<1>3. panel.key = selected /\ secret = selected /\ panel.entries = EntriesOf(selected)
  BY <1>1, <1>2 DEF PanelInv, ShownWell
<1>. QED  BY <1>3 DEF Typed, EntriesOf

\* A refresh begins.
LEMMA AskPanel ==
    ASSUME Typed, NEW c \in Calls, NEW k \in Nat, Ask(c, k)
    PROVE  PanelInv'
<1>1. newest' = {c} /\ call'[c] = Details(k) /\ (~Astray' => k = selected')
  BY DEF Ask, Typed, Astray
<1>. QED  BY <1>1 DEF PanelInv, LastRefresh, ShownWell, ComingWell, Details

\* A handler that is no refresh goes on or starts, and the page stays as it is.
LEMMA OtherPanel ==
    ASSUME Typed, PanelInv, NEW c \in Calls, NEW w, c \notin newest,
           call[c].op \notin {"edited", "effect"},
           call' = [call EXCEPT ![c] = w],
           UNCHANGED <<selected, panel, secret, newest, excuse>>,
           EntriesOf(selected)' = EntriesOf(selected) \/ w.op = "edited"
    PROVE  PanelInv'
<1>1. call'[c] = w /\ \A d \in Calls \ {c} : call'[d] = call[d]
  BY DEF Typed
<1>2. \A d \in newest : d # c /\ call'[d] = call[d]
  BY <1>1 DEF Typed
<1>3. EditPending => EditPending'
  BY <1>1 DEF EditPending
<1>4. EntriesOf(selected)' # EntriesOf(selected) => EditPending'
  BY <1>1 DEF EditPending
<1>a. (Rendered' => Rendered) /\ (Astray' <=> Astray)
  BY <1>1 DEF Rendered, Astray
<1>5. LastRefresh'
  BY <1>2 DEF PanelInv, LastRefresh
<1>6. ShownWell'
  BY <1>3, <1>4, <1>a DEF PanelInv, ShownWell
<1>7. ComingWell'
  BY <1>2, <1>3, <1>4, <1>a DEF PanelInv, ComingWell
<1>. QED  BY <1>5, <1>6, <1>7 DEF PanelInv

\* A key is pointed at: nothing is claimed until the effect has run.
LEMMA PointPanel ==
    ASSUME Typed, PanelInv, NEW c \in Calls, NEW k \in Nat, Point(c, k),
           c \notin newest, call[c].op \notin {"edited", "effect"}, UNCHANGED <<allow, panel>>
    PROVE  PanelInv'
<1>1. CASE k # selected
  <2>1. call'[c] = Effect(k) /\ \A d \in newest : call'[d] = call[d]
    BY <1>1 DEF Point, Typed
  <2>2. ~Rendered'
    BY <2>1 DEF Rendered, Effect
  <2>3. LastRefresh'
    BY <2>1 DEF Point, PanelInv, LastRefresh
  <2>. QED  BY <2>2, <2>3 DEF PanelInv, ShownWell, ComingWell
<1>2. CASE k = selected
  <2>1. selected' = selected /\ call' = [call EXCEPT ![c] = Idle]
    BY <1>2 DEF Point
  <2>2. EntriesOf(selected)' = EntriesOf(selected)
    BY <2>1 DEF EntriesOf
  <2>. QED  BY <2>1, <2>2, OtherPanel DEF Point
<1>. QED  BY <1>1, <1>2

LEMMA ServePanel ==
    ASSUME Typed, PanelInv, NEW c \in Calls, Serve(c)
    PROVE  PanelInv'
<1>a. UNCHANGED <<selected, panel, secret, newest, excuse>>
  BY DEF Serve, shownVars
<1>1. CASE ServeDetails(c)
  <2>. DEFINE w == Told(call[c].key, EntriesOf(call[c].key))
  <2>1. /\ call[c].op = "details" /\ call' = [call EXCEPT ![c] = w]
        /\ EntriesOf(selected)' = EntriesOf(selected)
    BY <1>1, <1>a DEF ServeDetails, Answer, serverVars, EntriesOf
  <2>2. CASE c \notin newest
    BY <1>a, <2>1, <2>2, OtherPanel
  <2>3. CASE c \in newest
    <3>1. newest = {c} /\ call'[c] = w
      BY <2>1, <2>3 DEF PanelInv, LastRefresh, Typed
    <3>2. /\ Rendered' <=> Rendered
          /\ Astray' <=> Astray
          /\ excuse = {} => ~Astray
          /\ Rendered /\ ~Astray => call[c].key = selected
      <4>1. Rendered' <=> Rendered
        BY <2>1 DEF Rendered, Told, Typed
      <4>. QED  BY <1>a, <2>3, <4>1 DEF PanelInv, ComingWell, Astray
    <3>3. w.op = "told" /\ w.key = call[c].key /\ w.entries = EntriesOf(call[c].key)
      BY DEF Told
    <3>. HIDE DEF w
    <3>. QED  BY <1>a, <2>1, <3>1, <3>2, <3>3 DEF PanelInv, LastRefresh, ShownWell, ComingWell
  <2>. QED  BY <2>2, <2>3
<1>2. ASSUME NEW w, call[c].op \notin {"details", "told", "edited", "effect"},
             call' = [call EXCEPT ![c] = w],
             UNCHANGED allow \/ w.op = "edited"
      PROVE  PanelInv'
  <2>1. c \notin newest
    BY <1>2 DEF PanelInv, LastRefresh
  <2>2. EntriesOf(selected)' = EntriesOf(selected) \/ w.op = "edited"
    BY <1>2, <1>a DEF EntriesOf
  <2>. QED  BY <1>2, <1>a, <2>1, <2>2, OtherPanel
<1>3. CASE ServeList(c)
  BY <1>2, <1>3 DEF ServeList, Answer, serverVars
<1>4. CASE ServeCreate(c)
  BY <1>2, <1>4 DEF ServeCreate, Answer
<1>5. CASE ServeAdd(c)
  <2>1. Edited(call[c].key).op = "edited"
    BY DEF Edited
  <2>. QED  BY <1>2, <1>5, <2>1 DEF ServeAdd, Answer
<1>6. CASE ServeRemove(c)
  <2>1. Edited(call[c].key).op = "edited"
    BY DEF Edited
  <2>. QED  BY <1>2, <1>6, <2>1 DEF ServeRemove, Answer
<1>. QED  BY <1>1, <1>3, <1>4, <1>5, <1>6 DEF Serve

LEMMA ArrivePanel ==
    ASSUME Typed, PanelInv, NEW c \in Calls, Arrive(c)
    PROVE  PanelInv'
<1>a. UNCHANGED allow /\ rows \in Nat /\ call[c] \in CallsOf(rows, DOMAIN allow)
  BY DEF Arrive, serverVars, Typed
<1>b. c \in newest => call[c].op \in {"details", "told"}
  BY DEF PanelInv, LastRefresh
<1>1. CASE ListArrives(c)
  <2>1. call[c].count \in Nat /\ call[c].key \in Nat
    BY <1>1, <1>a, CallKinds DEF ListArrives
  <2>2. Preferred(call[c].key, call[c].count) \in Nat
    BY <2>1 DEF Preferred
  <2>. QED  BY <1>1, <1>a, <1>b, <2>2, PointPanel DEF ListArrives
<1>2. CASE DetailsArrive(c)
  <2>1. /\ call[c].op = "told" /\ UNCHANGED selected
        /\ panel'.key = call[c].key /\ panel'.entries = call[c].entries
        /\ secret' = call[c].key /\ newest' = newest \ {c}
        /\ excuse' = IF newest = {} THEN excuse \union {"late"} ELSE excuse
    BY <1>2 DEF DetailsArrive
  <2>2. call'[c] = Idle /\ \A d \in Calls \ {c} : call'[d] = call[d]
    BY <1>2 DEF DetailsArrive, End, Typed
  <2>3. /\ EditPending => EditPending'
        /\ Rendered' => Rendered
        /\ Astray => Astray'
    BY <2>1, <2>2 DEF EditPending, Rendered, Astray, Idle
  <2>4. EntriesOf(selected)' = EntriesOf(selected)
    BY <1>a, <2>1 DEF EntriesOf
  <2>5. CASE c \in newest
    <3>1. newest' = {} /\ excuse' = excuse
      BY <2>1, <2>5 DEF PanelInv, LastRefresh
    <3>2. Rendered => /\ ~Astray => call[c].key = selected
                      /\ excuse = {} => call[c].entries = EntriesOf(selected) \/ EditPending
      BY <2>1, <2>5 DEF PanelInv, ComingWell
    <3>3. excuse = {} => ~Astray
      BY DEF Astray
    <3>. QED  BY <2>1, <2>3, <2>4, <3>1, <3>2, <3>3 DEF PanelInv, LastRefresh, ShownWell, ComingWell
  <2>6. CASE c \notin newest
    <3>1. newest' = newest /\ (newest = {} => Astray' /\ excuse' # {}) /\ (newest # {} => excuse' = excuse)
      BY <2>1, <2>6 DEF Astray
    <3>2. \A d \in newest : call'[d] = call[d]
      BY <2>2, <2>6 DEF Typed
    <3>3. LastRefresh'
      BY <3>1, <3>2 DEF PanelInv, LastRefresh
    <3>4. ShownWell'
      BY <3>1 DEF ShownWell
    <3>5. ComingWell'
      BY <2>1, <2>3, <2>4, <3>1, <3>2 DEF PanelInv, ComingWell
    <3>. QED  BY <3>3, <3>4, <3>5 DEF PanelInv
  <2>. QED  BY <2>5, <2>6
<1>3. CASE CreatedArrives(c)
  <2>1. EntriesOf(selected)' = EntriesOf(selected)
    BY <1>3, <1>a DEF CreatedArrives, shownVars, EntriesOf
  <2>2. call[c].op = "created" /\ c \notin newest
    BY <1>3, <1>b DEF CreatedArrives
  <2>. QED  BY <1>3, <2>1, <2>2, OtherPanel DEF CreatedArrives, shownVars
<1>4. CASE EditArrives(c) \/ EffectRuns(c)
  <2>1. call[c].key \in Nat /\ Ask(c, call[c].key)
    BY <1>4, <1>a, CallKinds DEF EditArrives, EffectRuns
  <2>. QED  BY <2>1, AskPanel
<1>. QED  BY <1>1, <1>2, <1>3, <1>4 DEF Arrive

LEMMA FailPanel ==
    ASSUME Typed, PanelInv, NEW c \in Calls, Fail(c)
    PROVE  PanelInv'
<1>1. CASE c \in newest \/ call[c].op = "edited"
  <2>1. Astray' /\ excuse' # {} /\ newest' = newest \ {c}
    BY <1>1 DEF Fail, Astray
  <2>2. \A d \in newest \ {c} : call'[d] = call[d]
    BY DEF Fail, End, Typed
  <2>3. LastRefresh'
    BY <2>1, <2>2 DEF PanelInv, LastRefresh
  <2>. QED  BY <2>1, <2>3 DEF PanelInv, ShownWell, ComingWell
<1>2. CASE c \notin newest /\ call[c].op # "edited"
  <2>1. newest' = newest /\ excuse' = excuse /\ EntriesOf(selected)' = EntriesOf(selected)
    BY <1>2 DEF Fail, serverVars, shownVars, EntriesOf
  <2>. QED  BY <1>2, <2>1, OtherPanel DEF Fail, End, shownVars
<1>. QED  BY <1>1, <1>2

LEMMA PanelHolds ==
    /\ Init => PanelInv
    /\ Typed /\ PanelInv /\ [Next]_vars => PanelInv'
<1>1. Init => PanelInv
  BY DEF Init, PanelInv, LastRefresh, ShownWell, ComingWell
<1>2. ASSUME Typed, PanelInv, [Next]_vars
      PROVE  PanelInv'
  <2>. USE <1>2
  <2>1. CASE Unmount /\ Forget
    BY <2>1 DEF Unmount, Forget, PanelInv, LastRefresh, ShownWell, ComingWell
  <2>2. ASSUME NEW c \in Calls, NEW k \in 1..listed, Select(c, k)
        PROVE  PanelInv'
    <3>1. c \notin newest /\ call[c].op \notin {"edited", "effect"} /\ k \in Nat
      BY <2>2 DEF Select, PanelInv, LastRefresh, Idle, Typed
    <3>. QED  BY <2>2, <3>1, PointPanel DEF Select, serverVars
  <2>3. ASSUME NEW c \in Calls, NEW w, Click(c, w)
        PROVE  PanelInv'
    <3>1. c \notin newest /\ call[c].op \notin {"edited", "effect"}
      BY <2>3 DEF Click, PanelInv, LastRefresh, Idle
    <3>2. EntriesOf(selected)' = EntriesOf(selected)
      BY <2>3 DEF Click, serverVars, shownVars, EntriesOf
    <3>. QED  BY <2>3, <3>1, <3>2, OtherPanel DEF Click, shownVars
  <2>4. CASE Elsewhere
    <3>1. /\ UNCHANGED <<selected, panel, secret, call, newest>>
          /\ UNCHANGED <<allow, excuse>> \/ excuse' = excuse \union {"elsewhere"}
          /\ Astray' <=> Astray
          /\ Rendered' <=> Rendered
      BY <2>4 DEF Elsewhere, shownVars, Astray, Rendered
    <3>2. CASE excuse' = excuse \union {"elsewhere"}
      BY <3>1, <3>2 DEF PanelInv, LastRefresh, ShownWell, ComingWell
    <3>3. CASE UNCHANGED <<allow, excuse>>
      BY <3>1, <3>3 DEF PanelInv, LastRefresh, ShownWell, ComingWell, EntriesOf, EditPending
    <3>. QED  BY <3>1, <3>2, <3>3
  <2>5. CASE UNCHANGED <<serverVars, shownVars, askedVars>>
    BY <2>5 DEF serverVars, shownVars, askedVars, PanelInv, LastRefresh, ShownWell,
                ComingWell, EntriesOf, EditPending, Rendered, Astray
  <2>. QED
    BY <2>1, <2>2, <2>3, <2>4, <2>5, ServePanel, ArrivePanel, FailPanel
    DEF Next, vars, SignIn, Reload, Mount, SignOut, Expire, ClickCreate, ClickAdd, ClickRemove
<1>. QED  BY <1>1, <1>2

\* Whatever overlaps, and in whatever order the answers arrive, the page that
\* awaits nothing shows what the database holds for the key it names, unless an
\* answer was overtaken, a call failed, the selection moved away from an edit, or
\* somebody else edited.
THEOREM PanelRight == Spec => []PanelTruthful
BY PanelHolds, PanelInvSuffices, TypedHolds, PTL DEF Spec

\* No handler moves the selection and leaves the secret of the old key under
\* the new name for longer than until the effect has run and the refresh it
\* begins has been answered, unless an older answer came last, a call failed
\* or an edit was left before its refresh.
THEOREM SecretsInPlace == Spec => []NoStraySecret
<1>1. PanelInv => NoStraySecret
  BY DEF PanelInv, ShownWell, NoStraySecret
<1>. QED  BY <1>1, PanelHolds, TypedHolds, PTL DEF Spec
=============================================================================
