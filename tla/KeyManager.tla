----------------------------- MODULE KeyManager -----------------------------
(***************************************************************************)
(* The dashboard: signing in and out (page.tsx, LoginForm.tsx), the page   *)
(* of API keys (ApiKeyManager.tsx) and the routes of auth-service that it  *)
(* calls.  The page applies answers in the order they come.  React commits *)
(* a change of the selection first and runs the effect that asks for the   *)
(* details later, but before it renders again: other answers and clicks    *)
(* come between the two, another change of the selection does not.  Left   *)
(* out are the form's fields, error, loading, the secret of a new key and  *)
(* the aggregates: nothing else on the page depends on them.               *)
(***************************************************************************)
EXTENDS Naturals, Sequences

CONSTANTS
    Calls,              \* handlers of the page that can await at once
    MaxRows,            \* bound: keys there may be when one is created
    MaxEntries          \* bound: addresses ever entered when one is added

ASSUME BoundsAssumption == MaxRows \in Nat /\ MaxEntries \in Nat

VARIABLES
    \* auth-service and its database
    rows,               \* api_keys: 1..rows, in the order they were created
    allow,              \* ip_allow_list: the key of entry e, 0 once deleted
    \* the page
    token,              \* localStorage's, which is the page's
    listed,             \* keys: 1..listed, shown newest first
    selected,           \* selectedKey, 0 for null
    panel,              \* usage, methods, bills and allow list: whose, and which
    secret,             \* selectedKeySecret: whose, 0 for null
    call,               \* call[c]: what handler c awaits
    newest,             \* history: the last refreshDetails, until it has ended
    excuse              \* history: why the panel may be wrong

serverVars == <<rows, allow>>
shownVars  == <<listed, selected, panel, secret>>
askedVars  == <<call, newest, excuse>>
vars == <<serverVars, token, shownVars, askedVars>>

Idle           == [op |-> "idle"]
Effect(k)      == [op |-> "effect", key |-> k]    \* rendered, the effect is due
List(k)        == [op |-> "list", key |-> k]      \* prefers k, 0 for none
Listed(k, n)   == [op |-> "listed", key |-> k, count |-> n]
Details(k)     == [op |-> "details", key |-> k]
Told(k, S)     == [op |-> "told", key |-> k, entries |-> S]
Create         == [op |-> "create"]
Created(k)     == [op |-> "created", key |-> k]
Add(k)         == [op |-> "add", key |-> k]
Remove(k, e)   == [op |-> "remove", key |-> k, entry |-> e]
Edited(k)      == [op |-> "edited", key |-> k]

NoPanel == [key |-> 0, entries |-> {}]

\* The bootstrap has seeded a key before anybody can sign in.
Init ==
    /\ rows = 1 /\ allow = <<>>
    /\ token = "none"
    /\ listed = 0 /\ selected = 0 /\ panel = NoPanel /\ secret = 0
    /\ call = [c \in Calls |-> Idle]
    /\ newest = {} /\ excuse = {}
-----------------------------------------------------------------------------
(* Sessions.  What an unmounted page awaits changes nothing any more; a    *)
(* write of it that still lands is a step of Elsewhere.                    *)

Unmount == listed' = 0 /\ selected' = 0 /\ panel' = NoPanel /\ secret' = 0
Forget  == newest' = {} /\ excuse' = {}

\* The page is mounted with a token and lists the keys.
Mount(c) ==
    /\ Unmount /\ Forget
    /\ call' = [d \in Calls |-> IF d = c THEN List(0) ELSE Idle]
    /\ UNCHANGED serverVars

\* Of what was typed the service accepts only the administrator's.
SignIn(c) == token = "none" /\ token' = "valid" /\ Mount(c)

\* The browser reloads the page: the stored token is used again.
Reload(c) == token # "none" /\ UNCHANGED token /\ Mount(c)

SignOut ==
    /\ token # "none"
    /\ token' = "none"
    /\ Unmount /\ Forget
    /\ call' = [c \in Calls |-> Idle]
    /\ UNCHANGED serverVars

\* `expiresIn: '12h'`
Expire ==
    /\ token = "valid"
    /\ token' = "expired"
    /\ UNCHANGED <<serverVars, shownVars, askedVars>>
-----------------------------------------------------------------------------
(* The service.  Every route verifies the token first.                     *)

\* The order does not matter here, nor do usage, methods and bills, which are
\* read for the key of the path like the list.
EntriesOf(k) == {e \in DOMAIN allow : allow[e] = k}

Answer(c, what) == call' = [call EXCEPT ![c] = what]

ServeList(c) ==
    /\ call[c].op = "list"
    /\ Answer(c, Listed(call[c].key, rows))
    /\ UNCHANGED serverVars

ServeDetails(c) ==
    /\ call[c].op = "details"
    /\ Answer(c, Told(call[c].key, EntriesOf(call[c].key)))
    /\ UNCHANGED serverVars

ServeCreate(c) ==
    /\ call[c].op = "create" /\ rows < MaxRows
    /\ rows' = rows + 1
    /\ Answer(c, Created(rows'))
    /\ UNCHANGED allow

ServeAdd(c) ==
    /\ call[c].op = "add" /\ Len(allow) < MaxEntries
    /\ allow' = Append(allow, call[c].key)
    /\ Answer(c, Edited(call[c].key))
    /\ UNCHANGED rows

\* The id alone says which row: it may be another key's, or deleted already.
ServeRemove(c) ==
    /\ call[c].op = "remove"
    /\ allow' = [allow EXCEPT ![call[c].entry] = 0]
    /\ Answer(c, Edited(call[c].key))
    /\ UNCHANGED rows

Serve(c) ==
    /\ token = "valid"
    /\ \/ ServeList(c) \/ ServeDetails(c)
       \/ ServeCreate(c) \/ ServeAdd(c) \/ ServeRemove(c)
    /\ UNCHANGED <<token, shownVars, newest, excuse>>

\* Another administrator, or a late write of an unmounted page.
Elsewhere ==
    /\ \/ /\ rows < MaxRows
          /\ rows' = rows + 1
          /\ UNCHANGED <<allow, excuse>>
       \/ /\ \/ Len(allow) < MaxEntries /\ \E k \in 1..rows : allow' = Append(allow, k)
             \/ \E e \in DOMAIN allow : allow' = [allow EXCEPT ![e] = 0]
          /\ excuse' = excuse \union {"elsewhere"}
          /\ UNCHANGED rows
    /\ UNCHANGED <<token, shownVars, call, newest>>
-----------------------------------------------------------------------------
(* The page.  Handler c goes on from its await.                            *)

End(c) == call' = [call EXCEPT ![c] = Idle]

\* Mutant of Ask: Details of an edited key are not asked for again.
AskOnce(c, k) ==
    /\ secret' = 0
    /\ call' = [call EXCEPT ![c] = IF call[c].op = "edited" THEN Idle ELSE Details(k)]
    /\ newest' = IF call[c].op = "edited" THEN {} ELSE {c}
    /\ excuse' = IF k = selected' THEN {} ELSE {"moved"}

\* refreshDetails: the secret goes at once, the rest when the answers are there.
Ask(c, k) ==
    /\ secret' = 0
    /\ call' = [call EXCEPT ![c] = Details(k)]
    /\ newest' = {c}
    /\ excuse' = IF k = selected' THEN {} ELSE {"moved"}

\* Mutant of Point: the effect is not tied to the selection.
PointOnly(c, k) ==
    /\ selected' = k
    /\ End(c)
    /\ UNCHANGED <<secret, newest, excuse>>

\* setSelectedKey: the page is rendered with the new name, and an effect is
\* due when the id has changed.  The secret and the rest are still there.
Point(c, k) ==
    /\ selected' = k
    /\ call' = [call EXCEPT ![c] = IF k = selected THEN Idle ELSE Effect(k)]
    /\ UNCHANGED <<secret, newest, excuse>>

\* No effect is due: the next render need not wait for one.
Rendered == \A c \in Calls : call[c].op # "effect"

EffectRuns(c) ==
    /\ call[c].op = "effect"
    /\ UNCHANGED <<listed, selected, panel>>
    /\ Ask(c, call[c].key)

\* Mutant of Preferred: no fallback to the newest key.
PreferredOnly(k, n) == IF k \in 1..n THEN k ELSE selected

Preferred(k, n) == IF k \in 1..n THEN k ELSE n

ListArrives(c) ==
    /\ call[c].op = "listed" /\ Rendered
    /\ listed' = call[c].count
    /\ Point(c, Preferred(call[c].key, call[c].count))
    /\ UNCHANGED panel

\* The five answers are there; an older one may be shown over a newer one.
DetailsArrive(c) ==
    /\ call[c].op = "told"
    /\ panel' = [key |-> call[c].key, entries |-> call[c].entries]
    /\ secret' = call[c].key
    /\ End(c)
    /\ newest' = newest \ {c}
    /\ excuse' = IF newest = {} THEN excuse \union {"late"} ELSE excuse
    /\ UNCHANGED <<listed, selected>>

CreatedArrives(c) ==
    /\ call[c].op = "created"
    /\ call' = [call EXCEPT ![c] = List(call[c].key)]
    /\ UNCHANGED <<shownVars, newest, excuse>>

\* addCidr and removeCidr go on with the key that was selected at the click.
EditArrives(c) ==
    /\ call[c].op = "edited"
    /\ UNCHANGED <<listed, selected, panel>>
    /\ Ask(c, call[c].key)

Arrive(c) ==
    /\ \/ ListArrives(c) \/ DetailsArrive(c) \/ CreatedArrives(c) \/ EditArrives(c)
       \/ EffectRuns(c)
    /\ UNCHANGED <<serverVars, token>>

\* The call rejects: no answer, an expired token, a payload that is refused.
Fail(c) ==
    /\ call[c].op \notin {"idle", "effect"}
    /\ End(c)
    /\ newest' = newest \ {c}
    /\ excuse' = IF c \in newest \/ call[c].op = "edited"
                 THEN excuse \union {"failed"} ELSE excuse
    /\ UNCHANGED <<serverVars, token, shownVars>>

Select(c, k) ==
    /\ call[c] = Idle /\ Rendered
    /\ k # selected
    /\ Point(c, k)
    /\ UNCHANGED <<serverVars, token, listed, panel>>

Click(c, what) ==
    /\ call[c] = Idle
    /\ call' = [call EXCEPT ![c] = what]
    /\ UNCHANGED <<serverVars, token, shownVars, newest, excuse>>

ClickCreate(c) == token # "none" /\ Click(c, Create)
\* Mutant of ClickAdd: addCidr does not look for a selected key.
ClickAddAnyway(c) == token # "none" /\ Click(c, Add(selected))
ClickAdd(c) == selected # 0 /\ Click(c, Add(selected))
ClickRemove(c, e) == selected # 0 /\ Click(c, Remove(selected, e))
-----------------------------------------------------------------------------
Next ==
    \/ \E c \in Calls :
        \/ SignIn(c) \/ Reload(c)
        \/ Serve(c) \/ Arrive(c) \/ Fail(c)
        \/ \E k \in 1..listed : Select(c, k)
        \/ ClickCreate(c) \/ ClickAdd(c) \/ \E e \in panel.entries : ClickRemove(c, e)
    \/ SignOut \/ Expire \/ Elsewhere

Spec == Init /\ [][Next]_vars

\* Every call is answered or fails, every effect runs; nobody has to click.
Fairness == \A c \in Calls : WF_vars(Serve(c) \/ Arrive(c) \/ Fail(c))
FairSpec == Spec /\ Fairness
-----------------------------------------------------------------------------
Excuses == {"late", "moved", "failed", "elsewhere"}

CallType ==
    {Idle, Create}
    \union [op : {"list"}, key : 0..rows]
    \union [op : {"listed"}, key : 0..rows, count : 1..rows]
    \union [op : {"effect", "details", "created", "add", "edited"}, key : 1..rows]
    \union [op : {"told"}, key : 1..rows, entries : SUBSET DOMAIN allow]
    \union [op : {"remove"}, key : 1..rows, entry : DOMAIN allow]

\* Every variable holds a value of its kind, no call names a key or an entry
\* that never was, and a page without a token is blank.
TypeOK ==
    /\ rows \in Nat \ {0}
    /\ allow \in Seq(0..rows)
    /\ token \in {"none", "valid", "expired"}
    /\ listed \in 0..rows /\ selected \in 0..listed
    /\ panel \in [key : 0..rows, entries : SUBSET DOMAIN allow]
    /\ secret \in 0..rows
    /\ call \in [Calls -> CallType]
    /\ newest \subseteq Calls
    /\ excuse \subseteq Excuses
    /\ token = "none" => listed = 0 /\ \A c \in Calls : call[c] = Idle

\* Whatever lists arrive in whatever order, one of the keys on the list is
\* selected, also when the list is older than the key that was just created.
SelectedListed == listed # 0 => selected \in 1..listed

\* When nothing is awaited, the page shows the usage, bills, secret and the
\* allow list of the key it names, as they are in the database.  What can make
\* it wrong is an older answer that came later, a refresh after an edit of a
\* key that was left meanwhile, a failed call, and changes made elsewhere.
PanelTruthful ==
    (\A c \in Calls : call[c] = Idle) /\ excuse = {} /\ selected # 0 =>
        /\ panel = [key |-> selected, entries |-> {e \in DOMAIN allow : allow[e] = selected}]
        /\ secret = selected

\* The panel may be another key's: an older answer came last, the key of an
\* edit was left before its refresh, or a call failed.
Astray == excuse \intersect {"late", "moved", "failed"} # {}

\* The secret of one key stands under the name of another only in passing,
\* until the effect has run or the last refresh has been answered, unless the
\* panel has gone astray: no handler moves the selection and leaves the secret.
NoStraySecret ==
    secret \notin {0, selected} => ~Rendered \/ newest # {} \/ Astray

\* A key that stays selected comes to be shown, unless its details fail, are
\* overtaken by older ones or are asked for again because of an edit.
PanelComes ==
    \A k \in 1..MaxRows :
        selected = k ~> \/ panel.key = k \/ selected # k
                        \/ Astray
                        \/ \E c \in Calls : call[c].op = "edited"
=============================================================================
