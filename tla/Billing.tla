------------------------------ MODULE Billing ------------------------------
(***************************************************************************)
(* billing-engine: a timer starts a billing cycle (runBillingCycle) every  *)
(* interval, whether or not the last one has ended.  A cycle fixes its     *)
(* period when it starts, sums the usage of that period in a snapshot,     *)
(* upserts a record per key in one transaction and then publishes what is  *)
(* outstanding.  Requests are billed to the month they were recorded in.   *)
(***************************************************************************)
EXTENDS Integers, FiniteSets, FiniteSetsExt

CONSTANTS
    Keys,               \* API keys
    Cycles,             \* cycles that can be under way at once
    MonthlyQuota,       \* MonthlyQuota[k]: of the key's plan; 0 means none free
    LastMonth,          \* bound: the calendar stops here
    MaxUsage,           \* bound: usage rows
    MaxFaults           \* bound: queries that reject, crashes of the engine

ASSUME KeysAssumption == IsFiniteSet(Keys)
ASSUME QuotaAssumption == MonthlyQuota \in [Keys -> Nat]
ASSUME BoundsAssumption ==
    LastMonth \in Nat /\ MaxUsage \in Nat /\ MaxFaults \in Nat

Months == 0..LastMonth

VARIABLES
    month,              \* the calendar's
    usage,              \* usage_logs: usage[k][m], rows of month m
    live,               \* keys with no revoked_at
    record,             \* billing_records: record[k][m], NoRecord when absent
    outstanding,        \* the gauge
    cycle,              \* cycle[c]: where cycle c is
    timer,              \* the first cycle has ended and the timer runs
    overtaken,          \* history: another cycle committed since c's snapshot
    faults

cycleVars == <<cycle, timer, overtaken>>
vars == <<month, usage, live, record, outstanding, cycleVars, faults>>

NoRecord == -1
Idle == [at |-> "idle"]

\* Mutant of Overage: without GREATEST(..., 0).
OverageSigned(k, total) == total - MonthlyQuota[k]

\* computeBilling, and the CASE of the INSERT that says the same.
Overage(k, total) ==
    IF MonthlyQuota[k] = 0 THEN total
    ELSE IF total > MonthlyQuota[k] THEN total - MonthlyQuota[k] ELSE 0

Billed(m) == {k \in Keys : record[k][m] # NoRecord}
Due(m)    == MapThenSumSet(LAMBDA k : Overage(k, record[k][m]), Billed(m))

Init ==
    /\ month = 0
    /\ usage = [k \in Keys |-> [m \in Months |-> 0]]
    /\ live = Keys
    /\ record = [k \in Keys |-> [m \in Months |-> NoRecord]]
    /\ outstanding = 0
    /\ cycle = [c \in Cycles |-> Idle]
    /\ timer = FALSE
    /\ overtaken = {}
    /\ faults = 0
-----------------------------------------------------------------------------
(* A cycle.                                                                *)

Underway == {c \in Cycles : cycle[c] # Idle}
Reach(c, where) ==
    /\ cycle' = [cycle EXCEPT ![c] = where]
    /\ UNCHANGED <<month, usage, live>>

\* The first cycle is awaited; after it the timer starts one at any time.
Start(c) ==
    /\ cycle[c] = Idle
    /\ timer \/ Underway = {}
    /\ Reach(c, [at |-> "connecting", period |-> month])
    /\ UNCHANGED <<record, outstanding, timer, overtaken, faults>>

\* pool.connect and BEGIN, then the INSERT takes its snapshot: usage and keys
\* as they are now, in the period fixed at the start.
Snapshot(c) ==
    /\ cycle[c].at = "connecting"
    /\ Reach(c, [at |-> "summed", period |-> cycle[c].period,
                 totals |-> [k \in live |-> usage[k][cycle[c].period]]])
    /\ overtaken' = overtaken \ {c}
    /\ UNCHANGED <<record, outstanding, timer, faults>>

\* ON CONFLICT DO UPDATE waits for the rows of another uncommitted cycle.
Upsert(c) ==
    /\ cycle[c].at = "summed"
    /\ \A d \in Cycles : cycle[d].at # "written"
    /\ Reach(c, [cycle[c] EXCEPT !.at = "written"])
    /\ UNCHANGED <<record, outstanding, timer, overtaken, faults>>

\* Mutant of Recorded: the upsert adds to the total instead of replacing it.
RecordedOnTop(c) ==
    [k \in Keys |-> [m \in Months |->
        IF m = cycle[c].period /\ k \in DOMAIN cycle[c].totals
        THEN cycle[c].totals[k] + (IF record[k][m] = NoRecord THEN 0 ELSE record[k][m])
        ELSE record[k][m]]]

\* Mutant of Recorded: only keys without a record get one (DO NOTHING).
RecordedOnce(c) ==
    [k \in Keys |-> [m \in Months |->
        IF m = cycle[c].period /\ k \in DOMAIN cycle[c].totals /\ record[k][m] = NoRecord
        THEN cycle[c].totals[k] ELSE record[k][m]]]

\* Mutant of Recorded: a key that is not live gets a zero.
RecordedForAll(c) ==
    [k \in Keys |-> [m \in Months |->
        IF m = cycle[c].period
        THEN IF k \in DOMAIN cycle[c].totals THEN cycle[c].totals[k] ELSE 0
        ELSE record[k][m]]]

Recorded(c) ==
    [k \in Keys |-> [m \in Months |->
        IF m = cycle[c].period /\ k \in DOMAIN cycle[c].totals
        THEN cycle[c].totals[k] ELSE record[k][m]]]

CommitTo(c, where) ==
    /\ record' = Recorded(c)
    /\ overtaken' = overtaken \union {d \in Cycles \ {c} : cycle[d].at \in {"summed", "written"}}
    /\ Reach(c, where)

Commit(c) ==
    /\ cycle[c].at = "written"
    /\ CommitTo(c, [at |-> "committed", period |-> cycle[c].period])
    /\ UNCHANGED <<outstanding, timer, faults>>

\* The sum of the period's records is read, and published after that.
ReadDue(c) ==
    /\ cycle[c].at = "committed"
    /\ Reach(c, [at |-> "read", due |-> Due(cycle[c].period)])
    /\ UNCHANGED <<record, outstanding, timer, overtaken, faults>>

Publish(c) ==
    /\ cycle[c].at = "read"
    /\ outstanding' = cycle[c].due
    /\ timer' = TRUE
    /\ Reach(c, Idle)
    /\ UNCHANGED <<record, overtaken, faults>>

\* A query rejects: no connection, ROLLBACK, or an error past the COMMIT; a
\* COMMIT whose answer is lost has committed.
Fail(c) ==
    /\ cycle[c].at \in {"connecting", "summed", "written", "committed"}
    /\ faults < MaxFaults
    /\ faults' = faults + 1
    /\ timer' = TRUE
    /\ UNCHANGED outstanding
    /\ \/ Reach(c, Idle) /\ UNCHANGED <<record, overtaken>>
       \/ cycle[c].at = "written" /\ CommitTo(c, Idle)
-----------------------------------------------------------------------------
(* The rest of the world.                                                  *)

Rows == MapThenSumSet(LAMBDA k : MapThenSumSet(LAMBDA m : usage[k][m], Months), Keys)

\* The proxy records a request, of a key that may have been revoked meanwhile.
Use(k) ==
    /\ Rows < MaxUsage
    /\ usage' = [usage EXCEPT ![k][month] = @ + 1]
    /\ UNCHANGED <<month, live, record, outstanding, cycleVars, faults>>

Revoke(k) ==
    /\ k \in live
    /\ live' = live \ {k}
    /\ UNCHANGED <<month, usage, record, outstanding, cycleVars, faults>>

MonthEnds ==
    /\ month < LastMonth
    /\ month' = month + 1
    /\ UNCHANGED <<usage, live, record, outstanding, cycleVars, faults>>

\* The engine dies and starts again; open transactions are rolled back.
Restart ==
    /\ faults < MaxFaults
    /\ faults' = faults + 1
    /\ cycle' = [c \in Cycles |-> Idle]
    /\ timer' = FALSE
    /\ outstanding' = 0
    /\ UNCHANGED <<month, usage, live, record, overtaken>>

Step(c) == Snapshot(c) \/ Upsert(c) \/ Commit(c) \/ ReadDue(c) \/ Publish(c)

Next ==
    \/ \E c \in Cycles : Start(c) \/ Step(c) \/ Fail(c)
    \/ \E k \in Keys : Use(k) \/ Revoke(k)
    \/ MonthEnds \/ Restart

Spec == Init /\ [][Next]_vars

\* The timer keeps starting cycles, and a cycle goes on unless a query rejects,
\* which (MaxFaults) the database does not do for ever.
Fairness ==
    /\ WF_vars(\E c \in Cycles : Start(c))
    /\ \A c \in Cycles : WF_vars(Step(c))

FairSpec == Spec /\ Fairness
-----------------------------------------------------------------------------
\* Every variable holds a value of its kind, and at most one cycle holds the
\* rows it wrote.
TypeOK ==
    /\ month \in Months
    /\ usage \in [Keys -> [Months -> Nat]]
    /\ live \subseteq Keys
    /\ record \in [Keys -> [Months -> Nat \union {NoRecord}]]
    /\ outstanding \in Nat
    /\ \A c \in Cycles :
        \/ cycle[c] = Idle
        \/ cycle[c].at \in {"connecting", "committed"} /\ cycle[c].period \in Months
        \/ /\ cycle[c].at \in {"summed", "written"}
           /\ cycle[c].period \in Months
           /\ \E S \in SUBSET Keys : cycle[c].totals \in [S -> Nat]
        \/ cycle[c].at = "read" /\ cycle[c].due \in Nat
    /\ \A c, d \in Cycles :
        cycle[c].at = "written" /\ cycle[d].at = "written" => c = d
    /\ timer \in BOOLEAN
    /\ overtaken \subseteq Cycles
    /\ faults \in 0..MaxFaults

\* However cycles overlap, fail and restart, no request is billed twice: a
\* record never has more requests than were recorded for its month.
NeverOverbilled ==
    \A k \in Keys, m \in Months : record[k][m] <= usage[k][m]

\* The total of a bill goes back only when a cycle commits a snapshot that is
\* older than what another cycle committed meanwhile; revocation, failures,
\* restarts and the end of the month never take a billed request back.
GoesBack == \E k \in Keys, m \in Months : record'[k][m] < record[k][m]

BackOnlyIfOvertaken ==
    [][GoesBack => \E c \in overtaken : cycle[c].at = "written" /\ cycle'[c] # cycle[c]]_vars

\* The bills of the current month catch up with its usage, for every key that
\* is not revoked, and the gauge with the bills: an overlap may set them back
\* but never for good.
CaughtUp ==
    /\ \A k \in live : record[k][month] = usage[k][month]
    /\ outstanding = Due(month)

EventuallyBilled == <>[]CaughtUp
=============================================================================
