----------------------------- MODULE RateLimit -----------------------------
(***************************************************************************)
(* enforceRateLimit of rpc-proxy/src/rateLimit.ts, called concurrently by  *)
(* the requests in flight (of one proxy process or of several).  A call    *)
(* fixes its window when it starts and updates the key's row when its      *)
(* statement reaches the database; the pool's connections and the row lock *)
(* put the statements in any order.                                        *)
(***************************************************************************)
EXTENDS RateCounter, FiniteSets

CONSTANTS
    Callers,            \* calls that can be in flight at once
    Keys,               \* API keys
    Limit,              \* calls per window each key's plan allows
    MaxTime,            \* bound: the clock stops here
    MaxCalls            \* bound: calls started in one behaviour

ASSUME LimitAssumption == Limit \in [Keys -> Nat]
ASSUME BoundsAssumption == MaxTime \in Nat /\ MaxCalls \in Nat

VARIABLES
    clock,              \* Date.now(), in ticks
    calls,              \* history: calls started
    call,               \* call[c]: the statement c waits for, or Idle
    row,                \* row[k]: the key's row of rate_limit_counters
    admitted,           \* history: admitted[k][w], calls let through
    refused,            \* history: refused[k][w], calls answered 429
    failed,             \* history: failed[k][w], counted but never judged
    late                \* history: late[k], statements older than the row

vars == <<clock, calls, call, row, admitted, refused, failed, late>>

Windows == {WindowStart(t) : t \in 0..MaxTime}
Idle    == [status |-> "idle"]
Sent    == [status : {"sent"}, key : Keys, window : Windows]

Init ==
    /\ clock = 0
    /\ calls = 0
    /\ call = [c \in Callers |-> Idle]
    /\ row = [k \in Keys |-> NoRow]
    /\ admitted = [k \in Keys |-> [w \in Windows |-> 0]]
    /\ refused  = [k \in Keys |-> [w \in Windows |-> 0]]
    /\ failed   = [k \in Keys |-> [w \in Windows |-> 0]]
    /\ late = [k \in Keys |-> 0]

Tick ==
    /\ clock < MaxTime
    /\ clock' = clock + 1
    /\ UNCHANGED <<calls, call, row, admitted, refused, failed, late>>

\* Read the clock, compute the window, hand the statement to the pool.
Send(c, k) ==
    /\ call[c] = Idle
    /\ calls < MaxCalls
    /\ calls' = calls + 1
    /\ call' = [call EXCEPT ![c] =
                    [status |-> "sent", key |-> k, window |-> WindowStart(clock)]]
    /\ UNCHANGED <<clock, row, admitted, refused, failed, late>>

\* What the statement of c does to the row, and whether it took it back.
Write(c) ==
    LET k == call[c].key
        w == call[c].window
    IN  /\ row' = [row EXCEPT ![k] = Upserted(@, w)]
        /\ late' = [late EXCEPT ![k] = IF w < row[k].window THEN @ + 1 ELSE @]

\* The statement ran and its row came back: let the call through or throw
\* RateLimitError.
Judge(c) ==
    LET k == call[c].key
        w == call[c].window
    IN  /\ call[c] # Idle
        /\ Write(c)
        /\ IF OverLimit(row'[k], Limit[k])
           THEN /\ refused' = [refused EXCEPT ![k][w] = @ + 1]
                /\ UNCHANGED admitted
           ELSE /\ admitted' = [admitted EXCEPT ![k][w] = @ + 1]
                /\ UNCHANGED refused
        /\ call' = [call EXCEPT ![c] = Idle]
        /\ UNCHANGED <<clock, calls, failed>>

\* The statement ran but the connection broke before the row came back: the
\* call is answered 500 and stays counted.
AnswerLost(c) ==
    LET k == call[c].key
        w == call[c].window
    IN  /\ call[c] # Idle
        /\ Write(c)
        /\ failed' = [failed EXCEPT ![k][w] = @ + 1]
        /\ call' = [call EXCEPT ![c] = Idle]
        /\ UNCHANGED <<clock, calls, admitted, refused>>

\* The statement never ran: the query rejects and nothing is counted.
QueryFails(c) ==
    /\ call[c] # Idle
    /\ call' = [call EXCEPT ![c] = Idle]
    /\ UNCHANGED <<clock, calls, row, admitted, refused, failed, late>>

Next ==
    \/ Tick
    \/ \E c \in Callers :
        \/ \E k \in Keys : Send(c, k)
        \/ Judge(c)
        \/ AnswerLost(c)
        \/ QueryFails(c)

Spec == Init /\ [][Next]_vars
-----------------------------------------------------------------------------
Counts == [Keys -> [Windows -> Nat]]

\* Every variable holds a value of its kind; a row is either absent or counts
\* at least one call of a real window.
TypeOK ==
    /\ clock \in 0..MaxTime
    /\ calls \in Nat
    /\ call \in [Callers -> {Idle} \union Sent]
    /\ row \in [Keys -> {NoRow} \union [window : Windows, count : Nat \ {0}]]
    /\ admitted \in Counts
    /\ refused \in Counts
    /\ failed \in Counts
    /\ late \in [Keys -> Nat]

\* The limit as API_DOCS.md states it ("Enforces per-plan rate limits."): a
\* key gets at most its limit of calls through in one window.  The code does
\* not keep this (see the run that expects a violation).
WindowQuota ==
    \A k \in Keys, w \in Windows : admitted[k][w] <= Limit[k]

\* What the code does keep: every statement that arrives for an older window
\* than the row's restarts the count, and each such restart gives a window at
\* most one more limit's worth of calls.  Without late statements it is
\* WindowQuota.
QuotaPerLateWrite ==
    \A k \in Keys, w \in Windows :
        admitted[k][w] <= Limit[k] * (late[k] + 1)

\* Nobody is refused while the window still has room: when a call of a window
\* was answered 429, the limit's worth of calls of that same window had been
\* let through, or counted and lost to a broken connection.
NoSpuriousRefusal ==
    \A k \in Keys, w \in Windows :
        refused[k][w] > 0 => admitted[k][w] + failed[k][w] >= Limit[k]
=============================================================================
