------------------------------ MODULE RpcProxy ------------------------------
(***************************************************************************)
(* The HTTP side of rpc-proxy/src/index.ts: what happens to one JSON-RPC   *)
(* request or batch from its arrival to its reply, with every other one in *)
(* flight at the same time.  The handler is sequential between two awaits, *)
(* so an action is the completion of one await (the effect of the query or *)
(* call it waited for) and the code up to the next await or the reply.     *)
(* The rate limit row is RateCounter's, the permits are Semaphore's.       *)
(***************************************************************************)
EXTENDS RateCounter, Sequences, FiniteSets, Functions

CONSTANTS
    Requests,           \* HTTP requests; each one arrives at most once
    Keys,               \* API keys
    Batches,            \* bounds the bodies that arrive: sequences of Kinds
    Permits,            \* RPC_PROXY_MAX_CONCURRENCY
    Limit,              \* calls per window of each key's plan
    Fallbacks,          \* length of FALLBACK_RPC_LIST
    FallbackOnFinality, \* FALLBACK_ON_FINALITY
    OpenRpcEnabled,     \* OPENRPC_ENABLE
    HealthTtl,          \* how long a consensus verdict is cached (5000 ms)
    ProbeTimeout,       \* how long a probe may take (5000 ms)
    SyncStates,         \* what the consensus node may be: SUBSET BOOLEAN
    MaxTime,            \* bound: the clock stops here
    MaxRestarts,        \* bound: crashes of the process
    Signals             \* bound: whether it is ever told to stop

\* What the routing can tell apart in one item of a body.
Kinds == {
    "plain",            \* forwarded as it is
    "trace",            \* debug_* or trace_*
    "finality",         \* `finalized` or `safe` where usesFinalityTag looks
    "finality-unseen",  \* the same tag at the index the method defines, where
                        \* usesFinalityTag does not look (eth_getStorageAt...)
    "logs",             \* eth_getLogs within the plan's block range
    "wide",             \* eth_getLogs or trace_filter beyond it
    "unbounded" }       \* fromBlock 'earliest': a block range of NaN

\* The positions an item may have in its body.
ItemNumbers == UNION {DOMAIN b : b \in Batches}

ASSUME PermitsAssumption == Permits \in Nat
ASSUME BatchesAssumption == Batches \subseteq Seq(Kinds)
ASSUME LimitAssumption == Limit \in [Keys -> Nat]
ASSUME RoutingAssumption ==
    /\ Fallbacks \in Nat
    /\ FallbackOnFinality \in BOOLEAN /\ OpenRpcEnabled \in BOOLEAN
    /\ HealthTtl \in Nat \ {0} /\ ProbeTimeout \in Nat \ {0}
    /\ SyncStates \subseteq BOOLEAN
    /\ MaxTime \in Nat /\ MaxRestarts \in Nat /\ Signals \in BOOLEAN

VARIABLES
    \* one per request
    stage,              \* what the handler of r awaits, or idle, or done
    key, body,          \* x-api-key and request.body
    reply,              \* the status sent, "none" before
    noted,              \* the clock reading the handler carries over an await
    target,             \* targetUrl: a position in the upstream list
    seen,               \* what the consensus node has answered r's probe
    work,               \* work[r][i]: the write item i waits for
    sampled, billed,    \* the items of r with a row in node_metrics, usage_logs
    \* the process
    permits, queue,     \* the semaphore
    fallbackIndex,
    health,             \* consensusHealth
    \* the database, the consensus node, the world
    counter,            \* rate_limit_counters
    live,               \* the keys not revoked
    synced,             \* the consensus node is not syncing
    lastSynced,         \* history: when it last was
    clock,
    restarts,
    power,              \* what a signal has made of the process
    barred              \* history: requests not looked up yet when their key
                        \* was revoked

accountVars == <<work, sampled, billed>>
gateVars    == <<permits, queue>>
routeVars   == <<target, fallbackIndex, health, seen>>
worldVars   == <<live, synced, lastSynced, clock, restarts, power, barred>>
vars == <<stage, key, body, reply, noted, counter,
          accountVars, gateVars, routeVars, worldVars>>

\* The stages between `await semaphore.acquire()` and `semaphore.release()`.
Inside  == {"upstream", "touch", "record"}
Stages  == {"idle", "resolve", "allow", "limit", "probe", "waiting", "done"}
              \union Inside
Holders == {r \in Requests : stage[r] \in Inside}
Waiting  == {r \in Requests : stage[r] = "waiting"}
InFlight == {r \in Requests : stage[r] \notin {"idle", "done"}}

Sem == INSTANCE Semaphore WITH Callers <- Requests, holders <- Holders

NoTarget == -1
Primary  == 0           \* RPC_PROXY_TARGET; the fallbacks are 1..Fallbacks
Never    == -(HealthTtl + ProbeTimeout)
Expired  == [ok |-> FALSE, checkedAt |-> Never]

Init ==
    /\ stage = [r \in Requests |-> "idle"]
    /\ key \in [Requests -> Keys]
    /\ body = [r \in Requests |-> <<>>]
    /\ reply = [r \in Requests |-> "none"]
    /\ noted = [r \in Requests |-> 0]
    /\ target = [r \in Requests |-> NoTarget]
    /\ seen = [r \in Requests |-> "nothing"]
    /\ work = [r \in Requests |-> <<>>]
    /\ sampled = [r \in Requests |-> {}]
    /\ billed = [r \in Requests |-> {}]
    /\ permits = Permits /\ queue = <<>>
    /\ fallbackIndex = 0
    /\ health = Expired
    /\ counter = [k \in Keys |-> NoRow]
    /\ live = Keys
    /\ synced \in SyncStates
    /\ lastSynced = IF synced THEN 0 ELSE Never
    /\ clock = 0
    /\ restarts = 0
    /\ power = "up"
    /\ barred = {}
-----------------------------------------------------------------------------
(* Leaving one stage for the next.                                         *)

Goto(r, s) == stage' = [stage EXCEPT ![r] = s] /\ UNCHANGED reply

\* A reply sent while r holds no permit.
Refuse(r, status) ==
    /\ stage' = [stage EXCEPT ![r] = "done"]
    /\ reply' = [reply EXCEPT ![r] = status]

\* `await semaphore.acquire()`
EnterGate(r) ==
    /\ stage' = [stage EXCEPT ![r] = IF permits > 0 THEN "upstream" ELSE "waiting"]
    /\ Sem!Acquire(r)
    /\ UNCHANGED reply

\* Mutant of LeaveGate: the permit is released on a path that does not reply.
LeaveGateSilently(r, status) ==
    /\ stage' = [q \in Requests |->
                    IF q \in Sem!Woken THEN "upstream"
                    ELSE IF q = r THEN "done" ELSE stage[q]]
    /\ Sem!Release(r)
    /\ UNCHANGED reply

\* The reply and the `finally` that releases the permit; the request that is
\* handed the permit goes on to its upstream call.
LeaveGate(r, status) ==
    /\ stage' = [q \in Requests |->
                    IF q \in Sem!Woken THEN "upstream"
                    ELSE IF q = r THEN "done" ELSE stage[q]]
    /\ reply' = [reply EXCEPT ![r] = status]
    /\ Sem!Release(r)
-----------------------------------------------------------------------------
(* Arrival, authentication, allow list, rate limit.                        *)

ArriveKeyless(r) ==
    /\ stage[r] = "idle" /\ power = "up"
    /\ Refuse(r, "401")
    /\ UNCHANGED <<key, body, noted, counter, accountVars, gateVars, routeVars, worldVars>>

\* While `server.close()` waits, Fastify refuses what comes over a connection
\* that is still open.
ArriveLate(r) ==
    /\ stage[r] = "idle" /\ power = "draining"
    /\ Refuse(r, "503")
    /\ UNCHANGED <<key, body, noted, counter, accountVars, gateVars, routeVars, worldVars>>

Arrive(r, b) ==
    /\ stage[r] = "idle" /\ power = "up"
    /\ body' = [body EXCEPT ![r] = b]
    /\ Goto(r, "resolve")
    /\ UNCHANGED <<key, noted, counter, accountVars, gateVars, routeVars, worldVars>>

\* Mutant of Resolve: the revocation of a key is not looked at.
ResolveRevoked(r) ==
    /\ stage[r] = "resolve"
    /\ Goto(r, "allow") \/ Refuse(r, "500")
    /\ UNCHANGED <<key, body, noted, counter, accountVars, gateVars, routeVars, worldVars>>

\* resolveApiKey: only a key that is not revoked is found.
Resolve(r) ==
    /\ stage[r] = "resolve"
    /\ \/ key[r] \in live    /\ Goto(r, "allow")
       \/ key[r] \notin live /\ Refuse(r, "401")
       \/ Refuse(r, "500")                          \* the query rejects
    /\ UNCHANGED <<key, body, noted, counter, accountVars, gateVars, routeVars, worldVars>>

\* isIpAllowed; when it says yes, enforceRateLimit reads the clock.
CheckIp(r) ==
    /\ stage[r] = "allow"
    /\ \/ Goto(r, "limit") /\ noted' = [noted EXCEPT ![r] = clock]
       \/ Refuse(r, "403") /\ UNCHANGED noted
       \/ Refuse(r, "500") /\ UNCHANGED noted
    /\ UNCHANGED <<key, body, counter, accountVars, gateVars, routeVars, worldVars>>
-----------------------------------------------------------------------------
(* Routing: the code between the rate limit and the semaphore.             *)

UsesFinalityTag(kind) == kind = "finality"
\* Mutant of RequiresTrace: only the first item of a batch is looked at.
LeadsWithTrace(b)   == b # <<>> /\ b[1] = "trace"
RequiresTrace(b)    == \E i \in DOMAIN b : b[i] = "trace"
RequiresFinality(b) == \E i \in DOMAIN b : UsesFinalityTag(b[i])

\* The first item the block range loop stops at, if any: a range beyond the
\* plan is answered 400, a NaN makes the histogram throw outside any try.
Stops(b)     == {i \in DOMAIN b : b[i] \in {"wide", "unbounded"}}
FirstStop(b) == CHOOSE i \in Stops(b) : \A j \in Stops(b) : i <= j
Rejects(b)   == b = <<>> \/ Stops(b) # {}
Rejection(b) == IF b # <<>> /\ b[FirstStop(b)] = "unbounded" THEN "500" ELSE "400"

ToPrimary(r) ==
    /\ target' = [target EXCEPT ![r] = Primary]
    /\ EnterGate(r)
    /\ UNCHANGED fallbackIndex

\* nextFallbackEndpoint: round robin over the list, 503 when it is empty.
ToFallback(r) ==
    \/ /\ Fallbacks = 0
       /\ Refuse(r, "503")
       /\ UNCHANGED <<target, fallbackIndex, gateVars>>
    \/ /\ Fallbacks > 0
       /\ target' = [target EXCEPT ![r] = (fallbackIndex % Fallbacks) + 1]
       /\ fallbackIndex' = (fallbackIndex + 1) % Fallbacks
       /\ EnterGate(r)

\* What a request with a finality tag does with the consensus verdict.
OnVerdict(r, ok) ==
    \/ ok /\ ToPrimary(r)
    \/ ~ok /\ FallbackOnFinality /\ ToFallback(r)
    \/ /\ ~ok /\ ~FallbackOnFinality
       /\ Refuse(r, "503")
       /\ UNCHANGED <<target, fallbackIndex, gateVars>>

CacheFresh == clock - health.checkedAt < HealthTtl

\* An older cached verdict is not used: ask the consensus node, remembering
\* when the question was asked.
StartProbe(r) ==
    /\ Goto(r, "probe")
    /\ noted' = [noted EXCEPT ![r] = clock]
    /\ UNCHANGED <<target, fallbackIndex, gateVars>>

Route(r) ==
    LET b == body[r] IN
    \/ /\ Rejects(b)
       /\ Refuse(r, Rejection(b))
       /\ UNCHANGED <<noted, target, fallbackIndex, gateVars>>
    \/ /\ ~Rejects(b) /\ RequiresTrace(b)
       /\ ToFallback(r)
       /\ UNCHANGED noted
    \/ /\ ~Rejects(b) /\ ~RequiresTrace(b) /\ RequiresFinality(b)
       /\ \/ CacheFresh /\ OnVerdict(r, health.ok) /\ UNCHANGED noted
          \/ ~CacheFresh /\ StartProbe(r)
    \/ /\ ~Rejects(b) /\ ~RequiresTrace(b) /\ ~RequiresFinality(b)
       /\ ToPrimary(r)
       /\ UNCHANGED noted

\* enforceRateLimit's statement comes back: 429, or route the request.
EnforceLimit(r) ==
    LET k == key[r] IN
    /\ stage[r] = "limit"
    /\ counter' = [counter EXCEPT ![k] = Upserted(@, WindowStart(noted[r]))]
    /\ \/ /\ OverLimit(counter'[k], Limit[k])
          /\ Refuse(r, "429")
          /\ UNCHANGED <<noted, target, fallbackIndex, gateVars>>
       \/ /\ ~OverLimit(counter'[k], Limit[k])
          /\ Route(r)
    /\ UNCHANGED <<key, body, health, seen, accountVars, worldVars>>

\* The statement rejects, having counted the call or not.
LimitFails(r) ==
    LET k == key[r] IN
    /\ stage[r] = "limit"
    /\ \/ UNCHANGED counter
       \/ counter' = [counter EXCEPT ![k] = Upserted(@, WindowStart(noted[r]))]
    /\ Refuse(r, "500")
    /\ UNCHANGED <<key, body, noted, accountVars, gateVars, routeVars, worldVars>>
-----------------------------------------------------------------------------
(* isConsensusHealthy, past its cache.                                     *)

\* The node reads its sync state; its answer is on the way.
NodeAnswers(r) ==
    /\ stage[r] = "probe" /\ seen[r] = "nothing"
    /\ seen' = [seen EXCEPT ![r] = IF synced THEN "synced" ELSE "syncing"]
    /\ UNCHANGED <<stage, key, body, reply, noted, counter, target, fallbackIndex,
                   health, accountVars, gateVars, worldVars>>

\* Mutant of Remember: the verdict is dated by the time its answer arrives.
RememberLate(r, ok) == health' = [ok |-> ok, checkedAt |-> clock]

Remember(r, ok) == health' = [ok |-> ok, checkedAt |-> noted[r]]

\* The answer arrives, or the probe fails or times out.
ProbeEnds(r) ==
    /\ stage[r] = "probe"
    /\ \E ok \in BOOLEAN :
        /\ ok => seen[r] = "synced"
        /\ Remember(r, ok)
        /\ OnVerdict(r, ok)
    /\ UNCHANGED <<key, body, noted, counter, seen, accountVars, worldVars>>
-----------------------------------------------------------------------------
(* The upstream call and the accounting, with a permit held.               *)

\* forwardJsonRpc, or the chunked eth_getLogs, produced a response.
UpstreamAnswers(r) ==
    /\ stage[r] = "upstream"
    /\ Goto(r, "touch")
    /\ UNCHANGED <<key, body, noted, counter, accountVars, gateVars, routeVars, worldVars>>

\* The upstream call rejects: its status is passed on, or 502; the chunked
\* eth_getLogs answers 400 or 503 instead.
UpstreamFails(r) ==
    /\ stage[r] = "upstream"
    /\ \/ \E status \in {"upstream", "502"} : LeaveGate(r, status)
       \/ /\ OpenRpcEnabled /\ body[r] = <<"logs">>
          /\ \E status \in {"400", "503"} : LeaveGate(r, status)
    /\ UNCHANGED <<key, body, noted, counter, accountVars, routeVars, worldVars>>

\* touchApiKey, then every item's first write is sent before anything else runs.
Touch(r) ==
    /\ stage[r] = "touch"
    /\ Goto(r, "record")
    /\ work' = [work EXCEPT ![r] = [i \in DOMAIN body[r] |-> "sample"]]
    /\ UNCHANGED <<key, body, noted, counter, sampled, billed, gateVars, routeVars, worldVars>>

TouchFails(r) ==
    /\ stage[r] = "touch"
    /\ LeaveGate(r, "502")
    /\ UNCHANGED <<key, body, noted, counter, accountVars, routeVars, worldVars>>

\* recordMetricSample of item i, then recordUsage is sent, which rejects at
\* once after pool.end().
RecordSample(r, i) ==
    /\ work[r][i] = "sample"
    /\ sampled' = [sampled EXCEPT ![r] = @ \union {i}]
    /\ work' = [work EXCEPT ![r][i] = IF power = "ending" THEN "failed" ELSE "usage"]
    /\ UNCHANGED <<stage, key, body, reply, noted, counter, billed, gateVars, routeVars, worldVars>>

RecordUsage(r, i) ==
    /\ work[r][i] = "usage"
    /\ billed' = [billed EXCEPT ![r] = @ \union {i}]
    /\ work' = [work EXCEPT ![r][i] = "done"]
    /\ UNCHANGED <<stage, key, body, reply, noted, counter, sampled, gateVars, routeVars, worldVars>>

\* The INSERT item i waits for rejects, before it wrote its row or after.
WriteFails(r, i) ==
    /\ work[r][i] \in {"sample", "usage"}
    /\ \/ UNCHANGED <<sampled, billed>>
       \/ /\ work[r][i] = "sample"
          /\ sampled' = [sampled EXCEPT ![r] = @ \union {i}] /\ UNCHANGED billed
       \/ /\ work[r][i] = "usage"
          /\ billed' = [billed EXCEPT ![r] = @ \union {i}] /\ UNCHANGED sampled
    /\ work' = [work EXCEPT ![r][i] = "failed"]
    /\ UNCHANGED <<stage, key, body, reply, noted, counter, gateVars, routeVars, worldVars>>

\* Mutant of Settle: the reply does not wait for the writes it started.
SettleEarly(r) ==
    /\ stage[r] = "record"
    /\ LeaveGate(r, "200")
    /\ UNCHANGED <<key, body, noted, counter, accountVars, routeVars, worldVars>>

\* Promise.all resolves when every item is written and rejects with the first
\* that fails; the writes of the others go on without the request.
Settle(r) ==
    /\ stage[r] = "record"
    /\ \/ (\A i \in DOMAIN work[r] : work[r][i] = "done") /\ LeaveGate(r, "200")
       \/ (\E i \in DOMAIN work[r] : work[r][i] = "failed") /\ LeaveGate(r, "502")
    /\ UNCHANGED <<key, body, noted, counter, accountVars, routeVars, worldVars>>
-----------------------------------------------------------------------------
(* The rest of the world.                                                  *)

\* A probe that has waited ProbeTimeout ends before time moves on.
Tick ==
    /\ clock < MaxTime
    /\ \A r \in Requests : stage[r] = "probe" => clock - noted[r] < ProbeTimeout
    /\ clock' = clock + 1
    /\ lastSynced' = IF synced THEN clock' ELSE lastSynced
    /\ UNCHANGED <<stage, key, body, reply, noted, counter, live, synced, restarts, power, barred,
                   accountVars, gateVars, routeVars>>

SyncChanges ==
    /\ synced' \in SyncStates \ {synced}
    /\ lastSynced' = clock
    /\ UNCHANGED <<stage, key, body, reply, noted, counter, live, clock, restarts, power, barred,
                   accountVars, gateVars, routeVars>>

\* The auth service sets revoked_at.
Revoke(k) ==
    /\ k \in live
    /\ live' = live \ {k}
    /\ barred' = barred \union {r \in Requests : key[r] = k /\ stage[r] \in {"idle", "resolve"}}
    /\ UNCHANGED <<stage, key, body, reply, noted, counter, synced, lastSynced, clock,
                   restarts, power, accountVars, gateVars, routeVars>>

\* SIGINT or SIGTERM: shutdown() awaits server.close().
Signal ==
    /\ Signals
    /\ power = "up"
    /\ power' = "draining"
    /\ UNCHANGED <<stage, key, body, reply, noted, counter, live, synced, lastSynced, clock,
                   restarts, barred, accountVars, gateVars, routeVars>>

\* The writes whose statement is on its way.
UnderWay ==
    {w \in Requests \X ItemNumbers :
        w[2] \in DOMAIN work[w[1]] /\ work[w[1]][w[2]] \in {"sample", "usage"}}

\* The writes of W are lost with what awaits them (if one lands all the same,
\* that is its Record step before this one).
Abandoned(W) ==
    [r \in Requests |-> [i \in DOMAIN work[r] |->
        IF <<r, i>> \in W THEN "failed" ELSE work[r][i]]]

\* Every request has been answered, so shutdown() goes on to pool.end(): it
\* waits for the statements that have a client of the pool; those that still
\* wait for one never get it, and no new one is taken.
Drained ==
    /\ power = "draining"
    /\ InFlight = {}
    /\ power' = "ending"
    /\ \E W \in SUBSET UnderWay : work' = Abandoned(W)
    /\ UNCHANGED <<stage, key, body, reply, noted, counter, live, synced, lastSynced, clock,
                   restarts, barred, sampled, billed, gateVars, routeVars>>

\* Mutant of Exit: the pool is waited for until every row has been written.
ExitWhenAllWritten ==
    /\ power = "ending"
    /\ \A r \in Requests : \A i \in DOMAIN work[r] : work[r][i] = "done"
    /\ power' = "exited"
    /\ UNCHANGED <<stage, key, body, reply, noted, counter, live, synced, lastSynced, clock,
                   restarts, barred, accountVars, gateVars, routeVars>>

\* pool.end() resolves once the last statement has come back: process.exit(0).
Exit ==
    /\ power = "ending"
    /\ UnderWay = {}
    /\ power' = "exited"
    /\ UNCHANGED <<stage, key, body, reply, noted, counter, live, synced, lastSynced, clock,
                   restarts, barred, accountVars, gateVars, routeVars>>

\* A second signal, whenever it came, calls pool.end() on a pool that is ending:
\* that rejects, nobody handles it, and the process ends with what still runs.
SignalAgain ==
    /\ Signals
    /\ power = "ending"
    /\ power' = "exited"
    /\ work' = Abandoned(UnderWay)
    /\ UNCHANGED <<stage, key, body, reply, noted, counter, live, synced, lastSynced, clock,
                   restarts, barred, sampled, billed, gateVars, routeVars>>

\* The process dies, or has exited, and starts again: its requests get no reply
\* and its memory is as at the start.
Restart ==
    /\ restarts < MaxRestarts
    /\ restarts' = restarts + 1
    /\ power' = "up"
    /\ stage' = [r \in Requests |-> IF r \in InFlight THEN "done" ELSE stage[r]]
    /\ reply' = [r \in Requests |-> IF r \in InFlight THEN "lost" ELSE reply[r]]
    /\ Sem!Restart
    /\ fallbackIndex' = 0
    /\ health' = Expired
    /\ work' = Abandoned(UnderWay)
    /\ UNCHANGED <<key, body, noted, counter, target, seen, sampled, billed,
                   live, synced, lastSynced, clock, barred>>
-----------------------------------------------------------------------------
Handler(r) ==
    \/ Resolve(r) \/ CheckIp(r) \/ EnforceLimit(r) \/ LimitFails(r)
    \/ ProbeEnds(r)
    \/ UpstreamAnswers(r) \/ UpstreamFails(r)
    \/ Touch(r) \/ TouchFails(r) \/ Settle(r)

Write(r, i) == RecordSample(r, i) \/ RecordUsage(r, i) \/ WriteFails(r, i)

Next ==
    \/ \E r \in Requests :
        \/ ArriveKeyless(r) \/ ArriveLate(r)
        \/ \E b \in Batches : Arrive(r, b)
        \/ Handler(r)
        \/ NodeAnswers(r)
        \/ \E i \in DOMAIN work[r] : Write(r, i)
    \/ \E k \in Keys : Revoke(k)
    \/ Tick \/ SyncChanges
    \/ Signal \/ Drained \/ Exit \/ SignalAgain \/ Restart

Spec == Init /\ [][Next]_vars

\* Every await the handler makes ends: a query or an upstream call comes back
\* or rejects, and the event loop runs what is ready, shutdown() included.
\* Arrivals, revocations, signals, the second one too, and restarts never have
\* to happen.
Fairness ==
    /\ \A r \in Requests :
        /\ WF_vars(Handler(r))
        /\ \A i \in ItemNumbers : WF_vars(i \in DOMAIN work[r] /\ Write(r, i))
    /\ WF_vars(Drained \/ Exit)

FairSpec == Spec /\ Fairness
-----------------------------------------------------------------------------
Replies  == {"none", "200", "400", "401", "403", "429", "500", "502", "503",
             "upstream", "lost"}
Progress == {"sample", "usage", "done", "failed"}

\* Every variable holds a value of its kind, a request without a reply is
\* still in flight, and no item is written for that the body does not have.
TypeOK ==
    /\ stage \in [Requests -> Stages]
    /\ key \in [Requests -> Keys]
    /\ body \in [Requests -> Batches \union {<<>>}]
    /\ reply \in [Requests -> Replies]
    /\ \A r \in Requests : reply[r] = "none" <=> stage[r] # "done"
    /\ noted \in [Requests -> 0..MaxTime]
    /\ target \in [Requests -> {NoTarget, Primary} \union 1..Fallbacks]
    /\ seen \in [Requests -> {"nothing", "synced", "syncing"}]
    /\ work \in [Requests -> Seq(Progress)]
    /\ \A r \in Requests : DOMAIN work[r] \subseteq DOMAIN body[r]
    /\ sampled \in [Requests -> SUBSET ItemNumbers]
    /\ billed \in [Requests -> SUBSET ItemNumbers]
    /\ permits \in Nat
    /\ queue \in Seq(Requests)
    /\ fallbackIndex \in Nat
    /\ health \in [ok : BOOLEAN, checkedAt : {Never} \union 0..MaxTime]
    /\ counter \in [Keys -> [window : Int, count : Nat]]
    /\ live \subseteq Keys
    /\ synced \in SyncStates
    /\ lastSynced \in {Never} \union 0..MaxTime
    /\ clock \in 0..MaxTime
    /\ restarts \in 0..MaxRestarts
    /\ power \in {"up", "draining", "ending", "exited"}
    /\ barred \subseteq Requests

\* Whatever way a request leaves the gate (answered, refused by the chunked
\* eth_getLogs, failed upstream, failed while recording), every permit is
\* either free or held by one request between acquire and release, and the
\* requests in the queue are those whose acquire has not resolved.
PermitsAccounted ==
    /\ permits + Cardinality(Holders) = Permits
    /\ permits > 0 => queue = <<>>
    /\ Waiting = Range(queue)
    /\ IsInjective(queue)

\* The requests use the semaphore as the gate it is meant to be: bounded,
\* never idle while someone waits, first come first served.
Gate == INSTANCE FifoGate
            WITH Clients <- Requests, Capacity <- Permits,
                 inside <- Holders, line <- queue
GateSpec == Gate!Spec

\* Promise.all and the `finally` keep the books: a request answered 200 has
\* both rows of every item of its batch, a row in usage_logs belongs to a
\* request the upstream served and never to one that was refused, and no
\* item is billed without its metric sample.
SettledAccounts ==
    \A r \in Requests :
        /\ reply[r] = "200" => billed[r] = DOMAIN body[r]
        /\ billed[r] # {} => reply[r] \in {"none", "200", "502", "lost"}
        /\ billed[r] \subseteq sampled[r]

\* Every request that arrives is answered, or lost to a restart: no request is
\* forgotten in the semaphore's queue, at a probe, or behind a write that
\* failed.  Permits must be positive.
EveryRequestAnswered ==
    \A r \in Requests : stage[r] # "idle" ~> stage[r] = "done"

\* A process told to stop does stop: no request in the semaphore's queue, at a
\* probe or behind a failed write keeps server.close() waiting for ever, and no
\* write that a reply left behind (done, failed or never given a client) keeps
\* pool.end() waiting.  It needs no second signal.  Permits must be positive.
ShutdownEnds == power = "draining" ~> power \in {"exited", "up"}

\* A key is looked up once per request and never again, so a revocation stops
\* every request that has not been looked up by then, wherever it is later: it
\* is not forwarded, nor answered 200.
RevokedStayOut ==
    \A r \in barred : target[r] = NoTarget /\ reply[r] # "200" /\ billed[r] = {}

\* "A single trace_* call sends the whole batch to the fallback" (README.md):
\* no batch with a trace call is ever given the primary, whatever else is in it.
TraceOffPrimary ==
    \A r \in Requests : target[r] = Primary => "trace" \notin Range(body[r])

\* A request with a finality tag is given the primary only when the consensus
\* node was in sync recently: within the life of a cached verdict, or within
\* the time a probe may take.  It holds although probes overlap, answers come
\* late and an older answer overwrites a newer one, because a verdict is dated
\* by the time its probe started.
Recently == clock - lastSynced < HealthTtl \/ clock - lastSynced <= ProbeTimeout
GivenPrimary(r) == target[r] # Primary /\ target'[r] = Primary

FinalityBacked ==
    [][\A r \in Requests :
        GivenPrimary(r) /\ RequiresFinality(body[r]) => Recently]_vars

\* The same for every request that asks for finalized or safe state, as
\* README.md has it ("polls Lighthouse via CL_HEALTH_ENDPOINT before serving
\* finalized/safe").  The code does not keep this (see the run that expects a
\* violation).
AsksForFinality(b) == \E i \in DOMAIN b : b[i] \in {"finality", "finality-unseen"}

EveryFinalityBacked ==
    [][\A r \in Requests :
        GivenPrimary(r) /\ AsksForFinality(body[r]) => Recently]_vars
=============================================================================
