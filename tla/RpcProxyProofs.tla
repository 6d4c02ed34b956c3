--------------------------- MODULE RpcProxyProofs ---------------------------
(***************************************************************************)
(* For any number of requests, keys, permits and fallbacks: the handler    *)
(* uses the semaphore correctly (its permits are accounted for, and its    *)
(* requests pass as through a first-come-first-served gate); what is       *)
(* written agrees with the reply; a request of a revoked key gets nowhere; *)
(* trace stays off the primary and finality goes there on a recent verdict.*)
(***************************************************************************)
EXTENDS RpcProxy, TLAPS

SemP == INSTANCE SemaphoreProofs WITH Callers <- Requests, holders <- Holders

\* The semaphore of the proofs is the one of the model.
LEMMA SameSemaphore ==
  /\ Sem!Next => SemP!Next
  /\ Range(queue) = SemP!Range(queue)
  /\ Range(queue)' = SemP!Range(queue)'
  /\ IsInjective(queue) <=> SemP!IsInjective(queue)
  BY DEF Sem!Next, SemP!Next, Sem!Restart, SemP!Restart, Sem!Acquire, SemP!Acquire,
         Sem!Release, SemP!Release, Sem!Woken, SemP!Woken, Sem!Waiters, SemP!Waiters,
         Sem!Range, SemP!Range, Range, IsInjective, SemP!IsInjective

LEMMA SameGate ==
  [SemP!Gate!Next]_<<Holders, queue>> => [Gate!Next]_<<Holders, queue>>
  BY DEF SemP!Gate!Next, Gate!Next, SemP!Gate!Close, Gate!Close,
         SemP!Gate!Arrive, Gate!Arrive, SemP!Gate!Depart, Gate!Depart,
         SemP!Gate!Outside, Gate!Outside, SemP!Gate!Room, Gate!Room,
         SemP!Gate!Cardinality, Gate!Cardinality

LEMMA SameCount == \A S : SemP!Cardinality(S) = Cardinality(S)
  BY DEF SemP!Cardinality, Cardinality

-----------------------------------------------------------------------------
(* How the handler's moves look from the gate.                             *)

\* The inductive invariant: the semaphore is in order, and its queue holds the
\* requests that wait, so a request that arrives at it is not in it yet and
\* the one it wakes is waiting.
StageOK == stage \in [Requests -> Stages]
GInv    == StageOK /\ SemP!IInv /\ Waiting = Range(queue)

\* A step the gate does not see, and one that is an operation on it.
Quiet    == UNCHANGED <<permits, queue, Holders, Waiting>>
GateStep == StageOK' /\ (Quiet \/ (Sem!Next /\ Waiting' = Range(queue)'))

LEMMA GotoIsQuiet ==
  ASSUME StageOK, NEW r \in Requests, NEW s \in Stages, Goto(r, s),
         stage[r] \in Inside <=> s \in Inside,
         stage[r] = "waiting" <=> s = "waiting",
         UNCHANGED gateVars
  PROVE  GateStep
<1>1. stage' = [stage EXCEPT ![r] = s] /\ UNCHANGED <<permits, queue>>
  BY DEF Goto, gateVars
<1>2. Holders' = Holders /\ Waiting' = Waiting
  BY <1>1 DEF StageOK, Holders, Waiting
<1>3. StageOK'
  BY <1>1 DEF StageOK
<1> QED BY <1>1, <1>2, <1>3 DEF GateStep, Quiet

LEMMA RefuseIsQuiet ==
  ASSUME StageOK, NEW r \in Requests, NEW status, Refuse(r, status),
         stage[r] \notin Inside \union {"waiting"},
         UNCHANGED gateVars
  PROVE  GateStep
<1>1. stage' = [stage EXCEPT ![r] = "done"] /\ UNCHANGED <<permits, queue>>
  BY DEF Refuse, gateVars
<1>2. Holders' = Holders /\ Waiting' = Waiting
  BY <1>1 DEF StageOK, Holders, Waiting, Inside
<1>3. StageOK'
  BY <1>1 DEF StageOK, Stages
<1> QED BY <1>1, <1>2, <1>3 DEF GateStep, Quiet

LEMMA EnterIsAcquire ==
  ASSUME GInv, NEW r \in Requests, EnterGate(r),
         stage[r] \notin Inside \union {"waiting"}
  PROVE  GateStep
<1>1. r \notin Holders /\ r \notin Waiting
  BY DEF Holders, Waiting
<1>2. Waiting = Range(queue) /\ StageOK /\ queue \in Seq(Requests)
      /\ SemP!IsInjective(queue)
  BY DEF GInv, SemP!IInv, SemP!TypeOK, SemP!PlacedOnce
<1>3. Sem!Acquire(r)
  BY DEF EnterGate
<1>4. Sem!Next
  BY <1>1, <1>2, <1>3 DEF Sem!Next, Sem!Waiters, Sem!Range, Range
<1>5. StageOK'
  BY <1>2 DEF EnterGate, StageOK, Stages, Inside
<1>6. CASE permits > 0
  <2>1. stage' = [stage EXCEPT ![r] = "upstream"] /\ queue' = queue
    BY <1>3, <1>6 DEF EnterGate, Sem!Acquire
  <2>2. Waiting' = Waiting
    BY <1>1, <1>2, <2>1 DEF Waiting, StageOK
  <2> QED BY <1>2, <1>4, <1>5, <2>1, <2>2 DEF GateStep, Range
<1>7. CASE ~(permits > 0)
  <2>1. stage' = [stage EXCEPT ![r] = "waiting"] /\ queue' = Append(queue, r)
    BY <1>3, <1>7 DEF EnterGate, Sem!Acquire
  <2>2. Waiting' = Waiting \union {r}
    BY <1>2, <2>1 DEF Waiting, StageOK
  <2>3. SemP!Range(Append(queue, r)) = SemP!Range(queue) \union {r}
    BY <1>1, <1>2, SameSemaphore, SemP!AppendToQueue
  <2>4. Range(queue)' = Range(queue) \union {r}
    BY <2>1, <2>3 DEF SemP!Range, Range
  <2> QED BY <1>2, <1>4, <1>5, <2>2, <2>4 DEF GateStep
<1> QED BY <1>6, <1>7

LEMMA LeaveIsRelease ==
  ASSUME GInv, NEW r \in Requests, NEW status, LeaveGate(r, status),
         stage[r] \in Inside
  PROVE  GateStep
<1>1. r \in Holders
  BY DEF Holders
<1>2. Waiting = Range(queue) /\ StageOK /\ queue \in Seq(Requests)
      /\ SemP!IsInjective(queue) /\ permits \in Nat
  BY DEF GInv, SemP!IInv, SemP!TypeOK, SemP!PlacedOnce
<1>3. Sem!Release(r)
  BY DEF LeaveGate
<1>4. Sem!Next
  BY <1>1, <1>3 DEF Sem!Next, Holders
<1>5. stage' = [q \in Requests |-> IF q \in Sem!Woken THEN "upstream"
                                   ELSE IF q = r THEN "done" ELSE stage[q]]
  BY DEF LeaveGate
<1>6. StageOK'
  BY <1>2, <1>5 DEF StageOK, Stages, Inside
<1>7. CASE queue = <<>>
  <2>1. Sem!Woken = {} /\ queue' = queue
    BY <1>3, <1>7 DEF Sem!Woken, Sem!Release
  <2>2. Waiting' = Waiting
    BY <1>2, <1>5, <2>1 DEF Waiting, Inside
  <2> QED BY <1>2, <1>4, <1>6, <2>1, <2>2 DEF GateStep, Range
<1>8. CASE queue # <<>>
  <2> DEFINE w == Head(queue)
  <2>1. Sem!Woken = {w} /\ queue' = Tail(queue)
    BY <1>2, <1>3, <1>8 DEF Sem!Woken, Sem!Release
  <2>2. SemP!Range(Tail(queue)) = SemP!Range(queue) \ {w} /\ w \in SemP!Range(queue)
    BY <1>2, <1>8, SemP!TailOfQueue
  <2>3. Range(queue)' = Range(queue) \ {w} /\ w \in Waiting
    BY <1>2, <2>1, <2>2 DEF SemP!Range, Range
  <2>4. Waiting' = Waiting \ {w}
    BY <1>2, <1>5, <2>1, <2>3 DEF Waiting, Inside
  <2> QED BY <1>2, <1>4, <1>6, <2>3, <2>4 DEF GateStep
<1> QED BY <1>7, <1>8

\* Routing reaches the gate at most once, and only from outside it.
LEMMA RouteGateStep ==
  ASSUME GInv, NEW r \in Requests, stage[r] \notin Inside \union {"waiting"}
  PROVE  /\ ToPrimary(r) => GateStep
         /\ ToFallback(r) => GateStep
         /\ \A ok \in BOOLEAN : OnVerdict(r, ok) => GateStep
         /\ Route(r) => GateStep
<1>1. StageOK
  BY DEF GInv
<1>2. ToPrimary(r) => GateStep
  BY EnterIsAcquire DEF ToPrimary
<1>3. ToFallback(r) => GateStep
  BY <1>1, EnterIsAcquire, RefuseIsQuiet DEF ToFallback
<1>4. \A ok \in BOOLEAN : OnVerdict(r, ok) => GateStep
  BY <1>1, <1>2, <1>3, RefuseIsQuiet DEF OnVerdict
<1>5. StartProbe(r) => GateStep
  <2>1. "probe" \in Stages /\ "probe" \notin Inside
    BY DEF Stages, Inside
  <2> QED BY <1>1, <2>1, GotoIsQuiet DEF StartProbe
<1>6. SUFFICES ASSUME Route(r) PROVE GateStep
  BY <1>2, <1>3, <1>4
<1>7. CASE Refuse(r, Rejection(body[r])) /\ UNCHANGED gateVars
  BY <1>1, <1>7, RefuseIsQuiet
<1>8. CASE \E ok : ok = health.ok /\ OnVerdict(r, ok)
  BY <1>1, <1>2, <1>3, <1>8, RefuseIsQuiet DEF OnVerdict
<1> QED BY <1>2, <1>3, <1>5, <1>6, <1>7, <1>8 DEF Route

LEMMA HandlerGateStep ==
  ASSUME GInv, NEW r \in Requests, Handler(r)
  PROVE  GateStep
<1>1. StageOK
  BY DEF GInv
<1> USE <1>1 DEF Stages, Inside
<1>2. CASE Resolve(r)
  BY <1>2, GotoIsQuiet, RefuseIsQuiet DEF Resolve
<1>3. CASE CheckIp(r)
  BY <1>3, GotoIsQuiet, RefuseIsQuiet DEF CheckIp
<1>4. CASE EnforceLimit(r)
  BY <1>4, RouteGateStep, RefuseIsQuiet DEF EnforceLimit
<1>5. CASE LimitFails(r)
  BY <1>5, RefuseIsQuiet DEF LimitFails
<1>6. CASE ProbeEnds(r)
  BY <1>6, RouteGateStep DEF ProbeEnds
<1>7. CASE UpstreamAnswers(r)
  BY <1>7, GotoIsQuiet DEF UpstreamAnswers
<1>8. CASE UpstreamFails(r)
  BY <1>8, LeaveIsRelease DEF UpstreamFails
<1>9. CASE Touch(r)
  BY <1>9, GotoIsQuiet DEF Touch
<1>10. CASE TouchFails(r)
  BY <1>10, LeaveIsRelease DEF TouchFails
<1>11. CASE Settle(r)
  BY <1>11, LeaveIsRelease DEF Settle
<1> QED
  BY <1>2, <1>3, <1>4, <1>5, <1>6, <1>7, <1>8, <1>9, <1>10, <1>11 DEF Handler

LEMMA NextGateStep == GInv /\ [Next]_vars => GateStep
<1> SUFFICES ASSUME GInv, [Next]_vars PROVE GateStep
  OBVIOUS
<1>1. StageOK
  BY DEF GInv
<1>2. (UNCHANGED <<stage, gateVars>>) => GateStep
  BY <1>1 DEF GateStep, Quiet, StageOK, Holders, Waiting, gateVars
<1>3. ASSUME NEW r \in Requests, ArriveKeyless(r) PROVE GateStep
  BY <1>1, <1>3, RefuseIsQuiet DEF ArriveKeyless, Inside
<1>12. ASSUME NEW r \in Requests, ArriveLate(r) PROVE GateStep
  BY <1>1, <1>12, RefuseIsQuiet DEF ArriveLate, Inside
<1>4. ASSUME NEW r \in Requests, NEW b \in Batches, Arrive(r, b) PROVE GateStep
  BY <1>1, <1>4, GotoIsQuiet DEF Arrive, Inside, Stages
<1>5. ASSUME NEW r \in Requests, Handler(r) PROVE GateStep
  BY <1>5, HandlerGateStep
<1>6. ASSUME NEW r \in Requests, NodeAnswers(r) PROVE GateStep
  BY <1>2, <1>6 DEF NodeAnswers
<1>7. ASSUME NEW r \in Requests, NEW i \in DOMAIN work[r], Write(r, i) PROVE GateStep
  BY <1>2, <1>7 DEF Write, RecordSample, RecordUsage, WriteFails
<1>8. ASSUME NEW k \in Keys, Revoke(k) PROVE GateStep
  BY <1>2, <1>8 DEF Revoke
<1>9. CASE Tick \/ SyncChanges
  BY <1>2, <1>9 DEF Tick, SyncChanges
<1>13. CASE Signal \/ Drained \/ Exit \/ SignalAgain
  BY <1>2, <1>13 DEF Signal, Drained, Exit, SignalAgain
<1>10. CASE Restart
  <2>1. stage' = [r \in Requests |-> IF r \in InFlight THEN "done" ELSE stage[r]]
    BY <1>10 DEF Restart
  <2>2. Sem!Restart
    BY <1>10 DEF Restart
  <2>3. StageOK'
    BY <1>1, <2>1 DEF StageOK, Stages
  <2>4. Waiting' = {}
    BY <2>1 DEF Waiting, InFlight
  <2>5. Range(queue)' = {}
    BY <2>2 DEF Sem!Restart, Range
  <2> QED BY <2>2, <2>3, <2>4, <2>5 DEF GateStep, Sem!Next
<1>11. CASE UNCHANGED vars
  BY <1>2, <1>11 DEF vars
<1> QED
  BY <1>3, <1>4, <1>5, <1>6, <1>7, <1>8, <1>9, <1>10, <1>11,
     <1>12, <1>13 DEF Next

-----------------------------------------------------------------------------

LEMMA InitGInv == Init => GInv
<1> SUFFICES ASSUME Init PROVE GInv
  OBVIOUS
<1>1. permits = Permits /\ queue = <<>> /\ stage = [r \in Requests |-> "idle"]
  BY DEF Init
<1>2. StageOK /\ Holders = {} /\ Waiting = {} /\ Range(queue) = {}
  BY <1>1 DEF StageOK, Stages, Holders, Waiting, Inside, Range
<1>3. SemP!IInv
  BY <1>1, <1>2, SemP!FreshIInv, PermitsAssumption
<1> QED BY <1>2, <1>3 DEF GInv

LEMMA NextGInv == GInv /\ [Next]_vars => GInv'
<1> SUFFICES ASSUME GInv, [Next]_vars PROVE GInv'
  OBVIOUS
<1>1. GateStep /\ SemP!IInv
  BY NextGateStep DEF GInv
<1>2. SemP!IInv'
  BY <1>1, SameSemaphore, SemP!NextIInv DEF GateStep, Quiet, SemP!vars
<1>3. Waiting' = Range(queue)'
  BY <1>1 DEF GateStep, Quiet, GInv, Range
<1> QED BY <1>1, <1>2, <1>3 DEF GInv, GateStep

LEMMA SpecGInv == Spec => []GInv
  BY InitGInv, NextGInv, PTL DEF Spec

\* Whatever way requests leave the gate, no permit is lost or held twice, no
\* permit is free while a request waits, and the queue is those that wait.
THEOREM PermitsAlwaysAccounted == Spec => []PermitsAccounted
<1>1. GInv => PermitsAccounted
  BY SameCount, SameSemaphore
  DEF GInv, PermitsAccounted, SemP!IInv, SemP!PermitsConserved, SemP!PlacedOnce
<1> QED BY <1>1, SpecGInv, PTL

\* The handler implements the bounded first-come-first-served gate.
THEOREM ProxyImplementsGate == Spec => GateSpec
<1>1. Init => Gate!Init
  BY DEF Init, Gate!Init, Holders, Inside
<1>2. GInv /\ [Next]_vars => [Gate!Next]_<<Holders, queue>>
  <2> SUFFICES ASSUME GInv, [Next]_vars PROVE [Gate!Next]_<<Holders, queue>>
    OBVIOUS
  <2>1. GateStep /\ SemP!IInv
    BY NextGateStep DEF GInv
  <2>2. CASE Quiet
    BY <2>2 DEF Quiet
  <2>3. CASE Sem!Next
    BY <2>1, <2>3, SameSemaphore, SameGate, SemP!NextIsGateNext
  <2> QED BY <2>1, <2>2, <2>3 DEF GateStep
<1> QED BY <1>1, <1>2, SpecGInv, PTL DEF Spec, GateSpec, Gate!Spec
-----------------------------------------------------------------------------
(***************************************************************************)
(* One request: what it has been given, written and answered.              *)
(***************************************************************************)

\* The stages before a request is given an upstream, and before it writes.
Early   == {"idle", "resolve", "allow", "limit", "probe"}
Unwritten == Early \union {"waiting"} \union {"upstream", "touch"}

\* A request is given an upstream once, after it is known to ask for no trace
\* if that upstream is the primary.
RouteOK(d) ==
    /\ stage[d] \in Early => target[d] = NoTarget
    /\ stage[d] = "probe" => ~RequiresTrace(body[d])
    /\ target[d] = Primary => ~RequiresTrace(body[d])

\* Its writes are of the items of its body, the usage row after the sample,
\* and there are none before all of them are sent.
BooksOK(d) ==
    /\ stage[d] \in Unwritten => work[d] = <<>> /\ sampled[d] = {} /\ billed[d] = {}
    /\ stage[d] = "record" => DOMAIN work[d] = DOMAIN body[d]
    /\ DOMAIN work[d] \subseteq DOMAIN body[d]
    /\ billed[d] \subseteq sampled[d] /\ sampled[d] \subseteq DOMAIN work[d]
    /\ \A i \in DOMAIN work[d] :
        /\ work[d][i] \in {"usage", "done"} => i \in sampled[d]
        /\ work[d][i] = "done" => i \in billed[d]

\* Its reply says how far it came.
ReplyOK(d) ==
    /\ reply[d] = "none" <=> stage[d] # "done"
    /\ reply[d] \notin {"none", "200", "502", "lost"} => work[d] = <<>> /\ billed[d] = {}
    /\ reply[d] = "200" => /\ DOMAIN work[d] = DOMAIN body[d]
                           /\ \A i \in DOMAIN work[d] : work[d][i] = "done"

RequestOK(d) == RouteOK(d) /\ BooksOK(d) /\ ReplyOK(d)

(* What one step does to one request.                                      *)

Kept(d)  == stage'[d] = stage[d] /\ reply'[d] = reply[d]
Rest(d)  == body'[d] = body[d] /\ target'[d] = target[d]
Books(d) == work'[d] = work[d] /\ sampled'[d] = sampled[d] /\ billed'[d] = billed[d]
Moves(d, from, to) ==
    stage[d] \in from /\ stage'[d] \in to /\ reply'[d] = reply[d]

Arrives(d) == Moves(d, {"idle"}, {"resolve"}) /\ target'[d] = target[d] /\ Books(d)
Proceeds(d) ==
    /\ \/ Moves(d, {"resolve"}, {"allow"}) /\ key[d] \in live
       \/ Moves(d, {"allow"}, {"limit"})
       \/ Moves(d, {"waiting"}, {"upstream"}) \/ Moves(d, {"upstream"}, {"touch"})
       \/ Moves(d, {"limit"}, {"probe"}) /\ ~RequiresTrace(body[d])
    /\ Rest(d) /\ Books(d)
IsRefused(d) ==
    /\ stage[d] \in Unwritten \ {"waiting"} /\ stage'[d] = "done"
    /\ reply'[d] \in Replies \ {"none", "200"}
    /\ Rest(d) /\ Books(d)
IsRouted(d) ==
    /\ Moves(d, {"limit", "probe"}, {"waiting", "upstream"})
    /\ target'[d] \in {Primary} \union 1..Fallbacks
    /\ target'[d] = Primary => ~RequiresTrace(body[d])
    /\ body'[d] = body[d] /\ Books(d)
Records(d) ==
    /\ Moves(d, {"touch"}, {"record"}) /\ Rest(d)
    /\ work'[d] = [i \in DOMAIN body[d] |-> "sample"]
    /\ sampled'[d] = sampled[d] /\ billed'[d] = billed[d]
Writes(d) ==
    /\ Kept(d) /\ Rest(d)
    /\ \E i \in DOMAIN work[d], p \in Progress \ {"sample"} :
        /\ work[d][i] \in {"sample", "usage"}
        /\ work'[d] = [work[d] EXCEPT ![i] = p]
        /\ p = "done" => work[d][i] = "usage" /\ i \in billed'[d]
        /\ p = "usage" => i \in sampled'[d]
        /\ sampled'[d] \in {sampled[d], sampled[d] \union {i}}
        /\ \/ billed'[d] = billed[d]
           \/ work[d][i] = "usage" /\ billed'[d] = billed[d] \union {i}
Settles(d) ==
    /\ stage[d] = "record" /\ stage'[d] = "done"
    /\ \/ reply'[d] = "200" /\ (\A i \in DOMAIN work[d] : work[d][i] = "done")
       \/ reply'[d] = "502"
    /\ Rest(d) /\ Books(d)
Loses(d) ==
    /\ \/ Kept(d)
       \/ stage[d] \notin {"idle", "done"} /\ stage'[d] = "done" /\ reply'[d] = "lost"
    /\ \E lost \in SUBSET {i \in DOMAIN work[d] : work[d][i] \in {"sample", "usage"}} :
          work'[d] = [i \in DOMAIN work[d] |-> IF i \in lost THEN "failed" ELSE work[d][i]]
    /\ sampled'[d] = sampled[d] /\ billed'[d] = billed[d]
    /\ Rest(d)

Local(d) ==
    \/ Kept(d) /\ Rest(d) /\ Books(d)
    \/ Arrives(d) \/ Proceeds(d) \/ IsRefused(d) \/ IsRouted(d)
    \/ Records(d) \/ Writes(d) \/ Settles(d) \/ Loses(d)

\* A request that is in order stays so, whichever of these happens to it.
LEMMA LocalKeeps ==
    ASSUME NEW d \in Requests, RequestOK(d), Local(d), stage[d] \in Stages,
           stage'[d] \in Stages
    PROVE  RequestOK(d)'
<1> USE DEF Moves, Kept, Rest, Books
<1>1. RouteOK(d)'
  BY DEF Local, RequestOK, RouteOK, BooksOK, ReplyOK, Early, Unwritten, Stages, Inside,
         Arrives, Proceeds, IsRefused, IsRouted, Records, Writes, Settles, Loses,
         NoTarget, Primary
<1>2. BooksOK(d)'
  <2> USE DEF RequestOK, BooksOK, ReplyOK, Early, Unwritten, Stages, Inside
  <2>1. CASE Kept(d) /\ Rest(d) /\ Books(d)
    BY <2>1
  <2>2. CASE Arrives(d) \/ Proceeds(d) \/ IsRefused(d) \/ IsRouted(d)
    BY <2>2 DEF Arrives, Proceeds, IsRefused, IsRouted
  <2>3. CASE Records(d)
    BY <2>3 DEF Records
  <2>4. CASE Writes(d)
    BY <2>4 DEF Writes, Progress
  <2>5. CASE Settles(d)
    BY <2>5 DEF Settles
  <2>6. CASE Loses(d)
    BY <2>6 DEF Loses
  <2> QED BY <2>1, <2>2, <2>3, <2>4, <2>5, <2>6 DEF Local
<1>3. ReplyOK(d)'
  <2> USE DEF RequestOK, ReplyOK, BooksOK, Early, Unwritten, Stages, Inside, Replies
  <2>1. CASE Kept(d) /\ Rest(d) /\ Books(d)
    BY <2>1
  <2>2. CASE Arrives(d) \/ Proceeds(d) \/ IsRefused(d) \/ IsRouted(d)
    BY <2>2 DEF Arrives, Proceeds, IsRefused, IsRouted
  <2>3. CASE Records(d)
    BY <2>3 DEF Records
  <2>4. CASE Writes(d)
    BY <2>4 DEF Writes, Progress
  <2>5. CASE Settles(d)
    BY <2>5 DEF Settles
  <2>6. CASE Loses(d)
    BY <2>6 DEF Loses
  <2> QED BY <2>1, <2>2, <2>3, <2>4, <2>5, <2>6 DEF Local
<1> QED BY <1>1, <1>2, <1>3 DEF RequestOK
-----------------------------------------------------------------------------
(* Every action does one of these things to every request.                 *)

RequestTypes ==
    /\ key \in [Requests -> Keys]
    /\ body \in [Requests -> Batches \union {<<>>}]
    /\ reply \in [Requests -> Replies]
    /\ noted \in [Requests -> 0..MaxTime]
    /\ target \in [Requests -> {NoTarget, Primary} \union 1..Fallbacks]
    /\ seen \in [Requests -> {"nothing", "synced", "syncing"}]
    /\ work \in [Requests -> Seq(Progress)]
    /\ sampled \in [Requests -> SUBSET ItemNumbers]
    /\ billed \in [Requests -> SUBSET ItemNumbers]

WorldTypes ==
    /\ fallbackIndex \in Nat
    /\ health \in [ok : BOOLEAN, checkedAt : {Never} \union 0..MaxTime]
    /\ counter \in [Keys -> [window : Int, count : Nat]]
    /\ live \subseteq Keys
    /\ synced \in SyncStates
    /\ lastSynced \in {Never} \union 0..MaxTime
    /\ clock \in 0..MaxTime
    /\ restarts \in 0..MaxRestarts
    /\ power \in {"up", "draining", "ending", "exited"}
    /\ barred \subseteq Requests

PInv == GInv /\ RequestTypes /\ WorldTypes /\ \A d \in Requests : RequestOK(d)

\* release() wakes nobody but a request that waits.
LEMMA WokenWait ==
    ASSUME GInv PROVE Sem!Woken \subseteq Waiting
<1>1. Waiting = Range(queue) /\ queue \in Seq(Requests)
  BY DEF GInv, SemP!IInv, SemP!TypeOK
<1>2. CASE queue = <<>>
  BY <1>2 DEF Sem!Woken
<1>3. CASE queue # <<>>
  BY <1>1, <1>3, SemP!TailOfQueue DEF Sem!Woken, SemP!Range, Range
<1> QED BY <1>2, <1>3

\* How the ways out of a stage look from each request.
LEMMA GotoEffect ==
    ASSUME StageOK, NEW r \in Requests, NEW s, Goto(r, s)
    PROVE  /\ stage'[r] = s /\ reply' = reply
           /\ \A d \in Requests \ {r} : Kept(d)
BY DEF Goto, StageOK, Kept

LEMMA RefuseEffect ==
    ASSUME StageOK, RequestTypes, NEW r \in Requests, NEW s, Refuse(r, s)
    PROVE  /\ stage'[r] = "done" /\ reply'[r] = s
           /\ \A d \in Requests \ {r} : Kept(d)
BY DEF Refuse, StageOK, RequestTypes, Kept

LEMMA EnterEffect ==
    ASSUME StageOK, NEW r \in Requests, EnterGate(r)
    PROVE  /\ stage'[r] \in {"waiting", "upstream"} /\ reply' = reply
           /\ \A d \in Requests \ {r} : Kept(d)
BY DEF EnterGate, StageOK, Kept

LEMMA LeaveEffect ==
    ASSUME GInv, RequestTypes, NEW r \in Requests, NEW s, LeaveGate(r, s),
           stage[r] \in Inside
    PROVE  /\ stage'[r] = "done" /\ reply'[r] = s
           /\ \A d \in Requests \ {r} :
                Kept(d) \/ Moves(d, {"waiting"}, {"upstream"})
<1>1. Sem!Woken \subseteq Waiting /\ r \notin Waiting
  BY WokenWait DEF Waiting, Inside
<1>2. stage' = [q \in Requests |-> IF q \in Sem!Woken THEN "upstream"
                                   ELSE IF q = r THEN "done" ELSE stage[q]]
      /\ reply' = [reply EXCEPT ![r] = s]
  BY DEF LeaveGate
<1> QED BY <1>1, <1>2 DEF Waiting, RequestTypes, Kept, Moves

\* What the code between the rate limit and the gate does to a request that
\* asks for no trace if it may be given the primary.
Decided(r) ==
    /\ \/ /\ Moves(r, {"limit", "probe"}, {"waiting", "upstream"})
          /\ target'[r] \in {Primary} \union 1..Fallbacks
          /\ target'[r] = Primary => ~RequiresTrace(body[r])
       \/ Moves(r, {"limit"}, {"probe"}) /\ ~RequiresTrace(body[r]) /\ target'[r] = target[r]
       \/ /\ stage'[r] = "done" /\ reply'[r] \in Replies \ {"none", "200"}
          /\ target'[r] = target[r]
    /\ \A d \in Requests \ {r} : Kept(d) /\ target'[d] = target[d]
    /\ fallbackIndex' \in Nat
    /\ reply' \in [Requests -> Replies]
    /\ target' \in [Requests -> {NoTarget, Primary} \union 1..Fallbacks]

LEMMA RouteEffect ==
    ASSUME StageOK, RequestTypes, fallbackIndex \in Nat, NEW r \in Requests,
           stage[r] \in {"limit", "probe"}
    PROVE  /\ ToFallback(r) => Decided(r)
           /\ ~RequiresTrace(body[r]) => /\ ToPrimary(r) => Decided(r)
                                         /\ \A ok : OnVerdict(r, ok) => Decided(r)
           /\ stage[r] = "limit" /\ Route(r) => Decided(r)
           /\ stage[r] = "limit" /\ Refuse(r, "429") /\ UNCHANGED <<target, fallbackIndex>>
                => Decided(r)
<1> DEFINE Targets == {NoTarget, Primary} \union 1..Fallbacks
<1>t. target \in [Requests -> Targets] /\ reply \in [Requests -> Replies]
  BY DEF RequestTypes
<1>1. ASSUME NEW s \in Replies \ {"none", "200"}, Refuse(r, s), UNCHANGED <<target, fallbackIndex>>
      PROVE  Decided(r)
  BY <1>1, <1>t, RefuseEffect DEF Decided, Refuse
<1>2. ASSUME ~RequiresTrace(body[r]), ToPrimary(r) PROVE Decided(r)
  BY <1>2, <1>t, EnterEffect DEF Decided, ToPrimary, Moves
<1>3. ASSUME ToFallback(r) PROVE Decided(r)
  <2>1. CASE Fallbacks = 0 /\ Refuse(r, "503") /\ UNCHANGED <<target, fallbackIndex>>
    BY <1>1, <2>1 DEF Replies
  <2>2. CASE /\ Fallbacks > 0
             /\ target' = [target EXCEPT ![r] = (fallbackIndex % Fallbacks) + 1]
             /\ fallbackIndex' = (fallbackIndex + 1) % Fallbacks
             /\ EnterGate(r)
    <3> DEFINE n == (fallbackIndex % Fallbacks) + 1
    <3>1. n \in 1..Fallbacks /\ (fallbackIndex + 1) % Fallbacks \in Nat
      BY <2>2, RoutingAssumption
    <3>2. n # Primary
      BY <3>1, RoutingAssumption DEF Primary
    <3>3. target' = [target EXCEPT ![r] = n]
      BY <2>2
    <3>4. fallbackIndex' \in Nat
      BY <2>2, <3>1
    <3> HIDE DEF n
    <3> QED BY <1>t, <2>2, <3>1, <3>2, <3>3, <3>4, EnterEffect DEF Decided, Moves
  <2> QED BY <1>3, <2>1, <2>2 DEF ToFallback, gateVars
<1>4. ASSUME ~RequiresTrace(body[r]), NEW ok, OnVerdict(r, ok) PROVE Decided(r)
  BY <1>1, <1>2, <1>3, <1>4 DEF OnVerdict, Replies
<1>5. ASSUME stage[r] = "limit", ~RequiresTrace(body[r]), StartProbe(r) PROVE Decided(r)
  BY <1>5, <1>t, GotoEffect DEF StartProbe, Decided, Moves
<1>6. ASSUME stage[r] = "limit", Route(r) PROVE Decided(r)
  <2>1. Rejection(body[r]) \in Replies \ {"none", "200"}
    BY DEF Rejection, Replies
  <2>2. CASE Refuse(r, Rejection(body[r])) /\ UNCHANGED <<target, fallbackIndex>>
    BY <1>1, <2>1, <2>2
  <2>3. CASE ~RequiresTrace(body[r]) /\ OnVerdict(r, health.ok)
    BY <1>4, <2>3
  <2>4. CASE ~RequiresTrace(body[r]) /\ ToPrimary(r)
    BY <1>2, <2>4
  <2>5. CASE ~RequiresTrace(body[r]) /\ StartProbe(r)
    BY <1>5, <1>6, <2>5
  <2> QED BY <1>3, <1>6, <2>2, <2>3, <2>4, <2>5 DEF Route
<1> QED BY <1>1, <1>2, <1>3, <1>4, <1>6 DEF Replies
-----------------------------------------------------------------------------

\* So both ways to the routing, from the rate limit and from a probe, end in
\* a decision.
LEMMA RoutingDecides ==
    ASSUME PInv, NEW r \in Requests, EnforceLimit(r) \/ ProbeEnds(r)
    PROVE  Decided(r)
<1>1. StageOK /\ RequestTypes /\ fallbackIndex \in Nat /\ RequestOK(r)
  BY DEF PInv, GInv, WorldTypes
<1>2. CASE EnforceLimit(r)
  <2>1. stage[r] = "limit"
    BY <1>2 DEF EnforceLimit
  <2>2. Route(r) \/ (Refuse(r, "429") /\ UNCHANGED <<target, fallbackIndex>>)
    BY <1>2 DEF EnforceLimit
  <2> QED BY <1>1, <2>1, <2>2, RouteEffect
<1>3. CASE ProbeEnds(r)
  <2>1. stage[r] = "probe" /\ \E ok : OnVerdict(r, ok)
    BY <1>3 DEF ProbeEnds
  <2>2. ~RequiresTrace(body[r])
    BY <1>1, <2>1 DEF RequestOK, RouteOK
  <2> QED BY <1>1, <2>1, <2>2, RouteEffect
<1> QED BY <1>2, <1>3

\* Routing does to every request one of the things LocalKeeps is about.
LEMMA DecidedIsLocal ==
    ASSUME NEW r \in Requests, Decided(r), stage[r] \in {"limit", "probe"},
           UNCHANGED <<body, accountVars>>
    PROVE  \A d \in Requests : Local(d)
<1> USE DEF Kept, Rest, Books, Moves, Unwritten, Early
<1>1. \A d \in Requests : body'[d] = body[d] /\ Books(d)
  BY DEF accountVars
<1>2. \A d \in Requests \ {r} : Kept(d) /\ Rest(d)
  BY <1>1 DEF Decided
<1>3. IsRouted(r) \/ Proceeds(r) \/ IsRefused(r)
  BY <1>1 DEF Decided, IsRouted, Proceeds, IsRefused
<1> QED BY <1>1, <1>2, <1>3 DEF Local

\* The same for the actions of the handler, which may wake another request.
LEMMA HandlerIsLocal ==
    ASSUME PInv, NEW r \in Requests, Handler(r)
    PROVE  \A d \in Requests : Local(d)
<1>1. GInv /\ StageOK /\ RequestTypes /\ fallbackIndex \in Nat /\ RequestOK(r)
  BY DEF PInv, GInv, WorldTypes
<1> USE <1>1 DEF Kept, Rest, Books, Moves, Unwritten, Early
<1>2. CASE Resolve(r)
  BY <1>2, GotoEffect, RefuseEffect
  DEF Resolve, Local, Proceeds, IsRefused, Replies, accountVars, routeVars
<1>3. CASE CheckIp(r)
  BY <1>3, GotoEffect, RefuseEffect
  DEF CheckIp, Local, Proceeds, IsRefused, Replies, accountVars, routeVars
<1>4. CASE EnforceLimit(r)
  BY <1>4, RoutingDecides, DecidedIsLocal DEF EnforceLimit
<1>5. CASE LimitFails(r)
  BY <1>5, RefuseEffect
  DEF LimitFails, Local, IsRefused, Replies, accountVars, routeVars
<1>6. CASE ProbeEnds(r)
  BY <1>6, RoutingDecides, DecidedIsLocal DEF ProbeEnds
<1>7. CASE UpstreamAnswers(r)
  BY <1>7, GotoEffect DEF UpstreamAnswers, Local, Proceeds, accountVars, routeVars
<1>8. CASE UpstreamFails(r)
  BY <1>8, LeaveEffect
  DEF UpstreamFails, Local, Proceeds, IsRefused, Replies, accountVars, routeVars, Inside
<1>9. CASE Touch(r)
  BY <1>9, GotoEffect DEF Touch, Local, Records, RequestTypes, routeVars
<1>10. CASE TouchFails(r)
  BY <1>10, LeaveEffect
  DEF TouchFails, Local, Proceeds, IsRefused, Replies, accountVars, routeVars, Inside
<1>11. CASE Settle(r)
  BY <1>11, LeaveEffect
  DEF Settle, Local, Proceeds, Settles, accountVars, routeVars, Inside
<1> QED
  BY <1>2, <1>3, <1>4, <1>5, <1>6, <1>7, <1>8, <1>9, <1>10, <1>11 DEF Handler

\* A write that ends touches the books of its own request only.
LEMMA WriteIsLocal ==
    ASSUME PInv, NEW r \in Requests, NEW i \in DOMAIN work[r], Write(r, i)
    PROVE  \A d \in Requests : Local(d)
<1>1. RequestTypes
  BY DEF PInv
<1>2. /\ \A d \in Requests : Kept(d) /\ Rest(d)
      /\ \A d \in Requests \ {r} : Books(d)
  BY <1>1 DEF Write, RecordSample, RecordUsage, WriteFails, RequestTypes,
              routeVars, accountVars, Kept, Rest, Books
<1>3. Writes(r)
  <2> DEFINE Becomes(p) == work'[r] = [work[r] EXCEPT ![i] = p]
  <2>1. Kept(r) /\ Rest(r)
    BY <1>2
  <2>2. CASE RecordSample(r, i)
    <3>1. \E p \in {"usage", "failed"} : work' = [work EXCEPT ![r][i] = p]
      BY <2>2 DEF RecordSample
    <3>2. \E p \in {"usage", "failed"} : Becomes(p)
      BY <1>1, <3>1 DEF RequestTypes
    <3>3. work[r][i] = "sample" /\ sampled'[r] = sampled[r] \union {i} /\ billed'[r] = billed[r]
      BY <1>1, <2>2 DEF RecordSample, RequestTypes
    <3> QED BY <2>1, <3>2, <3>3 DEF Writes, Progress
  <2>3. CASE RecordUsage(r, i)
    <3>1. Becomes("done")
      BY <1>1, <2>3 DEF RecordUsage, RequestTypes
    <3>2. work[r][i] = "usage" /\ billed'[r] = billed[r] \union {i} /\ sampled'[r] = sampled[r]
      BY <1>1, <2>3 DEF RecordUsage, RequestTypes
    <3> QED BY <2>1, <3>1, <3>2 DEF Writes, Progress
  <2>4. CASE WriteFails(r, i)
    <3>1. Becomes("failed")
      BY <1>1, <2>4 DEF WriteFails, RequestTypes
    <3>2. /\ work[r][i] \in {"sample", "usage"}
          /\ sampled'[r] \in {sampled[r], sampled[r] \union {i}}
          /\ \/ billed'[r] = billed[r]
             \/ work[r][i] = "usage" /\ billed'[r] = billed[r] \union {i}
      BY <1>1, <2>4 DEF WriteFails, RequestTypes
    <3> QED BY <2>1, <3>1, <3>2 DEF Writes, Progress
  <2> QED BY <2>2, <2>3, <2>4 DEF Write
<1> QED BY <1>2, <1>3 DEF Local

\* Of the writes of a request, those that are abandoned were under way.
LEMMA AbandonedItems ==
    ASSUME NEW W \in SUBSET UnderWay, work' = Abandoned(W), NEW d \in Requests
    PROVE  \E lost \in SUBSET {i \in DOMAIN work[d] : work[d][i] \in {"sample", "usage"}} :
               work'[d] = [i \in DOMAIN work[d] |-> IF i \in lost THEN "failed" ELSE work[d][i]]
<1> DEFINE lost == {i \in DOMAIN work[d] : <<d, i>> \in W}
<1>1. lost \in SUBSET {i \in DOMAIN work[d] : work[d][i] \in {"sample", "usage"}}
  BY DEF UnderWay
<1>2. work'[d] = [i \in DOMAIN work[d] |-> IF i \in lost THEN "failed" ELSE work[d][i]]
  BY DEF Abandoned
<1> QED BY <1>1, <1>2

LEMMA NextIsLocal ==
    ASSUME PInv, [Next]_vars
    PROVE  \A d \in Requests : Local(d)
<1>1. GInv /\ StageOK /\ RequestTypes
  BY DEF PInv, GInv
<1>2. (UNCHANGED <<stage, reply, body, target, accountVars>>) => \A d \in Requests : Local(d)
  BY DEF Local, Kept, Rest, Books, accountVars
<1>3. ASSUME NEW r \in Requests, ArriveKeyless(r) \/ ArriveLate(r)
      PROVE  \A d \in Requests : Local(d)
  BY <1>1, <1>3, RefuseEffect
  DEF ArriveKeyless, ArriveLate, Local, IsRefused, Kept, Rest, Books, Unwritten, Early,
      Replies, accountVars, routeVars
<1>4. ASSUME NEW r \in Requests, NEW b \in Batches, Arrive(r, b)
      PROVE  \A d \in Requests : Local(d)
  BY <1>1, <1>4, GotoEffect
  DEF Arrive, Local, Arrives, Moves, Kept, Rest, Books, RequestTypes, accountVars, routeVars
<1>5. ASSUME NEW r \in Requests, NodeAnswers(r) PROVE \A d \in Requests : Local(d)
  BY <1>2, <1>5 DEF NodeAnswers
<1>6. ASSUME NEW k \in Keys, Revoke(k) PROVE \A d \in Requests : Local(d)
  BY <1>2, <1>6 DEF Revoke, routeVars
<1>7. CASE Tick \/ SyncChanges \/ Signal \/ Exit
  BY <1>2, <1>7 DEF Tick, SyncChanges, Signal, Exit, routeVars
<1>8. CASE Drained \/ SignalAgain
  <2>1. UNCHANGED <<stage, reply, body, target, sampled, billed>>
    BY <1>8 DEF Drained, SignalAgain, routeVars
  <2>2. PICK W \in SUBSET UnderWay : work' = Abandoned(W)
    BY <1>8 DEF Drained, SignalAgain
  <2> QED BY <2>1, <2>2, AbandonedItems DEF Local, Loses, Kept, Rest
<1>9. CASE Restart
  <2>1. UNCHANGED <<body, target, sampled, billed>> /\ work' = Abandoned(UnderWay)
    BY <1>9 DEF Restart
  <2>2. ASSUME NEW d \in Requests
        PROVE  \/ Kept(d)
               \/ stage[d] \notin {"idle", "done"} /\ stage'[d] = "done" /\ reply'[d] = "lost"
    BY <1>1, <1>9 DEF Restart, Kept, InFlight, RequestTypes
  <2> QED BY <2>1, <2>2, AbandonedItems DEF Local, Loses, Rest
<1>10. CASE UNCHANGED vars
  BY <1>2, <1>10 DEF vars, routeVars
<1> QED
  BY <1>3, <1>4, <1>5, <1>6, <1>7, <1>8, <1>9, <1>10, HandlerIsLocal, WriteIsLocal DEF Next
-----------------------------------------------------------------------------
(* Types.                                                                  *)

\* An item that is written is one of some batch.
LEMMA ItemsNumbered ==
    ASSUME RequestTypes, NEW r \in Requests, BooksOK(r), NEW i \in DOMAIN work[r]
    PROVE  i \in ItemNumbers
<1>1. i \in DOMAIN body[r] /\ body[r] \in Batches \union {<<>>}
  BY DEF BooksOK, RequestTypes
<1> QED BY <1>1 DEF ItemNumbers

\* The writes a process leaves behind are still a list of progress.
LEMMA AbandonedType ==
    ASSUME work \in [Requests -> Seq(Progress)], NEW W
    PROVE  Abandoned(W) \in [Requests -> Seq(Progress)]
<1> SUFFICES ASSUME NEW r \in Requests
             PROVE  [i \in DOMAIN work[r] |->
                        IF <<r, i>> \in W THEN "failed" ELSE work[r][i]] \in Seq(Progress)
  BY DEF Abandoned
<1>1. work[r] \in Seq(Progress)
  OBVIOUS
<1>2. DOMAIN work[r] = 1..Len(work[r]) /\ Len(work[r]) \in Nat
  BY <1>1
<1>3. \A i \in DOMAIN work[r] : work[r][i] \in Progress
  BY <1>1
<1> DEFINE f == [i \in DOMAIN work[r] |-> IF <<r, i>> \in W THEN "failed" ELSE work[r][i]]
<1>4. f \in [1..Len(work[r]) -> Progress]
  BY <1>2, <1>3 DEF Progress
<1> HIDE DEF f
<1>5. f \in Seq(Progress)
  BY <1>2, <1>4
<1> QED BY <1>5 DEF f

\* So are the writes Touch sends.
LEMMA SentType ==
    ASSUME RequestTypes, NEW r \in Requests
    PROVE  [i \in DOMAIN body[r] |-> "sample"] \in Seq(Progress)
<1>1. body[r] \in Seq(Kinds)
  <2>1. body[r] \in Batches \union {<<>>} /\ <<>> \in Seq(Kinds)
    BY DEF RequestTypes
  <2> QED BY <2>1, BatchesAssumption
<1>2. DOMAIN body[r] = 1..Len(body[r]) /\ Len(body[r]) \in Nat
  BY <1>1
<1> DEFINE f == [i \in DOMAIN body[r] |-> "sample"]
<1>3. f \in [1..Len(body[r]) -> Progress]
  BY <1>2 DEF Progress
<1> HIDE DEF f
<1>4. f \in Seq(Progress)
  BY <1>2, <1>3
<1> QED BY <1>4 DEF f

\* The upsert leaves a row of the table.
LEMMA CounterType ==
    ASSUME WorldTypes, RequestTypes, NEW r \in Requests, NEW k \in Keys,
           counter' = [counter EXCEPT ![k] = Upserted(@, WindowStart(noted[r]))]
    PROVE  counter' \in [Keys -> [window : Int, count : Nat]]
<1>1. noted[r] \in Nat
  BY RoutingAssumption DEF RequestTypes
<1>2. WindowStart(noted[r]) \in Int
  BY <1>1, WidthAssumption DEF WindowStart
<1> DEFINE w == WindowStart(noted[r])
<1> HIDE DEF w
<1>3. counter' = [counter EXCEPT ![k] = Upserted(@, w)] /\ w \in Int
  BY <1>2 DEF w
<1>4. counter[k] \in [window : Int, count : Nat]
  BY DEF WorldTypes
<1>5. Upserted(counter[k], w) \in [window : Int, count : Nat]
  BY <1>3, <1>4 DEF Upserted
<1> QED BY <1>3, <1>5 DEF WorldTypes

\* Every step keeps the kinds.
LEMMA HandlerTypes ==
    ASSUME PInv, NEW r \in Requests, Handler(r)
    PROVE  RequestTypes' /\ WorldTypes'
<1>1. GInv /\ StageOK /\ RequestTypes /\ WorldTypes /\ RequestOK(r)
  BY DEF PInv, GInv
<1> USE DEF RequestTypes, WorldTypes, accountVars, routeVars, worldVars, gateVars
<1>r. \A s \in Replies : (Refuse(r, s) \/ LeaveGate(r, s)) => reply' \in [Requests -> Replies]
  BY <1>1 DEF Refuse, LeaveGate
<1>g. \A s : Goto(r, s) => reply' = reply
  BY DEF Goto
<1>s. {"200", "400", "401", "403", "429", "500", "502", "503", "upstream"} \subseteq Replies
  BY DEF Replies
<1>2. CASE Resolve(r)
  BY <1>1, <1>2, <1>r, <1>g, <1>s DEF Resolve
<1>3. CASE CheckIp(r)
  BY <1>1, <1>3, <1>r, <1>g, <1>s DEF CheckIp
<1>4. CASE EnforceLimit(r)
  <2>1. Decided(r)
    BY <1>4, RoutingDecides
  <2>2. noted' \in [Requests -> 0..MaxTime]
    BY <1>1, <1>4 DEF EnforceLimit, Route, StartProbe
  <2>3. counter' \in [Keys -> [window : Int, count : Nat]]
    BY <1>1, <1>4, CounterType DEF EnforceLimit
  <2> QED BY <1>1, <1>4, <2>1, <2>2, <2>3 DEF EnforceLimit, Decided
<1>5. CASE LimitFails(r)
  <2>1. counter' \in [Keys -> [window : Int, count : Nat]]
    BY <1>1, <1>5, CounterType DEF LimitFails
  <2> QED BY <1>1, <1>5, <1>r, <1>s, <2>1 DEF LimitFails
<1>6. CASE ProbeEnds(r)
  <2>2. Decided(r)
    BY <1>6, RoutingDecides
  <2>3. health' \in [ok : BOOLEAN, checkedAt : {Never} \union 0..MaxTime]
    BY <1>1, <1>6 DEF ProbeEnds, Remember
  <2> QED BY <1>1, <1>6, <2>2, <2>3 DEF ProbeEnds, Decided
<1>7. CASE UpstreamAnswers(r)
  BY <1>1, <1>7, <1>g DEF UpstreamAnswers
<1>8. CASE UpstreamFails(r)
  BY <1>1, <1>8, <1>r, <1>s DEF UpstreamFails
<1>9. CASE Touch(r)
  BY <1>1, <1>9, <1>g, SentType DEF Touch
<1>10. CASE TouchFails(r)
  BY <1>1, <1>10, <1>r, <1>s DEF TouchFails
<1>11. CASE Settle(r)
  BY <1>1, <1>11, <1>r, <1>s DEF Settle
<1> QED
  BY <1>2, <1>3, <1>4, <1>5, <1>6, <1>7, <1>8, <1>9, <1>10, <1>11 DEF Handler

LEMMA WriteTypes ==
    ASSUME PInv, NEW r \in Requests, NEW i \in DOMAIN work[r], Write(r, i)
    PROVE  RequestTypes' /\ WorldTypes'
<1>1. RequestTypes /\ WorldTypes /\ BooksOK(r)
  BY DEF PInv, RequestOK
<1>2. i \in ItemNumbers
  BY <1>1, ItemsNumbered
<1>3. work[r] \in Seq(Progress)
  BY <1>1 DEF RequestTypes
<1>4. \A p \in Progress : [work EXCEPT ![r][i] = p] \in [Requests -> Seq(Progress)]
  <2> TAKE p \in Progress
  <2>1. [work[r] EXCEPT ![i] = p] \in Seq(Progress)
    BY <1>3
  <2> QED BY <1>1, <2>1 DEF RequestTypes
<1>5. work' \in [Requests -> Seq(Progress)]
  <2>1. \E p \in Progress : work' = [work EXCEPT ![r][i] = p]
    BY DEF Write, RecordSample, RecordUsage, WriteFails, Progress
  <2> QED BY <1>4, <2>1
<1>6. sampled' \in [Requests -> SUBSET ItemNumbers] /\ billed' \in [Requests -> SUBSET ItemNumbers]
  <2>1. /\ sampled' = sampled \/ sampled' = [sampled EXCEPT ![r] = @ \union {i}]
        /\ billed' = billed \/ billed' = [billed EXCEPT ![r] = @ \union {i}]
    BY DEF Write, RecordSample, RecordUsage, WriteFails
  <2>2. sampled[r] \union {i} \in SUBSET ItemNumbers /\ billed[r] \union {i} \in SUBSET ItemNumbers
    BY <1>1, <1>2 DEF RequestTypes
  <2>3. sampled' \in [Requests -> SUBSET ItemNumbers]
    BY <1>1, <2>1, <2>2 DEF RequestTypes
  <2>4. billed' \in [Requests -> SUBSET ItemNumbers]
    BY <1>1, <2>1, <2>2 DEF RequestTypes
  <2> QED BY <2>3, <2>4
<1>7. UNCHANGED <<key, body, reply, noted, counter, target, fallbackIndex, health, seen, worldVars>>
  BY DEF Write, RecordSample, RecordUsage, WriteFails, routeVars
<1> QED BY <1>1, <1>5, <1>6, <1>7 DEF RequestTypes, WorldTypes, worldVars

LEMMA NextTypes ==
    ASSUME PInv, [Next]_vars
    PROVE  RequestTypes' /\ WorldTypes'
<1>1. GInv /\ StageOK /\ RequestTypes /\ WorldTypes
  BY DEF PInv, GInv
<1> USE DEF RequestTypes, WorldTypes, accountVars, routeVars, worldVars
<1>2. ASSUME NEW r \in Requests, ArriveKeyless(r) \/ ArriveLate(r)
      PROVE  RequestTypes' /\ WorldTypes'
  BY <1>1, <1>2 DEF ArriveKeyless, ArriveLate, Refuse, Replies
<1>3. ASSUME NEW r \in Requests, NEW b \in Batches, Arrive(r, b)
      PROVE  RequestTypes' /\ WorldTypes'
  BY <1>1, <1>3 DEF Arrive, Goto
<1>4. ASSUME NEW r \in Requests, NodeAnswers(r) PROVE RequestTypes' /\ WorldTypes'
  BY <1>1, <1>4 DEF NodeAnswers
<1>5. ASSUME NEW k \in Keys, Revoke(k) PROVE RequestTypes' /\ WorldTypes'
  BY <1>1, <1>5 DEF Revoke
<1>6. CASE Tick
  BY <1>1, <1>6, RoutingAssumption DEF Tick
<1>7. CASE SyncChanges
  BY <1>1, <1>7 DEF SyncChanges
<1>8. CASE Signal \/ Exit
  BY <1>1, <1>8 DEF Signal, Exit
<1>9. CASE Drained \/ SignalAgain
  <2>1. \E W : work' = Abandoned(W)
    BY <1>9 DEF Drained, SignalAgain
  <2>2. work' \in [Requests -> Seq(Progress)]
    BY <1>1, <2>1, AbandonedType
  <2> QED BY <1>1, <1>9, <2>2 DEF Drained, SignalAgain
<1>10. CASE Restart
  <2>1. reply' \in [Requests -> Replies]
    BY <1>1, <1>10 DEF Restart, Replies
  <2>2. health' \in [ok : BOOLEAN, checkedAt : {Never} \union 0..MaxTime]
    BY <1>10 DEF Restart, Expired
  <2>3. work' \in [Requests -> Seq(Progress)]
    BY <1>1, <1>10, AbandonedType DEF Restart
  <2>4. restarts' \in 0..MaxRestarts
    BY <1>1, <1>10, RoutingAssumption DEF Restart
  <2>5. UNCHANGED <<key, body, noted, counter, target, seen, sampled, billed, live, synced, lastSynced, clock, barred>>
        /\ fallbackIndex' = 0 /\ power' = "up"
    BY <1>10 DEF Restart
  <2> QED BY <1>1, <2>1, <2>2, <2>3, <2>4, <2>5
<1>11. CASE UNCHANGED vars
  BY <1>1, <1>11 DEF vars
<1> QED
  BY <1>2, <1>3, <1>4, <1>5, <1>6, <1>7, <1>8, <1>9, <1>10, <1>11,
     HandlerTypes, WriteTypes DEF Next

LEMMA InitPInv == Init => PInv
<1> SUFFICES ASSUME Init PROVE PInv
  OBVIOUS
<1>1. GInv
  BY InitGInv
<1>2. RequestTypes /\ WorldTypes
  BY RoutingAssumption
  DEF Init, RequestTypes, WorldTypes, Replies, NoRow, Expired, NoTarget
<1>3. \A d \in Requests : RequestOK(d)
  BY DEF Init, RequestOK, RouteOK, BooksOK, ReplyOK, NoTarget, Primary, Early
<1> QED BY <1>1, <1>2, <1>3 DEF PInv

LEMMA NextPInv == PInv /\ [Next]_vars => PInv'
<1> SUFFICES ASSUME PInv, [Next]_vars PROVE PInv'
  OBVIOUS
<1>1. GInv'
  BY NextGInv DEF PInv
<1>2. RequestTypes' /\ WorldTypes'
  BY NextTypes
<1>3. ASSUME NEW d \in Requests PROVE RequestOK(d)'
  <2>1. stage[d] \in Stages /\ stage'[d] \in Stages
    BY <1>1 DEF PInv, GInv, StageOK
  <2> QED BY <2>1, NextIsLocal, LocalKeeps DEF PInv
<1> QED BY <1>1, <1>2, <1>3 DEF PInv

LEMMA SpecPInv == Spec => []PInv
  BY InitPInv, NextPInv, PTL DEF Spec

\* Every variable keeps its kind.
THEOREM ProxyTypeCorrect == Spec => []TypeOK
<1>1. PInv => TypeOK
  BY DEF PInv, RequestTypes, WorldTypes, RequestOK, BooksOK, ReplyOK, GInv, StageOK,
         SemP!IInv, SemP!TypeOK, TypeOK
<1> QED BY <1>1, SpecPInv, PTL

\* The books agree with the reply, whatever fails or is cut off.
THEOREM AccountsSettled == Spec => []SettledAccounts
<1>1. PInv => SettledAccounts
  <2> SUFFICES ASSUME PInv, NEW r \in Requests
      PROVE /\ reply[r] = "200" => billed[r] = DOMAIN body[r]
            /\ billed[r] # {} => reply[r] \in {"none", "200", "502", "lost"}
            /\ billed[r] \subseteq sampled[r]
    BY DEF SettledAccounts
  <2> QED BY DEF PInv, RequestOK, BooksOK, ReplyOK
<1> QED BY <1>1, SpecPInv, PTL

\* No batch with a trace call goes to the primary.
THEOREM TraceStaysOff == Spec => []TraceOffPrimary
<1>1. PInv => TraceOffPrimary
  BY DEF PInv, RequestOK, RouteOK, TraceOffPrimary, RequiresTrace, Range
<1> QED BY <1>1, SpecPInv, PTL
-----------------------------------------------------------------------------
(* A key revoked before its request is looked up.                          *)

BarredOK(d) ==
    d \in barred =>
        /\ key[d] \notin live
        /\ \/ stage[d] \in {"idle", "resolve"}
           \/ stage[d] = "done" /\ target[d] = NoTarget /\ work[d] = <<>>
              /\ billed[d] = {} /\ reply[d] # "200"

\* Only a revocation bars a request, and it has not been looked up then.
LEMMA BarredGrows ==
    ASSUME PInv, [Next]_vars, NEW d \in Requests, d \in barred', d \notin barred
    PROVE  /\ stage[d] \in {"idle", "resolve"} /\ key[d] \notin live'
           /\ stage' = stage /\ key' = key
<1>1. PICK k \in Keys : Revoke(k)
  BY DEF Next, vars, Handler, Write, ArriveKeyless, ArriveLate, Arrive, Resolve, CheckIp,
         EnforceLimit, LimitFails, ProbeEnds, UpstreamAnswers, UpstreamFails, Touch, TouchFails,
         Settle, NodeAnswers, RecordSample, RecordUsage, WriteFails, Tick, SyncChanges,
         Signal, Drained, Exit, SignalAgain, Restart, worldVars
<1> QED BY <1>1 DEF Revoke

\* A request keeps its key, and a key stays revoked.
LEMMA KeysStay ==
    ASSUME [Next]_vars
    PROVE  key' = key /\ live' \subseteq live
<1> DEFINE Stay == key' = key /\ live' \subseteq live
<1>1. ASSUME NEW k \in Keys, Revoke(k) PROVE Stay
  BY <1>1 DEF Revoke
<1>2. ASSUME NEW r \in Requests, Handler(r) PROVE Stay
  BY <1>2 DEF Handler, Resolve, CheckIp, EnforceLimit, LimitFails, ProbeEnds, UpstreamAnswers,
              UpstreamFails, Touch, TouchFails, Settle, worldVars
<1>3. ASSUME NEW r \in Requests, NEW i \in DOMAIN work[r], Write(r, i) PROVE Stay
  BY <1>3 DEF Write, RecordSample, RecordUsage, WriteFails, worldVars
<1> QED
  BY <1>1, <1>2, <1>3
  DEF Next, vars, ArriveKeyless, ArriveLate, Arrive, NodeAnswers, Tick, SyncChanges,
      Signal, Drained, Exit, SignalAgain, Restart, worldVars

\* A barred request gets no further than its look-up.
LEMMA BarredKept ==
    ASSUME PInv, [Next]_vars, NEW d \in Requests, BarredOK(d)
    PROVE  BarredOK(d)'
<1>1. Local(d) /\ RequestOK(d) /\ stage[d] \in Stages
  BY NextIsLocal DEF PInv, GInv, StageOK
<1>2. key'[d] = key[d] /\ live' \subseteq live
  BY KeysStay
<1>3. CASE d \in barred' /\ d \notin barred
  BY <1>3, BarredGrows DEF BarredOK
<1>4. CASE d \in barred' /\ d \in barred /\ stage[d] \in {"idle", "resolve"}
  <2>1. target[d] = NoTarget /\ work[d] = <<>> /\ billed[d] = {} /\ reply[d] = "none"
    BY <1>1, <1>4 DEF RequestOK, RouteOK, BooksOK, ReplyOK, Early, Unwritten, Stages
  <2>2. key[d] \notin live
    BY <1>4 DEF BarredOK
  <2> QED BY <1>1, <1>2, <1>4, <2>1, <2>2
    DEF BarredOK, Local, Kept, Rest, Books, Moves, Arrives, Proceeds, IsRefused, IsRouted,
        Records, Writes, Settles, Loses, Replies
<1>5. CASE d \in barred' /\ d \in barred /\ stage[d] \notin {"idle", "resolve"}
  <2>1. /\ stage[d] = "done" /\ target[d] = NoTarget /\ work[d] = <<>>
        /\ billed[d] = {} /\ reply[d] # "200" /\ key[d] \notin live
    BY <1>5 DEF BarredOK
  <2>2. CASE Loses(d)
    <3>1. work'[d] = <<>>
      BY <2>1, <2>2 DEF Loses
    <3> QED BY <1>2, <2>1, <2>2, <3>1 DEF BarredOK, Loses, Kept, Rest
  <2>3. CASE Local(d) /\ ~Loses(d)
    BY <1>2, <2>1, <2>3
    DEF BarredOK, Local, Kept, Rest, Books, Moves, Arrives, Proceeds, IsRefused, IsRouted,
        Records, Writes, Settles, Unwritten, Early
  <2> QED BY <1>1, <2>2, <2>3
<1> QED BY <1>3, <1>4, <1>5 DEF BarredOK

\* A revocation stops every request that has not been looked up by then.
THEOREM RevokedAreOut == Spec => []RevokedStayOut
<1> DEFINE Inv == PInv /\ \A d \in Requests : BarredOK(d)
<1>1. Init => Inv
  BY InitPInv DEF Init, BarredOK
<1>2. Inv /\ [Next]_vars => Inv'
  BY NextPInv, BarredKept
<1>3. Inv => RevokedStayOut
  <2> SUFFICES ASSUME Inv, NEW r \in barred
      PROVE  target[r] = NoTarget /\ reply[r] # "200" /\ billed[r] = {}
    BY DEF RevokedStayOut
  <2>1. r \in Requests /\ RequestOK(r) /\ BarredOK(r)
    BY DEF PInv, WorldTypes
  <2> QED BY <2>1 DEF BarredOK, RequestOK, RouteOK, BooksOK, ReplyOK, Early, Unwritten
<1> HIDE DEF Inv
<1> QED BY <1>1, <1>2, <1>3, PTL DEF Spec
-----------------------------------------------------------------------------
(* The verdict a request with a finality tag is routed on.                 *)

Fresh == {"idle", "resolve", "allow", "limit"}

\* What a probe has seen was so after the time it is dated by.
ProbeOK(d) ==
    /\ stage[d] \in Fresh => seen[d] = "nothing"
    /\ stage[d] = "probe" => /\ noted[d] <= clock
                             /\ clock - noted[d] <= ProbeTimeout
                             /\ seen[d] = "synced" => noted[d] <= lastSynced

VerdictOK ==
    /\ lastSynced <= clock
    /\ synced => lastSynced = clock
    /\ health.ok => health.checkedAt <= lastSynced

FInv == PInv /\ VerdictOK /\ \A d \in Requests : ProbeOK(d)

\* The numbers of the clock.
LEMMA Clocks ==
    ASSUME PInv
    PROVE  /\ clock \in Int /\ lastSynced \in Int /\ health.checkedAt \in Int
           /\ \A d \in Requests : noted[d] \in Int
           /\ HealthTtl \in Int /\ ProbeTimeout \in Nat /\ MaxTime \in Int /\ Never \in Int
BY RoutingAssumption DEF PInv, RequestTypes, WorldTypes, Never

\* In a step that takes no time, a probe goes on or starts now.
ProbeDated(d) ==
    stage'[d] = "probe" => \/ stage[d] = "probe" /\ noted'[d] = noted[d]
                           \/ stage[d] = "limit" /\ noted'[d] = clock

\* Whatever else happens to a request, its probe stays right.
LEMMA ProbeKept ==
    ASSUME PInv, NEW d \in Requests, ProbeOK(d), Local(d), ProbeDated(d),
           seen'[d] = seen[d], clock' = clock, lastSynced' = lastSynced
    PROVE  ProbeOK(d)'
<1>1. stage'[d] \in Fresh => stage[d] \in Fresh
  BY DEF Local, Kept, Moves, Arrives, Proceeds, IsRefused, IsRouted, Records, Writes, Settles,
         Loses, Fresh
<1>2. clock \in Int /\ ProbeTimeout \in Nat
  BY Clocks
<1> QED BY <1>1, <1>2 DEF ProbeOK, ProbeDated, Fresh

\* Actions that neither ask, nor are asked, nor take time.
Calm == UNCHANGED <<seen, noted, health, synced, lastSynced, clock, target>>

\* The actions that matter for probes and verdicts.
LEMMA CalmActions ==
    ASSUME PInv, [Next]_vars
    PROVE  \/ Calm
           \/ UNCHANGED <<seen, health, synced, lastSynced, clock, target>>
              /\ \E r \in Requests : CheckIp(r)
           \/ \E r \in Requests : EnforceLimit(r) \/ ProbeEnds(r) \/ NodeAnswers(r)
           \/ Tick \/ SyncChanges \/ Restart
<1> USE DEF Calm, routeVars, worldVars
<1>1. ASSUME NEW r \in Requests, Handler(r)
      PROVE  \/ Calm \/ EnforceLimit(r) \/ ProbeEnds(r)
             \/ UNCHANGED <<seen, health, synced, lastSynced, clock, target>> /\ CheckIp(r)
  BY <1>1 DEF Handler, Resolve, CheckIp, LimitFails, UpstreamAnswers, UpstreamFails, Touch,
              TouchFails, Settle
<1>2. ASSUME NEW r \in Requests, NEW i \in DOMAIN work[r], Write(r, i) PROVE Calm
  BY <1>2 DEF Write, RecordSample, RecordUsage, WriteFails
<1>3. ASSUME NEW r \in Requests, ArriveKeyless(r) \/ ArriveLate(r) \/ (\E b \in Batches : Arrive(r, b))
      PROVE  Calm
  BY <1>3 DEF ArriveKeyless, ArriveLate, Arrive
<1>4. ASSUME NEW k \in Keys, Revoke(k) PROVE Calm
  BY <1>4 DEF Revoke
<1>5. Signal \/ Drained \/ Exit \/ SignalAgain \/ UNCHANGED vars => Calm
  BY DEF Signal, Drained, Exit, SignalAgain, vars
<1> QED BY <1>1, <1>2, <1>3, <1>4, <1>5 DEF Next

\* The round robin over the fallbacks never gives the primary.
LEMMA FallbackNotPrimary ==
    ASSUME PInv, NEW r \in Requests, ToFallback(r)
    PROVE  ~GivenPrimary(r)
<1>1. CASE Fallbacks = 0
  BY <1>1 DEF ToFallback, GivenPrimary
<1>2. CASE Fallbacks > 0
  <2> DEFINE n == (fallbackIndex % Fallbacks) + 1
  <2>1. n \in 1..Fallbacks
    BY <1>2, RoutingAssumption DEF PInv, WorldTypes
  <2>2. n # Primary
    BY <2>1, RoutingAssumption DEF Primary
  <2>3. target' = [target EXCEPT ![r] = n]
    BY <1>2 DEF ToFallback
  <2> HIDE DEF n
  <2> QED BY <2>2, <2>3 DEF GivenPrimary, PInv, RequestTypes
<1> QED BY <1>1, <1>2, RoutingAssumption

\* A verdict that says no gives nobody the primary.
LEMMA VerdictGives ==
    ASSUME PInv, NEW r \in Requests, NEW ok, OnVerdict(r, ok), GivenPrimary(r)
    PROVE  ok
BY FallbackNotPrimary DEF OnVerdict, GivenPrimary

\* Routing notes the time exactly when it starts a probe.
LEMMA RouteStarts ==
    ASSUME PInv, NEW r \in Requests, Route(r), stage[r] = "limit"
    PROVE  \/ noted' = noted /\ stage'[r] # "probe"
           \/ noted' = [noted EXCEPT ![r] = clock]
<1> USE DEF PInv, GInv, StageOK
<1>1. \A s : Refuse(r, s) => stage'[r] # "probe"
  BY RefuseEffect
<1>2. EnterGate(r) => stage'[r] # "probe"
  BY EnterEffect
<1>3. (ToPrimary(r) \/ ToFallback(r)) => stage'[r] # "probe"
  BY <1>1, <1>2 DEF ToPrimary, ToFallback
<1>4. \A ok : OnVerdict(r, ok) => stage'[r] # "probe"
  BY <1>1, <1>3 DEF OnVerdict
<1> QED BY <1>1, <1>3, <1>4 DEF Route, StartProbe

\* Routing gives the primary on a fresh verdict that says yes.
LEMMA RouteGives ==
    ASSUME FInv, NEW r \in Requests, Route(r), GivenPrimary(r), RequiresFinality(body[r])
    PROVE  Recently
<1>1. CacheFresh /\ OnVerdict(r, health.ok)
  BY FallbackNotPrimary DEF Route, StartProbe, FInv, GivenPrimary
<1>2. health.ok
  BY <1>1, VerdictGives DEF FInv
<1> QED BY <1>1, <1>2, Clocks DEF CacheFresh, FInv, VerdictOK, Recently

\* No request with a finality tag is given the primary unless the consensus
\* node was in sync recently.
LEMMA PrimaryGivenRecently ==
    ASSUME FInv, [Next]_vars, NEW r \in Requests, GivenPrimary(r), RequiresFinality(body[r])
    PROVE  Recently
<1>1. PInv
  BY DEF FInv
<1>2. target' # target
  BY DEF GivenPrimary
<1>3. PICK q \in Requests : EnforceLimit(q) \/ ProbeEnds(q)
  BY <1>1, <1>2, CalmActions DEF Calm, NodeAnswers, Tick, SyncChanges, Restart, routeVars
<1>4. stage[q] \in {"limit", "probe"} /\ Decided(q)
  BY <1>1, <1>3, RoutingDecides DEF EnforceLimit, ProbeEnds
<1>5. q = r
  BY <1>4 DEF Decided, GivenPrimary
<1>6. CASE EnforceLimit(r)
  <2>1. Route(r)
    BY <1>6 DEF EnforceLimit, GivenPrimary
  <2> QED BY <2>1, RouteGives
<1>7. CASE ProbeEnds(r)
  <2>1. PICK ok \in BOOLEAN : (ok => seen[r] = "synced") /\ OnVerdict(r, ok)
    BY <1>7 DEF ProbeEnds
  <2>2. seen[r] = "synced" /\ stage[r] = "probe"
    BY <1>1, <1>7, <2>1, VerdictGives DEF ProbeEnds
  <2>3. clock - noted[r] <= ProbeTimeout /\ noted[r] <= lastSynced
    BY <2>2 DEF FInv, ProbeOK
  <2> QED BY <1>1, <2>3, Clocks DEF Recently
<1> QED BY <1>3, <1>5, <1>6, <1>7

LEMMA InitFInv == Init => FInv
<1> SUFFICES ASSUME Init PROVE FInv
  OBVIOUS
<1>1. PInv
  BY InitPInv
<1>2. VerdictOK
  BY RoutingAssumption DEF Init, VerdictOK, Expired, Never
<1>3. \A d \in Requests : ProbeOK(d)
  BY DEF Init, ProbeOK, Fresh
<1> QED BY <1>1, <1>2, <1>3 DEF FInv

\* Only the routing starts a probe.
LEMMA ProbeStarter ==
    ASSUME PInv, [Next]_vars, NEW d \in Requests, stage[d] = "limit", stage'[d] = "probe"
    PROVE  EnforceLimit(d)
<1>1. GInv /\ StageOK /\ RequestTypes
  BY DEF PInv, GInv
<1>2. stage' # stage
  OBVIOUS
<1>3. ASSUME NEW r \in Requests, Handler(r) PROVE EnforceLimit(d)
  <2>1. CASE stage[r] \in Inside
    <3>1. \/ \E s : Goto(r, s)
          \/ \E s : LeaveGate(r, s)
      BY <1>3, <2>1
      DEF Handler, Inside, Resolve, CheckIp, EnforceLimit, LimitFails, ProbeEnds,
          UpstreamAnswers, UpstreamFails, Touch, TouchFails, Settle
    <3> QED BY <1>1, <2>1, <3>1, GotoEffect, LeaveEffect DEF Kept, Moves, Inside
  <2>2. CASE stage[r] = "resolve"
    <3>1. Resolve(r)
      BY <1>3, <2>2
      DEF Handler, Resolve, CheckIp, EnforceLimit, LimitFails, ProbeEnds,
          UpstreamAnswers, UpstreamFails, Touch, TouchFails, Settle
    <3> QED BY <1>1, <2>2, <3>1, GotoEffect, RefuseEffect DEF Resolve, Kept
  <2>3. CASE stage[r] = "allow"
    <3>1. CheckIp(r)
      BY <1>3, <2>3
      DEF Handler, Resolve, CheckIp, EnforceLimit, LimitFails, ProbeEnds,
          UpstreamAnswers, UpstreamFails, Touch, TouchFails, Settle
    <3> QED BY <1>1, <2>3, <3>1, GotoEffect, RefuseEffect DEF CheckIp, Kept
  <2>4. CASE stage[r] = "limit"
    <3>1. EnforceLimit(r) \/ LimitFails(r)
      BY <1>3, <2>4
      DEF Handler, Resolve, CheckIp, EnforceLimit, LimitFails, ProbeEnds,
          UpstreamAnswers, UpstreamFails, Touch, TouchFails, Settle
    <3>2. CASE LimitFails(r)
      BY <1>1, <2>4, <3>2, RefuseEffect DEF LimitFails, Kept
    <3>3. CASE EnforceLimit(r)
      <4>1. d = r
        BY <3>3, RoutingDecides DEF Decided, Kept
      <4> QED BY <3>3, <4>1
    <3> QED BY <3>1, <3>2, <3>3
  <2>5. CASE stage[r] = "probe"
    <3>1. ProbeEnds(r)
      BY <1>3, <2>5
      DEF Handler, Resolve, CheckIp, EnforceLimit, LimitFails, ProbeEnds,
          UpstreamAnswers, UpstreamFails, Touch, TouchFails, Settle
    <3> QED BY <2>5, <3>1, RoutingDecides DEF Decided, Kept
  <2>6. stage[r] \in Inside \union {"resolve", "allow", "limit", "probe"}
    BY <1>3
    DEF Handler, Resolve, CheckIp, EnforceLimit, LimitFails, ProbeEnds,
        UpstreamAnswers, UpstreamFails, Touch, TouchFails, Settle, Inside
  <2> QED BY <2>1, <2>2, <2>3, <2>4, <2>5, <2>6
<1>4. ASSUME NEW r \in Requests,
             ArriveKeyless(r) \/ ArriveLate(r) \/ (\E b \in Batches : Arrive(r, b))
      PROVE  FALSE
  BY <1>1, <1>4, GotoEffect, RefuseEffect DEF ArriveKeyless, ArriveLate, Arrive, Kept
<1>5. ASSUME NEW r \in Requests, NodeAnswers(r) \/ (\E i \in DOMAIN work[r] : Write(r, i)) PROVE FALSE
  BY <1>2, <1>5 DEF NodeAnswers, Write, RecordSample, RecordUsage, WriteFails
<1>6. ASSUME NEW k \in Keys, Revoke(k) PROVE FALSE
  BY <1>2, <1>6 DEF Revoke
<1>7. ~(Tick \/ SyncChanges \/ Signal \/ Drained \/ Exit \/ SignalAgain \/ UNCHANGED vars)
  BY <1>2 DEF Tick, SyncChanges, Signal, Drained, Exit, SignalAgain, vars
<1>8. ~Restart
  BY <1>1 DEF Restart, StageOK
<1> QED BY <1>3, <1>4, <1>5, <1>6, <1>7, <1>8 DEF Next

\* A probe that runs is dated by its start.
LEMMA ProbesDated ==
    ASSUME PInv, [Next]_vars, ~Tick, NEW d \in Requests
    PROVE  ProbeDated(d)
<1>1. Local(d)
  BY NextIsLocal
<1>2. RequestTypes
  BY DEF PInv
<1>3. stage'[d] = "probe" => stage[d] \in {"limit", "probe"}
  BY <1>1 DEF Local, Kept, Moves, Arrives, Proceeds, IsRefused, IsRouted, Records, Writes,
              Settles, Loses
<1>4. CASE stage[d] = "limit" /\ stage'[d] = "probe"
  <2>1. EnforceLimit(d) /\ stage[d] = "limit"
    BY <1>4, ProbeStarter
  <2>2. Route(d)
    BY <1>4, <2>1, RefuseEffect DEF EnforceLimit, PInv, GInv
  <2>3. noted'[d] = clock
    BY <1>2, <1>4, <2>1, <2>2, RouteStarts DEF RequestTypes
  <2> QED BY <1>4, <2>3 DEF ProbeDated
<1>5. CASE stage[d] = "probe" /\ stage'[d] = "probe"
  <2>1. noted'[d] = noted[d]
    <3>1. CASE \E r \in Requests : CheckIp(r)
      BY <1>2, <1>5, <3>1 DEF CheckIp, RequestTypes
    <3>2. CASE \E r \in Requests : EnforceLimit(r)
      <4>1. PICK r \in Requests : EnforceLimit(r)
        BY <3>2
      <4>2. r # d
        BY <1>5, <4>1 DEF EnforceLimit
      <4>3. noted' = noted \/ noted' = [noted EXCEPT ![r] = clock]
        BY <4>1 DEF EnforceLimit, Route, StartProbe
      <4> QED BY <1>2, <4>2, <4>3 DEF RequestTypes
    <3>3. noted' = noted \/ (\E r \in Requests : CheckIp(r) \/ EnforceLimit(r))
      BY CalmActions DEF Calm, ProbeEnds, NodeAnswers, SyncChanges, Restart
    <3> QED BY <3>1, <3>2, <3>3
  <2> QED BY <1>5, <2>1 DEF ProbeDated
<1> QED BY <1>3, <1>4, <1>5 DEF ProbeDated

\* Verdicts and probes stay dated by what the node was asked.
LEMMA NextFInv == FInv /\ [Next]_vars => FInv'
<1> SUFFICES ASSUME FInv, [Next]_vars PROVE FInv'
  OBVIOUS
<1>1. PInv /\ PInv' /\ VerdictOK
  BY NextPInv DEF FInv
<1>2. \A d \in Requests : Local(d) /\ ProbeOK(d)
  BY NextIsLocal, <1>1 DEF FInv
<1>3. RequestTypes /\ clock \in Nat
  BY <1>1, RoutingAssumption DEF PInv, WorldTypes
<1>4. \A d \in Requests : stage'[d] \in Fresh => stage[d] \in Fresh
  BY <1>2 DEF Local, Kept, Moves, Arrives, Proceeds, IsRefused, IsRouted, Records, Writes,
              Settles, Loses, Fresh
<1> SUFFICES VerdictOK' /\ \A d \in Requests : ProbeOK(d)'
  BY <1>1 DEF FInv
<1>5. ASSUME UNCHANGED <<seen, clock, lastSynced>>, ~Tick
      PROVE  \A d \in Requests : ProbeOK(d)'
  BY <1>1, <1>2, <1>5, ProbesDated, ProbeKept
<1>6. CASE Tick
  <2>1. UNCHANGED <<stage, noted, seen, synced, health>>
    BY <1>6 DEF Tick, routeVars
  <2>2. clock' = clock + 1 /\ lastSynced' = IF synced THEN clock' ELSE lastSynced
    BY <1>6 DEF Tick
  <2>3. lastSynced <= lastSynced'
    BY <1>1, <2>2, Clocks DEF VerdictOK
  <2>4. VerdictOK'
    BY <1>1, <2>1, <2>2, <2>3, Clocks DEF VerdictOK
  <2>5. ASSUME NEW d \in Requests PROVE ProbeOK(d)'
    <3>1. stage[d] = "probe" => clock - noted[d] < ProbeTimeout
      BY <1>6 DEF Tick
    <3>2. lastSynced' \in Int /\ clock \in Int /\ noted[d] \in Int /\ ProbeTimeout \in Int /\ lastSynced \in Int
      BY <1>1, <2>2, Clocks
    <3> QED BY <1>2, <2>1, <2>2, <2>3, <3>1, <3>2 DEF ProbeOK
  <2> QED BY <2>4, <2>5
<1>7. CASE SyncChanges
  <2>1. UNCHANGED <<stage, noted, seen, clock, health>> /\ lastSynced' = clock
    BY <1>7 DEF SyncChanges, routeVars
  <2>2. VerdictOK'
    BY <1>1, <2>1, Clocks DEF VerdictOK
  <2>3. ASSUME NEW d \in Requests PROVE ProbeOK(d)'
    BY <1>1, <1>2, <2>1, Clocks DEF ProbeOK, VerdictOK
  <2> QED BY <2>2, <2>3
<1>8. CASE \E r \in Requests : NodeAnswers(r)
  <2>1. PICK r \in Requests : NodeAnswers(r)
    BY <1>8
  <2>2. UNCHANGED <<stage, noted, synced, clock, lastSynced, health>>
        /\ seen' = [seen EXCEPT ![r] = IF synced THEN "synced" ELSE "syncing"]
        /\ stage[r] = "probe"
    BY <2>1 DEF NodeAnswers, worldVars
  <2>3. VerdictOK'
    BY <1>1, <2>2 DEF VerdictOK
  <2>4. noted[r] <= clock
    BY <1>2, <2>2 DEF ProbeOK
  <2>5. ASSUME NEW d \in Requests PROVE ProbeOK(d)'
    BY <1>1, <1>2, <1>3, <2>2, <2>4, Clocks DEF ProbeOK, VerdictOK, RequestTypes, Fresh
  <2> QED BY <2>3, <2>5
<1>9. CASE \E r \in Requests : ProbeEnds(r)
  <2>1. PICK r \in Requests, ok \in BOOLEAN :
           stage[r] = "probe" /\ (ok => seen[r] = "synced") /\ Remember(r, ok)
    BY <1>9 DEF ProbeEnds
  <2>2. UNCHANGED <<seen, synced, clock, lastSynced>>
    BY <1>9 DEF ProbeEnds, worldVars
  <2>3. ok => noted[r] <= lastSynced
    BY <1>2, <2>1 DEF ProbeOK
  <2>4. VerdictOK'
    BY <1>1, <2>1, <2>2, <2>3 DEF VerdictOK, Remember
  <2>5. ~Tick
    BY <2>2, <1>3 DEF Tick
  <2> QED BY <1>5, <2>2, <2>4, <2>5
<1>10. CASE Restart
  <2>1. UNCHANGED <<seen, synced, clock, lastSynced>> /\ health' = Expired
    BY <1>10 DEF Restart
  <2>2. ~Tick
    BY <2>1, <1>3 DEF Tick
  <2>3. VerdictOK'
    BY <1>1, <2>1 DEF VerdictOK, Expired
  <2> QED BY <1>5, <2>1, <2>2, <2>3
<1>11. CASE UNCHANGED <<seen, health, synced, clock, lastSynced>>
  <2>1. ~Tick
    BY <1>11, <1>3 DEF Tick
  <2> QED BY <1>1, <1>5, <1>11, <2>1 DEF VerdictOK
<1> QED
  BY <1>1, <1>6, <1>7, <1>8, <1>9, <1>10, <1>11, CalmActions
  DEF Calm, EnforceLimit, worldVars

\* A finality request is backed by a recent verdict, however probes overlap.
THEOREM FinalityIsBacked == Spec => FinalityBacked
<1>1. FInv /\ [Next]_vars =>
        [\A r \in Requests :
            GivenPrimary(r) /\ RequiresFinality(body[r]) => Recently]_vars
  BY PrimaryGivenRecently
<1> QED BY <1>1, InitFInv, NextFInv, PTL DEF Spec, FinalityBacked
=============================================================================
