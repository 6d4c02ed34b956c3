----------------------------- MODULE LogChunks -----------------------------
(***************************************************************************)
(* One eth_getLogs request in Open RPC mode: handleOpenRpcGetLogs of       *)
(* rpc-proxy/src/index.ts, with fetchLogsRange for every chunk and the     *)
(* limiter that bounds how many run at once.  An action is the completion  *)
(* of one upstream call or one back-off, and all the code it resumes.  The *)
(* reply ends the request but not the chunks still under way.              *)
(***************************************************************************)
EXTENDS OpenRpc, FiniteSets, SequencesExt

CONSTANTS
    Queries,            \* the filters that arrive: [from, to] block tags
    LogBlocks,          \* the blocks that hold a matching log
    Heads,              \* the last block an upstream may have when it is called
    Upstreams,          \* buildUpstreamList(): the primary, then the fallbacks
    Step,               \* UPSTREAM_MAX_LOG_RANGE
    MaxParallel,        \* UPSTREAM_MAX_PARALLEL
    MaxUserRange,       \* OPENRPC_MAX_USER_BLOCK_RANGE
    MaxLogs             \* OPENRPC_MAX_LOGS_IN_MEMORY

ASSUME LimitsAssumption ==
    /\ Step \in Nat /\ MaxParallel \in Nat
    /\ MaxUserRange \in Nat /\ MaxLogs \in Nat
ASSUME QueriesAssumption == Queries \subseteq [from : Tags, to : Tags]
ASSUME UpstreamsAssumption == Upstreams \in Seq(Range(Upstreams)) \ {<<>>}
ASSUME BlocksAssumption == LogBlocks \subseteq Nat /\ Heads \subseteq Nat

MaxRetries == 2

VARIABLES
    query,              \* the filter of this request
    outcome,            \* "pending", or how the handler's await ended
    asked,              \* upstream asked for the latest block, 0 when none is
    span,               \* fromNum and toNum, once known
    chunk,              \* chunk[c]: where the chunk that starts at block c is
    active, waiting,    \* the limiter's active and queue
    results,            \* the answers kept, in order of arrival
    totalLogs

fetchVars == <<chunk, active, waiting, results, totalLogs>>
vars == <<query, outcome, asked, span, fetchVars>>

NoSpan == [from |-> 0, to |-> -1]      \* an empty range: no chunks yet
Chunks == Starts(span.from, span.to, Step)

Queued             == [at |-> "queued"]
Calling(u, n)      == [at |-> "calling", upstream |-> u, attempt |-> n]
BackingOff(u, n)   == [at |-> "backoff", upstream |-> u, attempt |-> n]
Done               == [at |-> "done"]
Failed(u, n)       == [at |-> "failed", upstream |-> u, attempt |-> n]

Running == {c \in DOMAIN chunk : chunk[c].at \in {"calling", "backoff"}}

Init ==
    /\ query \in Queries
    /\ outcome = "pending"
    /\ asked = 0
    /\ span = NoSpan
    /\ chunk = <<>>
    /\ active = 0 /\ waiting = <<>>
    /\ results = <<>> /\ totalLogs = 0
-----------------------------------------------------------------------------
(* Deciding what to do with the request.                                   *)

Conclude(how) == outcome' = how /\ UNCHANGED <<span, fetchVars>>

\* Mutant of StartedAtOnce: `active <= limit`.
StartedAtOnceMore(n) == IF MaxParallel + 1 < n THEN MaxParallel + 1 ELSE n

\* How many of n calls of the limiter find room.
StartedAtOnce(n) == IF MaxParallel < n THEN MaxParallel ELSE n

\* The limiter starts as many chunks as it may and queues the others.
Launch(from, to) ==
    LET n        == IF Step = 0 THEN 0 ELSE (to - from) \div Step + 1
        first    == StartedAtOnce(n)
        Start(i) == from + (i - 1) * Step
    IN  /\ span' = [from |-> from, to |-> to]
        /\ chunk' = [c \in Starts(from, to, Step) |->
                        IF c <= Start(first) THEN Calling(1, 0) ELSE Queued]
        /\ active' = first
        /\ waiting' = [i \in 1..(n - first) |-> Start(first + i)]
        /\ outcome' = IF n = 0 THEN "answered" ELSE "pending"
        /\ UNCHANGED <<results, totalLogs>>

\* With the latest block resolved, or not needed: forward the request whole,
\* refuse it, or split it.
Plan(latest) ==
    LET from == NormalizeBlockTag(query.from, latest)
        to   == NormalizeBlockTag(query.to, latest)
        unusable == from = NoBlock \/ to = NoBlock \/ to < from
    IN  \/ unusable /\ Conclude("whole")
        \/ ~unusable /\ to - from > MaxUserRange /\ Conclude("400")
        \/ /\ ~unusable /\ to - from <= MaxUserRange
           /\ to - from <= Step
           /\ Conclude("whole")
        \/ /\ ~unusable /\ to - from <= MaxUserRange
           /\ to - from > Step
           /\ Launch(from, to)

Fresh == outcome = "pending" /\ asked = 0 /\ span = NoSpan

Begin ==
    /\ Fresh
    /\ \/ /\ Absent \in {query.from, query.to}
          /\ Conclude("whole")
          /\ UNCHANGED asked
       \/ /\ Absent \notin {query.from, query.to}
          /\ query.to = Latest
          /\ asked' = 1
          /\ UNCHANGED <<outcome, span, fetchVars>>
       \/ /\ Absent \notin {query.from, query.to}
          /\ query.to # Latest
          /\ Plan(NoBlock)
          /\ UNCHANGED asked
    /\ UNCHANGED query

\* getLatestBlockNumber: the first upstream that answers with a block.
HeadAnswers ==
    /\ asked > 0
    /\ \E head \in Heads : Plan(head)
    /\ asked' = 0
    /\ UNCHANGED query

HeadFails ==
    /\ asked > 0
    /\ \/ /\ asked < Len(Upstreams)
          /\ asked' = asked + 1
          /\ UNCHANGED <<outcome, span, fetchVars>>
       \/ /\ asked = Len(Upstreams)
          /\ asked' = 0
          /\ Conclude("400")
    /\ UNCHANGED query
-----------------------------------------------------------------------------
(* The limiter: a chunk that ends, well or badly, makes room for the next. *)

\* Mutant of Free: the room is given back only, nobody is taken in.
FreeOnly(c, end) ==
    /\ active' = active - 1
    /\ chunk' = [chunk EXCEPT ![c] = end]
    /\ UNCHANGED waiting

Free(c, end) ==
    \/ /\ waiting = <<>>
       /\ active' = active - 1
       /\ chunk' = [chunk EXCEPT ![c] = end]
       /\ UNCHANGED waiting
    \/ /\ waiting # <<>>
       /\ chunk' = [chunk EXCEPT ![c] = end, ![Head(waiting)] = Calling(1, 0)]
       /\ waiting' = Tail(waiting)
       /\ UNCHANGED active

\* Mutant of Reject: the reply is that of the last rejection.
RejectAgain(how) == outcome' = how

\* Promise.all rejects with the first rejection; later ones change nothing.
Reject(how) == outcome' = IF outcome = "pending" THEN how ELSE outcome

\* A chunk's promise rejects.
GivenUp(c) == Failed(chunk[c].upstream, chunk[c].attempt)

Fail(c, how) ==
    /\ Free(c, GivenUp(c))
    /\ Reject(how)
    /\ UNCHANGED <<query, asked, span, results, totalLogs>>
-----------------------------------------------------------------------------
(* One upstream call of one chunk.                                         *)

\* An answer for chunk c, of an upstream that has the blocks up to head.
AnswerFor(c, head) == [chunk |-> c, head |-> head]
LogsIn(a) == {b \in LogBlocks \intersect ChunkBlocks(a.chunk, span.to, Step) : b <= a.head}

\* Mutant of Keep: logs are kept before the cap is looked at.
KeepFirst(a) == results' = Append(results, a)

\* results.push, unless the cap on the logs of the request is passed.
Keep(a) ==
    results' = IF totalLogs' > MaxLogs THEN results ELSE Append(results, a)

\* The call returns a list of logs: those of blocks up to head, which may be
\* behind the latest block another upstream told.  A null result counts as an
\* empty list, as of an upstream that has no block.
Answer(c, head) ==
    /\ chunk[c].at = "calling"
    /\ totalLogs' = totalLogs + Cardinality(LogsIn(AnswerFor(c, head)))
    /\ Keep(AnswerFor(c, head))
    /\ IF totalLogs' > MaxLogs
       THEN Free(c, GivenUp(c)) /\ Reject("400")
       ELSE /\ Free(c, Done)
            /\ outcome' = IF outcome = "pending"
                             /\ \A d \in Chunks \ {c} : chunk[d] = Done
                          THEN "answered" ELSE outcome
    /\ UNCHANGED <<query, asked, span>>

\* The call returns something that is not a list.
Malformed(c) ==
    /\ chunk[c].at = "calling"
    /\ Fail(c, "502")

IsLast(u) == Upstreams[u] = Upstreams[Len(Upstreams)]

\* Mutant of Exhausted: one attempt too many.
ExhaustedLate(n) == n > MaxRetries

Exhausted(n) == n = MaxRetries

\* The call fails: wait and retry, go on to the next upstream, or give up.
CallFails(c, error) ==
    LET u == chunk[c].upstream
        n == chunk[c].attempt
    IN  /\ chunk[c].at = "calling"
        /\ \/ /\ ShouldRetry(error) /\ ~Exhausted(n)
              /\ chunk' = [chunk EXCEPT ![c] = BackingOff(u, n)]
              /\ UNCHANGED <<query, outcome, asked, span, active, waiting,
                             results, totalLogs>>
           \/ /\ ShouldRetry(error) /\ Exhausted(n) /\ ~IsLast(u)
              /\ chunk' = [chunk EXCEPT ![c] = Calling(u + 1, 0)]
              /\ UNCHANGED <<query, outcome, asked, span, active, waiting,
                             results, totalLogs>>
           \/ /\ ~ShouldRetry(error) \/ (Exhausted(n) /\ IsLast(u))
              /\ Fail(c, "503")

BackoffEnds(c) ==
    LET u == chunk[c].upstream
        n == chunk[c].attempt
    IN  /\ chunk[c].at = "backoff"
        /\ chunk' = [chunk EXCEPT ![c] = Calling(u, n + 1)]
        /\ UNCHANGED <<query, outcome, asked, span, active, waiting,
                       results, totalLogs>>

CallEnds(c) ==
    \/ \E head \in Heads \union {NoBlock} : Answer(c, head)
    \/ Malformed(c)
    \/ \E error \in Errors : CallFails(c, error)

Next ==
    \/ Begin \/ HeadAnswers \/ HeadFails
    \/ \E c \in DOMAIN chunk : CallEnds(c) \/ BackoffEnds(c)

Spec == Init /\ [][Next]_vars

\* Every upstream call answers, fails or times out (UPSTREAM_TIMEOUT_MS), and
\* every timer of a back-off fires.
Fairness == WF_vars(Next)
FairSpec == Spec /\ Fairness
-----------------------------------------------------------------------------
Outcomes == {"pending", "whole", "answered", "400", "502", "503"}

\* Every variable holds a value of its kind, and the limiter's counter and
\* queue are what the states of the chunks say.
TypeOK ==
    /\ query \in Queries
    /\ outcome \in Outcomes
    /\ asked \in 0..Len(Upstreams)
    /\ span = NoSpan \/ (span.from \in Nat /\ span.to \in Nat)
    /\ DOMAIN chunk = Chunks
    /\ \A c \in Chunks :
        \/ chunk[c] \in {Queued, Done}
        \/ \E u \in DOMAIN Upstreams, n \in 0..MaxRetries :
              chunk[c] \in {Calling(u, n), BackingOff(u, n), Failed(u, n)}
    /\ Range(waiting) = {c \in Chunks : chunk[c] = Queued}
    /\ active = Cardinality(Running)
    /\ Range(results) \subseteq [chunk : Chunks, head : Heads \union {NoBlock}]
    /\ totalLogs \in Nat

ByBlock == [b \in LogBlocks |-> b]
ByChunk == [a \in Range(results) |-> a.chunk]

\* Mutant of Combined: the chunks in order of arrival.
CombinedUnsorted ==
    FlattenSeq([i \in DOMAIN results |-> Ascending(LogsIn(results[i]), ByBlock)])

\* The reply's logs: the chunks in block order, each one's logs in block order.
Combined ==
    LET inOrder == Ascending(Range(results), ByChunk)
    IN  FlattenSeq([i \in DOMAIN inOrder |-> Ascending(LogsIn(inOrder[i]), ByBlock)])

\* However the range is cut and in whatever order, after whatever retries and
\* from whichever upstreams the chunks come back, the reply holds the log of
\* every block asked for, once and in block order.  Missing are only blocks that
\* the upstream which answered for their chunk did not have, when the range ends
\* at the latest block of another, or answered with null.
CompleteAnswer ==
    outcome = "answered" =>
        Combined = Ascending(
            {b \in LogBlocks \intersect (span.from..span.to) :
                \A a \in Range(results) :
                    b \in ChunkBlocks(a.chunk, span.to, Step) => b <= a.head}, ByBlock)

\* What the caller of handleOpenRpcGetLogs has got by now.
replied ==
    IF outcome = "answered" THEN [kind |-> "logs", logs |-> Combined]
    ELSE [kind |-> outcome]

\* Whatever its chunks still do after it, the reply stands, and it is one that
\* the abstract request of LogQuery may get.
Promise == INSTANCE LogQuery WITH reply <- replied
PromiseSpec == Promise!Spec

\* The limiter: never more chunks under way than UPSTREAM_MAX_PARALLEL, the
\* ones that outlive the reply included, and none waits while there is room.
ParallelBound ==
    /\ Cardinality(Running) <= MaxParallel
    /\ waiting # <<>> => Cardinality(Running) = MaxParallel

\* README.md: "aggregated logs are capped by OPENRPC_MAX_LOGS_IN_MEMORY"; what
\* the request keeps never passes the cap, not even after it was refused.
MemoryBound ==
    Cardinality(UNION {LogsIn(a) : a \in Range(results)}) <= MaxLogs

\* A range that is cut up reaches the upstreams in disjoint pieces, which are
\* the whole range and have at most UPSTREAM_MAX_LOG_RANGE blocks each.  Nothing
\* is said of a range that is sent whole (Plan).
WindowsFit ==
    LET Window(c) == ChunkBlocks(c, span.to, Step)
    IN  /\ \A c \in Chunks : Cardinality(Window(c)) \in 1..Step
        /\ \A c, d \in Chunks : c # d => Window(c) \intersect Window(d) = {}
        /\ UNION {Window(c) : c \in Chunks} = span.from..span.to

\* Whoever still awaits the chunks awaits something: an upstream call or a timer of
\* a back-off is under way, never only chunks that wait for one another's room or
\* that have all ended without a reply.
NeverStalled == outcome = "pending" /\ span # NoSpan => Running # {}

\* The request is answered and every chunk comes to an end, the ones the reply
\* left behind included.
EverythingSettles ==
    <>(outcome # "pending" /\ \A c \in Chunks : chunk[c].at \in {"done", "failed"})
=============================================================================
