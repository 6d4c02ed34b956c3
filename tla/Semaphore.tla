----------------------------- MODULE Semaphore -----------------------------
(***************************************************************************)
(* The counting semaphore of rpc-proxy/src/semaphore.ts.  Both methods run *)
(* to completion on the event loop.  `holders` is not in the code: it is   *)
(* the set of callers whose acquire() has resolved and who have not called *)
(* release() yet; a module that composes this one substitutes its own.     *)
(***************************************************************************)
EXTENDS Integers, FiniteSets, Sequences, Functions

CONSTANTS
    Callers,
    Permits             \* RPC_PROXY_MAX_CONCURRENCY; the theorems take it in Nat

VARIABLES
    permits,            \* Semaphore.permits
    queue,              \* Semaphore.queue: the callers whose resolve() waits
    holders

vars == <<permits, queue, holders>>

Waiters == Range(queue)

Init ==
    /\ permits = Permits
    /\ queue = <<>>
    /\ holders = {}

\* Mutant of Acquire: newcomers go to the front of the queue.
AcquireInFront(c) ==
    \/ /\ permits > 0
       /\ permits' = permits - 1
       /\ holders' = holders \union {c}
       /\ UNCHANGED queue
    \/ /\ ~(permits > 0)
       /\ queue' = <<c>> \o queue
       /\ UNCHANGED <<permits, holders>>

\* acquire(): take a permit, or leave a resolve() in the queue.
Acquire(c) ==
    \/ /\ permits > 0
       /\ permits' = permits - 1
       /\ holders' = holders \union {c}
       /\ UNCHANGED queue
    \/ /\ ~(permits > 0)
       /\ queue' = Append(queue, c)
       /\ UNCHANGED <<permits, holders>>

\* Mutant of Woken: the waiter shifted out is not called.
WokenNobody == {}

\* The waiter release() calls: the queue's first, if the permit given back
\* leaves one to take.
Woken == IF queue # <<>> /\ permits + 1 > 0 THEN {Head(queue)} ELSE {}

\* Mutant of Release: the permit handed over is also given back.
ReleaseTwice(c) ==
    /\ permits' = permits + 1
    /\ queue' = IF queue = <<>> THEN queue ELSE Tail(queue)
    /\ holders' = (holders \ {c}) \union Woken

\* release(): give the permit back, shift the queue, and hand the permit
\* straight to the waiter shifted out.
Release(c) ==
    /\ permits' = IF Woken = {} THEN permits + 1 ELSE permits
    /\ queue' = IF queue = <<>> THEN queue ELSE Tail(queue)
    /\ holders' = (holders \ {c}) \union Woken

\* The process ends and a new one constructs the semaphore.
Restart ==
    /\ permits' = Permits
    /\ queue' = <<>>
    /\ holders' = {}

\* index.ts acquires once per request and releases once, after it.
Next ==
    \/ Restart
    \/ \E c \in Callers :
        \/ c \notin holders \union Waiters /\ Acquire(c)
        \/ c \in holders /\ Release(c)

Spec == Init /\ [][Next]_vars
-----------------------------------------------------------------------------
TypeOK ==
    /\ permits \in Nat
    /\ queue \in Seq(Callers)
    /\ holders \in SUBSET Callers

\* A free permit is exactly one not held, so none is lost or invented by the
\* hand-over in release(); a free permit and a waiter never coexist; and a
\* caller is in one place once.
PermitsConserved ==
    /\ IsFiniteSet(holders)
    /\ permits + Cardinality(holders) = Permits
    /\ permits > 0 => queue = <<>>

PlacedOnce ==
    /\ IsInjective(queue)
    /\ Waiters \intersect holders = {}

Gate == INSTANCE FifoGate
            WITH Clients <- Callers, Capacity <- Permits,
                 inside <- holders, line <- queue
GateSpec == Gate!Spec
=============================================================================
