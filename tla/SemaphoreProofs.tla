-------------------------- MODULE SemaphoreProofs --------------------------
(***************************************************************************)
(* Semaphore keeps its permits and its queue in order and implements the   *)
(* gate FifoGate describes, for any number of callers and of permits.      *)
(***************************************************************************)
EXTENDS Semaphore, FiniteSetTheorems, SequenceTheorems, TLAPS

(* What the two ends of the queue do to the set of those waiting in it.    *)

LEMMA AppendToQueue ==
  ASSUME NEW S, NEW q \in Seq(S), NEW c \in S, IsInjective(q), c \notin Range(q)
  PROVE  /\ Append(q, c) \in Seq(S)
         /\ Append(q, c) # <<>>
         /\ IsInjective(Append(q, c))
         /\ Range(Append(q, c)) = Range(q) \union {c}
<1> DEFINE p == Append(q, c)
<1>1. /\ p \in Seq(S) /\ p # <<>> /\ Len(p) = Len(q) + 1 /\ p[Len(p)] = c
      /\ \A i \in 1..Len(q) : p[i] = q[i]
  BY AppendProperties
<1>2. DOMAIN q = 1..Len(q) /\ DOMAIN p = 1..(Len(q) + 1) /\ Len(q) \in Nat
  BY <1>1, LenProperties
<1>3. IsInjective(p)
  BY <1>1, <1>2 DEF IsInjective, Range
<1>4. Range(p) = Range(q) \union {c}
  BY <1>1, <1>2 DEF Range
<1> QED BY <1>1, <1>3, <1>4

LEMMA TailOfQueue ==
  ASSUME NEW S, NEW q \in Seq(S), IsInjective(q), q # <<>>
  PROVE  /\ Head(q) \in Range(q)
         /\ Head(q) \in S
         /\ Tail(q) \in Seq(S)
         /\ IsInjective(Tail(q))
         /\ Range(Tail(q)) = Range(q) \ {Head(q)}
<1> DEFINE t == Tail(q)
<1>1. /\ Head(q) \in S /\ t \in Seq(S) /\ Len(t) = Len(q) - 1
      /\ \A i \in 1..Len(t) : t[i] = q[i + 1]
  BY HeadTailProperties
<1>2. DOMAIN q = 1..Len(q) /\ DOMAIN t = 1..(Len(q) - 1) /\ Len(q) \in Nat \ {0}
  BY <1>1, LenProperties, EmptySeq
<1>3. Head(q) = q[1]
  OBVIOUS
<1>4. IsInjective(t)
  BY <1>1, <1>2 DEF IsInjective
<1>5. Range(t) = Range(q) \ {Head(q)}
  <2>1. ASSUME NEW i \in DOMAIN t PROVE t[i] \in Range(q) \ {Head(q)}
    BY <1>1, <1>2, <1>3 DEF Range, IsInjective
  <2>2. ASSUME NEW i \in DOMAIN q, q[i] # Head(q) PROVE q[i] \in Range(t)
    <3>1. i - 1 \in DOMAIN t /\ t[i - 1] = q[i]
      BY <1>1, <1>2, <1>3, <2>2
    <3> QED BY <3>1 DEF Range
  <2> QED BY <2>1, <2>2 DEF Range
<1>6. Head(q) \in Range(q)
  BY <1>2, <1>3 DEF Range
<1> QED BY <1>1, <1>4, <1>5, <1>6

-----------------------------------------------------------------------------

\* The inductive invariant: none of its parts is inductive without the others.
\* release() gives a permit back only if it is a holder's, and the waiter it
\* wakes must not hold one already.
IInv == Permits \in Nat /\ TypeOK /\ PermitsConserved /\ PlacedOnce

LEMMA EmptyQueue == <<>> \in Seq(Callers) /\ Range(<<>>) = {} /\ IsInjective(<<>>)
  BY EmptySeq DEF Range, IsInjective

LEMMA FreshIInv ==
  ASSUME Permits \in Nat, permits = Permits, queue = <<>>, holders = {}
  PROVE  IInv
<1>1. IsFiniteSet({}) /\ Cardinality({}) = 0
  BY FS_EmptySet
<1> QED
  BY <1>1, EmptyQueue
  DEF IInv, TypeOK, PermitsConserved, PlacedOnce, Waiters

LEMMA AcquireIInv ==
  ASSUME IInv, NEW c \in Callers, c \notin holders \union Waiters, Acquire(c)
  PROVE  IInv'
<1> USE DEF IInv, TypeOK, PermitsConserved, PlacedOnce
<1>1. CASE permits > 0 /\ permits' = permits - 1
           /\ holders' = holders \union {c} /\ UNCHANGED queue
  <2>1. IsFiniteSet(holders') /\ Cardinality(holders') = Cardinality(holders) + 1
    BY <1>1, FS_AddElement
  <2>2. Cardinality(holders) \in Nat
    BY FS_CardinalityType
  <2>3. Waiters' = Waiters
    BY <1>1 DEF Waiters
  <2> QED BY <1>1, <2>1, <2>2, <2>3
<1>2. CASE ~(permits > 0) /\ queue' = Append(queue, c) /\ UNCHANGED <<permits, holders>>
  <2>1. /\ queue' \in Seq(Callers) /\ IsInjective(queue')
        /\ Range(queue') = Range(queue) \union {c}
    BY <1>2, AppendToQueue DEF Waiters
  <2> QED BY <1>2, <2>1 DEF Waiters
<1> QED BY <1>1, <1>2 DEF Acquire

LEMMA ReleaseIInv ==
  ASSUME IInv, NEW c \in Callers, c \in holders, Release(c)
  PROVE  IInv'
<1> USE DEF IInv, TypeOK, PermitsConserved, PlacedOnce
<1>1. /\ IsFiniteSet(holders \ {c})
      /\ Cardinality(holders \ {c}) = Cardinality(holders) - 1
  BY FS_RemoveElement
<1>2. Cardinality(holders) \in Nat
  BY FS_CardinalityType
<1>3. CASE queue = <<>>
  <2>1. permits' = permits + 1 /\ queue' = queue /\ holders' = holders \ {c}
    BY <1>3 DEF Release, Woken
  <2> QED BY <1>1, <1>2, <1>3, <2>1 DEF Waiters
<1>4. CASE queue # <<>>
  <2> DEFINE w == Head(queue)
  <2>1. /\ w \in Waiters /\ w \in Callers /\ Tail(queue) \in Seq(Callers)
        /\ IsInjective(Tail(queue)) /\ Range(Tail(queue)) = Waiters \ {w}
    BY <1>4, TailOfQueue DEF Waiters
  <2>2. Woken = {w}
    BY <1>4 DEF Woken
  <2>3. /\ permits' = permits /\ queue' = Tail(queue)
        /\ holders' = (holders \ {c}) \union {w}
    BY <1>4, <2>2 DEF Release
  <2>4. /\ IsFiniteSet(holders')
        /\ Cardinality(holders') = Cardinality(holders \ {c}) + 1
    BY <1>1, <2>1, <2>3, FS_AddElement
  <2>5. permits = 0
    BY <1>4
  <2> QED BY <1>1, <1>2, <2>1, <2>3, <2>4, <2>5 DEF Waiters
<1> QED BY <1>3, <1>4

LEMMA NextIInv == IInv /\ [Next]_vars => IInv'
<1> SUFFICES ASSUME IInv, [Next]_vars PROVE IInv'
  OBVIOUS
<1>1. CASE Restart
  <2>1. permits' = Permits /\ queue' = <<>> /\ holders' = {}
    BY <1>1 DEF Restart
  <2>2. IsFiniteSet({}) /\ Cardinality({}) = 0
    BY FS_EmptySet
  <2> QED
    BY <2>1, <2>2, EmptyQueue
    DEF IInv, TypeOK, PermitsConserved, PlacedOnce, Waiters
<1>2. ASSUME NEW c \in Callers, c \notin holders \union Waiters, Acquire(c) PROVE IInv'
  BY <1>2, AcquireIInv
<1>3. ASSUME NEW c \in Callers, c \in holders, Release(c) PROVE IInv'
  BY <1>3, ReleaseIInv
<1>4. CASE UNCHANGED vars
  BY <1>4 DEF vars, IInv, TypeOK, PermitsConserved, PlacedOnce, Waiters
<1> QED BY <1>1, <1>2, <1>3, <1>4 DEF Next

LEMMA InitIInv == Permits \in Nat /\ Init => IInv
  BY FreshIInv DEF Init

LEMMA SpecIInv ==
  ASSUME Permits \in Nat
  PROVE  Spec => []IInv
  BY InitIInv, NextIInv, PTL DEF Spec

\* The values of permits, queue and holders keep their kinds.
THEOREM SemaphoreTypeCorrect ==
  ASSUME Permits \in Nat
  PROVE  Spec => []TypeOK
<1>1. IInv => TypeOK
  BY DEF IInv
<1> QED BY <1>1, SpecIInv, PTL

\* No permit is lost or invented, and a free one never coexists with a waiter.
THEOREM SemaphoreConserves ==
  ASSUME Permits \in Nat
  PROVE  Spec => []PermitsConserved
<1>1. IInv => PermitsConserved
  BY DEF IInv
<1> QED BY <1>1, SpecIInv, PTL

-----------------------------------------------------------------------------

\* FifoGate counts with its own copy of Cardinality.
LEMMA SameCardinality == \A S : Gate!Cardinality(S) = Cardinality(S)
  BY DEF Gate!Cardinality, Cardinality

\* The gate has room exactly when the semaphore has a permit.
LEMMA RoomIsPermit == IInv => (Gate!Room <=> permits > 0)
<1> SUFFICES ASSUME IInv PROVE Gate!Room <=> permits > 0
  OBVIOUS
<1>1. Cardinality(holders) \in Nat
  BY FS_CardinalityType DEF IInv, PermitsConserved
<1> QED
  BY <1>1, SameCardinality
  DEF IInv, TypeOK, PermitsConserved, Gate!Room

LEMMA AcquireIsArrive ==
  ASSUME IInv, NEW c \in Callers, c \notin holders \union Waiters, Acquire(c)
  PROVE  Gate!Arrive(c)
<1>1. c \in Gate!Outside
  BY DEF Gate!Outside, Waiters, Range
<1> QED BY <1>1, RoomIsPermit DEF Acquire, Gate!Arrive

LEMMA ReleaseIsDepart ==
  ASSUME IInv, NEW c \in Callers, c \in holders, Release(c)
  PROVE  Gate!Depart(c)
<1>1. permits \in Nat
  BY DEF IInv, TypeOK
<1>2. CASE queue = <<>>
  BY <1>2 DEF Release, Woken, Gate!Depart
<1>3. CASE queue # <<>>
  <2>1. Woken = {Head(queue)}
    BY <1>1, <1>3 DEF Woken
  <2> QED BY <1>3, <2>1 DEF Release, Gate!Depart
<1> QED BY <1>2, <1>3

LEMMA NextIsGateNext == IInv /\ [Next]_vars => [Gate!Next]_<<holders, queue>>
<1> SUFFICES ASSUME IInv, [Next]_vars PROVE [Gate!Next]_<<holders, queue>>
  OBVIOUS
<1>1. CASE Restart
  BY <1>1 DEF Restart, Gate!Next, Gate!Close
<1>2. ASSUME NEW c \in Callers, c \notin holders \union Waiters, Acquire(c)
      PROVE  Gate!Next
  BY <1>2, AcquireIsArrive DEF Gate!Next
<1>3. ASSUME NEW c \in Callers, c \in holders, Release(c) PROVE Gate!Next
  BY <1>3, ReleaseIsDepart DEF Gate!Next
<1>4. CASE UNCHANGED vars
  BY <1>4 DEF vars
<1> QED BY <1>1, <1>2, <1>3, <1>4 DEF Next

\* The semaphore implements the first-come-first-served gate: every acquire is
\* an arrival, every release the departure that lets the longest waiter in.
THEOREM SemaphoreImplementsGate ==
  ASSUME Permits \in Nat
  PROVE  Spec => GateSpec
<1>1. Init => Gate!Init
  BY DEF Init, Gate!Init
<1> QED BY <1>1, NextIsGateNext, SpecIInv, PTL DEF Spec, GateSpec, Gate!Spec
=============================================================================
