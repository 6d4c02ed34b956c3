-------------------------- MODULE RateLimitProofs --------------------------
(***************************************************************************)
(* What the rate limit's row guarantees, for any limits, window width,     *)
(* number of callers and order of arrival of their statements.             *)
(***************************************************************************)
EXTENDS RateLimit, TLAPS

LEMMA WindowIsInt == \A t \in 0..MaxTime : WindowStart(t) \in Int
  BY WidthAssumption, BoundsAssumption DEF WindowStart

LEMMA WindowsAreInts == Windows \subseteq Int
  BY WindowIsInt DEF Windows

-----------------------------------------------------------------------------
(* Type correctness.                                                       *)

RowType == {NoRow} \union [window : Windows, count : Nat \ {0}]

LEMMA UpsertedIsRow ==
  ASSUME NEW old \in RowType, NEW w \in Windows
  PROVE  Upserted(old, w) \in [window : Windows, count : Nat \ {0}]
  BY DEF RowType, Upserted, NoRow

LEMMA SentFields ==
  ASSUME TypeOK, NEW c \in Callers, call[c] # Idle
  PROVE  call[c].key \in Keys /\ call[c].window \in Windows
  BY DEF TypeOK, Sent

LEMMA WriteType ==
  ASSUME TypeOK, NEW c \in Callers, call[c] # Idle, Write(c)
  PROVE  /\ row' \in [Keys -> RowType]
         /\ late' \in [Keys -> Nat]
  BY SentFields, UpsertedIsRow DEF Write, TypeOK, RowType

\* Adding one to one count of a history.
LEMMA CountOne ==
  ASSUME NEW f \in Counts, NEW k \in Keys, NEW w \in Windows
  PROVE  [f EXCEPT ![k][w] = @ + 1] \in Counts
<1> DEFINE g == [f[k] EXCEPT ![w] = @ + 1]
<1>1. f[k] \in [Windows -> Nat]
  BY DEF Counts
<1>2. g \in [Windows -> Nat]
  BY <1>1
<1>3. [f EXCEPT ![k] = g] \in Counts
  BY <1>2 DEF Counts
<1> QED BY <1>3 DEF Counts

LEMMA TypeInit == Init => TypeOK
  BY BoundsAssumption DEF Init, TypeOK, Counts, NoRow

LEMMA TypeNext == TypeOK /\ [Next]_vars => TypeOK'
<1> SUFFICES ASSUME TypeOK, [Next]_vars PROVE TypeOK'
  OBVIOUS
<1>1. CASE Tick
  BY <1>1, BoundsAssumption DEF Tick, TypeOK
<1>2. ASSUME NEW c \in Callers, NEW k \in Keys, Send(c, k) PROVE TypeOK'
  <2>1. WindowStart(clock) \in Windows
    BY DEF TypeOK, Windows
  <2> QED BY <1>2, <2>1 DEF Send, TypeOK, Sent
<1>3. ASSUME NEW c \in Callers, Judge(c) PROVE TypeOK'
  <2>1. /\ row' \in [Keys -> RowType] /\ late' \in [Keys -> Nat]
        /\ call[c].key \in Keys /\ call[c].window \in Windows
    BY <1>3, WriteType, SentFields DEF Judge
  <2>2. admitted' \in Counts /\ refused' \in Counts
    <3> DEFINE k == call[c].key
               w == call[c].window
    <3>1. /\ [admitted EXCEPT ![k][w] = @ + 1] \in Counts
          /\ [refused EXCEPT ![k][w] = @ + 1] \in Counts
      <4> HIDE DEF k, w
      <4> QED BY <2>1, CountOne DEF TypeOK, k, w
    <3>2. \/ admitted' = [admitted EXCEPT ![k][w] = @ + 1] /\ refused' = refused
          \/ refused' = [refused EXCEPT ![k][w] = @ + 1] /\ admitted' = admitted
      BY <1>3 DEF Judge
    <3> QED BY <3>1, <3>2 DEF TypeOK
  <2> QED BY <1>3, <2>1, <2>2 DEF Judge, TypeOK, RowType
<1>4. ASSUME NEW c \in Callers, AnswerLost(c) PROVE TypeOK'
  <2>1. /\ row' \in [Keys -> RowType] /\ late' \in [Keys -> Nat]
        /\ call[c].key \in Keys /\ call[c].window \in Windows
    BY <1>4, WriteType, SentFields DEF AnswerLost
  <2>2. failed' \in Counts
    <3>1. failed' = [failed EXCEPT ![call[c].key][call[c].window] = @ + 1]
      BY <1>4 DEF AnswerLost
    <3> QED BY <2>1, <3>1, CountOne DEF TypeOK
  <2> QED BY <1>4, <2>1, <2>2 DEF AnswerLost, TypeOK, RowType
<1>5. ASSUME NEW c \in Callers, QueryFails(c) PROVE TypeOK'
  BY <1>5 DEF QueryFails, TypeOK
<1>6. CASE UNCHANGED vars
  BY <1>6 DEF vars, TypeOK
<1> QED BY <1>1, <1>2, <1>3, <1>4, <1>5, <1>6 DEF Next

\* The values keep their kinds; in particular a row that exists counts at
\* least one call of a window of the clock.
THEOREM RateLimitTypeCorrect == Spec => []TypeOK
  BY TypeInit, TypeNext, PTL DEF Spec

-----------------------------------------------------------------------------
(* The quota and the refusals.                                             *)

\* The inductive form of QuotaPerLateWrite: what one window has had depends on
\* where the row stands.  Windows the row has not reached have had nothing but
\* what late statements paid for; the row's own has had at most its count on
\* top of that; those it has passed, at most a whole limit on top of it.
PaidFor(k) == Limit[k] * late[k]

QuotaAt(k, w) ==
    /\ row[k].window < w => admitted[k][w] <= PaidFor(k)
    /\ row[k].window = w => /\ admitted[k][w] <= PaidFor(k) + row[k].count
                            /\ admitted[k][w] <= PaidFor(k) + Limit[k]
    /\ row[k].window > w => admitted[k][w] <= PaidFor(k) + Limit[k]

\* The inductive form of NoSpuriousRefusal: the calls of the row's own window
\* that were let through or lost are as many as it counts, up to the limit.
Used(k, w) == admitted[k][w] + failed[k][w]

RefusalAt(k, w) ==
    /\ row[k].window = w => row[k].count <= Used(k, w) \/ Limit[k] <= Used(k, w)
    /\ refused[k][w] > 0 => Limit[k] <= Used(k, w)

IInv ==
    /\ TypeOK
    /\ \A k \in Keys, w \in Windows : QuotaAt(k, w) /\ RefusalAt(k, w)

LEMMA LimitTimes ==
  \A n, m \in Nat : n * m \in Nat /\ n * (m + 1) = n * m + n
  OBVIOUS

\* What the row and the histories of one key look like.
LEMMA KeyTypes ==
  ASSUME TypeOK, NEW k \in Keys
  PROVE  /\ Limit[k] \in Nat /\ late[k] \in Nat /\ PaidFor(k) \in Nat
         /\ row[k].window \in Int /\ row[k].count \in Nat
         /\ \A w \in Windows : /\ w \in Int
                               /\ admitted[k][w] \in Nat
                               /\ refused[k][w] \in Nat
                               /\ failed[k][w] \in Nat
<1>1. Limit[k] \in Nat /\ late[k] \in Nat
  BY LimitAssumption DEF TypeOK
<1>2. PaidFor(k) \in Nat
  BY <1>1, LimitTimes DEF PaidFor
<1>3. row[k].window \in Int /\ row[k].count \in Nat
  <2>1. row[k] = NoRow \/ row[k] \in [window : Windows, count : Nat \ {0}]
    BY DEF TypeOK
  <2>2. CASE row[k] = NoRow
    BY <2>2 DEF NoRow
  <2>3. CASE row[k] \in [window : Windows, count : Nat \ {0}]
    BY <2>3, WindowsAreInts
  <2> QED BY <2>1, <2>2, <2>3
<1> QED BY <1>1, <1>2, <1>3, WindowsAreInts DEF TypeOK, Counts

\* The statement of a call moves its key's row to the call's window, and pays
\* for one more limit exactly when that is a step back.
LEMMA WriteMoves ==
  ASSUME TypeOK, NEW c \in Callers, call[c] # Idle, Write(c),
         NEW k, NEW w, k = call[c].key, w = call[c].window
  PROVE  /\ row'[k].window = w
         /\ row'[k].count = IF row[k].window = w THEN row[k].count + 1 ELSE 1
         /\ PaidFor(k)' = IF w < row[k].window THEN PaidFor(k) + Limit[k] ELSE PaidFor(k)
         /\ \A j \in Keys \ {k} : row'[j] = row[j] /\ PaidFor(j)' = PaidFor(j)
<1>1. k \in Keys /\ w \in Windows
  BY SentFields
<1>2. row'[k] = Upserted(row[k], w)
  BY <1>1 DEF Write, TypeOK
<1>3. late'[k] = IF w < row[k].window THEN late[k] + 1 ELSE late[k]
  BY <1>1 DEF Write, TypeOK
<1>4. PaidFor(k)' = IF w < row[k].window THEN PaidFor(k) + Limit[k] ELSE PaidFor(k)
  BY <1>1, <1>3, KeyTypes, LimitTimes DEF PaidFor
<1>5. \A j \in Keys \ {k} : row'[j] = row[j] /\ late'[j] = late[j]
  BY <1>1 DEF Write, TypeOK
<1> QED BY <1>2, <1>4, <1>5 DEF Upserted, PaidFor

\* One statement for (k, w) keeps the inductive invariant, whether its call is
\* let through, refused or lost, provided the count decides as OverLimit says.
LEMMA StatementKeeps ==
  ASSUME IInv, TypeOK', NEW c \in Callers, call[c] # Idle, Write(c),
         NEW k \in Keys, NEW w \in Windows, k = call[c].key, w = call[c].window,
         \A j \in Keys, v \in Windows : (j # k \/ v # w) =>
            /\ admitted'[j][v] = admitted[j][v]
            /\ refused'[j][v] = refused[j][v]
            /\ failed'[j][v] = failed[j][v],
         \/ /\ row'[k].count <= Limit[k]
            /\ admitted'[k][w] = admitted[k][w] + 1
            /\ refused'[k][w] = refused[k][w] /\ failed'[k][w] = failed[k][w]
         \/ /\ row'[k].count > Limit[k]
            /\ refused'[k][w] = refused[k][w] + 1
            /\ admitted'[k][w] = admitted[k][w] /\ failed'[k][w] = failed[k][w]
         \/ /\ failed'[k][w] = failed[k][w] + 1
            /\ refused'[k][w] = refused[k][w] /\ admitted'[k][w] = admitted[k][w]
  PROVE  IInv'
<1>1. TypeOK
  BY DEF IInv
<1>2. /\ row'[k].window = w
      /\ row'[k].count = IF row[k].window = w THEN row[k].count + 1 ELSE 1
      /\ PaidFor(k)' = IF w < row[k].window THEN PaidFor(k) + Limit[k] ELSE PaidFor(k)
      /\ \A j \in Keys \ {k} : row'[j] = row[j] /\ PaidFor(j)' = PaidFor(j)
  BY <1>1, WriteMoves
<1>3. ASSUME NEW j \in Keys, NEW v \in Windows PROVE QuotaAt(j, v)' /\ RefusalAt(j, v)'
  <2>1. QuotaAt(j, v) /\ RefusalAt(j, v)
    BY DEF IInv
  <2>2. CASE j # k
    BY <1>2, <2>1, <2>2 DEF QuotaAt, RefusalAt, Used
  <2>3. CASE j = k /\ v # w
    <3>1. /\ admitted'[k][v] = admitted[k][v]
          /\ refused'[k][v] = refused[k][v] /\ failed'[k][v] = failed[k][v]
      BY <2>3
    <3>2. QuotaAt(k, v)'
      BY <1>1, <1>2, <2>1, <2>3, <3>1, KeyTypes DEF QuotaAt
    <3>3. RefusalAt(k, v)'
      BY <1>1, <1>2, <2>1, <2>3, <3>1, KeyTypes DEF RefusalAt, Used
    <3> QED BY <2>3, <3>2, <3>3
  <2>4. CASE j = k /\ v = w
    <3>1. QuotaAt(k, w)'
      BY <1>1, <1>2, <2>1, <2>4, KeyTypes DEF QuotaAt
    <3>2. RefusalAt(k, w)'
      BY <1>1, <1>2, <2>1, <2>4, KeyTypes DEF RefusalAt, Used
    <3> QED BY <2>4, <3>1, <3>2
  <2> QED BY <2>2, <2>3, <2>4
<1> QED BY <1>3 DEF IInv

LEMMA InitIInv == Init => IInv
<1> SUFFICES ASSUME Init PROVE IInv
  OBVIOUS
<1>1. TypeOK
  BY TypeInit
<1>2. ASSUME NEW k \in Keys, NEW w \in Windows PROVE QuotaAt(k, w) /\ RefusalAt(k, w)
  <2>1. /\ row[k] = NoRow /\ admitted[k][w] = 0 /\ refused[k][w] = 0
        /\ failed[k][w] = 0
    BY DEF Init
  <2>2. row[k].count = 0
    BY <2>1 DEF NoRow
  <2> QED BY <1>1, <2>1, <2>2, KeyTypes DEF QuotaAt, RefusalAt, Used
<1> QED BY <1>1, <1>2 DEF IInv

LEMMA NextIInv == IInv /\ [Next]_vars => IInv'
<1> SUFFICES ASSUME IInv, [Next]_vars PROVE IInv'
  OBVIOUS
<1>1. TypeOK /\ TypeOK'
  BY TypeNext DEF IInv
<1>2. (UNCHANGED <<row, admitted, refused, failed, late>>) => IInv'
  BY <1>1 DEF IInv, QuotaAt, RefusalAt, Used, PaidFor
<1>3. CASE Tick
  BY <1>2, <1>3 DEF Tick
<1>4. ASSUME NEW c \in Callers, NEW k \in Keys, Send(c, k) PROVE IInv'
  BY <1>2, <1>4 DEF Send
<1>5. ASSUME NEW c \in Callers, Judge(c) PROVE IInv'
  <2> DEFINE k == call[c].key
             w == call[c].window
  <2>1. call[c] # Idle /\ Write(c) /\ k \in Keys /\ w \in Windows
    BY <1>1, <1>5, SentFields DEF Judge
  <2>2. admitted \in Counts /\ refused \in Counts
    BY <1>1 DEF TypeOK
  <2>3. row'[k].count \in Nat /\ Limit[k] \in Nat
    <3>1. row'[k] \in RowType
      BY <1>1, <2>1, WriteType
    <3> QED BY <3>1, LimitAssumption, <2>1 DEF RowType, NoRow
  <2>4. CASE OverLimit(row'[k], Limit[k])
    <3>1. /\ refused' = [refused EXCEPT ![k][w] = @ + 1]
          /\ admitted' = admitted /\ failed' = failed
      BY <1>5, <2>4 DEF Judge
    <3>2. row'[k].count > Limit[k]
      BY <2>4 DEF OverLimit
    <3> HIDE DEF k, w
    <3>3. /\ refused'[k][w] = refused[k][w] + 1
          /\ \A j \in Keys, v \in Windows :
                j # k \/ v # w => refused'[j][v] = refused[j][v]
      BY <2>1, <2>2, <3>1 DEF Counts
    <3> QED BY <1>1, <2>1, <3>1, <3>2, <3>3, StatementKeeps DEF k, w
  <2>5. CASE ~OverLimit(row'[k], Limit[k])
    <3>1. /\ admitted' = [admitted EXCEPT ![k][w] = @ + 1]
          /\ refused' = refused /\ failed' = failed
      BY <1>5, <2>5 DEF Judge
    <3>2. row'[k].count <= Limit[k]
      BY <2>3, <2>5 DEF OverLimit
    <3> HIDE DEF k, w
    <3>3. /\ admitted'[k][w] = admitted[k][w] + 1
          /\ \A j \in Keys, v \in Windows :
                j # k \/ v # w => admitted'[j][v] = admitted[j][v]
      BY <2>1, <2>2, <3>1 DEF Counts
    <3> QED BY <1>1, <2>1, <3>1, <3>2, <3>3, StatementKeeps DEF k, w
  <2> QED BY <2>4, <2>5
<1>6. ASSUME NEW c \in Callers, AnswerLost(c) PROVE IInv'
  <2> DEFINE k == call[c].key
             w == call[c].window
  <2>1. call[c] # Idle /\ Write(c) /\ k \in Keys /\ w \in Windows
    BY <1>1, <1>6, SentFields DEF AnswerLost
  <2>2. failed \in Counts
    BY <1>1 DEF TypeOK
  <2>3. /\ failed' = [failed EXCEPT ![k][w] = @ + 1]
        /\ admitted' = admitted /\ refused' = refused
    BY <1>6 DEF AnswerLost
  <2> HIDE DEF k, w
  <2>4. /\ failed'[k][w] = failed[k][w] + 1
        /\ \A j \in Keys, v \in Windows :
              j # k \/ v # w => failed'[j][v] = failed[j][v]
    BY <2>1, <2>2, <2>3 DEF Counts
  <2> QED BY <1>1, <2>1, <2>3, <2>4, StatementKeeps DEF k, w
<1>7. ASSUME NEW c \in Callers, QueryFails(c) PROVE IInv'
  BY <1>2, <1>7 DEF QueryFails
<1>8. CASE UNCHANGED vars
  BY <1>2, <1>8 DEF vars
<1> QED BY <1>3, <1>4, <1>5, <1>6, <1>7, <1>8 DEF Next

LEMMA SpecIInv == Spec => []IInv
  BY InitIInv, NextIInv, PTL DEF Spec

\* Whatever the order of the statements, a window gets through at most one
\* limit's worth of calls, and one more for each statement that came late.
THEOREM QuotaHolds == Spec => []QuotaPerLateWrite
<1>1. IInv => QuotaPerLateWrite
  <2> SUFFICES ASSUME IInv, NEW k \in Keys, NEW w \in Windows
               PROVE  admitted[k][w] <= Limit[k] * (late[k] + 1)
    BY DEF QuotaPerLateWrite
  <2>1. QuotaAt(k, w) /\ TypeOK
    BY DEF IInv
  <2>2. Limit[k] * (late[k] + 1) = PaidFor(k) + Limit[k]
    BY <2>1, KeyTypes, LimitTimes DEF PaidFor
  <2>3. admitted[k][w] <= PaidFor(k) + Limit[k]
    BY <2>1, KeyTypes DEF QuotaAt
  <2> QED BY <2>2, <2>3
<1> QED BY <1>1, SpecIInv, PTL

\* No call is refused in a window that still had room for it.
THEOREM RefusalsAreEarned == Spec => []NoSpuriousRefusal
<1>1. IInv => NoSpuriousRefusal
  BY KeyTypes, LimitAssumption
  DEF IInv, TypeOK, Counts, RefusalAt, Used, NoSpuriousRefusal
<1> QED BY <1>1, SpecIInv, PTL
=============================================================================
