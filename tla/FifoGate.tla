------------------------------ MODULE FifoGate ------------------------------
(***************************************************************************)
(* What rpc-proxy/src/semaphore.ts promises the requests that use it: at   *)
(* most Capacity of them are inside at a time, nobody waits outside while  *)
(* there is room, and those who wait are let in in the order they came.    *)
(***************************************************************************)
EXTENDS Naturals, FiniteSets, Sequences

CONSTANTS Clients, Capacity

VARIABLES
    inside,             \* the clients let in
    line                \* the clients waiting, longest wait first

Room     == Cardinality(inside) < Capacity
Outside  == Clients \ (inside \union {line[i] : i \in DOMAIN line})

Init == inside = {} /\ line = <<>>

\* A newcomer goes in only when there is room, otherwise to the end of the line.
Arrive(c) ==
    /\ c \in Outside
    /\ \/ Room  /\ inside' = inside \union {c} /\ line' = line
       \/ ~Room /\ inside' = inside /\ line' = Append(line, c)

\* Whoever leaves hands the place to the head of the line, if there is one.
Depart(c) ==
    /\ c \in inside
    /\ \/ line = <<>> /\ inside' = inside \ {c} /\ line' = line
       \/ /\ line # <<>>
          /\ inside' = (inside \ {c}) \union {Head(line)}
          /\ line' = Tail(line)

\* The process restarts: everybody is thrown out.
Close == inside' = {} /\ line' = <<>>

Next == Close \/ \E c \in Clients : Arrive(c) \/ Depart(c)

Spec == Init /\ [][Next]_<<inside, line>>
=============================================================================
