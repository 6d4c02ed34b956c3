--------------------------- MODULE WsBridgeProofs ---------------------------
(***************************************************************************)
(* Proofs about WsBridge, for any set of connections: nothing is assumed   *)
(* of it, for only finitely many are ever counted at once.                 *)
(***************************************************************************)
EXTENDS WsBridge, FiniteSetTheorems, TLAPS

Stages    == {"none", "resolve", "allow", "bridged", "turned away"}
Clients   == {"none", "open", "closing", "closed"}
Upstreams == {"none", "connecting", "open", "closing", "closed"}

\* The variables that TypeOK types by themselves.
Typed ==
    /\ stage \in [Conns -> Stages]
    /\ client \in [Conns -> Clients]
    /\ upstream \in [Conns -> Upstreams]
    /\ closed \in [Conns -> BOOLEAN]
    /\ touching \in [Conns -> BOOLEAN]
    /\ heard \in [Conns -> BOOLEAN]
    /\ process \in {"up", "ending", "exited", "crashed"}

\* Where a connection is in the handler says which sockets it has: an upstream
\* one once it is bridged, and only then has it been cleaned up; while it is
\* looked up its client is open or has left unheard; a bridge has had a client.
Placed ==
    Alive => \A c \in Conns :
        /\ upstream[c] # "none" <=> stage[c] = "bridged"
        /\ closed[c] => stage[c] = "bridged"
        /\ stage[c] \in {"resolve", "allow"} => client[c] \in {"open", "closed"}
        /\ stage[c] = "bridged" => client[c] # "none"

CountedRight == IsFiniteSet(Counted) /\ gauge = Cardinality(Counted)

HeardOpen == \A c \in Counted : heard[c] => client[c] = "open" /\ upstream[c] # "closed"

WsInv == Typed /\ Placed /\ CountedRight /\ HeardOpen

LEMMA WsInvSuffices == WsInv => TypeOK /\ GaugeHonest
<1>. SUFFICES ASSUME WsInv
              PROVE  TypeOK /\ GaugeHonest
  OBVIOUS
<1>1. gauge \in Nat
  BY FS_CardinalityType DEF WsInv, CountedRight
<1>. QED
  BY <1>1 DEF WsInv, Typed, Placed, CountedRight, HeardOpen, TypeOK, GaugeHonest,
              Stages, Clients, Upstreams

LEMMA WsInit == Init => WsInv
<1>. SUFFICES ASSUME Init
              PROVE  WsInv
  OBVIOUS
<1>1. Counted = {}
  BY DEF Init, Counted
<1>2. CountedRight
  BY <1>1, FS_EmptySet DEF Init, CountedRight
<1>. QED
  BY <1>1, <1>2 DEF Init, WsInv, Typed, Placed, HeardOpen, Stages, Clients, Upstreams

\* A step that counts the same connections by the same gauge.
LEMMA SameCount ==
    ASSUME CountedRight, Counted' = Counted, gauge' = gauge
    PROVE  CountedRight'
BY DEF CountedRight

(***************************************************************************)
(* The end of the process.                                                 *)
(***************************************************************************)

LEMMA EndInv ==
    ASSUME WsInv, NEW how \in {"exited", "crashed"}, EndProcess(how)
    PROVE  WsInv'
<1>1. Counted' = {}
  BY DEF EndProcess, Counted
<1>2. CountedRight'
  BY <1>1, FS_EmptySet DEF EndProcess, CountedRight
<1>3. Typed'
  BY DEF WsInv, Typed, EndProcess, Stages, Clients, Upstreams
<1>4. Placed'
  BY DEF EndProcess, Placed, Alive
<1>. QED  BY <1>1, <1>2, <1>3, <1>4 DEF WsInv, HeardOpen

(***************************************************************************)
(* The handler of a connection.                                            *)
(***************************************************************************)

\* The handler goes on or turns the client away; no bridge begins.
LEMMA AwaitInv ==
    ASSUME WsInv, Alive, NEW c \in Conns,
           NEW s \in {"resolve", "allow", "turned away"}, Await(c, s),
           stage[c] \in {"none", "resolve", "allow"},
           NEW w \in {"open", "closing", "closed"}, client' = [client EXCEPT ![c] = w],
           s \in {"resolve", "allow"} => w \in {"open", "closed"}
    PROVE  WsInv'
<1>1. Typed'
  BY DEF WsInv, Typed, Await, Stages, Clients
<1>2. Counted' = Counted /\ c \notin Counted
  BY DEF WsInv, Typed, Await, Counted
<1>3. CountedRight'
  BY <1>2, SameCount DEF WsInv, Await
<1>4. HeardOpen'
  BY <1>2 DEF WsInv, Typed, HeardOpen, Await, Counted
<1>5. Placed'
  <2>. SUFFICES ASSUME NEW d \in Conns
                PROVE  /\ upstream'[d] # "none" <=> stage'[d] = "bridged"
                       /\ closed'[d] => stage'[d] = "bridged"
                       /\ stage'[d] \in {"resolve", "allow"} => client'[d] \in {"open", "closed"}
                       /\ stage'[d] = "bridged" => client'[d] # "none"
    BY DEF Placed
  <2>1. CASE d = c
    BY <2>1 DEF WsInv, Typed, Placed, Await
  <2>2. CASE d # c
    BY <2>2 DEF WsInv, Typed, Placed, Await
  <2>. QED  BY <2>1, <2>2
<1>. QED  BY <1>1, <1>3, <1>4, <1>5 DEF WsInv

LEMMA TurnAwayInv ==
    ASSUME WsInv, Alive, NEW c \in Conns, TurnAway(c), stage[c] \in {"resolve", "allow"}
    PROVE  WsInv'
<1>. DEFINE w == IF client[c] = "closed" THEN "closed" ELSE "closing"
<1>1. client' = [client EXCEPT ![c] = w] /\ Await(c, "turned away")
  BY DEF TurnAway, WsInv, Typed
<1>2. w \in {"open", "closing", "closed"}
  OBVIOUS
<1>. HIDE DEF w
<1>. QED  BY <1>1, <1>2, AwaitInv

LEMMA BridgeInv ==
    ASSUME WsInv, Alive, NEW c \in Conns, stage[c] = "allow", Bridge(c)
    PROVE  WsInv'
<1>1. Typed'
  BY DEF WsInv, Typed, Bridge, Stages, Upstreams
<1>2. ~closed[c] /\ client[c] \in {"open", "closed"} /\ c \notin Counted
  BY DEF WsInv, Typed, Placed, Counted
<1>3. Counted' = Counted \union {c}
  BY <1>2 DEF WsInv, Typed, Bridge, Counted
<1>4. CountedRight'
  BY <1>2, <1>3, FS_AddElement DEF WsInv, CountedRight, Bridge
<1>5. HeardOpen'
  <2>. SUFFICES ASSUME NEW d \in Counted', heard'[d]
                PROVE  client'[d] = "open" /\ upstream'[d] # "closed"
    BY DEF HeardOpen
  <2>1. CASE d = c
    BY <2>1, <1>2 DEF WsInv, Typed, Bridge
  <2>2. CASE d # c
    BY <2>2, <1>3 DEF WsInv, Typed, HeardOpen, Bridge, Counted
  <2>. QED  BY <2>1, <2>2
<1>6. Placed'
  <2>. SUFFICES ASSUME NEW d \in Conns
                PROVE  /\ upstream'[d] # "none" <=> stage'[d] = "bridged"
                       /\ closed'[d] => stage'[d] = "bridged"
                       /\ stage'[d] \in {"resolve", "allow"} => client'[d] \in {"open", "closed"}
                       /\ stage'[d] = "bridged" => client'[d] # "none"
    BY DEF Placed
  <2>1. CASE d = c
    BY <1>2, <2>1 DEF WsInv, Typed, Bridge
  <2>2. CASE d # c
    BY <2>2 DEF WsInv, Typed, Placed, Bridge
  <2>. QED  BY <2>1, <2>2
<1>. QED  BY <1>1, <1>4, <1>5, <1>6 DEF WsInv

LEMMA HandlerInv ==
    ASSUME WsInv, Alive, NEW c \in Conns,
           Connect(c) \/ Resolved(c) \/ Allowed(c) \/ LookupFails(c) \/ TouchEnds(c)
    PROVE  WsInv'
<1>1. CASE Connect(c) /\ ~Crash
  <2>1. stage[c] = "none"
    BY <1>1 DEF Connect
  <2>2. CASE Await(c, "resolve") /\ client' = [client EXCEPT ![c] = "open"]
    BY <2>1, <2>2, AwaitInv
  <2>3. CASE Await(c, "turned away") /\ client' = [client EXCEPT ![c] = "closing"]
    BY <2>1, <2>3, AwaitInv
  <2>. QED  BY <1>1, <2>2, <2>3 DEF Connect
<1>2. CASE Resolved(c)
  <2>1. stage[c] = "resolve" /\ client[c] \in {"open", "closed"}
    BY <1>2 DEF Resolved, WsInv, Placed
  <2>2. CASE Await(c, "allow") /\ UNCHANGED client
    <3>1. client' = [client EXCEPT ![c] = client[c]]
      BY <2>2 DEF WsInv, Typed
    <3>. QED  BY <2>1, <2>2, <3>1, AwaitInv
  <2>3. CASE TurnAway(c)
    BY <2>1, <2>3, TurnAwayInv
  <2>. QED  BY <1>2, <2>2, <2>3 DEF Resolved
<1>3. CASE Allowed(c)
  BY <1>3, BridgeInv, TurnAwayInv DEF Allowed
<1>4. CASE TouchEnds(c) /\ ~Crash
  <2>1. /\ touching' = [touching EXCEPT ![c] = FALSE]
        /\ UNCHANGED <<stage, client, upstream, closed, heard, gauge, process>>
    BY <1>4 DEF TouchEnds
  <2>2. Counted' = Counted /\ CountedRight'
    BY <2>1, SameCount DEF Counted, WsInv
  <2>. QED  BY <2>1, <2>2 DEF WsInv, Typed, Placed, Alive, HeardOpen
<1>5. CASE Crash
  BY <1>5, EndInv DEF Crash
<1>. QED  BY <1>1, <1>2, <1>3, <1>4, <1>5 DEF LookupFails

(***************************************************************************)
(* The listeners.                                                          *)
(***************************************************************************)

\* The first of any number of events cleans up, the others find the flag set.
LEMMA CleanupInv ==
    ASSUME WsInv, Alive, NEW c \in Conns, stage[c] = "bridged",
           NEW socket \in Clients \ {"none"}, NEW dialled \in Upstreams \ {"none"},
           Cleanup(c, socket, dialled)
    PROVE  WsInv'
<1>1. PICK v \in Clients \ {"none"}, w \in Upstreams \ {"none"} :
         /\ client' = [client EXCEPT ![c] = v] /\ upstream' = [upstream EXCEPT ![c] = w]
         /\ closed' = [closed EXCEPT ![c] = TRUE]
         /\ gauge' = IF closed[c] THEN gauge ELSE gauge - 1
         /\ UNCHANGED <<stage, touching, heard, process>>
  <2>1. CASE closed[c]
    BY <2>1 DEF Cleanup, WsInv, Typed
  <2>2. CASE ~closed[c]
    <3>. DEFINE v == IF socket = "open" THEN "closing" ELSE socket
                w == IF dialled = "closed" THEN "closed" ELSE "closing"
    <3>1. /\ client' = [client EXCEPT ![c] = v] /\ upstream' = [upstream EXCEPT ![c] = w]
          /\ closed' = [closed EXCEPT ![c] = TRUE] /\ gauge' = gauge - 1
          /\ UNCHANGED <<stage, touching, heard, process>>
      BY <2>2 DEF Cleanup
    <3>2. v \in Clients \ {"none"} /\ w \in Upstreams \ {"none"}
      BY DEF Clients, Upstreams
    <3>. HIDE DEF v, w
    <3>. QED  BY <2>2, <3>1, <3>2
  <2>. QED  BY <2>1, <2>2
<1>2. Typed'
  BY <1>1 DEF WsInv, Typed
<1>3. Counted' = Counted \ {c}
  BY <1>1 DEF WsInv, Typed, Counted
<1>4. CountedRight'
  <2>1. CASE closed[c]
    BY <1>1, <1>3, <2>1, SameCount DEF WsInv, Counted
  <2>2. CASE ~closed[c]
    <3>1. c \in Counted /\ IsFiniteSet(Counted)
      BY <2>2 DEF Counted, WsInv, CountedRight
    <3>. QED  BY <1>1, <1>3, <2>2, <3>1, FS_RemoveElement DEF WsInv, CountedRight
  <2>. QED  BY <2>1, <2>2
<1>5. HeardOpen'
  BY <1>1, <1>3 DEF WsInv, Typed, HeardOpen, Counted
<1>6. Placed'
  BY <1>1 DEF WsInv, Typed, Placed, Alive
<1>. QED  BY <1>2, <1>4, <1>5, <1>6 DEF WsInv

LEMMA ListenersInv ==
    ASSUME WsInv, Alive, NEW c \in Conns,
           \/ ClientCloses(c) \/ ClientErrs(c)
           \/ UpstreamOpens(c) \/ UpstreamCloses(c) \/ UpstreamErrs(c)
    PROVE  WsInv'
<1>a. /\ client[c] \in Clients /\ upstream[c] \in Upstreams
      /\ stage[c] = "bridged" <=> upstream[c] # "none"
      /\ stage[c] = "bridged" => client[c] # "none"
      /\ {"closed", "closing"} \subseteq Clients \ {"none"}
      /\ {"closed", "closing"} \subseteq Upstreams \ {"none"}
  BY DEF WsInv, Typed, Placed, Clients, Upstreams
<1>1. CASE ClientCloses(c)
  <2>1. CASE stage[c] = "bridged"
    BY <1>1, <1>a, <2>1, CleanupInv DEF ClientCloses
  <2>2. CASE stage[c] # "bridged"
    <3>1. /\ client' = [client EXCEPT ![c] = "closed"]
          /\ UNCHANGED <<stage, upstream, closed, touching, heard, gauge, process>>
      BY <1>1, <2>2 DEF ClientCloses
    <3>2. Counted' = Counted /\ c \notin Counted
      BY <3>1, <2>2 DEF Counted
    <3>3. CountedRight'
      BY <3>1, <3>2, SameCount DEF WsInv
    <3>4. Typed' /\ HeardOpen'
      BY <3>1, <3>2, <1>a DEF WsInv, Typed, HeardOpen, Counted
    <3>5. Placed'
      BY <3>1 DEF WsInv, Typed, Placed, Alive
    <3>. QED  BY <3>3, <3>4, <3>5 DEF WsInv
  <2>. QED  BY <2>1, <2>2
<1>2. CASE ClientErrs(c)
  BY <1>2, <1>a, CleanupInv, EndInv DEF ClientErrs, Crash
<1>3. CASE UpstreamOpens(c)
  <2>1. /\ upstream[c] = "connecting" /\ upstream' = [upstream EXCEPT ![c] = "open"]
        /\ UNCHANGED <<stage, client, closed, touching, heard, gauge, process>>
    BY <1>3 DEF UpstreamOpens
  <2>2. Counted' = Counted /\ CountedRight'
    BY <2>1, SameCount DEF Counted, WsInv
  <2>3. Typed' /\ HeardOpen'
    BY <2>1, <2>2 DEF WsInv, Typed, HeardOpen, Counted, Upstreams
  <2>4. Placed'
    BY <2>1 DEF WsInv, Typed, Placed, Alive
  <2>. QED  BY <2>2, <2>3, <2>4 DEF WsInv
<1>4. CASE UpstreamCloses(c) \/ UpstreamErrs(c)
  BY <1>4, <1>a, CleanupInv DEF UpstreamCloses, UpstreamErrs, Gone
<1>. QED  BY <1>1, <1>2, <1>3, <1>4

(***************************************************************************)
(* The specification.                                                      *)
(***************************************************************************)

LEMMA WsStep == WsInv /\ [Next]_vars => WsInv'
<1>. SUFFICES ASSUME WsInv, [Next]_vars
              PROVE  WsInv'
  OBVIOUS
<1>1. ASSUME UNCHANGED <<stage, client, upstream, closed, touching, heard, gauge>>,
             process' \in {"up", "ending", "exited", "crashed"}, Alive' => Alive
      PROVE  WsInv'
  <2>1. Counted' = Counted /\ CountedRight'
    BY <1>1, SameCount DEF Counted, WsInv
  <2>. QED  BY <1>1, <2>1 DEF WsInv, Typed, Placed, HeardOpen
<1>2. CASE PoolEnds
  BY <1>1, <1>2 DEF PoolEnds, Alive
<1>3. CASE PoolRefuses \/ Exit
  BY <1>3, EndInv DEF PoolRefuses, Exit, Crash
<1>4. CASE UNCHANGED vars
  BY <1>1, <1>4 DEF vars, Alive, WsInv, Typed
<1>. QED  BY <1>2, <1>3, <1>4, HandlerInv, ListenersInv DEF Next

\* A handler under way has not been cleaned up after.
LEMMA HandlerEndsNone ==
    ASSUME WsInv, NoHalfBridge, Alive, NEW c \in Conns,
           Connect(c) \/ Resolved(c) \/ Allowed(c) \/ LookupFails(c) \/ TouchEnds(c)
    PROVE  NoHalfBridge'
<1>1. CASE Crash
  BY <1>1 DEF Crash, EndProcess, NoHalfBridge
<1>2. CASE TouchEnds(c) /\ ~Crash
  BY <1>2 DEF TouchEnds, NoHalfBridge
<1>3. CASE (Connect(c) /\ ~Crash) \/ Resolved(c) \/ Allowed(c)
  <2>1. ~closed[c] /\ UNCHANGED closed
    BY <1>3 DEF Connect, Resolved, Allowed, TurnAway, Await, Bridge, WsInv, Placed
  <2>2. \A d \in Conns \ {c} : client'[d] = client[d] /\ upstream'[d] = upstream[d]
    BY <1>3 DEF Connect, Resolved, Allowed, TurnAway, Await, Bridge, WsInv, Typed
  <2>. QED  BY <2>1, <2>2 DEF NoHalfBridge
<1>. QED  BY <1>1, <1>2, <1>3 DEF LookupFails

\* What cleanup() makes of the sockets of a bridge, whichever event has called it.
LEMMA CleanupEndsBoth ==
    ASSUME WsInv, NoHalfBridge, NEW c \in Conns, NEW socket, NEW dialled,
           Cleanup(c, socket, dialled),
           socket \in {"closing", "closed"} \/ (socket = client[c] /\ socket \in Clients \ {"none"}),
           dialled \in {"closing", "closed"} \/ (dialled = upstream[c] /\ dialled \in Upstreams \ {"none"})
    PROVE  NoHalfBridge'
<1>1. {client'[c], upstream'[c]} \subseteq {"closing", "closed"}
  BY DEF Cleanup, WsInv, Typed, NoHalfBridge, Clients, Upstreams
<1>2. \A d \in Conns \ {c} :
         client'[d] = client[d] /\ upstream'[d] = upstream[d] /\ closed'[d] = closed[d]
  BY DEF Cleanup, WsInv, Typed
<1>. QED  BY <1>1, <1>2 DEF NoHalfBridge

LEMMA ListenersEndBoth ==
    ASSUME WsInv, NoHalfBridge, Alive, NEW c \in Conns,
           \/ ClientCloses(c) \/ ClientErrs(c)
           \/ UpstreamOpens(c) \/ UpstreamCloses(c) \/ UpstreamErrs(c)
    PROVE  NoHalfBridge'
<1>1. /\ client[c] \in Clients /\ upstream[c] \in Upstreams
      /\ stage[c] = "bridged" <=> upstream[c] # "none"
      /\ stage[c] = "bridged" => client[c] # "none"
  BY DEF WsInv, Typed, Placed
<1>2. CASE stage[c] = "bridged" /\ (ClientCloses(c) \/ ClientErrs(c))
  BY <1>1, <1>2, CleanupEndsBoth DEF ClientCloses, ClientErrs
<1>3. CASE stage[c] # "bridged" /\ ClientCloses(c)
  BY <1>1, <1>3 DEF ClientCloses, NoHalfBridge, WsInv, Typed
<1>4. CASE stage[c] # "bridged" /\ ClientErrs(c)
  BY <1>4 DEF ClientErrs, Crash, EndProcess, NoHalfBridge
<1>5. CASE UpstreamOpens(c)
  BY <1>5 DEF UpstreamOpens, NoHalfBridge, WsInv, Typed
<1>6. CASE UpstreamCloses(c) \/ UpstreamErrs(c)
  <2>1. client[c] # "none"
    BY <1>1, <1>6 DEF UpstreamCloses, UpstreamErrs, Gone
  <2>. QED  BY <1>1, <1>6, <2>1, CleanupEndsBoth DEF UpstreamCloses, UpstreamErrs
<1>. QED  BY <1>2, <1>3, <1>4, <1>5, <1>6

LEMMA HalfStep == WsInv /\ NoHalfBridge /\ [Next]_vars => NoHalfBridge'
<1>. SUFFICES ASSUME WsInv, NoHalfBridge, [Next]_vars
              PROVE  NoHalfBridge'
  OBVIOUS
<1>1. CASE PoolEnds \/ UNCHANGED vars
  BY <1>1 DEF PoolEnds, vars, NoHalfBridge
<1>2. CASE PoolRefuses \/ Exit
  BY <1>2 DEF PoolRefuses, Exit, Crash, EndProcess, NoHalfBridge
<1>. QED  BY <1>1, <1>2, HandlerEndsNone, ListenersEndBoth DEF Next

\* The state of every connection, its sockets and the process keep their types,
\* and an upstream socket is dialled for bridged connections only.
THEOREM TypeCorrect == Spec => []TypeOK
BY WsInvSuffices, WsInit, WsStep, PTL DEF Spec

\* Close and error events of both sockets in any order and number bring the gauge
\* down once for every bridge, so it is the number of bridges that are there.
THEOREM GaugeRight == Spec => []GaugeHonest
BY WsInvSuffices, WsInit, WsStep, PTL DEF Spec

\* However the sockets of a bridge fail, and in whatever order, none is left open
\* once the other is gone: cleanup() closes both, an upstream socket that is still
\* connecting included, and no later event opens one again.
THEOREM NoneHalfOpen == Spec => []NoHalfBridge
<1>1. Init => NoHalfBridge
  BY DEF Init, NoHalfBridge
<1>. QED  BY <1>1, WsInit, WsStep, HalfStep, PTL DEF Spec
=============================================================================
