------------------------------ MODULE WsBridge ------------------------------
(***************************************************************************)
(* The WebSocket side of rpc-proxy/src/index.ts: one bridge per connection *)
(* between a client and an upstream socket.  The handler registers its     *)
(* listeners only after two awaits; what happens to a client before that   *)
(* is heard by nobody, and a rejection it does not catch ends the process. *)
(* Sockets are served up to the end of the process: shutdown() ends the    *)
(* pool of database connections while new clients may still come.          *)
(***************************************************************************)
EXTENDS Integers, FiniteSets

CONSTANT Conns          \* connections; each one is made at most once

VARIABLES
    stage,              \* what the handler awaits, or how it ended
    client, upstream,   \* readyState of the two sockets
    closed,             \* the handler's flag of that name
    touching,           \* touchApiKey is under way
    heard,              \* history: the client was there when its listeners were
    gauge,              \* websocketConnections
    process             \* "ending" once shutdown() has called pool.end()

vars == <<stage, client, upstream, closed, touching, heard, gauge, process>>

Gone == {"none", "closed"}

Init ==
    /\ stage = [c \in Conns |-> "none"]
    /\ client = [c \in Conns |-> "none"]
    /\ upstream = [c \in Conns |-> "none"]
    /\ closed = [c \in Conns |-> FALSE]
    /\ touching = [c \in Conns |-> FALSE]
    /\ heard = [c \in Conns |-> FALSE]
    /\ gauge = 0
    /\ process = "up"
\* The process ends, and with it every connection.
EndProcess(how) ==
    /\ process' = how
    /\ stage' = [c \in Conns |-> "none"]
    /\ client' = [c \in Conns |-> IF client[c] = "none" THEN "none" ELSE "closed"]
    /\ upstream' = [c \in Conns |-> IF upstream[c] = "none" THEN "none" ELSE "closed"]
    /\ touching' = [c \in Conns |-> FALSE]
    /\ gauge' = 0
    /\ UNCHANGED <<closed, heard>>

\* A rejection nobody handles, or an 'error' event nobody listens to.
Crash == EndProcess("crashed")
-----------------------------------------------------------------------------
(* The handler of 'connection'.                                            *)

Await(c, s) ==
    /\ stage' = [stage EXCEPT ![c] = s]
    /\ UNCHANGED <<upstream, closed, touching, heard, gauge, process>>

\* socket.close(4001) or (4003), which does nothing to a closed socket.
TurnAway(c) ==
    /\ Await(c, "turned away")
    /\ client' = [client EXCEPT ![c] = IF @ = "closed" THEN @ ELSE "closing"]

\* Without a key the client is turned away at once.  The key is looked up unless
\* the pool has ended (PoolRefuses, below).  When `new URL` throws, for a target
\* it cannot parse, the handler rejects before it has looked for a key.
Connect(c) ==
    /\ stage[c] = "none"
    /\ \/ /\ process = "up" /\ Await(c, "resolve")
          /\ client' = [client EXCEPT ![c] = "open"]
       \/ /\ Await(c, "turned away")
          /\ client' = [client EXCEPT ![c] = "closing"]
       \/ Crash

\* A query sent before the pool ended may still be answered; the next one, and
\* so the way to a bridge, is refused.
Resolved(c) ==
    /\ stage[c] = "resolve"
    /\ \/ process = "up" /\ Await(c, "allow") /\ UNCHANGED client
       \/ TurnAway(c)

\* The address is allowed: count the connection, dial upstream, listen.
Bridge(c) ==
    /\ stage' = [stage EXCEPT ![c] = "bridged"]
    /\ upstream' = [upstream EXCEPT ![c] = "connecting"]
    /\ touching' = [touching EXCEPT ![c] = TRUE]
    /\ heard' = [heard EXCEPT ![c] = client[c] # "closed"]
    /\ gauge' = gauge + 1
    /\ UNCHANGED <<client, closed, process>>

Allowed(c) ==
    /\ stage[c] = "allow"
    /\ \/ process = "up" /\ Bridge(c)
       \/ TurnAway(c)

LookupFails(c) == stage[c] \in {"resolve", "allow"} /\ Crash

\* `void touchApiKey(...)`
TouchEnds(c) ==
    /\ touching[c]
    /\ \/ /\ touching' = [touching EXCEPT ![c] = FALSE]
          /\ UNCHANGED <<stage, client, upstream, closed, heard, gauge, process>>
       \/ Crash
-----------------------------------------------------------------------------
(* shutdown(); what it awaits first, server.close(), is of the other server. *)

PoolEnds ==
    /\ process = "up"
    /\ process' = "ending"
    /\ UNCHANGED <<stage, client, upstream, closed, touching, heard, gauge>>

\* Nobody catches a second pool.end(), that of another signal, nor the query of
\* a client that comes now: the process ends either way.
PoolRefuses == process = "ending" /\ Crash

\* wss.close() closes no client; process.exit(0) follows at once.
Exit == process = "ending" /\ EndProcess("exited")
-----------------------------------------------------------------------------
(* The listeners.                                                          *)

\* Mutant of Cleanup: the flag is not looked at.
CleanupAgain(c, socket, dialled) ==
    /\ closed' = [closed EXCEPT ![c] = TRUE]
    /\ gauge' = gauge - 1
    /\ upstream' = [upstream EXCEPT ![c] = IF dialled = "closed" THEN dialled ELSE "closing"]
    /\ client' = [client EXCEPT ![c] = IF socket = "open" THEN "closing" ELSE socket]
    /\ UNCHANGED <<stage, touching, heard, process>>

\* Mutant of Cleanup: an upstream that has not opened yet is not closed.
CleanupOpenOnly(c, socket, dialled) ==
    /\ closed' = [closed EXCEPT ![c] = TRUE]
    /\ gauge' = IF closed[c] THEN gauge ELSE gauge - 1
    /\ upstream' = [upstream EXCEPT ![c] = IF dialled = "open" THEN "closing" ELSE dialled]
    /\ client' = [client EXCEPT ![c] = IF socket = "open" THEN "closing" ELSE socket]
    /\ UNCHANGED <<stage, touching, heard, process>>

\* cleanup(), called with the sockets as the event left them: once per bridge,
\* it closes whichever of the two is still there.
Cleanup(c, socket, dialled) ==
    /\ \/ /\ closed[c]
          /\ client' = [client EXCEPT ![c] = socket]
          /\ upstream' = [upstream EXCEPT ![c] = dialled]
          /\ UNCHANGED <<closed, gauge>>
       \/ /\ ~closed[c]
          /\ closed' = [closed EXCEPT ![c] = TRUE]
          /\ gauge' = gauge - 1
          /\ upstream' = [upstream EXCEPT ![c] =
                            IF dialled = "closed" THEN "closed" ELSE "closing"]
          /\ client' = [client EXCEPT ![c] = IF socket = "open" THEN "closing" ELSE socket]
    /\ UNCHANGED <<stage, touching, heard, process>>

\* The client's socket closes: its own doing, or the end of our close().
ClientCloses(c) ==
    /\ client[c] \notin Gone
    /\ \/ /\ stage[c] = "bridged"
          /\ Cleanup(c, "closed", upstream[c])
       \/ /\ stage[c] # "bridged"
          /\ client' = [client EXCEPT ![c] = "closed"]
          /\ UNCHANGED <<stage, upstream, closed, touching, heard, gauge, process>>

\* The client's socket emits 'error'; it closes after that.
ClientErrs(c) ==
    /\ client[c] \notin Gone
    /\ \/ stage[c] = "bridged" /\ Cleanup(c, "closing", upstream[c])
       \/ stage[c] # "bridged" /\ Crash

UpstreamOpens(c) ==
    /\ upstream[c] = "connecting"
    /\ upstream' = [upstream EXCEPT ![c] = "open"]
    /\ UNCHANGED <<stage, client, closed, touching, heard, gauge, process>>

UpstreamCloses(c) ==
    /\ upstream[c] \notin Gone
    /\ Cleanup(c, client[c], "closed")

UpstreamErrs(c) ==
    /\ upstream[c] \notin Gone
    /\ Cleanup(c, client[c], "closing")

\* The end of a closing handshake somebody began.
ClosingEnds(c) ==
    \/ client[c] = "closing" /\ ClientCloses(c)
    \/ upstream[c] = "closing" /\ UpstreamCloses(c)

Alive == process \in {"up", "ending"}

Next ==
    \/ /\ Alive
       /\ \E c \in Conns :
            \/ Connect(c) \/ Resolved(c) \/ Allowed(c) \/ LookupFails(c) \/ TouchEnds(c)
            \/ ClientCloses(c) \/ ClientErrs(c)
            \/ UpstreamOpens(c) \/ UpstreamCloses(c) \/ UpstreamErrs(c)
    \/ PoolEnds \/ PoolRefuses \/ Exit

Spec == Init /\ [][Next]_vars

\* A socket that is closing closes (ws gives up the handshake after 30 s).
Fairness == \A c \in Conns : WF_vars(Alive /\ ClosingEnds(c))
FairSpec == Spec /\ Fairness
-----------------------------------------------------------------------------
\* Every variable holds a value of its kind; an upstream socket is dialled for
\* bridged connections only.
TypeOK ==
    /\ stage \in [Conns -> {"none", "resolve", "allow", "bridged", "turned away"}]
    /\ client \in [Conns -> {"none", "open", "closing", "closed"}]
    /\ upstream \in [Conns -> {"none", "connecting", "open", "closing", "closed"}]
    /\ closed \in [Conns -> BOOLEAN]
    /\ touching \in [Conns -> BOOLEAN]
    /\ heard \in [Conns -> BOOLEAN]
    /\ gauge \in Nat
    /\ process \in {"up", "ending", "exited", "crashed"}
    /\ \A c \in Conns :
        Alive => (upstream[c] # "none" <=> stage[c] = "bridged")

\* Close and error events of two sockets come in any order and more than once,
\* yet the gauge is the number of bridges not yet cleaned up, and a client that
\* was there when its listeners were registered is counted only while it is.
Counted == {c \in Conns : stage[c] = "bridged" /\ ~closed[c]}

GaugeHonest ==
    /\ gauge = Cardinality(Counted)
    /\ \A c \in Counted : heard[c] => client[c] = "open" /\ upstream[c] # "closed"

\* No bridge is left half open: once the first event of either socket has been
\* cleaned up after, both are closed or on their way, whatever they did until then
\* and whatever still happens to them.
NoHalfBridge ==
    \A c \in Conns :
        closed[c] => {client[c], upstream[c]} \subseteq {"closing", "closed"}

\* The two sockets of a bridge end together: the upstream one, open or still
\* connecting, after a client that was heard, and the client after it.
EndsTogether ==
    \A c \in Conns :
        /\ heard[c] /\ client[c] = "closed" ~> upstream[c] = "closed"
        /\ upstream[c] = "closed" ~> client[c] = "closed"

\* metrics.ts: "Active websocket connections"; no client that has left is
\* counted.  The code does not keep this (see the run that expects a violation).
OnlyActiveCounted ==
    \A c \in Counted : client[c] # "closed"
=============================================================================
