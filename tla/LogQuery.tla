----------------------------- MODULE LogQuery ------------------------------
(***************************************************************************)
(* What handleOpenRpcGetLogs of rpc-proxy/src/index.ts promises to whoever *)
(* asks for the logs of a range: one reply and no second one, which passes *)
(* the request on, refuses it, or holds logs of the range asked for, each  *)
(* once, in block order, and no more of them than may be kept.             *)
(***************************************************************************)
EXTENDS OpenRpc

CONSTANTS Queries, LogBlocks, Heads, MaxUserRange, MaxLogs

VARIABLES
    query,              \* the filter
    reply               \* [kind], with the logs when there are any

Init == query \in Queries /\ reply = [kind |-> "pending"]

Reply(r) ==
    /\ reply = [kind |-> "pending"]
    /\ reply' = r
    /\ UNCHANGED query

PassOn == Reply([kind |-> "whole"])

Refuse == \E status \in {"400", "502", "503"} : Reply([kind |-> status])

\* The range depends on what the latest block is held to be.
Deliver ==
    \E latest \in Heads \union {NoBlock} :
        LET from == NormalizeBlockTag(query.from, latest)
            to   == NormalizeBlockTag(query.to, latest)
        IN  /\ NoBlock \notin {from, to}
            /\ from <= to /\ to - from <= MaxUserRange
            /\ \E n \in 0..MaxLogs :
                \E logs \in [1..n -> LogBlocks \intersect (from..to)] :
                    /\ \A i, j \in 1..n : i < j => logs[i] < logs[j]
                    /\ Reply([kind |-> "logs", logs |-> logs])

Next == PassOn \/ Refuse \/ Deliver

Spec == Init /\ [][Next]_<<query, reply>>
=============================================================================
