----------------------------- MODULE MCRpcProxy -----------------------------
(***************************************************************************)
(* Instances of RpcProxy for TLC.                                          *)
(***************************************************************************)
EXTENDS RpcProxy, TLC

CONSTANTS r1, r2, r3, k1

TwoRequests   == {r1, r2}
ThreeRequests == {r1, r2, r3}
OneKey        == {k1}
TwoPerWindow  == [k \in Keys |-> 2]
Unlimited     == [k \in Keys |-> 9]

\* Requests that compete for the permit, answered in chunks.
GateBatches == { <<"logs">> }

\* A request that waits for a probe, then for its writes; one that is chunked.
LastingBatches == { <<"finality", "plain">>, <<"logs">> }

\* Items that win or lose against each other, and bodies that are refused.
RoutingBatches == { <<"finality", "trace">>, <<"finality">>, <<>>,
                    <<"plain", "unbounded", "wide">> }

UnseenBatches == { <<"finality-unseen">>, <<"finality">> }

RequestSymmetry == Permutations(Requests)
=============================================================================
