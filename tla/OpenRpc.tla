------------------------------ MODULE OpenRpc ------------------------------
(***************************************************************************)
(* The pure half of the chunked eth_getLogs: rpc-proxy/src/openrpc.ts.     *)
(***************************************************************************)
EXTENDS Integers, FiniteSets

(* Block tags.  A tag is what the filter's fromBlock or toBlock holds.     *)

Number(n) == [tag |-> "number", block |-> n]    \* a number or a numeral
Latest    == [tag |-> "latest", block |-> -1]
Other     == [tag |-> "other",  block |-> -1]   \* earliest, safe, finalized...
Absent    == [tag |-> "absent", block |-> -1]

Tags      == {Latest, Other, Absent} \union [tag : {"number"}, block : Nat]

NoBlock == -1           \* null

\* The block a tag names, given what `latest` is resolved to (NoBlock when it
\* has not been resolved).
NormalizeBlockTag(tag, latest) ==
    IF tag.tag = "latest" THEN latest ELSE tag.block

(* splitInclusiveRange: the chunks of from..to, each named by its first     *)
(* block; the loop steps from one first block to the next.                  *)

Starts(from, to, step) ==
    IF step <= 0 THEN {} ELSE {b \in from..to : (b - from) % step = 0}

\* Mutant of ChunkEnd: the end of a chunk taken to be exclusive.
ChunkEndShared(start, to, step) == IF start + step < to THEN start + step ELSE to

ChunkEnd(start, to, step) ==
    IF start + step - 1 < to THEN start + step - 1 ELSE to

ChunkBlocks(start, to, step) == start..ChunkEnd(start, to, step)

(* The order of a reply: the elements of S, which have different keys, by   *)
(* increasing key.                                                          *)

Ascending(S, key) ==
    CHOOSE s \in [1..Cardinality(S) -> S] :
        \A i, j \in DOMAIN s : i < j => key[s[i]] < key[s[j]]

(* What can come back from one upstream call instead of logs.               *)

HttpErrors == {"http 429",      \* status 429, or an error body that says so
               "http 5xx",
               "http 4xx",      \* any other status
               "timeout",       \* ECONNABORTED, ETIMEDOUT, ECONNRESET
               "refused"}       \* any other connection error
BodyErrors == {"rpc error",             \* status 200 with a JSON-RPC error
               "rpc rate limit"}        \* one that says rate limit
Errors == HttpErrors \union BodyErrors

\* isRateLimit looks for `response.status` and `response.data`, which only an
\* HTTP error has: given the JSON-RPC body itself, or the chunk error made of
\* it, it finds neither.
IsRateLimit(error) == error = "http 429"

ShouldRetry(error) == IsRateLimit(error) \/ error \in {"http 5xx", "timeout"}
=============================================================================
