---------------------------- MODULE MCLogChunks ----------------------------
(***************************************************************************)
(* Instances of LogChunks for TLC: blocks 0 to 7, chunks of two blocks.    *)
(***************************************************************************)
EXTENDS LogChunks

CONSTANTS primary, fallback

\* Five blocks in three chunks; up to the latest block; a range that needs no
\* chunks; one beyond the user's; tags that leave the request as it is.
AllQueries ==
    { [from |-> Number(1), to |-> Number(5)],
      [from |-> Number(2), to |-> Latest],
      [from |-> Number(1), to |-> Number(3)],
      [from |-> Number(0), to |-> Number(7)],
      [from |-> Number(1), to |-> Other],
      [from |-> Absent,    to |-> Number(5)] }

SomeLogs     == {1, 2, 4}
TwoHeads     == {4, 6}
TwoUpstreams == <<primary, fallback>>
=============================================================================
