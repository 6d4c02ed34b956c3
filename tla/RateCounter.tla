---------------------------- MODULE RateCounter ----------------------------
(***************************************************************************)
(* One row of rate_limit_counters, as rpc-proxy/src/rateLimit.ts computes  *)
(* and updates it.  The row holds a window start and the number of calls   *)
(* counted for that window; a call counted for any other window starts the *)
(* row again at 1.  Time is in ticks, Width ticks to a window.             *)
(***************************************************************************)
EXTENDS Integers

CONSTANT Width          \* RPC_PROXY_RATE_LIMIT_WINDOW, in ticks

ASSUME WidthAssumption == Width \in Nat \ {0}

\* The row before the first call for a key: no window matches it.
NoRow == [window |-> -1, count |-> 0]

\* Math.floor(now / windowMs) * windowMs
WindowStart(now) == now - (now % Width)

\* Mutants of Upserted: a row that starts again at 0, one that does not count
\* up, one that goes on counting in a new window.
UpsertedFromZero(row, window) ==
    [window |-> window, count |-> IF row.window = window THEN row.count + 1 ELSE 0]
UpsertedOnce(row, window) ==
    [window |-> window, count |-> IF row.window = window THEN row.count ELSE 1]
UpsertedForever(row, window) ==
    [window |-> window, count |-> row.count + 1]

\* INSERT ... ON CONFLICT DO UPDATE: count up in the same window, otherwise
\* take the caller's window, whichever of the two is later.
Upserted(row, window) ==
    [window |-> window,
     count  |-> IF row.window = window THEN row.count + 1 ELSE 1]

\* The statement returns the row it wrote, so the returned window is always
\* the caller's own and only the count decides.
OverLimit(row, limit) == row.count > limit
=============================================================================
