# Formal models of Falcon RPC

TLA+ models of the parts of this repository whose correctness depends on the
order in which things happen, TLC configurations that check them on small
instances, and TLAPS proofs for every value of the constants.

    tlc -workers 2 -config MCRpcProxyGate.cfg MCRpcProxy     # one run
    tlapm RpcProxyProofs.tla                                 # one proof module

`PROJECT.json` lists components, runs, mutants (small plausible bugs that each
property must detect), the source lines of every definition, findings, hazards
and theorems.

## The system

Falcon RPC sells access to Ethereum JSON-RPC. Everything shared between
processes is in one PostgreSQL database.

| component | state it keeps | operations | talks to |
|---|---|---|---|
| `rpc-proxy` HTTP pipeline (`index.ts`) | the requests in flight | `POST /`: key, allow list, rate limit, routing, semaphore, forward, accounting, reply | database, upstreams, consensus node |
| rate limit (`rateLimit.ts`) | one row per key in `rate_limit_counters` | `enforceRateLimit`: one upsert | database, shared by all proxies |
| semaphore (`semaphore.ts`) | `permits`, `queue` | `acquire`, `release` | the pipeline |
| consensus health and routing (`index.ts`) | `consensusHealth`, `fallbackIndex` | `isConsensusHealthy`, `nextFallbackEndpoint` | consensus node |
| Open RPC chunking (`index.ts`, `openrpc.ts`) | per request: chunks, limiter, kept logs | `handleOpenRpcGetLogs`, `fetchLogsRange` | upstreams |
| usage logger, key lookup, allow list, block range | none of their own | queries, pure parsing | database |
| WebSocket bridge (`index.ts`) | a pair of sockets, a gauge | connect, message, close, error | database, upstream |
| shutdown (`index.ts`) | what is already closed | SIGINT, SIGTERM: `server.close`, `pool.end`, `wss.close`, exit | pipeline, WebSocket bridge, database |
| `auth-service` | API keys, allow lists, gauges | bootstrap, login, key administration, reports | database |
| `billing-engine` | `billing_records` | a cycle started by a timer | database |
| `dashboard` | the token, React state | sign in and out, fetch lists and details, create, edit the allow list | `auth-service` |
| deployment | configuration only | | |

What is hard in it: the HTTP handler has ten awaits and may fail at every one,
and what it read before an await may be out of date after it; the rate limit
decides the window in the process and counts in the database; the semaphore
and the chunk limiter are hand-written; a rejected `Promise.all` leaves work
behind; two probes of the consensus node may overlap; cycles of the billing
engine may overlap; the dashboard applies answers in the order they arrive.
`hazards` in `PROJECT.json` has each of these at its line.

What would make each part correct:

- rate limit: a window lets no more than the plan's calls through, and nobody
  is refused while the window has room;
- semaphore: no permit lost or invented, first come first served, no waiting
  request while a permit is free;
- pipeline: every request that arrives is answered; what is billed was served;
- routing: trace never goes to the pruned primary; `finalized` and `safe` only
  to a primary whose consensus node was recently in sync;
- chunking: the reply is exactly what one unchunked call would have returned,
  within the limits on parallelism and memory, and on width when it is cut;
- WebSocket bridge: both sockets end together, and the gauge counts the open ones;
- billing: the stored total of a period never goes back, and ends up complete;
- shutdown: a process told to stop answers what it has taken in, and stops;
- administration: one key is seeded, the secret shown once is the right one, and
  the gauge of active keys ends at their number when all is answered in order;
- dashboard: what stands under a key's name is that key's.

## The modules

| module | models | notes |
|---|---|---|
| `RateCounter` | the upsert of `rateLimit.ts` and the row of `001_init.sql` | operators, shared by the next and by `RpcProxy` |
| `RateLimit` | `enforceRateLimit` called by many callers at once | `Send` computes the window; `Judge`, `AnswerLost` and `QueryFails` are the statement reaching the database, and what becomes of its answer |
| `FifoGate` | nothing: the abstract gate a semaphore promises | capacity, line, first come first served |
| `Semaphore` | `semaphore.ts` | `Acquire`, `Release`; implements `FifoGate` |
| `RpcProxy` | the handler of `POST /` with the semaphore, the health cache, routing, the usage logger, and `shutdown()` | composes `RateCounter` (EXTENDS) and `Semaphore` (INSTANCE); implements `FifoGate` |
| `OpenRpc` | `openrpc.ts` | operators: tags, ranges, the order of a reply, error classes |
| `LogQuery` | nothing: the abstract request for logs | one reply, of logs of the range in order and within the cap, or none of them |
| `LogChunks` | `handleOpenRpcGetLogs`, `fetchLogsRange`, `getLatestBlockNumber`, `createLimiter` | one request, its chunks and what outlives the reply; implements `LogQuery` |
| `WsBridge` | the handler of a WebSocket connection, its listeners and the end of the process | several connections share the gauge and the process |
| `Billing` | `runBillingCycle` and the timer that starts it | overlapping cycles; usage and revocation as steps of others |
| `KeyAdmin` | `startup.ts`, `init`, creation and revocation in `apiKeyRoutes.ts`, the gauge of active keys | several instances on one database |
| `KeyManager` | `page.tsx`, `LoginForm.tsx`, `ApiKeyManager.tsx`, `lib/api.ts` and the routes they call | one page, its handlers and the service |
| `MC*` | constants for TLC | |
| `*Proofs` | theorems about the module of that name | |

### How state and actions correspond to the code

JavaScript runs to the next await without interruption. In `RpcProxy`,
`stage[r]` is the await the handler of request `r` is at, and an action is the
completion of that await with the code up to the next one. The database's or
upstream's effect is merged with the continuation that sees its result, for the
statements that commute with everything another request does in between (a
lookup of a key row, an insert of a row nobody reads); the rate limit, where the
moment of the statement matters, is modelled with separate steps in `RateLimit`,
and so is the probe of the consensus node (`NodeAnswers`, `ProbeEnds`).
`work[r][i]` is the promise of item `i` of a batch: `RecordSample` and
`RecordUsage` are its two inserts, and they go on after `Settle` has replied
with the first failure, as the promises do. A client that disconnects changes
nothing in the handler, so it has no action.

Bodies are abstracted to what routing distinguishes (`Kinds`). Requests of a
body with `fromBlock: 'earliest'` have a block range of NaN; the histogram throws
on it outside any `try`, and the reply is 500.

`power` is how far `shutdown()` has come. A signal stops the listener
(`draining`); what comes later over a connection that is still open is refused
by Fastify (`ArriveLate`). When every request is answered the pool is ended
(`Drained`, `ending`). Of the writes that outlived their reply, those that have
a client of the pool are waited for, those still in its queue (`max: 20` in
`db.ts`) never get one, and those not sent by then fail; `Drained` leaves open
which are in the queue. When the last statement has come back, `pool.end`
resolves and the process exits (`Exit`). A second signal, whenever it came,
calls `pool.end` on a pool that is ending: that rejects, nobody handles it, and
the process ends with what still runs (`SignalAgain`). `Restart` is a crash, or
the start after an exit: requests in flight are never answered, the memory is as
at start-up, and what the database holds stays. A write that was on its way and
lands anyway is its `Record` step taken before the crash. `barred` remembers
which requests had still to look up their key when it was revoked.

In `LogChunks` a chunk is named by its first block and `chunk[c]` says whether
it is queued in the limiter, in a call, in a back-off or at an end. Logs are
the set of blocks that hold one. An upstream that answers has the blocks up to
some `head`, which need not be the head another upstream told when `latest` was
resolved: each kept answer carries the head of its upstream, and a `null`
result, which the code counts as an empty list, is that of an upstream without
blocks. The reply ends the request (`outcome`) and not the chunks, exactly as a
rejected `Promise.all`. Negative and fractional block numbers are left out.

In `WsBridge` an action is an event: a lookup that resolves, a socket that
opens, closes or errs. `heard` remembers whether the client was still there when
its listeners were registered. A rejection in the `async` listener of
`connection` and an `error` event without a listener end the process (Node.js
20), which is `Crash`; so does a request target that `new URL` throws on, the
first line of the handler (`Connect`). Once `shutdown()` has ended the pool
(`process` is `ending`), clients still come, and a lookup made for one of them
rejects: `PoolRefuses`. Relayed messages change nothing the model keeps.

In `Billing` a cycle is its transaction: `Snapshot` is the moment the `INSERT
... SELECT` starts, `Upsert` the moment it has the row locks (it waits for
another cycle that wrote and has not committed), `Commit` makes its totals
visible. `Fail` is any query that rejects, a `COMMIT` whose answer is lost
included. `overtaken` remembers that another cycle committed between a cycle's
snapshot and its own commit. A bill is its number of requests; the price per
request is a constant of the plan and left out.

In `KeyAdmin` an instance goes through `init()` query by query (`phase`); what
its transaction has added is seen by others when it commits (`user`, `row`), but
the insert of a unique email waits for another one that is open (`wrote`). A
job is an admin request that has written: its count is taken by one step and
put into the gauge by another, so that a younger count can overtake it.
`behind` remembers what can make the gauge of an instance wrong, and `first` the
`ADMIN_DEFAULT_API_KEY` of the first bootstrap to commit. A restart may come with
another `ADMIN_DEFAULT_API_KEY`; `ADMIN_EMAIL` is assumed to be the same for all
instances (`docker-compose.yml`), because with two of them each could seed a
key. Requests that
are refused or fail before they write change nothing and are left out. Secrets
are opaque, and a key keeps the one it was hashed from (`hash`) beside the one
that is shown (`plain`).

In `KeyManager`, `call[c]` is what a handler of the page awaits: first the
request on its way to the service, then the answer on its way back. `Serve` is
the service, `Arrive` the page going on. Keys are numbered in the order they
were created, so a list is a number. The five requests of `refreshDetails` are
one: usage, methods, bills and secret are read for the key of the path like the
allow list, which is the one that changes. A change of the selection takes two
steps: `Point` renders the new name with the old panel and secret still there,
and `EffectRuns` is the effect of `ApiKeyManager.tsx:64` that clears the secret
and asks for the details. Between the two, answers and clicks may come that do
not change the selection; one that does waits for the effect (`Rendered`), since
React runs effects that are due before it renders again. Two history variables
say when the page may be wrong: `newest` is the last `refreshDetails` still under
way, and `excuse` collects an answer that came after the newest one (`late`), a
refresh after an edit of a key that is no longer selected (`moved`), a call that
failed (`failed`) and an edit by somebody else (`elsewhere`). These are the ways
the code does show one key's data under another's name, or old data: nothing
ties an answer to the selection when it arrives.

## The runs

| run | question | bounds |
|---|---|---|
| `rate_limit` | Is the quota kept up to late statements, and no call refused without cause, when statements of three callers are delayed, reordered, lost? | 2 keys, limits 1 and 2, 5 calls, 3 windows of 2 ticks: a window can be filled, overrun and revisited |
| `rate_limit_quota` | Is it kept without that exception, as `API_DOCS.md` says? **No** | 1 key, 4 calls |
| `proxy_gate` | Are permits and queue order right, and does a revocation stop what it can, across signals and a crash? | 3 requests of one key, 1 permit: one inside, two queued; 2 calls per window of 1 tick, clock to 1, so the third request is refused or comes in the next window; bodies of one `eth_getLogs` in Open RPC mode, no fallback; 1 restart, a signal and a second one |
| `proxy_ends` | Is every request answered, and does a shutdown end, whatever a reply leaves behind, across a crash? | 2 requests of one key, 1 permit, so one waits; a body of two items that waits for a probe and leaves a write behind when the other fails, and one that is chunked; the clock stopped, 1 restart, a signal and a second one |
| `proxy_routing` | Do trace and finality requests end at the right upstream, and do the rows written agree with the reply? | 2 requests, so two probes overlap; batches of up to three kinds; clock to 2, one more than a probe; verdict cached for 2; two fallbacks |
| `proxy_finality_unseen` | Is every finality request checked, as `README.md` says? **No** | as `proxy_routing` |
| `log_chunks` | Is a chunked answer complete, ordered and within its limits, whatever fails, does the reply stand whatever its chunks still do, does nothing stall, and does every chunk end? | 3 chunks of 2 blocks, 2 at once, 2 upstreams at block 4 or 6; one query over the log cap and one under it, one uncut, one refused, two unusable |
| `ws_bridge` | Is the gauge right, is no bridge left half open, and does it end as a whole, whatever the order of events, up to the end of the process? | 3 connections |
| `ws_leak` | Are only active connections counted, as `metrics.ts` says? **No** | 3 connections |
| `billing` | Is nothing billed twice, nothing taken back but by an overlap, and everything billed in the end? | 1 key with a free quota of 1, 2 cycles, 2 months, 3 requests, 2 faults: one cycle can overtake another, and a fault can hit either |
| `key_admin` | Is one key seeded, the right secret shown, and the gauge right once all is answered? | 2 instances, 2 jobs, 2 secrets, 2 new keys beside the one of an old database; keys are created while there are fewer than `MaxRows` = 2 |
| `key_manager` | Does the page show, under the key it names, what the database holds for it? Does it come to show it? | 2 handlers at once, up to 2 keys, 1 address: two answers can overtake each other, and an edit can end under the other key |

Two callers are enough to reorder statements, a third to be refused because of
them; three requests are the least for a queue with an order; three chunks over
a limiter of two are the least where one waits. `key_admin` and `key_manager`
check for deadlock; the others say `CHECK_DEADLOCK FALSE`, because a finite set
of requests, chunks or connections comes to an end.

The three runs marked **No** are findings. `rateLimit.ts:24` restarts the count
on *any* difference of windows, also when the row is already in a later one: a
statement that arrives after its minute moves the row back, and the count of the
later window is lost. `QuotaPerLateWrite` says what does hold: one extra limit
for each such statement. `index.ts:77` looks for the block tag at index 1 for
all methods, though some carry it elsewhere. `index.ts:580` registers the
listeners of a client after two awaits: a client that has left by then is
counted and given an upstream connection, and its `close` event has already gone
by.

Three more places where the repository's `README.md` says something else than
the code does have no run, because a property would only restate one line:

- `README.md:139` says that rate-limit responses are retried over the fallbacks.
  `index.ts:403` asks `isRateLimit` about the JSON-RPC body, where it looks for an
  HTTP response, so a limit reported in a JSON-RPC error is never recognised and
  its chunk fails at once (`ShouldRetry` in `OpenRpc`).
- `README.md:137` says that upstreams never see oversized windows. `index.ts:336`
  subtracts the ends of the range, so one of `UPSTREAM_MAX_LOG_RANGE` plus one
  blocks is sent whole, and so is every range whose tags the plan cannot read
  (`Plan` in `LogChunks`). `WindowsFit` is about ranges that are cut.
- `README.md:156` calls `auth_service_api_keys_total` a count of active keys. The
  code increments it for every key that is created and never lowers it; the
  gauge that follows the active keys, `auth_service_active_api_keys`, is another.

### Fairness

`proxy_ends` assumes `WF` of every handler, of every write of every item, and of
what `shutdown()` awaits: a query or call that was sent returns or rejects, and
`server.close` resolves once nobody is served any more. For upstream calls
axios' timeout gives that; for PostgreSQL it is an assumption, since the pool
sets no statement timeout. Nothing is assumed of arrivals, revocations, signals,
the second one too, or crashes. `EveryRequestAnswered` and `ShutdownEnds` also
need `Permits` at least 1: with `RPC_PROXY_MAX_CONCURRENCY=0`, which the code
accepts, every request waits for ever. `log_chunks` assumes that some step that
can happen does: calls time out and timers fire; it needs
`UPSTREAM_MAX_PARALLEL` at least 1 for the same reason.

`ws_bridge` assumes that a socket that is closing closes (`ws` gives up after 30
s). `billing` assumes that the timer keeps firing and that a cycle goes on
unless a query rejects, which happens `MaxFaults` times: a database that never
recovers is never billed. `key_manager` assumes that every call of the page is
answered or fails, as `fetch` promises, and nothing of the user.

The clock never goes back, and a probe that is out of time ends before the
clock moves on (the event loop runs the timer).

## The proofs

For any number of callers, keys, requests, connections, cycles and permits, any
filters, limits and window widths:

- `RateLimitProofs`: `TypeOK`, `QuotaPerLateWrite`, `NoSpuriousRefusal`. The two
  last are not inductive, because they talk of all windows and the row knows
  only one. The strengthening adds, for every key and window, how many calls
  were let through relative to the row's count when the row is in that window
  (`QuotaAt`), and why a refusal was earned (`RefusalAt`).
- `SemaphoreProofs`: type correctness, conservation (`permits` plus holders is
  `Permits`, no waiter beside a free permit) and that `Semaphore` implements
  `FifoGate`: initial states map to initial states, every step to a step or a
  stutter. The invariant adds that the queue has no repetition and nobody is
  both in it and holding.
- `RpcProxyProofs`, in five parts. `GInv`: the handler keeps the protocol of the
  semaphore on every path (each action either leaves the gate alone or is one
  `Acquire`, `Release` or `Restart` of it), hence `PermitsAccounted`, and the
  pipeline implements `FifoGate` (`GateSpec`); it reuses the lemmas of
  `SemaphoreProofs`, with the holders defined by the stages. `PInv`: every action
  of a handler changes one request, and `RequestOK` says of each request which
  stage goes with which target, writes and reply; it gives `TypeOK`,
  `SettledAccounts` and `TraceOffPrimary`. `BarredOK`: a barred request has not
  been looked up, or was refused; it gives `RevokedStayOut`. `FInv`: a positive
  verdict, in the cache or on its way with a probe, is dated no later than the
  last moment at which the node was in sync, and a probe is no older than
  `ProbeTimeout`; with it every step that sends a request to the primary
  satisfies `FinalityBacked`.
- `LogChunksProofs`: first the arithmetic of the cut (the chunks begin `Step`
  blocks apart, so their windows are a partition of the range). `LInv` adds to
  the types that the limiter's queue holds each waiting chunk once, that it is
  full whenever one waits, that no chunk exists before the range is known, and
  that what is kept was counted before. It gives `TypeOK`, `ParallelBound` and
  `MemoryBound`, and `WindowsFit` when `UPSTREAM_MAX_LOG_RANGE` is positive (for
  ranges that are cut). With
  zero, which the code accepts, `splitInclusiveRange` gives no window at all and
  the reply is an empty list. `AnswersOK` relates the answers kept to the chunks
  that are done, one to one, in whatever order they came. With it, with the
  partition and with the facts about sorted lists below, an answered request
  holds one list for every window, the windows follow one another, and so the
  lists put together are the sorted list of all: `CompleteAnswer`. `AskedOK` (the
  range is that of the filter) completes the refinement of `LogQuery`: every step
  is the abstract request's one reply or a stutter, so nothing that the chunks
  left behind still do changes it (`PromiseSpec`). `PendingOK` (before the reply
  no chunk has failed and one is not done) gives `NeverStalled`, the safety half
  of `EverythingSettles`, when `UPSTREAM_MAX_PARALLEL` is positive.
  The lists: a finite set with distinct keys has exactly one increasing
  enumeration (`ListExists`, `ListUnique`), which is what `Ascending` is
  (`AscendingIs`), and the enumerations of sets that follow one another, put one
  after another, are that of their union (`AscendingConcat`, `AscendingFlatten`).
  The induction theorems of the library take a predicate, which tlapm cannot
  instantiate; where these proofs need induction, they pick the least counterexample.
- `WsBridgeProofs`: `TypeOK` and `GaugeHonest`, from `WsInv`, which ties the stage
  and the handler's flag `closed` of each connection to its two sockets; and
  `NoHalfBridge`, the safety half of `EndsTogether`: what was cleaned up after
  has no socket left open, and no event opens one again.
- `BillingProofs`: `NeverOverbilled` and `BackOnlyIfOvertaken`, from `BillInv`:
  what a cycle has counted is at most what is recorded now, and at least what is
  stored unless another cycle has overtaken it. `TypeOK` says that the gauge, a
  sum over the records, is a number, which for a sum defined by a fold is not
  immediate: the size of a finite set of units obeys the recursion of the fold
  (`CountSumsUp`), nothing else does (`OneSum`), so the gauge is that size
  (`DueCounts`).
- `KeyAdminProofs`: `TypeOK`, `SeededOnce`, `ShownSecretWorks`, `GaugeSettles`.
  `SecretInv` says why the secret shown stays: the seeded keys all carry `first`,
  and `COALESCE` changes none that is there. A key older than the column therefore
  shows the secret of the first bootstrap, which works only if that was the
  environment it was hashed from.
  `SeedInv` says why one key is seeded: the key is committed together with the
  administrator, and an instance that adds a key has added the administrator.
  `GaugeInv` says why the gauge settles: a count is right as long as nothing has
  changed since, and the gauge has seen all changes or a job is on its way that
  has or will.
- `KeyManagerProofs`: `TypeOK`, `SelectedListed`, `PanelTruthful`,
  `NoStraySecret`. `PanelInv` says why the panel is right when nothing is
  awaited: without an excuse, the panel is up to date already, or the newest
  refresh, an effect that is due or an edit that will ask for a refresh is still
  under way.

Assumptions are the `ASSUME`s of the modules: limits are natural numbers,
window width is positive, `Permits` is a natural number (zero is allowed), the
list of upstreams is not empty, the ids of API keys are a finite set and `None`
is neither a secret nor a row. `Semaphore` has no `ASSUME`, its theorems carry
`Permits \in Nat`, because it is instantiated. The set of requests may be
infinite: the invariant says that the holders are finitely many.

Two theorems about chunks carry `Step > 0` as a hypothesis (`WindowsCut`,
`AnswerComplete`) and one carries `MaxParallel > 0` (`RequestNeverStalls`): with
zero, which `env.ts` lets through, what they say is false.

Every invariant, every action property and every refinement of the passing runs
is proved. Only model-checked is liveness, which is out of the prover's reach:
`EveryRequestAnswered`, `ShutdownEnds`, `EverythingSettles`, `EndsTogether`,
`EventuallyBilled`, `PanelComes`.

## Not modelled

- `blockRange.ts` and `allowlist.ts`: what they make of a filter and of an
  address is an attribute of the request. They keep no state and await nothing
  but one query; what is left is the parsing of numerals and of CIDR notation,
  the latter by a library.
- The SQL of usage and billing reports, `listPlans`: they read and keep nothing.
- Password hashing, JWT signing, the generation of secrets: libraries.
- `env.ts`, `db.ts` and the start of the servers: configuration, read once.
- Prometheus counters and histograms: nothing reads them. The gauges that follow
  a state (`websocketConnections`, the active keys) are modelled.
- In the dashboard: form fields, error and loading flags, the box that shows the
  secret of a new key, and `UsageChart`, a rendering of its arguments.
- Relayed WebSocket messages: the bridge keeps none. Those a client sends before
  the upstream socket is open have no listener yet and are dropped, which is in
  the list of hazards (`index.ts:555`) without a property, because no state
  remembers them.
- Containers, Erigon, Lighthouse, Prometheus, Grafana: no code of this repository.

### Hazards without a property

Some hazards of the list are described but have no property. Some are
configurations or losses that no document speaks of:

- With zero permits every request waits for ever (`semaphore.ts:10`): the
  condition on `Permits` above says so, and no property can hold against it.
- What is used after the last cycle of a month, or of a revoked key, is never
  billed (`billingCalculator.ts:5`). `EventuallyBilled` promises the bill for the
  current month and live keys.
- The consensus verdict is taken before the wait for a permit and used after it
  (`index.ts:182`). `FinalityBacked` judges it when it is taken; how long the
  wait is, nothing bounds.
- A rejection in one WebSocket handler ends the process and every other
  connection and request with it (`index.ts:549`): `Crash` and `Restart`.
- A body with an unusable block range is answered with 500 by an exception
  outside the `try` (`index.ts:162`), before a permit is held or a row written.

Others the properties excuse, by a history variable or by what they ask for,
because the code has nothing against them:

- A fallback that is behind, or answers `null`, leaves logs out of the reply
  (`index.ts:304`): `CompleteAnswer` asks for what the upstream had.
- The count of active keys that was read first is put in last
  (`apiKeyRoutes.ts:142`): `behind` in `GaugeSettles`.
- Details asked for first arrive last (`ApiKeyManager.tsx:96`), or are those of a
  key that has been left (`ApiKeyManager.tsx:149`): `late` and `moved` in
  `PanelTruthful`, `PanelComes` and `NoStraySecret`.

The remaining three are above: the two about chunks (`index.ts:403`,
`index.ts:336`) under the runs, early WebSocket messages (`index.ts:555`) among
what is not modelled.
