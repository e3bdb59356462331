# TLA+ models of cc-bridge

cc-bridge is a gateway in front of a pool of upstream accounts. It picks an
account for every request, keeps the number of concurrent requests per account
under a limit, keeps the account's OAuth token fresh, learns rate limits from
the answers, records usage, cost and performance of what it forwards, and keeps
telemetry sessions for the accounts. Its connections to the upstream are made by
craftls, the repository's fork of rustls in `craftls/`, whose ClientHello follows
a fingerprint. The gateway is an asynchronous Rust program: every `.await` is a
point where other requests, spawned tasks, timers and administrators go on, and
where a client that disconnects cancels the handler.

This directory models the parts in which these steps interleave, checks the
models with TLC on small instances and proves the central properties with TLAPS
for every instance. Source paths below are relative to the repository's `src/`,
or begin with `craftls/`, whose sources are in `craftls/rustls/src/`.

- [Inventory](#inventory): the parts of the system
- [Modules](#modules): how each module corresponds to the code
- [Runs](#runs): what TLC checks, bounds, fairness
- [Proofs](#proofs): what TLAPS proves, and how
- [Findings](#findings) and [other differences from the documents](#other-differences-from-the-documents)
- [Not modelled](#not-modelled) and [plan](#plan)

## Inventory

| Part | State | Operations | Interacts with | What is hard | What makes it correct |
| --- | --- | --- | --- | --- | --- |
| Request path, `service/gateway.rs` | per request: `SlotHolder`, `UsageAttempt`, performance handle | `handle_request`, `forward_request`, body streams | everything below | cancellation at each await; ownership moves from handler to body to spawned task | a slot is returned once on every path, usage is settled once |
| Slots and locks in process, `store/memory.rs` | counter per account, lock entries, sessions | `acquire_slot`, `release_slot`, `acquire_lock`, `release_lock`, sessions | request path, account service | releases lag behind drops | counter = holders + pending releases |
| Slots in Redis, `store/redis.rs` | counter with a time to live | INCR, EXPIRE, DECR | several processes | a command sequence is not atomic, the counter expires | at most `concurrency` holders, and as many more as outlived the counter |
| Account selection, `service/account.rs`, `store/account_store.rs` | 30 s list cache, sticky bindings | `select_account`, `list_schedulable`, admin writes | limit state, database, cache store | stale cache, stale binding | token restrictions hold, staleness is bounded |
| OAuth refresh, `service/account.rs` | the account row, the refresh lock | `resolve_oauth_access_token`, `refresh_oauth_access_token`, admin PUT | upstream, database, lock store | lock expiry against slow calls, token rotation, lost writes | one refresh at a time, the stored refresh token stays usable |
| Limit state, `service/limit.rs` | one `LimitState` per account | `absorb_headers`, `ingest_usage_json`, `availability`, `flush_to_db` | selector, database | four sources of the same limits, mirrored fields, spawned flushes | a limit of one model family blocks only that family, and expires |
| Usage observer, `service/usage.rs` | line buffer, token counts, decoder | `poll_next`, `push`, `finalize`, drop | body stream, ledger | chunk boundaries, decoder latency, four ways to end | one outcome, which is what the lines mean |
| Usage ledger, `service/usage.rs`, `store/usage_store.rs` | queue, counters, batch, price list, rows | `submit`, `run_writer`, `run_pricing_refresh`, backfill | database, several processes | retries after partial effects, full queue, restart, backfill against inserts | nothing uncounted, priced rows are final, unpriced rows get a price |
| Performance, `service/performance.rs`, `store/performance_store.rs` | event per request, registry, queue, rows | guard, handle, body wrapper, writer, sweep | request path, observer, database | several reporters of one outcome, day changes, queue limits | outcomes are justified, gaps are counted, old rows go |
| Telemetry, `service/telemetry.rs` | session per account, its loop, registered requests, batches | `activate_session`, `cancel_request`, `completion_loop`, `telemetry_loop` | request path, observer, audit | timers against requests, completions that never come | each completion is reported at most once, sessions end |
| Fingerprint audit, `service/fingerprint_audit.rs` | bounded queue, counters | `begin_request`, guard, worker | request path, telemetry | lost messages | in-flight count never too low |
| TLS handshake, `craftls/client`, `craftls/server` | state of the handshake, transcript, keys, session stores | one handler per state, retry, resumption, early data, client authentication | record layer, fingerprint, session stores | two state machines, two versions, a server that changes between connections | agreement, authentication, nobody waits for ever |
| TLS fingerprint, `tlsfp/tlsfp.rs`, `craftls/craft` | - | replacement of groups, shares, suites, extensions of the hello | client handshake | the hello says what the configuration does not | compatible ends connect |
| TLS records, `craftls/msgs/deframer.rs`, `fragmenter.rs`, `vecbuf.rs`, `conn.rs` | buffers, the message being joined | write, read, pop, discard | handshake, transport | cuts anywhere, in-place joining, limits | what arrives is a prefix of what was sent |
| Usage query, `service/account.rs` | cooldown map | `refresh_usage` | limit state | check, await, act | partly: its effect on the limit state |
| OAuth login, `service/oauth_flow.rs` | pending logins | begin, complete | admin API | expiry | not modelled |
| Rewriter, identity, tokens, schema, config, logging, cryptography | none that interleaves | formatting, single-row SQL, wiring | - | - | not modelled |

The parts interact by calls in one handler (selection, then slot, then token,
then the upstream, then the body), by ownership passed along (slot and attempt
move into the body stream or a drain task), by bounded channels (usage,
performance, completion and audit events to their tasks), and by shared state: the database, the
cache store, and the in-memory limit state.

## Modules

Each module keeps every await of the code as a boundary between actions. What
holds a mutex, or runs without an await, is one action. Data is reduced to what
the conditions of the code tell apart. Operators named `Mut...` are variants of
the operator that follows them, each with a plausible fault; they are used only
to confirm that a property notices the fault.

### Gateway, SlotSpec

`Gateway` is the life of a request. `pc` is the await at which the handler is:
`arrived` (select_account), `selected` (acquire_slot), `token`
(resolve_upstream_token), `sending` (the upstream call), `disabling`
(disable_account after a 403), `streaming`. `ClientCancel` is a disconnect at
any of these; it drops what the request owns. `DropSlot` is
`Drop for SlotHolder`: it only spawns the release, which `ReleaseTask` runs
later. `ResponseBody` is the tail of `forward_request`: a 429 or 5xx is
replaced by a generic answer, its slot dropped and its body drained by a task
with the usage attempt; any other body carries slot and attempt. Selection
among accounts is a choice here; `quota` is the limit in the `Account` value the
request was given, which may come from a cached list and so differ from the row.
The schedulable list is reduced to the limit it caches per account.

`SlotSpec` is what the slots promise: a set of holders per account, to which a
request is admitted only while it is smaller than the limit the request read.
`Gateway` implements it with `holders[a] <- Holders(a)` (`ImplementsSlots`).

### RedisSlots

The same promise kept by Redis commands. Each command is an action, since
handlers of several processes run between them. `Abandon` stands for a lost
answer, a dropped handler, an ignored error or the death of a process. `Ages`
lets the key's life run out, also under requests that are still running: the
code sets it once, when the counter becomes 1. `owed` and `leaked` are history:
the requests under way at the last expiry, whose decrements the new counter will
get without their increments, and the abandoned ones that the counter still holds.

### AccountSelection

`select_account` between its awaits: `GetSession`, `LookUp` (list cache),
`GetById`, `CheckSticky`, `DeleteSession`, `ListSchedulable` and `FillCache`
(query and the later write of the cache), `SelectByPriority`, `BindSession`.
An admin change and the cache drop that follows it are two actions, as in the
code. The database may fail wherever the code maps an error to "none". Among
accounts of equal priority the code picks at random; the model picks any.

### OAuthRefresh

One account, several callers. A caller reads the row, returns the token if it is
valid for longer than `Buffer`, otherwise takes the lock or polls for the
holder's result (`WaitAttempts` polls). Under the lock it reads again, calls the
upstream, stores the answer and releases the lock; each of these may fail or be
cancelled. The upstream (external) rotates refresh tokens: a grant issues a new
one and retires the old. Deadlines are kept as time remaining, so that the model
needs no horizon. `lost` is history: a rotated token was dropped on our side, or
a refresh took longer than its lock lives.

### LimitStore

The `LimitState` of one account. `compute_new_state` is the response path
(scoped windows, legacy headers, bare 429s, counters), `ingest_usage_json` the
usage path, `judge_availability` the selector's question, `flush_reason` and the
three `Flush...` actions the spawned write-back. Utilisation is `hot` or not,
counters are `low` or not; times are relative to the clock of the model.
`reported` is history: whom the upstream has limited, read off the response
without the code's state. `MCLimitStore` lists responses of every family found
in the repository's tests.

### UsageObserver

One response body. A body is a sequence of lines, a line has a type, a usage
object and a size; the transport delivers any number of bytes at a time, the
decoder hands on any part of what it knows, and the body ends by EOF, error or
drop. `push`, `finish`, `finalize` follow the code. The reference definition
`MeaningOf` says what a sequence of received lines means without any buffer.

### UsageLedger

Events of several processes into one database. `Observe` and `Send` are `submit` (price and count, then try_send on a
bounded queue), `Writer` collects, prices again and inserts a batch in one
transaction, with retries; a commit may fail after it took effect. Rows are
unique by dedup key. `FetchPricing`, save, scan and apply are the refresh task,
page by page. A restart loses what is in memory. A cost is the version of the
price list that gave it.

### Performance

The guard of a request (`begin` to the end of its body), the handle through
which gateway and parser report, the registry of running requests, the queue,
writer and sweep. Times are a small clock in milliseconds, days a second one,
since the retention is by calendar day. A batch is the set of its events: it is
one transaction, and a request is queued at most once.

A body may turn out to be invalid before or after the model's end. `Observe` is one
value of an event stream, after which the parser reads on, is done
(`message_stop`) or has failed (a line that is no JSON). Behind it the decoder of a
compressed body goes on, and may fail on a chunk (`Damaged`) or miss the end of the
body (`MayFail`). A JSON body is observed only when it is over (`End`), its
completion first and the check of its usage after. `finish` then weighs completion
and parse failure, in that order of reports or the other.

### Telemetry

The telemetry session of one account and the audit of its requests. A request is
registered by `activate_session`, which opens a session (and spawns its loop) or
renews it; its registration ends by `cancel_request`, by a completion of the
usage observer through a bounded queue (`send_completion`, `completion_loop`),
by the hard time-out (`expire_stale_pending`), or not at all. `telemetry_loop`
is one tick: expire, or send a batch, or the growthbook evaluation, or nothing;
while a request to the telemetry endpoint is under way (`SendReturns`), others go
on. `begin_request`, `finish` and `apply_message` are the audit's guard, queue
and worker. Times are what remains of an interval, so there is no horizon.

### TlsEndpoint, TlsClient, TlsServer, CraftHello, TlsConnection

One end of a connection is a record: the fields of `CommonState` and
`RecordLayer` that decide anything, the handshake state `st` named as in the
Rust code, the transcript, the keys, and what the application has written and
read. A handler is an operator from an end and a message to the next end, with
the records it sends appended to `out`. `TlsEndpoint` holds what both sides
share: record protection, alerts, key updates and close.
`TlsClient` and `TlsServer` are the states of TLS 1.3 and 1.2 on each side with
their session stores, `CraftHello` is what the fingerprint does to a hello, and
`TlsConnection` dispatches messages to the handlers and joins two ends by two
ordered streams of records.

Keys and hashes are symbolic: a key names the secret it comes from and the
transcript it is bound to, a signature its signer and what it signs. A transcript
is the sequence of messages it covers. An `Option` is a sequence of at most one
element. `ProcessRecord` is one record through `process_new_packets`;
every action of `TlsConnection` is one record received, one write, one close, one
key update or one fault. After a connection is over, `Connect` starts the next
with the stores left by the last, against any server of the scenario: another
deployment behind the same name. Time is the age of tickets against the
ticketer's switch and lifetime.

### TlsRecords

The bytes of one direction, below the handshake: fragmenter, send buffer with its
limit, a transport that takes and delivers any part, the deframer's buffer, and
the application's buffer. `Pop`, `Overlay`, `Discard` and `AllowMax` follow
`MessageDeframer`, positions included, because the joining happens in place. A
`Plan` lists what the sender does; a payload is a sequence of units, so that what
arrives can be compared with what was sent.

## Runs

| Run | Module | Specification | Question |
| --- | --- | --- | --- |
| `gateway` | MCGateway | FairSpec | slot accounting, exactly-once settlement, refinement of SlotSpec, completion |
| `redis` | MCRedisSlots | RedisSpec | how far the limit and the counter can be off, with failures and expiry under load |
| `select` | MCAccountSelection | SelectionSpec | restrictions and staleness under admin changes |
| `oauth` | MCOAuthRefresh | OAuthFairSpec | exclusion, the usable refresh token, completion, also with refreshes that outlast the lock |
| `limit` | MCLimitStore | Spec | mirrors, scoping, back-off and expiry of limits |
| `limit_recover` | MCLimitStore | Spec | recovery at the reset time (finding) |
| `observer` | MCUsageObserver | ObserverSpec | one outcome, equal to the reference meaning |
| `ledger` | MCUsageLedger | RefreshSpec | rows, counters, settlement and backfill of two processes, across a restart |
| `perf` | MCPerformance | FairSpec | outcome of a record for every answer and body; registry, queue, writer, day change and sweep |
| `telemetry` | MCTelemetry | Spec | sessions against requests, time-outs and full queues |
| `tls` | MCTls | Spec | two ends, fifteen scenarios of clients and servers |
| `records` | MCTlsRecords | Spec | delivery through all buffers |

### Bounds

- `gateway`: two requests, one of them metered, two accounts, limits 0 and 1.
  Two requests are enough for a rejection and for a release that overtakes an
  admission; limit 0 and 1 hold the boundary of `acquire_slot`.
- `redis`: five interchangeable requests, a limit of 2 and a life of 2 ticks:
  two requests outlive the counter, two more are admitted beside them, and a
  fifth is rejected or admitted by what late decrements left; abandoned requests
  and a key without a life are among them.
- `select`: two requests of one session whose API tokens differ in the accounts
  they allow, two accounts of two priorities, cache and binding lifetimes of 1
  in a horizon of 2, one admin change, queries of at most 1. Both lifetimes
  expire within the horizon.
- `oauth`: two callers, a lock of 1, refreshes of up to 2 (longer than the
  lock, as in the code: 30 s against an HTTP client that waits up to 300 s),
  tokens of 2 with a buffer of 1, three grants, two polls.
- `limit`: two time units, resets at most one unit ahead, one flush task,
  ten responses, two usage bodies. `absorb_headers` is taken only while its
  resets lie within the horizon, so that at `MaxClock` all are over.
- `observer`: all bodies of two lines over eight kinds of line and all of three
  that begin with `message_start`, with and without a last line end, line limit
  2 and JSON limit 3 with lines beyond them.
- `ledger`: two processes and two events at a time: twins (one dedup key, one
  event in each process), or two messages in one process, which share its batches
  and pages. Queue of 1, one retry; no model is in the built-in price list, the
  two processes fetch different lists, and only the second's covers every model.
  Of twins, the first process restarts once; its refresh queries may fail.
- `perf`: two scenarios. `Body` has one request, all answers, a body compressed or
  not, all kinds of parsed values and a clock of one millisecond, enough to tell "no time between
  first and last" from "some". `Table` has two requests answered locally, a store
  that fails, three days, queue 1, registry 1, batch 2.
- `telemetry`: two requests, a session of 1, a batch interval of 1 with jitter 0
  or 2, a hard time-out of 2, growthbook every 3, batches of 1, a completion
  queue of 1 and an audit queue of 2. So a session ends under a registered
  request, a batch is sent while another completes, and both queues fill.
- `tls`: one or two connections, at most two writes of an end, two early records,
  one fault among those the scenario allows. Clients: the gateway's Node.js
  fingerprint (mlkem768 and x448 declared, x25519 shared; no sessions offered), a
  browser-like one with sessions and early data, one with a certificate, with and
  without a place for tickets in its fingerprint, a TLS
  1.2 one. Servers are chosen anew for each connection from a set that differs
  in early data, groups, suites or tickets, or (`SwitchingServers`) in version and
  client authentication; five
  more are ones the client cannot or must not talk to. Two connections are
  enough for a session, a ticket or early data to meet a changed server; a third
  would only repeat that with an older ticket. 599,510 states.
- `records`: eight plans: several messages in one record, one message over
  several records, messages longer than the limit, rekeying, a key change within
  a record, refused early data. Header 2, record 5, handshake limit 11, reads of
  3, send limit 4, receive limit 2, fragments of 1, 2 and 4: the proportions of
  5, 16k, 64k and 4k that matter, such as a read smaller than a record and a
  handshake limit of more than two records. 165,934 states.

For every safety property that has a theorem (all but five, see
[Model-checked only](#model-checked-only)) the proofs remove these bounds.

`CHECK_DEADLOCK FALSE` is set where the model ends: a body that is over, a
bounded clock at its end, or requests that are all served.

### Fairness

- `Gateway`: weak fairness of each request's own steps, of drain tasks and of
  release tasks. The tokio runtime polls every ready task, and the HTTP client's
  connect and read timeouts end a call that gets no answer. That a body which
  keeps sending comes to its end is an assumption about the upstream. Clients
  need not send and administrators need not act: these steps are not fair.
- `OAuthRefresh`: weak fairness of time and of every caller. The lock's end is a
  matter of time alone.
- `UsageLedger`: weak fairness of send, writer and backfill. In
  `RefreshSpec`, strong fairness of installing each price list: the refresh
  timer recurs and the sources answer again and again. A database whose
  backfill queries fail for ever leaves rows unpriced, so only the process that
  restarts has failing refresh queries; the other completes its backfill, and
  both may fail to insert as they like.
- `Performance`: weak fairness of the writer and of the start of a sweep, strong
  fairness of the sweep's deletion: a database that fails does not fail for ever.
- `Telemetry`: weak fairness of the completion task, of the session's loop and of
  time. None of the handlers, the completions or the audit's worker: a request
  may hang for ever, and sessions end all the same.
- `TlsRecords`: weak fairness of sender, transport, reader and application, none
  of the cut of the transport.
- `TlsConnection` has none. That the ends do not wait for each other is the
  safety property `NeverStuck`: whenever no record is under way and nobody has
  more to do, the connection is settled.

`AccountSelection`, `LimitStore`, `UsageObserver` and `RedisSlots` are checked
for safety only.

### Properties

- `SlotAccounting`, `HoldersAreLive`: no path leaks a slot or returns it twice,
  and the `> 0` guard in `release_slot` never hides a double release.
  `RejectionJustified`: a 429 for lack of slots is given only when live holders
  and pending releases use up the limit. `SettledOnce`: an observed response is
  reported once by whichever of the body, the drain task and the early end
  comes first. `SlotsReturn`: every admitted request ends and its slot comes back.
- `OverrunBounded`, `CountAccounted`: README.md:665 promises at most `concurrency`
  requests of an account at a time, and over Redis the code breaks that (see the
  differences from the documents). These two say what remains true whatever
  expires or is lost: the limit is overrun by at most the requests under way when
  the counter last expired, however often that happens, and the counter differs
  from the requests under way by exactly these and the ones abandoned since.
- `RestrictionsHold`: also for a session bound by another token.
  `StalenessBounded`: no list in use names an account that has been inactive for
  longer than the cache lifetime plus one query.
- `HolderOwnsLock`, `LockRespected`: the lock does what its
  lifetime promises, and a late caller never removes the lock of its successor.
  `RefreshTokenUsable`: the row's refresh token is accepted, or its successor is
  in a caller's hands, or the loss has one of the named causes, which it does not
  rule out: it shows that there are no others.
  `CallersFinish`: an orphaned lock blocks no caller for ever. `ExclusiveRefresh`,
  which follows from `HolderOwnsLock`, is proved only.
- `MirrorAgrees`: the Sonnet fields equal the scoped maps, so the fallback to
  them finds nothing stale. `ScopedLimitsStayScoped`, `BackoffAfter429`,
  `LimitsExpire`.
- `OneOutcome`, `OutcomeIsMeaning`: settlement does not depend
  on chunks, decoder or the way the body ends.
- `Conservation`, `StoredEventsHaveRows`, `PricedRowsFinal`,
  `EventsSettle`, `UnpricedRowsBackfilled`: the health counters add up, and
  rows are written and priced once.
- `RecordJustified`, `GapsCounted`, `RecordsSettle`, `OldRowsGo`: the error
  matrix, the derived times, the counted gaps and the retention of
  `performance-monitoring.md`.
- `ReportedOnce`: a completion is in one place and in one batch, and a session
  has one loop. `SessionsEnd`. `InFlightCovers`: the audit's count of requests in
  flight is never too low, and too high only after a dropped message.
- `Agreement`: two ends at traffic have the same version, suite, protocol,
  secrets and transcript and agree on whether they resumed. `Authenticated`: no
  traffic with an unverified peer, resumed sessions included. `DataProtected`: no
  application data in the clear, and none under the early keys but what was
  written as early data. `StreamIntact`: in order, once, and complete at a clean
  end. `CompatibleEndsConnect`: ends with a version, suite, group, protocol and
  certificate in common do not fail each other, with three named exceptions.
  `NeverStuck`.
- `StreamIsPrefix`, `EverythingArrives`: every cut of the bytes gives the
  application a prefix, and in the end everything that is within the limits.

The type invariant of a module (`TypeOK`, or with the module's name before it,
as in `OAuthTypeOK`) says what its variables range over. It is proved for the
eight components whose other properties need it (that of `Telemetry` is in
`TelemetryProofs`). In `UsageObserver` and the TLS modules it documents the state
(TLC finds it true of the instances above) and is no property of a run; the
proofs about `TlsConnection` use `Shaped` instead, which says of what fields an
end consists.

## Proofs

A proof module extends the components it is about and proves their safety
properties for every value of the constants, from the named assumptions of the
components. Each component has an inductive invariant, its preservation with one
step per action, and the theorems that follow from it. TLC also finds every
inductive invariant true of the instances above; each was checked so before it
was proved. Lemmas about helpers (counting in sequences, cardinalities, least
elements, what a sequence contains) come first.

Components whose proofs share a module have names of their own for what all
specifications have: `OAuthSpec`, `RedisSpec`, `ObserverSpec`, `SelectionSpec`, and
the initial states, next-state relations and type invariants to match.

| Component | Proved in | Proved | Only checked |
| --- | --- | --- | --- |
| Gateway | GatewayProofs | SlotAccounting, HoldersAreLive, RejectionJustified, ImplementsSlots, SettledOnce | SlotsReturn |
| AccountSelection | AccountProofs | RestrictionsHold, StalenessBounded | |
| LimitStore | AccountProofs | MirrorAgrees, ScopedLimitsStayScoped, LimitsExpire, BackoffAfter429 | |
| OAuthRefresh | StoreProofs | HolderOwnsLock, ExclusiveRefresh, LockRespected, RefreshTokenUsable | CallersFinish |
| RedisSlots | StoreProofs | OverrunBounded, CountAccounted | |
| UsageLedger | StoreProofs | Conservation, StoredEventsHaveRows, PricedRowsFinal | EventsSettle, UnpricedRowsBackfilled |
| UsageObserver | StoreProofs | OneOutcome | OutcomeIsMeaning |
| Performance | PerformanceProofs | RecordJustified, GapsCounted | RecordsSettle, OldRowsGo |
| Telemetry | TelemetryProofs | ReportedOnce, InFlightCovers, NoDebt | SessionsEnd |
| TlsConnection | TlsProofs, TlsServerProofs, TlsConnectionProofs | Authenticated, DataProtected, Agreement | StreamIntact, CompatibleEndsConnect, NeverStuck |
| TlsRecords | | | StreamIsPrefix, EverythingArrives |

### GatewayProofs

For every finite set of requests, every set of accounts and every limit, from
the assumptions of `Gateway` alone: `TypeCorrect`, `SlotsAccounted`,
`HoldersLive`, `RejectionsJustified`, `Refinement`, `SettledExactlyOnce`.

The inductive invariant is `IInv == TypeOK /\ HoldersAreLive /\ SlotAccounting`.
`SlotAccounting` alone is not inductive: `AcquireSlot` adds a holder only if the
request held nothing before, which is what `HoldersAreLive` says of a request at
`selected`; and `release_slot` decrements only a positive counter, which a
pending release guarantees only through the accounting. Cardinalities change by
one in `DropAccounting` and in the step for `AcquireSlot`; every other action
leaves the set of holders alone (`SameAccounting`). For the refinement,
`AcquireSlot` maps to `Admit` because the counter bounds the number of holders
from above, `DropSlot` to `Release`, `Select` to `Read`, and the rest to
stutters.

`SettledOnce` says nothing of where the usage attempt is while the request runs.
`UsageFollows` does: the attempt is opened with the token, stays open through the
upstream call, moves to the body or to the drain task, and the usage service has
been told exactly once if it is settled and never otherwise. So neither a
cancellation nor the drain task that outlives the handler can tell it twice.

### OAuthRefresh, in StoreProofs

For all callers, durations and numbers of polls, with no assumption that a
refresh ends before its lock: `OAuthTypesHold`, `LockHeld`, `RefreshExclusive`,
`LocksRespected`, `RefreshTokenStaysUsable`.

`HolderOwnsLock` is not inductive, because nothing in it says when the lock
expires. `HoldInv` adds the deadline: a caller that is in time owns the lock and
`lockLeft = LockTTL - timer`. A tick moves both by one, so a caller whose lock
has expired is no longer in time, and a caller can take the lock only when
nobody in time has it. For the refresh token, `GrantInv` says that, unless
`lost`, every holder is in time, an answer in hand carries an accepted token, and
the row's token is accepted or an answer is under way. Two holders in time are
one by `HoldInv`, so no rotation makes the answer of another worthless.

### RedisSlots, in StoreProofs

For all requests, limits, lifetimes and failures, with no assumption on when the
counter expires: `OverrunAlwaysBounded` and `CountAlwaysAccounted`. `OverrunBounded` is
not inductive: whether an INCR may let a request through depends on what the
counter knows. The invariant is `RedisTypeOK /\ CountAccounted /\ PassingBounded`,
where `PassingBounded` bounds the requests whose INCR returned at most `MaxSlots`.
Such a value means that the counter held fewer than `MaxSlots`, so by
`CountAccounted` fewer than `MaxSlots + owed` requests were under way. An expiry
makes every request under way owed, and a holder is one of those INCR let
through (`HoldersPassed`).

### AccountSelection, in AccountProofs

For all requests, accounts, token restrictions, lifetimes and horizons:
`RestrictionsAlwaysHold`, `StalenessIsBounded`. The assumption that is not about
ranges is that "no list" is not a list.

`RestrictionsHold` speaks of the answer; `Confined` speaks of the choice from the
moment it is made, before the await of the binding. `StalenessBounded` needs the
ages that `Aged` states: an account of a list in hand has been inactive no longer
than the list has been in hand, which is at most one query, and an account of the
cached list no longer than one query plus the age of the entry. A fill turns the
first into the second; `TimePasses` moves both sides by one; an admin change that
deactivates an account starts its count at zero.

### LimitStore, in AccountProofs

For all responses, usage bodies, clocks and flush tasks: `MirrorAlwaysAgrees`,
`ScopedStayScoped`, `LimitsAlwaysExpire`, `BacksOffAfter429`. The assumptions are
those of the parser: a window that is present has a reset time and a status,
the windows of a usage body carry no rejection, and the default ban lasts
at least one unit (60 s, `service/limit.rs:25`).

`ScopedLimitsStayScoped` and `LimitsExpire` are about what a state lets through
at one moment and are not inductive: what a later moment sees is in the fields.
`Reported` says of every field that can limit the account or a model family, also
in a snapshot of a flush task and in the database column, that the upstream has
limited just that. `MirrorAgrees` is needed with it, because the check for the
Sonnet family falls back from the map to the mirrored fields.

### UsageLedger and UsageObserver, in StoreProofs

For all events, dedup keys, processes, queue sizes, retries and restarts:
`CountersBalance`, `StoredEventsAlwaysHaveRows`, `PricesAreFinal`.

`Conservation` is a sum over what is in flight. It is inductive with `OnTheWay`:
an event in a queue or a batch has been sent, so no event is counted twice, once
as in flight and once as queued. `Numbered` (row ids have been given out) is
what the backfill's pages need. `PricedRowsFinal` follows step by step: only
`insert_batch` and `Apply` touch rows, the first leaves a row that exists, the
second one that has a price. A commit that takes effect and then reports an error
is among the steps.

Of the observer, `EveryAttemptSettledOnce`: whatever the body, its encoding, its
chunks and the decoder's latency, an attempt has at most one outcome, and
exactly one once the body has ended by EOF, by an error or because the client
went away. `OutcomeInv` ties the outcome to the attempt that `finalize` takes:
nothing is reported while the attempt is there, one outcome once it is gone, and a body that
has ended has none left. What `push` does with a line, and how long the
decoder holds bytes back, can only decide when `finalize` is called and with what,
so the proof needs nothing of the parser.

### PerformanceProofs

For all requests, scenarios and limits: `RecordsAlwaysJustified`,
`GapsAlwaysCounted`.

`RecordJustified` speaks of ended requests. `Followed` says what is known before:
nothing until the response is handed on, and while the body is read, that the
outcome is open or an error that was seen, that the body is marked as failed exactly
if something in it could not be read and as completed exactly if the model's end was
seen, each with or without the other (`Told`), and that the times are in order
and not later than the moment (`Timed`). `LastReadKeeps` carries this over what is
still read, and found invalid, when the body is over. The end of the body closes an open outcome
from these. `GapsCounted` is about cardinalities; `Tallied` bounds the counters
by the requests they count, so that no counter of gaps runs ahead of the records.
The two halves, `RInv` for the records and `SInv` for the store, are proved one
after the other.

### TelemetryProofs

For all requests, timers and queue capacities: `AlwaysReportedOnce`,
`InFlightAlwaysCovers`, `EndsFollowRequests`.

`ReportedOnce` counts the places of a request: its registration, the ready list
of the session, the batches it was reported in. Every step moves
it from one place to the next or drops it; only a request that has no place yet is
registered (`NotRegistered`), and only one that completed with usage waits to be
reported, in the completion queue or in the ready list (`WaitingHasUsage`). For the audit, `NoDebt` says that in every prefix of
the queue there are no more ends than requests, the ones already counted
included. Without it the worker's subtraction, which stops at zero, could lose an
end that overtook its request, and the count would stay too high for ever. `NoDebt` is a
theorem of its own.

### TlsProofs, TlsServerProofs, TlsConnectionProofs

For all configurations of clients and servers, any number of connections with
the stores the last one left, any writes, closes, key updates, lost transports
and garbled records: `PeersAreAuthenticated`, `ApplicationDataIsProtected`, `EndsAgree`,
all from the invariant that `HandshakesKeepTheirWord` states. A server the
client does not trust is among the configurations, as is a fingerprint that
declares groups the client cannot use.

The assumptions on the constants are these.
- `DeploymentAssumption`: the servers behind one name have one certificate, and if
  one of them insists on client certificates all do, trusting the same certificates. They share
  session stores, and neither a ticket nor a cache entry says which server
  accepted the client: `server/tls13.rs` and `server/tls12.rs` restore the client's chain
  from the session and do not verify it again. With servers that
  differ in this, `Authenticated` is false, so it is a condition on how craftls is deployed.
  All scenarios of the run satisfy it.
- `CacheAssumption` and `TicketsAssumption`: the capacities of the server's session
  cache and of the client's ticket queue are numbers, the second not 0
  (`MAX_TLS13_TICKETS_PER_SERVER` is 8).

None of the three properties is inductive, since what an end does on the
way to traffic decides them. `TlsInv` has three parts.
- What one end keeps to, for client and server each: `ClientAuth`, `ServerAuth` say
  where a certificate may come from: from the verifier, or from a session in the
  store, in a ticket or in the cache whose certificate passed it, also
  while a ticket is on its way. `ClientData`, `ServerData` say under which keys the
  end may write in each state, and that only early data goes under the early key.
  `ClientAgree`, `ServerAgree` say which secrets and versions belong to each state.
- What is under way is true of its sender: `ServerTells`, `ClientTells`. A
  record may arrive long after its sender has gone on, so these are facts that stay
  true (`ServerKeepsWord`, `ClientKeepsWord`): a ServerHello's suite and version are
  those of a server that has committed to them, a Finished carries the transcript and
  the secret its sender ends with. This is where the Finished messages do their work:
  an end reaches traffic only on one that matches its own transcript and secret.
- `Pair`: what each end may conclude about the other from how far it has come.
  It distinguishes the two orders in which a full and a resumed TLS 1.2
  handshake finish, because the end that sends its Finished last is at
  traffic first.

The modules follow the code. `TlsProofs` first says of each helper of
`TlsEndpoint` which of an end's fields it leaves alone (`Same`), then of
each handler of the client what it does to the fields that matter
(`ClientHandleStep`); `TlsServerProofs` does the same for the server.
`TlsConnectionProofs` shows that each of these steps keeps the end's part
and its word (`ServerHandleSafe`, `ClientHandleSafe`), adds the checks made of a
record before its message reaches a handler (`RecordStep`), and then composes: one
end's step keeps `Pair` (`ClientKeepsPair`, `ServerKeepsPair`), `TlsStep` has one
case per action, and `ConnectKeeps` starts the next connection with the old stores.
`InvAuthenticates`, `InvProtects`, `InvAgrees` read the properties off.

Keys and signatures are symbolic, so what is proved is about the state machines,
not about cryptography: that the right thing is checked at the right time,
against the right transcript.

### Model-checked only

- Liveness (`SlotsReturn`, `CallersFinish`, `EventsSettle`,
  `UnpricedRowsBackfilled`, `RecordsSettle`, `OldRowsGo`, `SessionsEnd`,
  `EverythingArrives`) depends on fairness, which the proof system does not treat.
- What the observer's parser computes (`OutcomeIsMeaning`) is an induction over
  the body, as is what the deframer joins (`StreamIsPrefix`); the proof system
  cannot instantiate the induction theorems.
- `StreamIntact` compares what has arrived with everything written: beside `TlsInv`
  it needs an invariant over the whole sequence of records under way (their
  order, and that each is under the key its receiver will have by then, or is
  early data to be skipped). That invariant has not been written.
- `CompatibleEndsConnect` and `NeverStuck` say that nothing fails and nobody waits.
  They need, for every pair of configurations, that the check of one end accepts what
  the other selected, which rests on what `SelectSeq` returns from a list of
  preferences; the theorems about that have an operator parameter.
- `limit_recover` is a finding: its property is false.

## Findings

- `limit_recover`: README.md:682 promises that an account with a `rejected`
  status recovers by itself at the reset time. `judge_availability` does not
  compare a rejected status with the clock. The account stays unavailable after
  the reset until the headers of another response replace the
  status, or the process restarts; without being selected it gets no response.
  `LimitsExpire` shows that every other limit does expire.

### Other differences from the documents

These were met while modelling and reproduced with the models. The properties of
the runs above are stated so that they allow for them.

- `service/gateway.rs:538`: after an upstream 403 the account is disabled in the
  handler, at an await. A client that disconnects there leaves it active; README.md:697
  says that it is disabled. `ClientCancel` has both outcomes.
- `store/redis.rs:89`: README.md:665 promises at most `concurrency` requests of an
  account at a time. `acquire_slot` sets the 300 s life of the counter when INCR
  returns 1 and never again, so with an account in uninterrupted use, or one stream
  longer than that, the counter vanishes under its holders, the next request counts
  from 1, and late decrements make it negative. Nothing has to fail for it: with a
  limit of 2, two requests hold slots, the key expires, and a third counts 1 and is
  admitted. TLC reports this trace when `Cardinality(Holders) <= MaxSlots` is added
  to the `redis` run as an invariant; `OverrunBounded` says how far it goes.
- `service/account.rs:350`: the refresh lock lives 30 s, the HTTP client waits up to
  300 s, so two callers may refresh at once (`gateway-contracts.md:11` says that
  duplicate refreshes are avoided). This is the premise `InTime` of the lock
  properties, and a cause of `lost`.
- `service/account.rs:383`: whether the old token may serve as a fallback is
  decided before the upstream call; after a slow call an expired token may be
  handed out (`error-and-logging.md:35`).
- `service/account.rs:162`: an unusable sticky binding is deleted whatever the
  session is bound to by then, so a fresh binding of a concurrent request may go.
- `store/account_store.rs:573`: a list query in flight stores its result after an
  update has dropped the cache (`api-contracts.md:68`). `StalenessBounded`
  states what remains true.
- `service/limit.rs:905`: a second short ban is not flushed, since the flush decision
  asks only whether a ban was set before, not whether it is over
  (`gateway-contracts.md:45`).
- `service/usage.rs:1104`: a client that disconnects in the middle of a data line makes
  the rest of the line a parse failure although the usage was already known.
  `MeaningOf` counts the cut line as received.
- `service/performance.rs:344`: a 4xx answer with a JSON error body is recorded as
  `stream_error`, not `http_error`. `RecordJustified` asks for an error.
- `service/limit.rs:343`: two flush tasks write their snapshots in either order; the
  column is shown and not read back.
- `service/account.rs:254`: two usage polls pass the age check and the cooldown
  together and both ask the upstream.
- `store/redis.rs:85`: a handler dropped between INCR and EXPIRE leaves a count without
  a life, which nobody returns. It is the `leaked` of `CountAccounted`.

- `craftls/common_state.rs:561`: the answer to a key update is sealed at once but
  queued until the application writes; an alert or close_notify sent in between is
  sealed under the next key and reaches the peer first, which fails it as a bad
  record. An exception of `CompatibleEndsConnect`.
- `craftls/server/tls13.rs:862` and `record_layer.rs:211`: the allowance for rejected
  early data (RFC 8446, 4.2.10, quoted there) is charged with ciphertext, so
  early data of the permitted size may fail the connection. The second exception.
- `craftls/ticketer.rs:65`: keys are switched by the next use, not by time, so after
  a quiet period a ticket older than two lifetimes is accepted. The age check of
  the session value still applies.
- `craftls/common_state.rs:254`: at the soft limit of sequence numbers
  `send_single_fragment` calls `send_close_notify`, which comes back to it; out of
  reach of a test and of the models.
- `craftls/conn.rs:641`: an error of `deframe` leaves the placeholder error in `state`,
  so a second call reports `HandshakeNotComplete` and not the first error.
- `tlsfp/tlsfp.rs:313`: the comment says that registering x448 lets a retry to it
  be validated; it is, and then the key exchange fails to start. `Compatible`
  asks for a group that can start.

## Not modelled

- The rewriting of headers and bodies, identity and prompt handling
  (`service/rewriter.rs`, `model/identity.rs`): string formatting without state.
- Usage and performance reports: SQL aggregation and percentiles.
- API tokens and authentication: single-row reads and writes. A token's account
  restrictions are constants of `AccountSelection`.
- Schema and migrations, configuration, logging, start-up: executed once.
- TLS: byte formats of messages, cryptography, certificate paths, QUIC, the
  exporter, extraction of secrets, the server's `Acceptor`, choice of
  certificates by name, configuration builders, GREASE, padding and the order of
  extensions. Sequence numbers near 2^64.
- The audit's tallies other than the requests in flight, and its log files.
- The telemetry payloads' description of environment and process.
- `refresh_usage`'s age check and cooldown: two polls at once ask twice, and
  what they bring is `ingest_usage_json`.
- The OAuth login flow: a map of pending logins with an expiry, each taken out
  before its single HTTP call.
- Admin handlers other than the ones named above: reads or single-row writes.

## Plan

Done, in this order: Gateway with SlotSpec, OAuthRefresh, AccountSelection,
LimitStore, UsageObserver, UsageLedger, RedisSlots, Performance; proofs for
Gateway, OAuthRefresh and RedisSlots; then Telemetry with the audit, the TLS
handshake with the fingerprint, and the TLS records; then proofs for
AccountSelection, LimitStore, UsageLedger, Telemetry, Performance and the
remaining safety properties of Gateway and RedisSlots; then the proofs for
TlsConnection and for the observer's outcome.

Next:

1. An abstract specification of a secure channel that `TlsConnection` refines: the
   invariant `TlsInv` is what the refinement would rest on.
2. The bucket and percentile functions of the reports, against a reference
   definition over bounded inputs.
3. `refresh_usage` and the pending logins.
