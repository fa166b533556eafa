# Notification engine: specification and proofs

TLA+ models of the notification engine in this repository: what its processes
do to Postgres, MongoDB, Redis and the RabbitMQ queues, in every order they can
run in and with the failures the code handles. TLC checks small instances;
TLAPS proves the main safety properties for every instance.

Run a check with `tlc -config templates.cfg TemplateCache`, a proof with
`tlapm PipelineDeliveryProofs.tla`. `PROJECT.json` lists every run, the source
lines every definition stands for, the hazards and the theorems.

## 1. The system

| component | state it keeps | operations | works with |
| --- | --- | --- | --- |
| `SubmitNotification` (API) | none of its own | claim the event id, opt-out, rate limit, hydrate, render, write log row and outbox row | deduper, limiter, renderer, Postgres |
| outbox relay | an open transaction with row locks | claim a batch, publish, mark, commit | Postgres, publisher |
| publisher | one confirm-mode channel behind a mutex | publish and wait for the confirm, `Retry` | AMQP connection |
| queues of a channel | work, retry (TTL), dead | dead-letter an expired message to work | broker |
| worker | `Concurrency` handler slots | receive, `Execute`, Ack or Nack | broker, provider, Postgres, publisher |
| provider adapters | none | `Send`: accepted, transient error, other error | the worker |
| janitor | the rows of its pass | list stuck rows, publish, reset the status | Postgres, publisher |
| AMQP connection | connection, supervisor, topology | dial, declare, supervise, redial, close | publisher, consume loop, broker |
| circuit breaker | state, failure count, opening time | `Allow`, `RecordSuccess`, `RecordFailure` | the three Redis components |
| deduper | one Redis key per event id, with a TTL | `Claim` (SETNX) | circuit breaker |
| rate limiter | one token bucket per key, in Redis | `Allow` (Lua script) | circuit breaker |
| templates: repository, cache, renderer | MongoDB documents, Redis copies, compiled copies per process | create, get, update, delete, render | circuit breaker, the API |
| settings and devices | two Postgres tables | upsert, list, delete | the API, submission |
| listing | none of its own | keyset pages over `notification_log` | Postgres |
| authentication, authorization | none | HMAC or JWT, ownership | every route |

The way of a notification: the API writes a `notification_log` row and a
`notification_outbox` row in one transaction; a relay publishes the outbox row to
the channel's work queue and marks it; a worker slot receives the message, marks
the row in flight, asks the provider, and marks the row sent, or publishes a
retry copy with a TTL, or parks the message in the dead queue; then it acks. A
janitor republishes rows that stay in flight for too long.

What is hard: the database, the broker and the provider cannot be written
together, so every process works in separate steps with everything else running
in between; each step may fail or be the last one; RabbitMQ redelivers what was
not acked while the first handler may still be running; the janitor and the
relay publish more copies of what is already under way. In the API, requests
for one event id race each other through Redis and Postgres, and every request
of a process reports to one circuit breaker in an order nobody controls. A
template has a copy in Redis and one in every renderer, which no lock keeps
together; a signed request may arrive late, twice and after its successor, and its
handler may stall between the check of the signature and the write; a listing
reads its pages while rows come and change. And one AMQP connection is replaced by
a goroutine of its own under everyone who uses it.

What makes each part correct:

- pipeline: nothing accepted is lost or forgotten, nothing is invented, the log
  does not claim what did not happen, copies beyond the first are caused by faults
  and carry no more attempts than there were failures;
- submission: one notification per event id, truthful answers, no event blocked
  by a claim without a row;
- breaker: it settles where Redis is; limiter: the rate is an upper bound on every
  interval, and refusals are free;
- templates: a replaced or deleted content goes out of use in bounded time, in the
  renderers and in what requests are given;
- AMQP connection: a running worker consumes again after every failure, a shutdown
  ends the supervisor, connections do not leak, and a confirm can be trusted
  except while the topology is being redeclared;
- API: what a user was told of a setting is what submissions find, pushes follow the
  last login, and a listing neither skips nor repeats rows nor shows anyone else's.

## 2. The modules

| module | models | extends / uses |
| --- | --- | --- |
| `NotificationStatus` | the transition table of `status.go` and `transitionTo` | |
| `PipelineState` | tables, queues, ledger, process-local state, fault budget | `NotificationStatus` |
| `Relay` | `RelayOutbox.Execute`, the outbox repository | `PipelineState` |
| `Worker` | the consumer's slots, `ProcessNotification.Execute`, `Publisher.Retry` | `PipelineState` |
| `Janitor` | `RescueStuckNotifications.Execute` | `PipelineState` |
| `Pipeline` | submit, TTLs, the composition, fairness, properties, refinement | the three above, `DeliveryPromise` |
| `DeliveryPromise` | abstract: a debt per accepted notification, paid in the end | |
| `MCPipeline` | instances for TLC: the fault budgets, the symmetry | `Pipeline` |
| `PipelineProofs`, `PipelineDeliveryProofs` | types, true log, paid retries; nothing lost or invented, duplicates paid for, the promise's safety | `Pipeline`, TLAPS |
| `Submission`, `MCSubmission` | `SubmitNotification.Execute` with the deduper and the unique index | `SubmitPromise` |
| `SubmitPromise` | abstract: an event is stored at one moment, and its clients are answered | |
| `SubmissionProofs` | idempotence, truthful answers, the promise's safety | `Submission`, TLAPS |
| `CircuitBreaker` | the breaker and the calls of one API process through it | |
| `CircuitBreakerProofs` | types; no circuit opens before Redis fails | `CircuitBreaker`, TLAPS |
| `RateLimiter` | one token bucket, its expiry, the Redis clock | `TokenBucket` |
| `TokenBucket` | abstract: a bucket that the clock refills | |
| `RateLimiterProofs` | both bounds of the bucket, and the refinement | `RateLimiter`, TLAPS |
| `TemplateCache` | one template in MongoDB, Redis and the renderers, and its requests | |
| `TemplateCacheProofs` | types, bounded staleness of renderers and reads | `TemplateCache`, TLAPS |
| `AmqpConnection` | `Conn`, its supervisor, the publisher's channel, the consume loop | |
| `AmqpConnectionProofs` | leaks, drops and the supervisor's end, for any number of faults | `AmqpConnection`, TLAPS |
| `Access` | `Authenticate`, `Verifier.Verify`, the ownership rules | |
| `Accounts` | settings and devices, the handlers of the signed requests that change them | `Access` |
| `Listing` | the pages of `GET /v1/notifications` | `Accounts` |
| `Api`, `MCApi` | submissions over settings and devices, and the composition | `Listing` |
| `ApiProofs` | the order of the list and its walk; every promise of the API | `Api`, TLAPS |

**Pipeline.** `row` and `outbox` are the two tables, per notification. `work` and
`retry` are bags of messages (the notification and its `x-attempt` header), `dead`
a counter per notification. `provider` is the provider's side: how often it
accepted, failed transiently or rejected. `relay[r]` is the open transaction of a
relay: the rows it locks, those it still has to publish, its marks, and whether it has
been aborted. Postgres drops the locks and the marks at the abort (`RelayAbort`), while the
relay goes on publishing the rest of its batch (`outbox_relay.go:47-63`), so that another
relay may claim and publish the same rows meanwhile. `pc`, `job` and `owned` are a worker slot: where its
handler is in `Execute`, the message it handles, and whether the broker still
counts the delivery as unacked on a living channel. `stuck` and `rescued` are a
janitor's pass. Every database write, provider call and publish is a step of its
own, so any other process may run between two of them. A handler step that
publishes and then returns an error includes the Nack that follows, because
nothing else happens in between.

*Faults* are outcomes of the steps they can hit, each paid from `budget`: a
crash of a process (its transaction is rolled back, its deliveries requeued), a
lost consume connection (the delivery is requeued while its handler goes on), a
failed database statement or connection (the relay's transaction aborts; `UpdateStatus` is
only logged), a publish that is lost or arrives without a confirm, a provider answer
that is lost after the provider acted, and a janitor pass on a slow handler.
The slots are those of all worker processes together; a lost connection hits one
slot at a time, which includes every combination the loss of a process's
connection can cause as long as the budget allows it.

*Abstracted:* one channel (the channels share only the tables, and no row belongs
to two); the body of a message; `x-attempt` above `RetryLimit`, where it is only
compared; the order of the queues (`Expire` and `Receive` take any message, a
superset of what FIFO and the TTLs produce); the duration of the backoff; the
`analytics_events` and metrics.

**Submission.** One client per concurrent request, which calls again after an
error. `claims` are the dedupe keys, `log` and `outbox` the rows per event id.
The steps of `Execute` are `Claim`, `Lookup`, `Check` and `Persist`; `Claim` may fail
open at any time, with or without having set the key, which covers every
behaviour of the circuit breaker. `Check` stands for opt-out, rate limit,
hydration, rendering and construction: each can end the request and none
writes. A refusal is charged to the client's request; the client of the model tries
again later, as after any other failure.

**CircuitBreaker.** `breaker` is the struct (the time since `openedAt` is the flag
`expired`), `call` where each request is between `Allow`, the Redis operation and the
record of its result. `Miss` and `Cancel` are the results that are not recorded.

**RateLimiter.** Tokens are counted in units of the last decimal of the printed rate, so
the rounding of `%f` is in the model; time is in seconds. `granted`, `forward` and
`lost` describe an interval that `Observe` may begin at any moment; the script does
not read them. Redis executes one script at a time, so a call is one step.

**TemplateCache.** A content is known by how long it has been out of date, so that one
number stands for the versions: 0 for what MongoDB holds. `db`, `redis` and `local`
are the three places, `pc[c]`, `held[c]` and `age[c]` a request: where it is, what it
carries, how long it has run. A request of a renderer is `lookup` (one at a time: singleflight),
a request of a writer is the read, the check and the write of `UpdateTemplate` or
`DeleteTemplate`, or `CreateTemplate`. `Read`, `Load`, `Store`, `WriteThrough` and `Drop` are the
accesses of `TemplateCache.Get`, `Update` and `Delete`; each may fail, be skipped by an open
circuit, or be the last one before the client gives up (`Abort`). `Evict` and `Restart`
lose a copy.

**AmqpConnection.** Connections are numbered; `opened` are those alive, `current` is `Conn.conn`.
`main` is the process from `Dial` to `Close`, `sup` the supervisor from `supervise` to
its return, `declared` how far `declareTopology` has come in each. `Setup` stores the channels
first; then it opens a channel on the connection that is current by that time
(`OpenSetupChannel`, which keeps it in `setupOn`), be it the first or a redialled one. The
supervisor reads the channels in a step after its dial (`ReadChannels`). So `Setup` and the
supervisor may declare at the same time, on one connection or on two, and each may fail alone. `pch` and `con` are the connections
that the publisher's and the consumer's channel belong to. `topology` is what
the broker has declared, which an outage may lose. `missed` is history: the
supervisor registered for a connection that was already dead, which the
violation run is about.

**Access, Accounts, Listing, Api.** A request is the call it makes and the time that its signature covers; an
altered request has no valid signature and is the credential `invalid`. `inbox` holds
the requests under way, in no order. A handler (`handlers`) takes one up when
`Authenticate` and `RequireUserOwnership` let it through (`Receive`), and never looks at the
signature again: the Redis call of `AppKeyRateLimit`, the body and the wait for a pool
connection have no deadline, so its statement (`UpdateSetting`, `DeleteDevice`) runs at any
later time. `ReceiveCopy` leaves the request where it is, since there is no
nonce and a signature may be used again within the skew. The answer arrives in a
step of its own (`Reply`), or never (`Drop`).

`settings` and `devices` are the tables, one row per key as the upserts have it. `told` is what
each user may count on: the value of the last answer, unless the setting changed
while that answer was under way (`Overtaken`), or a request of the user for it could still be accepted
or was being handled when it came (`ChangeUnderWay`). The user cannot see the latter; without it nothing in the
code makes an answer hold. A login reads `NOW()` when its statement begins
(`LoginTime`) and writes later, so that logins may write in another order than their
times; `logins` counts the times that were read, no two of which are equal.

`log` is `notification_log` with the columns a listing looks at, `created_at` being any instant
between the beginning of `Execute` and the insert (the code leaves it to the default `NOW()`);
`walk` is a caller's way through the pages, with the rows `due` to it since the first. `submits[c]` is `Execute`
between its reads of the settings and devices and its insert. The dedupe key, the
rate limit and rendering can only end a submission here (`Abandon`), as they have
modules of their own. `handled` and `certain` are history.

## 3. The runs

| run | instance | shows |
| --- | --- | --- |
| `pipeline_storage` | 1 notification, 1 relay, 2 slots, a janitor, `MaxRetries` 1; one failed statement, lost answer, rescue and crash | types; nothing is lost; the log tells the truth; attempts and copies are paid for |
| `pipeline_relays` | 2 notifications, 2 relays with batches of 2, 1 slot; one failed statement, publish fault and crash; symmetry | nothing invented; duplicates are caused by faults; the inductive invariant |
| `pipeline_promise` | 1 notification, relay, slot, janitor; crash, lost connection, rescue, failed statement | the pipeline implements `DeliveryPromise`, liveness included |
| `breaker` | 3 requests, threshold 2, 3 changes of Redis, 1 cancellation | the circuit settles where Redis is, and opens only after an outage |
| `submission` | 3 clients, 2 on one event, one trouble of each kind | one notification per event, truthful answers, everyone is served; the requests implement `SubmitPromise`, liveness included |
| `rate_limiter` | 2 tokens per 3 s, 10 s, 2 clock setbacks or lost keys | the rate bounds every interval; refusals are free; the script implements `TokenBucket` |
| `templates` | 1 renderer, 2 writers, TTLs of 2 and 3, calls of up to 2 | a replaced content goes out of use in time, and what a request is given is recent |
| `connection` | 2 lost connections, 2 outages, 1 refused declaration, 2 publishes, a shutdown; redials before, during and after `Setup` | the consume loop comes back, `Close` ends the supervisor and nothing else does but a missed loss, nothing leaks, drops only during a redeclaration |
| `api` | 2 users, 3 channels, 2 tokens, 2 handlers, 2 clients, 3 ids, pages of 1 or 2, five mixes of requests; symmetry | settings are as told, opt-outs are respected, pushes follow the last login, pages are complete |

The other runs each show a statement of the repository that the code does not keep:

| run | statement | what happens |
| --- | --- | --- |
| `terminal_overwritten` | a terminal status is final | a second copy's handler rebuilds the entity as enqueued and writes by id |
| `replay_after_lost_claim` | a replay after a lost claim is a duplicate | it ends in a unique violation and an internal error |
| `connection_not_redialled` | `Conn` redials whenever the broker drops | a connection that dies before `NotifyClose` looks closed on purpose, and the supervisor returns |

*Bounds.* Two slots are needed for every race between handlers of copies of one
notification, and two relays for the row locks and for the rows that an aborted relay
publishes after it has lost them; a second notification matters only to a
relay's batch, hence `pipeline_relays`. `MaxRetries` 1 has a first attempt, a retry
hop and the parking; 0 parks at once. A fault of a kind strikes once per behaviour,
but faults of different kinds combine in every order; two of one kind would
multiply the states without a new kind of interleaving, and the proofs cover every budget. In
`submission` two clients on one event are the race, the third shows that events do
not touch each other. In `breaker` three callers allow a stale success and a stale
failure around a probe, and three changes of Redis are an outage, a recovery and a
relapse. In `rate_limiter` ten seconds are more than the six after which the
key expires, and 1 and 3 seconds are less and more than one token takes.

In `templates` two writers race with each other and with the renderer's write-back; renderers
share nothing but Redis, so one is enough, and the proof covers any number. A call of 2 and
TTLs of 2 and 3 let a write-back be later than an expiry. In `connection` two losses and two outages reach a failure
during the repair of another, before and after the topology has been redeclared; one refusal leaks one
connection. In `api` every initial budget is one mix of requests: two changes of
a setting, a look at it and two ticks around a submission, which with a skew of 1 let a request
expire, and let a handler that accepted it in time write after that; a change that is
received twice; a stray call of each kind (no token of the right kind, someone else's
name, none, a malformed one); three device calls, which are a login, a takeover and a
logout; three submissions, a change of status and a walk in pages of 1 or 2 that ends in
three pages. Two handlers are a late write and its successor, or two logins whose
times and writes are in different orders. Rows with equal times are told apart by
their ids. The handlers are interchangeable, and so are the clients.

Deadlock is checked in every run but `api`, where callers may simply stop asking. The pipeline
rests only in `EmptyPass`, when every queue, outbox row and process is done; `Submission`
only in `Done`; `AmqpConnection` only in `Exited`.

*Fairness.* Processes that run keep running: the relay's ticker loop, the consume
loop (which starts again after an error) and its handlers, the broker's TTLs, a
janitor pass once begun. No fairness is assumed for submissions, ageing, faults or
the start of a janitor pass: delivery does not depend on the janitor, since the broker
redelivers what a dead worker held. The provider may answer transiently for ever;
the retry limit ends this. In `Submission` clients are assumed to try again, and in
`CircuitBreaker` requests are assumed to keep coming, because the breaker has no
timer and moves only when it is asked. In `AmqpConnection` goroutines that can run do
run: the supervisor's loops, `declareTopology`, the consume loop that tries again after every
error; and the broker is started again after an outage. Nothing says that the process
ever stops. The templates and the API have no liveness worth stating: each request
is one pass of straight code that its client may give up.

## 4. The proofs

All theorems hold for every value of the constants under the named assumptions
(`PipelineAssumption`, `SubmissionAssumption`, `BreakerAssumption`, `LimiterAssumption`, `TemplateAssumption`,
`ConnectionAssumption`, and `AccessAssumption`, `AccountsAssumption`, `CallsAssumption`,
`ListingAssumption`, `ApiAssumption` for the API): any number of notifications, relays, slots and
janitors, any retry limit, batch size and fault budget; any number of clients, renderers and
writers; any TTLs; any users, channels, tokens, rows, page sizes and clock skew. There must be a
channel and a filter, and ids are finitely many numbers.

- `TypesAreRight` (`PipelineProofs`): `TypeOK` is inductive by itself; one lemma per process.
- `LogIsTrue` (`PipelineProofs`): `StatusIsTrue` does not survive a write by itself. `SlotsAreTrue`
  adds that a slot on its way to write a final status has seen the answer or parked the copy
  behind it; answers and parked copies are never taken back (`EvidenceGrows`).
- `RetriesArePaid` (`PipelineProofs`): `PaidInv` says of every queue, slot, janitor and row that the
  attempt it carries is at most the failures so far, which only grow (`FailuresGrow`), and
  strictly less in a slot that is about to retry: that is the failure the next attempt counts.
- `NothingIsLost` (`PipelineDeliveryProofs`): `NoLoss` is not inductive, since a relay marks
  a row published long before it commits. `DeliveryInv` adds that what is marked in an open
  transaction is `Safe` already. The proof shows that `Safe` is stable under every step:
  a handler gives its message up only after a final answer or a confirmed
  successor, and a crash or a lost connection puts it back. Then the commit turns a
  pending row into a published one only where the notification is safe.
- `DeliveriesArePaid`, `CopiesInvariant` (`PipelineDeliveryProofs`): a duplicate delivery is not visible
  before it happens, so the invariant counts what may still be delivered: `Outstanding(n)` is the
  number of copies of `n` in the queues, in slots that may still ask the provider, in rescue passes, in
  the outbox and in open transactions, and it never exceeds what one submission and the
  spent faults allow (`CopiesArePaid`). Each summand is the cardinality of a set of copies, so that a step that
  moves a copy takes one element from a set and adds one to another, and no sum over queues
  has to be unfolded by induction. `ClaimsAreLocks` says that the
  open transactions claim disjoint sets of pending rows, which is what `SKIP LOCKED` gives, and that
  one which has been aborted claims none. What its relay still publishes is a summand of
  its own (`Republishing`), which the fault that aborted it pays for: another relay may have
  claimed the rows by then, and both publish them.
- `NothingIsInvented`: `OnlyAccepted`, the same induction: an unknown
  notification has no message, no outbox row and no place in any process.
- `PromiseIsSafe`: `Spec => Promise!Safety`, the step simulation. `DeliveryInv` excludes the phase
  "lost"; then `Submit` is `Accept`, a final answer in `Send` is `Deliver`, the first copy
  that reaches the dead queue is `GiveUp`, and every other step leaves the phases alone.
- `SubmitIsIdempotent`, `AnswersAreTrue`, `SubmissionTypes` (`SubmissionProofs`): `OncePerEvent` and
  `AnswersAreBacked` with the types are inductive; the unique index is the
  only fact the induction uses, the claim plays no part.
- `PromiseIsSafe` (`SubmissionProofs`): `Spec => Promise!Safety` of `SubmitPromise`. `Persist` is `Accept` when its
  insert succeeds and its reply arrives, `AcceptUnheard` when only the insert does; the read-back
  is `Repeat`; every other end of a request is `Fail`. The simulation needs that nobody is
  answered twice: a request under way belongs to a client not served yet (`Asking`).
- `BreakerTypes`, `OpensOnlyThen` (`CircuitBreakerProofs`): while Redis has always answered, no
  caller holds a failure to record (`NothingFailed`) and no failure is counted, which is why neither
  misses nor cancelled calls open the circuit.
- `BurstsAreBounded`, `RefusalsAreFree`, `BucketTypes` (`RateLimiterProofs`): the invariant says that granted
  tokens and those a call would find now are paid for together (`Paid`), and that a
  bucket that is not full holds at least the yield since the last grant (`Kept`).
  An expired key counts as a full bucket, which is where `LimiterAssumption` needs
  that six decimals do not halve the rate: `2 * window` seconds fill the bucket.
- `RefillIsLazy` (`RateLimiterProofs`): `Spec => Promise!Spec` of `TokenBucket`, exactly and not as a bound. The
  level of the abstract bucket is what a call would find now (`Refilled`), and `Behind` the seconds by which the clock is
  short of the stored time. A tick refills what `Elapsed` grows by, a call stores what it found, and an expiry
  changes nothing, since the key has then been full for some time.

- `ReplacedTemplatesExpire` (`TemplateCacheProofs`): the bound on a compiled copy needs a bound on
  everything it may have come from. `Young` says that a request that will store its content
  loaded it after it began (`FreshlyLoaded`), that the copy in Redis is out of date for no longer than
  it is old and one call (`RedisIsYoung`), that what a request got was in Redis after it began
  (`GotIsYoung`), and so for the compiled copy (`LocalIsYoung`). `TemplateTypes` is part of the same
  induction. `ReadTemplatesAreRecent` is the same bound for what a request is given, by the copy
  in Redis or by MongoDB, and needs `GotIsYoung`: a writer that decides on a stale copy, or a `GET` that
  returns a deleted template, does so for one TTL and two calls at most.
- `NothingElseLeaks`, `DropsOnlyThen` (`AmqpConnectionProofs`): what is left behind is counted by
  `Paid`, which keeps one refusal in hand while the supervisor is about to dial over a living
  connection (`Leaking`). A drop needs a broker that lacks something on a connection that lives;
  `Redeclared` says that the supervisor is then redeclaring, because what a goroutine has declared
  on a living connection the broker still has (`Declared`).
  The same is said of `Setup` on the connection it opened its channel on, whichever that is,
  so that the worker starts with a complete topology or on a dead connection.
- `SupervisorEndsOnPurpose` (`AmqpConnectionProofs`): the safety behind `ConsumesAgain`. `Deliberate` adds that a
  connection closed by the process was closed by `Close`, after it had closed the channel that `supervise` selects on.
- `SettingsHold`, `OptOutHolds`, `LastLoginHolds`, `WalkIsComplete`, `Typing` (`ApiProofs`), from one
  invariant, `ApiInv`. `Settled` says that a setting has a value and that no request for it can be
  accepted or is being handled. `SettingsAreSettled`: what a user was told is settled, so that whatever changes
  the setting had made the user unsure before. `AnswersAreStored`: an answer under way tells what is stored,
  unless it was overtaken; no other step of a handler unsettles anything. `AdmittedIsOwn`:
  a handler past its check has a call of the user it changes. `SubmitsAreStopped`: a submission
  whose user is certain does not get past `CheckOptIn`. `DevicesAreHeld`: the row of a token is that
  of its one live login in the history; `TimesDiffer`: the logins carried out and those
  about to be have different times, so that the last of them is one. `Walked`:
  what was shown lies from the cursor on, what is due lies before it. The
  latter rests on `FiniteMinimum`: a finite set has a least element in any strict total
  order, proved without induction by ranking the elements, so that `Oldest` and `Newest` are what
  their names say.

Every invariant and every action property that a run checks is proved, and so are the steps of the three
refinements (`DeliveryPromise`, `SubmitPromise`, `TokenBucket`). Left to TLC are the liveness properties (`PromiseIsKept` of both
promises, beyond its safety part, `Recovers`, `Trips`, `EveryoneIsServed`, `ConsumesAgain`,
`CloseEndsSupervisor`), because the proof system does not handle fairness and `ENABLED`.

## 5. Not modelled, and the plan

Not modelled because it does one stateless thing to one request: HTTP parsing and the
mapping of errors to codes, the syntax of addresses, ids and cursors, each provider's translation
of HTTP codes, configuration, logging, metrics. `QueueDepth` and the Postgres template
repository are called by no process. The list of templates is one uncached query. The
order of the retry queue and the delays of the backoff are a restriction of what `Expire`
allows, and no property is about durations. The key refresh of the JWT library is
outside the repository, and user records are changed by nobody in it. A push is
sent to the device that was looked up before the insert; what logins do after that look
is not a promise of the code.

Next: the retry queue as a sequence whose head alone expires, for the delay that a long backoff imposes
on the messages behind it; and an abstract specification of a template, whose renderers use versions of bounded
age, that `TemplateCache` implements.

## 6. Also seen while modelling

Smaller disagreements between the code and what is said of it, which no run is kept for:

- `outbox_relay.go:72` publishes with the outbox row's own attempts as `x-attempt`, so that failed
  publishes use up what `README.md:364` calls "Retry hops before dead-lettering".
- `rescue_stuck.go:57` resets the status after publishing, so the row may stay `enqueued` after the
  copy has been handled; the comment at `rescue_stuck.go:22` has healthy workers pick such rows up.
- `circuit_breaker.go:74` lets every caller pass while half-open; `circuit_breaker.go:18` speaks of
  one probe call.
- `recipient.go:79` does not look at a recipient with a user id again after it has been hydrated, so
  a user without an email or phone makes a notification with an empty destination.
- `decodeCursor` (`notifications.go:353`) asks callers to answer a malformed cursor with 400; a cursor
  that is base64 but no cursor is answered with 500.
- `authorization.go:14` says that JWT users are allowed through; `RequireUserOwnership` refuses them.
- A signature is checked once (`middleware.go:186`) and nothing bounds the time from there to the
  write, nor is a signed request handled only once within the skew (`hmac.go:50-51`). A setting may
  therefore change, after its user has been told of it, by an older request of the same
  user. No line of the repository claims otherwise; `SettingsAreAsTold` says when an answer holds.
