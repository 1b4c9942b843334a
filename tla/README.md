# notify-engine: a TLA+ model, its checks and its proofs

This directory specifies how notify-engine takes a notification from an HTTP
request to the provider, what it promises on the way, and how far the code keeps
that. Everything is translated from the Go and SQL in `src/`; where a README line
or a comment of the repository says something else, a run shows the difference.

- [The system](#the-system)
- [Modules](#modules)
- [Runs](#runs)
- [Fairness](#fairness)
- [Proofs](#proofs)
- [What the runs found](#what-the-runs-found)
- [Not modelled, and the plan](#not-modelled-and-the-plan)

## The system

An API process (`cmd/api`) stores notifications in PostgreSQL and publishes them to
RabbitMQ; worker processes (`cmd/worker`) consume them, ask a Redis rate limiter,
send them to a webhook provider, and run a scheduler that publishes rows which are
still pending. The processes share no memory: they meet in the `notifications`
table, in one work queue and one dead-letter queue (DLQ) per channel, and in Redis.

| Component | State | Operations | What makes it hard | What makes it correct |
|---|---|---|---|---|
| `notifications` table (`repository/notification.go`, migration 001) | rows: status, retry_count, scheduled_at, provider_message_id, idempotency_key | Create, CreateBatch, UpdateStatus, IncrementRetry, Cancel, GetPending, reads | UpdateStatus is unconditional: API, scheduler and workers overwrite one another | a status is the truth about what happened; Cancel is final if early enough |
| notification service (`service/notification.go`) | one goroutine per request | Create, CreateBatch, Cancel, reads | check-then-insert; INSERT, Publish and UpdateStatus are three steps any of which may fail | one key is one notification; a batch is stored whole; nothing stored is lost |
| publisher (`queue/publisher.go`) | topology, one connection and one channel per process | setup, Publish | no confirms; a channel that closes is never opened again | what the caller believes published is in the queue; a closed channel loses nothing for good |
| scheduler (`queue/scheduler.go`) | the rows of the last poll | tick | works from a snapshot; one per worker process, uncoordinated; also sees rows whose request is still at work | every due row is published; few duplicates; nothing early |
| consumer (`queue/consumer.go`) | per worker: the delivery, the row's retry_count in memory | worker, processMessage, handleFailure, Shutdown | database errors are dropped; shutdown cuts a Send short; redelivery; several copies of one notification | Ack only after the provider had it; DLQ only for a cause; retries end |
| worker process (`cmd/worker/main.go`) | context, connections | start, SIGTERM, crash | order of cancel, Stop, Shutdown, Close; a lost connection ends all workers but not the process | whatever was in progress is delivered by somebody |
| rate limiter (`ratelimiter/ratelimiter.go`) | a counter per channel and second, with expiry | Allow | clock read before the round trip; window boundaries; Redis fails open | the limit holds; a refused caller does not spin |
| provider client (`delivery/provider.go`) | none | Send | the answer can be lost after delivery | errors classified as permanent or retryable |
| templates (`model/template.go`, `repository/template.go`, `handler/template.go`) | templates table | Create, List, GetByID, Delete, Render | templates come and go between two steps of a Create; Render iterates over a map and looks at what it has put in | what is stored is the template's text, wherever the order of the variables can be kept from showing |
| requests (`model/request.go`) | none | Validate, Normalize | boundaries; validation comes before the template | what is accepted is within the limits; pages neither skip nor invent rows |
| health, metrics (`handler/health.go`) | a cached AMQP connection | Health, Metrics | reconnect under a mutex; a connection may be dead unnoticed; two queries for one answer | no false alarm, one connection, every call ends, the two queries fit together |
| migrations (`cmd/migrate`) | schema_migrations | main | two runners; a crash between two files | each file applied once, with its record |
| config, middleware, telemetry, swagger | start-up values | | | |

How a notification travels: `Create` inserts a row (`pending`), publishes it unless
it is scheduled, then marks it `queued`. Whatever is still `pending` and due at a
tick is published by a scheduler and marked `queued`. A worker takes the copy, reads
the row's retry count, marks the row `sending`, asks the limiter, sends, marks the
row `sent` and acknowledges. On an error it counts the failure and either marks the
row `failed` and rejects the copy into the DLQ, or marks it `queued`, waits, and
puts the copy back.

The hazards are listed line by line in `PROJECT.json`; the properties below were
written for them.

## Modules

| Module | Models | Correspondence |
|---|---|---|
| `Notification` | the entity and the message body | `Status`, `Body` |
| `NotificationStore` | the table, one SQL statement per operator | `rows[n]`; `absent` before the INSERT; the clock is the passing of `scheduled_at` |
| `Broker` | work queue and DLQ of one channel | `place[m]` of every published copy `m`, `body[m]`; priority and prefetch leave the order open, a prefetched copy counts as `ready` |
| `Faults` | what may go wrong around the program, with a budget `MaxDisruptions` | |
| `WorkerProcess` | context, consumer connection and publisher channel of a worker process | `life`, `link`, `channel`; `Write` is a database write under that context with its error dropped |
| `Provider` | outcomes of `Send`, and what really reached the provider | history variables the program cannot read, among them `tries`, the failures of each copy |
| `NotificationService` | the API from the INSERT on, and Cancel | `todo[r]` and `published[r]` are the position in the loop, `apiChannel` the publisher's channel |
| `Scheduler` | `pollAndPublish` | `batch[i]` is the slice that was read, `queued[i]` the row published but not yet marked |
| `Consumer` | `processMessage` and `handleFailure`, every call a step | `pc[w]` is the next call, `held[w]` the delivery, `seen[w]` is `n.RetryCount` |
| `DeliveryPipeline` | composition of all the above, with stop, exit, crash, restart, lost connections and channels, a restart of the broker | the properties |
| `DeliveryPromise` | abstract specification: accepted, received, abandoned, withdrawn | `Promise` in `DeliveryPipeline` is the refinement mapping |
| `Intake` | Create and CreateBatch up to the commit: validation, idempotency lookup, template, INSERTs under the unique index | `pc[r]`, `answers[r]`, `fresh[r]`, `inserted[r]` (the open transaction) |
| `Render` | `Render` on sequences of characters | `ReplaceEvery` is `strings.ReplaceAll`; `Renderings` are the texts the map's random order can give, `Substituted` is the reference they are compared with |
| `Templates` | the templates table and its handlers | `templates[t]` |
| `RateLimiter` | `Allow`, the Lua script, expiry, and the loop that asks | `count`, `expires` are Redis; `stamp[c]` the clock as the caller read it |
| `Migrate` | the migration runner, any number at once | `schema`, `versions` are the database; `pc[r]` the next statement, and so whether a transaction is open |
| `ReadView` | the columns the read endpoints look at, and writes to them | `entries`; which changes of status occur is left to `DeliveryPipeline` |
| `Listing` | Normalize, COUNT and SELECT of List, a client that pages | `walk` is the client's position; `owed` and `seen` are history variables |
| `Health` | Health, Metrics, getAMQPConn | `probe[c].pc` is the next call, `conn` the cached connection, `lock` the mutex |
| `ApiReads` | composition of `Listing` and `Health` over one table | |
| `DeliveryPipelineProofs`, `DeliveryHoldersProofs`, `DeliveryRowsProofs`, `DeliveryPromiseProofs` | theorems about the pipeline, each module on top of the one before | types and losses; who holds a copy, and counts; what rows say; the refinement |
| `IntakeProofs`, `RateLimiterProofs`, `MigrateProofs`, `ApiReadsProofs` | theorems about the other components | |
| `MCPipeline`, `MCIntake`, `MCRateLimiter`, `MCApiReads` | instances for TLC | |

`Intake` and `NotificationService` split one handler: everything before the commit
is one step (`CreateBatch`) for the pipeline, and `Intake` opens that step up.
`Intake` extends `Templates`, whose rows a Create reads in a step of its own, and that
extends `Render`.
`RateLimiter` opens up the three limiter actions of `Consumer` in the same way. `Migrate`
runs before everything else and stands alone; `ApiReads` only reads, so it has the
writers as a few arbitrary updates and not as the pipeline.

Abstractions that matter:

- One channel. Queues, DLQs and counters are per channel and share nothing but the
  scheduler's poll.
- One clock for PostgreSQL and the API. The code compares `scheduled_at` with
  `time.Now()` in one and with `NOW()` in the other.
- The order of delivery is open, so priorities allow nothing that is not allowed
  here.
- The length of backoff and rate-limit waits is left out of the pipeline (a waiting
  worker may go on at any time); `RateLimiter` has the clock.
- The publisher's connection is separate from the consumer's. A closed channel
  (`api-channel`, `worker-channel`) makes every later publish of that process fail
  until the process is started again; a restart of the broker closes all connections
  at once; `lost` is a publish without error and without message.
- A text is a sequence of characters, of which only the two braces are told apart. A
  value and the text around it may form a placeholder, as they may in the code.
- A worker takes no delivery over a connection that is closed (`Take`). The AMQP client
  may still hand out one it has prefetched; its Ack then fails, and the broker delivers
  the copy again, as it does for a worker that took it just before (`LoseLink`).
- A dependency is up or down; down includes answering too late.
- A body that does not unmarshal cannot be published by this program.
- `WORKER_MAX_RETRIES` is the limit the consumer uses; the `max_retries` column is
  written and never read.

## Runs

Every run is a `.cfg` in this directory. "Fault" is one disruption of the kinds
listed in `Faults`.

| Run | Instance | Shows |
|---|---|---|
| `PipelineWorkers` | 1 notification, up to 2 copies, 2 workers of one process, 2 tries, one fault: a lost answer, the database, a closed channel, a restart of the broker, a lost connection, a stop or crash | `NothingLost`, `AckedWasReceived`, `StatusTruthful`, `NotBeforeDue`: whatever two workers, the API and the scheduler do to one row, it is not lost, not early and says what happened; `RetryCountTruthful`, `DeadLetterJustified`: two copies count on one row and are given up for a cause; an early cancellation is final (`CancelBeforePickupIsFinal`) |
| `PipelineProcesses` | 1 copy, 2 processes with a worker each, 2 tries, one fault: a lost answer, connection or publish, the limiter, the database, a restart of the broker, a stop or crash | `HeldByOne`: broker and workers agree on who holds what; `ReceiptsBounded`: a copy is sent twice only because of a fault; every step is one of `DeliveryPromise` (`ImplementsPromise`) |
| `PipelineBatch` | 2 notifications, alone or as a batch, cancelled at any time, polled one or two at a time, room for 3 copies, no fault | `SendingMeansWorking`, `DuplicationBounded` |
| `PipelineLiveness` | 1 notification, up to 2 copies, 2 tries, one fault: the database, the API's channel closed for good, a stop or crash | `KeepsPromise`: every accepted notification is received, abandoned or withdrawn; `EveryCopySettles`; `RetriesBounded` |
| `IntakeCalls` | 3 concurrent calls out of 4, 2 keys, 2 templates of one name that are created and deleted, one fault | `AnswersAgree`, `BatchAtomic`, `RefusedLeavesNothing`; `ContentAsAsked`: a row holds the client's text, or the template's with every placeholder replaced; `UnfitOnlyByTemplate`: content outside of the limits comes from a template; `EveryCallEnds`: batches that lock keys in opposite orders do not hang |
| `LimiterWindows` | 2 callers, limit 2, three windows | `WindowHolds`, `BurstsBounded`, `RefusedOnce`, `FewKeys` |
| `MigrateRunners` | 3 runners, 3 files, restarts, two faults | `RecordedIffApplied`, `InOrder`, `CompletedMeansAll`; `SomebodyCompletes` |
| `ApiReads` | 3 rows on 2 channels with equal or different `created_at`, 2 writes, pages of 1 or 2, 2 clients of Health and Metrics, one outage or failed query | `WalkSeesAll`, `PagesPromisedExist`; `SentHasLatency`, `NoFalseAlarm`, `OneConnection`; `ReadsEnd` |
| `CancelSent`, `LinkLost`, `IntakeRace`, `IntakeBatchTemplate` | as small as the behaviour allows | each violates one documented statement, see below |

Bounds and why they are enough:

- `Messages` bounds how often the program publishes; a publish beyond it is not
  taken. `PipelineBatch` has room for one copy more than `DuplicationBounded` allows
  without a fault, so the bound cuts nothing off there. `PipelineWorkers` and
  `PipelineLiveness` use two: two copies of one notification, in the hands of two
  workers or one after the other, are what the races on a row need.
  `PipelineProcesses` asks who holds one copy, and has one.
- `MaxRetries` is 2 (1 where retries are not the question), so that a first
  failure, a retry and the last one are different cases.
- `BatchSize` is 2 where there are two notifications, so that a poll brings one or
  both of them, and 1 where there is one.
- `MaxDisruptions` is 1: each fault is combined with every interleaving, but not
  with a second fault. The bounds of `DuplicationBounded`, `ReceiptsBounded` and
  `RetriesBounded` are stated relative to the faults that have occurred, and proved for
  any number of them.
- Two notifications are needed only where they share something: a batch, the
  scheduler's snapshot, a worker (`PipelineBatch`). A request is reused, so one
  request can create one notification after the other.
- `Intake`: three calls are what a deadlock of two and a bystander need; they are
  numbered in the order in which they arrive. The calls are a Create under the first
  key, one with a template under the second, and batches with both keys in both orders, of
  which one has an item that is too long and is rejected. The template goes away and an
  email template takes its name, so a Create finds it or not; what its variables make
  of it is longer than the limit. Malformed items and other texts add states but no new
  course of a call. The template's body is `{{a}}{{b}}}}{{x}}{{a}}`, and the values are the other
  key and one that ends in a brace; `RenderReplacesAll` is about every body and every map.
- `ApiReads`: the table begins as one batch or as two notifications of which one is
  sent, and `MaxWrites` allows two more transactions: one that changes what a page or
  query sees, and one that changes it back or again (sent, then queued). Listing and
  the other two share only the table they read, so clients page before the first
  connection of `Health` is opened; all states of the two parts together would show
  nothing more. `Requests` are the filters none, channel and status with page 0 or 1
  and sizes below, at and above the limits; the defaults 20 and 100 are 1 and 2.
- `LimiterWindows` uses a second of 2 ticks and an expiry of 3 with scripts at most
  one tick late: the smallest numbers in which the key outlives its window by the
  lag (in the code: 1000 and 1100 ms, so scripts up to 100 ms late). So the key is never
  gone while a caller that read its clock in the window is on its way; `WindowHolds` and
  `BurstsBounded` assume that case away, and the code does not survive it.
  `LimitHoldsPerWindow`, `BurstsAreBounded` and `KeysAreDropped` are proved for all values.
- `MaxTime` and `MaxCount` stop the clock and a counter; they only cut behaviours
  short.

Deadlock checking is off but for `ApiReads`: the system may come to rest (everything is
settled, or the clock of the model has stopped). That it does not rest too early is
what the liveness properties say. No liveness run uses symmetry.

## Fairness

`FairSpec` assumes weak fairness of what a goroutine does when it can go on
(`Handle`, `SchedulerStep`, `Process`, `Exit`), of the clock, of the supervisor that
starts a worker process again (the compose file restarts it), and of RabbitMQ
delivering to a free worker (`Take`). Two actions get strong fairness, because
another outcome may win any number of times before they happen: `RateLimitPass`
(a limiter that refuses in one window has room in some later one; it is never
always full, because the other workers' sends are finite) and `ExitWorker` (a
`select` with both `ctx.Done()` and a delivery ready picks at random, so it does not
avoid one case for ever). There is no fairness for clients and none for faults. The
provider is not assumed to accept anything: a transient error may repeat, and
retries end because they are counted.

`EveryCallEnds` assumes no more than that some call goes on as long as one can, where
PostgreSQL's resolution of a deadlock (after `deadlock_timeout`) counts as going on.
`ReadsEnd` assumes that handlers run on, that `sync.Mutex` does not starve a waiting
goroutine (strong fairness of `Lock`; the runtime hands a mutex over after 1 ms), and
that a dead AMQP connection is found out by heartbeats, which amqp091 sends by default.
`SomebodyCompletes` assumes that a runner goes on once started; starting it (again) is
nobody's duty.

## Proofs

TLAPS checks the following for every number of notifications, copies and requests,
every finite set of workers and processes, every assignment of workers to processes,
every `MaxRetries`, `BatchSize` and every budget of faults. Each theorem has an
inductive invariant, a conjunction of named parts, which TLC checked on the runs'
instances before it was proved.

The constants' assumptions are those named in the modules (a process, a worker and a
row can be counted: `InstancesAssumption`, `WorkersAssumption`, `IdsAssumption`; the
limits of a content are numbers; the variables of an item are finitely many). Six
theorems assume more, and state it:

| Theorem | Assumes | Why |
|---|---|---|
| `NothingIsLost`, `CancelledInTime` | `"lost" \notin Faults`: a publish that returns nil has reached the broker | after `PublishDueIsLost` the row is marked queued, and there is no copy |
| `LimitHoldsPerWindow`, `BurstsAreBounded` | `MaxLag + Second <= Ttl`: scripts run at most 100 ms after the clock was read | later, the key has expired and the window's limit is granted again |
| `KeysAreDropped` | `MaxLag + Ttl <= 2 * Second`: at most 900 ms after | later, a key is made for a window that is long over, and there may be a fourth |
| `PagesMissNothing` | `page <= 1` in the first request | who starts at page 3 is not shown pages 1 and 2 |

`DeliveryPipelineProofs`:

- `TypeCorrect`: `Spec => []TypeOK`. The type invariant alone is not inductive: a
  worker writes to the row its copy's body names, so the copy it holds must have
  been published (`WorkersHoldCopies`) and what is published must have a body
  (`BodiesKnown`). The three together are, and every later invariant contains them.
- `AcknowledgedIsReceived`: `Spec => []AckedWasReceived`. The strengthening
  `ReceivedFirst` adds that a worker about to mark sent or to acknowledge has had
  its copy received.
- `NothingIsLost`: `Spec => []NothingLost`. The inductive invariant is
  `IInv`; its part `Backed` says that a row beyond `pending`, and a request or
  scheduler about to mark one, has a published copy. A published copy is live,
  acknowledged (then `ReceivedFirst` gives the receipt) or dead.

Its lemmas follow the modules: one per kind of step (service, clock, scheduler,
worker, lifecycle) for types, for copies (`NextCopies`: what was published stays
published, with the same body), for what workers hold, for `Backed` and for
`ReceivedFirst`. The later modules cite them.

`DeliveryHoldersProofs`:

- `OneHolderEach`: `[]HeldByOne`. `HoldersInv` says that what a connected worker holds
  is unacknowledged and conversely, and, the part that carries it (`HoldersApart`),
  that two workers holding one copy belong to two processes and at most one of them
  is connected: a process that lost its connection gets none before its workers start
  anew.
- `CounterIsTruthful`: `[]RetryCountTruthful`. A worker in `failing` has had its failure
  and not counted it, so `CountInv` bounds the row's counter plus the number of such
  workers (of running processes: the others cannot write) by the failures.
- `HardlyEverTwice`: `[]ReceiptsBounded`. `ReceiptsInv` counts the receipts a copy may
  still get without a further fault: one if it waits, one for each worker that has
  it and has not sent it, one more if a shutdown may cut that Send. The sum never
  passes one more than the faults so far. A lost connection raises it by one, and
  only because `HoldersApart` leaves one connected holder.

`DeliveryRowsProofs`:

- `NothingEarly`: `[]NotBeforeDue`, through `DueInv`: what is published, read by a
  scheduler, or being marked is due, and due rows stay due.
- `SendingIsWork`: `[]SendingMeansWorking`. Inductive once processes are known to run
  until the first fault (`UndisturbedRun`); the point of the proof is that the last of
  several writers of a row is never one that has gone.
- `AbandonedForCause`: `[]DeadLetterJustified`. A worker decides with a count that came by
  the copy or was read from the row, and the row may have moved on; `CauseInv` says that every
  such count, on its way or in a worker's hands, counts failures that have happened.
- `RowsAreTruthful`: `[]StatusTruthful`, from `ReceivedFirst` and `CauseInv`.
- `CancelledInTime`: `CancelBeforePickupIsFinal`, an action property, from `IInv`:
  `Backed` excludes the publisher that marks a row it has published without a copy.
- `FewCopies`: `[]DuplicationBounded`. `DupInv` counts publications past and to come: the
  copies, the schedulers that have the row in hand or may still read it as pending,
  and the one the request owes. A step moves one of them to another place, and only a
  fault adds one.
- `RetriesEnd`: `[]RetriesBounded`. A copy's errors, and one for each holder that may
  still add one, are its toll. `RetryOK` bounds it by `MaxRetries` and the faults, strictly
  so while the copy waits, and by what the row has counted, because a worker that puts
  the copy back has counted its failure there or a fault kept it from doing so. That
  other copies count on the same row only makes them give up sooner.

`DeliveryPromiseProofs`:

- `PipelineKeepsPromise`: `Spec => ImplementsPromise`. Each action of the pipeline is
  shown to be, under the mapping `Promise`, an action of `DeliveryPromise` or none.
  `PromiseInv` takes from the other modules what the abstract guards ask: what a
  worker holds was accepted (`DueInv`), what it rejects has a cause (`CauseInv`), and
  a receipt belongs to a published copy (`ReceivedPublished`).

`IntakeProofs`, for any calls, any number of them at once and any faults:

- `RenderReplacesAll`: for every body, a sequence of characters, and every finite map, what
  `Render` may return is a text, and with `PlainVariables` and a `Tidy` body it is
  `Substituted`, whatever the order. A pass over a text is a recursive function on
  texts, which exists because every step leaves a shorter text (`ScanExists`,
  `PassStep`). Over a plain character and over what has no opening brace it moves on
  (`PassCharacter`, `PassOpenless`), a placeholder gives way to its key's value
  (`PassPlaceholder`), and one of another name stays (`PassOther`). A tidy body consists
  of such parts (`TidyParts`, `TidyInduction`), so a pass for some keys and then one for
  another key are a single pass for all of them (`TwoPasses`): the values put in hold
  no opening brace, and cannot complete what begins before them. The induction
  principle the library offers takes an operator and cannot be used; `TextInduction` and
  `InductionUpTo` have instead the set of what has the property, and are proved from
  well-foundedness (`WFMin`, which takes sets). The order of the map is gone through by a
  history of the texts (`StepByStep`).
- `KeysAreIdempotent`, `BatchesAreAtomic`, `RefusalIsClean`, `OnlyTemplatesUnfit`,
  `RowsSayWhatWasAsked`: `IntakeSpec` implies `[]AnswersAgree`, `[]BatchAtomic`,
  `[]RefusedLeavesNothing`, `[]UnfitOnlyByTemplate` and `[]ContentAsAsked`. In
  `IntakeInv`, `UniqueIndex` states the unique index with the entries of open
  transactions in it, `AnswersTrue` that the row an accepted item was told of is in the
  table or in the call's own list, `RowsAsked` that a row is what one of the call's
  items asked for, with one of the texts Render may return where there is a template, and
  `OnCourse` how far a call has come; the call that is done has its list in the table
  (`OkIsStored`).
- `IntakeTypes`: `[]IntakeTypeOK`, which needs of Render that it returns texts.

`RateLimiterProofs`:

- `LimitHoldsPerWindow`: `LimiterSpec => []WindowHolds`. The invariant `CounterCounts`
  says that a counter that exists has counted every grant of its window and expires no
  earlier than `Ttl` after the window began, and that once it is gone no script for
  that window can still be under way.
- `BurstsAreBounded`: `LimiterSpec => []BurstsBounded`. Every script that passes between two
  ticks was granted by a window in which a caller could still have read its clock
  (`PassedWasGranted`, on sets with one element per grant), and each such window grants at
  most `Limit`.
- `NoSpinning`: `LimiterSpec => []RefusedOnce`, without assumption on the lag.
- `KeysAreDropped`: `LimiterSpec => []FewKeys`. By `KeysRecent` the windows with a key are
  multiples of a second within less than three seconds, of which there are three.
- `LimiterTypeCorrect`.

`MigrateProofs`, for any number of runners and files:

- `RecordIsTrue`, `AppliedInOrder`, `SuccessIsComplete`, `MigrateTypeCorrect`: `MigrateSpec`
  implies `[]RecordedIffApplied`, `[]InOrder`, `[]CompletedMeansAll` and `[]MigrateTypeOK`. The
  strengthening `MigrateInv` adds that a running runner has seen every file before its
  own applied (`EarlierApplied`; what it read stays true, because versions are only
  added) and that no two open transactions hold the objects of one file
  (`ObjectsHeldOnce`).

`ApiReadsProofs`, for any table, any number of clients and any faults:

- `NeverTwoConnections`: `ApiReadsSpec => []OneConnection`. The strengthening
  `ConnectionInv` adds that whoever dials holds the mutex and has found no open
  connection since (`DialMeansNone`), and that a connection is counted exactly while
  the cached one is open or dead (`HealthTypeOK`).
- `LatencyOfAllSent`: `ApiReadsSpec => []SentHasLatency`. No write takes a channel out of
  those that have a latency (`RowsStep`), so what the first query saw sent is still
  timed when the second runs (`SentStaysTimed`).
- `AlarmsAreTrue`: `ApiReadsSpec => []NoFalseAlarm`. While a call is clean everything is
  up, and nothing it has asked has failed it (`CleanMeansUp`).
- `PagesMissNothing`: `ApiReadsSpec => []WalkSeesAll`. The part `OwedIsAhead` of `WalkInv` says
  that a row the client is owed, has not seen, and that shares its `created_at` with no
  other has at least as many newer rows as the next page skips: inserts only add
  newer ones. What ORDER BY, LIMIT and OFFSET return is the lemma `PageOfRows`.
- `PromisedPagesExist`: `ApiReadsSpec => []PagesPromisedExist`, since what was counted is still
  there when the page is read (`CountedEarlier`); `PagesOfRows` is the division.
- `ApiReadsTypeCorrect`.

A row or call changes through an operator on the record (`WithStatus`, `Judged`) and a
single EXCEPT path: the SMT translation of `[f EXCEPT ![x].a = .., ![x].b = ..]` in TLAPS
1.4.5 is contradictory, and anything follows from it.
In an obligation that mentions `Len` or `Seq` it takes every function for a
sequence, and one with the domain `0 .. n` contradicts it: `IntakeProofs` hides
histories (`History`) and lengths there. After both, the obligations were searched for hypotheses that contradict each
other; those that do belong to cases the proof excludes. The obligations with
`Len` were tried again with that axiom limited to functions whose domain is
`1 .. n`.

Proofs that did not go through have corrected the model:

- `RetriesBounded` used to say that a notification fails at most `MaxRetries` times per
  copy and once more per fault. One fault may do its harm to every copy: when a process
  with two workers loses its connection, both of their copies are delivered again while
  both workers go on, so with `MaxRetries = 1` two copies and one fault make four
  failures (TLC's simulation finds that with two processes of two workers, an instance
  larger than a run's). What holds is a bound for each copy, for which the model has
  the history `tries`.
- The bound on a second of the limiter used to be twice the limit. That is what the
  run's lag of one tick gives; where a script may run later than that, a second can see the grants
  of three windows, and `BurstsBounded` counts the windows.

Only model-checked are the liveness properties under fairness (`KeepsPromise`,
`EveryCopySettles`, `EveryCallEnds`, `SomebodyCompletes`, `ReadsEnd`), which are out of
TLAPS's reach here, as is ENABLED. Every invariant and action property of a passing
run is stated by a theorem.

## What the runs found

| Run | The repository says | The code does |
|---|---|---|
| `CancelSent` | "sent→404" | the request marks a row `queued` after the worker marked it `sent`; DELETE then succeeds |
| `LinkLost` | "reliable delivery" | all workers return when the connection closes, the process stays |
| `IntakeRace` | "returns existing notification if key matches. DB-level unique constraint prevents race conditions" | the second of two concurrent calls gets a 500 |
| `IntakeBatchTemplate` | "pass template_id + variables instead of content" | CreateBatch ignores the template and stores empty content |

Further differences can be read off the model and have no run of their own:

- "already cancelled→404": `MarkQueued` overwrites `cancelled` as it overwrites `sent`;
  a second DELETE then succeeds.
- The scheduler polls rows "where scheduled_at <= NOW()": `PendingDue` also takes rows
  without `scheduled_at`, which their request is about to publish. Two copies are
  delivered (`DuplicationBounded` counts them).
- A publish is not confirmed: `PublishDueIsLost` and `SchedulerPublishIsLost`.
- "sliding window": `RateLimiter` has fixed windows, and `BurstsBounded` is what holds for
  an arbitrary second: twice the limit, and three times where scripts run late.
- "max 160 characters": `Validate` looks at the content before `ResolveTemplate`
  replaces it; `UnfitOnlyByTemplate` says that nothing else gets past it.
- "5s → 10s → 20s, max 3 retries": `GivesUp` counts the failure just seen, so the
  default of 3 means three attempts, two retries, and the delays 5s and 10s.
- "template with this name already exists" (`handler/template.go:53`) is never
  answered: the repository turns the 23505 into `ErrDuplicate`, `IsDuplicate` does not
  recognise that, and the client gets a 500 (see `CreateTemplate`).
- "Worker waits for in-flight messages before closing connections": `cancel()` comes before
  `Shutdown`, so a Send in flight is cut short (`SendIsCut`).
- Pages: rows of one batch have one `created_at`, by which alone List orders, so a
  client may see one of them twice and another never (`PageSets`); so may a client
  that filters by status while statuses change, or stops at `total_pages`, which was
  counted before the page was read. `WalkSeesAll` is what remains.
- /health reports a dead connection as healthy until it is found out (`CachedConn`),
  and /metrics waits for that moment (`Depths`).
- What a template's text becomes may depend on the order of a Go map (`Renderings`): with
  a = b and b = c, `{{{{a}}}}` becomes `{{b}}` or `c`, and a value `{{b}}` is replaced or
  not. `Tidy` and `PlainVariables` say when it does not.
- A scheduler whose publisher's channel is closed polls on and publishes nothing
  (`LoseChannel`), as long as its process lives: the other half of what `LinkLost` shows.

The scheduler's taking of unscheduled rows is also what rescues a row whose API
process died between INSERT and Publish: `KeepsPromise` fails without it, as its
mutant `ScheduledDue` shows.

## Not modelled, and the plan

Done: the pipeline with its promise and the broker's and publishers' failures; intake
with idempotency, batches and templates; the rate limiter on a clock; the migration
runners; the read endpoints; proofs of all safety properties. Next:

1. An ordered queue with prefetch and priorities that implements `Broker`; whether a
   low-priority copy can wait for ever, and what prefetch does to "higher priority
   messages dequeued first".
2. The delays of the backoff as a function of the retry, with their cap.

Left out for good: configuration, logging, tracing and middleware (no state that the
behaviour depends on), swagger (static), the HTTP framework, the formats of recipients
and dates, and the sums and rates that Metrics forms from its first query. GetByID,
GetByBatchID and the reads of templates are one statement each; what they can observe
is what the invariants say. `srv.Shutdown` of the API lets requests finish, which is the
undisturbed behaviour; a shutdown that gives up after its ten seconds is `ApiCrash`.
A migration runner that finds no file reports success at once; `Migrate` has at least
one. The two Count methods of the repository and `GetByName` have no caller.
