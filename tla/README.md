# KernelQ in TLA+

KernelQ (control plane in Python, worker in Go) accepts jobs over HTTP, keeps
them in a Postgres table, claims them in scheduler ticks, publishes them to a
Kafka topic, executes them on worker goroutines and applies the reported
results to the table. This directory holds the TLA+ models of that path, the
TLC configurations that check them, and TLAPS proofs about the table, the round
trip of a job, the worker process, the idempotency stores and the in-memory
schedulers.

Contents: [Inventory](#inventory) · [Modules](#modules-and-the-code) ·
[Runs](#runs) · [Bounds](#bounds) · [Fairness](#fairness) ·
[Proofs](#proofs) · [Findings](#findings) · [Left out](#not-modelled) ·
[Plan](#plan)

Running things, from this directory:

    tlc -workers 2 -config MCJobStore.cfg MCJobStore
    tlapm JobStoreProofs.tla         (likewise the other *Proofs modules)

## Inventory

| Component | State it keeps | Operations | Hard behaviour | Correct when |
|---|---|---|---|---|
| Job state machine (`job_state.py`) | none (a table of transitions) | `can_transition` | consulted by the API only; other writers go around it | finished jobs stay finished (results go around it, see `terminal_states`) |
| Job repository (`job_repository.py`) | Postgres table `jobs` | create, update state, claim, mark dispatched, schedule retry, requeue due retries, requeue dead-lettered | row locks (`FOR UPDATE SKIP LOCKED`), read and write in separate transactions, unconditional updates | one dispatch per stay in the queue; the retry budget bounds runs; back-off is kept |
| HTTP API (`api.py`) | none of its own | enqueue, cancel, retry | decides on a state read one transaction earlier | writes what the state machine allows |
| Scheduler tick (`scheduler_tick.py`) | a dispatch idempotency store | claim a batch, publish each row once per key | a publish that fails after the claim; keys that outlive a requeue | every dispatched row has an event under way |
| Retry scanner (`retry_scanner.py`) | none | requeue due retries | a crash between select and commit | due retries are requeued, none early |
| Dispatch and result topics (Kafka, external) | events, group offsets | produce, poll, commit | at-least-once delivery, loss by early commit | |
| Worker handler (`handler.go`) | an execution idempotency store | claim, execute, publish result, dead-letter | redelivery, crash between claim and result, late broker acknowledgements | one execution per key |
| Worker pool and poll loop (`kafka_consumer.go`, `worker_pool.go`, `backpressure_policy.go`, `pause_resume_controller.go`) | bounded channel, pause flag, counters | poll, decode, enqueue, take, handle, dead-letter, shut down | unsynchronised depth readings, a full queue, a signal at any moment | counters add up, order, clean drain, no lost resume |
| Result consumer and handler (`result_consumer.py`, `result_handler.py`) | a result idempotency store | claim key, write row | claim before write; results of old attempts | one write per key; no outcome that nobody produced |
| Idempotency stores (`idempotency_store.py`, `idempotency_config.py`, `redis_idempotency.go`, `in_memory_idempotency.go`) | keys with a TTL | claim, clean up | racing claims, expiry while the job is under way, lost replies and error replies of Redis, restarts | a claim succeeds once while the key lives; nobody is told True in error |
| FIFO, bounded, priority, weighted round-robin and composed schedulers (`scheduler_*.py`, `bounded_queue.py`) | a deque, a heap, or a list per tenant with a cycle pointer; a capacity | enqueue, dequeue, peek | fairness with tenants that run empty; capacity | no job lost or doubled, no tenant starves, shares follow weights, the right job first |
| Scheduler metrics and comparison scripts (`scheduler_metrics.py`, `compare_schedulers.py`, `simulate_composed_scheduler.py`) | counters in total, by tenant, by priority | record, observe, fill, drain | admission done twice, in the script and in the scheduler | totals add up, the four runs compare the same work |
| Job duration metrics (`job_metrics.py`) | none (reads the table) | percentiles, averages | rows without a wait, or with a negative one, are passed over | percentiles are those of the waits that are counted, and a wait is that of the first dispatch |
| Fault injector, gRPC service, logging, tracing, benchmarks | counters, lifecycle | | | |

How they interact. The API, ticks, scans, the result consumer and the operator
share nothing but the table; they meet only through rows and row locks. A tick
hands claimed rows to the dispatch topic after its claim has committed. The
worker's poll goroutine hands messages to the pool's channel; pool goroutines
and the poll goroutine both call the backpressure gate. The handler hands its
outcome to the result topic; the result consumer brings it back to the table.
Three idempotency stores (dispatch, execution, result) stand at the three
hand-overs and know nothing of each other: they agree only on keys of the form
(job, attempt).

`PROJECT.json` lists, under `hazards`, where in the code each difficulty sits
and which property watches it.

## Modules and the code

| Module | Models | Built on |
|---|---|---|
| `JobState` | states, terminal states, `ALLOWED_TRANSITIONS`, `can_transition` | |
| `JobRepository` | each SQL statement as what it does to one row or which rows it selects; `result_handler.py` | `JobState` |
| `JobMetrics` | `job_metrics.py`: who is counted, percentiles of the queue wait | `JobRepository` |
| `JobLifecycle` | abstract: what an observer may rely on of one job | |
| `JobStore` | the table under all its writers, with transactions, locks and time | `JobMetrics`; implements `JobLifecycle`, job by job |
| `JobStoreProofs` | theorems about `JobStore` | `JobStore`, `NumberTheorems` |
| `Pipeline` | a job's round trip: table, tick, topic, worker, topic, consumer, with faults | `JobRepository` |
| `PipelineProofs` | theorems about `Pipeline` | `Pipeline`, TLAPS |
| `ClaimStore` | abstract: what `try_claim` promises | |
| `IdempotencyStore` | the four backends with clock, expiry, clean-up, calls on their way, restarts | implements `ClaimStore` |
| `IdempotencyStoreProofs` | theorems about `IdempotencyStore` | `IdempotencyStore`, TLAPS |
| `WorkerPool` | one run of the Go consumer process | |
| `WorkerPoolProofs` | theorems about `WorkerPool` | `WorkerPool`, TLAPS |
| `WeightedCycle` | the weighted round-robin lap (gcd, cycle, pointer walk) | |
| `SchedulerPolicies` | how the five schedulers differ: admission, lanes, order | `WeightedCycle` |
| `JobBuffer` | abstract: what every scheduler promises | |
| `Schedulers` | one scheduler of any policy under any calls | `SchedulerPolicies`; implements `JobBuffer` |
| `SchedulersProofs` | theorems about `Schedulers` | `Schedulers`, `SchedulerPoliciesProofs` |
| `SchedulerComparison` | `compare_schedulers.py` and `SchedulerMetrics` | `SchedulerPolicies` |
| `SchedulerComparisonProofs` | theorems about `SchedulerComparison` | `SchedulerComparison`, `SchedulerPoliciesProofs` |
| `SchedulerPoliciesProofs` | lemmas about the lap (its length, each tenant's slots, what the walk skips), the scan for the best job, and the lanes | `SchedulerPolicies`, `NumberTheorems` |
| `NumberTheorems` | lemmas: least numbers, `Min` and `Max`, sums over finite sets | TLAPS |
| `MCJobStore`, `MCPipeline`, `MCSchedulers`, `MCSchedulerComparison` | symmetry sets, weights and workloads for TLC | the above |

**JobRepository.** A row keeps state, priority, max_retries, retry_count,
retry_after, created_at and dispatched_at; payload and tenant are carried
along unread by the code, and a job id without a row is in state `"absent"`.
`ClaimBatches` and `RequeueBatches` are `ORDER BY ... LIMIT`: every set
Postgres may return, ties broken freely.

**JobStore.** A request handler is a read step and a write step
(`CancelRead`/`CancelWrite`, `RetryRead`/`RetryWrite`,
`EnqueueRead`/`EnqueueInsert`, `MarkRead`/`MarkWrite`): it has one connection
for the request, but every repository call commits, so the read and the write
are two transactions; `SessionFails` may end it in between. The connections are
not in autocommit mode, so `NOW()` is the time at which a transaction began.
For a request's write that is some moment after its read (`BeginTimes`). A claim
or a scan is three steps: `ClaimBegin` and `RequeueBegin` begin the transaction
and fix its time, `ClaimSelect` and `RequeueSelect` run the statement, which
locks rows of the table as it is by then and passes over rows others have
locked, `ClaimCommit` and `RequeueCommit` make the update visible; `TxAbort` rolls
back (an exception or a dead process). A job inserted between the first two steps
is dispatched with a `dispatched_at` before its `created_at`; the invariants allow
that and the metrics skip such a row. Plain updates wait for row locks, so their steps need
`Unlocked`. `ResultHandled` may happen for any job a tick has ever claimed,
with any status and any number of times: this is the most a redelivering topic
and a forgetful dedupe store can do. `manual`, `queuings`, `dispatches` are
history variables: counts that properties need and no guard of the code reads
(`manual` also carries the bound `MaxManual`). `FollowsLifecycle` maps each row
and its count of dispatches to `JobLifecycle`, which says what survives of the
state machine once cancels, retries and results overwrite whatever they find:
dispatch only from the queue, back to the queue only from a scheduled retry or
the dead letters, no outcome before a run.

**JobMetrics.** `compute_job_duration_metrics` over the table of `JobStore`.
Values that fail one of its conditions (no `dispatched_at`, a negative wait) are
passed over, as in the code, so a completed job may have no wait;
`NearestRank` is the code's rounding, checked against the definition its
docstring gives.

**Pipeline.** A transaction is a single step here (JobStore looks inside
claims and scans); `cancel_job` and `retry_job` are a read and a write
(`CancelRead`/`CancelWrite`, `RetryRead`/`RetryWrite`), and `checked` holds the
requests between the two. `tick` holds rows claimed and not yet published; the topics are the set
of everything published and the set still to be delivered, so delivery may
reorder. `TickPublish` is one round of the publish loop, including the skip of
a taken key. The worker goes received → claimed → executed → idle
(`ClaimExecution`, `Execute`, `PublishResult`), the consumer claims the key and
then writes (`Consume`, `Handle`). Dispatch and result events carry `attempt`
0, because neither producer writes the field and both decoders default it. The
field `run` is history. Faults are separate actions that share the budget
`MaxFaults`: a publish that fails, a scheduler, worker or consumer that dies, a
handler error, a result that is delivered after the worker gave up on it, a
dropped or redelivered message, an expired key. The three store constants pick
the deployment: per-process memory, none, or Redis. `excused` is history: which
dispatches a fault has touched, or a taken key has suppressed, so that
`FaultsStayLocal` can demand that every other one stays under way. The end of the
scheduler inside a tick (`SchedulerCrashes`: a crash, or a `try_claim` that raises)
touches every row of the batch that is not yet published, because that is what
the code loses; the property then says that no row outside that batch is lost.

**WorkerPool.** The poll loop, the channel, the goroutines and
`maybeApplyBackpressure`. The gate is one step per shared access: read the
depth, read `paused` (`GateMayPause`, `GateMayResume`), switch
(`GateSwitch`), as the code takes no lock across them. A full queue is tried
again after the 50 ms sleep (`Enqueue`, `EnqueueAgain`) and then dropped.
Messages are offsets of one partition; `finished` is history (which of them were
dealt with, and how). The poll loop does not consult `IsPaused`, nor does the model's.

**IdempotencyStore.** The backend is chosen at the start and never changes. The
memory stores decide in one step (the Go one under a mutex, the Python one in a
single-threaded loop). A Redis call is sent, decided at the server (`RedisSet`,
external) and heard; `RedisFails` ends it before or after the decision, with an
error; `RedisRefuses` is an error reply, which go-redis returns as an error and
`RedisCliClient` takes for a duplicate, because `redis-cli` exits with 0 and
prints something other than `OK`. `ClaimStore` states this in one variable:
`candid` stores say False only of a claimed key. `Restart` is the end of the
process or of the Redis container, which has no volume. `grants` and `boot` are
history. The clock does not run backwards: `time.time()` may, and then a key
may be refused for longer than its TTL.

**WeightedCycle, SchedulerPolicies, Schedulers.** The five schedulers are one
state machine with three parameters: who is admitted (`Admission`), in which
lane a job waits (`Lane`: one per tenant, or one for everybody), and which job
of the lane goes first (`JobIndex`). A heap is a list whose least element
leaves. Policy, weights and the jobs on offer are chosen at the start, so that
one run covers them all. `wait` and `lap` are history. `BestJobIndex` is the
code's left-to-right scan, checked against the declarative "nothing better was
queued". `peek` walks the cycle in a loop of its own (`PeekTenant`, as
`_next_tenant_no_advance` does) and `dequeue` in another (`Skipped`, `NextTenant`); that
they find the same tenant is part of `RightJobLeaves`. `ImplementsBuffer` maps the lanes to the number of places that are taken
(`Places`) and, for each job, the number of places it takes: equal jobs may wait
together.

**SchedulerComparison.** Four runs one after the other: offer every job of the
workload (`Offer`), drain under a clock of one tick per dispatch (`Dispatch`),
hand over the result (`Finish`). Counters keep the code's structure; averages are
quotients of the counters and are left out. A workload is a list of jobs whose ids
differ where they are not blank, as `_build_workload` makes one: the script looks
a dispatched job up by its id.

Operators whose comment begins with "Mutant" are plausible bugs of the
definition below them: substituted for it they make the property that
`PROJECT.json` names fail. No specification uses them.

## Runs

Passing:

| Run | Configuration | What it shows |
|---|---|---|
| `job_store` | `MCJobStore` | one row, two API threads, two schedulers or scanners: `StoreInv` (the inductive invariant, types included), `DispatchedOncePerQueuing`, `RunsArePaidFor`, `BackoffRespected`, `CancelBeforeRunHolds` (a job canceled before its first dispatch never runs), `DispatchTimeKept` (`dispatched_at` is that of the first dispatch, for good), and the refinement `FollowsLifecycle` |
| `job_store_liveness` | `MCJobStoreFair` | two jobs that compete: `QueueDrains`, `TimedRetryLeaves` (aborted transactions and locks delay jobs and do not lose them), and `PercentilesNearestRank` of the metrics |
| `pipeline_redis` | `MCPipelineRedis` | with durable stores, keys that expire, a manual intervention and any two faults: `PipelineInv` (the inductive invariant, types included), `ExecutedOncePerKey`, `AppliedOncePerKey` (once per life of a key), `OutcomesBacked`, `ResultMeetsItsRun`, and `FaultsStayLocal`: a dispatch that no fault touched and no key suppressed is under way or reported (a tick that ends early touches all its unpublished rows) |
| `pipeline_default` | `MCPipelineFair` | the default deployment without faults: `NothingStranded`, `DispatchedIsReported`, `QueuedSettles` |
| `worker_pool` | `MCWorkerPool` | `PoolInv` (the inductive invariant, types included), `StatsAddUp`, `TakenInOrder`, `NoneLostAlive`, `DrainedAtStop`, `ShutdownCompletes`, `QueuedIsHandled`, `PauseIsLifted` over all interleavings of poller, goroutines, gates and signal |
| `idempotency_store` | `MCIdempotencyStore` | on each backend: `StoreInv`, `OneGrantPerLife`, the refinement `ImplementsClaims`, and `ClaimsLapse` (the Go memory store excepted, which ignores its TTL and says so) |
| `schedulers` | `MCSchedulers` | for each policy: `SchedulersInv` (the inductive invariant, types and capacity included), `RightJobLeaves`, the refinement `ImplementsBuffer`; for the weighted ones `NoTenantStarves`, `SharesFollowWeights` |
| `scheduler_comparison` | `MCSchedulerComparison` | `MetricsAddUp` (types included), `SameWork`, `TenantsUnaffected`, `UrgentWaitLeast` for the script's workload and every short one |

`ResultMeetsItsRun` holds in `pipeline_redis` because there a job's result key
is written once in each life of the key; with the memory store of the default
deployment, or after an expiry, a redelivered result can decide a later attempt
and be charged to the retry budget again.

Four runs are expected to end in a counterexample; they are listed under
[Findings](#findings).

## Bounds

- `JobStore`: rows meet only in the batches of ticks and scans, so `job_store`
  looks at one row with everyone who may write it: two callers, for two requests
  to race on it, and two runners, for a lock to be skipped. Retry budgets 0 and
  1 reach the boundary of the budget on both sides. `MaxTime` lets a back-off
  run out (`RETRY_DELAY` is one tick) and a transaction begin at an earlier time
  than the insert of a row it claims; a failure at the last tick can still
  dead-letter a job, and only a further retry is cut off. `MaxManual` bounds API
  retries and operator requeues. The liveness run has two jobs: one caller, one
  runner, two urgencies, a limit of one job per tick (so that they compete) and
  of two per scan (so that they share a batch), and no manual intervention (a
  job retried through the API waits for ever, see `api_retry`). The theorems
  hold for every value of all of these.
- `Pipeline`: two jobs share a tick and two workers share the topic. Two faults
  are an expiry and a redelivery, or a crash and a redelivery: the shortest
  ways to a second execution or a second write. Retry budgets 0 and 1 give a
  job that is dead-lettered at once and one that is retried first.
- `WorkerPool`: a queue of two has its high watermark (80 % → 2) and its low
  one (50 % → 1) at different depths; two messages fill the queue and the third
  finds it full, twice. Offsets are the only
  unbounded data, and `LastOffset` is the only bound.
- `IdempotencyStore`: two clients race for one key; TTLs of 1 and 2 in four ticks
  let a key be granted, expire and be granted again, with a longer or a shorter
  claim; one restart. Claims for different keys touch different entries only,
  and the theorems cover any number of them.
- `Schedulers`: job ids, priorities and times of two values make every tie and
  every strict order of the ranking, blank ids and unknown tenants included;
  capacity (or `MaxSize`, where there is none) three is reached, and lets all
  three tenants be busy. The weights have common divisors and none, also such
  that two share one that the third does not.
- `SchedulerComparison`: the script's workload at its own capacity, weights and
  others, and every list of three and of four jobs over two tenants and two
  priorities, invalid ones included, for schedulers that hold one job less.

Symmetry is used in the safety runs of `JobStore` and `Pipeline` only, on
interchangeable jobs, callers, scheduler processes and workers.

Deadlock checking is off where the real system comes to rest: all jobs
finished, the clock at its bound, the process stopped. The schedulers
never stop accepting calls, and are checked for deadlock.

## Fairness

- `JobStore!Fairness`: time passes (`WF`), and ticks and scans are run again and
  again and do not abort for ever (`SF` on their begin, select and commit steps). They
  are scripts for a loop or cron; a run that fails is followed by another.
  Strong fairness is needed because a runner may be busy with the other kind of
  transaction whenever it is looked at, and because any commit may be preempted
  by an abort. Nothing is assumed of API clients, operators or results.
- `Pipeline!Fairness`: scans, ticks, the publish loop, worker goroutines and the
  result consumer take enabled steps (`WF`). No fault, client or operator is
  fair.
- `WorkerPool!Fairness`: each goroutine takes its next step unless it is blocked
  on the channel (`WF`). Poll, the sleep and the producers' flush have time
  limits in the code; that the handler returns is an assumption (its executor
  is given a context and the pool waits for it without limit). The signal is not
  fair.
- `IdempotencyStore!FairSpec`: the clock goes on (`WF(Tick)`), nothing else; callers
  may die in the middle of a call.

## Proofs

`JobStoreProofs` proves, for every set of jobs, callers and runners and every
value of the limits and delays:

| Theorem | States |
|---|---|
| `StoreInvariant` | `Spec => []StoreInv` |
| `DispatchExclusive` | `Spec => []DispatchedOncePerQueuing` |
| `RunsBounded` | `Spec => []RunsArePaidFor` |
| `BackoffKept` | `Spec => []BackoffRespected` |
| `CancelStands` | `Spec => CancelBeforeRunHolds` |
| `RowsFollowLifecycle` | `Spec => FollowsLifecycle`: every row implements `JobLifecycle` |
| `FirstDispatchTime` | `Spec => DispatchTimeKept` |
| `PercentilesRight` | `Spec => []PercentilesNearestRank`, for finitely many jobs |

Assumptions: NULL is not a number (`NullAssumption`); priorities, retry budgets
and the delay are natural numbers (`EnqueueAssumption`,
`RetryDelayAssumption`, which the request model of `api.py` enforces); the batch
limits are positive (`LimitAssumption`); the bounds are numbers
(`BoundAssumption`). TLC evaluates each of them in the runs.

The argument. None of the safety properties is inductive alone, because a claim
takes effect a step after it looked at the row, and carries a time from before it looked. `StoreInv` adds

- `LockInv`: the rows of an open transaction are still as it selected them
  (queued for a claim, due for a scan), transactions of different runners are
  disjoint, and a transaction's time stamp is not in the future. Nothing relates
  the time stamp to the `created_at` of the rows. This is what
  `FOR UPDATE SKIP LOCKED` buys, and every plain write preserves it because it
  waits for the lock;
- `RowInv`: per row, dispatches ≤ queuings, strictly while queued; queuings are
  at most one plus retries plus manual interventions, with one in hand while
  the row is `retry_scheduled`; the back-off of a queued or dispatched row is
  over; `dispatched_at` is null exactly before the first dispatch; a completed
  row has been dispatched. The three
  counting conjuncts only hold together: each of the paths that put a job back
  pays with a different counter;
- `SessionInv`: a request that has read its row still has a row to write, and one that
  will retry it a job that has run;
- `PublishedInv`: results exist only for jobs that were dispatched.

Lemmas say, statement by statement, that the row operators keep `RowInv` and
the record type; the step theorem has one case per action, and cites them.
`CancelBeforeRunHolds` follows from `LockInv` at the steps that commit (a locked row is
queued or due, hence not canceled), from `SessionInv` for a half-done retry, whose job
has run, and from `PublishedInv` for results; `DispatchTimeKept` from the conjunct of
`RowInv` that ties `dispatched_at` to the first dispatch. `LockInv` also gives the
`Dispatch` and `PutBack` steps of the lifecycle; `PublishedInv` gives its
`Report` steps the run they need, `SessionInv` its `CancelOrRetry` steps the row.

`IdempotencyStoreProofs` proves, for every set of clients, keys and positive
TTLs (`TTLAssumption`) and two markers that are not moments (`EntryAssumption`):

| Theorem | States |
|---|---|
| `StoreInvariant` | `Spec => []StoreInv` |
| `GrantsApart` | `Spec => []OneGrantPerLife` |
| `BackendsImplementClaims` | `Spec => ImplementsClaims`: the refinement of `ClaimStore` |

The invariant behind them is `GrantsStand`: a grant of the current life is
either over or still the entry of its key. With it a key that is not live has no
unfinished grant, which is what a new grant needs; and the set of live keys only
shrinks in steps that decide nothing (time, clean-up, restart), which are the
`Lapse` steps of `ClaimStore`.

`PipelineProofs` proves, for every set of jobs, every finite set of workers
(`WorkersAssumption`), every choice of the three stores (`StoreAssumption`) and
every bound on faults, time and interventions (`BoundAssumption`):

| Theorem | States |
|---|---|
| `PipelineInvariant` | `Spec => []PipelineInv` |
| `ExecutionsOnce` | `Spec => []ExecutedOncePerKey` |
| `ResultsOnce` | `Spec => []AppliedOncePerKey` |
| `OutcomesAreBacked` | `Spec => []OutcomesBacked` |
| `FaultsAreLocal` | `Spec => []FaultsStayLocal` |
| `NoneStranded` | in the default deployment, `Spec => []NothingStranded` |
| `ResultsMeetTheirRun` | with the Redis result store, `Spec => ResultMeetsItsRun` |

The last two have a hypothesis on the deployment because they fail in others:
`operator_requeue` is the counterexample to the first, and a redelivered result
after a restart of a memory store one to the second. The number of faults is
not limited: the theorems hold for every `MaxFaults`.

The argument. "Once per key" is about a claim and an act that are two steps
apart, with crashes, redelivery and expiry in between. `PipelineInv` adds what
holds in between:

- `ClaimsCounted`: executions of a key plus workers that have claimed it and not
  executed yet are at most the lives the key has had; the same for results. A
  crash between the two steps only loses a unit, and an expiry adds a life, so
  that the inequality is kept where an equality would not be;
- `EventsBacked`: whatever is in a topic or in somebody's hands goes back to a
  dispatch of its job, and a result says what an executor reported. `Redeliver`
  and late publishes are harmless for it because topics are subsets of their logs;
- `RowsInBudget`, `ChargesBacked`: every unit of `retry_count` stands for a result
  that was written and a failure that was reported; without faults for one failure
  each, counting those still to be published, consumed or written;
- `FirstRun`: until its first result is written, a job has been dispatched at most
  once and no request to retry it is under way, hence `KeysBacked`: the dispatch key of a first run is free when it is
  published. This is why a taken dispatch key can only suppress a retry;
- `FirstClaimsKept`: the execution or result key of a first run was not claimed in
  vain unless a fault struck. Without it `FaultsStayLocal` is not inductive: a worker
  that skips a duplicate would seem to drop the only copy;
- `NoneSuppressed`: in the default deployment nothing is excused without a fault,
  which turns `FaultsStayLocal` into `NothingStranded`.

`WorkerPoolProofs` proves, for every finite set of workers (`WorkersAssumption`,
`PollerAssumption`), every capacity and pair of watermark ratios
(`CapacityAssumption`, `RatioAssumption`) and every length of the partition:

| Theorem | States |
|---|---|
| `PoolInvariant` | `Spec => []PoolInv` |
| `HandledInOrder` | `Spec => []TakenInOrder` |
| `NoneLost` | `Spec => []NoneLostAlive` |
| `SummaryAddsUp` | `Spec => []StatsAddUp` |
| `StopsDrained` | `Spec => []DrainedAtStop` |

`PoolInv` says who has a message in his hands in which step, that the offset Poll
will give next is above all that are queued or in hand, that the channel is closed
between the deferred `Shutdown` and the end only, that a worker leaves only a
closed and empty channel, and that nothing is polled after a message was thrown
away. `StatsAddUp` is inductive relative to it; each goroutine in the middle of a
message counts once, so the proof follows the cardinalities of the sets `Working`
and `DeadLettering`. `DrainedAtStop` then follows without another induction: all
workers have exited, so all the terms for work in progress are zero.

`SchedulersProofs` proves, for every list of distinct tenants (`TenantAssumption`),
every capacity (`CapacityAssumption`), all positive weights and all jobs whose ids,
priorities and times are numbers (`SetupAssumption`; the constructors refuse other
weights and capacities):

| Theorem | States |
|---|---|
| `SchedulersInvariant` | `Spec => []SchedulersInv` |
| `NoneStarve` | `Spec => []NoTenantStarves` |
| `SharesKept` | `Spec => []SharesFollowWeights` |
| `RightJobTaken` | `Spec => RightJobLeaves` |
| `PoliciesAreBuffers` | `Spec => ImplementsBuffer`: every policy implements `JobBuffer` |

`SchedulersInv` adds to the types

- `JobsInLane`: a job waits in the lane of its tenant, which has slots in the cycle.
  This is why the pointer always finds a job when the scheduler is not empty;
- `WaitsInTurn`: the dequeues a tenant has waited and the slots that still lie before
  its next one are together at most the slots of the others. `NoTenantStarves`
  alone is not inductive: it forgets where the pointer stands;
- `LapsCounted`: in a lap without gaps, a tenant was served once for each of its
  slots that the pointer has passed; a completed lap therefore served each tenant
  its weight divided by the common divisor.

The step of the two fairness parts rests on `SchedulerPoliciesProofs`: the cycle is one
block of weight / gcd slots per tenant, its length times the gcd is the total weight
(`CycleFacts`), the two walks of peek and dequeue find the same tenant
(`WalksAgree`), a walk that passes a waiting tenant over ends before that tenant's
next slot (`WalkBringsCloser`), and a dequeue keeps the count of a lap
(`LapKept`). What recursive functions compute (the joined cycle, the total of the
weights, the scan of `_best_job_index`) is proved without an induction theorem: the
set of lengths for which the claim fails would have a least member (`LeastNat`), and
the step to it is refuted. Counting in the refinement is a bijection: when a job
leaves, the places behind it move up by one (`RemoveCounts`).

`SchedulerComparisonProofs` proves, for all tenants, weights and capacities and every
workload of jobs with integer priorities and creation times whose ids differ where
they are not blank (`ComparisonAssumption`):

| Theorem | States |
|---|---|
| `CountersAddUp` | `Spec => []MetricsAddUp` |
| `PoliciesDoSameWork` | `Spec => []SameWork` |
| `PrioritiesStayInside` | `Spec => []TenantsUnaffected` |
| `PriorityServesUrgent` | `Spec => []UrgentWaitLeast` |

The last three compare runs that are over, so an invariant has to say of each run alone
what it will have in common with the others. `ComparisonInv` relates a run's metrics to
the set of jobs it has dispatched (`Tallied`) and to what depends on the setup only:

- `Accepted`: the first valid jobs, up to the capacity. All offers come before the first
  dispatch, so neither the policy nor the drain decides who is accepted;
- `WaitsAddUp`: waits plus creation times are the clock readings 0, 1, ..., whatever the
  order, hence the same total in all four runs;
- `UrgentWaitAtLeast`: the n jobs of a priority or a higher one cannot leave before the
  first n ticks. Under the priority scheduler they leave exactly then
  (`UrgentWaitExactly`), because no job has left before a more urgent one
  (`UrgentFirst`);
- `InTurn`: in the two per-tenant runs the pointer, how often each tenant was served and
  when are given by `Turns`, a function of the weights and of the number of accepted
  jobs of each tenant: the walk only looks at which lanes are empty (`SameWalk`).

Beside the tally it says that only accepted jobs wait, each in one place (`Held`), that
the id a dispatched job is looked up by leads back to it (`Found`), and that jobs are
waiting or dispatched (`DepthKept`). `Ended` keeps the tally of each finished run. TLC
checked `ComparisonInv`, with `Turns` computed by recursion, on the script's workload
and on lists of three jobs before it was proved.

`PercentilesRight`: the rank is between 1 and the number of waits without the clamping
of `_percentile_nearest_rank` (`RankIs`), so the longest wait qualifies, and of the least
wait that so many do not exceed, fewer are below (`RankedWait`). Sums and minima are the
community modules' folds; `NumberTheorems` says what they are over finite sets, by the
least counterexample again.

Proving `SchedulerComparison` changed it in two places. `HarnessAdmission` was a `CASE`
whose guards overlap for an invalid job offered to a full scheduler; TLC takes the
first, the logic takes any. It is now a chain of `IF`s, as in the code. Entries are
added to a dict by `WithEntry`, since the prover does not know the operators of
module TLC.

Only model-checked, and why:

- liveness (`QueueDrains`, `TimedRetryLeaves`, `DispatchedIsReported`, `QueuedSettles`,
  `ShutdownCompletes`, `QueuedIsHandled`, `PauseIsLifted`, `ClaimsLapse`): fairness
  is outside the prover's reach.

Every other property of a passing run, safety, action property or refinement, is also a
theorem.

## Findings

Each is a run whose configuration is the smallest instance that shows it.

| Run | Property | What the code does |
|---|---|---|
| `retry_attempt` | `DispatchedIsReported` | events carry no attempt, so with the execution store on a retry is skipped as a duplicate of attempt 0 and the job stays dispatched |
| `terminal_states` | `TerminalStatesFinal` | a result that arrives after a cancel overwrites `canceled`; the updates in `job_repository.py` name the job only |
| `operator_requeue` | `NothingStranded` | a requeued dead-lettered job keeps its retry_count, hence its dispatch key; a runner that still holds the key marks it dispatched and publishes nothing |
| `api_retry` | `RetryScheduledLeaves` | `POST /retry` leaves retry_after NULL, which the scanner never selects |

`PROJECT.json` quotes the document, comment or docstring that says otherwise.
Noticed, without a run:

- `cancel_job` checks the state in one transaction and writes in another
  (`CancelRead`, `CancelWrite`); a tick in between makes it cancel a dispatched
  job, which `can_transition` forbids. `terminal_states` shows the consequence.
- After its key has expired a redelivered failure is charged to the retry budget
  again: `OutcomesBacked` has to count expiries. `redis-idempotency-deduplication.md`
  expects Postgres state checks to stand behind the key; the updates have none.
- `architecture.md` lists DISPATCHED among the states that can be canceled, and
  `ALLOWED_TRANSITIONS` does not.
- A paused worker keeps polling (the documents say that the pause is in memory
  only).
- `RedisCliClient.set` answers False for an error reply of the server, so a job can
  be skipped as a duplicate while nobody holds its key (`RedisRefuses`); the
  class comment says "False otherwise (e.g. duplicate NX)".
- Offsets are committed by the client's timer while messages sit in the pool's
  queue, so a kill loses them; `resilience-testing.md` says of a kill before
  Handle that the offset is not committed.
- `try_claim` in `run_once` stands outside the `try`: a store that raises ends the
  tick, and the later rows of its batch stay dispatched (`SchedulerCrashes`).
- The gap between claim and publish is known to the docstring of `run_once`.

## Not modelled

- Kafka, Postgres and Redis themselves: modelled by what the code relies on.
- `delete_job` (used by tests), reports and read-only endpoints.
- Encodings and validation, beyond the defaults for missing fields.
- Averages and completion times of the duration metrics; printed reports.
- Logging, tracing and the Prometheus export, which read or format state; smoke
  tests, benchmarks and load generators, which drive the components above along
  one path or measure wall-clock time.
- When Kafka offsets are committed (the client library decides); a message may be
  redelivered or lost instead, as faults of `Pipeline`.
- The gRPC entry point, a second way to the same handler, and the fault
  injector's configuration: its effects are the errors of `HandlerError`.

## Plan

1. `JobState`, `JobRepository`, `JobStore` with safety, liveness and proofs; `Pipeline`;
   `WorkerPool`: done.
2. `IdempotencyStore` as an implementation of one abstract claim, `JobLifecycle` and
   the table as its implementation, both proved; all in-memory schedulers as
   implementations of one buffer, their comparison and metrics: done.
3. Proofs of the safety properties of `Pipeline`, `WorkerPool`, `Schedulers` and
   `SchedulerComparison`: done.
4. The gRPC service's lifecycle and its share of the execution store; the fault
   injector's counters.
