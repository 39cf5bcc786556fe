------------------------------ MODULE Pipeline ------------------------------
(***************************************************************************)
(* A job's way through KernelQ: Postgres row, scheduler tick, dispatch     *)
(* topic, Go worker, result topic, result consumer, Postgres row.  The two *)
(* topics deliver at least once; three idempotency stores (dispatch,       *)
(* execution, result) are to make the effects happen once.                 *)
(*                                                                         *)
(* JobStore looks at row locks and time; here every SQL statement is one   *)
(* step, a back-off may run out at any moment, and messages, processes and *)
(* store keys come to the fore.  Faults (crashes, failed calls, lost or    *)
(* redelivered messages, expired keys) share one budget.                   *)
(***************************************************************************)
EXTENDS JobRepository

CONSTANTS
    Jobs,             \* job ids
    Workers,          \* goroutines that run DispatchEventHandler.Handle
    DispatchStore,    \* "per_tick": run_scheduler_tick_once.py, a runner per process;
                      \* "shared": one runner in a loop, or an injected Redis store
    ExecutionStore,   \* KERNELQ_WORKER_IDEMPOTENCY_BACKEND: "disabled" or "redis"
    ResultStore,      \* KERNELQ_IDEMPOTENCY_BACKEND: "memory" or "redis"
    TickLimit,        \* max_jobs_per_tick
    KeysExpire,       \* whether store keys may reach their TTL
    MaxManual,        \* bound: API retries plus operator requeues
    MaxFaults         \* bound: faults in one behaviour

ASSUME StoreAssumption ==
    /\ DispatchStore \in {"per_tick", "shared"}
    /\ ExecutionStore \in {"disabled", "redis"}
    /\ ResultStore \in {"memory", "redis"}
    /\ KeysExpire \in BOOLEAN
(* WorkerCount is a number.                                                *)
ASSUME WorkersAssumption == IsFiniteSet(Workers)
ASSUME BoundAssumption ==
    TickLimit \in Nat \ {0} /\ MaxManual \in Nat /\ MaxFaults \in Nat

VARIABLES
    jobs,           \* the Postgres table
    checked,        \* <<job, state>>: requests that have passed their check
    tick,           \* claimed rows the running tick has still to publish
    dispatchKeys,   \* claimed dispatch_key(job_id, retry_count)
    dispatchLog,    \* every event published to kernelq.jobs.dispatch
    dispatchQueue,  \* those the worker group has still to be given
    worker,         \* what each worker goroutine is doing
    executionKeys,  \* claimed execution_key(job_id, attempt)
    dlq,            \* dispatch events published to kernelq.jobs.dlq
    resultLog,      \* every event published to kernelq.jobs.results
    resultQueue,    \* those the result consumer has still to be given
    consumer,       \* what the result consumer is doing
    resultKeys,     \* claimed worker_result_key(job_id, attempt)
    manual,         \* manual interventions so far
    faults,         \* faults so far
    runs,           \* history: dispatches of each job
    executions,     \* history: executor calls for each execution key
    failures,       \* history: retryable failures executors reported for each job
    reported,       \* history: statuses executors reported for each job
    applied,        \* history: how often each result key reached the table
    expiries,       \* history: expired keys of the execution and result store
    excused         \* history: <<job, run>> a fault hit, or a claimed key suppressed

tableVars == <<jobs, checked, manual, runs>>
schedulerVars == <<tick, dispatchKeys>>
dispatchVars == <<dispatchLog, dispatchQueue>>
workerVars == <<worker, executionKeys, dlq, executions, failures, reported>>
resultVars == <<resultLog, resultQueue>>
consumerVars == <<consumer, resultKeys, applied>>
vars == <<tableVars, schedulerVars, dispatchVars, workerVars, resultVars,
          consumerVars, faults, expiries, excused>>

(* Attempt numbers are retry_counts.  The run of an event is history: the  *)
(* serial number of the dispatch it stems from.                            *)
Attempts == UNION {0 .. m : m \in RetryBudgets \cup {0}}
Keys == Jobs \X Attempts
ExpiringKeys == {"execution", "result"} \X Keys
Claims == [job : Jobs, retry_count : Attempts, run : Nat]
DispatchEvents == [job : Jobs, attempt : Attempts, run : Nat]
ResultEvents == [job : Jobs, attempt : Attempts, run : Nat, status : ResultStatuses]
IdleWorker == [pc |-> "idle"]
WorkerStates ==
    {IdleWorker} \cup [pc : {"received", "claimed"}, event : DispatchEvents]
                 \cup [pc : {"executed"}, event : DispatchEvents, status : ResultStatuses]
IdleConsumer == [pc |-> "idle"]
ConsumerStates == {IdleConsumer} \cup [pc : {"claimed"}, event : ResultEvents]

TypeOK ==
    /\ jobs \in [Jobs -> JobRecord]
    /\ checked \subseteq Jobs \X {"canceled", "retry_scheduled"}
    /\ tick \subseteq Claims
    /\ dispatchKeys \subseteq Keys
    /\ dispatchLog \subseteq DispatchEvents
    /\ dispatchQueue \subseteq dispatchLog
    /\ worker \in [Workers -> WorkerStates]
    /\ executionKeys \subseteq Keys
    /\ dlq \subseteq dispatchLog
    /\ resultLog \subseteq ResultEvents
    /\ resultQueue \subseteq resultLog
    /\ consumer \in ConsumerStates
    /\ resultKeys \subseteq Keys
    /\ manual \in Nat
    /\ faults \in Nat
    /\ runs \in [Jobs -> Nat]
    /\ executions \in [Keys -> Nat]
    /\ failures \in [Jobs -> Nat]
    /\ reported \subseteq Jobs \X ResultStatuses
    /\ applied \in [Keys -> Nat]
    /\ expiries \in [ExpiringKeys -> Nat]
    /\ excused \subseteq Jobs \X Nat

Init ==
    /\ jobs = [j \in Jobs |-> AbsentRow]
    /\ checked = {}
    /\ tick = {}
    /\ dispatchKeys = {}
    /\ dispatchLog = {} /\ dispatchQueue = {}
    /\ worker = [w \in Workers |-> IdleWorker]
    /\ executionKeys = {}
    /\ dlq = {}
    /\ resultLog = {} /\ resultQueue = {}
    /\ consumer = IdleConsumer
    /\ resultKeys = {}
    /\ manual = 0
    /\ faults = 0
    /\ runs = [j \in Jobs |-> 0]
    /\ executions = [k \in Keys |-> 0]
    /\ failures = [j \in Jobs |-> 0]
    /\ reported = {}
    /\ applied = [k \in Keys |-> 0]
    /\ expiries = [x \in ExpiringKeys |-> 0]
    /\ excused = {}

(***************************************************************************)
(* API, retry scanner and operator: statements on the table.               *)
(***************************************************************************)
Enqueue(j, max_retries) ==
    /\ jobs[j].state = "absent"
    /\ \E p \in Priorities : jobs' = [jobs EXCEPT ![j] = CreateJob(p, max_retries, 0)]
    /\ UNCHANGED <<checked, manual, runs, schedulerVars, dispatchVars, workerVars,
                   resultVars, consumerVars, faults, expiries, excused>>

(* cancel_job and retry_job: get_job and the check of the transition are    *)
(* one transaction, update_job_state is another.                           *)
RequestRead(j, state) ==
    /\ <<j, state>> \notin checked
    /\ jobs[j].state \in JobStates
    /\ CanTransition(jobs[j].state, state)
    /\ checked' = checked \cup {<<j, state>>}
    /\ UNCHANGED <<jobs, runs, schedulerVars, dispatchVars, workerVars,
                   resultVars, consumerVars, faults, expiries, excused>>

RequestWrite(j, state) ==
    /\ <<j, state>> \in checked
    /\ checked' = checked \ {<<j, state>>}
    /\ jobs' = [jobs EXCEPT ![j] = UpdateJobState(@, state)]
    /\ UNCHANGED <<manual, runs, schedulerVars, dispatchVars, workerVars,
                   resultVars, consumerVars, faults, expiries, excused>>

CancelRead(j) == RequestRead(j, "canceled") /\ UNCHANGED manual

CancelWrite(j) == RequestWrite(j, "canceled")

RetryRead(j) ==
    /\ manual < MaxManual
    /\ manual' = manual + 1
    /\ RequestRead(j, "retry_scheduled")

RetryWrite(j) == RequestWrite(j, "retry_scheduled")

OperatorRequeue(j) ==
    /\ manual < MaxManual
    /\ jobs[j].state = "dead_lettered"
    /\ manual' = manual + 1
    /\ jobs' = [jobs EXCEPT ![j] = RequeueDeadLettered(@)]
    /\ UNCHANGED <<checked, runs, schedulerVars, dispatchVars, workerVars,
                   resultVars, consumerVars, faults, expiries, excused>>

(* requeue_due_retries, at the moment the back-off of j has run out; a     *)
(* retry_after of NULL never does.                                         *)
ScanRequeue(j) ==
    /\ jobs[j].retry_after # NULL
    /\ RetryDue(jobs[j], jobs[j].retry_after)
    /\ jobs' = [jobs EXCEPT ![j] = RequeueRetry(@)]
    /\ UNCHANGED <<checked, manual, runs, schedulerVars, dispatchVars, workerVars,
                   resultVars, consumerVars, faults, expiries, excused>>

(***************************************************************************)
(* SchedulerTickRunner.run_once.                                           *)
(***************************************************************************)
TickClaim ==
    /\ tick = {}
    /\ \E B \in ClaimBatches(jobs, {j \in Jobs : Schedulable(jobs[j])}, TickLimit) :
         /\ B # {}
         /\ jobs' = [j \in Jobs |-> IF j \in B THEN DispatchRow(jobs[j], 0) ELSE jobs[j]]
         /\ runs' = [j \in Jobs |-> IF j \in B THEN runs[j] + 1 ELSE runs[j]]
         /\ tick' = {[job |-> j, retry_count |-> jobs[j].retry_count, run |-> runs[j] + 1] :
                     j \in B}
    /\ dispatchKeys' = IF DispatchStore = "per_tick" THEN {} ELSE dispatchKeys
    /\ UNCHANGED <<checked, manual, dispatchVars, workerVars, resultVars,
                   consumerVars, faults, expiries, excused>>

DispatchKey(claim) == <<claim.job, claim.retry_count>>

(* History: a key that an earlier run of the job has left behind makes     *)
(* event x be skipped.  The first run has none before it.                  *)
Suppressed(x) ==
    excused' = IF x.run > 1 THEN excused \cup {<<x.job, x.run>>} ELSE excused

(* DispatchEvent has no attempt field, and the worker decodes a missing    *)
(* one as 0.                                                               *)
DispatchEvent(claim) == [job |-> claim.job, attempt |-> 0, run |-> claim.run]

(* Mutant: break instead of continue after the first publish.               *)
TickPublishOnlyFirst(claim) ==
    /\ claim \in tick
    /\ tick' = {}
    /\ dispatchKeys' = dispatchKeys \cup {DispatchKey(claim)}
    /\ dispatchLog' = dispatchLog \cup {DispatchEvent(claim)}
    /\ dispatchQueue' = dispatchQueue \cup {DispatchEvent(claim)}
    /\ UNCHANGED <<tableVars, workerVars, resultVars, consumerVars, faults, expiries,
                   excused>>

(* One round of the publish loop; a key that is taken skips the publish    *)
(* and leaves the row dispatched.                                          *)
TickPublish(claim) ==
    /\ claim \in tick
    /\ tick' = tick \ {claim}
    /\ IF DispatchKey(claim) \in dispatchKeys
       THEN Suppressed(claim) /\ UNCHANGED <<dispatchKeys, dispatchVars>>
       ELSE /\ dispatchKeys' = dispatchKeys \cup {DispatchKey(claim)}
            /\ dispatchLog' = dispatchLog \cup {DispatchEvent(claim)}
            /\ dispatchQueue' = dispatchQueue \cup {DispatchEvent(claim)}
            /\ UNCHANGED excused
    /\ UNCHANGED <<tableVars, workerVars, resultVars, consumerVars, faults, expiries>>

(***************************************************************************)
(* DispatchEventHandler.Handle, on one worker goroutine.                   *)
(***************************************************************************)
Receive(w, e) ==
    /\ worker[w] = IdleWorker
    /\ e \in dispatchQueue
    /\ dispatchQueue' = dispatchQueue \ {e}
    /\ worker' = [worker EXCEPT ![w] = [pc |-> "received", event |-> e]]
    /\ UNCHANGED <<tableVars, schedulerVars, dispatchLog, executionKeys, dlq, executions,
                   failures, reported, resultVars, consumerVars, faults, expiries, excused>>

ExecutionKey(e) == <<e.job, e.attempt>>

(* The backend "disabled" is a nil store: every claim is granted and none   *)
(* is kept.                                                                *)
LiveExecutionKeys == IF ExecutionStore = "redis" THEN executionKeys ELSE {}

(* SET NX EX of a key that is not there.                                   *)
SetExecutionKey(k) ==
    executionKeys' = IF ExecutionStore = "redis" THEN executionKeys \cup {k} ELSE {}

(* Mutant: the claim is looked up and not stored.                           *)
ClaimExecutionUnstored(w) ==
    /\ worker[w].pc = "received"
    /\ worker' = [worker EXCEPT ![w] = [pc |-> "claimed", event |-> worker[w].event]]
    /\ UNCHANGED <<tableVars, schedulerVars, dispatchVars, executionKeys, dlq, executions,
                   failures, reported, resultVars, consumerVars, faults, expiries, excused>>

(* A taken key ends the handler with duplicate_skipped: no execution, no   *)
(* result, no dead letter.                                                 *)
ClaimExecution(w) ==
    /\ worker[w].pc = "received"
    /\ LET e == worker[w].event IN
         IF ExecutionKey(e) \in LiveExecutionKeys
         THEN /\ worker' = [worker EXCEPT ![w] = IdleWorker]
              /\ Suppressed(e)
              /\ UNCHANGED executionKeys
         ELSE /\ worker' = [worker EXCEPT ![w] = [pc |-> "claimed", event |-> e]]
              /\ SetExecutionKey(ExecutionKey(e))
              /\ UNCHANGED excused
    /\ UNCHANGED <<tableVars, schedulerVars, dispatchVars, dlq, executions, failures,
                   reported, resultVars, consumerVars, faults, expiries>>

Execute(w, status) ==
    /\ worker[w].pc = "claimed"
    /\ LET e == worker[w].event IN
         /\ worker' = [worker EXCEPT ![w] =
                          [pc |-> "executed", event |-> e, status |-> status]]
         /\ executions' = [executions EXCEPT ![ExecutionKey(e)] = @ + 1]
         /\ failures' = IF status = "retryable_failure"
                        THEN [failures EXCEPT ![e.job] = @ + 1] ELSE failures
         /\ reported' = reported \cup {<<e.job, status>>}
    /\ UNCHANGED <<tableVars, schedulerVars, dispatchVars, executionKeys, dlq,
                   resultVars, consumerVars, faults, expiries, excused>>

(* WorkerResultEvent has no attempt field, and parse_worker_result_event   *)
(* reads a missing one as 0.                                               *)
WorkerResultEvent(e, status) ==
    [job |-> e.job, attempt |-> 0, run |-> e.run, status |-> status]

Publish(event) ==
    /\ resultLog' = resultLog \cup {event}
    /\ resultQueue' = resultQueue \cup {event}

(* Mutant: only final outcomes are published.                               *)
PublishFinalResult(w) ==
    /\ worker[w].pc = "executed"
    /\ IF worker[w].status = "retryable_failure"
       THEN UNCHANGED resultVars
       ELSE Publish(WorkerResultEvent(worker[w].event, worker[w].status))
    /\ worker' = [worker EXCEPT ![w] = IdleWorker]
    /\ UNCHANGED <<tableVars, schedulerVars, dispatchVars, executionKeys, dlq, executions,
                   failures, reported, consumerVars, faults, expiries, excused>>

PublishResult(w) ==
    /\ worker[w].pc = "executed"
    /\ Publish(WorkerResultEvent(worker[w].event, worker[w].status))
    /\ worker' = [worker EXCEPT ![w] = IdleWorker]
    /\ UNCHANGED <<tableVars, schedulerVars, dispatchVars, executionKeys, dlq, executions,
                   failures, reported, consumerVars, faults, expiries, excused>>

(***************************************************************************)
(* ResultConsumerRunner.process_message: the key is claimed first, then    *)
(* the handler writes.                                                     *)
(***************************************************************************)
WorkerResultKey(event) == <<event.job, event.attempt>>

(* consume_result_once.py handles one message per process, and a memory    *)
(* store lives as long as its process.                                     *)
LiveResultKeys == IF ResultStore = "memory" THEN {} ELSE resultKeys

(* Mutant: no result is ever a duplicate.                                   *)
ConsumeAlways(event) ==
    /\ consumer = IdleConsumer
    /\ event \in resultQueue
    /\ resultQueue' = resultQueue \ {event}
    /\ consumer' = [pc |-> "claimed", event |-> event]
    /\ UNCHANGED <<tableVars, schedulerVars, dispatchVars, workerVars, resultLog,
                   resultKeys, applied, faults, expiries, excused>>

(* Mutant: a retryable failure is not final, so its key is not claimed.     *)
ConsumeClaimsFinal(event) ==
    /\ consumer = IdleConsumer
    /\ event \in resultQueue
    /\ WorkerResultKey(event) \notin LiveResultKeys
    /\ resultQueue' = resultQueue \ {event}
    /\ resultKeys' = IF event.status = "retryable_failure" THEN LiveResultKeys
                     ELSE LiveResultKeys \cup {WorkerResultKey(event)}
    /\ consumer' = [pc |-> "claimed", event |-> event]
    /\ UNCHANGED <<tableVars, schedulerVars, dispatchVars, workerVars, resultLog,
                   applied, faults, expiries, excused>>

Consume(event) ==
    /\ consumer = IdleConsumer
    /\ event \in resultQueue
    /\ resultQueue' = resultQueue \ {event}
    /\ IF WorkerResultKey(event) \in LiveResultKeys
       THEN Suppressed(event) /\ UNCHANGED <<consumer, resultKeys>>
       ELSE /\ resultKeys' = LiveResultKeys \cup {WorkerResultKey(event)}
            /\ consumer' = [pc |-> "claimed", event |-> event]
            /\ UNCHANGED excused
    /\ UNCHANGED <<tableVars, schedulerVars, dispatchVars, workerVars, resultLog,
                   applied, faults, expiries>>

Handle ==
    /\ consumer.pc = "claimed"
    /\ LET event == consumer.event IN
         /\ jobs' = [jobs EXCEPT ![event.job] = HandleResult(@, event.status, 0)]
         /\ applied' = [applied EXCEPT ![WorkerResultKey(event)] = @ + 1]
    /\ consumer' = IdleConsumer
    /\ UNCHANGED <<checked, manual, runs, schedulerVars, dispatchVars, workerVars,
                   resultVars, resultKeys, faults, expiries, excused>>

(***************************************************************************)
(* Faults.                                                                 *)
(***************************************************************************)
Fault ==
    /\ faults < MaxFaults
    /\ faults' = faults + 1

(* History: the fault hits the runs these claims or events belong to.      *)
Hits(S) == excused' = excused \cup {<<x.job, x.run>> : x \in S}

(* Mutant: the first failed publish ends the loop.                          *)
TickPublishFailsBreaks(claim) ==
    /\ Fault
    /\ claim \in tick
    /\ DispatchKey(claim) \notin dispatchKeys
    /\ tick' = {}
    /\ dispatchKeys' = dispatchKeys \cup {DispatchKey(claim)}
    /\ Hits({claim})
    /\ UNCHANGED <<tableVars, dispatchVars, workerVars, resultVars, consumerVars, expiries>>

(* The publish raises, or the broker never acknowledges and flush() does   *)
(* not say so: the key stays claimed.                                      *)
TickPublishFails(claim) ==
    /\ Fault
    /\ claim \in tick
    /\ DispatchKey(claim) \notin dispatchKeys
    /\ tick' = tick \ {claim}
    /\ dispatchKeys' = dispatchKeys \cup {DispatchKey(claim)}
    /\ Hits({claim})
    /\ UNCHANGED <<tableVars, dispatchVars, workerVars, resultVars, consumerVars, expiries>>

(* The process dies, or try_claim raises, which run_once does not catch:   *)
(* the rest of the batch is never published.                               *)
SchedulerCrashes ==
    /\ Fault
    /\ tick # {}
    /\ tick' = {}
    /\ Hits(tick)
    /\ UNCHANGED <<tableVars, dispatchKeys, dispatchVars, workerVars, resultVars,
                   consumerVars, expiries>>

(* The pool's queue is full twice, 50 ms apart: the message is dropped and *)
(* its offset committed with the next ones.                                *)
DispatchDropped(e) ==
    /\ Fault
    /\ e \in dispatchQueue
    /\ dispatchQueue' = dispatchQueue \ {e}
    /\ Hits({e})
    /\ UNCHANGED <<tableVars, schedulerVars, dispatchLog, workerVars, resultVars,
                   consumerVars, expiries>>

(* A rebalance or an offset reset hands out an old message again.          *)
DispatchRedelivered(e) ==
    /\ Fault
    /\ e \in dispatchLog \ dispatchQueue
    /\ dispatchQueue' = dispatchQueue \cup {e}
    /\ UNCHANGED <<tableVars, schedulerVars, dispatchLog, workerVars, resultVars,
                   consumerVars, expiries, excused>>

(* PublishDeadLetter: after an invalid event, a failed produce or a flush  *)
(* that ran out of time the topic may not have it.                         *)
DeadLetter(e) == dlq' \in {dlq, dlq \cup {e}}

(* Any step of the handler returns an error (store down, executor error,   *)
(* result not published, injected fault): the event is dead-lettered,      *)
(* unless that fails too.                                                  *)
HandlerError(w) ==
    /\ Fault
    /\ worker[w] # IdleWorker
    /\ DeadLetter(worker[w].event)
    /\ worker' = [worker EXCEPT ![w] = IdleWorker]
    /\ Hits({worker[w].event})
    /\ UNCHANGED <<tableVars, schedulerVars, dispatchVars, executionKeys, executions,
                   failures, reported, resultVars, consumerVars, expiries>>

(* PublishResult gives up after resultFlushTimeoutMs and the broker        *)
(* delivers all the same: dead letter and result.                          *)
PublishTimesOut(w) ==
    /\ Fault
    /\ worker[w].pc = "executed"
    /\ Publish(WorkerResultEvent(worker[w].event, worker[w].status))
    /\ DeadLetter(worker[w].event)
    /\ worker' = [worker EXCEPT ![w] = IdleWorker]
    /\ UNCHANGED <<tableVars, schedulerVars, dispatchVars, executionKeys, executions,
                   failures, reported, consumerVars, expiries, excused>>

(* Whether the offset was committed before the crash is up to the          *)
(* auto-commit timer.                                                      *)
WorkerCrashes(w) ==
    /\ Fault
    /\ worker[w] # IdleWorker
    /\ dispatchQueue' \in {dispatchQueue, dispatchQueue \cup {worker[w].event}}
    /\ worker' = [worker EXCEPT ![w] = IdleWorker]
    /\ Hits({worker[w].event})
    /\ UNCHANGED <<tableVars, schedulerVars, dispatchLog, executionKeys, dlq, executions,
                   failures, reported, resultVars, consumerVars, expiries>>

(* The handler raises (database down) or the consumer dies between claim   *)
(* and write.                                                              *)
HandleFails ==
    /\ Fault
    /\ consumer # IdleConsumer
    /\ resultQueue' \in {resultQueue, resultQueue \cup {consumer.event}}
    /\ consumer' = IdleConsumer
    /\ Hits({consumer.event})
    /\ UNCHANGED <<tableVars, schedulerVars, dispatchVars, workerVars, resultLog,
                   resultKeys, applied, expiries>>

ResultRedelivered(event) ==
    /\ Fault
    /\ event \in resultLog \ resultQueue
    /\ resultQueue' = resultQueue \cup {event}
    /\ UNCHANGED <<tableVars, schedulerVars, dispatchVars, workerVars, resultLog,
                   consumerVars, expiries, excused>>

(* EX ttl_seconds has passed since the key was set.                        *)
KeyExpires(k) ==
    /\ Fault
    /\ KeysExpire
    /\ \/ /\ k \in dispatchKeys
          /\ dispatchKeys' = dispatchKeys \ {k}
          /\ UNCHANGED <<executionKeys, resultKeys, expiries>>
       \/ /\ k \in executionKeys
          /\ executionKeys' = executionKeys \ {k}
          /\ expiries' = [expiries EXCEPT ![<<"execution", k>>] = @ + 1]
          /\ UNCHANGED <<dispatchKeys, resultKeys>>
       \/ /\ k \in resultKeys
          /\ resultKeys' = resultKeys \ {k}
          /\ expiries' = [expiries EXCEPT ![<<"result", k>>] = @ + 1]
          /\ UNCHANGED <<dispatchKeys, executionKeys>>
    /\ UNCHANGED <<tableVars, tick, dispatchVars, worker, dlq, executions, failures,
                   reported, resultVars, consumer, applied, excused>>

TableStep(j) ==
    \/ \E m \in RetryBudgets : Enqueue(j, m)
    \/ CancelRead(j) \/ CancelWrite(j)
    \/ RetryRead(j) \/ RetryWrite(j)
    \/ OperatorRequeue(j) \/ ScanRequeue(j)

WorkerStep(w) ==
    \/ \E e \in dispatchQueue : Receive(w, e)
    \/ ClaimExecution(w)
    \/ \E status \in ResultStatuses : Execute(w, status)
    \/ PublishResult(w)

FaultStep ==
    \/ \E claim \in tick : TickPublishFails(claim)
    \/ SchedulerCrashes
    \/ \E e \in dispatchLog : DispatchDropped(e) \/ DispatchRedelivered(e)
    \/ \E w \in Workers : HandlerError(w) \/ PublishTimesOut(w) \/ WorkerCrashes(w)
    \/ HandleFails
    \/ \E event \in resultLog : ResultRedelivered(event)
    \/ \E k \in Keys : KeyExpires(k)

Next ==
    \/ \E j \in Jobs : TableStep(j)
    \/ TickClaim
    \/ \E claim \in tick : TickPublish(claim)
    \/ \E w \in Workers : WorkerStep(w)
    \/ \E event \in resultQueue : Consume(event)
    \/ Handle
    \/ FaultStep

Spec == Init /\ [][Next]_vars

(***************************************************************************)
(* Fairness: ticks, scans, workers and the result consumer keep running.   *)
(* Clients and operators owe nothing, and neither do faults.               *)
(***************************************************************************)
Fairness ==
    /\ \A j \in Jobs : WF_vars(ScanRequeue(j))
    /\ WF_vars(TickClaim)
    /\ WF_vars(\E claim \in tick : TickPublish(claim))
    /\ \A w \in Workers : WF_vars(WorkerStep(w))
    /\ WF_vars(\E event \in resultQueue : Consume(event))
    /\ WF_vars(Handle)

FairSpec == Spec /\ Fairness

(***************************************************************************)
(* Safety.                                                                 *)
(***************************************************************************)

(* With the durable store an execution key runs once, and once more for     *)
(* each time its claim expired: redelivered dispatches, crashes and late    *)
(* publishes included (claim before Execute).                               *)
ExecutedOncePerKey ==
    ExecutionStore = "redis" =>
        \A k \in Keys : executions[k] <= 1 + expiries[<<"execution", k>>]

(* result_consumer.py: "Postgres updates happen at most once per (job_id,   *)
(* attempt)", with the durable store and for each life of the key.          *)
AppliedOncePerKey ==
    ResultStore = "redis" => \A k \in Keys : applied[k] <= 1 + expiries[<<"result", k>>]

(* The table never reports an outcome nobody produced: succeeded, failed    *)
(* and dead_lettered rows, and every unit of retry_count, go back to an     *)
(* executor that reported so.  A failure is charged to the retry budget a   *)
(* second time only when it is delivered again after its key was lost.      *)
OutcomesBacked ==
    \A j \in Jobs :
        /\ jobs[j].state = "succeeded" => <<j, "succeeded">> \in reported
        /\ jobs[j].state = "failed" => <<j, "terminal_failure">> \in reported
        /\ jobs[j].state = "dead_lettered" => <<j, "retryable_failure">> \in reported
        /\ (faults = 0 \/ ResultStore = "redis") =>
                jobs[j].retry_count <= failures[j] + expiries[<<"result", <<j, 0>>>>]

(* What is on the way for job j: claimed, published, being worked on, or    *)
(* reported and not yet written.                                            *)
InFlight(j) ==
    \/ \E claim \in tick : claim.job = j
    \/ \E e \in dispatchQueue : e.job = j
    \/ \E w \in Workers : worker[w] # IdleWorker /\ worker[w].event.job = j
    \/ \E event \in resultQueue : event.job = j
    \/ consumer # IdleConsumer /\ consumer.event.job = j

(* As long as nothing has failed, a row in state dispatched has something   *)
(* under way that will report on it; no handler drops a job for good.       *)
NothingStranded ==
    faults = 0 => \A j \in Jobs : jobs[j].state = "dispatched" => InFlight(j)

(* What is on the way for the latest dispatch of job j.                     *)
LatestInFlight(j) ==
    LET Latest(x) == x.job = j /\ x.run = runs[j] IN
    \/ \E claim \in tick : Latest(claim)
    \/ \E e \in dispatchQueue : Latest(e)
    \/ \E w \in Workers : worker[w] # IdleWorker /\ Latest(worker[w].event)
    \/ \E event \in resultQueue : Latest(event)
    \/ consumer # IdleConsumer /\ Latest(consumer.event)

(* A failed publish, handler, delivery or write strands its own job only:   *)
(* when nothing is left that will report on the latest dispatch of a row, a *)
(* fault hit that very dispatch on its way, or a key left behind by an      *)
(* earlier run suppressed it; a first run is never suppressed.  The fault   *)
(* that does hit several rows is the end of the scheduler inside a tick (a  *)
(* crash, or a try_claim that raises): it strands all rows of that tick     *)
(* that are not yet published, and no other row.                            *)
FaultsStayLocal ==
    \A j \in Jobs :
        jobs[j].state = "dispatched" =>
            LatestInFlight(j) \/ <<j, runs[j]>> \in excused

(* While its key lives, a result is written to the row only if the dispatch *)
(* it reports on is the latest one: a straggler of an earlier attempt never *)
(* decides a later one.                                                     *)
ResultMeetsItsRun ==
    [][applied' # applied =>
          \/ consumer.event.run = runs[consumer.event.job]
          \/ expiries[<<"result", WorkerResultKey(consumer.event)>>] > 0]_vars

(***************************************************************************)
(* The inductive invariant: what lies between the steps.                   *)
(***************************************************************************)

(* A retry_count stays within the budget the job was enqueued with.        *)
RowsInBudget ==
    \A j \in Jobs :
        /\ jobs[j].max_retries \in RetryBudgets \cup {0}
        /\ jobs[j].retry_count <= jobs[j].max_retries

(* Every event goes back to a dispatch of its job, carries attempt 0, and  *)
(* a result says what an executor reported.                                *)
OfARun(x) == x.attempt = 0 /\ x.run \in 1 .. runs[x.job]

EventsBacked ==
    /\ \A c \in tick : /\ c.run = runs[c.job] /\ c.run > 0
                       /\ \A d \in tick : d.job = c.job => d = c
    /\ \A e \in dispatchLog : OfARun(e)
    /\ \A w \in Workers : worker[w] # IdleWorker => worker[w].event \in dispatchLog
    /\ \A w \in Workers : worker[w].pc = "executed" =>
          <<worker[w].event.job, worker[w].status>> \in reported
    /\ \A e \in resultLog : OfARun(e) /\ <<e.job, e.status>> \in reported
    /\ consumer # IdleConsumer => consumer.event \in resultLog
    /\ IsFiniteSet(resultQueue)

(* A key is claimed after its job was dispatched; the key of a first run,  *)
(* or of any run with a store per tick, is free until it is published.     *)
KeysBacked ==
    /\ \A k \in dispatchKeys \cup executionKeys \cup resultKeys : runs[k[1]] > 0
    /\ \A c \in tick, k \in dispatchKeys :
          c.run = 1 \/ DispatchStore = "per_tick" => k[1] # c.job

(* Who has claimed key k and not yet executed, or not yet written.         *)
Executing(k) == {w \in Workers : worker[w].pc = "claimed" /\ ExecutionKey(worker[w].event) = k}
Writing(k) == IF consumer # IdleConsumer /\ WorkerResultKey(consumer.event) = k THEN 1 ELSE 0
Lives(keys, k, expired) == (IF k \in keys THEN 1 ELSE 0) + expired

(* Claims under way count against the lives of their key.                  *)
ClaimsCounted ==
    \A k \in Keys :
        /\ ExecutionStore = "redis" =>
              executions[k] + Cardinality(Executing(k))
                <= Lives(executionKeys, k, expiries[<<"execution", k>>])
        /\ ResultStore = "redis" =>
              applied[k] + Writing(k) <= Lives(resultKeys, k, expiries[<<"result", k>>])

(* Until its first result is written a job is dispatched at most once, and *)
(* no retry request has passed its check.                                  *)
FirstRun ==
    \A j \in Jobs : applied[<<j, 0>>] = 0 =>
        /\ jobs[j].state \in {"absent", "queued", "dispatched", "canceled"}
        /\ runs[j] <= 1
        /\ jobs[j].state \in {"absent", "queued"} => runs[j] = 0
        /\ <<j, "retry_scheduled">> \notin checked

(* Retryable failures of job j that are reported and not yet written.      *)
Retryable(j, e) == e.job = j /\ e.status = "retryable_failure"
ToPublish(j) == {w \in Workers : /\ worker[w].pc = "executed"
                                 /\ worker[w].event.job = j
                                 /\ worker[w].status = "retryable_failure"}
ToConsume(j) == {e \in resultQueue : Retryable(j, e)}
ToWrite(j) == IF consumer # IdleConsumer /\ Retryable(j, consumer.event) THEN 1 ELSE 0

(* Every unit of retry_count was charged for a result that was written and *)
(* a failure that was reported; without faults, for one failure each.      *)
ChargesBacked ==
    \A j \in Jobs :
        /\ jobs[j].retry_count <= applied[<<j, 0>>]
        /\ jobs[j].retry_count > 0 => <<j, "retryable_failure">> \in reported
        /\ <<j, "retryable_failure">> \in reported => failures[j] > 0
        /\ faults = 0 =>
              jobs[j].retry_count + Cardinality(ToPublish(j)) + Cardinality(ToConsume(j))
                 + ToWrite(j) <= failures[j]

(* Job j is past the claim of its execution key, or of its result key.     *)
ResultComing(j) ==
    \/ \E w \in Workers : worker[w].pc \in {"claimed", "executed"} /\ worker[w].event.job = j
    \/ \E event \in resultQueue : event.job = j
    \/ consumer # IdleConsumer /\ consumer.event.job = j

(* A key of a first run is not claimed in vain: what it was claimed for is *)
(* under way, written, or hit by a fault.                                  *)
FirstClaimsKept ==
    \A j \in Jobs : jobs[j].state = "dispatched" /\ runs[j] = 1 /\ <<j, 1>> \notin excused =>
        /\ <<j, 0>> \in LiveExecutionKeys => ResultComing(j)
        /\ <<j, 0>> \in LiveResultKeys => consumer # IdleConsumer /\ consumer.event.job = j

(* Without durable stores nothing is suppressed.                           *)
DefaultDeployment ==
    DispatchStore = "per_tick" /\ ExecutionStore = "disabled" /\ ResultStore = "memory"
NoneSuppressed == DefaultDeployment /\ faults = 0 => excused = {}

(* The parts hold together: none of them survives a step without others.   *)
PipelineInv ==
    /\ TypeOK
    /\ RowsInBudget
    /\ EventsBacked
    /\ KeysBacked
    /\ ClaimsCounted
    /\ FirstRun
    /\ ChargesBacked
    /\ FirstClaimsKept
    /\ NoneSuppressed

(***************************************************************************)
(* Liveness, under FairSpec.                                               *)
(***************************************************************************)
Settled(j) == jobs[j].state \in {"succeeded", "failed", "dead_lettered", "canceled"}

(* Every job that is dispatched is reported on.                             *)
DispatchedIsReported ==
    \A j \in Jobs : jobs[j].state = "dispatched" ~> jobs[j].state # "dispatched"

(* Every job that is queued ends up with an outcome, through as many        *)
(* retries as its budget allows.                                            *)
QueuedSettles == \A j \in Jobs : jobs[j].state = "queued" ~> Settled(j)

(***************************************************************************)
(* What the repository's documents say and the code does not keep.         *)
(***************************************************************************)

(* job_state.py: "Terminal states are states that a job cannot leave once   *)
(* entered" (the operator's documented replay of a dead-lettered job is     *)
(* allowed here).                                                           *)
TerminalStatesFinal ==
    [][\A j \in Jobs :
          jobs[j].state \in TerminalStates =>
            \/ jobs'[j].state = jobs[j].state
            \/ jobs[j].state = "dead_lettered" /\ jobs'[j].state = "queued"]_vars
=============================================================================
