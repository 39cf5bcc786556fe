--------------------------- MODULE PipelineProofs ---------------------------
(***************************************************************************)
(* Proofs about Pipeline for every set of jobs and workers, every retry    *)
(* budget and every number of faults.  PipelineInv is preserved part by    *)
(* part: for each part, the steps that touch the variables it reads.       *)
(***************************************************************************)
EXTENDS Pipeline, FiniteSetTheorems, TLAPS

USE DEF tableVars, schedulerVars, dispatchVars, workerVars, resultVars, consumerVars

(***************************************************************************)
(* Rows, attempts and keys.                                                *)
(***************************************************************************)

(* A retry_count within its budget is an attempt number.                    *)
LEMMA AttemptsFacts ==
    /\ 0 \in Attempts
    /\ Attempts \subseteq Nat
    /\ \A m \in RetryBudgets \cup {0}, n \in Nat : n <= m => n \in Attempts
  BY EnqueueAssumption DEF Attempts

(* The states a row can be in before its first result.                      *)
FirstStates == {"absent", "queued", "dispatched", "canceled"}

(* What a statement of the API, the scanner or the operator does to a row.  *)
TableMove(row, new) ==
    /\ new \in JobRecord
    /\ new.state \in {"queued", "canceled", "retry_scheduled"}
    /\ new.retry_count \in {0, row.retry_count}
    /\ new.max_retries \in RetryBudgets \cup {0}
    /\ new.retry_count <= new.max_retries

(* A row without a result is inserted or canceled, or a retry request that  *)
(* has passed its check writes to it.                                       *)
FirstMove(j) ==
    jobs[j].state \in FirstStates =>
        \/ jobs'[j].state = "canceled"
        \/ jobs[j].state = "absent" /\ jobs'[j].state = "queued"
        \/ <<j, "retry_scheduled">> \in checked

(* POST /jobs inserts a queued row.                                         *)
LEMMA EnqueueMove ==
    ASSUME NEW row \in JobRecord, row.state = "absent",
           NEW p \in Priorities, NEW m \in RetryBudgets
    PROVE  TableMove(row, CreateJob(p, m, 0))
  BY NullAssumption, EnqueueAssumption
     DEF TableMove, CreateJob, JobRecord, JobStates, Time

(* The cancel and retry endpoints write a state and leave the counts alone. *)
LEMMA UpdateMove ==
    ASSUME NEW row \in JobRecord, NEW s \in {"canceled", "retry_scheduled"},
           row.max_retries \in RetryBudgets \cup {0}, row.retry_count <= row.max_retries
    PROVE  TableMove(row, UpdateJobState(row, s)) /\ UpdateJobState(row, s).state = s
  BY DEF TableMove, UpdateJobState, JobRecord, JobStates

(* The retry scanner and the operator put a row back into the queue.        *)
LEMMA RequeueMove ==
    ASSUME NEW row \in JobRecord, row.state \in {"retry_scheduled", "dead_lettered"},
           row.max_retries \in RetryBudgets \cup {0}, row.retry_count <= row.max_retries
    PROVE  /\ row.state = "retry_scheduled" => TableMove(row, RequeueRetry(row))
           /\ row.state = "dead_lettered" => TableMove(row, RequeueDeadLettered(row))
  <1>1. RequeueRetry(row) \in JobRecord /\ RequeueDeadLettered(row) \in JobRecord
    BY DEF RequeueRetry, RequeueDeadLettered, JobRecord, JobStates
  <1>2. QED
    BY <1>1 DEF TableMove, RequeueRetry, RequeueDeadLettered, JobRecord

(* A dispatch changes no column but the state and its first time.           *)
LEMMA DispatchRowIs ==
    ASSUME NEW row \in JobRecord
    PROVE  /\ DispatchRow(row, 0) \in JobRecord
           /\ DispatchRow(row, 0).state = "dispatched"
           /\ DispatchRow(row, 0).retry_count = row.retry_count
           /\ DispatchRow(row, 0).max_retries = row.max_retries
  BY DEF DispatchRow, JobRecord, JobStates, Time

(* What a result does to its row: the row leaves dispatched for the state   *)
(* its status stands for, and a retry is charged to the budget.             *)
ResultMove(row, new, status) ==
    /\ new \in JobRecord
    /\ new.max_retries = row.max_retries
    /\ new.state # "dispatched"
    /\ new.state = "succeeded" => status = "succeeded"
    /\ new.state = "failed" => status = "terminal_failure"
    /\ new.state = "dead_lettered" => status = "retryable_failure"
    /\ new.state \in {"succeeded", "failed", "dead_lettered", "retry_scheduled"}
    /\ new.retry_count = row.retry_count
         \/ /\ status = "retryable_failure"
            /\ new.retry_count = row.retry_count + 1
            /\ row.retry_count < row.max_retries

(* ResultStateHandler.handle is such a move, whatever state it finds.        *)
LEMMA HandleResultMove ==
    ASSUME NEW row \in JobRecord, NEW status \in ResultStatuses
    PROVE  ResultMove(row, HandleResult(row, status, 0), status)
  <1>1. CASE status = "retryable_failure"
    <2>0. 0 + RETRY_DELAY \in Nat /\ row.retry_count + 1 \in Nat
      BY RetryDelayAssumption DEF JobRecord
    <2>1. ScheduleRetry(row, 0) \in JobRecord
      BY <2>0 DEF ScheduleRetry, JobRecord, JobStates, Time
    <2>2. QED
      BY <1>1, <2>1 DEF ResultMove, HandleResult, ScheduleRetry, JobRecord
  <1>2. CASE status # "retryable_failure"
    BY <1>2 DEF ResultMove, HandleResult, MapResultStatus, UpdateJobState, JobRecord,
                JobStates, ResultStatuses
  <1>3. QED
    BY <1>1, <1>2

(* The table alone.                                                         *)
LEMMA TableEffect ==
    ASSUME TypeOK, RowsInBudget, NEW j \in Jobs, TableStep(j)
    PROVE  /\ jobs' \in [Jobs -> JobRecord] /\ manual' \in Nat
           /\ checked' \subseteq Jobs \X {"canceled", "retry_scheduled"}
           /\ \A i \in Jobs \ {j} : jobs'[i] = jobs[i]
           /\ jobs'[j] = jobs[j] \/ (TableMove(jobs[j], jobs'[j]) /\ FirstMove(j))
           /\ \A i \in Jobs : <<i, "retry_scheduled">> \in checked' =>
                 <<i, "retry_scheduled">> \in checked \/ jobs[i].state \notin FirstStates
           /\ UNCHANGED <<runs, schedulerVars, dispatchVars, workerVars, resultVars,
                          consumerVars, faults, expiries, excused>>
  <1> DEFINE Moves == /\ jobs' = [jobs EXCEPT ![j] = jobs'[j]]
                      /\ TableMove(jobs[j], jobs'[j]) /\ FirstMove(j)
  <1>0. /\ jobs \in [Jobs -> JobRecord] /\ jobs[j] \in JobRecord
        /\ checked \subseteq Jobs \X {"canceled", "retry_scheduled"} /\ manual \in Nat
        /\ jobs[j].max_retries \in RetryBudgets \cup {0}
        /\ jobs[j].retry_count <= jobs[j].max_retries
    BY DEF TypeOK, RowsInBudget
  <1>1. ASSUME NEW m \in RetryBudgets, Enqueue(j, m) PROVE Moves
    <2>1. PICK p \in Priorities :
             jobs' = [jobs EXCEPT ![j] = CreateJob(p, m, 0)] /\ jobs[j].state = "absent"
      BY <1>1 DEF Enqueue
    <2>2. jobs'[j] = CreateJob(p, m, 0) /\ jobs'[j].state = "queued"
      BY <1>0, <2>1 DEF CreateJob
    <2>3. TableMove(jobs[j], jobs'[j])
      BY <1>0, <2>1, <2>2, EnqueueMove
    <2>4. QED
      BY <2>1, <2>2, <2>3 DEF FirstMove
  <1>2. ASSUME NEW s \in {"canceled", "retry_scheduled"}, RequestRead(j, s)
        PROVE  /\ jobs' = jobs
               /\ s = "retry_scheduled" => jobs[j].state \notin FirstStates
               /\ checked' = checked \cup {<<j, s>>}
    BY <1>2 DEF RequestRead, FirstStates, CanTransition, AllowedTransitions, JobStates,
                TerminalStates
  <1>3. ASSUME NEW s \in {"canceled", "retry_scheduled"}, RequestWrite(j, s)
        PROVE  Moves /\ checked' = checked \ {<<j, s>>}
    <2>1. /\ jobs' = [jobs EXCEPT ![j] = UpdateJobState(jobs[j], s)] /\ <<j, s>> \in checked
          /\ checked' = checked \ {<<j, s>>}
      BY <1>3 DEF RequestWrite
    <2>2. TableMove(jobs[j], UpdateJobState(jobs[j], s)) /\ UpdateJobState(jobs[j], s).state = s
      BY <1>0, UpdateMove
    <2>3. jobs'[j] = UpdateJobState(jobs[j], s)
      BY <1>0, <2>1
    <2>4. QED
      BY <2>1, <2>2, <2>3 DEF FirstMove
  <1>4. CASE OperatorRequeue(j)
    <2>1. TableMove(jobs[j], RequeueDeadLettered(jobs[j])) /\ jobs[j].state \notin FirstStates
      BY <1>0, <1>4, RequeueMove DEF OperatorRequeue, FirstStates
    <2>2. jobs' = [jobs EXCEPT ![j] = RequeueDeadLettered(jobs[j])]
      BY <1>4 DEF OperatorRequeue
    <2>3. Moves
      BY <1>0, <2>1, <2>2 DEF FirstMove
    <2>4. QED
      BY <1>0, <1>4, <2>3 DEF OperatorRequeue, TableMove
  <1>5. CASE ScanRequeue(j)
    <2>1. TableMove(jobs[j], RequeueRetry(jobs[j])) /\ jobs[j].state \notin FirstStates
      BY <1>0, <1>5, RequeueMove DEF ScanRequeue, RetryDue, FirstStates
    <2>2. jobs' = [jobs EXCEPT ![j] = RequeueRetry(jobs[j])]
      BY <1>5 DEF ScanRequeue
    <2>3. Moves
      BY <1>0, <2>1, <2>2 DEF FirstMove
    <2>4. QED
      BY <1>0, <1>5, <2>3 DEF ScanRequeue, TableMove
  <1>6. CASE CancelRead(j) \/ RetryRead(j)
    BY <1>0, <1>2, <1>6 DEF CancelRead, RetryRead, RequestRead
  <1>7. CASE CancelWrite(j) \/ RetryWrite(j)
    BY <1>0, <1>3, <1>7 DEF CancelWrite, RetryWrite, RequestWrite, TableMove
  <1>8. ASSUME NEW m \in RetryBudgets, Enqueue(j, m)
        PROVE  /\ Moves
               /\ UNCHANGED <<checked, manual, runs, schedulerVars, dispatchVars, workerVars,
                              resultVars, consumerVars, faults, expiries, excused>>
    BY <1>1, <1>8 DEF Enqueue
  <1>9. QED
    BY <1>0, <1>4, <1>5, <1>6, <1>7, <1>8 DEF TableStep, TableMove

(***************************************************************************)
(* Types.                                                                  *)
(***************************************************************************)

(* What a goroutine of the worker and the result consumer have in hand.     *)
LEMMA InHandTypes ==
    ASSUME TypeOK
    PROVE  /\ \A w \in Workers :
                /\ worker[w].pc \in {"idle", "received", "claimed", "executed"}
                /\ worker[w] = IdleWorker <=> worker[w].pc = "idle"
                /\ worker[w] # IdleWorker => worker[w].event \in DispatchEvents
                /\ worker[w].pc = "executed" => worker[w].status \in ResultStatuses
           /\ consumer.pc \in {"idle", "claimed"}
           /\ consumer = IdleConsumer <=> consumer.pc = "idle"
           /\ consumer # IdleConsumer => consumer.event \in ResultEvents
  <1>1. ASSUME NEW w \in Workers
        PROVE  /\ worker[w].pc \in {"idle", "received", "claimed", "executed"}
               /\ worker[w] = IdleWorker <=> worker[w].pc = "idle"
               /\ worker[w] # IdleWorker => worker[w].event \in DispatchEvents
               /\ worker[w].pc = "executed" => worker[w].status \in ResultStatuses
    <2>1. worker[w] \in WorkerStates
      BY DEF TypeOK
    <2>2. QED
      BY <2>1 DEF WorkerStates, IdleWorker
  <1>2. consumer \in ConsumerStates
    BY DEF TypeOK
  <1>3. QED
    BY <1>1, <1>2 DEF ConsumerStates, IdleConsumer

(* Keys and events are made of the job and the attempt they are about.      *)
LEMMA KeyTypes ==
    /\ \A e \in DispatchEvents : ExecutionKey(e) \in Keys
    /\ \A e \in ResultEvents : WorkerResultKey(e) \in Keys
    /\ \A c \in Claims : DispatchKey(c) \in Keys /\ DispatchEvent(c) \in DispatchEvents
    /\ \A e \in DispatchEvents, s \in ResultStatuses : WorkerResultEvent(e, s) \in ResultEvents
  BY AttemptsFacts DEF ExecutionKey, WorkerResultKey, DispatchKey, DispatchEvent,
     WorkerResultEvent, Keys, DispatchEvents, ResultEvents, Claims

(* A tick keeps the types of what it claims.                                *)
LEMMA TickClaimTypes ==
    ASSUME TypeOK, RowsInBudget, TickClaim
    PROVE  /\ TypeOK'
           /\ RowsInBudget'
  <1>1. PICK B \in SUBSET {j \in Jobs : Schedulable(jobs[j])} :
           /\ jobs' = [j \in Jobs |-> IF j \in B THEN DispatchRow(jobs[j], 0) ELSE jobs[j]]
           /\ runs' = [j \in Jobs |-> IF j \in B THEN runs[j] + 1 ELSE runs[j]]
           /\ tick' = {[job |-> j, retry_count |-> jobs[j].retry_count, run |-> runs[j] + 1] :
                       j \in B}
    BY DEF TickClaim, ClaimBatches
  <1>2. \A j \in Jobs : /\ jobs[j] \in JobRecord /\ runs[j] \in Nat /\ jobs[j].retry_count \in Nat
                        /\ jobs[j].max_retries \in RetryBudgets \cup {0}
                        /\ jobs[j].retry_count <= jobs[j].max_retries
    BY DEF TypeOK, RowsInBudget, JobRecord
  <1>3. jobs' \in [Jobs -> JobRecord] /\ runs' \in [Jobs -> Nat]
    BY <1>1, <1>2, DispatchRowIs
  <1>4. tick' \subseteq Claims
    BY <1>1, <1>2, AttemptsFacts DEF Claims
  <1>5. dispatchKeys' \subseteq Keys
    BY DEF TypeOK, TickClaim
  <1>6. RowsInBudget'
    BY <1>1, <1>2, DispatchRowIs DEF RowsInBudget
  <1>7. QED
    BY <1>3, <1>4, <1>5, <1>6 DEF TypeOK, TickClaim

(* Every step keeps the types, and every retry_count within its budget.     *)
LEMMA TypesKept ==
    ASSUME TypeOK, RowsInBudget, EventsBacked, [Next]_vars
    PROVE  TypeOK' /\ RowsInBudget'
  <1>1. ASSUME NEW j \in Jobs, TableStep(j) PROVE TypeOK' /\ RowsInBudget'
    <2>1. TypeOK'
      BY <1>1, TableEffect DEF TypeOK
    <2>2. RowsInBudget'
      BY <1>1, TableEffect DEF RowsInBudget, TableMove
    <2>3. QED
      BY <2>1, <2>2
  <1>2. CASE TickClaim
    BY <1>2, TickClaimTypes
  <1>3. CASE Handle
    <2>1. /\ consumer.event \in ResultEvents /\ consumer.event.job \in Jobs
          /\ consumer.event.status \in ResultStatuses
      BY <1>3, InHandTypes DEF Handle, ResultEvents, IdleConsumer
    <2> DEFINE j == consumer.event.job
               new == HandleResult(jobs[j], consumer.event.status, 0)
    <2>2. jobs[j] \in JobRecord /\ ResultMove(jobs[j], new, consumer.event.status)
      BY <2>1, HandleResultMove DEF TypeOK
    <2>3. jobs' = [jobs EXCEPT ![j] = new]
      BY <1>3 DEF Handle
    <2> HIDE DEF new
    <2>4. jobs' \in [Jobs -> JobRecord]
      BY <2>1, <2>2, <2>3 DEF TypeOK, ResultMove
    <2>5. applied' \in [Keys -> Nat]
      BY <1>3, <2>1, KeyTypes DEF Handle, TypeOK
    <2>6. consumer' \in ConsumerStates
      BY <1>3 DEF Handle, ConsumerStates
    <2>7. TypeOK'
      BY <1>3, <2>4, <2>5, <2>6 DEF Handle, TypeOK
    <2>8. RowsInBudget'
      <3>0. /\ jobs[j].retry_count \in Nat /\ jobs[j].max_retries \in Nat
            /\ jobs[j].retry_count <= jobs[j].max_retries
        BY <2>1, <2>2 DEF RowsInBudget, JobRecord
      <3>1. new.max_retries = jobs[j].max_retries /\ new.retry_count <= jobs[j].max_retries
        BY <2>2, <3>0 DEF ResultMove
      <3>2. QED
        BY <2>1, <2>3, <3>1 DEF RowsInBudget, TypeOK
    <2>9. QED
      BY <2>7, <2>8
  <1>4. ASSUME jobs' = jobs, TypeOK' PROVE TypeOK' /\ RowsInBudget'
    BY <1>4 DEF RowsInBudget
  <1>5. ASSUME NEW claim \in tick, TickPublish(claim) \/ TickPublishFails(claim)
        PROVE  TypeOK'
    <2>1. claim \in Claims /\ claim.job \in Jobs /\ claim.run \in Nat
      BY DEF TypeOK, Claims
    <2>2. DispatchKey(claim) \in Keys /\ DispatchEvent(claim) \in DispatchEvents
      BY <2>1, KeyTypes
    <2>3. tick' \subseteq Claims /\ dispatchKeys' \subseteq Keys
      BY <1>5, <2>2 DEF TypeOK, TickPublish, TickPublishFails
    <2>4. /\ dispatchLog' \subseteq DispatchEvents /\ dispatchQueue' \subseteq dispatchLog'
          /\ dlq' \subseteq dispatchLog'
      BY <1>5, <2>2 DEF TypeOK, TickPublish, TickPublishFails
    <2>5. excused' \subseteq Jobs \X Nat /\ faults' \in Nat
      BY <1>5, <2>1 DEF TypeOK, TickPublish, TickPublishFails, Suppressed, Hits, Fault
    <2>6. QED
      BY <1>5, <2>3, <2>4, <2>5 DEF TypeOK, TickPublish, TickPublishFails
  <1>6. CASE SchedulerCrashes
    <2>1. excused' \subseteq Jobs \X Nat /\ faults' \in Nat
      BY <1>6 DEF TypeOK, SchedulerCrashes, Hits, Fault, Claims
    <2>2. tick' \subseteq Claims
      BY <1>6 DEF SchedulerCrashes
    <2>3. UNCHANGED <<tableVars, dispatchKeys, dispatchVars, workerVars, resultVars,
                      consumerVars, expiries>>
      BY <1>6 DEF SchedulerCrashes
    <2>4. QED
      BY <2>1, <2>2, <2>3 DEF TypeOK, RowsInBudget
  <1>7. ASSUME NEW w \in Workers, NEW e \in dispatchQueue, Receive(w, e) PROVE TypeOK'
    <2>1. worker' \in [Workers -> WorkerStates]
      BY <1>7 DEF TypeOK, Receive, WorkerStates
    <2>2. QED
      BY <1>7, <2>1 DEF TypeOK, Receive
  <1>8. ASSUME NEW w \in Workers, ClaimExecution(w) PROVE TypeOK'
    <2>1. worker[w].event \in DispatchEvents
      BY <1>8, InHandTypes DEF ClaimExecution, IdleWorker
    <2>2. worker' \in [Workers -> WorkerStates]
      BY <1>8, <2>1 DEF TypeOK, ClaimExecution, WorkerStates
    <2>3. executionKeys' \subseteq Keys /\ excused' \subseteq Jobs \X Nat
      BY <1>8, <2>1, KeyTypes DEF TypeOK, ClaimExecution, SetExecutionKey, Suppressed,
                                 DispatchEvents
    <2>4. QED
      BY <1>8, <2>2, <2>3 DEF TypeOK, ClaimExecution
  <1>9. ASSUME NEW w \in Workers, NEW status \in ResultStatuses, Execute(w, status) PROVE TypeOK'
    <2>1. worker[w].event \in DispatchEvents /\ worker[w].event.job \in Jobs
      BY <1>9, InHandTypes DEF Execute, IdleWorker, DispatchEvents
    <2>2. worker' \in [Workers -> WorkerStates]
      BY <1>9, <2>1 DEF TypeOK, Execute, WorkerStates
    <2>3. /\ executions' \in [Keys -> Nat] /\ failures' \in [Jobs -> Nat]
          /\ reported' \subseteq Jobs \X ResultStatuses
      BY <1>9, <2>1, KeyTypes DEF TypeOK, Execute
    <2>4. QED
      BY <1>9, <2>2, <2>3 DEF TypeOK, Execute
  <1>10. ASSUME NEW w \in Workers, PublishResult(w) \/ PublishTimesOut(w) PROVE TypeOK'
    <2>1. worker[w].event \in DispatchEvents /\ worker[w].status \in ResultStatuses
      BY <1>10, InHandTypes DEF PublishResult, PublishTimesOut, IdleWorker
    <2>2. worker' \in [Workers -> WorkerStates]
      BY <1>10 DEF TypeOK, PublishResult, PublishTimesOut, WorkerStates
    <2>3. resultLog' \subseteq ResultEvents /\ resultQueue' \subseteq resultLog'
      BY <1>10, <2>1, KeyTypes DEF TypeOK, PublishResult, PublishTimesOut, Publish
    <2>4. worker[w].event \in dispatchLog
      BY <1>10 DEF EventsBacked, PublishResult, PublishTimesOut, IdleWorker
    <2>5. dlq' \subseteq dispatchLog' /\ faults' \in Nat
      BY <1>10, <2>4 DEF TypeOK, PublishResult, PublishTimesOut, DeadLetter, Fault
    <2>6. QED
      BY <1>10, <2>2, <2>3, <2>5 DEF TypeOK, PublishResult, PublishTimesOut
  <1>11. ASSUME NEW w \in Workers, HandlerError(w) \/ WorkerCrashes(w) PROVE TypeOK'
    <2>1. worker[w].event \in DispatchEvents /\ worker[w].event \in dispatchLog
      BY <1>11, InHandTypes DEF HandlerError, WorkerCrashes, EventsBacked
    <2>2. worker' \in [Workers -> WorkerStates]
      BY <1>11 DEF TypeOK, HandlerError, WorkerCrashes, WorkerStates
    <2>3. dlq' \subseteq dispatchLog' /\ dispatchQueue' \subseteq dispatchLog'
      BY <1>11, <2>1 DEF TypeOK, HandlerError, WorkerCrashes, DeadLetter
    <2>4. excused' \subseteq Jobs \X Nat /\ faults' \in Nat
      BY <1>11, <2>1 DEF TypeOK, HandlerError, WorkerCrashes, Hits, Fault, DispatchEvents
    <2>5. QED
      BY <1>11, <2>2, <2>3, <2>4 DEF TypeOK, HandlerError, WorkerCrashes
  <1>12. ASSUME NEW e \in resultQueue, Consume(e) PROVE TypeOK'
    <2>1. e \in ResultEvents
      BY DEF TypeOK
    <2>2. consumer' \in ConsumerStates
      BY <1>12, <2>1 DEF TypeOK, Consume, ConsumerStates
    <2>3. resultKeys' \subseteq Keys /\ excused' \subseteq Jobs \X Nat
      BY <1>12, <2>1, KeyTypes DEF TypeOK, Consume, LiveResultKeys, Suppressed, ResultEvents
    <2>4. QED
      BY <1>12, <2>2, <2>3 DEF TypeOK, Consume
  <1>13. CASE HandleFails
    <2>1. consumer.event \in ResultEvents /\ consumer.event \in resultLog
      BY <1>13, InHandTypes DEF HandleFails, EventsBacked
    <2>2. consumer' \in ConsumerStates
      BY <1>13 DEF HandleFails, ConsumerStates
    <2>3. resultQueue' \subseteq resultLog'
      BY <1>13, <2>1 DEF TypeOK, HandleFails
    <2>4. excused' \subseteq Jobs \X Nat /\ faults' \in Nat
      BY <1>13, <2>1 DEF TypeOK, HandleFails, Hits, Fault, ResultEvents
    <2>5. UNCHANGED <<tableVars, schedulerVars, dispatchVars, workerVars, resultLog,
                      resultKeys, applied, expiries>>
      BY <1>13 DEF HandleFails
    <2>6. QED
      BY <2>2, <2>3, <2>4, <2>5 DEF TypeOK, RowsInBudget
  <1>14. ASSUME NEW e \in dispatchLog, DispatchDropped(e) \/ DispatchRedelivered(e) PROVE TypeOK'
    <2>1. dispatchQueue' \subseteq dispatchLog'
      BY <1>14 DEF TypeOK, DispatchDropped, DispatchRedelivered
    <2>2. excused' \subseteq Jobs \X Nat /\ faults' \in Nat
      BY <1>14 DEF TypeOK, DispatchDropped, DispatchRedelivered, Hits, Fault, DispatchEvents
    <2>3. QED
      BY <1>14, <2>1, <2>2 DEF TypeOK, DispatchDropped, DispatchRedelivered
  <1>15. ASSUME NEW e \in resultLog, ResultRedelivered(e) PROVE TypeOK'
    <2>1. resultQueue' \subseteq resultLog' /\ faults' \in Nat
      BY <1>15 DEF TypeOK, ResultRedelivered, Fault
    <2>2. QED
      BY <1>15, <2>1 DEF TypeOK, ResultRedelivered
  <1>16. ASSUME NEW k \in Keys, KeyExpires(k) PROVE TypeOK'
    <2>1. /\ dispatchKeys' \subseteq Keys /\ executionKeys' \subseteq Keys
          /\ resultKeys' \subseteq Keys /\ faults' \in Nat
      BY <1>16 DEF TypeOK, KeyExpires, Fault
    <2>2. expiries' \in [ExpiringKeys -> Nat]
      <3>1. <<"execution", k>> \in ExpiringKeys /\ <<"result", k>> \in ExpiringKeys
        BY DEF ExpiringKeys
      <3>2. QED
        BY <1>16, <3>1 DEF TypeOK, KeyExpires
    <2>3. QED
      BY <1>16, <2>1, <2>2 DEF TypeOK, KeyExpires
  <1>17. CASE UNCHANGED vars
    BY <1>17 DEF vars, TypeOK, RowsInBudget
  <1>18. QED
    BY <1>1, <1>2, <1>3, <1>4, <1>5, <1>6, <1>7, <1>8, <1>9, <1>10, <1>11, <1>12, <1>13,
       <1>14, <1>15, <1>16, <1>17
       DEF Next, WorkerStep, FaultStep, TickPublish, TickPublishFails, SchedulerCrashes,
           Receive, ClaimExecution, Execute, PublishResult, PublishTimesOut, HandlerError,
           WorkerCrashes, Consume, HandleFails, DispatchDropped, DispatchRedelivered,
           ResultRedelivered, KeyExpires

(***************************************************************************)
(* Where events and keys come from.                                        *)
(***************************************************************************)

(* A tick claims rows that were queued, each once, and gives each the next  *)
(* run.                                                                     *)
LEMMA TickClaimEffect ==
    ASSUME TypeOK, TickClaim
    PROVE  \E B \in SUBSET Jobs :
             /\ \A j \in B : jobs[j].state = "queued" /\ jobs'[j] = DispatchRow(jobs[j], 0)
             /\ \A j \in Jobs \ B : jobs'[j] = jobs[j]
             /\ \A j \in Jobs : runs[j] \in Nat /\ runs'[j] \in Nat
             /\ \A j \in B : runs'[j] = runs[j] + 1
             /\ \A j \in Jobs \ B : runs'[j] = runs[j]
             /\ \A j \in B : \E c \in tick' : c.job = j
             /\ \A c \in tick' : c.job \in B /\ c.run = runs'[c.job]
             /\ \A c, d \in tick' : c.job = d.job => c = d
             /\ tick = {}
             /\ dispatchKeys' = (IF DispatchStore = "per_tick" THEN {} ELSE dispatchKeys)
             /\ UNCHANGED <<checked, manual, dispatchVars, workerVars, resultVars,
                            consumerVars, faults, expiries, excused>>
  <1>1. PICK B \in SUBSET {j \in Jobs : Schedulable(jobs[j])} :
           /\ jobs' = [j \in Jobs |-> IF j \in B THEN DispatchRow(jobs[j], 0) ELSE jobs[j]]
           /\ runs' = [j \in Jobs |-> IF j \in B THEN runs[j] + 1 ELSE runs[j]]
           /\ tick' = {[job |-> j, retry_count |-> jobs[j].retry_count, run |-> runs[j] + 1] :
                       j \in B}
    BY DEF TickClaim, ClaimBatches
  <1>2. B \in SUBSET Jobs /\ \A j \in B : jobs[j].state = "queued"
    BY <1>1 DEF Schedulable
  <1>3. \A j \in Jobs : runs[j] \in Nat
    BY DEF TypeOK
  <1>4. /\ \A j \in B : jobs'[j] = DispatchRow(jobs[j], 0) /\ runs'[j] = runs[j] + 1
        /\ \A j \in Jobs \ B : jobs'[j] = jobs[j] /\ runs'[j] = runs[j]
        /\ \A j \in Jobs : runs'[j] \in Nat
    BY <1>1, <1>2, <1>3
  <1>5. /\ \A j \in B : \E c \in tick' : c.job = j
        /\ \A c \in tick' : c.job \in B /\ c.run = runs'[c.job]
        /\ \A c, d \in tick' : c.job = d.job => c = d
    <2> DEFINE C(j) == [job |-> j, retry_count |-> jobs[j].retry_count, run |-> runs[j] + 1]
    <2>1. /\ \A j \in B : C(j).job = j /\ C(j).run = runs[j] + 1
          /\ tick' = {C(j) : j \in B}
      BY <1>1
    <2> HIDE DEF C
    <2>2. \A c \in tick' : c.job \in B /\ c = C(c.job)
      BY <2>1
    <2>3. \A j \in B : \E c \in tick' : c.job = j
      BY <2>1
    <2>4. \A c \in tick' : c.job \in B /\ c.run = runs'[c.job]
      BY <1>4, <2>1, <2>2
    <2>5. \A c, d \in tick' : c.job = d.job => c = d
      BY <2>2
    <2>6. QED
      BY <2>3, <2>4, <2>5
  <1>6. QED
    BY <1>2, <1>3, <1>4, <1>5 DEF TickClaim

(* Only the tick dispatches, and everything that was published stays in the *)
(* logs.                                                                    *)
LEMMA HistoryGrows ==
    ASSUME TypeOK, RowsInBudget, [Next]_vars
    PROVE  /\ \A j \in Jobs : runs'[j] \in Nat /\ runs[j] \in Nat /\ runs[j] <= runs'[j]
           /\ dispatchLog \subseteq dispatchLog'
           /\ resultLog \subseteq resultLog'
           /\ reported \subseteq reported'
           /\ runs' = runs \/ TickClaim
  <1>0. \A j \in Jobs : runs[j] \in Nat
    BY DEF TypeOK
  <1>1. ASSUME NEW j \in Jobs, TableStep(j)
        PROVE  UNCHANGED <<runs, dispatchLog, resultLog, reported>>
    BY <1>1, TableEffect
  <1>2. CASE TickClaim
    BY <1>0, <1>2, TickClaimEffect
  <1>3. ASSUME NEW claim \in tick, TickPublish(claim)
        PROVE  /\ UNCHANGED <<runs, resultLog, reported>>
               /\ dispatchLog \subseteq dispatchLog'
    BY <1>3 DEF TickPublish
  <1>4. ASSUME NEW w \in Workers, WorkerStep(w)
        PROVE  /\ UNCHANGED <<runs, dispatchLog>>
               /\ resultLog \subseteq resultLog' /\ reported \subseteq reported'
    BY <1>4 DEF WorkerStep, Receive, ClaimExecution, Execute, PublishResult, Publish
  <1>5. ASSUME NEW e \in resultQueue, Consume(e)
        PROVE  UNCHANGED <<runs, dispatchLog, resultLog, reported>>
    BY <1>5 DEF Consume
  <1>6. CASE Handle
    BY <1>0, <1>6 DEF Handle
  <1>7. CASE FaultStep
    <2>1. UNCHANGED <<runs, dispatchLog, reported>> /\ resultLog \subseteq resultLog'
      BY <1>7 DEF FaultStep, TickPublishFails, SchedulerCrashes, DispatchDropped,
                  DispatchRedelivered, HandlerError, PublishTimesOut, Publish, WorkerCrashes,
                  HandleFails, ResultRedelivered, KeyExpires
    <2>2. QED
      BY <1>0, <2>1
  <1>8. CASE UNCHANGED vars
    BY <1>0, <1>8 DEF vars
  <1>9. QED
    BY <1>0, <1>1, <1>2, <1>3, <1>4, <1>5, <1>6, <1>7, <1>8 DEF Next

(* Claims of a tick are for the latest run, and keys for jobs that ran.     *)
LEMMA KeysKept ==
    ASSUME TypeOK, RowsInBudget, EventsBacked, KeysBacked, [Next]_vars
    PROVE  /\ \A c \in tick' : /\ c.run = runs'[c.job] /\ c.run > 0
                               /\ \A d \in tick' : d.job = c.job => d = c
           /\ KeysBacked'
  <1> DEFINE Goal == /\ \A c \in tick' : /\ c.run = runs'[c.job] /\ c.run > 0
                                        /\ \A d \in tick' : d.job = c.job => d = c
                     /\ KeysBacked'
  <1>0. /\ \A c \in tick : /\ c.run = runs[c.job] /\ c.run > 0
                           /\ \A d \in tick : d.job = c.job => d = c
        /\ \A c \in tick : c.job \in Jobs
        /\ \A j \in Jobs : runs[j] \in Nat
        /\ \A k \in dispatchKeys \cup executionKeys \cup resultKeys : k[1] \in Jobs
    BY DEF EventsBacked, TypeOK, Claims, Keys
  <1>1. ASSUME tick' \subseteq tick, runs' = runs, dispatchKeys' \subseteq dispatchKeys,
               executionKeys' \subseteq executionKeys, resultKeys' \subseteq resultKeys
        PROVE  Goal
    BY <1>0, <1>1 DEF KeysBacked
  <1>2. ASSUME NEW j \in Jobs, TableStep(j) PROVE Goal
    BY <1>1, <1>2, TableEffect
  <1>3. CASE TickClaim
    <2>1. PICK B \in SUBSET Jobs :
             /\ \A j \in Jobs : runs[j] \in Nat /\ runs'[j] \in Nat
             /\ \A j \in B : runs'[j] = runs[j] + 1
             /\ \A j \in Jobs \ B : runs'[j] = runs[j]
             /\ \A c \in tick' : c.job \in B /\ c.run = runs'[c.job]
             /\ \A c, d \in tick' : c.job = d.job => c = d
             /\ dispatchKeys' = (IF DispatchStore = "per_tick" THEN {} ELSE dispatchKeys)
             /\ UNCHANGED <<executionKeys, resultKeys>>
      BY <1>3, TickClaimEffect
    <2>2. \A c \in tick' : /\ c.run = runs'[c.job] /\ c.run > 0
                           /\ \A d \in tick' : d.job = c.job => d = c
      BY <2>1
    <2>3. \A k \in dispatchKeys' \cup executionKeys' \cup resultKeys' : runs'[k[1]] > 0
      BY <1>0, <2>1 DEF KeysBacked
    <2>4. ASSUME NEW c \in tick', NEW k \in dispatchKeys',
                 c.run = 1 \/ DispatchStore = "per_tick"
          PROVE  k[1] # c.job
      <3>1. k \in dispatchKeys /\ DispatchStore # "per_tick" /\ c.run = 1
        BY <2>1, <2>4
      <3>2. runs[k[1]] > 0
        BY <3>1 DEF KeysBacked
      <3>3. runs[c.job] = 0
        BY <2>1, <3>1
      <3>4. QED
        BY <3>2, <3>3
    <2>5. KeysBacked'
      BY <2>3, <2>4 DEF KeysBacked
    <2>6. QED
      BY <2>2, <2>5
  <1>4. ASSUME NEW claim \in tick, TickPublish(claim) \/ TickPublishFails(claim) PROVE Goal
    <2>1. /\ tick' = tick \ {claim} /\ runs' = runs
          /\ dispatchKeys' \in {dispatchKeys, dispatchKeys \cup {DispatchKey(claim)}}
          /\ UNCHANGED <<executionKeys, resultKeys>>
      BY <1>4 DEF TickPublish, TickPublishFails
    <2>2. DispatchKey(claim)[1] = claim.job
      BY DEF DispatchKey
    <2>3. \A c \in tick' : c.job # claim.job
      BY <1>0, <2>1
    <2>4. \A k \in dispatchKeys' \cup executionKeys' \cup resultKeys' : runs'[k[1]] > 0
      BY <1>0, <2>1, <2>2 DEF KeysBacked
    <2>5. \A c \in tick', k \in dispatchKeys' :
              c.run = 1 \/ DispatchStore = "per_tick" => k[1] # c.job
      BY <2>1, <2>2, <2>3 DEF KeysBacked
    <2>6. QED
      BY <1>0, <2>1, <2>4, <2>5 DEF KeysBacked
  <1>5. ASSUME NEW w \in Workers, ClaimExecution(w) PROVE Goal
    <2>1. worker[w].event \in dispatchLog /\ worker[w].event.job \in Jobs
      BY <1>5, InHandTypes DEF EventsBacked, ClaimExecution, IdleWorker, DispatchEvents
    <2>2. runs[worker[w].event.job] > 0
      BY <1>0, <2>1 DEF EventsBacked, OfARun
    <2>3. /\ executionKeys' \subseteq executionKeys \cup {ExecutionKey(worker[w].event)}
          /\ UNCHANGED <<tick, runs, dispatchKeys, resultKeys>>
      BY <1>5 DEF ClaimExecution, SetExecutionKey
    <2>4. ExecutionKey(worker[w].event)[1] = worker[w].event.job
      BY DEF ExecutionKey
    <2>5. QED
      BY <1>0, <2>2, <2>3, <2>4 DEF KeysBacked
  <1>6. ASSUME NEW e \in resultQueue, Consume(e) PROVE Goal
    <2>1. e \in resultLog /\ e.job \in Jobs
      BY DEF TypeOK, ResultEvents
    <2>2. runs[e.job] > 0
      <3>1. e.run \in 1 .. runs[e.job]
        BY <2>1 DEF EventsBacked, OfARun
      <3>2. QED
        BY <1>0, <2>1, <3>1
    <2>3. /\ resultKeys' \subseteq resultKeys \cup {WorkerResultKey(e)}
          /\ UNCHANGED <<tick, runs, dispatchKeys, executionKeys>>
      BY <1>6 DEF Consume, LiveResultKeys
    <2>4. WorkerResultKey(e)[1] = e.job
      BY DEF WorkerResultKey
    <2>5. QED
      BY <1>0, <2>2, <2>3, <2>4 DEF KeysBacked
  <1>7. ASSUME NEW w \in Workers, WorkerStep(w), ~ClaimExecution(w) PROVE Goal
    <2>1. UNCHANGED <<tick, runs, dispatchKeys, executionKeys, resultKeys>>
      BY <1>7 DEF WorkerStep, Receive, Execute, PublishResult
    <2>2. QED
      BY <1>1, <2>1
  <1>8. CASE Handle
    BY <1>1, <1>8 DEF Handle
  <1>9. CASE FaultStep /\ ~(\E claim \in tick : TickPublishFails(claim))
    <2>1. /\ tick' \subseteq tick /\ runs' = runs /\ dispatchKeys' \subseteq dispatchKeys
          /\ executionKeys' \subseteq executionKeys /\ resultKeys' \subseteq resultKeys
      BY <1>9 DEF FaultStep, SchedulerCrashes, DispatchDropped,
                  DispatchRedelivered, HandlerError, PublishTimesOut, WorkerCrashes,
                  HandleFails, ResultRedelivered, KeyExpires
    <2>2. QED
      BY <1>1, <2>1
  <1>10. CASE UNCHANGED vars
    BY <1>1, <1>10 DEF vars
  <1>11. QED
    BY <1>2, <1>3, <1>4, <1>5, <1>6, <1>7, <1>8, <1>9, <1>10 DEF Next, FaultStep

(* What a step of goroutine w does to goroutine v.                          *)
WorkerMove(v, w) ==
    \/ worker'[v] = worker[v]
    \/ v = w /\ worker'[w] = IdleWorker
    \/ v = w /\ worker'[w].pc = "received" /\ worker'[w].event \in dispatchQueue
    \/ /\ v = w /\ worker[w] # IdleWorker /\ worker'[w].event = worker[w].event
       /\ worker'[w].pc = "claimed"
    \/ /\ v = w /\ worker[w] # IdleWorker /\ worker'[w].event = worker[w].event
       /\ worker'[w].pc = "executed"
       /\ <<worker'[w].event.job, worker'[w].status>> \in reported'

(* A goroutine holds the event it received until it is idle again.          *)
LEMMA WorkerKeepsEvent ==
    ASSUME TypeOK, EventsBacked, NEW w \in Workers, NEW v \in Workers,
           WorkerStep(w) \/ HandlerError(w) \/ PublishTimesOut(w) \/ WorkerCrashes(w)
    PROVE  WorkerMove(v, w)
  <1>0. worker \in [Workers -> WorkerStates]
    BY DEF TypeOK
  <1>1. CASE v # w
    <2>1. worker'[v] = worker[v]
      BY <1>0, <1>1 DEF WorkerStep, Receive, ClaimExecution, Execute, PublishResult,
                        HandlerError, PublishTimesOut, WorkerCrashes
    <2>2. QED
      BY <2>1 DEF WorkerMove
  <1>2. CASE v = w /\ (PublishResult(w) \/ HandlerError(w) \/ PublishTimesOut(w) \/ WorkerCrashes(w))
    BY <1>0, <1>2 DEF WorkerMove, PublishResult, HandlerError, PublishTimesOut, WorkerCrashes
  <1>3. ASSUME v = w, NEW e \in dispatchQueue, Receive(w, e)
        PROVE  worker'[w].pc = "received" /\ worker'[w].event \in dispatchQueue
    BY <1>0, <1>3 DEF Receive
  <1>4. CASE v = w /\ ClaimExecution(w)
    <2>1. worker[w] # IdleWorker
      BY <1>4 DEF ClaimExecution, IdleWorker
    <2>2. worker'[w] = IdleWorker \/ worker'[w] = [pc |-> "claimed", event |-> worker[w].event]
      BY <1>0, <1>4 DEF ClaimExecution
    <2>3. QED
      BY <1>4, <2>1, <2>2 DEF WorkerMove
  <1>5. ASSUME v = w, NEW status \in ResultStatuses, Execute(w, status)
        PROVE  /\ worker[w] # IdleWorker /\ worker'[w].event = worker[w].event
               /\ worker'[w].pc = "executed"
               /\ <<worker'[w].event.job, worker'[w].status>> \in reported'
    BY <1>0, <1>5 DEF Execute, IdleWorker
  <1>6. QED
    BY <1>1, <1>2, <1>3, <1>4, <1>5 DEF WorkerStep, WorkerMove

(* Every event published, queued or in hand goes back to a dispatch of its  *)
(* job, and every result to a report.                                       *)
LEMMA EventsKept ==
    ASSUME TypeOK, RowsInBudget, EventsBacked, KeysBacked, [Next]_vars
    PROVE  EventsBacked'
  <1>g. /\ \A j \in Jobs : runs'[j] \in Nat /\ runs[j] \in Nat /\ runs[j] <= runs'[j]
        /\ dispatchLog \subseteq dispatchLog'
        /\ resultLog \subseteq resultLog'
        /\ reported \subseteq reported'
    BY HistoryGrows
  <1>t. TypeOK'
    BY TypesKept
  <1>1. \A c \in tick' : /\ c.run = runs'[c.job] /\ c.run > 0
                         /\ \A d \in tick' : d.job = c.job => d = c
    BY KeysKept
  <1>2. ASSUME NEW x, x.job \in Jobs, OfARun(x)
        PROVE  x.attempt = 0 /\ x.run \in 1 .. runs'[x.job]
    BY <1>g, <1>2 DEF OfARun
  <1>3. \A e \in dispatchLog' : OfARun(e)'
    <2>1. \A e \in dispatchLog : e.job \in Jobs /\ OfARun(e)
      BY DEF TypeOK, DispatchEvents, EventsBacked
    <2>2. CASE dispatchLog' = dispatchLog
      BY <1>2, <2>1, <2>2 DEF OfARun
    <2>3. ASSUME NEW claim \in tick, TickPublish(claim)
          PROVE  \A e \in dispatchLog' : OfARun(e)'
      <3>1. claim.job \in Jobs /\ claim.run = runs[claim.job] /\ claim.run > 0 /\ runs' = runs
        BY <2>3 DEF TickPublish, TypeOK, Claims, EventsBacked
      <3>2. /\ DispatchEvent(claim).job = claim.job /\ DispatchEvent(claim).attempt = 0
            /\ DispatchEvent(claim).run \in 1 .. runs'[claim.job]
        BY <1>g, <3>1 DEF DispatchEvent
      <3>3. dispatchLog' \subseteq dispatchLog \cup {DispatchEvent(claim)}
        BY <2>3 DEF TickPublish
      <3>4. QED
        BY <1>2, <2>1, <3>2, <3>3 DEF OfARun
    <2>4. dispatchLog' = dispatchLog \/ \E claim \in tick : TickPublish(claim)
      <3>1. ASSUME NEW j \in Jobs, TableStep(j) PROVE dispatchLog' = dispatchLog
        BY <3>1, TableEffect
      <3>2. CASE TickClaim \/ Handle \/ UNCHANGED vars
        BY <3>2 DEF TickClaim, Handle, vars
      <3>3. ASSUME NEW w \in Workers, WorkerStep(w) PROVE dispatchLog' = dispatchLog
        BY <3>3 DEF WorkerStep, Receive, ClaimExecution, Execute, PublishResult
      <3>4. ASSUME NEW e \in resultQueue, Consume(e) PROVE dispatchLog' = dispatchLog
        BY <3>4 DEF Consume
      <3>5. CASE FaultStep
        BY <3>5 DEF FaultStep, TickPublishFails, SchedulerCrashes, DispatchDropped,
                    DispatchRedelivered, HandlerError, PublishTimesOut, WorkerCrashes,
                    HandleFails, ResultRedelivered, KeyExpires
      <3>6. QED
        BY <3>1, <3>2, <3>3, <3>4, <3>5 DEF Next
    <2>5. QED
      BY <2>2, <2>3, <2>4
  <1>4. \/ worker' = worker
        \/ \E w \in Workers :
              WorkerStep(w) \/ HandlerError(w) \/ PublishTimesOut(w) \/ WorkerCrashes(w)
    <2>1. ASSUME NEW j \in Jobs, TableStep(j) PROVE worker' = worker
      BY <2>1, TableEffect
    <2>2. CASE TickClaim \/ Handle \/ UNCHANGED vars
      BY <2>2 DEF TickClaim, Handle, vars
    <2>3. ASSUME NEW claim \in tick, TickPublish(claim) PROVE worker' = worker
      BY <2>3 DEF TickPublish
    <2>4. ASSUME NEW e \in resultQueue, Consume(e) PROVE worker' = worker
      BY <2>4 DEF Consume
    <2>5. CASE FaultStep
      BY <2>5 DEF FaultStep, TickPublishFails, SchedulerCrashes, DispatchDropped,
                  DispatchRedelivered, HandleFails, ResultRedelivered, KeyExpires
    <2>6. QED
      BY <2>1, <2>2, <2>3, <2>4, <2>5 DEF Next
  <1>5. ASSUME NEW v \in Workers
        PROVE  /\ worker'[v] # IdleWorker => worker'[v].event \in dispatchLog'
               /\ worker'[v].pc = "executed" =>
                     <<worker'[v].event.job, worker'[v].status>> \in reported'
    <2>1. /\ worker[v] # IdleWorker => worker[v].event \in dispatchLog
          /\ worker[v].pc = "executed" => <<worker[v].event.job, worker[v].status>> \in reported
          /\ dispatchQueue \subseteq dispatchLog
      BY DEF EventsBacked, TypeOK
    <2>2. CASE worker' = worker
      BY <1>g, <2>1, <2>2
    <2>3. ASSUME NEW w \in Workers,
                 WorkerStep(w) \/ HandlerError(w) \/ PublishTimesOut(w) \/ WorkerCrashes(w)
          PROVE  /\ worker'[v] # IdleWorker => worker'[v].event \in dispatchLog'
                 /\ worker'[v].pc = "executed" =>
                       <<worker'[v].event.job, worker'[v].status>> \in reported'
      <3>1. WorkerMove(v, w)
        BY <2>3, WorkerKeepsEvent
      <3>2. QED
        BY <1>g, <2>1, <3>1 DEF WorkerMove, IdleWorker
    <2>4. QED
      BY <1>4, <2>2, <2>3
  <1>6. /\ \A e \in resultLog' : OfARun(e)' /\ <<e.job, e.status>> \in reported'
        /\ IsFiniteSet(resultQueue')
    <2>1. /\ \A e \in resultLog : e.job \in Jobs /\ OfARun(e) /\ <<e.job, e.status>> \in reported
          /\ IsFiniteSet(resultQueue) /\ resultQueue \subseteq resultLog
      BY DEF TypeOK, ResultEvents, EventsBacked
    <2>2. ASSUME resultLog' = resultLog, NEW x, resultQueue' \subseteq resultQueue \cup {x}
          PROVE  /\ \A e \in resultLog' : OfARun(e)' /\ <<e.job, e.status>> \in reported'
                 /\ IsFiniteSet(resultQueue')
      <3>1. IsFiniteSet(resultQueue')
        BY <2>1, <2>2, FS_AddElement, FS_Subset
      <3>2. QED
        BY <1>g, <1>2, <2>1, <2>2, <3>1 DEF OfARun
    <2>3. ASSUME NEW w \in Workers, PublishResult(w) \/ PublishTimesOut(w)
          PROVE  /\ \A e \in resultLog' : OfARun(e)' /\ <<e.job, e.status>> \in reported'
                 /\ IsFiniteSet(resultQueue')
      <3> DEFINE new == WorkerResultEvent(worker[w].event, worker[w].status)
      <3>1. resultLog' = resultLog \cup {new} /\ resultQueue' = resultQueue \cup {new}
        BY <2>3 DEF PublishResult, PublishTimesOut, Publish
      <3>2. /\ worker[w].event \in dispatchLog
            /\ <<worker[w].event.job, worker[w].status>> \in reported
        BY <2>3 DEF PublishResult, PublishTimesOut, EventsBacked, IdleWorker
      <3>3. OfARun(worker[w].event) /\ worker[w].event.job \in Jobs
        BY <3>2 DEF EventsBacked, TypeOK, DispatchEvents
      <3>4. /\ new.job = worker[w].event.job /\ new.attempt = 0
            /\ new.run = worker[w].event.run /\ new.status = worker[w].status
        BY DEF WorkerResultEvent
      <3> HIDE DEF new
      <3>5. OfARun(new) /\ new.job \in Jobs /\ <<new.job, new.status>> \in reported
        BY <3>2, <3>3, <3>4 DEF OfARun
      <3>6. IsFiniteSet(resultQueue')
        BY <2>1, <3>1, FS_AddElement
      <3>7. QED
        BY <1>g, <1>2, <2>1, <3>1, <3>5, <3>6 DEF OfARun
    <2>4. ASSUME NEW j \in Jobs, TableStep(j) PROVE resultLog' = resultLog /\ resultQueue' = resultQueue
      BY <2>4, TableEffect
    <2>5. CASE TickClaim \/ Handle \/ UNCHANGED vars
      BY <2>2, <2>5 DEF TickClaim, Handle, vars
    <2>6. ASSUME NEW claim \in tick, TickPublish(claim)
          PROVE resultLog' = resultLog /\ resultQueue' = resultQueue
      BY <2>6 DEF TickPublish
    <2>7. ASSUME NEW w \in Workers, WorkerStep(w), ~PublishResult(w)
          PROVE  resultLog' = resultLog /\ resultQueue' = resultQueue
      BY <2>7 DEF WorkerStep, Receive, ClaimExecution, Execute
    <2>8. ASSUME NEW e \in resultQueue, Consume(e)
          PROVE  resultLog' = resultLog /\ resultQueue' \subseteq resultQueue
      BY <2>8 DEF Consume
    <2>9. CASE FaultStep /\ ~(\E w \in Workers : PublishTimesOut(w))
      <3>1. resultLog' = resultLog /\ \E x : resultQueue' \subseteq resultQueue \cup {x}
        BY <2>9 DEF FaultStep, TickPublishFails, SchedulerCrashes, DispatchDropped,
                    DispatchRedelivered, HandlerError, WorkerCrashes, HandleFails,
                    ResultRedelivered, KeyExpires
      <3>2. QED
        BY <2>2, <3>1
    <2>10. QED
      BY <2>2, <2>3, <2>4, <2>5, <2>6, <2>7, <2>8, <2>9 DEF Next, FaultStep
  <1>7. consumer' # IdleConsumer => consumer'.event \in resultLog'
    <2>1. consumer # IdleConsumer => consumer.event \in resultLog
      BY DEF EventsBacked
    <2>2. ASSUME NEW j \in Jobs, TableStep(j) PROVE consumer' = consumer
      BY <2>2, TableEffect
    <2>3. CASE TickClaim \/ Handle \/ UNCHANGED vars
      BY <1>g, <2>1, <2>3 DEF TickClaim, Handle, vars
    <2>4. ASSUME NEW claim \in tick, TickPublish(claim) PROVE consumer' = consumer
      BY <2>4 DEF TickPublish
    <2>5. ASSUME NEW w \in Workers, WorkerStep(w) PROVE consumer' = consumer
      BY <2>5 DEF WorkerStep, Receive, ClaimExecution, Execute, PublishResult
    <2>6. ASSUME NEW e \in resultQueue, Consume(e)
          PROVE  consumer' # IdleConsumer => consumer'.event \in resultLog'
      <3>1. e \in resultLog /\ (consumer' = consumer \/ consumer' = [pc |-> "claimed", event |-> e])
        BY <2>6 DEF Consume, TypeOK
      <3>2. QED
        BY <1>g, <2>1, <3>1
    <2>7. CASE FaultStep
      <3>1. consumer' = consumer \/ consumer' = IdleConsumer
        BY <2>7 DEF FaultStep, TickPublishFails, SchedulerCrashes, DispatchDropped,
                    DispatchRedelivered, HandlerError, PublishTimesOut, WorkerCrashes,
                    HandleFails, ResultRedelivered, KeyExpires
      <3>2. QED
        BY <1>g, <2>1, <3>1
    <2>8. QED
      BY <1>g, <2>1, <2>2, <2>3, <2>4, <2>5, <2>6, <2>7 DEF Next
  <1>8. QED
    BY <1>1, <1>3, <1>5, <1>6, <1>7 DEF EventsBacked

(***************************************************************************)
(* Claims and lives of keys.                                               *)
(***************************************************************************)
ExecutionsOf(k) == executions[k] + Cardinality(Executing(k))
ExecutionLives(k) == Lives(executionKeys, k, expiries[<<"execution", k>>])
ResultLives(k) == Lives(resultKeys, k, expiries[<<"result", k>>])

(* The numbers the two counts are made of.                                  *)
LEMMA CountTypes ==
    ASSUME TypeOK, NEW k \in Keys
    PROVE  /\ executions[k] \in Nat /\ applied[k] \in Nat
           /\ expiries[<<"execution", k>>] \in Nat /\ expiries[<<"result", k>>] \in Nat
           /\ IsFiniteSet(Executing(k)) /\ Cardinality(Executing(k)) \in Nat
           /\ Writing(k) \in {0, 1}
  <1>1. <<"execution", k>> \in ExpiringKeys /\ <<"result", k>> \in ExpiringKeys
    BY DEF ExpiringKeys
  <1>2. Executing(k) \subseteq Workers
    BY DEF Executing
  <1>3. IsFiniteSet(Executing(k)) /\ Cardinality(Executing(k)) \in Nat
    BY <1>2, WorkersAssumption, FS_Subset, FS_CardinalityType
  <1>4. QED
    BY <1>1, <1>3 DEF TypeOK, Writing

(* Nobody new claims key k, and the key and its past stay as they are.      *)
LEMMA FewerExecuting ==
    ASSUME TypeOK, NEW k \in Keys, ExecutionsOf(k) <= ExecutionLives(k),
           Executing(k)' \subseteq Executing(k), executions'[k] = executions[k],
           k \in executionKeys' <=> k \in executionKeys,
           expiries'[<<"execution", k>>] = expiries[<<"execution", k>>]
    PROVE  ExecutionsOf(k)' <= ExecutionLives(k)'
  <1>1. /\ Cardinality(Executing(k)') \in Nat
        /\ Cardinality(Executing(k)') <= Cardinality(Executing(k))
    BY CountTypes, FS_Subset, FS_CardinalityType
  <1>2. ExecutionLives(k)' = ExecutionLives(k)
    BY DEF ExecutionLives, Lives
  <1>3. executions[k] \in Nat /\ Cardinality(Executing(k)) \in Nat
    BY CountTypes
  <1>4. ExecutionLives(k) \in Nat
    <2>1. expiries[<<"execution", k>>] \in Nat
      BY CountTypes
    <2>2. QED
      BY <2>1 DEF ExecutionLives, Lives
  <1>5. executions[k] + Cardinality(Executing(k)') <= ExecutionLives(k)
    BY <1>1, <1>3, <1>4 DEF ExecutionsOf
  <1>6. QED
    BY <1>2, <1>5 DEF ExecutionsOf

(* A claim is granted for a key that is not there: claims under way and     *)
(* executions never exceed the lives of the key.                            *)
LEMMA ExecutionsKept ==
    ASSUME TypeOK, RowsInBudget, EventsBacked, [Next]_vars, ExecutionStore = "redis",
           NEW k \in Keys, ExecutionsOf(k) <= ExecutionLives(k)
    PROVE  ExecutionsOf(k)' <= ExecutionLives(k)'
  <1>c. /\ executions[k] \in Nat /\ expiries[<<"execution", k>>] \in Nat
        /\ IsFiniteSet(Executing(k)) /\ Cardinality(Executing(k)) \in Nat
    BY CountTypes
  <1>0. /\ worker \in [Workers -> WorkerStates] /\ executions \in [Keys -> Nat]
        /\ expiries \in [ExpiringKeys -> Nat]
        /\ \A j \in Keys : <<"execution", j>> \in ExpiringKeys /\ <<"result", j>> \in ExpiringKeys
    BY DEF TypeOK, ExpiringKeys
  <1>1. ASSUME UNCHANGED <<worker, executions, executionKeys, expiries>>
        PROVE  ExecutionsOf(k)' <= ExecutionLives(k)'
    <2>1. Executing(k)' = Executing(k)
      BY <1>1 DEF Executing, ExecutionKey
    <2>2. QED
      BY <1>1, <2>1, FewerExecuting
  <1>2. ASSUME NEW j \in Jobs, TableStep(j)
        PROVE  UNCHANGED <<worker, executions, executionKeys, expiries>>
    BY <1>2, TableEffect
  <1>3. CASE TickClaim \/ Handle \/ UNCHANGED vars
    BY <1>1, <1>3 DEF TickClaim, Handle, vars
  <1>4. ASSUME NEW claim \in tick, TickPublish(claim)
        PROVE  UNCHANGED <<worker, executions, executionKeys, expiries>>
    BY <1>4 DEF TickPublish
  <1>5. ASSUME NEW e \in resultQueue, Consume(e)
        PROVE  UNCHANGED <<worker, executions, executionKeys, expiries>>
    BY <1>5 DEF Consume
  <1>6. ASSUME NEW w \in Workers, NEW state \in {"idle", "received"},
               worker' = [worker EXCEPT ![w] = worker'[w]], worker'[w].pc = state,
               UNCHANGED <<executions, executionKeys, expiries>>
        PROVE  ExecutionsOf(k)' <= ExecutionLives(k)'
    <2>1. Executing(k)' \subseteq Executing(k)
      BY <1>0, <1>6 DEF Executing, ExecutionKey
    <2>2. QED
      BY <1>6, <2>1, FewerExecuting
  <1>7. ASSUME NEW w \in Workers,
               \/ \E e \in dispatchQueue : Receive(w, e)
               \/ PublishResult(w) \/ HandlerError(w) \/ PublishTimesOut(w) \/ WorkerCrashes(w)
        PROVE  ExecutionsOf(k)' <= ExecutionLives(k)'
    <2>1. /\ worker' = [worker EXCEPT ![w] = worker'[w]]
          /\ worker'[w].pc \in {"idle", "received"}
          /\ UNCHANGED <<executions, executionKeys, expiries>>
      BY <1>0, <1>7 DEF Receive, PublishResult, HandlerError, PublishTimesOut, WorkerCrashes,
                        IdleWorker
    <2>2. QED
      BY <1>6, <2>1
  <1>8. ASSUME NEW w \in Workers, ClaimExecution(w)
        PROVE  ExecutionsOf(k)' <= ExecutionLives(k)'
    <2> DEFINE e == worker[w].event
    <2>0. worker[w].pc = "received" /\ UNCHANGED <<executions, expiries>>
      BY <1>8 DEF ClaimExecution
    <2>1. CASE ExecutionKey(e) \in executionKeys
      <3>1. worker' = [worker EXCEPT ![w] = IdleWorker] /\ executionKeys' = executionKeys
        BY <1>8, <2>1 DEF ClaimExecution, LiveExecutionKeys
      <3>2. /\ worker' = [worker EXCEPT ![w] = worker'[w]] /\ worker'[w].pc = "idle"
        BY <1>0, <3>1 DEF IdleWorker
      <3>3. QED
        BY <1>6, <2>0, <3>1, <3>2
    <2>2. CASE ExecutionKey(e) \notin executionKeys
      <3>1. /\ worker' = [worker EXCEPT ![w] = [pc |-> "claimed", event |-> e]]
            /\ executionKeys' = executionKeys \cup {ExecutionKey(e)}
        BY <1>8, <2>2 DEF ClaimExecution, LiveExecutionKeys, SetExecutionKey
      <3>2. /\ worker'[w].pc = "claimed" /\ worker'[w].event = e
            /\ \A v \in Workers \ {w} : worker'[v] = worker[v]
        BY <1>0, <3>1
      <3>3. CASE ExecutionKey(e) = k
        <4>1. Executing(k)' = Executing(k) \cup {w} /\ w \notin Executing(k)
          BY <2>0, <3>2, <3>3 DEF Executing, ExecutionKey
        <4>2. Cardinality(Executing(k)') = Cardinality(Executing(k)) + 1
          BY <1>c, <4>1, FS_AddElement
        <4>3. /\ ExecutionLives(k) = expiries[<<"execution", k>>]
              /\ ExecutionLives(k)' = 1 + expiries[<<"execution", k>>]
          BY <1>c, <2>0, <2>2, <3>1, <3>3 DEF ExecutionLives, Lives
        <4>4. executions'[k] = executions[k]
          BY <2>0
        <4>5. QED
          BY <1>c, <4>2, <4>3, <4>4 DEF ExecutionsOf
      <3>4. CASE ExecutionKey(e) # k
        <4>1. Executing(k)' = Executing(k)
          BY <2>0, <3>2, <3>4 DEF Executing, ExecutionKey
        <4>2. k \in executionKeys' <=> k \in executionKeys
          BY <3>1, <3>4
        <4>3. QED
          BY <2>0, <4>1, <4>2, FewerExecuting
      <3>5. QED
        BY <3>3, <3>4
    <2>3. QED
      BY <2>1, <2>2
  <1>9. ASSUME NEW w \in Workers, NEW status \in ResultStatuses, Execute(w, status)
        PROVE  ExecutionsOf(k)' <= ExecutionLives(k)'
    <2> DEFINE e == worker[w].event
    <2>0. worker[w].pc = "claimed" /\ UNCHANGED <<executionKeys, expiries>>
      BY <1>9 DEF Execute
    <2>1. /\ worker'[w].pc = "executed"
          /\ \A v \in Workers \ {w} : worker'[v] = worker[v]
          /\ executions' = [executions EXCEPT ![ExecutionKey(e)] = @ + 1]
      BY <1>0, <1>9 DEF Execute
    <2>2. CASE ExecutionKey(e) = k
      <3>1. Executing(k)' = Executing(k) \ {w} /\ w \in Executing(k)
        BY <2>0, <2>1, <2>2 DEF Executing, ExecutionKey
      <3>2. /\ Cardinality(Executing(k)') = Cardinality(Executing(k)) - 1
            /\ executions'[k] = executions[k] + 1
        BY <1>0, <1>c, <2>1, <2>2, <3>1, FS_RemoveElement
      <3>3. ExecutionLives(k)' = ExecutionLives(k)
        BY <2>0 DEF ExecutionLives, Lives
      <3>4. QED
        BY <1>c, <3>2, <3>3 DEF ExecutionsOf
    <2>3. CASE ExecutionKey(e) # k
      <3>1. Executing(k)' = Executing(k) /\ executions'[k] = executions[k]
        BY <1>0, <2>0, <2>1, <2>3 DEF Executing, ExecutionKey
      <3>2. QED
        BY <2>0, <3>1, FewerExecuting
    <2>4. QED
      BY <2>2, <2>3
  <1>10. ASSUME NEW x \in Keys, KeyExpires(x)
         PROVE  ExecutionsOf(k)' <= ExecutionLives(k)'
    <2>0. UNCHANGED <<worker, executions>>
      BY <1>10 DEF KeyExpires
    <2>1. Executing(k)' = Executing(k)
      BY <2>0 DEF Executing, ExecutionKey
    <2>2. CASE executionKeys' = executionKeys
      <3>1. expiries'[<<"execution", k>>] = expiries[<<"execution", k>>]
        BY <1>0, <1>10, <2>2 DEF KeyExpires
      <3>2. QED
        BY <2>0, <2>1, <2>2, <3>1, FewerExecuting
    <2>3. CASE /\ x \in executionKeys /\ executionKeys' = executionKeys \ {x}
               /\ expiries' = [expiries EXCEPT ![<<"execution", x>>] = @ + 1]
      <3>1. CASE x = k
        <4>1. /\ ExecutionLives(k) = 1 + expiries[<<"execution", k>>]
              /\ ExecutionLives(k)' = expiries[<<"execution", k>>] + 1
          <5>1. /\ k \in executionKeys /\ k \notin executionKeys'
                /\ expiries'[<<"execution", k>>] = expiries[<<"execution", k>>] + 1
            BY <1>0, <2>3, <3>1
          <5>2. QED
            BY <1>c, <5>1 DEF ExecutionLives, Lives
        <4>2. QED
          BY <1>c, <2>0, <2>1, <4>1 DEF ExecutionsOf
      <3>2. CASE x # k
        <4>1. /\ k \in executionKeys' <=> k \in executionKeys
              /\ expiries'[<<"execution", k>>] = expiries[<<"execution", k>>]
          BY <1>0, <2>3, <3>2
        <4>2. QED
          BY <2>0, <2>1, <4>1, FewerExecuting
      <3>3. QED
        BY <3>1, <3>2
    <2>4. QED
      BY <1>10, <2>2, <2>3 DEF KeyExpires
  <1>11. CASE \/ \E claim \in tick : TickPublishFails(claim)
              \/ SchedulerCrashes
              \/ \E e \in dispatchLog : DispatchDropped(e) \/ DispatchRedelivered(e)
              \/ HandleFails
              \/ \E event \in resultLog : ResultRedelivered(event)
    <2>1. UNCHANGED <<worker, executions, executionKeys, expiries>>
      BY <1>11 DEF TickPublishFails, SchedulerCrashes, DispatchDropped, DispatchRedelivered,
                   HandleFails, ResultRedelivered
    <2>2. QED
      BY <1>1, <2>1
  <1>12. QED
    BY <1>1, <1>2, <1>3, <1>4, <1>5, <1>7, <1>8, <1>9, <1>10, <1>11
       DEF Next, WorkerStep, FaultStep

(* What writing a result does.                                              *)
LEMMA HandleEffect ==
    ASSUME TypeOK, EventsBacked, Handle
    PROVE  /\ consumer # IdleConsumer /\ consumer' = IdleConsumer
           /\ consumer.event \in resultLog /\ consumer.event \in ResultEvents
           /\ consumer.event.job \in Jobs /\ consumer.event.status \in ResultStatuses
           /\ consumer.event.run \in 1 .. runs[consumer.event.job]
           /\ <<consumer.event.job, consumer.event.status>> \in reported
           /\ WorkerResultKey(consumer.event) = <<consumer.event.job, 0>>
           /\ ResultMove(jobs[consumer.event.job], jobs'[consumer.event.job],
                         consumer.event.status)
           /\ \A i \in Jobs \ {consumer.event.job} : jobs'[i] = jobs[i]
           /\ applied'[<<consumer.event.job, 0>>] = applied[<<consumer.event.job, 0>>] + 1
           /\ \A k \in Keys : k # <<consumer.event.job, 0>> => applied'[k] = applied[k]
           /\ UNCHANGED <<checked, manual, runs, schedulerVars, dispatchVars, workerVars,
                          resultVars, resultKeys, faults, expiries, excused>>
  <1> DEFINE e == consumer.event
  <1>1. consumer # IdleConsumer /\ consumer' = IdleConsumer
    BY DEF Handle, IdleConsumer
  <1>2. /\ e \in resultLog /\ e \in ResultEvents
        /\ e.job \in Jobs /\ e.status \in ResultStatuses
    BY <1>1, InHandTypes DEF EventsBacked, ResultEvents
  <1>3. OfARun(e) /\ <<e.job, e.status>> \in reported
    BY <1>2 DEF EventsBacked
  <1>4. WorkerResultKey(e) = <<e.job, 0>> /\ <<e.job, 0>> \in Keys
    BY <1>2, <1>3, AttemptsFacts DEF OfARun, WorkerResultKey, Keys
  <1>5. jobs' = [jobs EXCEPT ![e.job] = HandleResult(jobs[e.job], e.status, 0)]
    BY DEF Handle
  <1>6. /\ jobs'[e.job] = HandleResult(jobs[e.job], e.status, 0) /\ jobs[e.job] \in JobRecord
        /\ \A i \in Jobs \ {e.job} : jobs'[i] = jobs[i]
    BY <1>2, <1>5 DEF TypeOK
  <1>7. ResultMove(jobs[e.job], jobs'[e.job], e.status)
    BY <1>2, <1>6, HandleResultMove
  <1>8. applied' = [applied EXCEPT ![<<e.job, 0>>] = @ + 1] /\ applied \in [Keys -> Nat]
    BY <1>4 DEF Handle, TypeOK
  <1>9. /\ applied'[<<e.job, 0>>] = applied[<<e.job, 0>>] + 1
        /\ \A k \in Keys : k # <<e.job, 0>> => applied'[k] = applied[k]
    BY <1>4, <1>8
  <1>10. UNCHANGED <<checked, manual, runs, schedulerVars, dispatchVars, workerVars,
                     resultVars, resultKeys, faults, expiries, excused>>
    BY DEF Handle
  <1>11. QED
    BY <1>1, <1>2, <1>3, <1>4, <1>6, <1>7, <1>9, <1>10 DEF OfARun

(* Only the result consumer touches its hand, its store and the count.      *)
LEMMA ConsumerAlone ==
    ASSUME TypeOK, RowsInBudget, [Next]_vars
    PROVE  \/ UNCHANGED <<consumer, applied, resultKeys, expiries>>
           \/ \E e \in resultQueue : Consume(e)
           \/ Handle \/ HandleFails
           \/ \E x \in Keys : KeyExpires(x)
  <1>1. ASSUME NEW j \in Jobs, TableStep(j)
        PROVE  UNCHANGED <<consumer, applied, resultKeys, expiries>>
    BY <1>1, TableEffect
  <1>2. CASE TickClaim \/ UNCHANGED vars
    BY <1>2 DEF TickClaim, vars
  <1>3. ASSUME NEW claim \in tick, TickPublish(claim)
        PROVE  UNCHANGED <<consumer, applied, resultKeys, expiries>>
    BY <1>3 DEF TickPublish
  <1>4. ASSUME NEW w \in Workers, WorkerStep(w)
        PROVE  UNCHANGED <<consumer, applied, resultKeys, expiries>>
    BY <1>4 DEF WorkerStep, Receive, ClaimExecution, Execute, PublishResult
  <1>5. CASE FaultStep
    BY <1>5 DEF FaultStep, TickPublishFails, SchedulerCrashes, DispatchDropped,
                DispatchRedelivered, HandlerError, PublishTimesOut, WorkerCrashes,
                ResultRedelivered
  <1>6. QED
    BY <1>1, <1>2, <1>3, <1>4, <1>5 DEF Next

(* The same for the key of a result, its claim and its writes.              *)
LEMMA ResultsKept ==
    ASSUME TypeOK, RowsInBudget, EventsBacked, [Next]_vars, ResultStore = "redis",
           NEW k \in Keys, applied[k] + Writing(k) <= ResultLives(k)
    PROVE  applied'[k] + Writing(k)' <= ResultLives(k)'
  <1>b. applied[k] \in Nat /\ expiries[<<"result", k>>] \in Nat /\ Writing(k) \in {0, 1}
    BY CountTypes
  <1>c. /\ applied[k] \in Nat /\ expiries[<<"result", k>>] \in Nat /\ Writing(k) \in Nat
        /\ Writing(k) \in {0, 1}
    BY <1>b
  <1>l. ResultLives(k) \in Nat
    BY <1>c DEF ResultLives, Lives
  <1>1. CASE UNCHANGED <<consumer, applied, resultKeys, expiries>>
    BY <1>1 DEF Writing, ResultLives, Lives, WorkerResultKey
  <1>2. ASSUME NEW e \in resultQueue, Consume(e)
        PROVE  applied'[k] + Writing(k)' <= ResultLives(k)'
    <2>1. applied' = applied /\ expiries' = expiries /\ consumer = IdleConsumer
      BY <1>2 DEF Consume
    <2>2. CASE UNCHANGED <<consumer, resultKeys>>
      BY <1>1, <2>1, <2>2
    <2>3. CASE /\ WorkerResultKey(e) \notin resultKeys
               /\ resultKeys' = resultKeys \cup {WorkerResultKey(e)}
               /\ consumer' = [pc |-> "claimed", event |-> e]
      <3>1. Writing(k) = 0 /\ consumer' # IdleConsumer /\ consumer'.event = e
        BY <2>1, <2>3 DEF Writing, IdleConsumer
      <3>2. CASE WorkerResultKey(e) = k
        <4>1. Writing(k)' = 1
          BY <3>1, <3>2 DEF Writing, WorkerResultKey
        <4>2. /\ ResultLives(k) = expiries[<<"result", k>>]
              /\ ResultLives(k)' = 1 + expiries[<<"result", k>>]
          BY <1>c, <2>1, <2>3, <3>2 DEF ResultLives, Lives
        <4>3. QED
          BY <1>c, <2>1, <3>1, <4>1, <4>2
      <3>3. CASE WorkerResultKey(e) # k
        <4>1. Writing(k)' = 0
          BY <3>1, <3>3 DEF Writing, WorkerResultKey
        <4>2. ResultLives(k)' = ResultLives(k)
          BY <2>1, <2>3, <3>3 DEF ResultLives, Lives
        <4>3. QED
          BY <1>c, <2>1, <3>1, <4>1, <4>2
      <3>4. QED
        BY <3>2, <3>3
    <2>4. QED
      BY <1>2, <2>2, <2>3, StoreAssumption DEF Consume, LiveResultKeys
  <1>3. CASE Handle
    <2>1. /\ consumer # IdleConsumer /\ consumer' = IdleConsumer
          /\ WorkerResultKey(consumer.event) = <<consumer.event.job, 0>>
          /\ applied'[<<consumer.event.job, 0>>] = applied[<<consumer.event.job, 0>>] + 1
          /\ \A i \in Keys : i # <<consumer.event.job, 0>> => applied'[i] = applied[i]
          /\ resultKeys' = resultKeys /\ expiries' = expiries
      BY <1>3, HandleEffect
    <2>2. Writing(k)' = 0 /\ ResultLives(k)' = ResultLives(k)
      BY <2>1 DEF Writing, ResultLives, Lives
    <2>3. CASE k = <<consumer.event.job, 0>>
      <3>1. Writing(k) = 1 /\ applied'[k] = applied[k] + 1
        BY <2>1, <2>3 DEF Writing
      <3>2. QED
        BY <1>c, <2>2, <3>1
    <2>4. CASE k # <<consumer.event.job, 0>>
      <3>1. Writing(k) = 0 /\ applied'[k] = applied[k]
        BY <2>1, <2>4 DEF Writing
      <3>2. QED
        BY <1>c, <2>2, <3>1
    <2>5. QED
      BY <2>3, <2>4
  <1>4. CASE HandleFails
    <2>1. consumer' = IdleConsumer /\ UNCHANGED <<applied, resultKeys, expiries>>
      BY <1>4 DEF HandleFails
    <2>2. Writing(k)' = 0 /\ ResultLives(k)' = ResultLives(k) /\ applied'[k] = applied[k]
      BY <2>1 DEF Writing, ResultLives, Lives
    <2>3. QED
      BY <1>c, <1>l, <2>2
  <1>5. ASSUME NEW x \in Keys, KeyExpires(x)
        PROVE  applied'[k] + Writing(k)' <= ResultLives(k)'
    <2>0. UNCHANGED <<consumer, applied>>
      BY <1>5 DEF KeyExpires
    <2>1. Writing(k)' = Writing(k) /\ applied'[k] = applied[k]
      BY <2>0 DEF Writing, WorkerResultKey
    <2>2. /\ expiries \in [ExpiringKeys -> Nat]
          /\ <<"execution", x>> \in ExpiringKeys /\ <<"result", x>> \in ExpiringKeys
          /\ <<"result", k>> \in ExpiringKeys
      BY DEF TypeOK, ExpiringKeys
    <2>3. CASE resultKeys' = resultKeys
      <3>1. expiries'[<<"result", k>>] = expiries[<<"result", k>>]
        BY <1>5, <2>2, <2>3 DEF KeyExpires
      <3>2. ResultLives(k)' = ResultLives(k)
        BY <2>3, <3>1 DEF ResultLives, Lives
      <3>3. QED
        BY <2>1, <3>2
    <2>4. CASE /\ x \in resultKeys /\ resultKeys' = resultKeys \ {x}
               /\ expiries' = [expiries EXCEPT ![<<"result", x>>] = @ + 1]
      <3>1. CASE x = k
        <4>1. /\ k \in resultKeys /\ k \notin resultKeys'
              /\ expiries'[<<"result", k>>] = expiries[<<"result", k>>] + 1
          BY <2>2, <2>4, <3>1
        <4>2. ResultLives(k)' = ResultLives(k)
          BY <1>c, <4>1 DEF ResultLives, Lives
        <4>3. QED
          BY <2>1, <4>2
      <3>2. CASE x # k
        <4>1. /\ k \in resultKeys' <=> k \in resultKeys
              /\ expiries'[<<"result", k>>] = expiries[<<"result", k>>]
          BY <2>2, <2>4, <3>2
        <4>2. ResultLives(k)' = ResultLives(k)
          BY <4>1 DEF ResultLives, Lives
        <4>3. QED
          BY <2>1, <4>2
      <3>3. QED
        BY <3>1, <3>2
    <2>5. QED
      BY <1>5, <2>3, <2>4 DEF KeyExpires
  <1>6. QED
    BY <1>1, <1>2, <1>3, <1>4, <1>5, ConsumerAlone

(* Both counts at once.                                                     *)
LEMMA ClaimsKept ==
    ASSUME TypeOK, RowsInBudget, EventsBacked, ClaimsCounted, [Next]_vars
    PROVE  ClaimsCounted'
  <1>1. ASSUME NEW k \in Keys, ExecutionStore = "redis"
        PROVE  ExecutionsOf(k)' <= ExecutionLives(k)'
    BY <1>1, ExecutionsKept DEF ClaimsCounted, ExecutionsOf, ExecutionLives
  <1>2. ASSUME NEW k \in Keys, ResultStore = "redis"
        PROVE  applied'[k] + Writing(k)' <= ResultLives(k)'
    BY <1>2, ResultsKept DEF ClaimsCounted, ResultLives
  <1>3. QED
    BY <1>1, <1>2 DEF ClaimsCounted, ExecutionsOf, ExecutionLives, ResultLives

(***************************************************************************)
(* First runs, and what is charged to a retry budget.                      *)
(***************************************************************************)

(* Rows are written by the API, the scanner, the operator, the tick and the *)
(* result handler, and by nobody else.                                      *)
LEMMA TableAlone ==
    ASSUME TypeOK, RowsInBudget, [Next]_vars
    PROVE  \/ UNCHANGED <<jobs, runs, applied, checked>>
           \/ \E j \in Jobs : TableStep(j)
           \/ TickClaim \/ Handle
  <1>1. ASSUME NEW claim \in tick, TickPublish(claim) PROVE UNCHANGED <<jobs, runs, applied, checked>>
    BY <1>1 DEF TickPublish
  <1>2. ASSUME NEW w \in Workers, WorkerStep(w) PROVE UNCHANGED <<jobs, runs, applied, checked>>
    BY <1>2 DEF WorkerStep, Receive, ClaimExecution, Execute, PublishResult
  <1>3. ASSUME NEW e \in resultQueue, Consume(e) PROVE UNCHANGED <<jobs, runs, applied, checked>>
    BY <1>3 DEF Consume
  <1>4. CASE FaultStep
    BY <1>4 DEF FaultStep, TickPublishFails, SchedulerCrashes, DispatchDropped,
                DispatchRedelivered, HandlerError, PublishTimesOut, WorkerCrashes,
                HandleFails, ResultRedelivered, KeyExpires
  <1>5. CASE UNCHANGED vars
    BY <1>5 DEF vars
  <1>6. QED
    BY <1>1, <1>2, <1>3, <1>4, <1>5 DEF Next

(* A job is not dispatched again before a result was written.               *)
LEMMA FirstRunKept ==
    ASSUME TypeOK, RowsInBudget, EventsBacked, FirstRun, [Next]_vars
    PROVE  FirstRun'
  <1> SUFFICES ASSUME NEW j \in Jobs, applied'[<<j, 0>>] = 0
               PROVE  /\ jobs'[j].state \in FirstStates
                      /\ runs'[j] <= 1
                      /\ jobs'[j].state \in {"absent", "queued"} => runs'[j] = 0
                      /\ <<j, "retry_scheduled">> \notin checked'
    BY DEF FirstRun, FirstStates
  <1> DEFINE Goal == /\ jobs'[j].state \in FirstStates
                     /\ runs'[j] <= 1
                     /\ jobs'[j].state \in {"absent", "queued"} => runs'[j] = 0
                     /\ <<j, "retry_scheduled">> \notin checked'
  <1>0. /\ runs[j] \in Nat /\ applied[<<j, 0>>] \in Nat
        /\ applied[<<j, 0>>] = 0 => /\ jobs[j].state \in FirstStates
                                    /\ runs[j] <= 1
                                    /\ jobs[j].state \in {"absent", "queued"} => runs[j] = 0
                                    /\ <<j, "retry_scheduled">> \notin checked
    BY AttemptsFacts DEF TypeOK, Keys, FirstRun, FirstStates
  <1>1. CASE UNCHANGED <<jobs, runs, applied, checked>>
    BY <1>0, <1>1
  <1>2. ASSUME NEW i \in Jobs, TableStep(i) PROVE Goal
    <2>1. /\ jobs'[j] = jobs[j] \/ FirstMove(j)
          /\ <<j, "retry_scheduled">> \in checked' =>
                <<j, "retry_scheduled">> \in checked \/ jobs[j].state \notin FirstStates
          /\ UNCHANGED <<runs, applied>>
      BY <1>2, TableEffect
    <2>2. QED
      BY <1>0, <2>1 DEF FirstMove, FirstStates
  <1>3. CASE TickClaim
    <2>1. PICK B \in SUBSET Jobs :
             /\ \A i \in B : jobs[i].state = "queued" /\ jobs'[i] = DispatchRow(jobs[i], 0)
             /\ \A i \in Jobs \ B : jobs'[i] = jobs[i]
             /\ \A i \in B : runs'[i] = runs[i] + 1
             /\ \A i \in Jobs \ B : runs'[i] = runs[i]
             /\ applied' = applied /\ checked' = checked
      BY <1>3, TickClaimEffect
    <2>2. CASE j \in B
      <3>1. jobs'[j].state = "dispatched"
        BY <2>1, <2>2, DispatchRowIs DEF TypeOK
      <3>2. QED
        BY <1>0, <2>1, <2>2, <3>1 DEF FirstStates
    <2>3. CASE j \notin B
      BY <1>0, <2>1, <2>3
    <2>4. QED
      BY <2>2, <2>3
  <1>4. CASE Handle
    <2>1. j # consumer.event.job
      <3>1. /\ applied'[<<consumer.event.job, 0>>] = applied[<<consumer.event.job, 0>>] + 1
        BY <1>4, HandleEffect
      <3>2. QED
        BY <1>0, <3>1
    <2>2. <<j, 0>> \in Keys /\ <<j, 0>> # <<consumer.event.job, 0>>
      BY <2>1, AttemptsFacts DEF Keys
    <2>3. applied'[<<j, 0>>] = applied[<<j, 0>>] /\ jobs'[j] = jobs[j] /\ runs' = runs
          /\ checked' = checked
      BY <1>4, <2>1, <2>2, HandleEffect
    <2>4. QED
      BY <1>0, <2>3
  <1>5. QED
    BY <1>1, <1>2, <1>3, <1>4, TableAlone

(* A failure is reported by Execute and by nobody else.                     *)
LEMMA ReportsAlone ==
    ASSUME TypeOK, RowsInBudget, [Next]_vars
    PROVE  \/ UNCHANGED <<failures, reported>>
           \/ \E w \in Workers, status \in ResultStatuses : Execute(w, status)
  <1>1. ASSUME NEW j \in Jobs, TableStep(j) PROVE UNCHANGED <<failures, reported>>
    BY <1>1, TableEffect
  <1>2. CASE TickClaim \/ Handle \/ UNCHANGED vars
    BY <1>2 DEF TickClaim, Handle, vars
  <1>3. ASSUME NEW claim \in tick, TickPublish(claim) PROVE UNCHANGED <<failures, reported>>
    BY <1>3 DEF TickPublish
  <1>4. ASSUME NEW w \in Workers, WorkerStep(w),
               ~ \E status \in ResultStatuses : Execute(w, status)
        PROVE  UNCHANGED <<failures, reported>>
    BY <1>4 DEF WorkerStep, Receive, ClaimExecution, PublishResult
  <1>5. ASSUME NEW e \in resultQueue, Consume(e) PROVE UNCHANGED <<failures, reported>>
    BY <1>5 DEF Consume
  <1>6. CASE FaultStep
    BY <1>6 DEF FaultStep, TickPublishFails, SchedulerCrashes, DispatchDropped,
                DispatchRedelivered, HandlerError, PublishTimesOut, WorkerCrashes,
                HandleFails, ResultRedelivered, KeyExpires
  <1>7. QED
    BY <1>1, <1>2, <1>3, <1>4, <1>5, <1>6 DEF Next, WorkerStep

(* The columns of a row a step leaves alone or charges.                     *)
LEMMA RetryCounts ==
    ASSUME TypeOK, RowsInBudget, EventsBacked, [Next]_vars, NEW j \in Jobs
    PROVE  /\ jobs[j].retry_count \in Nat
           /\ applied[<<j, 0>>] \in Nat
           /\ \/ jobs'[j].retry_count \in {0, jobs[j].retry_count}
                   /\ applied'[<<j, 0>>] \in {applied[<<j, 0>>], applied[<<j, 0>>] + 1}
              \/ /\ Handle /\ consumer.event.job = j
                 /\ consumer.event.status = "retryable_failure"
                 /\ jobs'[j].retry_count = jobs[j].retry_count + 1
                 /\ applied'[<<j, 0>>] = applied[<<j, 0>>] + 1
  <1>0. /\ jobs[j] \in JobRecord /\ jobs[j].retry_count \in Nat
        /\ <<j, 0>> \in Keys /\ applied[<<j, 0>>] \in Nat
    BY AttemptsFacts DEF TypeOK, JobRecord, Keys
  <1>1. CASE UNCHANGED <<jobs, runs, applied>>
    BY <1>0, <1>1
  <1>2. ASSUME NEW i \in Jobs, TableStep(i)
        PROVE  /\ jobs'[j].retry_count \in {0, jobs[j].retry_count}
               /\ applied' = applied
    BY <1>2, TableEffect DEF TableMove
  <1>3. CASE TickClaim
    <2>1. PICK B \in SUBSET Jobs :
             /\ \A i \in B : jobs'[i] = DispatchRow(jobs[i], 0)
             /\ \A i \in Jobs \ B : jobs'[i] = jobs[i]
             /\ applied' = applied
      BY <1>3, TickClaimEffect
    <2>2. jobs'[j].retry_count = jobs[j].retry_count
      BY <1>0, <2>1, DispatchRowIs
    <2>3. QED
      BY <1>0, <2>1, <2>2
  <1>4. CASE Handle /\ consumer.event.job = j
    BY <1>0, <1>4, HandleEffect DEF ResultMove
  <1>5. CASE Handle /\ consumer.event.job # j
    <2>1. <<j, 0>> # <<consumer.event.job, 0>>
      BY <1>5
    <2>2. jobs'[j] = jobs[j] /\ applied'[<<j, 0>>] = applied[<<j, 0>>]
      BY <1>0, <1>5, <2>1, HandleEffect
    <2>3. QED
      BY <1>0, <2>2
  <1>6. QED
    BY <1>0, <1>1, <1>2, <1>3, <1>4, <1>5, TableAlone

(* A charge was written and reported, and a reported failure was counted.   *)
LEMMA ChargesReported ==
    ASSUME TypeOK, RowsInBudget, EventsBacked, ChargesBacked, [Next]_vars, NEW j \in Jobs
    PROVE  /\ jobs'[j].retry_count <= applied'[<<j, 0>>]
           /\ jobs'[j].retry_count > 0 => <<j, "retryable_failure">> \in reported'
           /\ <<j, "retryable_failure">> \in reported' => failures'[j] > 0
  <1>0. /\ jobs[j].retry_count \in Nat /\ applied[<<j, 0>>] \in Nat
        /\ failures \in [Jobs -> Nat] /\ failures[j] \in Nat
        /\ jobs[j].retry_count <= applied[<<j, 0>>]
        /\ jobs[j].retry_count > 0 => <<j, "retryable_failure">> \in reported
        /\ <<j, "retryable_failure">> \in reported => failures[j] > 0
    BY RetryCounts DEF TypeOK, ChargesBacked
  <1>1. \/ jobs'[j].retry_count \in {0, jobs[j].retry_count}
             /\ applied'[<<j, 0>>] \in {applied[<<j, 0>>], applied[<<j, 0>>] + 1}
        \/ /\ Handle /\ consumer.event.job = j
           /\ consumer.event.status = "retryable_failure"
           /\ jobs'[j].retry_count = jobs[j].retry_count + 1
           /\ applied'[<<j, 0>>] = applied[<<j, 0>>] + 1
    BY RetryCounts
  <1>2. reported \subseteq reported'
    BY HistoryGrows
  <1>3. jobs'[j].retry_count <= applied'[<<j, 0>>]
    BY <1>0, <1>1
  <1>4. jobs'[j].retry_count > 0 => <<j, "retryable_failure">> \in reported'
    <2>1. Handle => <<consumer.event.job, consumer.event.status>> \in reported
      BY HandleEffect
    <2>2. QED
      BY <1>0, <1>1, <1>2, <2>1
  <1>5. <<j, "retryable_failure">> \in reported' => failures'[j] > 0
    <2>1. CASE UNCHANGED <<failures, reported>>
      BY <1>0, <2>1
    <2>2. ASSUME NEW w \in Workers, NEW status \in ResultStatuses, Execute(w, status),
                 <<j, "retryable_failure">> \in reported'
          PROVE  failures'[j] > 0
      <3>1. worker[w].event.job \in Jobs
        BY <2>2, InHandTypes DEF Execute, IdleWorker, DispatchEvents
      <3>2. reported' = reported \cup {<<worker[w].event.job, status>>}
        BY <2>2 DEF Execute
      <3>3. CASE worker[w].event.job = j /\ status = "retryable_failure"
        <4>1. failures'[j] = failures[j] + 1
          BY <1>0, <2>2, <3>3 DEF Execute
        <4>2. QED
          BY <1>0, <4>1
      <3>4. CASE ~(worker[w].event.job = j /\ status = "retryable_failure")
        <4>1. <<j, "retryable_failure">> \in reported
          BY <2>2, <3>2, <3>4
        <4>2. failures'[j] \in {failures[j], failures[j] + 1}
          BY <1>0, <2>2, <3>1 DEF Execute
        <4>3. QED
          BY <1>0, <4>1, <4>2
      <3>5. QED
        BY <3>3, <3>4
    <2>3. QED
      BY <2>1, <2>2, ReportsAlone
  <1>6. QED
    BY <1>3, <1>4, <1>5

(* Only a fault counts as one.                                              *)
LEMMA FaultFree ==
    ASSUME TypeOK, RowsInBudget, [Next]_vars, faults' = 0
    PROVE  faults = 0 /\ ~FaultStep
  <1>1. ~FaultStep
    <2>1. FaultStep => Fault
      BY DEF FaultStep, TickPublishFails, SchedulerCrashes, DispatchDropped,
             DispatchRedelivered, HandlerError, PublishTimesOut, WorkerCrashes,
             HandleFails, ResultRedelivered, KeyExpires
    <2>2. faults \in Nat
      BY DEF TypeOK
    <2>3. QED
      BY <2>1, <2>2 DEF Fault
  <1>2. faults' = faults
    <2>1. ASSUME NEW i \in Jobs, TableStep(i) PROVE faults' = faults
      BY <2>1, TableEffect
    <2>2. CASE TickClaim \/ Handle \/ UNCHANGED vars
      BY <2>2 DEF TickClaim, Handle, vars
    <2>3. ASSUME NEW claim \in tick, TickPublish(claim) PROVE faults' = faults
      BY <2>3 DEF TickPublish
    <2>4. ASSUME NEW w \in Workers, WorkerStep(w) PROVE faults' = faults
      BY <2>4 DEF WorkerStep, Receive, ClaimExecution, Execute, PublishResult
    <2>5. ASSUME NEW e \in resultQueue, Consume(e) PROVE faults' = faults
      BY <2>5 DEF Consume
    <2>6. QED
      BY <1>1, <2>1, <2>2, <2>3, <2>4, <2>5 DEF Next
  <1>3. QED
    BY <1>1, <1>2

(* The failures of j on their way to its row, as numbers.                   *)
LEMMA OwedTypes ==
    ASSUME TypeOK, EventsBacked, NEW j \in Jobs
    PROVE  /\ IsFiniteSet(ToPublish(j)) /\ Cardinality(ToPublish(j)) \in Nat
           /\ IsFiniteSet(ToConsume(j)) /\ Cardinality(ToConsume(j)) \in Nat
           /\ ToWrite(j) \in {0, 1}
           /\ failures[j] \in Nat
  <1>1. ToPublish(j) \subseteq Workers /\ ToConsume(j) \subseteq resultQueue
    BY DEF ToPublish, ToConsume
  <1>2. IsFiniteSet(resultQueue)
    BY DEF EventsBacked
  <1>3. /\ IsFiniteSet(ToPublish(j)) /\ Cardinality(ToPublish(j)) \in Nat
        /\ IsFiniteSet(ToConsume(j)) /\ Cardinality(ToConsume(j)) \in Nat
    BY <1>1, <1>2, WorkersAssumption, FS_Subset, FS_CardinalityType
  <1>4. QED
    BY <1>3 DEF ToWrite, TypeOK

(* Retryable failures of j between the executor and the row.                *)
Owed(j) == Cardinality(ToPublish(j)) + Cardinality(ToConsume(j)) + ToWrite(j)

(* As long as nothing fails, no failure is charged twice: each one is in    *)
(* one place between the executor and the row.                              *)
LEMMA OwedKept ==
    ASSUME TypeOK, RowsInBudget, EventsBacked, [Next]_vars, NEW j \in Jobs, faults' = 0,
           faults = 0 => jobs[j].retry_count + Owed(j) <= failures[j]
    PROVE  jobs'[j].retry_count + Owed(j)' <= failures'[j]
  <1>0. /\ worker \in [Workers -> WorkerStates] /\ failures \in [Jobs -> Nat] /\ faults \in Nat
    BY DEF TypeOK
  <1>1. PICK p \in Nat, c \in Nat, h \in {0, 1}, f \in Nat, r \in Nat :
          /\ Cardinality(ToPublish(j)) = p /\ Cardinality(ToConsume(j)) = c /\ ToWrite(j) = h
          /\ failures[j] = f /\ jobs[j].retry_count = r
    BY OwedTypes, RetryCounts
  <1>2. IsFiniteSet(ToPublish(j)) /\ IsFiniteSet(ToConsume(j))
    BY OwedTypes
  <1>f. faults = 0 /\ ~FaultStep
    BY FaultFree
  <1>3. r + (p + c + h) <= f
    BY <1>1, <1>f DEF Owed
  (* Nothing of it moves. *)
  <1>4. ASSUME UNCHANGED <<worker, resultQueue, consumer, failures>>,
               jobs'[j].retry_count \in {0, jobs[j].retry_count}
        PROVE  jobs'[j].retry_count + Owed(j)' <= failures'[j]
    <2>1. Owed(j)' = Owed(j)
      BY <1>4 DEF Owed, ToPublish, ToConsume, ToWrite, Retryable
    <2>2. Owed(j) = p + c + h
      BY <1>1 DEF Owed
    <2>3. jobs'[j].retry_count \in {0, r} /\ failures'[j] = f
      BY <1>1, <1>4
    <2>4. 0 + (p + c + h) <= f
      BY <1>3
    <2>5. QED
      BY <1>3, <2>1, <2>2, <2>3, <2>4
  <1>5. ASSUME NEW i \in Jobs, TableStep(i)
        PROVE  /\ UNCHANGED <<worker, resultQueue, consumer, failures>>
               /\ jobs'[j].retry_count \in {0, jobs[j].retry_count}
    BY <1>5, TableEffect DEF TableMove
  <1>6. CASE TickClaim
    <2>1. UNCHANGED <<worker, resultQueue, consumer, failures>> /\ ~Handle
      BY <1>6 DEF TickClaim, Handle, IdleConsumer
    <2>2. QED
      BY <1>4, <2>1, RetryCounts
  <1>7. CASE UNCHANGED vars
    BY <1>4, <1>7 DEF vars
  <1>8. ASSUME NEW claim \in tick, TickPublish(claim)
        PROVE  UNCHANGED <<jobs, worker, resultQueue, consumer, failures>>
    BY <1>8 DEF TickPublish
  <1>9. ASSUME NEW w \in Workers,
               (\E e \in dispatchQueue : Receive(w, e)) \/ ClaimExecution(w)
        PROVE  jobs'[j].retry_count + Owed(j)' <= failures'[j]
    <2>1. /\ UNCHANGED <<jobs, resultQueue, consumer, failures>>
          /\ worker[w].pc # "executed" /\ worker'[w].pc # "executed"
          /\ \A v \in Workers \ {w} : worker'[v] = worker[v]
      BY <1>0, <1>9 DEF Receive, ClaimExecution, IdleWorker
    <2>2. ToPublish(j)' = ToPublish(j)
      BY <2>1 DEF ToPublish
    <2>3. ToConsume(j)' = ToConsume(j) /\ ToWrite(j)' = ToWrite(j)
      BY <2>1 DEF ToConsume, ToWrite, Retryable
    <2>4. Owed(j)' = p + c + h /\ jobs'[j].retry_count = r /\ failures'[j] = f
      BY <1>1, <2>1, <2>2, <2>3 DEF Owed
    <2>5. QED
      BY <1>3, <2>4
  <1>10. ASSUME NEW w \in Workers, NEW status \in ResultStatuses, Execute(w, status)
         PROVE  jobs'[j].retry_count + Owed(j)' <= failures'[j]
    <2>1. /\ UNCHANGED <<jobs, resultQueue, consumer>> /\ worker[w].pc = "claimed"
          /\ worker'[w].pc = "executed" /\ worker'[w].status = status
          /\ worker'[w].event = worker[w].event
          /\ \A v \in Workers \ {w} : worker'[v] = worker[v]
      BY <1>0, <1>10 DEF Execute
    <2>2. ToConsume(j)' = ToConsume(j) /\ ToWrite(j)' = ToWrite(j)
      BY <2>1 DEF ToConsume, ToWrite, Retryable
    <2>3. CASE worker[w].event.job = j /\ status = "retryable_failure"
      <3>1. ToPublish(j)' = ToPublish(j) \cup {w} /\ w \notin ToPublish(j)
        BY <2>1, <2>3 DEF ToPublish
      <3>2. Cardinality(ToPublish(j)') = p + 1
        BY <1>1, <1>2, <3>1, FS_AddElement
      <3>3. failures'[j] = f + 1
        BY <1>0, <1>1, <1>10, <2>3 DEF Execute
      <3>4. Owed(j)' = (p + 1) + c + h /\ jobs'[j].retry_count = r
        BY <1>1, <2>1, <2>2, <3>2 DEF Owed
      <3>5. r + ((p + 1) + c + h) <= f + 1
        BY <1>3
      <3>6. QED
        BY <3>3, <3>4, <3>5
    <2>4. CASE ~(worker[w].event.job = j /\ status = "retryable_failure")
      <3>1. ToPublish(j)' = ToPublish(j)
        BY <2>1, <2>4 DEF ToPublish
      <3>2. failures'[j] = f
        BY <1>0, <1>1, <1>10, <2>4 DEF Execute
      <3>3. Owed(j)' = p + c + h /\ jobs'[j].retry_count = r
        BY <1>1, <2>1, <2>2, <3>1 DEF Owed
      <3>4. QED
        BY <1>3, <3>2, <3>3
    <2>5. QED
      BY <2>3, <2>4
  <1>11. ASSUME NEW w \in Workers, PublishResult(w)
         PROVE  jobs'[j].retry_count + Owed(j)' <= failures'[j]
    <2> DEFINE new == WorkerResultEvent(worker[w].event, worker[w].status)
    <2>1. /\ UNCHANGED <<jobs, consumer, failures>> /\ worker[w].pc = "executed"
          /\ worker'[w].pc = "idle" /\ \A v \in Workers \ {w} : worker'[v] = worker[v]
          /\ resultQueue' = resultQueue \cup {new}
      BY <1>0, <1>11 DEF PublishResult, Publish, IdleWorker
    <2>2. new.job = worker[w].event.job /\ new.status = worker[w].status
      BY DEF WorkerResultEvent
    <2> HIDE DEF new
    <2>3. ToWrite(j)' = h /\ jobs'[j].retry_count = r /\ failures'[j] = f
      BY <1>1, <2>1 DEF ToWrite, Retryable
    <2>4. CASE Retryable(j, new)
      <3>1. ToPublish(j)' = ToPublish(j) \ {w} /\ w \in ToPublish(j)
        BY <2>1, <2>2, <2>4 DEF ToPublish, Retryable
      <3>2. Cardinality(ToPublish(j)') = p - 1
        BY <1>1, <1>2, <3>1, FS_RemoveElement
      <3>3. ToConsume(j)' = ToConsume(j) \cup {new}
        BY <2>1, <2>4 DEF ToConsume, Retryable
      <3>4. Cardinality(ToConsume(j)') \in {c, c + 1}
        BY <1>1, <1>2, <3>3, FS_AddElement
      <3>5. PICK d \in {c, c + 1} : Cardinality(ToConsume(j)') = d
        BY <3>4
      <3>6. Owed(j)' = (p - 1) + d + h
        BY <2>3, <3>2, <3>5 DEF Owed
      <3>7. r + ((p - 1) + d + h) <= f
        BY <1>3, <3>5
      <3>8. QED
        BY <2>3, <3>6, <3>7
    <2>5. CASE ~Retryable(j, new)
      <3>1. ToPublish(j)' = ToPublish(j)
        BY <2>1, <2>2, <2>5 DEF ToPublish, Retryable
      <3>2. ToConsume(j)' = ToConsume(j)
        BY <2>1, <2>5 DEF ToConsume, Retryable
      <3>3. Owed(j)' = p + c + h
        BY <1>1, <2>3, <3>1, <3>2 DEF Owed
      <3>4. QED
        BY <1>3, <2>3, <3>3
    <2>6. QED
      BY <2>4, <2>5
  <1>12. ASSUME NEW e \in resultQueue, Consume(e)
         PROVE  jobs'[j].retry_count + Owed(j)' <= failures'[j]
    <2>1. /\ UNCHANGED <<jobs, worker, failures>> /\ consumer = IdleConsumer
          /\ resultQueue' = resultQueue \ {e}
          /\ consumer' \in {IdleConsumer, [pc |-> "claimed", event |-> e]}
      BY <1>12 DEF Consume
    <2>2. ToPublish(j)' = ToPublish(j) /\ h = 0 /\ jobs'[j].retry_count = r /\ failures'[j] = f
      BY <1>1, <2>1 DEF ToPublish, ToWrite
    <2>3. CASE Retryable(j, e)
      <3>1. ToConsume(j)' = ToConsume(j) \ {e} /\ e \in ToConsume(j)
        BY <2>1, <2>3 DEF ToConsume, Retryable
      <3>2. Cardinality(ToConsume(j)') = c - 1
        BY <1>1, <1>2, <3>1, FS_RemoveElement
      <3>3. PICK d \in {0, 1} : ToWrite(j)' = d
        BY DEF ToWrite
      <3>4. Owed(j)' = p + (c - 1) + d
        BY <1>1, <2>2, <3>2, <3>3 DEF Owed
      <3>5. r + (p + (c - 1) + d) <= f
        BY <1>3, <2>2, <3>3
      <3>6. QED
        BY <2>2, <3>4, <3>5
    <2>4. CASE ~Retryable(j, e)
      <3>1. ToConsume(j)' = ToConsume(j)
        BY <2>1, <2>4 DEF ToConsume, Retryable
      <3>2. ToWrite(j)' = 0
        BY <2>1, <2>4 DEF ToWrite, Retryable, IdleConsumer
      <3>3. Owed(j)' = p + c + 0
        BY <1>1, <2>2, <3>1, <3>2 DEF Owed
      <3>4. QED
        BY <1>3, <2>2, <3>3
    <2>5. QED
      BY <2>3, <2>4
  <1>13. CASE Handle
    <2>1. /\ UNCHANGED <<worker, resultQueue, failures>>
          /\ consumer # IdleConsumer /\ consumer' = IdleConsumer
      BY <1>13, HandleEffect
    <2>2. /\ ToPublish(j)' = ToPublish(j) /\ ToConsume(j)' = ToConsume(j) /\ ToWrite(j)' = 0
          /\ failures'[j] = f
      BY <1>1, <2>1 DEF ToPublish, ToConsume, ToWrite, Retryable
    <2>3. Owed(j)' = p + c + 0
      BY <1>1, <2>2 DEF Owed
    <2>4. CASE jobs'[j].retry_count \in {0, jobs[j].retry_count}
      <3>1. jobs'[j].retry_count \in {0, r}
        BY <1>1, <2>4
      <3>2. 0 + (p + c + 0) <= f /\ r + (p + c + 0) <= f
        BY <1>3
      <3>3. QED
        BY <2>2, <2>3, <3>1, <3>2
    <2>5. CASE /\ consumer.event.job = j /\ consumer.event.status = "retryable_failure"
               /\ jobs'[j].retry_count = jobs[j].retry_count + 1
      <3>1. h = 1 /\ jobs'[j].retry_count = r + 1
        BY <1>1, <2>1, <2>5 DEF ToWrite, Retryable
      <3>2. (r + 1) + (p + c + 0) <= f
        BY <1>3, <3>1
      <3>3. QED
        BY <2>2, <2>3, <3>1, <3>2
    <2>6. QED
      BY <2>4, <2>5, RetryCounts
  <1>14. QED
    BY <1>1, <1>4, <1>5, <1>6, <1>7, <1>8, <1>9, <1>10, <1>11, <1>12, <1>13, <1>f
       DEF Next, WorkerStep

(* ChargesBacked, from the two lemmas before.                               *)
LEMMA ChargesKept ==
    ASSUME TypeOK, RowsInBudget, EventsBacked, KeysBacked, ChargesBacked, [Next]_vars
    PROVE  ChargesBacked'
  <1>1. ASSUME NEW j \in Jobs, faults' = 0
        PROVE  jobs'[j].retry_count + Cardinality(ToPublish(j)') + Cardinality(ToConsume(j)')
                 + ToWrite(j)' <= failures'[j]
    <2>1. jobs[j].retry_count \in Nat /\ jobs'[j].retry_count \in Nat
      <3>1. TypeOK'
        BY TypesKept
      <3>2. QED
        BY <3>1 DEF TypeOK, JobRecord
    <2>2. faults = 0 => jobs[j].retry_count + Owed(j) <= failures[j]
      <3>1. PICK p \in Nat, c \in Nat, h \in {0, 1} :
              Cardinality(ToPublish(j)) = p /\ Cardinality(ToConsume(j)) = c /\ ToWrite(j) = h
        BY OwedTypes
      <3>2. faults = 0 => jobs[j].retry_count + p + c + h <= failures[j]
        BY <3>1 DEF ChargesBacked
      <3>3. failures[j] \in Nat
        BY OwedTypes
      <3>4. faults = 0 => jobs[j].retry_count + (p + c + h) <= failures[j]
        BY <2>1, <3>2, <3>3
      <3>5. QED
        BY <3>1, <3>4 DEF Owed
    <2>3. jobs'[j].retry_count + Owed(j)' <= failures'[j]
      BY <1>1, <2>2, OwedKept
    <2>4. /\ Cardinality(ToPublish(j)') \in Nat /\ Cardinality(ToConsume(j)') \in Nat
          /\ ToWrite(j)' \in Nat
      <3>1. /\ ToPublish(j)' \subseteq Workers /\ ToConsume(j)' \subseteq resultQueue'
        BY DEF ToPublish, ToConsume
      <3>2. IsFiniteSet(resultQueue')
        BY EventsKept DEF EventsBacked
      <3>3. /\ Cardinality(ToPublish(j)') \in Nat /\ Cardinality(ToConsume(j)') \in Nat
        BY <3>1, <3>2, WorkersAssumption, FS_Subset, FS_CardinalityType
      <3>4. QED
        BY <3>3 DEF ToWrite
    <2>5. QED
      BY <2>1, <2>3, <2>4 DEF Owed
  <1>2. QED
    BY <1>1, ChargesReported DEF ChargesBacked

(***************************************************************************)
(* What is on the way.                                                     *)
(***************************************************************************)

(* A claim leaves the tick in three ways.                                   *)
LEMMA ClaimLeaves ==
    ASSUME TypeOK, RowsInBudget, [Next]_vars, NEW c \in tick
    PROVE  c \in tick' \/ TickPublish(c) \/ TickPublishFails(c) \/ SchedulerCrashes
  <1>1. ASSUME NEW j \in Jobs, TableStep(j) PROVE tick' = tick
    BY <1>1, TableEffect
  <1>2. CASE Handle \/ UNCHANGED vars
    BY <1>2 DEF Handle, vars
  <1>3. ASSUME NEW claim \in tick, TickPublish(claim), claim # c PROVE c \in tick'
    BY <1>3 DEF TickPublish
  <1>4. ~TickClaim
    BY DEF TickClaim
  <1>5. ASSUME NEW w \in Workers, WorkerStep(w) PROVE tick' = tick
    BY <1>5 DEF WorkerStep, Receive, ClaimExecution, Execute, PublishResult
  <1>6. ASSUME NEW e \in resultQueue, Consume(e) PROVE tick' = tick
    BY <1>6 DEF Consume
  <1>7. ASSUME NEW claim \in tick, TickPublishFails(claim), claim # c PROVE c \in tick'
    BY <1>7 DEF TickPublishFails
  <1>8. CASE FaultStep /\ ~SchedulerCrashes /\ ~(\E claim \in tick : TickPublishFails(claim))
    BY <1>8 DEF FaultStep, DispatchDropped, DispatchRedelivered, HandlerError,
                PublishTimesOut, WorkerCrashes, HandleFails, ResultRedelivered, KeyExpires
  <1>9. QED
    BY <1>1, <1>2, <1>3, <1>4, <1>5, <1>6, <1>7, <1>8 DEF Next

(* A dispatch event leaves the queue when a goroutine takes it or the pool  *)
(* drops it.                                                                *)
LEMMA DispatchLeaves ==
    ASSUME TypeOK, RowsInBudget, [Next]_vars, NEW e \in dispatchQueue
    PROVE  e \in dispatchQueue' \/ DispatchDropped(e) \/ \E w \in Workers : Receive(w, e)
  <1>1. ASSUME NEW j \in Jobs, TableStep(j) PROVE dispatchQueue' = dispatchQueue
    BY <1>1, TableEffect
  <1>2. CASE TickClaim \/ Handle \/ UNCHANGED vars
    BY <1>2 DEF TickClaim, Handle, vars
  <1>3. ASSUME NEW claim \in tick, TickPublish(claim) PROVE e \in dispatchQueue'
    BY <1>3 DEF TickPublish
  <1>4. ASSUME NEW w \in Workers, NEW f \in dispatchQueue, Receive(w, f), f # e
        PROVE  e \in dispatchQueue'
    BY <1>4 DEF Receive
  <1>5. ASSUME NEW w \in Workers, WorkerStep(w), ~(\E f \in dispatchQueue : Receive(w, f))
        PROVE  dispatchQueue' = dispatchQueue
    BY <1>5 DEF WorkerStep, ClaimExecution, Execute, PublishResult
  <1>6. ASSUME NEW f \in resultQueue, Consume(f) PROVE dispatchQueue' = dispatchQueue
    BY <1>6 DEF Consume
  <1>7. ASSUME NEW f \in dispatchLog, DispatchDropped(f), f # e PROVE e \in dispatchQueue'
    BY <1>7 DEF DispatchDropped
  <1>8. CASE FaultStep /\ ~(\E f \in dispatchLog : DispatchDropped(f))
    BY <1>8 DEF FaultStep, TickPublishFails, SchedulerCrashes, DispatchRedelivered, HandlerError,
                PublishTimesOut, WorkerCrashes, HandleFails, ResultRedelivered, KeyExpires
  <1>9. QED
    BY <1>1, <1>2, <1>3, <1>4, <1>5, <1>6, <1>7, <1>8 DEF Next

(* A goroutine in the middle of an event goes on with it, or fails.         *)
LEMMA WorkerLeaves ==
    ASSUME TypeOK, RowsInBudget, [Next]_vars, NEW w \in Workers, worker[w] # IdleWorker
    PROVE  \/ worker'[w] = worker[w]
           \/ ClaimExecution(w) \/ PublishResult(w)
           \/ \E status \in ResultStatuses : Execute(w, status)
           \/ HandlerError(w) \/ PublishTimesOut(w) \/ WorkerCrashes(w)
  <1>0. worker \in [Workers -> WorkerStates]
    BY DEF TypeOK
  <1>1. ASSUME NEW j \in Jobs, TableStep(j) PROVE worker' = worker
    BY <1>1, TableEffect
  <1>2. CASE TickClaim \/ Handle \/ UNCHANGED vars
    BY <1>2 DEF TickClaim, Handle, vars
  <1>3. ASSUME NEW claim \in tick, TickPublish(claim) PROVE worker' = worker
    BY <1>3 DEF TickPublish
  <1>4. ASSUME NEW v \in Workers, v # w,
               WorkerStep(v) \/ HandlerError(v) \/ PublishTimesOut(v) \/ WorkerCrashes(v)
        PROVE  worker'[w] = worker[w]
    BY <1>0, <1>4 DEF WorkerStep, Receive, ClaimExecution, Execute, PublishResult,
                      HandlerError, PublishTimesOut, WorkerCrashes
  <1>5. ~(\E e \in dispatchQueue : Receive(w, e))
    BY DEF Receive
  <1>6. ASSUME NEW e \in resultQueue, Consume(e) PROVE worker' = worker
    BY <1>6 DEF Consume
  <1>7. CASE FaultStep /\ ~(\E v \in Workers : HandlerError(v) \/ PublishTimesOut(v)
                                                \/ WorkerCrashes(v))
    BY <1>7 DEF FaultStep, TickPublishFails, SchedulerCrashes, DispatchDropped,
                DispatchRedelivered, HandleFails, ResultRedelivered, KeyExpires
  <1>8. QED
    BY <1>1, <1>2, <1>3, <1>4, <1>5, <1>6, <1>7 DEF Next, FaultStep, WorkerStep

(* A result leaves the queue when the consumer takes it.                    *)
LEMMA ResultLeaves ==
    ASSUME TypeOK, RowsInBudget, [Next]_vars, NEW e \in resultQueue
    PROVE  e \in resultQueue' \/ Consume(e)
  <1>1. ASSUME NEW j \in Jobs, TableStep(j) PROVE resultQueue' = resultQueue
    BY <1>1, TableEffect
  <1>2. CASE TickClaim \/ Handle \/ UNCHANGED vars
    BY <1>2 DEF TickClaim, Handle, vars
  <1>3. ASSUME NEW claim \in tick, TickPublish(claim) PROVE resultQueue' = resultQueue
    BY <1>3 DEF TickPublish
  <1>4. ASSUME NEW w \in Workers, WorkerStep(w) PROVE e \in resultQueue'
    BY <1>4 DEF WorkerStep, Receive, ClaimExecution, Execute, PublishResult, Publish
  <1>5. ASSUME NEW f \in resultQueue, Consume(f), f # e PROVE e \in resultQueue'
    BY <1>5 DEF Consume
  <1>6. CASE FaultStep
    BY <1>6 DEF FaultStep, TickPublishFails, SchedulerCrashes, DispatchDropped,
                DispatchRedelivered, HandlerError, PublishTimesOut, Publish, WorkerCrashes,
                HandleFails, ResultRedelivered, KeyExpires
  <1>7. QED
    BY <1>1, <1>2, <1>3, <1>4, <1>5, <1>6 DEF Next

(* The consumer writes the result it claimed, or fails to.                  *)
LEMMA ConsumerLeaves ==
    ASSUME TypeOK, RowsInBudget, [Next]_vars, consumer # IdleConsumer
    PROVE  consumer' = consumer \/ Handle \/ HandleFails
  <1>1. ~(\E e \in resultQueue : Consume(e))
    BY DEF Consume
  <1>2. (\E x \in Keys : KeyExpires(x)) => consumer' = consumer
    BY DEF KeyExpires
  <1>3. QED
    BY <1>1, <1>2, ConsumerAlone

(* A row is dispatched by a tick, and stays so until a result is written.   *)
LEMMA StaysDispatched ==
    ASSUME TypeOK, RowsInBudget, EventsBacked, [Next]_vars,
           NEW j \in Jobs, jobs'[j].state = "dispatched"
    PROVE  \/ /\ jobs[j].state = "dispatched" /\ runs'[j] = runs[j]
              /\ ~(Handle /\ consumer.event.job = j)
           \/ /\ TickClaim /\ runs[j] \in Nat /\ runs'[j] = runs[j] + 1
              /\ \E c \in tick' : c.job = j /\ c.run = runs'[j]
  <1>1. ~(Handle /\ consumer.event.job = j)
    BY HandleEffect DEF ResultMove
  <1>2. CASE UNCHANGED <<jobs, runs, applied>>
    BY <1>1, <1>2
  <1>3. ASSUME NEW i \in Jobs, TableStep(i)
        PROVE  jobs[j].state = "dispatched" /\ runs'[j] = runs[j]
    <2>1. (jobs'[j] = jobs[j] \/ TableMove(jobs[j], jobs'[j])) /\ runs' = runs
      BY <1>3, TableEffect
    <2>2. QED
      BY <2>1 DEF TableMove
  <1>4. CASE TickClaim
    <2>1. PICK B \in SUBSET Jobs :
             /\ \A i \in Jobs \ B : jobs'[i] = jobs[i]
             /\ \A i \in Jobs : runs[i] \in Nat
             /\ \A i \in B : runs'[i] = runs[i] + 1
             /\ \A i \in Jobs \ B : runs'[i] = runs[i]
             /\ \A i \in B : \E c \in tick' : c.job = i
             /\ \A c \in tick' : c.run = runs'[c.job]
      BY <1>4, TickClaimEffect
    <2>2. CASE j \in B
      BY <1>4, <2>1, <2>2
    <2>3. CASE j \notin B
      BY <1>1, <2>1, <2>3
    <2>4. QED
      BY <2>2, <2>3
  <1>5. CASE Handle /\ consumer.event.job # j
    BY <1>1, <1>5, HandleEffect
  <1>6. QED
    BY <1>1, <1>2, <1>3, <1>4, <1>5, TableAlone

(* A fault or a suppressed event excuses its run for good.                  *)
LEMMA ExcusedGrows ==
    ASSUME TypeOK, RowsInBudget, [Next]_vars
    PROVE  excused \subseteq excused'
  <1>1. ASSUME NEW j \in Jobs, TableStep(j) PROVE excused' = excused
    BY <1>1, TableEffect
  <1>2. CASE TickClaim \/ Handle \/ UNCHANGED vars
    BY <1>2 DEF TickClaim, Handle, vars
  <1>3. ASSUME NEW claim \in tick, TickPublish(claim) PROVE excused \subseteq excused'
    BY <1>3 DEF TickPublish, Suppressed
  <1>4. ASSUME NEW w \in Workers, WorkerStep(w) PROVE excused \subseteq excused'
    BY <1>4 DEF WorkerStep, Receive, ClaimExecution, Execute, PublishResult, Suppressed
  <1>5. ASSUME NEW e \in resultQueue, Consume(e) PROVE excused \subseteq excused'
    BY <1>5 DEF Consume, Suppressed
  <1>6. CASE FaultStep
    BY <1>6 DEF FaultStep, TickPublishFails, SchedulerCrashes, DispatchDropped,
                DispatchRedelivered, HandlerError, PublishTimesOut, WorkerCrashes,
                HandleFails, ResultRedelivered, KeyExpires, Hits
  <1>7. QED
    BY <1>1, <1>2, <1>3, <1>4, <1>5, <1>6 DEF Next

(* The events in hand or in a queue of a job that ran once are of that run. *)
LEMMA OnlyRun ==
    ASSUME TypeOK, EventsBacked, NEW j \in Jobs, runs[j] = 1
    PROVE  /\ \A w \in Workers : worker[w] # IdleWorker /\ worker[w].event.job = j =>
                worker[w].event.run = 1 /\ worker[w].event.attempt = 0
           /\ \A e \in resultQueue : e.job = j => e.run = 1 /\ e.attempt = 0
           /\ consumer # IdleConsumer /\ consumer.event.job = j =>
                consumer.event.run = 1 /\ consumer.event.attempt = 0
  <1>1. ASSUME NEW e, OfARun(e), e.job = j PROVE e.run = 1 /\ e.attempt = 0
    BY <1>1 DEF OfARun
  <1>2. /\ \A e \in dispatchLog \cup resultLog : OfARun(e)
        /\ \A w \in Workers : worker[w] # IdleWorker => worker[w].event \in dispatchLog
        /\ consumer # IdleConsumer => consumer.event \in resultLog
        /\ resultQueue \subseteq resultLog
    BY DEF EventsBacked, TypeOK
  <1>3. QED
    BY <1>1, <1>2

(* The event of a step that fails is excused.                               *)
LEMMA HitsExcuse ==
    /\ \A w \in Workers : HandlerError(w) \/ WorkerCrashes(w) =>
          <<worker[w].event.job, worker[w].event.run>> \in excused'
    /\ HandleFails => <<consumer.event.job, consumer.event.run>> \in excused'
    /\ \A c \in tick : TickPublishFails(c) \/ SchedulerCrashes => <<c.job, c.run>> \in excused'
    /\ \A e \in dispatchQueue : DispatchDropped(e) => <<e.job, e.run>> \in excused'
  BY DEF HandlerError, WorkerCrashes, HandleFails, TickPublishFails, SchedulerCrashes,
         DispatchDropped, Hits

(* A first run that has passed the claim of its execution key stays on its  *)
(* way to the row.                                                          *)
LEMMA ComingKept ==
    ASSUME TypeOK, RowsInBudget, EventsBacked, FirstClaimsKept, [Next]_vars,
           NEW j \in Jobs, jobs[j].state = "dispatched", runs[j] = 1,
           ~(Handle /\ consumer.event.job = j),
           <<j, 1>> \notin excused', ResultComing(j)
    PROVE  ResultComing(j)'
  <1>0. worker \in [Workers -> WorkerStates]
    BY DEF TypeOK
  <1>1. ASSUME NEW w \in Workers, worker[w].pc \in {"claimed", "executed"},
               worker[w].event.job = j
        PROVE  ResultComing(j)'
    <2>1. worker[w] # IdleWorker
      BY <1>1 DEF IdleWorker
    <2>2. worker[w].event.run = 1
      BY <1>1, <2>1, OnlyRun
    <2>3. ~ClaimExecution(w)
      BY <1>1 DEF ClaimExecution
    <2>4. ~HandlerError(w) /\ ~WorkerCrashes(w)
      BY <1>1, <2>2, HitsExcuse
    <2>5. CASE worker'[w] = worker[w]
      BY <1>1, <2>5 DEF ResultComing
    <2>6. CASE PublishResult(w) \/ PublishTimesOut(w)
      <3>1. WorkerResultEvent(worker[w].event, worker[w].status) \in resultQueue'
        BY <2>6 DEF PublishResult, PublishTimesOut, Publish
      <3>2. WorkerResultEvent(worker[w].event, worker[w].status).job = j
        BY <1>1 DEF WorkerResultEvent
      <3>3. QED
        BY <3>1, <3>2 DEF ResultComing
    <2>7. ASSUME NEW status \in ResultStatuses, Execute(w, status) PROVE ResultComing(j)'
      <3>1. worker'[w].pc = "executed" /\ worker'[w].event.job = j
        BY <1>0, <1>1, <2>7 DEF Execute
      <3>2. QED
        BY <3>1 DEF ResultComing
    <2>8. QED
      BY <2>1, <2>3, <2>4, <2>5, <2>6, <2>7, WorkerLeaves
  <1>2. ASSUME NEW e \in resultQueue, e.job = j PROVE ResultComing(j)'
    <2>1. CASE e \in resultQueue'
      BY <1>2, <2>1 DEF ResultComing
    <2>2. CASE Consume(e)
      <3>1. WorkerResultKey(e) = <<j, 0>>
        BY <1>2, OnlyRun DEF WorkerResultKey
      <3>2. WorkerResultKey(e) \notin LiveResultKeys
        <4>1. consumer = IdleConsumer
          BY <2>2 DEF Consume
        <4>2. <<j, 1>> \notin excused
          BY ExcusedGrows
        <4>3. QED
          BY <3>1, <4>1, <4>2 DEF FirstClaimsKept
      <3>3. consumer' = [pc |-> "claimed", event |-> e]
        BY <2>2, <3>2 DEF Consume
      <3>4. consumer' # IdleConsumer /\ consumer'.event.job = j
        BY <1>2, <3>3 DEF IdleConsumer
      <3>5. QED
        BY <3>4 DEF ResultComing
    <2>3. QED
      BY <2>1, <2>2, ResultLeaves
  <1>3. ASSUME consumer # IdleConsumer, consumer.event.job = j PROVE ResultComing(j)'
    <2>1. consumer.event.run = 1
      BY <1>3, OnlyRun
    <2>2. consumer' = consumer
      BY <1>3, <2>1, HitsExcuse, ConsumerLeaves
    <2>3. QED
      BY <1>3, <2>2 DEF ResultComing
  <1>4. QED
    BY <1>1, <1>2, <1>3 DEF ResultComing

(* An execution key is stored by its claim, and a result key by its own.    *)
LEMMA NewKeys ==
    ASSUME TypeOK, RowsInBudget, [Next]_vars, NEW k
    PROVE  /\ k \in LiveExecutionKeys' =>
                \/ k \in LiveExecutionKeys
                \/ \E w \in Workers : /\ ClaimExecution(w) /\ ExecutionKey(worker[w].event) = k
                                      /\ worker'[w] = [pc |-> "claimed", event |-> worker[w].event]
           /\ k \in LiveResultKeys' =>
                \/ k \in LiveResultKeys
                \/ \E e \in resultQueue : /\ WorkerResultKey(e) = k
                                          /\ consumer' = [pc |-> "claimed", event |-> e]
  <1>0. worker \in [Workers -> WorkerStates]
    BY DEF TypeOK
  <1>1. ASSUME NEW j \in Jobs, TableStep(j) PROVE UNCHANGED <<executionKeys, resultKeys>>
    BY <1>1, TableEffect
  <1>2. CASE TickClaim \/ Handle \/ UNCHANGED vars
    BY <1>2 DEF TickClaim, Handle, vars, LiveExecutionKeys, LiveResultKeys
  <1>3. ASSUME NEW claim \in tick, TickPublish(claim)
        PROVE  UNCHANGED <<executionKeys, resultKeys>>
    BY <1>3 DEF TickPublish
  <1>4. ASSUME NEW w \in Workers, WorkerStep(w), ~ClaimExecution(w)
        PROVE  UNCHANGED <<executionKeys, resultKeys>>
    BY <1>4 DEF WorkerStep, Receive, Execute, PublishResult
  <1>5. ASSUME NEW w \in Workers, ClaimExecution(w), k \in LiveExecutionKeys',
               k \notin LiveExecutionKeys
        PROVE  /\ ExecutionKey(worker[w].event) = k
               /\ worker'[w] = [pc |-> "claimed", event |-> worker[w].event]
    <2>1. CASE ExecutionKey(worker[w].event) \in LiveExecutionKeys
      BY <1>5, <2>1 DEF ClaimExecution, LiveExecutionKeys
    <2>2. CASE ExecutionKey(worker[w].event) \notin LiveExecutionKeys
      BY <1>0, <1>5, <2>2 DEF ClaimExecution, SetExecutionKey, LiveExecutionKeys
    <2>3. QED
      BY <2>1, <2>2
  <1>6. ASSUME NEW w \in Workers, ClaimExecution(w) PROVE resultKeys' = resultKeys
    BY <1>6 DEF ClaimExecution
  <1>7. ASSUME NEW e \in resultQueue, Consume(e), k \in LiveResultKeys', k \notin LiveResultKeys
        PROVE  WorkerResultKey(e) = k /\ consumer' = [pc |-> "claimed", event |-> e]
    BY <1>7 DEF Consume, LiveResultKeys
  <1>8. ASSUME NEW e \in resultQueue, Consume(e) PROVE executionKeys' = executionKeys
    BY <1>8 DEF Consume
  <1>9. CASE FaultStep
    <2>1. executionKeys' \subseteq executionKeys /\ resultKeys' \subseteq resultKeys
      BY <1>9 DEF FaultStep, TickPublishFails, SchedulerCrashes, DispatchDropped,
                  DispatchRedelivered, HandlerError, PublishTimesOut, WorkerCrashes,
                  HandleFails, ResultRedelivered, KeyExpires
    <2>2. QED
      BY <2>1 DEF LiveExecutionKeys, LiveResultKeys
  <1>10. ASSUME executionKeys' = executionKeys PROVE LiveExecutionKeys' = LiveExecutionKeys
    BY <1>10 DEF LiveExecutionKeys
  <1>11. ASSUME resultKeys' = resultKeys PROVE LiveResultKeys' = LiveResultKeys
    BY <1>11 DEF LiveResultKeys
  <1>12. QED
    BY <1>1, <1>2, <1>3, <1>4, <1>5, <1>6, <1>7, <1>8, <1>9, <1>10, <1>11 DEF Next

(* The keys of a first run are followed by what they were claimed for.      *)
LEMMA FirstClaimsStay ==
    ASSUME TypeOK, RowsInBudget, EventsBacked, KeysBacked, FirstClaimsKept, [Next]_vars
    PROVE  FirstClaimsKept'
  <1> SUFFICES ASSUME NEW j \in Jobs, jobs'[j].state = "dispatched", runs'[j] = 1,
                      <<j, 1>> \notin excused'
               PROVE  /\ <<j, 0>> \in LiveExecutionKeys' => ResultComing(j)'
                      /\ <<j, 0>> \in LiveResultKeys' =>
                            consumer' # IdleConsumer /\ consumer'.event.job = j
    BY DEF FirstClaimsKept
  <1>0. <<j, 1>> \notin excused
    BY ExcusedGrows
  <1>1. CASE TickClaim /\ runs[j] \in Nat /\ runs'[j] = runs[j] + 1
    <2>1. /\ \A k \in executionKeys \cup resultKeys : runs[k[1]] > 0
          /\ UNCHANGED <<executionKeys, resultKeys>>
      BY <1>1 DEF KeysBacked, TickClaim
    <2>2. runs[j] = 0
      BY <1>1
    <2>3. <<j, 0>> \notin executionKeys' \cup resultKeys'
      BY <2>1, <2>2
    <2>4. QED
      BY <2>3 DEF LiveExecutionKeys, LiveResultKeys
  <1>2. CASE /\ jobs[j].state = "dispatched" /\ runs'[j] = runs[j]
             /\ ~(Handle /\ consumer.event.job = j)
    <2>0. runs[j] = 1
      BY <1>2
    <2>1. ASSUME <<j, 0>> \in LiveExecutionKeys' PROVE ResultComing(j)'
      <3>1. CASE <<j, 0>> \in LiveExecutionKeys
        <4>1. ResultComing(j)
          BY <1>0, <1>2, <2>0, <3>1 DEF FirstClaimsKept
        <4>2. QED
          BY <1>2, <2>0, <4>1, ComingKept
      <3>2. ASSUME NEW w \in Workers, ExecutionKey(worker[w].event) = <<j, 0>>,
                   worker'[w] = [pc |-> "claimed", event |-> worker[w].event]
            PROVE  ResultComing(j)'
        <4>1. worker'[w].pc = "claimed" /\ worker'[w].event.job = j
          BY <3>2 DEF ExecutionKey
        <4>2. QED
          BY <4>1 DEF ResultComing
      <3>3. QED
        BY <2>1, <3>1, <3>2, NewKeys
    <2>2. ASSUME <<j, 0>> \in LiveResultKeys'
          PROVE  consumer' # IdleConsumer /\ consumer'.event.job = j
      <3>1. CASE <<j, 0>> \in LiveResultKeys
        <4>1. consumer # IdleConsumer /\ consumer.event.job = j
          BY <1>0, <1>2, <2>0, <3>1 DEF FirstClaimsKept
        <4>2. consumer.event.run = 1
          BY <2>0, <4>1, OnlyRun
        <4>3. consumer' = consumer
          BY <1>2, <4>1, <4>2, HitsExcuse, ConsumerLeaves
        <4>4. QED
          BY <4>1, <4>3
      <3>2. ASSUME NEW e \in resultQueue, WorkerResultKey(e) = <<j, 0>>,
                   consumer' = [pc |-> "claimed", event |-> e]
            PROVE  consumer' # IdleConsumer /\ consumer'.event.job = j
        BY <3>2 DEF WorkerResultKey, IdleConsumer
      <3>3. QED
        BY <2>2, <3>1, <3>2, NewKeys
    <2>3. QED
      BY <2>1, <2>2
  <1>3. QED
    BY <1>1, <1>2, StaysDispatched

(* What is on the way for run r of job j.                                   *)
OnTheWay(j, r) ==
    \/ \E claim \in tick : claim.job = j /\ claim.run = r
    \/ \E e \in dispatchQueue : e.job = j /\ e.run = r
    \/ \E w \in Workers :
          worker[w] # IdleWorker /\ worker[w].event.job = j /\ worker[w].event.run = r
    \/ \E event \in resultQueue : event.job = j /\ event.run = r
    \/ consumer # IdleConsumer /\ consumer.event.job = j /\ consumer.event.run = r

(* A dispatch that is under way is lost by a fault that hits it, or skipped *)
(* for a key of an earlier run.                                             *)
LEMMA WayKept ==
    ASSUME TypeOK, RowsInBudget, EventsBacked, KeysBacked, FirstClaimsKept, [Next]_vars,
           NEW j \in Jobs, jobs[j].state = "dispatched",
           ~(Handle /\ consumer.event.job = j),
           NEW r \in Nat \ {0}, r = runs[j],
           <<j, r>> \notin excused', OnTheWay(j, r)
    PROVE  OnTheWay(j, r)'
  <1> DEFINE Goal == OnTheWay(j, r)'
  <1>0. worker \in [Workers -> WorkerStates]
    BY DEF TypeOK
  <1>x. <<j, r>> \notin excused /\ <<j, r>> \notin excused'
    BY ExcusedGrows
  <1>1. ASSUME NEW c \in tick, c.job = j, c.run = r PROVE Goal
    <2>1. ~TickPublishFails(c) /\ ~SchedulerCrashes
      BY <1>1, <1>x, HitsExcuse
    <2>2. CASE c \in tick'
      BY <1>1, <2>2 DEF OnTheWay
    <2>3. CASE TickPublish(c)
      <3>1. CASE DispatchKey(c) \in dispatchKeys
        <4>1. Suppressed(c)
          BY <2>3, <3>1 DEF TickPublish
        <4>2. ~(r > 1)
          BY <1>1, <1>x, <4>1 DEF Suppressed
        <4>3. c.run = 1
          BY <1>1, <4>2
        <4>4. DispatchKey(c)[1] = c.job
          BY DEF DispatchKey
        <4>5. QED
          BY <3>1, <4>3, <4>4 DEF KeysBacked
      <3>2. CASE DispatchKey(c) \notin dispatchKeys
        <4>1. DispatchEvent(c) \in dispatchQueue'
          BY <2>3, <3>2 DEF TickPublish
        <4>2. DispatchEvent(c).job = j /\ DispatchEvent(c).run = r
          BY <1>1 DEF DispatchEvent
        <4>3. QED
          BY <4>1, <4>2 DEF OnTheWay
      <3>3. QED
        BY <3>1, <3>2
    <2>4. QED
      BY <2>1, <2>2, <2>3, ClaimLeaves
  <1>2. ASSUME NEW e \in dispatchQueue, e.job = j, e.run = r PROVE Goal
    <2>1. ~DispatchDropped(e)
      BY <1>2, <1>x, HitsExcuse
    <2>2. CASE e \in dispatchQueue'
      BY <1>2, <2>2 DEF OnTheWay
    <2>3. ASSUME NEW w \in Workers, Receive(w, e) PROVE Goal
      <3>1. worker'[w] = [pc |-> "received", event |-> e]
        BY <1>0, <2>3 DEF Receive
      <3>2. worker'[w] # IdleWorker /\ worker'[w].event = e
        BY <3>1 DEF IdleWorker
      <3>3. QED
        BY <1>2, <3>2 DEF OnTheWay
    <2>4. QED
      BY <2>1, <2>2, <2>3, DispatchLeaves
  <1>3. ASSUME NEW w \in Workers, worker[w] # IdleWorker, worker[w].event.job = j,
               worker[w].event.run = r
        PROVE  Goal
    <2>1. ~HandlerError(w) /\ ~WorkerCrashes(w)
      BY <1>3, <1>x, HitsExcuse
    <2>2. CASE worker'[w] = worker[w]
      BY <1>3, <2>2 DEF OnTheWay
    <2>3. CASE PublishResult(w) \/ PublishTimesOut(w)
      <3>1. WorkerResultEvent(worker[w].event, worker[w].status) \in resultQueue'
        BY <2>3 DEF PublishResult, PublishTimesOut, Publish
      <3>2. /\ WorkerResultEvent(worker[w].event, worker[w].status).job = j
            /\ WorkerResultEvent(worker[w].event, worker[w].status).run = r
        BY <1>3 DEF WorkerResultEvent
      <3>3. QED
        BY <3>1, <3>2 DEF OnTheWay
    <2>4. ASSUME NEW status \in ResultStatuses, Execute(w, status) PROVE Goal
      <3>1. worker'[w].pc = "executed" /\ worker'[w].event = worker[w].event
        BY <1>0, <2>4 DEF Execute
      <3>2. worker'[w] # IdleWorker
        BY <3>1 DEF IdleWorker
      <3>3. QED
        BY <1>3, <3>1, <3>2 DEF OnTheWay
    <2>5. CASE ClaimExecution(w) /\ ExecutionKey(worker[w].event) \notin LiveExecutionKeys
      <3>1. worker'[w] = [pc |-> "claimed", event |-> worker[w].event]
        BY <1>0, <2>5 DEF ClaimExecution
      <3>2. worker'[w] # IdleWorker /\ worker'[w].event = worker[w].event
        BY <3>1 DEF IdleWorker
      <3>3. QED
        BY <1>3, <3>2 DEF OnTheWay
    <2>6. CASE ClaimExecution(w) /\ ExecutionKey(worker[w].event) \in LiveExecutionKeys
      <3>1. /\ Suppressed(worker[w].event) /\ worker[w].pc = "received"
            /\ worker' = [worker EXCEPT ![w] = IdleWorker]
            /\ UNCHANGED <<resultQueue, consumer>>
        BY <2>6 DEF ClaimExecution
      <3>2. ~(r > 1)
        BY <1>3, <1>x, <3>1 DEF Suppressed
      <3>3. r = 1 /\ runs[j] = 1
        BY <3>2
      <3>4. ExecutionKey(worker[w].event) = <<j, 0>>
        BY <1>3, <3>3, OnlyRun DEF ExecutionKey
      <3>5. ResultComing(j)
        BY <1>x, <2>6, <3>3, <3>4 DEF FirstClaimsKept
      <3>6. ASSUME NEW v \in Workers, worker[v].pc \in {"claimed", "executed"},
                   worker[v].event.job = j
            PROVE  Goal
        <4>1. v # w /\ worker[v] # IdleWorker
          BY <3>1, <3>6 DEF IdleWorker
        <4>2. worker'[v] = worker[v]
          BY <1>0, <3>1, <4>1
        <4>3. worker[v].event.run = 1
          BY <3>3, <3>6, <4>1, OnlyRun
        <4>4. QED
          BY <3>3, <3>6, <4>1, <4>2, <4>3 DEF OnTheWay
      <3>7. ASSUME NEW e \in resultQueue, e.job = j PROVE Goal
        BY <3>1, <3>3, <3>7, OnlyRun DEF OnTheWay
      <3>8. ASSUME consumer # IdleConsumer, consumer.event.job = j PROVE Goal
        BY <3>1, <3>3, <3>8, OnlyRun DEF OnTheWay
      <3>9. QED
        BY <3>5, <3>6, <3>7, <3>8 DEF ResultComing
    <2>7. QED
      BY <1>3, <2>1, <2>2, <2>3, <2>4, <2>5, <2>6, WorkerLeaves
  <1>4. ASSUME NEW e \in resultQueue, e.job = j, e.run = r PROVE Goal
    <2>1. CASE e \in resultQueue'
      BY <1>4, <2>1 DEF OnTheWay
    <2>2. CASE Consume(e) /\ WorkerResultKey(e) \notin LiveResultKeys
      <3>1. consumer' = [pc |-> "claimed", event |-> e]
        BY <2>2 DEF Consume
      <3>2. consumer' # IdleConsumer /\ consumer'.event = e
        BY <3>1 DEF IdleConsumer
      <3>3. QED
        BY <1>4, <3>2 DEF OnTheWay
    <2>3. CASE Consume(e) /\ WorkerResultKey(e) \in LiveResultKeys
      <3>1. Suppressed(e) /\ consumer = IdleConsumer
        BY <2>3 DEF Consume
      <3>2. ~(r > 1)
        BY <1>4, <1>x, <3>1 DEF Suppressed
      <3>3. r = 1 /\ runs[j] = 1
        BY <3>2
      <3>4. WorkerResultKey(e) = <<j, 0>>
        BY <1>4, <3>3, OnlyRun DEF WorkerResultKey
      <3>5. QED
        BY <1>x, <2>3, <3>1, <3>3, <3>4 DEF FirstClaimsKept
    <2>4. QED
      BY <2>1, <2>2, <2>3, ResultLeaves
  <1>5. ASSUME consumer # IdleConsumer, consumer.event.job = j, consumer.event.run = r
        PROVE  Goal
    <2>1. consumer' = consumer
      BY <1>5, <1>x, HitsExcuse, ConsumerLeaves
    <2>2. QED
      BY <1>5, <2>1 DEF OnTheWay
  <1>6. QED
    BY <1>1, <1>2, <1>3, <1>4, <1>5 DEF OnTheWay

(* FaultsStayLocal is kept by every step, given PipelineInv.                *)
LEMMA FaultsLocalKept ==
    ASSUME PipelineInv, FaultsStayLocal, [Next]_vars
    PROVE  FaultsStayLocal'
  <1> SUFFICES ASSUME NEW j \in Jobs, jobs'[j].state = "dispatched",
                      <<j, runs'[j]>> \notin excused'
               PROVE  LatestInFlight(j)'
    BY DEF FaultsStayLocal
  <1>0. /\ TypeOK /\ RowsInBudget /\ EventsBacked /\ KeysBacked /\ FirstClaimsKept
        /\ runs[j] \in Nat
    BY DEF PipelineInv, TypeOK
  <1>1. CASE \E c \in tick' : c.job = j /\ c.run = runs'[j]
    BY <1>1 DEF LatestInFlight
  <1>2. CASE /\ jobs[j].state = "dispatched" /\ runs'[j] = runs[j]
             /\ ~(Handle /\ consumer.event.job = j)
    <2>1. <<j, runs[j]>> \notin excused
      BY <1>0, <1>2, ExcusedGrows
    <2> PICK r \in Nat : r = runs[j] /\ r = runs'[j]
      BY <1>0, <1>2
    <2>2. OnTheWay(j, r)
      <3>1. LatestInFlight(j)
        BY <1>2, <2>1 DEF FaultsStayLocal
      <3>2. QED
        BY <3>1 DEF LatestInFlight, OnTheWay
    <2>3. r # 0
      <3>1. ASSUME NEW x, OfARun(x), x.job = j PROVE r # 0
        <4>1. x.run \in 1 .. r
          BY <3>1 DEF OfARun
        <4>2. QED
          BY <4>1
      <3>2. /\ \A c \in tick : c.run = runs[c.job] /\ c.run > 0
            /\ \A e \in dispatchQueue : OfARun(e)
            /\ \A w \in Workers : worker[w] # IdleWorker => OfARun(worker[w].event)
            /\ \A e \in resultQueue : OfARun(e)
            /\ consumer # IdleConsumer => OfARun(consumer.event)
        BY <1>0 DEF EventsBacked, TypeOK
      <3>3. QED
        BY <2>2, <3>1, <3>2 DEF OnTheWay
    <2>4. OnTheWay(j, r)'
      BY <1>0, <1>2, <2>2, <2>3, WayKept
    <2>5. QED
      BY <2>4 DEF LatestInFlight, OnTheWay
  <1>3. QED
    BY <1>0, <1>1, <1>2, StaysDispatched

(* Without durable stores a run finds no key of an earlier one.             *)
LEMMA NoneSuppressedKept ==
    ASSUME TypeOK, RowsInBudget, KeysBacked, NoneSuppressed, [Next]_vars
    PROVE  NoneSuppressed'
  <1> SUFFICES ASSUME DefaultDeployment, faults' = 0
               PROVE  excused' = {}
    BY DEF NoneSuppressed, DefaultDeployment
  <1>0. /\ faults = 0 /\ ~FaultStep
    BY FaultFree
  <1>e. excused = {}
    BY <1>0 DEF NoneSuppressed
  <1>k. LiveExecutionKeys = {} /\ LiveResultKeys = {}
    BY DEF DefaultDeployment, LiveExecutionKeys, LiveResultKeys
  <1>1. ASSUME NEW j \in Jobs, TableStep(j) PROVE excused' = excused
    BY <1>1, TableEffect
  <1>2. CASE TickClaim \/ Handle \/ UNCHANGED vars
    BY <1>e, <1>2 DEF TickClaim, Handle, vars
  <1>3. ASSUME NEW claim \in tick, TickPublish(claim) PROVE excused' = excused
    <2>1. DispatchKey(claim)[1] = claim.job
      BY DEF DispatchKey
    <2>2. DispatchKey(claim) \notin dispatchKeys
      BY <2>1 DEF KeysBacked, DefaultDeployment
    <2>3. QED
      BY <1>3, <2>2 DEF TickPublish
  <1>4. ASSUME NEW w \in Workers, WorkerStep(w) PROVE excused' = excused
    BY <1>k, <1>4 DEF WorkerStep, Receive, ClaimExecution, Execute, PublishResult
  <1>5. ASSUME NEW e \in resultQueue, Consume(e) PROVE excused' = excused
    BY <1>k, <1>5 DEF Consume
  <1>6. QED
    BY <1>0, <1>e, <1>1, <1>2, <1>3, <1>4, <1>5 DEF Next

(***************************************************************************)
(* The invariant.                                                          *)
(***************************************************************************)

(* Nothing has happened yet.                                                *)
LEMMA InitPipelineInv == Init => PipelineInv
  <1> SUFFICES ASSUME Init PROVE PipelineInv
    OBVIOUS
  <1>1. AbsentRow \in JobRecord /\ AbsentRow.state = "absent"
        /\ AbsentRow.retry_count = 0 /\ AbsentRow.max_retries = 0
    BY NullAssumption, EnqueueAssumption DEF AbsentRow, JobRecord, JobStates, Time
  <1>2. IdleWorker \in WorkerStates /\ IdleConsumer \in ConsumerStates
    BY DEF WorkerStates, ConsumerStates
  <1>3. \A j \in Jobs : jobs[j] = AbsentRow /\ runs[j] = 0 /\ failures[j] = 0
    BY DEF Init
  <1>4. \A w \in Workers : worker[w] = IdleWorker
    BY DEF Init
  <1>5. TypeOK
    BY <1>1, <1>2 DEF Init, TypeOK
  <1>6. RowsInBudget
    BY <1>1, <1>3 DEF RowsInBudget
  <1>7. EventsBacked
    <2>1. IsFiniteSet(resultQueue)
      BY FS_EmptySet DEF Init
    <2>2. \A w \in Workers : worker[w].pc # "executed"
      BY <1>4 DEF IdleWorker
    <2>3. QED
      BY <1>4, <2>1, <2>2 DEF Init, EventsBacked
  <1>8. KeysBacked
    BY DEF Init, KeysBacked
  <1>9. ClaimsCounted
    <2>1. ASSUME NEW k \in Keys
          PROVE  /\ Executing(k) = {} /\ Writing(k) = 0
                 /\ executions[k] = 0 /\ applied[k] = 0
                 /\ expiries[<<"execution", k>>] = 0 /\ expiries[<<"result", k>>] = 0
                 /\ executionKeys = {} /\ resultKeys = {}
      BY <1>4 DEF Init, Executing, Writing, IdleWorker, ExpiringKeys
    <2>2. Cardinality({}) = 0
      BY FS_EmptySet
    <2>3. QED
      <3> SUFFICES ASSUME NEW k \in Keys
                   PROVE  /\ executions[k] + Cardinality(Executing(k))
                               <= Lives(executionKeys, k, expiries[<<"execution", k>>])
                          /\ applied[k] + Writing(k)
                               <= Lives(resultKeys, k, expiries[<<"result", k>>])
        BY DEF ClaimsCounted
      <3>0. /\ executions[k] = 0 /\ Cardinality(Executing(k)) = 0
            /\ applied[k] = 0 /\ Writing(k) = 0
        BY <2>1, <2>2
      <3>1. executions[k] + Cardinality(Executing(k)) = 0 /\ applied[k] + Writing(k) = 0
        BY <3>0
      <3>2. /\ Lives(executionKeys, k, expiries[<<"execution", k>>]) = 0
            /\ Lives(resultKeys, k, expiries[<<"result", k>>]) = 0
        BY <2>1 DEF Lives
      <3>3. QED
        BY <3>1, <3>2
  <1>10. FirstRun
    <2>1. checked = {}
      BY DEF Init
    <2>2. QED
      BY <1>1, <1>3, <2>1 DEF FirstRun
  <1>11. ChargesBacked
    <2>1. ASSUME NEW j \in Jobs
          PROVE  /\ ToPublish(j) = {} /\ ToConsume(j) = {} /\ ToWrite(j) = 0
                 /\ applied[<<j, 0>>] = 0
      BY <1>4, AttemptsFacts DEF Init, ToPublish, ToConsume, ToWrite, IdleWorker, Keys
    <2>2. Cardinality({}) = 0
      BY FS_EmptySet
    <2>3. QED
      <3> SUFFICES ASSUME NEW j \in Jobs
                   PROVE  /\ jobs[j].retry_count <= applied[<<j, 0>>]
                          /\ ~(jobs[j].retry_count > 0)
                          /\ <<j, "retryable_failure">> \notin reported
                          /\ jobs[j].retry_count + Cardinality(ToPublish(j))
                               + Cardinality(ToConsume(j)) + ToWrite(j) <= failures[j]
        BY DEF ChargesBacked
      <3>1. /\ jobs[j].retry_count = 0 /\ applied[<<j, 0>>] = 0 /\ failures[j] = 0
            /\ reported = {}
        BY <1>1, <1>3, <2>1 DEF Init
      <3>2. /\ Cardinality(ToPublish(j)) = 0 /\ Cardinality(ToConsume(j)) = 0
            /\ ToWrite(j) = 0
        BY <2>1, <2>2
      <3>3. QED
        BY <3>1, <3>2
  <1>12. FirstClaimsKept
    BY <1>3 DEF FirstClaimsKept
  <1>13. NoneSuppressed
    BY DEF Init, NoneSuppressed
  <1>14. QED
    BY <1>5, <1>6, <1>7, <1>8, <1>9, <1>10, <1>11, <1>12, <1>13 DEF PipelineInv

(* PipelineInv is inductive.                                                *)
LEMMA NextPipelineInv == PipelineInv /\ [Next]_vars => PipelineInv'
  <1> SUFFICES ASSUME PipelineInv, [Next]_vars PROVE PipelineInv'
    OBVIOUS
  <1>0. /\ TypeOK /\ RowsInBudget /\ EventsBacked /\ KeysBacked /\ ClaimsCounted
        /\ FirstRun /\ ChargesBacked /\ FirstClaimsKept /\ NoneSuppressed
    BY DEF PipelineInv
  <1>1. TypeOK' /\ RowsInBudget'
    BY <1>0, TypesKept
  <1>2. EventsBacked' /\ KeysBacked'
    BY <1>0, EventsKept, KeysKept
  <1>3. ClaimsCounted' /\ FirstRun' /\ ChargesBacked'
    BY <1>0, ClaimsKept, FirstRunKept, ChargesKept
  <1>4. FirstClaimsKept' /\ NoneSuppressed'
    BY <1>0, FirstClaimsStay, NoneSuppressedKept
  <1>5. QED
    BY <1>1, <1>2, <1>3, <1>4 DEF PipelineInv

(* TypeOK and everything below rest on it: whatever the stores, with any    *)
(* number of jobs, workers and faults, PipelineInv holds in every state.    *)
THEOREM PipelineInvariant == Spec => []PipelineInv
  BY InitPipelineInv, NextPipelineInv, PTL DEF Spec

(* Claim before Execute: with the durable store an execution key runs once  *)
(* for each of its lives, through redelivery, crashes and late publishes.   *)
THEOREM ExecutionsOnce == Spec => []ExecutedOncePerKey
  <1>1. PipelineInv => ExecutedOncePerKey
    <2> SUFFICES ASSUME PipelineInv, ExecutionStore = "redis", NEW k \in Keys
                 PROVE  executions[k] <= 1 + expiries[<<"execution", k>>]
      BY DEF ExecutedOncePerKey
    <2>0. TypeOK
      BY DEF PipelineInv
    <2>1. /\ executions[k] \in Nat /\ expiries[<<"execution", k>>] \in Nat
          /\ Cardinality(Executing(k)) \in Nat
      BY <2>0, CountTypes
    <2>2. executions[k] + Cardinality(Executing(k))
            <= Lives(executionKeys, k, expiries[<<"execution", k>>])
      BY DEF PipelineInv, ClaimsCounted
    <2>3. Lives(executionKeys, k, expiries[<<"execution", k>>])
             \in {expiries[<<"execution", k>>], 1 + expiries[<<"execution", k>>]}
      BY <2>1 DEF Lives
    <2>4. QED
      BY <2>1, <2>2, <2>3
  <1>2. QED
    BY <1>1, PipelineInvariant, PTL

(* A result that is being written counts against the lives of its key.      *)
LEMMA PipelineOnce == PipelineInv => AppliedOncePerKey
  <1> SUFFICES ASSUME PipelineInv, ResultStore = "redis", NEW k \in Keys
               PROVE  applied[k] <= 1 + expiries[<<"result", k>>]
    BY DEF AppliedOncePerKey
  <1>0. TypeOK
    BY DEF PipelineInv
  <1>1. applied[k] \in Nat /\ expiries[<<"result", k>>] \in Nat /\ Writing(k) \in {0, 1}
    BY <1>0, CountTypes
  <1>2. applied[k] + Writing(k) <= Lives(resultKeys, k, expiries[<<"result", k>>])
    BY DEF PipelineInv, ClaimsCounted
  <1>3. Lives(resultKeys, k, expiries[<<"result", k>>])
           \in {expiries[<<"result", k>>], 1 + expiries[<<"result", k>>]}
    BY <1>1 DEF Lives
  <1>4. QED
    BY <1>1, <1>2, <1>3

(* Claim before write: with the durable store a result key reaches the      *)
(* table once for each of its lives.                                        *)
THEOREM ResultsOnce == Spec => []AppliedOncePerKey
  BY PipelineOnce, PipelineInvariant, PTL

(***************************************************************************)
(* What a result may say.                                                  *)
(***************************************************************************)

(* The state of a row that has an outcome was reported by an executor.      *)
OutcomeReported(j) ==
    /\ jobs[j].state = "succeeded" => <<j, "succeeded">> \in reported
    /\ jobs[j].state = "failed" => <<j, "terminal_failure">> \in reported
    /\ jobs[j].state = "dead_lettered" => <<j, "retryable_failure">> \in reported

(* A row gets an outcome from a result with that status, and results were   *)
(* reported.                                                                *)
LEMMA OutcomeKept ==
    ASSUME TypeOK, RowsInBudget, EventsBacked, [Next]_vars, NEW j \in Jobs, OutcomeReported(j)
    PROVE  OutcomeReported(j)'
  <1>0. reported \subseteq reported'
    BY HistoryGrows
  <1>1. CASE jobs'[j] = jobs[j]
    BY <1>0, <1>1 DEF OutcomeReported
  <1>2. CASE TableMove(jobs[j], jobs'[j])
    BY <1>2 DEF TableMove, OutcomeReported
  <1>3. CASE TickClaim
    <2>1. jobs'[j] = jobs[j] \/ jobs'[j].state = "dispatched"
      BY <1>3, TickClaimEffect, DispatchRowIs DEF TypeOK
    <2>2. QED
      BY <1>1, <2>1 DEF OutcomeReported
  <1>4. CASE Handle /\ consumer.event.job = j
    <2>1. /\ ResultMove(jobs[j], jobs'[j], consumer.event.status)
          /\ <<j, consumer.event.status>> \in reported
      BY <1>4, HandleEffect
    <2>2. QED
      BY <1>0, <2>1 DEF ResultMove, OutcomeReported
  <1>5. CASE Handle /\ consumer.event.job # j
    BY <1>1, <1>5, HandleEffect
  <1>6. ASSUME NEW i \in Jobs, TableStep(i)
        PROVE  jobs'[j] = jobs[j] \/ TableMove(jobs[j], jobs'[j])
    BY <1>6, TableEffect
  <1>7. QED
    BY <1>1, <1>2, <1>3, <1>4, <1>5, <1>6, TableAlone

(* Every unit of retry_count stands for a failure that was reported, unless *)
(* its result key was lost.                                                 *)
LEMMA RetriesBacked ==
    ASSUME PipelineInv, NEW j \in Jobs, faults = 0 \/ ResultStore = "redis"
    PROVE  jobs[j].retry_count <= failures[j] + expiries[<<"result", <<j, 0>>>>]
  <1>0. TypeOK /\ EventsBacked /\ <<j, 0>> \in Keys /\ jobs[j].retry_count \in Nat
    BY AttemptsFacts DEF PipelineInv, TypeOK, Keys, JobRecord
  <1>1. applied[<<j, 0>>] \in Nat /\ expiries[<<"result", <<j, 0>>>>] \in Nat
    BY <1>0, CountTypes
  <1>2. PICK p \in Nat, c \in Nat, h \in {0, 1}, f \in Nat :
          /\ Cardinality(ToPublish(j)) = p /\ Cardinality(ToConsume(j)) = c /\ ToWrite(j) = h
          /\ failures[j] = f
    BY <1>0, OwedTypes
  <1>3. CASE faults = 0
    <2>1. jobs[j].retry_count + p + c + h <= f
      BY <1>2, <1>3 DEF PipelineInv, ChargesBacked
    <2>2. QED
      BY <1>0, <1>1, <1>2, <2>1
  <1>4. CASE ResultStore = "redis"
    <2>1. AppliedOncePerKey
      BY PipelineOnce
    <2>2. applied[<<j, 0>>] <= 1 + expiries[<<"result", <<j, 0>>>>]
      BY <1>0, <1>4, <2>1 DEF AppliedOncePerKey
    <2>3. /\ jobs[j].retry_count <= applied[<<j, 0>>]
          /\ jobs[j].retry_count > 0 => f > 0
      BY <1>2 DEF PipelineInv, ChargesBacked
    <2>4. QED
      BY <1>0, <1>1, <1>2, <2>2, <2>3
  <1>5. QED
    BY <1>3, <1>4

(* The table reports no outcome that no executor produced: succeeded,       *)
(* failed and dead_lettered rows and every unit of retry_count go back to a *)
(* report, for every store and every fault.                                 *)
THEOREM OutcomesAreBacked == Spec => []OutcomesBacked
  <1> DEFINE Inv == PipelineInv /\ \A j \in Jobs : OutcomeReported(j)
  <1>1. Init => Inv
    <2> SUFFICES ASSUME Init PROVE \A j \in Jobs : OutcomeReported(j)
      BY InitPipelineInv
    <2>1. \A j \in Jobs : jobs[j].state = "absent"
      BY DEF Init, AbsentRow
    <2>2. QED
      BY <2>1 DEF OutcomeReported
  <1>2. Inv /\ [Next]_vars => Inv'
    <2> SUFFICES ASSUME PipelineInv, [Next]_vars, NEW j \in Jobs, OutcomeReported(j)
                 PROVE  OutcomeReported(j)'
      BY NextPipelineInv
    <2>1. TypeOK /\ RowsInBudget /\ EventsBacked
      BY DEF PipelineInv
    <2>2. QED
      BY <2>1, OutcomeKept
  <1>3. Inv => OutcomesBacked
    BY RetriesBacked DEF OutcomesBacked, OutcomeReported
  <1> HIDE DEF Inv
  <1>4. QED
    BY <1>1, <1>2, <1>3, PTL DEF Spec

(***************************************************************************)
(* What a fault may do.                                                    *)
(***************************************************************************)

(* A row that stays dispatched with nothing under way was hit by a fault in *)
(* that very dispatch, or suppressed by a key of an earlier run of its own  *)
(* job; no fault strands another job.                                       *)
THEOREM FaultsAreLocal == Spec => []FaultsStayLocal
  <1> DEFINE Inv == PipelineInv /\ FaultsStayLocal
  <1>1. Init => Inv
    <2> SUFFICES ASSUME Init PROVE FaultsStayLocal
      BY InitPipelineInv
    <2>1. \A j \in Jobs : jobs[j].state = "absent"
      BY DEF Init, AbsentRow
    <2>2. QED
      BY <2>1 DEF FaultsStayLocal
  <1>2. Inv /\ [Next]_vars => Inv'
    BY NextPipelineInv, FaultsLocalKept
  <1>3. Inv => FaultsStayLocal
    OBVIOUS
  <1> HIDE DEF Inv
  <1>4. QED
    BY <1>1, <1>2, <1>3, PTL DEF Spec

(* In the default deployment (a store per tick, no execution store, a       *)
(* memory store for results) and as long as nothing fails, every            *)
(* dispatched row has something under way that will report on it.           *)
THEOREM NoneStranded ==
    ASSUME DefaultDeployment
    PROVE  Spec => []NothingStranded
  <1>1. PipelineInv /\ FaultsStayLocal => NothingStranded
    <2> SUFFICES ASSUME PipelineInv, FaultsStayLocal, faults = 0,
                        NEW j \in Jobs, jobs[j].state = "dispatched"
                 PROVE  InFlight(j)
      BY DEF NothingStranded
    <2>1. excused = {}
      BY DEF PipelineInv, NoneSuppressed
    <2>2. LatestInFlight(j)
      BY <2>1 DEF FaultsStayLocal
    <2>3. QED
      BY <2>2 DEF LatestInFlight, InFlight
  <1>2. QED
    BY <1>1, PipelineInvariant, FaultsAreLocal, PTL

(* With the durable result store, a result is written only to the dispatch  *)
(* it reports on, as long as its key has not expired.                       *)
THEOREM ResultsMeetTheirRun ==
    ASSUME ResultStore = "redis"
    PROVE  Spec => ResultMeetsItsRun
  <1> DEFINE Met == applied' # applied =>
          \/ consumer.event.run = runs[consumer.event.job]
          \/ expiries[<<"result", WorkerResultKey(consumer.event)>>] > 0
  <1>1. PipelineInv /\ [Next]_vars => Met
    <2> SUFFICES ASSUME PipelineInv, [Next]_vars, applied' # applied,
                        ~(expiries[<<"result", WorkerResultKey(consumer.event)>>] > 0)
                 PROVE  consumer.event.run = runs[consumer.event.job]
      OBVIOUS
    <2>0. TypeOK /\ RowsInBudget /\ EventsBacked
      BY DEF PipelineInv
    <2>1. Handle
      <3>1. \A e \in resultQueue : Consume(e) => applied' = applied
        BY DEF Consume
      <3>2. HandleFails => applied' = applied
        BY DEF HandleFails
      <3>3. \A x \in Keys : KeyExpires(x) => applied' = applied
        BY DEF KeyExpires
      <3>4. QED
        BY <2>0, <3>1, <3>2, <3>3, ConsumerAlone
    <2> DEFINE j == consumer.event.job
    <2>2. /\ consumer # IdleConsumer /\ j \in Jobs
          /\ consumer.event.run \in 1 .. runs[j]
          /\ WorkerResultKey(consumer.event) = <<j, 0>>
      BY <2>0, <2>1, HandleEffect
    <2>3. <<j, 0>> \in Keys
      BY <2>2, AttemptsFacts DEF Keys
    <2>4. /\ applied[<<j, 0>>] \in Nat /\ expiries[<<"result", <<j, 0>>>>] \in Nat
      BY <2>0, <2>3, CountTypes
    <2>5. Writing(<<j, 0>>) = 1
      BY <2>2 DEF Writing
    <2>6. applied[<<j, 0>>] + Writing(<<j, 0>>)
             <= Lives(resultKeys, <<j, 0>>, expiries[<<"result", <<j, 0>>>>])
      BY <2>3 DEF PipelineInv, ClaimsCounted
    <2>7. expiries[<<"result", <<j, 0>>>>] = 0
      BY <2>2, <2>4
    <2>8. Lives(resultKeys, <<j, 0>>, expiries[<<"result", <<j, 0>>>>]) \in {0, 1}
      BY <2>7 DEF Lives
    <2>9. applied[<<j, 0>>] = 0
      BY <2>4, <2>5, <2>6, <2>8
    <2>10. runs[j] <= 1 /\ runs[j] \in Nat
      BY <2>0, <2>2, <2>9 DEF PipelineInv, FirstRun, TypeOK
    <2>11. QED
      BY <2>2, <2>10
  <1>2. QED
    BY <1>1, PipelineInvariant, PTL DEF Spec, ResultMeetsItsRun
=============================================================================
