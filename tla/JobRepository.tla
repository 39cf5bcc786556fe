--------------------------- MODULE JobRepository ---------------------------
(***************************************************************************)
(* The statements of control_plane/kernelq/job_repository.py, each as what *)
(* it does to one row of the Postgres table "jobs" or which rows it        *)
(* selects.  When the statements run, in which transactions and against    *)
(* whom, is the business of the modules that extend this one.              *)
(*                                                                         *)
(* A row keeps the columns the control flow depends on.  tenant_id and     *)
(* payload are carried along unread; updated_at is written by every        *)
(* statement and read by the metrics only.  A job_id without a row is in   *)
(* state "absent".                                                         *)
(***************************************************************************)
EXTENDS Naturals, FiniteSets, FiniteSetsExt, JobState

CONSTANTS
    NULL,            \* SQL NULL in retry_after and dispatched_at
    Priorities,      \* values of the priority field of an enqueue request
    RetryBudgets,    \* values of its max_retries field
    RETRY_DELAY      \* DEFAULT_RETRY_DELAY_SECONDS, in units of the model clock

ASSUME NullAssumption == NULL \notin Nat
ASSUME EnqueueAssumption == Priorities \subseteq Nat /\ RetryBudgets \subseteq Nat
ASSUME RetryDelayAssumption == RETRY_DELAY \in Nat

Time == Nat

JobRecord == [state         : JobStates \cup {"absent"},
              priority      : Nat,
              max_retries   : Nat,
              retry_count   : Nat,
              retry_after   : Time \cup {NULL},
              created_at    : Time,
              dispatched_at : Time \cup {NULL}]

AbsentRow == [state |-> "absent", priority |-> 0, max_retries |-> 0,
              retry_count |-> 0, retry_after |-> NULL, created_at |-> 0,
              dispatched_at |-> NULL]

(* INSERT of create_job; the API always passes the state queued.           *)
CreateJob(priority, max_retries, now) ==
    [state |-> "queued", priority |-> priority, max_retries |-> max_retries,
     retry_count |-> 0, retry_after |-> NULL, created_at |-> now,
     dispatched_at |-> NULL]

(* UPDATE of update_job_state and update_job_state_from_worker_result: the *)
(* WHERE clause names the job and nothing else.                            *)
UpdateJobState(row, new_state) == [row EXCEPT !.state = new_state]

(* Mutants: the budget compared with <=, or retry_after not written.        *)
ScheduleRetryOneMore(row, now) ==
    IF row.retry_count <= row.max_retries
    THEN [row EXCEPT !.state = "retry_scheduled",
                     !.retry_count = row.retry_count + 1,
                     !.retry_after = now + RETRY_DELAY]
    ELSE [row EXCEPT !.state = "dead_lettered"]

ScheduleRetryUntimed(row, now) ==
    IF row.retry_count < row.max_retries
    THEN [row EXCEPT !.state = "retry_scheduled", !.retry_count = row.retry_count + 1]
    ELSE [row EXCEPT !.state = "dead_lettered"]

(* UPDATE of schedule_retry_from_worker_result, again with no condition on *)
(* the state the row is in.                                                *)
ScheduleRetry(row, now) ==
    IF row.retry_count < row.max_retries
    THEN [row EXCEPT !.state = "retry_scheduled",
                     !.retry_count = row.retry_count + 1,
                     !.retry_after = now + RETRY_DELAY]
    ELSE [row EXCEPT !.state = "dead_lettered"]

(* Mutants: the scan forgets to compare retry_after with the time, or       *)
(* forgets the state.                                                       *)
RetryDueAtOnce(row, now) == row.state = "retry_scheduled" /\ row.retry_after # NULL
RetryDueAnyState(row, now) == row.retry_after # NULL /\ row.retry_after <= now

(* WHERE and SET of requeue_due_retries; NULL <= now is not true in SQL.   *)
RetryDue(row, now) ==
    /\ row.state = "retry_scheduled"
    /\ row.retry_after # NULL
    /\ row.retry_after <= now

RequeueRetry(row) == [row EXCEPT !.state = "queued"]

(* Mutant: the back-off of the last failure is not cleared.                 *)
RequeueDeadLetteredBackoff(row) ==
    IF row.state = "dead_lettered" THEN [row EXCEPT !.state = "queued"] ELSE row

(* UPDATE of requeue_dead_lettered_job, guarded by the state.              *)
RequeueDeadLettered(row) ==
    IF row.state = "dead_lettered"
    THEN [row EXCEPT !.state = "queued", !.retry_after = NULL]
    ELSE row

Schedulable(row) == row.state = "queued"

(* Mutant: dispatched_at = NOW() without the COALESCE.                      *)
DispatchRowEveryTime(row, now) ==
    [row EXCEPT !.state = "dispatched", !.dispatched_at = now]

(* SET of claim_schedulable_jobs and mark_job_dispatched: dispatched_at is *)
(* written on the first dispatch only.                                     *)
DispatchRow(row, now) ==
    [row EXCEPT !.state = "dispatched",
                !.dispatched_at = IF row.dispatched_at = NULL
                                  THEN now ELSE row.dispatched_at]

(* ORDER BY priority DESC, created_at ASC: r must be taken before s.       *)
ClaimedBefore(r, s) ==
    \/ r.priority > s.priority
    \/ r.priority = s.priority /\ r.created_at < s.created_at

(* ORDER BY retry_after ASC, created_at ASC.                               *)
RequeuedBefore(r, s) ==
    \/ r.retry_after < s.retry_after
    \/ r.retry_after = s.retry_after /\ r.created_at < s.created_at

(* The sets ORDER BY ... LIMIT may select from the candidates: as many as  *)
(* the limit allows, and nobody left out that goes before one taken.  Ties *)
(* are broken by Postgres as it likes.                                     *)
ClaimBatches(table, candidates, limit) ==
    {B \in SUBSET candidates :
        /\ Cardinality(B) = Min({limit, Cardinality(candidates)})
        /\ \A b \in B, c \in candidates \ B : ~ClaimedBefore(table[c], table[b])}

RequeueBatches(table, candidates, limit) ==
    {B \in SUBSET candidates :
        /\ Cardinality(B) = Min({limit, Cardinality(candidates)})
        /\ \A b \in B, c \in candidates \ B : ~RequeuedBefore(table[c], table[b])}

(***************************************************************************)
(* result_handler.py: what a worker result does to its row.                *)
(***************************************************************************)
ResultStatuses == {"succeeded", "retryable_failure", "terminal_failure"}

(* Mutant: every result that is not retryable counts as a success.          *)
MapResultStatusNotRetryable(status) ==
    IF status = "retryable_failure" THEN "failed" ELSE "succeeded"

MapResultStatus(status) ==
    IF status = "succeeded" THEN "succeeded" ELSE "failed"

HandleResult(row, status, now) ==
    IF status = "retryable_failure"
    THEN ScheduleRetry(row, now)
    ELSE UpdateJobState(row, MapResultStatus(status))
=============================================================================
