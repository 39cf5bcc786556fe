--------------------------- MODULE JobStoreProofs ---------------------------
(***************************************************************************)
(* Proofs about JobStore for every set of jobs, API threads and scheduler  *)
(* processes, every limit, delay and retry budget.  The argument has two   *)
(* halves: what each SQL statement does to a row that satisfies RowInv     *)
(* (no concurrency), and that the locks of an open transaction keep what   *)
(* it selected true until it commits (no arithmetic).                      *)
(***************************************************************************)
EXTENDS JobStore, NumberTheorems

(***************************************************************************)
(* One statement, one row.                                                 *)
(***************************************************************************)

(* create_job gives an absent job its first stay in the queue.              *)
LEMMA CreateJobRow ==
    ASSUME NEW p \in Nat, NEW b \in Nat, NEW m \in Nat, NEW now \in Nat,
           NEW at \in Nat, at <= now
    PROVE  /\ CreateJob(p, b, at) \in JobRecord
           /\ RowInv(CreateJob(p, b, at), 1, 0, m, now)
  BY NullAssumption DEF CreateJob, JobRecord, JobStates, Time, RowInv, CompletedStates

(* update_job_state to a state that is neither queued nor dispatched nor    *)
(* retry_scheduled disturbs nothing but the state.                          *)
LEMMA UpdateJobStateRow ==
    ASSUME NEW row \in JobRecord, NEW q \in Nat, NEW d \in Nat, NEW m \in Nat,
           NEW now \in Nat, NEW s \in {"canceled", "succeeded", "failed"},
           RowInv(row, q, d, m, now), s # "canceled" => d > 0
    PROVE  /\ UpdateJobState(row, s) \in JobRecord
           /\ RowInv(UpdateJobState(row, s), q, d, m, now)
  BY NullAssumption DEF UpdateJobState, JobRecord, JobStates, Time, RowInv, CompletedStates

(* The API retry pays for the run it asks for with one manual intervention. *)
LEMMA ApiRetryRow ==
    ASSUME NEW row \in JobRecord, NEW q \in Nat, NEW d \in Nat, NEW m \in Nat,
           NEW now \in Nat, RowInv(row, q, d, m, now), d > 0
    PROVE  /\ UpdateJobState(row, "retry_scheduled") \in JobRecord
           /\ RowInv(UpdateJobState(row, "retry_scheduled"), q, d, m + 1, now)
  BY NullAssumption DEF UpdateJobState, JobRecord, JobStates, Time, RowInv, CompletedStates

(* A retryable failure pays with retry_count, or dead-letters the job.      *)
LEMMA ScheduleRetryRow ==
    ASSUME NEW row \in JobRecord, NEW q \in Nat, NEW d \in Nat, NEW m \in Nat,
           NEW now \in Nat, RowInv(row, q, d, m, now), d > 0
    PROVE  /\ ScheduleRetry(row, now) \in JobRecord
           /\ RowInv(ScheduleRetry(row, now), q, d, m, now)
  <1>1. CASE row.retry_count < row.max_retries
    <2> DEFINE new == ScheduleRetry(row, now)
    <2>0. row.retry_count + 1 \in Nat /\ now + RETRY_DELAY \in Time \cup {NULL}
      BY RetryDelayAssumption DEF JobRecord, Time
    <2>1. /\ new \in JobRecord
          /\ new.state = "retry_scheduled"
          /\ new.retry_count = row.retry_count + 1
          /\ new.max_retries = row.max_retries
          /\ new.created_at = row.created_at
          /\ new.dispatched_at = row.dispatched_at
      BY <1>1, <2>0 DEF ScheduleRetry, JobRecord, JobStates
    <2> HIDE DEF new
    <2>2. RowInv(new, q, d, m, now)
      BY <1>1, <2>1, NullAssumption DEF JobRecord, Time, RowInv, CompletedStates
    <2>3. QED
      BY <2>1, <2>2 DEF new
  <1>2. CASE ~(row.retry_count < row.max_retries)
    BY <1>2, NullAssumption DEF ScheduleRetry, JobRecord, JobStates, Time, RowInv, CompletedStates
  <1>3. QED
    BY <1>1, <1>2

(* A due retry goes back to the queue on the retry it was scheduled for.    *)
LEMMA RequeueRetryRow ==
    ASSUME NEW row \in JobRecord, NEW q \in Nat, NEW d \in Nat, NEW m \in Nat,
           NEW now \in Nat, NEW at \in Nat, at <= now, RetryDue(row, at),
           RowInv(row, q, d, m, now)
    PROVE  /\ RequeueRetry(row) \in JobRecord
           /\ RowInv(RequeueRetry(row), q + 1, d, m, now)
  BY NullAssumption DEF RequeueRetry, RetryDue, JobRecord, JobStates, Time, RowInv, CompletedStates

(* The operator's requeue pays with one manual intervention, and clears the *)
(* back-off.                                                                *)
LEMMA RequeueDeadLetteredRow ==
    ASSUME NEW row \in JobRecord, NEW q \in Nat, NEW d \in Nat, NEW m \in Nat,
           NEW now \in Nat, row.state = "dead_lettered", RowInv(row, q, d, m, now)
    PROVE  /\ RequeueDeadLettered(row) \in JobRecord
           /\ RowInv(RequeueDeadLettered(row), q + 1, d, m + 1, now)
  <1> DEFINE new == RequeueDeadLettered(row)
  <1>1. /\ new \in JobRecord
        /\ new.state = "queued"
        /\ new.retry_after = NULL
        /\ new.retry_count = row.retry_count
        /\ new.max_retries = row.max_retries
        /\ new.created_at = row.created_at
        /\ new.dispatched_at = row.dispatched_at
    BY DEF RequeueDeadLettered, JobRecord, JobStates
  <1> HIDE DEF new
  <1>2. RowInv(new, q + 1, d, m + 1, now)
    BY <1>1, NullAssumption DEF JobRecord, Time, RowInv, CompletedStates
  <1>3. QED
    BY <1>1, <1>2 DEF new

(* A dispatch uses up the stay in the queue and stamps the first one.       *)
LEMMA DispatchRowRow ==
    ASSUME NEW row \in JobRecord, NEW q \in Nat, NEW d \in Nat, NEW m \in Nat,
           NEW now \in Nat, NEW at \in Nat, at <= now,
           row.state = "queued", RowInv(row, q, d, m, now)
    PROVE  /\ DispatchRow(row, at) \in JobRecord
           /\ RowInv(DispatchRow(row, at), q, d + 1, m, now)
  <1> DEFINE new == DispatchRow(row, at)
  <1>1. /\ new \in JobRecord
        /\ new.state = "dispatched"
        /\ new.retry_after = row.retry_after
        /\ new.retry_count = row.retry_count
        /\ new.max_retries = row.max_retries
        /\ new.created_at = row.created_at
        /\ new.dispatched_at = IF row.dispatched_at = NULL
                               THEN at ELSE row.dispatched_at
    BY DEF DispatchRow, JobRecord, JobStates, Time
  <1> HIDE DEF new
  <1>2. RowInv(new, q, d + 1, m, now)
    BY <1>1, NullAssumption DEF JobRecord, Time, RowInv, CompletedStates
  <1>3. QED
    BY <1>1, <1>2 DEF new

(* A worker result of any status keeps the row in order.                    *)
LEMMA HandleResultRow ==
    ASSUME NEW row \in JobRecord, NEW q \in Nat, NEW d \in Nat, NEW m \in Nat,
           NEW now \in Nat, NEW status \in ResultStatuses,
           RowInv(row, q, d, m, now), d > 0
    PROVE  /\ HandleResult(row, status, now) \in JobRecord
           /\ RowInv(HandleResult(row, status, now), q, d, m, now)
  <1>1. CASE status = "retryable_failure"
    BY <1>1, ScheduleRetryRow DEF HandleResult
  <1>2. CASE status # "retryable_failure"
    <2>1. MapResultStatus(status) \in {"canceled", "succeeded", "failed"}
      BY DEF MapResultStatus
    <2>2. QED
      BY <1>2, <2>1, UpdateJobStateRow DEF HandleResult
  <1>3. QED
    BY <1>1, <1>2

(* Time passing disturbs no row.                                            *)
LEMMA TickRow ==
    ASSUME NEW row \in JobRecord, NEW q \in Nat, NEW d \in Nat, NEW m \in Nat,
           NEW now \in Nat, RowInv(row, q, d, m, now)
    PROVE  RowInv(row, q, d, m, now + 1)
  BY NullAssumption DEF JobRecord, Time, RowInv, CompletedStates

(***************************************************************************)
(* Locks and sessions.                                                     *)
(***************************************************************************)

(* A row nobody holds can be rewritten without disturbing an open           *)
(* transaction.                                                             *)
LEMMA UnlockedRowKeepsLocks ==
    ASSUME TypeOK, LockInv, NEW j \in Jobs, Unlocked(j), NEW row \in JobRecord,
           jobs' = [jobs EXCEPT ![j] = row], tx' = tx, clock' = clock
    PROVE  LockInv'
  <1>1. \A r \in Runners : \A k \in tx[r].rows : k \in Jobs /\ jobs'[k] = jobs[k]
    BY DEF Unlocked, TypeOK, Transactions
  <1>2. QED
    BY <1>1 DEF LockInv, TypeOK, Transactions

(* An absent row is held by nobody.                                         *)
LEMMA AbsentRowUnlocked ==
    ASSUME TypeOK, LockInv, NEW j \in Jobs, jobs[j].state = "absent"
    PROVE  Unlocked(j)
  BY DEF LockInv, TypeOK, Transactions, Unlocked, Schedulable, RetryDue

(* A half-done API request names a job.                                     *)
LEMMA SessionJob ==
    ASSUME TypeOK, NEW c \in Callers, session[c].op \in {"enqueue", "cancel", "retry", "mark"}
    PROVE  session[c].job \in Jobs
  BY DEF TypeOK, Sessions, Idle

(* A write that stores the time began no later than now.                    *)
LEMMA SessionTimes ==
    ASSUME TypeOK, SessionInv, NEW c \in Callers, session[c].op \in {"enqueue", "mark"},
           NEW at \in BeginTimes(c)
    PROVE  at \in Nat /\ at <= clock /\ clock \in Nat
  BY DEF TypeOK, Sessions, Idle, SessionInv, BeginTimes, Time

(* What SessionInv asks of one request.                                     *)
RequestOK(request) ==
    /\ request.op \in {"enqueue", "mark"} => request.at <= clock
    /\ request.op \in {"cancel", "retry", "mark"} => jobs[request.job].state # "absent"
    /\ request.op = "retry" => dispatches[request.job] > 0

(* A request stays in order while no row disappears and no time or history  *)
(* is taken back.                                                           *)
LEMMA RequestStays ==
    ASSUME TypeOK, NEW request \in Sessions, RequestOK(request),
           clock' = clock \/ clock' = clock + 1,
           \A j \in Jobs : /\ jobs[j].state # "absent" => jobs'[j].state # "absent"
                           /\ dispatches[j] > 0 => dispatches'[j] > 0
    PROVE  RequestOK(request)'
  BY DEF RequestOK, TypeOK, Sessions, Idle, Time

(* The open requests stay in order when one is closed.                      *)
LEMMA CloseKeepsSessions ==
    ASSUME TypeOK, SessionInv, NEW c \in Callers, Close(c), clock' = clock,
           \A j \in Jobs : /\ jobs[j].state # "absent" => jobs'[j].state # "absent"
                           /\ dispatches[j] > 0 => dispatches'[j] > 0
    PROVE  /\ session' \in [Callers -> Sessions]
           /\ SessionInv'
  <1>1. session' \in [Callers -> Sessions]
    BY DEF TypeOK, Close, Sessions
  <1>2. ASSUME NEW b \in Callers PROVE RequestOK(session[b])'
    <2>1. CASE b = c
      BY <2>1 DEF TypeOK, Close, Idle, RequestOK
    <2>2. CASE b # c
      <3>1. session'[b] = session[b] /\ session[b] \in Sessions
        BY <2>2 DEF TypeOK, Close
      <3>2. PICK request \in Sessions : request = session[b] /\ request = session'[b]
        BY <3>1
      <3>3. RequestOK(request)
        BY <3>2 DEF SessionInv, RequestOK
      <3>4. RequestOK(request)'
        BY <3>3, RequestStays
      <3>5. QED
        BY <3>2, <3>4 DEF RequestOK
    <2>3. QED
      BY <2>1, <2>2
  <1>3. QED
    BY <1>1, <1>2 DEF SessionInv, RequestOK

(* They stay in order when none changes.                                    *)
LEMMA SameSessions ==
    ASSUME TypeOK, SessionInv, session' = session, clock' = clock \/ clock' = clock + 1,
           \A j \in Jobs : /\ jobs[j].state # "absent" => jobs'[j].state # "absent"
                           /\ dispatches[j] > 0 => dispatches'[j] > 0
    PROVE  /\ session' \in [Callers -> Sessions]
           /\ SessionInv'
  <1>1. ASSUME NEW b \in Callers PROVE RequestOK(session[b])'
    <2>1. PICK request \in Sessions : request = session[b] /\ request = session'[b]
      BY DEF TypeOK
    <2>2. RequestOK(request)
      BY <2>1 DEF SessionInv, RequestOK
    <2>3. RequestOK(request)'
      BY <2>2, RequestStays
    <2>4. QED
      BY <2>1, <2>3 DEF RequestOK
  <1>2. QED
    BY <1>1 DEF TypeOK, SessionInv, RequestOK

(* Opening a request that is in order.                                      *)
LEMMA OpenKeepsSessions ==
    ASSUME TypeOK, SessionInv, NEW c \in Callers, NEW request \in Sessions,
           Open(c, request), RequestOK(request), UNCHANGED <<jobs, clock, dispatches>>
    PROVE  /\ session' \in [Callers -> Sessions]
           /\ SessionInv'
  <1>1. session' \in [Callers -> Sessions]
    BY DEF TypeOK, Open
  <1>2. ASSUME NEW b \in Callers PROVE RequestOK(session[b])'
    <2>1. CASE b = c
      BY <2>1 DEF TypeOK, Open, RequestOK
    <2>2. CASE b # c
      BY <2>2 DEF TypeOK, Open, SessionInv, RequestOK
    <2>3. QED
      BY <2>1, <2>2
  <1>3. QED
    BY <1>1, <1>2 DEF SessionInv, RequestOK

(* If no row, lock, clock or history changes, only the sessions are left to *)
(* look at.                                                                 *)
LEMMA OnlySessions ==
    ASSUME StoreInv, session' \in [Callers -> Sessions], SessionInv',
           UNCHANGED <<jobs, clock, tx, manual, queuings, dispatches, published>>
    PROVE  StoreInv'
  BY DEF StoreInv, TypeOK, LockInv, PublishedInv, RetryDue, Schedulable

(***************************************************************************)
(* The inductive invariant, action by action.                              *)
(***************************************************************************)
(* The empty table satisfies the invariant.                                 *)
LEMMA InitStoreInv == Init => StoreInv
  <1> SUFFICES ASSUME Init PROVE StoreInv
    OBVIOUS
  <1>1. AbsentRow \in JobRecord /\ RowInv(AbsentRow, 0, 0, 0, 0)
    BY NullAssumption DEF AbsentRow, JobRecord, Time, RowInv, CompletedStates
  <1>2. NoTx \in Transactions /\ Idle \in Sessions
    BY DEF NoTx, Transactions, Time, Sessions
  <1>3. TypeOK
    BY <1>1, <1>2 DEF Init, TypeOK, Time
  <1>4. \A j \in Jobs : RowInv(jobs[j], queuings[j], dispatches[j], manual[j], clock)
    BY <1>1 DEF Init
  <1>5. LockInv
    BY DEF Init, LockInv, NoTx
  <1>6. SessionInv /\ PublishedInv
    BY DEF Init, SessionInv, PublishedInv, Idle
  <1>7. QED
    BY <1>3, <1>4, <1>5, <1>6 DEF StoreInv

(* The transition table lets the API retry a failed job and no other.       *)
LEMMA RetryOnlyFailed ==
    ASSUME NEW s \in JobStates, CanTransition(s, "retry_scheduled")
    PROVE  s = "failed"
  BY DEF CanTransition, AllowedTransitions, TerminalStates, JobStates

(* The first half of an API request, and a request that fails.              *)
LEMMA SessionSteps ==
    ASSUME StoreInv, NEW c \in Callers,
           \/ \E j \in Jobs : \/ EnqueueRead(c, j) \/ CancelRead(c, j)
                             \/ RetryRead(c, j)   \/ MarkRead(c, j)
           \/ SessionFails(c)
    PROVE  StoreInv'
  <1> DEFINE Timed(op, j) == [op |-> op, job |-> j, at |-> clock]
             Untimed(op, j) == [op |-> op, job |-> j]
  <1>0. \A j \in Jobs : /\ \A op \in {"enqueue", "mark"} : Timed(op, j) \in Sessions
                        /\ \A op \in {"cancel", "retry"} : Untimed(op, j) \in Sessions
    BY DEF StoreInv, TypeOK, Sessions
  <1>1. ASSUME NEW j \in Jobs, EnqueueRead(c, j) PROVE StoreInv'
    <2>1. RequestOK(Timed("enqueue", j))
      BY DEF RequestOK, StoreInv, TypeOK, Time
    <2>2. session' \in [Callers -> Sessions] /\ SessionInv'
      BY <1>0, <1>1, <2>1, OpenKeepsSessions DEF EnqueueRead, StoreInv
    <2>3. QED
      BY <1>1, <2>2, OnlySessions DEF EnqueueRead
  <1>2. ASSUME NEW j \in Jobs, CancelRead(c, j) PROVE StoreInv'
    <2>1. RequestOK(Untimed("cancel", j))
      BY <1>2 DEF CancelRead, JobStates, RequestOK
    <2>2. session' \in [Callers -> Sessions] /\ SessionInv'
      BY <1>0, <1>2, <2>1, OpenKeepsSessions DEF CancelRead, StoreInv
    <2>3. QED
      BY <1>2, <2>2, OnlySessions DEF CancelRead
  <1>3. ASSUME NEW j \in Jobs, RetryRead(c, j) PROVE StoreInv'
    <2>0. jobs[j].state = "failed"
      BY <1>3, RetryOnlyFailed DEF RetryRead
    <2>1. RequestOK(Untimed("retry", j))
      BY <1>3, <2>0 DEF StoreInv, RowInv, CompletedStates, RequestOK
    <2>2. session' \in [Callers -> Sessions] /\ SessionInv'
      BY <1>0, <1>3, <2>1, OpenKeepsSessions DEF RetryRead, StoreInv
    <2>3. QED
      BY <1>3, <2>2, OnlySessions DEF RetryRead
  <1>4. ASSUME NEW j \in Jobs, MarkRead(c, j) PROVE StoreInv'
    <2>1. RequestOK(Timed("mark", j))
      BY <1>4 DEF MarkRead, Schedulable, RequestOK, StoreInv, TypeOK, Time
    <2>2. session' \in [Callers -> Sessions] /\ SessionInv'
      BY <1>0, <1>4, <2>1, OpenKeepsSessions DEF MarkRead, StoreInv
    <2>3. QED
      BY <1>4, <2>2, OnlySessions DEF MarkRead
  <1>5. ASSUME SessionFails(c) PROVE StoreInv'
    <2>1. session' \in [Callers -> Sessions] /\ SessionInv'
      BY <1>5, CloseKeepsSessions DEF SessionFails, StoreInv
    <2>2. QED
      BY <1>5, <2>1, OnlySessions DEF SessionFails
  <1>6. QED
    BY <1>1, <1>2, <1>3, <1>4, <1>5

(* A step that rewrites one unlocked row and its history, as long as the    *)
(* new row agrees with the new history.                                     *)
LEMMA OneRowStep ==
    ASSUME StoreInv, NEW j \in Jobs, Unlocked(j), NEW row \in JobRecord,
           NEW q \in Nat, NEW d \in Nat, NEW m \in Nat,
           row.state # "absent", d >= dispatches[j],
           RowInv(row, q, d, m, clock),
           jobs' = [jobs EXCEPT ![j] = row],
           queuings' = [queuings EXCEPT ![j] = q],
           dispatches' = [dispatches EXCEPT ![j] = d],
           manual' = [manual EXCEPT ![j] = m],
           UNCHANGED <<clock, tx, published>>,
           session' \in [Callers -> Sessions], SessionInv'
    PROVE  StoreInv'
  <1>1. TypeOK'
    BY DEF StoreInv, TypeOK
  <1>2. LockInv'
    BY UnlockedRowKeepsLocks DEF StoreInv
  <1>3. ASSUME NEW k \in Jobs
        PROVE  RowInv(jobs[k], queuings[k], dispatches[k], manual[k], clock)'
    <2>1. CASE k = j
      BY <2>1 DEF StoreInv, TypeOK
    <2>2. CASE k # j
      BY <2>2 DEF StoreInv, TypeOK
    <2>3. QED
      BY <2>1, <2>2
  <1>4. PublishedInv'
    BY DEF StoreInv, TypeOK, PublishedInv
  <1>5. QED
    BY <1>1, <1>2, <1>3, <1>4 DEF StoreInv

(* create_job, or UniqueViolation.                                          *)
LEMMA EnqueueInsertStep ==
    ASSUME StoreInv, NEW c \in Callers, NEW p \in Priorities, NEW b \in RetryBudgets,
           EnqueueInsert(c, p, b)
    PROVE  StoreInv'
  <1> DEFINE j == session[c].job
  <1>0. j \in Jobs
    BY SessionJob DEF StoreInv, EnqueueInsert
  <1>1. CASE jobs[j].state = "absent"
    <2>a. PICK at \in BeginTimes(c) : jobs' = [jobs EXCEPT ![j] = CreateJob(p, b, at)]
      BY <1>1 DEF EnqueueInsert
    <2>b. at \in Nat /\ at <= clock /\ clock \in Nat
      BY SessionTimes DEF StoreInv, EnqueueInsert
    <2> DEFINE row == CreateJob(p, b, at)
    <2>1. row \in JobRecord /\ RowInv(row, 1, 0, manual[j], clock) /\ row.state # "absent"
      BY <1>0, <2>b, CreateJobRow, EnqueueAssumption DEF StoreInv, TypeOK, CreateJob
    <2>2. queuings[j] = 0 /\ dispatches[j] = 0
      BY <1>0, <1>1 DEF StoreInv, TypeOK, RowInv, CompletedStates
    <2>3. /\ jobs' = [jobs EXCEPT ![j] = row]
          /\ queuings' = [queuings EXCEPT ![j] = 1]
          /\ dispatches' = [dispatches EXCEPT ![j] = 0]
          /\ manual' = [manual EXCEPT ![j] = manual[j]]
          /\ UNCHANGED <<clock, tx, published>>
      BY <1>0, <1>1, <2>a, <2>2 DEF EnqueueInsert, StoreInv, TypeOK
    <2>4. \A k \in Jobs : jobs[k].state # "absent" => jobs'[k].state # "absent"
      BY <1>0, <2>1, <2>3 DEF StoreInv, TypeOK
    <2>5. session' \in [Callers -> Sessions] /\ SessionInv'
      BY <2>4, CloseKeepsSessions DEF EnqueueInsert, StoreInv
    <2>6. Unlocked(j)
      BY <1>0, <1>1, AbsentRowUnlocked DEF StoreInv
    <2>7. manual[j] \in Nat /\ 0 >= dispatches[j]
      BY <1>0, <2>2 DEF StoreInv, TypeOK
    <2> HIDE DEF row, j
    <2>8. QED
      BY <1>0, <2>1, <2>3, <2>5, <2>6, <2>7, OneRowStep
  <1>2. CASE jobs[j].state # "absent"
    <2>1. UNCHANGED <<jobs, clock, tx, manual, queuings, dispatches, published>> /\ Close(c)
      BY <1>2 DEF EnqueueInsert
    <2>2. QED
      BY <2>1, CloseKeepsSessions, OnlySessions DEF StoreInv
  <1>3. QED
    BY <1>1, <1>2

(* The second half of a cancel: whatever the row has become meanwhile.      *)
LEMMA CancelWriteStep ==
    ASSUME StoreInv, NEW c \in Callers, CancelWrite(c)
    PROVE  StoreInv'
  <1> DEFINE j == session[c].job
             row == UpdateJobState(jobs[j], "canceled")
  <1>0. j \in Jobs
    BY SessionJob DEF StoreInv, CancelWrite
  <1>1. row \in JobRecord /\ RowInv(row, queuings[j], dispatches[j], manual[j], clock)
    BY <1>0, UpdateJobStateRow DEF StoreInv, TypeOK, Time
  <1>2. row.state # "absent"
    BY <1>0 DEF UpdateJobState, StoreInv, TypeOK, JobRecord
  <1>3. /\ jobs' = [jobs EXCEPT ![j] = row]
        /\ queuings' = [queuings EXCEPT ![j] = queuings[j]]
        /\ dispatches' = [dispatches EXCEPT ![j] = dispatches[j]]
        /\ manual' = [manual EXCEPT ![j] = manual[j]]
        /\ UNCHANGED <<clock, tx, published>>
    BY <1>0 DEF CancelWrite, StoreInv, TypeOK
  <1>4. \A k \in Jobs : jobs[k].state # "absent" => jobs'[k].state # "absent"
    BY <1>0, <1>2, <1>3 DEF StoreInv, TypeOK
  <1>5. session' \in [Callers -> Sessions] /\ SessionInv'
    BY <1>4, CloseKeepsSessions DEF CancelWrite, StoreInv
  <1>6. /\ Unlocked(j)
        /\ queuings[j] \in Nat /\ dispatches[j] \in Nat /\ manual[j] \in Nat
        /\ dispatches[j] >= dispatches[j]
    BY <1>0 DEF CancelWrite, StoreInv, TypeOK
  <1> HIDE DEF row, j
  <1>7. QED
    BY <1>0, <1>1, <1>2, <1>3, <1>5, <1>6, OneRowStep

(* The second half of an API retry.                                         *)
LEMMA RetryWriteStep ==
    ASSUME StoreInv, NEW c \in Callers, RetryWrite(c)
    PROVE  StoreInv'
  <1> DEFINE j == session[c].job
             row == UpdateJobState(jobs[j], "retry_scheduled")
  <1>0. j \in Jobs
    BY SessionJob DEF StoreInv, RetryWrite
  <1>a. dispatches[j] > 0
    BY DEF RetryWrite, StoreInv, SessionInv
  <1>1. row \in JobRecord /\ RowInv(row, queuings[j], dispatches[j], manual[j] + 1, clock)
    BY <1>0, <1>a, ApiRetryRow DEF StoreInv, TypeOK, Time
  <1>2. row.state # "absent"
    BY <1>0 DEF UpdateJobState, StoreInv, TypeOK, JobRecord
  <1>3. /\ jobs' = [jobs EXCEPT ![j] = row]
        /\ queuings' = [queuings EXCEPT ![j] = queuings[j]]
        /\ dispatches' = [dispatches EXCEPT ![j] = dispatches[j]]
        /\ manual' = [manual EXCEPT ![j] = manual[j] + 1]
        /\ UNCHANGED <<clock, tx, published>>
    BY <1>0 DEF RetryWrite, StoreInv, TypeOK
  <1>4. \A k \in Jobs : jobs[k].state # "absent" => jobs'[k].state # "absent"
    BY <1>0, <1>2, <1>3 DEF StoreInv, TypeOK
  <1>5. session' \in [Callers -> Sessions] /\ SessionInv'
    BY <1>4, CloseKeepsSessions DEF RetryWrite, StoreInv
  <1>6. /\ Unlocked(j)
        /\ queuings[j] \in Nat /\ dispatches[j] \in Nat /\ manual[j] + 1 \in Nat
        /\ dispatches[j] >= dispatches[j]
    BY <1>0 DEF RetryWrite, StoreInv, TypeOK
  <1> HIDE DEF row, j
  <1>7. QED
    BY <1>0, <1>1, <1>2, <1>3, <1>5, <1>6, OneRowStep

(* mark_job_dispatched writes only a row that is still queued and free.     *)
LEMMA MarkWriteStep ==
    ASSUME StoreInv, NEW c \in Callers, MarkWrite(c)
    PROVE  StoreInv'
  <1> DEFINE j == session[c].job
  <1>0. j \in Jobs
    BY SessionJob DEF StoreInv, MarkWrite
  <1>1. CASE Schedulable(jobs[j])
    <2>a. PICK at \in BeginTimes(c) : jobs' = [jobs EXCEPT ![j] = DispatchRow(jobs[j], at)]
      BY <1>0, <1>1 DEF MarkWrite, StoreInv, TypeOK
    <2>b. at \in Nat /\ at <= clock /\ clock \in Nat
      BY SessionTimes DEF StoreInv, MarkWrite
    <2> DEFINE row == DispatchRow(jobs[j], at)
    <2>1. jobs[j].state = "queued"
      BY <1>1 DEF Schedulable
    <2>2. row \in JobRecord /\ RowInv(row, queuings[j], dispatches[j] + 1, manual[j], clock)
      BY <1>0, <2>b, <2>1, DispatchRowRow DEF StoreInv, TypeOK
    <2>3. row.state # "absent"
      BY <1>0 DEF DispatchRow, StoreInv, TypeOK, JobRecord
    <2>4. /\ jobs' = [jobs EXCEPT ![j] = row]
          /\ queuings' = [queuings EXCEPT ![j] = queuings[j]]
          /\ dispatches' = [dispatches EXCEPT ![j] = dispatches[j] + 1]
          /\ manual' = [manual EXCEPT ![j] = manual[j]]
          /\ UNCHANGED <<clock, tx, published>>
      BY <1>0, <1>1, <2>a DEF MarkWrite, StoreInv, TypeOK
    <2>5. \A k \in Jobs : jobs[k].state # "absent" => jobs'[k].state # "absent"
      BY <1>0, <2>3, <2>4 DEF StoreInv, TypeOK
    <2>6. session' \in [Callers -> Sessions] /\ SessionInv'
      <3>1. \A k \in Jobs : dispatches[k] > 0 => dispatches'[k] > 0
        BY <1>0, <2>4 DEF StoreInv, TypeOK
      <3>2. QED
        BY <2>5, <3>1, CloseKeepsSessions DEF MarkWrite, StoreInv
    <2>7. /\ Unlocked(j)
          /\ queuings[j] \in Nat /\ dispatches[j] + 1 \in Nat /\ manual[j] \in Nat
          /\ dispatches[j] + 1 >= dispatches[j]
      BY <1>0 DEF MarkWrite, StoreInv, TypeOK
    <2> HIDE DEF row, j
    <2>8. QED
      BY <1>0, <2>2, <2>3, <2>4, <2>6, <2>7, OneRowStep
  <1>2. CASE ~Schedulable(jobs[j])
    <2>1. UNCHANGED <<jobs, clock, tx, manual, queuings, dispatches, published>> /\ Close(c)
      BY <1>2 DEF MarkWrite
    <2>2. QED
      BY <2>1, CloseKeepsSessions, OnlySessions DEF StoreInv
  <1>3. QED
    BY <1>1, <1>2

(* A worker result, on time or late.                                        *)
LEMMA ResultHandledStep ==
    ASSUME StoreInv, NEW j \in Jobs, NEW status \in ResultStatuses, ResultHandled(j, status)
    PROVE  StoreInv'
  <1> DEFINE row == HandleResult(jobs[j], status, clock)
  <1>0. dispatches[j] > 0
    BY DEF ResultHandled, StoreInv, PublishedInv
  <1>1. row \in JobRecord /\ RowInv(row, queuings[j], dispatches[j], manual[j], clock)
    BY <1>0, HandleResultRow DEF StoreInv, TypeOK, Time
  <1>2. row.state # "absent"
    <2>1. CASE status = "retryable_failure"
      BY <2>1 DEF HandleResult, ScheduleRetry, StoreInv, TypeOK, JobRecord
    <2>2. CASE status # "retryable_failure"
      BY <2>2 DEF HandleResult, UpdateJobState, MapResultStatus, StoreInv, TypeOK, JobRecord
    <2>3. QED
      BY <2>1, <2>2
  <1>3. /\ jobs' = [jobs EXCEPT ![j] = row]
        /\ queuings' = [queuings EXCEPT ![j] = queuings[j]]
        /\ dispatches' = [dispatches EXCEPT ![j] = dispatches[j]]
        /\ manual' = [manual EXCEPT ![j] = manual[j]]
        /\ UNCHANGED <<clock, tx, published>>
    BY DEF ResultHandled, StoreInv, TypeOK
  <1>4. session' \in [Callers -> Sessions] /\ SessionInv'
    <2>1. \A k \in Jobs : /\ jobs[k].state # "absent" => jobs'[k].state # "absent"
                          /\ dispatches[k] > 0 => dispatches'[k] > 0
      BY <1>2, <1>3 DEF StoreInv, TypeOK
    <2>2. QED
      BY <1>3, <2>1, SameSessions DEF ResultHandled, StoreInv
  <1>5. /\ Unlocked(j)
        /\ queuings[j] \in Nat /\ dispatches[j] \in Nat /\ manual[j] \in Nat
        /\ dispatches[j] >= dispatches[j]
    BY DEF ResultHandled, StoreInv, TypeOK
  <1> HIDE DEF row
  <1>6. QED
    BY <1>1, <1>2, <1>3, <1>4, <1>5, OneRowStep

(* The operator puts a dead-lettered job back.                              *)
LEMMA OperatorRequeueStep ==
    ASSUME StoreInv, NEW j \in Jobs, OperatorRequeue(j)
    PROVE  StoreInv'
  <1> DEFINE row == RequeueDeadLettered(jobs[j])
  <1>1. row \in JobRecord /\ RowInv(row, queuings[j] + 1, dispatches[j], manual[j] + 1, clock)
    BY RequeueDeadLetteredRow DEF OperatorRequeue, StoreInv, TypeOK, Time
  <1>2. row.state # "absent"
    BY DEF RequeueDeadLettered, OperatorRequeue, StoreInv, TypeOK, JobRecord
  <1>3. /\ jobs' = [jobs EXCEPT ![j] = row]
        /\ queuings' = [queuings EXCEPT ![j] = queuings[j] + 1]
        /\ dispatches' = [dispatches EXCEPT ![j] = dispatches[j]]
        /\ manual' = [manual EXCEPT ![j] = manual[j] + 1]
        /\ UNCHANGED <<clock, tx, published>>
    BY DEF OperatorRequeue, StoreInv, TypeOK
  <1>4. session' \in [Callers -> Sessions] /\ SessionInv'
    <2>1. \A k \in Jobs : /\ jobs[k].state # "absent" => jobs'[k].state # "absent"
                          /\ dispatches[k] > 0 => dispatches'[k] > 0
      BY <1>2, <1>3 DEF StoreInv, TypeOK
    <2>2. QED
      BY <1>3, <2>1, SameSessions DEF OperatorRequeue, StoreInv
  <1>5. /\ Unlocked(j)
        /\ queuings[j] + 1 \in Nat /\ dispatches[j] \in Nat /\ manual[j] + 1 \in Nat
        /\ dispatches[j] >= dispatches[j]
    BY DEF OperatorRequeue, StoreInv, TypeOK
  <1> HIDE DEF row
  <1>6. QED
    BY <1>1, <1>2, <1>3, <1>4, <1>5, OneRowStep

(* Opening or ending a transaction changes no row: what remains is that its *)
(* locks are new and its selection true.                                    *)
LEMMA OnlyLocks ==
    ASSUME StoreInv, tx' \in [Runners -> Transactions], LockInv',
           UNCHANGED <<jobs, clock, session, manual, queuings, dispatches, published>>
    PROVE  StoreInv'
  BY DEF StoreInv, TypeOK, SessionInv, PublishedInv

(* A transaction that has just begun holds nothing.                         *)
LEMMA BeginStep ==
    ASSUME StoreInv, NEW r \in Runners, ClaimBegin(r) \/ RequeueBegin(r)
    PROVE  StoreInv'
  <1>1. PICK kind \in {"claim", "requeue"} : Begin(r, kind)
    BY DEF ClaimBegin, RequeueBegin
  <1>2. tx' = [tx EXCEPT ![r] = [kind |-> kind, rows |-> {}, at |-> clock]]
        /\ UNCHANGED <<jobs, clock, session, manual, queuings, dispatches, published>>
    BY <1>1 DEF Begin
  <1>3. tx' \in [Runners -> Transactions]
    BY <1>2 DEF StoreInv, TypeOK, Transactions
  <1>4. LockInv'
    <2>1. tx'[r] = [kind |-> kind, rows |-> {}, at |-> clock]
          /\ \A s \in Runners : s # r => tx'[s] = tx[s]
      BY <1>2 DEF StoreInv, TypeOK
    <2>2. clock <= clock
      BY DEF StoreInv, TypeOK, Time
    <2>3. QED
      BY <1>2, <2>1, <2>2 DEF StoreInv, LockInv
  <1>5. QED
    BY <1>2, <1>3, <1>4, OnlyLocks

(* The statement of a tick locks rows that are queued, that of a scan rows  *)
(* that are due, and both only rows that nobody holds.                      *)
LEMMA SelectStep ==
    ASSUME StoreInv, NEW r \in Runners, ClaimSelect(r) \/ RequeueSelect(r)
    PROVE  StoreInv'
  <1> DEFINE waiting == {j \in Jobs : Schedulable(jobs[j]) /\ Unlocked(j)}
             due == {j \in Jobs : RetryDue(jobs[j], tx[r].at) /\ Unlocked(j)}
  <1>1. UNCHANGED <<jobs, clock, session, manual, queuings, dispatches, published>>
    BY DEF ClaimSelect, RequeueSelect, Select
  <1>2. CASE tx' = [tx EXCEPT ![r] = NoTx]
    <2>1. tx' \in [Runners -> Transactions]
      BY <1>2 DEF StoreInv, TypeOK, Transactions, NoTx, Time
    <2>2. LockInv'
      BY <1>1, <1>2 DEF StoreInv, TypeOK, LockInv, NoTx, Time
    <2>3. QED
      BY <1>1, <2>1, <2>2, OnlyLocks
  <1>3. ASSUME NEW B \in SUBSET Jobs, tx' = [tx EXCEPT ![r].rows = B],
               \A j \in B : Unlocked(j),
               tx[r].kind = "claim" => \A j \in B : Schedulable(jobs[j]),
               tx[r].kind = "requeue" => \A j \in B : RetryDue(jobs[j], tx[r].at),
               tx[r].kind # "none"
        PROVE  StoreInv'
    <2>1. tx' \in [Runners -> Transactions]
      BY <1>3 DEF StoreInv, TypeOK, Transactions
    <2>2. /\ tx'[r].kind = tx[r].kind /\ tx'[r].rows = B /\ tx'[r].at = tx[r].at
          /\ \A s \in Runners : s # r => tx'[s] = tx[s] /\ tx[s].rows \cap B = {}
      BY <1>3 DEF StoreInv, TypeOK, Transactions, Unlocked
    <2>3. LockInv'
      BY <1>1, <1>3, <2>2 DEF StoreInv, LockInv
    <2>4. QED
      BY <1>1, <2>1, <2>3, OnlyLocks
  <1>4. CASE ClaimSelect(r)
    <2>1. tx[r].kind = "claim" /\ (waiting # {} =>
             \E B \in ClaimBatches(jobs, waiting, ClaimLimit) : tx' = [tx EXCEPT ![r].rows = B])
      BY <1>4 DEF ClaimSelect, Select
    <2>2. \A B \in ClaimBatches(jobs, waiting, ClaimLimit) : B \subseteq waiting
      BY DEF ClaimBatches
    <2>3. CASE waiting = {}
      BY <1>2, <1>4, <2>3 DEF ClaimSelect, Select
    <2>4. CASE waiting # {}
      BY <1>3, <2>1, <2>2, <2>4
    <2>5. QED
      BY <2>3, <2>4
  <1>5. CASE RequeueSelect(r)
    <2>1. tx[r].kind = "requeue" /\ (due # {} =>
             \E B \in RequeueBatches(jobs, due, RequeueLimit) : tx' = [tx EXCEPT ![r].rows = B])
      BY <1>5 DEF RequeueSelect, Select
    <2>2. \A B \in RequeueBatches(jobs, due, RequeueLimit) : B \subseteq due
      BY DEF RequeueBatches
    <2>3. CASE due = {}
      BY <1>2, <1>5, <2>3 DEF RequeueSelect, Select
    <2>4. CASE due # {}
      BY <1>3, <2>1, <2>2, <2>4
    <2>5. QED
      BY <2>3, <2>4
  <1>6. QED
    BY <1>4, <1>5

(* A rollback gives the locks back.                                         *)
LEMMA TxAbortStep ==
    ASSUME StoreInv, NEW r \in Runners, TxAbort(r)
    PROVE  StoreInv'
  <1>1. tx' \in [Runners -> Transactions]
    BY DEF TxAbort, StoreInv, TypeOK, Transactions, NoTx, Time
  <1>2. LockInv'
    BY DEF TxAbort, StoreInv, TypeOK, LockInv, NoTx, Time
  <1>3. QED
    BY <1>1, <1>2, OnlyLocks DEF TxAbort

(* Rows leave a committing transaction; the others keep theirs, which the   *)
(* commit does not touch.                                                   *)
LEMMA CommitKeepsLocks ==
    ASSUME StoreInv, NEW r \in Runners, tx' = [tx EXCEPT ![r] = NoTx],
           \A j \in Jobs : j \notin tx[r].rows => jobs'[j] = jobs[j],
           clock' = clock
    PROVE  tx' \in [Runners -> Transactions] /\ LockInv'
  <1>1. tx' \in [Runners -> Transactions]
    BY DEF StoreInv, TypeOK, Transactions, NoTx, Time
  <1>2. tx'[r] = NoTx /\ \A s \in Runners : s # r => tx'[s] = tx[s]
    BY DEF StoreInv, TypeOK
  <1>3. \A s \in Runners : s # r =>
            \A j \in tx[s].rows : j \in Jobs /\ jobs'[j] = jobs[j]
    BY DEF StoreInv, TypeOK, LockInv, Transactions
  <1>4. LockInv'
    BY <1>2, <1>3 DEF StoreInv, TypeOK, LockInv, NoTx, Time
  <1>5. QED
    BY <1>1, <1>4

(* claim_schedulable_jobs becomes visible.                                  *)
LEMMA ClaimCommitStep ==
    ASSUME StoreInv, NEW r \in Runners, ClaimCommit(r)
    PROVE  StoreInv'
  <1>1. ASSUME NEW j \in Jobs, j \in tx[r].rows
        PROVE  /\ jobs'[j] \in JobRecord /\ jobs'[j].state # "absent"
               /\ dispatches'[j] = dispatches[j] + 1
               /\ RowInv(jobs'[j], queuings[j], dispatches[j] + 1, manual[j], clock)
    <2>1. jobs[j].state = "queued" /\ tx[r].at <= clock
      BY <1>1 DEF ClaimCommit, StoreInv, LockInv, Schedulable
    <2>2. jobs'[j] = DispatchRow(jobs[j], tx[r].at) /\ dispatches'[j] = dispatches[j] + 1
      BY <1>1 DEF ClaimCommit
    <2>3. tx[r].at \in Nat /\ clock \in Nat /\ jobs[j] \in JobRecord
      BY DEF StoreInv, TypeOK, Transactions, Time
    <2>4. DispatchRow(jobs[j], tx[r].at).state # "absent"
      BY <2>3 DEF DispatchRow, JobRecord
    <2>5. QED
      BY <2>1, <2>2, <2>3, <2>4, DispatchRowRow DEF StoreInv, TypeOK
  <1>2. \A j \in Jobs : j \notin tx[r].rows => jobs'[j] = jobs[j] /\ dispatches'[j] = dispatches[j]
    BY DEF ClaimCommit
  <1>3. tx[r].rows \subseteq Jobs
    BY DEF StoreInv, TypeOK, Transactions
  <1>4. tx' \in [Runners -> Transactions] /\ LockInv'
    BY <1>2, CommitKeepsLocks DEF ClaimCommit
  <1>5. TypeOK'
    BY <1>1, <1>2, <1>3, <1>4 DEF ClaimCommit, StoreInv, TypeOK
  <1>6. \A j \in Jobs : RowInv(jobs'[j], queuings'[j], dispatches'[j], manual'[j], clock')
    BY <1>1, <1>2 DEF ClaimCommit, StoreInv
  <1>7. SessionInv'
    <2>1. \A k \in Jobs : /\ jobs[k].state # "absent" => jobs'[k].state # "absent"
                          /\ dispatches[k] > 0 => dispatches'[k] > 0
      BY <1>1, <1>2 DEF StoreInv, TypeOK
    <2>2. QED
      BY <2>1, SameSessions DEF ClaimCommit, StoreInv
  <1>8. PublishedInv'
    BY <1>1, <1>2, <1>3 DEF ClaimCommit, StoreInv, TypeOK, PublishedInv
  <1>9. QED
    BY <1>4, <1>5, <1>6, <1>7, <1>8 DEF StoreInv

(* requeue_due_retries becomes visible.                                     *)
LEMMA RequeueCommitStep ==
    ASSUME StoreInv, NEW r \in Runners, RequeueCommit(r)
    PROVE  StoreInv'
  <1>1. ASSUME NEW j \in Jobs, j \in tx[r].rows
        PROVE  /\ jobs'[j] \in JobRecord /\ jobs'[j].state # "absent"
               /\ queuings'[j] = queuings[j] + 1
               /\ RowInv(jobs'[j], queuings[j] + 1, dispatches[j], manual[j], clock)
    <2>1. RetryDue(jobs[j], tx[r].at) /\ tx[r].at <= clock
      BY <1>1 DEF RequeueCommit, StoreInv, LockInv
    <2>2. jobs'[j] = RequeueRetry(jobs[j]) /\ queuings'[j] = queuings[j] + 1
      BY <1>1 DEF RequeueCommit
    <2>3. tx[r].at \in Nat /\ clock \in Nat /\ jobs[j] \in JobRecord
      BY DEF StoreInv, TypeOK, Transactions, Time
    <2>4. RequeueRetry(jobs[j]).state # "absent"
      BY <2>3 DEF RequeueRetry, JobRecord
    <2>5. QED
      BY <2>1, <2>2, <2>3, <2>4, RequeueRetryRow DEF StoreInv, TypeOK
  <1>2. \A j \in Jobs : j \notin tx[r].rows => jobs'[j] = jobs[j] /\ queuings'[j] = queuings[j]
    BY DEF RequeueCommit
  <1>3. tx' \in [Runners -> Transactions] /\ LockInv'
    BY <1>2, CommitKeepsLocks DEF RequeueCommit
  <1>4. TypeOK'
    BY <1>1, <1>2, <1>3 DEF RequeueCommit, StoreInv, TypeOK
  <1>5. \A j \in Jobs : RowInv(jobs'[j], queuings'[j], dispatches'[j], manual'[j], clock')
    BY <1>1, <1>2 DEF RequeueCommit, StoreInv
  <1>6. SessionInv'
    <2>1. \A k \in Jobs : /\ jobs[k].state # "absent" => jobs'[k].state # "absent"
                          /\ dispatches[k] > 0 => dispatches'[k] > 0
      BY <1>1, <1>2 DEF RequeueCommit
    <2>2. QED
      BY <2>1, SameSessions DEF RequeueCommit, StoreInv
  <1>7. PublishedInv'
    BY DEF RequeueCommit, StoreInv, PublishedInv
  <1>8. QED
    BY <1>3, <1>4, <1>5, <1>6, <1>7 DEF StoreInv

(* Time passing, for the table and the open transactions.                   *)
LEMMA TickStep ==
    ASSUME StoreInv, Tick
    PROVE  StoreInv'
  <1>1. TypeOK'
    BY DEF Tick, StoreInv, TypeOK, Time
  <1>2. \A j \in Jobs : RowInv(jobs'[j], queuings'[j], dispatches'[j], manual'[j], clock')
    BY TickRow DEF Tick, StoreInv, TypeOK, Time
  <1>3. LockInv'
    BY DEF Tick, StoreInv, TypeOK, Transactions, Time, LockInv
  <1>4. SessionInv' /\ PublishedInv'
    BY SameSessions DEF Tick, StoreInv, PublishedInv
  <1>5. QED
    BY <1>1, <1>2, <1>3, <1>4 DEF StoreInv

(* Every step of every process preserves the invariant.                     *)
LEMMA NextStoreInv == StoreInv /\ [Next]_vars => StoreInv'
  <1> SUFFICES ASSUME StoreInv, [Next]_vars PROVE StoreInv'
    OBVIOUS
  <1>1. ASSUME NEW c \in Callers, CallerStep(c) PROVE StoreInv'
    BY <1>1, SessionSteps, EnqueueInsertStep, CancelWriteStep, RetryWriteStep, MarkWriteStep
       DEF CallerStep
  <1>2. ASSUME NEW r \in Runners, RunnerStep(r) PROVE StoreInv'
    BY <1>2, BeginStep, SelectStep, ClaimCommitStep, RequeueCommitStep, TxAbortStep
       DEF RunnerStep
  <1>3. CASE UNCHANGED vars
    BY <1>3, OnlySessions DEF vars, StoreInv, TypeOK, SessionInv
  <1>4. QED
    BY <1>1, <1>2, <1>3, ResultHandledStep, OperatorRequeueStep, TickStep DEF Next

(***************************************************************************)
(* Theorems.                                                               *)
(***************************************************************************)

(* Every reachable state of the jobs table satisfies the inductive          *)
(* invariant, type correctness included.                                    *)
THEOREM StoreInvariant == Spec => []StoreInv
  BY InitStoreInv, NextStoreInv, PTL DEF Spec

(* claim_schedulable_jobs, mark_job_dispatched: no stay in the queue is     *)
(* handed off twice, however many schedulers run.                           *)
THEOREM DispatchExclusive == Spec => []DispatchedOncePerQueuing
  <1>1. StoreInv => DispatchedOncePerQueuing
    BY DEF StoreInv, TypeOK, RowInv, DispatchedOncePerQueuing, Schedulable
  <1>2. QED
    BY <1>1, StoreInvariant, PTL

(* schedule_retry_from_worker_result, retry_job, requeue_dead_lettered_job: *)
(* the number of runs is bounded by the retry budget and the manual         *)
(* interventions.                                                           *)
THEOREM RunsBounded == Spec => []RunsArePaidFor
  <1>1. StoreInv => RunsArePaidFor
    BY DEF StoreInv, TypeOK, JobRecord, RowInv, RunsArePaidFor
  <1>2. QED
    BY <1>1, StoreInvariant, PTL

(* requeue_due_retries and the operator's requeue: nobody is scheduled      *)
(* before its back-off has run out.                                         *)
THEOREM BackoffKept == Spec => []BackoffRespected
  <1>1. StoreInv => BackoffRespected
    BY DEF StoreInv, RowInv, BackoffRespected
  <1>2. QED
    BY <1>1, StoreInvariant, PTL

(* cancel_job on a waiting job: the row is in no open transaction, no       *)
(* result of it can exist and no retry of it was ever admitted, and         *)
(* mark_job_dispatched and create_job look at the row again.                *)
THEOREM CancelStands == Spec => CancelBeforeRunHolds
  <1>1. StoreInv /\ [Next]_vars
            => [\A j \in Jobs : (jobs[j].state = "canceled" /\ dispatches[j] = 0)
                                    => jobs'[j].state = "canceled"]_vars
    <2> SUFFICES ASSUME StoreInv, Next, NEW j \in Jobs,
                        jobs[j].state = "canceled", dispatches[j] = 0
                 PROVE  jobs'[j].state = "canceled"
      OBVIOUS
    <2>0. jobs[j] \in JobRecord
      BY DEF StoreInv, TypeOK
    <2>1. ASSUME NEW c \in Callers, CallerStep(c) PROVE jobs'[j].state = "canceled"
      <3>1. ASSUME NEW p \in Priorities, NEW b \in RetryBudgets, EnqueueInsert(c, p, b)
            PROVE  jobs'[j] = jobs[j]
        BY <3>1 DEF EnqueueInsert, StoreInv, TypeOK
      <3>2. CASE CancelWrite(c)
        BY <2>0, <3>2 DEF CancelWrite, UpdateJobState, StoreInv, TypeOK, JobRecord
      <3>3. CASE RetryWrite(c)
        <4>1. session[c].job # j
          BY <3>3 DEF RetryWrite, StoreInv, SessionInv
        <4>2. QED
          BY <3>3, <4>1 DEF RetryWrite, StoreInv, TypeOK
      <3>4. CASE MarkWrite(c)
        BY <3>4 DEF MarkWrite, Schedulable, StoreInv, TypeOK
      <3>5. CASE jobs' = jobs
        BY <3>5
      <3>6. QED
        BY <2>1, <3>1, <3>2, <3>3, <3>4, <3>5
           DEF CallerStep, EnqueueRead, CancelRead, RetryRead, MarkRead, SessionFails
    <2>2. ASSUME NEW r \in Runners, RunnerStep(r) PROVE jobs'[j].state = "canceled"
      <3>1. CASE ClaimCommit(r)
        BY <3>1 DEF ClaimCommit, StoreInv, LockInv, Schedulable
      <3>2. CASE RequeueCommit(r)
        BY <3>2 DEF RequeueCommit, StoreInv, LockInv, RetryDue
      <3>3. CASE jobs' = jobs
        BY <3>3
      <3>4. QED
        BY <2>2, <3>1, <3>2, <3>3
           DEF RunnerStep, ClaimBegin, RequeueBegin, Begin, ClaimSelect, RequeueSelect, Select,
               TxAbort
    <2>3. ASSUME NEW k \in Jobs, NEW status \in ResultStatuses, ResultHandled(k, status)
          PROVE  jobs'[j] = jobs[j]
      BY <2>3 DEF ResultHandled, StoreInv, TypeOK, PublishedInv
    <2>4. ASSUME NEW k \in Jobs, OperatorRequeue(k) PROVE jobs'[j] = jobs[j]
      BY <2>4 DEF OperatorRequeue, StoreInv, TypeOK
    <2>5. QED
      BY <2>1, <2>2, <2>3, <2>4 DEF Next, Tick
  <1>2. QED
    BY <1>1, StoreInvariant, PTL DEF Spec, CancelBeforeRunHolds

(* What DispatchTimeKept asks of one row.                                   *)
TimeKept(j) ==
    IF dispatches[j] > 0
    THEN jobs'[j].dispatched_at = jobs[j].dispatched_at
    ELSE jobs'[j].dispatched_at = NULL <=> dispatches'[j] = 0

(* A step that neither dispatches the job nor touches the column keeps it.  *)
LEMMA SameTimeKept ==
    ASSUME StoreInv, NEW j \in Jobs, dispatches'[j] = dispatches[j],
           jobs'[j].dispatched_at = jobs[j].dispatched_at
    PROVE  TimeKept(j)
  BY DEF TimeKept, StoreInv, TypeOK, RowInv

(* A dispatch writes the column if no dispatch did before.                  *)
LEMMA DispatchTime ==
    ASSUME StoreInv, NEW j \in Jobs, NEW at \in Nat,
           jobs'[j] = DispatchRow(jobs[j], at), dispatches'[j] = dispatches[j] + 1
    PROVE  TimeKept(j)
  <1>1. /\ jobs[j] \in JobRecord /\ dispatches[j] \in Nat
        /\ dispatches[j] = 0 <=> jobs[j].dispatched_at = NULL
    BY DEF StoreInv, TypeOK, RowInv
  <1>2. jobs'[j].dispatched_at = IF jobs[j].dispatched_at = NULL
                                 THEN at ELSE jobs[j].dispatched_at
    BY <1>1 DEF DispatchRow, JobRecord
  <1>3. QED
    BY <1>1, <1>2, NullAssumption DEF TimeKept

(* claim_schedulable_jobs and mark_job_dispatched stamp the first dispatch, *)
(* and no other statement touches the column.                               *)
THEOREM FirstDispatchTime == Spec => DispatchTimeKept
  <1>1. StoreInv /\ [Next]_vars => [\A j \in Jobs : TimeKept(j)]_vars
    <2> SUFFICES ASSUME StoreInv, Next, NEW j \in Jobs PROVE TimeKept(j)
      OBVIOUS
    <2>0. jobs[j] \in JobRecord
      BY DEF StoreInv, TypeOK
    <2>1. ASSUME NEW c \in Callers, CallerStep(c) PROVE TimeKept(j)
      <3>1. ASSUME NEW p \in Priorities, NEW b \in RetryBudgets, EnqueueInsert(c, p, b)
            PROVE  TimeKept(j)
        <4>1. dispatches' = dispatches
          BY <3>1 DEF EnqueueInsert
        <4>2. CASE session[c].job = j /\ jobs[j].state = "absent"
          <5>1. PICK at : jobs'[j] = CreateJob(p, b, at)
            BY <3>1, <4>2 DEF EnqueueInsert, StoreInv, TypeOK
          <5>2. jobs'[j].dispatched_at = NULL
            BY <5>1 DEF CreateJob
          <5>3. jobs[j].dispatched_at = NULL
            BY <4>2 DEF StoreInv, TypeOK, RowInv
          <5>4. QED
            BY <4>1, <5>2, <5>3, SameTimeKept
        <4>3. CASE ~(session[c].job = j /\ jobs[j].state = "absent")
          BY <3>1, <4>1, <4>3, SameTimeKept DEF EnqueueInsert, StoreInv, TypeOK
        <4>4. QED
          BY <4>2, <4>3
      <3>2. CASE CancelWrite(c) \/ RetryWrite(c)
        <4>1. /\ dispatches' = dispatches
              /\ jobs'[j].dispatched_at = jobs[j].dispatched_at
          BY <2>0, <3>2 DEF CancelWrite, RetryWrite, UpdateJobState, StoreInv, TypeOK, JobRecord
        <4>2. QED
          BY <4>1, SameTimeKept
      <3>3. CASE MarkWrite(c)
        <4>1. CASE session[c].job = j /\ Schedulable(jobs[j])
          <5>1. PICK at \in BeginTimes(c) : /\ jobs'[j] = DispatchRow(jobs[j], at)
                                            /\ dispatches'[j] = dispatches[j] + 1
            BY <3>3, <4>1 DEF MarkWrite, StoreInv, TypeOK
          <5>2. at \in Nat
            BY <3>3, SessionTimes DEF StoreInv, MarkWrite
          <5>3. QED
            BY <5>1, <5>2, DispatchTime
        <4>2. CASE ~(session[c].job = j /\ Schedulable(jobs[j]))
          BY <3>3, <4>2, SameTimeKept DEF MarkWrite, StoreInv, TypeOK
        <4>3. QED
          BY <4>1, <4>2
      <3>4. CASE jobs' = jobs /\ dispatches' = dispatches
        BY <3>4, SameTimeKept
      <3>5. QED
        BY <2>1, <3>1, <3>2, <3>3, <3>4
           DEF CallerStep, EnqueueRead, CancelRead, RetryRead, MarkRead, SessionFails
    <2>2. ASSUME NEW r \in Runners, RunnerStep(r) PROVE TimeKept(j)
      <3>1. CASE ClaimCommit(r)
        <4>1. CASE j \in tx[r].rows
          <5>1. tx[r].at \in Nat
            BY DEF StoreInv, TypeOK, Transactions, Time
          <5>2. QED
            BY <3>1, <4>1, <5>1, DispatchTime DEF ClaimCommit
        <4>2. CASE j \notin tx[r].rows
          BY <3>1, <4>2, SameTimeKept DEF ClaimCommit
        <4>3. QED
          BY <4>1, <4>2
      <3>2. CASE RequeueCommit(r)
        <4>1. /\ dispatches' = dispatches
              /\ jobs'[j].dispatched_at = jobs[j].dispatched_at
          BY <2>0, <3>2 DEF RequeueCommit, RequeueRetry, JobRecord
        <4>2. QED
          BY <4>1, SameTimeKept
      <3>3. CASE jobs' = jobs /\ dispatches' = dispatches
        BY <3>3, SameTimeKept
      <3>4. QED
        BY <2>2, <3>1, <3>2, <3>3
           DEF RunnerStep, ClaimBegin, RequeueBegin, Begin, ClaimSelect, RequeueSelect, Select,
               TxAbort
    <2>3. ASSUME NEW k \in Jobs, NEW status \in ResultStatuses, ResultHandled(k, status)
          PROVE  TimeKept(j)
      <3>1. jobs'[j].dispatched_at = jobs[j].dispatched_at
        <4>1. CASE k # j
          BY <2>3, <4>1 DEF ResultHandled, StoreInv, TypeOK
        <4>2. CASE k = j
          <5>1. jobs'[j] = HandleResult(jobs[j], status, clock)
            BY <2>3, <4>2 DEF ResultHandled, StoreInv, TypeOK
          <5>2. QED
            BY <2>0, <5>1 DEF HandleResult, ScheduleRetry, UpdateJobState, JobRecord
        <4>3. QED
          BY <4>1, <4>2
      <3>2. QED
        BY <2>3, <3>1, SameTimeKept DEF ResultHandled
    <2>4. ASSUME NEW k \in Jobs, OperatorRequeue(k) PROVE TimeKept(j)
      <3>1. jobs'[j].dispatched_at = jobs[j].dispatched_at
        BY <2>0, <2>4 DEF OperatorRequeue, RequeueDeadLettered, StoreInv, TypeOK, JobRecord
      <3>2. QED
        BY <2>4, <3>1, SameTimeKept DEF OperatorRequeue
    <2>5. CASE Tick
      BY <2>5, SameTimeKept DEF Tick
    <2>6. QED
      BY <2>1, <2>2, <2>3, <2>4, <2>5 DEF Next
  <1>2. (\A j \in Jobs : TimeKept(j)) <=>
            (\A j \in Jobs :
                IF dispatches[j] > 0
                THEN jobs'[j].dispatched_at = jobs[j].dispatched_at
                ELSE jobs'[j].dispatched_at = NULL <=> dispatches'[j] = 0)
    BY DEF TimeKept
  <1>3. StoreInv /\ [Next]_vars =>
            [\A j \in Jobs :
                IF dispatches[j] > 0
                THEN jobs'[j].dispatched_at = jobs[j].dispatched_at
                ELSE jobs'[j].dispatched_at = NULL <=> dispatches'[j] = 0]_vars
    BY <1>1, <1>2
  <1>4. QED
    BY <1>3, StoreInvariant, PTL DEF Spec, DispatchTimeKept

(***************************************************************************)
(* The percentiles of the queue wait.                                      *)
(***************************************************************************)

(* r is the first rank that p percent of n do not exceed.                   *)
RankOf(p, n, r) == r \in 1 .. n /\ 100 * r >= p * n /\ 100 * (r - 1) < p * n

(* ceil(p / 100 * n) needs no clamping for the percentages reported.        *)
LEMMA RankIs ==
    ASSUME NEW p \in {50, 95, 99}, NEW n \in Nat \ {0}
    PROVE  RankOf(p, n, NearestRank(p, n))
  <1> DEFINE x == p * n + 99
             c == x \div 100
  <1>1. /\ x \in Nat /\ x >= 100 /\ x <= 99 * n + 99
    BY p = 50 \/ p = 95 \/ p = 99
  <1> HIDE DEF x
  <1>2. c \in Nat /\ 100 * c <= x /\ x < 100 * c + 100
    BY <1>1
  <1> HIDE DEF c
  <1>3. c \in 1 .. n
    BY <1>1, <1>2
  <1>4. Min({c, n}) = c
    <2>1. {c, n} \subseteq Nat /\ {c, n} # {}
      BY <1>3
    <2>2. Min({c, n}) \in {c, n} /\ \A m \in {c, n} : Min({c, n}) <= m
      BY <2>1, MinIs
    <2>3. QED
      BY <1>3, <2>2
  <1>5. Max({1, c}) = c
    <2>1. {1, c} \subseteq 0 .. n /\ {1, c} # {}
      BY <1>3
    <2>2. Max({1, c}) \in {1, c} /\ \A m \in {1, c} : Max({1, c}) >= m
      BY <2>1, MaxIs
    <2>3. QED
      BY <1>3, <2>2
  <1>6. NearestRank(p, n) = c
    BY <1>4, <1>5 DEF NearestRank, c, x
  <1>7. PICK y \in Nat : y = p * n /\ x = y + 99
    BY p = 50 \/ p = 95 \/ p = 99 DEF x
  <1>8. 100 * c >= y /\ 100 * (c - 1) < y
    BY <1>2, <1>3, <1>7
  <1>9. RankOf(p, n, c)
    BY <1>3, <1>7, <1>8 DEF RankOf
  <1>10. QED
    BY <1>6, <1>9

(* How many of the jobs W waited at most v.                                 *)
UpTo(W, wait, v) == Cardinality({j \in W : wait[j] <= v})

(* The least wait that r of the jobs do not exceed: fewer than r are below. *)
LEMMA RankedWait ==
    ASSUME NEW W, IsFiniteSet(W), W # {}, NEW wait \in [W -> Nat],
           NEW r \in 1 .. Cardinality(W),
           NEW v, v = Min({wait[j] : j \in {k \in W : UpTo(W, wait, wait[k]) >= r}})
    PROVE  /\ UpTo(W, wait, v) >= r
           /\ \A j \in W : UpTo(W, wait, wait[j]) \in Nat
           /\ \A j \in W : wait[j] < v => UpTo(W, wait, wait[j]) < r
  <1> DEFINE n == Cardinality(W)
             C == {k \in W : UpTo(W, wait, wait[k]) >= r}
             V == {wait[j] : j \in C}
  <1>1. n \in Nat
    BY FS_CardinalityType
  <1>2. ASSUME NEW j \in W
        PROVE  UpTo(W, wait, wait[j]) \in 0 .. n
    <2> DEFINE B == {k \in W : wait[k] <= wait[j]}
    <2>1. B \subseteq W
      OBVIOUS
    <2>2. Cardinality(B) <= n /\ IsFiniteSet(B)
      BY <2>1, FS_Subset
    <2>3. Cardinality(B) \in Nat
      BY <2>2, FS_CardinalityType
    <2>4. QED
      BY <1>1, <2>2, <2>3 DEF UpTo
  <1> DEFINE U == {UpTo(W, wait, wait[j]) : j \in W}
  <1>3. U \subseteq 0 .. n /\ U # {}
    BY <1>2
  <1>4. PICK k \in W : \A j \in W : UpTo(W, wait, wait[k]) >= UpTo(W, wait, wait[j])
    <2>1. Max(U) \in U /\ \A m \in U : Max(U) >= m
      BY <1>1, <1>3, MaxIs
    <2>2. PICK k \in W : Max(U) = UpTo(W, wait, wait[k])
      BY <2>1
    <2>3. QED
      BY <2>1, <2>2
  <1>5. \A j \in W : wait[j] <= wait[k]
    <2> SUFFICES ASSUME NEW j \in W, wait[j] > wait[k] PROVE FALSE
      OBVIOUS
    <2> DEFINE B == {i \in W : wait[i] <= wait[k]}
               D == {i \in W : wait[i] <= wait[j]}
    <2>1. B \subseteq D /\ j \in D /\ j \notin B /\ IsFiniteSet(D) /\ D \subseteq W
      BY FS_Subset
    <2>2. Cardinality(B) < Cardinality(D)
      <3> HIDE DEF B, D
      <3>1. B \in SUBSET D /\ B # D
        BY <2>1
      <3>2. IsFiniteSet(B) /\ Cardinality(B) <= Cardinality(D)
            /\ (Cardinality(B) = Cardinality(D) => B = D)
        BY <2>1, <3>1, FS_Subset, Zenon
      <3>3. Cardinality(B) \in Nat /\ Cardinality(D) \in Nat
        BY <2>1, <3>2, FS_CardinalityType
      <3>4. QED
        BY <3>1, <3>2, <3>3
    <2>3. Cardinality(B) >= Cardinality(D)
      BY <1>4 DEF UpTo
    <2>4. Cardinality(B) \in Nat /\ Cardinality(D) \in Nat
      BY <2>1, FS_Subset, FS_CardinalityType
    <2>5. QED
      BY <2>2, <2>3, <2>4
  <1>6. k \in C
    <2>1. {j \in W : wait[j] <= wait[k]} = W
      BY <1>5
    <2>2. UpTo(W, wait, wait[k]) = n
      BY <2>1 DEF UpTo
    <2>3. QED
      BY <1>1, <2>2
  <1>7. V \subseteq Nat /\ V # {}
    BY <1>6
  <1>8. v \in V /\ \A m \in V : v <= m
    BY <1>7, MinIs
  <1>9. PICK i \in C : v = wait[i]
    BY <1>8
  <1>10. ASSUME NEW j \in W, wait[j] < v PROVE UpTo(W, wait, wait[j]) < r
    <2>1. j \in C => wait[j] \in V
      OBVIOUS
    <2>2. j \in C => v <= wait[j]
      BY <1>8, <2>1
    <2>3. j \notin C
      BY <1>9, <1>10, <2>2
    <2>4. QED
      BY <1>2, <2>3
  <1>11. QED
    BY <1>2, <1>9, <1>10

(* compute_job_duration_metrics reports, over any finite table, the         *)
(* percentiles its docstring defines.                                       *)
THEOREM PercentilesRight ==
    ASSUME IsFiniteSet(Jobs)
    PROVE  Spec => []PercentilesNearestRank
  <1>1. StoreInv => PercentilesNearestRank
    <2> SUFFICES ASSUME StoreInv, NEW p \in {50, 95, 99}
                 PROVE  LET Up(v) == Cardinality({j \in Waited(jobs) : QueueWait(jobs[j]) <= v})
                            Enough(v) == 100 * Up(v) >= p * Cardinality(Waited(jobs))
                            v == QueueWaitPercentile(jobs, p)
                        IN  /\ Enough(v)
                            /\ \A j \in Waited(jobs) :
                                  QueueWait(jobs[j]) < v => ~Enough(QueueWait(jobs[j]))
      BY DEF PercentilesNearestRank
    <2> DEFINE W == Waited(jobs)
               wait == [j \in W |-> QueueWait(jobs[j])]
               v == QueueWaitPercentile(jobs, p)
               n == Cardinality(W)
               r == NearestRank(p, n)
    <2>1. W \subseteq Jobs /\ \A j \in W : QueueWait(jobs[j]) \in Nat
      BY NullAssumption DEF Waited, Completed, StoreInv, TypeOK, JobRecord, Time, QueueWait
    <2>2. IsFiniteSet(W) /\ n \in Nat
      BY <2>1, FS_Subset, FS_CardinalityType
    <2>3. wait \in [W -> Nat]
      BY <2>1
    <2>4. \A u : Cardinality({j \in W : QueueWait(jobs[j]) <= u}) = UpTo(W, wait, u)
      BY DEF UpTo
    <2>5. CASE W = {}
      <3>1. n = 0 /\ \A u : {j \in W : QueueWait(jobs[j]) <= u} = {}
        BY <2>5, FS_EmptySet
      <3>2. \A u : Cardinality({j \in W : QueueWait(jobs[j]) <= u}) = 0
        BY <3>1, FS_EmptySet
      <3>3. 100 * 0 >= p * 0
        OBVIOUS
      <3>4. QED
        BY <2>5, <3>1, <3>2, <3>3
    <2>6. CASE W # {}
      <3>1. n # 0
        BY <2>2, <2>6, FS_EmptySet
      <3>2. r \in 1 .. n /\ 100 * r >= p * n /\ 100 * (r - 1) < p * n
        <4>1. PICK m \in Nat \ {0} : m = n
          BY <2>2, <3>1
        <4>2. RankOf(p, m, NearestRank(p, m))
          BY RankIs, Zenon
        <4>3. RankOf(p, n, r)
          BY <4>1, <4>2, Zenon
        <4> HIDE DEF n, r
        <4>4. QED
          BY <4>3, Zenon DEF RankOf
      <3>3. v = Min({wait[j] : j \in {k \in W : UpTo(W, wait, wait[k]) >= r}})
        <4>1. v = Min({QueueWait(jobs[j]) : j \in {k \in W :
                     Cardinality({i \in W : QueueWait(jobs[i]) <= QueueWait(jobs[k])}) >= r}})
          BY <2>6 DEF QueueWaitPercentile
        <4>2. {k \in W : Cardinality({i \in W : QueueWait(jobs[i]) <= QueueWait(jobs[k])}) >= r}
                = {k \in W : UpTo(W, wait, wait[k]) >= r}
          BY <2>4
        <4>3. PICK S \in SUBSET W : S = {k \in W : UpTo(W, wait, wait[k]) >= r}
          OBVIOUS
        <4>4. \A j \in S : QueueWait(jobs[j]) = wait[j]
          OBVIOUS
        <4>5. {QueueWait(jobs[j]) : j \in S} = {wait[j] : j \in S}
          <5> HIDE DEF wait
          <5>1. QED
            BY <4>4
        <4>6. QED
          BY <4>1, <4>2, <4>3, <4>5
      <3> HIDE DEF W, wait, v, n, r
      <3>4. /\ UpTo(W, wait, v) >= r
            /\ \A j \in W : UpTo(W, wait, wait[j]) \in Nat
            /\ \A j \in W : wait[j] < v => UpTo(W, wait, wait[j]) < r
        BY <2>2, <2>3, <2>6, <3>2, <3>3, RankedWait DEF n
      <3>5. UpTo(W, wait, v) \in Nat
        <4>1. {j \in W : wait[j] <= v} \subseteq W
          OBVIOUS
        <4>2. QED
          BY <2>2, <4>1, FS_Subset, FS_CardinalityType DEF UpTo
      <3>6. PICK y \in Nat : y = p * n
        BY <2>2
      <3>7. 100 * UpTo(W, wait, v) >= p * n
        BY <3>2, <3>4, <3>5, <3>6
      <3>8. ASSUME NEW j \in W, wait[j] < v
            PROVE  ~(100 * UpTo(W, wait, wait[j]) >= p * n)
        <4>1. PICK u \in Nat : u = UpTo(W, wait, wait[j]) /\ u < r
          BY <3>4, <3>8
        <4>2. ~(100 * u >= y)
          BY <3>2, <3>6, <4>1
        <4>3. QED
          BY <3>6, <4>1, <4>2
      <3>9. \A j \in W : wait[j] = QueueWait(jobs[j])
        BY DEF wait
      <3>10. QED
        BY <2>4, <3>7, <3>8, <3>9 DEF W, v, n
    <2>7. QED
      BY <2>5, <2>6
  <1>2. QED
    BY <1>1, StoreInvariant, PTL

(***************************************************************************)
(* Every row implements JobLifecycle.                                      *)
(***************************************************************************)
Stays(j) == Lifecycle(j)!Next \/ UNCHANGED Lifecycle(j)!vars

(* A step that keeps the state and the count of runs is a stutter.          *)
LEMMA SameRowStays ==
    ASSUME NEW j \in Jobs, jobs'[j].state = jobs[j].state, dispatches'[j] = dispatches[j]
    PROVE  Stays(j)
  BY DEF Stays, Lifecycle!vars

(* Submission.                                                              *)
LEMMA EnqueueFollows ==
    ASSUME StoreInv, NEW c \in Callers, NEW p, NEW b, EnqueueInsert(c, p, b), NEW j \in Jobs
    PROVE  Stays(j)
  <1>1. CASE session[c].job = j /\ jobs[j].state = "absent"
    <2>1. jobs'[j].state = "queued" /\ dispatches' = dispatches
      BY <1>1 DEF EnqueueInsert, CreateJob, StoreInv, TypeOK
    <2>2. QED
      BY <1>1, <2>1 DEF Stays, Lifecycle!Next, Lifecycle!Submit
  <1>2. CASE ~(session[c].job = j /\ jobs[j].state = "absent")
    BY <1>2, SameRowStays DEF EnqueueInsert, StoreInv, TypeOK
  <1>3. QED
    BY <1>1, <1>2

(* The second half of a cancel or an API retry: the row exists, as it did   *)
(* when it was read, in whatever state it is by now.                        *)
LEMMA UpdateFollows ==
    ASSUME StoreInv, NEW c \in Callers, CancelWrite(c) \/ RetryWrite(c), NEW j \in Jobs
    PROVE  Stays(j)
  <1>1. CASE session[c].job = j
    <2>1. jobs[j] \in JobRecord /\ jobs[j].state # "absent"
      BY <1>1 DEF StoreInv, TypeOK, SessionInv, CancelWrite, RetryWrite
    <2>2. jobs'[j].state \in {"canceled", "retry_scheduled"} /\ dispatches' = dispatches
      BY <1>1, <2>1 DEF CancelWrite, RetryWrite, UpdateJobState, StoreInv, TypeOK, JobRecord
    <2>3. QED
      BY <2>1, <2>2 DEF Stays, Lifecycle!Next, Lifecycle!CancelOrRetry
  <1>2. CASE session[c].job # j
    BY <1>2, SameRowStays DEF CancelWrite, RetryWrite, StoreInv, TypeOK
  <1>3. QED
    BY <1>1, <1>2

(* mark_job_dispatched.                                                     *)
LEMMA MarkFollows ==
    ASSUME StoreInv, NEW c \in Callers, MarkWrite(c), NEW j \in Jobs
    PROVE  Stays(j)
  <1>1. CASE session[c].job = j /\ Schedulable(jobs[j])
    <2>1. jobs[j] \in JobRecord /\ jobs[j].state = "queued"
      BY <1>1 DEF Schedulable, StoreInv, TypeOK
    <2>2. PICK at : jobs'[j] = DispatchRow(jobs[j], at) /\ dispatches'[j] = dispatches[j] + 1
      BY <1>1 DEF MarkWrite, StoreInv, TypeOK
    <2>3. DispatchRow(jobs[j], at).state = "dispatched"
      BY <2>1 DEF DispatchRow, JobRecord
    <2>4. QED
      BY <2>1, <2>2, <2>3 DEF Stays, Lifecycle!Next, Lifecycle!Dispatch
  <1>2. CASE ~(session[c].job = j /\ Schedulable(jobs[j]))
    BY <1>2, SameRowStays DEF MarkWrite, StoreInv, TypeOK
  <1>3. QED
    BY <1>1, <1>2

(* The commit of a tick or of a scan: the locks kept the rows as selected.  *)
LEMMA CommitFollows ==
    ASSUME StoreInv, NEW r \in Runners, ClaimCommit(r) \/ RequeueCommit(r), NEW j \in Jobs
    PROVE  Stays(j)
  <1>0. jobs[j] \in JobRecord
    BY DEF StoreInv, TypeOK
  <1>1. CASE ClaimCommit(r) /\ j \in tx[r].rows
    <2>1. /\ jobs[j].state = "queued" /\ jobs'[j].state = "dispatched"
          /\ dispatches'[j] = dispatches[j] + 1
      BY <1>0, <1>1 DEF ClaimCommit, StoreInv, LockInv, Schedulable, DispatchRow, JobRecord
    <2>2. QED
      BY <2>1 DEF Stays, Lifecycle!Next, Lifecycle!Dispatch
  <1>2. CASE RequeueCommit(r) /\ j \in tx[r].rows
    <2>1. /\ jobs[j].state = "retry_scheduled" /\ jobs'[j].state = "queued"
          /\ dispatches' = dispatches
      BY <1>0, <1>2 DEF RequeueCommit, StoreInv, LockInv, RetryDue, RequeueRetry, JobRecord
    <2>2. QED
      BY <2>1 DEF Stays, Lifecycle!Next, Lifecycle!PutBack
  <1>3. CASE j \notin tx[r].rows
    BY <1>3, SameRowStays DEF ClaimCommit, RequeueCommit
  <1>4. QED
    BY <1>1, <1>2, <1>3

(* A worker result: only jobs that a tick has claimed have one.             *)
LEMMA ResultFollows ==
    ASSUME StoreInv, NEW k \in Jobs, NEW status \in ResultStatuses, ResultHandled(k, status),
           NEW j \in Jobs
    PROVE  Stays(j)
  <1>1. CASE k = j
    <2>1. /\ jobs[j] \in JobRecord /\ dispatches[j] > 0 /\ jobs[j].state # "absent"
          /\ dispatches' = dispatches
      BY <1>1 DEF StoreInv, TypeOK, PublishedInv, RowInv, ResultHandled
    <2>2. jobs'[j] = HandleResult(jobs[j], status, clock)
      BY <1>1 DEF ResultHandled, StoreInv, TypeOK
    <2>3. HandleResult(jobs[j], status, clock).state
              \in {"succeeded", "failed", "canceled", "retry_scheduled", "dead_lettered"}
      <3>1. CASE status = "retryable_failure"
        BY <2>1, <3>1 DEF HandleResult, ScheduleRetry, JobRecord
      <3>2. CASE status # "retryable_failure"
        BY <2>1, <3>2 DEF HandleResult, UpdateJobState, MapResultStatus, JobRecord
      <3>3. QED
        BY <3>1, <3>2
    <2>4. QED
      BY <2>1, <2>2, <2>3
         DEF Stays, Lifecycle!Next, Lifecycle!Report, Lifecycle!CancelOrRetry
  <1>2. CASE k # j
    BY <1>2, SameRowStays DEF ResultHandled, StoreInv, TypeOK
  <1>3. QED
    BY <1>1, <1>2

(* requeue_dead_lettered_job.                                               *)
LEMMA OperatorFollows ==
    ASSUME StoreInv, NEW k \in Jobs, OperatorRequeue(k), NEW j \in Jobs
    PROVE  Stays(j)
  <1>1. CASE k = j
    <2>1. /\ jobs[j].state = "dead_lettered" /\ jobs'[j].state = "queued"
          /\ dispatches' = dispatches
      BY <1>1 DEF OperatorRequeue, RequeueDeadLettered, StoreInv, TypeOK, JobRecord
    <2>2. QED
      BY <2>1 DEF Stays, Lifecycle!Next, Lifecycle!PutBack
  <1>2. CASE k # j
    BY <1>2, SameRowStays DEF OperatorRequeue, StoreInv, TypeOK
  <1>3. QED
    BY <1>1, <1>2

(* The table and all its writers implement the lifecycle of every job.      *)
THEOREM RowsFollowLifecycle == Spec => FollowsLifecycle
  <1>1. Init => \A j \in Jobs : Lifecycle(j)!Init
    BY DEF Init, AbsentRow, Lifecycle!Init
  <1>2. StoreInv /\ [Next]_vars => [\A j \in Jobs : Stays(j)]_vars
    <2> SUFFICES ASSUME StoreInv, Next, NEW j \in Jobs PROVE Stays(j)
      OBVIOUS
    <2>1. ASSUME NEW c \in Callers, CallerStep(c) PROVE Stays(j)
      <3>1. CASE jobs' = jobs /\ dispatches' = dispatches
        BY <3>1, SameRowStays
      <3>2. QED
        BY <2>1, <3>1, EnqueueFollows, UpdateFollows, MarkFollows
           DEF CallerStep, EnqueueRead, CancelRead, RetryRead, MarkRead, SessionFails
    <2>2. ASSUME NEW r \in Runners, RunnerStep(r) PROVE Stays(j)
      <3>1. CASE jobs' = jobs /\ dispatches' = dispatches
        BY <3>1, SameRowStays
      <3>2. QED
        BY <2>2, <3>1, CommitFollows DEF RunnerStep, ClaimBegin, RequeueBegin, Begin,
               ClaimSelect, RequeueSelect, Select, TxAbort
    <2>3. CASE Tick
      BY <2>3, SameRowStays DEF Tick
    <2>4. QED
      BY <2>1, <2>2, <2>3, ResultFollows, OperatorFollows DEF Next
  <1>3. (\A j \in Jobs : Stays(j))
            <=> (\A j \in Jobs : Lifecycle(j)!Next \/ UNCHANGED Lifecycle(j)!vars)
    BY DEF Stays
  <1>4. StoreInv /\ [Next]_vars
            => [\A j \in Jobs : Lifecycle(j)!Next \/ UNCHANGED Lifecycle(j)!vars]_vars
    BY <1>2, <1>3
  <1>5. QED
    BY <1>1, <1>4, StoreInvariant, PTL DEF Spec, FollowsLifecycle
=============================================================================
