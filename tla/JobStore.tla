------------------------------ MODULE JobStore ------------------------------
(***************************************************************************)
(* The Postgres table "jobs" and every process that writes it, as they     *)
(* interleave: API handlers that read, decide and write in separate        *)
(* transactions; scheduler ticks and retry scans that lock their rows with *)
(* FOR UPDATE SKIP LOCKED and commit later, or die in between; worker      *)
(* results that overwrite whatever the row says; an operator who puts dead *)
(* lettered jobs back.                                                     *)
(***************************************************************************)
EXTENDS JobMetrics

CONSTANTS
    Jobs,          \* job ids
    Callers,       \* threads that call the repository to read, then write
    Runners,       \* processes that run a scheduler tick or a retry scan
    ClaimLimit,    \* max_jobs_per_tick
    RequeueLimit,  \* max_jobs_per_scan
    MaxTime,       \* bound: the clock stops here
    MaxManual      \* bound: API retries plus operator requeues of one job

ASSUME LimitAssumption == ClaimLimit \in Nat \ {0} /\ RequeueLimit \in Nat \ {0}
ASSUME BoundAssumption == MaxTime \in Nat /\ MaxManual \in Nat

VARIABLES
    jobs,        \* the table
    clock,       \* time.time() and NOW(): one clock for all hosts
    session,     \* session[c]: what caller c read its row for, and when, if its
                 \* write stores the time
    tx,          \* tx[r]: the open transaction of runner r, when it began and its
                 \* row locks, none before its statement has run
    manual,      \* history: API retries and operator requeues of each job
    queuings,    \* history: how often each job became queued
    dispatches,  \* history: how often each job became dispatched
    published    \* jobs a tick has claimed, which workers may report on

vars == <<jobs, clock, session, tx, manual, queuings, dispatches, published>>

Idle == [op |-> "idle"]
Sessions == {Idle} \cup [op : {"cancel", "retry"}, job : Jobs]
                   \cup [op : {"enqueue", "mark"}, job : Jobs, at : Time]

NoTx == [kind |-> "none", rows |-> {}, at |-> 0]
Transactions == [kind : {"none", "claim", "requeue"}, rows : SUBSET Jobs, at : Time]

TypeOK ==
    /\ jobs \in [Jobs -> JobRecord]
    /\ clock \in Time
    /\ session \in [Callers -> Sessions]
    /\ tx \in [Runners -> Transactions]
    /\ manual \in [Jobs -> Nat]
    /\ queuings \in [Jobs -> Nat]
    /\ dispatches \in [Jobs -> Nat]
    /\ published \in SUBSET Jobs

Init ==
    /\ jobs = [j \in Jobs |-> AbsentRow]
    /\ clock = 0
    /\ session = [c \in Callers |-> Idle]
    /\ tx = [r \in Runners |-> NoTx]
    /\ manual = [j \in Jobs |-> 0]
    /\ queuings = [j \in Jobs |-> 0]
    /\ dispatches = [j \in Jobs |-> 0]
    /\ published = {}

(* Mutant: SELECT ... without FOR UPDATE SKIP LOCKED.                       *)
UnlockedAlways(j) == TRUE

(* A plain UPDATE waits for the row lock and then sees the committed row,  *)
(* so it takes effect only while nobody holds the row; FOR UPDATE SKIP     *)
(* LOCKED passes over the same rows.                                       *)
Unlocked(j) == \A r \in Runners : j \notin tx[r].rows

(***************************************************************************)
(* API handlers (api.py).  A request that is refused (400, 404, 409) after *)
(* its read changes nothing, and is not a step.                            *)
(***************************************************************************)
Open(c, request) ==
    /\ session[c] = Idle
    /\ session' = [session EXCEPT ![c] = request]

Close(c) == session' = [session EXCEPT ![c] = Idle]

(* NOW() is the time at which the transaction began, which is after the    *)
(* read of the same request and may be long before its own commit.         *)
BeginTimes(c) == session[c].at .. clock

EnqueueRead(c, j) ==
    /\ jobs[j].state = "absent"
    /\ Open(c, [op |-> "enqueue", job |-> j, at |-> clock])
    /\ UNCHANGED <<jobs, clock, tx, manual, queuings, dispatches, published>>

(* The primary key turns a second insert into UniqueViolation: 409.        *)
EnqueueInsert(c, priority, max_retries) ==
    /\ session[c].op = "enqueue"
    /\ LET j == session[c].job IN
         IF jobs[j].state = "absent"
         THEN /\ \E at \in BeginTimes(c) :
                    jobs' = [jobs EXCEPT ![j] = CreateJob(priority, max_retries, at)]
              /\ queuings' = [queuings EXCEPT ![j] = @ + 1]
         ELSE UNCHANGED <<jobs, queuings>>
    /\ Close(c)
    /\ UNCHANGED <<clock, tx, manual, dispatches, published>>

CancelRead(c, j) ==
    /\ jobs[j].state \in JobStates
    /\ CanTransition(jobs[j].state, "canceled")
    /\ Open(c, [op |-> "cancel", job |-> j])
    /\ UNCHANGED <<jobs, clock, tx, manual, queuings, dispatches, published>>

CancelWrite(c) ==
    /\ session[c].op = "cancel"
    /\ Unlocked(session[c].job)
    /\ jobs' = [jobs EXCEPT ![session[c].job] = UpdateJobState(@, "canceled")]
    /\ Close(c)
    /\ UNCHANGED <<clock, tx, manual, queuings, dispatches, published>>

RetryRead(c, j) ==
    /\ jobs[j].state \in JobStates
    /\ CanTransition(jobs[j].state, "retry_scheduled")
    /\ manual[j] < MaxManual                                           \* bound
    /\ Open(c, [op |-> "retry", job |-> j])
    /\ UNCHANGED <<jobs, clock, tx, manual, queuings, dispatches, published>>

(* retry_after keeps whatever value it had: update_job_state sets only the *)
(* state.                                                                  *)
RetryWrite(c) ==
    /\ session[c].op = "retry"
    /\ LET j == session[c].job IN
         /\ Unlocked(j)
         /\ manual[j] < MaxManual                                      \* bound
         /\ manual' = [manual EXCEPT ![j] = @ + 1]
         /\ jobs' = [jobs EXCEPT ![j] = UpdateJobState(@, "retry_scheduled")]
    /\ Close(c)
    /\ UNCHANGED <<clock, tx, queuings, dispatches, published>>

(* The handler ends with 500: the second statement failed or the API       *)
(* process died before it.                                                 *)
SessionFails(c) ==
    /\ session[c] # Idle
    /\ Close(c)
    /\ UNCHANGED <<jobs, clock, tx, manual, queuings, dispatches, published>>

(***************************************************************************)
(* mark_job_dispatched: get_job, then an UPDATE that checks the state      *)
(* again.                                                                  *)
(***************************************************************************)
MarkRead(c, j) ==
    /\ Schedulable(jobs[j])
    /\ Open(c, [op |-> "mark", job |-> j, at |-> clock])
    /\ UNCHANGED <<jobs, clock, tx, manual, queuings, dispatches, published>>

(* Mutant: the UPDATE does not check the state again.                       *)
MarkWriteUnchecked(c) ==
    /\ session[c].op = "mark"
    /\ LET j == session[c].job IN
         /\ Unlocked(j)
         /\ \E at \in BeginTimes(c) : jobs' = [jobs EXCEPT ![j] = DispatchRow(@, at)]
         /\ dispatches' = [dispatches EXCEPT ![j] = @ + 1]
    /\ Close(c)
    /\ UNCHANGED <<clock, tx, manual, queuings, published>>

MarkWrite(c) ==
    /\ session[c].op = "mark"
    /\ LET j == session[c].job IN
         /\ Unlocked(j)
         /\ IF Schedulable(jobs[j])
            THEN /\ \E at \in BeginTimes(c) : jobs' = [jobs EXCEPT ![j] = DispatchRow(@, at)]
                 /\ dispatches' = [dispatches EXCEPT ![j] = @ + 1]
            ELSE UNCHANGED <<jobs, dispatches>>
    /\ Close(c)
    /\ UNCHANGED <<clock, tx, manual, queuings, published>>

(***************************************************************************)
(* claim_schedulable_jobs and requeue_due_retries.  The connection is not  *)
(* in autocommit: the transaction begins, which fixes NOW(), then its      *)
(* statement selects and locks rows of the table as it is by then, and the *)
(* update becomes visible at the commit.  A scan compares retry_after with *)
(* the time it took before it called the repository.                       *)
(***************************************************************************)
Begin(r, kind) ==
    /\ tx[r] = NoTx
    /\ tx' = [tx EXCEPT ![r] = [kind |-> kind, rows |-> {}, at |-> clock]]
    /\ UNCHANGED <<jobs, clock, session, manual, queuings, dispatches, published>>

(* The statement locks one of the batches, or finds no row, so that its    *)
(* commit has nothing to make visible.                                     *)
Select(r, kind, candidates, batches) ==
    /\ tx[r].kind = kind
    /\ tx[r].rows = {}
    /\ IF candidates = {}
       THEN tx' = [tx EXCEPT ![r] = NoTx]
       ELSE \E B \in batches : tx' = [tx EXCEPT ![r].rows = B]
    /\ UNCHANGED <<jobs, clock, session, manual, queuings, dispatches, published>>

ClaimBegin(r) == Begin(r, "claim")

(* Mutant: the claim wants dispatched_at to be NULL.                        *)
ClaimSelectFirstTime(r) ==
    LET waiting == {j \in Jobs : Schedulable(jobs[j]) /\ Unlocked(j) /\ jobs[j].dispatched_at = NULL}
    IN  Select(r, "claim", waiting, ClaimBatches(jobs, waiting, ClaimLimit))

ClaimSelect(r) ==
    LET waiting == {j \in Jobs : Schedulable(jobs[j]) /\ Unlocked(j)}
    IN  Select(r, "claim", waiting, ClaimBatches(jobs, waiting, ClaimLimit))

ClaimCommit(r) ==
    /\ tx[r].kind = "claim"
    /\ tx[r].rows # {}
    /\ jobs' = [j \in Jobs |-> IF j \in tx[r].rows
                               THEN DispatchRow(jobs[j], tx[r].at) ELSE jobs[j]]
    /\ dispatches' = [j \in Jobs |-> IF j \in tx[r].rows
                                     THEN dispatches[j] + 1 ELSE dispatches[j]]
    /\ published' = published \cup tx[r].rows
    /\ tx' = [tx EXCEPT ![r] = NoTx]
    /\ UNCHANGED <<clock, session, manual, queuings>>

RequeueBegin(r) == Begin(r, "requeue")

RequeueSelect(r) ==
    LET due == {j \in Jobs : RetryDue(jobs[j], tx[r].at) /\ Unlocked(j)}
    IN  Select(r, "requeue", due, RequeueBatches(jobs, due, RequeueLimit))

(* Mutant: conn.commit() is missing.                                        *)
RequeueUncommitted(r) ==
    /\ tx[r].kind = "requeue"
    /\ tx[r].rows # {}
    /\ tx' = [tx EXCEPT ![r] = NoTx]
    /\ UNCHANGED <<jobs, queuings, clock, session, manual, dispatches, published>>

RequeueCommit(r) ==
    /\ tx[r].kind = "requeue"
    /\ tx[r].rows # {}
    /\ jobs' = [j \in Jobs |-> IF j \in tx[r].rows THEN RequeueRetry(jobs[j]) ELSE jobs[j]]
    /\ queuings' = [j \in Jobs |-> IF j \in tx[r].rows
                                   THEN queuings[j] + 1 ELSE queuings[j]]
    /\ tx' = [tx EXCEPT ![r] = NoTx]
    /\ UNCHANGED <<clock, session, manual, dispatches, published>>

(* The statement raises, or the process dies: Postgres rolls back and      *)
(* releases the locks.                                                     *)
TxAbort(r) ==
    /\ tx[r] # NoTx
    /\ tx' = [tx EXCEPT ![r] = NoTx]
    /\ UNCHANGED <<jobs, clock, session, manual, queuings, dispatches, published>>

(***************************************************************************)
(* ResultStateHandler.handle.  Any job that a tick has claimed may have a  *)
(* result under way, of any attempt and any number of times: topics        *)
(* redeliver, and the default dedupe store is as young as its process.     *)
(***************************************************************************)
ResultHandled(j, status) ==
    /\ j \in published
    /\ Unlocked(j)
    /\ (status = "retryable_failure" /\ jobs[j].retry_count < jobs[j].max_retries)
            => clock + RETRY_DELAY <= MaxTime                          \* bound
    /\ jobs' = [jobs EXCEPT ![j] = HandleResult(@, status, clock)]
    /\ UNCHANGED <<clock, session, tx, manual, queuings, dispatches, published>>

OperatorRequeue(j) ==
    /\ jobs[j].state = "dead_lettered"
    /\ Unlocked(j)
    /\ manual[j] < MaxManual                                           \* bound
    /\ manual' = [manual EXCEPT ![j] = @ + 1]
    /\ jobs' = [jobs EXCEPT ![j] = RequeueDeadLettered(@)]
    /\ queuings' = [queuings EXCEPT ![j] = @ + 1]
    /\ UNCHANGED <<clock, session, tx, dispatches, published>>

Tick ==
    /\ clock < MaxTime
    /\ clock' = clock + 1
    /\ UNCHANGED <<jobs, session, tx, manual, queuings, dispatches, published>>

CallerStep(c) ==
    \/ \E j \in Jobs : EnqueueRead(c, j)
    \/ \E p \in Priorities, m \in RetryBudgets : EnqueueInsert(c, p, m)
    \/ \E j \in Jobs : CancelRead(c, j)
    \/ CancelWrite(c)
    \/ \E j \in Jobs : RetryRead(c, j)
    \/ RetryWrite(c)
    \/ \E j \in Jobs : MarkRead(c, j)
    \/ MarkWrite(c)
    \/ SessionFails(c)

RunnerStep(r) ==
    \/ ClaimBegin(r)
    \/ ClaimSelect(r)
    \/ ClaimCommit(r)
    \/ RequeueBegin(r)
    \/ RequeueSelect(r)
    \/ RequeueCommit(r)
    \/ TxAbort(r)

Next ==
    \/ \E c \in Callers : CallerStep(c)
    \/ \E r \in Runners : RunnerStep(r)
    \/ \E j \in Jobs, status \in ResultStatuses : ResultHandled(j, status)
    \/ \E j \in Jobs : OperatorRequeue(j)
    \/ Tick

Spec == Init /\ [][Next]_vars

(***************************************************************************)
(* Fairness: the scheduler and the scanner are run again and again (a loop *)
(* or cron), their transactions do not fail for ever, and time passes.     *)
(* Nothing is assumed of clients, operators or workers.                    *)
(***************************************************************************)
Fairness ==
    /\ WF_vars(Tick)
    /\ \A r \in Runners : /\ SF_vars(ClaimBegin(r))
                          /\ SF_vars(ClaimSelect(r))
                          /\ SF_vars(ClaimCommit(r))
                          /\ SF_vars(RequeueBegin(r))
                          /\ SF_vars(RequeueSelect(r))
                          /\ SF_vars(RequeueCommit(r))

FairSpec == Spec /\ Fairness

(***************************************************************************)
(* Safety.                                                                 *)
(***************************************************************************)

(* Two schedulers never hand off the same stay in the queue: however ticks, *)
(* mark_job_dispatched, cancels and late results interleave, a job is       *)
(* dispatched at most once for each time it was queued (FOR UPDATE SKIP     *)
(* LOCKED and the state check of mark_job_dispatched).                      *)
DispatchedOncePerQueuing ==
    \A j \in Jobs : dispatches[j] + (IF Schedulable(jobs[j]) THEN 1 ELSE 0) <= queuings[j]

(* No job runs on credit: automatic runs are paid for by the first enqueue  *)
(* and by retry_count, which never passes max_retries; every further run    *)
(* needs a human (POST /retry or requeue_dead_lettered_job), one run each,  *)
(* even when results are duplicated or late.                                *)
RunsArePaidFor ==
    \A j \in Jobs : /\ jobs[j].retry_count <= jobs[j].max_retries
                    /\ dispatches[j] <= 1 + jobs[j].max_retries + manual[j]

(* A job whose back-off (retry_after) has not run out is neither waiting    *)
(* for a scheduler nor handed to a worker, whichever path put it back.      *)
BackoffRespected ==
    \A j \in Jobs :
        jobs[j].state \in {"queued", "dispatched"} =>
            jobs[j].retry_after = NULL \/ jobs[j].retry_after <= clock

(* A job canceled while it waited for its first run never runs.  The cancel *)
(* may fall between the read and the write of mark_job_dispatched or of a   *)
(* second enqueue of the same job_id, and between the begin of a claim and  *)
(* its selection.  After a first dispatch nothing of the kind holds: a late *)
(* retryable result takes a canceled row back to retry_scheduled.           *)
CancelBeforeRunHolds ==
    [][\A j \in Jobs : (jobs[j].state = "canceled" /\ dispatches[j] = 0)
                          => jobs'[j].state = "canceled"]_vars

(* Every row goes through the lifecycle an observer may rely on, whichever  *)
(* processes write it: no dispatch but from the queue, no way back to the   *)
(* queue but a scheduled retry or the dead letters, no outcome without a    *)
(* run.                                                                     *)
Lifecycle(j) == INSTANCE JobLifecycle WITH state <- jobs[j].state, runs <- dispatches[j]

FollowsLifecycle ==
    /\ \A j \in Jobs : Lifecycle(j)!Init
    /\ [][\A j \in Jobs : Lifecycle(j)!Next \/ UNCHANGED Lifecycle(j)!vars]_vars

(* The queue wait of a job is that of its first dispatch: dispatched_at is  *)
(* set by the dispatch that finds it NULL and by nothing else, and no       *)
(* retry, requeue, cancel or late result moves or clears it afterwards.     *)
DispatchTimeKept ==
    [][\A j \in Jobs :
        IF dispatches[j] > 0
        THEN jobs'[j].dispatched_at = jobs[j].dispatched_at
        ELSE jobs'[j].dispatched_at = NULL <=> dispatches'[j] = 0]_vars

(* The reported percentiles are what the docstring defines: "the smallest   *)
(* value where at least p% of observations are <= it".                      *)
PercentilesNearestRank ==
    LET UpTo(v) == Cardinality({j \in Waited(jobs) : QueueWait(jobs[j]) <= v})
        Enough(v, p) == 100 * UpTo(v) >= p * Cardinality(Waited(jobs))
    IN  \A p \in {50, 95, 99} :
            LET v == QueueWaitPercentile(jobs, p) IN
            /\ Enough(v, p)
            /\ \A j \in Waited(jobs) : QueueWait(jobs[j]) < v => ~Enough(QueueWait(jobs[j]), p)

(***************************************************************************)
(* The inductive invariant behind them.  RowInv relates one row to its     *)
(* history (q queuings, d dispatches, m manual interventions) at time now; *)
(* LockInv says what an open transaction may rely on.                      *)
(***************************************************************************)
RowInv(row, q, d, m, now) ==
    /\ row.retry_count <= row.max_retries
    /\ d <= q
    /\ row.state = "queued" => d < q
    /\ q <= 1 + row.retry_count + m
    /\ row.state = "retry_scheduled" => q <= row.retry_count + m
    /\ row.state \in {"queued", "dispatched"} =>
            row.retry_after = NULL \/ row.retry_after <= now
    /\ d = 0 <=> row.dispatched_at = NULL
    /\ d > 0 => row.dispatched_at <= now
    /\ row.created_at <= now
    /\ row.state = "absent" => q = 0
    /\ row.state \in CompletedStates \cup {"dispatched", "retry_scheduled"} => d > 0

LockInv ==
    /\ \A r \in Runners :
          /\ tx[r].at <= clock
          /\ tx[r].kind = "none" => tx[r].rows = {}
          /\ \A j \in tx[r].rows :
                /\ tx[r].kind = "claim" => Schedulable(jobs[j])
                /\ tx[r].kind = "requeue" => RetryDue(jobs[j], tx[r].at)
    /\ \A r, s \in Runners : r # s => tx[r].rows \cap tx[s].rows = {}

SessionInv ==
    \A c \in Callers :
        /\ session[c].op \in {"enqueue", "mark"} => session[c].at <= clock
        /\ session[c].op \in {"cancel", "retry", "mark"} =>
              jobs[session[c].job].state # "absent"
        /\ session[c].op = "retry" => dispatches[session[c].job] > 0

PublishedInv == \A j \in published : dispatches[j] > 0

(* Every row agrees with its history and its back-off, every open           *)
(* transaction still holds the rows it selected in the state it selected    *)
(* them in, and every half-done API request refers to an existing row.      *)
StoreInv ==
    /\ TypeOK
    /\ \A j \in Jobs : RowInv(jobs[j], queuings[j], dispatches[j], manual[j], clock)
    /\ LockInv
    /\ SessionInv
    /\ PublishedInv

(***************************************************************************)
(* Liveness, under FairSpec.                                               *)
(***************************************************************************)

(* Every queued job leaves the queue, by a tick or a cancel: SKIP LOCKED,   *)
(* aborted ticks and more urgent jobs do not starve it.                     *)
QueueDrains ==
    \A j \in Jobs : Schedulable(jobs[j]) ~> ~Schedulable(jobs[j])

(* A retry that schedule_retry_from_worker_result scheduled is requeued or  *)
(* overtaken by another outcome; it does not wait for ever.                 *)
TimedRetryLeaves ==
    \A j \in Jobs :
        (jobs[j].state = "retry_scheduled" /\ jobs[j].retry_after # NULL)
            ~> jobs[j].state # "retry_scheduled"

(***************************************************************************)
(* What the repository's documents say and the code does not keep.         *)
(***************************************************************************)

(* architecture.md: a job in RETRY_SCHEDULED "waits for the retry delay";   *)
(* "Once the delay expires, it transitions back to QUEUED".                 *)
RetryScheduledLeaves ==
    \A j \in Jobs : jobs[j].state = "retry_scheduled" ~> jobs[j].state # "retry_scheduled"
=============================================================================
