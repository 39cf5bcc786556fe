------------------------- MODULE SchedulerPolicies -------------------------
(***************************************************************************)
(* The five in-memory queues of control_plane/kernelq: FIFOScheduler,      *)
(* BoundedQueue, PriorityScheduler, WeightedRoundRobinScheduler and        *)
(* ComposedScheduler.  They differ in three decisions: who is admitted, in *)
(* which lane a job waits, and which job of a lane goes first.             *)
(***************************************************************************)
EXTENDS WeightedCycle, Integers

CONSTANT
    Blank    \* a tenant_id that is blank or not among the weights

ASSUME BlankAssumption == Blank \notin Tenants

Policies == {"fifo", "bounded", "priority", "weighted_rr", "composed"}

(* One deque per tenant, or one container for everybody.                   *)
PerTenant == {"weighted_rr", "composed"}
Everybody == "everybody"
Lanes == Tenants \cup {Everybody}
Lane(policy, job) == IF policy \in PerTenant THEN job.tenant_id ELSE Everybody
NoJobs == [l \in Lanes |-> <<>>]

(* A container without tenants is a lap of one slot.                       *)
CycleOf(policy, weights) ==
    IF policy \in PerTenant THEN BuildWeightCycle(weights) ELSE <<Everybody>>

(* Every place a job waits in; there are as many as the lanes are long.    *)
Places(queues) == UNION {{l} \X DOMAIN queues[l] : l \in Lanes}
SizeOf(queues) == Cardinality(Places(queues))

(* Job ids are numbers in place of strings, both are ordered; 0 is "".     *)
BlankId == 0

(* Mutant: the priority in the heap's key is not negated.                   *)
BetterUnnegated(c, b) ==
    \/ c.priority < b.priority
    \/ c.priority = b.priority /\ c.created_at < b.created_at
    \/ c.priority = b.priority /\ c.created_at = b.created_at /\ c.job_id < b.job_id

(* The key of the heap entries, and the comparison of _best_job_index.     *)
Better(c, b) ==
    \/ c.priority > b.priority
    \/ c.priority = b.priority /\ c.created_at < b.created_at
    \/ c.priority = b.priority /\ c.created_at = b.created_at /\ c.job_id < b.job_id

(* Mutant: best is not updated, only best_index is.                         *)
BestJobIndexOfFirst(jobs) ==
    LET best[i \in 1 .. Len(jobs)] ==
            IF i = 1 THEN 1 ELSE IF Better(jobs[i], jobs[1]) THEN i ELSE best[i - 1]
    IN  best[Len(jobs)]

(* Its scan: keep the best index so far, from the left.                    *)
BestJobIndex(jobs) ==
    LET best[i \in 1 .. Len(jobs)] ==
            IF i = 1 THEN 1
            ELSE IF Better(jobs[i], jobs[best[i - 1]]) THEN i ELSE best[i - 1]
    IN  best[Len(jobs)]

(* popleft, heappop (equal keys are equal jobs) and _best_job_index.       *)
JobIndex(policy, jobs) ==
    IF policy \in {"priority", "composed"} THEN BestJobIndex(jobs) ELSE 1

(* What enqueue answers.  Validity is looked at before the capacity; FIFO  *)
(* and priority take everything, weighted round robin raises ValueError    *)
(* for a tenant it does not know.                                          *)
Invalid(policy, job) ==
    \/ policy \in {"bounded", "composed"} /\ job.job_id = BlankId
    \/ policy = "composed" /\ job.tenant_id \notin Tenants

AdmissionIf(policy, job, full) ==
    IF Invalid(policy, job) THEN "rejected_invalid"
    ELSE IF policy = "weighted_rr" /\ job.tenant_id \notin Tenants THEN "raised"
    ELSE IF policy \in {"bounded", "composed"} /\ full THEN "rejected_full"
    ELSE "accepted"

(* Mutant: > in place of >=.                                                *)
AdmissionOneMore(policy, job, size, capacity) == AdmissionIf(policy, job, size > capacity)

Admission(policy, job, size, capacity) == AdmissionIf(policy, job, size >= capacity)

EnqueueAnswers == {"accepted", "rejected_full", "rejected_invalid", "raised"}
=============================================================================
