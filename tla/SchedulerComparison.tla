------------------------ MODULE SchedulerComparison ------------------------
(***************************************************************************)
(* control_plane/scripts/compare_schedulers.py: one workload is offered to *)
(* four schedulers, one after the other; each is filled, then drained      *)
(* under a clock that ticks once per dispatch, and SchedulerMetrics keeps  *)
(* the tally from which the script prints its comparison.  The composed    *)
(* run alone is what simulate_composed_scheduler.py does with this         *)
(* workload.                                                               *)
(***************************************************************************)
EXTENDS SchedulerPolicies

CONSTANTS
    Setups,      \* choices of [workload, capacity, weights], as main() makes one
    Priorities   \* priorities that occur in the workloads

(* Of _build_workload: a list of jobs whose ids, where not blank, differ.  *)
ASSUME ComparisonAssumption ==
    /\ Priorities \subseteq Int /\ IsFiniteSet(Priorities)
    /\ \A s \in Setups :
          /\ s.capacity \in Nat \ {0}
          /\ s.weights \in [Tenants -> Nat \ {0}]
          /\ s.workload \in Seq(ToSet(s.workload))
          /\ \A job \in ToSet(s.workload) :
                job.job_id \in Int /\ job.priority \in Priorities /\ job.created_at \in Int
          /\ \A i, k \in 1 .. Len(s.workload) :
                s.workload[i].job_id = s.workload[k].job_id /\ s.workload[i].job_id # BlankId
                    => i = k

VARIABLES
    setup,
    turn,      \* which of the four runs it is; 5 when main() is through
    offered,   \* jobs of the workload this scheduler was offered
    queues,    \* the scheduler's jobs
    cycle,     \* its _cycle
    pos,       \* its _cycle_pos
    by_id,     \* the workload's job for each id accepted
    tick,      \* the dispatch clock
    metrics,   \* SchedulerMetrics of this run
    results    \* results[p]: the metrics of policy p's run, once it is over

vars == <<setup, turn, offered, queues, cycle, pos, by_id, tick, metrics, results>>

RunOrder == <<"fifo", "priority", "weighted_rr", "composed">>
Policy == RunOrder[turn]
Workload == setup.workload
Size == SizeOf(queues)

(* d[key] = value.                                                         *)
WithEntry(d, key, value) ==
    [x \in DOMAIN d \cup {key} |-> IF x = key THEN value ELSE d[x]]

(***************************************************************************)
(* SchedulerMetrics.  A key missing from one of its dicts counts as 0.     *)
(***************************************************************************)
Count(S) == [x \in S |-> 0]

NoMetrics ==
    [accepted |-> 0, rejected_full |-> 0, rejected_invalid |-> 0,
     dispatched |-> 0, by_tenant |-> Count(Tenants), by_priority |-> Count(Priorities),
     wait |-> 0, wait_by_tenant |-> Count(Tenants), wait_by_priority |-> Count(Priorities),
     depth_peak |-> 0]

RecordEnqueueResult(m, status) == [m EXCEPT ![status] = @ + 1]

(* Mutant: the wait is charged to the tenant and not to the priority.       *)
RecordDispatchTenantOnly(m, job, dispatch_time) ==
    LET waited == dispatch_time - job.created_at
    IN  [m EXCEPT !.dispatched = @ + 1,
                  !.by_tenant[job.tenant_id] = @ + 1,
                  !.by_priority[job.priority] = @ + 1,
                  !.wait = @ + waited,
                  !.wait_by_tenant[job.tenant_id] = @ + waited]

RecordDispatch(m, job, dispatch_time) ==
    LET waited == dispatch_time - job.created_at
    IN  [m EXCEPT !.dispatched = @ + 1,
                  !.by_tenant[job.tenant_id] = @ + 1,
                  !.by_priority[job.priority] = @ + 1,
                  !.wait = @ + waited,
                  !.wait_by_tenant[job.tenant_id] = @ + waited,
                  !.wait_by_priority[job.priority] = @ + waited]

ObserveQueueDepth(m, depth) == [m EXCEPT !.depth_peak = Max({@, depth})]

(***************************************************************************)
(* The four runs.                                                          *)
(***************************************************************************)
Init ==
    /\ setup \in Setups
    /\ turn = 1
    /\ offered = 0
    /\ queues = NoJobs
    /\ cycle = CycleOf(Policy, setup.weights) /\ pos = 0
    /\ by_id = <<>>
    /\ tick = 0
    /\ metrics = NoMetrics
    /\ results = [p \in {} |-> NoMetrics]

(* Mutant: the capacity is looked at before _is_valid.                      *)
HarnessAdmissionFullFirst(job) ==
    LET answer == Admission(Policy, job, Size, setup.capacity)
    IN  IF Policy = "composed" THEN answer
        ELSE IF Size >= setup.capacity THEN "rejected_full"
        ELSE IF job.job_id = BlankId \/ job.tenant_id \notin Tenants THEN "rejected_invalid"
        ELSE answer

(* The composed scheduler refuses by itself; for the others the script     *)
(* does: _is_valid first, then the capacity, then enqueue.                 *)
HarnessAdmission(job) ==
    LET answer == Admission(Policy, job, Size, setup.capacity)
    IN  IF Policy = "composed" THEN answer
        ELSE IF job.job_id = BlankId \/ job.tenant_id \notin Tenants THEN "rejected_invalid"
        ELSE IF Size >= setup.capacity THEN "rejected_full"
        ELSE answer

Offer ==
    /\ turn <= Len(RunOrder)
    /\ offered < Len(Workload)
    /\ LET job    == Workload[offered + 1]
           status == HarnessAdmission(job)
       IN  /\ IF status = "accepted"
              THEN /\ queues' = [queues EXCEPT ![Lane(Policy, job)] = Append(@, job)]
                   /\ by_id' = IF Policy = "composed" THEN by_id
                               ELSE WithEntry(by_id, job.job_id, job)
              ELSE UNCHANGED <<queues, by_id>>
           /\ metrics' = ObserveQueueDepth(RecordEnqueueResult(metrics, status), SizeOf(queues'))
    /\ offered' = offered + 1
    /\ UNCHANGED <<setup, turn, cycle, pos, tick, results>>

(* One round of the drain loop.  The three simple schedulers return a job  *)
(* without all its fields; the script finds the rest under its id.         *)
DispatchTo(new_pos) ==
    /\ turn <= Len(RunOrder) /\ offered = Len(Workload)
    /\ Size > 0
    /\ LET l == NextTenant(cycle, pos, queues)
           i == JobIndex(Policy, queues[l])
       IN  /\ queues' = [queues EXCEPT ![l] = RemoveAt(@, i)]
           /\ LET out == queues[l][i]
                  job == IF Policy = "composed" THEN out ELSE by_id[out.job_id]
              IN  metrics' = ObserveQueueDepth(RecordDispatch(metrics, job, tick),
                                               SizeOf(queues'))
    /\ pos' = new_pos
    /\ tick' = tick + 1
    /\ UNCHANGED <<setup, turn, offered, cycle, by_id, results>>

(* Mutant: the composed run walks the cycle the way peek does.              *)
DispatchComposedStays ==
    DispatchTo(IF Policy = "composed" THEN pos ELSE Advance(cycle, pos, queues))

Dispatch == DispatchTo(Advance(cycle, pos, queues))

(* dequeue returned None: the run is over, and the next one starts afresh. *)
(* The averages it returns are quotients of the counters, 0.0 where        *)
(* nothing was dispatched.                                                 *)
Finish ==
    /\ turn <= Len(RunOrder) /\ offered = Len(Workload)
    /\ Size = 0
    /\ results' = WithEntry(results, Policy, metrics)
    /\ turn' = turn + 1
    /\ offered' = 0
    /\ queues' = NoJobs
    /\ cycle' = IF turn' <= Len(RunOrder) THEN CycleOf(RunOrder[turn'], setup.weights) ELSE <<>>
    /\ pos' = 0
    /\ by_id' = <<>>
    /\ tick' = 0
    /\ metrics' = NoMetrics
    /\ UNCHANGED setup

Next == Offer \/ Dispatch \/ Finish

Spec == Init /\ [][Next]_vars

(***************************************************************************)
(* Properties.                                                             *)
(***************************************************************************)
Total(f) == MapThenSumSet(LAMBDA x : f[x], DOMAIN f)

TypeOK ==
    /\ setup \in Setups
    /\ turn \in 1 .. Len(RunOrder) + 1
    /\ offered \in 0 .. Len(Workload)
    /\ \A l \in Lanes : \A i \in 1 .. Len(queues[l]) : queues[l][i] \in ToSet(Workload)
    /\ DOMAIN results = {RunOrder[i] : i \in 1 .. turn - 1}

(* Nobody is lost between the counters: every offer is accepted or refused, *)
(* every accepted job is waiting or dispatched, the views by tenant and by  *)
(* priority break the same totals down, and queue_depth_peak is the depth   *)
(* the scheduler was filled to.  The clock counts the dispatches, and all       *)
(* variables have their types.                                              *)
MetricsAddUp ==
    /\ TypeOK
    /\ tick = metrics.dispatched
    /\ offered = metrics.accepted + metrics.rejected_full + metrics.rejected_invalid
    /\ metrics.accepted = metrics.dispatched + Size
    /\ metrics.depth_peak = metrics.accepted
    /\ Total(metrics.by_tenant) = metrics.dispatched
    /\ Total(metrics.by_priority) = metrics.dispatched
    /\ Total(metrics.wait_by_tenant) = metrics.wait
    /\ Total(metrics.wait_by_priority) = metrics.wait

(* A policy decides the order and nothing else: all four runs admit, refuse *)
(* and dispatch the same work per tenant and per priority, and wait the     *)
(* same in total, so that the script's averages compare like with like.     *)
SameWork ==
    \A p, q \in DOMAIN results :
        \A f \in {"accepted", "rejected_full", "rejected_invalid", "by_tenant",
                  "by_priority", "wait"} : results[p][f] = results[q][f]

(* Priorities inside a tenant cost the other tenants nothing: the composed  *)
(* scheduler gives every tenant the turns weighted round robin gives it, so *)
(* its jobs wait as long in total.                                          *)
TenantsUnaffected ==
    {"weighted_rr", "composed"} \subseteq DOMAIN results =>
        results["weighted_rr"].wait_by_tenant = results["composed"].wait_by_tenant

(* No policy serves the urgent better than the priority scheduler: the jobs *)
(* of any priority or a higher one wait, in total, least there.             *)
UrgentWaitLeast ==
    "priority" \in DOMAIN results =>
        \A q \in DOMAIN results, p \in Priorities :
            LET Urgent(m) == MapThenSumSet(LAMBDA x : m.wait_by_priority[x],
                                           {x \in Priorities : x >= p})
            IN  Urgent(results["priority"]) <= Urgent(results[q])
=============================================================================
