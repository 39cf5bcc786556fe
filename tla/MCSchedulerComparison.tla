----------------------- MODULE MCSchedulerComparison -----------------------
(***************************************************************************)
(* SchedulerComparison for TLC: the script's own workload, with its        *)
(* capacity and weights and others, and every list of three or four jobs   *)
(* of any tenant and priority, offered to schedulers with room for one     *)
(* less.                                                                   *)
(***************************************************************************)
EXTENDS SchedulerComparison

CONSTANTS ta, tb

TwoTenants == <<ta, tb>>
WeightsOf(a, b) == [t \in Tenants |-> IF t = ta THEN a ELSE b]
AllPriorities == {1, 2, 5, 10}

WorkloadJob(id, tenant, priority, created_at) ==
    [job_id |-> id, tenant_id |-> tenant, priority |-> priority, created_at |-> created_at]

(* _build_workload: ids by rank, "" is 0.                                  *)
BuildWorkload ==
    <<WorkloadJob(2, ta, 1, -8), WorkloadJob(4, tb, 5, -7), WorkloadJob(1, ta, 10, -6),
      WorkloadJob(6, tb, 1, -5), WorkloadJob(0, ta, 1, -4), WorkloadJob(3, ta, 5, -3),
      WorkloadJob(5, tb, 2, -2), WorkloadJob(7, ta, 10, -1)>>

(* Job i of a short list, and the two ways it can be invalid.              *)
Offers(i, times) ==
    [job_id : {i}, tenant_id : Tenants, priority : {1, 2}, created_at : times]
        \cup {WorkloadJob(0, ta, 1, -1), WorkloadJob(i, Blank, 1, -1)}

ThreeJobs ==
    {<<a, b, c>> : a \in Offers(3, {-2, -1}), b \in Offers(2, {-2, -1}), c \in Offers(1, {-2, -1})}

FourJobs ==
    {<<a, b, c, d>> :
        a \in Offers(4, {-1}), b \in Offers(3, {-1}), c \in Offers(2, {-1}), d \in Offers(1, {-1})}

AllSetups ==
    [workload : {BuildWorkload}, capacity : {3, 6}, weights : {WeightsOf(2, 1), WeightsOf(3, 2)}]
        \cup [workload : ThreeJobs, capacity : {2}, weights : {WeightsOf(1, 1)}]
        \cup [workload : FourJobs, capacity : {3}, weights : {WeightsOf(2, 1)}]
=============================================================================
