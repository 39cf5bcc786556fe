--------------------- MODULE SchedulerComparisonProofs ---------------------
(***************************************************************************)
(* Theorems about SchedulerComparison, for any workload, capacity and      *)
(* weights: what the four runs have in common, and what their policies may *)
(* change.                                                                 *)
(***************************************************************************)
EXTENDS SchedulerComparison, SchedulerPoliciesProofs

(***************************************************************************)
(* Who is accepted.  It depends on the workload and the capacity alone:    *)
(* all jobs are offered before the first is dispatched.                    *)
(***************************************************************************)
Valid(job) == job.job_id # BlankId /\ job.tenant_id \in Tenants
ValidUpTo(s, i) == {k \in 1 .. i : Valid(s.workload[k])}
AcceptedAt(s, i) == {k \in ValidUpTo(s, i) : Cardinality(ValidUpTo(s, k)) <= s.capacity}
Accepted(s, i) == {s.workload[k] : k \in AcceptedAt(s, i)}

(* What every setup provides.                                               *)
LEMMA SetupIs ==
    ASSUME NEW s \in Setups
    PROVE  /\ s.capacity \in Nat \ {0}
           /\ s.weights \in Weights
           /\ s.workload \in Seq(ToSet(s.workload))
           /\ Len(s.workload) \in Nat
           /\ \A job \in ToSet(s.workload) : Comparable(job) /\ job.priority \in Priorities
           /\ \A k \in 1 .. Len(s.workload) : s.workload[k] \in ToSet(s.workload)
           /\ \A i, k \in 1 .. Len(s.workload) :
                 s.workload[i].job_id = s.workload[k].job_id /\ s.workload[i].job_id # BlankId
                     => i = k
  <1>1. /\ s.capacity \in Nat \ {0} /\ s.weights \in Weights
        /\ s.workload \in Seq(ToSet(s.workload))
        /\ \A job \in ToSet(s.workload) : Comparable(job) /\ job.priority \in Priorities
        /\ \A i, k \in 1 .. Len(s.workload) :
              s.workload[i].job_id = s.workload[k].job_id /\ s.workload[i].job_id # BlankId
                  => i = k
    BY ComparisonAssumption DEF Weights, Comparable
  <1>2. Len(s.workload) \in Nat
    BY <1>1
  <1>3. \A k \in 1 .. Len(s.workload) : s.workload[k] \in ToSet(s.workload)
    BY <1>1
  <1>4. QED
    BY <1>1, <1>2, <1>3

(* The tenants are finitely many.                                           *)
LEMMA TenantsFinite == IsFiniteSet(Tenants)
  <1> DEFINE n == Len(TenantOrder)
  <1>1. n \in Nat
    BY TenantFacts
  <1>2. IsFiniteSet(1 .. n)
    BY <1>1, FS_Interval
  <1>3. Tenants = {TenantOrder[i] : i \in 1 .. n}
    <2>1. \A t \in Tenants : t \in {TenantOrder[i] : i \in 1 .. n}
      BY TenantFacts
    <2>2. \A i \in 1 .. n : TenantOrder[i] \in Tenants
      BY TenantFacts
    <2>3. QED
      BY <2>1, <2>2
  <1> HIDE DEF n
  <1>4. IsFiniteSet({TenantOrder[i] : i \in 1 .. n})
    <2> DEFINE f == [i \in 1 .. n |-> TenantOrder[i]]
               T == {TenantOrder[i] : i \in 1 .. n}
    <2>1. f \in [1 .. n -> T]
      OBVIOUS
    <2>2. \A t \in T : \E i \in 1 .. n : f[i] = t
      OBVIOUS
    <2>3. f \in Surjection(1 .. n, T)
      BY <2>1, <2>2 DEF Surjection
    <2>4. QED
      BY <1>2, <2>3, FS_Surjection
  <1>5. QED
    BY <1>3, <1>4

(* Offering one more job: what becomes of it.                               *)
Offering(s, i, job) ==
    LET v == Cardinality(ValidUpTo(s, i))
        w == Cardinality(ValidUpTo(s, i + 1))
    IN  /\ v \in 0 .. i
        /\ w = IF Valid(job) THEN v + 1 ELSE v
        /\ Valid(job) /\ v < s.capacity =>
              /\ Accepted(s, i + 1) = Accepted(s, i) \cup {job}
              /\ job \notin Accepted(s, i)
              /\ \A other \in Accepted(s, i) : other.job_id # job.job_id
        /\ ~(Valid(job) /\ v < s.capacity) => Accepted(s, i + 1) = Accepted(s, i)

(* The first jobs that are valid are accepted, up to the capacity.          *)
LEMMA OfferingIs ==
    ASSUME NEW s \in Setups, NEW i \in 0 .. Len(s.workload) - 1,
           NEW job, job = s.workload[i + 1]
    PROVE  Offering(s, i, job)
  <1> DEFINE V == ValidUpTo(s, i)
             W == ValidUpTo(s, i + 1)
  <1>1. PICK n \in Nat : n = Len(s.workload) /\ i \in 0 .. n - 1
    BY SetupIs
  <1>2. i \in Nat /\ i + 1 \in 1 .. n /\ i + 1 \notin 1 .. i /\ 1 .. i + 1 = (1 .. i) \cup {i + 1}
    BY <1>1
  <1>3. IsFiniteSet(1 .. i) /\ Cardinality(1 .. i) = i
    <2>1. 1 \in Int /\ i \in Int /\ (IF 1 > i THEN 0 ELSE i - 1 + 1) = i
      BY <1>2
    <2>2. IsFiniteSet(1 .. i) /\ Cardinality(1 .. i) = IF 1 > i THEN 0 ELSE i - 1 + 1
      BY <2>1, FS_Interval
    <2>3. QED
      BY <2>1, <2>2
  <1>4. V \subseteq 1 .. i /\ i + 1 \notin V
    BY <1>2 DEF ValidUpTo
  <1>5. IsFiniteSet(V) /\ Cardinality(V) <= i
    BY <1>3, <1>4, FS_Subset
  <1>6. Cardinality(V) \in 0 .. i
    BY <1>2, <1>5, FS_CardinalityType
  <1>7. W = IF Valid(job) THEN V \cup {i + 1} ELSE V
    BY <1>2 DEF ValidUpTo
  <1>8. Cardinality(W) = IF Valid(job) THEN Cardinality(V) + 1 ELSE Cardinality(V)
    BY <1>4, <1>5, <1>7, FS_AddElement
  <1> DEFINE A == AcceptedAt(s, i)
             B == AcceptedAt(s, i + 1)
  <1>9. /\ Valid(job) /\ Cardinality(V) < s.capacity => B = A \cup {i + 1}
        /\ ~(Valid(job) /\ Cardinality(V) < s.capacity) => B = A
    <2>1. s.capacity \in Nat
      BY SetupIs
    <2>2. Valid(job) => (Cardinality(W) <= s.capacity <=> Cardinality(V) < s.capacity)
      BY <1>6, <1>8, <2>1
    <2>3. CASE Valid(job)
      <3>1. W = V \cup {i + 1}
        BY <1>7, <2>3
      <3>2. QED
        BY <1>4, <2>2, <2>3, <3>1 DEF AcceptedAt
    <2>4. CASE ~Valid(job)
      BY <1>7, <2>4 DEF AcceptedAt
    <2>5. QED
      BY <2>3, <2>4
  <1>10. ASSUME Valid(job), NEW other \in Accepted(s, i) PROVE other.job_id # job.job_id
    <2>1. PICK k \in AcceptedAt(s, i) : other = s.workload[k]
      BY DEF Accepted
    <2>2. k \in 1 .. i
      BY DEF AcceptedAt, ValidUpTo
    <2>3. k \in 1 .. Len(s.workload) /\ i + 1 \in 1 .. Len(s.workload) /\ k # i + 1
      BY <1>1, <1>2, <2>2
    <2>4. QED
      BY <1>10, <2>1, <2>3, SetupIs DEF Valid
  <1>11. B = A \cup {i + 1} => Accepted(s, i + 1) = Accepted(s, i) \cup {job}
    BY DEF Accepted
  <1>12. B = A => Accepted(s, i + 1) = Accepted(s, i)
    BY DEF Accepted
  <1> HIDE DEF V, W, A, B
  <1>13. QED
    BY <1>6, <1>8, <1>9, <1>10, <1>11, <1>12 DEF Offering, V, W

(* Nobody is accepted before the first offer; later they are jobs of the    *)
(* workload, valid ones.                                                    *)
LEMMA AcceptedIs ==
    ASSUME NEW s \in Setups
    PROVE  /\ Accepted(s, 0) = {} /\ ValidUpTo(s, 0) = {}
           /\ \A i \in 0 .. Len(s.workload) :
                 /\ IsFiniteSet(Accepted(s, i)) /\ Accepted(s, i) \subseteq ToSet(s.workload)
                 /\ \A job \in Accepted(s, i) : Valid(job)
                 /\ IsFiniteSet(ValidUpTo(s, i)) /\ Cardinality(ValidUpTo(s, i)) \in Nat
  <1>1. Accepted(s, 0) = {} /\ ValidUpTo(s, 0) = {}
    BY DEF Accepted, AcceptedAt, ValidUpTo
  <1>2. ASSUME NEW i \in 0 .. Len(s.workload)
        PROVE  /\ IsFiniteSet(Accepted(s, i)) /\ Accepted(s, i) \subseteq ToSet(s.workload)
               /\ \A job \in Accepted(s, i) : Valid(job)
               /\ IsFiniteSet(ValidUpTo(s, i)) /\ Cardinality(ValidUpTo(s, i)) \in Nat
    <2>1. Len(s.workload) \in Nat /\ i \in Nat /\ 1 .. i \subseteq 1 .. Len(s.workload)
      BY SetupIs
    <2> DEFINE A == AcceptedAt(s, i)
    <2>2. A \subseteq 1 .. i /\ ValidUpTo(s, i) \subseteq 1 .. i
      BY DEF AcceptedAt, ValidUpTo
    <2>3. IsFiniteSet(1 .. i)
      BY <2>1, FS_Interval
    <2>4. IsFiniteSet(A) /\ IsFiniteSet(ValidUpTo(s, i))
      BY <2>2, <2>3, FS_Subset
    <2>5. \A k \in A : s.workload[k] \in ToSet(s.workload) /\ Valid(s.workload[k])
      <3>1. \A k \in A : k \in 1 .. Len(s.workload)
        BY <2>1, <2>2
      <3>2. \A k \in A : Valid(s.workload[k])
        BY DEF AcceptedAt, ValidUpTo
      <3>3. QED
        BY <3>1, <3>2, SetupIs
    <2>6. IsFiniteSet(Accepted(s, i))
      <3> DEFINE f == [k \in A |-> s.workload[k]]
                 T == Accepted(s, i)
      <3>1. T = {s.workload[k] : k \in A}
        BY DEF Accepted
      <3>2. f \in [A -> T] /\ \A t \in T : \E k \in A : f[k] = t
        BY <3>1
      <3>3. f \in Surjection(A, T)
        BY <3>2 DEF Surjection
      <3>4. QED
        BY <2>4, <3>3, FS_Surjection
    <2>7. QED
      BY <2>4, <2>5, <2>6, FS_CardinalityType DEF Accepted
  <1>3. QED
    BY <1>1, <1>2

(***************************************************************************)
(* What SchedulerMetrics holds when the jobs D have been dispatched.       *)
(***************************************************************************)
MetricsType ==
    [accepted : Nat, rejected_full : Nat, rejected_invalid : Nat,
     dispatched : Nat, by_tenant : [Tenants -> Nat], by_priority : [Priorities -> Nat],
     wait : Int, wait_by_tenant : [Tenants -> Int], wait_by_priority : [Priorities -> Int],
     depth_peak : Nat]

OfTenant(D, t) == {job \in D : job.tenant_id = t}
OfPriority(D, p) == {job \in D : job.priority = p}
UrgentJobs(D, p) == {job \in D : job.priority >= p}
UrgentLevels(p) == {x \in Priorities : x >= p}

Created(s) == [job \in ToSet(s.workload) |-> job.created_at]

(* The clock readings of the first n dispatches, added up.                  *)
Ticks(n) == SumOver([k \in Nat |-> k], 0 .. n - 1)

(* The counters of record_enqueue_result after i offers.                    *)
AdmittedAs(s, m, i) ==
    LET v == Cardinality(ValidUpTo(s, i))
    IN  /\ m.accepted = IF v <= s.capacity THEN v ELSE s.capacity
        /\ m.rejected_invalid = i - v
        /\ m.rejected_full = v - m.accepted

CountsJobs(m, D) ==
    /\ m.dispatched = Cardinality(D)
    /\ \A t \in Tenants : m.by_tenant[t] = Cardinality(OfTenant(D, t))
    /\ \A p \in Priorities : m.by_priority[p] = Cardinality(OfPriority(D, p))

SplitsAgree(m) ==
    /\ Total(m.by_tenant) = m.dispatched
    /\ Total(m.by_priority) = m.dispatched
    /\ Total(m.wait_by_tenant) = m.wait
    /\ Total(m.wait_by_priority) = m.wait

(* What is known of the waits: in all, and of the urgent ones.              *)
WaitInAll(s, m, D) == m.wait + SumOver(Created(s), D)
UrgentWait(s, m, D, p) ==
    SumOver(m.wait_by_priority, UrgentLevels(p)) + SumOver(Created(s), UrgentJobs(D, p))

WaitsAddUp(s, m, D) == WaitInAll(s, m, D) = Ticks(Cardinality(D))
UrgentWaitAtLeast(s, m, D) ==
    \A p \in Priorities : UrgentWait(s, m, D, p) >= Ticks(Cardinality(UrgentJobs(D, p)))
UrgentWaitExactly(s, m, D) ==
    \A p \in Priorities : UrgentWait(s, m, D, p) = Ticks(Cardinality(UrgentJobs(D, p)))

(* Total is the sum over the whole domain.                                  *)
LEMMA TotalOver ==
    ASSUME NEW S, NEW f, DOMAIN f = S
    PROVE  Total(f) = SumOver(f, S)
  BY DEF Total, SumOver

(* Each dispatch adds the clock it is made at.                              *)
LEMMA TicksNext ==
    /\ Ticks(0) = 0
    /\ \A n \in Nat : Ticks(n) \in Int /\ Ticks(n + 1) = Ticks(n) + n
  <1> DEFINE id == [k \in Nat |-> k]
  <1>1. 0 .. 0 - 1 = {}
    OBVIOUS
  <1>2. Ticks(0) = 0
    BY <1>1, SumOfNone DEF Ticks
  <1>3. ASSUME NEW n \in Nat PROVE Ticks(n) \in Int /\ Ticks(n + 1) = Ticks(n) + n
    <2> DEFINE S == 0 .. n - 1
    <2>1. IsFiniteSet(S)
      BY FS_Interval
    <2>2. (\A k \in S : k \in Nat) /\ n \notin S /\ 0 .. (n + 1) - 1 = S \cup {n}
      OBVIOUS
    <2>3. \A k \in Nat : id[k] = k /\ id[k] \in Int
      OBVIOUS
    <2>4. (\A k \in S : id[k] \in Int) /\ id[n] \in Int /\ id[n] = n
      BY <2>2, <2>3
    <2> HIDE DEF S, id
    <2>5. SumOver(id, S) \in Int
      BY <2>1, <2>4, SumIs
    <2>6. SumOver(id, S \cup {n}) = SumOver(id, S) + id[n]
      BY <2>1, <2>2, <2>4, SumAdds
    <2>7. Ticks(n) = SumOver(id, S) /\ Ticks(n + 1) = SumOver(id, S \cup {n})
      BY <2>2 DEF Ticks, id, S
    <2>8. QED
      BY <2>4, <2>5, <2>6, <2>7
  <1>4. QED
    BY <1>2, <1>3

(* e is f with one value raised.                                            *)
Raised(f, e, S, x, d) == e[x] = f[x] + d /\ \A y \in S \ {x} : e[y] = f[y]

(* The totals of a counter that is raised in one place.                     *)
LEMMA TotalRaised ==
    ASSUME NEW S, IsFiniteSet(S), NEW f \in [S -> Int], NEW e \in [S -> Int],
           NEW x \in S, NEW d \in Int, Raised(f, e, S, x, d)
    PROVE  Total(f) \in Int /\ Total(e) = Total(f) + d
  <1>1. Total(f) = SumOver(f, S) /\ Total(e) = SumOver(e, S)
    BY TotalOver
  <1>2. SumOver(f, S) \in Int
    BY SumIs
  <1>3. SumOver(e, S) = SumOver(f, S) + d
    BY SumRaised DEF Raised
  <1>4. QED
    BY <1>1, <1>2, <1>3

(* What record_dispatch and observe_queue_depth change.                     *)
Recorded(m, n, job, w) ==
    /\ n \in MetricsType
    /\ n.accepted = m.accepted /\ n.rejected_full = m.rejected_full
    /\ n.rejected_invalid = m.rejected_invalid /\ n.depth_peak = m.depth_peak
    /\ n.dispatched = m.dispatched + 1 /\ n.wait = m.wait + w
    /\ Raised(m.by_tenant, n.by_tenant, Tenants, job.tenant_id, 1)
    /\ Raised(m.by_priority, n.by_priority, Priorities, job.priority, 1)
    /\ Raised(m.wait_by_tenant, n.wait_by_tenant, Tenants, job.tenant_id, w)
    /\ Raised(m.wait_by_priority, n.wait_by_priority, Priorities, job.priority, w)

(* The greater of two numbers.                                              *)
LEMMA MaxOfTwo ==
    ASSUME NEW a \in Nat, NEW b \in Nat
    PROVE  Max({a, b}) = IF a >= b THEN a ELSE b
  <1>1. {a, b} \subseteq 0 .. a + b /\ {a, b} # {} /\ a + b \in Nat
    OBVIOUS
  <1>2. Max({a, b}) \in {a, b} /\ \A m \in {a, b} : Max({a, b}) >= m
    BY <1>1, MaxIs
  <1>3. QED
    BY <1>2

(* One dispatch, counted under its tenant and its priority.                 *)
LEMMA RecordIs ==
    ASSUME NEW m \in MetricsType, NEW job, NEW now \in Nat, NEW depth \in Nat,
           job.tenant_id \in Tenants, job.priority \in Priorities, job.created_at \in Int,
           m.depth_peak >= depth
    PROVE  Recorded(m, ObserveQueueDepth(RecordDispatch(m, job, now), depth),
                    job, now - job.created_at)
  <1> DEFINE w == now - job.created_at
             r == RecordDispatch(m, job, now)
             n == ObserveQueueDepth(r, depth)
             t == job.tenant_id
             p == job.priority
  <1>1. w \in Int
    OBVIOUS
  <1>2. r = [m EXCEPT !.dispatched = m.dispatched + 1,
                      !.by_tenant = [m.by_tenant EXCEPT ![t] = @ + 1],
                      !.by_priority = [m.by_priority EXCEPT ![p] = @ + 1],
                      !.wait = m.wait + w,
                      !.wait_by_tenant = [m.wait_by_tenant EXCEPT ![t] = @ + w],
                      !.wait_by_priority = [m.wait_by_priority EXCEPT ![p] = @ + w]]
    BY DEF RecordDispatch, MetricsType
  <1>3. /\ m.dispatched \in Nat /\ m.wait \in Int /\ m.depth_peak \in Nat
        /\ m.by_tenant \in [Tenants -> Nat] /\ m.by_priority \in [Priorities -> Nat]
        /\ m.wait_by_tenant \in [Tenants -> Int] /\ m.wait_by_priority \in [Priorities -> Int]
    BY DEF MetricsType
  <1> HIDE DEF w, r, t, p
  <1>4. t \in Tenants /\ p \in Priorities
    BY DEF t, p
  <1> DEFINE bt == [m.by_tenant EXCEPT ![t] = @ + 1]
             bp == [m.by_priority EXCEPT ![p] = @ + 1]
             wt == [m.wait_by_tenant EXCEPT ![t] = @ + w]
             wp == [m.wait_by_priority EXCEPT ![p] = @ + w]
  <1>5. bt \in [Tenants -> Nat] /\ Raised(m.by_tenant, bt, Tenants, t, 1)
    BY <1>3, <1>4 DEF Raised
  <1>6. bp \in [Priorities -> Nat] /\ Raised(m.by_priority, bp, Priorities, p, 1)
    BY <1>3, <1>4 DEF Raised
  <1>7. wt \in [Tenants -> Int] /\ Raised(m.wait_by_tenant, wt, Tenants, t, w)
    BY <1>1, <1>3, <1>4 DEF Raised
  <1>8. wp \in [Priorities -> Int] /\ Raised(m.wait_by_priority, wp, Priorities, p, w)
    BY <1>1, <1>3, <1>4 DEF Raised
  <1>9. r = [m EXCEPT !.dispatched = m.dispatched + 1, !.by_tenant = bt,
                      !.by_priority = bp, !.wait = m.wait + w,
                      !.wait_by_tenant = wt, !.wait_by_priority = wp]
    BY <1>2
  <1> HIDE DEF bt, bp, wt, wp
  <1>10. m.dispatched + 1 \in Nat /\ m.wait + w \in Int
    BY <1>1, <1>3
  <1>11. /\ r \in MetricsType
         /\ r.accepted = m.accepted /\ r.rejected_full = m.rejected_full
         /\ r.rejected_invalid = m.rejected_invalid /\ r.depth_peak = m.depth_peak
         /\ r.dispatched = m.dispatched + 1 /\ r.wait = m.wait + w
         /\ r.by_tenant = bt /\ r.by_priority = bp
         /\ r.wait_by_tenant = wt /\ r.wait_by_priority = wp
    BY <1>5, <1>6, <1>7, <1>8, <1>9, <1>10 DEF MetricsType
  <1>12. n = r
    <2>1. Max({r.depth_peak, depth}) = r.depth_peak
      BY <1>3, <1>11, MaxOfTwo
    <2>2. n = [r EXCEPT !.depth_peak = r.depth_peak]
      BY <2>1 DEF ObserveQueueDepth
    <2>3. QED
      BY <1>11, <2>2 DEF MetricsType
  <1> HIDE DEF n
  <1>13. Recorded(m, n, job, w)
    BY <1>5, <1>6, <1>7, <1>8, <1>11, <1>12 DEF Recorded, t, p
  <1>14. QED
    BY <1>13 DEF n, r, w

(* A job of the workload that is dispatched now, after the jobs D.          *)
LeavesAfter(s, D, job) ==
    /\ IsFiniteSet(D) /\ D \subseteq ToSet(s.workload)
    /\ job \in ToSet(s.workload) /\ job \notin D
    /\ job.tenant_id \in Tenants /\ job.priority \in Priorities

(* A part A of the dispatched jobs D becomes B.                             *)
PartGrows(D, A, B, job, of) ==
    /\ IsFiniteSet(A) /\ Cardinality(A) \in Nat /\ job \notin A
    /\ Cardinality(A) <= Cardinality(D) /\ Cardinality(D) \in Nat
    /\ B = IF of THEN A \cup {job} ELSE A
    /\ Cardinality(B) = IF of THEN Cardinality(A) + 1 ELSE Cardinality(A)

(* It grows if the new job is of that part.                                 *)
LEMMA PartNext ==
    ASSUME NEW D, IsFiniteSet(D), NEW job, job \notin D, NEW P,
           NEW A, A = D \cap P, NEW B, B = (D \cup {job}) \cap P
    PROVE  PartGrows(D, A, B, job, job \in P)
  <1>1. A \subseteq D /\ job \notin A
    OBVIOUS
  <1>2. IsFiniteSet(A) /\ Cardinality(A) <= Cardinality(D)
    BY <1>1, FS_Subset
  <1>3. Cardinality(A) \in Nat /\ Cardinality(D) \in Nat
    BY <1>2, FS_CardinalityType
  <1>4. B = IF job \in P THEN A \cup {job} ELSE A
    OBVIOUS
  <1>5. Cardinality(A \cup {job}) = Cardinality(A) + 1
    BY <1>1, <1>2, FS_AddElement
  <1>6. QED
    BY <1>1, <1>2, <1>3, <1>4, <1>5 DEF PartGrows

(* The dispatch counters count the dispatched jobs.                         *)
LEMMA CountsNext ==
    ASSUME NEW s, NEW D, NEW job, LeavesAfter(s, D, job),
           NEW m \in MetricsType, NEW n, NEW w, Recorded(m, n, job, w), CountsJobs(m, D)
    PROVE  CountsJobs(n, D \cup {job})
  <1>1. IsFiniteSet(D) /\ job \notin D /\ job.tenant_id \in Tenants /\ job.priority \in Priorities
    BY DEF LeavesAfter
  <1>2. n.dispatched = Cardinality(D \cup {job})
    <2>1. n.dispatched = m.dispatched + 1 /\ m.dispatched = Cardinality(D)
      BY DEF Recorded, CountsJobs
    <2>2. Cardinality(D \cup {job}) = Cardinality(D) + 1
      BY <1>1, FS_AddElement
    <2>3. QED
      BY <2>1, <2>2
  <1>3. ASSUME NEW t \in Tenants
        PROVE  n.by_tenant[t] = Cardinality(OfTenant(D \cup {job}, t))
    <2> DEFINE P == {j \in D \cup {job} : j.tenant_id = t}
               A == OfTenant(D, t)
               B == OfTenant(D \cup {job}, t)
    <2>1. A = D \cap P /\ B = (D \cup {job}) \cap P /\ (job \in P <=> job.tenant_id = t)
      BY DEF OfTenant
    <2> HIDE DEF P, A, B
    <2>2. PartGrows(D, A, B, job, job \in P)
      BY <1>1, <2>1, PartNext
    <2>3. m.by_tenant[t] = Cardinality(A)
      BY DEF CountsJobs, A
    <2>4. n.by_tenant[t] = IF job.tenant_id = t THEN m.by_tenant[t] + 1 ELSE m.by_tenant[t]
      BY DEF Recorded, Raised
    <2>5. QED
      BY <2>1, <2>2, <2>3, <2>4 DEF B, PartGrows
  <1>4. ASSUME NEW p \in Priorities
        PROVE  n.by_priority[p] = Cardinality(OfPriority(D \cup {job}, p))
    <2> DEFINE P == {j \in D \cup {job} : j.priority = p}
               A == OfPriority(D, p)
               B == OfPriority(D \cup {job}, p)
    <2>1. A = D \cap P /\ B = (D \cup {job}) \cap P /\ (job \in P <=> job.priority = p)
      BY DEF OfPriority
    <2> HIDE DEF P, A, B
    <2>2. PartGrows(D, A, B, job, job \in P)
      BY <1>1, <2>1, PartNext
    <2>3. m.by_priority[p] = Cardinality(A)
      BY DEF CountsJobs, A
    <2>4. n.by_priority[p] = IF job.priority = p THEN m.by_priority[p] + 1 ELSE m.by_priority[p]
      BY DEF Recorded, Raised
    <2>5. QED
      BY <2>1, <2>2, <2>3, <2>4 DEF B, PartGrows
  <1>5. QED
    BY <1>2, <1>3, <1>4 DEF CountsJobs

(* Both views break down the same totals.                                   *)
LEMMA SplitsNext ==
    ASSUME NEW m \in MetricsType, NEW n, NEW job, NEW w \in Int, Recorded(m, n, job, w),
           job.tenant_id \in Tenants, job.priority \in Priorities, SplitsAgree(m)
    PROVE  SplitsAgree(n)
  <1>1. IsFiniteSet(Tenants) /\ IsFiniteSet(Priorities)
    BY TenantsFinite, ComparisonAssumption
  <1>2. /\ m.by_tenant \in [Tenants -> Int] /\ m.by_priority \in [Priorities -> Int]
        /\ m.wait_by_tenant \in [Tenants -> Int] /\ m.wait_by_priority \in [Priorities -> Int]
        /\ m.dispatched \in Int /\ m.wait \in Int
    BY DEF MetricsType
  <1>3. /\ n.by_tenant \in [Tenants -> Int] /\ n.by_priority \in [Priorities -> Int]
        /\ n.wait_by_tenant \in [Tenants -> Int] /\ n.wait_by_priority \in [Priorities -> Int]
    BY DEF MetricsType, Recorded
  <1>4. /\ Raised(m.by_tenant, n.by_tenant, Tenants, job.tenant_id, 1)
        /\ Raised(m.by_priority, n.by_priority, Priorities, job.priority, 1)
        /\ Raised(m.wait_by_tenant, n.wait_by_tenant, Tenants, job.tenant_id, w)
        /\ Raised(m.wait_by_priority, n.wait_by_priority, Priorities, job.priority, w)
        /\ n.dispatched = m.dispatched + 1 /\ n.wait = m.wait + w
    BY DEF Recorded
  <1>5. Total(n.by_tenant) = Total(m.by_tenant) + 1
    BY <1>1, <1>2, <1>3, <1>4, TotalRaised, 1 \in Int
  <1>6. Total(n.by_priority) = Total(m.by_priority) + 1
    BY <1>1, <1>2, <1>3, <1>4, TotalRaised, 1 \in Int
  <1>7. Total(n.wait_by_tenant) = Total(m.wait_by_tenant) + w
    <2>1. PICK f \in [Tenants -> Int] : f = m.wait_by_tenant
      BY <1>2
    <2>2. PICK e \in [Tenants -> Int] : e = n.wait_by_tenant
      BY <1>3
    <2>3. PICK x \in Tenants : x = job.tenant_id
      OBVIOUS
    <2>4. Raised(f, e, Tenants, x, w)
      BY <1>4, <2>1, <2>2, <2>3
    <2>5. Total(e) = Total(f) + w
      BY <1>1, <2>4, TotalRaised
    <2>6. QED
      BY <2>1, <2>2, <2>5
  <1>8. Total(n.wait_by_priority) = Total(m.wait_by_priority) + w
    <2>1. PICK f \in [Priorities -> Int] : f = m.wait_by_priority
      BY <1>2
    <2>2. PICK e \in [Priorities -> Int] : e = n.wait_by_priority
      BY <1>3
    <2>3. PICK x \in Priorities : x = job.priority
      OBVIOUS
    <2>4. Raised(f, e, Priorities, x, w)
      BY <1>4, <2>1, <2>2, <2>3
    <2>5. Total(e) = Total(f) + w
      BY <1>1, <2>4, TotalRaised
    <2>6. QED
      BY <2>1, <2>2, <2>5
  <1>9. QED
    BY <1>4, <1>5, <1>6, <1>7, <1>8 DEF SplitsAgree

(* Sums of creation times grow with the jobs.                               *)
LEMMA CreatedNext ==
    ASSUME NEW s \in Setups, NEW A, IsFiniteSet(A), A \subseteq ToSet(s.workload),
           NEW job \in ToSet(s.workload), job \notin A
    PROVE  /\ SumOver(Created(s), A) \in Int
           /\ job.created_at \in Int
           /\ SumOver(Created(s), A \cup {job}) = SumOver(Created(s), A) + job.created_at
  <1>1. \A j \in ToSet(s.workload) : Created(s)[j] = j.created_at /\ j.created_at \in Int
    BY SetupIs DEF Created, Comparable
  <1>2. (\A j \in A : Created(s)[j] \in Int) /\ Created(s)[job] \in Int
    BY <1>1
  <1>3. SumOver(Created(s), A) \in Int
    BY <1>2, SumIs
  <1>4. SumOver(Created(s), A \cup {job}) = SumOver(Created(s), A) + Created(s)[job]
    BY <1>2, SumAdds
  <1>5. QED
    BY <1>1, <1>3, <1>4

(* All waits together are the clock readings less the creation times.       *)
LEMMA WaitsNext ==
    ASSUME NEW s \in Setups, NEW D, NEW job, LeavesAfter(s, D, job),
           NEW m \in MetricsType, NEW n,
           Recorded(m, n, job, Cardinality(D) - job.created_at), WaitsAddUp(s, m, D)
    PROVE  WaitsAddUp(s, n, D \cup {job})
  <1>1. /\ IsFiniteSet(D) /\ job \notin D /\ D \subseteq ToSet(s.workload)
        /\ job \in ToSet(s.workload)
    BY DEF LeavesAfter
  <1>2. /\ SumOver(Created(s), D) \in Int /\ job.created_at \in Int
        /\ SumOver(Created(s), D \cup {job}) = SumOver(Created(s), D) + job.created_at
    BY <1>1, CreatedNext
  <1>3. Cardinality(D) \in Nat /\ Cardinality(D \cup {job}) = Cardinality(D) + 1
    BY <1>1, FS_AddElement, FS_CardinalityType
  <1>4. m.wait \in Int /\ n.wait = m.wait + (Cardinality(D) - job.created_at)
    BY DEF MetricsType, Recorded
  <1>5. m.wait + SumOver(Created(s), D) = Ticks(Cardinality(D))
    BY DEF WaitsAddUp, WaitInAll
  <1>6. PICK c \in Int : c = SumOver(Created(s), D)
    BY <1>2
  <1>7. PICK d \in Nat : d = Cardinality(D)
    BY <1>3
  <1>8. Ticks(d) \in Int /\ Ticks(d + 1) = Ticks(d) + d
    BY TicksNext
  <1>9. n.wait + (c + job.created_at) = Ticks(d + 1)
    BY <1>2, <1>4, <1>5, <1>6, <1>7, <1>8
  <1>10. QED
    BY <1>2, <1>3, <1>6, <1>7, <1>9 DEF WaitsAddUp, WaitInAll

(* An urgent job adds the clock to what the urgent ones wait, any other     *)
(* adds nothing.                                                            *)
UrgentStep(s, m, n, D, E, job, p) ==
    /\ UrgentWait(s, m, D, p) \in Int
    /\ Cardinality(D) \in Nat /\ Cardinality(UrgentJobs(D, p)) \in 0 .. Cardinality(D)
    /\ job.priority >= p =>
          /\ UrgentWait(s, n, E, p) = UrgentWait(s, m, D, p) + Cardinality(D)
          /\ Cardinality(UrgentJobs(E, p)) = Cardinality(UrgentJobs(D, p)) + 1
    /\ ~(job.priority >= p) =>
          /\ UrgentWait(s, n, E, p) = UrgentWait(s, m, D, p)
          /\ Cardinality(UrgentJobs(E, p)) = Cardinality(UrgentJobs(D, p))

(* A dispatch does that.                                                    *)
LEMMA UrgentNext ==
    ASSUME NEW s \in Setups, NEW D, NEW job, LeavesAfter(s, D, job),
           NEW m \in MetricsType, NEW n,
           Recorded(m, n, job, Cardinality(D) - job.created_at), NEW p \in Priorities
    PROVE  UrgentStep(s, m, n, D, D \cup {job}, job, p)
  <1> DEFINE L == UrgentLevels(p)
             A == UrgentJobs(D, p)
             B == UrgentJobs(D \cup {job}, p)
             P == {j \in D \cup {job} : j.priority >= p}
             f == m.wait_by_priority
             e == n.wait_by_priority
  <1>1. /\ IsFiniteSet(D) /\ job \notin D /\ D \subseteq ToSet(s.workload)
        /\ job \in ToSet(s.workload) /\ job.priority \in Priorities
    BY DEF LeavesAfter
  <1>2. A = D \cap P /\ B = (D \cup {job}) \cap P /\ (job \in P <=> job.priority >= p)
    BY DEF UrgentJobs
  <1>3. L \subseteq Priorities /\ (job.priority \in L <=> job.priority >= p)
    BY <1>1 DEF UrgentLevels
  <1>4. IsFiniteSet(L)
    BY <1>3, ComparisonAssumption, FS_Subset
  <1>5. f \in [Priorities -> Int] /\ e \in [Priorities -> Int]
    BY DEF MetricsType, Recorded
  <1>6. Raised(f, e, Priorities, job.priority, Cardinality(D) - job.created_at)
    BY DEF Recorded
  <1> HIDE DEF L, A, B, P, f, e
  <1>7. /\ IsFiniteSet(A) /\ Cardinality(A) \in Nat /\ job \notin A
        /\ Cardinality(A) <= Cardinality(D) /\ Cardinality(D) \in Nat
        /\ B = IF job \in P THEN A \cup {job} ELSE A
        /\ Cardinality(B) = IF job \in P THEN Cardinality(A) + 1 ELSE Cardinality(A)
    <2>1. PartGrows(D, A, B, job, job \in P)
      BY <1>1, <1>2, PartNext
    <2>2. QED
      BY <2>1 DEF PartGrows
  <1>8. A \subseteq ToSet(s.workload)
    BY <1>1, <1>2
  <1>9. /\ SumOver(Created(s), A) \in Int /\ job.created_at \in Int
        /\ SumOver(Created(s), A \cup {job}) = SumOver(Created(s), A) + job.created_at
    BY <1>1, <1>7, <1>8, CreatedNext
  <1>10. \A x \in L : f[x] \in Int
    BY <1>3, <1>5
  <1>11. SumOver(f, L) \in Int
    BY <1>4, <1>10, SumIs
  <1>12. PICK d \in Nat : d = Cardinality(D)
    BY <1>7
  <1>13. CASE job.priority >= p
    <2>1. job.priority \in L /\ d - job.created_at \in Int
      BY <1>3, <1>9, <1>13
    <2>2. e[job.priority] = f[job.priority] + (d - job.created_at)
          /\ \A y \in L \ {job.priority} : e[y] = f[y]
      BY <1>3, <1>6, <1>12 DEF Raised
    <2>3. SumOver(e, L) = SumOver(f, L) + (d - job.created_at)
      BY <1>4, <1>10, <2>1, <2>2, SumRaised
    <2>4. B = A \cup {job} /\ Cardinality(B) = Cardinality(A) + 1
      BY <1>2, <1>7, <1>13
    <2>5. PICK c \in Int : c = SumOver(Created(s), A)
      BY <1>9
    <2>6. PICK b \in Int : b = SumOver(f, L)
      BY <1>11
    <2>7. SumOver(e, L) + SumOver(Created(s), B) = (b + c) + d
      BY <1>9, <2>3, <2>4, <2>5, <2>6
    <2>8. UrgentWait(s, n, D \cup {job}, p) = (b + c) + d
      BY <2>7 DEF UrgentWait, e, L, B
    <2>9. UrgentWait(s, m, D, p) = b + c
      BY <2>5, <2>6 DEF UrgentWait, f, L, A
    <2>10. QED
      BY <1>7, <1>12, <1>13, <2>4, <2>8, <2>9 DEF UrgentStep, A, B
  <1>14. CASE ~(job.priority >= p)
    <2>1. \A y \in L : e[y] = f[y]
      BY <1>3, <1>6, <1>14 DEF Raised
    <2>2. SumOver(e, L) = SumOver(f, L)
      BY <1>4, <1>10, <2>1, SumIs
    <2>3. B = A /\ Cardinality(B) = Cardinality(A)
      BY <1>2, <1>7, <1>14
    <2>4. UrgentWait(s, m, D, p) = SumOver(f, L) + SumOver(Created(s), A)
      BY DEF UrgentWait, f, L, A
    <2>5. UrgentWait(s, n, D \cup {job}, p) = SumOver(e, L) + SumOver(Created(s), B)
      BY DEF UrgentWait, e, L, B
    <2>6. UrgentWait(s, m, D, p) \in Int
      BY <1>9, <1>11, <2>4
    <2>7. QED
      BY <1>7, <1>14, <2>2, <2>3, <2>4, <2>5, <2>6 DEF UrgentStep, A, B
  <1>15. QED
    BY <1>13, <1>14

(***************************************************************************)
(* Whose turn it is.  The lap looks at which lanes are empty and at        *)
(* nothing else, so the turns of a per-tenant run depend on the weights    *)
(* and on how many jobs of each tenant were accepted.                      *)
(***************************************************************************)
JobsOf(s, t) == Cardinality(OfTenant(Accepted(s, Len(s.workload)), t))

(* Lanes that are empty where all jobs of the tenant are served.            *)
LanesAfter(s, served) == [t \in Tenants |-> IF served[t] = JobsOf(s, t) THEN <<>> ELSE <<t>>]

FirstTurn == [pos |-> 0, served |-> Count(Tenants), ticks |-> Count(Tenants)]

(* The dispatch at clock n: the pointer, how often each tenant has been     *)
(* served and the clock readings of its dispatches, added up.               *)
TurnAfter(s, x, n) ==
    LET c == BuildWeightCycle(s.weights)
        q == LanesAfter(s, x.served)
        t == NextTenant(c, x.pos, q)
    IN  [pos    |-> Advance(c, x.pos, q),
         served |-> [x.served EXCEPT ![t] = @ + 1],
         ticks  |-> [x.ticks EXCEPT ![t] = @ + n]]

TurnsUpTo(s, f, n) ==
    f = [k \in 0 .. n |-> IF k = 0 THEN FirstTurn ELSE TurnAfter(s, f[k - 1], k - 1)]

Turns(s) == CHOOSE f : TurnsUpTo(s, f, Len(s.workload))

TenantWait(s, m, D, t) == m.wait_by_tenant[t] + SumOver(Created(s), OfTenant(D, t))

InTurn(s, m, D) ==
    /\ m.by_tenant = Turns(s)[Cardinality(D)].served
    /\ [t \in Tenants |-> TenantWait(s, m, D, t)] = Turns(s)[Cardinality(D)].ticks

(* The turns are determined, one after the other.                           *)
LEMMA TurnsExist ==
    ASSUME NEW s, NEW n \in Nat
    PROVE  \E f : TurnsUpTo(s, f, n)
  <1> DEFINE Bad == {k \in Nat : ~ \E f : TurnsUpTo(s, f, k)}
  <1> SUFFICES ASSUME Bad # {} PROVE FALSE
    OBVIOUS
  <1>1. PICK k \in Bad : \A m \in Bad : k <= m
    BY LeastNat
  <1>2. CASE k = 0
    <2> DEFINE f == [i \in 0 .. 0 |-> FirstTurn]
    <2>1. TurnsUpTo(s, f, 0)
      <3>1. f = [i \in 0 .. 0 |-> IF i = 0 THEN FirstTurn ELSE TurnAfter(s, f[i - 1], i - 1)]
        OBVIOUS
      <3>2. QED
        BY <3>1 DEF TurnsUpTo
    <2>2. QED
      BY <1>2, <2>1
  <1>3. CASE k # 0
    <2>1. k - 1 \in Nat /\ k - 1 < k
      BY <1>3
    <2>2. PICK g : TurnsUpTo(s, g, k - 1)
      BY <1>1, <2>1
    <2> DEFINE last == TurnAfter(s, g[k - 1], k - 1)
               h == [i \in 0 .. k |-> IF i < k THEN g[i] ELSE last]
    <2>3. \A i \in 0 .. k : h[i] = IF i = 0 THEN FirstTurn ELSE TurnAfter(s, h[i - 1], i - 1)
      <3> TAKE i \in 0 .. k
      <3>1. i # 0 => h[i - 1] = g[i - 1]
        OBVIOUS
      <3>2. CASE i < k
        <4>1. i \in 0 .. k - 1 /\ h[i] = g[i]
          BY <3>2
        <4>2. g[i] = IF i = 0 THEN FirstTurn ELSE TurnAfter(s, g[i - 1], i - 1)
          BY <2>2, <4>1, Zenon DEF TurnsUpTo
        <4> HIDE DEF h
        <4>3. QED
          BY <3>1, <4>1, <4>2
      <3>3. CASE i = k
        <4>1. h[i] = last
          BY <3>3
        <4> HIDE DEF h
        <4>2. QED
          BY <1>3, <3>1, <3>3, <4>1
      <3>4. QED
        BY <3>2, <3>3
    <2>4. TurnsUpTo(s, h, k)
      <3> HIDE DEF last
      <3>1. h = [i \in 0 .. k |-> h[i]]
        OBVIOUS
      <3> HIDE DEF h
      <3>2. QED
        BY <2>3, <3>1 DEF TurnsUpTo
    <2>5. QED
      BY <2>4
  <1>4. QED
    BY <1>2, <1>3

(* The first turn, and the one after n dispatches.                          *)
LEMMA TurnsAre ==
    ASSUME NEW s \in Setups
    PROVE  /\ Turns(s)[0] = FirstTurn
           /\ \A n \in 0 .. Len(s.workload) - 1 :
                 Turns(s)[n + 1] = TurnAfter(s, Turns(s)[n], n)
  <1>1. PICK N \in Nat : N = Len(s.workload)
    BY SetupIs
  <1>2. TurnsUpTo(s, Turns(s), N)
    BY <1>1, TurnsExist, Zenon DEF Turns
  <1>3. PICK f : f = Turns(s)
    OBVIOUS
  <1>4. \A k \in 0 .. N : f[k] = IF k = 0 THEN FirstTurn ELSE TurnAfter(s, f[k - 1], k - 1)
    BY <1>2, <1>3, Zenon DEF TurnsUpTo
  <1>5. f[0] = FirstTurn
    BY <1>4
  <1>6. ASSUME NEW n \in 0 .. N - 1 PROVE f[n + 1] = TurnAfter(s, f[n], n)
    <2>1. n + 1 \in 0 .. N /\ n + 1 # 0 /\ (n + 1) - 1 = n
      OBVIOUS
    <2>2. QED
      BY <1>4, <2>1
  <1>7. QED
    BY <1>1, <1>3, <1>5, <1>6

(* The walk depends on which lanes are empty alone.                         *)
LEMMA SameWalk ==
    ASSUME NEW c, c \in Seq(Tenants), Len(c) \in Nat \ {0}, NEW at \in 0 .. Len(c) - 1,
           NEW q, NEW r, \A t \in Tenants : q[t] = <<>> <=> r[t] = <<>>
    PROVE  /\ NextTenant(c, at, q) = NextTenant(c, at, r)
           /\ Advance(c, at, q) = Advance(c, at, r)
  <1>1. PICK L \in Nat \ {0} : L = Len(c)
    OBVIOUS
  <1>2. \A k \in 0 .. L - 1 : SlotAt(c, at + k) \in Tenants
    <2> TAKE k \in 0 .. L - 1
    <2>1. at + k \in Nat
      BY <1>1
    <2>2. QED
      BY <1>1, <2>1, SlotIs
  <1>3. {k \in 0 .. L - 1 : q[SlotAt(c, at + k)] # <<>>}
          = {k \in 0 .. L - 1 : r[SlotAt(c, at + k)] # <<>>}
    BY <1>2
  <1>4. Skipped(c, at, q) = Skipped(c, at, r)
    BY <1>1, <1>3 DEF Skipped
  <1>5. QED
    BY <1>4 DEF NextTenant, Advance

(* The lanes that are empty are those of tenants with no jobs left.         *)
ServedOut(s, q, m) == \A t \in Tenants : q[t] = <<>> <=> m.by_tenant[t] = JobsOf(s, t)

(* The job is of the tenant whose turn it is.                               *)
TurnDue(s, m, n, D, job, c, at, q) ==
    /\ LeavesAfter(s, D, job) /\ Cardinality(D) \in 0 .. Len(s.workload) - 1
    /\ m \in MetricsType /\ Recorded(m, n, job, Cardinality(D) - job.created_at)
    /\ InTurn(s, m, D)
    /\ c = BuildWeightCycle(s.weights) /\ at \in 0 .. Len(c) - 1
    /\ at = Turns(s)[Cardinality(D)].pos
    /\ ServedOut(s, q, m)
    /\ job.tenant_id = NextTenant(c, at, q)

(* A dispatch in turn: t is served next, by the lap and by the reference.   *)
LEMMA TurnNext ==
    ASSUME NEW s \in Setups, NEW m, NEW n, NEW D, NEW job, NEW c, NEW at, NEW q,
           TurnDue(s, m, n, D, job, c, at, q)
    PROVE  /\ InTurn(s, n, D \cup {job})
           /\ Advance(c, at, q) = Turns(s)[Cardinality(D \cup {job})].pos
  <1>0. /\ LeavesAfter(s, D, job) /\ Cardinality(D) \in 0 .. Len(s.workload) - 1
        /\ m \in MetricsType /\ Recorded(m, n, job, Cardinality(D) - job.created_at)
        /\ InTurn(s, m, D) /\ c = BuildWeightCycle(s.weights) /\ at \in 0 .. Len(c) - 1
        /\ at = Turns(s)[Cardinality(D)].pos
        /\ ServedOut(s, q, m) /\ job.tenant_id = NextTenant(c, at, q)
    BY DEF TurnDue
  <1>1. /\ IsFiniteSet(D) /\ job \notin D /\ D \subseteq ToSet(s.workload)
        /\ job \in ToSet(s.workload) /\ job.tenant_id \in Tenants
    BY <1>0 DEF LeavesAfter
  <1>2. PICK d \in Nat : d = Cardinality(D) /\ Cardinality(D \cup {job}) = d + 1
    BY <1>1, FS_AddElement, FS_CardinalityType
  <1> DEFINE x == Turns(s)[d]
             y == Turns(s)[d + 1]
             r == LanesAfter(s, x.served)
             u == job.tenant_id
  <1>3. y = TurnAfter(s, x, d)
    BY <1>0, <1>2, TurnsAre
  <1> HIDE DEF x, y
  <1>4. m.by_tenant = x.served /\ [t \in Tenants |-> TenantWait(s, m, D, t)] = x.ticks
    BY <1>0, <1>2 DEF InTurn, x
  <1>5. \A t \in Tenants : q[t] = <<>> <=> r[t] = <<>>
    BY <1>0, <1>4 DEF LanesAfter, ServedOut
  <1>6. c \in Seq(Tenants) /\ Len(c) \in Nat \ {0}
    BY <1>0, SetupIs, CycleFacts
  <1> HIDE DEF r
  <1>7. NextTenant(c, at, q) = NextTenant(c, at, r) /\ Advance(c, at, q) = Advance(c, at, r)
    BY <1>0, <1>5, <1>6, SameWalk
  <1>8. at = x.pos
    BY <1>0, <1>2 DEF x
  <1>9. /\ y.pos = Advance(c, at, q)
        /\ y.served = [x.served EXCEPT ![u] = @ + 1]
        /\ y.ticks = [x.ticks EXCEPT ![u] = @ + d]
    BY <1>0, <1>3, <1>7, <1>8 DEF TurnAfter, r
  <1>10. /\ m.by_tenant \in [Tenants -> Nat] /\ n.by_tenant \in [Tenants -> Nat]
         /\ m.wait_by_tenant \in [Tenants -> Int] /\ n.wait_by_tenant \in [Tenants -> Int]
    BY <1>0 DEF Recorded, MetricsType
  <1>11. /\ Raised(m.by_tenant, n.by_tenant, Tenants, u, 1)
         /\ Raised(m.wait_by_tenant, n.wait_by_tenant, Tenants, u, d - job.created_at)
    BY <1>0, <1>2 DEF Recorded
  <1>12. n.by_tenant = y.served
    <2>1. PICK f \in [Tenants -> Nat] : f = m.by_tenant
      BY <1>10
    <2>2. PICK e \in [Tenants -> Nat] : e = n.by_tenant
      BY <1>10
    <2>3. e[u] = f[u] + 1 /\ \A t \in Tenants \ {u} : e[t] = f[t]
      BY <1>11, <2>1, <2>2 DEF Raised
    <2>4. y.served = [f EXCEPT ![u] = @ + 1]
      BY <1>4, <1>9, <2>1
    <2>5. e = [f EXCEPT ![u] = @ + 1]
      BY <1>1, <2>3
    <2>6. QED
      BY <2>2, <2>4, <2>5
  <1>13. ASSUME NEW t \in Tenants
         PROVE  TenantWait(s, n, D \cup {job}, t) = y.ticks[t]
    <2> DEFINE P == {j \in D \cup {job} : j.tenant_id = t}
               A == OfTenant(D, t)
               B == OfTenant(D \cup {job}, t)
    <2>1. A = D \cap P /\ B = (D \cup {job}) \cap P /\ (job \in P <=> u = t)
      BY DEF OfTenant
    <2> HIDE DEF P, A, B
    <2>2. PartGrows(D, A, B, job, job \in P)
      BY <1>1, <2>1, PartNext
    <2>3. IsFiniteSet(A) /\ job \notin A /\ B = IF job \in P THEN A \cup {job} ELSE A
      BY <2>2 DEF PartGrows
    <2>4. A \subseteq ToSet(s.workload)
      BY <1>1, <2>1
    <2>5. /\ SumOver(Created(s), A) \in Int /\ job.created_at \in Int
          /\ SumOver(Created(s), A \cup {job}) = SumOver(Created(s), A) + job.created_at
      BY <1>1, <2>3, <2>4, CreatedNext
    <2>6. PICK a \in Int : a = SumOver(Created(s), A)
      BY <2>5
    <2>7. PICK b \in Int : b = m.wait_by_tenant[t]
      BY <1>10
    <2>8. x.ticks[t] = b + a
      <3>1. TenantWait(s, m, D, t) = b + a
        BY <2>6, <2>7 DEF TenantWait, A
      <3>2. QED
        BY <1>4, <3>1
    <2>9. TenantWait(s, n, D \cup {job}, t) = n.wait_by_tenant[t] + SumOver(Created(s), B)
      BY DEF TenantWait, B
    <2>10. CASE u = t
      <3>1. n.wait_by_tenant[t] = b + (d - job.created_at)
        BY <1>11, <2>7, <2>10 DEF Raised
      <3>2. SumOver(Created(s), B) = a + job.created_at
        BY <2>1, <2>3, <2>5, <2>6, <2>10
      <3>3. y.ticks[t] = (b + a) + d
        BY <1>1, <1>4, <1>9, <2>8, <2>10
      <3>4. QED
        BY <2>5, <2>9, <3>1, <3>2, <3>3
    <2>11. CASE u # t
      <3>1. n.wait_by_tenant[t] = b
        BY <1>11, <2>7, <2>11 DEF Raised
      <3>2. SumOver(Created(s), B) = a
        BY <2>1, <2>3, <2>6, <2>11
      <3>3. y.ticks[t] = b + a
        BY <1>4, <1>9, <2>8, <2>11
      <3>4. QED
        BY <2>9, <3>1, <3>2, <3>3
    <2>12. QED
      BY <2>10, <2>11
  <1>14. [t \in Tenants |-> TenantWait(s, n, D \cup {job}, t)] = y.ticks
    <2>1. y.ticks = [t \in Tenants |-> y.ticks[t]]
      <3>1. DOMAIN x.ticks = Tenants
        BY <1>4
      <3>2. QED
        BY <1>9, <3>1
    <2>2. QED
      BY <1>13, <2>1
  <1>15. QED
    BY <1>2, <1>9, <1>12, <1>14 DEF InTurn, y

(***************************************************************************)
(* The tally of a run of this policy: i jobs offered, the jobs D           *)
(* dispatched.                                                             *)
(***************************************************************************)
Tallied(s, policy, m, i, D) ==
    /\ m \in MetricsType
    /\ AdmittedAs(s, m, i)
    /\ CountsJobs(m, D)
    /\ SplitsAgree(m)
    /\ WaitsAddUp(s, m, D)
    /\ UrgentWaitAtLeast(s, m, D)
    /\ policy = "priority" => UrgentWaitExactly(s, m, D)
    /\ policy \in PerTenant => InTurn(s, m, D)

(* A run starts with empty metrics.                                         *)
LEMMA FirstTally ==
    ASSUME NEW s \in Setups, NEW policy
    PROVE  Tallied(s, policy, NoMetrics, 0, {})
  <1> DEFINE m == NoMetrics
  <1>1. IsFiniteSet(Tenants) /\ IsFiniteSet(Priorities)
    BY TenantsFinite, ComparisonAssumption
  <1>2. /\ m.accepted = 0 /\ m.rejected_full = 0 /\ m.rejected_invalid = 0
        /\ m.dispatched = 0 /\ m.wait = 0 /\ m.depth_peak = 0
        /\ m.by_tenant = Count(Tenants) /\ m.wait_by_tenant = Count(Tenants)
        /\ m.by_priority = Count(Priorities) /\ m.wait_by_priority = Count(Priorities)
    BY DEF NoMetrics
  <1>3. m \in MetricsType
    BY DEF NoMetrics, MetricsType, Count
  <1> HIDE DEF m
  <1>4. Cardinality({}) = 0
    BY FS_EmptySet
  <1>5. AdmittedAs(s, m, 0)
    <2>1. ValidUpTo(s, 0) = {} /\ s.capacity \in Nat
      BY AcceptedIs, SetupIs
    <2>2. QED
      BY <1>2, <1>4, <2>1 DEF AdmittedAs
  <1>6. /\ \A t : OfTenant({}, t) = {} /\ OfPriority({}, t) = {} /\ UrgentJobs({}, t) = {}
    BY DEF OfTenant, OfPriority, UrgentJobs
  <1>7. CountsJobs(m, {})
    BY <1>2, <1>4, <1>6 DEF CountsJobs, Count
  <1>8. ASSUME NEW S, IsFiniteSet(S) PROVE SumOver(Count(S), S) = 0 /\ Total(Count(S)) = 0
    <2>1. DOMAIN Count(S) = S /\ \A x \in S : Count(S)[x] = 0
      BY DEF Count
    <2>2. SumOver(Count(S), S) = 0
      BY <1>8, <2>1, SumOfZeros
    <2>3. QED
      BY <2>1, <2>2, TotalOver
  <1>9. SplitsAgree(m)
    BY <1>1, <1>2, <1>8 DEF SplitsAgree
  <1>10. SumOver(Created(s), {}) = 0
    BY SumOfNone
  <1>11. WaitsAddUp(s, m, {})
    BY <1>2, <1>4, <1>10, TicksNext DEF WaitsAddUp, WaitInAll
  <1>12. ASSUME NEW p \in Priorities
         PROVE  UrgentWait(s, m, {}, p) = Ticks(Cardinality(UrgentJobs({}, p)))
    <2>1. UrgentLevels(p) \subseteq Priorities
      BY DEF UrgentLevels
    <2>2. IsFiniteSet(UrgentLevels(p)) /\ \A x \in UrgentLevels(p) : Count(Priorities)[x] = 0
      BY <1>1, <2>1, FS_Subset DEF Count
    <2>3. SumOver(m.wait_by_priority, UrgentLevels(p)) = 0
      BY <1>2, <2>2, SumOfZeros
    <2>4. UrgentWait(s, m, {}, p) = 0 + 0
      BY <1>6, <1>10, <2>3 DEF UrgentWait
    <2>5. UrgentJobs({}, p) = {}
      BY <1>6
    <2>6. Ticks(Cardinality(UrgentJobs({}, p))) = 0
      BY <1>4, <2>5, TicksNext
    <2>7. QED
      BY <2>4, <2>6
  <1>13. UrgentWaitAtLeast(s, m, {}) /\ UrgentWaitExactly(s, m, {})
    <2>1. Ticks(0) = 0
      BY TicksNext
    <2>2. \A p \in Priorities :
              UrgentWait(s, m, {}, p) = 0 /\ Ticks(Cardinality(UrgentJobs({}, p))) = 0
      BY <1>4, <1>6, <1>12, <2>1
    <2>3. QED
      BY <2>2 DEF UrgentWaitAtLeast, UrgentWaitExactly
  <1>14. InTurn(s, m, {})
    <2>1. Turns(s)[Cardinality({})] = FirstTurn
      BY <1>4, TurnsAre
    <2>2. ASSUME NEW t \in Tenants PROVE TenantWait(s, m, {}, t) = 0
      BY <1>2, <1>6, <1>10 DEF TenantWait, Count
    <2>3. QED
      BY <1>2, <2>1, <2>2 DEF InTurn, FirstTurn, Count
  <1>15. QED
    BY <1>3, <1>5, <1>7, <1>9, <1>11, <1>13, <1>14 DEF Tallied, m

(* What record_enqueue_result leaves alone.                                 *)
SameDispatches(m, n) ==
    /\ n.dispatched = m.dispatched /\ n.wait = m.wait
    /\ n.by_tenant = m.by_tenant /\ n.by_priority = m.by_priority
    /\ n.wait_by_tenant = m.wait_by_tenant /\ n.wait_by_priority = m.wait_by_priority

(* An offer to a run that has dispatched nothing yet: m becomes n.          *)
OfferTallied(s, m, n, i, job, accepted) ==
    /\ n \in MetricsType
    /\ SameDispatches(m, n)
    /\ AdmittedAs(s, n, i + 1)
    /\ n.accepted = m.accepted + (IF accepted THEN 1 ELSE 0)
    /\ n.depth_peak = n.accepted
    /\ accepted <=> Valid(job) /\ Cardinality(ValidUpTo(s, i)) < s.capacity

(* The answers of an offer and their counters.                              *)
LEMMA OfferCounts ==
    ASSUME NEW s \in Setups, NEW i \in 0 .. Len(s.workload) - 1,
           NEW job, job = s.workload[i + 1],
           NEW m \in MetricsType, AdmittedAs(s, m, i), m.depth_peak = m.accepted,
           NEW status, status = IF ~Valid(job) THEN "rejected_invalid"
                                ELSE IF m.accepted >= s.capacity THEN "rejected_full"
                                ELSE "accepted",
           NEW depth, depth = m.accepted + (IF status = "accepted" THEN 1 ELSE 0)
    PROVE  OfferTallied(s, m, ObserveQueueDepth(RecordEnqueueResult(m, status), depth),
                        i, job, status = "accepted")
  <1> DEFINE r == RecordEnqueueResult(m, status)
             n == ObserveQueueDepth(r, depth)
  <1>1. Offering(s, i, job)
    BY OfferingIs
  <1>2. PICK v \in Nat : v = Cardinality(ValidUpTo(s, i)) /\ v <= i
    BY <1>1, SetupIs DEF Offering
  <1>3. PICK z \in Nat : z = Cardinality(ValidUpTo(s, i + 1)) /\ z = IF Valid(job) THEN v + 1 ELSE v
    BY <1>1, <1>2 DEF Offering
  <1>4. i \in Nat /\ s.capacity \in Nat
    BY SetupIs
  <1>5. /\ m.accepted \in Nat /\ m.rejected_full \in Nat /\ m.rejected_invalid \in Nat
        /\ m.depth_peak \in Nat
    BY DEF MetricsType
  <1>6. /\ m.accepted = IF v <= s.capacity THEN v ELSE s.capacity
        /\ m.rejected_invalid = i - v /\ m.rejected_full = v - m.accepted
    BY <1>2 DEF AdmittedAs
  <1>7. /\ r \in MetricsType /\ SameDispatches(m, r) /\ r.depth_peak = m.accepted
        /\ r.accepted = m.accepted + (IF status = "accepted" THEN 1 ELSE 0)
        /\ r.rejected_full = m.rejected_full + (IF status = "rejected_full" THEN 1 ELSE 0)
        /\ r.rejected_invalid = m.rejected_invalid + (IF status = "rejected_invalid" THEN 1 ELSE 0)
    <2>1. CASE status = "accepted"
      <3>0. PICK a \in Nat : a = m.accepted + 1
        BY <1>5
      <3>1. r = [m EXCEPT !.accepted = a]
        BY <3>0, <2>1 DEF RecordEnqueueResult
      <3> HIDE DEF r
      <3>2. /\ r \in MetricsType /\ SameDispatches(m, r) /\ r.depth_peak = m.depth_peak
            /\ r.accepted = a
            /\ r.rejected_full = m.rejected_full /\ r.rejected_invalid = m.rejected_invalid
        BY <3>1 DEF MetricsType, SameDispatches
      <3>3. QED
        BY <1>5, <2>1, <3>0, <3>2
    <2>2. CASE status = "rejected_full"
      <3>0. PICK a \in Nat : a = m.rejected_full + 1
        BY <1>5
      <3>1. r = [m EXCEPT !.rejected_full = a]
        BY <3>0, <2>2 DEF RecordEnqueueResult
      <3> HIDE DEF r
      <3>2. /\ r \in MetricsType /\ SameDispatches(m, r) /\ r.depth_peak = m.depth_peak
            /\ r.rejected_full = a
            /\ r.accepted = m.accepted /\ r.rejected_invalid = m.rejected_invalid
        BY <3>1 DEF MetricsType, SameDispatches
      <3>3. QED
        BY <1>5, <2>2, <3>0, <3>2
    <2>3. CASE status = "rejected_invalid"
      <3>0. PICK a \in Nat : a = m.rejected_invalid + 1
        BY <1>5
      <3>1. r = [m EXCEPT !.rejected_invalid = a]
        BY <3>0, <2>3 DEF RecordEnqueueResult
      <3> HIDE DEF r
      <3>2. /\ r \in MetricsType /\ SameDispatches(m, r) /\ r.depth_peak = m.depth_peak
            /\ r.rejected_invalid = a
            /\ r.accepted = m.accepted /\ r.rejected_full = m.rejected_full
        BY <3>1 DEF MetricsType, SameDispatches
      <3>3. QED
        BY <1>5, <2>3, <3>0, <3>2
    <2>4. QED
      BY <2>1, <2>2, <2>3
  <1> HIDE DEF r
  <1>8. depth \in Nat /\ depth = r.accepted /\ r.depth_peak <= depth
    BY <1>5, <1>7
  <1>9. Max({r.depth_peak, depth}) = depth
    BY <1>5, <1>7, <1>8, MaxOfTwo
  <1>10. n = [r EXCEPT !.depth_peak = depth]
    BY <1>9 DEF ObserveQueueDepth
  <1> HIDE DEF n
  <1>11. /\ n \in MetricsType /\ SameDispatches(m, n) /\ n.depth_peak = depth
         /\ n.accepted = r.accepted /\ n.rejected_full = r.rejected_full
         /\ n.rejected_invalid = r.rejected_invalid
    BY <1>7, <1>8, <1>10 DEF MetricsType, SameDispatches
  <1>12. status = "accepted" <=> Valid(job) /\ v < s.capacity
    BY <1>4, <1>6
  <1>13. /\ n.accepted = IF z <= s.capacity THEN z ELSE s.capacity
         /\ n.rejected_invalid = (i + 1) - z /\ n.rejected_full = z - n.accepted
    <2>1. CASE ~Valid(job)
      BY <1>3, <1>4, <1>6, <1>7, <1>11, <2>1
    <2>2. CASE Valid(job) /\ v < s.capacity
      BY <1>3, <1>4, <1>6, <1>7, <1>11, <1>12, <2>2
    <2>3. CASE Valid(job) /\ ~(v < s.capacity)
      BY <1>3, <1>4, <1>6, <1>7, <1>11, <1>12, <2>3
    <2>4. QED
      BY <2>1, <2>2, <2>3
  <1>14. AdmittedAs(s, n, i + 1)
    BY <1>3, <1>13 DEF AdmittedAs
  <1>15. OfferTallied(s, m, n, i, job, status = "accepted")
    BY <1>2, <1>7, <1>8, <1>11, <1>12, <1>14 DEF OfferTallied
  <1>16. QED
    BY <1>15 DEF n, r

(* An offer leaves what the tally says of the dispatched jobs.              *)
LEMMA OfferKeepsTally ==
    ASSUME NEW s, NEW policy, NEW m, NEW i, NEW D, Tallied(s, policy, m, i, D),
           NEW n \in MetricsType, NEW k, AdmittedAs(s, n, k), SameDispatches(m, n)
    PROVE  Tallied(s, policy, n, k, D)
  <1>1. CountsJobs(n, D)
    BY DEF Tallied, CountsJobs, SameDispatches
  <1>2. SplitsAgree(n)
    BY DEF Tallied, SplitsAgree, SameDispatches
  <1>3. WaitsAddUp(s, n, D)
    BY DEF Tallied, WaitsAddUp, WaitInAll, SameDispatches
  <1>4. \A p : UrgentWait(s, n, D, p) = UrgentWait(s, m, D, p)
    BY DEF UrgentWait, SameDispatches
  <1>5. UrgentWaitAtLeast(s, n, D) /\ (policy = "priority" => UrgentWaitExactly(s, n, D))
    BY <1>4 DEF Tallied, UrgentWaitAtLeast, UrgentWaitExactly
  <1>6. \A t : TenantWait(s, n, D, t) = TenantWait(s, m, D, t)
    BY DEF TenantWait, SameDispatches
  <1>7. policy \in PerTenant => InTurn(s, n, D)
    BY <1>6 DEF Tallied, InTurn, SameDispatches
  <1>8. QED
    BY <1>1, <1>2, <1>3, <1>5, <1>7 DEF Tallied

(* A dispatch keeps the tally: an urgent job adds the clock, which is at    *)
(* least the number of urgent jobs before it, and equal to it if no other   *)
(* job went first.                                                          *)
LEMMA DispatchKeepsTally ==
    ASSUME NEW s \in Setups, NEW policy, NEW m, NEW i, NEW D, Tallied(s, policy, m, i, D),
           NEW job, LeavesAfter(s, D, job), NEW n,
           Recorded(m, n, job, Cardinality(D) - job.created_at),
           policy = "priority" => \A other \in D : other.priority >= job.priority,
           policy \in PerTenant => InTurn(s, n, D \cup {job})
    PROVE  Tallied(s, policy, n, i, D \cup {job})
  <1> DEFINE E == D \cup {job}
  <1>1. m \in MetricsType /\ n \in MetricsType
    BY DEF Tallied, Recorded
  <1>2. /\ IsFiniteSet(D) /\ D \subseteq ToSet(s.workload) /\ job \in ToSet(s.workload)
        /\ job.tenant_id \in Tenants /\ job.priority \in Priorities
    BY DEF LeavesAfter
  <1>3. job.created_at \in Int /\ Cardinality(D) \in Nat
    BY <1>2, SetupIs, FS_CardinalityType DEF Comparable
  <1>4. AdmittedAs(s, n, i)
    BY DEF Tallied, AdmittedAs, Recorded
  <1>5. CountsJobs(n, E)
    BY <1>1, CountsNext DEF Tallied
  <1>6. SplitsAgree(n)
    <2>1. Cardinality(D) - job.created_at \in Int
      BY <1>3
    <2>2. QED
      BY <1>1, <1>2, <2>1, SplitsNext DEF Tallied
  <1>7. WaitsAddUp(s, n, E)
    BY <1>1, WaitsNext DEF Tallied
  <1>8. \A p \in Priorities : UrgentStep(s, m, n, D, E, job, p)
    BY <1>1, UrgentNext
  <1> HIDE DEF E
  <1>9. ASSUME NEW p \in Priorities,
               UrgentWait(s, m, D, p) >= Ticks(Cardinality(UrgentJobs(D, p)))
        PROVE  UrgentWait(s, n, E, p) >= Ticks(Cardinality(UrgentJobs(E, p)))
    <2>1. UrgentStep(s, m, n, D, E, job, p)
      BY <1>8
    <2>2. PICK a \in Int : a = UrgentWait(s, m, D, p)
      BY <2>1 DEF UrgentStep
    <2>3. PICK u \in Nat : u = Cardinality(UrgentJobs(D, p)) /\ u <= Cardinality(D)
      BY <1>3, <2>1 DEF UrgentStep
    <2>4. Ticks(u) \in Int /\ Ticks(u + 1) = Ticks(u) + u
      BY TicksNext
    <2>5. CASE job.priority >= p
      <3>1. /\ UrgentWait(s, n, E, p) = a + Cardinality(D)
            /\ Cardinality(UrgentJobs(E, p)) = u + 1
        BY <2>1, <2>2, <2>3, <2>5 DEF UrgentStep
      <3>2. a + Cardinality(D) >= Ticks(u + 1)
        BY <1>3, <1>9, <2>2, <2>3, <2>4
      <3>3. QED
        BY <3>1, <3>2
    <2>6. CASE ~(job.priority >= p)
      BY <1>9, <2>1, <2>6 DEF UrgentStep
    <2>7. QED
      BY <2>5, <2>6
  <1>10. ASSUME policy = "priority", NEW p \in Priorities,
                UrgentWait(s, m, D, p) = Ticks(Cardinality(UrgentJobs(D, p)))
         PROVE  UrgentWait(s, n, E, p) = Ticks(Cardinality(UrgentJobs(E, p)))
    <2>1. UrgentStep(s, m, n, D, E, job, p)
      BY <1>8
    <2>2. PICK a \in Int : a = UrgentWait(s, m, D, p)
      BY <2>1 DEF UrgentStep
    <2>3. PICK u \in Nat : u = Cardinality(UrgentJobs(D, p))
      BY <1>3, <2>1 DEF UrgentStep
    <2>4. Ticks(u) \in Int /\ Ticks(u + 1) = Ticks(u) + u
      BY TicksNext
    <2>5. CASE job.priority >= p
      <3>1. \A other \in D : other.priority >= p
        <4> TAKE other \in D
        <4>1. other.priority >= job.priority
          BY <1>10
        <4>2. other.priority \in Int /\ job.priority \in Int /\ p \in Int
          BY <1>2, SetupIs, ComparisonAssumption DEF Comparable
        <4>3. QED
          BY <2>5, <4>1, <4>2
      <3>2. UrgentJobs(D, p) = D
        BY <3>1 DEF UrgentJobs
      <3>3. /\ UrgentWait(s, n, E, p) = a + u
            /\ Cardinality(UrgentJobs(E, p)) = u + 1
        BY <2>1, <2>2, <2>3, <2>5, <3>2 DEF UrgentStep
      <3>4. a + u = Ticks(u + 1)
        BY <1>10, <2>2, <2>3, <2>4
      <3>5. QED
        BY <3>3, <3>4
    <2>6. CASE ~(job.priority >= p)
      BY <1>10, <2>1, <2>6 DEF UrgentStep
    <2>7. QED
      BY <2>5, <2>6
  <1>11. UrgentWaitAtLeast(s, n, E) /\ (policy = "priority" => UrgentWaitExactly(s, n, E))
    BY <1>9, <1>10 DEF Tallied, UrgentWaitAtLeast, UrgentWaitExactly
  <1>12. policy \in PerTenant => InTurn(s, n, E)
    BY DEF E
  <1>13. Tallied(s, policy, n, i, E)
    BY <1>1, <1>4, <1>5, <1>6, <1>7, <1>11, <1>12 DEF Tallied
  <1>14. QED
    BY <1>13 DEF E

(***************************************************************************)
(* A run of one policy: i jobs offered, q its lanes, c and at its lap,     *)
(* by the jobs it can look up, k its clock and m its metrics.              *)
(***************************************************************************)

(* The accepted jobs that have left.                                        *)
Done(s, i, q) == {job \in Accepted(s, i) : Cardinality(Filling(q, job)) = 0}

(* Only accepted jobs wait, each in one place.                              *)
Held(s, i, q) ==
    /\ q \in [Lanes -> Seq(ToSet(s.workload))]
    /\ IsFiniteSet(Places(q))
    /\ \A l \in Lanes : \A n \in 1 .. Len(q[l]) : q[l][n] \in Accepted(s, i)
    /\ \A job \in Accepted(s, i) : Cardinality(Filling(q, job)) \in {0, 1}

(* The clock counts the dispatches, which begin after the last offer.       *)
Clocked(s, i, q, k) ==
    /\ k = Cardinality(Done(s, i, q))
    /\ k # 0 => i = Len(s.workload)

(* The script finds every accepted job by its id.                           *)
Found(s, policy, i, by) ==
    policy # "composed" =>
        \A job \in Accepted(s, i) : job.job_id \in DOMAIN by /\ by[job.job_id] = job

(* Accepted jobs wait or are dispatched; the queue was never deeper.        *)
DepthKept(q, m) == m.accepted = m.dispatched + SizeOf(q) /\ m.depth_peak = m.accepted

UrgentFirst(s, policy, i, q) ==
    policy = "priority" =>
        \A gone \in Done(s, i, q), job \in Accepted(s, i) \ Done(s, i, q) :
            gone.priority >= job.priority

(* The pointer is where the turns put it, and a lane holds the jobs of its  *)
(* tenant that were not served.                                             *)
TurnKept(s, policy, i, q, at, k, m) ==
    policy \in PerTenant =>
        /\ at = Turns(s)[k].pos
        /\ \A t \in Tenants :
              Len(q[t]) + m.by_tenant[t] = Cardinality(OfTenant(Accepted(s, i), t))

Running(s, policy, i, q, c, at, by, k, m) ==
    /\ s \in Setups /\ i \in 0 .. Len(s.workload)
    /\ Held(s, i, q)
    /\ InOrder(policy, s.weights, ToSet(s.workload), c, at, q)
    /\ Clocked(s, i, q, k)
    /\ Found(s, policy, i, by)
    /\ DepthKept(q, m)
    /\ UrgentFirst(s, policy, i, q)
    /\ TurnKept(s, policy, i, q, at, k, m)
    /\ Tallied(s, policy, m, i, Done(s, i, q))

(* The runs that are over have dispatched all they accepted.                *)
Ended(s, r, n) ==
    /\ DOMAIN r = {RunOrder[j] : j \in 1 .. n - 1}
    /\ \A p \in DOMAIN r :
          Tallied(s, p, r[p], Len(s.workload), Accepted(s, Len(s.workload)))

ComparisonInv ==
    /\ setup \in Setups
    /\ turn \in 1 .. Len(RunOrder) + 1
    /\ turn <= Len(RunOrder) =>
          Running(setup, Policy, offered, queues, cycle, pos, by_id, tick, metrics)
    /\ turn > Len(RunOrder) =>
          offered = 0 /\ queues = NoJobs /\ tick = 0 /\ metrics = NoMetrics
    /\ Ended(setup, results, turn)

(* A run starts empty.                                                      *)
LEMMA RunStarts ==
    ASSUME NEW s \in Setups, NEW policy, NEW c, c = CycleOf(policy, s.weights)
    PROVE  Running(s, policy, 0, NoJobs, c, 0, <<>>, 0, NoMetrics)
  <1> DEFINE J == ToSet(s.workload)
             q == NoJobs
  <1>1. Accepted(s, 0) = {} /\ Done(s, 0, q) = {}
    BY AcceptedIs DEF Done
  <1>2. Cardinality({}) = 0 /\ IsFiniteSet({})
    BY FS_EmptySet
  <1>3. q \in [Lanes -> Seq(J)] /\ Places(q) = {} /\ \A l \in Lanes : q[l] = <<>> /\ Len(q[l]) = 0
    BY NoPlaces DEF NoJobs
  <1> HIDE DEF q, J
  <1>4. 0 \in 0 .. Len(s.workload)
    BY SetupIs
  <1>5. Held(s, 0, q)
    BY <1>1, <1>2, <1>3 DEF Held, J
  <1>6. InOrder(policy, s.weights, J, c, 0, q)
    <2>1. s.weights \in Weights /\ \A job \in J : Comparable(job)
      BY SetupIs DEF J
    <2>2. Len(c) \in Nat \ {0}
      BY <2>1, LapOfPolicy
    <2>3. 0 \in 0 .. Len(c) - 1
      BY <2>2
    <2>4. InOwnLane(policy, q)
      BY <1>3 DEF InOwnLane
    <2>5. QED
      BY <1>3, <2>1, <2>3, <2>4 DEF InOrder
  <1>7. Clocked(s, 0, q, 0)
    BY <1>1, <1>2 DEF Clocked
  <1>8. Found(s, policy, 0, <<>>) /\ UrgentFirst(s, policy, 0, q)
    BY <1>1 DEF Found, UrgentFirst
  <1>9. /\ NoMetrics.accepted = 0 /\ NoMetrics.dispatched = 0 /\ NoMetrics.depth_peak = 0
        /\ \A t \in Tenants : NoMetrics.by_tenant[t] = 0
    BY DEF NoMetrics, Count
  <1>10. DepthKept(q, NoMetrics)
    BY <1>2, <1>3, <1>9 DEF DepthKept, SizeOf
  <1>11. TurnKept(s, policy, 0, q, 0, 0, NoMetrics)
    <2>1. Turns(s)[0].pos = 0
      BY TurnsAre DEF FirstTurn
    <2>2. ASSUME NEW t \in Tenants
          PROVE  Len(q[t]) + NoMetrics.by_tenant[t] = Cardinality(OfTenant(Accepted(s, 0), t))
      <3>1. OfTenant(Accepted(s, 0), t) = {}
        BY <1>1 DEF OfTenant
      <3>2. Len(q[t]) = 0
        BY <1>3 DEF Lanes
      <3>3. Len(q[t]) + NoMetrics.by_tenant[t] = 0 + 0
        BY <1>9, <3>2, Zenon
      <3>4. Cardinality(OfTenant(Accepted(s, 0), t)) = 0
        BY <1>2, <3>1, Zenon
      <3>5. 0 + 0 = 0
        OBVIOUS
      <3>6. QED
        BY <3>3, <3>4, <3>5, Zenon
    <2>3. QED
      BY <2>1, <2>2 DEF TurnKept
  <1>12. Tallied(s, policy, NoMetrics, 0, Done(s, 0, q))
    BY <1>1, FirstTally
  <1>13. QED
    BY <1>4, <1>5, <1>6, <1>7, <1>8, <1>10, <1>11, <1>12 DEF Running, J, q

(* Room for one more job, in the lane l.                                    *)
TakenIn(s, i, q, r, l, job) ==
    /\ Appended(q, r, l, job)
    /\ Held(s, i + 1, r)
    /\ Done(s, i + 1, r) = Done(s, i, q)
    /\ SizeOf(q) \in Nat /\ SizeOf(r) = SizeOf(q) + 1

(* An accepted job waits in one place, and nobody is done for it.           *)
LEMMA TakeIn ==
    ASSUME NEW s \in Setups, NEW i, NEW q, Held(s, i, q),
           NEW job \in ToSet(s.workload), job \notin Accepted(s, i),
           Accepted(s, i + 1) = Accepted(s, i) \cup {job},
           NEW l \in Lanes, NEW r, r = [q EXCEPT ![l] = Append(q[l], job)]
    PROVE  TakenIn(s, i, q, r, l, job)
  <1>1. PICK J : J = ToSet(s.workload)
    OBVIOUS
  <1>2. q \in [Lanes -> Seq(J)] /\ IsFiniteSet(Places(q)) /\ job \in J
    BY <1>1 DEF Held
  <1>3. r \in [Lanes -> Seq(J)] /\ Appended(q, r, l, job)
    BY <1>2 DEF Appended
  <1>4. \A any : OneMore(q, r, job, any)
    BY <1>2, <1>3, AppendCounts
  <1>5. /\ IsFiniteSet(Places(r)) /\ SizeOf(q) \in Nat /\ SizeOf(r) = SizeOf(q) + 1
        /\ \A any : /\ Cardinality(Filling(q, any)) \in Nat
                    /\ any # job => Cardinality(Filling(r, any)) = Cardinality(Filling(q, any))
        /\ Cardinality(Filling(r, job)) = Cardinality(Filling(q, job)) + 1
    <2>1. OneMore(q, r, job, job)
      BY <1>4
    <2>2. /\ IsFiniteSet(Places(r)) /\ SizeOf(q) \in Nat /\ SizeOf(r) = SizeOf(q) + 1
          /\ Cardinality(Filling(r, job)) = Cardinality(Filling(q, job)) + 1
      BY <2>1 DEF OneMore, SizeOf
    <2>3. ASSUME NEW any
          PROVE  /\ Cardinality(Filling(q, any)) \in Nat
                 /\ any # job => Cardinality(Filling(r, any)) = Cardinality(Filling(q, any))
      <3>1. OneMore(q, r, job, any)
        BY <1>4
      <3>2. PICK n \in Nat : n = Cardinality(Filling(q, any))
        BY <3>1 DEF OneMore
      <3>3. any # job => Cardinality(Filling(r, any)) = n + 0
        BY <3>1, <3>2 DEF OneMore
      <3>4. QED
        BY <3>2, <3>3
    <2>4. QED
      BY <2>2, <2>3
  <1>6. Cardinality(Filling(q, job)) = 0
    <2>1. FilledBy(q, job, Filling(q, job))
      BY <1>2, FillingIs
    <2>2. \A m \in Lanes : \A n \in 1 .. Len(q[m]) : q[m][n] # job
      BY DEF Held
    <2>3. Filling(q, job) = {}
      BY <2>1, <2>2 DEF FilledBy
    <2>4. QED
      BY <2>3, FS_EmptySet
  <1>7. Cardinality(Filling(r, job)) = 1
    BY <1>5, <1>6
  <1>8. ASSUME NEW m \in Lanes, NEW n \in 1 .. Len(r[m]) PROVE r[m][n] \in Accepted(s, i + 1)
    <2>1. \A x \in 1 .. Len(q[m]) : q[m][x] \in Accepted(s, i)
      BY DEF Held
    <2>2. CASE m = l
      <3>1. PICK z \in Nat : z = Len(q[l])
        BY <1>2
      <3>2. Len(r[l]) = z + 1 /\ r[l][z + 1] = job /\ \A x \in 1 .. z : r[l][x] = q[l][x]
        BY <1>3, <3>1 DEF Appended
      <3>3. n = z + 1 \/ n \in 1 .. z
        BY <2>2, <3>2
      <3>4. QED
        BY <2>1, <2>2, <3>1, <3>2, <3>3
    <2>3. CASE m # l
      <3>1. r[m] = q[m]
        BY <1>3, <2>3 DEF Appended
      <3>2. QED
        BY <2>1, <3>1
    <2>4. QED
      BY <2>2, <2>3
  <1>9. \A any \in Accepted(s, i + 1) : Cardinality(Filling(r, any)) \in {0, 1}
    BY <1>5, <1>7 DEF Held
  <1>10. Held(s, i + 1, r)
    BY <1>1, <1>3, <1>5, <1>8, <1>9 DEF Held
  <1>11. Done(s, i + 1, r) = Done(s, i, q)
    <2>1. \A any \in Accepted(s, i) : Cardinality(Filling(r, any)) = Cardinality(Filling(q, any))
      BY <1>5
    <2>2. job \notin Done(s, i + 1, r)
      BY <1>7 DEF Done
    <2>3. QED
      BY <2>1, <2>2 DEF Done
  <1>12. QED
    BY <1>3, <1>5, <1>10, <1>11 DEF TakenIn

(* _is_valid and the capacity decide an offer, whatever the policy.         *)
AnswerIs(s, q, job) ==
    IF ~Valid(job) THEN "rejected_invalid"
    ELSE IF SizeOf(q) >= s.capacity THEN "rejected_full"
    ELSE "accepted"

(* The answer of an offer and what it does to the lanes and the ids.        *)
Offers(s, policy, q, r, by, b, job, status) ==
    /\ status = AnswerIs(s, q, job)
    /\ status # "accepted" => r = q /\ b = by
    /\ status = "accepted" =>
          /\ r = [q EXCEPT ![Lane(policy, job)] = Append(q[Lane(policy, job)], job)]
          /\ policy # "composed" => b = WithEntry(by, job.job_id, job)

(* A scheduler stays in order when a job is put into its own lane.          *)
LEMMA OrderKept ==
    ASSUME NEW policy, NEW weights, NEW J, NEW c, NEW at, NEW q,
           InOrder(policy, weights, J, c, at, q), NEW l \in Lanes, NEW job \in J,
           NEW r \in [Lanes -> Seq(J)], Appended(q, r, l, job),
           Lane(policy, job) = l, policy \in PerTenant => l \in Tenants
    PROVE  InOrder(policy, weights, J, c, at, r)
  <1>1. q \in [Lanes -> Seq(J)] /\ InOwnLane(policy, q)
    BY DEF InOrder
  <1>2. InOwnLane(policy, r)
    BY <1>1, AppendKeepsLanes
  <1>3. QED
    BY <1>2 DEF InOrder

(* An offer leaves a run in order: nothing has been dispatched yet.         *)
LEMMA OfferRuns ==
    ASSUME NEW s, NEW policy, NEW i, NEW q, NEW c, NEW at, NEW by, NEW k, NEW m,
           Running(s, policy, i, q, c, at, by, k, m), i < Len(s.workload),
           NEW job, job = s.workload[i + 1],
           NEW r, NEW b, NEW status, Offers(s, policy, q, r, by, b, job, status),
           NEW n, n = ObserveQueueDepth(RecordEnqueueResult(m, status), SizeOf(r))
    PROVE  Running(s, policy, i + 1, r, c, at, b, k, n)
  <1>1. /\ s \in Setups /\ i \in 0 .. Len(s.workload) /\ Len(s.workload) \in Nat
        /\ Held(s, i, q) /\ Clocked(s, i, q, k) /\ Found(s, policy, i, by) /\ DepthKept(q, m)
        /\ Tallied(s, policy, m, i, Done(s, i, q))
    BY SetupIs DEF Running
  <1>2. /\ i \in 0 .. Len(s.workload) - 1 /\ i + 1 \in 1 .. Len(s.workload)
        /\ i + 1 \in 0 .. Len(s.workload) /\ i # Len(s.workload)
    BY <1>1
  <1>3. job \in ToSet(s.workload) /\ Offering(s, i, job)
    BY <1>1, <1>2, SetupIs, OfferingIs
  <1>4. k = 0 /\ Cardinality(Done(s, i, q)) = 0
    BY <1>1, <1>2 DEF Clocked
  <1>5. IsFiniteSet(Done(s, i, q)) /\ Done(s, i, q) = {}
    <2>1. Done(s, i, q) \subseteq Accepted(s, i) /\ IsFiniteSet(Accepted(s, i))
      BY <1>1, AcceptedIs DEF Done
    <2>2. IsFiniteSet(Done(s, i, q))
      BY <2>1, FS_Subset
    <2>3. QED
      BY <1>4, <2>2, FS_EmptySet
  <1>6. /\ m \in MetricsType /\ AdmittedAs(s, m, i) /\ m.dispatched = 0
        /\ m.accepted \in Nat /\ m.depth_peak = m.accepted
    BY <1>1, <1>4 DEF Tallied, CountsJobs, MetricsType, DepthKept
  <1>7. IsFiniteSet(Places(q)) /\ SizeOf(q) \in Nat
    BY <1>1, FS_CardinalityType DEF Held, SizeOf
  <1>8. m.accepted = SizeOf(q)
    BY <1>1, <1>6, <1>7 DEF DepthKept
  <1>9. status = IF ~Valid(job) THEN "rejected_invalid"
                 ELSE IF m.accepted >= s.capacity THEN "rejected_full"
                 ELSE "accepted"
    BY <1>8 DEF Offers, AnswerIs
  <1>10. ASSUME status = "accepted"
         PROVE  /\ Valid(job) /\ Accepted(s, i + 1) = Accepted(s, i) \cup {job}
                /\ job \notin Accepted(s, i)
                /\ \A other \in Accepted(s, i) : other.job_id # job.job_id
    <2>1. Valid(job) /\ ~(m.accepted >= s.capacity)
      BY <1>9, <1>10
    <2>2. PICK v \in Nat : v = Cardinality(ValidUpTo(s, i))
      BY <1>2, <1>3 DEF Offering
    <2>3. m.accepted = IF v <= s.capacity THEN v ELSE s.capacity
      BY <1>6, <2>2 DEF AdmittedAs
    <2>4. v < s.capacity
      BY <1>1, <2>1, <2>2, <2>3, SetupIs
    <2>5. QED
      BY <1>3, <2>1, <2>2, <2>4 DEF Offering
  <1>11. ASSUME status = "accepted"
         PROVE  /\ Lane(policy, job) \in Lanes
                /\ policy \in PerTenant => Lane(policy, job) \in Tenants
                /\ TakenIn(s, i, q, r, Lane(policy, job), job)
    <2>1. Lane(policy, job) \in Lanes /\ (policy \in PerTenant => Lane(policy, job) \in Tenants)
      BY <1>10, <1>11 DEF Lane, Lanes, Valid
    <2>2. PICK l \in Lanes : l = Lane(policy, job)
      BY <2>1
    <2>3. r = [q EXCEPT ![l] = Append(q[l], job)]
      BY <1>11, <2>2 DEF Offers
    <2>4. TakenIn(s, i, q, r, l, job)
      BY <1>1, <1>3, <1>10, <1>11, <2>3, TakeIn
    <2>5. QED
      BY <2>1, <2>2, <2>4
  <1>12. SizeOf(r) = m.accepted + (IF status = "accepted" THEN 1 ELSE 0)
    <2>1. CASE status = "accepted"
      <3>1. SizeOf(r) = SizeOf(q) + 1
        BY <1>11, <2>1 DEF TakenIn
      <3>2. QED
        BY <1>8, <2>1, <3>1
    <2>2. CASE status # "accepted"
      <3>1. r = q
        BY <2>2 DEF Offers
      <3>2. QED
        BY <1>7, <1>8, <2>2, <3>1
    <2>3. QED
      BY <2>1, <2>2
  <1>13. OfferTallied(s, m, n, i, job, status = "accepted")
    BY <1>1, <1>2, <1>6, <1>9, <1>12, OfferCounts
  <1>14. /\ n \in MetricsType /\ SameDispatches(m, n) /\ AdmittedAs(s, n, i + 1)
         /\ n.depth_peak = n.accepted /\ n.accepted = SizeOf(r)
         /\ (status = "accepted" <=> Valid(job) /\ Cardinality(ValidUpTo(s, i)) < s.capacity)
    BY <1>12, <1>13 DEF OfferTallied
  <1>15. status # "accepted" => Accepted(s, i + 1) = Accepted(s, i)
    BY <1>3, <1>14 DEF Offering
  <1>16. Held(s, i + 1, r) /\ Done(s, i + 1, r) = Done(s, i, q)
    <2>1. CASE status = "accepted"
      BY <1>11, <2>1 DEF TakenIn
    <2>2. CASE status # "accepted"
      <3>1. r = q /\ Accepted(s, i + 1) = Accepted(s, i)
        BY <1>15, <2>2 DEF Offers
      <3>2. QED
        BY <1>1, <3>1 DEF Held, Done
    <2>3. QED
      BY <2>1, <2>2
  <1>17. Clocked(s, i + 1, r, k)
    BY <1>4, <1>16 DEF Clocked
  <1>18. UrgentFirst(s, policy, i + 1, r)
    BY <1>5, <1>16 DEF UrgentFirst
  <1>19. DepthKept(r, n)
    <2>1. n.dispatched = 0
      BY <1>6, <1>14 DEF SameDispatches
    <2>2. SizeOf(r) \in Nat
      BY <1>6, <1>12
    <2>3. QED
      BY <1>14, <2>1, <2>2 DEF DepthKept
  <1>20. Tallied(s, policy, n, i + 1, Done(s, i + 1, r))
    BY <1>1, <1>14, <1>16, OfferKeepsTally
  <1>21. InOrder(policy, s.weights, ToSet(s.workload), c, at, r)
    <2>1. InOrder(policy, s.weights, ToSet(s.workload), c, at, q)
      BY DEF Running
    <2>2. CASE status = "accepted"
      <3>1. PICK J : J = ToSet(s.workload)
        OBVIOUS
      <3>2. PICK l \in Lanes : l = Lane(policy, job) /\ (policy \in PerTenant => l \in Tenants)
        BY <1>11, <2>2
      <3>3. Appended(q, r, l, job) /\ r \in [Lanes -> Seq(J)]
        BY <1>11, <1>16, <2>2, <3>1, <3>2 DEF TakenIn, Held
      <3>4. q \in [Lanes -> Seq(J)] /\ InOwnLane(policy, q) /\ job \in J
        BY <1>3, <2>1, <3>1 DEF InOrder
      <3>5. Lane(policy, job) = l
        BY <3>2
      <3>6. InOrder(policy, s.weights, J, c, at, q)
        BY <2>1, <3>1
      <3>7. InOrder(policy, s.weights, J, c, at, r)
        BY <3>2, <3>3, <3>4, <3>5, <3>6, OrderKept
      <3>8. QED
        BY <3>1, <3>7
    <2>3. CASE status # "accepted"
      BY <2>1, <2>3 DEF Offers
    <2>4. QED
      BY <2>2, <2>3
  <1>22. Found(s, policy, i + 1, b)
    <2>1. CASE status = "accepted"
      <3>1. SUFFICES ASSUME policy # "composed", NEW any \in Accepted(s, i + 1)
                     PROVE  any.job_id \in DOMAIN b /\ b[any.job_id] = any
        BY DEF Found
      <3>2. b = WithEntry(by, job.job_id, job)
        BY <2>1, <3>1 DEF Offers
      <3>3. \A other \in Accepted(s, i) : other.job_id \in DOMAIN by /\ by[other.job_id] = other
        BY <1>1, <3>1 DEF Found
      <3>4. any = job \/ (any \in Accepted(s, i) /\ any.job_id # job.job_id)
        BY <1>10, <2>1
      <3>5. QED
        BY <3>2, <3>3, <3>4 DEF WithEntry
    <2>2. CASE status # "accepted"
      BY <1>1, <1>15, <2>2 DEF Offers, Found
    <2>3. QED
      BY <2>1, <2>2
  <1>23. TurnKept(s, policy, i + 1, r, at, k, n)
    <2>1. SUFFICES ASSUME policy \in PerTenant
                   PROVE  /\ at = Turns(s)[k].pos
                          /\ \A t \in Tenants : Len(r[t]) + n.by_tenant[t]
                                = Cardinality(OfTenant(Accepted(s, i + 1), t))
      BY DEF TurnKept
    <2>2. /\ at = Turns(s)[k].pos
          /\ \A t \in Tenants :
                Len(q[t]) + m.by_tenant[t] = Cardinality(OfTenant(Accepted(s, i), t))
      BY <2>1 DEF Running, TurnKept
    <2>3. ASSUME NEW t \in Tenants
          PROVE  Len(r[t]) + n.by_tenant[t] = Cardinality(OfTenant(Accepted(s, i + 1), t))
      <3>1. n.by_tenant = m.by_tenant
        BY <1>14 DEF SameDispatches
      <3>2. CASE status = "accepted"
        <4>1. Lane(policy, job) = job.tenant_id
          BY <2>1 DEF Lane
        <4>2. t \in Lanes /\ q[t] \in Seq(ToSet(s.workload)) /\ Len(q[t]) \in Nat
          BY <1>1 DEF Held, Lanes
        <4>3. Appended(q, r, job.tenant_id, job)
          BY <1>11, <3>2, <4>1 DEF TakenIn
        <4>4. Len(r[t]) = IF t = job.tenant_id THEN Len(q[t]) + 1 ELSE Len(q[t])
          BY <4>2, <4>3 DEF Appended
        <4>5. PICK A : A = Accepted(s, i) /\ IsFiniteSet(A) /\ job \notin A
          BY <1>1, <1>10, <3>2, AcceptedIs
        <4>6. PICK P : P = {x \in A \cup {job} : x.tenant_id = t}
          OBVIOUS
        <4>7. OfTenant(A, t) = A \cap P /\ OfTenant(A \cup {job}, t) = (A \cup {job}) \cap P
          BY <4>6 DEF OfTenant
        <4>8. PartGrows(A, OfTenant(A, t), OfTenant(A \cup {job}, t), job, job \in P)
          BY <4>5, <4>7, PartNext
        <4>9. job \in P <=> t = job.tenant_id
          BY <4>6
        <4>10. /\ Cardinality(OfTenant(A, t)) \in Nat
               /\ Cardinality(OfTenant(A \cup {job}, t))
                    = IF t = job.tenant_id THEN Cardinality(OfTenant(A, t)) + 1
                      ELSE Cardinality(OfTenant(A, t))
          BY <4>8, <4>9 DEF PartGrows
        <4>11. Accepted(s, i + 1) = A \cup {job}
          BY <1>10, <3>2, <4>5
        <4>12. PICK z \in Nat : z = Len(q[t])
          BY <4>2
        <4>13. PICK y \in Nat : y = m.by_tenant[t]
          BY <1>6 DEF MetricsType
        <4>14. PICK x \in Nat : x = Cardinality(OfTenant(A, t))
          BY <4>10
        <4>15. z + y = x
          BY <2>2, <4>5, <4>12, <4>13, <4>14
        <4>16. Len(r[t]) + n.by_tenant[t] = IF t = job.tenant_id THEN z + 1 + y ELSE z + y
          BY <3>1, <4>4, <4>12, <4>13
        <4>17. Cardinality(OfTenant(Accepted(s, i + 1), t)) = IF t = job.tenant_id THEN x + 1 ELSE x
          BY <4>10, <4>11, <4>14
        <4>18. QED
          BY <4>15, <4>16, <4>17
      <3>3. CASE status # "accepted"
        <4>1. r = q /\ Accepted(s, i + 1) = Accepted(s, i)
          BY <1>15, <3>3 DEF Offers
        <4>2. QED
          BY <2>2, <3>1, <4>1
      <3>4. QED
        BY <3>2, <3>3
    <2>4. QED
      BY <2>2, <2>3
  <1>24. QED
    BY <1>1, <1>2, <1>16, <1>17, <1>18, <1>19, <1>20, <1>21, <1>22, <1>23 DEF Running

(* The job at place x of lane l leaves.                                     *)
SentOut(s, i, q, r, l, x) ==
    /\ r \in [Lanes -> Seq(ToSet(s.workload))] /\ Removed(q, r, l, x)
    /\ Held(s, i, r)
    /\ q[l][x] \in Accepted(s, i) /\ q[l][x] \notin Done(s, i, q)
    /\ Done(s, i, r) = Done(s, i, q) \cup {q[l][x]}
    /\ SizeOf(r) \in Nat /\ SizeOf(q) = SizeOf(r) + 1

(* It waited in that place only, so it is done; nobody else is.             *)
LEMMA SendOut ==
    ASSUME NEW s, NEW i, NEW q, Held(s, i, q), NEW l \in Lanes, NEW x \in 1 .. Len(q[l]),
           NEW r, r = [q EXCEPT ![l] = RemoveAt(q[l], x)]
    PROVE  SentOut(s, i, q, r, l, x)
  <1>1. PICK J : J = ToSet(s.workload)
    OBVIOUS
  <1>2. q \in [Lanes -> Seq(J)] /\ IsFiniteSet(Places(q))
    BY <1>1 DEF Held
  <1>3. r \in [Lanes -> Seq(J)] /\ Removed(q, r, l, x)
    BY <1>2, RemoveShifts
  <1>4. PICK job : job = q[l][x]
    OBVIOUS
  <1>5. job \in Accepted(s, i)
    BY <1>4 DEF Held
  <1>6. ASSUME NEW any PROVE OneLess(q, r, job, any)
    BY <1>2, <1>3, <1>4, RemoveCounts
  <1>7. /\ IsFiniteSet(Places(r)) /\ SizeOf(r) \in Nat /\ SizeOf(q) = SizeOf(r) + 1
        /\ Cardinality(Filling(q, job)) = 1 /\ Cardinality(Filling(r, job)) = 0
    <2>1. OneLess(q, r, job, job)
      BY <1>6
    <2>2. IsFiniteSet(Places(r)) /\ Cardinality(Places(r)) \in Nat
      BY <2>1, FS_CardinalityType DEF OneLess
    <2>3. PICK y \in Nat : y = Cardinality(Places(q)) /\ Cardinality(Places(r)) = y - 1
      BY <2>1 DEF OneLess
    <2>4. Cardinality(Filling(q, job)) \in {0, 1}
      BY <1>5 DEF Held
    <2>5. Cardinality(Filling(q, job)) > 0
      BY <2>1 DEF OneLess
    <2>6. Cardinality(Filling(q, job)) = 1
      BY <2>4, <2>5
    <2>7. Cardinality(Filling(r, job)) = Cardinality(Filling(q, job)) - 1
      BY <2>1 DEF OneLess
    <2>8. QED
      BY <2>2, <2>3, <2>6, <2>7 DEF SizeOf
  <1>8. ASSUME NEW any, any # job
        PROVE  Cardinality(Filling(r, any)) = Cardinality(Filling(q, any))
    <2>1. OneLess(q, r, job, any)
      BY <1>6
    <2>2. PICK y \in Nat : y = Cardinality(Filling(q, any))
      BY <2>1 DEF OneLess
    <2>3. Cardinality(Filling(r, any)) = y - 0
      BY <1>8, <2>1, <2>2 DEF OneLess
    <2>4. QED
      BY <2>2, <2>3
  <1>9. ASSUME NEW h \in Lanes, NEW z \in 1 .. Len(r[h]) PROVE r[h][z] \in Accepted(s, i)
    <2>1. \A y \in 1 .. Len(q[h]) : q[h][y] \in Accepted(s, i)
      BY DEF Held
    <2>2. CASE h = l
      <3>1. PICK e \in Nat : e = Len(r[l]) /\ Len(q[l]) = e + 1
        BY <1>3 DEF Removed
      <3>2. r[l][z] = IF z < x THEN q[l][z] ELSE q[l][z + 1]
        BY <1>3, <2>2 DEF Removed
      <3>3. z \in 1 .. Len(q[l]) /\ z + 1 \in 1 .. Len(q[l])
        BY <2>2, <3>1
      <3>4. QED
        BY <2>1, <2>2, <3>2, <3>3
    <2>3. CASE h # l
      <3>1. r[h] = q[h]
        BY <1>3, <2>3 DEF Removed
      <3>2. QED
        BY <2>1, <3>1
    <2>4. QED
      BY <2>2, <2>3
  <1>10. \A any \in Accepted(s, i) : Cardinality(Filling(r, any)) \in {0, 1}
    BY <1>7, <1>8 DEF Held
  <1>11. Held(s, i, r)
    BY <1>1, <1>3, <1>7, <1>9, <1>10 DEF Held
  <1>12. job \notin Done(s, i, q) /\ Done(s, i, r) = Done(s, i, q) \cup {job}
    <2>1. job \notin Done(s, i, q)
      <3>1. Cardinality(Filling(q, job)) # 0
        BY <1>7
      <3>2. QED
        BY <3>1, Zenon DEF Done
    <2>2. job \in Done(s, i, r)
      BY <1>5, <1>7, Zenon DEF Done
    <2>3. \A any : any # job => (any \in Done(s, i, r) <=> any \in Done(s, i, q))
      BY <1>8, Zenon DEF Done
    <2>4. QED
      BY <2>1, <2>2, <2>3
  <1>13. QED
    BY <1>1, <1>3, <1>4, <1>5, <1>7, <1>11, <1>12 DEF SentOut

(* Who is accepted and not done waits in some lane.                         *)
LEMMA StillWaits ==
    ASSUME NEW s, NEW i, NEW q, Held(s, i, q), NEW job \in Accepted(s, i) \ Done(s, i, q)
    PROVE  \E l \in Lanes : \E x \in 1 .. Len(q[l]) : q[l][x] = job
  <1>1. PICK J : J = ToSet(s.workload) /\ q \in [Lanes -> Seq(J)]
    BY DEF Held
  <1>2. Cardinality(Filling(q, job)) # 0
    BY DEF Done
  <1>3. Filling(q, job) # {}
    BY <1>2, FS_EmptySet
  <1>4. FilledBy(q, job, Filling(q, job))
    BY <1>1, FillingIs
  <1>5. QED
    BY <1>3, <1>4 DEF FilledBy

(* The priority scheduler sends nobody before a more urgent job.            *)
LEMMA UrgentStays ==
    ASSUME NEW s, NEW policy, NEW i, NEW q, Held(s, i, q), UrgentFirst(s, policy, i, q),
           InOwnLane(policy, q), NEW l, NEW x, RunsNext(policy, ToSet(s.workload), q, l, x),
           \A any \in ToSet(s.workload) : Comparable(any),
           Accepted(s, i) \subseteq ToSet(s.workload),
           NEW r, SentOut(s, i, q, r, l, x)
    PROVE  UrgentFirst(s, policy, i, r)
  <1> SUFFICES ASSUME policy = "priority", NEW gone \in Done(s, i, r),
                      NEW job \in Accepted(s, i) \ Done(s, i, r)
               PROVE  gone.priority >= job.priority
    BY DEF UrgentFirst
  <1>1. /\ q[l][x] \in Accepted(s, i) /\ q[l][x] \notin Done(s, i, q)
        /\ Done(s, i, r) = Done(s, i, q) \cup {q[l][x]}
    BY DEF SentOut
  <1>2. job \in Accepted(s, i) \ Done(s, i, q)
    BY <1>1
  <1>3. CASE gone \in Done(s, i, q)
    BY <1>2, <1>3 DEF UrgentFirst
  <1>4. CASE gone = q[l][x]
    <2>1. PICK h \in Lanes : \E y \in 1 .. Len(q[h]) : q[h][y] = job
      BY <1>2, StillWaits
    <2>2. PICK y \in 1 .. Len(q[h]) : q[h][y] = job
      BY <2>1
    <2>3. policy \notin PerTenant
      BY DEF PerTenant
    <2>4. Lane(policy, q[h][y]) = h /\ Lane(policy, q[l][x]) = l
      BY DEF InOwnLane, RunsNext
    <2>5. h = l
      BY <2>3, <2>4 DEF Lane
    <2>6. ~Better(job, gone)
      BY <1>4, <2>2, <2>5 DEF RunsNext
    <2>7. job.priority \in Int /\ gone.priority \in Int
      BY <1>1, <1>2, <1>4 DEF Comparable
    <2>8. QED
      BY <2>6, <2>7 DEF Better
  <1>5. QED
    BY <1>1, <1>3, <1>4

(* What a dispatch takes, from where, and what it leaves.                   *)
Dispatches(s, policy, q, r, c, at, by, k, m, n, l, x) ==
    /\ l = NextTenant(c, at, q)
    /\ x = JobIndex(policy, q[l])
    /\ r = [q EXCEPT ![l] = RemoveAt(q[l], x)]
    /\ LET job == IF policy = "composed" THEN q[l][x] ELSE by[q[l][x].job_id]
       IN  n = ObserveQueueDepth(RecordDispatch(m, job, k), SizeOf(r))

(* Jobs are left to dispatch, so fewer than the workload have gone.         *)
LEMMA ClockBounded ==
    ASSUME NEW s \in Setups, NEW m \in MetricsType, AdmittedAs(s, m, Len(s.workload)),
           NEW q, DepthKept(q, m), SizeOf(q) \in Nat \ {0}
    PROVE  m.dispatched \in 0 .. Len(s.workload) - 1
  <1>1. Len(s.workload) \in Nat /\ s.capacity \in Nat
    BY SetupIs
  <1>2. PICK v \in Nat : v = Cardinality(ValidUpTo(s, Len(s.workload)))
    BY <1>1, AcceptedIs
  <1>3. /\ m.accepted = IF v <= s.capacity THEN v ELSE s.capacity
        /\ m.rejected_invalid = Len(s.workload) - v
    BY <1>2 DEF AdmittedAs
  <1>4. /\ m.accepted \in Nat /\ m.dispatched \in Nat /\ m.rejected_invalid \in Nat
    BY DEF MetricsType
  <1>5. m.accepted = m.dispatched + SizeOf(q)
    BY DEF DepthKept
  <1>6. v <= Len(s.workload)
    BY <1>1, <1>3, <1>4
  <1>7. m.accepted <= Len(s.workload)
    BY <1>1, <1>3, <1>4, <1>6
  <1>8. QED
    BY <1>1, <1>4, <1>5, <1>7

(* The dispatch of a job, in a run that has jobs left.                      *)
Sent(s, policy, q, r, c, at, by, k, m, n, l, x, job) ==
    LET D == Done(s, Len(s.workload), q)
    IN  /\ job = q[l][x]
        /\ RunsNext(policy, ToSet(s.workload), q, l, x)
        /\ Advance(c, at, q) \in 0 .. Len(c) - 1
        /\ SentOut(s, Len(s.workload), q, r, l, x)
        /\ LeavesAfter(s, D, job)
        /\ k = Cardinality(D) /\ k \in 0 .. Len(s.workload) - 1
        /\ Recorded(m, n, job, k - job.created_at)

(* The script finds the job again by its id and records it.                 *)
LEMMA DispatchSends ==
    ASSUME NEW s, NEW policy, NEW q, NEW c, NEW at, NEW by, NEW k, NEW m,
           Running(s, policy, Len(s.workload), q, c, at, by, k, m), SizeOf(q) > 0,
           NEW r, NEW n, NEW l, NEW x,
           Dispatches(s, policy, q, r, c, at, by, k, m, n, l, x)
    PROVE  Sent(s, policy, q, r, c, at, by, k, m, n, l, x, q[l][x])
  <1> DEFINE i == Len(s.workload)
  <1>1. /\ s \in Setups /\ i \in Nat /\ Held(s, i, q) /\ Clocked(s, i, q, k)
        /\ Found(s, policy, i, by) /\ DepthKept(q, m) /\ Tallied(s, policy, m, i, Done(s, i, q))
        /\ InOrder(policy, s.weights, ToSet(s.workload), c, at, q)
    BY SetupIs DEF Running
  <1> HIDE DEF i
  <1>2. /\ l = NextTenant(c, at, q) /\ x = JobIndex(policy, q[l])
        /\ r = [q EXCEPT ![l] = RemoveAt(q[l], x)]
    BY DEF Dispatches
  <1>3. /\ RunsNext(policy, ToSet(s.workload), q, l, x)
        /\ Advance(c, at, q) \in 0 .. Len(c) - 1
    BY <1>1, <1>2, NextJobIs
  <1>4. l \in Lanes /\ x \in 1 .. Len(q[l])
    BY <1>3 DEF RunsNext
  <1>5. SentOut(s, i, q, r, l, x)
    BY <1>1, <1>2, <1>4, SendOut
  <1>6. PICK job : job = q[l][x]
    OBVIOUS
  <1>7. /\ job \in Accepted(s, i) /\ job \notin Done(s, i, q)
        /\ SizeOf(r) \in Nat /\ SizeOf(q) = SizeOf(r) + 1
    BY <1>5, <1>6 DEF SentOut
  <1>8. /\ IsFiniteSet(Accepted(s, i)) /\ Accepted(s, i) \subseteq ToSet(s.workload)
        /\ Valid(job)
    <2>1. i \in 0 .. Len(s.workload)
      BY <1>1 DEF i
    <2>2. QED
      BY <1>1, <1>7, <2>1, AcceptedIs
  <1>9. /\ job \in ToSet(s.workload) /\ job.tenant_id \in Tenants
        /\ job.priority \in Priorities /\ job.created_at \in Int
    BY <1>1, <1>7, <1>8, SetupIs DEF Valid, Comparable
  <1>10. LeavesAfter(s, Done(s, i, q), job)
    <2>1. Done(s, i, q) \subseteq Accepted(s, i)
      BY DEF Done
    <2>2. IsFiniteSet(Done(s, i, q))
      BY <1>8, <2>1, FS_Subset
    <2>3. QED
      BY <1>7, <1>8, <1>9, <2>1, <2>2 DEF LeavesAfter
  <1>11. job = IF policy = "composed" THEN q[l][x] ELSE by[q[l][x].job_id]
    BY <1>1, <1>6, <1>7 DEF Found
  <1>12. n = ObserveQueueDepth(RecordDispatch(m, job, k), SizeOf(r))
    BY <1>11 DEF Dispatches
  <1>13. /\ m \in MetricsType /\ AdmittedAs(s, m, i)
         /\ m.dispatched = k /\ k = Cardinality(Done(s, i, q))
    BY <1>1 DEF Tallied, CountsJobs, Clocked
  <1>14. SizeOf(q) \in Nat \ {0}
    BY <1>7
  <1>15. k \in 0 .. Len(s.workload) - 1
    BY <1>1, <1>13, <1>14, ClockBounded DEF i
  <1>16. m.depth_peak >= SizeOf(r)
    <2>1. m.depth_peak = m.dispatched + SizeOf(q)
      BY <1>1 DEF DepthKept
    <2>2. k \in Nat
      BY <1>1, <1>15 DEF i
    <2>3. QED
      BY <1>7, <1>13, <2>1, <2>2
  <1>17. Recorded(m, n, job, k - job.created_at)
    <2>1. k \in Nat /\ SizeOf(r) \in Nat
      BY <1>1, <1>7, <1>15 DEF i
    <2>2. QED
      BY <1>9, <1>12, <1>13, <1>16, <2>1, RecordIs
  <1>18. QED
    BY <1>3, <1>5, <1>6, <1>10, <1>13, <1>15, <1>17 DEF Sent, i

(* A dispatch takes the turn of its tenant.                                 *)
LEMMA TurnStays ==
    ASSUME NEW s \in Setups, NEW policy \in PerTenant, NEW q, NEW c, NEW at, NEW by, NEW k, NEW m,
           Held(s, Len(s.workload), q), TurnKept(s, policy, Len(s.workload), q, at, k, m),
           InOrder(policy, s.weights, ToSet(s.workload), c, at, q),
           m \in MetricsType, InTurn(s, m, Done(s, Len(s.workload), q)),
           NEW r, NEW n, NEW l, NEW x, l = NextTenant(c, at, q), NEW job,
           Sent(s, policy, q, r, c, at, by, k, m, n, l, x, job)
    PROVE  /\ InTurn(s, n, Done(s, Len(s.workload), q) \cup {job})
           /\ TurnKept(s, policy, Len(s.workload), r, Advance(c, at, q), k + 1, n)
  <1>1. PICK D : D = Done(s, Len(s.workload), q)
    OBVIOUS
  <1>2. /\ job = q[l][x] /\ RunsNext(policy, ToSet(s.workload), q, l, x)
        /\ LeavesAfter(s, D, job) /\ k = Cardinality(D) /\ k \in 0 .. Len(s.workload) - 1
        /\ Recorded(m, n, job, k - job.created_at)
        /\ Removed(q, r, l, x) /\ r \in [Lanes -> Seq(ToSet(s.workload))]
    BY <1>1 DEF Sent, SentOut
  <1>3. l \in Tenants /\ job.tenant_id = l
    BY <1>2 DEF RunsNext, Lane
  <1>4. \A t \in Tenants : t \in Lanes /\ q[t] \in Seq(ToSet(s.workload)) /\ Len(q[t]) \in Nat
    BY DEF Held, Lanes
  <1>5. /\ at = Turns(s)[k].pos
        /\ \A t \in Tenants : Len(q[t]) + m.by_tenant[t] = JobsOf(s, t)
    BY DEF TurnKept, JobsOf
  <1>6. \A t \in Tenants : m.by_tenant[t] \in Nat
    BY DEF MetricsType
  <1>7. ASSUME NEW t \in Tenants PROVE q[t] = <<>> <=> m.by_tenant[t] = JobsOf(s, t)
    <2>1. q[t] = <<>> <=> Len(q[t]) = 0
      BY <1>4
    <2>2. PICK a \in Nat, b \in Nat : a = Len(q[t]) /\ b = m.by_tenant[t]
      BY <1>4, <1>6
    <2>3. a + b = JobsOf(s, t)
      BY <1>5, <2>2
    <2>4. QED
      BY <2>1, <2>2, <2>3
  <1>8. c = BuildWeightCycle(s.weights) /\ at \in 0 .. Len(c) - 1
    BY LapOfPolicy DEF InOrder
  <1>9. /\ InTurn(s, n, D \cup {job})
        /\ Advance(c, at, q) = Turns(s)[Cardinality(D \cup {job})].pos
    <2>1. /\ LeavesAfter(s, D, job) /\ Cardinality(D) \in 0 .. Len(s.workload) - 1
          /\ Recorded(m, n, job, Cardinality(D) - job.created_at) /\ InTurn(s, m, D)
          /\ at = Turns(s)[Cardinality(D)].pos /\ job.tenant_id = NextTenant(c, at, q)
      BY <1>1, <1>2, <1>3, <1>5
    <2>2. ServedOut(s, q, m)
      BY <1>7 DEF ServedOut
    <2>3. TurnDue(s, m, n, D, job, c, at, q)
      BY <1>8, <2>1, <2>2 DEF TurnDue
    <2>4. QED
      BY <2>3, TurnNext
  <1>10. Cardinality(D \cup {job}) = k + 1
    BY <1>2, FS_AddElement DEF LeavesAfter
  <1>11. ASSUME NEW t \in Tenants
         PROVE  Len(r[t]) + n.by_tenant[t] = JobsOf(s, t)
    <2>1. Raised(m.by_tenant, n.by_tenant, Tenants, l, 1)
      BY <1>2, <1>3 DEF Recorded
    <2>2. PICK a \in Nat, b \in Nat : a = Len(q[t]) /\ b = m.by_tenant[t]
      BY <1>4, <1>6
    <2>3. a + b = JobsOf(s, t)
      BY <1>5, <2>2
    <2>4. CASE t = l
      <3>1. n.by_tenant[t] = b + 1
        BY <2>1, <2>2, <2>4 DEF Raised
      <3>2. PICK e \in Nat : e = Len(r[t])
        BY <1>2, <1>4
      <3>3. a = e + 1
        BY <1>2, <2>2, <2>4, <3>2 DEF Removed
      <3>4. QED
        BY <2>3, <3>1, <3>2, <3>3
    <2>5. CASE t # l
      <3>1. n.by_tenant[t] = m.by_tenant[t]
        BY <2>1, <2>5 DEF Raised
      <3>2. r[t] = q[t]
        BY <1>2, <1>4, <2>5 DEF Removed
      <3>3. QED
        BY <1>5, <3>1, <3>2
    <2>6. QED
      BY <2>4, <2>5
  <1>12. QED
    BY <1>1, <1>9, <1>10, <1>11 DEF TurnKept, JobsOf

(* A dispatch leaves a run in order.                                        *)
LEMMA DispatchRuns ==
    ASSUME NEW s, NEW policy, NEW i, NEW q, NEW c, NEW at, NEW by, NEW k, NEW m,
           Running(s, policy, i, q, c, at, by, k, m), i = Len(s.workload), SizeOf(q) > 0,
           NEW r, NEW n, NEW l, NEW x,
           Dispatches(s, policy, q, r, c, at, by, k, m, n, l, x)
    PROVE  Running(s, policy, i, r, c, Advance(c, at, q), by, k + 1, n)
  <1>1. /\ s \in Setups /\ i \in 0 .. Len(s.workload) /\ Held(s, i, q)
        /\ Found(s, policy, i, by) /\ UrgentFirst(s, policy, i, q)
        /\ DepthKept(q, m) /\ Tallied(s, policy, m, i, Done(s, i, q))
        /\ InOrder(policy, s.weights, ToSet(s.workload), c, at, q)
        /\ TurnKept(s, policy, i, q, at, k, m)
    BY DEF Running
  <1>2. PICK job : job = q[l][x]
    OBVIOUS
  <1>3. Sent(s, policy, q, r, c, at, by, k, m, n, l, x, job)
    BY <1>2, DispatchSends
  <1>4. PICK D : D = Done(s, i, q)
    OBVIOUS
  <1>5. /\ RunsNext(policy, ToSet(s.workload), q, l, x) /\ Advance(c, at, q) \in 0 .. Len(c) - 1
        /\ SentOut(s, i, q, r, l, x) /\ LeavesAfter(s, D, job)
        /\ k = Cardinality(D) /\ k \in 0 .. Len(s.workload) - 1
        /\ Recorded(m, n, job, k - job.created_at)
    BY <1>3, <1>4 DEF Sent
  <1>6. /\ Held(s, i, r) /\ Done(s, i, r) = D \cup {job}
        /\ job \in Accepted(s, i) \ D
        /\ SizeOf(r) \in Nat /\ SizeOf(q) = SizeOf(r) + 1
    BY <1>2, <1>4, <1>5 DEF SentOut
  <1>7. k \in Nat /\ k + 1 = Cardinality(D \cup {job})
    <2>1. Cardinality(D \cup {job}) = Cardinality(D) + 1
      BY <1>5, FS_AddElement DEF LeavesAfter
    <2>2. Len(s.workload) \in Nat
      BY <1>1, SetupIs
    <2>3. QED
      BY <1>5, <2>1, <2>2
  <1>8. Clocked(s, i, r, k + 1)
    BY <1>6, <1>7 DEF Clocked
  <1>9. InOrder(policy, s.weights, ToSet(s.workload), c, Advance(c, at, q), r)
    <2>1. PICK J : J = ToSet(s.workload)
      OBVIOUS
    <2>2. q \in [Lanes -> Seq(J)] /\ InOwnLane(policy, q)
      BY <1>1, <2>1 DEF InOrder
    <2>3. l \in Lanes /\ x \in 1 .. Len(q[l])
      BY <1>5 DEF RunsNext
    <2>4. r \in [Lanes -> Seq(J)] /\ Removed(q, r, l, x)
      BY <1>5, <2>1 DEF SentOut
    <2>5. InOwnLane(policy, r)
      BY <2>2, <2>3, <2>4, RemoveKeepsLanes
    <2>6. QED
      BY <1>1, <1>5, <2>1, <2>4, <2>5 DEF InOrder
  <1>10. DepthKept(r, n)
    <2>1. m \in MetricsType
      BY <1>1 DEF Tallied
    <2>2. m.dispatched \in Nat
      BY <2>1 DEF MetricsType
    <2>3. n.accepted = m.accepted /\ n.depth_peak = m.depth_peak /\ n.dispatched = m.dispatched + 1
      BY <1>5 DEF Recorded
    <2>4. m.accepted = m.dispatched + SizeOf(q) /\ m.depth_peak = m.accepted
      BY <1>1 DEF DepthKept
    <2>5. m.dispatched + SizeOf(q) = (m.dispatched + 1) + SizeOf(r)
      BY <1>6, <2>2
    <2>6. QED
      BY <2>3, <2>4, <2>5 DEF DepthKept
  <1>11. UrgentFirst(s, policy, i, r)
    <2>1. InOwnLane(policy, q) /\ \A any \in ToSet(s.workload) : Comparable(any)
      BY <1>1 DEF InOrder
    <2>2. Accepted(s, i) \subseteq ToSet(s.workload)
      BY <1>1, AcceptedIs
    <2>3. QED
      BY <1>1, <1>5, <2>1, <2>2, UrgentStays
  <1>12. policy = "priority" => \A other \in D : other.priority >= job.priority
    BY <1>1, <1>4, <1>6 DEF UrgentFirst
  <1>13. ASSUME policy \in PerTenant
         PROVE  /\ InTurn(s, n, D \cup {job})
                /\ TurnKept(s, policy, i, r, Advance(c, at, q), k + 1, n)
    <2>1. m \in MetricsType /\ InTurn(s, m, D)
      BY <1>1, <1>4, <1>13 DEF Tallied
    <2>2. l = NextTenant(c, at, q)
      BY DEF Dispatches
    <2>3. QED
      BY <1>1, <1>3, <1>4, <1>13, <2>1, <2>2, TurnStays
  <1>14. TurnKept(s, policy, i, r, Advance(c, at, q), k + 1, n)
    <2>1. CASE policy \in PerTenant
      BY <1>13, <2>1
    <2>2. CASE policy \notin PerTenant
      BY <2>2 DEF TurnKept
    <2>3. QED
      BY <2>1, <2>2
  <1>15. Tallied(s, policy, n, i, D \cup {job})
    <2>1. Recorded(m, n, job, Cardinality(D) - job.created_at) /\ Tallied(s, policy, m, i, D)
      BY <1>1, <1>4, <1>5
    <2>2. policy \in PerTenant => InTurn(s, n, D \cup {job})
      BY <1>13
    <2>3. QED
      BY <1>1, <1>5, <1>12, <2>1, <2>2, DispatchKeepsTally
  <1>16. QED
    BY <1>1, <1>6, <1>8, <1>9, <1>10, <1>11, <1>14, <1>15 DEF Running

(* An empty scheduler has dispatched all that was accepted.                 *)
LEMMA AllDone ==
    ASSUME NEW s, NEW policy, NEW i, NEW q, NEW c, NEW at, NEW by, NEW k, NEW m,
           Running(s, policy, i, q, c, at, by, k, m), i = Len(s.workload), SizeOf(q) = 0
    PROVE  Tallied(s, policy, m, Len(s.workload), Accepted(s, Len(s.workload)))
  <1>1. IsFiniteSet(Places(q)) /\ Tallied(s, policy, m, i, Done(s, i, q))
    BY DEF Running, Held
  <1>2. Places(q) = {}
    BY <1>1, FS_EmptySet DEF SizeOf
  <1>3. \A job : Filling(q, job) = {}
    BY <1>2 DEF Filling
  <1>4. Cardinality({}) = 0
    BY FS_EmptySet
  <1>5. Done(s, i, q) = Accepted(s, i)
    BY <1>3, <1>4 DEF Done
  <1>6. QED
    BY <1>1, <1>5

(***************************************************************************)
(* The steps of the script.                                                *)
(***************************************************************************)

(* The four runs and their order.                                           *)
LEMMA RunsAre ==
    /\ Len(RunOrder) = 4
    /\ \A n \in 1 .. 4 : RunOrder[n] \in {"fifo", "priority", "weighted_rr", "composed"}
    /\ \A n \in 1 .. 4 : \A k \in 1 .. n - 1 : RunOrder[k] # RunOrder[n]
  BY DEF RunOrder

(* All four runs answer an offer alike.                                     *)
LEMMA HarnessIs ==
    ASSUME turn \in 1 .. 4, NEW job
    PROVE  HarnessAdmission(job) = AnswerIs(setup, queues, job)
  <1>1. PICK p \in {"fifo", "priority", "weighted_rr", "composed"} : p = Policy
    BY RunsAre DEF Policy
  <1> DEFINE full == SizeOf(queues) >= setup.capacity
  <1>2. Size >= setup.capacity <=> full
    BY DEF Size
  <1>3. Admission(Policy, job, Size, setup.capacity) = AdmissionIf(p, job, full)
    BY <1>1, <1>2 DEF Admission, Size
  <1>4. CASE p = "composed"
    <2>1. HarnessAdmission(job) = AdmissionIf(p, job, full)
      BY <1>1, <1>3, <1>4 DEF HarnessAdmission
    <2>2. Invalid(p, job) <=> ~Valid(job)
      BY <1>4 DEF Invalid, Valid
    <2>3. AdmissionIf(p, job, full) = IF ~Valid(job) THEN "rejected_invalid"
                                      ELSE IF full THEN "rejected_full" ELSE "accepted"
      BY <1>4, <2>2 DEF AdmissionIf
    <2>4. QED
      BY <1>2, <2>1, <2>3 DEF AnswerIs
  <1>5. CASE p # "composed"
    <2>1. CASE ~Valid(job)
      <3>1. HarnessAdmission(job) = "rejected_invalid"
        BY <1>1, <1>5, <2>1 DEF HarnessAdmission, Valid
      <3>2. QED
        BY <2>1, <3>1 DEF AnswerIs
    <2>2. CASE Valid(job) /\ full
      <3>1. HarnessAdmission(job) = "rejected_full"
        BY <1>1, <1>2, <1>5, <2>2 DEF HarnessAdmission, Valid, Size
      <3>2. QED
        BY <1>2, <2>2, <3>1 DEF AnswerIs
    <2>3. CASE Valid(job) /\ ~full
      <3>1. HarnessAdmission(job) = AdmissionIf(p, job, full)
        BY <1>1, <1>2, <1>3, <1>5, <2>3 DEF HarnessAdmission, Valid, Size
      <3>2. ~Invalid(p, job)
        BY <1>1, <1>5 DEF Invalid
      <3>3. AdmissionIf(p, job, full) = "accepted"
        BY <1>1, <1>5, <2>3, <3>2 DEF AdmissionIf, Valid
      <3>4. QED
        BY <1>2, <2>3, <3>1, <3>3 DEF AnswerIs
    <2>4. QED
      BY <2>1, <2>2, <2>3
  <1>6. QED
    BY <1>4, <1>5

(* The first run starts.                                                    *)
LEMMA ComparisonStarts == Init => ComparisonInv
  <1> SUFFICES ASSUME Init PROVE ComparisonInv
    OBVIOUS
  <1>1. /\ setup \in Setups /\ turn = 1 /\ offered = 0 /\ queues = NoJobs
        /\ cycle = CycleOf(Policy, setup.weights) /\ pos = 0 /\ by_id = <<>> /\ tick = 0
        /\ metrics = NoMetrics /\ results = [p \in {} |-> NoMetrics]
    BY DEF Init
  <1>2. Running(setup, Policy, 0, NoJobs, cycle, 0, <<>>, 0, NoMetrics)
    BY <1>1, RunStarts
  <1>3. Running(setup, Policy, offered, queues, cycle, pos, by_id, tick, metrics)
    BY <1>1, <1>2
  <1>4. Ended(setup, results, turn)
    <2>1. DOMAIN results = {} /\ {RunOrder[j] : j \in 1 .. turn - 1} = {}
      BY <1>1
    <2>2. QED
      BY <2>1 DEF Ended
  <1>5. QED
    BY <1>1, <1>3, <1>4, RunsAre DEF ComparisonInv

(* What the invariant says of a run in progress.                            *)
LEMMA InProgress ==
    ASSUME ComparisonInv, turn <= Len(RunOrder)
    PROVE  /\ turn \in 1 .. 4 /\ setup \in Setups
           /\ Running(setup, Policy, offered, queues, cycle, pos, by_id, tick, metrics)
           /\ Ended(setup, results, turn)
  BY RunsAre DEF ComparisonInv

(* An offer keeps the invariant.                                            *)
LEMMA OfferKeeps ==
    ASSUME ComparisonInv, Offer
    PROVE  ComparisonInv'
  <1>1. /\ turn <= Len(RunOrder) /\ offered < Len(setup.workload)
        /\ setup' = setup /\ turn' = turn /\ cycle' = cycle /\ pos' = pos
        /\ tick' = tick /\ results' = results /\ offered' = offered + 1
    BY DEF Offer, Workload
  <1>2. /\ turn \in 1 .. 4 /\ Ended(setup, results, turn)
        /\ Running(setup, Policy, offered, queues, cycle, pos, by_id, tick, metrics)
    BY <1>1, InProgress
  <1>3. PICK job : job = setup.workload[offered + 1]
    OBVIOUS
  <1>4. PICK status : status = HarnessAdmission(job)
    OBVIOUS
  <1>5. /\ status = "accepted" =>
             /\ queues' = [queues EXCEPT ![Lane(Policy, job)] = Append(@, job)]
             /\ by_id' = IF Policy = "composed" THEN by_id
                         ELSE WithEntry(by_id, job.job_id, job)
        /\ status # "accepted" => queues' = queues /\ by_id' = by_id
        /\ metrics' = ObserveQueueDepth(RecordEnqueueResult(metrics, status), SizeOf(queues'))
    BY <1>3, <1>4 DEF Offer, Workload
  <1>6. Offers(setup, Policy, queues, queues', by_id, by_id', job, status)
    <2>1. status = AnswerIs(setup, queues, job)
      BY <1>2, <1>4, HarnessIs
    <2>2. QED
      BY <1>5, <2>1 DEF Offers
  <1>7. Policy' = Policy
    BY <1>1 DEF Policy
  <1>8. Running(setup, Policy, offered + 1, queues', cycle, pos, by_id', tick, metrics')
    BY <1>1, <1>2, <1>3, <1>5, <1>6, OfferRuns
  <1>9. Running(setup', Policy', offered', queues', cycle', pos', by_id', tick', metrics')
    BY <1>1, <1>7, <1>8
  <1>10. Ended(setup', results', turn')
    BY <1>1, <1>2
  <1>11. QED
    BY <1>1, <1>2, <1>9, <1>10, RunsAre DEF ComparisonInv

(* A dispatch keeps the invariant.                                          *)
LEMMA DispatchKeeps ==
    ASSUME ComparisonInv, Dispatch
    PROVE  ComparisonInv'
  <1> DEFINE l == NextTenant(cycle, pos, queues)
             x == JobIndex(Policy, queues[l])
  <1>1. /\ turn <= Len(RunOrder) /\ offered = Len(setup.workload) /\ SizeOf(queues) > 0
        /\ setup' = setup /\ turn' = turn /\ offered' = offered /\ cycle' = cycle
        /\ by_id' = by_id /\ results' = results
        /\ pos' = Advance(cycle, pos, queues) /\ tick' = tick + 1
    BY DEF Dispatch, DispatchTo, Workload, Size
  <1>2. /\ turn \in 1 .. 4 /\ Ended(setup, results, turn)
        /\ Running(setup, Policy, offered, queues, cycle, pos, by_id, tick, metrics)
    BY <1>1, InProgress
  <1>3. Dispatches(setup, Policy, queues, queues', cycle, pos, by_id, tick, metrics, metrics', l, x)
    BY DEF Dispatch, DispatchTo, Dispatches
  <1>4. Policy' = Policy
    BY <1>1 DEF Policy
  <1> HIDE DEF l, x
  <1>5. Running(setup, Policy, offered, queues', cycle, Advance(cycle, pos, queues), by_id,
                tick + 1, metrics')
    BY <1>1, <1>2, <1>3, DispatchRuns
  <1>6. Running(setup', Policy', offered', queues', cycle', pos', by_id', tick', metrics')
    BY <1>1, <1>4, <1>5
  <1>7. Ended(setup', results', turn')
    BY <1>1, <1>2
  <1>8. QED
    BY <1>1, <1>2, <1>6, <1>7, RunsAre DEF ComparisonInv

(* The end of a run keeps the invariant: its tally is complete.             *)
LEMMA FinishKeeps ==
    ASSUME ComparisonInv, Finish
    PROVE  ComparisonInv'
  <1>1. /\ turn <= Len(RunOrder) /\ offered = Len(setup.workload) /\ SizeOf(queues) = 0
        /\ results' = WithEntry(results, Policy, metrics)
        /\ setup' = setup /\ turn' = turn + 1 /\ offered' = 0 /\ queues' = NoJobs
        /\ cycle' = IF turn' <= Len(RunOrder) THEN CycleOf(RunOrder[turn'], setup.weights)
                    ELSE <<>>
        /\ pos' = 0 /\ by_id' = <<>> /\ tick' = 0 /\ metrics' = NoMetrics
    BY DEF Finish, Workload, Size
  <1>2. /\ turn \in 1 .. 4 /\ setup \in Setups /\ Ended(setup, results, turn)
        /\ Running(setup, Policy, offered, queues, cycle, pos, by_id, tick, metrics)
    BY <1>1, InProgress
  <1>3. Tallied(setup, Policy, metrics, Len(setup.workload),
                Accepted(setup, Len(setup.workload)))
    BY <1>1, <1>2, AllDone
  <1>4. Ended(setup', results', turn')
    <2>1. PICK n \in 1 .. 4 : n = turn
      BY <1>2
    <2>2. Policy = RunOrder[n]
      BY <2>1 DEF Policy
    <2>3. DOMAIN results = {RunOrder[j] : j \in 1 .. n - 1}
      BY <1>2, <2>1 DEF Ended
    <2>4. /\ DOMAIN results' = DOMAIN results \cup {Policy} /\ results'[Policy] = metrics
          /\ \A p \in DOMAIN results : p # Policy => results'[p] = results[p]
      BY <1>1 DEF WithEntry
    <2>5. 1 .. (n + 1) - 1 = (1 .. n - 1) \cup {n}
      OBVIOUS
    <2>6. DOMAIN results' = {RunOrder[j] : j \in 1 .. (n + 1) - 1}
      BY <2>2, <2>3, <2>4, <2>5
    <2>7. \A p \in DOMAIN results' :
              Tallied(setup, p, results'[p], Len(setup.workload),
                      Accepted(setup, Len(setup.workload)))
      BY <1>2, <1>3, <2>4 DEF Ended
    <2>8. QED
      BY <1>1, <2>1, <2>6, <2>7 DEF Ended
  <1>5. CASE turn' <= Len(RunOrder)
    <2>1. Policy' = RunOrder[turn']
      BY DEF Policy
    <2>2. cycle' = CycleOf(Policy', setup.weights)
      BY <1>1, <1>5, <2>1
    <2>3. Running(setup, Policy', 0, NoJobs, cycle', 0, <<>>, 0, NoMetrics)
      BY <1>2, <2>2, RunStarts
    <2>4. Running(setup', Policy', offered', queues', cycle', pos', by_id', tick', metrics')
      BY <1>1, <2>3
    <2>5. QED
      BY <1>1, <1>2, <1>4, <1>5, <2>4, RunsAre DEF ComparisonInv
  <1>6. CASE ~(turn' <= Len(RunOrder))
    BY <1>1, <1>2, <1>4, <1>6, RunsAre DEF ComparisonInv
  <1>7. QED
    BY <1>5, <1>6

(* The invariant of the script, under every step.                           *)
LEMMA ComparisonHolds == Spec => []ComparisonInv
  <1>1. ComparisonInv /\ [Next]_vars => ComparisonInv'
    <2> SUFFICES ASSUME ComparisonInv, [Next]_vars PROVE ComparisonInv'
      OBVIOUS
    <2>1. CASE Offer
      BY <2>1, OfferKeeps
    <2>2. CASE Dispatch
      BY <2>2, DispatchKeeps
    <2>3. CASE Finish
      BY <2>3, FinishKeeps
    <2>4. CASE UNCHANGED vars
      BY <2>4 DEF vars, ComparisonInv, Policy
    <2>5. QED
      BY <2>1, <2>2, <2>3, <2>4 DEF Next
  <1>2. QED
    BY <1>1, ComparisonStarts, PTL DEF Spec

(***************************************************************************)
(* The theorems.                                                           *)
(***************************************************************************)

(* The counters of a run in progress.                                       *)
AddsUp(s, i, q, k, m) ==
    /\ i \in 0 .. Len(s.workload)
    /\ \A l \in Lanes : \A x \in 1 .. Len(q[l]) : q[l][x] \in ToSet(s.workload)
    /\ k = m.dispatched
    /\ i = m.accepted + m.rejected_full + m.rejected_invalid
    /\ DepthKept(q, m)
    /\ SplitsAgree(m)

(* They add up at every step.                                               *)
LEMMA RunAddsUp ==
    ASSUME NEW s, NEW policy, NEW i, NEW q, NEW c, NEW at, NEW by, NEW k, NEW m,
           Running(s, policy, i, q, c, at, by, k, m)
    PROVE  AddsUp(s, i, q, k, m)
  <1>1. /\ s \in Setups /\ i \in 0 .. Len(s.workload) /\ Held(s, i, q) /\ DepthKept(q, m)
        /\ m \in MetricsType /\ AdmittedAs(s, m, i) /\ SplitsAgree(m)
        /\ k = m.dispatched
    BY DEF Running, Tallied, Clocked, CountsJobs
  <1>2. \A l \in Lanes : \A x \in 1 .. Len(q[l]) : q[l][x] \in ToSet(s.workload)
    BY <1>1, AcceptedIs DEF Held
  <1>3. i = m.accepted + m.rejected_full + m.rejected_invalid
    <2>1. PICK v \in Nat : v = Cardinality(ValidUpTo(s, i))
      BY <1>1, AcceptedIs
    <2>2. m.rejected_invalid = i - v /\ m.rejected_full = v - m.accepted
      BY <1>1, <2>1 DEF AdmittedAs
    <2>3. m.accepted \in Nat /\ i \in Int
      BY <1>1, SetupIs DEF MetricsType
    <2>4. QED
      BY <2>2, <2>3
  <1>4. QED
    BY <1>1, <1>2, <1>3 DEF AddsUp

(* The counters of compare_schedulers.py add up at every step, for every    *)
(* workload, capacity and weights: an offer is accepted or refused, an      *)
(* accepted job waits or is dispatched, the views by tenant and priority    *)
(* break the same totals down, and the peak is the depth it was filled to.  *)
THEOREM CountersAddUp == Spec => []MetricsAddUp
  <1>1. ComparisonInv => MetricsAddUp
    <2> SUFFICES ASSUME ComparisonInv PROVE MetricsAddUp
      OBVIOUS
    <2>1. /\ setup \in Setups /\ turn \in 1 .. Len(RunOrder) + 1
          /\ DOMAIN results = {RunOrder[j] : j \in 1 .. turn - 1}
      BY DEF ComparisonInv, Ended
    <2>2. AddsUp(setup, offered, queues, tick, metrics)
      <3>1. CASE turn <= Len(RunOrder)
        BY <3>1, InProgress, RunAddsUp
      <3>2. CASE ~(turn <= Len(RunOrder))
        <4>1. offered = 0 /\ queues = NoJobs /\ tick = 0 /\ metrics = NoMetrics
          BY <2>1, <3>2, RunsAre DEF ComparisonInv
        <4>2. PICK c : c = CycleOf("fifo", setup.weights)
          OBVIOUS
        <4>3. Running(setup, "fifo", 0, NoJobs, c, 0, <<>>, 0, NoMetrics)
          BY <2>1, <4>2, RunStarts
        <4>4. AddsUp(setup, 0, NoJobs, 0, NoMetrics)
          BY <4>3, RunAddsUp
        <4>5. QED
          BY <4>1, <4>4
      <3>3. QED
        BY <3>1, <3>2
    <2>3. TypeOK
      BY <2>1, <2>2 DEF TypeOK, AddsUp, Workload
    <2>4. QED
      BY <2>2, <2>3 DEF MetricsAddUp, AddsUp, DepthKept, SplitsAgree, Size
  <1>2. QED
    BY <1>1, ComparisonHolds, PTL

(* The creation times of accepted jobs have a sum.                          *)
LEMMA CreatedSums ==
    ASSUME NEW s \in Setups, NEW i \in 0 .. Len(s.workload),
           NEW A, A \subseteq Accepted(s, i)
    PROVE  SumOver(Created(s), A) \in Int
  <1>1. IsFiniteSet(Accepted(s, i)) /\ Accepted(s, i) \subseteq ToSet(s.workload)
    BY AcceptedIs
  <1>2. IsFiniteSet(A) /\ A \subseteq ToSet(s.workload)
    BY <1>1, FS_Subset
  <1>3. \A job \in A : Created(s)[job] \in Int
    BY <1>2, SetupIs DEF Created, Comparable
  <1>4. QED
    BY <1>2, <1>3, SumIs

(* Two tallies of the same offers and dispatches.                           *)
Alike(m, n) ==
    /\ m.accepted = n.accepted /\ m.rejected_full = n.rejected_full
    /\ m.rejected_invalid = n.rejected_invalid
    /\ m.by_tenant = n.by_tenant /\ m.by_priority = n.by_priority
    /\ m.wait = n.wait

(* They differ at most in how the wait is distributed.                      *)
LEMMA TalliesAlike ==
    ASSUME NEW s \in Setups, NEW i \in 0 .. Len(s.workload), NEW D, D = Accepted(s, i),
           NEW p, NEW m, Tallied(s, p, m, i, D), NEW q, NEW n, Tallied(s, q, n, i, D)
    PROVE  Alike(m, n)
  <1>1. /\ m \in MetricsType /\ AdmittedAs(s, m, i) /\ CountsJobs(m, D) /\ WaitsAddUp(s, m, D)
        /\ n \in MetricsType /\ AdmittedAs(s, n, i) /\ CountsJobs(n, D) /\ WaitsAddUp(s, n, D)
    BY DEF Tallied
  <1>2. /\ m.accepted = n.accepted /\ m.rejected_invalid = n.rejected_invalid
        /\ m.rejected_full = n.rejected_full
    BY <1>1 DEF AdmittedAs
  <1>3. m.by_tenant = n.by_tenant
    <2>1. PICK f \in [Tenants -> Nat] : f = m.by_tenant
      BY <1>1 DEF MetricsType
    <2>2. PICK e \in [Tenants -> Nat] : e = n.by_tenant
      BY <1>1 DEF MetricsType
    <2>3. \A t \in Tenants : f[t] = e[t]
      BY <1>1, <2>1, <2>2 DEF CountsJobs
    <2>4. QED
      BY <2>1, <2>2, <2>3
  <1>4. m.by_priority = n.by_priority
    <2>1. PICK f \in [Priorities -> Nat] : f = m.by_priority
      BY <1>1 DEF MetricsType
    <2>2. PICK e \in [Priorities -> Nat] : e = n.by_priority
      BY <1>1 DEF MetricsType
    <2>3. \A x \in Priorities : f[x] = e[x]
      BY <1>1, <2>1, <2>2 DEF CountsJobs
    <2>4. QED
      BY <2>1, <2>2, <2>3
  <1>5. m.wait = n.wait
    <2>1. PICK a \in Int : a = SumOver(Created(s), D)
      BY CreatedSums
    <2>2. m.wait \in Int /\ n.wait \in Int
      BY <1>1 DEF MetricsType
    <2>3. m.wait + a = n.wait + a
      BY <1>1, <2>1 DEF WaitsAddUp, WaitInAll
    <2>4. QED
      BY <2>2, <2>3
  <1>6. QED
    BY <1>2, <1>3, <1>4, <1>5 DEF Alike

(* The runs that are over did the same work, whatever the workload: a       *)
(* policy decides the order, and so how long each job waits, but not who is *)
(* accepted nor the wait in total.                                          *)
THEOREM PoliciesDoSameWork == Spec => []SameWork
  <1>1. ComparisonInv => SameWork
    <2> SUFFICES ASSUME ComparisonInv, NEW p \in DOMAIN results, NEW q \in DOMAIN results,
                        NEW f \in {"accepted", "rejected_full", "rejected_invalid",
                                   "by_tenant", "by_priority", "wait"}
                 PROVE  results[p][f] = results[q][f]
      BY DEF SameWork
    <2>1. setup \in Setups /\ Ended(setup, results, turn)
      BY DEF ComparisonInv
    <2>2. PICK i \in 0 .. Len(setup.workload) : i = Len(setup.workload)
      BY <2>1, SetupIs
    <2>3. PICK D : D = Accepted(setup, i)
      OBVIOUS
    <2>4. Tallied(setup, p, results[p], i, D) /\ Tallied(setup, q, results[q], i, D)
      BY <2>1, <2>2, <2>3 DEF Ended
    <2>5. Alike(results[p], results[q])
      BY <2>1, <2>3, <2>4, TalliesAlike
    <2>6. QED
      BY <2>5 DEF Alike
  <1>2. QED
    BY <1>1, ComparisonHolds, PTL

(* The jobs of a tenant wait as long in total under the composed scheduler  *)
(* as under weighted round robin: the turns of the tenants depend on the    *)
(* weights and on how many jobs each has, not on the order within a lane.   *)
THEOREM PrioritiesStayInside == Spec => []TenantsUnaffected
  <1>1. ComparisonInv => TenantsUnaffected
    <2> SUFFICES ASSUME ComparisonInv, {"weighted_rr", "composed"} \subseteq DOMAIN results
                 PROVE  results["weighted_rr"].wait_by_tenant = results["composed"].wait_by_tenant
      BY DEF TenantsUnaffected
    <2>1. setup \in Setups /\ Ended(setup, results, turn)
      BY DEF ComparisonInv
    <2>2. PICK i \in 0 .. Len(setup.workload) : i = Len(setup.workload)
      BY <2>1, SetupIs
    <2>3. PICK D : D = Accepted(setup, i)
      OBVIOUS
    <2>4. PICK m : m = results["weighted_rr"]
      OBVIOUS
    <2>5. PICK n : n = results["composed"]
      OBVIOUS
    <2>6. Tallied(setup, "weighted_rr", m, i, D) /\ Tallied(setup, "composed", n, i, D)
      BY <2>1, <2>2, <2>3, <2>4, <2>5 DEF Ended
    <2>7. m \in MetricsType /\ n \in MetricsType /\ InTurn(setup, m, D) /\ InTurn(setup, n, D)
      BY <2>6 DEF Tallied, PerTenant
    <2>8. [t \in Tenants |-> TenantWait(setup, m, D, t)]
            = [t \in Tenants |-> TenantWait(setup, n, D, t)]
      BY <2>7 DEF InTurn
    <2>9. \A t \in Tenants : TenantWait(setup, m, D, t) = TenantWait(setup, n, D, t)
      BY <2>8
    <2>10. PICK f \in [Tenants -> Int] : f = m.wait_by_tenant
      BY <2>7 DEF MetricsType
    <2>11. PICK e \in [Tenants -> Int] : e = n.wait_by_tenant
      BY <2>7 DEF MetricsType
    <2>12. ASSUME NEW t \in Tenants PROVE f[t] = e[t]
      <3>1. OfTenant(D, t) \subseteq D
        BY DEF OfTenant
      <3>2. PICK a \in Int : a = SumOver(Created(setup), OfTenant(D, t))
        BY <2>1, <2>3, <3>1, CreatedSums
      <3>3. f[t] + a = e[t] + a
        BY <2>9, <2>10, <2>11, <3>2 DEF TenantWait
      <3>4. f[t] \in Int /\ e[t] \in Int
        OBVIOUS
      <3>5. QED
        BY <3>3, <3>4
    <2>13. f = e
      BY <2>12
    <2>14. QED
      BY <2>4, <2>5, <2>10, <2>11, <2>13
  <1>2. QED
    BY <1>1, ComparisonHolds, PTL

(* The jobs of any priority or a higher one wait least, in total, under the *)
(* priority scheduler: there they go first, and n jobs cannot be dispatched *)
(* earlier than at the first n ticks.                                       *)
THEOREM PriorityServesUrgent == Spec => []UrgentWaitLeast
  <1>1. ComparisonInv => UrgentWaitLeast
    <2> SUFFICES ASSUME ComparisonInv, "priority" \in DOMAIN results,
                        NEW q \in DOMAIN results, NEW p \in Priorities
                 PROVE  SumOver(results["priority"].wait_by_priority, UrgentLevels(p))
                          <= SumOver(results[q].wait_by_priority, UrgentLevels(p))
      BY DEF UrgentWaitLeast, SumOver, UrgentLevels
    <2>1. setup \in Setups /\ Ended(setup, results, turn)
      BY DEF ComparisonInv
    <2>2. PICK i \in 0 .. Len(setup.workload) : i = Len(setup.workload)
      BY <2>1, SetupIs
    <2>3. PICK D : D = Accepted(setup, i)
      OBVIOUS
    <2>4. PICK m : m = results["priority"]
      OBVIOUS
    <2>5. PICK n : n = results[q]
      OBVIOUS
    <2>6. Tallied(setup, "priority", m, i, D) /\ Tallied(setup, q, n, i, D)
      BY <2>1, <2>2, <2>3, <2>4, <2>5 DEF Ended
    <2>7. /\ m \in MetricsType /\ n \in MetricsType
          /\ UrgentWaitExactly(setup, m, D) /\ UrgentWaitAtLeast(setup, n, D)
      BY <2>6 DEF Tallied
    <2>8. UrgentWait(setup, n, D, p) >= UrgentWait(setup, m, D, p)
      BY <2>7 DEF UrgentWaitExactly, UrgentWaitAtLeast
    <2>9. UrgentJobs(D, p) \subseteq D
      BY DEF UrgentJobs
    <2>10. PICK a \in Int : a = SumOver(Created(setup), UrgentJobs(D, p))
      BY <2>1, <2>3, <2>9, CreatedSums
    <2>11. IsFiniteSet(UrgentLevels(p)) /\ UrgentLevels(p) \subseteq Priorities
      BY ComparisonAssumption, FS_Subset DEF UrgentLevels
    <2>12. PICK x \in Int : x = SumOver(m.wait_by_priority, UrgentLevels(p))
      <3>1. \A y \in UrgentLevels(p) : m.wait_by_priority[y] \in Int
        BY <2>7, <2>11 DEF MetricsType
      <3>2. QED
        BY <2>11, <3>1, SumIs
    <2>13. PICK z \in Int : z = SumOver(n.wait_by_priority, UrgentLevels(p))
      <3>1. \A y \in UrgentLevels(p) : n.wait_by_priority[y] \in Int
        BY <2>7, <2>11 DEF MetricsType
      <3>2. QED
        BY <2>11, <3>1, SumIs
    <2>14. z + a >= x + a
      BY <2>8, <2>10, <2>12, <2>13 DEF UrgentWait
    <2>15. x <= z
      BY <2>14
    <2>16. QED
      BY <2>4, <2>5, <2>12, <2>13, <2>15
  <1>2. QED
    BY <1>1, ComparisonHolds, PTL
=============================================================================
