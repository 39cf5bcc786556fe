----------------------------- MODULE JobMetrics -----------------------------
(***************************************************************************)
(* The queue-wait figures of control_plane/kernelq/job_metrics.py, over a  *)
(* table of job rows.  Averages are left out, and so are completion times, *)
(* which need updated_at.                                                  *)
(***************************************************************************)
EXTENDS JobRepository

CompletedStates == {"succeeded", "failed", "dead_lettered"}

Completed(table) == {j \in DOMAIN table : table[j].state \in CompletedStates}

(* Rows without dispatched_at, or with a negative wait, are passed over.   *)
Waited(table) ==
    {j \in Completed(table) : /\ table[j].dispatched_at # NULL
                              /\ table[j].dispatched_at >= table[j].created_at}

QueueWait(row) == row.dispatched_at - row.created_at

(* Mutant: rounded down.                                                    *)
NearestRankFloor(p, n) == Max({1, Min({(p * n) \div 100, n})})

(* ceil(p / 100 * n), kept within 1 .. n.                                  *)
NearestRank(p, n) == Max({1, Min({(p * n + 99) \div 100, n})})

(* The value at that place when the waits are sorted, 0 if there is none.  *)
QueueWaitPercentile(table, p) ==
    LET waited == Waited(table)
        UpTo(v) == Cardinality({j \in waited : QueueWait(table[j]) <= v})
        rank == NearestRank(p, Cardinality(waited))
    IN  IF waited = {} THEN 0
        ELSE Min({QueueWait(table[j]) : j \in {k \in waited : UpTo(QueueWait(table[k])) >= rank}})
=============================================================================
