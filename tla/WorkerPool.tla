----------------------------- MODULE WorkerPool -----------------------------
(***************************************************************************)
(* One run of the Go worker process, cmd/consumer: KafkaConsumer.Run polls *)
(* the dispatch topic and hands decoded messages to the bounded channel of *)
(* a WorkerPool, whose goroutines call the handler; both sides evaluate    *)
(* the queue depth against two watermarks (maybeApplyBackpressure) without *)
(* a common lock; a signal ends the poll loop and the pool is drained.     *)
(*                                                                         *)
(* A message is its Kafka offset; all of them are in one partition.  What  *)
(* Handle does inside is Pipeline's business: here it succeeds (a skipped  *)
(* duplicate included) or returns an error.  The Kafka client commits what *)
(* Poll has handed out on a timer of its own; nothing here depends on it.  *)
(***************************************************************************)
EXTENDS Naturals, Sequences, FiniteSets

CONSTANTS
    Workers,        \* goroutines of the pool
    Poller,         \* the goroutine of Run
    QueueCapacity,  \* buffer of workCh
    Backpressure,   \* KERNELQ_WORKER_BACKPRESSURE_ENABLED
    HighPercent,    \* highWatermarkRatio, lowWatermarkRatio, in percent
    LowPercent,
    LastOffset      \* bound: messages in the partition

(* NewWorkerPool replaces a worker count that is not positive.              *)
ASSUME WorkersAssumption == IsFiniteSet(Workers) /\ Workers # {}
ASSUME PollerAssumption == Poller \notin Workers
ASSUME CapacityAssumption == QueueCapacity \in Nat \ {0} /\ LastOffset \in Nat
(* validWatermarkRatios                                                    *)
ASSUME RatioAssumption ==
    /\ Backpressure \in BOOLEAN
    /\ HighPercent \in 1 .. 100
    /\ LowPercent \in 0 .. 99
    /\ LowPercent < HighPercent

VARIABLES
    position,   \* next offset Poll returns
    canceled,   \* ctx.Err() # nil
    poll,       \* where the poll goroutine is, and the message in its hands
    queue,      \* workCh
    closed,     \* close(workCh) has happened
    worker,     \* where each pool goroutine is
    gate,       \* where each goroutine is inside maybeApplyBackpressure
    paused,     \* InMemoryPauseResumeController.paused
    stats,      \* ConsumerStats
    dropped,    \* history: messages given up after the second full queue
    discarded,  \* history: messages polled and thrown away on shutdown
    finished    \* history: messages handled or offered to the dead-letter topic

vars == <<position, canceled, poll, queue, closed, worker, gate, paused,
          stats, dropped, discarded, finished>>

Offsets == 1 .. LastOffset
Goroutines == Workers \cup {Poller}
NoMsg == 0

Stats == [MessagesSeen : Nat, MessagesProcessed : Nat, MessageErrors : Nat,
          WorkItemsEnqueued : Nat, WorkQueueFullErrors : Nat,
          DeadLettersPublished : Nat, DeadLetterPublishErrors : Nat]

PollStates == [pc : {"top", "poll", "decode", "enqueue", "sleep", "dead_letter",
                     "returning", "waiting", "stopped"},
               msg : Offsets \cup {NoMsg}]
WorkerStates == [pc : {"idle", "working", "dead_letter", "exited"},
                 msg : Offsets \cup {NoMsg}]
GateStates == [pc : {"off", "depth", "may_pause", "may_resume", "pausing", "resuming"},
               depth : 0 .. QueueCapacity]

TypeOK ==
    /\ position \in 1 .. LastOffset + 1
    /\ canceled \in BOOLEAN
    /\ poll \in PollStates
    /\ queue \in Seq(Offsets)
    /\ Len(queue) <= QueueCapacity
    /\ closed \in BOOLEAN
    /\ worker \in [Workers -> WorkerStates]
    /\ gate \in [Goroutines -> GateStates]
    /\ paused \in BOOLEAN
    /\ stats \in Stats
    /\ dropped \subseteq Offsets
    /\ discarded \subseteq Offsets
    /\ finished \subseteq Offsets

Off == [pc |-> "off", depth |-> 0]
IdleWorker == [pc |-> "idle", msg |-> NoMsg]
At(pc) == [pc |-> pc, msg |-> NoMsg]

Init ==
    /\ position = 1
    /\ canceled = FALSE
    /\ poll = At("top")
    /\ queue = <<>>
    /\ closed = FALSE
    /\ worker = [w \in Workers |-> IdleWorker]
    /\ gate = [g \in Goroutines |-> Off]
    /\ paused = FALSE
    /\ stats = [MessagesSeen |-> 0, MessagesProcessed |-> 0, MessageErrors |-> 0,
                WorkItemsEnqueued |-> 0, WorkQueueFullErrors |-> 0,
                DeadLettersPublished |-> 0, DeadLetterPublishErrors |-> 0]
    /\ dropped = {}
    /\ discarded = {}
    /\ finished = {}

(***************************************************************************)
(* maybeApplyBackpressure.  Its caller goes on when the gate is off again. *)
(* Depth, IsPaused (twice) and Pause or Resume are separate steps.         *)
(***************************************************************************)
CallGate(g) ==
    gate' = IF Backpressure
            THEN [gate EXCEPT ![g] = [pc |-> "depth", depth |-> 0]] ELSE gate

(* math.Ceil and math.Floor of capacity * ratio, on exact ratios.          *)
ShouldPause(depth) == depth >= (QueueCapacity * HighPercent + 99) \div 100
ShouldResume(depth) == depth <= (QueueCapacity * LowPercent) \div 100

GateDepth(g) ==
    /\ gate[g].pc = "depth"
    /\ gate' = [gate EXCEPT ![g] = [pc |-> "may_pause", depth |-> Len(queue)]]
    /\ UNCHANGED <<position, canceled, poll, queue, closed, worker, paused,
                   stats, dropped, discarded, finished>>

GateMayPause(g) ==
    /\ gate[g].pc = "may_pause"
    /\ gate' = [gate EXCEPT ![g].pc = IF ~paused /\ ShouldPause(gate[g].depth)
                                      THEN "pausing" ELSE "may_resume"]
    /\ UNCHANGED <<position, canceled, poll, queue, closed, worker, paused,
                   stats, dropped, discarded, finished>>

GateMayResume(g) ==
    /\ gate[g].pc = "may_resume"
    /\ gate' = [gate EXCEPT ![g] = IF paused /\ ShouldResume(gate[g].depth)
                                   THEN [@ EXCEPT !.pc = "resuming"] ELSE Off]
    /\ UNCHANGED <<position, canceled, poll, queue, closed, worker, paused,
                   stats, dropped, discarded, finished>>

GateSwitch(g) ==
    /\ gate[g].pc \in {"pausing", "resuming"}
    /\ paused' = (gate[g].pc = "pausing")
    /\ gate' = [gate EXCEPT ![g] = Off]
    /\ UNCHANGED <<position, canceled, poll, queue, closed, worker, stats,
                   dropped, discarded, finished>>

(***************************************************************************)
(* KafkaConsumer.Run, the poll goroutine.                                  *)
(***************************************************************************)
PollerAt(pc) == poll.pc = pc /\ gate[Poller].pc = "off"

Counted(fields) ==
    stats' = [f \in DOMAIN stats |-> IF f \in fields THEN stats[f] + 1 ELSE stats[f]]

Return == poll' = At("returning")

(* Mutant: the loop does not look at the watermarks before it polls.        *)
LoopTopUngated ==
    /\ PollerAt("top")
    /\ IF canceled THEN Return ELSE poll' = At("poll")
    /\ UNCHANGED <<position, canceled, queue, closed, worker, gate, paused, stats, dropped,
                   discarded, finished>>

LoopTop ==
    /\ PollerAt("top")
    /\ IF canceled
       THEN Return /\ UNCHANGED gate
       ELSE poll' = At("poll") /\ CallGate(Poller)
    /\ UNCHANGED <<position, canceled, queue, closed, worker, paused, stats, dropped,
                   discarded, finished>>

(* Poll hands out the next message, whatever paused says; after a signal   *)
(* it is thrown away.                                                      *)
PollMessage ==
    /\ PollerAt("poll")
    /\ position <= LastOffset
    /\ position' = position + 1
    /\ IF canceled
       THEN /\ discarded' = discarded \cup {position}
            /\ Return
            /\ UNCHANGED stats
       ELSE /\ poll' = [pc |-> "decode", msg |-> position]
            /\ Counted({"MessagesSeen"})
            /\ UNCHANGED discarded
    /\ UNCHANGED <<canceled, queue, closed, worker, gate, paused, dropped, finished>>

PollTimeout ==
    /\ PollerAt("poll")
    /\ IF canceled THEN Return ELSE poll' = At("top")
    /\ UNCHANGED <<position, canceled, queue, closed, worker, gate, paused, stats,
                   dropped, discarded, finished>>

(* A kafka.Error ends Run, as a signal does.                               *)
PollError ==
    /\ PollerAt("poll")
    /\ Return
    /\ UNCHANGED <<position, canceled, queue, closed, worker, gate, paused, stats,
                   dropped, discarded, finished>>

(* ParseDispatchEvent.                                                     *)
Decode(valid) ==
    /\ PollerAt("decode")
    /\ IF valid
       THEN poll' = [poll EXCEPT !.pc = "enqueue"] /\ UNCHANGED stats
       ELSE poll' = [poll EXCEPT !.pc = "dead_letter"] /\ Counted({"MessageErrors"})
    /\ UNCHANGED <<position, canceled, queue, closed, worker, gate, paused,
                   dropped, discarded, finished>>

(* Mutant: the buffer is one larger than the capacity.                      *)
SendOneMore ==
    /\ Len(queue) <= QueueCapacity
    /\ queue' = Append(queue, poll.msg)
    /\ poll' = At("top")
    /\ Counted({"WorkItemsEnqueued"})
    /\ CallGate(Poller)
    /\ UNCHANGED dropped

(* The non-blocking send of pool.Enqueue and what follows a success.       *)
Send ==
    /\ Len(queue) < QueueCapacity
    /\ queue' = Append(queue, poll.msg)
    /\ poll' = At("top")
    /\ Counted({"WorkItemsEnqueued"})
    /\ CallGate(Poller)
    /\ UNCHANGED dropped

(* Mutant: the sleep and the second try stand after the if block, so that a *)
(* message accepted at once is sent again.                                  *)
EnqueueTwice ==
    /\ PollerAt("enqueue")
    /\ poll' = [poll EXCEPT !.pc = "sleep"]
    /\ IF Len(queue) < QueueCapacity
       THEN queue' = Append(queue, poll.msg) /\ UNCHANGED stats
       ELSE Counted({"WorkQueueFullErrors"}) /\ UNCHANGED queue
    /\ UNCHANGED <<position, canceled, closed, worker, gate, paused, dropped, discarded,
                   finished>>

Enqueue ==
    /\ PollerAt("enqueue")
    /\ \/ Send
       \/ /\ Len(queue) = QueueCapacity
          /\ poll' = [poll EXCEPT !.pc = "sleep"]
          /\ Counted({"WorkQueueFullErrors"})
          /\ UNCHANGED <<queue, gate, dropped>>
    /\ UNCHANGED <<position, canceled, closed, worker, paused, discarded,
                   finished>>

(* 50 ms later: once more, or never.                                       *)
EnqueueAgain ==
    /\ PollerAt("sleep")
    /\ \/ Send
       \/ /\ Len(queue) = QueueCapacity
          /\ poll' = At("top")
          /\ dropped' = dropped \cup {poll.msg}
          /\ UNCHANGED <<queue, gate, stats>>
    /\ UNCHANGED <<position, canceled, closed, worker, paused, discarded,
                   finished>>

(* handleProcessingErrorWithWorker on the poll goroutine.                  *)
PollerDeadLetters(published) ==
    /\ PollerAt("dead_letter")
    /\ poll' = At("top")
    /\ Counted(IF published THEN {"DeadLettersPublished"} ELSE {"DeadLetterPublishErrors"})
    /\ finished' = finished \cup {poll.msg}
    /\ UNCHANGED <<position, canceled, queue, closed, worker, gate, paused,
                   dropped, discarded>>

(* Mutant: Shutdown waits without closing the channel.                      *)
ShutdownUnclosed ==
    /\ PollerAt("returning")
    /\ poll' = At("waiting")
    /\ UNCHANGED <<position, canceled, queue, closed, worker, gate, paused, stats,
                   dropped, discarded, finished>>

(* The deferred pool.Shutdown(): close(workCh), then wg.Wait().            *)
Shutdown ==
    /\ PollerAt("returning")
    /\ closed' = TRUE
    /\ poll' = At("waiting")
    /\ UNCHANGED <<position, canceled, queue, worker, gate, paused, stats,
                   dropped, discarded, finished>>

Stopped ==
    /\ PollerAt("waiting")
    /\ \A w \in Workers : worker[w].pc = "exited"
    /\ poll' = At("stopped")
    /\ UNCHANGED <<position, canceled, queue, closed, worker, gate, paused,
                   stats, dropped, discarded, finished>>

(***************************************************************************)
(* WorkerPool.runWorker.                                                   *)
(***************************************************************************)
WorkerAt(w, pc) == worker[w].pc = pc /\ gate[w].pc = "off"

Take(w) ==
    /\ WorkerAt(w, "idle")
    /\ queue # <<>>
    /\ worker' = [worker EXCEPT ![w] = [pc |-> "working", msg |-> Head(queue)]]
    /\ queue' = Tail(queue)
    /\ UNCHANGED <<position, canceled, poll, closed, gate, paused, stats,
                   dropped, discarded, finished>>

(* Mutant: no continue after onError.                                       *)
HandleReturnsFallsThrough(w, ok) ==
    /\ WorkerAt(w, "working")
    /\ IF ok
       THEN /\ worker' = [worker EXCEPT ![w] = IdleWorker]
            /\ Counted({"MessagesProcessed"})
            /\ finished' = finished \cup {worker[w].msg}
            /\ CallGate(w)
       ELSE /\ worker' = [worker EXCEPT ![w].pc = "dead_letter"]
            /\ Counted({"MessageErrors", "MessagesProcessed"})
            /\ UNCHANGED <<gate, finished>>
    /\ UNCHANGED <<position, canceled, poll, queue, closed, paused, dropped,
                   discarded>>

(* Mutant: onError is not called, the error is only counted.                *)
HandleReturnsUnreported(w, ok) ==
    /\ WorkerAt(w, "working")
    /\ IF ok
       THEN /\ worker' = [worker EXCEPT ![w] = IdleWorker]
            /\ Counted({"MessagesProcessed"})
            /\ finished' = finished \cup {worker[w].msg}
            /\ CallGate(w)
       ELSE /\ worker' = [worker EXCEPT ![w] = IdleWorker]
            /\ Counted({"MessageErrors"})
            /\ UNCHANGED <<gate, finished>>
    /\ UNCHANGED <<position, canceled, poll, queue, closed, paused, dropped,
                   discarded>>

(* onSuccess counts and evaluates the watermarks; onError only reports.    *)
HandleReturns(w, ok) ==
    /\ WorkerAt(w, "working")
    /\ IF ok
       THEN /\ worker' = [worker EXCEPT ![w] = IdleWorker]
            /\ Counted({"MessagesProcessed"})
            /\ finished' = finished \cup {worker[w].msg}
            /\ CallGate(w)
       ELSE /\ worker' = [worker EXCEPT ![w].pc = "dead_letter"]
            /\ Counted({"MessageErrors"})
            /\ UNCHANGED <<gate, finished>>
    /\ UNCHANGED <<position, canceled, poll, queue, closed, paused, dropped,
                   discarded>>

WorkerDeadLetters(w, published) ==
    /\ WorkerAt(w, "dead_letter")
    /\ worker' = [worker EXCEPT ![w] = IdleWorker]
    /\ Counted(IF published THEN {"DeadLettersPublished"} ELSE {"DeadLetterPublishErrors"})
    /\ finished' = finished \cup {worker[w].msg}
    /\ UNCHANGED <<position, canceled, poll, queue, closed, gate, paused,
                   dropped, discarded>>

(* Mutant: a worker leaves as soon as the channel is closed.                *)
ExitAtOnce(w) ==
    /\ WorkerAt(w, "idle")
    /\ closed
    /\ worker' = [worker EXCEPT ![w] = At("exited")]
    /\ UNCHANGED <<position, canceled, poll, queue, closed, gate, paused,
                   stats, dropped, discarded, finished>>

(* range over a closed and empty channel.                                  *)
Exit(w) ==
    /\ WorkerAt(w, "idle")
    /\ closed
    /\ queue = <<>>
    /\ worker' = [worker EXCEPT ![w] = At("exited")]
    /\ UNCHANGED <<position, canceled, poll, queue, closed, gate, paused,
                   stats, dropped, discarded, finished>>

(***************************************************************************)
(* Outside: SIGINT or SIGTERM.                                             *)
(***************************************************************************)
Signal ==
    /\ ~canceled
    /\ poll.pc # "stopped"
    /\ canceled' = TRUE
    /\ UNCHANGED <<position, poll, queue, closed, worker, gate, paused, stats,
                   dropped, discarded, finished>>

GateStep(g) == GateDepth(g) \/ GateMayPause(g) \/ GateMayResume(g) \/ GateSwitch(g)

PollerStep ==
    \/ LoopTop
    \/ PollMessage \/ PollTimeout \/ PollError
    \/ \E valid \in BOOLEAN : Decode(valid)
    \/ Enqueue \/ EnqueueAgain
    \/ \E published \in BOOLEAN : PollerDeadLetters(published)
    \/ Shutdown \/ Stopped
    \/ GateStep(Poller)

WorkerStep(w) ==
    \/ Take(w)
    \/ \E ok \in BOOLEAN : HandleReturns(w, ok)
    \/ \E published \in BOOLEAN : WorkerDeadLetters(w, published)
    \/ Exit(w)
    \/ GateStep(w)

Next ==
    \/ PollerStep
    \/ \E w \in Workers : WorkerStep(w)
    \/ Signal

Spec == Init /\ [][Next]_vars

(* Goroutines run: a blocked one aside, each takes its next step; Handle,   *)
(* Poll and the DLQ flush return (Poll and Flush have time limits).         *)
Fairness ==
    /\ WF_vars(PollerStep)
    /\ \A w \in Workers : WF_vars(WorkerStep(w))

FairSpec == Spec /\ Fairness

(***************************************************************************)
(* Safety.                                                                 *)
(***************************************************************************)
Working == {w \in Workers : worker[w].pc = "working"}
DeadLettering == {g \in Goroutines : IF g = Poller THEN poll.pc = "dead_letter"
                                     ELSE worker[g].pc = "dead_letter"}
InHand == poll.pc \in {"decode", "enqueue", "sleep"}
HandCount == IF InHand THEN 1 ELSE 0
SleepCount == IF poll.pc = "sleep" THEN 1 ELSE 0

(* What lies between the steps of the goroutines: who has a message in his  *)
(* hands, that Poll is ahead of everybody, that the channel is closed by    *)
(* the deferred Shutdown only and left by a worker only when it is empty,   *)
(* and that nothing is polled after a message was thrown away.              *)
PoolInv ==
    /\ TypeOK
    /\ poll.msg # NoMsg <=> poll.pc \in {"decode", "enqueue", "sleep", "dead_letter"}
    /\ poll.msg # NoMsg => poll.msg = position - 1
    /\ \A w \in Workers :
          /\ worker[w].msg # NoMsg <=> worker[w].pc \in {"working", "dead_letter"}
          /\ worker[w].msg < position
          /\ poll.msg # NoMsg => worker[w].msg < poll.msg
          /\ worker[w].pc = "exited" => closed /\ queue = <<>> /\ gate[w] = Off
    /\ \A i \in 1 .. Len(queue) :
          queue[i] < position /\ (poll.msg # NoMsg => queue[i] < poll.msg)
    /\ \A g \in Goroutines : gate[g].pc = "off" => gate[g] = Off
    /\ closed <=> poll.pc \in {"waiting", "stopped"}
    /\ poll.pc = "stopped" => \A w \in Workers : worker[w].pc = "exited"
    /\ discarded # {} => /\ poll.pc \in {"returning", "waiting", "stopped"}
                         /\ discarded = {position - 1}

SeenOrDiscarded == position = 1 + stats.MessagesSeen + Cardinality(discarded)
SeenBalance ==
    stats.MessagesSeen =
        stats.MessagesProcessed + stats.MessageErrors + Cardinality(dropped)
          + Len(queue) + Cardinality(Working) + HandCount
ErrorBalance ==
    stats.MessageErrors =
        stats.DeadLettersPublished + stats.DeadLetterPublishErrors
          + Cardinality(DeadLettering)
DropsCounted == Cardinality(dropped) + SleepCount <= stats.WorkQueueFullErrors

(* The shutdown summary adds up at every moment: each message seen is       *)
(* processed, failed, dropped on a full queue, or still somewhere in the    *)
(* process; each failure is on the dead-letter topic, counted as not        *)
(* published, or being published; each drop left a queue-full count.        *)
StatsAddUp == SeenOrDiscarded /\ SeenBalance /\ ErrorBalance /\ DropsCounted

(* Messages reach the handler in offset order and one goroutine each, the   *)
(* one that found the queue full and came back included.                    *)
TakenInOrder ==
    /\ \A i, k \in 1 .. Len(queue) : i < k => queue[i] < queue[k]
    /\ \A v \in Workers : worker[v].msg # NoMsg =>
          /\ \A i \in 1 .. Len(queue) : worker[v].msg < queue[i]
          /\ \A w \in Workers \ {v} : worker[w].msg # worker[v].msg

Memory ==
    LET hands == {poll.msg} \cup {worker[w].msg : w \in Workers}
    IN  {queue[i] : i \in 1 .. Len(queue)} \cup (hands \ {NoMsg})

(* Every message Poll has handed out is finished, given up on a full queue, *)
(* thrown away with the signal, or in memory, and only one of these.  The   *)
(* offsets are committed by the timer without regard to that, so a kill     *)
(* loses what is committed and in memory, and nothing else.                 *)
NoneLostAlive ==
    /\ 1 .. position - 1 = finished \cup dropped \cup discarded \cup Memory
    /\ finished \cap (dropped \cup discarded \cup Memory) = {}
    /\ dropped \cap (discarded \cup Memory) = {}
    /\ discarded \cap Memory = {}

(* Run returns with nothing left behind: the channel is empty, no goroutine *)
(* is at work, and of all the messages polled only the one that came with   *)
(* the signal was thrown away.                                              *)
DrainedAtStop ==
    poll.pc = "stopped" =>
        /\ queue = <<>>
        /\ \A w \in Workers : worker[w].pc = "exited" /\ gate[w] = Off
        /\ stats.MessagesSeen = stats.MessagesProcessed + stats.MessageErrors
                                  + Cardinality(dropped)
        /\ Cardinality(discarded) <= 1
        /\ \A m \in discarded : m = position - 1

(***************************************************************************)
(* Liveness, under FairSpec.                                               *)
(***************************************************************************)

(* kafka-pause-resume-backpressure.md: "pause state must not block clean    *)
(* exit"; a signal ends the process, whatever the queue and the gates.      *)
ShutdownCompletes == canceled ~> poll.pc = "stopped"

(* What was accepted into the queue is handled or dead-lettered, although   *)
(* the signal may come first and the poll loop may end with an error.       *)
QueuedIsHandled ==
    \A m \in Offsets : (\E i \in 1 .. Len(queue) : queue[i] = m) ~> m \in finished

(* However depth readings, pauses and resumes of the goroutines interleave, *)
(* intake is not left paused over a queue that has drained to the low       *)
(* watermark.                                                               *)
PauseIsLifted ==
    (paused /\ ShouldResume(Len(queue)))
        ~> (~paused \/ ~ShouldResume(Len(queue)) \/ poll.pc \in {"returning", "waiting", "stopped"})
=============================================================================
