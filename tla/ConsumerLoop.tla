---------------------------- MODULE ConsumerLoop ----------------------------
(***************************************************************************)
(* The scheduling inside one consumer process (worker/consumer.py): a      *)
(* queue_loop per queue that claims into free slots and sleeps otherwise,  *)
(* the tasks it spawns, the wake-up events tasks set when they finish, and *)
(* the graceful stop.  What happens to a row while it is claimed is the    *)
(* subject of module JobQueue; here it is away, ready or running.          *)
(*                                                                         *)
(* asyncio runs one callback at a time, so everything between two awaits   *)
(* is one step.  A finished task leaves its slot only in a done callback,  *)
(* which the event loop runs after callbacks that were already due.        *)
(***************************************************************************)
EXTENDS Integers, FiniteSets

CONSTANTS
    Queues,
    Rows,
    QueueOf,      \* the queue of each row
    Concurrency,  \* slots per queue
    ClaimBatch    \* claim_batch

ASSUME RowAssumption   == IsFiniteSet(Rows)
ASSUME QueueAssumption == QueueOf \in [Rows -> Queues]
ASSUME SlotAssumption  == Concurrency \in Nat \ {0} /\ ClaimBatch \in Nat \ {0}

VARIABLES
    row,        \* "away" (not claimable now), "ready" or "running" here
    loop,       \* what each queue_loop waits for
    room,       \* batch_size of the claim in flight
    batch,      \* rows the claim returned, not spawned yet
    tasks,      \* _Slots.tasks of each queue
    task,       \* how far each spawned task got
    wake,       \* the queue's asyncio.Event
    stop,       \* the stop event
    signalled   \* history: rows a finished task of this process made ready

slotVars == <<room, batch, tasks, task>>
loopVars == <<row, loop, wake, stop, signalled, slotVars>>

\* "full" and "empty" sleep on stop, wake and a timeout; "error" on stop and a
\* timeout; "resuming" is runnable; "answered" holds a claim's answer.
LoopStage == {"resuming", "claiming", "answered", "full", "empty", "error",
              "drain", "ended"}
TaskStage == {"none", "running", "committed", "finished"}

LoopInit ==
    /\ row       = [j \in Rows |-> "away"]
    /\ loop      = [q \in Queues |-> "resuming"]
    /\ room      = [q \in Queues |-> 0]
    /\ batch     = [q \in Queues |-> {}]
    /\ tasks     = [q \in Queues |-> {}]
    /\ task      = [j \in Rows |-> "none"]
    /\ wake      = [q \in Queues |-> FALSE]
    /\ stop      = FALSE
    /\ signalled = {}

-----------------------------------------------------------------------------
(* Rows change in other processes: producers, the reaper, another host.    *)

BecomesReady(j) ==
    /\ row[j] = "away" /\ task[j] = "none"
    /\ row' = [row EXCEPT ![j] = "ready"]
    /\ UNCHANGED <<loop, wake, stop, signalled, slotVars>>

TakenElsewhere(j) ==
    /\ row[j] = "ready"
    /\ row' = [row EXCEPT ![j] = "away"]
    /\ signalled' = signalled \ {j}
    /\ UNCHANGED <<loop, wake, stop, slotVars>>

-----------------------------------------------------------------------------
(* queue_loop.                                                             *)

Smaller(a, b) == IF a < b THEN a ELSE b

Free(held) == Concurrency - Cardinality(held)

BatchSize(held) == Smaller(ClaimBatch, Free(held))

\* Mutant: the stop is not looked at while rows keep coming.
IterateOn(q, held) ==
    /\ wake' = [wake EXCEPT ![q] = FALSE]
    /\ loop' = [loop EXCEPT ![q] = IF Free(held) <= 0 THEN "full" ELSE "claiming"]
    /\ room' = [room EXCEPT ![q] = IF Free(held) <= 0 THEN @ ELSE BatchSize(held)]

\* One pass from the top of the while loop to its next await, with the tasks
\* that are in the slots then.
Iterate(q, held) ==
    \/ /\ stop
       /\ loop' = [loop EXCEPT ![q] = "drain"]
       /\ UNCHANGED <<wake, room>>
    \/ /\ ~stop
       /\ wake' = [wake EXCEPT ![q] = FALSE]
       /\ \/ /\ Free(held) <= 0
             /\ loop' = [loop EXCEPT ![q] = "full"]
             /\ UNCHANGED room
          \/ /\ Free(held) > 0
             /\ loop' = [loop EXCEPT ![q] = "claiming"]
             /\ room' = [room EXCEPT ![q] = BatchSize(held)]

\* The sleep is over.  Before an event that a finishing task set gets here,
\* the event loop has run that task's done callback.
Signal(q) ==
    /\ \/ /\ loop[q] \in {"full", "empty"}
          /\ wake[q] => \A j \in tasks[q]: task[j] # "finished"
       \/ loop[q] = "error"
    /\ loop' = [loop EXCEPT ![q] = "resuming"]
    /\ UNCHANGED <<row, wake, stop, signalled, slotVars>>

Resume(q) ==
    /\ loop[q] = "resuming"
    /\ Iterate(q, tasks[q])
    /\ UNCHANGED <<row, stop, signalled, batch, tasks, task>>

ReadyRows(q) == {j \in Rows: QueueOf[j] = q /\ row[j] = "ready"}

\* jobs.claim commits in the database.
ClaimRuns(q) ==
    /\ loop[q] = "claiming"
    /\ \E S \in SUBSET ReadyRows(q):
          /\ Cardinality(S) = Smaller(room[q], Cardinality(ReadyRows(q)))
          /\ batch' = [batch EXCEPT ![q] = S]
          /\ row'   = [j \in Rows |-> IF j \in S THEN "running" ELSE row[j]]
          /\ signalled' = signalled \ S
    /\ loop' = [loop EXCEPT ![q] = "answered"]
    /\ UNCHANGED <<wake, stop, room, tasks, task>>

ClaimFails(q) ==
    /\ loop[q] = "claiming"
    /\ loop' = [loop EXCEPT ![q] = "error"]
    /\ UNCHANGED <<row, wake, stop, signalled, slotVars>>

\* Mutant: the event is cleared on falling asleep, not before the claim.
FallsAsleepCleared(q) ==
    /\ loop' = [loop EXCEPT ![q] = "empty"]
    /\ wake' = [wake EXCEPT ![q] = FALSE]
    /\ UNCHANGED <<room, batch, tasks, task>>

FallsAsleepEmpty(q) ==
    /\ loop' = [loop EXCEPT ![q] = "empty"]
    /\ UNCHANGED <<wake, room, batch, tasks, task>>

\* Every claimed row gets a task, and the loop runs on to its next await.
Spawns(q) ==
    /\ tasks' = [tasks EXCEPT ![q] = @ \cup batch[q]]
    /\ task'  = [j \in Rows |-> IF j \in batch[q] THEN "running" ELSE task[j]]
    /\ batch' = [batch EXCEPT ![q] = {}]
    /\ Iterate(q, tasks[q] \cup batch[q])

ClaimReturns(q) ==
    /\ loop[q] = "answered"
    /\ \/ batch[q] = {} /\ FallsAsleepEmpty(q)
       \/ batch[q] # {} /\ Spawns(q)
    /\ UNCHANGED <<row, stop, signalled>>

\* After the loop ends, gather() waits for the tasks still in the slots.
Drain(q) ==
    /\ loop[q] = "drain"
    /\ \A j \in tasks[q]: task[j] \in {"finished", "none"}
    /\ loop' = [loop EXCEPT ![q] = "ended"]
    /\ UNCHANGED <<row, wake, stop, signalled, slotVars>>

-----------------------------------------------------------------------------
(* Spawned tasks.                                                          *)

\* run_job is over: the row left "running" (or its finalizer failed and the
\* reaper will see to it), and the domain effect may have queued a row.
TaskCommits(j) ==
    /\ task[j] = "running"
    /\ task' = [task EXCEPT ![j] = "committed"]
    /\ \/ row' = [row EXCEPT ![j] = "away"]
       \/ \E k \in Rows: /\ row[k] = "away" /\ task[k] = "none"
                         /\ row' = [row EXCEPT ![j] = "away", ![k] = "ready"]
    /\ UNCHANGED <<loop, wake, stop, signalled, room, batch, tasks>>

\* _wake_queues, in the finally of the task.
TaskFinishes(j) ==
    /\ task[j] = "committed"
    /\ task' = [task EXCEPT ![j] = "finished"]
    /\ wake' = [q \in Queues |-> TRUE]
    /\ signalled' = signalled \cup {k \in Rows: row[k] = "ready"}
    /\ UNCHANGED <<row, loop, stop, room, batch, tasks>>

\* The done callback: tasks.discard.
TaskLeavesSlot(j) ==
    /\ task[j] = "finished"
    /\ task'  = [task EXCEPT ![j] = "none"]
    /\ tasks' = [tasks EXCEPT ![QueueOf[j]] = @ \ {j}]
    /\ UNCHANGED <<row, loop, wake, stop, signalled, room, batch>>

Stop ==
    /\ ~stop
    /\ stop' = TRUE
    /\ UNCHANGED <<row, loop, wake, signalled, slotVars>>

-----------------------------------------------------------------------------
LoopStep(q) == \/ Signal(q) \/ Resume(q) \/ ClaimRuns(q) \/ ClaimFails(q)
               \/ ClaimReturns(q) \/ Drain(q)

SpawnedStep(j) == TaskCommits(j) \/ TaskFinishes(j) \/ TaskLeavesSlot(j)

LoopNext ==
    \/ \E q \in Queues: LoopStep(q)
    \/ \E j \in Rows: SpawnedStep(j) \/ BecomesReady(j) \/ TakenElsewhere(j)
    \/ Stop

LoopSpec == LoopInit /\ [][LoopNext]_loopVars

\* Runnable callbacks run, sleeps and handlers have timeouts, and a database
\* call returns or fails.  Nothing forces a row to appear or a stop.
LoopFairness ==
    /\ \A q \in Queues: WF_loopVars(LoopStep(q))
    /\ \A j \in Rows: WF_loopVars(SpawnedStep(j))

LoopLiveSpec == LoopSpec /\ LoopFairness

-----------------------------------------------------------------------------
LoopTypeOK ==
    /\ row       \in [Rows -> {"away", "ready", "running"}]
    /\ loop      \in [Queues -> LoopStage]
    /\ room      \in [Queues -> Nat]
    /\ batch     \in [Queues -> SUBSET Rows]
    /\ tasks     \in [Queues -> SUBSET Rows]
    /\ task      \in [Rows -> TaskStage]
    /\ wake      \in [Queues -> BOOLEAN]
    /\ stop      \in BOOLEAN
    /\ signalled \subseteq Rows

\* A queue never holds more rows than it has slots, counting the rows a claim
\* returned that have no task yet: the size of a claim is fixed before the
\* await, and nothing but the claim can fill slots during it.
SlotsBounded ==
    \A q \in Queues: Cardinality(tasks[q] \cup batch[q]) <= Concurrency

\* No claimed row is dropped: it is about to be spawned or its task runs, also
\* when the stop comes while the claim is in flight.
ClaimedRowHasTask ==
    \A j \in Rows: row[j] = "running" =>
        \/ j \in batch[QueueOf[j]] /\ loop[QueueOf[j]] = "answered"
        \/ j \in tasks[QueueOf[j]] /\ task[j] = "running"

\* No lost wake-up (comments at worker/consumer.py:367 and :450): a loop that
\* found nothing does not sleep through a row that was ready when a task of
\* this process finished.
NoLostWakeup ==
    \A q \in Queues: loop[q] = "empty" /\ ~wake[q]
        => ReadyRows(q) \cap signalled = {}

\* A loop that ended left no task behind.
EndedLoopIsDrained ==
    \A q \in Queues: loop[q] = "ended" =>
        /\ batch[q] = {}
        /\ \A j \in Rows: QueueOf[j] = q => task[j] \in {"finished", "none"}

\* The stop reaches every loop, wherever it waits, and all of them end.
StopEnds == stop ~> \A q \in Queues: loop[q] = "ended"
=============================================================================
