----------------------- MODULE SubjectDeletionProofs -----------------------
(***************************************************************************)
(* Proofs about SubjectDeletion, for any number of requests, promotions,   *)
(* overlapping sweeps and jobs.                                            *)
(*                                                                         *)
(* The argument.  What a sweep has loaded was loaded when the account was  *)
(* gone, and gone it stays; so no sweep touches a living account.  An      *)
(* operation raises the barrier once, so one that closed it cannot find    *)
(* it raised by itself again.  Only the epoch 0 is ever captured by a      *)
(* baseline or a pipeline, and 0 is what an abort restores.                *)
(***************************************************************************)
EXTENDS SubjectDeletion, FiniteSetTheorems, TLAPS

\* An account that lives has an open barrier or one raised by a request.
LiveBarrier ==
    account = "alive" => barrier.state # "deleted" /\ barrier.op \notin Promotions

\* A raised or closed barrier names its operation.
BarrierNamesOperation == barrier.state # "active" => barrier.op \in Ops

\* What a sweep works on was loaded from an account that is gone.
SweepsOnlyGone ==
    \A s \in Sweepers: sweeper[s].stage = "loaded" =>
        account = "gone" /\ sweeper[s].op \in Ops

\* Pipeline and baseline hold the first epoch or none, and so does a barrier
\* that is open over a living account.
FirstEpoch ==
    /\ pipeline \in {NoEpoch, 0} /\ baseline \in {NoEpoch, 0}
    /\ account = "alive" /\ barrier.state = "active" => barrier.epoch = 0

Closings(op) == {i \in DOMAIN ledger[op]: ledger[op][i] = "closed"}

\* An operation that closed the deletion has not raised the barrier again.
ClosedIsOver ==
    \A op \in Ops: Closings(op) # {} => ~(barrier.op = op /\ barrier.state = "deleting")

\* A request that has not begun has done nothing yet.
IdleIsUnused ==
    \A r \in Requests: request[r] = "idle" => Closings(r) = {} /\ barrier.op # r

\* A promotion that was used is in force, or was.
PromotedIsGone ==
    \A p \in Promotions: Closings(p) # {} => account = "gone" /\ barrier.state # "active"

ClosedOnce == \A op \in Ops: \A i, k \in Closings(op): i = k

IInv ==
    /\ TypeOK
    /\ LiveBarrier
    /\ BarrierNamesOperation
    /\ SweepsOnlyGone
    /\ FirstEpoch
    /\ ClosedIsOver
    /\ IdleIsUnused
    /\ PromotedIsGone
    /\ ClosedOnce

-----------------------------------------------------------------------------
(* Types *)

\* What recording an event does to the ledger.
LEMMA RecordsOne ==
  ASSUME TypeOK, NEW op \in Ops, NEW event \in Event, Records(op, event)
  PROVE  /\ ledger' \in [Ops -> Seq(Event)]
         /\ \A o \in Ops \ {op}: ledger'[o] = ledger[o]
         /\ ledger'[op] = Append(ledger[op], event)
  BY DEF Records, TypeOK

\* Sweeping records an event of the sweep's operation or nothing, and touches
\* barrier and vectors only.
LEMMA SweepTyped ==
  ASSUME TypeOK, SweepsOnlyGone, NEW s \in Sweepers, Sweep(s)
  PROVE  /\ ledger' \in [Ops -> Seq(Event)] /\ barrier' \in Barrier
         /\ vectors' \in Nat /\ sweeper' \in [Sweepers -> Sweeper]
<1> DEFINE op == sweeper[s].op
           n  == sweeper[s].empties
<1>1. op \in Ops /\ account = "gone"
  BY DEF Sweep, SweepsOnlyGone
<1>2. sweeper' \in [Sweepers -> Sweeper]
  BY DEF Sweep, TypeOK, IdleSweeper, Sweeper
<1>3. CASE SweptSome(op)
  BY <1>1, <1>2, <1>3, RecordsOne, SweepAssumption DEF SweptSome, TypeOK, Event
<1>4. CASE CountedEmpty(op, n)
  BY <1>1, <1>2, <1>4, RecordsOne DEF CountedEmpty, TypeOK, Event
<1>5. CASE EnoughEmpty(op, n)
  <2>1. CASE Close(op)
    <3>1. barrier' \in Barrier
      BY <2>1 DEF Close, TypeOK, Barrier
    <3> QED BY <1>1, <1>2, <1>5, <2>1, <3>1, RecordsOne DEF EnoughEmpty, Close, TypeOK, Event
  <2>2. CASE UNCHANGED <<barrier, ledger>>
    BY <1>2, <1>5, <2>2 DEF EnoughEmpty, TypeOK
  <2> QED BY <1>5, <2>1, <2>2 DEF EnoughEmpty
<1> QED BY <1>3, <1>4, <1>5 DEF Sweep

\* The ledger of an operation is finite, and so is every part of it.
LEMMA EventsFinite ==
  ASSUME TypeOK, NEW op \in Ops, NEW events \in SUBSET (DOMAIN ledger[op])
  PROVE  IsFiniteSet(events)
<1>1. DOMAIN ledger[op] = 1 .. Len(ledger[op]) /\ Len(ledger[op]) \in Nat
  BY DEF TypeOK
<1>2. IsFiniteSet(1 .. Len(ledger[op]))
  BY <1>1, FS_Interval
<1> QED BY <1>1, <1>2, FS_Subset

\* The empty sweeps of an operation are countable.
LEMMA EmptySweepsCount == ASSUME TypeOK, NEW op \in Ops PROVE EmptySweeps(op) \in Nat
  BY EventsFinite, FS_CardinalityType DEF EmptySweeps

\* Every step keeps the types.
LEMMA TypeStep == TypeOK /\ SweepsOnlyGone /\ BarrierNamesOperation /\ [Next]_vars => TypeOK'
<1> SUFFICES ASSUME TypeOK, SweepsOnlyGone, BarrierNamesOperation, [Next]_vars PROVE TypeOK'
  OBVIOUS
<1> USE DEF sweepVars, workVars
<1>1. ASSUME NEW r \in Requests, Begin(r) PROVE TypeOK'
  <2>1. \A j \in Jobs: Redact(row[j]) \in Row
    BY DEF TypeOK, Redact, Row, Epoch
  <2>2. row' \in [Jobs -> Row] /\ barrier' \in Barrier
    BY <1>1, <2>1 DEF Begin, RaiseBarrier, TypeOK, Barrier, Ops
  <2> QED BY <1>1, <2>2 DEF Begin, TypeOK, RequestStage
<1>2. ASSUME NEW r \in Requests, DeleteAccount(r) PROVE TypeOK'
  BY <1>2 DEF DeleteAccount, TypeOK, RequestStage, Row, NoRow, Epoch
<1>3. ASSUME NEW r \in Requests, DeleteFails(r) PROVE TypeOK'
  BY <1>3 DEF DeleteFails, TypeOK, RequestStage
<1>4. ASSUME NEW r \in Requests, Abort(r) PROVE TypeOK'
  <2>1. barrier' \in Barrier
    BY <1>4 DEF Abort, RestoredEpoch, TypeOK, Barrier, Epoch
  <2> QED BY <1>4, <2>1 DEF Abort, TypeOK, RequestStage
<1>5. ASSUME NEW s \in Sweepers, SweepPromotes(s) PROVE TypeOK'
  <2>1. barrier' \in Barrier
    BY <1>5 DEF SweepPromotes, PromoteOrphan, TypeOK, Barrier, Ops
  <2> QED BY <1>5, <2>1 DEF SweepPromotes, TypeOK, Sweeper
<1>6. ASSUME NEW s \in Sweepers, SweepLoads(s) PROVE TypeOK'
  <2>1. barrier.state = "deleting" => EmptySweeps(barrier.op) \in Nat /\ barrier.op \in Ops
    BY EmptySweepsCount DEF BarrierNamesOperation
  <2>2. sweeper' \in [Sweepers -> Sweeper]
    BY <1>6, <2>1 DEF SweepLoads, TypeOK, Sweeper, IdleSweeper
  <2> QED BY <1>6, <2>2 DEF SweepLoads, TypeOK
<1>7. ASSUME NEW s \in Sweepers, Sweep(s) PROVE TypeOK'
  BY <1>7, SweepTyped DEF Sweep, TypeOK
<1>8. ASSUME NEW s \in Sweepers, SweepAborted(s) PROVE TypeOK'
  BY <1>8 DEF SweepAborted, TypeOK, Sweeper, IdleSweeper
<1>9. CASE CaptureBaseline \/ Enroll
  BY <1>9 DEF CaptureBaseline, Enroll, TypeOK, Epoch, Barrier
<1>10. ASSUME NEW j \in Jobs, EnqueueIngest(j) PROVE TypeOK'
  BY <1>10 DEF EnqueueIngest, TypeOK, Row, Epoch
<1>11. ASSUME NEW j \in Jobs, ClaimJob(j) PROVE TypeOK'
  BY <1>11 DEF ClaimJob, TypeOK, Row, Task, Epoch
<1>12. ASSUME NEW j \in Jobs, AuthorizeJob(j) PROVE TypeOK'
  <2>1. Closed(row[j]) \in Row
    BY DEF Closed, TypeOK, Row
  <2>2. row' \in [Jobs -> Row]
    BY <1>12, <2>1 DEF AuthorizeJob, TypeOK
  <2>3. task' \in [Jobs -> Task]
    <3>1. [task[j] EXCEPT !.stage = "working"] \in Task /\ NoTask \in Task
      BY DEF TypeOK, Task, NoTask, Epoch
    <3>2. \/ task' = [task EXCEPT ![j] = [task[j] EXCEPT !.stage = "working"]]
          \/ task' = [task EXCEPT ![j] = NoTask]
      BY <1>12 DEF AuthorizeJob, TypeOK
    <3> QED BY <3>1, <3>2 DEF TypeOK
  <2> QED BY <1>12, <2>2, <2>3 DEF AuthorizeJob, TypeOK
<1>13. ASSUME NEW j \in Jobs, WriteVector(j) PROVE TypeOK'
  BY <1>13 DEF WriteVector, TypeOK
<1>14. ASSUME NEW j \in Jobs, JobEnds(j) PROVE TypeOK'
  <2>1. Closed(row[j]) \in Row /\ [row[j] EXCEPT !.state = "ready"] \in Row
    BY DEF Closed, TypeOK, Row
  <2>2. \/ row' = [row EXCEPT ![j] = Closed(row[j])]
        \/ row' = [row EXCEPT ![j] = [row[j] EXCEPT !.state = "ready"]]
    BY <1>14 DEF JobEnds, TypeOK
  <2>3. row' \in [Jobs -> Row]
    BY <2>1, <2>2 DEF TypeOK
  <2>4. task' \in [Jobs -> Task]
    BY <1>14 DEF JobEnds, TypeOK, Task, NoTask, Epoch
  <2> QED BY <1>14, <2>3, <2>4 DEF JobEnds, TypeOK
<1>15. CASE UNCHANGED vars
  BY <1>15 DEF vars, TypeOK
<1> QED
  BY <1>1, <1>2, <1>3, <1>4, <1>5, <1>6, <1>7, <1>8, <1>9, <1>10, <1>11, <1>12, <1>13, <1>14,
     <1>15 DEF Next, SweepStep, JobStep

-----------------------------------------------------------------------------
(* The invariant *)

\* Recording an event adds to the closings of its operation or to none.
LEMMA RecordsClosings ==
  ASSUME TypeOK, NEW op \in Ops, NEW event \in Event, Records(op, event)
  PROVE  /\ \A o \in Ops \ {op}: Closings(o)' = Closings(o)
         /\ event # "closed" => Closings(op)' = Closings(op)
         /\ event = "closed" => Closings(op)' = Closings(op) \cup {Len(ledger[op]) + 1}
<1>1. /\ \A o \in Ops \ {op}: ledger'[o] = ledger[o]
      /\ ledger'[op] = Append(ledger[op], event) /\ ledger[op] \in Seq(Event)
  BY RecordsOne DEF TypeOK
<1>2. /\ DOMAIN ledger[op] = 1 .. Len(ledger[op]) /\ Len(ledger[op]) \in Nat
      /\ DOMAIN ledger'[op] = DOMAIN ledger[op] \cup {Len(ledger[op]) + 1}
      /\ \A i \in DOMAIN ledger[op]: ledger'[op][i] = ledger[op][i]
      /\ ledger'[op][Len(ledger[op]) + 1] = event
  BY <1>1
<1> QED BY <1>1, <1>2 DEF Closings

\* A sweep records a closing only when it closes the barrier of the operation.
LEMMA SweepCloses ==
  ASSUME IInv, NEW s \in Sweepers, Sweep(s)
  PROVE  \/ UNCHANGED barrier /\ \A o \in Ops: Closings(o)' = Closings(o)
         \/ \E op \in Ops:
              /\ barrier.op = op /\ barrier.state = "deleting" /\ account = "gone"
              /\ barrier' = [barrier EXCEPT !.state = "deleted"]
              /\ Closings(op)' = Closings(op) \cup {Len(ledger[op]) + 1}
              /\ \A o \in Ops \ {op}: Closings(o)' = Closings(o)
<1>1. PICK op \in Ops: op = sweeper[s].op /\ account = "gone"
  BY DEF Sweep, IInv, SweepsOnlyGone
<1>2. PICK n: SweptSome(op) \/ CountedEmpty(op, n) \/ EnoughEmpty(op, n)
  BY <1>1 DEF Sweep
<1>3. TypeOK
  BY DEF IInv
<1>4. CASE SweptSome(op) \/ CountedEmpty(op, n)
  BY <1>3, <1>4, RecordsClosings DEF SweptSome, CountedEmpty, Event
<1>5. CASE EnoughEmpty(op, n)
  <2>1. CASE MayClose(op) /\ Close(op)
    BY <1>1, <1>3, <2>1, RecordsClosings DEF MayClose, Close, Event
  <2>2. CASE UNCHANGED <<barrier, ledger>>
    BY <2>2 DEF Closings
  <2> QED BY <1>5, <2>1, <2>2 DEF EnoughEmpty
<1> QED BY <1>2, <1>4, <1>5

\* Beginning a deletion keeps the invariant.
LEMMA BeginKeeps == ASSUME IInv, TypeOK', NEW r \in Requests, Begin(r) PROVE IInv'
<1>1. /\ request[r] = "idle" /\ request'[r] = "begun"
      /\ \A o \in Requests \ {r}: request'[o] = request[o]
      /\ UNCHANGED <<account, pipeline, baseline, ledger, sweeper>>
  BY DEF Begin, IInv, TypeOK, sweepVars, workVars
<1>2. \A o \in Ops: Closings(o)' = Closings(o)
  BY <1>1 DEF Closings
<1>3. CASE UNCHANGED barrier
  BY <1>1, <1>2, <1>3 DEF IInv, LiveBarrier, BarrierNamesOperation, SweepsOnlyGone, FirstEpoch,
     ClosedIsOver, IdleIsUnused, PromotedIsGone, ClosedOnce, Ops
<1>4. CASE RaiseBarrier(r)
  <2>1. barrier'.state = "deleting" /\ barrier'.op = r /\ r \in Ops /\ r \notin Promotions
    BY <1>4, OpsAssumption DEF RaiseBarrier, Ops
  <2>2. Closings(r) = {}
    BY <1>1 DEF IInv, IdleIsUnused
  <2>3. LiveBarrier' /\ BarrierNamesOperation' /\ SweepsOnlyGone' /\ FirstEpoch'
    BY <1>1, <2>1 DEF IInv, LiveBarrier, BarrierNamesOperation, SweepsOnlyGone, FirstEpoch
  <2>4. ClosedIsOver' /\ ClosedOnce'
    BY <1>2, <2>1, <2>2 DEF IInv, ClosedIsOver, ClosedOnce
  <2>5. IdleIsUnused' /\ PromotedIsGone'
    BY <1>1, <1>2, <2>1 DEF IInv, IdleIsUnused, PromotedIsGone, Ops
  <2> QED BY <2>3, <2>4, <2>5 DEF IInv
<1> QED BY <1>3, <1>4 DEF Begin

\* Deleting the account keeps it.
LEMMA DeleteAccountKeeps ==
  ASSUME IInv, TypeOK', NEW r \in Requests, DeleteAccount(r)
  PROVE  IInv'
<1>1. /\ account' = "gone" /\ pipeline' = NoEpoch /\ baseline' = NoEpoch
      /\ request[r] = "begun" /\ request'[r] = "done"
      /\ \A o \in Requests \ {r}: request'[o] = request[o]
      /\ UNCHANGED <<barrier, ledger, sweeper>>
  BY DEF DeleteAccount, IInv, TypeOK, sweepVars
<1>2. \A o \in Ops: Closings(o)' = Closings(o)
  BY <1>1 DEF Closings
<1>3. PromotedIsGone'
  BY <1>1, <1>2 DEF IInv, PromotedIsGone, Ops
<1> QED
  BY <1>1, <1>2, <1>3 DEF IInv, LiveBarrier, BarrierNamesOperation, SweepsOnlyGone, FirstEpoch,
     ClosedIsOver, IdleIsUnused, ClosedOnce, Ops

\* A failed deletion and its abort keep it.
LEMMA FailsAndAbortKeep ==
  ASSUME IInv, TypeOK', NEW r \in Requests, DeleteFails(r) \/ Abort(r)
  PROVE  IInv'
<1>1. /\ request[r] # "idle" /\ request'[r] # "idle"
      /\ \A o \in Requests \ {r}: request'[o] = request[o]
      /\ UNCHANGED <<account, pipeline, baseline, ledger, sweeper>>
  BY DEF DeleteFails, Abort, IInv, TypeOK, sweepVars, workVars
<1>2. \A o \in Ops: Closings(o)' = Closings(o)
  BY <1>1 DEF Closings
<1>3. CASE UNCHANGED barrier
  BY <1>1, <1>2, <1>3 DEF IInv, LiveBarrier, BarrierNamesOperation, SweepsOnlyGone, FirstEpoch,
     ClosedIsOver, IdleIsUnused, PromotedIsGone, ClosedOnce, Ops
<1>4. CASE MayAbort(r) /\ barrier' = [state |-> "active", epoch |-> RestoredEpoch, op |-> NoOp]
  <2>1. /\ account = "alive" /\ barrier'.state = "active" /\ barrier'.epoch = 0
        /\ barrier'.op = NoOp /\ NoOp \notin Ops
    BY <1>4, OpsAssumption DEF MayAbort, RestoredEpoch, IInv, FirstEpoch, Ops
  <2>2. LiveBarrier' /\ BarrierNamesOperation' /\ SweepsOnlyGone' /\ FirstEpoch'
    BY <1>1, <2>1 DEF IInv, LiveBarrier, BarrierNamesOperation, SweepsOnlyGone, FirstEpoch, Ops
  <2>3. ClosedIsOver' /\ ClosedOnce' /\ IdleIsUnused' /\ PromotedIsGone'
    BY <1>1, <1>2, <2>1 DEF IInv, ClosedIsOver, ClosedOnce, IdleIsUnused, PromotedIsGone, Ops
  <2> QED BY <2>2, <2>3 DEF IInv
<1> QED BY <1>3, <1>4 DEF DeleteFails, Abort

\* A sweep that promotes an orphan, or finds none, keeps it.
LEMMA SweepPromotesKeeps ==
  ASSUME IInv, TypeOK', NEW s \in Sweepers, SweepPromotes(s)
  PROVE  IInv'
<1>1. /\ UNCHANGED <<account, request, pipeline, baseline, ledger>>
      /\ sweeper'[s].stage = "promoted"
      /\ \A o \in Sweepers \ {s}: sweeper'[o] = sweeper[o]
  BY DEF SweepPromotes, IInv, TypeOK, Sweeper, workVars
<1>2. \A o \in Ops: Closings(o)' = Closings(o)
  BY <1>1 DEF Closings
<1>3. SweepsOnlyGone'
  BY <1>1 DEF IInv, SweepsOnlyGone
<1>4. CASE UNCHANGED barrier
  BY <1>1, <1>2, <1>3, <1>4 DEF IInv, LiveBarrier, BarrierNamesOperation, FirstEpoch,
     ClosedIsOver, IdleIsUnused, PromotedIsGone, ClosedOnce, Ops
<1>5. ASSUME NEW op \in Promotions, PromoteOrphan(op) PROVE IInv'
  <2>1. /\ account = "gone" /\ barrier.state = "active"
        /\ barrier'.state = "deleting" /\ barrier'.op = op /\ op \in Ops /\ op \notin Requests
    BY <1>5, OpsAssumption DEF PromoteOrphan, AccountGone, Ops
  <2>2. Closings(op) = {}
    BY <2>1 DEF IInv, PromotedIsGone
  <2>3. LiveBarrier' /\ BarrierNamesOperation' /\ FirstEpoch'
    BY <1>1, <2>1 DEF IInv, LiveBarrier, BarrierNamesOperation, FirstEpoch
  <2>4. ClosedIsOver' /\ ClosedOnce' /\ IdleIsUnused' /\ PromotedIsGone'
    BY <1>1, <1>2, <2>1, <2>2 DEF IInv, ClosedIsOver, ClosedOnce, IdleIsUnused, PromotedIsGone, Ops
  <2> QED BY <1>3, <2>3, <2>4 DEF IInv
<1> QED BY <1>4, <1>5 DEF SweepPromotes

\* A sweep of residue keeps it.
LEMMA SweepKeeps == ASSUME IInv, TypeOK', NEW s \in Sweepers, Sweep(s) PROVE IInv'
<1>1. /\ UNCHANGED <<account, request, pipeline, baseline>>
      /\ sweeper'[s].stage = "idle"
      /\ \A o \in Sweepers \ {s}: sweeper'[o] = sweeper[o]
  BY DEF Sweep, IInv, TypeOK, IdleSweeper, workVars
<1>2. SweepsOnlyGone'
  BY <1>1 DEF IInv, SweepsOnlyGone
<1>3. CASE UNCHANGED barrier /\ \A o \in Ops: Closings(o)' = Closings(o)
  BY <1>1, <1>2, <1>3 DEF IInv, LiveBarrier, BarrierNamesOperation, FirstEpoch,
     ClosedIsOver, IdleIsUnused, PromotedIsGone, ClosedOnce, Ops
<1>4. ASSUME NEW op \in Ops,
             barrier.op = op, barrier.state = "deleting", account = "gone",
             barrier' = [barrier EXCEPT !.state = "deleted"],
             Closings(op)' = Closings(op) \cup {Len(ledger[op]) + 1},
             \A o \in Ops \ {op}: Closings(o)' = Closings(o)
      PROVE  IInv'
  <2>1. barrier'.state = "deleted" /\ barrier'.op = op
    BY <1>4 DEF IInv, TypeOK, Barrier
  <2>2. Closings(op) = {}
    BY <1>4 DEF IInv, ClosedIsOver
  <2>3. LiveBarrier' /\ BarrierNamesOperation' /\ FirstEpoch'
    BY <1>1, <1>4, <2>1 DEF IInv, LiveBarrier, BarrierNamesOperation, FirstEpoch
  <2>4. ClosedIsOver' /\ ClosedOnce'
    BY <1>4, <2>1, <2>2 DEF IInv, ClosedIsOver, ClosedOnce
  <2>5. IdleIsUnused' /\ PromotedIsGone'
    BY <1>1, <1>4, <2>1 DEF IInv, IdleIsUnused, PromotedIsGone, Ops
  <2> QED BY <1>2, <2>3, <2>4, <2>5 DEF IInv
<1> QED BY <1>3, <1>4, SweepCloses

\* A sweeper that loads its operation, or gives up, keeps it.
LEMMA SweepTurnsKeep ==
  ASSUME IInv, TypeOK', NEW s \in Sweepers, SweepLoads(s) \/ SweepAborted(s)
  PROVE  IInv'
<1>1. /\ UNCHANGED <<account, barrier, request, pipeline, baseline, ledger>>
      /\ \A o \in Sweepers \ {s}: sweeper'[o] = sweeper[o]
  BY DEF SweepLoads, SweepAborted, IInv, TypeOK, workVars
<1>2. sweeper'[s].stage = "loaded" => account = "gone" /\ sweeper'[s].op \in Ops
  BY DEF SweepLoads, SweepAborted, AccountGone, IInv, TypeOK, IdleSweeper, BarrierNamesOperation
<1>3. SweepsOnlyGone'
  BY <1>1, <1>2 DEF IInv, SweepsOnlyGone
<1>4. \A o \in Ops: Closings(o)' = Closings(o)
  BY <1>1 DEF Closings
<1> QED
  BY <1>1, <1>3, <1>4 DEF IInv, LiveBarrier, BarrierNamesOperation, FirstEpoch, ClosedIsOver,
     IdleIsUnused, PromotedIsGone, ClosedOnce, Ops

\* The account's own work leaves the deletion alone; baseline and pipeline take
\* the first epoch.
LEMMA WorkKeeps ==
  ASSUME IInv, TypeOK', UNCHANGED <<account, barrier, request, sweepVars>>,
         \/ CaptureBaseline \/ Enroll \/ UNCHANGED <<pipeline, baseline>>
  PROVE  IInv'
<1>1. FirstEpoch'
  BY DEF IInv, FirstEpoch, CaptureBaseline, Enroll
<1>2. \A o \in Ops: Closings(o)' = Closings(o)
  BY DEF Closings, sweepVars
<1> QED
  BY <1>1, <1>2 DEF IInv, LiveBarrier, BarrierNamesOperation, SweepsOnlyGone, ClosedIsOver,
     IdleIsUnused, PromotedIsGone, ClosedOnce, Ops, sweepVars

-----------------------------------------------------------------------------
(* The theorems *)

\* It holds at the start.
LEMMA InvInit == Init => IInv
<1> SUFFICES ASSUME Init PROVE IInv
  OBVIOUS
<1> USE DEF Init
<1>1. TypeOK
  BY DEF TypeOK, Barrier, RequestStage, Sweeper, IdleSweeper, Epoch, Row, NoRow, Task, NoTask
<1>2. \A op \in Ops: Closings(op) = {}
  BY DEF Closings
<1>3. barrier.op \notin Ops
  BY OpsAssumption DEF Ops
<1> QED
  BY <1>1, <1>2, <1>3 DEF IInv, LiveBarrier, BarrierNamesOperation, SweepsOnlyGone, FirstEpoch,
     ClosedIsOver, IdleIsUnused, PromotedIsGone, ClosedOnce, Ops, IdleSweeper

\* Every step keeps it.
LEMMA InvStep == IInv /\ [Next]_vars => IInv'
<1> SUFFICES ASSUME IInv, [Next]_vars PROVE IInv'
  OBVIOUS
<1>1. TypeOK'
  BY TypeStep DEF IInv
<1>2. ASSUME NEW j \in Jobs, JobStep(j) PROVE IInv'
  BY <1>1, <1>2, WorkKeeps DEF JobStep, EnqueueIngest, ClaimJob, AuthorizeJob, WriteVector,
     JobEnds, sweepVars, workVars
<1>3. CASE CaptureBaseline \/ Enroll \/ UNCHANGED vars
  BY <1>1, <1>3, WorkKeeps DEF CaptureBaseline, Enroll, vars, sweepVars, workVars
<1> QED
  BY <1>1, <1>2, <1>3, BeginKeeps, DeleteAccountKeeps, FailsAndAbortKeep, SweepPromotesKeeps,
     SweepKeeps, SweepTurnsKeep DEF Next, SweepStep

\* It holds always.
LEMMA InvCorrect == Spec => []IInv
<1>1. Init => IInv
  BY InvInit
<1>2. IInv /\ [Next]_vars => IInv'
  BY InvStep
<1> QED BY <1>1, <1>2, PTL DEF Spec

\* The memory jobs of an account that lives and is not being deleted carry the
\* epoch of its barrier, through any number of attempts to delete it.
THEOREM EpochKept == Spec => []EpochFollowsPipeline
<1>1. IInv => EpochFollowsPipeline
  BY DEF IInv, FirstEpoch, EpochFollowsPipeline
<1> QED BY <1>1, InvCorrect, PTL

\* No operation closes its deletion twice, whatever sweeps overlap.
THEOREM ClosingConfirmedOnce == Spec => []ClosedOncePerOperation
<1>1. IInv => ClosedOncePerOperation
  <2> SUFFICES ASSUME IInv, NEW op \in Ops PROVE Cardinality(Closings(op)) <= 1
    BY DEF ClosedOncePerOperation, Closings
  <2>1. CASE Closings(op) = {}
    BY <2>1, FS_EmptySet
  <2>2. CASE Closings(op) # {}
    <3>1. PICK i \in Closings(op): Closings(op) = {i}
      BY <2>2 DEF IInv, ClosedOnce
    <3> QED BY <3>1, FS_Singleton
  <2> QED BY <2>1, <2>2
<1> QED BY <1>1, InvCorrect, PTL

\* No step of a sweep touches a living account.
THEOREM LivingLeftAlone == Spec => LiveAccountUntouched
<1> DEFINE Untouched == account = "alive" => /\ vectors' >= vectors
                                             /\ barrier'.state # "deleted"
                                             /\ barrier'.op \notin Promotions
                                             /\ ledger' = ledger
<1>1. IInv /\ IInv' /\ [Next]_vars => [Untouched]_vars
  <2> SUFFICES ASSUME IInv, IInv', Next, account = "alive" PROVE Untouched
    OBVIOUS
  <2>1. ASSUME NEW s \in Sweepers, Sweep(s) PROVE FALSE
    BY <2>1 DEF Sweep, IInv, SweepsOnlyGone
  <2>2. ledger' = ledger /\ (vectors' = vectors \/ vectors' = vectors + 1)
    BY <2>1 DEF Next, SweepStep, JobStep, Begin, DeleteAccount, DeleteFails, Abort, SweepPromotes,
       SweepLoads, SweepAborted, CaptureBaseline, Enroll, EnqueueIngest, ClaimJob, AuthorizeJob,
       WriteVector, JobEnds, sweepVars
  <2>3. vectors \in Nat
    BY DEF IInv, TypeOK
  <2>4. barrier'.state # "deleted" /\ barrier'.op \notin Promotions
    <3>1. CASE account' = "alive"
      BY <3>1 DEF IInv, LiveBarrier
    <3>2. CASE account' # "alive"
      <4>1. UNCHANGED barrier
        BY <2>1, <3>2 DEF Next, SweepStep, JobStep, Begin, DeleteAccount, DeleteFails, Abort,
           SweepPromotes, SweepLoads, SweepAborted, CaptureBaseline, Enroll, EnqueueIngest,
           ClaimJob, AuthorizeJob, WriteVector, JobEnds
      <4> QED BY <4>1 DEF IInv, LiveBarrier
    <3> QED BY <3>1, <3>2
  <2> QED BY <2>2, <2>3, <2>4
<1> QED BY <1>1, InvCorrect, PTL DEF Spec, LiveAccountUntouched

\* A barrier raised over an account that is gone never comes down.
THEOREM GoneBlockedForGood == Spec => GoneStaysBlocked
<1>1. IInv /\ [Next]_vars => [account = "gone" /\ barrier.state # "active"
                                => barrier'.state # "active"]_vars
  <2> SUFFICES ASSUME IInv, Next, account = "gone", barrier.state # "active"
               PROVE  barrier'.state # "active"
    OBVIOUS
  <2>1. ASSUME NEW s \in Sweepers, Sweep(s) PROVE barrier'.state # "active"
    BY <2>1, SweepCloses DEF IInv, TypeOK, Barrier
  <2>2. ASSUME NEW r \in Requests, Begin(r) \/ Abort(r) PROVE barrier'.state # "active"
    BY <2>2 DEF Begin, RaiseBarrier, Abort, MayAbort
  <2>3. ASSUME NEW s \in Sweepers, SweepPromotes(s) PROVE barrier'.state # "active"
    BY <2>3 DEF SweepPromotes, PromoteOrphan
  <2> QED
    BY <2>1, <2>2, <2>3 DEF Next, SweepStep, JobStep, DeleteAccount, DeleteFails, SweepLoads,
       SweepAborted, CaptureBaseline, Enroll, EnqueueIngest, ClaimJob, AuthorizeJob, WriteVector,
       JobEnds
<1> QED BY <1>1, InvCorrect, PTL DEF Spec, GoneStaysBlocked

-----------------------------------------------------------------------------
(* Closing, as long as sweeps do not overlap *)

\* What a sweep has read is what the ledger says.
CountsHold ==
    \A s \in Sweepers: sweeper[s].stage = "loaded" =>
        sweeper[s].empties = EmptySweeps(sweeper[s].op)

\* Sweeping makes no count wrong when there is nobody else to have one.
LEMMA CountsStep ==
  ASSUME IInv, OneSweepAtATime, CountsHold, [Next]_vars
  PROVE  CountsHold'
<1>1. ASSUME NEW s \in Sweepers, Sweep(s) PROVE CountsHold'
  <2>1. sweeper[s].stage = "loaded" /\ sweeper' = [sweeper EXCEPT ![s] = IdleSweeper]
        /\ sweeper \in [Sweepers -> Sweeper]
    BY <1>1 DEF Sweep, IInv, TypeOK
  <2>2. \A t \in Sweepers \ {s}: sweeper[t] = IdleSweeper
    BY <2>1 DEF OneSweepAtATime, IdleSweeper
  <2>3. \A t \in Sweepers: sweeper'[t] = IdleSweeper
    BY <2>1, <2>2
  <2> QED BY <2>3 DEF CountsHold, IdleSweeper
<1>2. ASSUME NEW s \in Sweepers, UNCHANGED ledger, NEW x,
             sweeper' = [sweeper EXCEPT ![s] = x],
             x.stage = "loaded" => x.empties = EmptySweeps(x.op)
      PROVE  CountsHold'
  <2>1. \A t \in Sweepers: sweeper'[t] = IF t = s THEN x ELSE sweeper[t]
    BY <1>2 DEF IInv, TypeOK
  <2>2. \A op: EmptySweeps(op)' = EmptySweeps(op)
    BY <1>2 DEF EmptySweeps
  <2>3. ASSUME NEW t \in Sweepers, sweeper'[t].stage = "loaded"
        PROVE  sweeper'[t].empties = EmptySweeps(sweeper'[t].op)
    BY <1>2, <2>1, <2>3 DEF CountsHold
  <2>4. ASSUME NEW t \in Sweepers, sweeper'[t].stage = "loaded"
        PROVE  (sweeper[t].empties = EmptySweeps(sweeper[t].op))'
    BY <1>2, <2>3, <2>4 DEF EmptySweeps
  <2> QED BY <2>4 DEF CountsHold
<1>3. ASSUME NEW s \in Sweepers, SweepPromotes(s) \/ SweepLoads(s) \/ SweepAborted(s)
      PROVE  CountsHold'
  <2>1. PICK x: x = [stage |-> "loaded", op |-> barrier.op, empties |-> EmptySweeps(barrier.op)]
    OBVIOUS
  <2>2. CASE SweepPromotes(s)
    <3> DEFINE y == [sweeper[s] EXCEPT !.stage = "promoted"]
    <3>1. y.stage = "promoted"
      BY DEF IInv, TypeOK, Sweeper
    <3>2. sweeper' = [sweeper EXCEPT ![s] = y] /\ UNCHANGED ledger
      BY <2>2 DEF SweepPromotes, IInv, TypeOK
    <3> HIDE DEF y
    <3> QED BY <1>2, <3>1, <3>2
  <2>3. CASE SweepLoads(s)
    <3>1. \/ sweeper' = [sweeper EXCEPT ![s] = x]
          \/ sweeper' = [sweeper EXCEPT ![s] = IdleSweeper]
      BY <2>1, <2>3 DEF SweepLoads
    <3>2. x.empties = EmptySweeps(x.op) /\ IdleSweeper.stage # "loaded" /\ UNCHANGED ledger
      BY <2>1, <2>3 DEF IdleSweeper, SweepLoads
    <3> QED BY <1>2, <3>1, <3>2
  <2>4. CASE SweepAborted(s)
    BY <1>2, <2>4 DEF SweepAborted, IdleSweeper
  <2> QED BY <1>3, <2>2, <2>3, <2>4
<1>4. CASE UNCHANGED sweepVars
  BY <1>4 DEF sweepVars, CountsHold, EmptySweeps
<1>5. \/ UNCHANGED sweepVars
      \/ \E s \in Sweepers: SweepStep(s) \/ SweepAborted(s)
  BY DEF Next, Begin, DeleteAccount, DeleteFails, Abort, CaptureBaseline, Enroll, JobStep,
         EnqueueIngest, ClaimJob, AuthorizeJob, WriteVector, JobEnds, vars, sweepVars
<1> QED BY <1>1, <1>3, <1>4, <1>5 DEF SweepStep

\* A count above zero, over a ledger that is not closed yet, is about its end.
LEMMA EndsEmpty ==
  ASSUME TypeOK, NEW op \in Ops, EmptySweeps(op) >= 1, Closings(op) = {}
  PROVE  ledger[op] # << >> /\ ledger[op][Len(ledger[op])] = "empty"
<1> DEFINE E == {i \in DOMAIN ledger[op]:
                    /\ ledger[op][i] = "empty"
                    /\ \A k \in DOMAIN ledger[op]: k > i => ledger[op][k] # "deleted"}
<1>1. E # {}
  <2>1. E = {} => Cardinality(E) = 0
    BY FS_EmptySet
  <2>2. EmptySweeps(op) = Cardinality(E)
    BY DEF EmptySweeps
  <2> QED BY <2>1, <2>2
<1>2. PICK i \in E: TRUE
  BY <1>1
<1>3. PICK last \in Nat: last = Len(ledger[op])
  BY DEF TypeOK
<1>4. ledger[op] \in Seq(Event) /\ DOMAIN ledger[op] = 1 .. last
  BY <1>3 DEF TypeOK
<1>5. i \in 1 .. last /\ last \in 1 .. last
  BY <1>2, <1>4
<1>6. ledger[op][last] \in Event /\ ledger[op][last] # "closed"
  BY <1>4, <1>5 DEF Closings
<1>7. ledger[op][last] # "deleted"
  BY <1>2, <1>4, <1>5
<1> QED BY <1>3, <1>4, <1>5, <1>6, <1>7 DEF Event

\* A deletion is closed by two empty sweeps in a row: as long as sweeps do not
\* overlap, the closing one follows an empty one and nothing was deleted in
\* between, whatever requests compete and jobs write late
\* (worker/privacy_sweep_jobs.py:10-11).
THEOREM TwoEmptySweeps == Spec /\ []OneSweepAtATime => [][ClosesAfterEmptySweep]_vars
<1>1. Init => CountsHold
  BY DEF Init, CountsHold, IdleSweeper
<1>2. IInv /\ OneSweepAtATime /\ CountsHold /\ [Next]_vars => CountsHold'
  BY CountsStep
<1>3. ASSUME IInv, CountsHold, [Next]_vars PROVE [ClosesAfterEmptySweep]_vars
  <2> SUFFICES ASSUME barrier.state # "deleted", barrier'.state = "deleted"
               PROVE  /\ ledger[barrier.op] # << >>
                      /\ ledger[barrier.op][Len(ledger[barrier.op])] = "empty"
    BY DEF ClosesAfterEmptySweep
  <2>1. PICK s \in Sweepers: Sweep(s)
    BY <1>3 DEF Next, Begin, RaiseBarrier, DeleteAccount, DeleteFails, Abort, SweepStep, SweepPromotes,
           PromoteOrphan, SweepLoads, SweepAborted, CaptureBaseline, Enroll, JobStep,
           EnqueueIngest, ClaimJob, AuthorizeJob, WriteVector, JobEnds, vars
  <2> DEFINE op == sweeper[s].op
             count == sweeper[s].empties
  <2>2. op \in Ops /\ count = EmptySweeps(op) /\ TypeOK
    BY <1>3, <2>1 DEF Sweep, IInv, SweepsOnlyGone, CountsHold
  <2>3. EnoughEmpty(op, count) /\ MayClose(op)
    BY <2>1 DEF Sweep, SweptSome, CountedEmpty, EnoughEmpty
  <2>4. EmptySweeps(op) \in Nat /\ EmptySweeps(op) + 1 >= 2
    BY <2>2, <2>3, EmptySweepsCount DEF EnoughEmpty
  <2>5. barrier.op = op /\ Closings(op) = {}
    BY <1>3, <2>2, <2>3 DEF MayClose, IInv, ClosedIsOver
  <2>6. EmptySweeps(op) >= 1
    BY <2>4
  <2> HIDE DEF op
  <2> QED BY <2>2, <2>5, <2>6, EndsEmpty
<1> QED BY <1>1, <1>2, <1>3, InvCorrect, PTL DEF Spec
=============================================================================
