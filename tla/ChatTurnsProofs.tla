-------------------------- MODULE ChatTurnsProofs --------------------------
(***************************************************************************)
(* Proofs about ChatTurns and ChatInference, for any number of requests    *)
(* and keys, any limit and any cost of a turn.                             *)
(*                                                                         *)
(* The argument.  What a request captured when it took its lease stays     *)
(* true of the context for as long as no turn was published since, and the *)
(* context revision tells whether one was.  From the publish check to the  *)
(* commit the advisory lock is held, and nothing that was checked changes  *)
(* under it.  ChatInference implements ChatTurns, so this holds of it too; *)
(* what it adds, the sources of a reply, is likewise compared at the check *)
(* and locked until the commit.                                            *)
(***************************************************************************)
EXTENDS ChatInference, TLAPS

\* The lock is held across steps exactly by a request that is committing.
LockByCommitter == \A r \in Requests: req[r].stage = "committing" <=> lock = r

\* Revision and sequence number count the turns.
CountsAgree == revision = Len(turns) /\ lastSeq = Len(turns)

Captured == {"thinking", "publishing", "committing"}

\* The captured sequence number follows the captured revision; while that is
\* the revision still, the captured balance is the balance still.
CaptureInStep ==
    \A r \in Requests: req[r].stage \in Captured =>
        /\ req[r].seq = req[r].base + 1
        /\ req[r].base <= revision
        /\ req[r].base = revision => req[r].balance = used

\* A normal reply was admitted below the limit.
AdmittedBelowLimit ==
    \A r \in Requests: req[r].stage \in {"publishing", "committing"} =>
        (req[r].cost > 0 => req[r].balance < Limit)

\* What the publish check established holds until the commit.
CheckedHolds ==
    \A r \in Requests: req[r].stage = "committing" =>
        /\ stored[KeyOf[r]] = "none"
        /\ barrier = "active"
        /\ req[r].base = revision

\* Every turn left a reply under its key, redacted or not.
TurnsHaveReplies == \A i \in DOMAIN turns: stored[turns[i].key] # "none"

IInv ==
    /\ TypeOK
    /\ LockByCommitter
    /\ CountsAgree
    /\ CaptureInStep
    /\ AdmittedBelowLimit
    /\ CheckedHolds
    /\ TurnsHaveReplies
    /\ OneTurnPerKey
    /\ TurnsInOrder
    /\ ChargedAsAdmitted

-----------------------------------------------------------------------------
(* Types *)

\* Init is well typed.
LEMMA TypeInit == Init => TypeOK
  BY KeyAssumption DEF Init, TypeOK, Request, Stage, Lease, Reply, NoLease

\* A request that only moves to another stage stays well typed.
LEMMA GoesToTyped ==
  ASSUME NEW r \in Requests, NEW stage \in Stage, GoesTo(r, stage), TypeOK
  PROVE  req' \in [Requests -> Request]
  BY DEF GoesTo, TypeOK, Request

\* Releasing leaves a lease or none.
LEMMA ReleaseTyped ==
  ASSUME NEW r \in Requests, Release(r), TypeOK
  PROVE  lease' \in Lease
  BY KeyAssumption DEF Release, TypeOK, Lease, NoLease

\* Every step keeps the types.
LEMMA TypeStep == TypeOK /\ [Next]_vars => TypeOK'
<1> SUFFICES ASSUME TypeOK, [Next]_vars PROVE TypeOK'
  OBVIOUS
<1> USE KeyAssumption, LimitAssumption
<1>1. ASSUME NEW r \in Requests, Check(r) PROVE TypeOK'
  <2>1. CASE \E stage \in Stage: GoesTo(r, stage)
    BY <1>1, <2>1, GoesToTyped DEF Check, TypeOK, published
  <2>2. CASE req' = [req EXCEPT ![r].stage = "checked",
                                ![r].seenExpired = IF lease.expired
                                                   THEN lease.holder ELSE NoOne]
    <3> DEFINE q == [req[r] EXCEPT !.stage = "checked",
                                   !.seenExpired = IF lease.expired
                                                   THEN lease.holder ELSE NoOne]
    <3>1. q \in Request
      BY DEF TypeOK, Request, Stage, Lease
    <3>2. req' = [req EXCEPT ![r] = q]
      BY <2>2 DEF TypeOK
    <3> QED BY <1>1, <3>1, <3>2 DEF Check, TypeOK, published
  <2>3. \/ \E stage \in Stage: GoesTo(r, stage)
        \/ req' = [req EXCEPT ![r].stage = "checked",
                              ![r].seenExpired = IF lease.expired
                                                 THEN lease.holder ELSE NoOne]
    BY <1>1 DEF Check, Stage
  <2> QED BY <2>1, <2>2, <2>3
<1>2. ASSUME NEW r \in Requests, Accept(r) PROVE TypeOK'
  <2> DEFINE q == [req[r] EXCEPT !.stage = "thinking", !.seq = lastSeq + 1,
                                 !.base = revision, !.balance = used]
  <2>0. req[r] \in Request /\ lastSeq + 1 \in Nat /\ revision \in Nat /\ used \in Nat
    BY DEF TypeOK
  <2>1. q \in Request
    BY <2>0 DEF Request, Stage
  <2>2. req' = [req EXCEPT ![r] = q]
    BY <1>2 DEF Accept, TypeOK
  <2>3. req' \in [Requests -> Request]
    BY <2>1, <2>2 DEF TypeOK
  <2> QED BY <1>2, <2>3 DEF Accept, TypeOK, Lease, published
<1>3. ASSUME NEW r \in Requests, Refuse(r) PROVE TypeOK'
  BY <1>3, GoesToTyped DEF Refuse, TypeOK, Stage, published
<1>4. ASSUME NEW r \in Requests, NEW cost \in 0 .. MaxCost, Infer(r, cost) PROVE TypeOK'
  <2>1. cost \in Nat /\ (lease.holder = r /\ lease.expired) \in BOOLEAN
    BY DEF TypeOK, Lease
  <2> DEFINE q == [req[r] EXCEPT !.stage = "publishing", !.cost = cost,
                                 !.late = lease.holder = r /\ lease.expired]
  <2>2. q \in Request
    BY <2>1 DEF TypeOK, Request, Stage
  <2>3. req' = [req EXCEPT ![r] = q]
    BY <1>4 DEF Infer, TypeOK
  <2> QED BY <1>4, <2>2, <2>3 DEF Infer, TypeOK, published
<1>5. ASSUME NEW r \in Requests, PublishCheck(r) PROVE TypeOK'
  <2>1. ASSUME Duplicate(r)
        PROVE  req' \in [Requests -> Request] /\ lease' \in Lease /\ lock' = lock
    BY <2>1, GoesToTyped, ReleaseTyped DEF Duplicate, Stage
  <2>2. ASSUME Rejected(r)
        PROVE  req' \in [Requests -> Request] /\ lease' = lease /\ lock' = lock
    BY <2>2, GoesToTyped DEF Rejected, Stage
  <2>3. ASSUME EntersCommit(r)
        PROVE  req' \in [Requests -> Request] /\ lease' = lease /\ lock' = r
    BY <2>3, GoesToTyped DEF EntersCommit, Stage
  <2>4. Duplicate(r) \/ Rejected(r) \/ EntersCommit(r)
    BY <1>5 DEF PublishCheck, CheckNormal, CheckFixed
  <2> QED BY <1>5, <2>1, <2>2, <2>3, <2>4 DEF PublishCheck, TypeOK, published
<1>6. ASSUME NEW r \in Requests, Commit(r) PROVE TypeOK'
  <2>1. req' \in [Requests -> Request] /\ lease' \in Lease
    BY <1>6, GoesToTyped, ReleaseTyped DEF Commit, Stage
  <2>2. turns' \in Seq(Turn)
    BY <1>6 DEF Commit, TypeOK, Request, Turn
  <2>3. used' \in Nat /\ revision' \in Nat /\ lastSeq' \in Nat
    BY <1>6 DEF Commit, TypeOK, Request
  <2> QED BY <1>6, <2>1, <2>2, <2>3 DEF Commit, TypeOK, Reply
<1>7. ASSUME NEW r \in Requests, Fail(r) \/ Crash(r) PROVE TypeOK'
  BY <1>7, GoesToTyped DEF Fail, Crash, TypeOK, Stage, published
<1>8. ASSUME NEW r \in Requests, CleanUp(r) PROVE TypeOK'
  BY <1>8, GoesToTyped, ReleaseTyped DEF CleanUp, TypeOK, Stage, published
<1>9. ASSUME NEW r \in Requests, GiveUp(r) PROVE TypeOK'
  BY <1>9, GoesToTyped, ReleaseTyped DEF GiveUp, TypeOK, Stage, published
<1>10. CASE LeaseExpires
  BY <1>10 DEF LeaseExpires, TypeOK, Lease, published
<1>11. CASE BeginDeletion \/ AbortDeletion
  BY <1>11 DEF BeginDeletion, AbortDeletion, TypeOK, Reply, published
<1>12. CASE UNCHANGED vars
  BY <1>12 DEF vars, TypeOK
<1> QED
  BY <1>1, <1>2, <1>3, <1>4, <1>5, <1>6, <1>7, <1>8, <1>9, <1>10, <1>11, <1>12
     DEF Next, RequestStep

\* The variables keep their types, with any number of requests, keys and turns.
THEOREM TypeCorrect == Spec => []TypeOK
<1>1. Init => TypeOK
  BY TypeInit
<1>2. TypeOK /\ [Next]_vars => TypeOK'
  BY TypeStep
<1> QED BY <1>1, <1>2, PTL DEF Spec

-----------------------------------------------------------------------------
(* The invariant *)

\* The parts of IInv that only read what a step publishes.
HistoryInv == CountsAgree /\ OneTurnPerKey /\ TurnsInOrder /\ ChargedAsAdmitted

\* A step that publishes nothing leaves the history alone.
LEMMA HistoryKept ==
  ASSUME HistoryInv, UNCHANGED published
  PROVE  HistoryInv'
  BY DEF HistoryInv, published, CountsAgree, OneTurnPerKey, TurnsInOrder, ChargedAsAdmitted

\* A request that goes to a stage in which nothing is captured, giving the lock
\* back if it held it, disturbs nothing: a stored reply, a refusal, a rejection,
\* a failure, a clean-up, a crash.
LEMMA LeavingKeeps ==
  ASSUME IInv, TypeOK', NEW r \in Requests,
         req'[r].stage \notin Captured,
         \A s \in Requests \ {r}: req'[s] = req[s],
         lock' = IF lock = r THEN NoOne ELSE lock,
         UNCHANGED <<stored, barrier, published>>
  PROVE  IInv'
<1>1. HistoryInv'
  BY HistoryKept DEF IInv, HistoryInv
<1>2. LockByCommitter'
  BY KeyAssumption DEF IInv, LockByCommitter, Captured
<1>3. CaptureInStep'
  BY DEF IInv, CaptureInStep, published
<1>4. AdmittedBelowLimit'
  BY DEF IInv, AdmittedBelowLimit, Captured
<1>5. CheckedHolds'
  BY DEF IInv, CheckedHolds, Captured, published
<1>6. TurnsHaveReplies'
  BY DEF IInv, TurnsHaveReplies, published
<1> QED BY <1>1, <1>2, <1>3, <1>4, <1>5, <1>6 DEF IInv, HistoryInv

\* What GoesTo leaves of the requests.
LEMMA GoesToOnly ==
  ASSUME TypeOK, NEW r \in Requests, NEW stage, GoesTo(r, stage)
  PROVE  /\ req'[r].stage = stage
         /\ req'[r].seq = req[r].seq /\ req'[r].base = req[r].base
         /\ req'[r].balance = req[r].balance /\ req'[r].cost = req[r].cost
         /\ \A s \in Requests \ {r}: req'[s] = req[s]
  BY DEF GoesTo, TypeOK, Request

\* The first check of a request keeps the invariant.
LEMMA CheckKeeps == ASSUME IInv, TypeOK', NEW r \in Requests, Check(r) PROVE IInv'
<1>1. /\ req'[r].stage \notin Captured
      /\ \A s \in Requests \ {r}: req'[s] = req[s]
  <2>1. CASE \E stage \in {"replied", "over"}: GoesTo(r, stage)
    BY <2>1, GoesToOnly DEF IInv, Captured
  <2>2. CASE req' = [req EXCEPT ![r].stage = "checked",
                                ![r].seenExpired = IF lease.expired
                                                   THEN lease.holder ELSE NoOne]
    BY <2>2 DEF IInv, TypeOK, Request, Captured
  <2> QED BY <2>1, <2>2 DEF Check
<1>2. lock # r /\ lock' = lock /\ UNCHANGED <<stored, barrier, published>>
  BY DEF Check, IInv, LockByCommitter
<1> QED BY <1>1, <1>2, LeavingKeeps

\* A refusal keeps it: nothing was stored.
LEMMA RefuseKeeps == ASSUME IInv, TypeOK', NEW r \in Requests, Refuse(r) PROVE IInv'
<1>1. lock # r /\ lock' = lock /\ UNCHANGED <<stored, barrier, published>>
  BY DEF Refuse, IInv, LockByCommitter
<1> QED BY <1>1, GoesToOnly, LeavingKeeps DEF Refuse, IInv, Captured

\* A failing turn ends without a message or a charge.
LEMMA FailKeeps ==
  ASSUME IInv, TypeOK', NEW r \in Requests, Fail(r) \/ Crash(r)
  PROVE  IInv'
  BY GoesToOnly, LeavingKeeps DEF Fail, Crash, IInv, Captured

\* The clean-up of a failed request keeps it.
LEMMA CleanUpKeeps == ASSUME IInv, TypeOK', NEW r \in Requests, CleanUp(r) PROVE IInv'
<1>1. lock # r /\ lock' = lock /\ UNCHANGED <<stored, barrier, published>>
  BY DEF CleanUp, IInv, LockByCommitter
<1> QED BY <1>1, GoesToOnly, LeavingKeeps DEF CleanUp, IInv, Captured

\* A request that gives up keeps it: it held no lock.
LEMMA GiveUpKeeps == ASSUME IInv, TypeOK', NEW r \in Requests, GiveUp(r) PROVE IInv'
<1>1. lock # r /\ lock' = lock /\ UNCHANGED <<stored, barrier, published>>
  BY DEF GiveUp, IInv, LockByCommitter
<1> QED BY <1>1, GoesToOnly, LeavingKeeps DEF GiveUp, IInv, Captured

\* Admission takes the newest place in the order and the balance then read.
LEMMA AcceptKeeps == ASSUME IInv, TypeOK', NEW r \in Requests, Accept(r) PROVE IInv'
<1>1. /\ req'[r].stage = "thinking"
      /\ req'[r].seq = lastSeq + 1 /\ req'[r].base = revision /\ req'[r].balance = used
      /\ \A s \in Requests \ {r}: req'[s] = req[s]
  BY DEF Accept, IInv, TypeOK, Request
<1>2. req[r].stage # "committing" /\ UNCHANGED <<lock, stored, barrier, published>>
  BY DEF Accept
<1>3. HistoryInv'
  BY <1>2, HistoryKept DEF IInv, HistoryInv
<1>4. LockByCommitter'
  BY <1>1, <1>2 DEF IInv, LockByCommitter
<1>5. CaptureInStep'
  BY <1>1, <1>2 DEF IInv, CaptureInStep, CountsAgree, published, TypeOK
<1>6. AdmittedBelowLimit' /\ CheckedHolds' /\ TurnsHaveReplies'
  BY <1>1, <1>2 DEF IInv, AdmittedBelowLimit, CheckedHolds, TurnsHaveReplies, published
<1> QED BY <1>3, <1>4, <1>5, <1>6 DEF IInv, HistoryInv

\* The model's answer sets a cost and stores nothing.
LEMMA InferKeeps ==
  ASSUME IInv, TypeOK', NEW r \in Requests, NEW cost \in 0 .. MaxCost, Infer(r, cost)
  PROVE  IInv'
<1>1. /\ req'[r].stage = "publishing"
      /\ req'[r].seq = req[r].seq /\ req'[r].base = req[r].base
      /\ req'[r].balance = req[r].balance /\ req'[r].cost = cost
      /\ \A s \in Requests \ {r}: req'[s] = req[s]
  BY DEF Infer, IInv, TypeOK, Request
<1>2. req[r].stage = "thinking" /\ UNCHANGED <<lock, stored, barrier, published>>
  BY DEF Infer
<1>3. HistoryInv'
  BY <1>2, HistoryKept DEF IInv, HistoryInv
<1>4. LockByCommitter'
  BY <1>1, <1>2 DEF IInv, LockByCommitter
<1>5. CaptureInStep'
  BY <1>1, <1>2 DEF IInv, CaptureInStep, Captured, published
<1>6. AdmittedBelowLimit'
  BY <1>1 DEF IInv, AdmittedBelowLimit, Infer
<1>7. CheckedHolds' /\ TurnsHaveReplies'
  BY <1>1, <1>2 DEF IInv, CheckedHolds, TurnsHaveReplies, published
<1> QED BY <1>3, <1>4, <1>5, <1>6, <1>7 DEF IInv, HistoryInv

\* The check before publishing keeps it, and makes the request the committing one.
LEMMA PublishCheckKeeps ==
  ASSUME IInv, TypeOK', NEW r \in Requests, PublishCheck(r)
  PROVE  IInv'
<1>1. /\ req[r].stage = "publishing" /\ lock = NoOne
      /\ UNCHANGED <<stored, barrier, published>>
  BY DEF PublishCheck
<1>2. CASE Duplicate(r) \/ Rejected(r)
  <2>1. req'[r].stage \notin Captured /\ \A s \in Requests \ {r}: req'[s] = req[s]
    BY <1>2, GoesToOnly DEF Duplicate, Rejected, Captured, IInv
  <2>2. lock' = lock /\ lock # r
    BY <1>1, <1>2, KeyAssumption DEF Duplicate, Rejected
  <2> QED BY <1>1, <2>1, <2>2, LeavingKeeps
<1>3. CASE /\ Verified(r) /\ barrier = "active" /\ stored[KeyOf[r]] = "none"
           /\ EntersCommit(r)
  <2>1. /\ req'[r].stage = "committing"
        /\ req'[r].seq = req[r].seq /\ req'[r].base = req[r].base
        /\ req'[r].balance = req[r].balance /\ req'[r].cost = req[r].cost
        /\ \A s \in Requests \ {r}: req'[s] = req[s]
    BY <1>3, GoesToOnly DEF EntersCommit, IInv
  <2>2. lock' = r
    BY <1>3 DEF EntersCommit
  <2>3. HistoryInv'
    BY <1>1, HistoryKept DEF IInv, HistoryInv
  <2>4. LockByCommitter'
    BY <1>1, <2>1, <2>2, KeyAssumption DEF IInv, LockByCommitter
  <2>5. CaptureInStep'
    BY <1>1, <2>1 DEF IInv, CaptureInStep, Captured, published
  <2>6. AdmittedBelowLimit'
    BY <1>1, <2>1 DEF IInv, AdmittedBelowLimit
  <2>7. CheckedHolds'
    BY <1>1, <1>3, <2>1 DEF IInv, CheckedHolds, Verified, published
  <2>8. TurnsHaveReplies'
    BY <1>1 DEF IInv, TurnsHaveReplies, published
  <2> QED BY <2>3, <2>4, <2>5, <2>6, <2>7, <2>8 DEF IInv, HistoryInv
<1> QED BY <1>2, <1>3 DEF PublishCheck, CheckNormal, CheckFixed

\* Every turn carries a key.
LEMMA TurnsHaveKeys == TypeOK => \A i \in DOMAIN turns: turns[i].key \in Keys
<1> SUFFICES ASSUME TypeOK, NEW i \in DOMAIN turns PROVE turns[i].key \in Keys
  OBVIOUS
<1>1. turns[i] \in Turn
  BY DEF TypeOK
<1> QED BY <1>1 DEF Turn

\* The commit stores the turn and its charge together.
LEMMA CommitKeeps == ASSUME IInv, TypeOK', NEW r \in Requests, Commit(r) PROVE IInv'
<1> DEFINE new == [key |-> KeyOf[r], seq |-> req[r].seq, base |-> req[r].base,
                   balance |-> req[r].balance, cost |-> req[r].cost, used |-> used]
           n == Len(turns)
<1>1. /\ req'[r].stage = "replied"
      /\ \A s \in Requests \ {r}: req'[s] = req[s]
  BY GoesToOnly DEF Commit, IInv
<1>2. /\ req[r].stage = "committing" /\ lock = r /\ lock' = NoOne
      /\ stored[KeyOf[r]] = "none" /\ req[r].base = revision
      /\ req[r].seq = req[r].base + 1 /\ req[r].balance = used
      /\ req[r].cost > 0 => req[r].balance < Limit
  BY DEF Commit, IInv, LockByCommitter, CheckedHolds, CaptureInStep, Captured,
         AdmittedBelowLimit
<1>3. revision = n /\ lastSeq = n /\ n \in Nat /\ turns \in Seq(Turn)
  BY DEF IInv, CountsAgree, TypeOK
<1>4. /\ turns' = Append(turns, new)
      /\ Len(turns') = n + 1
      /\ turns'[n + 1] = new
      /\ \A i \in DOMAIN turns: turns'[i] = turns[i]
      /\ DOMAIN turns' = DOMAIN turns \cup {n + 1} /\ DOMAIN turns = 1..n
  BY <1>3 DEF Commit
<1>5. /\ stored' = [stored EXCEPT ![KeyOf[r]] = "succeeded"]
      /\ KeyOf[r] \in Keys /\ DOMAIN stored = Keys
  BY KeyAssumption DEF Commit, IInv, TypeOK
<1>6. \A s \in Requests \ {r}: req[s].stage # "committing"
  BY <1>2 DEF IInv, LockByCommitter
<1>7. LockByCommitter'
  BY <1>1, <1>2, <1>6, KeyAssumption DEF LockByCommitter
<1>8. CountsAgree'
  BY <1>2, <1>3, <1>4 DEF CountsAgree, Commit
<1>9. CaptureInStep'
  <2>1. revision' = revision + 1 /\ revision \in Nat
    BY <1>3 DEF Commit
  <2>2. \A s \in Requests: req[s].base \in Nat
    BY DEF IInv, TypeOK, Request
  <2> QED BY <1>1, <2>1, <2>2 DEF IInv, CaptureInStep, Captured
<1>10. AdmittedBelowLimit' /\ CheckedHolds'
  BY <1>1, <1>6 DEF IInv, AdmittedBelowLimit, CheckedHolds
<1>11. TurnsHaveReplies'
  <2>1. \A i \in DOMAIN turns: turns[i].key \in Keys
    BY TurnsHaveKeys DEF IInv
  <2> QED BY <1>4, <1>5, <2>1 DEF IInv, TurnsHaveReplies
<1>12. OneTurnPerKey'
  <2>1. \A i \in DOMAIN turns: turns[i].key # KeyOf[r]
    BY <1>2 DEF IInv, TurnsHaveReplies
  <2> QED BY <1>4, <2>1 DEF IInv, OneTurnPerKey
<1>13. TurnsInOrder'
  BY <1>2, <1>3, <1>4 DEF IInv, TurnsInOrder
<1>14. ChargedAsAdmitted'
  BY <1>2, <1>4 DEF IInv, ChargedAsAdmitted
<1> QED
  BY <1>7, <1>8, <1>9, <1>10, <1>11, <1>12, <1>13, <1>14 DEF IInv

\* Lease expiry, and the begin and the abort of a deletion, keep it.
LEMMA OthersKeep ==
  ASSUME IInv, TypeOK', LeaseExpires \/ BeginDeletion \/ AbortDeletion \/ UNCHANGED vars
  PROVE  IInv'
<1>1. UNCHANGED <<req, lock, published>>
  BY DEF LeaseExpires, BeginDeletion, AbortDeletion, vars, published
<1>2. HistoryInv'
  BY <1>1, HistoryKept DEF IInv, HistoryInv
<1>3. LockByCommitter' /\ CaptureInStep' /\ AdmittedBelowLimit'
  BY <1>1 DEF IInv, LockByCommitter, CaptureInStep, AdmittedBelowLimit, published
<1>4. CheckedHolds'
  BY <1>1, KeyAssumption DEF IInv, CheckedHolds, LockByCommitter, LeaseExpires, BeginDeletion,
     AbortDeletion, vars, published
<1>5. TurnsHaveReplies'
  <2>1. \A i \in DOMAIN turns: turns[i].key \in Keys
    BY TurnsHaveKeys DEF IInv
  <2> QED BY <1>1, <2>1 DEF IInv, TurnsHaveReplies, LeaseExpires, BeginDeletion,
          AbortDeletion, vars, published
<1> QED BY <1>2, <1>3, <1>4, <1>5 DEF IInv, HistoryInv

-----------------------------------------------------------------------------
(* The theorems *)

\* It holds at the start.
LEMMA InvInit == Init => IInv
<1> SUFFICES ASSUME Init PROVE IInv
  OBVIOUS
<1>1. TypeOK
  BY TypeInit
<1> QED
  BY <1>1, KeyAssumption DEF Init, IInv, LockByCommitter, CountsAgree, CaptureInStep, Captured,
     AdmittedBelowLimit, CheckedHolds, TurnsHaveReplies, OneTurnPerKey, TurnsInOrder,
     ChargedAsAdmitted

\* Every step keeps it.
LEMMA InvStep == IInv /\ [Next]_vars => IInv'
<1> SUFFICES ASSUME IInv, [Next]_vars PROVE IInv'
  OBVIOUS
<1>1. TypeOK'
  BY TypeStep DEF IInv
<1> QED
  BY <1>1, CheckKeeps, AcceptKeeps, RefuseKeeps, InferKeeps, PublishCheckKeeps, CommitKeeps,
     FailKeeps, CleanUpKeeps, GiveUpKeeps, OthersKeep DEF Next, RequestStep

\* It holds always.
LEMMA InvCorrect == Spec => []IInv
<1>1. Init => IInv
  BY InvInit
<1>2. IInv /\ [Next]_vars => IInv'
  BY InvStep
<1> QED BY <1>1, <1>2, PTL DEF Spec

\* A key gets one turn, however many requests retry it at once, after a crash
\* or across an aborted deletion (post_message, idempotency_keys).
THEOREM KeyGetsOneTurn == Spec => []OneTurnPerKey
<1>1. IInv => OneTurnPerKey
  BY DEF IInv
<1> QED BY <1>1, InvCorrect, PTL

\* Turns are numbered in order, each on the context and the balance its request
\* captured: the lease and the context revision let no two answers of one context
\* through, and no two requests spend the same balance.
THEOREM AdmissionKept == Spec => []TurnsAsAdmitted
<1>1. IInv => TurnsAsAdmitted
  BY DEF IInv, TurnsAsAdmitted
<1> QED BY <1>1, InvCorrect, PTL

\* A turn commits only while the account is not being deleted.
THEOREM DeletionStopsTurns == Spec => NoTurnDuringDeletion
<1>1. IInv /\ [Next]_vars => [turns' # turns => barrier = "active"]_vars
  <2> SUFFICES ASSUME IInv, [Next]_vars, turns' # turns PROVE barrier = "active"
    OBVIOUS
  <2>1. PICK r \in Requests: Commit(r)
    BY DEF Next, RequestStep, Check, Accept, Refuse, Infer, PublishCheck, Fail, CleanUp, GiveUp,
       Crash, LeaseExpires, BeginDeletion, AbortDeletion, published, vars
  <2> QED BY <2>1 DEF Commit, IInv, CheckedHolds
<1> QED BY <1>1, InvCorrect, PTL DEF Spec, NoTurnDuringDeletion

-----------------------------------------------------------------------------
(* The inference *)

\* A step of a request is a step of ChatTurns or leaves its variables alone.
LEMMA InferenceStepMaps ==
  ASSUME NEW r \in Requests, InferenceStep(r)
  PROVE  RequestStep(r) \/ UNCHANGED vars
<1>1. CASE Ask(r) \/ Admit(r) \/ Publish(r) \/ Leave(r)
  BY <1>1 DEF Ask, Admit, Publish, Leave, RequestStep
<1>2. ASSUME NEW cost \in 0 .. MaxCost, Infer(r, cost) PROVE RequestStep(r)
  BY <1>2 DEF RequestStep
<1>3. CASE JudgeFixed(r)
  BY <1>2, <1>3, LimitAssumption DEF JudgeFixed
<1>4. CASE Decide(r) \/ Finish(r)
  BY <1>2, <1>4, LimitAssumption DEF Decide, Finish, Answer
<1>5. CASE Prepare(r) \/ PauseToWait(r) \/ PauseToReduce(r) \/ Resume(r) \/ Reduce(r)
  BY <1>5 DEF Prepare, PauseToWait, PauseToReduce, Resume, Reduce
<1>6. CASE Unavailable(r) \/ Outgrow(r)
  BY <1>6 DEF Unavailable, Outgrow, RequestStep
<1>7. CASE EnterPublish(r)
  BY <1>7 DEF EnterPublish, RequestStep
<1>8. CASE Outdated(r)
  <2>1. Fail(r)
    BY <1>8 DEF Outdated, Rejected, Fail
  <2> QED BY <2>1 DEF RequestStep
<1> QED
  BY <1>1, <1>3, <1>4, <1>5, <1>6, <1>7, <1>8 DEF InferenceStep

\* Every step is.
LEMMA InferenceNextMaps == [InferenceNext]_inferenceVars => [Next]_vars
<1>1. ASSUME NEW r \in Requests, InferenceStep(r) PROVE [Next]_vars
  BY <1>1, InferenceStepMaps DEF Next
<1>2. Rewrite \/ Summarise => UNCHANGED vars
  BY DEF Rewrite, Summarise
<1>3. Others => Next
  BY DEF Others, Next
<1> QED BY <1>1, <1>2, <1>3 DEF InferenceNext, inferenceVars

\* ChatInference implements ChatTurns: whatever is proved of the turns holds of
\* requests that judge, prepare, wait and draft (post_message as a whole).
THEOREM InferenceRefinesTurns == InferenceSpec => Spec
<1>1. InferenceInit => Init
  BY DEF InferenceInit
<1>2. [InferenceNext]_inferenceVars => [Next]_vars
  BY InferenceNextMaps
<1> QED BY <1>1, <1>2, PTL DEF InferenceSpec, Spec

\* Where a request can be with what it has tried: an attempt for its wait, an
\* attempt for its cut history, and a wait only before either.
Counted(i) ==
    /\ i.tries = (IF i.resumed THEN 1 ELSE 0) + (IF i.reduced THEN 1 ELSE 0)
    /\ i.at = "waiting" => ~i.resumed /\ ~i.reduced
    /\ i.at = "reducing" => ~i.reduced
    /\ i.resumed /\ ~i.reduced => i.baseline < covered /\ i.needed <= covered

AttemptsCounted == \A r \in Requests: Counted(inf[r])

\* What the committing request rests on has not changed.
BasisKept == \A r \in Requests: lock = r => inf[r].read # "outdated"

InferenceTypeOK ==
    /\ inf     \in [Requests -> Inference]
    /\ source  \in Sources
    /\ covered \in Nat

InferenceInv == InferenceTypeOK /\ AttemptsCounted /\ BasisKept
\* The invariant of the inference holds at the start.
LEMMA InferenceInvInit == InferenceInit => InferenceInv
  BY KeyAssumption DEF InferenceInit, Init, InferenceInv, InferenceTypeOK, Inference, Idle, Place,
     Reading, AttemptsCounted, Counted, BasisKept

\* No inference is one, without an attempt.
LEMMA IdleTyped ==
  /\ Idle \in Inference /\ Counted(Idle)
  /\ Idle.tries = 0 /\ Idle.resumed = FALSE /\ Idle.reduced = FALSE
  BY DEF Idle, Inference, Place, Reading, Counted

\* A step that gives one request another inference, of an attempt like the one
\* before, keeps the types and the attempts.
LEMMA OneInference ==
  ASSUME InferenceTypeOK, AttemptsCounted, NEW r \in Requests, NEW q \in Inference,
         Counted(q), inf' = [inf EXCEPT ![r] = q], UNCHANGED world
  PROVE  InferenceTypeOK' /\ AttemptsCounted'
  BY DEF InferenceTypeOK, AttemptsCounted, Counted, world

\* Forgetting an inference keeps them.
LEMMA ForgetKeeps ==
  ASSUME InferenceTypeOK, AttemptsCounted, NEW r \in Requests, Forget(r), UNCHANGED world
  PROVE  InferenceTypeOK' /\ AttemptsCounted'
  BY IdleTyped, OneInference DEF Forget

\* A step of a request keeps them.
LEMMA AttemptsOfStep ==
  ASSUME TypeOK, InferenceTypeOK, AttemptsCounted, NEW r \in Requests, InferenceStep(r)
  PROVE  InferenceTypeOK' /\ AttemptsCounted'
<1> DEFINE i == inf[r]
<1>1. /\ i \in Inference /\ inf \in [Requests -> Inference] /\ covered \in Nat
      /\ revision \in Nat /\ Counted(i)
  BY DEF InferenceTypeOK, AttemptsCounted, TypeOK
<1>2. CASE Ask(r)
  BY <1>2 DEF Ask, world, InferenceTypeOK, AttemptsCounted, Counted
<1>3. CASE Unavailable(r) \/ Outgrow(r) \/ Outdated(r) \/ Publish(r) \/ Leave(r)
  BY <1>3, ForgetKeeps DEF Unavailable, Outgrow, Outdated, Publish, Leave, world
<1>4. CASE Admit(r)
  <2> DEFINE q == [Idle EXCEPT !.at = "judging"]
  <2>1. q \in Inference /\ Counted(q)
    BY IdleTyped DEF Inference, Place, Counted
  <2>2. inf' = [inf EXCEPT ![r] = q] /\ UNCHANGED world
    BY <1>4 DEF Admit
  <2> HIDE DEF q
  <2> QED BY <2>1, <2>2, OneInference
<1>5. CASE Prepare(r)
  <2>1. PICK read \in Reading: inf' = [inf EXCEPT ![r] = [Idle EXCEPT !.at = "drafting",
                                                                     !.read = read]]
    BY <1>5 DEF Prepare, Reading
  <2> DEFINE q == [Idle EXCEPT !.at = "drafting", !.read = read]
  <2>2. q \in Inference /\ Counted(q)
    BY IdleTyped DEF Inference, Place, Counted
  <2>3. inf' = [inf EXCEPT ![r] = q] /\ UNCHANGED world
    BY <1>5, <2>1 DEF Prepare
  <2> HIDE DEF q
  <2> QED BY <2>2, <2>3, OneInference
<1>6. ASSUME NEW at \in Place \ {"waiting", "reducing"}, NEW read \in Reading,
             inf' = [inf EXCEPT ![r].at = at, ![r].read = read], UNCHANGED world
      PROVE  InferenceTypeOK' /\ AttemptsCounted'
  <2> DEFINE q == [i EXCEPT !.at = at, !.read = read]
  <2>1. inf' = [inf EXCEPT ![r] = q]
    BY <1>1, <1>6
  <2>2. q \in Inference /\ Counted(q)
    BY <1>1, <1>6 DEF Inference, Counted
  <2> HIDE DEF q
  <2> QED BY <1>6, <2>1, <2>2, OneInference
<1>7. i.read \in Reading
  BY <1>1 DEF Inference
<1>8. CASE JudgeFixed(r)
  <2>1. inf' = [inf EXCEPT ![r].at = "answered", ![r].read = i.read]
    BY <1>1, <1>8 DEF JudgeFixed, Inference
  <2> QED BY <1>6, <1>7, <1>8, <2>1 DEF JudgeFixed, Place
<1>9. CASE Decide(r)
  <2>1. CASE \E cost \in 1 .. MaxCost: Answer(r, cost, i.read)
    BY <1>6, <1>7, <2>1 DEF Answer, Place
  <2>2. CASE /\ \E read \in IF source = "diary" THEN {"unread", "current"} ELSE {inf[r].read}:
                  inf' = [inf EXCEPT ![r].at = "finishing", ![r].read = read]
             /\ UNCHANGED <<vars, world>>
    <3>1. PICK read \in Reading:
            inf' = [inf EXCEPT ![r].at = "finishing", ![r].read = read]
      BY <1>7, <2>2 DEF Reading
    <3> QED BY <1>6, <2>2, <3>1 DEF Place
  <2> QED BY <1>9, <2>1, <2>2 DEF Decide
<1>10. CASE Finish(r)
  <2>1. PICK cost \in 1 .. MaxCost, read \in Reading: Answer(r, cost, read)
    BY <1>7, <1>10 DEF Finish, Reading
  <2> QED BY <1>6, <2>1 DEF Answer, Place
<1>11. CASE PauseToWait(r)
  <2>1. PICK through \in 0 .. covered:
          inf' = [inf EXCEPT ![r].at = "waiting", ![r].baseline = through,
                             ![r].needed = revision]
    BY <1>11 DEF PauseToWait
  <2> DEFINE q == [i EXCEPT !.at = "waiting", !.baseline = through, !.needed = revision]
  <2>2. inf' = [inf EXCEPT ![r] = q] /\ UNCHANGED world /\ i.tries = 0
    BY <1>1, <1>11, <2>1 DEF PauseToWait
  <2>3. through \in Nat
    BY <1>1
  <2>4. q \in Inference
    BY <1>1, <2>3 DEF Inference, Place
  <2>5. Counted(q)
    BY <1>1, <2>2 DEF Inference, Counted
  <2> HIDE DEF q
  <2> QED BY <2>2, <2>4, <2>5, OneInference
<1>12. CASE PauseToReduce(r)
  <2> DEFINE q == [i EXCEPT !.at = "reducing"]
  <2>1. inf' = [inf EXCEPT ![r] = q] /\ UNCHANGED world /\ ~i.reduced
    BY <1>1, <1>12 DEF PauseToReduce
  <2>2. q \in Inference /\ Counted(q)
    BY <1>1, <2>1 DEF Inference, Place, Counted
  <2> HIDE DEF q
  <2> QED BY <2>1, <2>2, OneInference
<1>13. CASE Resume(r)
  <2> DEFINE q == [i EXCEPT !.at = "preparing", !.tries = i.tries + 1, !.resumed = TRUE]
  <2>1. inf' = [inf EXCEPT ![r] = q] /\ UNCHANGED world /\ i.at = "waiting"
    BY <1>1, <1>13 DEF Resume, At
  <2>2. i.baseline < covered /\ i.needed <= covered
    BY <1>1, <1>13 DEF Resume, Progress, Inference
  <2>3. i.tries + 1 \in Nat
    BY <1>1 DEF Inference
  <2>4. q \in Inference
    BY <1>1, <2>3 DEF Inference, Place
  <2>5. Counted(q)
    BY <1>1, <2>1, <2>2 DEF Inference, Counted
  <2> HIDE DEF q
  <2> QED BY <2>1, <2>4, <2>5, OneInference
<1>14. CASE Reduce(r)
  <2> DEFINE q == [i EXCEPT !.at = "preparing", !.tries = i.tries + 1, !.reduced = TRUE]
  <2>1. inf' = [inf EXCEPT ![r] = q] /\ UNCHANGED world /\ i.at \in {"waiting", "reducing"}
    BY <1>1, <1>14 DEF Reduce, At
  <2>2. i.tries + 1 \in Nat
    BY <1>1 DEF Inference
  <2>3. q \in Inference
    BY <1>1, <2>2 DEF Inference, Place
  <2>4. Counted(q)
    BY <1>1, <2>1 DEF Inference, Counted
  <2> HIDE DEF q
  <2> QED BY <2>1, <2>3, <2>4, OneInference
<1>15. CASE EnterPublish(r)
  <2>1. CASE req'[r].stage # "committing"
    <3>1. Forget(r) /\ UNCHANGED world
      BY <1>15, <2>1 DEF EnterPublish, Forget
    <3> QED BY <3>1, ForgetKeeps
  <2>2. CASE req'[r].stage = "committing"
    <3> DEFINE q == [i EXCEPT !.read = Referable(r)]
    <3>1. inf' = [inf EXCEPT ![r] = q] /\ UNCHANGED world
      BY <1>1, <1>15, <2>2 DEF EnterPublish
    <3>2. Referable(r) \in Reading
      BY <1>7 DEF Referable, Reading
    <3>3. q \in Inference /\ Counted(q)
      BY <1>1, <3>2 DEF Inference, Counted
    <3> HIDE DEF q
    <3> QED BY <3>1, <3>3, OneInference
  <2> QED BY <2>1, <2>2
<1> QED
  BY <1>2, <1>3, <1>4, <1>5, <1>8, <1>9, <1>10, <1>11, <1>12, <1>13, <1>14, <1>15
     DEF InferenceStep
\* A step of a request leaves what the others rest on.
LEMMA OthersUntouched ==
  ASSUME InferenceTypeOK, NEW r \in Requests, InferenceStep(r)
  PROVE  \A s \in Requests \ {r}: inf'[s] = inf[s]
<1>1. CASE Ask(r)
  BY <1>1 DEF Ask
<1>2. CASE Unavailable(r) \/ Outgrow(r) \/ Outdated(r) \/ Publish(r) \/ Leave(r)
  BY <1>2 DEF Unavailable, Outgrow, Outdated, Publish, Leave, Forget, InferenceTypeOK
<1>3. CASE Admit(r) \/ JudgeFixed(r) \/ Prepare(r) \/ EnterPublish(r)
  BY <1>3 DEF Admit, JudgeFixed, Prepare, EnterPublish, InferenceTypeOK
<1>4. CASE PauseToWait(r) \/ PauseToReduce(r) \/ Resume(r) \/ Reduce(r)
  BY <1>4 DEF PauseToWait, PauseToReduce, Resume, Reduce, InferenceTypeOK
<1>5. CASE Decide(r) \/ Finish(r)
  BY <1>5 DEF Decide, Finish, Answer, InferenceTypeOK
<1> QED BY <1>1, <1>2, <1>3, <1>4, <1>5 DEF InferenceStep

\* A step of a request keeps what the committing one rests on.
LEMMA BasisOfStep ==
  ASSUME IInv, InferenceTypeOK, BasisKept, NEW r \in Requests, InferenceStep(r)
  PROVE  BasisKept'
<1>1. CASE EnterPublish(r)
  <2>1. lock' \in {lock, r} /\ lock = NoOne
    BY <1>1 DEF EnterPublish, PublishCheck, CheckNormal, CheckFixed, Duplicate, Rejected,
       EntersCommit
  <2>2. inf'[r].read # "outdated"
    <3>1. CASE req'[r].stage = "committing"
      <4>1. inf'[r].read = Referable(r)
        BY <1>1, <3>1 DEF EnterPublish, InferenceTypeOK, Inference
      <4> QED BY <4>1 DEF Referable
    <3>2. CASE req'[r].stage # "committing"
      BY <1>1, <3>2 DEF EnterPublish, InferenceTypeOK, Idle
    <3> QED BY <3>1, <3>2
  <2> QED BY <2>1, <2>2, KeyAssumption DEF BasisKept
<1>2. CASE Publish(r)
  BY <1>2, KeyAssumption DEF Publish, Commit, BasisKept
<1>3. CASE Leave(r)
  <2>1. lock' \in {lock, NoOne} /\ inf'[r].read = "unread"
    BY <1>3 DEF Leave, Fail, CleanUp, Crash, Forget, Idle, InferenceTypeOK
  <2> QED BY <2>1, OthersUntouched, KeyAssumption DEF BasisKept
<1>4. CASE /\ req[r].stage # "committing"
           /\ lock' = lock
  <2>1. lock # r
    BY <1>4 DEF IInv, LockByCommitter
  <2> QED BY <1>4, <2>1, OthersUntouched DEF BasisKept
<1>5. CASE Ask(r)
  BY <1>4, <1>5 DEF Ask, Check, Refuse
<1>6. CASE Admit(r) \/ Outdated(r)
  BY <1>4, <1>6 DEF Admit, Accept, Outdated, Rejected
<1>7. CASE JudgeFixed(r) \/ Decide(r) \/ Finish(r)
  BY <1>4, <1>7 DEF JudgeFixed, Decide, Finish, Answer, Infer, At, vars
<1>8. CASE Prepare(r) \/ PauseToWait(r) \/ PauseToReduce(r) \/ Resume(r) \/ Reduce(r)
  BY <1>4, <1>8 DEF Prepare, PauseToWait, PauseToReduce, Resume, Reduce, Prepares, At, vars
<1>9. CASE Unavailable(r) \/ Outgrow(r)
  BY <1>4, <1>9 DEF Unavailable, Outgrow, GiveUp
<1> QED
  BY <1>1, <1>2, <1>3, <1>5, <1>6, <1>7, <1>8, <1>9 DEF InferenceStep

\* Nobody rewrites what the committing request rests on.
LEMMA RewriteKeeps ==
  ASSUME InferenceInv, Rewrite
  PROVE  InferenceInv'
<1>1. /\ UNCHANGED <<lock, source, covered>>
      /\ \A r \in Requests: inf'[r] = IF inf[r].read = "current"
                                     THEN [inf[r] EXCEPT !.read = "outdated"] ELSE inf[r]
  BY DEF Rewrite, vars, world
<1>2. InferenceTypeOK'
  BY DEF Rewrite, world, InferenceInv, InferenceTypeOK, Inference, Reading
<1>3. AttemptsCounted'
  <2> SUFFICES ASSUME NEW r \in Requests PROVE Counted(inf[r])'
    BY DEF AttemptsCounted
  <2>1. Counted(inf[r]) /\ inf[r] \in Inference
    BY DEF InferenceInv, InferenceTypeOK, AttemptsCounted
  <2>2. /\ inf'[r].at = inf[r].at /\ inf'[r].tries = inf[r].tries
        /\ inf'[r].resumed = inf[r].resumed /\ inf'[r].reduced = inf[r].reduced
        /\ inf'[r].baseline = inf[r].baseline /\ inf'[r].needed = inf[r].needed
    BY <1>1, <2>1 DEF Inference
  <2> QED BY <1>1, <2>1, <2>2 DEF Counted
<1>4. BasisKept'
  BY <1>1, KeyAssumption DEF InferenceInv, BasisKept, Rewrite, Writable
<1> QED BY <1>2, <1>3, <1>4 DEF InferenceInv

\* A newer summary keeps it.
LEMMA SummariseKeeps ==
  ASSUME TypeOK, InferenceInv, Summarise
  PROVE  InferenceInv'
<1>1. PICK through \in covered + 1 .. revision: covered' = through
  BY DEF Summarise
<1>2. covered \in Nat /\ covered' \in Nat /\ covered < covered'
  BY <1>1 DEF InferenceInv, InferenceTypeOK, TypeOK
<1>3. UNCHANGED <<lock, inf, source>>
  BY DEF Summarise, vars
<1>4. InferenceTypeOK' /\ BasisKept'
  BY <1>2, <1>3 DEF InferenceInv, InferenceTypeOK, BasisKept
<1>5. AttemptsCounted'
  <2> SUFFICES ASSUME NEW r \in Requests PROVE Counted(inf[r])'
    BY DEF AttemptsCounted
  <2>1. Counted(inf[r]) /\ inf[r].baseline \in Nat /\ inf[r].needed \in Nat
    BY DEF InferenceInv, InferenceTypeOK, AttemptsCounted, Inference
  <2> QED BY <1>2, <1>3, <2>1 DEF Counted
<1> QED BY <1>4, <1>5 DEF InferenceInv

\* Every step keeps the invariant of the inference.
LEMMA InferenceInvStep ==
  IInv /\ InferenceInv /\ [InferenceNext]_inferenceVars => InferenceInv'
<1> SUFFICES ASSUME IInv, InferenceInv, [InferenceNext]_inferenceVars PROVE InferenceInv'
  OBVIOUS
<1>1. ASSUME NEW r \in Requests, InferenceStep(r) PROVE InferenceInv'
  BY <1>1, AttemptsOfStep, BasisOfStep DEF IInv, InferenceInv
<1>2. CASE Rewrite
  BY <1>2, RewriteKeeps
<1>3. CASE Summarise
  BY <1>3, SummariseKeeps DEF IInv
<1>4. CASE Others \/ UNCHANGED inferenceVars
  <2>1. UNCHANGED <<lock, inf, source, covered>>
    BY <1>4 DEF Others, LeaseExpires, BeginDeletion, AbortDeletion, world, inferenceVars, vars
  <2> QED BY <2>1 DEF InferenceInv, InferenceTypeOK, AttemptsCounted, Counted, BasisKept
<1> QED BY <1>1, <1>2, <1>3, <1>4 DEF InferenceNext

\* Both invariants hold always.
LEMMA InferenceInvCorrect == InferenceSpec => [](IInv /\ InferenceInv)
<1>1. InferenceInit => InferenceInv
  BY InferenceInvInit
<1>2. IInv /\ InferenceInv /\ [InferenceNext]_inferenceVars => InferenceInv'
  BY InferenceInvStep
<1> QED BY <1>1, <1>2, InferenceRefinesTurns, InvCorrect, PTL DEF InferenceSpec

\* A request is prepared at most three times, and resumes only with a summary
\* newer than its own that reaches what it waited for (the attempts of
\* post_message, _wait_for_context_progress).
THEOREM PressureEnds == InferenceSpec => []PressureSound
<1>1. InferenceInv => PressureSound
  <2> SUFFICES ASSUME InferenceInv, NEW r \in Requests
               PROVE  /\ inf[r].tries <= 2
                      /\ inf[r].resumed /\ ~inf[r].reduced =>
                             inf[r].baseline < covered /\ inf[r].needed <= covered
    BY DEF PressureSound
  <2>1. Counted(inf[r])
    BY DEF InferenceInv, AttemptsCounted
  <2> QED BY <2>1 DEF Counted
<1> QED BY <1>1, InferenceInvCorrect, PTL

\* What a stored reply rests on is current when it commits, and none is stored
\* while the account is deleted: what the publishing transaction compares, its
\* locks keep (post_message, validate_for_publish).
THEOREM RepliesRestOnCurrent == InferenceSpec => PublishedOnCurrent
<1>1. IInv /\ InferenceInv /\ [InferenceNext]_inferenceVars
        => [turns' # turns => inf[lock].read # "outdated"]_inferenceVars
  <2> SUFFICES ASSUME IInv, InferenceInv, [InferenceNext]_inferenceVars, turns' # turns
               PROVE  inf[lock].read # "outdated"
    OBVIOUS
  <2>1. [Next]_vars
    BY InferenceNextMaps
  <2>2. PICK r \in Requests: Commit(r)
    BY <2>1 DEF Next, RequestStep, Check, Accept, Refuse, Infer, PublishCheck, Fail, CleanUp,
       GiveUp, Crash, LeaseExpires, BeginDeletion, AbortDeletion, published, vars
  <2>3. lock = r
    BY <2>2 DEF Commit, IInv, LockByCommitter
  <2> QED BY <2>3 DEF InferenceInv, BasisKept
<1>2. InferenceSpec => [][turns' # turns => inf[lock].read # "outdated"]_inferenceVars
  BY <1>1, InferenceInvCorrect, PTL DEF InferenceSpec
<1>3. InferenceSpec => NoTurnDuringDeletion
  BY InferenceRefinesTurns, DeletionStopsTurns, PTL
<1> QED BY <1>2, <1>3, PTL DEF PublishedOnCurrent
=============================================================================
