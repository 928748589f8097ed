-------------------------- MODULE JobPlatformProofs --------------------------
(***************************************************************************)
(* Proofs about the job platform: JobQueue, for any rows, consumer tasks,  *)
(* subjects and budgets, and ConsumerLoop, for any queues, any finite set  *)
(* of rows and any numbers of slots and rows per claim.                    *)
(*                                                                         *)
(* IInv is the inductive invariant of JobQueue: its invariants and         *)
(* TokensDistinct, which says that a token names one claim.  LoopInv is    *)
(* the one of ConsumerLoop: where a row is (Places), what a claim in       *)
(* flight may still fill (SlotsPromised), and what an unset event means    *)
(* (WakeupPending).                                                        *)
(***************************************************************************)
EXTENDS JobQueue, ConsumerLoop, FiniteSetTheorems, TLAPS

-----------------------------------------------------------------------------
(* JobQueue.                                                                *)

\* A busy task holds a token issued for its row, no two tasks hold the same
\* token of a row, and the row's current token is one that was issued.
TokensDistinct ==
    /\ \A j \in Jobs: token[j] <= issued[j]
    /\ \A w \in Tasks: slot[w] # Idle =>
          /\ slot[w].job \in Jobs
          /\ slot[w].token # NoToken
          /\ slot[w].token <= issued[slot[w].job]
    /\ \A v, w \in Tasks:
          /\ slot[v] # Idle /\ slot[w] # Idle /\ v # w
          /\ slot[v].job = slot[w].job
          => slot[v].token # slot[w].token

IInv == /\ TypeOK
        /\ LeaseIffRunning
        /\ AttemptBudget
        /\ EffectIffSucceeded
        /\ TokensDistinct

-----------------------------------------------------------------------------
(* A step of a consumer task, seen from outside.                           *)

\* The task moves on or ends without writing the row.
Silent(w) ==
    /\ UNCHANGED <<rowVars, blocked>>
    /\ \/ Ends(w)
       \/ \E s \in Stage \ {"idle"}: slot' = [slot EXCEPT ![w].stage = s]

\* A task step is silent, extends a lease it holds, or is one of the four
\* fenced UPDATEs.
LEMMA TaskStepCases ==
    ASSUME NEW w \in Tasks, TaskStep(w)
    PROVE  /\ slot[w] # Idle
           /\ \/ Silent(w) \/ Extend(w) \/ Succeed(w)
              \/ Retry(w) \/ Finish(w) \/ Defer(w)
<1>1. slot[w] # Idle
  BY DEF TaskStep, Idle, Authorize, HandlerEnds, Heartbeat, SuccessSnapshot,
     Finalize, FinalizeSuccess, FinalizeRetryable, FinalizeTerminal,
     FinalizeDeferred, Abandon
<1>2. ASSUME NEW s \in Stage \ {"idle"}, GoesTo(w, s)
      PROVE  Silent(w)
  BY <1>2 DEF GoesTo, Silent
<1>3. CASE Authorize(w)
  BY <1>1, <1>2, <1>3 DEF Authorize, Stage, Outcome
<1>4. CASE \E o \in Outcome: HandlerEnds(w, o)
  BY <1>1, <1>2, <1>4 DEF HandlerEnds, Stage, Outcome
<1>5. CASE Heartbeat(w)
  BY <1>1, <1>5 DEF Heartbeat, LostLease, Silent
<1>6. CASE SuccessSnapshot(w)
  <2>1. CASE GoesTo(w, "publish")
    BY <1>1, <1>2, <2>1 DEF Stage
  <2>2. CASE Ends(w) /\ UNCHANGED <<rowVars, blocked>>
    BY <1>1, <2>2 DEF Silent
  <2>3. QED
    BY <1>6, <2>1, <2>2 DEF SuccessSnapshot
<1>7. CASE Abandon(w)
  BY <1>1, <1>7 DEF Abandon, Silent
<1>8. CASE FinalizeSuccess(w)
  <2>1. CASE DeferWhilePublishing(w)
    BY <1>1, <1>2, <2>1 DEF DeferWhilePublishing, Stage, Outcome
  <2>2. CASE LostLease(w)
    BY <1>1, <2>2 DEF LostLease, Silent
  <2>3. QED
    BY <1>1, <1>8, <2>1, <2>2 DEF FinalizeSuccess
<1>9. CASE FinalizeRetryable(w)
  BY <1>1, <1>9 DEF FinalizeRetryable, LostLease, Silent
<1>10. CASE FinalizeTerminal(w)
  BY <1>1, <1>10 DEF FinalizeTerminal, LostLease, Silent
<1>11. CASE FinalizeDeferred(w)
  BY <1>1, <1>11 DEF FinalizeDeferred, DeferTooLate, LostLease, Silent
<1>12. QED
  BY <1>3, <1>4, <1>5, <1>6, <1>7, <1>8, <1>9, <1>10, <1>11
     DEF TaskStep, Finalize

\* What is known of a busy task from the invariant.
LEMMA BusyTask ==
    ASSUME TypeOK, TokensDistinct, NEW w \in Tasks, slot[w] # Idle
    PROVE  /\ slot[w].job \in Jobs
           /\ slot[w].token \in Nat \ {NoToken}
           /\ slot[w] \in Slot
BY DEF TypeOK, TokensDistinct, Slot, NoToken

-----------------------------------------------------------------------------
(* Typing.                                                                 *)

\* The invariant holds at the start.
LEMMA InitIInv == Init => IInv
BY JobsAssumption, UsersAssumption, BudgetAssumption
   DEF Init, IInv, TypeOK, LeaseIffRunning, AttemptBudget,
       EffectIffSucceeded, TokensDistinct, Idle, NoToken, JobState, Terminal,
       Deadline, Slot, Stage, Outcome

\* Every step keeps the types.
LEMMA NextType ==
    ASSUME IInv, [Next]_vars
    PROVE  TypeOK'
<1> USE DEF IInv
<1>1. ASSUME NEW j \in Jobs, NEW u \in Users \cup {NoUser},
             NEW a \in {"past", "future"}, NEW e \in {"unset", "future"},
             Enqueue(j, u, a, e)
      PROVE  TypeOK'
  BY <1>1 DEF TypeOK, Enqueue, JobState, Deadline
<1>2. ASSUME NEW w \in Tasks, NEW j \in Jobs, Claim(w, j)
      PROVE  TypeOK'
  BY <1>2 DEF TypeOK, Claim, JobState, Deadline, Slot, Stage
<1>3. ASSUME NEW w \in Tasks, TaskStep(w)
      PROVE  TypeOK'
  <2>1. slot[w] # Idle
    BY <1>3, TaskStepCases
  <2>2. slot[w].job \in Jobs /\ slot[w] \in Slot
    BY <2>1, BusyTask
  <2>3. Idle \in Slot
    BY DEF Idle, Slot, Stage, NoToken
  <2>4. CASE Silent(w)
    BY <2>2, <2>3, <2>4 DEF TypeOK, Silent, Ends, rowVars, Slot
  <2>5. CASE Extend(w)
    BY <2>2, <2>5 DEF TypeOK, Extend, Deadline
  <2>6. CASE Succeed(w)
    BY <2>2, <2>3, <2>6 DEF TypeOK, Succeed, Ends, DropLease, JobState,
       Terminal, Deadline, NoToken
  <2>7. CASE Retry(w)
    BY <2>2, <2>3, <2>7 DEF TypeOK, Retry, Ends, DropLease, JobState,
       Terminal, Deadline, NoToken
  <2>8. CASE Finish(w)
    BY <2>2, <2>3, <2>8 DEF TypeOK, Finish, Ends, DropLease, JobState,
       Terminal, Deadline, NoToken
  <2>9. CASE Defer(w)
    BY <2>2, <2>3, <2>9 DEF TypeOK, Defer, Ends, DropLease, JobState,
       Terminal, Deadline, NoToken
  <2>10. QED
    BY <1>3, <2>4, <2>5, <2>6, <2>7, <2>8, <2>9, TaskStepCases
<1>4. ASSUME NEW j \in Jobs, Reap(j)
      PROVE  TypeOK'
  BY <1>4 DEF TypeOK, Reap, ReapTerminalRunning, ReapRetryableRunning,
     ReapTerminalReady, DropLease, GivenUp, JobState, Terminal, Deadline,
     NoToken
<1>5. ASSUME NEW j \in Jobs, TimePasses(j)
      PROVE  TypeOK'
  BY <1>5 DEF TypeOK, TimePasses, LeaseRunsOut, BecomesAvailable, Expires,
     Deadline
<1>6. ASSUME NEW u \in Users, BeginDeletion(u)
      PROVE  TypeOK'
  BY <1>6 DEF TypeOK, BeginDeletion, JobState, Terminal
<1>7. ASSUME NEW u \in Users, AbortDeletion(u)
      PROVE  TypeOK'
  BY <1>7 DEF TypeOK, AbortDeletion, rowVars
<1>8. CASE UNCHANGED vars
  BY <1>8 DEF TypeOK, vars, rowVars
<1>9. QED
  BY <1>1, <1>2, <1>3, <1>4, <1>5, <1>6, <1>7, <1>8 DEF Next

-----------------------------------------------------------------------------
(* Rows: lease, budget and effect.  The three conjuncts lean on one        *)
(* another: a fenced UPDATE finds the row running, so it is not terminal   *)
(* and its effect is not there yet.                                        *)

RowsOK == LeaseIffRunning /\ AttemptBudget /\ EffectIffSucceeded

\* Every step keeps what is known of a row.
LEMMA NextRows ==
    ASSUME IInv, [Next]_vars
    PROVE  RowsOK'
<1> USE DEF IInv
<1>0. TypeOK'
  BY NextType
<1>1. ASSUME NEW j \in Jobs, NEW u \in Users \cup {NoUser},
             NEW a \in {"past", "future"}, NEW e \in {"unset", "future"},
             Enqueue(j, u, a, e)
      PROVE  RowsOK'
  BY <1>1 DEF TypeOK, Enqueue, RowsOK, LeaseIffRunning, AttemptBudget,
     EffectIffSucceeded, NoToken
<1>2. ASSUME NEW w \in Tasks, NEW j \in Jobs, Claim(w, j)
      PROVE  RowsOK'
  BY <1>2 DEF TypeOK, Claim, Claimable, RowsOK, LeaseIffRunning,
     AttemptBudget, EffectIffSucceeded, NoToken
<1>3. ASSUME NEW w \in Tasks, TaskStep(w)
      PROVE  RowsOK'
  <2>1. slot[w].job \in Jobs
    BY <1>3, TaskStepCases, BusyTask
  <2>2. CASE Silent(w)
    BY <2>2 DEF Silent, rowVars, RowsOK, LeaseIffRunning, AttemptBudget,
       EffectIffSucceeded
  <2>3. CASE Extend(w)
    BY <2>1, <2>3 DEF TypeOK, Extend, Fence, RowsOK, LeaseIffRunning,
       AttemptBudget, EffectIffSucceeded
  <2>4. CASE Succeed(w)
    BY <2>1, <2>4 DEF TypeOK, Succeed, Fence, DropLease, RowsOK,
       LeaseIffRunning, AttemptBudget, EffectIffSucceeded, NoToken
  <2>5. CASE Retry(w)
    BY <2>1, <2>5 DEF TypeOK, Retry, Fence, DropLease, RowsOK,
       LeaseIffRunning, AttemptBudget, EffectIffSucceeded, NoToken
  <2>6. CASE Finish(w)
    BY <2>1, <2>6 DEF TypeOK, Finish, Fence, DropLease, RowsOK,
       LeaseIffRunning, AttemptBudget, EffectIffSucceeded, NoToken
  <2>7. CASE Defer(w)
    BY <2>1, <2>7, BudgetAssumption DEF TypeOK, Defer, Fence, DropLease,
       RowsOK, LeaseIffRunning, AttemptBudget, EffectIffSucceeded, NoToken
  <2>8. QED
    BY <1>3, <2>2, <2>3, <2>4, <2>5, <2>6, <2>7, TaskStepCases
<1>4. ASSUME NEW j \in Jobs, Reap(j)
      PROVE  RowsOK'
  <2>1. CASE ReapTerminalRunning(j)
    BY <2>1 DEF TypeOK, ReapTerminalRunning, Reapable, GivenUp, DropLease,
       RowsOK, LeaseIffRunning, AttemptBudget, EffectIffSucceeded, NoToken
  <2>2. CASE ReapRetryableRunning(j)
    BY <2>2 DEF TypeOK, ReapRetryableRunning, Reapable, Exhausted, DropLease,
       RowsOK, LeaseIffRunning, AttemptBudget, EffectIffSucceeded, NoToken
  <2>3. CASE ReapTerminalReady(j)
    BY <2>3 DEF TypeOK, ReapTerminalReady, GivenUp, RowsOK, LeaseIffRunning,
       AttemptBudget, EffectIffSucceeded
  <2>4. QED
    BY <1>4, <2>1, <2>2, <2>3 DEF Reap
<1>5. ASSUME NEW j \in Jobs, TimePasses(j)
      PROVE  RowsOK'
  BY <1>5 DEF TypeOK, TimePasses, LeaseRunsOut, BecomesAvailable, Expires,
     RowsOK, LeaseIffRunning, AttemptBudget, EffectIffSucceeded
<1>6. ASSUME NEW u \in Users, BeginDeletion(u)
      PROVE  RowsOK'
  BY <1>6 DEF TypeOK, BeginDeletion, RowsOK, LeaseIffRunning, AttemptBudget,
     EffectIffSucceeded
<1>7. ASSUME NEW u \in Users, AbortDeletion(u)
      PROVE  RowsOK'
  BY <1>7 DEF AbortDeletion, rowVars, RowsOK, LeaseIffRunning,
     AttemptBudget, EffectIffSucceeded
<1>8. CASE UNCHANGED vars
  BY <1>8 DEF vars, rowVars, RowsOK, LeaseIffRunning, AttemptBudget,
     EffectIffSucceeded
<1>9. QED
  BY <1>1, <1>2, <1>3, <1>4, <1>5, <1>6, <1>7, <1>8 DEF Next

-----------------------------------------------------------------------------
(* Tokens.                                                                 *)

\* Steps that issue no token and only release tokens keep them distinct.
LEMMA TokensReleased ==
    ASSUME IInv, TypeOK',
           issued' = issued,
           \A j \in Jobs: token'[j] = token[j] \/ token'[j] = NoToken,
           \A w \in Tasks: \/ slot'[w] = Idle
                           \/ /\ slot[w] # Idle
                              /\ slot'[w].job = slot[w].job
                              /\ slot'[w].token = slot[w].token
    PROVE  TokensDistinct'
BY DEF IInv, TypeOK, TokensDistinct, NoToken

\* Every step keeps what is known of the tokens handed out.
LEMMA NextTokens ==
    ASSUME IInv, [Next]_vars
    PROVE  TokensDistinct'
<1> USE DEF IInv
<1>0. TypeOK'
  BY NextType
<1>1. ASSUME slot' = slot, issued' = issued,
             \A j \in Jobs: token'[j] = token[j] \/ token'[j] = NoToken
      PROVE  TokensDistinct'
  BY <1>0, <1>1, TokensReleased
<1>2. ASSUME NEW w \in Tasks, NEW j \in Jobs, Claim(w, j)
      PROVE  TokensDistinct'
  <2> DEFINE t == issued[j] + 1
  <2>1. /\ issued[j] \in Nat
        /\ issued' = [issued EXCEPT ![j] = t]
        /\ token' = [token EXCEPT ![j] = t]
        /\ slot' = [slot EXCEPT ![w] = [job |-> j, token |-> t,
                                        stage |-> "claimed"]]
    BY <1>2 DEF Claim, TypeOK
  <2>2. \A i \in Jobs: token'[i] <= issued'[i]
    BY <2>1 DEF TypeOK, TokensDistinct
  <2>3. \A v \in Tasks: v # w => slot'[v] = slot[v]
    BY <2>1 DEF TypeOK
  <2>4. slot'[w] = [job |-> j, token |-> t, stage |-> "claimed"]
    BY <2>1 DEF TypeOK
  <2>5. \A v \in Tasks: v # w /\ slot[v] # Idle /\ slot[v].job = j =>
                          slot[v].token # t
    BY <2>1, BusyTask DEF TokensDistinct
  <2>6. \A v \in Tasks: slot'[v] # Idle =>
            /\ slot'[v].job \in Jobs
            /\ slot'[v].token # NoToken
            /\ slot'[v].token <= issued'[slot'[v].job]
    <3> TAKE v \in Tasks
    <3>1. CASE v = w
      BY <2>1, <2>4, <3>1 DEF TypeOK, NoToken
    <3>2. CASE v # w /\ slot[v] # Idle
      BY <2>1, <2>3, <3>2, BusyTask DEF TypeOK, TokensDistinct
    <3>3. QED
      BY <2>3, <3>1, <3>2
  <2>7. \A u, v \in Tasks:
            /\ slot'[u] # Idle /\ slot'[v] # Idle /\ u # v
            /\ slot'[u].job = slot'[v].job
            => slot'[u].token # slot'[v].token
    BY <2>3, <2>4, <2>5 DEF TokensDistinct
  <2>8. QED
    BY <2>2, <2>6, <2>7 DEF TokensDistinct, Idle
<1>3. ASSUME NEW w \in Tasks, TaskStep(w)
      PROVE  TokensDistinct'
  <2>1. slot[w] # Idle /\ slot[w].job \in Jobs /\ slot[w] \in Slot
    BY <1>3, TaskStepCases, BusyTask
  <2>2. issued' = issued
    BY <1>3, TaskStepCases DEF Silent, Extend, Succeed, Retry, Finish, Defer,
       rowVars
  <2>3. \A j \in Jobs: token'[j] = token[j] \/ token'[j] = NoToken
    BY <1>3, TaskStepCases DEF TypeOK, Silent, Extend, Succeed, Retry, Finish,
       Defer, DropLease, rowVars
  <2>4. \A v \in Tasks: \/ slot'[v] = Idle
                        \/ slot'[v] = slot[v]
                        \/ /\ slot[v] # Idle
                           /\ slot'[v].job = slot[v].job
                           /\ slot'[v].token = slot[v].token
    BY <1>3, <2>1, TaskStepCases DEF TypeOK, Slot, Silent, Extend, Succeed,
       Retry, Finish, Defer, Ends
  <2>5. QED
    BY <1>0, <2>2, <2>3, <2>4, TokensReleased
<1>4. ASSUME NEW j \in Jobs, NEW u \in Users \cup {NoUser},
             NEW a \in {"past", "future"}, NEW e \in {"unset", "future"},
             Enqueue(j, u, a, e)
      PROVE  TokensDistinct'
  BY <1>1, <1>4 DEF Enqueue
<1>5. ASSUME NEW j \in Jobs, Reap(j)
      PROVE  TokensDistinct'
  BY <1>1, <1>5 DEF TypeOK, Reap, ReapTerminalRunning, ReapRetryableRunning,
     ReapTerminalReady, DropLease
<1>6. ASSUME NEW j \in Jobs, TimePasses(j)
      PROVE  TokensDistinct'
  BY <1>1, <1>6 DEF TimePasses, LeaseRunsOut, BecomesAvailable, Expires
<1>7. ASSUME NEW u \in Users, BeginDeletion(u) \/ AbortDeletion(u)
      PROVE  TokensDistinct'
  BY <1>1, <1>7 DEF BeginDeletion, AbortDeletion, rowVars
<1>8. CASE UNCHANGED vars
  BY <1>1, <1>8 DEF vars, rowVars
<1>9. QED
  BY <1>2, <1>3, <1>4, <1>5, <1>6, <1>7, <1>8 DEF Next

-----------------------------------------------------------------------------
(* The theorems.                                                           *)

\* The inductive invariant holds throughout.
THEOREM Invariance == Spec => []IInv
<1>1. IInv /\ [Next]_vars => IInv'
  BY NextType, NextRows, NextTokens DEF IInv, RowsOK
<1>2. QED
  BY <1>1, InitIInv, PTL DEF Spec

\* Type correctness of the rows, the barrier and the consumer slots.
THEOREM TypeCorrect == Spec => []TypeOK
BY Invariance, PTL DEF IInv

\* No statement of any actor breaks the lease columns' CHECK constraint.
THEOREM LeaseCorrect == Spec => []LeaseIffRunning
BY Invariance, PTL DEF IInv

\* Crashes, retries, reaps and deferrals never overdraw the failure budget,
\* and never leave a ready row without an attempt.
THEOREM BudgetKept == Spec => []AttemptBudget
BY Invariance, PTL DEF IInv

\* A committed domain effect and a succeeded row are the same thing.
THEOREM EffectOnce == Spec => []EffectIffSucceeded
BY Invariance, PTL DEF IInv

\* At most one task passes the fence of a row.
THEOREM FenceExclusive == Spec => []SingleHolder
<1>1. IInv => SingleHolder
  BY DEF IInv, TokensDistinct, SingleHolder, Fence
<1>2. QED
  BY <1>1, Invariance, PTL

-----------------------------------------------------------------------------
(* Action properties and refinement.                                       *)

\* What one step does to the state and the effects of all rows: it opens an
\* absent row, moves an open row between ready and running, completes it,
\* gives it up, or cancels the ready rows of one subject.
RowStep ==
    \/ \E j \in Jobs: /\ state[j] = "absent"
                      /\ state' = [state EXCEPT ![j] = "ready"]
                      /\ UNCHANGED applied
    \/ \E j \in Jobs, s \in {"ready", "running", "dead", "cancelled"}:
          /\ state[j] \in {"ready", "running"}
          /\ state' = [state EXCEPT ![j] = s]
          /\ UNCHANGED applied
    \/ \E j \in Jobs: /\ state[j] = "running"
                      /\ state' = [state EXCEPT ![j] = "succeeded"]
                      /\ applied' = [applied EXCEPT ![j] = @ + 1]
    \/ \E S \in SUBSET Jobs:
          /\ \A j \in S: state[j] = "ready"
          /\ state' = [j \in Jobs |-> IF j \in S THEN "cancelled" ELSE state[j]]
          /\ UNCHANGED applied
    \/ UNCHANGED <<state, applied>>

\* What a single step may change of a row.
LEMMA RowSteps ==
    ASSUME IInv, [Next]_vars
    PROVE  RowStep
<1> USE DEF IInv
<1>1. ASSUME NEW w \in Tasks, TaskStep(w)
      PROVE  RowStep
  <2>1. slot[w].job \in Jobs
    BY <1>1, TaskStepCases, BusyTask
  <2>2. QED
    BY <1>1, <2>1, TaskStepCases DEF Silent, Extend, Succeed, Retry, Finish,
       Defer, Fence, RowStep, rowVars
<1>2. ASSUME NEW u \in Users, BeginDeletion(u)
      PROVE  RowStep
  <2> DEFINE S == {j \in Jobs: owner[j] = u /\ state[j] = "ready"}
  <2>1. /\ S \in SUBSET Jobs
        /\ \A j \in S: state[j] = "ready"
        /\ state' = [j \in Jobs |-> IF j \in S THEN "cancelled" ELSE state[j]]
        /\ UNCHANGED applied
    BY <1>2 DEF BeginDeletion
  <2>2. QED
    BY <2>1 DEF RowStep
<1>3. ASSUME NEW j \in Jobs, Reap(j)
      PROVE  RowStep
  BY <1>3 DEF Reap, ReapTerminalRunning, ReapRetryableRunning,
     ReapTerminalReady, Reapable, GivenUp, RowStep
<1>4. QED
  BY <1>1, <1>2, <1>3 DEF Next, RowStep, Enqueue, Claim, Claimable,
     TimePasses, LeaseRunsOut, BecomesAvailable, Expires, AbortDeletion, vars,
     rowVars

\* A claim, the only step that changes attempt, does not touch closed rows.
LEMMA AttemptKept ==
    ASSUME IInv, [Next]_vars, NEW j \in Jobs, state[j] \in Terminal
    PROVE  attempt'[j] = attempt[j]
<1>1. ASSUME NEW w \in Tasks, TaskStep(w)
      PROVE  attempt' = attempt
  BY <1>1, TaskStepCases DEF Silent, Extend, Succeed, Retry, Finish, Defer,
     rowVars
<1>2. ASSUME NEW w \in Tasks, NEW i \in Jobs, Claim(w, i)
      PROVE  attempt'[j] = attempt[j]
  BY <1>2 DEF IInv, TypeOK, Claim, Claimable, Terminal
<1>3. QED
  BY <1>1, <1>2 DEF Next, Enqueue, Reap, ReapTerminalRunning,
     ReapRetryableRunning, ReapTerminalReady, TimePasses, LeaseRunsOut,
     BecomesAvailable, Expires, BeginDeletion, AbortDeletion, vars, rowVars

\* A closed row is never revived and never charged or applied again.
THEOREM ClosedForGood == Spec => TerminalIsFinal
<1>1. ASSUME IInv, [Next]_vars
      PROVE  \A j \in Jobs: state[j] \in Terminal =>
                /\ state'[j] = state[j]
                /\ applied'[j] = applied[j]
                /\ attempt'[j] = attempt[j]
  BY <1>1, RowSteps, AttemptKept DEF IInv, TypeOK, RowStep, Terminal
<1>2. QED
  BY <1>1, Invariance, PTL DEF Spec, TerminalIsFinal

\* Every behaviour of the platform is one of the abstract job.
THEOREM Refinement == Spec => ImplementsJobAbstract
<1>1. Init => Abstract!Init
  BY DEF Init, Abstract!Init, Phase
<1>2. ASSUME IInv, [Next]_vars
      PROVE  [Abstract!Next]_(Abstract!avars)
  <2> USE DEF IInv
  <2>1. RowStep
    BY <1>2, RowSteps
  <2>2. CASE \E j \in Jobs: /\ state[j] = "absent"
                           /\ state' = [state EXCEPT ![j] = "ready"]
                           /\ UNCHANGED applied
    <3>1. PICK j \in Jobs: /\ state[j] = "absent"
                           /\ state' = [state EXCEPT ![j] = "ready"]
                           /\ UNCHANGED applied
      BY <2>2
    <3>2. Abstract!Open(j)
      BY <1>2, <3>1 DEF TypeOK, Abstract!Open, Phase
    <3>3. QED
      BY <3>2 DEF Abstract!Next
  <2>3. CASE \E j \in Jobs, s \in {"ready", "running", "dead", "cancelled"}:
               /\ state[j] \in {"ready", "running"}
               /\ state' = [state EXCEPT ![j] = s]
               /\ UNCHANGED applied
    <3>1. PICK j \in Jobs, s \in {"ready", "running", "dead", "cancelled"}:
               /\ state[j] \in {"ready", "running"}
               /\ state' = [state EXCEPT ![j] = s]
               /\ UNCHANGED applied
      BY <2>3
    <3>2. CASE s \in {"ready", "running"}
      BY <1>2, <3>1, <3>2 DEF TypeOK, Abstract!avars, Phase
    <3>3. CASE s \in {"dead", "cancelled"}
      <4>1. Abstract!GiveUp(j, s)
        BY <1>2, <3>1, <3>3 DEF TypeOK, Abstract!GiveUp, Phase
      <4>2. QED
        BY <3>3, <4>1 DEF Abstract!Next
    <3>4. QED
      BY <3>1, <3>2, <3>3
  <2>4. CASE \E j \in Jobs: /\ state[j] = "running"
                           /\ state' = [state EXCEPT ![j] = "succeeded"]
                           /\ applied' = [applied EXCEPT ![j] = @ + 1]
    <3>1. PICK j \in Jobs: /\ state[j] = "running"
                           /\ state' = [state EXCEPT ![j] = "succeeded"]
                           /\ applied' = [applied EXCEPT ![j] = @ + 1]
      BY <2>4
    <3>2. Abstract!Complete(j)
      BY <1>2, <3>1 DEF TypeOK, Abstract!Complete, Phase
    <3>3. QED
      BY <3>2 DEF Abstract!Next
  <2>5. CASE \E S \in SUBSET Jobs:
               /\ \A j \in S: state[j] = "ready"
               /\ state' = [j \in Jobs |->
                              IF j \in S THEN "cancelled" ELSE state[j]]
               /\ UNCHANGED applied
    <3>1. PICK S \in SUBSET Jobs:
               /\ \A j \in S: state[j] = "ready"
               /\ state' = [j \in Jobs |->
                              IF j \in S THEN "cancelled" ELSE state[j]]
               /\ UNCHANGED applied
      BY <2>5
    <3>2. Abstract!CancelSome(S)
      BY <1>2, <3>1 DEF TypeOK, Abstract!CancelSome, Phase
    <3>3. QED
      BY <3>2 DEF Abstract!Next
  <2>6. CASE UNCHANGED <<state, applied>>
    BY <2>6 DEF Abstract!avars, Phase
  <2>7. QED
    BY <2>1, <2>2, <2>3, <2>4, <2>5, <2>6 DEF RowStep
<1>3. QED
  BY <1>1, <1>2, Invariance, PTL DEF Spec, ImplementsJobAbstract, Abstract!Spec

-----------------------------------------------------------------------------
(* ConsumerLoop.                                                            *)

\* A row is in one place: waiting in the database, in the answer of a claim,
\* or with a task, which holds a slot of the row's queue until it left it.
Places ==
    /\ \A q \in Queues: batch[q] # {} => loop[q] = "answered"
    /\ \A q \in Queues: \A j \in batch[q]:
          QueueOf[j] = q /\ row[j] = "running" /\ task[j] = "none"
    /\ \A q \in Queues: tasks[q] = {j \in Rows: QueueOf[j] = q /\ task[j] # "none"}
    /\ \A j \in Rows: task[j] = "running" => row[j] = "running"
    /\ \A j \in Rows: row[j] = "ready" => task[j] = "none"
    /\ ClaimedRowHasTask

\* A claim in flight asked for at least one row and at most the free slots;
\* its answer fits too.
SlotsPromised ==
    \A q \in Queues:
        /\ Cardinality(tasks[q]) <= Concurrency
        /\ loop[q] = "claiming" => /\ room[q] >= 1
                                   /\ Cardinality(tasks[q]) + room[q] <= Concurrency
        /\ loop[q] = "answered" =>
              Cardinality(tasks[q]) + Cardinality(batch[q]) <= Concurrency

\* From the moment a claim found nothing, an unset event means that no task
\* has finished since beside a row of the queue that is ready.
WakeupPending ==
    /\ \A j \in signalled: row[j] = "ready"
    /\ \A q \in Queues:
          /\ loop[q] \in {"answered", "empty"}
          /\ batch[q] = {}
          /\ ~wake[q]
          => ReadyRows(q) \cap signalled = {}

LoopInv == /\ LoopTypeOK
        /\ Places
        /\ SlotsPromised
        /\ WakeupPending
        /\ EndedLoopIsDrained

-----------------------------------------------------------------------------
(* Counting slots.                                                         *)

\* Sets of rows are finite, and their sizes are numbers.
LEMMA RowSetsFinite ==
    ASSUME NEW S \in SUBSET Rows
    PROVE  IsFiniteSet(S) /\ Cardinality(S) \in Nat
BY RowAssumption, FS_Subset, FS_CardinalityType

\* BatchSize is between one and the free slots whenever a slot is free.
LEMMA BatchFitsSlots ==
    ASSUME NEW held \in SUBSET Rows, Free(held) > 0
    PROVE  /\ BatchSize(held) \in Nat
           /\ BatchSize(held) >= 1
           /\ Cardinality(held) + BatchSize(held) <= Concurrency
<1>1. Cardinality(held) \in Nat
  BY RowSetsFinite
<1>2. QED
  BY <1>1, SlotAssumption DEF Free, BatchSize, Smaller

\* Two sets of rows fill together no more slots than their sizes add up to.
LEMMA UnionFits ==
    ASSUME NEW S \in SUBSET Rows, NEW T \in SUBSET Rows,
           Cardinality(S) + Cardinality(T) <= Concurrency
    PROVE  Cardinality(S \cup T) <= Concurrency
<1>1. /\ IsFiniteSet(S) /\ IsFiniteSet(T)
      /\ Cardinality(S) \in Nat /\ Cardinality(T) \in Nat
      /\ Cardinality(S \cap T) \in Nat
  BY RowSetsFinite
<1>2. Cardinality(S \cup T) = Cardinality(S) + Cardinality(T) - Cardinality(S \cap T)
  BY <1>1, FS_Union
<1>3. QED
  BY <1>1, <1>2, SlotAssumption

\* A queue whose slots give a row back holds no more than before.
LEMMA SlotGivenBack ==
    ASSUME NEW S \in SUBSET Rows, NEW j \in Rows
    PROVE  Cardinality(S \ {j}) <= Cardinality(S)
BY RowSetsFinite, FS_Subset

-----------------------------------------------------------------------------
(* The steps.                                                              *)

\* LoopInit sets up the invariant: no row is claimed and no slot taken.
LEMMA InvInit == LoopInit => LoopInv
<1> SUFFICES ASSUME LoopInit PROVE LoopInv
  OBVIOUS
<1>1. Cardinality({}) = 0
  BY FS_EmptySet
<1>2. LoopTypeOK
  BY DEF LoopInit, LoopTypeOK, LoopStage, TaskStage
<1>3. Places
  BY DEF LoopInit, Places, ClaimedRowHasTask
<1>4. SlotsPromised
  BY <1>1, SlotAssumption DEF LoopInit, SlotsPromised
<1>5. WakeupPending /\ EndedLoopIsDrained
  BY DEF LoopInit, WakeupPending, EndedLoopIsDrained
<1>6. QED
  BY <1>2, <1>3, <1>4, <1>5 DEF LoopInv

\* A row that becomes ready elsewhere is none of those a wake-up is about, and
\* one that is taken elsewhere stops being one.
LEMMA RowsElsewhereKeep ==
    ASSUME LoopInv, NEW j \in Rows, BecomesReady(j) \/ TakenElsewhere(j)
    PROVE  LoopInv'
<1> USE DEF LoopInv
<1>1. LoopTypeOK'
  BY DEF LoopTypeOK, BecomesReady, TakenElsewhere, slotVars
<1>2. Places'
  BY DEF LoopTypeOK, Places, ClaimedRowHasTask, BecomesReady, TakenElsewhere, slotVars
<1>3. SlotsPromised'
  BY DEF SlotsPromised, BecomesReady, TakenElsewhere, slotVars
<1>4. WakeupPending'
  BY DEF LoopTypeOK, WakeupPending, ReadyRows, BecomesReady, TakenElsewhere, slotVars
<1>5. EndedLoopIsDrained'
  BY DEF EndedLoopIsDrained, BecomesReady, TakenElsewhere, slotVars
<1>6. QED
  BY <1>1, <1>2, <1>3, <1>4, <1>5

\* A loop that stops waiting, loses its claim or ends moves nothing else; only
\* one whose tasks are all over ends.
LEMMA LoopMovesKeep ==
    ASSUME LoopInv, NEW q \in Queues, Signal(q) \/ ClaimFails(q) \/ Drain(q)
    PROVE  LoopInv'
<1> USE DEF LoopInv
<1>1. LoopTypeOK'
  BY DEF LoopTypeOK, LoopStage, Signal, ClaimFails, Drain, slotVars
<1>2. Places'
  <2>1. UNCHANGED <<row, batch, tasks, task>>
    BY DEF Signal, ClaimFails, Drain, slotVars
  <2>2. loop[q] # "answered" /\ \A p \in Queues \ {q}: loop'[p] = loop[p]
    BY DEF LoopTypeOK, Signal, ClaimFails, Drain
  <2>3. \A p \in Queues: loop[p] = "answered" => loop'[p] = "answered"
    BY <2>2
  <2>4. ClaimedRowHasTask'
    BY <2>1, <2>3, QueueAssumption DEF Places, ClaimedRowHasTask
  <2>5. QED
    BY <2>1, <2>3, <2>4 DEF Places
<1>3. SlotsPromised'
  BY DEF LoopTypeOK, SlotsPromised, Signal, ClaimFails, Drain, slotVars
<1>4. WakeupPending'
  BY DEF LoopTypeOK, WakeupPending, ReadyRows, Signal, ClaimFails, Drain, slotVars
<1>5. EndedLoopIsDrained'
  <2>1. CASE Signal(q) \/ ClaimFails(q)
    BY <2>1 DEF LoopTypeOK, EndedLoopIsDrained, Signal, ClaimFails, slotVars
  <2>2. CASE Drain(q)
    BY <2>2 DEF LoopTypeOK, Places, EndedLoopIsDrained, Drain, slotVars
  <2>3. QED
    BY <2>1, <2>2
<1>6. QED
  BY <1>1, <1>2, <1>3, <1>4, <1>5

\* What a pass of the loop does to what it may ask for: it goes to drain or to
\* full, or it claims what fits beside the rows it holds.
LEMMA PassAsksWhatFits ==
    ASSUME LoopTypeOK, NEW q \in Queues, NEW held \in SUBSET Rows, Iterate(q, held)
    PROVE  /\ \E l \in {"drain", "full", "claiming"}:
                 /\ loop' = [loop EXCEPT ![q] = l]
                 /\ l = "claiming" => /\ room'[q] >= 1
                                      /\ Cardinality(held) + room'[q] <= Concurrency
           /\ room' \in [Queues -> Nat]
           /\ \A p \in Queues \ {q}: room'[p] = room[p] /\ wake'[p] = wake[p]
           /\ wake' \in [Queues -> BOOLEAN]
<1>1. CASE stop
  BY <1>1 DEF Iterate, LoopTypeOK
<1>2. CASE ~stop /\ Free(held) <= 0
  <2>1. Cardinality(held) \in Nat
    BY RowSetsFinite
  <2>2. ~(Free(held) > 0)
    BY <1>2, <2>1, SlotAssumption DEF Free
  <2>3. QED
    BY <1>2, <2>2 DEF Iterate, LoopTypeOK
<1>3. CASE ~stop /\ ~(Free(held) <= 0)
  <2>1. Free(held) > 0
    BY <1>3 DEF Iterate
  <2>2. QED
    BY <1>3, <2>1, BatchFitsSlots DEF Iterate, LoopTypeOK
<1>4. QED
  BY <1>1, <1>2, <1>3

\* A pass from the top of the loop.
LEMMA ResumeKeeps ==
    ASSUME LoopInv, NEW q \in Queues, Resume(q)
    PROVE  LoopInv'
<1> USE DEF LoopInv
<1>1. tasks[q] \in SUBSET Rows
  BY DEF LoopTypeOK
<1>2. /\ \E l \in {"drain", "full", "claiming"}:
             /\ loop' = [loop EXCEPT ![q] = l]
             /\ l = "claiming" => /\ room'[q] >= 1
                                  /\ Cardinality(tasks[q]) + room'[q] <= Concurrency
      /\ room' \in [Queues -> Nat]
      /\ \A p \in Queues \ {q}: room'[p] = room[p] /\ wake'[p] = wake[p]
      /\ wake' \in [Queues -> BOOLEAN]
  BY <1>1, PassAsksWhatFits DEF Resume
<1>3. loop[q] = "resuming" /\ UNCHANGED <<row, stop, signalled, batch, tasks, task>>
  BY DEF Resume
<1>4. PICK l \in {"drain", "full", "claiming"}:
         /\ loop' = [loop EXCEPT ![q] = l]
         /\ l = "claiming" => /\ room'[q] >= 1
                              /\ Cardinality(tasks[q]) + room'[q] <= Concurrency
  BY <1>2
<1>5. LoopTypeOK'
  BY <1>2, <1>3, <1>4 DEF LoopTypeOK, LoopStage
<1>6. Places'
  BY <1>3, <1>4 DEF LoopTypeOK, Places, ClaimedRowHasTask
<1>7. SlotsPromised'
  BY <1>2, <1>3, <1>4 DEF LoopTypeOK, SlotsPromised
<1>8. WakeupPending'
  BY <1>2, <1>3, <1>4 DEF LoopTypeOK, WakeupPending, ReadyRows
<1>9. EndedLoopIsDrained'
  BY <1>3, <1>4 DEF LoopTypeOK, EndedLoopIsDrained
<1>10. QED
  BY <1>5, <1>6, <1>7, <1>8, <1>9

\* A claim takes no more than it asked for; it comes back empty only when no
\* row of the queue is ready.
LEMMA ClaimKeeps ==
    ASSUME LoopInv, NEW q \in Queues, ClaimRuns(q)
    PROVE  LoopInv'
<1> USE DEF LoopInv
<1>1. PICK S \in SUBSET ReadyRows(q):
         /\ Cardinality(S) = Smaller(room[q], Cardinality(ReadyRows(q)))
         /\ batch' = [batch EXCEPT ![q] = S]
         /\ row'   = [j \in Rows |-> IF j \in S THEN "running" ELSE row[j]]
         /\ signalled' = signalled \ S
  BY DEF ClaimRuns
<1>2. /\ loop[q] = "claiming"
      /\ loop' = [loop EXCEPT ![q] = "answered"]
      /\ UNCHANGED <<wake, stop, room, tasks, task>>
  BY DEF ClaimRuns
<1>3. S \in SUBSET Rows /\ ReadyRows(q) \in SUBSET Rows
  BY DEF ReadyRows
<1>4. \A j \in S: QueueOf[j] = q /\ row[j] = "ready" /\ task[j] = "none"
  BY DEF ReadyRows, Places
<1>5. LoopTypeOK'
  BY <1>1, <1>2, <1>3 DEF LoopTypeOK, LoopStage
<1>6. Places'
  BY <1>1, <1>2, <1>3, <1>4 DEF LoopTypeOK, Places, ClaimedRowHasTask
<1>7. SlotsPromised'
  <2>1. Cardinality(S) <= room[q]
    <3>1. Cardinality(ReadyRows(q)) \in Nat /\ room[q] \in Nat
      BY <1>3, RowSetsFinite DEF LoopTypeOK
    <3>2. QED
      BY <1>1, <3>1 DEF Smaller
  <2>2. Cardinality(S) \in Nat /\ Cardinality(tasks[q]) \in Nat /\ room[q] \in Nat
    BY <1>3, RowSetsFinite DEF LoopTypeOK
  <2>3. Cardinality(tasks[q]) + Cardinality(S) <= Concurrency
    BY <1>2, <2>1, <2>2, SlotAssumption DEF SlotsPromised
  <2>4. QED
    BY <1>1, <1>2, <2>3 DEF LoopTypeOK, SlotsPromised
<1>8. WakeupPending'
  <2>1. S = {} => ReadyRows(q) = {}
    <3>1. SUFFICES ASSUME S = {} PROVE ReadyRows(q) = {}
      OBVIOUS
    <3>2. Cardinality(S) = 0
      BY <3>1, FS_EmptySet
    <3>3. room[q] \in Nat /\ room[q] >= 1 /\ Cardinality(ReadyRows(q)) \in Nat
      BY <1>2, <1>3, RowSetsFinite DEF LoopTypeOK, SlotsPromised
    <3>4. Cardinality(ReadyRows(q)) = 0
      BY <1>1, <3>2, <3>3 DEF Smaller
    <3>5. QED
      BY <1>3, <3>4, RowSetsFinite, FS_EmptySet
  <2>2. \A j \in signalled': row'[j] = "ready"
    BY <1>1, <1>3 DEF LoopTypeOK, WakeupPending
  <2>3. \A p \in Queues: ReadyRows(p)' \subseteq ReadyRows(p)
    BY <1>1 DEF ReadyRows
  <2>4. ASSUME NEW p \in Queues, loop'[p] \in {"answered", "empty"}, batch'[p] = {},
               ~wake'[p]
        PROVE  ReadyRows(p)' \cap signalled' = {}
    <3>1. CASE p = q
      BY <1>1, <2>1, <2>3, <2>4, <3>1 DEF LoopTypeOK
    <3>2. CASE p # q
      BY <1>1, <1>2, <2>3, <2>4, <3>2 DEF LoopTypeOK, WakeupPending
    <3>3. QED
      BY <3>1, <3>2
  <2>5. QED
    BY <2>2, <2>4 DEF WakeupPending
<1>9. EndedLoopIsDrained'
  BY <1>1, <1>2 DEF LoopTypeOK, EndedLoopIsDrained
<1>10. QED
  BY <1>5, <1>6, <1>7, <1>8, <1>9

\* The answer of a claim: nothing, and the loop sleeps, or rows, and each gets a
\* task in a slot of its queue.
LEMMA AnswerKeeps ==
    ASSUME LoopInv, NEW q \in Queues, ClaimReturns(q)
    PROVE  LoopInv'
<1> USE DEF LoopInv
<1>1. loop[q] = "answered" /\ UNCHANGED <<row, stop, signalled>>
  BY DEF ClaimReturns
<1>2. CASE batch[q] = {} /\ FallsAsleepEmpty(q)
  <2>1. /\ loop' = [loop EXCEPT ![q] = "empty"]
        /\ UNCHANGED <<wake, room, batch, tasks, task>>
    BY <1>2 DEF FallsAsleepEmpty
  <2>2. LoopTypeOK'
    BY <1>1, <2>1 DEF LoopTypeOK, LoopStage
  <2>3. Places'
    <3>1. \A j \in Rows: j \in batch[QueueOf[j]] => QueueOf[j] # q
      BY <1>2
    <3>2. QED
      BY <1>1, <1>2, <2>1, <3>1, QueueAssumption DEF LoopTypeOK, Places, ClaimedRowHasTask
  <2>4. SlotsPromised'
    BY <1>1, <2>1 DEF LoopTypeOK, SlotsPromised
  <2>5. WakeupPending'
    BY <1>1, <1>2, <2>1 DEF LoopTypeOK, WakeupPending, ReadyRows
  <2>6. EndedLoopIsDrained'
    BY <1>1, <2>1 DEF LoopTypeOK, EndedLoopIsDrained
  <2>7. QED
    BY <2>2, <2>3, <2>4, <2>5, <2>6
<1>3. CASE batch[q] # {} /\ Spawns(q)
  <2> DEFINE held == tasks[q] \cup batch[q]
  <2>1. /\ tasks' = [tasks EXCEPT ![q] = held]
        /\ task'  = [j \in Rows |-> IF j \in batch[q] THEN "running" ELSE task[j]]
        /\ batch' = [batch EXCEPT ![q] = {}]
        /\ Iterate(q, held)
    BY <1>3 DEF Spawns
  <2>2. held \in SUBSET Rows /\ tasks[q] \in SUBSET Rows /\ batch[q] \in SUBSET Rows
    BY DEF LoopTypeOK
  <2>3. /\ \E l \in {"drain", "full", "claiming"}:
               /\ loop' = [loop EXCEPT ![q] = l]
               /\ l = "claiming" => /\ room'[q] >= 1
                                    /\ Cardinality(held) + room'[q] <= Concurrency
        /\ room' \in [Queues -> Nat]
        /\ \A p \in Queues \ {q}: room'[p] = room[p] /\ wake'[p] = wake[p]
        /\ wake' \in [Queues -> BOOLEAN]
    BY <2>1, <2>2, PassAsksWhatFits
  <2>4. PICK l \in {"drain", "full", "claiming"}:
           /\ loop' = [loop EXCEPT ![q] = l]
           /\ l = "claiming" => /\ room'[q] >= 1
                                /\ Cardinality(held) + room'[q] <= Concurrency
    BY <2>3
  <2> HIDE DEF held
  <2>5. Cardinality(held) <= Concurrency
    BY <1>1, <2>2, UnionFits DEF SlotsPromised, held
  <2>6. LoopTypeOK'
    BY <1>1, <2>1, <2>2, <2>3, <2>4 DEF LoopTypeOK, LoopStage, TaskStage
  <2>7. Places'
    <3>1. \A p \in Queues: batch'[p] # {} => p # q /\ batch'[p] = batch[p]
      BY <2>1 DEF LoopTypeOK
    <3>2. \A p \in Queues: p # q => loop'[p] = loop[p] /\ tasks'[p] = tasks[p]
      BY <2>1, <2>4 DEF LoopTypeOK
    <3>3. \A j \in batch[q]: /\ QueueOf[j] = q /\ row[j] = "running"
                             /\ task[j] = "none" /\ task'[j] = "running" /\ j \in Rows
      BY <2>1, <2>2 DEF Places
    <3>4. \A j \in Rows: j \notin batch[q] => task'[j] = task[j]
      BY <2>1
    <3>5. \A p \in Queues: batch'[p] # {} => loop'[p] = "answered"
      BY <3>1, <3>2 DEF Places
    <3>6. \A p \in Queues: \A j \in batch'[p]:
             QueueOf[j] = p /\ row'[j] = "running" /\ task'[j] = "none"
      BY <1>1, <3>1, <3>3, <3>4 DEF Places, LoopTypeOK
    <3>7. \A p \in Queues: tasks'[p] = {j \in Rows: QueueOf[j] = p /\ task'[j] # "none"}
      <4>1. tasks'[q] = held
        BY <2>1 DEF LoopTypeOK
      <4>2. held = {j \in Rows: QueueOf[j] = q /\ task'[j] # "none"}
        BY <3>3, <3>4, <2>2 DEF held, Places
      <4>3. ASSUME NEW p \in Queues, p # q
            PROVE  tasks'[p] = {j \in Rows: QueueOf[j] = p /\ task'[j] # "none"}
        BY <3>2, <3>3, <3>4, <4>3 DEF Places
      <4>4. QED
        BY <4>1, <4>2, <4>3
    <3>8. \A j \in Rows: task'[j] = "running" => row'[j] = "running"
      BY <1>1, <3>3, <3>4 DEF Places
    <3>9. \A j \in Rows: row'[j] = "ready" => task'[j] = "none"
      BY <1>1, <3>3, <3>4 DEF Places
    <3>10. ClaimedRowHasTask'
      <4>1. SUFFICES ASSUME NEW j \in Rows, row'[j] = "running"
                     PROVE  \/ /\ j \in batch'[QueueOf[j]]
                               /\ loop'[QueueOf[j]] = "answered"
                            \/ j \in tasks'[QueueOf[j]] /\ task'[j] = "running"
        BY DEF ClaimedRowHasTask
      <4>2. QueueOf[j] \in Queues
        BY QueueAssumption
      <4>3. CASE j \in batch[q]
        BY <3>3, <3>7, <4>2, <4>3
      <4>4. CASE j \notin batch[q] /\ j \in batch[QueueOf[j]] /\ loop[QueueOf[j]] = "answered"
        <5>1. QueueOf[j] # q
          BY <4>4
        <5>2. batch'[QueueOf[j]] = batch[QueueOf[j]]
          BY <2>1, <4>2, <5>1 DEF LoopTypeOK
        <5>3. QED
          BY <3>2, <4>2, <4>4, <5>1, <5>2
      <4>5. CASE j \notin batch[q] /\ task[j] = "running"
        BY <3>4, <3>7, <4>2, <4>5
      <4>6. QED
        BY <1>1, <4>1, <4>3, <4>4, <4>5 DEF Places, ClaimedRowHasTask
    <3>11. QED
      BY <3>5, <3>6, <3>7, <3>8, <3>9, <3>10 DEF Places
  <2>8. SlotsPromised'
    BY <2>1, <2>3, <2>4, <2>5 DEF LoopTypeOK, SlotsPromised
  <2>9. WakeupPending'
    BY <1>1, <2>1, <2>3, <2>4 DEF LoopTypeOK, WakeupPending, ReadyRows
  <2>10. EndedLoopIsDrained'
    <3>1. \A p \in Queues: loop'[p] = "ended" => p # q /\ loop[p] = "ended"
      BY <1>1, <2>4 DEF LoopTypeOK
    <3>2. \A j \in batch[q]: QueueOf[j] = q
      BY DEF Places
    <3>3. QED
      BY <2>1, <3>1, <3>2 DEF LoopTypeOK, EndedLoopIsDrained
  <2>11. QED
    BY <2>6, <2>7, <2>8, <2>9, <2>10
<1>4. QED
  BY <1>2, <1>3 DEF ClaimReturns

\* A task's last transaction may make a row ready that no wake-up is about yet.
LEMMA CommitKeeps ==
    ASSUME LoopInv, NEW j \in Rows, TaskCommits(j)
    PROVE  LoopInv'
<1> USE DEF LoopInv
<1>1. /\ task[j] = "running"
      /\ task' = [task EXCEPT ![j] = "committed"]
      /\ UNCHANGED <<loop, wake, stop, signalled, room, batch, tasks>>
  BY DEF TaskCommits
<1>2. PICK K \in SUBSET Rows:
         /\ \A k \in K: row[k] = "away" /\ task[k] = "none"
         /\ row' = [i \in Rows |-> IF i = j THEN "away"
                                   ELSE IF i \in K THEN "ready" ELSE row[i]]
  <2>1. CASE row' = [row EXCEPT ![j] = "away"]
    <3>1. row' = [i \in Rows |-> IF i = j THEN "away"
                                 ELSE IF i \in {} THEN "ready" ELSE row[i]]
      BY <2>1 DEF LoopTypeOK
    <3>2. \A k \in {}: row[k] = "away" /\ task[k] = "none"
      OBVIOUS
    <3>3. {} \in SUBSET Rows
      OBVIOUS
    <3>4. QED
      BY <3>1, <3>2, <3>3, Zenon
  <2>2. CASE \E k \in Rows: /\ row[k] = "away" /\ task[k] = "none"
                            /\ row' = [row EXCEPT ![j] = "away", ![k] = "ready"]
    <3>1. PICK k \in Rows: /\ row[k] = "away" /\ task[k] = "none"
                           /\ row' = [row EXCEPT ![j] = "away", ![k] = "ready"]
      BY <2>2
    <3>2. k # j
      BY <1>1, <3>1
    <3>3. row' = [i \in Rows |-> IF i = j THEN "away"
                                 ELSE IF i \in {k} THEN "ready" ELSE row[i]]
      BY <3>1, <3>2 DEF LoopTypeOK
    <3>4. QED
      BY <3>1, <3>3
  <2>3. QED
    BY <2>1, <2>2 DEF TaskCommits
<1>3. LoopTypeOK'
  BY <1>1, <1>2 DEF LoopTypeOK, TaskStage
<1>4. Places'
  <2>1. \A q \in Queues: j \notin batch[q]
    BY <1>1 DEF Places
  <2>2. \A q \in Queues: tasks'[q] = {i \in Rows: QueueOf[i] = q /\ task'[i] # "none"}
    BY <1>1 DEF LoopTypeOK, Places
  <2>3. \A q \in Queues: \A i \in batch'[q]:
           QueueOf[i] = q /\ row'[i] = "running" /\ task'[i] = "none"
    BY <1>1, <1>2, <2>1 DEF LoopTypeOK, Places
  <2>4. \A i \in Rows: /\ task'[i] = "running" => row'[i] = "running"
                       /\ row'[i] = "ready" => task'[i] = "none"
    BY <1>1, <1>2 DEF LoopTypeOK, Places
  <2>5. ClaimedRowHasTask'
    BY <1>1, <1>2 DEF LoopTypeOK, Places, ClaimedRowHasTask
  <2>6. QED
    BY <1>1, <2>2, <2>3, <2>4, <2>5 DEF Places
<1>5. SlotsPromised'
  BY <1>1 DEF SlotsPromised
<1>6. WakeupPending'
  <2>1. \A i \in signalled: row[i] = "ready" /\ i \in Rows /\ task[i] = "none"
    BY DEF LoopTypeOK, WakeupPending, Places
  <2>2. \A i \in signalled: row'[i] = "ready"
    BY <1>1, <1>2, <2>1
  <2>3. \A q \in Queues: ReadyRows(q)' \cap signalled \subseteq ReadyRows(q) \cap signalled
    BY <2>1 DEF ReadyRows
  <2>4. QED
    BY <1>1, <2>2, <2>3 DEF WakeupPending
<1>7. EndedLoopIsDrained'
  BY <1>1 DEF LoopTypeOK, EndedLoopIsDrained
<1>8. QED
  BY <1>3, <1>4, <1>5, <1>6, <1>7

\* A task that finishes signals every queue, and gives its slot back later.
LEMMA FinishKeeps ==
    ASSUME LoopInv, NEW j \in Rows, TaskFinishes(j) \/ TaskLeavesSlot(j)
    PROVE  LoopInv'
<1> USE DEF LoopInv
<1>1. CASE TaskFinishes(j)
  <2>1. LoopTypeOK'
    BY <1>1 DEF LoopTypeOK, TaskStage, TaskFinishes
  <2>2. Places'
    BY <1>1 DEF LoopTypeOK, Places, ClaimedRowHasTask, TaskFinishes
  <2>3. SlotsPromised'
    BY <1>1 DEF SlotsPromised, TaskFinishes
  <2>4. WakeupPending'
    BY <1>1 DEF LoopTypeOK, WakeupPending, TaskFinishes
  <2>5. EndedLoopIsDrained'
    BY <1>1 DEF LoopTypeOK, EndedLoopIsDrained, TaskFinishes
  <2>6. QED
    BY <2>1, <2>2, <2>3, <2>4, <2>5
<1>2. CASE TaskLeavesSlot(j)
  <2> DEFINE q == QueueOf[j]
  <2>1. /\ task[j] = "finished"
        /\ task' = [task EXCEPT ![j] = "none"]
        /\ tasks' = [tasks EXCEPT ![q] = @ \ {j}]
        /\ UNCHANGED <<row, loop, wake, stop, signalled, room, batch>>
        /\ q \in Queues
    BY <1>2, QueueAssumption DEF TaskLeavesSlot
  <2>2. LoopTypeOK'
    BY <2>1 DEF LoopTypeOK, TaskStage
  <2>3. Places'
    <3>1. \A p \in Queues: tasks'[p] = {i \in Rows: QueueOf[i] = p /\ task'[i] # "none"}
      BY <2>1 DEF LoopTypeOK, Places
    <3>2. ClaimedRowHasTask'
      BY <2>1 DEF LoopTypeOK, Places, ClaimedRowHasTask
    <3>3. QED
      BY <2>1, <3>1, <3>2 DEF LoopTypeOK, Places
  <2>4. SlotsPromised'
    <3>1. tasks'[q] = tasks[q] \ {j} /\ \A p \in Queues \ {q}: tasks'[p] = tasks[p]
      BY <2>1 DEF LoopTypeOK
    <3>2. /\ Cardinality(tasks'[q]) <= Cardinality(tasks[q])
          /\ Cardinality(tasks'[q]) \in Nat /\ Cardinality(tasks[q]) \in Nat
      BY <2>1, <3>1, SlotGivenBack, RowSetsFinite DEF LoopTypeOK
    <3>3. Cardinality(batch[q]) \in Nat /\ room[q] \in Nat
      BY <2>1, RowSetsFinite DEF LoopTypeOK
    <3>4. ASSUME NEW p \in Queues
          PROVE  /\ Cardinality(tasks'[p]) <= Concurrency
                 /\ loop[p] = "claiming" => /\ room[p] >= 1
                                            /\ Cardinality(tasks'[p]) + room[p] <= Concurrency
                 /\ loop[p] = "answered" =>
                       Cardinality(tasks'[p]) + Cardinality(batch[p]) <= Concurrency
      <4>1. CASE p # q
        BY <3>1, <4>1 DEF SlotsPromised
      <4>2. CASE p = q
        BY <2>1, <3>2, <3>3, <4>2, SlotAssumption DEF SlotsPromised
      <4>3. QED
        BY <4>1, <4>2
    <3>5. QED
      BY <2>1, <3>4 DEF SlotsPromised
  <2>5. WakeupPending'
    BY <2>1 DEF WakeupPending, ReadyRows
  <2>6. EndedLoopIsDrained'
    BY <2>1 DEF LoopTypeOK, EndedLoopIsDrained
  <2>7. QED
    BY <2>2, <2>3, <2>4, <2>5, <2>6
<1>3. QED
  BY <1>1, <1>2

\* Every step keeps the invariant.
LEMMA InvStep == LoopInv /\ [LoopNext]_loopVars => LoopInv'
<1> SUFFICES ASSUME LoopInv, [LoopNext]_loopVars PROVE LoopInv'
  OBVIOUS
<1>1. ASSUME NEW q \in Queues, LoopStep(q) PROVE LoopInv'
  BY <1>1, LoopMovesKeep, ResumeKeeps, ClaimKeeps, AnswerKeeps DEF LoopStep
<1>2. ASSUME NEW j \in Rows, SpawnedStep(j) \/ BecomesReady(j) \/ TakenElsewhere(j)
      PROVE  LoopInv'
  BY <1>2, RowsElsewhereKeep, CommitKeeps, FinishKeeps DEF SpawnedStep
<1>3. CASE Stop \/ UNCHANGED loopVars
  <2>1. UNCHANGED <<row, loop, wake, signalled, room, batch, tasks, task>> /\ stop' \in BOOLEAN
    BY <1>3 DEF Stop, loopVars, slotVars, LoopInv, LoopTypeOK
  <2>2. LoopTypeOK' /\ Places'
    BY <2>1 DEF LoopInv, LoopTypeOK, Places, ClaimedRowHasTask
  <2>3. SlotsPromised' /\ WakeupPending' /\ EndedLoopIsDrained'
    BY <2>1 DEF LoopInv, SlotsPromised, WakeupPending, ReadyRows, EndedLoopIsDrained
  <2>4. QED
    BY <2>2, <2>3 DEF LoopInv
<1>4. QED
  BY <1>1, <1>2, <1>3 DEF LoopNext

\* The invariant holds throughout.
LEMMA InvCorrect == LoopSpec => []LoopInv
BY InvInit, InvStep, PTL DEF LoopSpec

-----------------------------------------------------------------------------
(* What the loops promise.                                                 *)

\* LoopTypeOK for any queues, rows and slots.
THEOREM LoopTypeCorrect == LoopSpec => []LoopTypeOK
<1>1. LoopInv => LoopTypeOK
  BY DEF LoopInv
<1>2. QED
  BY <1>1, InvCorrect, PTL

\* No row that a claim returned is dropped (ClaimedRowHasTask).
THEOREM NoRowDropped == LoopSpec => []ClaimedRowHasTask
<1>1. LoopInv => ClaimedRowHasTask
  BY DEF LoopInv, Places
<1>2. QED
  BY <1>1, InvCorrect, PTL

\* No loop sleeps through the wake-up of a task that finished (NoLostWakeup).
THEOREM WakeupsArrive == LoopSpec => []NoLostWakeup
<1>1. LoopInv => NoLostWakeup
  BY DEF LoopInv, LoopTypeOK, Places, WakeupPending, NoLostWakeup
<1>2. QED
  BY <1>1, InvCorrect, PTL

\* A queue never holds more rows than it has slots (SlotsBounded), although the
\* size of a claim is fixed before the await.
THEOREM SlotsKept == LoopSpec => []SlotsBounded
<1>1. LoopInv => SlotsBounded
  <2>1. SUFFICES ASSUME LoopInv, NEW q \in Queues
                 PROVE  Cardinality(tasks[q] \cup batch[q]) <= Concurrency
    BY DEF SlotsBounded
  <2>2. tasks[q] \in SUBSET Rows /\ batch[q] \in SUBSET Rows
    BY <2>1 DEF LoopInv, LoopTypeOK
  <2>3. CASE batch[q] = {}
    <3>1. tasks[q] \cup batch[q] = tasks[q]
      BY <2>3
    <3>2. QED
      BY <2>1, <3>1 DEF LoopInv, SlotsPromised
  <2>4. CASE batch[q] # {}
    <3>1. Cardinality(tasks[q]) + Cardinality(batch[q]) <= Concurrency
      BY <2>1, <2>4 DEF LoopInv, Places, SlotsPromised
    <3>2. QED
      BY <2>2, <3>1, UnionFits
  <2>5. QED
    BY <2>3, <2>4
<1>2. QED
  BY <1>1, InvCorrect, PTL

\* A loop that ended left no task behind (EndedLoopIsDrained).
THEOREM StoppedMeansDrained == LoopSpec => []EndedLoopIsDrained
<1>1. LoopInv => EndedLoopIsDrained
  BY DEF LoopInv
<1>2. QED
  BY <1>1, InvCorrect, PTL
=============================================================================
