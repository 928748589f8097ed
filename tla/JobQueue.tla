------------------------------ MODULE JobQueue ------------------------------
(***************************************************************************)
(* The asynchronous job platform: the rows of async_jobs                   *)
(* (app/services/jobs.py) and the consumer tasks that run them             *)
(* (worker/consumer.py).  Each SQL statement with its commit is one step;  *)
(* the handler between a claim and its finalizer runs without a            *)
(* transaction, so any step of any other actor can come in between.        *)
(*                                                                         *)
(* Time is kept as what the statements compare: a deadline column is       *)
(* "unset" (NULL), "future" or "past", and time passing turns one deadline *)
(* at a time from "future" to "past".  A lease token stands for the uuid   *)
(* of one claim: tokens of one row are numbered in the order of issue and  *)
(* NoToken is NULL.                                                        *)
(***************************************************************************)
EXTENDS Integers, FiniteSets

CONSTANTS
    Jobs,         \* row identities
    Checkpoints,  \* the rows whose job_type is conversation_checkpoint
    Tasks,        \* consumer slots: asyncio tasks of any worker process
    Users,        \* subjects that own rows
    NoUser,       \* user_id IS NULL
    NoJob,        \* an idle slot
    MaxAttempts,  \* the queue's configured max_attempts
    MaxDefers     \* bound on how often the awaited source is still pending

ASSUME JobsAssumption   == NoJob \notin Jobs /\ Checkpoints \subseteq Jobs
ASSUME UsersAssumption  == NoUser \notin Users
ASSUME BudgetAssumption == MaxAttempts \in Nat \ {0} /\ MaxDefers \in Nat

VARIABLES
    state,        \* async_jobs.state, or "absent" before the insert
    owner,        \* async_jobs.user_id
    attempt,      \* async_jobs.attempt
    limit,        \* async_jobs.max_attempts
    token,        \* async_jobs.lease_token
    leaseUntil,   \* async_jobs.lease_until, as a deadline
    availableAt,  \* async_jobs.available_at, as a deadline
    expiresAt,    \* async_jobs.expires_at, as a deadline
    issued,       \* tokens handed out for the row so far
    blocked,      \* subjects whose barrier is not 'active'
    slot,         \* what each consumer task holds and how far it got
    applied,      \* history: committed domain effects of the row
    deferrals     \* history: committed deferrals of the row

rowVars == <<state, owner, attempt, limit, token, leaseUntil, availableAt,
             expiresAt, issued, applied, deferrals>>
vars == <<rowVars, blocked, slot>>

Deadline  == {"unset", "future", "past"}
Terminal  == {"succeeded", "dead", "cancelled"}
JobState  == {"absent", "ready", "running"} \cup Terminal
NoToken   == 0

\* What a task is about to do: authorize the claimed job, run its handler,
\* record the outcome the handler had, or commit the domain effect.
Outcome == {"success", "retry", "dead", "cancel", "defer"}
Stage   == {"idle", "claimed", "handling", "publish"} \cup Outcome
Slot    == [job: Jobs \cup {NoJob}, token: Nat, stage: Stage]
Idle    == [job |-> NoJob, token |-> NoToken, stage |-> "idle"]

Passed(deadline) == deadline = "past"

-----------------------------------------------------------------------------
Init ==
    /\ state       = [j \in Jobs |-> "absent"]
    /\ owner       = [j \in Jobs |-> NoUser]
    /\ attempt     = [j \in Jobs |-> 0]
    /\ limit       = [j \in Jobs |-> MaxAttempts]
    /\ token       = [j \in Jobs |-> NoToken]
    /\ leaseUntil  = [j \in Jobs |-> "unset"]
    /\ availableAt = [j \in Jobs |-> "past"]
    /\ expiresAt   = [j \in Jobs |-> "unset"]
    /\ issued      = [j \in Jobs |-> 0]
    /\ applied     = [j \in Jobs |-> 0]
    /\ deferrals   = [j \in Jobs |-> 0]
    /\ blocked     = {}
    /\ slot        = [w \in Tasks |-> Idle]

-----------------------------------------------------------------------------
(* Producers and claims.                                                   *)

\* A producer's transaction commits a new row.
Enqueue(j, u, available, expires) ==
    /\ state[j] = "absent"
    /\ state'       = [state EXCEPT ![j] = "ready"]
    /\ owner'       = [owner EXCEPT ![j] = u]
    /\ availableAt' = [availableAt EXCEPT ![j] = available]
    /\ expiresAt'   = [expiresAt EXCEPT ![j] = expires]
    /\ UNCHANGED <<attempt, limit, token, leaseUntil, issued, applied,
                   deferrals, blocked, slot>>

Claimable(j) ==
    /\ state[j] = "ready"
    /\ Passed(availableAt[j])
    /\ attempt[j] < limit[j]
    /\ ~Passed(expiresAt[j])

\* claim(): one row of the batch; the increment commits with the lease.
Claim(w, j) ==
    /\ slot[w] = Idle
    /\ Claimable(j)
    /\ state'      = [state EXCEPT ![j] = "running"]
    /\ attempt'    = [attempt EXCEPT ![j] = @ + 1]
    /\ issued'     = [issued EXCEPT ![j] = @ + 1]
    /\ token'      = [token EXCEPT ![j] = issued[j] + 1]
    /\ leaseUntil' = [leaseUntil EXCEPT ![j] = "future"]
    /\ slot'       = [slot EXCEPT ![w] = [job |-> j, token |-> issued[j] + 1,
                                          stage |-> "claimed"]]
    /\ UNCHANGED <<owner, limit, availableAt, expiresAt, applied, deferrals,
                   blocked>>

-----------------------------------------------------------------------------
(* A consumer task between its claim and its finalizer.                    *)

GoesTo(w, stage) ==
    /\ slot' = [slot EXCEPT ![w].stage = stage]
    /\ UNCHANGED <<rowVars, blocked>>

Ends(w) == slot' = [slot EXCEPT ![w] = Idle]

\* load_barrier and authorize_job: a job of a blocked subject never starts.
\* A job with an owner may also be refused for its privacy epoch, which is
\* the subject of module SubjectDeletion.
Authorize(w) ==
    /\ slot[w].stage = "claimed"
    /\ \/ /\ owner[slot[w].job] \notin blocked
          /\ GoesTo(w, "handling")
       \/ /\ owner[slot[w].job] \in Users
          /\ GoesTo(w, "cancel")

\* The handler returned, raised, timed out, or has no registered type.  It
\* asks for a deferral only while the source it waits for is pending.
HandlerEnds(w, outcome) ==
    /\ slot[w].stage = "handling"
    /\ outcome = "defer" => /\ slot[w].job \in Checkpoints
                            /\ deferrals[slot[w].job] < MaxDefers
    /\ GoesTo(w, outcome)

\* The process dies, or the finalizer times out or loses its connection
\* before the commit: the row is left to the reaper.
Abandon(w) ==
    /\ slot[w] # Idle
    /\ Ends(w)
    /\ UNCHANGED <<rowVars, blocked>>

-----------------------------------------------------------------------------
(* Fenced writes.  The owner part of the fence is implied by the token.    *)

\* Mutants: the fence compares the state only, or the token only.
FenceWithoutToken(w) == state[slot[w].job] = "running"
FenceWithoutState(w) == token[slot[w].job] \in {slot[w].token, NoToken}

Fence(w) ==
    LET j == slot[w].job
    IN  state[j] = "running" /\ token[j] = slot[w].token

\* Every finalizer and the reaper clear the three lease columns together.
DropLease(j) ==
    /\ token'      = [token EXCEPT ![j] = NoToken]
    /\ leaseUntil' = [leaseUntil EXCEPT ![j] = "unset"]

\* No row matched: rollback, nothing is written and the task is over.
LostLease(w) ==
    /\ ~Fence(w)
    /\ Ends(w)
    /\ UNCHANGED <<rowVars, blocked>>

\* heartbeat(): the lease is extended even past its end while unreaped; a
\* lost lease cancels the handler (JobLeaseLost) and nothing is finalized.
Extend(w) ==
    /\ Fence(w)
    /\ leaseUntil' = [leaseUntil EXCEPT ![slot[w].job] = "future"]
    /\ UNCHANGED <<state, owner, attempt, limit, token, availableAt,
                   expiresAt, issued, applied, deferrals, blocked, slot>>

Heartbeat(w) ==
    /\ slot[w].stage = "handling"
    /\ Extend(w) \/ LostLease(w)

\* The fencing UPDATE of finalize_success starts: its snapshot decides
\* whether the subject is blocked, before the row lock is obtained.
SuccessSnapshot(w) ==
    /\ slot[w].stage = "success"
    /\ \/ /\ owner[slot[w].job] \notin blocked
          /\ GoesTo(w, "publish")
       \/ /\ owner[slot[w].job] \in blocked
          /\ Ends(w)
          /\ UNCHANGED <<rowVars, blocked>>

\* ... it locks the row, and the domain effect commits with the new state.
Succeed(w) ==
    LET j == slot[w].job IN
    /\ Fence(w)
    /\ state'   = [state EXCEPT ![j] = "succeeded"]
    /\ applied' = [applied EXCEPT ![j] = @ + 1]
    /\ DropLease(j)
    /\ Ends(w)
    /\ UNCHANGED <<owner, attempt, limit, availableAt, expiresAt, issued,
                   deferrals, blocked>>

\* apply_domain meets a busy lock: the UPDATE is rolled back and the same
\* lease is deferred in a new transaction.
DeferWhilePublishing(w) ==
    /\ Fence(w)
    /\ slot[w].job \in Checkpoints
    /\ deferrals[slot[w].job] < MaxDefers
    /\ GoesTo(w, "defer")

FinalizeSuccess(w) ==
    /\ slot[w].stage = "publish"
    /\ Succeed(w) \/ DeferWhilePublishing(w) \/ LostLease(w)

\* finalize_retryable(): backoff, or dead once the budget is used up.
Retry(w) ==
    LET j == slot[w].job IN
    /\ Fence(w)
    /\ \/ /\ attempt[j] >= limit[j]
          /\ state' = [state EXCEPT ![j] = "dead"]
          /\ UNCHANGED availableAt
       \/ /\ attempt[j] < limit[j]
          /\ state' = [state EXCEPT ![j] = "ready"]
          /\ availableAt' = [availableAt EXCEPT ![j] = "future"]
    /\ DropLease(j)
    /\ Ends(w)
    /\ UNCHANGED <<owner, attempt, limit, expiresAt, issued, applied,
                   deferrals, blocked>>

FinalizeRetryable(w) ==
    /\ slot[w].stage = "retry"
    /\ Retry(w) \/ LostLease(w)

\* finalize_terminal(): dead or cancelled at once.
Finish(w) ==
    LET j == slot[w].job IN
    /\ Fence(w)
    /\ state' = [state EXCEPT ![j] =
                   IF slot[w].stage = "dead" THEN "dead" ELSE "cancelled"]
    /\ DropLease(j)
    /\ Ends(w)
    /\ UNCHANGED <<owner, attempt, limit, availableAt, expiresAt, issued,
                   applied, deferrals, blocked>>

FinalizeTerminal(w) ==
    /\ slot[w].stage \in {"dead", "cancel"}
    /\ Finish(w) \/ LostLease(w)

\* finalize_deferred(): back to ready with one more attempt allowed, and
\* only under a lease that has not run out.
Defer(w) ==
    LET j == slot[w].job IN
    /\ Fence(w) /\ ~Passed(leaseUntil[j])
    /\ state'       = [state EXCEPT ![j] = "ready"]
    /\ availableAt' = [availableAt EXCEPT ![j] = "future"]
    /\ limit'       = [limit EXCEPT ![j] = @ + 1]
    /\ deferrals'   = [deferrals EXCEPT ![j] = @ + 1]
    /\ DropLease(j)
    /\ Ends(w)
    /\ UNCHANGED <<owner, attempt, expiresAt, issued, applied, blocked>>

DeferTooLate(w) ==
    /\ Fence(w) /\ Passed(leaseUntil[slot[w].job])
    /\ Ends(w)
    /\ UNCHANGED <<rowVars, blocked>>

FinalizeDeferred(w) ==
    /\ slot[w].stage = "defer"
    /\ Defer(w) \/ DeferTooLate(w) \/ LostLease(w)

-----------------------------------------------------------------------------
(* The reaper: three statements, each its own transaction.                 *)

\* Mutant: an expired row is left alone.
ExhaustedByAttempts(j) == attempt[j] >= limit[j]

Exhausted(j) == Passed(expiresAt[j]) \/ attempt[j] >= limit[j]

GivenUp(j) == IF Passed(expiresAt[j]) THEN "cancelled" ELSE "dead"

Reapable(j) == state[j] = "running" /\ Passed(leaseUntil[j])

ReapTerminalRunning(j) ==
    /\ Reapable(j) /\ Exhausted(j)
    /\ state' = [state EXCEPT ![j] = GivenUp(j)]
    /\ DropLease(j)
    /\ UNCHANGED <<owner, attempt, limit, availableAt, expiresAt, issued,
                   applied, deferrals, blocked, slot>>

ReapRetryableRunning(j) ==
    /\ Reapable(j) /\ ~Exhausted(j)
    /\ state'       = [state EXCEPT ![j] = "ready"]
    /\ availableAt' = [availableAt EXCEPT ![j] = "past"]
    /\ DropLease(j)
    /\ UNCHANGED <<owner, attempt, limit, expiresAt, issued, applied,
                   deferrals, blocked, slot>>

ReapTerminalReady(j) ==
    /\ state[j] = "ready" /\ Exhausted(j)
    /\ state' = [state EXCEPT ![j] = GivenUp(j)]
    /\ UNCHANGED <<owner, attempt, limit, token, leaseUntil, availableAt,
                   expiresAt, issued, applied, deferrals, blocked, slot>>

-----------------------------------------------------------------------------
(* Account deletion, as far as it reaches job rows.                        *)

\* begin_subject_deletion: the barrier goes up and ready rows are cancelled
\* in one transaction; running rows keep their state and their lease.  Its
\* UPDATE waits for a success whose fencing UPDATE holds the row lock, so a
\* publish that passed its snapshot earlier may still find the row running.
BeginDeletion(u) ==
    /\ u \notin blocked
    /\ blocked' = blocked \cup {u}
    /\ state' = [j \in Jobs |->
                   IF owner[j] = u /\ state[j] = "ready"
                   THEN "cancelled" ELSE state[j]]
    /\ UNCHANGED <<owner, attempt, limit, token, leaseUntil, availableAt,
                   expiresAt, issued, applied, deferrals, slot>>

\* abort_subject_deletion: the account survived; nothing is restored.
AbortDeletion(u) ==
    /\ u \in blocked
    /\ blocked' = blocked \ {u}
    /\ UNCHANGED <<rowVars, slot>>

-----------------------------------------------------------------------------
(* Time.                                                                   *)

LeaseRunsOut(j) ==
    /\ leaseUntil[j] = "future"
    /\ leaseUntil' = [leaseUntil EXCEPT ![j] = "past"]
    /\ UNCHANGED <<state, owner, attempt, limit, token, availableAt, expiresAt,
                   issued, applied, deferrals, blocked, slot>>

BecomesAvailable(j) ==
    /\ state[j] = "ready" /\ availableAt[j] = "future"
    /\ availableAt' = [availableAt EXCEPT ![j] = "past"]
    /\ UNCHANGED <<state, owner, attempt, limit, token, leaseUntil, expiresAt,
                   issued, applied, deferrals, blocked, slot>>

Expires(j) ==
    /\ state[j] \in {"ready", "running"} /\ expiresAt[j] = "future"
    /\ expiresAt' = [expiresAt EXCEPT ![j] = "past"]
    /\ UNCHANGED <<state, owner, attempt, limit, token, leaseUntil,
                   availableAt, issued, applied, deferrals, blocked, slot>>

-----------------------------------------------------------------------------
Finalize(w) == \/ FinalizeSuccess(w) \/ FinalizeRetryable(w)
               \/ FinalizeTerminal(w) \/ FinalizeDeferred(w)

TaskStep(w) ==
    \/ Authorize(w)
    \/ \E o \in Outcome: HandlerEnds(w, o)
    \/ Heartbeat(w)
    \/ SuccessSnapshot(w)
    \/ Finalize(w)
    \/ Abandon(w)

Reap(j) == ReapTerminalRunning(j) \/ ReapRetryableRunning(j)
           \/ ReapTerminalReady(j)

TimePasses(j) == LeaseRunsOut(j) \/ BecomesAvailable(j) \/ Expires(j)

Next ==
    \/ \E j \in Jobs, u \in Users \cup {NoUser},
          a \in {"past", "future"}, e \in {"unset", "future"}:
             Enqueue(j, u, a, e)
    \/ \E w \in Tasks, j \in Jobs: Claim(w, j)
    \/ \E w \in Tasks: TaskStep(w)
    \/ \E j \in Jobs: Reap(j) \/ TimePasses(j)
    \/ \E u \in Users: BeginDeletion(u) \/ AbortDeletion(u)

Spec == Init /\ [][Next]_vars

\* What the scheduling gives: queue_loop keeps claiming while it has a free
\* slot, every stage of a task is under a timeout, the reaper runs on an
\* interval, and deadlines pass.  Nothing forces a crash, a heartbeat, an
\* enqueue or a deletion.
TaskProgress(w) ==
    \/ Authorize(w)
    \/ \E o \in Outcome: HandlerEnds(w, o)
    \/ SuccessSnapshot(w)
    \/ Finalize(w)

Fairness ==
    /\ \A j \in Jobs: SF_vars(\E w \in Tasks: Claim(w, j))
    /\ \A w \in Tasks: WF_vars(TaskProgress(w))
    /\ \A j \in Jobs: /\ WF_vars(Reap(j))
                      /\ WF_vars(LeaseRunsOut(j))
                      /\ WF_vars(BecomesAvailable(j))

LiveSpec == Spec /\ Fairness

-----------------------------------------------------------------------------
TypeOK ==
    /\ state       \in [Jobs -> JobState]
    /\ owner       \in [Jobs -> Users \cup {NoUser}]
    /\ attempt     \in [Jobs -> Nat]
    /\ limit       \in [Jobs -> Nat]
    /\ token       \in [Jobs -> Nat]
    /\ leaseUntil  \in [Jobs -> Deadline]
    /\ availableAt \in [Jobs -> Deadline]
    /\ expiresAt   \in [Jobs -> Deadline]
    /\ issued      \in [Jobs -> Nat]
    /\ applied     \in [Jobs -> Nat]
    /\ deferrals   \in [Jobs -> Nat]
    /\ blocked     \subseteq Users
    /\ slot        \in [Tasks -> Slot]

\* A row is running exactly while it carries a lease: no statement leaves a
\* running row without a deadline (the reaper compares lease_until and would
\* never find it) or a token on a row nobody runs (async_jobs_check).
LeaseIffRunning ==
    \A j \in Jobs: /\ state[j] = "running" <=> token[j] # NoToken
                   /\ state[j] = "running" <=> leaseUntil[j] # "unset"

\* The failure budget: deferrals aside, a row is claimed at most MaxAttempts
\* times whatever crashes, retries, reaps and deferrals happened, and a ready
\* row always has an attempt left (no row is stuck, ready but unclaimable).
AttemptBudget ==
    \A j \in Jobs: /\ limit[j] = MaxAttempts + deferrals[j]
                   /\ attempt[j] <= limit[j]
                   /\ issued[j] = attempt[j]
                   /\ state[j] \in {"absent", "ready"} => attempt[j] < limit[j]

\* A domain effect is committed exactly once for a succeeded row and never
\* for any other: a late finalizer cannot apply its result a second time, or
\* to a row that was retried, reaped, cancelled or deferred meanwhile.
EffectIffSucceeded ==
    \A j \in Jobs: applied[j] = IF state[j] = "succeeded" THEN 1 ELSE 0

\* Of all the tasks that ever claimed a row, including those that lost their
\* lease and do not know it yet, at most one passes the fence.
SingleHolder ==
    \A v, w \in Tasks:
        /\ slot[v] # Idle /\ slot[w] # Idle
        /\ slot[v].job = slot[w].job
        /\ Fence(v) /\ Fence(w)
        => v = w

\* A terminal row never changes state again, and loses nothing to late
\* finalizers, heartbeats, reapers or deletions: only replay makes a new row.
TerminalIsFinal ==
    [][\A j \in Jobs: state[j] \in Terminal =>
          /\ state'[j] = state[j]
          /\ applied'[j] = applied[j]
          /\ attempt'[j] = attempt[j]]_vars

\* The comment on the deletion barrier says that once it stands worker
\* publishing is blocked (app/services/privacy.py:6).
PublishBlockedByBarrier ==
    [][\A j \in Jobs: applied'[j] # applied[j] => owner[j] \notin blocked]_vars

\* Every job reaches a terminal state: poison jobs, crashed consumers, lost
\* leases, expired rows and jobs of deleted accounts included.
EventuallyTerminal ==
    \A j \in Jobs: state[j] # "absent" ~> state[j] \in Terminal

\* The platform behaves as module JobAbstract promises: rows that are ready
\* or running are open, and leases, retries, reaping, deferral and time are
\* invisible.
Phase == [j \in Jobs |-> IF state[j] \in {"ready", "running"}
                         THEN "open" ELSE state[j]]
Abstract == INSTANCE JobAbstract WITH phase <- Phase, effects <- applied
ImplementsJobAbstract == Abstract!Spec
=============================================================================
