--------------------------- MODULE SubjectDeletion ---------------------------
(***************************************************************************)
(* Deleting one account: the barrier and its database functions            *)
(* (db/schema.sql, app/services/privacy.py), the residual sweep that       *)
(* finishes a deletion after the account is gone                           *)
(* (worker/privacy_sweep_jobs.py), the auth service that drives it, and    *)
(* the account's jobs as far as their privacy epoch decides what they may  *)
(* do.  Subjects do not interact, so there is one.                         *)
(*                                                                         *)
(* begin and abort are serialised by an advisory lock and each is a        *)
(* transaction: one step.  A sweep is not: it promotes and commits, reads  *)
(* what to sweep, and uses what it read in later transactions.             *)
(***************************************************************************)
EXTENDS Integers, Sequences, FiniteSets

CONSTANTS
    Requests,     \* deletion requests; each is its own operation id
    Promotions,   \* operation ids that promoting an orphan draws from
    NoOp,         \* operation_id IS NULL
    Jobs,         \* the account's job rows
    Sweepers,     \* sweep jobs that may run at the same time
    NoEpoch,      \* a payload without privacy_epoch; no pipeline or baseline
    MaxWrites,    \* bound on the vectors ever written for the account
    Batch         \* DELETE_BATCH

ASSUME OpsAssumption == NoOp \notin Requests \cup Promotions
                        /\ Requests \cap Promotions = {}
ASSUME SweepAssumption == Batch \in Nat \ {0} /\ MaxWrites \in Nat
ASSUME EpochAssumption == NoEpoch \notin Nat

VARIABLES
    account,     \* "alive", or "gone": neither auth user nor profile is left
    barrier,     \* the account's privacy_subject_barriers row
    ledger,      \* privacy_ledger_events of the sweep, per operation in id order
    request,     \* how far each deletion request of the auth service got
    sweeper,     \* what each running sweep has read
    vectors,     \* the account's rows in vecs.moly_memories_v2
    pipeline,    \* memory_pipeline_states.privacy_epoch
    baseline,    \* epoch in the stored compatibility baseline
    row,         \* job rows: state, payload epoch
    task,        \* the claimed copy of each job and how far it got
    written      \* history: vectors written so far

sweepVars == <<ledger, sweeper>>
workVars  == <<pipeline, baseline, row, task>>
vars == <<account, barrier, request, vectors, written, sweepVars, workVars>>

Ops           == Requests \cup Promotions
Epoch         == Nat \cup {NoEpoch}
Barrier       == [state: {"active", "deleting", "deleted"},
                  epoch: Nat, op: Ops \cup {NoOp}]
RequestStage  == {"idle", "begun", "failed", "done"}
Event         == {"empty", "deleted", "closed"}
Sweeper       == [stage: {"idle", "promoted", "loaded"},
                  op: Ops \cup {NoOp}, empties: Nat]
Row           == [state: {"absent", "ready", "running", "closed"},
                  epoch: Epoch]
Task          == [stage: {"none", "claimed", "working"}, epoch: Epoch]

IdleSweeper == [stage |-> "idle", op |-> NoOp, empties |-> 0]
NoRow       == [state |-> "absent", epoch |-> NoEpoch]
NoTask      == [stage |-> "none", epoch |-> NoEpoch]

\* The signup trigger creates the barrier row with the profile.
Init ==
    /\ account  = "alive"
    /\ barrier  = [state |-> "active", epoch |-> 0, op |-> NoOp]
    /\ ledger   = [o \in Ops |-> << >>]
    /\ request  = [r \in Requests |-> "idle"]
    /\ sweeper  = [s \in Sweepers |-> IdleSweeper]
    /\ vectors  = 0
    /\ pipeline = NoEpoch
    /\ baseline = NoEpoch
    /\ row      = [j \in Jobs |-> NoRow]
    /\ task     = [j \in Jobs |-> NoTask]
    /\ written  = 0

-----------------------------------------------------------------------------
(* The auth service: begin, delete the account, abort if that failed.      *)

Redact(r) == [r EXCEPT !.epoch = NoEpoch,
                       !.state = IF @ = "ready" THEN "closed" ELSE @]

\* begin_subject_deletion, whatever state the barrier is in.
RaiseBarrier(op) ==
    /\ barrier' = [state |-> "deleting", epoch |-> barrier.epoch + 1, op |-> op]
    /\ row'     = [j \in Jobs |-> Redact(row[j])]

\* The deletion goes on even when the RPC failed.
Begin(r) ==
    /\ request[r] = "idle"
    /\ request' = [request EXCEPT ![r] = "begun"]
    /\ RaiseBarrier(r) \/ UNCHANGED <<barrier, row>>
    /\ UNCHANGED <<account, vectors, written, sweepVars, pipeline, baseline,
                   task>>

\* Deleting the auth user cascades to the profile, its jobs and its pipeline;
\* tasks that hold a claimed job are not told.
DeleteAccount(r) ==
    /\ request[r] = "begun" /\ account = "alive"
    /\ account'  = "gone"
    /\ request'  = [request EXCEPT ![r] = "done"]
    /\ row'      = [j \in Jobs |-> NoRow]
    /\ pipeline' = NoEpoch
    /\ baseline' = NoEpoch
    /\ UNCHANGED <<barrier, vectors, written, sweepVars, task>>

\* ... or fails: for a reason of its own, or because the account is gone.
DeleteFails(r) ==
    /\ request[r] = "begun"
    /\ request' = [request EXCEPT ![r] = "failed"]
    /\ UNCHANGED <<account, barrier, vectors, written, sweepVars, workVars>>

MayAbort(op) ==
    /\ barrier.op = op
    /\ barrier.state = "deleting"
    /\ account = "alive"

\* The epoch an aborted deletion returns to: the memory pipeline's.
RestoredEpoch == IF pipeline = NoEpoch THEN 0 ELSE pipeline

\* abort_subject_deletion; the call may also get lost.
Abort(r) ==
    /\ request[r] = "failed"
    /\ request' = [request EXCEPT ![r] = "done"]
    /\ \/ /\ MayAbort(r)
          /\ barrier' = [state |-> "active", epoch |-> RestoredEpoch, op |-> NoOp]
       \/ UNCHANGED barrier
    /\ UNCHANGED <<account, vectors, written, sweepVars, workVars>>

-----------------------------------------------------------------------------
(* The residual sweep.                                                     *)

\* Mutants: the sweep looks at the barrier only, or finds no account gone.
AnyAccount == TRUE
NoAccount  == FALSE

AccountGone == account = "gone"

Records(op, event) == ledger' = [ledger EXCEPT ![op] = Append(@, event)]

\* Mutant: a deletion in between does not start the count again.
AllEmptySweeps(op) == Cardinality({i \in DOMAIN ledger[op]: ledger[op][i] = "empty"})

\* Empty sweeps of an operation since it last deleted something.
EmptySweeps(op) ==
    Cardinality({i \in DOMAIN ledger[op]:
        /\ ledger[op][i] = "empty"
        /\ \A k \in DOMAIN ledger[op]: k > i => ledger[op][k] # "deleted"})

\* _PROMOTE_ORPHANS: an account deleted without a barrier gets an operation.
PromoteOrphan(op) ==
    /\ barrier.state = "active" /\ AccountGone
    /\ barrier' = [state |-> "deleting", epoch |-> barrier.epoch + 1, op |-> op]

SweepPromotes(s) ==
    /\ sweeper[s].stage = "idle"
    /\ sweeper' = [sweeper EXCEPT ![s].stage = "promoted"]
    /\ \/ \E op \in Promotions: PromoteOrphan(op)
       \/ ~(barrier.state = "active" /\ AccountGone) /\ UNCHANGED barrier
    /\ UNCHANGED <<account, request, vectors, written, ledger, workVars>>

\* _SUBJECTS: the operation and its count of empty sweeps, read once.
SweepLoads(s) ==
    /\ sweeper[s].stage = "promoted"
    /\ \/ /\ barrier.state = "deleting" /\ AccountGone
          /\ sweeper' = [sweeper EXCEPT ![s] =
                           [stage |-> "loaded", op |-> barrier.op,
                            empties |-> EmptySweeps(barrier.op)]]
       \/ /\ ~(barrier.state = "deleting" /\ AccountGone)
          /\ sweeper' = [sweeper EXCEPT ![s] = IdleSweeper]
    /\ UNCHANGED <<account, barrier, request, vectors, written, ledger, workVars>>

\* _sweep_subject, one transaction for the one subject.
SweptSome(op) ==
    /\ vectors > 0
    /\ vectors' = IF vectors > Batch THEN vectors - Batch ELSE 0
    /\ Records(op, "deleted")
    /\ UNCHANGED barrier

CountedEmpty(op, empties) ==
    /\ vectors = 0 /\ empties + 1 < 2
    /\ Records(op, "empty")
    /\ UNCHANGED <<barrier, vectors>>

\* mark_subject_deleted: fenced by the operation the sweep read.
MayClose(op) == barrier.op = op /\ barrier.state = "deleting"

Close(op) ==
    /\ barrier' = [barrier EXCEPT !.state = "deleted"]
    /\ Records(op, "closed")

EnoughEmpty(op, empties) ==
    /\ vectors = 0 /\ empties + 1 >= 2
    /\ \/ MayClose(op) /\ Close(op)
       \/ ~MayClose(op) /\ UNCHANGED <<barrier, ledger>>
    /\ UNCHANGED vectors

\* The job may also end before this transaction and be retried from the start.
Sweep(s) ==
    /\ sweeper[s].stage = "loaded"
    /\ sweeper' = [sweeper EXCEPT ![s] = IdleSweeper]
    /\ LET op == sweeper[s].op
           n  == sweeper[s].empties
       IN  SweptSome(op) \/ CountedEmpty(op, n) \/ EnoughEmpty(op, n)
    /\ UNCHANGED <<account, request, written, workVars>>

SweepAborted(s) ==
    /\ sweeper[s] # IdleSweeper
    /\ sweeper' = [sweeper EXCEPT ![s] = IdleSweeper]
    /\ UNCHANGED <<account, barrier, request, vectors, written, ledger, workVars>>

-----------------------------------------------------------------------------
(* The account's memory pipeline and jobs.                                 *)

\* context_compat.initialize binds the epoch of an active barrier, once.
CaptureBaseline ==
    /\ account = "alive" /\ barrier.state = "active"
    /\ baseline = NoEpoch
    /\ baseline' = barrier.epoch
    /\ UNCHANGED <<account, barrier, request, vectors, written, sweepVars,
                   pipeline, row, task>>

\* memory_pipeline.enroll with the baseline's epoch, or the default 0, in a
\* chat transaction that found the subject active under the lock.
Enroll ==
    /\ account = "alive" /\ barrier.state = "active"
    /\ pipeline = NoEpoch
    /\ pipeline' = IF baseline = NoEpoch THEN 0 ELSE baseline
    /\ UNCHANGED <<account, barrier, request, vectors, written, sweepVars,
                   baseline, row, task>>

\* enqueue_ingest: the payload carries the pipeline's epoch.
EnqueueIngest(j) ==
    /\ pipeline # NoEpoch /\ barrier.state = "active"
    /\ row[j].state = "absent"
    /\ row' = [row EXCEPT ![j] = [state |-> "ready", epoch |-> pipeline]]
    /\ UNCHANGED <<account, barrier, request, vectors, written, sweepVars,
                   pipeline, baseline, task>>

ClaimJob(j) ==
    /\ row[j].state = "ready" /\ task[j] = NoTask
    /\ row'  = [row EXCEPT ![j].state = "running"]
    /\ task' = [task EXCEPT ![j] = [stage |-> "claimed", epoch |-> row[j].epoch]]
    /\ UNCHANGED <<account, barrier, request, vectors, written, sweepVars,
                   pipeline, baseline>>

\* authorize_job for a job that is not on the privacy allowlist.
Authorized(j) ==
    /\ barrier.state = "active"
    /\ task[j].epoch # NoEpoch => task[j].epoch = barrier.epoch

Closed(r) == [r EXCEPT !.state = IF @ = "running" THEN "closed" ELSE @]

AuthorizeJob(j) ==
    /\ task[j].stage = "claimed"
    /\ \/ /\ Authorized(j)
          /\ task' = [task EXCEPT ![j].stage = "working"]
          /\ UNCHANGED row
       \/ /\ ~Authorized(j)
          /\ task' = [task EXCEPT ![j] = NoTask]
          /\ row'  = [row EXCEPT ![j] = Closed(@)]
    /\ UNCHANGED <<account, barrier, request, vectors, written, sweepVars,
                   pipeline, baseline>>

\* The handler writes to the vector store, outside any transaction and
\* whether or not its row still exists.
WriteVector(j) ==
    /\ task[j].stage = "working" /\ written < MaxWrites
    /\ vectors' = vectors + 1
    /\ written' = written + 1
    /\ UNCHANGED <<account, barrier, request, sweepVars, workVars>>

\* The job is closed, or goes back to ready (retry, or reaped after a crash).
JobEnds(j) ==
    /\ task[j] # NoTask
    /\ task' = [task EXCEPT ![j] = NoTask]
    /\ \/ row' = [row EXCEPT ![j] = Closed(@)]
       \/ /\ row[j].state = "running"
          /\ row' = [row EXCEPT ![j].state = "ready"]
    /\ UNCHANGED <<account, barrier, request, vectors, written, sweepVars,
                   pipeline, baseline>>

-----------------------------------------------------------------------------
SweepStep(s) == SweepPromotes(s) \/ SweepLoads(s) \/ Sweep(s)

JobStep(j) == \/ EnqueueIngest(j) \/ ClaimJob(j) \/ AuthorizeJob(j)
              \/ WriteVector(j) \/ JobEnds(j)

Next ==
    \/ \E r \in Requests: \/ Begin(r) \/ DeleteAccount(r)
                          \/ DeleteFails(r) \/ Abort(r)
    \/ \E s \in Sweepers: SweepStep(s) \/ SweepAborted(s)
    \/ CaptureBaseline \/ Enroll
    \/ \E j \in Jobs: JobStep(j)

Spec == Init /\ [][Next]_vars

\* The tick queues a sweep every time it runs and a failed one is retried, so
\* not every sweep is cut short; every handler is under a timeout.
Fairness ==
    /\ \A s \in Sweepers: /\ WF_vars(SweepPromotes(s))
                          /\ SF_vars(SweepLoads(s))
                          /\ SF_vars(Sweep(s))
    /\ \A j \in Jobs: WF_vars(JobEnds(j))

LiveSpec == Spec /\ Fairness

-----------------------------------------------------------------------------
TypeOK ==
    /\ account  \in {"alive", "gone"}
    /\ barrier  \in Barrier
    /\ ledger   \in [Ops -> Seq(Event)]
    /\ request  \in [Requests -> RequestStage]
    /\ sweeper  \in [Sweepers -> Sweeper]
    /\ vectors  \in Nat
    /\ pipeline \in Epoch
    /\ baseline \in Epoch
    /\ row      \in [Jobs -> Row]
    /\ task     \in [Jobs -> Task]
    /\ written  \in Nat

\* The sweep never changes a living account at any stage
\* (worker/privacy_sweep_jobs.py:5), whatever deletions were begun, failed or
\* aborted: it loses no vector, is not marked deleted, gets no ledger event.
LiveAccountUntouched ==
    [][account = "alive" => /\ vectors' >= vectors
                            /\ barrier'.state # "deleted"
                            /\ barrier'.op \notin Promotions
                            /\ ledger' = ledger]_vars

\* A living account that is not being deleted has the epoch of its memory
\* pipeline, so its memory jobs are not rejected as stale: across begin, abort,
\* lost calls, competing requests and an enrollment from an old baseline.
EpochFollowsPipeline ==
    account = "alive" /\ barrier.state = "active" /\ pipeline # NoEpoch
        => barrier.epoch = pipeline

\* Once the account is gone a raised barrier never comes down: the abort of a
\* request that lost against another one does not reopen it.
GoneStaysBlocked ==
    [][account = "gone" /\ barrier.state # "active"
          => barrier'.state # "active"]_vars

\* Closing is confirmed once per operation however many sweeps overlap
\* (worker/privacy_sweep_jobs.py:110).
ClosedOncePerOperation ==
    \A op \in Ops:
        Cardinality({i \in DOMAIN ledger[op]: ledger[op][i] = "closed"}) <= 1

\* Two consecutive empty sweeps close a deletion, and one that deleted
\* something starts the count again (worker/privacy_sweep_jobs.py:10-11): the
\* closing sweep, empty itself, follows an empty one with no deletion between.
ClosesAfterEmptySweep ==
    barrier.state # "deleted" /\ barrier'.state = "deleted"
        => LET events == ledger[barrier.op]
           IN  events # << >> /\ events[Len(events)] = "empty"

\* ... which is so as long as sweeps do not overlap.
OneSweepAtATime == \A s, t \in Sweepers : s # t => IdleSweeper \in {sweeper[s], sweeper[t]}

\* Every deleted account ends with a closed barrier: deleted with or without
\* raising it, under any interleaving of requests, late writes and sweeps.
GoneEventuallyClosed == account = "gone" ~> barrier.state = "deleted"
=============================================================================
