---------------------------- MODULE Checkpoints ----------------------------
(***************************************************************************)
(* The summaries of one user's conversation: a chain of checkpoints, each  *)
(* made in the background from the one before it and a range of messages   *)
(* (app/services/checkpoint_repo.py, worker/checkpoint_jobs.py, and the    *)
(* sweep of worker/memory_sweep_jobs.py that recovers a stopped chain).    *)
(*                                                                         *)
(* A chat turn that comes near the input limit saves a goal, the message   *)
(* through which the history must be summarised, and plans the next        *)
(* segment.  The job of a plan asks the model page by page, keeps the      *)
(* finished draft, and hands it to a publisher, which waits until the      *)
(* facts and preferences of the range have been compiled (MemoryChain and  *)
(* Contracts; here two cursors).  A publication may reserve the next       *)
(* segment, but every such hint may be lost: the sweep is what remains.    *)
(*                                                                         *)
(* Messages are counted in completed turns, and a page is one turn.  One   *)
(* memory generation, one privacy epoch and no release being prepared.     *)
(***************************************************************************)
EXTENDS Integers, Sequences, FiniteSets, FiniteSetsExt, SequencesExt

CONSTANTS
    Scripts,       \* what happens to the user, chosen at the start
    Attempts,      \* max_attempts of a job (3 in the code)
    RedoMaxDepth,  \* REDO_MAX_DEPTH (4 in the code)
    SegmentTurns,  \* turns one segment holds at most (8 pages of 120 rows, 12,288 bytes)
    ReverifyEvery  \* context_checkpoint_reverify_every

ASSUME CheckpointsAssumption ==
    /\ Attempts \in Nat \ {0} /\ RedoMaxDepth \in Nat
    /\ SegmentTurns \in Nat \ {0} /\ ReverifyEvery \in Nat \ {0}

VARIABLES
    script,    \* the turns the user takes, and bounds on what goes wrong
    n,         \* completed turns
    enabled,   \* context_retention_v2_enabled
    toggles,   \* changes of it so far, at most script.toggles
    faults,    \* failures so far, at most script.faults
    facts,     \* the turns whose facts have been consolidated
    asked,     \* the turns whose preferences have been asked for
    contract,  \* contract_processed_through_message_id
    broken,    \* a repair of the facts is under way
    goal,      \* retention_pressure_through_message_id, 0 when there is none
    cps,       \* the published checkpoints, in the order of their creation
    jobs,      \* the checkpoint jobs, in the order of their creation
    done,      \* finished jobs, in the order of finished_at
    tx         \* the chat transaction that holds the user's advisory lock

vars == <<script, n, enabled, toggles, faults, facts, asked, contract, broken,
          goal, cps, jobs, done, tx>>
env == <<script, toggles, facts, contract, broken>>

None == -1
Nobody == [held |-> FALSE, turn |-> FALSE, seen |-> 0, goal |-> None, through |-> 0]

Ids == DOMAIN jobs
Pending(queue) == \E j \in DOMAIN queue : queue[j].st \in {"ready", "running"}

\* load_latest, and the message it covers.
Latest == Len(cps)
Through(c) == IF c = 0 THEN 0 ELSE cps[c].through

\* context_retention.processing_complete
Processed(t) == facts >= t /\ contract >= t /\ ~broken

(***************************************************************************)
(* Plans and jobs.                                                         *)
(***************************************************************************)

\* The keys of plans, of what follows them, and of what stands for them.
Key(kind, prev, t, page, cut, of) ==
    [kind |-> kind, prev |-> prev, t |-> t, page |-> page, cut |-> cut, of |-> of]

\* CheckpointPlan: prev and t are what the source hash is taken over; after
\* is what the checkpoint prev covers.
Plan(prev, after, t, press) ==
    [key |-> Key("plan", prev, t, 0, FALSE, 0), prev |-> prev, through |-> t,
     from |-> after + 1, mode |-> "plan", press |-> press, page |-> 0,
     cut |-> FALSE, calls |-> None, depth |-> 0, of |-> 0, spent |-> 0,
     st |-> "ready", code |-> "", left |-> Attempts, short |-> FALSE]

\* jobs.enqueue: ON CONFLICT (dedup_key) DO NOTHING.
With(queue, job) ==
    IF \E i \in DOMAIN queue : queue[i].key = job.key THEN queue ELSE Append(queue, job)

\* A new row with the payload of job j.
Copy(j, key, left) ==
    [jobs[j] EXCEPT !.key = key, !.st = "ready", !.code = "", !.left = left, !.short = FALSE]

\* reserve_checkpoint_dependencies, in the commit that makes a plan.
Reserved(queue) ==
    IF Len(queue) > Len(jobs) THEN Max({asked, queue[Len(queue)].through}) ELSE asked

Ended(j, st, code) == [jobs EXCEPT ![j].st = st, ![j].code = code, ![j].short = FALSE]

\* load_pressure_sources and _load_retention_segment
SegmentEnd(t, to) == Min({to, t + SegmentTurns})

\* request_pressure with checkpoint c the latest, goal g and boundary b.
RequestPressure(queue, c, g, b) ==
    LET t == Through(c)
        to == Max({g, b})
    IN  IF b = 0 \/ t >= b
        THEN [goal |-> IF b > 0 /\ g <= t /\ Processed(t) THEN 0 ELSE g, queue |-> queue]
        ELSE [goal |-> to, queue |-> IF Pending(queue) THEN queue
                                     ELSE With(queue, Plan(c, t, SegmentEnd(t, to), TRUE))]

(***************************************************************************)
(* The chat.                                                               *)
(***************************************************************************)

\* The user's advisory lock is free.
LockFree == ~tx.held

\* A turn, or a turn that pauses before it is stored, takes the user's lock,
\* asks for pressure, and reads the latest checkpoint for an ordinary plan.
\* The goal and the plan it makes are seen by nobody until it commits.
BeginTurn(turn) ==
    LET b == n + IF turn THEN 1 ELSE 0
        r == RequestPressure(jobs, Latest, goal, b)
        presses == enabled /\ (turn => b \in script.press)
        locks == presses /\ b > 0 /\ (Through(Latest) < b \/ r.goal # goal)
    IN  /\ LockFree /\ (turn => n < script.turns) /\ (turn \/ (presses /\ script.pauses))
        /\ tx' = [held |-> TRUE, turn |-> turn, seen |-> Latest,
                  goal |-> IF locks THEN r.goal ELSE None,
                  through |-> IF locks /\ Len(r.queue) > Len(jobs)
                              THEN r.queue[Len(r.queue)].through ELSE 0]
        /\ UNCHANGED <<env, n, enabled, faults, asked, goal, cps, jobs, done>>

\* A waiting ordinary plan nobody has begun may take a later boundary.
Mergeable(job, t, g) ==
    /\ job.st = "ready" /\ job.left = Attempts /\ job.calls = None /\ job.page = 0
    /\ ~job.press /\ job.mode = "plan" /\ g = 0 /\ job.through < t

\* _maybe_enqueue_retention for an ordinary plan through t: merged while the
\* waiting plan is young, put off for a while after a publication.
Ordinary(queue, c, t, g) ==
    IF Through(c) >= t THEN {queue}
    ELSE IF Pending(queue)
         THEN {queue} \union {[queue EXCEPT ![j] = Plan(c, Through(c), t, FALSE)] :
                  j \in {i \in DOMAIN queue : /\ queue[i].st \in {"ready", "running"}
                                              /\ Mergeable(queue[i], t, g)}}
    ELSE {With(queue, Plan(c, Through(c), t, FALSE))} \union IF cps = << >> THEN {} ELSE {queue}

\* What was decided is committed with the turn; a turn that leaves two turns
\* without a summary asks for one of all but itself.
CommitTurn ==
    LET g == IF tx.goal = None THEN goal ELSE tx.goal
        queue == IF tx.through = 0 THEN jobs ELSE With(jobs, Plan(tx.seen, Through(tx.seen), tx.through, TRUE))
    IN  /\ tx.held
        /\ n' = IF tx.turn THEN n + 1 ELSE n
        /\ goal' = g
        /\ jobs' \in IF tx.turn /\ enabled /\ n > Through(tx.seen)
                     THEN Ordinary(queue, tx.seen, n, g) ELSE {queue}
        /\ asked' = IF jobs' = jobs THEN asked
                    ELSE Max({asked} \union {jobs'[j].through : j \in DOMAIN jobs'})
        /\ tx' = Nobody
        /\ UNCHANGED <<env, enabled, faults, cps, done>>

(***************************************************************************)
(* The job of a plan.                                                      *)
(***************************************************************************)

\* Mutant: the parent may have been replaced.
ApplicableToAny(j) == Through(Latest) < jobs[j].through

\* _still_applicable: the plan's parent is the latest checkpoint.
Applicable(j) == Through(Latest) < jobs[j].through /\ Latest = jobs[j].prev

\* The calls the packed plan has left in this attempt.
Available(j) == IF jobs[j].calls = None THEN jobs[j].left ELSE Min({jobs[j].calls, jobs[j].left})

\* Claim, the checks before the model, and the call that is written off in
\* the payload before it is made.  What is still to be compiled is asked for
\* again, and is not waited for.
BeginPlan(j) ==
    LET end(st, code) == jobs' = [Ended(j, st, code) EXCEPT ![j].left = @ - 1] /\ done' = Append(done, j)
    IN  /\ jobs[j].st = "ready" /\ jobs[j].mode = "plan"
        /\ IF ~enabled THEN end("ok", "disabled") /\ UNCHANGED asked
           ELSE IF ~Applicable(j) THEN end("ok", "source_changed") /\ UNCHANGED asked
           ELSE /\ asked' = Max({asked, jobs[j].through})
                /\ IF Available(j) = 0 THEN end("dead", "failed")
                   ELSE /\ jobs' = [jobs EXCEPT ![j].st = "running", ![j].left = @ - 1,
                                                ![j].calls = Available(j) - 1, ![j].spent = @ + 1]
                        /\ UNCHANGED done
        /\ UNCHANGED <<env, n, enabled, faults, goal, cps, tx>>

\* The output was cut at its length: the same page again in smaller chunks,
\* with the calls that are left, or none and the job dies.
CutShort(j) ==
    /\ jobs[j].st = "running" /\ jobs[j].mode = "plan" /\ ~jobs[j].cut /\ script.cuts
    /\ IF jobs[j].calls = 0
       THEN jobs' = Ended(j, "dead", "failed") /\ done' = Append(done, j)
       ELSE jobs' = [jobs EXCEPT ![j].cut = TRUE, ![j].short = TRUE] /\ UNCHANGED done
    /\ UNCHANGED <<env, n, enabled, faults, asked, goal, cps, tx>>

\* The provider, the handler or the lease fails: again, or dead.
Fail(j) ==
    /\ jobs[j].st = "running" /\ faults < script.faults
    /\ faults' = faults + 1
    /\ IF jobs[j].left = 0
       THEN jobs' = Ended(j, "dead", "failed") /\ done' = Append(done, j)
       ELSE jobs' = [jobs EXCEPT ![j].st = "ready", ![j].short = FALSE] /\ UNCHANGED done
    /\ UNCHANGED <<env, n, enabled, asked, goal, cps, tx>>

LastPage(j) == jobs[j].page + 1 >= jobs[j].through - jobs[j].from + 1

\* The next page, with the calls this attempt began with.
NextPage(j) ==
    [Copy(j, Key("page", jobs[j].prev, jobs[j].through, jobs[j].page + 1, jobs[j].cut, jobs[j].of),
          jobs[j].calls + 1)
        EXCEPT !.page = @ + 1, !.calls = @ + 1]

\* The publisher of a finished draft.
Publisher(j) ==
    [Copy(j, Key("publish", jobs[j].prev, jobs[j].through, jobs[j].page, jobs[j].cut, jobs[j].of), Attempts)
        EXCEPT !.mode = "publish"]

\* The fenced finalization: another try at the page, the next page, or the
\* draft, kept in the job's own payload and handed to its publisher.
CommitPlan(j) ==
    LET finished == IF Applicable(j) /\ LastPage(j) /\ ~jobs[j].short
                    THEN [Ended(j, "ok", "draft") EXCEPT ![j].mode = "publish"]
                    ELSE Ended(j, "ok", IF LastPage(j) /\ ~jobs[j].short THEN "draft" ELSE "page")
    IN  /\ jobs[j].st = "running" /\ jobs[j].mode = "plan"
        /\ jobs' = IF ~enabled \/ ~Applicable(j) THEN finished
                   ELSE IF jobs[j].short
                        THEN With(finished, Copy(j, Key("smaller", 0, 0, jobs[j].page, TRUE, j), jobs[j].calls))
                   ELSE With(finished, IF LastPage(j) THEN Publisher(j) ELSE NextPage(j))
        /\ done' = Append(done, j)
        /\ UNCHANGED <<env, n, enabled, faults, asked, goal, cps, tx>>

(***************************************************************************)
(* The publisher.                                                          *)
(***************************************************************************)

\* Mutant: the publisher waits without asking again.
AskAgainNever(t) == asked

\* enqueue_contract_processing, every time the publisher finds it must wait.
AskAgain(t) == Max({asked, t})

\* Claim and the checks; a publisher that must wait spends no attempt.
BeginPublish(j) ==
    LET end(code) == jobs' = [Ended(j, "ok", code) EXCEPT ![j].left = @ - 1] /\ done' = Append(done, j)
    IN  /\ jobs[j].st = "ready" /\ jobs[j].mode = "publish"
        /\ IF ~enabled THEN end("disabled") /\ UNCHANGED asked
           ELSE IF ~Applicable(j) THEN end("source_changed") /\ UNCHANGED asked
           ELSE /\ asked' = IF Processed(jobs[j].through) THEN asked ELSE AskAgain(jobs[j].through)
                /\ jobs' = IF Processed(jobs[j].through)
                           THEN [jobs EXCEPT ![j].st = "running", ![j].left = @ - 1] ELSE jobs
                /\ UNCHANGED done
        /\ UNCHANGED <<env, n, enabled, faults, goal, cps, tx>>

\* Mutant: any publication ends the pressure.
ClearedAlways(t) == {0}

\* clear_completed_pressure: only a goal the publication reaches, and not
\* while a chat holds the row.
Cleared(t) ==
    IF goal > t \/ tx.goal # None THEN {goal} ELSE {0} \union IF tx.held THEN {goal} ELSE {}

\* reserve_remaining_pressure: the next segment, if the lock is free and no
\* error is met; else the goal is left to the sweep.
FollowUps(queue, t, g) ==
    {queue} \union
    IF tx.held \/ g <= t THEN {}
    ELSE {With(queue, Plan(Latest + 1, t, SegmentEnd(t, g), TRUE))}

\* The INSERT and what its commit takes with it.
Published(j, from, re, queue, g) ==
    /\ cps' = Append(cps, [through |-> jobs[j].through, prev |-> jobs[j].prev, from |-> from, re |-> re])
    /\ goal' = g
    /\ \E q \in queue : jobs' = q /\ asked' = Reserved(q)

Reverifier(j) ==
    [Plan(Latest + 1, 0, jobs[j].through, FALSE) EXCEPT
        !.key = Key("reverify", Latest + 1, jobs[j].through, 0, FALSE, 0),
        !.mode = "reverify", !.left = IF Attempts < 2 THEN Attempts ELSE 2]

\* Mutant: the finalization trusts the handler's earlier look.
ReadyToPublishAsSeen(j) == TRUE

\* The finalization looks again at what the handler saw.
ReadyToPublish(j) == Processed(jobs[j].through)

CommitPublish(j) ==
    LET finished == Ended(j, "ok", "ok")
        t == jobs[j].through
    IN  /\ jobs[j].st = "running" /\ jobs[j].mode = "publish"
        /\ done' = Append(done, j)
        /\ IF ~enabled \/ ~Applicable(j)
           THEN jobs' = finished /\ UNCHANGED <<asked, goal, cps>>
           ELSE IF ~ReadyToPublish(j)
           THEN /\ jobs' = With(finished, Copy(j, Key("wait", 0, 0, 0, FALSE, j), jobs[j].left + 1))
                /\ UNCHANGED <<asked, goal, cps>>
           ELSE \E g \in Cleared(t) :
                    Published(j, jobs[j].from, FALSE,
                        IF (Latest + 1) % ReverifyEvery = 0
                        THEN {With(finished, Reverifier(j))} ELSE FollowUps(finished, t, g), g)
        /\ UNCHANGED <<env, n, enabled, faults, tx>>

(***************************************************************************)
(* The periodic second look at the latest checkpoint.                      *)
(***************************************************************************)

BeginReverify(j) ==
    /\ jobs[j].st = "ready" /\ jobs[j].mode = "reverify"
    /\ IF enabled /\ Latest = jobs[j].prev
       THEN jobs' = [jobs EXCEPT ![j].st = "running", ![j].left = @ - 1] /\ UNCHANGED done
       ELSE jobs' = Ended(j, "ok", "disabled") /\ done' = Append(done, j)
    /\ UNCHANGED <<env, n, enabled, faults, asked, goal, cps, tx>>

CommitReverify(j) ==
    LET finished == Ended(j, "ok", "ok")
    IN  /\ jobs[j].st = "running" /\ jobs[j].mode = "reverify"
        /\ done' = Append(done, j)
        /\ IF enabled /\ Latest = jobs[j].prev /\ Processed(jobs[j].through)
           THEN Published(j, 1, TRUE, FollowUps(finished, jobs[j].through, goal), goal)
           ELSE jobs' = finished /\ UNCHANGED <<asked, goal, cps>>
        /\ UNCHANGED <<env, n, enabled, faults, tx>>

(***************************************************************************)
(* The sweep.                                                              *)
(***************************************************************************)

Family(c, t) ==
    {i \in DOMAIN done : LET job == jobs[done[i]]
                         IN  job.prev = c /\ job.through = t /\ job.mode \in {"plan", "publish"}}

\* A success whose payload can be taken up: switched off, overtaken, a page,
\* or a whole draft.
Kept(job) ==
    /\ job.st = "ok"
    /\ job.code \in {"disabled", "source_changed", "page", "ok"} \/ (job.code = "draft" /\ job.mode = "publish")

\* ORDER BY mode = publish, progress_next_chunk, finished_at, all descending.
Best(of) ==
    LET drafts == {i \in of : jobs[done[i]].mode = "publish"}
        some == IF drafts = {} THEN of ELSE drafts
        far == {i \in some : \A k \in some : jobs[done[k]].page <= jobs[done[i]].page}
    IN  done[Max(far)]

\* _resume_unpublished_success
Resumed(c, t, press) ==
    LET of == Family(c, t)
        kept == {i \in of : /\ Kept(jobs[done[i]])
                            /\ ~\E k \in of : k > i /\ jobs[done[k]].st = "dead"}
        j == Best(kept)
    IN  IF kept = {} THEN jobs
        ELSE With(jobs, [Copy(j, Key("resume", 0, 0, 0, FALSE, j), jobs[j].left + 1)
                            EXCEPT !.press = @ \/ (press /\ jobs[j].mode = "plan")])

\* Mutant: a row made again forgets how often that has been done.
RedoneForever(dead, c, t, press) ==
    With(jobs, [Plan(c, Through(c), t, press) EXCEPT !.key = Key("redo", 0, 0, 0, FALSE, dead),
                    !.of = dead, !.spent = jobs[dead].spent])

\* _redo_dead_checkpoint: a new row for a dead plan, up to a depth.
Redone(dead, c, t, press) ==
    IF jobs[dead].st # "dead" \/ jobs[dead].depth >= RedoMaxDepth THEN jobs
    ELSE With(jobs, [Plan(c, Through(c), t, press) EXCEPT !.key = Key("redo", 0, 0, 0, FALSE, dead),
                        !.of = dead, !.depth = jobs[dead].depth + 1, !.spent = jobs[dead].spent])

\* What is done about a plan whose key is taken.
Recovered(c, t, press) ==
    LET last == IF Family(c, t) = {} THEN 0 ELSE done[Max(Family(c, t))]
        root == \E j \in Ids : jobs[j].key = Plan(c, Through(c), t, press).key /\ jobs[j].st = "dead"
        resumed == IF root /\ jobs[last].st = "dead" THEN jobs ELSE Resumed(c, t, press)
    IN  IF last = 0 THEN jobs
        ELSE IF resumed # jobs THEN resumed ELSE Redone(last, c, t, press)

\* One user's turn in _resume_retention_checkpoints: the goal is cleared when
\* it has been reached, and the next segment is planned or recovered.
Sweep ==
    LET c == Latest
        t == Through(c)
        g == IF t >= goal /\ Processed(t) THEN 0 ELSE goal
        press == g > 0
        to == IF press THEN SegmentEnd(t, g) ELSE SegmentEnd(t, n) - 1
        made == With(jobs, Plan(c, t, to, press))
    IN  /\ enabled /\ LockFree /\ ~Pending(jobs)
        /\ goal' = g
        /\ jobs' = IF to <= t THEN jobs ELSE IF made # jobs THEN made ELSE Recovered(c, to, press)
        /\ asked' = Reserved(jobs')
        /\ UNCHANGED <<env, n, enabled, faults, cps, done, tx>>

(***************************************************************************)
(* The other work of the user, and the operators.                          *)
(***************************************************************************)

\* The facts are read by their own chain, and are repaired now and then.
Learn ==
    /\ facts < n /\ facts' = n
    /\ UNCHANGED <<script, n, enabled, toggles, faults, asked, contract, broken, goal, cps, jobs, done, tx>>

Break ==
    /\ ~broken /\ faults < script.faults
    /\ broken' = TRUE /\ faults' = faults + 1
    /\ UNCHANGED <<script, n, enabled, toggles, facts, asked, contract, goal, cps, jobs, done, tx>>

Mend ==
    /\ broken /\ broken' = FALSE
    /\ UNCHANGED <<script, n, enabled, toggles, faults, facts, asked, contract, goal, cps, jobs, done, tx>>

\* The preferences are compiled as far as they were asked for, or the job
\* that would have done it dies.
Compile ==
    /\ contract < asked /\ contract' = asked
    /\ UNCHANGED <<script, n, enabled, toggles, faults, facts, asked, broken, goal, cps, jobs, done, tx>>

CompileDies ==
    /\ contract < asked /\ faults < script.faults
    /\ asked' = contract /\ faults' = faults + 1
    /\ UNCHANGED <<env, n, enabled, goal, cps, jobs, done, tx>>

\* The configuration row is locked by the transactions that write.
Toggle ==
    /\ LockFree /\ toggles < script.toggles
    /\ toggles' = toggles + 1 /\ enabled' = ~enabled
    /\ UNCHANGED <<script, n, faults, facts, asked, contract, broken, goal, cps, jobs, done, tx>>

Init ==
    /\ script \in Scripts
    /\ n = 0 /\ enabled = TRUE /\ toggles = 0 /\ faults = 0
    /\ facts = 0 /\ asked = 0 /\ contract = 0 /\ broken = FALSE
    /\ goal = 0 /\ cps = << >> /\ jobs = << >> /\ done = << >> /\ tx = Nobody

Begin(j) == BeginPlan(j) \/ BeginPublish(j) \/ BeginReverify(j)
Finish(j) == CommitPlan(j) \/ CommitPublish(j) \/ CommitReverify(j)

Next ==
    \/ \E turn \in BOOLEAN : BeginTurn(turn)
    \/ CommitTurn
    \/ \E j \in Ids : Begin(j) \/ CutShort(j) \/ Fail(j) \/ Finish(j)
    \/ Sweep \/ Learn \/ Break \/ Mend \/ Compile \/ CompileDies \/ Toggle

Spec == Init /\ [][Next]_vars

\* The worker takes every ready job and ends every running one; a chat
\* transaction ends; the sweep comes round to the user while the lock is
\* free again and again; facts and preferences are worked off.
Fairness ==
    /\ WF_vars(\E j \in Ids : Begin(j)) /\ WF_vars(\E j \in Ids : Finish(j))
    /\ WF_vars(CommitTurn) /\ SF_vars(Sweep)
    /\ WF_vars(Learn) /\ WF_vars(Mend) /\ SF_vars(Compile)

LiveSpec == Spec /\ Fairness

(***************************************************************************)
(* What must hold.                                                         *)
(***************************************************************************)

\* The published checkpoints are one chain, and each begins where its parent
\* ends, also when a plan read its parent before another job published: no
\* message is left out of the summaries and none is summarised twice
\* (coverage_for_checkpoint: a complete same-user prefix and parent chain).
ChainCoversPrefix ==
    \A c \in DOMAIN cps :
        /\ cps[c].prev = c - 1
        /\ IF cps[c].re THEN cps[c].through = Through(c - 1)
           ELSE cps[c].from = Through(c - 1) + 1 /\ cps[c].through >= cps[c].from

\* A summary appears only over messages whose facts and preferences have been
\* compiled, and nobody is repairing: what it replaces in the prompt is known
\* elsewhere at that moment, not only when the publisher first looked.
PublishedProcessed ==
    [][\A c \in DOMAIN cps' \ DOMAIN cps : Processed(cps'[c].through)]_vars

\* A goal never moves back, and disappears only when a checkpoint covers it:
\* not with the publication of an earlier segment, and not by a turn that
\* asks for less.
GoalKept ==
    [][goal' < goal => goal' = 0 /\ cps' # << >> /\ cps'[Len(cps')].through >= goal]_vars

\* Retries, smaller chunks, pages, rows taken up and rows made again, with the
\* feature switched off and on in between, together call the model at most
\* once for every page and every attempt but one, as often as a plan may be
\* made again (REDO_MAX_DEPTH).
CallsBounded ==
    \A j \in Ids : jobs[j].spent <=
        (RedoMaxDepth + 1) * (Attempts + jobs[j].through - jobs[j].from)

\* A plan of the latest checkpoint has died once more than is allowed.
Exhausted ==
    \E j \in Ids : jobs[j].st = "dead" /\ jobs[j].depth = RedoMaxDepth /\ jobs[j].prev = Latest

\* A goal is reached in the end, whatever hints were lost, jobs died and
\* switches were thrown on the way, unless the feature stays off or the plan
\* has been made again as often as is allowed.
GoalReached == <>[]enabled => [](goal > 0 => <>(goal = 0 \/ Exhausted))
=============================================================================
