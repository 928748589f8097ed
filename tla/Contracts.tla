------------------------------ MODULE Contracts ------------------------------
(***************************************************************************)
(* The interaction contract of one user: what the user explicitly asked    *)
(* about the way of talking, compiled in the background from the stored    *)
(* messages and shown in every prompt (worker/contract_jobs.py,            *)
(* app/services/contract_repo.py, contract_compiler.py, and the            *)
(* reservation in context_retention.enqueue_contract_processing).          *)
(*                                                                         *)
(* One preference of conversation scope stands for all of them: a message  *)
(* may start it, may end it with one of the closed phrases the rules know, *)
(* or may say nothing about it.  A long message is read in two pieces.     *)
(* The compile jobs of the user read a range after the cursor, ask the     *)
(* model, and in the fenced finalization publish the document and move     *)
(* the cursor, restart, continue with the next page, or change nothing.    *)
(* Jobs die, are redone with a growing depth, and past the last depth one  *)
(* job without the model moves the cursor.                                 *)
(***************************************************************************)
EXTENDS Integers, Sequences, FiniteSets, FiniteSetsExt, SequencesExt

CONSTANTS
    Scripts,       \* what the messages say and the summary wants, chosen at the start
    Attempts,      \* max_attempts of a compile job (3 in the code)
    RedoMaxDepth,  \* REDO_MAX_DEPTH (4 in the code)
    PageRows       \* _MAX_SOURCE, rows read at once (200 in the code)

ASSUME ContractsAssumption ==
    /\ Attempts \in Nat \ {0} /\ RedoMaxDepth \in Nat /\ PageRows \in Nat \ {0}

\* A message says one thing about the preference; one that is read in two
\* pieces says it in the first or in the second.
ASSUME ScriptAssumption == \A s \in Scripts :
    /\ s.says \in Seq([says: {"start", "end", "nothing"}, long: 0..2, asks: BOOLEAN])
    /\ {s.want, s.failures, s.toggles, s.switches} \subseteq Nat

VARIABLES
    script,   \* the messages the user will write, and the summary's range
    n,        \* messages stored so far, their ids are 1..n
    enabled,  \* context_retention_v2_enabled
    toggles,  \* changes of it so far, at most script.toggles
    failures,   \* failed attempts so far, at most script.faults
    over,     \* the rendering of the document exceeds 2,048 bytes
    switches, \* changes of the profile's language so far, at most script.switches
    cursor,   \* contract_processed_through_message_id
    doc,      \* the published document: the start of the preference, or 0
    tasks,     \* the compile jobs, in the order of their creation
    done,     \* finished jobs, in the order of finished_at
    heard     \* starts an applied batch has taken from the model

contractVars ==
    <<script, n, enabled, toggles, failures, over, switches, cursor, doc, tasks, done, heard>>

Empty == [src |-> 0, ended |-> FALSE]
Message(m) == script.says[m]
Ids == DOMAIN tasks
Active == {j \in Ids : tasks[j].st \in {"ready", "running"}}

(***************************************************************************)
(* The compiled document.                                                  *)
(***************************************************************************)

\* A long message is cut, unless no model reads it.
Whole(j, m) == tasks[j].skip \/ Message(m).long = 0

\* The messages of a batch that say word in the piece of them that is read.
Says(j, batch, word) ==
    {m \in batch : /\ Message(m).says = word
                   /\ Whole(j, m) \/ Message(m).long = IF tasks[j].part > 0 THEN 2 ELSE 1}

\* Mutant: an end counts only when the model names it, and it named none.
MergedByModel(work, ends, said) ==
    IF said # {} THEN [src |-> Max(said), ended |-> FALSE] ELSE work

\* merge_candidates: the starts the model names replace the item of the same
\* key; every explicit end after the item's start closes it, named or not.
Merged(work, ends, said) ==
    LET item == IF said # {} THEN [src |-> Max(said), ended |-> FALSE] ELSE work
    IN  [item EXCEPT !.ended = @ \/ (item.src # 0 /\ \E e \in ends : e > item.src)]

\* published_text: the document's active item, less what a stored message
\* after the cursor ends.
Shown ==
    /\ doc.src # 0 /\ ~doc.ended
    /\ ~\E e \in cursor + 1 .. n : Message(e).says = "end" /\ e >= doc.src

(***************************************************************************)
(* Jobs and their keys.                                                    *)
(***************************************************************************)

Key(kind, c, t, i, of) == [kind |-> kind, c |-> c, t |-> t, i |-> i, of |-> of]

\* dedup_key = base or starts_with(dedup_key, base || ':')
Continues(key, c, t) == key.kind \in {"base", "after", "source"} /\ key.c = c /\ key.t = t

Fresh(key, c, t, max) ==
    [key |-> key, after |-> c, through |-> t, st |-> "ready", code |-> "", att |-> 0,
     max |-> max, depth |-> 0, of |-> 0, skip |-> FALSE, part |-> 0, items |-> Empty,
     base |-> Empty, fb |-> FALSE, left |-> 0, cut |-> FALSE, at |-> 0, seen |-> Empty]

\* jobs.enqueue: ON CONFLICT (dedup_key) DO NOTHING.
With(queue, job) ==
    IF \E i \in DOMAIN queue : queue[i].key = job.key THEN queue ELSE Append(queue, job)

\* A new row with the payload of job j.
Copy(j, key, max) ==
    [tasks[j] EXCEPT !.key = key, !.st = "ready", !.code = "", !.att = 0, !.max = max,
                    !.cut = FALSE, !.at = 0, !.seen = Empty]

Closed(queue, j, st, code) ==
    [queue EXCEPT ![j].st = st, ![j].code = code, ![j].cut = FALSE, ![j].at = 0,
                  ![j].seen = Empty, ![j].att = 0]

\* JobRetry, an exception or an expired lease: again, or dead.
Failed(j) ==
    IF tasks[j].att < tasks[j].max
    THEN /\ tasks' = [tasks EXCEPT ![j].st = "ready", ![j].cut = FALSE, ![j].at = 0,
                                 ![j].seen = Empty]
         /\ UNCHANGED done
    ELSE /\ tasks' = Closed(tasks, j, "dead", "failed")
         /\ done' = Append(done, j)

(***************************************************************************)
(* enqueue_contract_processing.                                            *)
(***************************************************************************)

Matches(j, c, t) == tasks[j].through = t /\ (Continues(tasks[j].key, c, t) \/ tasks[j].after = c)

\* _CONTRACT_LATEST_TERMINAL, 0 when there is none.
LatestTerminal(c, t) ==
    LET of == {i \in DOMAIN done : Matches(done[i], c, t)}
    IN  IF of = {} THEN 0 ELSE done[Max(of)]

\* Mutant: past the last depth nothing is made.
RedoThenNothing(dead) ==
    [Fresh(Key("redo", 0, 0, IF tasks[dead].depth >= RedoMaxDepth THEN tasks[dead].of ELSE dead, 0),
           cursor, tasks[dead].through, Attempts)
        EXCEPT !.depth = tasks[dead].depth + 1, !.of = dead]

\* contract_redo: a new row for a dead one, without the model past the depth.
Redo(dead) ==
    LET spent == tasks[dead].depth >= RedoMaxDepth
    IN  [Fresh(Key(IF spent THEN "skip" ELSE "redo", 0, 0, dead, 0),
               cursor, tasks[dead].through, Attempts)
            EXCEPT !.depth = tasks[dead].depth + 1, !.of = dead, !.skip = spent]

\* _CONTRACT_UNPROCESSED_TERMINAL: finished without effect, and no later death.
Resumable(c, t) ==
    {i \in DOMAIN done :
        /\ Matches(done[i], c, t) /\ tasks[done[i]].code \in {"ok", "disabled"}
        /\ ~\E k \in i + 1 .. Len(done) :
              tasks[done[k]].st = "dead" /\ tasks[done[k]].through = t}

\* ORDER BY partial_offset DESC, finished_at DESC
Latest(of) ==
    LET cut == {i \in of : tasks[done[i]].part > 0}
    IN  Max(IF cut = {} THEN of ELSE cut)

\* The queue after a request that the messages through t be compiled.
Asked(t) ==
    LET last == LatestTerminal(cursor, t)
        base == Key("base", cursor, t, 0, 0)
        kept == Resumable(cursor, t)
    IN  IF cursor >= t \/ \E j \in Active : tasks[j].through >= t THEN tasks
        ELSE IF last = 0 THEN With(tasks, Fresh(base, cursor, t, Attempts))
        ELSE IF tasks[last].st = "dead"
             THEN IF tasks[last].skip THEN tasks ELSE With(tasks, Redo(last))
        ELSE IF kept = {} THEN tasks
        ELSE LET j == done[Latest(kept)]
             IN  With(tasks, [Copy(j, Key("resume", 0, 0, j, 0), Attempts) EXCEPT !.after = cursor])

\* The publisher of a waiting summary defers itself without spending an
\* attempt, and asks again every time (checkpoint_jobs publish_retention).
Ask ==
    /\ enabled /\ script.want <= n
    /\ tasks' = Asked(script.want) /\ tasks' # tasks
    /\ UNCHANGED <<script, n, enabled, toggles, failures, over, switches, cursor, doc, done, heard>>

(***************************************************************************)
(* handle_contract_compile.                                                *)
(***************************************************************************)

Rows(j) == {m \in tasks[j].at + 1 .. tasks[j].through : m <= tasks[j].at + PageRows}

\* contract_batch: a run of whole messages, or one piece of the first.
Batches(j) ==
    LET first == tasks[j].at + 1
    IN  IF tasks[j].skip THEN {Rows(j)}
        ELSE IF ~Whole(j, first) THEN {{first}}
        ELSE {first .. m : m \in {r \in Rows(j) : \A q \in first .. r : Whole(j, q)}}

Partial(j) == ~Whole(j, tasks[j].at + 1) /\ tasks[j].part = 0

\* The last call of the attempt budget: there is no retry after it.
Final(j) == tasks[j].att >= tasks[j].max \/ (tasks[j].fb /\ tasks[j].left <= 0)

Started(j) ==
    [tasks EXCEPT ![j].st = "running", ![j].att = @ + 1, ![j].at = cursor, ![j].seen = doc,
                 ![j].left = IF tasks[j].fb THEN @ - 1 ELSE @]

\* Claim, the checks before the model, and the read of the base state.  The
\* call left to a fallback job is written off before it is made.
Begin(j) ==
    LET job == tasks[j]
        stale == job.part > 0 /\ (cursor + 1 # job.part \/ doc # job.base)
        end(st, code) == tasks' = Closed(tasks, j, st, code) /\ done' = Append(done, j)
    IN  /\ job.st = "ready"
        /\ IF job.fb /\ job.left = 0 THEN end("dead", "failed")
           ELSE IF ~enabled THEN end("cancelled", "disabled")
           ELSE IF cursor >= job.through THEN end("ok", "already_processed")
           ELSE IF stale THEN end("cancelled", "source_changed")
           ELSE tasks' = Started(j) /\ UNCHANGED done
        /\ UNCHANGED <<script, n, enabled, toggles, failures, over, switches, cursor, doc, heard>>

\* The output was cut at its length, over a batch larger than the background
\* segment: _persist_output_fallback writes the mode into the job's payload.
Truncated(j) ==
    /\ tasks[j].st = "running" /\ ~tasks[j].cut /\ ~tasks[j].skip /\ ~tasks[j].fb
    /\ tasks[j].att < tasks[j].max
    /\ tasks' = [tasks EXCEPT ![j].fb = TRUE, ![j].left = tasks[j].max - tasks[j].att,
                              ![j].cut = TRUE]
    /\ UNCHANGED <<script, n, enabled, toggles, failures, over, switches, cursor, doc, done, heard>>

\* The provider fails, the handler times out, the lease runs out, or the
\* output does not parse, has no evidence, does not merge or is too large
\* (the last four are tried again only while there is a call left).
Fails(j) ==
    /\ tasks[j].st = "running" /\ failures < script.failures
    /\ failures' = failures + 1
    /\ Failed(j)
    /\ UNCHANGED <<script, n, enabled, toggles, over, switches, cursor, doc, heard>>

\* The model calls j had left when it began, for the job that follows it.
Left(j) == IF tasks[j].cut THEN tasks[j].left ELSE tasks[j].left + 1

\* A new row that takes the payload of j and, in fallback, what is left of it.
Follow(j, key, after) ==
    LET max == IF tasks[j].fb THEN Left(j) ELSE Attempts
    IN  [Copy(j, key, max) EXCEPT !.after = after, !.left = IF tasks[j].fb THEN max ELSE 0]

\* restart_current: the same target, from the cursor as it is now.
Restarted(j) ==
    [Follow(j, Key("after", cursor, tasks[j].through, j, 0), cursor)
        EXCEPT !.part = 0, !.items = Empty, !.base = Empty]

\* The page after the boundary; the skip and redo marks go with it.
Page(j, boundary) ==
    [Follow(j, Key("base", boundary, tasks[j].through, IF tasks[j].skip THEN 1 ELSE 0, tasks[j].of),
            boundary)
        EXCEPT !.part = 0, !.items = Empty, !.base = Empty]

\* The second piece of a long message, with what the first one said.
Piece(j, items) ==
    LET first == tasks[j].at + 1
    IN  [Follow(j, Key("source", tasks[j].at, tasks[j].through, first, tasks[j].of), tasks[j].after)
            EXCEPT !.part = first, !.items = items, !.base = tasks[j].seen]

\* Mutant: the finalization trusts the base it read before the model ran.
MovedNever(j) == FALSE

\* Another job has moved the cursor or the document while the model ran.
Moved(j) == cursor # tasks[j].at \/ doc # tasks[j].seen

Working(j) == IF tasks[j].part > 0 THEN tasks[j].items ELSE tasks[j].seen

\* Without candidates, or where nothing can be merged on the last attempt.
Document(j, batch, said) ==
    IF over THEN Working(j) ELSE Merged(Working(j), Says(j, batch, "end"), said)

\* The fenced finalization of a success.
Commit(j) ==
    /\ tasks[j].st = "running"
    /\ done' = Append(done, j)
    /\ LET fin == Closed(tasks, j, "ok", "ok")
       IN  \/ /\ ~enabled \/ (Moved(j) /\ cursor >= tasks[j].through)
              /\ tasks' = fin
              /\ UNCHANGED <<cursor, doc, heard>>
           \/ /\ enabled /\ Moved(j) /\ cursor < tasks[j].through
              /\ tasks' = With(fin, Restarted(j))
              /\ UNCHANGED <<cursor, doc, heard>>
           \/ /\ enabled /\ ~Moved(j) /\ tasks[j].cut
              /\ tasks' = With(fin, Follow(j, Key("fallback", 0, 0, j, 0), tasks[j].after))
              /\ UNCHANGED <<cursor, doc, heard>>
           \/ /\ enabled /\ ~Moved(j) /\ ~tasks[j].cut
              /\ over => tasks[j].skip \/ Final(j)
              /\ \E batch \in Batches(j) :
                 \E said \in IF tasks[j].skip \/ over THEN {{}} ELSE SUBSET Says(j, batch, "start") :
                   LET new == Document(j, batch, said)
                   IN  IF Partial(j)
                       THEN /\ tasks' = With(fin, Piece(j, new))
                            /\ UNCHANGED <<cursor, doc, heard>>
                       ELSE /\ doc' = new
                            /\ cursor' = Max(batch)
                            /\ heard' = heard \union said \union ({tasks[j].items.src} \ {0})
                            /\ tasks' = IF Max(batch) < tasks[j].through
                                       THEN With(fin, Page(j, Max(batch))) ELSE fin
    /\ UNCHANGED <<script, n, enabled, toggles, failures, over, switches>>

(***************************************************************************)
(* The user and the operators.                                             *)
(***************************************************************************)

\* A chat turn commits the next message, and in the same commit asks for it
\* if it closes a day, corrects, or ends a preference.
Say ==
    /\ n < Len(script.says)
    /\ n' = n + 1
    /\ tasks' = IF enabled /\ Message(n + 1).asks THEN Asked(n + 1) ELSE tasks
    /\ UNCHANGED <<script, enabled, toggles, failures, over, switches, cursor, doc, done, heard>>

Toggle ==
    /\ toggles < script.toggles
    /\ toggles' = toggles + 1
    /\ enabled' = ~enabled
    /\ UNCHANGED <<script, n, failures, over, switches, cursor, doc, tasks, done, heard>>

\* The profile's language changes, and with it the size of the same document.
SwitchLanguage ==
    /\ switches < script.switches /\ doc.src # 0
    /\ switches' = switches + 1
    /\ over' = ~over
    /\ UNCHANGED <<script, n, enabled, toggles, failures, cursor, doc, tasks, done, heard>>

ContractInit ==
    /\ script \in Scripts
    /\ n = 0 /\ enabled = TRUE /\ toggles = 0 /\ failures = 0 /\ over = FALSE /\ switches = 0
    /\ cursor = 0 /\ doc = Empty
    /\ tasks = << >> /\ done = << >> /\ heard = {}

Run(j) == Begin(j) \/ Truncated(j) \/ Fails(j) \/ Commit(j)

ContractNext ==
    \/ Say \/ Ask \/ Toggle \/ SwitchLanguage
    \/ \E j \in Ids : Run(j)

ContractSpec == ContractInit /\ [][ContractNext]_contractVars

\* The worker takes every ready job and ends every running one, well or
\* badly; the waiting publisher goes on asking.
Fairness == WF_contractVars(\E j \in Ids : Run(j)) /\ WF_contractVars(Ask)

LiveSpec == ContractSpec /\ Fairness

(***************************************************************************)
(* What must hold.                                                         *)
(***************************************************************************)

\* A preference the user has ended is not shown in a prompt again: neither
\* while the end waits to be compiled, nor after the cursor has passed it,
\* whatever the model named, and by which of the overlapping jobs
\* (contract_compiler.explicit_scope_end_candidates, published_text).  Once the
\* profile's language changed the rendering may no longer fit, and then the
\* last attempt passes an end without applying it.
EndedNotRevived ==
    Shown /\ switches = 0 => ~\E e \in 1 .. n : Message(e).says = "end" /\ e > doc.src

\* No start an applied batch took is lost to a job that began before it or
\* that was cut into pieces: the document holds the newest (contract_jobs._apply).
NothingHeardLost == doc.src = Max(heard \union {0})

\* A message that has been stored is compiled in the end, even if the model
\* never answers, as long as the feature stays on and the last row, which
\* does not call the model, does not die itself (enqueue_contract_processing).
CatchesUp ==
    (<>[]enabled /\ <>(script.want <= n)) =>
        <>(cursor >= script.want \/ \E j \in Ids : tasks[j].skip /\ tasks[j].st = "dead")
=============================================================================
