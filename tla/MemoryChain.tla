----------------------------- MODULE MemoryChain -----------------------------
(***************************************************************************)
(* The memory pipeline of one user: chat commits source turns, a chain of  *)
(* mem0_ingest jobs turns them into memories chunk by chunk, each          *)
(* successful job enqueueing the next (app/services/memory_pipeline.py,    *)
(* worker/mem0_jobs.py), mem0_consolidate jobs judge the memories, and the *)
(* memory sweep (worker/memory_sweep_jobs.py) restarts a chain that broke. *)
(* Operators may reset the cursors and extract again                       *)
(* (scripts/reextract_memories.py).                                        *)
(*                                                                         *)
(* How a job is claimed, leased and fenced is JobQueue; here an attempt is *)
(* Start ... Finish/Fail, and only its owner finishes it.  Jobs of the     *)
(* user are rows identified by their dedup key, whatever their state.      *)
(***************************************************************************)
EXTENDS Integers, FiniteSets

CONSTANTS
    MaxTurn,    \* bound on the turns of the conversation
    MaxChunk,   \* settings.memory_chunk_max_turns
    Remember,   \* what an extraction may find: a memory (TRUE), none (FALSE)
    MaxFaults,  \* bound on the attempts that fail
    MaxGen,     \* bound on repair_generation: how often operators step in
    MaxHour     \* bound on the hour buckets of the sweep's keys

ASSUME BoundAssumption ==
    /\ MaxTurn \in Nat /\ MaxChunk \in Nat \ {0} /\ MaxFaults \in Nat
    /\ MaxGen \in Nat /\ MaxHour \in Nat
ASSUME RememberAssumption == Remember \subseteq BOOLEAN

VARIABLES
    turns,         \* messages: turn_seq of the normal turns
    lastSeq,       \* chat_contexts.last_committed_turn_seq
    source,        \* memory_pipeline_states.source_through_turn_seq
    ingest,        \* .ingest_through_turn_seq
    consolidated,  \* .consolidated_through_turn_seq
    gen,           \* .repair_generation
    marked,        \* some memory carries a rollback mark
    chat,          \* what the publishing chat transaction loaded
    jobs,          \* async_jobs: the rows of the user's memory queue
    plans,         \* mem0_ingest_candidates: <<generation, turn>> staged
    rows,          \* mem0_memory_registry: <<generation, turn>> registered
    pending,       \* the registry rows not judged yet
    sweep,         \* what a running memory sweep read
    hour,          \* the hour bucket
    faults,        \* failed attempts so far
    covered        \* history: turns read by an attempt that moved the cursor

cursors == <<source, ingest, consolidated, gen, marked>>
memory  == <<plans, rows, pending>>
vars    == <<turns, lastSeq, cursors, chat, jobs, memory, sweep, hour, faults,
             covered>>

Kinds       == {"chain", "again", "resume", "judge", "rejudge"}
IngestKinds == {"chain", "again", "resume"}
States      == {"ready", "running", "succeeded", "dead", "cancelled"}
Steps       == {"idle", "read", "staged", "done"}

\* kind to depth are the dedup key: depth counts replays of the row.
\* first and last are the chunk frozen in the payload, the rest is what the
\* running attempt holds.
Job == [kind: Kinds, at: Nat, gen: Nat, hour: Nat, depth: Nat,
        state: States, first: Nat, last: Nat,
        from: Nat, read: Nat, step: Steps, taken: SUBSET (Nat \X Nat)]

Chat  == [open: BOOLEAN, ingest: Nat, source: Nat, gen: Nat]
Sweep == [open: BOOLEAN, stalled: BOOLEAN, cursor: Nat, gen: Nat,
          dead: SUBSET Job, unjudged: SUBSET Nat]

NoChat  == [open |-> FALSE, ingest |-> 0, source |-> 0, gen |-> 0]
NoSweep == [open |-> FALSE, stalled |-> FALSE, cursor |-> 0, gen |-> 0,
            dead |-> {}, unjudged |-> {}]

Init ==
    /\ turns = {} /\ lastSeq = 0
    /\ source = 0 /\ ingest = 0 /\ consolidated = 0 /\ gen = 0
    /\ marked = FALSE
    /\ chat = NoChat
    /\ jobs = {}
    /\ plans = {} /\ rows = {} /\ pending = {}
    /\ sweep = NoSweep
    /\ hour = 0 /\ faults = 0
    /\ covered = {}

-----------------------------------------------------------------------------
(* Helpers *)

Larger(a, b) == IF a < b THEN b ELSE a

\* The turns an ingest starting after `cursor' has in front of it.
Unread(cursor, upper) == {t \in turns : cursor < t /\ t <= upper}

SameKey(j, k) ==
    /\ j.kind = k.kind /\ j.at = k.at /\ j.gen = k.gen
    /\ j.hour = k.hour /\ j.depth = k.depth

\* ON CONFLICT (job_type, dedup_key) DO NOTHING, whatever state the row is in.
HasKey(js, j)  == \E k \in js : SameKey(k, j)
Enqueue(js, j) == IF HasKey(js, j) THEN js ELSE js \cup {j}

NewJob(kind, at, g, h) ==
    [kind |-> kind, at |-> at, gen |-> g, hour |-> h, depth |-> 0,
     state |-> "ready", first |-> 0, last |-> 0,
     from |-> 0, read |-> 0, step |-> "idle", taken |-> {}]

\* The keys of ingest jobs name the cursor they start from.
ChainJob(cursor, g) == NewJob("chain", cursor, g, 0)
JudgeJob(turn, g)   == NewJob("judge", turn, g, 0)

Replay(j)  == [j EXCEPT !.depth = @ + 1, !.state = "ready"]
Replace(j, k) == jobs' = (jobs \ {j}) \cup {k}

IsIngest(j) == j.kind \in IngestKinds
IsAlive(j)  == j.state \in {"ready", "running"}
Alive(js)   == {j \in js : IsAlive(j)}

\* The row of job j after its attempt ended in state s.
Ended(j, s) == [j EXCEPT !.state = s, !.from = 0, !.read = 0,
                         !.step = "idle", !.taken = {}]

-----------------------------------------------------------------------------
(* Chat: the publishing transaction of a turn (app/services/chat.py).      *)

\* A plain SELECT: the row is not locked until the cursor is advanced, and a
\* finishing ingest job may get in between.
ChatLoad ==
    /\ ~chat.open
    /\ lastSeq < MaxTurn
    /\ chat' = [open |-> TRUE, ingest |-> ingest, source |-> source, gen |-> gen]
    /\ UNCHANGED <<turns, lastSeq, cursors, jobs, memory, sweep, hour, faults,
                   covered>>

\* Messages, source cursor and the first job of a chain are one commit.  A
\* chain is started only by a user who had caught up when the row was loaded.
StartsChain(c) == c.ingest >= c.source

ChatCommit ==
    /\ chat.open
    /\ lastSeq' = lastSeq + 1
    /\ turns'   = turns \cup {lastSeq'}
    /\ source'  = Larger(source, lastSeq')
    /\ jobs'    = IF StartsChain(chat)
                  THEN Enqueue(jobs, ChainJob(chat.ingest, chat.gen))
                  ELSE jobs
    /\ chat'    = NoChat
    /\ UNCHANGED <<ingest, consolidated, gen, marked, memory, sweep, hour,
                   faults, covered>>

\* A fortune turn takes a number and records no source.
ChatDerived ==
    /\ chat.open
    /\ lastSeq' = lastSeq + 1
    /\ chat'    = NoChat
    /\ UNCHANGED <<turns, cursors, jobs, memory, sweep, hour, faults, covered>>

ChatRollback ==
    /\ chat.open
    /\ chat' = NoChat
    /\ UNCHANGED <<turns, lastSeq, cursors, jobs, memory, sweep, hour, faults,
                   covered>>

-----------------------------------------------------------------------------
(* mem0_ingest (worker/mem0_jobs.py).                                      *)

\* The chunk ends where the talk paused, the day changed or MaxChunk turns are
\* read; the pauses are any.
ChunkEnds(cursor, upper) ==
    {last \in Unread(cursor, upper) :
        Cardinality(Unread(cursor, last)) <= MaxChunk}

\* <<first, last>> of the chunk: fixed in the payload by the first attempt.
Chunks(j) ==
    IF j.last # 0 THEN {<<j.first, j.last>>}
    ELSE {c \in Unread(ingest, source) \X ChunkEnds(ingest, source) :
            \A t \in Unread(ingest, source) : c[1] <= t}

\* Every attempt reads the turns from the cursor of its own time to the end of
\* the chunk.
StartIngest(j) ==
    /\ IsIngest(j) /\ j.state = "ready"
    /\ \E c \in Chunks(j) :
          /\ Unread(ingest, c[2]) # {}
          /\ Replace(j, [j EXCEPT
                 !.state = "running", !.first = c[1], !.last = c[2],
                 !.from  = ingest,    !.read  = gen,
                 !.step  = IF <<gen, c[2]>> \in plans THEN "staged" ELSE "read"])
    /\ UNCHANGED <<turns, lastSeq, cursors, chat, memory, sweep, hour, faults,
                   covered>>

\* no_source_messages: the cursor is already past the chunk, or there is none.
CancelIngest(j) ==
    /\ IsIngest(j) /\ j.state = "ready"
    /\ Unread(ingest, IF j.last = 0 THEN source ELSE j.last) = {}
    /\ Replace(j, Ended(j, "cancelled"))
    /\ UNCHANGED <<turns, lastSeq, cursors, chat, memory, sweep, hour, faults,
                   covered>>

\* The extractor answers: a plan is staged before the provider is called, or
\* there is nothing to remember.  A staged plan is never extracted again.
Extract(j) ==
    /\ IsIngest(j) /\ j.state = "running" /\ j.step = "read"
    /\ \E found \in Remember :
          /\ plans' = IF found THEN plans \cup {<<j.read, j.last>>} ELSE plans
          /\ Replace(j, [j EXCEPT !.step = IF found THEN "staged" ELSE "done"])
    /\ UNCHANGED <<turns, lastSeq, cursors, chat, rows, pending, sweep, hour,
                   faults, covered>>

\* OutputTruncated: half of the chunk is frozen instead and the job retried.
Halve(j) ==
    /\ IsIngest(j) /\ j.state = "running" /\ j.step = "read"
    /\ j.first < j.last
    /\ Replace(j, [Ended(j, "ready") EXCEPT
                       !.last = j.first + (j.last - j.first) \div 2])
    /\ UNCHANGED <<turns, lastSeq, cursors, chat, memory, sweep, hour, faults,
                   covered>>

\* Vectors are upserted, then the registry rows of the plan, in a transaction
\* of their own; rows that exist already stay as they are.
Register(j) ==
    /\ IsIngest(j) /\ j.state = "running" /\ j.step = "staged"
    /\ rows'    = rows \cup {<<j.read, j.last>>}
    /\ pending' = pending \cup ({<<j.read, j.last>>} \ rows)
    /\ Replace(j, [j EXCEPT !.step = "done"])
    /\ UNCHANGED <<turns, lastSeq, cursors, chat, plans, sweep, hour, faults,
                   covered>>

PendingOf(turn) == {p \in pending : p[2] = turn}

\* advance_ingest_cursor: the generation still holds and source is not passed.
MayAdvance(j) == j.read = gen /\ j.last <= source

\* enqueue_next_ingest: should the key of the cursor be taken, another one.
EnqueueNext(js, cursor, g) ==
    IF Unread(cursor, source) = {} THEN js
    ELSE IF HasKey(js, ChainJob(cursor, g))
         THEN Enqueue(js, NewJob("again", cursor, g, 0))
         ELSE js \cup {ChainJob(cursor, g)}

\* Mutant: the cursor moves to the end of the source, not of the chunk.
FinishToSource(j) ==
    /\ IsIngest(j) /\ j.state = "running" /\ j.step = "done"
    /\ ingest' = IF MayAdvance(j) THEN source ELSE ingest
    /\ covered' = IF MayAdvance(j) THEN covered \cup Unread(j.from, j.last)
                  ELSE covered
    /\ consolidated' = IF PendingOf(j.last) = {} /\ j.last <= ingest'
                       THEN Larger(consolidated, j.last) ELSE consolidated
    /\ LET over   == (jobs \ {j}) \cup {Ended(j, "succeeded")}
           judged == IF PendingOf(j.last) = {} THEN over
                     ELSE Enqueue(over, JudgeJob(j.last, gen))
       IN  jobs' = EnqueueNext(judged, j.last, j.read)
    /\ UNCHANGED <<turns, lastSeq, source, gen, marked, chat, memory, sweep,
                   hour, faults>>

\* _advance, in the transaction that makes the job succeeded.
FinishIngest(j) ==
    /\ IsIngest(j) /\ j.state = "running" /\ j.step = "done"
    /\ ingest' = IF MayAdvance(j) THEN Larger(ingest, j.last) ELSE ingest
    /\ covered' = IF MayAdvance(j) THEN covered \cup Unread(j.from, j.last)
                  ELSE covered
    /\ consolidated' =
          IF PendingOf(j.last) = {} /\ j.last <= ingest'
          THEN Larger(consolidated, j.last) ELSE consolidated
    /\ LET over   == (jobs \ {j}) \cup {Ended(j, "succeeded")}
           judged == IF PendingOf(j.last) = {} THEN over
                     ELSE Enqueue(over, JudgeJob(j.last, gen))
       IN  jobs' = EnqueueNext(judged, j.last, j.read)
    /\ UNCHANGED <<turns, lastSeq, source, gen, marked, chat, memory, sweep,
                   hour, faults>>

-----------------------------------------------------------------------------
(* mem0_consolidate (worker/mem0_jobs.py).                                 *)

StartJudge(j) ==
    /\ ~IsIngest(j) /\ j.state = "ready"
    /\ Replace(j, [j EXCEPT !.state = "running", !.read = gen,
                            !.taken = PendingOf(j.at)])
    /\ UNCHANGED <<turns, lastSeq, cursors, chat, memory, sweep, hour, faults,
                   covered>>

\* A revision that moved (it moves with gen) is StaleConsolidation: the
\* transaction is rolled back and the attempt fails.
FinishJudge(j) ==
    /\ ~IsIngest(j) /\ j.state = "running"
    /\ j.taken = {} \/ j.read = gen
    /\ pending' = pending \ j.taken
    /\ consolidated' = IF j.at <= ingest THEN Larger(consolidated, j.at)
                       ELSE consolidated
    /\ Replace(j, Ended(j, "succeeded"))
    /\ UNCHANGED <<turns, lastSeq, source, ingest, gen, marked, chat, plans,
                   rows, sweep, hour, faults, covered>>

\* An error, a timeout or a lost lease, at any step of an attempt.
Fail(j) ==
    /\ j.state = "running"
    /\ faults < MaxFaults
    /\ faults' = faults + 1
    /\ \E s \in {"ready", "dead"} : Replace(j, Ended(j, s))
    /\ UNCHANGED <<turns, lastSeq, cursors, chat, memory, sweep, hour, covered>>

-----------------------------------------------------------------------------
(* The memory sweep (worker/memory_sweep_jobs.py).                         *)

\* Dead memory jobs whose replay is not ready, running or succeeded.
Unreplayed ==
    {j \in jobs : /\ j.state = "dead"
                  /\ \A k \in jobs : SameKey(k, Replay(j)) =>
                        k.state \notin {"ready", "running", "succeeded"}}

Behind == ingest < source
NoIngestAlive == \A j \in Alive(jobs) : ~IsIngest(j)
NoJudgeAlive  == \A j \in Alive(jobs) : IsIngest(j)

\* Mutant: unjudged memories are not looked for.
UnjudgedOverlooked == {}

\* The oldest turn whose memories wait for a judgement nobody works on.
Unjudged ==
    {t \in {p[2] : p \in pending} : NoJudgeAlive /\ \A p \in pending : t <= p[2]}

\* The three queries, taken as one read.  What is younger than the grace of
\* half an hour is not looked at, dead jobs are.
SweepRead(graceOver) ==
    /\ ~sweep.open
    /\ sweep' = [open     |-> TRUE, cursor |-> ingest, gen |-> gen,
                 stalled  |-> /\ graceOver /\ Behind /\ NoIngestAlive
                              /\ Unread(ingest, source) # {},
                 unjudged |-> IF graceOver THEN Unjudged ELSE {},
                 dead     |-> IF Behind THEN Unreplayed ELSE {}]
    /\ sweep'.stalled \/ sweep'.unjudged # {} \/ sweep'.dead # {}
    /\ UNCHANGED <<turns, lastSeq, cursors, chat, jobs, memory, hour, faults,
                   covered>>

\* _current_stalled: what was read still holds, now under the row lock.
StillStalled ==
    /\ ingest = sweep.cursor /\ gen = sweep.gen /\ Behind
    /\ NoIngestAlive /\ Unread(ingest, source) # {}

\* Mutants: chains are never resumed; chains with dead jobs are resumed too.
MayResumeNever  == FALSE
MayResumeAnyway == sweep.stalled /\ StillStalled

\* A user with dead jobs is left to the replays.
MayResume == sweep.stalled /\ sweep.dead = {} /\ StillStalled

\* _apply, in the transaction that makes the sweep job succeeded.  A row that
\* a committing chat transaction has locked is skipped.
SweepApply(locked) ==
    /\ sweep.open
    /\ locked => chat.open
    /\ LET resumed == IF MayResume /\ ~locked
                      THEN Enqueue(jobs, NewJob("resume", ingest, gen, hour))
                      ELSE jobs
           asked   == {NewJob("rejudge", t, sweep.gen, hour) : t \in sweep.unjudged}
           again   == {Replay(j) : j \in sweep.dead}
       IN  jobs' = resumed \cup {k \in asked \cup again : ~HasKey(jobs, k)}
    /\ sweep' = NoSweep
    /\ UNCHANGED <<turns, lastSeq, cursors, chat, memory, hour, faults, covered>>

\* The sweep job fails or loses its lease: the next minute's job reads anew.
SweepLost ==
    /\ sweep.open
    /\ faults < MaxFaults
    /\ faults' = faults + 1
    /\ sweep' = NoSweep
    /\ UNCHANGED <<turns, lastSeq, cursors, chat, jobs, memory, hour, covered>>

HourPasses ==
    /\ hour < MaxHour
    /\ hour' = hour + 1
    /\ UNCHANGED <<turns, lastSeq, cursors, chat, jobs, memory, sweep, faults,
                   covered>>

-----------------------------------------------------------------------------
(* Operators (scripts/reextract_memories.py).  locked_subject refuses a     *)
(* running memory job; an open chat transaction holds a key share of the    *)
(* profile row it would have to lock without waiting.                      *)

LockedSubject ==
    /\ \A j \in jobs : j.state # "running"
    /\ ~chat.open
    /\ gen < MaxGen

\* cancel_ready_extraction
CancelReady(js) ==
    {IF j.state = "ready" THEN [j EXCEPT !.state = "cancelled"] ELSE j : j \in js}

\* Judged memories are hidden behind a mark and the chain starts over.
Reextract ==
    /\ LockedSubject
    /\ ingest >= source /\ ~marked /\ Unread(0, source) # {}
    /\ ingest' = 0 /\ consolidated' = 0 /\ gen' = gen + 1
    /\ marked' = (rows # pending)
    /\ jobs'   = Enqueue(CancelReady(jobs), ChainJob(0, gen'))
    /\ covered' = {}
    /\ UNCHANGED <<turns, lastSeq, source, chat, memory, sweep, hour, faults>>

\* --rollback: the old memories return, the rest counts as ingested.
Rollback ==
    /\ LockedSubject
    /\ marked
    /\ ingest' = source /\ consolidated' = source /\ gen' = gen + 1
    /\ marked' = FALSE
    /\ pending' = {}
    /\ jobs'   = CancelReady(jobs)
    /\ covered' = Unread(0, source)
    /\ UNCHANGED <<turns, lastSeq, source, chat, plans, rows, sweep, hour, faults>>

-----------------------------------------------------------------------------

IngestStep(j) == \/ StartIngest(j) \/ CancelIngest(j) \/ Extract(j)
                 \/ Halve(j) \/ Register(j) \/ FinishIngest(j)
JudgeStep(j)  == StartJudge(j) \/ FinishJudge(j)

Next ==
    \/ ChatLoad \/ ChatCommit \/ ChatDerived \/ ChatRollback
    \/ \E j \in jobs : IngestStep(j) \/ JudgeStep(j) \/ Fail(j)
    \/ \E graceOver \in BOOLEAN : SweepRead(graceOver)
    \/ \E locked \in BOOLEAN : SweepApply(locked)
    \/ SweepLost
    \/ HourPasses
    \/ Reextract \/ Rollback

Spec == Init /\ [][Next]_vars

(***************************************************************************)
(* Fairness.  The consumer polls for ever, an attempt ends within its      *)
(* timeout, the tick enqueues a sweep every minute, and time passes; that  *)
(* attempts succeed follows from the bound on faults: the provider is back *)
(* some day.  A sweep that skips a locked row does not do so each time,    *)
(* hence strong fairness.  Nobody has to chat, no operator has to act;     *)
(* MCMemoryChain states it of the courses without operators.              *)
(***************************************************************************)
Works(j) == \/ StartIngest(j) \/ CancelIngest(j) \/ Extract(j) \/ Register(j)
            \/ FinishIngest(j) \/ JudgeStep(j)

-----------------------------------------------------------------------------
(* Properties                                                              *)

\* Types of all variables.
TypeOK ==
    /\ turns \subseteq Nat \ {0} /\ lastSeq \in Nat
    /\ source \in Nat /\ ingest \in Nat /\ consolidated \in Nat /\ gen \in Nat
    /\ marked \in BOOLEAN
    /\ chat \in Chat
    /\ jobs \subseteq Job
    /\ plans \subseteq Nat \X Nat /\ rows \subseteq Nat \X Nat
    /\ pending \subseteq Nat \X Nat
    /\ sweep \in Sweep
    /\ hour \in Nat /\ faults \in Nat
    /\ covered \subseteq Nat

\* Judging never passes extraction and extraction never passes what chat
\* committed, with late, replayed and rejudged jobs and after an operator's
\* reset (the guards of _ADVANCE_INGEST and _ADVANCE_CONSOLIDATED).
CursorOrder == consolidated <= ingest /\ ingest <= source /\ source <= lastSeq

\* Every turn behind the ingest cursor was read by an attempt that counted in
\* the current generation: no chunk boundary, split, replay of a frozen chunk
\* or reset makes the cursor jump over a turn (memory_pipeline.py:331-335).
NoTurnSkipped == \A t \in turns : t <= ingest => t \in covered

\* At most one ingest job of a user waits or runs, whoever enqueues it: chat,
\* the chain itself, the sweep or an operator (enqueue_next_ingest).
OneIngestAlive ==
    \A j, k \in Alive(jobs) : IsIngest(j) /\ IsIngest(k) => j = k

\* ... as long as no operator has reset the cursors, whatever attempts fail,
\* chats race and sweeps resume or replay (enqueue_next_ingest).
OneIngestUntilReset == gen = 0 => OneIngestAlive

\* A key named after the starting cursor is never needed twice: the way out of
\* enqueue_next_ingest is never taken (memory_pipeline.py:428-429).
ChainKeysSuffice == \A j \in jobs : j.kind # "again"

\* Cursors go back only when an operator starts a new generation, although
\* attempts for earlier turns finish late (GREATEST in the statements).
CursorsForward ==
    [][gen' = gen => ingest' >= ingest /\ consolidated' >= consolidated
                     /\ source' >= source]_vars

=============================================================================
