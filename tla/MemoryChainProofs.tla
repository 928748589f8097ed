-------------------------- MODULE MemoryChainProofs --------------------------
(***************************************************************************)
(* Proofs about what is distilled from a conversation.                     *)
(*                                                                         *)
(* MemoryChain, for every number of turns, chunk size, number of faults    *)
(* and of generations.  Contracts, for every conversation, number of       *)
(* failures and of switches: ContractInv is its inductive invariant, what  *)
(* a worker that was interrupted still holds (TaskSound), what a job that  *)
(* has ended has seen to (DoneOK), and what the document says of every     *)
(* agreement up to the cursor (DocSound).                                  *)
(***************************************************************************)
EXTENDS MemoryChain, Contracts, WellFoundedInduction, TLAPS

-----------------------------------------------------------------------------
(* Rows                                                                    *)

\* What the helpers make of a row is a row.
LEMMA RowTypes ==
    ASSUME NEW j \in Job
    PROVE  /\ \A s \in States : Ended(j, s) \in Job
           /\ Replay(j) \in Job
           /\ Ended(j, "ready").first = j.first
           /\ Ended(j, "ready").last = j.last
<1>1. \A s \in States : Ended(j, s) \in Job
  BY DEF Job, Ended, States, Steps
<1>2. Replay(j) \in Job
  <2>1. j.depth + 1 \in Nat
    BY DEF Job
  <2>2. "ready" \in States
    BY DEF States
  <2>3. \A d \in Nat, s \in States :
            [j EXCEPT !.depth = d, !.state = s] \in Job
    BY DEF Job
  <2>4. QED
    BY <2>1, <2>2, <2>3 DEF Replay
<1>3. QED
  BY <1>1, <1>2 DEF Ended, Job

\* A new row is a row.
LEMMA NewJobType ==
    ASSUME NEW kind \in Kinds, NEW at \in Nat, NEW g \in Nat, NEW h \in Nat
    PROVE  NewJob(kind, at, g, h) \in Job
  BY DEF Job, NewJob, States, Steps

\* The keys of what the helpers make of a row.
LEMMA RowKeys ==
    ASSUME NEW j \in Job
    PROVE  /\ \A s \in States : SameKey(Ended(j, s), j)
           /\ \A s \in States : Ended(j, s).state = s
           /\ Replay(j).state = "ready" /\ Replay(j).kind = j.kind
           /\ Replay(j).at = j.at /\ Replay(j).last = j.last
  BY DEF Job, Ended, Replay, SameKey, States

\* ON CONFLICT DO NOTHING adds a row or none.
LEMMA EnqueueTypes ==
    ASSUME NEW js, js \subseteq Job, NEW j \in Job
    PROVE  Enqueue(js, j) \subseteq Job
  BY DEF Enqueue

\* An UPDATE of a row leaves a set of rows.
LEMMA ReplaceTypes ==
    ASSUME jobs \subseteq Job, NEW j, NEW k \in Job, Replace(j, k)
    PROVE  jobs' \subseteq Job
  BY DEF Replace

\* Cancelling what is ready leaves a set of rows and starts none.
LEMMA CancelTypes ==
    ASSUME NEW js, js \subseteq Job
    PROVE  /\ CancelReady(js) \subseteq Job
           /\ \A k \in CancelReady(js) : k.state = "running" => k \in js
<1>1. \A j \in Job : [j EXCEPT !.state = "cancelled"] \in Job
  BY DEF Job, States
<1>2. \A j \in Job : [j EXCEPT !.state = "cancelled"].state = "cancelled"
  BY DEF Job
<1>3. QED
  BY <1>1, <1>2 DEF CancelReady

\* The keys chat, the chain, the sweep and the operators ask for are new rows.
LEMMA AskedTypes ==
    ASSUME NEW at \in Nat, NEW g \in Nat, NEW h \in Nat
    PROVE  /\ ChainJob(at, g) \in Job
           /\ JudgeJob(at, g) \in Job
           /\ NewJob("again", at, g, 0) \in Job
           /\ NewJob("resume", at, g, h) \in Job
           /\ NewJob("rejudge", at, g, h) \in Job
  BY NewJobType DEF ChainJob, JudgeJob, Kinds

\* The chain's next job is a row, whichever key it gets.
LEMMA EnqueueNextTypes ==
    ASSUME NEW js, js \subseteq Job, NEW at \in Nat, NEW g \in Nat
    PROVE  EnqueueNext(js, at, g) \subseteq Job
  BY AskedTypes, EnqueueTypes DEF EnqueueNext

-----------------------------------------------------------------------------
(* Type correctness                                                        *)

\* A chat transaction keeps the types.
LEMMA ChatTypes ==
    ASSUME TypeOK, ChatLoad \/ ChatCommit \/ ChatDerived \/ ChatRollback
    PROVE  TypeOK'
<1>1. NoChat \in Chat
  BY DEF NoChat, Chat
<1>2. CASE ChatLoad
  BY <1>2 DEF ChatLoad, TypeOK, Chat, cursors, memory
<1>3. CASE ChatCommit
  <2>1. lastSeq + 1 \in Nat \ {0} /\ Larger(source, lastSeq + 1) \in Nat
    BY DEF TypeOK, Larger
  <2>2. ChainJob(chat.ingest, chat.gen) \in Job
    BY AskedTypes DEF TypeOK, Chat
  <2>3. jobs' \subseteq Job
    BY <1>3, <2>2, EnqueueTypes DEF ChatCommit, TypeOK
  <2>4. QED
    BY <1>1, <1>3, <2>1, <2>3 DEF ChatCommit, TypeOK, memory
<1>4. CASE ChatDerived
  BY <1>1, <1>4 DEF ChatDerived, TypeOK, cursors, memory
<1>5. CASE ChatRollback
  BY <1>1, <1>5 DEF ChatRollback, TypeOK, cursors, memory
<1>6. QED
  BY <1>2, <1>3, <1>4, <1>5

\* The chunk an attempt freezes or finds consists of numbers.
LEMMA ChunkTypes ==
    ASSUME TypeOK, NEW j \in jobs, NEW c \in Chunks(j)
    PROVE  c[1] \in Nat /\ c[2] \in Nat
<1>1. CASE j.last # 0
  BY <1>1 DEF Chunks, TypeOK, Job
<1>2. CASE j.last = 0
  BY <1>2 DEF Chunks, ChunkEnds, Unread, TypeOK
<1>3. QED
  BY <1>1, <1>2

\* A step of an ingest job keeps the types.
LEMMA IngestTypes ==
    ASSUME TypeOK, NEW j \in jobs, IngestStep(j)
    PROVE  TypeOK'
<1>1. j \in Job /\ j.read \in Nat /\ j.first \in Nat /\ j.last \in Nat
  BY DEF TypeOK, Job
<1>2. CASE StartIngest(j)
  <2>1. PICK c \in Chunks(j) : Replace(j, [j EXCEPT
                 !.state = "running", !.first = c[1], !.last = c[2],
                 !.from  = ingest,    !.read  = gen,
                 !.step  = IF <<gen, c[2]>> \in plans THEN "staged" ELSE "read"])
    BY <1>2 DEF StartIngest
  <2>2. \A a, b, f, g \in Nat, st \in Steps :
            [j EXCEPT !.state = "running", !.first = a, !.last = b,
                      !.from = f, !.read = g, !.step = st] \in Job
    BY <1>1 DEF Job, States
  <2>3. jobs' \subseteq Job
    BY <2>1, <2>2, ChunkTypes, ReplaceTypes DEF TypeOK, Steps
  <2>4. QED
    BY <1>2, <2>3 DEF StartIngest, TypeOK, cursors, memory
<1>3. CASE CancelIngest(j)
  <2>1. jobs' \subseteq Job
    BY <1>1, <1>3, RowTypes, ReplaceTypes DEF CancelIngest, TypeOK, States
  <2>2. QED
    BY <1>3, <2>1 DEF CancelIngest, TypeOK, cursors, memory
<1>4. ASSUME NEW st \in Steps PROVE [j EXCEPT !.step = st] \in Job
  BY <1>1 DEF Job
<1>5. CASE Extract(j)
  <2>1. jobs' \subseteq Job
    BY <1>4, <1>5, ReplaceTypes DEF Extract, TypeOK, Steps
  <2>2. plans' \subseteq Nat \X Nat
    BY <1>1, <1>5 DEF Extract, TypeOK
  <2>3. QED
    BY <1>5, <2>1, <2>2 DEF Extract, TypeOK, cursors
<1>6. CASE Halve(j)
  <2>1. \A upto \in Nat : [Ended(j, "ready") EXCEPT !.last = upto] \in Job
    BY <1>1, RowTypes DEF Job, States
  <2>2. j.first + (j.last - j.first) \div 2 \in Nat
    BY <1>1, <1>6 DEF Halve
  <2>3. jobs' \subseteq Job
    BY <1>6, <2>1, <2>2, ReplaceTypes DEF Halve, TypeOK
  <2>4. QED
    BY <1>6, <2>3 DEF Halve, TypeOK, cursors, memory
<1>7. CASE Register(j)
  <2>1. jobs' \subseteq Job
    BY <1>4, <1>7, ReplaceTypes DEF Register, TypeOK, Steps
  <2>2. rows' \subseteq Nat \X Nat /\ pending' \subseteq Nat \X Nat
    BY <1>1, <1>7 DEF Register, TypeOK
  <2>3. QED
    BY <1>7, <2>1, <2>2 DEF Register, TypeOK, cursors
<1>8. CASE FinishIngest(j)
  <2>1. /\ ingest' \in Nat /\ consolidated' \in Nat
        /\ covered' \subseteq Nat
    BY <1>1, <1>8 DEF FinishIngest, TypeOK, Larger, Unread
  <2>2. (jobs \ {j}) \cup {Ended(j, "succeeded")} \subseteq Job
    BY <1>1, RowTypes DEF TypeOK, States
  <2>3. JudgeJob(j.last, gen) \in Job
    BY <1>1, AskedTypes DEF TypeOK
  <2>4. jobs' \subseteq Job
    BY <1>1, <1>8, <2>2, <2>3, EnqueueTypes, EnqueueNextTypes DEF FinishIngest
  <2>5. QED
    BY <1>8, <2>1, <2>4 DEF FinishIngest, TypeOK, memory
<1>9. QED
  BY <1>2, <1>3, <1>5, <1>6, <1>7, <1>8 DEF IngestStep

\* A judge's step and a failing attempt keep the types.
LEMMA JudgeTypes ==
    ASSUME TypeOK, NEW j \in jobs, JudgeStep(j) \/ Fail(j)
    PROVE  TypeOK'
<1>1. j \in Job /\ j.at \in Nat
  BY DEF TypeOK, Job
<1>2. CASE StartJudge(j)
  <2>1. \A g \in Nat, ps \in SUBSET (Nat \X Nat) :
            [j EXCEPT !.state = "running", !.read = g, !.taken = ps] \in Job
    BY <1>1 DEF Job, States
  <2>2. jobs' \subseteq Job
    BY <1>2, <2>1, ReplaceTypes DEF StartJudge, TypeOK, PendingOf
  <2>3. QED
    BY <1>2, <2>2 DEF StartJudge, TypeOK, cursors, memory
<1>3. CASE FinishJudge(j)
  <2>1. jobs' \subseteq Job
    BY <1>1, <1>3, RowTypes, ReplaceTypes DEF FinishJudge, TypeOK, States
  <2>2. consolidated' \in Nat /\ pending' \subseteq Nat \X Nat
    BY <1>1, <1>3 DEF FinishJudge, TypeOK, Larger
  <2>3. QED
    BY <1>3, <2>1, <2>2 DEF FinishJudge, TypeOK
<1>4. CASE Fail(j)
  <2>1. jobs' \subseteq Job
    BY <1>1, <1>4, RowTypes, ReplaceTypes DEF Fail, TypeOK, States
  <2>2. QED
    BY <1>4, <2>1 DEF Fail, TypeOK, cursors, memory
<1>5. QED
  BY <1>2, <1>3, <1>4 DEF JudgeStep

\* The sweep keeps the types.
LEMMA SweepTypes ==
    ASSUME TypeOK,
           \/ \E b \in BOOLEAN : SweepRead(b) \/ SweepApply(b)
           \/ SweepLost
    PROVE  TypeOK'
<1>1. NoSweep \in Sweep
  BY DEF NoSweep, Sweep
<1>2. ASSUME NEW b \in BOOLEAN, SweepRead(b)
      PROVE  TypeOK'
  <2>1. Unjudged \subseteq Nat /\ Unreplayed \subseteq Job
    BY DEF Unjudged, Unreplayed, TypeOK
  <2>2. \A st \in BOOLEAN, u \in SUBSET Nat, d \in SUBSET Job :
            [open |-> TRUE, cursor |-> ingest, gen |-> gen, stalled |-> st,
             unjudged |-> u, dead |-> d] \in Sweep
    BY DEF TypeOK, Sweep
  <2>3. sweep' \in Sweep
    BY <1>2, <2>1, <2>2 DEF SweepRead
  <2>4. QED
    BY <1>2, <2>3 DEF SweepRead, TypeOK, cursors, memory
<1>3. ASSUME NEW b \in BOOLEAN, SweepApply(b)
      PROVE  TypeOK'
  <2>1. /\ sweep.gen \in Nat /\ sweep.dead \subseteq Job
        /\ sweep.unjudged \subseteq Nat
    BY DEF TypeOK, Sweep
  <2>2. NewJob("resume", ingest, gen, hour) \in Job
    BY AskedTypes DEF TypeOK
  <2>3. {NewJob("rejudge", t, sweep.gen, hour) : t \in sweep.unjudged}
            \subseteq Job
    BY <2>1, AskedTypes DEF TypeOK
  <2>4. {Replay(j) : j \in sweep.dead} \subseteq Job
    BY <2>1, RowTypes
  <2>5. jobs' \subseteq Job
    BY <1>3, <2>2, <2>3, <2>4, EnqueueTypes DEF SweepApply, TypeOK
  <2>6. QED
    BY <1>1, <1>3, <2>5 DEF SweepApply, TypeOK, cursors, memory
<1>4. CASE SweepLost
  BY <1>1, <1>4 DEF SweepLost, TypeOK, cursors, memory
<1>5. QED
  BY <1>2, <1>3, <1>4

\* An operator keeps the types.
LEMMA OperatorTypes ==
    ASSUME TypeOK, Reextract \/ Rollback
    PROVE  TypeOK'
<1>1. CancelReady(jobs) \subseteq Job
  BY CancelTypes DEF TypeOK
<1>2. CASE Reextract
  <2>1. ChainJob(0, gen + 1) \in Job
    BY AskedTypes DEF TypeOK
  <2>2. jobs' \subseteq Job
    BY <1>1, <1>2, <2>1, EnqueueTypes DEF Reextract
  <2>3. (rows # pending) \in BOOLEAN
    OBVIOUS
  <2>4. QED
    BY <1>2, <2>2, <2>3 DEF Reextract, TypeOK, memory
<1>3. CASE Rollback
  <2>1. covered' \subseteq Nat
    BY <1>3 DEF Rollback, Unread, TypeOK
  <2>2. pending' \subseteq Nat \X Nat
    BY <1>3 DEF Rollback
  <2>3. marked' \in BOOLEAN
    BY <1>3 DEF Rollback
  <2>4. /\ turns' \subseteq Nat \ {0} /\ lastSeq' \in Nat
        /\ source' \in Nat /\ ingest' \in Nat /\ consolidated' \in Nat
        /\ gen' \in Nat /\ jobs' \subseteq Job
    BY <1>1, <1>3 DEF Rollback, TypeOK
  <2>5. /\ chat' \in Chat /\ sweep' \in Sweep
        /\ plans' \subseteq Nat \X Nat /\ rows' \subseteq Nat \X Nat
        /\ hour' \in Nat /\ faults' \in Nat
    BY <1>3 DEF Rollback, TypeOK
  <2>6. QED
    BY <2>1, <2>2, <2>3, <2>4, <2>5 DEF TypeOK
<1>4. QED
  BY <1>2, <1>3

\* Every step keeps the types.
LEMMA TypeStep ==
    ASSUME TypeOK, [Next]_vars
    PROVE  TypeOK'
<1>1. CASE HourPasses
  BY <1>1 DEF HourPasses, TypeOK, cursors, memory
<1>2. CASE UNCHANGED vars
  BY <1>2 DEF vars, TypeOK, cursors, memory
<1>3. CASE Next
  BY <1>1, <1>3, ChatTypes, IngestTypes, JudgeTypes, SweepTypes, OperatorTypes
     DEF Next
<1>4. QED
  BY <1>2, <1>3

\* The initial values have their types.
LEMMA InitTypes == Init => TypeOK
<1>1. NoChat \in Chat /\ NoSweep \in Sweep
  BY DEF NoChat, NoSweep, Chat, Sweep
<1>2. SUFFICES ASSUME Init PROVE TypeOK
  OBVIOUS
<1>3. /\ turns \subseteq Nat \ {0} /\ jobs \subseteq Job
      /\ plans \subseteq Nat \X Nat /\ rows \subseteq Nat \X Nat
      /\ pending \subseteq Nat \X Nat /\ covered \subseteq Nat
  BY <1>2 DEF Init
<1>4. /\ lastSeq \in Nat /\ source \in Nat /\ ingest \in Nat
      /\ consolidated \in Nat /\ gen \in Nat /\ hour \in Nat
      /\ faults \in Nat
  BY <1>2 DEF Init
<1>5. marked \in BOOLEAN
  BY <1>2 DEF Init
<1>6. QED
  BY <1>1, <1>2, <1>3, <1>4, <1>5 DEF Init, TypeOK

\* All variables keep their types: TypeOK is inductive by itself.
THEOREM TypeCorrect == Spec => []TypeOK
  BY InitTypes, TypeStep, PTL DEF Spec

-----------------------------------------------------------------------------
(* The cursors                                                             *)

\* Chat numbers the turns upwards.
TurnsNumbered == \A t \in turns : t <= lastSeq

\* An attempt that may still advance the cursor reads from behind it.
ReadsFromBehind ==
    \A j \in jobs : IsIngest(j) /\ j.state = "running" /\ j.read = gen
                    => j.from <= ingest

IInv == /\ TypeOK
        /\ CursorOrder
        /\ NoTurnSkipped
        /\ TurnsNumbered
        /\ ReadsFromBehind

\* The larger of two numbers is one of them and below neither.
LEMMA LargerBounds ==
    ASSUME NEW a \in Nat, NEW b \in Nat
    PROVE  /\ Larger(a, b) \in {a, b}
           /\ a <= Larger(a, b) /\ b <= Larger(a, b)
  BY DEF Larger

\* Rows that are asked for wait to be started.
LEMMA AskedReady ==
    ASSUME NEW at, NEW g, NEW h, NEW kind
    PROVE  /\ NewJob(kind, at, g, h).state = "ready"
           /\ ChainJob(at, g).state = "ready"
           /\ JudgeJob(at, g).state = "ready"
  BY DEF NewJob, ChainJob, JudgeJob

\* Enqueueing starts nothing.
LEMMA EnqueueStartsNone ==
    ASSUME NEW js, NEW j, j.state = "ready",
           NEW k \in Enqueue(js, j), k.state = "running"
    PROVE  k \in js
  BY DEF Enqueue

\* Continuing the chain starts nothing.
LEMMA EnqueueNextStartsNone ==
    ASSUME NEW js, NEW at, NEW g, NEW k \in EnqueueNext(js, at, g),
           k.state = "running"
    PROVE  k \in js
  BY AskedReady, EnqueueStartsNone DEF EnqueueNext

\* k is the attempt j, one step further perhaps.
SameAttempt(j, k) ==
    /\ j.state = "running" /\ j.kind = k.kind
    /\ j.from = k.from /\ j.read = k.read

\* A running attempt was running before or starts now from the cursor.
LEMMA RunningSince ==
    ASSUME TypeOK, [Next]_vars, NEW k \in jobs', k.state = "running"
    PROVE  \/ \E j \in jobs : SameAttempt(j, k)
           \/ ~IsIngest(k)
           \/ k.from = ingest /\ ingest' = ingest
<1> USE DEF SameAttempt
<1>1. \A j \in jobs : j \in Job /\ \A s \in States : Ended(j, s).state = s
  BY RowKeys DEF TypeOK
<1>2. CASE k \in jobs
  BY <1>2
<1>3. CASE ChatLoad \/ ChatDerived \/ ChatRollback \/ SweepLost \/ HourPasses
           \/ UNCHANGED vars \/ \E b \in BOOLEAN : SweepRead(b)
  BY <1>3 DEF ChatLoad, ChatDerived, ChatRollback, SweepLost, HourPasses,
              vars, SweepRead
<1>4. CASE ChatCommit
  BY <1>4, AskedReady, EnqueueStartsNone DEF ChatCommit
<1>5. ASSUME NEW j \in jobs, StartIngest(j)
      PROVE  k \in jobs \/ (k.from = ingest /\ ingest' = ingest)
  <2>1. PICK a, b, st : Replace(j, [j EXCEPT
                 !.state = "running", !.first = a, !.last = b,
                 !.from  = ingest,    !.read  = gen,  !.step  = st])
    BY <1>5 DEF StartIngest
  <2>2. [j EXCEPT !.state = "running", !.first = a, !.last = b,
                  !.from = ingest, !.read = gen, !.step = st].from = ingest
    BY <1>1 DEF Job
  <2>3. k \in jobs \/ k.from = ingest
    BY <2>1, <2>2 DEF Replace
  <2>4. QED
    BY <1>5, <2>3 DEF StartIngest, cursors
<1>6. ASSUME NEW j \in jobs, CancelIngest(j) \/ FinishJudge(j) \/ Fail(j)
      PROVE  k \in jobs
  BY <1>1, <1>6 DEF CancelIngest, FinishJudge, Fail, Replace, States
<1>7. ASSUME NEW j \in jobs, Extract(j) \/ Register(j)
      PROVE  \E i \in jobs : SameAttempt(i, k)
  <2>1. PICK st : Replace(j, [j EXCEPT !.step = st]) /\ j.state = "running"
    BY <1>7 DEF Extract, Register
  <2>2. SameAttempt(j, [j EXCEPT !.step = st])
    BY <1>1, <2>1 DEF Job
  <2>3. CASE k \in jobs
    BY <2>3
  <2>4. CASE k = [j EXCEPT !.step = st]
    BY <2>2, <2>4
  <2>5. QED
    BY <2>1, <2>3, <2>4 DEF Replace
<1>8. ASSUME NEW j \in jobs, Halve(j)
      PROVE  k \in jobs
  <2>1. \A upto : [Ended(j, "ready") EXCEPT !.last = upto].state = "ready"
    BY <1>1, RowTypes DEF Job, States
  <2>2. QED
    BY <1>8, <2>1 DEF Halve, Replace
<1>9. ASSUME NEW j \in jobs, FinishIngest(j)
      PROVE  k \in jobs
  <2>1. k \in (jobs \ {j}) \cup {Ended(j, "succeeded")}
    BY <1>9, AskedReady, EnqueueStartsNone, EnqueueNextStartsNone
       DEF FinishIngest
  <2>2. QED
    BY <1>1, <2>1 DEF States
<1>10. ASSUME NEW j \in jobs, StartJudge(j)
       PROVE  k \in jobs \/ ~IsIngest(k)
  <2>1. PICK ps : /\ Replace(j, [j EXCEPT !.state = "running", !.read = gen,
                                           !.taken = ps])
                  /\ ~IsIngest(j)
    BY <1>10 DEF StartJudge
  <2>2. [j EXCEPT !.state = "running", !.read = gen, !.taken = ps].kind = j.kind
    BY <1>1 DEF Job
  <2>3. QED
    BY <2>1, <2>2 DEF Replace, IsIngest
<1>11. ASSUME NEW b \in BOOLEAN, SweepApply(b)
       PROVE  k \in jobs
  <2>1. \A j \in sweep.dead : Replay(j).state = "ready"
    BY RowKeys DEF TypeOK, Sweep
  <2>2. k \in Enqueue(jobs, NewJob("resume", ingest, gen, hour)) => k \in jobs
    BY AskedReady, EnqueueStartsNone
  <2>3. \A t \in sweep.unjudged :
            k # NewJob("rejudge", t, sweep.gen, hour)
    BY AskedReady
  <2>4. \A j \in sweep.dead : k # Replay(j)
    BY <2>1
  <2>5. QED
    BY <1>11, <2>2, <2>3, <2>4 DEF SweepApply
<1>12. CASE Reextract \/ Rollback
  <2>1. \A i \in CancelReady(jobs) : i.state = "running" => i \in jobs
    BY CancelTypes DEF TypeOK
  <2>2. QED
    BY <1>12, <2>1, AskedReady, EnqueueStartsNone DEF Reextract, Rollback
<1>13. QED
  BY <1>2, <1>3, <1>4, <1>5, <1>6, <1>7, <1>8, <1>9, <1>10, <1>11, <1>12
     DEF Next, IngestStep, JudgeStep

\* Within a generation the cursors do not go back; a new one starts with no
\* attempt running.
LEMMA CursorMoves ==
    ASSUME TypeOK, [Next]_vars
    PROVE  /\ gen' = gen => /\ ingest' >= ingest
                            /\ consolidated' >= consolidated
                            /\ source' >= source
           /\ gen' # gen => \A j \in jobs : j.state # "running"
<1>1. CASE ChatLoad \/ ChatDerived \/ ChatRollback \/ SweepLost
           \/ HourPasses \/ UNCHANGED vars
           \/ \E b \in BOOLEAN : SweepRead(b) \/ SweepApply(b)
  BY <1>1 DEF ChatLoad, ChatDerived, ChatRollback, SweepApply, SweepLost,
              HourPasses, SweepRead, vars, cursors, TypeOK
<1>2. CASE ChatCommit
  BY <1>2, LargerBounds DEF ChatCommit, TypeOK
<1>3. ASSUME NEW j \in jobs,
             \/ StartIngest(j) \/ CancelIngest(j) \/ Extract(j) \/ Halve(j)
             \/ Register(j) \/ StartJudge(j) \/ Fail(j)
      PROVE  UNCHANGED cursors
  BY <1>3 DEF StartIngest, CancelIngest, Extract, Halve, Register, StartJudge,
              Fail, cursors
<1>4. ASSUME NEW j \in jobs, FinishIngest(j) \/ FinishJudge(j)
      PROVE  /\ gen' = gen /\ ingest' >= ingest
             /\ consolidated' >= consolidated /\ source' = source
  <2>1. j.last \in Nat /\ j.at \in Nat
    BY DEF TypeOK, Job
  <2>2. QED
    BY <1>4, <2>1 DEF FinishIngest, FinishJudge, Larger, TypeOK
<1>5. CASE Reextract \/ Rollback
  BY <1>5 DEF Reextract, Rollback, LockedSubject, TypeOK
<1>6. QED
  BY <1>1, <1>2, <1>3, <1>4, <1>5
     DEF Next, IngestStep, JudgeStep, cursors, TypeOK

\* Cursors go back only with a new generation.
THEOREM CursorsNeverGoBack == Spec => CursorsForward
  BY TypeCorrect, CursorMoves, PTL DEF Spec, CursorsForward

\* An attempt keeps reading from behind the cursor.
LEMMA ReadsStep ==
    ASSUME TypeOK, TypeOK', ReadsFromBehind, [Next]_vars
    PROVE  ReadsFromBehind'
<1>1. SUFFICES ASSUME NEW k \in jobs', IsIngest(k), k.state = "running",
                      k.read = gen'
               PROVE  k.from <= ingest'
  BY DEF ReadsFromBehind, IsIngest
<1>2. CASE \E j \in jobs : SameAttempt(j, k)
  <2>1. PICK j \in jobs : SameAttempt(j, k)
    BY <1>2
  <2>2. gen' = gen /\ ingest' >= ingest
    BY <2>1, CursorMoves DEF SameAttempt
  <2>3. j.from <= ingest
    BY <1>1, <2>1, <2>2 DEF ReadsFromBehind, SameAttempt, IsIngest
  <2>4. k.from \in Nat /\ k.from = j.from
    BY <2>1 DEF SameAttempt, TypeOK, Job
  <2>5. QED
    BY <2>2, <2>3, <2>4 DEF TypeOK
<1>3. CASE k.from = ingest /\ ingest' = ingest
  BY <1>3 DEF TypeOK
<1>4. QED
  BY <1>1, <1>2, <1>3, RunningSince

\* What a finished attempt read closes the gap its cursor leaves.
LEMMA FinishCovers ==
    ASSUME IInv, NEW j \in jobs, FinishIngest(j)
    PROVE  CursorOrder' /\ NoTurnSkipped' /\ TurnsNumbered'
<1>1. j.last \in Nat /\ j.from \in Nat /\ TypeOK
  BY DEF IInv, TypeOK, Job
<1>2. CursorOrder'
  BY <1>1 DEF IInv, CursorOrder, FinishIngest, MayAdvance, Larger, TypeOK
<1>3. MayAdvance(j) => j.from <= ingest
  BY DEF IInv, ReadsFromBehind, MayAdvance, FinishIngest
<1>4. ASSUME NEW t \in turns, t <= ingest'
      PROVE  t \in covered'
  <2>1. t \in Nat
    BY <1>1 DEF TypeOK
  <2>2. CASE t <= ingest
    BY <2>2 DEF IInv, NoTurnSkipped, FinishIngest
  <2>3. CASE ~(t <= ingest)
    <3>1. MayAdvance(j) /\ ingest' = j.last
      BY <1>1, <1>4, <2>1, <2>3 DEF FinishIngest, Larger, TypeOK
    <3>2. t \in Unread(j.from, j.last)
      BY <1>1, <1>3, <1>4, <2>1, <2>3, <3>1 DEF Unread, TypeOK
    <3>3. QED
      BY <3>1, <3>2 DEF FinishIngest
  <2>4. QED
    BY <2>2, <2>3
<1>5. NoTurnSkipped' /\ TurnsNumbered'
  BY <1>4 DEF IInv, NoTurnSkipped, TurnsNumbered, FinishIngest
<1>6. QED
  BY <1>2, <1>5

\* The other writers of the cursors: chat, judges and operators.
LEMMA OthersCover ==
    ASSUME IInv, ChatCommit \/ (\E j \in jobs : FinishJudge(j))
                 \/ Reextract \/ Rollback
    PROVE  CursorOrder' /\ NoTurnSkipped' /\ TurnsNumbered'
<1> USE DEF IInv, CursorOrder, NoTurnSkipped, TurnsNumbered
<1>1. CASE ChatCommit
  <2>1. Larger(source, lastSeq + 1) = lastSeq + 1
    BY DEF Larger, TypeOK
  <2>2. QED
    BY <1>1, <2>1 DEF ChatCommit, TypeOK
<1>2. ASSUME NEW j \in jobs, FinishJudge(j)
      PROVE  CursorOrder' /\ NoTurnSkipped' /\ TurnsNumbered'
  <2>1. j.at \in Nat
    BY DEF TypeOK, Job
  <2>2. QED
    BY <1>2, <2>1 DEF FinishJudge, Larger, TypeOK
<1>3. CASE Reextract
  BY <1>3 DEF Reextract, TypeOK
<1>4. CASE Rollback
  BY <1>4 DEF Rollback, Unread, TypeOK
<1>5. QED
  BY <1>1, <1>2, <1>3, <1>4

\* The invariant is inductive.
LEMMA CursorStep ==
    ASSUME IInv, [Next]_vars
    PROVE  IInv'
<1>1. TypeOK' /\ ReadsFromBehind'
  BY TypeStep, ReadsStep DEF IInv
<1>2. CASE UNCHANGED <<turns, source, ingest, consolidated, covered>>
           /\ lastSeq' >= lastSeq
  BY <1>1, <1>2 DEF IInv, CursorOrder, NoTurnSkipped, TurnsNumbered, TypeOK
<1>3. CASE \/ ChatLoad \/ ChatDerived \/ ChatRollback
           \/ (\E b \in BOOLEAN : SweepRead(b) \/ SweepApply(b)) \/ SweepLost
           \/ HourPasses \/ UNCHANGED vars
  <2>1. lastSeq' \in {lastSeq, lastSeq + 1}
    BY <1>3 DEF ChatLoad, ChatDerived, ChatRollback, SweepRead, SweepApply,
                SweepLost, HourPasses, vars
  <2>2. UNCHANGED <<turns, source, ingest, consolidated, covered>>
    BY <1>3 DEF ChatLoad, ChatDerived, ChatRollback, SweepRead, SweepApply,
                SweepLost, HourPasses, vars, cursors
  <2>3. QED
    BY <1>2, <2>1, <2>2 DEF IInv, TypeOK
<1>4. ASSUME NEW j \in jobs,
             \/ StartIngest(j) \/ CancelIngest(j) \/ Extract(j) \/ Halve(j)
             \/ Register(j) \/ StartJudge(j) \/ Fail(j)
      PROVE  IInv'
  <2>1. UNCHANGED <<turns, lastSeq, source, ingest, consolidated, covered>>
    BY <1>4 DEF StartIngest, CancelIngest, Extract, Halve, Register,
                StartJudge, Fail, cursors
  <2>2. QED
    BY <1>2, <2>1 DEF IInv, TypeOK
<1>5. CASE \/ \E j \in jobs : FinishIngest(j) \/ FinishJudge(j)
           \/ ChatCommit \/ Reextract \/ Rollback
  BY <1>1, <1>5, FinishCovers, OthersCover DEF IInv
<1>6. QED
  BY <1>3, <1>4, <1>5 DEF Next, IngestStep, JudgeStep

\* Nothing was talked about yet.
LEMMA InitCursors == Init => IInv
  BY InitTypes DEF Init, IInv, CursorOrder, NoTurnSkipped, TurnsNumbered,
                   ReadsFromBehind

\* The invariant of the cursors holds in every state.
LEMMA CursorInvariant == Spec => []IInv
  BY InitCursors, CursorStep, PTL DEF Spec

\* consolidated <= ingest <= source <= last committed turn, always.
THEOREM CursorsOrdered == Spec => []CursorOrder
<1>1. IInv => CursorOrder
  BY DEF IInv
<1>2. QED
  BY <1>1, CursorInvariant, PTL

\* The ingest cursor never passes a turn no counted attempt read.
THEOREM NothingSkipped == Spec => []NoTurnSkipped
<1>1. IInv => NoTurnSkipped
  BY DEF IInv
<1>2. QED
  BY <1>1, CursorInvariant, PTL

-----------------------------------------------------------------------------
(* One chain of ingest jobs, as long as no operator starts a generation    *)

\* The row carries the chain: it waits, runs, or is dead and not replayed.
OpenIn(js, j) ==
    /\ IsIngest(j)
    /\ IsAlive(j) \/ (j.state = "dead" /\ ~HasKey(js, Replay(j)))

\* An ingest row's chunk is committed source, its key names a cursor that was,
\* and its attempt works on what lies ahead of the cursor.
RowOK(j) ==
    IsIngest(j) =>
        /\ j.last <= source
        /\ j.kind # "again"
        /\ j.kind = "chain" => j.at <= ingest
        /\ j.state = "running" => j.read = gen /\ ingest < j.last

RowsOK == \A j \in jobs : RowOK(j)

\* What an open chat transaction loaded is the present source cursor.
ChatSees == chat.open => chat.source = source /\ chat.ingest <= ingest

OneOpen    == \A j, k \in jobs : OpenIn(jobs, j) /\ OpenIn(jobs, k) => j = k
OpenBehind == \A j \in jobs : OpenIn(jobs, j) => Behind

\* The dead rows a sweep read are still dead; a chain it may resume is broken.
SweepSees ==
    sweep.open =>
        /\ \A j \in sweep.dead : j \in jobs /\ j.state = "dead"
        /\ sweep.stalled /\ sweep.dead = {}
           => Behind /\ \A j \in jobs : ~OpenIn(jobs, j)

ChainInv == /\ IInv
            /\ gen = 0
            /\ RowsOK /\ ChatSees /\ OneOpen /\ OpenBehind /\ SweepSees

\* An UPDATE of row j that keeps its key and does not reopen it.
Moves(j, k) ==
    /\ Replace(j, k) /\ SameKey(k, j)
    /\ IsIngest(k) /\ k.state \in {"ready", "running", "dead"}
       => j.state \in {"ready", "running"}

\* After such an UPDATE a row is open only if it, or its version before, was.
LEMMA MovesOpen ==
    ASSUME NEW j \in jobs, NEW k, Moves(j, k),
           NEW x \in jobs', OpenIn(jobs', x)
    PROVE  \/ x \in jobs /\ OpenIn(jobs, x) /\ x # j
           \/ x = k /\ OpenIn(jobs, j)
<1>1. \A y : HasKey(jobs, y) => HasKey(jobs', y)
  BY DEF Moves, Replace, HasKey, SameKey
<1>2. CASE x = k
  BY <1>2 DEF Moves, OpenIn, SameKey, IsIngest, IsAlive
<1>3. CASE x # k
  BY <1>1, <1>3 DEF Moves, Replace, OpenIn
<1>4. QED
  BY <1>2, <1>3

\* Such an UPDATE of a row that is not dead keeps the chain single.
LEMMA MovesKeep ==
    ASSUME OneOpen, OpenBehind, SweepSees, NEW j \in jobs, NEW k, Moves(j, k),
           j.state # "dead", UNCHANGED <<source, ingest, sweep>>
    PROVE  OneOpen' /\ OpenBehind' /\ SweepSees'
<1>1. OneOpen'
  BY MovesOpen DEF OneOpen
<1>2. OpenBehind'
  BY MovesOpen DEF OpenBehind, Behind
<1>3. ASSUME sweep.open PROVE \A i \in sweep.dead : i \in jobs' /\ i.state = "dead"
  BY <1>3 DEF SweepSees, Moves, Replace
<1>4. ASSUME sweep.open, sweep.stalled, sweep.dead = {}
      PROVE  Behind' /\ \A i \in jobs' : ~OpenIn(jobs', i)
  BY <1>4, MovesOpen DEF SweepSees, Behind
<1>5. SweepSees'
  BY <1>3, <1>4 DEF SweepSees
<1>6. QED
  BY <1>1, <1>2, <1>5

\* Without operators a row fact outlives every step that leaves the ingest
\* cursor where it is.
LEMMA RowKept ==
    ASSUME TypeOK, TypeOK', NEW x \in jobs, RowOK(x), ingest' = ingest,
           gen' = gen, source' >= source
    PROVE  RowOK(x)'
  BY DEF RowOK, TypeOK, Job, IsIngest

\* The rows an UPDATE of one row leaves.
LEMMA MovedRows ==
    ASSUME TypeOK, TypeOK', RowsOK, NEW j \in jobs, NEW k, Replace(j, k),
           RowOK(k)', ingest' = ingest, gen' = gen, source' = source
    PROVE  RowsOK'
  BY RowKept DEF RowsOK, Replace, TypeOK

\* What chat loaded stays true while chat writes nothing.
LEMMA ChatSeesKept ==
    ASSUME TypeOK, TypeOK', ChatSees, chat' = chat, source' = source,
           ingest' >= ingest
    PROVE  ChatSees'
  BY DEF ChatSees, TypeOK, Chat

\* The steps of an attempt that do not finish it.
LEMMA AttemptChain ==
    ASSUME ChainInv, TypeOK', NEW j \in jobs,
           \/ StartIngest(j) \/ CancelIngest(j) \/ Extract(j) \/ Halve(j)
           \/ Register(j) \/ JudgeStep(j) \/ Fail(j)
    PROVE  /\ gen' = gen
           /\ RowsOK' /\ ChatSees' /\ OneOpen' /\ OpenBehind' /\ SweepSees'
<1>1. j \in Job /\ TypeOK /\ RowOK(j) /\ RowsOK
  BY DEF ChainInv, IInv, TypeOK, RowsOK
<1>2. /\ UNCHANGED <<source, ingest, gen, chat, sweep>>
      /\ j.state \in {"ready", "running"}
  BY DEF StartIngest, CancelIngest, Extract, Halve, Register, JudgeStep,
         StartJudge, FinishJudge, Fail, cursors
<1>3. ASSUME NEW k, Moves(j, k), RowOK(k)'
      PROVE  RowsOK' /\ OneOpen' /\ OpenBehind' /\ SweepSees'
  <2>1. RowsOK'
    BY <1>1, <1>2, <1>3, MovedRows DEF Moves
  <2>2. OneOpen' /\ OpenBehind' /\ SweepSees'
    BY <1>2, <1>3, MovesKeep DEF ChainInv
  <2>3. QED
    BY <2>1, <2>2
<1>4. ASSUME NEW s \in States, Replace(j, Ended(j, s)),
             s \in {"ready", "dead", "succeeded", "cancelled"}
      PROVE  Moves(j, Ended(j, s)) /\ RowOK(Ended(j, s))'
  <2>1. /\ SameKey(Ended(j, s), j) /\ Ended(j, s).state = s
        /\ Ended(j, s).last = j.last
    BY <1>1, RowKeys DEF Ended, Job
  <2>2. Moves(j, Ended(j, s))
    BY <1>2, <1>4, <2>1 DEF Moves
  <2>3. RowOK(Ended(j, s))'
    BY <1>1, <1>2, <1>4, <2>1 DEF RowOK, SameKey, IsIngest
  <2>4. QED
    BY <2>2, <2>3
<1>5. ASSUME NEW st, Replace(j, [j EXCEPT !.step = st])
      PROVE  LET k == [j EXCEPT !.step = st] IN Moves(j, k) /\ RowOK(k)'
  <2>1. LET k == [j EXCEPT !.step = st]
        IN  SameKey(k, j) /\ k.state = j.state /\ k.last = j.last
            /\ k.read = j.read
    BY <1>1 DEF Job, SameKey
  <2>2. QED
    BY <1>1, <1>2, <1>5, <2>1 DEF Moves, RowOK, SameKey, IsIngest
<1>6. CASE StartIngest(j)
  <2>1. PICK c \in Chunks(j), st \in Steps :
            /\ Unread(ingest, c[2]) # {}
            /\ Replace(j, [j EXCEPT
                 !.state = "running", !.first = c[1], !.last = c[2],
                 !.from  = ingest,    !.read  = gen,  !.step  = st])
    BY <1>6 DEF StartIngest, Steps
  <2>2. PICK a, b : /\ b = c[2]
                    /\ Replace(j, [j EXCEPT
                         !.state = "running", !.first = a, !.last = b,
                         !.from  = ingest,    !.read  = gen,  !.step  = st])
    BY <2>1
  <2>3. b \in Nat /\ ingest < b
    BY <1>1, <2>1, <2>2, ChunkTypes DEF Unread, TypeOK
  <2>4. b <= source
    <3>1. CASE j.last # 0
      <4>1. c = <<j.first, j.last>>
        BY <3>1 DEF Chunks
      <4>2. b = j.last
        BY <2>2, <4>1
      <4>3. QED
        BY <1>1, <1>6, <4>2 DEF RowOK, StartIngest
    <3>2. CASE j.last = 0
      <4>1. c \in Unread(ingest, source) \X ChunkEnds(ingest, source)
        BY <3>2 DEF Chunks
      <4>2. c[2] \in ChunkEnds(ingest, source)
        BY <4>1
      <4>3. QED
        BY <2>2, <4>2 DEF ChunkEnds, Unread
    <3>3. QED
      BY <3>1, <3>2
  <2> DEFINE k == [j EXCEPT
                     !.state = "running", !.first = a, !.last = b,
                     !.from  = ingest,    !.read  = gen,  !.step  = st]
  <2>5. SameKey(k, j) /\ k.state = "running" /\ k.last = b /\ k.read = gen
    BY <1>1 DEF Job, SameKey
  <2>6. Moves(j, k)
    BY <1>2, <2>2, <2>5 DEF Moves
  <2>7. RowOK(k)'
    BY <1>1, <1>2, <2>3, <2>4, <2>5 DEF RowOK, SameKey, IsIngest
  <2>8. QED
    BY <1>1, <1>2, <1>3, <2>6, <2>7, ChatSeesKept DEF ChainInv, TypeOK
<1>7. CASE CancelIngest(j) \/ FinishJudge(j) \/ Fail(j)
  <2>1. PICK s \in {"ready", "dead", "succeeded", "cancelled"} :
            Replace(j, Ended(j, s))
    BY <1>7 DEF CancelIngest, FinishJudge, Fail
  <2>2. QED
    BY <1>1, <1>2, <1>3, <1>4, <2>1, ChatSeesKept DEF ChainInv, TypeOK, States
<1>8. CASE Extract(j) \/ Register(j)
  <2>1. PICK st : Replace(j, [j EXCEPT !.step = st])
    BY <1>8 DEF Extract, Register
  <2>2. QED
    BY <1>1, <1>2, <1>3, <1>5, <2>1, ChatSeesKept DEF ChainInv, TypeOK
<1>9. CASE Halve(j)
  <2>1. PICK upto \in Nat : /\ upto <= j.last
                         /\ Replace(j, [Ended(j, "ready") EXCEPT !.last = upto])
    BY <1>1, <1>9 DEF Halve, Job
  <2> DEFINE k == [Ended(j, "ready") EXCEPT !.last = upto]
  <2>2. Ended(j, "ready") \in Job /\ SameKey(Ended(j, "ready"), j)
        /\ Ended(j, "ready").state = "ready"
    BY <1>1, RowTypes, RowKeys DEF States
  <2>3. SameKey(k, j) /\ k.state = "ready" /\ k.last = upto
    BY <2>2 DEF Job, SameKey
  <2>4. Moves(j, k)
    BY <1>2, <2>1, <2>3 DEF Moves
  <2>5. j.last \in Nat /\ source \in Nat
    BY <1>1 DEF Job, TypeOK
  <2>6. RowOK(k)'
    BY <1>1, <1>2, <2>1, <2>3, <2>5 DEF RowOK, SameKey, IsIngest
  <2>7. QED
    BY <1>1, <1>2, <1>3, <2>4, <2>6, ChatSeesKept DEF ChainInv, TypeOK
<1>10. CASE StartJudge(j)
  <2>1. PICK ps : Replace(j, [j EXCEPT !.state = "running", !.read = gen,
                                       !.taken = ps])
    BY <1>10 DEF StartJudge
  <2> DEFINE k == [j EXCEPT !.state = "running", !.read = gen, !.taken = ps]
  <2>2. SameKey(k, j)
    BY <1>1 DEF Job, SameKey
  <2>3. Moves(j, k) /\ RowOK(k)'
    BY <1>2, <1>10, <2>1, <2>2 DEF Moves, RowOK, SameKey, IsIngest, StartJudge
  <2>4. QED
    BY <1>1, <1>2, <1>3, <2>3, ChatSeesKept DEF ChainInv, TypeOK
<1>11. QED
  BY <1>6, <1>7, <1>8, <1>9, <1>10 DEF JudgeStep

\* What the fields of a new row say.
LEMMA AskedRows ==
    ASSUME NEW kind, NEW at, NEW g, NEW h
    PROVE  /\ NewJob(kind, at, g, h).kind = kind
           /\ NewJob(kind, at, g, h).at = at
           /\ NewJob(kind, at, g, h).last = 0
           /\ NewJob(kind, at, g, h).state = "ready"
  BY DEF NewJob

\* A row that stays closed as long as no key is lost.
LEMMA ClosedStays ==
    ASSUME NEW js, NEW x, ~OpenIn(jobs, x),
           \A y : HasKey(jobs, y) => HasKey(js, y)
    PROVE  ~OpenIn(js, x)
  BY DEF OpenIn

\* A finishing attempt moves the cursor to its chunk's end and hands the chain
\* to at most one new row there.
LEMMA FinishRows ==
    ASSUME ChainInv, NEW j \in jobs, FinishIngest(j)
    PROVE  /\ ingest' = j.last /\ ingest < j.last
           /\ OpenIn(jobs, j)
           /\ \A x \in jobs' :
                \/ x \in jobs /\ x # j
                \/ x = Ended(j, "succeeded")
                \/ x = JudgeJob(j.last, gen)
                \/ x = ChainJob(j.last, gen) /\ j.last < source
           /\ \A y : HasKey(jobs, y) => HasKey(jobs', y)
           /\ \A x \in jobs : x # j => x \in jobs'
<1>1. j \in Job /\ TypeOK /\ RowOK(j) /\ RowsOK
  BY DEF ChainInv, IInv, TypeOK, RowsOK
<1>2. IsIngest(j) /\ j.state = "running"
  BY DEF FinishIngest
<1>3. j.read = gen /\ ingest < j.last /\ j.last <= source
  BY <1>1, <1>2 DEF RowOK
<1>4. ingest' = j.last
  BY <1>1, <1>3 DEF FinishIngest, MayAdvance, Larger, Job, TypeOK
<1>5. OpenIn(jobs, j)
  BY <1>2 DEF OpenIn, IsAlive
<1> DEFINE ended   == (jobs \ {j}) \cup {Ended(j, "succeeded")}
           judged == IF PendingOf(j.last) = {} THEN ended
                     ELSE Enqueue(ended, JudgeJob(j.last, gen))
<1>6. jobs' = EnqueueNext(judged, j.last, gen)
  BY <1>3 DEF FinishIngest
<1>7. \A x \in judged : x \in ended \/ x = JudgeJob(j.last, gen)
  BY DEF Enqueue
<1>8. ended \subseteq judged
  BY DEF Enqueue
<1>9. ~HasKey(judged, ChainJob(j.last, gen))
  <2>1. \A x \in jobs : x.kind = "chain" => x.at <= ingest
    BY <1>1 DEF RowsOK, RowOK, IsIngest, IngestKinds
  <2>2. /\ Ended(j, "succeeded").kind = j.kind
        /\ Ended(j, "succeeded").at = j.at
    BY <1>1, RowKeys DEF SameKey, States
  <2>3. \A x \in ended : x.kind = "chain" => x.at <= ingest
    BY <2>1, <2>2
  <2>4. JudgeJob(j.last, gen).kind = "judge"
    BY AskedRows DEF JudgeJob
  <2>5. \A x \in judged : x.kind = "chain" => x.at <= ingest
    BY <1>7, <2>3, <2>4
  <2>6. /\ ChainJob(j.last, gen).kind = "chain"
        /\ ChainJob(j.last, gen).at = j.last
    BY AskedRows DEF ChainJob
  <2>7. ingest \in Nat /\ j.last \in Nat
    BY <1>1 DEF TypeOK, Job
  <2>8. QED
    BY <1>3, <2>5, <2>6, <2>7 DEF HasKey, SameKey
<1>10. /\ \A x \in jobs' : \/ x \in judged
                           \/ x = ChainJob(j.last, gen) /\ j.last < source
       /\ judged \subseteq jobs'
  <2>1. ASSUME NEW t \in Unread(j.last, source)
        PROVE  j.last < source
    BY <1>1, <2>1 DEF Unread, TypeOK, Job
  <2> HIDE DEF judged
  <2>2. CASE Unread(j.last, source) = {}
    BY <1>6, <2>2 DEF EnqueueNext
  <2>3. CASE Unread(j.last, source) # {}
    <3>1. jobs' = judged \cup {ChainJob(j.last, gen)}
      BY <1>6, <1>9, <2>3 DEF EnqueueNext
    <3>2. QED
      BY <2>1, <2>3, <3>1
  <2>4. QED
    BY <2>2, <2>3
<1>11. \A y : HasKey(jobs, y) => HasKey(jobs', y)
  <2>1. SameKey(Ended(j, "succeeded"), j)
    BY <1>1, RowKeys DEF States
  <2>2. ASSUME NEW y, HasKey(jobs, y)
        PROVE  HasKey(ended, y)
    <3>1. PICK x \in jobs : SameKey(x, y)
      BY <2>2 DEF HasKey
    <3>2. CASE x = j
      BY <2>1, <3>1, <3>2 DEF HasKey, SameKey
    <3>3. CASE x # j
      BY <3>1, <3>3 DEF HasKey
    <3>4. QED
      BY <3>2, <3>3
  <2>3. ended \subseteq jobs'
    BY <1>8, <1>10
  <2>4. QED
    BY <2>2, <2>3 DEF HasKey
<1>12. \A x \in jobs : x # j => x \in jobs'
  BY <1>8, <1>10
<1>13. QED
  BY <1>3, <1>4, <1>5, <1>7, <1>10, <1>11, <1>12

\* A finishing attempt keeps the chain single.
LEMMA FinishChain ==
    ASSUME ChainInv, TypeOK', NEW j \in jobs, FinishIngest(j)
    PROVE  /\ gen' = gen
           /\ RowsOK' /\ ChatSees' /\ OneOpen' /\ OpenBehind' /\ SweepSees'
<1>1. j \in Job /\ TypeOK /\ RowOK(j) /\ RowsOK
  BY DEF ChainInv, IInv, TypeOK, RowsOK
<1>2. /\ UNCHANGED <<source, gen, chat, sweep>>
      /\ IsIngest(j) /\ j.state = "running"
  BY DEF FinishIngest
<1>3. \A x \in jobs : x # j => ~OpenIn(jobs, x)
  BY FinishRows DEF ChainInv, OneOpen
<1>4. Ended(j, "succeeded").state = "succeeded" /\ j.last \in Nat
      /\ JudgeJob(j.last, gen).kind = "judge"
  BY <1>1, RowKeys, AskedRows DEF States, JudgeJob, Job
<1>5. ASSUME NEW x \in jobs', OpenIn(jobs', x)
      PROVE  x = ChainJob(j.last, gen) /\ j.last < source
  <2>1. CASE x \in jobs /\ x # j
    BY <1>3, <1>5, <2>1, FinishRows, ClosedStays
  <2>2. CASE x = Ended(j, "succeeded")
    BY <1>4, <1>5, <2>2 DEF OpenIn, IsAlive
  <2>3. CASE x = JudgeJob(j.last, gen)
    BY <1>4, <1>5, <2>3 DEF OpenIn, IsIngest, IngestKinds
  <2>4. QED
    BY <2>1, <2>2, <2>3, FinishRows
<1>6. OneOpen'
  BY <1>5 DEF OneOpen
<1>7. OpenBehind'
  BY <1>2, <1>5, FinishRows DEF OpenBehind, Behind
<1>8. SweepSees'
  BY <1>2, FinishRows DEF ChainInv, SweepSees
<1>9. ChatSees'
  BY <1>1, <1>2, FinishRows, ChatSeesKept DEF ChainInv, TypeOK
<1>10. ASSUME NEW x \in jobs'
       PROVE  RowOK(x)'
  <2>1. source \in Nat /\ ingest \in Nat /\ ingest' = j.last /\ ingest < j.last
    BY <1>1, FinishRows DEF TypeOK
  <2>2. CASE x \in jobs /\ x # j
    <3>1. IsIngest(x) => x.state # "running"
      BY <1>3, <2>2 DEF OpenIn, IsAlive
    <3>2. RowOK(x) /\ x.at \in Nat
      BY <1>1, <2>2 DEF RowsOK, TypeOK, Job
    <3>3. QED
      BY <1>2, <1>4, <2>1, <3>1, <3>2 DEF RowOK, IsIngest
  <2>3. CASE x = Ended(j, "succeeded")
    <3>1. x.kind = j.kind /\ x.at = j.at /\ x.last = j.last /\ j.at \in Nat
      BY <1>1, <2>3, RowKeys DEF Ended, Job
    <3>2. QED
      BY <1>1, <1>2, <1>4, <2>1, <2>3, <3>1 DEF RowOK, IsIngest
  <2>4. CASE x = JudgeJob(j.last, gen)
    BY <1>4, <2>4 DEF RowOK, IsIngest, IngestKinds
  <2>5. CASE x = ChainJob(j.last, gen)
    BY <1>2, <1>4, <2>1, <2>5, AskedRows DEF RowOK, ChainJob
  <2>6. QED
    BY <2>2, <2>3, <2>4, <2>5, FinishRows
<1>11. RowsOK'
  BY <1>10 DEF RowsOK
<1>12. QED
  BY <1>2, <1>6, <1>7, <1>8, <1>9, <1>11

\* Chat starts a chain only when none is open.
LEMMA CommitChain ==
    ASSUME ChainInv, TypeOK', ChatCommit
    PROVE  /\ gen' = gen
           /\ RowsOK' /\ ChatSees' /\ OneOpen' /\ OpenBehind' /\ SweepSees'
<1>1. TypeOK /\ CursorOrder /\ RowsOK
  BY DEF ChainInv, IInv
<1>2. /\ UNCHANGED <<ingest, gen, sweep>>
      /\ source' > ingest /\ source' >= source
      /\ ~chat'.open
  <2>1. source' = Larger(source, lastSeq + 1) /\ chat' = NoChat
    BY DEF ChatCommit
  <2>2. QED
    BY <1>1, <2>1 DEF ChatCommit, Larger, CursorOrder, TypeOK, NoChat
<1>3. ChatSees'
  BY <1>2 DEF ChatSees
<1>4. CASE jobs' = jobs
  <2>1. RowsOK'
    BY <1>1, <1>2, <1>4, RowKept DEF RowsOK
  <2>2. OneOpen'
    BY <1>4 DEF ChainInv, OneOpen
  <2>3. OpenBehind'
    BY <1>2 DEF OpenBehind, Behind
  <2>4. SweepSees'
    BY <1>1, <1>2, <1>4 DEF ChainInv, SweepSees, Behind, TypeOK
  <2>5. QED
    BY <1>2, <1>3, <2>1, <2>2, <2>3, <2>4
<1>5. CASE jobs' # jobs
  <2>1. chat.open /\ StartsChain(chat)
        /\ jobs' = jobs \cup {ChainJob(chat.ingest, chat.gen)}
    BY <1>5 DEF ChatCommit, Enqueue
  <2>2. ~Behind /\ chat.ingest = ingest
    BY <1>1, <2>1
       DEF ChainInv, ChatSees, StartsChain, Behind, CursorOrder, TypeOK, Chat
  <2>3. \A x \in jobs : ~OpenIn(jobs, x)
    BY <2>2 DEF ChainInv, OpenBehind
  <2>4. \A y : HasKey(jobs, y) => HasKey(jobs', y)
    BY <2>1 DEF HasKey
  <2>5. \A x \in jobs' : OpenIn(jobs', x) => x = ChainJob(chat.ingest, chat.gen)
    BY <2>1, <2>3, <2>4, ClosedStays
  <2>6. OneOpen' /\ OpenBehind'
    BY <1>2, <2>5 DEF OneOpen, OpenBehind, Behind
  <2>7. SweepSees'
    BY <1>2, <2>1, <2>2 DEF ChainInv, SweepSees
  <2>8. ASSUME NEW x \in jobs'
        PROVE  RowOK(x)'
    <3>1. CASE x \in jobs
      BY <1>1, <1>2, <3>1, RowKept DEF RowsOK
    <3>2. CASE x = ChainJob(chat.ingest, chat.gen)
      BY <1>1, <1>2, <2>2, <3>2, AskedRows DEF RowOK, ChainJob, TypeOK
    <3>3. QED
      BY <2>1, <3>1, <3>2
  <2>9. RowsOK'
    BY <2>8 DEF RowsOK
  <2>10. QED
    BY <1>2, <1>3, <2>6, <2>7, <2>9
<1>6. QED
  BY <1>4, <1>5

\* A sweep reads every open row that nobody works on.
LEMMA SweepReadChain ==
    ASSUME ChainInv, TypeOK', NEW b \in BOOLEAN, SweepRead(b)
    PROVE  /\ gen' = gen
           /\ RowsOK' /\ ChatSees' /\ OneOpen' /\ OpenBehind' /\ SweepSees'
<1>1. UNCHANGED <<source, ingest, gen, chat, jobs>> /\ TypeOK
  BY DEF SweepRead, cursors, ChainInv, IInv
<1>2. /\ sweep'.dead = IF Behind THEN Unreplayed ELSE {}
      /\ sweep'.stalled => Behind /\ NoIngestAlive
  BY DEF SweepRead
<1>3. ASSUME sweep'.stalled, sweep'.dead = {}
      PROVE  Behind /\ \A j \in jobs : ~OpenIn(jobs, j)
  <2>1. Behind /\ NoIngestAlive /\ Unreplayed = {}
    BY <1>2, <1>3
  <2>2. ASSUME NEW j \in jobs, OpenIn(jobs, j)
        PROVE  FALSE
    <3>1. j.state = "dead" /\ ~HasKey(jobs, Replay(j))
      BY <2>1, <2>2 DEF OpenIn, NoIngestAlive, Alive
    <3>2. j \in Unreplayed
      BY <3>1 DEF Unreplayed, HasKey
    <3>3. QED
      BY <2>1, <3>2
  <2>3. QED
    BY <2>1, <2>2
<1>4. \A j \in sweep'.dead : j \in jobs /\ j.state = "dead"
  BY <1>2 DEF Unreplayed
<1>5. SweepSees'
  BY <1>1, <1>3, <1>4 DEF SweepSees, Behind
<1>6. RowsOK' /\ OneOpen' /\ OpenBehind' /\ ChatSees'
  BY <1>1 DEF ChainInv, RowsOK, RowOK, OneOpen, OpenBehind, ChatSees, Behind
<1>7. QED
  BY <1>1, <1>5, <1>6

\* A key equals itself.
LEMMA SameKeyReflexive == \A j : SameKey(j, j)
  BY DEF SameKey

\* A sweep resumes a chain nobody carries, or replays the row that carried it.
LEMMA SweepApplyChain ==
    ASSUME ChainInv, TypeOK', NEW locked \in BOOLEAN, SweepApply(locked)
    PROVE  /\ gen' = gen
           /\ RowsOK' /\ ChatSees' /\ OneOpen' /\ OpenBehind' /\ SweepSees'
<1>1. UNCHANGED <<source, ingest, gen, chat>> /\ TypeOK /\ RowsOK
  BY DEF SweepApply, cursors, ChainInv, IInv
<1>2. /\ sweep.open /\ sweep' = NoSweep
      /\ \A i \in sweep.dead : i \in jobs /\ i.state = "dead"
  BY DEF SweepApply, ChainInv, SweepSees
<1>3. ChatSees' /\ SweepSees'
  BY <1>1, <1>2 DEF ChainInv, ChatSees, SweepSees, NoSweep
<1> DEFINE resume == NewJob("resume", ingest, gen, hour)
           asked  == {NewJob("rejudge", t, sweep.gen, hour) : t \in sweep.unjudged}
           again  == {Replay(i) : i \in sweep.dead}
<1>4. jobs' = (IF MayResume /\ ~locked THEN Enqueue(jobs, resume) ELSE jobs)
              \cup {k \in asked \cup again : ~HasKey(jobs, k)}
  BY DEF SweepApply
<1>5. \A x \in asked : x.kind = "rejudge" /\ ~IsIngest(x)
  BY AskedRows DEF IsIngest, IngestKinds
<1>6. \A i \in sweep.dead : /\ Replay(i).kind = i.kind /\ Replay(i).at = i.at
                            /\ Replay(i).last = i.last
                            /\ Replay(i).state = "ready"
  BY <1>1, <1>2, RowKeys DEF TypeOK
<1>7. jobs \subseteq jobs'
  BY <1>4 DEF Enqueue
<1>8. \A y : HasKey(jobs, y) => HasKey(jobs', y)
  BY <1>7 DEF HasKey
<1>9. \A x \in jobs : OpenIn(jobs', x) => OpenIn(jobs, x)
  BY <1>8, ClosedStays
<1>10. \A x \in jobs' : \/ x \in jobs
                        \/ x = resume /\ MayResume /\ ~locked
                        \/ x \in asked
                        \/ \E i \in sweep.dead : x = Replay(i) /\ ~HasKey(jobs, x)
  <2> HIDE DEF resume, asked
  <2>1. ASSUME NEW x \in jobs'
        PROVE  \/ x \in jobs \/ x \in asked
               \/ MayResume /\ ~locked /\ x \in Enqueue(jobs, resume)
               \/ x \in again /\ ~HasKey(jobs, x)
    BY <1>4
  <2>2. QED
    BY <2>1 DEF Enqueue
<1>11. ASSUME NEW x \in jobs'
       PROVE  RowOK(x)'
  <2>1. CASE x \in jobs
    BY <1>1, <2>1, RowKept DEF RowsOK, TypeOK
  <2>2. CASE x = resume
    BY <1>1, <2>2, AskedRows DEF RowOK, TypeOK
  <2>3. CASE x \in asked
    BY <1>5, <2>3 DEF RowOK
  <2>4. CASE \E i \in sweep.dead : x = Replay(i)
    BY <1>1, <1>2, <1>6, <2>4 DEF RowsOK, RowOK, IsIngest
  <2>5. QED
    BY <1>10, <2>1, <2>2, <2>3, <2>4
<1>12. RowsOK'
  BY <1>11 DEF RowsOK
<1>13. CASE MayResume /\ ~locked
  <2>1. sweep.dead = {} /\ Behind /\ \A x \in jobs : ~OpenIn(jobs, x)
    BY <1>2, <1>13 DEF MayResume, ChainInv, SweepSees
  <2>2. \A x \in jobs' : OpenIn(jobs', x) => x = resume
    BY <1>5, <1>9, <1>10, <2>1 DEF OpenIn
  <2>3. OneOpen' /\ OpenBehind'
    BY <1>1, <2>1, <2>2 DEF OneOpen, OpenBehind, Behind
  <2>4. QED
    BY <1>1, <1>3, <1>12, <2>3
<1>14. CASE ~(MayResume /\ ~locked)
  <2>1. \A x \in jobs' : OpenIn(jobs', x) =>
            \/ x \in jobs /\ OpenIn(jobs, x)
            \/ \E i \in sweep.dead : x = Replay(i) /\ OpenIn(jobs, i)
    BY <1>2, <1>5, <1>6, <1>9, <1>10, <1>14 DEF OpenIn, IsIngest
  <2>2. \A i \in sweep.dead : Replay(i) \in jobs' => ~OpenIn(jobs', i)
    BY <1>2, SameKeyReflexive DEF OpenIn, IsAlive, HasKey
  <2>3. ASSUME NEW x \in jobs', NEW y \in jobs',
               OpenIn(jobs', x), OpenIn(jobs', y)
        PROVE  x = y
    BY <1>2, <2>1, <2>2, <2>3 DEF ChainInv, OneOpen
  <2>4. OneOpen'
    BY <2>3 DEF OneOpen
  <2>5. OpenBehind'
    BY <1>1, <1>2, <2>1 DEF ChainInv, OpenBehind, Behind
  <2>6. QED
    BY <1>1, <1>3, <1>12, <2>4, <2>5
<1>15. QED
  BY <1>13, <1>14

\* As long as no operator has stepped in, every step keeps the chain single.
LEMMA ChainStep ==
    ASSUME ChainInv, [Next]_vars, gen' = 0
    PROVE  ChainInv'
<1>1. IInv /\ IInv' /\ TypeOK /\ TypeOK'
  BY CursorStep DEF ChainInv, IInv
<1>2. SUFFICES gen' = gen /\ RowsOK' /\ ChatSees' /\ OneOpen' /\ OpenBehind'
               /\ SweepSees'
  BY <1>1 DEF ChainInv
<1>3. CASE ChatLoad
  <2>1. UNCHANGED <<source, ingest, gen, jobs, sweep>>
        /\ chat'.source = source /\ chat'.ingest = ingest
    BY <1>3 DEF ChatLoad, cursors
  <2>2. QED
    BY <1>1, <2>1 DEF ChainInv, RowsOK, RowOK, OneOpen, OpenBehind, ChatSees,
                      SweepSees, Behind, TypeOK
<1>4. CASE ChatDerived \/ ChatRollback \/ SweepLost \/ HourPasses
           \/ UNCHANGED vars
  <2>1. UNCHANGED <<source, ingest, gen, jobs>>
        /\ (UNCHANGED chat \/ chat' = NoChat)
        /\ (UNCHANGED sweep \/ sweep' = NoSweep)
    BY <1>4 DEF ChatDerived, ChatRollback, SweepLost, HourPasses, vars, cursors
  <2>2. ChatSees' /\ SweepSees'
    BY <2>1 DEF ChainInv, ChatSees, SweepSees, Behind, NoChat, NoSweep
  <2>3. QED
    BY <2>1, <2>2 DEF ChainInv, RowsOK, RowOK, OneOpen, OpenBehind, Behind
<1>5. ~Reextract /\ ~Rollback
  <2>1. Reextract \/ Rollback => gen' = gen + 1
    BY DEF Reextract, Rollback
  <2>2. QED
    BY <2>1 DEF ChainInv
<1>6. QED
  BY <1>1, <1>3, <1>4, <1>5, AttemptChain, FinishChain, CommitChain,
     SweepReadChain, SweepApplyChain DEF Next, IngestStep

\* Operators only ever count up.
LEMMA GenGrows ==
    ASSUME TypeOK, [Next]_vars
    PROVE  gen' \in {gen, gen + 1}
<1>1. ASSUME NEW j \in jobs, IngestStep(j) \/ JudgeStep(j) \/ Fail(j) PROVE gen' = gen
  BY <1>1 DEF IngestStep, JudgeStep, StartIngest, CancelIngest, Extract, Halve, Register,
              FinishIngest, StartJudge, FinishJudge, Fail, cursors
<1>2. CASE \/ ChatLoad \/ ChatCommit \/ ChatDerived \/ ChatRollback
           \/ (\E b \in BOOLEAN : SweepRead(b) \/ SweepApply(b)) \/ SweepLost
           \/ HourPasses \/ UNCHANGED vars
  BY <1>2 DEF ChatLoad, ChatCommit, ChatDerived, ChatRollback, SweepRead, SweepApply,
              SweepLost, HourPasses, vars, cursors
<1>3. CASE Reextract \/ Rollback
  BY <1>3 DEF Reextract, Rollback
<1>4. QED
  BY <1>1, <1>2, <1>3 DEF Next

\* As long as no operator has stepped in, the invariant of the chain holds.
LEMMA ChainInvariant == Spec => [](gen = 0 => ChainInv)
<1> DEFINE Until == IInv /\ (gen = 0 => ChainInv)
<1>1. Init => Until
  <2>1. Init => gen = 0 /\ RowsOK /\ ChatSees /\ OneOpen /\ OpenBehind
                /\ SweepSees
    BY DEF Init, RowsOK, ChatSees, OneOpen, OpenBehind, SweepSees, NoChat,
           NoSweep
  <2>2. QED
    BY <2>1, InitCursors DEF ChainInv
<1>2. Until /\ [Next]_vars => Until'
  <2> SUFFICES ASSUME Until, [Next]_vars PROVE Until'
    OBVIOUS
  <2>1. IInv'
    BY CursorStep
  <2>2. gen' = 0 => gen = 0
    <3>1. gen' \in {gen, gen + 1} /\ gen \in Nat
      BY GenGrows DEF IInv, TypeOK
    <3>2. QED
      BY <3>1
  <2>3. gen' = 0 => ChainInv'
    BY <2>2, ChainStep
  <2>4. QED
    BY <2>1, <2>3
<1>3. QED
  BY <1>1, <1>2, PTL DEF Spec

\* As long as no operator has stepped in, a user has at most one live ingest
\* job, with any faults, replays, resumptions and concurrent turns
\* (enqueue_next_ingest).
THEOREM OneChain == Spec => []OneIngestUntilReset
<1>1. ChainInv => OneIngestAlive
  BY DEF ChainInv, OneOpen, OneIngestAlive, OpenIn, Alive
<1>2. (gen = 0 => ChainInv) => OneIngestUntilReset
  BY <1>1 DEF OneIngestUntilReset
<1>3. QED
  BY <1>2, ChainInvariant, PTL

\* As long as no operator has stepped in, a chain never needs a second key at a
\* cursor.
THEOREM OneKeyPerCursor == Spec => [](gen = 0 => ChainKeysSuffice)
<1>1. ChainInv => ChainKeysSuffice
  BY DEF ChainInv, RowsOK, RowOK, ChainKeysSuffice, IsIngest, IngestKinds
<1>2. (gen = 0 => ChainInv) => (gen = 0 => ChainKeysSuffice)
  BY <1>1
<1>3. QED
  BY <1>2, ChainInvariant, PTL

-----------------------------------------------------------------------------
(* Contracts: the largest of some numbers.                                  *)

LEMMA SmallestExists ==
    ASSUME NEW S \in SUBSET Nat, S # {}
    PROVE  \E m \in S : \A k \in S : m <= k
<1> DEFINE R == OpToRel(<, Nat)
<1>1. IsWellFoundedOn(R, Nat)
  BY NatLessThanWellFounded
<1>2. \A m, k \in Nat : m < k => <<m, k>> \in R
  BY DEF OpToRel
<1> HIDE DEF R
<1>3. \A Q, D : IsWellFoundedOn(Q, D)
                  => \A T : T \subseteq D /\ T # {} => \E x \in T : \A y \in T : ~(<<y, x>> \in Q)
  BY WFMin
<1>4. PICK m \in S : \A k \in S : ~(<<k, m>> \in R)
  BY <1>1, <1>3
<1>5. ASSUME NEW k \in S PROVE m <= k
  <2>1. ~(k < m)
    BY <1>2, <1>4
  <2>2. QED
    BY <2>1
<1>6. QED
  BY <1>5

\* A bounded set of numbers has a largest one, which is its Max.
LEMMA Largest ==
    ASSUME NEW S \in SUBSET Nat, S # {}, NEW b \in Nat, \A x \in S : x <= b
    PROVE  Max(S) \in S /\ \A x \in S : x <= Max(S)
<1> DEFINE D == {b - x : x \in S}
<1>1. D \in SUBSET Nat /\ D # {}
  <2>1. \A x \in S : b - x \in Nat
    OBVIOUS
  <2>2. QED
    BY <2>1
<1>2. PICK d \in D : \A k \in D : d <= k
  BY <1>1, SmallestExists
<1>3. PICK m \in S : d = b - m
  BY <1>2
<1>4. \A x \in S : m >= x
  <2> SUFFICES ASSUME NEW x \in S PROVE m >= x
    OBVIOUS
  <2>1. d <= b - x
    BY <1>2
  <2>2. QED
    BY <2>1, <1>3
<1>5. QED
  BY <1>4 DEF Max

LEMMA MaxIs ==
    ASSUME NEW S \in SUBSET Nat, NEW m \in S, \A x \in S : x <= m
    PROVE  Max(S) = m
<1>1. \A x \in S : m >= x
  OBVIOUS
<1>2. Max(S) \in S /\ \A x \in S : Max(S) >= x
  BY <1>1 DEF Max
<1>3. QED
  <2>1. Max(S) \in S /\ Max(S) >= m /\ Max(S) <= m
    BY <1>2
  <2>2. \A k \in Nat : k >= m /\ k <= m => k = m
    OBVIOUS
  <2>3. QED
    BY <2>1, <2>2

-----------------------------------------------------------------------------
(* Contracts: what a task carries.                                          *)

Item    == [src: Nat, ended: BOOLEAN]
TaskStates == {"ready", "running", "ok", "cancelled", "dead"}
Codes   == {"", "ok", "failed", "disabled", "already_processed", "source_changed"}
TaskKey == [kind: {"base", "after", "source", "redo", "skip", "resume", "fallback"},
            c: Nat, t: Nat, i: Nat, of: Nat]
Task    == [key: TaskKey, after: Nat, through: Nat, st: TaskStates, code: Codes, att: Nat,
            max: Int, depth: Nat, of: Nat, skip: BOOLEAN, part: Nat, items: Item,
            base: Item, fb: BOOLEAN, left: Int, cut: BOOLEAN, at: Nat, seen: Item]

\* An end after the start of the preference has ended it.
Covers(item, ends) == item.src # 0 /\ (\E e \in ends : e > item.src) => item.ended

\* The ends up to a message, and up to the first piece of one.
EndsBefore(m)  == {e \in 1..m : Message(e).says = "end"}
EndsThrough(m) == {e \in 1..m : Message(e).says = "end" /\ (e = m => Message(e).long = 1)}

\* What the first piece of a message said is put into the document it was read
\* beside; calm is that no rendering has become too large.
TaskSound(x, top, calm) ==
    /\ x \in Task /\ x.through <= top
    /\ x.skip => x.part = 0
    /\ x.part = 0 => x.items = Empty
    /\ x.part > 0 => /\ x.base.src < x.part
                     /\ x.items.src \in {x.base.src, x.part}
                     /\ calm => Covers(x.items, EndsThrough(x.part))
    /\ x.st = "running" => /\ x.at < x.through
                           /\ x.part > 0 => x.at + 1 = x.part /\ x.seen = x.base

Tasks(q, top, calm) == q \in Seq(Task) /\ \A i \in DOMAIN q : TaskSound(q[i], top, calm)

LEMMA EmptyIsItem == Empty \in Item /\ Empty.src = 0 /\ ~Empty.ended
  BY DEF Empty, Item

LEMMA Enqueued ==
    ASSUME NEW top \in Nat, NEW calm \in BOOLEAN, NEW q, Tasks(q, top, calm),
           NEW x, TaskSound(x, top, calm)
    PROVE  Tasks(With(q, x), top, calm) /\ DOMAIN q \subseteq DOMAIN With(q, x)
<1>1. CASE \E i \in DOMAIN q : q[i].key = x.key
  BY <1>1 DEF With
<1>2. CASE ~\E i \in DOMAIN q : q[i].key = x.key
  <2>1. With(q, x) = Append(q, x)
    BY <1>2 DEF With
  <2>2. x \in Task /\ q \in Seq(Task)
    BY DEF TaskSound, Tasks
  <2>3. /\ Append(q, x) \in Seq(Task) /\ DOMAIN Append(q, x) = 1..(Len(q) + 1)
        /\ DOMAIN q = 1..Len(q)
        /\ \A i \in 1..Len(q) : Append(q, x)[i] = q[i]
        /\ Append(q, x)[Len(q) + 1] = x /\ Len(q) \in Nat
    BY <2>2
  <2>4. \A i \in DOMAIN Append(q, x) : TaskSound(Append(q, x)[i], top, calm)
    <3> SUFFICES ASSUME NEW i \in 1..(Len(q) + 1)
                 PROVE  TaskSound(Append(q, x)[i], top, calm)
      BY <2>3
    <3>1. CASE i = Len(q) + 1
      BY <2>3, <3>1
    <3>2. CASE i \in 1..Len(q)
      BY <2>3, <3>2 DEF Tasks
    <3>3. QED
      BY <2>3, <3>1, <3>2
  <2>5. QED
    BY <2>1, <2>3, <2>4 DEF Tasks
<1>3. QED
  BY <1>1, <1>2

LEMMA Rewritten ==
    ASSUME NEW top \in Nat, NEW calm \in BOOLEAN, NEW q, Tasks(q, top, calm), NEW j \in DOMAIN q,
           NEW x, TaskSound(x, top, calm)
    PROVE  Tasks([q EXCEPT ![j] = x], top, calm) /\ DOMAIN [q EXCEPT ![j] = x] = DOMAIN q
<1>1. x \in Task /\ q \in Seq(Task)
  BY DEF TaskSound, Tasks
<1>2. [q EXCEPT ![j] = x] \in Seq(Task)
  BY <1>1
<1>3. ASSUME NEW i \in DOMAIN q PROVE TaskSound([q EXCEPT ![j] = x][i], top, calm)
  <2>1. [q EXCEPT ![j] = x][i] = IF i = j THEN x ELSE q[i]
    OBVIOUS
  <2>2. QED
    BY <2>1 DEF Tasks
<1>4. QED
  BY <1>2, <1>3 DEF Tasks

\* More messages, and a document that no longer fits, leave the tasks sound.
LEMMA StillSound ==
    ASSUME NEW q, NEW top \in Nat, NEW more \in Nat, top <= more,
           NEW calm \in BOOLEAN, NEW quiet \in BOOLEAN, quiet => calm, Tasks(q, top, calm)
    PROVE  Tasks(q, more, quiet)
<1>1. ASSUME NEW i \in DOMAIN q PROVE TaskSound(q[i], more, quiet)
  <2>1. TaskSound(q[i], top, calm)
    BY DEF Tasks
  <2>2. q[i].through <= more
    BY <2>1 DEF TaskSound, Task
  <2>3. QED
    BY <2>1, <2>2 DEF TaskSound
<1>2. QED
  BY <1>1 DEF Tasks

LEMMA FreshSound ==
    ASSUME NEW top \in Nat, NEW calm \in BOOLEAN, NEW key \in TaskKey, NEW c \in Nat, NEW t \in Nat,
           t <= top, NEW max \in Int
    PROVE  TaskSound(Fresh(key, c, t, max), top, calm)
<1> DEFINE x == Fresh(key, c, t, max)
<1>1. x \in Task
  BY EmptyIsItem DEF Fresh, Task, TaskStates, Codes
<1>2. /\ x.through = t /\ x.skip = FALSE /\ x.part = 0 /\ x.items = Empty /\ x.st = "ready"
  BY DEF Fresh
<1> HIDE DEF x
<1>3. ~(x.part > 0) /\ x.st # "running" /\ x.through <= top
  BY <1>2
<1>4. TaskSound(x, top, calm)
  BY <1>1, <1>2, <1>3 DEF TaskSound
<1>5. QED
  BY <1>4 DEF x

\* Any change of these fields: a row that begins to read is another matter.
LEMMA RecordSound ==
    ASSUME NEW top \in Nat, NEW calm \in BOOLEAN, NEW x, TaskSound(x, top, calm), NEW y \in Task,
           y.through = x.through, y.skip = x.skip, y.part = x.part, y.items = x.items,
           y.base = x.base, y.st = "running" => x.st = "running" /\ y.at = x.at /\ y.seen = x.seen
    PROVE  TaskSound(y, top, calm)
  BY DEF TaskSound

LEMMA ClosedSound ==
    ASSUME NEW top \in Nat, NEW calm \in BOOLEAN, Tasks(tasks, top, calm), NEW j \in Ids,
           NEW st \in {"ok", "cancelled", "dead"}, NEW code \in Codes
    PROVE  /\ Tasks(Closed(tasks, j, st, code), top, calm)
           /\ DOMAIN Closed(tasks, j, st, code) = Ids
<1> DEFINE x == tasks[j]
           y == [x EXCEPT !.st = st, !.code = code, !.cut = FALSE, !.at = 0,
                          !.seen = Empty, !.att = 0]
<1>1. TaskSound(x, top, calm) /\ x \in Task
  BY DEF Tasks, TaskSound, Ids
<1>2. y \in Task
  BY <1>1, EmptyIsItem DEF Task, TaskStates, Codes
<1>3. /\ y.through = x.through /\ y.skip = x.skip /\ y.part = x.part /\ y.items = x.items
      /\ y.base = x.base /\ y.st = st
  BY <1>1 DEF Task
<1>4. Closed(tasks, j, st, code) = [tasks EXCEPT ![j] = y]
  BY DEF Closed, Ids
<1> HIDE DEF x, y
<1>5. TaskSound(y, top, calm)
  BY <1>1, <1>2, <1>3, RecordSound
<1>6. j \in DOMAIN tasks
  BY DEF Ids
<1>7. /\ Tasks([tasks EXCEPT ![j] = y], top, calm)
      /\ DOMAIN [tasks EXCEPT ![j] = y] = DOMAIN tasks
  BY <1>5, <1>6, Rewritten
<1>8. QED
  BY <1>4, <1>7 DEF Ids

LEMMA CopySound ==
    ASSUME NEW top \in Nat, NEW calm \in BOOLEAN, Tasks(tasks, top, calm), NEW j \in Ids,
           NEW key \in TaskKey, NEW max \in Int
    PROVE  /\ TaskSound(Copy(j, key, max), top, calm)
           /\ Copy(j, key, max).st = "ready" /\ Copy(j, key, max) \in Task
<1> DEFINE x == tasks[j]
           y == [x EXCEPT !.key = key, !.st = "ready", !.code = "", !.att = 0, !.max = max,
                          !.cut = FALSE, !.at = 0, !.seen = Empty]
<1>1. TaskSound(x, top, calm) /\ x \in Task
  BY DEF Tasks, TaskSound, Ids
<1>2. y \in Task
  BY <1>1, EmptyIsItem DEF Task, TaskStates, Codes
<1>3. /\ y.through = x.through /\ y.skip = x.skip /\ y.part = x.part /\ y.items = x.items
      /\ y.base = x.base /\ y.st = "ready"
  BY <1>1 DEF Task
<1>4. Copy(j, key, max) = y
  BY DEF Copy
<1> HIDE DEF x, y
<1>5. TaskSound(y, top, calm)
  BY <1>1, <1>2, <1>3, RecordSound
<1>6. QED
  BY <1>2, <1>3, <1>4, <1>5

-----------------------------------------------------------------------------
(* Contracts: what is asked for.                                            *)

DoneOK == done \in Seq(Nat) /\ \A i \in DOMAIN done : done[i] \in Ids

LEMMA LastOf ==
    ASSUME DoneOK, NEW of \in SUBSET DOMAIN done, of # {}
    PROVE  Max(of) \in of
<1>1. of \in SUBSET Nat /\ Len(done) \in Nat /\ \A i \in of : i <= Len(done)
  BY DEF DoneOK
<1>2. QED
  BY <1>1, Largest

LEMMA LatestExists ==
    ASSUME DoneOK, NEW c, NEW t, LatestTerminal(c, t) # 0
    PROVE  LatestTerminal(c, t) \in Ids
<1> DEFINE of == {i \in DOMAIN done : Matches(done[i], c, t)}
<1>1. of # {} /\ LatestTerminal(c, t) = done[Max(of)]
  BY DEF LatestTerminal
<1>2. Max(of) \in of
  BY <1>1, LastOf
<1>3. QED
  BY <1>1, <1>2 DEF DoneOK

LEMMA ResumedExists ==
    ASSUME DoneOK, NEW c, NEW t, Resumable(c, t) # {}
    PROVE  done[Latest(Resumable(c, t))] \in Ids
<1> DEFINE of  == Resumable(c, t)
           cut == {i \in of : tasks[done[i]].part > 0}
<1>1. of \in SUBSET DOMAIN done /\ of # {}
  BY DEF Resumable
<1>2. cut \in SUBSET DOMAIN done
  BY <1>1
<1>3. Latest(of) = Max(IF cut = {} THEN of ELSE cut)
  BY DEF Latest
<1> HIDE DEF of, cut
<1>4. Latest(of) \in DOMAIN done
  BY <1>1, <1>2, <1>3, LastOf
<1>5. QED
  BY <1>4 DEF DoneOK, of

LEMMA RedoSound ==
    ASSUME NEW top \in Nat, NEW calm \in BOOLEAN, Tasks(tasks, top, calm), cursor \in Nat,
           NEW j \in Ids
    PROVE  TaskSound(Redo(j), top, calm)
<1> DEFINE spent == tasks[j].depth >= RedoMaxDepth
           key   == Key(IF spent THEN "skip" ELSE "redo", 0, 0, j, 0)
           x     == Fresh(key, cursor, tasks[j].through, Attempts)
           y     == [x EXCEPT !.depth = tasks[j].depth + 1, !.of = j, !.skip = spent]
<1>1. TaskSound(tasks[j], top, calm) /\ tasks[j] \in Task /\ j \in Nat
  BY DEF Tasks, TaskSound, Ids
<1>2. key \in TaskKey
  BY <1>1 DEF Key, TaskKey
<1>3. tasks[j].through \in Nat /\ tasks[j].through <= top /\ tasks[j].depth + 1 \in Nat
  BY <1>1 DEF TaskSound, Task
<1>4. Attempts \in Int /\ spent \in BOOLEAN
  BY ContractsAssumption
<1>5. TaskSound(x, top, calm) /\ x \in Task
  <2> HIDE DEF key
  <2>1. TaskSound(Fresh(key, cursor, tasks[j].through, Attempts), top, calm)
    BY <1>2, <1>3, <1>4, FreshSound
  <2>2. QED
    BY <2>1 DEF TaskSound
<1>6. x.part = 0 /\ x.st = "ready"
  BY DEF Fresh
<1>7. Redo(j) = y
  BY DEF Redo
<1> HIDE DEF x
<1>8. y \in Task
  BY <1>1, <1>3, <1>4, <1>5 DEF Task
<1>9. /\ y.through = x.through /\ y.part = x.part /\ y.items = x.items
      /\ y.base = x.base /\ y.st = x.st
  BY <1>5 DEF Task
<1> HIDE DEF y
<1>10. ~(y.part > 0) /\ y.st # "running" /\ y.part = 0
  BY <1>6, <1>9
<1>11. TaskSound(y, top, calm)
  BY <1>5, <1>8, <1>9, <1>10 DEF TaskSound
<1>12. QED
  BY <1>7, <1>11

LEMMA AskedSound ==
    ASSUME NEW top \in Nat, NEW calm \in BOOLEAN, Tasks(tasks, top, calm), DoneOK,
           cursor \in Nat, NEW t \in Nat, t <= top
    PROVE  Tasks(Asked(t), top, calm) /\ Ids \subseteq DOMAIN Asked(t)
<1> DEFINE last == LatestTerminal(cursor, t)
           base == Key("base", cursor, t, 0, 0)
           kept == Resumable(cursor, t)
           j    == done[Latest(kept)]
           copy == [Copy(j, Key("resume", 0, 0, j, 0), Attempts) EXCEPT !.after = cursor]
<1>1. \/ Asked(t) = tasks
      \/ Asked(t) = With(tasks, Fresh(base, cursor, t, Attempts))
      \/ last # 0 /\ Asked(t) = With(tasks, Redo(last))
      \/ kept # {} /\ Asked(t) = With(tasks, copy)
  BY DEF Asked
<1>2. Attempts \in Int
  BY ContractsAssumption
<1>3. TaskSound(Fresh(base, cursor, t, Attempts), top, calm)
  <2>1. base \in TaskKey
    BY DEF Key, TaskKey
  <2>2. QED
    BY <1>2, <2>1, FreshSound
<1>4. last # 0 => TaskSound(Redo(last), top, calm)
  BY LatestExists, RedoSound
<1>5. ASSUME kept # {} PROVE TaskSound(copy, top, calm)
  <2>1. j \in Ids /\ j \in Nat
    BY <1>5, ResumedExists DEF Ids, Tasks
  <2> DEFINE x == Copy(j, Key("resume", 0, 0, j, 0), Attempts)
  <2>2. TaskSound(x, top, calm) /\ x.st = "ready" /\ x \in Task
    <3>1. Key("resume", 0, 0, j, 0) \in TaskKey
      BY <2>1 DEF Key, TaskKey
    <3>2. QED
      BY <1>2, <2>1, <3>1, CopySound
  <2> HIDE DEF x
  <2>3. /\ [x EXCEPT !.after = cursor] \in Task
        /\ [x EXCEPT !.after = cursor].through = x.through
        /\ [x EXCEPT !.after = cursor].skip = x.skip
        /\ [x EXCEPT !.after = cursor].part = x.part
        /\ [x EXCEPT !.after = cursor].items = x.items
        /\ [x EXCEPT !.after = cursor].base = x.base
        /\ [x EXCEPT !.after = cursor].st = "ready"
    BY <2>2 DEF Task
  <2>4. TaskSound([x EXCEPT !.after = cursor], top, calm)
    BY <2>2, <2>3, RecordSound
  <2>5. QED
    BY <2>4 DEF x
<1> HIDE DEF last, base, kept, copy
<1>6. QED
  BY <1>1, <1>3, <1>4, <1>5, Enqueued DEF Ids

-----------------------------------------------------------------------------
(* Contracts: the rows that follow a finished one.                          *)

LEMMA FollowSound ==
    ASSUME NEW top \in Nat, NEW calm \in BOOLEAN, Tasks(tasks, top, calm), NEW j \in Ids,
           NEW key \in TaskKey, NEW after \in Nat
    PROVE  /\ Follow(j, key, after) \in Task /\ TaskSound(Follow(j, key, after), top, calm)
           /\ Follow(j, key, after).st = "ready"
           /\ Follow(j, key, after).through = tasks[j].through
           /\ Follow(j, key, after).skip = tasks[j].skip
<1> DEFINE max == IF tasks[j].fb THEN Left(j) ELSE Attempts
           x   == Copy(j, key, max)
           l   == IF tasks[j].fb THEN max ELSE 0
           y   == [x EXCEPT !.after = after, !.left = l]
<1>1. tasks[j] \in Task
  BY DEF Tasks, TaskSound, Ids
<1>2. max \in Int
  BY <1>1, ContractsAssumption DEF Left, Task
<1>3. x \in Task /\ TaskSound(x, top, calm) /\ x.st = "ready"
  <2> HIDE DEF max
  <2>1. QED
    BY <1>2, CopySound
<1>4. x.through = tasks[j].through /\ x.skip = tasks[j].skip
  BY <1>1 DEF Copy, Task
<1>5. Follow(j, key, after) = y
  BY DEF Follow
<1> HIDE DEF x, max
<1>9. l \in Int
  BY <1>2
<1> HIDE DEF l
<1>6. /\ y \in Task /\ y.through = x.through /\ y.skip = x.skip /\ y.part = x.part
      /\ y.items = x.items /\ y.base = x.base /\ y.st = x.st
  BY <1>3, <1>9 DEF Task
<1> HIDE DEF y
<1>7. TaskSound(y, top, calm)
  BY <1>3, <1>6, RecordSound
<1>8. QED
  BY <1>3, <1>4, <1>5, <1>6, <1>7

\* A row with nothing of a first piece.
LEMMA ClearedSound ==
    ASSUME NEW top \in Nat, NEW calm \in BOOLEAN, NEW x \in Task, TaskSound(x, top, calm),
           x.st = "ready"
    PROVE  TaskSound([x EXCEPT !.part = 0, !.items = Empty, !.base = Empty], top, calm)
<1> DEFINE y == [x EXCEPT !.part = 0, !.items = Empty, !.base = Empty]
<1>1. /\ y \in Task /\ y.through = x.through /\ y.part = 0
      /\ y.items = Empty /\ y.st = "ready"
  BY EmptyIsItem DEF Task
<1> HIDE DEF y
<1>2. ~(y.part > 0) /\ y.st # "running"
  BY <1>1
<1>3. TaskSound(y, top, calm)
  BY <1>1, <1>2 DEF TaskSound
<1>4. QED
  BY <1>3 DEF y

LEMMA RestartedSound ==
    ASSUME NEW top \in Nat, NEW calm \in BOOLEAN, Tasks(tasks, top, calm), NEW j \in Ids,
           cursor \in Nat
    PROVE  TaskSound(Restarted(j), top, calm)
<1> DEFINE key == Key("after", cursor, tasks[j].through, j, 0)
<1>1. key \in TaskKey
  <2>1. j \in Nat /\ tasks[j] \in Task
    BY DEF Tasks, TaskSound, Ids
  <2>2. QED
    BY <2>1 DEF Key, TaskKey, Task
<1> HIDE DEF key
<1>2. /\ Follow(j, key, cursor) \in Task /\ TaskSound(Follow(j, key, cursor), top, calm)
      /\ Follow(j, key, cursor).st = "ready"
  BY <1>1, FollowSound
<1>3. QED
  BY <1>2, ClearedSound DEF Restarted, key

LEMMA PageSound ==
    ASSUME NEW top \in Nat, NEW calm \in BOOLEAN, Tasks(tasks, top, calm), NEW j \in Ids,
           NEW boundary \in Nat
    PROVE  TaskSound(Page(j, boundary), top, calm)
<1> DEFINE key == Key("base", boundary, tasks[j].through, IF tasks[j].skip THEN 1 ELSE 0,
                      tasks[j].of)
<1>1. key \in TaskKey
  BY DEF Key, TaskKey, Tasks, TaskSound, Task, Ids
<1> HIDE DEF key
<1>2. /\ Follow(j, key, boundary) \in Task /\ TaskSound(Follow(j, key, boundary), top, calm)
      /\ Follow(j, key, boundary).st = "ready"
  BY <1>1, FollowSound
<1>3. QED
  BY <1>2, ClearedSound DEF Page, key

LEMMA PieceSound ==
    ASSUME NEW top \in Nat, NEW calm \in BOOLEAN, Tasks(tasks, top, calm), NEW j \in Ids,
           ~tasks[j].skip, NEW items \in Item,
           tasks[j].seen.src < tasks[j].at + 1,
           items.src \in {tasks[j].seen.src, tasks[j].at + 1},
           calm => Covers(items, EndsThrough(tasks[j].at + 1))
    PROVE  TaskSound(Piece(j, items), top, calm)
<1> DEFINE first == tasks[j].at + 1
           key   == Key("source", tasks[j].at, tasks[j].through, first, tasks[j].of)
           x     == Follow(j, key, tasks[j].after)
           y     == [x EXCEPT !.part = first, !.items = items, !.base = tasks[j].seen]
<1>1. tasks[j] \in Task
  BY DEF Tasks, TaskSound, Ids
<1>2. tasks[j].seen \in Item /\ first \in Nat /\ first > 0 /\ tasks[j].after \in Nat
  BY <1>1 DEF Task
<1>3. key \in TaskKey
  BY <1>1, <1>2 DEF Key, TaskKey, Task
<1>4. Piece(j, items) = y
  BY DEF Piece
<1> HIDE DEF key
<1>5. /\ x \in Task /\ TaskSound(x, top, calm) /\ x.st = "ready"
      /\ x.through = tasks[j].through /\ x.skip = tasks[j].skip
  BY <1>2, <1>3, FollowSound
<1> HIDE DEF x
<1>6. /\ y \in Task /\ y.through = x.through /\ y.skip = x.skip /\ y.part = first
      /\ y.items = items /\ y.base = tasks[j].seen /\ y.st = "ready"
  BY <1>2, <1>5 DEF Task
<1> HIDE DEF y
<1>7. y.through <= top /\ ~y.skip /\ y.part # 0
  BY <1>2, <1>5, <1>6 DEF TaskSound
<1>8. /\ y.part > 0 /\ y.base.src < y.part /\ y.items.src \in {y.base.src, y.part}
      /\ calm => Covers(y.items, EndsThrough(y.part))
  BY <1>2, <1>6
<1>9. TaskSound(y, top, calm)
  BY <1>6, <1>7, <1>8 DEF TaskSound
<1>10. QED
  BY <1>4, <1>9

-----------------------------------------------------------------------------
(* Contracts: what a batch makes of the document.                           *)

LEMMA MergedIs ==
    ASSUME NEW work \in Item, NEW ends, NEW said \in SUBSET Nat,
           NEW b \in Nat, \A x \in said : x <= b
    PROVE  /\ Merged(work, ends, said) \in Item
           /\ said = {} => Merged(work, ends, said).src = work.src
           /\ said # {} => Merged(work, ends, said).src = Max(said) /\ Max(said) \in said
                           /\ \A x \in said : x <= Max(said)
<1>1. said # {} => Max(said) \in said /\ \A x \in said : x <= Max(said)
  BY Largest
<1> DEFINE item == IF said # {} THEN [src |-> Max(said), ended |-> FALSE] ELSE work
<1>2. item \in Item /\ (said = {} => item.src = work.src) /\ (said # {} => item.src = Max(said))
  <2>1. CASE said = {}
    BY <2>1
  <2>2. CASE said # {}
    <3>1. Max(said) \in Nat /\ item = [src |-> Max(said), ended |-> FALSE]
      BY <1>1, <2>2
    <3>2. QED
      BY <2>2, <3>1 DEF Item
  <2>3. QED
    BY <2>1, <2>2
<1>3. Merged(work, ends, said)
        = [item EXCEPT !.ended = @ \/ (item.src # 0 /\ \E e \in ends : e > item.src)]
  BY DEF Merged
<1> HIDE DEF item
<1>4. /\ [item EXCEPT !.ended = @ \/ (item.src # 0 /\ \E e \in ends : e > item.src)] \in Item
      /\ [item EXCEPT !.ended = @ \/ (item.src # 0 /\ \E e \in ends : e > item.src)].src
           = item.src
  BY <1>2 DEF Item
<1>5. QED
  BY <1>1, <1>2, <1>3, <1>4

\* Starts that are not before the ends that were covered.
LEMMA MergedCovers ==
    ASSUME NEW work \in Item, NEW known \in SUBSET Nat, Covers(work, known),
           NEW ends \in SUBSET Nat, NEW said \in SUBSET Nat, NEW b \in Nat,
           \A x \in said : x <= b /\ \A e \in known : e <= x
    PROVE  Covers(Merged(work, ends, said), known \cup ends)
<1> DEFINE item == IF said # {} THEN [src |-> Max(said), ended |-> FALSE] ELSE work
           new  == Merged(work, ends, said)
<1>1. said # {} => Max(said) \in said
  BY Largest
<1>2. item \in Item
  BY <1>1 DEF Item
<1>3. new = [item EXCEPT !.ended = @ \/ (item.src # 0 /\ \E e \in ends : e > item.src)]
  BY DEF Merged
<1>4. Covers(item, known)
  <2>1. CASE said = {}
    BY <2>1
  <2>2. CASE said # {}
    <3>1. item.src = Max(said) /\ Max(said) \in Nat
      BY <1>1, <2>2
    <3>2. \A e \in known : e <= item.src
      BY <1>1, <2>2, <3>1
    <3>3. ~\E e \in known : e > item.src
      BY <3>1, <3>2
    <3>4. QED
      BY <3>3 DEF Covers
  <2>3. QED
    BY <2>1, <2>2
<1> HIDE DEF item, new
<1>5. /\ new.src = item.src
      /\ new.ended = (item.ended \/ (item.src # 0 /\ \E e \in ends : e > item.src))
  BY <1>2, <1>3 DEF Item
<1>6. Covers(new, known \cup ends)
  BY <1>4, <1>5 DEF Covers
<1>7. QED
  BY <1>6 DEF new

LEMMA BatchIs ==
    ASSUME NEW j, tasks[j] \in Task, tasks[j].at < tasks[j].through, NEW batch \in Batches(j)
    PROVE  \E m \in Nat : /\ tasks[j].at < m /\ m <= tasks[j].through
                          /\ batch = tasks[j].at + 1 .. m /\ Max(batch) = m
                          /\ \/ \A q \in batch : Whole(j, q)
                             \/ m = tasks[j].at + 1 /\ ~Whole(j, m)
<1> DEFINE at == tasks[j].at
           to == tasks[j].through
           m  == IF to <= at + PageRows THEN to ELSE at + PageRows
<1>1. at \in Nat /\ to \in Nat /\ at + 1 \in Nat
  BY DEF Task
<1>2. PageRows \in Nat /\ PageRows > 0
  BY ContractsAssumption
<1>3. Rows(j) = at + 1 .. m /\ m \in Nat /\ at < m /\ m <= to
  BY <1>1, <1>2 DEF Rows
<1>4. \A k \in Nat : at < k => Max(at + 1 .. k) = k
  <2> SUFFICES ASSUME NEW k \in Nat, at < k PROVE Max(at + 1 .. k) = k
    OBVIOUS
  <2>1. at + 1 .. k \in SUBSET Nat /\ k \in at + 1 .. k /\ \A x \in at + 1 .. k : x <= k
    BY <1>1
  <2>2. QED
    BY <2>1, MaxIs
<1>5. CASE tasks[j].skip
  <2>1. batch = at + 1 .. m
    BY <1>3, <1>5 DEF Batches
  <2>2. \A q \in batch : Whole(j, q)
    BY <1>5 DEF Whole
  <2>3. QED
    BY <1>3, <1>4, <2>1, <2>2
<1>6. CASE ~tasks[j].skip /\ ~Whole(j, at + 1)
  <2>1. batch = {at + 1}
    BY <1>6 DEF Batches
  <2>2. batch = at + 1 .. at + 1
    BY <1>1, <2>1
  <2>3. at < at + 1 /\ at + 1 <= to
    BY <1>1
  <2>4. QED
    BY <1>1, <1>4, <1>6, <2>2, <2>3
<1>7. CASE ~tasks[j].skip /\ Whole(j, at + 1)
  <2>1. PICK k \in Rows(j) : batch = at + 1 .. k /\ \A q \in at + 1 .. k : Whole(j, q)
    BY <1>7 DEF Batches
  <2>2. k \in Nat /\ at < k /\ k <= to
    BY <1>1, <1>3, <2>1
  <2>3. QED
    BY <1>4, <2>1, <2>2
<1>8. QED
  BY <1>5, <1>6, <1>7

-----------------------------------------------------------------------------
(* Contracts: the invariant.                                                *)

\* The document holds the newest start that was heard, and no start that an
\* end up to the cursor has ended.
DocSound ==
    /\ cursor \in Nat /\ n \in Nat /\ cursor <= n /\ n <= Len(script.says)
    /\ doc \in Item /\ doc.src <= cursor
    /\ heard \subseteq Nat /\ doc.src \in heard \cup {0} /\ \A h \in heard : h <= doc.src
    /\ switches \in Nat
    /\ switches = 0 => ~over /\ Covers(doc, EndsBefore(cursor))

ContractInv ==
    /\ script \in Scripts
    /\ Tasks(tasks, n, switches = 0)
    /\ DoneOK
    /\ DocSound

LEMMA RowsKeep ==
    ASSUME ContractInv, UNCHANGED <<script, n, switches>>,
           Tasks(tasks', n, switches = 0), DOMAIN tasks \subseteq DOMAIN tasks',
           done' = done \/ \E j \in Ids : done' = Append(done, j)
    PROVE  Tasks(tasks, n, switches = 0)' /\ DoneOK' /\ (script \in Scripts)'
<1>1. Tasks(tasks', n', switches' = 0)
  OBVIOUS
<1>2. Tasks(tasks, n, switches = 0)'
  BY <1>1 DEF Tasks, TaskSound, Covers, EndsThrough, Message
<1>3. DoneOK'
  <2>1. DoneOK /\ Ids \subseteq Nat
    BY DEF ContractInv, Ids, Tasks
  <2>2. CASE done' = done
    BY <2>1, <2>2 DEF DoneOK, Ids
  <2>3. ASSUME NEW j \in Ids, done' = Append(done, j) PROVE DoneOK'
    <3>1. /\ done' \in Seq(Nat) /\ DOMAIN done' = 1..(Len(done) + 1)
          /\ \A i \in 1..Len(done) : done'[i] = done[i]
          /\ done'[Len(done) + 1] = j
      BY <2>1, <2>3 DEF DoneOK
    <3>2. \A i \in DOMAIN done' : done'[i] \in DOMAIN tasks
      <4> SUFFICES ASSUME NEW i \in 1..(Len(done) + 1) PROVE done'[i] \in DOMAIN tasks
        BY <3>1
      <4>1. CASE i = Len(done) + 1
        BY <3>1, <4>1 DEF Ids
      <4>2. CASE i \in 1..Len(done)
        BY <2>1, <3>1, <4>2 DEF DoneOK, Ids
      <4>3. QED
        BY <2>1, <4>1, <4>2 DEF DoneOK
    <3>3. QED
      BY <3>1, <3>2 DEF DoneOK, Ids
  <2>4. QED
    BY <2>2, <2>3
<1>4. QED
  BY <1>2, <1>3 DEF ContractInv

Steady == UNCHANGED <<script, n, over, switches, cursor, doc, heard>>

LEMMA SteadyKeeps ==
    ASSUME ContractInv, Steady, Tasks(tasks', n, switches = 0), DOMAIN tasks \subseteq DOMAIN tasks',
           done' = done \/ \E j \in Ids : done' = Append(done, j)
    PROVE  ContractInv'
<1>1. DocSound'
  BY DEF ContractInv, DocSound, Covers, EndsBefore, Message, Steady
<1>2. QED
  BY <1>1, RowsKeep DEF ContractInv, Steady

LEMMA ContractInvInit == ContractInit => ContractInv
<1> SUFFICES ASSUME ContractInit PROVE ContractInv
  OBVIOUS
<1>1. tasks = << >> /\ done = << >> /\ n = 0 /\ cursor = 0 /\ doc = Empty /\ heard = {}
      /\ switches = 0 /\ ~over /\ script \in Scripts
  BY DEF ContractInit
<1>2. Tasks(tasks, n, switches = 0) /\ DoneOK
  BY <1>1 DEF Tasks, DoneOK
<1>3. 0 <= Len(script.says)
  BY <1>1, ScriptAssumption
<1>4. EndsBefore(cursor) = {}
  BY <1>1 DEF EndsBefore
<1>5. DocSound
  BY <1>1, <1>3, <1>4, EmptyIsItem DEF DocSound, Covers
<1>6. QED
  BY <1>1, <1>2, <1>5 DEF ContractInv

-----------------------------------------------------------------------------
(* Contracts: the steps that publish nothing.                               *)

LEMMA AskKeeps == ContractInv /\ Ask => ContractInv'
<1> SUFFICES ASSUME ContractInv, Ask PROVE ContractInv'
  OBVIOUS
<1>1. script.want \in Nat
  BY ScriptAssumption DEF ContractInv
<1>2. Tasks(Asked(script.want), n, switches = 0) /\ Ids \subseteq DOMAIN Asked(script.want)
  BY <1>1, AskedSound DEF ContractInv, DocSound, Ask
<1>3. QED
  BY <1>2, SteadyKeeps DEF Ask, Steady, Ids

LEMMA BeginKeeps ==
    ASSUME ContractInv, NEW j \in Ids, Begin(j)
    PROVE  ContractInv'
<1>1. /\ tasks[j] \in Task /\ TaskSound(tasks[j], n, switches = 0) /\ tasks \in Seq(Task)
      /\ n \in Nat /\ cursor \in Nat /\ doc \in Item
  BY DEF ContractInv, Tasks, TaskSound, Ids, DocSound
<1> DEFINE calm == switches = 0
<1>0. Tasks(tasks, n, calm) /\ calm \in BOOLEAN
  BY DEF ContractInv
<1>2. ASSUME NEW st \in {"ok", "cancelled", "dead"}, NEW code \in Codes,
             tasks' = Closed(tasks, j, st, code), done' = Append(done, j)
      PROVE  ContractInv'
  <2>1. /\ Tasks(Closed(tasks, j, st, code), n, switches = 0)
        /\ DOMAIN Closed(tasks, j, st, code) = Ids
    <3> HIDE DEF calm
    <3>1. /\ Tasks(Closed(tasks, j, st, code), n, calm)
          /\ DOMAIN Closed(tasks, j, st, code) = Ids
      BY <1>0, <1>1, ClosedSound
    <3>2. QED
      BY <3>1 DEF calm
  <2>2. Tasks(tasks', n, switches = 0) /\ DOMAIN tasks \subseteq DOMAIN tasks'
    BY <1>2, <2>1 DEF Ids
  <2>3. QED
    BY <1>2, <2>2, SteadyKeeps DEF Begin, Steady
<1>3. ASSUME tasks' = Started(j), done' = done, cursor < tasks[j].through,
             ~(tasks[j].part > 0 /\ (cursor + 1 # tasks[j].part \/ doc # tasks[j].base))
      PROVE  ContractInv'
  <2> DEFINE x == tasks[j]
             l == IF x.fb THEN x.left - 1 ELSE x.left
             y == [x EXCEPT !.st = "running", !.att = @ + 1, !.at = cursor, !.seen = doc,
                            !.left = l]
  <2>1. x.att + 1 \in Nat /\ l \in Int
    <3>1. x.att \in Nat /\ x.left \in Int
      BY <1>1 DEF Task
    <3> HIDE DEF x
    <3>2. QED
      BY <3>1
  <2>2. Started(j) = [tasks EXCEPT ![j] = y]
    BY <1>1 DEF Started, Ids
  <2> HIDE DEF l
  <2>3. /\ y \in Task /\ y.through = x.through /\ y.skip = x.skip /\ y.part = x.part
        /\ y.items = x.items /\ y.base = x.base /\ y.st = "running" /\ y.at = cursor /\ y.seen = doc
    BY <1>1, <2>1 DEF Task, TaskStates
  <2> HIDE DEF y
  <2>4. TaskSound(y, n, switches = 0)
    <3>1. y.at < y.through /\ (y.part > 0 => y.at + 1 = y.part /\ y.seen = y.base)
      BY <1>3, <2>3
    <3>2. QED
      BY <1>1, <2>3, <3>1 DEF TaskSound
  <2>5. /\ Tasks([tasks EXCEPT ![j] = y], n, switches = 0)
        /\ DOMAIN [tasks EXCEPT ![j] = y] = DOMAIN tasks
    BY <2>4, Rewritten DEF ContractInv, DocSound, Ids
  <2>6. QED
    BY <1>3, <2>2, <2>5, SteadyKeeps DEF Begin, Steady
<1>4. /\ \A st, code : st \in {"ok", "cancelled", "dead"} /\ code \in Codes
                       /\ tasks' = Closed(tasks, j, st, code) /\ done' = Append(done, j)
                         => ContractInv'
      /\ {"failed", "disabled", "already_processed", "source_changed"} \subseteq Codes
  BY <1>2 DEF Codes
<1>5. \/ \E st \in {"ok", "cancelled", "dead"} :
            \E code \in {"failed", "disabled", "already_processed", "source_changed"} :
                tasks' = Closed(tasks, j, st, code) /\ done' = Append(done, j)
      \/ /\ tasks' = Started(j) /\ done' = done /\ ~(cursor >= tasks[j].through)
         /\ ~(tasks[j].part > 0 /\ (cursor + 1 # tasks[j].part \/ doc # tasks[j].base))
  BY DEF Begin
<1>6. ~(cursor >= tasks[j].through) => cursor < tasks[j].through
  BY <1>1 DEF Task, ContractInv, DocSound
<1>7. QED
  BY <1>3, <1>4, <1>5, <1>6

LEMMA TruncatedKeeps ==
    ASSUME ContractInv, NEW j \in Ids, Truncated(j)
    PROVE  ContractInv'
<1> DEFINE x == tasks[j]
           y == [x EXCEPT !.fb = TRUE, !.left = x.max - x.att, !.cut = TRUE]
<1>1. x \in Task /\ TaskSound(x, n, switches = 0) /\ tasks \in Seq(Task)
  BY DEF ContractInv, Tasks, TaskSound, Ids
<1>2. x.max - x.att \in Int
  BY <1>1 DEF Task
<1>3. tasks' = [tasks EXCEPT ![j] = y]
  BY <1>1 DEF Truncated, Ids
<1>4. /\ y \in Task /\ y.through = x.through /\ y.skip = x.skip /\ y.part = x.part
      /\ y.items = x.items /\ y.base = x.base /\ y.st = x.st /\ y.at = x.at /\ y.seen = x.seen
  BY <1>1, <1>2 DEF Task
<1> HIDE DEF x, y
<1>5. n \in Nat
  BY DEF ContractInv, DocSound
<1>6. TaskSound(y, n, switches = 0)
  BY <1>1, <1>4, <1>5, RecordSound
<1>7. /\ Tasks([tasks EXCEPT ![j] = y], n, switches = 0)
      /\ DOMAIN [tasks EXCEPT ![j] = y] = DOMAIN tasks
  BY <1>5, <1>6, Rewritten DEF ContractInv, Ids
<1>8. QED
  BY <1>3, <1>7, SteadyKeeps DEF Truncated, Steady

LEMMA FailsKeeps ==
    ASSUME ContractInv, NEW j \in Ids, Fails(j)
    PROVE  ContractInv'
<1> DEFINE x == tasks[j]
           y == [x EXCEPT !.st = "ready", !.cut = FALSE, !.at = 0, !.seen = Empty]
<1>1. x \in Task /\ TaskSound(x, n, switches = 0) /\ tasks \in Seq(Task) /\ n \in Nat
  BY DEF ContractInv, Tasks, TaskSound, Ids, DocSound
<1>2. CASE tasks' = Closed(tasks, j, "dead", "failed") /\ done' = Append(done, j)
  <2>1. /\ Tasks(Closed(tasks, j, "dead", "failed"), n, switches = 0)
        /\ DOMAIN Closed(tasks, j, "dead", "failed") = Ids
    BY <1>1, ClosedSound DEF ContractInv, Codes
  <2>2. QED
    BY <1>2, <2>1, SteadyKeeps DEF Fails, Steady, Ids
<1>3. CASE /\ tasks' = [tasks EXCEPT ![j].st = "ready", ![j].cut = FALSE, ![j].at = 0,
                                     ![j].seen = Empty]
           /\ done' = done
  <2>1. tasks' = [tasks EXCEPT ![j] = y]
    BY <1>1, <1>3 DEF Ids
  <2>2. /\ y \in Task /\ y.through = x.through /\ y.skip = x.skip /\ y.part = x.part
        /\ y.items = x.items /\ y.base = x.base /\ y.st = "ready"
    BY <1>1, EmptyIsItem DEF Task, TaskStates
  <2> HIDE DEF x, y
  <2>3. TaskSound(y, n, switches = 0)
    BY <1>1, <2>2, RecordSound
  <2>4. /\ Tasks([tasks EXCEPT ![j] = y], n, switches = 0)
        /\ DOMAIN [tasks EXCEPT ![j] = y] = DOMAIN tasks
    BY <1>1, <2>3, Rewritten DEF ContractInv, Ids
  <2>5. QED
    BY <1>3, <2>1, <2>4, SteadyKeeps DEF Fails, Steady
<1>4. QED
  BY <1>2, <1>3 DEF Fails, Failed

-----------------------------------------------------------------------------
(* Contracts: publication.                                                  *)

\* What the document a task works on already covers: the ends before the
\* batch, and those of the first piece if this is the second.
Known(j) == IF tasks[j].part > 0 THEN EndsThrough(tasks[j].at + 1)
            ELSE EndsBefore(tasks[j].at)

\* A task that runs on what is still current.
Fits(j) == tasks[j].st = "running" /\ ~Moved(j)

LEMMA WorkingOn ==
    ASSUME ContractInv, NEW j \in Ids, Fits(j)
    PROVE  /\ tasks[j] \in Task /\ tasks[j].at < tasks[j].through /\ tasks[j].through <= n
           /\ cursor = tasks[j].at /\ doc = tasks[j].seen
           /\ Working(j) \in Item
           /\ tasks[j].part = 0 => Working(j).src = doc.src /\ tasks[j].items.src = 0
           /\ tasks[j].part > 0 => /\ tasks[j].part = tasks[j].at + 1
                                   /\ tasks[j].items = Working(j)
           /\ Working(j).src \in {doc.src, tasks[j].at + 1}
           /\ tasks[j].skip => tasks[j].part = 0
           /\ switches = 0 => Covers(Working(j), Known(j))
<1> DEFINE x == tasks[j]
<1>1. x \in Task /\ TaskSound(x, n, switches = 0)
  BY DEF ContractInv, Tasks, TaskSound, Ids
<1>2. x.st = "running" /\ cursor = x.at /\ doc = x.seen
  BY DEF Fits, Moved
<1>3. /\ x.at < x.through /\ x.through <= n /\ (x.skip => x.part = 0)
      /\ x.part = 0 => x.items = Empty
      /\ x.part > 0 => /\ x.at + 1 = x.part /\ x.seen = x.base
                       /\ x.items.src \in {x.base.src, x.part}
                       /\ switches = 0 => Covers(x.items, EndsThrough(x.part))
  BY <1>1, <1>2 DEF TaskSound
<1>4. doc \in Item /\ (switches = 0 => Covers(doc, EndsBefore(cursor)))
  BY DEF ContractInv, DocSound
<1>5. x.part \in Nat /\ x.items \in Item
  BY <1>1 DEF Task
<1>6. Working(j) = IF x.part > 0 THEN x.items ELSE x.seen
  BY DEF Working
<1>7. Known(j) = IF x.part > 0 THEN EndsThrough(x.at + 1) ELSE EndsBefore(x.at)
  BY DEF Known
<1> HIDE DEF x
<1>8. CASE x.part > 0
  BY <1>1, <1>2, <1>3, <1>4, <1>5, <1>6, <1>7, <1>8 DEF x
<1>9. CASE x.part = 0
  BY <1>1, <1>2, <1>3, <1>4, <1>5, <1>6, <1>7, <1>9, EmptyIsItem DEF x
<1>10. QED
  BY <1>5, <1>8, <1>9

\* A piece, or a batch of whole messages, leaves no end of it aside.
LEMMA EndsRead ==
    ASSUME ContractInv, NEW j \in Ids, Fits(j), NEW batch \in Batches(j)
    PROVE  /\ Partial(j) => /\ batch = {tasks[j].at + 1} /\ ~tasks[j].skip /\ tasks[j].part = 0
                            /\ EndsThrough(tasks[j].at + 1) \subseteq Known(j) \cup Says(j, batch, "end")
           /\ ~Partial(j) => EndsBefore(Max(batch)) \subseteq Known(j) \cup Says(j, batch, "end")
<1> DEFINE at == tasks[j].at
<1>1. /\ tasks[j] \in Task /\ at < tasks[j].through /\ tasks[j].through <= n
      /\ tasks[j].part > 0 => tasks[j].part = at + 1
  BY WorkingOn
<1>2. at \in Nat /\ tasks[j].part \in Nat /\ tasks[j].through \in Nat /\ at + 1 \in Nat
  BY <1>1 DEF Task
<1>3. PICK m \in Nat : /\ at < m /\ m <= tasks[j].through
                       /\ batch = at + 1 .. m /\ Max(batch) = m
                       /\ \/ \A q \in batch : Whole(j, q)
                          \/ m = at + 1 /\ ~Whole(j, m)
  BY <1>1, BatchIs
<1>4. at + 1 \in batch
  BY <1>2, <1>3
<1>5. \A e \in batch : Message(e).long \in 0..2
  <2> SUFFICES ASSUME NEW e \in batch PROVE Message(e).long \in 0..2
    OBVIOUS
  <2>1. n \in Nat /\ n <= Len(script.says) /\ script \in Scripts
    BY DEF ContractInv, DocSound
  <2>2. script.says \in Seq([says: {"start", "end", "nothing"}, long: 0..2, asks: BOOLEAN])
    BY <2>1, ScriptAssumption
  <2>3. e \in 1..Len(script.says)
    BY <1>1, <1>2, <1>3, <2>1, <2>2
  <2>4. \A T, q : q \in Seq(T) /\ e \in 1..Len(q) => q[e] \in T
    OBVIOUS
  <2>5. script.says[e] \in [says: {"start", "end", "nothing"}, long: 0..2, asks: BOOLEAN]
    BY <2>2, <2>3, <2>4
  <2>6. QED
    BY <2>5 DEF Message
<1>6. ASSUME Partial(j)
      PROVE  /\ batch = {at + 1} /\ ~tasks[j].skip /\ tasks[j].part = 0
             /\ EndsThrough(at + 1) \subseteq Known(j) \cup Says(j, batch, "end")
  <2>1. ~Whole(j, at + 1) /\ tasks[j].part = 0
    BY <1>6 DEF Partial
  <2>2. m = at + 1 /\ batch = {at + 1} /\ ~tasks[j].skip
    <3>1. m = at + 1
      BY <1>3, <1>4, <2>1
    <3>2. at + 1 .. at + 1 = {at + 1}
      BY <1>2
    <3>3. QED
      BY <1>3, <2>1, <3>1, <3>2 DEF Whole
  <2>3. ASSUME NEW e \in EndsThrough(at + 1) PROVE e \in Known(j) \cup Says(j, batch, "end")
    <3>1. e \in 1..(at + 1) /\ Message(e).says = "end" /\ (e = at + 1 => Message(e).long = 1)
      BY <2>3 DEF EndsThrough
    <3>2. CASE e = at + 1
      BY <2>1, <2>2, <3>1, <3>2 DEF Says
    <3>3. CASE e # at + 1
      <4>1. e \in 1..at
        BY <1>2, <3>1, <3>3
      <4>2. QED
        BY <2>1, <3>1, <4>1 DEF Known, EndsBefore
    <3>4. QED
      BY <3>2, <3>3
  <2>4. QED
    BY <2>1, <2>2, <2>3
<1>7. ASSUME ~Partial(j)
      PROVE  EndsBefore(m) \subseteq Known(j) \cup Says(j, batch, "end")
  <2> SUFFICES ASSUME NEW e \in EndsBefore(m)
               PROVE  e \in Known(j) \cup Says(j, batch, "end")
    OBVIOUS
  <2>1. e \in 1..m /\ Message(e).says = "end"
    BY DEF EndsBefore
  <2>2. CASE e <= at
    <3>1. e \in 1..at /\ e \in 1..(at + 1) /\ e # at + 1
      BY <1>2, <2>1, <2>2
    <3>2. QED
      BY <2>1, <3>1 DEF Known, EndsBefore, EndsThrough
  <2>3. CASE e > at
    <3>1. e \in batch
      BY <1>2, <1>3, <2>1, <2>3
    <3>2. CASE Whole(j, e)
      BY <2>1, <3>1, <3>2 DEF Says
    <3>3. CASE ~Whole(j, e)
      <4>1. e = at + 1 /\ ~Whole(j, at + 1)
        BY <1>2, <1>3, <3>1, <3>3
      <4>2. tasks[j].part > 0 /\ Message(e).long # 0
        BY <1>2, <1>7, <3>3, <4>1 DEF Partial, Whole
      <4>3. CASE Message(e).long = 1
        <5>1. e \in 1..(at + 1)
          BY <1>2, <4>1
        <5>2. e \in EndsThrough(at + 1)
          BY <2>1, <4>3, <5>1 DEF EndsThrough
        <5>3. QED
          BY <4>2, <5>2 DEF Known
      <4>4. CASE Message(e).long = 2
        BY <2>1, <3>1, <4>2, <4>4 DEF Says
      <4>5. QED
        BY <1>5, <3>1, <4>2, <4>3, <4>4
    <3>4. QED
      BY <3>2, <3>3
  <2>4. QED
    BY <1>2, <2>1, <2>2, <2>3
<1>8. QED
  BY <1>3, <1>6, <1>7

LEMMA CoversLess ==
    ASSUME NEW item, NEW known, NEW less \in SUBSET known, Covers(item, known)
    PROVE  Covers(item, less)
  BY DEF Covers

LEMMA ReadWhole ==
    ASSUME ContractInv, NEW j \in Ids, Fits(j), NEW batch \in Batches(j),
           NEW said \in SUBSET Says(j, batch, "start")
    PROVE  /\ Max(batch) \in Nat /\ tasks[j].at + 1 <= Max(batch) /\ Max(batch) <= tasks[j].through
           /\ said \in SUBSET Nat
           /\ \A x \in said : x <= Max(batch) /\ tasks[j].at + 1 <= x
                              /\ \A e \in Known(j) : e <= x
           /\ Known(j) \in SUBSET Nat /\ Says(j, batch, "end") \in SUBSET Nat
<1> DEFINE at == tasks[j].at
<1>1. tasks[j] \in Task /\ at < tasks[j].through
  BY WorkingOn
<1>2. at \in Nat /\ tasks[j].through \in Nat
  BY <1>1 DEF Task
<1>3. PICK m \in Nat : /\ at < m /\ m <= tasks[j].through
                       /\ batch = at + 1 .. m /\ Max(batch) = m
  BY <1>1, BatchIs
<1>4. said \subseteq batch /\ Says(j, batch, "end") \subseteq batch
  BY DEF Says
<1>5. \A x \in batch : x \in Nat /\ at + 1 <= x /\ x <= m
  BY <1>2, <1>3
<1>6. \A e \in Known(j) : e \in Nat /\ e <= at + 1
  BY <1>2 DEF Known, EndsThrough, EndsBefore
<1>7. \A x \in said, e \in Known(j) : e <= x
  BY <1>2, <1>4, <1>5, <1>6
<1>8. QED
  BY <1>2, <1>3, <1>4, <1>5, <1>6, <1>7

\* A batch is merged into the document, which becomes the new one.
LEMMA PublishedSound ==
    ASSUME ContractInv, NEW j \in Ids, Fits(j), ~Partial(j), NEW batch \in Batches(j),
           NEW said \in SUBSET Says(j, batch, "start"), over => said = {},
           doc' = Document(j, batch, said), cursor' = Max(batch),
           heard' = heard \union said \union ({tasks[j].items.src} \ {0}),
           UNCHANGED <<script, n, over, switches>>
    PROVE  DocSound'
<1> DEFINE at   == tasks[j].at
           ends == Says(j, batch, "end")
           work == Working(j)
<1>1. /\ tasks[j] \in Task /\ at < tasks[j].through /\ tasks[j].through <= n
      /\ cursor = at /\ work \in Item
      /\ tasks[j].part = 0 => work.src = doc.src /\ tasks[j].items.src = 0
      /\ tasks[j].part > 0 => tasks[j].part = at + 1 /\ tasks[j].items = work
      /\ work.src \in {doc.src, at + 1}
      /\ switches = 0 => Covers(work, Known(j))
  BY WorkingOn
<1>2. /\ Max(batch) \in Nat /\ at + 1 <= Max(batch) /\ Max(batch) <= tasks[j].through
      /\ said \in SUBSET Nat /\ \A x \in said : x <= Max(batch) /\ at + 1 <= x
                                               /\ \A e \in Known(j) : e <= x
      /\ Known(j) \in SUBSET Nat /\ ends \in SUBSET Nat
  BY ReadWhole
<1>3. /\ at \in Nat /\ n \in Nat /\ tasks[j].through \in Nat /\ n <= Len(script.says)
      /\ doc \in Item /\ doc.src \in Nat /\ doc.src <= at /\ work.src \in Nat
      /\ tasks[j].part \in Nat /\ switches \in Nat
      /\ heard \subseteq Nat /\ doc.src \in heard \cup {0} /\ \A h \in heard : h <= doc.src
      /\ switches = 0 => ~over
      /\ doc.src <= work.src /\ work.src <= at + 1
  <2>1. work.src \in Nat /\ at \in Nat /\ tasks[j].through \in Nat /\ tasks[j].part \in Nat
    BY <1>1 DEF Task, Item
  <2>2. /\ n \in Nat /\ n <= Len(script.says) /\ doc \in Item /\ doc.src \in Nat
        /\ doc.src <= at /\ switches \in Nat
        /\ heard \subseteq Nat /\ doc.src \in heard \cup {0} /\ \A h \in heard : h <= doc.src
        /\ switches = 0 => ~over
    BY <1>1 DEF ContractInv, DocSound, Item
  <2> HIDE DEF work, at
  <2>3. doc.src <= work.src /\ work.src <= at + 1
    BY <1>1, <2>1, <2>2
  <2>4. QED
    BY <2>1, <2>2, <2>3
<1>4. /\ doc' \in Item
      /\ said = {} => doc'.src = work.src
      /\ said # {} => doc'.src \in said /\ \A x \in said : x <= doc'.src
  <2>1. CASE over
    BY <1>1, <2>1 DEF Document
  <2>2. CASE ~over
    <3>1. doc' = Merged(work, ends, said)
      BY <2>2 DEF Document
    <3> HIDE DEF work, ends
    <3>2. \A x \in said : x <= Max(batch)
      BY <1>2
    <3>3. /\ Merged(work, ends, said) \in Item
          /\ said = {} => Merged(work, ends, said).src = work.src
          /\ said # {} => /\ Merged(work, ends, said).src = Max(said) /\ Max(said) \in said
                          /\ \A x \in said : x <= Max(said)
      <4>1. work \in Item /\ said \in SUBSET Nat /\ Max(batch) \in Nat
        BY <1>1, <1>2
      <4>2. QED
        BY <3>2, <4>1, MergedIs
    <3>4. QED
      BY <3>1, <3>3
  <2>3. QED
    BY <2>1, <2>2
<1>5. switches = 0 => Covers(doc', EndsBefore(Max(batch)))
  <2> SUFFICES ASSUME switches = 0 PROVE Covers(doc', EndsBefore(Max(batch)))
    OBVIOUS
  <2>1. doc' = Merged(work, ends, said)
    BY <1>3 DEF Document
  <2>2. EndsBefore(Max(batch)) \in SUBSET (Known(j) \cup ends)
    BY EndsRead
  <2>3. Covers(work, Known(j))
    BY <1>1
  <2> HIDE DEF work, ends
  <2>4. Covers(doc', Known(j) \cup ends)
    BY <1>1, <1>2, <2>1, <2>3, MergedCovers
  <2>5. QED
    BY <2>2, <2>4, CoversLess
<1> HIDE DEF ends
<1>6. /\ cursor' \in Nat /\ cursor' <= n /\ doc'.src \in Nat /\ doc'.src <= cursor'
  <2>1. doc'.src \in Nat /\ cursor' \in Nat /\ cursor' <= n
    <3>1. Max(batch) <= tasks[j].through /\ tasks[j].through <= n
      BY <1>1, <1>2
    <3>2. QED
      BY <1>2, <1>3, <1>4, <3>1 DEF Item
  <2>2. CASE said = {}
    <3>1. doc'.src = work.src /\ work.src <= at + 1 /\ at + 1 <= cursor'
      BY <1>2, <1>3, <1>4, <2>2
    <3> HIDE DEF at, work
    <3>2. QED
      BY <1>3, <2>1, <3>1
  <2>3. CASE said # {}
    BY <1>2, <1>4, <2>1, <2>3
  <2>4. QED
    BY <2>1, <2>2, <2>3
<1>7. /\ heard' \subseteq Nat /\ doc'.src \in heard' \cup {0}
      /\ \A h \in heard' : h <= doc'.src
  <2>1. /\ doc.src <= doc'.src /\ work.src <= doc'.src
        /\ \A x \in said : x <= doc'.src
    <3>1. CASE said = {}
      BY <1>3, <1>4, <3>1
    <3>2. CASE said # {}
      <4>1. work.src <= at + 1 /\ at + 1 <= doc'.src /\ doc.src <= work.src
        BY <1>2, <1>3, <1>4, <3>2
      <4> HIDE DEF at, work
      <4>2. QED
        BY <1>3, <1>4, <1>6, <3>2, <4>1
    <3>3. QED
      BY <3>1, <3>2
  <2>2. tasks[j].items.src = 0 \/ tasks[j].items.src = work.src
    BY <1>1, <1>3
  <2>3. \A h \in heard : h <= doc'.src
    BY <1>3, <1>6, <2>1
  <2>4. doc'.src \in heard' \cup {0}
    <3>1. CASE said # {}
      BY <1>4, <3>1
    <3>2. CASE said = {} /\ tasks[j].part = 0
      BY <1>1, <1>3, <1>4, <3>2
    <3>3. CASE said = {} /\ tasks[j].part > 0
      BY <1>1, <1>4, <3>3
    <3>4. QED
      BY <1>3, <3>1, <3>2, <3>3
  <2>5. QED
    BY <1>2, <1>3, <1>6, <2>1, <2>2, <2>3, <2>4
<1>9. switches' = 0 => ~over' /\ Covers(doc, EndsBefore(cursor))'
  <2>1. switches = 0 => Covers(doc', {e \in 1..cursor' : Message(e).says = "end"})
    BY <1>5 DEF EndsBefore
  <2>2. QED
    BY <1>3, <2>1 DEF Covers, EndsBefore, Message
<1>10. QED
  BY <1>3, <1>4, <1>6, <1>7, <1>9 DEF DocSound

LEMMA CommitKeeps ==
    ASSUME ContractInv, NEW j \in Ids, Commit(j)
    PROVE  ContractInv'
<1> DEFINE fin  == Closed(tasks, j, "ok", "ok")
           calm == switches = 0
<1>1. /\ Tasks(tasks, n, calm) /\ calm \in BOOLEAN /\ n \in Nat /\ cursor \in Nat
      /\ j \in Nat /\ tasks[j] \in Task /\ tasks[j].st = "running"
  BY DEF ContractInv, DocSound, Tasks, TaskSound, Ids, Commit
<1>2. done' = Append(done, j) /\ UNCHANGED <<script, n, over, switches>>
  BY DEF Commit
<1> HIDE DEF calm
<1>3. Tasks(fin, n, calm) /\ DOMAIN fin = DOMAIN tasks
  BY <1>1, ClosedSound DEF Codes, Ids
<1> HIDE DEF fin
<1>4. ASSUME NEW x, TaskSound(x, n, calm)
      PROVE  Tasks(With(fin, x), n, calm) /\ DOMAIN tasks \subseteq DOMAIN With(fin, x)
  BY <1>1, <1>3, <1>4, Enqueued
<1>5. ASSUME \/ tasks' = fin
             \/ \E x : TaskSound(x, n, calm) /\ tasks' = With(fin, x)
      PROVE  Tasks(tasks', n, calm) /\ DOMAIN tasks \subseteq DOMAIN tasks'
  BY <1>3, <1>4, <1>5
<1>6. ASSUME \/ tasks' = fin
             \/ \E x : TaskSound(x, n, calm) /\ tasks' = With(fin, x),
             UNCHANGED <<cursor, doc, heard>>
      PROVE  ContractInv'
  <2>1. Tasks(tasks', n, switches = 0) /\ DOMAIN tasks \subseteq DOMAIN tasks'
    BY <1>5, <1>6 DEF calm
  <2>2. QED
    BY <1>2, <1>6, <2>1, SteadyKeeps DEF Steady
<1>7. CASE tasks' = fin /\ UNCHANGED <<cursor, doc, heard>>
  BY <1>6, <1>7
<1>8. CASE tasks' = With(fin, Restarted(j)) /\ UNCHANGED <<cursor, doc, heard>>
  <2>1. TaskSound(Restarted(j), n, calm)
    BY <1>1, RestartedSound
  <2>2. QED
    BY <1>6, <1>8, <2>1
<1>9. CASE /\ tasks' = With(fin, Follow(j, Key("fallback", 0, 0, j, 0), tasks[j].after))
           /\ UNCHANGED <<cursor, doc, heard>>
  <2>1. Key("fallback", 0, 0, j, 0) \in TaskKey /\ tasks[j].after \in Nat
    BY <1>1 DEF Key, TaskKey, Task
  <2>2. TaskSound(Follow(j, Key("fallback", 0, 0, j, 0), tasks[j].after), n, calm)
    BY <1>1, <2>1, FollowSound
  <2>3. QED
    BY <1>6, <1>9, <2>2
<1>10. ASSUME ~Moved(j), NEW batch \in Batches(j), NEW said \in SUBSET Says(j, batch, "start"),
              over => said = {}
       PROVE  /\ Partial(j) /\ tasks' = With(fin, Piece(j, Document(j, batch, said)))
                  /\ UNCHANGED <<cursor, doc, heard>> => ContractInv'
              /\ /\ ~Partial(j) /\ doc' = Document(j, batch, said) /\ cursor' = Max(batch)
                 /\ heard' = heard \union said \union ({tasks[j].items.src} \ {0})
                 /\ tasks' = IF Max(batch) < tasks[j].through THEN With(fin, Page(j, Max(batch)))
                             ELSE fin
                 => ContractInv'
  <2>1. Fits(j)
    BY <1>1, <1>10 DEF Fits
  <2>2. ASSUME Partial(j), tasks' = With(fin, Piece(j, Document(j, batch, said))),
               UNCHANGED <<cursor, doc, heard>>
        PROVE  ContractInv'
    <3> DEFINE at    == tasks[j].at
               new   == Document(j, batch, said)
               ends  == Says(j, batch, "end")
               work  == Working(j)
    <3>1. /\ batch = {at + 1} /\ ~tasks[j].skip /\ tasks[j].part = 0
          /\ EndsThrough(at + 1) \in SUBSET (Known(j) \cup ends)
      BY <2>1, <2>2, EndsRead
    <3>2. /\ cursor = at /\ doc = tasks[j].seen /\ work \in Item /\ work.src = doc.src
          /\ switches = 0 => Covers(work, Known(j))
      BY <2>1, <3>1, WorkingOn
    <3>3. /\ said \in SUBSET Nat /\ Max(batch) \in Nat
          /\ \A x \in said : x <= Max(batch) /\ \A e \in Known(j) : e <= x
          /\ Known(j) \in SUBSET Nat /\ ends \in SUBSET Nat
      BY <2>1, ReadWhole
    <3>4. said \subseteq {at + 1}
      BY <3>1 DEF Says
    <3>5. doc.src \in Nat /\ doc.src <= at /\ at \in Nat /\ (switches = 0 => ~over)
      BY <1>1, <3>2 DEF ContractInv, DocSound, Item
    <3>6. new = IF over THEN work ELSE Merged(work, ends, said)
      BY DEF Document
    <3> HIDE DEF at, new, ends, work
    <3>7. new \in Item /\ new.src \in {doc.src, at + 1}
      <4>1. CASE over
        BY <3>2, <3>6, <4>1
      <4>2. CASE ~over
        <5>1. \A x \in said : x <= Max(batch)
          BY <3>3
        <5>2. /\ Merged(work, ends, said) \in Item
              /\ said = {} => Merged(work, ends, said).src = work.src
              /\ said # {} => /\ Merged(work, ends, said).src = Max(said) /\ Max(said) \in said
                              /\ \A x \in said : x <= Max(said)
          <6>1. work \in Item /\ said \in SUBSET Nat /\ Max(batch) \in Nat
            BY <3>2, <3>3
          <6>2. QED
            BY <5>1, <6>1, MergedIs
        <5>3. QED
          BY <3>2, <3>4, <3>6, <4>2, <5>2
      <4>3. QED
        BY <4>1, <4>2
    <3>8. calm => Covers(new, EndsThrough(at + 1))
      <4> SUFFICES ASSUME calm PROVE Covers(new, EndsThrough(at + 1))
        OBVIOUS
      <4>1. new = Merged(work, ends, said) /\ Covers(work, Known(j))
        BY <3>2, <3>5, <3>6 DEF calm
      <4>2. Covers(new, Known(j) \cup ends)
        BY <3>2, <3>3, <4>1, MergedCovers
      <4>3. QED
        BY <3>1, <4>2, CoversLess
    <3>9. TaskSound(Piece(j, new), n, calm)
      <4>1. tasks[j].seen.src < at + 1 /\ new.src \in {tasks[j].seen.src, at + 1}
        BY <3>2, <3>5, <3>7
      <4>2. QED
        BY <1>1, <3>1, <3>7, <3>8, <4>1, PieceSound DEF at
    <3>10. QED
      BY <1>6, <2>2, <3>9 DEF new
  <2>3. ASSUME ~Partial(j), doc' = Document(j, batch, said), cursor' = Max(batch),
               heard' = heard \union said \union ({tasks[j].items.src} \ {0}),
               tasks' = IF Max(batch) < tasks[j].through THEN With(fin, Page(j, Max(batch)))
                        ELSE fin
        PROVE  ContractInv'
    <3>1. DocSound'
      BY <1>2, <1>10, <2>1, <2>3, PublishedSound
    <3>2. Max(batch) \in Nat
      BY <2>1, ReadWhole
    <3>3. TaskSound(Page(j, Max(batch)), n, calm)
      BY <1>1, <3>2, PageSound
    <3>4. Tasks(tasks', n, calm) /\ DOMAIN tasks \subseteq DOMAIN tasks'
      BY <1>5, <2>3, <3>3
    <3>5. QED
      BY <1>2, <3>1, <3>4, RowsKeep DEF calm, ContractInv
  <2>4. QED
    BY <2>2, <2>3
<1> DEFINE Takes(batch) ==
               IF tasks[j].skip \/ over THEN {{}} ELSE SUBSET Says(j, batch, "start")
           Outcome(batch, said) ==
               LET new == Document(j, batch, said)
               IN  IF Partial(j)
                   THEN /\ tasks' = With(fin, Piece(j, new))
                        /\ UNCHANGED <<cursor, doc, heard>>
                   ELSE /\ doc' = new
                        /\ cursor' = Max(batch)
                        /\ heard' = heard \union said \union ({tasks[j].items.src} \ {0})
                        /\ tasks' = IF Max(batch) < tasks[j].through
                                   THEN With(fin, Page(j, Max(batch))) ELSE fin
<1>11. CASE ~Moved(j) /\ \E batch \in Batches(j) : \E said \in Takes(batch) : Outcome(batch, said)
  <2>1. PICK batch \in Batches(j) : \E said \in Takes(batch) : Outcome(batch, said)
    BY <1>11
  <2>2. PICK said \in Takes(batch) : Outcome(batch, said)
    BY <2>1
  <2>3. said \in SUBSET Says(j, batch, "start") /\ (over => said = {})
    BY <2>2
  <2>4. QED
    BY <1>10, <1>11, <2>2, <2>3
<1>12. QED
  BY <1>7, <1>8, <1>9, <1>11 DEF Commit, fin

-----------------------------------------------------------------------------
(* Contracts: the user and the operators.                                   *)

LEMMA SayKeeps == ContractInv /\ Say => ContractInv'
<1> SUFFICES ASSUME ContractInv, Say PROVE ContractInv'
  OBVIOUS
<1> DEFINE calm == switches = 0
<1>1. /\ n \in Nat /\ n + 1 \in Nat /\ n <= n + 1 /\ cursor \in Nat /\ calm \in BOOLEAN
      /\ Tasks(tasks, n, calm)
  BY DEF ContractInv, DocSound
<1>2. /\ n' = n + 1 /\ done' = done /\ UNCHANGED <<script, over, switches, cursor, doc, heard>>
      /\ tasks' = tasks \/ tasks' = Asked(n + 1)
  BY DEF Say
<1> HIDE DEF calm
<1>3. Tasks(tasks, n + 1, calm)
  BY <1>1, StillSound
<1>4. Tasks(Asked(n + 1), n + 1, calm) /\ Ids \subseteq DOMAIN Asked(n + 1)
  BY <1>1, <1>3, AskedSound DEF ContractInv
<1>5. Tasks(tasks', n', switches' = 0) /\ DOMAIN tasks \subseteq DOMAIN tasks'
  BY <1>2, <1>3, <1>4 DEF calm, Ids
<1>6. Tasks(tasks, n, switches = 0)'
  BY <1>2, <1>5 DEF Tasks, TaskSound, Covers, EndsThrough, Message
<1>7. DoneOK'
  BY <1>2, <1>5 DEF ContractInv, DoneOK, Ids
<1>8. n' <= Len(script.says)
  <2>1. Len(script.says) \in Nat
    BY ScriptAssumption DEF ContractInv
  <2>2. n < Len(script.says)
    BY DEF Say
  <2>3. QED
    BY <1>1, <1>2, <2>1, <2>2
<1>9. cursor <= n + 1
  BY <1>1 DEF ContractInv, DocSound
<1>10. DocSound'
  BY <1>1, <1>2, <1>8, <1>9 DEF ContractInv, DocSound, Covers, EndsBefore, Message
<1>11. QED
  BY <1>2, <1>6, <1>7, <1>10 DEF ContractInv

LEMMA ToggleKeeps == ContractInv /\ Toggle => ContractInv'
<1> SUFFICES ASSUME ContractInv, Toggle PROVE ContractInv'
  OBVIOUS
<1>1. Steady /\ tasks' = tasks /\ done' = done
  BY DEF Toggle, Steady
<1>2. QED
  BY <1>1, SteadyKeeps DEF ContractInv

LEMMA SwitchKeeps == ContractInv /\ SwitchLanguage => ContractInv'
<1> SUFFICES ASSUME ContractInv, SwitchLanguage PROVE ContractInv'
  OBVIOUS
<1> DEFINE calm  == switches = 0
           quiet == switches' = 0
<1>1. /\ switches' = switches + 1
      /\ UNCHANGED <<script, n, cursor, doc, tasks, done, heard>>
  BY DEF SwitchLanguage
<1>2. switches' \in Nat /\ ~quiet /\ quiet \in BOOLEAN /\ calm \in BOOLEAN /\ n \in Nat
      /\ Tasks(tasks, n, calm)
  BY <1>1 DEF ContractInv, DocSound
<1> HIDE DEF calm
<1>3. Tasks(tasks, n, FALSE)
  <2>1. n <= n
    BY <1>2
  <2>2. QED
    BY <1>2, <2>1, StillSound
<1>4. Tasks(tasks', n', switches' = 0)
  BY <1>1, <1>2, <1>3
<1>5. Tasks(tasks, n, switches = 0)'
  BY <1>1, <1>4 DEF Tasks, TaskSound, Covers, EndsThrough, Message
<1>6. DocSound'
  BY <1>1, <1>2 DEF ContractInv, DocSound
<1>7. DoneOK'
  BY <1>1 DEF ContractInv, DoneOK, Ids
<1>8. QED
  BY <1>1, <1>5, <1>6, <1>7 DEF ContractInv

LEMMA ContractHolds == ContractSpec => []ContractInv
<1>1. ContractInv /\ UNCHANGED contractVars => ContractInv'
  <2> SUFFICES ASSUME ContractInv, UNCHANGED contractVars PROVE ContractInv'
    OBVIOUS
  <2>1. Steady /\ tasks' = tasks /\ done' = done
    BY DEF contractVars, Steady
  <2>2. QED
    BY <2>1, SteadyKeeps DEF ContractInv
<1>2. ContractInv /\ ContractNext => ContractInv'
  BY SayKeeps, AskKeeps, ToggleKeeps, SwitchKeeps, BeginKeeps, TruncatedKeeps, FailsKeeps,
     CommitKeeps
  DEF ContractNext, Run
<1>3. QED
  BY <1>1, <1>2, ContractInvInit, PTL DEF ContractSpec

\* A preference the user has ended is not shown in a prompt again, whichever of
\* the overlapping compile jobs publishes, in how many pieces the message was
\* read and what the model named, as long as the rendering fits
\* (contract_compiler.merge_candidates, published_text).
THEOREM EndedForGood == ContractSpec => []EndedNotRevived
<1>1. ContractInv => EndedNotRevived
  <2> SUFFICES ASSUME ContractInv, Shown, switches = 0, NEW e \in 1..n,
                      Message(e).says = "end", e > doc.src
               PROVE  FALSE
    BY DEF EndedNotRevived
  <2>1. /\ n \in Nat /\ cursor \in Nat /\ doc.src \in Nat /\ doc.src # 0 /\ ~doc.ended
        /\ Covers(doc, EndsBefore(cursor))
        /\ ~\E x \in cursor + 1 .. n : Message(x).says = "end" /\ x >= doc.src
    BY DEF ContractInv, DocSound, Shown, Item
  <2>2. CASE e <= cursor
    <3>1. e \in EndsBefore(cursor)
      BY <2>1, <2>2 DEF EndsBefore
    <3>2. QED
      BY <2>1, <3>1 DEF Covers
  <2>3. CASE e > cursor
    <3>1. e \in cursor + 1 .. n /\ e >= doc.src
      BY <2>1, <2>3
    <3>2. QED
      BY <2>1, <3>1
  <2>4. QED
    BY <2>1, <2>2, <2>3
<1>2. QED
  BY <1>1, ContractHolds, PTL

\* The document holds the newest start that any applied batch took from the
\* model: no job that read before another published, and no second piece,
\* puts an older one in its place (contract_jobs._apply).
THEOREM NewestKept == ContractSpec => []NothingHeardLost
<1>1. ContractInv => NothingHeardLost
  <2> SUFFICES ASSUME ContractInv PROVE doc.src = Max(heard \union {0})
    BY DEF NothingHeardLost
  <2>1. /\ heard \union {0} \in SUBSET Nat /\ doc.src \in heard \union {0}
        /\ \A h \in heard \union {0} : h <= doc.src
    BY DEF ContractInv, DocSound, Item
  <2>2. QED
    BY <2>1, MaxIs
<1>2. QED
  BY <1>1, ContractHolds, PTL
=============================================================================
