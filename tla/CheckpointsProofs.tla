------------------------- MODULE CheckpointsProofs -------------------------
(***************************************************************************)
(* Proofs about the contexts kept instead of whole conversations.          *)
(*                                                                         *)
(* Checkpoints, for any scripts, budgets, depths and segment sizes.  IInv  *)
(* is the inductive invariant: what every row of the queue knows about the *)
(* checkpoint it continues (SoundQueue), what an open chat transaction     *)
(* knows about it (SoundChat), and the chain itself.  CallsInv adds what a *)
(* row has called and may still call.                                      *)
(*                                                                         *)
(* Release, for any accounts, writers, builders, operators and plans.      *)
(* ReleaseInv is the inductive invariant: what an open transaction knows   *)
(* (WriteSound), that an audit tells what is committed as long as the      *)
(* clocks have not moved (Same), and what is frozen once they have been    *)
(* compared (Compared, NoneCounted, NoneShared).                           *)
(***************************************************************************)
EXTENDS Checkpoints, Release, FiniteSetTheorems, SequenceTheorems, TLAPS

Page == [through: Nat, prev: Nat, from: Nat, re: BOOLEAN]

Kinds == {"plan", "page", "publish", "smaller", "wait", "reverify", "resume", "redo"}

Codes == {"", "failed", "disabled", "source_changed", "draft", "page", "ok"}

PlanKey == [kind: Kinds, prev: Nat, t: Nat, page: Nat, cut: BOOLEAN, of: Nat]

JobRow ==
    [key: PlanKey, prev: Nat, through: Nat, from: Nat, press: BOOLEAN, page: Nat,
     mode: {"plan", "publish", "reverify"}, cut: BOOLEAN, calls: Int, depth: Nat,
     of: Nat, spent: Nat, st: {"ready", "running", "ok", "dead"}, code: Codes,
     left: Int, short: BOOLEAN]

\* What the checkpoint c of a history covers.
Cover(pages, c) == IF c = 0 THEN 0 ELSE pages[c].through

\* A job that makes a summary begins where the checkpoint it continues ends and
\* gets further; one that looks again looks at exactly that checkpoint.
Sound(job, pages) ==
    /\ job.prev <= Len(pages)
    /\ IF job.mode = "reverify"
       THEN job.through = Cover(pages, job.prev)
       ELSE /\ job.from = Cover(pages, job.prev) + 1
            /\ job.through > Cover(pages, job.prev)

SoundQueue(queue, pages) ==
    /\ queue \in Seq(JobRow)
    /\ \A i \in DOMAIN queue: Sound(queue[i], pages)

Chain(pages) ==
    /\ pages \in Seq(Page)
    /\ \A c \in DOMAIN pages :
          /\ pages[c].prev = c - 1
          /\ IF pages[c].re
             THEN pages[c].through = Cover(pages, c - 1)
             ELSE /\ pages[c].from = Cover(pages, c - 1) + 1
                  /\ pages[c].through >= pages[c].from

\* A goal that waits for a chat transaction to commit is not behind the stored
\* one, or ends it because the summaries have reached it.
SoundChat ==
    /\ tx \in [held: BOOLEAN, turn: BOOLEAN, seen: Nat, goal: Nat \cup {None}, through: Nat]
    /\ ~tx.held => tx = Nobody
    /\ tx.seen <= Latest
    /\ tx.through # 0 => tx.through > Through(tx.seen)
    /\ tx.goal # None => \/ tx.goal >= goal
                         \/ tx.goal = 0 /\ Through(Latest) >= goal

FinishedKnown == done \in Seq(Nat) /\ \A i \in DOMAIN done: done[i] \in Ids

IInv ==
    /\ n \in Nat /\ goal \in Nat
    /\ Chain(cps)
    /\ SoundQueue(jobs, cps)
    /\ FinishedKnown
    /\ SoundChat

-----------------------------------------------------------------------------
(* The greatest of a finite set.                                           *)

\* Some element of a finite set has the greatest number: the ones above it
\* would be fewer than those above any other.
LEMMA GreatestExists ==
    ASSUME NEW S, IsFiniteSet(S), S # {}, NEW f \in [S -> Int]
    PROVE  \E x \in S: \A y \in S: f[y] <= f[x]
<1> DEFINE Above(x) == {y \in S: f[y] > f[x]}
           T == {Above(x): x \in S}
<1>1. IsWellFoundedOn(StrictSubsetOrdering(S), FiniteSubsetsOf(S))
  BY FS_StrictSubsetOrderingWellFounded
<1>2. T \subseteq FiniteSubsetsOf(S) /\ T # {}
  <2>1. ASSUME NEW x \in S PROVE Above(x) \in FiniteSubsetsOf(S)
    <3>1. Above(x) \in SUBSET S
      OBVIOUS
    <3>2. IsFiniteSet(Above(x))
      BY <3>1, FS_Subset
    <3>3. QED
      BY <3>1, <3>2 DEF FiniteSubsetsOf
  <2>2. PICK x \in S: TRUE
    OBVIOUS
  <2>3. Above(x) \in T
    OBVIOUS
  <2> HIDE DEF Above
  <2>4. QED
    BY <2>1, <2>3
<1>3. \E u \in T: \A v \in T: ~(<<v, u>> \in StrictSubsetOrdering(S))
  <2> HIDE DEF T
  <2>1. QED
    BY <1>1, <1>2, WFMin
<1>4. PICK x \in S: \A v \in T: ~(<<v, Above(x)>> \in StrictSubsetOrdering(S))
  BY <1>3
<1>5. ASSUME NEW y \in S, f[y] > f[x] PROVE FALSE
  <2>1. Above(y) \subseteq Above(x)
    BY <1>5
  <2>2. y \in Above(x) /\ y \notin Above(y)
    BY <1>5
  <2>3. <<Above(y), Above(x)>> \in StrictSubsetOrdering(S)
    BY <2>1, <2>2 DEF StrictSubsetOrdering
  <2>4. QED
    BY <1>4, <2>3
<1>6. QED
  BY <1>5

\* Max of a finite set of numbers is one of them.
LEMMA MaxOfFinite ==
    ASSUME NEW S \in SUBSET Int, IsFiniteSet(S), S # {}
    PROVE  Max(S) \in S /\ \A y \in S: Max(S) >= y
<1>1. [x \in S |-> x] \in [S -> Int]
  OBVIOUS
<1>2. \E x \in S: \A y \in S: [z \in S |-> z][y] <= [z \in S |-> z][x]
  BY <1>1, GreatestExists
<1>3. \E x \in S: \A y \in S: x >= y
  BY <1>2
<1>4. QED
  BY <1>3 DEF Max

\* The larger and the smaller of two numbers.
LEMMA MaxOfTwo ==
    ASSUME NEW a \in Int, NEW b \in Int
    PROVE  Max({a, b}) \in {a, b} /\ Max({a, b}) >= a /\ Max({a, b}) >= b
<1>1. \E x \in {a, b}: \A y \in {a, b}: x >= y
  OBVIOUS
<1>2. QED
  BY <1>1 DEF Max

\* The smaller of two integers.
LEMMA MinOfTwo ==
    ASSUME NEW a \in Int, NEW b \in Int
    PROVE  Min({a, b}) \in {a, b} /\ Min({a, b}) <= a /\ Min({a, b}) <= b
<1>1. \E x \in {a, b}: \A y \in {a, b}: x =< y
  OBVIOUS
<1>2. QED
  BY <1>1 DEF Min

-----------------------------------------------------------------------------
(* Histories, rows and queues.                                             *)

\* What an older checkpoint covers does not change by a publication.
LEMMA CoverKept ==
    ASSUME NEW pages \in Seq(Page), NEW page \in Page
    PROVE  /\ Append(pages, page) \in Seq(Page)
           /\ Len(Append(pages, page)) = Len(pages) + 1
           /\ \A c \in 0..Len(pages): /\ Cover(Append(pages, page), c) = Cover(pages, c)
                                      /\ Cover(pages, c) \in Nat
           /\ Cover(Append(pages, page), Len(pages) + 1) = page.through
<1>1. \A c \in 1..Len(pages): pages[c] \in Page /\ Append(pages, page)[c] = pages[c]
  OBVIOUS
<1>2. Append(pages, page)[Len(pages) + 1] = page /\ Len(pages) \in Nat
  OBVIOUS
<1>3. \A p \in Page: p.through \in Nat
  BY DEF Page
<1>4. QED
  BY <1>1, <1>2, <1>3 DEF Cover

\* The latest checkpoint covers as far as Through says.
LEMMA CoverIsThrough ==
    ASSUME Chain(cps)
    PROVE  /\ Latest \in Nat
           /\ \A c \in 0..Latest: Through(c) = Cover(cps, c) /\ Through(c) \in Nat
<1>1. Latest \in Nat /\ \A c \in 1..Latest: cps[c] \in Page
  BY DEF Chain, Latest
<1>2. \A p \in Page: p.through \in Nat
  BY DEF Page
<1>3. QED
  BY <1>1, <1>2 DEF Cover, Through

\* A row stays sound when the history grows.
LEMMA SoundKept ==
    ASSUME NEW pages \in Seq(Page), NEW page \in Page, NEW job \in JobRow, Sound(job, pages)
    PROVE  Sound(job, Append(pages, page))
BY CoverKept DEF Sound, JobRow

\* So does a queue.
LEMMA QueueKept ==
    ASSUME NEW pages \in Seq(Page), NEW page \in Page, NEW queue, SoundQueue(queue, pages)
    PROVE  SoundQueue(queue, Append(pages, page))
BY SoundKept DEF SoundQueue

\* Enqueueing a sound row, and writing one in the place of another.
LEMMA WithKeeps ==
    ASSUME NEW pages, NEW queue, SoundQueue(queue, pages),
           NEW job \in JobRow, Sound(job, pages)
    PROVE  /\ SoundQueue(With(queue, job), pages)
           /\ Len(With(queue, job)) >= Len(queue)
           /\ Len(With(queue, job)) > Len(queue) =>
                 With(queue, job)[Len(With(queue, job))] = job
<1>1. CASE With(queue, job) = queue
  BY <1>1 DEF SoundQueue
<1>2. CASE With(queue, job) = Append(queue, job)
  <2>1. Append(queue, job) \in Seq(JobRow) /\ Len(Append(queue, job)) = Len(queue) + 1
    BY DEF SoundQueue
  <2>2. \A i \in 1..Len(queue) + 1:
           Append(queue, job)[i] = IF i <= Len(queue) THEN queue[i] ELSE job
    BY DEF SoundQueue
  <2>3. QED
    BY <1>2, <2>1, <2>2 DEF SoundQueue
<1>3. QED
  BY <1>1, <1>2 DEF With

\* A row overwritten with a sound row leaves a sound queue.
LEMMA WriteKeeps ==
    ASSUME NEW pages, NEW queue, SoundQueue(queue, pages), NEW i \in DOMAIN queue,
           NEW job \in JobRow, Sound(job, pages)
    PROVE  /\ SoundQueue([queue EXCEPT ![i] = job], pages)
           /\ DOMAIN [queue EXCEPT ![i] = job] = DOMAIN queue
BY DEF SoundQueue

\* A row with the plan of a sound one is sound, whatever became of it.
LEMMA SamePlanSound ==
    ASSUME NEW pages, NEW a \in JobRow, NEW b \in JobRow, Sound(a, pages),
           b.prev = a.prev, b.from = a.from, b.through = a.through,
           b.mode = a.mode \/ (a.mode # "reverify" /\ b.mode # "reverify")
    PROVE  Sound(b, pages)
BY DEF Sound

\* A new plan is sound if it gets further than the checkpoint it continues.
LEMMA PlanSound ==
    ASSUME NEW pages \in Seq(Page), NEW c \in 0..Len(pages), NEW t \in Nat,
           NEW press \in BOOLEAN, t > Cover(pages, c)
    PROVE  /\ Plan(c, Cover(pages, c), t, press) \in JobRow
           /\ Sound(Plan(c, Cover(pages, c), t, press), pages)
           /\ Plan(c, Cover(pages, c), t, press).through = t
<1> DEFINE after == Cover(pages, c)
<1>1. after \in Nat
  <2>1. c # 0 => pages[c] \in Page
    OBVIOUS
  <2>2. QED
    BY <2>1 DEF Cover, Page
<1> HIDE DEF after
<1>2. Plan(c, after, t, press) \in JobRow
  <2>1. Key("plan", c, t, 0, FALSE, 0) \in PlanKey
    BY DEF PlanKey, Key, Kinds
  <2>2. c \in Nat /\ after + 1 \in Nat /\ Attempts \in Int /\ None \in Int /\ "" \in Codes
    BY <1>1, CheckpointsAssumption DEF None, Codes
  <2>3. QED
    BY <2>1, <2>2 DEF Plan, JobRow
<1>3. /\ Plan(c, after, t, press).prev = c /\ Plan(c, after, t, press).from = after + 1
      /\ Plan(c, after, t, press).through = t /\ Plan(c, after, t, press).mode = "plan"
  BY DEF Plan
<1>4. Sound(Plan(c, after, t, press), pages)
  BY <1>3 DEF Sound, after
<1>5. QED
  BY <1>2, <1>3, <1>4 DEF after

\* A segment gets further, and not beyond what is asked for.
LEMMA SegmentEndBetween ==
    ASSUME NEW t \in Nat, NEW to \in Int, to > t
    PROVE  SegmentEnd(t, to) \in Nat /\ SegmentEnd(t, to) > t
<1>1. t + SegmentTurns \in Int /\ t + SegmentTurns > t
  BY CheckpointsAssumption
<1>2. SegmentEnd(t, to) \in {to, t + SegmentTurns}
  BY <1>1, MinOfTwo DEF SegmentEnd
<1>3. QED
  BY <1>1, <1>2

\* A row that ends keeps its plan.
LEMMA EndedSound ==
    ASSUME SoundQueue(jobs, cps), NEW j \in Ids,
           NEW st \in {"ready", "running", "ok", "dead"}, NEW code \in Codes
    PROVE  /\ SoundQueue(Ended(j, st, code), cps)
           /\ DOMAIN Ended(j, st, code) = DOMAIN jobs
           /\ Len(Ended(j, st, code)) = Len(jobs)
           /\ Ended(j, st, code)[j].mode = jobs[j].mode
           /\ Ended(j, st, code)[j] = [jobs[j] EXCEPT !.st = st, !.code = code, !.short = FALSE]
<1> DEFINE row == [jobs[j] EXCEPT !.st = st, !.code = code, !.short = FALSE]
<1>1. jobs[j] \in JobRow /\ Sound(jobs[j], cps)
  BY DEF SoundQueue, Ids
<1>2. row \in JobRow
  BY <1>1 DEF JobRow
<1>3. Sound(row, cps)
  BY <1>1, <1>2, SamePlanSound DEF JobRow
<1>4. Ended(j, st, code) = [jobs EXCEPT ![j] = row]
  BY <1>1 DEF Ended, SoundQueue, JobRow, Ids
<1>5. row.mode = jobs[j].mode
  BY <1>1 DEF JobRow
<1> HIDE DEF row
<1>6. SoundQueue(Ended(j, st, code), cps) /\ DOMAIN Ended(j, st, code) = DOMAIN jobs
  <2>1. j \in DOMAIN jobs
    BY DEF Ids
  <2>2. /\ SoundQueue([jobs EXCEPT ![j] = row], cps)
        /\ DOMAIN [jobs EXCEPT ![j] = row] = DOMAIN jobs
    BY <1>2, <1>3, <2>1, WriteKeeps
  <2>3. QED
    BY <1>4, <2>2
<1>7. Ended(j, st, code)[j] = row
  BY <1>4 DEF SoundQueue, Ids
<1>8. Len(Ended(j, st, code)) = Len(jobs)
  BY <1>4 DEF SoundQueue
<1>9. QED
  BY <1>5, <1>6, <1>7, <1>8 DEF row

\* So does a new row made from one.
LEMMA CopySound ==
    ASSUME SoundQueue(jobs, cps), NEW j \in Ids, NEW key \in PlanKey, NEW left \in Int
    PROVE  /\ Copy(j, key, left) \in JobRow
           /\ Sound(Copy(j, key, left), cps)
           /\ Copy(j, key, left).mode = jobs[j].mode
<1>1. jobs[j] \in JobRow /\ Sound(jobs[j], cps)
  BY DEF SoundQueue, Ids
<1>2. Copy(j, key, left) \in JobRow
  BY <1>1 DEF Copy, JobRow, Codes
<1>3. /\ Copy(j, key, left).prev = jobs[j].prev /\ Copy(j, key, left).from = jobs[j].from
      /\ Copy(j, key, left).through = jobs[j].through
      /\ Copy(j, key, left).mode = jobs[j].mode
  BY <1>1 DEF Copy, JobRow
<1>4. QED
  BY <1>1, <1>2, <1>3, SamePlanSound

-----------------------------------------------------------------------------
(* Steps of a job that publish nothing.                                    *)

\* What such a step leaves behind: sound rows, none of them gone, and at most
\* the job's own end.
Works(j) ==
    /\ SoundQueue(jobs', cps)
    /\ Len(jobs') >= Len(jobs)
    /\ done' = done \/ done' = Append(done, j)

\* The finished rows remain rows of the queue.
LEMMA FinishedKept ==
    ASSUME FinishedKnown, SoundQueue(jobs, cps), NEW pages, SoundQueue(jobs', pages),
           Len(jobs') >= Len(jobs),
           done' = done \/ \E j \in Ids: done' = Append(done, j)
    PROVE  FinishedKnown'
<1>1. Ids \subseteq Ids' /\ Ids \subseteq Nat
  BY DEF SoundQueue, Ids
<1>2. CASE done' = done
  BY <1>1, <1>2 DEF FinishedKnown
<1>3. CASE \E j \in Ids: done' = Append(done, j)
  <2>1. PICK j \in Ids: done' = Append(done, j)
    BY <1>3
  <2>2. /\ done' \in Seq(Nat)
        /\ \A i \in DOMAIN done': done'[i] = j \/ (i \in DOMAIN done /\ done'[i] = done[i])
    BY <1>1, <2>1 DEF FinishedKnown
  <2>3. QED
    BY <1>1, <2>2 DEF FinishedKnown
<1>4. QED
  BY <1>2, <1>3

\* A step of a job that leaves the history, the goal and the chat alone keeps
\* the invariant.
LEMMA WorkKeeps ==
    ASSUME IInv, NEW j \in Ids, Works(j), UNCHANGED <<n, goal, cps, tx>>
    PROVE  IInv'
<1>1. FinishedKnown'
  BY FinishedKept DEF IInv, Works
<1>2. SoundChat'
  BY DEF IInv, SoundChat, Latest, Through
<1>3. QED
  BY <1>1, <1>2 DEF IInv, Works

\* A row may be written over as long as its plan stays.
LEMMA RowWritten ==
    ASSUME SoundQueue(jobs, cps), NEW j \in Ids, NEW row \in JobRow,
           row.prev = jobs[j].prev, row.from = jobs[j].from,
           row.through = jobs[j].through, row.mode = jobs[j].mode
    PROVE  /\ SoundQueue([jobs EXCEPT ![j] = row], cps)
           /\ Len([jobs EXCEPT ![j] = row]) = Len(jobs)
<1>1. jobs[j] \in JobRow /\ Sound(jobs[j], cps) /\ j \in DOMAIN jobs
  BY DEF SoundQueue, Ids
<1>2. Sound(row, cps)
  BY <1>1, SamePlanSound
<1>3. QED
  BY <1>1, <1>2, WriteKeeps DEF SoundQueue

\* A row that ends may count its last attempt as well.
LEMMA EndedWorks ==
    ASSUME SoundQueue(jobs, cps), NEW j \in Ids,
           NEW st \in {"ok", "dead"}, NEW code \in Codes
    PROVE  LET q == [Ended(j, st, code) EXCEPT ![j].left = @ - 1]
           IN  SoundQueue(q, cps) /\ Len(q) = Len(jobs)
<1>1. jobs[j] \in JobRow /\ jobs \in Seq(JobRow) /\ j \in DOMAIN jobs
  BY DEF SoundQueue, Ids
<1> DEFINE left == jobs[j].left - 1
           row == [jobs[j] EXCEPT !.st = st, !.code = code, !.short = FALSE, !.left = left]
<1>2. row \in JobRow
  <2>1. left \in Int
    BY <1>1 DEF JobRow
  <2> HIDE DEF left
  <2>2. QED
    BY <1>1, <2>1 DEF JobRow
<1>3. /\ row.prev = jobs[j].prev /\ row.from = jobs[j].from
      /\ row.through = jobs[j].through /\ row.mode = jobs[j].mode
  BY <1>1 DEF JobRow
<1>4. [Ended(j, st, code) EXCEPT ![j].left = @ - 1] = [jobs EXCEPT ![j] = row]
  BY <1>1 DEF Ended, JobRow
<1> HIDE DEF row
<1>5. QED
  BY <1>2, <1>3, <1>4, RowWritten

\* The first look of a plan's job: it ends, or it is running with one call less.
LEMMA BeginPlanKeeps ==
    ASSUME IInv, NEW j \in Ids, BeginPlan(j)
    PROVE  IInv'
<1>1. SoundQueue(jobs, cps) /\ jobs[j] \in JobRow /\ jobs \in Seq(JobRow) /\ j \in DOMAIN jobs
  BY DEF IInv, SoundQueue, Ids
<1>2. CASE \E st \in {"ok", "dead"}, code \in Codes:
             /\ jobs' = [Ended(j, st, code) EXCEPT ![j].left = @ - 1]
             /\ done' = Append(done, j)
  <2>1. PICK st \in {"ok", "dead"}, code \in Codes:
             /\ jobs' = [Ended(j, st, code) EXCEPT ![j].left = @ - 1]
             /\ done' = Append(done, j)
    BY <1>2
  <2>2. SoundQueue(jobs', cps) /\ Len(jobs') = Len(jobs)
    BY <1>1, <2>1, EndedWorks
  <2>3. Works(j)
    BY <1>1, <2>1, <2>2 DEF Works
  <2>4. QED
    BY <2>3, WorkKeeps DEF BeginPlan, env
<1>3. CASE /\ jobs' = [jobs EXCEPT ![j].st = "running", ![j].left = @ - 1,
                                   ![j].calls = Available(j) - 1, ![j].spent = @ + 1]
           /\ UNCHANGED done
  <2>1. Available(j) \in Int
    <3>1. jobs[j].calls \in Int /\ jobs[j].left \in Int
      BY <1>1 DEF JobRow
    <3>2. QED
      BY <3>1, MinOfTwo DEF Available
  <2> DEFINE left == jobs[j].left - 1
             calls == Available(j) - 1
             spent == jobs[j].spent + 1
             row == [jobs[j] EXCEPT !.st = "running", !.left = left,
                                    !.calls = calls, !.spent = spent]
  <2>2. row \in JobRow
    <3>1. left \in Int /\ calls \in Int /\ spent \in Nat
      <4>1. jobs[j].left \in Int /\ jobs[j].spent \in Nat
        BY <1>1 DEF JobRow
      <4>2. QED
        BY <2>1, <4>1
    <3> HIDE DEF left, calls, spent
    <3>2. QED
      BY <1>1, <3>1 DEF JobRow
  <2>3. /\ row.prev = jobs[j].prev /\ row.from = jobs[j].from
        /\ row.through = jobs[j].through /\ row.mode = jobs[j].mode
    BY <1>1 DEF JobRow
  <2>4. jobs' = [jobs EXCEPT ![j] = row]
    BY <1>1, <1>3 DEF JobRow
  <2> HIDE DEF row
  <2>5. SoundQueue(jobs', cps) /\ Len(jobs') = Len(jobs)
    BY <1>1, <2>2, <2>3, <2>4, RowWritten
  <2>6. Works(j)
    BY <1>1, <1>3, <2>5 DEF Works, SoundQueue
  <2>7. QED
    BY <2>6, WorkKeeps DEF BeginPlan, env
<1>4. QED
  BY <1>2, <1>3 DEF BeginPlan, Codes

\* An output that was cut, and a failure: the row waits again, or it is dead.
LEMMA SetbackKeeps ==
    ASSUME IInv, NEW j \in Ids, CutShort(j) \/ Fail(j)
    PROVE  IInv'
<1>1. SoundQueue(jobs, cps) /\ jobs[j] \in JobRow /\ jobs \in Seq(JobRow) /\ j \in DOMAIN jobs
  BY DEF IInv, SoundQueue, Ids
<1>2. SoundQueue(jobs', cps) /\ Len(jobs') = Len(jobs)
  <2>1. CASE jobs' = Ended(j, "dead", "failed")
    BY <1>1, <2>1, EndedSound DEF Codes
  <2>2. CASE jobs' = [jobs EXCEPT ![j].cut = TRUE, ![j].short = TRUE]
    <3> DEFINE row == [jobs[j] EXCEPT !.cut = TRUE, !.short = TRUE]
    <3>1. /\ row \in JobRow /\ row.prev = jobs[j].prev /\ row.from = jobs[j].from
          /\ row.through = jobs[j].through /\ row.mode = jobs[j].mode
      BY <1>1 DEF JobRow
    <3>2. jobs' = [jobs EXCEPT ![j] = row]
      BY <1>1, <2>2
    <3> HIDE DEF row
    <3>3. QED
      BY <1>1, <3>1, <3>2, RowWritten
  <2>3. CASE jobs' = [jobs EXCEPT ![j].st = "ready", ![j].short = FALSE]
    <3> DEFINE row == [jobs[j] EXCEPT !.st = "ready", !.short = FALSE]
    <3>1. /\ row \in JobRow /\ row.prev = jobs[j].prev /\ row.from = jobs[j].from
          /\ row.through = jobs[j].through /\ row.mode = jobs[j].mode
      BY <1>1 DEF JobRow
    <3>2. jobs' = [jobs EXCEPT ![j] = row]
      BY <1>1, <2>3
    <3> HIDE DEF row
    <3>3. QED
      BY <1>1, <3>1, <3>2, RowWritten
  <2>4. QED
    BY <2>1, <2>2, <2>3 DEF CutShort, Fail
<1>3. Works(j)
  BY <1>1, <1>2 DEF Works, CutShort, Fail, SoundQueue
<1>4. QED
  BY <1>3, WorkKeeps DEF CutShort, Fail, env

\* A page that is done: the same one again, the next one, or the publisher.
LEMMA CommitPlanKeeps ==
    ASSUME IInv, NEW j \in Ids, CommitPlan(j)
    PROVE  IInv'
<1>1. SoundQueue(jobs, cps) /\ jobs[j] \in JobRow /\ jobs \in Seq(JobRow)
      /\ j \in DOMAIN jobs /\ j \in Nat /\ Sound(jobs[j], cps)
  BY DEF IInv, SoundQueue, Ids
<1>2. /\ jobs[j].prev \in Nat /\ jobs[j].through \in Nat /\ jobs[j].page \in Nat
      /\ jobs[j].cut \in BOOLEAN /\ jobs[j].of \in Nat /\ jobs[j].calls \in Int
  BY <1>1 DEF JobRow
<1>3. jobs[j].mode = "plan" /\ done' = Append(done, j) /\ Len(jobs) \in Nat
  BY <1>1 DEF CommitPlan
<1> DEFINE code == IF LastPage(j) /\ ~jobs[j].short THEN "draft" ELSE "page"
           drafted == [Ended(j, "ok", "draft") EXCEPT ![j].mode = "publish"]
           finished == IF Applicable(j) /\ LastPage(j) /\ ~jobs[j].short
                       THEN drafted ELSE Ended(j, "ok", code)
<1>4. SoundQueue(finished, cps) /\ Len(finished) = Len(jobs)
  <2>1. SoundQueue(Ended(j, "ok", code), cps) /\ Len(Ended(j, "ok", code)) = Len(jobs)
    <3>1. code \in Codes
      BY DEF Codes
    <3> HIDE DEF code
    <3>2. QED
      BY <1>1, <3>1, EndedSound
  <2>2. SoundQueue(drafted, cps) /\ Len(drafted) = Len(jobs)
    <3> DEFINE row == [jobs[j] EXCEPT !.st = "ok", !.code = "draft", !.short = FALSE,
                                      !.mode = "publish"]
    <3>1. row \in JobRow
      BY <1>1 DEF JobRow, Codes
    <3>2. /\ row.prev = jobs[j].prev /\ row.from = jobs[j].from
          /\ row.through = jobs[j].through /\ row.mode = "publish"
      BY <1>1 DEF JobRow
    <3>3. drafted = [jobs EXCEPT ![j] = row]
      BY <1>1 DEF Ended
    <3> HIDE DEF row, drafted
    <3>4. Sound(row, cps)
      BY <1>1, <1>3, <3>1, <3>2, SamePlanSound
    <3>5. /\ SoundQueue([jobs EXCEPT ![j] = row], cps)
          /\ Len([jobs EXCEPT ![j] = row]) = Len(jobs)
      BY <1>1, <3>1, <3>4, WriteKeeps
    <3>6. QED
      BY <3>3, <3>5
  <2> HIDE DEF code, drafted
  <2>3. QED
    BY <2>1, <2>2
<1> HIDE DEF finished
<1>5. ASSUME NEW job \in JobRow, Sound(job, cps), jobs' = With(finished, job)
      PROVE  SoundQueue(jobs', cps) /\ Len(jobs') >= Len(jobs)
  <2>1. SoundQueue(With(finished, job), cps) /\ Len(With(finished, job)) >= Len(finished)
    BY <1>4, <1>5, WithKeeps
  <2>2. QED
    BY <1>4, <1>5, <2>1
<1>6. ASSUME jobs' = finished
      PROVE  SoundQueue(jobs', cps) /\ Len(jobs') >= Len(jobs)
  <2>1. SoundQueue(jobs', cps) /\ Len(jobs') = Len(jobs)
    BY <1>4, <1>6
  <2>2. QED
    BY <1>3, <2>1
<1>7. ASSUME jobs' = With(finished, Copy(j, Key("smaller", 0, 0, jobs[j].page, TRUE, j), jobs[j].calls))
      PROVE  SoundQueue(jobs', cps) /\ Len(jobs') >= Len(jobs)
  <2>1. Key("smaller", 0, 0, jobs[j].page, TRUE, j) \in PlanKey
    BY <1>1, <1>2 DEF PlanKey, Key, Kinds
  <2> DEFINE key == Key("smaller", 0, 0, jobs[j].page, TRUE, j)
             copy == Copy(j, key, jobs[j].calls)
  <2> HIDE DEF key
  <2>2. copy \in JobRow /\ Sound(copy, cps)
    BY <1>1, <1>2, <2>1, CopySound DEF key
  <2>3. jobs' = With(finished, copy)
    BY <1>7 DEF key
  <2> HIDE DEF copy
  <2>4. QED
    BY <1>5, <2>2, <2>3
<1>8. ASSUME jobs' = With(finished, Publisher(j))
      PROVE  SoundQueue(jobs', cps) /\ Len(jobs') >= Len(jobs)
  <2> DEFINE key == Key("publish", jobs[j].prev, jobs[j].through, jobs[j].page,
                        jobs[j].cut, jobs[j].of)
             copy == Copy(j, key, Attempts)
  <2>1. key \in PlanKey /\ Attempts \in Int
    BY <1>1, <1>2, CheckpointsAssumption DEF PlanKey, Key, Kinds
  <2> HIDE DEF key
  <2>2. copy \in JobRow /\ Sound(copy, cps) /\ copy.mode = "plan"
    BY <1>1, <1>3, <2>1, CopySound
  <2>3. Publisher(j) = [copy EXCEPT !.mode = "publish"]
    BY DEF Publisher, key
  <2> HIDE DEF copy
  <2>4. Publisher(j) \in JobRow /\ Publisher(j).mode = "publish"
        /\ Publisher(j).prev = copy.prev /\ Publisher(j).from = copy.from
        /\ Publisher(j).through = copy.through
    BY <2>2, <2>3 DEF JobRow
  <2>5. Sound(Publisher(j), cps)
    BY <2>2, <2>4, SamePlanSound
  <2>6. QED
    BY <1>5, <1>8, <2>4, <2>5
<1>9. ASSUME jobs' = With(finished, NextPage(j))
      PROVE  SoundQueue(jobs', cps) /\ Len(jobs') >= Len(jobs)
  <2> DEFINE key == Key("page", jobs[j].prev, jobs[j].through, jobs[j].page + 1,
                        jobs[j].cut, jobs[j].of)
             left == jobs[j].calls + 1
             copy == Copy(j, key, left)
  <2>1. key \in PlanKey /\ left \in Int
    <3>1. jobs[j].page + 1 \in Nat
      BY <1>2
    <3>2. QED
      BY <1>1, <1>2, <3>1 DEF PlanKey, Key, Kinds
  <2> HIDE DEF key, left
  <2>2. copy \in JobRow /\ Sound(copy, cps) /\ copy.mode = "plan"
    BY <1>1, <1>3, <2>1, CopySound
  <2>3. NextPage(j) = [copy EXCEPT !.page = @ + 1, !.calls = @ + 1]
    BY DEF NextPage, key, left
  <2> HIDE DEF copy
  <2>4. copy.page + 1 \in Nat /\ copy.calls + 1 \in Int
    <3>1. copy.page \in Nat /\ copy.calls \in Int
      BY <2>2 DEF JobRow
    <3>2. QED
      BY <3>1
  <2>5. NextPage(j) \in JobRow /\ NextPage(j).mode = copy.mode
        /\ NextPage(j).prev = copy.prev /\ NextPage(j).from = copy.from
        /\ NextPage(j).through = copy.through
    BY <2>2, <2>3, <2>4 DEF JobRow
  <2>6. Sound(NextPage(j), cps)
    BY <2>2, <2>5, SamePlanSound
  <2>7. QED
    BY <1>5, <1>9, <2>5, <2>6
<1>10. \/ jobs' = finished \/ jobs' = With(finished, Publisher(j))
       \/ jobs' = With(finished, NextPage(j))
       \/ jobs' = With(finished, Copy(j, Key("smaller", 0, 0, jobs[j].page, TRUE, j), jobs[j].calls))
  BY DEF CommitPlan, finished
<1>11. SoundQueue(jobs', cps) /\ Len(jobs') >= Len(jobs)
  BY <1>6, <1>7, <1>8, <1>9, <1>10
<1>12. Works(j)
  BY <1>3, <1>11 DEF Works
<1>13. QED
  BY <1>12, WorkKeeps DEF CommitPlan, env

\* The first look of a publisher, or of the periodic second look.
LEMMA BeginOtherKeeps ==
    ASSUME IInv, NEW j \in Ids, BeginPublish(j) \/ BeginReverify(j)
    PROVE  IInv'
<1>1. SoundQueue(jobs, cps) /\ jobs[j] \in JobRow /\ jobs \in Seq(JobRow) /\ j \in DOMAIN jobs
  BY DEF IInv, SoundQueue, Ids
<1>8. (done' = done \/ done' = Append(done, j)) /\ Len(jobs) \in Nat
  BY <1>1 DEF BeginPublish, BeginReverify
<1>2. ASSUME jobs' = [jobs EXCEPT ![j].st = "running", ![j].left = @ - 1]
      PROVE  Works(j)
  <2> DEFINE left == jobs[j].left - 1
             row == [jobs[j] EXCEPT !.st = "running", !.left = left]
  <2>1. row \in JobRow
    <3>1. left \in Int
      BY <1>1 DEF JobRow
    <3> HIDE DEF left
    <3>2. QED
      BY <1>1, <3>1 DEF JobRow
  <2>2. /\ row.prev = jobs[j].prev /\ row.from = jobs[j].from
        /\ row.through = jobs[j].through /\ row.mode = jobs[j].mode
    BY <1>1 DEF JobRow
  <2>3. jobs' = [jobs EXCEPT ![j] = row]
    BY <1>1, <1>2 DEF JobRow
  <2> HIDE DEF row
  <2>4. SoundQueue(jobs', cps) /\ Len(jobs') = Len(jobs)
    BY <1>1, <2>1, <2>2, <2>3, RowWritten
  <2>5. QED
    BY <1>8, <2>4 DEF Works
<1>3. ASSUME \E code \in Codes: jobs' = [Ended(j, "ok", code) EXCEPT ![j].left = @ - 1]
      PROVE  Works(j)
  <2>1. SoundQueue(jobs', cps) /\ Len(jobs') = Len(jobs)
    BY <1>1, <1>3, EndedWorks
  <2>2. QED
    BY <1>8, <2>1 DEF Works
<1>4. ASSUME jobs' = Ended(j, "ok", "disabled")
      PROVE  Works(j)
  <2>1. SoundQueue(jobs', cps) /\ Len(jobs') = Len(jobs)
    BY <1>1, <1>4, EndedSound DEF Codes
  <2>2. QED
    BY <1>8, <2>1 DEF Works
<1>5. ASSUME jobs' = jobs
      PROVE  Works(j)
  BY <1>1, <1>8, <1>5 DEF Works
<1>6. Works(j)
  <2>1. CASE BeginPublish(j)
    BY <1>2, <1>3, <1>5, <2>1 DEF BeginPublish, Codes
  <2>2. CASE BeginReverify(j)
    BY <1>2, <1>4, <2>2 DEF BeginReverify
  <2>3. QED
    BY <2>1, <2>2
<1>9. QED
  BY <1>6, WorkKeeps DEF BeginPublish, BeginReverify, env

-----------------------------------------------------------------------------
(* A publication.                                                          *)

\* A checkpoint that continues the latest one extends the chain, and covers at
\* least as much.
LEMMA ChainGrows ==
    ASSUME Chain(cps), NEW page \in Page, page.prev = Latest,
           IF page.re THEN page.through = Through(Latest)
           ELSE page.from = Through(Latest) + 1 /\ page.through >= page.from
    PROVE  /\ Chain(Append(cps, page))
           /\ page.through >= Through(Latest)
<1>1. cps \in Seq(Page) /\ Latest \in Nat /\ Latest = Len(cps)
  BY DEF Chain, Latest
<1>2. Through(Latest) = Cover(cps, Latest) /\ Through(Latest) \in Nat
  BY <1>1, CoverIsThrough
<1>3. page.through \in Nat /\ page.from \in Nat
  BY DEF Page
<1>4. /\ Append(cps, page) \in Seq(Page)
      /\ Len(Append(cps, page)) = Latest + 1
      /\ \A c \in 0..Latest: Cover(Append(cps, page), c) = Cover(cps, c)
  BY <1>1, CoverKept
<1>5. ASSUME NEW c \in 1..Latest + 1
      PROVE  /\ Append(cps, page)[c].prev = c - 1
             /\ IF Append(cps, page)[c].re
                THEN Append(cps, page)[c].through = Cover(Append(cps, page), c - 1)
                ELSE /\ Append(cps, page)[c].from = Cover(Append(cps, page), c - 1) + 1
                     /\ Append(cps, page)[c].through >= Append(cps, page)[c].from
  <2>1. c - 1 \in 0..Latest
    BY <1>1
  <2>2. CASE c \in DOMAIN cps
    <3>1. Append(cps, page)[c] = cps[c]
      BY <1>1, <2>2
    <3>2. Cover(Append(cps, page), c - 1) = Cover(cps, c - 1)
      BY <1>4, <2>1
    <3>3. QED
      BY <2>2, <3>1, <3>2 DEF Chain
  <2>3. CASE c = Latest + 1
    <3>1. Append(cps, page)[c] = page /\ c - 1 = Latest
      BY <1>1, <2>3
    <3>2. Cover(Append(cps, page), c - 1) = Through(Latest)
      BY <1>1, <1>2, <1>4, <3>1
    <3>3. QED
      BY <3>1, <3>2
  <2>4. QED
    BY <1>1, <2>2, <2>3
<1>6. Chain(Append(cps, page))
  BY <1>1, <1>4, <1>5 DEF Chain
<1>7. QED
  BY <1>2, <1>3, <1>6

\* The next segment reserved by a publication continues the new checkpoint.
LEMMA FollowUpsSound ==
    ASSUME NEW pages \in Seq(Page), Len(pages) = Latest + 1, Latest \in Nat,
           NEW t \in Nat, Cover(pages, Latest + 1) = t, NEW g \in Nat,
           NEW queue, SoundQueue(queue, pages), NEW q \in FollowUps(queue, t, g)
    PROVE  SoundQueue(q, pages) /\ Len(q) >= Len(queue)
<1> DEFINE c == Latest + 1
           to == SegmentEnd(t, g)
<1>1. CASE q = queue
  BY <1>1 DEF SoundQueue
<1>2. CASE q # queue
  <2>1. q = With(queue, Plan(c, t, to, TRUE)) /\ ~(g <= t)
    BY <1>2 DEF FollowUps
  <2>2. to \in Nat /\ to > t
    BY <2>1, SegmentEndBetween
  <2>3. c \in 0..Len(pages)
    OBVIOUS
  <2> HIDE DEF c, to
  <2>4. Cover(pages, c) = t
    BY DEF c
  <2>5. Plan(c, t, to, TRUE) \in JobRow /\ Sound(Plan(c, t, to, TRUE), pages)
    BY <2>2, <2>3, <2>4, PlanSound
  <2>6. QED
    BY <2>1, <2>5, WithKeeps
<1>3. QED
  BY <1>1, <1>2

\* So does the job that will look at it again.
LEMMA ReverifierSound ==
    ASSUME NEW pages \in Seq(Page), Len(pages) = Latest + 1, Latest \in Nat, NEW j \in Ids,
           jobs[j].through \in Nat, Cover(pages, Latest + 1) = jobs[j].through
    PROVE  Reverifier(j) \in JobRow /\ Sound(Reverifier(j), pages)
<1> DEFINE c == Latest + 1
           t == jobs[j].through
           key == Key("reverify", c, t, 0, FALSE, 0)
           left == IF Attempts < 2 THEN Attempts ELSE 2
           planned == Plan(c, 0, t, FALSE)
<1>1. key \in PlanKey /\ left \in Int /\ c \in Nat
  BY CheckpointsAssumption DEF PlanKey, Key, Kinds
<1>2. planned \in JobRow
  <2>1. Key("plan", c, t, 0, FALSE, 0) \in PlanKey
    BY <1>1 DEF PlanKey, Key, Kinds
  <2>2. 0 + 1 \in Nat /\ Attempts \in Int /\ None \in Int /\ "" \in Codes
    BY CheckpointsAssumption DEF None, Codes
  <2> HIDE DEF c, t
  <2>3. t \in Nat
    BY DEF t
  <2>4. QED
    BY <1>1, <2>1, <2>2, <2>3 DEF Plan, JobRow
<1>3. planned.prev = c /\ planned.through = t
  BY DEF Plan
<1>4. Reverifier(j) = [planned EXCEPT !.key = key, !.mode = "reverify", !.left = left]
  BY DEF Reverifier
<1>5. Cover(pages, c) = t /\ c <= Len(pages)
  OBVIOUS
<1> HIDE DEF planned, key, left, c, t
<1>6. /\ Reverifier(j) \in JobRow /\ Reverifier(j).mode = "reverify"
      /\ Reverifier(j).prev = c /\ Reverifier(j).through = t
  BY <1>1, <1>2, <1>3, <1>4 DEF JobRow
<1>7. QED
  BY <1>5, <1>6 DEF Sound

\* What a publication leaves behind keeps the invariant, if the goal it clears
\* was reached and no chat transaction had read it.
LEMMA NewPageKeeps ==
    ASSUME IInv, NEW j \in Ids, NEW page \in Page, page.prev = Latest,
           IF page.re THEN page.through = Through(Latest)
           ELSE page.from = Through(Latest) + 1 /\ page.through >= page.from,
           cps' = Append(cps, page), SoundQueue(jobs', cps'), Len(jobs') >= Len(jobs),
           done' = Append(done, j), UNCHANGED <<n, tx>>,
           goal' = goal \/ (goal' = 0 /\ tx.goal = None)
    PROVE  IInv'
<1>1. Chain(cps') /\ page.through >= Through(Latest)
  BY ChainGrows DEF IInv
<1>2. FinishedKnown'
  BY FinishedKept DEF IInv
<1>3. SoundChat'
  <2>1. cps \in Seq(Page) /\ Latest \in Nat /\ Latest = Len(cps) /\ page.through \in Nat
    BY DEF IInv, Chain, Latest, Page
  <2>2. Latest' = Latest + 1 /\ Through(Latest)' = page.through
    BY <2>1 DEF Latest, Through
  <2>3. Through(Latest) \in Nat
    BY <2>1, CoverIsThrough DEF IInv
  <2>4. \A c \in 0..Latest: Through(c)' = Through(c)
    BY <2>1 DEF Through
  <2>5. tx.seen \in 0..Latest
    BY <2>1 DEF IInv, SoundChat
  <2>6. Through(tx.seen)' = Through(tx.seen)
    <3>1. Through(tx.seen)' = IF tx.seen = 0 THEN 0 ELSE cps'[tx.seen].through
      BY DEF Through
    <3>2. tx.seen # 0 => cps'[tx.seen] = cps[tx.seen]
      BY <2>1, <2>5
    <3>3. QED
      BY <3>1, <3>2 DEF Through
  <2>7. goal \in Nat
    BY DEF IInv
  <2>8. tx.goal # None => /\ goal' = goal
                          /\ tx.goal >= goal \/ (tx.goal = 0 /\ Through(Latest) >= goal)
    BY DEF IInv, SoundChat
  <2>9. tx.goal # None => tx.goal >= goal' \/ (tx.goal = 0 /\ Through(Latest)' >= goal')
    BY <1>1, <2>1, <2>2, <2>3, <2>7, <2>8
  <2>10. QED
    BY <2>1, <2>2, <2>5, <2>6, <2>9 DEF IInv, SoundChat
<1>4. QED
  BY <1>1, <1>2, <1>3 DEF IInv

\* The finalization of a publisher.
LEMMA CommitPublishKeeps ==
    ASSUME IInv, NEW j \in Ids, CommitPublish(j)
    PROVE  IInv'
<1> DEFINE finished == Ended(j, "ok", "ok")
           t == jobs[j].through
           page == [through |-> jobs[j].through, prev |-> jobs[j].prev,
                    from |-> jobs[j].from, re |-> FALSE]
<1>1. /\ SoundQueue(jobs, cps) /\ jobs[j] \in JobRow /\ Len(jobs) \in Nat
      /\ Sound(jobs[j], cps) /\ j \in Nat
  BY DEF IInv, SoundQueue, Ids
<1>2. /\ t \in Nat /\ jobs[j].prev \in Nat /\ jobs[j].from \in Nat
      /\ jobs[j].left + 1 \in Int /\ jobs[j].mode = "publish"
  <2>1. jobs[j].left \in Int
    BY <1>1 DEF JobRow
  <2>2. QED
    BY <1>1, <2>1 DEF JobRow, CommitPublish
<1>3. SoundQueue(finished, cps) /\ Len(finished) = Len(jobs)
  BY <1>1, EndedSound DEF Codes
<1>4. /\ jobs[j].st = "running" /\ done' = Append(done, j)
      /\ UNCHANGED <<env, n, enabled, faults, tx>>
  BY DEF CommitPublish
<1> HIDE DEF finished
<1>5. CASE jobs' = finished /\ UNCHANGED <<asked, goal, cps>>
  <2>1. Works(j)
    BY <1>1, <1>3, <1>4, <1>5 DEF Works
  <2>2. QED
    BY <1>4, <1>5, <2>1, WorkKeeps
<1>6. CASE /\ jobs' = With(finished, Copy(j, Key("wait", 0, 0, 0, FALSE, j), jobs[j].left + 1))
           /\ UNCHANGED <<asked, goal, cps>>
  <2> DEFINE key == Key("wait", 0, 0, 0, FALSE, j)
             left == jobs[j].left + 1
             copy == Copy(j, key, left)
  <2>1. key \in PlanKey /\ left \in Int
    BY <1>1, <1>2 DEF PlanKey, Key, Kinds
  <2>2. jobs' = With(finished, copy)
    BY <1>6
  <2> HIDE DEF key, left
  <2>3. copy \in JobRow /\ Sound(copy, cps)
    BY <1>1, <2>1, CopySound
  <2> HIDE DEF copy
  <2>4. SoundQueue(jobs', cps) /\ Len(jobs') >= Len(jobs)
    BY <1>3, <2>2, <2>3, WithKeeps
  <2>5. Works(j)
    BY <1>4, <2>4 DEF Works
  <2>6. QED
    BY <1>4, <1>6, <2>5, WorkKeeps
<1>7. CASE /\ Applicable(j)
           /\ \E g \in Cleared(t) :
                 Published(j, jobs[j].from, FALSE,
                     IF (Latest + 1) % ReverifyEvery = 0
                     THEN {With(finished, Reverifier(j))} ELSE FollowUps(finished, t, g), g)
  <2>1. PICK g \in Cleared(t) :
                 Published(j, jobs[j].from, FALSE,
                     IF (Latest + 1) % ReverifyEvery = 0
                     THEN {With(finished, Reverifier(j))} ELSE FollowUps(finished, t, g), g)
    BY <1>7
  <2>2. /\ cps' = Append(cps, page) /\ goal' = g
        /\ \/ jobs' = With(finished, Reverifier(j))
           \/ jobs' \in FollowUps(finished, t, g)
    BY <2>1 DEF Published
  <2>3. cps \in Seq(Page) /\ Latest \in Nat /\ Latest = Len(cps) /\ goal \in Nat /\ Chain(cps)
    BY DEF IInv, Chain, Latest
  <2>4. page \in Page /\ page.prev = Latest /\ page.through = t
        /\ page.from = jobs[j].from /\ ~page.re
    BY <1>2, <1>7 DEF Page, Applicable
  <2>5. jobs[j].from = Through(Latest) + 1 /\ jobs[j].through >= jobs[j].from
    <3>1. Through(Latest) = Cover(cps, Latest) /\ Through(Latest) \in Nat
      BY <2>3, CoverIsThrough
    <3>2. jobs[j].prev = Latest
      BY <1>7 DEF Applicable
    <3>3. QED
      BY <1>1, <1>2, <3>1, <3>2 DEF Sound
  <2> HIDE DEF page, t
  <2>6. /\ cps' \in Seq(Page) /\ Len(cps') = Latest + 1 /\ Cover(cps', Latest + 1) = t
        /\ SoundQueue(finished, cps')
    BY <1>3, <2>2, <2>3, <2>4, CoverKept, QueueKept
  <2>7. g \in Nat /\ (g = goal \/ (g = 0 /\ tx.goal = None))
    BY <2>1, <2>3 DEF Cleared
  <2>8. SoundQueue(jobs', cps') /\ Len(jobs') >= Len(jobs)
    <3>1. CASE jobs' = With(finished, Reverifier(j))
      <4>1. Reverifier(j) \in JobRow /\ Sound(Reverifier(j), cps')
        BY <1>2, <2>3, <2>6, ReverifierSound DEF t
      <4>2. QED
        BY <1>3, <2>6, <3>1, <4>1, WithKeeps
    <3>2. CASE jobs' \in FollowUps(finished, t, g)
      <4>1. t \in Nat
        BY <1>2
      <4>2. SoundQueue(jobs', cps') /\ Len(jobs') >= Len(finished)
        BY <2>3, <2>6, <2>7, <3>2, <4>1, FollowUpsSound
      <4>3. QED
        BY <1>3, <4>2
    <3>3. QED
      BY <2>2, <3>1, <3>2
  <2>9. IF page.re THEN page.through = Through(Latest)
        ELSE page.from = Through(Latest) + 1 /\ page.through >= page.from
    BY <2>4, <2>5 DEF t
  <2>10. UNCHANGED <<n, tx>>
    BY <1>4
  <2>11. QED
    BY <1>4, <2>2, <2>4, <2>7, <2>8, <2>9, <2>10, NewPageKeeps
<1>8. QED
  BY <1>5, <1>6, <1>7 DEF CommitPublish, finished

\* The finalization of a second look.
LEMMA CommitReverifyKeeps ==
    ASSUME IInv, NEW j \in Ids, CommitReverify(j)
    PROVE  IInv'
<1> DEFINE finished == Ended(j, "ok", "ok")
           t == jobs[j].through
           page == [through |-> jobs[j].through, prev |-> jobs[j].prev, from |-> 1, re |-> TRUE]
<1>1. /\ SoundQueue(jobs, cps) /\ jobs[j] \in JobRow /\ Len(jobs) \in Nat
      /\ Sound(jobs[j], cps)
  BY DEF IInv, SoundQueue, Ids
<1>2. t \in Nat /\ jobs[j].prev \in Nat /\ jobs[j].mode = "reverify"
  BY <1>1 DEF JobRow, CommitReverify
<1>3. SoundQueue(finished, cps) /\ Len(finished) = Len(jobs)
  BY <1>1, EndedSound DEF Codes
<1>4. done' = Append(done, j) /\ UNCHANGED <<env, n, enabled, faults, tx>>
  BY DEF CommitReverify
<1> HIDE DEF finished
<1>5. CASE jobs' = finished /\ UNCHANGED <<asked, goal, cps>>
  <2>1. Works(j)
    BY <1>1, <1>3, <1>4, <1>5 DEF Works
  <2>2. QED
    BY <1>4, <1>5, <2>1, WorkKeeps
<1>6. CASE Latest = jobs[j].prev /\ Published(j, 1, TRUE, FollowUps(finished, t, goal), goal)
  <2>1. cps' = Append(cps, page) /\ goal' = goal /\ jobs' \in FollowUps(finished, t, goal)
    BY <1>6 DEF Published
  <2>2. cps \in Seq(Page) /\ Latest \in Nat /\ Latest = Len(cps) /\ goal \in Nat /\ Chain(cps)
    BY DEF IInv, Chain, Latest
  <2>3. page \in Page /\ page.prev = Latest /\ page.through = t /\ page.re
    BY <1>2, <1>6 DEF Page
  <2>4. t = Through(Latest)
    <3>1. Through(Latest) = Cover(cps, Latest)
      BY <2>2, CoverIsThrough
    <3>2. QED
      BY <1>1, <1>2, <1>6, <3>1 DEF Sound
  <2> HIDE DEF page, t
  <2>5. /\ cps' \in Seq(Page) /\ Len(cps') = Latest + 1 /\ Cover(cps', Latest + 1) = t
        /\ SoundQueue(finished, cps')
    BY <1>3, <2>1, <2>2, <2>3, CoverKept, QueueKept
  <2>6. SoundQueue(jobs', cps') /\ Len(jobs') >= Len(jobs)
    <3>1. t \in Nat
      BY <1>2
    <3>2. SoundQueue(jobs', cps') /\ Len(jobs') >= Len(finished)
      BY <2>1, <2>2, <2>5, <3>1, FollowUpsSound
    <3>3. QED
      BY <1>3, <3>2
  <2>7. UNCHANGED <<n, tx>>
    BY <1>4
  <2>8. IF page.re THEN page.through = Through(Latest)
        ELSE page.from = Through(Latest) + 1 /\ page.through >= page.from
    BY <2>3, <2>4
  <2>9. QED
    BY <1>4, <2>1, <2>3, <2>6, <2>7, <2>8, NewPageKeeps
<1>7. QED
  BY <1>5, <1>6 DEF CommitReverify, finished

-----------------------------------------------------------------------------
(* The chat.                                                               *)

\* What a request for pressure asks for: the goal it leaves is not behind the
\* present one or ends it, and the plan it makes gets further.
LEMMA RequestSound ==
    ASSUME IInv, NEW b \in Nat
    PROVE  LET r == RequestPressure(jobs, Latest, goal, b)
           IN  /\ r.goal \in Nat
               /\ r.goal >= goal \/ (r.goal = 0 /\ Through(Latest) >= goal)
               /\ \/ r.queue = jobs
                  \/ \E to \in Nat: /\ to > Through(Latest)
                                    /\ r.queue = With(jobs, Plan(Latest, Through(Latest), to, TRUE))
<1> DEFINE t == Through(Latest)
           to == Max({goal, b})
           r == RequestPressure(jobs, Latest, goal, b)
<1>1. Latest \in Nat /\ t \in Nat /\ goal \in Nat
  BY CoverIsThrough DEF IInv
<1>2. to \in Nat /\ to >= goal /\ to >= b
  BY <1>1, MaxOfTwo
<1> HIDE DEF to, t
<1>3. CASE b = 0 \/ t >= b
  <2>1. /\ r.queue = jobs
        /\ r.goal = IF b > 0 /\ goal <= t /\ Processed(t) THEN 0 ELSE goal
    BY <1>3 DEF RequestPressure, t
  <2> HIDE DEF r
  <2>2. r.goal \in Nat /\ (r.goal >= goal \/ (r.goal = 0 /\ t >= goal))
    BY <1>1, <2>1
  <2>3. QED
    BY <2>1, <2>2 DEF t, r
<1>4. CASE ~(b = 0 \/ t >= b)
  <2>1. /\ r.goal = to
        /\ r.queue = jobs \/ r.queue = With(jobs, Plan(Latest, t, SegmentEnd(t, to), TRUE))
    BY <1>4 DEF RequestPressure, t, to
  <2>2. to > t
    BY <1>1, <1>2, <1>4
  <2>3. SegmentEnd(t, to) \in Nat /\ SegmentEnd(t, to) > t
    BY <1>1, <1>2, <2>2, SegmentEndBetween
  <2> HIDE DEF r
  <2>4. QED
    BY <1>1, <1>2, <2>1, <2>3 DEF t, r
<1>5. QED
  BY <1>3, <1>4

\* A chat transaction that begins reads a goal and a checkpoint nobody replaces
\* behind its back without its knowing.
LEMMA BeginTurnKeeps ==
    ASSUME IInv, NEW turn \in BOOLEAN, BeginTurn(turn)
    PROVE  IInv'
<1> DEFINE b == n + IF turn THEN 1 ELSE 0
           r == RequestPressure(jobs, Latest, goal, b)
           presses == enabled /\ (turn => b \in script.press)
           locks == presses /\ b > 0 /\ (Through(Latest) < b \/ r.goal # goal)
<1>1. b \in Nat /\ goal \in Nat /\ n \in Nat
  BY DEF IInv
<1>2. /\ tx' = [held |-> TRUE, turn |-> turn, seen |-> Latest,
                goal |-> IF locks THEN r.goal ELSE None,
                through |-> IF locks /\ Len(r.queue) > Len(jobs)
                            THEN r.queue[Len(r.queue)].through ELSE 0]
      /\ UNCHANGED <<env, n, enabled, faults, asked, goal, cps, jobs, done>>
  BY DEF BeginTurn
<1> HIDE DEF b
<1>3. /\ r.goal \in Nat
      /\ r.goal >= goal \/ (r.goal = 0 /\ Through(Latest) >= goal)
      /\ \/ r.queue = jobs
         \/ \E to \in Nat: /\ to > Through(Latest)
                           /\ r.queue = With(jobs, Plan(Latest, Through(Latest), to, TRUE))
  BY <1>1, RequestSound
<1> HIDE DEF r
<1>4. /\ Latest \in Nat /\ Through(Latest) \in Nat /\ Through(Latest) = Cover(cps, Latest)
      /\ cps \in Seq(Page) /\ Latest = Len(cps) /\ SoundQueue(jobs, cps) /\ Len(jobs) \in Nat
  BY CoverIsThrough DEF IInv, Chain, Latest, SoundQueue
<1>5. ASSUME Len(r.queue) > Len(jobs)
      PROVE  /\ r.queue[Len(r.queue)].through \in Nat
             /\ r.queue[Len(r.queue)].through > Through(Latest)
  <2>1. PICK to \in Nat: /\ to > Through(Latest)
                         /\ r.queue = With(jobs, Plan(Latest, Through(Latest), to, TRUE))
    <3>1. r.queue # jobs
      BY <1>4, <1>5
    <3>2. QED
      BY <1>3, <3>1
  <2> DEFINE planned == Plan(Latest, Through(Latest), to, TRUE)
  <2>2. planned \in JobRow /\ Sound(planned, cps) /\ planned.through = to
    <3>1. Latest \in 0..Len(cps) /\ to > Cover(cps, Latest)
      BY <1>4, <2>1
    <3>2. planned = Plan(Latest, Cover(cps, Latest), to, TRUE)
      BY <1>4
    <3> DEFINE same == Plan(Latest, Cover(cps, Latest), to, TRUE)
    <3>3. same \in JobRow /\ Sound(same, cps) /\ same.through = to
      BY <1>4, <2>1, <3>1, PlanSound
    <3> HIDE DEF planned, same
    <3>4. planned = same
      BY <3>2 DEF same
    <3>5. QED
      BY <3>3, <3>4
  <2> HIDE DEF planned
  <2>3. r.queue = With(jobs, planned)
    BY <2>1 DEF planned
  <2>4. r.queue[Len(r.queue)] = planned
    BY <1>4, <1>5, <2>2, <2>3, WithKeeps
  <2>5. QED
    BY <2>1, <2>2, <2>4
<1> HIDE DEF locks
<1>6. SoundChat'
  <2>1. /\ tx'.held = TRUE /\ tx'.turn = turn /\ tx'.seen = Latest
        /\ tx'.goal = (IF locks THEN r.goal ELSE None)
        /\ tx'.through = (IF locks /\ Len(r.queue) > Len(jobs)
                          THEN r.queue[Len(r.queue)].through ELSE 0)
    BY <1>2
  <2>2. tx' \in [held: BOOLEAN, turn: BOOLEAN, seen: Nat, goal: Nat \cup {None}, through: Nat]
    BY <1>2, <1>3, <1>4, <1>5
  <2>3. tx'.through # 0 => tx'.through > Through(Latest)
    BY <1>5, <2>1
  <2>4. tx'.goal # None => tx'.goal >= goal \/ (tx'.goal = 0 /\ Through(Latest) >= goal)
    BY <1>3, <2>1
  <2>5. goal' = goal /\ cps' = cps
    BY <1>2
  <2>6. Latest' = Latest /\ Through(Latest)' = Through(Latest)
    BY <2>5 DEF Latest, Through
  <2>7. Through(tx.seen)' = Through(Latest)
    BY <2>1, <2>5, <2>6 DEF Through
  <2>8. QED
    BY <1>4, <2>1, <2>2, <2>3, <2>4, <2>5, <2>6, <2>7 DEF SoundChat
<1>7. FinishedKnown'
  BY <1>2 DEF IInv, FinishedKnown, Ids
<1>8. QED
  BY <1>2, <1>6, <1>7 DEF IInv

\* A chat transaction that commits writes the goal and the plan it made, and
\* perhaps the ordinary plan of its turn.
LEMMA CommitTurnKeeps ==
    ASSUME IInv, CommitTurn
    PROVE  IInv'
<1> DEFINE g == IF tx.goal = None THEN goal ELSE tx.goal
           c == tx.seen
           press == Plan(c, Through(c), tx.through, TRUE)
           plain == Plan(c, Through(c), n, FALSE)
           queue == IF tx.through = 0 THEN jobs ELSE With(jobs, press)
<1>1. /\ SoundQueue(jobs, cps) /\ Len(jobs) \in Nat /\ n \in Nat /\ goal \in Nat
      /\ cps \in Seq(Page) /\ Latest \in Nat /\ Latest = Len(cps)
  BY DEF IInv, SoundQueue, Chain, Latest
<1>2. /\ tx \in [held: BOOLEAN, turn: BOOLEAN, seen: Nat, goal: Nat \cup {None}, through: Nat]
      /\ tx.seen <= Latest /\ (tx.through # 0 => tx.through > Through(tx.seen))
  BY DEF IInv, SoundChat
<1>3. c \in 0..Latest /\ tx.through \in Nat /\ g \in Nat
  BY <1>1, <1>2
<1>4. Through(c) = Cover(cps, c) /\ Through(c) \in Nat
  BY <1>3, CoverIsThrough DEF IInv
<1>5. /\ n' = (IF tx.turn THEN n + 1 ELSE n) /\ goal' = g /\ tx' = Nobody
      /\ UNCHANGED <<env, enabled, faults, cps, done>>
      /\ jobs' \in IF tx.turn /\ enabled /\ n > Through(c)
                   THEN Ordinary(queue, c, n, g) ELSE {queue}
  BY DEF CommitTurn
<1> HIDE DEF g, c
<1>6. SoundQueue(queue, cps) /\ Len(queue) >= Len(jobs)
  <2>1. CASE tx.through = 0
    BY <1>1, <2>1
  <2>2. CASE tx.through # 0
    <3>1. tx.through > Cover(cps, c)
      BY <1>2, <1>4, <2>2 DEF c
    <3>2. press \in JobRow /\ Sound(press, cps)
      BY <1>1, <1>3, <1>4, <3>1, PlanSound
    <3> HIDE DEF press
    <3>3. QED
      BY <1>1, <2>2, <3>2, WithKeeps
  <2>3. QED
    BY <2>1, <2>2
<1> HIDE DEF queue
<1>7. SoundQueue(jobs', cps) /\ Len(jobs') >= Len(jobs)
  <2>1. CASE jobs' = queue
    BY <1>6, <2>1
  <2>2. CASE jobs' # queue
    <3>1. jobs' \in Ordinary(queue, c, n, g) /\ n > Through(c)
      BY <1>5, <2>2
    <3>2. \/ jobs' = With(queue, plain)
          \/ \E i \in DOMAIN queue: jobs' = [queue EXCEPT ![i] = plain]
      BY <2>2, <3>1 DEF Ordinary
    <3>3. plain \in JobRow /\ Sound(plain, cps)
      BY <1>1, <1>3, <1>4, <3>1, PlanSound
    <3> HIDE DEF plain
    <3>4. CASE jobs' = With(queue, plain)
      <4>1. SoundQueue(jobs', cps) /\ Len(jobs') >= Len(queue)
        BY <1>6, <3>3, <3>4, WithKeeps
      <4>2. Len(queue) \in Nat /\ Len(jobs') \in Nat
        BY <1>6, <4>1 DEF SoundQueue
      <4>3. QED
        BY <1>1, <1>6, <4>1, <4>2
    <3>5. CASE \E i \in DOMAIN queue: jobs' = [queue EXCEPT ![i] = plain]
      <4>1. PICK i \in DOMAIN queue: jobs' = [queue EXCEPT ![i] = plain]
        BY <3>5
      <4>2. SoundQueue(jobs', cps)
        BY <1>6, <3>3, <4>1, WriteKeeps
      <4>3. Len(jobs') = Len(queue)
        BY <1>6, <4>1 DEF SoundQueue
      <4>4. QED
        BY <1>6, <4>2, <4>3
    <3>6. QED
      BY <3>2, <3>4, <3>5
  <2>3. QED
    BY <2>1, <2>2
<1>8. FinishedKnown'
  BY <1>5, <1>7, FinishedKept DEF IInv
<1>9. SoundChat'
  <2>1. Nobody \in [held: BOOLEAN, turn: BOOLEAN, seen: Nat, goal: Nat \cup {None}, through: Nat]
    BY DEF Nobody
  <2>2. Latest' = Latest
    BY <1>5 DEF Latest
  <2>3. QED
    BY <1>1, <1>5, <2>1, <2>2 DEF SoundChat, Nobody
<1>10. n' \in Nat /\ Chain(cps')
  BY <1>1, <1>5 DEF IInv
<1>11. QED
  BY <1>3, <1>5, <1>7, <1>8, <1>9, <1>10 DEF IInv

-----------------------------------------------------------------------------
(* The sweep.                                                              *)

\* The last of some finished rows is a row of the queue.
LEMMA LastIsRow ==
    ASSUME FinishedKnown, NEW of \in SUBSET DOMAIN done, of # {}
    PROVE  done[Max(of)] \in Ids /\ Max(of) \in of
<1>1. IsFiniteSet(of) /\ of \in SUBSET Int
  <2>1. DOMAIN done = 1..Len(done) /\ Len(done) \in Nat
    BY DEF FinishedKnown
  <2>2. IsFiniteSet(1..Len(done))
    BY <2>1, FS_Interval
  <2>3. QED
    BY <2>1, <2>2, FS_Subset
<1>2. Max(of) \in of
  BY <1>1, MaxOfFinite
<1>3. QED
  BY <1>2 DEF FinishedKnown

\* So is the one with the most pages made.
LEMMA BestIsRow ==
    ASSUME FinishedKnown, SoundQueue(jobs, cps), NEW of \in SUBSET DOMAIN done, of # {}
    PROVE  Best(of) \in Ids /\ \E i \in of : Best(of) = done[i]
<1> DEFINE drafts == {i \in of : jobs[done[i]].mode = "publish"}
           some == IF drafts = {} THEN of ELSE drafts
           far == {i \in some : \A k \in some : jobs[done[k]].page <= jobs[done[i]].page}
           pages == [i \in some |-> jobs[done[i]].page]
<1>1. some # {} /\ some \subseteq of
  OBVIOUS
<1>2. IsFiniteSet(some)
  <2>1. DOMAIN done = 1..Len(done) /\ Len(done) \in Nat
    BY DEF FinishedKnown
  <2>2. IsFiniteSet(1..Len(done))
    BY <2>1, FS_Interval
  <2>3. QED
    BY <1>1, <2>1, <2>2, FS_Subset
<1>3. pages \in [some -> Int]
  <2>1. \A i \in some: done[i] \in Ids /\ jobs[done[i]] \in JobRow
    BY <1>1 DEF FinishedKnown, SoundQueue, Ids
  <2>2. \A job \in JobRow: job.page \in Int
    BY DEF JobRow
  <2>3. QED
    BY <2>1, <2>2
<1> HIDE DEF some
<1>4. \E i \in some: \A k \in some: pages[k] <= pages[i]
  <2> HIDE DEF pages
  <2>1. QED
    BY <1>1, <1>2, <1>3, GreatestExists
<1>5. far # {} /\ far \subseteq DOMAIN done /\ far \subseteq of
  BY <1>1, <1>4
<1>6. Best(of) = done[Max(far)]
  BY DEF Best, some
<1> HIDE DEF far
<1>7. QED
  BY <1>5, <1>6, LastIsRow

\* What is done about a plan whose key is taken makes sound rows only.
LEMMA RecoveredSound ==
    ASSUME IInv, NEW t \in Nat, t > Through(Latest), NEW press \in BOOLEAN
    PROVE  /\ SoundQueue(Recovered(Latest, t, press), cps)
           /\ Len(Recovered(Latest, t, press)) >= Len(jobs)
<1> DEFINE of == Family(Latest, t)
           last == IF of = {} THEN 0 ELSE done[Max(of)]
           planned == Plan(Latest, Through(Latest), t, press)
<1>1. /\ SoundQueue(jobs, cps) /\ Len(jobs) \in Nat /\ FinishedKnown
      /\ cps \in Seq(Page) /\ Latest \in Nat /\ Latest = Len(cps)
      /\ \A i \in Ids: jobs[i] \in JobRow /\ i \in Nat
  BY DEF IInv, SoundQueue, Ids, Chain, Latest
<1>2. planned \in JobRow /\ Sound(planned, cps)
  <2>1. Through(Latest) = Cover(cps, Latest)
    BY CoverIsThrough DEF IInv
  <2> DEFINE same == Plan(Latest, Cover(cps, Latest), t, press)
  <2>2. same \in JobRow /\ Sound(same, cps)
    BY <1>1, <2>1, PlanSound
  <2> HIDE DEF planned, same
  <2>3. planned = same
    BY <2>1 DEF planned, same
  <2>4. QED
    BY <2>2, <2>3
<1>3. SoundQueue(Resumed(Latest, t, press), cps) /\ Len(Resumed(Latest, t, press)) >= Len(jobs)
  <2> DEFINE kept == {i \in of : /\ Kept(jobs[done[i]])
                                 /\ ~\E k \in of : k > i /\ jobs[done[k]].st = "dead"}
             j == Best(kept)
             key == Key("resume", 0, 0, 0, FALSE, j)
             left == jobs[j].left + 1
             copy == Copy(j, key, left)
             pressed == copy.press \/ (press /\ jobs[j].mode = "plan")
             row == [copy EXCEPT !.press = pressed]
  <2>1. CASE kept = {}
    BY <1>1, <2>1 DEF Resumed
  <2>2. CASE kept # {}
    <3>1. kept \in SUBSET DOMAIN done
      BY DEF Family
    <3> HIDE DEF kept
    <3>2. j \in Ids
      BY <1>1, <2>2, <3>1, BestIsRow
    <3> HIDE DEF j
    <3>3. key \in PlanKey /\ left \in Int
      <4>1. jobs[j].left \in Int
        BY <1>1, <3>2 DEF JobRow
      <4>2. QED
        BY <1>1, <3>2, <4>1 DEF PlanKey, Key, Kinds
    <3> HIDE DEF key, left
    <3>4. copy \in JobRow /\ Sound(copy, cps)
      BY <1>1, <3>2, <3>3, CopySound
    <3>5. Resumed(Latest, t, press) = With(jobs, row)
      BY <2>2 DEF Resumed, kept, j, key, left
    <3> HIDE DEF copy
    <3>6. pressed \in BOOLEAN
      OBVIOUS
    <3> HIDE DEF pressed
    <3>7. row \in JobRow /\ row.prev = copy.prev /\ row.from = copy.from
          /\ row.through = copy.through /\ row.mode = copy.mode
      BY <3>4, <3>6 DEF JobRow
    <3> HIDE DEF row
    <3>8. Sound(row, cps)
      BY <3>4, <3>7, SamePlanSound
    <3>9. QED
      BY <1>1, <3>5, <3>7, <3>8, WithKeeps
  <2>3. QED
    BY <2>1, <2>2
<1>4. ASSUME last # 0
      PROVE  /\ SoundQueue(Redone(last, Latest, t, press), cps)
             /\ Len(Redone(last, Latest, t, press)) >= Len(jobs)
  <2>1. of \in SUBSET DOMAIN done /\ of # {}
    BY <1>4 DEF Family
  <2>2. last \in Ids
    BY <1>1, <2>1, LastIsRow
  <2> DEFINE key == Key("redo", 0, 0, 0, FALSE, last)
             depth == jobs[last].depth + 1
             spent == jobs[last].spent
             row == [planned EXCEPT !.key = key, !.of = last, !.depth = depth, !.spent = spent]
  <2>3. key \in PlanKey /\ last \in Nat /\ depth \in Nat /\ spent \in Nat
    <3>1. jobs[last].depth \in Nat /\ jobs[last].spent \in Nat /\ last \in Nat
      BY <1>1, <2>2 DEF JobRow
    <3>2. QED
      BY <3>1 DEF PlanKey, Key, Kinds
  <2>4. Redone(last, Latest, t, press) = jobs \/ Redone(last, Latest, t, press) = With(jobs, row)
    BY DEF Redone
  <2> HIDE DEF key, depth, spent, planned, last
  <2>5. row \in JobRow /\ row.prev = planned.prev /\ row.from = planned.from
        /\ row.through = planned.through /\ row.mode = planned.mode
    BY <1>2, <2>3 DEF JobRow
  <2> HIDE DEF row
  <2>6. Sound(row, cps)
    BY <1>2, <2>5, SamePlanSound
  <2>7. QED
    BY <1>1, <2>4, <2>5, <2>6, WithKeeps
<1>5. \/ Recovered(Latest, t, press) = jobs
      \/ Recovered(Latest, t, press) = Resumed(Latest, t, press)
      \/ last # 0 /\ Recovered(Latest, t, press) = Redone(last, Latest, t, press)
  BY DEF Recovered
<1>6. QED
  BY <1>1, <1>3, <1>4, <1>5

\* The sweep clears a goal only where the summaries have reached it.
LEMMA SweepKeeps ==
    ASSUME IInv, Sweep
    PROVE  IInv'
<1> DEFINE c == Latest
           t == Through(c)
           g == IF t >= goal /\ Processed(t) THEN 0 ELSE goal
           press == g > 0
           to == IF press THEN SegmentEnd(t, g) ELSE SegmentEnd(t, n) - 1
           planned == Plan(c, t, to, press)
           grown == With(jobs, planned)
<1>1. /\ SoundQueue(jobs, cps) /\ Len(jobs) \in Nat /\ n \in Nat /\ goal \in Nat
      /\ cps \in Seq(Page) /\ Latest \in Nat /\ Latest = Len(cps)
      /\ t \in Nat /\ t = Cover(cps, c)
  BY CoverIsThrough DEF IInv, SoundQueue, Chain, Latest
<1>2. /\ jobs' = (IF to <= t THEN jobs ELSE IF grown # jobs THEN grown ELSE Recovered(c, to, press))
      /\ goal' = g /\ ~tx.held
      /\ UNCHANGED <<env, n, enabled, faults, cps, done, tx>>
  BY DEF Sweep, LockFree
<1>3. g \in Nat /\ press \in BOOLEAN
  BY <1>1
<1>4. to \in Int
  <2>1. ASSUME NEW x \in Int PROVE SegmentEnd(t, x) \in Int
    <3>1. t + SegmentTurns \in Int
      BY <1>1, CheckpointsAssumption
    <3>2. QED
      BY <3>1, MinOfTwo DEF SegmentEnd
  <2>2. SegmentEnd(t, g) \in Int /\ SegmentEnd(t, n) \in Int
    <3>1. g \in Int /\ n \in Int
      BY <1>1, <1>3
    <3> HIDE DEF t, g
    <3>2. QED
      BY <2>1, <3>1
  <2>3. CASE press
    <3>1. to = SegmentEnd(t, g)
      BY <2>3
    <3>2. QED
      BY <2>2, <3>1
  <2>4. CASE ~press
    <3>1. to = SegmentEnd(t, n) - 1
      BY <2>4
    <3> HIDE DEF t, to
    <3>2. QED
      BY <2>2, <3>1
  <2>5. QED
    BY <2>3, <2>4
<1> HIDE DEF g, press, to
<1>5. SoundQueue(jobs', cps) /\ Len(jobs') >= Len(jobs)
  <2>1. CASE to <= t
    BY <1>1, <1>2, <2>1
  <2>2. CASE ~(to <= t)
    <3>1. to \in Nat /\ to > t
      BY <1>1, <1>4, <2>2
    <3>2. SoundQueue(grown, cps) /\ Len(grown) >= Len(jobs)
      <4> DEFINE same == Plan(c, Cover(cps, c), to, press)
      <4>1. same \in JobRow /\ Sound(same, cps)
        BY <1>1, <1>3, <3>1, PlanSound
      <4> HIDE DEF planned, same
      <4>2. planned = same
        BY <1>1 DEF planned, same
      <4>3. QED
        BY <1>1, <4>1, <4>2, WithKeeps
    <3>3. SoundQueue(Recovered(c, to, press), cps) /\ Len(Recovered(c, to, press)) >= Len(jobs)
      BY <1>3, <3>1, RecoveredSound
    <3> HIDE DEF grown, t, c
    <3>4. QED
      BY <1>2, <2>2, <3>2, <3>3
  <2>3. QED
    BY <2>1, <2>2
<1>6. FinishedKnown'
  BY <1>2, <1>5, FinishedKept DEF IInv
<1>7. SoundChat'
  <2>1. tx = Nobody
    BY <1>2 DEF IInv, SoundChat
  <2>2. tx.goal = None
    BY <2>1 DEF Nobody
  <2>3. QED
    BY <1>2, <2>2 DEF IInv, SoundChat, Latest, Through
<1>8. QED
  BY <1>2, <1>3, <1>5, <1>6, <1>7 DEF IInv

-----------------------------------------------------------------------------
(* Every step.                                                             *)

\* At first there is nothing to be wrong.
LEMMA InvInit == Init => IInv
<1> SUFFICES ASSUME Init PROVE IInv
  OBVIOUS
<1>1. Chain(cps) /\ SoundQueue(jobs, cps) /\ FinishedKnown
  BY DEF Init, Chain, SoundQueue, FinishedKnown
<1>2. SoundChat
  BY DEF Init, SoundChat, Nobody, Latest
<1>3. QED
  BY <1>1, <1>2 DEF Init, IInv

\* The other work of the user and the operators touch none of it.
LEMMA OthersKeep ==
    ASSUME IInv, UNCHANGED <<n, goal, cps, jobs, done, tx>>
    PROVE  IInv'
BY DEF IInv, FinishedKnown, Ids, SoundChat, Latest, Through

\* Every step keeps the invariant.
LEMMA InvStep == IInv /\ [Next]_vars => IInv'
<1> SUFFICES ASSUME IInv, [Next]_vars PROVE IInv'
  OBVIOUS
<1>1. ASSUME NEW turn \in BOOLEAN, BeginTurn(turn) PROVE IInv'
  BY <1>1, BeginTurnKeeps
<1>2. CASE CommitTurn
  BY <1>2, CommitTurnKeeps
<1>3. ASSUME NEW j \in Ids, Begin(j) \/ CutShort(j) \/ Fail(j) \/ Finish(j) PROVE IInv'
  BY <1>3, BeginPlanKeeps, BeginOtherKeeps, SetbackKeeps, CommitPlanKeeps,
     CommitPublishKeeps, CommitReverifyKeeps DEF Begin, Finish
<1>4. CASE Sweep
  BY <1>4, SweepKeeps
<1>5. CASE Learn \/ Break \/ Mend \/ Compile \/ CompileDies \/ Toggle \/ UNCHANGED vars
  BY <1>5, OthersKeep DEF Learn, Break, Mend, Compile, CompileDies, Toggle, env, vars
<1>6. QED
  BY <1>1, <1>2, <1>3, <1>4, <1>5 DEF Next

\* The invariant holds throughout.
LEMMA InvCorrect == Spec => []IInv
BY InvInit, InvStep, PTL DEF Spec

-----------------------------------------------------------------------------
(* How often the model is called for one plan.                             *)

\* The calls one pass through a plan may make, one for each page and one for
\* each attempt but the last; and those of a plan made again d times.
Whole(job) == Attempts + job.through - job.from
Allowed(d, whole) == (d + 1) * whole

\* The calls a row and what follows from it may still make in this pass: a
\* page that succeeds gives its call back to the next one.
StillLeft(job) ==
    IF job.mode # "plan" \/ job.st = "dead" THEN 0
    ELSE job.through - job.from - job.page +
         (IF job.calls # None THEN job.calls
          ELSE IF job.st = "ok" THEN job.left + 1 ELSE job.left)

\* A waiting or running plan has not more tries than are counted.
Steady(job) ==
    /\ job.page <= job.through - job.from
    /\ job.calls >= None
    /\ job.left >= IF job.st \in {"ok", "dead"} THEN -1 ELSE 0
    /\ job.st = "running" => job.calls >= 0

Thrifty(job) ==
    /\ job.from <= job.through + 1
    /\ job.depth <= RedoMaxDepth
    /\ job.spent + StillLeft(job) <= Allowed(job.depth, Whole(job))
    /\ job.mode = "plan" => Steady(job)

ThriftyQueue(queue) == \A i \in DOMAIN queue : Thrifty(queue[i])

CallsInv == IInv /\ ThriftyQueue(jobs)

LEMMA AllowedGrows ==
    ASSUME NEW d \in Nat, NEW whole \in Nat
    PROVE  /\ Allowed(0, whole) = whole
           /\ Allowed(d, whole) \in Nat
           /\ Allowed(d + 1, whole) = Allowed(d, whole) + whole
           /\ \A r \in Nat : d <= r => Allowed(d, whole) <= Allowed(r, whole)
<1>1. Allowed(0, whole) = whole /\ Allowed(d + 1, whole) = Allowed(d, whole) + whole
  BY DEF Allowed
<1>2. \A k \in Nat : k * whole \in Nat
  OBVIOUS
<1>3. Allowed(d, whole) \in Nat
  BY <1>2 DEF Allowed
<1>4. ASSUME NEW r \in Nat, d <= r
      PROVE  Allowed(d, whole) <= Allowed(r, whole)
  <2>1. PICK k \in Nat : r = d + k
    <3>1. r - d \in Nat /\ r = d + (r - d)
      BY <1>4
    <3>2. QED
      BY <3>1
  <2>2. Allowed(r, whole) = Allowed(d, whole) + k * whole
    BY <2>1 DEF Allowed
  <2>3. QED
    BY <1>2, <1>3, <2>2
<1>5. QED
  BY <1>1, <1>3, <1>4

\* What the fields are, and that nothing left is negative.
LEMMA CallsTyped ==
    ASSUME NEW x \in JobRow
    PROVE  /\ x.through \in Nat /\ x.from \in Nat /\ x.depth \in Nat /\ x.spent \in Nat
           /\ x.page \in Nat /\ x.calls \in Int /\ x.left \in Int
           /\ x.st \in {"ready", "running", "ok", "dead"}
           /\ x.mode \in {"plan", "publish", "reverify"}
           /\ Thrifty(x) => StillLeft(x) \in Nat /\ Whole(x) \in Nat
                            /\ Allowed(x.depth, Whole(x)) \in Nat
<1>1. /\ x.through \in Nat /\ x.from \in Nat /\ x.depth \in Nat /\ x.spent \in Nat
      /\ x.page \in Nat /\ x.calls \in Int /\ x.left \in Int
      /\ x.st \in {"ready", "running", "ok", "dead"}
      /\ x.mode \in {"plan", "publish", "reverify"}
  BY DEF JobRow
<1>2. Thrifty(x) => StillLeft(x) \in Nat
  BY <1>1 DEF Thrifty, StillLeft, Steady, None
<1>3. Thrifty(x) => Whole(x) \in Nat
  BY <1>1, CheckpointsAssumption DEF Thrifty, Whole
<1>4. Thrifty(x) => Allowed(x.depth, Whole(x)) \in Nat
  BY <1>1, <1>3, AllowedGrows
<1>5. QED
  BY <1>1, <1>2, <1>3, <1>4

\* Two rows of one pass through one plan that have made the same calls.
OnePass(x, y) ==
    /\ y.through = x.through /\ y.from = x.from /\ y.depth = x.depth /\ y.spent = x.spent

\* A row that may make no more calls than another is as thrifty.
LEMMA ThriftKept ==
    ASSUME NEW x \in JobRow, NEW y \in JobRow, Thrifty(x), OnePass(x, y),
           StillLeft(y) <= StillLeft(x), y.mode = "plan" => Steady(y)
    PROVE  Thrifty(y)
<1>1. Whole(y) = Whole(x) /\ y.depth = x.depth
  BY DEF Whole, OnePass
<1>2. Allowed(y.depth, Whole(y)) = Allowed(x.depth, Whole(x))
  BY <1>1
<1>3. StillLeft(y) \in Int
  BY CallsTyped DEF StillLeft
<1>4. y.spent + StillLeft(y) <= x.spent + StillLeft(x)
  BY <1>3, CallsTyped DEF OnePass
<1>5. x.spent + StillLeft(x) \in Int /\ y.spent + StillLeft(y) \in Int
      /\ Allowed(x.depth, Whole(x)) \in Int
  BY <1>3, CallsTyped
<1>6. y.spent + StillLeft(y) <= Allowed(y.depth, Whole(y))
  BY <1>2, <1>4, <1>5 DEF Thrifty
<1>7. QED
  BY <1>6 DEF Thrifty, OnePass

\* A new plan may make all the calls of its pass.
LEMMA PlanThrifty ==
    ASSUME NEW c \in Nat, NEW after \in Nat, NEW t \in Nat, t > after, NEW press \in BOOLEAN
    PROVE  Thrifty(Plan(c, after, t, press))
<1> DEFINE x == Plan(c, after, t, press)
<1>1. /\ x.through = t /\ x.from = after + 1 /\ x.depth = 0 /\ x.spent = 0 /\ x.page = 0
      /\ x.calls = None /\ x.left = Attempts /\ x.st = "ready" /\ x.mode = "plan"
  BY DEF Plan
<1> HIDE DEF x
<1>2. Attempts \in Nat /\ RedoMaxDepth \in Nat
  BY CheckpointsAssumption
<1>3. Whole(x) \in Nat /\ StillLeft(x) = Whole(x)
  BY <1>1, <1>2 DEF Whole, StillLeft
<1>4. Allowed(x.depth, Whole(x)) = Whole(x)
  BY <1>1, <1>3, AllowedGrows
<1>5. Steady(x)
  BY <1>1, <1>2 DEF Steady, None
<1>6. x.spent + StillLeft(x) <= Allowed(x.depth, Whole(x))
  BY <1>1, <1>3, <1>4
<1>7. QED
  BY <1>1, <1>2, <1>5, <1>6 DEF Thrifty, x

\* A row that ends, and a plan that begins its call, waits again, or is
\* continued on the same page or the next.
LEMMA EndThrifty ==
    ASSUME NEW x \in JobRow, NEW y \in JobRow, Thrifty(x), OnePass(x, y),
           y.st \in {"ok", "dead"}, y.mode \in {x.mode, "publish"},
           y.page = x.page, y.calls = x.calls,
           \/ x.st = "running" /\ y.left = x.left
           \/ x.st = "ready" /\ y.left = x.left - 1
           \/ x.mode = "reverify"
    PROVE  Thrifty(y)
<1>1. StillLeft(y) <= StillLeft(x)
  BY CallsTyped DEF StillLeft, Thrifty, Steady, OnePass, None
<1>2. y.mode = "plan" => Steady(y)
  BY CallsTyped DEF Thrifty, Steady, OnePass, None
<1>3. QED
  BY <1>1, <1>2, ThriftKept

LEMMA CallThrifty ==
    ASSUME NEW x \in JobRow, NEW y \in JobRow, Thrifty(x), x.mode = "plan", x.st = "ready",
           y.through = x.through, y.from = x.from, y.depth = x.depth, y.mode = "plan",
           y.page = x.page, y.st = "running", y.spent = x.spent + 1, y.left = x.left - 1,
           NEW available \in Int, available # 0, available <= x.left,
           x.calls = None => available = x.left,
           x.calls # None => available \in {x.calls, x.left} /\ available <= x.calls,
           y.calls = available - 1
    PROVE  Thrifty(y)
<1>1. available >= 1
  BY CallsTyped DEF Thrifty, Steady, None
<1>2. y.spent + StillLeft(y) <= x.spent + StillLeft(x)
  BY <1>1, CallsTyped DEF StillLeft, Thrifty, None
<1>3. Steady(y)
  BY <1>1, CallsTyped DEF Thrifty, Steady, None
<1>4. Allowed(y.depth, Whole(y)) = Allowed(x.depth, Whole(x))
  BY DEF Whole
<1>5. x.spent + StillLeft(x) \in Int /\ y.spent + StillLeft(y) \in Int
      /\ Allowed(x.depth, Whole(x)) \in Int
  <2>1. StillLeft(y) \in Int
    BY CallsTyped DEF StillLeft
  <2>2. QED
    BY <2>1, CallsTyped
<1>6. y.spent + StillLeft(y) <= Allowed(y.depth, Whole(y))
  BY <1>2, <1>4, <1>5 DEF Thrifty
<1>7. QED
  BY <1>3, <1>6 DEF Thrifty

LEMMA AgainThrifty ==
    ASSUME NEW x \in JobRow, NEW y \in JobRow, Thrifty(x), OnePass(x, y),
           y.mode = x.mode, y.page = x.page, y.calls = x.calls,
           \/ x.st = "running" /\ y.st = "running" /\ y.left = x.left
           \/ x.st = "running" /\ y.st = "ready" /\ (x.mode = "plan" => y.left >= 0)
           \/ x.st = "ok" /\ y.st = "ready" /\ y.left = x.left + 1
           \/ x.mode # "plan"
    PROVE  Thrifty(y)
<1>1. StillLeft(y) <= StillLeft(x)
  BY CallsTyped DEF StillLeft, Thrifty, Steady, OnePass, None
<1>2. y.mode = "plan" => Steady(y)
  BY CallsTyped DEF Thrifty, Steady, OnePass, None
<1>3. QED
  BY <1>1, <1>2, ThriftKept

LEMMA PublishThrifty ==
    ASSUME NEW x \in JobRow, NEW y \in JobRow, Thrifty(x), OnePass(x, y), y.mode # "plan"
    PROVE  Thrifty(y)
<1>1. StillLeft(y) <= StillLeft(x)
  BY CallsTyped DEF StillLeft
<1>2. QED
  BY <1>1, ThriftKept

LEMMA NextThrifty ==
    ASSUME NEW x \in JobRow, NEW y \in JobRow, Thrifty(x), OnePass(x, y),
           x.mode = "plan", x.st = "running", y.mode = "plan", y.st = "ready",
           y.page = x.page + 1, y.calls = x.calls + 1, y.left = x.calls + 1,
           x.page + 1 <= x.through - x.from
    PROVE  Thrifty(y)
<1>1. StillLeft(y) <= StillLeft(x)
  BY CallsTyped DEF StillLeft, Thrifty, Steady, OnePass, None
<1>2. Steady(y)
  BY CallsTyped DEF Thrifty, Steady, OnePass, None
<1>3. QED
  BY <1>1, <1>2, ThriftKept

LEMMA RedoThrifty ==
    ASSUME NEW x \in JobRow, NEW y \in JobRow, Thrifty(x), x.depth < RedoMaxDepth,
           y.through = x.through, y.from = x.from, y.depth = x.depth + 1, y.spent = x.spent,
           y.mode = "plan", y.st = "ready", y.page = 0, y.calls = None, y.left = Attempts,
           y.from <= y.through
    PROVE  Thrifty(y)
<1>1. Attempts \in Nat /\ RedoMaxDepth \in Nat
  BY CheckpointsAssumption
<1>2. Whole(y) = Whole(x) /\ Whole(x) \in Nat /\ StillLeft(y) = Whole(x)
  BY <1>1, CallsTyped DEF Whole, StillLeft
<1>3. Allowed(y.depth, Whole(y)) = Allowed(x.depth, Whole(x)) + Whole(x)
  <2>1. Allowed(y.depth, Whole(y)) = Allowed(x.depth + 1, Whole(x))
    BY <1>2
  <2>2. x.depth \in Nat
    BY CallsTyped
  <2>3. Allowed(x.depth + 1, Whole(x)) = Allowed(x.depth, Whole(x)) + Whole(x)
    BY <1>2, <2>2, AllowedGrows
  <2>4. QED
    BY <2>1, <2>3
<1>4. x.spent <= Allowed(x.depth, Whole(x)) /\ Allowed(x.depth, Whole(x)) \in Nat
  BY CallsTyped DEF Thrifty
<1>5. y.spent + StillLeft(y) <= Allowed(y.depth, Whole(y))
  BY <1>2, <1>3, <1>4, CallsTyped
<1>6. Steady(y)
  BY <1>1, CallsTyped DEF Steady, None
<1>7. QED
  BY <1>1, <1>5, <1>6, CallsTyped DEF Thrifty

\* Enqueueing a thrifty row, and writing one in the place of another.
LEMMA WithThrifty ==
    ASSUME NEW queue \in Seq(JobRow), ThriftyQueue(queue), NEW job, Thrifty(job)
    PROVE  ThriftyQueue(With(queue, job))
<1>1. CASE With(queue, job) = queue
  BY <1>1
<1>2. CASE With(queue, job) = Append(queue, job)
  <2>1. /\ DOMAIN Append(queue, job) = 1..Len(queue) + 1
        /\ \A i \in 1..Len(queue) + 1:
              Append(queue, job)[i] = IF i <= Len(queue) THEN queue[i] ELSE job
    OBVIOUS
  <2>2. \A i \in 1..Len(queue) : Thrifty(queue[i])
    BY DEF ThriftyQueue
  <2>3. ASSUME NEW i \in 1..Len(queue) + 1 PROVE Thrifty(Append(queue, job)[i])
    <3>1. CASE i <= Len(queue)
      <4>1. i \in 1..Len(queue) /\ Append(queue, job)[i] = queue[i]
        BY <2>1, <3>1
      <4>2. QED
        BY <2>2, <4>1
    <3>2. CASE ~(i <= Len(queue))
      <4>1. Append(queue, job)[i] = job
        BY <2>1, <3>2
      <4>2. QED
        BY <4>1
    <3>3. QED
      BY <3>1, <3>2
  <2>4. ThriftyQueue(Append(queue, job))
    BY <2>1, <2>3 DEF ThriftyQueue
  <2>5. QED
    BY <1>2, <2>4
<1>3. QED
  BY <1>1, <1>2 DEF With

LEMMA WriteThrifty ==
    ASSUME NEW queue \in Seq(JobRow), ThriftyQueue(queue), NEW i \in DOMAIN queue,
           NEW job, Thrifty(job)
    PROVE  ThriftyQueue([queue EXCEPT ![i] = job])
<1> DEFINE new == [queue EXCEPT ![i] = job]
<1>1. DOMAIN new = DOMAIN queue /\ \A k \in DOMAIN queue : new[k] = IF k = i THEN job ELSE queue[k]
  OBVIOUS
<1> HIDE DEF new
<1>2. ASSUME NEW k \in DOMAIN new PROVE Thrifty(new[k])
  <2>1. CASE k = i
    <3>1. new[k] = job
      BY <1>1, <2>1
    <3>2. QED
      BY <3>1
  <2>2. CASE k # i
    <3>1. k \in DOMAIN queue /\ new[k] = queue[k]
      BY <1>1, <2>2
    <3>2. QED
      BY <3>1 DEF ThriftyQueue
  <2>3. QED
    BY <2>1, <2>2
<1>3. ThriftyQueue(new)
  BY <1>2 DEF ThriftyQueue
<1>4. QED
  BY <1>3 DEF new

\* What the invariant says of one row.
LEMMA RowThrifty ==
    ASSUME CallsInv, NEW j \in Ids
    PROVE  /\ jobs \in Seq(JobRow) /\ j \in DOMAIN jobs /\ j \in Nat /\ jobs[j] \in JobRow
           /\ SoundQueue(jobs, cps) /\ Sound(jobs[j], cps) /\ Thrifty(jobs[j])
<1>1. SoundQueue(jobs, cps) /\ j \in DOMAIN jobs
  BY DEF CallsInv, IInv, Ids
<1>2. jobs \in Seq(JobRow) /\ j \in Nat /\ jobs[j] \in JobRow /\ Sound(jobs[j], cps)
  BY <1>1 DEF SoundQueue
<1>3. Thrifty(jobs[j])
  BY <1>1 DEF CallsInv, ThriftyQueue
<1>4. QED
  BY <1>1, <1>2, <1>3

\* A row that ends, with or without counting its last attempt, is a row still.
LEMMA EndedThrifty ==
    ASSUME CallsInv, NEW j \in Ids, NEW st \in {"ok", "dead"}, NEW code \in Codes,
           jobs[j].st = "running" \/ jobs[j].mode = "reverify"
    PROVE  /\ ThriftyQueue(Ended(j, st, code))
           /\ Ended(j, st, code) \in Seq(JobRow)
<1>1. /\ jobs \in Seq(JobRow) /\ j \in DOMAIN jobs /\ jobs[j] \in JobRow
      /\ SoundQueue(jobs, cps) /\ Thrifty(jobs[j]) /\ ThriftyQueue(jobs)
  BY RowThrifty DEF CallsInv
<1> DEFINE row == [jobs[j] EXCEPT !.st = st, !.code = code, !.short = FALSE]
<1>2. row \in JobRow
  BY <1>1 DEF JobRow
<1>3. /\ OnePass(jobs[j], row) /\ row.st = st /\ row.mode = jobs[j].mode
      /\ row.page = jobs[j].page /\ row.calls = jobs[j].calls /\ row.left = jobs[j].left
  BY <1>1 DEF JobRow, OnePass
<1>4. Ended(j, st, code) = [jobs EXCEPT ![j] = row]
  BY <1>1 DEF Ended, JobRow
<1> HIDE DEF row
<1>5. Thrifty(row)
  BY <1>1, <1>2, <1>3, EndThrifty
<1>6. ThriftyQueue(Ended(j, st, code))
  BY <1>1, <1>4, <1>5, WriteThrifty
<1>7. Ended(j, st, code) \in Seq(JobRow)
  BY <1>1, <1>2, <1>4
<1>8. QED
  BY <1>6, <1>7

LEMMA EndedWorksThrifty ==
    ASSUME CallsInv, NEW j \in Ids, NEW st \in {"ok", "dead"}, NEW code \in Codes,
           jobs[j].st = "ready"
    PROVE  ThriftyQueue([Ended(j, st, code) EXCEPT ![j].left = @ - 1])
<1>1. /\ jobs \in Seq(JobRow) /\ j \in DOMAIN jobs /\ jobs[j] \in JobRow
      /\ Thrifty(jobs[j]) /\ ThriftyQueue(jobs)
  BY RowThrifty DEF CallsInv
<1> DEFINE left == jobs[j].left - 1
           row == [jobs[j] EXCEPT !.st = st, !.code = code, !.short = FALSE, !.left = left]
<1>2. left \in Int
  BY <1>1 DEF JobRow
<1>3. row \in JobRow
  <2> HIDE DEF left
  <2>1. QED
    BY <1>1, <1>2 DEF JobRow
<1>4. /\ OnePass(jobs[j], row) /\ row.st = st /\ row.mode = jobs[j].mode
      /\ row.page = jobs[j].page /\ row.calls = jobs[j].calls /\ row.left = jobs[j].left - 1
  BY <1>1 DEF JobRow, OnePass
<1>5. [Ended(j, st, code) EXCEPT ![j].left = @ - 1] = [jobs EXCEPT ![j] = row]
  BY <1>1 DEF Ended, JobRow
<1> HIDE DEF row, left
<1>6. Thrifty(row)
  BY <1>1, <1>3, <1>4, EndThrifty
<1>7. QED
  BY <1>1, <1>5, <1>6, WriteThrifty

\* A new row with the payload of another.
LEMMA CopyIs ==
    ASSUME NEW j \in Ids, jobs[j] \in JobRow, NEW key \in PlanKey, NEW left \in Int
    PROVE  LET y == Copy(j, key, left)
           IN  /\ y \in JobRow /\ OnePass(jobs[j], y) /\ y.mode = jobs[j].mode
               /\ y.st = "ready" /\ y.page = jobs[j].page /\ y.calls = jobs[j].calls
               /\ y.left = left
<1> DEFINE y == Copy(j, key, left)
<1>1. y \in JobRow
  BY DEF Copy, JobRow, Codes
<1>2. /\ OnePass(jobs[j], y) /\ y.mode = jobs[j].mode
      /\ y.st = "ready" /\ y.page = jobs[j].page /\ y.calls = jobs[j].calls /\ y.left = left
  BY DEF Copy, JobRow, OnePass
<1>3. QED
  BY <1>1, <1>2

\* The first look of a plan's job counts the call it is about to make.
LEMMA BeginPlanThrifty ==
    ASSUME CallsInv, NEW j \in Ids, BeginPlan(j)
    PROVE  ThriftyQueue(jobs')
<1>1. /\ jobs \in Seq(JobRow) /\ j \in DOMAIN jobs /\ jobs[j] \in JobRow
      /\ Thrifty(jobs[j]) /\ ThriftyQueue(jobs)
  BY RowThrifty DEF CallsInv
<1>2. jobs[j].st = "ready" /\ jobs[j].mode = "plan"
  BY DEF BeginPlan
<1>3. CASE \E st \in {"ok", "dead"}, code \in Codes:
             jobs' = [Ended(j, st, code) EXCEPT ![j].left = @ - 1]
  BY <1>2, <1>3, EndedWorksThrifty
<1>4. CASE /\ Available(j) # 0
           /\ jobs' = [jobs EXCEPT ![j].st = "running", ![j].left = @ - 1,
                                   ![j].calls = Available(j) - 1, ![j].spent = @ + 1]
  <2> DEFINE available == Available(j)
             left == jobs[j].left - 1
             calls == available - 1
             spent == jobs[j].spent + 1
             row == [jobs[j] EXCEPT !.st = "running", !.left = left,
                                    !.calls = calls, !.spent = spent]
  <2>1. /\ available \in Int /\ available # 0 /\ available <= jobs[j].left
        /\ jobs[j].calls = None => available = jobs[j].left
        /\ jobs[j].calls # None => /\ available \in {jobs[j].calls, jobs[j].left}
                                   /\ available <= jobs[j].calls
    <3>1. jobs[j].calls \in Int /\ jobs[j].left \in Int
      BY <1>1 DEF JobRow
    <3>2. QED
      BY <1>4, <3>1, MinOfTwo DEF Available
  <2> HIDE DEF available
  <2>2. left \in Int /\ calls \in Int /\ spent \in Nat
    <3>1. jobs[j].left \in Int /\ jobs[j].spent \in Nat
      BY <1>1 DEF JobRow
    <3>2. QED
      BY <2>1, <3>1
  <2>3. row \in JobRow
    <3> HIDE DEF left, calls, spent
    <3>1. QED
      BY <1>1, <2>2 DEF JobRow
  <2>4. /\ row.through = jobs[j].through /\ row.from = jobs[j].from
        /\ row.depth = jobs[j].depth /\ row.mode = "plan" /\ row.page = jobs[j].page
        /\ row.st = "running" /\ row.spent = spent /\ row.left = left /\ row.calls = calls
    BY <1>1, <1>2 DEF JobRow
  <2>5. jobs' = [jobs EXCEPT ![j] = row]
    BY <1>1, <1>4 DEF JobRow, available
  <2> HIDE DEF row
  <2>6. Thrifty(row)
    BY <1>1, <1>2, <2>1, <2>3, <2>4, CallThrifty
  <2>7. QED
    BY <1>1, <2>5, <2>6, WriteThrifty
<1>5. QED
  BY <1>3, <1>4 DEF BeginPlan, Codes

\* A setback leaves the row as many calls as it had, or none.
LEMMA SetbackThrifty ==
    ASSUME CallsInv, NEW j \in Ids, CutShort(j) \/ Fail(j)
    PROVE  ThriftyQueue(jobs')
<1>1. /\ jobs \in Seq(JobRow) /\ j \in DOMAIN jobs /\ jobs[j] \in JobRow
      /\ Thrifty(jobs[j]) /\ ThriftyQueue(jobs)
  BY RowThrifty DEF CallsInv
<1>2. jobs[j].st = "running"
  BY DEF CutShort, Fail
<1>3. CASE jobs' = Ended(j, "dead", "failed")
  BY <1>2, <1>3, EndedThrifty DEF Codes
<1>4. CASE jobs' = [jobs EXCEPT ![j].cut = TRUE, ![j].short = TRUE]
  <2> DEFINE row == [jobs[j] EXCEPT !.cut = TRUE, !.short = TRUE]
  <2>1. row \in JobRow
    BY <1>1 DEF JobRow
  <2>2. /\ OnePass(jobs[j], row) /\ row.mode = jobs[j].mode /\ row.page = jobs[j].page
        /\ row.calls = jobs[j].calls /\ row.st = jobs[j].st /\ row.left = jobs[j].left
    BY <1>1 DEF JobRow, OnePass
  <2>3. jobs' = [jobs EXCEPT ![j] = row]
    BY <1>1, <1>4
  <2> HIDE DEF row
  <2>4. Thrifty(row)
    BY <1>1, <1>2, <2>1, <2>2, AgainThrifty
  <2>5. QED
    BY <1>1, <2>3, <2>4, WriteThrifty
<1>5. CASE jobs[j].left # 0 /\ jobs' = [jobs EXCEPT ![j].st = "ready", ![j].short = FALSE]
  <2> DEFINE row == [jobs[j] EXCEPT !.st = "ready", !.short = FALSE]
  <2>1. row \in JobRow
    BY <1>1 DEF JobRow
  <2>2. /\ OnePass(jobs[j], row) /\ row.mode = jobs[j].mode /\ row.page = jobs[j].page
        /\ row.calls = jobs[j].calls /\ row.st = "ready" /\ row.left = jobs[j].left
    BY <1>1 DEF JobRow, OnePass
  <2>3. jobs' = [jobs EXCEPT ![j] = row]
    BY <1>1, <1>5
  <2> HIDE DEF row
  <2>4. jobs[j].mode = "plan" => row.left >= 0
    BY <1>1, <1>2, <2>2 DEF Thrifty, Steady
  <2>5. Thrifty(row)
    BY <1>1, <1>2, <2>1, <2>2, <2>4, AgainThrifty
  <2>6. QED
    BY <1>1, <2>3, <2>5, WriteThrifty
<1>6. QED
  BY <1>3, <1>4, <1>5 DEF CutShort, Fail

\* The next page has the call back that made this one; the same page again has
\* the calls that are left.
LEMMA CommitPlanThrifty ==
    ASSUME CallsInv, NEW j \in Ids, CommitPlan(j)
    PROVE  ThriftyQueue(jobs')
<1>1. /\ jobs \in Seq(JobRow) /\ j \in DOMAIN jobs /\ jobs[j] \in JobRow /\ j \in Nat
      /\ Thrifty(jobs[j]) /\ ThriftyQueue(jobs)
  BY RowThrifty DEF CallsInv
<1>2. jobs[j].st = "running" /\ jobs[j].mode = "plan"
  BY DEF CommitPlan
<1>3. /\ jobs[j].prev \in Nat /\ jobs[j].through \in Nat /\ jobs[j].page \in Nat
      /\ jobs[j].from \in Nat /\ jobs[j].cut \in BOOLEAN /\ jobs[j].of \in Nat
      /\ jobs[j].calls \in Int
  BY <1>1 DEF JobRow
<1> DEFINE code == IF LastPage(j) /\ ~jobs[j].short THEN "draft" ELSE "page"
           drafted == [Ended(j, "ok", "draft") EXCEPT ![j].mode = "publish"]
           finished == IF Applicable(j) /\ LastPage(j) /\ ~jobs[j].short
                       THEN drafted ELSE Ended(j, "ok", code)
<1>4. finished \in Seq(JobRow) /\ ThriftyQueue(finished)
  <2>1. Ended(j, "ok", code) \in Seq(JobRow) /\ ThriftyQueue(Ended(j, "ok", code))
    <3>1. code \in Codes
      BY DEF Codes
    <3> HIDE DEF code
    <3>2. QED
      BY <1>2, <3>1, EndedThrifty
  <2>2. drafted \in Seq(JobRow) /\ ThriftyQueue(drafted)
    <3> DEFINE row == [jobs[j] EXCEPT !.st = "ok", !.code = "draft", !.short = FALSE,
                                      !.mode = "publish"]
    <3>1. row \in JobRow
      BY <1>1 DEF JobRow, Codes
    <3>2. OnePass(jobs[j], row) /\ row.mode = "publish"
      BY <1>1 DEF JobRow, OnePass
    <3>3. drafted = [jobs EXCEPT ![j] = row]
      BY <1>1 DEF Ended
    <3> HIDE DEF row, drafted
    <3>4. Thrifty(row)
      BY <1>1, <3>1, <3>2, PublishThrifty
    <3>5. ThriftyQueue(drafted)
      BY <1>1, <3>3, <3>4, WriteThrifty
    <3>6. drafted \in Seq(JobRow)
      BY <1>1, <3>1, <3>3
    <3>7. QED
      BY <3>5, <3>6
  <2> HIDE DEF code, drafted
  <2>3. QED
    BY <2>1, <2>2
<1> HIDE DEF finished
<1>5. CASE jobs' = With(finished, Copy(j, Key("smaller", 0, 0, jobs[j].page, TRUE, j), jobs[j].calls))
  <2> DEFINE key == Key("smaller", 0, 0, jobs[j].page, TRUE, j)
             left == jobs[j].calls
             copy == Copy(j, key, left)
  <2>1. key \in PlanKey /\ left \in Int
    BY <1>1, <1>3 DEF PlanKey, Key, Kinds
  <2>2. jobs' = With(finished, copy)
    BY <1>5
  <2>3. left >= 0
    BY <1>1, <1>2, <1>3 DEF Thrifty, Steady
  <2> HIDE DEF key, left
  <2>4. /\ copy \in JobRow /\ OnePass(jobs[j], copy) /\ copy.mode = jobs[j].mode
        /\ copy.st = "ready" /\ copy.page = jobs[j].page /\ copy.calls = jobs[j].calls
        /\ copy.left = left
    BY <1>1, <2>1, CopyIs
  <2> HIDE DEF copy
  <2>5. Thrifty(copy)
    BY <1>1, <1>2, <2>3, <2>4, AgainThrifty
  <2>6. QED
    BY <1>4, <2>2, <2>5, WithThrifty
<1>6. CASE jobs' = With(finished, Publisher(j))
  <2> DEFINE key == Key("publish", jobs[j].prev, jobs[j].through, jobs[j].page,
                        jobs[j].cut, jobs[j].of)
             copy == Copy(j, key, Attempts)
  <2>1. key \in PlanKey /\ Attempts \in Int
    BY <1>1, <1>3, CheckpointsAssumption DEF PlanKey, Key, Kinds
  <2> HIDE DEF key
  <2>2. copy \in JobRow /\ OnePass(jobs[j], copy)
    BY <1>1, <2>1, CopyIs
  <2>3. Publisher(j) = [copy EXCEPT !.mode = "publish"]
    BY DEF Publisher, key
  <2> HIDE DEF copy
  <2>4. Publisher(j) \in JobRow /\ Publisher(j).mode = "publish" /\ OnePass(jobs[j], Publisher(j))
    BY <2>2, <2>3 DEF JobRow, OnePass
  <2>5. Thrifty(Publisher(j))
    BY <1>1, <2>4, PublishThrifty
  <2>6. QED
    BY <1>4, <1>6, <2>5, WithThrifty
<1>7. CASE ~LastPage(j) /\ jobs' = With(finished, NextPage(j))
  <2> DEFINE key == Key("page", jobs[j].prev, jobs[j].through, jobs[j].page + 1,
                        jobs[j].cut, jobs[j].of)
             left == jobs[j].calls + 1
             copy == Copy(j, key, left)
  <2>1. key \in PlanKey /\ left \in Int
    <3>1. jobs[j].page + 1 \in Nat
      BY <1>3
    <3>2. QED
      BY <1>1, <1>3, <3>1 DEF PlanKey, Key, Kinds
  <2>2. NextPage(j) = [copy EXCEPT !.page = copy.page + 1, !.calls = copy.calls + 1]
    BY DEF NextPage, key, left
  <2>3. left = jobs[j].calls + 1
    OBVIOUS
  <2> HIDE DEF key, left
  <2>4. /\ copy \in JobRow /\ OnePass(jobs[j], copy) /\ copy.mode = jobs[j].mode
        /\ copy.st = "ready" /\ copy.page = jobs[j].page /\ copy.calls = jobs[j].calls
        /\ copy.left = left
    BY <1>1, <2>1, CopyIs
  <2> HIDE DEF copy
  <2> DEFINE page == copy.page + 1
             calls == copy.calls + 1
             row == [copy EXCEPT !.page = page, !.calls = calls]
  <2>5. page \in Nat /\ calls \in Int /\ page = jobs[j].page + 1 /\ calls = jobs[j].calls + 1
    BY <1>3, <2>4
  <2>6. NextPage(j) = row
    BY <2>2
  <2> HIDE DEF page, calls
  <2>7. row \in JobRow
    BY <2>4, <2>5 DEF JobRow
  <2>8. /\ OnePass(jobs[j], row) /\ row.mode = copy.mode /\ row.st = copy.st
        /\ row.page = page /\ row.calls = calls /\ row.left = copy.left
    BY <2>4 DEF JobRow, OnePass
  <2> HIDE DEF row
  <2>9. jobs[j].page + 1 <= jobs[j].through - jobs[j].from
    BY <1>3, <1>7 DEF LastPage
  <2>10. Thrifty(row)
    <3>1. row.mode = "plan" /\ row.st = "ready" /\ row.page = jobs[j].page + 1
          /\ row.calls = jobs[j].calls + 1 /\ row.left = jobs[j].calls + 1
      BY <1>2, <2>3, <2>4, <2>5, <2>8
    <3>2. QED
      BY <1>1, <1>2, <2>7, <2>8, <2>9, <3>1, NextThrifty
  <2>11. QED
    BY <1>4, <1>7, <2>6, <2>10, WithThrifty
<1>8. CASE jobs' = finished
  BY <1>4, <1>8
<1>9. \/ jobs' = finished \/ jobs' = With(finished, Publisher(j))
      \/ ~LastPage(j) /\ jobs' = With(finished, NextPage(j))
      \/ jobs' = With(finished, Copy(j, Key("smaller", 0, 0, jobs[j].page, TRUE, j), jobs[j].calls))
  BY DEF CommitPlan, finished
<1>10. QED
  BY <1>5, <1>6, <1>7, <1>8, <1>9

\* A publisher and a second look make none of these calls.
LEMMA BeginOtherThrifty ==
    ASSUME CallsInv, NEW j \in Ids, BeginPublish(j) \/ BeginReverify(j)
    PROVE  ThriftyQueue(jobs')
<1>1. /\ jobs \in Seq(JobRow) /\ j \in DOMAIN jobs /\ jobs[j] \in JobRow
      /\ Thrifty(jobs[j]) /\ ThriftyQueue(jobs)
  BY RowThrifty DEF CallsInv
<1>2. jobs[j].st = "ready" /\ jobs[j].mode # "plan"
  BY DEF BeginPublish, BeginReverify
<1>3. CASE jobs' = [jobs EXCEPT ![j].st = "running", ![j].left = @ - 1]
  <2> DEFINE left == jobs[j].left - 1
             row == [jobs[j] EXCEPT !.st = "running", !.left = left]
  <2>1. left \in Int
    BY <1>1 DEF JobRow
  <2>2. row \in JobRow
    <3> HIDE DEF left
    <3>1. QED
      BY <1>1, <2>1 DEF JobRow
  <2>3. OnePass(jobs[j], row) /\ row.mode # "plan"
    BY <1>1, <1>2 DEF JobRow, OnePass
  <2>4. jobs' = [jobs EXCEPT ![j] = row]
    BY <1>1, <1>3 DEF JobRow
  <2> HIDE DEF row
  <2>5. Thrifty(row)
    BY <1>1, <2>2, <2>3, PublishThrifty
  <2>6. QED
    BY <1>1, <2>4, <2>5, WriteThrifty
<1>4. CASE \E code \in Codes : jobs' = [Ended(j, "ok", code) EXCEPT ![j].left = @ - 1]
  BY <1>2, <1>4, EndedWorksThrifty
<1>5. CASE jobs[j].mode = "reverify" /\ jobs' = Ended(j, "ok", "disabled")
  BY <1>5, EndedThrifty DEF Codes
<1>6. CASE jobs' = jobs
  BY <1>1, <1>6
<1>7. QED
  <2>1. CASE BeginPublish(j)
    BY <1>3, <1>4, <1>6, <2>1 DEF BeginPublish, Codes
  <2>2. CASE BeginReverify(j)
    BY <1>3, <1>5, <2>2 DEF BeginReverify
  <2>3. QED
    BY <2>1, <2>2

\* The next segment is a plan of its own.
LEMMA FollowUpsThrifty ==
    ASSUME NEW queue \in Seq(JobRow), ThriftyQueue(queue), Latest \in Nat, NEW t \in Nat,
           NEW g \in Nat, NEW q \in FollowUps(queue, t, g)
    PROVE  ThriftyQueue(q)
<1> DEFINE c == Latest + 1
           to == SegmentEnd(t, g)
<1>1. CASE q = queue
  BY <1>1
<1>2. CASE q # queue
  <2>1. q = With(queue, Plan(c, t, to, TRUE)) /\ ~(g <= t)
    BY <1>2 DEF FollowUps
  <2>2. to \in Nat /\ to > t
    BY <2>1, SegmentEndBetween
  <2>3. c \in Nat
    OBVIOUS
  <2> HIDE DEF c, to
  <2>4. Thrifty(Plan(c, t, to, TRUE))
    BY <2>2, <2>3, PlanThrifty
  <2>5. QED
    BY <2>1, <2>4, WithThrifty
<1>3. QED
  BY <1>1, <1>2

LEMMA ReverifierThrifty ==
    ASSUME NEW j \in Ids, jobs[j].through \in Nat
    PROVE  Thrifty(Reverifier(j))
<1> DEFINE x == Reverifier(j)
<1>1. /\ x.through = jobs[j].through /\ x.from = 1 /\ x.depth = 0 /\ x.spent = 0
      /\ x.mode = "reverify"
  BY DEF Reverifier, Plan
<1> HIDE DEF x
<1>2. RedoMaxDepth \in Nat /\ Attempts \in Nat \ {0}
  BY CheckpointsAssumption
<1>3. Whole(x) \in Nat
  BY <1>1, <1>2 DEF Whole
<1>4. Allowed(x.depth, Whole(x)) \in Nat
  BY <1>1, <1>3, AllowedGrows
<1>5. StillLeft(x) = 0
  BY <1>1 DEF StillLeft
<1>6. Thrifty(x)
  BY <1>1, <1>2, <1>4, <1>5 DEF Thrifty
<1>7. QED
  BY <1>6 DEF x

\* A publication, and a second look, make new plans and copies of old ones.
LEMMA CommitPublishThrifty ==
    ASSUME CallsInv, NEW j \in Ids, CommitPublish(j)
    PROVE  ThriftyQueue(jobs')
<1> DEFINE finished == Ended(j, "ok", "ok")
           t == jobs[j].through
<1>1. /\ jobs \in Seq(JobRow) /\ j \in DOMAIN jobs /\ jobs[j] \in JobRow /\ j \in Nat
      /\ Thrifty(jobs[j])
  BY RowThrifty
<1>2. jobs[j].st = "running" /\ jobs[j].mode = "publish" /\ t \in Nat /\ jobs[j].left \in Int
  BY <1>1 DEF CommitPublish, JobRow
<1>3. finished \in Seq(JobRow) /\ ThriftyQueue(finished)
  BY <1>2, EndedThrifty DEF Codes
<1>4. Latest \in Nat /\ goal \in Nat
  BY DEF CallsInv, IInv, Chain, Latest
<1> HIDE DEF finished
<1>5. CASE jobs' = finished
  BY <1>3, <1>5
<1>6. CASE jobs' = With(finished, Copy(j, Key("wait", 0, 0, 0, FALSE, j), jobs[j].left + 1))
  <2> DEFINE key == Key("wait", 0, 0, 0, FALSE, j)
             left == jobs[j].left + 1
             copy == Copy(j, key, left)
  <2>1. key \in PlanKey /\ left \in Int
    BY <1>1, <1>2 DEF PlanKey, Key, Kinds
  <2>2. jobs' = With(finished, copy)
    BY <1>6
  <2> HIDE DEF key, left
  <2>3. copy \in JobRow /\ OnePass(jobs[j], copy) /\ copy.mode = jobs[j].mode
    BY <1>1, <2>1, CopyIs
  <2> HIDE DEF copy
  <2>4. Thrifty(copy)
    BY <1>1, <1>2, <2>3, PublishThrifty
  <2>5. QED
    BY <1>3, <2>2, <2>4, WithThrifty
<1>7. CASE \E g \in Cleared(t) :
                 Published(j, jobs[j].from, FALSE,
                     IF (Latest + 1) % ReverifyEvery = 0
                     THEN {With(finished, Reverifier(j))} ELSE FollowUps(finished, t, g), g)
  <2>1. PICK g \in Cleared(t) :
                 Published(j, jobs[j].from, FALSE,
                     IF (Latest + 1) % ReverifyEvery = 0
                     THEN {With(finished, Reverifier(j))} ELSE FollowUps(finished, t, g), g)
    BY <1>7
  <2>2. jobs' = With(finished, Reverifier(j)) \/ jobs' \in FollowUps(finished, t, g)
    BY <2>1 DEF Published
  <2>3. g \in Nat
    BY <1>4, <2>1 DEF Cleared
  <2>4. Thrifty(Reverifier(j))
    BY <1>2, ReverifierThrifty
  <2>5. CASE jobs' = With(finished, Reverifier(j))
    BY <1>3, <2>4, <2>5, WithThrifty
  <2>6. CASE jobs' \in FollowUps(finished, t, g)
    <3> HIDE DEF t
    <3>1. QED
      BY <1>2, <1>3, <1>4, <2>3, <2>6, FollowUpsThrifty
  <2>7. QED
    BY <2>2, <2>5, <2>6
<1>8. QED
  BY <1>5, <1>6, <1>7 DEF CommitPublish, finished

LEMMA CommitReverifyThrifty ==
    ASSUME CallsInv, NEW j \in Ids, CommitReverify(j)
    PROVE  ThriftyQueue(jobs')
<1> DEFINE finished == Ended(j, "ok", "ok")
           t == jobs[j].through
<1>1. jobs[j] \in JobRow
  BY RowThrifty
<1>2. jobs[j].st = "running" /\ jobs[j].mode = "reverify" /\ t \in Nat
  BY <1>1 DEF CommitReverify, JobRow
<1>3. finished \in Seq(JobRow) /\ ThriftyQueue(finished)
  BY <1>2, EndedThrifty DEF Codes
<1>4. Latest \in Nat /\ goal \in Nat
  BY DEF CallsInv, IInv, Chain, Latest
<1>5. jobs' = finished \/ jobs' \in FollowUps(finished, t, goal)
  BY DEF CommitReverify, Published
<1> HIDE DEF finished, t
<1>6. QED
  BY <1>2, <1>3, <1>4, <1>5, FollowUpsThrifty

\* A turn makes plans of its own, or puts one in the place of another.
LEMMA CommitTurnThrifty ==
    ASSUME CallsInv, CommitTurn
    PROVE  ThriftyQueue(jobs')
<1> DEFINE g == IF tx.goal = None THEN goal ELSE tx.goal
           c == tx.seen
           press == Plan(c, Through(c), tx.through, TRUE)
           plain == Plan(c, Through(c), n, FALSE)
           queue == IF tx.through = 0 THEN jobs ELSE With(jobs, press)
<1>1. /\ jobs \in Seq(JobRow) /\ n \in Nat /\ Latest \in Nat /\ ThriftyQueue(jobs)
      /\ cps \in Seq(Page) /\ Latest = Len(cps) /\ SoundQueue(jobs, cps)
  BY DEF CallsInv, IInv, SoundQueue, Chain, Latest
<1>2. /\ tx \in [held: BOOLEAN, turn: BOOLEAN, seen: Nat, goal: Nat \cup {None}, through: Nat]
      /\ tx.seen <= Latest /\ (tx.through # 0 => tx.through > Through(tx.seen))
  BY DEF CallsInv, IInv, SoundChat
<1>3. c \in 0..Latest /\ c \in Nat /\ tx.through \in Nat
  BY <1>1, <1>2
<1>4. Through(c) \in Nat /\ Through(c) = Cover(cps, c)
  BY <1>3, CoverIsThrough DEF CallsInv, IInv
<1>5. jobs' \in IF tx.turn /\ enabled /\ n > Through(c)
                THEN Ordinary(queue, c, n, g) ELSE {queue}
  BY DEF CommitTurn
<1> HIDE DEF g
<1>6. queue \in Seq(JobRow) /\ ThriftyQueue(queue)
  <2>1. CASE tx.through = 0
    BY <1>1, <2>1
  <2>2. CASE tx.through # 0
    <3>1. tx.through > Through(c)
      BY <1>2, <2>2
    <3> HIDE DEF c
    <3>2. Thrifty(press)
      BY <1>3, <1>4, <3>1, PlanThrifty
    <3>3. press \in JobRow /\ Sound(press, cps)
      <4>1. c \in 0..Len(cps) /\ tx.through > Cover(cps, c)
        BY <1>1, <1>3, <1>4, <3>1
      <4>2. QED
        BY <1>1, <1>3, <1>4, <4>1, PlanSound
    <3> HIDE DEF press
    <3>4. SoundQueue(With(jobs, press), cps)
      BY <1>1, <3>3, WithKeeps
    <3>5. ThriftyQueue(With(jobs, press))
      BY <1>1, <3>2, WithThrifty
    <3>6. QED
      BY <2>2, <3>4, <3>5 DEF SoundQueue
  <2>3. QED
    BY <2>1, <2>2
<1> HIDE DEF queue, c
<1>7. CASE jobs' = queue
  BY <1>6, <1>7
<1>8. CASE jobs' # queue
  <2>1. jobs' \in Ordinary(queue, c, n, g) /\ n > Through(c)
    BY <1>5, <1>8
  <2>2. \/ jobs' = With(queue, plain)
        \/ \E i \in DOMAIN queue: jobs' = [queue EXCEPT ![i] = plain]
    BY <1>8, <2>1 DEF Ordinary
  <2>3. Thrifty(plain)
    BY <1>1, <1>3, <1>4, <2>1, PlanThrifty
  <2> HIDE DEF plain
  <2>4. CASE jobs' = With(queue, plain)
    BY <1>6, <2>3, <2>4, WithThrifty
  <2>5. CASE \E i \in DOMAIN queue: jobs' = [queue EXCEPT ![i] = plain]
    BY <1>6, <2>3, <2>5, WriteThrifty
  <2>6. QED
    BY <2>2, <2>4, <2>5
<1>9. QED
  BY <1>7, <1>8

\* What the sweep takes up is a success with its last attempt given back, and
\* what it makes again has the calls of one pass more.
LEMMA ResumedThrifty ==
    ASSUME CallsInv, NEW t \in Nat, NEW press \in BOOLEAN
    PROVE  ThriftyQueue(Resumed(Latest, t, press))
<1> DEFINE of == Family(Latest, t)
           kept == {i \in of : /\ Kept(jobs[done[i]])
                               /\ ~\E k \in of : k > i /\ jobs[done[k]].st = "dead"}
           j == Best(kept)
           key == Key("resume", 0, 0, 0, FALSE, j)
           left == jobs[j].left + 1
           copy == Copy(j, key, left)
           pressed == copy.press \/ (press /\ jobs[j].mode = "plan")
           row == [copy EXCEPT !.press = pressed]
<1>1. FinishedKnown /\ SoundQueue(jobs, cps) /\ jobs \in Seq(JobRow) /\ ThriftyQueue(jobs)
  BY DEF CallsInv, IInv, SoundQueue
<1>2. CASE kept = {}
  BY <1>1, <1>2 DEF Resumed
<1>3. CASE kept # {}
  <2>1. kept \in SUBSET DOMAIN done
    BY DEF Family
  <2>2. \A i \in kept : jobs[done[i]].st = "ok"
    BY DEF Kept
  <2>3. Resumed(Latest, t, press) = With(jobs, row)
    BY <1>3 DEF Resumed
  <2> HIDE DEF kept
  <2>4. j \in Ids /\ jobs[j].st = "ok"
    <3>1. Best(kept) \in Ids /\ \E i \in kept : Best(kept) = done[i]
      BY <1>1, <1>3, <2>1, BestIsRow
    <3>2. QED
      BY <2>2, <3>1
  <2> HIDE DEF j
  <2>5. jobs[j] \in JobRow /\ Thrifty(jobs[j]) /\ j \in Nat
    BY <2>4, RowThrifty
  <2>6. key \in PlanKey /\ left \in Int
    <3>1. jobs[j].left \in Int
      BY <2>5 DEF JobRow
    <3>2. QED
      BY <2>5, <3>1 DEF PlanKey, Key, Kinds
  <2>7. left = jobs[j].left + 1
    OBVIOUS
  <2> HIDE DEF key, left
  <2>8. /\ copy \in JobRow /\ OnePass(jobs[j], copy) /\ copy.mode = jobs[j].mode
        /\ copy.st = "ready" /\ copy.page = jobs[j].page /\ copy.calls = jobs[j].calls
        /\ copy.left = left
    BY <2>4, <2>5, <2>6, CopyIs
  <2> HIDE DEF copy
  <2>9. pressed \in BOOLEAN
    OBVIOUS
  <2> HIDE DEF pressed
  <2>10. row \in JobRow
    BY <2>8, <2>9 DEF JobRow
  <2>11. /\ OnePass(jobs[j], row) /\ row.mode = jobs[j].mode /\ row.st = "ready"
         /\ row.page = jobs[j].page /\ row.calls = jobs[j].calls /\ row.left = jobs[j].left + 1
    BY <2>7, <2>8 DEF JobRow, OnePass
  <2> HIDE DEF row
  <2>12. Thrifty(row)
    BY <2>4, <2>5, <2>10, <2>11, AgainThrifty
  <2>13. QED
    BY <1>1, <2>3, <2>12, WithThrifty
<1>4. QED
  BY <1>2, <1>3

LEMMA RedoneThrifty ==
    ASSUME CallsInv, NEW t \in Nat, t > Through(Latest), NEW press \in BOOLEAN,
           NEW i \in Family(Latest, t)
    PROVE  ThriftyQueue(Redone(done[i], Latest, t, press))
<1> DEFINE last == done[i]
           planned == Plan(Latest, Through(Latest), t, press)
           key == Key("redo", 0, 0, 0, FALSE, last)
           depth == jobs[last].depth + 1
           spent == jobs[last].spent
           row == [planned EXCEPT !.key = key, !.of = last, !.depth = depth, !.spent = spent]
<1>1. /\ FinishedKnown /\ jobs \in Seq(JobRow) /\ ThriftyQueue(jobs)
      /\ Latest \in Nat /\ cps \in Seq(Page) /\ Latest = Len(cps)
  BY DEF CallsInv, IInv, SoundQueue, Chain, Latest
<1>2. /\ i \in DOMAIN done /\ jobs[last].prev = Latest /\ jobs[last].through = t
      /\ jobs[last].mode \in {"plan", "publish"}
  BY DEF Family
<1>3. last \in Ids
  BY <1>1, <1>2 DEF FinishedKnown
<1>4. /\ jobs[last] \in JobRow /\ Sound(jobs[last], cps) /\ Thrifty(jobs[last]) /\ last \in Nat
  BY <1>3, RowThrifty
<1>5. Through(Latest) \in Nat /\ Through(Latest) = Cover(cps, Latest)
  BY <1>1, CoverIsThrough DEF CallsInv, IInv
<1>6. jobs[last].from = Through(Latest) + 1
  BY <1>2, <1>4, <1>5 DEF Sound
<1>7. CASE Redone(last, Latest, t, press) = jobs
  BY <1>1, <1>7
<1>8. CASE /\ jobs[last].st = "dead" /\ ~(jobs[last].depth >= RedoMaxDepth)
           /\ Redone(last, Latest, t, press) = With(jobs, row)
  <2>1. planned \in JobRow
    <3>1. t > Cover(cps, Latest) /\ Latest \in 0..Len(cps)
      BY <1>1, <1>5
    <3> DEFINE same == Plan(Latest, Cover(cps, Latest), t, press)
    <3>2. same \in JobRow
      BY <1>1, <3>1, PlanSound
    <3> HIDE DEF planned, same
    <3>3. planned = same
      BY <1>5 DEF planned, same
    <3>4. QED
      BY <3>2, <3>3
  <2>2. /\ planned.through = t /\ planned.from = Through(Latest) + 1
        /\ planned.mode = "plan" /\ planned.st = "ready" /\ planned.page = 0
        /\ planned.calls = None /\ planned.left = Attempts
    BY DEF Plan
  <2>3. /\ key \in PlanKey /\ depth \in Nat /\ spent \in Nat
    <3>1. jobs[last].depth \in Nat /\ jobs[last].spent \in Nat
      BY <1>4 DEF JobRow
    <3>2. QED
      BY <1>4, <3>1 DEF PlanKey, Key, Kinds
  <2>4. depth = jobs[last].depth + 1 /\ spent = jobs[last].spent
    OBVIOUS
  <2> HIDE DEF planned, key, depth, spent, last
  <2>5. /\ row \in JobRow /\ row.through = t /\ row.from = planned.from
        /\ row.mode = "plan" /\ row.st = "ready" /\ row.page = 0
        /\ row.calls = None /\ row.left = Attempts /\ row.depth = depth /\ row.spent = spent
    BY <1>4, <2>1, <2>2, <2>3 DEF JobRow
  <2> HIDE DEF row
  <2>6. jobs[last].depth < RedoMaxDepth
    <3>1. jobs[last].depth \in Nat /\ RedoMaxDepth \in Nat
      BY <1>4, CheckpointsAssumption DEF JobRow
    <3>2. QED
      BY <1>8, <3>1
  <2>7. /\ row.through = jobs[last].through /\ row.from = jobs[last].from
        /\ row.depth = jobs[last].depth + 1 /\ row.spent = jobs[last].spent
        /\ row.from <= row.through
    BY <1>2, <1>5, <1>6, <2>2, <2>4, <2>5
  <2>8. Thrifty(row)
    BY <1>4, <2>5, <2>6, <2>7, RedoThrifty
  <2>9. ThriftyQueue(With(jobs, row))
    BY <1>1, <2>8, WithThrifty
  <2>10. QED
    BY <1>8, <2>9 DEF last
<1>9. QED
  BY <1>7, <1>8 DEF Redone

LEMMA SweepThrifty ==
    ASSUME CallsInv, Sweep
    PROVE  ThriftyQueue(jobs')
<1> DEFINE c == Latest
           t == Through(c)
           g == IF t >= goal /\ Processed(t) THEN 0 ELSE goal
           press == g > 0
           to == IF press THEN SegmentEnd(t, g) ELSE SegmentEnd(t, n) - 1
           planned == Plan(c, t, to, press)
           grown == With(jobs, planned)
<1>1. /\ jobs \in Seq(JobRow) /\ ThriftyQueue(jobs) /\ FinishedKnown
      /\ n \in Nat /\ goal \in Nat /\ c \in Nat /\ t \in Nat
  BY CoverIsThrough DEF CallsInv, IInv, SoundQueue
<1>2. jobs' = (IF to <= t THEN jobs ELSE IF grown # jobs THEN grown ELSE Recovered(c, to, press))
  BY DEF Sweep
<1>3. g \in Nat /\ press \in BOOLEAN
  BY <1>1
<1>4. to \in Int
  <2>1. ASSUME NEW x \in Int PROVE SegmentEnd(t, x) \in Int
    <3>1. t + SegmentTurns \in Int
      BY <1>1, CheckpointsAssumption
    <3>2. QED
      BY <3>1, MinOfTwo DEF SegmentEnd
  <2>2. g \in Int /\ n \in Int
    BY <1>1, <1>3
  <2> HIDE DEF t, g, press
  <2>3. SegmentEnd(t, g) \in Int /\ SegmentEnd(t, n) \in Int
    BY <2>1, <2>2
  <2>4. to \in {SegmentEnd(t, g), SegmentEnd(t, n) - 1}
    OBVIOUS
  <2> HIDE DEF to
  <2>5. QED
    BY <2>3, <2>4
<1> HIDE DEF g, press, to
<1>5. CASE to <= t
  BY <1>1, <1>2, <1>5
<1>6. CASE ~(to <= t)
  <2>1. to \in Nat /\ to > t
    BY <1>1, <1>4, <1>6
  <2>2. Thrifty(planned)
    <3> HIDE DEF c, t
    <3>1. QED
      BY <1>1, <1>3, <2>1, PlanThrifty
  <2>3. ThriftyQueue(grown)
    <3> HIDE DEF planned
    <3>1. QED
      BY <1>1, <2>2, WithThrifty
  <2>4. ThriftyQueue(Resumed(c, to, press))
    BY <1>3, <2>1, ResumedThrifty
  <2> DEFINE of == Family(c, to)
             last == IF of = {} THEN 0 ELSE done[Max(of)]
  <2>5. ASSUME last # 0
        PROVE  ThriftyQueue(Redone(last, c, to, press))
    <3>1. of \in SUBSET DOMAIN done /\ of # {} /\ last = done[Max(of)]
      BY <2>5 DEF Family
    <3>2. Max(of) \in of
      BY <1>1, <3>1, LastIsRow
    <3> DEFINE i == Max(of)
    <3>3. ThriftyQueue(Redone(done[i], c, to, press))
      BY <1>3, <2>1, <3>2, RedoneThrifty
    <3>4. QED
      BY <3>1, <3>3
  <2>6. \/ Recovered(c, to, press) = jobs
        \/ Recovered(c, to, press) = Resumed(c, to, press)
        \/ last # 0 /\ Recovered(c, to, press) = Redone(last, c, to, press)
    BY DEF Recovered
  <2>7. ThriftyQueue(Recovered(c, to, press))
    BY <1>1, <2>4, <2>5, <2>6
  <2> HIDE DEF grown, t, c
  <2>8. QED
    BY <1>2, <1>6, <2>3, <2>7
<1>7. QED
  BY <1>5, <1>6

LEMMA CallsStep == CallsInv /\ [Next]_vars => CallsInv'
<1> SUFFICES ASSUME CallsInv, [Next]_vars PROVE CallsInv'
  OBVIOUS
<1>1. IInv'
  BY InvStep DEF CallsInv
<1>2. ASSUME NEW j \in Ids, Begin(j) \/ CutShort(j) \/ Fail(j) \/ Finish(j)
      PROVE  ThriftyQueue(jobs')
  BY <1>2, BeginPlanThrifty, BeginOtherThrifty, SetbackThrifty, CommitPlanThrifty,
     CommitPublishThrifty, CommitReverifyThrifty DEF Begin, Finish
<1>3. ThriftyQueue(jobs')
  <2>1. CASE CommitTurn
    BY <2>1, CommitTurnThrifty
  <2>2. CASE Sweep
    BY <2>2, SweepThrifty
  <2>3. CASE (\E turn \in BOOLEAN : BeginTurn(turn)) \/ Learn \/ Break \/ Mend \/ Compile
             \/ CompileDies \/ Toggle \/ UNCHANGED vars
    <3>1. jobs' = jobs
      BY <2>3 DEF BeginTurn, Learn, Break, Mend, Compile, CompileDies, Toggle, vars
    <3>2. QED
      BY <3>1 DEF CallsInv
  <2>4. QED
    BY <1>2, <2>1, <2>2, <2>3 DEF Next
<1>4. QED
  BY <1>1, <1>3 DEF CallsInv, ThriftyQueue

\* The model is called for one plan at most once for each page and each attempt
\* but one, as often as the plan may be made again (CallsBounded): whatever
\* failed, was cut short, switched off, taken up or made again in between.
THEOREM CallsStayBounded == Spec => []CallsBounded
<1>1. Init => CallsInv
  BY InvInit DEF Init, CallsInv, ThriftyQueue
<1>2. CallsInv => CallsBounded
  <2> SUFFICES ASSUME CallsInv, NEW j \in Ids
               PROVE  jobs[j].spent <= (RedoMaxDepth + 1) * (Attempts + jobs[j].through - jobs[j].from)
    BY DEF CallsBounded
  <2> DEFINE x == jobs[j]
  <2>1. x \in JobRow /\ Thrifty(x)
    BY RowThrifty
  <2> HIDE DEF x
  <2>2. /\ x.spent \in Nat /\ StillLeft(x) \in Nat /\ Whole(x) \in Nat
        /\ x.depth \in Nat /\ RedoMaxDepth \in Nat
        /\ Allowed(x.depth, Whole(x)) \in Nat /\ Allowed(RedoMaxDepth, Whole(x)) \in Nat
    BY <2>1, CallsTyped, AllowedGrows, CheckpointsAssumption
  <2>3. /\ x.spent + StillLeft(x) <= Allowed(x.depth, Whole(x))
        /\ Allowed(x.depth, Whole(x)) <= Allowed(RedoMaxDepth, Whole(x))
    BY <2>1, <2>2, AllowedGrows DEF Thrifty
  <2>4. x.spent <= Allowed(RedoMaxDepth, Whole(x))
    BY <2>2, <2>3
  <2>5. QED
    BY <2>4 DEF Allowed, Whole, x
<1>3. QED
  BY <1>1, <1>2, CallsStep, PTL DEF Spec

-----------------------------------------------------------------------------
(* What the summaries promise.                                             *)

\* The published checkpoints are one chain without a gap or an overlap
\* (ChainCoversPrefix), for any history and whatever jobs died.
THEOREM PrefixCovered == Spec => []ChainCoversPrefix
<1>1. IInv => ChainCoversPrefix
  <2>1. SUFFICES ASSUME IInv, NEW c \in DOMAIN cps
                 PROVE  /\ cps[c].prev = c - 1
                        /\ IF cps[c].re THEN cps[c].through = Through(c - 1)
                           ELSE /\ cps[c].from = Through(c - 1) + 1
                                /\ cps[c].through >= cps[c].from
    BY DEF ChainCoversPrefix
  <2>2. c - 1 \in 0..Latest
    BY <2>1 DEF IInv, Chain, Latest
  <2>3. Through(c - 1) = Cover(cps, c - 1)
    BY <2>1, <2>2, CoverIsThrough DEF IInv
  <2>4. QED
    BY <2>1, <2>3 DEF IInv, Chain
<1>2. QED
  BY <1>1, InvCorrect, PTL

\* A publication finds facts and preferences of its range compiled, in the very
\* commit that makes it visible (PublishedProcessed).
THEOREM PublicationsProcessed == Spec => PublishedProcessed
<1>1. IInv /\ [Next]_vars => \A c \in DOMAIN cps' \ DOMAIN cps : Processed(cps'[c].through)
  <2> SUFFICES ASSUME IInv, [Next]_vars, NEW c \in DOMAIN cps' \ DOMAIN cps
               PROVE  Processed(cps'[c].through)
    OBVIOUS
  <2>1. PICK j \in Ids: CommitPublish(j) \/ CommitReverify(j)
    <3>1. CASE CommitTurn \/ Sweep \/ \E turn \in BOOLEAN : BeginTurn(turn)
      BY <3>1 DEF CommitTurn, Sweep, BeginTurn
    <3>2. CASE Learn \/ Break \/ Mend \/ Compile \/ CompileDies \/ Toggle \/ UNCHANGED vars
      BY <3>2 DEF Learn, Break, Mend, Compile, CompileDies, Toggle, env, vars
    <3>3. CASE \E j \in Ids: Begin(j) \/ CutShort(j) \/ Fail(j) \/ CommitPlan(j)
      BY <3>3 DEF Begin, BeginPlan, BeginPublish, BeginReverify, CutShort, Fail, CommitPlan
    <3>4. QED
      BY <3>1, <3>2, <3>3 DEF Next, Finish
  <2>2. /\ Processed(jobs[j].through)
        /\ \E page: cps' = Append(cps, page) /\ page.through = jobs[j].through
    <3>1. CASE CommitPublish(j)
      <4>1. ReadyToPublish(j) /\ \E g, q: Published(j, jobs[j].from, FALSE, q, g)
        BY <2>1, <3>1 DEF CommitPublish
      <4>2. QED
        BY <4>1 DEF ReadyToPublish, Published
    <3>2. CASE CommitReverify(j)
      <4>1. Processed(jobs[j].through) /\ \E g, q: Published(j, 1, TRUE, q, g)
        BY <2>1, <3>2 DEF CommitReverify
      <4>2. QED
        BY <4>1 DEF Published
    <3>3. QED
      BY <2>1, <3>1, <3>2
  <2>3. cps'[c].through = jobs[j].through
    <3>1. PICK page: cps' = Append(cps, page) /\ page.through = jobs[j].through
      BY <2>2
    <3>2. cps \in Seq(Page)
      BY DEF IInv, Chain
    <3>3. c = Len(cps) + 1 /\ cps'[c] = page
      BY <3>1, <3>2
    <3>4. QED
      BY <3>1, <3>3
  <2>4. QED
    BY <2>2, <2>3
<1>2. QED
  BY <1>1, InvCorrect, PTL DEF Spec, PublishedProcessed

\* A goal is never lowered, and goes only when the summaries have reached it
\* (GoalKept): a chat transaction that read it long ago does not put it back.
THEOREM GoalsKept == Spec => GoalKept
<1>1. IInv /\ IInv' /\ [Next]_vars
      => (goal' < goal => goal' = 0 /\ cps' # << >> /\ cps'[Len(cps')].through >= goal)
  <2> SUFFICES ASSUME IInv, IInv', [Next]_vars, goal' < goal
               PROVE  goal' = 0 /\ cps' # << >> /\ cps'[Len(cps')].through >= goal
    OBVIOUS
  <2>1. /\ cps \in Seq(Page) /\ Latest \in Nat /\ Latest = Len(cps)
        /\ goal \in Nat /\ goal' \in Nat /\ Through(Latest) \in Nat /\ goal > 0
    BY CoverIsThrough DEF IInv, Chain, Latest
  <2>2. ASSUME cps' = cps, goal' = 0, Through(Latest) >= goal
        PROVE  goal' = 0 /\ cps' # << >> /\ cps'[Len(cps')].through >= goal
    <3>1. Latest # 0
      BY <2>1, <2>2 DEF Through
    <3>2. QED
      BY <2>1, <2>2, <3>1 DEF Through
  <2>3. CASE CommitTurn
    <3>1. cps' = cps /\ goal' = IF tx.goal = None THEN goal ELSE tx.goal
      BY <2>3 DEF CommitTurn
    <3>2. tx.goal # None /\ goal' = tx.goal
      BY <2>1, <3>1
    <3>3. goal' = 0 /\ Through(Latest) >= goal
      BY <2>1, <3>2 DEF IInv, SoundChat
    <3>4. QED
      BY <2>2, <3>1, <3>3
  <2>4. CASE Sweep
    <3>1. cps' = cps /\ goal' = IF Through(Latest) >= goal /\ Processed(Through(Latest))
                                THEN 0 ELSE goal
      BY <2>4 DEF Sweep
    <3>2. goal' = 0 /\ Through(Latest) >= goal
      BY <2>1, <3>1
    <3>3. QED
      BY <2>2, <3>1, <3>2
  <2>5. ASSUME NEW j \in Ids, CommitPublish(j)
        PROVE  goal' = 0 /\ cps' # << >> /\ cps'[Len(cps')].through >= goal
    <3> DEFINE finished == Ended(j, "ok", "ok")
               Rows(g) == IF (Latest + 1) % ReverifyEvery = 0
                          THEN {With(finished, Reverifier(j))}
                          ELSE FollowUps(finished, jobs[j].through, g)
    <3>0. goal' # goal
      BY <2>1
    <3>1. PICK g \in Cleared(jobs[j].through) : Published(j, jobs[j].from, FALSE, Rows(g), g)
      <4>1. \/ UNCHANGED <<asked, goal, cps>>
            \/ \E g \in Cleared(jobs[j].through) :
                   Published(j, jobs[j].from, FALSE, Rows(g), g)
        BY <2>5, Zenon DEF CommitPublish
      <4>2. QED
        BY <3>0, <4>1
    <3> HIDE DEF Rows
    <3>2. /\ goal' \in Cleared(jobs[j].through)
          /\ \E page: cps' = Append(cps, page) /\ page.through = jobs[j].through
      <4>1. /\ goal' = g
            /\ cps' = Append(cps, [through |-> jobs[j].through, prev |-> jobs[j].prev,
                                   from |-> jobs[j].from, re |-> FALSE])
        BY <3>1 DEF Published
      <4>2. QED
        BY <4>1
    <3>3. goal' = 0 /\ ~(goal > jobs[j].through)
      BY <2>1, <3>2 DEF Cleared
    <3>4. cps' # << >> /\ cps'[Len(cps')].through = jobs[j].through
      BY <2>1, <3>2
    <3>5. jobs[j].through \in Nat
      <4>1. jobs[j] \in JobRow
        BY DEF IInv, SoundQueue, Ids
      <4>2. QED
        BY <4>1 DEF JobRow
    <3>6. QED
      BY <2>1, <3>3, <3>4, <3>5
  <2>6. ASSUME NEW j \in Ids,
               Begin(j) \/ CutShort(j) \/ Fail(j) \/ CommitPlan(j) \/ CommitReverify(j)
        PROVE  goal' = goal
    BY <2>6 DEF Begin, BeginPlan, BeginPublish, BeginReverify, CutShort, Fail, CommitPlan,
       CommitReverify, Published
  <2>7. CASE \/ \E turn \in BOOLEAN : BeginTurn(turn)
             \/ Learn \/ Break \/ Mend \/ Compile \/ CompileDies \/ Toggle \/ UNCHANGED vars
    <3>1. goal' = goal
      BY <2>7 DEF BeginTurn, Learn, Break, Mend, Compile, CompileDies, Toggle, env, vars
    <3>2. QED
      BY <2>1, <3>1
  <2>8. QED
    BY <2>1, <2>3, <2>4, <2>5, <2>6, <2>7 DEF Next, Finish
<1>2. QED
  BY <1>1, InvCorrect, PTL DEF Spec, GoalKept

-----------------------------------------------------------------------------
(* Releases: tables of accounts.                                            *)

Sized(T) == UNION {[S -> T] : S \in SUBSET Subjects}

LEMMA SizedIs ==
    ASSUME NEW T, NEW f \in Sized(T)
    PROVE  /\ DOMAIN f \in SUBSET Subjects /\ f \in [DOMAIN f -> T]
           /\ \A u \in DOMAIN f : f[u] \in T
<1>1. PICK S \in SUBSET Subjects : f \in [S -> T]
  BY DEF Sized
<1>2. QED
  BY <1>1

LEMMA SizedMade ==
    ASSUME NEW T, NEW S \in SUBSET Subjects, NEW f \in [S -> T]
    PROVE  f \in Sized(T) /\ DOMAIN f = S
  BY DEF Sized

LEMMA SizedChanged ==
    ASSUME NEW T, NEW f \in Sized(T), NEW u, NEW x, u \in DOMAIN f => x \in T
    PROVE  /\ [f EXCEPT ![u] = x] \in Sized(T)
           /\ DOMAIN [f EXCEPT ![u] = x] = DOMAIN f
           /\ \A v \in DOMAIN f : [f EXCEPT ![u] = x][v] = IF v = u THEN x ELSE f[v]
<1>1. f \in [DOMAIN f -> T] /\ DOMAIN f \in SUBSET Subjects
  BY SizedIs
<1>2. [f EXCEPT ![u] = x] \in [DOMAIN f -> T]
  BY <1>1
<1>3. QED
  BY <1>1, <1>2, SizedMade

-----------------------------------------------------------------------------
(* Releases: types.                                                         *)

Account  == [messages: Seq(Nat), rows: Nat, canonical: BOOLEAN]
Prefix   == [through: Nat, messages: Seq(Nat)]
ClockRow == [through: Nat, rev: Nat]
View     == [clock: ClockRow, record: Prefix, rows: Nat, built: Nat]
Prep     == [state: {"building", "aborted", "active"}, version: Nat, manifest: Sized(Prefix)]

Opens    == {"open", "clear", "counted", "noted", "waiting", "shared"}
Writing  == [stage: Opens, kind: WriteKinds \cup {"artifact"}, subject: Subjects, at: Nat]
Resting  == {Idle, [stage |-> "done"]}

\* The stages with an audit at hand.
Audits   == {"audited", "locked", "fenced", "dirty", "refreshing"}
Audited  == [stage: Audits, prep: Nat, tries: Nat, version: Nat, todo: SUBSET Subjects,
             seen: Sized(View)]
Command  ==
    {Idle} \cup [stage: {"collected"}, manifest: Sized(Prefix), clear: BOOLEAN]
    \cup [stage: {"preparing"}, prep: Nat, manifest: Sized(Prefix), todo: SUBSET Subjects]
    \cup [stage: {"catching"}, prep: Nat, original: Sized(Prefix), manifest: Sized(Prefix)]
    \cup [stage: {"sealed"}, prep: Nat]
    \cup [stage: {"aborting"}]
    \cup Audited

ReleaseTyped ==
    /\ plan \in Plans
    /\ data \in Sized(Account)
    /\ txn \in [Txs -> Resting \cup Writing]
    /\ preps \in Seq(Prep) /\ pointer \in Nat
    /\ clock \in Sized(ClockRow)
    /\ art \in Sized([built: Nat, sealed: Nat])
    /\ target \in Sized(Nat)
    /\ op \in [Operators -> Command]

LEMMA AccountsTyped ==
    ASSUME ReleaseTyped
    PROVE  /\ Accounts \in SUBSET Subjects
           /\ \A u \in Accounts : /\ data[u] \in Account /\ data[u].messages \in Seq(Nat)
                                  /\ Len(data[u].messages) \in Nat /\ data[u].rows \in Nat
<1>1. \A u \in DOMAIN data : data[u] \in Account
  BY SizedIs DEF ReleaseTyped
<1>2. DOMAIN data \in SUBSET Subjects
  BY SizedIs DEF ReleaseTyped
<1>3. QED
  BY <1>1, <1>2 DEF Accounts, Account

LEMMA TablesTyped ==
    ASSUME ReleaseTyped
    PROVE  /\ DOMAIN clock \in SUBSET Subjects /\ DOMAIN art \in SUBSET Subjects
           /\ DOMAIN target \in SUBSET Subjects
           /\ \A u \in DOMAIN clock : /\ clock[u] \in ClockRow
                                      /\ clock[u].through \in Nat /\ clock[u].rev \in Nat
           /\ \A u \in DOMAIN art : /\ art[u] \in [built: Nat, sealed: Nat]
                                    /\ art[u].built \in Nat /\ art[u].sealed \in Nat
           /\ \A u \in DOMAIN target : target[u] \in Nat
<1>1. clock \in Sized(ClockRow) /\ art \in Sized([built: Nat, sealed: Nat]) /\ target \in Sized(Nat)
  BY DEF ReleaseTyped
<1>2. DOMAIN clock \in SUBSET Subjects /\ \A u \in DOMAIN clock : clock[u] \in ClockRow
  BY <1>1, SizedIs
<1>3. DOMAIN art \in SUBSET Subjects /\ \A u \in DOMAIN art : art[u] \in [built: Nat, sealed: Nat]
  BY <1>1, SizedIs
<1>4. DOMAIN target \in SUBSET Subjects /\ \A u \in DOMAIN target : target[u] \in Nat
  BY <1>1, SizedIs
<1>5. QED
  BY <1>2, <1>3, <1>4 DEF ClockRow

LEMMA PrepsTyped ==
    ASSUME ReleaseTyped
    PROVE  /\ Current \in Nat /\ DOMAIN preps = 1..Current
           /\ \A i \in 1..Current : /\ preps[i] \in Prep /\ preps[i].version \in Nat
                                    /\ preps[i].manifest \in Sized(Prefix)
                                    /\ DOMAIN preps[i].manifest \in SUBSET Subjects
                                    /\ \A u \in DOMAIN preps[i].manifest :
                                          /\ preps[i].manifest[u] \in Prefix
                                          /\ preps[i].manifest[u].through \in Nat
<1>1. preps \in Seq(Prep)
  BY DEF ReleaseTyped
<1>2. Current \in Nat /\ DOMAIN preps = 1..Current /\ \A i \in 1..Current : preps[i] \in Prep
  BY <1>1 DEF Current
<1>3. \A i \in 1..Current : preps[i].version \in Nat /\ preps[i].manifest \in Sized(Prefix)
  BY <1>2 DEF Prep
<1>4. \A f \in Sized(Prefix) : DOMAIN f \in SUBSET Subjects /\ \A u \in DOMAIN f : f[u] \in Prefix
  BY SizedIs
<1>5. \A r \in Prefix : r.through \in Nat
  BY DEF Prefix
<1>6. QED
  BY <1>2, <1>3, <1>4, <1>5

LEMMA WritingTyped ==
    ASSUME ReleaseTyped
    PROVE  \A w \in InFlight : /\ w \in Txs /\ txn[w] \in Writing
                               /\ txn[w].stage \in Opens /\ txn[w].subject \in Subjects
                               /\ txn[w].at \in Nat
                               /\ txn[w].kind \in WriteKinds \cup {"artifact"}
<1> SUFFICES ASSUME NEW w \in InFlight
             PROVE  /\ w \in Txs /\ txn[w] \in Writing
                    /\ txn[w].stage \in Opens /\ txn[w].subject \in Subjects
                    /\ txn[w].at \in Nat /\ txn[w].kind \in WriteKinds \cup {"artifact"}
  OBVIOUS
<1>1. w \in Txs /\ txn[w].stage \notin {"idle", "done"} /\ txn[w] \in Resting \cup Writing
  BY DEF InFlight, ReleaseTyped
<1>2. \A r \in Resting : r.stage \in {"idle", "done"}
  BY DEF Resting, Idle
<1>3. QED
  BY <1>1, <1>2 DEF Writing

LEMMA CommandTyped ==
    ASSUME ReleaseTyped, NEW o \in Operators
    PROVE  /\ op[o] \in Command
           /\ op[o].stage = "collected" =>
                 op[o] \in [stage: {"collected"}, manifest: Sized(Prefix), clear: BOOLEAN]
           /\ op[o].stage = "preparing" =>
                 op[o] \in [stage: {"preparing"}, prep: Nat, manifest: Sized(Prefix),
                            todo: SUBSET Subjects]
           /\ op[o].stage = "catching" =>
                 op[o] \in [stage: {"catching"}, prep: Nat, original: Sized(Prefix),
                            manifest: Sized(Prefix)]
           /\ op[o].stage = "sealed" => op[o] \in [stage: {"sealed"}, prep: Nat]
           /\ op[o].stage \in Audits => op[o] \in Audited
<1>1. op[o] \in Command
  BY DEF ReleaseTyped
<1>2. QED
  BY <1>1 DEF Command, Audited, Audits, Idle

LEMMA AuditedIs ==
    ASSUME NEW r \in Audited
    PROVE  /\ r.stage \in Audits /\ r.prep \in Nat /\ r.version \in Nat /\ r.tries \in Nat
           /\ r.todo \in SUBSET Subjects
           /\ r.seen \in Sized(View) /\ DOMAIN r.seen \in SUBSET Subjects
           /\ \A u \in DOMAIN r.seen : /\ r.seen[u] \in View /\ r.seen[u].clock \in ClockRow
                                       /\ r.seen[u].clock.rev \in Nat
<1>1. /\ r.stage \in Audits /\ r.prep \in Nat /\ r.version \in Nat /\ r.tries \in Nat
      /\ r.todo \in SUBSET Subjects /\ r.seen \in Sized(View)
  BY DEF Audited
<1>2. DOMAIN r.seen \in SUBSET Subjects /\ \A u \in DOMAIN r.seen : r.seen[u] \in View
  BY <1>1, SizedIs
<1>3. \A x \in View : x.clock \in ClockRow /\ x.clock.rev \in Nat
  BY DEF View, ClockRow
<1>4. QED
  BY <1>1, <1>2, <1>3

\* The first messages.
LEMMA FirstMessages ==
    ASSUME NEW s \in Seq(Nat), NEW t \in Nat, t <= Len(s)
    PROVE  /\ SubSeq(s, 1, t) \in Seq(Nat)
           /\ Len(SubSeq(s, 1, t)) = t
           /\ \A i \in 1..t : SubSeq(s, 1, t)[i] = s[i]
  OBVIOUS

LEMMA SameFirst ==
    ASSUME NEW s \in Seq(Nat), NEW z \in Seq(Nat), NEW t \in Nat, t <= Len(s), t <= Len(z),
           \A i \in 1..t : s[i] = z[i]
    PROVE  SubSeq(s, 1, t) = SubSeq(z, 1, t)
  OBVIOUS

-----------------------------------------------------------------------------
(* Releases: the invariant.                                                 *)

\* An account whose messages go at least so far.
Reaches(u, t) == u \in Accounts /\ t <= Len(data[u].messages)

Promoted == Current > 0 /\ preps[Current].state = "active"

\* The preparations before the last are over, and the tables are about the
\* accounts of the last one.
PrepsSound ==
    /\ \A i \in 1..Current : i < Current => preps[i].state = "aborted"
    /\ pointer = IF Promoted THEN Current ELSE 0
    /\ DOMAIN art = DOMAIN clock /\ DOMAIN target = DOMAIN clock
    /\ Current = 0 => DOMAIN clock = {}
    /\ Current > 0 => DOMAIN clock = DOMAIN Manifest
    /\ \A u \in DOMAIN clock : /\ clock[u].through = Manifest[u].through
                               /\ Reaches(u, clock[u].through)

\* What a transaction knows of its account while it is open.
WriteSound(w) ==
    /\ txn[w].kind = "signup" <=> txn[w].subject \notin Accounts
    /\ txn[w].kind = "message" => txn[w].at = Len(data[txn[w].subject].messages) + 1
    /\ txn[w].kind = "edit" => txn[w].at \in 1..Len(data[txn[w].subject].messages)
    /\ txn[w].kind = "artifact" => /\ Building /\ txn[w].subject \in DOMAIN clock
                                   /\ txn[w].at > art[txn[w].subject].built
    /\ txn[w].stage \in {"counted", "noted"} =>
           /\ txn[w].subject \in DOMAIN clock
           /\ txn[w].stage = "counted" <=> Counts(w, clock[txn[w].subject].through)
    /\ Building /\ txn[w].stage = "clear" => txn[w].kind = "cursor"

WritesApart == \A w, v \in InFlight :
    txn[w].kind = txn[v].kind /\ txn[w].subject = txn[v].subject => w = v

\* An audit tells what is committed as long as the clock has not moved.
Same(o, u) ==
    /\ clock[u].through = op[o].seen[u].clock.through
    /\ op[o].seen[u].clock.rev <= clock[u].rev
    /\ clock[u] = op[o].seen[u].clock => Seen(u) = op[o].seen[u]

\* It is about the preparation as it was, and may have been overtaken.
AuditSound(o) ==
    /\ op[o].prep \in 1..Current
    /\ op[o].todo \subseteq DOMAIN op[o].seen
    /\ op[o].prep = Current =>
         /\ op[o].version <= preps[Current].version
         /\ op[o].version = preps[Current].version =>
              /\ Building /\ DOMAIN op[o].seen = DOMAIN clock
              /\ \A u \in DOMAIN clock : art[u].built >= clock[u].through /\ Same(o, u)

Collecting(o) == op[o].stage = "collected"
Taking(o)     == op[o].stage \in {"aborting", "locked", "fenced"}

AllAborted == \A i \in 1..Current : preps[i].state = "aborted"

\* Nobody who writes can change what an operator with the row has compared.
NoneShared  == \A w \in InFlight : txn[w].kind # "artifact" /\ txn[w].stage # "shared"
NoneCounted == \A w \in InFlight : txn[w].stage \notin {"counted", "noted"}

Compared(o) ==
    /\ \A u \in DOMAIN clock : clock[u] = op[o].seen[u].clock
    /\ AllSealed /\ NewAreEmpty

OpSound(o) ==
    /\ op[o].stage \in {"collected", "preparing", "catching"} =>
           \A u \in DOMAIN op[o].manifest : Reaches(u, op[o].manifest[u].through)
    /\ op[o].stage = "preparing" => op[o].todo \subseteq DOMAIN op[o].manifest
    /\ Collecting(o) /\ op[o].clear => AllAborted
    /\ op[o].stage \in Audits => AuditSound(o)
    /\ Taking(o) => Building /\ NoneShared
    /\ op[o].stage \in {"locked", "fenced"} => Unchanged(o)
    /\ op[o].stage = "fenced" => NoneCounted /\ Compared(o)

OpsApart == \A o, q \in Operators :
    (Collecting(o) /\ Collecting(q)) \/ (Taking(o) /\ Taking(q)) => o = q

ReleaseInv ==
    /\ ReleaseTyped
    /\ PrepsSound
    /\ WritesApart /\ \A w \in InFlight : WriteSound(w)
    /\ OpsApart /\ \A o \in Operators : OpSound(o)
    /\ SealedWhenActive

-----------------------------------------------------------------------------
(* Releases: the steps of a transaction.                                    *)

Elsewhere == UNCHANGED <<plan, data, preps, pointer, clock, art, target, op>>

Begun(w, kind, u, at) ==
    /\ w \in Txs /\ txn[w].stage = "idle"
    /\ kind \in WriteKinds \cup {"artifact"} /\ u \in Subjects /\ at \in Nat
    /\ Alone(kind, u) /\ Opened(w, kind, u, at)
    /\ kind = "signup" <=> u \notin Accounts
    /\ kind = "message" => at = Len(data[u].messages) + 1
    /\ kind = "edit" => at \in 1..Len(data[u].messages)
    /\ kind = "artifact" => Building /\ u \in DOMAIN clock /\ at > art[u].built /\ ~RowTaken
    /\ Elsewhere

Moves(w, stage) ==
    /\ w \in InFlight /\ Goes(w, stage)
    /\ stage \in {"clear", "counted", "noted", "waiting", "shared"}
    /\ stage \in {"counted", "noted"} =>
           /\ txn[w].subject \in DOMAIN clock /\ ~ClocksTaken
           /\ stage = "counted" <=> Counts(w, clock[txn[w].subject].through)
    /\ stage = "shared" => ~RowTaken
    /\ stage = "clear" /\ Building => txn[w].kind = "cursor"
    /\ Elsewhere

Drops(w) == w \in InFlight /\ Over(w) /\ Elsewhere

LEMMA OpenIs ==
    ASSUME NEW w \in Txs, txn[w].stage \in Opens
    PROVE  w \in InFlight
  BY DEF InFlight, Opens

LEMMA BeginIs ==
    ASSUME ReleaseInv, NEW w \in Txs, BeginWrite(w)
    PROVE  \E kind, u, at : Begun(w, kind, u, at)
<1> DEFINE kind == plan.does[w].kind
           u    == plan.does[w].subject
<1>1. w \in Writers /\ txn[w].stage = "idle" /\ Alone(kind, u) /\ Elsewhere
  BY DEF BeginWrite, Elsewhere, made
<1>2. plan.does[w] \in [kind : WriteKinds, subject : Subjects]
  <2>1. plan \in [does : [Writers -> [kind : WriteKinds, subject : Subjects]], commands : Nat]
    BY ReleaseAssumption DEF ReleaseInv, ReleaseTyped
  <2>2. QED
    BY <1>1, <2>1
<1>3. kind \in WriteKinds /\ u \in Subjects /\ kind # "artifact"
  BY <1>2 DEF WriteKinds
<1>4. u \in Accounts => /\ data[u].messages \in Seq(Nat) /\ Len(data[u].messages) \in Nat
                        /\ DOMAIN data[u].messages = 1..Len(data[u].messages)
  BY AccountsTyped DEF ReleaseInv
<1> HIDE DEF kind, u
<1>5. \/ kind = "signup" /\ u \notin Accounts /\ Opened(w, kind, u, 0)
      \/ kind \in {"row", "cursor"} /\ u \in Accounts /\ Opened(w, kind, u, 0)
      \/ kind = "message" /\ u \in Accounts /\ Opened(w, kind, u, Len(data[u].messages) + 1)
      \/ kind = "edit" /\ u \in Accounts /\ \E i \in DOMAIN data[u].messages : Opened(w, kind, u, i)
  BY DEF BeginWrite, kind, u
<1>6. CASE kind \in {"signup", "row", "cursor"}
  <2>1. Begun(w, kind, u, 0)
    BY <1>1, <1>3, <1>5, <1>6 DEF Begun
  <2>2. QED
    BY <2>1
<1>7. CASE kind = "message"
  <2>1. Begun(w, kind, u, Len(data[u].messages) + 1)
    BY <1>1, <1>3, <1>4, <1>5, <1>7 DEF Begun
  <2>2. QED
    BY <2>1
<1>8. CASE kind = "edit"
  <2>1. PICK i \in DOMAIN data[u].messages : Opened(w, kind, u, i)
    BY <1>5, <1>8
  <2>2. Begun(w, kind, u, i)
    BY <1>1, <1>3, <1>4, <1>5, <1>8, <2>1 DEF Begun
  <2>3. QED
    BY <2>2
<1>9. QED
  BY <1>3, <1>6, <1>7, <1>8 DEF WriteKinds

LEMMA ArtifactIs ==
    ASSUME ReleaseInv, NEW w \in Builders, NEW u \in Subjects, BeginArtifact(w, u)
    PROVE  \E kind, x, at : Begun(w, kind, x, at)
<1>1. w \in Txs /\ txn[w].stage = "idle" /\ ~RowTaken /\ Building /\ Alone("artifact", u) /\ Elsewhere
  BY DEF BeginArtifact, Elsewhere, made, Txs
<1>2. u \in DOMAIN target /\ u \in DOMAIN clock /\ u \in DOMAIN art /\ u \in Accounts
  BY DEF BeginArtifact, ReleaseInv, PrepsSound, Reaches
<1>3. PICK to \in art[u].built + 1 .. target[u] : Opened(w, "artifact", u, to)
  BY DEF BeginArtifact
<1>4. art[u].built \in Nat /\ target[u] \in Nat
  BY <1>2, TablesTyped DEF ReleaseInv
<1>5. to \in Nat /\ to > art[u].built
  BY <1>3, <1>4
<1>6. Begun(w, "artifact", u, to)
  BY <1>1, <1>2, <1>3, <1>5 DEF Begun
<1>7. QED
  BY <1>6

LEMMA TriggerIs ==
    ASSUME NEW w \in Txs, Trigger(w)
    PROVE  \E stage : Moves(w, stage)
<1>1. w \in InFlight /\ Elsewhere
  BY OpenIs DEF Trigger, Elsewhere, made, Opens
<1> DEFINE u == txn[w].subject
<1>2. CASE ~Building
  <2>1. Moves(w, "clear")
    BY <1>1, <1>2 DEF Trigger, Moves
  <2>2. QED
    BY <2>1
<1>3. CASE Building /\ u \in DOMAIN clock /\ Counts(w, clock[u].through)
  <2>1. CASE ClockUnlocked(u) /\ ~ClocksTaken
    <3>1. Goes(w, "counted")
      BY <1>3, <2>1 DEF Trigger, LookAtClock
    <3>2. Moves(w, "counted")
      BY <1>1, <1>3, <2>1, <3>1 DEF Moves
    <3>3. QED
      BY <3>2
  <2>2. CASE ~(ClockUnlocked(u) /\ ~ClocksTaken)
    <3>1. Goes(w, "waiting")
      BY <1>3, <2>2 DEF Trigger, LookAtClock
    <3>2. Moves(w, "waiting")
      BY <1>1, <3>1 DEF Moves
    <3>3. QED
      BY <3>2
  <2>3. QED
    BY <2>1, <2>2
<1>4. CASE Building /\ u \in DOMAIN clock /\ ~Counts(w, clock[u].through)
  <2>1. CASE ClockUnchanged(u) /\ ~ClocksTaken
    <3>1. Goes(w, "noted")
      BY <1>4, <2>1 DEF Trigger, LookAtClock
    <3>2. Moves(w, "noted")
      BY <1>1, <1>4, <2>1, <3>1 DEF Moves
    <3>3. QED
      BY <3>2
  <2>2. CASE ~(ClockUnchanged(u) /\ ~ClocksTaken)
    <3>1. Goes(w, "waiting")
      BY <1>4, <2>2 DEF Trigger, LookAtClock
    <3>2. Moves(w, "waiting")
      BY <1>1, <3>1 DEF Moves
    <3>3. QED
      BY <3>2
  <2>3. QED
    BY <2>1, <2>2
<1>5. CASE Building /\ u \notin DOMAIN clock /\ txn[w].kind = "cursor"
  <2>1. Goes(w, "clear")
    BY <1>5 DEF Trigger
  <2>2. Moves(w, "clear")
    BY <1>1, <1>5, <2>1 DEF Moves
  <2>3. QED
    BY <2>2
<1>6. CASE Building /\ u \notin DOMAIN clock /\ txn[w].kind # "cursor"
  <2>1. Goes(w, "waiting")
    BY <1>6 DEF Trigger
  <2>2. Moves(w, "waiting")
    BY <1>1, <2>1 DEF Moves
  <2>3. QED
    BY <2>2
<1>7. QED
  BY <1>2, <1>3, <1>4, <1>5, <1>6

LEMMA ShareIs ==
    ASSUME NEW w \in Txs, Share(w)
    PROVE  \E stage : Moves(w, stage)
<1>1. w \in InFlight /\ Elsewhere /\ ~RowTaken
  BY OpenIs DEF Share, Elsewhere, made, Opens
<1>2. CASE Building
  <2>1. Moves(w, "shared")
    BY <1>1, <1>2 DEF Share, Moves
  <2>2. QED
    BY <2>1
<1>3. CASE ~Building
  <2>1. Moves(w, "clear")
    BY <1>1, <1>3 DEF Share, Moves
  <2>2. QED
    BY <2>1
<1>4. QED
  BY <1>2, <1>3

LEMMA RollbackIs ==
    ASSUME NEW w \in Txs, Rollback(w)
    PROVE  Drops(w)
  BY DEF Rollback, Drops, Elsewhere, made

-----------------------------------------------------------------------------
(* Releases: what the parts of the invariant need of a step.                *)

\* The accounts there were are there, with no less messages.
Grows == \A u \in Accounts : /\ u \in Accounts'
                             /\ Len(data[u].messages) <= Len(data[u].messages)'

\* What is seen of an account changes only together with its clock.
Follows(u) ==
    /\ u \in DOMAIN clock' /\ art[u].built <= art'[u].built
    /\ clock'[u].through = clock[u].through /\ clock[u].rev <= clock'[u].rev
    /\ clock'[u] = clock[u] => Seen(u)' = Seen(u)

LEMMA ReachesKept ==
    ASSUME ReleaseTyped, ReleaseTyped', Grows, NEW u, NEW t \in Nat, Reaches(u, t)
    PROVE  Reaches(u, t)'
<1>1. u \in Accounts /\ t <= Len(data[u].messages) /\ Len(data[u].messages) \in Nat
  BY AccountsTyped DEF Reaches
<1>2. u \in Accounts' /\ Len(data[u].messages) <= Len(data[u].messages)'
  BY <1>1 DEF Grows
<1>3. Len(data[u].messages)' \in Nat
  <2>1. data' \in Sized(Account) /\ u \in DOMAIN data'
    BY <1>2 DEF ReleaseTyped, Accounts
  <2>2. data'[u] \in Account
    BY <2>1, SizedIs
  <2>3. QED
    BY <2>2 DEF Account
<1>4. QED
  BY <1>1, <1>2, <1>3 DEF Reaches

LEMMA WriteKept ==
    ASSUME NEW w, WriteSound(w), txn'[w] = txn[w],
           txn[w].subject \in Accounts' <=> txn[w].subject \in Accounts,
           txn[w].kind = "message" =>
               Len(data[txn[w].subject].messages)' = Len(data[txn[w].subject].messages),
           txn[w].kind = "edit" => txn[w].at \in 1..Len(data[txn[w].subject].messages)',
           txn[w].kind = "artifact" => /\ Building' /\ txn[w].subject \in DOMAIN clock'
                                       /\ txn[w].at > art'[txn[w].subject].built,
           txn[w].stage \in {"counted", "noted"} =>
               /\ txn[w].subject \in DOMAIN clock'
               /\ clock'[txn[w].subject].through = clock[txn[w].subject].through,
           Building' /\ txn[w].stage = "clear" => txn[w].kind = "cursor"
    PROVE  WriteSound(w)'
  BY DEF WriteSound, Counts

\* An audit of a preparation that goes on, of another one, and of one that was
\* overtaken.
LEMMA AuditKept ==
    ASSUME ReleaseTyped, ReleaseTyped', NEW q \in Operators,
           op'[q].prep = op[q].prep, op'[q].version = op[q].version,
           op'[q].seen = op[q].seen, op'[q].todo = op[q].todo,
           op[q].stage \in Audits, AuditSound(q),
           preps' = preps, DOMAIN clock' = DOMAIN clock,
           Building => \A u \in DOMAIN clock : Follows(u),
           DOMAIN art = DOMAIN clock, DOMAIN art' = DOMAIN clock
    PROVE  AuditSound(q)'
<1>1. op[q] \in Audited
  BY CommandTyped
<1>2. op[q].prep \in Nat /\ op[q].version \in Nat /\ Current \in Nat
  BY <1>1, AuditedIs, PrepsTyped
<1>3. Current' = Current /\ (Building' <=> Building)
  BY DEF Current, Building
<1>4. ASSUME op[q].prep = Current, op[q].version = preps[Current].version, NEW u \in DOMAIN clock
      PROVE  art'[u].built >= clock'[u].through /\ Same(q, u)'
  <2>1. Building /\ Same(q, u) /\ art[u].built >= clock[u].through /\ u \in DOMAIN op[q].seen
    BY <1>4 DEF AuditSound
  <2>2. Follows(u)
    BY <2>1
  <2>3. /\ clock[u].rev \in Nat /\ clock[u].through \in Nat /\ art[u].built \in Nat
        /\ clock[u] \in ClockRow /\ u \in DOMAIN art
    BY TablesTyped
  <2>4. clock'[u] \in ClockRow /\ clock'[u].rev \in Nat
    <3>1. clock' \in Sized(ClockRow) /\ u \in DOMAIN clock'
      BY DEF ReleaseTyped
    <3>2. clock'[u] \in ClockRow
      BY <3>1, SizedIs
    <3>3. QED
      BY <3>2 DEF ClockRow
  <2>5. op[q].seen[u].clock \in ClockRow /\ op[q].seen[u].clock.rev \in Nat
    BY <1>1, <2>1, AuditedIs
  <2>6. art'[u].built \in Nat
    <3>1. art' \in Sized([built: Nat, sealed: Nat])
      BY DEF ReleaseTyped
    <3>2. art'[u] \in [built: Nat, sealed: Nat]
      BY <3>1, SizedIs
    <3>3. QED
      BY <3>2
  <2>7. art'[u].built >= clock'[u].through
    BY <2>1, <2>2, <2>3, <2>6 DEF Follows
  <2>8. clock'[u].through = op[q].seen[u].clock.through /\ op[q].seen[u].clock.rev <= clock'[u].rev
    BY <2>1, <2>2, <2>3, <2>4, <2>5 DEF Follows, Same
  <2>9. ASSUME clock'[u] = op[q].seen[u].clock
        PROVE  Seen(u)' = op[q].seen[u]
    <3>1. clock[u].rev = clock'[u].rev /\ clock[u].through = clock'[u].through
      BY <2>1, <2>2, <2>3, <2>4, <2>5, <2>9 DEF Follows, Same
    <3>2. clock[u] = clock'[u]
      BY <2>3, <2>4, <3>1 DEF ClockRow
    <3>3. QED
      BY <2>1, <2>2, <2>9, <3>2 DEF Follows, Same
  <2>10. QED
    BY <2>7, <2>8, <2>9 DEF Same
<1>5. QED
  BY <1>2, <1>3, <1>4 DEF AuditSound

LEMMA ManifestKept ==
    ASSUME ReleaseTyped, ReleaseTyped', Grows, NEW q \in Operators, op'[q] = op[q],
           op[q].stage \in {"collected", "preparing", "catching"},
           \A u \in DOMAIN op[q].manifest : Reaches(u, op[q].manifest[u].through)
    PROVE  \A u \in DOMAIN op'[q].manifest : Reaches(u, op[q].manifest[u].through)'
<1> SUFFICES ASSUME NEW u \in DOMAIN op[q].manifest
             PROVE  Reaches(u, op[q].manifest[u].through)'
  OBVIOUS
<1>1. op[q].manifest \in Sized(Prefix)
  BY CommandTyped
<1>2. op[q].manifest[u] \in Prefix
  BY <1>1, SizedIs
<1> DEFINE t == op[q].manifest[u].through
<1>3. t \in Nat
  BY <1>2 DEF Prefix
<1>4. Reaches(u, t)
  OBVIOUS
<1>5. \A x \in Nat : Reaches(u, x) => Reaches(u, x)'
  BY ReachesKept
<1>6. QED
  BY <1>3, <1>4, <1>5 DEF Reaches

\* A step of somebody else.
LEMMA OpKept ==
    ASSUME ReleaseTyped, ReleaseTyped', Grows, NEW q \in Operators, op'[q] = op[q], OpSound(q),
           preps' = preps, DOMAIN clock' = DOMAIN clock,
           DOMAIN art = DOMAIN clock, DOMAIN art' = DOMAIN clock,
           Building => \A u \in DOMAIN clock : Follows(u),
           Taking(q) => NoneShared',
           op[q].stage = "fenced" => NoneCounted' /\ Compared(q)'
    PROVE  OpSound(q)'
<1>1. op[q].stage \in {"collected", "preparing", "catching"} =>
          \A u \in DOMAIN op'[q].manifest : Reaches(u, op[q].manifest[u].through)'
  BY ManifestKept DEF OpSound
<1>2. op[q].stage \in Audits => AuditSound(q)'
  BY AuditKept DEF OpSound
<1>3. Collecting(q) /\ op[q].clear => AllAborted'
  BY DEF OpSound, AllAborted, Current
<1>4. /\ Taking(q) => Building'
      /\ op[q].stage \in {"locked", "fenced"} => Unchanged(q)'
  BY DEF OpSound, Unchanged, Current, Building
<1>5. QED
  BY <1>1, <1>2, <1>3, <1>4 DEF OpSound, Collecting, Taking

\* A step after which the preparation is not the one that was audited.
LEMMA OpOvertaken ==
    ASSUME ReleaseTyped, ReleaseTyped', Grows, NEW q \in Operators, op'[q] = op[q], OpSound(q),
           ~Taking(q), Collecting(q) => AllAborted',
           \/ Current' = Current + 1
           \/ /\ Current' = Current
              /\ preps'[Current].version = preps[Current].version + 1
    PROVE  OpSound(q)'
<1>1. op[q].stage \in {"collected", "preparing", "catching"} =>
          \A u \in DOMAIN op'[q].manifest : Reaches(u, op[q].manifest[u].through)'
  BY ManifestKept DEF OpSound
<1>2. ASSUME op[q].stage \in Audits
      PROVE  AuditSound(q)'
  <2>1. op[q] \in Audited /\ AuditSound(q)
    BY <1>2, CommandTyped DEF OpSound
  <2>2. op[q].prep \in Nat /\ op[q].version \in Nat /\ Current \in Nat /\ op[q].prep \in 1..Current
    BY <2>1, AuditedIs, PrepsTyped DEF AuditSound
  <2>3. op[q].prep = Current => preps[Current].version \in Nat
    BY <2>2, PrepsTyped
  <2>4. op[q].prep \in 1..Current' /\ (op[q].prep = Current' => Current' = Current)
    BY <2>2
  <2>5. op[q].prep = Current' => op[q].version < preps'[Current].version
    BY <2>1, <2>2, <2>3, <2>4 DEF AuditSound
  <2>6. op[q].todo \subseteq DOMAIN op[q].seen
    BY <2>1 DEF AuditSound
  <2>7. op[q].prep = Current' => op[q].version <= preps'[Current'].version
                                 /\ op[q].version # preps'[Current'].version
    <3>1. op[q].prep = Current' => preps'[Current].version \in Nat
      BY <2>2, <2>3, <2>4
    <3>2. QED
      BY <2>2, <2>4, <2>5, <3>1
  <2>8. QED
    BY <2>4, <2>6, <2>7 DEF AuditSound
<1>3. QED
  BY <1>1, <1>2 DEF OpSound, Collecting, Taking, Audits

-----------------------------------------------------------------------------
(* Releases: every step keeps the invariant.                                *)

LEMMA ReleaseBegins == ReleaseInit => ReleaseInv
<1> SUFFICES ASSUME ReleaseInit
             PROVE  ReleaseInv
  OBVIOUS
<1> DEFINE S == {v \in Subjects : History[v] # NoAccount}
<1>1. \A u \in S : History[u] \in Nat
  BY ReleaseAssumption
<1>2. data = [u \in S |-> [messages |-> [i \in 1..History[u] |-> 0], rows |-> 0,
                           canonical |-> History[u] = 0]]
  BY DEF ReleaseInit
<1>3. \A u \in S : [i \in 1..History[u] |-> 0] \in Seq(Nat)
  BY <1>1
<1>4. \A u \in S : [messages |-> [i \in 1..History[u] |-> 0], rows |-> 0,
                    canonical |-> History[u] = 0] \in Account
  BY <1>3 DEF Account
<1>5. data \in [S -> Account]
  BY <1>2, <1>4
<1>6. data \in Sized(Account) /\ S \in SUBSET Subjects
  BY <1>5, SizedMade
<1>7. \A T : << >> \in Sized(T)
  <2> SUFFICES ASSUME NEW T
               PROVE  << >> \in Sized(T)
    OBVIOUS
  <2>1. << >> \in [{} -> T]
    OBVIOUS
  <2>2. QED
    BY <2>1, SizedMade
<1>8. /\ plan \in Plans /\ txn = [w \in Txs |-> Idle] /\ preps = << >> /\ pointer = 0
      /\ clock = << >> /\ art = << >> /\ target = << >> /\ op = [o \in Operators |-> Idle]
  BY DEF ReleaseInit
<1>9. ReleaseTyped
  <2>1. txn \in [Txs -> Resting \cup Writing]
    BY <1>8 DEF Resting
  <2>2. op \in [Operators -> Command]
    BY <1>8 DEF Command
  <2>3. clock \in Sized(ClockRow) /\ target \in Sized(Nat) /\ art \in Sized([built: Nat, sealed: Nat])
    BY <1>7, <1>8
  <2>4. preps \in Seq(Prep)
    BY <1>8
  <2>5. QED
    BY <1>6, <1>8, <2>1, <2>2, <2>3, <2>4 DEF ReleaseTyped
<1>10. InFlight = {} /\ Current = 0
  BY <1>8 DEF InFlight, Current, Idle
<1>11. PrepsSound /\ SealedWhenActive
  BY <1>8, <1>10 DEF PrepsSound, SealedWhenActive, Promoted
<1>12. OpsApart /\ \A o \in Operators : OpSound(o)
  BY <1>8 DEF OpsApart, OpSound, Collecting, Taking, Audits, Idle
<1>13. WritesApart /\ \A w \in InFlight : WriteSound(w)
  BY <1>10 DEF WritesApart
<1>14. QED
  BY <1>9, <1>11, <1>12, <1>13 DEF ReleaseInv

\* Steps that only begin, move or end a transaction leave the rest as it is.
LEMMA ElsewhereKept ==
    ASSUME ReleaseInv, Elsewhere, ReleaseTyped',
           WritesApart', (\A w \in InFlight : WriteSound(w))',
           (\E o \in Operators : Taking(o)) => NoneShared',
           (\E o \in Operators : op[o].stage = "fenced") => NoneCounted'
    PROVE  ReleaseInv'
<1>1. PrepsSound' /\ SealedWhenActive' /\ OpsApart'
  BY DEF ReleaseInv, Elsewhere, PrepsSound, SealedWhenActive, OpsApart, Collecting, Taking,
         Current, Manifest, Promoted, Reaches, Accounts
<1>2. ASSUME NEW q \in Operators
      PROVE  OpSound(q)'
  <2>1. OpSound(q) /\ ReleaseTyped /\ DOMAIN art = DOMAIN clock /\ OpsApart
    BY DEF ReleaseInv, PrepsSound
  <2>2. op'[q] = op[q] /\ preps' = preps /\ clock' = clock /\ art' = art /\ data' = data
    BY DEF Elsewhere
  <2>3. Grows
    BY <2>1, <2>2, AccountsTyped DEF Grows, Accounts
  <2>4. \A u \in DOMAIN clock : Follows(u)
    BY <2>1, <2>2, TablesTyped DEF Follows, Seen, Record
  <2>5. op[q].stage = "fenced" => NoneCounted' /\ Compared(q)'
    BY <2>1, <2>2 DEF OpSound, Compared, AllSealed, NewAreEmpty, Accounts
  <2>6. QED
    BY <2>1, <2>2, <2>3, <2>4, <2>5, OpKept
<1>3. QED
  BY <1>1, <1>2 DEF ReleaseInv

\* The transactions that are left alone by an ElsewhereKept step.
LEMMA WriteStays ==
    ASSUME NEW v, Elsewhere, WriteSound(v), txn'[v] = txn[v]
    PROVE  WriteSound(v)'
  BY DEF WriteSound, Elsewhere, Counts, Accounts, Building, Current

LEMMA BegunKeeps ==
    ASSUME ReleaseInv, NEW w, NEW kind, NEW u, NEW at, Begun(w, kind, u, at)
    PROVE  ReleaseInv'
<1> DEFINE r == [stage |-> "open", kind |-> kind, subject |-> u, at |-> at]
<1>1. /\ w \in Txs /\ txn[w].stage = "idle" /\ txn' = [txn EXCEPT ![w] = r] /\ Elsewhere
      /\ txn \in [Txs -> Resting \cup Writing] /\ r \in Writing
  BY DEF Begun, Opened, ReleaseInv, ReleaseTyped, Writing, Opens
<1>2. txn'[w] = r /\ \A v \in Txs : v # w => txn'[v] = txn[v]
  BY <1>1
<1>3. InFlight' = InFlight \cup {w} /\ w \notin InFlight
  BY <1>1, <1>2 DEF InFlight
<1>4. ReleaseTyped'
  BY <1>1 DEF ReleaseInv, ReleaseTyped, Elsewhere
<1>5. WritesApart'
  <2>1. \A v \in InFlight : ~(txn[v].kind = kind /\ txn[v].subject = u)
    BY DEF Begun, Alone, On
  <2>2. \A v \in InFlight : txn'[v] = txn[v] /\ v \in Txs
    BY <1>2, <1>3 DEF InFlight
  <2>3. QED
    BY <1>2, <1>3, <2>1, <2>2 DEF WritesApart, ReleaseInv
<1>6. ASSUME NEW v \in InFlight'
      PROVE  WriteSound(v)'
  <2>1. CASE v = w
    <3>1. /\ txn'[w].kind = kind /\ txn'[w].subject = u /\ txn'[w].at = at /\ txn'[w].stage = "open"
      BY <1>2
    <3>2. /\ Accounts' = Accounts /\ data' = data /\ (Building' <=> Building)
          /\ clock' = clock /\ art' = art
      BY <1>1 DEF Elsewhere, Accounts, Building, Current
    <3>3. /\ kind = "signup" <=> u \notin Accounts
          /\ kind = "message" => at = Len(data[u].messages) + 1
          /\ kind = "edit" => at \in 1..Len(data[u].messages)
          /\ kind = "artifact" => Building /\ u \in DOMAIN clock /\ at > art[u].built
      BY DEF Begun
    <3>4. QED
      BY <2>1, <3>1, <3>2, <3>3 DEF WriteSound
  <2>2. CASE v # w
    BY <1>1, <1>2, <1>3, <2>2, WriteStays DEF InFlight, ReleaseInv
  <2>3. QED
    BY <2>1, <2>2
<1>7. (\E o \in Operators : Taking(o)) => NoneShared'
  <2>1. \A o \in Operators : Taking(o) => NoneShared /\ RowTaken
    BY DEF ReleaseInv, OpSound, RowTaken, Taking
  <2>2. RowTaken => kind # "artifact"
    BY DEF Begun
  <2>3. \A v \in InFlight : txn'[v] = txn[v]
    BY <1>2, <1>3 DEF InFlight
  <2>4. QED
    BY <1>2, <1>3, <2>1, <2>2, <2>3 DEF NoneShared
<1>8. (\E o \in Operators : op[o].stage = "fenced") => NoneCounted'
  <2>1. \A o \in Operators : op[o].stage = "fenced" => NoneCounted
    BY DEF ReleaseInv, OpSound
  <2>2. \A v \in InFlight : txn'[v] = txn[v]
    BY <1>2, <1>3 DEF InFlight
  <2>3. QED
    BY <1>2, <1>3, <2>1, <2>2 DEF NoneCounted
<1>9. QED
  BY <1>1, <1>4, <1>5, <1>6, <1>7, <1>8, ElsewhereKept

LEMMA MovesKeeps ==
    ASSUME ReleaseInv, NEW w, NEW stage, Moves(w, stage)
    PROVE  ReleaseInv'
<1>1. /\ w \in InFlight /\ w \in Txs /\ Elsewhere /\ ReleaseTyped
      /\ txn \in [Txs -> Resting \cup Writing] /\ txn[w] \in Writing
      /\ stage \in {"clear", "counted", "noted", "waiting", "shared"}
  BY WritingTyped DEF Moves, ReleaseInv, ReleaseTyped
<1>2. txn' = [txn EXCEPT ![w] = [txn[w] EXCEPT !.stage = stage]]
  BY DEF Moves, Goes
<1>3. [txn[w] EXCEPT !.stage = stage] \in Writing
  BY <1>1 DEF Writing, Opens
<1>4. /\ txn'[w].stage = stage /\ txn'[w].kind = txn[w].kind /\ txn'[w].subject = txn[w].subject
      /\ txn'[w].at = txn[w].at /\ \A v \in Txs : v # w => txn'[v] = txn[v]
  BY <1>1, <1>2 DEF Writing
<1>5. InFlight' = InFlight
  BY <1>1, <1>4 DEF InFlight
<1>6. ReleaseTyped'
  BY <1>1, <1>2, <1>3 DEF ReleaseTyped, Elsewhere
<1>7. \A v \in InFlight : /\ txn'[v].kind = txn[v].kind /\ txn'[v].subject = txn[v].subject
                          /\ v # w => txn'[v] = txn[v]
  BY <1>4 DEF InFlight
<1>8. WritesApart'
  BY <1>5, <1>7 DEF WritesApart, ReleaseInv
<1>9. ASSUME NEW v \in InFlight'
      PROVE  WriteSound(v)'
  <2>1. WriteSound(v) /\ v \in InFlight
    BY <1>5 DEF ReleaseInv
  <2>2. CASE v = w
    <3>1. /\ Accounts' = Accounts /\ data' = data /\ (Building' <=> Building)
          /\ clock' = clock /\ art' = art
      BY <1>1 DEF Elsewhere, Accounts, Building, Current
    <3>2. /\ stage \in {"counted", "noted"} =>
               /\ txn[w].subject \in DOMAIN clock
               /\ stage = "counted" <=> Counts(w, clock[txn[w].subject].through)
          /\ stage = "clear" /\ Building => txn[w].kind = "cursor"
      BY DEF Moves
    <3>3. \A t : Counts(w, t)' <=> Counts(w, t)
      BY <1>4 DEF Counts
    <3>4. stage \in {"counted", "noted"} =>
              (stage = "counted" <=> Counts(w, clock[txn[w].subject].through)')
      BY <1>4, <3>1, <3>2, <3>3 DEF Counts
    <3>5. QED
      BY <1>4, <2>1, <2>2, <3>1, <3>2, <3>4 DEF WriteSound, Counts
  <2>3. CASE v # w
    BY <1>1, <1>7, <2>1, <2>3, WriteStays
  <2>4. QED
    BY <2>2, <2>3
<1>10. (\E o \in Operators : Taking(o)) => NoneShared'
  <2>1. \A o \in Operators : Taking(o) => NoneShared /\ RowTaken
    BY DEF ReleaseInv, OpSound, RowTaken, Taking
  <2>2. RowTaken => stage # "shared"
    BY DEF Moves
  <2>3. QED
    BY <1>4, <1>5, <1>7, <2>1, <2>2 DEF NoneShared
<1>11. (\E o \in Operators : op[o].stage = "fenced") => NoneCounted'
  <2>1. \A o \in Operators : op[o].stage = "fenced" => NoneCounted /\ ClocksTaken
    BY DEF ReleaseInv, OpSound, ClocksTaken
  <2>2. ClocksTaken => stage \notin {"counted", "noted"}
    BY DEF Moves
  <2>3. QED
    BY <1>4, <1>5, <1>7, <2>1, <2>2 DEF NoneCounted
<1>12. QED
  BY <1>1, <1>6, <1>8, <1>9, <1>10, <1>11, ElsewhereKept

LEMMA OverIs ==
    ASSUME ReleaseTyped, NEW w \in InFlight, Over(w)
    PROVE  /\ txn' \in [Txs -> Resting \cup Writing]
           /\ InFlight' = InFlight \ {w}
           /\ \A v \in InFlight' : v \in InFlight /\ v # w /\ txn'[v] = txn[v]
<1>1. w \in Txs /\ txn \in [Txs -> Resting \cup Writing]
  BY WritingTyped DEF ReleaseTyped
<1> DEFINE r == [stage |-> IF w \in Builders THEN "idle" ELSE "done"]
<1>2. txn' = [txn EXCEPT ![w] = r] /\ r \in Resting /\ r.stage \in {"idle", "done"}
  BY DEF Over, Resting, Idle
<1> HIDE DEF r
<1>3. txn'[w] = r /\ \A v \in Txs : v # w => txn'[v] = txn[v]
  BY <1>1, <1>2
<1>4. InFlight' = InFlight \ {w}
  BY <1>1, <1>2, <1>3 DEF InFlight
<1>5. QED
  BY <1>1, <1>2, <1>3, <1>4 DEF InFlight

LEMMA DropsKeeps ==
    ASSUME ReleaseInv, NEW w, Drops(w)
    PROVE  ReleaseInv'
<1>1. w \in InFlight /\ Elsewhere /\ ReleaseTyped
  BY DEF Drops, ReleaseInv
<1>2. ReleaseTyped'
  BY <1>1, OverIs DEF Drops, ReleaseTyped, Elsewhere
<1>3. \A v \in InFlight' : v \in InFlight /\ txn'[v] = txn[v]
  BY <1>1, OverIs DEF Drops
<1>4. WritesApart' /\ (\A v \in InFlight : WriteSound(v))'
  BY <1>1, <1>3, WriteStays DEF WritesApart, ReleaseInv
<1>5. /\ (\E o \in Operators : Taking(o)) => NoneShared'
      /\ (\E o \in Operators : op[o].stage = "fenced") => NoneCounted'
  BY <1>3 DEF ReleaseInv, OpSound, NoneShared, NoneCounted
<1>6. QED
  BY <1>1, <1>2, <1>4, <1>5, ElsewhereKept

-----------------------------------------------------------------------------
(* Releases: a transaction of the service commits.                          *)

LEMMA RowChanged ==
    ASSUME ReleaseTyped, NEW u \in Accounts, NEW x \in Account, data' = [data EXCEPT ![u] = x]
    PROVE  /\ data' \in Sized(Account) /\ Accounts' = Accounts /\ data'[u] = x
           /\ \A v \in Accounts : v # u => data'[v] = data[v]
<1>1. data \in Sized(Account) /\ u \in DOMAIN data
  BY DEF ReleaseTyped, Accounts
<1>2. [data EXCEPT ![u] = x] \in Sized(Account)
  BY <1>1, SizedChanged
<1>3. QED
  BY <1>1, <1>2 DEF Accounts

\* What its change does to the rows.
LEMMA AppliedIs ==
    ASSUME ReleaseInv, NEW w \in InFlight, data' = Applied(w),
           NEW u, u = txn[w].subject
    PROVE  /\ data' \in Sized(Account)
           /\ Accounts' = IF txn[w].kind = "signup" THEN Accounts \cup {u} ELSE Accounts
           /\ \A v \in Accounts : v # u => data'[v] = data[v]
           /\ u \in Accounts =>
                /\ txn[w].kind = "message" => Len(data'[u].messages) = Len(data[u].messages) + 1
                /\ txn[w].kind # "message" => Len(data'[u].messages) = Len(data[u].messages)
                /\ \A t \in Nat : /\ t <= Len(data[u].messages)
                                  /\ txn[w].kind \in {"message", "edit"} => txn[w].at > t
                                  => SubSeq(data'[u].messages, 1, t) = SubSeq(data[u].messages, 1, t)
                /\ txn[w].kind # "row" => data'[u].rows = data[u].rows
           /\ txn[w].kind \in {"cursor", "artifact"} => data' = data
           /\ txn[w].kind = "signup" => data'[u].messages = << >>
<1>1. /\ WriteSound(w) /\ ReleaseTyped /\ data \in Sized(Account)
      /\ txn[w].kind \in WriteKinds \cup {"artifact"} /\ u \in Subjects /\ txn[w].at \in Nat
  BY WritingTyped DEF ReleaseInv, ReleaseTyped
<1>2. /\ Accounts \in SUBSET Subjects /\ data \in [Accounts -> Account]
      /\ \A v \in Accounts : /\ data[v] \in Account /\ data[v].messages \in Seq(Nat)
                             /\ Len(data[v].messages) \in Nat /\ data[v].rows \in Nat
  BY <1>1, AccountsTyped, SizedIs DEF Accounts
<1>3. txn[w].kind = "signup" <=> u \notin Accounts
  BY <1>1 DEF WriteSound
<1> DEFINE m == data[u].messages
<1>4. CASE txn[w].kind = "signup"
  <2> DEFINE fresh == [messages |-> << >>, rows |-> 0, canonical |-> TRUE]
  <2>1. data' = [v \in Accounts \cup {u} |-> IF v = u THEN fresh ELSE data[v]]
    BY <1>4 DEF Applied
  <2>2. fresh \in Account /\ fresh.messages = << >>
    BY DEF Account
  <2> HIDE DEF fresh
  <2>3. data' \in [Accounts \cup {u} -> Account] /\ (Accounts \cup {u}) \in SUBSET Subjects
    BY <1>1, <1>2, <2>1, <2>2
  <2>4. data' \in Sized(Account)
    BY <2>3, SizedMade
  <2>5. /\ Accounts' = Accounts \cup {u} /\ data'[u] = fresh
        /\ \A v \in Accounts : v # u => data'[v] = data[v]
    BY <2>1 DEF Accounts
  <2>6. QED
    BY <1>3, <1>4, <2>2, <2>4, <2>5
<1>5. CASE txn[w].kind = "message"
  <2>1. data' = [data EXCEPT ![u] = [data[u] EXCEPT !.messages = Append(m, 0)]]
    BY <1>1, <1>5 DEF Applied
  <2>2. u \in Accounts /\ m \in Seq(Nat)
    BY <1>2, <1>3, <1>5
  <2>3. [data[u] EXCEPT !.messages = Append(m, 0)] \in Account
    <3>1. data[u] \in Account /\ Append(m, 0) \in Seq(Nat)
      BY <1>2, <2>2
    <3>2. QED
      BY <3>1 DEF Account
  <2>4. /\ data' \in Sized(Account) /\ Accounts' = Accounts
        /\ data'[u] = [data[u] EXCEPT !.messages = Append(m, 0)]
        /\ \A v \in Accounts : v # u => data'[v] = data[v]
    BY <1>1, <2>1, <2>2, <2>3, RowChanged
  <2>5. data'[u].messages = Append(m, 0) /\ data'[u].rows = data[u].rows
    BY <1>2, <2>2, <2>4 DEF Account
  <2>6. /\ Append(m, 0) \in Seq(Nat) /\ Len(Append(m, 0)) = Len(m) + 1
        /\ \A i \in 1..Len(m) : Append(m, 0)[i] = m[i]
    BY <2>2
  <2>7. \A t \in Nat : t <= Len(m) => SubSeq(Append(m, 0), 1, t) = SubSeq(m, 1, t)
    BY <2>2, <2>6, SameFirst
  <2>8. QED
    BY <1>5, <2>2, <2>4, <2>5, <2>6, <2>7
<1>6. CASE txn[w].kind = "edit"
  <2> DEFINE z == [m EXCEPT ![txn[w].at] = @ + 1]
  <2>1. data' = [data EXCEPT ![u] = [data[u] EXCEPT !.messages = z]]
    BY <1>1, <1>6 DEF Applied
  <2>2. u \in Accounts /\ m \in Seq(Nat) /\ txn[w].at \in 1..Len(m)
    BY <1>1, <1>2, <1>3, <1>6 DEF WriteSound
  <2>3. /\ z \in Seq(Nat) /\ Len(z) = Len(m) /\ \A i \in 1..Len(m) : i # txn[w].at => z[i] = m[i]
    BY <2>2
  <2> HIDE DEF z
  <2>4. [data[u] EXCEPT !.messages = z] \in Account
    BY <1>2, <2>2, <2>3 DEF Account
  <2>5. /\ data' \in Sized(Account) /\ Accounts' = Accounts
        /\ data'[u] = [data[u] EXCEPT !.messages = z]
        /\ \A v \in Accounts : v # u => data'[v] = data[v]
    BY <1>1, <2>1, <2>2, <2>4, RowChanged
  <2>6. data'[u].messages = z /\ data'[u].rows = data[u].rows
    BY <1>2, <2>2, <2>5 DEF Account
  <2>7. ASSUME NEW t \in Nat, t <= Len(m), txn[w].at > t
        PROVE  SubSeq(z, 1, t) = SubSeq(m, 1, t)
    <3>1. Len(m) \in Nat
      BY <2>2
    <3>2. \A i \in 1..t : i \in 1..Len(m) /\ i # txn[w].at
      BY <1>1, <2>7, <3>1
    <3>3. \A i \in 1..t : z[i] = m[i]
      BY <2>3, <3>2
    <3>4. QED
      BY <2>2, <2>3, <2>7, <3>3, SameFirst
  <2>8. QED
    BY <1>2, <1>6, <2>2, <2>3, <2>5, <2>6, <2>7
<1>7. CASE txn[w].kind = "row"
  <2>1. data' = [data EXCEPT ![u] = [data[u] EXCEPT !.rows = data[u].rows + 1]]
    BY <1>1, <1>7 DEF Applied
  <2>2. u \in Accounts
    BY <1>3, <1>7
  <2>3. [data[u] EXCEPT !.rows = data[u].rows + 1] \in Account
    <3>1. data[u] \in Account /\ data[u].rows + 1 \in Nat
      BY <1>2, <2>2
    <3>2. QED
      BY <3>1 DEF Account
  <2>4. /\ data' \in Sized(Account) /\ Accounts' = Accounts
        /\ data'[u] = [data[u] EXCEPT !.rows = data[u].rows + 1]
        /\ \A v \in Accounts : v # u => data'[v] = data[v]
    BY <1>1, <2>1, <2>2, <2>3, RowChanged
  <2>5. data'[u].messages = m
    BY <1>2, <2>2, <2>4 DEF Account
  <2>6. QED
    BY <1>2, <1>7, <2>2, <2>4, <2>5
<1>8. CASE txn[w].kind \in {"cursor", "artifact"}
  <2>1. data' = data
    BY <1>8 DEF Applied
  <2>2. Accounts' = Accounts /\ txn[w].kind \notin {"signup", "message", "edit", "row"}
    BY <1>8, <2>1 DEF Accounts
  <2>3. Len(data'[u].messages) = Len(data[u].messages) /\ txn[w].kind # "message"
    BY <1>8, <2>1
  <2>4. data' \in Sized(Account)
    BY <1>1, <2>1
  <2>5. u \in Accounts => \A t \in Nat : SubSeq(data'[u].messages, 1, t) = SubSeq(data[u].messages, 1, t)
    BY <2>1
  <2>6. (u \in Accounts => data'[u].rows = data[u].rows) /\ \A v \in Accounts : data'[v] = data[v]
    BY <2>1
  <2>7. QED
    BY <2>1, <2>2, <2>3, <2>4, <2>5, <2>6
<1>9. QED
  BY <1>1, <1>4, <1>5, <1>6, <1>7, <1>8 DEF WriteKinds

\* What it does to the tables of the preparation.
LEMMA CommitTables ==
    ASSUME ReleaseInv, NEW w \in InFlight, Commit(w), NEW u, u = txn[w].subject
    PROVE  /\ clock' \in Sized(ClockRow) /\ DOMAIN clock' = DOMAIN clock
           /\ art' \in Sized([built: Nat, sealed: Nat]) /\ DOMAIN art' = DOMAIN art
           /\ \A v \in DOMAIN clock : clock'[v].through = clock[v].through
                                      /\ clock[v].rev <= clock'[v].rev
           /\ \A v \in DOMAIN clock : v # u \/ ~Recorded(w) => clock'[v] = clock[v]
           /\ ~Recorded(w) => clock' = clock
           /\ Recorded(w) => u \in DOMAIN clock /\ clock'[u] # clock[u]
           /\ \A v \in DOMAIN art : /\ art'[v].sealed = art[v].sealed
                                    /\ art[v].built <= art'[v].built
           /\ \A v \in DOMAIN art : v # u \/ txn[w].kind # "artifact" => art'[v] = art[v]
           /\ txn[w].kind # "artifact" => art' = art
<1>1. /\ WriteSound(w) /\ ReleaseTyped /\ DOMAIN art = DOMAIN clock /\ txn[w].at \in Nat
      /\ clock \in Sized(ClockRow) /\ art \in Sized([built: Nat, sealed: Nat])
  BY WritingTyped DEF ReleaseInv, ReleaseTyped, PrepsSound
<1>2. /\ clock' = IF Recorded(w) THEN [clock EXCEPT ![u].rev = @ + 1] ELSE clock
      /\ art' = IF txn[w].kind = "artifact" THEN [art EXCEPT ![u].built = txn[w].at] ELSE art
  BY DEF Commit
<1>3. /\ \A v \in DOMAIN clock : clock[v] \in ClockRow /\ clock[v].through \in Nat /\ clock[v].rev \in Nat
      /\ \A v \in DOMAIN art : art[v] \in [built: Nat, sealed: Nat] /\ art[v].built \in Nat
  BY <1>1, TablesTyped
<1>4. /\ clock' \in Sized(ClockRow) /\ DOMAIN clock' = DOMAIN clock
      /\ \A v \in DOMAIN clock : clock'[v].through = clock[v].through /\ clock[v].rev <= clock'[v].rev
      /\ \A v \in DOMAIN clock : v # u \/ ~Recorded(w) => clock'[v] = clock[v]
      /\ Recorded(w) => u \in DOMAIN clock /\ clock'[u] # clock[u]
  <2>1. CASE Recorded(w)
    <3> DEFINE x == [clock[u] EXCEPT !.rev = clock[u].rev + 1]
    <3>1. u \in DOMAIN clock
      BY <2>1 DEF Recorded
    <3>2. clock' = [clock EXCEPT ![u] = x]
      BY <1>2, <2>1
    <3>3. x \in ClockRow /\ x.through = clock[u].through /\ x.rev = clock[u].rev + 1
      BY <1>3, <3>1 DEF ClockRow
    <3> HIDE DEF x
    <3>4. /\ clock' \in Sized(ClockRow) /\ DOMAIN clock' = DOMAIN clock
          /\ \A v \in DOMAIN clock : clock'[v] = IF v = u THEN x ELSE clock[v]
      BY <1>1, <3>2, <3>3, SizedChanged
    <3>5. clock[u].rev <= x.rev /\ clock[u].rev # x.rev
      BY <1>3, <3>1, <3>3
    <3>6. QED
      BY <1>3, <2>1, <3>1, <3>3, <3>4, <3>5
  <2>2. CASE ~Recorded(w)
    BY <1>1, <1>2, <1>3, <2>2
  <2>3. QED
    BY <2>1, <2>2
<1>5. /\ art' \in Sized([built: Nat, sealed: Nat]) /\ DOMAIN art' = DOMAIN art
      /\ \A v \in DOMAIN art : art'[v].sealed = art[v].sealed /\ art[v].built <= art'[v].built
      /\ \A v \in DOMAIN art : v # u \/ txn[w].kind # "artifact" => art'[v] = art[v]
  <2>1. CASE txn[w].kind = "artifact"
    <3> DEFINE x == [art[u] EXCEPT !.built = txn[w].at]
    <3>1. u \in DOMAIN art /\ txn[w].at > art[u].built
      BY <1>1, <2>1 DEF WriteSound
    <3>2. art' = [art EXCEPT ![u] = x]
      BY <1>2, <2>1
    <3>3. x \in [built: Nat, sealed: Nat] /\ x.built = txn[w].at /\ x.sealed = art[u].sealed
      BY <1>1, <1>3, <3>1
    <3> HIDE DEF x
    <3>4. /\ art' \in Sized([built: Nat, sealed: Nat]) /\ DOMAIN art' = DOMAIN art
          /\ \A v \in DOMAIN art : art'[v] = IF v = u THEN x ELSE art[v]
      BY <1>1, <3>2, <3>3, SizedChanged
    <3>5. QED
      BY <1>1, <1>3, <2>1, <3>1, <3>3, <3>4
  <2>2. CASE txn[w].kind # "artifact"
    BY <1>1, <1>2, <1>3, <2>2
  <2>3. QED
    BY <2>1, <2>2
<1>6. QED
  BY <1>2, <1>4, <1>5

\* A change that is not recorded leaves what an audit sees.
LEMMA CommitFollows ==
    ASSUME ReleaseInv, NEW w \in InFlight, Commit(w), Building, NEW v \in DOMAIN clock
    PROVE  Follows(v)
<1> DEFINE u == txn[w].subject
<1> HIDE DEF u
<1>1. u = txn[w].subject /\ data' = Applied(w) /\ WriteSound(w)
      /\ txn[w].stage \in {"clear", "counted", "noted", "shared"}
  BY DEF Commit, u, ReleaseInv
<1>2. v \in DOMAIN art /\ Reaches(v, clock[v].through) /\ v \in Accounts /\ clock[v].through \in Nat
  BY TablesTyped DEF ReleaseInv, PrepsSound, Reaches
<1>3. /\ v \in DOMAIN clock' /\ clock'[v].through = clock[v].through
      /\ clock[v].rev <= clock'[v].rev /\ art[v].built <= art'[v].built
      /\ v # u \/ ~Recorded(w) => clock'[v] = clock[v]
      /\ Recorded(w) => clock'[u] # clock[u]
      /\ v # u \/ txn[w].kind # "artifact" => art'[v] = art[v]
  BY <1>1, <1>2, CommitTables
<1>4. ASSUME clock'[v] = clock[v]
      PROVE  Seen(v)' = Seen(v)
  <2>1. CASE v # u
    <3>1. data'[v] = data[v] /\ art'[v] = art[v]
      BY <1>1, <1>2, <1>3, <2>1, AppliedIs
    <3>2. QED
      BY <1>4, <3>1 DEF Seen, Record
  <2>2. CASE v = u
    <3>1. ~Recorded(w)
      BY <1>3, <1>4, <2>2
    <3>2. txn[w].stage = "clear" => txn[w].kind = "cursor"
      BY <1>1 DEF WriteSound
    <3>3. txn[w].stage # "clear" => ~Counts(w, clock[u].through)
      BY <1>1, <2>2, <3>1 DEF WriteSound, Recorded
    <3>4. \/ txn[w].kind = "cursor"
          \/ txn[w].kind \in {"message", "edit"} /\ ~(txn[w].at <= clock[v].through)
      BY <2>2, <3>2, <3>3 DEF Counts
    <3>5. txn[w].at \in Nat
      BY WritingTyped DEF ReleaseInv
    <3>6. /\ txn[w].kind \in {"message", "edit"} => txn[w].at > clock[v].through
          /\ txn[w].kind # "row" /\ txn[w].kind # "artifact"
      BY <1>2, <3>4, <3>5
    <3>7. /\ SubSeq(data'[v].messages, 1, clock[v].through)
                 = SubSeq(data[v].messages, 1, clock[v].through)
          /\ data'[v].rows = data[v].rows
      <4>1. clock[v].through <= Len(data[v].messages)
        BY <1>2 DEF Reaches
      <4>2. QED
        BY <1>1, <1>2, <2>2, <3>6, <4>1, AppliedIs
    <3>8. QED
      BY <1>3, <1>4, <3>6, <3>7 DEF Seen, Record
  <2>3. QED
    BY <2>1, <2>2
<1>5. QED
  BY <1>3, <1>4 DEF Follows

LEMMA TablesKept ==
    ASSUME ReleaseTyped, ReleaseTyped', Grows, PrepsSound, SealedWhenActive,
           preps' = preps, pointer' = pointer,
           DOMAIN clock' = DOMAIN clock, DOMAIN art' = DOMAIN clock, DOMAIN target' = DOMAIN clock,
           \A v \in DOMAIN clock : clock'[v].through = clock[v].through,
           Promoted => \A v \in DOMAIN art : art'[v].sealed = art[v].sealed
    PROVE  PrepsSound' /\ SealedWhenActive'
<1>1. Current' = Current /\ Manifest' = Manifest /\ (Promoted' <=> Promoted)
  BY DEF Current, Manifest, Promoted
<1>2. \A v \in DOMAIN clock : Reaches(v, clock[v].through)'
  <2> SUFFICES ASSUME NEW v \in DOMAIN clock
               PROVE  Reaches(v, clock[v].through)'
    OBVIOUS
  <2>1. clock[v].through \in Nat /\ Reaches(v, clock[v].through)
    BY TablesTyped DEF PrepsSound
  <2>2. \A t \in Nat : Reaches(v, t) => Reaches(v, t)'
    BY ReachesKept
  <2>3. QED
    BY <2>1, <2>2 DEF Reaches
<1>3. PrepsSound'
  BY <1>1, <1>2 DEF PrepsSound
<1>4. SealedWhenActive'
  <2> SUFFICES ASSUME pointer > 0, NEW v \in DOMAIN preps[pointer].manifest
               PROVE  art'[v].sealed >= preps[pointer].manifest[v].through
    BY DEF SealedWhenActive
  <2>1. Promoted /\ pointer = Current /\ Current > 0
    BY PrepsTyped DEF PrepsSound, Promoted
  <2>2. v \in DOMAIN art
    BY <2>1 DEF PrepsSound, Manifest
  <2>3. QED
    BY <2>1, <2>2 DEF SealedWhenActive
<1>5. QED
  BY <1>3, <1>4

\* Behind the locks of a promotion only changes of a cursor commit.
LEMMA CommitFenced ==
    ASSUME ReleaseInv, NEW w \in InFlight, Commit(w), NEW q \in Operators, op[q].stage = "fenced"
    PROVE  data' = data /\ art' = art /\ clock' = clock
<1>1. WriteSound(w) /\ data' = Applied(w) /\ txn[w].stage \in {"clear", "counted", "noted", "shared"}
  BY DEF ReleaseInv, Commit
<1>2. NoneCounted /\ NoneShared /\ Unchanged(q)
  BY DEF ReleaseInv, OpSound, Taking
<1>3. txn[w].stage = "clear" /\ txn[w].kind = "cursor"
  BY <1>1, <1>2 DEF NoneCounted, NoneShared, Unchanged, WriteSound
<1>4. ~Recorded(w)
  BY <1>3 DEF Recorded
<1>5. art' = art /\ clock' = clock
  BY <1>3, <1>4, CommitTables
<1>6. data' = data
  BY <1>1, <1>3, AppliedIs
<1>7. QED
  BY <1>5, <1>6

LEMMA CommitKeeps ==
    ASSUME ReleaseInv, NEW w \in Txs, Commit(w)
    PROVE  ReleaseInv'
<1> DEFINE u == txn[w].subject
<1>1. /\ w \in InFlight /\ txn[w].stage \in {"clear", "counted", "noted", "shared"}
      /\ data' = Applied(w) /\ Over(w) /\ WriteSound(w) /\ ReleaseTyped /\ PrepsSound
      /\ plan' = plan /\ preps' = preps /\ pointer' = pointer /\ target' = target /\ op' = op
  BY OpenIs DEF Commit, Opens, ReleaseInv
<1> HIDE DEF u
<1>2. /\ data' \in Sized(Account)
      /\ Accounts' = IF txn[w].kind = "signup" THEN Accounts \cup {u} ELSE Accounts
      /\ \A v \in Accounts : v # u => data'[v] = data[v]
      /\ u \in Accounts /\ txn[w].kind = "message" =>
            Len(data'[u].messages) = Len(data[u].messages) + 1
      /\ u \in Accounts /\ txn[w].kind # "message" =>
            Len(data'[u].messages) = Len(data[u].messages)
      /\ txn[w].kind \in {"cursor", "artifact"} => data' = data
  BY <1>1, AppliedIs DEF u
<1>3. /\ clock' \in Sized(ClockRow) /\ DOMAIN clock' = DOMAIN clock
      /\ art' \in Sized([built: Nat, sealed: Nat]) /\ DOMAIN art' = DOMAIN art
      /\ \A v \in DOMAIN clock : clock'[v].through = clock[v].through
      /\ ~Recorded(w) => clock' = clock
      /\ \A v \in DOMAIN art : art'[v].sealed = art[v].sealed
      /\ \A v \in DOMAIN art : v # u \/ txn[w].kind # "artifact" => art'[v] = art[v]
      /\ txn[w].kind # "artifact" => art' = art
  BY <1>1, CommitTables DEF u
<1>4. /\ InFlight' = InFlight \ {w} /\ txn' \in [Txs -> Resting \cup Writing]
      /\ \A v \in InFlight' : v \in InFlight /\ v # w /\ txn'[v] = txn[v]
  BY <1>1, OverIs
<1>5. ReleaseTyped'
  BY <1>1, <1>2, <1>3, <1>4 DEF ReleaseTyped
<1>6. Grows
  <2> SUFFICES ASSUME NEW v \in Accounts
               PROVE  v \in Accounts' /\ Len(data[v].messages) <= Len(data'[v].messages)
    BY DEF Grows
  <2>1. Len(data[v].messages) \in Nat
    BY <1>1, AccountsTyped
  <2>2. v # u => data'[v] = data[v]
    BY <1>2
  <2>3. CASE v = u
    BY <1>2, <2>1, <2>3
  <2>4. QED
    BY <1>2, <2>1, <2>2, <2>3
<1>7. PrepsSound' /\ SealedWhenActive'
  BY <1>1, <1>3, <1>5, <1>6, TablesKept DEF ReleaseInv, PrepsSound
<1>8. Current' = Current /\ (Building' <=> Building)
  BY <1>1 DEF Current, Building
<1>9. ASSUME NEW v \in InFlight'
      PROVE  WriteSound(v)'
  <2>1. v \in InFlight /\ v # w /\ txn'[v] = txn[v] /\ WriteSound(v)
    BY <1>4 DEF ReleaseInv
  <2> DEFINE x == txn[v].subject
  <2>2. ~(txn[v].kind = txn[w].kind /\ x = u)
    BY <1>1, <2>1 DEF ReleaseInv, WritesApart, u
  <2>3. (u \notin Accounts <=> txn[w].kind = "signup") /\ (x \notin Accounts <=> txn[v].kind = "signup")
    BY <1>1, <2>1 DEF WriteSound, u
  <2>4. x \in Accounts' <=> x \in Accounts
    BY <1>2, <2>2, <2>3
  <2>5. x \in Accounts => Len(data[x].messages) \in Nat
    BY <1>1, AccountsTyped
  <2> HIDE DEF x
  <2>6. txn[v].kind = "message" => Len(data'[x].messages) = Len(data[x].messages)
    <3>1. CASE x # u
      BY <1>2, <2>3, <3>1
    <3>2. CASE x = u
      BY <1>2, <2>2, <2>3, <2>5, <3>2
    <3>3. QED
      BY <3>1, <3>2
  <2>7. txn[v].kind = "edit" => txn[v].at \in 1..Len(data'[x].messages)
    <3>1. txn[v].kind = "edit" => txn[v].at \in 1..Len(data[x].messages) /\ x \in Accounts
      BY <2>1, <2>3 DEF WriteSound, x
    <3>2. x \in Accounts => /\ Len(data[x].messages) <= Len(data'[x].messages)
                            /\ Len(data'[x].messages) \in Nat
      <4>1. CASE x # u
        BY <1>2, <2>5, <4>1
      <4>2. CASE x = u
        BY <1>2, <2>5, <4>2
      <4>3. QED
        BY <4>1, <4>2
    <3>3. QED
      BY <2>5, <3>1, <3>2
  <2>8. txn[v].kind = "artifact" => Building' /\ x \in DOMAIN clock' /\ txn[v].at > art'[x].built
    <3>1. txn[v].kind = "artifact" => Building /\ x \in DOMAIN clock /\ txn[v].at > art[x].built
      BY <2>1 DEF WriteSound, x
    <3>2. txn[v].kind = "artifact" => x # u \/ txn[w].kind # "artifact"
      BY <2>2
    <3>3. DOMAIN art = DOMAIN clock
      BY <1>1 DEF PrepsSound
    <3>4. QED
      BY <1>3, <1>8, <3>1, <3>2, <3>3
  <2>9. txn[v].stage \in {"counted", "noted"} =>
            x \in DOMAIN clock' /\ clock'[x].through = clock[x].through
    BY <1>3, <2>1 DEF WriteSound, x
  <2>10. Building' /\ txn[v].stage = "clear" => txn[v].kind = "cursor"
    BY <1>8, <2>1 DEF WriteSound
  <2>11. QED
    BY <2>1, <2>4, <2>6, <2>7, <2>8, <2>9, <2>10, WriteKept DEF x
<1>10. WritesApart'
  BY <1>4 DEF WritesApart, ReleaseInv
<1>11. OpsApart'
  BY <1>1 DEF OpsApart, Collecting, Taking, ReleaseInv
<1>12. ASSUME NEW q \in Operators
       PROVE  OpSound(q)'
  <2>1. OpSound(q) /\ op'[q] = op[q] /\ DOMAIN art = DOMAIN clock
    BY <1>1 DEF ReleaseInv, PrepsSound
  <2>2. Building => \A v \in DOMAIN clock : Follows(v)
    BY <1>1, CommitFollows
  <2>3. Taking(q) => NoneShared'
    BY <1>4, <2>1 DEF OpSound, NoneShared
  <2>4. ASSUME op[q].stage = "fenced"
        PROVE  NoneCounted' /\ Compared(q)'
    <3>1. Taking(q) /\ NoneCounted /\ Compared(q) /\ NoneShared /\ Unchanged(q)
      BY <2>1, <2>4 DEF OpSound, Taking
    <3>2. NoneCounted'
      BY <1>4, <3>1 DEF NoneCounted
    <3>3. data' = data /\ art' = art /\ clock' = clock
      BY <1>1, <2>4, CommitFenced
    <3>4. Compared(q)'
      BY <1>1, <3>1, <3>3 DEF Compared, AllSealed, NewAreEmpty, Accounts
    <3>5. QED
      BY <3>2, <3>4
  <2>5. QED
    BY <1>1, <1>3, <1>5, <1>6, <2>1, <2>2, <2>3, <2>4, OpKept
<1>13. QED
  BY <1>5, <1>7, <1>9, <1>10, <1>11, <1>12 DEF ReleaseInv

-----------------------------------------------------------------------------
(* Releases: steps that change only what a command remembers.               *)

Still == UNCHANGED <<plan, data, txn, preps, pointer, clock, art, target>>

LEMMA OnlyOp ==
    ASSUME ReleaseInv, NEW o \in Operators, NEW r \in Command,
           Still, op' = [op EXCEPT ![o] = r], OpSound(o)',
           r.stage = "collected" => \A q \in Operators : q # o => ~Collecting(q),
           r.stage \in {"aborting", "locked", "fenced"} =>
               \A q \in Operators : q # o => ~Taking(q)
    PROVE  ReleaseInv'
<1>1. /\ op \in [Operators -> Command] /\ ReleaseTyped /\ PrepsSound /\ OpsApart
      /\ \A q \in Operators : OpSound(q)
  BY DEF ReleaseInv, ReleaseTyped
<1>2. op' \in [Operators -> Command] /\ op'[o] = r /\ \A q \in Operators : q # o => op'[q] = op[q]
  BY <1>1
<1>3. ReleaseTyped'
  BY <1>1, <1>2 DEF ReleaseTyped, Still
<1>4. PrepsSound' /\ SealedWhenActive' /\ WritesApart'
  BY DEF ReleaseInv, Still, PrepsSound, SealedWhenActive, WritesApart, InFlight,
         Current, Manifest, Promoted, Reaches, Accounts
<1>5. ASSUME NEW w \in InFlight'
      PROVE  WriteSound(w)'
  BY DEF ReleaseInv, Still, WriteSound, InFlight, Counts, Building, Current, Accounts
<1>6. OpsApart'
  BY <1>1, <1>2 DEF OpsApart, Collecting, Taking
<1>7. ASSUME NEW q \in Operators
      PROVE  OpSound(q)'
  <2>1. CASE q = o
    BY <2>1
  <2>2. CASE q # o
    <3>1. op'[q] = op[q] /\ OpSound(q) /\ DOMAIN art = DOMAIN clock
      BY <1>1, <1>2, <2>2 DEF PrepsSound
    <3>2. /\ preps' = preps /\ clock' = clock /\ art' = art /\ data' = data /\ txn' = txn
      BY DEF Still
    <3>3. Grows
      BY <1>1, <3>2, AccountsTyped DEF Grows, Accounts
    <3>4. \A u \in DOMAIN clock : Follows(u)
      BY <1>1, <3>1, <3>2, TablesTyped DEF Follows, Seen, Record
    <3>5. /\ NoneShared => NoneShared'
          /\ op[q].stage = "fenced" => NoneCounted' /\ Compared(q)'
      BY <3>1, <3>2 DEF OpSound, NoneShared, NoneCounted, InFlight, Compared, AllSealed,
                        NewAreEmpty, Accounts
    <3>6. Taking(q) => NoneShared'
      BY <3>1, <3>5 DEF OpSound
    <3>7. QED
      BY <1>1, <1>3, <3>1, <3>2, <3>3, <3>4, <3>5, <3>6, OpKept
  <2>3. QED
    BY <2>1, <2>2
<1>8. QED
  BY <1>3, <1>4, <1>5, <1>6, <1>7 DEF ReleaseInv

\* A command that ends, is refused or has only written down the preparation.
LEMMA FailsKeeps ==
    ASSUME ReleaseInv, NEW o \in Operators,
           Fails(o) \/ TimesOut(o) \/ PrepareEnds(o) \/ StartRefused(o)
    PROVE  ReleaseInv'
<1>1. Still /\ op' = [op EXCEPT ![o] = Idle] /\ op \in [Operators -> Command]
  BY DEF Fails, TimesOut, PrepareEnds, StartRefused, Becomes, Still, live, made, ReleaseInv, ReleaseTyped
<1>2. op'[o] = Idle /\ Idle \in Command /\ Idle.stage = "idle"
  BY <1>1 DEF Command, Idle
<1>3. OpSound(o)'
  BY <1>2 DEF OpSound, Collecting, Taking, Audits
<1>4. QED
  BY <1>1, <1>2, <1>3, OnlyOp

LEMMA NowTyped ==
    ASSUME ReleaseTyped
    PROVE  /\ ManifestNow \in Sized(Prefix) /\ DOMAIN ManifestNow = Accounts
           /\ \A u \in DOMAIN ManifestNow : Reaches(u, ManifestNow[u].through)
<1>1. \A u \in Accounts : Record(u, Len(data[u].messages)) \in Prefix
  <2> SUFFICES ASSUME NEW u \in Accounts
               PROVE  Record(u, Len(data[u].messages)) \in Prefix
    OBVIOUS
  <2> DEFINE m == data[u].messages
  <2>1. m \in Seq(Nat) /\ Len(m) \in Nat
    BY AccountsTyped
  <2>2. SubSeq(m, 1, Len(m)) \in Seq(Nat)
    BY <2>1
  <2>3. QED
    BY <2>1, <2>2 DEF Record, Prefix
<1>2. ManifestNow \in [Accounts -> Prefix] /\ Accounts \in SUBSET Subjects
  BY <1>1, AccountsTyped DEF ManifestNow
<1>3. \A u \in Accounts : ManifestNow[u].through = Len(data[u].messages)
                          /\ Len(data[u].messages) \in Nat
  BY AccountsTyped DEF ManifestNow, Record
<1>4. DOMAIN ManifestNow = Accounts
  BY DEF ManifestNow
<1>5. \A u \in Accounts : Reaches(u, ManifestNow[u].through)
  BY <1>3 DEF Reaches
<1>6. QED
  BY <1>2, <1>4, <1>5, SizedMade

LEMMA StartCollectKeeps ==
    ASSUME ReleaseInv, NEW o \in Operators, StartCollect(o)
    PROVE  ReleaseInv'
<1> DEFINE r == [stage |-> "collected", manifest |-> ManifestNow, clear |-> Resolved]
<1>1. /\ Still /\ op' = [op EXCEPT ![o] = r] /\ op \in [Operators -> Command] /\ ReleaseTyped
  BY DEF StartCollect, Becomes, Still, live, made, ReleaseInv, ReleaseTyped
<1>2. /\ ManifestNow \in Sized(Prefix)
      /\ \A u \in DOMAIN ManifestNow : Reaches(u, ManifestNow[u].through)
  BY <1>1, NowTyped
<1>3. r \in Command /\ op'[o] = r /\ r.stage = "collected" /\ r.clear = Resolved
  <2>1. Resolved \in BOOLEAN
    BY DEF Resolved
  <2>2. r \in [stage: {"collected"}, manifest: Sized(Prefix), clear: BOOLEAN]
    BY <1>2, <2>1
  <2>3. QED
    BY <1>1, <2>2 DEF Command
<1>4. \A q \in Operators : ~Collecting(q)
  BY DEF StartCollect, TableFree, Collecting
<1>5. Resolved => AllAborted
  BY DEF Resolved, AllAborted
<1>6. op'[o].clear => AllAborted'
  BY <1>1, <1>3, <1>5 DEF Still, AllAborted, Current
<1>7. \A u \in DOMAIN op'[o].manifest : Reaches(u, op[o].manifest[u].through)'
  BY <1>1, <1>2, <1>3 DEF Still, Reaches, Accounts
<1>8. OpSound(o)'
  <2>1. op'[o].stage = "collected"
    BY <1>3
  <2>2. QED
    BY <1>6, <1>7, <2>1 DEF OpSound, Collecting, Taking, Audits
<1>9. QED
  BY <1>1, <1>3, <1>4, <1>8, OnlyOp

LEMMA CatchUpCollectKeeps ==
    ASSUME ReleaseInv, NEW o \in Operators, CatchUpCollect(o)
    PROVE  ReleaseInv'
<1> DEFINE r == [stage |-> "catching", prep |-> Current, original |-> Manifest,
                 manifest |-> ManifestNow]
<1>1. /\ Still /\ op' = [op EXCEPT ![o] = r] /\ op \in [Operators -> Command] /\ ReleaseTyped
      /\ Building
  BY DEF CatchUpCollect, Becomes, Still, live, made, ReleaseInv, ReleaseTyped
<1>2. /\ ManifestNow \in Sized(Prefix)
      /\ \A u \in DOMAIN ManifestNow : Reaches(u, ManifestNow[u].through)
      /\ Current \in Nat /\ Manifest \in Sized(Prefix)
  BY <1>1, NowTyped, PrepsTyped DEF Building, Manifest
<1>3. r \in Command /\ op'[o] = r /\ r.stage = "catching"
  BY <1>1, <1>2 DEF Command
<1>4. \A u \in DOMAIN op'[o].manifest : Reaches(u, op[o].manifest[u].through)'
  BY <1>1, <1>2, <1>3 DEF Still, Reaches, Accounts
<1>5. OpSound(o)'
  <2>1. op'[o].stage = "catching"
    BY <1>3
  <2>2. QED
    BY <1>4, <2>1 DEF OpSound, Collecting, Taking, Audits
<1>6. QED
  BY <1>1, <1>3, <1>5, OnlyOp

-----------------------------------------------------------------------------
(* Releases: an audit, its repetition, and the locks.                       *)

LEMMA SeenTyped ==
    ASSUME ReleaseInv, NEW u \in DOMAIN clock
    PROVE  /\ Seen(u) \in View /\ Seen(u).clock = clock[u]
           /\ clock[u].through \in Nat /\ clock[u].rev \in Nat /\ art[u].built \in Nat
<1>1. ReleaseTyped /\ u \in DOMAIN art /\ u \in Accounts /\ clock[u].through <= Len(data[u].messages)
  BY DEF ReleaseInv, PrepsSound, Reaches
<1>2. /\ clock[u] \in ClockRow /\ clock[u].through \in Nat /\ clock[u].rev \in Nat
      /\ art[u].built \in Nat /\ data[u].messages \in Seq(Nat) /\ data[u].rows \in Nat
  BY <1>1, TablesTyped, AccountsTyped
<1>3. SubSeq(data[u].messages, 1, clock[u].through) \in Seq(Nat)
  BY <1>1, <1>2
<1>4. QED
  BY <1>2, <1>3 DEF Seen, View, Record, Prefix

LEMMA AuditKeeps ==
    ASSUME ReleaseInv, NEW o \in Operators, Audit(o)
    PROVE  ReleaseInv'
<1> DEFINE f == [u \in Accounts |-> Seen(u)]
           r == [stage |-> "audited", prep |-> Current, tries |-> 1,
                 version |-> preps[Current].version, todo |-> {}, seen |-> f]
<1>1. /\ Still /\ op' = [op EXCEPT ![o] = r] /\ op \in [Operators -> Command] /\ ReleaseTyped
      /\ Building /\ Accounts = DOMAIN clock /\ \A u \in Accounts : Complete(u)
  BY DEF Audit, Becomes, Still, live, made, ReleaseInv, ReleaseTyped
<1>2. Current \in Nat /\ Current > 0 /\ preps[Current].version \in Nat /\ Accounts \in SUBSET Subjects
  BY <1>1, PrepsTyped, AccountsTyped DEF Building
<1>3. f \in [Accounts -> View] /\ DOMAIN f = DOMAIN clock
  BY <1>1, SeenTyped
<1>4. f \in Sized(View)
  BY <1>2, <1>3, SizedMade
<1>5. \A u \in DOMAIN clock : f[u] = Seen(u)
  BY <1>1
<1> HIDE DEF f
<1>6. r \in Audited /\ r \in Command /\ op'[o] = r
  BY <1>1, <1>2, <1>4 DEF Audited, Audits, Command
<1>7. Current' = Current /\ (Building' <=> Building) /\ preps' = preps /\ clock' = clock /\ art' = art
  BY <1>1 DEF Still, Current, Building
<1>8. ASSUME NEW u \in DOMAIN clock
      PROVE  art[u].built >= clock[u].through /\ Same(o, u)'
  <2>1. Complete(u) /\ clock[u].through = Manifest[u].through
    BY <1>1 DEF ReleaseInv, PrepsSound
  <2>2. f[u] = Seen(u) /\ Seen(u).clock = clock[u] /\ clock[u].rev \in Nat
    BY <1>5, SeenTyped
  <2>3. Seen(u)' = Seen(u)
    BY <1>1 DEF Still, Seen, Record
  <2>4. op'[o].seen[u] = Seen(u)
    BY <1>6, <2>2
  <2>5. Same(o, u)'
    BY <1>7, <2>2, <2>3, <2>4 DEF Same
  <2>6. QED
    BY <2>1, <2>5 DEF Complete
<1>9. AuditSound(o)'
  BY <1>1, <1>2, <1>3, <1>6, <1>7, <1>8 DEF AuditSound
<1>10. OpSound(o)'
  <2>1. op'[o].stage = "audited"
    BY <1>6
  <2>2. QED
    BY <1>9, <2>1 DEF OpSound, Collecting, Taking, Audits
<1>11. QED
  BY <1>1, <1>6, <1>10, OnlyOp

\* A command that goes on with the same audit.
LEMMA SameAudit ==
    ASSUME ReleaseInv, NEW o \in Operators, op[o].stage \in Audits, Still,
           op'[o].prep = op[o].prep, op'[o].version = op[o].version,
           op'[o].todo \subseteq DOMAIN op[o].seen, op'[o].seen = op[o].seen
    PROVE  AuditSound(o)'
  BY DEF ReleaseInv, OpSound, AuditSound, Same, Still, Seen, Record, Current, Building

LEMMA LockRowKeeps ==
    ASSUME ReleaseInv, NEW o \in Operators, LockRow(o)
    PROVE  ReleaseInv'
<1> DEFINE r == [op[o] EXCEPT !.stage = "locked"]
<1>1. /\ Still /\ op' = [op EXCEPT ![o] = r] /\ op \in [Operators -> Command] /\ ReleaseTyped
      /\ op[o].stage = "audited" /\ RowFree /\ Unchanged(o)
  BY DEF LockRow, Still, live, made, ReleaseInv, ReleaseTyped
<1>2. op[o] \in Audited /\ op[o].todo \subseteq DOMAIN op[o].seen
  BY <1>1, CommandTyped DEF Audits, ReleaseInv, OpSound, AuditSound
<1>3. /\ r \in Audited /\ r \in Command /\ r.stage = "locked" /\ r.prep = op[o].prep
      /\ r.version = op[o].version /\ r.todo = op[o].todo /\ r.seen = op[o].seen
  BY <1>2 DEF Audited, Audits, Command
<1> HIDE DEF r
<1>4. op'[o] = r
  BY <1>1
<1>5. AuditSound(o)'
  BY <1>1, <1>2, <1>3, <1>4, SameAudit DEF Audits
<1>6. \A q \in Operators : ~Taking(q)
  BY <1>1 DEF RowFree, RowTaken, Taking
<1>7. NoneShared'
  BY <1>1 DEF RowFree, RowShared, NoneShared, Still, InFlight
<1>8. Unchanged(o)' /\ Building'
  BY <1>1, <1>3, <1>4 DEF Unchanged, Still, Current, Building
<1>9. OpSound(o)'
  <2>1. op'[o].stage = "locked"
    BY <1>3, <1>4
  <2>2. QED
    BY <1>5, <1>7, <1>8, <2>1 DEF OpSound, Collecting, Taking, Audits
<1>10. QED
  BY <1>1, <1>3, <1>6, <1>9, OnlyOp

LEMMA LockForAbortKeeps ==
    ASSUME ReleaseInv, NEW o \in Operators, LockForAbort(o)
    PROVE  ReleaseInv'
<1> DEFINE r == [stage |-> "aborting"]
<1>1. /\ Still /\ op' = [op EXCEPT ![o] = r] /\ op \in [Operators -> Command]
      /\ RowFree /\ Building
  BY DEF LockForAbort, Becomes, Still, live, made, ReleaseInv, ReleaseTyped
<1>2. r \in Command /\ op'[o] = r /\ r.stage = "aborting"
  BY <1>1 DEF Command
<1> HIDE DEF r
<1>3. \A q \in Operators : ~Taking(q)
  BY <1>1 DEF RowFree, RowTaken, Taking
<1>4. NoneShared'
  BY <1>1 DEF RowFree, RowShared, NoneShared, Still, InFlight
<1>5. Building'
  BY <1>1 DEF Building, Still, Current
<1>6. OpSound(o)'
  BY <1>2, <1>4, <1>5 DEF OpSound, Collecting, Taking, Audits
<1>7. QED
  BY <1>1, <1>2, <1>3, <1>6, OnlyOp

LEMMA CompareKeeps ==
    ASSUME ReleaseInv, NEW o \in Operators, Compare(o)
    PROVE  ReleaseInv'
<1>1. /\ Still /\ op \in [Operators -> Command] /\ ReleaseTyped /\ op[o].stage = "locked"
      /\ \A u \in DOMAIN clock : ClockUnlocked(u)
  BY DEF Compare, Still, live, made, ReleaseInv, ReleaseTyped
<1>2. /\ op[o] \in Audited /\ AuditSound(o) /\ Unchanged(o) /\ NoneShared
      /\ \A q \in Operators : q # o => ~Taking(q)
  BY <1>1, CommandTyped DEF Audits, ReleaseInv, OpSound, Taking, OpsApart
<1>3. DOMAIN op[o].seen = DOMAIN clock /\ op[o].todo \subseteq DOMAIN op[o].seen
  BY <1>2 DEF AuditSound, Unchanged
<1>4. CASE Dirty(o) = {}
  <2> DEFINE r == [op[o] EXCEPT !.stage = "fenced"]
  <2>1. op' = [op EXCEPT ![o] = r] /\ AllSealed /\ NewAreEmpty
    BY <1>4 DEF Compare
  <2>2. /\ r \in Audited /\ r \in Command /\ r.stage = "fenced" /\ r.prep = op[o].prep
        /\ r.version = op[o].version /\ r.todo = op[o].todo /\ r.seen = op[o].seen
    BY <1>2 DEF Audited, Audits, Command
  <2> HIDE DEF r
  <2>3. op'[o] = r
    BY <1>1, <2>1
  <2>4. AuditSound(o)'
    BY <1>1, <1>3, <2>2, <2>3, SameAudit DEF Audits
  <2>5. NoneShared'
    BY <1>1, <1>2 DEF NoneShared, Still, InFlight
  <2>6. NoneCounted'
    <3>1. NoneCounted
      <4> SUFFICES ASSUME NEW w \in InFlight, txn[w].stage \in {"counted", "noted"}
                   PROVE  FALSE
        BY DEF NoneCounted
      <4>1. txn[w].subject \in DOMAIN clock
        BY DEF ReleaseInv, WriteSound
      <4>2. QED
        BY <1>1, <4>1 DEF ClockUnlocked, On
    <3>2. QED
      BY <1>1, <3>1 DEF NoneCounted, Still, InFlight
  <2>7. Unchanged(o)' /\ Building'
    BY <1>1, <1>2, <2>2, <2>3 DEF Unchanged, Still, Current, Building
  <2>8. Compared(o)'
    <3>1. \A u \in DOMAIN clock : clock[u] = op[o].seen[u].clock
      BY <1>4 DEF Dirty
    <3>2. QED
      BY <1>1, <2>1, <2>2, <2>3, <3>1 DEF Compared, Still, AllSealed, NewAreEmpty, Accounts
  <2>9. OpSound(o)'
    <3>1. op'[o].stage = "fenced"
      BY <2>2, <2>3
    <3>2. QED
      BY <2>4, <2>5, <2>6, <2>7, <2>8, <3>1 DEF OpSound, Collecting, Taking, Audits
  <2>10. QED
    BY <1>1, <1>2, <2>1, <2>2, <2>9, OnlyOp
<1>5. CASE Dirty(o) # {}
  <2> DEFINE r == [op[o] EXCEPT !.stage = "dirty", !.tries = @ + 1, !.todo = Dirty(o)]
  <2>1. op' = [op EXCEPT ![o] = r]
    BY <1>5 DEF Compare, Becomes
  <2>2. Dirty(o) \in SUBSET Subjects /\ Dirty(o) \subseteq DOMAIN op[o].seen
    BY <1>1, <1>3, TablesTyped DEF Dirty
  <2>3. /\ r \in Audited /\ r \in Command /\ r.stage = "dirty" /\ r.prep = op[o].prep
        /\ r.version = op[o].version /\ r.todo = Dirty(o) /\ r.seen = op[o].seen
    <3> DEFINE d == Dirty(o)
    <3>1. d \in SUBSET Subjects /\ op[o].tries \in Nat
      BY <1>2, <2>2, AuditedIs
    <3> HIDE DEF d
    <3>2. PICK x : x = [op[o] EXCEPT !.stage = "dirty"]
      OBVIOUS
    <3>3. PICK y : y = [x EXCEPT !.tries = op[o].tries + 1]
      OBVIOUS
    <3>4. r = [y EXCEPT !.todo = d]
      BY <1>2, <3>2, <3>3 DEF d, Audited
    <3>5. x \in Audited /\ x.stage = "dirty" /\ x.tries = op[o].tries
          /\ x.prep = op[o].prep /\ x.version = op[o].version /\ x.seen = op[o].seen
      BY <1>2, <3>2 DEF Audited, Audits
    <3>6. y \in Audited /\ y.stage = "dirty" /\ y.prep = op[o].prep
          /\ y.version = op[o].version /\ y.seen = op[o].seen
      BY <3>1, <3>3, <3>5 DEF Audited
    <3>7. /\ r \in Audited /\ r.stage = "dirty" /\ r.prep = op[o].prep
          /\ r.version = op[o].version /\ r.todo = d /\ r.seen = op[o].seen
      BY <3>1, <3>4, <3>6 DEF Audited
    <3>8. QED
      BY <3>7 DEF Command, d
  <2> HIDE DEF r
  <2>4. op'[o] = r
    BY <1>1, <2>1
  <2>5. AuditSound(o)'
    BY <1>1, <2>2, <2>3, <2>4, SameAudit DEF Audits
  <2>6. OpSound(o)'
    <3>1. op'[o].stage = "dirty"
      BY <2>3, <2>4
    <3>2. QED
      BY <2>5, <3>1 DEF OpSound, Collecting, Taking, Audits
  <2>7. QED
    BY <1>1, <2>1, <2>3, <2>6, OnlyOp
<1>6. QED
  BY <1>4, <1>5

LEMMA RefreshOneKeeps ==
    ASSUME ReleaseInv, NEW o \in Operators, NEW u \in Subjects, RefreshOne(o, u)
    PROVE  ReleaseInv'
<1>1. /\ Still /\ op \in [Operators -> Command] /\ ReleaseTyped /\ op[o].stage = "refreshing"
      /\ u \in op[o].todo /\ Unchanged(o) /\ Complete(u)
  BY DEF RefreshOne, Becomes, Still, live, made, ReleaseInv, ReleaseTyped
<1>2. op[o] \in Audited /\ AuditSound(o)
  BY <1>1, CommandTyped DEF Audits, ReleaseInv, OpSound
<1>3. /\ DOMAIN op[o].seen = DOMAIN clock /\ op[o].todo \subseteq DOMAIN op[o].seen
      /\ op[o].seen \in Sized(View) /\ op[o].todo \in SUBSET Subjects
  BY <1>1, <1>2, AuditedIs DEF AuditSound, Unchanged
<1>4. u \in DOMAIN clock /\ u \in DOMAIN op[o].seen
  BY <1>1, <1>3
<1> DEFINE f == [op[o].seen EXCEPT ![u] = Seen(u)]
           d == op[o].todo \ {u}
           next == IF op[o].todo = {u} THEN "audited" ELSE "refreshing"
<1>5. /\ f \in Sized(View) /\ DOMAIN f = DOMAIN clock
      /\ \A v \in DOMAIN clock : f[v] = IF v = u THEN Seen(u) ELSE op[o].seen[v]
  <2>1. Seen(u) \in View
    BY <1>4, SeenTyped
  <2>2. QED
    BY <1>3, <1>4, <2>1, SizedChanged
<1>6. d \in SUBSET Subjects /\ d \subseteq DOMAIN f /\ next \in {"audited", "refreshing"}
  BY <1>3, <1>5
<1>7. op' = [op EXCEPT ![o] = [op[o] EXCEPT !.seen = f, !.todo = d, !.stage = next]]
  <2>1. op' = [op EXCEPT ![o] = [op[o] EXCEPT !.seen[u] = Seen(u), !.todo = @ \ {u},
                       !.stage = IF op[o].todo = {u} THEN "audited" ELSE "refreshing"]]
    BY DEF RefreshOne, Becomes
  <2>2. [op[o] EXCEPT !.seen[u] = Seen(u), !.todo = @ \ {u},
                       !.stage = IF op[o].todo = {u} THEN "audited" ELSE "refreshing"]
        = [op[o] EXCEPT !.seen = f, !.todo = d, !.stage = next]
    BY <1>2 DEF Audited
  <2>3. QED
    BY <2>1, <2>2
<1> HIDE DEF f, d, next
<1> DEFINE r == [op[o] EXCEPT !.seen = f, !.todo = d, !.stage = next]
<1>8. /\ r \in Audited /\ r.stage = next /\ r.prep = op[o].prep
      /\ r.version = op[o].version /\ r.todo = d /\ r.seen = f
  <2>1. PICK x : x = [op[o] EXCEPT !.seen = f]
    OBVIOUS
  <2>2. PICK y : y = [x EXCEPT !.todo = d]
    OBVIOUS
  <2>3. r = [y EXCEPT !.stage = next]
    BY <1>2, <2>1, <2>2 DEF Audited
  <2>4. x \in Audited /\ x.seen = f /\ x.prep = op[o].prep /\ x.version = op[o].version
    BY <1>2, <1>5, <2>1 DEF Audited
  <2>5. y \in Audited /\ y.todo = d /\ y.seen = f /\ y.prep = op[o].prep /\ y.version = op[o].version
    BY <1>6, <2>2, <2>4 DEF Audited
  <2>6. next \in Audits
    BY <1>6 DEF Audits
  <2>7. QED
    BY <2>3, <2>5, <2>6 DEF Audited
<1> HIDE DEF r
<1>9. op'[o] = r /\ op' = [op EXCEPT ![o] = r] /\ r \in Command
  BY <1>1, <1>7, <1>8 DEF r, Command
<1>10. Current' = Current /\ (Building' <=> Building) /\ preps' = preps /\ clock' = clock /\ art' = art
  BY <1>1 DEF Still, Current, Building
<1>11. ASSUME NEW v \in DOMAIN clock
       PROVE  art[v].built >= clock[v].through /\ Same(o, v)'
  <2>1. art[v].built >= clock[v].through /\ Same(o, v)
    BY <1>1, <1>2 DEF AuditSound, Unchanged
  <2>2. Seen(v)' = Seen(v)
    BY <1>1 DEF Still, Seen, Record
  <2>3. Seen(v).clock = clock[v] /\ clock[v].rev \in Nat
    BY SeenTyped
  <2>4. CASE v = u
    <3>1. op'[o].seen[v] = Seen(v)
      BY <1>5, <1>8, <1>9, <2>4
    <3>2. QED
      BY <1>10, <2>1, <2>2, <2>3, <3>1 DEF Same
  <2>5. CASE v # u
    <3>1. op'[o].seen[v] = op[o].seen[v]
      BY <1>5, <1>8, <1>9, <2>5
    <3>2. QED
      BY <1>10, <2>1, <2>2, <3>1 DEF Same
  <2>6. QED
    BY <2>4, <2>5
<1>12. AuditSound(o)'
  BY <1>1, <1>2, <1>5, <1>6, <1>8, <1>9, <1>10, <1>11 DEF AuditSound, Unchanged
<1>13. OpSound(o)'
  <2>1. op'[o].stage \in {"audited", "refreshing"}
    BY <1>6, <1>8, <1>9
  <2>2. QED
    BY <1>12, <2>1 DEF OpSound, Collecting, Taking, Audits
<1>14. QED
  <2>1. r.stage \in {"audited", "refreshing"}
    BY <1>6, <1>8
  <2>2. QED
    BY <1>1, <1>9, <1>13, <2>1, OnlyOp

-----------------------------------------------------------------------------
(* Releases: steps that change the tables of a preparation that goes on.    *)

LEMMA TableStep ==
    ASSUME ReleaseInv, ReleaseTyped', Grows,
           preps' = preps, pointer' = pointer, txn' = txn, Accounts' = Accounts,
           \A v \in Accounts : data'[v].messages = data[v].messages,
           DOMAIN clock' = DOMAIN clock, DOMAIN art' = DOMAIN clock, DOMAIN target' = DOMAIN clock,
           \A v \in DOMAIN clock : clock'[v].through = clock[v].through,
           \A v \in DOMAIN art : art'[v].built = art[v].built,
           Promoted => \A v \in DOMAIN art : art'[v].sealed = art[v].sealed,
           OpsApart', \A q \in Operators : OpSound(q)'
    PROVE  ReleaseInv'
<1>1. ReleaseTyped /\ PrepsSound /\ SealedWhenActive /\ DOMAIN art = DOMAIN clock
  BY DEF ReleaseInv, PrepsSound
<1>2. PrepsSound' /\ SealedWhenActive'
  BY <1>1, TablesKept
<1>3. InFlight' = InFlight /\ WritesApart'
  BY DEF InFlight, WritesApart, ReleaseInv
<1>4. ASSUME NEW w \in InFlight'
      PROVE  WriteSound(w)'
  <2> DEFINE u == txn[w].subject
  <2>1. WriteSound(w) /\ txn'[w] = txn[w] /\ u' = u
    BY <1>3 DEF ReleaseInv
  <2>2. u \in Accounts' <=> u \in Accounts
    OBVIOUS
  <2>3. txn[w].kind # "signup" => u \in Accounts
    BY <2>1 DEF WriteSound
  <2>4. txn[w].kind # "signup" => data'[u].messages = data[u].messages
    BY <2>3
  <2>5. txn[w].kind = "message" => Len(data'[u].messages) = Len(data[u].messages)
    BY <2>4
  <2>6. txn[w].kind = "edit" => txn[w].at \in 1..Len(data'[u].messages)
    BY <2>1, <2>4 DEF WriteSound
  <2>7. Building' <=> Building
    BY DEF Building, Current
  <2>8. txn[w].kind = "artifact" => /\ Building' /\ u \in DOMAIN clock'
                                    /\ txn[w].at > art'[u].built
    BY <1>1, <2>1, <2>7 DEF WriteSound
  <2>9. txn[w].stage \in {"counted", "noted"} =>
            u \in DOMAIN clock' /\ clock'[u].through = clock[u].through
    BY <2>1 DEF WriteSound
  <2>10. Building' /\ txn[w].stage = "clear" => txn[w].kind = "cursor"
    BY <2>1, <2>7 DEF WriteSound
  <2>11. QED
    BY <2>1, <2>2, <2>5, <2>6, <2>8, <2>9, <2>10, WriteKept
<1>5. QED
  BY <1>2, <1>3, <1>4 DEF ReleaseInv

LEMMA JobDiesKeeps ==
    ASSUME ReleaseInv, NEW u \in Subjects, JobDies(u)
    PROVE  ReleaseInv'
<1>1. /\ plan' = plan /\ data' = data /\ txn' = txn /\ preps' = preps /\ pointer' = pointer
      /\ clock' = clock /\ art' = art /\ op' = op
      /\ target' = [target EXCEPT ![u] = art[u].built] /\ u \in DOMAIN target
  BY DEF JobDies, live
<1>2. ReleaseTyped /\ PrepsSound /\ target \in Sized(Nat) /\ DOMAIN art = DOMAIN clock
      /\ DOMAIN target = DOMAIN clock
  BY DEF ReleaseInv, ReleaseTyped, PrepsSound
<1>3. art[u].built \in Nat
  BY <1>1, <1>2, TablesTyped
<1>4. target' \in Sized(Nat) /\ DOMAIN target' = DOMAIN target
  BY <1>1, <1>2, <1>3, SizedChanged
<1>5. ReleaseTyped'
  BY <1>1, <1>2, <1>4 DEF ReleaseTyped
<1>6. Grows /\ Accounts' = Accounts
  BY <1>1, <1>2, AccountsTyped DEF Grows, Accounts
<1>7. ASSUME NEW q \in Operators
      PROVE  OpSound(q)'
  <2>1. OpSound(q) /\ op'[q] = op[q]
    BY <1>1 DEF ReleaseInv
  <2>2. \A v \in DOMAIN clock : Follows(v)
    BY <1>1, <1>2, TablesTyped DEF Follows, Seen, Record
  <2>3. /\ Taking(q) => NoneShared'
        /\ op[q].stage = "fenced" => NoneCounted' /\ Compared(q)'
    BY <1>1, <2>1 DEF OpSound, NoneShared, NoneCounted, InFlight, Compared, AllSealed,
                      NewAreEmpty, Accounts
  <2>4. QED
    BY <1>1, <1>2, <1>5, <1>6, <2>1, <2>2, <2>3, OpKept
<1>8. OpsApart'
  BY <1>1 DEF OpsApart, Collecting, Taking, ReleaseInv
<1>9. QED
  BY <1>1, <1>2, <1>4, <1>5, <1>6, <1>7, <1>8, TableStep

\* Sealing moves the clocks of the accounts whose rows it seals.
SealedRows(o, r) ==
    /\ SealRows /\ Building /\ ~RowTaken /\ op' = [op EXCEPT ![o] = r]
    /\ UNCHANGED <<plan, data, txn, preps, pointer, target>>

LEMMA SealedRowsKeep ==
    ASSUME ReleaseInv, NEW o \in Operators, NEW r, r \in Command, SealedRows(o, r),
           \/ r.stage = "sealed"
           \/ /\ r.stage = "refreshing" /\ op[o].stage = "dirty" /\ r.prep = op[o].prep
              /\ r.version = op[o].version /\ r.todo = op[o].todo /\ r.seen = op[o].seen
    PROVE  ReleaseInv'
<1>1. /\ plan' = plan /\ data' = data /\ txn' = txn /\ preps' = preps /\ pointer' = pointer
      /\ target' = target /\ op' = [op EXCEPT ![o] = r] /\ Building /\ ~RowTaken
  BY DEF SealedRows
<1>2. /\ ReleaseTyped /\ PrepsSound /\ OpsApart /\ op \in [Operators -> Command]
      /\ DOMAIN art = DOMAIN clock /\ DOMAIN target = DOMAIN clock
      /\ clock \in Sized(ClockRow) /\ art \in Sized([built: Nat, sealed: Nat])
  BY DEF ReleaseInv, ReleaseTyped, PrepsSound
<1>3. /\ DOMAIN clock \in SUBSET Subjects /\ DOMAIN art \in SUBSET Subjects
      /\ \A v \in DOMAIN clock : /\ clock[v] \in ClockRow /\ clock[v].through \in Nat
                                 /\ clock[v].rev \in Nat
      /\ \A v \in DOMAIN art : /\ art[v] \in [built: Nat, sealed: Nat]
                               /\ art[v].built \in Nat /\ art[v].sealed \in Nat
  BY <1>2, TablesTyped
<1>4. /\ art' \in Sized([built: Nat, sealed: Nat]) /\ DOMAIN art' = DOMAIN art
      /\ \A v \in DOMAIN art : art'[v].built = art[v].built
  <2>1. art' = [v \in DOMAIN art |-> [art[v] EXCEPT !.sealed = art[v].built]]
    BY DEF SealedRows, SealRows
  <2>2. \A v \in DOMAIN art : [art[v] EXCEPT !.sealed = art[v].built] \in [built: Nat, sealed: Nat]
    BY <1>3
  <2>3. art' \in [DOMAIN art -> [built: Nat, sealed: Nat]]
    BY <2>1, <2>2
  <2>4. art' \in Sized([built: Nat, sealed: Nat]) /\ DOMAIN art' = DOMAIN art
    BY <1>3, <2>3, SizedMade
  <2>5. QED
    BY <1>3, <2>1, <2>4
<1>5. /\ clock' \in Sized(ClockRow) /\ DOMAIN clock' = DOMAIN clock
      /\ \A v \in DOMAIN clock : clock'[v].through = clock[v].through
                                 /\ clock[v].rev <= clock'[v].rev
  <2> DEFINE c(v) == IF art[v].sealed = art[v].built THEN clock[v]
                     ELSE [clock[v] EXCEPT !.rev = clock[v].rev + 1]
  <2>1. clock' = [v \in DOMAIN clock |-> c(v)]
    BY DEF SealedRows, SealRows
  <2>2. ASSUME NEW v \in DOMAIN clock
        PROVE  c(v) \in ClockRow /\ c(v).through = clock[v].through /\ clock[v].rev <= c(v).rev
    <3>1. clock[v] \in [through: Nat, rev: Nat] /\ clock[v].rev \in Nat
      BY <1>3 DEF ClockRow
    <3>2. CASE art[v].sealed = art[v].built
      BY <3>1, <3>2 DEF ClockRow
    <3>3. CASE art[v].sealed # art[v].built
      <4> DEFINE x == [clock[v] EXCEPT !.rev = clock[v].rev + 1]
      <4>1. x \in [through: Nat, rev: Nat] /\ x.through = clock[v].through /\ x.rev = clock[v].rev + 1
        BY <3>1
      <4>2. QED
        BY <3>1, <3>3, <4>1 DEF ClockRow
    <3>4. QED
      BY <3>2, <3>3
  <2> HIDE DEF c
  <2>3. clock' \in [DOMAIN clock -> ClockRow]
    BY <2>1, <2>2
  <2>4. clock' \in Sized(ClockRow) /\ DOMAIN clock' = DOMAIN clock
    BY <1>3, <2>3, SizedMade
  <2>5. QED
    BY <2>1, <2>2, <2>4
<1>6. op' \in [Operators -> Command] /\ op'[o] = r /\ \A q \in Operators : q # o => op'[q] = op[q]
  BY <1>1, <1>2
<1>7. ReleaseTyped'
  BY <1>1, <1>2, <1>4, <1>5, <1>6 DEF ReleaseTyped
<1>8. Grows /\ Accounts' = Accounts
  BY <1>1, <1>2, AccountsTyped DEF Grows, Accounts
<1>9. ASSUME NEW v \in DOMAIN clock
      PROVE  Follows(v)
  <2>1. v \in DOMAIN art /\ art'[v].built = art[v].built /\ art[v].built \in Nat
    BY <1>2, <1>3, <1>4
  <2>2. clock'[v] = clock[v] => Seen(v)' = Seen(v)
    BY <1>1, <2>1 DEF Seen, Record
  <2>3. QED
    BY <1>5, <2>1, <2>2 DEF Follows
<1>10. ~Promoted /\ \A q \in Operators : ~Taking(q)
  BY <1>1 DEF Building, Promoted, RowTaken, Taking
<1>11. ASSUME NEW q \in Operators
       PROVE  OpSound(q)'
  <2>1. CASE q = o
    <3>1. CASE r.stage = "sealed"
      BY <1>6, <2>1, <3>1 DEF OpSound, Collecting, Taking, Audits
    <3>2. CASE r.stage = "refreshing"
      <4>1. op[o].stage \in Audits /\ AuditSound(o)
        BY <3>2 DEF Audits, ReleaseInv, OpSound
      <4>2. AuditSound(o)'
        BY <1>1, <1>2, <1>4, <1>5, <1>6, <1>7, <1>9, <3>2, <4>1, AuditKept
      <4>3. QED
        BY <1>6, <2>1, <3>2, <4>2 DEF OpSound, Collecting, Taking, Audits
    <3>3. QED
      BY <3>1, <3>2
  <2>2. CASE q # o
    <3>1. OpSound(q) /\ op'[q] = op[q] /\ ~Taking(q) /\ op[q].stage # "fenced"
      BY <1>6, <1>10, <2>2 DEF ReleaseInv, Taking
    <3>2. QED
      BY <1>1, <1>2, <1>4, <1>5, <1>7, <1>8, <1>9, <3>1, OpKept
  <2>3. QED
    BY <2>1, <2>2
<1>12. OpsApart'
  <2>1. r.stage \notin {"collected", "aborting", "locked", "fenced"}
    OBVIOUS
  <2>2. QED
    BY <1>2, <1>6, <2>1 DEF OpsApart, Collecting, Taking
<1>13. QED
  BY <1>1, <1>2, <1>4, <1>5, <1>7, <1>8, <1>10, <1>11, <1>12, TableStep

LEMMA SealKeeps ==
    ASSUME ReleaseInv, NEW o \in Operators, Seal(o)
    PROVE  ReleaseInv'
<1> DEFINE r == [stage |-> "sealed", prep |-> Current]
<1>1. ReleaseTyped /\ SealedRows(o, r)
  BY DEF Seal, SealedRows, Becomes, live, ReleaseInv
<1>2. r \in Command /\ r.stage = "sealed"
  BY <1>1, PrepsTyped DEF Command
<1> HIDE DEF r
<1>3. QED
  BY <1>1, <1>2, SealedRowsKeep

LEMMA RefreshSealKeeps ==
    ASSUME ReleaseInv, NEW o \in Operators, RefreshSeal(o)
    PROVE  ReleaseInv'
<1> DEFINE r == [op[o] EXCEPT !.stage = "refreshing"]
<1>1. ReleaseTyped /\ SealedRows(o, r) /\ op[o].stage = "dirty"
  BY DEF RefreshSeal, SealedRows, live, ReleaseInv
<1>2. op[o] \in Audited
  BY <1>1, CommandTyped DEF Audits
<1>3. /\ r \in Audited /\ r \in Command /\ r.stage = "refreshing" /\ r.prep = op[o].prep
      /\ r.version = op[o].version /\ r.todo = op[o].todo /\ r.seen = op[o].seen
  BY <1>2 DEF Audited, Audits, Command
<1> HIDE DEF r
<1>4. QED
  BY <1>1, <1>3, SealedRowsKeep

LEMMA PrepareUserKeeps ==
    ASSUME ReleaseInv, NEW o \in Operators, NEW u \in Subjects, PrepareUser(o, u)
    PROVE  ReleaseInv'
<1> DEFINE k == op[o].manifest[u].through
           x == [data[u] EXCEPT !.canonical = TRUE]
           c == [clock[u] EXCEPT !.rev = clock[u].rev + 1]
           reach == IF k > target[u] THEN k ELSE target[u]
           r == [op[o] EXCEPT !.todo = op[o].todo \ {u}]
<1>1. /\ plan' = plan /\ txn' = txn /\ preps' = preps /\ pointer' = pointer /\ art' = art
      /\ op[o].stage = "preparing" /\ u \in op[o].todo /\ Building /\ ~RowTaken
      /\ data' = [data EXCEPT ![u] = x]
      /\ clock' = IF data[u].canonical THEN clock ELSE [clock EXCEPT ![u] = c]
      /\ target' = [target EXCEPT ![u] = reach]
      /\ op' = [op EXCEPT ![o] = r]
  BY DEF PrepareUser
<1>2. /\ ReleaseTyped /\ PrepsSound /\ OpsApart /\ OpSound(o) /\ op \in [Operators -> Command]
      /\ DOMAIN art = DOMAIN clock /\ DOMAIN target = DOMAIN clock
      /\ clock \in Sized(ClockRow) /\ target \in Sized(Nat)
  BY DEF ReleaseInv, ReleaseTyped, PrepsSound
<1>3. /\ op[o] \in [stage: {"preparing"}, prep: Nat, manifest: Sized(Prefix), todo: SUBSET Subjects]
      /\ u \in DOMAIN op[o].manifest /\ op[o].manifest \in Sized(Prefix)
  BY <1>1, <1>2, CommandTyped DEF OpSound
<1>4. k \in Nat /\ u \in Accounts
  <2>1. op[o].manifest[u] \in Prefix
    BY <1>3, SizedIs
  <2>2. Reaches(u, k)
    BY <1>1, <1>2, <1>3 DEF OpSound
  <2>3. QED
    BY <2>1, <2>2 DEF Prefix, Reaches
<1>5. /\ data[u] \in Account /\ x \in Account /\ x.messages = data[u].messages /\ x.rows = data[u].rows
  BY <1>2, <1>4, AccountsTyped DEF Account
<1>6. /\ data' \in Sized(Account) /\ Accounts' = Accounts /\ data'[u] = x
      /\ \A v \in Accounts : v # u => data'[v] = data[v]
  BY <1>1, <1>2, <1>4, <1>5, RowChanged
<1>7. \A v \in Accounts : data'[v].messages = data[v].messages /\ data'[v].rows = data[v].rows
  BY <1>5, <1>6
<1>8. /\ \A v \in DOMAIN clock : clock[v] \in ClockRow /\ clock[v].through \in Nat /\ clock[v].rev \in Nat
      /\ \A v \in DOMAIN art : art[v].built \in Nat /\ art[v].sealed \in Nat
      /\ \A v \in DOMAIN target : target[v] \in Nat
  BY <1>2, TablesTyped
<1>9. /\ clock' \in Sized(ClockRow) /\ DOMAIN clock' = DOMAIN clock
      /\ \A v \in DOMAIN clock : clock'[v].through = clock[v].through
                                 /\ clock[v].rev <= clock'[v].rev
  <2>1. CASE data[u].canonical \/ u \notin DOMAIN clock
    <3>1. clock' = clock
      BY <1>1, <1>2, <2>1, SizedIs
    <3>2. QED
      BY <1>2, <1>8, <3>1
  <2>2. CASE ~data[u].canonical /\ u \in DOMAIN clock
    <3>1. clock[u] \in [through: Nat, rev: Nat]
      BY <1>8, <2>2 DEF ClockRow
    <3>2. c \in [through: Nat, rev: Nat] /\ c.through = clock[u].through /\ c.rev = clock[u].rev + 1
      BY <3>1
    <3>3. clock' = [clock EXCEPT ![u] = c] /\ c \in ClockRow
      BY <1>1, <2>2, <3>2 DEF ClockRow
    <3> HIDE DEF c
    <3>4. /\ clock' \in Sized(ClockRow) /\ DOMAIN clock' = DOMAIN clock
          /\ \A v \in DOMAIN clock : clock'[v] = IF v = u THEN c ELSE clock[v]
      BY <1>2, <3>3, SizedChanged
    <3>5. QED
      BY <1>8, <2>2, <3>2, <3>4
  <2>3. QED
    BY <2>1, <2>2
<1>10. target' \in Sized(Nat) /\ DOMAIN target' = DOMAIN target
  <2>1. u \in DOMAIN target => reach \in Nat
    BY <1>4, <1>8
  <2> HIDE DEF reach
  <2>2. QED
    BY <1>1, <1>2, <2>1, SizedChanged
<1>11. /\ r \in Command /\ r.stage = "preparing" /\ r.manifest = op[o].manifest
       /\ r.todo \subseteq op[o].todo
  <2>1. r \in [stage: {"preparing"}, prep: Nat, manifest: Sized(Prefix), todo: SUBSET Subjects]
    BY <1>3
  <2>2. QED
    BY <1>3, <2>1 DEF Command
<1> HIDE DEF k, x, c, reach, r
<1>12. op' \in [Operators -> Command] /\ op'[o] = r /\ \A q \in Operators : q # o => op'[q] = op[q]
  BY <1>1, <1>2, <1>11
<1>13. ReleaseTyped'
  BY <1>1, <1>2, <1>6, <1>9, <1>10, <1>12 DEF ReleaseInv, ReleaseTyped
<1>14. Grows
  <2>1. \A v \in Accounts : Len(data[v].messages) \in Nat
    BY <1>2, AccountsTyped
  <2>2. QED
    BY <1>6, <1>7, <2>1 DEF Grows
<1>15. ASSUME NEW v \in DOMAIN clock
       PROVE  Follows(v)
  <2>1. v \in Accounts /\ v \in DOMAIN art /\ art[v].built \in Nat
    BY <1>2, <1>8 DEF PrepsSound, Reaches
  <2>2. clock'[v] = clock[v] => Seen(v)' = Seen(v)
    BY <1>1, <1>7, <2>1 DEF Seen, Record
  <2>3. QED
    BY <1>1, <1>9, <2>1, <2>2 DEF Follows
<1>16. ~Promoted /\ \A q \in Operators : ~Taking(q)
  BY <1>1 DEF Building, Promoted, RowTaken, Taking
<1>17. ASSUME NEW q \in Operators
       PROVE  OpSound(q)'
  <2>1. CASE q = o
    <3>1. \A v \in DOMAIN op[o].manifest : Reaches(v, op[o].manifest[v].through)'
      <4> SUFFICES ASSUME NEW v \in DOMAIN op[o].manifest
                   PROVE  Reaches(v, op[o].manifest[v].through)'
        OBVIOUS
      <4>1. Reaches(v, op[o].manifest[v].through)
        BY <1>1, <1>2 DEF OpSound
      <4>2. QED
        BY <1>6, <1>7, <1>11, <1>12, <4>1 DEF Reaches
    <3>2. op'[o].manifest = op[o].manifest /\ op'[o].stage = "preparing"
          /\ op'[o].todo \subseteq DOMAIN op'[o].manifest
      BY <1>1, <1>2, <1>11, <1>12 DEF OpSound
    <3>3. QED
      BY <2>1, <3>1, <3>2 DEF OpSound, Collecting, Taking, Audits
  <2>2. CASE q # o
    <3>1. OpSound(q) /\ op'[q] = op[q] /\ ~Taking(q) /\ op[q].stage # "fenced"
      BY <1>12, <1>16, <2>2 DEF ReleaseInv, Taking
    <3>2. QED
      BY <1>1, <1>2, <1>9, <1>13, <1>14, <1>15, <3>1, OpKept
  <2>3. QED
    BY <2>1, <2>2
<1>18. OpsApart'
  BY <1>2, <1>11, <1>12 DEF OpsApart, Collecting, Taking
<1>19. QED
  BY <1>1, <1>2, <1>6, <1>7, <1>9, <1>10, <1>13, <1>14, <1>16, <1>17, <1>18, TableStep

-----------------------------------------------------------------------------
(* Releases: steps after which the preparation is another one.              *)

LEMMA NewPreparation ==
    ASSUME ReleaseInv, ReleaseTyped', data' = data, txn' = txn,
           PrepsSound', SealedWhenActive', OpsApart', \A q \in Operators : OpSound(q)',
           \A w \in InFlight : txn[w].kind # "artifact",
           FenceFree \/ (clock' = clock /\ ~Building')
    PROVE  ReleaseInv'
<1>1. InFlight' = InFlight /\ WritesApart'
  BY DEF InFlight, WritesApart, ReleaseInv
<1>2. ASSUME NEW w \in InFlight'
      PROVE  WriteSound(w)'
  <2>1. WriteSound(w) /\ txn'[w] = txn[w] /\ txn[w].kind # "artifact" /\ Accounts' = Accounts
    BY <1>1 DEF ReleaseInv, Accounts
  <2>2. FenceFree => txn[w].stage = "open"
    BY <1>1 DEF FenceFree
  <2>3. txn[w].kind = "edit" => txn[w].at \in 1..Len(data[txn[w].subject].messages)'
    BY <2>1 DEF WriteSound
  <2>4. txn[w].stage \in {"counted", "noted"} =>
            /\ txn[w].subject \in DOMAIN clock'
            /\ clock'[txn[w].subject].through = clock[txn[w].subject].through
    BY <2>1, <2>2 DEF WriteSound
  <2>5. Building' /\ txn[w].stage = "clear" => txn[w].kind = "cursor"
    BY <2>2
  <2>6. Len(data[txn[w].subject].messages)' = Len(data[txn[w].subject].messages)
    OBVIOUS
  <2>7. QED
    BY <2>1, <2>3, <2>4, <2>5, <2>6, WriteKept
<1>3. QED
  BY <1>1, <1>2 DEF ReleaseInv

LEMMA AsSequence ==
    ASSUME NEW T, NEW len \in Nat, NEW s \in [1..len -> T]
    PROVE  s \in Seq(T) /\ Len(s) = len
  OBVIOUS

LEMMA PrepChanged ==
    ASSUME ReleaseTyped, Current > 0, NEW x \in Prep, preps' = [preps EXCEPT ![Current] = x]
    PROVE  /\ preps' \in Seq(Prep) /\ Current' = Current /\ preps'[Current] = x
           /\ \A i \in 1..Current : i < Current => preps'[i] = preps[i]
<1>1. PICK len \in Nat : len = Current
  BY PrepsTyped
<1>2. preps \in Seq(Prep) /\ Len(preps) = len /\ len > 0
  BY <1>1 DEF ReleaseTyped, Current
<1>3. preps \in [1..len -> Prep] /\ len \in 1..len
  BY <1>2
<1>4. preps' = [preps EXCEPT ![len] = x]
  BY <1>1
<1>5. /\ preps' \in [1..len -> Prep] /\ preps'[len] = x
      /\ \A i \in 1..len : i < len => preps'[i] = preps[i]
  <2> DEFINE S == 1..len
  <2>1. preps \in [S -> Prep] /\ len \in S
    BY <1>3
  <2> HIDE DEF S
  <2>2. preps' \in [S -> Prep] /\ preps'[len] = x /\ \A i \in S : i # len => preps'[i] = preps[i]
    BY <1>4, <2>1
  <2>3. \A i \in 1..len : i < len => i # len /\ i \in S
    BY DEF S
  <2>4. QED
    BY <2>2, <2>3 DEF S
<1>6. preps' \in Seq(Prep) /\ Len(preps') = len
  BY <1>5, AsSequence
<1>7. QED
  BY <1>1, <1>5, <1>6 DEF Current

LEMMA AbortKeeps ==
    ASSUME ReleaseInv, NEW o \in Operators, Abort(o)
    PROVE  ReleaseInv'
<1> DEFINE p == preps[Current]
<1>x. PICK y : y = [p EXCEPT !.state = "aborted"]
  OBVIOUS
<1> DEFINE x == [y EXCEPT !.version = p.version + 1]
<1>1. /\ plan' = plan /\ data' = data /\ txn' = txn /\ pointer' = pointer /\ clock' = clock
      /\ art' = art /\ op' = [op EXCEPT ![o] = Idle] /\ TableFree
      /\ op[o].stage = "aborting" /\ preps' = [preps EXCEPT ![Current] = x]
  BY <1>x DEF Abort, live, Becomes
<1>y. OpSound(o) /\ Taking(o) /\ OpsApart /\ op \in [Operators -> Command]
  BY <1>1 DEF ReleaseInv, ReleaseTyped, Taking
<1>z. Building /\ NoneShared /\ \A q \in Operators : q # o => ~Taking(q)
  BY <1>y DEF OpSound, OpsApart
<1>2. /\ ReleaseTyped /\ PrepsSound /\ OpsApart
      /\ DOMAIN art = DOMAIN clock /\ DOMAIN target = DOMAIN clock /\ Current > 0 /\ Current \in Nat
  BY <1>z, PrepsTyped DEF ReleaseInv, PrepsSound, Building
<1>3. p \in Prep /\ p.version \in Nat
  BY <1>2, PrepsTyped
<1>4. x \in Prep /\ x.state = "aborted" /\ x.version = p.version + 1 /\ x.manifest = p.manifest
  <2>1. y \in Prep /\ y.state = "aborted" /\ y.manifest = p.manifest
    BY <1>3, <1>x DEF Prep
  <2>2. p.version + 1 \in Nat
    BY <1>3
  <2>3. QED
    BY <2>1, <2>2 DEF Prep
<1> HIDE DEF x
<1>5. /\ preps' \in Seq(Prep) /\ Current' = Current /\ preps'[Current] = x
      /\ \A i \in 1..Current : i < Current => preps'[i] = preps[i]
  BY <1>1, <1>2, <1>4, PrepChanged
<1>6. target' \in Sized(Nat) /\ DOMAIN target' = DOMAIN target
  <2>1. PICK running \in SUBSET DOMAIN target :
            target' = [u \in DOMAIN target |-> IF u \in running THEN target[u] ELSE art[u].built]
    BY DEF Abort
  <2>2. \A u \in DOMAIN target : target[u] \in Nat /\ art[u].built \in Nat
    BY <1>2, TablesTyped
  <2>3. target' \in [DOMAIN target -> Nat] /\ DOMAIN target \in SUBSET Subjects
    BY <1>2, <2>1, <2>2, TablesTyped
  <2>4. QED
    BY <2>3, SizedMade
<1>o. /\ op' \in [Operators -> Command] /\ op'[o] = Idle /\ Idle.stage = "idle"
      /\ \A q \in Operators : q # o => op'[q] = op[q]
  BY <1>1, <1>y DEF Command, Idle
<1>7. ReleaseTyped'
  BY <1>1, <1>2, <1>5, <1>6, <1>o DEF ReleaseTyped
<1>8. ~Building' /\ ~Promoted' /\ ~Promoted /\ Manifest' = Manifest
  BY <1>4, <1>5, <1>z DEF Building, Promoted, Manifest
<1>9. pointer = 0
  BY <1>2, <1>8 DEF PrepsSound
<1>10. PrepsSound'
  BY <1>1, <1>2, <1>5, <1>6, <1>8, <1>9 DEF PrepsSound, Reaches, Accounts
<1>11. SealedWhenActive' /\ OpsApart'
  BY <1>1, <1>2, <1>9, <1>o DEF SealedWhenActive, OpsApart, Collecting, Taking
<1>12. ASSUME NEW q \in Operators
       PROVE  OpSound(q)'
  <2>1. CASE q = o
    BY <1>o, <2>1 DEF OpSound, Collecting, Taking, Audits
  <2>2. CASE q # o
    <3>1. OpSound(q) /\ op'[q] = op[q] /\ ~Taking(q) /\ ~Collecting(q)
      BY <1>1, <1>o, <1>z, <2>2 DEF ReleaseInv, TableFree, Collecting
    <3>2. Grows
      BY <1>1, <1>2, AccountsTyped DEF Grows, Accounts
    <3>3. preps'[Current].version = preps[Current].version + 1
      BY <1>4, <1>5
    <3>4. QED
      BY <1>2, <1>5, <1>7, <3>1, <3>2, <3>3, OpOvertaken
  <2>3. QED
    BY <2>1, <2>2
<1>13. \A w \in InFlight : txn[w].kind # "artifact"
  BY <1>z DEF NoneShared
<1>14. QED
  BY <1>1, <1>7, <1>8, <1>10, <1>11, <1>12, <1>13, NewPreparation

LEMMA PublishKeeps ==
    ASSUME ReleaseInv, NEW o \in Operators, Publish(o)
    PROVE  ReleaseInv'
<1> DEFINE p == preps[Current]
<1>x. PICK y : y = [p EXCEPT !.state = "active"]
  OBVIOUS
<1> DEFINE x == [y EXCEPT !.version = p.version + 1]
<1>1. /\ plan' = plan /\ data' = data /\ txn' = txn /\ pointer' = Current /\ clock' = clock
      /\ art' = art /\ op' = [op EXCEPT ![o] = Idle] /\ TableFree /\ op[o].stage = "fenced"
      /\ preps' = [preps EXCEPT ![Current] = x]
      /\ target' = [u \in DOMAIN target |-> art[u].built]
  BY <1>x DEF Publish, live, Becomes
<1>2. /\ ReleaseTyped /\ PrepsSound /\ OpsApart /\ OpSound(o) /\ op \in [Operators -> Command]
      /\ DOMAIN art = DOMAIN clock /\ DOMAIN target = DOMAIN clock /\ Taking(o)
  BY <1>1 DEF ReleaseInv, ReleaseTyped, PrepsSound, Taking
<1>3. /\ Unchanged(o) /\ NoneShared /\ NoneCounted /\ Compared(o) /\ AuditSound(o) /\ Building
      /\ \A q \in Operators : q # o => ~Taking(q)
  BY <1>1, <1>2 DEF OpSound, Audits, Unchanged, OpsApart
<1>4. Current > 0 /\ Current \in Nat /\ p \in Prep /\ p.version \in Nat
  BY <1>2, <1>3, PrepsTyped DEF Building
<1>5. x \in Prep /\ x.state = "active" /\ x.version = p.version + 1 /\ x.manifest = p.manifest
  <2>1. y \in Prep /\ y.state = "active" /\ y.manifest = p.manifest
    BY <1>4, <1>x DEF Prep
  <2>2. p.version + 1 \in Nat
    BY <1>4
  <2>3. QED
    BY <2>1, <2>2 DEF Prep
<1> HIDE DEF x
<1>6. /\ preps' \in Seq(Prep) /\ Current' = Current /\ preps'[Current] = x
      /\ \A i \in 1..Current : i < Current => preps'[i] = preps[i]
  BY <1>1, <1>2, <1>4, <1>5, PrepChanged
<1>7. target' \in Sized(Nat) /\ DOMAIN target' = DOMAIN target
  <2>1. \A u \in DOMAIN target : art[u].built \in Nat
    BY <1>2, TablesTyped
  <2>2. target' \in [DOMAIN target -> Nat] /\ DOMAIN target \in SUBSET Subjects
    BY <1>1, <1>2, <2>1, TablesTyped
  <2>3. QED
    BY <2>2, SizedMade
<1>8. /\ op' \in [Operators -> Command] /\ op'[o] = Idle /\ Idle.stage = "idle"
      /\ \A q \in Operators : q # o => op'[q] = op[q]
  BY <1>1, <1>2 DEF Command, Idle
<1>9. ReleaseTyped'
  BY <1>1, <1>2, <1>4, <1>6, <1>7, <1>8 DEF ReleaseTyped
<1>10. ~Building' /\ Promoted' /\ Manifest' = Manifest
  BY <1>4, <1>5, <1>6 DEF Building, Promoted, Manifest
<1>11. PrepsSound'
  BY <1>1, <1>2, <1>4, <1>6, <1>7, <1>10 DEF PrepsSound, Reaches, Accounts
<1>12. SealedWhenActive'
  <2> SUFFICES ASSUME NEW u \in DOMAIN Manifest
               PROVE  art[u].sealed >= Manifest[u].through
    BY <1>1, <1>6, <1>10 DEF SealedWhenActive, Manifest
  <2>1. u \in DOMAIN clock /\ u \in DOMAIN art /\ clock[u].through = Manifest[u].through
    BY <1>2, <1>4 DEF PrepsSound
  <2>2. art[u].built >= clock[u].through
    BY <1>3, <2>1 DEF AuditSound, Unchanged
  <2>3. art[u].sealed = art[u].built
    BY <1>3, <2>1 DEF Compared, AllSealed
  <2>4. QED
    BY <2>1, <2>2, <2>3
<1>13. OpsApart'
  BY <1>2, <1>8 DEF OpsApart, Collecting, Taking
<1>14. ASSUME NEW q \in Operators
       PROVE  OpSound(q)'
  <2>1. CASE q = o
    BY <1>8, <2>1 DEF OpSound, Collecting, Taking, Audits
  <2>2. CASE q # o
    <3>1. OpSound(q) /\ op'[q] = op[q] /\ ~Taking(q) /\ ~Collecting(q)
      BY <1>1, <1>3, <1>8, <2>2 DEF ReleaseInv, TableFree, Collecting
    <3>2. Grows
      BY <1>1, <1>2, AccountsTyped DEF Grows, Accounts
    <3>3. preps'[Current].version = preps[Current].version + 1
      BY <1>5, <1>6
    <3>4. QED
      BY <1>2, <1>6, <1>9, <3>1, <3>2, <3>3, OpOvertaken
  <2>3. QED
    BY <2>1, <2>2
<1>15. \A w \in InFlight : txn[w].kind # "artifact"
  BY <1>3 DEF NoneShared
<1>16. QED
  BY <1>1, <1>9, <1>10, <1>11, <1>12, <1>13, <1>14, <1>15, NewPreparation

\* A command that goes on to the accounts of what it collected.
LEMMA PreparingIs ==
    ASSUME ReleaseInv, ReleaseTyped', NEW o \in Operators, NEW r \in Command, op'[o] = r,
           data' = data, op[o].stage \in {"collected", "catching"},
           r.stage = "preparing", r.manifest = op[o].manifest, r.todo = DOMAIN r.manifest
    PROVE  OpSound(o)'
<1>1. \A u \in DOMAIN op[o].manifest : Reaches(u, op[o].manifest[u].through)
  BY DEF ReleaseInv, OpSound
<1>2. \A u \in DOMAIN op'[o].manifest : Reaches(u, op[o].manifest[u].through)'
  BY <1>1 DEF Reaches, Accounts
<1>3. op'[o].stage = "preparing" /\ op'[o].todo \subseteq DOMAIN op'[o].manifest
  OBVIOUS
<1>4. QED
  BY <1>2, <1>3 DEF OpSound, Collecting, Taking, Audits

LEMMA StartCommitKeeps ==
    ASSUME ReleaseInv, NEW o \in Operators, StartCommit(o)
    PROVE  ReleaseInv'
<1> DEFINE manifest == op[o].manifest
           x == [state |-> "building", version |-> 0, manifest |-> manifest]
           r == [stage |-> "preparing", prep |-> Current + 1, manifest |-> manifest,
                 todo |-> DOMAIN manifest]
<1>1. /\ plan' = plan /\ data' = data /\ txn' = txn /\ pointer' = pointer
      /\ op[o].stage = "collected" /\ op[o].clear /\ AdvisoryFree /\ FenceFree
      /\ preps' = Append(preps, x) /\ op' = [op EXCEPT ![o] = r]
      /\ clock' = [u \in DOMAIN manifest |-> [through |-> manifest[u].through, rev |-> 0]]
      /\ art' = [u \in DOMAIN manifest |-> [built |-> 0, sealed |-> 0]]
      /\ target' = [u \in DOMAIN manifest |-> 0]
  BY DEF StartCommit, live, Prepares, Becomes
<1>2. /\ ReleaseTyped /\ PrepsSound /\ OpsApart /\ OpSound(o) /\ op \in [Operators -> Command]
      /\ Collecting(o) /\ preps \in Seq(Prep)
  BY <1>1 DEF ReleaseInv, ReleaseTyped, Collecting
<1>3. manifest \in Sized(Prefix) /\ Current \in Nat
  <2>1. op[o] \in [stage: {"collected"}, manifest: Sized(Prefix), clear: BOOLEAN]
    BY <1>1, <1>2, CommandTyped
  <2>2. QED
    BY <1>2, <2>1, PrepsTyped
<1>4. /\ DOMAIN manifest \in SUBSET Subjects
      /\ \A u \in DOMAIN manifest : /\ manifest[u] \in Prefix /\ manifest[u].through \in Nat
                                    /\ Reaches(u, manifest[u].through)
  <2>1. DOMAIN manifest \in SUBSET Subjects /\ \A u \in DOMAIN manifest : manifest[u] \in Prefix
    BY <1>3, SizedIs
  <2>2. QED
    BY <1>1, <1>2, <2>1 DEF OpSound, Prefix
<1> HIDE DEF manifest
<1>5. /\ AllAborted /\ pointer = 0
      /\ \A q \in Operators : ~Taking(q) /\ (q # o => ~Collecting(q))
  <2>1. AllAborted
    BY <1>1, <1>2 DEF OpSound
  <2>2. ~Promoted
    BY <1>3, <2>1 DEF Promoted, AllAborted
  <2>3. \A q \in Operators : ~Taking(q) /\ (q # o => ~Collecting(q))
    BY <1>1, <1>2 DEF AdvisoryFree, RowTaken, Taking, OpsApart
  <2>4. QED
    BY <1>2, <2>1, <2>2, <2>3 DEF PrepsSound
<1>6. x \in Prep /\ x.state = "building" /\ x.manifest = manifest
  BY <1>3 DEF Prep
<1> HIDE DEF x
<1>7. /\ preps' \in Seq(Prep) /\ Current' = Current + 1 /\ preps'[Current + 1] = x
      /\ \A i \in 1..Current : preps'[i] = preps[i]
  BY <1>1, <1>2, <1>3, <1>6 DEF Current
<1>8. /\ clock' \in Sized(ClockRow) /\ DOMAIN clock' = DOMAIN manifest
      /\ art' \in Sized([built: Nat, sealed: Nat]) /\ DOMAIN art' = DOMAIN manifest
      /\ target' \in Sized(Nat) /\ DOMAIN target' = DOMAIN manifest
  <2>1. \A u \in DOMAIN manifest : [through |-> manifest[u].through, rev |-> 0] \in ClockRow
    BY <1>4 DEF ClockRow
  <2>2. clock' \in [DOMAIN manifest -> ClockRow]
    BY <1>1, <2>1
  <2>3. art' \in [DOMAIN manifest -> [built: Nat, sealed: Nat]] /\ target' \in [DOMAIN manifest -> Nat]
    BY <1>1
  <2>4. QED
    BY <1>4, <2>2, <2>3, SizedMade
<1>9. \A u \in DOMAIN manifest : clock'[u].through = manifest[u].through
  BY <1>1
<1>10. r \in Command /\ r.stage = "preparing" /\ r.manifest = manifest /\ r.todo = DOMAIN manifest
  BY <1>3, <1>4 DEF Command
<1> HIDE DEF r
<1>11. op' \in [Operators -> Command] /\ op'[o] = r /\ \A q \in Operators : q # o => op'[q] = op[q]
  BY <1>1, <1>2, <1>10
<1>12. ReleaseTyped'
  BY <1>1, <1>2, <1>7, <1>8, <1>11 DEF ReleaseTyped
<1>13. ~Promoted' /\ Manifest' = manifest
  BY <1>6, <1>7 DEF Promoted, Manifest
<1>14. PrepsSound'
  <2>1. \A i \in 1..Current' : i < Current' => preps'[i].state = "aborted"
    <3>1. \A i \in 1..Current : preps'[i].state = "aborted"
      BY <1>5, <1>7 DEF AllAborted
    <3>2. \A i \in 1..Current' : i < Current' => i \in 1..Current
      BY <1>3, <1>7
    <3>3. QED
      BY <3>1, <3>2
  <2>2. \A u \in DOMAIN clock' : /\ clock'[u].through = Manifest'[u].through
                                 /\ Reaches(u, clock[u].through)'
    BY <1>1, <1>4, <1>8, <1>9, <1>13 DEF Reaches, Accounts
  <2>3. /\ DOMAIN art' = DOMAIN clock' /\ DOMAIN target' = DOMAIN clock'
        /\ DOMAIN clock' = DOMAIN Manifest' /\ Current' # 0
    BY <1>3, <1>7, <1>8, <1>13
  <2>4. pointer' = IF Promoted' THEN Current' ELSE 0
    BY <1>1, <1>5, <1>13
  <2>5. QED
    BY <2>1, <2>2, <2>3, <2>4 DEF PrepsSound
<1>15. SealedWhenActive' /\ OpsApart'
  BY <1>1, <1>2, <1>5, <1>10, <1>11 DEF SealedWhenActive, OpsApart, Collecting, Taking
<1>16. ASSUME NEW q \in Operators
       PROVE  OpSound(q)'
  <2>1. CASE q = o
    BY <1>1, <1>10, <1>11, <1>12, <2>1, PreparingIs DEF manifest
  <2>2. CASE q # o
    <3>1. OpSound(q) /\ op'[q] = op[q] /\ ~Taking(q) /\ ~Collecting(q)
      BY <1>5, <1>11, <2>2 DEF ReleaseInv
    <3>2. Grows
      BY <1>1, <1>2, AccountsTyped DEF Grows, Accounts
    <3>3. QED
      BY <1>2, <1>7, <1>12, <3>1, <3>2, OpOvertaken
  <2>3. QED
    BY <2>1, <2>2
<1>17. \A w \in InFlight : txn[w].kind # "artifact"
  <2>1. ~Building
    BY <1>3, <1>5 DEF Building, AllAborted
  <2>2. QED
    BY <2>1 DEF ReleaseInv, WriteSound
<1>18. QED
  BY <1>1, <1>12, <1>14, <1>15, <1>16, <1>17, NewPreparation

LEMMA CatchUpCommitKeeps ==
    ASSUME ReleaseInv, NEW o \in Operators, CatchUpCommit(o)
    PROVE  ReleaseInv'
<1> DEFINE manifest == op[o].manifest
           p == preps[Current]
<1>x. PICK y : y = [p EXCEPT !.manifest = manifest]
  OBVIOUS
<1> DEFINE x == [y EXCEPT !.version = p.version + 1]
           r == [stage |-> "preparing", prep |-> Current, manifest |-> manifest,
                 todo |-> DOMAIN manifest]
           a(u) == IF u \in DOMAIN art THEN art[u] ELSE [built |-> 0, sealed |-> 0]
           t(u) == IF u \in DOMAIN target THEN target[u] ELSE 0
<1>1. /\ plan' = plan /\ data' = data /\ txn' = txn /\ pointer' = pointer
      /\ op[o].stage = "catching" /\ RowFree /\ TableFree /\ FenceFree /\ Building
      /\ preps' = [preps EXCEPT ![Current] = x] /\ op' = [op EXCEPT ![o] = r]
      /\ clock' = [u \in DOMAIN manifest |-> Enrolled(u, manifest[u].through)]
      /\ art' = [u \in DOMAIN manifest |-> a(u)]
      /\ target' = [u \in DOMAIN manifest |-> t(u)]
  BY <1>x DEF CatchUpCommit, live, Prepares, Becomes
<1>2. /\ ReleaseTyped /\ PrepsSound /\ OpsApart /\ OpSound(o) /\ op \in [Operators -> Command]
      /\ preps \in Seq(Prep) /\ Current > 0
  BY <1>1 DEF ReleaseInv, ReleaseTyped, Building
<1>3. manifest \in Sized(Prefix) /\ Current \in Nat /\ p \in Prep /\ p.version \in Nat
  <2>1. op[o] \in [stage: {"catching"}, prep: Nat, original: Sized(Prefix), manifest: Sized(Prefix)]
    BY <1>1, <1>2, CommandTyped
  <2>2. QED
    BY <1>2, <2>1, PrepsTyped
<1>4. /\ DOMAIN manifest \in SUBSET Subjects
      /\ \A u \in DOMAIN manifest : /\ manifest[u] \in Prefix /\ manifest[u].through \in Nat
                                    /\ Reaches(u, manifest[u].through)
  <2>1. DOMAIN manifest \in SUBSET Subjects /\ \A u \in DOMAIN manifest : manifest[u] \in Prefix
    BY <1>3, SizedIs
  <2>2. QED
    BY <1>1, <1>2, <2>1 DEF OpSound, Prefix
<1> HIDE DEF manifest
<1>5. /\ pointer = 0 /\ p.state = "building"
      /\ \A q \in Operators : ~Taking(q) /\ ~Collecting(q)
      /\ \A w \in InFlight : txn[w].kind # "artifact"
  <2>1. p.state = "building" /\ ~Promoted
    BY <1>1 DEF Building, Promoted
  <2>2. QED
    BY <1>1, <1>2, <2>1 DEF PrepsSound, RowFree, RowTaken, RowShared, Taking, TableFree, Collecting
<1>6. x \in Prep /\ x.state = "building" /\ x.manifest = manifest /\ x.version = p.version + 1
  <2>1. y \in Prep /\ y.state = "building" /\ y.manifest = manifest
    BY <1>3, <1>5, <1>x DEF Prep
  <2>2. p.version + 1 \in Nat
    BY <1>3
  <2>3. QED
    BY <2>1, <2>2 DEF Prep
<1> HIDE DEF x
<1>7. /\ preps' \in Seq(Prep) /\ Current' = Current /\ preps'[Current] = x
      /\ \A i \in 1..Current : i < Current => preps'[i] = preps[i]
  BY <1>1, <1>2, <1>6, PrepChanged
<1>8. /\ clock' \in Sized(ClockRow) /\ DOMAIN clock' = DOMAIN manifest
      /\ \A u \in DOMAIN manifest : clock'[u].through = manifest[u].through
  <2>1. ASSUME NEW u \in DOMAIN manifest
        PROVE  /\ Enrolled(u, manifest[u].through) \in ClockRow
               /\ Enrolled(u, manifest[u].through).through = manifest[u].through
    <3> DEFINE k == manifest[u].through
    <3>1. k \in Nat /\ (u \in DOMAIN clock => clock[u].rev \in Nat)
      BY <1>2, <1>4, TablesTyped
    <3> DEFINE revision == IF u \notin DOMAIN clock THEN 0
                    ELSE clock[u].rev + (IF clock[u].through = k THEN 0 ELSE 1)
    <3>2. revision \in Nat
      BY <3>1
    <3>3. Enrolled(u, k) = [through |-> k, rev |-> revision]
      BY DEF Enrolled
    <3> HIDE DEF revision, k
    <3>4. Enrolled(u, k) \in ClockRow /\ Enrolled(u, k).through = k
      BY <3>1, <3>2, <3>3 DEF ClockRow
    <3>5. QED
      BY <3>4 DEF k
  <2>2. clock' \in [DOMAIN manifest -> ClockRow]
    BY <1>1, <2>1
  <2>3. QED
    BY <1>1, <1>4, <2>1, <2>2, SizedMade
<1>9. /\ art' \in Sized([built: Nat, sealed: Nat]) /\ DOMAIN art' = DOMAIN manifest
      /\ target' \in Sized(Nat) /\ DOMAIN target' = DOMAIN manifest
  <2>1. \A u : a(u) \in [built: Nat, sealed: Nat]
    BY <1>2, TablesTyped
  <2>2. \A u : t(u) \in Nat
    BY <1>2, TablesTyped
  <2> HIDE DEF a, t
  <2>3. art' \in [DOMAIN manifest -> [built: Nat, sealed: Nat]] /\ target' \in [DOMAIN manifest -> Nat]
    BY <1>1, <2>1, <2>2
  <2>4. QED
    BY <1>4, <2>3, SizedMade
<1>10. r \in Command /\ r.stage = "preparing" /\ r.manifest = manifest /\ r.todo = DOMAIN manifest
  BY <1>3, <1>4 DEF Command
<1> HIDE DEF r
<1>11. op' \in [Operators -> Command] /\ op'[o] = r /\ \A q \in Operators : q # o => op'[q] = op[q]
  BY <1>1, <1>2, <1>10
<1>12. ReleaseTyped'
  BY <1>1, <1>2, <1>7, <1>8, <1>9, <1>11 DEF ReleaseTyped
<1>13. ~Promoted' /\ Manifest' = manifest
  BY <1>6, <1>7 DEF Promoted, Manifest
<1>14. PrepsSound'
  <2>1. \A i \in 1..Current' : i < Current' => preps'[i].state = "aborted"
    BY <1>2, <1>7 DEF PrepsSound
  <2>2. \A u \in DOMAIN clock' : /\ clock'[u].through = Manifest'[u].through
                                 /\ Reaches(u, clock[u].through)'
    BY <1>1, <1>4, <1>8, <1>13 DEF Reaches, Accounts
  <2>3. QED
    BY <1>1, <1>2, <1>5, <1>7, <1>8, <1>9, <1>13, <2>1, <2>2 DEF PrepsSound
<1>15. SealedWhenActive' /\ OpsApart'
  BY <1>1, <1>2, <1>5, <1>10, <1>11 DEF SealedWhenActive, OpsApart, Collecting, Taking
<1>16. ASSUME NEW q \in Operators
       PROVE  OpSound(q)'
  <2>1. CASE q = o
    BY <1>1, <1>10, <1>11, <1>12, <2>1, PreparingIs DEF manifest
  <2>2. CASE q # o
    <3>1. OpSound(q) /\ op'[q] = op[q] /\ ~Taking(q) /\ ~Collecting(q)
      BY <1>5, <1>11, <2>2 DEF ReleaseInv
    <3>2. Grows
      BY <1>1, <1>2, AccountsTyped DEF Grows, Accounts
    <3>3. preps'[Current].version = preps[Current].version + 1
      BY <1>6, <1>7
    <3>4. QED
      BY <1>2, <1>7, <1>12, <3>1, <3>2, <3>3, OpOvertaken
  <2>3. QED
    BY <2>1, <2>2
<1>17. QED
  BY <1>1, <1>5, <1>12, <1>14, <1>15, <1>16, NewPreparation

-----------------------------------------------------------------------------
(* Releases: the theorems.                                                  *)

LEMMA ReleaseStep ==
    ASSUME ReleaseInv, [ReleaseNext]_releaseVars
    PROVE  ReleaseInv'
<1>1. CASE UNCHANGED releaseVars
  BY <1>1 DEF releaseVars, ReleaseInv, ReleaseTyped, PrepsSound, WritesApart, WriteSound, OpsApart,
      OpSound, SealedWhenActive, AuditSound, Same, Seen, Record, Collecting, Taking, AllAborted,
      NoneShared, NoneCounted, Compared, AllSealed, NewAreEmpty, Unchanged, Building, Current,
      Manifest, Promoted, Reaches, Accounts, InFlight, Counts
<1>2. ASSUME NEW w \in Txs,
             BeginWrite(w) \/ Trigger(w) \/ Share(w) \/ Commit(w) \/ Rollback(w)
      PROVE  ReleaseInv'
  BY <1>2, BeginIs, BegunKeeps, TriggerIs, ShareIs, MovesKeeps, CommitKeeps, RollbackIs, DropsKeeps
<1>3. ASSUME NEW w \in Builders, NEW u \in Subjects, BeginArtifact(w, u)
      PROVE  ReleaseInv'
  BY <1>3, ArtifactIs, BegunKeeps
<1>4. ASSUME NEW u \in Subjects, JobDies(u)
      PROVE  ReleaseInv'
  BY <1>4, JobDiesKeeps
<1>5. ASSUME NEW o \in Operators,
             \/ StartCollect(o) \/ StartCommit(o) \/ StartRefused(o) \/ PrepareEnds(o)
             \/ CatchUpCollect(o) \/ CatchUpCommit(o) \/ LockForAbort(o) \/ Abort(o)
      PROVE  ReleaseInv'
  BY <1>5, StartCollectKeeps, StartCommitKeeps, FailsKeeps, CatchUpCollectKeeps, CatchUpCommitKeeps,
     LockForAbortKeeps, AbortKeeps
<1>6. ASSUME NEW o \in Operators,
             \/ Seal(o) \/ Audit(o) \/ LockRow(o) \/ Compare(o) \/ Publish(o) \/ RefreshSeal(o)
             \/ Fails(o) \/ TimesOut(o)
      PROVE  ReleaseInv'
  BY <1>6, SealKeeps, AuditKeeps, LockRowKeeps, CompareKeeps, PublishKeeps, RefreshSealKeeps,
     FailsKeeps
<1>7. ASSUME NEW o \in Operators, NEW u \in Subjects, PrepareUser(o, u) \/ RefreshOne(o, u)
      PROVE  ReleaseInv'
  BY <1>7, PrepareUserKeeps, RefreshOneKeeps
<1>8. QED
  BY <1>1, <1>2, <1>3, <1>4, <1>5, <1>6, <1>7 DEF ReleaseNext

LEMMA ReleaseAlways == ReleaseSpec => []ReleaseInv
  BY ReleaseBegins, ReleaseStep, PTL DEF ReleaseSpec

\* At most one preparation is building or active, the pointer names the active
\* one, and every row a reader of the promoted release needs is sealed
\* (context_retention_cutover.py): a promotion publishes rows nobody can change
\* or add to any more.
THEOREM ReleaseIsSealed == ReleaseSpec => []OneSealedRelease
<1>1. ReleaseInv => OneSealedRelease
  <2> SUFFICES ASSUME ReleaseInv
               PROVE  OneSealedRelease
    OBVIOUS
  <2>1. /\ Current \in Nat /\ PrepsSound /\ SealedWhenActive
    BY PrepsTyped DEF ReleaseInv
  <2>2. ASSUME NEW i \in 1..Current, NEW j \in 1..Current, i # j
        PROVE  "aborted" \in {preps[i].state, preps[j].state}
    <3>1. i < Current \/ j < Current
      BY <2>1, <2>2
    <3>2. QED
      BY <2>1, <3>1 DEF PrepsSound
  <2>3. ASSUME NEW i \in 1..Current
        PROVE  preps[i].state = "active" <=> pointer = i
    <3>1. i < Current => preps[i].state # "active" /\ pointer # i
      BY <2>1 DEF PrepsSound
    <3>2. i = Current => (preps[i].state = "active" <=> pointer = i)
      BY <2>1 DEF PrepsSound, Promoted
    <3>3. QED
      BY <2>1, <3>1, <3>2
  <2>4. QED
    BY <2>1, <2>2, <2>3 DEF OneSealedRelease, OneRelease
<1>2. QED
  BY <1>1, ReleaseAlways, PTL

\* What is promoted is what was audited (context_retention_cutover.py): between
\* the comparison of the clocks and the publication nothing an account holds
\* changes, and what the audit read of it is what is published, although the
\* audit held no lock and its rows were changed and sealed meanwhile.
THEOREM AuditedIsPromoted == ReleaseSpec => PromotedAsAudited
<1> DEFINE A(o) ==
        op[o].stage = "fenced" =>
           /\ data' = data /\ art' = art
           /\ pointer' # pointer => \A u \in Accounts :
                  IF u \in DOMAIN op[o].seen THEN Seen(u) = op[o].seen[u]
                  ELSE data[u].messages = << >>
<1>1. ASSUME ReleaseInv, [ReleaseNext]_releaseVars, NEW o \in Operators
      PROVE  A(o)
  <2> SUFFICES ASSUME op[o].stage = "fenced"
               PROVE  /\ data' = data /\ art' = art
                      /\ pointer' # pointer => \A u \in Accounts :
                             IF u \in DOMAIN op[o].seen THEN Seen(u) = op[o].seen[u]
                             ELSE data[u].messages = << >>
    OBVIOUS
  <2>1. Taking(o) /\ RowTaken /\ ~AdvisoryFree /\ ~RowFree
    BY DEF Taking, RowTaken, AdvisoryFree, RowFree
  <2>2. ASSUME NEW w \in Txs, Commit(w)
        PROVE  data' = data /\ art' = art /\ pointer' = pointer
    <3>1. w \in InFlight
      BY <2>2, OpenIs DEF Commit, Opens
    <3>2. QED
      BY <1>1, <2>2, <3>1, CommitFenced DEF Commit
  <2>3. ASSUME NEW q \in Operators, Publish(q)
        PROVE  /\ data' = data /\ art' = art
               /\ \A u \in Accounts : IF u \in DOMAIN op[o].seen THEN Seen(u) = op[o].seen[u]
                                      ELSE data[u].messages = << >>
    <3>1. data' = data /\ art' = art
      BY <2>3 DEF Publish, live
    <3>2. OpSound(o)
      BY <1>1 DEF ReleaseInv
    <3>3. Unchanged(o) /\ Compared(o) /\ AuditSound(o)
      BY <2>1, <3>2 DEF OpSound, Audits
    <3>4. DOMAIN op[o].seen = DOMAIN clock /\ \A u \in DOMAIN clock : Same(o, u)
      BY <3>3 DEF AuditSound, Unchanged
    <3>5. \A u \in DOMAIN clock : Seen(u) = op[o].seen[u]
      BY <3>3, <3>4 DEF Compared, Same
    <3>6. \A u \in Accounts \ DOMAIN clock : data[u].messages = << >>
      BY <3>3 DEF Compared, NewAreEmpty
    <3>7. QED
      BY <3>1, <3>4, <3>5, <3>6
  <2>4. ASSUME NEW w \in Txs, BeginWrite(w) \/ Trigger(w) \/ Share(w) \/ Rollback(w)
        PROVE  data' = data /\ art' = art /\ pointer' = pointer
    BY <2>4 DEF BeginWrite, Trigger, Share, Rollback, made
  <2>5. ASSUME NEW w \in Builders, NEW u \in Subjects, BeginArtifact(w, u)
        PROVE  data' = data /\ art' = art /\ pointer' = pointer
    BY <2>5 DEF BeginArtifact, made
  <2>6. ASSUME NEW q \in Operators,
               \/ StartCollect(q) \/ StartRefused(q) \/ PrepareEnds(q) \/ CatchUpCollect(q)
               \/ LockForAbort(q) \/ Audit(q) \/ LockRow(q) \/ Compare(q)
               \/ Fails(q) \/ TimesOut(q) \/ \E u \in Subjects : RefreshOne(q, u)
        PROVE  data' = data /\ art' = art /\ pointer' = pointer
    BY <2>6 DEF StartCollect, StartRefused, PrepareEnds, CatchUpCollect, LockForAbort, Audit,
                LockRow, Compare, Fails, TimesOut, RefreshOne, live, made
  <2>7. ASSUME NEW q \in Operators
        PROVE  /\ ~StartCommit(q) /\ ~CatchUpCommit(q) /\ ~Seal(q) /\ ~RefreshSeal(q)
               /\ \A u \in Subjects : ~PrepareUser(q, u)
    BY <2>1 DEF StartCommit, CatchUpCommit, Seal, RefreshSeal, PrepareUser
  <2>x. ASSUME NEW q \in Operators, Abort(q)
        PROVE  FALSE
    <3>1. Taking(q) /\ q # o
      BY <2>x DEF Abort, Taking
    <3>2. QED
      BY <1>1, <2>1, <3>1 DEF ReleaseInv, OpsApart
  <2>8. ASSUME NEW u \in Subjects, JobDies(u)
        PROVE  data' = data /\ art' = art /\ pointer' = pointer
    BY <2>8 DEF JobDies, live
  <2>9. CASE UNCHANGED releaseVars
    BY <2>9 DEF releaseVars
  <2>10. QED
    BY <1>1, <2>2, <2>3, <2>4, <2>5, <2>6, <2>7, <2>8, <2>9, <2>x DEF ReleaseNext
<1>2. ReleaseInv /\ [ReleaseNext]_releaseVars => \A o \in Operators : A(o)
  BY <1>1
<1>3. QED
  BY <1>2, ReleaseAlways, PTL DEF ReleaseSpec, PromotedAsAudited
=============================================================================
