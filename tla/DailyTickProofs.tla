-------------------------- MODULE DailyTickProofs --------------------------
(***************************************************************************)
(* Proofs about DailyTick, for any ticks, days, texts and courses.  IInv   *)
(* is the inductive invariant: who holds the claim of a day and how old it *)
(* is (ClaimsHeld), what the lock's holder is about to publish             *)
(* (LockedChoice), what an unsettled night may still hope for (NightGoesOn)*)
(* and what the slot of a push stands for (SlotsTaken).                    *)
(***************************************************************************)
EXTENDS DailyTick, FiniteSetTheorems, TLAPS

PushStages == {"preparing", "booking", "sending", "recording"}

\* From a claim to its deletion.
Holding == Generating \union {"releasing", "stalled"}

Stages == {"idle", "claiming"} \union Holding \union PushStages

Choices == {None, Personal} \union (Ments \X Nat)

Fields ==
    /\ plan \in Plans
    /\ day \in 1..plan.days /\ clock \in Slots
    /\ stage \in [Ticks -> Stages]
    /\ date \in [Ticks -> Days \union {None}]
    /\ \A t \in Ticks : stage[t] # "idle" => date[t] \in Days
    /\ cand \in [Ticks -> Choices]
    /\ claim \in [Days -> {None} \union 0..3]
    /\ active \subseteq Ments /\ edition \in [Ments -> Nat]
    /\ diary \in [Days -> Choices] /\ result \in [Days -> Choices \union {NoEntry}]
    /\ tries \in [Ticks -> Nat]
    /\ served \subseteq Days /\ excused \subseteq Days

PushFields ==
    /\ kind \in [Ticks -> Kinds \union {None}]
    /\ \A t \in Ticks : stage[t] \in PushStages <=> kind[t] # None
    /\ sent \in [Days \X Kinds -> 0..1]
    /\ shown \subseteq Days

TypeInv == Fields /\ PushFields

\* A claim belongs to one tick, which the age tells as long as it is at work.
ClaimsHeld ==
    /\ \A t \in Ticks :
          /\ stage[t] \in Holding \ {"stalled"} => claim[date[t]] = 0
          /\ stage[t] = "stalled" => claim[date[t]] \in {0, 1}
    /\ \A t, u \in Ticks :
          t # u /\ stage[t] \in Holding /\ stage[u] \in Holding => date[t] # date[u]

\* Behind the lock nobody settled the day, and a text of the week is the one read
\* there.
LockedChoice ==
    \A t \in Ticks :
        stage[t] = "committing" =>
            /\ lock = t
            /\ ~Settled(date[t])
            /\ plan.mode = "weekly" /\ cand[t] \notin {None, Personal} =>
                  \E m \in active \ Given : cand[t] = Text(m)

Open(d) == ~Settled(d) /\ d \notin excused

Held(d) == \E t \in Ticks : date[t] = d /\ stage[t] \in Holding

\* A day that is over is settled or excused.  Before, in the night of an open
\* day: a claim nobody holds will have expired by 05:45; then whoever came is
\* still about to write; and nobody deletes a claim for nothing.
NightGoesOn ==
    /\ NightServed
    /\ \A d \in served : Open(d) => d = day /\ clock = 7
    /\ Open(day) =>
          /\ clock \in Night /\ claim[day] # None /\ ~Held(day) => claim[day] >= clock - 4
          /\ clock = 7 /\ day \in served =>
                \E t \in Ticks : date[t] = day /\ stage[t] \in Generating \union {"claiming"}
          /\ clock = 7 => \A t \in Ticks : date[t] = day => stage[t] \notin {"releasing", "stalled"}

\* A request goes out only for a slot just taken, which is one tick's; an
\* evening's words are stored after FCM accepted them.
SlotsTaken ==
    /\ \A x \in Days \X Kinds : x \notin notified => sent[x] = 0
    /\ \A t \in Ticks :
          /\ stage[t] = "sending" => Slot(t) \in notified /\ sent[Slot(t)] = 0
          /\ stage[t] = "recording" => kind[t] = "evening" /\ Slot(t) \in accepted
    /\ \A t, u \in Ticks :
          t # u /\ stage[t] = "sending" /\ stage[u] = "sending" => Slot(t) # Slot(u)
    /\ \A d \in Days :
          d \in shown \/ <<d, "evening">> \in greeted => <<d, "evening">> \in accepted

IInv == TypeInv /\ ClaimsHeld /\ LockedChoice /\ NightGoesOn /\ SlotsTaken

-----------------------------------------------------------------------------
(* The first text of a choice.                                             *)

\* Some number of a non-empty set of prepared texts is the least: the ones below
\* it would be fewer than those below any other.
LEMMA LeastExists ==
    ASSUME NEW S \in SUBSET Ments, S # {}
    PROVE  \E m \in S : \A n \in S : m <= n
<1> DEFINE Below(x) == {y \in S : y < x}
           T == {Below(x) : x \in S}
<1>1. IsFiniteSet(S)
  <2>1. IsFiniteSet(1..MaxMent)
    BY DiaryAssumption, FS_Interval
  <2>2. QED
    BY <2>1, FS_Subset DEF Ments
<1>2. IsWellFoundedOn(StrictSubsetOrdering(S), FiniteSubsetsOf(S))
  BY <1>1, FS_StrictSubsetOrderingWellFounded
<1>3. T \subseteq FiniteSubsetsOf(S) /\ T # {}
  <2>1. ASSUME NEW x \in S PROVE Below(x) \in FiniteSubsetsOf(S)
    BY <1>1, FS_Subset DEF FiniteSubsetsOf
  <2> HIDE DEF Below
  <2>2. QED
    BY <2>1
<1>4. \E u \in T : \A v \in T : ~(<<v, u>> \in StrictSubsetOrdering(S))
  <2> HIDE DEF T
  <2>1. QED
    BY <1>2, <1>3, WFMin
<1>5. PICK x \in S : \A v \in T : ~(<<v, Below(x)>> \in StrictSubsetOrdering(S))
  BY <1>4
<1>6. S \subseteq Nat
  BY DiaryAssumption DEF Ments
<1>7. ASSUME NEW y \in S, y < x PROVE FALSE
  <2>1. Below(y) \subseteq Below(x)
    <3>1. \A z \in S : z < y => z < x
      BY <1>6, <1>7
    <3>2. QED
      BY <3>1
  <2>2. y \in Below(x) /\ y \notin Below(y)
    BY <1>6, <1>7
  <2>3. <<Below(y), Below(x)>> \in StrictSubsetOrdering(S)
    BY <2>1, <2>2 DEF StrictSubsetOrdering
  <2>4. QED
    BY <1>5, <2>3
<1>8. QED
  BY <1>6, <1>7

\* What a tick prepares is an active text; one of the week was not given before.
LEMMA CandidateIsOpen ==
    ASSUME Fields, NEW d, Candidate(d) # None
    PROVE  /\ Candidate(d) \in Ments \X Nat
           /\ plan.mode = "weekly" =>
                 \E m \in active \ Given : Candidate(d) = Text(m)
<1> DEFINE open == IF plan.mode = "weekly" THEN active \ Given ELSE active \intersect {d}
           first == CHOOSE m \in open : \A n \in open : m <= n
<1>1. open \in SUBSET Ments /\ open # {}
  BY DEF Fields, Candidate
<1>2. \E m \in open : \A n \in open : m <= n
  <2> HIDE DEF open
  <2>1. QED
    BY <1>1, LeastExists
<1>3. first \in open
  BY <1>2
<1>4. Candidate(d) = Text(first)
  BY <1>1 DEF Candidate
<1>5. Text(first) \in Ments \X Nat
  <2> HIDE DEF first
  <2>1. first \in Ments
    BY <1>1, <1>3
  <2>2. QED
    BY <2>1 DEF Text, Fields
<1>6. QED
  BY <1>3, <1>4, <1>5

-----------------------------------------------------------------------------
(* Types.                                                                  *)

LEMMA InitFields == Init => TypeInv
<1> SUFFICES ASSUME Init PROVE TypeInv
  OBVIOUS
<1> USE DEF Init, DiaryInit
<1>1. plan.clock \in Slots /\ day \in 1..plan.days /\ 1 \in Days
  BY DiaryAssumption DEF Days, Slots
<1>2. Fields
  BY <1>1, NoneApart DEF Fields, Stages, Choices, Slots
<1>3. PushFields
  BY NoneApart DEF PushFields, PushStages
<1>4. QED
  BY <1>2, <1>3 DEF TypeInv

LEMMA FieldsKept ==
    ASSUME Fields, NEW t \in Ticks, DiaryStep(t)
    PROVE  Fields'
<1> USE DEF Fields, Goes, Leaves, texts, days, time, told, Generating, Stages, Holding
<1>1. CASE StartDiary(t)
  BY <1>1, DiaryAssumption DEF StartDiary, Days
<1>2. CASE Claim(t)
  BY <1>2, NoneApart DEF Claim, Choices
<1>3. CASE Check(t)
  BY <1>3 DEF Check
<1>4. CASE Write(t)
  BY <1>4 DEF Write, Choices
<1>5. CASE Pick(t)
  BY <1>5, CandidateIsOpen DEF Pick, Choices
<1>6. CASE Confirm(t)
  BY <1>6 DEF Confirm, Fails
<1>7. CASE Commit(t)
  BY <1>7 DEF Commit, Choices
<1>8. CASE Fail(t)
  BY <1>8 DEF Fail, Fails
<1>9. CASE Release(t)
  BY <1>9 DEF Release, Choices
<1>10. CASE KillDiary(t)
  BY <1>10 DEF KillDiary, Choices
<1>11. QED
  BY <1>1, <1>2, <1>3, <1>4, <1>5, <1>6, <1>7, <1>8, <1>9, <1>10 DEF DiaryStep

LEMMA FieldsOfEnvironment ==
    ASSUME Fields, EditText \/ NextSlot \/ Move
    PROVE  Fields'
<1> USE DEF Fields, texts, days, time, told, Stages, Holding, Generating
<1>1. CASE EditText
  BY <1>1 DEF EditText
<1>2. CASE NextSlot
  <2>1. plan.days \in Nat /\ 1..plan.days \subseteq Days
    BY DiaryAssumption DEF Days
  <2>2. day' \in 1..plan.days /\ clock' \in Slots
    BY <1>2, <2>1 DEF NextSlot, Slots
  <2>3. claim' \in [Days -> {None} \union 0..3]
    BY <1>2, NoneApart DEF NextSlot
  <2>4. QED
    BY <1>2, <2>1, <2>2, <2>3 DEF NextSlot
<1>3. CASE Move
  BY <1>3, DiaryAssumption DEF Move, Days
<1>4. QED
  BY <1>1, <1>2, <1>3

LEMMA FieldsOfPushes ==
    ASSUME Fields, NEW t \in Ticks, PushStep(t)
    PROVE  Fields'
<1>1. /\ UNCHANGED <<texts, days, time, claim, lock, told>>
      /\ plan.days \in Nat /\ 1..plan.days \subseteq Days
  BY DiaryAssumption
     DEF Fields, Days, PushStep, StartPush, Prepare, Book, Send, Record, KillPush
<1> USE DEF Fields, Goes, Leaves, Idles, texts, days, time, told, kept, Stages, PushStages, Choices
<1>2. CASE StartPush(t)
  BY <1>1, <1>2 DEF StartPush
<1>3. CASE Prepare(t)
  BY <1>1, <1>3 DEF Prepare
<1>4. CASE Book(t)
  BY <1>1, <1>4 DEF Book
<1>5. CASE Send(t)
  BY <1>1, <1>5 DEF Send
<1>6. CASE Record(t)
  BY <1>1, <1>6 DEF Record
<1>7. CASE KillPush(t)
  BY <1>1, <1>7 DEF KillPush
<1>8. QED
  BY <1>2, <1>3, <1>4, <1>5, <1>6, <1>7 DEF PushStep

\* A step of the diary is one tick's, and leaves pushes and texts alone.
LEMMA DiaryMoves ==
    ASSUME Fields, NEW t \in Ticks, DiaryStep(t)
    PROVE  /\ stage[t] \notin PushStages /\ stage'[t] \notin PushStages
           /\ \A u \in Ticks \ {t} :
                 stage'[u] = stage[u] /\ date'[u] = date[u] /\ cand'[u] = cand[u]
           /\ stage[t] # "idle" /\ stage'[t] # "idle" => date'[t] = date[t]
           /\ UNCHANGED <<texts, time>>
<1> USE DEF Fields, Goes, Leaves, texts, days, time, told, Generating, Holding, PushStages
<1>1. CASE StartDiary(t)
  BY <1>1 DEF StartDiary
<1>2. CASE Claim(t)
  BY <1>2 DEF Claim
<1>3. CASE Check(t)
  BY <1>3 DEF Check
<1>4. CASE Write(t)
  BY <1>4 DEF Write
<1>5. CASE Pick(t)
  BY <1>5 DEF Pick
<1>6. CASE Confirm(t)
  BY <1>6 DEF Confirm, Fails
<1>7. CASE Commit(t)
  BY <1>7 DEF Commit
<1>8. CASE Fail(t)
  BY <1>8 DEF Fail, Fails
<1>9. CASE Release(t)
  BY <1>9 DEF Release
<1>10. CASE KillDiary(t)
  BY <1>10 DEF KillDiary
<1>11. QED
  BY <1>1, <1>2, <1>3, <1>4, <1>5, <1>6, <1>7, <1>8, <1>9, <1>10 DEF DiaryStep

\* A step of a push is one tick's, and leaves the diary alone.
LEMMA PushMoves ==
    ASSUME TypeInv, NEW t \in Ticks, PushStep(t)
    PROVE  /\ stage[t] \in PushStages \union {"idle"}
           /\ stage'[t] \in PushStages \union {"idle"}
           /\ \A u \in Ticks \ {t} :
                 /\ stage'[u] = stage[u] /\ date'[u] = date[u]
                 /\ kind'[u] = kind[u] /\ cand'[u] = cand[u]
           /\ UNCHANGED <<texts, days, time, claim, lock, told>>
<1> USE DEF TypeInv, Fields, PushFields, Goes, Leaves, Idles, kept, PushStages, push, chat
<1>1. CASE StartPush(t)
  BY <1>1 DEF StartPush
<1>2. CASE Prepare(t)
  BY <1>2 DEF Prepare
<1>3. CASE Book(t)
  BY <1>3 DEF Book
<1>4. CASE Send(t)
  BY <1>4 DEF Send
<1>5. CASE Record(t)
  BY <1>5 DEF Record
<1>6. CASE KillPush(t)
  BY <1>6 DEF KillPush
<1>7. QED
  BY <1>1, <1>2, <1>3, <1>4, <1>5, <1>6 DEF PushStep

\* sent has its type by SlotsTaken: what is sent was not sent before.
LEMMA PushFieldsKept ==
    ASSUME TypeInv, SlotsTaken, NEW t \in Ticks, PushStep(t)
    PROVE  PushFields'
<1>1. plan.kinds \subseteq Kinds
  BY DiaryAssumption DEF TypeInv, Fields, Kinds
<1> USE DEF TypeInv, Fields, PushFields, Goes, Leaves, Idles, kept, PushStages, push, chat
<1>2. CASE StartPush(t)
  BY <1>1, <1>2, NoneApart DEF StartPush, Kinds
<1>3. CASE Prepare(t)
  BY <1>3 DEF Prepare
<1>4. CASE Book(t)
  BY <1>4 DEF Book, WithoutVariant
<1>5. CASE Send(t)
  <2>1. Slot(t) \in Days \X Kinds /\ sent[Slot(t)] = 0
    BY <1>5 DEF Send, SlotsTaken, Slot
  <2>2. sent' \in [Days \X Kinds -> 0..1]
    BY <1>5, <2>1 DEF Send
  <2>3. QED
    BY <1>5, <2>2 DEF Send
<1>6. CASE Record(t)
  BY <1>6 DEF Record
<1>7. CASE KillPush(t)
  BY <1>7 DEF KillPush
<1>8. QED
  BY <1>2, <1>3, <1>4, <1>5, <1>6, <1>7 DEF PushStep

-----------------------------------------------------------------------------
(* Claims.                                                                 *)

LEMMA ClaimsOfDiary ==
    ASSUME Fields, ClaimsHeld, NEW t \in Ticks, DiaryStep(t)
    PROVE  ClaimsHeld'
<1> USE DEF Fields, ClaimsHeld, Goes, Leaves, texts, days, time, told, Generating, Holding
<1>1. CASE StartDiary(t)
  BY <1>1 DEF StartDiary
<1>2. CASE Claim(t)
  BY <1>2, NoneApart DEF Claim, Expires
<1>3. CASE Check(t)
  BY <1>3 DEF Check
<1>4. CASE Write(t)
  BY <1>4 DEF Write
<1>5. CASE Pick(t)
  BY <1>5 DEF Pick
<1>6. CASE Confirm(t)
  BY <1>6 DEF Confirm, Fails
<1>7. CASE Commit(t)
  BY <1>7 DEF Commit
<1>8. CASE Fail(t)
  BY <1>8 DEF Fail, Fails
<1>9. CASE Release(t)
  BY <1>9 DEF Release
<1>10. CASE KillDiary(t)
  BY <1>10 DEF KillDiary
<1>11. QED
  BY <1>1, <1>2, <1>3, <1>4, <1>5, <1>6, <1>7, <1>8, <1>9, <1>10 DEF DiaryStep

LEMMA ClaimsOfEnvironment ==
    ASSUME Fields, ClaimsHeld, EditText \/ NextSlot \/ Move
    PROVE  ClaimsHeld'
<1> USE DEF Fields, ClaimsHeld, texts, days, time, told, Generating, Holding
<1>1. CASE EditText
  BY <1>1 DEF EditText
<1>2. CASE NextSlot
  BY <1>2, NoneApart DEF NextSlot
<1>3. CASE Move
  BY <1>3 DEF Move
<1>4. QED
  BY <1>1, <1>2, <1>3

LEMMA ClaimsOfPushes ==
    ASSUME TypeInv, ClaimsHeld, NEW t \in Ticks, PushStep(t)
    PROVE  ClaimsHeld'
<1>1. \A u \in Ticks :
         stage'[u] \in Holding => stage[u] = stage'[u] /\ date[u] = date'[u] /\ u # t
  BY PushMoves DEF TypeInv, Fields, Holding, Generating, PushStages
<1>2. UNCHANGED claim
  BY PushMoves
<1>3. QED
  BY <1>1, <1>2 DEF ClaimsHeld, Holding

-----------------------------------------------------------------------------
(* The lock.                                                               *)

LEMMA ChoiceOfDiary ==
    ASSUME Fields, LockedChoice, NEW t \in Ticks, DiaryStep(t)
    PROVE  LockedChoice'
<1> USE DEF Fields, LockedChoice, Goes, Leaves, texts, days, time, told, Generating, Given, Settled, Text
<1>1. CASE StartDiary(t)
  BY <1>1 DEF StartDiary
<1>2. CASE Claim(t)
  BY <1>2 DEF Claim
<1>3. CASE Check(t)
  BY <1>3 DEF Check
<1>4. CASE Write(t)
  BY <1>4 DEF Write
<1>5. CASE Pick(t)
  BY <1>5 DEF Pick
<1>6. CASE Confirm(t)
  BY <1>6, NoneApart, CandidateIsOpen DEF Confirm, Fails
<1>7. CASE Commit(t)
  BY <1>7 DEF Commit
<1>8. CASE Fail(t)
  BY <1>8 DEF Fail, Fails
<1>9. CASE Release(t)
  BY <1>9 DEF Release
<1>10. CASE KillDiary(t)
  BY <1>10 DEF KillDiary
<1>11. QED
  BY <1>1, <1>2, <1>3, <1>4, <1>5, <1>6, <1>7, <1>8, <1>9, <1>10 DEF DiaryStep

LEMMA ChoiceOfEnvironment ==
    ASSUME Fields, LockedChoice, EditText \/ NextSlot \/ Move
    PROVE  LockedChoice'
<1> USE DEF Fields, LockedChoice, texts, days, time, told, Given, Settled, Text
<1>1. CASE EditText
  BY <1>1, NoneApart DEF EditText, Shared
<1>2. CASE NextSlot
  BY <1>2 DEF NextSlot
<1>3. CASE Move
  BY <1>3 DEF Move
<1>4. QED
  BY <1>1, <1>2, <1>3

LEMMA ChoiceOfPushes ==
    ASSUME TypeInv, LockedChoice, NEW t \in Ticks, PushStep(t)
    PROVE  LockedChoice'
<1>1. \A u \in Ticks :
         stage'[u] = "committing" =>
             /\ stage[u] = "committing" /\ u # t
             /\ date[u] = date'[u] /\ cand[u] = cand'[u]
  BY PushMoves DEF PushStages
<1>2. UNCHANGED <<texts, days, lock>>
  BY PushMoves
<1>3. QED
  BY <1>1, <1>2 DEF LockedChoice, texts, days, Settled, Given, Text

\* What is settled stays so: whoever commits holds the lock, behind which it saw
\* that nothing was, and a text of the week open for the user.
LEMMA Published ==
    ASSUME TypeInv, LockedChoice, NEW t \in Ticks, DiaryStep(t), NEW d \in Days
    PROVE  /\ Settled(d) => diary'[d] = diary[d] /\ result'[d] = result[d]
           /\ plan.mode = "weekly" /\ diary'[d] # diary[d] /\ diary'[d] # Personal =>
                 \E m \in active \ Given : diary'[d] = Text(m)
<1>1. CASE Commit(t)
  BY <1>1 DEF Commit, LockedChoice, TypeInv, Fields, Settled
<1>2. CASE ~Commit(t)
  <2>1. UNCHANGED days
    BY <1>2 DEF DiaryStep, StartDiary, Claim, Check, Write, Pick, Confirm, Fail, Release, KillDiary
  <2>2. QED
    BY <2>1 DEF days
<1>3. QED
  BY <1>1, <1>2

-----------------------------------------------------------------------------
(* Slots.                                                                  *)

LEMMA SlotsOfDiary ==
    ASSUME TypeInv, SlotsTaken, NEW t \in Ticks, DiaryStep(t), UNCHANGED <<kind, push, chat>>
    PROVE  SlotsTaken'
<1>1. \A u \in Ticks :
         stage'[u] \in PushStages => stage[u] = stage'[u] /\ date[u] = date'[u]
  BY DiaryMoves DEF TypeInv
<1>2. QED
  BY <1>1 DEF SlotsTaken, Slot, PushStages, push, chat

LEMMA SlotsOfEnvironment ==
    ASSUME TypeInv, SlotsTaken, EditText \/ NextSlot \/ Move, UNCHANGED <<kind, push, chat>>
    PROVE  SlotsTaken'
<1>1. \A u \in Ticks :
         stage'[u] \in PushStages => stage[u] = stage'[u] /\ date[u] = date'[u]
  BY DEF TypeInv, Fields, EditText, NextSlot, Move, PushStages
<1>2. QED
  BY <1>1 DEF SlotsTaken, Slot, PushStages, push, chat

LEMMA SlotsOfPushes ==
    ASSUME TypeInv, SlotsTaken, NEW t \in Ticks, PushStep(t)
    PROVE  SlotsTaken'
<1> USE DEF TypeInv, Fields, PushFields, SlotsTaken, Slot, Goes, Leaves, Idles, kept, PushStages, push, chat
<1>1. CASE StartPush(t)
  BY <1>1 DEF StartPush
<1>2. CASE Prepare(t)
  BY <1>2 DEF Prepare
<1>3. CASE Book(t)
  <2>1. Slot(t) \in Days \X Kinds /\ UNCHANGED <<sent, accepted, greeted>>
    BY <1>3 DEF Book
  <2>2. CASE Taken(t)
    BY <1>3, <2>2 DEF Book, Taken
  <2>3. CASE ~Taken(t)
    <3>1. /\ notified' = notified \union {Slot(t)} /\ shown' \subseteq shown
          /\ stage' = [stage EXCEPT ![t] = "sending"] /\ UNCHANGED kept
      BY <1>3, <2>3 DEF Book, Taken, WithoutVariant
    <3>2. Slot(t) \notin notified /\ sent[Slot(t)] = 0
      BY <2>1, <2>3 DEF Taken
    <3>3. QED
      BY <2>1, <3>1, <3>2
  <2>4. QED
    BY <2>2, <2>3
<1>4. CASE Send(t)
  <2>1. /\ Slot(t) \in Days \X Kinds /\ Slot(t) \in notified
        /\ UNCHANGED <<notified, shown, greeted>>
    BY <1>4 DEF Send
  <2>2. \A x \in Days \X Kinds : x # Slot(t) => sent'[x] = sent[x]
    BY <1>4, <2>1 DEF Send
  <2>3. accepted \subseteq accepted'
    BY <1>4 DEF Send
  <2>4. \A u \in Ticks \ {t} : UNCHANGED <<stage[u], date[u], kind[u]>>
    BY <1>4 DEF Send
  <2>5. \/ stage'[t] = "idle"
        \/ /\ stage'[t] = "recording" /\ kind'[t] = "evening"
           /\ Slot(t)' = Slot(t) /\ Slot(t) \in accepted'
    BY <1>4 DEF Send
  <2>6. \A u \in Ticks \ {t} :
           /\ stage[u] = "sending" => Slot(u) # Slot(t) /\ Slot(u) \in Days \X Kinds
           /\ Slot(u)' = Slot(u)
    BY <1>4, <2>4 DEF Send
  <2>7. \A x \in Days \X Kinds : x \notin notified' => sent'[x] = 0
    BY <2>1, <2>2
  <2>8. \A u \in Ticks : stage'[u] = "sending" =>
           u # t /\ stage[u] = "sending" /\ Slot(u)' \in notified' /\ sent'[Slot(u)'] = 0
    BY <2>1, <2>2, <2>4, <2>5, <2>6
  <2>9. \A u \in Ticks : stage'[u] = "recording" =>
           kind'[u] = "evening" /\ Slot(u)' \in accepted'
    BY <2>3, <2>4, <2>5, <2>6
  <2>10. \A u, v \in Ticks : u # v /\ stage'[u] = "sending" /\ stage'[v] = "sending" =>
            Slot(u)' # Slot(v)'
    <3>1. \A u, v \in Ticks : u # v /\ stage[u] = "sending" /\ stage[v] = "sending" =>
             Slot(u) # Slot(v)
      OBVIOUS
    <3> HIDE DEF TypeInv, Fields, PushFields, SlotsTaken
    <3>2. QED
      BY <2>4, <2>8, <3>1
  <2>11. \A d \in Days : d \in shown' \/ <<d, "evening">> \in greeted' =>
            <<d, "evening">> \in accepted'
    BY <2>1, <2>3
  <2>12. QED
    BY <2>7, <2>8, <2>9, <2>10, <2>11 DEF SlotsTaken
<1>5. CASE Record(t)
  BY <1>5 DEF Record
<1>6. CASE KillPush(t)
  BY <1>6 DEF KillPush
<1>7. QED
  BY <1>1, <1>2, <1>3, <1>4, <1>5, <1>6 DEF PushStep

-----------------------------------------------------------------------------
(* Nights.                                                                 *)

LEMMA NightOfDiary ==
    ASSUME Fields, ClaimsHeld, NightGoesOn, NEW t \in Ticks, DiaryStep(t)
    PROVE  NightGoesOn'
<1>0. clock \in Nat /\ day \in Days
  BY DiaryAssumption DEF Fields, Slots, Days
<1> USE <1>0 DEF Fields, NightGoesOn, NightServed, Open, Held, Settled, Night, Goes, Leaves, texts, days, time, told, Generating, Holding
<1>1. CASE StartDiary(t)
  BY <1>1 DEF StartDiary
<1>2. CASE Claim(t)
  BY <1>2, NoneApart DEF Claim, Expires, ClaimsHeld
<1>3. CASE Check(t)
  BY <1>3 DEF Check
<1>4. CASE Write(t)
  BY <1>4 DEF Write
<1>5. CASE Pick(t)
  BY <1>5 DEF Pick
<1>6. CASE Confirm(t)
  BY <1>6 DEF Confirm, Fails
<1>7. CASE Commit(t)
  BY <1>7, NoneApart DEF Commit
<1>8. CASE Fail(t)
  BY <1>8 DEF Fail, Fails
<1>9. CASE Release(t)
  BY <1>9 DEF Release
<1>10. CASE KillDiary(t)
  BY <1>10, NoneApart DEF KillDiary
<1>11. QED
  BY <1>1, <1>2, <1>3, <1>4, <1>5, <1>6, <1>7, <1>8, <1>9, <1>10 DEF DiaryStep

LEMMA NightOfEnvironment ==
    ASSUME Fields, ClaimsHeld, NightGoesOn, EditText \/ NextSlot \/ Move
    PROVE  NightGoesOn'
<1>0. clock \in Nat /\ day \in Nat /\ 1..plan.days \subseteq Days /\ Days \subseteq Nat
  BY DiaryAssumption DEF Fields, Slots, Days
<1> USE <1>0 DEF Fields, Open, Held, Settled, Night, Slots, texts, days, time, told, Generating, Holding
<1>1. CASE EditText
  BY <1>1 DEF EditText, NightGoesOn, NightServed
<1>2. CASE NextSlot
  <2>1. NightServed'
    BY <1>2 DEF NextSlot, NightGoesOn, NightServed
  <2>2. (\A d \in served : Open(d) => d = day /\ clock = 7)'
    BY <1>2 DEF NextSlot, NightGoesOn
  <2>3. (Open(day) /\ clock \in Night /\ claim[day] # None /\ ~Held(day) => claim[day] >= clock - 4)'
    <3>1. day' \in Days /\ claim' = [d \in Days |->
             IF claim[d] = None THEN None
             ELSE IF clock \in 0..6 /\ claim[d] < 3 THEN claim[d] + 1 ELSE 3]
      <4>1. day' \in 1..plan.days
        BY <1>2, FieldsOfEnvironment DEF NextSlot
      <4>2. QED
        BY <1>2, <4>1 DEF NextSlot
    <3>2. CASE clock \in 0..6
      <4>1. day' = day /\ clock' = clock + 1
        BY <1>2, <3>2 DEF NextSlot
      <4>2. Open(day)' => Open(day)
        BY <1>2, <4>1 DEF NextSlot
      <4>3. ~Held(day)' => ~Held(day)
        BY <1>2, <4>1 DEF NextSlot
      <4>4. claim[day] # None => claim[day] \in Nat /\ claim'[day] \in {claim[day] + 1, 3}
        BY <3>1, <4>1, <3>2
      <4>5. QED
        BY <3>1, <3>2, <4>1, <4>2, <4>3, <4>4 DEF NightGoesOn
    <3>3. CASE clock \notin 0..6
      BY <1>2, <3>1, <3>3, NoneApart DEF NextSlot
    <3>4. QED
      BY <3>2, <3>3
  <2>4. (Open(day) => /\ clock # 7 \/ day \notin served
                      /\ clock = 7 => \A t \in Ticks : date[t] = day => stage[t] \notin {"releasing", "stalled"})'
    BY <1>2 DEF NextSlot, NightGoesOn
  <2>5. QED
    BY <2>1, <2>2, <2>3, <2>4 DEF NightGoesOn
<1>3. CASE Move
  BY <1>3 DEF Move, NightGoesOn, NightServed
<1>4. QED
  BY <1>1, <1>2, <1>3

LEMMA NightOfPushes ==
    ASSUME TypeInv, NightGoesOn, NEW t \in Ticks, PushStep(t)
    PROVE  NightGoesOn'
<1>1. \A u \in Ticks :
         stage[u] \in Holding \union {"claiming"} \/ stage'[u] \in Holding \union {"claiming"} =>
             u # t /\ stage[u] = stage'[u] /\ date[u] = date'[u]
  BY PushMoves DEF TypeInv, Fields, Holding, Generating, PushStages
<1>2. UNCHANGED <<texts, days, time, claim, told>>
  BY PushMoves
<1>3. QED
  BY <1>1, <1>2 DEF NightGoesOn, NightServed, Open, Held, Settled, days, time, told, Holding

-----------------------------------------------------------------------------
(* The theorems.                                                           *)

LEMMA InitInv == Init => IInv
<1> SUFFICES ASSUME Init PROVE IInv
  OBVIOUS
<1>1. TypeInv
  BY InitFields
<1>2. ClaimsHeld /\ LockedChoice /\ SlotsTaken
  BY DEF Init, DiaryInit, ClaimsHeld, LockedChoice, SlotsTaken, Holding, Generating
<1>3. NightGoesOn
  BY DiaryAssumption
     DEF Init, DiaryInit, NightGoesOn, NightServed, Open, Settled, Days, Night, Holding, Generating
<1>4. QED
  BY <1>1, <1>2, <1>3 DEF IInv

\* What the user does and what stutters leaves everything the invariant is about
\* alone, but for the greetings.
LEMMA UserInv ==
    ASSUME IInv, Say \/ Hear \/ Greet \/ UNCHANGED vars
    PROVE  IInv'
<1>1. UNCHANGED <<dvars, kind, push>>
  BY DEF Say, Hear, Greet, vars
<1>2. (TypeInv /\ ClaimsHeld /\ LockedChoice)'
  BY <1>1 DEF IInv, TypeInv, Fields, PushFields, ClaimsHeld, LockedChoice, dvars, push, texts,
     days, time, told, Settled, Given, Text
<1>3. NightGoesOn'
  BY <1>1 DEF IInv, NightGoesOn, NightServed, Open, Held, Settled, dvars, days, time, told
<1>4. \A d : <<d, "evening">> \in greeted' => <<d, "evening">> \in greeted \/ d \in shown
  BY DEF Say, Hear, Greet, vars, chat
<1>5. SlotsTaken'
  <2>1. \A d \in Days : <<d, "evening">> \in greeted' => <<d, "evening">> \in accepted
    BY <1>4 DEF IInv, SlotsTaken, TypeInv, PushFields
  <2>2. QED
    BY <1>1, <2>1 DEF IInv, SlotsTaken, Slot, dvars, push
<1>6. QED
  BY <1>2, <1>3, <1>5 DEF IInv

LEMMA NextInv == IInv /\ [Next]_vars => IInv'
<1> SUFFICES ASSUME IInv, [Next]_vars PROVE IInv'
  OBVIOUS
<1> USE DEF IInv
<1>1. CASE Say \/ Hear \/ Greet \/ UNCHANGED vars
  BY <1>1, UserInv
<1>2. ASSUME NEW t \in Ticks, PushStep(t) PROVE IInv'
  <2>1. TypeInv'
    BY <1>2, FieldsOfPushes, PushFieldsKept DEF TypeInv
  <2>2. QED
    BY <1>2, <2>1, ClaimsOfPushes, ChoiceOfPushes, NightOfPushes, SlotsOfPushes
<1>3. ASSUME NEW t \in Ticks, DiaryStep(t), UNCHANGED <<kind, push, chat>> PROVE IInv'
  <2>1. Fields'
    BY <1>3, FieldsKept DEF TypeInv
  <2>2. PushFields'
    BY <1>3, DiaryMoves DEF TypeInv, PushFields, push
  <2>3. QED
    BY <1>3, <2>1, <2>2, ClaimsOfDiary, ChoiceOfDiary, NightOfDiary, SlotsOfDiary DEF TypeInv
<1>4. CASE (EditText \/ NextSlot \/ Move) /\ UNCHANGED <<kind, push, chat>>
  <2>1. Fields'
    BY <1>4, FieldsOfEnvironment DEF TypeInv
  <2>2. PushFields'
    BY <1>4 DEF TypeInv, Fields, PushFields, push, EditText, NextSlot, Move, PushStages
  <2>3. QED
    BY <1>4, <2>1, <2>2, ClaimsOfEnvironment, ChoiceOfEnvironment, NightOfEnvironment,
       SlotsOfEnvironment DEF TypeInv
<1>5. QED
  BY <1>1, <1>2, <1>3, <1>4 DEF Next

LEMMA Invariance == Spec => []IInv
<1>1. QED
  BY InitInv, NextInv, PTL DEF Spec

\* Two ticks never write one day's diary at once, however many there are and
\* wherever they are killed.
THEOREM GeneratorAlone == Spec => []OneGenerator
<1>1. IInv => OneGenerator
  BY DEF IInv, ClaimsHeld, OneGenerator, Holding
<1>2. QED
  BY <1>1, Invariance, PTL

\* Every night that is over settled its day or has one of the named excuses.
THEOREM NightsServed == Spec => []NightServed
<1>1. IInv => NightServed
  BY DEF IInv, NightGoesOn
<1>2. QED
  BY <1>1, Invariance, PTL

\* A push is requested once at most, and greeted about only if accepted.
THEOREM SlotsOnce == Spec => []PushedOnce
<1>1. IInv => PushedOnce
  <2> SUFFICES ASSUME IInv, NEW x \in Days \X Kinds
               PROVE  sent[x] <= 1 /\ (x[2] = "evening" /\ x \in greeted => x \in accepted)
    BY DEF PushedOnce
  <2>1. sent[x] <= 1
    BY DEF IInv, TypeInv, PushFields
  <2>2. x = <<x[1], x[2]>> /\ x[1] \in Days
    OBVIOUS
  <2>3. QED
    BY <2>1, <2>2 DEF IInv, SlotsTaken
<1>2. QED
  BY <1>1, Invariance, PTL

\* What a day got stays, and a text of the week is given as it reads then, to a
\* user who did not have it.
THEOREM PublicationKept == Spec => PublishedAsScheduled
<1> DEFINE Kept ==
      \A d \in Days :
          /\ Settled(d) => diary'[d] = diary[d] /\ result'[d] = result[d]
          /\ plan.mode = "weekly" /\ diary'[d] # diary[d] /\ diary'[d] # Personal =>
                \E m \in active \ Given : diary'[d] = Text(m)
<1>1. IInv /\ [Next]_vars => [Kept]_dvars
  <2> SUFFICES ASSUME IInv, [Next]_vars PROVE Kept \/ UNCHANGED dvars
    OBVIOUS
  <2>1. ASSUME NEW t \in Ticks, DiaryStep(t) PROVE Kept
    BY <2>1, Published DEF IInv
  <2>2. CASE UNCHANGED days
    BY <2>2 DEF days
  <2>3. ASSUME NEW t \in Ticks, PushStep(t) PROVE UNCHANGED days
    BY <2>3, PushMoves DEF IInv
  <2>4. CASE Say \/ Hear \/ Greet \/ EditText \/ NextSlot \/ Move \/ UNCHANGED vars
    <3>1. UNCHANGED days
      BY <2>4 DEF Say, Hear, Greet, EditText, NextSlot, Move, vars, dvars
    <3>2. QED
      BY <2>2, <3>1
  <2>5. QED
    BY <2>1, <2>2, <2>3, <2>4 DEF Next
<1>2. QED
  BY <1>1, Invariance, PTL DEF Spec, PublishedAsScheduled
=============================================================================
