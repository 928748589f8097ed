---------------------------- MODULE EconomyProofs ----------------------------
(***************************************************************************)
(* Proofs about everything that books hay.  First HayEconomy and Trainings,*)
(* for any sets of requests that arrive together, any catalogue, prices,   *)
(* limits and clocks; then Subscriptions, for any events in any order, any *)
(* workers and any answers of the provider.                                *)
(***************************************************************************)
EXTENDS Trainings, Subscriptions, FiniteSetTheorems, SequenceTheorems,
        WellFoundedInduction, TLAPS

-----------------------------------------------------------------------------
(* The rows and the requests.                                               *)

TxIds     == {r.tx : r \in {q \in Requests : q.kind = "ssv"}} \cup {None}
AdSession == [date: Dates, granted: BOOLEAN, tx: TxIds, age: {"live", "expired", "old"}]
Stops     == {"new", "loaded", "read", "checked", "grading", "done"}

\* Where a request is says what kind it is and what its session has loaded.
RequestsTyped ==
    /\ pc \in [Requests -> Stops] /\ DOMAIN seen = Requests
    /\ \A r \in Requests :
          /\ pc[r] = "loaded"  => seen[r].tz \in {0, 1}
          /\ pc[r] = "read"    => r.kind = "ssv"
          /\ pc[r] = "checked" => r.kind = "purchase"
          /\ pc[r] = "grading" => r.kind = "write"
          /\ seen[r] # None    => r.kind \in LoadsFirst \cup {"ad_session"}

RowsTyped ==
    /\ DOMAIN profile = {"balance", "tz"} /\ profile.tz \in {0, 1}
    /\ claimed \subseteq RewardKinds \X Dates
    /\ adCount \in [Dates -> Nat]
    /\ DOMAIN ads = Sessions
    /\ \A s \in Sessions : ads[s] # None => ads[s] \in AdSession
    /\ items \in [Products -> {"none", "purchase", "subscription"}]
    /\ worn \in Products \cup {None}

Typed ==
    /\ script \in Scripts /\ clock \in 0..MaxDay
    /\ \E S : ledger \in Seq(S)
    /\ RequestsTyped
    /\ RowsTyped

\* The requests of a behaviour are requests.
LEMMA ScriptRequests == script \in Scripts => script \subseteq Requests
BY DEF Requests

\* A date of a request is a date.
LEMMA TodayIsDate ==
    ASSUME Typed, NEW r \in Requests, pc[r] = "loaded"
    PROVE  Today(r) \in Dates
BY NumberAssumption DEF Typed, RequestsTyped, Today, Dates

\* One booking is one more row of the ledger.
LEMMA Appended ==
    ASSUME NEW e, \E S : ledger \in Seq(S), ledger' = Append(ledger, e)
    PROVE  /\ \E S : ledger' \in Seq(S)
           /\ Len(ledger) \in Nat /\ Len(ledger') = Len(ledger) + 1
           /\ DOMAIN ledger = 1..Len(ledger) /\ DOMAIN ledger' = 1..(Len(ledger) + 1)
           /\ \A i \in 1..Len(ledger) : ledger'[i] = ledger[i]
           /\ ledger'[Len(ledger) + 1] = e
<1>1. PICK S : ledger \in Seq(S)
  OBVIOUS
<1>2. ledger \in Seq(S \cup {e})
  BY <1>1, SeqMonotonic
<1>3. ledger' \in Seq(S \cup {e})
  BY <1>2, AppendProperties
<1>4. QED
  BY <1>2, <1>3, AppendProperties, LenProperties
-----------------------------------------------------------------------------
(* The steps keep the types.                                                *)

LEMMA TypedInit == TrainingInit => Typed
BY NumberAssumption, EmptySeq
DEF TrainingInit, Init, Typed, RequestsTyped, RowsTyped, Dates, Stops, Requests, LoadsFirst

\* A booking changes the balance and the ledger.
LEMMA BookTyped ==
    ASSUME Typed, NEW r, NEW type, NEW amount, NEW ref, Book(r, type, amount, ref)
    PROVE  /\ \E S : ledger' \in Seq(S)
           /\ DOMAIN profile' = {"balance", "tz"} /\ profile'.tz = profile.tz
           /\ profile'.balance = Balance(r) + amount
<1>1. \E S : ledger' \in Seq(S)
  BY Appended DEF Typed, Book
<1>2. profile' = [profile EXCEPT !.balance = Balance(r) + amount]
  BY DEF Book
<1>3. QED
  BY <1>1, <1>2 DEF Typed, RowsTyped

LEMMA RequestsTypedServe ==
    ASSUME Typed, NEW r \in script, Serve(r)
    PROVE  RequestsTyped'
<1> script \in Scripts /\ r \in Requests
  BY ScriptRequests DEF Typed
<1>1. CASE LoadProfile(r)
  BY <1>1 DEF LoadProfile, Typed, RequestsTyped, RowsTyped, Stops
<1>2. CASE ~LoadProfile(r)
  BY <1>2 DEF Serve, GiveUp, ClaimGoalReward, ClaimAttendance, CheckIn,
     CreateAdSession, ReadAdSession, GrantFromSsv, RecordArticle, CheckPurchase,
     PurchaseWithKey, PurchaseWithoutKey, PutEquipment, Done, Typed, RequestsTyped, Stops
<1>3. QED
  BY <1>1, <1>2

\* A reward is granted for a session that exists.
LEMMA GrantedSession ==
    ASSUME Typed, NEW r \in script, GrantFromSsv(r)
    PROVE  /\ r.kind = "ssv" /\ r.tx \in TxIds
           /\ r.session \in Sessions
           /\ ads[r.session] \in AdSession
           /\ ads[r.session].date \in Dates
<1> r \in Requests
  BY ScriptRequests DEF Typed
<1>1. r.kind = "ssv" /\ r.tx \in TxIds
  BY DEF GrantFromSsv, Typed, RequestsTyped, TxIds
<1>2. r.session \in Sessions
  BY <1>1, RequestAssumption DEF Requests
<1>3. ads[r.session] \in AdSession
  BY <1>2 DEF GrantFromSsv, Grantable, Typed, RowsTyped
<1>4. QED
  BY <1>1, <1>2, <1>3 DEF AdSession

LEMMA AdRowsTyped ==
    ASSUME Typed, NEW r \in script, CreateAdSession(r) \/ GrantFromSsv(r)
    PROVE  DOMAIN ads' = Sessions /\ \A s \in Sessions : ads'[s] # None => ads'[s] \in AdSession
<1> r \in Requests /\ None \in TxIds
  BY ScriptRequests DEF Typed, TxIds
<1>1. CASE CreateAdSession(r)
  <2>1. Today(r) \in Dates
    BY <1>1, TodayIsDate DEF CreateAdSession
  <2>2. \A s \in Sessions : Kept[s] # None => Kept[s] \in AdSession
    BY DEF Typed, RowsTyped, Kept
  <2>3. DOMAIN Kept = Sessions
    BY DEF Kept
  <2>4. [date |-> Today(r), granted |-> FALSE, tx |-> None, age |-> "live"] \in AdSession
    BY <2>1 DEF AdSession
  <2>5. QED
    BY <1>1, <2>2, <2>3, <2>4 DEF CreateAdSession
<1>2. CASE GrantFromSsv(r)
  <2>1. /\ r.tx \in TxIds /\ r.session \in Sessions
        /\ ads[r.session] \in AdSession
    BY <1>2, GrantedSession
  <2>4. [ads[r.session] EXCEPT !.granted = TRUE, !.tx = r.tx] \in AdSession
    BY <2>1 DEF AdSession
  <2>5. ads' = [ads EXCEPT ![r.session] = [ads[r.session] EXCEPT !.granted = TRUE, !.tx = r.tx]]
    BY <1>2 DEF GrantFromSsv
  <2>6. QED
    BY <2>1, <2>4, <2>5 DEF Typed, RowsTyped
<1>3. QED
  BY <1>1, <1>2

LEMMA RowsTypedServe ==
    ASSUME Typed, NEW r \in script, Serve(r)
    PROVE  RowsTyped' /\ \E S : ledger' \in Seq(S)
<1> r \in Requests /\ \E S : ledger \in Seq(S)
  BY ScriptRequests DEF Typed
<1>1. CASE GiveUp(r) \/ ReadAdSession(r) \/ CheckPurchase(r) \/ LoadProfile(r)
  BY <1>1 DEF GiveUp, ReadAdSession, CheckPurchase, LoadProfile, rows, Typed, RowsTyped
<1>2. CASE ClaimGoalReward(r)
  <2>1. Today(r) \in Dates
    BY <1>2, TodayIsDate DEF ClaimGoalReward
  <2>2. Book(r, r.kind, 20, Today(r))
    BY <1>2 DEF ClaimGoalReward
  <2>3. QED
    BY <1>2, <2>1, <2>2, BookTyped
    DEF ClaimGoalReward, Typed, RowsTyped, RewardKinds
<1>3. CASE ClaimAttendance(r) \/ CheckIn(r)
  <2>1. Today(r) \in Dates
    BY <1>3, TodayIsDate DEF ClaimAttendance, CheckIn
  <2>2. ASSUME NEW s, BookAttendance(r, s)
        PROVE  /\ claimed' = claimed \cup {<<"attendance", Today(r)>>}
               /\ \E S : ledger' \in Seq(S)
               /\ DOMAIN profile' = {"balance", "tz"} /\ profile'.tz = profile.tz
    BY <2>2, BookTyped DEF BookAttendance
  <2>3. UNCHANGED <<adCount, ads, items, worn>>
    BY <1>3 DEF ClaimAttendance, CheckIn
  <2>4. \/ UNCHANGED <<profile, ledger, claimed>>
        \/ \E s : BookAttendance(r, s)
    BY <1>3 DEF ClaimAttendance, CheckIn
  <2>5. QED
    BY <2>1, <2>2, <2>3, <2>4 DEF Typed, RowsTyped, RewardKinds
<1>4. CASE CreateAdSession(r)
  BY <1>4, AdRowsTyped DEF CreateAdSession, Typed, RowsTyped
<1>5. CASE GrantFromSsv(r)
  <2>1. Book(r, "ad_reward", 20, ads[r.session].date)
    BY <1>5 DEF GrantFromSsv
  <2>2. adCount' \in [Dates -> Nat]
    <3>1. adCount' = [adCount EXCEPT ![ads[r.session].date] = @ + 1]
      BY <1>5 DEF GrantFromSsv
    <3>2. ads[r.session].date \in Dates
      BY <1>5, GrantedSession
    <3>3. QED
      BY <3>1, <3>2 DEF Typed, RowsTyped
  <2>3. QED
    BY <1>5, <2>1, <2>2, BookTyped, AdRowsTyped DEF GrantFromSsv, Typed, RowsTyped
<1>6. CASE RecordArticle(r)
  BY <1>6, BookTyped DEF RecordArticle, Typed, RowsTyped
<1>7. CASE PurchaseWithKey(r) \/ PurchaseWithoutKey(r)
  <2>1. /\ Book(r, "shop_purchase", -Price, r.product)
        /\ items' = [items EXCEPT ![r.product] = "purchase"]
        /\ UNCHANGED <<claimed, adCount, ads, worn>>
    BY <1>7 DEF PurchaseWithKey, PurchaseWithoutKey, Sell
  <2>2. QED
    BY <2>1, BookTyped DEF Typed, RowsTyped
<1>8. CASE PutEquipment(r)
  <2>1. r.product \in Products \cup {None}
    BY <1>8, RequestAssumption DEF PutEquipment, Requests
  <2>2. Unequipped \in [Products -> {"none", "purchase", "subscription"}]
    BY ShopAssumption DEF Unequipped, Typed, RowsTyped
  <2>3. QED
    BY <1>8, <2>1, <2>2 DEF PutEquipment, Typed, RowsTyped
<1>9. QED
  BY <1>1, <1>2, <1>3, <1>4, <1>5, <1>6, <1>7, <1>8 DEF Serve

\* What happens around the service.
World ==
    \/ \E s \in Sessions : AdSessionAges(s)
    \/ CleanupExpiredSessions \/ DayPasses \/ ChangeTimezone

LEMMA TypedWorld == ASSUME Typed, World PROVE Typed'
<1>1. CASE \E s \in Sessions : AdSessionAges(s)
  <2>1. PICK s \in Sessions : AdSessionAges(s)
    BY <1>1
  <2>2. ads[s] \in AdSession
    BY <2>1 DEF AdSessionAges, Typed, RowsTyped
  <2>3. [ads[s] EXCEPT !.age = IF @ = "live" THEN "expired" ELSE "old"] \in AdSession
    BY <2>2 DEF AdSession
  <2>4. ads' = [ads EXCEPT ![s] = [ads[s] EXCEPT !.age = IF @ = "live" THEN "expired" ELSE "old"]]
    BY <2>1 DEF AdSessionAges
  <2>5. QED
    BY <2>1, <2>3, <2>4 DEF AdSessionAges, Typed, RequestsTyped, RowsTyped
<1>2. CASE CleanupExpiredSessions
  BY <1>2 DEF CleanupExpiredSessions, Typed, RequestsTyped, RowsTyped
<1>3. CASE DayPasses
  BY <1>3, NumberAssumption DEF DayPasses, rows, Typed, RequestsTyped, RowsTyped
<1>4. CASE ChangeTimezone
  BY <1>4 DEF ChangeTimezone, Typed, RequestsTyped, RowsTyped
<1>5. QED
  BY <1>1, <1>2, <1>3, <1>4 DEF World

\* The steps of a training book or leave the rows alone.
Submission(r) == SubmitPick(r) \/ Reserve(r) \/ SubmitWrite(r)

SubmissionFrame(r) ==
    /\ \/ Book(r, "training_reward", 30, r.stage)
       \/ UNCHANGED <<profile, ledger>>
    /\ r.kind \in {"pick", "write"}
    /\ \E stop \in {"grading", "done"} :
          /\ pc' = [pc EXCEPT ![r] = stop]
          /\ stop = "grading" => r.kind = "write"
    /\ UNCHANGED <<script, claimed, adCount, seed, ads, rewarded, items, worn, keys,
                   seen, clock, moves>>

LEMMA SubmissionFrames ==
    ASSUME Typed, NEW r \in script, Submission(r)
    PROVE  SubmissionFrame(r)
<1> r \in Requests
  BY ScriptRequests DEF Typed
<1>1. ASSUME NEW passed \in BOOLEAN, Record(r, passed), r.kind \in {"pick", "write"}
      PROVE  SubmissionFrame(r)
  BY <1>1 DEF Record, Pass, Retry, SubmissionFrame
<1>2. CASE SubmitPick(r)
  BY <1>1, <1>2 DEF SubmitPick
<1>3. CASE Reserve(r)
  BY <1>3 DEF Reserve, rows, SubmissionFrame
<1>4. CASE SubmitWrite(r)
  BY <1>1, <1>4 DEF SubmitWrite, Typed, RequestsTyped
<1>5. QED
  BY <1>2, <1>3, <1>4 DEF Submission

LEMMA TypedSubmission ==
    ASSUME Typed, NEW r \in script, Submission(r)
    PROVE  Typed'
<1> r \in Requests
  BY ScriptRequests DEF Typed
<1>1. SubmissionFrame(r)
  BY SubmissionFrames
<1>2. RequestsTyped'
  BY <1>1 DEF SubmissionFrame, Typed, RequestsTyped, Stops
<1>3. /\ \E S : ledger' \in Seq(S)
      /\ DOMAIN profile' = {"balance", "tz"} /\ profile'.tz = profile.tz
  BY <1>1, BookTyped DEF SubmissionFrame, Typed, RowsTyped
<1>4. QED
  BY <1>1, <1>2, <1>3 DEF SubmissionFrame, Typed, RowsTyped

\* Every step is a step of the service, of the world, of a training, or none of
\* these rows changes.
LEMMA StepCases ==
    ASSUME [TrainingNext]_<<vars, trainingVars>>
    PROVE  \/ \E r \in script : Serve(r) /\ UNCHANGED trainingVars
           \/ World /\ UNCHANGED trainingVars
           \/ \E r \in script : Submission(r)
           \/ \E id \in Ids : LeaseExpires(id)
           \/ TimePasses
           \/ UNCHANGED <<vars, trainingVars>>
BY DEF TrainingNext, Next, World, Submission

LEMMA UnchangedKeepsTyped == Typed /\ UNCHANGED vars => Typed'
BY DEF vars, rows, Typed, RequestsTyped, RowsTyped

LEMMA TypedStep ==
    ASSUME Typed, [TrainingNext]_<<vars, trainingVars>>
    PROVE  Typed'
<1>1. ASSUME NEW r \in script, Serve(r)
      PROVE  Typed'
  <2>1. RequestsTyped' /\ RowsTyped' /\ \E S : ledger' \in Seq(S)
    BY <1>1, RequestsTypedServe, RowsTypedServe
  <2>2. UNCHANGED <<script, clock>>
    BY <1>1 DEF Serve, LoadProfile, GiveUp, ClaimGoalReward, ClaimAttendance, CheckIn,
       CreateAdSession, ReadAdSession, GrantFromSsv, RecordArticle, CheckPurchase,
       PurchaseWithKey, PurchaseWithoutKey, PutEquipment, Done
  <2>3. QED
    BY <2>1, <2>2 DEF Typed
<1>2. CASE World
  BY <1>2, TypedWorld
<1>3. ASSUME NEW r \in script, Submission(r)
      PROVE  Typed'
  BY <1>3, TypedSubmission
<1>4. CASE UNCHANGED vars
  BY <1>4, UnchangedKeepsTyped
<1>5. QED
  BY <1>1, <1>2, <1>3, <1>4, StepCases DEF LeaseExpires, TimePasses

-----------------------------------------------------------------------------
(* What a booking adds to the ledger.                                       *)

\* The rows of one type that are about one thing.
About(type, x) == {i \in Entries({type}) : ledger[i].ref = x}

LEMMA BookRow ==
    ASSUME Typed, NEW r, NEW type, NEW amount, NEW ref, Book(r, type, amount, ref)
    PROVE  /\ Len(ledger) \in Nat /\ Len(ledger') = Len(ledger) + 1
           /\ DOMAIN ledger = 1..Len(ledger) /\ DOMAIN ledger' = 1..(Len(ledger) + 1)
           /\ \A i \in 1..Len(ledger) : ledger'[i] = ledger[i]
           /\ ledger'[Len(ledger) + 1].type = type
           /\ ledger'[Len(ledger) + 1].ref = ref
           /\ ledger'[Len(ledger) + 1].amount = amount
           /\ ledger'[Len(ledger) + 1].after = Balance(r) + amount
<1> DEFINE row == [type |-> type, amount |-> amount, after |-> Balance(r) + amount, ref |-> ref]
<1>1. ledger' = Append(ledger, row)
  BY DEF Book
<1>2. /\ row.type = type /\ row.amount = amount
      /\ row.after = Balance(r) + amount /\ row.ref = ref
  OBVIOUS
<1> HIDE DEF row
<1>3. QED
  BY <1>1, <1>2, Appended DEF Typed

LEMMA LedgerLength ==
    ASSUME Typed
    PROVE  Len(ledger) \in Nat /\ DOMAIN ledger = 1..Len(ledger)
BY LenProperties DEF Typed

LEMMA AboutFinite ==
    ASSUME Typed, NEW type, NEW x
    PROVE  IsFiniteSet(About(type, x)) /\ Cardinality(About(type, x)) \in Nat
<1>1. About(type, x) \in SUBSET (1..Len(ledger))
  BY LedgerLength DEF About, Entries
<1>2. IsFiniteSet(1..Len(ledger))
  BY LedgerLength, FS_Interval
<1>3. QED
  BY <1>1, <1>2, FS_Subset, FS_CardinalityType

LEMMA AboutBooked ==
    ASSUME Typed, NEW r, NEW type, NEW amount, NEW ref, Book(r, type, amount, ref),
           NEW t, NEW x
    PROVE  Cardinality(About(t, x)') =
               Cardinality(About(t, x)) + IF t = type /\ x = ref THEN 1 ELSE 0
<1>1. IsFiniteSet(About(t, x)) /\ Cardinality(About(t, x)) \in Nat
  BY AboutFinite
<1>2. CASE t = type /\ x = ref
  <2>1. About(t, x)' = About(t, x) \cup {Len(ledger) + 1}
    BY <1>2, BookRow DEF About, Entries
  <2>2. Len(ledger) + 1 \notin About(t, x)
    BY BookRow DEF About, Entries
  <2>3. QED
    BY <1>1, <1>2, <2>1, <2>2, FS_AddElement
<1>3. CASE ~(t = type /\ x = ref)
  <2>1. About(t, x)' = About(t, x)
    BY <1>3, BookRow DEF About, Entries
  <2>2. QED
    BY <1>1, <1>3, <2>1
<1>4. QED
  BY <1>2, <1>3

LEMMA EntriesBooked ==
    ASSUME Typed, NEW r, NEW type, NEW amount, NEW ref, Book(r, type, amount, ref),
           NEW types
    PROVE  Entries(types)' = Entries(types) \cup
               (IF type \in types THEN {Len(ledger) + 1} ELSE {})
BY BookRow DEF Entries

-----------------------------------------------------------------------------
(* Rewards.  Every step is, for them, one of these.                         *)

Claims(r) == \E kind \in RewardKinds, d \in Dates : \E amount, ref :
    /\ Claimable(kind, d)
    /\ d = IF kind = "attendance" THEN ref.date ELSE ref
    /\ Book(r, kind, amount, ref)
    /\ claimed' = claimed \cup {<<kind, d>>}
    /\ UNCHANGED <<adCount, rewarded>>

Grants(r) == \E d \in Dates :
    /\ AdsLeft(d)
    /\ Book(r, "ad_reward", 20, d)
    /\ adCount' = [adCount EXCEPT ![d] = @ + 1]
    /\ UNCHANGED <<claimed, rewarded>>

Reads(r) ==
    /\ r.article \notin rewarded
    /\ Book(r, "article_reward", 20, r.article)
    /\ rewarded' = rewarded \cup {r.article}
    /\ UNCHANGED <<claimed, adCount>>

Pays(r) ==
    /\ \E type \in {"shop_purchase", "training_reward"} : \E amount, ref : Book(r, type, amount, ref)
    /\ UNCHANGED <<claimed, adCount, rewarded>>

LEMMA RewardSteps ==
    ASSUME Typed, [TrainingNext]_<<vars, trainingVars>>
    PROVE  \/ \E r \in script : Claims(r) \/ Grants(r) \/ Reads(r) \/ Pays(r)
           \/ UNCHANGED <<ledger, claimed, adCount, rewarded>>
<1> DEFINE Goal ==
      \/ \E r \in script : Claims(r) \/ Grants(r) \/ Reads(r) \/ Pays(r)
      \/ UNCHANGED <<ledger, claimed, adCount, rewarded>>
<1> SUFFICES Goal
  OBVIOUS
<1>1. ASSUME NEW r \in script, Serve(r)
      PROVE  Goal
  <2>0. r \in Requests
    BY ScriptRequests DEF Typed
  <2>1. CASE LoadProfile(r) \/ GiveUp(r) \/ ReadAdSession(r) \/ CheckPurchase(r)
             \/ CreateAdSession(r) \/ PutEquipment(r)
    BY <2>1 DEF LoadProfile, GiveUp, ReadAdSession, CheckPurchase, CreateAdSession,
       PutEquipment, rows
  <2>2. CASE ClaimGoalReward(r)
    <3>1. /\ Today(r) \in Dates /\ r.kind \in RewardKinds /\ r.kind # "attendance"
          /\ Claimable(r.kind, Today(r)) /\ Book(r, r.kind, 20, Today(r))
          /\ claimed' = claimed \cup {<<r.kind, Today(r)>>}
          /\ UNCHANGED <<adCount, rewarded>>
      BY <2>0, <2>2, TodayIsDate DEF ClaimGoalReward, RewardKinds
    <3>2. Claims(r)
      BY <3>1 DEF Claims
    <3>3. QED
      BY <3>2
  <2>3. CASE ClaimAttendance(r) \/ CheckIn(r)
    <3>1. Today(r) \in Dates
      BY <2>0, <2>3, TodayIsDate DEF ClaimAttendance, CheckIn
    <3>2. /\ UNCHANGED <<adCount, rewarded>>
          /\ \/ UNCHANGED <<ledger, claimed>>
             \/ Claimable("attendance", Today(r)) /\ \E s : BookAttendance(r, s)
      BY <2>3 DEF ClaimAttendance, CheckIn
    <3>3. ASSUME NEW s, BookAttendance(r, s), Claimable("attendance", Today(r))
          PROVE  Claims(r)
      <4>1. PICK amount, ref : /\ claimed' = claimed \cup {<<"attendance", Today(r)>>}
                               /\ Book(r, "attendance", amount, ref)
                               /\ ref.date = Today(r)
        <5> DEFINE streak == Streak(Attended(Today(r)) \cup {Today(r)} \cup SeedDays(s), Today(r))
                   ref    == [date |-> Today(r), streak |-> streak, stored |-> seed' = s]
        <5>1. /\ claimed' = claimed \cup {<<"attendance", Today(r)>>}
              /\ Book(r, "attendance", AttendanceReward(streak), ref)
          BY <3>3 DEF BookAttendance
        <5>2. ref.date = Today(r)
          OBVIOUS
        <5> HIDE DEF ref, streak
        <5>3. QED
          BY <5>1, <5>2
      <4>2. "attendance" \in RewardKinds
        BY DEF RewardKinds
      <4>3. QED
        BY <3>1, <3>2, <3>3, <4>1, <4>2 DEF Claims
    <3>4. QED
      BY <3>2, <3>3
  <2>4. CASE GrantFromSsv(r)
    <3>1. /\ AdsLeft(ads[r.session].date)
          /\ Book(r, "ad_reward", 20, ads[r.session].date)
          /\ adCount' = [adCount EXCEPT ![ads[r.session].date] = @ + 1]
          /\ UNCHANGED <<claimed, rewarded>>
      BY <2>4 DEF GrantFromSsv, Grantable
    <3>2. ads[r.session].date \in Dates
      BY <2>4, GrantedSession
    <3>3. Grants(r)
      BY <3>1, <3>2 DEF Grants
    <3>4. QED
      BY <3>3
  <2>5. CASE RecordArticle(r)
    BY <2>5 DEF RecordArticle, Reads
  <2>6. CASE PurchaseWithKey(r) \/ PurchaseWithoutKey(r)
    <3>1. /\ Book(r, "shop_purchase", -Price, r.product)
          /\ UNCHANGED <<claimed, adCount, rewarded>>
      BY <2>6 DEF PurchaseWithKey, PurchaseWithoutKey, Sell
    <3>2. Pays(r)
      BY <3>1 DEF Pays
    <3>3. QED
      BY <3>2
  <2>7. QED
    BY <1>1, <2>1, <2>2, <2>3, <2>4, <2>5, <2>6 DEF Serve
<1>2. ASSUME NEW r \in script, Submission(r)
      PROVE  Goal
  <2>1. SubmissionFrame(r)
    BY <1>2, SubmissionFrames
  <2>2. QED
    BY <2>1 DEF SubmissionFrame, Pays
<1>3. CASE World
  BY <1>3 DEF World, AdSessionAges, CleanupExpiredSessions, DayPasses, ChangeTimezone, rows
<1>4. CASE UNCHANGED vars
  BY <1>4 DEF vars, rows
<1>5. QED
  BY <1>1, <1>2, <1>3, <1>4, StepCases DEF LeaseExpires, TimePasses

-----------------------------------------------------------------------------
DailyKinds == RewardKinds \cup {"ad_reward"}

\* The rewards of the ledger are the claimed ones, each date at most once per
\* kind and in order.
DaysRewarded ==
    /\ \A i \in Entries(RewardKinds) : <<ledger[i].type, DateOf(i)>> \in claimed
    /\ \A i \in Entries({"ad_reward"}) : DateOf(i) \in Dates /\ adCount[DateOf(i)] > 0
    /\ \A i, j \in Entries(RewardKinds) :
          ledger[i].type = ledger[j].type /\ DateOf(i) = DateOf(j) => i = j
    /\ \A i, j \in Entries(DailyKinds) : i < j => DateOf(i) <= DateOf(j)

AdsCounted ==
    \A d \in Dates : /\ adCount[d] <= AdLimit
                     /\ Cardinality(About("ad_reward", d)) = adCount[d]

ArticlesRewarded ==
    /\ \A i \in Entries({"article_reward"}) : ledger[i].ref \in rewarded
    /\ \A i, j \in Entries({"article_reward"}) : ledger[i].ref = ledger[j].ref => i = j

\* A date that does not go back is not before any that was rewarded.
LEMMA NothingLater ==
    ASSUME Typed, DaysRewarded, NEW d \in Dates, ~Regressed(d),
           NEW i \in Entries(DailyKinds)
    PROVE  DateOf(i) \in Dates /\ DateOf(i) <= d
<1>1. DateOf(i) \in RewardedDates /\ DateOf(i) \in Dates
  <2>1. CASE i \in Entries(RewardKinds)
    <3>1. <<ledger[i].type, DateOf(i)>> \in claimed
      BY <2>1 DEF DaysRewarded
    <3>2. DateOf(i) \in {c[2] : c \in claimed}
      BY <3>1
    <3>3. DateOf(i) \in Dates
      BY <3>1 DEF Typed, RowsTyped
    <3>4. QED
      BY <3>2, <3>3 DEF RewardedDates
  <2>2. CASE i \in Entries({"ad_reward"})
    BY <2>2 DEF DaysRewarded, RewardedDates
  <2>3. QED
    BY <2>1, <2>2 DEF Entries, DailyKinds
<1>2. ~(d < DateOf(i))
  BY <1>1 DEF Regressed
<1>3. QED
  BY <1>1, <1>2, NumberAssumption DEF Dates

\* What a booking leaves of the rows before it.
LEMMA EarlierRows ==
    ASSUME Typed, NEW r, NEW type, NEW amount, NEW ref, Book(r, type, amount, ref)
    PROVE  \E n \in Nat :
              /\ n = Len(ledger)
              /\ \A i \in 1..n : /\ ledger'[i] = ledger[i]
                                 /\ DateOf(i)' = DateOf(i)
              /\ ledger'[n + 1].type = type /\ ledger'[n + 1].ref = ref
              /\ DateOf(n + 1)' = IF type = "attendance" THEN ref.date ELSE ref
              /\ \A types : /\ Entries(types) \subseteq 1..n
                            /\ Entries(types)' = Entries(types) \cup
                                   (IF type \in types THEN {n + 1} ELSE {})
<1> PICK n \in Nat : n = Len(ledger)
  BY LedgerLength
<1>1. /\ DOMAIN ledger = 1..n /\ DOMAIN ledger' = 1..(n + 1)
      /\ \A i \in 1..n : ledger'[i] = ledger[i]
      /\ ledger'[n + 1].type = type /\ ledger'[n + 1].ref = ref
  BY BookRow
<1>2. \A types : /\ Entries(types) \subseteq 1..n
                 /\ Entries(types)' = Entries(types) \cup
                        (IF type \in types THEN {n + 1} ELSE {})
  BY <1>1 DEF Entries
<1>3. \A i \in 1..n : DateOf(i)' = DateOf(i)
  BY <1>1 DEF DateOf
<1>4. DateOf(n + 1)' = IF type = "attendance" THEN ref.date ELSE ref
  BY <1>1 DEF DateOf
<1>5. QED
  BY <1>1, <1>2, <1>3, <1>4

LEMMA DaysStep ==
    ASSUME Typed, DaysRewarded, [TrainingNext]_<<vars, trainingVars>>
    PROVE  DaysRewarded'
<1>1. ASSUME NEW r \in script, Claims(r)
      PROVE  DaysRewarded'
  <2>0. PICK kind \in RewardKinds, d \in Dates : \E amount, ref :
          /\ Claimable(kind, d)
          /\ d = IF kind = "attendance" THEN ref.date ELSE ref
          /\ Book(r, kind, amount, ref)
          /\ claimed' = claimed \cup {<<kind, d>>}
          /\ UNCHANGED <<adCount, rewarded>>
    BY <1>1 DEF Claims
  <2>1. PICK amount, ref :
          /\ Claimable(kind, d)
          /\ d = IF kind = "attendance" THEN ref.date ELSE ref
          /\ Book(r, kind, amount, ref)
          /\ claimed' = claimed \cup {<<kind, d>>}
          /\ UNCHANGED <<adCount, rewarded>>
    BY <2>0
  <2>2. PICK n \in Nat :
          /\ \A i \in 1..n : ledger'[i] = ledger[i] /\ DateOf(i)' = DateOf(i)
          /\ ledger'[n + 1].type = kind
          /\ DateOf(n + 1)' = IF kind = "attendance" THEN ref.date ELSE ref
          /\ \A types : /\ Entries(types) \subseteq 1..n
                        /\ Entries(types)' = Entries(types) \cup
                               (IF kind \in types THEN {n + 1} ELSE {})
    BY <2>1, EarlierRows
  <2>3. DateOf(n + 1)' = d
    BY <2>1, <2>2
  <2>4. /\ Entries(RewardKinds)' = Entries(RewardKinds) \cup {n + 1}
        /\ Entries(DailyKinds)' = Entries(DailyKinds) \cup {n + 1}
        /\ Entries({"ad_reward"})' = Entries({"ad_reward"})
        /\ Entries(RewardKinds) \subseteq 1..n /\ Entries(DailyKinds) \subseteq 1..n
        /\ Entries({"ad_reward"}) \subseteq 1..n
    BY <2>2 DEF DailyKinds, RewardKinds
  <2>5. \A i \in Entries(DailyKinds) : DateOf(i) <= d
    BY <2>1, NothingLater DEF Claimable
  <2>6. \A i \in Entries(RewardKinds) : ~(ledger[i].type = kind /\ DateOf(i) = d)
    BY <2>1 DEF DaysRewarded, Claimable
  <2>7. \A i \in Entries(RewardKinds)' : <<ledger'[i].type, DateOf(i)'>> \in claimed'
    BY <2>1, <2>2, <2>3, <2>4 DEF DaysRewarded
  <2>8. \A i \in Entries({"ad_reward"})' : DateOf(i)' \in Dates /\ adCount'[DateOf(i)'] > 0
    BY <2>1, <2>2, <2>4 DEF DaysRewarded
  <2>9. ASSUME NEW i \in Entries(RewardKinds)', NEW j \in Entries(RewardKinds)',
               ledger'[i].type = ledger'[j].type, DateOf(i)' = DateOf(j)'
        PROVE  i = j
    BY <2>2, <2>3, <2>4, <2>6, <2>9 DEF DaysRewarded
  <2>10. ASSUME NEW i \in Entries(DailyKinds)', NEW j \in Entries(DailyKinds)', i < j
         PROVE  DateOf(i)' <= DateOf(j)'
    BY <2>2, <2>3, <2>4, <2>5, <2>10 DEF DaysRewarded
  <2>11. QED
    BY <2>7, <2>8, <2>9, <2>10 DEF DaysRewarded
<1>2. ASSUME NEW r \in script, Grants(r)
      PROVE  DaysRewarded'
  <2>1. PICK d \in Dates :
          /\ AdsLeft(d) /\ Book(r, "ad_reward", 20, d)
          /\ adCount' = [adCount EXCEPT ![d] = @ + 1]
          /\ UNCHANGED <<claimed, rewarded>>
    BY <1>2 DEF Grants
  <2>2. PICK n \in Nat :
          /\ \A i \in 1..n : ledger'[i] = ledger[i] /\ DateOf(i)' = DateOf(i)
          /\ DateOf(n + 1)' = d
          /\ \A types : /\ Entries(types) \subseteq 1..n
                        /\ Entries(types)' = Entries(types) \cup
                               (IF "ad_reward" \in types THEN {n + 1} ELSE {})
    BY <2>1, EarlierRows
  <2>3. /\ Entries(RewardKinds)' = Entries(RewardKinds)
        /\ Entries(DailyKinds)' = Entries(DailyKinds) \cup {n + 1}
        /\ Entries({"ad_reward"})' = Entries({"ad_reward"}) \cup {n + 1}
        /\ Entries(RewardKinds) \subseteq 1..n /\ Entries(DailyKinds) \subseteq 1..n
        /\ Entries({"ad_reward"}) \subseteq 1..n
    BY <2>2 DEF DailyKinds, RewardKinds
  <2>4. \A i \in Entries(DailyKinds) : DateOf(i) <= d
    BY <2>1, NothingLater DEF AdsLeft
  <2>5. adCount'[d] > 0 /\ \A e \in Dates : adCount[e] > 0 => adCount'[e] > 0
    BY <2>1 DEF Typed, RowsTyped
  <2>6. \A i \in Entries(RewardKinds)' : <<ledger'[i].type, DateOf(i)'>> \in claimed'
    BY <2>1, <2>2, <2>3 DEF DaysRewarded
  <2>7. \A i \in Entries({"ad_reward"})' : DateOf(i)' \in Dates /\ adCount'[DateOf(i)'] > 0
    BY <2>2, <2>3, <2>5 DEF DaysRewarded
  <2>8. ASSUME NEW i \in Entries(RewardKinds)', NEW j \in Entries(RewardKinds)',
               ledger'[i].type = ledger'[j].type, DateOf(i)' = DateOf(j)'
        PROVE  i = j
    BY <2>2, <2>3, <2>8 DEF DaysRewarded
  <2>9. ASSUME NEW i \in Entries(DailyKinds)', NEW j \in Entries(DailyKinds)', i < j
        PROVE  DateOf(i)' <= DateOf(j)'
    BY <2>2, <2>3, <2>4, <2>9 DEF DaysRewarded
  <2>10. QED
    BY <2>6, <2>7, <2>8, <2>9 DEF DaysRewarded
<1>3. ASSUME NEW r \in script, Reads(r) \/ Pays(r)
      PROVE  DaysRewarded'
  <2>1. PICK type, amount, ref :
          /\ type \in {"article_reward", "shop_purchase", "training_reward"}
          /\ Book(r, type, amount, ref) /\ UNCHANGED <<claimed, adCount>>
    BY <1>3 DEF Reads, Pays
  <2>2. PICK n \in Nat :
          /\ \A i \in 1..n : ledger'[i] = ledger[i] /\ DateOf(i)' = DateOf(i)
          /\ \A types : /\ Entries(types) \subseteq 1..n
                        /\ Entries(types)' = Entries(types) \cup
                               (IF type \in types THEN {n + 1} ELSE {})
    BY <2>1, EarlierRows
  <2>3. \A types \in {RewardKinds, DailyKinds, {"ad_reward"}} :
          Entries(types)' = Entries(types) /\ Entries(types) \subseteq 1..n
    <3>1. type \notin RewardKinds /\ type \notin DailyKinds /\ type \notin {"ad_reward"}
      BY <2>1 DEF DailyKinds, RewardKinds
    <3>2. QED
      BY <2>2, <3>1
  <2>4. QED
    BY <2>1, <2>2, <2>3 DEF DaysRewarded
<1>4. CASE UNCHANGED <<ledger, claimed, adCount, rewarded>>
  BY <1>4 DEF DaysRewarded, Entries, DateOf
<1>5. QED
  BY <1>1, <1>2, <1>3, <1>4, RewardSteps

LEMMA AdsStep ==
    ASSUME Typed, AdsCounted, [TrainingNext]_<<vars, trainingVars>>
    PROVE  AdsCounted'
<1>1. ASSUME NEW r \in script, Grants(r)
      PROVE  AdsCounted'
  <2>1. PICK d \in Dates :
          /\ AdsLeft(d) /\ Book(r, "ad_reward", 20, d)
          /\ adCount' = [adCount EXCEPT ![d] = @ + 1]
    BY <1>1 DEF Grants
  <2>2. ASSUME NEW e \in Dates
        PROVE  /\ adCount'[e] <= AdLimit
               /\ Cardinality(About("ad_reward", e)') = adCount'[e]
    <3>1. Cardinality(About("ad_reward", e)') =
              Cardinality(About("ad_reward", e)) + IF e = d THEN 1 ELSE 0
      BY <2>1, AboutBooked
    <3>2. adCount'[e] = adCount[e] + IF e = d THEN 1 ELSE 0
      BY <2>1 DEF Typed, RowsTyped
    <3>3. adCount[e] \in Nat /\ adCount[d] \in Nat
      BY DEF Typed, RowsTyped
    <3>4. QED
      BY <2>1, <3>1, <3>2, <3>3, NumberAssumption DEF AdsCounted, AdsLeft
  <2>3. QED
    BY <2>2 DEF AdsCounted
<1>2. ASSUME NEW r \in script, Claims(r) \/ Reads(r) \/ Pays(r)
      PROVE  AdsCounted'
  <2>1. PICK type, amount, ref : /\ Book(r, type, amount, ref) /\ type # "ad_reward"
                                 /\ UNCHANGED adCount
    BY <1>2 DEF Claims, Reads, Pays, RewardKinds
  <2>2. ASSUME NEW e \in Dates
        PROVE  Cardinality(About("ad_reward", e)') = Cardinality(About("ad_reward", e))
    BY <2>1, AboutBooked, AboutFinite
  <2>3. QED
    BY <2>1, <2>2 DEF AdsCounted
<1>3. CASE UNCHANGED <<ledger, claimed, adCount, rewarded>>
  BY <1>3 DEF AdsCounted, About, Entries
<1>4. QED
  BY <1>1, <1>2, <1>3, RewardSteps

LEMMA ArticlesStep ==
    ASSUME Typed, ArticlesRewarded, [TrainingNext]_<<vars, trainingVars>>
    PROVE  ArticlesRewarded'
<1>1. ASSUME NEW r \in script, NEW type, NEW amount, NEW ref, Book(r, type, amount, ref),
             type = "article_reward" => ref \notin rewarded /\ ref \in rewarded',
             rewarded \subseteq rewarded'
      PROVE  ArticlesRewarded'
  <2>1. PICK n \in Nat :
          /\ \A i \in 1..n : ledger'[i] = ledger[i]
          /\ ledger'[n + 1].ref = ref
          /\ Entries({"article_reward"}) \subseteq 1..n
          /\ Entries({"article_reward"})' = Entries({"article_reward"}) \cup
                 (IF type = "article_reward" THEN {n + 1} ELSE {})
    BY <1>1, EarlierRows
  <2>2. QED
    BY <1>1, <2>1 DEF ArticlesRewarded
<1>2. ASSUME NEW r \in script, Claims(r) \/ Grants(r) \/ Pays(r)
      PROVE  ArticlesRewarded'
  <2>1. PICK type, amount, ref : /\ Book(r, type, amount, ref) /\ type # "article_reward"
                                 /\ UNCHANGED rewarded
    BY <1>2 DEF Claims, Grants, Pays, RewardKinds
  <2>2. QED
    BY <1>1, <2>1
<1>3. ASSUME NEW r \in script, Reads(r)
      PROVE  ArticlesRewarded'
  BY <1>1, <1>3 DEF Reads
<1>4. CASE UNCHANGED <<ledger, claimed, adCount, rewarded>>
  BY <1>4 DEF ArticlesRewarded, Entries
<1>5. QED
  BY <1>2, <1>3, <1>4, RewardSteps

LEMMA RewardsHold ==
    ASSUME Typed, DaysRewarded, AdsCounted, ArticlesRewarded
    PROVE  RewardsForward
<1>1. ASSUME NEW d \in Dates
      PROVE  Cardinality({i \in Entries({"ad_reward"}) : DateOf(i) = d}) <= AdLimit
  <2>1. {i \in Entries({"ad_reward"}) : DateOf(i) = d} = About("ad_reward", d)
    BY DEF About, Entries, DateOf
  <2>2. QED
    BY <2>1 DEF AdsCounted
<1>2. QED
  BY <1>1 DEF RewardsForward, DaysRewarded, ArticlesRewarded, DailyKinds

-----------------------------------------------------------------------------
(* The shop.                                                                *)

\* Which bookings the requests make that are no answers.
LEMMA ServeTypes ==
    ASSUME Typed, NEW r \in script, Serve(r)
    PROVE  \/ UNCHANGED ledger
           \/ \E type \in RewardKinds \cup {"ad_reward", "article_reward"} :
                 \E amount, ref : Book(r, type, amount, ref)
           \/ PurchaseWithKey(r) \/ PurchaseWithoutKey(r)
<1>1. CASE ClaimGoalReward(r)
  <2>1. Book(r, r.kind, 20, Today(r)) /\ r.kind \in RewardKinds
    BY <1>1 DEF ClaimGoalReward, RewardKinds
  <2>2. QED
    BY <2>1
<1>2. CASE ClaimAttendance(r) \/ CheckIn(r)
  <2>1. UNCHANGED ledger \/ \E s : BookAttendance(r, s)
    BY <1>2 DEF ClaimAttendance, CheckIn
  <2>2. ASSUME NEW s, BookAttendance(r, s)
        PROVE  \E amount, ref : Book(r, "attendance", amount, ref)
    BY <2>2 DEF BookAttendance
  <2>3. QED
    BY <2>1, <2>2 DEF RewardKinds
<1>3. CASE GrantFromSsv(r)
  <2>1. Book(r, "ad_reward", 20, ads[r.session].date)
    BY <1>3 DEF GrantFromSsv
  <2>2. QED
    BY <2>1
<1>4. CASE RecordArticle(r)
  BY <1>4 DEF RecordArticle
<1>5. QED
  BY <1>1, <1>2, <1>3, <1>4 DEF Serve, LoadProfile, GiveUp, CreateAdSession,
     ReadAdSession, CheckPurchase, PutEquipment, rows

LEMMA PaidStep ==
    ASSUME Typed, PaidForOwned, [TrainingNext]_<<vars, trainingVars>>
    PROVE  PaidForOwned'
<1> DEFINE Count(p) == Cardinality(About("shop_purchase", p))
<1>0. /\ PaidForOwned <=> \A p \in Products : Count(p) = IF Owned(p) THEN 1 ELSE 0
      /\ PaidForOwned' <=> \A p \in Products : Count(p)' = IF Owned(p)' THEN 1 ELSE 0
  BY DEF PaidForOwned, About
<1>1. ASSUME NEW r \in script, PurchaseWithKey(r) \/ PurchaseWithoutKey(r)
      PROVE  PaidForOwned'
  <2>1. /\ Book(r, "shop_purchase", -Price, r.product)
        /\ items' = [items EXCEPT ![r.product] = "purchase"]
        /\ ~Owned(r.product)
    BY <1>1 DEF PurchaseWithKey, PurchaseWithoutKey, Sell
  <2>2. ASSUME NEW p \in Products
        PROVE  Count(p)' = IF Owned(p)' THEN 1 ELSE 0
    <3>1. Count(p)' = Count(p) + IF p = r.product THEN 1 ELSE 0
      BY <2>1, AboutBooked
    <3>2. Owned(p)' <=> p = r.product \/ Owned(p)
      BY <2>1 DEF Owned, Typed, RowsTyped
    <3>3. QED
      BY <1>0, <2>1, <3>1, <3>2
  <2>3. QED
    BY <1>0, <2>2
<1>2. ASSUME UNCHANGED ledger, \A p \in Products : Owned(p)' = Owned(p)
      PROVE  PaidForOwned'
  BY <1>2 DEF PaidForOwned, Entries
<1>3. ASSUME NEW r \in script, NEW type, NEW amount, NEW ref, Book(r, type, amount, ref),
             type # "shop_purchase", UNCHANGED items
      PROVE  PaidForOwned'
  <2>1. ASSUME NEW p \in Products
        PROVE  Count(p)' = Count(p) /\ Owned(p)' = Owned(p)
    BY <1>3, AboutBooked, AboutFinite DEF Owned
  <2>2. QED
    BY <1>0, <2>1
<1>4. ASSUME NEW r \in script, PutEquipment(r)
      PROVE  PaidForOwned'
  <2>1. UNCHANGED ledger
    BY <1>4 DEF PutEquipment
  <2>2. ASSUME NEW p \in Products
        PROVE  Owned(p)' = Owned(p)
    BY <1>4 DEF PutEquipment, Unequipped, Owned, Typed, RowsTyped
  <2>3. QED
    BY <1>2, <2>1, <2>2
<1>5. ASSUME NEW r \in script, Serve(r),
             ~(PurchaseWithKey(r) \/ PurchaseWithoutKey(r)), ~PutEquipment(r)
      PROVE  PaidForOwned'
  <2>1. UNCHANGED items
    BY <1>5 DEF Serve, LoadProfile, GiveUp, ClaimGoalReward, ClaimAttendance, CheckIn,
       CreateAdSession, ReadAdSession, GrantFromSsv, RecordArticle, CheckPurchase, rows
  <2>2. \/ UNCHANGED ledger
        \/ \E type, amount, ref : Book(r, type, amount, ref) /\ type # "shop_purchase"
    BY <1>5, ServeTypes DEF RewardKinds
  <2>3. QED
    BY <1>2, <1>3, <2>1, <2>2 DEF Owned
<1>6. ASSUME NEW r \in script, Submission(r)
      PROVE  PaidForOwned'
  <2>1. SubmissionFrame(r)
    BY <1>6, SubmissionFrames
  <2>2. QED
    BY <1>2, <1>3, <2>1 DEF SubmissionFrame, Owned
<1>7. CASE World \/ UNCHANGED vars
  BY <1>2, <1>7 DEF World, AdSessionAges, CleanupExpiredSessions, DayPasses,
     ChangeTimezone, vars, rows, Owned
<1>8. QED
  BY <1>1, <1>4, <1>5, <1>6, <1>7, StepCases DEF LeaseExpires, TimePasses

-----------------------------------------------------------------------------
(* Trainings: whole hours.                                                  *)

LEMMA QuotientType ==
    ASSUME NEW a \in Nat, NEW d \in Nat \ {0}
    PROVE  a \div d \in Nat /\ d * (a \div d) <= a
OBVIOUS

LEMMA QuotientPlus ==
    ASSUME NEW a \in Nat, NEW d \in Nat \ {0}, NEW g \in Nat
    PROVE  (a + d * g) \div d = (a \div d) + g
OBVIOUS

LEMMA QuotientMonotone ==
    ASSUME NEW a \in Nat, NEW b \in Nat, NEW d \in Nat \ {0}, a <= b
    PROVE  a \div d <= b \div d
OBVIOUS

-----------------------------------------------------------------------------
TrainingTyped ==
    /\ nextStage \in 1..(Stages + 1) /\ time \in Nat
    /\ tries \in TryRows \cup {None}
    /\ tries # None => tries.from <= time /\ tries.left < MaxTries
    /\ receipts \in [Ids -> Receipts \cup {None}]
    /\ granted \subseteq 1..Stages

Retries == Cardinality(Judged("retry"))

\* A try that was used is missing until it comes back, one per RefillEvery.
TriesCounted ==
    /\ IsFiniteSet(Judged("retry"))
    /\ tries = None => Retries = 0
    /\ tries # None => /\ tries.left + Retries >= MaxTries
                       /\ tries.left + Retries <= MaxTries + tries.from \div RefillEvery

StagesPassed ==
    /\ IsFiniteSet(Judged("passed"))
    /\ answers = 1..(nextStage - 1)
    /\ Cardinality(Judged("passed")) = nextStage - 1
    /\ granted = answers \cap ReviewPoints
    /\ \A s \in 1..Stages :
          Cardinality(About("training_reward", s)) = IF s \in granted THEN 1 ELSE 0

\* What settling makes of the row: no tries are missing, and so many hours have
\* passed, or some came back and the rest of the hour stays.
LEMMA SettledTries ==
    ASSUME TrainingTyped, tries # None
    PROVE  \/ /\ Settled = Full
              /\ MaxTries - tries.left <= time \div RefillEvery - tries.from \div RefillEvery
           \/ \E g \in Nat :
                 /\ Settled = [left |-> tries.left + g, from |-> tries.from + RefillEvery * g]
                 /\ Settled # Full
                 /\ tries.left + g < MaxTries
                 /\ tries.from + RefillEvery * g <= time
                 /\ (tries.from + RefillEvery * g) \div RefillEvery
                        = tries.from \div RefillEvery + g
<1> DEFINE g == (time - tries.from) \div RefillEvery
<1>1. /\ tries.left \in Nat /\ tries.from \in Nat /\ time \in Nat /\ tries.from <= time
      /\ MaxTries \in Nat /\ RefillEvery \in Nat \ {0}
  BY TrainingAssumption DEF TrainingTyped, TryRows
<1>2. tries # Full
  <2>1. Full.from = None /\ tries.from # None
    BY <1>1, NoneAssumption DEF Full
  <2>2. QED
    BY <2>1
<1>3. time - tries.from \in Nat
  BY <1>1
<1>4. g \in Nat /\ RefillEvery * g <= time - tries.from
  BY <1>1, <1>3, QuotientType
<1>5. Settled = IF tries.left + g >= MaxTries THEN Full
                ELSE [left |-> tries.left + g, from |-> tries.from + RefillEvery * g]
  BY <1>2 DEF Settled
<1> HIDE DEF g
<1>6. RefillEvery * g \in Nat
  BY <1>1, <1>4
<1>7. /\ tries.from + RefillEvery * g \in Nat /\ tries.from + RefillEvery * g <= time
      /\ (tries.from + RefillEvery * g) \div RefillEvery = tries.from \div RefillEvery + g
  <2>1. (tries.from + RefillEvery * g) \div RefillEvery = tries.from \div RefillEvery + g
    BY <1>1, <1>4, QuotientPlus
  <2>2. QED
    BY <1>1, <1>4, <1>6, <2>1
<1>8. CASE tries.left + g >= MaxTries
  <2>1. tries.from \div RefillEvery + g <= time \div RefillEvery
    BY <1>1, <1>7, QuotientMonotone
  <2>2. tries.from \div RefillEvery \in Nat /\ time \div RefillEvery \in Nat
    BY <1>1, QuotientType
  <2>3. QED
    BY <1>1, <1>4, <1>5, <1>8, <2>1, <2>2
<1>9. CASE tries.left + g < MaxTries
  <2>1. Settled = [left |-> tries.left + g, from |-> tries.from + RefillEvery * g]
    BY <1>1, <1>4, <1>5, <1>9
  <2>2. Settled # Full
    <3>1. Settled.from # None
      BY <1>7, <2>1, NoneAssumption
    <3>2. QED
      BY <3>1 DEF Full
  <2>3. QED
    BY <1>4, <1>7, <1>9, <2>1, <2>2
<1>10. QED
  BY <1>1, <1>4, <1>8, <1>9

LEMMA SettledUntouched == tries = None => Settled = Full
BY DEF Settled

\* How many tries are left, and that so many were used.
LEMMA TriesLeft ==
    ASSUME TrainingTyped, TriesCounted
    PROVE  /\ Retries \in Nat
           /\ Retries <= MaxTries + time \div RefillEvery
           /\ Settled.left \in (MaxTries - Retries)..MaxTries
<1>1. Retries \in Nat
  BY FS_CardinalityType DEF TriesCounted, Retries
<1>2. /\ MaxTries \in Nat /\ RefillEvery \in Nat \ {0} /\ time \in Nat
      /\ time \div RefillEvery \in Nat
  BY TrainingAssumption, QuotientType DEF TrainingTyped
<1>3. Full.left = MaxTries
  BY DEF Full
<1>4. CASE tries = None
  BY <1>1, <1>2, <1>3, <1>4, SettledUntouched DEF TriesCounted
<1>5. CASE tries # None
  <2>1. /\ tries.left \in Nat /\ tries.from \in Nat
        /\ tries.from \div RefillEvery \in Nat
        /\ tries.from \div RefillEvery <= time \div RefillEvery
    BY <1>2, <1>5, QuotientType, QuotientMonotone DEF TrainingTyped, TryRows
  <2>2. /\ tries.left + Retries >= MaxTries
        /\ tries.left + Retries <= MaxTries + tries.from \div RefillEvery
    BY <1>5 DEF TriesCounted
  <2>3. Settled.left = MaxTries \/ \E g \in Nat : Settled.left = tries.left + g /\ Settled.left < MaxTries
    BY <1>3, <1>5, SettledTries
  <2>4. QED
    BY <1>1, <1>2, <2>1, <2>2, <2>3
<1>6. QED
  BY <1>4, <1>5

\* One more wrong answer costs one try.
LEMMA SpendCounted ==
    ASSUME TrainingTyped, TriesCounted, Settled.left > 0
    PROVE  /\ Spent \in TryRows /\ Spent # None
           /\ Spent.from <= time /\ Spent.left < MaxTries
           /\ Spent.left + (Retries + 1) >= MaxTries
           /\ Spent.left + (Retries + 1) <= MaxTries + Spent.from \div RefillEvery
<1>1. /\ MaxTries \in Nat /\ RefillEvery \in Nat \ {0} /\ time \in Nat
      /\ time \div RefillEvery \in Nat /\ Retries \in Nat
  BY TrainingAssumption, QuotientType, TriesLeft DEF TrainingTyped
<1>2. Full.left = MaxTries
  BY DEF Full
<1>3. /\ Spent.left = Settled.left - 1
      /\ Spent.from = IF Settled = Full THEN time ELSE Settled.from
      /\ Spent = [left |-> Spent.left, from |-> Spent.from]
  BY DEF Spent
<1>4. CASE tries = None
  <2>1. Spent.left = MaxTries - 1 /\ Spent.from = time /\ Retries = 0
    BY <1>2, <1>3, <1>4, SettledUntouched DEF TriesCounted
  <2>2. QED
    BY <1>1, <1>2, <1>3, <1>4, <2>1, SettledUntouched, NoneAssumption DEF TryRows
<1>5. CASE tries # None
  <2>1. /\ tries.left \in Nat /\ tries.from \in Nat
        /\ tries.from \div RefillEvery \in Nat
    BY <1>1, <1>5, QuotientType DEF TrainingTyped, TryRows
  <2>2. /\ tries.left + Retries >= MaxTries
        /\ tries.left + Retries <= MaxTries + tries.from \div RefillEvery
    BY <1>5 DEF TriesCounted
  <2>3. CASE /\ Settled = Full
             /\ MaxTries - tries.left <= time \div RefillEvery - tries.from \div RefillEvery
    <3>1. Spent.left = MaxTries - 1 /\ Spent.from = time
      BY <1>2, <1>3, <2>3
    <3>2. Spent \in TryRows
      BY <1>1, <1>2, <1>3, <2>3, <3>1 DEF TryRows
    <3>3. QED
      BY <1>1, <2>1, <2>2, <2>3, <3>1, <3>2, NoneAssumption
  <2>4. CASE Settled # Full
    <3>1. PICK g \in Nat :
            /\ Settled = [left |-> tries.left + g, from |-> tries.from + RefillEvery * g]
            /\ tries.left + g < MaxTries
            /\ tries.from + RefillEvery * g <= time
            /\ (tries.from + RefillEvery * g) \div RefillEvery
                   = tries.from \div RefillEvery + g
      BY <1>5, <2>4, SettledTries
    <3>2. Spent.left = tries.left + g - 1 /\ Spent.from = tries.from + RefillEvery * g
      BY <1>3, <2>1, <2>4, <3>1
    <3>3. tries.from + RefillEvery * g \in Nat /\ tries.left + g > 0
      BY <1>1, <2>1, <3>1
    <3>4. Spent \in TryRows
      BY <1>1, <1>3, <2>1, <3>2, <3>3 DEF TryRows
    <3>5. QED
      BY <1>1, <2>1, <2>2, <3>1, <3>2, <3>3, <3>4, NoneAssumption
  <2>5. QED
    BY <1>5, <2>3, <2>4, SettledTries
<1>6. QED
  BY <1>4, <1>5
-----------------------------------------------------------------------------
(* What the steps of a training do to its receipts.                         *)

Verdicts == {"passed", "retry"}

Answered(r, passed) ==
    /\ r.kind \in {"pick", "write"}
    /\ Result(r.id) = None /\ Current(r)
    /\ passed \/ Settled.left > 0
    /\ Record(r, passed)

LEMMA SubmissionCases ==
    ASSUME Typed, NEW r \in script, Submission(r)
    PROVE  Reserve(r) \/ \E passed \in BOOLEAN : Answered(r, passed)
<1>1. r \in Requests
  BY ScriptRequests DEF Typed
<1>2. QED
  BY <1>1 DEF Submission, SubmitPick, SubmitWrite, Answered, Typed, RequestsTyped

\* A receipt that is replaced changes the verdict of its id only.
LEMMA ReceiptReplaced ==
    ASSUME TrainingTyped, NEW id \in Ids, NEW row \in Receipts,
           Result(id) = None, receipts' = [receipts EXCEPT ![id] = row]
    PROVE  /\ receipts' \in [Ids -> Receipts \cup {None}]
           /\ \A v \in Verdicts :
                 /\ id \notin Judged(v)
                 /\ Judged(v)' = Judged(v) \cup (IF row.result = v THEN {id} ELSE {})
<1>1. receipts' \in [Ids -> Receipts \cup {None}]
  BY DEF TrainingTyped
<1>2. Result(id)' = row.result
  BY NoneAssumption DEF Result, TrainingTyped
<1>3. \A i \in Ids \ {id} : Result(i)' = Result(i)
  BY DEF Result, TrainingTyped
<1>4. \A v \in Verdicts : v # None
  BY NoneAssumption DEF Verdicts
<1>5. QED
  BY <1>1, <1>2, <1>3, <1>4 DEF Judged

LEMMA AnswerReceipt ==
    ASSUME Typed, TrainingTyped, NEW r \in script, NEW passed \in BOOLEAN, Answered(r, passed)
    PROVE  /\ receipts' \in [Ids -> Receipts \cup {None}]
           /\ \A v \in Verdicts :
                 /\ r.id \notin Judged(v)
                 /\ Judged(v)' = Judged(v) \cup
                       (IF v = (IF passed THEN "passed" ELSE "retry") THEN {r.id} ELSE {})
<1> DEFINE row == [token  |-> IF receipts[r.id] = None THEN r ELSE receipts[r.id].token,
                   live   |-> TRUE,
                   result |-> IF passed THEN "passed" ELSE "retry"]
<1>1. r \in Requests
  BY ScriptRequests DEF Typed
<1>2. r.id \in Ids /\ Result(r.id) = None
  BY <1>1, SubmissionAssumption DEF Answered
<1>3. row \in Receipts
  BY <1>1, <1>2 DEF Receipts, TrainingTyped
<1>4. receipts' = [receipts EXCEPT ![r.id] = row]
  BY DEF Answered, Record
<1>5. row.result = IF passed THEN "passed" ELSE "retry"
  OBVIOUS
<1> HIDE DEF row
<1>6. QED
  BY <1>2, <1>3, <1>4, <1>5, ReceiptReplaced

\* A reservation and a lease that runs out judge nothing.
LEMMA NothingJudged ==
    ASSUME Typed, TrainingTyped,
           \/ \E r \in script : Reserve(r)
           \/ \E id \in Ids : LeaseExpires(id)
    PROVE  /\ receipts' \in [Ids -> Receipts \cup {None}]
           /\ \A v \in Verdicts : Judged(v)' = Judged(v)
<1>0. None \notin Verdicts
  BY NoneAssumption DEF Verdicts
<1>1. ASSUME NEW r \in script, Reserve(r)
      PROVE  /\ receipts' \in [Ids -> Receipts \cup {None}]
             /\ \A v \in Verdicts : Judged(v)' = Judged(v)
  <2> DEFINE row == [token |-> r, live |-> TRUE, result |-> None]
  <2>1. r \in Requests
    BY ScriptRequests DEF Typed
  <2>2. r.id \in Ids /\ Result(r.id) = None
    BY <1>1, <2>1, SubmissionAssumption DEF Reserve
  <2>3. row \in Receipts /\ row.result = None
    BY <2>1 DEF Receipts
  <2>4. receipts' = [receipts EXCEPT ![r.id] = row]
    BY <1>1 DEF Reserve
  <2> HIDE DEF row
  <2>5. /\ receipts' \in [Ids -> Receipts \cup {None}]
        /\ \A v \in Verdicts :
              Judged(v)' = Judged(v) \cup (IF row.result = v THEN {r.id} ELSE {})
    BY <2>2, <2>3, <2>4, ReceiptReplaced
  <2>6. \A v \in Verdicts : row.result # v
    BY <1>0, <2>3
  <2>7. QED
    BY <2>5, <2>6
<1>2. ASSUME NEW id \in Ids, LeaseExpires(id)
      PROVE  /\ receipts' \in [Ids -> Receipts \cup {None}]
             /\ \A v \in Verdicts : Judged(v)' = Judged(v)
  <2> DEFINE row == [receipts[id] EXCEPT !.live = FALSE]
  <2>1. receipts[id] \in Receipts /\ receipts[id].result = None
    BY <1>2 DEF LeaseExpires, TrainingTyped
  <2>2. row \in Receipts /\ row.result = None /\ Result(id) = None
    BY <2>1 DEF Receipts, Result
  <2>3. receipts' = [receipts EXCEPT ![id] = row]
    BY <1>2 DEF LeaseExpires
  <2> HIDE DEF row
  <2>4. /\ receipts' \in [Ids -> Receipts \cup {None}]
        /\ \A v \in Verdicts :
              Judged(v)' = Judged(v) \cup (IF row.result = v THEN {id} ELSE {})
    BY <2>2, <2>3, ReceiptReplaced
  <2>5. \A v \in Verdicts : row.result # v
    BY <1>0, <2>2
  <2>6. QED
    BY <2>4, <2>5
<1>3. QED
  BY <1>1, <1>2

-----------------------------------------------------------------------------
(* Tries and stages.                                                        *)

TrainingInv ==
    /\ TrainingTyped
    /\ TriesCounted
    /\ StagesPassed

LEMMA PassKeeps ==
    ASSUME Typed, TrainingInv, NEW r \in script, Answered(r, TRUE)
    PROVE  TrainingInv'
<1>1. /\ r \in Requests /\ r.stage = nextStage /\ r.stage \in 1..Stages
      /\ Pass(r) /\ UNCHANGED <<time, tries>>
  BY ScriptRequests, SubmissionAssumption DEF Typed, Answered, Record, Current, Pass
<1>2. /\ receipts' \in [Ids -> Receipts \cup {None}]
      /\ r.id \notin Judged("passed")
      /\ Judged("passed")' = Judged("passed") \cup {r.id}
      /\ Judged("retry")' = Judged("retry")
  BY AnswerReceipt DEF TrainingInv, Verdicts
<1>3. /\ Stages \in Nat /\ ReviewPoints \subseteq 1..Stages
      /\ granted \subseteq 1..Stages /\ answers = 1..(nextStage - 1)
      /\ granted = answers \cap ReviewPoints
  BY TrainingAssumption DEF TrainingInv, TrainingTyped, StagesPassed
<1>4. /\ nextStage' = nextStage + 1 /\ answers' = answers \cup {nextStage}
      /\ answers' = 1..(nextStage' - 1)
  BY <1>1, <1>3 DEF Pass
<1>5. nextStage \notin granted
  BY <1>1, <1>3
<1>6. granted' = answers' \cap ReviewPoints
  BY <1>1, <1>3, <1>4, <1>5 DEF Pass
<1>7. TrainingTyped'
  BY <1>1, <1>2, <1>3, <1>4, <1>6 DEF TrainingInv, TrainingTyped
<1>8. TriesCounted'
  BY <1>1, <1>2 DEF TrainingInv, TriesCounted, Retries
<1>9. /\ IsFiniteSet(Judged("passed")')
      /\ Cardinality(Judged("passed")') = nextStage' - 1
  <2>1. IsFiniteSet(Judged("passed")) /\ Cardinality(Judged("passed")) = nextStage - 1
    BY DEF TrainingInv, StagesPassed
  <2>2. /\ IsFiniteSet(Judged("passed") \cup {r.id})
        /\ Cardinality(Judged("passed") \cup {r.id}) = nextStage - 1 + 1
    BY <1>2, <2>1, FS_AddElement
  <2>3. nextStage \in Nat
    BY <1>1, <1>3
  <2>4. nextStage' = nextStage - 1 + 1 + 1
    BY <1>4, <2>3
  <2>5. nextStage - 1 + 1 = nextStage' - 1
    BY <2>3, <2>4
  <2>6. IsFiniteSet(Judged("passed")')
    BY <1>2, <2>2
  <2>7. Cardinality(Judged("passed")') = nextStage' - 1
    BY <1>2, <2>2, <2>5
  <2>8. QED
    BY <2>6, <2>7
<1>10. ASSUME NEW s \in 1..Stages
       PROVE  Cardinality(About("training_reward", s))' = IF s \in granted' THEN 1 ELSE 0
  <2>1. Cardinality(About("training_reward", s)) = IF s \in granted THEN 1 ELSE 0
    BY DEF TrainingInv, StagesPassed
  <2>2. CASE nextStage \in ReviewPoints
    <3>1. /\ Book(r, "training_reward", 30, nextStage)
          /\ granted' = granted \cup {nextStage}
      BY <1>1, <1>5, <2>2 DEF Pass
    <3>2. Cardinality(About("training_reward", s)') =
              Cardinality(About("training_reward", s)) + IF s = nextStage THEN 1 ELSE 0
      BY <3>1, AboutBooked
    <3>3. QED
      BY <1>5, <2>1, <3>1, <3>2
  <2>3. CASE nextStage \notin ReviewPoints
    <3>1. UNCHANGED <<ledger, granted>>
      BY <1>1, <2>3 DEF Pass
    <3>2. QED
      BY <2>1, <3>1 DEF About, Entries
  <2>4. QED
    BY <2>2, <2>3
<1>11. QED
  BY <1>4, <1>6, <1>7, <1>8, <1>9, <1>10 DEF TrainingInv, StagesPassed

LEMMA RetryKeeps ==
    ASSUME Typed, TrainingInv, NEW r \in script, Answered(r, FALSE)
    PROVE  TrainingInv'
<1>1. /\ Settled.left > 0 /\ tries' = Spent
      /\ UNCHANGED <<answers, nextStage, granted, ledger, time>>
  BY DEF Answered, Record, Retry
<1>2. /\ receipts' \in [Ids -> Receipts \cup {None}]
      /\ r.id \notin Judged("retry")
      /\ Judged("retry")' = Judged("retry") \cup {r.id}
      /\ Judged("passed")' = Judged("passed")
  BY AnswerReceipt DEF TrainingInv, Verdicts
<1>3. IsFiniteSet(Judged("retry"))' /\ Retries' = Retries + 1
  BY <1>2, FS_AddElement DEF TrainingInv, TriesCounted, Retries
<1>4. /\ Spent \in TryRows /\ Spent # None
      /\ Spent.from <= time /\ Spent.left < MaxTries
      /\ Spent.left + (Retries + 1) >= MaxTries
      /\ Spent.left + (Retries + 1) <= MaxTries + Spent.from \div RefillEvery
  BY <1>1, SpendCounted DEF TrainingInv
<1>5. TrainingTyped'
  BY <1>1, <1>2, <1>4 DEF TrainingInv, TrainingTyped
<1>6. TriesCounted'
  BY <1>1, <1>3, <1>4 DEF TriesCounted
<1>7. StagesPassed'
  BY <1>1, <1>2 DEF TrainingInv, StagesPassed, About, Entries
<1>8. QED
  BY <1>5, <1>6, <1>7 DEF TrainingInv

\* No other step books for a stage.
LEMMA StagesUnpaid ==
    ASSUME Typed, NEW x,
           \/ \E r \in script : Serve(r)
           \/ UNCHANGED ledger
    PROVE  Cardinality(About("training_reward", x)') = Cardinality(About("training_reward", x))
<1>1. \/ UNCHANGED ledger
      \/ \E r, type, amount, ref : Book(r, type, amount, ref) /\ type # "training_reward"
  <2>1. ASSUME NEW r, PurchaseWithKey(r) \/ PurchaseWithoutKey(r)
        PROVE  Book(r, "shop_purchase", -Price, r.product)
    BY <2>1 DEF PurchaseWithKey, PurchaseWithoutKey, Sell
  <2>2. QED
    BY <2>1, ServeTypes DEF RewardKinds
<1>2. CASE UNCHANGED ledger
  BY <1>2 DEF About, Entries
<1>3. ASSUME NEW r, NEW type, NEW amount, NEW ref, Book(r, type, amount, ref),
             type # "training_reward"
      PROVE  Cardinality(About("training_reward", x)') = Cardinality(About("training_reward", x))
  BY <1>3, AboutBooked, AboutFinite
<1>4. QED
  BY <1>1, <1>2, <1>3

LEMMA TrainingStep ==
    ASSUME Typed, TrainingInv, [TrainingNext]_<<vars, trainingVars>>
    PROVE  TrainingInv'
<1>1. ASSUME NEW r \in script, Submission(r), ~Reserve(r)
      PROVE  TrainingInv'
  <2>1. PICK passed \in BOOLEAN : Answered(r, passed)
    BY <1>1, SubmissionCases
  <2>2. QED
    BY <2>1, PassKeeps, RetryKeeps
<1>2. CASE (\E r \in script : Reserve(r)) \/ (\E id \in Ids : LeaseExpires(id))
  <2>1. UNCHANGED <<ledger, nextStage, answers, granted, tries, time>>
    BY <1>2 DEF Reserve, LeaseExpires, vars, rows
  <2>2. /\ receipts' \in [Ids -> Receipts \cup {None}]
        /\ Judged("passed")' = Judged("passed") /\ Judged("retry")' = Judged("retry")
    BY <1>2, NothingJudged DEF TrainingInv, Verdicts
  <2>3. QED
    BY <2>1, <2>2 DEF TrainingInv, TrainingTyped, TriesCounted, Retries, StagesPassed,
       About, Entries
<1>3. CASE /\ (\E r \in script : Serve(r)) \/ World \/ UNCHANGED vars
           /\ UNCHANGED trainingRows /\ time' \in {time, time + 1}
  <2>1. \A s \in 1..Stages : Cardinality(About("training_reward", s)')
                                 = Cardinality(About("training_reward", s))
    <3>1. World \/ UNCHANGED vars => UNCHANGED ledger
      BY DEF World, AdSessionAges, CleanupExpiredSessions, DayPasses, ChangeTimezone, vars, rows
    <3>2. QED
      BY <1>3, <3>1, StagesUnpaid
  <2>2. Judged("passed")' = Judged("passed") /\ Judged("retry")' = Judged("retry")
    BY <1>3 DEF trainingRows, Judged, Result
  <2>3. TrainingTyped'
    BY <1>3 DEF trainingRows, TrainingInv, TrainingTyped, TryRows
  <2>4. QED
    BY <1>3, <2>1, <2>2, <2>3 DEF trainingRows, TrainingInv, TriesCounted, Retries, StagesPassed
<1>4. QED
  BY <1>1, <1>2, <1>3, StepCases DEF trainingVars, TimePasses

LEMMA SubmissionsHold ==
    ASSUME Typed, TrainingInv
    PROVE  SubmissionsCount
<1>1. /\ Retries <= MaxTries + time \div RefillEvery
      /\ Settled.left \in (MaxTries - Retries)..MaxTries
  BY TriesLeft DEF TrainingInv
<1>2. Cardinality(answers) = nextStage - 1
  <2>1. nextStage \in Nat /\ nextStage >= 1 /\ answers = 1..(nextStage - 1)
    BY TrainingAssumption DEF TrainingInv, TrainingTyped, StagesPassed
  <2>2. Cardinality(1..(nextStage - 1)) = IF 1 > nextStage - 1 THEN 0 ELSE nextStage - 1 - 1 + 1
    BY <2>1, FS_Interval
  <2>3. QED
    BY <2>1, <2>2
<1>3. QED
  BY <1>1, <1>2 DEF SubmissionsCount, TrainingInv, StagesPassed, Retries, About

-----------------------------------------------------------------------------
EconomyInv ==
    /\ Typed
    /\ DaysRewarded
    /\ AdsCounted
    /\ ArticlesRewarded
    /\ PaidForOwned
    /\ TrainingInv

LEMMA EconomyInit == TrainingInit => EconomyInv
<1> SUFFICES ASSUME TrainingInit PROVE EconomyInv
  OBVIOUS
<1>1. Typed
  BY TypedInit
<1>2. ledger = << >> /\ Len(ledger) = 0 /\ DOMAIN ledger = {}
  BY EmptySeq DEF TrainingInit, Init
<1>3. \A types : Entries(types) = {}
  BY <1>2 DEF Entries
<1>4. Cardinality({}) = 0
  BY FS_EmptySet
<1>6. DaysRewarded /\ ArticlesRewarded
  BY <1>3 DEF DaysRewarded, ArticlesRewarded
<1>7. AdsCounted
  <2>1. \A d \in Dates : About("ad_reward", d) = {} /\ adCount[d] = 0
    BY <1>3 DEF About, TrainingInit, Init
  <2>2. QED
    BY <1>4, <2>1, NumberAssumption DEF AdsCounted
<1>8. PaidForOwned
  <2>1. \A p \in Products : {i \in Entries({"shop_purchase"}) : ledger[i].ref = p} = {} /\ ~Owned(p)
    BY <1>3 DEF Owned, TrainingInit, Init
  <2>2. QED
    BY <1>4, <2>1 DEF PaidForOwned
<1>9. TrainingInv
  <2>1. \A i \in Ids : Result(i) = None
    BY DEF Result, TrainingInit
  <2>2. Judged("passed") = {} /\ Judged("retry") = {}
    BY <2>1, NoneAssumption DEF Judged
  <2>3. \A s \in 1..Stages : About("training_reward", s) = {}
    BY <1>3 DEF About
  <2>4. IsFiniteSet({})
    BY FS_EmptySet
  <2>5. TrainingTyped
    BY TrainingAssumption DEF TrainingTyped, TrainingInit
  <2>6. TriesCounted
    BY <1>4, <2>2, <2>4 DEF TriesCounted, Retries, TrainingInit
  <2>7. StagesPassed
    BY <1>4, <2>2, <2>3, <2>4 DEF StagesPassed, TrainingInit
  <2>8. QED
    BY <2>5, <2>6, <2>7 DEF TrainingInv
<1>10. QED
  BY <1>1, <1>6, <1>7, <1>8, <1>9 DEF EconomyInv

LEMMA EconomyStep == EconomyInv /\ [TrainingNext]_<<vars, trainingVars>> => EconomyInv'
BY TypedStep, DaysStep, AdsStep, ArticlesStep, PaidStep, TrainingStep
DEF EconomyInv

LEMMA EconomyHolds == TrainingSpec => []EconomyInv
BY EconomyInit, EconomyStep, PTL DEF TrainingSpec

\* Rewards are given once per kind and date, in the order of their dates, whatever
\* the clock and the time zone do, and no more advertisements than the limit.
THEOREM RewardsCorrect == TrainingSpec => []RewardsForward
<1>1. EconomyInv => RewardsForward
  BY RewardsHold DEF EconomyInv
<1>2. QED
  BY <1>1, EconomyHolds, PTL

\* Who owns a product paid for it once, and nobody else paid.
THEOREM PaidOnce == TrainingSpec => []PaidForOwned
<1>1. EconomyInv => PaidForOwned
  BY DEF EconomyInv
<1>2. QED
  BY <1>1, EconomyHolds, PTL

\* Every wrong answer of a training costs one try, no matter how often it is sent
\* and who takes the grading over, tries come back with the hours only, and the
\* stages are passed and paid for in order and once (trainings._record,
\* training_tries.settle).
THEOREM SubmissionsCorrect == TrainingSpec => []SubmissionsCount
<1>1. EconomyInv => SubmissionsCount
  BY SubmissionsHold DEF EconomyInv
<1>2. QED
  BY <1>1, EconomyHolds, PTL

-----------------------------------------------------------------------------
(* The RevenueCat inbox: what the books may look like.                      *)

PackOf(b, t) == b.pay[t].status # "none" /\ b.pay[t].review = "none"
PaidPacks(b) == {t \in Txs : PackOf(b, t) /\ b.pay[t].status = "paid"}

\* At most one payment earned the bonus, the grant says what became of that
\* payment, and the balance is the live grant and the paid packs.
Linked(b) ==
    /\ b \in Books
    /\ \A t \in Txs : b.pay[t].link =>
          /\ b.pay[t].status # "none" /\ b.pay[t].review = "granted"
          /\ b.grant = IF b.pay[t].status = "paid" THEN "live" ELSE "revoked"
    /\ \A t, u \in Txs : b.pay[t].link /\ b.pay[u].link => t = u
    /\ b.grant # "none" => \E t \in Txs : b.pay[t].link

Balanced(b) ==
    /\ Linked(b)
    /\ IsFiniteSet(PaidPacks(b))
    /\ b.balance = (IF b.grant = "live" THEN 1 ELSE 0) + Cardinality(PaidPacks(b))

\* A booking touches one payment.
Rest(b, c, t) == c \in Books /\ \A u \in Txs \ {t} : c.pay[u] = b.pay[u]

LEMMA PacksKept ==
    ASSUME NEW b, NEW c, NEW t \in Txs, Rest(b, c, t),
           t \in PaidPacks(c) <=> t \in PaidPacks(b)
    PROVE  PaidPacks(c) = PaidPacks(b)
BY DEF Rest, PaidPacks, PackOf

LEMMA Recorded ==
    ASSUME NEW b \in Books, NEW t \in Txs, b.pay[t].status = "none"
    PROVE  LET c == RecordPayment(b, t)
           IN  /\ Rest(b, c, t)
               /\ c.pay[t].status = "paid" /\ c.pay[t].review = "held" /\ ~c.pay[t].link
               /\ c.grant = b.grant /\ c.balance = b.balance
<1> DEFINE q == [NoPay EXCEPT !.status = "paid", !.review = "held"]
<1>1. /\ q \in Pay /\ q.status = "paid" /\ q.review = "held" /\ ~q.link
  BY DEF NoPay, Pay
<1>2. RecordPayment(b, t) = [b EXCEPT !.pay[t] = q]
  BY DEF RecordPayment
<1> HIDE DEF q
<1>3. QED
  BY <1>1, <1>2 DEF Rest, Books

LEMMA RecordKeeps ==
    ASSUME NEW b, Balanced(b), NEW t \in Txs
    PROVE  Balanced(RecordPayment(b, t))
<1>1. CASE b.pay[t].status # "none"
  BY <1>1 DEF RecordPayment
<1>2. CASE b.pay[t].status = "none"
  <2> DEFINE c == RecordPayment(b, t)
  <2>1. /\ Rest(b, c, t)
        /\ c.pay[t].status = "paid" /\ c.pay[t].review = "held" /\ ~c.pay[t].link
        /\ c.grant = b.grant /\ c.balance = b.balance
    BY <1>2, Recorded DEF Balanced, Linked
  <2> HIDE DEF c
  <2>2. PaidPacks(c) = PaidPacks(b)
    BY <1>2, <2>1, PacksKept DEF PaidPacks, PackOf
  <2>3. Linked(c)
    BY <1>2, <2>1 DEF Balanced, Linked, Rest
  <2>4. Balanced(c)
    BY <2>1, <2>2, <2>3 DEF Balanced
  <2>5. QED
    BY <2>4 DEF c
<1>3. QED
  BY <1>1, <1>2

\* What a decision on the bonus makes of a payment that waits for it.
LEMMA Decided ==
    ASSUME NEW b \in Books, NEW t \in Txs, b.pay[t].status = "paid", b.pay[t].review = "held",
           NEW review \in {"held", "eligible", "not_granted"}
    PROVE  LET c == FinishBonus(b, t, review)
               first == review = "eligible" /\ b.grant = "none"
           IN  /\ Rest(b, c, t)
               /\ c.pay[t].status = "paid" /\ c.pay[t].review # "none"
               /\ IF first
                  THEN /\ c.pay[t].link /\ c.pay[t].review = "granted"
                       /\ c.grant = "live" /\ c.balance = b.balance + 1
                  ELSE /\ review = "eligible" \/ c.pay[t].link = b.pay[t].link
                       /\ review = "eligible" => ~c.pay[t].link
                       /\ c.grant = b.grant /\ c.balance = b.balance
<1>0. b.pay[t] \in Pay /\ b.balance \in Int /\ b.pay \in [Txs -> Pay]
  BY DEF Books
<1>1. CASE review = "eligible" /\ b.grant = "none"
  <2> DEFINE q == [b.pay[t] EXCEPT !.link = TRUE, !.review = "granted", !.reversed = FALSE]
  <2>1. q \in Pay /\ q.status = "paid" /\ q.link /\ q.review = "granted"
    BY <1>0 DEF Pay
  <2>2. FinishBonus(b, t, review) =
           [b EXCEPT !.pay = [b.pay EXCEPT ![t] = q], !.grant = "live", !.balance = b.balance + 1]
    BY <1>0, <1>1 DEF FinishBonus, GrantIfFirst, Books, Pay
  <2> HIDE DEF q
  <2>3. [b.pay EXCEPT ![t] = q] \in [Txs -> Pay]
    BY <1>0, <2>1
  <2> DEFINE c == FinishBonus(b, t, review)
  <2>4. /\ c \in Books /\ c.pay = [b.pay EXCEPT ![t] = q]
        /\ c.grant = "live" /\ c.balance = b.balance + 1
    <3>1. b.balance + 1 \in Int
      BY <1>0
    <3>2. c = [pay |-> [b.pay EXCEPT ![t] = q], grant |-> "live", balance |-> b.balance + 1]
      BY <2>2 DEF Books
    <3>3. QED
      BY <2>3, <3>1, <3>2 DEF Books
  <2> HIDE DEF c
  <2>5. /\ Rest(b, c, t) /\ c.pay[t] = q
    BY <1>0, <2>4 DEF Rest
  <2>6. QED
    BY <1>1, <2>1, <2>4, <2>5 DEF c
<1>2. CASE review = "eligible" /\ b.grant # "none"
  <2> DEFINE q == [b.pay[t] EXCEPT !.link = FALSE, !.review = "not_granted", !.reversed = FALSE]
  <2>1. q \in Pay /\ q.status = "paid" /\ ~q.link /\ q.review = "not_granted"
    BY <1>0 DEF Pay
  <2>2. FinishBonus(b, t, review) = [b EXCEPT !.pay = [b.pay EXCEPT ![t] = q]]
    BY <1>0, <1>2 DEF FinishBonus, GrantIfFirst, Books, Pay
  <2> HIDE DEF q
  <2>3. QED
    BY <1>0, <1>2, <2>1, <2>2 DEF Rest, Books
<1>3. CASE review # "eligible"
  <2> DEFINE q == [b.pay[t] EXCEPT !.review = review, !.reversed = FALSE]
  <2>1. q \in Pay /\ q.status = "paid" /\ q.link = b.pay[t].link /\ q.review = review
    BY <1>0, <1>3 DEF Pay
  <2>2. FinishBonus(b, t, review) = [b EXCEPT !.pay = [b.pay EXCEPT ![t] = q]]
    BY <1>0, <1>3 DEF FinishBonus, Books, Pay
  <2> HIDE DEF q
  <2>3. QED
    BY <1>0, <1>3, <2>1, <2>2 DEF Rest, Books
<1>4. QED
  BY <1>1, <1>2, <1>3

LEMMA DecideKeeps ==
    ASSUME NEW b, Balanced(b), NEW t \in Txs, b.pay[t].status = "paid", b.pay[t].review = "held",
           NEW review \in {"held", "eligible", "not_granted"}
    PROVE  Balanced(FinishBonus(b, t, review))
<1> DEFINE c == FinishBonus(b, t, review)
<1>1. /\ Rest(b, c, t)
      /\ c.pay[t].status = "paid" /\ c.pay[t].review # "none"
      /\ IF review = "eligible" /\ b.grant = "none"
         THEN /\ c.pay[t].link /\ c.pay[t].review = "granted"
              /\ c.grant = "live" /\ c.balance = b.balance + 1
         ELSE /\ review = "eligible" \/ c.pay[t].link = b.pay[t].link
              /\ review = "eligible" => ~c.pay[t].link
              /\ c.grant = b.grant /\ c.balance = b.balance
  BY Decided DEF Balanced, Linked
<1> HIDE DEF c
<1>2. ~b.pay[t].link
  BY DEF Balanced, Linked
<1>3. PaidPacks(c) = PaidPacks(b)
  BY <1>1, PacksKept DEF PaidPacks, PackOf
<1>4. Linked(c)
  BY <1>1, <1>2 DEF Balanced, Linked, Rest
<1>5. Cardinality(PaidPacks(b)) \in Nat
  BY FS_CardinalityType DEF Balanced
<1>6. Balanced(c)
  BY <1>1, <1>3, <1>4, <1>5 DEF Balanced
<1>7. QED
  BY <1>6 DEF c

\* A refund takes the bonus back with the payment that earned it.
LEMMA RefundKeeps ==
    ASSUME NEW b, Balanced(b), NEW t \in Txs, b.pay[t].status # "none", ~PackOf(b, t)
    PROVE  LET c == RefundSubscription(b, t)
           IN  Balanced(c) /\ Rest(b, c, t) /\ c.pay[t].status = "refunded" /\ ~PackOf(c, t)
<1> DEFINE c == RefundSubscription(b, t)
           q == [b.pay[t] EXCEPT !.status = "refunded"]
<1>1. /\ b \in Books /\ b.pay[t] \in Pay /\ b.balance \in Int /\ b.pay \in [Txs -> Pay]
      /\ Cardinality(PaidPacks(b)) \in Nat
  BY FS_CardinalityType DEF Balanced, Linked, Books
<1>2. q \in Pay /\ q.status = "refunded" /\ q.link = b.pay[t].link /\ q.review = b.pay[t].review
  BY <1>1 DEF Pay
<1>3. \/ /\ b.pay[t].link /\ b.grant = "live"
         /\ c = [b EXCEPT !.pay = [b.pay EXCEPT ![t] = q], !.grant = "revoked",
                          !.balance = b.balance - 1]
      \/ /\ ~(b.pay[t].link /\ b.grant = "live")
         /\ c = [b EXCEPT !.pay = [b.pay EXCEPT ![t] = q]]
  BY <1>1 DEF RefundSubscription, Clawback, Books, Pay
<1> HIDE DEF q, c
<1>4. [b.pay EXCEPT ![t] = q] \in [Txs -> Pay] /\ b.balance - 1 \in Int
  BY <1>1, <1>2
<1>5. /\ c \in Books /\ c.pay = [b.pay EXCEPT ![t] = q]
      /\ IF b.pay[t].link /\ b.grant = "live"
         THEN c.grant = "revoked" /\ c.balance = b.balance - 1
         ELSE c.grant = b.grant /\ c.balance = b.balance
  BY <1>1, <1>3, <1>4 DEF Books
<1>6. Rest(b, c, t) /\ c.pay[t] = q
  BY <1>1, <1>5 DEF Rest
<1>7. PaidPacks(c) = PaidPacks(b) /\ ~PackOf(c, t)
  BY <1>2, <1>6, PacksKept DEF PaidPacks, PackOf
<1>8. Linked(c)
  BY <1>2, <1>5, <1>6 DEF Balanced, Linked, Rest
<1>9. Balanced(c)
  BY <1>1, <1>5, <1>7, <1>8 DEF Balanced
<1>10. QED
  BY <1>2, <1>6, <1>7, <1>9 DEF c

\* A reversal gives it back.
LEMMA ReverseKeeps ==
    ASSUME NEW b, Balanced(b), NEW t \in Txs, b.pay[t].status = "refunded", ~PackOf(b, t)
    PROVE  LET c == ReverseRefund(b, t)
           IN  Balanced(c) /\ Rest(b, c, t) /\ c.pay[t].status = "paid" /\ ~PackOf(c, t)
<1> DEFINE c == ReverseRefund(b, t)
           q == [b.pay[t] EXCEPT !.status = "paid", !.reversed = TRUE]
<1>1. /\ b \in Books /\ b.pay[t] \in Pay /\ b.balance \in Int /\ b.pay \in [Txs -> Pay]
      /\ Cardinality(PaidPacks(b)) \in Nat
  BY FS_CardinalityType DEF Balanced, Linked, Books
<1>2. q \in Pay /\ q.status = "paid" /\ q.link = b.pay[t].link /\ q.review = b.pay[t].review
  BY <1>1 DEF Pay
<1>3. \/ /\ b.pay[t].link
         /\ c = [b EXCEPT !.pay = [b.pay EXCEPT ![t] = q], !.grant = "live",
                          !.balance = b.balance + 1]
      \/ /\ ~b.pay[t].link
         /\ c = [b EXCEPT !.pay = [b.pay EXCEPT ![t] = q]]
  <2> DEFINE d == IF b.pay[t].link THEN Restore(b) ELSE b
  <2>1. /\ d \in Books /\ d.pay = b.pay
        /\ b.pay[t].link => d.grant = "live" /\ d.balance = b.balance + 1
        /\ ~b.pay[t].link => d = b
    <3>1. b.balance + 1 \in Int
      BY <1>1
    <3>2. b.pay[t].link => d = [pay |-> b.pay, grant |-> "live", balance |-> b.balance + 1]
      BY <1>1 DEF Restore, Books
    <3>3. CASE b.pay[t].link
      <4>1. d = [pay |-> b.pay, grant |-> "live", balance |-> b.balance + 1]
        BY <3>2, <3>3
      <4> HIDE DEF d
      <4>2. QED
        BY <1>1, <3>1, <3>3, <4>1 DEF Books
    <3>4. QED
      BY <1>1, <3>3
  <2>2. c = [d EXCEPT !.pay[t].status = "paid", !.pay[t].reversed = TRUE]
    BY DEF ReverseRefund
  <2> HIDE DEF d, c
  <2>3. c = [d EXCEPT !.pay = [d.pay EXCEPT ![t] = [d.pay[t] EXCEPT !.status = "paid", !.reversed = TRUE]]]
    BY <1>1, <2>1, <2>2 DEF Books, Pay
  <2>4. c = [d EXCEPT !.pay = [b.pay EXCEPT ![t] = q]]
    BY <2>1, <2>3
  <2>5. QED
    BY <1>1, <2>1, <2>4 DEF Books
<1> HIDE DEF q, c
<1>4. [b.pay EXCEPT ![t] = q] \in [Txs -> Pay] /\ b.balance + 1 \in Int
  BY <1>1, <1>2
<1>5. /\ c \in Books /\ c.pay = [b.pay EXCEPT ![t] = q]
      /\ IF b.pay[t].link
         THEN c.grant = "live" /\ c.balance = b.balance + 1
         ELSE c.grant = b.grant /\ c.balance = b.balance
  BY <1>1, <1>3, <1>4 DEF Books
<1>6. Rest(b, c, t) /\ c.pay[t] = q
  BY <1>1, <1>5 DEF Rest
<1>7. PaidPacks(c) = PaidPacks(b) /\ ~PackOf(c, t)
  BY <1>2, <1>6, PacksKept DEF PaidPacks, PackOf
<1>8. Linked(c)
  BY <1>2, <1>5, <1>6 DEF Balanced, Linked, Rest
<1>9. b.pay[t].link => b.grant = "revoked"
  BY DEF Balanced, Linked
<1>10. b.balance = (IF b.grant = "live" THEN 1 ELSE 0) + Cardinality(PaidPacks(b))
  BY DEF Balanced
<1>11. c.balance = (IF c.grant = "live" THEN 1 ELSE 0) + Cardinality(PaidPacks(c))
  <2>1. CASE b.pay[t].link
    BY <1>1, <1>5, <1>7, <1>9, <1>10, <2>1
  <2>2. CASE ~b.pay[t].link
    BY <1>1, <1>5, <1>7, <1>10, <2>2
  <2>3. QED
    BY <2>1, <2>2
<1>12. Balanced(c)
  <2>1. IsFiniteSet(PaidPacks(b))
    BY DEF Balanced
  <2>2. QED
    BY <1>7, <1>8, <1>11, <2>1 DEF Balanced
<1>13. QED
  BY <1>2, <1>6, <1>7, <1>12 DEF c

\* A pack is worth one hay as long as it is paid.
LEMMA PackKeeps ==
    ASSUME NEW b, Balanced(b), NEW t \in Txs, NEW c, Rest(b, c, t),
           b.pay[t].status = "none" \/ PackOf(b, t), PackOf(c, t), ~c.pay[t].link,
           c.grant = b.grant,
           c.balance = b.balance + (IF c.pay[t].status = "paid" THEN 1 ELSE 0)
                                 - (IF b.pay[t].status = "paid" THEN 1 ELSE 0)
    PROVE  Balanced(c)
<1>1. ~b.pay[t].link
  BY DEF Balanced, Linked, PackOf
<1>2. Linked(c)
  BY <1>1 DEF Balanced, Linked, Rest
<1>3. IsFiniteSet(PaidPacks(b)) /\ Cardinality(PaidPacks(b)) \in Nat
  BY FS_CardinalityType DEF Balanced
<1>4. /\ c.pay[t].status = "paid" => PaidPacks(c) = PaidPacks(b) \cup {t}
      /\ c.pay[t].status # "paid" => PaidPacks(c) = PaidPacks(b) \ {t}
      /\ t \in PaidPacks(b) <=> b.pay[t].status = "paid"
  BY DEF Rest, PaidPacks, PackOf
<1>5. /\ IsFiniteSet(PaidPacks(b) \cup {t}) /\ IsFiniteSet(PaidPacks(b) \ {t})
      /\ Cardinality(PaidPacks(b) \cup {t}) =
             IF t \in PaidPacks(b) THEN Cardinality(PaidPacks(b)) ELSE Cardinality(PaidPacks(b)) + 1
      /\ Cardinality(PaidPacks(b) \ {t}) =
             IF t \in PaidPacks(b) THEN Cardinality(PaidPacks(b)) - 1 ELSE Cardinality(PaidPacks(b))
  BY <1>3, FS_AddElement, FS_RemoveElement
<1>6. /\ IsFiniteSet(PaidPacks(c))
      /\ Cardinality(PaidPacks(c)) = Cardinality(PaidPacks(b))
                                 + (IF c.pay[t].status = "paid" THEN 1 ELSE 0)
                                 - (IF b.pay[t].status = "paid" THEN 1 ELSE 0)
  <2> DEFINE n == Cardinality(PaidPacks(b))
  <2>1. CASE c.pay[t].status = "paid"
    <3>1. PaidPacks(c) = PaidPacks(b) \cup {t} /\ IsFiniteSet(PaidPacks(c))
      BY <1>4, <1>5, <2>1
    <3>2. Cardinality(PaidPacks(c)) = IF b.pay[t].status = "paid" THEN n ELSE n + 1
      BY <1>4, <1>5, <3>1
    <3> HIDE DEF n
    <3>3. QED
      BY <1>3, <2>1, <3>1, <3>2 DEF n
  <2>2. CASE c.pay[t].status # "paid"
    <3>1. PaidPacks(c) = PaidPacks(b) \ {t} /\ IsFiniteSet(PaidPacks(c))
      BY <1>4, <1>5, <2>2
    <3>2. Cardinality(PaidPacks(c)) = IF b.pay[t].status = "paid" THEN n - 1 ELSE n
      BY <1>4, <1>5, <3>1
    <3> HIDE DEF n
    <3>3. QED
      BY <1>3, <2>2, <3>1, <3>2 DEF n
  <2>3. QED
    BY <2>1, <2>2
<1>7. b.balance = (IF b.grant = "live" THEN 1 ELSE 0) + Cardinality(PaidPacks(b))
  BY DEF Balanced
<1>8. c.balance = (IF c.grant = "live" THEN 1 ELSE 0) + Cardinality(PaidPacks(c))
  <2>1. /\ c.grant = b.grant
        /\ c.balance = b.balance + (IF c.pay[t].status = "paid" THEN 1 ELSE 0)
                                 - (IF b.pay[t].status = "paid" THEN 1 ELSE 0)
    OBVIOUS
  <2> DEFINE n == Cardinality(PaidPacks(b))
             m == Cardinality(PaidPacks(c))
             live == IF b.grant = "live" THEN 1 ELSE 0
             after == IF c.pay[t].status = "paid" THEN 1 ELSE 0
             before == IF b.pay[t].status = "paid" THEN 1 ELSE 0
  <2>2. n \in Nat /\ live \in Nat /\ after \in Nat /\ before \in Nat
    BY <1>3
  <2>3. m = n + after - before
    BY <1>6
  <2>4. b.balance = live + n
    BY <1>7
  <2>5. c.balance = b.balance + after - before
    BY <2>1
  <2> HIDE DEF n, m, live, after, before
  <2>6. c.balance = live + m
    BY <2>2, <2>3, <2>4, <2>5
  <2>7. QED
    BY <2>1, <2>6 DEF live, m
<1>9. QED
  BY <1>2, <1>6, <1>8 DEF Balanced

-----------------------------------------------------------------------------
(* The inbox: types.                                                        *)

Reviews == {"held", "eligible", "not_granted"}
Staged  == {"found", "asked", "fetched"}
Hand    == [pc: {"idle", "legacy"} \cup Staged, ev: Events \cup {NoRow},
            found: Sub \cup {NoRow}, before: Sub \cup {NoRow}, pay: Pay, ok: BOOLEAN,
            prov: Nat, review: Reviews]

\* A worker with an answer of the provider has a key, the answer is of now or
\* before and not older than the row it found at first; and it does not hold a
\* pack.  Nothing of the kind is true of the row that matched the answer.
InboxTyped ==
    /\ store \in Stores /\ prov \in DOMAIN ProviderStates
    /\ inbox \in [Events -> Row]
    /\ sub \in Sub \cup {NoRow} /\ (sub # NoRow => sub.seen <= prov)
    /\ books \in Books
    /\ wk \in [Workers -> Hand]
    /\ \A w \in Workers : wk[w].pc # "idle" => wk[w].ev \in Events
    /\ \A w \in Workers : wk[w].pc \in Staged =>
          /\ wk[w].found # NoRow => wk[w].found.seen <= prov
          /\ wk[w].ok => /\ store.key
                         /\ wk[w].prov \in DOMAIN ProviderStates /\ wk[w].prov <= prov
                         /\ wk[w].found # NoRow => wk[w].found.seen <= wk[w].prov
          /\ ~(wk[w].pay.status # "none" /\ wk[w].pay.review = "none")

LEMMA Constants ==
    /\ \A e \in Events : /\ KindOf[e] \in Kinds /\ TxOf[e] \in Txs
                         /\ StampOf[e] \in Nat /\ StampOf[e] > 0 /\ EndOf[e] \in Nat
    /\ DOMAIN ProviderStates \subseteq Nat \ {0}
    /\ \A a, b \in Nat : Later(a, b) \in Nat /\ Later(a, b) >= a /\ Later(a, b) >= b
<1>1. \A e \in Events : StampOf[e] \in Nat /\ StampOf[e] > 0 /\ EndOf[e] \in Nat
  BY EventAssumption
<1>2. \A e \in Events : KindOf[e] \in Kinds /\ TxOf[e] \in Txs
  BY EventAssumption DEF Txs
<1>3. Cardinality(DOMAIN ProviderStates) \in Nat
  BY ProviderAssumption, FS_CardinalityType
<1>4. DOMAIN ProviderStates \subseteq Nat \ {0}
  BY <1>3, ProviderAssumption
<1>5. QED
  BY <1>1, <1>2, <1>4 DEF Later

LEMMA NoPayTyped == NoPay \in Pay /\ NoPay.status = "none" /\ ~NoPay.link
BY DEF NoPay, Pay

LEMMA IdleTyped == Idle \in Hand /\ Idle.pc = "idle"
BY NoPayTyped DEF Idle, Hand, Reviews, Staged

LEMMA InboxTypedInit == InboxInit => InboxTyped
<1> SUFFICES ASSUME InboxInit PROVE InboxTyped
  OBVIOUS
<1>1. \A e \in Events : [NewState(e) EXCEPT !.status = "none"] \in Row
  BY DEF NewState, Row, Stage
<1>2. inbox \in [Events -> Row]
  BY <1>1 DEF InboxInit
<1>3. books \in Books
  BY NoPayTyped DEF InboxInit, Books
<1>4. wk \in [Workers -> Hand] /\ \A w \in Workers : wk[w].pc = "idle"
  BY IdleTyped DEF InboxInit
<1>5. QED
  BY <1>2, <1>3, <1>4, ProviderAssumption DEF InboxInit, InboxTyped, Staged

\* What happens to the row of one event.
LEMMA RetriedTyped ==
    ASSUME InboxTyped, NEW e \in Events
    PROVE  /\ Retried(e) \in [Events -> Row]
           /\ \A x \in Events \ {e} : Retried(e)[x] = inbox[x]
           /\ Retried(e)[e].staged = inbox[e].staged
           /\ Retried(e)[e].adjust = inbox[e].adjust
           /\ Retried(e)[e].status # "processed"
<1> DEFINE r == inbox[e]
           status == IF r.attempts + 1 >= MaxAttempts THEN "failed" ELSE "pending"
           row == [r EXCEPT !.attempts = r.attempts + 1, !.status = status]
<1>1. r \in Row /\ inbox \in [Events -> Row] /\ status \in {"failed", "pending"}
  BY DEF InboxTyped
<1>2. Retried(e) = [inbox EXCEPT ![e] = row]
  BY <1>1 DEF Retried, Row
<1>3. r.attempts + 1 \in Nat
  BY <1>1 DEF Row
<1> HIDE DEF r, status
<1>4. row \in Row /\ row.staged = r.staged /\ row.adjust = r.adjust /\ row.status # "processed"
  BY <1>1, <1>3 DEF Row
<1> HIDE DEF row
<1>5. QED
  BY <1>1, <1>2, <1>4 DEF r

LEMMA FinishedTyped ==
    ASSUME NEW s \in Row
    PROVE  /\ Finished(s) \in Row /\ Finished(s).staged = s.staged
           /\ Finished(s).adjust = "done" <=> s.adjust = "done"
           /\ s.adjust = "pending" \/ Finished(s).adjust = s.adjust
<1> DEFINE last   == s.tries + 1 >= StageTries
           End(v) == IF v = "pending" /\ last THEN "manual" ELSE v
           n      == [s EXCEPT !.payment = End(@), !.bonus = End(@),
                               !.adjust = End(@), !.access = End(@), !.tries = @ + 1]
           all    == {n.payment, n.bonus, n.adjust, n.access}
           status == IF "pending" \in all THEN "pending"
                     ELSE IF "manual" \in all THEN "failed" ELSE "processed"
<1>1. /\ End(s.payment) \in Stage /\ End(s.bonus) \in Stage /\ End(s.adjust) \in Stage
      /\ End(s.access) \in {"pending", "verified", "manual"}
      /\ s.tries + 1 \in Nat /\ s.attempts + 1 \in Nat
  BY DEF Row, Stage
<1>2. Finished(s) = [n EXCEPT !.status = status,
                              !.attempts = IF status = "processed" THEN @ ELSE @ + 1]
  BY DEF Finished
<1>3. status \in {"none", "pending", "processed", "failed"}
  OBVIOUS
<1>4. /\ End(s.adjust) = "done" <=> s.adjust = "done"
      /\ s.adjust = "pending" \/ End(s.adjust) = s.adjust
  OBVIOUS
<1> HIDE DEF status, End
<1>5. /\ n \in Row /\ n.staged = s.staged /\ n.adjust = End(s.adjust)
      /\ n.attempts = s.attempts
  BY <1>1 DEF Row
<1> HIDE DEF n
<1>6. Finished(s) = [n EXCEPT !.status = status,
                       !.attempts = IF status = "processed" THEN n.attempts ELSE n.attempts + 1]
  BY <1>2, <1>5 DEF Row
<1>7. (IF status = "processed" THEN n.attempts ELSE n.attempts + 1) \in Nat
  BY <1>1, <1>5 DEF Row
<1>8. Finished(s) \in Row /\ Finished(s).staged = n.staged /\ Finished(s).adjust = n.adjust
  BY <1>3, <1>5, <1>6, <1>7 DEF Row
<1>9. QED
  BY <1>4, <1>5, <1>8

-----------------------------------------------------------------------------
(* The inbox: what a step makes of the subscriptions row.                   *)

LEMMA BumpedTyped ==
    ASSUME NEW s \in Sub, NEW e \in Events
    PROVE  LET c == Bumped(s, e)
           IN  /\ c \in Sub /\ c.seen = s.seen /\ c.evidence = s.evidence
               /\ c.status = s.status /\ c.last = Later(s.last, StampOf[e])
<1>1. Later(s.last, StampOf[e]) \in Nat
  BY Constants DEF Sub
<1>2. Bumped(s, e) = [s EXCEPT !.last = Later(s.last, StampOf[e])]
  BY DEF Bumped, Sub
<1>3. QED
  BY <1>1, <1>2 DEF Sub

LEMMA NewSubTyped ==
    ASSUME NEW e \in Events
    PROVE  NewSub(e) \in Sub /\ NewSub(e).seen = 0
BY Constants DEF NewSub, Sub

LEMMA ReconciledTyped ==
    ASSUME NEW s \in Sub, NEW e \in Events, NEW p \in DOMAIN ProviderStates
    PROVE  /\ Reconciled(s, e, p) \in Sub /\ Reconciled(s, e, p).seen = p
           /\ Projected(s, e, p) \in Sub /\ Projected(s, e, p).seen = p
           /\ Projected(s, e, p).evidence
<1> DEFINE r == [s EXCEPT !.status = ProviderStates[p].status,
                          !.end    = ProviderStates[p].end,
                          !.latest = ProviderStates[p].latest,
                          !.renew  = ProviderStates[p].renew,
                          !.rc = TRUE, !.seen = p]
<1>1. /\ p \in Nat
      /\ ProviderStates[p] \in [status: {"active", "grace_period", "expired", "revoked"},
                                end: Nat, latest: Txs, renew: BOOLEAN]
  BY Constants, ProviderAssumption
<1>2. r \in Sub /\ r.seen = p
  BY <1>1 DEF Sub
<1> HIDE DEF r
<1>3. Bumped(r, e) \in Sub /\ Bumped(r, e).seen = p
  BY <1>2, BumpedTyped
<1>4. Reconciled(s, e, p) = Bumped(r, e)
  BY DEF Reconciled, r
<1> DEFINE c == Reconciled(s, e, p)
           d == Projected(s, e, p)
<1>5. c \in Sub /\ c.seen = p /\ d = [c EXCEPT !.evidence = TRUE]
  BY <1>3, <1>4 DEF Projected
<1> HIDE DEF c, d
<1>6. d \in Sub /\ d.seen = p /\ d.evidence
  BY <1>5 DEF Sub
<1>7. QED
  BY <1>5, <1>6 DEF c, d

\* A row leaves verified evidence only for evidence that is not older, or for
\* that of a worker that met the row; and a refunded period is opened by a newer
\* event or by the provider.
SubMoves ==
    /\ sub' \in Sub /\ sub'.seen <= prov
    /\ Adopted => /\ sub'.evidence
                  /\ sub'.seen >= sub.seen \/ \E w \in Workers : MetRow(w) /\ wk'[w] = Idle
    /\ (sub # NoRow /\ sub.status = "revoked" /\ sub'.status # "revoked")
          => sub'.last > sub.last \/ store.key

LEMMA AfterActiveMoves ==
    ASSUME InboxTyped, NEW e \in Events, ~Adopted
    PROVE  LET c == AfterActive(e)
           IN  /\ c \in Sub /\ c.seen <= prov
               /\ (sub # NoRow /\ sub.status = "revoked" /\ c.status # "revoked")
                     => c.last > sub.last \/ store.key
<1>1. /\ prov \in DOMAIN ProviderStates /\ prov \in Nat
      /\ sub \in Sub \cup {NoRow} /\ (sub # NoRow => sub.seen <= prov)
  BY Constants DEF InboxTyped
<1>2. CASE store.key /\ (sub = NoRow \/ sub.rc)
  <2> DEFINE s == IF sub = NoRow THEN NewSub(e) ELSE sub
  <2>1. s \in Sub
    BY <1>1, NewSubTyped
  <2>2. AfterActive(e) = Reconciled(s, e, prov)
    BY <1>2 DEF AfterActive
  <2> HIDE DEF s
  <2>3. QED
    BY <1>1, <1>2, <2>1, <2>2, ReconciledTyped
<1>3. CASE ~(store.key /\ (sub = NoRow \/ sub.rc)) /\ sub = NoRow
  BY <1>1, <1>3, NewSubTyped DEF AfterActive
<1>4. CASE ~(store.key /\ (sub = NoRow \/ sub.rc)) /\ sub # NoRow
  <2>1. AfterActive(e) = ApplyActive(e) /\ sub \in Sub
    BY <1>1, <1>4 DEF AfterActive
  <2>2. CASE ~(StateApplies(e) \/ Extends(e))
    BY <1>1, <1>4, <2>1, <2>2 DEF ApplyActive
  <2>3. CASE (StateApplies(e) \/ Extends(e)) /\ KindOf[e] = "product"
    <3> DEFINE r == [sub EXCEPT !.latest = TxOf[e]]
    <3>1. r \in Sub /\ r.status = sub.status /\ r.seen = sub.seen
      BY <2>1, Constants DEF Sub
    <3>2. ApplyActive(e) = Bumped(r, e)
      BY <2>3 DEF ApplyActive
    <3> HIDE DEF r
    <3>3. QED
      BY <1>1, <1>4, <2>1, <3>1, <3>2, BumpedTyped
  <2>4. CASE (StateApplies(e) \/ Extends(e)) /\ KindOf[e] # "product"
    <3> DEFINE r == [sub EXCEPT !.status = "active", !.end = EndOf[e],
                                !.latest = TxOf[e], !.renew = TRUE]
    <3>1. r \in Sub /\ r.seen = sub.seen /\ r.last = sub.last
      BY <2>1, Constants DEF Sub
    <3>2. ApplyActive(e) = Bumped(r, e)
      BY <2>4 DEF ApplyActive
    <3> HIDE DEF r
    <3>3. /\ Bumped(r, e) \in Sub /\ Bumped(r, e).seen = sub.seen
          /\ Bumped(r, e).last = Later(sub.last, StampOf[e])
      BY <3>1, BumpedTyped
    <3>4. sub.status = "revoked" => Later(sub.last, StampOf[e]) > sub.last
      <4>1. sub.last \in Nat /\ StampOf[e] \in Nat /\ StampOf[e] > 0
        BY <2>1, Constants DEF Sub
      <4>2. sub.status = "revoked" => StateApplies(e)
        BY <2>4 DEF Extends
      <4>3. QED
        BY <4>1, <4>2 DEF StateApplies, Later
    <3>5. QED
      BY <1>1, <1>4, <2>1, <3>2, <3>3, <3>4
  <2>5. QED
    BY <2>2, <2>3, <2>4
<1>5. QED
  BY <1>2, <1>3, <1>4

-----------------------------------------------------------------------------
(* The inbox: the staged path.                                              *)

\* The row of the event a worker holds, and what its stages make of it.
Staging(w) == [inbox[wk[w].ev] EXCEPT !.staged = TRUE]

Outcome(w, ok, proven) ==
    LET p == wk[w]
        e == p.ev
        s == Staging(w)
    IN  IF Adjusts(e) /\ s.adjust = "pending" /\ p.pay.status # "none"
        THEN AdjustStage(e, s)
        ELSE IF IsPurchase(e) THEN PurchaseStage(e, s, p, ok, proven)
        ELSE [s |-> s, b |-> books]

SettledRow(r, ok) == [r EXCEPT !.access = IF ok /\ @ # "manual" THEN "verified" ELSE @]

AnsweredRow(w, ok) ==
    IF ok /\ Staging(w).access = "pending"
    THEN Projected(IF sub = NoRow THEN NewSub(wk[w].ev) ELSE sub, wk[w].ev, wk[w].prov)
    ELSE sub

AppliedAs(w, ok, proven) ==
    /\ ok => wk[w].ok
    /\ ~Changed(wk[w], Staging(w), ok)
    /\ inbox' = [inbox EXCEPT ![wk[w].ev] = Finished(SettledRow(Outcome(w, ok, proven).s, ok))]
    /\ sub' = AnsweredRow(w, ok) /\ books' = Outcome(w, ok, proven).b

Discarded(w) ==
    /\ inbox' = [inbox EXCEPT ![wk[w].ev] = Finished(Staging(w))]
    /\ UNCHANGED <<sub, books>>

LEMMA ApplyCases ==
    ASSUME NEW w \in Workers, Apply(w)
    PROVE  /\ wk[w].pc = "fetched" /\ inbox[wk[w].ev].status = "pending" /\ ~Claimed(wk[w].ev)
           /\ Free(w) /\ UNCHANGED <<world, faults>>
           /\ Discarded(w) \/ \E ok \in BOOLEAN, proven \in BOOLEAN : AppliedAs(w, ok, proven)
<1>1. /\ wk[w].pc = "fetched" /\ inbox[wk[w].ev].status = "pending" /\ ~Claimed(wk[w].ev)
      /\ Free(w) /\ UNCHANGED <<world, faults>>
  BY DEF Apply
<1>2. PICK fresh \in BOOLEAN, proven \in BOOLEAN :
        LET p == wk[w]
            e == p.ev
            s == Staging(w)
            ok   == p.ok /\ fresh
            result == Outcome(w, ok, proven)
            after  == SettledRow(result.s, ok)
        IN  IF Changed(p, s, ok)
            THEN /\ inbox' = [inbox EXCEPT ![e] = Finished(s)]
                 /\ UNCHANGED <<sub, books>>
            ELSE /\ inbox' = [inbox EXCEPT ![e] = Finished(after)]
                 /\ sub' = AnsweredRow(w, ok) /\ books' = result.b
  BY DEF Apply, Staging, Outcome, SettledRow, AnsweredRow
<1> DEFINE ok == wk[w].ok /\ fresh
<1>3. CASE Changed(wk[w], Staging(w), ok)
  BY <1>1, <1>2, <1>3 DEF Discarded
<1>4. CASE ~Changed(wk[w], Staging(w), ok)
  <2>1. AppliedAs(w, ok, proven)
    BY <1>2, <1>4 DEF AppliedAs
  <2>2. ok \in BOOLEAN
    OBVIOUS
  <2>3. QED
    BY <1>1, <2>1, <2>2
<1>5. QED
  BY <1>3, <1>4

\* A stage leaves the marks of the others alone.
SameEvent(r, s) == r \in Row /\ r.staged = s.staged /\ r.adjust = s.adjust

LEMMA AdjustCases ==
    ASSUME NEW e \in Events, Adjusts(e), NEW s \in Row, s.adjust = "pending"
    PROVE  LET o == AdjustStage(e, s)
               t == TxOf[e]
           IN  /\ o.s \in Row /\ o.s.staged = s.staged
               /\ \/ o.s.adjust # "done" /\ o.b = books
                  \/ /\ o.s.adjust = "done"
                     /\ \/ Order(e) = "confirm" /\ o.b = books
                        \/ /\ Order(e) = "apply" /\ KindOf[e] = "refund"
                           /\ o.b = RefundSubscription(books, t)
                        \/ /\ Order(e) = "apply" /\ KindOf[e] = "reverse"
                           /\ IF books.pay[t].link /\ books.grant = "live"
                              THEN o.b = [books EXCEPT !.pay[t].status = "paid"]
                              ELSE o.b = IF books.pay[t].status = "refunded"
                                         THEN ReverseRefund(books, t) ELSE books
<1> DEFINE o == AdjustStage(e, s)
           Settling(bonus) == [s EXCEPT !.adjust = "done", !.bonus = bonus]
           pay == books.pay[TxOf[e]]
           agrees == pay.link => ((KindOf[e] = "refund") = (books.grant = "revoked"))
<1>1. \A bonus \in Stage : Settling(bonus) \in Row /\ Settling(bonus).staged = s.staged
                           /\ Settling(bonus).adjust = "done"
  BY DEF Row, Stage
<1>2. \A v \in Stage : /\ [s EXCEPT !.adjust = v] \in Row
                       /\ [s EXCEPT !.adjust = v].staged = s.staged
                       /\ [s EXCEPT !.adjust = v].adjust = v
  BY DEF Row, Stage
<1>3. s.bonus \in Stage /\ {"manual", "skipped"} \subseteq Stage
  BY DEF Row, Stage
<1>4. CASE Order(e) = "pending"
  BY <1>4 DEF AdjustStage
<1>5. CASE Order(e) = "skip"
  BY <1>2, <1>3, <1>5 DEF AdjustStage
<1>6. CASE Order(e) = "manual"
  BY <1>2, <1>3, <1>6 DEF AdjustStage
<1>7. CASE Order(e) = "confirm"
  <2>1. o = [s |-> Settling(IF agrees THEN s.bonus ELSE "manual"), b |-> books]
    BY <1>7 DEF AdjustStage
  <2>2. (IF agrees THEN s.bonus ELSE "manual") \in Stage
    BY <1>3
  <2> HIDE DEF o, agrees, Settling
  <2>3. QED
    BY <1>1, <1>7, <2>1, <2>2 DEF o
<1>8. CASE Order(e) = "apply" /\ KindOf[e] = "refund"
  <2>1. o = [s |-> Settling(s.bonus), b |-> RefundSubscription(books, TxOf[e])]
    BY <1>8 DEF AdjustStage
  <2> HIDE DEF o, Settling
  <2>2. QED
    BY <1>1, <1>3, <1>8, <2>1 DEF o
<1>9. CASE Order(e) = "apply" /\ KindOf[e] = "reverse"
  <2>1. o = IF pay.link /\ books.grant = "live"
            THEN [s |-> Settling("manual"), b |-> [books EXCEPT !.pay[TxOf[e]].status = "paid"]]
            ELSE [s |-> Settling(s.bonus),
                  b |-> IF pay.status = "refunded" THEN ReverseRefund(books, TxOf[e]) ELSE books]
    BY <1>9 DEF AdjustStage
  <2> HIDE DEF o, Settling
  <2>2. QED
    BY <1>1, <1>3, <1>9, <2>1 DEF o
<1>10. Order(e) \in {"pending", "skip", "manual", "confirm", "apply"}
  BY DEF Order
<1>11. KindOf[e] \in {"refund", "reverse"}
  BY DEF Adjusts
<1>12. QED
  BY <1>4, <1>5, <1>6, <1>7, <1>8, <1>9, <1>10, <1>11

\* Bookings of a purchase: the payment, once, and the decision on its bonus.
BooksPurchase(b, t, c) ==
    LET Open(d) == d.pay[t].status = "paid" /\ d.pay[t].review = "held"
    IN  \/ c = b \/ c = RecordPayment(b, t)
        \/ \E review \in Reviews, d \in {b, RecordPayment(b, t)} :
              Open(d) /\ c = FinishBonus(d, t, review)

LEMMA BonusCases ==
    ASSUME NEW t \in Txs, NEW s \in Row, NEW b, NEW review \in Reviews
    PROVE  LET o == BonusStage(t, s, b, review)
           IN  /\ SameEvent(o.s, s)
               /\ \/ o.b = b
                  \/ /\ b.pay[t].status = "paid" /\ b.pay[t].review = "held"
                     /\ o.b = FinishBonus(b, t, review)
<1>1. \A v \in Stage : SameEvent([s EXCEPT !.bonus = v], s)
  BY DEF Row, Stage, SameEvent
<1>2. Unresolved(t) # "none" => Unresolved(t) \in Stage
  BY DEF Unresolved, Stage
<1>3. {"done", "skipped"} \subseteq Stage /\ SameEvent(s, s)
  BY DEF Stage, SameEvent
<1>4. QED
  BY <1>1, <1>2, <1>3 DEF BonusStage

LEMMA PurchaseCases ==
    ASSUME NEW e \in Events, NEW s \in Row, NEW p \in Hand, NEW ok \in BOOLEAN,
           NEW proven \in BOOLEAN
    PROVE  LET o == PurchaseStage(e, s, p, ok, proven)
           IN  /\ SameEvent(o.s, s)
               /\ BooksPurchase(books, TxOf[e], o.b)
               /\ \/ o.b = books
                  \/ /\ ok /\ p.pay.status = "none" => s.access = "pending"
                     /\ ok
                     /\ p.pay.status # "none" => books.pay[TxOf[e]].status = "paid"
<1> DEFINE t == TxOf[e]
           known == p.pay.status # "none"
           first == p.before = NoRow /\ t = FirstTx
           b == IF s.payment = "pending" THEN RecordPayment(books, t) ELSE books
           r == [s EXCEPT !.payment = IF s.payment = "pending" THEN "done" ELSE s.payment]
           o == PurchaseStage(e, s, p, ok, proven)
<1>0. t \in Txs /\ p.review \in Reviews /\ SameEvent(s, s)
  BY Constants DEF Hand, SameEvent
<1>1. SameEvent(r, s) /\ r \in Row
  BY DEF SameEvent, Row, Stage
<1>2. CASE known /\ books.pay[t].status # "paid"
  <2>1. SameEvent([s EXCEPT !.payment = "done", !.bonus = "skipped"], s)
    BY DEF SameEvent, Row, Stage
  <2>2. QED
    BY <1>2, <2>1 DEF PurchaseStage, BooksPurchase
<1>3. CASE ~(known /\ books.pay[t].status # "paid") /\ (~ok \/ (~known /\ s.access # "pending"))
  BY <1>0, <1>3 DEF PurchaseStage, BooksPurchase
<1>4. CASE /\ ~(known /\ books.pay[t].status # "paid") /\ ~(~ok \/ (~known /\ s.access # "pending"))
           /\ ~known /\ ~first /\ ~proven
  <2>1. SameEvent([s EXCEPT !.payment = "manual", !.bonus = "manual"], s)
    BY DEF SameEvent, Row, Stage
  <2>2. QED
    BY <1>4, <2>1 DEF PurchaseStage, BooksPurchase
<1>5. CASE /\ ~(known /\ books.pay[t].status # "paid") /\ ~(~ok \/ (~known /\ s.access # "pending"))
           /\ ~(~known /\ ~first /\ ~proven) /\ (s.payment # "pending" /\ ~known)
  BY <1>0, <1>5 DEF PurchaseStage, BooksPurchase
<1>6. CASE /\ ~(known /\ books.pay[t].status # "paid") /\ ~(~ok \/ (~known /\ s.access # "pending"))
           /\ ~(~known /\ ~first /\ ~proven) /\ ~(s.payment # "pending" /\ ~known)
  <2>1. o = BonusStage(t, r, b, p.review)
    BY <1>6 DEF PurchaseStage, Row
  <2>2. /\ SameEvent(o.s, r)
        /\ \/ o.b = b
           \/ /\ b.pay[t].status = "paid" /\ b.pay[t].review = "held"
              /\ o.b = FinishBonus(b, t, p.review)
    BY <1>0, <1>1, <2>1, BonusCases
  <2>3. SameEvent(o.s, s)
    BY <1>1, <2>2 DEF SameEvent
  <2>4. b \in {books, RecordPayment(books, t)}
    OBVIOUS
  <2>5. BooksPurchase(books, t, o.b)
    BY <1>0, <2>2, <2>4 DEF BooksPurchase
  <2>6. QED
    BY <1>6, <2>3, <2>5
<1>7. QED
  BY <1>2, <1>3, <1>4, <1>5, <1>6

-----------------------------------------------------------------------------
(* The inbox: what a step makes of the rows and the books.                  *)

\* Nothing a purchase books moves a payment that is there, or makes it a pack.
SamePayments(b, c) ==
    \A t \in Txs : /\ b.pay[t].status # "none" => c.pay[t].status = b.pay[t].status
                   /\ PackOf(c, t) <=> PackOf(b, t)

LEMMA PurchaseQuiet ==
    ASSUME NEW b, Balanced(b), NEW t \in Txs, NEW c, BooksPurchase(b, t, c)
    PROVE  Balanced(c) /\ SamePayments(b, c) /\ (\A u \in Txs \ {t} : c.pay[u] = b.pay[u])
<1> DEFINE d == RecordPayment(b, t)
<1>1. Balanced(d)
  BY RecordKeeps
<1>2. Rest(b, d, t) /\ SamePayments(b, d)
  <2>1. b \in Books /\ b.pay[t].status \in {"none", "paid", "refunded"}
    BY DEF Balanced, Linked, Books, Pay
  <2>2. CASE b.pay[t].status = "none"
    <3>1. Rest(b, d, t) /\ d.pay[t].status = "paid" /\ d.pay[t].review = "held"
      BY <2>1, <2>2, Recorded
    <3> HIDE DEF d
    <3>2. QED
      BY <2>2, <3>1 DEF Rest, SamePayments, PackOf
  <2>3. CASE b.pay[t].status # "none"
    BY <2>1, <2>3 DEF RecordPayment, Rest, SamePayments
  <2>4. QED
    BY <2>2, <2>3
<1> HIDE DEF d
<1>3. ASSUME NEW x, Balanced(x), Rest(b, x, t), SamePayments(b, x), NEW review \in Reviews,
             x.pay[t].status = "paid", x.pay[t].review = "held"
      PROVE  LET y == FinishBonus(x, t, review)
             IN  Balanced(y) /\ SamePayments(b, y) /\ Rest(b, y, t)
  <2> DEFINE y == FinishBonus(x, t, review)
  <2>1. Balanced(y)
    BY <1>3, DecideKeeps DEF Reviews
  <2>2. Rest(x, y, t) /\ y.pay[t].status = "paid" /\ y.pay[t].review # "none"
    BY <1>3, Decided DEF Balanced, Linked, Reviews
  <2> HIDE DEF y
  <2>3. SamePayments(b, y) /\ Rest(b, y, t)
    BY <1>3, <2>2 DEF Rest, SamePayments, PackOf
  <2>4. QED
    BY <2>1, <2>3 DEF y
<1>4. Rest(b, b, t) /\ SamePayments(b, b)
  BY DEF Balanced, Linked, Rest, SamePayments
<1>5. CASE c = b \/ c = d
  BY <1>1, <1>2, <1>4, <1>5 DEF Rest
<1>6. CASE \E review \in Reviews, x \in {b, d} :
              x.pay[t].status = "paid" /\ x.pay[t].review = "held" /\ c = FinishBonus(x, t, review)
  BY <1>1, <1>2, <1>3, <1>4, <1>6 DEF Rest
<1>7. QED
  BY <1>5, <1>6 DEF BooksPurchase, d

\* A refund, a reversal or a sale of a pack.
BooksPack(b, t, c) ==
    /\ Rest(b, c, t)
    /\ b.pay[t].status = "none" \/ PackOf(b, t)
    /\ PackOf(c, t) /\ ~c.pay[t].link /\ c.grant = b.grant
    /\ c.balance = b.balance + (IF c.pay[t].status = "paid" THEN 1 ELSE 0)
                             - (IF b.pay[t].status = "paid" THEN 1 ELSE 0)

Effective(x) ==
    /\ Adjusts(x)
    /\ IF inbox[x].staged THEN inbox[x].adjust = "done" ELSE inbox[x].status = "processed"

QuietRow(x) ==
    /\ Effective(x)' <=> Effective(x)
    /\ Effective(x) => inbox'[x].staged = inbox[x].staged
    /\ Adjusts(x) /\ ~inbox'[x].staged => inbox'[x].adjust = "pending"

\* Three kinds of steps: no adjustment takes effect; a handler commits one that
\* was never staged, or of a pack; a stage commits one.
Quiet ==
    /\ \A x \in Events : QuietRow(x)
    /\ \/ books' = books
       \/ \E t \in Txs : BooksPurchase(books, t, books') /\ sub' # NoRow
       \/ \E t \in Txs : books.pay[t].status = "none" /\ BooksPack(books, t, books')

HandlerAdjusts(e) ==
    LET t == TxOf[e]
    IN  /\ Adjusts(e) /\ books.pay[t].status # "none"
        /\ \A x \in Events \ {e} : QuietRow(x)
        /\ inbox'[e].staged = inbox[e].staged /\ inbox'[e].adjust = inbox[e].adjust
        /\ inbox'[e].status = "processed" /\ (inbox[e].staged => PackOf(books, t))
        /\ \/ books' = books
           \/ ~PackOf(books, t) /\ books' = RefundSubscription(books, t)
           \/ /\ ~PackOf(books, t) /\ books.pay[t].status = "refunded"
              /\ books' = ReverseRefund(books, t)
           \/ PackOf(books, t) /\ BooksPack(books, t, books')

StageAdjusts(e) ==
    LET t == TxOf[e]
    IN  /\ Adjusts(e) /\ books.pay[t].status # "none" /\ ~PackOf(books, t)
        /\ \A x \in Events \ {e} : QuietRow(x)
        /\ ~Effective(e) /\ inbox'[e].staged /\ inbox'[e].adjust = "done"
        /\ \/ Order(e) = "confirm" /\ books' = books
           \/ /\ Order(e) = "apply" /\ KindOf[e] = "refund"
              /\ books' = RefundSubscription(books, t)
           \/ /\ Order(e) = "apply" /\ KindOf[e] = "reverse"
              /\ books' = IF books.pay[t].status = "refunded"
                          THEN ReverseRefund(books, t) ELSE books

\* The invariant.
LegacyHands ==
    /\ \A w \in Workers : wk[w].pc = "legacy" =>
          /\ inbox[wk[w].ev].status = "pending"
          /\ inbox[wk[w].ev].staged => ~Stageable(wk[w].ev)
    /\ \A w, v \in Workers :
          wk[w].pc = "legacy" /\ wk[v].pc = "legacy" /\ wk[w].ev = wk[v].ev => w = v
SubPaid       == \A t \in Txs : books.pay[t].status # "none" /\ ~PackOf(books, t) => sub # NoRow
Unstaged      == \A x \in Events : Adjusts(x) /\ ~inbox[x].staged => inbox[x].adjust = "pending"
CommittedPaid == \A x \in Events : Effective(x) => books.pay[TxOf[x]].status # "none"

InboxSound == InboxTyped /\ Balanced(books) /\ LegacyHands /\ SubPaid /\ Unstaged

\* A worker is done with e, and no other row changed.
Freed(w, e) ==
    /\ Free(w) /\ UNCHANGED world
    /\ \A v \in Workers \ {w} : wk[v].pc = "legacy" => wk[v].ev # e
    /\ inbox' \in [Events -> Row]
    /\ \A x \in Events \ {e} : inbox'[x] = inbox[x]

Moved == sub' = sub \/ SubMoves

LEMMA QuietRest ==
    ASSUME InboxSound, NEW x \in Events, inbox'[x] = inbox[x]
    PROVE  QuietRow(x)
BY DEF InboxSound, Unstaged, QuietRow, Effective

\* Dependency: nothing is changed.
LEMMA DependencyStep ==
    ASSUME InboxSound, NEW w \in Workers, NEW e \in Events, Dependency(w),
           \A v \in Workers \ {w} : wk[v].pc = "legacy" => wk[v].ev # e
    PROVE  Freed(w, e) /\ Moved /\ Quiet
BY QuietRest DEF Dependency, Freed, Moved, Quiet, InboxSound, InboxTyped

LEMMA RetriedRow ==
    ASSUME InboxSound, NEW e \in Events, inbox[e].status = "pending", inbox' = Retried(e)
    PROVE  /\ inbox' \in [Events -> Row] /\ \A x \in Events : QuietRow(x)
           /\ \A x \in Events \ {e} : inbox'[x] = inbox[x]
<1>1. /\ Retried(e) \in [Events -> Row]
      /\ \A x \in Events \ {e} : Retried(e)[x] = inbox[x]
      /\ Retried(e)[e].staged = inbox[e].staged
      /\ Retried(e)[e].adjust = inbox[e].adjust
      /\ Retried(e)[e].status # "processed"
  BY RetriedTyped DEF InboxSound
<1>2. \A x \in Events \ {e} : QuietRow(x)
  BY <1>1, QuietRest
<1>3. QuietRow(e)
  BY <1>1 DEF QuietRow, Effective, InboxSound, Unstaged
<1>4. QED
  BY <1>1, <1>2, <1>3

LEMMA ProcessedRow ==
    ASSUME InboxSound, NEW e \in Events,
           inbox' = [inbox EXCEPT ![e].status = "processed"]
    PROVE  /\ inbox' \in [Events -> Row] /\ \A x \in Events \ {e} : QuietRow(x)
           /\ \A x \in Events \ {e} : inbox'[x] = inbox[x]
           /\ inbox'[e].staged = inbox[e].staged /\ inbox'[e].adjust = inbox[e].adjust
           /\ inbox'[e].status = "processed"
           /\ ~Adjusts(e) => QuietRow(e)
<1> DEFINE r == [inbox[e] EXCEPT !.status = "processed"]
<1>1. inbox \in [Events -> Row] /\ inbox[e] \in Row
  BY DEF InboxSound, InboxTyped
<1>2. inbox' = [inbox EXCEPT ![e] = r]
  BY <1>1 DEF Row
<1>3. /\ r \in Row /\ r.status = "processed" /\ r.staged = inbox[e].staged
      /\ r.adjust = inbox[e].adjust
  BY <1>1 DEF Row
<1> HIDE DEF r
<1>4. inbox' \in [Events -> Row] /\ inbox'[e] = r /\ \A x \in Events \ {e} : inbox'[x] = inbox[x]
  BY <1>1, <1>2, <1>3
<1>5. \A x \in Events \ {e} : QuietRow(x)
  BY <1>4, QuietRest
<1>6. ~Adjusts(e) => QuietRow(e)
  BY DEF QuietRow, Effective, Adjusts
<1>7. QED
  BY <1>3, <1>4, <1>5, <1>6

LEMMA LegacyAlone ==
    ASSUME InboxSound, NEW w \in Workers, NEW e \in Events,
           wk[w].pc = "legacy" /\ wk[w].ev = e
    PROVE  /\ inbox[e].status = "pending" /\ (inbox[e].staged => ~Stageable(e))
           /\ \A v \in Workers \ {w} : wk[v].pc = "legacy" => wk[v].ev # e
           /\ TxOf[e] \in Txs /\ books \in Books /\ books.pay[TxOf[e]] \in Pay
BY Constants DEF InboxSound, LegacyHands, InboxTyped, Books

LEMMA PurchaseStep ==
    ASSUME InboxSound, NEW w \in Workers, NEW e \in Events, LegacyPurchase(w, e)
    PROVE  Freed(w, e) /\ Moved /\ Quiet
<1> DEFINE t == TxOf[e]
           open == \/ books.pay[t].status = "none"
                   \/ books.pay[t].review = "held" /\ books.pay[t].status = "paid"
<1>1. /\ wk[w].pc = "legacy" /\ wk[w].ev = e /\ KindOf[e] = "purchase" /\ ~Adopted
      /\ sub' = AfterActive(e)
  BY DEF LegacyPurchase, Legacy
<1>2. PICK review \in BonusReviews(t) :
        /\ books' = IF open THEN FinishBonus(RecordPayment(books, t), t, review) ELSE books
        /\ IF open /\ review = "held" THEN HandledPending(w, e) ELSE Processed(w, e)
  BY DEF LegacyPurchase
<1>3. /\ inbox[e].status = "pending"
      /\ \A v \in Workers \ {w} : wk[v].pc = "legacy" => wk[v].ev # e
      /\ t \in Txs /\ books \in Books
  BY <1>1, LegacyAlone
<1>4. review \in Reviews
  BY DEF BonusReviews, Reviews
<1>5. /\ Freed(w, e) /\ \A x \in Events : QuietRow(x)
  <2>1. ~Adjusts(e)
    BY <1>1 DEF Adjusts
  <2>2. CASE HandledPending(w, e)
    BY <1>3, <2>2, RetriedRow DEF HandledPending, Freed
  <2>3. CASE Processed(w, e)
    BY <1>3, <2>1, <2>3, ProcessedRow DEF Processed, Freed
  <2>4. QED
    BY <1>2, <2>2, <2>3
<1>6. sub' \in Sub /\ SubMoves
  BY <1>1, AfterActiveMoves DEF InboxSound, SubMoves
<1>7. sub' # NoRow
  BY <1>6, ProviderAssumption
<1>8. BooksPurchase(books, t, books')
  <2>1. CASE open
    <3> DEFINE d == RecordPayment(books, t)
    <3>1. d.pay[t].status = "paid" /\ d.pay[t].review = "held"
      <4>1. CASE books.pay[t].status = "none"
        BY <1>3, <4>1, Recorded
      <4>2. CASE books.pay[t].status # "none"
        BY <2>1, <4>2 DEF RecordPayment
      <4>3. QED
        BY <4>1, <4>2
    <3>2. books' = FinishBonus(d, t, review)
      BY <1>2, <2>1
    <3> HIDE DEF d
    <3>3. QED
      BY <1>4, <3>1, <3>2 DEF BooksPurchase, d
  <2>2. CASE ~open
    BY <1>2, <2>2 DEF BooksPurchase
  <2>3. QED
    BY <2>1, <2>2
<1>9. QED
  BY <1>3, <1>5, <1>6, <1>7, <1>8 DEF Moved, Quiet

LEMMA ProductStep ==
    ASSUME InboxSound, NEW w \in Workers, NEW e \in Events, LegacyProductChange(w, e)
    PROVE  Freed(w, e) /\ Moved /\ Quiet
<1>1. /\ wk[w].pc = "legacy" /\ wk[w].ev = e /\ KindOf[e] = "product" /\ ~Adopted
      /\ sub' = AfterActive(e) /\ Processed(w, e) /\ books' = books
  BY DEF LegacyProductChange, Legacy
<1>2. \A v \in Workers \ {w} : wk[v].pc = "legacy" => wk[v].ev # e
  BY <1>1, LegacyAlone
<1>3. Freed(w, e) /\ Quiet
  <2>1. ~Adjusts(e)
    BY <1>1 DEF Adjusts
  <2>2. QED
    BY <1>1, <1>2, <2>1, ProcessedRow DEF Processed, Freed, Quiet
<1>4. SubMoves
  BY <1>1, AfterActiveMoves DEF InboxSound, SubMoves
<1>5. QED
  BY <1>3, <1>4 DEF Moved

LEMMA StateStep ==
    ASSUME InboxSound, NEW w \in Workers, NEW e \in Events, LegacyState(w, e)
    PROVE  Freed(w, e) /\ Moved /\ Quiet
<1> DEFINE k == KindOf[e]
           skip == \/ k # "unsubscribe" /\ sub.status = "revoked"
                   \/ k = "expire" /\ EndOf[e] < sub.end
           expired == [sub EXCEPT !.status = "expired"]
           grace == [sub EXCEPT !.status = "grace_period", !.end = Later(sub.end, EndOf[e])]
           row == CASE k = "unsubscribe" -> RenewalOff
                    [] k = "expire" -> expired
                    [] k = "billing" -> grace
<1>1. /\ wk[w].pc = "legacy" /\ wk[w].ev = e
      /\ k \in {"unsubscribe", "expire", "billing"}
  BY DEF LegacyState
<1>2. \A v \in Workers \ {w} : wk[v].pc = "legacy" => wk[v].ev # e
  BY <1>1, LegacyAlone
<1>3. CASE Dependency(w)
  BY <1>2, <1>3, DependencyStep
<1>4. CASE ~Dependency(w)
  <2>1. /\ sub # NoRow /\ (~skip => ~Adopted) /\ Processed(w, e) /\ books' = books
        /\ sub \in Sub /\ sub.seen <= prov /\ prov \in Nat
        /\ EndOf[e] \in Nat /\ sub.end \in Nat
    BY <1>4, Constants DEF LegacyState, InboxSound, InboxTyped, Sub
  <2>2. sub' = IF skip \/ ~StateApplies(e) THEN sub ELSE Bumped(row, e)
    <3>1. grace = [sub EXCEPT !.status = "grace_period", !.end = Later(@, EndOf[e])]
      BY <2>1 DEF Sub
    <3>2. QED
      BY <1>4, <2>1, <3>1 DEF LegacyState
  <2>3. Freed(w, e) /\ Quiet
    <3>1. ~Adjusts(e)
      BY <1>1 DEF Adjusts
    <3>2. QED
      BY <1>2, <2>1, <3>1, ProcessedRow DEF Processed, Freed, Quiet
  <2>4. ASSUME ~skip PROVE Bumped(row, e) \in Sub /\ Bumped(row, e).seen = sub.seen
                           /\ (sub.status = "revoked" => Bumped(row, e).status = "revoked")
    <3>1. /\ RenewalOff \in Sub /\ RenewalOff.seen = sub.seen /\ RenewalOff.status = sub.status
          /\ expired \in Sub /\ expired.seen = sub.seen
          /\ grace \in Sub /\ grace.seen = sub.seen
      <4>1. Later(sub.end, EndOf[e]) \in Nat
        BY <2>1, Constants
      <4>2. QED
        BY <2>1, <4>1 DEF Sub, RenewalOff
    <3> HIDE DEF expired, grace
    <3>2. row \in {RenewalOff, expired, grace}
          /\ (sub.status = "revoked" => row = RenewalOff)
      BY <1>1, <2>4
    <3> HIDE DEF row
    <3>3. row \in Sub /\ row.seen = sub.seen /\ (sub.status = "revoked" => row.status = "revoked")
      BY <3>1, <3>2
    <3>4. QED
      BY <3>3, BumpedTyped
  <2> HIDE DEF skip, row
  <2>5. Moved
    <3>1. CASE skip \/ ~StateApplies(e)
      BY <2>2, <3>1 DEF Moved
    <3>2. CASE ~(skip \/ ~StateApplies(e))
      BY <2>1, <2>2, <2>4, <3>2 DEF Moved, SubMoves
    <3>3. QED
      BY <3>1, <3>2
  <2>6. QED
    BY <2>3, <2>5
<1>5. QED
  BY <1>3, <1>4

LEMMA WaitStep ==
    ASSUME InboxSound, NEW w \in Workers, NEW e \in Events,
           wk[w].pc = "legacy" /\ wk[w].ev = e, WithoutPayment(w, e)
    PROVE  Freed(w, e) /\ Moved /\ Quiet
<1>1. /\ inbox[e].status = "pending"
      /\ \A v \in Workers \ {w} : wk[v].pc = "legacy" => wk[v].ev # e
  BY LegacyAlone
<1>2. CASE Dependency(w)
  BY <1>1, <1>2, DependencyStep
<1>3. CASE ~Dependency(w)
  <2>1. /\ sub # NoRow /\ store.key /\ ~Adopted /\ sub' = Reconciled(sub, e, prov)
        /\ HandledPending(w, e) /\ books' = books
    BY <1>3 DEF WithoutPayment
  <2>2. /\ sub \in Sub /\ prov \in DOMAIN ProviderStates /\ prov \in Nat
    BY <2>1, Constants DEF InboxSound, InboxTyped
  <2>3. SubMoves
    BY <2>1, <2>2, ReconciledTyped DEF SubMoves
  <2>4. Freed(w, e) /\ Quiet
    BY <1>1, <2>1, RetriedRow DEF HandledPending, Freed, Quiet
  <2>5. QED
    BY <2>3, <2>4 DEF Moved
<1>4. QED
  BY <1>2, <1>3

LEMMA PackMoves ==
    ASSUME NEW b \in Books, NEW t \in Txs, NEW v \in {"paid", "refunded"},
           PackOf(b, t), ~b.pay[t].link,
           NEW n \in Int,
           n = b.balance + (IF v = "paid" THEN 1 ELSE 0)
                         - (IF b.pay[t].status = "paid" THEN 1 ELSE 0)
    PROVE  BooksPack(b, t, [b EXCEPT !.pay[t].status = v, !.balance = n])
<1> DEFINE q == [b.pay[t] EXCEPT !.status = v]
           c == [b EXCEPT !.pay[t].status = v, !.balance = n]
<1>1. b.pay \in [Txs -> Pay] /\ b.pay[t] \in Pay
  BY DEF Books
<1>2. q \in Pay /\ q.status = v /\ q.review = b.pay[t].review /\ q.link = b.pay[t].link
  BY <1>1 DEF Pay
<1>3. c = [b EXCEPT !.pay = [b.pay EXCEPT ![t] = q], !.balance = n]
  BY <1>1 DEF Books, Pay
<1> HIDE DEF q, c
<1>4. [b.pay EXCEPT ![t] = q] \in [Txs -> Pay]
  BY <1>1, <1>2
<1>5. c \in Books /\ c.pay = [b.pay EXCEPT ![t] = q] /\ c.grant = b.grant /\ c.balance = n
  BY <1>3, <1>4 DEF Books
<1>6. Rest(b, c, t) /\ c.pay[t] = q
  BY <1>1, <1>5 DEF Rest
<1>7. BooksPack(b, t, c)
  BY <1>2, <1>5, <1>6 DEF BooksPack, PackOf
<1>8. QED
  BY <1>7 DEF c

LEMMA RefundStep ==
    ASSUME InboxSound, NEW w \in Workers, NEW e \in Events, LegacyRefund(w, e)
    PROVE  Freed(w, e) /\ Moved /\ (Quiet \/ HandlerAdjusts(e))
<1> DEFINE t == TxOf[e]
           pay == books.pay[t]
<1>1. wk[w].pc = "legacy" /\ wk[w].ev = e /\ KindOf[e] = "refund" /\ Adjusts(e)
  BY DEF LegacyRefund, Legacy, Adjusts
<1>2. /\ inbox[e].status = "pending" /\ (inbox[e].staged => ~Stageable(e))
      /\ \A v \in Workers \ {w} : wk[v].pc = "legacy" => wk[v].ev # e
      /\ t \in Txs /\ books \in Books /\ pay \in Pay
  BY <1>1, LegacyAlone
<1>3. inbox[e].staged => PackOf(books, t)
  BY <1>1, <1>2 DEF Stageable, PackOf
<1>4. IsPack(t) <=> PackOf(books, t)
  BY DEF IsPack, PackOf
<1>5. CASE WithoutPayment(w, e)
  BY <1>1, <1>5, WaitStep
<1>6. CASE Dependency(w)
  BY <1>2, <1>6, DependencyStep
<1>7. CASE /\ pay.status # "none" /\ ~IsPack(t) /\ ~Adopted
           /\ sub' = IF sub.latest = t
                     THEN Bumped([sub EXCEPT !.status = "revoked"], e) ELSE sub
           /\ books' = RefundSubscription(books, t)
           /\ Processed(w, e)
  <2>1. sub \in Sub /\ sub.seen <= prov
    BY <1>2, <1>4, <1>7 DEF InboxSound, InboxTyped, SubPaid
  <2>2. Moved
    <3> DEFINE r == [sub EXCEPT !.status = "revoked"]
    <3>1. r \in Sub /\ r.status = "revoked" /\ r.seen = sub.seen
      BY <2>1 DEF Sub
    <3>2. sub' = sub \/ sub' = Bumped(r, e)
      BY <1>7
    <3> HIDE DEF r
    <3>3. QED
      BY <1>7, <2>1, <3>1, <3>2, BumpedTyped DEF Moved, SubMoves
  <2>3. Freed(w, e) /\ HandlerAdjusts(e)
    BY <1>1, <1>2, <1>3, <1>4, <1>7, ProcessedRow DEF Processed, Freed, HandlerAdjusts
  <2>4. QED
    BY <2>2, <2>3
<1>8. CASE /\ IsPack(t)
           /\ books' = IF pay.status = "refunded" THEN books
                       ELSE [books EXCEPT !.pay[t].status = "refunded", !.balance = @ - 1]
           /\ Processed(w, e) /\ UNCHANGED sub
  <2>1. books' = books \/ BooksPack(books, t, books')
    <3>1. ~pay.link
      BY <1>2, <1>4, <1>8 DEF InboxSound, Balanced, Linked, PackOf
    <3>2. CASE pay.status # "refunded"
      <4>1. pay.status = "paid" /\ books.balance \in Int
        BY <1>2, <1>4, <1>8, <3>2 DEF PackOf, Pay, Books
      <4> DEFINE n == books.balance - 1
      <4>2. n \in Int /\ n = books.balance + 0 - 1
        BY <4>1
      <4>3. books' = [books EXCEPT !.pay[t].status = "refunded", !.balance = n]
        BY <1>2, <1>8, <3>2 DEF Books
      <4> HIDE DEF n
      <4>4. BooksPack(books, t, [books EXCEPT !.pay[t].status = "refunded", !.balance = n])
        BY <1>2, <1>4, <1>8, <3>1, <4>1, <4>2, PackMoves
      <4>5. QED
        BY <4>3, <4>4
    <3>3. QED
      BY <1>8, <3>2
  <2>2. pay.status # "none"
    BY <1>8 DEF IsPack
  <2>3. Freed(w, e) /\ HandlerAdjusts(e)
    BY <1>1, <1>2, <1>3, <1>4, <1>8, <2>1, <2>2, ProcessedRow
    DEF Processed, Freed, HandlerAdjusts
  <2>4. QED
    BY <1>8, <2>3 DEF Moved
<1>9. QED
  BY <1>5, <1>6, <1>7, <1>8 DEF LegacyRefund

LEMMA ReverseStep ==
    ASSUME InboxSound, NEW w \in Workers, NEW e \in Events, LegacyReverse(w, e)
    PROVE  Freed(w, e) /\ Moved /\ (Quiet \/ HandlerAdjusts(e))
<1> DEFINE t == TxOf[e]
           pay == books.pay[t]
           revoked == pay.link => books.grant = "revoked"
<1>1. wk[w].pc = "legacy" /\ wk[w].ev = e /\ KindOf[e] = "reverse" /\ Adjusts(e)
  BY DEF LegacyReverse, Legacy, Adjusts
<1>2. /\ inbox[e].status = "pending" /\ (inbox[e].staged => ~Stageable(e))
      /\ \A v \in Workers \ {w} : wk[v].pc = "legacy" => wk[v].ev # e
      /\ t \in Txs /\ books \in Books /\ pay \in Pay
  BY <1>1, LegacyAlone
<1>3. inbox[e].staged => PackOf(books, t)
  BY <1>1, <1>2 DEF Stageable, PackOf
<1>4. IsPack(t) <=> PackOf(books, t)
  BY DEF IsPack, PackOf
<1>5. CASE WithoutPayment(w, e)
  BY <1>1, <1>5, WaitStep
<1>6. CASE Dependency(w)
  BY <1>2, <1>6, DependencyStep
<1>7. CASE /\ pay.status = "paid" /\ ~IsPack(t) /\ Processed(w, e) /\ UNCHANGED <<sub, books>>
  <2>1. Freed(w, e) /\ HandlerAdjusts(e)
    BY <1>1, <1>2, <1>3, <1>7, ProcessedRow DEF Processed, Freed, HandlerAdjusts
  <2>2. QED
    BY <1>7, <2>1 DEF Moved
<1>8. CASE /\ pay.status = "refunded" /\ ~IsPack(t) /\ ~Adopted
           /\ books' = ReverseRefund(books, t)
           /\ sub' = IF sub.latest = t /\ StateApplies(e)
                         /\ (pay.link => sub.status = "revoked")
                     THEN Bumped([sub EXCEPT !.status = "active"], e) ELSE sub
           /\ Processed(w, e)
  <2>1. sub \in Sub /\ sub.seen <= prov
    BY <1>2, <1>4, <1>8 DEF InboxSound, InboxTyped, SubPaid
  <2>2. Moved
    <3> DEFINE r == [sub EXCEPT !.status = "active"]
    <3>1. r \in Sub /\ r.last = sub.last /\ r.seen = sub.seen
      BY <2>1 DEF Sub
    <3>2. sub' = sub \/ (StateApplies(e) /\ sub' = Bumped(r, e))
      BY <1>8
    <3> HIDE DEF r
    <3>3. StateApplies(e) => Later(sub.last, StampOf[e]) > sub.last
      <4>1. sub.last \in Nat /\ StampOf[e] \in Nat /\ StampOf[e] > 0
        BY <2>1, Constants DEF Sub
      <4>2. QED
        BY <4>1 DEF StateApplies, Later
    <3>4. QED
      BY <1>8, <2>1, <3>1, <3>2, <3>3, BumpedTyped DEF Moved, SubMoves
  <2>3. Freed(w, e) /\ HandlerAdjusts(e)
    BY <1>1, <1>2, <1>3, <1>4, <1>8, ProcessedRow DEF Processed, Freed, HandlerAdjusts
  <2>4. QED
    BY <2>2, <2>3
<1>9. CASE /\ IsPack(t)
           /\ books' = IF pay.status # "refunded" THEN books
                       ELSE [books EXCEPT !.pay[t].status = "paid", !.balance = @ + 1]
           /\ Processed(w, e) /\ UNCHANGED sub
  <2>1. books' = books \/ BooksPack(books, t, books')
    <3>1. ~pay.link
      BY <1>2, <1>4, <1>9 DEF InboxSound, Balanced, Linked, PackOf
    <3>2. CASE pay.status = "refunded"
      <4>1. books.balance \in Int
        BY <1>2 DEF Books
      <4> DEFINE n == books.balance + 1
      <4>2. n \in Int /\ n = books.balance + 1 - 0
        BY <4>1
      <4>3. books' = [books EXCEPT !.pay[t].status = "paid", !.balance = n]
        BY <1>2, <1>9, <3>2 DEF Books
      <4> HIDE DEF n
      <4>4. BooksPack(books, t, [books EXCEPT !.pay[t].status = "paid", !.balance = n])
        BY <1>2, <1>4, <1>9, <3>1, <3>2, <4>2, PackMoves
      <4>5. QED
        BY <4>3, <4>4
    <3>3. QED
      BY <1>9, <3>2
  <2>2. pay.status # "none"
    BY <1>9 DEF IsPack
  <2>3. Freed(w, e) /\ HandlerAdjusts(e)
    BY <1>1, <1>2, <1>3, <1>4, <1>9, <2>1, <2>2, ProcessedRow
    DEF Processed, Freed, HandlerAdjusts
  <2>4. QED
    BY <1>9, <2>3 DEF Moved
<1>10. QED
  BY <1>5, <1>6, <1>7, <1>8, <1>9 DEF LegacyReverse

LEMMA PackStep ==
    ASSUME InboxSound, NEW w \in Workers, NEW e \in Events, LegacyPack(w, e)
    PROVE  Freed(w, e) /\ Moved /\ Quiet
<1> DEFINE t == TxOf[e]
           q == [NoPay EXCEPT !.status = "paid"]
<1>1. /\ wk[w].pc = "legacy" /\ wk[w].ev = e /\ KindOf[e] = "pack" /\ ~Adjusts(e)
      /\ books' = IF books.pay[t].status # "none" THEN books
                  ELSE [books EXCEPT !.pay[t] = q, !.balance = @ + 1]
      /\ Processed(w, e) /\ sub' = sub
  BY DEF LegacyPack, Legacy, Adjusts
<1>2. /\ \A v \in Workers \ {w} : wk[v].pc = "legacy" => wk[v].ev # e
      /\ t \in Txs /\ books \in Books
  BY <1>1, LegacyAlone
<1>3. q \in Pay /\ q.status = "paid" /\ q.review = "none" /\ ~q.link
  BY DEF NoPay, Pay
<1>4. CASE books.pay[t].status = "none"
  <2> DEFINE n == books.balance + 1
             c == books'
  <2>1. books.balance \in Int /\ n \in Int /\ books.pay \in [Txs -> Pay]
    BY <1>2 DEF Books
  <2> HIDE DEF q
  <2>2. [books.pay EXCEPT ![t] = q] \in [Txs -> Pay]
    BY <1>3, <2>1
  <2>3. c = [books EXCEPT !.pay = [books.pay EXCEPT ![t] = q], !.balance = n]
    BY <1>1, <1>2, <1>4 DEF Books
  <2> HIDE DEF c, n
  <2>4. /\ c \in Books /\ c.pay = [books.pay EXCEPT ![t] = q]
        /\ c.grant = books.grant /\ c.balance = n
    BY <1>2, <2>1, <2>2, <2>3 DEF Books
  <2>5. Rest(books, c, t) /\ c.pay[t] = q
    BY <1>2, <2>1, <2>4 DEF Rest
  <2>6. n = books.balance + 1 - 0
    BY <2>1 DEF n
  <2>7. BooksPack(books, t, c)
    BY <1>3, <1>4, <2>4, <2>5, <2>6 DEF BooksPack, PackOf
  <2>8. BooksPack(books, t, books')
    BY <2>7 DEF c
  <2>9. QED
    BY <1>1, <1>2, <1>4, <2>8, ProcessedRow DEF Processed, Freed, Moved, Quiet
<1>5. CASE books.pay[t].status # "none"
  BY <1>1, <1>2, <1>5, ProcessedRow DEF Processed, Freed, Moved, Quiet
<1>6. QED
  BY <1>4, <1>5

\* What a worker of the staged path knows when it comes back.
LEMMA Fetched ==
    ASSUME InboxSound, NEW w \in Workers, wk[w].pc = "fetched", inbox[wk[w].ev].status = "pending"
    PROVE  /\ wk[w] \in Hand /\ wk[w].ev \in Events /\ TxOf[wk[w].ev] \in Txs
           /\ Staging(w) \in Row /\ Staging(w).staged
           /\ Staging(w).adjust = inbox[wk[w].ev].adjust
           /\ Effective(wk[w].ev) => inbox[wk[w].ev].staged /\ Staging(w).adjust = "done"
           /\ Adjusts(wk[w].ev) /\ inbox[wk[w].ev].staged /\ Staging(w).adjust = "done"
                 => Effective(wk[w].ev)
           /\ Adjusts(wk[w].ev) /\ ~inbox[wk[w].ev].staged => Staging(w).adjust = "pending"
<1> DEFINE e == wk[w].ev
           r == inbox[e]
<1>1. wk[w] \in Hand /\ e \in Events /\ r \in Row
  BY DEF InboxSound, InboxTyped
<1>2. TxOf[e] \in Txs
  BY <1>1, Constants
<1>3. Staging(w) = [r EXCEPT !.staged = TRUE]
  BY DEF Staging
<1>4. Staging(w) \in Row /\ Staging(w).staged /\ Staging(w).adjust = r.adjust
  BY <1>1, <1>3 DEF Row
<1>5. QED
  BY <1>1, <1>2, <1>4 DEF Effective, InboxSound, Unstaged

LEMMA StagedRow ==
    ASSUME InboxSound, NEW w \in Workers, NEW e \in Events, wk[w].ev = e,
           wk[w].pc = "fetched", inbox[e].status = "pending",
           NEW s \in Row, s.staged, inbox' = [inbox EXCEPT ![e] = Finished(s)]
    PROVE  /\ inbox' \in [Events -> Row]
           /\ \A x \in Events \ {e} : inbox'[x] = inbox[x] /\ QuietRow(x)
           /\ inbox'[e].staged
           /\ inbox'[e].adjust = "done" <=> s.adjust = "done"
           /\ s.adjust = Staging(w).adjust \/ (s.adjust # "done" /\ Staging(w).adjust = "pending")
                 => QuietRow(e)
<1>1. /\ Finished(s) \in Row /\ Finished(s).staged
      /\ Finished(s).adjust = "done" <=> s.adjust = "done"
  BY FinishedTyped
<1>2. e \in Events /\ inbox \in [Events -> Row]
  BY Fetched DEF InboxSound, InboxTyped
<1>3. inbox' \in [Events -> Row] /\ inbox'[e] = Finished(s)
      /\ \A x \in Events \ {e} : inbox'[x] = inbox[x]
  BY <1>1, <1>2
<1>4. \A x \in Events \ {e} : QuietRow(x)
  BY <1>3, QuietRest
<1>5. ASSUME s.adjust = Staging(w).adjust \/ (s.adjust # "done" /\ Staging(w).adjust = "pending")
      PROVE  QuietRow(e)
  <2>1. /\ Effective(e) => inbox[e].staged /\ Staging(w).adjust = "done"
        /\ Adjusts(e) /\ inbox[e].staged /\ Staging(w).adjust = "done" => Effective(e)
        /\ Adjusts(e) /\ ~inbox[e].staged => Staging(w).adjust = "pending"
    BY Fetched
  <2>2. Effective(e)' <=> Adjusts(e) /\ s.adjust = "done"
    BY <1>1, <1>3 DEF Effective, Adjusts
  <2>3. QED
    BY <1>1, <1>3, <1>5, <2>1, <2>2 DEF QuietRow, Effective
<1>6. QED
  BY <1>1, <1>3, <1>4, <1>5

LEMMA AnsweredMoves ==
    ASSUME InboxSound, NEW w \in Workers, wk[w].pc = "fetched", inbox[wk[w].ev].status = "pending",
           NEW ok \in BOOLEAN, NEW proven \in BOOLEAN, AppliedAs(w, ok, proven), Free(w)
    PROVE  /\ Moved
           /\ ok /\ Staging(w).access = "pending" => sub' \in Sub
           /\ ~(ok /\ Staging(w).access = "pending") => sub' = sub
<1> DEFINE e == wk[w].ev
           old == IF sub = NoRow THEN NewSub(e) ELSE sub
<1>1. /\ ok => wk[w].ok
      /\ ~Changed(wk[w], Staging(w), ok) /\ sub' = AnsweredRow(w, ok)
  BY DEF AppliedAs
<1>2. CASE ~(ok /\ Staging(w).access = "pending")
  BY <1>1, <1>2 DEF AnsweredRow, Moved
<1>3. CASE ok /\ Staging(w).access = "pending"
  <2>1. /\ e \in Events /\ sub \in Sub \cup {NoRow} /\ prov \in Nat
        /\ store.key /\ wk[w].prov \in DOMAIN ProviderStates /\ wk[w].prov \in Nat
        /\ wk[w].prov <= prov
        /\ wk[w].found # NoRow => wk[w].found.seen <= wk[w].prov
    BY <1>1, <1>3, Fetched, Constants DEF InboxSound, InboxTyped, Staged
  <2>2. sub' = Projected(old, e, wk[w].prov)
    BY <1>1, <1>3 DEF AnsweredRow
  <2>3. old \in Sub
    BY <2>1, NewSubTyped
  <2>4. sub' \in Sub /\ sub'.seen = wk[w].prov /\ sub'.evidence
    BY <2>1, <2>2, <2>3, ReconciledTyped
  <2>5. wk'[w] = Idle
    BY DEF Free, InboxSound, InboxTyped
  <2>6. Adopted => sub'.seen >= sub.seen \/ (MetRow(w) /\ wk'[w] = Idle)
    <3>1. CASE wk[w].found # NoRow
      <4>1. sub = wk[w].found
        BY <1>1, <3>1 DEF Changed
      <4>2. Adopted => sub.seen \in Nat
        BY <2>1 DEF Adopted, Sub
      <4>3. QED
        BY <2>1, <2>4, <3>1, <4>1, <4>2
    <3>2. CASE wk[w].found = NoRow
      <4>1. sub # NoRow => wk[w].before # NoRow
        BY <1>1, <1>3 DEF Changed
      <4>2. QED
        BY <2>5, <3>2, <4>1 DEF Adopted, MetRow
    <3>3. QED
      BY <3>1, <3>2
  <2>7. SubMoves
    <3>1. Adopted => sub'.seen >= sub.seen \/ \E v \in Workers : MetRow(v) /\ wk'[v] = Idle
      BY <2>6
    <3>2. QED
      BY <2>1, <2>4, <3>1 DEF SubMoves
  <2>8. QED
    BY <1>3, <2>4, <2>7 DEF Moved
<1>4. QED
  BY <1>2, <1>3

LEMMA AppliedStep ==
    ASSUME InboxSound, NEW w \in Workers, NEW e \in Events, wk[w].ev = e,
           wk[w].pc = "fetched", inbox[e].status = "pending",
           NEW ok \in BOOLEAN, NEW proven \in BOOLEAN, AppliedAs(w, ok, proven), Free(w)
    PROVE  /\ inbox' \in [Events -> Row]
           /\ \A x \in Events \ {e} : inbox'[x] = inbox[x]
           /\ Quiet \/ StageAdjusts(e)
<1> DEFINE t == TxOf[e]
           s == Staging(w)
           o == Outcome(w, ok, proven)
           r == SettledRow(o.s, ok)
<1>1. /\ wk[w] \in Hand /\ e \in Events /\ t \in Txs /\ s \in Row /\ s.staged
  BY Fetched
<1>2. /\ ok => wk[w].ok
      /\ ~Changed(wk[w], s, ok)
      /\ inbox' = [inbox EXCEPT ![e] = Finished(r)]
      /\ books' = o.b
  BY DEF AppliedAs
<1>3. /\ ~(wk[w].pay.status # "none" /\ wk[w].pay.review = "none")
      /\ wk[w].pay.status # "none" => books.pay[t] = wk[w].pay
  BY <1>2 DEF Changed, InboxSound, InboxTyped, Staged
<1>4. ASSUME o.s \in Row PROVE SameEvent(r, o.s)
  <2> DEFINE q == o.s
  <2>1. (IF ok /\ q.access # "manual" THEN "verified" ELSE q.access)
           \in {"pending", "verified", "manual"}
    BY <1>4 DEF Row
  <2>2. r = [q EXCEPT !.access = IF ok /\ q.access # "manual" THEN "verified" ELSE q.access]
    BY <1>4 DEF SettledRow, Row
  <2> HIDE DEF q, r
  <2>3. q \in Row
    BY <1>4 DEF q
  <2>4. SameEvent(r, q)
    BY <2>1, <2>2, <2>3 DEF SameEvent, Row
  <2>5. QED
    BY <2>4 DEF q
<1>5. ASSUME SameEvent(o.s, s)
      PROVE  /\ inbox' \in [Events -> Row]
             /\ \A x \in Events \ {e} : inbox'[x] = inbox[x]
             /\ \A x \in Events : QuietRow(x)
  <2>1. r \in Row /\ r.staged /\ r.adjust = s.adjust
    BY <1>1, <1>4, <1>5 DEF SameEvent
  <2> HIDE DEF o, r
  <2>2. /\ inbox' \in [Events -> Row]
        /\ \A x \in Events \ {e} : inbox'[x] = inbox[x] /\ QuietRow(x)
        /\ r.adjust = Staging(w).adjust => QuietRow(e)
    BY <1>2, <2>1, StagedRow
  <2>3. QED
    BY <2>1, <2>2
<1>6. CASE Adjusts(e) /\ s.adjust = "pending" /\ wk[w].pay.status # "none"
  <2>1. o = AdjustStage(e, s)
    BY <1>6 DEF Outcome
  <2>2. /\ o.s \in Row /\ o.s.staged
        /\ \/ o.s.adjust # "done" /\ o.b = books
           \/ /\ o.s.adjust = "done"
              /\ \/ Order(e) = "confirm" /\ o.b = books
                 \/ /\ Order(e) = "apply" /\ KindOf[e] = "refund"
                    /\ o.b = RefundSubscription(books, t)
                 \/ /\ Order(e) = "apply" /\ KindOf[e] = "reverse"
                    /\ IF books.pay[t].link /\ books.grant = "live"
                       THEN o.b = [books EXCEPT !.pay[t].status = "paid"]
                       ELSE o.b = IF books.pay[t].status = "refunded"
                                  THEN ReverseRefund(books, t) ELSE books
    BY <1>1, <1>6, <2>1, AdjustCases
  <2>3. r \in Row /\ r.staged /\ r.adjust = o.s.adjust
    BY <1>4, <2>2 DEF SameEvent
  <2> HIDE DEF o, r
  <2>4. /\ inbox' \in [Events -> Row]
        /\ \A x \in Events \ {e} : inbox'[x] = inbox[x] /\ QuietRow(x)
        /\ inbox'[e].staged
        /\ inbox'[e].adjust = "done" <=> r.adjust = "done"
        /\ r.adjust # "done" => QuietRow(e)
    BY <1>2, <1>6, <2>3, StagedRow
  <2>5. CASE o.s.adjust # "done"
    BY <1>2, <2>2, <2>3, <2>4, <2>5 DEF Quiet
  <2>6. CASE o.s.adjust = "done"
    <3>1. ~PackOf(books, t) /\ books.pay[t].status # "none"
      BY <1>3, <1>6 DEF PackOf
    <3>2. ~Effective(e)
      BY <1>6, Fetched
    <3>3. books.pay[t].link /\ books.grant = "live"
             => /\ books.pay[t].status = "paid"
                /\ [books EXCEPT !.pay[t].status = "paid"] = books
      <4>1. books \in Books /\ books.pay[t] \in Pay
        BY <1>1 DEF InboxSound, InboxTyped, Books
      <4>2. books.pay[t].link /\ books.grant = "live" => books.pay[t].status = "paid"
        BY <1>1 DEF InboxSound, Balanced, Linked
      <4>3. QED
        BY <1>1, <4>1, <4>2 DEF Books, Pay
    <3>4. StageAdjusts(e)
      BY <1>2, <1>6, <2>2, <2>3, <2>4, <2>6, <3>1, <3>2, <3>3 DEF StageAdjusts
    <3>5. QED
      BY <2>4, <3>4
  <2>7. QED
    BY <2>5, <2>6
<1>7. CASE ~(Adjusts(e) /\ s.adjust = "pending" /\ wk[w].pay.status # "none") /\ IsPurchase(e)
  <2>1. o = PurchaseStage(e, s, wk[w], ok, proven)
    BY <1>7 DEF Outcome
  <2>2. /\ SameEvent(o.s, s)
        /\ BooksPurchase(books, t, o.b)
        /\ \/ o.b = books
           \/ /\ ok /\ wk[w].pay.status = "none" => s.access = "pending"
              /\ ok
              /\ wk[w].pay.status # "none" => books.pay[t].status = "paid"
    BY <1>1, <2>1, PurchaseCases
  <2>3. o.b # books => sub' # NoRow
    <3>1. ok /\ s.access = "pending" => sub' # NoRow
      BY AnsweredMoves, ProviderAssumption
    <3>2. ok /\ s.access # "pending" /\ o.b # books => sub' = sub /\ wk[w].pay.status # "none"
      BY <2>2, AnsweredMoves
    <3>3. wk[w].pay.status # "none" => sub # NoRow
      BY <1>1, <1>3 DEF InboxSound, SubPaid, PackOf
    <3>4. QED
      BY <2>2, <3>1, <3>2, <3>3
  <2>4. QED
    BY <1>1, <1>2, <1>5, <2>2, <2>3 DEF Quiet
<1>8. CASE ~(Adjusts(e) /\ s.adjust = "pending" /\ wk[w].pay.status # "none") /\ ~IsPurchase(e)
  <2>1. o.s = s /\ o.b = books
    BY <1>8 DEF Outcome
  <2>2. QED
    BY <1>1, <1>2, <1>5, <2>1 DEF Quiet, SameEvent
<1>9. QED
  BY <1>6, <1>7, <1>8

LEMMA ApplyStep ==
    ASSUME InboxSound, NEW w \in Workers, NEW e \in Events, wk[w].ev = e, Apply(w)
    PROVE  Freed(w, e) /\ Moved /\ (Quiet \/ StageAdjusts(e))
<1>1. /\ wk[w].pc = "fetched" /\ inbox[e].status = "pending" /\ ~Claimed(e)
      /\ Free(w) /\ UNCHANGED <<world, faults>>
      /\ Discarded(w) \/ \E ok \in BOOLEAN, proven \in BOOLEAN : AppliedAs(w, ok, proven)
  BY ApplyCases
<1>2. \A v \in Workers : wk[v].pc = "legacy" => wk[v].ev # e
  BY <1>1 DEF Claimed
<1>3. CASE Discarded(w)
  <2>1. /\ inbox' \in [Events -> Row]
        /\ \A x \in Events \ {e} : inbox'[x] = inbox[x]
        /\ \A x \in Events : QuietRow(x)
    <3>1. Staging(w) \in Row /\ Staging(w).staged
      BY <1>1, Fetched
    <3>2. QED
      BY <1>1, <1>3, <3>1, StagedRow DEF Discarded
  <2>2. QED
    BY <1>1, <1>2, <1>3, <2>1 DEF Discarded, Freed, Moved, Quiet
<1>4. ASSUME NEW ok \in BOOLEAN, NEW proven \in BOOLEAN, AppliedAs(w, ok, proven)
      PROVE  Freed(w, e) /\ Moved /\ (Quiet \/ StageAdjusts(e))
  BY <1>1, <1>2, <1>4, AppliedStep, AnsweredMoves DEF Freed
<1>5. QED
  BY <1>1, <1>3, <1>4

-----------------------------------------------------------------------------
(* The inbox: the invariant.                                                *)

Dropped(w) == Free(w) /\ UNCHANGED <<world, inbox>>

ProviderStep ==
    /\ UNCHANGED <<store, inbox, wk>>
    /\ prov' \in DOMAIN ProviderStates /\ prov' >= prov

HandsMove ==
    \/ \E w \in Workers, e \in Events : Freed(w, e) \/ Select(w, e) \/ Find(w, e)
    \/ \E w \in Workers : Dropped(w) \/ Ask(w) \/ Match(w)
    \/ \E e \in Events : Ingest(e)
    \/ ProviderStep

MoneyMoves == Quiet \/ \E e \in Events : HandlerAdjusts(e) \/ StageAdjusts(e)

LEMMA NothingBooked ==
    ASSUME InboxSound, UNCHANGED <<inbox, sub, books>>
    PROVE  Moved /\ MoneyMoves
BY QuietRest DEF Moved, MoneyMoves, Quiet

LEMMA InboxSteps ==
    ASSUME InboxSound, [InboxNext]_inboxVars
    PROVE  Moved /\ MoneyMoves /\ HandsMove
<1>1. ASSUME NEW e \in Events, Ingest(e) PROVE Moved /\ MoneyMoves /\ HandsMove
  <2>1. /\ sub' = sub /\ books' = books /\ inbox[e].status = "none"
        /\ inbox' = [inbox EXCEPT ![e].status = "pending"]
        /\ inbox \in [Events -> Row] /\ inbox[e] \in Row
    BY <1>1 DEF Ingest, InboxSound, InboxTyped
  <2>2. /\ inbox'[e].staged = inbox[e].staged /\ inbox'[e].adjust = inbox[e].adjust
        /\ inbox'[e].status = "pending"
        /\ \A x \in Events \ {e} : inbox'[x] = inbox[x]
    BY <2>1 DEF Row
  <2>3. QuietRow(e)
    BY <2>1, <2>2 DEF QuietRow, Effective, InboxSound, Unstaged
  <2>4. \A x \in Events : QuietRow(x)
    BY <2>2, <2>3, QuietRest
  <2>5. QED
    BY <1>1, <2>1, <2>4 DEF Moved, MoneyMoves, Quiet, HandsMove
<1>2. ASSUME NEW w \in Workers,
             Ask(w) \/ Match(w) \/ \E e \in Events : Select(w, e) \/ Find(w, e)
      PROVE  Moved /\ MoneyMoves /\ HandsMove
  <2>1. CASE Ask(w) \/ Match(w)
    <3>1. UNCHANGED <<inbox, sub, books>>
      BY <2>1 DEF Ask, Match
    <3>2. QED
      BY <2>1, <3>1, NothingBooked DEF HandsMove
  <2>2. ASSUME NEW e \in Events, Select(w, e) \/ Find(w, e)
        PROVE  Moved /\ MoneyMoves /\ HandsMove
    <3>1. UNCHANGED <<inbox, sub, books>>
      BY <2>2 DEF Select, Find
    <3>2. QED
      BY <2>2, <3>1, NothingBooked DEF HandsMove
  <2>3. QED
    BY <1>2, <2>1, <2>2
<1>3. ASSUME NEW w \in Workers, NEW e \in Events, LegacyHandle(w, e)
      PROVE  Moved /\ MoneyMoves /\ HandsMove
  <2>1. CASE LegacyActiveBlocked(w, e)
    <3>1. wk[w].pc = "legacy" /\ wk[w].ev = e /\ Dependency(w)
      BY <2>1 DEF LegacyActiveBlocked, Legacy
    <3>2. QED
      BY <3>1, LegacyAlone, DependencyStep DEF MoneyMoves, HandsMove
  <2>2. CASE LegacyPurchase(w, e)
    BY <2>2, PurchaseStep DEF MoneyMoves, HandsMove
  <2>3. CASE LegacyProductChange(w, e)
    BY <2>3, ProductStep DEF MoneyMoves, HandsMove
  <2>4. CASE LegacyState(w, e)
    BY <2>4, StateStep DEF MoneyMoves, HandsMove
  <2>5. CASE LegacyRefund(w, e)
    BY <2>5, RefundStep DEF MoneyMoves, HandsMove
  <2>6. CASE LegacyReverse(w, e)
    BY <2>6, ReverseStep DEF MoneyMoves, HandsMove
  <2>7. CASE LegacyPack(w, e)
    BY <2>7, PackStep DEF MoneyMoves, HandsMove
  <2>8. QED
    BY <1>3, <2>1, <2>2, <2>3, <2>4, <2>5, <2>6, <2>7 DEF LegacyHandle
<1>4. ASSUME NEW w \in Workers, Apply(w) PROVE Moved /\ MoneyMoves /\ HandsMove
  <2>1. PICK e \in Events : wk[w].ev = e
    BY <1>4 DEF Apply, InboxSound, InboxTyped
  <2>2. QED
    BY <1>4, <2>1, ApplyStep DEF MoneyMoves, HandsMove
<1>5. ASSUME NEW w \in Workers, Skipped(w) \/ Crash(w)
      PROVE  Moved /\ MoneyMoves /\ HandsMove
  <2>1. UNCHANGED <<inbox, sub, books>> /\ Dropped(w)
    BY <1>5 DEF Skipped, Crash, Dependency, Dropped
  <2>2. QED
    BY <2>1, NothingBooked DEF HandsMove
<1>6. ASSUME NEW w \in Workers, Raise(w) PROVE Moved /\ MoneyMoves /\ HandsMove
  <2>1. PICK e \in Events : wk[w].ev = e
    BY <1>6 DEF Raise, InboxSound, InboxTyped
  <2>2. /\ sub' = sub /\ books' = books /\ Free(w) /\ UNCHANGED world
        /\ \A v \in Workers \ {w} : wk[v].pc = "legacy" => wk[v].ev # e
        /\ inbox' = IF inbox[e].status = "pending" THEN Retried(e) ELSE inbox
    BY <1>6, <2>1 DEF Raise
  <2>3. /\ inbox' \in [Events -> Row] /\ \A x \in Events : QuietRow(x)
        /\ \A x \in Events \ {e} : inbox'[x] = inbox[x]
    BY <2>2, RetriedRow, QuietRest DEF InboxSound, InboxTyped
  <2>4. Freed(w, e) /\ Quiet
    BY <2>2, <2>3 DEF Freed, Quiet
  <2>5. QED
    BY <2>2, <2>4 DEF Moved, MoneyMoves, HandsMove
<1>7. CASE ProviderMoves \/ UNCHANGED inboxVars
  <2>1. /\ Cardinality(DOMAIN ProviderStates) \in Nat /\ prov \in Nat
        /\ DOMAIN ProviderStates = 1..Cardinality(DOMAIN ProviderStates)
        /\ prov \in DOMAIN ProviderStates
    BY ProviderAssumption, FS_CardinalityType, Constants DEF InboxSound, InboxTyped
  <2>2. UNCHANGED <<inbox, sub, books>> /\ ProviderStep
    <3>1. CASE ProviderMoves
      BY <2>1, <3>1 DEF ProviderMoves, ProviderStep
    <3>2. CASE UNCHANGED inboxVars
      BY <2>1, <3>2 DEF inboxVars, ProviderStep
    <3>3. QED
      BY <1>7, <3>1, <3>2
  <2>3. QED
    BY <2>2, NothingBooked DEF HandsMove
<1>8. QED
  BY <1>1, <1>2, <1>3, <1>4, <1>5, <1>6, <1>7 DEF InboxNext

\* A payment that is there stays there, and stays a period or a pack.
PaymentsKept(b, c) ==
    \A t \in Txs : b.pay[t].status # "none"
        => c.pay[t].status # "none" /\ (PackOf(c, t) <=> PackOf(b, t))

LEMMA RestKept ==
    ASSUME NEW b, NEW c, NEW t \in Txs, Rest(b, c, t), c.pay[t].status # "none",
           PackOf(c, t) <=> PackOf(b, t)
    PROVE  PaymentsKept(b, c)
BY DEF Rest, PaymentsKept, PackOf

LEMMA MoneyKept ==
    ASSUME InboxSound, Moved, MoneyMoves
    PROVE  Balanced(books') /\ PaymentsKept(books, books') /\ SubPaid' /\ Unstaged'
<1>0. Balanced(books) /\ books \in Books /\ SubPaid /\ Unstaged
  BY DEF InboxSound, Balanced, Linked
<1>1. sub # NoRow => sub' # NoRow
  BY ProviderAssumption DEF Moved, SubMoves
<1>2. CASE Quiet
  <2>1. Unstaged'
    BY <1>2 DEF Quiet, QuietRow, Unstaged, Adjusts
  <2>2. CASE books' = books
    BY <1>0, <1>1, <2>1, <2>2 DEF PaymentsKept, SubPaid
  <2>3. ASSUME NEW t \in Txs, BooksPurchase(books, t, books'), sub' # NoRow
        PROVE  Balanced(books') /\ PaymentsKept(books, books') /\ SubPaid'
    BY <1>0, <2>3, PurchaseQuiet DEF PaymentsKept, SamePayments, SubPaid
  <2>4. ASSUME NEW t \in Txs, books.pay[t].status = "none", BooksPack(books, t, books')
        PROVE  Balanced(books') /\ PaymentsKept(books, books') /\ SubPaid'
    <3>1. Balanced(books')
      BY <1>0, <2>4, PackKeeps DEF BooksPack
    <3>2. PaymentsKept(books, books')
      BY <2>4 DEF BooksPack, Rest, PaymentsKept, PackOf
    <3>3. SubPaid'
      BY <1>0, <1>1, <2>4 DEF BooksPack, Rest, SubPaid, PackOf
    <3>4. QED
      BY <3>1, <3>2, <3>3
  <2>5. QED
    BY <1>2, <2>1, <2>2, <2>3, <2>4 DEF Quiet
<1>3. ASSUME Balanced(books'), PaymentsKept(books, books'),
             \A t \in Txs : books.pay[t].status = "none" => books'.pay[t].status = "none"
      PROVE  SubPaid'
  BY <1>0, <1>1, <1>3 DEF SubPaid, PaymentsKept
<1>4. ASSUME NEW e \in Events, HandlerAdjusts(e)
      PROVE  Balanced(books') /\ PaymentsKept(books, books') /\ SubPaid' /\ Unstaged'
  <2> DEFINE t == TxOf[e]
  <2>1. t \in Txs /\ books.pay[t].status # "none"
    BY <1>4, Constants DEF HandlerAdjusts
  <2>2. Unstaged'
    BY <1>0, <1>4 DEF HandlerAdjusts, QuietRow, Unstaged, Adjusts
  <2>3. \/ books' = books
        \/ /\ Balanced(books') /\ Rest(books, books', t) /\ books'.pay[t].status # "none"
           /\ PackOf(books', t) <=> PackOf(books, t)
    <3>1. CASE ~PackOf(books, t) /\ books' = RefundSubscription(books, t)
      BY <1>0, <2>1, <3>1, RefundKeeps
    <3>2. CASE /\ ~PackOf(books, t) /\ books.pay[t].status = "refunded"
               /\ books' = ReverseRefund(books, t)
      BY <1>0, <2>1, <3>2, ReverseKeeps
    <3>3. CASE PackOf(books, t) /\ BooksPack(books, t, books')
      <4>1. Balanced(books')
        BY <1>0, <2>1, <3>3, PackKeeps DEF BooksPack
      <4>2. QED
        BY <3>3, <4>1 DEF BooksPack, PackOf
    <3>4. QED
      BY <1>4, <3>1, <3>2, <3>3 DEF HandlerAdjusts
  <2>4. Balanced(books') /\ PaymentsKept(books, books')
    BY <1>0, <2>1, <2>3, RestKept DEF PaymentsKept
  <2>5. \A u \in Txs : books.pay[u].status = "none" => books'.pay[u].status = "none"
    BY <2>1, <2>3 DEF Rest
  <2>6. QED
    BY <1>3, <2>2, <2>4, <2>5
<1>5. ASSUME NEW e \in Events, StageAdjusts(e)
      PROVE  Balanced(books') /\ PaymentsKept(books, books') /\ SubPaid' /\ Unstaged'
  <2> DEFINE t == TxOf[e]
  <2>1. t \in Txs /\ books.pay[t].status # "none" /\ ~PackOf(books, t)
    BY <1>5, Constants DEF StageAdjusts
  <2>2. Unstaged'
    BY <1>0, <1>5 DEF StageAdjusts, QuietRow, Unstaged, Adjusts
  <2>3. \/ books' = books
        \/ /\ Balanced(books') /\ Rest(books, books', t) /\ books'.pay[t].status # "none"
           /\ PackOf(books', t) <=> PackOf(books, t)
    <3>1. CASE books' = RefundSubscription(books, t)
      BY <1>0, <2>1, <3>1, RefundKeeps
    <3>2. CASE books.pay[t].status = "refunded" /\ books' = ReverseRefund(books, t)
      BY <1>0, <2>1, <3>2, ReverseKeeps
    <3>3. QED
      BY <1>5, <3>1, <3>2 DEF StageAdjusts
  <2>4. Balanced(books') /\ PaymentsKept(books, books')
    BY <1>0, <2>1, <2>3, RestKept DEF PaymentsKept
  <2>5. \A u \in Txs : books.pay[u].status = "none" => books'.pay[u].status = "none"
    BY <2>1, <2>3 DEF Rest
  <2>6. QED
    BY <1>3, <2>2, <2>4, <2>5
<1>6. QED
  BY <1>2, <1>4, <1>5 DEF MoneyMoves

\* A payment of a pack keeps the event off the staged path for good.
LEMMA StageableKept ==
    ASSUME PaymentsKept(books, books'), NEW e \in Events, ~Stageable(e)
    PROVE  ~Stageable(e)'
<1>1. CASE KindOf[e] = "pack"
  BY <1>1 DEF Stageable
<1>2. CASE KindOf[e] # "pack"
  <2>1. TxOf[e] \in Txs /\ PackOf(books, TxOf[e])
    BY <1>2, Constants DEF Stageable, PackOf
  <2>2. PackOf(books', TxOf[e])
    BY <2>1 DEF PaymentsKept, PackOf
  <2>3. QED
    BY <2>2 DEF Stageable, PackOf
<1>3. QED
  BY <1>1, <1>2

LEMMA LegacyHandsStep ==
    ASSUME InboxSound, HandsMove, PaymentsKept(books, books')
    PROVE  LegacyHands'
<1>1. /\ wk \in [Workers -> Hand] /\ Idle.pc = "idle" /\ inbox \in [Events -> Row]
      /\ \A w \in Workers : wk[w].pc = "legacy" => wk[w].ev \in Events
  BY IdleTyped DEF InboxSound, InboxTyped
<1>2. \A w \in Workers : wk[w].pc = "legacy" =>
          /\ inbox[wk[w].ev].status = "pending"
          /\ inbox[wk[w].ev].staged => ~Stageable(wk[w].ev)
  BY DEF InboxSound, LegacyHands
<1>3. \A w, v \in Workers :
          wk[w].pc = "legacy" /\ wk[v].pc = "legacy" /\ wk[w].ev = wk[v].ev => w = v
  BY DEF InboxSound, LegacyHands
<1>4. ASSUME NEW w \in Workers, wk'[w] = wk[w], wk[w].pc = "legacy",
             inbox'[wk[w].ev] = inbox[wk[w].ev]
      PROVE  /\ inbox'[wk'[w].ev].status = "pending"
             /\ inbox'[wk'[w].ev].staged => ~Stageable(wk[w].ev)'
  <2>1. PICK e \in Events : wk[w].ev = e
    BY <1>1, <1>4
  <2>2. wk'[w].ev = e /\ inbox'[e] = inbox[e]
    BY <1>4, <2>1
  <2>3. inbox[e].staged => ~Stageable(e)'
    BY <1>2, <1>4, <2>1, StageableKept
  <2>4. QED
    BY <1>2, <1>4, <2>1, <2>2, <2>3
<1>5. ASSUME NEW w \in Workers, Free(w),
             \A v \in Workers \ {w} : wk[v].pc = "legacy" => inbox'[wk[v].ev] = inbox[wk[v].ev]
      PROVE  LegacyHands'
  <2>1. wk'[w].pc = "idle" /\ \A v \in Workers \ {w} : wk'[v] = wk[v]
    BY <1>1, <1>5 DEF Free
  <2>2. QED
    BY <1>3, <1>4, <1>5, <2>1 DEF LegacyHands
<1>6. ASSUME NEW w \in Workers, NEW e \in Events, Freed(w, e) PROVE LegacyHands'
  BY <1>1, <1>5, <1>6 DEF Freed
<1>7. ASSUME NEW w \in Workers, Dropped(w) PROVE LegacyHands'
  BY <1>5, <1>7 DEF Dropped
<1>8. ASSUME NEW w \in Workers, NEW e \in Events, Select(w, e) PROVE LegacyHands'
  <2> DEFINE h == [Idle EXCEPT !.pc = "legacy", !.ev = e]
  <2>1. /\ inbox[e].status = "pending" /\ ~Claimed(e) /\ ~(Stageable(e) /\ Sticky(e))
        /\ wk' = [wk EXCEPT ![w] = h]
        /\ inbox' = inbox /\ books' = books
    BY <1>8 DEF Select
  <2>2. h.pc = "legacy" /\ h.ev = e
    BY DEF Idle
  <2> HIDE DEF h
  <2>3. wk'[w] = h /\ \A v \in Workers \ {w} : wk'[v] = wk[v]
    BY <1>1, <2>1
  <2>4. \A v \in Workers : wk[v].pc = "legacy" => wk[v].ev # e
    BY <2>1 DEF Claimed
  <2>5. inbox[e].staged => ~Stageable(e)'
    BY <2>1 DEF Sticky, Stageable
  <2>6. \A v \in Workers : wk'[v].pc = "legacy" =>
          /\ inbox'[wk'[v].ev].status = "pending"
          /\ inbox'[wk'[v].ev].staged => ~Stageable(wk[v].ev)'
    <3>1. /\ inbox'[wk'[w].ev].status = "pending"
          /\ inbox'[wk'[w].ev].staged => ~Stageable(wk[w].ev)'
      <4>1. wk'[w].ev = e
        BY <2>2, <2>3
      <4>2. QED
        BY <2>1, <2>5, <4>1
    <3>2. QED
      BY <1>4, <2>1, <2>3, <3>1
  <2>7. \A u, v \in Workers :
          wk'[u].pc = "legacy" /\ wk'[v].pc = "legacy" /\ wk'[u].ev = wk'[v].ev => u = v
    BY <1>3, <2>2, <2>3, <2>4
  <2>8. QED
    BY <2>6, <2>7 DEF LegacyHands
<1>9. ASSUME NEW w \in Workers, Ask(w) \/ Match(w) \/ \E e \in Events : Find(w, e)
      PROVE  LegacyHands'
  <2>1. /\ inbox' = inbox /\ wk'[w].pc \in Staged
        /\ \A v \in Workers \ {w} : wk'[v] = wk[v]
    <3>1. ASSUME NEW e \in Events, Find(w, e)
          PROVE  /\ inbox' = inbox /\ wk'[w].pc \in Staged
                 /\ \A v \in Workers \ {w} : wk'[v] = wk[v]
      BY <1>1, <3>1 DEF Find, Idle, Staged
    <3>2. CASE Ask(w)
      BY <1>1, <3>2 DEF Ask, Hand, Staged
    <3>3. CASE Match(w)
      BY <1>1, <3>3 DEF Match, Hand, Staged
    <3>4. QED
      BY <1>9, <3>1, <3>2, <3>3
  <2>2. wk'[w].pc # "legacy"
    BY <2>1 DEF Staged
  <2>3. QED
    BY <1>3, <1>4, <2>1, <2>2 DEF LegacyHands
<1>10. ASSUME NEW e \in Events, Ingest(e) PROVE LegacyHands'
  <2>1. /\ wk' = wk /\ inbox[e].status = "none"
        /\ \A x \in Events \ {e} : inbox'[x] = inbox[x]
    BY <1>1, <1>10 DEF Ingest
  <2>2. \A v \in Workers : wk[v].pc = "legacy" => inbox'[wk[v].ev] = inbox[wk[v].ev]
    BY <1>1, <1>2, <2>1
  <2>3. QED
    BY <1>3, <1>4, <2>1, <2>2 DEF LegacyHands
<1>11. CASE ProviderStep
  BY <1>3, <1>4, <1>11 DEF ProviderStep, LegacyHands
<1>12. QED
  BY <1>6, <1>7, <1>8, <1>9, <1>10, <1>11 DEF HandsMove

\* What a worker holds, seen from the provider's answers so far.
HandTyped(h, n) ==
    /\ h \in Hand
    /\ h.pc # "idle" => h.ev \in Events
    /\ h.pc \in Staged =>
          /\ h.found # NoRow => h.found.seen <= n
          /\ h.ok => /\ store.key
                     /\ h.prov \in DOMAIN ProviderStates /\ h.prov <= n
                     /\ h.found # NoRow => h.found.seen <= h.prov
          /\ ~(h.pay.status # "none" /\ h.pay.review = "none")

LEMMA InboxTypedStep ==
    ASSUME InboxSound, Moved, HandsMove, Balanced(books')
    PROVE  InboxTyped'
<1>1. /\ store \in Stores /\ prov \in DOMAIN ProviderStates /\ prov \in Nat
      /\ inbox \in [Events -> Row] /\ books \in Books
      /\ sub \in Sub \cup {NoRow} /\ (sub # NoRow => sub.seen <= prov)
      /\ wk \in [Workers -> Hand] /\ \A w \in Workers : HandTyped(wk[w], prov)
  BY Constants DEF InboxSound, InboxTyped, HandTyped
<1>2. /\ store' = store /\ prov' \in DOMAIN ProviderStates /\ prov' \in Nat /\ prov' >= prov
  <2>1. \/ store' = store /\ prov' = prov
        \/ ProviderStep
    <3>1. ASSUME NEW w \in Workers, Ask(w) \/ Match(w) \/ Dropped(w)
          PROVE  store' = store /\ prov' = prov
      BY <3>1 DEF Ask, Match, Dropped, world
    <3>2. ASSUME NEW w \in Workers, NEW e \in Events, Freed(w, e) \/ Select(w, e) \/ Find(w, e)
          PROVE  store' = store /\ prov' = prov
      BY <3>2 DEF Freed, Select, Find, world
    <3>3. ASSUME NEW e \in Events, Ingest(e) PROVE store' = store /\ prov' = prov
      BY <3>3 DEF Ingest, world
    <3>4. QED
      BY <3>1, <3>2, <3>3 DEF HandsMove
  <2>2. CASE store' = store /\ prov' = prov
    BY <1>1, <2>2
  <2>3. CASE ProviderStep
    <3>1. store' = store /\ prov' \in DOMAIN ProviderStates /\ prov' >= prov
      BY <2>3 DEF ProviderStep
    <3>2. QED
      BY <3>1, Constants
  <2>4. QED
    BY <2>1, <2>2, <2>3
<1>3. inbox' \in [Events -> Row]
  <2>1. ASSUME NEW e \in Events, Ingest(e) PROVE inbox' \in [Events -> Row]
    <3> DEFINE r == [inbox[e] EXCEPT !.status = "pending"]
    <3>1. r \in Row
      BY <1>1 DEF Row
    <3>2. inbox' = [inbox EXCEPT ![e] = r]
      BY <1>1, <2>1 DEF Ingest, Row
    <3> HIDE DEF r
    <3>3. QED
      BY <1>1, <3>1, <3>2
  <2>2. ASSUME NEW w \in Workers, Ask(w) \/ Match(w) PROVE inbox' = inbox
    BY <2>2 DEF Ask, Match
  <2>3. QED
    BY <1>1, <2>1, <2>2 DEF HandsMove, Freed, Dropped, Select, Find, ProviderStep
<1>4. sub' \in Sub \cup {NoRow} /\ (sub' # NoRow => sub'.seen <= prov')
  <2>1. sub' \in Sub => sub'.seen \in Nat
    BY DEF Sub
  <2>2. CASE sub' = sub
    <3>1. sub # NoRow => sub \in Sub
      BY <1>1
    <3>2. QED
      BY <1>1, <1>2, <2>1, <2>2, <3>1
  <2>3. CASE SubMoves
    BY <1>1, <1>2, <2>1, <2>3 DEF SubMoves
  <2>4. QED
    BY <2>2, <2>3 DEF Moved
<1>5. \A h \in Hand : HandTyped(h, prov) => HandTyped(h, prov')
  <2>1. SUFFICES ASSUME NEW h \in Hand, HandTyped(h, prov) PROVE HandTyped(h, prov')
    OBVIOUS
  <2>2. h.prov \in Nat /\ (h.found # NoRow => h.found.seen \in Nat)
    BY DEF Hand, Sub
  <2>3. \A k \in Nat : k <= prov => k <= prov'
    BY <1>1, <1>2
  <2>4. CASE h.pc \in Staged
    <3>1. /\ h.found # NoRow => h.found.seen <= prov
          /\ h.ok => /\ store.key
                     /\ h.prov \in DOMAIN ProviderStates /\ h.prov <= prov
                     /\ h.found # NoRow => h.found.seen <= h.prov
          /\ h.ev \in Events \/ h.pc = "idle"
          /\ ~(h.pay.status # "none" /\ h.pay.review = "none")
      BY <2>1, <2>4 DEF HandTyped
    <3>2. /\ h.found # NoRow => h.found.seen <= prov'
          /\ h.ok => h.prov <= prov'
      BY <2>2, <2>3, <3>1
    <3>3. QED
      BY <3>1, <3>2 DEF HandTyped
  <2>5. CASE h.pc \notin Staged
    BY <2>1, <2>5 DEF HandTyped
  <2>6. QED
    BY <2>4, <2>5
<1>6. wk' \in [Workers -> Hand] /\ \A w \in Workers : HandTyped(wk'[w], prov')
  <2>1. HandTyped(Idle, prov')
    BY IdleTyped DEF HandTyped, Staged
  <2>2. ASSUME NEW w \in Workers, NEW h, HandTyped(h, prov'), wk' = [wk EXCEPT ![w] = h]
        PROVE  wk' \in [Workers -> Hand] /\ \A v \in Workers : HandTyped(wk'[v], prov')
    <3>1. h \in Hand
      BY <2>2 DEF HandTyped
    <3>2. QED
      BY <1>1, <1>5, <2>2, <3>1
  <2>3. ASSUME NEW w \in Workers, Free(w)
        PROVE  wk' \in [Workers -> Hand] /\ \A v \in Workers : HandTyped(wk'[v], prov')
    BY <2>1, <2>2, <2>3 DEF Free
  <2>4. ASSUME NEW w \in Workers, NEW e \in Events, Select(w, e)
        PROVE  wk' \in [Workers -> Hand] /\ \A v \in Workers : HandTyped(wk'[v], prov')
    <3> DEFINE h == [Idle EXCEPT !.pc = "legacy", !.ev = e]
    <3>1. h \in Hand /\ h.pc = "legacy" /\ h.ev = e /\ ~(h.pc \in Staged)
      BY NoPayTyped DEF Idle, Hand, Reviews, Staged
    <3>2. wk' = [wk EXCEPT ![w] = h]
      BY <2>4 DEF Select
    <3> HIDE DEF h
    <3>3. HandTyped(h, prov')
      BY <3>1 DEF HandTyped
    <3>4. QED
      BY <2>2, <3>2, <3>3
  <2>5. ASSUME NEW w \in Workers, NEW e \in Events, Find(w, e)
        PROVE  wk' \in [Workers -> Hand] /\ \A v \in Workers : HandTyped(wk'[v], prov')
    <3> DEFINE pay == books.pay[TxOf[e]]
               h == [Idle EXCEPT !.pc = "found", !.ev = e, !.found = sub, !.pay = pay]
    <3>1. wk' = [wk EXCEPT ![w] = h] /\ Stageable(e)
      BY <2>5 DEF Find
    <3>2. pay \in Pay /\ ~(pay.status # "none" /\ pay.review = "none")
      BY <1>1, <3>1, Constants DEF Stageable, Books
    <3> HIDE DEF pay
    <3>3. h \in Hand
      BY <1>1, <3>2, NoPayTyped DEF Idle, Hand, Reviews, Staged
    <3>4. h.pc = "found" /\ h.ev = e /\ h.found = sub /\ h.pay = pay /\ ~h.ok
      BY DEF Idle
    <3> HIDE DEF h
    <3>5. HandTyped(h, prov)
      BY <1>1, <3>2, <3>3, <3>4 DEF HandTyped
    <3>6. QED
      BY <1>5, <2>2, <3>1, <3>3, <3>5
  <2>6. ASSUME NEW w \in Workers, Ask(w)
        PROVE  wk' \in [Workers -> Hand] /\ \A v \in Workers : HandTyped(wk'[v], prov')
    <3> DEFINE h == wk[w]
               p == prov
               a == [h EXCEPT !.pc = "asked", !.ok = TRUE, !.prov = p]
               f == [h EXCEPT !.pc = "fetched"]
    <3>1. h \in Hand /\ HandTyped(h, prov) /\ h.pc = "found" /\ h.pc \in Staged
      BY <1>1, <2>6 DEF Ask, Staged
    <3>2. \/ store.key /\ wk' = [wk EXCEPT ![w] = a]
          \/ wk' = [wk EXCEPT ![w] = f]
      BY <1>1, <2>6 DEF Ask, Hand
    <3>3. p \in Nat /\ p = prov
      BY <1>1
    <3>4. /\ h.ev \in Events /\ (h.found # NoRow => h.found.seen <= prov)
          /\ h.ok => /\ store.key
                     /\ h.prov \in DOMAIN ProviderStates /\ h.prov <= prov
                     /\ h.found # NoRow => h.found.seen <= h.prov
          /\ ~(h.pay.status # "none" /\ h.pay.review = "none")
      BY <3>1 DEF HandTyped
    <3> HIDE DEF h, p
    <3>5. /\ a \in Hand /\ a.pc = "asked" /\ a.ev = h.ev /\ a.found = h.found
          /\ a.pay = h.pay /\ a.ok /\ a.prov = p
      BY <3>1, <3>3 DEF Hand, Staged
    <3>6. /\ f \in Hand /\ f.pc = "fetched" /\ f.ev = h.ev /\ f.found = h.found
          /\ f.pay = h.pay /\ f.ok = h.ok /\ f.prov = h.prov
      BY <3>1 DEF Hand, Staged
    <3> HIDE DEF a, f
    <3>7. store.key => HandTyped(a, prov)
      <4>1. prov <= prov
        BY <1>1
      <4>2. QED
        BY <1>1, <3>3, <3>4, <3>5, <4>1 DEF HandTyped
    <3>8. HandTyped(f, prov)
      BY <3>4, <3>6 DEF HandTyped
    <3>9. QED
      BY <1>5, <2>2, <3>2, <3>5, <3>6, <3>7, <3>8
  <2>7. ASSUME NEW w \in Workers, Match(w)
        PROVE  wk' \in [Workers -> Hand] /\ \A v \in Workers : HandTyped(wk'[v], prov')
    <3> DEFINE h == wk[w]
               b == sub
    <3>1. PICK review \in BonusReviews(TxOf[h.ev]) :
            wk' = [wk EXCEPT ![w].pc = "fetched", ![w].before = sub,
                             ![w].review = IF IsPurchase(h.ev) THEN review ELSE "held"]
      BY <2>7 DEF Match
    <3>2. PICK given \in Reviews : given = IF IsPurchase(h.ev) THEN review ELSE "held"
      BY DEF BonusReviews, Reviews
    <3> DEFINE m == [h EXCEPT !.pc = "fetched", !.before = b, !.review = given]
    <3>3. wk' = [wk EXCEPT ![w] = m]
      BY <1>1, <3>1, <3>2 DEF Hand
    <3>4. h \in Hand /\ HandTyped(h, prov) /\ h.pc \in Staged /\ h.pc # "idle"
      BY <1>1, <2>7 DEF Match, Staged
    <3>5. b \in Sub \cup {NoRow}
      BY <1>1
    <3> HIDE DEF h, b
    <3>6. /\ m \in Hand /\ m.pc = "fetched" /\ m.ev = h.ev /\ m.found = h.found
          /\ m.pay = h.pay /\ m.ok = h.ok /\ m.prov = h.prov
      BY <3>4, <3>5 DEF Hand, Staged
    <3> HIDE DEF m
    <3>7. HandTyped(m, prov)
      BY <3>4, <3>6 DEF HandTyped
    <3>8. QED
      BY <1>5, <2>2, <3>3, <3>6, <3>7
  <2>8. CASE wk' = wk
    BY <1>1, <1>5, <2>8
  <2>9. QED
    BY <2>3, <2>4, <2>5, <2>6, <2>7, <2>8 DEF HandsMove, Freed, Dropped, Ingest, ProviderStep
<1>7. books' \in Books
  BY DEF Balanced, Linked
<1>8. QED
  BY <1>2, <1>3, <1>4, <1>6, <1>7, <1>1 DEF InboxTyped, HandTyped

-----------------------------------------------------------------------------
(* The inbox: the newest adjustment.                                        *)

LEMMA LeastExists ==
    ASSUME NEW S \in SUBSET Nat, S # {}
    PROVE  \E n \in S : \A m \in S : n <= m
<1> DEFINE R == OpToRel(<, Nat)
<1>1. IsWellFoundedOn(R, Nat)
  BY NatLessThanWellFounded
<1>2. \A m, n \in Nat : m < n => <<m, n>> \in R
  BY DEF OpToRel
<1> HIDE DEF R
<1>3. \A Q, D : IsWellFoundedOn(Q, D)
                  => \A T : T \subseteq D /\ T # {} => \E x \in T : \A y \in T : ~(<<y, x>> \in Q)
  BY WFMin
<1>4. PICK n \in S : \A m \in S : ~(<<m, n>> \in R)
  BY <1>1, <1>3
<1>5. ASSUME NEW m \in S PROVE n <= m
  <2>1. ~(m < n)
    BY <1>2, <1>4
  <2>2. QED
    BY <2>1
<1>6. QED
  BY <1>5

\* The least upper bound of the stamps is the stamp of one of them.
LEMMA NewestExists ==
    ASSUME NEW S \in SUBSET Events, S # {}, NEW n \in Nat, \A y \in S : StampOf[y] <= n
    PROVE  Newest(S) # {}
<1> DEFINE B == {m \in Nat : \A y \in S : StampOf[y] <= m}
<1>1. PICK m \in B : \A k \in B : m <= k
  BY LeastExists
<1>2. \A y \in S : StampOf[y] \in Nat /\ StampOf[y] > 0 /\ StampOf[y] <= m
  BY Constants
<1>3. m \in Nat /\ m - 1 \in Nat
  BY <1>2
<1>4. PICK x \in S : ~(StampOf[x] <= m - 1)
  <2>1. ~(m - 1 \in B)
    BY <1>1, <1>3
  <2>2. QED
    BY <1>3, <2>1
<1>5. StampOf[x] = m
  BY <1>2, <1>3, <1>4
<1>6. x \in Newest(S)
  BY <1>2, <1>5 DEF Newest
<1>7. QED
  BY <1>6

\* What an adjustment that is not older than the newest does to the newest.
LEMMA NewestJoined ==
    ASSUME NEW S \in SUBSET Events, NEW e \in Events
    PROVE  /\ S = {} => Newest(S \cup {e}) = {e}
           /\ S # {} /\ Newest(S) = {} => Newest(S \cup {e}) = {}
           /\ \A c \in Newest(S) :
                 /\ StampOf[e] > StampOf[c] => Newest(S \cup {e}) = {e}
                 /\ StampOf[e] = StampOf[c] => Newest(S \cup {e}) = Newest(S) \cup {e}
<1>1. \A x \in S \cup {e} : StampOf[x] \in Nat
  BY Constants
<1>2. S = {} => Newest(S \cup {e}) = {e}
  BY <1>1 DEF Newest
<1>3. ASSUME S # {}, Newest(S) = {} PROVE Newest(S \cup {e}) = {}
  <2>1. SUFFICES ASSUME NEW x \in Newest(S \cup {e}) PROVE FALSE
    OBVIOUS
  <2>2. x \in S \cup {e} /\ \A y \in S : StampOf[y] <= StampOf[x]
    BY DEF Newest
  <2>3. QED
    BY <1>1, <1>3, <2>2, NewestExists
<1>4. ASSUME NEW c \in Newest(S)
      PROVE  /\ StampOf[e] > StampOf[c] => Newest(S \cup {e}) = {e}
             /\ StampOf[e] = StampOf[c] => Newest(S \cup {e}) = Newest(S) \cup {e}
  <2>1. c \in S /\ \A y \in S : StampOf[y] <= StampOf[c]
    BY DEF Newest
  <2>2. ASSUME StampOf[e] > StampOf[c] PROVE Newest(S \cup {e}) = {e}
    <3>1. \A y \in S : StampOf[y] < StampOf[e]
      BY <1>1, <2>1, <2>2
    <3>2. \A y \in S : ~(StampOf[e] <= StampOf[y])
      BY <1>1, <3>1
    <3>3. QED
      BY <1>1, <3>1, <3>2 DEF Newest
  <2>3. ASSUME StampOf[e] = StampOf[c] PROVE Newest(S \cup {e}) = Newest(S) \cup {e}
    <3>1. \A x \in S \cup {e} : (\A y \in S \cup {e} : StampOf[y] <= StampOf[x])
                                   <=> StampOf[c] <= StampOf[x]
      BY <1>1, <2>1, <2>3
    <3>2. \A x \in S : (\A y \in S : StampOf[y] <= StampOf[x]) <=> StampOf[c] <= StampOf[x]
      BY <1>1, <2>1
    <3>3. QED
      BY <1>1, <2>3, <3>1, <3>2 DEF Newest
  <2>4. QED
    BY <2>2, <2>3
<1>5. QED
  BY <1>2, <1>3, <1>4

\* MoneyFollowsNewest for one payment.
MoneyAt(t) == (\A x \in Committed(t) : inbox[x].staged) => Follows(t, Newest(Committed(t)))

LEMMA CommittedIs == \A t : Committed(t) = {x \in Events : TxOf[x] = t /\ Effective(x)}
BY DEF Committed, Effective

LEMMA MoneyQuiet ==
    ASSUME NEW t \in Txs, MoneyAt(t), CommittedPaid,
           \A x \in Events : TxOf[x] = t => QuietRow(x),
           books.pay[t].status # "none" =>
              /\ books'.pay[t].status = books.pay[t].status
              /\ PackOf(books', t) <=> PackOf(books, t)
    PROVE  MoneyAt(t)'
<1> DEFINE C == Committed(t)
<1>1. C = {x \in Events : TxOf[x] = t /\ Effective(x)}
  BY CommittedIs
<1>2. C' = {x \in Events : TxOf[x] = t /\ Effective(x)'}
  BY DEF Committed, Effective, Adjusts
<1>3. C' = C /\ \A x \in C : inbox'[x].staged = inbox[x].staged
  BY <1>1, <1>2 DEF QuietRow
<1>4. Newest(C') = Newest(C) /\ Newest(C) \subseteq C
  BY <1>3 DEF Newest
<1>5. CASE C = {}
  <2>1. Newest(C') = {}
    BY <1>3, <1>5 DEF Newest
  <2>2. QED
    BY <2>1 DEF MoneyAt, Follows, Newest
<1>6. CASE C # {}
  <2>1. books.pay[t].status # "none"
    BY <1>1, <1>6 DEF CommittedPaid
  <2>2. /\ books'.pay[t].status = books.pay[t].status
        /\ PackOf(books', t) <=> PackOf(books, t)
    BY <2>1
  <2>3. SUFFICES ASSUME \A x \in C : inbox[x].staged, Newest(C) # {}, ~PackOf(books, t),
                        \A x \in Newest(C), y \in Newest(C) : KindOf[x] = KindOf[y]
                 PROVE  books'.pay[t].status =
                          (IF \E x \in Newest(C) : KindOf[x] = "refund" THEN "refunded" ELSE "paid")
    BY <1>3, <1>4, <2>2 DEF MoneyAt, Follows, PackOf, IsPack, Newest
  <2>4. QED
    BY <1>4, <2>2, <2>3 DEF MoneyAt, Follows, PackOf, IsPack
<1>7. QED
  BY <1>5, <1>6

\* What the order of adjustments decides, once the newest are known.
LEMMA OrderOfNewest ==
    ASSUME NEW e \in Events, ~Effective(e), Order(e) \in {"confirm", "apply"}
    PROVE  LET C == Committed(TxOf[e])
               top == Newest(C)
               status == books.pay[TxOf[e]].status
           IN  /\ C = {} => KindOf[e] # "reverse" /\ (Order(e) = "confirm" <=> status = "refunded")
               /\ C # {} /\ top # {} => \E c \in top :
                     /\ \A x \in top : KindOf[x] = KindOf[c]
                     /\ status = (IF KindOf[c] = "refund" THEN "refunded" ELSE "paid")
                     /\ \/ StampOf[e] > StampOf[c]
                        \/ StampOf[e] = StampOf[c] /\ KindOf[e] = KindOf[c]
                     /\ Order(e) = "confirm" <=> KindOf[e] = KindOf[c]
<1> DEFINE C == Committed(TxOf[e])
           top == Newest(C)
           c == CHOOSE x \in top : TRUE
           pay == books.pay[TxOf[e]]
<1>1. C \ {e} = C /\ C \subseteq Events
  BY CommittedIs
<1>2. CASE C = {}
  BY <1>1, <1>2 DEF Order
<1>3. CASE C # {} /\ top # {}
  <2>1. c \in top /\ c \in Events /\ StampOf[c] \in Nat /\ StampOf[e] \in Nat
    BY <1>1, <1>3, Constants DEF Newest
  <2>2. Order(e) = IF \/ \E x, y \in top : KindOf[x] # KindOf[y]
                      \/ pay.status # (IF KindOf[c] = "refund" THEN "refunded" ELSE "paid")
                   THEN "manual"
                   ELSE IF StampOf[e] < StampOf[c] THEN "skip"
                   ELSE IF KindOf[e] = KindOf[c] THEN "confirm"
                   ELSE IF StampOf[e] = StampOf[c] THEN "manual" ELSE "apply"
    BY <1>1, <1>3 DEF Order
  <2> HIDE DEF c, top, C
  <2>3. /\ \A x \in top : KindOf[x] = KindOf[c]
        /\ pay.status = (IF KindOf[c] = "refund" THEN "refunded" ELSE "paid")
        /\ ~(StampOf[e] < StampOf[c])
        /\ KindOf[e] = KindOf[c] \/ StampOf[e] # StampOf[c]
        /\ Order(e) = "confirm" <=> KindOf[e] = KindOf[c]
    BY <2>1, <2>2
  <2>4. StampOf[e] > StampOf[c] \/ StampOf[e] = StampOf[c]
    BY <2>1, <2>3
  <2>5. QED
    BY <1>3, <2>1, <2>3, <2>4 DEF top, C
<1>4. QED
  BY <1>2, <1>3

LEMMA MoneyJoined ==
    ASSUME InboxSound, NEW e \in Events, StageAdjusts(e), CommittedPaid
    PROVE  MoneyAt(TxOf[e])'
<1> DEFINE t == TxOf[e]
           C == Committed(t)
           D == C'
           status == books.pay[t].status
           after == books'.pay[t].status
           Says(S) == IF \E x \in S : KindOf[x] = "refund" THEN "refunded" ELSE "paid"
<1>1. /\ Adjusts(e) /\ status # "none" /\ ~PackOf(books, t)
      /\ \A x \in Events \ {e} : QuietRow(x)
      /\ ~Effective(e) /\ inbox'[e].staged /\ inbox'[e].adjust = "done"
      /\ \/ Order(e) = "confirm" /\ books' = books
         \/ /\ Order(e) = "apply" /\ KindOf[e] = "refund"
            /\ books' = RefundSubscription(books, t)
         \/ /\ Order(e) = "apply" /\ KindOf[e] = "reverse"
            /\ books' = IF books.pay[t].status = "refunded"
                        THEN ReverseRefund(books, t) ELSE books
  BY DEF StageAdjusts
<1>2. D = C \cup {e} /\ C \subseteq Events
  <2>1. Effective(e)'
    BY <1>1 DEF Effective, Adjusts
  <2>2. C = {x \in Events : TxOf[x] = t /\ Effective(x)}
    BY CommittedIs
  <2>3. D = {x \in Events : TxOf[x] = t /\ Effective(x)'}
    BY DEF Committed, Effective, Adjusts
  <2>4. \A x \in Events \ {e} : Effective(x)' <=> Effective(x)
    BY <1>1 DEF QuietRow
  <2> HIDE DEF C, D
  <2>5. QED
    BY <2>1, <2>2, <2>3, <2>4
<1>3. t \in Txs /\ Balanced(books)
  BY Constants DEF InboxSound
<1>4. /\ Order(e) = "confirm" => after = status
      /\ Order(e) = "apply" /\ KindOf[e] = "refund" => after = "refunded"
      /\ Order(e) = "apply" /\ KindOf[e] = "reverse" /\ status = "refunded" => after = "paid"
  BY <1>1, <1>3, RefundKeeps, ReverseKeeps
<1>5. KindOf[e] \in {"refund", "reverse"} /\ Order(e) \in {"confirm", "apply"}
  BY <1>1 DEF Adjusts
<1>6. /\ C = {} => KindOf[e] # "reverse" /\ (Order(e) = "confirm" <=> status = "refunded")
      /\ C # {} /\ Newest(C) # {} => \E c \in Newest(C) :
            /\ \A x \in Newest(C) : KindOf[x] = KindOf[c]
            /\ status = (IF KindOf[c] = "refund" THEN "refunded" ELSE "paid")
            /\ \/ StampOf[e] > StampOf[c]
               \/ StampOf[e] = StampOf[c] /\ KindOf[e] = KindOf[c]
            /\ Order(e) = "confirm" <=> KindOf[e] = KindOf[c]
  BY <1>1, <1>5, OrderOfNewest
<1>7. /\ C = {} => Newest(D) = {e}
      /\ C # {} /\ Newest(C) = {} => Newest(D) = {}
      /\ \A c \in Newest(C) :
            /\ StampOf[e] > StampOf[c] => Newest(D) = {e}
            /\ StampOf[e] = StampOf[c] => Newest(D) = Newest(C) \cup {e}
  BY <1>2, NewestJoined
<1>8. Newest(D) = {} \/ after = Says(Newest(D))
  <2> HIDE DEF C, D, status, after
  <2>1. CASE C = {}
    BY <1>4, <1>5, <1>6, <1>7, <2>1
  <2>2. CASE C # {} /\ Newest(C) = {}
    BY <1>7, <2>2
  <2>3. ASSUME C # {}, NEW c \in Newest(C),
               \A x \in Newest(C) : KindOf[x] = KindOf[c],
               status = (IF KindOf[c] = "refund" THEN "refunded" ELSE "paid"),
               \/ StampOf[e] > StampOf[c]
               \/ StampOf[e] = StampOf[c] /\ KindOf[e] = KindOf[c],
               Order(e) = "confirm" <=> KindOf[e] = KindOf[c]
        PROVE  after = Says(Newest(D))
    <3>1. KindOf[c] \in {"refund", "reverse"}
      BY <2>3, CommittedIs DEF Newest, Effective, Adjusts, C
    <3>2. after = IF KindOf[e] = "refund" THEN "refunded" ELSE "paid"
      BY <1>4, <1>5, <2>3, <3>1
    <3>3. CASE StampOf[e] > StampOf[c]
      BY <1>7, <3>2, <3>3
    <3>4. CASE StampOf[e] = StampOf[c] /\ KindOf[e] = KindOf[c]
      BY <1>7, <2>3, <3>2, <3>4
    <3>5. QED
      BY <2>3, <3>3, <3>4
  <2>4. QED
    BY <1>6, <2>1, <2>2, <2>3
<1>9. Newest(C)' = Newest(D)
  BY DEF Newest
<1>10. QED
  BY <1>8, <1>9 DEF MoneyAt, Follows

LEMMA MoneyStep ==
    ASSUME InboxSound, CommittedPaid, \A t \in Txs : MoneyAt(t), MoneyMoves, PaymentsKept(books, books')
    PROVE  CommittedPaid' /\ \A t \in Txs : MoneyAt(t)'
<1>0. Balanced(books) /\ \A x \in Events : TxOf[x] \in Txs
  BY Constants DEF InboxSound
<1>1. CASE Quiet
  <2>1. \A x \in Events : QuietRow(x)
    BY <1>1 DEF Quiet
  <2>2. CommittedPaid'
    BY <1>0, <2>1 DEF CommittedPaid, QuietRow, PaymentsKept
  <2>3. \A t \in Txs : books.pay[t].status # "none" =>
              /\ books'.pay[t].status = books.pay[t].status
              /\ PackOf(books', t) <=> PackOf(books, t)
    <3>1. ASSUME NEW u \in Txs, BooksPurchase(books, u, books')
          PROVE  SamePayments(books, books')
      BY <1>0, <3>1, PurchaseQuiet
    <3>2. ASSUME NEW u \in Txs, books.pay[u].status = "none", BooksPack(books, u, books')
          PROVE  \A t \in Txs \ {u} : books'.pay[t] = books.pay[t]
      BY <3>2 DEF BooksPack, Rest
    <3>3. QED
      BY <1>1, <3>1, <3>2 DEF Quiet, SamePayments, PackOf
  <2>4. ASSUME NEW t \in Txs PROVE MoneyAt(t)'
    BY <2>1, <2>3, MoneyQuiet
  <2>5. QED
    BY <2>2, <2>4
<1>2. ASSUME NEW e \in Events, HandlerAdjusts(e) \/ StageAdjusts(e),
             \A u \in Txs \ {TxOf[e]} : books'.pay[u] = books.pay[u], MoneyAt(TxOf[e])'
      PROVE  CommittedPaid' /\ \A t \in Txs : MoneyAt(t)'
  <2>1. books.pay[TxOf[e]].status # "none" /\ \A x \in Events \ {e} : QuietRow(x)
    BY <1>2 DEF HandlerAdjusts, StageAdjusts
  <2>2. CommittedPaid'
    BY <1>0, <2>1 DEF CommittedPaid, QuietRow, PaymentsKept
  <2>3. ASSUME NEW t \in Txs \ {TxOf[e]} PROVE MoneyAt(t)'
    <3>1. \A x \in Events : TxOf[x] = t => QuietRow(x)
      BY <2>1
    <3>2. books'.pay[t] = books.pay[t]
      BY <1>2
    <3>3. QED
      BY <3>1, <3>2, MoneyQuiet DEF PackOf
  <2>4. QED
    BY <1>2, <2>2, <2>3
<1>3. ASSUME NEW e \in Events, HandlerAdjusts(e)
      PROVE  CommittedPaid' /\ \A t \in Txs : MoneyAt(t)'
  <2> DEFINE t == TxOf[e]
  <2>1. /\ t \in Txs /\ books.pay[t].status # "none" /\ Adjusts(e)
        /\ inbox'[e].staged = inbox[e].staged /\ inbox'[e].status = "processed"
        /\ inbox[e].staged => PackOf(books, t)
    BY <1>0, <1>3 DEF HandlerAdjusts
  <2>2. \A u \in Txs \ {t} : books'.pay[u] = books.pay[u]
    BY <1>0, <1>3, <2>1, RefundKeeps, ReverseKeeps DEF HandlerAdjusts, BooksPack, Rest
  <2>3. MoneyAt(t)'
    <3>1. CASE inbox[e].staged
      <4>1. PackOf(books', t)
        BY <2>1, <3>1 DEF PaymentsKept
      <4>2. QED
        BY <4>1 DEF MoneyAt, Follows, IsPack, PackOf
    <3>2. CASE ~inbox[e].staged
      <4>1. e \in Committed(t)' /\ ~inbox'[e].staged
        BY <2>1, <3>2 DEF Committed, Adjusts
      <4>2. QED
        BY <4>1 DEF MoneyAt
    <3>3. QED
      BY <3>1, <3>2
  <2>4. QED
    BY <1>2, <1>3, <2>2, <2>3
<1>4. ASSUME NEW e \in Events, StageAdjusts(e)
      PROVE  CommittedPaid' /\ \A t \in Txs : MoneyAt(t)'
  <2>1. \A u \in Txs \ {TxOf[e]} : books'.pay[u] = books.pay[u]
    BY <1>0, <1>4, RefundKeeps, ReverseKeeps DEF StageAdjusts, Rest
  <2>2. MoneyAt(TxOf[e])'
    BY <1>4, MoneyJoined
  <2>3. QED
    BY <1>2, <1>4, <2>1, <2>2
<1>5. QED
  BY <1>1, <1>3, <1>4 DEF MoneyMoves

InboxInv == InboxSound /\ CommittedPaid /\ \A t \in Txs : MoneyAt(t)

LEMMA InboxInvInit == InboxInit => InboxInv
<1> SUFFICES ASSUME InboxInit PROVE InboxInv
  OBVIOUS
<1>1. InboxTyped
  BY InboxTypedInit
<1>2. /\ books = [pay |-> [t \in Txs |-> NoPay], grant |-> "none", balance |-> 0]
      /\ \A t \in Txs : books.pay[t].status = "none" /\ ~books.pay[t].link
  BY NoPayTyped DEF InboxInit
<1>3. Balanced(books)
  <2>1. PaidPacks(books) = {}
    BY <1>2 DEF PaidPacks, PackOf
  <2>2. IsFiniteSet({}) /\ Cardinality({}) = 0
    BY FS_EmptySet
  <2>3. Linked(books) /\ books.balance = 0 /\ books.grant = "none"
    BY <1>1, <1>2 DEF Linked, InboxTyped
  <2>4. QED
    BY <2>1, <2>2, <2>3 DEF Balanced
<1>4. \A e \in Events : /\ inbox[e].status = "none" /\ ~inbox[e].staged
                        /\ Adjusts(e) => inbox[e].adjust = "pending"
  BY DEF InboxInit, NewState
<1>5. LegacyHands
  BY IdleTyped DEF InboxInit, LegacyHands
<1>6. SubPaid /\ Unstaged /\ CommittedPaid
  BY <1>2, <1>4 DEF SubPaid, Unstaged, CommittedPaid, Effective
<1>7. ASSUME NEW t \in Txs PROVE MoneyAt(t)
  <2>1. Newest(Committed(t)) = {}
    BY <1>4, CommittedIs DEF Newest, Effective
  <2>2. QED
    BY <2>1 DEF MoneyAt, Follows
<1>8. QED
  BY <1>1, <1>3, <1>5, <1>6, <1>7 DEF InboxInv, InboxSound

LEMMA InboxInvStep == InboxInv /\ [InboxNext]_inboxVars => InboxInv' /\ Moved
<1> SUFFICES ASSUME InboxInv, [InboxNext]_inboxVars PROVE InboxInv' /\ Moved
  OBVIOUS
<1>1. InboxSound /\ CommittedPaid /\ \A t \in Txs : MoneyAt(t)
  BY DEF InboxInv
<1>2. Moved /\ MoneyMoves /\ HandsMove
  BY <1>1, InboxSteps
<1>3. Balanced(books') /\ PaymentsKept(books, books') /\ SubPaid' /\ Unstaged'
  BY <1>1, <1>2, MoneyKept
<1>4. InboxTyped' /\ LegacyHands'
  BY <1>1, <1>2, <1>3, InboxTypedStep, LegacyHandsStep
<1>5. CommittedPaid' /\ \A t \in Txs : MoneyAt(t)'
  BY <1>1, <1>2, <1>3, MoneyStep
<1>6. QED
  BY <1>2, <1>3, <1>4, <1>5 DEF InboxInv, InboxSound

LEMMA InboxHolds == InboxSpec => []InboxInv
<1>1. InboxInv /\ [InboxNext]_inboxVars => InboxInv'
  BY InboxInvStep
<1>2. QED
  BY <1>1, InboxInvInit, PTL DEF InboxSpec

\* Retries, duplicates, refunds and reversals in any order, on either path and
\* with any crash, move every amount exactly once, and the bonus follows the
\* payment that earned it (hay_ledger, payment, _grant_if_first, _clawback).
THEOREM BooksCorrect == InboxSpec => []BooksFollowPayments
<1>1. InboxInv => BooksFollowPayments
  <2> SUFFICES ASSUME InboxInv PROVE BooksFollowPayments
    OBVIOUS
  <2>1. Balanced(books)
    BY DEF InboxInv, InboxSound
  <2>2. \A t \in Txs : books.pay[t].status \in {"none", "paid", "refunded"}
    BY <2>1 DEF Balanced, Linked, Books, Pay
  <2>3. /\ books.grant = "live" <=> \E t \in Txs : books.pay[t].link /\ books.pay[t].status = "paid"
        /\ books.grant = "revoked" <=> \E t \in Txs : books.pay[t].link /\ books.pay[t].status = "refunded"
    <3>1. books.grant \in {"none", "live", "revoked"}
      BY <2>1 DEF Balanced, Linked, Books
    <3>2. /\ \A t \in Txs : books.pay[t].link =>
                /\ books.pay[t].status # "none"
                /\ books.grant = IF books.pay[t].status = "paid" THEN "live" ELSE "revoked"
          /\ books.grant # "none" => \E t \in Txs : books.pay[t].link
      BY <2>1 DEF Balanced, Linked
    <3>3. QED
      BY <2>2, <3>1, <3>2
  <2>4. PaidPacks(books) = {t \in Txs : IsPack(t) /\ books.pay[t].status = "paid"}
    BY DEF PaidPacks, PackOf, IsPack
  <2>5. books.balance = (IF books.grant = "live" THEN 1 ELSE 0) + Cardinality(PaidPacks(books))
    BY <2>1 DEF Balanced
  <2>6. QED
    BY <2>3, <2>4, <2>5 DEF BooksFollowPayments
<1>2. QED
  BY <1>1, InboxHolds, PTL

\* A refund or a reversal that arrives late does not undo a newer one, whatever
\* the order of arrival (subscription_processing._financial_order).
THEOREM MoneyCorrect == InboxSpec => []MoneyFollowsNewest
<1>1. InboxInv => MoneyFollowsNewest
  BY DEF InboxInv, MoneyAt, MoneyFollowsNewest
<1>2. QED
  BY <1>1, InboxHolds, PTL

\* Verified access is replaced only by verified access, and by an older read only
\* where the worker met the row of its answer after the provider had answered
\* (_legacy_only, the baseline check of apply).
THEOREM AccessCorrect == InboxSpec => AccessForward
<1> DEFINE A == Adopted /\ sub' # sub =>
                  /\ sub'.evidence
                  /\ sub'.seen >= sub.seen \/ \E w \in Workers : MetRow(w) /\ wk'[w] = Idle
<1>1. InboxInv /\ [InboxNext]_inboxVars => [A]_inboxVars
  <2>1. Moved => A
    BY DEF Moved, SubMoves
  <2>2. QED
    BY <2>1, InboxInvStep
<1>2. InboxSpec => [][A]_inboxVars
  BY <1>1, InboxHolds, PTL DEF InboxSpec
<1>3. QED
  BY <1>2 DEF AccessForward

\* Without a provider to ask, only an event that is newer than everything applied
\* opens a refunded period (_state_applies, the exception of _apply_active_state).
THEOREM RefundsCorrect == InboxSpec => RefundStaysClosed
<1> DEFINE A == (sub # NoRow /\ sub.status = "revoked" /\ sub' # sub /\ sub'.status # "revoked")
                   => sub'.last > sub.last \/ store.key
<1>1. InboxInv /\ [InboxNext]_inboxVars => [A]_inboxVars
  <2>1. Moved => A
    BY DEF Moved, SubMoves
  <2>2. QED
    BY <2>1, InboxInvStep
<1>2. InboxSpec => [][A]_inboxVars
  BY <1>1, InboxHolds, PTL DEF InboxSpec
<1>3. QED
  BY <1>2 DEF RefundStaysClosed
=============================================================================
