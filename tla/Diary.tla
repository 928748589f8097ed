-------------------------------- MODULE Diary --------------------------------
(* The diary of one user: written in the night after an activity day by        *)
(* whichever tick comes by, between 04:00 and 05:45 of the user's local time.  *)
(* A committed claim keeps other ticks from writing it too; a claim whose tick *)
(* was killed expires.                                                         *)
EXTENDS Naturals, FiniteSets

CONSTANTS
    Ticks,       \* worker processes that may come to the user at the same time
    MaxDay,      \* bound: activity days
    MaxMent,     \* prepared texts, in their order
    MaxTries,    \* candidates a tick prepares, 3 in the code
    Plans,       \* courses of the days: the mode, what a user wants to be told,
                 \* how often, and bounds
    Personal, NoEntry, None

ASSUME DiaryAssumption ==
    /\ MaxDay \in Nat /\ MaxMent \in Nat /\ MaxTries \in Nat
    /\ \A p \in Plans :
          /\ p.mode \in {"weekly", "dated"}
          /\ p.days \in 1..MaxDay /\ p.clock \in 0..10
          /\ p.kinds \subseteq {"routine", "morning", "evening"}
          /\ p.edits \in Nat /\ p.moves \in Nat /\ p.messages \in Nat

ASSUME NoneApart ==
    /\ None \notin Nat /\ None \notin Ticks
    /\ None \notin {"routine", "morning", "evening", Personal, NoEntry}

Days  == 1..MaxDay
Ments == 1..MaxMent

\* Local time, as far as a tick looks at it: the quarters from 04:00 to 05:45,
\* then 09h, 10h and 20h.
Night   == 0..7
Catchup == 4..7
Slots   == 0..10

VARIABLES
    plan,        \* fixed: mode says whether diary_weekly_start_date is set; edits,
                 \* moves, messages and days bound what happens from clock on
    day, clock,  \* the night after day, in the user's time zone
    moves,
    stage,       \* of a tick, with this user
    date,        \* target_date
    cand,        \* what it is about to publish
    tries,
    claim,       \* age of the row of diary_gen_claims in quarters, up to 3
    lock,        \* who holds the user's advisory lock
    active, edition,  \* moly_life_ments
    diary,       \* the published row of a day
    result,      \* its row of diary_generation_results
    edits,
    served,      \* history: the days with a tick that came at 05:45
    excused      \* history: the days that may stay without an entry

texts == <<plan, active, edition, edits>>
days  == <<diary, result>>
time  == <<day, clock, moves>>
told  == <<served, excused>>
dvars == <<texts, days, time, stage, date, cand, tries, claim, lock, told>>

DiaryInit ==
    /\ plan \in Plans
    /\ day = 1 /\ clock = plan.clock /\ moves = 0
    /\ stage = [t \in Ticks |-> "idle"]
    /\ date = [t \in Ticks |-> None]
    /\ cand = [t \in Ticks |-> None]
    /\ tries = [t \in Ticks |-> 0]
    /\ claim = [d \in Days |-> None]
    /\ lock = None
    /\ active \in SUBSET Ments /\ (plan.edits = 0 => active = Ments)
    /\ edition = [m \in Ments |-> 0]
    /\ diary \in {[d \in Days |-> IF d = 1 THEN e ELSE None] :
                    e \in IF plan.clock = 0 THEN {None} ELSE {None, Personal}}
    /\ result = [d \in Days |-> None]
    /\ edits = 0
    /\ served = {} /\ excused = IF plan.clock = 0 THEN {} ELSE {1}

\* _diary_exists
Settled(d) == diary[d] # None \/ result[d] # None

\* From the claim to the end of its work; then the claim is still to be deleted.
Generating == {"checking", "writing", "picking", "confirming", "committing"}

Goes(t, s) == stage' = [stage EXCEPT ![t] = s]

Leaves(t) ==
    /\ Goes(t, "idle")
    /\ date' = [date EXCEPT ![t] = None]
    /\ cand' = [cand EXCEPT ![t] = None]
    /\ tries' = [tries EXCEPT ![t] = 0]

-----------------------------------------------------------------------------
(* One tick and this user.                                                     *)

\* In the second hour a read comes first.
StartDiary(t) ==
    /\ stage[t] = "idle" /\ clock \in Night
    /\ ~(clock \in Catchup /\ Settled(day))
    /\ Goes(t, "claiming")
    /\ date' = [date EXCEPT ![t] = day]
    /\ served' = IF clock = 7 THEN served \union {day} ELSE served
    /\ UNCHANGED <<texts, days, time, cand, tries, claim, lock, excused>>

\* Mutant: a claim expires after a quarter of an hour.
ExpiresSooner(age) == age \in {1, 2, 3}

\* Mutant: a claim lasts until its tick deletes it.
ExpiresNever(age) == FALSE

\* claimed_at < now() - 30 minutes: sure after three quarters, possible after two.
Expires(age) == age \in {2, 3}

Claim(t) ==
    LET d == date[t] IN
    /\ stage[t] = "claiming"
    /\ \/ /\ claim[d] = None \/ Expires(claim[d])
          /\ claim' = [claim EXCEPT ![d] = 0]
          /\ Goes(t, "checking") /\ UNCHANGED <<date, cand, tries>>
       \/ claim[d] # None /\ (claim[d] = 2 \/ ~Expires(claim[d])) /\ Leaves(t) /\ UNCHANGED claim
    /\ UNCHANGED <<texts, days, time, lock, told>>

\* _generate_for_user: what it reads before it writes without a connection.
Check(t) ==
    /\ stage[t] = "checking"
    /\ Goes(t, IF Settled(date[t]) THEN "releasing" ELSE "writing")
    /\ UNCHANGED <<texts, days, time, date, cand, tries, claim, lock, told>>

\* The personal text, or, below the gate, without the plan or with an empty
\* answer, a prepared one.
Write(t) ==
    /\ stage[t] = "writing"
    /\ \/ Goes(t, "confirming") /\ cand' = [cand EXCEPT ![t] = Personal]
       \/ Goes(t, "picking") /\ UNCHANGED cand
    /\ UNCHANGED <<texts, days, time, date, tries, claim, lock, told>>

Given == {result[d][1] : d \in {e \in Days : result[e] \notin {None, NoEntry}}}

Text(m) == <<m, edition[m]>>

\* _pick_weekly_ment, the first active text this user was not given, or
\* _pick_ment, the one of that day.
Candidate(d) ==
    LET open == IF plan.mode = "weekly" THEN active \ Given ELSE active \intersect {d}
    IN  IF open = {} THEN None
        ELSE Text(CHOOSE m \in open : \A n \in open : m <= n)

Pick(t) ==
    /\ stage[t] = "picking"
    /\ cand' = [cand EXCEPT ![t] = Candidate(date[t])]
    /\ Goes(t, "confirming")
    /\ UNCHANGED <<texts, days, time, date, tries, claim, lock, told>>

\* Whatever ends the work: the claim is deleted, and what ends it at 05:45 is
\* not repeated.
Fails(t) ==
    /\ Goes(t, "releasing")
    /\ lock' = IF lock = t THEN None ELSE lock
    /\ excused' = IF clock = 7 THEN excused \union {date[t]} ELSE excused

\* _finalize_diary takes the lock and looks again; the weekly text is read FOR
\* SHARE.  Another text than the prepared one is prepared in its turn.
Confirm(t) ==
    LET d == date[t] IN
    /\ stage[t] = "confirming" /\ lock = None
    /\ \/ Settled(d) /\ Goes(t, "releasing") /\ UNCHANGED <<tries, lock, excused>>
       \/ /\ ~Settled(d) /\ cand[t] \in {Personal, Candidate(d)}
          /\ Goes(t, "committing") /\ lock' = t
          /\ UNCHANGED <<tries, excused>>
       \/ /\ ~Settled(d) /\ cand[t] \notin {Personal, Candidate(d)}
          /\ tries' = [tries EXCEPT ![t] = @ + 1]
          /\ \/ tries'[t] < MaxTries /\ Goes(t, "picking") /\ UNCHANGED <<lock, excused>>
             \/ tries'[t] = MaxTries /\ Fails(t)
    /\ UNCHANGED <<texts, days, time, date, cand, claim, served>>

\* The entry, what the week's text was given for, or that there is none.
Commit(t) ==
    LET d == date[t] IN
    /\ stage[t] = "committing"
    /\ \/ cand[t] = None /\ result' = [result EXCEPT ![d] = NoEntry] /\ UNCHANGED diary
       \/ /\ cand[t] # None
          /\ diary' = [diary EXCEPT ![d] = cand[t]]
          /\ result' = IF plan.mode = "weekly" /\ cand[t] # Personal
                       THEN [result EXCEPT ![d] = cand[t]] ELSE result
    /\ lock' = None
    /\ Goes(t, "releasing")
    /\ UNCHANGED <<texts, time, date, cand, tries, claim, told>>

\* An exception, or the time limit of a user.
Fail(t) ==
    /\ stage[t] \in Generating
    /\ Fails(t)
    /\ UNCHANGED <<texts, days, time, date, cand, tries, claim, served>>

\* The finally block deletes the claim, whoever's it is.
Release(t) ==
    /\ stage[t] \in {"releasing", "stalled"}
    /\ claim' = [claim EXCEPT ![date[t]] = None]
    /\ Leaves(t)
    /\ UNCHANGED <<texts, days, time, lock, told>>

\* From 05:15 on a claim left behind is not sure to expire in time.
KillDiary(t) ==
    /\ stage[t] \in Generating \union {"claiming", "releasing", "stalled"}
    /\ Leaves(t)
    /\ lock' = IF lock = t THEN None ELSE lock
    /\ excused' = IF clock >= 5 THEN excused \union {date[t]} ELSE excused
    /\ UNCHANGED <<texts, days, time, claim, served>>

-----------------------------------------------------------------------------
(* The environment.                                                            *)

\* Mutant: the text of the week is read without a lock.
NeverShared(m) == FALSE

\* The text of the week a tick is about to publish, read FOR SHARE.
Shared(m) == plan.mode = "weekly" /\ lock # None /\ cand[lock] = Text(m)

\* Operators withdraw, restore and rewrite texts.
EditText ==
    /\ edits < plan.edits
    /\ \E m \in Ments :
          /\ ~Shared(m)
          /\ \/ active' = (active \ {m}) \union ({m} \ active) /\ UNCHANGED edition
             \/ edition' = [edition EXCEPT ![m] = @ + 1] /\ UNCHANGED active
    /\ edits' = edits + 1
    /\ UNCHANGED <<plan, days, time, stage, date, cand, tries, claim, lock, told>>

\* A quarter passes.  Every stage of a user has ended by its time limit, but the
\* deletion of a claim may take longer, into the next quarter.
NextSlot ==
    /\ \A t \in Ticks :
          stage[t] = "idle" \/ (stage[t] = "releasing" /\ clock \in 0..6)
    /\ clock < 10 \/ day < plan.days
    /\ clock' = (clock + 1) % 11
    /\ day' = IF clock = 10 THEN day + 1 ELSE day
    /\ claim' = [d \in Days |-> IF claim[d] = None THEN None
                                ELSE IF clock \in 0..6 /\ claim[d] < 3 THEN claim[d] + 1 ELSE 3]
    /\ stage' = [t \in Ticks |-> IF stage[t] = "releasing" THEN "stalled" ELSE "idle"]
    /\ excused' = IF \/ clock = 6 /\ \E t \in Ticks : stage[t] = "releasing"
                     \/ clock = 7 /\ day \notin served
                  THEN excused \union {day} ELSE excused
    /\ UNCHANGED <<texts, days, moves, date, cand, tries, lock, served>>

\* The user's clock jumps, at most to the day before or after.
Move ==
    /\ moves < plan.moves /\ moves' = moves + 1
    /\ day' \in 1..plan.days /\ day' \in (day - 1)..(day + 1)
    /\ clock' \in Slots
    /\ excused' = excused \union {day, day'}
    /\ UNCHANGED <<texts, days, stage, date, cand, tries, claim, lock, served>>

DiaryStep(t) ==
    \/ StartDiary(t) \/ Claim(t) \/ Check(t) \/ Write(t) \/ Pick(t)
    \/ Confirm(t) \/ Commit(t) \/ Fail(t) \/ Release(t) \/ KillDiary(t)

-----------------------------------------------------------------------------
(* Properties.                                                                 *)

\* Two ticks never write the diary of one day at once (worker/tick.py:193):
\* what expires is only what a killed tick has left.
OneGenerator ==
    \A t, u \in Ticks :
        t # u /\ stage[t] \in Generating /\ stage[u] \in Generating => date[t] # date[u]

\* A night that is over has settled its day (worker/tick.py:36): whatever failed
\* or was killed before, unless the tick of 05:45 failed, did not come, or met a
\* claim left behind from 05:15 on, or the user's clock jumped.
NightServed ==
    \A d \in Days :
        d < day \/ (d = day /\ clock > 7) => Settled(d) \/ d \in excused

\* What a day got stays.  A text of the week is given to one user once, as it
\* reads when it is published, and not after it was withdrawn.
PublishedAsScheduled ==
    [][\A d \in Days :
          /\ Settled(d) => diary'[d] = diary[d] /\ result'[d] = result[d]
          /\ plan.mode = "weekly" /\ diary'[d] # diary[d] /\ diary'[d] # Personal =>
                \E m \in active \ Given : diary'[d] = Text(m)]_dvars
=============================================================================
