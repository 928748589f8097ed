------------------------------ MODULE Trainings ------------------------------
(***************************************************************************)
(* Answers to the stages of one training: app/services/trainings.py and     *)
(* training_tries.py, beside the other requests of HayEconomy that book to    *)
(* the same balance.                                                         *)
(*                                                                         *)
(* A picked answer is judged in one transaction under the user lock.  A       *)
(* written one is reserved in one transaction, graded by a model with no       *)
(* transaction open and recorded in a second one, which looks at everything    *)
(* again.  A client repeats a request with the request id it had.              *)
(*                                                                         *)
(* One number of the clock is a part of the hour in which a try comes back.    *)
(***************************************************************************)
EXTENDS HayEconomy

CONSTANTS
    Ids,          \* client_request_id
    Stages,       \* the number of stages
    ReviewPoints, \* the stages with a reward
    MaxTries,     \* MAX_TRIES
    RefillEvery,  \* REFILL_EVERY
    MaxTime       \* bounds the clock of the tries

ASSUME TrainingAssumption ==
    /\ Stages \in Nat /\ ReviewPoints \subseteq 1..Stages
    /\ MaxTries \in Nat \ {0} /\ RefillEvery \in Nat \ {0} /\ MaxTime \in Nat

\* A submission names a stage of the training.
ASSUME SubmissionAssumption == \A r \in Requests :
    r.kind \in {"pick", "write"} => r.id \in Ids /\ r.stage \in 1..Stages

TryRows  == [left: Nat, from: Nat]
Receipts == [token: Requests, live: BOOLEAN, result: {None, "passed", "retry"}]
ASSUME NoneAssumption ==
    None \notin Nat \cup {"passed", "retry"} /\ None \notin TryRows /\ None \notin Receipts

VARIABLES
    nextStage, \* training_progress.next_stage, behind the last one for none
    answers,   \* training_answers: the stages passed
    granted,   \* training_rewards: the stages rewarded
    tries,     \* training_tries
    receipts,  \* training_submissions
    time

trainingRows == <<nextStage, answers, granted, tries, receipts>>
trainingVars == <<trainingRows, time>>

TrainingInit ==
    /\ Init
    /\ nextStage = 1 /\ answers = {} /\ granted = {} /\ tries = None
    /\ receipts = [i \in Ids |-> None] /\ time = 0

-----------------------------------------------------------------------------
(* training_tries.settle and spend: full is a number of tries and no clock.  *)

Full == [left |-> MaxTries, from |-> None]

Settled ==
    IF tries = None \/ tries = Full THEN Full
    ELSE LET gained == (time - tries.from) \div RefillEvery
         IN IF tries.left + gained >= MaxTries THEN Full
            ELSE [left |-> tries.left + gained,
                  from |-> tries.from + RefillEvery * gained]

Spent == [left |-> Settled.left - 1,
          from |-> IF Settled = Full THEN time ELSE Settled.from]

-----------------------------------------------------------------------------
(* _record: the verdict, the stage, the reward or the try, and the receipt.  *)

Current(r) == r.stage = nextStage

Result(id) == IF receipts[id] = None THEN None ELSE receipts[id].result

Pass(r) ==
    /\ answers' = answers \cup {r.stage}
    /\ nextStage' = r.stage + 1
    /\ IF r.stage \in ReviewPoints \ granted
       THEN granted' = granted \cup {r.stage} /\ Book(r, "training_reward", 30, r.stage)
       ELSE UNCHANGED <<granted, profile, ledger>>
    /\ UNCHANGED tries

Retry == tries' = Spent /\ UNCHANGED <<answers, nextStage, granted, profile, ledger>>

Record(r, passed) ==
    /\ IF passed THEN Pass(r) ELSE Retry
    /\ receipts' = [receipts EXCEPT ![r.id] =
          [token |-> IF @ = None THEN r ELSE @.token, live |-> TRUE,
           result |-> IF passed THEN "passed" ELSE "retry"]]
    /\ pc' = [pc EXCEPT ![r] = "done"]
    /\ UNCHANGED <<script, claimed, adCount, seed, ads, rewarded, items, worn, keys,
                   seen, clock, moves, time>>

SubmitPick(r) ==
    /\ pc[r] = "new" /\ r.kind = "pick"
    /\ Result(r.id) = None
    /\ Current(r) /\ Settled.left > 0
    /\ \E passed \in BOOLEAN : Record(r, passed)

\* The first transaction of a written answer.  A reservation whose lease runs
\* is respected, one that ran out is taken over with a new token.
Reserve(r) ==
    /\ pc[r] = "new" /\ r.kind = "write"
    /\ Result(r.id) = None
    /\ Current(r) /\ Settled.left > 0
    /\ IF receipts[r.id] = None THEN TRUE ELSE ~receipts[r.id].live
    /\ receipts' = [receipts EXCEPT ![r.id] =
                      [token |-> r, live |-> TRUE, result |-> None]]
    /\ pc' = [pc EXCEPT ![r] = "grading"]
    /\ UNCHANGED <<script, rows, seen, clock, moves, nextStage, answers, granted, tries, time>>

\* Mutant: the second transaction trusts the first one about the tries.
SubmitWriteUnchecked(r) ==
    /\ pc[r] = "grading"
    /\ Result(r.id) = None /\ receipts[r.id].token = r
    /\ Current(r)
    /\ \E passed \in BOOLEAN : Record(r, passed)
\* The second transaction.  A passed answer needs no try.
SubmitWrite(r) ==
    /\ pc[r] = "grading"
    /\ Result(r.id) = None /\ receipts[r.id].token = r
    /\ Current(r)
    /\ \E passed \in BOOLEAN :
          /\ passed \/ Settled.left > 0
          /\ Record(r, passed)

-----------------------------------------------------------------------------
LeaseExpires(id) ==
    /\ receipts[id] # None /\ receipts[id].live /\ receipts[id].result = None
    /\ receipts' = [receipts EXCEPT ![id].live = FALSE]
    /\ UNCHANGED <<vars, nextStage, answers, granted, tries, time>>

TimePasses ==
    /\ time < MaxTime /\ time' = time + 1
    /\ \E r \in script : r.kind \in {"pick", "write"} \* else nobody looks at it
    /\ UNCHANGED <<vars, trainingRows>>

TrainingNext ==
    \/ Next /\ UNCHANGED trainingVars
    \/ \E r \in script : SubmitPick(r) \/ Reserve(r) \/ SubmitWrite(r)
    \/ \E id \in Ids : LeaseExpires(id)
    \/ TimePasses

TrainingSpec == TrainingInit /\ [][TrainingNext]_<<vars, trainingVars>>

-----------------------------------------------------------------------------
(* Properties.                                                               *)

Judged(result) == {id \in Ids : Result(id) = result}

\* Every submission that was judged wrong cost one try, however often it was
\* repeated and whoever took it over, and tries come back with the hours only:
\* never more are used than were there and came back, and never is one missing.
\* The stages are passed in order, one by one submission each, and a review
\* point is paid for exactly once, when it is passed.
SubmissionsCount ==
    /\ LET used == Cardinality(Judged("retry"))
       IN /\ used <= MaxTries + time \div RefillEvery
          /\ Settled.left \in (MaxTries - used)..MaxTries
    /\ answers = 1..(nextStage - 1)
    /\ Cardinality(Judged("passed")) = Cardinality(answers)
    /\ \A s \in 1..Stages :
          Cardinality({i \in Entries({"training_reward"}) : ledger[i].ref = s})
              = IF s \in answers \cap ReviewPoints THEN 1 ELSE 0
=============================================================================
