---------------------------- MODULE JobAbstract ----------------------------
(***************************************************************************)
(* What the job platform promises about one job, with leases, attempts,    *)
(* deadlines and consumers hidden: an opened job closes at most once, its  *)
(* domain effect is committed with its success and never otherwise, and    *)
(* nothing happens to it afterwards.                                       *)
(***************************************************************************)
EXTENDS Naturals

CONSTANT Jobs

VARIABLES
    phase,     \* "absent", "open" or how the job closed
    effects    \* domain effects committed for the job

avars == <<phase, effects>>

Closed == {"succeeded", "dead", "cancelled"}

Init ==
    /\ phase   = [j \in Jobs |-> "absent"]
    /\ effects = [j \in Jobs |-> 0]

Open(j) ==
    /\ phase[j] = "absent"
    /\ phase' = [phase EXCEPT ![j] = "open"]
    /\ UNCHANGED effects

Complete(j) ==
    /\ phase[j] = "open"
    /\ phase'   = [phase EXCEPT ![j] = "succeeded"]
    /\ effects' = [effects EXCEPT ![j] = @ + 1]

GiveUp(j, how) ==
    /\ phase[j] = "open"
    /\ phase' = [phase EXCEPT ![j] = how]
    /\ UNCHANGED effects

\* Account deletion cancels several open jobs at once.
CancelSome(S) ==
    /\ \A j \in S: phase[j] = "open"
    /\ phase' = [j \in Jobs |-> IF j \in S THEN "cancelled" ELSE phase[j]]
    /\ UNCHANGED effects

Next ==
    \/ \E j \in Jobs: \/ Open(j) \/ Complete(j)
                      \/ \E how \in {"dead", "cancelled"}: GiveUp(j, how)
    \/ \E S \in SUBSET Jobs: CancelSome(S)

Spec == Init /\ [][Next]_avars
=============================================================================
