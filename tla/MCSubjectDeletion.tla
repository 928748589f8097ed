-------------------------- MODULE MCSubjectDeletion --------------------------
(* Finite instances of SubjectDeletion for TLC.  Either two deletion         *)
(* requests compete and one sweep runs at a time, or one request meets       *)
(* sweeps that overlap.                                                      *)
EXTENDS SubjectDeletion

CONSTANTS r1, r2, s1, s2

VARIABLE cast

MCInit == Init /\ cast \in {"requests", "sweeps"}

MCNext ==
    /\ Next /\ UNCHANGED cast
    /\ IF cast = "requests" THEN sweeper'[s2] = sweeper[s2] ELSE request'[r2] = request[r2]

Runs(s) == s = s1 \/ cast = "sweeps"

MCSpec ==
    /\ MCInit /\ [][MCNext]_<<vars, cast>>
    /\ \A s \in Sweepers : /\ WF_vars(Runs(s) /\ SweepPromotes(s))
                           /\ SF_vars(Runs(s) /\ SweepLoads(s))
                           /\ SF_vars(Runs(s) /\ Sweep(s))
    /\ \A j \in Jobs : WF_vars(JobEnds(j))

\* Where sweeps do not overlap, a vector that a late job writes between two
\* sweeps starts the count again.
TwoEmptySweepsOfOne == [][cast = "requests" => ClosesAfterEmptySweep]_vars
=============================================================================
