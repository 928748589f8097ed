--------------------------- MODULE MCMemoryChain ---------------------------
(* Two kinds of courses of MemoryChain for TLC, chosen at the start: one in  *)
(* which operators reset the chain, nothing else goes wrong with it and      *)
(* every chunk holds a memory, and one in which attempts fail, hours pass    *)
(* and no operator acts; only the second is promised that work is finished.  *)
EXTENDS MemoryChain

VARIABLE course

MCInit == Init /\ course \in {"operators", "failures"}

MCNext ==
    /\ Next /\ UNCHANGED course
    /\ IF course = "operators"
       THEN /\ UNCHANGED <<faults, hour>>
            /\ \A j \in jobs' \ jobs : j.step = "done" => <<j.read, j.last>> \in rows'
       ELSE gen' = gen

Failures(A) == course = "failures" /\ A

MCSpec ==
    /\ MCInit /\ [][MCNext]_<<vars, course>>
    /\ WF_vars(Failures(\E j \in jobs : Works(j)))
    /\ WF_vars(Failures(SweepRead(TRUE))) /\ SF_vars(Failures(SweepApply(FALSE)))
    /\ WF_vars(Failures(HourPasses))

\* Where no operator acts, every turn a user talked is ingested in the end,
\* when attempts fail, jobs die and a chain broke without leaving a dead job
\* (memory_sweep_jobs.py).
EventuallyIngestedThere ==
    \A t \in 1..MaxTurn : (course = "failures" /\ t \in turns) ~> (ingest >= t)

\* Where no operator acts, every registered memory is judged in the end: it
\* would neither be recalled nor let the cutover pass
\* (memory_sweep_jobs.py:641-642).
EventuallyJudgedThere ==
    \A t \in 1..MaxTurn :
        (course = "failures" /\ <<0, t>> \in pending) ~> (<<0, t>> \notin pending)
=============================================================================
