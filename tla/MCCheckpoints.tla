---- MODULE MCCheckpoints ----
EXTENDS Checkpoints

Script(presses, length, failures, changes, cut, pause) ==
    [turns |-> length, press |-> presses, faults |-> failures, toggles |-> changes,
     cuts |-> cut, pauses |-> pause]

\* Pressure over several segments with a failure anywhere; the feature
\* switched off and on; an outage past the last depth; ordinary plans and a
\* later boundary; a turn that pauses; the model cut short; a long history.
MCScripts ==
    {Script({3}, 3, 2, 0, FALSE, FALSE),
     Script({2}, 2, 1, 2, TRUE, FALSE),
     Script({2}, 2, 5, 0, FALSE, FALSE),
     Script({}, 5, 1, 0, FALSE, FALSE),
     Script({1, 4}, 4, 1, 0, FALSE, TRUE),
     Script({3}, 3, 1, 0, TRUE, FALSE),
     Script({5}, 5, 0, 1, FALSE, FALSE)}
====
