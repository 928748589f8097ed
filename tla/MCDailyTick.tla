----------------------------- MODULE MCDailyTick -----------------------------
(* Finite instances of DailyTick for TLC.                                      *)
EXTENDS DailyTick, TLC

CONSTANTS t1, t2

Course(mode, nights, from, kinds, changes, jumps, messages) ==
    [mode |-> mode, days |-> nights, clock |-> from, kinds |-> kinds,
     edits |-> changes, moves |-> jumps, messages |-> messages]

MCPlans ==
    {Course(mode, 1, 0, {}, 2, 0, 0) : mode \in {"weekly", "dated"}}
    \union {Course("weekly", 2, 0, {}, 1, 0, 0), Course("weekly", 2, 0, {"morning"}, 0, 1, 0)}
    \union {Course("dated", 1, 8, {"routine", "morning"}, 0, 1, 0),
            Course("dated", 1, 8, {"evening"}, 0, 1, 2)}

TickSymmetry == Permutations({t1, t2})
=============================================================================
