----------------------------- MODULE MCChatTurns -----------------------------
(* Finite instances of ChatInference for TLC: r1 and r2 are retries of one key. *)
EXTENDS ChatInference, TLC

CONSTANTS r1, r2, r3, k1, k2

MCRequests == {r1, r2, r3}
MCKeyOf    == (r1 :> k1) @@ (r2 :> k1) @@ (r3 :> k2)
Symmetry   == Permutations({r1, r2})
=============================================================================
