---------------------------- MODULE MCUsageLedger ----------------------------
(* Finite instances of UsageLedger for TLC: a consumer, and beside it an API   *)
(* process or a tick.                                                          *)
EXTENDS UsageLedger, TLC

CONSTANTS consumer, other, c1, c2

MCKinds == {(consumer :> "consumer") @@ (other :> k) : k \in {"api", "tick"}}
=============================================================================
