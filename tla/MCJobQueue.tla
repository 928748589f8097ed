----------------------------- MODULE MCJobQueue -----------------------------
(* Finite instances of JobQueue for TLC; liveness allows no symmetry.       *)
EXTENDS JobQueue
=============================================================================
