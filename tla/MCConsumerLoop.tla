--------------------------- MODULE MCConsumerLoop ---------------------------
(* Finite instances of ConsumerLoop for TLC: two queues, the first busier. *)
EXTENDS ConsumerLoop, TLC

CONSTANTS memory, content, j1, j2, j3, j4

MCRows    == {j1, j2, j3, j4}
MCQueueOf == (j1 :> memory) @@ (j2 :> memory) @@ (j3 :> memory)
             @@ (j4 :> content)
=============================================================================
