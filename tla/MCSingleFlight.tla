--------------------------- MODULE MCSingleFlight ---------------------------
(***************************************************************************)
(* Three tasks and three chunks: the smallest instance in which a task     *)
(* waits for the batches of two others.                                    *)
(***************************************************************************)
EXTENDS SingleFlight, TLC

Symmetry == Permutations(Task) \cup Permutations(Key)
=============================================================================
