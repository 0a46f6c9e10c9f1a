--------------------------- MODULE MCPageSession ---------------------------
(* PageSession for TLC: the loads are interchangeable. *)
EXTENDS PageSession, TLC

Interchangeable == Permutations(Loads)
=============================================================================
