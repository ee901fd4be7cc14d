------------------------------ MODULE MCPanel ------------------------------
(* Small instances of Panel for TLC. *)
EXTENDS Panel, TLC

Symmetric == Permutations(Task) \cup Permutations(Request)
=============================================================================
