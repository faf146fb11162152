----------------------------- MODULE MCOverlapped -----------------------------
(* A small instance of Overlapped for TLC. *)
EXTENDS Overlapped, TLC

Symmetry == Permutations(Workers) \cup Permutations(Overs)
=============================================================================
