---------------------------- MODULE MCChatSystem ----------------------------
(* A small instance of ChatSystem for TLC. *)
EXTENDS ChatSystem, TLC

Symmetry == Permutations(Workers) \cup Permutations(Sockets) \cup Permutations(Endpoints)
=============================================================================
