---------------------------- MODULE MCChatServer ----------------------------
(* Small instances of ChatServer for TLC. *)
EXTENDS ChatServer, TLC

Symmetry == Permutations(Workers) \cup Permutations(Sockets) \cup Permutations(Endpoints)
=============================================================================
