---------------------------- MODULE MCIocpServer ----------------------------
(* Small instances of IocpServer for TLC. *)
EXTENDS IocpServer, TLC

Symmetry == Permutations(Workers) \cup Permutations(Sockets)
=============================================================================
