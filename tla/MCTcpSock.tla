------------------------------ MODULE MCTcpSock -----------------------------
(***************************************************************************)
(* Instance of TcpSock for TLC: three variables and descriptors, ports     *)
(* 1..3 of which the kernel gives out 1 and 3, and callers that ask for 1  *)
(* (too small), 2, 3, 4 (the number of ports, which the library allows)    *)
(* and 5 (too large).                                                      *)
(***************************************************************************)
EXTENDS TcpSock, TLC

MCAsked == 1..5
MCEphemeral == {1, 3}
Symmetry == Permutations(Handle) \cup Permutations(Desc)
=============================================================================
