------------------------------ MODULE MCConnMgr -----------------------------
(* Instances of ConnMgr for TLC.  Descriptors are interchangeable.  *)
EXTENDS ConnMgr, TLC

Symmetry == Permutations(Fd)

\* Bound: the list, which stopped clients never leave, and the descriptors a
\* failed accept left open have two members at most.
TwoClients == Cardinality(sock_list \cup {f \in Fd : link[f] = "leaked"}) =< 2
=============================================================================
