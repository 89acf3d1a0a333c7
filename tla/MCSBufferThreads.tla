------------------------- MODULE MCSBufferThreads --------------------------
(* Instances of SBufferThreads for TLC.  Node addresses are interchangeable, *)
(* and so are the consumers and the words of a reading.                      *)
EXTENDS SBufferThreads

Symmetry == Permutations(Addr) \cup Permutations(Consumers) \cup Permutations(Words)

\* The properties of the passing run ask nothing of states beyond these.
Asked == ~ overlapped \/ ~ reused
=============================================================================
