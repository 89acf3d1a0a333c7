------------------------------ MODULE MCDPList ------------------------------
(* Instance of DPList for TLC.  Lists of up to four nodes have a first, a    *)
(* last and two inner ones; three elements allow equal and unequal ones, and *)
(* the indices lie before, on, in, at the end of and behind the list.        *)
EXTENDS DPList, TLC

MCIndex == -1..4
Symmetry == Permutations(Addr)
=============================================================================
