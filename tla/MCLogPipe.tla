------------------------------ MODULE MCLogPipe -----------------------------
(* Instance of LogPipe for TLC: two threads write messages of one or two    *)
(* blocks and their NUL.  Liveness is checked, so no symmetry is used.      *)
EXTENDS LogPipe
=============================================================================
