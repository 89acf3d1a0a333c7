----------------------------- MODULE MCSBuffer ------------------------------
(* Instance of SBuffer for TLC.  The next and data fields of a node keep    *)
(* their old content after a free, as memory does.                          *)
EXTENDS SBuffer
=============================================================================
