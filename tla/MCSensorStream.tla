---------------------------- MODULE MCSensorStream ---------------------------
(* Instance of SensorStream for TLC: a field of one unit and two of two, so   *)
(* that two of them can arrive in parts; room for one reading and a field.    *)
EXTENDS SensorStream

MCSize == [id |-> 1, value |-> 2, ts |-> 2]
=============================================================================
