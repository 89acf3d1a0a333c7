------------------------------ MODULE MCGateway -----------------------------
(* Instance of Gateway for TLC.  The model is finite; Attempts is that of     *)
(* main.c.                                                                    *)
EXTENDS Gateway
=============================================================================
