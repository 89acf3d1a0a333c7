---------------------------- MODULE MCStorageMgr ----------------------------
(* Instance of StorageMgr for TLC.  Values are numbers of at most three        *)
(* digits, printed with two (%e) and one (%g): 20 and 30 are printed as they   *)
(* are by both, 196 as 200 by both; of 23 and 25 %e prints a digit more, and   *)
(* %g rounds the one down and the other up.                                    *)
EXTENDS StorageMgr, TLC

MCValue == <<20, 23, 196, 30, 25>> @@ (0 :> 0)
MCTs == [n \in 0..5 |-> n \div 2]
MCQueryValue == {20, 23, 25, 196}
=============================================================================
