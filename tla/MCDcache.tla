------------------------------ MODULE MCDcache ------------------------------
(* A volume with a directory under the root and a file in it; one more file *)
(* can be created.                                                          *)
EXTENDS Dcache

CONSTANTS d0, d1, f1, f2, a, b

MCVolume == [d \in Dirs |-> [n \in Names |->
                CASE d = Root /\ n = a -> d1
                  [] d = d1 /\ n = a -> f1
                  [] OTHER -> None]]
=============================================================================
