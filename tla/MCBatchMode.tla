---------------------------- MODULE MCBatchMode ----------------------------
(* One object, a dirnode or a filenode, that exists or is to be created:   *)
(* the state of an object depends on the others only through the one       *)
(* operation that runs and the place of the commander.                     *)
EXTENDS BatchMode
=============================================================================
