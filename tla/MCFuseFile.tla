----------------------------- MODULE MCFuseFile -----------------------------
(* FuseFile with two threads and two handles; the values are in            *)
(* MCFuseFile.cfg.                                                         *)
EXTENDS FuseFile, TLC

Symmetry == Permutations(Threads) \union Permutations(Files) \union Permutations(Names)
=============================================================================
