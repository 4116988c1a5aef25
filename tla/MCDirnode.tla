----------------------------- MODULE MCDirnode -----------------------------
(* A directory of five names, two short and three long, in buckets of two  *)
(* entries, and a client that reads its files.                             *)
EXTENDS DirnodeReader, TLC

CONSTANTS Short, Long

MCNames  == Short \union Long
MCRecLen == [name \in MCNames |-> IF name \in Short THEN 1 ELSE 3]

NameSymmetry == {p @@ q : p \in Permutations(Short), q \in Permutations(Long)}
=============================================================================
