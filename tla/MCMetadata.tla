----------------------------- MODULE MCMetadata -----------------------------
(* Bounded instances of Metadata: one thread with every kind of operation, *)
(* or two threads, next to another client, over a few seconds.             *)
EXTENDS Metadata, TLC

Threads == Permutations(Ops)
=============================================================================
