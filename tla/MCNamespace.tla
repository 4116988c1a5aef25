---------------------------- MODULE MCNamespace ----------------------------
(* Clients, directories and names are interchangeable.                      *)
EXTENDS Namespace, TLC

Symmetry == {p @@ q @@ r : p \in Permutations(Clients), q \in Permutations(Dirs), r \in Permutations(Names)}
=============================================================================
