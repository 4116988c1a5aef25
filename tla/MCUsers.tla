------------------------------- MODULE MCUsers -------------------------------
(* Clients, names and keys are interchangeable.                             *)
EXTENDS Users, TLC

Symmetry == {p @@ q @@ r : p \in Permutations(Clients), q \in Permutations(Names), r \in Permutations(Keys)}
=============================================================================
