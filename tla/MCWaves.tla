------------------------------ MODULE MCWaves ------------------------------
(* Waves with one connection for each of some of the accounts. *)
EXTENDS Waves, TLC

MCUserOf == [c \in Conns |-> c]

\* The accounts that have a connection are interchangeable.
Symmetric == Permutations(Conns)
=============================================================================
