-------------------------------- MODULE MCRoom --------------------------------
(* A room on a small instance.                                              *)
EXTENDS Room, TLC

ConnSymmetry == Permutations(Conns)

\* Bound of the instance: at most one connection says hello more than once.
OneTalker == Cardinality({w \in Conns : hellos[w] > 1}) <= 1

=============================================================================
