------------------------------- MODULE MCSign -------------------------------
(* Model checking of Sign on a small instance. *)
EXTENDS Sign, TLC

Symmetry == Permutations(Uuids) \cup Permutations(Cas)
=============================================================================
