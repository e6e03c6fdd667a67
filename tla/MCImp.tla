------------------------------- MODULE MCImp -------------------------------
(* Model checking of Imp on a small instance. *)
EXTENDS Imp, FiniteSets

CONSTANT MaxMissing

MCInit == Init /\ Cardinality(PS!Checks(cmd) \ facts) <= MaxMissing

MCSpec == MCInit /\ [][Next]_vars
=============================================================================
