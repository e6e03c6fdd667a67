----------------------------- MODULE MCPrivsep -----------------------------
(* Model checking of Privsep on a small instance. *)
EXTENDS Privsep, FiniteSets

\* A conjunction of checks is exercised by requests that lack at most this many
\* of the facts it asks for.
CONSTANT MaxMissing

MCInit == Init /\ Cardinality(Checks(cmd) \ facts) <= MaxMissing

MCSpec == MCInit /\ [][Next]_vars /\ Fairness
=============================================================================
