------------------------------ MODULE MCSigcert ------------------------------
(* Model checking of Sigcert on a small instance. *)
EXTENDS Sigcert, TLC

\* A key that is there already; a string that reads back differently and one that
\* does not parse.
MCMetadata == {Entry(<<"algorithm">>, "s", "backslash"), Entry(<<"uuid">>, "s", "quote")}

Symmetry == Permutations(KeyPairs) \cup Permutations(Slots)
=============================================================================
