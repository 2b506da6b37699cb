--------------------------- MODULE MCContentPurge ---------------------------
(* TLC instance of ContentPurge: one user saves the content twice.          *)
EXTENDS ContentPurge, TLC

CONSTANTS a1, a2, b1, alice, bob

MCUserOf == [s \in {a1, a2, b1} |-> IF s = b1 THEN bob ELSE alice]

\* The user's two saves.
Symmetry == Permutations({a1, a2})
=============================================================================
