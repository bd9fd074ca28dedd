------------------------- MODULE MCReviewedActions -------------------------
(* The instance that TLC checks.                                           *)
EXTENDS ReviewedActions, TLC

Symmetry == Permutations(Calls) \cup Permutations(Flows)

=============================================================================
