------------------------------ MODULE WorksMC ------------------------------
(* The instance of Works that TLC checks. *)
EXTENDS Works, TLC

Symmetry == Permutations(Adders)

=============================================================================
