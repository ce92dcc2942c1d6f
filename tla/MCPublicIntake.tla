--------------------------- MODULE MCPublicIntake ---------------------------
(* Instances of PublicIntake for TLC. *)
EXTENDS PublicIntake, TLC

CONSTANTS u1, c1, c2, c3, k1, k2, l1, l2, l3, b1, b2, b3, w1, w2

MCSymmetry ==
    Permutations(Workers) \cup Permutations(Codes) \cup Permutations(Clients)
    \cup Permutations(Leads) \cup Permutations(Budgets)

=============================================================================
