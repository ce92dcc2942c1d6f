--------------------------- MODULE MCEventStaffing ---------------------------
EXTENDS EventStaffing, TLC

CONSTANTS waitresses, porter, flowers, ana, bruno, w1, w2

MCLines == {waitresses, porter, flowers}

MCLineType == (waitresses :> "LABOR") @@ (porter :> "LABOR") @@ (flowers :> "SUPPLY")

MCLineDay == [l \in MCLines |-> 0]

MCQuantity == (waitresses :> 2) @@ (porter :> 0) @@ (flowers :> 3)

\* "garconete" holds "garcon" too.
MCTerms == (waitresses :> {"garconete", "garcon"}) @@ (porter :> {}) @@ (flowers :> {})

MCGender == (ana :> "FEMALE") @@ (bruno :> "MALE")

MCSymmetry == Permutations(Workers)

=============================================================================
