--------------------------- MODULE NumberRegister ---------------------------
(***************************************************************************)
(* What the numbering of documents promises, without saying how: nobody    *)
(* gets two numbers, and the numbers 1, 2, 3 ... are given in the order in *)
(* which the documents come to exist.  Both the numbers of events and      *)
(* those of budgets are to be such a register.                             *)
(***************************************************************************)
EXTENDS Naturals, FiniteSets

CONSTANT Holders

VARIABLE issued   \* the number of a holder, 0 if it has none

Numbered == {h \in Holders : issued[h] # 0}

Init == issued = [h \in Holders |-> 0]

Issue(h) ==
    /\ issued[h] = 0
    /\ issued' = [issued EXCEPT ![h] = Cardinality(Numbered) + 1]

Next == \E h \in Holders : Issue(h)

Spec == Init /\ [][Next]_issued

=============================================================================
