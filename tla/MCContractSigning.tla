------------------------- MODULE MCContractSigning --------------------------
(* Instances of ContractSigning for TLC. *)
EXTENDS ContractSigning, TLC

CONSTANTS c1, c2, c3, e1, e2, w1, w2, d1, d2, dCompany

\* Two contracts of one client, and one of another.
MCLeadDocument == [c \in Contracts |-> IF c = c3 THEN d2 ELSE d1]

Form(kind, what, sign) == [kind |-> kind, what |-> what, sign |-> sign]

MCNoForms == {}

MCItems == {Form("items", "signed", FALSE)}

\* A refusal is reported by name.
MCSigningForms ==
    MCItems \cup {Form("subject", "rejected", TRUE)}

MCCallbacks == {Form("callback", "signed", FALSE), Form("callback", "rejected", FALSE)}

MCSymmetry == Permutations(Workers) \cup Permutations(Envelopes)

=============================================================================
