------------------------------ MODULE MCOffice -------------------------------
(* An instance of Office for TLC. *)
EXTENDS Office, TLC

CONSTANTS admin, dashboard, leads

MCDefaults == [g \in Groups |-> IF g = admin THEN {dashboard, leads} ELSE {dashboard}]

Input(g, s, k, r) == [group |-> g, status |-> s, pages |-> k, reset |-> r]

MCInputs ==
    {Input(g, None, None, FALSE) : g \in Groups \ {admin}}
      \cup {Input(None, None, k, FALSE) : k \in {{leads}, {dashboard}}}
      \cup {Input(None, FALSE, None, FALSE), Input(None, TRUE, None, TRUE),
            Input(admin, None, {leads}, FALSE)}

MCNames == [client : Clients, padded : BOOLEAN]

MCCreated == [name : [client : Clients, padded : {FALSE}], status : {"NEW"}]

MCUpdates == [name : {None}, status : {"NEW", "WON"}] \cup [name : MCNames, status : {None}]

\* A user who starts as administrator.
MCInit == Init /\ user.group = admin

MCSpec == MCInit /\ [][Next]_vars

MCSymmetry == Permutations(Workers)

=============================================================================
