------------------------ MODULE MCSchemaMigrations -------------------------
(* An instance of SchemaMigrations for TLC. *)
EXTENDS SchemaMigrations

Row(client, company, theirs, ours) ==
    [date     |-> [client |-> client, company |-> company],
     document |-> [client |-> theirs, company |-> ours]]

Plain ==
    [schema |-> BaseSchema, applied |-> <<>>,
     users |-> {"seed"}, owner |-> "seed",
     employees |-> <<>>, positions |-> {}, items |-> <<>>,
     payments |-> <<>>, events |-> <<>>,
     identified |-> TRUE, signed |-> TRUE, signatures |-> <<>>,
     days |-> 1,
     budget |-> [location |-> One("hall"), fee |-> One("0"),
                 percentage |-> One(None), kind |-> One(None)],
     address |-> None, street |-> None,
     slots |-> {}, legacyActive |-> TRUE]

Employee(text) == [document |-> "", text |-> text, position |-> None]

Line(word) == [word |-> word, position |-> None]

\* What is interesting about employees and lines, contracts, budgets and so on,
\* one at a time.
MCDatabases ==
    {[Plain EXCEPT !.users = {"seed", t[1]}, !.owner = t[1],
                   !.employees = <<Employee(<<"copeira", t[2]>>), Employee(<<t[3], "plain">>)>>,
                   !.items = <<Line("copeira"), Line("porteiro")>>]
       : t \in {<<"seed", "capital", "copeira">>, <<"other", "plain", "">>}}
    \cup {[Plain EXCEPT !.users = {"other"}, !.owner = "other"],
          [Plain EXCEPT !.identified = FALSE]}
    \cup {[Plain EXCEPT !.signatures = <<Row(t[1], t[2], "company's", "client's")>>]
            : t \in {<<None, 1>>, <<1, 1>>, <<1, 2>>, <<2, 1>>}}
    \cup {[Plain EXCEPT !.signed = FALSE, !.signatures = <<Row(2, 1, theirs, "company's")>>]
            : theirs \in {None, "client's"}}
    \cup {[Plain EXCEPT !.signatures = <<Row(x, 2, "company's", "client's"),
                                         Row(3, y, "client's", "company's")>>]
            : x \in {None, 1}, y \in {None, 2, 3}}
    \cup {[Plain EXCEPT !.days = n, !.budget.fee = One(IF p = "10" THEN "5" ELSE "0"),
                        !.budget.percentage = One(p),
                        !.budget.kind = One(IF p = None THEN None ELSE "percentage")]
            : n \in 0 .. 2, p \in {None, "0", "10"}}
    \cup {[Plain EXCEPT !.payments = <<"absent", "absent">>, !.events = e]
            : e \in {<<>>, <<None>>}}
    \cup {[Plain EXCEPT !.address = a,
                        !.slots = {[line |-> x, taken |-> t]
                                     : x \in {"labor", "supply", "legacy"}, t \in BOOLEAN}]
            : a \in {"short", "long"}}

MCInit == Init

MCSpec == MCInit /\ [][Next]_vars

=============================================================================
