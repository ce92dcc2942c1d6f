-------------------------------- MODULE MCDesk --------------------------------
(* An instance of Desk for TLC. *)
EXTENDS Desk, TLC

Entry(status, planned, paid) == [status |-> status, planned |-> planned, paid |-> paid]

\* A part is paid; more than planned is paid; cancelled; and a list that is
\* refused.
MCBatches == {<<Entry("PAID", 1, 1), Entry("PENDING", 2, 0), Entry("PENDING", 0, 0)>>,
              <<Entry("PAID", 2, 3)>>,
              <<Entry("CANCELED", 2, 0)>>,
              <<Entry("PARTIAL", 2, 2)>>}

MCEdits == {[status |-> "PARTIAL", paid |-> 1, dated |-> TRUE],
            [status |-> "PARTIAL", paid |-> 0, dated |-> TRUE],
            [status |-> "PAID", paid |-> 2, dated |-> TRUE],
            [status |-> "PAID", paid |-> -1, dated |-> TRUE],
            [status |-> "CANCELED", paid |-> 0, dated |-> FALSE],
            [status |-> None, paid |-> 2, dated |-> TRUE]}

Day1 == [date |-> 1, arrival |-> 600, departure |-> 1200, place |-> "hall", hours |-> 10, guests |-> 10]
Day2 == [date |-> 3, arrival |-> 1200, departure |-> 120, place |-> "park", hours |-> 6, guests |-> 20]

Item(k, what, day, price, order) ==
    [kind |-> k, what |-> what, day |-> day, quantity |-> 2, price |-> price, order |-> order]

PerCent(v) == [kind |-> "percentage", value |-> v]
Fixed(v) == [kind |-> "amount", value |-> v]
Nothing == [kind |-> "", value |-> 0]

\* One day with staff, supplies, a fee and a percentage; two days with a fee
\* and more discount than there is to pay on the second.
Days1 == [d \in {0} |-> Day1]
Days2 == [d \in {0, 1} |-> IF d = 0 THEN Day1 ELSE Day2]
Staff == Item("LABOR", "copeira", 0, 60, 0)
Goods == Item("SUPPLY", "soap", 0, 20, 0)
Other == Item("LABOR", "monitor", 1, 40, 2)

MCBudgetForms ==
    {[days |-> Days1, fees |-> [d \in {0} |-> 10], discounts |-> [d \in {0} |-> PerCent(10)],
      advance |-> 30, items |-> {Staff, Goods}],
     [days |-> Days2, fees |-> << >>, discounts |-> << >>, advance |-> 50,
      items |-> {Staff, Other}]}

NoBudgetEdit == [days |-> None, fees |-> None, discounts |-> None, advance |-> None, items |-> None]

\* The days become one, with what is left of the rest; or two, with all that
\* belongs to them; a discount and fees are entered.
MCBudgetEdits ==
    {[NoBudgetEdit EXCEPT !.days = Days1, !.discounts = << >>, !.advance = 40],
     [NoBudgetEdit EXCEPT !.days = Days2, !.items = {Goods, Other},
                          !.discounts = [d \in {0, 1} |-> PerCent(25)]],
     [NoBudgetEdit EXCEPT !.discounts = [d \in {0, 1} |-> IF d = 0 THEN Nothing ELSE Fixed(90)]],
     [NoBudgetEdit EXCEPT !.fees = [d \in {0, 1} |-> 10 * d]]}

MCLeadEdits == {[name |-> "firm", legalName |-> "firm ltd", street |-> "street", address |-> ""]}

NoParty == [legalName |-> None, tradeName |-> None, representativeName |-> None,
            pixKey |-> None, pixKeyType |-> None]

MCProfileEdits == {[NoParty EXCEPT !.representativeName = "heir", !.pixKey = "mail", !.pixKeyType = "email"]}

MCContractorEdits == {NoParty, [NoParty EXCEPT !.tradeName = "branch"]}

MCSymmetry == Permutations(Workers) \cup Permutations(Positions)

=============================================================================
