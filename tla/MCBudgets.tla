----------------------------- MODULE MCBudgets ------------------------------
EXTENDS Budgets, TLC

CONSTANTS b1, b2, w1, w2

Quarter == [kind |-> "percentage", value |-> 25]

MCDiscounts == {NoDiscount, Quarter}

MCPrices == {0, 4}

Lines0 == {[day |-> 0, price |-> 4]}

Lines01 == Lines0 \cup {[day |-> 1, price |-> 4]}

Unpriced == Lines0 \cup {[day |-> 1, price |-> 0]}

Update(s, n, x, l) == [status |-> s, days |-> n, discount |-> x, lines |-> l]

StatusAlone(s) == Update(s, None, None, {})

\* The budget is filled in as a form leaves it, with a price missing; not with
\* a day missing, which is refused.
MCDrafts ==
    (b1 :> {[days |-> 2, discount |-> Quarter, lines |-> l] :
                l \in {Unpriced, Unpriced \ Lines0}}) @@
    (b2 :> {})

\* A status alone; lines alone; fewer days and no discount, without lines but
\* together with a status.
MCInputs ==
    (b1 :> {StatusAlone(s) : s \in {"GENERATED", "APPROVED", "REJECTED"}} \cup
           {Update(None, None, None, Lines01),
            Update("GENERATED", 1, NoDiscount, {})}) @@
    (b2 :> {})

\* A second budget is there for its contract's number: it starts approved, as
\* its creation and two updates leave it.
MCInit ==
    /\ \E w \in Workers : items = (b1 :> {}) @@ (b2 :> ItemsFrom(w, Lines0))
    /\ budget = (b1 :> NoBudget) @@
                (b2 :> [status |-> "APPROVED", days |-> 1, total |-> 4,
                        discounts |-> [d \in 0 .. 0 |-> NoDiscount]])
    /\ number = [b \in Budgets |-> 0]
    /\ worker = [p \in Workers |-> Idle]
    /\ stale = [b \in Budgets |-> FALSE]

MCSpec == MCInit /\ [][Next]_vars

MCSymmetry == Permutations(Workers)

=============================================================================
