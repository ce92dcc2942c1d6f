SPECIFICATION FairSpec
CONSTANTS
    u1 = u1
    c1 = c1
    c2 = c2
    c3 = c3
    k1 = k1
    k2 = k2
    l1 = l1
    l2 = l2
    l3 = l3
    b1 = b1
    b2 = b2
    b3 = b3
    w1 = w1
    w2 = w2
    None = None
    Operators = {u1}
    Codes = {c1}
    Clients = {k1, k2}
    Leads = {l1, l2}
    Budgets = {b1, b2, b3}
    Workers = {w1, w2}

INVARIANTS
NumberIsFree
PROPERTIES BudgetsNumberedInOrder RequestsEnd
CHECK_DEADLOCK FALSE
