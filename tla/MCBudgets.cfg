SPECIFICATION MCSpec
CONSTANTS
    b1 = b1
    b2 = b2
    w1 = w1
    w2 = w2
    None = None
    Budgets = {b1, b2}
    Workers = {w1, w2}
    MaxDays = 2
    Prices <- MCPrices
    Discounts <- MCDiscounts
    Drafts <- MCDrafts
    Inputs <- MCInputs
SYMMETRY MCSymmetry
INVARIANTS
    NoGapInDays
    OffersComplete
    TotalAgrees
    ContractsOfApproved
PROPERTIES
    SettledStays
    ContractsNumberedInOrder
CHECK_DEADLOCK FALSE
