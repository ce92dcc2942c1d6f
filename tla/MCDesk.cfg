SPECIFICATION Spec
CONSTANTS
    Parts = {"payment", "catalog", "employees", "profile", "lists", "documents"}
    None = None
    Workers = {w1, w2}
    Batches <- MCBatches
    Edits <- MCEdits
    Owners = {o1, o2, o3}
    Words = {garcom}
    Positions = {cook, waiter}
    Documents = {d1}
    MaxEmployees = 2
    MaxTime = 3
    MaxRows = 3
    Limits = {0, 1, 2}
    BudgetForms <- MCBudgetForms
    BudgetEdits <- MCBudgetEdits
    LeadEdits <- MCLeadEdits
    ProfileEdits <- MCProfileEdits
    ContractorEdits <- MCContractorEdits
    Bodies = {ownBody}
SYMMETRY MCSymmetry
INVARIANTS
    LedgerAgrees
    FewRecords
    AllShown
    ProposalAddsUp
    SameTerms
PROPERTIES
    TransitionsHold
    AssignedWereActive
    TermsStay
CHECK_DEADLOCK FALSE
