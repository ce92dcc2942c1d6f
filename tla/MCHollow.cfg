SPECIFICATION Spec
CONSTANTS
    Parts = {"documents"}
    None = None
    Workers = {w1, w2}
    Batches <- MCBatches
    Edits <- MCEdits
    Owners = {o1, o2, o3}
    Words = {garcom}
    Positions = {cook, waiter}
    Documents = {d1}
    MaxEmployees = 2
    MaxTime = 3
    MaxRows = 3
    Limits = {0, 1, 2}
    BudgetForms <- MCBudgetForms
    BudgetEdits <- MCBudgetEdits
    LeadEdits <- MCLeadEdits
    ProfileEdits <- MCProfileEdits
    ContractorEdits <- MCContractorEdits
    Bodies = {ownBody}
INVARIANTS
    NoHollowContracts
CHECK_DEADLOCK FALSE
