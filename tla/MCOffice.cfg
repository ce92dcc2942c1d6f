SPECIFICATION MCSpec
CONSTANTS
    Parts = {"credentials", "sessions", "recovery", "access", "leads"}
    None = None
    Workers = {w1, w2}
    Limit = 3
    MaxTokens = 4
    MaxCodes = 3
    MaxAttempts = 2
    admin = admin
    Groups = {admin, staff}
    dashboard = dashboard
    leads = leads
    Pages = {dashboard, leads}
    MaxLeads = 3
    Clients = {ana}
    Defaults <- MCDefaults
    Inputs <- MCInputs
    Created <- MCCreated
    Updates <- MCUpdates
SYMMETRY MCSymmetry
INVARIANTS
    CountedHaveFailed
    FewRecoveryCodes
    PagesAsAsked
    FewLeads
PROPERTIES
    LogoutEnds
    ResetsOnce
    OutcomeStays
CHECK_DEADLOCK FALSE
