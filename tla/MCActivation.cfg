SPECIFICATION FairSpec
CONSTANTS
    c1 = c1
    c2 = c2
    c3 = c3
    e1 = e1
    e2 = e2
    w1 = w1
    w2 = w2
    d1 = d1
    d2 = d2
    dCompany = dCompany
    None = None
    Contracts = {c1, c2, c3}
    Envelopes = {}
    Workers = {w1, w2}
    Documents = {d1, d2, dCompany}
    LeadDocument <- MCLeadDocument
    CompanyDocument = dCompany
    Forms <- MCNoForms
    Ops = {"close"}
    Requested = {}
PROPERTIES
    EventsNumberedInOrder
    RequestsEnd
CHECK_DEADLOCK FALSE
