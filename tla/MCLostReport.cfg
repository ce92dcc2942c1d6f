SPECIFICATION Spec
CONSTANTS
    c1 = c1
    c2 = c2
    c3 = c3
    e1 = e1
    e2 = e2
    w1 = w1
    w2 = w2
    d1 = d1
    d2 = d2
    dCompany = dCompany
    None = None
    Contracts = {c1}
    Envelopes = {e1}
    Workers = {w1}
    Documents = {d1, d2, dCompany}
    LeadDocument <- MCLeadDocument
    CompanyDocument = dCompany
    Forms <- MCItems
    Ops = {"request"}
    Requested = {}
SYMMETRY MCSymmetry
INVARIANTS
    DroppedReportWasProcessed
