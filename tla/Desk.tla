-------------------------------- MODULE Desk ---------------------------------
(***************************************************************************)
(* Parts of the daily work at the desk: the payment of a contract, the     *)
(* catalogues, employees, the company's profile, the reading of lists and  *)
(* the documents that clients are given.  They share no columns that       *)
(* matter here, but for the profile, so each is followed by itself:        *)
(* part is the one that a behaviour is about, and the others rest.         *)
(***************************************************************************)
EXTENDS Integers, FiniteSets, Sequences

CONSTANTS
    Parts,                                  \* the parts that are followed
    Workers, None,
    Batches, Edits,                         \* PaymentLedger
    Owners, Words,                          \* Catalog
    Positions, Documents, MaxEmployees,     \* Employees
    MaxTime,                                \* CompanyProfile
    MaxRows, Limits,                        \* Catalog, Listing
    BudgetForms, BudgetEdits, LeadEdits, ProfileEdits, ContractorEdits, Bodies  \* Documents

VARIABLES
    part,
    payment, twins, items, ledgerWorker, stale,         \* PaymentLedger
    kind, catalog, catalogWorker,                       \* Catalog
    active, employees, employeeWorker,                  \* Employees
    clock, profiles, profileWorker,                     \* CompanyProfile
    list, rows, entered, reader, shown, missed, left,   \* Listing
    budget, lead, profile, contract                     \* Documents

P == INSTANCE PaymentLedger WITH worker <- ledgerWorker
C == INSTANCE Catalog WITH rows <- catalog, worker <- catalogWorker
E == INSTANCE Employees WITH worker <- employeeWorker
F == INSTANCE CompanyProfile WITH worker <- profileWorker
L == INSTANCE Listing
D == INSTANCE Documents

AllParts == {"payment", "catalog", "employees", "profile", "lists", "documents"}

ASSUME PartsAssumption == Parts \subseteq AllParts

ASSUME SetsAssumption == IsFiniteSet(Workers) /\ IsFiniteSet(Words)

ASSUME NoneAssumption ==
    None \notin P!PaymentStatus \cup Int \cup Owners \cup Positions \cup Documents \cup {""}
                  \cup C!Names

ASSUME LedgerAssumption == Batches \subseteq Seq(P!Entries) /\ Edits \subseteq P!Changes

ASSUME BoundsAssumption ==
    MaxEmployees \in Nat /\ MaxTime \in Nat /\ MaxRows \in Nat /\ Limits \subseteq Int

ASSUME FormsAssumption ==
    /\ \A form \in BudgetForms :
         D!Entered(form) /\ None \notin {form.days, form.fees, form.discounts, form.items}
    /\ \A e \in BudgetEdits : D!Entered(e)

ledgerVars == <<payment, twins, items, ledgerWorker, stale>>
catalogVars == <<kind, catalog, catalogWorker>>
employeeVars == <<active, employees, employeeWorker>>
profileVars == <<clock, profiles, profileWorker>>
listVars == <<list, rows, entered, reader, shown, missed, left>>

documentVars == <<budget, lead, profile, contract>>

vars == <<part, ledgerVars, catalogVars, employeeVars, profileVars, listVars, documentVars>>

\* One start of each part but the one that is followed.
Init ==
    /\ part \in Parts
    /\ P!Init /\ C!Init /\ E!Init /\ F!Init /\ L!Init /\ D!Init
    /\ part # "catalog" => kind = "positions"
    /\ part # "lists" => list.of = "users" /\ entered = 0 /\ reader.limit = 1

\* What the step of one part leaves alone.
Rest(moving) ==
    /\ UNCHANGED part
    /\ moving # "payment" => UNCHANGED ledgerVars
    /\ moving # "catalog" => UNCHANGED catalogVars
    /\ moving # "employees" => UNCHANGED employeeVars
    /\ moving # "profile" => UNCHANGED profileVars
    /\ moving # "lists" => UNCHANGED listVars
    /\ moving # "documents" => UNCHANGED documentVars

Next ==
    \/ part = "payment" /\ P!Next /\ Rest("payment")
    \/ part = "catalog" /\ C!Next /\ Rest("catalog")
    \/ part = "employees" /\ E!Next /\ Rest("employees")
    \/ part = "profile" /\ F!Next /\ Rest("profile")
    \/ part = "lists" /\ L!Next /\ Rest("lists")
    \/ part = "documents" /\ D!Next /\ Rest("documents")

Spec == Init /\ [][Next]_vars

-----------------------------------------------------------------------------

\* Every variable of every part has its type.
TypeOK == P!TypeOK /\ C!TypeOK /\ E!TypeOK /\ F!TypeOK /\ L!TypeOK /\ D!TypeOK

\* Status, amounts and items of a payment agree: see PaymentLedger.
LedgerAgrees == P!LedgerAgrees

\* A payment keeps to the allowed transitions: see PaymentLedger.
TransitionsHold == P!TransitionsHold

\* Payments, names and profiles that are to be there once are there no more
\* often than requests overlap: see PaymentLedger, Catalog and CompanyProfile.
FewRecords == P!FewPayments /\ C!FewNames /\ F!FewProfiles

\* Employees are given active positions: see Employees.
AssignedWereActive == [][\A e \in E!Ids : E!GivenActive(e)]_employeeVars

\* Who reads a list to its end has seen it all: see Listing.
AllShown == L!AllShown

\* The rows of a proposal add up to its total: see Documents.
ProposalAddsUp == D!ProposalAddsUp

\* The client signs the terms that were read before: see Documents.
SameTerms == D!SameTerms

\* A contract keeps its clauses while nobody edits it: see Documents.
TermsStay == D!TermsStay

\* Contracts list what the budget does (they do not): see Documents.
NoHollowContracts == D!NoHollowContracts

=============================================================================
