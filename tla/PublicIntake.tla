---------------------------- MODULE PublicIntake ----------------------------
(***************************************************************************)
(* From a code to a draft budget.  An operator issues a code and sends it  *)
(* to a prospect; the prospect enters the code, is given a form for some   *)
(* time, and submits it: one transaction finds or creates the lead and     *)
(* creates a budget with the next number.  Operators also register leads   *)
(* and create budgets themselves.                                          *)
(*                                                                         *)
(* A worker is one request being served by one of several stateless        *)
(* instances.  The database is PostgreSQL at READ COMMITTED: what a        *)
(* transaction has written is seen by others when it commits.  A code is   *)
(* identified with the digits it shows, and a form with the code it was    *)
(* given for: only the last form token of a code is accepted.              *)
(***************************************************************************)
EXTENDS Integers, FiniteSets

CONSTANTS
    Operators,  \* users who issue codes
    Codes,      \* codes that may be issued (a bound)
    Clients,    \* who a lead is about: a name and a document, normalised
    Leads,      \* rows of tb_leads (a bound)
    Budgets,    \* rows of tb_budgets (a bound)
    Workers,    \* requests served at the same time (a bound)
    None

ASSUME ConstantsAssumption ==
    /\ IsFiniteSet(Codes)
    /\ IsFiniteSet(Budgets)
    /\ IsFiniteSet(Workers)

\* PublicIntakeCodeStatus.
CodeStatus == {"PENDING", "VERIFIED", "SUBMITTED", "EXPIRED", "INVALIDATED"}

ASSUME NoneAssumption ==
    None \notin Operators \cup Codes \cup Clients \cup Leads \cup Budgets \cup Workers
                \cup CodeStatus

VARIABLES
    code,       \* tb_public_intake_codes
    lead,       \* tb_leads: the client a row is about, None: no such row
    budget,     \* tb_budgets: number (0: no such row), lead and operator
    leadLock,   \* which worker's transaction has updated a lead
    numberLock, \* who holds the advisory lock of the year
    worker      \* the requests being served

vars == <<code, lead, budget, leadLock, numberLock, worker>>

locks == <<leadLock, numberLock>>

-----------------------------------------------------------------------------
(* Data *)

NoCode ==
    [user |-> None, live |-> FALSE, verified |-> FALSE, formLive |-> FALSE,
     invalidated |-> FALSE, lead |-> None, budget |-> None]

CodeRows ==
    [user        : Operators \cup {None},  \* None: not issued yet
     live        : BOOLEAN,                \* expiresAt is to come
     verified    : BOOLEAN,                \* verifiedAt and formToken are set
     formLive    : BOOLEAN,                \* formTokenExpiresAt is to come
     invalidated : BOOLEAN,
     lead        : Leads \cup {None},      \* the results, set when consumed
     budget      : Budgets \cup {None}]

NoBudget == [number |-> 0, lead |-> None, user |-> None]

BudgetRows ==
    {NoBudget} \cup [number : Nat \ {0}, lead : Leads, user : Operators]

PCs == {"idle", "insertCode", "markVerified",
        "findLead", "saveLead", "checkLead",     \* submission
        "takeNumber", "commit", "consume",
        "insertLead"}                            \* lead registered by an operator

WorkerStates ==
    [pc     : PCs,
     user   : Operators \cup {None},
     c      : Codes \cup {None},
     client : Clients \cup {None},
     lead   : Leads \cup {None},     \* existing lead, None: one to be inserted
     budget : Budgets \cup {None},   \* budget created
     number : Nat]

Idle ==
    [pc |-> "idle", user |-> None, c |-> None, client |-> None, lead |-> None,
     budget |-> None, number |-> 0]

Init ==
    /\ code = [c \in Codes |-> NoCode]
    /\ lead = [l \in Leads |-> None]
    /\ budget = [b \in Budgets |-> NoBudget]
    /\ leadLock = [l \in Leads |-> None]
    /\ numberLock = None
    /\ worker = [p \in Workers |-> Idle]

At(p, pc) == worker[p].pc = pc

Goto(p, w) == worker' = [worker EXCEPT ![p] = w]

Begin(p, w) == At(p, "idle") /\ Goto(p, w)

Done(p) == Goto(p, Idle)

Busy == {p \in Workers : ~At(p, "idle")}

\* The bounds: a request that will insert a row starts while there are rows.
RoomForCode ==
    Cardinality(Busy) < Cardinality({c \in Codes : code[c].user = None})
RoomForLead ==
    Cardinality(Busy) < Cardinality({l \in Leads : lead[l] = None})
RoomForBudget ==
    Cardinality(Busy) < Cardinality({b \in Budgets : budget[b].number = 0})

-----------------------------------------------------------------------------
(* Codes *)

Consumed(c) == code[c].budget # None

\* derivePublicIntakeCodeStatus: the first that applies.
Status(c) ==
    IF code[c].user = None THEN None
    ELSE IF code[c].invalidated THEN "INVALIDATED"
    ELSE IF Consumed(c) THEN "SUBMITTED"
    ELSE IF code[c].verified /\ code[c].formLive THEN "VERIFIED"
    ELSE IF ~code[c].verified /\ code[c].live THEN "PENDING"
    ELSE "EXPIRED"

\* Mutants: codes that were used are invalidated too; codes that were entered
\* are not.
OpenAny(c) == code[c].user # None /\ ~code[c].invalidated
OpenUnverified(c) ==
    code[c].user # None /\ ~code[c].invalidated /\ ~Consumed(c) /\ ~code[c].verified

\* Neither invalidated nor consumed, whether it has expired or not.
Open(c) == code[c].user # None /\ ~code[c].invalidated /\ ~Consumed(c)

\* issueCode: first the open codes of the operator are invalidated ...
IssueCode(p, u) ==
    /\ RoomForCode
    /\ Begin(p, [Idle EXCEPT !.pc = "insertCode", !.user = u])
    /\ code' = [c \in Codes |->
                  IF code[c].user = u /\ Open(c)
                  THEN [code[c] EXCEPT !.invalidated = TRUE] ELSE code[c]]
    /\ UNCHANGED <<lead, budget, locks>>

\* ... then the new one is inserted.
InsertCode(p) ==
    /\ At(p, "insertCode")
    /\ \E c \in Codes :
         /\ code[c].user = None
         /\ code' = [code EXCEPT ![c] =
                       [NoCode EXCEPT !.user = worker[p].user, !.live = TRUE]]
    /\ Done(p)
    /\ UNCHANGED <<lead, budget, locks>>

\* findActiveByCode: a code can be entered again.
VerifyCode(p, c) ==
    /\ Open(c)
    /\ code[c].live
    /\ Begin(p, [Idle EXCEPT !.pc = "markVerified", !.c = c])
    /\ UNCHANGED <<code, lead, budget, locks>>

\* markVerified, whatever has become of the code.
MarkVerified(p) ==
    /\ At(p, "markVerified")
    /\ code' = [code EXCEPT ![worker[p].c].verified = TRUE,
                            ![worker[p].c].formLive = TRUE]
    /\ Done(p)
    /\ UNCHANGED <<lead, budget, locks>>

\* Time passes.
ExpireCode(c) ==
    /\ code[c].live
    /\ code' = [code EXCEPT ![c].live = FALSE]
    /\ UNCHANGED <<lead, budget, locks, worker>>

ExpireForm(c) ==
    /\ code[c].formLive
    /\ code' = [code EXCEPT ![c].formLive = FALSE]
    /\ UNCHANGED <<lead, budget, locks, worker>>

-----------------------------------------------------------------------------
(* Leads *)

\* findDuplicateLead.
LeadsOf(k) == {l \in Leads : lead[l] = k}

\* CreateLeadsValidator, asked by an operator: nobody has registered the client.
CreateLead(p, k) ==
    /\ RoomForLead
    /\ LeadsOf(k) = {}
    /\ Begin(p, [Idle EXCEPT !.pc = "insertLead", !.client = k])
    /\ UNCHANGED <<code, lead, budget, locks>>

InsertLead(p) ==
    /\ At(p, "insertLead")
    /\ \E l \in LeadsOf(None) : lead' = [lead EXCEPT ![l] = worker[p].client]
    /\ Done(p)
    /\ UNCHANGED <<code, budget, locks>>

-----------------------------------------------------------------------------
(* Submission of the form, and budgets *)

\* SubmitPublicIntakeService.execute up to the transaction (findByFormToken).
SubmitForm(p, c, k) ==
    /\ RoomForBudget
    /\ RoomForLead \/ LeadsOf(k) # {}
    /\ Open(c)
    /\ code[c].verified /\ code[c].formLive
    /\ Begin(p, [Idle EXCEPT !.pc = "findLead", !.c = c, !.client = k,
                             !.user = code[c].user])
    /\ UNCHANGED <<code, lead, budget, locks>>

\* The lead that exists is saved, which writes it only if the form fills in
\* something that it is missing.
FindLead(p) ==
    LET w == worker[p] IN
    /\ At(p, "findLead")
    /\ \/ \E l \in LeadsOf(w.client), next \in {"saveLead", "takeNumber"} :
            Goto(p, [w EXCEPT !.pc = next, !.lead = l])
       \/ /\ LeadsOf(w.client) = {}
          /\ Goto(p, [w EXCEPT !.pc = "checkLead"])
    /\ UNCHANGED <<code, lead, budget, locks>>

\* The row is locked from here on (what is filled in is left out).
SaveLead(p) ==
    LET w == worker[p] IN
    /\ At(p, "saveLead")
    /\ leadLock[w.lead] = None
    /\ leadLock' = [leadLock EXCEPT ![w.lead] = p]
    /\ Goto(p, [w EXCEPT !.pc = "takeNumber"])
    /\ UNCHANGED <<code, lead, budget, numberLock>>

\* CreateLeadsValidator looks once more; a duplicate fails the submission.
CheckLead(p) ==
    /\ At(p, "checkLead")
    /\ IF LeadsOf(worker[p].client) = {}
         THEN Goto(p, [worker[p] EXCEPT !.pc = "takeNumber"])
         ELSE Done(p)
    /\ UNCHANGED <<code, lead, budget, locks>>

\* CreateBudgetsValidator, asked by an operator for a lead that exists.
CreateBudget(p, l, u) ==
    /\ RoomForBudget
    /\ lead[l] # None
    /\ Begin(p, [Idle EXCEPT !.pc = "takeNumber", !.lead = l, !.user = u])
    /\ UNCHANGED <<code, lead, budget, locks>>

Numbers == {budget[b].number : b \in {d \in Budgets : budget[d].number # 0}}

Largest == CHOOSE n \in Numbers : \A m \in Numbers : m <= n

\* Mutant: without any budget the largest number is taken to be 1.
LastNumberFromOne == IF Numbers = {} THEN 1 ELSE Largest

LastNumber == IF Numbers = {} THEN 0 ELSE Largest

\* Mutant: the lock is not waited for.
NumberLockFreeAlways == TRUE

\* pg_advisory_xact_lock waits for the transaction that holds it.
NumberLockFree == numberLock = None

\* generateBudgetNumber: one more than the largest number, under the lock.
TakeNumber(p) ==
    /\ At(p, "takeNumber")
    /\ NumberLockFree
    /\ numberLock' = p
    /\ Goto(p, [worker[p] EXCEPT !.pc = "commit", !.number = LastNumber + 1])
    /\ UNCHANGED <<code, lead, budget, leadLock>>

\* Mutant: the locks of a transaction outlive it.
ReleaseLeadOnly(p) ==
    /\ leadLock' = [l \in Leads |-> IF leadLock[l] = p THEN None ELSE leadLock[l]]
    /\ UNCHANGED numberLock

Release(p) ==
    /\ leadLock' = [l \in Leads |-> IF leadLock[l] = p THEN None ELSE leadLock[l]]
    /\ numberLock' = IF numberLock = p THEN None ELSE numberLock

\* Mutant: the budget names the lead that was found, even if none was.
BudgetOfFound(w, l) == [number |-> w.number, lead |-> w.lead, user |-> w.user]

\* The budget as it is inserted.
NewBudget(w, l) == [number |-> w.number, lead |-> l, user |-> w.user]

\* Mutant: a new lead is taken although one was found, and never saved.
LeadForNew(w) == LeadsOf(None)

\* The lead that the budget is for: the one that was found, or a new one.
LeadFor(w) == IF w.lead # None THEN {w.lead} ELSE LeadsOf(None)

\* The transaction commits: lead and budget exist.
Commit(p) ==
    LET w == worker[p] IN
    /\ At(p, "commit")
    /\ \E l \in LeadFor(w), b \in Budgets :
         /\ budget[b].number = 0
         /\ budget' = [budget EXCEPT ![b] = NewBudget(w, l)]
         /\ lead' = IF w.lead = None THEN [lead EXCEPT ![l] = w.client] ELSE lead
         /\ IF w.c = None THEN Done(p)
            ELSE Goto(p, [w EXCEPT !.pc = "consume", !.lead = l, !.budget = b])
    /\ Release(p)
    /\ UNCHANGED code

\* consume: after the transaction, whatever has become of the code.
Consume(p) ==
    LET w == worker[p] IN
    /\ At(p, "consume")
    /\ code' = [code EXCEPT ![w.c].lead = w.lead, ![w.c].budget = w.budget]
    /\ Done(p)
    /\ UNCHANGED <<lead, budget, locks>>

-----------------------------------------------------------------------------

\* The request fails or its instance is stopped; an open transaction is rolled
\* back and its locks are released.
Fail(p) ==
    /\ ~At(p, "idle")
    /\ Release(p)
    /\ Done(p)
    /\ UNCHANGED <<code, lead, budget>>

\* What a worker does without a new request.
Proceed(p) ==
    \/ InsertCode(p) \/ MarkVerified(p) \/ InsertLead(p)
    \/ FindLead(p) \/ SaveLead(p) \/ CheckLead(p)
    \/ TakeNumber(p) \/ Commit(p) \/ Consume(p)

Request(p) ==
    \/ \E u \in Operators : IssueCode(p, u)
    \/ \E k \in Clients : CreateLead(p, k)
    \/ \E c \in Codes : VerifyCode(p, c)
    \/ \E c \in Codes, k \in Clients : SubmitForm(p, c, k)
    \/ \E l \in Leads, u \in Operators : CreateBudget(p, l, u)

Time == \E c \in Codes : ExpireCode(c) \/ ExpireForm(c)

Next ==
    \/ \E p \in Workers : Proceed(p) \/ Request(p) \/ Fail(p)
    \/ Time

Spec == Init /\ [][Next]_vars

\* A request that was taken up is served.  One that waits for a lock is served
\* in turn by the database: strong fairness.
FairSpec == Spec /\ \A p \in Workers : SF_vars(Proceed(p))

-----------------------------------------------------------------------------
(* Properties *)

StoreOK ==
    /\ code \in [Codes -> CodeRows]
    /\ lead \in [Leads -> Clients \cup {None}]
    /\ budget \in [Budgets -> BudgetRows]
    /\ leadLock \in [Leads -> Workers \cup {None}]
    /\ numberLock \in Workers \cup {None}

\* Every variable keeps its shape; a budget that exists has a number, a lead and
\* an owner, whichever request created it (budgets.entity, submit, create).
TypeOK == StoreOK /\ worker \in [Workers -> WorkerStates]

\* No transaction ever meets a budget number that is taken, so the unique index
\* never fails a submission: "numbering stays sequential and collision-free"
\* (generate-budget-number.util).
NumberIsFree ==
    \A p \in Workers : At(p, "commit") => worker[p].number \notin Numbers

\* The register of budget numbers, as the table of budgets holds it.
Issued == [b \in Budgets |-> budget[b].number]

Register == INSTANCE NumberRegister WITH Holders <- Budgets, issued <- Issued

\* Budgets are numbered 1, 2, 3, ... as they are committed, no number twice and
\* none left out, whether a form or an operator creates them, and although
\* transactions fail with a number in hand (generateBudgetNumber).
BudgetsNumberedInOrder == Register!Spec

\* A code that was submitted names a lead and a budget that exist, and the
\* budget is for that lead and belongs to the operator who issued the code, even
\* when two submissions of one form write their results (consume).
ResultsBelongTogether ==
    \A c \in Codes :
        Consumed(c) =>
            LET b == budget[code[c].budget] IN
            /\ b.number # 0
            /\ b.lead = code[c].lead /\ lead[b.lead] # None
            /\ b.user = code[c].user

Final == {"SUBMITTED", "INVALIDATED"}

\* A code that was submitted or invalidated stays so, whatever late steps of
\* other requests write to it (derivePublicIntakeCodeStatus, markVerified,
\* consume, invalidateOpenCodesForUser).
FinalStatusStays ==
    [][\A c \in Codes :
         Status(c) \in Final => Status(c)' = Status(c)]_vars

OpenCodesOf(u) == {c \in Codes : code[c].user = u /\ Status(c) \notin Final}

Inserting(u) == {p \in Workers : At(p, "insertCode") /\ worker[p].user = u}

\* The open codes of an operator, and those about to be inserted, never exceed
\* the requests served at once: issuing invalidates before it inserts, which
\* "keeps the number of codes ... very small" (public-intake-code.entity).
FewOpenCodes ==
    \A u \in Operators :
        Cardinality(OpenCodesOf(u)) + Cardinality(Inserting(u)) <= Cardinality(Workers)

\* Every request ends, although submissions hold a lead while they wait for the
\* number lock (FairSpec).
RequestsEnd == \A p \in Workers : ~At(p, "idle") ~> At(p, "idle")

=============================================================================
