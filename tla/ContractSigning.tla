-------------------------- MODULE ContractSigning ---------------------------
(***************************************************************************)
(* From a generated contract to a scheduled event.  The backend runs as    *)
(* several stateless instances; a worker is one request being served.  A   *)
(* step of a worker ends where the code awaits a write, the signature      *)
(* provider or a transaction, and any other worker may run in between.     *)
(* Consecutive reads that no property tells apart are one step.            *)
(*                                                                         *)
(* The database is PostgreSQL at READ COMMITTED: a transaction sees what   *)
(* others committed, an UPDATE keeps its row locked to the end of its      *)
(* transaction, and a unique index rejects the later of two equal keys.    *)
(* Nothing else is locked.  Saving an entity reads its row once more and   *)
(* writes every column in which the entity, as it was read earlier and     *)
(* then changed, differs from the row.                                     *)
(***************************************************************************)
EXTENDS ContractStatuses, Integers, FiniteSets

CONSTANTS
    Contracts,       \* contracts; each has a budget of its own
    Envelopes,       \* envelopes the provider may create (a bound)
    Workers,         \* requests served at the same time (a bound)
    Documents,       \* tax documents (CPF or CNPJ)
    LeadDocument,    \* the valid document of the lead of a contract, or None
    CompanyDocument, \* the document the company signs with, or None
    Forms,           \* the forms in which the provider reports (a bound)
    Ops,             \* the operations requested in this instance (a bound)
    Requested,       \* the statuses asked for by manual updates (a bound)
    None

\* The provider's events: a signature is asked for, given or refused.
Happenings == {"requested", "signed", "rejected"}

\* How an event is reported: to the callback, or to the webhook with the items
\* of the assignment, or with the name of the event only, about a signer or
\* about nobody.  sign: that name has "sign" or "assinad" in it, as that of a
\* signature has, and that of a request or a refusal may have.
AllForms ==
    [kind : {"items", "callback"}, what : Happenings, sign : {FALSE}]
    \cup [kind : {"subject", "bare"}, what : Happenings, sign : BOOLEAN]

AllOps == {"send", "request", "close", "update", "revoke", "poll", "pay"}

ASSUME ConstantsAssumption ==
    /\ IsFiniteSet(Contracts)
    /\ IsFiniteSet(Workers)
    /\ LeadDocument \in [Contracts -> Documents \cup {None}]
    /\ CompanyDocument \in Documents \cup {None}
    /\ Forms \subseteq AllForms
    /\ Ops \subseteq AllOps
    /\ Requested \subseteq ContractStatus

ASSUME NoneAssumption ==
    /\ None \notin Contracts
    /\ None \notin Envelopes
    /\ None \notin Workers
    /\ None \notin Documents
    /\ None \notin ContractStatus \cup SignatureStatus \cup Signers

VARIABLES
    contract,   \* tb_contracts: status and linked customer
    budget,     \* tb_budgets: status of the budget of a contract
    row,        \* tb_signatures: the rows of an envelope, by signer
    customers,  \* tb_customers: the documents that have a customer
    event,      \* tb_events: number and linked customer (number 0: no event)
    payments,   \* tb_payments: the rows of a contract that were inserted by
                \* its activation, how many ...
    direct,     \* ... and those that the createPayment mutation inserted
    lock,       \* which worker's transaction holds the contract row
    worker,     \* the requests being served
    envelope,   \* the provider: its envelopes
    sent        \* the provider: the reports it has sent, in any order and
                \* any number of times delivered

vars == <<contract, budget, row, customers, event, payments, direct, lock,
          worker, envelope, sent>>

database == <<contract, budget, row, customers, event, payments, direct>>
provider == <<envelope, sent>>

-----------------------------------------------------------------------------
(* Data *)

NoRow == [status |-> None, eventId |-> None]

\* An event of the provider: what happened to which signer.
ProviderEvents == Happenings \X Signers

\* A signature row, with the last event that a webhook wrote into it.
Rows == [status : SignatureStatus \cup {None}, eventId : ProviderEvents \cup {None}]

\* A report: its form, whom it is about and, for the items, who has signed.
Reports ==
    [form : Forms, env : Envelopes, by : Signers, signed : SUBSET Signers]

PCs == {"idle",
        "check", "create", "insert", "markSent",          \* sending
        "saveRows", "resolve",                            \* provider reports
        "read", "write", "activate", "linkCustomer",      \* transaction
        "createEvent", "createPayments", "commit",
        "saveUpdate", "saveCancel", "listRows",           \* manual update
        "revoke", "markRow",
        "savePoll",                                       \* status query
        "insertPayment"}                                  \* createPayment

TransactionPCs == {"read", "write", "activate", "linkCustomer", "createEvent",
                   "createPayments", "commit"}

WorkerStates ==
    [pc    : PCs,
     c     : Contracts \cup {None},             \* contract served
     e     : Envelopes \cup {None},             \* envelope served
     put   : SUBSET Signers,                    \* rows to be saved
     rows  : [Signers -> Rows],                 \* rows as they will be saved
     st    : ContractStatus \cup SignatureStatus \cup {None},
     cust  : Documents \cup {None},             \* customer link as read
     envs  : SUBSET Envelopes,                  \* envelopes still to revoke
     wrote : BOOLEAN,                           \* status written in this tx
     link  : Documents \cup {None},             \* customer linked in this tx
     fresh : BOOLEAN,                           \* that customer is inserted
     number: 0 .. Cardinality(Contracts),       \* event inserted, 0: none
     sync  : BOOLEAN,                           \* customer of the event updated
     pay   : BOOLEAN]                           \* payment inserted

Idle ==
    [pc |-> "idle", c |-> None, e |-> None, put |-> {},
     rows |-> [s \in Signers |-> NoRow], st |-> None, cust |-> None,
     envs |-> {}, wrote |-> FALSE, link |-> None, fresh |-> FALSE,
     number |-> 0, sync |-> FALSE, pay |-> FALSE]

HasRows(e) == \E s \in Signers : row[e][s].status # None

EnvelopesOf(c) == {e \in Envelopes : HasRows(e) /\ envelope[e].of = c}

FullySigned(e) == envelope[e].signed = Signers

Init ==
    /\ contract \in [Contracts -> [status : InitialStatuses, customer : {None}]]
    /\ budget = [c \in Contracts |-> "APPROVED"]
    /\ row = [e \in Envelopes |-> [s \in Signers |-> NoRow]]
    /\ customers = {}
    /\ event = [c \in Contracts |-> [number |-> 0, customer |-> None]]
    /\ payments = [c \in Contracts |-> 0]
    /\ direct = [c \in Contracts |-> 0]
    /\ lock = [c \in Contracts |-> None]
    /\ worker = [p \in Workers |-> Idle]
    /\ envelope = [e \in Envelopes |->
                     [of |-> None, state |-> "absent", signed |-> {}]]
    /\ sent = {}

-----------------------------------------------------------------------------
(* Worker steps *)

At(p, pc) == worker[p].pc = pc

Goto(p, w) == worker' = [worker EXCEPT ![p] = w]

Done(p) == Goto(p, Idle)

\* An idle worker takes up a request.
Begin(p, w) == At(p, "idle") /\ Goto(p, w)

\* A write to the contract row waits for the transaction that holds it.
Unlocked(c) == lock[c] = None

\* Mutant: the transaction ends and keeps its row.
ReleaseNothing(p) == UNCHANGED lock

Release(p) == lock' = [c \in Contracts |-> IF lock[c] = p THEN None ELSE lock[c]]

-----------------------------------------------------------------------------
(* The reports of the provider *)

\* What is sent once this happened to s, and those of signed have signed.
ReportsOf(e, s, what, signed) ==
    {[form |-> f, env |-> e, by |-> s,
      signed |-> IF f.kind = "items" THEN signed ELSE {}]
        : f \in {g \in Forms : g.what = what}}

-----------------------------------------------------------------------------
(* Sending a contract for signature *)

\* SendContractSignatureRequestService.execute up to the status check.  What
\* it will write is decided here: st is the status written at the end.
SendContract(p, c) ==
    /\ "send" \in Ops
    /\ contract[c].status \in SendableStatuses
    /\ Begin(p, [Idle EXCEPT !.pc = "check", !.c = c,
                             !.st = "PENDING_SIGNATURE"])
    /\ UNCHANGED <<database, lock, provider>>

\* The createSignatureRequest mutation: the same request without the contract.
RequestSignature(p, c) ==
    /\ "request" \in Ops
    /\ Begin(p, [Idle EXCEPT !.pc = "check", !.c = c])
    /\ UNCHANGED <<database, lock, provider>>

\* Where a request goes once the contract has an envelope: the mutation
\* returns, the contract service records that the contract was sent.
AfterRequest(p) ==
    IF worker[p].st = None THEN Idle
    ELSE [worker[p] EXCEPT !.pc = "markSent", !.e = None]

PendingEnvelopes(c) ==
    {e \in EnvelopesOf(c) : \E s \in Signers : row[e][s].status = "PENDING"}

\* A row of the contract is pending: its envelope is taken to be active.
ReuseEnvelope(p) ==
    /\ At(p, "check")
    /\ PendingEnvelopes(worker[p].c) # {}
    /\ Goto(p, AfterRequest(p))
    /\ UNCHANGED <<database, lock, provider>>

NoActiveEnvelope(p) ==
    /\ At(p, "check")
    /\ PendingEnvelopes(worker[p].c) = {}
    /\ Goto(p, [worker[p] EXCEPT !.pc = "create"])
    /\ UNCHANGED <<database, lock, provider>>

\* provider.createRequest: from now on the signers have their e-mails.
CreateEnvelope(p) ==
    /\ At(p, "create")
    /\ \E e \in Envelopes :
         /\ envelope[e].state = "absent"
         /\ envelope' = [envelope EXCEPT ![e] =
                           [of |-> worker[p].c, state |-> "open", signed |-> {}]]
         /\ sent' = sent \cup UNION {ReportsOf(e, s, "requested", {}) : s \in Signers}
         /\ Goto(p, [worker[p] EXCEPT !.pc = "insert", !.e = e])
    /\ UNCHANGED <<database, lock>>

\* The provider fails, or this bounded one has no envelope left.
EnvelopeRefused(p) ==
    /\ At(p, "create")
    /\ Done(p)
    /\ UNCHANGED <<database, lock, provider>>

InsertRows(p) ==
    /\ At(p, "insert")
    /\ row' = [row EXCEPT ![worker[p].e] =
                 [s \in Signers |-> [status |-> "PENDING", eventId |-> None]]]
    /\ Goto(p, AfterRequest(p))
    /\ UNCHANGED <<contract, budget, customers, event, payments, direct, lock, provider>>

\* The final update names the status whatever became of the contract.
MarkSent(p) ==
    LET c == worker[p].c IN
    /\ At(p, "markSent")
    /\ Unlocked(c)
    /\ contract' = [contract EXCEPT ![c].status = worker[p].st]
    /\ Done(p)
    /\ UNCHANGED <<budget, row, customers, event, payments, direct, lock, provider>>

-----------------------------------------------------------------------------
(* A report of the provider: rows are read, changed and saved *)

EventOf(m) == <<m.form.what, m.by>>

\* Every row of the envelope already carries this event.
AlreadyProcessed(m) == \A s \in Signers : row[m.env][s].eventId = EventOf(m)

\* The rows a webhook updates: those of the assignment items, that of the
\* signer it names, or any one row when it names none.
Targets(m) ==
    CASE m.form.kind = "items"   -> {Signers}
      [] m.form.kind = "subject" -> {{m.by}}
      [] OTHER              -> {{s} : s \in Signers}

\* Mutant: every signer of the assignment counts as having signed.
ReportsSignedAll(m, s) == TRUE

\* An item says whether it is completed.  Where no item names a signer, the
\* target counts as having signed if "sign" occurs in the name of the event,
\* whatever the event is.
ReportsSigned(m, s) == IF m.form.kind = "items" THEN s \in m.signed ELSE m.form.sign

WebhookRow(m, s) ==
    [status  |-> IF ReportsSigned(m, s) THEN "SIGNED" ELSE row[m.env][s].status,
     eventId |-> EventOf(m)]

\* ProcessSignatureWebhookService.execute up to the save of its rows.
ReceiveWebhook(p, m) ==
    /\ m.form.kind # "callback"
    /\ HasRows(m.env)
    /\ ~AlreadyProcessed(m)
    /\ \E put \in Targets(m) :
         Begin(p, [Idle EXCEPT
           !.pc = "saveRows", !.c = envelope[m.env].of, !.e = m.env, !.put = put,
           !.rows = [s \in Signers |->
                       IF s \in put THEN WebhookRow(m, s) ELSE NoRow]])
    /\ UNCHANGED <<database, lock, provider>>

\* The status that a callback gives of an event.
StatusOf == [h \in Happenings |->
    CASE h = "signed" -> "SIGNED" [] h = "rejected" -> "REJECTED" [] OTHER -> "PENDING"]

\* ProcessSignatureCallbackService.processAssinafyCallback up to the save: the
\* status of the row is whatever the report says.
ReceiveCallback(p, m) ==
    /\ m.form.kind = "callback"
    /\ HasRows(m.env)
    /\ Begin(p, [Idle EXCEPT
         !.pc = "saveRows", !.c = envelope[m.env].of, !.e = m.env,
         !.put = {m.by},
         !.rows = [s \in Signers |->
                     IF s = m.by THEN [row[m.env][s] EXCEPT !.status = StatusOf[m.form.what]]
                     ELSE NoRow]])
    /\ UNCHANGED <<database, lock, provider>>

\* save: the rows as they were read, with the changes made to them.
SaveRows(p) ==
    LET w == worker[p] IN
    /\ At(p, "saveRows")
    /\ row' = [row EXCEPT ![w.e] =
                 [s \in Signers |-> IF s \in w.put THEN w.rows[s] ELSE row[w.e][s]]]
    /\ Goto(p, [Idle EXCEPT !.pc = "resolve", !.c = w.c])
    /\ UNCHANGED <<contract, budget, customers, event, payments, direct, lock, provider>>

\* Mutant: only the client's rows are looked at.
StatusesOfClient(c) == {row[e]["CLIENT"].status : e \in EnvelopesOf(c)}

StatusesOf(c) ==
    {row[e][s].status : e \in EnvelopesOf(c), s \in Signers}

\* The rows of the contract, of all its envelopes, give it its next status.
ResolveStatus(p) ==
    /\ At(p, "resolve")
    /\ Goto(p, [worker[p] EXCEPT
                  !.pc = "read",
                  !.st = ResolveContractStatus(StatusesOf(worker[p].c))])
    /\ UNCHANGED <<database, lock, provider>>

-----------------------------------------------------------------------------
(* The transaction that moves the contract and activates it *)

\* Mutant: only a contract closed by hand is activated.
AfterStatusClosed(w) ==
    IF w.st = "CLOSED_WITHOUT_SIGNATURE" THEN "activate" ELSE "commit"

\* Where a transaction goes once the contract has the status of the worker.
AfterStatus(w) ==
    IF w.st \in ActiveStatuses THEN "activate" ELSE "commit"

\* The contract is read; a status it already has is not written.
ReadContract(p) ==
    LET w == worker[p] IN
    /\ At(p, "read")
    /\ IF contract[w.c].status = w.st
         THEN Goto(p, [w EXCEPT !.pc = AfterStatus(w)])
         ELSE Goto(p, [w EXCEPT !.pc = "write",
                                !.cust = contract[w.c].customer])
    /\ UNCHANGED <<database, lock, provider>>

\* CloseContractWithoutSignatureService.execute up to its save.
CloseContract(p, c) ==
    /\ "close" \in Ops
    /\ contract[c].status \in SendableStatuses
    /\ Begin(p, [Idle EXCEPT !.pc = "write", !.c = c,
                             !.st = "CLOSED_WITHOUT_SIGNATURE",
                             !.cust = contract[c].customer])
    /\ UNCHANGED <<database, lock, provider>>

\* The save of the contract: it locks the row, unless it finds that the row has
\* come to hold the same already (closing also records a time, which differs).
\* A customer linked while the save waits may or may not be overwritten.
WriteContract(p) ==
    LET w == worker[p] IN
    /\ At(p, "write")
    /\ \/ /\ Unlocked(w.c)
          /\ lock' = [lock EXCEPT ![w.c] = p]
          /\ \E cust \in {w.cust, contract[w.c].customer} :
               Goto(p, [w EXCEPT !.pc = AfterStatus(w), !.wrote = TRUE,
                                 !.cust = cust])
       \/ /\ w.st # "CLOSED_WITHOUT_SIGNATURE"
          /\ contract[w.c] = [status |-> w.st, customer |-> w.cust]
          /\ Goto(p, [w EXCEPT !.pc = AfterStatus(w)])
          /\ UNCHANGED lock
    /\ UNCHANGED <<database, provider>>

\* The contract as the transaction of a worker sees it.
SeenStatus(w) == IF w.wrote THEN w.st ELSE contract[w.c].status
SeenCustomer(w) ==
    IF w.wrote \/ w.link # None THEN w.cust ELSE contract[w.c].customer

\* The document the customer is created from: that of the lead, or else the
\* one found in the signature rows, where only the company left one.
ClientDocument(c) ==
    IF LeadDocument[c] # None THEN LeadDocument[c]
    ELSE IF EnvelopesOf(c) # {} THEN CompanyDocument
    ELSE None

Events == {c \in Contracts : event[c].number # 0}

\* Mutant: a contract closed by hand gets no customer.
CustomerToLinkSigned(w) ==
    IF SeenStatus(w) = "SIGNED" /\ SeenCustomer(w) = None
    THEN ClientDocument(w.c) ELSE None

\* CreateCustomerFromSignedContractService: the customer to link, if any.
CustomerToLink(w) ==
    IF SeenStatus(w) \in ActiveStatuses /\ SeenCustomer(w) = None
    THEN ClientDocument(w.c) ELSE None

\* Mutant: the number skips one.
EventToInsertSkips(w) ==
    IF SeenStatus(w) \in ActiveStatuses /\ event[w.c].number = 0
    THEN Cardinality(Events) + 2 ELSE 0

\* CreateEventFromSignedContractService: the number of the event to insert,
\* one more than there are events.
EventToInsert(w) ==
    IF SeenStatus(w) \in ActiveStatuses /\ event[w.c].number = 0
    THEN Cardinality(Events) + 1 ELSE 0

\* The rows of tb_payments that name a contract.
Payments(c) == payments[c] + direct[c]

\* Mutants: paid only once there is an event; due at every activation.
PaymentDueLate(w) == Payments(w.c) = 0 /\ event[w.c].number # 0
PaymentDueAlways(w) == TRUE

\* createContractPayments: due unless a payment references the contract,
\* whatever the status of the contract has become.
PaymentDue(w) == Payments(w.c) = 0

\* ActivateSignedContractService.execute: first the customer, if the contract
\* as it is read now is active and has none ...
FindCustomer(p) ==
    LET w    == worker[p]
        link == CustomerToLink(w)
    IN  /\ At(p, "activate")
        /\ IF link = None
             THEN Goto(p, [w EXCEPT !.pc = "createEvent"])
             ELSE Goto(p, [w EXCEPT !.pc = "linkCustomer",
                                    !.st = SeenStatus(w),
                                    !.link = link, !.cust = link,
                                    !.fresh = link \notin customers])
        /\ UNCHANGED <<database, lock, provider>>

\* ... whose link is saved with the contract.  A status that changed since the
\* contract was read may or may not be overwritten with the old one.
LinkCustomer(p) ==
    LET w == worker[p] IN
    /\ At(p, "linkCustomer")
    /\ lock[w.c] \in {None, p}
    /\ lock' = [lock EXCEPT ![w.c] = p]
    /\ \E wrote \in {w.wrote, contract[w.c].status # w.st} :
         Goto(p, [w EXCEPT !.pc = "createEvent", !.wrote = w.wrote \/ wrote])
    /\ UNCHANGED <<database, provider>>

\* ... then the event: one that exists takes the customer of the contract ...
CreateEvent(p) ==
    LET w == worker[p] IN
    /\ At(p, "createEvent")
    /\ Goto(p, [w EXCEPT !.pc = "createPayments",
                         !.number = EventToInsert(w),
                         !.sync = event[w.c].number # 0,
                         !.cust = SeenCustomer(w)])
    /\ UNCHANGED <<database, lock, provider>>

\* ... then the payments.
CreatePayments(p) ==
    LET w == worker[p] IN
    /\ At(p, "createPayments")
    /\ Goto(p, [w EXCEPT !.pc = "commit", !.pay = PaymentDue(w)])
    /\ UNCHANGED <<database, lock, provider>>

\* Mutant: the numbers of events are not unique.
ConflictNoNumber(w) ==
    \/ w.fresh /\ w.link \in customers
    \/ w.number # 0 /\ event[w.c].number # 0

\* A unique index refuses what the transaction inserted: the document of a
\* customer, the contract or the number of an event.
Conflict(w) ==
    \/ w.fresh /\ w.link \in customers
    \/ w.number # 0 /\ ( \/ event[w.c].number # 0
                         \/ \E c \in Contracts : event[c].number = w.number )

\* What the transaction leaves in the contract, if it wrote there at all ...
CommittedContract(w) ==
    [status |-> SeenStatus(w), customer |-> SeenCustomer(w)]

\* ... and in the event: a new one, or the old one with its customer brought
\* in line with the contract.
CommittedEvent(w) ==
    IF w.number # 0 THEN [number |-> w.number, customer |-> w.cust]
    ELSE IF w.sync  THEN [event[w.c] EXCEPT !.customer = w.cust]
    ELSE event[w.c]

Commit(p) ==
    LET w == worker[p] IN
    /\ At(p, "commit")
    /\ ~Conflict(w)
    /\ contract' = [contract EXCEPT ![w.c] = CommittedContract(w)]
    /\ customers' = customers \cup ({w.link} \ {None})
    /\ event' = [event EXCEPT ![w.c] = CommittedEvent(w)]
    /\ payments' = [payments EXCEPT ![w.c] = IF w.pay THEN @ + 1 ELSE @]
    /\ Release(p)
    /\ Done(p)
    /\ UNCHANGED <<budget, row, direct, provider>>

\* The request ends with an error and the transaction is rolled back.
Abort(p) ==
    /\ At(p, "commit")
    /\ Conflict(worker[p])
    /\ Release(p)
    /\ Done(p)
    /\ UNCHANGED <<database, provider>>

-----------------------------------------------------------------------------
(* Manual updates *)

\* UpdateContractsValidator up to the save: a status may be asked for, or the
\* record is saved with the status it was read with.
ReadForUpdate(p, c, status) ==
    /\ "update" \in Ops
    /\ \/ status \in Requested \cap AllowedTransitions[contract[c].status]
       \/ status = contract[c].status
    /\ Begin(p, [Idle EXCEPT
         !.pc = IF status = "CANCELED" /\ status # contract[c].status
                THEN "saveCancel" ELSE "saveUpdate",
         !.c = c, !.st = status, !.cust = contract[c].customer])
    /\ UNCHANGED <<database, lock, provider>>

SaveUpdate(p) ==
    LET w == worker[p] IN
    /\ At(p, "saveUpdate")
    /\ Unlocked(w.c)
    /\ \E cust \in {w.cust, contract[w.c].customer} :
         contract' = [contract EXCEPT ![w.c] = [status |-> w.st, customer |-> cust]]
    /\ IF w.st = "CANCELED" THEN Goto(p, [Idle EXCEPT !.pc = "listRows", !.c = w.c])
                            ELSE Done(p)
    /\ UNCHANGED <<budget, row, customers, event, payments, direct, lock, provider>>

\* The cancellation is one transaction: the contract, read again, and its budget.
SaveCancel(p) ==
    LET c == worker[p].c IN
    /\ At(p, "saveCancel")
    /\ Unlocked(c)
    /\ contract' = [contract EXCEPT ![c].status = "CANCELED"]
    /\ budget' = [budget EXCEPT ![c] = "CANCELED"]
    /\ Goto(p, [Idle EXCEPT !.pc = "listRows", !.c = c])
    /\ UNCHANGED <<row, customers, event, payments, direct, lock, provider>>

ListRows(p) ==
    /\ At(p, "listRows")
    /\ Goto(p, [worker[p] EXCEPT !.pc = "revoke",
                                 !.envs = EnvelopesOf(worker[p].c)])
    /\ UNCHANGED <<database, lock, provider>>

\* The cancelSignatureRequest mutation.
CancelRequest(p, e) ==
    /\ "revoke" \in Ops
    /\ HasRows(e)
    /\ Begin(p, [Idle EXCEPT !.pc = "revoke", !.envs = {e}])
    /\ UNCHANGED <<database, lock, provider>>

\* CancelSignatureRequestService.execute: first the provider ...
Revoke(p) ==
    /\ At(p, "revoke")
    /\ \E e \in worker[p].envs :
         /\ envelope[e].state # "deleted"
         /\ envelope' = [envelope EXCEPT ![e].state = "deleted"]
         /\ Goto(p, [worker[p] EXCEPT !.pc = "markRow", !.e = e, !.envs = @ \ {e}])
    /\ UNCHANGED <<database, lock, sent>>

\* ... which may refuse: the error is ignored ...
RevokeRefused(p) ==
    /\ At(p, "revoke")
    /\ \E e \in worker[p].envs :
         Goto(p, [worker[p] EXCEPT !.envs = @ \ {e}])
    /\ UNCHANGED <<database, lock, provider>>

\* ... then one row of the envelope, whichever is found first.
MarkRow(p) ==
    LET w == worker[p] IN
    /\ At(p, "markRow")
    /\ \E s \in Signers :
         row' = [row EXCEPT ![w.e] = [@ EXCEPT ![s] =
                   [status |-> "CANCELLED", eventId |-> row[w.e][s].eventId]]]
    /\ Goto(p, [w EXCEPT !.pc = "revoke", !.e = None])
    /\ UNCHANGED <<contract, budget, customers, event, payments, direct, lock, provider>>

EndRevoke(p) ==
    /\ At(p, "revoke")
    /\ worker[p].envs = {}
    /\ Done(p)
    /\ UNCHANGED <<database, lock, provider>>

-----------------------------------------------------------------------------
(* Asking the provider for the status of an envelope *)

\* Mutant: one signature completes the document.
ProviderStatusAny(e) == IF envelope[e].signed # {} THEN "SIGNED" ELSE "PENDING"

ProviderStatus(e) ==
    CASE FullySigned(e)                     -> "SIGNED"
      [] envelope[e].state = "rejected"     -> "REJECTED"
      [] OTHER                              -> "PENDING"

\* GetSignatureStatusService.execute: the provider answers ...
PollStatus(p, e) ==
    /\ "poll" \in Ops
    /\ HasRows(e)
    /\ envelope[e].state # "deleted"
    /\ Begin(p, [Idle EXCEPT !.pc = "savePoll", !.e = e, !.st = ProviderStatus(e)])
    /\ UNCHANGED <<database, lock, provider>>

\* ... and every row of the envelope is given the status of the document.
SavePoll(p) ==
    LET w == worker[p] IN
    /\ At(p, "savePoll")
    /\ row' = [row EXCEPT ![w.e] =
                 [s \in Signers |-> [status |-> w.st, eventId |-> row[w.e][s].eventId]]]
    /\ Done(p)
    /\ UNCHANGED <<contract, budget, customers, event, payments, direct, lock, provider>>

-----------------------------------------------------------------------------
(* Payments entered by an operator *)

\* CreatePaymentValidator up to its transaction.  Whoever names a contract with
\* a payment gets that one.  Whoever names only the event gets the payment that
\* was created with it or is linked to it: only the contract is named here.
LookUpPayment(p, c) ==
    /\ "pay" \in Ops
    /\ Payments(c) = 0
    /\ Begin(p, [Idle EXCEPT !.pc = "insertPayment", !.c = c])
    /\ UNCHANGED <<database, lock, provider>>

\* The transaction does not look again.
InsertPayment(p) ==
    /\ At(p, "insertPayment")
    /\ direct' = [direct EXCEPT ![worker[p].c] = @ + 1]
    /\ Done(p)
    /\ UNCHANGED <<contract, budget, row, customers, event, payments, lock, provider>>

-----------------------------------------------------------------------------
(* Failures, and the provider *)

\* The request fails or its instance is stopped: nothing of it remains but
\* what it has saved.
Fail(p) ==
    /\ ~At(p, "idle")
    /\ Release(p)
    /\ Done(p)
    /\ UNCHANGED <<database, provider>>

\* A signer signs.
Sign(e, s) ==
    /\ envelope[e].state = "open"
    /\ s \notin envelope[e].signed
    /\ envelope' = [envelope EXCEPT ![e].signed = @ \cup {s}]
    /\ sent' = sent \cup ReportsOf(e, s, "signed", envelope'[e].signed)
    /\ UNCHANGED <<database, lock, worker>>

Reject(e, s) ==
    /\ envelope[e].state = "open"
    /\ s \notin envelope[e].signed
    /\ envelope' = [envelope EXCEPT ![e].state = "rejected"]
    /\ sent' = sent \cup ReportsOf(e, s, "rejected", envelope[e].signed)
    /\ UNCHANGED <<database, lock, worker>>

-----------------------------------------------------------------------------

\* What a worker does without a new request or report, and cannot refuse.
Proceed(p) ==
    \/ ReuseEnvelope(p) \/ NoActiveEnvelope(p)
    \/ CreateEnvelope(p) \/ EnvelopeRefused(p) \/ InsertRows(p) \/ MarkSent(p)
    \/ SaveRows(p) \/ ResolveStatus(p)
    \/ ReadContract(p) \/ WriteContract(p)
    \/ FindCustomer(p) \/ LinkCustomer(p) \/ CreateEvent(p) \/ CreatePayments(p)
    \/ Commit(p) \/ Abort(p)
    \/ SaveUpdate(p) \/ SaveCancel(p) \/ ListRows(p)
    \/ Revoke(p) \/ RevokeRefused(p) \/ MarkRow(p) \/ EndRevoke(p)
    \/ SavePoll(p)
    \/ InsertPayment(p)

Request(p) ==
    \/ \E c \in Contracts :
         \/ SendContract(p, c) \/ RequestSignature(p, c) \/ CloseContract(p, c)
         \/ LookUpPayment(p, c)
         \/ \E status \in ContractStatus : ReadForUpdate(p, c, status)
    \/ \E e \in Envelopes : CancelRequest(p, e) \/ PollStatus(p, e)

Deliver(p) ==
    \E m \in sent : ReceiveWebhook(p, m) \/ ReceiveCallback(p, m)

Provider ==
    \E e \in Envelopes, s \in Signers : Sign(e, s) \/ Reject(e, s)

Next ==
    \/ \E p \in Workers : Proceed(p) \/ Request(p) \/ Deliver(p) \/ Fail(p)
    \/ Provider

Spec == Init /\ [][Next]_vars

\* A request that was taken up is served.  A step that waits for the contract
\* row is enabled again whenever the holder ends its transaction, and the
\* database grants the row to the waiting sessions in turn: strong fairness.
FairSpec == Spec /\ \A p \in Workers : SF_vars(Proceed(p))

-----------------------------------------------------------------------------
(* Properties *)

\* What the database and the provider hold.
StoreOK ==
    /\ contract \in [Contracts -> [status : ContractStatus,
                                   customer : Documents \cup {None}]]
    /\ budget \in [Contracts -> {"APPROVED", "CANCELED"}]
    /\ row \in [Envelopes -> [Signers -> Rows]]
    /\ customers \in SUBSET Documents
    /\ event \in [Contracts -> [number : 0 .. Cardinality(Contracts),
                                customer : Documents \cup {None}]]
    /\ payments \in [Contracts -> Nat]
    /\ direct \in [Contracts -> Nat]
    /\ lock \in [Contracts -> Workers \cup {None}]
    /\ envelope \in [Envelopes -> [of : Contracts \cup {None},
                                   state : {"absent", "open", "rejected", "deleted"},
                                   signed : SUBSET Signers]]
    /\ sent \in SUBSET Reports

\* Every variable keeps its shape: rows, statuses, links and the state of each
\* request are what the entities and handlers of the code can hold.  No event
\* number exceeds the number of contracts (generateEventNumber).
TypeOK ==
    /\ StoreOK
    /\ worker \in [Workers -> WorkerStates]

\* s is taken to have signed e, although it has not, by the name of an event: the
\* provider has sent a report of something else than a signature of s, with
\* "sign" in its name and no item for any signer, that names s or nobody.
Misread(e, s) ==
    \E m \in sent :
        /\ m.env = e
        /\ m.form.sign
        /\ m.form.kind = "subject" => m.by = s
        /\ m.by # s \/ m.form.what # "signed"

Vouched(e, s) == s \in envelope[e].signed \/ Misread(e, s)

\* A signature row says SIGNED only if its signer has signed the envelope at
\* the provider or was misread, however the reports were reordered, duplicated
\* or saved over one another (process-signature-webhook and -callback).
SignedRowsAreSigned ==
    \A e \in Envelopes, s \in Signers : row[e][s].status = "SIGNED" => Vouched(e, s)

\* An event is created only by a transaction that closes the contract by hand
\* or once both parties have signed one and the same envelope of it (or were
\* misread): no mix of stale rows, late reports and manual updates activates an
\* unsigned contract.
ActivationJustified ==
    [][\A c \in Contracts :
         event[c].number = 0 /\ event'[c].number # 0
           => \/ contract'[c].status = "CLOSED_WITHOUT_SIGNATURE"
              \/ \E e \in Envelopes :
                    envelope[e].of = c /\ \A s \in Signers : Vouched(e, s)]_vars

\* An event never exists without its payments: customer, event and payments of
\* a contract are created by one transaction (activate-signed-contract).
EventHasPayment ==
    \A c \in Contracts : event[c].number # 0 => Payments(c) > 0

\* An event is created with the customer of its contract whenever the lead
\* has a valid document: the customer is linked before the event is created.
CreatedWithCustomer ==
    [][\A c \in Contracts :
         event[c].number = 0 /\ event'[c].number # 0 /\ LeadDocument[c] # None
           => /\ event'[c].customer = LeadDocument[c]
              /\ LeadDocument[c] \in customers']_vars

\* Activations bill a contract once, as long as nobody sets an active status by
\* hand: no unique index says so, the row lock that the change of a status takes
\* keeps activations of one contract apart.  The createPayment mutation takes no
\* lock and looks in another transaction than it inserts: beside an activation
\* or another such request it bills the contract again, but no more often than
\* requests are served at once (create-payment.validator,
\* activate-signed-contract).
FewPayments ==
    \A c \in Contracts :
        /\ payments[c] <= 1
        /\ Payments(c) <= Cardinality(Workers)

\* The register of event numbers, as the table of events holds it.
Issued == [c \in Contracts |-> event[c].number]

\* Events are numbered 1, 2, 3, ... as they are committed, no number twice and
\* none left out, although the number is a count that nothing locks: the
\* unique index rolls back what counted too early (generateEventNumber).
Register == INSTANCE NumberRegister WITH Holders <- Contracts, issued <- Issued

EventsNumberedInOrder == Register!Spec

\* A contract becomes signed or closed together with its event, unless an
\* operator sets the status by hand, which activates nothing.
ActivatedWithStatus ==
    [][\A c \in Contracts :
         contract[c].status \notin ActiveStatuses
         /\ contract'[c].status \in ActiveStatuses
           => \/ event'[c].number # 0
              \/ \E p \in Workers : At(p, "saveUpdate") /\ worker'[p].pc = "idle"]_vars

\* Every request that is taken up ends, even when several transactions wait for
\* the same contract: whoever holds a row releases it (FairSpec).
RequestsEnd == \A p \in Workers : ~At(p, "idle") ~> At(p, "idle")

\* A report that is dropped as "already fully processed" has had its effect:
\* once every row of a contract says SIGNED and nobody works on it any more,
\* the contract is signed (process-signature-webhook.service.ts:175).
DroppedReportWasProcessed ==
    \A m \in sent :
        LET c == envelope[m.env].of IN
        /\ m.form.kind # "callback"
        /\ HasRows(m.env) /\ AlreadyProcessed(m)
        /\ StatusesOf(c) = {"SIGNED"}
        /\ \A p \in Workers : At(p, "idle")
        => contract[c].status = "SIGNED"

=============================================================================
