----------------------- MODULE ContractSigningProofs ------------------------
(***************************************************************************)
(* What ContractSigning guarantees for every number of contracts,          *)
(* envelopes and requests: the shape of the state, what closing and        *)
(* cancelling leave, and what an activation leaves behind.  Each event     *)
(* has a payment, a number without a gap, a customer and a contract of a   *)
(* status that asks for it, activations bill a contract once, and all      *)
(* requests together no more often than they are served at once.  Last,    *)
(* what the signature rows say and what an activation is justified by.     *)
(***************************************************************************)
EXTENDS ContractSigning, FiniteSetTheorems, TLAPS

-----------------------------------------------------------------------------
(* The shape of the state *)

\* The steps at which a request is about a contract, or about an envelope.
ContractPCs == PCs \ {"idle", "revoke", "markRow", "savePoll"}
EnvelopePCs == {"insert", "saveRows", "markRow", "savePoll"}

\* The status a request carries is of the kind its next write needs.
StatusFits(w) ==
    /\ w.pc \in {"check", "create", "insert"} => w.st \in {None, "PENDING_SIGNATURE"}
    /\ w.pc \in {"markSent", "saveUpdate", "read", "write", "activate",
                 "linkCustomer", "createEvent", "createPayments", "commit"}
         => w.st \in ContractStatus
    /\ w.pc = "savePoll" => w.st \in SignatureStatus

WorkerFits(w) ==
    /\ w \in WorkerStates
    /\ w.pc \in ContractPCs => w.c \in Contracts
    /\ w.pc \in EnvelopePCs => w.e \in Envelopes
    /\ StatusFits(w)

\* Only an envelope of a contract has rows, or is worked on.
EnvelopesOwned ==
    /\ \A e \in Envelopes : HasRows(e) => envelope[e].of \in Contracts
    /\ \A p \in Workers :
         /\ worker[p].pc \in EnvelopePCs => envelope[worker[p].e].of \in Contracts
         /\ \A e \in worker[p].envs : envelope[e].of \in Contracts

TypeInv ==
    /\ TypeOK
    /\ \A p \in Workers : WorkerFits(worker[p])
    /\ EnvelopesOwned

\* The empty request carries nothing.
LEMMA IdleFits == WorkerFits(Idle) /\ Idle.pc = "idle" /\ Idle.envs = {}
  <1>1. Cardinality(Contracts) \in Nat
    BY FS_CardinalityType, ConstantsAssumption
  <1>2. NoRow \in Rows
    BY DEF NoRow, Rows
  <1> QED
    BY <1>1, <1>2
    DEF Idle, WorkerFits, StatusFits, WorkerStates, PCs, ContractPCs, EnvelopePCs

\* The status of a contract is derived from whatever its rows say.
LEMMA ResolvedStatus ==
    ASSUME NEW statuses
    PROVE  ResolveContractStatus(statuses) \in ContractStatus
  BY DEF ResolveContractStatus, ContractStatus

LEMMA TypeInit == Init => TypeInv
  <1> SUFFICES ASSUME Init PROVE TypeInv
    OBVIOUS
  <1>1. Cardinality(Contracts) \in Nat
    BY FS_CardinalityType, ConstantsAssumption
  <1>2. TypeOK
    BY <1>1, IdleFits
    DEF Init, TypeOK, StoreOK, InitialStatuses, ContractStatus, Rows, NoRow, WorkerFits
  <1>3. \A p \in Workers : WorkerFits(worker[p])
    BY IdleFits DEF Init
  <1>4. EnvelopesOwned
    BY IdleFits DEF Init, EnvelopesOwned, HasRows, NoRow, EnvelopePCs
  <1> QED
    BY <1>2, <1>3, <1>4 DEF TypeInv

\* A step of one request keeps the shape if what it stores and what it goes on
\* with have it, and no envelope loses its contract.
LEMMA MoveKeepsType ==
    ASSUME TypeInv, NEW p \in Workers, NEW w, Goto(p, w),
           WorkerFits(w),
           StoreOK',
           \A e \in Envelopes :
               envelope[e].of \in Contracts => envelope'[e].of \in Contracts,
           \A e \in Envelopes :
               (\E s \in Signers : row'[e][s].status # None)
                 => envelope'[e].of \in Contracts,
           w.pc \in EnvelopePCs => envelope'[w.e].of \in Contracts,
           \A e \in w.envs : envelope'[e].of \in Contracts
    PROVE  TypeInv'
  <1>1. w \in WorkerStates
    BY DEF WorkerFits
  <1>2. worker \in [Workers -> WorkerStates] /\ worker' = [worker EXCEPT ![p] = w]
    BY DEF Goto, TypeInv, TypeOK
  <1>3. TypeOK'
    BY <1>1, <1>2 DEF TypeOK
  <1>4. ASSUME NEW q \in Workers
        PROVE  /\ WorkerFits(worker'[q])
               /\ worker'[q].pc \in EnvelopePCs
                    => envelope'[worker'[q].e].of \in Contracts
               /\ \A e \in worker'[q].envs : envelope'[e].of \in Contracts
    <2>1. CASE q = p
      BY <1>2, <2>1
    <2>2. CASE q # p
      <3>1. worker'[q] = worker[q] /\ worker[q] \in WorkerStates
        BY <1>2, <2>2
      <3>2. worker[q].envs \subseteq Envelopes
        BY <3>1 DEF WorkerStates
      <3>3. worker[q].pc \in EnvelopePCs => worker[q].e \in Envelopes
        BY DEF TypeInv, WorkerFits
      <3> QED
        BY <3>1, <3>2, <3>3 DEF TypeInv, EnvelopesOwned
    <2> QED
      BY <2>1, <2>2
  <1> QED
    BY <1>3, <1>4 DEF TypeInv, EnvelopesOwned, HasRows, WorkerFits, StatusFits

\* The same for a step that stores nothing.
LEMMA LocalMoveKeepsType ==
    ASSUME TypeInv, NEW p \in Workers, NEW w, Goto(p, w),
           WorkerFits(w),
           UNCHANGED <<database, lock, provider>>,
           w.pc \in EnvelopePCs => envelope[w.e].of \in Contracts,
           \A e \in w.envs : envelope[e].of \in Contracts
    PROVE  TypeInv'
  <1>1. StoreOK'
    BY DEF TypeInv, TypeOK, StoreOK, database, provider
  <1>2. envelope' = envelope /\ row' = row
    BY DEF database, provider
  <1> QED
    BY <1>1, <1>2, MoveKeepsType DEF TypeInv, EnvelopesOwned, HasRows

-----------------------------------------------------------------------------
(* Requests that are taken up *)

LEMMA SendContractType ==
    ASSUME TypeInv, NEW p \in Workers, NEW c \in Contracts, SendContract(p, c)
    PROVE  TypeInv'
  <1> DEFINE w == [Idle EXCEPT !.pc = "check", !.c = c,
                               !.st = "PENDING_SIGNATURE"]
  <1>1. WorkerFits(w)
    BY ZenonT(60), IdleFits DEF WorkerFits, WorkerStates, StatusFits, PCs, ContractPCs,
       EnvelopePCs, ContractStatus
  <1>2. w.pc = "check" /\ w.envs = {}
    BY DEF Idle
  <1> QED
    BY <1>1, <1>2, LocalMoveKeepsType DEF SendContract, Begin, EnvelopePCs

LEMMA LookUpPaymentType ==
    ASSUME TypeInv, NEW p \in Workers, NEW c \in Contracts, LookUpPayment(p, c)
    PROVE  TypeInv'
  <1> DEFINE w == [Idle EXCEPT !.pc = "insertPayment", !.c = c]
  <1>1. WorkerFits(w)
    BY ZenonT(60), IdleFits DEF WorkerFits, WorkerStates, StatusFits, PCs, ContractPCs,
       EnvelopePCs, Idle
  <1>2. w.pc = "insertPayment" /\ w.envs = {}
    BY DEF Idle
  <1> QED
    BY <1>1, <1>2, LocalMoveKeepsType DEF LookUpPayment, Begin, EnvelopePCs

LEMMA RequestSignatureType ==
    ASSUME TypeInv, NEW p \in Workers, NEW c \in Contracts, RequestSignature(p, c)
    PROVE  TypeInv'
  <1> DEFINE w == [Idle EXCEPT !.pc = "check", !.c = c]
  <1>1. WorkerFits(w)
    BY ZenonT(60), IdleFits DEF WorkerFits, WorkerStates, StatusFits, PCs, ContractPCs,
       EnvelopePCs, Idle
  <1>2. w.pc = "check" /\ w.envs = {}
    BY DEF Idle
  <1> QED
    BY <1>1, <1>2, LocalMoveKeepsType DEF RequestSignature, Begin, EnvelopePCs

\* A report that was sent has a form, an envelope and an event.
LEMMA ReportShape ==
    ASSUME TypeInv, NEW m \in sent
    PROVE  /\ m \in Reports
           /\ m.form \in AllForms /\ m.form.what \in Happenings
           /\ m.env \in Envelopes /\ m.by \in Signers /\ m.signed \in SUBSET Signers
           /\ EventOf(m) \in ProviderEvents
           /\ StatusOf[m.form.what] \in {"PENDING", "SIGNED", "REJECTED"}
  <1>1. m \in Reports
    BY DEF TypeInv, TypeOK, StoreOK
  <1>2. /\ m.form \in AllForms /\ m.env \in Envelopes /\ m.by \in Signers
        /\ m.signed \in SUBSET Signers
    BY <1>1, ConstantsAssumption DEF Reports
  <1>3. m.form.what \in Happenings
    BY <1>2 DEF AllForms
  <1>4. EventOf(m) \in ProviderEvents
    BY <1>2, <1>3 DEF EventOf, ProviderEvents
  <1>5. StatusOf[m.form.what] \in {"PENDING", "SIGNED", "REJECTED"}
    BY <1>3 DEF StatusOf
  <1> QED
    BY <1>1, <1>2, <1>3, <1>4, <1>5

LEMMA ReceiveWebhookType ==
    ASSUME TypeInv, NEW p \in Workers, NEW m \in sent, ReceiveWebhook(p, m)
    PROVE  TypeInv'
  <1>1. m.env \in Envelopes /\ m.by \in Signers /\ envelope[m.env].of \in Contracts
    BY ReportShape DEF TypeInv, EnvelopesOwned, ReceiveWebhook
  <1>2. PICK put \in Targets(m) :
          Begin(p, [Idle EXCEPT
            !.pc = "saveRows", !.c = envelope[m.env].of, !.e = m.env, !.put = put,
            !.rows = [s \in Signers |->
                        IF s \in put THEN WebhookRow(m, s) ELSE NoRow]])
    BY DEF ReceiveWebhook
  <1> DEFINE rows == [s \in Signers |->
                        IF s \in put THEN WebhookRow(m, s) ELSE NoRow]
             w == [Idle EXCEPT !.pc = "saveRows", !.c = envelope[m.env].of,
                               !.e = m.env, !.put = put, !.rows = rows]
  <1>3. put \in SUBSET Signers
    BY <1>1 DEF Targets
  <1>4. \A s \in Signers : row[m.env][s] \in Rows
    BY <1>1 DEF TypeInv, TypeOK, StoreOK
  <1>5. rows \in [Signers -> Rows]
    BY <1>1, <1>4, ReportShape DEF WebhookRow, Rows, NoRow, SignatureStatus
  <1>6. WorkerFits(w)
    <2> HIDE DEF rows
    <2> QED
      BY ZenonT(60), <1>1, <1>3, <1>5, IdleFits
      DEF WorkerFits, WorkerStates, StatusFits, PCs, ContractPCs, EnvelopePCs
  <1>7. w.pc = "saveRows" /\ w.envs = {} /\ w.e = m.env
    BY DEF Idle
  <1>8. Goto(p, w) /\ UNCHANGED <<database, lock, provider>>
    BY <1>2 DEF Begin, ReceiveWebhook
  <1> QED
    <2> HIDE DEF w
    <2> QED
      BY <1>1, <1>6, <1>7, <1>8, LocalMoveKeepsType

LEMMA ReceiveCallbackType ==
    ASSUME TypeInv, NEW p \in Workers, NEW m \in sent, ReceiveCallback(p, m)
    PROVE  TypeInv'
  <1>1. /\ m.env \in Envelopes /\ m.by \in Signers
        /\ StatusOf[m.form.what] \in {"PENDING", "SIGNED", "REJECTED"}
        /\ envelope[m.env].of \in Contracts
    BY ReportShape DEF TypeInv, EnvelopesOwned, ReceiveCallback
  <1> DEFINE rows == [s \in Signers |->
                        IF s = m.by
                        THEN [row[m.env][s] EXCEPT !.status = StatusOf[m.form.what]]
                        ELSE NoRow]
             w == [Idle EXCEPT !.pc = "saveRows", !.c = envelope[m.env].of,
                               !.e = m.env, !.put = {m.by}, !.rows = rows]
  <1>2. \A s \in Signers : row[m.env][s] \in Rows
    BY <1>1 DEF TypeInv, TypeOK, StoreOK
  <1>3. rows \in [Signers -> Rows]
    BY <1>1, <1>2 DEF Rows, NoRow, SignatureStatus
  <1>4. WorkerFits(w)
    <2> HIDE DEF rows
    <2> QED
      BY ZenonT(60), <1>1, <1>3, IdleFits
      DEF WorkerFits, WorkerStates, StatusFits, PCs, ContractPCs, EnvelopePCs
  <1>5. w.pc = "saveRows" /\ w.envs = {} /\ w.e = m.env
    BY DEF Idle
  <1>6. Goto(p, w) /\ UNCHANGED <<database, lock, provider>>
    BY DEF Begin, ReceiveCallback
  <1> QED
    <2> HIDE DEF w
    <2> QED
      BY <1>1, <1>4, <1>5, <1>6, LocalMoveKeepsType

LEMMA CloseContractType ==
    ASSUME TypeInv, NEW p \in Workers, NEW c \in Contracts, CloseContract(p, c)
    PROVE  TypeInv'
  <1> DEFINE w == [Idle EXCEPT !.pc = "write", !.c = c,
                               !.st = "CLOSED_WITHOUT_SIGNATURE",
                               !.cust = contract[c].customer]
  <1>1. contract[c].customer \in Documents \cup {None}
    BY DEF TypeInv, TypeOK, StoreOK
  <1>2. WorkerFits(w)
    BY ZenonT(60), <1>1, IdleFits DEF WorkerFits, WorkerStates, StatusFits, PCs, ContractPCs,
       EnvelopePCs, ContractStatus
  <1>3. w.pc = "write" /\ w.envs = {}
    BY DEF Idle
  <1> QED
    BY <1>2, <1>3, LocalMoveKeepsType DEF CloseContract, Begin, EnvelopePCs

LEMMA ReadForUpdateType ==
    ASSUME TypeInv, NEW p \in Workers, NEW c \in Contracts,
           NEW status \in ContractStatus, ReadForUpdate(p, c, status)
    PROVE  TypeInv'
  <1> DEFINE pc == IF status = "CANCELED" /\ status # contract[c].status
                   THEN "saveCancel" ELSE "saveUpdate"
             w == [Idle EXCEPT !.pc = pc, !.c = c, !.st = status,
                               !.cust = contract[c].customer]
  <1>1. contract[c].customer \in Documents \cup {None}
    BY DEF TypeInv, TypeOK, StoreOK
  <1>2. pc \in {"saveCancel", "saveUpdate"}
    OBVIOUS
  <1>3. WorkerFits(w) /\ w.pc \notin EnvelopePCs /\ w.envs = {}
    <2> HIDE DEF pc
    <2> QED
      BY ZenonT(60), <1>1, <1>2, IdleFits DEF WorkerFits, WorkerStates, StatusFits, PCs,
         ContractPCs, EnvelopePCs, Idle
  <1> QED
    BY <1>3, LocalMoveKeepsType DEF ReadForUpdate, Begin

LEMMA CancelRequestType ==
    ASSUME TypeInv, NEW p \in Workers, NEW e \in Envelopes, CancelRequest(p, e)
    PROVE  TypeInv'
  <1> DEFINE w == [Idle EXCEPT !.pc = "revoke", !.envs = {e}]
  <1>1. WorkerFits(w) /\ w.pc = "revoke" /\ w.envs = {e}
    BY ZenonT(60), IdleFits DEF WorkerFits, WorkerStates, StatusFits, PCs, ContractPCs,
       EnvelopePCs, Idle
  <1>2. envelope[e].of \in Contracts
    BY DEF CancelRequest, TypeInv, EnvelopesOwned
  <1> QED
    BY <1>1, <1>2, LocalMoveKeepsType DEF CancelRequest, Begin, EnvelopePCs

LEMMA PollStatusType ==
    ASSUME TypeInv, NEW p \in Workers, NEW e \in Envelopes, PollStatus(p, e)
    PROVE  TypeInv'
  <1> DEFINE w == [Idle EXCEPT !.pc = "savePoll", !.e = e, !.st = ProviderStatus(e)]
  <1>1. ProviderStatus(e) \in SignatureStatus
    BY DEF ProviderStatus, SignatureStatus
  <1>2. WorkerFits(w) /\ w.e = e /\ w.envs = {}
    BY ZenonT(60), <1>1, IdleFits DEF WorkerFits, WorkerStates, StatusFits, PCs, ContractPCs,
       EnvelopePCs, Idle
  <1>3. envelope[e].of \in Contracts
    BY DEF PollStatus, TypeInv, EnvelopesOwned
  <1> QED
    BY <1>2, <1>3, LocalMoveKeepsType DEF PollStatus, Begin

-----------------------------------------------------------------------------
(* Sending *)

\* What is known of a request that is being served.
LEMMA WorkerNow ==
    ASSUME TypeInv, NEW p \in Workers
    PROVE  /\ worker[p] \in WorkerStates
           /\ WorkerFits(worker[p])
           /\ worker[p].pc \in EnvelopePCs => envelope[worker[p].e].of \in Contracts
           /\ worker[p].envs \subseteq Envelopes
           /\ \A e \in worker[p].envs : envelope[e].of \in Contracts
  BY DEF TypeInv, WorkerFits, EnvelopesOwned, WorkerStates

\* A request that ends and leaves the rows and the envelopes alone.
LEMMA DoneKeepsType ==
    ASSUME TypeInv, NEW p \in Workers, Done(p), StoreOK',
           UNCHANGED <<row, envelope>>
    PROVE  TypeInv'
  BY IdleFits, MoveKeepsType
  DEF Done, TypeInv, EnvelopesOwned, HasRows, EnvelopePCs

LEMMA AfterRequestFits ==
    ASSUME TypeInv, NEW p \in Workers,
           worker[p].pc \in {"check", "create", "insert"}
    PROVE  /\ WorkerFits(AfterRequest(p))
           /\ AfterRequest(p).pc \notin EnvelopePCs
           /\ \A e \in AfterRequest(p).envs : envelope[e].of \in Contracts
  <1>1. CASE worker[p].st = None
    BY <1>1, IdleFits DEF AfterRequest, EnvelopePCs
  <1>2. CASE worker[p].st # None
    <2> DEFINE w == [worker[p] EXCEPT !.pc = "markSent", !.e = None]
    <2>1. /\ w \in WorkerStates
          /\ w.pc = "markSent" /\ w.c = worker[p].c /\ w.st = worker[p].st
          /\ w.envs = worker[p].envs
      <3>1. worker[p] \in WorkerStates
        BY WorkerNow
      <3> QED
        BY <3>1 DEF WorkerStates, PCs
    <2>2. w.st \in ContractStatus /\ w.c \in Contracts
      BY <1>2, <2>1, WorkerNow DEF WorkerFits, StatusFits, PCs, ContractPCs,
         ContractStatus
    <2>3. WorkerFits(w) /\ w.pc \notin EnvelopePCs
      BY <2>1, <2>2 DEF WorkerFits, StatusFits, EnvelopePCs
    <2>4. AfterRequest(p) = w
      BY <1>2 DEF AfterRequest
    <2> QED
      BY <2>1, <2>3, <2>4, WorkerNow
  <1> QED
    BY <1>1, <1>2

\* Writing the rows of an envelope that belongs to a contract.
LEMMA RowsKeepStore ==
    ASSUME TypeInv, NEW e \in Envelopes, envelope[e].of \in Contracts,
           NEW new \in [Signers -> Rows], row' = [row EXCEPT ![e] = new],
           UNCHANGED <<contract, budget, customers, event, payments, direct, lock,
                       provider>>
    PROVE  /\ StoreOK'
           /\ envelope' = envelope
           /\ \A d \in Envelopes :
                (\E s \in Signers : row'[d][s].status # None)
                  => envelope'[d].of \in Contracts
  BY DEF TypeInv, TypeOK, StoreOK, EnvelopesOwned, HasRows, provider

LEMMA SendingType ==
    ASSUME TypeInv, NEW p \in Workers,
           \/ ReuseEnvelope(p) \/ NoActiveEnvelope(p) \/ CreateEnvelope(p)
           \/ EnvelopeRefused(p) \/ InsertRows(p) \/ MarkSent(p)
    PROVE  TypeInv'
  <1>1. CASE ReuseEnvelope(p)
    BY <1>1, AfterRequestFits, LocalMoveKeepsType DEF ReuseEnvelope, At
  <1>2. CASE NoActiveEnvelope(p)
    <2> DEFINE w == [worker[p] EXCEPT !.pc = "create"]
    <2>1. WorkerFits(w) /\ w.pc = "create" /\ w.envs = worker[p].envs
      BY <1>2, WorkerNow DEF NoActiveEnvelope, At, WorkerFits, WorkerStates,
         StatusFits, PCs, ContractPCs, EnvelopePCs
    <2> QED
      BY <1>2, <2>1, WorkerNow, LocalMoveKeepsType DEF NoActiveEnvelope, EnvelopePCs
  <1>3. CASE CreateEnvelope(p)
    <2>1. PICK e \in Envelopes :
            /\ envelope' = [envelope EXCEPT ![e] =
                              [of |-> worker[p].c, state |-> "open", signed |-> {}]]
            /\ sent' = sent \cup UNION {ReportsOf(e, s, "requested", {}) : s \in Signers}
            /\ Goto(p, [worker[p] EXCEPT !.pc = "insert", !.e = e])
      BY <1>3 DEF CreateEnvelope
    <2> DEFINE w == [worker[p] EXCEPT !.pc = "insert", !.e = e]
    <2>2. worker[p].pc = "create"
      BY <1>3 DEF CreateEnvelope, At
    <2>3. worker[p].c \in Contracts
      BY <2>2, WorkerNow DEF WorkerFits, PCs, ContractPCs
    <2>4. w \in WorkerStates /\ w.pc = "insert" /\ w.c = worker[p].c /\ w.e = e
          /\ w.st = worker[p].st /\ w.envs = worker[p].envs
      <3>1. worker[p] \in WorkerStates
        BY WorkerNow
      <3> QED
        BY <3>1 DEF WorkerStates, PCs
    <2>5. WorkerFits(w)
      BY <2>2, <2>3, <2>4, WorkerNow DEF WorkerFits, StatusFits
    <2>6. StoreOK'
      <3>1. \A s \in Signers : ReportsOf(e, s, "requested", {}) \subseteq Reports
        BY DEF ReportsOf, Reports
      <3>2. sent' \in SUBSET Reports
        BY <2>1, <3>1 DEF TypeInv, TypeOK, StoreOK
      <3> QED
        BY <1>3, <2>1, <2>3, <3>2
        DEF CreateEnvelope, TypeInv, TypeOK, StoreOK, database
    <2>7. \A d \in Envelopes :
            envelope[d].of \in Contracts \/ d = e => envelope'[d].of \in Contracts
      BY <2>1, <2>3 DEF TypeInv, TypeOK, StoreOK
    <2>8. row' = row
      BY <1>3 DEF CreateEnvelope, database
    <2>9. \A d \in Envelopes :
            (\E s \in Signers : row'[d][s].status # None)
              => envelope'[d].of \in Contracts
      BY <2>7, <2>8 DEF TypeInv, EnvelopesOwned, HasRows
    <2>10. Goto(p, w) /\ envelope'[w.e].of \in Contracts
      BY <2>1, <2>7, <2>4
    <2>11. \A d \in w.envs : envelope'[d].of \in Contracts
      BY <2>7, <2>4, WorkerNow
    <2> HIDE DEF w
    <2> QED
      BY <2>6, <2>7, <2>5, <2>9, <2>10, <2>11, MoveKeepsType
  <1>4. CASE EnvelopeRefused(p)
    BY <1>4, IdleFits, LocalMoveKeepsType DEF EnvelopeRefused, Done, EnvelopePCs
  <1>5. CASE InsertRows(p)
    <2> DEFINE new == [s \in Signers |-> [status |-> "PENDING", eventId |-> None]]
    <2>1. worker[p].e \in Envelopes /\ envelope[worker[p].e].of \in Contracts
      BY <1>5, WorkerNow DEF InsertRows, At, WorkerFits, EnvelopePCs
    <2>2. new \in [Signers -> Rows]
      BY DEF Rows, SignatureStatus
    <2>3. row' = [row EXCEPT ![worker[p].e] = new]
      BY <1>5 DEF InsertRows
    <2> HIDE DEF new
    <2> QED
      BY <1>5, <2>1, <2>2, <2>3, RowsKeepStore, AfterRequestFits, MoveKeepsType
      DEF InsertRows, At
  <1>6. CASE MarkSent(p)
    <2>1. worker[p].st \in ContractStatus
      BY <1>6, WorkerNow DEF MarkSent, At, WorkerFits, StatusFits
    <2>2. contract' \in [Contracts -> [status : ContractStatus,
                                     customer : Documents \cup {None}]]
      <3>1. worker[p].c \in Contracts
        BY <1>6, WorkerNow DEF MarkSent, At, WorkerFits, PCs, ContractPCs
      <3>2. contract' = [contract EXCEPT ![worker[p].c] =
                           [contract[worker[p].c] EXCEPT !.status = worker[p].st]]
        BY <1>6 DEF MarkSent
      <3> QED
        BY ZenonT(60), <2>1, <3>1, <3>2 DEF TypeInv, TypeOK, StoreOK
    <2>3. StoreOK'
      BY <1>6, <2>2 DEF MarkSent, TypeInv, TypeOK, StoreOK, provider
    <2> QED
      BY <1>6, <2>3, DoneKeepsType DEF MarkSent, provider
  <1> QED
    BY <1>1, <1>2, <1>3, <1>4, <1>5, <1>6

-----------------------------------------------------------------------------
(* Provider reports, queries and revocation *)

LEMMA SaveRowsType ==
    ASSUME TypeInv, NEW p \in Workers, SaveRows(p)
    PROVE  TypeInv'
  <1> DEFINE e == worker[p].e
             new == [s \in Signers |-> IF s \in worker[p].put THEN worker[p].rows[s]
                                       ELSE row[e][s]]
             w == [Idle EXCEPT !.pc = "resolve", !.c = worker[p].c]
  <1>1. /\ worker[p] \in WorkerStates /\ worker[p].pc = "saveRows"
        /\ worker[p].c \in Contracts
        /\ e \in Envelopes /\ envelope[e].of \in Contracts
    BY WorkerNow DEF SaveRows, At, WorkerFits, PCs, ContractPCs, EnvelopePCs
  <1>2. new \in [Signers -> Rows]
    BY <1>1 DEF WorkerStates, TypeInv, TypeOK, StoreOK
  <1>3. row' = [row EXCEPT ![e] = new] /\ Goto(p, w)
    BY DEF SaveRows
  <1>4. WorkerFits(w) /\ w.pc = "resolve" /\ w.envs = {}
    <2>1. Idle \in WorkerStates /\ Idle.envs = {}
      BY IdleFits DEF WorkerFits
    <2>2. w \in WorkerStates /\ w.pc = "resolve" /\ w.c = worker[p].c /\ w.envs = {}
      BY ZenonT(60), <1>1, <2>1 DEF WorkerStates, PCs
    <2> QED
      BY <1>1, <2>2 DEF WorkerFits, StatusFits, EnvelopePCs
  <1> HIDE DEF new, w
  <1> QED
    BY <1>1, <1>2, <1>3, <1>4, RowsKeepStore, MoveKeepsType
    DEF SaveRows, EnvelopePCs

LEMMA SavePollType ==
    ASSUME TypeInv, NEW p \in Workers, SavePoll(p)
    PROVE  TypeInv'
  <1> DEFINE e == worker[p].e
             new == [s \in Signers |-> [status |-> worker[p].st,
                                        eventId |-> row[e][s].eventId]]
  <1>1. /\ worker[p].pc = "savePoll" /\ worker[p].st \in SignatureStatus
        /\ e \in Envelopes /\ envelope[e].of \in Contracts
    BY WorkerNow DEF SavePoll, At, WorkerFits, StatusFits, EnvelopePCs
  <1>2. new \in [Signers -> Rows]
    BY <1>1 DEF Rows, TypeInv, TypeOK, StoreOK
  <1>3. row' = [row EXCEPT ![e] = new] /\ Goto(p, Idle)
    BY DEF SavePoll, Done
  <1> HIDE DEF new
  <1> QED
    BY <1>1, <1>2, <1>3, IdleFits, RowsKeepStore, MoveKeepsType
    DEF SavePoll, EnvelopePCs

LEMMA MarkRowType ==
    ASSUME TypeInv, NEW p \in Workers, MarkRow(p)
    PROVE  TypeInv'
  <1>1. PICK s \in Signers :
          row' = [row EXCEPT ![worker[p].e] = [@ EXCEPT ![s] =
                    [status |-> "CANCELLED", eventId |-> row[worker[p].e][s].eventId]]]
    BY DEF MarkRow
  <1> DEFINE e == worker[p].e
             new == [row[e] EXCEPT ![s] =
                       [status |-> "CANCELLED", eventId |-> row[e][s].eventId]]
             w == [worker[p] EXCEPT !.pc = "revoke", !.e = None]
  <1>2. /\ worker[p].pc = "markRow" /\ worker[p] \in WorkerStates
        /\ e \in Envelopes /\ envelope[e].of \in Contracts
    BY WorkerNow DEF MarkRow, At, WorkerFits, EnvelopePCs
  <1>3. row[e] \in [Signers -> Rows]
    BY <1>2 DEF TypeInv, TypeOK, StoreOK
  <1>4. new \in [Signers -> Rows]
    BY <1>3 DEF Rows, SignatureStatus
  <1>5. row' = [row EXCEPT ![e] = new]
    BY <1>1, <1>2 DEF TypeInv, TypeOK, StoreOK
  <1>6. w \in WorkerStates /\ w.pc = "revoke" /\ w.envs = worker[p].envs
    BY <1>2 DEF WorkerStates, PCs
  <1>7. WorkerFits(w)
    BY <1>6 DEF WorkerFits, StatusFits, ContractPCs, EnvelopePCs
  <1>8. Goto(p, w)
    BY DEF MarkRow
  <1> HIDE DEF new, w
  <1> QED
    BY <1>2, <1>4, <1>5, <1>6, <1>7, <1>8, WorkerNow, RowsKeepStore, MoveKeepsType
    DEF MarkRow, EnvelopePCs

LEMMA ListRowsType ==
    ASSUME TypeInv, NEW p \in Workers, ListRows(p)
    PROVE  TypeInv'
  <1> DEFINE w == [worker[p] EXCEPT !.pc = "revoke",
                                    !.envs = EnvelopesOf(worker[p].c)]
  <1>1. worker[p] \in WorkerStates
    BY WorkerNow
  <1>2. EnvelopesOf(worker[p].c) \in SUBSET Envelopes
    BY DEF EnvelopesOf
  <1>3. w \in WorkerStates /\ w.pc = "revoke" /\ w.envs = EnvelopesOf(worker[p].c)
    <2> HIDE DEF EnvelopesOf
    <2> QED
      BY ZenonT(60), <1>1, <1>2 DEF WorkerStates, PCs
  <1>4. WorkerFits(w)
    BY <1>3 DEF WorkerFits, StatusFits, ContractPCs, EnvelopePCs
  <1>5. \A e \in w.envs : envelope[e].of \in Contracts
    BY <1>3 DEF EnvelopesOf, TypeInv, EnvelopesOwned
  <1>6. Goto(p, w)
    BY DEF ListRows
  <1> HIDE DEF w
  <1> QED
    BY <1>3, <1>4, <1>5, <1>6, LocalMoveKeepsType DEF ListRows, EnvelopePCs

LEMMA RevokeType ==
    ASSUME TypeInv, NEW p \in Workers, Revoke(p) \/ RevokeRefused(p) \/ EndRevoke(p)
    PROVE  TypeInv'
  <1>1. worker[p] \in WorkerStates /\ worker[p].pc = "revoke"
    BY WorkerNow DEF Revoke, RevokeRefused, EndRevoke, At
  <1>2. CASE Revoke(p)
    <2>1. PICK e \in worker[p].envs :
            /\ envelope' = [envelope EXCEPT ![e].state = "deleted"]
            /\ Goto(p, [worker[p] EXCEPT !.pc = "markRow", !.e = e, !.envs = @ \ {e}])
      BY <1>2 DEF Revoke
    <2> DEFINE w == [worker[p] EXCEPT !.pc = "markRow", !.e = e,
                                      !.envs = worker[p].envs \ {e}]
    <2>2. e \in Envelopes /\ envelope[e].of \in Contracts
      BY WorkerNow
    <2>3. /\ w \in WorkerStates /\ w.pc = "markRow" /\ w.e = e
          /\ w.envs \subseteq worker[p].envs
      BY ZenonT(60), <1>1, <2>2 DEF WorkerStates, PCs
    <2>4. WorkerFits(w)
      BY <2>2, <2>3 DEF WorkerFits, StatusFits, ContractPCs
    <2>5. Goto(p, w)
      BY <2>1
    <2>6. StoreOK'
      <3>1. envelope' \in [Envelopes -> [of : Contracts \cup {None},
                                state : {"absent", "open", "rejected", "deleted"},
                                signed : SUBSET Signers]]
        BY ZenonT(60), <2>1 DEF TypeInv, TypeOK, StoreOK
      <3> QED
        BY <1>2, <3>1 DEF Revoke, TypeInv, TypeOK, StoreOK, database
    <2>7. \A d \in Envelopes : envelope'[d].of = envelope[d].of
      BY <2>1 DEF TypeInv, TypeOK, StoreOK
    <2>8. row' = row
      BY <1>2 DEF Revoke, database
    <2>9. \A d \in w.envs : envelope'[d].of \in Contracts
      BY <2>3, <2>7, WorkerNow
    <2> HIDE DEF w
    <2> QED
      BY <2>2, <2>3, <2>4, <2>5, <2>6, <2>7, <2>8, <2>9, MoveKeepsType
      DEF TypeInv, EnvelopesOwned, HasRows
  <1>3. CASE RevokeRefused(p)
    <2>1. PICK e \in worker[p].envs : Goto(p, [worker[p] EXCEPT !.envs = @ \ {e}])
      BY <1>3 DEF RevokeRefused
    <2> DEFINE w == [worker[p] EXCEPT !.envs = worker[p].envs \ {e}]
    <2>2. w \in WorkerStates /\ w.pc = "revoke" /\ w.envs \subseteq worker[p].envs
      BY <1>1 DEF WorkerStates
    <2>3. WorkerFits(w)
      BY <2>2 DEF WorkerFits, StatusFits, ContractPCs, EnvelopePCs
    <2>4. Goto(p, w)
      BY <2>1
    <2> HIDE DEF w
    <2> QED
      BY <1>3, <2>2, <2>3, <2>4, WorkerNow, LocalMoveKeepsType
      DEF RevokeRefused, EnvelopePCs
  <1>4. CASE EndRevoke(p)
    BY <1>4, IdleFits, LocalMoveKeepsType DEF EndRevoke, Done, EnvelopePCs
  <1> QED
    BY <1>2, <1>3, <1>4

-----------------------------------------------------------------------------
(* Transactions and manual updates *)

\* Facts about the transaction of a request.
LEMMA TransactionNow ==
    ASSUME TypeInv, NEW p \in Workers,
           worker[p].pc \in TransactionPCs \cup {"resolve", "saveUpdate"}
    PROVE  /\ worker[p] \in WorkerStates
           /\ worker[p].c \in Contracts
           /\ worker[p].pc # "resolve" => worker[p].st \in ContractStatus
           /\ contract[worker[p].c] \in [status : ContractStatus,
                                         customer : Documents \cup {None}]
           /\ \A e \in worker[p].envs : envelope[e].of \in Contracts
  BY WorkerNow DEF TransactionPCs, WorkerFits, StatusFits, PCs, ContractPCs,
     TypeInv, TypeOK, StoreOK

LEMMA ResolveStatusType ==
    ASSUME TypeInv, NEW p \in Workers, ResolveStatus(p)
    PROVE  TypeInv'
  <1> DEFINE st == ResolveContractStatus(StatusesOf(worker[p].c))
             w == [worker[p] EXCEPT !.pc = "read", !.st = st]
  <1>1. st \in ContractStatus
    BY ResolvedStatus
  <1>2. worker[p] \in WorkerStates /\ worker[p].c \in Contracts
        /\ \A e \in worker[p].envs : envelope[e].of \in Contracts
    BY TransactionNow DEF ResolveStatus, At
  <1>3. Goto(p, w)
    BY DEF ResolveStatus
  <1> HIDE DEF st
  <1>4. w \in WorkerStates /\ w.pc = "read" /\ w.c = worker[p].c /\ w.st = st
        /\ w.envs = worker[p].envs
    BY <1>1, <1>2 DEF WorkerStates, PCs
  <1>5. WorkerFits(w)
    BY <1>1, <1>2, <1>4 DEF WorkerFits, StatusFits, EnvelopePCs
  <1> HIDE DEF w
  <1> QED
    BY <1>2, <1>3, <1>4, <1>5, LocalMoveKeepsType DEF ResolveStatus, EnvelopePCs

\* A transaction goes on with the same contract and the same status.
LEMMA TransactionFits ==
    ASSUME TypeInv, NEW p \in Workers, worker[p].pc \in TransactionPCs,
           NEW w \in WorkerStates, w.pc \in TransactionPCs,
           w.c = worker[p].c, w.st \in {worker[p].st} \cup ContractStatus,
           w.envs = worker[p].envs
    PROVE  /\ WorkerFits(w)
           /\ w.pc \notin EnvelopePCs
           /\ \A e \in w.envs : envelope[e].of \in Contracts
  BY TransactionNow DEF WorkerFits, StatusFits, TransactionPCs, EnvelopePCs

LEMMA ReadContractType ==
    ASSUME TypeInv, NEW p \in Workers, ReadContract(p)
    PROVE  TypeInv'
  <1>1. worker[p] \in WorkerStates /\ worker[p].pc \in TransactionPCs
        /\ contract[worker[p].c].customer \in Documents \cup {None}
    BY TransactionNow DEF ReadContract, At, TransactionPCs
  <1>2. AfterStatus(worker[p]) \in {"activate", "commit"}
    BY DEF AfterStatus
  <1> DEFINE same == [worker[p] EXCEPT !.pc = AfterStatus(worker[p])]
             other == [worker[p] EXCEPT !.pc = "write",
                                        !.cust = contract[worker[p].c].customer]
  <1>3. /\ same \in WorkerStates /\ same.pc \in TransactionPCs
        /\ same.c = worker[p].c /\ same.st = worker[p].st
        /\ same.envs = worker[p].envs
    BY <1>1, <1>2 DEF WorkerStates, PCs, TransactionPCs
  <1>4. /\ other \in WorkerStates /\ other.pc \in TransactionPCs
        /\ other.c = worker[p].c /\ other.st = worker[p].st
        /\ other.envs = worker[p].envs
    BY ZenonT(60), <1>1 DEF WorkerStates, PCs, TransactionPCs
  <1>5. Goto(p, same) \/ Goto(p, other)
    BY DEF ReadContract
  <1> HIDE DEF same, other
  <1> QED
    BY <1>1, <1>3, <1>4, <1>5, TransactionFits, LocalMoveKeepsType DEF ReadContract

\* Taking or releasing the lock of a contract.
LEMMA LockKeepsType ==
    ASSUME TypeInv, NEW p \in Workers, NEW w, Goto(p, w), WorkerFits(w),
           w.pc \notin EnvelopePCs,
           \A e \in w.envs : envelope[e].of \in Contracts,
           lock' \in [Contracts -> Workers \cup {None}],
           UNCHANGED <<database, provider>>
    PROVE  TypeInv'
  <1>1. StoreOK'
    BY DEF TypeInv, TypeOK, StoreOK, database, provider
  <1>2. envelope' = envelope /\ row' = row
    BY DEF database, provider
  <1> QED
    BY <1>1, <1>2, MoveKeepsType DEF TypeInv, EnvelopesOwned, HasRows

LEMMA ReleaseType ==
    ASSUME TypeInv, NEW p \in Workers, Release(p)
    PROVE  lock' \in [Contracts -> Workers \cup {None}]
  BY DEF Release, TypeInv, TypeOK, StoreOK

LEMMA WriteContractType ==
    ASSUME TypeInv, NEW p \in Workers, WriteContract(p)
    PROVE  TypeInv'
  <1>1. worker[p] \in WorkerStates /\ worker[p].pc \in TransactionPCs
        /\ contract[worker[p].c].customer \in Documents \cup {None}
    BY TransactionNow DEF WriteContract, At, TransactionPCs
  <1>2. AfterStatus(worker[p]) \in {"activate", "commit"}
    BY DEF AfterStatus
  <1>3. CASE /\ lock' = [lock EXCEPT ![worker[p].c] = p]
             /\ \E cust \in {worker[p].cust, contract[worker[p].c].customer} :
                  Goto(p, [worker[p] EXCEPT !.pc = AfterStatus(worker[p]),
                                            !.wrote = TRUE, !.cust = cust])
    <2>1. PICK cust \in {worker[p].cust, contract[worker[p].c].customer} :
            Goto(p, [worker[p] EXCEPT !.pc = AfterStatus(worker[p]),
                                      !.wrote = TRUE, !.cust = cust])
      BY <1>3
    <2> DEFINE w == [worker[p] EXCEPT !.pc = AfterStatus(worker[p]),
                                      !.wrote = TRUE, !.cust = cust]
    <2>2. cust \in Documents \cup {None}
      BY <1>1 DEF WorkerStates
    <2>3. /\ w \in WorkerStates /\ w.pc \in TransactionPCs
          /\ w.c = worker[p].c /\ w.st = worker[p].st /\ w.envs = worker[p].envs
      <3>1. [worker[p] EXCEPT !.pc = AfterStatus(worker[p])] \in WorkerStates
        BY <1>1, <1>2 DEF WorkerStates, PCs
      <3>2. w = [[[worker[p] EXCEPT !.pc = AfterStatus(worker[p])]
                    EXCEPT !.wrote = TRUE] EXCEPT !.cust = cust]
        BY <1>1 DEF WorkerStates
      <3>3. w \in WorkerStates
        BY <2>2, <3>1, <3>2 DEF WorkerStates
      <3> QED
        BY <1>1, <1>2, <3>3 DEF WorkerStates, TransactionPCs
    <2>4. lock' \in [Contracts -> Workers \cup {None}]
      BY <1>3 DEF TypeInv, TypeOK, StoreOK
    <2>5. Goto(p, w)
      BY <2>1
    <2> HIDE DEF w
    <2> QED
      BY <1>1, <2>3, <2>4, <2>5, TransactionFits, LockKeepsType DEF WriteContract
  <1>4. CASE /\ lock' = lock
             /\ Goto(p, [worker[p] EXCEPT !.pc = AfterStatus(worker[p])])
    <2> DEFINE w == [worker[p] EXCEPT !.pc = AfterStatus(worker[p])]
    <2>1. /\ w \in WorkerStates /\ w.pc \in TransactionPCs
          /\ w.c = worker[p].c /\ w.st = worker[p].st /\ w.envs = worker[p].envs
      BY <1>1, <1>2 DEF WorkerStates, PCs, TransactionPCs
    <2>2. Goto(p, w) /\ lock' \in [Contracts -> Workers \cup {None}]
      BY <1>4 DEF TypeInv, TypeOK, StoreOK
    <2> HIDE DEF w
    <2> QED
      BY <1>1, <2>1, <2>2, TransactionFits, LockKeepsType DEF WriteContract
  <1> QED
    BY <1>3, <1>4 DEF WriteContract

\* While a contract has no event there is a number left for it.
LEMMA NumberLeft ==
    ASSUME TypeInv, NEW c \in Contracts, event[c].number = 0
    PROVE  /\ IsFiniteSet(Events)
           /\ Cardinality(Events) + 1 \in 1 .. Cardinality(Contracts)
  <1>1. Events \in SUBSET (Contracts \ {c})
    BY DEF Events
  <1>2. /\ IsFiniteSet(Contracts \ {c})
        /\ Cardinality(Contracts) \in Nat
        /\ Cardinality(Contracts \ {c}) = Cardinality(Contracts) - 1
    BY FS_RemoveElement, FS_CardinalityType, ConstantsAssumption
  <1>3. IsFiniteSet(Events) /\ Cardinality(Events) <= Cardinality(Contracts \ {c})
    BY <1>1, <1>2, FS_Subset
  <1>4. Cardinality(Events) \in Nat
    BY <1>3, FS_CardinalityType
  <1> QED
    BY <1>2, <1>3, <1>4

LEMMA EventToInsertType ==
    ASSUME TypeInv, NEW w, w.c \in Contracts
    PROVE  EventToInsert(w) \in 0 .. Cardinality(Contracts)
  <1>1. Cardinality(Contracts) \in Nat
    BY FS_CardinalityType, ConstantsAssumption
  <1> QED
    BY <1>1, NumberLeft DEF EventToInsert

LEMMA CustomerToLinkType ==
    ASSUME NEW w, w.c \in Contracts
    PROVE  CustomerToLink(w) \in Documents \cup {None}
  BY ConstantsAssumption DEF CustomerToLink, ClientDocument

LEMMA FindCustomerType ==
    ASSUME TypeInv, NEW p \in Workers, FindCustomer(p)
    PROVE  TypeInv'
  <1> DEFINE link  == CustomerToLink(worker[p])
             st    == SeenStatus(worker[p])
             fresh == link \notin customers
             none  == [worker[p] EXCEPT !.pc = "createEvent"]
             some  == [worker[p] EXCEPT !.pc = "linkCustomer", !.st = st,
                                        !.link = link, !.cust = link,
                                        !.fresh = fresh]
  <1>1. /\ worker[p] \in WorkerStates /\ worker[p].pc \in TransactionPCs
        /\ worker[p].c \in Contracts /\ worker[p].st \in ContractStatus
        /\ contract[worker[p].c].status \in ContractStatus
    BY TransactionNow DEF FindCustomer, At, TransactionPCs
  <1>2. link \in Documents \cup {None}
    BY <1>1, CustomerToLinkType
  <1>3. st \in ContractStatus /\ fresh \in BOOLEAN
    BY <1>1 DEF SeenStatus
  <1>4. Goto(p, none) \/ Goto(p, some)
    BY DEF FindCustomer
  <1> HIDE DEF link, st, fresh
  <1>5. /\ none \in WorkerStates /\ none.pc \in TransactionPCs
        /\ none.c = worker[p].c /\ none.st = worker[p].st
        /\ none.envs = worker[p].envs
    BY <1>1 DEF WorkerStates, PCs, TransactionPCs
  <1>6. /\ some \in WorkerStates /\ some.pc \in TransactionPCs
        /\ some.c = worker[p].c /\ some.st \in ContractStatus
        /\ some.envs = worker[p].envs
    BY ZenonT(60), <1>1, <1>2, <1>3 DEF WorkerStates, PCs, TransactionPCs
  <1> HIDE DEF none, some
  <1> QED
    BY <1>1, <1>4, <1>5, <1>6, TransactionFits, LocalMoveKeepsType DEF FindCustomer

LEMMA LinkCustomerType ==
    ASSUME TypeInv, NEW p \in Workers, LinkCustomer(p)
    PROVE  TypeInv'
  <1>1. worker[p] \in WorkerStates /\ worker[p].pc \in TransactionPCs
    BY TransactionNow DEF LinkCustomer, At, TransactionPCs
  <1>2. PICK wrote \in BOOLEAN :
          Goto(p, [worker[p] EXCEPT !.pc = "createEvent", !.wrote = wrote])
    BY DEF LinkCustomer
  <1> DEFINE w == [worker[p] EXCEPT !.pc = "createEvent", !.wrote = wrote]
  <1>3. /\ w \in WorkerStates /\ w.pc \in TransactionPCs
        /\ w.c = worker[p].c /\ w.st = worker[p].st /\ w.envs = worker[p].envs
    BY ZenonT(60), <1>1, <1>2 DEF WorkerStates, PCs, TransactionPCs
  <1>4. lock' \in [Contracts -> Workers \cup {None}]
    BY DEF LinkCustomer, TypeInv, TypeOK, StoreOK
  <1>5. Goto(p, w)
    BY <1>2
  <1> HIDE DEF w
  <1> QED
    BY <1>1, <1>3, <1>4, <1>5, TransactionFits, LockKeepsType DEF LinkCustomer

LEMMA CreateEventType ==
    ASSUME TypeInv, NEW p \in Workers, CreateEvent(p)
    PROVE  TypeInv'
  <1> DEFINE number == EventToInsert(worker[p])
             sync   == event[worker[p].c].number # 0
             cust   == SeenCustomer(worker[p])
             w == [worker[p] EXCEPT !.pc = "createPayments", !.number = number,
                                    !.sync = sync, !.cust = cust]
  <1>1. /\ worker[p] \in WorkerStates /\ worker[p].pc \in TransactionPCs
        /\ worker[p].c \in Contracts
        /\ contract[worker[p].c].customer \in Documents \cup {None}
    BY TransactionNow DEF CreateEvent, At, TransactionPCs
  <1>2. number \in 0 .. Cardinality(Contracts)
    BY <1>1, EventToInsertType
  <1>3. sync \in BOOLEAN /\ cust \in Documents \cup {None}
    BY <1>1 DEF SeenCustomer, WorkerStates
  <1>4. Goto(p, w)
    BY DEF CreateEvent
  <1> HIDE DEF number, sync, cust
  <1>5. /\ w \in WorkerStates /\ w.pc \in TransactionPCs
        /\ w.c = worker[p].c /\ w.st = worker[p].st /\ w.envs = worker[p].envs
    BY ZenonT(60), <1>1, <1>2, <1>3 DEF WorkerStates, PCs, TransactionPCs
  <1> HIDE DEF w
  <1> QED
    BY <1>1, <1>4, <1>5, TransactionFits, LocalMoveKeepsType DEF CreateEvent

LEMMA CreatePaymentsType ==
    ASSUME TypeInv, NEW p \in Workers, CreatePayments(p)
    PROVE  TypeInv'
  <1> DEFINE pay == PaymentDue(worker[p])
             w   == [worker[p] EXCEPT !.pc = "commit", !.pay = pay]
  <1>1. worker[p] \in WorkerStates /\ worker[p].pc \in TransactionPCs
    BY TransactionNow DEF CreatePayments, At, TransactionPCs
  <1>2. pay \in BOOLEAN
    BY DEF PaymentDue
  <1>3. Goto(p, w)
    BY DEF CreatePayments
  <1> HIDE DEF pay
  <1>4. /\ w \in WorkerStates /\ w.pc \in TransactionPCs
        /\ w.c = worker[p].c /\ w.st = worker[p].st /\ w.envs = worker[p].envs
    <2>1. [worker[p] EXCEPT !.pc = "commit"] \in WorkerStates
      BY <1>1 DEF WorkerStates, PCs
    <2>2. w = [[worker[p] EXCEPT !.pc = "commit"] EXCEPT !.pay = pay]
      BY <1>1 DEF WorkerStates
    <2>3. w \in WorkerStates
      BY <1>2, <2>1, <2>2, Zenon DEF WorkerStates
    <2> QED
      BY <1>1, <2>3 DEF WorkerStates, TransactionPCs
  <1> HIDE DEF w
  <1> QED
    BY <1>1, <1>3, <1>4, TransactionFits, LocalMoveKeepsType DEF CreatePayments

LEMMA CommitType ==
    ASSUME TypeInv, NEW p \in Workers, Commit(p)
    PROVE  TypeInv'
  <1> DEFINE w == worker[p]
  <1>1. /\ w \in WorkerStates /\ w.c \in Contracts /\ w.st \in ContractStatus
        /\ contract[w.c] \in [status : ContractStatus,
                               customer : Documents \cup {None}]
    BY TransactionNow DEF Commit, At, TransactionPCs
  <1>2. CommittedContract(w) \in [status : ContractStatus,
                                  customer : Documents \cup {None}]
    BY <1>1 DEF CommittedContract, SeenStatus, SeenCustomer, WorkerStates
  <1>3. contract' \in [Contracts -> [status : ContractStatus,
                                     customer : Documents \cup {None}]]
    BY <1>2 DEF Commit, TypeInv, TypeOK, StoreOK
  <1>4. CommittedEvent(w) \in [number : 0 .. Cardinality(Contracts),
                               customer : Documents \cup {None}]
    <2>1. /\ event[w.c] \in [number : 0 .. Cardinality(Contracts),
                             customer : Documents \cup {None}]
          /\ w.number \in 0 .. Cardinality(Contracts)
          /\ w.cust \in Documents \cup {None}
      BY <1>1 DEF TypeInv, TypeOK, StoreOK, WorkerStates
    <2> QED
      BY <2>1 DEF CommittedEvent
  <1>5. event' \in [Contracts -> [number : 0 .. Cardinality(Contracts),
                                  customer : Documents \cup {None}]]
    BY <1>4 DEF Commit, TypeInv, TypeOK, StoreOK
  <1>6. payments' \in [Contracts -> Nat]
    <2>1. payments \in [Contracts -> Nat]
      BY DEF TypeInv, TypeOK, StoreOK
    <2>2. payments' = [payments EXCEPT ![w.c] =
                         IF w.pay THEN payments[w.c] + 1 ELSE payments[w.c]]
      BY DEF Commit
    <2> QED
      BY <1>1, <2>1, <2>2
  <1>7. customers' \in SUBSET Documents
    BY <1>1 DEF Commit, TypeInv, TypeOK, StoreOK, WorkerStates
  <1>8. StoreOK'
    BY <1>3, <1>5, <1>6, <1>7, ReleaseType
    DEF Commit, TypeInv, TypeOK, StoreOK, provider
  <1> QED
    BY <1>8, DoneKeepsType DEF Commit, provider

\* A request that fails, for a conflict or for any other reason.
LEMMA FailType ==
    ASSUME TypeInv, NEW p \in Workers, Abort(p) \/ Fail(p)
    PROVE  TypeInv'
  BY IdleFits, ReleaseType, LockKeepsType DEF Abort, Fail, Done, EnvelopePCs

LEMMA ManualUpdateType ==
    ASSUME TypeInv, NEW p \in Workers, SaveUpdate(p) \/ SaveCancel(p)
    PROVE  TypeInv'
  <1> DEFINE w == [Idle EXCEPT !.pc = "listRows", !.c = worker[p].c]
  <1>1. worker[p].c \in Contracts
    BY WorkerNow DEF SaveUpdate, SaveCancel, At, WorkerFits, PCs, ContractPCs
  <1>2. WorkerFits(w) /\ w.pc = "listRows" /\ w.envs = {}
    BY ZenonT(60), <1>1, IdleFits DEF WorkerFits, WorkerStates, StatusFits, PCs, ContractPCs,
       EnvelopePCs, Idle
  <1>3. CASE SaveUpdate(p)
    <2>1. PICK cust \in {worker[p].cust, contract[worker[p].c].customer} :
            contract' = [contract EXCEPT ![worker[p].c] =
                           [status |-> worker[p].st, customer |-> cust]]
      BY <1>3 DEF SaveUpdate
    <2>2. worker[p].st \in ContractStatus /\ cust \in Documents \cup {None}
      BY <1>3, TransactionNow DEF SaveUpdate, At, WorkerStates
    <2>3. contract' \in [Contracts -> [status : ContractStatus,
                                       customer : Documents \cup {None}]]
      BY <2>1, <2>2 DEF TypeInv, TypeOK, StoreOK
    <2>4. StoreOK' /\ row' = row /\ envelope' = envelope
      BY <1>3, <2>3 DEF SaveUpdate, TypeInv, TypeOK, StoreOK, provider
    <2>5. Goto(p, w) \/ Done(p)
      BY <1>3 DEF SaveUpdate
    <2> HIDE DEF w
    <2> QED
      BY <1>2, <2>4, <2>5, DoneKeepsType, MoveKeepsType
      DEF TypeInv, EnvelopesOwned, HasRows, EnvelopePCs
  <1>4. CASE SaveCancel(p)
    <2>1. contract' = [contract EXCEPT ![worker[p].c] =
                         [contract[worker[p].c] EXCEPT !.status = "CANCELED"]]
      BY <1>4 DEF SaveCancel
    <2>2. contract' \in [Contracts -> [status : ContractStatus,
                                       customer : Documents \cup {None}]]
      BY SMTT(30), <1>1, <2>1 DEF TypeInv, TypeOK, StoreOK, ContractStatus
    <2>3. budget' \in [Contracts -> {"APPROVED", "CANCELED"}]
      BY <1>4 DEF SaveCancel, TypeInv, TypeOK, StoreOK
    <2>4. StoreOK' /\ row' = row /\ envelope' = envelope
      BY <1>4, <2>2, <2>3 DEF SaveCancel, TypeInv, TypeOK, StoreOK, provider
    <2>5. Goto(p, w)
      BY <1>4 DEF SaveCancel
    <2> HIDE DEF w
    <2> QED
      BY <1>2, <2>4, <2>5, MoveKeepsType
      DEF TypeInv, EnvelopesOwned, HasRows, EnvelopePCs
  <1> QED
    BY <1>3, <1>4

-----------------------------------------------------------------------------
(* The provider, and all steps together *)

LEMMA ProviderType ==
    ASSUME TypeInv, Provider
    PROVE  TypeInv'
  <1>1. PICK e \in Envelopes, s \in Signers : Sign(e, s) \/ Reject(e, s)
    BY DEF Provider
  <1>2. /\ worker' = worker /\ row' = row
        /\ UNCHANGED <<contract, budget, customers, event, payments, direct, lock>>
    BY <1>1 DEF Sign, Reject, database
  <1>3. /\ envelope' \in [Envelopes -> [of : Contracts \cup {None},
                                state : {"absent", "open", "rejected", "deleted"},
                                signed : SUBSET Signers]]
        /\ \A d \in Envelopes : envelope'[d].of = envelope[d].of
    <2>1. CASE Sign(e, s)
      <3>1. envelope' = [envelope EXCEPT ![e] =
                           [envelope[e] EXCEPT !.signed = envelope[e].signed \cup {s}]]
        BY <2>1 DEF Sign
      <3> QED
        BY <3>1 DEF TypeInv, TypeOK, StoreOK
    <2>2. CASE Reject(e, s)
      <3>1. envelope' = [envelope EXCEPT ![e] =
                           [envelope[e] EXCEPT !.state = "rejected"]]
        BY <2>2 DEF Reject
      <3> QED
        BY <3>1 DEF TypeInv, TypeOK, StoreOK
    <2> QED
      BY <1>1, <2>1, <2>2
  <1>4. ASSUME NEW what, NEW signed \in SUBSET Signers
        PROVE  ReportsOf(e, s, what, signed) \subseteq Reports
    BY DEF ReportsOf, Reports
  <1>5. sent' \in SUBSET Reports
    BY <1>1, <1>3, <1>4 DEF Sign, Reject, TypeInv, TypeOK, StoreOK
  <1>6. TypeOK'
    BY <1>2, <1>3, <1>5 DEF TypeInv, TypeOK, StoreOK
  <1>7. \A p \in Workers : WorkerFits(worker'[p])
    BY <1>2 DEF TypeInv
  <1>8. EnvelopesOwned'
    BY <1>2, <1>3, WorkerNow
    DEF TypeInv, EnvelopesOwned, HasRows, WorkerFits
  <1> QED
    BY <1>6, <1>7, <1>8
    DEF TypeInv, WorkerFits, StatusFits

LEMMA InsertPaymentType ==
    ASSUME TypeInv, NEW p \in Workers, InsertPayment(p)
    PROVE  TypeInv'
  <1>1. direct' \in [Contracts -> Nat]
    <2>1. direct \in [Contracts -> Nat]
      BY DEF TypeInv, TypeOK, StoreOK
    <2>2. direct' = [direct EXCEPT ![worker[p].c] = direct[worker[p].c] + 1]
      BY DEF InsertPayment
    <2>3. worker[p].c \in Contracts
      BY WorkerNow DEF InsertPayment, At, WorkerFits, PCs, ContractPCs
    <2> QED
      BY <2>1, <2>2, <2>3
  <1>2. StoreOK'
    BY <1>1 DEF InsertPayment, TypeInv, TypeOK, StoreOK, provider
  <1> QED
    BY <1>2, DoneKeepsType DEF InsertPayment, provider

LEMMA TypeStep == TypeInv /\ [Next]_vars => TypeInv'
  <1> SUFFICES ASSUME TypeInv, [Next]_vars PROVE TypeInv'
    OBVIOUS
  <1>1. ASSUME NEW p \in Workers, Proceed(p) PROVE TypeInv'
    BY <1>1, SendingType, SaveRowsType, ResolveStatusType, ReadContractType,
       WriteContractType, FindCustomerType, LinkCustomerType, CreateEventType,
       CreatePaymentsType, CommitType, FailType, ManualUpdateType, ListRowsType,
       RevokeType, MarkRowType, SavePollType, InsertPaymentType
    DEF Proceed
  <1>2. ASSUME NEW p \in Workers, Request(p) PROVE TypeInv'
    BY <1>2, SendContractType, RequestSignatureType, CloseContractType,
       LookUpPaymentType, ReadForUpdateType, CancelRequestType, PollStatusType
    DEF Request
  <1>3. ASSUME NEW p \in Workers, Deliver(p) PROVE TypeInv'
    BY <1>3, ReceiveWebhookType, ReceiveCallbackType DEF Deliver
  <1>4. ASSUME NEW p \in Workers, Fail(p) PROVE TypeInv'
    BY <1>4, FailType
  <1>5. CASE UNCHANGED vars
    BY <1>5 DEF vars, TypeInv, TypeOK, StoreOK, WorkerFits, StatusFits,
       EnvelopesOwned, HasRows
  <1> QED
    BY <1>1, <1>2, <1>3, <1>4, <1>5, ProviderType DEF Next

\* In every instance the state keeps its shape, however many requests and
\* reports run through one another; in particular every row of tb_contracts,
\* tb_signatures and tb_events holds a status, a link and a number of its kind.
THEOREM TypeCorrect == Spec => []TypeOK
  <1>1. TypeInv => TypeOK
    BY DEF TypeInv
  <1> QED
    BY <1>1, TypeInit, TypeStep, PTL DEF Spec

-----------------------------------------------------------------------------
(* What an activation leaves behind *)

\* The steps at which a transaction may carry the number of a new event.
NumberedPCs == {"createPayments", "commit"}

\* No request comes to carry an event number that it did not carry, and none
\* that carries one goes on.
NoNewNumber ==
    \A q \in Workers :
        \/ worker'[q] = worker[q]
        \/ worker'[q].number = 0
        \/ worker'[q].number = worker[q].number /\ worker[q].pc \notin NumberedPCs

LEMMA MoveWithoutNumber ==
    ASSUME TypeInv, NEW p \in Workers, NEW w, Goto(p, w),
           \/ w.number = 0
           \/ w.number = worker[p].number /\ worker[p].pc \notin NumberedPCs
    PROVE  NoNewNumber
  BY DEF NoNewNumber, Goto, TypeInv, TypeOK

\* Nothing but these steps of a transaction touches events and payments.
BillingStep(p) == CreateEvent(p) \/ CreatePayments(p) \/ Commit(p)

QuietProceed(p) ==
    \/ ReuseEnvelope(p) \/ NoActiveEnvelope(p)
    \/ CreateEnvelope(p) \/ EnvelopeRefused(p) \/ InsertRows(p) \/ MarkSent(p)
    \/ SaveRows(p) \/ ResolveStatus(p) \/ ReadContract(p) \/ WriteContract(p)
    \/ FindCustomer(p) \/ LinkCustomer(p) \/ Abort(p)
    \/ SaveUpdate(p) \/ SaveCancel(p) \/ ListRows(p)
    \/ Revoke(p) \/ RevokeRefused(p) \/ MarkRow(p) \/ EndRevoke(p)
    \/ SavePoll(p) \/ InsertPayment(p)

LEMMA QuietProceedNumber ==
    ASSUME TypeInv, NEW p \in Workers, QuietProceed(p)
    PROVE  event' = event /\ payments' = payments /\ NoNewNumber
  <1>1. Idle.number = 0
    BY DEF Idle
  <1>2. worker[p] \in WorkerStates
    BY WorkerNow
  <1>3. event' = event /\ payments' = payments
    BY DEF QuietProceed, database, ReuseEnvelope, NoActiveEnvelope,
       CreateEnvelope, EnvelopeRefused, InsertRows, MarkSent, SaveRows,
       ResolveStatus, ReadContract, WriteContract, FindCustomer, LinkCustomer, Abort,
       SaveUpdate, SaveCancel, ListRows, Revoke, RevokeRefused, MarkRow, EndRevoke, SavePoll,
       InsertPayment
  <1>4. CASE \/ EnvelopeRefused(p) \/ MarkSent(p) \/ Abort(p) \/ EndRevoke(p)
             \/ SavePoll(p) \/ InsertPayment(p)
    BY <1>1, <1>3, <1>4, MoveWithoutNumber
    DEF EnvelopeRefused, MarkSent, Abort, EndRevoke, SavePoll, InsertPayment, Done
  <1>5. CASE ReuseEnvelope(p) \/ InsertRows(p)
    <2>1. AfterRequest(p).number \in {0, worker[p].number}
      BY <1>1, <1>2 DEF AfterRequest, WorkerStates
    <2>2. worker[p].pc \notin NumberedPCs /\ Goto(p, AfterRequest(p))
      BY <1>5 DEF ReuseEnvelope, InsertRows, At, NumberedPCs
    <2> QED
      BY <1>3, <2>1, <2>2, MoveWithoutNumber
  <1>6. CASE SaveRows(p) \/ SaveUpdate(p) \/ SaveCancel(p)
    <2>1. PICK pc \in PCs : Goto(p, Idle) \/ Goto(p, [Idle EXCEPT !.pc = pc, !.c = worker[p].c])
      BY <1>6 DEF SaveRows, SaveUpdate, SaveCancel, Done, PCs
    <2>2. [Idle EXCEPT !.pc = pc, !.c = worker[p].c].number = 0
      BY DEF Idle
    <2> QED
      BY <1>1, <1>3, <2>1, <2>2, MoveWithoutNumber
  <1>7. CASE \/ NoActiveEnvelope(p) \/ CreateEnvelope(p) \/ ResolveStatus(p)
             \/ ListRows(p) \/ Revoke(p) \/ RevokeRefused(p) \/ MarkRow(p)
             \/ ReadContract(p) \/ WriteContract(p)
             \/ FindCustomer(p) \/ LinkCustomer(p)
    <2>1. worker[p].pc \notin NumberedPCs
      BY <1>7 DEF At, NumberedPCs, NoActiveEnvelope, CreateEnvelope, ResolveStatus,
         ListRows, Revoke, RevokeRefused, MarkRow, ReadContract, WriteContract,
         FindCustomer, LinkCustomer
    <2>2. worker'[p].number = worker[p].number
          /\ \A q \in Workers : q # p => worker'[q] = worker[q]
      <3>1. CASE NoActiveEnvelope(p)
        BY <1>2, <3>1 DEF NoActiveEnvelope, Goto, TypeInv, TypeOK, WorkerStates
      <3>2. CASE CreateEnvelope(p)
        BY <1>2, <3>2 DEF CreateEnvelope, Goto, TypeInv, TypeOK, WorkerStates
      <3>3. CASE ResolveStatus(p)
        BY <1>2, <3>3 DEF ResolveStatus, Goto, TypeInv, TypeOK, WorkerStates
      <3>4. CASE ListRows(p)
        BY <1>2, <3>4 DEF ListRows, Goto, TypeInv, TypeOK, WorkerStates
      <3>5. CASE Revoke(p)
        BY <1>2, <3>5 DEF Revoke, Goto, TypeInv, TypeOK, WorkerStates
      <3>6. CASE RevokeRefused(p)
        BY <1>2, <3>6 DEF RevokeRefused, Goto, TypeInv, TypeOK, WorkerStates
      <3>7. CASE MarkRow(p)
        BY <1>2, <3>7 DEF MarkRow, Goto, TypeInv, TypeOK, WorkerStates
      <3>8. CASE ReadContract(p)
        BY <1>2, <3>8 DEF ReadContract, Goto, TypeInv, TypeOK, WorkerStates
      <3>9. CASE WriteContract(p)
        BY ZenonT(60), <1>2, <3>9 DEF WriteContract, Goto, TypeInv, TypeOK, WorkerStates
      <3>10. CASE FindCustomer(p)
        BY ZenonT(60), <1>2, <3>10 DEF FindCustomer, Goto, TypeInv, TypeOK, WorkerStates
      <3>11. CASE LinkCustomer(p)
        BY <1>2, <3>11 DEF LinkCustomer, Goto, TypeInv, TypeOK, WorkerStates
      <3> QED
        BY <1>7, <3>1, <3>2, <3>3, <3>4, <3>5, <3>6, <3>7, <3>8, <3>9, <3>10, <3>11
    <2> QED
      BY <1>3, <2>1, <2>2 DEF NoNewNumber
  <1> QED
    BY <1>3, <1>4, <1>5, <1>6, <1>7 DEF QuietProceed

\* A request that is taken up carries no number, and one that fails neither.
LEMMA QuietRequestNumber ==
    ASSUME TypeInv, NEW p \in Workers, Request(p) \/ Deliver(p) \/ Fail(p)
    PROVE  event' = event /\ payments' = payments /\ NoNewNumber
  <1>1. event' = event /\ payments' = payments
    BY DEF Request, Deliver, Fail, database, SendContract, RequestSignature,
       CloseContract, LookUpPayment, ReadForUpdate, CancelRequest, PollStatus,
       ReceiveWebhook, ReceiveCallback
  <1>2. /\ worker'[p].number = 0
        /\ \A q \in Workers : q # p => worker'[q] = worker[q]
    <2>1. CASE Fail(p)
      BY <2>1 DEF Fail, Done, Goto, Idle, TypeInv, TypeOK
    <2>2. ASSUME NEW c \in Contracts,
                 \/ SendContract(p, c) \/ RequestSignature(p, c)
                 \/ CloseContract(p, c) \/ LookUpPayment(p, c)
          PROVE  <1>2!1 /\ <1>2!2
      BY <2>2 DEF SendContract, RequestSignature, CloseContract, LookUpPayment, Begin,
         Goto, Idle, TypeInv, TypeOK
    <2>3. ASSUME NEW c \in Contracts, NEW status \in ContractStatus,
                 ReadForUpdate(p, c, status)
          PROVE  <1>2!1 /\ <1>2!2
      BY <2>3 DEF ReadForUpdate, Begin, Goto, Idle, TypeInv, TypeOK
    <2>4. ASSUME NEW e \in Envelopes, CancelRequest(p, e) \/ PollStatus(p, e)
          PROVE  <1>2!1 /\ <1>2!2
      BY <2>4 DEF CancelRequest, PollStatus, Begin, Goto, Idle, TypeInv, TypeOK
    <2>5. ASSUME NEW m \in sent, ReceiveWebhook(p, m) \/ ReceiveCallback(p, m)
          PROVE  <1>2!1 /\ <1>2!2
      BY <2>5 DEF ReceiveWebhook, ReceiveCallback, Begin, Goto, Idle, TypeInv, TypeOK
    <2> QED
      BY <2>1, <2>2, <2>3, <2>4, <2>5 DEF Request, Deliver
  <1> QED
    BY <1>1, <1>2 DEF NoNewNumber

\* Every step but those that bill a contract is quiet.
LEMMA QuietStep ==
    ASSUME TypeInv, [Next]_vars
    PROVE  \/ event' = event /\ payments' = payments /\ NoNewNumber
           \/ \E p \in Workers : BillingStep(p)
  <1>1. ASSUME NEW p \in Workers, Proceed(p), ~BillingStep(p)
        PROVE  QuietProceed(p)
    BY <1>1 DEF Proceed, QuietProceed, BillingStep
  <1>2. ASSUME Provider
        PROVE  event' = event /\ payments' = payments /\ NoNewNumber
    BY <1>2 DEF Provider, Sign, Reject, database, NoNewNumber
  <1>3. CASE UNCHANGED vars
    BY <1>3 DEF vars, NoNewNumber
  <1> QED
    BY <1>1, <1>2, <1>3, QuietProceedNumber, QuietRequestNumber DEF Next

-----------------------------------------------------------------------------
(* Payments *)

\* The payments of operators are only ever inserted, by this step.
LEMMA DirectStep ==
    ASSUME [Next]_vars
    PROVE  direct' = direct \/ \E p \in Workers : InsertPayment(p)
  <1>1. ASSUME NEW p \in Workers, Proceed(p), ~InsertPayment(p)
        PROVE  direct' = direct
    BY <1>1 DEF Proceed, database, ReuseEnvelope, NoActiveEnvelope, CreateEnvelope,
       EnvelopeRefused, InsertRows, MarkSent, SaveRows, ResolveStatus, ReadContract,
       WriteContract, FindCustomer, LinkCustomer, CreateEvent, CreatePayments, Commit,
       Abort, SaveUpdate, SaveCancel, ListRows, Revoke, RevokeRefused, MarkRow,
       EndRevoke, SavePoll
  <1>2. ASSUME NEW p \in Workers, Request(p) \/ Deliver(p) \/ Fail(p)
        PROVE  direct' = direct
    BY <1>2 DEF Request, Deliver, Fail, database, SendContract, RequestSignature,
       CloseContract, LookUpPayment, ReadForUpdate, CancelRequest, PollStatus,
       ReceiveWebhook, ReceiveCallback
  <1>3. Provider => direct' = direct
    BY DEF Provider, Sign, Reject, database
  <1>4. UNCHANGED vars => direct' = direct
    BY DEF vars
  <1> QED
    BY <1>1, <1>2, <1>3, <1>4 DEF Next

LEMMA PaymentCounts ==
    ASSUME TypeInv, NEW c \in Contracts
    PROVE  payments[c] \in Nat /\ direct[c] \in Nat /\ Payments(c) \in Nat
  BY DEF TypeInv, TypeOK, StoreOK, Payments

\* A contract keeps a payment if it keeps those of its activation.
LEMMA PaymentsGrow ==
    ASSUME TypeInv, [Next]_vars, NEW c \in Contracts, payments'[c] >= payments[c]
    PROVE  Payments(c) > 0 => Payments(c)' > 0
  <1>1. TypeInv'
    BY TypeStep
  <1>2. direct'[c] >= direct[c]
    <2>1. CASE direct' = direct
      BY <2>1, PaymentCounts
    <2>2. ASSUME NEW p \in Workers, InsertPayment(p)
          PROVE  direct'[c] >= direct[c]
      <3>1. /\ direct' = [direct EXCEPT ![worker[p].c] = direct[worker[p].c] + 1]
            /\ direct \in [Contracts -> Nat]
        BY <2>2 DEF InsertPayment, TypeInv, TypeOK, StoreOK
      <3> QED
        BY <3>1
    <2> QED
      BY <2>1, <2>2, DirectStep
  <1>3. /\ payments'[c] \in Nat /\ direct'[c] \in Nat
        /\ payments[c] \in Nat /\ direct[c] \in Nat
    BY <1>1, PaymentCounts DEF TypeInv, TypeOK, StoreOK
  <1> QED
    BY <1>2, <1>3 DEF Payments

\* Inductive: a transaction that is about to commit an event inserts a payment
\* with it, or has seen one.
PaymentInv ==
    /\ EventHasPayment
    /\ \A p \in Workers :
         /\ worker[p].pc \notin NumberedPCs => worker[p].number = 0
         /\ worker[p].pc = "commit" /\ worker[p].number # 0
              => worker[p].pay \/ Payments(worker[p].c) > 0

LEMMA PaymentInit == Init => PaymentInv
  BY DEF Init, PaymentInv, EventHasPayment, Idle, NumberedPCs

LEMMA PaymentCreateEvent ==
    ASSUME TypeInv, PaymentInv, NEW p \in Workers, CreateEvent(p)
    PROVE  PaymentInv'
  <1>1. event' = event /\ payments' = payments /\ direct' = direct
    BY DEF CreateEvent, database
  <1>2. worker[p] \in WorkerStates
    BY WorkerNow
  <1>3. /\ worker'[p].pc = "createPayments"
        /\ \A q \in Workers : q # p => worker'[q] = worker[q]
    BY <1>2 DEF CreateEvent, Goto, TypeInv, TypeOK, WorkerStates
  <1> QED
    BY <1>1, <1>3 DEF PaymentInv, EventHasPayment, NumberedPCs, Payments

LEMMA PaymentCreatePayments ==
    ASSUME TypeInv, PaymentInv, NEW p \in Workers, CreatePayments(p)
    PROVE  PaymentInv'
  <1>1. event' = event /\ payments' = payments /\ direct' = direct
    BY DEF CreatePayments, database
  <1>2. /\ worker[p] \in WorkerStates /\ worker[p].c \in Contracts
    BY TransactionNow DEF CreatePayments, At, TransactionPCs
  <1>3. /\ worker'[p].pc = "commit" /\ worker'[p].c = worker[p].c
        /\ worker'[p].pay = PaymentDue(worker[p])
        /\ \A q \in Workers : q # p => worker'[q] = worker[q]
    BY <1>2 DEF CreatePayments, Goto, TypeInv, TypeOK, WorkerStates
  <1>4. worker'[p].pay \/ Payments(worker[p].c) > 0
    <2>1. Payments(worker[p].c) \in Nat
      BY <1>2, PaymentCounts
    <2>2. CASE Payments(worker[p].c) = 0
      BY <1>3, <2>2, Zenon DEF PaymentDue
    <2> QED
      BY <2>1, <2>2
  <1> QED
    BY <1>1, <1>3, <1>4 DEF PaymentInv, EventHasPayment, NumberedPCs, Payments

LEMMA PaymentCommit ==
    ASSUME TypeInv, PaymentInv, NEW p \in Workers, Commit(p)
    PROVE  PaymentInv'
  <1> DEFINE w == worker[p]
  <1>1. w \in WorkerStates /\ w.c \in Contracts
    BY TransactionNow DEF Commit, At, TransactionPCs
  <1>2. /\ worker'[p].number = 0
        /\ \A q \in Workers : q # p => worker'[q] = worker[q]
    BY DEF Commit, Done, Goto, Idle, TypeInv, TypeOK
  <1>3. /\ payments'[w.c] = IF w.pay THEN payments[w.c] + 1 ELSE payments[w.c]
        /\ \A c \in Contracts : c # w.c => payments'[c] = payments[c]
        /\ payments \in [Contracts -> Nat] /\ direct \in [Contracts -> Nat]
        /\ direct' = direct
    BY <1>1 DEF Commit, TypeInv, TypeOK, StoreOK
  <1>4. \A c \in Contracts : Payments(c) > 0 => payments'[c] + direct'[c] > 0
    BY <1>1, <1>3 DEF Payments
  <1>5. /\ \A c \in Contracts : c # w.c => event'[c] = event[c]
        /\ event'[w.c].number # 0 => event[w.c].number # 0 \/ w.number # 0
    BY <1>1 DEF Commit, CommittedEvent, TypeInv, TypeOK, StoreOK
  <1>6. w.number # 0 => payments'[w.c] + direct'[w.c] > 0
    <2>1. w.number # 0 => w.pay \/ Payments(w.c) > 0
      BY DEF PaymentInv, Commit, At
    <2>2. w.pay => payments'[w.c] + direct'[w.c] > 0
      BY <1>1, <1>3
    <2>3. Payments(w.c) > 0 => payments'[w.c] + direct'[w.c] > 0
      BY <1>1, <1>4
    <2> QED
      BY <2>1, <2>2, <2>3
  <1>7. EventHasPayment'
    BY <1>1, <1>4, <1>5, <1>6 DEF EventHasPayment, PaymentInv, Payments
  <1>8. ASSUME NEW q \in Workers, worker'[q].number # 0
        PROVE  worker'[q] = worker[q] /\ worker[q].c \in Contracts
    <2>1. worker'[q] = worker[q] /\ worker[q].pc \in NumberedPCs
      BY <1>2, <1>8 DEF PaymentInv
    <2> QED
      BY <2>1, TransactionNow DEF TransactionPCs, NumberedPCs
  <1> QED
    BY <1>2, <1>4, <1>7, <1>8 DEF PaymentInv, Payments

LEMMA PaymentStep == TypeInv /\ PaymentInv /\ [Next]_vars => PaymentInv'
  <1> SUFFICES ASSUME TypeInv, PaymentInv, [Next]_vars PROVE PaymentInv'
    OBVIOUS
  <1>1. CASE event' = event /\ payments' = payments /\ NoNewNumber
    <2>1. \A c \in Contracts : Payments(c) > 0 => Payments(c)' > 0
      BY <1>1, PaymentsGrow, PaymentCounts
    <2>2. ASSUME NEW q \in Workers, worker[q].number # 0
          PROVE  worker[q].c \in Contracts
      BY <2>2, TransactionNow DEF PaymentInv, NumberedPCs, TransactionPCs
    <2> QED
      BY <1>1, <2>1, <2>2 DEF PaymentInv, EventHasPayment, NoNewNumber
  <1> QED
    BY <1>1, QuietStep, PaymentCreateEvent, PaymentCreatePayments, PaymentCommit
    DEF BillingStep

\* However activations, failures and manual updates interleave, no event is
\* ever found without a payment for its contract.
THEOREM EventsArePaid == Spec => []EventHasPayment
  <1>1. PaymentInv => EventHasPayment
    BY DEF PaymentInv
  <1> QED
    BY <1>1, TypeInit, TypeStep, PaymentInit, PaymentStep, PTL DEF Spec

-----------------------------------------------------------------------------
(* Event numbers *)

\* Inductive: the numbers in use are 1 up to the number of events, and a request
\* is about to insert at most the next one.
NumberInv ==
    /\ \A n \in 1 .. Cardinality(Events) :
         \E c \in Contracts : event[c].number = n
    /\ \A p \in Workers : worker[p].number <= Cardinality(Events) + 1

LEMMA EventsFinite == IsFiniteSet(Events) /\ Cardinality(Events) \in Nat
  BY FS_Subset, FS_CardinalityType, ConstantsAssumption DEF Events

LEMMA NumberInit == Init => NumberInv
  <1> SUFFICES ASSUME Init PROVE NumberInv
    OBVIOUS
  <1>1. Events = {}
    BY DEF Init, Events
  <1>2. Cardinality(Events) = 0
    BY <1>1, FS_EmptySet
  <1> QED
    BY <1>2 DEF Init, NumberInv, Idle

LEMMA NumberCreate ==
    ASSUME TypeInv, NumberInv, NEW p \in Workers, CreateEvent(p) \/ CreatePayments(p)
    PROVE  NumberInv' /\ event' = event
  <1>1. event' = event /\ Events' = Events
    BY DEF CreateEvent, CreatePayments, database, Events
  <1>2. worker[p] \in WorkerStates
    BY WorkerNow
  <1>3. /\ worker'[p].number \in {EventToInsert(worker[p]), worker[p].number}
        /\ \A q \in Workers : q # p => worker'[q] = worker[q]
    BY ZenonT(60), <1>2 DEF CreateEvent, CreatePayments, Goto, TypeInv, TypeOK, WorkerStates
  <1>4. EventToInsert(worker[p]) <= Cardinality(Events) + 1
    BY EventsFinite DEF EventToInsert
  <1> QED
    BY <1>1, <1>3, <1>4 DEF NumberInv

\* A commit either leaves the numbers as they are or gives the next number to
\* a contract that had none.
LEMMA CommittedNumber ==
    ASSUME TypeInv, NumberInv, NEW p \in Workers, Commit(p)
    PROVE  LET c == worker[p].c IN
           /\ c \in Contracts
           /\ \A d \in Contracts : d # c => event'[d] = event[d]
           /\ \/ event'[c].number = event[c].number
              \/ /\ event[c].number = 0
                 /\ event'[c].number = Cardinality(Events) + 1
  <1> DEFINE w == worker[p]
             c == w.c
  <1>1. w \in WorkerStates /\ c \in Contracts
    BY TransactionNow DEF Commit, At, TransactionPCs
  <1>2. \A d \in Contracts : d # c => event'[d] = event[d]
    BY <1>1 DEF Commit, TypeInv, TypeOK, StoreOK
  <1>3. event'[c] = CommittedEvent(w)
    BY <1>1 DEF Commit, TypeInv, TypeOK, StoreOK
  <1>4. CASE w.number = 0
    BY <1>1, <1>2, <1>3, <1>4 DEF CommittedEvent
  <1>5. CASE w.number # 0
    <2>1. event[c].number = 0 /\ \A d \in Contracts : event[d].number # w.number
      BY <1>5 DEF Commit, Conflict
    <2>2. w.number \in Nat /\ w.number <= Cardinality(Events) + 1
      BY <1>1, FS_CardinalityType, ConstantsAssumption DEF NumberInv, WorkerStates
    <2>3. w.number = Cardinality(Events) + 1
      BY <1>5, <2>1, <2>2, EventsFinite DEF NumberInv
    <2> QED
      BY <1>1, <1>2, <1>3, <1>5, <2>1, <2>3 DEF CommittedEvent
  <1> QED
    BY <1>4, <1>5

\* The events after a commit are counted.
LEMMA EventsAfter ==
    ASSUME NEW c \in Contracts, event[c].number = 0,
           event'[c].number = Cardinality(Events) + 1,
           \A d \in Contracts : d # c => event'[d] = event[d]
    PROVE  Cardinality(Events') = Cardinality(Events) + 1
  <1>1. Cardinality(Events) \in Nat /\ IsFiniteSet(Events)
    BY EventsFinite
  <1>2. Events' = Events \cup {c} /\ c \notin Events
    BY <1>1 DEF Events
  <1> QED
    BY <1>1, <1>2, FS_AddElement

LEMMA NumberCommit ==
    ASSUME TypeInv, NumberInv, NEW p \in Workers, Commit(p)
    PROVE  NumberInv'
  <1> DEFINE c == worker[p].c
  <1>1. /\ worker'[p].number = 0
        /\ \A q \in Workers : q # p => worker'[q] = worker[q]
    BY DEF Commit, Done, Goto, Idle, TypeInv, TypeOK
  <1>2. \A q \in Workers : worker[q].number \in Nat
    BY WorkerNow, FS_CardinalityType, ConstantsAssumption DEF WorkerStates
  <1>3. CASE event'[c].number = event[c].number
    <2>1. \A d \in Contracts : event'[d].number = event[d].number
      BY <1>3, CommittedNumber
    <2>2. Events' = Events
      BY <2>1 DEF Events
    <2> QED
      BY <1>1, <1>2, <2>1, <2>2, EventsFinite DEF NumberInv
  <1>4. CASE /\ event[c].number = 0
             /\ event'[c].number = Cardinality(Events) + 1
    <2>1. /\ c \in Contracts
          /\ \A d \in Contracts : d # c => event'[d] = event[d]
      BY CommittedNumber
    <2>2. Cardinality(Events') = Cardinality(Events) + 1
      BY <1>4, <2>1, EventsAfter
    <2>3. ASSUME NEW n \in 1 .. Cardinality(Events) + 1
          PROVE  \E d \in Contracts : event'[d].number = n
      <3>1. CASE n = Cardinality(Events) + 1
        BY <1>4, <2>1, <3>1
      <3>2. CASE n \in 1 .. Cardinality(Events)
        <4>1. PICK d \in Contracts : event[d].number = n
          BY <3>2 DEF NumberInv
        <4>2. d # c
          BY <1>4, <3>2, <4>1, EventsFinite
        <4> QED
          BY <2>1, <4>1, <4>2
      <3> QED
        BY <3>1, <3>2, EventsFinite
    <2>4. \A q \in Workers : worker'[q].number <= Cardinality(Events) + 1 + 1
      BY <1>1, <1>2, EventsFinite DEF NumberInv
    <2> QED
      BY <2>2, <2>3, <2>4 DEF NumberInv
  <1> QED
    BY <1>3, <1>4, CommittedNumber

LEMMA NumberStep == TypeInv /\ NumberInv /\ [Next]_vars => NumberInv'
  <1> SUFFICES ASSUME TypeInv, NumberInv, [Next]_vars PROVE NumberInv'
    OBVIOUS
  <1>1. CASE event' = event /\ NoNewNumber
    <2>1. Events' = Events
      BY <1>1 DEF Events
    <2>2. \A q \in Workers : worker'[q].number <= Cardinality(Events) + 1
      BY <1>1, EventsFinite DEF NumberInv, NoNewNumber
    <2> QED
      BY <1>1, <2>1, <2>2 DEF NumberInv
  <1> QED
    BY <1>1, QuietStep, NumberCreate, NumberCommit DEF BillingStep

\* A step issues the next number or none.
LEMMA RegisterStep ==
    TypeInv /\ NumberInv /\ [Next]_vars => [Register!Next]_Issued
  <1> SUFFICES ASSUME TypeInv, NumberInv, [Next]_vars
               PROVE  [Register!Next]_Issued
    OBVIOUS
  <1>1. CASE event' = event
    BY <1>1 DEF Issued
  <1>2. ASSUME NEW p \in Workers, Commit(p)
        PROVE  [Register!Next]_Issued
    <2> DEFINE c == worker[p].c
    <2>1. c \in Contracts /\ \A d \in Contracts : d # c => event'[d] = event[d]
      BY <1>2, CommittedNumber
    <2>2. CASE event'[c].number = event[c].number
      BY <2>1, <2>2 DEF Issued
    <2>3. CASE /\ event[c].number = 0
               /\ event'[c].number = Cardinality(Events) + 1
      <3>1. Register!Numbered = Events
        BY DEF Register!Numbered, Events, Issued
      <3>2. Issued[c] = 0
        BY <2>1, <2>3 DEF Issued
      <3>3. Issued' = [Issued EXCEPT ![c] = Cardinality(Events) + 1]
        BY <2>1, <2>3 DEF Issued
      <3>4. Register!Cardinality(Events) = Cardinality(Events)
        BY DEF Register!Cardinality, Cardinality
      <3>5. Register!Issue(c)
        BY <3>1, <3>2, <3>3, <3>4 DEF Register!Issue
      <3> QED
        BY <2>1, <3>5 DEF Register!Next
    <2> QED
      BY <1>2, <2>2, <2>3, CommittedNumber
  <1> QED
    BY <1>1, <1>2, QuietStep, NumberCreate DEF BillingStep

LEMMA RegisterInit == Init => Register!Init
  BY DEF Init, Register!Init, Issued

\* The numbering of events, with its count that nothing locks, implements the
\* register: no number is used twice, none is left out, and no contract gets
\* a second event or a new number.
THEOREM EventsNumbered == Spec => EventsNumberedInOrder
  <1> QED
    BY TypeInit, TypeStep, NumberInit, NumberStep, RegisterInit, RegisterStep,
       PTL
    DEF Spec, EventsNumberedInOrder, Register!Spec

-----------------------------------------------------------------------------
(* The steps that matter to the status and the links of a contract *)

\* The steps of an activation, those at which a transaction has written, and
\* those at which a request carries a link read from a contract.
ActivationPCs == {"activate", "linkCustomer", "createEvent", "createPayments"}
WrittenPCs == ActivationPCs \cup {"commit"}
CarryPCs == TransactionPCs \cup {"resolve", "saveUpdate"}

\* A step of no activation: it stores nothing in contracts, customers, events and
\* the payments of activations, and after it the request is not in a transaction
\* either: if it was in one, nothing of it is left.
Outside(p) ==
    /\ UNCHANGED <<contract, customers, event, payments>>
    /\ direct' = direct \/ InsertPayment(p)
    /\ worker'[p].pc = "insertPayment" => Payments(worker'[p].c) = 0
    /\ \A q \in Workers : q # p => worker'[q] = worker[q]
    /\ worker'[p].pc \notin CarryPCs
    /\ worker'[p].pc = "markSent" => worker'[p].st \notin ActiveStatuses
    /\ \/ ~worker'[p].wrote /\ ~worker'[p].pay /\ (lock' = lock \/ Release(p))
       \/ /\ lock' = lock /\ worker[p].pc \notin WrittenPCs
          /\ worker'[p].wrote = worker[p].wrote /\ worker'[p].pay = worker[p].pay

LEMMA GotoMove ==
    ASSUME TypeInv, NEW p \in Workers, NEW w, Goto(p, w)
    PROVE  worker'[p] = w /\ \A q \in Workers : q # p => worker'[q] = worker[q]
  BY DEF Goto, TypeInv, TypeOK

LEMMA IdleFields ==
    /\ Idle.pc = "idle" /\ ~Idle.wrote /\ ~Idle.pay
    /\ Idle.cust = None /\ Idle.link = None
  BY DEF Idle

LEMMA DoneOutside ==
    ASSUME TypeInv, NEW p \in Workers, Done(p),
           UNCHANGED <<contract, customers, event, payments>>,
           direct' = direct \/ InsertPayment(p),
           lock' = lock \/ Release(p)
    PROVE  Outside(p)
  BY IdleFields, GotoMove
  DEF Done, Outside, CarryPCs, TransactionPCs

LEMMA SendingOutside ==
    ASSUME TypeInv, NEW p \in Workers,
           \/ ReuseEnvelope(p) \/ NoActiveEnvelope(p) \/ CreateEnvelope(p)
           \/ EnvelopeRefused(p) \/ InsertRows(p)
    PROVE  Outside(p)
  <1>1. worker[p] \in WorkerStates /\ worker[p].pc \in {"check", "create", "insert"}
        /\ worker[p].pc \notin WrittenPCs
    BY WorkerNow DEF ReuseEnvelope, NoActiveEnvelope, CreateEnvelope, EnvelopeRefused,
       InsertRows, At, WrittenPCs, ActivationPCs
  <1>2. UNCHANGED <<contract, customers, event, payments, direct, lock>>
    BY DEF ReuseEnvelope, NoActiveEnvelope, CreateEnvelope, EnvelopeRefused,
       InsertRows, database
  <1>3. CASE EnvelopeRefused(p)
    BY <1>2, <1>3, DoneOutside DEF EnvelopeRefused
  <1>4. CASE ReuseEnvelope(p) \/ InsertRows(p)
    <2>1. Goto(p, AfterRequest(p))
      BY <1>4 DEF ReuseEnvelope, InsertRows
    <2>2. CASE worker[p].st = None
      BY <1>2, <2>1, <2>2, DoneOutside DEF AfterRequest, Done
    <2>3. CASE worker[p].st # None
      <3>1. worker[p].st = "PENDING_SIGNATURE"
        BY <1>1, <2>3, WorkerNow DEF WorkerFits, StatusFits
      <3>2. AfterRequest(p) = [worker[p] EXCEPT !.pc = "markSent", !.e = None]
        BY <2>3 DEF AfterRequest
      <3>3. /\ AfterRequest(p).pc = "markSent" /\ AfterRequest(p).st = worker[p].st
            /\ AfterRequest(p).wrote = worker[p].wrote
            /\ AfterRequest(p).pay = worker[p].pay
        BY <1>1, <3>2 DEF WorkerStates
      <3> QED
        BY <1>1, <1>2, <2>1, <3>1, <3>3, GotoMove
        DEF Outside, CarryPCs, TransactionPCs, ActiveStatuses
    <2> QED
      BY <2>2, <2>3
  <1>5. CASE NoActiveEnvelope(p) \/ CreateEnvelope(p)
    <2>1. \/ Goto(p, [worker[p] EXCEPT !.pc = "create"])
          \/ \E e \in Envelopes : Goto(p, [worker[p] EXCEPT !.pc = "insert", !.e = e])
      BY <1>5 DEF NoActiveEnvelope, CreateEnvelope
    <2>2. /\ worker'[p].pc \in {"create", "insert"}
          /\ worker'[p].wrote = worker[p].wrote /\ worker'[p].pay = worker[p].pay
          /\ \A q \in Workers : q # p => worker'[q] = worker[q]
      <3>1. CASE Goto(p, [worker[p] EXCEPT !.pc = "create"])
        BY <1>1, <3>1 DEF WorkerStates, Goto, TypeInv, TypeOK
      <3>2. ASSUME NEW e, Goto(p, [worker[p] EXCEPT !.pc = "insert", !.e = e])
            PROVE  /\ worker'[p].pc = "insert"
                   /\ worker'[p].wrote = worker[p].wrote
                   /\ worker'[p].pay = worker[p].pay
                   /\ \A q \in Workers : q # p => worker'[q] = worker[q]
        BY <1>1, <3>2 DEF WorkerStates, Goto, TypeInv, TypeOK
      <3> QED
        BY <2>1, <3>1, <3>2
    <2> QED
      BY <1>1, <1>2, <2>2 DEF Outside, CarryPCs, TransactionPCs
  <1> QED
    BY <1>3, <1>4, <1>5

LEMMA RevokingOutside ==
    ASSUME TypeInv, NEW p \in Workers,
           \/ ListRows(p) \/ Revoke(p) \/ RevokeRefused(p) \/ MarkRow(p)
           \/ EndRevoke(p) \/ SavePoll(p)
    PROVE  Outside(p)
  <1>1. worker[p] \in WorkerStates /\ worker[p].pc \notin WrittenPCs
    BY WorkerNow DEF ListRows, Revoke, RevokeRefused, MarkRow, EndRevoke, SavePoll,
       At, WrittenPCs, ActivationPCs
  <1>2. UNCHANGED <<contract, customers, event, payments, direct, lock>>
    BY DEF ListRows, Revoke, RevokeRefused, MarkRow, EndRevoke, SavePoll, database
  <1>3. CASE EndRevoke(p) \/ SavePoll(p)
    BY <1>2, <1>3, DoneOutside DEF EndRevoke, SavePoll
  <1>4. CASE ListRows(p) \/ Revoke(p) \/ RevokeRefused(p) \/ MarkRow(p)
    <2>1. /\ worker'[p].pc \in {"revoke", "markRow"}
          /\ worker'[p].wrote = worker[p].wrote /\ worker'[p].pay = worker[p].pay
          /\ \A q \in Workers : q # p => worker'[q] = worker[q]
      <3>1. CASE ListRows(p)
        BY <1>1, <3>1 DEF ListRows, WorkerStates, Goto, TypeInv, TypeOK
      <3>2. CASE Revoke(p)
        <4>1. PICK e : Goto(p, [worker[p] EXCEPT !.pc = "markRow", !.e = e,
                                                 !.envs = worker[p].envs \ {e}])
          BY <3>2 DEF Revoke
        <4> QED
          BY <1>1, <4>1 DEF WorkerStates, Goto, TypeInv, TypeOK
      <3>3. CASE RevokeRefused(p)
        BY <1>1, <3>3, GotoMove DEF RevokeRefused, WorkerStates, At
      <3>4. CASE MarkRow(p)
        BY <1>1, <3>4 DEF MarkRow, WorkerStates, Goto, TypeInv, TypeOK
      <3> QED
        BY <1>4, <3>1, <3>2, <3>3, <3>4
    <2> QED
      BY <1>1, <1>2, <2>1 DEF Outside, CarryPCs, TransactionPCs
  <1> QED
    BY <1>3, <1>4

LEMMA EndingOutside ==
    ASSUME TypeInv, NEW p \in Workers, Abort(p) \/ Fail(p)
    PROVE  Outside(p)
  BY DoneOutside DEF Abort, Fail, database

LEMMA PayingOutside ==
    ASSUME TypeInv, NEW p \in Workers,
           InsertPayment(p) \/ \E c \in Contracts : LookUpPayment(p, c)
    PROVE  Outside(p)
  <1>1. CASE InsertPayment(p)
    BY <1>1, DoneOutside DEF InsertPayment
  <1>2. ASSUME NEW c \in Contracts, LookUpPayment(p, c)
        PROVE  Outside(p)
    <2>1. UNCHANGED <<contract, customers, event, payments, direct, lock>>
      BY <1>2 DEF LookUpPayment, database
    <2>2. /\ worker'[p].pc = "insertPayment" /\ worker'[p].c = c
          /\ ~worker'[p].wrote /\ ~worker'[p].pay
          /\ \A q \in Workers : q # p => worker'[q] = worker[q]
      BY <1>2 DEF LookUpPayment, Begin, Idle, Goto, TypeInv, TypeOK
    <2>3. Payments(c) = 0
      BY <1>2 DEF LookUpPayment
    <2> QED
      BY <2>1, <2>2, <2>3 DEF Outside, CarryPCs, TransactionPCs
  <1> QED
    BY <1>1, <1>2

LEMMA RequestOutside ==
    ASSUME TypeInv, NEW p \in Workers,
           \/ \E c \in Contracts : SendContract(p, c) \/ RequestSignature(p, c)
           \/ \E e \in Envelopes : CancelRequest(p, e) \/ PollStatus(p, e)
           \/ Deliver(p)
    PROVE  Outside(p)
  <1>1. UNCHANGED <<contract, customers, event, payments, direct, lock>>
    BY DEF Deliver, SendContract, RequestSignature, CancelRequest, PollStatus,
       ReceiveWebhook, ReceiveCallback, database
  <1>2. /\ worker'[p].pc \in {"check", "revoke", "savePoll", "saveRows"}
        /\ ~worker'[p].wrote /\ ~worker'[p].pay
        /\ \A q \in Workers : q # p => worker'[q] = worker[q]
    <2>1. ASSUME NEW c \in Contracts, SendContract(p, c) \/ RequestSignature(p, c)
          PROVE  /\ worker'[p].pc \in {"check", "revoke", "savePoll", "saveRows"}
                 /\ ~worker'[p].wrote /\ ~worker'[p].pay
                 /\ \A q \in Workers : q # p => worker'[q] = worker[q]
      BY <2>1 DEF SendContract, RequestSignature, Begin, Idle, Goto, TypeInv, TypeOK
    <2>2. ASSUME NEW e \in Envelopes, CancelRequest(p, e) \/ PollStatus(p, e)
          PROVE  /\ worker'[p].pc \in {"check", "revoke", "savePoll", "saveRows"}
                 /\ ~worker'[p].wrote /\ ~worker'[p].pay
                 /\ \A q \in Workers : q # p => worker'[q] = worker[q]
      BY <2>2 DEF CancelRequest, PollStatus, Begin, Idle, Goto, TypeInv, TypeOK
    <2>3. ASSUME NEW m \in sent, ReceiveWebhook(p, m)
          PROVE  /\ worker'[p].pc \in {"check", "revoke", "savePoll", "saveRows"}
                 /\ ~worker'[p].wrote /\ ~worker'[p].pay
                 /\ \A q \in Workers : q # p => worker'[q] = worker[q]
      BY <2>3 DEF ReceiveWebhook, Begin, Idle, Goto, TypeInv, TypeOK
    <2>4. ASSUME NEW m \in sent, ReceiveCallback(p, m)
          PROVE  /\ worker'[p].pc \in {"check", "revoke", "savePoll", "saveRows"}
                 /\ ~worker'[p].wrote /\ ~worker'[p].pay
                 /\ \A q \in Workers : q # p => worker'[q] = worker[q]
      BY <2>4 DEF ReceiveCallback, Begin, Idle, Goto, TypeInv, TypeOK
    <2> QED
      BY <2>1, <2>2, <2>3, <2>4 DEF Deliver
  <1> QED
    BY <1>1, <1>2 DEF Outside, CarryPCs, TransactionPCs

\* A manual update, or a report, that is on its way to the contract.
StartStep(p) ==
    \/ SaveRows(p) \/ ResolveStatus(p)
    \/ \E c \in Contracts :
         \/ CloseContract(p, c)
         \/ \E status \in ContractStatus : ReadForUpdate(p, c, status)

\* A step of an activation that only decides what to write.
DecideStep(p) ==
    \/ ReadContract(p) \/ WriteContract(p) \/ FindCustomer(p) \/ LinkCustomer(p)
    \/ CreateEvent(p) \/ CreatePayments(p)

\* A step that writes the contract.
StoreStep(p) == Commit(p) \/ MarkSent(p) \/ SaveUpdate(p) \/ SaveCancel(p)

LEMMA StepKinds ==
    ASSUME TypeInv, [Next]_vars
    PROVE  \/ UNCHANGED <<contract, customers, event, payments, direct, lock, worker>>
           \/ \E p \in Workers :
                Outside(p) \/ StartStep(p) \/ DecideStep(p) \/ StoreStep(p)
  <1>1. ASSUME NEW p \in Workers, Proceed(p)
        PROVE  Outside(p) \/ StartStep(p) \/ DecideStep(p) \/ StoreStep(p)
    BY <1>1, SendingOutside, RevokingOutside, EndingOutside, PayingOutside
    DEF Proceed, StartStep, DecideStep, StoreStep
  <1>2. ASSUME NEW p \in Workers, Request(p) \/ Deliver(p) \/ Fail(p)
        PROVE  Outside(p) \/ StartStep(p)
    BY <1>2, RequestOutside, EndingOutside, PayingOutside DEF Request, StartStep
  <1>3. CASE Provider
    BY <1>3 DEF Provider, Sign, Reject, database
  <1>4. CASE UNCHANGED vars
    BY <1>4 DEF vars
  <1> QED
    BY <1>1, <1>2, <1>3, <1>4 DEF Next

\* What a request carries on from a step to the next one.
SameRequest(p) ==
    /\ worker'[p].c = worker[p].c /\ worker'[p].number = worker[p].number
    /\ worker'[p].pay = worker[p].pay

LEMMA StartMoves ==
    ASSUME TypeInv, NEW p \in Workers, StartStep(p)
    PROVE  /\ UNCHANGED <<contract, customers, event, payments, direct, lock>>
           /\ \A q \in Workers : q # p => worker'[q] = worker[q]
           /\ worker'[p].c \in Contracts
           /\ \/ /\ worker'[p].pc = "resolve"
                 /\ ~worker'[p].wrote /\ ~worker'[p].pay /\ worker'[p].cust = None
              \/ /\ worker[p].pc = "resolve" /\ worker'[p].pc = "read"
                 /\ SameRequest(p) /\ worker'[p].wrote = worker[p].wrote
                 /\ worker'[p].cust = worker[p].cust
                 /\ worker'[p].link = worker[p].link
              \/ /\ worker'[p].pc = "write"
                 /\ ~worker'[p].wrote /\ ~worker'[p].pay
                 /\ worker'[p].cust = contract[worker'[p].c].customer
              \/ /\ worker'[p].pc \in {"saveUpdate", "saveCancel"}
                 /\ ~worker'[p].wrote /\ ~worker'[p].pay /\ worker'[p].link = None
                 /\ worker'[p].cust = contract[worker'[p].c].customer
                 /\ worker'[p].st \in Requested \cup {contract[worker'[p].c].status}
  <1>1. UNCHANGED <<contract, customers, event, payments, direct, lock>>
    BY DEF StartStep, SaveRows, ResolveStatus, CloseContract, ReadForUpdate, database
  <1>2. CASE SaveRows(p)
    <2>1. worker[p].c \in Contracts
      BY <1>2, WorkerNow DEF SaveRows, At, WorkerFits, PCs, ContractPCs
    <2>2. Goto(p, [Idle EXCEPT !.pc = "resolve", !.c = worker[p].c])
      BY <1>2 DEF SaveRows
    <2> QED
      BY <1>1, <2>1, <2>2 DEF Idle, Goto, TypeInv, TypeOK
  <1>3. CASE ResolveStatus(p)
    <2>1. worker[p] \in WorkerStates /\ worker[p].c \in Contracts
      BY <1>3, TransactionNow DEF ResolveStatus, At
    <2> DEFINE st == ResolveContractStatus(StatusesOf(worker[p].c))
    <2>2. Goto(p, [worker[p] EXCEPT !.pc = "read", !.st = st]) /\ worker[p].pc = "resolve"
      BY <1>3 DEF ResolveStatus, At
    <2> HIDE DEF st
    <2> QED
      BY <1>1, <2>1, <2>2 DEF WorkerStates, SameRequest, Goto, TypeInv, TypeOK
  <1>4. ASSUME NEW c \in Contracts, CloseContract(p, c)
        PROVE  /\ \A q \in Workers : q # p => worker'[q] = worker[q]
               /\ worker'[p].c \in Contracts /\ worker'[p].pc = "write"
               /\ ~worker'[p].wrote /\ ~worker'[p].pay
               /\ worker'[p].cust = contract[worker'[p].c].customer
    BY <1>4 DEF CloseContract, Begin, Idle, Goto, TypeInv, TypeOK
  <1>5. ASSUME NEW c \in Contracts, NEW status \in ContractStatus,
               ReadForUpdate(p, c, status)
        PROVE  /\ \A q \in Workers : q # p => worker'[q] = worker[q]
               /\ worker'[p].c \in Contracts
               /\ worker'[p].pc \in {"saveUpdate", "saveCancel"}
               /\ ~worker'[p].wrote /\ ~worker'[p].pay /\ worker'[p].link = None
               /\ worker'[p].cust = contract[worker'[p].c].customer
               /\ worker'[p].st \in Requested \cup {contract[worker'[p].c].status}
    <2> DEFINE pc == IF status = "CANCELED" /\ status # contract[c].status
                     THEN "saveCancel" ELSE "saveUpdate"
    <2>1. /\ Goto(p, [Idle EXCEPT !.pc = pc, !.c = c, !.st = status,
                                  !.cust = contract[c].customer])
          /\ status \in Requested \cup {contract[c].status}
      BY <1>5 DEF ReadForUpdate, Begin
    <2>2. pc \in {"saveUpdate", "saveCancel"}
      OBVIOUS
    <2> HIDE DEF pc
    <2> QED
      BY <2>1, <2>2 DEF Idle, Goto, TypeInv, TypeOK
  <1> QED
    BY <1>1, <1>2, <1>3, <1>4, <1>5 DEF StartStep

\* A step that only decides leaves the tables alone.
LEMMA DecideQuiet ==
    ASSUME TypeInv, NEW p \in Workers, DecideStep(p)
    PROVE  /\ UNCHANGED <<contract, customers, event, payments, direct>>
           /\ \A q \in Workers : q # p => worker'[q] = worker[q]
           /\ worker[p] \in WorkerStates /\ worker[p].c \in Contracts
           /\ worker[p].st \in ContractStatus
           /\ worker[p].pc \in TransactionPCs
  <1>1. UNCHANGED <<contract, customers, event, payments, direct>>
    BY DEF DecideStep, ReadContract, WriteContract, FindCustomer, LinkCustomer,
       CreateEvent, CreatePayments, database
  <1>2. worker[p].pc \in TransactionPCs
    BY DEF DecideStep, ReadContract, WriteContract, FindCustomer, LinkCustomer,
       CreateEvent, CreatePayments, At, TransactionPCs
  <1>3. \E w : Goto(p, w)
    BY DEF DecideStep, ReadContract, WriteContract, FindCustomer, LinkCustomer,
       CreateEvent, CreatePayments
  <1> QED
    BY <1>1, <1>2, <1>3, GotoMove, TransactionNow DEF TransactionPCs

LEMMA ReadMove ==
    ASSUME TypeInv, NEW p \in Workers, ReadContract(p)
    PROVE  /\ SameRequest(p) /\ worker[p].pc = "read" /\ lock' = lock
           /\ worker'[p].st = worker[p].st /\ worker'[p].wrote = worker[p].wrote
           /\ worker'[p].link = worker[p].link
           /\ \/ /\ worker'[p].pc = AfterStatus(worker[p])
                 /\ contract[worker[p].c].status = worker[p].st
                 /\ worker'[p].cust = worker[p].cust
              \/ /\ worker'[p].pc = "write"
                 /\ worker'[p].cust = contract[worker[p].c].customer
  <1> DEFINE pc == AfterStatus(worker[p])
             cust == contract[worker[p].c].customer
  <1>1. worker[p] \in WorkerStates /\ worker[p].pc = "read" /\ lock' = lock
    BY WorkerNow DEF ReadContract, At
  <1>2. \/ /\ Goto(p, [worker[p] EXCEPT !.pc = pc])
           /\ contract[worker[p].c].status = worker[p].st
        \/ Goto(p, [worker[p] EXCEPT !.pc = "write", !.cust = cust])
    BY DEF ReadContract
  <1> HIDE DEF pc, cust
  <1>3. CASE /\ Goto(p, [worker[p] EXCEPT !.pc = pc])
             /\ contract[worker[p].c].status = worker[p].st
    BY <1>1, <1>3 DEF WorkerStates, SameRequest, pc, Goto, TypeInv, TypeOK
  <1>4. CASE Goto(p, [worker[p] EXCEPT !.pc = "write", !.cust = cust])
    BY <1>1, <1>4 DEF WorkerStates, SameRequest, cust, Goto, TypeInv, TypeOK
  <1> QED
    BY <1>2, <1>3, <1>4

LEMMA WriteMove ==
    ASSUME TypeInv, NEW p \in Workers, WriteContract(p)
    PROVE  /\ SameRequest(p) /\ worker[p].pc = "write"
           /\ worker'[p].pc = AfterStatus(worker[p])
           /\ worker'[p].st = worker[p].st /\ worker'[p].link = worker[p].link
           /\ worker'[p].cust \in {worker[p].cust, contract[worker[p].c].customer}
           /\ \/ /\ lock[worker[p].c] = None
                 /\ lock' = [lock EXCEPT ![worker[p].c] = p]
                 /\ worker'[p].wrote
              \/ /\ lock' = lock /\ worker'[p].wrote = worker[p].wrote
                 /\ contract[worker[p].c].status = worker[p].st
  <1> DEFINE pc == AfterStatus(worker[p])
  <1>1. worker[p] \in WorkerStates /\ worker[p].pc = "write"
    BY WorkerNow DEF WriteContract, At
  <1>2. \/ /\ lock[worker[p].c] = None
           /\ lock' = [lock EXCEPT ![worker[p].c] = p]
           /\ \E cust \in {worker[p].cust, contract[worker[p].c].customer} :
                Goto(p, [worker[p] EXCEPT !.pc = pc, !.wrote = TRUE, !.cust = cust])
        \/ /\ lock' = lock /\ contract[worker[p].c].status = worker[p].st
           /\ Goto(p, [worker[p] EXCEPT !.pc = pc])
    BY DEF WriteContract, Unlocked
  <1> HIDE DEF pc
  <1>3. ASSUME NEW cust \in {worker[p].cust, contract[worker[p].c].customer},
               Goto(p, [worker[p] EXCEPT !.pc = pc, !.wrote = TRUE, !.cust = cust])
        PROVE  /\ SameRequest(p) /\ worker'[p].pc = pc
               /\ worker'[p].st = worker[p].st /\ worker'[p].link = worker[p].link
               /\ worker'[p].cust = cust /\ worker'[p].wrote
    BY ZenonT(60), <1>1, <1>3 DEF WorkerStates, SameRequest, Goto, TypeInv, TypeOK
  <1>4. ASSUME Goto(p, [worker[p] EXCEPT !.pc = pc])
        PROVE  /\ SameRequest(p) /\ worker'[p].pc = pc
               /\ worker'[p].st = worker[p].st /\ worker'[p].link = worker[p].link
               /\ worker'[p].cust = worker[p].cust
               /\ worker'[p].wrote = worker[p].wrote
    BY <1>1, <1>4 DEF WorkerStates, SameRequest, Goto, TypeInv, TypeOK
  <1> QED
    BY <1>1, <1>2, <1>3, <1>4 DEF pc

LEMMA FindMove ==
    ASSUME TypeInv, NEW p \in Workers, FindCustomer(p)
    PROVE  /\ SameRequest(p) /\ worker[p].pc = "activate" /\ lock' = lock
           /\ worker'[p].wrote = worker[p].wrote
           /\ \/ /\ worker'[p].pc = "createEvent"
                 /\ CustomerToLink(worker[p]) = None
                 /\ worker'[p].st = worker[p].st /\ worker'[p].cust = worker[p].cust
                 /\ worker'[p].link = worker[p].link
              \/ /\ worker'[p].pc = "linkCustomer"
                 /\ CustomerToLink(worker[p]) # None
                 /\ worker'[p].st = SeenStatus(worker[p])
                 /\ worker'[p].link = CustomerToLink(worker[p])
                 /\ worker'[p].cust = CustomerToLink(worker[p])
  <1> DEFINE link == CustomerToLink(worker[p])
             st == SeenStatus(worker[p])
             fresh == link \notin customers
  <1>1. worker[p] \in WorkerStates /\ worker[p].pc = "activate" /\ lock' = lock
    BY WorkerNow DEF FindCustomer, At
  <1>2. \/ link = None /\ Goto(p, [worker[p] EXCEPT !.pc = "createEvent"])
        \/ link # None /\ Goto(p, [worker[p] EXCEPT !.pc = "linkCustomer", !.st = st,
                                        !.link = link, !.cust = link, !.fresh = fresh])
    BY DEF FindCustomer
  <1> HIDE DEF link, st, fresh
  <1>3. CASE link = None /\ Goto(p, [worker[p] EXCEPT !.pc = "createEvent"])
    BY <1>1, <1>3 DEF WorkerStates, SameRequest, link, Goto, TypeInv, TypeOK
  <1>4. ASSUME link # None, Goto(p, [worker[p] EXCEPT !.pc = "linkCustomer", !.st = st,
                                        !.link = link, !.cust = link, !.fresh = fresh])
        PROVE  /\ SameRequest(p) /\ worker'[p].wrote = worker[p].wrote
               /\ worker'[p].pc = "linkCustomer" /\ worker'[p].st = st
               /\ worker'[p].link = link /\ worker'[p].cust = link
    BY ZenonT(60), <1>1, <1>4 DEF WorkerStates, SameRequest, Goto, TypeInv, TypeOK
  <1> QED
    BY <1>1, <1>2, <1>3, <1>4 DEF link, st

LEMMA LinkMove ==
    ASSUME TypeInv, NEW p \in Workers, LinkCustomer(p)
    PROVE  /\ SameRequest(p) /\ worker[p].pc = "linkCustomer"
           /\ worker'[p].pc = "createEvent"
           /\ lock[worker[p].c] \in {None, p}
           /\ lock' = [lock EXCEPT ![worker[p].c] = p]
           /\ worker'[p].st = worker[p].st /\ worker'[p].cust = worker[p].cust
           /\ worker'[p].link = worker[p].link
           /\ worker[p].wrote => worker'[p].wrote
  <1>1. worker[p] \in WorkerStates
    BY WorkerNow
  <1>2. PICK wrote : Goto(p, [worker[p] EXCEPT !.pc = "createEvent",
                                               !.wrote = worker[p].wrote \/ wrote])
    BY DEF LinkCustomer
  <1> DEFINE both == worker[p].wrote \/ wrote
  <1>3. Goto(p, [worker[p] EXCEPT !.pc = "createEvent", !.wrote = both])
    BY <1>2
  <1>4. worker[p].wrote => both
    OBVIOUS
  <1> HIDE DEF both
  <1>5. /\ SameRequest(p) /\ worker'[p].pc = "createEvent" /\ worker'[p].wrote = both
        /\ worker'[p].st = worker[p].st /\ worker'[p].cust = worker[p].cust
        /\ worker'[p].link = worker[p].link
    BY ZenonT(60), <1>1, <1>3 DEF WorkerStates, SameRequest, Goto, TypeInv, TypeOK
  <1> QED
    BY ZenonT(60), <1>4, <1>5 DEF LinkCustomer, At

LEMMA CreateMove ==
    ASSUME TypeInv, NEW p \in Workers, CreateEvent(p)
    PROVE  /\ worker[p].pc = "createEvent" /\ worker'[p].pc = "createPayments"
           /\ lock' = lock
           /\ worker'[p].c = worker[p].c /\ worker'[p].st = worker[p].st
           /\ worker'[p].wrote = worker[p].wrote /\ worker'[p].pay = worker[p].pay
           /\ worker'[p].link = worker[p].link
           /\ worker'[p].number = EventToInsert(worker[p])
           /\ worker'[p].cust = SeenCustomer(worker[p])
  <1> DEFINE number == EventToInsert(worker[p])
             sync == event[worker[p].c].number # 0
             cust == SeenCustomer(worker[p])
  <1>1. worker[p] \in WorkerStates /\ worker[p].pc = "createEvent" /\ lock' = lock
    BY WorkerNow DEF CreateEvent, At
  <1>2. Goto(p, [worker[p] EXCEPT !.pc = "createPayments", !.number = number,
                                  !.sync = sync, !.cust = cust])
    BY DEF CreateEvent
  <1> HIDE DEF number, sync, cust
  <1>3. /\ worker'[p].pc = "createPayments"
        /\ worker'[p].c = worker[p].c /\ worker'[p].st = worker[p].st
        /\ worker'[p].wrote = worker[p].wrote /\ worker'[p].pay = worker[p].pay
        /\ worker'[p].link = worker[p].link
        /\ worker'[p].number = number /\ worker'[p].cust = cust
    BY ZenonT(60), <1>1, <1>2 DEF WorkerStates, Goto, TypeInv, TypeOK
  <1> QED
    BY <1>1, <1>3 DEF number, cust

LEMMA PayMove ==
    ASSUME TypeInv, NEW p \in Workers, CreatePayments(p)
    PROVE  /\ worker[p].pc = "createPayments" /\ worker'[p].pc = "commit"
           /\ lock' = lock
           /\ worker'[p].c = worker[p].c /\ worker'[p].st = worker[p].st
           /\ worker'[p].wrote = worker[p].wrote /\ worker'[p].cust = worker[p].cust
           /\ worker'[p].link = worker[p].link
           /\ worker'[p].number = worker[p].number
           /\ worker'[p].pay => Payments(worker[p].c) = 0 /\ payments[worker[p].c] = 0
  <1> DEFINE pay == PaymentDue(worker[p])
  <1>1. /\ worker[p] \in WorkerStates /\ worker[p].pc = "createPayments"
        /\ lock' = lock
    BY WorkerNow DEF CreatePayments, At
  <1>2. Goto(p, [worker[p] EXCEPT !.pc = "commit", !.pay = pay])
    BY DEF CreatePayments
  <1>3. pay => Payments(worker[p].c) = 0 /\ payments[worker[p].c] = 0
    <2>1. pay => Payments(worker[p].c) = 0
      BY Zenon DEF PaymentDue
    <2>2. worker[p].c \in Contracts
      BY <1>1, TransactionNow DEF TransactionPCs
    <2> HIDE DEF pay
    <2> QED
      BY <2>1, <2>2, PaymentCounts DEF Payments
  <1> HIDE DEF pay
  <1>4. /\ worker'[p].pc = "commit"
        /\ worker'[p].c = worker[p].c /\ worker'[p].st = worker[p].st
        /\ worker'[p].wrote = worker[p].wrote /\ worker'[p].cust = worker[p].cust
        /\ worker'[p].link = worker[p].link
        /\ worker'[p].number = worker[p].number /\ worker'[p].pay = pay
    BY ZenonT(60), <1>1, <1>2 DEF WorkerStates, Goto, TypeInv, TypeOK
  <1> QED
    BY ZenonT(60), <1>1, <1>3, <1>4

LEMMA CommitMove ==
    ASSUME TypeInv, NEW p \in Workers, Commit(p)
    PROVE  LET w == worker[p] IN
           /\ w \in WorkerStates /\ w.pc = "commit" /\ w.c \in Contracts
           /\ worker'[p] = Idle
           /\ \A q \in Workers : q # p => worker'[q] = worker[q]
           /\ Release(p) /\ direct' = direct
           /\ customers' = customers \cup ({w.link} \ {None})
           /\ \A c \in Contracts : c # w.c =>
                /\ contract'[c] = contract[c] /\ event'[c] = event[c]
                /\ payments'[c] = payments[c]
           /\ contract'[w.c] = CommittedContract(w)
           /\ event'[w.c] = CommittedEvent(w)
           /\ payments'[w.c] = IF w.pay THEN payments[w.c] + 1 ELSE payments[w.c]
  <1>1. worker[p] \in WorkerStates /\ worker[p].pc = "commit" /\ worker[p].c \in Contracts
    BY TransactionNow DEF Commit, At, TransactionPCs
  <1> DEFINE w == worker[p]
  <1>2. /\ contract' = [contract EXCEPT ![w.c] = CommittedContract(w)]
        /\ event' = [event EXCEPT ![w.c] = CommittedEvent(w)]
        /\ payments' = [payments EXCEPT ![w.c] =
                          IF w.pay THEN payments[w.c] + 1 ELSE payments[w.c]]
        /\ customers' = customers \cup ({w.link} \ {None})
        /\ Goto(p, Idle) /\ Release(p) /\ direct' = direct
    BY DEF Commit, Done
  <1>3. contract \in [Contracts -> [status : ContractStatus,
                                    customer : Documents \cup {None}]]
        /\ event \in [Contracts -> [number : 0 .. Cardinality(Contracts),
                                    customer : Documents \cup {None}]]
        /\ payments \in [Contracts -> Nat]
    BY DEF TypeInv, TypeOK, StoreOK
  <1>4. /\ worker'[p] = Idle
        /\ \A q \in Workers : q # p => worker'[q] = worker[q]
    BY <1>2, GotoMove
  <1> HIDE DEF w
  <1>5. /\ contract'[w.c] = CommittedContract(w) /\ event'[w.c] = CommittedEvent(w)
        /\ payments'[w.c] = IF w.pay THEN payments[w.c] + 1 ELSE payments[w.c]
        /\ \A c \in Contracts : c # w.c =>
             /\ contract'[c] = contract[c] /\ event'[c] = event[c]
             /\ payments'[c] = payments[c]
    BY <1>1, <1>2, <1>3 DEF w
  <1> QED
    BY <1>1, <1>2, <1>4, <1>5 DEF w

\* The other writes touch the contract alone, and wait for its lock.
PlainStore(p) == MarkSent(p) \/ SaveUpdate(p) \/ SaveCancel(p)

LEMMA PlainMove ==
    ASSUME TypeInv, NEW p \in Workers, PlainStore(p)
    PROVE  LET w == worker[p] IN
           /\ w \in WorkerStates /\ w.c \in Contracts
           /\ UNCHANGED <<customers, event, payments, direct, lock>>
           /\ \A q \in Workers : q # p => worker'[q] = worker[q]
           /\ worker'[p].pc \in {"idle", "listRows"}
           /\ ~worker'[p].wrote /\ ~worker'[p].pay
           /\ \A c \in Contracts : c # w.c => contract'[c] = contract[c]
           /\ \/ /\ w.pc = "markSent" /\ contract'[w.c].status = w.st
                 /\ contract'[w.c].customer = contract[w.c].customer
              \/ /\ w.pc = "saveUpdate" /\ contract'[w.c].status = w.st
                 /\ contract'[w.c].customer \in {w.cust, contract[w.c].customer}
                 /\ w.st \in ActiveStatuses => worker'[p].pc = "idle"
              \/ /\ contract'[w.c].status = "CANCELED"
                 /\ contract'[w.c].customer = contract[w.c].customer
  <1> DEFINE w == worker[p]
             listing == [Idle EXCEPT !.pc = "listRows", !.c = w.c]
  <1>1. w \in WorkerStates /\ w.c \in Contracts
    BY WorkerNow DEF PlainStore, MarkSent, SaveUpdate, SaveCancel, At, WorkerFits,
       PCs, ContractPCs
  <1>2. UNCHANGED <<customers, event, payments, direct, lock>>
    BY DEF PlainStore, MarkSent, SaveUpdate, SaveCancel
  <1>3. contract \in [Contracts -> [status : ContractStatus,
                                    customer : Documents \cup {None}]]
    BY DEF TypeInv, TypeOK, StoreOK
  <1>4. Goto(p, Idle) \/ Goto(p, listing)
    BY DEF PlainStore, MarkSent, SaveUpdate, SaveCancel, Done
  <1>5. listing.pc = "listRows" /\ ~listing.wrote /\ ~listing.pay
    BY DEF Idle
  <1>6. /\ worker'[p] \in {Idle, listing}
        /\ \A q \in Workers : q # p => worker'[q] = worker[q]
    <2> HIDE DEF listing
    <2> QED
      BY <1>4, GotoMove
  <1>7. worker'[p].pc \in {"idle", "listRows"} /\ ~worker'[p].wrote /\ ~worker'[p].pay
    <2> HIDE DEF listing
    <2> QED
      BY <1>5, <1>6, IdleFields
  <1>8. CASE MarkSent(p)
    <2>1. contract' = [contract EXCEPT ![w.c] = [contract[w.c] EXCEPT !.status = w.st]]
          /\ w.pc = "markSent"
      BY <1>8 DEF MarkSent, At
    <2> HIDE DEF w, listing
    <2>2. /\ contract'[w.c].status = w.st
          /\ contract'[w.c].customer = contract[w.c].customer
          /\ \A c \in Contracts : c # w.c => contract'[c] = contract[c]
      BY <1>1, <1>3, <2>1
    <2> QED
      BY <1>1, <1>2, <1>6, <1>7, <2>1, <2>2 DEF w
  <1>9. CASE SaveUpdate(p)
    <2>1. PICK cust \in {w.cust, contract[w.c].customer} :
            contract' = [contract EXCEPT ![w.c] = [status |-> w.st, customer |-> cust]]
      BY <1>9 DEF SaveUpdate
    <2>2. w.pc = "saveUpdate" /\ (w.st \in ActiveStatuses => Goto(p, Idle))
      BY <1>9 DEF SaveUpdate, At, ActiveStatuses, Done
    <2>3. w.st \in ActiveStatuses => worker'[p].pc = "idle"
      BY <2>2, GotoMove, IdleFields
    <2> HIDE DEF w, listing
    <2>4. /\ contract'[w.c].status = w.st
          /\ contract'[w.c].customer = cust
          /\ \A c \in Contracts : c # w.c => contract'[c] = contract[c]
      BY <1>1, <1>3, <2>1
    <2> QED
      BY <1>1, <1>2, <1>6, <1>7, <2>1, <2>2, <2>3, <2>4 DEF w
  <1>10. CASE SaveCancel(p)
    <2>1. contract' = [contract EXCEPT ![w.c] =
                         [contract[w.c] EXCEPT !.status = "CANCELED"]]
      BY <1>10 DEF SaveCancel
    <2> HIDE DEF w, listing
    <2>2. /\ contract'[w.c].status = "CANCELED"
          /\ contract'[w.c].customer = contract[w.c].customer
          /\ \A c \in Contracts : c # w.c => contract'[c] = contract[c]
      BY <1>1, <1>3, <2>1
    <2> QED
      BY <1>1, <1>2, <1>6, <1>7, <2>2 DEF w
  <1> QED
    BY <1>8, <1>9, <1>10 DEF PlainStore

\* What is stored in customers, events and payments stays there.
LEMMA StoresGrow ==
    ASSUME TypeInv, [Next]_vars
    PROVE  /\ customers \subseteq customers'
           /\ \A c \in Contracts :
                /\ event[c].number # 0 => event'[c].number # 0
                /\ payments[c] > 0 => payments'[c] > 0
  <1>1. ASSUME NEW p \in Workers, Commit(p)
        PROVE  /\ customers \subseteq customers'
               /\ \A c \in Contracts :
                    /\ event[c].number # 0 => event'[c].number # 0
                    /\ payments[c] > 0 => payments'[c] > 0
    <2> DEFINE w == worker[p]
    <2>1. event[w.c].number # 0 => CommittedEvent(w).number # 0
      <3>1. event[w.c] \in [number : 0 .. Cardinality(Contracts),
                            customer : Documents \cup {None}]
        BY <1>1, CommitMove DEF TypeInv, TypeOK, StoreOK
      <3> QED
        BY <3>1 DEF CommittedEvent
    <2>2. payments[w.c] \in Nat
      BY <1>1, CommitMove DEF TypeInv, TypeOK, StoreOK
    <2> QED
      BY <1>1, <2>1, <2>2, CommitMove
  <1>2. ASSUME NEW p \in Workers,
               Outside(p) \/ StartStep(p) \/ DecideStep(p) \/ PlainStore(p)
        PROVE  UNCHANGED <<customers, event, payments>>
    <2>1. CASE Outside(p)
      BY <2>1 DEF Outside
    <2>2. CASE StartStep(p)
      BY <2>2, StartMoves
    <2>3. CASE DecideStep(p)
      BY <2>3, DecideQuiet
    <2>4. CASE PlainStore(p)
      BY <2>4, PlainMove
    <2> QED
      BY <1>2, <2>1, <2>2, <2>3, <2>4
  <1>3. \/ UNCHANGED <<customers, event, payments>>
        \/ \E p \in Workers : Commit(p)
    BY <1>2, StepKinds DEF StoreStep, PlainStore
  <1> QED
    BY <1>1, <1>3

-----------------------------------------------------------------------------
(* Status and event *)

\* Inductive: whoever has given a contract an active status has an event for
\* it, and whoever has sent it for signature gives it none.
ScheduleForm(p) ==
    LET w == worker[p] IN
    /\ w.pc \in NumberedPCs /\ w.wrote /\ w.st \in ActiveStatuses
         => w.number # 0 \/ event[w.c].number # 0
    /\ w.pc = "markSent" => w.st \notin ActiveStatuses

ScheduleInv == \A p \in Workers : ScheduleForm(p)

LEMMA ScheduleInit == Init => ScheduleInv
  BY DEF Init, ScheduleInv, ScheduleForm, Idle, NumberedPCs

\* At the steps that carry an event the request is about a contract.
LEMMA NumberedContract ==
    ASSUME TypeInv, NEW p \in Workers, worker[p].pc \in NumberedPCs
    PROVE  worker[p].c \in Contracts
  BY TransactionNow DEF NumberedPCs, TransactionPCs

LEMMA ScheduleDecide ==
    ASSUME TypeInv, ScheduleInv, NEW p \in Workers, DecideStep(p)
    PROVE  ScheduleForm(p)'
  <1>1. CASE ReadContract(p) \/ WriteContract(p)
    <2>1. worker'[p].pc \in {AfterStatus(worker[p]), "write"}
          /\ worker'[p].st = worker[p].st
      BY <1>1, ReadMove, WriteMove
    <2>2. AfterStatus(worker[p]) = "commit" => worker[p].st \notin ActiveStatuses
          /\ AfterStatus(worker[p]) \in {"commit", "activate"}
      BY DEF AfterStatus
    <2> QED
      BY <2>1, <2>2 DEF AfterStatus, ScheduleForm, NumberedPCs
  <1>2. CASE FindCustomer(p) \/ LinkCustomer(p)
    BY <1>2, FindMove, LinkMove DEF ScheduleForm, NumberedPCs
  <1>3. CASE CreateEvent(p)
    <2>1. worker[p].wrote /\ worker[p].st \in ActiveStatuses
            => EventToInsert(worker[p]) # 0 \/ event[worker[p].c].number # 0
      BY EventsFinite DEF EventToInsert, SeenStatus
    <2> QED
      BY <1>3, <2>1, CreateMove, DecideQuiet DEF ScheduleForm, NumberedPCs
  <1>4. CASE CreatePayments(p)
    BY <1>4, PayMove, DecideQuiet DEF ScheduleForm, ScheduleInv, NumberedPCs
  <1> QED
    BY <1>1, <1>2, <1>3, <1>4 DEF DecideStep

LEMMA ScheduleStep == TypeInv /\ ScheduleInv /\ [Next]_vars => ScheduleInv'
  <1> SUFFICES ASSUME TypeInv, ScheduleInv, [Next]_vars PROVE ScheduleInv'
    OBVIOUS
  <1>1. ASSUME NEW q \in Workers, worker'[q] = worker[q]
        PROVE  ScheduleForm(q)'
    <2>1. worker[q].pc \in NumberedPCs => worker[q].c \in Contracts
      BY NumberedContract
    <2> QED
      BY <1>1, <2>1, StoresGrow DEF ScheduleInv, ScheduleForm
  <1>2. ASSUME NEW p \in Workers,
               Outside(p) \/ StartStep(p) \/ DecideStep(p) \/ StoreStep(p)
        PROVE  ScheduleInv'
    <2>1. \A q \in Workers : q # p => worker'[q] = worker[q]
      BY <1>2, StartMoves, DecideQuiet, CommitMove, PlainMove
      DEF Outside, StoreStep, PlainStore
    <2>2. CASE Outside(p)
      BY <1>1, <2>1, <2>2
      DEF Outside, ScheduleInv, ScheduleForm, NumberedPCs, CarryPCs, TransactionPCs
    <2>3. CASE StartStep(p)
      <3>1. worker'[p].pc \in {"resolve", "read", "write", "saveUpdate", "saveCancel"}
        BY <2>3, StartMoves
      <3> QED
        BY <1>1, <2>1, <3>1 DEF ScheduleInv, ScheduleForm, NumberedPCs
    <2>4. CASE DecideStep(p)
      BY <1>1, <2>1, <2>4, ScheduleDecide DEF ScheduleInv
    <2>5. CASE StoreStep(p)
      <3>1. worker'[p].pc \in {"idle", "listRows"}
        BY <2>5, CommitMove, PlainMove, IdleFields DEF StoreStep, PlainStore
      <3> QED
        BY <1>1, <2>1, <3>1 DEF ScheduleInv, ScheduleForm, NumberedPCs
    <2> QED
      BY <1>2, <2>2, <2>3, <2>4, <2>5
  <1> QED
    BY <1>1, <1>2, StepKinds DEF ScheduleInv

\* A contract that a transaction makes active has its event with the commit.
LEMMA CommitSchedules ==
    ASSUME TypeInv, ScheduleInv, NEW p \in Workers, Commit(p),
           NEW c \in Contracts, contract'[c].status \in ActiveStatuses,
           contract[c].status \notin ActiveStatuses
    PROVE  event'[c].number # 0
  <1> DEFINE w == worker[p]
  <1>1. /\ c = w.c /\ contract'[c] = CommittedContract(w)
        /\ event'[c] = CommittedEvent(w) /\ w.pc = "commit"
    BY CommitMove
  <1>2. w.wrote /\ w.st \in ActiveStatuses
    BY <1>1 DEF CommittedContract, SeenStatus
  <1>3. w.number # 0 \/ event[c].number # 0
    BY <1>1, <1>2 DEF ScheduleInv, ScheduleForm, NumberedPCs
  <1> QED
    BY <1>1, <1>3, StoresGrow DEF CommittedEvent, Next, Proceed

LEMMA ActivationStep ==
    ASSUME TypeInv, ScheduleInv, [Next]_vars, NEW c \in Contracts,
           contract[c].status \notin ActiveStatuses,
           contract'[c].status \in ActiveStatuses
    PROVE  \/ event'[c].number # 0
           \/ \E p \in Workers : At(p, "saveUpdate") /\ worker'[p].pc = "idle"
  <1>1. PICK p \in Workers : Outside(p) \/ StartStep(p) \/ DecideStep(p) \/ StoreStep(p)
    BY StepKinds
  <1>2. StoreStep(p)
    BY <1>1, StartMoves, DecideQuiet DEF Outside
  <1>3. CASE Commit(p)
    BY <1>3, CommitSchedules
  <1>4. CASE PlainStore(p)
    <2>1. worker[p].pc = "markSent" => worker[p].st \notin ActiveStatuses
      BY DEF ScheduleInv, ScheduleForm
    <2>2. "CANCELED" \notin ActiveStatuses
      BY DEF ActiveStatuses
    <2>3. worker[p].pc = "saveUpdate" /\ worker'[p].pc = "idle"
      BY <1>4, <2>1, <2>2, PlainMove
    <2> QED
      BY <2>3 DEF At
  <1> QED
    BY <1>2, <1>3, <1>4 DEF StoreStep, PlainStore

\* A contract is never found signed or closed without an event, unless an
\* operator has set that status by hand: whatever closes or signs it creates
\* the event in the same transaction.
THEOREM ActivatedWithEvent == Spec => ActivatedWithStatus
  <1>1. TypeInv /\ ScheduleInv /\ [Next]_vars
          => [\A c \in Contracts :
                contract[c].status \notin ActiveStatuses
                /\ contract'[c].status \in ActiveStatuses
                  => \/ event'[c].number # 0
                     \/ \E p \in Workers :
                          At(p, "saveUpdate") /\ worker'[p].pc = "idle"]_vars
    BY ActivationStep
  <1> QED
    BY <1>1, TypeInit, TypeStep, ScheduleInit, ScheduleStep, PTL
    DEF Spec, ActivatedWithStatus

-----------------------------------------------------------------------------
(* Payments of one contract *)

\* Of a request: what it has written it holds the lock of; it activates what
\* it has made active itself, or what has an event; it inserts a payment only
\* into what it holds; and it saves an active status only over one.
BillingForm(p) ==
    LET w == worker[p] IN
    /\ w.wrote => w.pc \in WrittenPCs /\ lock[w.c] = p
    /\ w.pc \in ActivationPCs => /\ w.st \in ActiveStatuses
                                 /\ w.wrote \/ event[w.c].number # 0
    /\ w.pay => w.pc = "commit" /\ w.wrote /\ payments[w.c] = 0
    /\ w.pc = "saveUpdate" /\ w.st \in ActiveStatuses => event[w.c].number # 0

ActiveHaveEvents ==
    \A c \in Contracts : contract[c].status \in ActiveStatuses => event[c].number # 0

BilledByActivation == \A c \in Contracts : payments[c] <= 1

\* Inductive, if nobody asks for an active status: an active contract has an
\* event, and activations have inserted one payment of it at most.
BillingInv ==
    /\ ActiveHaveEvents
    /\ BilledByActivation
    /\ \A p \in Workers : BillingForm(p)

LEMMA BillingInit == Init => BillingInv
  <1> SUFFICES ASSUME Init PROVE BillingInv
    OBVIOUS
  <1>1. ActiveHaveEvents
    BY DEF Init, ActiveHaveEvents, InitialStatuses, ActiveStatuses
  <1>2. BilledByActivation
    BY DEF Init, BilledByActivation
  <1>3. \A p \in Workers : BillingForm(p)
    BY IdleFields DEF Init, BillingForm, ActivationPCs
  <1> QED
    BY <1>1, <1>2, <1>3 DEF BillingInv

\* A request keeps the locks it has taken, whatever the others do.
LEMMA LocksKept ==
    ASSUME TypeInv, NEW p \in Workers, NEW q \in Workers, q # p, NEW c \in Contracts,
           Outside(p) \/ StartStep(p) \/ DecideStep(p) \/ StoreStep(p),
           lock[c] = q
    PROVE  lock'[c] = q
  <1>1. q # None /\ lock \in [Contracts -> Workers \cup {None}]
    BY NoneAssumption DEF TypeInv, TypeOK, StoreOK
  <1>2. CASE lock' = lock
    BY <1>2
  <1>3. CASE Release(p)
    BY <1>3 DEF Release
  <1>4. CASE WriteContract(p)
    BY <1>1, <1>4, WriteMove
  <1>5. CASE LinkCustomer(p)
    BY <1>1, <1>5, LinkMove
  <1>6. CASE PlainStore(p)
    BY <1>6, PlainMove
  <1>7. ReadContract(p) \/ FindCustomer(p) \/ CreateEvent(p) \/ CreatePayments(p)
          => lock' = lock
    BY ReadMove, FindMove, CreateMove, PayMove
  <1> QED
    BY <1>2, <1>3, <1>4, <1>5, <1>6, <1>7, StartMoves, CommitMove
    DEF Outside, DecideStep, StoreStep, PlainStore

\* A request in the middle of a transaction or of an update has a contract.
LEMMA CarryContract ==
    ASSUME TypeInv, NEW p \in Workers, worker[p].pc \in CarryPCs
    PROVE  worker[p].c \in Contracts
  BY TransactionNow DEF CarryPCs

LEMMA WrittenCarry == WrittenPCs \subseteq CarryPCs /\ ActivationPCs \subseteq CarryPCs
  BY DEF WrittenPCs, ActivationPCs, CarryPCs, TransactionPCs

\* What a step of another request leaves as it was.
LEMMA BillingOthers ==
    ASSUME TypeInv, BillingInv, [Next]_vars, NEW p \in Workers,
           Outside(p) \/ StartStep(p) \/ DecideStep(p) \/ StoreStep(p),
           NEW q \in Workers, q # p, worker'[q] = worker[q]
    PROVE  BillingForm(q)'
  <1> DEFINE v == worker[q]
  <1>1. BillingForm(q)
    BY DEF BillingInv
  <1>2. v.wrote => v.c \in Contracts /\ lock'[v.c] = q
    BY <1>1, CarryContract, WrittenCarry, LocksKept DEF BillingForm
  <1>3. v.pc \in ActivationPCs \cup {"saveUpdate"}
          => v.c \in Contracts /\ (event[v.c].number # 0 => event'[v.c].number # 0)
    BY CarryContract, WrittenCarry, StoresGrow DEF CarryPCs
  <1>4. v.pay => payments'[v.c] = 0
    <2> SUFFICES ASSUME v.pay PROVE payments'[v.c] = 0
      OBVIOUS
    <2>1. v.wrote /\ payments[v.c] = 0 /\ v.c \in Contracts /\ lock[v.c] = q
      BY <1>1, <1>2 DEF BillingForm
    <2>2. CASE Commit(p)
      <3>1. CASE worker[p].c = v.c
        <4>1. ~worker[p].pay
          BY <2>1, <3>1 DEF BillingInv, BillingForm
        <4> QED
          BY <2>1, <2>2, <3>1, <4>1, CommitMove
      <3>2. CASE worker[p].c # v.c
        BY <2>1, <2>2, <3>2, CommitMove
      <3> QED
        BY <3>1, <3>2
    <2>3. CASE ~Commit(p)
      <3>1. payments' = payments
        BY <2>3, StartMoves, DecideQuiet, PlainMove DEF Outside, StoreStep, PlainStore
      <3> QED
        BY <2>1, <3>1
    <2> QED
      BY <2>2, <2>3
  <1> QED
    BY <1>1, <1>2, <1>3, <1>4 DEF BillingForm

LEMMA AfterStatusGoes ==
    ASSUME NEW w
    PROVE  \/ AfterStatus(w) = "activate" /\ w.st \in ActiveStatuses
           \/ AfterStatus(w) = "commit" /\ w.st \notin ActiveStatuses
  BY DEF AfterStatus

\* A request outside a transaction has written nothing in it.
LEMMA NothingWritten ==
    ASSUME BillingInv, NEW p \in Workers, worker[p].pc \notin WrittenPCs
    PROVE  ~worker[p].wrote /\ ~worker[p].pay
  BY DEF BillingInv, BillingForm, WrittenPCs

LEMMA BillingOutside ==
    ASSUME TypeInv, BillingInv, NEW p \in Workers, Outside(p)
    PROVE  BillingForm(p)'
  <1>1. ~worker'[p].wrote /\ ~worker'[p].pay
    BY NothingWritten DEF Outside
  <1>2. worker'[p].pc \notin CarryPCs
    BY DEF Outside
  <1> QED
    BY <1>1, <1>2, WrittenCarry DEF BillingForm, CarryPCs

LEMMA BillingStart ==
    ASSUME TypeInv, BillingInv, Requested \cap ActiveStatuses = {},
           NEW p \in Workers, StartStep(p)
    PROVE  BillingForm(p)'
  <1>1. ~worker'[p].wrote /\ ~worker'[p].pay
    <2>1. worker[p].pc = "resolve" => ~worker[p].wrote /\ ~worker[p].pay
      BY NothingWritten DEF WrittenPCs, ActivationPCs
    <2> QED
      BY <2>1, StartMoves DEF SameRequest
  <1>2. worker'[p].pc \in {"resolve", "read", "write", "saveUpdate", "saveCancel"}
    BY StartMoves
  <1>3. worker'[p].pc = "saveUpdate" /\ worker'[p].st \in ActiveStatuses
          => event'[worker'[p].c].number # 0
    BY StartMoves DEF BillingInv, ActiveHaveEvents
  <1> QED
    BY <1>1, <1>2, <1>3 DEF BillingForm, ActivationPCs

\* What a transaction takes for active is so because it made it so, or has an
\* event.
LEMMA BillingDecide ==
    ASSUME TypeInv, PaymentInv, BillingInv, NEW p \in Workers, DecideStep(p)
    PROVE  BillingForm(p)'
  <1> DEFINE w == worker[p]
             v == worker'[p]
  <1>1. /\ event' = event /\ payments' = payments
        /\ w.c \in Contracts /\ lock \in [Contracts -> Workers \cup {None}]
        /\ BillingForm(p)
    BY DecideQuiet DEF BillingInv, TypeInv, TypeOK, StoreOK
  <1>2. contract[w.c].status = w.st /\ w.st \in ActiveStatuses
          => event[w.c].number # 0
    BY <1>1 DEF BillingInv, ActiveHaveEvents
  <1>3. CASE ReadContract(p)
    <2>1. ~w.wrote /\ ~w.pay
      BY <1>3, ReadMove, NothingWritten DEF WrittenPCs, ActivationPCs
    <2>2. ~v.wrote /\ ~v.pay /\ v.c = w.c /\ v.st = w.st
          /\ \/ v.pc = AfterStatus(w) /\ contract[w.c].status = w.st
             \/ v.pc = "write"
      BY <1>3, <2>1, ReadMove DEF SameRequest
    <2> QED
      BY <1>1, <1>2, <2>2, AfterStatusGoes DEF BillingForm, ActivationPCs
  <1>4. CASE WriteContract(p)
    <2>1. ~w.wrote /\ ~w.pay
      BY <1>4, WriteMove, NothingWritten DEF WrittenPCs, ActivationPCs
    <2>2. /\ ~v.pay /\ v.c = w.c /\ v.st = w.st /\ v.pc = AfterStatus(w)
          /\ \/ v.wrote /\ lock'[w.c] = p
             \/ ~v.wrote /\ contract[w.c].status = w.st
      BY <1>1, <1>4, <2>1, WriteMove DEF SameRequest
    <2> QED
      BY <1>1, <1>2, <2>2, AfterStatusGoes DEF BillingForm, ActivationPCs, WrittenPCs
  <1>5. CASE FindCustomer(p)
    <2>1. w.pc \in ActivationPCs /\ ~w.pay
      BY <1>1, <1>5, FindMove DEF ActivationPCs, BillingForm
    <2>2. CustomerToLink(w) # None => SeenStatus(w) \in ActiveStatuses
      BY DEF CustomerToLink
    <2>3. /\ v.pc \in {"createEvent", "linkCustomer"} /\ v.st \in ActiveStatuses
          /\ v.wrote = w.wrote /\ v.pay = w.pay /\ v.c = w.c /\ lock' = lock
      BY <1>1, <1>5, <2>1, <2>2, FindMove DEF BillingForm, SameRequest
    <2> QED
      BY <1>1, <2>1, <2>3 DEF BillingForm, ActivationPCs, WrittenPCs
  <1>6. CASE LinkCustomer(p)
    <2>1. w.pc \in ActivationPCs /\ ~w.pay
      BY <1>1, <1>6, LinkMove DEF ActivationPCs, BillingForm
    <2>2. /\ v.pc = "createEvent" /\ v.st = w.st /\ v.c = w.c /\ v.pay = w.pay
          /\ lock'[w.c] = p /\ (w.wrote => v.wrote)
      BY <1>1, <1>6, LinkMove DEF SameRequest
    <2> QED
      BY <1>1, <2>1, <2>2 DEF BillingForm, ActivationPCs, WrittenPCs
  <1>7. CASE CreateEvent(p)
    <2>1. w.pc \in ActivationPCs /\ ~w.pay
      BY <1>1, <1>7, CreateMove DEF ActivationPCs, BillingForm
    <2>2. /\ v.pc = "createPayments" /\ v.st = w.st /\ v.c = w.c
          /\ v.wrote = w.wrote /\ v.pay = w.pay /\ lock' = lock
      BY <1>7, CreateMove
    <2> QED
      BY <1>1, <2>1, <2>2 DEF BillingForm, ActivationPCs, WrittenPCs
  <1>8. CASE CreatePayments(p)
    <2>1. w.pc \in ActivationPCs
      BY <1>8, PayMove DEF ActivationPCs
    <2>2. /\ v.pc = "commit" /\ v.st = w.st /\ v.c = w.c
          /\ v.wrote = w.wrote /\ lock' = lock
          /\ v.pay => payments[w.c] = 0 /\ Payments(w.c) = 0
      BY <1>8, PayMove
    <2>3. v.pay => w.wrote
      BY <1>1, <2>1, <2>2 DEF BillingForm, PaymentInv, EventHasPayment
    <2> QED
      BY <1>1, <2>1, <2>2, <2>3 DEF BillingForm, ActivationPCs, WrittenPCs
  <1> QED
    BY <1>3, <1>4, <1>5, <1>6, <1>7, <1>8 DEF DecideStep

LEMMA BillingStore ==
    ASSUME TypeInv, ScheduleInv, BillingInv, [Next]_vars,
           NEW p \in Workers, StoreStep(p)
    PROVE  ActiveHaveEvents' /\ BilledByActivation' /\ BillingForm(p)'
  <1> DEFINE w == worker[p]
  <1>1. BillingForm(p) /\ payments \in [Contracts -> Nat]
    BY DEF BillingInv, TypeInv, TypeOK, StoreOK
  <1>2. CASE Commit(p)
    <2>1. BilledByActivation'
      <3>1. w.pay => payments[w.c] = 0
        BY <1>1 DEF BillingForm
      <3>2. payments'[w.c] <= 1
        BY <1>1, <1>2, <3>1, CommitMove DEF BillingInv, BilledByActivation
      <3> QED
        BY <1>2, <3>2, CommitMove DEF BillingInv, BilledByActivation
    <2>2. ActiveHaveEvents'
      BY <1>2, CommitSchedules, StoresGrow DEF BillingInv, ActiveHaveEvents
    <2>3. BillingForm(p)'
      BY <1>2, CommitMove, IdleFields DEF BillingForm, ActivationPCs
    <2> QED
      BY <2>1, <2>2, <2>3
  <1>3. CASE PlainStore(p)
    <2>1. BilledByActivation'
      BY <1>3, PlainMove DEF BillingInv, BilledByActivation
    <2>2. contract'[w.c].status \in ActiveStatuses => event[w.c].number # 0
      <3>1. w.pc = "markSent" => w.st \notin ActiveStatuses
        BY DEF ScheduleInv, ScheduleForm
      <3>2. "CANCELED" \notin ActiveStatuses
        BY DEF ActiveStatuses
      <3> QED
        BY <1>1, <1>3, <3>1, <3>2, PlainMove DEF BillingForm
    <2>3. ActiveHaveEvents'
      BY <1>3, <2>2, PlainMove DEF BillingInv, ActiveHaveEvents
    <2>4. BillingForm(p)'
      BY <1>3, PlainMove DEF BillingForm, ActivationPCs
    <2> QED
      BY <2>1, <2>3, <2>4
  <1> QED
    BY <1>2, <1>3 DEF StoreStep, PlainStore

LEMMA BillingInvStep ==
    ASSUME Requested \cap ActiveStatuses = {}
    PROVE  TypeInv /\ PaymentInv /\ ScheduleInv /\ BillingInv /\ [Next]_vars
             => BillingInv'
  <1> SUFFICES ASSUME TypeInv, PaymentInv, ScheduleInv, BillingInv, [Next]_vars
               PROVE  BillingInv'
    OBVIOUS
  <1>1. CASE UNCHANGED <<contract, customers, event, payments, direct, lock, worker>>
    BY <1>1 DEF BillingInv, ActiveHaveEvents, BilledByActivation, BillingForm
  <1>2. ASSUME NEW p \in Workers,
               Outside(p) \/ StartStep(p) \/ DecideStep(p) \/ StoreStep(p)
        PROVE  BillingInv'
    <2>1. \A q \in Workers : q # p => worker'[q] = worker[q]
      BY <1>2, StartMoves, DecideQuiet, CommitMove, PlainMove
      DEF Outside, StoreStep, PlainStore
    <2>2. \A q \in Workers : q # p => BillingForm(q)'
      BY <1>2, <2>1, BillingOthers
    <2>3. CASE StoreStep(p)
      BY <2>2, <2>3, BillingStore DEF BillingInv
    <2>4. CASE Outside(p) \/ StartStep(p) \/ DecideStep(p)
      <3>1. UNCHANGED <<contract, event, payments>>
        BY <2>4, StartMoves, DecideQuiet DEF Outside
      <3>2. ActiveHaveEvents' /\ BilledByActivation'
        BY <3>1 DEF BillingInv, ActiveHaveEvents, BilledByActivation
      <3>3. BillingForm(p)'
        BY <2>4, BillingOutside, BillingStart, BillingDecide
      <3> QED
        BY <2>2, <3>2, <3>3 DEF BillingInv
    <2> QED
      BY <1>2, <2>3, <2>4
  <1> QED
    BY <1>1, <1>2, StepKinds

\* The requests that are about to insert a payment of a contract.
Pays(w, c) == w.c = c /\ (w.pc = "insertPayment" \/ w.pay)
Payers(c) == {p \in Workers : Pays(worker[p], c)}

\* Inductive: a payment is only intended where there is none, so all that are
\* ever inserted were intended at once, by a request each.
CountInv ==
    /\ \A p \in Workers : worker[p].pay => worker[p].pc = "commit"
    /\ \A c \in Contracts :
         Payments(c) + Cardinality(Payers(c)) <= Cardinality(Workers)

LEMMA PayersFinite ==
    ASSUME NEW S \in SUBSET Workers
    PROVE  /\ IsFiniteSet(S)
           /\ Cardinality(S) \in Nat /\ Cardinality(Workers) \in Nat
           /\ Cardinality(S) <= Cardinality(Workers)
  BY FS_Subset, FS_CardinalityType, ConstantsAssumption

LEMMA CountInit == Init => CountInv
  <1> SUFFICES ASSUME Init PROVE CountInv
    OBVIOUS
  <1>1. \A p \in Workers : worker[p].pc = "idle" /\ ~worker[p].pay
    BY IdleFields DEF Init
  <1>2. ASSUME NEW c \in Contracts
        PROVE  Payments(c) + Cardinality(Payers(c)) <= Cardinality(Workers)
    <2>1. Payers(c) = {}
      BY <1>1 DEF Payers, Pays
    <2>2. Payments(c) = 0
      BY DEF Init, Payments
    <2>3. Cardinality(Payers(c)) = 0
      BY <2>1, FS_EmptySet
    <2>4. Cardinality(Workers) \in Nat
      BY FS_CardinalityType, ConstantsAssumption
    <2> QED
      BY <2>2, <2>3, <2>4
  <1> QED
    BY <1>1, <1>2 DEF CountInv

\* Whoever comes to intend a payment has seen none.
LEMMA FreshPayer ==
    ASSUME TypeInv, CountInv, NEW p \in Workers,
           Outside(p) \/ StartStep(p) \/ DecideStep(p) \/ StoreStep(p)
    PROVE  /\ worker'[p].pay => worker'[p].pc = "commit"
           /\ \A c \in Contracts :
                Pays(worker'[p], c) => Payments(c) = 0
  <1> DEFINE w == worker[p]
             v == worker'[p]
  <1>1. w.pay => w.pc = "commit"
    BY DEF CountInv
  <1>2. CASE Outside(p)
    <2>1. ~v.pay
      BY <1>1, <1>2 DEF Outside, WrittenPCs
    <2>2. v.pc = "insertPayment" => Payments(v.c) = 0
      BY <1>2 DEF Outside
    <2> QED
      BY <2>1, <2>2 DEF Pays
  <1>3. CASE StartStep(p)
    <2>1. ~v.pay
      BY <1>1, <1>3, StartMoves DEF SameRequest
    <2>2. v.pc # "insertPayment"
      BY <1>3, StartMoves
    <2> QED
      BY <2>1, <2>2 DEF Pays
  <1>4. CASE CreatePayments(p)
    <2>1. v.pc = "commit" /\ v.c = w.c /\ (v.pay => Payments(w.c) = 0)
      BY <1>4, PayMove
    <2> QED
      BY <2>1 DEF Pays
  <1>5. CASE \/ ReadContract(p) \/ WriteContract(p) \/ FindCustomer(p)
             \/ LinkCustomer(p) \/ CreateEvent(p)
    <2>1. AfterStatus(w) \in {"activate", "commit"}
      BY DEF AfterStatus
    <2>2. /\ w.pc # "commit" /\ v.pay = w.pay
          /\ v.pc \in {"write", "activate", "commit", "linkCustomer", "createEvent",
                       "createPayments"}
      BY <1>5, <2>1, ReadMove, WriteMove, FindMove, LinkMove, CreateMove
      DEF SameRequest
    <2> QED
      BY <1>1, <2>2 DEF Pays
  <1>6. CASE StoreStep(p)
    <2>1. ~v.pay /\ v.pc \in {"idle", "listRows"}
      BY <1>6, CommitMove, PlainMove, IdleFields DEF StoreStep, PlainStore
    <2> QED
      BY <2>1 DEF Pays
  <1> QED
    BY <1>2, <1>3, <1>4, <1>5, <1>6 DEF DecideStep

\* One payer inserts its payment and is none any more ...
LEMMA CountPaid ==
    ASSUME TypeInv, CountInv, NEW c \in Contracts, NEW p \in Workers,
           Pays(worker[p], c), ~Pays(worker'[p], c),
           \A q \in Workers : q # p => worker'[q] = worker[q],
           Payments(c)' = Payments(c) + 1
    PROVE  Payments(c)' + Cardinality(Payers(c)') <= Cardinality(Workers)
  <1>1. p \in Payers(c) /\ Payers(c)' = Payers(c) \ {p}
    BY DEF Payers
  <1>2. IsFiniteSet(Payers(c)) /\ Cardinality(Payers(c)) \in Nat
        /\ Cardinality(Workers) \in Nat
    BY PayersFinite DEF Payers
  <1>3. Cardinality(Payers(c)') = Cardinality(Payers(c)) - 1
    BY <1>1, <1>2, FS_RemoveElement
  <1>4. Payments(c) + Cardinality(Payers(c)) <= Cardinality(Workers)
    BY DEF CountInv
  <1> QED
    BY <1>2, <1>3, <1>4, PaymentCounts

\* ... and otherwise there are new payers only where nothing was paid.
LEMMA CountKept ==
    ASSUME TypeInv, CountInv, NEW c \in Contracts, NEW p \in Workers,
           Pays(worker'[p], c) => Payments(c) = 0,
           \A q \in Workers : q # p => worker'[q] = worker[q],
           Payments(c)' = Payments(c)
    PROVE  Payments(c)' + Cardinality(Payers(c)') <= Cardinality(Workers)
  <1>1. /\ IsFiniteSet(Payers(c)) /\ Cardinality(Payers(c)) \in Nat
        /\ Cardinality(Workers) \in Nat
    BY PayersFinite DEF Payers
  <1>2. /\ Cardinality(Payers(c)') \in Nat
        /\ Cardinality(Payers(c)') <= Cardinality(Workers)
    BY PayersFinite DEF Payers
  <1>3. CASE Payments(c) = 0
    BY <1>2, <1>3
  <1>4. CASE Payments(c) # 0
    <2>1. Payers(c)' \subseteq Payers(c)
      BY <1>4 DEF Payers
    <2>2. Cardinality(Payers(c)') <= Cardinality(Payers(c))
      BY <1>1, <2>1, FS_Subset
    <2>3. Payments(c) + Cardinality(Payers(c)) <= Cardinality(Workers)
      BY DEF CountInv
    <2> QED
      BY <1>1, <1>2, <2>2, <2>3, PaymentCounts
  <1> QED
    BY <1>3, <1>4

LEMMA CountStep == TypeInv /\ CountInv /\ [Next]_vars => CountInv'
  <1> SUFFICES ASSUME TypeInv, CountInv, [Next]_vars PROVE CountInv'
    OBVIOUS
  <1>1. CASE UNCHANGED <<contract, customers, event, payments, direct, lock, worker>>
    BY <1>1 DEF CountInv, Payments, Payers
  <1>2. ASSUME NEW p \in Workers,
               Outside(p) \/ StartStep(p) \/ DecideStep(p) \/ StoreStep(p)
        PROVE  CountInv'
    <2> DEFINE w == worker[p]
    <2>1. \A q \in Workers : q # p => worker'[q] = worker[q]
      BY <1>2, StartMoves, DecideQuiet, CommitMove, PlainMove
      DEF Outside, StoreStep, PlainStore
    <2>2. ASSUME NEW c \in Contracts
          PROVE  (Payments(c) + Cardinality(Payers(c)) <= Cardinality(Workers))'
      <3>1. CASE InsertPayment(p)
        <4>1. /\ w.pc = "insertPayment" /\ w.c \in Contracts /\ payments' = payments
              /\ direct' = [direct EXCEPT ![w.c] = direct[w.c] + 1]
              /\ worker'[p] = Idle
          BY <3>1, WorkerNow, GotoMove
          DEF InsertPayment, At, Done, WorkerFits, PCs, ContractPCs
        <4>2. direct \in [Contracts -> Nat]
          BY DEF TypeInv, TypeOK, StoreOK
        <4>3. ~Pays(worker'[p], c)
          BY <4>1, IdleFields DEF Pays
        <4>4. CASE w.c = c
          <5>1. Payments(c)' = Payments(c) + 1
            BY <4>1, <4>2, <4>4, PaymentCounts DEF Payments
          <5> QED
            BY <2>1, <4>1, <4>3, <4>4, <5>1, CountPaid DEF Pays
        <4>5. CASE w.c # c
          <5>1. Payments(c)' = Payments(c)
            BY <4>1, <4>2, <4>5 DEF Payments
          <5> QED
            BY <2>1, <4>3, <5>1, CountKept
        <4> QED
          BY <4>4, <4>5
      <3>2. CASE Commit(p)
        <4>1. /\ w.c \in Contracts /\ direct' = direct /\ worker'[p] = Idle
              /\ c # w.c => payments'[c] = payments[c]
              /\ payments'[w.c] = IF w.pay THEN payments[w.c] + 1 ELSE payments[w.c]
          BY <3>2, CommitMove
        <4>2. ~Pays(worker'[p], c)
          BY <4>1, IdleFields DEF Pays
        <4>3. CASE w.c = c /\ w.pay
          <5>1. Payments(c)' = Payments(c) + 1
            BY <4>1, <4>3, PaymentCounts DEF Payments
          <5> QED
            BY <2>1, <4>2, <4>3, <5>1, CountPaid DEF Pays
        <4>4. CASE ~(w.c = c /\ w.pay)
          <5>1. Payments(c)' = Payments(c)
            BY <4>1, <4>4 DEF Payments
          <5> QED
            BY <2>1, <4>2, <5>1, CountKept
        <4> QED
          BY <4>3, <4>4
      <3>3. CASE ~InsertPayment(p) /\ ~Commit(p)
        <4>1. payments' = payments /\ direct' = direct
          BY <1>2, <3>3, StartMoves, DecideQuiet, PlainMove
          DEF Outside, StoreStep, PlainStore
        <4>2. Payments(c)' = Payments(c)
          BY <4>1 DEF Payments
        <4>3. Pays(worker'[p], c) => Payments(c) = 0
          BY <1>2, FreshPayer
        <4> QED
          BY <2>1, <4>2, <4>3, CountKept
      <3> QED
        BY <3>1, <3>2, <3>3
    <2>3. \A q \in Workers : worker'[q].pay => worker'[q].pc = "commit"
      BY <1>2, <2>1, FreshPayer DEF CountInv
    <2> QED
      BY <2>2, <2>3 DEF CountInv
  <1> QED
    BY <1>1, <1>2, StepKinds

\* As long as nobody sets an active status by hand, activations bill no contract
\* twice, although no unique index forbids it: who inserts a payment holds the
\* row of the contract since it changed its status, and has seen no payment.
\* With the payments that operators enter beside it there are never more than
\* requests are served at once: all were looked up before the first was there.
THEOREM BilledOnce ==
    ASSUME Requested \cap ActiveStatuses = {}
    PROVE  Spec => []FewPayments
  <1>1. TypeInv /\ BillingInv /\ CountInv => FewPayments
    <2> SUFFICES ASSUME TypeInv, BillingInv, CountInv, NEW c \in Contracts
                 PROVE  payments[c] <= 1 /\ Payments(c) <= Cardinality(Workers)
      BY DEF FewPayments
    <2>1. Cardinality(Payers(c)) \in Nat /\ Cardinality(Workers) \in Nat
      BY PayersFinite DEF Payers
    <2>2. Payments(c) + Cardinality(Payers(c)) <= Cardinality(Workers)
      BY DEF CountInv
    <2> QED
      BY <2>1, <2>2, PaymentCounts DEF BillingInv, BilledByActivation
  <1>2. TypeInv /\ PaymentInv /\ ScheduleInv /\ BillingInv /\ [Next]_vars
          => BillingInv'
    BY BillingInvStep
  <1> QED
    BY <1>1, <1>2, TypeInit, TypeStep, PaymentInit, PaymentStep, ScheduleInit,
       ScheduleStep, BillingInit, CountInit, CountStep, PTL
    DEF Spec

-----------------------------------------------------------------------------
(* The customer of an event *)

\* A link to one of the customers, the one with the document of the lead, if
\* the lead has a document.
LinkFits(link, c, known) ==
    link # None => link \in known /\ LeadDocument[c] \in {link, None}

\* Of a request: the link it carries is to a customer that exists or that its
\* transaction inserts; and it creates an event with one, if the lead has a
\* document.
CustomerForm(p) ==
    LET w == worker[p] IN
    /\ w.pc \in CarryPCs => LinkFits(w.cust, w.c, customers \cup {w.link})
    /\ w.pc = "saveUpdate" => w.link = None
    /\ w.pc = "linkCustomer" => w.cust # None
    /\ \/ w.pc = "createEvent" /\ w.wrote
       \/ w.pc \in NumberedPCs /\ w.number # 0
       => w.cust # None \/ LeadDocument[w.c] = None

LinksFit == \A c \in Contracts : LinkFits(contract[c].customer, c, customers)

\* Inductive, if nobody asks for an active status.
CustomerInv == LinksFit /\ \A p \in Workers : CustomerForm(p)

LEMMA CustomerInit == Init => CustomerInv
  BY IdleFields
  DEF Init, CustomerInv, LinksFit, LinkFits, CustomerForm, CarryPCs, TransactionPCs,
      NumberedPCs

\* More customers, and more choices, do no harm to a link.
LEMMA LinkStillFits ==
    ASSUME NEW link, NEW c, NEW known, NEW more, LinkFits(link, c, known),
           known \subseteq more
    PROVE  LinkFits(link, c, more)
  BY DEF LinkFits

LEMMA CustomerOthers ==
    ASSUME TypeInv, CustomerInv, [Next]_vars, NEW q \in Workers, worker'[q] = worker[q]
    PROVE  CustomerForm(q)'
  <1>1. CustomerForm(q) /\ customers \subseteq customers'
    BY StoresGrow DEF CustomerInv
  <1>2. worker[q].pc \in CarryPCs
          => LinkFits(worker[q].cust, worker[q].c, customers' \cup {worker[q].link})
    BY <1>1 DEF CustomerForm, LinkFits
  <1> QED
    BY <1>1, <1>2 DEF CustomerForm, LinkFits

LEMMA NumberPCs == NumberedPCs \subseteq CarryPCs
  BY DEF NumberedPCs, CarryPCs, TransactionPCs

LEMMA CustomerOutside ==
    ASSUME NEW p \in Workers, Outside(p)
    PROVE  CustomerForm(p)'
  BY NumberPCs DEF Outside, CustomerForm, CarryPCs, TransactionPCs

LEMMA CustomerStart ==
    ASSUME TypeInv, CustomerInv, NEW p \in Workers, StartStep(p)
    PROVE  CustomerForm(p)'
  <1> DEFINE v == worker'[p]
  <1>1. /\ v.pc \in {"resolve", "read", "write", "saveUpdate", "saveCancel"}
        /\ v.pc = "saveUpdate" => v.link = None
        /\ customers' = customers /\ contract' = contract
    BY StartMoves
  <1>2. LinkFits(v.cust, v.c, customers \cup {v.link})
    <2>1. CASE v.cust = None
      BY <2>1 DEF LinkFits
    <2>2. CASE v.cust = contract[v.c].customer
      BY <2>2, StartMoves DEF CustomerInv, LinksFit, LinkFits
    <2>3. CASE /\ worker[p].pc = "resolve" /\ v.cust = worker[p].cust
               /\ v.c = worker[p].c /\ v.link = worker[p].link
      BY <2>3 DEF CustomerInv, CustomerForm, CarryPCs
    <2> QED
      BY <2>1, <2>2, <2>3, StartMoves DEF SameRequest
  <1> QED
    BY <1>1, <1>2 DEF CustomerForm, NumberedPCs

\* The document a customer is linked by is that of the lead, if it has one.
LEMMA LinkOfLead ==
    ASSUME NEW w, CustomerToLink(w) # None
    PROVE  LeadDocument[w.c] \in {CustomerToLink(w), None}
  BY DEF CustomerToLink, ClientDocument

LEMMA CustomerDecide ==
    ASSUME TypeInv, PaymentInv, BillingInv, CustomerInv,
           NEW p \in Workers, DecideStep(p)
    PROVE  CustomerForm(p)'
  <1> DEFINE w == worker[p]
             v == worker'[p]
  <1>1. /\ contract' = contract /\ customers' = customers /\ event' = event
        /\ w.c \in Contracts /\ w.pc \in CarryPCs
        /\ CustomerForm(p) /\ BillingForm(p)
        /\ LinkFits(contract[w.c].customer, w.c, customers)
    BY DecideQuiet DEF CustomerInv, BillingInv, LinksFit, CarryPCs
  <1>2. /\ LinkFits(w.cust, w.c, customers \cup {w.link})
        /\ LinkFits(contract[w.c].customer, w.c, customers \cup {w.link})
    BY <1>1 DEF CustomerForm, LinkFits
  <1>3. w.pc \notin NumberedPCs => w.number = 0
    BY DEF PaymentInv
  <1>4. CASE ReadContract(p) \/ WriteContract(p)
    <2>1. /\ w.pc \in {"read", "write"} /\ v.c = w.c /\ v.link = w.link
          /\ v.number = w.number
          /\ v.cust \in {w.cust, contract[w.c].customer}
          /\ v.pc \in {AfterStatus(w), "write"}
      BY <1>4, ReadMove, WriteMove DEF SameRequest
    <2>2. v.pc \in {"activate", "commit", "write"} /\ v.number = 0
      BY <1>3, <2>1, AfterStatusGoes DEF NumberedPCs
    <2> QED
      BY <1>1, <1>2, <2>1, <2>2 DEF CustomerForm
  <1>5. CASE FindCustomer(p)
    <2>1. /\ w.pc = "activate" /\ v.c = w.c /\ v.number = w.number
          /\ v.wrote = w.wrote
      BY <1>5, FindMove DEF SameRequest
    <2>2. v.number = 0
      BY <1>3, <2>1 DEF NumberedPCs
    <2>3. CASE /\ v.pc = "createEvent" /\ CustomerToLink(w) = None
               /\ v.cust = w.cust /\ v.link = w.link
      <3>1. ASSUME w.wrote PROVE w.cust # None \/ LeadDocument[w.c] = None
        <4>1. SeenStatus(w) \in ActiveStatuses /\ SeenCustomer(w) = w.cust
          BY <1>1, <2>1, <3>1 DEF BillingForm, SeenStatus, SeenCustomer, ActivationPCs
        <4> QED
          BY <2>3, <4>1 DEF CustomerToLink, ClientDocument
      <3> QED
        BY <1>1, <1>2, <2>1, <2>2, <2>3, <3>1 DEF CustomerForm
    <2>4. CASE /\ v.pc = "linkCustomer" /\ CustomerToLink(w) # None
               /\ v.cust = CustomerToLink(w) /\ v.link = CustomerToLink(w)
      BY <2>1, <2>2, <2>4, LinkOfLead DEF CustomerForm, LinkFits
    <2> QED
      BY <1>5, <2>3, <2>4, FindMove
  <1>6. CASE LinkCustomer(p)
    <2>1. /\ w.pc = "linkCustomer" /\ v.pc = "createEvent" /\ v.c = w.c
          /\ v.cust = w.cust /\ v.link = w.link
      BY <1>6, LinkMove DEF SameRequest
    <2> QED
      BY <1>1, <1>2, <2>1 DEF CustomerForm, NumberedPCs
  <1>7. CASE CreateEvent(p)
    <2>1. /\ w.pc = "createEvent" /\ v.pc = "createPayments" /\ v.c = w.c
          /\ v.link = w.link /\ v.cust = SeenCustomer(w)
          /\ v.number = EventToInsert(w)
      BY <1>7, CreateMove
    <2>2. SeenCustomer(w) \in {w.cust, contract[w.c].customer}
      BY DEF SeenCustomer
    <2>3. ASSUME v.number # 0 PROVE v.cust # None \/ LeadDocument[w.c] = None
      <3>1. event[w.c].number = 0
        BY <2>1, <2>3 DEF EventToInsert
      <3>2. w.wrote
        BY <1>1, <2>1, <3>1 DEF BillingForm, ActivationPCs
      <3>3. v.cust = w.cust
        BY <2>1, <3>2 DEF SeenCustomer
      <3> QED
        BY <1>1, <2>1, <3>2, <3>3 DEF CustomerForm
    <2> QED
      BY <1>1, <1>2, <2>1, <2>2, <2>3 DEF CustomerForm
  <1>8. CASE CreatePayments(p)
    <2>1. /\ w.pc = "createPayments" /\ v.pc = "commit" /\ v.c = w.c
          /\ v.link = w.link /\ v.cust = w.cust /\ v.number = w.number
      BY <1>8, PayMove
    <2> QED
      BY <1>1, <1>2, <2>1 DEF CustomerForm, NumberedPCs
  <1> QED
    BY <1>4, <1>5, <1>6, <1>7, <1>8 DEF DecideStep

LEMMA CustomerStore ==
    ASSUME TypeInv, CustomerInv, [Next]_vars, NEW p \in Workers, StoreStep(p)
    PROVE  LinksFit' /\ CustomerForm(p)'
  <1> DEFINE w == worker[p]
  <1>1. /\ CustomerForm(p) /\ customers \subseteq customers'
        /\ \A c \in Contracts : LinkFits(contract[c].customer, c, customers')
    BY StoresGrow DEF CustomerInv, LinksFit, LinkFits
  <1>2. worker'[p].pc \in {"idle", "listRows"}
    BY CommitMove, PlainMove, IdleFields DEF StoreStep, PlainStore
  <1>3. CustomerForm(p)'
    BY <1>2 DEF CustomerForm, CarryPCs, TransactionPCs, NumberedPCs
  <1>4. CASE Commit(p)
    <2>1. /\ w.c \in Contracts /\ w.pc \in CarryPCs
          /\ contract'[w.c] = CommittedContract(w)
          /\ customers' = customers \cup ({w.link} \ {None})
          /\ \A c \in Contracts : c # w.c => contract'[c] = contract[c]
      BY <1>4, CommitMove DEF CarryPCs, TransactionPCs
    <2>2. LinkFits(w.cust, w.c, customers')
      BY <1>1, <2>1 DEF CustomerForm, LinkFits
    <2>3. contract'[w.c].customer \in {w.cust, contract[w.c].customer}
      BY <2>1 DEF CommittedContract, SeenCustomer
    <2> QED
      BY <1>1, <1>3, <2>1, <2>2, <2>3 DEF LinksFit
  <1>5. CASE PlainStore(p)
    <2>1. /\ w.c \in Contracts
          /\ \A c \in Contracts : c # w.c => contract'[c] = contract[c]
          /\ \/ contract'[w.c].customer = contract[w.c].customer
             \/ /\ w.pc = "saveUpdate"
                /\ contract'[w.c].customer = w.cust
      BY <1>5, PlainMove
    <2>2. w.pc = "saveUpdate" => LinkFits(w.cust, w.c, customers')
      BY <1>1 DEF CustomerForm, CarryPCs, LinkFits
    <2> QED
      BY <1>1, <1>3, <2>1, <2>2 DEF LinksFit
  <1> QED
    BY <1>4, <1>5 DEF StoreStep, PlainStore

LEMMA CustomerStep ==
    TypeInv /\ PaymentInv /\ BillingInv /\ CustomerInv /\ [Next]_vars => CustomerInv'
  <1> SUFFICES ASSUME TypeInv, PaymentInv, BillingInv, CustomerInv, [Next]_vars
               PROVE  CustomerInv'
    OBVIOUS
  <1>1. CASE UNCHANGED <<contract, customers, event, payments, direct, lock, worker>>
    BY <1>1, CustomerOthers DEF CustomerInv, LinksFit, LinkFits
  <1>2. ASSUME NEW p \in Workers,
               Outside(p) \/ StartStep(p) \/ DecideStep(p) \/ StoreStep(p)
        PROVE  CustomerInv'
    <2>1. \A q \in Workers : q # p => worker'[q] = worker[q]
      BY <1>2, StartMoves, DecideQuiet, CommitMove, PlainMove
      DEF Outside, StoreStep, PlainStore
    <2>2. \A q \in Workers : q # p => CustomerForm(q)'
      BY <2>1, CustomerOthers
    <2>3. CASE StoreStep(p)
      BY <2>2, <2>3, CustomerStore DEF CustomerInv
    <2>4. CASE Outside(p) \/ StartStep(p) \/ DecideStep(p)
      <3>1. contract' = contract /\ customers' = customers
        BY <2>4, StartMoves, DecideQuiet DEF Outside
      <3>2. LinksFit'
        BY <3>1 DEF CustomerInv, LinksFit, LinkFits
      <3>3. CustomerForm(p)'
        BY <2>4, CustomerOutside, CustomerStart, CustomerDecide
      <3> QED
        BY <2>2, <3>2, <3>3 DEF CustomerInv
    <2> QED
      BY <1>2, <2>3, <2>4
  <1> QED
    BY <1>1, <1>2, StepKinds

\* An event comes with the customer its transaction has linked or found.
LEMMA CreatedEvent ==
    ASSUME TypeInv, CustomerInv, [Next]_vars, NEW c \in Contracts,
           event[c].number = 0, event'[c].number # 0, LeadDocument[c] # None
    PROVE  event'[c].customer = LeadDocument[c] /\ LeadDocument[c] \in customers'
  <1>1. PICK p \in Workers : Commit(p)
    BY StepKinds, StartMoves, DecideQuiet, PlainMove DEF Outside, StoreStep, PlainStore
  <1> DEFINE w == worker[p]
  <1>2. /\ c = w.c /\ w.pc = "commit" /\ event'[c] = CommittedEvent(w)
        /\ customers' = customers \cup ({w.link} \ {None})
        /\ event[c] \in [number : 0 .. Cardinality(Contracts),
                         customer : Documents \cup {None}]
    BY <1>1, CommitMove DEF TypeInv, TypeOK, StoreOK
  <1>3. w.number # 0 /\ event'[c].customer = w.cust
    BY <1>2 DEF CommittedEvent
  <1>4. w.cust # None /\ LinkFits(w.cust, c, customers \cup {w.link})
    BY <1>2, <1>3, NumberPCs DEF CustomerInv, CustomerForm, NumberedPCs
  <1> QED
    BY <1>2, <1>3, <1>4 DEF LinkFits

\* As long as nobody sets an active status by hand, an event is created with
\* the customer whose document the lead has, if it has one, and that customer
\* is stored: however activations of one contract run through one another, the
\* customer is linked before the event is created.
THEOREM EventsHaveCustomers ==
    ASSUME Requested \cap ActiveStatuses = {}
    PROVE  Spec => CreatedWithCustomer
  <1>1. TypeInv /\ PaymentInv /\ ScheduleInv /\ BillingInv /\ [Next]_vars
          => BillingInv'
    BY BillingInvStep
  <1>2. TypeInv /\ CustomerInv /\ [Next]_vars
          => [\A c \in Contracts :
                event[c].number = 0 /\ event'[c].number # 0 /\ LeadDocument[c] # None
                  => /\ event'[c].customer = LeadDocument[c]
                     /\ LeadDocument[c] \in customers']_vars
    BY CreatedEvent
  <1> QED
    BY <1>1, <1>2, TypeInit, TypeStep, PaymentInit, PaymentStep, ScheduleInit,
       ScheduleStep, BillingInit, CustomerInit, CustomerStep, PTL
    DEF Spec, CreatedWithCustomer

-----------------------------------------------------------------------------
(* Signature rows tell the truth, and no contract is activated unsigned:    *)
(* who is taken to have signed has signed, or the name of an event was      *)
(* misread.                                                                 *)

\* Who may be taken to have signed an envelope.
Believed == [e \in Envelopes |-> {s \in Signers : Vouched(e, s)}]

RowsTrue ==
    \A e \in Envelopes, s \in Signers :
        row[e][s].status = "SIGNED" => s \in Believed[e]

\* A report sent is true for good: who signed, has signed.
ReportTrue(m, envs) ==
    /\ m.signed \subseteq envs[m.env].signed
    /\ m.form.what = "signed" => m.by \in envs[m.env].signed
    /\ envs[m.env].state # "absent"

ReportsTrue == \A m \in sent : ReportTrue(m, envelope)

\* What a request is about to save as signed is believed.
RequestTrue(w) ==
    /\ w.pc = "saveRows"
         => \A s \in w.put : w.rows[s].status = "SIGNED" => s \in Believed[w.e]
    /\ w.pc = "savePoll" /\ w.st = "SIGNED" => Signers \subseteq Believed[w.e]

\* Inductive.
SignatureInv ==
    /\ RowsTrue
    /\ ReportsTrue
    /\ \A p \in Workers : RequestTrue(worker[p])
    /\ \A e \in Envelopes : envelope[e].state = "absent" => envelope[e].signed = {}

LEMMA SignatureInit == Init => SignatureInv
  <1> SUFFICES ASSUME Init PROVE SignatureInv
    OBVIOUS
  <1>1. None # "SIGNED"
    BY NoneAssumption DEF SignatureStatus
  <1>2. RowsTrue
    BY <1>1 DEF Init, NoRow, RowsTrue
  <1>3. ReportsTrue /\ \A p \in Workers : RequestTrue(worker[p])
    BY DEF Init, Idle, ReportsTrue, RequestTrue
  <1> QED
    BY <1>2, <1>3 DEF Init, SignatureInv

\* Reports and signatures are never taken back; an envelope stays, with its
\* contract, and has no signatures before it exists.
SignaturesGrow ==
    /\ sent \subseteq sent'
    /\ \A e \in Envelopes :
         /\ envelope[e].signed \subseteq envelope'[e].signed
         /\ envelope[e].state # "absent"
              => envelope'[e].state # "absent" /\ envelope'[e].of = envelope[e].of
         /\ envelope'[e].state = "absent" => envelope'[e].signed = {}

LEMMA ProviderSteps ==
    ASSUME [Next]_vars
    PROVE  \/ UNCHANGED provider
           \/ \E p \in Workers : CreateEnvelope(p) \/ Revoke(p)
           \/ Provider
  <1>1. ASSUME NEW p \in Workers, Proceed(p)
        PROVE  UNCHANGED provider \/ CreateEnvelope(p) \/ Revoke(p)
    BY <1>1 DEF Proceed, provider, ReuseEnvelope, NoActiveEnvelope,
       EnvelopeRefused, InsertRows, MarkSent, SaveRows, ResolveStatus,
       ReadContract, WriteContract, FindCustomer, LinkCustomer, CreateEvent,
       CreatePayments, Commit, Abort, SaveUpdate, SaveCancel, ListRows,
       RevokeRefused, MarkRow, EndRevoke, SavePoll, InsertPayment
  <1>2. ASSUME NEW p \in Workers, Request(p) \/ Deliver(p) \/ Fail(p)
        PROVE  UNCHANGED provider
    BY <1>2 DEF Request, Deliver, Fail, provider, SendContract,
       RequestSignature, CloseContract, LookUpPayment, ReadForUpdate,
       CancelRequest, PollStatus, ReceiveWebhook, ReceiveCallback
  <1> QED
    BY <1>1, <1>2 DEF Next, vars, provider

LEMMA StepsGrow ==
    ASSUME TypeInv, SignatureInv, [Next]_vars
    PROVE  SignaturesGrow
  <1>1. CASE UNCHANGED provider
    BY <1>1 DEF provider, SignaturesGrow, SignatureInv
  <1>2. ASSUME NEW p \in Workers, CreateEnvelope(p)
        PROVE  SignaturesGrow
    BY <1>2 DEF CreateEnvelope, SignaturesGrow, SignatureInv, TypeInv, TypeOK, StoreOK
  <1>3. ASSUME NEW p \in Workers, Revoke(p)
        PROVE  SignaturesGrow
    BY <1>3 DEF Revoke, SignaturesGrow, SignatureInv, TypeInv, TypeOK, StoreOK
  <1>4. ASSUME NEW e \in Envelopes, NEW s \in Signers, Sign(e, s) \/ Reject(e, s)
        PROVE  SignaturesGrow
    <2>1. \A d \in Envelopes : d # e => envelope'[d] = envelope[d]
      BY <1>4 DEF Sign, Reject, TypeInv, TypeOK, StoreOK
    <2>2. /\ envelope[e].signed \subseteq envelope'[e].signed
          /\ envelope'[e].state # "absent" /\ envelope'[e].of = envelope[e].of
          /\ sent \subseteq sent'
      <3>1. CASE Sign(e, s)
        BY <3>1 DEF Sign, TypeInv, TypeOK, StoreOK
      <3>2. CASE Reject(e, s)
        BY <3>2 DEF Reject, TypeInv, TypeOK, StoreOK
      <3> QED
        BY <1>4, <3>1, <3>2
    <2> QED
      BY <2>1, <2>2 DEF SignaturesGrow, SignatureInv
  <1> QED
    BY <1>1, <1>2, <1>3, <1>4, ProviderSteps DEF Provider

\* Who is believed to have signed stays so.
LEMMA BelievedGrows ==
    ASSUME SignaturesGrow
    PROVE  \A e \in Envelopes : Believed[e] \subseteq Believed'[e]
  BY DEF SignaturesGrow, Believed, Vouched, Misread

LEMMA SignedBelieved ==
    ASSUME NEW e \in Envelopes
    PROVE  \A s \in Signers : s \in envelope[e].signed => s \in Believed[e]
  BY DEF Believed, Vouched

\* Nobody is believed to have signed an envelope that does not exist.
LEMMA BelievedExists ==
    ASSUME SignatureInv, NEW e \in Envelopes, NEW s \in Believed[e]
    PROVE  envelope[e].state # "absent"
  BY DEF SignatureInv, ReportsTrue, ReportTrue, Believed, Vouched, Misread

\* What is true of reports and requests stays true of those that remain.
LEMMA TruthRemains ==
    ASSUME TypeInv, SignatureInv, SignaturesGrow
    PROVE  /\ \A m \in sent : ReportTrue(m, envelope')
           /\ \A q \in Workers : worker'[q] = worker[q] => RequestTrue(worker[q])'
  <1>1. \A m \in sent : m.env \in Envelopes
    BY DEF TypeInv, TypeOK, StoreOK, Reports
  <1>2. ASSUME NEW q \in Workers, worker'[q] = worker[q]
        PROVE  RequestTrue(worker[q])'
    <2>1. worker[q].pc \in EnvelopePCs => worker[q].e \in Envelopes
      BY DEF TypeInv, WorkerFits
    <2>2. RequestTrue(worker[q])
      BY DEF SignatureInv
    <2> QED
      BY <1>2, <2>1, <2>2, BelievedGrows DEF RequestTrue, EnvelopePCs
  <1> QED
    BY <1>1, <1>2 DEF SignatureInv, ReportsTrue, ReportTrue, SignaturesGrow

-----------------------------------------------------------------------------
(* Steps *)

\* No request comes to hold rows or a status that it is about to save.
NothingToSave(p) ==
    /\ worker'[p].pc \notin {"saveRows", "savePoll"}
    /\ \A q \in Workers : q # p => worker'[q] = worker[q]

LEMMA MoveToSaveNothing ==
    ASSUME TypeInv, NEW p \in Workers, NEW w, Goto(p, w),
           w.pc \notin {"saveRows", "savePoll"}
    PROVE  NothingToSave(p)
  BY DEF NothingToSave, Goto, TypeInv, TypeOK

\* A step of a request keeps the invariant if the reports it sends and the rows
\* it leaves are true and it does not hold what it is about to save, or holds
\* what is true.
LEMMA TrueStep ==
    ASSUME TypeInv, SignatureInv, SignaturesGrow, NEW p \in Workers,
           \A m \in sent' \ sent : ReportTrue(m, envelope'),
           RowsTrue', \A q \in Workers : q # p => worker'[q] = worker[q],
           RequestTrue(worker[p])'
    PROVE  SignatureInv'
  <1>1. ReportsTrue'
    BY TruthRemains DEF ReportsTrue
  <1>2. \A q \in Workers : RequestTrue(worker[q])'
    BY TruthRemains
  <1> QED
    BY <1>1, <1>2 DEF SignatureInv, SignaturesGrow

\* Every step of a request that touches neither a row nor an envelope, and
\* holds nothing that it is about to save.
IdleProceed(p) ==
    \/ ReuseEnvelope(p) \/ NoActiveEnvelope(p) \/ EnvelopeRefused(p) \/ MarkSent(p)
    \/ ResolveStatus(p) \/ ReadContract(p) \/ WriteContract(p)
    \/ FindCustomer(p) \/ LinkCustomer(p) \/ CreateEvent(p) \/ CreatePayments(p)
    \/ Commit(p) \/ Abort(p)
    \/ SaveUpdate(p) \/ SaveCancel(p) \/ ListRows(p)
    \/ RevokeRefused(p) \/ EndRevoke(p) \/ InsertPayment(p)

\* What the steps that activate a contract do to their request.
LEMMA ActivationMoves ==
    ASSUME TypeInv, NEW p \in Workers,
           \/ FindCustomer(p) \/ LinkCustomer(p)
           \/ CreateEvent(p) \/ CreatePayments(p)
    PROVE  /\ worker[p].pc \in {"activate", "linkCustomer", "createEvent",
                                "createPayments"}
           /\ worker'[p].pc \in {"linkCustomer", "createEvent", "createPayments",
                                 "commit"}
           /\ worker'[p].c = worker[p].c
           /\ worker[p].wrote => worker'[p].wrote /\ worker'[p].st = worker[p].st
           /\ \A q \in Workers : q # p => worker'[q] = worker[q]
  <1>1. worker[p] \in WorkerStates
    BY WorkerNow
  <1>2. CASE FindCustomer(p)
    <2> DEFINE link  == CustomerToLink(worker[p])
               st    == SeenStatus(worker[p])
               fresh == link \notin customers
               none  == [worker[p] EXCEPT !.pc = "createEvent"]
               some  == [worker[p] EXCEPT !.pc = "linkCustomer", !.st = st,
                                          !.link = link, !.cust = link,
                                          !.fresh = fresh]
    <2>1. worker[p].pc = "activate" /\ (Goto(p, none) \/ Goto(p, some))
      BY <1>2 DEF FindCustomer, At
    <2>2. worker[p].wrote => st = worker[p].st
      BY DEF SeenStatus
    <2> HIDE DEF link, st, fresh
    <2>3. /\ none.pc = "createEvent" /\ none.c = worker[p].c
          /\ none.wrote = worker[p].wrote /\ none.st = worker[p].st
          /\ some.pc = "linkCustomer" /\ some.c = worker[p].c
          /\ some.wrote = worker[p].wrote /\ some.st = st
      BY <1>1 DEF WorkerStates
    <2> HIDE DEF none, some
    <2> QED
      BY <2>1, <2>2, <2>3 DEF Goto, TypeInv, TypeOK
  <1>3. CASE LinkCustomer(p)
    <2>1. PICK wrote \in BOOLEAN :
            /\ worker[p].wrote => wrote
            /\ Goto(p, [worker[p] EXCEPT !.pc = "createEvent", !.wrote = wrote])
      BY <1>3 DEF LinkCustomer
    <2> DEFINE w == [worker[p] EXCEPT !.pc = "createEvent", !.wrote = wrote]
    <2>2. /\ w.pc = "createEvent" /\ w.c = worker[p].c /\ w.wrote = wrote
          /\ w.st = worker[p].st
      BY <1>1 DEF WorkerStates
    <2>3. Goto(p, w) /\ worker[p].pc = "linkCustomer"
      BY <1>3, <2>1 DEF LinkCustomer, At
    <2> HIDE DEF w
    <2> QED
      BY <2>1, <2>2, <2>3 DEF Goto, TypeInv, TypeOK
  <1>4. CASE CreateEvent(p)
    BY <1>1, <1>4 DEF CreateEvent, At, Goto, TypeInv, TypeOK, WorkerStates
  <1>5. CASE CreatePayments(p)
    BY <1>1, <1>5 DEF CreatePayments, At, Goto, TypeInv, TypeOK, WorkerStates
  <1> QED
    BY <1>2, <1>3, <1>4, <1>5

LEMMA IdleProceedSavesNothing ==
    ASSUME TypeInv, NEW p \in Workers, IdleProceed(p)
    PROVE  NothingToSave(p) /\ row' = row /\ UNCHANGED provider
  <1>1. row' = row /\ UNCHANGED provider
    BY DEF IdleProceed, database, provider, ReuseEnvelope, NoActiveEnvelope,
       EnvelopeRefused, MarkSent, ResolveStatus, ReadContract, WriteContract,
       FindCustomer, LinkCustomer, CreateEvent, CreatePayments, Commit, Abort,
       SaveUpdate, SaveCancel, ListRows, RevokeRefused, EndRevoke, InsertPayment
  <1>2. Idle.pc = "idle" /\ worker[p] \in WorkerStates
    BY WorkerNow DEF Idle
  <1>3. CASE \/ EnvelopeRefused(p) \/ MarkSent(p) \/ Commit(p) \/ Abort(p)
             \/ EndRevoke(p) \/ InsertPayment(p)
    BY <1>1, <1>2, <1>3, MoveToSaveNothing
    DEF EnvelopeRefused, MarkSent, Commit, Abort, EndRevoke, InsertPayment, Done
  <1>4. CASE ReuseEnvelope(p)
    <2>1. AfterRequest(p).pc \in {"idle", "markSent"}
      BY <1>2 DEF AfterRequest, WorkerStates
    <2> QED
      BY <1>1, <1>4, <2>1, MoveToSaveNothing DEF ReuseEnvelope
  <1>5. CASE SaveUpdate(p) \/ SaveCancel(p)
    <2>1. Goto(p, Idle) \/ Goto(p, [Idle EXCEPT !.pc = "listRows", !.c = worker[p].c])
      BY <1>5 DEF SaveUpdate, SaveCancel, Done
    <2>2. [Idle EXCEPT !.pc = "listRows", !.c = worker[p].c].pc = "listRows"
      BY DEF Idle
    <2> QED
      BY <1>1, <1>2, <2>1, <2>2, MoveToSaveNothing
  <1>6. CASE NoActiveEnvelope(p) \/ ResolveStatus(p) \/ ListRows(p)
    <2>1. /\ worker'[p].pc \in {"create", "read", "revoke"}
          /\ \A q \in Workers : q # p => worker'[q] = worker[q]
      <3>1. CASE NoActiveEnvelope(p)
        BY <1>2, <3>1 DEF NoActiveEnvelope, Goto, TypeInv, TypeOK, WorkerStates
      <3>2. CASE ResolveStatus(p)
        BY <1>2, <3>2 DEF ResolveStatus, Goto, TypeInv, TypeOK, WorkerStates
      <3>3. CASE ListRows(p)
        BY <1>2, <3>3 DEF ListRows, Goto, TypeInv, TypeOK, WorkerStates
      <3> QED
        BY <1>6, <3>1, <3>2, <3>3
    <2> QED
      BY <1>1, <2>1 DEF NothingToSave
  <1>7. AfterStatus(worker[p]) \in {"activate", "commit"}
    BY DEF AfterStatus
  <1>8. CASE ReadContract(p)
    <2> DEFINE v == [worker[p] EXCEPT !.pc = AfterStatus(worker[p])]
               w == [worker[p] EXCEPT !.pc = "write",
                                      !.cust = contract[worker[p].c].customer]
    <2>1. Goto(p, v) \/ Goto(p, w)
      BY <1>8 DEF ReadContract
    <2>2. v.pc = AfterStatus(worker[p]) /\ w.pc = "write"
      BY <1>2 DEF WorkerStates
    <2> HIDE DEF v, w
    <2> QED
      BY <1>1, <1>7, <2>1, <2>2, MoveToSaveNothing
  <1>9. CASE WriteContract(p)
    <2> DEFINE v == [worker[p] EXCEPT !.pc = AfterStatus(worker[p])]
               w(cust) == [worker[p] EXCEPT !.pc = AfterStatus(worker[p]),
                                            !.wrote = TRUE, !.cust = cust]
    <2>1. Goto(p, v) \/ \E cust : Goto(p, w(cust))
      BY <1>9 DEF WriteContract
    <2>2. v.pc = AfterStatus(worker[p]) /\ \A cust : w(cust).pc = AfterStatus(worker[p])
      BY <1>2 DEF WorkerStates
    <2> HIDE DEF v, w
    <2> QED
      BY <1>1, <1>7, <2>1, <2>2, MoveToSaveNothing
  <1>10. CASE FindCustomer(p) \/ LinkCustomer(p) \/ CreateEvent(p) \/ CreatePayments(p)
    BY <1>1, <1>10, ActivationMoves DEF NothingToSave
  <1>11. CASE RevokeRefused(p)
    BY <1>1, <1>2, <1>11 DEF RevokeRefused, At, Goto, NothingToSave, TypeInv, TypeOK,
       WorkerStates
  <1> QED
    BY <1>3, <1>4, <1>5, <1>6, <1>8, <1>9, <1>10, <1>11 DEF IdleProceed

\* The same for what is taken up, reports and status queries apart.
LEMMA IdleRequestSavesNothing ==
    ASSUME TypeInv, NEW p \in Workers,
           \/ Fail(p)
           \/ \E c \in Contracts :
                \/ SendContract(p, c) \/ RequestSignature(p, c) \/ CloseContract(p, c)
                \/ LookUpPayment(p, c)
                \/ \E status \in ContractStatus : ReadForUpdate(p, c, status)
           \/ \E e \in Envelopes : CancelRequest(p, e)
    PROVE  NothingToSave(p) /\ row' = row /\ UNCHANGED provider
  <1>1. CASE Fail(p)
    BY <1>1, MoveToSaveNothing DEF Fail, Done, database, Idle
  <1>2. ASSUME NEW c \in Contracts,
               \/ SendContract(p, c) \/ RequestSignature(p, c) \/ CloseContract(p, c)
               \/ LookUpPayment(p, c)
        PROVE  NothingToSave(p) /\ row' = row /\ UNCHANGED provider
    BY <1>2 DEF SendContract, RequestSignature, CloseContract, LookUpPayment, Begin,
       Goto, Idle, database, NothingToSave, TypeInv, TypeOK
  <1>3. ASSUME NEW c \in Contracts, NEW status \in ContractStatus,
               ReadForUpdate(p, c, status)
        PROVE  NothingToSave(p) /\ row' = row /\ UNCHANGED provider
    BY <1>3 DEF ReadForUpdate, Begin, Goto, Idle, database, NothingToSave, TypeInv,
       TypeOK
  <1>4. ASSUME NEW e \in Envelopes, CancelRequest(p, e)
        PROVE  NothingToSave(p) /\ row' = row /\ UNCHANGED provider
    BY <1>4 DEF CancelRequest, Begin, Goto, Idle, database, NothingToSave, TypeInv,
       TypeOK
  <1> QED
    BY <1>1, <1>2, <1>3, <1>4

-----------------------------------------------------------------------------
(* The steps that touch rows, envelopes or reports *)

LEMMA CreateEnvelopeTrue ==
    ASSUME TypeInv, SignatureInv, SignaturesGrow, NEW p \in Workers, CreateEnvelope(p)
    PROVE  SignatureInv'
  <1>1. PICK e \in Envelopes :
          /\ envelope' = [envelope EXCEPT ![e] =
                            [of |-> worker[p].c, state |-> "open", signed |-> {}]]
          /\ sent' = sent \cup UNION {ReportsOf(e, s, "requested", {}) : s \in Signers}
    BY DEF CreateEnvelope
  <1>2. envelope'[e].state = "open"
    BY <1>1 DEF TypeInv, TypeOK, StoreOK
  <1>3. \A m \in sent' \ sent : ReportTrue(m, envelope')
    BY <1>1, <1>2 DEF ReportsOf, ReportTrue
  <1>4. RowsTrue'
    BY BelievedGrows DEF CreateEnvelope, database, SignatureInv, RowsTrue
  <1>5. NothingToSave(p)
    BY WorkerNow DEF CreateEnvelope, Goto, NothingToSave, TypeInv, TypeOK, WorkerStates
  <1> QED
    BY <1>3, <1>4, <1>5, TrueStep DEF NothingToSave, RequestTrue

\* A deleted envelope keeps its signatures.
LEMMA RevokeTrue ==
    ASSUME TypeInv, SignatureInv, SignaturesGrow, NEW p \in Workers, Revoke(p)
    PROVE  SignatureInv'
  <1>1. RowsTrue'
    BY BelievedGrows DEF Revoke, database, SignatureInv, RowsTrue
  <1>2. NothingToSave(p)
    BY WorkerNow DEF Revoke, Goto, NothingToSave, TypeInv, TypeOK, WorkerStates
  <1>3. sent' = sent
    BY DEF Revoke
  <1> QED
    BY <1>1, <1>2, <1>3, TrueStep DEF NothingToSave, RequestTrue

LEMMA InsertRowsTrue ==
    ASSUME TypeInv, SignatureInv, SignaturesGrow, NEW p \in Workers, InsertRows(p)
    PROVE  SignatureInv'
  <1>1. UNCHANGED provider
    BY DEF InsertRows
  <1>2. RowsTrue'
    <2>1. \A e \in Envelopes, s \in Signers :
            row'[e][s] = row[e][s] \/ row'[e][s].status = "PENDING"
      BY DEF InsertRows, TypeInv, TypeOK, StoreOK
    <2> QED
      BY <2>1, BelievedGrows DEF SignatureInv, RowsTrue
  <1>3. NothingToSave(p)
    <2>1. AfterRequest(p).pc \in {"idle", "markSent"}
      BY WorkerNow DEF AfterRequest, Idle, WorkerStates
    <2> QED
      BY <2>1, MoveToSaveNothing DEF InsertRows
  <1> QED
    BY <1>1, <1>2, <1>3, TrueStep DEF provider, NothingToSave, RequestTrue

LEMMA MarkRowTrue ==
    ASSUME TypeInv, SignatureInv, SignaturesGrow, NEW p \in Workers, MarkRow(p)
    PROVE  SignatureInv'
  <1>1. UNCHANGED provider
    BY DEF MarkRow
  <1>2. RowsTrue'
    <2>1. \A e \in Envelopes, s \in Signers :
            row'[e][s] = row[e][s] \/ row'[e][s].status = "CANCELLED"
      BY DEF MarkRow, TypeInv, TypeOK, StoreOK
    <2> QED
      BY <2>1, BelievedGrows DEF SignatureInv, RowsTrue
  <1>3. NothingToSave(p)
    BY WorkerNow DEF MarkRow, Goto, NothingToSave, TypeInv, TypeOK, WorkerStates
  <1> QED
    BY <1>1, <1>2, <1>3, TrueStep DEF provider, NothingToSave, RequestTrue

\* What is saved was true when it was read, and still is.
LEMMA SaveRowsTrue ==
    ASSUME TypeInv, SignatureInv, SignaturesGrow, NEW p \in Workers, SaveRows(p)
    PROVE  SignatureInv'
  <1> DEFINE w == worker[p]
  <1>1. UNCHANGED provider
    BY DEF SaveRows
  <1>2. RowsTrue'
    <2>1. \A e \in Envelopes, s \in Signers :
            \/ row'[e][s] = row[e][s]
            \/ e = w.e /\ s \in w.put /\ row'[e][s] = w.rows[s]
      BY DEF SaveRows, TypeInv, TypeOK, StoreOK
    <2>2. \A s \in w.put : w.rows[s].status = "SIGNED" => s \in Believed[w.e]
      BY DEF SaveRows, At, SignatureInv, RequestTrue
    <2> QED
      BY <2>1, <2>2, BelievedGrows DEF SignatureInv, RowsTrue
  <1>3. NothingToSave(p)
    BY DEF SaveRows, Goto, Idle, NothingToSave, TypeInv, TypeOK
  <1> QED
    BY <1>1, <1>2, <1>3, TrueStep DEF provider, NothingToSave, RequestTrue

\* The status of a document is that of every row only if all have signed.
LEMMA SavePollTrue ==
    ASSUME TypeInv, SignatureInv, SignaturesGrow, NEW p \in Workers, SavePoll(p)
    PROVE  SignatureInv'
  <1> DEFINE w == worker[p]
  <1>1. UNCHANGED provider
    BY DEF SavePoll
  <1>2. RowsTrue'
    <2>1. \A e \in Envelopes, s \in Signers :
            \/ row'[e][s] = row[e][s]
            \/ e = w.e /\ row'[e][s].status = w.st
      <3> DEFINE saved == [s \in Signers |->
                             [status |-> w.st, eventId |-> row[w.e][s].eventId]]
      <3>1. row' = [row EXCEPT ![w.e] = saved]
        BY DEF SavePoll
      <3>2. \A s \in Signers : saved[s].status = w.st
        OBVIOUS
      <3>3. row \in [Envelopes -> [Signers -> Rows]]
        BY DEF TypeInv, TypeOK, StoreOK
      <3> HIDE DEF saved, w
      <3> QED
        BY <3>1, <3>2, <3>3
    <2>2. w.st = "SIGNED" => Signers \subseteq Believed[w.e]
      BY DEF SavePoll, At, SignatureInv, RequestTrue
    <2> QED
      BY <2>1, <2>2, BelievedGrows DEF SignatureInv, RowsTrue
  <1>3. NothingToSave(p)
    BY MoveToSaveNothing DEF SavePoll, Done, Idle
  <1> QED
    BY <1>1, <1>2, <1>3, TrueStep DEF provider, NothingToSave, RequestTrue

LEMMA PollStatusTrue ==
    ASSUME TypeInv, SignatureInv, SignaturesGrow, NEW p \in Workers, NEW e \in Envelopes,
           PollStatus(p, e)
    PROVE  SignatureInv'
  <1>1. UNCHANGED provider /\ RowsTrue'
    BY BelievedGrows DEF PollStatus, database, SignatureInv, RowsTrue
  <1>2. /\ worker'[p].pc = "savePoll" /\ worker'[p].e = e
        /\ worker'[p].st = ProviderStatus(e)
        /\ \A q \in Workers : q # p => worker'[q] = worker[q]
    BY DEF PollStatus, Begin, Goto, Idle, TypeInv, TypeOK
  <1>3. ProviderStatus(e) = "SIGNED" => Signers \subseteq Believed'[e]
    <2>1. ProviderStatus(e) = "SIGNED" => FullySigned(e)
      BY DEF ProviderStatus
    <2> QED
      BY <2>1, SignedBelieved, BelievedGrows DEF FullySigned
  <1> QED
    BY <1>1, <1>2, <1>3, TrueStep DEF provider, RequestTrue

LEMMA ReceiveCallbackTrue ==
    ASSUME TypeInv, SignatureInv, SignaturesGrow, NEW p \in Workers, NEW m \in sent,
           ReceiveCallback(p, m)
    PROVE  SignatureInv'
  <1>1. UNCHANGED provider /\ RowsTrue'
    BY BelievedGrows DEF ReceiveCallback, database, SignatureInv, RowsTrue
  <1>2. m \in Reports /\ row[m.env][m.by] \in Rows
    BY DEF TypeInv, TypeOK, StoreOK, Reports
  <1>3. /\ worker'[p].pc = "saveRows" /\ worker'[p].e = m.env
        /\ worker'[p].put = {m.by}
        /\ worker'[p].rows[m.by].status = StatusOf[m.form.what]
        /\ \A q \in Workers : q # p => worker'[q] = worker[q]
    BY <1>2 DEF ReceiveCallback, Begin, Goto, Idle, Rows, Reports, TypeInv, TypeOK
  <1>4. m.by \in Signers /\ m.env \in Envelopes /\ m.form.what \in Happenings
    BY <1>2, ConstantsAssumption DEF Reports, AllForms
  <1>5. StatusOf[m.form.what] = "SIGNED" => m.by \in Believed'[m.env]
    <2>1. StatusOf[m.form.what] = "SIGNED" => m.form.what = "signed"
      BY <1>4 DEF StatusOf
    <2>2. m.form.what = "signed" => m.by \in envelope[m.env].signed
      BY DEF SignatureInv, ReportsTrue, ReportTrue
    <2> QED
      BY <1>4, <2>1, <2>2, SignedBelieved, BelievedGrows
  <1> QED
    BY <1>1, <1>3, <1>5, TrueStep DEF provider, RequestTrue

\* What a webhook makes of a row is believed: the items of the report are true,
\* its name is right, or it is misread.
LEMMA WebhookRowTrue ==
    ASSUME TypeInv, SignatureInv, NEW m \in sent, m.form.kind # "callback",
           NEW put \in Targets(m), NEW s \in put, WebhookRow(m, s).status = "SIGNED"
    PROVE  s \in Believed[m.env]
  <1>1. m \in Reports /\ m.form \in AllForms
    BY ConstantsAssumption DEF TypeInv, TypeOK, StoreOK, Reports
  <1>2. /\ s \in Signers /\ m.env \in Envelopes
        /\ m.form.kind \in {"items", "subject", "bare"}
        /\ m.form.kind = "subject" => m.by = s
    BY <1>1 DEF Targets, Reports, AllForms
  <1>3. /\ m.signed \subseteq envelope[m.env].signed
        /\ m.form.what = "signed" => m.by \in envelope[m.env].signed
    BY DEF SignatureInv, ReportsTrue, ReportTrue
  <1>4. CASE ReportsSigned(m, s)
    <2>1. s \in envelope[m.env].signed \/ Misread(m.env, s)
      BY <1>2, <1>3, <1>4 DEF ReportsSigned, Misread
    <2> QED
      BY <1>2, <2>1 DEF Believed, Vouched
  <1>5. CASE ~ReportsSigned(m, s)
    BY <1>2, <1>5 DEF WebhookRow, SignatureInv, RowsTrue
  <1> QED
    BY <1>4, <1>5

LEMMA ReceiveWebhookTrue ==
    ASSUME TypeInv, SignatureInv, SignaturesGrow,
           NEW p \in Workers, NEW m \in sent, ReceiveWebhook(p, m)
    PROVE  SignatureInv'
  <1>1. UNCHANGED provider /\ RowsTrue'
    BY BelievedGrows DEF ReceiveWebhook, database, SignatureInv, RowsTrue
  <1>2. PICK put \in Targets(m) :
          Begin(p, [Idle EXCEPT
            !.pc = "saveRows", !.c = envelope[m.env].of, !.e = m.env, !.put = put,
            !.rows = [s \in Signers |->
                        IF s \in put THEN WebhookRow(m, s) ELSE NoRow]])
    BY DEF ReceiveWebhook
  <1>3. put \subseteq Signers
    BY DEF Targets, TypeInv, TypeOK, StoreOK, Reports
  <1>4. /\ worker'[p].pc = "saveRows" /\ worker'[p].e = m.env
        /\ worker'[p].put = put
        /\ \A s \in put : worker'[p].rows[s] = WebhookRow(m, s)
        /\ \A q \in Workers : q # p => worker'[q] = worker[q]
    BY <1>2, <1>3 DEF Begin, Goto, Idle, TypeInv, TypeOK
  <1>5. m.env \in Envelopes
    BY DEF TypeInv, TypeOK, StoreOK, Reports
  <1>6. \A s \in put : WebhookRow(m, s).status = "SIGNED" => s \in Believed'[m.env]
    BY <1>5, WebhookRowTrue, BelievedGrows DEF ReceiveWebhook
  <1> QED
    BY <1>1, <1>4, <1>6, TrueStep DEF provider, RequestTrue

\* The provider reports a signature with the signature.
LEMMA ProviderTrue ==
    ASSUME TypeInv, SignatureInv, SignaturesGrow, NEW e \in Envelopes,
           NEW s \in Signers, Sign(e, s) \/ Reject(e, s)
    PROVE  SignatureInv'
  <1>1. worker' = worker /\ row' = row
    BY DEF Sign, Reject, database
  <1>2. ASSUME NEW m \in sent' \ sent
        PROVE  ReportTrue(m, envelope')
    <2>1. CASE Sign(e, s)
      <3>1. /\ envelope'[e].signed = envelope[e].signed \cup {s}
            /\ envelope'[e].state = "open"
        BY <2>1 DEF Sign, TypeInv, TypeOK, StoreOK
      <3>2. m \in ReportsOf(e, s, "signed", envelope'[e].signed)
        BY <2>1 DEF Sign
      <3> QED
        BY <3>1, <3>2 DEF ReportsOf, ReportTrue
    <2>2. CASE Reject(e, s)
      <3>1. /\ envelope'[e].signed = envelope[e].signed
            /\ envelope'[e].state = "rejected"
        BY <2>2 DEF Reject, TypeInv, TypeOK, StoreOK
      <3>2. m \in ReportsOf(e, s, "rejected", envelope[e].signed)
        BY <2>2 DEF Reject
      <3> QED
        BY <3>1, <3>2 DEF ReportsOf, ReportTrue
    <2> QED
      BY <2>1, <2>2
  <1>3. ReportsTrue'
    BY <1>2, TruthRemains DEF ReportsTrue
  <1>4. \A q \in Workers : RequestTrue(worker[q])'
    BY <1>1, TruthRemains
  <1>5. RowsTrue'
    BY <1>1, BelievedGrows DEF RowsTrue, SignatureInv
  <1> QED
    BY <1>3, <1>4, <1>5 DEF SignatureInv, SignaturesGrow

LEMMA SavesNothingTrue ==
    ASSUME TypeInv, SignatureInv, SignaturesGrow, NEW p \in Workers,
           NothingToSave(p), row' = row, UNCHANGED provider
    PROVE  SignatureInv'
  <1>1. RowsTrue'
    BY BelievedGrows DEF SignatureInv, RowsTrue
  <1> QED
    BY <1>1, TrueStep DEF NothingToSave, RequestTrue, provider

LEMMA SignatureStep ==
    TypeInv /\ SignatureInv /\ [Next]_vars => SignatureInv'
  <1> SUFFICES ASSUME TypeInv, SignatureInv, [Next]_vars PROVE SignatureInv'
    OBVIOUS
  <1>1. SignaturesGrow
    BY StepsGrow
  <1>2. ASSUME NEW p \in Workers, Proceed(p)
        PROVE  SignatureInv'
    <2>1. CASE IdleProceed(p)
      BY <1>1, <2>1, IdleProceedSavesNothing, SavesNothingTrue
    <2> QED
      BY <1>1, <1>2, <2>1, CreateEnvelopeTrue, RevokeTrue, InsertRowsTrue, MarkRowTrue,
         SaveRowsTrue, SavePollTrue
      DEF Proceed, IdleProceed
  <1>3. ASSUME NEW p \in Workers, Request(p) \/ Fail(p)
        PROVE  SignatureInv'
    <2>1. CASE \E e \in Envelopes : PollStatus(p, e)
      BY <1>1, <2>1, PollStatusTrue
    <2>2. CASE ~\E e \in Envelopes : PollStatus(p, e)
      <3>1. NothingToSave(p) /\ row' = row /\ UNCHANGED provider
        BY <1>3, <2>2, IdleRequestSavesNothing DEF Request
      <3> QED
        BY <1>1, <3>1, SavesNothingTrue
    <2> QED
      BY <2>1, <2>2
  <1>4. ASSUME NEW p \in Workers, Deliver(p)
        PROVE  SignatureInv'
    BY <1>1, <1>4, ReceiveWebhookTrue, ReceiveCallbackTrue DEF Deliver
  <1>5. ASSUME Provider
        PROVE  SignatureInv'
    BY <1>1, <1>5, ProviderTrue DEF Provider
  <1>6. CASE UNCHANGED vars
    <2>1. worker' = worker /\ row' = row /\ sent' = sent
      BY <1>6 DEF vars
    <2>2. RowsTrue'
      BY <1>1, <2>1, BelievedGrows DEF SignatureInv, RowsTrue
    <2>3. ReportsTrue' /\ \A q \in Workers : RequestTrue(worker[q])'
      BY <1>1, <2>1, TruthRemains DEF ReportsTrue
    <2> QED
      BY <1>1, <2>2, <2>3 DEF SignatureInv, SignaturesGrow
  <1> QED
    BY <1>2, <1>3, <1>4, <1>5, <1>6 DEF Next

\* Whatever the forms and the order in which reports arrive, and however often,
\* a row says SIGNED only if its signer has signed, or if the name of an event
\* that is not a signature of that signer was taken for one
\* (process-signature-webhook).
THEOREM SignaturesTrue == Spec => []SignedRowsAreSigned
  <1>1. SignatureInv => SignedRowsAreSigned
    BY DEF SignatureInv, RowsTrue, Believed, SignedRowsAreSigned
  <1> QED
    BY <1>1, TypeInit, TypeStep, SignatureInit, SignatureStep, PTL DEF Spec

-----------------------------------------------------------------------------
(* No unsigned contract is activated *)

\* Both parties are taken to have signed one and the same envelope of the
\* contract.
Backed(c) == \E e \in Envelopes : envelope[e].of = c /\ Signers \subseteq Believed[e]

\* What a transaction needs to activate its contract: the signatures, or that
\* it has closed the contract by hand.
Cause(w) == Backed(w.c) \/ (w.wrote /\ w.st = "CLOSED_WITHOUT_SIGNATURE")

\* A transaction towards SIGNED has signatures behind it, one that closes the
\* contract by hand starts with the write, and whatever activates has a cause.
Justified(w) ==
    /\ w.pc \in {"read", "write"} /\ w.st = "SIGNED" => Backed(w.c)
    /\ w.st = "CLOSED_WITHOUT_SIGNATURE" => w.pc # "read"
    /\ w.pc \in {"activate", "linkCustomer", "createEvent", "createPayments"}
         => Cause(w)
    /\ w.pc = "commit" /\ w.number # 0 => Cause(w)

\* Inductive, together with TypeInv, SignatureInv and PaymentInv.
JustifiedInv == \A p \in Workers : Justified(worker[p])

LEMMA JustifiedInit == Init => JustifiedInv
  <1> SUFFICES ASSUME Init PROVE JustifiedInv
    OBVIOUS
  <1>1. None \notin ContractStatus
    BY NoneAssumption
  <1> QED
    BY <1>1 DEF Init, Idle, JustifiedInv, Justified, TransactionPCs, ContractStatus

\* Such an envelope stays so, and stays with its contract.
LEMMA BackedRemains ==
    ASSUME TypeInv, SignatureInv, [Next]_vars, NEW c, Backed(c)
    PROVE  Backed(c)'
  <1>1. PICK e \in Envelopes : envelope[e].of = c /\ Signers \subseteq Believed[e]
    BY DEF Backed
  <1>2. SignaturesGrow
    BY StepsGrow
  <1>3. "CLIENT" \in Believed[e]
    BY <1>1 DEF Signers
  <1>4. envelope'[e].of = c
    BY <1>1, <1>2, <1>3, BelievedExists DEF SignaturesGrow
  <1>5. Signers \subseteq Believed'[e]
    BY <1>1, <1>2, BelievedGrows
  <1> QED
    BY <1>4, <1>5 DEF Backed

\* A contract whose rows, of whatever envelopes, all say SIGNED is signed.
LEMMA SignedContractBacked ==
    ASSUME TypeInv, SignatureInv, NEW c \in Contracts, StatusesOf(c) = {"SIGNED"}
    PROVE  Backed(c)
  <1>1. PICK e \in EnvelopesOf(c) : TRUE
    BY DEF StatusesOf
  <1>2. ASSUME NEW s \in Signers PROVE row[e][s].status = "SIGNED"
    <2>1. row[e][s].status \in StatusesOf(c)
      BY <1>1, SMT DEF StatusesOf
    <2> QED
      BY <2>1
  <1>3. e \in Envelopes /\ envelope[e].of = c
    BY <1>1 DEF EnvelopesOf
  <1>4. Signers \subseteq Believed[e]
    BY <1>2, <1>3 DEF SignatureInv, RowsTrue
  <1> QED
    BY <1>3, <1>4 DEF Backed

LEMMA ResolvedSigned ==
    ASSUME NEW statuses
    PROVE  /\ ResolveContractStatus(statuses) = "SIGNED" => statuses = {"SIGNED"}
           /\ ResolveContractStatus(statuses) # "CLOSED_WITHOUT_SIGNATURE"
  BY DEF ResolveContractStatus

\* A step after which the request is not in its transaction.
NotInTransaction(p) ==
    /\ worker'[p].pc \notin TransactionPCs
    /\ \A q \in Workers : q # p => worker'[q] = worker[q]

LEMMA JustifiedMove ==
    ASSUME TypeInv, SignatureInv, JustifiedInv, [Next]_vars,
           NEW p \in Workers, NEW w, Goto(p, w), Justified(w)
    PROVE  JustifiedInv'
  <1>1. ASSUME NEW q \in Workers
        PROVE  Justified(worker'[q])
    BY DEF Goto, TypeInv, TypeOK, JustifiedInv
  <1>2. ASSUME NEW q \in Workers
        PROVE  Justified(worker[q])'
    BY <1>1, BackedRemains DEF Justified, Cause
  <1> QED
    BY <1>2 DEF JustifiedInv

LEMMA NotInTransactionJustified ==
    ASSUME TypeInv, SignatureInv, JustifiedInv, [Next]_vars,
           NEW p \in Workers, NotInTransaction(p)
    PROVE  JustifiedInv'
  <1>1. ASSUME NEW q \in Workers
        PROVE  Justified(worker[q])'
    <2>1. CASE q = p
      BY <2>1 DEF NotInTransaction, Justified, TransactionPCs
    <2>2. CASE q # p
      BY <2>2, BackedRemains DEF NotInTransaction, JustifiedInv, Justified, Cause
    <2> QED
      BY <2>1, <2>2
  <1> QED
    BY <1>1 DEF JustifiedInv

LEMMA ResolveStatusJustified ==
    ASSUME TypeInv, SignatureInv, JustifiedInv, [Next]_vars,
           NEW p \in Workers, ResolveStatus(p)
    PROVE  JustifiedInv'
  <1> DEFINE status == ResolveContractStatus(StatusesOf(worker[p].c))
             w == [worker[p] EXCEPT !.pc = "read", !.st = status]
  <1>1. worker[p] \in WorkerStates /\ worker[p].c \in Contracts
    BY WorkerNow DEF ResolveStatus, At, TypeInv, WorkerFits, ContractPCs, PCs
  <1>2. Goto(p, w)
    BY DEF ResolveStatus
  <1>3. status = "SIGNED" => Backed(worker[p].c)
    BY <1>1, SignedContractBacked, ResolvedSigned
  <1>4. status # "CLOSED_WITHOUT_SIGNATURE"
    BY ResolvedSigned
  <1> HIDE DEF status
  <1>5. w.pc = "read" /\ w.c = worker[p].c /\ w.st = status
    BY <1>1 DEF WorkerStates
  <1> HIDE DEF w
  <1>6. Justified(w)
    BY <1>3, <1>4, <1>5 DEF Justified
  <1> QED
    BY <1>2, <1>6, JustifiedMove

LEMMA ReadContractJustified ==
    ASSUME TypeInv, SignatureInv, PaymentInv, JustifiedInv, [Next]_vars,
           NEW p \in Workers, ReadContract(p)
    PROVE  JustifiedInv'
  <1> DEFINE v == [worker[p] EXCEPT !.pc = AfterStatus(worker[p])]
             w == [worker[p] EXCEPT !.pc = "write",
                                    !.cust = contract[worker[p].c].customer]
  <1>1. /\ worker[p] \in WorkerStates /\ worker[p].pc = "read"
        /\ worker[p].number = 0
    BY WorkerNow DEF ReadContract, At, PaymentInv, NumberedPCs
  <1>2. Goto(p, v) \/ Goto(p, w)
    BY DEF ReadContract
  <1>3. Justified(worker[p])
    BY DEF JustifiedInv
  <1>4. /\ v.st = worker[p].st /\ v.c = worker[p].c
        /\ v.pc = AfterStatus(worker[p]) /\ v.number = 0
        /\ w.st = worker[p].st /\ w.c = worker[p].c /\ w.pc = "write"
    BY <1>1 DEF WorkerStates
  <1> HIDE DEF v, w
  <1>5. Justified(v) /\ Justified(w)
    BY <1>1, <1>3, <1>4 DEF Justified, Cause, AfterStatus, ActiveStatuses
  <1> QED
    BY <1>2, <1>5, JustifiedMove

LEMMA WriteContractJustified ==
    ASSUME TypeInv, SignatureInv, PaymentInv, JustifiedInv, [Next]_vars,
           NEW p \in Workers, WriteContract(p)
    PROVE  JustifiedInv'
  <1> DEFINE v == [worker[p] EXCEPT !.pc = AfterStatus(worker[p])]
             w(cust) == [worker[p] EXCEPT !.pc = AfterStatus(worker[p]),
                                          !.wrote = TRUE, !.cust = cust]
  <1>1. /\ worker[p] \in WorkerStates /\ worker[p].pc = "write"
        /\ worker[p].number = 0
    BY WorkerNow DEF WriteContract, At, PaymentInv, NumberedPCs
  <1>2. \/ \E cust : Goto(p, w(cust))
        \/ worker[p].st # "CLOSED_WITHOUT_SIGNATURE" /\ Goto(p, v)
    BY DEF WriteContract
  <1>3. Justified(worker[p])
    BY DEF JustifiedInv
  <1>4. /\ v.st = worker[p].st /\ v.c = worker[p].c
        /\ v.pc = AfterStatus(worker[p]) /\ v.number = 0
        /\ \A cust : /\ w(cust).st = worker[p].st /\ w(cust).c = worker[p].c
                      /\ w(cust).wrote = TRUE /\ w(cust).number = 0
                      /\ w(cust).pc = AfterStatus(worker[p])
    BY <1>1 DEF WorkerStates
  <1> HIDE DEF v, w
  <1>5. /\ \A cust : Justified(w(cust))
        /\ worker[p].st # "CLOSED_WITHOUT_SIGNATURE" => Justified(v)
    BY <1>1, <1>3, <1>4 DEF Justified, Cause, AfterStatus, ActiveStatuses
  <1> QED
    BY <1>2, <1>5, JustifiedMove

\* The steps that activate a contract keep their cause.
LEMMA ActivationJustifiedStep ==
    ASSUME TypeInv, SignatureInv, JustifiedInv, [Next]_vars, NEW p \in Workers,
           \/ FindCustomer(p) \/ LinkCustomer(p)
           \/ CreateEvent(p) \/ CreatePayments(p)
    PROVE  JustifiedInv'
  <1>1. Cause(worker[p])
    BY ActivationMoves DEF JustifiedInv, Justified
  <1>2. ASSUME NEW q \in Workers
        PROVE  Justified(worker[q])'
    <2>1. CASE q = p
      <3>1. Cause(worker[p])'
        BY <1>1, ActivationMoves, BackedRemains DEF Cause
      <3> QED
        BY <2>1, <3>1, ActivationMoves DEF Justified
    <2>2. CASE q # p
      BY <2>2, ActivationMoves, BackedRemains DEF JustifiedInv, Justified, Cause
    <2> QED
      BY <2>1, <2>2
  <1> QED
    BY <1>2 DEF JustifiedInv

LEMMA CloseContractJustified ==
    ASSUME TypeInv, SignatureInv, JustifiedInv, [Next]_vars,
           NEW p \in Workers, NEW c \in Contracts, CloseContract(p, c)
    PROVE  JustifiedInv'
  <1>1. /\ worker'[p].pc = "write" /\ worker'[p].st = "CLOSED_WITHOUT_SIGNATURE"
        /\ \A q \in Workers : q # p => worker'[q] = worker[q]
    BY DEF CloseContract, Begin, Goto, Idle, TypeInv, TypeOK
  <1>2. ASSUME NEW q \in Workers
        PROVE  Justified(worker[q])'
    <2>1. CASE q = p
      BY <1>1, <2>1 DEF Justified
    <2>2. CASE q # p
      BY <1>1, <2>2, BackedRemains DEF JustifiedInv, Justified, Cause
    <2> QED
      BY <2>1, <2>2
  <1> QED
    BY <1>2 DEF JustifiedInv

\* Every other step leaves its request outside the transaction.
LEMMA ProceedNotInTransaction ==
    ASSUME TypeInv, NEW p \in Workers,
           Proceed(p), ~ResolveStatus(p), ~ReadContract(p), ~WriteContract(p),
           ~FindCustomer(p), ~LinkCustomer(p), ~CreateEvent(p), ~CreatePayments(p)
    PROVE  NotInTransaction(p)
  <1>1. worker[p] \in WorkerStates /\ Idle.pc = "idle"
    BY WorkerNow DEF Idle
  <1>2. CASE \/ EnvelopeRefused(p) \/ MarkSent(p) \/ Commit(p) \/ Abort(p)
             \/ EndRevoke(p) \/ SavePoll(p) \/ InsertPayment(p)
    <2>1. Goto(p, Idle)
      BY <1>2 DEF EnvelopeRefused, MarkSent, Commit, Abort, EndRevoke, SavePoll,
         InsertPayment, Done
    <2> QED
      BY <1>1, <2>1 DEF Goto, NotInTransaction, TransactionPCs, TypeInv, TypeOK
  <1>3. CASE ReuseEnvelope(p) \/ InsertRows(p)
    <2>1. AfterRequest(p).pc \in {"idle", "markSent"} /\ Goto(p, AfterRequest(p))
      BY <1>1, <1>3 DEF AfterRequest, WorkerStates, ReuseEnvelope, InsertRows
    <2> QED
      BY <2>1 DEF Goto, NotInTransaction, TransactionPCs, TypeInv, TypeOK
  <1>4. CASE SaveRows(p) \/ SaveUpdate(p) \/ SaveCancel(p)
    <2> DEFINE w(pc) == [Idle EXCEPT !.pc = pc, !.c = worker[p].c]
    <2>1. Goto(p, Idle) \/ Goto(p, w("resolve")) \/ Goto(p, w("listRows"))
      BY <1>4 DEF SaveRows, SaveUpdate, SaveCancel, Done
    <2>2. w("resolve").pc = "resolve" /\ w("listRows").pc = "listRows"
      BY DEF Idle
    <2> HIDE DEF w
    <2> QED
      BY <1>1, <2>1, <2>2 DEF Goto, NotInTransaction, TransactionPCs, TypeInv, TypeOK
  <1>5. CASE \/ NoActiveEnvelope(p) \/ CreateEnvelope(p) \/ ListRows(p)
             \/ Revoke(p) \/ RevokeRefused(p) \/ MarkRow(p)
    <2>1. /\ worker'[p].pc \in {"create", "insert", "revoke", "markRow"}
          /\ \A q \in Workers : q # p => worker'[q] = worker[q]
      <3>1. CASE NoActiveEnvelope(p)
        BY <1>1, <3>1 DEF NoActiveEnvelope, Goto, TypeInv, TypeOK, WorkerStates
      <3>2. CASE CreateEnvelope(p)
        BY <1>1, <3>2 DEF CreateEnvelope, Goto, TypeInv, TypeOK, WorkerStates
      <3>3. CASE ListRows(p)
        BY <1>1, <3>3 DEF ListRows, Goto, TypeInv, TypeOK, WorkerStates
      <3>4. CASE Revoke(p)
        BY <1>1, <3>4 DEF Revoke, Goto, TypeInv, TypeOK, WorkerStates
      <3>5. CASE RevokeRefused(p)
        BY <1>1, <3>5 DEF RevokeRefused, At, Goto, TypeInv, TypeOK, WorkerStates
      <3>6. CASE MarkRow(p)
        BY <1>1, <3>6 DEF MarkRow, Goto, TypeInv, TypeOK, WorkerStates
      <3> QED
        BY <1>5, <3>1, <3>2, <3>3, <3>4, <3>5, <3>6
    <2> QED
      BY <2>1 DEF NotInTransaction, TransactionPCs
  <1> QED
    BY <1>2, <1>3, <1>4, <1>5 DEF Proceed

LEMMA RequestNotInTransaction ==
    ASSUME TypeInv, NEW p \in Workers, Request(p) \/ Deliver(p) \/ Fail(p),
           ~\E c \in Contracts : CloseContract(p, c)
    PROVE  NotInTransaction(p)
  <1>1. /\ worker'[p].pc \in {"idle", "check", "saveUpdate", "saveCancel", "revoke",
                              "savePoll", "saveRows", "insertPayment"}
        /\ \A q \in Workers : q # p => worker'[q] = worker[q]
    <2>1. CASE Fail(p)
      BY <2>1 DEF Fail, Done, Goto, Idle, TypeInv, TypeOK
    <2>2. ASSUME NEW c \in Contracts,
                 SendContract(p, c) \/ RequestSignature(p, c) \/ LookUpPayment(p, c)
          PROVE  <1>1!1 /\ <1>1!2
      BY <2>2 DEF SendContract, RequestSignature, LookUpPayment, Begin, Goto, Idle, TypeInv, TypeOK
    <2>3. ASSUME NEW c \in Contracts, NEW status \in ContractStatus,
                 ReadForUpdate(p, c, status)
          PROVE  <1>1!1 /\ <1>1!2
      BY <2>3 DEF ReadForUpdate, Begin, Goto, Idle, TypeInv, TypeOK
    <2>4. ASSUME NEW e \in Envelopes, CancelRequest(p, e) \/ PollStatus(p, e)
          PROVE  <1>1!1 /\ <1>1!2
      BY ZenonT(60), <2>4 DEF CancelRequest, PollStatus, Begin, Goto, Idle, TypeInv, TypeOK
    <2>5. ASSUME NEW m \in sent, ReceiveWebhook(p, m) \/ ReceiveCallback(p, m)
          PROVE  <1>1!1 /\ <1>1!2
      BY ZenonT(60), <2>5 DEF ReceiveWebhook, ReceiveCallback, Begin, Goto, Idle, TypeInv, TypeOK
    <2> QED
      BY <2>1, <2>2, <2>3, <2>4, <2>5 DEF Request, Deliver
  <1> QED
    BY <1>1 DEF NotInTransaction, TransactionPCs

LEMMA JustifiedStep ==
    TypeInv /\ SignatureInv /\ PaymentInv /\ JustifiedInv /\ [Next]_vars
      => JustifiedInv'
  <1> SUFFICES ASSUME TypeInv, SignatureInv, PaymentInv, JustifiedInv, [Next]_vars
               PROVE  JustifiedInv'
    OBVIOUS
  <1>1. ASSUME NEW p \in Workers, Proceed(p)
        PROVE  JustifiedInv'
    BY <1>1, ProceedNotInTransaction, NotInTransactionJustified, ResolveStatusJustified,
       ReadContractJustified, WriteContractJustified, ActivationJustifiedStep
  <1>2. ASSUME NEW p \in Workers, Request(p) \/ Deliver(p) \/ Fail(p)
        PROVE  JustifiedInv'
    BY <1>2, RequestNotInTransaction, NotInTransactionJustified, CloseContractJustified
  <1>3. CASE worker' = worker
    BY <1>3, BackedRemains DEF JustifiedInv, Justified, Cause
  <1> QED
    BY <1>1, <1>2, <1>3 DEF Next, Provider, Sign, Reject, vars

\* An event comes to exist in a commit, and what the commit leaves of the
\* contract, or what is behind it, justifies the event.
LEMMA JustifiedActivation ==
    TypeInv /\ JustifiedInv /\ [Next]_vars
      => [\A c \in Contracts :
            event[c].number = 0 /\ event'[c].number # 0
              => \/ contract'[c].status = "CLOSED_WITHOUT_SIGNATURE"
                 \/ \E e \in Envelopes :
                       envelope[e].of = c /\ \A s \in Signers : Vouched(e, s)]_vars
  <1> SUFFICES ASSUME TypeInv, JustifiedInv, [Next]_vars, NEW c \in Contracts,
                      event[c].number = 0, event'[c].number # 0
               PROVE  contract'[c].status = "CLOSED_WITHOUT_SIGNATURE" \/ Backed(c)
    BY DEF Backed, Believed
  <1>1. PICK p \in Workers : Commit(p)
    BY QuietStep DEF BillingStep, CreateEvent, CreatePayments, database
  <1> DEFINE w == worker[p]
  <1>2. w.pc = "commit" /\ w.c \in Contracts
    BY <1>1, TransactionNow DEF Commit, At, TransactionPCs
  <1>3. /\ w.c = c /\ event'[c] = CommittedEvent(w)
        /\ contract'[c] = CommittedContract(w)
    BY <1>1, <1>2 DEF Commit, TypeInv, TypeOK, StoreOK
  <1>4. w.number # 0
    BY <1>3, <1>2 DEF CommittedEvent, TypeInv, TypeOK, StoreOK
  <1>5. Cause(w)
    BY <1>2, <1>4 DEF JustifiedInv, Justified
  <1> QED
    BY <1>3, <1>5 DEF Cause, CommittedContract, SeenStatus

\* No mix of stale rows, late or repeated reports, polls, failures and manual
\* updates creates the event of a contract that nobody closed and that was not
\* signed by both parties on one envelope, unless the name of an event was
\* taken for a missing signature.
THEOREM EventsJustified == Spec => ActivationJustified
  <1> QED
    BY TypeInit, TypeStep, SignatureInit, SignatureStep, JustifiedInit,
       JustifiedStep, JustifiedActivation, PaymentInit, PaymentStep, PTL
    DEF Spec, ActivationJustified

=============================================================================
