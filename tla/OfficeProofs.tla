---------------------------- MODULE OfficeProofs -----------------------------
(***************************************************************************)
(* The properties of Office, part by part.  A step of Office is, for each  *)
(* part, a step of that part or leaves it alone (PartSteps), so that an    *)
(* invariant of a part is one of Office.                                   *)
(***************************************************************************)
EXTENDS Office, FiniteSetTheorems, TLAPS

\* What a step of Office is to each of its parts.
LEMMA PartSteps ==
    ASSUME [Next]_vars
    PROVE  /\ [C!Next]_credentialVars
           /\ [S!Next]_sessionVars
           /\ [R!Next]_recoveryVars
           /\ [U!Next]_accessVars
           /\ [L!Next]_leadVars
  <1>1. CASE part = "credentials" /\ C!Next /\ Rest("credentials")
    BY <1>1 DEF Rest
  <1>2. CASE part = "sessions" /\ S!Next /\ Rest("sessions")
    BY <1>2 DEF Rest
  <1>3. CASE part = "recovery" /\ R!Next /\ Rest("recovery")
    BY <1>3 DEF Rest
  <1>4. CASE part = "access" /\ U!Next /\ Rest("access")
    BY <1>4 DEF Rest
  <1>5. CASE part = "leads" /\ L!Next /\ Rest("leads")
    BY <1>5 DEF Rest
  <1>6. CASE UNCHANGED vars
    BY <1>6 DEF vars, credentialVars, sessionVars, recoveryVars, accessVars, leadVars
  <1> QED
    BY <1>1, <1>2, <1>3, <1>4, <1>5, <1>6 DEF Next

-----------------------------------------------------------------------------
(* Credentials *)

LEMMA LoginForms ==
    /\ C!Idle \in C!Logins
    /\ \A x \in C!Logins : /\ [x EXCEPT !.early = TRUE] \in C!Logins
                           /\ [x EXCEPT !.pc = "session"] \in C!Logins
  <1>1. C!Idle \in C!Logins
    BY LimitAssumption DEF C!Idle, C!Logins
  <1>2. ASSUME NEW x \in C!Logins
        PROVE  [x EXCEPT !.early = TRUE] \in C!Logins
    BY <1>2, ZenonT(60) DEF C!Logins
  <1>3. ASSUME NEW x \in C!Logins
        PROVE  [x EXCEPT !.pc = "session"] \in C!Logins
    BY <1>3, ZenonT(60) DEF C!Logins
  <1> QED
    BY <1>1, <1>2, <1>3

LEMMA CredentialTypeInit == C!Init => C!TypeOK
  <1> SUFFICES ASSUME C!Init
               PROVE  C!TypeOK
    OBVIOUS
  <1>1. attempts \in 0 .. Limit - 1 /\ failures \in 0 .. Limit
    BY LimitAssumption DEF C!Init
  <1>2. locked \in BOOLEAN /\ late \in BOOLEAN
    BY DEF C!Init
  <1>3. login \in [Workers -> C!Logins]
    BY LoginForms DEF C!Init
  <1> QED
    BY <1>1, <1>2, <1>3 DEF C!TypeOK

LEMMA CredentialTypeStep == C!TypeOK /\ [C!Next]_credentialVars => C!TypeOK'
  <1> SUFFICES ASSUME C!TypeOK, [C!Next]_credentialVars
               PROVE  C!TypeOK'
    OBVIOUS
  <1> USE LimitAssumption DEF C!TypeOK
  <1>1. ASSUME NEW p \in Workers, C!BeginLogin(p)
        PROVE  C!TypeOK'
    BY <1>1 DEF C!BeginLogin, C!Logins, C!Idle
  <1>2. ASSUME NEW p \in Workers, C!RegisterFailedLogin(p)
        PROVE  C!TypeOK'
    <2> DEFINE n == login[p].read + 1
    <2>1. n \in 1 .. Limit
      BY DEF C!Logins
    <2>2. attempts' \in 0 .. Limit - 1 /\ failures' \in 0 .. Limit
      BY <1>2, <2>1 DEF C!RegisterFailedLogin, C!CountAfter
    <2>3. locked' \in BOOLEAN /\ late' \in BOOLEAN
      BY <1>2 DEF C!RegisterFailedLogin
    <2>4. login' \in [Workers -> C!Logins]
      BY <1>2, LoginForms DEF C!RegisterFailedLogin
    <2> QED
      BY <2>2, <2>3, <2>4
  <1>3. ASSUME NEW p \in Workers, C!CreateSession(p) \/ C!Drop(p)
        PROVE  C!TypeOK'
    <2>1. login' \in [Workers -> C!Logins]
      <3>1. CASE C!CreateSession(p)
        BY <3>1, LoginForms DEF C!CreateSession
      <3>2. CASE C!Drop(p)
        BY <3>2, LoginForms DEF C!Drop
      <3> QED
        BY <1>3, <3>1, <3>2
    <2> QED
      BY <1>3, <2>1 DEF C!CreateSession, C!Drop
  <1>4. ASSUME NEW done \in SUBSET Workers, C!TakeBack(done)
        PROVE  C!TypeOK'
    <2>1. login' \in [Workers -> C!Logins]
      BY <1>4, LoginForms DEF C!TakeBack
    <2>2. attempts' \in 0 .. Limit - 1 /\ failures' \in 0 .. Limit
      BY <1>4 DEF C!TakeBack
    <2>3. locked' \in BOOLEAN /\ late' \in BOOLEAN
      BY <1>4 DEF C!TakeBack
    <2> QED
      BY <2>1, <2>2, <2>3
  <1>5. CASE C!LockEnds
    BY <1>5 DEF C!LockEnds
  <1>6. CASE UNCHANGED credentialVars
    BY <1>6 DEF credentialVars
  <1>7. C!TakeBack({}) => C!TypeOK'
    BY <1>4
  <1>8. \A p \in Workers : C!TakeBack({p}) => C!TypeOK'
    BY <1>4
  <1> QED
    BY <1>1, <1>2, <1>3, <1>5, <1>6, <1>7, <1>8
    DEF C!Next, C!Unlock, C!RegisterSuccessfulLogin

\* What a login that goes on has read is counted no higher than the failures,
\* unless all was taken back after it read.
ReadHaveFailed ==
    late \/ \A p \in Workers :
                login[p].pc = "verify" /\ ~ login[p].early => login[p].read <= failures

CredentialInv == C!TypeOK /\ C!CountedHaveFailed /\ ReadHaveFailed

LEMMA CountStep == CredentialInv /\ [C!Next]_credentialVars => CredentialInv'
  <1> SUFFICES ASSUME CredentialInv, [C!Next]_credentialVars
               PROVE  C!CountedHaveFailed' /\ ReadHaveFailed'
    BY CredentialTypeStep DEF CredentialInv
  <1> C!TypeOK'
    BY CredentialTypeStep DEF CredentialInv
  <1> USE LimitAssumption
      DEF CredentialInv, C!TypeOK, C!Logins, C!Idle, C!CountedHaveFailed, ReadHaveFailed
  <1>1. ASSUME NEW p \in Workers, C!BeginLogin(p)
        PROVE  C!CountedHaveFailed' /\ ReadHaveFailed'
    BY <1>1 DEF C!BeginLogin
  <1>2. ASSUME NEW p \in Workers, C!RegisterFailedLogin(p), login[p].read + 1 < Limit
        PROVE  C!CountedHaveFailed' /\ ReadHaveFailed'
    BY <1>2 DEF C!RegisterFailedLogin, C!CountAfter
  <1>3. ASSUME NEW p \in Workers, C!RegisterFailedLogin(p), ~ (login[p].read + 1 < Limit)
        PROVE  C!CountedHaveFailed' /\ ReadHaveFailed'
    BY <1>3 DEF C!RegisterFailedLogin, C!CountAfter
  <1>4. ASSUME NEW p \in Workers, C!CreateSession(p) \/ C!Drop(p)
        PROVE  C!CountedHaveFailed' /\ ReadHaveFailed'
    BY <1>4 DEF C!CreateSession, C!Drop
  <1>5. ASSUME NEW done \in SUBSET Workers, C!TakeBack(done)
        PROVE  C!CountedHaveFailed' /\ ReadHaveFailed'
    BY <1>5 DEF C!TakeBack
  <1>6. CASE C!LockEnds \/ UNCHANGED credentialVars
    BY <1>6 DEF C!LockEnds, credentialVars
  <1>7. C!TakeBack({}) => C!CountedHaveFailed' /\ ReadHaveFailed'
    BY <1>5
  <1>8. \A p \in Workers : C!TakeBack({p}) => C!CountedHaveFailed' /\ ReadHaveFailed'
    BY <1>5
  <1> QED
    BY <1>1, <1>2, <1>3, <1>4, <1>6, <1>7, <1>8
    DEF C!Next, C!Unlock, C!RegisterSuccessfulLogin

\* No credential's count is higher than the logins that have failed since it
\* was last taken back, whatever the logins that overlap.
THEOREM CountsHaveFailed == Spec => []CountedHaveFailed
  <1>1. Init => CredentialInv
    BY CredentialTypeInit DEF Init, CredentialInv, C!Init, C!CountedHaveFailed,
        ReadHaveFailed, C!Idle
  <1>2. CredentialInv /\ [Next]_vars => CredentialInv'
    BY CountStep, PartSteps
  <1>3. CredentialInv => CountedHaveFailed
    BY DEF CredentialInv, CountedHaveFailed
  <1> QED
    BY <1>1, <1>2, <1>3, PTL DEF Spec

-----------------------------------------------------------------------------
(* Leads *)

LEMMA LeadForms ==
    /\ L!Idle \in L!WorkerStates
    /\ \A l \in L!Leads, name \in L!Names \cup {None}, status \in L!LeadStatus \cup {None},
          pc \in {"insert", "lookup", "reload", "put"} :
         [[[L!Idle EXCEPT !.pc = pc] EXCEPT !.l = l]
            EXCEPT !.save = [name |-> name, status |-> status]] \in L!WorkerStates
    /\ \A x \in L!WorkerStates :
         /\ [x EXCEPT !.fresh = FALSE] \in L!WorkerStates
         /\ [x EXCEPT !.pc = "reload"] \in L!WorkerStates
  <1>1. L!Idle \in L!WorkerStates
    BY DEF L!Idle, L!WorkerStates, L!Puts
  <1>2. ASSUME NEW l \in L!Leads, NEW name \in L!Names \cup {None},
               NEW status \in L!LeadStatus \cup {None},
               NEW pc \in {"insert", "lookup", "reload", "put"}
        PROVE  [[[L!Idle EXCEPT !.pc = pc] EXCEPT !.l = l]
                  EXCEPT !.save = [name |-> name, status |-> status]] \in L!WorkerStates
    <2> DEFINE put == [name |-> name, status |-> status]
               x == [L!Idle EXCEPT !.pc = pc]
               y == [x EXCEPT !.l = l]
    <2>1. put \in L!Puts
      BY DEF L!Puts
    <2>2. x \in L!WorkerStates
      BY <1>1, ZenonT(60) DEF L!WorkerStates
    <2> HIDE DEF x, put
    <2>3. y \in L!WorkerStates
      BY <2>2, ZenonT(60) DEF L!WorkerStates
    <2> HIDE DEF y
    <2>4. [y EXCEPT !.save = put] \in L!WorkerStates
      BY <2>1, <2>3, ZenonT(60) DEF L!WorkerStates
    <2> QED
      BY <2>4 DEF x, y, put
  <1>3. ASSUME NEW x \in L!WorkerStates
        PROVE  [x EXCEPT !.fresh = FALSE] \in L!WorkerStates
    BY <1>3, ZenonT(60) DEF L!WorkerStates
  <1>4. ASSUME NEW x \in L!WorkerStates
        PROVE  [x EXCEPT !.pc = "reload"] \in L!WorkerStates
    BY <1>4, ZenonT(60) DEF L!WorkerStates
  <1> QED
    BY <1>1, <1>2, <1>3, <1>4

LEMMA LeadTypeInit == L!Init => L!TypeOK
  <1> SUFFICES ASSUME L!Init
               PROVE  L!TypeOK
    OBVIOUS
  <1>1. L!NoLead \in L!Rows
    BY DEF L!NoLead, L!Rows, L!LeadStatus
  <1> QED
    BY <1>1, LeadForms DEF L!Init, L!TypeOK

\* What a request that has read, or reserved, a lead relies on.
LeadForm(p) ==
    LET w == leadWorker[p]
    IN  /\ w.pc # "idle" => w.l \in L!Leads
        /\ w.pc \in {"insert", "lookup", "reload"} =>
             w.save \in L!Rows /\ w.save.name # None
        /\ w.pc = "insert" =>
             /\ lead[w.l] = L!NoLead
             /\ \A q \in Workers \ {p} : leadWorker[q].l # w.l
        /\ w.pc \in {"lookup", "reload", "put"} =>
             /\ lead[w.l].name # None
             /\ w.fresh => L!MayMove(lead[w.l].status, w.save.status)

LeadInv ==
    /\ L!TypeOK
    /\ \A l \in L!Leads : lead[l].name = None => lead[l] = L!NoLead
    /\ \A p \in Workers : LeadForm(p)

LEMMA LeadInvInit == L!Init => LeadInv
  BY LeadTypeInit DEF L!Init, LeadInv, LeadForm, L!Idle

LEMMA CreateLeadStep ==
    ASSUME LeadInv, NEW p \in Workers, NEW l \in L!Leads, NEW input \in Created,
           L!CreateLead(p, l, input)
    PROVE  LeadInv'
  <1> DEFINE w == [L!Idle EXCEPT !.pc = "insert", !.l = l, !.save = input]
  <1>1. /\ input \in L!Rows /\ input.name # None
        /\ input = [name |-> input.name, status |-> input.status]
        /\ input.name \in L!Names /\ input.status \in L!LeadStatus
    BY LeadsAssumption DEF L!Rows
  <1>2. w \in L!WorkerStates
    BY <1>1, LeadForms
  <1>3. w.pc = "insert" /\ w.l = l /\ w.save = input
    BY DEF L!Idle
  <1> HIDE DEF w
  <1>4. /\ leadWorker' = [leadWorker EXCEPT ![p] = w] /\ lead' = lead
        /\ lead[l].name = None /\ \A q \in Workers : leadWorker[q].l # l
    BY DEF L!CreateLead, L!Begin, L!Taken, w
  <1>5. L!TypeOK'
    BY <1>2, <1>4 DEF LeadInv, L!TypeOK
  <1>6. ASSUME NEW q \in Workers
        PROVE  LeadForm(q)'
    <2>1. CASE q = p
      BY <2>1, <1>1, <1>3, <1>4 DEF LeadInv, LeadForm, L!TypeOK
    <2>2. CASE q # p
      BY <2>2, <1>3, <1>4 DEF LeadInv, LeadForm, L!TypeOK
    <2> QED
      BY <2>1, <2>2
  <1> QED
    BY <1>4, <1>5, <1>6 DEF LeadInv

LEMMA InsertLeadStep ==
    ASSUME LeadInv, NEW p \in Workers, L!InsertLead(p)
    PROVE  LeadInv'
  <1> DEFINE l == leadWorker[p].l
             row == leadWorker[p].save
  <1>1. l \in L!Leads /\ row \in L!Rows /\ row.name # None /\ lead[l] = L!NoLead
    BY DEF LeadInv, LeadForm, L!InsertLead, L!At
  <1>2. \A q \in Workers \ {p} : leadWorker[q].l # l
    BY DEF LeadInv, LeadForm, L!InsertLead, L!At
  <1>3. lead' = [lead EXCEPT ![l] = row] /\ leadWorker' = [leadWorker EXCEPT ![p] = L!Idle]
    BY DEF L!InsertLead
  <1> HIDE DEF l, row
  <1>4. L!Idle.pc = "idle" /\ L!Idle.l = None /\ None \notin L!Leads
    BY NoneAssumption, LeadsAssumption DEF L!Idle, L!Leads
  <1>5. L!TypeOK'
    BY <1>1, <1>3, LeadForms DEF LeadInv, L!TypeOK
  <1>6. ASSUME NEW q \in Workers
        PROVE  LeadForm(q)'
    <2>1. CASE q = p
      BY <2>1, <1>3, <1>4 DEF LeadInv, LeadForm, L!TypeOK
    <2>2. CASE q # p
      BY <2>2, <1>1, <1>2, <1>3, <1>4 DEF LeadInv, LeadForm, L!TypeOK
    <2> QED
      BY <2>1, <2>2
  <1>7. \A k \in L!Leads : lead'[k].name = None => lead'[k] = L!NoLead
    BY <1>1, <1>3 DEF LeadInv, L!TypeOK
  <1> QED
    BY <1>5, <1>6, <1>7 DEF LeadInv

LEMMA UpdateLeadStep ==
    ASSUME LeadInv, NEW p \in Workers, NEW l \in L!Leads, NEW input \in Updates,
           L!UpdateLead(p, l, input)
    PROVE  LeadInv'
  <1> DEFINE name == L!Given(input.name, lead[l].name)
             status == L!Given(input.status, lead[l].status)
             pc == IF input.name = None THEN "reload" ELSE "lookup"
             put == [name |-> name, status |-> status]
             w == [L!Idle EXCEPT !.pc = pc, !.l = l, !.save = put]
  <1>1. input.name \in L!Names \cup {None} /\ input.status \in L!LeadStatus \cup {None}
    BY LeadsAssumption
  <1>2. /\ name \in L!Names \cup {None} /\ name # None
        /\ status \in L!LeadStatus
    BY <1>1 DEF L!Given, L!Rows, L!UpdateLead, LeadInv, L!TypeOK
  <1>3. L!MayMove(lead[l].status, status)
    BY DEF L!UpdateLead, L!MayMove, L!Given
  <1>4. leadWorker' = [leadWorker EXCEPT ![p] = w] /\ lead' = lead /\ lead[l].name # None
    BY DEF L!UpdateLead, L!Begin
  <1>5. pc \in {"lookup", "reload"}
    OBVIOUS
  <1> HIDE DEF name, status, pc
  <1>6. w \in L!WorkerStates
    BY <1>2, <1>5, LeadForms
  <1>7. w.pc = pc /\ w.l = l /\ w.save = put
    BY DEF L!Idle
  <1>8. put \in L!Rows /\ put.name # None /\ put.status = status
    BY <1>2 DEF L!Rows
  <1> HIDE DEF w, put
  <1>9. L!TypeOK'
    BY <1>4, <1>6 DEF LeadInv, L!TypeOK
  <1>10. ASSUME NEW q \in Workers
         PROVE  LeadForm(q)'
    <2>1. CASE q = p
      BY <2>1, <1>3, <1>4, <1>5, <1>7, <1>8 DEF LeadInv, LeadForm, L!TypeOK
    <2>2. CASE q # p
      <3>1. leadWorker[q].pc = "insert" => leadWorker[q].l # l
        BY <1>4 DEF LeadInv, LeadForm, L!NoLead
      <3> QED
        BY <3>1, <2>2, <1>4, <1>7 DEF LeadInv, LeadForm, L!TypeOK
    <2> QED
      BY <2>1, <2>2
  <1> QED
    BY <1>4, <1>9, <1>10 DEF LeadInv

LEMMA LookUpDuplicateStep ==
    ASSUME LeadInv, NEW p \in Workers, L!LookUpDuplicate(p)
    PROVE  LeadInv'
  <1> DEFINE w == [leadWorker[p] EXCEPT !.pc = "reload"]
  <1>1. leadWorker' = [leadWorker EXCEPT ![p] = w] /\ lead' = lead
        /\ leadWorker[p].pc = "lookup"
    BY DEF L!LookUpDuplicate, L!At
  <1>2. w \in L!WorkerStates
    BY LeadForms DEF LeadInv, L!TypeOK
  <1>3. /\ w.pc = "reload" /\ w.l = leadWorker[p].l /\ w.save = leadWorker[p].save
        /\ w.fresh = leadWorker[p].fresh
    BY DEF LeadInv, L!TypeOK, L!WorkerStates
  <1> HIDE DEF w
  <1>4. L!TypeOK'
    BY <1>1, <1>2 DEF LeadInv, L!TypeOK
  <1>5. ASSUME NEW q \in Workers
        PROVE  LeadForm(q)'
    <2>1. CASE q = p
      BY <2>1, <1>1, <1>3 DEF LeadInv, LeadForm, L!TypeOK
    <2>2. CASE q # p
      BY <2>2, <1>1, <1>3 DEF LeadInv, LeadForm, L!TypeOK
    <2> QED
      BY <2>1, <2>2
  <1> QED
    BY <1>1, <1>4, <1>5 DEF LeadInv

LEMMA ReloadLeadStep ==
    ASSUME LeadInv, NEW p \in Workers, L!ReloadLead(p)
    PROVE  LeadInv'
  <1> DEFINE l == leadWorker[p].l
             put == [name   |-> L!Differing(leadWorker[p].save.name, lead[l].name),
                     status |-> L!Differing(leadWorker[p].save.status, lead[l].status)]
             x == [leadWorker[p] EXCEPT !.pc = "put"]
             w == [x EXCEPT !.save = put]
  <1>1. leadWorker' = [leadWorker EXCEPT ![p] = w] /\ lead' = lead
        /\ leadWorker[p].pc = "reload"
    BY DEF L!ReloadLead, L!At
  <1>2. put \in L!Puts
    BY <1>1 DEF LeadInv, LeadForm, L!Differing, L!Puts, L!Rows
  <1>3. x \in L!WorkerStates
    BY ZenonT(60) DEF LeadInv, L!TypeOK, L!WorkerStates
  <1>4. w \in L!WorkerStates
    <2> HIDE DEF x, put
    <2> QED
      BY <1>2, <1>3, ZenonT(60) DEF L!WorkerStates
  <1>5. /\ w.pc = "put" /\ w.l = l /\ w.save = put
        /\ w.fresh = leadWorker[p].fresh
    BY DEF LeadInv, L!TypeOK, L!WorkerStates
  <1>6. l \in L!Leads /\ lead[l].name # None
        /\ (leadWorker[p].fresh => L!MayMove(lead[l].status, put.status))
    BY <1>1 DEF LeadInv, LeadForm, L!MayMove, L!Differing
  <1> HIDE DEF w, put, l
  <1>7. L!TypeOK'
    BY <1>1, <1>4 DEF LeadInv, L!TypeOK
  <1>8. ASSUME NEW q \in Workers
        PROVE  LeadForm(q)'
    <2>1. CASE q = p
      BY <2>1, <1>1, <1>5, <1>6 DEF LeadInv, LeadForm, L!TypeOK
    <2>2. CASE q # p
      BY <2>2, <1>1, <1>5 DEF LeadInv, LeadForm, L!TypeOK, l
    <2> QED
      BY <2>1, <2>2
  <1> QED
    BY <1>1, <1>7, <1>8 DEF LeadInv

\* What a write does to the requests that go on.
LEMMA WriteLeadEffect ==
    ASSUME LeadInv, NEW p \in Workers, L!WriteLead(p)
    PROVE  /\ leadWorker[p].pc = "put" /\ leadWorker[p].l \in L!Leads
           /\ lead[leadWorker[p].l].name # None
           /\ lead' = [lead EXCEPT ![leadWorker[p].l] =
                         [name   |-> L!Given(leadWorker[p].save.name, @.name),
                          status |-> L!Given(leadWorker[p].save.status, @.status)]]
           /\ lead'[leadWorker[p].l] \in L!Rows /\ lead'[leadWorker[p].l].name # None
           /\ leadWorker'[p] = L!Idle
           /\ \A q \in Workers \ {p} :
                /\ leadWorker'[q].pc = leadWorker[q].pc
                /\ leadWorker'[q].l = leadWorker[q].l
                /\ leadWorker'[q].save = leadWorker[q].save
                /\ leadWorker'[q].fresh =>
                     leadWorker[q].fresh /\ leadWorker[q].l # leadWorker[p].l
  <1>1. /\ leadWorker[p].pc = "put" /\ leadWorker[p].l \in L!Leads
        /\ lead[leadWorker[p].l].name # None
    BY DEF LeadInv, LeadForm, L!WriteLead, L!At
  <1>2. lead' = [lead EXCEPT ![leadWorker[p].l] =
                   [name   |-> L!Given(leadWorker[p].save.name, @.name),
                    status |-> L!Given(leadWorker[p].save.status, @.status)]]
    BY DEF L!WriteLead
  <1>3. lead'[leadWorker[p].l] \in L!Rows /\ lead'[leadWorker[p].l].name # None
    BY <1>1, <1>2 DEF LeadInv, L!TypeOK, L!WorkerStates, L!Puts, L!Rows, L!Given
  <1>4. leadWorker'[p] = L!Idle
    BY DEF L!WriteLead
  <1>5. ASSUME NEW q \in Workers \ {p}
        PROVE  /\ leadWorker'[q].pc = leadWorker[q].pc
               /\ leadWorker'[q].l = leadWorker[q].l
               /\ leadWorker'[q].save = leadWorker[q].save
               /\ leadWorker'[q].fresh =>
                    leadWorker[q].fresh /\ leadWorker[q].l # leadWorker[p].l
    <2>1. leadWorker'[q] = IF leadWorker[q].l = leadWorker[p].l
                           THEN [leadWorker[q] EXCEPT !.fresh = FALSE] ELSE leadWorker[q]
      BY DEF L!WriteLead
    <2> QED
      BY <2>1 DEF LeadInv, L!TypeOK, L!WorkerStates
  <1> QED
    BY <1>1, <1>2, <1>3, <1>4, <1>5

LEMMA WriteLeadStep ==
    ASSUME LeadInv, NEW p \in Workers, L!WriteLead(p)
    PROVE  LeadInv'
  <1> DEFINE l == leadWorker[p].l
  <1>1. /\ l \in L!Leads /\ lead[l].name # None
        /\ lead'[l] \in L!Rows /\ lead'[l].name # None
        /\ \A k \in L!Leads \ {l} : lead'[k] = lead[k]
        /\ DOMAIN lead' = L!Leads
    BY WriteLeadEffect DEF LeadInv, L!TypeOK
  <1>2. lead' \in [L!Leads -> L!Rows]
    BY <1>1, WriteLeadEffect DEF LeadInv, L!TypeOK
  <1>3. leadWorker' \in [Workers -> L!WorkerStates]
    BY LeadForms DEF LeadInv, L!TypeOK, L!WriteLead
  <1>6. leadWorker'[p].pc = "idle" /\ leadWorker'[p].l = None
    <2>1. leadWorker'[p] = L!Idle
      BY WriteLeadEffect
    <2> QED
      BY <2>1 DEF L!Idle
  <1>4. ASSUME NEW q \in Workers
        PROVE  LeadForm(q)'
    <2>1. CASE q = p
      <3>1. leadWorker'[q].pc = "idle"
        BY <2>1, <1>6
      <3> QED
        BY <3>1 DEF LeadForm
    <2>2. CASE q # p
      <3>1. /\ leadWorker'[q].pc = leadWorker[q].pc
            /\ leadWorker'[q].l = leadWorker[q].l
            /\ leadWorker'[q].save = leadWorker[q].save
            /\ leadWorker'[q].fresh => leadWorker[q].fresh /\ leadWorker[q].l # l
        BY <2>2, WriteLeadEffect
      <3>2. ASSUME leadWorker[q].pc = "insert"
            PROVE  /\ lead'[leadWorker[q].l] = L!NoLead
                   /\ \A r \in Workers \ {q} : leadWorker'[r].l # leadWorker[q].l
        <4>1. leadWorker[q].l # l /\ leadWorker[q].l \in L!Leads
              /\ lead[leadWorker[q].l] = L!NoLead
          BY <3>2, <1>1, <2>2 DEF LeadInv, LeadForm
        <4>2. \A r \in Workers \ {p} : leadWorker'[r].l = leadWorker[r].l
          BY WriteLeadEffect
        <4>3. leadWorker'[p].l = None /\ None \notin L!Leads
          BY <1>6, NoneAssumption, LeadsAssumption DEF L!Leads
        <4>4. \A r \in Workers \ {q} : leadWorker[r].l # leadWorker[q].l
          BY <3>2 DEF LeadInv, LeadForm
        <4> QED
          BY <1>1, <4>1, <4>2, <4>3, <4>4
      <3>3. ASSUME leadWorker[q].pc \in {"lookup", "reload", "put"}
            PROVE  /\ lead'[leadWorker[q].l].name # None
                   /\ leadWorker'[q].fresh =>
                        L!MayMove(lead'[leadWorker[q].l].status, leadWorker[q].save.status)
        BY <3>1, <3>3, <1>1 DEF LeadInv, LeadForm
      <3> QED
        BY <3>1, <3>2, <3>3 DEF LeadInv, LeadForm
    <2> QED
      BY <2>1, <2>2
  <1>5. \A k \in L!Leads : lead'[k].name = None => lead'[k] = L!NoLead
    BY <1>1 DEF LeadInv
  <1> QED
    BY <1>2, <1>3, <1>4, <1>5 DEF LeadInv, L!TypeOK

LEMMA FailedLeadStep ==
    ASSUME LeadInv, NEW p \in Workers, L!Fail(p)
    PROVE  LeadInv'
  <1>1. leadWorker' = [leadWorker EXCEPT ![p] = L!Idle] /\ lead' = lead
    BY DEF L!Fail
  <1>2. L!Idle.pc = "idle" /\ L!Idle.l = None /\ None \notin L!Leads
    BY NoneAssumption, LeadsAssumption DEF L!Idle, L!Leads
  <1>3. L!TypeOK'
    BY <1>1, LeadForms DEF LeadInv, L!TypeOK
  <1>4. ASSUME NEW q \in Workers
        PROVE  LeadForm(q)'
    <2>1. CASE q = p
      BY <2>1, <1>1, <1>2 DEF LeadInv, LeadForm, L!TypeOK
    <2>2. CASE q # p
      BY <2>2, <1>1, <1>2 DEF LeadInv, LeadForm, L!TypeOK
    <2> QED
      BY <2>1, <2>2
  <1> QED
    BY <1>1, <1>3, <1>4 DEF LeadInv

LEMMA LeadInvStep == LeadInv /\ [L!Next]_leadVars => LeadInv'
  <1> SUFFICES ASSUME LeadInv, [L!Next]_leadVars
               PROVE  LeadInv'
    OBVIOUS
  <1>1. CASE UNCHANGED leadVars
    BY <1>1 DEF leadVars, LeadInv, LeadForm, L!TypeOK
  <1>2. CASE L!Next
    BY <1>2, CreateLeadStep, InsertLeadStep, UpdateLeadStep, LookUpDuplicateStep,
       ReloadLeadStep, WriteLeadStep, FailedLeadStep DEF L!Next
  <1> QED
    BY <1>1, <1>2

\* A lead that is won or lost keeps its status, unless an update that had read
\* it before somebody else wrote it is saved: for any number of leads, requests
\* and inputs.
THEOREM OutcomesStay == Spec => OutcomeStays
  <1> DEFINE Stays == \A l \in L!Leads :
          lead[l].status \in {"WON", "LOST"} /\ lead'[l].status # lead[l].status =>
              \E p \in Workers : leadWorker[p].l = l /\ ~ leadWorker[p].fresh
  <1>1. Init => LeadInv
    BY LeadInvInit DEF Init
  <1>2. LeadInv /\ [Next]_vars => LeadInv'
    BY LeadInvStep, PartSteps
  <1>3. LeadInv /\ [Next]_vars => [Stays]_leadVars
    <2> SUFFICES ASSUME LeadInv, [L!Next]_leadVars, NEW l \in L!Leads,
                        lead[l].status \in {"WON", "LOST"}, lead'[l].status # lead[l].status
                 PROVE  \E p \in Workers : leadWorker[p].l = l /\ ~ leadWorker[p].fresh
      BY PartSteps
    <2>1. PICK p \in Workers : L!InsertLead(p) \/ L!WriteLead(p)
      BY DEF L!Next, leadVars, L!CreateLead, L!UpdateLead, L!LookUpDuplicate, L!ReloadLead, L!Fail
    <2>2. ~ L!InsertLead(p)
      <3> SUFFICES ASSUME L!InsertLead(p)
                   PROVE  FALSE
        OBVIOUS
      <3>1. lead[leadWorker[p].l] = L!NoLead
        BY DEF LeadInv, LeadForm, L!InsertLead, L!At
      <3>2. l # leadWorker[p].l
        BY <3>1 DEF L!NoLead
      <3> QED
        BY <3>2 DEF L!InsertLead, LeadInv, L!TypeOK
    <2>3. L!WriteLead(p)
      BY <2>1, <2>2
    <2>4. leadWorker[p].l = l
      BY <2>3, WriteLeadEffect DEF LeadInv, L!TypeOK
    <2>5. lead'[l].status = L!Given(leadWorker[p].save.status, lead[l].status)
      BY <2>3, <2>4 DEF L!WriteLead, LeadInv, L!TypeOK
    <2>6. ~ L!MayMove(lead[l].status, leadWorker[p].save.status)
      BY <2>5 DEF L!MayMove, L!AllowedTransitions, L!LeadStatus, L!Given
    <2>7. leadWorker[p].pc = "put" /\ LeadForm(p)
      BY <2>3 DEF L!WriteLead, L!At, LeadInv
    <2> QED
      BY <2>4, <2>6, <2>7 DEF LeadForm
  <1> QED
    BY <1>1, <1>2, <1>3, PTL DEF Spec, OutcomeStays, L!OutcomeStays, L!vars, leadVars

Named(c) == [client |-> c, padded |-> FALSE]

LEMMA NamedIsName == ASSUME NEW c \in Clients PROVE Named(c) # None
  <1>1. Named(c) \in L!Names
    BY DEF Named, L!Names
  <1> QED
    BY <1>1, LeadsAssumption

\* The requests that will give, or leave, a lead the name of client c.
Naming(c) ==
    {p \in Workers : /\ leadWorker[p].pc \in {"insert", "reload", "put"}
                     /\ leadWorker[p].save.name = Named(c)}

\* The leads of client c, now or when those requests are done.
Held(c) == L!Registered(c) \cup {leadWorker[p].l : p \in Naming(c)}

LEMMA HeldIn ==
    ASSUME NEW c, NEW l
    PROVE  /\ l \in Held(c) <=>
                \/ l \in L!Leads /\ lead[l].name = Named(c)
                \/ \E p \in Naming(c) : l = leadWorker[p].l
           /\ (l \in Held(c))' <=>
                \/ l \in L!Leads /\ lead'[l].name = Named(c)
                \/ \E p \in Naming(c)' : l = leadWorker'[p].l
  BY DEF Held, L!Registered, Named

\* Leads counts as this module does.
LEMMA LeadCardinality == ASSUME NEW T PROVE L!Cardinality(T) = Cardinality(T)
  BY DEF L!Cardinality, Cardinality

\* As many things as there are workers, at most.
LEMMA ImageSmall ==
    ASSUME NEW T, NEW f, T \subseteq {f[p] : p \in Workers}
    PROVE  IsFiniteSet(T) /\ Cardinality(T) <= Cardinality(Workers)
  <1> DEFINE image == {f[p] : p \in Workers}
             g == [p \in Workers |-> f[p]]
  <1>1. g \in Surjection(Workers, image)
    BY DEF Surjection
  <1>2. IsFiniteSet(image) /\ Cardinality(image) <= Cardinality(Workers)
    BY <1>1, FS_Surjection, WorkersAssumption
  <1>3. IsFiniteSet(T) /\ Cardinality(T) <= Cardinality(image)
    BY <1>2, FS_Subset
  <1> QED
    BY <1>2, <1>3, FS_CardinalityType, WorkersAssumption

FewHeld(c) == IsFiniteSet(Held(c)) /\ Cardinality(Held(c)) <= Cardinality(Workers)

\* A step leaves at most the leads that were held, or one for each request.
LEMMA HeldStep ==
    ASSUME LeadInv, [L!Next]_leadVars, NEW c \in Clients
    PROVE  \/ Held(c)' \subseteq Held(c)
           \/ Held(c)' \subseteq {leadWorker'[p].l : p \in Workers}
  <1> SUFFICES ASSUME NEW k, (k \in Held(c))', k \notin Held(c)
               PROVE  Held(c)' \subseteq {leadWorker'[p].l : p \in Workers}
    OBVIOUS
  <1>0. Named(c).client = c /\ Named(c) # None
    BY NamedIsName DEF Named
  <1>1. ASSUME NEW p \in Workers, NEW l \in L!Leads, NEW input \in Created,
               L!CreateLead(p, l, input)
        PROVE  Held(c)' \subseteq {leadWorker'[q].l : q \in Workers}
    <2> DEFINE w == [L!Idle EXCEPT !.pc = "insert", !.l = l, !.save = input]
    <2>1. w.pc = "insert" /\ w.l = l /\ w.save = input
      BY DEF L!Idle
    <2> HIDE DEF w
    <2>2. leadWorker' = [leadWorker EXCEPT ![p] = w] /\ lead' = lead
      BY <1>1 DEF L!CreateLead, L!Begin, w
    <2>3. Naming(c)' \subseteq Naming(c) \cup {p}
      BY <2>2 DEF Naming, LeadInv, L!TypeOK
    <2>4. p \notin Naming(c)
      BY <1>1 DEF L!CreateLead, L!Begin, L!At, Naming
    <2>5. p \in Naming(c)'
      BY <2>2, <2>3, <2>4, HeldIn DEF LeadInv, L!TypeOK
    <2>6. input.name = Named(c)
      BY <2>1, <2>2, <2>5 DEF Naming, LeadInv, L!TypeOK
    <2>7. L!Registered(c) = {}
      <3>1. L!Leads \ {None} = L!Leads
        BY NoneAssumption, LeadsAssumption DEF L!Leads
      <3>2. ~ \E l1 \in L!Leads : lead[l1].name = Named(c)
        BY <1>1, <1>0, <2>6, <3>1 DEF L!CreateLead, L!FindDuplicate, Named
      <3> QED
        BY <3>2 DEF L!Registered, Named
    <2> QED
      BY <2>2, <2>7 DEF Held, L!Registered, Naming
  <1>2. ASSUME NEW p \in Workers, L!InsertLead(p)
        PROVE  FALSE
    <2>1. /\ lead' = [lead EXCEPT ![leadWorker[p].l] = leadWorker[p].save]
          /\ leadWorker' = [leadWorker EXCEPT ![p] = L!Idle] /\ L!Idle.pc = "idle"
          /\ leadWorker[p].pc = "insert"
      BY <1>2 DEF L!InsertLead, L!At, L!Idle
    <2>2. Naming(c)' \subseteq Naming(c) \ {p}
      BY <2>1 DEF Naming, LeadInv, L!TypeOK
    <2>3. \A q \in Naming(c)' : leadWorker'[q].l = leadWorker[q].l
      BY <2>1, <2>2 DEF Naming, LeadInv, L!TypeOK
    <2>4. k \in L!Leads /\ lead'[k].name = Named(c)
      BY <2>2, <2>3, HeldIn
    <2>5. k = leadWorker[p].l /\ leadWorker[p].save.name = Named(c)
      BY <2>1, <2>4, HeldIn DEF LeadInv, L!TypeOK
    <2> QED
      BY <2>1, <2>5, HeldIn DEF Naming
  <1>3. ASSUME NEW p \in Workers, NEW l \in L!Leads, NEW input \in Updates,
               L!UpdateLead(p, l, input)
        PROVE  FALSE
    <2> DEFINE put == [name |-> L!Given(input.name, lead[l].name),
                       status |-> L!Given(input.status, lead[l].status)]
               pc == IF input.name = None THEN "reload" ELSE "lookup"
               w == [L!Idle EXCEPT !.pc = pc, !.l = l, !.save = put]
    <2>1. w.pc = pc /\ w.l = l /\ w.save = put
      BY DEF L!Idle
    <2>2. w.pc = "reload" => w.save.name = lead[l].name
      BY <2>1 DEF L!Given
    <2>3. w.pc \in {"reload", "lookup"}
      BY <2>1
    <2>4. leadWorker' = [leadWorker EXCEPT ![p] = w] /\ lead' = lead
      BY <1>3 DEF L!UpdateLead, L!Begin
    <2> HIDE DEF w
    <2>5. Naming(c)' \subseteq Naming(c) \cup {p}
      BY <2>4 DEF Naming, LeadInv, L!TypeOK
    <2>6. \A q \in Naming(c)' \ {p} : leadWorker'[q].l = leadWorker[q].l
      BY <2>4, <2>5 DEF Naming, LeadInv, L!TypeOK
    <2>7. p \in Naming(c)' => lead[l].name = Named(c)
      BY <2>2, <2>3, <2>4 DEF Naming, LeadInv, L!TypeOK
    <2>8. leadWorker'[p].l = l
      BY <2>1, <2>4 DEF LeadInv, L!TypeOK
    <2> QED
      BY <2>4, <2>5, <2>6, <2>7, <2>8, HeldIn
  <1>4. ASSUME NEW p \in Workers, L!LookUpDuplicate(p)
        PROVE  Held(c)' \subseteq {leadWorker'[q].l : q \in Workers}
    <2> DEFINE w == [leadWorker[p] EXCEPT !.pc = "reload"]
    <2>1. /\ w.pc = "reload" /\ w.l = leadWorker[p].l /\ w.save = leadWorker[p].save
          /\ leadWorker[p].pc = "lookup"
      BY <1>4 DEF LeadInv, L!TypeOK, L!WorkerStates, L!LookUpDuplicate, L!At
    <2>2. leadWorker' = [leadWorker EXCEPT ![p] = w] /\ lead' = lead
      BY <1>4 DEF L!LookUpDuplicate
    <2> HIDE DEF w
    <2>3. Naming(c)' \subseteq Naming(c) \cup {p}
      BY <2>2 DEF Naming, LeadInv, L!TypeOK
    <2>4. \A q \in Naming(c)' \ {p} : leadWorker'[q].l = leadWorker[q].l /\ q \in Naming(c)
      BY <2>2, <2>3 DEF Naming, LeadInv, L!TypeOK
    <2>5. p \in Naming(c)'
      BY <2>2, <2>4, HeldIn
    <2>6. leadWorker[p].save.name = Named(c)
      BY <2>1, <2>2, <2>5 DEF Naming, LeadInv, L!TypeOK
    <2>7. L!Registered(c) \subseteq {leadWorker[p].l}
      <3>1. ~ \E l1 \in L!Leads \ {leadWorker[p].l} : lead[l1].name = Named(c)
        BY <1>4, <1>0, <2>6 DEF L!LookUpDuplicate, L!FindDuplicate, Named
      <3> QED
        BY <3>1 DEF L!Registered, Named
    <2>8. leadWorker'[p].l = leadWorker[p].l
      BY <2>1, <2>2 DEF LeadInv, L!TypeOK
    <2> QED
      BY <2>2, <2>7, <2>8 DEF Held, L!Registered, Naming
  <1>5. ASSUME NEW p \in Workers, L!ReloadLead(p)
        PROVE  FALSE
    <2> DEFINE l == leadWorker[p].l
               put == [name   |-> L!Differing(leadWorker[p].save.name, lead[l].name),
                       status |-> L!Differing(leadWorker[p].save.status, lead[l].status)]
               w == [leadWorker[p] EXCEPT !.pc = "put", !.save = put]
    <2>1. /\ w.l = leadWorker[p].l /\ w.save = put /\ leadWorker[p].pc = "reload"
          /\ put.name \in {None, leadWorker[p].save.name}
      BY <1>5 DEF LeadInv, L!TypeOK, L!WorkerStates, L!ReloadLead, L!At, L!Differing
    <2>2. leadWorker' = [leadWorker EXCEPT ![p] = w] /\ lead' = lead
      BY <1>5 DEF L!ReloadLead
    <2>3. leadWorker[p].save.name # None /\ leadWorker[p].save \in L!Rows
      BY <2>1 DEF LeadInv, LeadForm
    <2> HIDE DEF w, put
    <2>4. leadWorker'[p].save.name \in {None, leadWorker[p].save.name}
          /\ leadWorker'[p].l = leadWorker[p].l
      BY <2>1, <2>2 DEF LeadInv, L!TypeOK
    <2>5. p \in Naming(c)' => p \in Naming(c)
      <3>1. CASE leadWorker'[p].save.name = leadWorker[p].save.name
        BY <2>1, <3>1 DEF Naming
      <3>2. CASE leadWorker'[p].save.name = None /\ Named(c) = None
        BY <3>2, <1>0
      <3> QED
        BY <2>4, <3>1, <3>2 DEF Naming
    <2>6. \A q \in Naming(c)' : leadWorker'[q].l = leadWorker[q].l /\ q \in Naming(c)
      BY <2>2, <2>4, <2>5 DEF Naming, LeadInv, L!TypeOK
    <2> QED
      BY <2>2, <2>6, HeldIn
  <1>6. ASSUME NEW p \in Workers, L!WriteLead(p)
        PROVE  FALSE
    <2>1. \A q \in Naming(c)' : leadWorker'[q].l = leadWorker[q].l /\ q \in Naming(c)
      <3>1. leadWorker'[p] = L!Idle
        BY <1>6, WriteLeadEffect
      <3>2. p \notin Naming(c)'
        BY <3>1 DEF Naming, L!Idle
      <3> QED
        BY <1>6, <3>2, WriteLeadEffect DEF Naming
    <2>2. k \in L!Leads /\ lead'[k].name = Named(c)
      BY <2>1, HeldIn
    <2>3. lead[k].name # Named(c)
      BY <2>2, HeldIn
    <2>4. k = leadWorker[p].l /\ lead'[k].name = L!Given(leadWorker[p].save.name, lead[k].name)
      BY <1>6, <2>2, <2>3 DEF L!WriteLead, LeadInv, L!TypeOK
    <2>5. leadWorker[p].save.name = Named(c) /\ leadWorker[p].pc = "put"
      BY <1>6, <2>2, <2>3, <2>4 DEF L!Given, L!WriteLead, L!At
    <2> QED
      BY <2>4, <2>5, HeldIn DEF Naming
  <1>7. ASSUME NEW p \in Workers, L!Fail(p)
        PROVE  FALSE
    <2>1. lead' = lead /\ leadWorker' = [leadWorker EXCEPT ![p] = L!Idle] /\ L!Idle.pc = "idle"
      BY <1>7 DEF L!Fail, L!Idle
    <2>2. \A q \in Naming(c)' : leadWorker'[q].l = leadWorker[q].l /\ q \in Naming(c)
      BY <2>1 DEF Naming, LeadInv, L!TypeOK
    <2> QED
      BY <2>1, <2>2, HeldIn
  <1>8. CASE UNCHANGED leadVars
    BY <1>8, HeldIn DEF leadVars, Naming
  <1> QED
    BY <1>1, <1>2, <1>3, <1>4, <1>5, <1>6, <1>7, <1>8 DEF L!Next

FewLeadsInv == LeadInv /\ \A c \in Clients : FewHeld(c)

\* However requests overlap, no lookup finds more leads of a client than there
\* are requests at a time, if the leads are not as many to begin with.
THEOREM LeadsStayFew == Spec => []FewLeads
  <1>1. Init => FewLeadsInv
    <2> SUFFICES ASSUME Init, NEW c \in Clients
                 PROVE  FewHeld(c)
      BY LeadInvInit DEF Init, FewLeadsInv
    <2>1. Held(c) = {}
      <3>1. Named(c) # None
        BY NamedIsName
      <3>2. L!Registered(c) = {}
        BY <3>1 DEF Init, L!Init, L!Registered, Named, L!NoLead
      <3>3. Naming(c) = {}
        BY DEF Init, L!Init, Naming, L!Idle
      <3> QED
        BY <3>2, <3>3 DEF Held
    <2> QED
      BY <2>1, ImageSmall DEF FewHeld
  <1>2. FewLeadsInv /\ [Next]_vars => FewLeadsInv'
    <2> SUFFICES ASSUME FewLeadsInv, [L!Next]_leadVars, NEW c \in Clients
                 PROVE  FewHeld(c)'
      BY LeadInvStep, PartSteps DEF FewLeadsInv
    <2>1. CASE Held(c)' \subseteq Held(c)
      <3>1. IsFiniteSet(Held(c)') /\ Cardinality(Held(c)') <= Cardinality(Held(c))
        BY <2>1, FS_Subset DEF FewLeadsInv, FewHeld
      <3> QED
        BY <3>1, FS_CardinalityType, WorkersAssumption DEF FewLeadsInv, FewHeld
    <2>2. CASE Held(c)' \subseteq {leadWorker'[p].l : p \in Workers}
      <3> DEFINE f == [p \in Workers |-> leadWorker'[p].l]
      <3>1. Held(c)' \subseteq {f[p] : p \in Workers}
        BY <2>2
      <3> QED
        BY <3>1, ImageSmall DEF FewHeld
    <2> QED
      BY <2>1, <2>2, HeldStep DEF FewLeadsInv
  <1>3. FewLeadsInv => FewLeads
    <2> SUFFICES ASSUME FewLeadsInv, NEW c \in Clients
                 PROVE  Cardinality(L!Registered(c)) <= Cardinality(Workers)
      BY LeadCardinality DEF FewLeads, L!FewLeads
    <2>1. IsFiniteSet(L!Registered(c)) /\ Cardinality(L!Registered(c)) <= Cardinality(Held(c))
      BY FS_Subset DEF FewLeadsInv, FewHeld, Held
    <2> QED
      BY <2>1, FS_CardinalityType, WorkersAssumption DEF FewLeadsInv, FewHeld
  <1> QED
    BY <1>1, <1>2, <1>3, PTL DEF Spec

-----------------------------------------------------------------------------
(* PasswordRecovery *)

LEMMA CodeForms ==
    ASSUME NEW x \in R!Rows
    PROVE  /\ [x EXCEPT !.made = TRUE] \in R!Rows
           /\ [x EXCEPT !.invalid = TRUE] \in R!Rows
           /\ [x EXCEPT !.verified = TRUE] \in R!Rows
           /\ [x EXCEPT !.consumed = TRUE] \in R!Rows
           /\ [x EXCEPT !.expired = TRUE] \in R!Rows
           /\ \A n \in 0 .. MaxAttempts, b \in BOOLEAN :
                [[x EXCEPT !.attempts = n] EXCEPT !.invalid = b] \in R!Rows
  <1>1. ASSUME NEW n \in 0 .. MaxAttempts, NEW b \in BOOLEAN
        PROVE  [[x EXCEPT !.attempts = n] EXCEPT !.invalid = b] \in R!Rows
    <2> DEFINE y == [x EXCEPT !.attempts = n]
    <2>1. y \in R!Rows
      BY ZenonT(60) DEF R!Rows
    <2> HIDE DEF y
    <2>2. [y EXCEPT !.invalid = b] \in R!Rows
      BY <2>1, ZenonT(60) DEF R!Rows
    <2> QED
      BY <2>2 DEF y
  <1>2. [x EXCEPT !.made = TRUE] \in R!Rows
    BY ZenonT(60) DEF R!Rows
  <1>3. [x EXCEPT !.invalid = TRUE] \in R!Rows
    BY ZenonT(60) DEF R!Rows
  <1>4. [x EXCEPT !.verified = TRUE] \in R!Rows
    BY ZenonT(60) DEF R!Rows
  <1>5. [x EXCEPT !.consumed = TRUE] \in R!Rows
    BY ZenonT(60) DEF R!Rows
  <1>6. [x EXCEPT !.expired = TRUE] \in R!Rows
    BY ZenonT(60) DEF R!Rows
  <1> QED
    BY <1>1, <1>2, <1>3, <1>4, <1>5, <1>6

\* What they leave alone, and what they set.
LEMMA CodeFields ==
    ASSUME NEW x \in R!Rows
    PROVE  /\ LET y == [x EXCEPT !.invalid = TRUE]
              IN  y.consumed = x.consumed /\ y.attempts = x.attempts /\ y.invalid = TRUE
           /\ LET y == [x EXCEPT !.made = TRUE]
              IN  /\ y.consumed = x.consumed /\ y.attempts = x.attempts
                  /\ y.invalid = x.invalid
           /\ LET y == [x EXCEPT !.verified = TRUE]
              IN  /\ y.consumed = x.consumed /\ y.attempts = x.attempts
                  /\ y.invalid = x.invalid
           /\ LET y == [x EXCEPT !.expired = TRUE]
              IN  /\ y.consumed = x.consumed /\ y.attempts = x.attempts
                  /\ y.invalid = x.invalid
           /\ LET y == [x EXCEPT !.consumed = TRUE]
              IN  /\ y.consumed = TRUE /\ y.attempts = x.attempts
                  /\ y.invalid = x.invalid
           /\ \A n, b :
                LET y == [[x EXCEPT !.attempts = n] EXCEPT !.invalid = b]
                IN  y.consumed = x.consumed /\ y.attempts = n /\ y.invalid = b
  BY DEF R!Rows

LEMMA RecoveryForms ==
    /\ R!Idle \in R!Requests /\ R!Idle.pc = "idle"
    /\ \A x \in R!Requests :
         /\ \A pc \in {"idle", "insert", "verify", "password", "consume"} :
              [x EXCEPT !.pc = pc] \in R!Requests
         /\ \A c \in R!Codes : [x EXCEPT !.c = c] \in R!Requests
         /\ \A n \in 0 .. MaxAttempts : [x EXCEPT !.attempts = n] \in R!Requests
         /\ \A b \in BOOLEAN : [x EXCEPT !.fresh = b] \in R!Requests
  <1>1. R!Idle \in R!Requests /\ R!Idle.pc = "idle"
    BY CodesAssumption DEF R!Idle, R!Requests
  <1>2. ASSUME NEW x \in R!Requests, NEW pc \in {"idle", "insert", "verify", "password", "consume"}
        PROVE  [x EXCEPT !.pc = pc] \in R!Requests
    BY ZenonT(60) DEF R!Requests
  <1>3. ASSUME NEW x \in R!Requests, NEW c \in R!Codes
        PROVE  [x EXCEPT !.c = c] \in R!Requests
    BY ZenonT(60) DEF R!Requests
  <1>4. ASSUME NEW x \in R!Requests, NEW n \in 0 .. MaxAttempts
        PROVE  [x EXCEPT !.attempts = n] \in R!Requests
    BY ZenonT(60) DEF R!Requests
  <1>5. ASSUME NEW x \in R!Requests, NEW b \in BOOLEAN
        PROVE  [x EXCEPT !.fresh = b] \in R!Requests
    BY ZenonT(60) DEF R!Requests
  <1> QED
    BY <1>1, <1>2, <1>3, <1>4, <1>5

\* What a request that has read a code relies on.
RecoveryForm(p) ==
    LET r == recoveryRequest[p]
    IN  /\ r.pc \in {"verify", "password", "consume"} => r.c \in R!Codes
        /\ r.pc = "verify" => r.attempts < MaxAttempts
        /\ r.pc = "password" /\ r.fresh => ~ code[r.c].consumed /\ ~ R!Consuming(r.c)

RecoveryInv ==
    /\ R!TypeOK
    /\ \A c \in R!Codes : code[c].attempts = MaxAttempts => code[c].invalid
    /\ \A p \in Workers : RecoveryForm(p)

LEMMA RecoveryInvInit == R!Init => RecoveryInv
  <1> SUFFICES ASSUME R!Init
               PROVE  RecoveryInv
    OBVIOUS
  <1>1. R!NoCode \in R!Rows /\ R!NoCode.attempts = 0
    BY CodesAssumption DEF R!NoCode, R!Rows
  <1>2. R!TypeOK
    BY <1>1, RecoveryForms DEF R!Init, R!TypeOK
  <1>3. \A c \in R!Codes : code[c].attempts # MaxAttempts
    BY <1>1, CodesAssumption DEF R!Init
  <1>4. \A p \in Workers : RecoveryForm(p)
    BY RecoveryForms DEF R!Init, RecoveryForm
  <1> QED
    BY <1>2, <1>3, <1>4 DEF RecoveryInv

\* A request that moves to w, where it resets no password.
LEMMA MovedForm ==
    ASSUME RecoveryInv, NEW p \in Workers, NEW w,
           recoveryRequest' = [recoveryRequest EXCEPT ![p] = w],
           w.pc # "password", w.pc # "consume",
           w.pc = "verify" => w.c \in R!Codes /\ w.attempts < MaxAttempts,
           \A c \in R!Codes : code'[c].consumed =>
               code[c].consumed \/ (recoveryRequest[p].pc = "consume" /\ recoveryRequest[p].c = c)
    PROVE  \A q \in Workers : RecoveryForm(q)'
  <1> SUFFICES ASSUME NEW q \in Workers
               PROVE  RecoveryForm(q)'
    OBVIOUS
  <1>1. CASE q = p
    BY <1>1 DEF RecoveryForm, RecoveryInv, R!TypeOK
  <1>2. CASE q # p
    <2>1. recoveryRequest'[q] = recoveryRequest[q]
      BY <1>2
    <2>2. \A c : R!Consuming(c)' => R!Consuming(c)
      BY DEF R!Consuming, R!At, RecoveryInv, R!TypeOK
    <2>3. \A c : recoveryRequest[p].pc = "consume" /\ recoveryRequest[p].c = c => R!Consuming(c)
      BY DEF R!Consuming, R!At
    <2> QED
      BY <2>1, <2>2, <2>3 DEF RecoveryForm, RecoveryInv
  <1> QED
    BY <1>1, <1>2

LEMMA RequestRecoveryStep ==
    ASSUME RecoveryInv, NEW p \in Workers, R!RequestRecovery(p)
    PROVE  RecoveryInv'
  <1> DEFINE w == [R!Idle EXCEPT !.pc = "insert"]
  <1>1. w \in R!Requests /\ w.pc = "insert"
    BY RecoveryForms DEF R!Idle
  <1> HIDE DEF w
  <1>2. recoveryRequest' = [recoveryRequest EXCEPT ![p] = w]
    BY DEF R!RequestRecovery, R!Goto, w
  <1>3. ASSUME NEW c \in R!Codes
        PROVE  /\ code'[c] \in R!Rows
               /\ code'[c].consumed = code[c].consumed
               /\ code'[c].attempts = code[c].attempts
               /\ code[c].invalid => code'[c].invalid
    <2>1. code'[c] \in {code[c], [code[c] EXCEPT !.invalid = TRUE]}
      BY DEF R!RequestRecovery, R!InvalidateOpenCodes
    <2>2. code[c] \in R!Rows
      BY DEF RecoveryInv, R!TypeOK
    <2>3. code'[c] \in R!Rows
      BY <2>1, <2>2, CodeForms, Zenon
    <2>4. CASE code'[c] = code[c]
      BY <2>3, <2>4
    <2>5. CASE code'[c] = [code[c] EXCEPT !.invalid = TRUE]
      BY <2>2, <2>3, <2>5, CodeFields
    <2> QED
      BY <2>1, <2>4, <2>5
  <1>4. R!TypeOK'
    BY <1>1, <1>2, <1>3 DEF RecoveryInv, R!TypeOK, R!RequestRecovery, R!InvalidateOpenCodes
  <1>5. \A q \in Workers : RecoveryForm(q)'
    BY <1>1, <1>2, <1>3, MovedForm
  <1> QED
    BY <1>3, <1>4, <1>5 DEF RecoveryInv

LEMMA InsertCodeStep ==
    ASSUME RecoveryInv, NEW p \in Workers, R!InsertCode(p)
    PROVE  RecoveryInv'
  <1>1. PICK c \in R!Codes : code' = [code EXCEPT ![c].made = TRUE]
    BY DEF R!InsertCode
  <1>2. recoveryRequest' = [recoveryRequest EXCEPT ![p] = R!Idle]
    BY DEF R!InsertCode, R!Goto
  <1>3. ASSUME NEW d \in R!Codes
        PROVE  /\ code'[d] \in R!Rows
               /\ code'[d].consumed = code[d].consumed
               /\ code'[d].attempts = code[d].attempts
               /\ code'[d].invalid = code[d].invalid
    <2>1. code'[d] \in {code[d], [code[d] EXCEPT !.made = TRUE]}
      BY <1>1 DEF RecoveryInv, R!TypeOK
    <2>2. code[d] \in R!Rows
      BY DEF RecoveryInv, R!TypeOK
    <2>3. code'[d] \in R!Rows
      BY <2>1, <2>2, CodeForms, Zenon
    <2>4. CASE code'[d] = code[d]
      BY <2>3, <2>4
    <2>5. CASE code'[d] = [code[d] EXCEPT !.made = TRUE]
      BY <2>2, <2>3, <2>5, CodeFields
    <2> QED
      BY <2>1, <2>4, <2>5
  <1>4. R!TypeOK'
    BY <1>1, <1>2, <1>3, RecoveryForms DEF RecoveryInv, R!TypeOK
  <1>5. \A q \in Workers : RecoveryForm(q)'
    BY <1>2, <1>3, RecoveryForms, MovedForm
  <1> QED
    BY <1>3, <1>4, <1>5 DEF RecoveryInv

LEMMA BeginVerificationStep ==
    ASSUME RecoveryInv, NEW p \in Workers, R!BeginVerification(p)
    PROVE  RecoveryInv'
  <1>1. PICK c \in R!Codes :
            /\ R!Valid(c)
            /\ R!Goto(p, [R!Idle EXCEPT !.pc = "verify", !.c = c, !.attempts = code[c].attempts])
    BY DEF R!BeginVerification
  <1> DEFINE w == [R!Idle EXCEPT !.pc = "verify", !.c = c, !.attempts = code[c].attempts]
  <1>2. code[c].attempts \in 0 .. MaxAttempts /\ code[c].attempts < MaxAttempts
    BY <1>1, CodesAssumption DEF RecoveryInv, R!TypeOK, R!Rows, R!Valid, R!Open
  <1>3. w \in R!Requests
    BY <1>2, RecoveryForms
  <1>4. w.pc = "verify" /\ w.c = c /\ w.attempts = code[c].attempts
    BY DEF R!Idle
  <1> HIDE DEF w
  <1>5. recoveryRequest' = [recoveryRequest EXCEPT ![p] = w] /\ code' = code
    BY <1>1 DEF R!BeginVerification, R!Goto, w
  <1>6. R!TypeOK'
    BY <1>3, <1>5 DEF RecoveryInv, R!TypeOK
  <1>7. \A q \in Workers : RecoveryForm(q)'
    BY <1>2, <1>4, <1>5, MovedForm
  <1> QED
    BY <1>5, <1>6, <1>7 DEF RecoveryInv

LEMMA RegisterInvalidAttemptStep ==
    ASSUME RecoveryInv, NEW p \in Workers, R!RegisterInvalidAttempt(p)
    PROVE  RecoveryInv'
  <1> DEFINE c == recoveryRequest[p].c
             n == recoveryRequest[p].attempts + 1
             b == n >= MaxAttempts
  <1>1. c \in R!Codes /\ n \in 0 .. MaxAttempts /\ b \in BOOLEAN
        /\ (n = MaxAttempts => b = TRUE)
    BY CodesAssumption
    DEF R!RegisterInvalidAttempt, R!At, RecoveryInv, RecoveryForm, R!TypeOK, R!Requests
  <1>2. code' = [code EXCEPT ![c] = [[@ EXCEPT !.attempts = n] EXCEPT !.invalid = b]]
    BY <1>1 DEF R!RegisterInvalidAttempt, RecoveryInv, R!TypeOK
  <1>3. recoveryRequest' = [recoveryRequest EXCEPT ![p] = R!Idle]
    BY DEF R!RegisterInvalidAttempt, R!Goto
  <1> HIDE DEF c, n, b
  <1>4. ASSUME NEW d \in R!Codes
        PROVE  /\ code'[d] \in R!Rows
               /\ code'[d].consumed = code[d].consumed
               /\ code'[d].attempts = MaxAttempts => code'[d].invalid
    <2>0. code[d] \in R!Rows
      BY DEF RecoveryInv, R!TypeOK
    <2>1. CASE d = c
      <3>1. code'[d] = [[code[d] EXCEPT !.attempts = n] EXCEPT !.invalid = b]
        BY <2>1, <1>1, <1>2 DEF RecoveryInv, R!TypeOK
      <3>2. code'[d].attempts = n /\ code'[d].invalid = b
            /\ code'[d].consumed = code[d].consumed
        BY <2>0, <3>1, CodeFields
      <3>3. code'[d] \in R!Rows
        <4>1. \A m \in 0 .. MaxAttempts, k \in BOOLEAN :
                 [[code[d] EXCEPT !.attempts = m] EXCEPT !.invalid = k] \in R!Rows
          BY <2>0, CodeForms
        <4> QED
          BY <1>1, <3>1, <4>1, Zenon
      <3> QED
        BY <1>1, <3>2, <3>3
    <2>2. CASE d # c
      BY <2>2, <1>2 DEF RecoveryInv, R!TypeOK
    <2> QED
      BY <2>1, <2>2
  <1>5. R!TypeOK'
    BY <1>2, <1>3, <1>4, RecoveryForms DEF RecoveryInv, R!TypeOK
  <1>6. \A q \in Workers : RecoveryForm(q)'
    BY <1>3, <1>4, RecoveryForms, MovedForm
  <1> QED
    BY <1>4, <1>5, <1>6 DEF RecoveryInv

LEMMA MarkVerifiedStep ==
    ASSUME RecoveryInv, NEW p \in Workers, R!MarkVerified(p)
    PROVE  RecoveryInv'
  <1> DEFINE c == recoveryRequest[p].c
  <1>1. code' = [code EXCEPT ![c].verified = TRUE]
    BY DEF R!MarkVerified
  <1>2. recoveryRequest' = [recoveryRequest EXCEPT ![p] = R!Idle]
    BY DEF R!MarkVerified, R!Goto
  <1> HIDE DEF c
  <1>3. ASSUME NEW d \in R!Codes
        PROVE  /\ code'[d] \in R!Rows
               /\ code'[d].consumed = code[d].consumed
               /\ code'[d].attempts = code[d].attempts
               /\ code'[d].invalid = code[d].invalid
    <2>1. code'[d] \in {code[d], [code[d] EXCEPT !.verified = TRUE]}
      BY <1>1 DEF RecoveryInv, R!TypeOK
    <2>2. code[d] \in R!Rows
      BY DEF RecoveryInv, R!TypeOK
    <2>3. code'[d] \in R!Rows
      BY <2>1, <2>2, CodeForms, Zenon
    <2>4. CASE code'[d] = code[d]
      BY <2>3, <2>4
    <2>5. CASE code'[d] = [code[d] EXCEPT !.verified = TRUE]
      BY <2>2, <2>3, <2>5, CodeFields
    <2> QED
      BY <2>1, <2>4, <2>5
  <1>4. R!TypeOK'
    BY <1>1, <1>2, <1>3, RecoveryForms DEF RecoveryInv, R!TypeOK
  <1>5. \A q \in Workers : RecoveryForm(q)'
    BY <1>2, <1>3, RecoveryForms, MovedForm
  <1> QED
    BY <1>3, <1>4, <1>5 DEF RecoveryInv

LEMMA BeginResetStep ==
    ASSUME RecoveryInv, NEW p \in Workers, R!BeginReset(p)
    PROVE  RecoveryInv'
  <1>1. PICK c \in R!Codes :
            /\ R!Usable(c)
            /\ R!Goto(p, [R!Idle EXCEPT !.pc = "password", !.c = c, !.fresh = ~ R!Consuming(c)])
    BY DEF R!BeginReset
  <1> DEFINE b == ~ R!Consuming(c)
             w == [R!Idle EXCEPT !.pc = "password", !.c = c, !.fresh = b]
  <1>2. b \in BOOLEAN
    BY DEF R!Consuming, R!At
  <1>3. /\ recoveryRequest' = [recoveryRequest EXCEPT ![p] = w]
        /\ code' = code
    BY <1>1 DEF R!BeginReset, R!Goto
  <1>4. b => ~ R!Consuming(c)
    OBVIOUS
  <1> HIDE DEF b
  <1>5. w \in R!Requests
    BY <1>2, RecoveryForms
  <1>6. w.pc = "password" /\ w.c = c /\ w.fresh = b
    BY DEF R!Idle
  <1> HIDE DEF w
  <1>7. R!TypeOK'
    BY <1>3, <1>5 DEF RecoveryInv, R!TypeOK
  <1>8. ASSUME NEW q \in Workers
        PROVE  /\ recoveryRequest'[q].pc = "consume" =>
                      recoveryRequest[q].pc = "consume" /\ recoveryRequest'[q] = recoveryRequest[q]
               /\ q # p => recoveryRequest'[q] = recoveryRequest[q]
    BY <1>3, <1>6 DEF RecoveryInv, R!TypeOK
  <1>9. \A d : R!Consuming(d)' => R!Consuming(d)
    BY <1>8 DEF R!Consuming, R!At
  <1>10. recoveryRequest'[p] = w
    BY <1>3 DEF RecoveryInv, R!TypeOK
  <1>11. ~ code[c].consumed
    BY <1>1 DEF R!Usable, R!Open
  <1>12. ASSUME NEW q \in Workers
         PROVE  RecoveryForm(q)'
    <2>1. CASE q = p
      BY <2>1, <1>3, <1>4, <1>6, <1>9, <1>10, <1>11 DEF RecoveryForm
    <2>2. CASE q # p
      BY <2>2, <1>3, <1>8, <1>9 DEF RecoveryForm, RecoveryInv
    <2> QED
      BY <2>1, <2>2
  <1> QED
    BY <1>3, <1>7, <1>12 DEF RecoveryInv

LEMMA UpdatePasswordStep ==
    ASSUME RecoveryInv, NEW p \in Workers, R!UpdatePassword(p)
    PROVE  RecoveryInv'
  <1>0. recoveryRequest[p].pc = "password" /\ code' = code
    BY DEF R!UpdatePassword, R!At
  <1>1. ASSUME NEW q \in Workers
        PROVE  LET r == recoveryRequest[q]  t == recoveryRequest'[q]
               IN  /\ q = p => t = [r EXCEPT !.pc = "consume"]
                   /\ q # p /\ r.pc = "password" /\ r.c = recoveryRequest[p].c =>
                          t = [r EXCEPT !.fresh = FALSE]
                   /\ q # p /\ ~ (r.pc = "password" /\ r.c = recoveryRequest[p].c) => t = r
    BY DEF R!UpdatePassword, R!At
  <1>2. ASSUME NEW q \in Workers
        PROVE  recoveryRequest[q] \in R!Requests
    BY DEF RecoveryInv, R!TypeOK
  <1>3. ASSUME NEW q \in Workers
        PROVE  recoveryRequest'[q] \in R!Requests
    <2> DEFINE r == recoveryRequest[q]
    <2>1. [r EXCEPT !.pc = "consume"] \in R!Requests /\ [r EXCEPT !.fresh = FALSE] \in R!Requests
      BY <1>2, RecoveryForms, Zenon
    <2> QED
      BY <1>1, <1>2, <2>1
  <1>4. R!TypeOK'
    <2>1. DOMAIN recoveryRequest' = Workers
          /\ recoveryRequest' = [q \in Workers |-> recoveryRequest'[q]]
      BY DEF R!UpdatePassword
    <2> QED
      BY <1>0, <1>3, <2>1 DEF RecoveryInv, R!TypeOK
  <1>5. ASSUME NEW q \in Workers
        PROVE  LET r == recoveryRequest[q]  t == recoveryRequest'[q]
               IN  /\ t.c = r.c /\ t.attempts = r.attempts
                   /\ q = p => t.pc = "consume"
                   /\ q # p => t.pc = r.pc
                   /\ q # p /\ t.fresh = TRUE /\ r.pc = "password" =>
                          r.fresh = TRUE /\ r.c # recoveryRequest[p].c
    BY <1>1, <1>2 DEF R!Requests
  <1>6. ASSUME NEW d, R!Consuming(d)'
        PROVE  R!Consuming(d) \/ d = recoveryRequest[p].c
    BY <1>5, <1>6 DEF R!Consuming, R!At
  <1>7. ASSUME NEW q \in Workers
        PROVE  RecoveryForm(q)'
    <2>1. recoveryRequest'[q].fresh \in BOOLEAN
      BY <1>3 DEF R!Requests
    <2>2. CASE q = p
      BY <2>2, <1>0, <1>5 DEF RecoveryForm, RecoveryInv
    <2>3. CASE q # p
      <3>1. recoveryRequest'[q].pc = "password" /\ recoveryRequest'[q].fresh =>
                ~ code[recoveryRequest[q].c].consumed /\ ~ R!Consuming(recoveryRequest[q].c)'
        BY <2>1, <2>3, <1>5, <1>6 DEF RecoveryForm, RecoveryInv
      <3> QED
        BY <2>3, <1>0, <1>5, <3>1 DEF RecoveryForm, RecoveryInv
    <2> QED
      BY <2>2, <2>3
  <1> QED
    BY <1>0, <1>4, <1>7 DEF RecoveryInv

LEMMA ConsumeStep ==
    ASSUME RecoveryInv, NEW p \in Workers, R!Consume(p)
    PROVE  RecoveryInv'
  <1> DEFINE c == recoveryRequest[p].c
  <1>1. /\ code' = [code EXCEPT ![c].consumed = TRUE]
        /\ recoveryRequest[p].pc = "consume"
    BY DEF R!Consume, R!At
  <1>2. recoveryRequest' = [recoveryRequest EXCEPT ![p] = R!Idle]
    BY DEF R!Consume, R!Goto
  <1> HIDE DEF c
  <1>3. ASSUME NEW d \in R!Codes
        PROVE  /\ code'[d] \in R!Rows
               /\ d # c => code'[d].consumed = code[d].consumed
               /\ code'[d].attempts = code[d].attempts
               /\ code'[d].invalid = code[d].invalid
    <2>1. code'[d] = code[d] \/ (d = c /\ code'[d] = [code[d] EXCEPT !.consumed = TRUE])
      BY <1>1 DEF RecoveryInv, R!TypeOK
    <2>2. code[d] \in R!Rows
      BY DEF RecoveryInv, R!TypeOK
    <2>3. code'[d] \in R!Rows
      BY <2>1, <2>2, CodeForms, Zenon
    <2> QED
      BY <2>1, <2>2, <2>3, CodeFields
  <1>4. R!TypeOK'
    BY <1>1, <1>2, <1>3, RecoveryForms DEF RecoveryInv, R!TypeOK
  <1>5. \A q \in Workers : RecoveryForm(q)'
    BY <1>1, <1>2, <1>3, RecoveryForms, MovedForm DEF c
  <1> QED
    BY <1>3, <1>4, <1>5 DEF RecoveryInv

LEMMA DropStep ==
    ASSUME RecoveryInv, NEW p \in Workers, R!Drop(p)
    PROVE  RecoveryInv'
  <1>1. code' = code /\ recoveryRequest' = [recoveryRequest EXCEPT ![p] = R!Idle]
    BY DEF R!Drop, R!Goto
  <1>2. R!TypeOK'
    BY <1>1, RecoveryForms DEF RecoveryInv, R!TypeOK
  <1>3. \A q \in Workers : RecoveryForm(q)'
    BY <1>1, RecoveryForms, MovedForm
  <1> QED
    BY <1>1, <1>2, <1>3 DEF RecoveryInv

LEMMA ExpireStep ==
    ASSUME RecoveryInv, NEW c \in R!Codes, R!Expire(c)
    PROVE  RecoveryInv'
  <1>1. /\ code' = [code EXCEPT ![c].expired = TRUE]
        /\ recoveryRequest' = recoveryRequest
    BY DEF R!Expire
  <1>2. ASSUME NEW d \in R!Codes
        PROVE  /\ code'[d] \in R!Rows
               /\ code'[d].consumed = code[d].consumed
               /\ code'[d].attempts = code[d].attempts
               /\ code'[d].invalid = code[d].invalid
    <2>1. code'[d] \in {code[d], [code[d] EXCEPT !.expired = TRUE]}
      BY <1>1 DEF RecoveryInv, R!TypeOK
    <2>2. code[d] \in R!Rows
      BY DEF RecoveryInv, R!TypeOK
    <2>3. code'[d] \in R!Rows
      BY <2>1, <2>2, CodeForms, Zenon
    <2>4. CASE code'[d] = code[d]
      BY <2>3, <2>4
    <2>5. CASE code'[d] = [code[d] EXCEPT !.expired = TRUE]
      BY <2>2, <2>3, <2>5, CodeFields
    <2> QED
      BY <2>1, <2>4, <2>5
  <1>3. R!TypeOK'
    BY <1>1, <1>2 DEF RecoveryInv, R!TypeOK
  <1>4. \A q \in Workers : RecoveryForm(q)'
    BY <1>1, <1>2 DEF RecoveryForm, RecoveryInv, R!Consuming, R!At
  <1> QED
    BY <1>2, <1>3, <1>4 DEF RecoveryInv

LEMMA RecoveryInvStep ==
    ASSUME RecoveryInv, [R!Next]_recoveryVars
    PROVE  RecoveryInv'
  <1>1. CASE UNCHANGED recoveryVars
    BY <1>1 DEF recoveryVars, RecoveryInv, RecoveryForm, R!TypeOK, R!Consuming, R!At
  <1>2. CASE R!Next
    BY <1>2, RequestRecoveryStep, InsertCodeStep, BeginVerificationStep,
       RegisterInvalidAttemptStep, MarkVerifiedStep, BeginResetStep, UpdatePasswordStep,
       ConsumeStep, DropStep, ExpireStep DEF R!Next
  <1> QED
    BY <1>1, <1>2

LEMMA RecoveryAlways == Spec => []RecoveryInv
  <1>1. Init => RecoveryInv
    BY RecoveryInvInit DEF Init
  <1>2. RecoveryInv /\ [Next]_vars => RecoveryInv'
    BY PartSteps, RecoveryInvStep
  <1> QED
    BY <1>1, <1>2, PTL DEF Spec

\* A code resets the password once more only by a request that overlaps.
THEOREM CodesResetOnce == Spec => ResetsOnce
  <1> DEFINE Once ==
          \A p \in Workers :
              R!At(p, "password") /\ recoveryRequest'[p].pc = "consume" =>
                  LET c == recoveryRequest[p].c
                  IN  code[c].consumed \/ R!Consuming(c) => ~ recoveryRequest[p].fresh
  <1>1. RecoveryInv => Once
    BY DEF RecoveryInv, RecoveryForm, R!At
  <1> QED
    BY <1>1, RecoveryAlways, PTL DEF ResetsOnce, R!ResetsOnce, R!vars, recoveryVars

Inserting == {p \in Workers : recoveryRequest[p].pc = "insert"}

Verifying == {p \in Workers : recoveryRequest[p].pc = "verify"}

Entered == {recoveryRequest[p].c : p \in Verifying}

\* The codes that are open, or that a wrong entry may open again.
Openable == {c \in R!Codes : R!Open(c)} \cup Entered

\* The codes there are and those to come.
FewOpenable ==
    /\ IsFiniteSet(Openable)
    /\ Cardinality(Openable) + Cardinality(Inserting) <= Cardinality(Workers)

LEMMA RecoverySets ==
    /\ IsFiniteSet(Workers) /\ Cardinality(Workers) \in Nat
    /\ IsFiniteSet(Inserting) /\ Cardinality(Inserting) \in Nat
    /\ IsFiniteSet(Verifying) /\ Cardinality(Verifying) \in Nat
  BY WorkersAssumption, FS_Subset, FS_CardinalityType DEF Inserting, Verifying

\* Recovery counts as this module does.
LEMMA RecoveryCardinality == ASSUME NEW T PROVE R!Cardinality(T) = Cardinality(T)
  BY DEF R!Cardinality, Cardinality

LEMMA FewerOpenable ==
    ASSUME FewOpenable, Openable' \subseteq Openable, Inserting' \subseteq Inserting
    PROVE  FewOpenable'
  <1>1. IsFiniteSet(Openable') /\ Cardinality(Openable') <= Cardinality(Openable)
    BY FS_Subset DEF FewOpenable
  <1>2. Cardinality(Inserting') <= Cardinality(Inserting)
    BY RecoverySets, FS_Subset
  <1>3. IsFiniteSet(Inserting')
    BY RecoverySets, FS_Subset
  <1>4. /\ Cardinality(Openable') \in Nat /\ Cardinality(Openable) \in Nat
        /\ Cardinality(Inserting') \in Nat
    BY <1>1, <1>3, FS_CardinalityType DEF FewOpenable
  <1> QED
    BY <1>1, <1>2, <1>4, RecoverySets DEF FewOpenable

LEMMA RequestRecoveryCount ==
    ASSUME RecoveryInv, NEW p \in Workers, R!RequestRecovery(p)
    PROVE  FewOpenable'
  <1> DEFINE w == [R!Idle EXCEPT !.pc = "insert"]
  <1>1. w.pc = "insert"
    BY DEF R!Idle
  <1> HIDE DEF w
  <1>2. /\ recoveryRequest' = [recoveryRequest EXCEPT ![p] = w]
        /\ recoveryRequest[p].pc = "idle"
    BY DEF R!RequestRecovery, R!Goto, R!At, w
  <1>3. Inserting' = Inserting \cup {p} /\ p \notin Inserting
    BY <1>1, <1>2 DEF Inserting, RecoveryInv, R!TypeOK
  <1>4. Verifying' = Verifying
    BY <1>1, <1>2 DEF Verifying, RecoveryInv, R!TypeOK
  <1>5. ASSUME NEW q \in Verifying
        PROVE  recoveryRequest'[q] = recoveryRequest[q]
    BY <1>2 DEF Verifying, RecoveryInv, R!TypeOK
  <1>6. ASSUME NEW c \in R!Codes
        PROVE  ~ R!Open(c)'
    <2>1. CASE R!Open(c)
      <3>1. code'[c] = [code[c] EXCEPT !.invalid = TRUE]
        BY <2>1 DEF R!RequestRecovery, R!InvalidateOpenCodes
      <3> QED
        BY <3>1, CodeFields DEF R!Open, RecoveryInv, R!TypeOK
    <2>2. CASE ~ R!Open(c)
      <3>1. code'[c] = code[c]
        BY <2>2 DEF R!RequestRecovery, R!InvalidateOpenCodes
      <3> QED
        BY <2>2, <3>1 DEF R!Open
    <2> QED
      BY <2>1, <2>2
  <1> DEFINE f == [q \in Verifying |-> recoveryRequest[q].c]
  <1>7. Openable' = {f[q] : q \in Verifying}
    BY <1>4, <1>5, <1>6 DEF Openable, Entered
  <1>8. f \in Surjection(Verifying, Openable')
    BY <1>7 DEF Surjection
  <1>9. IsFiniteSet(Openable') /\ Cardinality(Openable') <= Cardinality(Verifying)
    BY <1>8, RecoverySets, FS_Surjection
  <1>10. Verifying \cap Inserting' = {} /\ Verifying \cup Inserting' \subseteq Workers
    BY <1>2, <1>3 DEF Verifying, Inserting
  <1>11. IsFiniteSet(Inserting') /\ Cardinality(Inserting') \in Nat
    BY <1>3, RecoverySets, FS_AddElement, FS_CardinalityType
  <1>12. Cardinality(Verifying \cup Inserting') <= Cardinality(Workers)
    BY <1>10, RecoverySets, FS_Subset
  <1>13. Cardinality(Verifying \cup Inserting')
             = Cardinality(Verifying) + Cardinality(Inserting') - Cardinality(Verifying \cap Inserting')
    BY <1>11, RecoverySets, FS_Union
  <1>14. Cardinality(Verifying \cap Inserting') = 0
    BY <1>10, FS_EmptySet
  <1>15. Cardinality(Openable') \in Nat
    BY <1>9, FS_CardinalityType
  <1>16. Cardinality(Openable') + Cardinality(Inserting') <= Cardinality(Workers)
    BY <1>9, <1>11, <1>12, <1>13, <1>14, <1>15, RecoverySets
  <1>17. Workers' = Workers
    OBVIOUS
  <1> QED
    BY <1>9, <1>16 DEF FewOpenable

LEMMA InsertCodeCount ==
    ASSUME RecoveryInv, FewOpenable, NEW p \in Workers, R!InsertCode(p)
    PROVE  FewOpenable'
  <1>1. PICK c \in R!Codes : code' = [code EXCEPT ![c].made = TRUE]
    BY DEF R!InsertCode
  <1>2. /\ recoveryRequest' = [recoveryRequest EXCEPT ![p] = R!Idle]
        /\ recoveryRequest[p].pc = "insert" /\ R!Idle.pc = "idle"
    BY RecoveryForms DEF R!InsertCode, R!Goto, R!At
  <1>3. Inserting' = Inserting \ {p} /\ p \in Inserting
    BY <1>2 DEF Inserting, RecoveryInv, R!TypeOK
  <1>4. ASSUME NEW q \in Verifying'
        PROVE  q \in Verifying /\ recoveryRequest'[q] = recoveryRequest[q]
    BY <1>2 DEF Verifying, RecoveryInv, R!TypeOK
  <1>5. \A d \in R!Codes : d # c => code'[d] = code[d]
    BY <1>1 DEF RecoveryInv, R!TypeOK
  <1>6. \A d \in R!Codes : R!Open(d)' => R!Open(d) \/ d = c
    BY <1>5 DEF R!Open
  <1>7. Openable' \subseteq Openable \cup {c}
    BY <1>4, <1>6 DEF Openable, Entered
  <1>8. /\ IsFiniteSet(Openable \cup {c})
        /\ Cardinality(Openable \cup {c}) <= Cardinality(Openable) + 1
    <2>1. IsFiniteSet(Openable) /\ Cardinality(Openable) \in Nat
      BY FS_CardinalityType DEF FewOpenable
    <2>2. /\ IsFiniteSet(Openable \cup {c})
          /\ Cardinality(Openable \cup {c}) = Cardinality(Openable)
             \/ Cardinality(Openable \cup {c}) = Cardinality(Openable) + 1
      BY <2>1, FS_AddElement
    <2> QED
      BY <2>1, <2>2
  <1>9. /\ IsFiniteSet(Openable')
        /\ Cardinality(Openable') <= Cardinality(Openable \cup {c})
    BY <1>7, <1>8, FS_Subset
  <1>10. Cardinality(Inserting') = Cardinality(Inserting) - 1
    BY <1>3, RecoverySets, FS_RemoveElement
  <1>11. /\ Cardinality(Openable) \in Nat /\ Cardinality(Openable') \in Nat
         /\ Cardinality(Openable \cup {c}) \in Nat
    BY <1>8, <1>9, FS_CardinalityType DEF FewOpenable
  <1>12. Cardinality(Openable') + Cardinality(Inserting') <= Cardinality(Workers)
    BY <1>8, <1>9, <1>10, <1>11, RecoverySets DEF FewOpenable
  <1> QED
    BY <1>9, <1>12 DEF FewOpenable

\* The other steps open no code but one that is being entered.
LEMMA OtherStepsOpenNone ==
    ASSUME RecoveryInv, NEW p \in Workers, NEW w,
           recoveryRequest' = [recoveryRequest EXCEPT ![p] = w],
           w.pc # "insert",
           w.pc = "verify" => w.c \in R!Codes /\ R!Open(w.c),
           \A d \in R!Codes : R!Open(d)' => R!Open(d) \/ d \in Entered
    PROVE  Openable' \subseteq Openable /\ Inserting' \subseteq Inserting
  <1>1. ASSUME NEW q \in Workers
        PROVE  /\ q # p => recoveryRequest'[q] = recoveryRequest[q]
               /\ q = p => recoveryRequest'[q] = w
    BY DEF RecoveryInv, R!TypeOK
  <1>2. Inserting' \subseteq Inserting
    BY <1>1 DEF Inserting
  <1>3. Entered' \subseteq Openable
    BY <1>1 DEF Entered, Verifying, Openable
  <1> QED
    BY <1>2, <1>3 DEF Openable

LEMMA FewOpenableStep ==
    ASSUME RecoveryInv, FewOpenable, [R!Next]_recoveryVars
    PROVE  FewOpenable'
  <1>0. R!Idle.pc = "idle"
    BY RecoveryForms
  <1>1. ASSUME NEW p \in Workers, R!BeginVerification(p)
        PROVE  FewOpenable'
    <2>1. PICK c \in R!Codes :
              /\ R!Valid(c)
              /\ R!Goto(p, [R!Idle EXCEPT !.pc = "verify", !.c = c, !.attempts = code[c].attempts])
      BY <1>1 DEF R!BeginVerification
    <2> DEFINE w == [R!Idle EXCEPT !.pc = "verify", !.c = c, !.attempts = code[c].attempts]
    <2>2. w.pc = "verify" /\ w.c = c
      BY DEF R!Idle
    <2>3. recoveryRequest' = [recoveryRequest EXCEPT ![p] = w] /\ code' = code
      BY <1>1, <2>1 DEF R!BeginVerification, R!Goto
    <2> HIDE DEF w
    <2>4. R!Open(c) /\ \A d \in R!Codes : R!Open(d)' => R!Open(d)
      BY <2>1, <2>3 DEF R!Valid, R!Open
    <2> QED
      BY <2>2, <2>3, <2>4, OtherStepsOpenNone, FewerOpenable
  <1>2. ASSUME NEW p \in Workers, R!RegisterInvalidAttempt(p)
        PROVE  FewOpenable'
    <2>1. recoveryRequest' = [recoveryRequest EXCEPT ![p] = R!Idle]
      BY <1>2 DEF R!RegisterInvalidAttempt, R!Goto
    <2>2. \A d \in R!Codes : d # recoveryRequest[p].c => code'[d] = code[d]
      BY <1>2 DEF R!RegisterInvalidAttempt, RecoveryInv, R!TypeOK
    <2>3. recoveryRequest[p].c \in Entered
      BY <1>2 DEF R!RegisterInvalidAttempt, R!At, Entered, Verifying
    <2>4. \A d \in R!Codes : R!Open(d)' => R!Open(d) \/ d \in Entered
      BY <2>2, <2>3 DEF R!Open
    <2> QED
      BY <1>0, <2>1, <2>4, OtherStepsOpenNone, FewerOpenable
  <1>3. ASSUME NEW p \in Workers, R!MarkVerified(p)
        PROVE  FewOpenable'
    <2>1. recoveryRequest' = [recoveryRequest EXCEPT ![p] = R!Idle]
      BY <1>3 DEF R!MarkVerified, R!Goto
    <2>2. \A d \in R!Codes : d # recoveryRequest[p].c => code'[d] = code[d]
      BY <1>3 DEF R!MarkVerified, RecoveryInv, R!TypeOK
    <2>3. recoveryRequest[p].c \in Entered
      BY <1>3 DEF R!MarkVerified, R!At, Entered, Verifying
    <2>4. \A d \in R!Codes : R!Open(d)' => R!Open(d) \/ d \in Entered
      BY <2>2, <2>3 DEF R!Open
    <2> QED
      BY <1>0, <2>1, <2>4, OtherStepsOpenNone, FewerOpenable
  <1>4. ASSUME NEW p \in Workers, R!BeginReset(p)
        PROVE  FewOpenable'
    <2>1. PICK c \in R!Codes :
              R!Goto(p, [R!Idle EXCEPT !.pc = "password", !.c = c, !.fresh = ~ R!Consuming(c)])
      BY <1>4 DEF R!BeginReset
    <2> DEFINE w == [R!Idle EXCEPT !.pc = "password", !.c = c, !.fresh = ~ R!Consuming(c)]
    <2>2. w.pc = "password"
      BY DEF R!Idle
    <2>3. recoveryRequest' = [recoveryRequest EXCEPT ![p] = w] /\ code' = code
      BY <1>4, <2>1 DEF R!BeginReset, R!Goto
    <2> HIDE DEF w
    <2>4. \A d \in R!Codes : R!Open(d)' => R!Open(d)
      BY <2>3 DEF R!Open
    <2> QED
      BY <2>2, <2>3, <2>4, OtherStepsOpenNone, FewerOpenable
  <1>5. ASSUME NEW p \in Workers, R!UpdatePassword(p)
        PROVE  FewOpenable'
    <2>1. ASSUME NEW q \in Workers
          PROVE  LET r == recoveryRequest[q]  t == recoveryRequest'[q]
                 IN  t.c = r.c /\ (t.pc = r.pc \/ t.pc = "consume")
      <3>1. recoveryRequest'[q] \in {recoveryRequest[q], [recoveryRequest[q] EXCEPT !.fresh = FALSE],
                                     [recoveryRequest[q] EXCEPT !.pc = "consume"]}
        BY <1>5 DEF R!UpdatePassword
      <3>2. recoveryRequest[q] \in R!Requests
        BY DEF RecoveryInv, R!TypeOK
      <3> QED
        BY <3>1, <3>2 DEF R!Requests
    <2>2. Inserting' \subseteq Inserting /\ Entered' \subseteq Entered
      BY <2>1 DEF Inserting, Entered, Verifying
    <2>3. \A d \in R!Codes : R!Open(d)' => R!Open(d)
      BY <1>5 DEF R!UpdatePassword, R!Open
    <2> QED
      BY <2>2, <2>3, FewerOpenable DEF Openable
  <1>6. ASSUME NEW p \in Workers, R!Consume(p)
        PROVE  FewOpenable'
    <2>1. recoveryRequest' = [recoveryRequest EXCEPT ![p] = R!Idle]
      BY <1>6 DEF R!Consume, R!Goto
    <2>2. ASSUME NEW d \in R!Codes
          PROVE  R!Open(d)' => R!Open(d)
      <3>1. code'[d] \in {code[d], [code[d] EXCEPT !.consumed = TRUE]} /\ code[d] \in R!Rows
        BY <1>6 DEF R!Consume, RecoveryInv, R!TypeOK
      <3> QED
        BY <3>1, CodeFields DEF R!Open
    <2> QED
      BY <1>0, <2>1, <2>2, OtherStepsOpenNone, FewerOpenable
  <1>7. ASSUME NEW p \in Workers, R!Drop(p)
        PROVE  FewOpenable'
    <2>1. code' = code /\ recoveryRequest' = [recoveryRequest EXCEPT ![p] = R!Idle]
      BY <1>7 DEF R!Drop, R!Goto
    <2>2. \A d \in R!Codes : R!Open(d)' => R!Open(d)
      BY <2>1 DEF R!Open
    <2> QED
      BY <1>0, <2>1, <2>2, OtherStepsOpenNone, FewerOpenable
  <1>8. ASSUME NEW c \in R!Codes, R!Expire(c)
        PROVE  FewOpenable'
    <2>1. ASSUME NEW d \in R!Codes
          PROVE  R!Open(d)' => R!Open(d)
      <3>1. code'[d] \in {code[d], [code[d] EXCEPT !.expired = TRUE]} /\ code[d] \in R!Rows
        BY <1>8 DEF R!Expire, RecoveryInv, R!TypeOK
      <3>2. [code[d] EXCEPT !.expired = TRUE].made = code[d].made
        BY <3>1 DEF R!Rows
      <3> QED
        BY <3>1, <3>2, CodeFields DEF R!Open
    <2>2. Inserting' = Inserting /\ Entered' = Entered
      BY <1>8 DEF R!Expire, Inserting, Entered, Verifying
    <2> QED
      BY <2>1, <2>2, FewerOpenable DEF Openable
  <1>9. CASE UNCHANGED recoveryVars
    BY <1>9 DEF recoveryVars, FewOpenable, Openable, Inserting, Entered, Verifying, R!Open
  <1> QED
    BY <1>1, <1>2, <1>3, <1>4, <1>5, <1>6, <1>7, <1>8, <1>9, RequestRecoveryCount,
       InsertCodeCount DEF R!Next

\* There are never more open codes than requests at a time.
THEOREM CodesStayFew == Spec => []FewRecoveryCodes
  <1>1. Init => FewOpenable
    <2> SUFFICES ASSUME R!Init
                 PROVE  FewOpenable
      BY DEF Init
    <2>1. R!NoCode.made = FALSE /\ R!Idle.pc = "idle"
      BY RecoveryForms DEF R!NoCode
    <2>2. Openable = {} /\ Inserting = {}
      BY <2>1 DEF R!Init, Openable, Entered, Inserting, Verifying, R!Open
    <2> QED
      BY <2>2, FS_EmptySet, RecoverySets DEF FewOpenable
  <1>2. RecoveryInv /\ FewOpenable /\ [Next]_vars => FewOpenable'
    BY PartSteps, FewOpenableStep
  <1>3. FewOpenable => FewRecoveryCodes
    <2> SUFFICES ASSUME FewOpenable
                 PROVE  FewRecoveryCodes
      OBVIOUS
    <2> DEFINE T == {c \in R!Codes : R!Open(c)}
    <2>1. IsFiniteSet(T) /\ Cardinality(T) <= Cardinality(Openable)
      BY FS_Subset DEF FewOpenable, Openable
    <2>2. Cardinality(T) \in Nat /\ Cardinality(Openable) \in Nat
      BY <2>1, FS_CardinalityType DEF FewOpenable
    <2>3. Cardinality(T) <= Cardinality(Workers)
      BY <2>1, <2>2, RecoverySets DEF FewOpenable
    <2> QED
      BY <2>3, RecoveryCardinality DEF FewRecoveryCodes, R!FewRecoveryCodes
  <1> QED
    BY <1>1, <1>2, <1>3, RecoveryAlways, PTL DEF Spec

-----------------------------------------------------------------------------
(* Sessions *)

LEMMA SessionForms ==
    /\ S!NoPut \in S!Puts /\ S!NoPut.token = None /\ S!NoPut.active = None
    /\ S!Idle \in S!Requests /\ S!Idle.pc = "idle"
    /\ \A x \in S!Requests :
         /\ \A pc \in S!PCs : [x EXCEPT !.pc = pc] \in S!Requests
         /\ \A e \in S!Rows : [x EXCEPT !.entity = e] \in S!Requests
         /\ \A put \in S!Puts : [x EXCEPT !.put = put] \in S!Requests
         /\ [x EXCEPT !.fresh = FALSE] \in S!Requests
  <1>1. S!NoPut \in S!Puts /\ S!NoPut.token = None /\ S!NoPut.active = None
    BY DEF S!NoPut, S!Puts
  <1>2. S!Idle \in S!Requests /\ S!Idle.pc = "idle"
    BY <1>1, TokensAssumption DEF S!Idle, S!Requests, S!PCs, S!Rows
  <1>3. ASSUME NEW x \in S!Requests, NEW pc \in S!PCs
        PROVE  [x EXCEPT !.pc = pc] \in S!Requests
    BY ZenonT(60) DEF S!Requests
  <1>4. ASSUME NEW x \in S!Requests, NEW e \in S!Rows
        PROVE  [x EXCEPT !.entity = e] \in S!Requests
    BY ZenonT(60) DEF S!Requests
  <1>5. ASSUME NEW x \in S!Requests, NEW put \in S!Puts
        PROVE  [x EXCEPT !.put = put] \in S!Requests
    BY ZenonT(60) DEF S!Requests
  <1>6. ASSUME NEW x \in S!Requests
        PROVE  [x EXCEPT !.fresh = FALSE] \in S!Requests
    BY ZenonT(60) DEF S!Requests
  <1> QED
    BY <1>1, <1>2, <1>3, <1>4, <1>5, <1>6

LEMMA SessionTypes ==
    /\ \A x \in S!Rows : x.token \in Int /\ x.token >= 1 /\ x.active \in BOOLEAN
    /\ \A x \in S!Puts : x.token # None => x.token \in Int
  BY TokensAssumption DEF S!Rows, S!Puts

\* The tokens of a request have been signed.
SessionTokens(p) ==
    LET r == sessionRequest[p]
    IN  /\ r.entity.token <= signed
        /\ r.put.token # None => r.put.token <= signed

\* What a request that nobody has overtaken holds, by where it is.
InTime(p) ==
    LET r == sessionRequest[p]
    IN  /\ r.pc \in {"touch", "put touch", "sign"} =>
               /\ session.active = TRUE /\ r.entity.active = TRUE
               /\ r.entity.token = session.token
        /\ r.pc = "put touch" => r.put.token = None /\ r.put.active = None
        /\ r.pc = "rotate" =>
               /\ session.active = TRUE /\ r.entity.active = TRUE
               /\ session.token <= r.entity.token
        /\ r.pc = "put rotate" =>
               /\ r.put.active = None
               /\ r.put.token # None => session.token <= r.put.token
        /\ r.pc = "revoke" => r.entity.token = session.token /\ r.entity.active = FALSE
        /\ r.pc = "put revoke" => r.put.token = None /\ r.put.active \in {None, FALSE}

SessionForm(p) == SessionTokens(p) /\ (sessionRequest[p].fresh = TRUE => InTime(p))

SessionInv ==
    /\ S!TypeOK
    /\ session.token <= signed
    /\ \A p \in Workers : SessionForm(p)

LEMMA SessionNumbers ==
    ASSUME SessionInv
    PROVE  1 <= signed /\ session.token <= session.token
  BY TokensAssumption DEF SessionInv, S!TypeOK, S!Rows

LEMMA SessionInvInit == S!Init => SessionInv
  <1> SUFFICES ASSUME S!Init
               PROVE  SessionInv
    OBVIOUS
  <1>1. S!TypeOK
    BY TokensAssumption, SessionForms DEF S!Init, S!TypeOK, S!Rows
  <1>2. S!Idle.entity.token = 1 /\ S!Idle.put.token = None /\ S!Idle.pc = "idle"
    BY SessionForms DEF S!Idle
  <1>3. ASSUME NEW p \in Workers
        PROVE  SessionForm(p)
    <2>1. sessionRequest[p] = S!Idle /\ 1 <= signed
      BY DEF S!Init
    <2> QED
      BY <1>2, <2>1 DEF SessionForm, SessionTokens, InTime
  <1>4. session.token <= signed
    BY DEF S!Init
  <1> QED
    BY <1>1, <1>3, <1>4 DEF SessionInv

\* A step in which the session rests and p goes on with w.
LEMMA SessionMoved ==
    ASSUME SessionInv, NEW p \in Workers, NEW w \in S!Requests,
           session' = session, signed' = signed,
           sessionRequest' = [sessionRequest EXCEPT ![p] = w],
           sessionRequest'[p] = w => SessionForm(p)'
    PROVE  SessionInv'
  <1>1. S!TypeOK'
    BY DEF SessionInv, S!TypeOK
  <1>2. sessionRequest'[p] = w
    BY DEF SessionInv, S!TypeOK
  <1>3. \A q \in Workers : q # p => SessionForm(q)'
    BY DEF SessionForm, SessionTokens, InTime, SessionInv, S!TypeOK
  <1> QED
    BY <1>1, <1>2, <1>3 DEF SessionInv

LEMMA RefreshStep ==
    ASSUME SessionInv, NEW p \in Workers, NEW t, S!Refresh(p, t)
    PROVE  SessionInv'
  <1> DEFINE w == [S!Idle EXCEPT !.pc = "touch", !.entity = session]
  <1>1. w \in S!Requests
    BY SessionForms DEF SessionInv, S!TypeOK, S!PCs
  <1>2. w.pc = "touch" /\ w.entity = session /\ w.put = S!NoPut
    BY DEF S!Idle
  <1>3. /\ sessionRequest' = [sessionRequest EXCEPT ![p] = w]
        /\ session' = session /\ signed' = signed /\ session.active
    BY DEF S!Refresh, S!Begin, S!ValidateSession
  <1> HIDE DEF w
  <1>4. session.active = TRUE
    BY <1>3 DEF SessionInv, S!TypeOK, S!Rows
  <1>5. sessionRequest'[p] = w => SessionForm(p)'
    BY <1>2, <1>3, <1>4, SessionForms DEF SessionForm, SessionTokens, InTime, SessionInv
  <1> QED
    BY <1>1, <1>3, <1>5, SessionMoved

LEMMA LogoutStep ==
    ASSUME SessionInv, NEW p \in Workers, NEW t, S!Logout(p, t)
    PROVE  SessionInv'
  <1> DEFINE e == [session EXCEPT !.active = FALSE]
             w == [S!Idle EXCEPT !.pc = "revoke", !.entity = e]
  <1>1. e \in S!Rows /\ e.token = session.token /\ e.active = FALSE
    BY DEF SessionInv, S!TypeOK, S!Rows
  <1>2. /\ sessionRequest' = [sessionRequest EXCEPT ![p] = w]
        /\ session' = session /\ signed' = signed
    BY DEF S!Logout
  <1> HIDE DEF e
  <1>3. w \in S!Requests
    BY <1>1, SessionForms DEF S!PCs
  <1>4. w.pc = "revoke" /\ w.entity = e /\ w.put = S!NoPut
    BY DEF S!Idle
  <1> HIDE DEF w
  <1>5. sessionRequest'[p] = w => SessionForm(p)'
    BY <1>1, <1>2, <1>4, SessionForms DEF SessionForm, SessionTokens, InTime, SessionInv
  <1> QED
    BY <1>2, <1>3, <1>5, SessionMoved

LEMMA ReloadStep ==
    ASSUME SessionInv, NEW p \in Workers, NEW from \in S!PCs, NEW to \in S!PCs,
           \/ from = "touch" /\ to = "put touch"
           \/ from = "rotate" /\ to = "put rotate"
           \/ from = "revoke" /\ to = "put revoke",
           S!Reload(p, from, to)
    PROVE  SessionInv'
  <1> DEFINE r == sessionRequest[p]
             a == S!Differing(r.entity.token, session.token)
             b == S!Differing(r.entity.active, session.active)
             put == [token |-> a, active |-> b]
             w == [r EXCEPT !.pc = to, !.put = put]
  <1>1. /\ sessionRequest' = [sessionRequest EXCEPT ![p] = w]
        /\ session' = session /\ signed' = signed /\ r.pc = from
    BY DEF S!Reload, SessionInv, S!TypeOK
  <1>2. r \in S!Requests /\ r.entity \in S!Rows /\ session \in S!Rows /\ to \in S!PCs
    BY DEF SessionInv, S!TypeOK, S!Requests, S!PCs
  <1>3. a \in (1 .. MaxTokens) \cup {None} /\ (a # None => a = r.entity.token)
    BY <1>2 DEF S!Differing, S!Rows
  <1>4. b \in BOOLEAN \cup {None} /\ b \in {None, r.entity.active}
    BY <1>2 DEF S!Differing, S!Rows
  <1>5. r.entity.token = session.token => a = None
    BY DEF S!Differing
  <1>6. r.entity.active = session.active => b = None
    BY DEF S!Differing
  <1>7. SessionForm(p)
    BY DEF SessionInv
  <1> HIDE DEF a, b
  <1>8. put \in S!Puts /\ put.token = a /\ put.active = b
    BY <1>3, <1>4 DEF S!Puts
  <1> HIDE DEF put
  <1>9. w \in S!Requests
    BY <1>2, <1>8, SessionForms
  <1>10. w.pc = to /\ w.put = put /\ w.entity = r.entity /\ w.fresh = r.fresh
    BY <1>2 DEF S!Requests
  <1> HIDE DEF w, r
  <1>11. sessionRequest'[p] = w => SessionForm(p)'
    BY <1>1, <1>3, <1>4, <1>5, <1>6, <1>7, <1>8, <1>10 DEF SessionForm, SessionTokens, InTime, r
  <1> QED
    BY <1>1, <1>9, <1>11, SessionMoved

LEMMA SignTokensStep ==
    ASSUME SessionInv, NEW p \in Workers, S!SignTokens(p)
    PROVE  SessionInv'
  <1> DEFINE r == sessionRequest[p]
             e == [r.entity EXCEPT !.token = signed + 1]
             w == [r EXCEPT !.pc = "rotate", !.entity = e]
  <1>1. /\ sessionRequest' = [sessionRequest EXCEPT ![p] = w]
        /\ session' = session /\ signed' = signed + 1 /\ r.pc = "sign" /\ signed < MaxTokens
    BY DEF S!SignTokens, SessionInv, S!TypeOK
  <1>2. r \in S!Requests /\ r.entity \in S!Rows /\ signed \in 1 .. MaxTokens
        /\ session \in S!Rows
    BY DEF SessionInv, S!TypeOK, S!Requests
  <1>3. signed + 1 \in 1 .. MaxTokens
    BY <1>1, <1>2, TokensAssumption
  <1>4. e \in S!Rows /\ e.token = signed + 1 /\ e.active = r.entity.active
    BY <1>2, <1>3 DEF S!Rows
  <1> HIDE DEF e
  <1>5. w \in S!Requests
    BY <1>2, <1>4, SessionForms DEF S!PCs
  <1>6. w.pc = "rotate" /\ w.entity = e /\ w.put = r.put /\ w.fresh = r.fresh
    BY <1>2 DEF S!Requests
  <1> HIDE DEF w
  <1>7. S!TypeOK'
    BY <1>1, <1>3, <1>5 DEF SessionInv, S!TypeOK
  <1>8. sessionRequest'[p] = w
    BY <1>1 DEF SessionInv, S!TypeOK
  <1>9. \A q \in Workers : q # p => sessionRequest'[q] = sessionRequest[q]
    BY <1>1 DEF SessionInv, S!TypeOK
  <1>10. ASSUME NEW q \in Workers
         PROVE  /\ sessionRequest[q].entity.token <= signed'
                /\ sessionRequest[q].put.token # None => sessionRequest[q].put.token <= signed'
    <2>1. sessionRequest[q].entity.token \in Int
      BY DEF SessionInv, S!TypeOK, S!Requests, S!Rows
    <2>2. sessionRequest[q].put.token # None => sessionRequest[q].put.token \in Int
      BY DEF SessionInv, S!TypeOK, S!Requests, S!Puts
    <2>3. /\ sessionRequest[q].entity.token <= signed
          /\ sessionRequest[q].put.token # None => sessionRequest[q].put.token <= signed
      BY DEF SessionInv, SessionForm, SessionTokens
    <2>4. signed \in Int /\ signed' = signed + 1
      BY <1>1, <1>2, TokensAssumption
    <2> QED
      BY <2>1, <2>2, <2>3, <2>4
  <1>11. SessionForm(p)'
    <2>1. r.fresh => session.active = TRUE /\ r.entity.active = TRUE
      BY <1>1 DEF SessionForm, SessionTokens, InTime, SessionInv
    <2>2. session.token <= e.token /\ e.token <= signed'
      BY <1>1, <1>2, <1>4 DEF SessionInv, S!Rows
    <2> HIDE DEF r
    <2>3. r.put.token # None => r.put.token <= signed'
      BY <1>10 DEF r
    <2> QED
      BY <1>1, <1>4, <1>6, <1>8, <2>1, <2>2, <2>3 DEF SessionForm, SessionTokens, InTime
  <1>12. ASSUME NEW q \in Workers, q # p
         PROVE  SessionForm(q)'
    <2>1. SessionForm(q) /\ sessionRequest'[q] = sessionRequest[q] /\ session' = session
      BY <1>1, <1>9, <1>12 DEF SessionInv
    <2> QED
      BY <1>10, <2>1 DEF SessionForm, SessionTokens, InTime
  <1>13. (session.token <= signed)'
    BY <1>1, <1>2 DEF SessionInv, S!Rows
  <1> QED
    BY <1>7, <1>11, <1>12, <1>13 DEF SessionInv

LEMMA SessionDropStep ==
    ASSUME SessionInv, NEW p \in Workers, S!Drop(p)
    PROVE  SessionInv'
  <1>1. /\ sessionRequest' = [sessionRequest EXCEPT ![p] = S!Idle]
        /\ session' = session /\ signed' = signed
    BY DEF S!Drop
  <1>2. S!Idle.entity.token = 1 /\ S!Idle.put.token = None /\ S!Idle.pc = "idle"
    BY SessionForms DEF S!Idle
  <1>3. 1 <= signed
    BY TokensAssumption DEF SessionInv, S!TypeOK
  <1>4. sessionRequest'[p] = S!Idle => SessionForm(p)'
    BY <1>1, <1>2, <1>3 DEF SessionForm, SessionTokens, InTime
  <1> QED
    BY <1>1, <1>4, SessionForms, SessionMoved

\* A write in time neither gives back an older token nor revives the session.
LEMMA WriteInTime ==
    ASSUME SessionInv, NEW p \in Workers, NEW from \in S!PCs, NEW to \in S!PCs,
           from \in {"put touch", "put rotate", "put revoke"},
           S!Write(p, from, to), sessionRequest[p].fresh
    PROVE  /\ session.token <= session'.token
           /\ session'.active = TRUE => session.active = TRUE
           /\ from = "put touch" => session' = session
  <1> DEFINE put == sessionRequest[p].put
  <1>1. session' = [token  |-> S!Given(put.token, session.token),
                    active |-> S!Given(put.active, session.active)]
        /\ sessionRequest[p].pc = from
    BY DEF S!Write
  <1>2. SessionForm(p) /\ session \in S!Rows
    BY DEF SessionInv, S!TypeOK
  <1>3. session.token \in Int
    BY <1>2, SessionTypes
  <1>4. put.token = None \/ session.token <= put.token
    BY <1>1, <1>2 DEF SessionForm, SessionTokens, InTime
  <1>5. put.active \in {None, FALSE}
    BY <1>1, <1>2 DEF SessionForm, SessionTokens, InTime
  <1>6. session'.token = S!Given(put.token, session.token)
        /\ session'.active = S!Given(put.active, session.active)
    BY <1>1
  <1>7. session.token <= session'.token
    <2>1. session'.token = session.token \/ (session'.token = put.token /\ put.token # None)
      BY <1>6 DEF S!Given
    <2>2. CASE session'.token = session.token
      BY SessionNumbers, <2>2, Zenon
    <2>3. CASE session'.token = put.token /\ put.token # None
      BY <1>4, <2>3
    <2> QED
      BY <2>1, <2>2, <2>3
  <1>8. session'.active = TRUE => session.active = TRUE
    BY <1>5, <1>6 DEF S!Given
  <1>9. ASSUME from = "put touch"
        PROVE  session' = session
    <2>1. put.token = None /\ put.active = None
      BY <1>1, <1>2, <1>9 DEF SessionForm, SessionTokens, InTime
    <2>2. session' = [token |-> session.token, active |-> session.active]
      BY <1>1, <2>1 DEF S!Given
    <2> QED
      BY <1>2, <2>2, Zenon DEF S!Rows
  <1> QED
    BY <1>7, <1>8, <1>9

LEMMA WriteStep ==
    ASSUME SessionInv, NEW p \in Workers, NEW from \in S!PCs, NEW to \in S!PCs,
           \/ from = "put touch" /\ to = "sign"
           \/ from \in {"put rotate", "put revoke"} /\ to = "idle",
           S!Write(p, from, to)
    PROVE  SessionInv'
  <1> DEFINE r == sessionRequest[p]
             w == IF to = "idle" THEN S!Idle ELSE [r EXCEPT !.pc = to, !.put = S!NoPut]
  <1>1. /\ session' = [token |-> S!Given(r.put.token, session.token),
                       active |-> S!Given(r.put.active, session.active)]
        /\ signed' = signed /\ r.pc = from
    BY DEF S!Write
  <1>2. /\ r \in S!Requests /\ r.put \in S!Puts /\ session \in S!Rows /\ to \in S!PCs
        /\ signed \in 1 .. MaxTokens /\ SessionForm(p)
    BY DEF SessionInv, S!TypeOK, S!Requests, S!PCs
  <1>3. /\ S!Given(r.put.token, session.token) \in 1 .. MaxTokens
        /\ S!Given(r.put.token, session.token) <= signed
    BY <1>2 DEF S!Given, S!Puts, S!Rows, SessionForm, SessionTokens, InTime, SessionInv
  <1>4. S!Given(r.put.active, session.active) \in BOOLEAN
    BY <1>2 DEF S!Given, S!Puts, S!Rows
  <1>5. session' \in S!Rows /\ session'.token <= signed
    BY <1>1, <1>3, <1>4 DEF S!Rows
  <1>6. w \in S!Requests
    BY <1>2, SessionForms
  <1>7. /\ sessionRequest'[p] = w
        /\ \A q \in Workers : q # p =>
             \/ sessionRequest'[q] = sessionRequest[q]
                /\ (sessionRequest[q].pc = "idle" \/ session' = session)
             \/ sessionRequest'[q] = [sessionRequest[q] EXCEPT !.fresh = FALSE]
        /\ sessionRequest' = [q \in Workers |-> sessionRequest'[q]]
    BY DEF S!Write
  <1>8. ASSUME NEW q \in Workers
        PROVE  sessionRequest'[q] \in S!Requests
    BY <1>6, <1>7, SessionForms DEF SessionInv, S!TypeOK
  <1>9. S!TypeOK'
    BY <1>1, <1>2, <1>5, <1>7, <1>8 DEF SessionInv, S!TypeOK
  <1>10. SessionForm(p)'
    <2>1. CASE to = "idle"
      <3>1. w.pc = "idle" /\ w.entity.token = 1 /\ w.put.token = None
        BY <2>1, SessionForms DEF S!Idle
      <3> HIDE DEF w
      <3>2. 1 <= signed'
        <4>1. signed' = signed
          BY <1>1
        <4> QED
          BY SessionNumbers, <4>1, Zenon
      <3> QED
        BY <1>7, <3>1, <3>2 DEF SessionForm, SessionTokens, InTime
    <2>2. CASE to = "sign"
      <3>1. w.pc = "sign" /\ w.put = S!NoPut /\ w.entity = r.entity /\ w.fresh = r.fresh
        BY <1>2, <2>2 DEF S!Requests
      <3>2. from = "put touch"
        BY <2>2
      <3>3. ASSUME r.fresh
            PROVE  session' = session
        BY <3>2, <3>3, WriteInTime
      <3> HIDE DEF w
      <3> QED
        BY <1>1, <1>2, <1>7, <3>1, <3>2, <3>3, SessionForms DEF SessionForm, SessionTokens, InTime
    <2> QED
      BY <2>1, <2>2
  <1>11. ASSUME NEW q \in Workers, q # p
         PROVE  SessionForm(q)'
    <2>1. sessionRequest[q] \in S!Requests /\ SessionForm(q)
      BY DEF SessionInv, S!TypeOK
    <2>2. CASE sessionRequest'[q] = sessionRequest[q]
               /\ (sessionRequest[q].pc = "idle" \/ session' = session)
      BY <1>1, <2>1, <2>2 DEF SessionForm, SessionTokens, InTime
    <2>3. CASE sessionRequest'[q] = [sessionRequest[q] EXCEPT !.fresh = FALSE]
      <3>1. /\ sessionRequest'[q].fresh = FALSE
            /\ sessionRequest'[q].entity = sessionRequest[q].entity
            /\ sessionRequest'[q].put = sessionRequest[q].put
        BY <2>1, <2>3 DEF S!Requests
      <3> QED
        BY <1>1, <2>1, <3>1 DEF SessionForm, SessionTokens, InTime
    <2> QED
      BY <1>7, <1>11, <2>2, <2>3
  <1> QED
    BY <1>1, <1>5, <1>9, <1>10, <1>11 DEF SessionInv

LEMMA SessionInvStep == SessionInv /\ [S!Next]_sessionVars => SessionInv'
  <1> SUFFICES ASSUME SessionInv, [S!Next]_sessionVars
               PROVE  SessionInv'
    OBVIOUS
  <1>1. CASE UNCHANGED sessionVars
    BY <1>1 DEF sessionVars, SessionInv, SessionForm, SessionTokens, InTime, S!TypeOK
  <1>2. ASSUME NEW p \in Workers, S!Touch(p) \/ S!Rotate(p) \/ S!Revoke(p)
        PROVE  SessionInv'
    <2>1. S!Reload(p, "touch", "put touch") => SessionInv'
      BY ReloadStep DEF S!PCs
    <2>2. S!Reload(p, "rotate", "put rotate") => SessionInv'
      BY ReloadStep DEF S!PCs
    <2>3. S!Reload(p, "revoke", "put revoke") => SessionInv'
      BY ReloadStep DEF S!PCs
    <2>4. S!Write(p, "put touch", "sign") => SessionInv'
      BY WriteStep DEF S!PCs
    <2>5. S!Write(p, "put rotate", "idle") => SessionInv'
      BY WriteStep DEF S!PCs
    <2>6. S!Write(p, "put revoke", "idle") => SessionInv'
      BY WriteStep DEF S!PCs
    <2> QED
      BY <1>2, <2>1, <2>2, <2>3, <2>4, <2>5, <2>6 DEF S!Touch, S!Rotate, S!Revoke
  <1> QED
    BY <1>1, <1>2, RefreshStep, LogoutStep, SignTokensStep, SessionDropStep DEF S!Next

\* A session that is logged out gets no token, and neither an entity saved
\* whole nor a refresh in time gives back what was replaced or revoked.
THEOREM SessionsEnd == Spec => LogoutEnds
  <1> DEFINE Ends ==
          /\ signed' # signed =>
               \/ session.active
               \/ \E p \in Workers : sessionRequest[p].pc = "sign" /\ ~ sessionRequest[p].fresh
          /\ \/ session'.token >= session.token /\ (session'.active => session.active)
             \/ \E p \in Workers : S!LateWrite(p)
  <1>1. Init => SessionInv
    BY SessionInvInit DEF Init
  <1>2. SessionInv /\ [Next]_vars => SessionInv'
    BY SessionInvStep, PartSteps
  <1>3. SessionInv /\ [Next]_vars => [Ends]_sessionVars
    <2> SUFFICES ASSUME SessionInv, S!Next
                 PROVE  Ends
      BY PartSteps
    <2>0. session.token \in Int /\ session.active \in BOOLEAN
      BY DEF SessionInv, S!TypeOK, S!Rows
    <2>1. ASSUME signed' # signed
          PROVE  \/ session.active
                 \/ \E p \in Workers : sessionRequest[p].pc = "sign" /\ ~ sessionRequest[p].fresh
      <3>1. PICK p \in Workers : S!SignTokens(p)
        BY <2>1 DEF S!Next, S!Refresh, S!Logout, S!Begin, S!Touch, S!Rotate, S!Revoke,
                    S!Reload, S!Write, S!Drop
      <3> QED
        BY <3>1 DEF S!SignTokens, SessionInv, SessionForm, SessionTokens, InTime
    <2>2. ASSUME session' # session
          PROVE  \/ session'.token >= session.token /\ (session'.active => session.active)
                 \/ \E p \in Workers : S!LateWrite(p)
      <3>1. PICK p \in Workers : \/ S!Write(p, "put touch", "sign")
                                 \/ S!Write(p, "put rotate", "idle")
                                 \/ S!Write(p, "put revoke", "idle")
        BY <2>2 DEF S!Next, S!Refresh, S!Logout, S!Begin, S!Touch, S!Rotate, S!Revoke,
                    S!Reload, S!SignTokens, S!Drop
      <3>2. PICK from \in {"put touch", "put rotate", "put revoke"}, to \in {"sign", "idle"} :
                S!Write(p, from, to)
        BY <3>1
      <3>3. session' \in S!Rows
        BY SessionInvStep DEF SessionInv, S!TypeOK
      <3>4. session'.token \in Int
        BY <3>3, SessionTypes
      <3>5. CASE sessionRequest[p].fresh
        <4>1. session.token <= session'.token /\ (session'.active = TRUE => session.active = TRUE)
          BY <3>2, <3>5, WriteInTime DEF S!PCs
        <4>2. session'.active \in BOOLEAN
          BY <3>3 DEF S!Rows
        <4>3. session'.active => session.active
          BY <2>0, <4>1, <4>2
        <4> QED
          BY <2>0, <3>4, <4>1, <4>3
      <3>6. CASE ~ sessionRequest[p].fresh
        BY <3>2, <3>6 DEF S!Write, S!LateWrite
      <3> QED
        BY <3>5, <3>6
    <2>3. CASE session' = session
      BY <2>0, <2>1, <2>3
    <2> QED
      BY <2>1, <2>2, <2>3
  <1> QED
    BY <1>1, <1>2, <1>3, PTL DEF Spec, LogoutEnds, S!LogoutEnds, S!vars, sessionVars

-----------------------------------------------------------------------------
(* UserAccess *)

AccessPCs == {"idle", "reload", "put", "permissions", "delete", "insert"}

LEMMA AccessForms ==
    /\ U!NoPut \in U!Puts
    /\ U!Idle \in U!WorkerStates /\ U!Idle.pc = "idle"
    /\ \A x \in U!WorkerStates :
         /\ \A pc \in AccessPCs : [x EXCEPT !.pc = pc] \in U!WorkerStates
         /\ \A put \in U!Puts : [x EXCEPT !.save = put] \in U!WorkerStates
         /\ \A s \in (SUBSET Pages) \cup {None} : [x EXCEPT !.pages = s] \in U!WorkerStates
         /\ \A b \in BOOLEAN : [x EXCEPT !.reset = b] \in U!WorkerStates
         /\ \A g \in Groups : [x EXCEPT !.group = g] \in U!WorkerStates
         /\ \A b \in BOOLEAN : [x EXCEPT !.fresh = b] \in U!WorkerStates
  <1>1. U!NoPut \in U!Puts
    BY DEF U!NoPut, U!Puts
  <1>2. U!Idle \in U!WorkerStates /\ U!Idle.pc = "idle"
    BY <1>1 DEF U!Idle, U!WorkerStates
  <1>3. ASSUME NEW x \in U!WorkerStates, NEW pc \in AccessPCs
        PROVE  [x EXCEPT !.pc = pc] \in U!WorkerStates
    BY ZenonT(60) DEF U!WorkerStates, AccessPCs
  <1>4. ASSUME NEW x \in U!WorkerStates, NEW put \in U!Puts
        PROVE  [x EXCEPT !.save = put] \in U!WorkerStates
    BY ZenonT(60) DEF U!WorkerStates
  <1>5. ASSUME NEW x \in U!WorkerStates, NEW s \in (SUBSET Pages) \cup {None}
        PROVE  [x EXCEPT !.pages = s] \in U!WorkerStates
    BY ZenonT(60) DEF U!WorkerStates
  <1>6. ASSUME NEW x \in U!WorkerStates, NEW b \in BOOLEAN
        PROVE  [x EXCEPT !.reset = b] \in U!WorkerStates
    BY ZenonT(60) DEF U!WorkerStates
  <1>7. ASSUME NEW x \in U!WorkerStates, NEW g \in Groups
        PROVE  [x EXCEPT !.group = g] \in U!WorkerStates
    <2>1. g \in Groups \cup {None}
      OBVIOUS
    <2> QED
      BY <2>1, ZenonT(60) DEF U!WorkerStates
  <1>8. ASSUME NEW x \in U!WorkerStates, NEW b \in BOOLEAN
        PROVE  [x EXCEPT !.fresh = b] \in U!WorkerStates
    BY ZenonT(60) DEF U!WorkerStates
  <1> QED
    BY <1>1, <1>2, <1>3, <1>4, <1>5, <1>6, <1>7, <1>8

\* What a request that nobody has overtaken has read.
AccessForm(p) ==
    LET w == accessWorker[p]
    IN  /\ w.pc = "permissions" /\ w.reset = FALSE => w.pages # None
        /\ w.pc = "delete" /\ w.reset = FALSE => w.pages # None
        /\ w.pc = "insert" => w.pages # None
        /\ w.pc \in {"delete", "insert"} => w.group \in Groups
        /\ w.fresh = TRUE /\ w.pc \in {"delete", "insert"} => w.group = user.group
        /\ w.fresh = TRUE /\ w.pc = "insert" => \A k \in Pages : override[k] = None

AccessInv ==
    /\ U!TypeOK
    /\ U!PagesAsAsked
    /\ \A p \in Workers : AccessForm(p)

\* The overrides of some pages are what the defaults lack for just them.
LEMMA EffectiveDesired ==
    ASSUME NEW g \in Groups, NEW pages \in SUBSET Pages
    PROVE  U!Effective(g, U!DesiredOverrides(g, pages)) = pages
  <1> DEFINE o == U!DesiredOverrides(g, pages)
  <1>1. ASSUME NEW k \in Pages
        PROVE  (o[k] = TRUE \/ (o[k] = None /\ k \in Defaults[g])) <=> k \in pages
    <2>1. o[k] = IF (k \in pages) = (k \in Defaults[g]) THEN None ELSE k \in pages
      BY DEF U!DesiredOverrides
    <2>2. None # TRUE /\ None # FALSE
      BY NoneAssumption
    <2>3. CASE k \in pages /\ k \in Defaults[g]
      BY <2>1, <2>3
    <2>4. CASE k \in pages /\ k \notin Defaults[g]
      BY <2>1, <2>4
    <2>5. CASE k \notin pages /\ k \in Defaults[g]
      <3>1. ~ ((k \in pages) = (k \in Defaults[g]))
        BY <2>5
      <3>2. o[k] = (k \in pages)
        BY <2>1, <3>1, Zenon
      <3>3. o[k] # TRUE
        BY <2>5, <3>2
      <3>4. o[k] \in BOOLEAN
        BY <3>2
      <3> QED
        BY <2>2, <2>5, <3>3, <3>4, Zenon
    <2>6. CASE k \notin pages /\ k \notin Defaults[g]
      BY <2>1, <2>2, <2>6
    <2> QED
      BY <2>3, <2>4, <2>5, <2>6
  <1> HIDE DEF o
  <1>2. U!Effective(g, o) = pages
    BY <1>1 DEF U!Effective
  <1> QED
    BY <1>2 DEF o

LEMMA AccessInvInit == U!Init => AccessInv
  <1> SUFFICES ASSUME U!Init
               PROVE  AccessInv
    OBVIOUS
  <1>1. user \in U!Rows
    BY DEF U!Init, U!Rows
  <1>2. U!TypeOK
    BY <1>1, AccessForms DEF U!Init, U!TypeOK
  <1>3. \A p \in Workers : AccessForm(p)
    BY AccessForms DEF U!Init, AccessForm
  <1>4. U!PagesAsAsked
    BY DEF U!Init, U!PagesAsAsked
  <1> QED
    BY <1>2, <1>3, <1>4 DEF AccessInv

\* A step of p that leaves the others as they are.
LEMMA AccessMoved ==
    ASSUME AccessInv, NEW p \in Workers, NEW w \in U!WorkerStates,
           UNCHANGED <<user, override, asked, mixed>>,
           accessWorker' = [accessWorker EXCEPT ![p] = w],
           accessWorker'[p] = w => AccessForm(p)'
    PROVE  AccessInv'
  <1>1. U!TypeOK'
    BY DEF AccessInv, U!TypeOK
  <1>2. accessWorker'[p] = w
    BY DEF AccessInv, U!TypeOK
  <1>3. \A q \in Workers : q # p => AccessForm(q)'
    BY DEF AccessForm, AccessInv, U!TypeOK
  <1>4. U!PagesAsAsked'
    BY DEF AccessInv, U!PagesAsAsked, U!Effective
  <1> QED
    BY <1>1, <1>2, <1>3, <1>4 DEF AccessInv

LEMMA AdminUpdateStep ==
    ASSUME AccessInv, NEW p \in Workers, NEW input \in Inputs, U!AdminUpdate(p, input)
    PROVE  AccessInv'
  <1> DEFINE g == U!Given(input.group, user.group)
             st == U!Given(input.status, user.status)
             d == CASE input.status = None  -> user.inactivated
                    [] input.status = FALSE -> TRUE
                    [] OTHER                -> None
             put == [group |-> g, status |-> st, inactivated |-> d]
             w == [U!Idle EXCEPT !.pc = "reload", !.pages = input.pages,
                                 !.reset = input.reset, !.save = put]
  <1>1. /\ accessWorker' = [accessWorker EXCEPT ![p] = w]
        /\ UNCHANGED <<user, override, asked, mixed>>
    BY DEF U!AdminUpdate
  <1>2. /\ input.group \in Groups \cup {None} /\ input.status \in BOOLEAN \cup {None}
        /\ input.pages \in (SUBSET Pages) \cup {None} /\ input.reset \in BOOLEAN
    BY AccessAssumption
  <1>3. user.group \in Groups /\ user.status \in BOOLEAN /\ user.inactivated \in BOOLEAN
    BY DEF AccessInv, U!TypeOK, U!Rows
  <1>4. g \in Groups \cup {None} /\ st \in BOOLEAN \cup {None}
    BY <1>2, <1>3 DEF U!Given
  <1>5. d \in BOOLEAN \cup {None}
    BY <1>2, <1>3
  <1> HIDE DEF g, st, d
  <1>6. put \in U!Puts
    BY <1>4, <1>5 DEF U!Puts
  <1> HIDE DEF put
  <1>7. w \in U!WorkerStates
    BY <1>2, <1>6, AccessForms DEF AccessPCs
  <1>8. w.pc = "reload"
    BY DEF U!Idle
  <1> HIDE DEF w
  <1>9. accessWorker'[p] = w => AccessForm(p)'
    BY <1>8 DEF AccessForm
  <1> QED
    BY <1>1, <1>7, <1>9, AccessMoved

LEMMA ReloadUserStep ==
    ASSUME AccessInv, NEW p \in Workers, U!ReloadUser(p)
    PROVE  AccessInv'
  <1> DEFINE x == accessWorker[p]
             g == U!Differing(x.save.group, user.group)
             st == U!Differing(x.save.status, user.status)
             d == U!Changed(x.save.inactivated, user.inactivated)
             put == [group |-> g, status |-> st, inactivated |-> d]
             w == [x EXCEPT !.pc = "put", !.save = put]
  <1>1. /\ accessWorker' = [accessWorker EXCEPT ![p] = w]
        /\ UNCHANGED <<user, override, asked, mixed>>
    BY DEF U!ReloadUser, AccessInv, U!TypeOK
  <1>2. x \in U!WorkerStates /\ x.save \in U!Puts
    BY DEF AccessInv, U!TypeOK, U!WorkerStates
  <1>3. /\ x.save.group \in Groups \cup {None} /\ x.save.status \in BOOLEAN \cup {None}
        /\ x.save.inactivated \in BOOLEAN \cup {None}
    BY <1>2 DEF U!Puts
  <1>4. g \in Groups \cup {None} /\ st \in BOOLEAN \cup {None}
    BY <1>3 DEF U!Differing
  <1>5. d \in BOOLEAN \cup {None}
    BY <1>3 DEF U!Differing, U!Changed
  <1> HIDE DEF g, st, d
  <1>6. put \in U!Puts
    BY <1>4, <1>5 DEF U!Puts
  <1> HIDE DEF put
  <1>7. w \in U!WorkerStates
    BY <1>2, <1>6, AccessForms DEF AccessPCs
  <1>8. w.pc = "put"
    BY <1>2 DEF U!WorkerStates
  <1> HIDE DEF w
  <1>9. accessWorker'[p] = w => AccessForm(p)'
    BY <1>8 DEF AccessForm
  <1> QED
    BY <1>1, <1>7, <1>9, AccessMoved

LEMMA ReadUserStep ==
    ASSUME AccessInv, NEW p \in Workers, U!ReadUser(p)
    PROVE  AccessInv'
  <1> DEFINE x == accessWorker[p]
             w == [x EXCEPT !.pc = "delete", !.group = user.group, !.fresh = TRUE]
  <1>1. /\ accessWorker' = [accessWorker EXCEPT ![p] = w]
        /\ UNCHANGED <<user, override, asked, mixed>> /\ x.pc = "permissions"
    BY DEF U!ReadUser, U!At, AccessInv, U!TypeOK
  <1>2. x \in U!WorkerStates /\ user.group \in Groups
    BY DEF AccessInv, U!TypeOK, U!Rows
  <1>3. w \in U!WorkerStates
    BY <1>2, AccessForms DEF AccessPCs
  <1>4. w.pc = "delete" /\ w.group = user.group /\ w.pages = x.pages /\ w.reset = x.reset
    BY <1>2 DEF U!WorkerStates
  <1>5. x.reset = FALSE => x.pages # None
    BY <1>1 DEF AccessInv, AccessForm
  <1> HIDE DEF w, x
  <1>6. accessWorker'[p] = w => AccessForm(p)'
    BY <1>1, <1>2, <1>4, <1>5 DEF AccessForm
  <1> QED
    BY <1>1, <1>3, <1>6, AccessMoved

LEMMA AccessFailStep ==
    ASSUME AccessInv, NEW p \in Workers, U!Fail(p)
    PROVE  AccessInv'
  <1>1. /\ accessWorker' = [accessWorker EXCEPT ![p] = U!Idle]
        /\ UNCHANGED <<user, override, asked, mixed>>
    BY DEF U!Fail
  <1>2. accessWorker'[p] = U!Idle => AccessForm(p)'
    BY AccessForms DEF AccessForm
  <1> QED
    BY <1>1, <1>2, AccessForms, AccessMoved

\* A step of p that outdates what the others have read.
LEMMA AccessOutdated ==
    ASSUME AccessInv, NEW p \in Workers, NEW w \in U!WorkerStates, U!Outdating(p, w)
    PROVE  /\ accessWorker' \in [Workers -> U!WorkerStates]
           /\ accessWorker'[p] = w
           /\ \A q \in Workers : q # p => AccessForm(q)'
  <1>1. /\ accessWorker'[p] = w
        /\ \A q \in Workers : q # p =>
             \/ accessWorker'[q] = accessWorker[q] /\ accessWorker[q].pc = "idle"
             \/ accessWorker'[q] = [accessWorker[q] EXCEPT !.fresh = FALSE]
        /\ accessWorker' = [q \in Workers |-> accessWorker'[q]]
    BY DEF U!Outdating, U!At
  <1>2. ASSUME NEW q \in Workers, q # p
        PROVE  accessWorker'[q] \in U!WorkerStates /\ AccessForm(q)'
    <2>1. accessWorker[q] \in U!WorkerStates /\ AccessForm(q)
      BY DEF AccessInv, U!TypeOK
    <2>2. CASE accessWorker'[q] = accessWorker[q] /\ accessWorker[q].pc = "idle"
      BY <2>1, <2>2 DEF AccessForm
    <2>3. CASE accessWorker'[q] = [accessWorker[q] EXCEPT !.fresh = FALSE]
      <3> DEFINE x == accessWorker[q]
                 y == [x EXCEPT !.fresh = FALSE]
      <3>1. /\ y.pc = x.pc /\ y.pages = x.pages /\ y.reset = x.reset /\ y.group = x.group
            /\ y.fresh = FALSE
        BY <2>1 DEF U!WorkerStates
      <3>2. y \in U!WorkerStates
        BY <2>1, AccessForms
      <3> HIDE DEF y
      <3>3. accessWorker'[q] = y
        BY <2>3 DEF y
      <3> QED
        BY <2>1, <3>1, <3>2, <3>3 DEF AccessForm
    <2> QED
      BY <1>1, <1>2, <2>2, <2>3
  <1> QED
    BY <1>1, <1>2

LEMMA WriteUserStep ==
    ASSUME AccessInv, NEW p \in Workers, U!WriteUser(p)
    PROVE  AccessInv'
  <1> DEFINE x == accessWorker[p]
             y == [x EXCEPT !.pc = "permissions", !.save = U!NoPut]
             w == IF x.pages = None /\ ~ x.reset THEN U!Idle ELSE y
  <1>1. /\ user' = [group |-> U!Given(x.save.group, user.group),
                    status |-> U!Given(x.save.status, user.status),
                    inactivated |-> U!Given(x.save.inactivated, user.inactivated)]
        /\ override' = override /\ mixed' = mixed
        /\ asked' = IF user'.group = user.group THEN asked ELSE None
        /\ user'.group = user.group => accessWorker' = [accessWorker EXCEPT ![p] = w]
        /\ user'.group # user.group => U!Outdating(p, w)
    BY DEF U!WriteUser
  <1>2. x \in U!WorkerStates /\ x.save \in U!Puts /\ user \in U!Rows
    BY DEF AccessInv, U!TypeOK, U!WorkerStates
  <1>3. user' \in U!Rows
    <2>1. /\ U!Given(x.save.group, user.group) \in Groups
          /\ U!Given(x.save.status, user.status) \in BOOLEAN
          /\ U!Given(x.save.inactivated, user.inactivated) \in BOOLEAN
      BY <1>2 DEF U!Given, U!Puts, U!Rows
    <2> QED
      BY <1>1, <2>1 DEF U!Rows
  <1>4. w \in U!WorkerStates
    BY <1>2, AccessForms DEF AccessPCs
  <1>5. w.pc = "idle" \/ (w.pc = "permissions" /\ (w.reset = FALSE => w.pages # None))
    <2>1. CASE x.pages = None /\ ~ x.reset
      BY <2>1, AccessForms
    <2>2. CASE ~ (x.pages = None /\ ~ x.reset)
      <3>1. w = y /\ y.pc = "permissions" /\ y.reset = x.reset /\ y.pages = x.pages
        BY <1>2, <2>2 DEF U!WorkerStates
      <3>2. x.reset \in BOOLEAN
        BY <1>2 DEF U!WorkerStates
      <3> QED
        BY <2>2, <3>1, <3>2
    <2> QED
      BY <2>1, <2>2
  <1> HIDE DEF w
  <1>6. asked' \in (SUBSET Pages) \cup {None}
    BY <1>1 DEF AccessInv, U!TypeOK
  <1>7. CASE user'.group = user.group
    <2>1. accessWorker' = [accessWorker EXCEPT ![p] = w] /\ asked' = asked
      BY <1>1, <1>7
    <2>2. U!TypeOK'
      BY <1>1, <1>3, <1>4, <2>1 DEF AccessInv, U!TypeOK
    <2>3. accessWorker'[p] = w /\ \A q \in Workers : q # p => accessWorker'[q] = accessWorker[q]
      BY <2>1 DEF AccessInv, U!TypeOK
    <2>4. AccessForm(p)'
      BY <1>5, <2>3 DEF AccessForm
    <2>5. \A q \in Workers : q # p => AccessForm(q)'
      BY <1>1, <1>7, <2>3 DEF AccessForm, AccessInv
    <2>6. U!PagesAsAsked'
      BY <1>1, <1>7, <2>1 DEF AccessInv, U!PagesAsAsked, U!Effective
    <2> QED
      BY <2>2, <2>4, <2>5, <2>6 DEF AccessInv
  <1>8. CASE user'.group # user.group
    <2>1. U!Outdating(p, w) /\ asked' = None
      BY <1>1, <1>8
    <2>2. /\ accessWorker' \in [Workers -> U!WorkerStates] /\ accessWorker'[p] = w
          /\ \A q \in Workers : q # p => AccessForm(q)'
      BY <1>4, <2>1, AccessOutdated
    <2>3. AccessForm(p)'
      BY <1>5, <2>2 DEF AccessForm
    <2>4. U!TypeOK'
      BY <1>1, <1>3, <1>6, <2>2 DEF AccessInv, U!TypeOK
    <2>5. U!PagesAsAsked'
      BY <2>1 DEF U!PagesAsAsked
    <2> QED
      BY <2>2, <2>3, <2>4, <2>5 DEF AccessInv
  <1> QED
    BY <1>7, <1>8

LEMMA DeleteOverridesStep ==
    ASSUME AccessInv, NEW p \in Workers, U!DeleteOverrides(p)
    PROVE  AccessInv'
  <1> DEFINE x == accessWorker[p]
             y == [x EXCEPT !.pc = "insert"]
             w == IF x.reset THEN U!Idle ELSE y
  <1>1. /\ override' = [k \in Pages |-> None] /\ asked' = None /\ mixed' = FALSE
        /\ user' = user /\ U!Outdating(p, w) /\ x.pc = "delete"
    BY DEF U!DeleteOverrides, U!At
  <1>2. x \in U!WorkerStates /\ AccessForm(p)
    BY DEF AccessInv, U!TypeOK
  <1>3. w \in U!WorkerStates
    BY <1>2, AccessForms DEF AccessPCs
  <1>4. \/ w.pc = "idle"
        \/ /\ w.pc = "insert" /\ w.pages # None /\ w.group \in Groups
           /\ w.fresh = TRUE => w.group = user.group
    <2>1. CASE x.reset
      BY <2>1, AccessForms
    <2>2. CASE ~ x.reset
      <3>1. /\ w = y /\ y.pc = "insert" /\ y.group = x.group /\ y.pages = x.pages
            /\ y.fresh = x.fresh
        BY <1>2, <2>2 DEF U!WorkerStates
      <3>2. x.reset = FALSE
        BY <1>2, <2>2 DEF U!WorkerStates
      <3> HIDE DEF w, y
      <3> QED
        BY <1>1, <1>2, <3>1, <3>2 DEF AccessForm
    <2> QED
      BY <2>1, <2>2
  <1> HIDE DEF w
  <1>5. /\ accessWorker' \in [Workers -> U!WorkerStates] /\ accessWorker'[p] = w
        /\ \A q \in Workers : q # p => AccessForm(q)'
    BY <1>1, <1>3, AccessOutdated
  <1>6. AccessForm(p)'
    BY <1>1, <1>4, <1>5 DEF AccessForm
  <1>7. U!TypeOK'
    BY <1>1, <1>5 DEF AccessInv, U!TypeOK
  <1>8. U!PagesAsAsked'
    BY <1>1 DEF U!PagesAsAsked
  <1> QED
    BY <1>5, <1>6, <1>7, <1>8 DEF AccessInv

LEMMA InsertOverridesStep ==
    ASSUME AccessInv, NEW p \in Workers, U!InsertOverrides(p)
    PROVE  AccessInv'
  <1> DEFINE x == accessWorker[p]
             desired == U!DesiredOverrides(x.group, x.pages)
  <1>1. x.pc = "insert" /\ user' = user
    BY DEF U!InsertOverrides, U!At
  <1>2. x \in U!WorkerStates /\ AccessForm(p)
    BY DEF AccessInv, U!TypeOK
  <1>3. x.pages # None /\ x.group \in Groups
    BY <1>1, <1>2 DEF AccessForm
  <1>4. x.pages \in SUBSET Pages
    BY <1>2, <1>3 DEF U!WorkerStates
  <1>5. CASE \E k \in Pages : desired[k] # None /\ override[k] # None
    <2>1. /\ accessWorker' = [accessWorker EXCEPT ![p] = U!Idle]
          /\ UNCHANGED <<user, override, asked, mixed>>
      BY <1>5 DEF U!InsertOverrides
    <2>2. accessWorker'[p] = U!Idle => AccessForm(p)'
      BY AccessForms DEF AccessForm
    <2> QED
      BY <2>1, <2>2, AccessForms, AccessMoved
  <1>6. CASE ~ \E k \in Pages : desired[k] # None /\ override[k] # None
    <2>1. /\ override' = [k \in Pages |-> U!Given(desired[k], override[k])]
          /\ asked' = x.pages /\ mixed' = ~ x.fresh /\ U!Outdating(p, U!Idle)
      BY <1>6 DEF U!InsertOverrides
    <2>2. /\ accessWorker' \in [Workers -> U!WorkerStates] /\ accessWorker'[p] = U!Idle
          /\ \A q \in Workers : q # p => AccessForm(q)'
      BY <2>1, AccessForms, AccessOutdated
    <2>3. AccessForm(p)'
      BY <2>2, AccessForms DEF AccessForm
    <2>4. ASSUME NEW k \in Pages
          PROVE  desired[k] \in BOOLEAN \cup {None}
      BY DEF U!DesiredOverrides
    <2>5. override' \in [Pages -> BOOLEAN \cup {None}]
      <3>1. ASSUME NEW k \in Pages
            PROVE  U!Given(desired[k], override[k]) \in BOOLEAN \cup {None}
        BY <2>4 DEF U!Given, AccessInv, U!TypeOK
      <3> HIDE DEF desired
      <3> QED
        BY <2>1, <3>1
    <2>6. mixed' \in BOOLEAN
      BY <2>1
    <2>7. U!TypeOK'
      BY <1>1, <1>4, <2>1, <2>2, <2>5, <2>6 DEF AccessInv, U!TypeOK
    <2>8. CASE x.fresh = TRUE
      <3>1. x.group = user.group /\ \A k \in Pages : override[k] = None
        BY <1>1, <1>2, <2>8 DEF AccessForm
      <3>2. desired = [k \in Pages |-> desired[k]]
        BY DEF U!DesiredOverrides
      <3>3. override' = desired
        <4> HIDE DEF desired
        <4>1. \A k \in Pages : U!Given(desired[k], override[k]) = desired[k]
          BY <3>1 DEF U!Given
        <4> QED
          BY <2>1, <3>2, <4>1
      <3>4. U!Effective(user.group, desired) = x.pages
        BY <1>3, <1>4, <3>1, EffectiveDesired
      <3>5. U!Effective(user.group, override)' = U!Effective(user.group, desired)
        BY <1>1, <3>3 DEF U!Effective
      <3> QED
        BY <2>1, <3>4, <3>5, <2>2, <2>3, <2>7 DEF AccessInv, U!PagesAsAsked
    <2>9. CASE x.fresh # TRUE
      <3>1. mixed' = TRUE
        BY <1>2, <2>1, <2>9 DEF U!WorkerStates
      <3> QED
        BY <3>1, <2>2, <2>3, <2>7 DEF AccessInv, U!PagesAsAsked
    <2> QED
      BY <2>8, <2>9
  <1> QED
    BY <1>5, <1>6

LEMMA AccessInvStep == AccessInv /\ [U!Next]_accessVars => AccessInv'
  <1> SUFFICES ASSUME AccessInv, [U!Next]_accessVars
               PROVE  AccessInv'
    OBVIOUS
  <1>1. CASE UNCHANGED accessVars
    BY <1>1 DEF accessVars, AccessInv, AccessForm, U!TypeOK, U!PagesAsAsked, U!Effective
  <1> QED
    BY <1>1, AdminUpdateStep, ReloadUserStep, WriteUserStep, ReadUserStep, DeleteOverridesStep,
       InsertOverridesStep, AccessFailStep DEF U!Next

\* A user has the pages of the request answered last.
THEOREM PagesStayAsAsked == Spec => []PagesAsAsked
  <1>1. Init => AccessInv
    BY AccessInvInit DEF Init
  <1>2. AccessInv /\ [Next]_vars => AccessInv'
    BY AccessInvStep, PartSteps
  <1>3. AccessInv => PagesAsAsked
    BY DEF AccessInv, PagesAsAsked
  <1> QED
    BY <1>1, <1>2, <1>3, PTL DEF Spec

-----------------------------------------------------------------------------

\* Every part keeps its types.
THEOREM TypesHold == Spec => []TypeOK
  <1> DEFINE OfficeInv == C!TypeOK /\ SessionInv /\ RecoveryInv /\ AccessInv /\ LeadInv
  <1>1. Init => OfficeInv
    BY CredentialTypeInit, SessionInvInit, RecoveryInvInit, AccessInvInit, LeadInvInit DEF Init
  <1>2. OfficeInv /\ [Next]_vars => OfficeInv'
    BY PartSteps, CredentialTypeStep, SessionInvStep, RecoveryInvStep, AccessInvStep, LeadInvStep
  <1>3. OfficeInv => TypeOK
    BY DEF SessionInv, RecoveryInv, AccessInv, LeadInv, TypeOK
  <1> QED
    BY <1>1, <1>2, <1>3, PTL DEF Spec

=============================================================================
