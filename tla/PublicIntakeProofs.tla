------------------------- MODULE PublicIntakeProofs -------------------------
(***************************************************************************)
(* What PublicIntake guarantees for every number of codes, clients,        *)
(* budgets and requests: its types, the numbers of budgets, and what       *)
(* becomes of codes (final statuses, few open ones, results that belong    *)
(* together).                                                              *)
(***************************************************************************)
EXTENDS PublicIntake, FiniteSetTheorems, TLAPS

-----------------------------------------------------------------------------
(* The shape of the state *)

\* The steps at which a request is known to carry a user, a code, a client.
UserPCs == {"insertCode", "findLead", "saveLead", "checkLead", "takeNumber", "commit"}
CodePCs == {"markVerified", "findLead", "saveLead", "checkLead", "consume"}
ClientPCs == {"findLead", "checkLead", "insertLead"}

WorkerFits(w) ==
    /\ w \in WorkerStates
    /\ w.pc \in UserPCs => w.user \in Operators
    /\ w.pc \in CodePCs => w.c \in Codes
    /\ w.pc \in ClientPCs => w.client \in Clients
    /\ w.pc \in {"saveLead", "consume"} => w.lead \in Leads
    /\ w.pc \in {"takeNumber", "commit"} /\ w.lead = None => w.client \in Clients
    /\ w.pc = "commit" => w.number # 0
    /\ w.pc = "consume" => w.budget \in Budgets

TypeInv == TypeOK /\ \A p \in Workers : WorkerFits(worker[p])

\* The budgets that exist are numbered from 1 up to how many they are, and a
\* transaction that is about to commit holds the lock and the next number.
Numbered == {b \in Budgets : budget[b].number # 0}

NumberInv ==
    /\ \A b \in Budgets : budget[b].number <= Cardinality(Numbered)
    /\ \A n \in 1 .. Cardinality(Numbered) : \E b \in Budgets : budget[b].number = n
    /\ \A p \in Workers :
         At(p, "commit") => /\ numberLock = p
                            /\ worker[p].number = Cardinality(Numbered) + 1

LEMMA NumberedFinite == IsFiniteSet(Numbered) /\ Cardinality(Numbered) \in Nat
  BY FS_Subset, FS_CardinalityType, ConstantsAssumption DEF Numbered

LEMMA BudgetNow ==
    ASSUME TypeInv, NEW b \in Budgets
    PROVE  budget[b].number \in Nat /\ (budget[b].number = 0 => budget[b] = NoBudget)
  BY DEF TypeInv, TypeOK, StoreOK, BudgetRows, NoBudget

\* The largest number is the number of budgets.
LEMMA LastIsCount ==
    ASSUME TypeInv, NumberInv
    PROVE  LastNumber = Cardinality(Numbered)
  <1> DEFINE n == Cardinality(Numbered)
  <1>1. n \in Nat /\ IsFiniteSet(Numbered)
    BY NumberedFinite
  <1>2. CASE Numbered = {}
    <2>1. n = 0 /\ Numbers = {}
      BY <1>2, FS_EmptySet DEF Numbers, Numbered
    <2> QED
      BY <2>1 DEF LastNumber
  <1>3. CASE Numbered # {}
    <2>1. n # 0
      BY <1>1, <1>3, FS_EmptySet
    <2>2. n \in Numbers
      BY <1>1, <2>1 DEF NumberInv, Numbers
    <2>3. \A m \in Numbers : m <= n /\ m \in Nat
      BY BudgetNow DEF NumberInv, Numbers
    <2>4. Largest \in Numbers /\ \A m \in Numbers : m <= Largest
      BY <2>2, <2>3 DEF Largest
    <2>5. Largest = n
      BY <1>1, <2>2, <2>3, <2>4
    <2> QED
      BY <2>2, <2>5 DEF LastNumber
  <1> QED
    BY <1>2, <1>3

LEMMA CodeNow ==
    ASSUME TypeInv
    PROVE  code \in [Codes -> CodeRows] /\ \A c \in Codes : code[c] \in CodeRows
  BY DEF TypeInv, TypeOK, StoreOK

LEMMA WorkerNow ==
    ASSUME TypeInv, NEW p \in Workers
    PROVE  worker[p] \in WorkerStates /\ WorkerFits(worker[p])
  BY DEF TypeInv, TypeOK

LEMMA IdleFits == WorkerFits(Idle) /\ Idle.pc = "idle"
  BY DEF Idle, WorkerFits, WorkerStates, PCs, UserPCs, CodePCs, ClientPCs

LEMMA TypeInit == Init => TypeInv
  <1> SUFFICES ASSUME Init PROVE TypeInv
    OBVIOUS
  <1>1. NoCode \in CodeRows /\ NoBudget \in BudgetRows
    BY DEF NoCode, CodeRows, BudgetRows
  <1>2. StoreOK
    BY <1>1 DEF Init, StoreOK
  <1>3. worker \in [Workers -> WorkerStates] /\ \A p \in Workers : WorkerFits(worker[p])
    BY IdleFits DEF Init, WorkerFits
  <1> QED
    BY <1>2, <1>3 DEF TypeInv, TypeOK

\* A step of one request keeps the shape if what it stores and what it goes on
\* with have it.
LEMMA MoveKeepsType ==
    ASSUME TypeInv, NEW p \in Workers, NEW w, Goto(p, w), WorkerFits(w), StoreOK'
    PROVE  TypeInv'
  <1>1. worker' = [worker EXCEPT ![p] = w] /\ worker \in [Workers -> WorkerStates]
    BY DEF Goto, TypeInv, TypeOK
  <1>2. \A q \in Workers : worker'[q] = IF q = p THEN w ELSE worker[q]
    BY <1>1
  <1>3. worker' \in [Workers -> WorkerStates]
    BY <1>1 DEF WorkerFits
  <1>4. \A q \in Workers : WorkerFits(worker'[q])
    BY <1>2 DEF TypeInv
  <1> QED
    BY <1>3, <1>4 DEF TypeInv, TypeOK, WorkerFits

LEMMA LocalMoveKeepsType ==
    ASSUME TypeInv, NEW p \in Workers, NEW w, Goto(p, w), WorkerFits(w),
           UNCHANGED <<code, lead, budget, locks>>
    PROVE  TypeInv'
  <1>1. StoreOK'
    BY DEF TypeInv, TypeOK, StoreOK, locks
  <1> QED
    BY <1>1, MoveKeepsType

LEMMA DoneKeepsType ==
    ASSUME TypeInv, NEW p \in Workers, Done(p), StoreOK'
    PROVE  TypeInv'
  BY IdleFits, MoveKeepsType DEF Done

LEMMA ReleaseType ==
    ASSUME TypeInv, NEW p \in Workers, Release(p)
    PROVE  /\ leadLock' \in [Leads -> Workers \cup {None}]
           /\ numberLock' \in Workers \cup {None}
  BY DEF Release, TypeInv, TypeOK, StoreOK

-----------------------------------------------------------------------------
(* Requests that are taken up *)

LEMMA RequestType ==
    ASSUME TypeInv, NEW p \in Workers, Request(p)
    PROVE  TypeInv'
  <1>1. ASSUME NEW u \in Operators, IssueCode(p, u) PROVE TypeInv'
    <2> DEFINE w == [Idle EXCEPT !.pc = "insertCode", !.user = u]
    <2>1. WorkerFits(w)
      BY DEF Idle, WorkerFits, WorkerStates, PCs, UserPCs, CodePCs, ClientPCs
    <2>2. code' \in [Codes -> CodeRows]
      <3>1. \A c \in Codes : [code[c] EXCEPT !.invalidated = TRUE] \in CodeRows
        BY CodeNow DEF CodeRows
      <3> QED
        BY <1>1, <3>1, CodeNow DEF IssueCode
    <2>3. StoreOK'
      BY <1>1, <2>2 DEF IssueCode, TypeInv, TypeOK, StoreOK, locks
    <2> QED
      BY <1>1, <2>1, <2>3, MoveKeepsType DEF IssueCode, Begin
  <1>2. ASSUME NEW k \in Clients, CreateLead(p, k) PROVE TypeInv'
    <2> DEFINE w == [Idle EXCEPT !.pc = "insertLead", !.client = k]
    <2>1. WorkerFits(w)
      BY DEF Idle, WorkerFits, WorkerStates, PCs, UserPCs, CodePCs, ClientPCs
    <2> QED
      BY <1>2, <2>1, LocalMoveKeepsType DEF CreateLead, Begin
  <1>3. ASSUME NEW c \in Codes, VerifyCode(p, c) PROVE TypeInv'
    <2> DEFINE w == [Idle EXCEPT !.pc = "markVerified", !.c = c]
    <2>1. WorkerFits(w)
      BY DEF Idle, WorkerFits, WorkerStates, PCs, UserPCs, CodePCs, ClientPCs
    <2> QED
      BY <1>3, <2>1, LocalMoveKeepsType DEF VerifyCode, Begin
  <1>4. ASSUME NEW c \in Codes, NEW k \in Clients, SubmitForm(p, c, k) PROVE TypeInv'
    <2> DEFINE w == [Idle EXCEPT !.pc = "findLead", !.c = c, !.client = k,
                                 !.user = code[c].user]
    <2>1. code[c].user \in Operators
      BY <1>4 DEF SubmitForm, Open, TypeInv, TypeOK, StoreOK, CodeRows
    <2>2. WorkerFits(w)
      BY <2>1 DEF Idle, WorkerFits, WorkerStates, PCs, UserPCs, CodePCs, ClientPCs
    <2> QED
      BY <1>4, <2>2, LocalMoveKeepsType DEF SubmitForm, Begin
  <1>5. ASSUME NEW l \in Leads, NEW u \in Operators, CreateBudget(p, l, u) PROVE TypeInv'
    <2> DEFINE w == [Idle EXCEPT !.pc = "takeNumber", !.lead = l, !.user = u]
    <2>1. WorkerFits(w)
      BY NoneAssumption
      DEF Idle, WorkerFits, WorkerStates, PCs, UserPCs, CodePCs, ClientPCs
    <2> QED
      BY <1>5, <2>1, LocalMoveKeepsType DEF CreateBudget, Begin
  <1> QED
    BY <1>1, <1>2, <1>3, <1>4, <1>5 DEF Request

-----------------------------------------------------------------------------
(* Requests that go on *)

LEMMA CodeStepType ==
    ASSUME TypeInv, NEW p \in Workers, InsertCode(p) \/ MarkVerified(p) \/ Consume(p)
    PROVE  TypeInv'
  <1> DEFINE w == worker[p]
  <1>1. WorkerFits(w) /\ code \in [Codes -> CodeRows]
    BY WorkerNow, CodeNow
  <1>2. Done(p) /\ UNCHANGED <<lead, budget, locks>>
    BY DEF InsertCode, MarkVerified, Consume
  <1>3. ASSUME InsertCode(p) PROVE code' \in [Codes -> CodeRows]
    <2>1. PICK c \in Codes :
            code' = [code EXCEPT ![c] = [NoCode EXCEPT !.user = w.user, !.live = TRUE]]
      BY <1>3 DEF InsertCode
    <2>2. w.user \in Operators
      BY <1>1, <1>3 DEF InsertCode, At, WorkerFits, UserPCs
    <2>3. [NoCode EXCEPT !.user = w.user, !.live = TRUE] \in CodeRows
      BY <2>2 DEF NoCode, CodeRows
    <2> QED
      BY <1>1, <2>1, <2>3
  <1>4. ASSUME MarkVerified(p) PROVE code' \in [Codes -> CodeRows]
    <2>1. w.c \in Codes
      BY <1>1, <1>4 DEF MarkVerified, At, WorkerFits, CodePCs
    <2>2. [code[w.c] EXCEPT !.verified = TRUE, !.formLive = TRUE] \in CodeRows
      BY ZenonT(60), <2>1, CodeNow DEF CodeRows
    <2>3. code' = [code EXCEPT ![w.c] =
                     [code[w.c] EXCEPT !.verified = TRUE, !.formLive = TRUE]]
      BY <1>1, <1>4, <2>1 DEF MarkVerified
    <2> QED
      BY <1>1, <2>2, <2>3
  <1>5. ASSUME Consume(p) PROVE code' \in [Codes -> CodeRows]
    <2>1. w.c \in Codes /\ w.lead \in Leads /\ w.budget \in Budgets
      BY <1>1, <1>5 DEF Consume, At, WorkerFits, CodePCs
    <2>2. [code[w.c] EXCEPT !.lead = w.lead, !.budget = w.budget] \in CodeRows
      BY ZenonT(60), <2>1, CodeNow DEF CodeRows
    <2>3. code' = [code EXCEPT ![w.c] =
                     [code[w.c] EXCEPT !.lead = w.lead, !.budget = w.budget]]
      BY <1>1, <1>5, <2>1 DEF Consume
    <2> QED
      BY <1>1, <2>2, <2>3
  <1>6. code' \in [Codes -> CodeRows]
    BY <1>3, <1>4, <1>5
  <1>7. StoreOK'
    BY <1>2, <1>6 DEF TypeInv, TypeOK, StoreOK, locks
  <1> QED
    BY <1>2, <1>7, DoneKeepsType

LEMMA LeadStepType ==
    ASSUME TypeInv, NEW p \in Workers,
           InsertLead(p) \/ FindLead(p) \/ SaveLead(p) \/ CheckLead(p)
    PROVE  TypeInv'
  <1> DEFINE w == worker[p]
  <1>1. WorkerFits(w) /\ w \in WorkerStates
    BY WorkerNow
  <1>2. CASE InsertLead(p)
    <2>1. w.client \in Clients
      BY <1>1, <1>2 DEF InsertLead, At, WorkerFits, ClientPCs
    <2>2. lead' \in [Leads -> Clients \cup {None}]
      BY <1>2, <2>1 DEF InsertLead, LeadsOf, TypeInv, TypeOK, StoreOK
    <2>3. StoreOK' /\ Done(p)
      BY <1>2, <2>2 DEF InsertLead, TypeInv, TypeOK, StoreOK, locks
    <2> QED
      BY <2>3, DoneKeepsType
  <1>3. CASE FindLead(p)
    <2>1. w.user \in Operators /\ w.c \in Codes /\ w.client \in Clients
      BY <1>1, <1>3 DEF FindLead, At, WorkerFits, UserPCs, CodePCs, ClientPCs
    <2>2. ASSUME NEW l \in Leads
          PROVE  /\ WorkerFits([w EXCEPT !.pc = "saveLead", !.lead = l])
                 /\ WorkerFits([w EXCEPT !.pc = "takeNumber", !.lead = l])
      BY <1>1, <2>1 DEF WorkerFits, WorkerStates, PCs, UserPCs, CodePCs, ClientPCs
    <2>3. WorkerFits([w EXCEPT !.pc = "checkLead"])
      BY <1>1, <2>1 DEF WorkerFits, WorkerStates, PCs, UserPCs, CodePCs, ClientPCs
    <2>4. \E v : Goto(p, v) /\ WorkerFits(v)
      BY <1>3, <2>2, <2>3 DEF FindLead, LeadsOf
    <2> QED
      BY <1>3, <2>4, LocalMoveKeepsType DEF FindLead
  <1>4. CASE SaveLead(p)
    <2>1. w.user \in Operators /\ w.lead \in Leads
      BY <1>1, <1>4 DEF SaveLead, At, WorkerFits, UserPCs
    <2>2. WorkerFits([w EXCEPT !.pc = "takeNumber"])
      BY <1>1, <2>1, NoneAssumption
      DEF WorkerFits, WorkerStates, PCs, UserPCs, CodePCs, ClientPCs
    <2>3. leadLock' \in [Leads -> Workers \cup {None}]
      BY <1>4 DEF SaveLead, TypeInv, TypeOK, StoreOK
    <2>4. StoreOK'
      BY <1>4, <2>3 DEF SaveLead, TypeInv, TypeOK, StoreOK
    <2> QED
      BY <1>4, <2>2, <2>4, MoveKeepsType DEF SaveLead
  <1>5. CASE CheckLead(p)
    <2>1. w.user \in Operators /\ w.client \in Clients
      BY <1>1, <1>5 DEF CheckLead, At, WorkerFits, UserPCs, ClientPCs
    <2>2. WorkerFits([w EXCEPT !.pc = "takeNumber"])
      BY <1>1, <2>1 DEF WorkerFits, WorkerStates, PCs, UserPCs, CodePCs, ClientPCs
    <2>3. \E v : Goto(p, v) /\ WorkerFits(v)
      BY <1>5, <2>2, IdleFits DEF CheckLead, Done
    <2> QED
      BY <1>5, <2>3, LocalMoveKeepsType DEF CheckLead
  <1> QED
    BY <1>2, <1>3, <1>4, <1>5

LEMMA TakeNumberType ==
    ASSUME TypeInv, NumberInv, NEW p \in Workers, TakeNumber(p)
    PROVE  TypeInv'
  <1> DEFINE w == worker[p]
  <1>1. WorkerFits(w) /\ w \in WorkerStates /\ w.pc = "takeNumber"
    BY WorkerNow DEF TakeNumber, At
  <1> DEFINE n == LastNumber + 1
  <1>2. n \in Nat /\ n # 0
    BY LastIsCount, NumberedFinite
  <1>3. w.user \in Operators /\ (w.lead = None => w.client \in Clients)
    BY <1>1 DEF WorkerFits, UserPCs
  <1>4. WorkerFits([w EXCEPT !.pc = "commit", !.number = n])
    <2> HIDE DEF n
    <2> QED
      BY <1>1, <1>2, <1>3
      DEF WorkerFits, WorkerStates, PCs, UserPCs, CodePCs, ClientPCs
  <1>5. StoreOK'
    BY DEF TakeNumber, TypeInv, TypeOK, StoreOK
  <1> QED
    BY <1>4, <1>5, MoveKeepsType DEF TakeNumber

LEMMA CommitType ==
    ASSUME TypeInv, NEW p \in Workers, Commit(p)
    PROVE  TypeInv'
  <1> DEFINE w == worker[p]
  <1>1. WorkerFits(w) /\ w \in WorkerStates /\ w.pc = "commit"
    BY WorkerNow DEF Commit, At
  <1>2. PICK l \in LeadFor(w), b \in Budgets :
          /\ budget' = [budget EXCEPT ![b] = NewBudget(w, l)]
          /\ lead' = IF w.lead = None THEN [lead EXCEPT ![l] = w.client] ELSE lead
          /\ IF w.c = None THEN Done(p)
             ELSE Goto(p, [w EXCEPT !.pc = "consume", !.lead = l, !.budget = b])
    BY DEF Commit
  <1>3. /\ w.user \in Operators /\ w.number \in Nat \ {0}
        /\ w.lead = None => w.client \in Clients
        /\ w.c \in Codes \cup {None}
    BY <1>1 DEF WorkerFits, WorkerStates, UserPCs
  <1>4. l \in Leads
    BY <1>1 DEF LeadFor, LeadsOf, WorkerStates
  <1>5. NewBudget(w, l) \in BudgetRows
    BY <1>3, <1>4 DEF NewBudget, BudgetRows
  <1>6. /\ budget' \in [Budgets -> BudgetRows]
        /\ lead' \in [Leads -> Clients \cup {None}]
    BY <1>2, <1>3, <1>5 DEF TypeInv, TypeOK, StoreOK
  <1>7. StoreOK'
    BY <1>6, ReleaseType DEF Commit, TypeInv, TypeOK, StoreOK
  <1>8. w.c # None => WorkerFits([w EXCEPT !.pc = "consume", !.lead = l, !.budget = b])
    BY <1>1, <1>3, <1>4 DEF WorkerFits, WorkerStates, PCs, UserPCs, CodePCs, ClientPCs
  <1> QED
    BY <1>2, <1>7, <1>8, DoneKeepsType, MoveKeepsType

LEMMA TypeStep == TypeInv /\ NumberInv /\ [Next]_vars => TypeInv'
  <1> SUFFICES ASSUME TypeInv, NumberInv, [Next]_vars PROVE TypeInv'
    OBVIOUS
  <1>1. ASSUME NEW p \in Workers, Proceed(p) PROVE TypeInv'
    BY <1>1, CodeStepType, LeadStepType, TakeNumberType, CommitType DEF Proceed
  <1>2. ASSUME NEW p \in Workers, Fail(p) PROVE TypeInv'
    <2>1. StoreOK'
      BY <1>2, ReleaseType DEF Fail, TypeInv, TypeOK, StoreOK
    <2> QED
      BY <1>2, <2>1, DoneKeepsType DEF Fail
  <1>3. ASSUME NEW c \in Codes, ExpireCode(c) \/ ExpireForm(c) PROVE TypeInv'
    <2>1. /\ [code[c] EXCEPT !.live = FALSE] \in CodeRows
          /\ [code[c] EXCEPT !.formLive = FALSE] \in CodeRows
      BY CodeNow DEF CodeRows
    <2>2. code' \in [Codes -> CodeRows]
      BY <1>3, <2>1, CodeNow DEF ExpireCode, ExpireForm
    <2> QED
      BY <1>3, <2>2 DEF ExpireCode, ExpireForm, TypeInv, TypeOK, StoreOK, locks, WorkerFits
  <1>4. CASE UNCHANGED vars
    BY <1>4 DEF vars, locks, TypeInv, TypeOK, StoreOK, WorkerFits
  <1> QED
    BY <1>1, <1>2, <1>3, <1>4, RequestType DEF Next, Time

-----------------------------------------------------------------------------
(* Budget numbers *)

LEMMA NumberInit == Init => NumberInv
  <1> SUFFICES ASSUME Init PROVE NumberInv
    OBVIOUS
  <1>1. Numbered = {}
    BY DEF Init, NoBudget, Numbered
  <1>2. Cardinality(Numbered) = 0
    BY <1>1, FS_EmptySet
  <1> QED
    BY <1>2 DEF Init, NoBudget, NumberInv, At, Idle

\* Steps that neither create a budget nor take a number.
QuietStep ==
    /\ budget' = budget
    /\ \A q \in Workers :
         worker'[q].pc = "commit" =>
             /\ worker'[q] = worker[q]
             /\ numberLock = q => numberLock' = q

LEMMA QuietMove ==
    ASSUME TypeInv, NEW p \in Workers, NEW w, Goto(p, w), w.pc # "commit",
           budget' = budget, numberLock' = numberLock \/ numberLock = p
    PROVE  QuietStep
  BY DEF QuietStep, Goto, TypeInv, TypeOK

LEMMA QuietDone ==
    ASSUME TypeInv, NEW p \in Workers, Done(p),
           budget' = budget, numberLock' = numberLock \/ numberLock = p
    PROVE  QuietStep
  BY QuietMove, IdleFits DEF Done

LEMMA QuietNext ==
    ASSUME TypeInv, [Next]_vars
    PROVE  QuietStep \/ \E p \in Workers : TakeNumber(p) \/ Commit(p)
  <1>1. ASSUME NEW p \in Workers, Request(p) PROVE QuietStep
    <2>1. budget' = budget /\ numberLock' = numberLock
      BY <1>1 DEF Request, IssueCode, CreateLead, VerifyCode, SubmitForm, CreateBudget, locks
    <2>2. ASSUME NEW u \in Operators, IssueCode(p, u) PROVE QuietStep
      BY <2>1, <2>2, QuietMove DEF IssueCode, Begin, Idle
    <2>3. ASSUME NEW k \in Clients, CreateLead(p, k) PROVE QuietStep
      BY <2>1, <2>3, QuietMove DEF CreateLead, Begin, Idle
    <2>4. ASSUME NEW c \in Codes, VerifyCode(p, c) PROVE QuietStep
      BY <2>1, <2>4, QuietMove DEF VerifyCode, Begin, Idle
    <2>5. ASSUME NEW c \in Codes, NEW k \in Clients, SubmitForm(p, c, k) PROVE QuietStep
      BY <2>1, <2>5, QuietMove DEF SubmitForm, Begin, Idle
    <2>6. ASSUME NEW l \in Leads, NEW u \in Operators, CreateBudget(p, l, u)
          PROVE  QuietStep
      BY <2>1, <2>6, QuietMove DEF CreateBudget, Begin, Idle
    <2> QED
      BY <1>1, <2>2, <2>3, <2>4, <2>5, <2>6 DEF Request
  <1>2. ASSUME NEW p \in Workers,
               InsertCode(p) \/ MarkVerified(p) \/ InsertLead(p) \/ Consume(p)
        PROVE  QuietStep
    BY <1>2, QuietDone DEF InsertCode, MarkVerified, InsertLead, Consume, locks
  <1>3. ASSUME NEW p \in Workers, FindLead(p) \/ SaveLead(p) \/ CheckLead(p)
        PROVE  QuietStep
    <2>1. budget' = budget /\ numberLock' = numberLock
      BY <1>3 DEF FindLead, SaveLead, CheckLead, locks
    <2>2. worker[p] \in WorkerStates
      BY WorkerNow
    <2>3. CASE FindLead(p)
      <3>1. ASSUME NEW l \in Leads, NEW next \in {"saveLead", "takeNumber"},
                   Goto(p, [worker[p] EXCEPT !.pc = next, !.lead = l])
            PROVE  QuietStep
        BY <2>1, <2>2, <3>1, QuietMove DEF WorkerStates
      <3>2. ASSUME Goto(p, [worker[p] EXCEPT !.pc = "checkLead"]) PROVE QuietStep
        BY <2>1, <2>2, <3>2, QuietMove DEF WorkerStates
      <3> QED
        BY <2>3, <3>1, <3>2 DEF FindLead, LeadsOf
    <2>4. CASE SaveLead(p)
      BY <2>1, <2>2, <2>4, QuietMove DEF SaveLead, WorkerStates
    <2>5. CASE CheckLead(p)
      BY <2>1, <2>2, <2>5, QuietMove, QuietDone DEF CheckLead, WorkerStates
    <2> QED
      BY <1>3, <2>3, <2>4, <2>5
  <1>4. ASSUME NEW p \in Workers, Fail(p) PROVE QuietStep
    BY <1>4, QuietDone DEF Fail, Release
  <1>5. CASE Time \/ UNCHANGED vars
    BY <1>5 DEF Time, ExpireCode, ExpireForm, vars, locks, QuietStep
  <1> QED
    BY <1>1, <1>2, <1>3, <1>4, <1>5 DEF Next, Proceed

LEMMA NumberTaken ==
    ASSUME TypeInv, NumberInv, NEW p \in Workers, TakeNumber(p)
    PROVE  NumberInv'
  <1>1. Numbered' = Numbered /\ budget' = budget
    BY DEF TakeNumber, Numbered
  <1>2. numberLock = None /\ numberLock' = p
    BY DEF TakeNumber, NumberLockFree
  <1>3. worker'[p].number = Cardinality(Numbered) + 1
    BY LastIsCount, WorkerNow DEF TakeNumber, Goto, TypeInv, TypeOK, WorkerStates
  <1>4. \A q \in Workers : q # p => worker'[q].pc # "commit"
    BY <1>2, NoneAssumption DEF TakeNumber, Goto, TypeInv, TypeOK, NumberInv, At
  <1> QED
    BY <1>1, <1>2, <1>3, <1>4 DEF NumberInv, At

\* A commit gives the next number to a budget that did not exist.
LEMMA CommittedBudget ==
    ASSUME TypeInv, NumberInv, NEW p \in Workers, Commit(p)
    PROVE  \E b \in Budgets :
             /\ budget[b].number = 0
             /\ budget'[b].number = Cardinality(Numbered) + 1
             /\ budget' = [budget EXCEPT ![b] = budget'[b]]
  <1>1. PICK l \in LeadFor(worker[p]), b \in Budgets :
          /\ budget[b].number = 0
          /\ budget' = [budget EXCEPT ![b] = NewBudget(worker[p], l)]
    BY DEF Commit
  <1>2. worker[p].number = Cardinality(Numbered) + 1
    BY DEF Commit, NumberInv
  <1>3. budget'[b] = NewBudget(worker[p], l)
    BY <1>1 DEF TypeInv, TypeOK, StoreOK
  <1>4. budget'[b].number = Cardinality(Numbered) + 1
    BY <1>2, <1>3 DEF NewBudget
  <1>5. budget' = [budget EXCEPT ![b] = budget'[b]]
    BY <1>1, <1>3
  <1> QED
    BY <1>1, <1>4, <1>5

LEMMA NumberCommitted ==
    ASSUME TypeInv, NumberInv, NEW p \in Workers, Commit(p)
    PROVE  NumberInv'
  <1> DEFINE n == Cardinality(Numbered)
  <1>1. PICK b \in Budgets :
          /\ budget[b].number = 0
          /\ budget'[b].number = n + 1
          /\ \A d \in Budgets : d # b => budget'[d] = budget[d]
    BY CommittedBudget DEF TypeInv, TypeOK, StoreOK
  <1>2. n \in Nat /\ IsFiniteSet(Numbered)
    BY NumberedFinite
  <1>3. Numbered' = Numbered \cup {b} /\ b \notin Numbered
    BY <1>1, <1>2 DEF Numbered
  <1>4. Cardinality(Numbered') = n + 1
    BY <1>2, <1>3, FS_AddElement
  <1>5. \A d \in Budgets : budget'[d].number <= n + 1
    BY <1>1, <1>2, BudgetNow DEF NumberInv
  <1>6. ASSUME NEW m \in 1 .. n + 1 PROVE \E d \in Budgets : budget'[d].number = m
    <2>1. CASE m = n + 1
      BY <1>1, <2>1
    <2>2. CASE m # n + 1
      <3>1. m \in 1 .. n
        BY <1>2, <2>2
      <3>2. PICK d \in Budgets : budget[d].number = m
        BY <3>1 DEF NumberInv
      <3> QED
        BY <1>1, <3>1, <3>2
    <2> QED
      BY <2>1, <2>2
  <1>7. ASSUME NEW q \in Workers PROVE worker'[q].pc # "commit"
    <2>1. CASE q = p
      <3>1. PICK l \in LeadFor(worker[p]), d \in Budgets :
              IF worker[p].c = None THEN Done(p)
              ELSE Goto(p, [worker[p] EXCEPT !.pc = "consume", !.lead = l, !.budget = d])
        BY DEF Commit
      <3> QED
        BY <2>1, <3>1, WorkerNow, IdleFits DEF Done, Goto, TypeInv, TypeOK, WorkerStates
    <2>2. CASE q # p
      <3>1. worker'[q] = worker[q]
        BY <2>2 DEF Commit, Done, Goto, TypeInv, TypeOK
      <3> QED
        BY <2>2, <3>1 DEF Commit, NumberInv, At
    <2> QED
      BY <2>1, <2>2
  <1> QED
    BY <1>4, <1>5, <1>6, <1>7 DEF NumberInv, At

LEMMA NumberStep == TypeInv /\ NumberInv /\ [Next]_vars => NumberInv'
  <1> SUFFICES ASSUME TypeInv, NumberInv, [Next]_vars PROVE NumberInv'
    OBVIOUS
  <1>1. CASE QuietStep
    <2>1. Numbered' = Numbered
      BY <1>1 DEF QuietStep, Numbered
    <2> QED
      BY <1>1, <2>1 DEF QuietStep, NumberInv, At
  <1> QED
    BY <1>1, QuietNext, NumberTaken, NumberCommitted

\* Rows and requests keep their shape.
THEOREM TypeCorrect == Spec => []TypeOK
  <1>1. TypeInv => TypeOK
    BY DEF TypeInv
  <1> QED
    BY <1>1, TypeInit, TypeStep, NumberInit, NumberStep, PTL DEF Spec

\* No transaction meets a number that is taken: the lock covers everything from
\* the search for the largest number to the commit.
THEOREM NumbersFree == Spec => []NumberIsFree
  <1>1. TypeInv /\ NumberInv => NumberIsFree
    <2> SUFFICES ASSUME TypeInv, NumberInv, NEW p \in Workers, At(p, "commit")
                 PROVE  worker[p].number \notin Numbers
      BY DEF NumberIsFree
    <2>1. \A m \in Numbers : m \in Nat /\ m <= Cardinality(Numbered)
      BY BudgetNow DEF NumberInv, Numbers
    <2> QED
      BY <2>1, NumberedFinite DEF NumberInv
  <1> QED
    BY <1>1, TypeInit, TypeStep, NumberInit, NumberStep, PTL DEF Spec

\* A step issues the next number or none.
LEMMA RegisterStep ==
    TypeInv /\ NumberInv /\ [Next]_vars => [Register!Next]_Issued
  <1> SUFFICES ASSUME TypeInv, NumberInv, [Next]_vars
               PROVE  [Register!Next]_Issued
    OBVIOUS
  <1>1. CASE budget' = budget
    BY <1>1 DEF Issued
  <1>2. ASSUME NEW p \in Workers, Commit(p)
        PROVE  Register!Next
    <2>1. PICK b \in Budgets :
            /\ budget[b].number = 0
            /\ budget'[b].number = Cardinality(Numbered) + 1
            /\ \A d \in Budgets : d # b => budget'[d] = budget[d]
      BY <1>2, CommittedBudget DEF TypeInv, TypeOK, StoreOK
    <2>2. Register!Numbered = Numbered
      BY DEF Register!Numbered, Numbered, Issued
    <2>3. Register!Cardinality(Numbered) = Cardinality(Numbered)
      BY DEF Register!Cardinality, Cardinality
    <2>4. Issued[b] = 0
      BY <2>1 DEF Issued
    <2>5. Issued' = [Issued EXCEPT ![b] = Cardinality(Numbered) + 1]
      BY <2>1 DEF Issued
    <2>6. Register!Issue(b)
      BY <2>2, <2>3, <2>4, <2>5 DEF Register!Issue
    <2> QED
      BY <2>6 DEF Register!Next
  <1>3. ASSUME NEW p \in Workers, TakeNumber(p) PROVE budget' = budget
    BY <1>3 DEF TakeNumber
  <1> QED
    BY <1>1, <1>2, <1>3, QuietNext DEF QuietStep

LEMMA RegisterInit == Init => Register!Init
  BY DEF Init, Register!Init, Issued, NoBudget

\* The numbering of budgets implements the register: one number after the other,
\* each to one budget, none left out.
THEOREM BudgetsNumbered == Spec => BudgetsNumberedInOrder
  <1> QED
    BY TypeInit, TypeStep, NumberInit, NumberStep, RegisterInit, RegisterStep,
       PTL
    DEF Spec, BudgetsNumberedInOrder, Register!Spec


-----------------------------------------------------------------------------
(* How codes change *)

LEMMA StatusIs ==
    ASSUME NEW c \in Codes
    PROVE  /\ Status(c) = "INVALIDATED" <=> code[c].user # None /\ code[c].invalidated
           /\ Status(c) = "SUBMITTED" <=>
                code[c].user # None /\ ~code[c].invalidated /\ Consumed(c)
  BY NoneAssumption DEF Status, CodeStatus

\* What becomes of a code that has been issued.
CodeAges(c) ==
    code[c].user # None =>
        /\ code'[c].user = code[c].user
        /\ code[c].invalidated => code'[c].invalidated
        /\ Consumed(c) => Consumed(c)'
        /\ Consumed(c) /\ ~code[c].invalidated => ~code'[c].invalidated

LEMMA CodeStep ==
    ASSUME TypeInv, [Next]_vars, NEW c \in Codes
    PROVE  CodeAges(c)
  <1>1. CASE code' = code
    BY <1>1 DEF CodeAges, Consumed
  <1>2. ASSUME NEW p \in Workers, NEW u \in Operators, IssueCode(p, u) PROVE CodeAges(c)
    <2>1. code'[c] = IF code[c].user = u /\ Open(c)
                     THEN [code[c] EXCEPT !.invalidated = TRUE] ELSE code[c]
      BY <1>2 DEF IssueCode
    <2> QED
      BY <2>1, CodeNow DEF CodeAges, Consumed, Open, CodeRows
  <1>3. ASSUME NEW p \in Workers, InsertCode(p) PROVE CodeAges(c)
    BY <1>3, CodeNow DEF InsertCode, CodeAges, Consumed
  <1>4. ASSUME NEW p \in Workers, MarkVerified(p) PROVE CodeAges(c)
    BY <1>4, CodeNow DEF MarkVerified, CodeAges, Consumed, CodeRows
  <1>5. ASSUME NEW p \in Workers, Consume(p) PROVE CodeAges(c)
    <2>1. worker[p].budget \in Budgets
      BY <1>5, WorkerNow DEF Consume, At, WorkerFits
    <2> QED
      BY <1>5, <2>1, CodeNow, NoneAssumption DEF Consume, CodeAges, Consumed, CodeRows
  <1>6. ASSUME NEW d \in Codes, ExpireCode(d) \/ ExpireForm(d) PROVE CodeAges(c)
    BY <1>6, CodeNow DEF ExpireCode, ExpireForm, CodeAges, Consumed, CodeRows
  <1> QED
    BY <1>1, <1>2, <1>3, <1>4, <1>5, <1>6
    DEF Next, Proceed, Request, Time, vars, InsertLead, FindLead, SaveLead, CheckLead,
        TakeNumber, Commit, Fail, CreateLead, VerifyCode, SubmitForm, CreateBudget

\* Late steps never set a final code back.
THEOREM FinalStatus == Spec => FinalStatusStays
  <1>1. TypeInv /\ [Next]_vars =>
          [\A c \in Codes : Status(c) \in Final => Status(c)' = Status(c)]_vars
    <2> SUFFICES ASSUME TypeInv, [Next]_vars, NEW c \in Codes, Status(c) \in Final
                 PROVE  Status(c)' = Status(c)
      OBVIOUS
    <2>1. CodeAges(c)
      BY CodeStep
    <2> QED
      BY <2>1, StatusIs DEF CodeAges, Final, Status, Consumed
  <1> QED
    BY <1>1, TypeInit, TypeStep, NumberInit, NumberStep, PTL DEF Spec, FinalStatusStays

-----------------------------------------------------------------------------
(* Open codes *)

LEMMA OpenIs ==
    ASSUME NEW u \in Operators
    PROVE  OpenCodesOf(u) = {c \in Codes : code[c].user = u /\ ~code[c].invalidated
                                           /\ ~Consumed(c)}
  BY NoneAssumption, StatusIs DEF OpenCodesOf, Final

LEMMA OpenFinite ==
    ASSUME NEW u \in Operators
    PROVE  /\ IsFiniteSet(OpenCodesOf(u)) /\ Cardinality(OpenCodesOf(u)) \in Nat
           /\ IsFiniteSet(Inserting(u)) /\ Cardinality(Inserting(u)) \in Nat
           /\ Cardinality(Inserting(u)) <= Cardinality(Workers)
           /\ Cardinality(Workers) \in Nat
  BY FS_Subset, FS_CardinalityType, ConstantsAssumption DEF OpenCodesOf, Inserting

LEMMA FewOpenInit == Init => FewOpenCodes
  <1> SUFFICES ASSUME Init, NEW u \in Operators
               PROVE  Cardinality(OpenCodesOf(u)) + Cardinality(Inserting(u))
                        <= Cardinality(Workers)
    BY DEF FewOpenCodes
  <1>1. OpenCodesOf(u) = {} /\ Inserting(u) = {}
    BY NoneAssumption DEF Init, NoCode, OpenCodesOf, Inserting, At, Idle
  <1> QED
    BY <1>1, FS_EmptySet, OpenFinite

LEMMA OpenPrimed ==
    ASSUME NEW u \in Operators
    PROVE  OpenCodesOf(u)' = {c \in Codes : code'[c].user = u /\ ~code'[c].invalidated
                                            /\ ~Consumed(c)'}
  BY NoneAssumption DEF OpenCodesOf, Final, Status, CodeStatus

\* Only InsertCode issues a code.
LEMMA IssuedBy ==
    ASSUME TypeInv, [Next]_vars, NEW c \in Codes, code[c].user = None,
           code'[c].user # None
    PROVE  \E p \in Workers : InsertCode(p)
  <1>1. ASSUME NEW p \in Workers, NEW u \in Operators, IssueCode(p, u)
        PROVE  code'[c].user = code[c].user
    BY <1>1, CodeNow DEF IssueCode, CodeRows
  <1>2. ASSUME NEW p \in Workers, MarkVerified(p) \/ Consume(p)
        PROVE  code'[c].user = code[c].user
    BY <1>2, CodeNow DEF MarkVerified, Consume, CodeRows
  <1>3. ASSUME NEW d \in Codes, ExpireCode(d) \/ ExpireForm(d)
        PROVE  code'[c].user = code[c].user
    BY <1>3, CodeNow DEF ExpireCode, ExpireForm, CodeRows
  <1> QED
    BY <1>1, <1>2, <1>3
    DEF Next, Proceed, Request, Time, vars, InsertLead, FindLead, SaveLead, CheckLead,
        TakeNumber, Commit, Fail, CreateLead, VerifyCode, SubmitForm, CreateBudget

\* A request comes to insert a code only by IssueCode.
InsertingStays ==
    \A q \in Workers : worker'[q].pc = "insertCode" => worker'[q] = worker[q]

LEMMA NotInserting ==
    ASSUME TypeInv, NEW p \in Workers, NEW w, Goto(p, w), w.pc # "insertCode"
    PROVE  InsertingStays
  BY DEF InsertingStays, Goto, TypeInv, TypeOK

LEMMA InsertingBy ==
    ASSUME TypeInv, [Next]_vars
    PROVE  \/ InsertingStays
           \/ \E p \in Workers, v \in Operators :
                IssueCode(p, v) /\ worker' = [worker EXCEPT ![p] =
                                     [Idle EXCEPT !.pc = "insertCode", !.user = v]]
  <1>1. ASSUME NEW p \in Workers, Done(p) PROVE InsertingStays
    BY <1>1, NotInserting, IdleFits DEF Done
  <1>2. ASSUME NEW p \in Workers, Proceed(p) PROVE InsertingStays
    <2>1. worker[p] \in WorkerStates
      BY WorkerNow
    <2>2. CASE InsertCode(p) \/ MarkVerified(p) \/ InsertLead(p) \/ Consume(p)
      BY <1>1, <2>2 DEF InsertCode, MarkVerified, InsertLead, Consume
    <2>3. ASSUME NEW l \in Leads, NEW next \in {"saveLead", "takeNumber"},
                 Goto(p, [worker[p] EXCEPT !.pc = next, !.lead = l])
          PROVE  InsertingStays
      BY <2>1, <2>3, NotInserting DEF WorkerStates
    <2>4. ASSUME NEW next \in {"checkLead", "takeNumber"},
                 Goto(p, [worker[p] EXCEPT !.pc = next])
          PROVE  InsertingStays
      BY <2>1, <2>4, NotInserting DEF WorkerStates
    <2>5. CASE FindLead(p) \/ SaveLead(p) \/ CheckLead(p)
      BY <1>1, <2>3, <2>4, <2>5 DEF FindLead, SaveLead, CheckLead, LeadsOf
    <2>6. CASE TakeNumber(p)
      BY <2>1, <2>6, NotInserting DEF TakeNumber, WorkerStates
    <2>7. CASE Commit(p)
      <3>1. PICK l \in LeadFor(worker[p]), b \in Budgets :
              IF worker[p].c = None THEN Done(p)
              ELSE Goto(p, [worker[p] EXCEPT !.pc = "consume", !.lead = l, !.budget = b])
        BY <2>7 DEF Commit
      <3> QED
        BY <1>1, <2>1, <3>1, NotInserting DEF WorkerStates
    <2> QED
      BY <1>2, <2>2, <2>5, <2>6, <2>7 DEF Proceed
  <1>3. ASSUME NEW p \in Workers, NEW k \in Clients, CreateLead(p, k)
        PROVE  InsertingStays
    BY <1>3, NotInserting DEF CreateLead, Begin, Idle
  <1>4. ASSUME NEW p \in Workers, NEW c \in Codes, VerifyCode(p, c)
        PROVE  InsertingStays
    BY <1>4, NotInserting DEF VerifyCode, Begin, Idle
  <1>5. ASSUME NEW p \in Workers, NEW c \in Codes, NEW k \in Clients, SubmitForm(p, c, k)
        PROVE  InsertingStays
    BY <1>5, NotInserting DEF SubmitForm, Begin, Idle
  <1>6. ASSUME NEW p \in Workers, NEW l \in Leads, NEW u \in Operators,
               CreateBudget(p, l, u)
        PROVE  InsertingStays
    BY <1>6, NotInserting DEF CreateBudget, Begin, Idle
  <1>7. CASE Time \/ UNCHANGED vars
    BY <1>7 DEF Time, ExpireCode, ExpireForm, vars, InsertingStays
  <1> QED
    BY <1>1, <1>2, <1>3, <1>4, <1>5, <1>6, <1>7
    DEF Next, Request, Fail, IssueCode, Begin, Goto

\* A code is issued and a request is about to issue one only by these steps.
LEMMA OpenShrinks ==
    ASSUME TypeInv, [Next]_vars, NEW u \in Operators,
           \A p \in Workers : ~IssueCode(p, u),
           \A p \in Workers : ~(InsertCode(p) /\ worker[p].user = u)
    PROVE  /\ OpenCodesOf(u)' \subseteq OpenCodesOf(u)
           /\ Inserting(u)' \subseteq Inserting(u)
  <1>1. OpenCodesOf(u)' \subseteq OpenCodesOf(u)
    <2> SUFFICES ASSUME NEW c \in Codes, code'[c].user = u, ~code'[c].invalidated,
                        ~Consumed(c)'
                 PROVE  code[c].user = u /\ ~code[c].invalidated /\ ~Consumed(c)
      BY OpenIs, OpenPrimed
    <2>1. CASE code[c].user # None
      BY <2>1, CodeStep DEF CodeAges
    <2>2. CASE code[c].user = None
      <3>1. PICK p \in Workers : InsertCode(p)
        BY <2>2, IssuedBy, NoneAssumption
      <3>2. worker[p].user = u
        BY <2>2, <3>1, CodeNow, NoneAssumption DEF InsertCode, NoCode
      <3> QED
        BY <3>1, <3>2
    <2> QED
      BY <2>1, <2>2
  <1>2. Inserting(u)' \subseteq Inserting(u)
    <2>1. CASE InsertingStays
      BY <2>1 DEF InsertingStays, Inserting, At
    <2>2. ASSUME NEW p \in Workers, NEW v \in Operators, IssueCode(p, v),
                 worker' = [worker EXCEPT ![p] =
                              [Idle EXCEPT !.pc = "insertCode", !.user = v]]
          PROVE  Inserting(u)' \subseteq Inserting(u)
      <3>1. u # v
        BY <2>2
      <3> QED
        BY <2>2, <3>1 DEF Inserting, At, Idle, TypeInv, TypeOK
    <2> QED
      BY <2>1, <2>2, InsertingBy
  <1> QED
    BY <1>1, <1>2

\* A request that issues a code closes the others first.
LEMMA IssueKeepsFew ==
    ASSUME TypeInv, NEW p \in Workers, NEW u \in Operators, IssueCode(p, u)
    PROVE  OpenCodesOf(u)' = {}
  <1>1. SUFFICES ASSUME NEW c \in Codes, code'[c].user = u, ~code'[c].invalidated
                 PROVE  Consumed(c)'
    BY OpenPrimed
  <1>2. code'[c] = IF code[c].user = u /\ Open(c)
                   THEN [code[c] EXCEPT !.invalidated = TRUE] ELSE code[c]
    BY DEF IssueCode
  <1>3. ~(code[c].user = u /\ Open(c))
    BY <1>1, <1>2, CodeNow DEF CodeRows
  <1>4. code'[c] = code[c]
    BY <1>2, <1>3
  <1>5. Consumed(c)
    BY <1>1, <1>3, <1>4, NoneAssumption DEF Open
  <1> QED
    BY <1>4, <1>5 DEF Consumed

LEMMA AddOne ==
    ASSUME NEW S, IsFiniteSet(S), NEW x
    PROVE  IsFiniteSet(S \cup {x}) /\ Cardinality(S \cup {x}) <= Cardinality(S) + 1
  <1>1. Cardinality(S) \in Nat
    BY FS_CardinalityType
  <1>2. CASE x \in S
    <2>1. S \cup {x} = S
      BY <1>2
    <2>2. Cardinality(S) <= Cardinality(S) + 1
      BY <1>1
    <2> QED
      BY Zenon, <2>1, <2>2
  <1>3. CASE x \notin S
    BY <1>1, <1>3, FS_AddElement
  <1> QED
    BY <1>2, <1>3

LEMMA InsertKeepsFew ==
    ASSUME TypeInv, NEW p \in Workers, InsertCode(p), NEW u \in Operators,
           worker[p].user = u
    PROVE  Cardinality(OpenCodesOf(u)') + Cardinality(Inserting(u)')
             <= Cardinality(OpenCodesOf(u)) + Cardinality(Inserting(u))
  <1>1. PICK c \in Codes :
          code' = [code EXCEPT ![c] = [NoCode EXCEPT !.user = u, !.live = TRUE]]
    BY DEF InsertCode
  <1>2. OpenCodesOf(u)' \subseteq OpenCodesOf(u) \cup {c}
    <2>1. \A d \in Codes : d # c => code'[d] = code[d]
      BY <1>1, CodeNow
    <2> QED
      BY <2>1, OpenIs, OpenPrimed DEF Consumed
  <1>3. Inserting(u)' = Inserting(u) \ {p} /\ p \in Inserting(u)
    BY DEF InsertCode, Done, Goto, Idle, Inserting, At, TypeInv, TypeOK
  <1>4. Cardinality(Inserting(u)') = Cardinality(Inserting(u)) - 1
    BY ZenonT(60), <1>3, OpenFinite, FS_RemoveElement
  <1>5. /\ IsFiniteSet(OpenCodesOf(u) \cup {c})
        /\ Cardinality(OpenCodesOf(u) \cup {c}) <= Cardinality(OpenCodesOf(u)) + 1
    BY OpenFinite, AddOne
  <1>6. /\ Cardinality(OpenCodesOf(u)') <= Cardinality(OpenCodesOf(u)) + 1
        /\ Cardinality(OpenCodesOf(u)') \in Nat
    BY <1>2, <1>5, OpenFinite, FS_Subset, FS_CardinalityType
  <1> QED
    BY <1>4, <1>6, OpenFinite

LEMMA FewOpenStep == TypeInv /\ FewOpenCodes /\ [Next]_vars => FewOpenCodes'
  <1> SUFFICES ASSUME TypeInv, FewOpenCodes, [Next]_vars, NEW u \in Operators
               PROVE  Cardinality(OpenCodesOf(u)') + Cardinality(Inserting(u)')
                        <= Cardinality(Workers)
    BY DEF FewOpenCodes
  <1>1. Cardinality(OpenCodesOf(u)) + Cardinality(Inserting(u)) <= Cardinality(Workers)
    BY DEF FewOpenCodes
  <1>2. ASSUME NEW p \in Workers, IssueCode(p, u)
        PROVE  Cardinality(OpenCodesOf(u)') + Cardinality(Inserting(u)')
                 <= Cardinality(Workers)
    <2>1. Cardinality(OpenCodesOf(u)') = 0
      BY <1>2, IssueKeepsFew, FS_EmptySet
    <2>2. /\ Cardinality(Inserting(u)') <= Cardinality(Workers)
          /\ Cardinality(Inserting(u)') \in Nat
      BY FS_Subset, FS_CardinalityType, ConstantsAssumption DEF Inserting
    <2> QED
      BY <2>1, <2>2
  <1>3. ASSUME NEW p \in Workers, InsertCode(p), worker[p].user = u
        PROVE  Cardinality(OpenCodesOf(u)') + Cardinality(Inserting(u)')
                 <= Cardinality(Workers)
    <2>1. /\ Cardinality(OpenCodesOf(u)') \in Nat
          /\ Cardinality(Inserting(u)') \in Nat
      BY FS_Subset, FS_CardinalityType, ConstantsAssumption DEF OpenCodesOf, Inserting
    <2> QED
      BY <1>1, <1>3, <2>1, InsertKeepsFew, OpenFinite
  <1>4. ASSUME \A p \in Workers : ~IssueCode(p, u),
               \A p \in Workers : ~(InsertCode(p) /\ worker[p].user = u)
        PROVE  Cardinality(OpenCodesOf(u)') + Cardinality(Inserting(u)')
                 <= Cardinality(Workers)
    <2>1. /\ OpenCodesOf(u)' \subseteq OpenCodesOf(u)
          /\ Inserting(u)' \subseteq Inserting(u)
      BY <1>4, OpenShrinks
    <2>2. /\ Cardinality(OpenCodesOf(u)') <= Cardinality(OpenCodesOf(u))
          /\ Cardinality(Inserting(u)') <= Cardinality(Inserting(u))
          /\ Cardinality(OpenCodesOf(u)') \in Nat
          /\ Cardinality(Inserting(u)') \in Nat
      BY <2>1, OpenFinite, FS_Subset, FS_CardinalityType
    <2> QED
      BY <1>1, <2>2, OpenFinite
  <1> QED
    BY <1>2, <1>3, <1>4

\* However many requests issue codes at once, an operator never has more open
\* codes than that.
THEOREM OpenCodesFew == Spec => []FewOpenCodes
  <1> QED
    BY TypeInit, TypeStep, NumberInit, NumberStep, FewOpenInit, FewOpenStep,
       PTL DEF Spec

-----------------------------------------------------------------------------
(* Results *)

FormPCs == {"findLead", "saveLead", "checkLead", "takeNumber", "commit", "consume"}

\* A submission is on behalf of the operator who issued its code; the lead it
\* found exists, and so does the budget it created, for that lead.
FormOK(q) ==
    LET w == worker[q] IN
    /\ w.pc \in FormPCs /\ w.c # None => w.user # None /\ code[w.c].user = w.user
    /\ w.pc \in FormPCs /\ w.lead # None => lead[w.lead] # None
    /\ w.pc = "consume" => /\ budget[w.budget].number # 0
                           /\ budget[w.budget].lead = w.lead
                           /\ budget[w.budget].user = w.user
                           /\ lead[w.lead] # None

ResultInv == ResultsBelongTogether /\ \A q \in Workers : FormOK(q)

LEMMA ResultInit == Init => ResultInv
  BY DEF Init, ResultInv, ResultsBelongTogether, FormOK, Consumed, NoCode, Idle, FormPCs

\* Leads and budgets that exist stay as they are, and codes keep their owners.
RowsStay ==
    /\ \A l \in Leads : lead[l] # None => lead'[l] # None
    /\ \A b \in Budgets : budget[b].number # 0 => budget'[b] = budget[b]
    /\ \A c \in Codes : code[c].user # None => code'[c].user = code[c].user

LEMMA RowsStep ==
    ASSUME TypeInv, [Next]_vars
    PROVE  RowsStay
  <1>1. \A c \in Codes : code[c].user # None => code'[c].user = code[c].user
    BY CodeStep DEF CodeAges
  <1>2. CASE lead' = lead /\ budget' = budget
    BY <1>1, <1>2 DEF RowsStay
  <1>3. ASSUME NEW p \in Workers, InsertLead(p) PROVE RowsStay
    <2>1. worker[p].client # None
      BY <1>3, WorkerNow, NoneAssumption DEF InsertLead, At, WorkerFits, ClientPCs
    <2> QED
      BY <1>1, <1>3, <2>1 DEF InsertLead, LeadsOf, RowsStay, TypeInv, TypeOK, StoreOK
  <1>4. ASSUME NEW p \in Workers, Commit(p) PROVE RowsStay
    <2> DEFINE w == worker[p]
    <2>1. PICK l \in LeadFor(w), b \in Budgets :
            /\ budget[b].number = 0
            /\ budget' = [budget EXCEPT ![b] = NewBudget(w, l)]
            /\ lead' = IF w.lead = None THEN [lead EXCEPT ![l] = w.client] ELSE lead
      BY <1>4 DEF Commit
    <2>2. w.lead = None => w.client # None
      BY <1>4, WorkerNow, NoneAssumption DEF Commit, At, WorkerFits
    <2>3. \A m \in Leads : lead[m] # None => lead'[m] # None
      BY <2>1, <2>2 DEF TypeInv, TypeOK, StoreOK
    <2>4. \A d \in Budgets : budget[d].number # 0 => budget'[d] = budget[d]
      BY <2>1 DEF TypeInv, TypeOK, StoreOK
    <2> QED
      BY <1>1, <2>3, <2>4 DEF RowsStay
  <1> QED
    BY <1>2, <1>3, <1>4
    DEF Next, Proceed, Request, Time, vars, locks, InsertCode, MarkVerified, Consume,
        ExpireCode, ExpireForm, FindLead, SaveLead, CheckLead, TakeNumber, Fail,
        IssueCode, CreateLead, VerifyCode, SubmitForm, CreateBudget

\* What holds of a request that does not move goes on to hold.
LEMMA FormStays ==
    ASSUME TypeInv, RowsStay, NEW q \in Workers, FormOK(q), worker'[q] = worker[q]
    PROVE  FormOK(q)'
  <1> DEFINE w == worker[q]
  <1>1. w \in WorkerStates /\ WorkerFits(w)
    BY WorkerNow
  <1>2. w.pc \in FormPCs /\ w.c # None => w.user # None /\ code'[w.c].user = w.user
    BY <1>1 DEF FormOK, RowsStay, WorkerStates
  <1>3. w.pc \in FormPCs /\ w.lead # None => lead'[w.lead] # None
    BY <1>1 DEF FormOK, RowsStay, WorkerStates
  <1>4. w.pc = "consume" => /\ budget'[w.budget] = budget[w.budget]
                           /\ lead'[w.lead] # None
    BY <1>1 DEF FormOK, RowsStay, WorkerFits
  <1> QED
    BY <1>2, <1>3, <1>4 DEF FormOK

\* A request that ends, or that is no submission, has nothing to show.
LEMMA FormEnds ==
    ASSUME NEW q \in Workers, worker'[q].pc \notin FormPCs
    PROVE  FormOK(q)'
  BY DEF FormOK, FormPCs

\* All requests but the one that moves.
LEMMA OthersOK ==
    ASSUME TypeInv, RowsStay, \A q \in Workers : FormOK(q),
           NEW p \in Workers, NEW w, Goto(p, w), FormOK(p)'
    PROVE  \A q \in Workers : FormOK(q)'
  <1>1. \A q \in Workers : q # p => worker'[q] = worker[q]
    BY DEF Goto, TypeInv, TypeOK
  <1> QED
    BY <1>1, FormStays

LEMMA DoneOK ==
    ASSUME TypeInv, RowsStay, \A q \in Workers : FormOK(q),
           NEW p \in Workers, Done(p)
    PROVE  \A q \in Workers : FormOK(q)'
  <1>1. worker'[p].pc \notin FormPCs
    BY IdleFits DEF Done, Goto, FormPCs, TypeInv, TypeOK
  <1> QED
    BY <1>1, FormEnds, OthersOK DEF Done

LEMMA FormRequest ==
    ASSUME TypeInv, RowsStay, \A q \in Workers : FormOK(q),
           NEW p \in Workers, Request(p)
    PROVE  \A q \in Workers : FormOK(q)'
  <1>1. CASE \/ \E u \in Operators : IssueCode(p, u)
             \/ \E k \in Clients : CreateLead(p, k)
             \/ \E c \in Codes : VerifyCode(p, c)
    <2>1. worker'[p].pc \in {"insertCode", "insertLead", "markVerified"}
      BY <1>1 DEF IssueCode, CreateLead, VerifyCode, Begin, Goto, Idle, TypeInv, TypeOK
    <2>2. FormOK(p)'
      BY <2>1, FormEnds DEF FormPCs
    <2> QED
      BY <1>1, <2>2, OthersOK DEF IssueCode, CreateLead, VerifyCode, Begin
  <1>2. ASSUME NEW c \in Codes, NEW k \in Clients, SubmitForm(p, c, k)
        PROVE  \A q \in Workers : FormOK(q)'
    <2>1. /\ worker'[p].pc = "findLead" /\ worker'[p].c = c
          /\ worker'[p].user = code[c].user /\ worker'[p].lead = None
      BY <1>2 DEF SubmitForm, Begin, Goto, Idle, TypeInv, TypeOK
    <2>2. code[c].user # None /\ code' = code
      BY <1>2 DEF SubmitForm, Open
    <2>3. FormOK(p)'
      BY <2>1, <2>2 DEF FormOK
    <2> QED
      BY <1>2, <2>3, OthersOK DEF SubmitForm, Begin
  <1>3. ASSUME NEW l \in Leads, NEW u \in Operators, CreateBudget(p, l, u)
        PROVE  \A q \in Workers : FormOK(q)'
    <2>1. /\ worker'[p].pc = "takeNumber" /\ worker'[p].c = None
          /\ worker'[p].lead = l
      BY <1>3 DEF CreateBudget, Begin, Goto, Idle, TypeInv, TypeOK
    <2>2. lead[l] # None /\ lead' = lead
      BY <1>3 DEF CreateBudget
    <2>3. FormOK(p)'
      BY <2>1, <2>2 DEF FormOK
    <2> QED
      BY <1>3, <2>3, OthersOK DEF CreateBudget, Begin
  <1> QED
    BY <1>1, <1>2, <1>3 DEF Request

LEMMA FormLocal ==
    ASSUME TypeInv, RowsStay, \A q \in Workers : FormOK(q),
           NEW p \in Workers,
           FindLead(p) \/ SaveLead(p) \/ CheckLead(p) \/ TakeNumber(p)
    PROVE  \A q \in Workers : FormOK(q)'
  <1> DEFINE w == worker[p]
  <1>1. w \in WorkerStates /\ w.pc \in FormPCs /\ FormOK(p)
    BY WorkerNow DEF FindLead, SaveLead, CheckLead, TakeNumber, At, FormPCs
  <1>2. code' = code /\ lead' = lead /\ budget' = budget
    BY DEF FindLead, SaveLead, CheckLead, TakeNumber
  <1>3. ASSUME NEW v, Goto(p, v), v.c = w.c, v.user = w.user, v.pc # "consume",
               v.lead = w.lead \/ (v.lead \in Leads /\ lead[v.lead] # None)
        PROVE  \A q \in Workers : FormOK(q)'
    <2>1. worker'[p] = v
      BY <1>3 DEF Goto, TypeInv, TypeOK
    <2>2. FormOK(p)'
      BY <1>1, <1>2, <1>3, <2>1 DEF FormOK
    <2> QED
      BY <1>3, <2>2, OthersOK
  <1>4. CASE FindLead(p)
    <2>1. ASSUME NEW l \in Leads, NEW next \in {"saveLead", "takeNumber"}, lead[l] # None,
                 Goto(p, [w EXCEPT !.pc = next, !.lead = l])
          PROVE  \A q \in Workers : FormOK(q)'
      BY <1>1, <1>3, <2>1 DEF WorkerStates
    <2>2. ASSUME Goto(p, [w EXCEPT !.pc = "checkLead"])
          PROVE  \A q \in Workers : FormOK(q)'
      <3>1. PICK v : /\ Goto(p, v) /\ v.pc # "consume"
                     /\ v.c = w.c /\ v.user = w.user /\ v.lead = w.lead
        BY <1>1, <2>2 DEF WorkerStates
      <3> QED
        BY <1>3, <3>1
    <2>3. w.client # None
      BY <1>4, WorkerNow, NoneAssumption DEF FindLead, At, WorkerFits, ClientPCs
    <2> QED
      BY <1>4, <2>1, <2>2, <2>3 DEF FindLead, LeadsOf
  <1>5. CASE SaveLead(p) \/ CheckLead(p)
    <2>1. ASSUME Goto(p, [w EXCEPT !.pc = "takeNumber"])
          PROVE  \A q \in Workers : FormOK(q)'
      <3>1. PICK v : /\ Goto(p, v) /\ v.pc # "consume"
                     /\ v.c = w.c /\ v.user = w.user /\ v.lead = w.lead
        BY <1>1, <2>1 DEF WorkerStates
      <3> QED
        BY <1>3, <3>1
    <2> QED
      BY <1>5, <2>1, DoneOK DEF SaveLead, CheckLead
  <1>6. CASE TakeNumber(p)
    <2>1. \E n : Goto(p, [w EXCEPT !.pc = "commit", !.number = n])
      BY <1>6 DEF TakeNumber
    <2>2. PICK n : Goto(p, [w EXCEPT !.pc = "commit", !.number = n])
      BY <2>1
    <2> DEFINE v == [w EXCEPT !.pc = "commit", !.number = n]
    <2>3. v.pc = "commit" /\ v.c = w.c /\ v.user = w.user /\ v.lead = w.lead
      BY <1>1 DEF WorkerStates
    <2> QED
      BY <1>3, <2>2, <2>3
  <1> QED
    BY <1>4, <1>5, <1>6

LEMMA FormCommit ==
    ASSUME TypeInv, RowsStay, \A q \in Workers : FormOK(q),
           NEW p \in Workers, Commit(p)
    PROVE  \A q \in Workers : FormOK(q)'
  <1> DEFINE w == worker[p]
  <1>1. w \in WorkerStates /\ w.pc = "commit" /\ FormOK(p) /\ WorkerFits(w)
    BY WorkerNow DEF Commit, At
  <1>2. PICK l \in LeadFor(w), b \in Budgets :
          /\ budget' = [budget EXCEPT ![b] = NewBudget(w, l)]
          /\ lead' = IF w.lead = None THEN [lead EXCEPT ![l] = w.client] ELSE lead
          /\ IF w.c = None THEN Done(p)
             ELSE Goto(p, [w EXCEPT !.pc = "consume", !.lead = l, !.budget = b])
    BY DEF Commit
  <1>3. CASE w.c = None
    BY <1>2, <1>3, DoneOK
  <1>4. CASE w.c # None
    <2>1. /\ worker'[p].pc = "consume" /\ worker'[p].lead = l /\ worker'[p].budget = b
          /\ worker'[p].c = w.c /\ worker'[p].user = w.user
      BY <1>1, <1>2, <1>4 DEF Goto, TypeInv, TypeOK, WorkerStates
    <2>2. budget'[b] = [number |-> w.number, lead |-> l, user |-> w.user]
      BY <1>2 DEF NewBudget, TypeInv, TypeOK, StoreOK
    <2>3. w.number # 0
      BY <1>1 DEF WorkerFits
    <2>4. l \in Leads /\ lead'[l] # None
      <3>1. CASE w.lead = None
        BY <1>1, <1>2, <3>1, NoneAssumption
        DEF WorkerFits, LeadFor, LeadsOf, TypeInv, TypeOK, StoreOK
      <3>2. CASE w.lead # None
        BY <1>1, <1>2, <3>2 DEF FormOK, FormPCs, LeadFor, WorkerStates
      <3> QED
        BY <3>1, <3>2
    <2>5. code' = code
      BY DEF Commit
    <2>6. w.user # None /\ code[w.c].user = w.user
      BY <1>1, <1>4 DEF FormOK, FormPCs
    <2>7. FormOK(p)'
      BY <2>1, <2>2, <2>3, <2>4, <2>5, <2>6 DEF FormOK
    <2> QED
      BY <1>2, <1>4, <2>7, OthersOK
  <1> QED
    BY <1>3, <1>4

\* Results are written by Consume, and erased by nobody.
LEMMA ResultsWritten ==
    ASSUME TypeInv, [Next]_vars, NEW c \in Codes
    PROVE  \/ code'[c].lead = code[c].lead /\ code'[c].budget = code[c].budget
           \/ code'[c].budget = None
           \/ \E p \in Workers :
                /\ Consume(p) /\ worker[p].c = c
                /\ code'[c].lead = worker[p].lead /\ code'[c].budget = worker[p].budget
  <1> DEFINE Same == code'[c].lead = code[c].lead /\ code'[c].budget = code[c].budget
  <1>1. ASSUME NEW p \in Workers, NEW u \in Operators, IssueCode(p, u) PROVE Same
    BY <1>1, CodeNow DEF IssueCode, CodeRows
  <1>2. ASSUME NEW p \in Workers, InsertCode(p) PROVE Same \/ code'[c].budget = None
    BY <1>2, CodeNow DEF InsertCode, NoCode
  <1>3. ASSUME NEW p \in Workers, MarkVerified(p) PROVE Same
    BY <1>3, CodeNow DEF MarkVerified, CodeRows
  <1>4. ASSUME NEW p \in Workers, Consume(p)
        PROVE  Same \/ /\ worker[p].c = c
                       /\ code'[c].lead = worker[p].lead
                       /\ code'[c].budget = worker[p].budget
    BY <1>4, CodeNow DEF Consume, CodeRows
  <1>5. ASSUME NEW d \in Codes, ExpireCode(d) \/ ExpireForm(d) PROVE Same
    BY <1>5, CodeNow DEF ExpireCode, ExpireForm, CodeRows
  <1> QED
    BY <1>1, <1>2, <1>3, <1>4, <1>5
    DEF Next, Proceed, Request, Time, vars, InsertLead, FindLead, SaveLead, CheckLead,
        TakeNumber, Commit, Fail, CreateLead, VerifyCode, SubmitForm, CreateBudget

LEMMA ResultStep == TypeInv /\ ResultInv /\ [Next]_vars => ResultInv'
  <1> SUFFICES ASSUME TypeInv, ResultInv, [Next]_vars PROVE ResultInv'
    OBVIOUS
  <1>1. RowsStay /\ \A q \in Workers : FormOK(q)
    BY RowsStep DEF ResultInv
  <1>2. \A q \in Workers : FormOK(q)'
    <2>1. ASSUME NEW p \in Workers, Proceed(p) \/ Fail(p)
          PROVE  \A q \in Workers : FormOK(q)'
      BY <1>1, <2>1, DoneOK, FormLocal, FormCommit
      DEF Proceed, InsertCode, MarkVerified, InsertLead, Consume, Fail
    <2>2. CASE Time \/ UNCHANGED vars
      <3>1. \A q \in Workers : worker'[q] = worker[q]
        BY <2>2 DEF Time, ExpireCode, ExpireForm, vars
      <3> QED
        BY <1>1, <3>1, FormStays
    <2> QED
      BY <1>1, <2>1, <2>2, FormRequest DEF Next
  <1>3. ASSUME NEW c \in Codes, Consumed(c)'
        PROVE  /\ budget'[code'[c].budget].number # 0
               /\ budget'[code'[c].budget].lead = code'[c].lead
               /\ lead'[budget'[code'[c].budget].lead] # None
               /\ budget'[code'[c].budget].user = code'[c].user
    <2>1. CASE code'[c].lead = code[c].lead /\ code'[c].budget = code[c].budget
      <3> DEFINE b == code[c].budget
      <3>1. b # None /\ b \in Budgets
        BY <1>3, <2>1, CodeNow DEF Consumed, CodeRows
      <3>2. /\ budget[b].number # 0 /\ budget[b].lead = code[c].lead
            /\ lead[budget[b].lead] # None /\ budget[b].user = code[c].user
        BY <3>1 DEF ResultInv, ResultsBelongTogether, Consumed
      <3>3. budget[b].lead \in Leads /\ budget[b].user \in Operators
        BY <3>1, <3>2 DEF BudgetRows, NoBudget, TypeInv, TypeOK, StoreOK
      <3>4. /\ budget'[b] = budget[b] /\ code'[c].user = code[c].user
            /\ lead'[budget[b].lead] # None
        BY <1>1, <3>1, <3>2, <3>3, NoneAssumption DEF RowsStay
      <3> QED
        BY <2>1, <3>2, <3>4
    <2>2. ASSUME NEW p \in Workers, Consume(p), worker[p].c = c,
                 code'[c].lead = worker[p].lead, code'[c].budget = worker[p].budget
          PROVE  /\ budget'[code'[c].budget].number # 0
                 /\ budget'[code'[c].budget].lead = code'[c].lead
                 /\ lead'[budget'[code'[c].budget].lead] # None
                 /\ budget'[code'[c].budget].user = code'[c].user
      <3>1. budget' = budget /\ lead' = lead /\ worker[p].pc = "consume"
        BY <2>2 DEF Consume, At
      <3>2. c # None
        BY NoneAssumption
      <3>3. worker[p].user # None /\ code[c].user = worker[p].user
        BY <1>1, <2>2, <3>1, <3>2 DEF FormOK, FormPCs
      <3>4. code'[c].user = code[c].user
        BY <1>1, <3>3 DEF RowsStay
      <3> QED
        BY <1>1, <2>2, <3>1, <3>3, <3>4 DEF FormOK
    <2>3. code'[c].budget # None
      BY <1>3 DEF Consumed
    <2> QED
      BY <2>1, <2>2, <2>3, ResultsWritten
  <1>4. ResultsBelongTogether'
    BY <1>3 DEF ResultsBelongTogether
  <1> QED
    BY <1>2, <1>4 DEF ResultInv

\* A code that was submitted names a budget that exists, for the lead it names
\* and for the operator who issued the code.
THEOREM ResultsTogether == Spec => []ResultsBelongTogether
  <1>1. ResultInv => ResultsBelongTogether
    BY DEF ResultInv
  <1> QED
    BY <1>1, TypeInit, TypeStep, NumberInit, NumberStep, ResultInit, ResultStep,
       PTL DEF Spec

=============================================================================
