----------------------------- MODULE DeskProofs ------------------------------
(***************************************************************************)
(* The properties of Desk, part by part.  A step of Desk is, for each      *)
(* part, a step of that part or leaves it alone (PartSteps), so that what  *)
(* holds of a part holds of Desk.                                          *)
(***************************************************************************)
EXTENDS Desk, FiniteSums

\* What a step of Desk is to each of its parts.
LEMMA PartSteps ==
    ASSUME [Next]_vars
    PROVE  /\ [P!Next]_ledgerVars
           /\ [C!Next]_catalogVars
           /\ [E!Next]_employeeVars
           /\ [F!Next]_profileVars
           /\ [L!Next]_listVars
           /\ [D!Next]_documentVars
  <1>1. CASE part = "payment" /\ P!Next /\ Rest("payment")
    BY <1>1 DEF Rest
  <1>2. CASE part = "catalog" /\ C!Next /\ Rest("catalog")
    BY <1>2 DEF Rest
  <1>3. CASE part = "employees" /\ E!Next /\ Rest("employees")
    BY <1>3 DEF Rest
  <1>4. CASE part = "profile" /\ F!Next /\ Rest("profile")
    BY <1>4 DEF Rest
  <1>5. CASE part = "lists" /\ L!Next /\ Rest("lists")
    BY <1>5 DEF Rest
  <1>6. CASE part = "documents" /\ D!Next /\ Rest("documents")
    BY <1>6 DEF Rest
  <1>7. CASE UNCHANGED vars
    BY <1>7 DEF vars, ledgerVars, catalogVars, employeeVars, profileVars, listVars,
        documentVars
  <1> QED
    BY <1>1, <1>2, <1>3, <1>4, <1>5, <1>6, <1>7 DEF Next

\* None is no value that is stored.
LEMMA NoneIsNone ==
    /\ None \notin Positions /\ None \notin Documents /\ None \notin Owners /\ None # ""
    /\ None \notin Int
    /\ None \notin P!PaymentStatus /\ None \notin C!Names
  BY NoneAssumption

-----------------------------------------------------------------------------
(* Rows of a proposal *)

PrintedRows == [kind : {"item", "fee", "subtotal", "discount"}, day : Int, amount : Int]

Weights(rs, K, Ds) ==
    [m \in DOMAIN rs |-> IF rs[m].kind \in K /\ rs[m].day \in Ds THEN rs[m].amount ELSE 0]

\* What the rs come to that are of these kinds and days.
Weight(rs, K, Ds) == Sum(Weights(rs, K, Ds), DOMAIN rs)

LEMMA RowsAre ==
    ASSUME NEW rs \in Seq(PrintedRows), NEW K, NEW Ds
    PROVE  /\ Len(rs) \in Nat /\ DOMAIN rs = 1 .. Len(rs)
           /\ \A m \in DOMAIN rs : rs[m] \in PrintedRows
           /\ IsFiniteSet(DOMAIN rs)
           /\ Integral(Weights(rs, K, Ds), DOMAIN rs)
           /\ Weight(rs, K, Ds) \in Int
  <1>1. /\ Len(rs) \in Nat /\ DOMAIN rs = 1 .. Len(rs)
        /\ \A m \in DOMAIN rs : rs[m] \in PrintedRows
    OBVIOUS
  <1>2. IsFiniteSet(DOMAIN rs)
    BY <1>1, FS_Interval
  <1>3. Integral(Weights(rs, K, Ds), DOMAIN rs)
    BY <1>1 DEF Integral, Weights, PrintedRows
  <1>4. Weight(rs, K, Ds) \in Int
    BY <1>2, <1>3, SumIsInt DEF Weight
  <1> QED
    BY <1>1, <1>2, <1>3, <1>4

LEMMA ConcatParts ==
    ASSUME NEW R, NEW s \in Seq(R), NEW t \in Seq(R)
    PROVE  /\ s \o t \in Seq(R) /\ Len(s) \in Nat /\ Len(t) \in Nat
           /\ DOMAIN s = 1 .. Len(s) /\ DOMAIN t = 1 .. Len(t)
           /\ DOMAIN (s \o t) = 1 .. Len(s) + Len(t)
           /\ \A m \in DOMAIN s : (s \o t)[m] = s[m]
           /\ \A m \in DOMAIN t : (s \o t)[m + Len(s)] = t[m]
  <1>1. /\ s \o t \in Seq(R) /\ Len(s) \in Nat /\ Len(t) \in Nat
        /\ Len(s \o t) = Len(s) + Len(t)
        /\ DOMAIN s = 1 .. Len(s) /\ DOMAIN t = 1 .. Len(t)
    BY ConcatProperties, LenProperties
  <1>2. DOMAIN (s \o t) = 1 .. Len(s) + Len(t)
    BY <1>1, LenProperties
  <1>3. \A m \in DOMAIN s : (s \o t)[m] = s[m]
    BY <1>1, ConcatProperties
  <1>4. \A m \in DOMAIN t : (s \o t)[m + Len(s)] = t[m]
    BY <1>1, ConcatProperties
  <1> QED
    BY <1>1, <1>2, <1>3, <1>4

LEMMA WeightOfConcat ==
    ASSUME NEW s \in Seq(PrintedRows), NEW t \in Seq(PrintedRows), NEW K, NEW Ds
    PROVE  Weight(s \o t, K, Ds) = Weight(s, K, Ds) + Weight(t, K, Ds)
  <1> DEFINE u == s \o t
             w == Weights(u, K, Ds)
             k == Len(s)
             A == DOMAIN s
             p == [m \in DOMAIN t |-> m + k]
             B == {p[m] : m \in DOMAIN t}
  <1>1. /\ u \in Seq(PrintedRows) /\ k \in Nat /\ Len(t) \in Nat
        /\ A = 1 .. k /\ DOMAIN t = 1 .. Len(t)
        /\ DOMAIN u = 1 .. k + Len(t)
        /\ \A m \in A : u[m] = s[m]
        /\ \A m \in DOMAIN t : u[m + k] = t[m]
    BY ConcatParts
  <1> HIDE DEF u, k, A
  <1>2. DOMAIN u = A \cup B /\ A \cap B = {}
    <2>1. ASSUME NEW m \in 1 .. k + Len(t), m \notin 1 .. k PROVE m \in B
      <3>1. m - k \in DOMAIN t /\ m = p[m - k]
        BY <1>1, <2>1
      <3> QED
        BY <3>1
    <2>2. \A m \in B : m \in 1 .. k + Len(t) /\ m \notin 1 .. k
      BY <1>1
    <2>3. \A m \in 1 .. k : m \in 1 .. k + Len(t)
      BY <1>1
    <2> HIDE DEF B
    <2> QED
      BY <1>1, <2>1, <2>2, <2>3
  <1>3. \A m, n \in DOMAIN t : p[m] = p[n] => m = n
    BY <1>1
  <1>4. /\ IsFiniteSet(DOMAIN u) /\ Integral(w, DOMAIN u)
        /\ IsFiniteSet(DOMAIN t) /\ Integral(Weights(t, K, Ds), DOMAIN t)
    BY <1>1, RowsAre
  <1>5. IsFiniteSet(A) /\ IsFiniteSet(B)
    BY <1>2, <1>4, FS_Subset
  <1>6. Sum(w, DOMAIN u) = Sum(w, A) + Sum(w, B)
    <2> HIDE DEF w, B
    <2> QED
      BY <1>2, <1>4, <1>5, SumOfUnion
  <1>7. Sum(w, A) = Weight(s, K, Ds)
    <2>1. \A m \in A : w[m] = Weights(s, K, Ds)[m]
      BY <1>1, <1>2 DEF Weights, A
    <2> HIDE DEF w
    <2> QED
      BY <1>5, <2>1, SumSame DEF Weight, A
  <1>8. Sum(w, B) = Weight(t, K, Ds)
    <2>1. \A m \in DOMAIN t : m + k \in DOMAIN u
      BY <1>1
    <2>2. \A m \in DOMAIN t : Weights(t, K, Ds)[m] = w[p[m]]
      BY <1>1, <2>1 DEF Weights
    <2>3. \A m \in DOMAIN t : Weights(t, K, Ds)[m] \in Int
      BY <1>4 DEF Integral
    <2> DEFINE v == Weights(t, K, Ds)
               G == DOMAIN t
    <2> HIDE DEF w, p, v
    <2>4. \A m \in G : v[m] = w[p[m]] /\ v[m] \in Int
      BY <2>2, <2>3 DEF v
    <2>5. IsFiniteSet(G) /\ \A m, n \in G : p[m] = p[n] => m = n
      BY <1>3, <1>4
    <2>6. Sum(w, B) = Sum(w, {p[m] : m \in G}) /\ Weight(t, K, Ds) = Sum(v, G)
      BY DEF Weight, v
    <2> HIDE DEF G
    <2>7. Sum(w, {p[m] : m \in G}) = Sum(v, G)
      BY <2>4, <2>5, SumRenamed
    <2> QED
      BY <2>6, <2>7
  <1> QED
    BY <1>6, <1>7, <1>8 DEF Weight, u

LEMMA WeightOfNone == ASSUME NEW K, NEW Ds PROVE << >> \in Seq(PrintedRows) /\ Weight(<< >>, K, Ds) = 0
  <1>1. DOMAIN << >> = {}
    OBVIOUS
  <1> QED
    BY <1>1, SumOfNone DEF Weight

LEMMA WeightOfOne ==
    ASSUME NEW r \in PrintedRows, NEW K, NEW Ds
    PROVE  /\ << r >> \in Seq(PrintedRows)
           /\ Weight(<< r >>, K, Ds) = IF r.kind \in K /\ r.day \in Ds THEN r.amount ELSE 0
  <1> DEFINE w == Weights(<< r >>, K, Ds)
  <1>1. DOMAIN << r >> = {1} /\ << r >>[1] = r
    OBVIOUS
  <1>2. w[1] = (IF r.kind \in K /\ r.day \in Ds THEN r.amount ELSE 0)
    BY <1>1 DEF Weights
  <1>3. w[1] \in Int
    BY <1>2 DEF PrintedRows
  <1> HIDE DEF w
  <1>4. Sum(w, {1}) = w[1]
    BY <1>3, SumOfSingle
  <1> QED
    BY <1>1, <1>2, <1>4 DEF Weight, w

Marks(rs) == {m \in DOMAIN rs : rs[m].kind = "subtotal"}

\* The first k days have one subtotal each, of c, in order.
Banded(rs, k, c) ==
    /\ {rs[m].day : m \in Marks(rs)} = 0 .. k - 1
    /\ \A m, n \in Marks(rs) : m < n => rs[m].day < rs[n].day
    /\ \A m \in Marks(rs) : rs[m].amount = c[rs[m].day]

\* A block ends with the subtotal of the day, and has no other.
Closed(s, d, c) ==
    /\ Marks(s) = {Len(s)} /\ Len(s) > 0
    /\ s[Len(s)].day = d /\ s[Len(s)].amount = c[d]

LEMMA BandedConcat ==
    ASSUME NEW s \in Seq(PrintedRows), NEW t \in Seq(PrintedRows), NEW k \in Nat, NEW c,
           Banded(s, k, c), Closed(t, k, c)
    PROVE  Banded(s \o t, k + 1, c)
  <1> DEFINE u == s \o t
             e == Len(s) + Len(t)
  <1>1. /\ Len(s) \in Nat /\ Len(t) \in Nat
        /\ DOMAIN s = 1 .. Len(s) /\ DOMAIN t = 1 .. Len(t)
        /\ DOMAIN u = 1 .. e
        /\ \A m \in DOMAIN s : u[m] = s[m]
        /\ \A m \in DOMAIN t : u[m + Len(s)] = t[m]
    BY ConcatParts
  <1> HIDE DEF u
  <1>2. e \in DOMAIN u /\ e > Len(s) /\ u[e] = t[Len(t)] /\ e \notin DOMAIN s /\ e \in Int
    <2>1. Len(t) \in DOMAIN t
      BY <1>1 DEF Closed
    <2>2. u[Len(t) + Len(s)] = t[Len(t)]
      BY <1>1, <2>1
    <2>3. Len(t) + Len(s) = Len(s) + Len(t)
      BY <1>1
    <2> QED
      BY <1>1, <2>1, <2>2, <2>3
  <1>3. Marks(u) = Marks(s) \cup {e}
    <2>1. ASSUME NEW m \in Marks(u), m # e PROVE m \in Marks(s)
      <3>1. m \in 1 .. e /\ u[m].kind = "subtotal"
        BY <1>1 DEF Marks
      <3>2. CASE m \in DOMAIN s
        BY <1>1, <3>1, <3>2 DEF Marks
      <3>3. CASE m \notin DOMAIN s
        <4>1. m - Len(s) \in DOMAIN t /\ m = (m - Len(s)) + Len(s) /\ m - Len(s) # Len(t)
          BY <1>1, <2>1, <3>1, <3>3
        <4>2. u[m] = t[m - Len(s)]
          BY <1>1, <4>1
        <4> QED
          BY <3>1, <4>1, <4>2 DEF Marks, Closed
      <3> QED
        BY <3>2, <3>3
    <2>2. e \in Marks(u)
      BY <1>2 DEF Marks, Closed
    <2>3. \A m \in Marks(s) : m \in Marks(u)
      <3>1. \A m \in DOMAIN s : m \in DOMAIN u
        BY <1>1
      <3> QED
        BY <1>1, <3>1 DEF Marks
    <2> QED
      BY <2>1, <2>2, <2>3
  <1>4. \A m \in Marks(s) : /\ u[m] = s[m] /\ m < e
                            /\ s[m].day \in 0 .. k - 1 /\ s[m].amount = c[s[m].day]
    <2>1. \A m \in Marks(s) : m \in DOMAIN s
      BY DEF Marks
    <2>2. \A m \in Marks(s) : s[m].day \in {s[x].day : x \in Marks(s)}
      OBVIOUS
    <2> QED
      BY <1>1, <1>2, <2>1, <2>2 DEF Banded
  <1>5. u[e].day = k /\ u[e].amount = c[k]
    BY <1>2 DEF Closed
  <1> HIDE DEF e
  <1>6. {u[m].day : m \in Marks(u)} = 0 .. (k + 1) - 1
    <2>1. ASSUME NEW d \in 0 .. k PROVE \E m \in Marks(u) : u[m].day = d
      <3>1. CASE d = k
        BY <1>3, <1>5, <3>1
      <3>2. CASE d # k
        <4>1. d \in 0 .. k - 1
          BY <3>2
        <4>2. PICK m \in Marks(s) : s[m].day = d
          <5>1. d \in {s[m].day : m \in Marks(s)}
            BY <4>1 DEF Banded
          <5> QED
            BY <5>1
        <4> QED
          BY <1>3, <1>4, <4>2
      <3> QED
        BY <3>1, <3>2
    <2>2. \A m \in Marks(u) : u[m].day \in 0 .. k
      BY <1>3, <1>4, <1>5
    <2>3. (k + 1) - 1 = k
      OBVIOUS
    <2> QED
      BY <2>1, <2>2, <2>3
  <1>7. ASSUME NEW m \in Marks(u), NEW n \in Marks(u), m < n PROVE u[m].day < u[n].day
    <2>1. CASE n = e
      <3>1. m \in Marks(s)
        BY <1>2, <1>3, <1>7, <2>1
      <3> QED
        BY <1>4, <1>5, <2>1, <3>1
    <2>2. CASE n # e
      <3>1. n \in Marks(s)
        BY <1>3, <2>2
      <3>2. m \in Marks(s)
        <4>1. m # e
          BY <1>2, <1>4, <1>7, <3>1, <1>1 DEF Marks
        <4> QED
          BY <1>3, <4>1
      <3> QED
        BY <1>4, <1>7, <3>1, <3>2 DEF Banded
    <2> QED
      BY <2>1, <2>2
  <1>8. \A m \in Marks(u) : u[m].amount = c[u[m].day]
    BY <1>3, <1>4, <1>5
  <1> QED
    BY <1>6, <1>7, <1>8 DEF Banded, u

-----------------------------------------------------------------------------
(* Employees *)

LEMMA EmployeeForms ==
    /\ E!Idle \in E!Requests
    /\ \A w \in E!Requests :
         /\ \A pc \in {"position", "insert", "reload"} : [w EXCEPT !.pc = pc] \in E!Requests
         /\ [w EXCEPT !.late = TRUE] \in E!Requests
         /\ \A d \in Documents \cup {None}, q \in Positions \cup {None} :
              [w EXCEPT !.pc = "write", !.document = d, !.position = q] \in E!Requests
  BY DEF E!Idle, E!Requests

LEMMA EmployeeTypeInit == E!Init => E!TypeOK
  BY EmployeeForms DEF E!Init, E!TypeOK

\* Who is known has a document or none, and a position.
LEMMA KnownEmployee ==
    ASSUME E!TypeOK, NEW e \in E!Known
    PROVE  /\ e \in E!Ids
           /\ employees[e].document \in Documents \cup {None}
           /\ employees[e].position \in Positions
  BY DEF E!TypeOK, E!Known, E!Employee

\* What a request that goes on carries, and what it may rely on as long as it
\* is not overtaken: the position it looked up is active, or the one that it
\* leaves as it was read is still the employee's.
EmployeeForm(p) ==
    LET w == employeeWorker[p]
    IN  /\ w.pc \in {"document", "reload", "write"} => w.id \in E!Known
        /\ w.pc \in {"document", "position", "insert", "reload"} => w.position \in Positions
        /\ w.pc \in {"document", "position"} /\ w.id # None => w.id \in E!Known
        /\ w.id = None /\ w.pc # "idle" => w.checked
        /\ w.pc = "insert" => w.id = None
        /\ w.pc \in {"insert", "reload", "write"} /\ w.checked /\ ~ w.late =>
             w.position = None \/ active[w.position]
        /\ w.pc \in {"document", "position", "reload", "write"} /\ ~ w.checked /\ ~ w.late =>
             w.position \in {None, employees[w.id].position}

\* Employees are followed in the order in which they were created.
EmployeesInOrder == \E n \in Nat : E!Known = 1 .. n

EmployeeInv ==
    /\ E!TypeOK
    /\ EmployeesInOrder
    /\ \A p \in Workers : EmployeeForm(p)

LEMMA EmployeeIds == E!Ids \subseteq Int
  BY BoundsAssumption DEF E!Ids

\* Cardinality is the same operator in every part.
LEMMA EmployeeCardinality == ASSUME NEW T PROVE E!Cardinality(T) = Cardinality(T)
  BY DEF E!Cardinality, Cardinality

\* The next employee is one that is not known yet.
LEMMA NextEmployee ==
    ASSUME E!TypeOK, EmployeesInOrder
    PROVE  /\ Cardinality(E!Known) + 1 \notin E!Known
           /\ E!Known \cup {Cardinality(E!Known) + 1} = 1 .. Cardinality(E!Known) + 1
           /\ Cardinality(E!Known) \in Nat
  <1>1. PICK n \in Nat : E!Known = 1 .. n
    BY DEF EmployeesInOrder
  <1>2. Cardinality(E!Known) = n
    BY <1>1, FS_Interval
  <1> HIDE DEF E!Known
  <1> QED
    BY <1>1, <1>2

\* A request p goes on with w and nothing else changes.
LEMMA EmployeeMoves ==
    ASSUME EmployeeInv, NEW p \in Workers, NEW w \in E!Requests,
           employeeWorker' = [employeeWorker EXCEPT ![p] = w],
           UNCHANGED <<active, employees>>,
           w.pc = "idle" \/ EmployeeForm(p)'
    PROVE  EmployeeInv'
  <1>0. EmployeesInOrder'
    BY DEF EmployeeInv, EmployeesInOrder, E!Known
  <1>1. E!TypeOK'
    BY DEF EmployeeInv, E!TypeOK
  <1>2. ASSUME NEW q \in Workers \ {p}
        PROVE  EmployeeForm(q)'
    BY DEF EmployeeInv, EmployeeForm, E!TypeOK, E!Known
  <1>3. EmployeeForm(p)'
    BY DEF EmployeeInv, EmployeeForm, E!TypeOK
  <1> QED
    BY <1>0, <1>1, <1>2, <1>3 DEF EmployeeInv

LEMMA EmployeeStep == EmployeeInv /\ [E!Next]_employeeVars => EmployeeInv'
  <1> SUFFICES ASSUME EmployeeInv, [E!Next]_employeeVars
               PROVE  EmployeeInv'
    OBVIOUS
  <1>0. None \notin Positions /\ None \notin Documents /\ None # "" /\ None \notin E!Ids
    BY NoneIsNone, EmployeeIds
  <1>1. ASSUME NEW p \in Workers, NEW input \in E!Inputs, E!CreateEmployee(p, input)
        PROVE  EmployeeInv'
    <2> DEFINE w == [E!Idle EXCEPT !.pc = "position", !.document = E!Entered(input.document),
                                   !.position = input.position, !.checked = TRUE]
    <2>1. /\ w \in E!Requests /\ w.pc = "position" /\ w.position \in Positions
          /\ w.id = None /\ w.checked
      BY <1>1 DEF E!Idle, E!Requests, E!Inputs, E!Entered, E!CreateEmployee
    <2>2. /\ employeeWorker' = [employeeWorker EXCEPT ![p] = w]
          /\ UNCHANGED <<active, employees>>
      BY <1>1 DEF E!CreateEmployee, E!Goto
    <2> HIDE DEF w
    <2>3. EmployeeForm(p)'
      BY <2>1, <2>2 DEF EmployeeInv, EmployeeForm, E!TypeOK
    <2> QED
      BY <2>1, <2>2, <2>3, EmployeeMoves
  <1>2. ASSUME NEW p \in Workers, NEW e \in E!Ids, NEW input \in E!Inputs,
               E!UpdateEmployee(p, e, input)
        PROVE  EmployeeInv'
    <2> DEFINE document == E!Entered(input.document)
               w == [pc |-> IF document \in {None, employees[e].document}
                             THEN "position" ELSE "document",
                     id |-> e,
                     document |-> IF input.document = "" THEN None
                                  ELSE E!Given(document, employees[e].document),
                     position |-> E!Given(input.position, employees[e].position),
                     checked |-> input.position # None, late |-> FALSE]
    <2>1. /\ e \in E!Known /\ employees[e].document \in Documents \cup {None}
          /\ employees[e].position \in Positions
      BY <1>2, KnownEmployee DEF E!UpdateEmployee, EmployeeInv
    <2>2. document \in Documents \cup {None}
      BY DEF E!Entered, E!Inputs
    <2>3. /\ w \in E!Requests /\ w.pc \in {"position", "document"} /\ w.position \in Positions
          /\ w.id = e /\ (~ w.checked => w.position = employees[e].position)
      BY <2>1, <2>2 DEF E!Requests, E!Inputs, E!Given
    <2>4. /\ employeeWorker' = [employeeWorker EXCEPT ![p] = w]
          /\ UNCHANGED <<active, employees>>
      BY <1>2 DEF E!UpdateEmployee, E!Goto
    <2> HIDE DEF w
    <2>5. e # None
      BY <1>0
    <2>6. EmployeeForm(p)'
      BY <2>1, <2>3, <2>4, <2>5 DEF EmployeeInv, EmployeeForm, E!TypeOK, E!Known
    <2> QED
      BY <2>3, <2>4, <2>6, EmployeeMoves
  <1>3. ASSUME NEW p \in Workers, E!FindDocument(p)
        PROVE  EmployeeInv'
    <2> DEFINE w == [employeeWorker[p] EXCEPT !.pc = "position"]
    <2>1. employeeWorker[p] \in E!Requests /\ employeeWorker[p].pc = "document"
      BY <1>3 DEF EmployeeInv, E!TypeOK, E!FindDocument, E!At
    <2>2. w \in E!Requests
      BY <2>1, EmployeeForms
    <2>3. /\ employeeWorker' = [employeeWorker EXCEPT ![p] = w]
          /\ UNCHANGED <<active, employees>>
      BY <1>3 DEF E!FindDocument, E!Goto
    <2>4. EmployeeForm(p)'
      BY <2>1, <2>3 DEF EmployeeInv, EmployeeForm, E!TypeOK, E!Known, E!Requests
    <2> QED
      BY <2>2, <2>3, <2>4, EmployeeMoves
  <1>4. ASSUME NEW p \in Workers, E!FindPosition(p)
        PROVE  EmployeeInv'
    <2> DEFINE w == [employeeWorker[p] EXCEPT
                       !.pc = IF employeeWorker[p].id = None THEN "insert" ELSE "reload"]
    <2>1. employeeWorker[p] \in E!Requests /\ employeeWorker[p].pc = "position"
      BY <1>4 DEF EmployeeInv, E!TypeOK, E!FindPosition, E!At
    <2>2. w \in E!Requests
      BY <2>1, EmployeeForms
    <2>3. /\ employeeWorker' = [employeeWorker EXCEPT ![p] = w]
          /\ UNCHANGED <<active, employees>>
          /\ employeeWorker[p].checked => active[employeeWorker[p].position]
      BY <1>4 DEF E!FindPosition, E!Goto
    <2>4. EmployeeForm(p)'
      BY <2>1, <2>3 DEF EmployeeInv, EmployeeForm, E!TypeOK, E!Known, E!Requests
    <2> QED
      BY <2>2, <2>3, <2>4, EmployeeMoves
  <1>5. ASSUME NEW p \in Workers, E!InsertEmployee(p)
        PROVE  EmployeeInv'
    <2> DEFINE w == employeeWorker[p]
               k == Cardinality(E!Known) + 1
               row == [document |-> w.document, position |-> w.position]
    <2>1. w \in E!Requests /\ w.pc = "insert" /\ w.position \in Positions
      BY <1>5 DEF EmployeeInv, EmployeeForm, E!TypeOK, E!InsertEmployee, E!At
    <2>2. w.document \in Documents \cup {None}
      BY <2>1 DEF E!Requests
    <2>3. row \in E!Employee /\ row # E!NoEmployee
      BY <1>0, <2>1, <2>2 DEF E!NoEmployee, E!Employee
    <2>4. /\ k \in E!Ids
          /\ employees' = [employees EXCEPT ![k] = row]
          /\ employeeWorker' = [employeeWorker EXCEPT ![p] = E!Idle]
          /\ active' = active
      BY <1>5, EmployeeCardinality DEF E!InsertEmployee, E!Goto
    <2>5. /\ k \notin E!Known /\ E!Known \cup {k} = 1 .. k /\ k \in Nat
      BY NextEmployee DEF EmployeeInv
    <2> HIDE DEF k, row, w
    <2>6. E!TypeOK'
      BY <2>3, <2>4, EmployeeForms DEF EmployeeInv, E!TypeOK
    <2>7. E!Known' = E!Known \cup {k}
      BY <2>3, <2>4 DEF E!Known, EmployeeInv, E!TypeOK
    <2>8. EmployeesInOrder'
      BY <2>5, <2>7 DEF EmployeesInOrder
    <2>9. ASSUME NEW q \in Workers
          PROVE  EmployeeForm(q)'
      <3>1. CASE q = p
        BY <2>4, <3>1 DEF EmployeeInv, EmployeeForm, E!TypeOK, E!Idle
      <3>2. CASE q # p
        <4>1. employeeWorker'[q] = employeeWorker[q] /\ active' = active
          BY <2>4, <3>2 DEF EmployeeInv, E!TypeOK
        <4>2. \A e \in E!Known : e \in E!Known' /\ employees'[e] = employees[e]
          BY <2>4, <2>5, <2>7 DEF EmployeeInv, E!TypeOK, E!Known
        <4> QED
          BY <1>0, <4>1, <4>2 DEF EmployeeInv, EmployeeForm
      <3> QED
        BY <3>1, <3>2
    <2> QED
      BY <2>6, <2>8, <2>9 DEF EmployeeInv
  <1>6. ASSUME NEW p \in Workers, E!ReloadEmployee(p)
        PROVE  EmployeeInv'
    <2> DEFINE r == employeeWorker[p]
               document == E!Differing(r.document, employees[r.id].document)
               position == E!Differing(r.position, employees[r.id].position)
               w == [r EXCEPT !.pc = "write", !.document = document, !.position = position]
    <2>1. r \in E!Requests /\ r.pc = "reload"
      BY <1>6 DEF EmployeeInv, E!TypeOK, E!ReloadEmployee, E!At
    <2>2. /\ document \in Documents \cup {None} /\ position \in Positions \cup {None}
          /\ position \in {None, r.position}
          /\ r.position = employees[r.id].position => position = None
      BY <2>1 DEF E!Requests, E!Differing
    <2>3. w \in E!Requests
      BY <2>1, <2>2, EmployeeForms
    <2>4. /\ employeeWorker' = [employeeWorker EXCEPT ![p] = w]
          /\ UNCHANGED <<active, employees>>
      BY <1>6 DEF E!ReloadEmployee, E!Goto
    <2>5. w.pc = "write" /\ w.position = position /\ w.id = r.id /\ w.checked = r.checked
          /\ w.late = r.late
      BY <2>1 DEF E!Requests
    <2> HIDE DEF w, position, document
    <2>6. EmployeeForm(p)'
      BY <1>0, <2>1, <2>2, <2>4, <2>5 DEF EmployeeInv, EmployeeForm, E!TypeOK, E!Known
    <2> QED
      BY <2>3, <2>4, <2>6, EmployeeMoves
  <1>7. ASSUME NEW p \in Workers, E!WriteEmployee(p)
        PROVE  EmployeeInv'
    <2> DEFINE w == employeeWorker[p]
               row == [document |-> E!Given(w.document, employees[w.id].document),
                       position |-> E!Given(w.position, employees[w.id].position)]
    <2>1. w \in E!Requests /\ w.pc = "write" /\ w.id \in E!Known
      BY <1>7 DEF EmployeeInv, EmployeeForm, E!TypeOK, E!WriteEmployee, E!At
    <2>2. /\ w.document \in Documents \cup {None} /\ w.position \in Positions \cup {None}
          /\ employees[w.id].document \in Documents \cup {None}
          /\ employees[w.id].position \in Positions /\ w.id \in E!Ids
      BY <2>1, KnownEmployee DEF EmployeeInv, E!Requests
    <2>3. row \in E!Employee /\ row # E!NoEmployee
      BY <1>0, <2>2 DEF E!Given, E!Employee, E!NoEmployee
    <2>4. /\ employees' = [employees EXCEPT ![w.id] = row]
          /\ employeeWorker' = [q \in Workers |->
                 IF q = p THEN E!Idle
                 ELSE IF employeeWorker[q].id = w.id
                 THEN [employeeWorker[q] EXCEPT !.late = TRUE] ELSE employeeWorker[q]]
          /\ active' = active
      BY <1>7 DEF E!WriteEmployee
    <2> HIDE DEF row
    <2>5. E!TypeOK'
      BY <2>2, <2>3, <2>4, EmployeeForms DEF EmployeeInv, E!TypeOK
    <2>6. E!Known' = E!Known
      BY <2>1, <2>2, <2>3, <2>4 DEF E!Known, EmployeeInv, E!TypeOK
    <2>7. EmployeesInOrder'
      BY <2>6 DEF EmployeesInOrder, EmployeeInv
    <2>8. ASSUME NEW q \in Workers
          PROVE  EmployeeForm(q)'
      <3>1. CASE q = p
        BY <2>4, <3>1 DEF EmployeeInv, EmployeeForm, E!TypeOK, E!Idle
      <3>2. CASE q # p /\ employeeWorker[q].id = w.id
        BY <2>4, <2>6, <3>2 DEF EmployeeInv, EmployeeForm, E!TypeOK, E!Requests
      <3>3. CASE q # p /\ employeeWorker[q].id # w.id
        <4>1. employeeWorker'[q] = employeeWorker[q] /\ active' = active
          BY <2>4, <3>3
        <4>2. \A e \in E!Known : e # w.id => employees'[e] = employees[e]
          BY <2>4 DEF EmployeeInv, E!TypeOK, E!Known
        <4> QED
          BY <1>0, <2>6, <3>3, <4>1, <4>2 DEF EmployeeInv, EmployeeForm
      <3> QED
        BY <3>1, <3>2, <3>3
    <2> QED
      BY <2>5, <2>7, <2>8 DEF EmployeeInv
  <1>8. ASSUME NEW p \in Workers, E!Fail(p)
        PROVE  EmployeeInv'
    BY <1>8, EmployeeForms, EmployeeMoves DEF E!Fail, E!Goto, E!Idle
  <1>9. ASSUME NEW c \in Positions, NEW is \in BOOLEAN, E!SetActive(c, is)
        PROVE  EmployeeInv'
    <2>1. /\ active' = [active EXCEPT ![c] = is]
          /\ employeeWorker' = [p \in Workers |->
                 IF employeeWorker[p].position = c /\ ~ is
                 THEN [employeeWorker[p] EXCEPT !.late = TRUE] ELSE employeeWorker[p]]
          /\ employees' = employees
      BY <1>9 DEF E!SetActive
    <2>2. E!TypeOK'
      BY <2>1, EmployeeForms DEF EmployeeInv, E!TypeOK
    <2>3. EmployeesInOrder'
      BY <2>1 DEF EmployeeInv, EmployeesInOrder, E!Known
    <2>4. ASSUME NEW q \in Workers
          PROVE  EmployeeForm(q)'
      <3>1. CASE employeeWorker[q].position = c /\ ~ is
        BY <2>1, <3>1 DEF EmployeeInv, EmployeeForm, E!TypeOK, E!Requests, E!Known
      <3>2. CASE ~ (employeeWorker[q].position = c /\ ~ is)
        <4>1. employeeWorker'[q] = employeeWorker[q] /\ E!Known' = E!Known
          BY <2>1, <3>2 DEF E!Known
        <4>2. employeeWorker[q].position # None /\ active[employeeWorker[q].position]
                /\ employeeWorker[q].position \in Positions
                => active'[employeeWorker[q].position]
          BY <2>1, <3>2 DEF EmployeeInv, E!TypeOK
        <4>3. employeeWorker[q].position \in Positions \cup {None}
          BY DEF EmployeeInv, E!TypeOK, E!Requests
        <4> QED
          BY <2>1, <4>1, <4>2, <4>3 DEF EmployeeInv, EmployeeForm
      <3> QED
        BY <3>1, <3>2
    <2> QED
      BY <2>2, <2>3, <2>4 DEF EmployeeInv
  <1>10. CASE UNCHANGED employeeVars
    BY <1>10 DEF employeeVars, EmployeeInv, EmployeesInOrder, EmployeeForm, E!TypeOK, E!Known
  <1> QED
    BY <1>1, <1>2, <1>3, <1>4, <1>5, <1>6, <1>7, <1>8, <1>9, <1>10 DEF E!Next

\* What one step does to the position of an employee.
LEMMA GivenStep ==
    ASSUME EmployeeInv, [E!Next]_employeeVars
    PROVE  [\A e \in E!Ids : E!GivenActive(e)]_employeeVars
  <1> SUFFICES ASSUME NEW e \in E!Ids, E!Next, employees'[e].position # employees[e].position
               PROVE  E!GivenActive(e)
    BY DEF E!GivenActive
  <1>1. CASE \E p \in Workers : E!InsertEmployee(p)
    <2>1. PICK p \in Workers : E!InsertEmployee(p)
      BY <1>1
    <2>2. employees'[e].position = employeeWorker[p].position
      BY <2>1 DEF E!InsertEmployee, EmployeeInv, E!TypeOK
    <2>3. /\ employeeWorker[p].pc = "insert" /\ employeeWorker[p].checked
          /\ employeeWorker[p].position \in Positions
      BY <2>1 DEF E!InsertEmployee, E!At, EmployeeInv, EmployeeForm
    <2> QED
      BY <2>2, <2>3, NoneIsNone DEF E!GivenActive, EmployeeInv, EmployeeForm
  <1>2. CASE \E p \in Workers : E!WriteEmployee(p)
    <2>1. PICK p \in Workers : E!WriteEmployee(p)
      BY <1>2
    <2>2. /\ employeeWorker[p].position # None /\ e = employeeWorker[p].id
          /\ employees'[e].position = employeeWorker[p].position
      BY <2>1 DEF E!WriteEmployee, E!Given, EmployeeInv, E!TypeOK
    <2>3. employeeWorker[p].pc = "write"
      BY <2>1 DEF E!WriteEmployee, E!At
    <2> QED
      BY <2>2, <2>3 DEF E!GivenActive, EmployeeInv, EmployeeForm
  <1>3. CASE employees' = employees
    BY <1>3
  <1> QED
    BY <1>1, <1>2, <1>3
    DEF E!Next, E!CreateEmployee, E!UpdateEmployee, E!FindDocument, E!FindPosition,
        E!ReloadEmployee, E!Fail, E!SetActive

LEMMA EmployeeInit == E!Init => EmployeeInv
  <1> SUFFICES ASSUME E!Init
               PROVE  EmployeeInv
    OBVIOUS
  <1>1. E!Known = 1 .. 0
    BY DEF E!Init, E!Known
  <1> QED
    BY <1>1, EmployeeTypeInit DEF EmployeeInv, EmployeesInOrder, EmployeeForm, E!Init, E!Idle

\* An employee is given an active position, unless the request was overtaken by
\* the deactivation of the position or by another update of the employee.
THEOREM PositionsAreActive == Spec => AssignedWereActive
  <1>1. Init => EmployeeInv
    BY EmployeeInit DEF Init
  <1>2. EmployeeInv /\ [Next]_vars => EmployeeInv'
    BY EmployeeStep, PartSteps
  <1>3. EmployeeInv /\ [Next]_vars => [\A e \in E!Ids : E!GivenActive(e)]_employeeVars
    BY GivenStep, PartSteps
  <1> QED
    BY <1>1, <1>2, <1>3, PTL DEF Spec, AssignedWereActive

-----------------------------------------------------------------------------
(* Things that are there no more often than requests overlap *)

\* As many things as there are workers, at most.
LEMMA ImageSmall ==
    ASSUME NEW T, NEW f, T \subseteq {f[p] : p \in Workers}
    PROVE  IsFiniteSet(T) /\ Cardinality(T) <= Cardinality(Workers)
  <1> DEFINE image == {f[p] : p \in Workers}
             g == [p \in Workers |-> f[p]]
  <1>1. g \in Surjection(Workers, image)
    BY DEF Surjection
  <1>2. IsFiniteSet(image) /\ Cardinality(image) <= Cardinality(Workers)
    BY <1>1, FS_Surjection, SetsAssumption
  <1>3. IsFiniteSet(T) /\ Cardinality(T) <= Cardinality(image)
    BY <1>2, FS_Subset
  <1> QED
    BY <1>2, <1>3, FS_CardinalityType, SetsAssumption

-----------------------------------------------------------------------------
(* The catalogue *)

LEMMA CatalogForms ==
    /\ C!Idle \in C!Requests
    /\ \A name : name \in C!Names => C!Normalized(name) \in C!Names
    /\ \A w \in C!Requests :
         /\ \A pc \in {"insert", "reload"} : [w EXCEPT !.pc = pc] \in C!Requests
         /\ \A name \in C!Names \cup {None} : [w EXCEPT !.pc = "write", !.name = name] \in C!Requests
  <1>1. C!Idle \in C!Requests
    BY DEF C!Idle, C!Requests
  <1>2. ASSUME NEW name \in C!Names
        PROVE  C!Normalized(name) \in C!Names
    BY DEF C!Normalized, C!Names
  <1>3. ASSUME NEW w \in C!Requests, NEW pc \in {"insert", "reload"}
        PROVE  [w EXCEPT !.pc = pc] \in C!Requests
    BY DEF C!Requests
  <1>4. ASSUME NEW w \in C!Requests, NEW name \in C!Names \cup {None}
        PROVE  [w EXCEPT !.pc = "write", !.name = name] \in C!Requests
    BY DEF C!Requests
  <1> QED
    BY <1>1, <1>2, <1>3, <1>4

\* The requests that are about to give a row this name, and those about to
\* insert a row of it.
Naming(name) ==
    {p \in Workers : catalogWorker[p].pc \in {"reload", "write"} /\ catalogWorker[p].name = name}

Inserting(name) ==
    {p \in Workers : catalogWorker[p].pc = "insert" /\ catalogWorker[p].name = name}

\* The rows of a name, now or when those requests are done.
HeldRows(name) == C!Named(name) \cup {catalogWorker[p].row : p \in Naming(name)}

\* They are a row for each request, but for those that insert one.
FewHeld(name) ==
    \E f \in [Workers -> C!Ids \cup {None}] :
        HeldRows(name) \subseteq {f[p] : p \in Workers \ Inserting(name)}

\* What a request that goes on carries.
CatalogForm(p) ==
    LET w == catalogWorker[p]
    IN  /\ w.pc \in {"lookup", "insert", "reload"} => w.name \in C!Names
        /\ w.pc \in {"lookup", "insert"} /\ w.row = None => w.owner \in Owners
        /\ w.pc = "insert" => w.row = None
        /\ w.pc = "lookup" /\ w.row # None => w.row \in C!Known
        /\ w.pc \in {"reload", "write"} => w.row \in C!Known

CatalogInv ==
    /\ C!TypeOK
    /\ \A p \in Workers : CatalogForm(p)
    /\ \A name \in C!Names : FewHeld(name)

LEMMA CatalogInit == C!Init => CatalogInv
  <1> SUFFICES ASSUME C!Init
               PROVE  CatalogInv
    OBVIOUS
  <1>1. C!TypeOK
    BY CatalogForms DEF C!Init, C!TypeOK
  <1>2. ASSUME NEW name
        PROVE  FewHeld(name)
    <2>1. HeldRows(name) = {}
      BY DEF C!Init, HeldRows, C!Named, C!Known, Naming, C!Idle
    <2>2. [p \in Workers |-> None] \in [Workers -> C!Ids \cup {None}]
      OBVIOUS
    <2> QED
      BY <2>1, <2>2 DEF FewHeld
  <1>3. ASSUME NEW p \in Workers
        PROVE  CatalogForm(p)
    BY DEF C!Init, CatalogForm, C!Idle
  <1> QED
    BY <1>1, <1>2, <1>3 DEF CatalogInv

\* What does not add to the rows that are held, nor to the inserts, leaves
\* them few.
LEMMA FewStays ==
    ASSUME NEW name, FewHeld(name), HeldRows(name)' \subseteq HeldRows(name),
           Inserting(name)' \subseteq Inserting(name)
    PROVE  FewHeld(name)'
  <1>1. PICK f \in [Workers -> C!Ids \cup {None}] :
          HeldRows(name) \subseteq {f[p] : p \in Workers \ Inserting(name)}
    BY DEF FewHeld
  <1>2. {f[p] : p \in Workers \ Inserting(name)} \subseteq {f[p] : p \in Workers \ Inserting(name)'}
    OBVIOUS
  <1> QED
    BY <1>1, <1>2 DEF FewHeld

\* A request goes on with w and the rows stay as they are.
LEMMA CatalogMoves ==
    ASSUME CatalogInv, NEW p \in Workers, NEW w \in C!Requests,
           catalogWorker' = [catalogWorker EXCEPT ![p] = w],
           UNCHANGED <<kind, catalog>>,
           CatalogForm(p)',
           \/ w.pc \in {"idle", "lookup"}
           \/ w.pc \in {"reload", "write"}
                /\ \A name \in C!Names : w.name = name => w.row \in HeldRows(name)
    PROVE  CatalogInv'
  <1>1. C!TypeOK'
    BY DEF CatalogInv, C!TypeOK
  <1>2. ASSUME NEW name \in C!Names
        PROVE  FewHeld(name)'
    <2>1. C!Named(name)' = C!Named(name)
      BY DEF C!Named, C!Known
    <2>2. Inserting(name)' \subseteq Inserting(name)
      BY DEF Inserting, CatalogInv, C!TypeOK
    <2>3. ASSUME NEW q \in Naming(name)'
          PROVE  catalogWorker'[q].row \in HeldRows(name)
      <3>1. CASE q = p
        BY <3>1 DEF Naming, CatalogInv, C!TypeOK
      <3>2. CASE q # p
        BY <3>2 DEF Naming, CatalogInv, C!TypeOK, HeldRows
      <3> QED
        BY <3>1, <3>2
    <2>4. HeldRows(name)' \subseteq HeldRows(name)
      BY <2>1, <2>3 DEF HeldRows
    <2> QED
      BY <2>2, <2>4, FewStays DEF CatalogInv
  <1>3. \A q \in Workers : CatalogForm(q)'
    BY DEF CatalogInv, CatalogForm, C!TypeOK, C!Known
  <1> QED
    BY <1>1, <1>2, <1>3 DEF CatalogInv

LEMMA LookUpStep ==
    ASSUME CatalogInv, NEW p \in Workers, C!LookUp(p)
    PROVE  CatalogInv'
  <1> DEFINE w == [catalogWorker[p] EXCEPT
                     !.pc = IF catalogWorker[p].row = None THEN "insert" ELSE "reload"]
  <1>1. w \in C!Requests
    BY CatalogForms DEF CatalogInv, C!TypeOK
  <1>2. /\ w.name = catalogWorker[p].name /\ w.row = catalogWorker[p].row
        /\ w.pc \in {"insert", "reload"}
    BY DEF CatalogInv, C!TypeOK, C!Requests
  <1>3. /\ catalogWorker' = [catalogWorker EXCEPT ![p] = w]
        /\ C!Named(catalogWorker[p].name) = {} /\ UNCHANGED <<kind, catalog>>
    BY DEF C!LookUp, C!Goto
  <1> HIDE DEF w
  <1>4. C!TypeOK'
    BY <1>1, <1>3 DEF CatalogInv, C!TypeOK
  <1>5. ASSUME NEW name \in C!Names
        PROVE  FewHeld(name)'
    <2>1. C!Named(name)' = C!Named(name)
      BY <1>3 DEF C!Named, C!Known
    <2>2. CASE w.name = name
      <3> DEFINE f == [q \in Workers |-> catalogWorker'[q].row]
      <3>1. f \in [Workers -> C!Ids \cup {None}]
        BY <1>4 DEF C!TypeOK, C!Requests
      <3>2. HeldRows(name)' \subseteq {catalogWorker'[q].row : q \in Naming(name)'}
        BY <1>2, <1>3, <2>1, <2>2 DEF HeldRows
      <3>3. Naming(name)' \subseteq Workers \ Inserting(name)'
        BY DEF Naming, Inserting
      <3>4. HeldRows(name)' \subseteq {f[q] : q \in Workers \ Inserting(name)'}
        BY <3>2, <3>3
      <3> QED
        BY <3>1, <3>4 DEF FewHeld
    <2>3. CASE w.name # name
      <3>1. Inserting(name)' \subseteq Inserting(name)
        BY <1>3, <2>3 DEF Inserting, CatalogInv, C!TypeOK
      <3>2. \A q \in Naming(name)' : q \in Naming(name) /\ catalogWorker'[q].row = catalogWorker[q].row
        BY <1>3, <2>3 DEF Naming, CatalogInv, C!TypeOK
      <3>3. HeldRows(name)' \subseteq HeldRows(name)
        BY <2>1, <3>2 DEF HeldRows
      <3> QED
        BY <3>1, <3>3, FewStays DEF CatalogInv
    <2> QED
      BY <2>2, <2>3
  <1>6. ASSUME NEW q \in Workers
        PROVE  CatalogForm(q)'
    <2>1. catalogWorker[p].pc = "lookup"
      BY DEF C!LookUp, C!At
    <2>2. w.pc = "insert" <=> w.row = None
      BY <1>2 DEF w, CatalogInv, C!TypeOK, C!Requests
    <2>3. w.owner = catalogWorker[p].owner
      BY DEF w, CatalogInv, C!TypeOK, C!Requests
    <2> QED
      BY <1>2, <1>3, <2>1, <2>2, <2>3 DEF CatalogInv, CatalogForm, C!TypeOK, C!Known
  <1> QED
    BY <1>4, <1>5, <1>6 DEF CatalogInv

LEMMA NoNames ==
    None \notin C!Names /\ None \notin C!Ids /\ C!NoRow \notin C!Row
  <1>1. C!Ids \subseteq Int
    BY BoundsAssumption DEF C!Ids
  <1>2. C!NoRow \notin C!Row
    BY NoneIsNone DEF C!NoRow, C!Row
  <1> QED
    BY <1>1, <1>2, NoneIsNone

LEMMA CatalogRows ==
    ASSUME NEW name
    PROVE  /\ \A r : r \in C!Named(name) <=>
                 r \in C!Ids /\ catalog[r] # C!NoRow /\ catalog[r].name = name
           /\ \A r : r \in C!Named(name)' <=>
                 r \in C!Ids /\ catalog'[r] # C!NoRow /\ catalog'[r].name = name
           /\ \A r : r \in C!Known <=> r \in C!Ids /\ catalog[r] # C!NoRow
           /\ \A r : r \in C!Known' <=> r \in C!Ids /\ catalog'[r] # C!NoRow
  BY DEF C!Named, C!Known

LEMMA InsertRowStep ==
    ASSUME CatalogInv, NEW p \in Workers, C!InsertRow(p)
    PROVE  CatalogInv'
  <1> DEFINE w == catalogWorker[p]
             k == C!Cardinality(C!Known) + 1
             row == [owner |-> w.owner, name |-> w.name]
  <1>1. /\ k \in C!Ids /\ w.pc = "insert"
        /\ catalog' = [catalog EXCEPT ![k] = row]
        /\ catalogWorker' = [catalogWorker EXCEPT ![p] = C!Idle] /\ C!Idle.pc = "idle"
        /\ kind' = kind
    BY DEF C!InsertRow, C!Goto, C!At, C!Idle
  <1>2. row \in C!Row /\ row # C!NoRow /\ row.name = w.name
    BY <1>1, NoneIsNone DEF CatalogInv, CatalogForm, C!Row, C!NoRow
  <1> HIDE DEF k, row, w
  <1>3. C!TypeOK'
    BY <1>1, <1>2, CatalogForms DEF CatalogInv, C!TypeOK
  <1>4. C!Known \subseteq C!Known'
    BY <1>1, <1>2, CatalogRows DEF CatalogInv, C!TypeOK
  <1>5. \A q \in Workers : CatalogForm(q)'
    BY <1>1, <1>4 DEF CatalogInv, CatalogForm, C!TypeOK
  <1>6. ASSUME NEW name \in C!Names
        PROVE  FewHeld(name)'
    <2>1. \A q \in Naming(name)' : q \in Naming(name) /\ catalogWorker'[q].row = catalogWorker[q].row
      BY <1>1 DEF Naming, CatalogInv, C!TypeOK
    <2>2. Inserting(name)' = Inserting(name) \ {p}
      BY <1>1 DEF Inserting, CatalogInv, C!TypeOK
    <2>3. CASE w.name = name
      <3>1. PICK f \in [Workers -> C!Ids \cup {None}] :
              HeldRows(name) \subseteq {f[q] : q \in Workers \ Inserting(name)}
        BY DEF CatalogInv, FewHeld
      <3> DEFINE g == [f EXCEPT ![p] = k]
      <3>2. g \in [Workers -> C!Ids \cup {None}]
        BY <1>1
      <3>3. p \in Inserting(name)
        BY <1>1, <2>3 DEF Inserting, w
      <3>4. C!Named(name)' \subseteq C!Named(name) \cup {k}
        BY <1>1, CatalogRows DEF CatalogInv, C!TypeOK
      <3>5. HeldRows(name)' \subseteq HeldRows(name) \cup {k}
        BY <2>1, <3>4 DEF HeldRows
      <3>6. ASSUME NEW r \in HeldRows(name) \cup {k}
            PROVE  \E q \in Workers \ Inserting(name)' : g[q] = r
        <4>1. CASE r = k
          BY <4>1, <2>2
        <4>2. CASE r \in HeldRows(name)
          <5>1. PICK q \in Workers \ Inserting(name) : f[q] = r
            BY <3>1, <4>2
          <5>2. q # p
            BY <3>3
          <5> QED
            BY <5>1, <5>2, <2>2
        <4> QED
          BY <4>1, <4>2
      <3> HIDE DEF g
      <3>7. HeldRows(name)' \subseteq {g[q] : q \in Workers \ Inserting(name)'}
        BY <3>5, <3>6
      <3> QED
        BY <3>2, <3>7 DEF FewHeld
    <2>4. CASE w.name # name
      <3>1. C!Named(name)' \subseteq C!Named(name)
        BY <1>1, <1>2, <2>4, CatalogRows DEF CatalogInv, C!TypeOK
      <3>2. HeldRows(name)' \subseteq HeldRows(name)
        BY <2>1, <3>1 DEF HeldRows
      <3> QED
        BY <2>2, <3>2, FewStays DEF CatalogInv
    <2> QED
      BY <2>3, <2>4
  <1> QED
    BY <1>3, <1>5, <1>6 DEF CatalogInv

LEMMA WriteRowStep ==
    ASSUME CatalogInv, NEW p \in Workers, C!WriteRow(p)
    PROVE  CatalogInv'
  <1> DEFINE w == catalogWorker[p]
             row == IF w.name = None THEN catalog[w.row] ELSE [catalog[w.row] EXCEPT !.name = w.name]
  <1>1. /\ w.pc = "write" /\ w.row \in C!Known /\ w \in C!Requests
        /\ catalog' = [catalog EXCEPT ![w.row] = row]
        /\ catalogWorker' = [catalogWorker EXCEPT ![p] = C!Idle] /\ C!Idle.pc = "idle"
        /\ kind' = kind
    BY DEF C!WriteRow, C!Goto, C!At, C!Idle, CatalogInv, CatalogForm, C!TypeOK
  <1>2. w.row \in C!Ids /\ catalog[w.row] \in C!Row
    BY <1>1 DEF C!Known, CatalogInv, C!TypeOK
  <1>3. row \in C!Row /\ (IF w.name = None THEN row = catalog[w.row] ELSE row.name = w.name)
    BY <1>1, <1>2 DEF C!Row, C!Requests
  <1>4. row # C!NoRow
    BY <1>3, NoNames
  <1> HIDE DEF row
  <1>5. C!TypeOK'
    BY <1>1, <1>2, <1>3, CatalogForms DEF CatalogInv, C!TypeOK
  <1>6. C!Known \subseteq C!Known'
    BY <1>1, <1>4, CatalogRows DEF CatalogInv, C!TypeOK
  <1>7. \A q \in Workers : CatalogForm(q)'
    BY <1>1, <1>6 DEF CatalogInv, CatalogForm, C!TypeOK
  <1>8. ASSUME NEW name \in C!Names
        PROVE  FewHeld(name)'
    <2>1. \A q \in Naming(name)' : q \in Naming(name) /\ catalogWorker'[q].row = catalogWorker[q].row
      BY <1>1 DEF Naming, CatalogInv, C!TypeOK
    <2>2. Inserting(name)' \subseteq Inserting(name)
      BY <1>1 DEF Inserting, CatalogInv, C!TypeOK
    <2>3. ASSUME NEW r \in C!Named(name)', r \notin C!Named(name)
          PROVE  r \in HeldRows(name)
      <3>1. r = w.row /\ row.name = name
        BY <1>1, <1>2, <2>3, CatalogRows DEF CatalogInv, C!TypeOK
      <3>2. w.name = name
        BY <1>1, <1>2, <1>3, <2>3, <3>1, CatalogRows
      <3>3. p \in Naming(name)
        BY <1>1, <3>2 DEF Naming
      <3> QED
        BY <3>1, <3>3 DEF HeldRows
    <2>4. HeldRows(name)' \subseteq HeldRows(name)
      BY <2>1, <2>3 DEF HeldRows
    <2> QED
      BY <2>2, <2>4, FewStays DEF CatalogInv
  <1> QED
    BY <1>5, <1>7, <1>8 DEF CatalogInv

LEMMA CatalogStep == CatalogInv /\ [C!Next]_catalogVars => CatalogInv'
  <1> SUFFICES ASSUME CatalogInv, [C!Next]_catalogVars
               PROVE  CatalogInv'
    OBVIOUS
  <1>1. ASSUME NEW p \in Workers, NEW owner \in Owners, NEW name \in C!Names,
               C!CreateRow(p, owner, name)
        PROVE  CatalogInv'
    <2> DEFINE w == [pc |-> "lookup", row |-> None, owner |-> owner,
                     name |-> C!Normalized(name)]
    <2>1. w \in C!Requests
      BY CatalogForms DEF C!Requests
    <2>2. /\ catalogWorker' = [catalogWorker EXCEPT ![p] = w]
          /\ UNCHANGED <<kind, catalog>>
      BY <1>1 DEF C!CreateRow, C!Goto
    <2>3. CatalogForm(p)'
      BY <2>1, <2>2, CatalogForms DEF CatalogForm, CatalogInv, C!TypeOK
    <2> QED
      BY <2>1, <2>2, <2>3, CatalogMoves
  <1>2. ASSUME NEW p \in Workers, NEW r \in C!Ids, NEW name \in C!Names,
               C!UpdateRow(p, r, name)
        PROVE  CatalogInv'
    <2> DEFINE new == C!Normalized(name)
               w == [pc |-> IF new = catalog[r].name THEN "reload" ELSE "lookup",
                     row |-> r, owner |-> None, name |-> new]
    <2>1. w \in C!Requests /\ new \in C!Names
      BY CatalogForms DEF C!Requests
    <2>2. /\ catalogWorker' = [catalogWorker EXCEPT ![p] = w]
          /\ UNCHANGED <<kind, catalog>> /\ r \in C!Known
      BY <1>2 DEF C!UpdateRow, C!Goto
    <2>3. w.pc = "reload" => r \in HeldRows(new)
      BY <2>2 DEF HeldRows, C!Named
    <2>4. /\ w.pc \in {"reload", "lookup"} /\ w.row = r /\ w.name = new
          /\ r # None
      BY NoNames
    <2> HIDE DEF w, new
    <2>5. CatalogForm(p)'
      BY <2>1, <2>2, <2>4 DEF CatalogForm, CatalogInv, C!TypeOK, C!Known
    <2> QED
      BY <2>1, <2>2, <2>3, <2>4, <2>5, CatalogMoves
  <1>3. ASSUME NEW p \in Workers, C!ReloadRow(p)
        PROVE  CatalogInv'
    <2> DEFINE r == catalogWorker[p]
               name == IF r.name = catalog[r.row].name THEN None ELSE r.name
               w == [r EXCEPT !.pc = "write", !.name = name]
    <2>1. r \in C!Requests /\ r.pc = "reload" /\ r.row \in C!Known /\ r.name \in C!Names
      BY <1>3 DEF C!ReloadRow, C!At, CatalogInv, CatalogForm, C!TypeOK
    <2>2. w \in C!Requests
      BY <2>1, CatalogForms
    <2>3. w.pc = "write" /\ w.row = r.row /\ w.name = name
      BY <2>1 DEF C!Requests
    <2>4. /\ catalogWorker' = [catalogWorker EXCEPT ![p] = w]
          /\ UNCHANGED <<kind, catalog>>
      BY <1>3 DEF C!ReloadRow, C!Goto
    <2>5. \A n \in C!Names : name = n => r.row \in HeldRows(n)
      BY <2>1, NoNames DEF HeldRows, Naming
    <2> HIDE DEF w, name
    <2>6. CatalogForm(p)'
      BY <2>1, <2>2, <2>3, <2>4 DEF CatalogForm, CatalogInv, C!TypeOK, C!Known
    <2> QED
      BY <2>2, <2>3, <2>4, <2>5, <2>6, CatalogMoves
  <1>4. ASSUME NEW p \in Workers, C!Fail(p)
        PROVE  CatalogInv'
    <2>1. /\ catalogWorker' = [catalogWorker EXCEPT ![p] = C!Idle]
          /\ UNCHANGED <<kind, catalog>> /\ C!Idle.pc = "idle"
      BY <1>4 DEF C!Fail, C!Goto, C!Idle
    <2>2. CatalogForm(p)'
      BY <2>1 DEF CatalogForm, CatalogInv, C!TypeOK
    <2> QED
      BY <2>1, <2>2, CatalogForms, CatalogMoves
  <1>5. CASE UNCHANGED catalogVars
    BY <1>5 DEF catalogVars, CatalogInv, CatalogForm, FewHeld, HeldRows, Naming, Inserting,
        C!TypeOK, C!Known, C!Named
  <1> QED
    BY <1>1, <1>2, <1>3, <1>4, <1>5, LookUpStep, InsertRowStep, WriteRowStep DEF C!Next

\* Catalog counts as this module does.
LEMMA CatalogCardinality == ASSUME NEW T PROVE C!Cardinality(T) = Cardinality(T)
  BY DEF C!Cardinality, Cardinality

LEMMA NamesFew == CatalogInv => C!FewNames
  <1> SUFFICES ASSUME CatalogInv, NEW name \in C!Names
               PROVE  Cardinality(C!Named(name)) <= Cardinality(Workers)
    BY CatalogCardinality DEF C!FewNames
  <1>1. PICK f \in [Workers -> C!Ids \cup {None}] :
          HeldRows(name) \subseteq {f[p] : p \in Workers \ Inserting(name)}
    BY DEF CatalogInv, FewHeld
  <1>2. C!Named(name) \subseteq {f[p] : p \in Workers}
    BY <1>1 DEF HeldRows
  <1> QED
    BY <1>2, ImageSmall

-----------------------------------------------------------------------------
(* The profile *)

LEMMA ProfileForms ==
    /\ F!Idle \in F!Requests /\ F!NoUpdate.name = None
    /\ \A input \in F!Updates : [F!Idle EXCEPT !.input = input] \in F!Requests
    /\ \A w \in F!Requests, r \in F!Profile :
         /\ [w EXCEPT !.pc = "insert", !.record = r] \in F!Requests
         /\ [w EXCEPT !.pc = "update", !.record = r] \in F!Requests
    /\ \A w \in F!Requests, name \in F!Texts \cup {None}, phone \in F!Texts \cup {None} :
         [w EXCEPT !.pc = "write", !.input = [name |-> name, phone |-> phone]] \in F!Requests
  <1>1. F!Idle \in F!Requests /\ F!NoUpdate.name = None
    BY DEF F!Idle, F!Requests, F!NoUpdate
  <1>2. \A input \in F!Updates : [F!Idle EXCEPT !.input = input] \in F!Requests
    BY DEF F!Idle, F!Requests, F!Updates, F!Texts
  <1>3. ASSUME NEW w \in F!Requests, NEW r \in F!Profile
        PROVE  /\ [w EXCEPT !.pc = "insert", !.record = r] \in F!Requests
               /\ [w EXCEPT !.pc = "update", !.record = r] \in F!Requests
    BY DEF F!Requests
  <1>4. ASSUME NEW w \in F!Requests, NEW name \in F!Texts \cup {None},
               NEW phone \in F!Texts \cup {None}
        PROVE  [w EXCEPT !.pc = "write", !.input = [name |-> name, phone |-> phone]] \in F!Requests
    BY DEF F!Requests
  <1> QED
    BY <1>1, <1>2, <1>3, <1>4

\* Requests that have begun to insert a profile.
Creating == {p \in Workers : profileWorker[p].pc = "insert"}

\* What a request that goes on carries: a profile to insert, of which there is
\* no other with its time, or one that is there, whatever became of its texts.
ProfileForm(p) ==
    LET w == profileWorker[p]
    IN  /\ w.pc # "idle" => w.record \in F!Profile
        /\ w.pc = "insert" =>
             /\ w.record.created <= clock
             /\ \A r \in profiles : r.created # w.record.created
             /\ \A q \in Creating \ {p} : profileWorker[q].record.created # w.record.created
        /\ w.pc \in {"update", "write"} => \E r \in profiles : r.created = w.record.created

\* The profiles have times of their own, and there is one for each request at
\* most, but for those that are to insert another.
FewTimes ==
    \E f \in [Workers -> Int] :
        {r.created : r \in profiles} \subseteq {f[p] : p \in Workers \ Creating}

ProfileInv ==
    /\ F!TypeOK
    /\ \A p \in Workers : ProfileForm(p)
    /\ \A r \in profiles : r.created <= clock
    /\ \A r, s \in profiles : r.created = s.created => r = s
    /\ FewTimes

LEMMA ProfileInit == F!Init => ProfileInv
  <1> SUFFICES ASSUME F!Init
               PROVE  ProfileInv
    OBVIOUS
  <1>1. F!TypeOK
    <2>1. clock \in 0 .. MaxTime
      BY BoundsAssumption DEF F!Init
    <2> QED
      BY <2>1, ProfileForms DEF F!Init, F!TypeOK
  <1>2. \A p \in Workers : ProfileForm(p)
    BY DEF F!Init, F!Idle, ProfileForm
  <1>3. FewTimes
    <2>1. [p \in Workers |-> 0] \in [Workers -> Int]
      OBVIOUS
    <2> QED
      BY <2>1 DEF F!Init, FewTimes
  <1> QED
    BY <1>1, <1>2, <1>3 DEF ProfileInv, F!Init

\* A request goes on with w, which inserts nothing, and the profiles stay.
LEMMA ProfileMoves ==
    ASSUME ProfileInv, NEW p \in Workers, NEW w \in F!Requests,
           profileWorker' = [profileWorker EXCEPT ![p] = w],
           UNCHANGED <<clock, profiles>>,
           w.pc # "insert", ProfileForm(p)'
    PROVE  ProfileInv'
  <1>1. F!TypeOK'
    BY DEF ProfileInv, F!TypeOK
  <1>2. Creating' \subseteq Creating
    BY DEF Creating, ProfileInv, F!TypeOK
  <1>3. ASSUME NEW q \in Workers \ {p}
        PROVE  ProfileForm(q)'
    <2>1. profileWorker'[q] = profileWorker[q] /\ UNCHANGED <<clock, profiles>>
      BY DEF ProfileInv, F!TypeOK
    <2>2. \A o \in Creating' : o \in Creating /\ profileWorker'[o] = profileWorker[o]
      BY DEF Creating, ProfileInv, F!TypeOK
    <2> QED
      BY <2>1, <2>2 DEF ProfileInv, ProfileForm
  <1>4. FewTimes'
    <2>1. PICK f \in [Workers -> Int] :
            {r.created : r \in profiles} \subseteq {f[q] : q \in Workers \ Creating}
      BY DEF ProfileInv, FewTimes
    <2>2. {f[q] : q \in Workers \ Creating} \subseteq {f[q] : q \in Workers \ Creating'}
      BY <1>2
    <2> QED
      BY <2>1, <2>2 DEF FewTimes
  <1> QED
    BY <1>1, <1>3, <1>4 DEF ProfileInv

LEMMA ProfilesFew ==
    ASSUME ProfileInv
    PROVE  IsFiniteSet(profiles) /\ Cardinality(profiles) <= Cardinality(Workers)
  <1> DEFINE f == [r \in profiles |-> r.created]
             times == {r.created : r \in profiles}
  <1>1. PICK g \in [Workers -> Int] : times \subseteq {g[q] : q \in Workers \ Creating}
    BY DEF ProfileInv, FewTimes
  <1>2. IsFiniteSet(times) /\ Cardinality(times) <= Cardinality(Workers)
    BY <1>1, ImageSmall
  <1>3. f \in Injection(profiles, times)
    BY DEF ProfileInv, Injection, IsInjective
  <1>4. IsFiniteSet(profiles) /\ Cardinality(profiles) <= Cardinality(times)
    BY <1>2, <1>3, FS_Injection
  <1> QED
    BY <1>2, <1>4, FS_CardinalityType, SetsAssumption

\* The oldest profile is one of them.
LEMMA OldestIsThere ==
    ASSUME ProfileInv, profiles # {}
    PROVE  F!Oldest \in profiles
  <1> DEFINE f == [r \in profiles |-> r.created]
  <1>1. f \in [profiles -> Int] /\ \A r \in profiles : f[r] = r.created
    BY DEF ProfileInv, F!TypeOK, F!Profile
  <1> HIDE DEF f
  <1>2. PICK r \in profiles : \A s \in profiles : f[r] <= f[s]
    BY <1>1, ProfilesFew, Smallest
  <1>3. \E o \in profiles : \A s \in profiles : o.created <= s.created
    BY <1>1, <1>2
  <1> QED
    BY <1>3 DEF F!Oldest

LEMMA BeginInsertStep ==
    ASSUME ProfileInv, NEW p \in Workers, NEW w \in F!Requests, profiles = {},
           F!BeginInsert(p, w), UNCHANGED profiles
    PROVE  ProfileInv'
  <1> DEFINE r == [created |-> clock + 1, name |-> "default", phone |-> "default"]
             x == [w EXCEPT !.pc = "insert", !.record = r]
  <1>1. clock < MaxTime /\ clock \in 0 .. MaxTime /\ MaxTime \in Nat
    BY BoundsAssumption DEF F!BeginInsert, ProfileInv, F!TypeOK
  <1>2. r \in F!Profile /\ r.created = clock + 1
    BY <1>1 DEF F!Profile, F!Texts
  <1> HIDE DEF r
  <1>3. x \in F!Requests /\ x.pc = "insert" /\ x.record = r
    <2>1. x \in F!Requests
      BY <1>2, ProfileForms
    <2>2. x.pc = "insert" /\ x.record = r
      BY DEF F!Requests
    <2> QED
      BY <2>1, <2>2
  <1>4. clock' = clock + 1 /\ profileWorker' = [profileWorker EXCEPT ![p] = x]
    BY DEF F!BeginInsert, F!Goto, r
  <1> HIDE DEF x
  <1>5. F!TypeOK'
    BY <1>1, <1>3, <1>4 DEF ProfileInv, F!TypeOK
  <1>6. ASSUME NEW q \in Workers
        PROVE  ProfileForm(q)'
    <2>1. \A o \in Workers \ {p} : profileWorker'[o] = profileWorker[o]
      BY <1>4 DEF ProfileInv, F!TypeOK
    <2>2. profileWorker'[p] = x
      BY <1>4 DEF ProfileInv, F!TypeOK
    <2>3. \A o \in Creating \ {p} : o \in Workers /\ profileWorker[o].record.created <= clock
                                  /\ profileWorker[o].record \in F!Profile
      BY DEF ProfileInv, ProfileForm, Creating
    <2>4. Creating' = Creating \cup {p}
      BY <1>3, <1>4 DEF ProfileInv, F!TypeOK, Creating
    <2>5. \A o \in Creating \ {p} : profileWorker[o].record.created # clock + 1
      BY <1>1, <2>3 DEF F!Profile
    <2>6. CASE q = p
      BY <1>1, <1>2, <1>3, <1>4, <2>1, <2>2, <2>4, <2>5, <2>6 DEF ProfileForm, ProfileInv
    <2>7. CASE q # p
      <3>1. profileWorker'[q] = profileWorker[q]
        BY <2>1, <2>7
      <3>2. ASSUME profileWorker[q].pc = "insert"
            PROVE  /\ profileWorker[q].record.created <= clock'
                   /\ \A o \in Creating' \ {q} :
                        profileWorker'[o].record.created # profileWorker[q].record.created
        <4>1. q \in Creating
          BY <3>2 DEF Creating
        <4>2. profileWorker[q].record.created <= clock /\ profileWorker[q].record.created \in Int
          BY <1>1, <2>3, <2>7, <4>1 DEF F!Profile
        <4> QED
          BY <1>1, <1>2, <1>3, <1>4, <2>1, <2>2, <2>4, <2>7, <3>2, <4>1, <4>2
          DEF ProfileForm, ProfileInv
      <3> QED
        BY <3>1, <3>2 DEF ProfileForm, ProfileInv
    <2> QED
      BY <2>6, <2>7
  <1>7. FewTimes'
    <2>1. [q \in Workers |-> 0] \in [Workers -> Int]
      OBVIOUS
    <2> QED
      BY <2>1 DEF FewTimes
  <1> QED
    BY <1>5, <1>6, <1>7 DEF ProfileInv

LEMMA InsertProfileStep ==
    ASSUME ProfileInv, NEW p \in Workers, F!InsertProfile(p)
    PROVE  ProfileInv'
  <1> DEFINE w == profileWorker[p]
             x == F!WithRecord(w, w.record)
  <1>1. w \in F!Requests /\ w.pc = "insert" /\ w.record \in F!Profile /\ p \in Creating
    BY DEF ProfileInv, ProfileForm, F!TypeOK, F!InsertProfile, F!At, Creating
  <1>2. x \in F!Requests /\ x.pc \in {"idle", "update"} /\ (x.pc = "update" => x.record = w.record)
    <2>1. CASE w.input = F!NoUpdate
      BY <2>1, ProfileForms DEF F!WithRecord, F!Idle
    <2>2. CASE w.input # F!NoUpdate
      <3>1. x = [w EXCEPT !.pc = "update", !.record = w.record]
        BY <2>2 DEF F!WithRecord
      <3> HIDE DEF w, x
      <3>2. x \in F!Requests
        BY <1>1, <3>1, ProfileForms
      <3>3. x.pc = "update" /\ x.record = w.record
        BY <1>1, <3>1 DEF F!Requests
      <3> QED
        BY <3>2, <3>3
    <2> QED
      BY <2>1, <2>2
  <1>3. /\ profiles' = profiles \cup {w.record} /\ clock' = clock
        /\ profileWorker' = [profileWorker EXCEPT ![p] = x]
    BY DEF F!InsertProfile, F!Goto
  <1>4. /\ w.record.created <= clock /\ \A r \in profiles : r.created # w.record.created
        /\ \A q \in Creating \ {p} : profileWorker[q].record.created # w.record.created
    BY <1>1 DEF ProfileInv, ProfileForm
  <1> HIDE DEF x, w
  <1>5. F!TypeOK'
    BY <1>1, <1>2, <1>3 DEF ProfileInv, F!TypeOK
  <1>6. \A q \in Workers \ {p} : profileWorker'[q] = profileWorker[q]
    BY <1>3 DEF ProfileInv, F!TypeOK
  <1>7. profileWorker'[p] = x
    BY <1>3 DEF ProfileInv, F!TypeOK
  <1>8. Creating' = Creating \ {p}
    BY <1>2, <1>6, <1>7 DEF Creating
  <1>9. ASSUME NEW q \in Workers
        PROVE  ProfileForm(q)'
    <2>1. CASE q = p
      BY <1>1, <1>2, <1>3, <1>7, <2>1 DEF ProfileForm
    <2>2. CASE q # p
      <3>1. profileWorker[q].pc = "insert" => q \in Creating
        BY DEF Creating
      <3>2. \A o \in Creating' : o \in Creating /\ profileWorker'[o] = profileWorker[o]
        BY <1>6, <1>8 DEF Creating
      <3> QED
        BY <1>3, <1>4, <1>6, <2>2, <3>1, <3>2 DEF ProfileForm, ProfileInv
    <2> QED
      BY <2>1, <2>2
  <1>10. FewTimes'
    <2>1. PICK f \in [Workers -> Int] :
            {r.created : r \in profiles} \subseteq {f[q] : q \in Workers \ Creating}
      BY DEF ProfileInv, FewTimes
    <2> DEFINE g == [f EXCEPT ![p] = w.record.created]
    <2>2. g \in [Workers -> Int] /\ g[p] = w.record.created /\ \A q \in Workers \ {p} : g[q] = f[q]
      BY <1>1 DEF F!Profile
    <2> HIDE DEF g
    <2>3. ASSUME NEW r \in profiles'
          PROVE  \E q \in Workers \ Creating' : r.created = g[q]
      <3>1. CASE r = w.record
        BY <1>8, <2>2, <3>1
      <3>2. CASE r \in profiles
        <4>1. PICK q \in Workers \ Creating : r.created = f[q]
          BY <2>1, <3>2
        <4> QED
          BY <1>1, <1>8, <2>2, <4>1
      <3> QED
        BY <1>3, <3>1, <3>2
    <2>4. {r.created : r \in profiles'} \subseteq {g[q] : q \in Workers \ Creating'}
      BY <2>3
    <2> QED
      BY <2>2, <2>4 DEF FewTimes
  <1>11. \A r \in profiles' : r.created <= clock'
    BY <1>3, <1>4 DEF ProfileInv
  <1>12. \A r, s \in profiles' : r.created = s.created => r = s
    BY <1>3, <1>4 DEF ProfileInv
  <1> QED
    BY <1>5, <1>9, <1>10, <1>11, <1>12 DEF ProfileInv

\* The profile that a request finds again.
LEMMA ProfileAgain ==
    ASSUME ProfileInv, NEW p \in Workers, profileWorker[p].pc \in {"update", "write"}
    PROVE  LET now == CHOOSE r \in profiles : r.created = profileWorker[p].record.created
           IN  now \in profiles /\ now \in F!Profile /\ now.created = profileWorker[p].record.created
  BY DEF ProfileInv, ProfileForm, F!TypeOK

LEMMA WriteProfileStep ==
    ASSUME ProfileInv, NEW p \in Workers, F!WriteProfile(p)
    PROVE  ProfileInv'
  <1> DEFINE w == profileWorker[p]
             now == CHOOSE r \in profiles : r.created = w.record.created
             new == [now EXCEPT !.name = F!Text(w.input.name, @),
                                !.phone = F!Text(w.input.phone, @)]
  <1>1. w \in F!Requests /\ w.pc = "write"
    BY DEF ProfileInv, F!TypeOK, F!WriteProfile, F!At
  <1>2. now \in profiles /\ now \in F!Profile
    BY <1>1, ProfileAgain
  <1>3. /\ profiles' = (profiles \ {now}) \cup {new} /\ clock' = clock
        /\ profileWorker' = [profileWorker EXCEPT ![p] = F!Idle]
    BY DEF F!WriteProfile, F!Goto
  <1> HIDE DEF now
  <1>4. new \in F!Profile /\ new.created = now.created
    <2>1. w.input.name \in F!Texts \cup {None} /\ w.input.phone \in F!Texts \cup {None, ""}
      BY <1>1 DEF F!Requests
    <2>2. F!Text(w.input.name, now.name) \in F!Texts /\ F!Text(w.input.phone, now.phone) \in F!Texts
      BY <1>2, <2>1 DEF F!Text, F!Profile
    <2> QED
      BY <1>2, <2>2 DEF F!Profile
  <1> HIDE DEF new, w
  <1>5. F!TypeOK'
    BY <1>2, <1>3, <1>4, ProfileForms DEF ProfileInv, F!TypeOK
  <1>6. F!Idle.pc = "idle"
    BY DEF F!Idle
  <1>7. Creating' = Creating
    BY <1>1, <1>3, <1>6 DEF Creating, ProfileInv, F!TypeOK, w
  <1>8. \A q \in Workers \ {p} : profileWorker'[q] = profileWorker[q]
    BY <1>3 DEF ProfileInv, F!TypeOK
  <1>9. \A t : (\E r \in profiles' : r.created = t) <=> (\E r \in profiles : r.created = t)
    BY <1>2, <1>3, <1>4
  <1>10. ASSUME NEW q \in Workers
         PROVE  ProfileForm(q)'
    <2>1. CASE q = p
      BY <1>3, <1>6, <2>1 DEF ProfileForm, ProfileInv, F!TypeOK
    <2>2. CASE q # p
      <3>1. p \notin Creating
        BY <1>1 DEF Creating, w
      <3>2. \A o \in Creating' : o \in Creating /\ profileWorker'[o] = profileWorker[o]
        BY <1>7, <1>8, <3>1 DEF Creating
      <3>3. profileWorker'[q] = profileWorker[q] /\ ProfileForm(q)
        BY <1>8, <2>2 DEF ProfileInv
      <3>4. (\A r \in profiles : r.created # profileWorker[q].record.created)
              => \A r \in profiles' : r.created # profileWorker[q].record.created
        BY <1>9
      <3>5. (\E r \in profiles : r.created = profileWorker[q].record.created)
              => \E r \in profiles' : r.created = profileWorker[q].record.created
        BY <1>9
      <3> QED
        BY <1>3, <3>2, <3>3, <3>4, <3>5 DEF ProfileForm
    <2> QED
      BY <2>1, <2>2
  <1>11. {r.created : r \in profiles'} = {r.created : r \in profiles}
    BY <1>9
  <1>12. FewTimes'
    BY <1>7, <1>11 DEF FewTimes, ProfileInv
  <1>13. \A r \in profiles' : r.created <= clock'
    BY <1>2, <1>3, <1>4 DEF ProfileInv
  <1>14. \A r, s \in profiles' : r.created = s.created => r = s
    BY <1>2, <1>3, <1>4 DEF ProfileInv
  <1> QED
    BY <1>5, <1>10, <1>12, <1>13, <1>14 DEF ProfileInv

LEMMA ProfileStep == ProfileInv /\ [F!Next]_profileVars => ProfileInv'
  <1> SUFFICES ASSUME ProfileInv, [F!Next]_profileVars
               PROVE  ProfileInv'
    OBVIOUS
  <1>1. ASSUME NEW p \in Workers, NEW input \in F!Updates, F!ResolveEntity(p, input)
        PROVE  ProfileInv'
    <2> DEFINE w == [F!Idle EXCEPT !.input = input]
    <2>1. w \in F!Requests
      BY ProfileForms
    <2>2. CASE profiles = {}
      BY <1>1, <2>1, <2>2, BeginInsertStep DEF F!ResolveEntity
    <2>3. CASE profiles # {}
      <3> DEFINE x == F!WithRecord(w, F!Oldest)
      <3>1. F!Oldest \in profiles /\ F!Oldest \in F!Profile
        BY <2>3, OldestIsThere DEF ProfileInv, F!TypeOK
      <3>2. x \in F!Requests /\ x.pc \in {"idle", "update"} /\ (x.pc = "update" => x.record = F!Oldest)
        <4>1. CASE w.input = F!NoUpdate
          BY <4>1, ProfileForms DEF F!WithRecord, F!Idle
        <4>2. CASE w.input # F!NoUpdate
          <5>1. x = [w EXCEPT !.pc = "update", !.record = F!Oldest]
            BY <4>2 DEF F!WithRecord
          <5>2. x \in F!Requests
            BY <2>1, <3>1, <5>1, ProfileForms
          <5> HIDE DEF w
          <5>3. x.pc = "update" /\ x.record = F!Oldest
            BY <2>1, <5>1 DEF F!Requests
          <5> QED
            BY <5>2, <5>3
        <4> QED
          BY <4>1, <4>2
      <3>3. /\ profileWorker' = [profileWorker EXCEPT ![p] = x]
            /\ UNCHANGED <<clock, profiles>>
        BY <1>1, <2>3 DEF F!ResolveEntity, F!Goto
      <3> HIDE DEF x
      <3>4. ProfileForm(p)'
        BY <3>1, <3>2, <3>3 DEF ProfileForm, ProfileInv, F!TypeOK
      <3> QED
        BY <3>2, <3>3, <3>4, ProfileMoves
    <2> QED
      BY <2>2, <2>3
  <1>2. ASSUME NEW p \in Workers, F!UpdateProfile(p)
        PROVE  ProfileInv'
    <2> DEFINE w == profileWorker[p]
               now == CHOOSE r \in profiles : r.created = w.record.created
               put == [name |-> F!Text(w.input.name, w.record.name),
                       phone |-> IF w.input.phone = "" THEN now.phone
                                 ELSE F!Text(w.input.phone, w.record.phone)]
               name == IF put.name = now.name THEN None ELSE put.name
               phone == IF put.phone = now.phone THEN None ELSE put.phone
               x == [w EXCEPT !.pc = "write", !.input = [name |-> name, phone |-> phone]]
    <2>1. w \in F!Requests /\ w.pc = "update" /\ w.record \in F!Profile
      BY <1>2 DEF ProfileInv, ProfileForm, F!TypeOK, F!UpdateProfile, F!At
    <2>2. now \in F!Profile
      BY <2>1, ProfileAgain
    <2>3. /\ profileWorker' = [profileWorker EXCEPT ![p] = x]
          /\ UNCHANGED <<clock, profiles>>
      BY <1>2 DEF F!UpdateProfile, F!Goto
    <2> HIDE DEF now
    <2>4. name \in F!Texts \cup {None} /\ phone \in F!Texts \cup {None}
      <3>1. w.input.name \in F!Texts \cup {None} /\ w.input.phone \in F!Texts \cup {None, ""}
        BY <2>1 DEF F!Requests
      <3>2. now.phone \in F!Texts /\ w.record.name \in F!Texts /\ w.record.phone \in F!Texts
        BY <2>1, <2>2 DEF F!Profile
      <3>3. put.name \in F!Texts /\ put.phone \in F!Texts
        BY <3>1, <3>2 DEF F!Text
      <3> QED
        BY <3>3
    <2> HIDE DEF name, phone
    <2>5. x \in F!Requests
      BY <2>1, <2>4, ProfileForms
    <2>6. x.pc = "write" /\ x.record = w.record
      BY <2>1 DEF F!Requests
    <2> HIDE DEF x
    <2>7. ProfileForm(p)'
      BY <2>1, <2>3, <2>6 DEF ProfileForm, ProfileInv, F!TypeOK
    <2> QED
      BY <2>3, <2>5, <2>6, <2>7, ProfileMoves
  <1>3. ASSUME NEW p \in Workers, F!Fail(p)
        PROVE  ProfileInv'
    <2>1. /\ profileWorker' = [profileWorker EXCEPT ![p] = F!Idle]
          /\ UNCHANGED <<clock, profiles>> /\ F!Idle.pc = "idle"
      BY <1>3 DEF F!Fail, F!Goto, F!Idle
    <2>2. ProfileForm(p)'
      BY <2>1 DEF ProfileForm, ProfileInv, F!TypeOK
    <2> QED
      BY <2>1, <2>2, ProfileForms, ProfileMoves
  <1>4. CASE UNCHANGED profileVars
    BY <1>4 DEF profileVars, ProfileInv, ProfileForm, FewTimes, Creating, F!TypeOK
  <1> QED
    BY <1>1, <1>2, <1>3, <1>4, InsertProfileStep, WriteProfileStep DEF F!Next

\* CompanyProfile counts as this module does.
LEMMA ProfileCardinality == ASSUME NEW T PROVE F!Cardinality(T) = Cardinality(T)
  BY DEF F!Cardinality, Cardinality

-----------------------------------------------------------------------------
(* Payments *)

\* What items plan and pay is natural.
LEMMA LedgerSums ==
    ASSUME NEW its \in SUBSET P!Items, IsFiniteSet(its)
    PROVE  P!Planned(its) \in Nat /\ P!Paid(its) \in Nat
  <1> DEFINE plannedOf == [i \in its |-> i.planned]
             paidOf == [i \in its |-> i.paid]
             Plans(g) == g = [s \in SUBSET its |-> IF s = {} THEN 0
                                ELSE (CHOOSE x \in s : TRUE).planned
                                       + g[s \ {CHOOSE x \in s : TRUE}]]
             Pays(g) == g = [s \in SUBSET its |-> IF s = {} THEN 0
                                ELSE (CHOOSE x \in s : TRUE).paid
                                       + g[s \ {CHOOSE x \in s : TRUE}]]
  <1>1. \A x \in its : plannedOf[x] \in Nat /\ paidOf[x] \in Nat
    BY DEF P!Items
  <1>2. \A s \in SUBSET its : s # {} => /\ plannedOf[One(s)] = One(s).planned
                                         /\ paidOf[One(s)] = One(s).paid
    BY OneOf
  <1>3. ASSUME NEW g
        PROVE  Plans(g) <=> AreSums(g, plannedOf, its)
    <2> HIDE DEF plannedOf
    <2>1. [s \in SUBSET its |-> IF s = {} THEN 0 ELSE One(s).planned + g[s \ {One(s)}]]
            = [s \in SUBSET its |-> IF s = {} THEN 0 ELSE plannedOf[One(s)] + g[s \ {One(s)}]]
      BY <1>2
    <2> QED
      BY <2>1 DEF AreSums, One
  <1>4. ASSUME NEW g
        PROVE  Pays(g) <=> AreSums(g, paidOf, its)
    <2> HIDE DEF paidOf
    <2>1. [s \in SUBSET its |-> IF s = {} THEN 0 ELSE One(s).paid + g[s \ {One(s)}]]
            = [s \in SUBSET its |-> IF s = {} THEN 0 ELSE paidOf[One(s)] + g[s \ {One(s)}]]
      BY <1>2
    <2> QED
      BY <2>1 DEF AreSums, One
  <1>5. P!Planned(its) = (CHOOSE g : Plans(g))[its] /\ P!Paid(its) = (CHOOSE g : Pays(g))[its]
    BY DEF P!Planned, P!Paid, P!MapThenSumSet, P!MapThenFoldSet
  <1> HIDE DEF Plans, Pays, plannedOf, paidOf
  <1>6. Plans(CHOOSE g : Plans(g))
    <2>1. \E g : Plans(g)
      BY <1>3, SumsExist
    <2> QED
      BY <2>1
  <1>7. Pays(CHOOSE g : Pays(g))
    <2>1. \E g : Pays(g)
      BY <1>4, SumsExist
    <2> QED
      BY <2>1
  <1> DEFINE plans == CHOOSE g : Plans(g)
             pays == CHOOSE g : Pays(g)
  <1>8. AreSums(plans, plannedOf, its) /\ AreSums(pays, paidOf, its)
    BY <1>3, <1>4, <1>6, <1>7
  <1> HIDE DEF plans, pays
  <1>9. plans[its] \in Nat /\ pays[its] \in Nat
    BY <1>1, <1>8, SumsAreNatural
  <1> QED
    BY <1>5, <1>9 DEF plans, pays

LEMMA NothingPlanned == P!Planned({}) = 0
  BY DEF P!Planned, P!MapThenSumSet, P!MapThenFoldSet

\* The row that a request is to write, as it is known by now.
Meant(p) ==
    LET w == ledgerWorker[p]
    IN  IF w.pc = "write"
          THEN [status |-> P!Given(w.save.status, payment.status),
                planned |-> P!Given(w.save.planned, payment.planned),
                paid |-> P!Given(w.save.paid, payment.paid)]
          ELSE w.save

\* Status and amounts of a row agree.
Agrees(row) ==
    /\ row.status \in {"PENDING", "CANCELED"} => row.paid = 0
    /\ row.status = "PARTIAL" => row.paid \in 1 .. row.planned - 1

\* What a request carries: a new payment that agrees, or for one that is there,
\* unless somebody has overtaken it, a row that agrees, which is the sum of the
\* items that are to be all there are, or what may become of the payment as it is.
LedgerForm(p) ==
    LET w == ledgerWorker[p]
    IN  /\ w.pc = "create" =>
          w.save \in P!Rows /\ Agrees(w.save) /\ w.save.planned = P!Planned(w.add)
        /\ w.pc \notin {"idle", "create"} =>
          /\ payment \in P!Rows
          /\ Meant(p) \in P!Rows
          /\ IsFiniteSet(w.add)
          /\ w.pc \in {"delete", "insert"} => w.add # {}
          /\ w.fresh =>
               /\ Agrees(Meant(p))
               /\ w.add # {} => /\ Meant(p).planned = P!Planned(w.add)
                                /\ w.pc # "delete" => w.drop = items
               /\ w.add = {} => /\ Meant(p).planned = payment.planned
                                /\ w.drop = {}
                                /\ P!MayMove(payment.status, Meant(p).status)

LedgerInv ==
    /\ P!TypeOK
    /\ \A p \in Workers : LedgerForm(p)
    /\ stale \/ (Agrees(payment) /\ payment.planned = P!Planned(items))

LEMMA LedgerForms ==
    /\ P!Idle \in P!WorkerStates
    /\ \A w \in P!WorkerStates :
         /\ [w EXCEPT !.pc = "reload"] \in P!WorkerStates
         /\ \A drop \in SUBSET P!Items : [w EXCEPT !.pc = "insert", !.drop = drop] \in P!WorkerStates
         /\ \A drop : [w EXCEPT !.fresh = FALSE, !.drop = @ \ drop] \in P!WorkerStates
         /\ \A save \in P!Puts : [w EXCEPT !.pc = "write", !.save = save] \in P!WorkerStates
    /\ P!Rows \subseteq P!Puts
  <1>1. P!Idle \in P!WorkerStates
    BY DEF P!Idle, P!WorkerStates, P!Puts
  <1>2. ASSUME NEW w \in P!WorkerStates
        PROVE  [w EXCEPT !.pc = "reload"] \in P!WorkerStates
    BY DEF P!WorkerStates
  <1>3. ASSUME NEW w \in P!WorkerStates, NEW drop \in SUBSET P!Items
        PROVE  [w EXCEPT !.pc = "insert", !.drop = drop] \in P!WorkerStates
    BY DEF P!WorkerStates
  <1>4. ASSUME NEW w \in P!WorkerStates, NEW drop
        PROVE  [w EXCEPT !.fresh = FALSE, !.drop = @ \ drop] \in P!WorkerStates
    <2>1. w.drop \ drop \in SUBSET P!Items
      BY DEF P!WorkerStates
    <2> QED
      BY <2>1 DEF P!WorkerStates
  <1>5. ASSUME NEW w \in P!WorkerStates, NEW save \in P!Puts
        PROVE  [w EXCEPT !.pc = "write", !.save = save] \in P!WorkerStates
    BY DEF P!WorkerStates
  <1>6. P!Rows \subseteq P!Puts
    BY DEF P!Rows, P!Puts
  <1> QED
    BY <1>1, <1>2, <1>3, <1>4, <1>5, <1>6

\* The items that are stored of a list, and their aggregate.
LEMMA StoredItems ==
    ASSUME NEW p \in Workers, NEW batch \in Batches, P!EntryRules(P!Stored(p, batch))
    PROVE  LET new == P!Stored(p, batch)
           IN  /\ new \in SUBSET P!Items /\ IsFiniteSet(new) /\ new # {}
               /\ P!Aggregate(new) \in P!Rows
               /\ P!Aggregate(new).planned = P!Planned(new)
               /\ Agrees(P!Aggregate(new))
  <1> DEFINE new == P!Stored(p, batch)
             kept == {j \in DOMAIN batch : batch[j].planned > 0}
  <1>1. batch \in Seq(P!Entries)
    BY LedgerAssumption
  <1>2. kept \subseteq 1 .. Len(batch) /\ Len(batch) \in Nat
    BY <1>1
  <1>3. new \in SUBSET P!Items /\ IsFiniteSet(new)
    <2>1. \A k \in kept : batch[k] \in P!Entries /\ k \in Nat
      BY <1>1, <1>2
    <2>2. \A k \in kept : P!Row(p, k, batch[k]) \in P!Items
      BY <2>1 DEF P!Row, P!Items, P!Entries
    <2>3. IsFiniteSet(1 .. Len(batch))
      BY <1>2, FS_Interval
    <2>4. IsFiniteSet(kept)
      BY <1>2, <2>3, FS_Subset
    <2> HIDE DEF kept
    <2> DEFINE image == {P!Row(p, k, batch[k]) : k \in kept}
    <2>5. [k \in kept |-> P!Row(p, k, batch[k])] \in Surjection(kept, image)
      BY DEF Surjection
    <2>6. IsFiniteSet(image)
      BY <2>4, <2>5, FS_Surjection
    <2> QED
      BY <2>2, <2>6 DEF P!Stored, kept
  <1>4. new # {}
    BY DEF P!EntryRules
  <1> HIDE DEF new
  <1>5. P!Planned(new) \in Nat /\ P!Paid(new) \in Nat
    BY <1>3, LedgerSums
  <1>6. /\ P!AggregateStatus(new) \in P!PaymentStatus
        /\ P!AggregateStatus(new) \in {"PENDING", "CANCELED"} => P!Paid(new) = 0
        /\ P!AggregateStatus(new) = "PARTIAL" => P!Paid(new) \in 1 .. P!Planned(new) - 1
    BY <1>5 DEF P!AggregateStatus, P!PaymentStatus
  <1>7. P!Aggregate(new).planned = P!Planned(new)
    BY DEF P!Aggregate
  <1>8. P!Aggregate(new) \in P!Rows
    BY <1>5, <1>6 DEF P!Aggregate, P!Rows
  <1>9. Agrees(P!Aggregate(new))
    BY <1>6 DEF P!Aggregate, Agrees
  <1> QED
    BY <1>3, <1>4, <1>7, <1>8, <1>9 DEF new

LEMMA LedgerInit == P!Init => LedgerInv
  <1> SUFFICES ASSUME P!Init
               PROVE  LedgerInv
    OBVIOUS
  <1>1. P!TypeOK
    BY LedgerForms DEF P!Init, P!TypeOK
  <1>2. ASSUME NEW p \in Workers
        PROVE  LedgerForm(p)
    BY DEF P!Init, P!Idle, LedgerForm
  <1>3. Agrees(payment) /\ payment.planned = P!Planned(items)
    BY NothingPlanned, NoneIsNone DEF P!Init, P!NoPayment, Agrees, P!PaymentStatus
  <1> QED
    BY <1>1, <1>2, <1>3 DEF LedgerInv

\* Without a payment nobody is at work on it.
LEMMA NobodyYet ==
    ASSUME LedgerInv, payment = P!NoPayment
    PROVE  \A p \in Workers : ledgerWorker[p].pc \in {"idle", "create"}
  <1>1. payment \notin P!Rows
    BY NoneIsNone DEF P!NoPayment, P!Rows
  <1> QED
    BY <1>1 DEF LedgerInv, LedgerForm

\* A request goes on with w, and payment and items stay as they are.
LEMMA LedgerMoves ==
    ASSUME LedgerInv, NEW p \in Workers, NEW w \in P!WorkerStates,
           ledgerWorker' = [ledgerWorker EXCEPT ![p] = w],
           UNCHANGED <<payment, twins, items, stale>>,
           LedgerForm(p)'
    PROVE  LedgerInv'
  <1>1. P!TypeOK'
    BY DEF LedgerInv, P!TypeOK
  <1>2. ASSUME NEW q \in Workers, q # p
        PROVE  LedgerForm(q)'
    <2>1. ledgerWorker'[q] = ledgerWorker[q]
      BY <1>2 DEF LedgerInv, P!TypeOK
    <2>2. Meant(q)' = Meant(q)
      BY <2>1 DEF Meant
    <2>3. LedgerForm(q)
      BY DEF LedgerInv
    <2> QED
      BY <2>1, <2>2, <2>3 DEF LedgerForm
  <1>3. (stale \/ (Agrees(payment) /\ payment.planned = P!Planned(items)))'
    BY DEF LedgerInv
  <1> QED
    BY <1>1, <1>2, <1>3 DEF LedgerInv

\* What a request writes is what it meant to.
LEMMA LedgerWrite ==
    ASSUME LedgerInv, NEW p \in Workers, P!WritePayment(p)
    PROVE  LedgerInv'
  <1> DEFINE w == ledgerWorker[p]
  <1>1. /\ w.pc = "write" /\ payment' = Meant(p)
        /\ items' = (items \ w.drop) \cup w.add
        /\ ledgerWorker' = [q \in Workers |->
               IF q = p THEN P!Idle
               ELSE IF ledgerWorker[q].pc = "idle" THEN ledgerWorker[q]
               ELSE [ledgerWorker[q] EXCEPT !.fresh = FALSE, !.drop = @ \ w.drop]]
        /\ stale' = (stale \/ ~ w.fresh) /\ twins' = twins
    BY DEF P!WritePayment, P!Wrote, P!At, Meant
  <1>2. LedgerForm(p) /\ P!TypeOK /\ w \in P!WorkerStates
    BY DEF LedgerInv, P!TypeOK
  <1>3. payment \in P!Rows /\ payment' \in P!Rows
    BY <1>1, <1>2 DEF LedgerForm
  <1>4. P!TypeOK'
    <2>1. items' \in SUBSET P!Items
      BY <1>1, <1>2 DEF P!TypeOK, P!WorkerStates
    <2>2. ledgerWorker' \in [Workers -> P!WorkerStates]
      BY <1>1, <1>2, LedgerForms DEF P!TypeOK
    <2>3. stale' \in BOOLEAN
      BY <1>1
    <2> QED
      BY <1>1, <1>2, <1>3, <2>1, <2>2, <2>3 DEF P!TypeOK
  <1>5. ASSUME NEW q \in Workers
        PROVE  LedgerForm(q)'
    <2>1. CASE q = p \/ ledgerWorker[q].pc = "idle"
      <3>1. ledgerWorker'[q].pc = "idle"
        BY <1>1, <2>1 DEF P!Idle
      <3> QED
        BY <3>1 DEF LedgerForm
    <2>2. CASE q # p /\ ledgerWorker[q].pc = "create"
      <3> DEFINE v == ledgerWorker[q]
      <3>1. v \in P!WorkerStates /\ LedgerForm(q)
        BY DEF LedgerInv, P!TypeOK
      <3>2. /\ ledgerWorker'[q].pc = v.pc /\ ledgerWorker'[q].save = v.save
            /\ ledgerWorker'[q].add = v.add
        BY <1>1, <2>2, <3>1 DEF P!WorkerStates
      <3> QED
        BY <2>2, <3>1, <3>2 DEF LedgerForm, Agrees
    <2>3. CASE q # p /\ ledgerWorker[q].pc \notin {"idle", "create"}
      <3> DEFINE v == ledgerWorker[q]
      <3>1. v \in P!WorkerStates /\ LedgerForm(q)
        BY DEF LedgerInv, P!TypeOK
      <3>2. /\ ledgerWorker'[q].pc = v.pc /\ ledgerWorker'[q].save = v.save
            /\ ledgerWorker'[q].add = v.add /\ ledgerWorker'[q].fresh = FALSE
        BY <1>1, <2>3, <3>1 DEF P!WorkerStates
      <3>3. Meant(q)' \in P!Rows
        <4>1. CASE v.pc = "write"
          <5>1. v.save \in P!Puts
            BY <3>1 DEF P!WorkerStates
          <5>2. P!Given(v.save.status, payment'.status) \in P!PaymentStatus
            BY <1>3, <5>1 DEF P!Given, P!Rows, P!Puts
          <5>3. /\ P!Given(v.save.planned, payment'.planned) \in Nat
                /\ P!Given(v.save.paid, payment'.paid) \in Nat
            BY <1>3, <5>1 DEF P!Given, P!Rows, P!Puts
          <5> QED
            BY <3>2, <4>1, <5>2, <5>3 DEF Meant, P!Rows
        <4>2. CASE v.pc # "write"
          BY <2>3, <3>1, <3>2, <4>2 DEF Meant, LedgerForm
        <4> QED
          BY <4>1, <4>2
      <3> QED
        BY <1>3, <2>3, <3>1, <3>2, <3>3 DEF LedgerForm
    <2> QED
      BY <2>1, <2>2, <2>3
  <1>6. ASSUME ~ stale'
        PROVE  (Agrees(payment) /\ payment.planned = P!Planned(items))'
    <2>1. ~ stale /\ w.fresh
      BY <1>1, <1>6, <1>2 DEF P!WorkerStates
    <2>2. Agrees(payment')
      BY <1>1, <1>2, <2>1 DEF LedgerForm
    <2>3. payment'.planned = P!Planned(items')
      <3>1. CASE w.add # {}
        <4>1. items' = w.add
          BY <1>1, <1>2, <2>1, <3>1 DEF LedgerForm
        <4> QED
          BY <1>1, <1>2, <2>1, <3>1, <4>1 DEF LedgerForm
      <3>2. CASE w.add = {}
        <4>1. items' = items
          BY <1>1, <1>2, <2>1, <3>2 DEF LedgerForm
        <4>2. payment'.planned = payment.planned
          BY <1>1, <1>2, <2>1, <3>2 DEF LedgerForm
        <4> QED
          BY <2>1, <4>1, <4>2 DEF LedgerInv
      <3> QED
        BY <3>1, <3>2
    <2> QED
      BY <2>2, <2>3 DEF Agrees
  <1> QED
    BY <1>4, <1>5, <1>6 DEF LedgerInv

LEMMA LedgerStep == LedgerInv /\ [P!Next]_ledgerVars => LedgerInv'
  <1> SUFFICES ASSUME LedgerInv, [P!Next]_ledgerVars
               PROVE  LedgerInv'
    OBVIOUS
  <1>0. P!TypeOK /\ \A p \in Workers : LedgerForm(p) /\ ledgerWorker[p] \in P!WorkerStates
    BY DEF LedgerInv, P!TypeOK
  <1>1. ASSUME NEW p \in Workers, NEW batch \in Batches, P!LookUpPayment(p, batch)
        PROVE  LedgerInv'
    <2> DEFINE new == P!Stored(p, batch)
               w == [P!Idle EXCEPT !.pc = "create", !.save = P!Aggregate(new), !.add = new]
    <2>1. /\ P!EntryRules(new)
          /\ ledgerWorker' = [ledgerWorker EXCEPT ![p] = w]
          /\ UNCHANGED <<payment, twins, items, stale>>
      BY <1>1 DEF P!LookUpPayment, P!Begin, P!Goto
    <2> HIDE DEF new
    <2>2. /\ new \in SUBSET P!Items /\ P!Aggregate(new) \in P!Rows
          /\ P!Aggregate(new).planned = P!Planned(new) /\ Agrees(P!Aggregate(new))
      BY <2>1, StoredItems DEF new
    <2>3. w \in P!WorkerStates
      BY <2>2, LedgerForms DEF P!Idle, P!WorkerStates
    <2>4. /\ w.pc = "create" /\ w.save = P!Aggregate(new) /\ w.add = new
      BY DEF P!Idle
    <2> HIDE DEF w
    <2>5. ledgerWorker'[p] = w
      BY <1>0, <2>1 DEF P!TypeOK
    <2>6. LedgerForm(p)'
      BY <2>2, <2>4, <2>5 DEF LedgerForm, Agrees
    <2> QED
      BY <2>1, <2>3, <2>6, LedgerMoves
  <1>9. ASSUME NEW p \in Workers, P!InsertPayment(p)
        PROVE  LedgerInv'
    <2> DEFINE w == ledgerWorker[p]
    <2>1. /\ w.pc = "create" /\ w \in P!WorkerStates
          /\ w.save \in P!Rows /\ Agrees(w.save) /\ w.save.planned = P!Planned(w.add)
          /\ ledgerWorker' = [ledgerWorker EXCEPT ![p] = P!Idle] /\ stale' = stale
      BY <1>0, <1>9 DEF P!InsertPayment, P!At, P!Goto, LedgerForm
    <2>2. P!Idle.pc = "idle"
      BY DEF P!Idle
    <2>3. CASE payment # P!NoPayment
      <3>1. UNCHANGED <<payment, items>> /\ twins' = twins + 1
        BY <1>9, <2>3 DEF P!InsertPayment
      <3>2. P!TypeOK'
        <4>1. twins' \in Nat
          BY <1>0, <3>1 DEF P!TypeOK
        <4>2. ledgerWorker' \in [Workers -> P!WorkerStates]
          BY <1>0, <2>1, LedgerForms DEF P!TypeOK
        <4> QED
          BY <1>0, <2>1, <3>1, <4>1, <4>2 DEF P!TypeOK
      <3>3. ASSUME NEW q \in Workers
            PROVE  LedgerForm(q)'
        <4>1. ledgerWorker'[q] = IF q = p THEN P!Idle ELSE ledgerWorker[q]
          BY <1>0, <2>1 DEF P!TypeOK
        <4>2. CASE q = p
          BY <2>2, <4>1, <4>2 DEF LedgerForm
        <4>3. CASE q # p
          <5>1. Meant(q)' = Meant(q) /\ ledgerWorker'[q] = ledgerWorker[q]
            BY <3>1, <4>1, <4>3 DEF Meant
          <5> QED
            BY <1>0, <3>1, <5>1 DEF LedgerForm, Agrees, P!MayMove
        <4> QED
          BY <4>2, <4>3
      <3>4. (stale \/ (Agrees(payment) /\ payment.planned = P!Planned(items)))'
        BY <2>1, <3>1 DEF LedgerInv, Agrees
      <3> QED
        BY <3>2, <3>3, <3>4 DEF LedgerInv
    <2>4. CASE payment = P!NoPayment
      <3>1. payment' = w.save /\ items' = w.add /\ twins' = twins
        BY <1>9, <2>4 DEF P!InsertPayment
      <3>2. P!TypeOK'
        BY <1>0, <2>1, <3>1, LedgerForms DEF P!TypeOK, P!WorkerStates
      <3>3. ASSUME NEW q \in Workers
            PROVE  LedgerForm(q)'
        <4>1. ledgerWorker'[q] = IF q = p THEN P!Idle ELSE ledgerWorker[q]
          BY <1>0, <2>1 DEF P!TypeOK
        <4>2. ledgerWorker'[q].pc \in {"idle", "create"}
          BY <2>2, <2>4, <4>1, NobodyYet
        <4>3. ledgerWorker'[q].pc = "create" => ledgerWorker'[q] = ledgerWorker[q]
          BY <2>2, <4>1
        <4> QED
          BY <1>0, <4>2, <4>3 DEF LedgerForm, Agrees
      <3>4. Agrees(payment)'
        BY <2>1, <3>1 DEF Agrees
      <3>5. (payment.planned = P!Planned(items))'
        BY <2>1, <3>1
      <3> QED
        BY <3>2, <3>3, <3>4, <3>5 DEF LedgerInv
    <2> QED
      BY <2>3, <2>4
  <1>2. ASSUME NEW p \in Workers, NEW batch \in Batches, P!UpdateItems(p, batch)
        PROVE  LedgerInv'
    <2> DEFINE new == P!Stored(p, batch)
               w == [P!Idle EXCEPT !.pc = "delete", !.save = P!Aggregate(new), !.add = new]
    <2>1. /\ payment # P!NoPayment /\ P!EntryRules(new)
          /\ ledgerWorker' = [ledgerWorker EXCEPT ![p] = w]
          /\ UNCHANGED <<payment, twins, items, stale>>
      BY <1>2 DEF P!UpdateItems, P!Begin, P!Goto
    <2> HIDE DEF new
    <2>2. /\ new \in SUBSET P!Items /\ IsFiniteSet(new) /\ new # {}
          /\ P!Aggregate(new) \in P!Rows
          /\ P!Aggregate(new).planned = P!Planned(new) /\ Agrees(P!Aggregate(new))
      BY <2>1, StoredItems DEF new
    <2>3. w \in P!WorkerStates
      BY <2>2, LedgerForms DEF P!Idle, P!WorkerStates
    <2>4. /\ w.pc = "delete" /\ w.save = P!Aggregate(new) /\ w.add = new
      BY DEF P!Idle
    <2> HIDE DEF w
    <2>5. ledgerWorker'[p] = w
      BY <1>0, <2>1 DEF P!TypeOK
    <2>6. payment \in P!Rows
      BY <1>0, <2>1 DEF P!TypeOK
    <2>7. Meant(p)' = P!Aggregate(new)
      BY <2>4, <2>5 DEF Meant
    <2>8. LedgerForm(p)'
      BY <2>1, <2>2, <2>4, <2>5, <2>6, <2>7 DEF LedgerForm, Agrees
    <2> QED
      BY <2>1, <2>3, <2>8, LedgerMoves
  <1>3. ASSUME NEW p \in Workers, NEW u \in Edits, P!UpdatePayment(p, u)
        PROVE  LedgerInv'
    <2> DEFINE status == P!Given(u.status, payment.status)
               paid == P!Given(u.paid, payment.paid)
               row == [status |-> status, paid |-> paid, planned |-> payment.planned]
               w == [P!Idle EXCEPT !.pc = "reload", !.save = row]
    <2>1. /\ payment # P!NoPayment /\ P!MayMove(payment.status, u.status)
          /\ P!PaidRules(status, paid, u)
          /\ ledgerWorker' = [ledgerWorker EXCEPT ![p] = w]
          /\ UNCHANGED <<payment, twins, items, stale>>
      BY <1>3 DEF P!UpdatePayment, P!Begin, P!Goto
    <2>2. payment \in P!Rows /\ u \in P!Changes
      BY <1>0, <2>1, LedgerAssumption DEF P!TypeOK
    <2>3. status \in P!PaymentStatus
      BY <2>2, NoneIsNone DEF P!Given, P!Changes, P!Rows
    <2>4. paid \in Nat
      <3>1. payment.planned \in Nat /\ payment.paid \in Nat
        BY <2>2 DEF P!Rows
      <3> QED
        BY <2>1, <3>1 DEF P!PaidRules, P!Given
    <2>5. P!MayMove(payment.status, status)
      BY <2>1 DEF P!MayMove, P!Given
    <2>6. Agrees(row)
      BY <2>1 DEF P!PaidRules, Agrees
    <2> HIDE DEF status, paid
    <2>7. row \in P!Rows /\ row.planned = payment.planned /\ row.status = status
      BY <2>2, <2>3, <2>4 DEF P!Rows
    <2> HIDE DEF row
    <2>8. w \in P!WorkerStates
      BY <2>7, LedgerForms DEF P!Idle, P!WorkerStates
    <2>9. w.pc = "reload" /\ w.save = row /\ w.add = {} /\ w.drop = {}
      BY DEF P!Idle
    <2> HIDE DEF w
    <2>10. ledgerWorker'[p] = w
      BY <1>0, <2>1 DEF P!TypeOK
    <2>11. Meant(p)' = row
      BY <2>9, <2>10 DEF Meant
    <2>12. IsFiniteSet({})
      BY FS_EmptySet
    <2>13. LedgerForm(p)'
      BY <2>1, <2>2, <2>5, <2>6, <2>7, <2>9, <2>10, <2>11, <2>12
      DEF LedgerForm, Agrees, P!MayMove
    <2> QED
      BY <2>1, <2>8, <2>13, LedgerMoves
  <1>4. ASSUME NEW p \in Workers, P!DeleteItems(p)
        PROVE  LedgerInv'
    <2> DEFINE v == ledgerWorker[p]
               w == [v EXCEPT !.pc = "insert", !.drop = items]
    <2>1. /\ v.pc = "delete" /\ ledgerWorker' = [ledgerWorker EXCEPT ![p] = w]
          /\ UNCHANGED <<payment, twins, items, stale>>
      BY <1>4 DEF P!DeleteItems, P!At, P!Goto
    <2>2. w \in P!WorkerStates
      BY <1>0, LedgerForms DEF P!TypeOK
    <2>3. /\ w.pc = "insert" /\ w.drop = items
          /\ w.save = v.save /\ w.add = v.add /\ w.fresh = v.fresh
      BY <1>0 DEF P!WorkerStates
    <2> HIDE DEF w
    <2>4. ledgerWorker'[p] = w
      BY <1>0, <2>1 DEF P!TypeOK
    <2>5. Meant(p)' = Meant(p)
      BY <2>1, <2>3, <2>4 DEF Meant
    <2>6. LedgerForm(p)'
      BY <1>0, <2>1, <2>3, <2>4, <2>5 DEF LedgerForm, Agrees, P!MayMove
    <2> QED
      BY <2>1, <2>2, <2>6, LedgerMoves
  <1>5. ASSUME NEW p \in Workers, P!InsertItems(p)
        PROVE  LedgerInv'
    <2> DEFINE v == ledgerWorker[p]
               w == [v EXCEPT !.pc = "reload"]
    <2>1. /\ v.pc = "insert" /\ ledgerWorker' = [ledgerWorker EXCEPT ![p] = w]
          /\ UNCHANGED <<payment, twins, items, stale>>
      BY <1>5 DEF P!InsertItems, P!At, P!Goto
    <2>2. w \in P!WorkerStates
      BY <1>0, LedgerForms
    <2>3. /\ w.pc = "reload" /\ w.drop = v.drop
          /\ w.save = v.save /\ w.add = v.add /\ w.fresh = v.fresh
      BY <1>0 DEF P!WorkerStates
    <2> HIDE DEF w
    <2>4. ledgerWorker'[p] = w
      BY <1>0, <2>1 DEF P!TypeOK
    <2>5. Meant(p)' = Meant(p)
      BY <2>1, <2>3, <2>4 DEF Meant
    <2>6. LedgerForm(p)'
      BY <1>0, <2>1, <2>3, <2>4, <2>5 DEF LedgerForm, Agrees, P!MayMove
    <2> QED
      BY <2>1, <2>2, <2>6, LedgerMoves
  <1>6. ASSUME NEW p \in Workers, P!ReloadPayment(p)
        PROVE  LedgerInv'
    <2> DEFINE v == ledgerWorker[p]
               save == [status |-> P!Differing(v.save.status, payment.status),
                        planned |-> P!Differing(v.save.planned, payment.planned),
                        paid |-> P!Differing(v.save.paid, payment.paid)]
               w == [v EXCEPT !.pc = "write", !.save = save]
    <2>1. /\ v.pc = "reload" /\ ledgerWorker' = [ledgerWorker EXCEPT ![p] = w]
          /\ UNCHANGED <<payment, twins, items, stale>>
      BY <1>6 DEF P!ReloadPayment, P!At, P!Goto
    <2>2. v.save \in P!Rows /\ payment \in P!Rows
      BY <1>0, <2>1 DEF LedgerForm, Meant
    <2>3. save \in P!Puts
      BY <2>2 DEF P!Differing, P!Rows, P!Puts
    <2>4. [status |-> P!Given(save.status, payment.status),
           planned |-> P!Given(save.planned, payment.planned),
           paid |-> P!Given(save.paid, payment.paid)] = v.save
      <3>1. v.save = [status |-> v.save.status, planned |-> v.save.planned,
                      paid |-> v.save.paid]
        BY <2>2 DEF P!Rows
      <3>2. /\ P!Given(save.status, payment.status) = v.save.status
            /\ P!Given(save.planned, payment.planned) = v.save.planned
            /\ P!Given(save.paid, payment.paid) = v.save.paid
        <4>1. \A x, y : x # None => P!Given(P!Differing(x, y), y) = x
          BY DEF P!Given, P!Differing
        <4>2. v.save.status # None /\ v.save.planned # None /\ v.save.paid # None
          <5>1. /\ v.save.planned \in Int /\ v.save.paid \in Int
                /\ v.save.status \in P!PaymentStatus
            BY <2>2 DEF P!Rows
          <5> QED
            BY <5>1, NoneIsNone, Zenon
        <4> QED
          BY <4>1, <4>2
      <3> QED
        BY <3>1, <3>2
    <2> HIDE DEF save
    <2>5. w \in P!WorkerStates
      BY <1>0, <2>3, LedgerForms
    <2>6. /\ w.pc = "write" /\ w.drop = v.drop
          /\ w.save = save /\ w.add = v.add /\ w.fresh = v.fresh
      BY <1>0 DEF P!WorkerStates
    <2> HIDE DEF w
    <2>7. ledgerWorker'[p] = w
      BY <1>0, <2>1 DEF P!TypeOK
    <2>8. Meant(p)' = Meant(p)
      BY <2>1, <2>4, <2>6, <2>7 DEF Meant
    <2>9. LedgerForm(p)'
      BY <1>0, <2>1, <2>6, <2>7, <2>8 DEF LedgerForm, Agrees, P!MayMove
    <2> QED
      BY <2>1, <2>5, <2>9, LedgerMoves
  <1>7. ASSUME NEW p \in Workers, P!Fail(p)
        PROVE  LedgerInv'
    <2>1. /\ ledgerWorker' = [ledgerWorker EXCEPT ![p] = P!Idle]
          /\ UNCHANGED <<payment, twins, items, stale>>
      BY <1>7 DEF P!Fail, P!Goto
    <2>2. LedgerForm(p)'
      BY <1>0, <2>1 DEF LedgerForm, P!Idle, P!TypeOK
    <2> QED
      BY <2>1, <2>2, LedgerForms, LedgerMoves
  <1>8. CASE UNCHANGED ledgerVars
    <2>1. P!TypeOK'
      BY <1>0, <1>8 DEF P!TypeOK, ledgerVars
    <2>2. \A p \in Workers : Meant(p)' = Meant(p)
      BY <1>8 DEF Meant, ledgerVars
    <2>3. \A p \in Workers : LedgerForm(p)'
      BY <1>0, <1>8, <2>2 DEF LedgerForm, Agrees, P!MayMove, ledgerVars
    <2>4. (stale \/ (Agrees(payment) /\ payment.planned = P!Planned(items)))'
      BY <1>8 DEF LedgerInv, ledgerVars
    <2> QED
      BY <2>1, <2>3, <2>4 DEF LedgerInv
  <1> QED
    BY <1>1, <1>2, <1>3, <1>4, <1>5, <1>6, <1>7, <1>8, <1>9, LedgerWrite
    DEF P!Next

\* Status and amounts of a payment agree with each other and with its items,
\* unless a request has saved over a write it had not seen.
THEOREM AmountsAgree == Spec => []LedgerAgrees
  <1>1. Init => LedgerInv
    BY LedgerInit DEF Init
  <1>2. LedgerInv /\ [Next]_vars => LedgerInv'
    BY LedgerStep, PartSteps
  <1>3. LedgerInv => LedgerAgrees
    BY DEF LedgerInv, LedgerAgrees, P!LedgerAgrees, Agrees
  <1> QED
    BY <1>1, <1>2, <1>3, PTL DEF Spec

\* What one step does to the status of a payment.
LEMMA StatusStep ==
    ASSUME LedgerInv, [P!Next]_ledgerVars, payment # P!NoPayment,
           payment'.status # payment.status
    PROVE  \/ payment'.status \in P!AllowedTransitions[payment.status]
           \/ \E p \in Workers : P!At(p, "write") /\ ledgerWorker[p].add # {}
           \/ stale'
  <1>1. PICK p \in Workers : P!WritePayment(p)
    BY DEF P!Next, P!LookUpPayment, P!InsertPayment, P!UpdateItems, P!UpdatePayment,
        P!DeleteItems, P!InsertItems, P!ReloadPayment, P!Fail, ledgerVars
  <1>2. /\ P!At(p, "write") /\ payment' = Meant(p)
        /\ stale' = (stale \/ ~ ledgerWorker[p].fresh)
    BY <1>1 DEF P!WritePayment, P!Wrote, P!At, Meant
  <1>3. ledgerWorker[p].fresh /\ ledgerWorker[p].add = {} =>
          P!MayMove(payment.status, payment'.status) /\ payment'.status # None
    BY <1>2, NoneIsNone DEF LedgerInv, LedgerForm, P!At, P!Rows
  <1>4. ledgerWorker[p].fresh \in BOOLEAN
    BY DEF LedgerInv, P!TypeOK, P!WorkerStates
  <1> QED
    BY <1>2, <1>3, <1>4 DEF P!MayMove

\* A payment keeps to the allowed transitions, unless it is given new items or
\* a request saves over a write it had not seen.
THEOREM PaymentsMoveOn == Spec => TransitionsHold
  <1>1. Init => LedgerInv
    BY LedgerInit DEF Init
  <1>2. LedgerInv /\ [Next]_vars => LedgerInv'
    BY LedgerStep, PartSteps
  <1>3. LedgerInv /\ [Next]_vars =>
          [payment # P!NoPayment /\ payment'.status # payment.status =>
             \/ payment'.status \in P!AllowedTransitions[payment.status]
             \/ \E p \in Workers : P!At(p, "write") /\ ledgerWorker[p].add # {}
             \/ stale']_ledgerVars
    BY StatusStep, PartSteps
  <1> QED
    BY <1>1, <1>2, <1>3, PTL DEF Spec, TransitionsHold, P!TransitionsHold, P!vars, ledgerVars

\* Those who are about to insert a payment.
Creators == {p \in Workers : ledgerWorker[p].pc = "create"}

\* Nobody comes to create a payment that is there: all who ever insert have
\* looked for it before, each in a request of its own.
LedgerCount ==
    IF payment = P!NoPayment THEN twins = 0
    ELSE 1 + twins + Cardinality(Creators) <= Cardinality(Workers)

LEMMA CreatorsFinite ==
    ASSUME NEW S \in SUBSET Workers
    PROVE  /\ IsFiniteSet(S)
           /\ Cardinality(S) \in Nat /\ Cardinality(Workers) \in Nat
           /\ Cardinality(S) <= Cardinality(Workers)
  BY FS_Subset, FS_CardinalityType, SetsAssumption

LEMMA LedgerCountInit == P!Init => LedgerCount
  BY DEF P!Init, LedgerCount

\* Steps other than those of a creation leave fewer creators, and the payment.
LEMMA LedgerCountKept ==
    ASSUME LedgerInv, LedgerCount, twins' = twins, Creators' \subseteq Creators,
           payment = P!NoPayment <=> payment' = P!NoPayment
    PROVE  LedgerCount'
  <1>1. /\ IsFiniteSet(Creators) /\ Cardinality(Creators) \in Nat
        /\ Cardinality(Workers) \in Nat /\ Cardinality(Creators') \in Nat
    BY CreatorsFinite DEF Creators
  <1>2. Cardinality(Creators') <= Cardinality(Creators)
    BY <1>1, FS_Subset
  <1>3. twins \in Nat
    BY DEF LedgerInv, P!TypeOK
  <1> QED
    BY <1>1, <1>2, <1>3 DEF LedgerCount

LEMMA LedgerCountInsert ==
    ASSUME LedgerInv, LedgerCount, NEW p \in Workers, P!InsertPayment(p)
    PROVE  LedgerCount'
  <1>1. /\ ledgerWorker[p].pc = "create" /\ ledgerWorker[p].save \in P!Rows
        /\ ledgerWorker' = [ledgerWorker EXCEPT ![p] = P!Idle]
    BY DEF P!InsertPayment, P!At, P!Goto, LedgerInv, LedgerForm
  <1>2. p \in Creators /\ Creators' = Creators \ {p}
    BY <1>1 DEF Creators, P!Idle, LedgerInv, P!TypeOK
  <1>3. /\ IsFiniteSet(Creators) /\ Cardinality(Creators) \in Nat
        /\ Cardinality(Workers) \in Nat
        /\ Cardinality(Creators) <= Cardinality(Workers)
    BY CreatorsFinite DEF Creators
  <1>4. Cardinality(Creators') = Cardinality(Creators) - 1
    BY <1>2, <1>3, FS_RemoveElement
  <1>5. twins \in Nat
    BY DEF LedgerInv, P!TypeOK
  <1>6. CASE payment = P!NoPayment
    <2>1. payment' = ledgerWorker[p].save /\ twins' = twins
      BY <1>6 DEF P!InsertPayment
    <2>2. P!NoPayment \notin P!Rows
      BY NoneIsNone DEF P!NoPayment, P!Rows
    <2> QED
      BY <1>1, <1>3, <1>4, <1>6, <2>1, <2>2 DEF LedgerCount
  <1>7. CASE payment # P!NoPayment
    <2>1. payment' = payment /\ twins' = twins + 1
      BY <1>7 DEF P!InsertPayment
    <2> QED
      BY <1>3, <1>4, <1>5, <1>7, <2>1 DEF LedgerCount
  <1> QED
    BY <1>6, <1>7

LEMMA LedgerCountStep ==
    LedgerInv /\ LedgerCount /\ [P!Next]_ledgerVars => LedgerCount'
  <1> SUFFICES ASSUME LedgerInv, LedgerCount, [P!Next]_ledgerVars
               PROVE  LedgerCount'
    OBVIOUS
  <1>0. \A q \in Workers : LedgerForm(q) /\ ledgerWorker[q] \in P!WorkerStates
    BY DEF LedgerInv, P!TypeOK
  <1>1. ASSUME NEW p \in Workers, NEW batch \in Batches, P!LookUpPayment(p, batch)
        PROVE  LedgerCount'
    BY <1>1 DEF P!LookUpPayment, LedgerCount
  <1>2. ASSUME NEW p \in Workers, NEW w, w.pc # "create",
               ledgerWorker' = [ledgerWorker EXCEPT ![p] = w],
               UNCHANGED <<payment, twins>>
        PROVE  LedgerCount'
    <2>1. Creators' \subseteq Creators
      BY <1>2 DEF Creators, LedgerInv, P!TypeOK
    <2> QED
      BY <1>2, <2>1, LedgerCountKept
  <1>3. ASSUME NEW p \in Workers, NEW batch \in Batches, P!UpdateItems(p, batch)
        PROVE  LedgerCount'
    <2> DEFINE new == P!Stored(p, batch)
               w == [P!Idle EXCEPT !.pc = "delete", !.save = P!Aggregate(new), !.add = new]
    <2>1. ledgerWorker' = [ledgerWorker EXCEPT ![p] = w] /\ UNCHANGED <<payment, twins>>
      BY <1>3 DEF P!UpdateItems, P!Begin, P!Goto
    <2>2. w.pc # "create"
      BY DEF P!Idle
    <2> QED
      BY <1>2, <2>1, <2>2
  <1>4. ASSUME NEW p \in Workers, NEW u \in Edits, P!UpdatePayment(p, u)
        PROVE  LedgerCount'
    <2> DEFINE row == [status |-> P!Given(u.status, payment.status),
                       paid |-> P!Given(u.paid, payment.paid),
                       planned |-> payment.planned]
               w == [P!Idle EXCEPT !.pc = "reload", !.save = row]
    <2>1. ledgerWorker' = [ledgerWorker EXCEPT ![p] = w] /\ UNCHANGED <<payment, twins>>
      BY <1>4 DEF P!UpdatePayment, P!Begin, P!Goto
    <2>2. w.pc # "create"
      BY DEF P!Idle
    <2> QED
      BY <1>2, <2>1, <2>2
  <1>5. ASSUME NEW p \in Workers, P!DeleteItems(p)
        PROVE  LedgerCount'
    <2> DEFINE w == [ledgerWorker[p] EXCEPT !.pc = "insert", !.drop = items]
    <2>1. ledgerWorker' = [ledgerWorker EXCEPT ![p] = w] /\ UNCHANGED <<payment, twins>>
      BY <1>5 DEF P!DeleteItems, P!Goto
    <2>2. w.pc # "create"
      BY <1>0 DEF P!WorkerStates
    <2> QED
      BY <1>2, <2>1, <2>2
  <1>6. ASSUME NEW p \in Workers, P!InsertItems(p)
        PROVE  LedgerCount'
    <2> DEFINE w == [ledgerWorker[p] EXCEPT !.pc = "reload"]
    <2>1. ledgerWorker' = [ledgerWorker EXCEPT ![p] = w] /\ UNCHANGED <<payment, twins>>
      BY <1>6 DEF P!InsertItems, P!Goto
    <2>2. w.pc # "create"
      BY <1>0 DEF P!WorkerStates
    <2> QED
      BY <1>2, <2>1, <2>2
  <1>7. ASSUME NEW p \in Workers, P!ReloadPayment(p)
        PROVE  LedgerCount'
    <2> DEFINE v == ledgerWorker[p]
               save == [status |-> P!Differing(v.save.status, payment.status),
                        planned |-> P!Differing(v.save.planned, payment.planned),
                        paid |-> P!Differing(v.save.paid, payment.paid)]
               w == [v EXCEPT !.pc = "write", !.save = save]
    <2>1. ledgerWorker' = [ledgerWorker EXCEPT ![p] = w] /\ UNCHANGED <<payment, twins>>
      BY <1>7 DEF P!ReloadPayment, P!Goto
    <2>2. w.pc # "create"
      BY <1>0 DEF P!WorkerStates
    <2> QED
      BY <1>2, <2>1, <2>2
  <1>8. ASSUME NEW p \in Workers, P!Fail(p)
        PROVE  LedgerCount'
    <2>1. ledgerWorker' = [ledgerWorker EXCEPT ![p] = P!Idle] /\ UNCHANGED <<payment, twins>>
      BY <1>8 DEF P!Fail, P!Goto
    <2>2. P!Idle.pc # "create"
      BY DEF P!Idle
    <2> QED
      BY <1>2, <2>1, <2>2
  <1>9. ASSUME NEW p \in Workers, P!WritePayment(p)
        PROVE  LedgerCount'
    <2>1. /\ ledgerWorker[p].pc = "write" /\ payment' = Meant(p) /\ twins' = twins
          /\ ledgerWorker' = [q \in Workers |->
               IF q = p THEN P!Idle
               ELSE IF ledgerWorker[q].pc = "idle" THEN ledgerWorker[q]
               ELSE [ledgerWorker[q] EXCEPT !.fresh = FALSE,
                                            !.drop = @ \ ledgerWorker[p].drop]]
      BY <1>9 DEF P!WritePayment, P!Wrote, P!At, Meant
    <2>2. \A q \in Workers : q # p => ledgerWorker'[q].pc = ledgerWorker[q].pc
      BY <1>0, <2>1 DEF P!WorkerStates
    <2>3. Creators' \subseteq Creators
      BY <2>1, <2>2 DEF Creators, P!Idle
    <2>4. payment \in P!Rows /\ payment' \in P!Rows
      BY <1>0, <2>1 DEF LedgerForm
    <2>5. P!NoPayment \notin P!Rows
      BY NoneIsNone DEF P!NoPayment, P!Rows
    <2> QED
      BY <2>1, <2>3, <2>4, <2>5, LedgerCountKept
  <1>10. CASE UNCHANGED ledgerVars
    BY <1>10 DEF ledgerVars, LedgerCount, Creators
  <1> QED
    BY <1>1, <1>3, <1>4, <1>5, <1>6, <1>7, <1>8, <1>9, <1>10, LedgerCountInsert
    DEF P!Next

LEMMA LedgerCardinality == ASSUME NEW T PROVE P!Cardinality(T) = Cardinality(T)
  BY DEF P!Cardinality, Cardinality

LEMMA PaymentsFew == LedgerInv /\ LedgerCount => P!FewPayments
  <1> SUFFICES ASSUME LedgerInv, LedgerCount, payment # P!NoPayment
               PROVE  1 + twins <= Cardinality(Workers)
    BY LedgerCardinality DEF P!FewPayments
  <1>1. Cardinality(Creators) \in Nat /\ Cardinality(Workers) \in Nat /\ twins \in Nat
    BY CreatorsFinite DEF Creators, LedgerInv, P!TypeOK
  <1> QED
    BY <1>1 DEF LedgerCount

\* Payments of a contract, names of a catalogue and the profile of the company
\* are there no more often than requests overlap, although nothing but a lookup
\* before the save keeps them single.
THEOREM RecordsStayFew == Spec => []FewRecords
  <1>1. Init => LedgerInv /\ LedgerCount /\ CatalogInv /\ ProfileInv
    BY LedgerInit, LedgerCountInit, CatalogInit, ProfileInit DEF Init
  <1>2. LedgerInv /\ LedgerCount /\ CatalogInv /\ ProfileInv /\ [Next]_vars
          => LedgerInv' /\ LedgerCount' /\ CatalogInv' /\ ProfileInv'
    BY LedgerStep, LedgerCountStep, CatalogStep, ProfileStep, PartSteps
  <1>3. LedgerInv /\ LedgerCount /\ CatalogInv /\ ProfileInv => FewRecords
    BY PaymentsFew, NamesFew, ProfilesFew, ProfileCardinality
    DEF FewRecords, F!FewProfiles
  <1> QED
    BY <1>1, <1>2, <1>3, PTL DEF Spec

-----------------------------------------------------------------------------
(* Lists *)

\* A sequence with an element put in at k.
LEMMA Inserted ==
    ASSUME NEW S, NEW s \in Seq(S), NEW k \in 1 .. Len(s) + 1, NEW e \in S
    PROVE  LET t == L!InsertAt(s, k, e)
           IN  /\ t \in Seq(S)
               /\ Len(t) = Len(s) + 1
               /\ \A j \in 1 .. Len(s) + 1 :
                    t[j] = IF j < k THEN s[j] ELSE IF j = k THEN e ELSE s[j - 1]
  <1> DEFINE a == SubSeq(s, 1, k - 1)
             b == SubSeq(s, k, Len(s))
             ae == a \o <<e>>
  <1>1. a \in Seq(S) /\ Len(a) = k - 1 /\ \A j \in 1 .. k - 1 : a[j] = s[j]
    OBVIOUS
  <1>2. /\ b \in Seq(S) /\ Len(b) = Len(s) - k + 1
        /\ \A j \in 1 .. Len(s) - k + 1 : b[j] = s[k + j - 1]
    OBVIOUS
  <1> HIDE DEF a, b
  <1>3. ae \in Seq(S) /\ Len(ae) = k /\ ae[k] = e /\ \A j \in 1 .. k - 1 : ae[j] = s[j]
    <2>1. <<e>> \in Seq(S) /\ Len(<<e>>) = 1 /\ <<e>>[1] = e
      OBVIOUS
    <2> QED
      BY <1>1, <2>1, ConcatProperties
  <1>4. L!InsertAt(s, k, e) = ae \o b
    BY DEF L!InsertAt, a, b
  <1> HIDE DEF ae
  <1>5. /\ ae \o b \in Seq(S) /\ Len(ae \o b) = Len(s) + 1
        /\ \A j \in 1 .. Len(s) + 1 : (ae \o b)[j] = IF j <= k THEN ae[j] ELSE b[j - k]
    BY <1>2, <1>3, ConcatProperties
  <1>6. \A j \in 1 .. Len(s) + 1 :
          (ae \o b)[j] = IF j < k THEN s[j] ELSE IF j = k THEN e ELSE s[j - 1]
    BY <1>2, <1>3, <1>5
  <1> QED
    BY <1>4, <1>5, <1>6

\* A page within the list is full.
LEMMA PageIsFull ==
    ASSUME NEW n \in Nat, rows \in Seq(1 .. n),
           \A i, j \in DOMAIN rows : rows[i] = rows[j] => i = j,
           NEW p, NEW skip \in Nat, NEW limit \in Nat, p.skip = skip, p.limit = limit,
           Len(rows) >= skip + limit
    PROVE  Cardinality(L!Page(p)) = limit
  <1> DEFINE places == 1 .. limit
             f == [k \in places |-> rows[skip + k]]
  <1>1. DOMAIN rows = 1 .. Len(rows) /\ Len(rows) \in Nat
    OBVIOUS
  <1>2. \A k \in places : skip + k \in DOMAIN rows
    BY <1>1
  <1>3. L!Page(p) = {rows[skip + k] : k \in places}
    <2>1. DOMAIN rows \cap (skip + 1 .. skip + limit) = skip + 1 .. skip + limit
      BY <1>1
    <2>2. \A k \in skip + 1 .. skip + limit : k - skip \in places /\ skip + (k - skip) = k
      OBVIOUS
    <2>3. \A k \in places : skip + k \in skip + 1 .. skip + limit
      OBVIOUS
    <2>4. L!Page(p) = {rows[k] : k \in skip + 1 .. skip + limit}
      BY <2>1 DEF L!Page
    <2>5. ASSUME NEW k \in skip + 1 .. skip + limit
          PROVE  rows[k] \in {rows[skip + i] : i \in places}
      <3>1. k - skip \in places /\ skip + (k - skip) = k
        BY <2>2
      <3>2. rows[skip + (k - skip)] \in {rows[skip + i] : i \in places}
        BY <3>1
      <3> QED
        BY <3>1, <3>2
    <2>6. \A i \in places : rows[skip + i] \in {rows[k] : k \in skip + 1 .. skip + limit}
      BY <2>3
    <2> DEFINE byPosition == {rows[k] : k \in skip + 1 .. skip + limit}
               byPlace == {rows[skip + i] : i \in places}
    <2>7. ASSUME NEW x \in byPosition
          PROVE  x \in byPlace
      <3>1. PICK k \in skip + 1 .. skip + limit : x = rows[k]
        OBVIOUS
      <3> QED
        BY <2>5, <3>1
    <2>8. ASSUME NEW x \in byPlace
          PROVE  x \in byPosition
      <3>1. PICK i \in places : x = rows[skip + i]
        OBVIOUS
      <3> QED
        BY <2>6, <3>1
    <2> QED
      BY <2>4, <2>7, <2>8
  <1>4. f \in Injection(places, L!Page(p))
    <2>1. ASSUME NEW i \in places, NEW j \in places, f[i] = f[j]
          PROVE  i = j
      <3>1. skip + i = skip + j
        BY <1>2, <2>1
      <3> QED
        BY <3>1
    <2>2. f \in [places -> L!Page(p)]
      BY <1>3
    <2> HIDE DEF f
    <2> QED
      BY <2>1, <2>2 DEF Injection, IsInjective
  <1>5. f \in Surjection(places, L!Page(p))
    BY <1>3 DEF Surjection
  <1>6. ExistsBijection(places, L!Page(p))
    BY <1>4, <1>5 DEF ExistsBijection, Bijection
  <1> HIDE DEF f
  <1> QED
    BY <1>6, FS_CountingElements

LEMMA PageSize == ASSUME NEW T PROVE L!Cardinality(T) = Cardinality(T)
  BY DEF L!Cardinality, Cardinality

Now == L!ResolvePagination(reader.page, reader.limit)

\* The positions that the reader has passed: those before his page, those of
\* the page itself while he counts, and all of them in the end.
Passed(k) ==
    \/ reader.pc = "end"
    \/ reader.pc = "count" /\ k <= Now.skip + Now.limit
    \/ reader.pc = "page" /\ k <= Now.skip

\* Until a row leaves the list, the rows are different ones, and those at the
\* positions that have been passed were shown or have entered meanwhile.
ListInv ==
    \/ left
    \/ /\ entered \in Nat /\ rows \in Seq(1 .. entered)
       /\ \A i, j \in DOMAIN rows : rows[i] = rows[j] => i = j
       /\ reader = [pc |-> reader.pc, page |-> reader.page, limit |-> reader.limit]
       /\ reader.pc \in {"page", "count", "end"}
       /\ reader.page \in (Nat \ {0}) \cup {None} /\ reader.limit \in Int
       /\ \A k \in DOMAIN rows : Passed(k) => rows[k] \in shown \cup missed

\* What a page and its limit are resolved to.
LEMMA Resolved ==
    ASSUME NEW page \in (Nat \ {0}) \cup {None}, NEW limit \in Int
    PROVE  LET p == L!ResolvePagination(page, limit)
           IN  /\ p.page \in Nat \ {0} /\ p.limit \in Nat \ {0} /\ p.skip \in Nat
               /\ p.skip + p.limit = p.page * p.limit
               /\ L!ResolvePagination(p.page + 1, limit).skip = p.skip + p.limit
               /\ page = None => p.skip = 0
  <1> DEFINE p == L!ResolvePagination(page, limit)
             q == L!ResolvePagination(p.page + 1, limit)
  <1>1. /\ p.page \in Nat \ {0} /\ p.limit \in Nat \ {0}
        /\ p.skip = (p.page - 1) * p.limit
        /\ page = None => p.page = 1
    <2> DEFINE safePage == IF page = None \/ page <= 0 THEN 1 ELSE page
               safeLimit == IF limit = None \/ limit <= 0 THEN 10 ELSE limit
    <2>1. p = [page |-> safePage, limit |-> safeLimit, skip |-> (safePage - 1) * safeLimit]
      BY DEF L!ResolvePagination, L!DefaultPage, L!DefaultLimit
    <2>2. safePage \in Nat \ {0} /\ (page = None => safePage = 1)
      OBVIOUS
    <2>3. safeLimit \in Nat \ {0}
      OBVIOUS
    <2> HIDE DEF p, safePage, safeLimit
    <2> QED
      BY <2>1, <2>2, <2>3
  <1>2. q.skip = p.page * p.limit
    <2> DEFINE next == p.page + 1
    <2>1. next \in Int /\ next > 0 /\ next - 1 = p.page
      BY <1>1
    <2>2. next # None
      BY <2>1, NoneIsNone, Zenon
    <2> HIDE DEF next
    <2>3. q.skip = (next - 1) * p.limit
      BY <2>1, <2>2 DEF L!ResolvePagination, next
    <2> QED
      BY <2>1, <2>3
  <1> HIDE DEF p, q
  <1>3. ASSUME NEW n \in Nat \ {0}, NEW m \in Nat \ {0}
        PROVE  (n - 1) * m \in Nat /\ (n - 1) * m + m = n * m /\ (1 - 1) * m = 0
    OBVIOUS
  <1> QED
    BY <1>1, <1>2, <1>3 DEF p, q

LEMMA ListInit == L!Init => ListInv
  <1> SUFFICES ASSUME L!Init
               PROVE  ListInv
    OBVIOUS
  <1>1. entered \in Nat /\ rows = [k \in 1 .. entered |-> k]
    BY BoundsAssumption DEF L!Init
  <1>2. /\ rows \in Seq(1 .. entered)
        /\ \A i, j \in DOMAIN rows : rows[i] = rows[j] => i = j
    BY <1>1
  <1>3. /\ reader = [pc |-> reader.pc, page |-> reader.page, limit |-> reader.limit]
        /\ reader.pc = "page" /\ reader.page = None /\ reader.limit \in Int
    BY BoundsAssumption DEF L!Init
  <1>4. Now.skip = 0
    BY <1>3, Resolved DEF Now
  <1>5. \A k \in DOMAIN rows : ~ Passed(k)
    BY <1>1, <1>3, <1>4 DEF Passed
  <1> QED
    BY <1>1, <1>2, <1>3, <1>5 DEF ListInv

LEMMA LeftStays ==
    ASSUME [L!Next]_listVars, left
    PROVE  left'
  BY DEF L!Next, L!Enter, L!Leave, L!FetchPage, L!CountRows, listVars

LEMMA ListStep == ListInv /\ [L!Next]_listVars => ListInv'
  <1> SUFFICES ASSUME ListInv, [L!Next]_listVars, ~ left, ~ left'
               PROVE  ListInv'
    BY LeftStays DEF ListInv
  <1> DEFINE n == Len(rows)
  <1>0. /\ entered \in Nat /\ rows \in Seq(1 .. entered)
        /\ \A i, j \in DOMAIN rows : rows[i] = rows[j] => i = j
        /\ reader = [pc |-> reader.pc, page |-> reader.page, limit |-> reader.limit]
        /\ reader.pc \in {"page", "count", "end"}
        /\ reader.page \in (Nat \ {0}) \cup {None} /\ reader.limit \in Int
        /\ \A k \in DOMAIN rows : Passed(k) => rows[k] \in shown \cup missed
    BY DEF ListInv
  <1>00. n \in Nat /\ DOMAIN rows = 1 .. n /\ \A k \in 1 .. n : rows[k] \in 1 .. entered
    BY <1>0
  <1>1. ASSUME NEW k \in 1 .. MaxRows + 1, L!Enter(k)
        PROVE  ListInv'
    <2>1. /\ k \in 1 .. n + 1 /\ entered' = entered + 1
          /\ rows' = L!InsertAt(rows, k, entered + 1)
          /\ missed' = missed \cup {entered + 1}
          /\ UNCHANGED <<reader, shown>>
      BY <1>1 DEF L!Enter
    <2>2. rows \in Seq(1 .. entered + 1) /\ entered + 1 \in 1 .. entered + 1
      BY <1>0, <1>00
    <2>3. /\ rows' \in Seq(1 .. entered') /\ Len(rows') = n + 1
          /\ \A j \in 1 .. n + 1 :
               rows'[j] = IF j < k THEN rows[j] ELSE IF j = k THEN entered + 1 ELSE rows[j - 1]
      <3> DEFINE numbers == 1 .. entered + 1
      <3>1. rows \in Seq(numbers) /\ entered + 1 \in numbers
        BY <2>2
      <3> HIDE DEF numbers
      <3>2. L!InsertAt(rows, k, entered + 1) \in Seq(numbers)
        BY <2>1, <3>1, Inserted
      <3>3. /\ Len(rows') = n + 1
            /\ \A j \in 1 .. n + 1 :
                 rows'[j] = IF j < k THEN rows[j] ELSE IF j = k THEN entered + 1 ELSE rows[j - 1]
        BY <2>1, <3>1, Inserted
      <3> QED
        BY <2>1, <3>2, <3>3 DEF numbers
    <2>4. DOMAIN rows' = 1 .. n + 1
      BY <2>3
    <2>5. \A i, j \in DOMAIN rows' : rows'[i] = rows'[j] => i = j
      <3>1. \A j \in 1 .. n : rows[j] \in Int /\ rows[j] # entered + 1
        BY <1>0, <1>00
      <3>2. ASSUME NEW i \in 1 .. n + 1, NEW j \in 1 .. n + 1, rows'[i] = rows'[j]
            PROVE  i = j
        <4> DEFINE old(m) == IF m < k THEN m ELSE m - 1
        <4>1. ASSUME NEW m \in 1 .. n + 1, m # k
              PROVE  old(m) \in 1 .. n /\ rows'[m] = rows[old(m)]
          <5>1. rows'[m] = IF m < k THEN rows[m] ELSE IF m = k THEN entered + 1 ELSE rows[m - 1]
            BY <2>3
          <5>2. k \in 1 .. n + 1 /\ n \in Nat
            BY <1>00, <2>1
          <5> QED
            BY <4>1, <5>1, <5>2
        <4>2. rows'[k] = entered + 1
          BY <2>1, <2>3
        <4>3. CASE i = k \/ j = k
          BY <3>1, <3>2, <4>1, <4>2, <4>3
        <4>4. CASE i # k /\ j # k
          <5>1. old(i) = old(j)
            BY <1>0, <1>00, <3>2, <4>1, <4>4
          <5> QED
            BY <2>1, <4>4, <5>1
        <4> QED
          BY <4>3, <4>4
      <3> QED
        BY <2>4, <3>2
    <2>6. Now' = Now
      BY <2>1 DEF Now
    <2>7. /\ Now.skip \in Nat /\ Now.limit \in Nat
      BY <1>0, Resolved DEF Now
    <2>8. ASSUME NEW j \in DOMAIN rows', Passed(j)'
          PROVE  rows'[j] \in (shown \cup missed)'
      <3>1. CASE j < k
        <4>1. Passed(j) /\ j \in DOMAIN rows
          BY <1>00, <2>1, <2>4, <2>6, <2>8, <3>1 DEF Passed
        <4> QED
          BY <1>0, <2>1, <2>3, <2>4, <3>1, <4>1
      <3>2. CASE j = k
        BY <2>1, <2>3, <2>4, <3>2
      <3>3. CASE j > k
        <4>1. Passed(j - 1) /\ j - 1 \in DOMAIN rows
          BY <1>00, <2>1, <2>4, <2>6, <2>7, <2>8, <3>3 DEF Passed
        <4> QED
          <5>1. rows'[j] = rows[j - 1]
            <6>1. j \in 1 .. n + 1 /\ k \in 1 .. n + 1 /\ n \in Nat
              BY <1>00, <2>1, <2>4
            <6>2. rows'[j] = IF j < k THEN rows[j] ELSE IF j = k THEN entered + 1 ELSE rows[j - 1]
              BY <2>3, <6>1
            <6> QED
              BY <3>3, <6>1, <6>2
          <5> QED
            BY <1>0, <2>1, <4>1, <5>1
      <3> QED
        BY <2>1, <2>4, <3>1, <3>2, <3>3
    <2> QED
      BY <1>0, <2>1, <2>3, <2>5, <2>8 DEF ListInv
  <1>2. ~ \E k \in 1 .. MaxRows + 1 : L!Leave(k)
    BY DEF L!Leave
  <1> DEFINE p == Now
  <1>3. /\ p.page \in Nat \ {0} /\ p.limit \in Nat \ {0} /\ p.skip \in Nat
        /\ p.skip + p.limit = p.page * p.limit
        /\ L!ResolvePagination(p.page + 1, reader.limit).skip = p.skip + p.limit
    BY <1>0, Resolved DEF Now
  <1> HIDE DEF p
  \* With a total that leaves no row behind the page unseen he may turn it.
  <1>4. ASSUME NEW total, reader' = L!Turn(p, total), UNCHANGED <<rows, entered, missed>>,
               total > p.page * p.limit \/ n <= p.skip + p.limit,
               total \in Int,
               \A k \in DOMAIN rows :
                 k <= p.skip + p.limit => rows[k] \in (shown \cup missed)'
        PROVE  ListInv'
    <2>1. CASE p.page * p.limit < total
      <3>1. reader' = [reader EXCEPT !.pc = "page", !.page = p.page + 1]
        BY <1>4, <2>1 DEF L!Turn, L!CalculateHasNextPage
      <3>2. /\ reader'.pc = "page" /\ reader'.page = p.page + 1 /\ reader'.limit = reader.limit
            /\ reader' = [pc |-> reader'.pc, page |-> reader'.page, limit |-> reader'.limit]
        BY <1>0, <3>1
      <3>3. Now'.skip = p.skip + p.limit
        BY <1>3, <3>2 DEF Now
      <3> QED
        BY <1>0, <1>3, <1>4, <3>2, <3>3 DEF ListInv, Passed
    <2>2. CASE ~ (p.page * p.limit < total)
      <3>1. reader' = [reader EXCEPT !.pc = "end"]
        BY <1>4, <2>2 DEF L!Turn, L!CalculateHasNextPage
      <3>2. /\ reader'.pc = "end" /\ reader'.page = reader.page /\ reader'.limit = reader.limit
            /\ reader' = [pc |-> reader'.pc, page |-> reader'.page, limit |-> reader'.limit]
        BY <1>0, <3>1
      <3>3. n <= p.skip + p.limit
        BY <1>3, <1>4, <2>2
      <3> QED
        BY <1>0, <1>00, <1>3, <1>4, <3>2, <3>3 DEF ListInv
    <2> QED
      BY <2>1, <2>2
  <1>5. ASSUME L!FetchPage
        PROVE  ListInv'
    <2> DEFINE found == L!Cardinality(L!Page(p))
    <2>1. /\ reader.pc = "page" /\ shown' = shown \cup L!Page(p)
          /\ reader' = IF L!NeedsCount(p, found) THEN [reader EXCEPT !.pc = "count"]
                       ELSE L!Turn(p, p.skip + found)
          /\ UNCHANGED <<rows, entered, missed>>
      BY <1>5 DEF L!FetchPage, p, Now
    <2>2. ASSUME NEW k \in DOMAIN rows, k <= p.skip + p.limit
          PROVE  rows[k] \in (shown \cup missed)'
      <3>1. CASE k <= p.skip
        BY <1>0, <2>1, <3>1 DEF Passed, p
      <3>2. CASE k > p.skip
        <4>1. k \in p.skip + 1 .. p.skip + p.limit
          BY <1>00, <1>3, <2>2, <3>2
        <4> QED
          BY <2>1, <4>1 DEF L!Page
      <3> QED
        BY <1>00, <1>3, <3>1, <3>2
    <2>3. found \in Nat
      <3>1. L!Page(p) \subseteq 1 .. entered
        BY <1>00 DEF L!Page
      <3>2. IsFiniteSet(1 .. entered)
        BY <1>0, FS_Interval, 1 \in Int, entered \in Int
      <3> QED
        BY <3>1, <3>2, FS_Subset, FS_CardinalityType, PageSize
    <2>4. CASE L!NeedsCount(p, found)
      <3>1. reader' = [reader EXCEPT !.pc = "count"]
        BY <2>1, <2>4
      <3>2. /\ reader'.pc = "count" /\ reader'.page = reader.page /\ reader'.limit = reader.limit
            /\ reader' = [pc |-> reader'.pc, page |-> reader'.page, limit |-> reader'.limit]
        BY <1>0, <3>1
      <3>3. Now' = p
        BY <3>2 DEF Now, p
      <3> QED
        BY <1>0, <2>1, <2>2, <3>2, <3>3 DEF ListInv, Passed
    <2>5. CASE ~ L!NeedsCount(p, found)
      <3>1. found # p.limit
        BY <2>5 DEF L!NeedsCount
      <3>2. n < p.skip + p.limit
        BY <1>0, <1>00, <1>3, <3>1, PageIsFull, PageSize
      <3>3. p.skip + found \in Int
        BY <1>3, <2>3
      <3> HIDE DEF found
      <3>4. reader' = L!Turn(p, p.skip + found)
        BY <2>1, <2>5
      <3> QED
        BY <1>00, <1>3, <1>4, <2>1, <2>2, <3>2, <3>3, <3>4
    <2> QED
      BY <2>4, <2>5
  <1>6. ASSUME L!CountRows
        PROVE  ListInv'
    <2>1. /\ reader.pc = "count" /\ reader' = L!Turn(p, n)
          /\ UNCHANGED <<rows, entered, shown, missed>>
      BY <1>6 DEF L!CountRows, p, Now
    <2>2. \A k \in DOMAIN rows : k <= p.skip + p.limit => rows[k] \in (shown \cup missed)'
      BY <1>0, <2>1 DEF Passed, p
    <2>3. n > p.page * p.limit \/ n <= p.skip + p.limit
      BY <1>00, <1>3
    <2> QED
      BY <1>00, <1>4, <2>1, <2>2, <2>3
  <1>7. CASE UNCHANGED listVars
    BY <1>0, <1>7 DEF ListInv, Passed, Now, listVars
  <1> QED
    BY <1>1, <1>2, <1>5, <1>6, <1>7 DEF L!Next

\* Who reads a list to its end has been given every row that was in it all the
\* while, unless rows have left it.
THEOREM ReadersSeeAll == Spec => []AllShown
  <1>1. Init => ListInv
    BY ListInit DEF Init
  <1>2. ListInv /\ [Next]_vars => ListInv'
    BY ListStep, PartSteps
  <1>3. ListInv => AllShown
    BY DEF ListInv, AllShown, L!AllShown, Passed
  <1> QED
    BY <1>1, <1>2, <1>3, PTL DEF Spec

-----------------------------------------------------------------------------
(* The documents *)

BudgetFields ==
    {"status", "days", "advance", "fees", "discounts", "items", "subtotal", "total"}

\* A contract is of an approved budget, or of one that was canceled with it,
\* and its copy has the terms of that budget.
DocumentsInv ==
    /\ budget # D!NoBudget =>
         budget = [f \in BudgetFields |-> budget[f]] /\ budget.status \in DOMAIN D!BudgetMoves
    /\ contract # D!NoContract =>
         /\ contract = [status |-> contract.status, body |-> contract.body, copy |-> contract.copy]
         /\ contract.copy = [contractor |-> contract.copy.contractor, lead |-> contract.copy.lead,
                             days |-> contract.copy.days, advance |-> contract.copy.advance,
                             total |-> contract.copy.total]
         /\ contract.status \in D!ContractStatus
         /\ budget # D!NoBudget /\ budget.status \in {"APPROVED", "CANCELED"}
         /\ \A f \in {"days", "advance", "total"} : contract.copy[f] = budget[f]

LEMMA NoStatus == "NONE" \notin DOMAIN D!BudgetMoves /\ "NONE" \notin D!ContractStatus
  BY DEF D!BudgetMoves, D!ContractStatus

LEMMA Moves ==
    /\ \A s \in DOMAIN D!BudgetMoves : D!BudgetMoves[s] \subseteq DOMAIN D!BudgetMoves
    /\ \A s \in {"APPROVED", "CANCELED"} :
         s \in DOMAIN D!BudgetMoves /\ D!BudgetMoves[s] \subseteq {"CANCELED"}
    /\ \A s \in D!ContractStatus : D!AllowedTransitions[s] \subseteq D!ContractStatus
    /\ D!InitialStatuses \subseteq D!ContractStatus
  <1>1. \A s \in DOMAIN D!BudgetMoves : D!BudgetMoves[s] \subseteq DOMAIN D!BudgetMoves
    BY DEF D!BudgetMoves
  <1>2. \A s \in {"APPROVED", "CANCELED"} :
          s \in DOMAIN D!BudgetMoves /\ D!BudgetMoves[s] \subseteq {"CANCELED"}
    BY DEF D!BudgetMoves
  <1>3. \A s \in D!ContractStatus : D!AllowedTransitions[s] \subseteq D!ContractStatus
    BY DEF D!ContractStatus, D!AllowedTransitions, D!ActiveStatuses
  <1>4. D!InitialStatuses \subseteq D!ContractStatus
    BY DEF D!ContractStatus, D!InitialStatuses
  <1> QED
    BY <1>1, <1>2, <1>3, <1>4

\* The status of the budget moves on, and nothing else does.
LEMMA BudgetMoved ==
    ASSUME DocumentsInv, budget # D!NoBudget, NEW to \in DOMAIN D!BudgetMoves,
           budget' = [budget EXCEPT !.status = to]
    PROVE  /\ budget' = [f \in BudgetFields |-> budget'[f]]
           /\ budget' # D!NoBudget
           /\ budget'.status = to
           /\ \A f \in BudgetFields \ {"status"} : budget'[f] = budget[f]
  <1>1. budget = [f \in BudgetFields |-> budget[f]]
    BY DEF DocumentsInv
  <1>2. budget' = [f \in BudgetFields |-> IF f = "status" THEN to ELSE budget[f]]
    BY <1>1 DEF BudgetFields
  <1>3. budget'.status = to /\ \A f \in BudgetFields \ {"status"} : budget'[f] = budget[f]
    BY <1>2 DEF BudgetFields
  <1>4. budget' = [f \in BudgetFields |-> budget'[f]]
    BY <1>2
  <1>5. budget' # D!NoBudget
    BY <1>3, NoStatus DEF D!NoBudget
  <1> QED
    BY <1>3, <1>4, <1>5

LEMMA DocumentsStep == DocumentsInv /\ [D!Next]_documentVars => DocumentsInv'
  <1> SUFFICES ASSUME DocumentsInv, [D!Next]_documentVars
               PROVE  DocumentsInv'
    OBVIOUS
  <1> DEFINE HasContract == contract # D!NoContract
  <1>1. ASSUME NEW form \in BudgetForms, D!SaveBudget(form)
        PROVE  DocumentsInv'
    <2>1. contract' = D!NoContract
      BY <1>1 DEF D!SaveBudget, DocumentsInv
    <2>2. budget' = [f \in BudgetFields |-> budget'[f]] /\ budget'.status = "DRAFT"
      BY <1>1 DEF D!SaveBudget, BudgetFields
    <2> QED
      BY <2>1, <2>2 DEF DocumentsInv, D!BudgetMoves
  <1>2. ASSUME NEW e \in BudgetEdits, D!UpdateBudget(e)
        PROVE  DocumentsInv'
    <2>1. contract' = D!NoContract
      BY <1>2 DEF D!UpdateBudget, DocumentsInv
    <2>2. budget' = [f \in BudgetFields |-> budget'[f]] /\ budget'.status = "DRAFT"
      BY <1>2 DEF D!UpdateBudget, BudgetFields
    <2> QED
      BY <2>1, <2>2 DEF DocumentsInv, D!BudgetMoves
  <1>3. ASSUME NEW to \in DOMAIN D!BudgetMoves, D!MoveBudget(to)
        PROVE  DocumentsInv'
    <2>1. /\ budget # D!NoBudget /\ to \in D!BudgetMoves[budget.status]
          /\ budget' = [budget EXCEPT !.status = to] /\ contract' = contract
      BY <1>3 DEF D!MoveBudget
    <2>2. /\ budget' = [f \in BudgetFields |-> budget'[f]] /\ budget' # D!NoBudget
          /\ budget'.status = to
          /\ \A f \in BudgetFields \ {"status"} : budget'[f] = budget[f]
      BY <2>1, BudgetMoved
    <2>3. HasContract => budget'.status \in {"APPROVED", "CANCELED"}
      BY <2>1, <2>2, Moves DEF DocumentsInv
    <2> HIDE DEF HasContract
    <2> QED
      BY <2>1, <2>2, <2>3 DEF DocumentsInv, BudgetFields, HasContract
  <1>4. ASSUME UNCHANGED <<budget, contract>>
        PROVE  DocumentsInv'
    BY <1>4 DEF DocumentsInv
  <1>5. ASSUME NEW over, NEW body, NEW s \in D!InitialStatuses, D!CreateContract(over, body, s)
        PROVE  DocumentsInv'
    <2>1. /\ budget # D!NoBudget /\ budget.status = "APPROVED" /\ budget' = budget
          /\ contract' = [status |-> s, body |-> body, copy |-> D!StoredCopy(over)]
      BY <1>5 DEF D!CreateContract
    <2>2. /\ contract'.status = s /\ contract'.body = body
          /\ contract'.copy = [contractor |-> D!Merge(profile, over), lead |-> lead,
                               days |-> budget.days, advance |-> budget.advance,
                               total |-> budget.total]
      BY <2>1 DEF D!StoredCopy
    <2>3. contract' = [status |-> contract'.status, body |-> contract'.body,
                       copy |-> contract'.copy]
      BY <2>1
    <2>4. contract'.status \in D!ContractStatus
      BY <2>2, Moves
    <2>5. /\ contract'.copy.contractor = D!Merge(profile, over) /\ contract'.copy.lead = lead
          /\ contract'.copy.days = budget.days /\ contract'.copy.advance = budget.advance
          /\ contract'.copy.total = budget.total
      BY <2>2
    <2> QED
      BY <2>1, <2>2, <2>3, <2>4, <2>5 DEF DocumentsInv
  <1>6. ASSUME NEW over, NEW body, D!UpdateContract(over, body)
        PROVE  DocumentsInv'
    <2>1. /\ HasContract /\ budget' = budget
          /\ contract' = [contract EXCEPT !.body = D!Or(body, @),
                                          !.copy.contractor = D!Merge(@, over)]
      BY <1>6 DEF D!UpdateContract
    <2>2. /\ contract'.status = contract.status
          /\ contract'.copy.lead = contract.copy.lead
          /\ contract'.copy.days = contract.copy.days
          /\ contract'.copy.advance = contract.copy.advance
          /\ contract'.copy.total = contract.copy.total
      BY <2>1 DEF DocumentsInv
    <2>3. contract' = [status |-> contract'.status, body |-> contract'.body,
                       copy |-> contract'.copy]
      BY <2>1 DEF DocumentsInv
    <2>4. contract'.copy = [contractor |-> contract'.copy.contractor, lead |-> contract'.copy.lead,
                            days |-> contract'.copy.days, advance |-> contract'.copy.advance,
                            total |-> contract'.copy.total]
      BY <2>1 DEF DocumentsInv
    <2> QED
      BY <2>1, <2>2, <2>3, <2>4 DEF DocumentsInv
  <1>7. ASSUME NEW to \in D!ContractStatus, D!MoveContract(to)
        PROVE  DocumentsInv'
    <2>1. /\ HasContract /\ to \in D!AllowedTransitions[contract.status]
          /\ contract' = [contract EXCEPT !.status = to]
          /\ budget' = IF to = "CANCELED" THEN [budget EXCEPT !.status = "CANCELED"] ELSE budget
      BY <1>7 DEF D!MoveContract
    <2>2. /\ contract'.status = to /\ contract'.body = contract.body
          /\ contract'.copy = contract.copy
          /\ contract' = [status |-> contract'.status, body |-> contract'.body,
                          copy |-> contract'.copy]
      BY <2>1 DEF DocumentsInv
    <2>3. budget' = budget
            \/ /\ budget' = [f \in BudgetFields |-> budget'[f]] /\ budget' # D!NoBudget
               /\ budget'.status = "CANCELED"
               /\ \A f \in BudgetFields \ {"status"} : budget'[f] = budget[f]
      BY <2>1, BudgetMoved DEF DocumentsInv, D!BudgetMoves
    <2>4. /\ contract'.copy = [contractor |-> contract'.copy.contractor,
                               lead |-> contract'.copy.lead, days |-> contract'.copy.days,
                               advance |-> contract'.copy.advance, total |-> contract'.copy.total]
      BY <2>1, <2>2 DEF DocumentsInv
    <2>5. CASE budget' = budget
      BY <2>1, <2>2, <2>4, <2>5 DEF DocumentsInv
    <2>6. CASE budget' # budget
      BY <2>1, <2>2, <2>3, <2>4, <2>6 DEF DocumentsInv, BudgetFields, D!BudgetMoves
    <2> QED
      BY <2>5, <2>6
  <1> QED
    BY <1>1, <1>2, <1>3, <1>4, <1>5, <1>6, <1>7
    DEF D!Next, D!UpdateLead, D!UpdateProfile, documentVars

LEMMA DocumentsInit == D!Init => DocumentsInv
  BY DEF D!Init, DocumentsInv

\* The clauses and the company's name in a document are made of the columns of
\* the budget, but for its status and items, and of what the contract keeps.
LEMMA SettledBy ==
    ASSUME contract'.body = contract.body, contract'.copy.contractor = contract.copy.contractor,
           \A f \in {"days", "advance", "total"} : contract'.copy[f] = contract.copy[f],
           \A f \in {"days", "fees", "advance", "total"} : budget'[f] = budget[f],
           NEW loaded
    PROVE  D!Settled(loaded)' = D!Settled(loaded)
  <1>1. D!Contractor' = D!Contractor
    BY DEF D!Contractor
  <1> DEFINE snapshot == D!Snapshot(loaded)
  <1>2. /\ snapshot'.days = snapshot.days /\ snapshot'.guests = snapshot.guests
        /\ snapshot'.fees = snapshot.fees /\ snapshot'.advance = snapshot.advance
        /\ snapshot'.total = snapshot.total /\ snapshot'.items = snapshot.items
        /\ snapshot'.contractor = snapshot.contractor
    <2>1. D!PerDay(budget.days, "guests")' = D!PerDay(budget.days, "guests")
      BY DEF D!PerDay
    <2> QED
      BY <1>1, <2>1 DEF D!Snapshot
  <1> HIDE DEF snapshot
  <1>3. D!DefaultBody(snapshot)' = D!DefaultBody(snapshot)
    <2>1. D!ServiceLines(snapshot)' = D!ServiceLines(snapshot)
      BY <1>2 DEF D!ServiceLines
    <2>2. D!Supplies(snapshot)' = D!Supplies(snapshot)
      BY <1>2 DEF D!Supplies
    <2> QED
      BY <1>2, <2>1, <2>2 DEF D!DefaultBody
  <1> QED
    BY <1>1, <1>2, <1>3 DEF D!Settled, D!ContractDocument, snapshot

LEMMA TermsStep ==
    ASSUME DocumentsInv, [D!Next]_documentVars,
           contract # D!NoContract, contract'.body = contract.body,
           contract'.copy.contractor = contract.copy.contractor,
           NEW loaded
    PROVE  D!Settled(loaded)' = D!Settled(loaded)
  <1>0. DocumentsInv'
    BY DocumentsStep
  <1>1. CASE UNCHANGED <<budget, contract>>
    BY <1>1, SettledBy
  <1>2. ASSUME NEW to \in DOMAIN D!BudgetMoves, D!MoveBudget(to)
        PROVE  D!Settled(loaded)' = D!Settled(loaded)
    BY <1>2, BudgetMoved, SettledBy DEF D!MoveBudget, BudgetFields
  <1>3. ASSUME NEW over, NEW body, D!UpdateContract(over, body)
        PROVE  D!Settled(loaded)' = D!Settled(loaded)
    <2>1. budget' = budget /\ contract' = [contract EXCEPT !.body = D!Or(body, @),
                                                          !.copy.contractor = D!Merge(@, over)]
      BY <1>3 DEF D!UpdateContract
    <2>2. \A f \in {"days", "advance", "total"} : contract'.copy[f] = contract.copy[f]
      BY <2>1 DEF DocumentsInv
    <2> QED
      BY <2>1, <2>2, SettledBy
  <1>4. ASSUME NEW to \in D!ContractStatus, D!MoveContract(to)
        PROVE  D!Settled(loaded)' = D!Settled(loaded)
    <2>1. /\ contract' = [contract EXCEPT !.status = to]
          /\ budget' = IF to = "CANCELED" THEN [budget EXCEPT !.status = "CANCELED"] ELSE budget
      BY <1>4 DEF D!MoveContract
    <2>2. contract'.copy = contract.copy
      BY <2>1 DEF DocumentsInv
    <2>3. \A f \in {"days", "fees", "advance", "total"} : budget'[f] = budget[f]
      BY <2>1, BudgetMoved DEF DocumentsInv, D!BudgetMoves, BudgetFields
    <2> QED
      BY <2>2, <2>3, SettledBy
  <1>5. ~ \E form \in BudgetForms : D!SaveBudget(form)
    BY DEF D!SaveBudget, DocumentsInv
  <1>6. ~ \E e \in BudgetEdits : D!UpdateBudget(e)
    BY DEF D!UpdateBudget, DocumentsInv
  <1>7. ASSUME NEW over, NEW body, NEW s
        PROVE  ~ D!CreateContract(over, body, s)
    BY DEF D!CreateContract
  <1> QED
    BY <1>1, <1>2, <1>3, <1>4, <1>5, <1>6, <1>7
    DEF D!Next, D!UpdateLead, D!UpdateProfile, documentVars

\* As long as nobody edits a contract, what happens to the profile, the lead
\* and the budget changes no clause of it, nor how it names the company.
THEOREM ClausesStay == Spec => TermsStay
  <1>1. Init => DocumentsInv
    BY DocumentsInit DEF Init
  <1>2. DocumentsInv /\ [Next]_vars => DocumentsInv'
    BY DocumentsStep, PartSteps
  <1>3. DocumentsInv /\ [Next]_vars =>
          [(contract # D!NoContract /\ contract'.body = contract.body
              /\ contract'.copy.contractor = contract.copy.contractor) =>
             \A loaded \in {D!Read, D!ForSignature} :
               D!Settled(loaded)' = D!Settled(loaded)
          ]_<<budget, lead, profile, contract>>
    BY TermsStep, PartSteps
  <1> QED
    BY <1>1, <1>2, <1>3, PTL DEF Spec, TermsStay, D!TermsStay

\* The copy has the terms of the budget, whichever of them is read.
LEMMA CopyHasTerms == DocumentsInv => SameTerms
  <1> SUFFICES ASSUME DocumentsInv, contract # D!NoContract
               PROVE  D!Terms(D!ContractDocument(D!Read)) =
                        D!Terms(D!ContractDocument(D!ForSignature))
    BY DEF SameTerms, D!SameTerms
  <1> DEFINE read == D!Snapshot(D!Read)
             signed == D!Snapshot(D!ForSignature)
             settled == {"services", "hours", "schedule", "place", "supplies", "total", "parts",
                         "payment", "company"}
  <1>1. /\ read.days = signed.days /\ read.advance = signed.advance /\ read.total = signed.total
        /\ read.items = signed.items /\ read.lead = signed.lead
        /\ read.contractor = signed.contractor
    BY DEF D!Snapshot, D!Read, D!ForSignature, DocumentsInv
  <1> HIDE DEF read, signed
  <1>2. /\ D!ServiceLines(read) = D!ServiceLines(signed) /\ D!Supplies(read) = D!Supplies(signed)
    BY <1>1 DEF D!ServiceLines, D!Supplies
  <1>3. /\ DOMAIN D!DefaultBody(read) = DOMAIN D!DefaultBody(signed)
        /\ \A c \in DOMAIN D!DefaultBody(read) \ {"guests", "displacement"} :
             D!DefaultBody(read)[c] = D!DefaultBody(signed)[c]
    BY <1>1, <1>2 DEF D!DefaultBody
  <1> DEFINE clausesOf(s) == IF contract.body = None THEN D!DefaultBody(s) ELSE << >>
  <1>4. [c \in DOMAIN clausesOf(read) \ {"guests", "displacement"} |-> clausesOf(read)[c]]
          = [c \in DOMAIN clausesOf(signed) \ {"guests", "displacement"} |-> clausesOf(signed)[c]]
    BY <1>3
  <1>5. ASSUME NEW loaded
        PROVE  D!Terms(D!ContractDocument(loaded)) =
                 [contractee |-> D!Contractee(D!Snapshot(loaded).lead),
                  contractor |-> <<D!Snapshot(loaded).contractor.legalName,
                                   D!Snapshot(loaded).contractor.tradeName>>,
                  body |-> contract.body,
                  clauses |-> [c \in DOMAIN clausesOf(D!Snapshot(loaded))
                                        \ {"guests", "displacement"}
                                 |-> clausesOf(D!Snapshot(loaded))[c]]]
    BY DEF D!Terms, D!ContractDocument
  <1> HIDE DEF clausesOf
  <1> QED
    BY <1>1, <1>4, <1>5 DEF read, signed

\* The client signs the terms that were previewed and mailed.
THEOREM TermsAreTheSame == Spec => []SameTerms
  <1>1. Init => DocumentsInv
    BY DocumentsInit DEF Init
  <1>2. DocumentsInv /\ [Next]_vars => DocumentsInv'
    BY DocumentsStep, PartSteps
  <1> QED
    BY <1>1, <1>2, CopyHasTerms, PTL DEF Spec

-----------------------------------------------------------------------------
(* What proposals add up to *)

\* The blocks come to v, each by itself.
BlocksWeigh(B, n, K, Ds, v) ==
    \A i \in 1 .. n : B[i] \in Seq(PrintedRows) /\ v[i] = Weight(B[i], K, Ds)

\* What is printed of the first k blocks comes to what they come to.
LEMMA FlatRows ==
    ASSUME NEW n \in Nat, NEW B, NEW g, IsFlat(g, B, n),
           NEW K, NEW Ds, NEW v, BlocksWeigh(B, n, K, Ds, v)
    PROVE  \A k \in 1 .. n : g[k] \in Seq(PrintedRows) /\ Weight(g[k], K, Ds) = Sum(v, 1 .. k)
  <1> DEFINE T == {k \in 0 .. n : k # 0 => /\ g[k] \in Seq(PrintedRows)
                                           /\ Weight(g[k], K, Ds) = Sum(v, 1 .. k)}
  <1>1. 0 \in T
    OBVIOUS
  <1>2. ASSUME NEW k \in 1 .. n, k - 1 \in T PROVE k \in T
    <2>1. B[k] \in Seq(PrintedRows) /\ v[k] = Weight(B[k], K, Ds) /\ v[k] \in Int
      BY RowsAre DEF BlocksWeigh
    <2>2. CASE k = 1
      <3>1. g[k] = B[k]
        BY <2>2 DEF IsFlat
      <3>2. Sum(v, 1 .. k) = v[k]
        <4>1. 1 .. k = {k}
          BY <2>2
        <4> QED
          BY <2>1, <4>1, SumOfSingle
      <3> QED
        BY <2>1, <3>1, <3>2
    <2>3. CASE k # 1
      <3>1. k - 1 \in 1 .. n /\ g[k] = g[k - 1] \o B[k]
        <4>1. k - 1 \in 1 .. n
          BY <2>3
        <4>2. g[k] = g[k - 1] \o B[k]
          BY <2>3 DEF IsFlat
        <4> QED
          BY <4>1, <4>2
      <3>2. g[k - 1] \in Seq(PrintedRows) /\ Weight(g[k - 1], K, Ds) = Sum(v, 1 .. k - 1)
        BY <1>2, <3>1
      <3>3. g[k] \in Seq(PrintedRows) /\ Weight(g[k], K, Ds) = Sum(v, 1 .. k - 1) + v[k]
        BY <2>1, <3>1, <3>2, ConcatParts, WeightOfConcat
      <3>4. Sum(v, 1 .. k) = v[k] + Sum(v, 1 .. k - 1)
        <4> DEFINE S == 1 .. k
        <4>1. k \in S /\ S \ {k} = 1 .. k - 1
          OBVIOUS
        <4>2. \A i \in 1 .. k : v[i] \in Int
          BY RowsAre DEF BlocksWeigh
        <4>3. Integral(v, S) /\ IsFiniteSet(S)
          BY <4>2, FS_Interval DEF Integral
        <4>4. Sum(v, 1 .. k) = Sum(v, S)
          OBVIOUS
        <4> HIDE DEF S
        <4>5. Sum(v, S) = v[k] + Sum(v, S \ {k})
          BY <4>1, <4>3, SumRemoves
        <4> QED
          BY <4>1, <4>4, <4>5
      <3>5. Sum(v, 1 .. k - 1) \in Int
        BY <3>2, RowsAre
      <3> QED
        BY <2>1, <3>3, <3>4, <3>5
    <2> QED
      BY <2>2, <2>3
  <1>3. \A k \in 0 .. n : k \in T
    <2> HIDE DEF T
    <2> QED
      BY <1>1, <1>2, Counting
  <1>4. ASSUME NEW k \in 1 .. n
        PROVE  g[k] \in Seq(PrintedRows) /\ Weight(g[k], K, Ds) = Sum(v, 1 .. k)
    <2>1. k \in T /\ k # 0
      BY <1>3
    <2> QED
      BY <2>1
  <1> QED
    BY <1>4

\* The first k blocks have the subtotals of the first k days.
LEMMA FlatBanded ==
    ASSUME NEW n \in Nat, NEW B, NEW g, IsFlat(g, B, n),
           \A k \in 1 .. n : B[k] \in Seq(PrintedRows) /\ g[k] \in Seq(PrintedRows),
           NEW c, \A k \in 1 .. n : Closed(B[k], k - 1, c)
    PROVE  \A k \in 1 .. n : Banded(g[k], k, c)
  <1> DEFINE T == {k \in 0 .. n : k # 0 => Banded(g[k], k, c)}
  <1>1. 0 \in T
    OBVIOUS
  <1>2. ASSUME NEW k \in 1 .. n, k - 1 \in T PROVE k \in T
    <2>1. /\ B[k] \in Seq(PrintedRows) /\ g[k] \in Seq(PrintedRows)
          /\ Closed(B[k], k - 1, c) /\ k - 1 \in Nat /\ (k - 1) + 1 = k
      OBVIOUS
    <2>2. PICK s \in Seq(PrintedRows) : Banded(s, k - 1, c) /\ g[k] = s \o B[k]
      <3>1. CASE k = 1
        <4>1. g[k] = << >> \o B[k] /\ << >> \in Seq(PrintedRows)
          <5>1. g[k] = B[k]
            BY <3>1 DEF IsFlat
          <5> QED
            BY <2>1, <5>1
        <4>2. Banded(<< >>, k - 1, c)
          <5>1. Marks(<< >>) = {}
            BY DEF Marks
          <5>2. 0 .. (k - 1) - 1 = {}
            BY <3>1
          <5> QED
            BY <5>1, <5>2 DEF Banded
        <4> QED
          BY <4>1, <4>2
      <3>2. CASE k # 1
        <4>1. k - 1 \in 1 .. n /\ g[k] = g[k - 1] \o B[k]
          <5>1. k - 1 \in 1 .. n
            BY <3>2
          <5>2. g[k] = g[k - 1] \o B[k]
            BY <3>2 DEF IsFlat
          <5> QED
            BY <5>1, <5>2
        <4>2. Banded(g[k - 1], k - 1, c) /\ g[k - 1] \in Seq(PrintedRows)
          BY <1>2, <4>1
        <4> QED
          BY <4>1, <4>2
      <3> QED
        BY <3>1, <3>2
    <2>3. Banded(s \o B[k], (k - 1) + 1, c)
      BY <2>1, <2>2, BandedConcat
    <2>4. Banded(g[k], k, c)
      BY <2>1, <2>2, <2>3
    <2> QED
      BY <2>4
  <1>3. \A k \in 0 .. n : k \in T
    <2> HIDE DEF T
    <2> QED
      BY <1>1, <1>2, Counting
  <1>4. ASSUME NEW k \in 1 .. n PROVE Banded(g[k], k, c)
    <2>1. k \in T /\ k # 0
      BY <1>3
    <2> QED
      BY <2>1
  <1> QED
    BY <1>4

-----------------------------------------------------------------------------
(* The sums of Documents *)

LEMMA SumOfIs == ASSUME NEW values PROVE D!SumOf(values) = Sum(values, DOMAIN values)
  BY DEF D!SumOf, D!MapThenSumSet, D!MapThenFoldSet, Sum, AreSums, One

\* What these items cost, and those of them that are of a day.
Prices(its) == [i \in its |-> i.price]

OfDay(its, d) == {i \in its : i.day = d}

LEMMA PriceIs ==
    ASSUME NEW its, IsFiniteSet(its), \A i \in its : i.price \in Nat
    PROVE  /\ D!PriceOf(its) = Sum(Prices(its), its)
           /\ D!PriceOf(its) \in Nat
           /\ Integral(Prices(its), its)
  <1>1. DOMAIN Prices(its) = its /\ \A i \in its : Prices(its)[i] \in Nat
    BY DEF Prices
  <1>2. D!PriceOf(its) = Sum(Prices(its), its)
    BY <1>1, SumOfIs DEF D!PriceOf, Prices
  <1>3. Integral(Prices(its), its) /\ Sum(Prices(its), its) \in Nat
    BY <1>1, SumIsNat DEF Integral
  <1> QED
    BY <1>2, <1>3

LEMMA PriceOfDay ==
    ASSUME NEW its, IsFiniteSet(its), \A i \in its : i.price \in Nat, NEW d
    PROVE  /\ D!DaySubtotal(its, d) = D!PriceOf(OfDay(its, d))
           /\ D!PriceOf(OfDay(its, d)) = Sum(Prices(its), OfDay(its, d))
           /\ D!PriceOf(OfDay(its, d)) \in Nat
           /\ IsFiniteSet(OfDay(its, d))
  <1> DEFINE S == OfDay(its, d)
             f == Prices(its)
             Adds(g) == g = [s \in SUBSET S |-> IF s = {} THEN 0
                               ELSE (CHOOSE x \in s : TRUE).price
                                      + g[s \ {CHOOSE x \in s : TRUE}]]
  <1>1. IsFiniteSet(S) /\ \A i \in S : i \in its /\ i.price \in Nat /\ f[i] = i.price
    BY FS_Subset DEF OfDay, Prices
  <1>2. D!DaySubtotal(its, d) = (CHOOSE g : Adds(g))[S]
    BY DEF D!DaySubtotal, D!MapThenSumSet, D!MapThenFoldSet, OfDay
  <1> HIDE DEF S, f
  <1>3. ASSUME NEW g PROVE Adds(g) <=> AreSums(g, f, S)
    <2>1. \A s \in SUBSET S : s # {} => f[One(s)] = One(s).price
      BY <1>1, OneOf
    <2>2. [s \in SUBSET S |-> IF s = {} THEN 0 ELSE One(s).price + g[s \ {One(s)}]]
            = [s \in SUBSET S |-> IF s = {} THEN 0 ELSE f[One(s)] + g[s \ {One(s)}]]
      BY <2>1
    <2> QED
      BY <2>2 DEF AreSums, One
  <1> HIDE DEF Adds
  <1>4. D!DaySubtotal(its, d) = Sum(f, S)
    <2>1. \E g : Adds(g)
      BY <1>1, <1>3, SumsExist
    <2> DEFINE h == CHOOSE g : Adds(g)
    <2>2. AreSums(h, f, S)
      BY <1>3, <2>1
    <2> HIDE DEF h
    <2>3. h[S] = Sum(f, S)
      BY <1>1, <2>2, SumIs
    <2> QED
      BY <1>2, <2>3 DEF h
  <1>5. D!PriceOf(S) = Sum(Prices(S), S) /\ D!PriceOf(S) \in Nat
    BY <1>1, PriceIs
  <1>6. Sum(Prices(S), S) = Sum(f, S)
    <2>1. \A i \in S : Prices(S)[i] = f[i]
      BY <1>1 DEF Prices
    <2> QED
      BY <1>1, <2>1, SumSame
  <1> QED
    BY <1>1, <1>4, <1>5, <1>6 DEF S, f

LEMMA RowSums ==
    ASSUME NEW rs \in Seq(PrintedRows), NEW K, NEW Ds
    PROVE  D!SumOfRows(rs, K, Ds) = Weight(rs, K, Ds)
  <1> DEFINE S == {m \in DOMAIN rs : rs[m].kind \in K /\ rs[m].day \in Ds}
             v == [n \in S |-> rs[n].amount]
             w == Weights(rs, K, Ds)
  <1>1. D!SumOfRows(rs, K, Ds) = Sum(v, S)
    BY SumOfIs DEF D!SumOfRows
  <1>2. IsFiniteSet(DOMAIN rs) /\ Integral(w, DOMAIN rs) /\ S \in SUBSET DOMAIN rs
    BY RowsAre
  <1>3. (\A m \in S : v[m] = w[m]) /\ \A m \in DOMAIN rs \ S : w[m] = 0
    BY DEF Weights
  <1> HIDE DEF S, v, w
  <1>4. IsFiniteSet(S)
    BY <1>2, FS_Subset
  <1>5. Sum(v, S) = Sum(w, S)
    BY <1>3, <1>4, SumSame
  <1>6. Sum(w, DOMAIN rs) = Sum(w, S)
    BY <1>2, <1>3, SumWithoutZeros
  <1> QED
    BY <1>1, <1>5, <1>6 DEF Weight, w

-----------------------------------------------------------------------------
(* The rows of Documents *)

LEMMA DocumentsCardinality == ASSUME NEW T PROVE D!Cardinality(T) = Cardinality(T)
  BY DEF D!Cardinality, Cardinality

\* There is an order, and it is by key.
LEMMA InOrderIs ==
    ASSUME NEW S, IsFiniteSet(S), NEW key, Integral(key, S)
    PROVE  Ordered(D!InOrder(S, key), S, key)
  <1> DEFINE Fits(s) == /\ s \in D!SetToSeqs(S)
                        /\ \A m, n \in DOMAIN s : m < n => key[s[m]] <= key[s[n]]
  <1>1. ASSUME NEW s PROVE Fits(s) <=> Ordered(s, S, key)
    <2>1. s \in D!SetToSeqs(S) <=>
            /\ s \in [1 .. Cardinality(S) -> S]
            /\ \A m, n \in 1 .. Cardinality(S) : m # n => s[m] # s[n]
      BY DocumentsCardinality DEF D!SetToSeqs
    <2> QED
      BY <2>1 DEF Ordered
  <1>2. D!InOrder(S, key) = CHOOSE s : Fits(s)
    BY DEF D!InOrder
  <1> HIDE DEF Fits
  <1>3. \E s : Fits(s)
    BY <1>1, OrderExists
  <1>4. Fits(CHOOSE s : Fits(s))
    BY <1>3
  <1> QED
    BY <1>1, <1>2, <1>4

\* What the lemmas on the rows ask of items.
Priced(its) ==
    IsFiniteSet(its) /\ \A i \in its : i.price \in Nat /\ i.order \in Nat /\ i.day \in Int

LEMMA ItemRowsAre ==
    ASSUME NEW its, Priced(its)
    PROVE  \E s : /\ Ordered(s, its, [i \in its |-> i.order])
                  /\ Cardinality(its) \in Nat
                  /\ D!ItemRows(its) = [m \in 1 .. Cardinality(its) |->
                                          [kind |-> "item", day |-> s[m].day, amount |-> s[m].price]]
                  /\ D!ItemRows(its) \in Seq(PrintedRows)
                  /\ Marks(D!ItemRows(its)) = {}
  <1> DEFINE key == [i \in its |-> i.order]
             s == D!InOrder(its, key)
             k == Cardinality(its)
             rs == [m \in 1 .. k |-> [kind |-> "item", day |-> s[m].day, amount |-> s[m].price]]
  <1>1. IsFiniteSet(its) /\ Integral(key, its)
    BY DEF Priced, Integral
  <1>2. D!ItemRows(its) = [m \in DOMAIN s |-> D!Row("item", s[m].day, s[m].price)]
    BY DEF D!ItemRows
  <1> HIDE DEF key
  <1>3. Ordered(s, its, key)
    BY <1>1, InOrderIs
  <1> HIDE DEF s
  <1>4. k \in Nat
    BY <1>1, FS_CardinalityType
  <1> HIDE DEF k
  <1>5. DOMAIN s = 1 .. k /\ \A m \in 1 .. k : s[m] \in its
    BY <1>3 DEF Ordered, k
  <1>6. D!ItemRows(its) = rs
    BY <1>2, <1>5 DEF D!Row
  <1>7. \A m \in 1 .. k : rs[m] \in PrintedRows /\ rs[m].kind # "subtotal"
    BY <1>5 DEF Priced, PrintedRows
  <1>8. DOMAIN rs = 1 .. k
    OBVIOUS
  <1>9. rs = [m \in 1 .. k |-> rs[m]]
    OBVIOUS
  <1> HIDE DEF rs
  <1>10. rs \in Seq(PrintedRows)
    BY <1>4, <1>7, <1>9, SeqDef
  <1>11. Marks(rs) = {}
    BY <1>7, <1>8 DEF Marks
  <1> QED
    BY <1>3, <1>4, <1>6, <1>10, <1>11 DEF key, k, rs

\* The rows of items come to what the items cost, if all of them count.
LEMMA ItemRowsWeigh ==
    ASSUME NEW its, Priced(its), NEW K, NEW Ds
    PROVE  /\ "item" \in K /\ (\A i \in its : i.day \in Ds) =>
                Weight(D!ItemRows(its), K, Ds) = D!PriceOf(its)
           /\ "item" \notin K \/ (\A i \in its : i.day \notin Ds) =>
                Weight(D!ItemRows(its), K, Ds) = 0
  <1> DEFINE key == [i \in its |-> i.order]
             k == Cardinality(its)
             rs == D!ItemRows(its)
             w == Weights(rs, K, Ds)
             f == Prices(its)
             S == 1 .. k
  <1>1. PICK s : /\ Ordered(s, its, key) /\ k \in Nat
                 /\ rs = [m \in 1 .. k |->
                            [kind |-> "item", day |-> s[m].day, amount |-> s[m].price]]
                 /\ rs \in Seq(PrintedRows) /\ Marks(rs) = {}
    <2> HIDE DEF Priced
    <2> QED
      BY ItemRowsAre
  <1>2. IsFiniteSet(its) /\ \A i \in its : i.price \in Nat
    BY DEF Priced
  <1>3. /\ IsFiniteSet(S) /\ DOMAIN rs = S
        /\ \A m \in S : s[m] \in its /\ rs[m].kind = "item" /\ rs[m].day = s[m].day
                          /\ rs[m].amount = s[m].price
        /\ \A m, n \in S : s[m] = s[n] => m = n
    <2>1. IsFiniteSet(1 .. k)
      BY <1>1, FS_Interval
    <2>2. \A m \in 1 .. k : s[m] \in its
      BY <1>1 DEF Ordered
    <2>3. \A m, n \in 1 .. k : s[m] = s[n] => m = n
      BY <1>1 DEF Ordered
    <2> QED
      BY <1>1, <2>1, <2>2, <2>3
  <1>4. {s[m] : m \in S} = its
    <2> HIDE DEF key
    <2> QED
      BY <1>1, <1>2, OrderedAll
  <1>5. D!PriceOf(its) = Sum(f, its)
    BY <1>2, PriceIs
  <1>6. Weight(rs, K, Ds) = Sum(w, S)
    BY <1>3 DEF Weight
  <1> HIDE DEF rs, S
  <1>7. ASSUME "item" \in K, \A i \in its : i.day \in Ds
        PROVE  Weight(rs, K, Ds) = D!PriceOf(its)
    <2>1. \A m \in S : w[m] = f[s[m]] /\ w[m] \in Int
      BY <1>2, <1>3, <1>7 DEF Weights, Prices
    <2> HIDE DEF w, f
    <2>2. IsFiniteSet(S) /\ \A m, n \in S : s[m] = s[n] => m = n
      BY <1>3
    <2>3. Sum(w, S) = Sum(f, {s[m] : m \in S})
      BY <2>1, <2>2, SumRenamed
    <2> QED
      BY <1>4, <1>5, <1>6, <2>3
  <1>8. ASSUME "item" \notin K \/ (\A i \in its : i.day \notin Ds)
        PROVE  Weight(rs, K, Ds) = 0
    <2>1. \A m \in S : w[m] = 0
      BY <1>3, <1>8 DEF Weights
    <2> HIDE DEF w
    <2> QED
      BY <1>3, <1>6, <2>1, SumOfZeros
  <1> QED
    BY <1>7, <1>8 DEF rs

LEMMA MarksOfConcat ==
    ASSUME NEW s \in Seq(PrintedRows), NEW t \in Seq(PrintedRows), Marks(s) = {}, Marks(t) = {}
    PROVE  Marks(s \o t) = {}
  <1> DEFINE u == s \o t
  <1>1. /\ Len(s) \in Nat /\ Len(t) \in Nat
        /\ DOMAIN s = 1 .. Len(s) /\ DOMAIN t = 1 .. Len(t)
        /\ DOMAIN u = 1 .. Len(s) + Len(t)
        /\ \A m \in DOMAIN s : u[m] = s[m]
        /\ \A m \in DOMAIN t : u[m + Len(s)] = t[m]
    BY ConcatParts
  <1> HIDE DEF u
  <1>2. ASSUME NEW m \in DOMAIN u PROVE u[m].kind # "subtotal"
    <2>1. CASE m \in DOMAIN s
      BY <1>1, <2>1 DEF Marks
    <2>2. CASE m \notin DOMAIN s
      <3>1. m - Len(s) \in DOMAIN t /\ m = (m - Len(s)) + Len(s)
        BY <1>1, <2>2
      <3>2. u[m] = t[m - Len(s)]
        BY <1>1, <3>1
      <3> QED
        BY <3>1, <3>2 DEF Marks
    <2> QED
      BY <2>1, <2>2
  <1>3. Marks(u) = {}
    BY <1>2 DEF Marks
  <1> QED
    BY <1>3 DEF u

LEMMA ClosedBy ==
    ASSUME NEW s \in Seq(PrintedRows), Marks(s) = {}, NEW r \in PrintedRows, NEW c,
           r.kind = "subtotal", r.amount = c[r.day]
    PROVE  Closed(s \o << r >>, r.day, c)
  <1> DEFINE t == << r >>
             u == s \o t
             e == Len(s) + 1
  <1>1. t \in Seq(PrintedRows) /\ Len(t) = 1 /\ t[1] = r /\ 1 \in DOMAIN t
    OBVIOUS
  <1>2. /\ Len(s) \in Nat /\ u \in Seq(PrintedRows)
        /\ DOMAIN s = 1 .. Len(s)
        /\ DOMAIN u = 1 .. Len(s) + Len(t)
        /\ \A m \in DOMAIN s : u[m] = s[m]
        /\ \A m \in DOMAIN t : u[m + Len(s)] = t[m]
    <2>1. t \in Seq(PrintedRows)
      BY <1>1
    <2> HIDE DEF t, e
    <2> QED
      BY <2>1, ConcatParts
  <1>3. DOMAIN u = 1 .. e /\ u[1 + Len(s)] = r /\ 1 + Len(s) = e
    BY <1>1, <1>2
  <1>4. Len(u) = e
    <2> HIDE DEF u
    <2> QED
      BY <1>2, <1>3, LenProperties
  <1> HIDE DEF u
  <1>5. \A m \in 1 .. e : m # e => u[m].kind # "subtotal"
    <2>1. \A m \in 1 .. e : m # e => m \in DOMAIN s
      BY <1>2
    <2> QED
      BY <1>2, <2>1 DEF Marks
  <1>6. Marks(u) = {e} /\ e > 0 /\ u[e] = r
    BY <1>2, <1>3, <1>5 DEF Marks
  <1> HIDE DEF e
  <1> QED
    BY <1>4, <1>6 DEF Closed, u

LEMMA FeeRowIs ==
    ASSUME NEW d \in Int, NEW fee \in Nat
    PROVE  D!FeeRow(d, fee) \in Seq(PrintedRows) /\ Marks(D!FeeRow(d, fee)) = {}
  <1> DEFINE r == [kind |-> "fee", day |-> d, amount |-> fee]
  <1>1. r \in PrintedRows /\ r.kind = "fee"
    BY DEF PrintedRows
  <1>2. D!FeeRow(d, fee) = IF fee > 0 THEN << r >> ELSE << >>
    BY DEF D!FeeRow, D!Row
  <1> HIDE DEF r
  <1>3. << r >> \in Seq(PrintedRows) /\ << >> \in Seq(PrintedRows)
    BY <1>1
  <1>4. Marks(<< r >>) = {} /\ Marks(<< >>) = {}
    <2>1. DOMAIN << r >> = {1} /\ << r >>[1] = r
      OBVIOUS
    <2> QED
      BY <1>1, <2>1 DEF Marks
  <1> QED
    BY <1>2, <1>3, <1>4

LEMMA FeeRowWeighs ==
    ASSUME NEW d \in Int, NEW fee \in Nat, NEW K, NEW Ds
    PROVE  Weight(D!FeeRow(d, fee), K, Ds) = IF "fee" \in K /\ d \in Ds THEN fee ELSE 0
  <1> DEFINE r == [kind |-> "fee", day |-> d, amount |-> fee]
  <1>1. r \in PrintedRows /\ r.kind = "fee" /\ r.day = d /\ r.amount = fee
    BY DEF PrintedRows
  <1>2. D!FeeRow(d, fee) = IF fee > 0 THEN << r >> ELSE << >>
    BY DEF D!FeeRow, D!Row
  <1> HIDE DEF r
  <1>3. CASE fee > 0
    BY <1>1, <1>2, <1>3, WeightOfOne
  <1>4. CASE ~ fee > 0
    <2>1. fee = 0
      BY <1>4
    <2> QED
      BY <1>2, <1>4, <2>1, WeightOfNone
  <1> QED
    BY <1>3, <1>4

\* The block of a day: its rows come to what it costs, and it ends with that.
LEMMA DayBlockIs ==
    ASSUME NEW b, Priced(b.items), NEW d \in Int, D!FeeOf(b.fees, d) \in Nat, NEW c,
           c[d] = D!PriceOf(OfDay(b.items, d)) + D!FeeOf(b.fees, d)
    PROVE  /\ D!DayBlock(b, d) \in Seq(PrintedRows)
           /\ Closed(D!DayBlock(b, d), d, c)
           /\ \A Ds : /\ Weight(D!DayBlock(b, d), {"item", "fee"}, Ds) = IF d \in Ds THEN c[d] ELSE 0
                      /\ Weight(D!DayBlock(b, d), {"discount"}, Ds) = 0
  <1> DEFINE its == OfDay(b.items, d)
             fee == D!FeeOf(b.fees, d)
             r == [kind |-> "subtotal", day |-> d, amount |-> D!PriceOf(its) + fee]
             s == D!ItemRows(its)
             t == D!FeeRow(d, fee)
             u == s \o t
             q == << r >>
  <1>1. /\ Priced(its) /\ \A i \in its : i.day = d
    BY FS_Subset DEF Priced, OfDay
  <1>2. D!DayBlock(b, d) = u \o q
    BY DEF D!DayBlock, D!Row, OfDay
  <1>3. D!PriceOf(its) \in Nat
    <2>1. IsFiniteSet(its) /\ \A i \in its : i.price \in Nat
      BY <1>1 DEF Priced
    <2> HIDE DEF its
    <2> QED
      BY <2>1, PriceIs
  <1>4. r \in PrintedRows /\ r.kind = "subtotal" /\ r.day = d /\ r.amount = c[d] /\ c[d] \in Int
    BY <1>3 DEF PrintedRows
  <1> HIDE DEF its, r
  <1>5. s \in Seq(PrintedRows) /\ Marks(s) = {}
    BY <1>1, ItemRowsAre
  <1>6. t \in Seq(PrintedRows) /\ Marks(t) = {}
    BY FeeRowIs
  <1> HIDE DEF s, t
  <1>7. u \in Seq(PrintedRows) /\ Marks(u) = {}
    BY <1>5, <1>6, MarksOfConcat, ConcatParts
  <1> HIDE DEF u
  <1>8. Closed(u \o q, d, c)
    BY <1>4, <1>7, ClosedBy
  <1>9. q \in Seq(PrintedRows) /\ u \o q \in Seq(PrintedRows)
    BY <1>4, <1>7, ConcatParts
  <1> HIDE DEF q
  <1>10. ASSUME NEW Ds, NEW K
         PROVE  Weight(u \o q, K, Ds) =
                  Weight(s, K, Ds) + (IF "fee" \in K /\ d \in Ds THEN fee ELSE 0)
                    + (IF "subtotal" \in K /\ d \in Ds THEN c[d] ELSE 0)
    <2>1. Weight(u \o q, K, Ds) = Weight(u, K, Ds) + Weight(q, K, Ds)
      BY <1>7, <1>9, WeightOfConcat
    <2>2. Weight(u, K, Ds) = Weight(s, K, Ds) + Weight(t, K, Ds)
      BY <1>5, <1>6, WeightOfConcat DEF u
    <2>3. Weight(t, K, Ds) = IF "fee" \in K /\ d \in Ds THEN fee ELSE 0
      BY FeeRowWeighs DEF t
    <2>4. Weight(q, K, Ds) = IF "subtotal" \in K /\ d \in Ds THEN c[d] ELSE 0
      <3>1. Weight(q, K, Ds) = IF r.kind \in K /\ r.day \in Ds THEN r.amount ELSE 0
        BY <1>4, WeightOfOne DEF q
      <3> QED
        BY <1>4, <3>1
    <2> QED
      BY <2>1, <2>2, <2>3, <2>4
  <1>11. ASSUME NEW Ds
         PROVE  /\ Weight(u \o q, {"item", "fee"}, Ds) = IF d \in Ds THEN c[d] ELSE 0
                /\ Weight(u \o q, {"discount"}, Ds) = 0
    <2>1. Weight(s, {"discount"}, Ds) = 0
      BY <1>1, ItemRowsWeigh DEF s
    <2>2. Weight(s, {"item", "fee"}, Ds) = IF d \in Ds THEN D!PriceOf(its) ELSE 0
      BY <1>1, ItemRowsWeigh DEF s
    <2>3. c[d] = D!PriceOf(its) + fee
      BY DEF its
    <2> HIDE DEF fee
    <2>4. Weight(u \o q, {"discount"}, Ds) = 0
      <3>1. Weight(u \o q, {"discount"}, Ds) = 0 + 0 + 0
        BY <1>10, <2>1
      <3> QED
        BY <3>1
    <2>5. Weight(u \o q, {"item", "fee"}, Ds)
            = (IF d \in Ds THEN D!PriceOf(its) ELSE 0) + (IF d \in Ds THEN fee ELSE 0) + 0
      BY <1>10, <2>2
    <2>6. fee \in Nat
      BY DEF fee
    <2> QED
      BY <1>3, <2>3, <2>4, <2>5, <2>6
  <1> QED
    BY <1>2, <1>8, <1>9, <1>11, Zenon

-----------------------------------------------------------------------------
(* What a budget comes to *)

LEMMA Finite == ASSUME NEW T PROVE D!IsFiniteSet(T) <=> IsFiniteSet(T)
  BY DEF D!IsFiniteSet, IsFiniteSet

\* Nothing is taken off that is not there.
LEMMA DiscountIs ==
    ASSUME NEW base \in Nat, NEW discount, discount.value \in Nat
    PROVE  D!DiscountAmount(base, discount) \in 0 .. base
  <1>1. ASSUME NEW x \in Int PROVE D!Clamp(x, base) \in 0 .. base
    BY DEF D!Clamp
  <1>2. D!Percent(base, discount.value) \in Int
    <2>1. base * discount.value \in Int
      OBVIOUS
    <2> DEFINE y == base * discount.value
    <2> HIDE DEF y
    <2>2. y \in Int => (y + 50) \div 100 \in Int
      OBVIOUS
    <2> QED
      BY <2>1, <2>2 DEF D!Percent, y
  <1>3. CASE discount.kind = "percentage"
    BY <1>1, <1>2, <1>3 DEF D!DiscountAmount
  <1>4. CASE discount.kind = "amount"
    BY <1>1, <1>4 DEF D!DiscountAmount
  <1>5. CASE discount.kind # "percentage" /\ discount.kind # "amount"
    BY <1>5 DEF D!DiscountAmount
  <1> QED
    BY <1>3, <1>4, <1>5

LEMMA DayTotalIs ==
    ASSUME NEW x \in Int, NEW fee \in Int, NEW discount,
           D!DiscountAmount(x + fee, discount) \in Int
    PROVE  D!DayTotal(x, fee, discount) = (x + fee) - D!DiscountAmount(x + fee, discount)
  BY DEF D!DayTotal

\* What is stored of the amounts of a budget: the lists are those of its days,
\* but for the fees and the items, which an edit of the days may leave behind.
\* The subtotal is that of all items and the total is that of the days.
PricedBudget(b) ==
    LET n == D!Length(b.days)
    IN  /\ D!IsList(b.days) /\ n \in Nat \ {0}
        /\ D!IsList(b.fees) /\ \A d \in DOMAIN b.fees : b.fees[d] \in Nat
        /\ DOMAIN b.discounts = 0 .. n - 1
        /\ \A d \in DOMAIN b.discounts : b.discounts[d].value \in Nat
        /\ IsFiniteSet(b.items) /\ \A i \in b.items : i.price \in Nat /\ i.order \in Nat
        /\ b.subtotal = D!PriceOf(b.items)
        /\ b.total = D!Total(b.items, n, b.fees, b.discounts)

\* What each day costs before its discount, and what that takes off.
Costs(b) == [d \in D!Days(b) |-> D!PriceOf(OfDay(b.items, d)) + D!FeeOf(b.fees, d)]

Offs(b) == [d \in D!Days(b) |-> D!DiscountAmount(Costs(b)[d], b.discounts[d])]

LEMMA DaysCost ==
    ASSUME NEW b, PricedBudget(b)
    PROVE  /\ D!Length(b.days) \in Nat \ {0} /\ D!Days(b) = 0 .. D!Length(b.days) - 1
           /\ IsFiniteSet(D!Days(b)) /\ DOMAIN Costs(b) = D!Days(b) /\ DOMAIN Offs(b) = D!Days(b)
           /\ \A d \in D!Days(b) :
                /\ D!FeeOf(b.fees, d) \in Nat
                /\ D!PriceOf(OfDay(b.items, d)) \in Nat
                /\ Costs(b)[d] = D!PriceOf(OfDay(b.items, d)) + D!FeeOf(b.fees, d)
                /\ Costs(b)[d] \in Nat
                /\ Offs(b)[d] = D!DiscountAmount(Costs(b)[d], b.discounts[d])
                /\ Offs(b)[d] \in 0 .. Costs(b)[d]
  <1>1. D!Length(b.days) \in Nat \ {0} /\ D!Days(b) = 0 .. D!Length(b.days) - 1
    BY DEF PricedBudget, D!Days
  <1>2. IsFiniteSet(D!Days(b))
    BY <1>1, FS_Interval
  <1>3. ASSUME NEW d \in D!Days(b)
        PROVE  /\ D!FeeOf(b.fees, d) \in Nat /\ D!PriceOf(OfDay(b.items, d)) \in Nat
               /\ b.discounts[d].value \in Nat
    <2>1. D!FeeOf(b.fees, d) \in Nat
      BY DEF PricedBudget, D!FeeOf
    <2>2. D!PriceOf(OfDay(b.items, d)) \in Nat
      BY PriceOfDay DEF PricedBudget
    <2>3. b.discounts[d].value \in Nat
      BY <1>1 DEF PricedBudget
    <2> QED
      BY <2>1, <2>2, <2>3
  <1>4. ASSUME NEW d \in D!Days(b)
        PROVE  /\ Costs(b)[d] = D!PriceOf(OfDay(b.items, d)) + D!FeeOf(b.fees, d)
               /\ Costs(b)[d] \in Nat
    BY <1>3 DEF Costs
  <1>5. ASSUME NEW d \in D!Days(b)
        PROVE  /\ Offs(b)[d] = D!DiscountAmount(Costs(b)[d], b.discounts[d])
               /\ Offs(b)[d] \in 0 .. Costs(b)[d]
    <2>1. Offs(b)[d] = D!DiscountAmount(Costs(b)[d], b.discounts[d])
      BY DEF Offs
    <2> QED
      BY <1>3, <1>4, <2>1, DiscountIs
  <1>6. DOMAIN Costs(b) = D!Days(b) /\ DOMAIN Offs(b) = D!Days(b)
    BY DEF Costs, Offs
  <1> QED
    BY <1>1, <1>2, <1>3, <1>4, <1>5, <1>6

\* The total is what the days cost, less the discounts.
LEMMA TotalIs ==
    ASSUME NEW b, PricedBudget(b)
    PROVE  /\ Sum(Costs(b), D!Days(b)) \in Nat
           /\ Sum(Offs(b), D!Days(b)) \in Nat
           /\ b.total = Sum(Costs(b), D!Days(b)) - Sum(Offs(b), D!Days(b))
           /\ b.total \in Nat
  <1> DEFINE S == D!Days(b)
             c == Costs(b)
             off == Offs(b)
             t == [d \in S |-> D!DayTotal(D!DaySubtotal(b.items, d), D!FeeOf(b.fees, d),
                                          b.discounts[d])]
  <1>1. IsFiniteSet(S) /\ \A d \in S : c[d] \in Nat /\ off[d] \in 0 .. c[d]
    BY DaysCost
  <1>2. b.total = D!SumOf(t) /\ DOMAIN t = S
    BY DEF PricedBudget, D!Total, D!Days
  <1>3. b.total = Sum(t, S)
    <2> HIDE DEF t, S
    <2> QED
      BY <1>2, SumOfIs
  <1>4. ASSUME NEW d \in S PROVE t[d] = c[d] - off[d]
    <2>1. t[d] = D!DayTotal(D!DaySubtotal(b.items, d), D!FeeOf(b.fees, d), b.discounts[d])
      OBVIOUS
    <2>2. D!DaySubtotal(b.items, d) = D!PriceOf(OfDay(b.items, d))
      BY PriceOfDay DEF PricedBudget
    <2>3. /\ c[d] = D!PriceOf(OfDay(b.items, d)) + D!FeeOf(b.fees, d)
          /\ off[d] = D!DiscountAmount(c[d], b.discounts[d])
          /\ D!PriceOf(OfDay(b.items, d)) \in Nat /\ D!FeeOf(b.fees, d) \in Nat
          /\ off[d] \in Int
      BY DaysCost
    <2> HIDE DEF S, c, off, t
    <2> QED
      BY <2>1, <2>2, <2>3, DayTotalIs
  <1> HIDE DEF S, c, off, t
  <1>5. Sum(c, S) \in Nat /\ Sum(off, S) \in Nat
    <2>1. \A d \in S : c[d] \in Nat /\ off[d] \in Nat
      BY <1>1
    <2> QED
      BY <1>1, <2>1, SumIsNat
  <1>6. Sum(c, S) = Sum(t, S) + Sum(off, S) /\ Sum(t, S) \in Int
    <2>1. Integral(t, S) /\ Integral(off, S) /\ \A d \in S : c[d] = t[d] + off[d]
      BY <1>1, <1>4 DEF Integral
    <2> QED
      BY <1>1, <2>1, SumOfSums, SumIsInt
  <1>7. b.total = Sum(c, S) - Sum(off, S)
    BY <1>3, <1>5, <1>6
  <1>8. b.total \in Nat
    <2>1. \A d \in S : t[d] \in Nat
      BY <1>1, <1>4
    <2> QED
      BY <1>1, <1>3, <2>1, SumIsNat
  <1> QED
    BY <1>5, <1>7, <1>8 DEF S, c, off

\* The discount that is printed is the one that was taken off, wherever the
\* items are taken to be, as long as each day has its own.
LEMMA SummaryIs ==
    ASSUME NEW b, PricedBudget(b), NEW dayOf,
           \A d \in D!Days(b) : {i \in b.items : dayOf[i] = d} = OfDay(b.items, d)
    PROVE  D!DiscountSummary(b, dayOf) = Sum(Offs(b), D!Days(b))
  <1> DEFINE S == D!Days(b)
             off == Offs(b)
             t == [d \in S |-> D!DayDiscount({i \in b.items : dayOf[i] = d},
                                             D!FeeOf(b.fees, d), b.discounts[d])]
  <1>1. D!DiscountSummary(b, dayOf) = D!SumOf(t) /\ DOMAIN t = S
    BY DEF D!DiscountSummary
  <1>2. ASSUME NEW d \in S PROVE t[d] = off[d]
    <2>1. t[d] = D!DayDiscount(OfDay(b.items, d), D!FeeOf(b.fees, d), b.discounts[d])
      OBVIOUS
    <2>2. /\ Costs(b)[d] = D!PriceOf(OfDay(b.items, d)) + D!FeeOf(b.fees, d)
          /\ off[d] = D!DiscountAmount(Costs(b)[d], b.discounts[d])
      BY DaysCost
    <2> QED
      BY <2>1, <2>2 DEF D!DayDiscount
  <1>3. IsFiniteSet(S)
    BY DaysCost
  <1> HIDE DEF S, t, off
  <1>4. D!SumOf(t) = Sum(t, S)
    BY <1>1, SumOfIs
  <1>5. Sum(t, S) = Sum(off, S)
    BY <1>2, <1>3, SumSame
  <1> QED
    BY <1>1, <1>4, <1>5 DEF S, off

LEMMA DiscountRowIs ==
    ASSUME NEW amount \in Nat
    PROVE  LET s == IF amount > 0 THEN << D!Row("discount", 0, amount) >> ELSE << >>
           IN  /\ s \in Seq(PrintedRows) /\ Marks(s) = {}
               /\ \A Ds : Weight(s, {"item", "fee"}, Ds) = 0
               /\ Weight(s, {"discount"}, {0}) = amount
  <1> DEFINE r == [kind |-> "discount", day |-> 0, amount |-> amount]
             q == << r >>
  <1>1. r \in PrintedRows /\ r.kind = "discount" /\ r.day = 0 /\ r.amount = amount
    BY DEF PrintedRows
  <1>2. D!Row("discount", 0, amount) = r
    BY DEF D!Row
  <1> HIDE DEF r
  <1>3. CASE amount > 0
    <2>1. DOMAIN q = {1} /\ q[1] = r
      OBVIOUS
    <2>2. q \in Seq(PrintedRows)
          /\ \A K, Ds : Weight(q, K, Ds) = IF r.kind \in K /\ r.day \in Ds THEN r.amount ELSE 0
      BY <1>1, WeightOfOne
    <2>3. Marks(q) = {}
      BY <1>1, <2>1 DEF Marks
    <2>4. (\A Ds : Weight(q, {"item", "fee"}, Ds) = 0) /\ Weight(q, {"discount"}, {0}) = amount
      <3> HIDE DEF q
      <3> QED
        BY <1>1, <2>2
    <2> QED
      BY <1>2, <1>3, <2>2, <2>3, <2>4
  <1>4. CASE ~ amount > 0
    <2>1. amount = 0 /\ Marks(<< >>) = {}
      BY <1>4 DEF Marks
    <2> QED
      BY <1>4, <2>1, WeightOfNone
  <1> QED
    BY <1>3, <1>4

\* Rows without a subtotal after the days leave those of the days.
LEMMA BandedStays ==
    ASSUME NEW s \in Seq(PrintedRows), NEW t \in Seq(PrintedRows), NEW k, NEW c,
           Banded(s, k, c), Marks(t) = {}
    PROVE  Banded(s \o t, k, c)
  <1> DEFINE u == s \o t
  <1>1. /\ Len(s) \in Nat /\ Len(t) \in Nat
        /\ DOMAIN s = 1 .. Len(s) /\ DOMAIN t = 1 .. Len(t)
        /\ DOMAIN u = 1 .. Len(s) + Len(t)
        /\ \A m \in DOMAIN s : u[m] = s[m]
        /\ \A m \in DOMAIN t : u[m + Len(s)] = t[m]
    BY ConcatParts
  <1> HIDE DEF u
  <1>2. ASSUME NEW m \in DOMAIN u, m \notin DOMAIN s PROVE u[m].kind # "subtotal"
    <2>1. m - Len(s) \in DOMAIN t /\ m = (m - Len(s)) + Len(s)
      BY <1>1, <1>2
    <2>2. u[m] = t[m - Len(s)]
      BY <1>1, <2>1
    <2> QED
      BY <2>1, <2>2 DEF Marks
  <1>3. \A m \in DOMAIN s : m \in DOMAIN u /\ u[m] = s[m]
    BY <1>1
  <1>4. Marks(u) = Marks(s) /\ \A m \in Marks(s) : u[m] = s[m]
    BY <1>2, <1>3 DEF Marks
  <1>5. Banded(u, k, c)
    BY <1>4 DEF Banded
  <1> QED
    BY <1>5 DEF u

-----------------------------------------------------------------------------
(* The rows of a proposal and its total *)

LEMMA FitsAre ==
    ASSUME NEW b, PricedBudget(b), D!FitsDays(b)
    PROVE  /\ Priced(b.items)
           /\ {i.day : i \in b.items} = D!Days(b)
           /\ DOMAIN b.fees = D!Days(b)
           /\ \A d \in D!Days(b) : b.fees[d] \in Nat /\ D!FeeOf(b.fees, d) = b.fees[d]
  <1>1. {i.day : i \in b.items} = D!Days(b) /\ DOMAIN b.fees = D!Days(b)
    BY DEF D!FitsDays, D!ItemsCover, D!Days
  <1>2. \A d \in D!Days(b) : d \in Int
    BY DaysCost
  <1>3. \A i \in b.items : i.day \in {j.day : j \in b.items}
    OBVIOUS
  <1>4. \A i \in b.items : i.day \in Int
    BY <1>1, <1>2, <1>3
  <1>5. Priced(b.items)
    BY <1>4 DEF Priced, PricedBudget
  <1>6. \A d \in D!Days(b) : b.fees[d] \in Nat /\ D!FeeOf(b.fees, d) = b.fees[d]
    BY <1>1 DEF PricedBudget, D!FeeOf
  <1> QED
    BY <1>1, <1>5, <1>6

LEMMA FlattenIs ==
    ASSUME NEW n \in Nat \ {0}, NEW B, DOMAIN B = 1 .. n, Len(B) = n
    PROVE  \E g : IsFlat(g, B, n) /\ D!FlattenSeq(B) = g[n]
  <1> DEFINE g == CHOOSE h : IsFlat(h, B, n)
  <1>1. IsFlat(g, B, n)
    BY FlatExists
  <1>2. D!FlattenSeq(B) = (CHOOSE h : h = [i \in 1 .. Len(B) |->
                             IF i = 1 THEN B[i] ELSE h[i - 1] \o B[i]])[Len(B)]
    BY DEF D!FlattenSeq
  <1>3. D!FlattenSeq(B) = g[n]
    BY <1>2 DEF IsFlat
  <1> HIDE DEF g
  <1> QED
    BY <1>1, <1>3

\* The blocks of the days.
Blocks(b) ==
    LET days == {i.day : i \in b.items}
        ordered == D!InOrder(days, [d \in days |-> d])
    IN  [m \in DOMAIN ordered |-> D!DayBlock(b, ordered[m])]

LEMMA BlocksAre ==
    ASSUME NEW b, PricedBudget(b), D!FitsDays(b)
    PROVE  Blocks(b) = [m \in 1 .. D!Length(b.days) |-> D!DayBlock(b, m - 1)]
  <1> DEFINE n == D!Length(b.days)
             days == {i.day : i \in b.items}
             key == [d \in days |-> d]
             s == D!InOrder(days, key)
  <1>1. n \in Nat /\ days = 0 .. n - 1
    BY DaysCost, FitsAre
  <1> HIDE DEF n, days
  <1>2. IsFiniteSet(days) /\ Integral(key, days) /\ \A d \in 0 .. n - 1 : key[d] = d
    <2>1. IsFiniteSet(days)
      BY <1>1, FS_Interval
    <2> QED
      BY <1>1, <2>1 DEF Integral
  <1> HIDE DEF key
  <1>3. Ordered(s, days, key)
    BY <1>2, InOrderIs
  <1> HIDE DEF s
  <1>4. s \in [1 .. n -> 0 .. n - 1] /\ \A m \in 1 .. n : s[m] = m - 1
    BY <1>1, <1>2, <1>3, DaysInOrder
  <1>5. [m \in DOMAIN s |-> D!DayBlock(b, s[m])] = [m \in 1 .. n |-> D!DayBlock(b, m - 1)]
    BY <1>4
  <1>6. Blocks(b) = [m \in DOMAIN s |-> D!DayBlock(b, s[m])]
    BY DEF Blocks, s, key, days
  <1> QED
    BY <1>5, <1>6 DEF n

\* The blocks of the days have a subtotal each and come to what the days cost.
LEMMA BlockRows ==
    ASSUME NEW b, PricedBudget(b), D!FitsDays(b)
    PROVE  \E body \in Seq(PrintedRows) :
             /\ D!FlattenSeq(Blocks(b)) = body
             /\ Banded(body, D!Length(b.days), Costs(b))
             /\ Weight(body, {"item", "fee"}, D!Days(b)) = Sum(Costs(b), D!Days(b))
             /\ \A d \in D!Days(b) : Weight(body, {"item", "fee"}, {d}) = Costs(b)[d]
             /\ \A Ds : Weight(body, {"discount"}, Ds) = 0
  <1> DEFINE n == D!Length(b.days)
             B == Blocks(b)
             c == Costs(b)
             S == D!Days(b)
  <1>1. n \in Nat \ {0} /\ S = 0 .. n - 1 /\ IsFiniteSet(S) /\ \A d \in S : c[d] \in Nat
    BY DaysCost
  <1>2. \A m \in 1 .. n : m - 1 \in S
    BY <1>1
  <1>3. B = [m \in 1 .. n |-> D!DayBlock(b, m - 1)]
    BY BlocksAre
  <1>4. ASSUME NEW m \in 1 .. n
        PROVE  /\ B[m] \in Seq(PrintedRows) /\ Closed(B[m], m - 1, c)
               /\ \A Ds : /\ Weight(B[m], {"item", "fee"}, Ds) = IF m - 1 \in Ds THEN c[m - 1] ELSE 0
                          /\ Weight(B[m], {"discount"}, Ds) = 0
    <2> DEFINE d == m - 1
    <2>1. d \in Int /\ d \in S /\ B[m] = D!DayBlock(b, d)
      BY <1>2, <1>3
    <2> HIDE DEF d
    <2>2. D!FeeOf(b.fees, d) \in Nat /\ c[d] = D!PriceOf(OfDay(b.items, d)) + D!FeeOf(b.fees, d)
      BY <2>1, DaysCost
    <2>3. Priced(b.items)
      BY FitsAre
    <2> HIDE DEF c, S, B
    <2>4. /\ D!DayBlock(b, d) \in Seq(PrintedRows) /\ Closed(D!DayBlock(b, d), d, c)
          /\ \A Ds : /\ Weight(D!DayBlock(b, d), {"item", "fee"}, Ds) = IF d \in Ds THEN c[d] ELSE 0
                     /\ Weight(D!DayBlock(b, d), {"discount"}, Ds) = 0
      BY <2>1, <2>2, <2>3, DayBlockIs
    <2> QED
      BY <2>1, <2>4 DEF d
  <1>5. DOMAIN B = 1 .. n /\ B = [m \in 1 .. n |-> B[m]]
    BY <1>3
  <1> HIDE DEF B, S, c, n
  <1>6. Len(B) = n
    <2>1. B \in Seq({B[m] : m \in 1 .. n})
      BY <1>1, <1>5, SeqDef
    <2> QED
      BY <1>1, <1>5, <2>1, LenProperties
  <1>7. PICK g : IsFlat(g, B, n) /\ D!FlattenSeq(B) = g[n]
    BY <1>1, <1>5, <1>6, FlattenIs
  <1>8. n \in Nat /\ n \in 1 .. n /\ \A m \in 1 .. n : B[m] \in Seq(PrintedRows)
    BY <1>1, <1>4
  <1>9. \A k \in 1 .. n : g[k] \in Seq(PrintedRows)
    <2> DEFINE v == [m \in 1 .. n |-> Weight(B[m], {}, {})]
    <2>1. BlocksWeigh(B, n, {}, {}, v)
      BY <1>8 DEF BlocksWeigh
    <2> HIDE DEF v
    <2> QED
      BY <1>7, <1>8, <2>1, FlatRows
  <1>10. Banded(g[n], n, c)
    <2>1. \A k \in 1 .. n : Banded(g[k], k, c)
      BY <1>4, <1>7, <1>8, <1>9, FlatBanded
    <2> QED
      BY <1>8, <2>1
  <1>11. ASSUME NEW Ds
         PROVE  /\ Weight(g[n], {"discount"}, Ds) = 0
                /\ Ds \subseteq S => Weight(g[n], {"item", "fee"}, Ds) = Sum(c, Ds)
    <2>1. Weight(g[n], {"discount"}, Ds) = 0
      <3> DEFINE v == [m \in 1 .. n |-> 0]
      <3>1. \A m \in 1 .. n : v[m] = 0
        OBVIOUS
      <3> HIDE DEF v
      <3>2. BlocksWeigh(B, n, {"discount"}, Ds, v)
        BY <1>4, <3>1 DEF BlocksWeigh
      <3>3. Weight(g[n], {"discount"}, Ds) = Sum(v, 1 .. n)
        <4>1. \A k \in 1 .. n : Weight(g[k], {"discount"}, Ds) = Sum(v, 1 .. k)
          BY <1>7, <1>8, <3>2, FlatRows
        <4> QED
          BY <1>8, <4>1
      <3>4. IsFiniteSet(1 .. n)
        BY <1>8, FS_Interval
      <3> QED
        BY <3>1, <3>3, <3>4, SumOfZeros
    <2>2. ASSUME Ds \subseteq S
          PROVE  Weight(g[n], {"item", "fee"}, Ds) = Sum(c, Ds)
      <3> DEFINE v == [m \in 1 .. n |-> IF m - 1 \in Ds THEN c[m - 1] ELSE 0]
                 u == [d \in S |-> IF d \in Ds THEN c[d] ELSE 0]
                 p == [m \in 1 .. n |-> m - 1]
                 N == 1 .. n
      <3>1. BlocksWeigh(B, n, {"item", "fee"}, Ds, v)
        BY <1>4 DEF BlocksWeigh
      <3>2. \A m \in N : v[m] = u[p[m]] /\ v[m] \in Int
        <4>1. ASSUME NEW m \in N PROVE v[m] = u[p[m]] /\ v[m] \in Int
          <5>1. p[m] = m - 1 /\ m - 1 \in S /\ v[m] = IF m - 1 \in Ds THEN c[m - 1] ELSE 0
            BY <1>2
          <5>2. u[m - 1] = IF m - 1 \in Ds THEN c[m - 1] ELSE 0
            BY <5>1
          <5> HIDE DEF u, v, p
          <5> QED
            BY <1>1, <5>1, <5>2
        <4> QED
          BY <4>1
      <3>3. IsFiniteSet(N) /\ \A l, m \in N : p[l] = p[m] => l = m
        BY <1>8, FS_Interval
      <3>4. {p[m] : m \in N} = S
        <4>1. \A m \in N : p[m] \in S
          BY <1>2
        <4>2. ASSUME NEW d \in S PROVE \E m \in N : p[m] = d
          <5>1. d + 1 \in N /\ p[d + 1] = d
            BY <1>1
          <5> QED
            BY <5>1
        <4> HIDE DEF p, N
        <4> QED
          BY <4>1, <4>2
      <3>5. (\A d \in Ds : u[d] = c[d]) /\ (\A d \in S \ Ds : u[d] = 0) /\ \A d \in S : u[d] \in Int
        BY <1>1, <2>2
      <3> HIDE DEF u, v, p
      <3>6. Weight(g[n], {"item", "fee"}, Ds) = Sum(v, 1 .. n)
        <4>1. \A k \in 1 .. n : Weight(g[k], {"item", "fee"}, Ds) = Sum(v, 1 .. k)
          BY <1>7, <1>8, <3>1, FlatRows
        <4> QED
          BY <1>8, <4>1
      <3>7. Sum(v, N) = Sum(u, S)
        <4> HIDE DEF N
        <4>1. Sum(v, N) = Sum(u, {p[m] : m \in N})
          BY <3>2, <3>3, SumRenamed
        <4> QED
          BY <3>4, <4>1
      <3>8. Integral(u, S) /\ IsFiniteSet(Ds)
        BY <1>1, <2>2, <3>5, FS_Subset DEF Integral
      <3>9. Sum(u, S) = Sum(u, Ds)
        BY <1>1, <2>2, <3>5, <3>8, SumWithoutZeros
      <3>10. Sum(u, Ds) = Sum(c, Ds)
        BY <3>5, <3>8, SumSame
      <3> QED
        BY <3>6, <3>7, <3>9, <3>10
    <2> QED
      BY <2>1, <2>2
  <1>12. \A d \in S : Weight(g[n], {"item", "fee"}, {d}) = c[d]
    <2>1. ASSUME NEW d \in S PROVE Weight(g[n], {"item", "fee"}, {d}) = c[d]
      <3>1. {d} \subseteq S /\ c[d] \in Int
        BY <1>1
      <3>2. Weight(g[n], {"item", "fee"}, {d}) = Sum(c, {d})
        BY <1>11, <3>1
      <3> QED
        BY <3>1, <3>2, SumOfSingle
    <2> QED
      BY <2>1
  <1>13. g[n] \in Seq(PrintedRows) /\ Weight(g[n], {"item", "fee"}, S) = Sum(c, S)
    BY <1>8, <1>9, <1>11
  <1> QED
    BY <1>7, <1>10, <1>11, <1>12, <1>13 DEF B, S, c, n

\* So do the rows of a single day.
LEMMA OneDayRows ==
    ASSUME NEW b, PricedBudget(b), D!FitsDays(b), D!Length(b.days) = 1
    PROVE  /\ 0 \in D!Days(b) /\ D!Days(b) = {0} /\ OfDay(b.items, 0) = b.items
           /\ Sum(Costs(b), D!Days(b)) = D!PriceOf(b.items) + D!SumOf(b.fees)
           /\ D!PriceOf(b.items) \in Nat /\ D!SumOf(b.fees) \in Nat
           /\ \E body \in Seq(PrintedRows) :
                /\ D!ItemRows(b.items) \o D!FeeRow(0, D!SumOf(b.fees)) = body
                /\ Weight(body, {"item", "fee"}, D!Days(b)) = Sum(Costs(b), D!Days(b))
                /\ \A Ds : Weight(body, {"discount"}, Ds) = 0
  <1> DEFINE its == b.items
             fee == D!SumOf(b.fees)
             s == D!ItemRows(its)
             t == D!FeeRow(0, fee)
             c == Costs(b)
  <1>1. D!Days(b) = {0}
    BY DaysCost
  <1>2. Priced(its) /\ \A i \in its : i.day = 0
    <2>1. {i.day : i \in its} = {0} /\ Priced(its)
      BY <1>1, FitsAre
    <2> QED
      BY <2>1
  <1>3. OfDay(its, 0) = its
    BY <1>2 DEF OfDay
  <1>4. fee = b.fees[0] /\ fee \in Nat /\ D!FeeOf(b.fees, 0) = fee
    <2>1. DOMAIN b.fees = {0} /\ b.fees[0] \in Nat /\ D!FeeOf(b.fees, 0) = b.fees[0]
      BY <1>1, FitsAre
    <2>2. D!SumOf(b.fees) = Sum(b.fees, {0})
      BY <2>1, SumOfIs
    <2>3. Sum(b.fees, {0}) = b.fees[0]
      BY <2>1, SumOfSingle
    <2> QED
      BY <2>1, <2>2, <2>3
  <1>5. c[0] = D!PriceOf(its) + fee /\ D!PriceOf(its) \in Nat
    <2>1. 0 \in D!Days(b)
      BY <1>1
    <2> QED
      BY <1>3, <1>4, <2>1, DaysCost
  <1> HIDE DEF its, fee, c
  <1>6. Sum(c, {0}) = c[0]
    BY <1>4, <1>5, SumOfSingle
  <1>7. s \in Seq(PrintedRows) /\ t \in Seq(PrintedRows)
    <2>1. s \in Seq(PrintedRows)
      BY <1>2, ItemRowsAre
    <2>2. t \in Seq(PrintedRows)
      <3>1. 0 \in Int /\ fee \in Nat
        BY <1>4
      <3>2. D!FeeRow(0, fee) \in Seq(PrintedRows)
        BY <3>1, FeeRowIs
      <3> QED
        BY <3>2
    <2> QED
      BY <2>1, <2>2
  <1>8. ASSUME NEW K, NEW Ds PROVE Weight(s \o t, K, Ds) = Weight(s, K, Ds) + Weight(t, K, Ds)
    <2> HIDE DEF s, t
    <2> QED
      BY <1>7, WeightOfConcat
  <1>9. s \o t \in Seq(PrintedRows)
    <2> HIDE DEF s, t
    <2> QED
      BY <1>7, ConcatParts
  <1>10. Weight(s \o t, {"item", "fee"}, {0}) = D!PriceOf(its) + fee
    <2>1. Weight(s, {"item", "fee"}, {0}) = D!PriceOf(its)
      BY <1>2, ItemRowsWeigh
    <2>2. Weight(t, {"item", "fee"}, {0}) = fee
      BY <1>4, FeeRowWeighs
    <2> QED
      BY <1>8, <2>1, <2>2
  <1>11. ASSUME NEW Ds PROVE Weight(s \o t, {"discount"}, Ds) = 0
    <2>1. Weight(s, {"discount"}, Ds) = 0
      BY <1>2, ItemRowsWeigh
    <2>2. Weight(t, {"discount"}, Ds) = 0
      BY <1>4, FeeRowWeighs
    <2> QED
      BY <1>8, <2>1, <2>2
  <1> QED
    BY <1>1, <1>3, <1>4, <1>5, <1>6, <1>9, <1>10, <1>11 DEF its, fee, c

\* So the rows add up to the total, and to the sums of the mail.
LEMMA PricedAddsUp ==
    ASSUME PricedBudget(budget)
    PROVE  ProposalAddsUp
  <1> SUFFICES ASSUME D!FitsDays(budget)
               PROVE  D!ProposalAddsUp
    BY DEF ProposalAddsUp, D!ProposalAddsUp
  <1> DEFINE n == D!Length(budget.days)
             S == D!Days(budget)
             c == Costs(budget)
             priced == Sum(c, S)
             off == Sum(Offs(budget), S)
             dayOf == [i \in budget.items |-> i.day]
             rs == D!Rows(budget)
             body == IF n = 1 THEN D!ItemRows(budget.items) \o D!FeeRow(0, D!SumOf(budget.fees))
                     ELSE D!FlattenSeq(Blocks(budget))
             last == IF off > 0 THEN << D!Row("discount", 0, off) >> ELSE << >>
             Counted == {"item", "fee"}
  <1>1. /\ n \in Nat \ {0} /\ S = 0 .. n - 1 /\ \A d \in S : c[d] \in Nat
        /\ priced \in Nat /\ off \in Nat /\ budget.total = priced - off
    BY DaysCost, TotalIs
  <1>2. D!DiscountSummary(budget, dayOf) = off
    <2>1. \A d \in S : {i \in budget.items : dayOf[i] = d} = OfDay(budget.items, d)
      BY DEF OfDay
    <2> HIDE DEF dayOf
    <2> QED
      BY <2>1, SummaryIs
  <1>3. rs = body \o last
    BY <1>2 DEF D!Rows, Blocks
  <1>4. /\ body \in Seq(PrintedRows)
        /\ Weight(body, Counted, S) = priced
        /\ \A Ds : Weight(body, {"discount"}, Ds) = 0
        /\ n > 1 => /\ Banded(body, n, c)
                    /\ \A d \in S : Weight(body, Counted, {d}) = c[d]
    <2>1. CASE n = 1
      <3>1. PICK x \in Seq(PrintedRows) :
              /\ D!ItemRows(budget.items) \o D!FeeRow(0, D!SumOf(budget.fees)) = x
              /\ Weight(x, Counted, S) = priced
              /\ \A Ds : Weight(x, {"discount"}, Ds) = 0
        BY <2>1, OneDayRows
      <3>2. body = x
        BY <2>1, <3>1
      <3> HIDE DEF body
      <3> QED
        BY <2>1, <3>1, <3>2
    <2>2. CASE n # 1
      <3>1. PICK x \in Seq(PrintedRows) :
              /\ D!FlattenSeq(Blocks(budget)) = x
              /\ Banded(x, n, c)
              /\ Weight(x, Counted, S) = priced
              /\ \A d \in S : Weight(x, Counted, {d}) = c[d]
              /\ \A Ds : Weight(x, {"discount"}, Ds) = 0
        BY BlockRows
      <3>2. body = x
        BY <2>2, <3>1
      <3> HIDE DEF body
      <3> QED
        BY <3>1, <3>2
    <2> QED
      BY <2>1, <2>2
  <1>5. /\ last \in Seq(PrintedRows) /\ Marks(last) = {}
        /\ \A Ds : Weight(last, Counted, Ds) = 0
        /\ Weight(last, {"discount"}, {0}) = off
    <2> HIDE DEF off
    <2> QED
      BY <1>1, DiscountRowIs
  <1> HIDE DEF body, last, rs
  <1>6. rs \in Seq(PrintedRows)
    BY <1>3, <1>4, <1>5, ConcatParts
  <1>7. \A K, Ds : /\ D!SumOfRows(rs, K, Ds) = Weight(body, K, Ds) + Weight(last, K, Ds)
    <2>1. ASSUME NEW K, NEW Ds
          PROVE  D!SumOfRows(rs, K, Ds) = Weight(body, K, Ds) + Weight(last, K, Ds)
      <3>1. D!SumOfRows(rs, K, Ds) = Weight(rs, K, Ds)
        BY <1>6, RowSums
      <3>2. Weight(body \o last, K, Ds) = Weight(body, K, Ds) + Weight(last, K, Ds)
        BY <1>4, <1>5, WeightOfConcat
      <3> QED
        BY <1>3, <3>1, <3>2
    <2> QED
      BY <2>1
  <1>8. D!SumOfRows(rs, Counted, S) - D!SumOfRows(rs, {"discount"}, {0}) = budget.total
    <2>1. D!SumOfRows(rs, Counted, S) = priced + 0
      BY <1>4, <1>5, <1>7
    <2>2. D!SumOfRows(rs, {"discount"}, {0}) = 0 + off
      BY <1>4, <1>5, <1>7
    <2> HIDE DEF priced, off
    <2> QED
      BY <1>1, <2>1, <2>2
  <1>9. ASSUME n = 1 PROVE D!MailAddsUp
    <2>1. /\ S = {0} /\ OfDay(budget.items, 0) = budget.items
          /\ priced = D!PriceOf(budget.items) + D!SumOf(budget.fees)
          /\ D!PriceOf(budget.items) \in Nat /\ D!SumOf(budget.fees) \in Nat
      BY <1>9, OneDayRows
    <2> DEFINE mailed == D!DayInMail(budget.items)
    <2>2. \A d \in S : {i \in budget.items : mailed[i] = d} = OfDay(budget.items, d)
      BY <2>1 DEF D!DayInMail
    <2> HIDE DEF mailed
    <2>3. D!DiscountSummary(budget, mailed) = off
      BY <2>2, SummaryIs
    <2>4. budget.subtotal = D!PriceOf(budget.items)
      BY DEF PricedBudget
    <2> HIDE DEF priced, off, S, n
    <2> DEFINE mail == D!Mail(budget)
    <2>5. /\ mail.subtotal = D!PriceOf(budget.items) /\ mail.fees = D!SumOf(budget.fees)
          /\ mail.discount = off /\ mail.total = budget.total
      BY <2>3, <2>4 DEF D!Mail, mailed
    <2>6. D!MailAddsUp <=> mail.subtotal + mail.fees - mail.discount = mail.total
      BY DEF D!MailAddsUp
    <2> HIDE DEF mail
    <2> QED
      BY <1>1, <2>1, <2>5, <2>6
  <1>10. ASSUME n > 1
         PROVE  /\ {rs[m].day : m \in Marks(rs)} = S
                /\ \A l, m \in Marks(rs) : l < m => rs[l].day < rs[m].day
                /\ \A m \in Marks(rs) : rs[m].amount = D!SumOfRows(rs, Counted, {rs[m].day})
    <2>1. Banded(rs, n, c)
      BY <1>3, <1>4, <1>5, <1>10, BandedStays
    <2>2. \A m \in Marks(rs) : rs[m].day \in S /\ rs[m].amount = c[rs[m].day]
      <3>1. \A m \in Marks(rs) : rs[m].day \in {rs[l].day : l \in Marks(rs)}
        OBVIOUS
      <3> QED
        BY <1>1, <2>1, <3>1 DEF Banded
    <2>3. ASSUME NEW d \in S PROVE D!SumOfRows(rs, Counted, {d}) = c[d]
      <3>1. D!SumOfRows(rs, Counted, {d}) = c[d] + 0
        BY <1>4, <1>5, <1>7, <1>10
      <3>2. c[d] \in Nat
        BY <1>1
      <3> QED
        BY <3>1, <3>2
    <2>4. \A m \in Marks(rs) : rs[m].amount = D!SumOfRows(rs, Counted, {rs[m].day})
      BY <2>2, <2>3
    <2> QED
      BY <1>1, <2>1, <2>4 DEF Banded
  <1>11. D!Proposal(budget).rows = rs
    BY DEF D!Proposal, rs
  <1> HIDE DEF n, S
  <1> QED
    BY <1>8, <1>9, <1>10, <1>11 DEF D!ProposalAddsUp, Marks, n, S

-----------------------------------------------------------------------------
(* Amounts as budgets are saved *)

PricedInv == budget # D!NoBudget => PricedBudget(budget)

LEMMA ListIs == ASSUME NEW l, D!IsList(l) PROVE D!Length(l) \in Nat
  <1>1. IsFiniteSet(DOMAIN l) /\ D!Length(l) = Cardinality(DOMAIN l)
    BY Finite, DocumentsCardinality DEF D!IsList, D!Length
  <1> QED
    BY <1>1, FS_CardinalityType

\* If every item is of a day that exists, the days' subtotals are those of all.
LEMMA SubtotalIs ==
    ASSUME NEW its, IsFiniteSet(its), \A i \in its : i.price \in Nat,
           NEW n \in Nat, D!ItemsCover(its, n)
    PROVE  D!Subtotal(its, n) = D!PriceOf(its)
  <1> DEFINE S == 0 .. n - 1
             h == [d \in S |-> D!DaySubtotal(its, d)]
             dayOf == [i \in its |-> i.day]
             f == Prices(its)
  <1>1. D!Subtotal(its, n) = D!SumOf(h) /\ DOMAIN h = S
    BY DEF D!Subtotal
  <1>2. IsFiniteSet(S)
    BY FS_Interval
  <1>3. \A i \in its : dayOf[i] \in S
    <2>1. \A i \in its : i.day \in {j.day : j \in its}
      OBVIOUS
    <2> QED
      BY <2>1 DEF D!ItemsCover
  <1>4. ASSUME NEW d \in S PROVE h[d] = Sum(f, Group(its, dayOf, d))
    <2>1. h[d] = Sum(f, OfDay(its, d))
      BY PriceOfDay
    <2>2. OfDay(its, d) = Group(its, dayOf, d)
      BY DEF OfDay, Group
    <2> QED
      BY <2>1, <2>2
  <1>5. Integral(f, its) /\ D!PriceOf(its) = Sum(f, its)
    BY PriceIs
  <1> HIDE DEF S, h, dayOf, f
  <1>6. D!SumOf(h) = Sum(h, S)
    BY <1>1, SumOfIs
  <1>7. Sum(h, S) = Sum(f, its)
    BY <1>2, <1>3, <1>4, <1>5, SumOfGroups
  <1> QED
    BY <1>1, <1>5, <1>6, <1>7

LEMMA ResolvedIs ==
    ASSUME NEW discounts, \A d \in DOMAIN discounts : discounts[d].value \in Nat, NEW n
    PROVE  /\ DOMAIN D!ResolveDiscounts(discounts, n) = 0 .. n - 1
           /\ \A d \in 0 .. n - 1 : D!ResolveDiscounts(discounts, n)[d].value \in Nat
  <1>1. D!NoDiscount.value \in Nat
    BY DEF D!NoDiscount
  <1> QED
    BY <1>1 DEF D!ResolveDiscounts

LEMMA FormsAre ==
    /\ \A form \in BudgetForms :
         /\ D!Entered(form)
         /\ form.days # None /\ form.fees # None /\ form.discounts # None /\ form.items # None
    /\ \A e \in BudgetEdits : D!Entered(e)
  BY FormsAssumption

LEMMA EnteredIs ==
    ASSUME NEW form, D!Entered(form)
    PROVE  /\ form.days # None => D!IsList(form.days) /\ D!Length(form.days) \in Nat \ {0}
           /\ form.fees # None =>
                D!IsList(form.fees) /\ \A d \in DOMAIN form.fees : form.fees[d] \in Nat
           /\ form.discounts # None =>
                \A d \in DOMAIN form.discounts : form.discounts[d].value \in Nat
           /\ form.items # None =>
                IsFiniteSet(form.items) /\ \A i \in form.items : i.price \in Nat /\ i.order \in Nat
  BY ListIs, Finite DEF D!Entered

LEMMA SavedPriced ==
    ASSUME NEW form \in BudgetForms, D!SaveBudget(form)
    PROVE  PricedBudget(budget')
  <1> DEFINE n == D!Length(form.days)
             discounts == D!ResolveDiscounts(form.discounts, n)
             fees == IF form.fees = << >> THEN [d \in 0 .. n - 1 |-> 0] ELSE form.fees
  <1>1. /\ D!ItemsCover(form.items, n) /\ D!Length(fees) = n
        /\ budget'.days = form.days /\ budget'.fees = fees /\ budget'.discounts = discounts
        /\ budget'.items = form.items
        /\ budget'.subtotal = D!Subtotal(form.items, n)
        /\ budget'.total = D!Total(form.items, n, fees, discounts)
    BY DEF D!SaveBudget
  <1>2. /\ D!IsList(form.days) /\ n \in Nat \ {0}
        /\ D!IsList(form.fees) /\ \A d \in DOMAIN form.fees : form.fees[d] \in Nat
        /\ \A d \in DOMAIN form.discounts : form.discounts[d].value \in Nat
        /\ IsFiniteSet(form.items) /\ \A i \in form.items : i.price \in Nat /\ i.order \in Nat
    BY FormsAre, EnteredIs
  <1>3. D!Subtotal(form.items, n) = D!PriceOf(form.items)
    BY <1>1, <1>2, SubtotalIs
  <1>4. DOMAIN discounts = 0 .. n - 1 /\ \A d \in DOMAIN discounts : discounts[d].value \in Nat
    <2> HIDE DEF n
    <2> QED
      BY <1>2, ResolvedIs
  <1>5. D!IsList(fees) /\ \A d \in DOMAIN fees : fees[d] \in Nat
    <2>1. CASE form.fees = << >>
      <3>1. DOMAIN fees = 0 .. n - 1 /\ \A d \in DOMAIN fees : fees[d] \in Nat
        BY <2>1
      <3>2. IsFiniteSet(0 .. n - 1)
        BY <1>2, FS_Interval
      <3> HIDE DEF fees, n
      <3> QED
        BY <1>1, <3>1, <3>2, Finite DEF D!IsList
    <2>2. CASE form.fees # << >>
      BY <1>2, <2>2
    <2> QED
      BY <2>1, <2>2
  <1> HIDE DEF n, discounts, fees
  <1>6. n = D!Length(budget'.days)
    BY <1>1 DEF n
  <1> QED
    BY <1>1, <1>2, <1>3, <1>4, <1>5, <1>6 DEF PricedBudget

LEMMA UpdatedPriced ==
    ASSUME PricedBudget(budget), NEW e \in BudgetEdits, D!UpdateBudget(e)
    PROVE  PricedBudget(budget')
  <1> DEFINE days == D!Or(e.days, budget.days)
             n == D!Length(days)
             given == D!Or(e.discounts, budget.discounts)
             discounts == D!ResolveDiscounts(given, n)
             fees == D!Or(e.fees, budget.fees)
             its == D!Or(e.items, budget.items)
  <1>1. /\ e.items # None => D!ItemsCover(e.items, n)
        /\ budget'.days = days /\ budget'.fees = fees /\ budget'.discounts = discounts
        /\ budget'.items = its
        /\ budget'.subtotal = IF e.items = None THEN budget.subtotal ELSE D!Subtotal(its, n)
        /\ budget'.total = D!Total(its, n, fees, discounts)
    BY DEF D!UpdateBudget
  <1>2. D!Entered(e)
    BY FormsAre
  <1>3. D!IsList(days) /\ n \in Nat \ {0}
    BY <1>2, EnteredIs DEF D!Or, PricedBudget
  <1>4. D!IsList(fees) /\ \A d \in DOMAIN fees : fees[d] \in Nat
    BY <1>2, EnteredIs DEF D!Or, PricedBudget
  <1>5. \A d \in DOMAIN given : given[d].value \in Nat
    BY <1>2, EnteredIs DEF D!Or, PricedBudget
  <1>6. IsFiniteSet(its) /\ \A i \in its : i.price \in Nat /\ i.order \in Nat
    BY <1>2, EnteredIs DEF D!Or, PricedBudget
  <1>7. budget'.subtotal = D!PriceOf(its)
    <2>1. CASE e.items = None
      BY <1>1, <2>1 DEF D!Or, PricedBudget
    <2>2. CASE e.items # None
      <3>1. its = e.items
        BY <2>2 DEF D!Or
      <3> HIDE DEF its, n
      <3> QED
        BY <1>1, <1>3, <1>6, <2>2, <3>1, SubtotalIs
    <2> QED
      BY <2>1, <2>2
  <1> HIDE DEF given, n
  <1>8. DOMAIN discounts = 0 .. n - 1 /\ \A d \in DOMAIN discounts : discounts[d].value \in Nat
    BY <1>5, ResolvedIs
  <1> HIDE DEF days, discounts, fees, its
  <1>9. n = D!Length(budget'.days)
    BY <1>1 DEF n
  <1> QED
    BY <1>1, <1>3, <1>4, <1>6, <1>7, <1>8, <1>9 DEF PricedBudget

\* The status is no part of it.
LEMMA StaysPriced ==
    ASSUME PricedBudget(budget),
           \A f \in BudgetFields \ {"status"} : budget'[f] = budget[f]
    PROVE  PricedBudget(budget')
  <1>1. /\ budget'.days = budget.days /\ budget'.fees = budget.fees
        /\ budget'.discounts = budget.discounts /\ budget'.items = budget.items
        /\ budget'.subtotal = budget.subtotal /\ budget'.total = budget.total
    BY DEF BudgetFields
  <1> QED
    BY <1>1 DEF PricedBudget

LEMMA PricedStep ==
    DocumentsInv /\ PricedInv /\ [D!Next]_documentVars => PricedInv'
  <1> SUFFICES ASSUME DocumentsInv, PricedInv, [D!Next]_documentVars
               PROVE  PricedInv'
    OBVIOUS
  <1>1. ASSUME NEW form \in BudgetForms, D!SaveBudget(form)
        PROVE  PricedInv'
    BY <1>1, SavedPriced DEF PricedInv
  <1>2. ASSUME NEW e \in BudgetEdits, D!UpdateBudget(e)
        PROVE  PricedInv'
    <2>1. PricedBudget(budget)
      BY <1>2 DEF PricedInv, D!UpdateBudget
    <2> QED
      BY <1>2, <2>1, UpdatedPriced DEF PricedInv
  <1>3. ASSUME NEW to \in DOMAIN D!BudgetMoves, D!MoveBudget(to)
        PROVE  PricedInv'
    <2>1. budget # D!NoBudget /\ budget' = [budget EXCEPT !.status = to]
      BY <1>3 DEF D!MoveBudget
    <2>2. \A f \in BudgetFields \ {"status"} : budget'[f] = budget[f]
      BY <2>1, BudgetMoved
    <2> QED
      BY <2>1, <2>2, StaysPriced DEF PricedInv
  <1>4. ASSUME budget' = budget
        PROVE  PricedInv'
    BY <1>4 DEF PricedInv, PricedBudget
  <1>5. ASSUME NEW to \in D!ContractStatus, D!MoveContract(to)
        PROVE  PricedInv'
    <2>1. /\ contract # D!NoContract
          /\ budget' = IF to = "CANCELED" THEN [budget EXCEPT !.status = "CANCELED"] ELSE budget
      BY <1>5 DEF D!MoveContract
    <2>2. CASE budget' = budget
      BY <1>4, <2>2
    <2>3. CASE budget' # budget
      <3>1. budget # D!NoBudget /\ budget' = [budget EXCEPT !.status = "CANCELED"]
        BY <2>1, <2>3 DEF DocumentsInv
      <3>2. "CANCELED" \in DOMAIN D!BudgetMoves
        BY Moves
      <3>3. \A f \in BudgetFields \ {"status"} : budget'[f] = budget[f]
        BY <3>1, <3>2, BudgetMoved
      <3> QED
        BY <3>1, <3>3, StaysPriced DEF PricedInv
    <2> QED
      BY <2>2, <2>3
  <1>6. ASSUME NEW over, NEW body, NEW s, D!CreateContract(over, body, s) \/ D!UpdateContract(over, body)
        PROVE  PricedInv'
    <2>1. budget' = budget
      BY <1>6 DEF D!CreateContract, D!UpdateContract
    <2> QED
      BY <1>4, <2>1
  <1>7. ASSUME NEW e, D!UpdateLead(e) \/ D!UpdateProfile(e)
        PROVE  PricedInv'
    <2>1. budget' = budget
      BY <1>7 DEF D!UpdateLead, D!UpdateProfile
    <2> QED
      BY <1>4, <2>1
  <1>8. ASSUME UNCHANGED documentVars
        PROVE  PricedInv'
    BY <1>4, <1>8 DEF documentVars
  <1> QED
    BY <1>1, <1>2, <1>3, <1>5, <1>6, <1>7, <1>8 DEF D!Next

\* What the client reads adds up to the total of the budget, whatever is
\* entered, edited, moved on or made a contract of: the rows, the subtotals of
\* the days and, if there is one day, the sums of the mail.
THEOREM ProposalsAddUp == Spec => []ProposalAddsUp
  <1>1. Init => DocumentsInv /\ PricedInv
    BY DocumentsInit DEF Init, D!Init, PricedInv
  <1>2. DocumentsInv /\ PricedInv /\ [Next]_vars => (DocumentsInv /\ PricedInv)'
    BY DocumentsStep, PricedStep, PartSteps
  <1>3. PricedInv => ProposalAddsUp
    BY PricedAddsUp DEF PricedInv, ProposalAddsUp, D!ProposalAddsUp
  <1> QED
    BY <1>1, <1>2, <1>3, PTL DEF Spec

-----------------------------------------------------------------------------
(* The shape of the state *)

LEMMA Removed ==
    ASSUME NEW S, NEW s \in Seq(S), NEW k \in DOMAIN s
    PROVE  L!RemoveAt(s, k) \in Seq(S)
  <1> DEFINE a == SubSeq(s, 1, k - 1)
             b == SubSeq(s, k + 1, Len(s))
  <1>1. a \in Seq(S) /\ b \in Seq(S)
    OBVIOUS
  <1>2. L!RemoveAt(s, k) = a \o b
    BY DEF L!RemoveAt
  <1> HIDE DEF a, b
  <1> QED
    BY <1>1, <1>2, ConcatProperties

LEMMA ListTypeInit == L!Init => L!TypeOK
  <1> SUFFICES ASSUME L!Init PROVE L!TypeOK
    OBVIOUS
  <1> DEFINE columns == UNION {L!Lists[l] : l \in DOMAIN L!Lists}
  <1>1. list \in [of : DOMAIN L!Lists, by : SUBSET columns]
    <2>1. PICK l \in DOMAIN L!Lists, by \in {{}} \cup {{c} : c \in columns} :
            list = [of |-> l, by |-> by]
      BY DEF L!Init
    <2>2. by \in SUBSET columns
      <3> HIDE DEF columns
      <3> QED
        OBVIOUS
    <2> HIDE DEF columns
    <2> QED
      BY <2>1, <2>2
  <1>2. entered \in 0 .. MaxRows /\ rows = [k \in 1 .. entered |-> k]
    BY DEF L!Init
  <1>3. rows \in Seq(1 .. MaxRows)
    <2>1. \A k \in 1 .. entered : k \in 1 .. MaxRows
      BY <1>2, BoundsAssumption
    <2>2. entered \in Nat
      BY <1>2, BoundsAssumption
    <2> DEFINE numbers == 1 .. MaxRows
    <2>3. rows \in [1 .. entered -> numbers]
      BY <1>2, <2>1
    <2> HIDE DEF numbers
    <2>4. rows \in Seq(numbers)
      BY <2>2, <2>3
    <2> QED
      BY <2>4 DEF numbers
  <1>4. reader \in L!Readers
    BY DEF L!Init, L!Readers
  <1> QED
    BY <1>1, <1>2, <1>3, <1>4 DEF L!Init, L!TypeOK

LEMMA TurnForm ==
    ASSUME reader \in L!Readers, NEW total
    PROVE  L!Turn(L!ResolvePagination(reader.page, reader.limit), total) \in L!Readers
  <1> DEFINE p == L!ResolvePagination(reader.page, reader.limit)
  <1>1. p.page \in Nat
    BY NoneIsNone DEF L!ResolvePagination, L!DefaultPage, L!Readers
  <1> HIDE DEF p
  <1>2. p.page + 1 \in Nat
    BY <1>1
  <1>3. /\ [reader EXCEPT !.pc = "page", !.page = p.page + 1] \in L!Readers
        /\ [reader EXCEPT !.pc = "end"] \in L!Readers
    BY <1>2 DEF L!Readers
  <1>4. L!Turn(p, total) \in L!Readers
    BY <1>3 DEF L!Turn
  <1> QED
    BY <1>4 DEF p

LEMMA ListTypeStep == L!TypeOK /\ [L!Next]_listVars => L!TypeOK'
  <1> SUFFICES ASSUME L!TypeOK, [L!Next]_listVars PROVE L!TypeOK'
    OBVIOUS
  <1> DEFINE numbers == 1 .. MaxRows
             lists == [of : DOMAIN L!Lists, by : SUBSET UNION {L!Lists[l] : l \in DOMAIN L!Lists}]
  <1>0. /\ list \in lists /\ rows \in Seq(numbers) /\ entered \in 0 .. MaxRows
        /\ reader \in L!Readers /\ shown \subseteq numbers /\ missed \subseteq numbers
        /\ left \in BOOLEAN
    BY DEF L!TypeOK
  <1> HIDE DEF lists
  <1>1. ASSUME NEW k \in 1 .. MaxRows + 1, L!Enter(k)
        PROVE  L!TypeOK'
    <2>1. /\ k \in 1 .. Len(rows) + 1 /\ entered' = entered + 1
          /\ rows' = L!InsertAt(rows, k, entered + 1)
          /\ missed' = missed \cup {entered + 1}
          /\ UNCHANGED <<list, reader, shown, left>>
      BY <1>1 DEF L!Enter
    <2>2. entered + 1 \in numbers /\ entered' \in 0 .. MaxRows
      BY <1>0, <1>1, <2>1, BoundsAssumption DEF L!Enter
    <2>3. rows' \in Seq(numbers) /\ missed' \subseteq numbers
      <3> HIDE DEF numbers
      <3> QED
        BY <1>0, <2>1, <2>2, Inserted
    <2> QED
      BY <1>0, <2>1, <2>2, <2>3 DEF L!TypeOK, lists
  <1>2. ASSUME NEW k \in 1 .. MaxRows + 1, L!Leave(k)
        PROVE  L!TypeOK'
    <2>1. /\ k \in DOMAIN rows /\ rows' = L!RemoveAt(rows, k) /\ left' = TRUE
          /\ UNCHANGED <<list, entered, reader, shown, missed>>
      BY <1>2 DEF L!Leave
    <2>2. rows' \in Seq(numbers)
      <3> HIDE DEF numbers
      <3> QED
        BY <1>0, <2>1, Removed
    <2> QED
      BY <1>0, <2>1, <2>2 DEF L!TypeOK, lists
  <1>3. CASE L!FetchPage
    <2> DEFINE p == L!ResolvePagination(reader.page, reader.limit)
               found == L!Cardinality(L!Page(p))
    <2>1. shown' = shown \cup L!Page(p) /\ UNCHANGED <<list, rows, entered, missed, left>>
      BY <1>3 DEF L!FetchPage
    <2>2. L!Page(p) \subseteq numbers
      <3>1. \A k \in DOMAIN rows : rows[k] \in numbers
        <4> HIDE DEF numbers
        <4> QED
          BY <1>0
      <3> HIDE DEF numbers, p
      <3> QED
        BY <3>1 DEF L!Page
    <2>3. reader' \in L!Readers
      <3>1. [reader EXCEPT !.pc = "count"] \in L!Readers
        BY <1>0 DEF L!Readers
      <3>2. reader' \in {[reader EXCEPT !.pc = "count"], L!Turn(p, p.skip + found)}
        BY <1>3 DEF L!FetchPage
      <3>3. L!Turn(p, p.skip + found) \in L!Readers
        BY <1>0, TurnForm
      <3> HIDE DEF p, found
      <3> QED
        BY <3>1, <3>2, <3>3
    <2> HIDE DEF p
    <2>4. shown' \subseteq numbers
      <3> HIDE DEF numbers
      <3> QED
        BY <1>0, <2>1, <2>2
    <2> QED
      BY <1>0, <2>1, <2>3, <2>4 DEF L!TypeOK, lists
  <1>4. CASE L!CountRows
    <2>1. /\ reader' = L!Turn(L!ResolvePagination(reader.page, reader.limit), Len(rows))
          /\ UNCHANGED <<list, rows, entered, shown, missed, left>>
      BY <1>4 DEF L!CountRows
    <2>2. reader' \in L!Readers
      BY <1>0, <2>1, TurnForm
    <2> QED
      BY <1>0, <2>1, <2>2 DEF L!TypeOK, lists
  <1>5. CASE UNCHANGED listVars
    BY <1>0, <1>5 DEF L!TypeOK, listVars, lists
  <1> QED
    BY <1>1, <1>2, <1>3, <1>4, <1>5 DEF L!Next

\* What TypeOK says of documents beyond DocumentsInv and PricedInv.
DocumentsType ==
    /\ DOMAIN lead = D!LeadFields /\ DOMAIN profile = D!PartyFields
    /\ contract # D!NoContract => contract.body \in Bodies \cup {None}

LEMMA DocumentsTypeInit == D!Init => DocumentsType
  BY DEF D!Init, DocumentsType, D!NewLead, D!Defaults, D!LeadFields, D!PartyFields

LEMMA DocumentsTypeStep ==
    DocumentsInv /\ DocumentsType /\ [D!Next]_documentVars => DocumentsType'
  <1> SUFFICES ASSUME DocumentsInv, DocumentsType, [D!Next]_documentVars
               PROVE  DocumentsType'
    OBVIOUS
  <1>1. ASSUME NEW form \in BudgetForms, D!SaveBudget(form) PROVE DocumentsType'
    BY <1>1 DEF D!SaveBudget, DocumentsType
  <1>2. ASSUME NEW e \in BudgetEdits, D!UpdateBudget(e) PROVE DocumentsType'
    BY <1>2 DEF D!UpdateBudget, DocumentsType
  <1>3. ASSUME NEW to, D!MoveBudget(to) PROVE DocumentsType'
    BY <1>3 DEF D!MoveBudget, DocumentsType
  <1>4. ASSUME NEW e, D!UpdateLead(e) PROVE DocumentsType'
    BY <1>4 DEF D!UpdateLead, DocumentsType
  <1>5. ASSUME NEW e, D!UpdateProfile(e) PROVE DocumentsType'
    BY <1>5 DEF D!UpdateProfile, D!Merge, DocumentsType
  <1>6. ASSUME NEW over, NEW body \in Bodies \cup {None}, NEW s,
               D!CreateContract(over, body, s)
        PROVE  DocumentsType'
    <2>1. contract'.body = body /\ UNCHANGED <<lead, profile>>
      BY <1>6 DEF D!CreateContract
    <2> QED
      BY <2>1 DEF DocumentsType
  <1>7. ASSUME NEW over, NEW body \in Bodies \cup {None}, D!UpdateContract(over, body)
        PROVE  DocumentsType'
    <2>1. contract # D!NoContract /\ UNCHANGED <<lead, profile>>
      BY <1>7 DEF D!UpdateContract
    <2>2. contract'.body = D!Or(body, contract.body)
      <3>1. contract = [status |-> contract.status, body |-> contract.body, copy |-> contract.copy]
        BY <2>1 DEF DocumentsInv
      <3>2. contract' = [contract EXCEPT !.body = D!Or(body, @),
                                         !.copy.contractor = D!Merge(@, over)]
        BY <1>7 DEF D!UpdateContract
      <3> QED
        BY <3>1, <3>2
    <2> QED
      BY <2>1, <2>2 DEF DocumentsType, D!Or
  <1>8. ASSUME NEW to, D!MoveContract(to) PROVE DocumentsType'
    <2>1. contract # D!NoContract /\ UNCHANGED <<lead, profile>>
      BY <1>8 DEF D!MoveContract
    <2>2. contract'.body = contract.body
      <3>1. contract = [status |-> contract.status, body |-> contract.body, copy |-> contract.copy]
        BY <2>1 DEF DocumentsInv
      <3>2. contract' = [contract EXCEPT !.status = to]
        BY <1>8 DEF D!MoveContract
      <3> QED
        BY <3>1, <3>2
    <2> QED
      BY <2>1, <2>2 DEF DocumentsType
  <1>9. CASE UNCHANGED documentVars
    BY <1>9 DEF documentVars, DocumentsType
  <1> QED
    BY <1>1, <1>2, <1>3, <1>4, <1>5, <1>6, <1>7, <1>8, <1>9 DEF D!Next

\* Every part has its types: a stored total is a natural number, a budget has a
\* discount for each of its days, an entity has its columns and no other.
THEOREM TypesHold == Spec => []TypeOK
  <1> DEFINE DeskInv == /\ LedgerInv /\ CatalogInv /\ EmployeeInv /\ ProfileInv
                        /\ L!TypeOK /\ DocumentsInv /\ PricedInv /\ DocumentsType
  <1>1. Init => DeskInv
    BY LedgerInit, CatalogInit, EmployeeInit, ProfileInit, ListTypeInit, DocumentsInit,
       DocumentsTypeInit DEF Init, D!Init, PricedInv
  <1>2. DeskInv /\ [Next]_vars => DeskInv'
    <2> SUFFICES ASSUME DeskInv, [Next]_vars PROVE DeskInv'
      OBVIOUS
    <2>1. LedgerInv' /\ CatalogInv' /\ EmployeeInv' /\ ProfileInv'
      BY LedgerStep, CatalogStep, EmployeeStep, ProfileStep, PartSteps
    <2>2. L!TypeOK' /\ DocumentsInv' /\ PricedInv' /\ DocumentsType'
      BY ListTypeStep, DocumentsStep, PricedStep, DocumentsTypeStep, PartSteps
    <2> QED
      BY <2>1, <2>2
  <1>3. DeskInv => TypeOK
    <2> SUFFICES ASSUME DeskInv PROVE TypeOK
      OBVIOUS
    <2>1. P!TypeOK /\ C!TypeOK /\ E!TypeOK /\ F!TypeOK /\ L!TypeOK
      BY DEF LedgerInv, CatalogInv, EmployeeInv, ProfileInv
    <2>2. ASSUME budget # D!NoBudget
          PROVE  /\ budget.status \in DOMAIN D!BudgetMoves
                 /\ DOMAIN budget.discounts = D!Days(budget)
                 /\ {budget.total, budget.subtotal} \subseteq Nat
      <3>1. PricedBudget(budget)
        BY <2>2 DEF PricedInv
      <3>2. budget.subtotal \in Nat /\ DOMAIN budget.discounts = D!Days(budget)
        BY <3>1, PriceIs DEF PricedBudget, D!Days
      <3>3. budget.total \in Nat
        BY <3>1, TotalIs
      <3> QED
        BY <2>2, <3>2, <3>3 DEF DocumentsInv
    <2>3. D!TypeOK
      BY <2>2 DEF D!TypeOK, DocumentsInv, DocumentsType
    <2> QED
      BY <2>1, <2>3 DEF TypeOK
  <1> HIDE DEF DeskInv
  <1> QED
    BY <1>1, <1>2, <1>3, PTL DEF Spec

=============================================================================
