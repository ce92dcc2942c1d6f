---------------------------- MODULE BudgetProofs -----------------------------
(***************************************************************************)
(* The properties of Budgets, for any number of budgets, days, prices,     *)
(* discounts and requests.                                                 *)
(*                                                                         *)
(* For the steps a total is whatever TotalAmount makes of some lines       *)
(* (Totals).  That it is a natural number, which takes sums over finite    *)
(* sets and discounts that are capped, is needed for the types alone.      *)
(***************************************************************************)
EXTENDS Budgets, FiniteSums

-----------------------------------------------------------------------------
(* The inductive invariant *)

Totals ==
    {TotalAmount(its, n, x) : its \in SUBSET Items, n \in 0 .. MaxDays, x \in DiscountLists}
      \cup {0}

BudgetRows == [status : BudgetStatus \cup {None}, days : 0 .. MaxDays,
               discounts : DiscountLists, total : Totals]

Requests ==
    [pc : PCs, b : Budgets \cup {None}, entity : BudgetRows, put : SUBSET Columns,
     listed : BOOLEAN, list : SUBSET Items, drop : SUBSET Items, add : SUBSET Items,
     leaving : BOOLEAN, fresh : BOOLEAN, number : 0 .. Cardinality(Budgets)]

Updating == {"delete", "insert", "reload", "write"}

Holding == {"reload", "write"}

Contracting == {"count", "contract"}

\* A day that has lines is preceded by days that have.
Gapless(its) == \A i \in its : \A d \in 0 .. i.day : \E j \in its : j.day = d

\* The lines of one request have no gap, whatever became of those of others.
GaplessBatches(its) ==
    \A i \in its : \A d \in 0 .. i.day : \E j \in its : j.by = i.by /\ j.day = d

WholeOffer(row, its) ==
    /\ its # {}
    /\ \A i \in its : i.price > 0
    /\ 0 .. row.days - 1 \subseteq ItemDays(its)
    /\ row.total > 0

ListFits(row) == DOMAIN row.discounts = 0 .. row.days - 1

\* What a budget is as long as nobody has saved over a write he had not seen.
GoodBudget(b) ==
    LET row == budget[b]
    IN  /\ ListFits(row)
        /\ row.total = TotalAmount(items[b], row.days, row.discounts)
        /\ row.status \in OfferStatuses => WholeOffer(row, items[b])
        /\ number[b] # 0 => /\ row.status \in {"APPROVED", "CANCELED"}
                            /\ WholeOffer(row, items[b])

BudgetForm(b) ==
    /\ GaplessBatches(items[b])
    /\ number[b] # 0 => budget[b].status # None
    /\ budget[b].status # None /\ stale[b] = FALSE => GoodBudget(b)

\* The lines there will be when the transaction of w commits.
Outcome(w) == (items[w.b] \ w.drop) \cup w.add

\* A transaction deletes all the lines of a request or none, its own too.
RowsForm(p, w) ==
    /\ Gapless(w.add)
    /\ \A i \in w.add : i.by = p
    /\ w.add = {} \/ w.pc = "delete" => w.drop = {}
    /\ w.drop \subseteq items[w.b]
    /\ \A i \in items[w.b] : \A j \in w.drop : i.by = j.by => i \in w.drop
    /\ w.pc # "delete" /\ w.add # {} => \A i \in items[w.b] : i.by = p => i \in w.drop
    /\ w.pc \in {"delete", "insert"} => w.add # {}

MoveForm(w) ==
    LET row == budget[w.b]
    IN  \/ w.entity.status = row.status
        \/ w.entity.status \in AllowedTransitions[row.status]
        \/ number[w.b] # 0 /\ w.entity.status = "CANCELED"

\* An update that has read nothing too early.
UpdateForm(w) ==
    LET row == budget[w.b]
        e == w.entity
    IN  /\ MoveForm(w)
        /\ ListFits(e)
        /\ row.status # "DRAFT" => /\ e.days = row.days /\ e.discounts = row.discounts
                                   /\ e.total = row.total /\ w.add = {}
        /\ w.pc \in {"delete", "insert"} =>
             /\ row.status = "DRAFT" /\ w.listed = TRUE
             /\ e.total = TotalAmount(w.add, e.days, e.discounts)
        /\ w.pc = "insert" => w.drop = items[w.b]
        /\ w.pc \in Holding => e.total = TotalAmount(Outcome(w), e.days, e.discounts)
        /\ w.pc = "reload" /\ w.listed = TRUE => w.list = Outcome(w)
        /\ row.status = "DRAFT" /\ e.status # "DRAFT" =>
             IF w.pc = "write" THEN WholeOffer(e, Outcome(w))
             ELSE w.listed = TRUE /\ w.leaving = TRUE
        /\ w.pc = "write" => w.put = Differing(e, row)

RequestForm(p, w) ==
    /\ w.pc # "idle" => w.b \in Budgets /\ budget[w.b].status # None
    /\ w.pc \notin Updating => w.drop = {}
    /\ w.pc \in Updating => w.entity.status # None /\ RowsForm(p, w)
    /\ w.pc \in Updating /\ w.fresh = TRUE /\ stale[w.b] = FALSE => UpdateForm(w)
    /\ w.pc = "mail" /\ w.fresh = TRUE /\ stale[w.b] = FALSE =>
         budget[w.b].status = "GENERATED"
    /\ w.pc \in Contracting /\ stale[w.b] = FALSE =>
         /\ budget[w.b].status \in {"APPROVED", "CANCELED"}
         /\ WholeOffer(budget[w.b], items[w.b])
    /\ w.number <= Cardinality(Numbered) + 1

\* No two transactions hold a row.
Apart(v, w) ==
    v.pc \in Holding /\ w.pc \in Holding /\ v.b = w.b => v.drop \cap w.drop = {}

NumbersUsed ==
    \A n \in 1 .. Cardinality(Numbered) : \E b \in Budgets : number[b] = n

ShapeOK ==
    /\ budget \in [Budgets -> BudgetRows]
    /\ items \in [Budgets -> SUBSET Items]
    /\ number \in [Budgets -> 0 .. Cardinality(Budgets)]
    /\ worker \in [Workers -> Requests]
    /\ stale \in [Budgets -> BOOLEAN]

BudgetInv ==
    /\ ShapeOK
    /\ \A b \in Budgets : BudgetForm(b)
    /\ \A p \in Workers : RequestForm(p, worker[p])
    /\ \A p, q \in Workers : p # q => Apart(worker[p], worker[q])
    /\ NumbersUsed

-----------------------------------------------------------------------------
(* Rows, lines and lists of discounts *)

LEMMA BoundNat == MaxDays \in Nat /\ 1 <= MaxDays
  <1>1. MaxDays \in Nat \ {0}
    BY ConstantsAssumption, Zenon
  <1> QED
    BY <1>1

LEMMA RowForm ==
    ASSUME NEW s \in BudgetStatus \cup {None}, NEW n \in 0 .. MaxDays,
           NEW x \in DiscountLists, NEW t \in Totals
    PROVE  [status |-> s, days |-> n, discounts |-> x, total |-> t] \in BudgetRows
  BY DEF BudgetRows

LEMMA RowParts ==
    ASSUME NEW r \in BudgetRows
    PROVE  /\ r.status \in BudgetStatus \cup {None} /\ r.days \in 0 .. MaxDays
           /\ r.days \in Int /\ r.discounts \in DiscountLists /\ r.total \in Totals
  BY DEF BudgetRows

LEMMA TotalIn ==
    ASSUME NEW its \in SUBSET Items, NEW n \in 0 .. MaxDays, NEW x \in DiscountLists
    PROVE  TotalAmount(its, n, x) \in Totals
  BY DEF Totals

LEMMA ChangedForm ==
    ASSUME NEW e \in BudgetRows, NEW r \in BudgetRows, NEW put \in SUBSET Columns
    PROVE  /\ Changed(put, e, r) \in BudgetRows
           /\ Changed(put, e, r).status \in {e.status, r.status}
           /\ Changed(Differing(e, r), e, r) = e
  BY DEF Changed, Differing, Columns, BudgetRows

LEMMA SentForm ==
    ASSUME NEW r \in BudgetRows
    PROVE  LET s == [r EXCEPT !.status = "SENT"]
           IN  /\ s \in BudgetRows /\ s.status = "SENT" /\ s.days = r.days
               /\ s.discounts = r.discounts /\ s.total = r.total
  BY DEF BudgetRows, BudgetStatus

LEMMA ListForm ==
    ASSUME NEW n \in 0 .. MaxDays, NEW x \in [0 .. n - 1 -> Discounts]
    PROVE  x \in DiscountLists
  BY DEF DiscountLists

LEMMA ListParts ==
    ASSUME NEW x \in DiscountLists
    PROVE  \E n \in 0 .. MaxDays : x \in [0 .. n - 1 -> Discounts]
  BY DEF DiscountLists

LEMMA EqualDiscounts ==
    ASSUME NEW n \in 0 .. MaxDays, NEW x \in Discounts
    PROVE  /\ [d \in 0 .. n - 1 |-> x] \in DiscountLists
           /\ DOMAIN [d \in 0 .. n - 1 |-> x] = 0 .. n - 1
  BY ListForm

\* What resolving a list of discounts gives, and that it leaves a list alone
\* that fits the days.
LEMMA ResolvedForm ==
    ASSUME NEW n \in 0 .. MaxDays, NEW x \in DiscountLists
    PROVE  /\ ResolveDiscounts(x, n) \in DiscountLists
           /\ DOMAIN ResolveDiscounts(x, n) = 0 .. n - 1
           /\ DOMAIN x = 0 .. n - 1 => ResolveDiscounts(x, n) = x
  <1>1. \A d \in DOMAIN x : x[d] \in Discounts
    BY ListParts
  <1>2. ResolveDiscounts(x, n) \in [0 .. n - 1 -> Discounts]
    BY <1>1, ConstantsAssumption DEF ResolveDiscounts
  <1>3. ResolveDiscounts(x, n) \in DiscountLists
    BY <1>2, ListForm
  <1>4. DOMAIN x = 0 .. n - 1 => ResolveDiscounts(x, n) = x
    <2> SUFFICES ASSUME DOMAIN x = 0 .. n - 1
                 PROVE  ResolveDiscounts(x, n) = x
      OBVIOUS
    <2>1. PICK m \in 0 .. MaxDays : x \in [0 .. m - 1 -> Discounts]
      BY ListParts
    <2>2. x \in [0 .. n - 1 -> Discounts]
      BY <2>1
    <2>3. \A d \in 0 .. n - 1 : ResolveDiscounts(x, n)[d] = x[d]
      BY <2>2 DEF ResolveDiscounts
    <2> QED
      BY <1>2, <2>2, <2>3
  <1> QED
    BY <1>2, <1>3, <1>4

\* The lines that pass the rules cover the days of the event.
LEMMA LinesCover ==
    ASSUME NEW p \in Workers, NEW lines \in SUBSET Lines, NEW n \in 1 .. MaxDays,
           LineRules(lines, n)
    PROVE  LET its == ItemsFrom(p, lines)
           IN  /\ its \in SUBSET Items /\ its # {}
               /\ \A i \in its : i.by = p
               /\ Gapless(its)
  <1> DEFINE its == ItemsFrom(p, lines)
  <1>0. n \in Nat /\ MaxDays \in Nat
    BY BoundNat
  <1>1. ItemDays(lines) \subseteq 0 .. n - 1
    BY DEF LineRules, ItemDays
  <1>2. IsFiniteSet(0 .. n - 1) /\ Cardinality(0 .. n - 1) = n
    BY <1>0, FS_Interval
  <1>3. Cardinality(ItemDays(lines)) <= n /\ Cardinality(ItemDays(lines)) \in Nat
    BY <1>1, <1>2, FS_Subset, FS_CardinalityType
  <1>4. ItemDays(lines) = 0 .. n - 1
    BY <1>0, <1>1, <1>2, <1>3, FS_Subset DEF LineRules
  <1>5. \A l \in lines : l.day \in 0 .. n - 1
    BY DEF LineRules
  <1>6. ASSUME NEW i \in its
        PROVE  i.by = p /\ i.day \in 0 .. n - 1 /\ i \in Items
    <2>1. PICK l \in lines : i = [by |-> p, day |-> l.day, price |-> l.price]
      BY DEF ItemsFrom
    <2>2. l.day \in Days /\ l.price \in Prices
      BY DEF Lines
    <2> QED
      BY <1>5, <2>1, <2>2 DEF Items
  <1>7. ASSUME NEW i \in its, NEW d \in 0 .. i.day
        PROVE  \E j \in its : j.day = d
    <2>1. d \in 0 .. n - 1
      BY <1>0, <1>6
    <2>2. PICK l \in lines : l.day = d
      BY <1>4, <2>1 DEF ItemDays
    <2>3. [by |-> p, day |-> l.day, price |-> l.price] \in its
      BY DEF ItemsFrom
    <2> QED
      BY <2>2, <2>3
  <1>8. its # {}
    <2>1. PICK l \in lines : TRUE
      BY DEF LineRules
    <2>2. [by |-> p, day |-> l.day, price |-> l.price] \in its
      BY DEF ItemsFrom
    <2> QED
      BY <2>2
  <1> QED
    BY <1>6, <1>7, <1>8 DEF Gapless

\* Counting the days that have lines is enough, if there is no gap.
LEMMA CountIsEnough ==
    ASSUME NEW row \in BudgetRows, NEW its \in SUBSET Items, Gapless(its),
           ReadyForContract(row, its)
    PROVE  WholeOffer(row, its)
  <1> DEFINE n == row.days
             days == ItemDays(its)
  <1>1. n \in Nat /\ Cardinality(days) >= n
    BY BoundNat, RowParts DEF ReadyForContract
  <1>2. \A i \in its : i.day \in Nat
    BY BoundNat DEF Items, Days
  <1>3. ASSUME NEW d \in 0 .. n - 1, d \notin days
        PROVE  FALSE
    <2>1. \A i \in its : i.day < d
      BY <1>1, <1>2, <1>3 DEF Gapless, ItemDays
    <2>2. days \subseteq 0 .. d - 1
      BY <1>1, <1>2, <2>1 DEF ItemDays
    <2>3. IsFiniteSet(0 .. d - 1) /\ Cardinality(0 .. d - 1) = d
      <3>1. d - 1 \in Int /\ d \in Nat
        BY <1>1
      <3>2. /\ IsFiniteSet(0 .. d - 1)
            /\ Cardinality(0 .. d - 1) = IF 0 > d - 1 THEN 0 ELSE d - 1 - 0 + 1
        BY <3>1, FS_Interval
      <3> QED
        BY <3>1, <3>2
    <2>4. Cardinality(days) <= d /\ Cardinality(days) \in Nat
      BY <2>2, <2>3, FS_Subset, FS_CardinalityType
    <2> QED
      BY <1>1, <2>4
  <1>4. 0 .. n - 1 \subseteq days
    BY <1>3
  <1> QED
    BY <1>4 DEF ReadyForContract, WholeOffer

LEMMA OfferOf ==
    ASSUME NEW row, NEW e, NEW its, e.days = row.days, e.total = row.total
    PROVE  WholeOffer(e, its) <=> WholeOffer(row, its)
  BY DEF WholeOffer

LEMMA CompleteOffer ==
    ASSUME NEW b
    PROVE  Complete(b) <=> WholeOffer(budget[b], items[b])
  BY DEF Complete, WholeOffer

\* What an update makes of a budget.
LEMMA EntityForm ==
    ASSUME NEW row \in BudgetRows, row.status # None, NEW u \in Updates,
           NEW its \in SUBSET Items
    PROVE  LET e == Entity(u, row, its)
           IN  /\ e \in BudgetRows /\ e.status # None
               /\ e.status = Given(u.status, row.status)
               /\ ListFits(e)
               /\ Edits(u) => e.total = TotalAmount(its, e.days, e.discounts)
               /\ ~ Edits(u) /\ ListFits(row) =>
                    /\ e.days = row.days /\ e.discounts = row.discounts
                    /\ e.total = row.total
  <1> DEFINE n == DaysAfter(u, row)
             x == IF u.discount = None THEN row.discounts ELSE [d \in 0 .. n - 1 |-> u.discount]
             y == ResolveDiscounts(x, n)
             s == Given(u.status, row.status)
             t == NewTotal(u, row, its)
             e == Entity(u, row, its)
  <1>1. /\ u.status \in BudgetStatus \cup {None}
        /\ u.days \in (1 .. MaxDays) \cup {None}
        /\ u.discount \in Discounts \cup {None}
    BY DEF Updates
  <1>2. n \in 0 .. MaxDays
    BY <1>1, RowParts DEF DaysAfter, Given
  <1>3. s \in BudgetStatus /\ s # None
    BY <1>1, RowParts, NoneAssumption DEF Given
  <1>4. x \in DiscountLists
    BY <1>1, <1>2, RowParts, EqualDiscounts
  <1>5. /\ y \in DiscountLists /\ DOMAIN y = 0 .. n - 1
        /\ DOMAIN x = 0 .. n - 1 => y = x
    BY <1>2, <1>4, ResolvedForm
  <1>6. /\ Edits(u) => t = TotalAmount(its, n, y)
        /\ ~ Edits(u) => t = row.total
    BY DEF NewTotal
  <1>7. t \in Totals
    BY <1>2, <1>5, <1>6, TotalIn, RowParts
  <1>8. e = [status |-> s, days |-> n, discounts |-> y, total |-> t]
    BY DEF Entity
  <1>9. ~ Edits(u) => n = row.days /\ x = row.discounts
    BY DEF Edits, DaysAfter, Given
  <1> HIDE DEF n, x, y, s, t, e
  <1>10. e.status = s /\ e.days = n /\ e.discounts = y /\ e.total = t
    BY <1>8
  <1>11. e \in BudgetRows
    BY <1>2, <1>3, <1>5, <1>7, <1>8, RowForm
  <1>12. ~ Edits(u) /\ ListFits(row) => y = row.discounts
    BY <1>5, <1>9 DEF ListFits
  <1> QED
    BY <1>3, <1>5, <1>6, <1>9, <1>10, <1>11, <1>12 DEF ListFits, e, s

-----------------------------------------------------------------------------
(* Steps that change a request only *)

LEMMA RequestParts ==
    ASSUME NEW w \in Requests
    PROVE  /\ w.entity \in BudgetRows /\ w.put \in SUBSET Columns
           /\ w.list \in SUBSET Items /\ w.drop \in SUBSET Items
           /\ w.add \in SUBSET Items /\ w.number \in Nat
           /\ w.number <= Cardinality(Budgets)
  <1>1. Cardinality(Budgets) \in Nat
    BY ConstantsAssumption, FS_CardinalityType
  <1> QED
    BY <1>1 DEF Requests

LEMMA NumberedFinite ==
    /\ IsFiniteSet(Numbered) /\ Cardinality(Numbered) \in Nat
    /\ Cardinality(Numbered) <= Cardinality(Budgets) /\ Cardinality(Budgets) \in Nat
    /\ Numbered # Budgets => Cardinality(Numbered) + 1 <= Cardinality(Budgets)
  <1>1. Numbered \in SUBSET Budgets /\ IsFiniteSet(Budgets)
    BY ConstantsAssumption DEF Numbered
  <1>2. /\ IsFiniteSet(Numbered) /\ Cardinality(Numbered) <= Cardinality(Budgets)
        /\ Cardinality(Budgets) = Cardinality(Numbered) => Budgets = Numbered
    BY <1>1, FS_Subset
  <1> QED
    BY <1>1, <1>2, FS_CardinalityType

LEMMA IdleForm ==
    /\ Idle \in Requests /\ Idle.pc = "idle" /\ Idle.b = None /\ Idle.drop = {}
    /\ Idle.add = {} /\ Idle.put = {} /\ Idle.number = 0 /\ Idle.fresh = TRUE
    /\ Idle.listed = FALSE /\ Idle.list = {} /\ Idle.leaving = FALSE
    /\ Idle.entity = NoBudget /\ NoBudget \in BudgetRows
    /\ NoBudget.status = None
  <1>1. [d \in 0 .. -1 |-> NoDiscount] \in DiscountLists
    <2>1. NoDiscount \in Discounts
      BY ConstantsAssumption, Zenon
    <2>2. 0 \in 0 .. MaxDays /\ 0 - 1 = -1
      BY BoundNat
    <2>3. [d \in 0 .. 0 - 1 |-> NoDiscount] \in DiscountLists
      BY <2>1, <2>2, EqualDiscounts
    <2> QED
      BY <2>2, <2>3
  <1>2. NoBudget \in BudgetRows
    <2>1. 0 \in Totals /\ 0 \in 0 .. MaxDays
      BY BoundNat DEF Totals
    <2> QED
      BY <1>1, <2>1, RowForm DEF NoBudget
  <1>3. 0 \in 0 .. Cardinality(Budgets)
    BY NumberedFinite
  <1>4. Idle \in Requests
    BY <1>2, <1>3, ZenonT(60) DEF Idle, Requests, PCs
  <1> QED
    BY <1>2, <1>4 DEF Idle, NoBudget

LEMMA IdleRequest ==
    ASSUME NEW p \in Workers
    PROVE  /\ RequestForm(p, Idle)
           /\ \A q \in Workers : Apart(Idle, worker[q]) /\ Apart(worker[q], Idle)
  BY IdleForm, NumberedFinite DEF RequestForm, Apart, Updating, Contracting, Holding

\* What concerns a request whose budget nobody changes goes on to hold.
LEMMA FrameForm ==
    ASSUME NEW q, NEW w, worker'[q] = w, RequestForm(q, w),
           w.pc # "idle" => /\ budget'[w.b] = budget[w.b] /\ items'[w.b] = items[w.b]
                            /\ number[w.b] # 0 => number'[w.b] # 0
                            /\ stale'[w.b] = stale[w.b],
           Cardinality(Numbered) \in Nat, Cardinality(Numbered)' \in Nat,
           Cardinality(Numbered) <= Cardinality(Numbered)', w.number \in Nat
    PROVE  RequestForm(q, worker[q])'
  <1>1. w.pc \in Updating \/ w.pc \in Contracting \/ w.pc = "mail" => w.pc # "idle"
    BY DEF Updating, Contracting
  <1>2. w.pc \in Updating => RowsForm(q, worker[q])'
    BY <1>1 DEF RequestForm, RowsForm
  <1>3. w.pc \in Updating /\ w.fresh = TRUE /\ stale[w.b] = FALSE => UpdateForm(worker[q])'
    <2> SUFFICES ASSUME w.pc \in Updating, w.fresh = TRUE, stale[w.b] = FALSE
                 PROVE  UpdateForm(worker[q])'
      OBVIOUS
    <2>1. UpdateForm(w) /\ w.pc # "idle"
      BY <1>1 DEF RequestForm
    <2>2. MoveForm(worker[q])'
      BY <2>1 DEF UpdateForm, MoveForm
    <2>3. Outcome(worker[q])' = Outcome(w)
      BY <2>1 DEF Outcome
    <2> QED
      BY <2>1, <2>2, <2>3 DEF UpdateForm
  <1>4. w.number <= Cardinality(Numbered)' + 1
    BY DEF RequestForm
  <1> QED
    BY <1>1, <1>2, <1>3, <1>4 DEF RequestForm

LEMMA LocalStep ==
    ASSUME BudgetInv, NEW p \in Workers, NEW w \in Requests, RequestForm(p, w),
           \A q \in Workers \ {p} : w.pc \in Holding => Apart(w, worker[q]),
           worker' = [worker EXCEPT ![p] = w], UNCHANGED <<budget, items, number, stale>>
    PROVE  BudgetInv'
  <1>1. ShapeOK'
    BY DEF BudgetInv, ShapeOK
  <1>2. \A b \in Budgets : BudgetForm(b)'
    BY DEF BudgetInv, BudgetForm, GoodBudget
  <1>3. worker'[p] = w /\ \A q \in Workers \ {p} : worker'[q] = worker[q]
    BY DEF BudgetInv, ShapeOK
  <1>4. Numbered' = Numbered
    BY DEF Numbered
  <1>5. ASSUME NEW q \in Workers
        PROVE  RequestForm(q, worker[q])'
    <2>1. CASE q = p
      BY <1>3, <1>4, <2>1, FrameForm, NumberedFinite, RequestParts
    <2>2. CASE q # p
      <3>1. RequestForm(q, worker[q]) /\ worker'[q] = worker[q]
        BY <1>3, <2>2 DEF BudgetInv
      <3> QED
        BY <3>1, <1>4, FrameForm, NumberedFinite, RequestParts DEF BudgetInv, ShapeOK
    <2> QED
      BY <2>1, <2>2
  <1>6. ASSUME NEW q \in Workers, NEW r \in Workers, q # r
        PROVE  Apart(worker[q], worker[r])'
    <2>1. CASE q = p
      BY <1>3, <1>6, <2>1 DEF Apart
    <2>2. CASE r = p
      BY <1>3, <1>6, <2>2 DEF Apart
    <2>3. CASE q # p /\ r # p
      BY <1>3, <1>6, <2>3 DEF Apart, BudgetInv
    <2> QED
      BY <2>1, <2>2, <2>3
  <1>7. NumbersUsed'
    BY <1>4 DEF BudgetInv, NumbersUsed
  <1> QED
    BY <1>1, <1>2, <1>5, <1>6, <1>7 DEF BudgetInv

LEMMA FailStep ==
    ASSUME BudgetInv, NEW p \in Workers, Fail(p)
    PROVE  BudgetInv'
  <1>1. /\ worker' = [worker EXCEPT ![p] = Idle]
        /\ UNCHANGED <<budget, items, number, stale>>
    BY DEF Fail, Done, Goto
  <1> QED
    BY <1>1, IdleForm, IdleRequest, LocalStep

LEMMA UpdateStep ==
    ASSUME BudgetInv, NEW p \in Workers, NEW b \in Budgets, NEW u \in Inputs[b],
           UpdateBudget(p, b, u)
    PROVE  BudgetInv'
  <1> DEFINE row == budget[b]
             new == ItemsFrom(p, u.lines)
             its == IF u.lines = {} THEN items[b] ELSE new
             e == Entity(u, row, its)
             pc == IF u.lines = {} THEN "reload" ELSE "delete"
             leaving == row.status = "DRAFT" /\ u.status \notin {None, "DRAFT"}
             w == [Idle EXCEPT !.pc = pc, !.b = b, !.entity = e, !.listed = TRUE,
                               !.list = items[b], !.add = new, !.leaving = leaving]
  <1>1. /\ row \in BudgetRows /\ row.status # None /\ items[b] \in SUBSET Items
        /\ u \in Updates /\ u.lines \in SUBSET Lines /\ BudgetForm(b)
    <2>1. u \in Updates
      BY ConstantsAssumption, Zenon
    <2> QED
      BY <2>1 DEF BudgetInv, ShapeOK, UpdateBudget, Updates
  <1>2. /\ worker' = [worker EXCEPT ![p] = w]
        /\ UNCHANGED <<budget, items, number, stale>>
    BY DEF UpdateBudget, Begin, Goto
  <1>3. /\ new \in SUBSET Items /\ Gapless(new) /\ \A i \in new : i.by = p
        /\ new = {} <=> u.lines = {}
    <2>1. CASE u.lines = {}
      BY <2>1 DEF ItemsFrom, Gapless
    <2>2. CASE u.lines # {}
      <3>1. LineRules(u.lines, DaysAfter(u, row))
        BY <2>2 DEF UpdateBudget, EditRules, Edits
      <3>2. DaysAfter(u, row) \in 0 .. MaxDays
        BY <1>1, RowParts DEF Updates, DaysAfter, Given
      <3>3. DaysAfter(u, row) # 0
        BY <3>1, <2>2, BoundNat DEF LineRules
      <3>4. DaysAfter(u, row) \in 1 .. MaxDays
        BY <3>2, <3>3, BoundNat
      <3> QED
        BY <1>1, <2>2, <3>1, <3>4, LinesCover
    <2> QED
      BY <2>1, <2>2
  <1>4. /\ its \in SUBSET Items
        /\ e \in BudgetRows /\ e.status # None /\ e.status = Given(u.status, row.status)
        /\ ListFits(e)
        /\ Edits(u) => e.total = TotalAmount(its, e.days, e.discounts)
        /\ ~ Edits(u) /\ ListFits(row) =>
             e.days = row.days /\ e.discounts = row.discounts /\ e.total = row.total
    BY <1>1, <1>3, EntityForm
  <1>5. /\ u.lines # {} => Edits(u)
        /\ Edits(u) => row.status = "DRAFT"
        /\ MayMove(row.status, u.status)
    BY DEF UpdateBudget, EditRules, Edits
  <1>6. leaving \in BOOLEAN
        /\ (row.status = "DRAFT" /\ e.status # "DRAFT" => leaving = TRUE)
    BY <1>4 DEF Given
  <1>7. e.status = row.status \/ e.status \in AllowedTransitions[row.status]
    BY <1>4, <1>5 DEF MayMove, Given
  <1> HIDE DEF e, leaving
  <1>8. w \in Requests
    BY <1>1, <1>3, <1>4, <1>6, IdleForm, ZenonT(60) DEF Requests, PCs
  <1>9. /\ w.pc = pc /\ w.b = b /\ w.entity = e /\ w.listed = TRUE /\ w.list = items[b]
        /\ w.add = new /\ w.leaving = leaving /\ w.drop = {} /\ w.number = 0
    BY IdleForm DEF Idle
  <1>10. RowsForm(p, w)
    <2> HIDE DEF w, new
    <2> QED
      BY <1>3, <1>9 DEF RowsForm
  <1> HIDE DEF w, new
  <1>11. CASE u.lines = {}
    <2>1. w.pc = "reload" /\ w.add = {} /\ Outcome(w) = items[b]
      BY <1>3, <1>9, <1>11 DEF Outcome
    <2>2. ASSUME stale[b] = FALSE
          PROVE  UpdateForm(w)
      <3>1. GoodBudget(b)
        BY <1>1, <2>2 DEF BudgetForm
      <3>2. e.total = TotalAmount(items[b], e.days, e.discounts)
        BY <1>4, <1>11, <3>1 DEF GoodBudget
      <3>3. row.status # "DRAFT" =>
              e.days = row.days /\ e.discounts = row.discounts /\ e.total = row.total
        BY <1>4, <1>5, <3>1 DEF GoodBudget
      <3> QED
        BY <1>4, <1>6, <1>7, <1>9, <2>1, <3>2, <3>3 DEF UpdateForm, MoveForm, Holding
    <2>3. w.number <= Cardinality(Numbered) + 1
      BY <1>9, NumberedFinite
    <2>4. RequestForm(p, w)
      BY <1>1, <1>4, <1>9, <1>10, <2>1, <2>2, <2>3 DEF RequestForm, Updating, Contracting
    <2> QED
      BY <1>2, <1>8, <1>9, <2>4, LocalStep DEF Apart
  <1>12. CASE u.lines # {}
    <2>1. w.pc = "delete" /\ row.status = "DRAFT" /\ its = new /\ Edits(u)
      BY <1>5, <1>9, <1>12
    <2>2. UpdateForm(w)
      BY <1>4, <1>6, <1>7, <1>9, <2>1 DEF UpdateForm, MoveForm, Holding
    <2>3. w.number <= Cardinality(Numbered) + 1
      BY <1>9, NumberedFinite
    <2>4. RequestForm(p, w)
      BY <1>1, <1>4, <1>9, <1>10, <2>1, <2>2, <2>3 DEF RequestForm, Updating, Contracting
    <2> QED
      BY <1>2, <1>8, <1>9, <2>1, <2>4, LocalStep DEF Holding
  <1> QED
    BY <1>11, <1>12

\* What is known of the request that takes a step.
LEMMA RequestNow ==
    ASSUME BudgetInv, NEW p \in Workers, worker[p].pc # "idle"
    PROVE  /\ worker[p] \in Requests /\ RequestForm(p, worker[p])
           /\ worker[p].b \in Budgets /\ budget[worker[p].b].status # None
           /\ budget[worker[p].b] \in BudgetRows
           /\ items[worker[p].b] \in SUBSET Items
           /\ BudgetForm(worker[p].b)
  BY DEF BudgetInv, ShapeOK, RequestForm

\* The lines there will be have no gap, nor have those of each request.
LEMMA OutcomeGapless ==
    ASSUME NEW p \in Workers, NEW w \in Requests, w.b \in Budgets, RowsForm(p, w),
           BudgetForm(w.b)
    PROVE  GaplessBatches(Outcome(w)) /\ Gapless(Outcome(w))
  <1>1. ASSUME NEW i \in Outcome(w), NEW d \in 0 .. i.day
        PROVE  \E j \in Outcome(w) : j.by = i.by /\ j.day = d
    <2>1. CASE i \in w.add
      <3>1. PICK j \in w.add : j.day = d
        BY <2>1 DEF RowsForm, Gapless
      <3> QED
        BY <2>1, <3>1 DEF RowsForm, Outcome
    <2>2. CASE i \in items[w.b] /\ i \notin w.drop
      <3>1. PICK j \in items[w.b] : j.by = i.by /\ j.day = d
        BY <2>2 DEF BudgetForm, GaplessBatches
      <3>2. j \notin w.drop
        BY <2>2, <3>1 DEF RowsForm
      <3> QED
        BY <3>1, <3>2 DEF Outcome
    <2> QED
      BY <2>1, <2>2 DEF Outcome
  <1> QED
    BY <1>1 DEF GaplessBatches, Gapless

LEMMA DeleteStep ==
    ASSUME BudgetInv, NEW p \in Workers, DeleteItems(p)
    PROVE  BudgetInv'
  <1> DEFINE v == worker[p]
             w == [v EXCEPT !.pc = "insert", !.drop = items[v.b]]
  <1>1. v.pc = "delete" /\ v.pc # "idle"
    BY DEF DeleteItems, At
  <1>2. /\ v \in Requests /\ RequestForm(p, v) /\ v.b \in Budgets
        /\ budget[v.b].status # None /\ items[v.b] \in SUBSET Items
    BY <1>1, RequestNow
  <1>3. /\ worker' = [worker EXCEPT ![p] = w]
        /\ UNCHANGED <<budget, items, number, stale>>
    BY DEF DeleteItems, Goto
  <1> HIDE DEF v
  <1>4. w \in Requests
    BY <1>2, ZenonT(60) DEF Requests, PCs
  <1>5. /\ w.pc = "insert" /\ w.b = v.b /\ w.entity = v.entity /\ w.listed = v.listed
        /\ w.add = v.add /\ w.leaving = v.leaving /\ w.drop = items[v.b]
        /\ w.fresh = v.fresh /\ w.number = v.number
    BY <1>2 DEF Requests
  <1> HIDE DEF w
  <1>6. RowsForm(p, v) /\ v.entity.status # None
    BY <1>1, <1>2 DEF RequestForm, Updating
  <1>7. v.add # {}
    BY <1>1, <1>6 DEF RowsForm
  <1>8. RowsForm(p, w)
    BY <1>1, <1>5, <1>6, <1>7 DEF RowsForm
  <1>9. w.fresh = TRUE /\ stale[w.b] = FALSE => UpdateForm(w)
    <2> SUFFICES ASSUME w.fresh = TRUE, stale[w.b] = FALSE
                 PROVE  UpdateForm(w)
      OBVIOUS
    <2>1. UpdateForm(v)
      BY <1>1, <1>2, <1>5 DEF RequestForm, Updating
    <2> QED
      BY <1>1, <1>5, <2>1 DEF UpdateForm, MoveForm, Holding
  <1>10. RequestForm(p, w)
    BY <1>1, <1>2, <1>5, <1>6, <1>8, <1>9 DEF RequestForm, Updating, Contracting
  <1> QED
    BY <1>3, <1>4, <1>5, <1>10, LocalStep DEF Holding

LEMMA InsertStep ==
    ASSUME BudgetInv, NEW p \in Workers, InsertItems(p)
    PROVE  BudgetInv'
  <1> DEFINE v == worker[p]
             list == (items[v.b] \ v.drop) \cup v.add
             w == [v EXCEPT !.pc = "reload", !.list = list]
  <1>1. v.pc = "insert" /\ v.pc # "idle"
    BY DEF InsertItems, At
  <1>2. /\ v \in Requests /\ RequestForm(p, v) /\ v.b \in Budgets
        /\ budget[v.b].status # None /\ items[v.b] \in SUBSET Items
    BY <1>1, RequestNow
  <1>3. /\ worker' = [worker EXCEPT ![p] = w]
        /\ UNCHANGED <<budget, items, number, stale>>
        /\ \A q \in Workers \ {p} : worker[q].b = v.b => HeldBy(q) \cap v.drop = {}
    BY DEF InsertItems, Goto
  <1>4. list \in SUBSET Items /\ list = Outcome(v)
    BY <1>2, RequestParts DEF Outcome
  <1> HIDE DEF v, list
  <1>5. w \in Requests
    BY <1>2, <1>4, ZenonT(60) DEF Requests, PCs
  <1>6. /\ w.pc = "reload" /\ w.b = v.b /\ w.entity = v.entity /\ w.listed = v.listed
        /\ w.add = v.add /\ w.leaving = v.leaving /\ w.drop = v.drop
        /\ w.fresh = v.fresh /\ w.number = v.number /\ w.list = list
    BY <1>2 DEF Requests
  <1> HIDE DEF w
  <1>7. RowsForm(p, v) /\ v.entity.status # None
    BY <1>1, <1>2 DEF RequestForm, Updating
  <1>8. RowsForm(p, w)
    BY <1>1, <1>6, <1>7 DEF RowsForm
  <1>9. w.fresh = TRUE /\ stale[w.b] = FALSE => UpdateForm(w)
    <2> SUFFICES ASSUME w.fresh = TRUE, stale[w.b] = FALSE
                 PROVE  UpdateForm(w)
      OBVIOUS
    <2>1. UpdateForm(v)
      BY <1>1, <1>2, <1>6 DEF RequestForm, Updating
    <2>2. /\ v.drop = items[v.b]
          /\ v.entity.total = TotalAmount(v.add, v.entity.days, v.entity.discounts)
      BY <1>1, <2>1 DEF UpdateForm
    <2>3. Outcome(v) = v.add /\ Outcome(w) = Outcome(v)
      BY <1>6, <2>2 DEF Outcome
    <2> QED
      BY <1>1, <1>4, <1>6, <2>1, <2>2, <2>3 DEF UpdateForm, MoveForm, Holding
  <1>10. RequestForm(p, w)
    BY <1>1, <1>2, <1>6, <1>7, <1>8, <1>9 DEF RequestForm, Updating, Contracting
  <1>11. \A q \in Workers \ {p} : Apart(w, worker[q])
    BY <1>3, <1>6 DEF Apart, HeldBy, Holding
  <1> QED
    BY <1>3, <1>5, <1>10, <1>11, LocalStep

LEMMA ReloadStep ==
    ASSUME BudgetInv, NEW p \in Workers, ReloadBudget(p)
    PROVE  BudgetInv'
  <1> DEFINE v == worker[p]
             row == budget[v.b]
             put == Differing(v.entity, row)
             visible == (items[v.b] \ v.drop) \cup v.add
             refused == \/ v.listed /\ ~ visible \subseteq v.list
                        \/ v.leaving /\ ~ ReadyForContract(v.entity, v.list)
             w == [Idle EXCEPT !.pc = "write", !.b = v.b, !.fresh = v.fresh,
                               !.entity = v.entity, !.put = put,
                               !.drop = v.drop, !.add = v.add]
  <1>1. v.pc = "reload" /\ v.pc # "idle"
    BY DEF ReloadBudget, At
  <1>2. /\ v \in Requests /\ RequestForm(p, v) /\ v.b \in Budgets
        /\ row.status # None /\ items[v.b] \in SUBSET Items
    BY <1>1, RequestNow
  <1>3. UNCHANGED <<budget, items, number, stale>>
    BY DEF ReloadBudget
  <1>4. CASE refused
    <2>1. worker' = [worker EXCEPT ![p] = Idle]
      BY <1>4 DEF ReloadBudget, Done, Goto
    <2> QED
      BY <1>3, <2>1, IdleForm, IdleRequest, LocalStep
  <1>5. CASE ~ refused
    <2>1. worker' = [worker EXCEPT ![p] = w]
      BY <1>5 DEF ReloadBudget, Goto
    <2>2. put \in SUBSET Columns
      BY DEF Differing
    <2>3. visible = Outcome(v) /\ Outcome(v) \in SUBSET Items
      BY <1>2, RequestParts DEF Outcome
    <2> HIDE DEF v, put
    <2>4. w \in Requests
      BY <1>2, <2>2, IdleForm, ZenonT(60) DEF Requests, PCs
    <2>5. /\ w.pc = "write" /\ w.b = v.b /\ w.entity = v.entity
          /\ w.add = v.add /\ w.drop = v.drop /\ w.put = put
          /\ w.fresh = v.fresh /\ w.number = 0
      BY DEF Idle
    <2> HIDE DEF w
    <2>6. RowsForm(p, v) /\ v.entity.status # None
      BY <1>1, <1>2 DEF RequestForm, Updating
    <2>7. RowsForm(p, w)
      BY <1>1, <2>5, <2>6 DEF RowsForm
    <2>8. w.fresh = TRUE /\ stale[w.b] = FALSE => UpdateForm(w)
      <3> SUFFICES ASSUME w.fresh = TRUE, stale[w.b] = FALSE
                   PROVE  UpdateForm(w)
        OBVIOUS
      <3>1. UpdateForm(v)
        BY <1>1, <1>2, <2>5 DEF RequestForm, Updating
      <3>2. Outcome(w) = Outcome(v)
        BY <2>5 DEF Outcome
      <3>3. row.status = "DRAFT" /\ v.entity.status # "DRAFT" =>
              WholeOffer(v.entity, Outcome(v))
        <4> SUFFICES ASSUME row.status = "DRAFT", v.entity.status # "DRAFT"
                     PROVE  WholeOffer(v.entity, Outcome(v))
          OBVIOUS
        <4>1. v.listed = TRUE /\ v.leaving = TRUE /\ v.list = Outcome(v)
          BY <1>1, <3>1 DEF UpdateForm
        <4>2. ReadyForContract(v.entity, Outcome(v))
          BY <1>5, <4>1
        <4>3. Gapless(Outcome(v))
          BY <1>1, <1>2, <2>6, RequestNow, OutcomeGapless DEF v
        <4> QED
          BY <1>2, <2>3, <4>2, <4>3, RequestParts, CountIsEnough
      <3> QED
        BY <1>1, <2>5, <3>1, <3>2, <3>3 DEF UpdateForm, MoveForm, Holding, put
    <2>9. w.number <= Cardinality(Numbered) + 1
      BY <2>5, NumberedFinite
    <2>10. RequestForm(p, w)
      BY <1>2, <2>5, <2>6, <2>7, <2>8, <2>9 DEF RequestForm, Updating, Contracting
    <2>11. \A q \in Workers \ {p} : Apart(w, worker[q])
      <3>1. \A q \in Workers \ {p} : Apart(v, worker[q])
        BY DEF BudgetInv, v
      <3> QED
        BY <1>1, <2>5, <3>1 DEF Apart, Holding
    <2> QED
      BY <1>3, <2>1, <2>4, <2>10, <2>11, LocalStep
  <1> QED
    BY <1>4, <1>5

LEMMA SendStep ==
    ASSUME BudgetInv, NEW p \in Workers, NEW b \in Budgets, SendBudget(p, b)
    PROVE  BudgetInv'
  <1> DEFINE w == [Idle EXCEPT !.pc = "mail", !.b = b]
  <1>1. /\ worker' = [worker EXCEPT ![p] = w] /\ budget[b].status = "GENERATED"
        /\ UNCHANGED <<budget, items, number, stale>>
    BY DEF SendBudget, Begin, Goto
  <1>2. w \in Requests
    BY IdleForm, ZenonT(60) DEF Requests, PCs
  <1>3. w.pc = "mail" /\ w.b = b /\ w.drop = {} /\ w.number = 0
    BY IdleForm DEF Idle
  <1> HIDE DEF w
  <1>4. budget[b].status # None
    BY <1>1, NoneAssumption DEF BudgetStatus
  <1>5. RequestForm(p, w)
    BY <1>1, <1>3, <1>4, NumberedFinite DEF RequestForm, Updating, Contracting
  <1> QED
    BY <1>1, <1>2, <1>3, <1>5, LocalStep DEF Holding

LEMMA CreateContractStep ==
    ASSUME BudgetInv, NEW p \in Workers, NEW b \in Budgets, CreateContract(p, b)
    PROVE  BudgetInv'
  <1> DEFINE w == [Idle EXCEPT !.pc = "count", !.b = b]
  <1>1. /\ worker' = [worker EXCEPT ![p] = w] /\ budget[b].status = "APPROVED"
        /\ UNCHANGED <<budget, items, number, stale>>
    BY DEF CreateContract, Begin, Goto
  <1>2. w \in Requests
    BY IdleForm, ZenonT(60) DEF Requests, PCs
  <1>3. w.pc = "count" /\ w.b = b /\ w.drop = {} /\ w.number = 0
    BY IdleForm DEF Idle
  <1> HIDE DEF w
  <1>4. budget[b].status # None /\ BudgetForm(b)
    BY <1>1, NoneAssumption DEF BudgetInv, BudgetStatus
  <1>5. stale[b] = FALSE => WholeOffer(budget[b], items[b])
    BY <1>1, <1>4 DEF BudgetForm, GoodBudget, OfferStatuses
  <1>6. RequestForm(p, w)
    BY <1>1, <1>3, <1>4, <1>5, NumberedFinite DEF RequestForm, Updating, Contracting
  <1> QED
    BY <1>1, <1>2, <1>3, <1>6, LocalStep DEF Holding

LEMMA CountStep ==
    ASSUME BudgetInv, NEW p \in Workers, CountContracts(p)
    PROVE  BudgetInv'
  <1> DEFINE v == worker[p]
             n == Cardinality(Numbered) + 1
             w == [v EXCEPT !.pc = "contract", !.number = n]
  <1>1. v.pc = "count" /\ v.pc # "idle" /\ Numbered # Budgets
    BY DEF CountContracts, At
  <1>2. /\ v \in Requests /\ RequestForm(p, v) /\ v.b \in Budgets
        /\ budget[v.b].status # None
    BY <1>1, RequestNow
  <1>3. /\ worker' = [worker EXCEPT ![p] = w]
        /\ UNCHANGED <<budget, items, number, stale>>
    BY DEF CountContracts, Goto
  <1>4. n \in 0 .. Cardinality(Budgets)
    BY <1>1, NumberedFinite
  <1> HIDE DEF v, n
  <1>5. w \in Requests
    BY <1>2, <1>4, ZenonT(60) DEF Requests, PCs
  <1>6. w.pc = "contract" /\ w.b = v.b /\ w.drop = v.drop /\ w.number = n
    BY <1>2 DEF Requests
  <1> HIDE DEF w
  <1>7. w.number <= Cardinality(Numbered) + 1
    BY <1>6, NumberedFinite DEF n
  <1>8. RequestForm(p, w)
    BY <1>1, <1>2, <1>6, <1>7 DEF RequestForm, Updating, Contracting
  <1> QED
    BY <1>3, <1>5, <1>6, <1>8, LocalStep DEF Holding

LEMMA CancelStep ==
    ASSUME BudgetInv, NEW p \in Workers, NEW b \in Budgets, CancelWithContract(p, b)
    PROVE  BudgetInv'
  <1> DEFINE row == budget[b]
             e == [row EXCEPT !.status = "CANCELED"]
             w == [Idle EXCEPT !.pc = "reload", !.b = b, !.entity = e]
  <1>1. /\ worker' = [worker EXCEPT ![p] = w] /\ number[b] # 0
        /\ UNCHANGED <<budget, items, number, stale>>
    BY DEF CancelWithContract, Begin, Goto
  <1>2. row \in BudgetRows /\ BudgetForm(b) /\ row.status # None
    BY <1>1 DEF BudgetInv, ShapeOK, BudgetForm
  <1>3. /\ e \in BudgetRows /\ e.status = "CANCELED" /\ e.days = row.days
        /\ e.discounts = row.discounts /\ e.total = row.total
    BY <1>2 DEF BudgetRows, BudgetStatus
  <1> HIDE DEF row, e
  <1>4. w \in Requests
    BY <1>3, IdleForm, ZenonT(60) DEF Requests, PCs
  <1>5. /\ w.pc = "reload" /\ w.b = b /\ w.entity = e /\ w.drop = {} /\ w.add = {}
        /\ w.listed = FALSE /\ w.number = 0
    BY IdleForm DEF Idle
  <1> HIDE DEF w
  <1>6. RowsForm(p, w)
    BY <1>5 DEF RowsForm, Gapless
  <1>7. stale[b] = FALSE => UpdateForm(w)
    <2> SUFFICES ASSUME stale[b] = FALSE
                 PROVE  UpdateForm(w)
      OBVIOUS
    <2>1. GoodBudget(b)
      BY <1>2 DEF BudgetForm, row
    <2>2. /\ ListFits(row) /\ row.status \in {"APPROVED", "CANCELED"}
          /\ row.total = TotalAmount(items[b], row.days, row.discounts)
      BY <1>1, <2>1 DEF GoodBudget, row
    <2>3. Outcome(w) = items[b] /\ ListFits(e)
      BY <1>3, <1>5, <2>2 DEF Outcome, ListFits
    <2>4. MoveForm(w)
      BY <1>1, <1>3, <1>5 DEF MoveForm
    <2>5. e.total = TotalAmount(Outcome(w), e.days, e.discounts)
      BY <1>3, <2>2, <2>3
    <2> QED
      BY <1>3, <1>5, <2>2, <2>3, <2>4, <2>5 DEF UpdateForm, Holding, row
  <1>8. e.status # None
    BY <1>3, NoneAssumption DEF BudgetStatus
  <1>9. RequestForm(p, w)
    BY <1>2, <1>5, <1>6, <1>7, <1>8, NumberedFinite
    DEF RequestForm, Updating, Contracting, row
  <1> QED
    BY <1>1, <1>4, <1>5, <1>9, LocalStep DEF Apart

-----------------------------------------------------------------------------
(* Steps that change a budget *)

LEMMA CreateStep ==
    ASSUME BudgetInv, NEW p \in Workers, NEW b \in Budgets, NEW c \in Drafts[b],
           CreateBudget(p, b, c)
    PROVE  BudgetInv'
  <1> DEFINE n == c.days
             x == [d \in 0 .. n - 1 |-> c.discount]
             new == ItemsFrom(p, c.lines)
             row == [status |-> "DRAFT", days |-> n, discounts |-> x,
                     total |-> TotalAmount(new, n, x)]
  <1>1. c \in Contents
    BY ConstantsAssumption, Zenon
  <1>2. /\ n \in 1 .. MaxDays /\ n \in 0 .. MaxDays
        /\ c.discount \in Discounts /\ c.lines \in SUBSET Lines
    BY <1>1, BoundNat DEF Contents
  <1>3. /\ budget' = [budget EXCEPT ![b] = row] /\ items' = [items EXCEPT ![b] = new]
        /\ UNCHANGED <<number, worker, stale>>
        /\ budget[b].status = None /\ LineRules(c.lines, n)
    BY DEF CreateBudget
  <1>4. new \in SUBSET Items /\ Gapless(new) /\ \A i \in new : i.by = p
    BY <1>2, <1>3, LinesCover
  <1>5. x \in DiscountLists /\ DOMAIN x = 0 .. n - 1
    BY <1>2, EqualDiscounts
  <1>6. row \in BudgetRows
    BY <1>2, <1>4, <1>5, TotalIn, RowForm DEF BudgetStatus
  <1>7. /\ row.status = "DRAFT" /\ row.days = n /\ row.discounts = x
        /\ row.total = TotalAmount(new, n, x)
    OBVIOUS
  <1> HIDE DEF row, new, x, n
  <1>8. ShapeOK'
    BY <1>3, <1>4, <1>6 DEF BudgetInv, ShapeOK
  <1>9. ASSUME NEW a \in Budgets
        PROVE  BudgetForm(a)'
    <2>1. CASE a # b
      <3>1. budget'[a] = budget[a] /\ items'[a] = items[a] /\ number' = number /\ stale' = stale
        BY <1>3, <2>1 DEF BudgetInv, ShapeOK
      <3> QED
        BY <3>1 DEF BudgetInv, BudgetForm, GoodBudget
    <2>2. CASE a = b
      <3>1. budget'[b] = row /\ items'[b] = new /\ number'[b] = number[b]
        BY <1>3 DEF BudgetInv, ShapeOK
      <3>2. number[b] = 0
        BY <1>3 DEF BudgetInv, BudgetForm
      <3>3. GaplessBatches(new)
        BY <1>4 DEF Gapless, GaplessBatches
      <3>4. GoodBudget(b)'
        BY <1>5, <1>7, <3>1, <3>2 DEF GoodBudget, ListFits, OfferStatuses
      <3> QED
        BY <2>2, <3>1, <3>2, <3>3, <3>4 DEF BudgetForm
    <2> QED
      BY <2>1, <2>2
  <1>10. Numbered' = Numbered
    BY <1>3 DEF Numbered
  <1>11. ASSUME NEW q \in Workers
         PROVE  RequestForm(q, worker[q])'
    <2>1. RequestForm(q, worker[q]) /\ worker'[q] = worker[q] /\ worker[q] \in Requests
      BY <1>3 DEF BudgetInv, ShapeOK
    <2>2. worker[q].pc # "idle" => worker[q].b \in Budgets /\ worker[q].b # b
      BY <1>3, <2>1 DEF RequestForm
    <2>3. worker[q].pc # "idle" =>
            /\ budget'[worker[q].b] = budget[worker[q].b]
            /\ items'[worker[q].b] = items[worker[q].b]
            /\ number'[worker[q].b] = number[worker[q].b]
            /\ stale'[worker[q].b] = stale[worker[q].b]
      BY <1>3, <2>2 DEF BudgetInv, ShapeOK
    <2> QED
      BY <1>10, <2>1, <2>3, FrameForm, NumberedFinite, RequestParts
  <1>12. \A q, r \in Workers : q # r => Apart(worker[q], worker[r])'
    BY <1>3 DEF BudgetInv, Apart
  <1>13. NumbersUsed'
    BY <1>3, <1>10 DEF BudgetInv, NumbersUsed
  <1> QED
    BY <1>8, <1>9, <1>11, <1>12, <1>13 DEF BudgetInv

LEMMA InsertContractStep ==
    ASSUME BudgetInv, NEW p \in Workers, InsertContract(p)
    PROVE  /\ BudgetInv'
           /\ \/ number' = number
              \/ /\ number[worker[p].b] = 0
                 /\ number' = [number EXCEPT ![worker[p].b] = Cardinality(Numbered) + 1]
  <1> DEFINE w == worker[p]
             b == w.b
  <1>1. w.pc = "contract" /\ w.pc # "idle"
    BY DEF InsertContract, At
  <1>2. /\ w \in Requests /\ RequestForm(p, w) /\ b \in Budgets
        /\ budget[b].status # None /\ BudgetForm(b)
    BY <1>1, RequestNow
  <1>3. worker' = [worker EXCEPT ![p] = Idle] /\ UNCHANGED <<budget, items, stale>>
    BY DEF InsertContract, Done, Goto
  <1>4. CASE Taken(w)
    <2>1. number' = number
      BY <1>4 DEF InsertContract
    <2> QED
      BY <1>3, <2>1, IdleForm, IdleRequest, LocalStep
  <1>5. CASE ~ Taken(w)
    <2>1. number' = [number EXCEPT ![b] = w.number]
      BY <1>5 DEF InsertContract
    <2>2. number[b] = 0 /\ w.number # 0 /\ \A a \in Budgets : number[a] # w.number
      BY <1>2, <1>5 DEF Taken
    <2>3. w.number = Cardinality(Numbered) + 1
      <3>1. w.number \in Nat /\ w.number <= Cardinality(Numbered) + 1
        BY <1>2, RequestParts DEF RequestForm
      <3>2. w.number \notin 1 .. Cardinality(Numbered)
        BY <2>2 DEF BudgetInv, NumbersUsed
      <3> QED
        BY <2>2, <3>1, <3>2, NumberedFinite
    <2>4. Numbered' = Numbered \cup {b} /\ b \notin Numbered
      BY <1>2, <2>1, <2>2 DEF Numbered, BudgetInv, ShapeOK
    <2>5. Cardinality(Numbered)' = Cardinality(Numbered) + 1
      BY <2>4, NumberedFinite, FS_AddElement
    <2>6. w.number \in 0 .. Cardinality(Budgets)
      BY <1>2 DEF Requests
    <2>7. ShapeOK'
      BY <1>3, <2>1, <2>6, IdleForm DEF BudgetInv, ShapeOK
    <2>8. ASSUME NEW a \in Budgets
          PROVE  BudgetForm(a)'
      <3>1. CASE a # b
        <4>1. number'[a] = number[a] /\ budget' = budget /\ items' = items /\ stale' = stale
          BY <1>3, <2>1, <3>1 DEF BudgetInv, ShapeOK
        <4> QED
          BY <4>1 DEF BudgetInv, BudgetForm, GoodBudget
      <3>2. CASE a = b
        <4>1. stale[b] = FALSE => /\ budget[b].status \in {"APPROVED", "CANCELED"}
                                  /\ WholeOffer(budget[b], items[b])
          BY <1>1, <1>2 DEF RequestForm, Contracting
        <4> HIDE DEF b
        <4> QED
          BY <1>2, <1>3, <3>2, <4>1 DEF BudgetForm, GoodBudget
      <3> QED
        BY <3>1, <3>2
    <2>9. ASSUME NEW q \in Workers
          PROVE  RequestForm(q, worker[q])'
      <3>1. CASE q = p
        <4>1. worker'[q] = Idle
          BY <1>3, <3>1 DEF BudgetInv, ShapeOK
        <4> QED
          BY <4>1, <2>5, IdleForm, NumberedFinite DEF RequestForm, Updating, Contracting
      <3>2. CASE q # p
        <4>1. worker'[q] = worker[q] /\ worker[q] \in Requests /\ RequestForm(q, worker[q])
          BY <1>3, <3>2 DEF BudgetInv, ShapeOK
        <4>2. worker[q].pc # "idle" =>
                /\ budget'[worker[q].b] = budget[worker[q].b]
                /\ items'[worker[q].b] = items[worker[q].b]
                /\ number[worker[q].b] # 0 => number'[worker[q].b] # 0
                /\ stale'[worker[q].b] = stale[worker[q].b]
          BY <1>3, <2>1, <2>2, <4>1 DEF BudgetInv, ShapeOK, RequestForm
        <4> QED
          BY <2>5, <4>1, <4>2, FrameForm, NumberedFinite, RequestParts
      <3> QED
        BY <3>1, <3>2
    <2>10. ASSUME NEW q \in Workers, NEW r \in Workers, q # r
           PROVE  Apart(worker[q], worker[r])'
      <3>1. /\ worker'[q] = IF q = p THEN Idle ELSE worker[q]
            /\ worker'[r] = IF r = p THEN Idle ELSE worker[r]
        BY <1>3 DEF BudgetInv, ShapeOK
      <3>2. Apart(worker[q], worker[r])
        BY <2>10 DEF BudgetInv
      <3> QED
        BY <3>1, <3>2, IdleForm DEF Apart, Holding
    <2>11. ASSUME NEW k \in 1 .. Cardinality(Numbered)'
           PROVE  \E a \in Budgets : number'[a] = k
      <3>1. CASE k = w.number
        BY <1>2, <2>1, <3>1 DEF BudgetInv, ShapeOK
      <3>2. CASE k # w.number
        <4>1. k \in 1 .. Cardinality(Numbered)
          BY <2>3, <2>5, <3>2, NumberedFinite
        <4>2. PICK a \in Budgets : number[a] = k
          BY <4>1 DEF BudgetInv, NumbersUsed
        <4>3. a # b
          BY <2>2, <4>1, <4>2
        <4> QED
          BY <2>1, <4>2, <4>3 DEF BudgetInv, ShapeOK
      <3> QED
        BY <3>1, <3>2
    <2>12. BudgetInv'
      BY <2>7, <2>8, <2>9, <2>10, <2>11 DEF BudgetInv, NumbersUsed
    <2> QED
      BY <2>1, <2>2, <2>3, <2>12
  <1> QED
    BY <1>4, <1>5

\* What a write of b does to the request of somebody else.
LEMMA LateForm ==
    ASSUME NEW w \in Requests, NEW gone
    PROVE  LET late == [w EXCEPT !.fresh = FALSE, !.drop = @ \ gone, !.list = @ \ gone]
           IN  /\ late \in Requests /\ late.fresh = FALSE
               /\ late.drop = w.drop \ gone /\ late.pc = w.pc /\ late.b = w.b
               /\ late.entity = w.entity /\ late.add = w.add /\ late.number = w.number
  <1> DEFINE drop == w.drop \ gone
             list == w.list \ gone
             late == [w EXCEPT !.fresh = FALSE, !.drop = drop, !.list = list]
  <1>1. drop \in SUBSET Items /\ list \in SUBSET Items
    BY RequestParts
  <1> HIDE DEF drop, list
  <1>2. late \in Requests
    BY <1>1, ZenonT(60) DEF Requests
  <1>3. /\ late.fresh = FALSE /\ late.drop = drop /\ late.pc = w.pc /\ late.b = w.b
        /\ late.entity = w.entity /\ late.add = w.add /\ late.number = w.number
    BY DEF Requests
  <1> QED
    BY <1>2, <1>3 DEF drop, list

LEMMA WroteEach ==
    ASSUME NEW p \in Workers, NEW b, Wrote(p, b), NEW q \in Workers
    PROVE  worker'[q] =
             IF q = p THEN Idle
             ELSE IF worker[q].b = b
               THEN [worker[q] EXCEPT !.fresh = FALSE, !.drop = @ \ worker[p].drop,
                                      !.list = @ \ worker[p].drop]
             ELSE worker[q]
  BY DEF Wrote

LEMMA WroteType ==
    ASSUME BudgetInv, NEW p \in Workers, NEW b \in Budgets, Wrote(p, b)
    PROVE  /\ worker' \in [Workers -> Requests] /\ worker'[p] = Idle
           /\ stale' \in [Budgets -> BOOLEAN]
           /\ \A a \in Budgets : a # b => stale'[a] = stale[a]
           /\ stale'[b] = FALSE => stale[b] = FALSE /\ worker[p].fresh = TRUE
  <1>1. ASSUME NEW q \in Workers
        PROVE  worker'[q] \in Requests
    <2>1. worker[q] \in Requests /\ Idle \in Requests
      BY IdleForm DEF BudgetInv, ShapeOK
    <2>2. [worker[q] EXCEPT !.fresh = FALSE, !.drop = @ \ worker[p].drop,
                            !.list = @ \ worker[p].drop] \in Requests
      BY <2>1, LateForm, Zenon
    <2>3. worker'[q] \in {Idle, worker[q], [worker[q] EXCEPT !.fresh = FALSE,
                            !.drop = @ \ worker[p].drop, !.list = @ \ worker[p].drop]}
      BY WroteEach, ZenonT(60)
    <2> QED
      BY <2>1, <2>2, <2>3
  <1>2. worker' \in [Workers -> Requests] /\ worker'[p] = Idle
    BY <1>1, WroteEach DEF Wrote
  <1>3. worker[p].fresh \in BOOLEAN
    BY DEF BudgetInv, ShapeOK, Requests
  <1> QED
    BY <1>2, <1>3 DEF Wrote, BudgetInv, ShapeOK

LEMMA WroteLate ==
    ASSUME BudgetInv, NEW p \in Workers, NEW b, Wrote(p, b), NEW q \in Workers, q # p,
           worker[q].b = b
    PROVE  /\ worker'[q].fresh = FALSE /\ worker'[q].drop = worker[q].drop \ worker[p].drop
           /\ worker'[q].pc = worker[q].pc /\ worker'[q].b = worker[q].b
           /\ worker'[q].entity = worker[q].entity /\ worker'[q].add = worker[q].add
           /\ worker'[q].number = worker[q].number
  <1>1. worker[q] \in Requests
    BY DEF BudgetInv, ShapeOK
  <1> DEFINE late == [worker[q] EXCEPT !.fresh = FALSE, !.drop = @ \ worker[p].drop,
                                       !.list = @ \ worker[p].drop]
  <1>2. worker'[q] = late
    BY WroteEach, ZenonT(60)
  <1>3. /\ late.fresh = FALSE /\ late.drop = worker[q].drop \ worker[p].drop
        /\ late.pc = worker[q].pc /\ late.b = worker[q].b
        /\ late.entity = worker[q].entity /\ late.add = worker[q].add
        /\ late.number = worker[q].number
    BY <1>1, LateForm
  <1> HIDE DEF late
  <1> QED
    BY <1>2, <1>3

LEMMA WroteOther ==
    ASSUME NEW p \in Workers, NEW b, Wrote(p, b), NEW q \in Workers, q # p,
           worker[q].b # b
    PROVE  worker'[q] = worker[q]
  BY DEF Wrote

\* Two requests that held different rows still do.
LEMMA WroteApart ==
    ASSUME BudgetInv, NEW p \in Workers, NEW b, Wrote(p, b),
           NEW q \in Workers, NEW r \in Workers, q # r
    PROVE  Apart(worker[q], worker[r])'
  <1>1. ASSUME NEW s \in Workers
        PROVE  \/ worker'[s].pc = "idle"
               \/ /\ worker'[s].pc = worker[s].pc /\ worker'[s].b = worker[s].b
                  /\ worker'[s].drop \subseteq worker[s].drop
    <2>1. CASE s = p
      BY <2>1, WroteEach, IdleForm
    <2>2. CASE s # p /\ worker[s].b = b
      <3>1. /\ worker'[s].fresh = FALSE /\ worker'[s].drop = worker[s].drop \ worker[p].drop
            /\ worker'[s].pc = worker[s].pc /\ worker'[s].b = worker[s].b
            /\ worker'[s].entity = worker[s].entity /\ worker'[s].add = worker[s].add
            /\ worker'[s].number = worker[s].number
        BY <2>2, WroteLate, Zenon
      <3> QED
        BY <3>1
    <2>3. CASE s # p /\ worker[s].b # b
      <3>1. worker'[s] = worker[s]
        BY <2>3, WroteOther, Zenon
      <3> QED
        BY <3>1
    <2> QED
      BY <2>1, <2>2, <2>3
  <1>2. Apart(worker[q], worker[r])
    BY DEF BudgetInv
  <1> QED
    BY <1>1, <1>2 DEF Apart, Holding

LEMMA MarkSentStep ==
    ASSUME BudgetInv, NEW p \in Workers, MarkSent(p)
    PROVE  BudgetInv'
  <1> DEFINE v == worker[p]
             b == v.b
             row == [budget[b] EXCEPT !.status = "SENT"]
  <1>1. v.pc = "mail" /\ v.pc # "idle"
    BY DEF MarkSent, At
  <1>2. /\ v \in Requests /\ RequestForm(p, v) /\ b \in Budgets
        /\ budget[b].status # None /\ budget[b] \in BudgetRows
        /\ BudgetForm(b)
    BY <1>1, RequestNow
  <1>3. v.drop = {} /\ (v.fresh = TRUE /\ stale[b] = FALSE => budget[b].status = "GENERATED")
    BY <1>1, <1>2 DEF RequestForm, Updating
  <1>4. /\ row \in BudgetRows /\ row.status = "SENT" /\ row.days = budget[b].days
        /\ row.discounts = budget[b].discounts /\ row.total = budget[b].total
    BY <1>2, SentForm
  <1>5. /\ budget' = [budget EXCEPT ![b] = row] /\ Wrote(p, b)
        /\ UNCHANGED <<items, number>>
    BY DEF MarkSent
  <1>6. /\ worker' \in [Workers -> Requests] /\ worker'[p] = Idle
        /\ stale' \in [Budgets -> BOOLEAN]
        /\ \A a \in Budgets : a # b => stale'[a] = stale[a]
        /\ stale'[b] = FALSE => stale[b] = FALSE /\ v.fresh = TRUE
    BY <1>2, <1>5, WroteType
  <1> HIDE DEF row
  <1>7. ShapeOK'
    BY <1>4, <1>5, <1>6 DEF BudgetInv, ShapeOK
  <1>8. budget'[b] = row /\ \A a \in Budgets : a # b => budget'[a] = budget[a]
    BY <1>2, <1>5 DEF BudgetInv, ShapeOK
  <1>9. "SENT" # None
    BY NoneAssumption DEF BudgetStatus
  <1>10. ASSUME NEW a \in Budgets
         PROVE  BudgetForm(a)'
    <2>1. BudgetForm(a)
      BY DEF BudgetInv
    <2>2. CASE a # b
      <3>1. budget'[a] = budget[a] /\ items'[a] = items[a] /\ number' = number
            /\ stale'[a] = stale[a]
        BY <1>5, <1>6, <1>8, <2>2
      <3> QED
        BY <2>1, <3>1 DEF BudgetForm, GoodBudget
    <2>3. CASE a = b
      <3>1. stale'[a] = FALSE => GoodBudget(a)'
        <4> SUFFICES ASSUME stale'[a] = FALSE
                     PROVE  GoodBudget(a)'
          OBVIOUS
        <4>1. GoodBudget(a) /\ budget[a].status = "GENERATED"
          BY <1>2, <1>3, <1>6, <2>3 DEF BudgetForm
        <4>2. /\ budget'[a] = row /\ items'[a] = items[a] /\ number'[a] = number[a]
          BY <1>5, <1>8, <2>3
        <4>3. /\ row.status = "SENT" /\ row.days = budget[a].days
              /\ row.discounts = budget[a].discounts /\ row.total = budget[a].total
          BY <1>4, <2>3
        <4> HIDE DEF b
        <4>4. number[a] = 0 /\ WholeOffer(budget[a], items[a]) /\ ListFits(row)
              /\ row.total = TotalAmount(items[a], row.days, row.discounts)
          BY <4>1, <4>3 DEF GoodBudget, OfferStatuses, ListFits
        <4>5. WholeOffer(row, items[a])
          BY <4>3, <4>4, OfferOf
        <4> QED
          BY <4>2, <4>4, <4>5 DEF GoodBudget
      <3>2. budget'[a].status # None /\ items'[a] = items[a]
        BY <1>4, <1>5, <1>8, <1>9, <2>3
      <3> QED
        BY <2>1, <3>1, <3>2 DEF BudgetForm
    <2> QED
      BY <2>2, <2>3
  <1>11. Numbered' = Numbered
    BY <1>5 DEF Numbered
  <1>12. ASSUME NEW q \in Workers
         PROVE  RequestForm(q, worker[q])'
    <2>0. RequestForm(q, worker[q]) /\ worker[q] \in Requests
      BY DEF BudgetInv, ShapeOK
    <2>1. CASE q = p
      BY <1>6, <1>11, <2>1, IdleForm, NumberedFinite
      DEF RequestForm, Updating, Contracting
    <2>2. CASE q # p /\ worker[q].b # b
      <3>1. worker'[q] = worker[q]
        BY <1>5, <2>2, WroteOther, Zenon
      <3>2. worker[q].pc # "idle" =>
              /\ budget'[worker[q].b] = budget[worker[q].b]
              /\ items'[worker[q].b] = items[worker[q].b]
              /\ number'[worker[q].b] = number[worker[q].b]
              /\ stale'[worker[q].b] = stale[worker[q].b]
        BY <1>5, <1>6, <1>8, <2>0, <2>2 DEF RequestForm
      <3> QED
        BY <1>11, <2>0, <3>1, <3>2, FrameForm, NumberedFinite, RequestParts
    <2>3. CASE q # p /\ worker[q].b = b
      <3>1. /\ worker'[q].fresh = FALSE /\ worker'[q].drop = worker[q].drop \ v.drop
            /\ worker'[q].pc = worker[q].pc /\ worker'[q].b = worker[q].b
            /\ worker'[q].entity = worker[q].entity /\ worker'[q].add = worker[q].add
            /\ worker'[q].number = worker[q].number
        BY <1>5, <2>3, WroteLate, Zenon
      <3>2. worker'[q].drop = worker[q].drop
        BY <1>3, <3>1
      <3> HIDE DEF b, v
      <3>3. stale'[b] = FALSE => worker[q].pc \notin Contracting
        BY <1>3, <1>6, <2>0, <2>3 DEF RequestForm
      <3>4. worker[q].pc \in Updating => RowsForm(q, worker[q])'
        BY <1>5, <2>0, <3>1, <3>2 DEF RequestForm, RowsForm
      <3> QED
        BY <1>2, <1>4, <1>8, <1>9, <1>11, <2>0, <2>3, <3>1, <3>2, <3>3, <3>4
        DEF RequestForm, Updating, Contracting
    <2> QED
      BY <2>1, <2>2, <2>3
  <1>13. \A q, r \in Workers : q # r => Apart(worker[q], worker[r])'
    BY <1>5, WroteApart, Zenon
  <1>14. NumbersUsed'
    BY <1>5, <1>11 DEF BudgetInv, NumbersUsed
  <1> QED
    BY <1>7, <1>10, <1>12, <1>13, <1>14 DEF BudgetInv

\* Which moves there are from a status, as far as a contract or an offer goes.
LEMMA MovesFrom ==
    /\ AllowedTransitions["APPROVED"] = {"CANCELED"}
    /\ \A s \in FinalStatuses : AllowedTransitions[s] = {}
    /\ \A s \in BudgetStatus : s \in OfferStatuses \/ s \in FinalStatuses \/ s = "DRAFT"
  BY DEF AllowedTransitions, FinalStatuses, BudgetStatus, OfferStatuses

\* What an update that has read nothing too early leaves behind.
LEMMA WrittenOffer ==
    ASSUME NEW p \in Workers, NEW w \in Requests, w.pc = "write", w.b \in Budgets,
           budget[w.b] \in BudgetRows, budget[w.b].status # None, RowsForm(p, w),
           UpdateForm(w), GoodBudget(w.b)
    PROVE  /\ w.entity.status \in OfferStatuses => WholeOffer(w.entity, Outcome(w))
           /\ budget[w.b].status \in FinalStatuses =>
                /\ w.entity.status \in {budget[w.b].status, "CANCELED"}
                /\ number[w.b] = 0 => w.entity.status = budget[w.b].status
           /\ budget[w.b].status \in {"APPROVED", "CANCELED"} =>
                (WholeOffer(budget[w.b], items[w.b]) =>
                  /\ w.entity.status \in {"APPROVED", "CANCELED"}
                  /\ WholeOffer(w.entity, Outcome(w)))
  <1> DEFINE row == budget[w.b]
             e == w.entity
  <1>1. row.status \in BudgetStatus
    BY RowParts
  <1>2. /\ row.status \in FinalStatuses =>
             e.status = row.status \/ (number[w.b] # 0 /\ e.status = "CANCELED")
        /\ row.status = "APPROVED" => e.status \in {"APPROVED", "CANCELED"}
    BY MovesFrom DEF UpdateForm, MoveForm
  <1>3. row.status # "DRAFT" =>
          /\ e.days = row.days /\ e.total = row.total /\ Outcome(w) = items[w.b]
    <2> SUFFICES ASSUME row.status # "DRAFT"
                 PROVE  e.days = row.days /\ e.total = row.total /\ Outcome(w) = items[w.b]
      OBVIOUS
    <2>1. e.days = row.days /\ e.total = row.total /\ w.add = {}
      BY DEF UpdateForm
    <2>2. w.drop = {}
      BY <2>1 DEF RowsForm
    <2> QED
      BY <2>1, <2>2 DEF Outcome
  <1>4. row.status # "DRAFT" => (WholeOffer(e, Outcome(w)) <=> WholeOffer(row, items[w.b]))
    BY <1>3, OfferOf
  <1>5. row.status = "DRAFT" /\ e.status # "DRAFT" => WholeOffer(e, Outcome(w))
    BY DEF UpdateForm
  <1>6. row.status \in OfferStatuses => WholeOffer(row, items[w.b])
    BY DEF GoodBudget
  <1>7. "CANCELED" \in FinalStatuses /\ "DRAFT" \notin OfferStatuses \cup FinalStatuses
        /\ FinalStatuses \cap OfferStatuses = {"REJECTED"}
    BY DEF FinalStatuses, OfferStatuses
  <1>8. e.status \in OfferStatuses => WholeOffer(e, Outcome(w))
    <2> SUFFICES ASSUME e.status \in OfferStatuses
                 PROVE  WholeOffer(e, Outcome(w))
      OBVIOUS
    <2>1. e.status # "DRAFT" /\ e.status # "CANCELED"
      BY <1>7 DEF OfferStatuses
    <2>2. CASE row.status = "DRAFT"
      BY <1>5, <2>1, <2>2
    <2>3. CASE row.status \in FinalStatuses
      <3>1. row.status = e.status
        BY <1>2, <2>1, <2>3
      <3> QED
        BY <1>4, <1>6, <1>7, <3>1, <2>1
    <2>4. CASE row.status \in OfferStatuses
      BY <1>4, <1>6, <1>7, <2>4
    <2> QED
      BY <1>1, <2>2, <2>3, <2>4, MovesFrom
  <1>9. row.status \in FinalStatuses =>
          /\ e.status \in {row.status, "CANCELED"}
          /\ number[w.b] = 0 => e.status = row.status
    BY <1>2
  <1>10. row.status \in {"APPROVED", "CANCELED"} /\ WholeOffer(row, items[w.b])
           => e.status \in {"APPROVED", "CANCELED"} /\ WholeOffer(e, Outcome(w))
    BY <1>2, <1>4, <1>7
  <1> QED
    BY <1>8, <1>9, <1>10

\* The rows of the others after a transaction: those it has deleted are gone,
\* and those it has inserted are nobody's.
LEMMA WrittenRows ==
    ASSUME NEW p \in Workers, NEW q \in Workers, q # p, NEW v, NEW w,
           v.pc = "write", w.b = v.b, RowsForm(p, v), RowsForm(q, w),
           worker'[q].pc = w.pc, worker'[q].b = w.b, worker'[q].add = w.add,
           worker'[q].drop = w.drop \ v.drop, items'[w.b] = Outcome(v)
    PROVE  RowsForm(q, worker[q])'
  <1> DEFINE drop == w.drop \ v.drop
             its == (items[v.b] \ v.drop) \cup v.add
  <1>1. its = items'[w.b]
    BY DEF Outcome
  <1>2. drop \subseteq its
    BY DEF RowsForm
  <1>3. ASSUME NEW i \in its, NEW j \in drop, i.by = j.by
        PROVE  i \in drop
    <2>1. CASE i \in items[v.b] /\ i \notin v.drop
      BY <1>3, <2>1 DEF RowsForm
    <2>2. CASE i \in v.add
      <3>1. j.by = p /\ j \in items[v.b] /\ v.add # {} /\ v.pc # "delete"
        BY <1>3, <2>2 DEF RowsForm
      <3>2. j \in v.drop
        BY <3>1 DEF RowsForm
      <3> QED
        BY <1>3, <3>2
    <2> QED
      BY <2>1, <2>2
  <1>4. ASSUME w.pc # "delete", w.add # {}, NEW i \in its, i.by = q
        PROVE  i \in drop
    <2>1. i \notin v.add
      BY <1>4 DEF RowsForm
    <2>2. i \in w.drop
      BY <1>4, <2>1 DEF RowsForm
    <2> QED
      BY <2>1, <2>2
  <1> HIDE DEF its
  <1>5. w.add = {} \/ w.pc = "delete" => drop = {}
    BY DEF RowsForm
  <1>6. /\ Gapless(w.add) /\ (\A i \in w.add : i.by = q)
        /\ w.pc \in {"delete", "insert"} => w.add # {}
    BY DEF RowsForm
  <1> QED
    BY <1>1, <1>2, <1>3, <1>4, <1>5, <1>6 DEF RowsForm

LEMMA WriteStep ==
    ASSUME BudgetInv, NEW p \in Workers, WriteBudget(p)
    PROVE  BudgetInv'
  <1> DEFINE v == worker[p]
             b == v.b
             row == Changed(v.put, v.entity, budget[b])
             its == Outcome(v)
  <1>1. v.pc = "write" /\ v.pc # "idle"
    BY DEF WriteBudget, At
  <1>2. /\ v \in Requests /\ RequestForm(p, v) /\ b \in Budgets
        /\ budget[b].status # None /\ budget[b] \in BudgetRows
        /\ items[b] \in SUBSET Items /\ BudgetForm(b)
    BY <1>1, RequestNow
  <1>3. /\ v.entity.status # None /\ RowsForm(p, v)
        /\ v.fresh = TRUE /\ stale[b] = FALSE => UpdateForm(v)
    BY <1>1, <1>2 DEF RequestForm, Updating
  <1>4. /\ row \in BudgetRows /\ row.status # None
        /\ UpdateForm(v) => row = v.entity
    <2>1. v.entity \in BudgetRows /\ v.put \in SUBSET Columns
      BY <1>2, RequestParts
    <2>2. UpdateForm(v) => v.put = Differing(v.entity, budget[b])
      BY <1>1 DEF UpdateForm
    <2>3. /\ row \in BudgetRows /\ row.status \in {v.entity.status, budget[b].status}
          /\ Changed(Differing(v.entity, budget[b]), v.entity, budget[b]) = v.entity
      BY <1>2, <2>1, ChangedForm
    <2> QED
      BY <1>2, <1>3, <2>2, <2>3
  <1>5. /\ budget' = [budget EXCEPT ![b] = row] /\ items' = [items EXCEPT ![b] = its]
        /\ Wrote(p, b) /\ number' = number
    BY DEF WriteBudget, Outcome
  <1>6. /\ worker' \in [Workers -> Requests] /\ worker'[p] = Idle
        /\ stale' \in [Budgets -> BOOLEAN]
        /\ \A a \in Budgets : a # b => stale'[a] = stale[a]
        /\ stale'[b] = FALSE => stale[b] = FALSE /\ v.fresh = TRUE
    BY <1>2, <1>5, WroteType
  <1>7. its \in SUBSET Items /\ GaplessBatches(its)
    BY <1>2, <1>3, OutcomeGapless, RequestParts DEF Outcome
  <1> HIDE DEF row, its
  <1>8. ShapeOK'
    BY <1>4, <1>5, <1>6, <1>7 DEF BudgetInv, ShapeOK
  <1>9. /\ budget'[b] = row /\ items'[b] = its
        /\ \A a \in Budgets : a # b => budget'[a] = budget[a] /\ items'[a] = items[a]
    BY <1>2, <1>5 DEF BudgetInv, ShapeOK
  <1>10. stale'[b] = FALSE =>
           /\ UpdateForm(v) /\ GoodBudget(b) /\ row = v.entity
           /\ row.status \in OfferStatuses => WholeOffer(row, its)
           /\ budget[b].status \in {"APPROVED", "CANCELED"} /\ WholeOffer(budget[b], items[b])
                => row.status \in {"APPROVED", "CANCELED"} /\ WholeOffer(row, its)
    BY <1>1, <1>2, <1>3, <1>4, <1>6, WrittenOffer DEF BudgetForm, its
  <1>11. ASSUME NEW a \in Budgets
         PROVE  BudgetForm(a)'
    <2>1. BudgetForm(a)
      BY DEF BudgetInv
    <2>2. CASE a # b
      <3>1. budget'[a] = budget[a] /\ items'[a] = items[a] /\ number' = number
            /\ stale'[a] = stale[a]
        BY <1>5, <1>6, <1>9, <2>2
      <3> QED
        BY <2>1, <3>1 DEF BudgetForm, GoodBudget
    <2>3. CASE a = b
      <3>1. budget'[a] = row /\ items'[a] = its /\ number'[a] = number[a]
        BY <1>5, <1>9, <2>3
      <3>2. ASSUME stale'[a] = FALSE
            PROVE  GoodBudget(a)'
        <4>1. ListFits(row) /\ row.total = TotalAmount(its, row.days, row.discounts)
          BY <1>1, <1>10, <2>3, <3>2 DEF UpdateForm, Holding, its
        <4>2. number[a] # 0 => row.status \in {"APPROVED", "CANCELED"} /\ WholeOffer(row, its)
          BY <1>10, <2>3, <3>2 DEF GoodBudget
        <4>3. row.status \in OfferStatuses => WholeOffer(row, its)
          BY <1>10, <2>3, <3>2
        <4> HIDE DEF b, v
        <4> QED
          BY <3>1, <4>1, <4>2, <4>3 DEF GoodBudget
      <3> HIDE DEF b, v
      <3> QED
        BY <1>4, <1>7, <3>1, <3>2 DEF BudgetForm
    <2> QED
      BY <2>2, <2>3
  <1>12. Numbered' = Numbered
    BY <1>5 DEF Numbered
  <1>13. ASSUME NEW q \in Workers
         PROVE  RequestForm(q, worker[q])'
    <2>0. RequestForm(q, worker[q]) /\ worker[q] \in Requests
      BY DEF BudgetInv, ShapeOK
    <2>1. CASE q = p
      BY <1>6, <1>12, <2>1, IdleForm, NumberedFinite
      DEF RequestForm, Updating, Contracting
    <2>2. CASE q # p /\ worker[q].b # b
      <3>1. worker'[q] = worker[q]
        BY <1>5, <2>2, WroteOther, Zenon
      <3>2. worker[q].pc # "idle" =>
              /\ budget'[worker[q].b] = budget[worker[q].b]
              /\ items'[worker[q].b] = items[worker[q].b]
              /\ number'[worker[q].b] = number[worker[q].b]
              /\ stale'[worker[q].b] = stale[worker[q].b]
        BY <1>5, <1>6, <1>9, <2>0, <2>2 DEF RequestForm
      <3> QED
        BY <1>12, <2>0, <3>1, <3>2, FrameForm, NumberedFinite, RequestParts
    <2>3. CASE q # p /\ worker[q].b = b
      <3>1. /\ worker'[q].fresh = FALSE /\ worker'[q].drop = worker[q].drop \ v.drop
            /\ worker'[q].pc = worker[q].pc /\ worker'[q].b = worker[q].b
            /\ worker'[q].entity = worker[q].entity /\ worker'[q].add = worker[q].add
            /\ worker'[q].number = worker[q].number
        BY <1>5, <2>3, WroteLate, Zenon
      <3>2. worker[q].pc \in Contracting /\ stale'[b] = FALSE =>
              row.status \in {"APPROVED", "CANCELED"} /\ WholeOffer(row, its)
        BY <1>6, <1>10, <2>0, <2>3 DEF RequestForm
      <3>3. worker[q].pc \in Updating => RowsForm(q, worker[q])'
        <4> SUFFICES ASSUME worker[q].pc \in Updating
                     PROVE  RowsForm(q, worker[q])'
          OBVIOUS
        <4>1. RowsForm(q, worker[q])
          BY <2>0 DEF RequestForm
        <4>2. items'[worker[q].b] = Outcome(v)
          BY <1>9, <2>3 DEF its
        <4> QED
          BY <1>1, <1>3, <2>3, <3>1, <4>1, <4>2, WrittenRows
      <3> HIDE DEF b, v
      <3> QED
        BY <1>2, <1>4, <1>9, <1>12, <2>0, <2>3, <3>1, <3>2, <3>3
        DEF RequestForm, Updating, Contracting
    <2> QED
      BY <2>1, <2>2, <2>3
  <1>14. \A q, r \in Workers : q # r => Apart(worker[q], worker[r])'
    BY <1>5, WroteApart, Zenon
  <1>15. NumbersUsed'
    BY <1>5, <1>12 DEF BudgetInv, NumbersUsed
  <1> QED
    BY <1>8, <1>11, <1>13, <1>14, <1>15 DEF BudgetInv

-----------------------------------------------------------------------------
(* Amounts *)

LEMMA ItemsFinite ==
    ASSUME NEW its \in SUBSET Items
    PROVE  IsFiniteSet(its) /\ \A i \in its : i.price \in Nat
  <1>1. Prices \subseteq Nat /\ \A i \in its : i.price \in Prices
    BY ConstantsAssumption DEF Items
  <1>2. IsFiniteSet(Days)
    BY BoundNat, FS_Interval DEF Days
  <1> DEFINE f == [x \in Workers \X (Days \X Prices) |->
                     [by |-> x[1], day |-> x[2][1], price |-> x[2][2]]]
  <1>3. IsFiniteSet(Workers \X (Days \X Prices))
    BY <1>2, FiniteAssumption, FS_Product
  <1>4. Items \subseteq {f[x] : x \in Workers \X (Days \X Prices)}
    <2>1. ASSUME NEW i \in Items PROVE \E x \in Workers \X (Days \X Prices) : i = f[x]
      <3>1. <<i.by, <<i.day, i.price>>>> \in Workers \X (Days \X Prices)
        BY DEF Items
      <3>2. f[<<i.by, <<i.day, i.price>>>>] = [by |-> i.by, day |-> i.day, price |-> i.price]
        BY <3>1
      <3>3. i = [by |-> i.by, day |-> i.day, price |-> i.price]
        BY DEF Items
      <3> QED
        BY <3>1, <3>2, <3>3
    <2> QED
      BY <2>1
  <1>5. IsFiniteSet({f[x] : x \in Workers \X (Days \X Prices)})
    <2> HIDE DEF f
    <2> QED
      BY <1>3, ImageIsFinite
  <1>6. IsFiniteSet(its)
    <2> HIDE DEF f
    <2> QED
      BY <1>4, <1>5, FS_Subset
  <1> QED
    BY <1>1, <1>6

\* No discount takes off more than there is.
LEMMA DiscountIs ==
    ASSUME NEW base \in Nat, NEW discount, discount.value \in Nat
    PROVE  DiscountAmount(base, discount) \in 0 .. base
  <1>1. ASSUME NEW x \in Int PROVE Clamp(x, base) \in 0 .. base
    BY DEF Clamp
  <1>2. Percent(base, discount.value) \in Int
    <2>1. base * discount.value \in Int
      OBVIOUS
    <2> DEFINE y == base * discount.value
    <2> HIDE DEF y
    <2>2. y \in Int => (y + 50) \div 100 \in Int
      OBVIOUS
    <2> QED
      BY <2>1, <2>2 DEF Percent, y
  <1>3. CASE discount.kind = "percentage"
    BY <1>1, <1>2, <1>3 DEF DiscountAmount
  <1>4. CASE discount.kind = "amount"
    BY <1>1, <1>4 DEF DiscountAmount
  <1>5. CASE discount.kind # "percentage" /\ discount.kind # "amount"
    BY <1>5 DEF DiscountAmount
  <1> QED
    BY <1>3, <1>4, <1>5

LEMMA DayTotalIs ==
    ASSUME NEW x \in Nat, NEW discount, discount.value \in Nat
    PROVE  DayTotal(x, 0, discount) \in Nat
  <1>1. x + 0 \in Nat
    OBVIOUS
  <1>2. DiscountAmount(x + 0, discount) \in 0 .. x + 0
    BY <1>1, DiscountIs
  <1> QED
    BY <1>1, <1>2 DEF DayTotal

LEMMA SubtotalIs ==
    ASSUME NEW its \in SUBSET Items, NEW d
    PROVE  DaySubtotal(its, d) \in Nat
  <1> DEFINE S == {i \in its : i.day = d}
             f == [i \in S |-> i.price]
             Adds(g) == g = [s \in SUBSET S |-> IF s = {} THEN 0
                               ELSE (CHOOSE i \in s : TRUE).price
                                      + g[s \ {CHOOSE i \in s : TRUE}]]
  <1>1. DaySubtotal(its, d) = (CHOOSE g : Adds(g))[S]
    BY DEF DaySubtotal, MapThenSumSet, MapThenFoldSet
  <1>2. IsFiniteSet(S) /\ \A i \in S : i.price \in Nat /\ f[i] = i.price
    <2>1. S \subseteq its
      OBVIOUS
    <2> QED
      BY <2>1, ItemsFinite, FS_Subset
  <1> HIDE DEF S, f
  <1>3. ASSUME NEW g PROVE Adds(g) <=> AreSums(g, f, S)
    <2>1. \A s \in SUBSET S : s # {} => f[One(s)] = One(s).price
      BY <1>2, OneOf
    <2>2. [s \in SUBSET S |-> IF s = {} THEN 0 ELSE One(s).price + g[s \ {One(s)}]]
            = [s \in SUBSET S |-> IF s = {} THEN 0 ELSE f[One(s)] + g[s \ {One(s)}]]
      BY <2>1
    <2> QED
      BY <2>2 DEF AreSums, One
  <1> HIDE DEF Adds
  <1> DEFINE h == CHOOSE g : Adds(g)
  <1>4. AreSums(h, f, S)
    BY <1>2, <1>3, SumsExist
  <1> HIDE DEF h
  <1>5. h[S] \in Nat
    BY <1>2, <1>4, SumsAreNatural
  <1> QED
    BY <1>1, <1>5 DEF h

LEMMA TotalIsNat ==
    ASSUME NEW its \in SUBSET Items, NEW n \in 0 .. MaxDays, NEW x \in DiscountLists
    PROVE  TotalAmount(its, n, x) \in Nat
  <1> DEFINE S == 0 .. n - 1
             cost(d) == DayTotal(DaySubtotal(its, d), 0, ResolveDiscounts(x, n)[d])
             f == [d \in S |-> cost(d)]
             Adds(g) == g = [s \in SUBSET S |-> IF s = {} THEN 0
                               ELSE cost(CHOOSE d \in s : TRUE)
                                      + g[s \ {CHOOSE d \in s : TRUE}]]
  <1>1. TotalAmount(its, n, x) = (CHOOSE g : Adds(g))[S]
    BY DEF TotalAmount, MapThenSumSet, MapThenFoldSet
  <1>2. IsFiniteSet(S)
    BY BoundNat, FS_Interval
  <1>3. ASSUME NEW d \in S PROVE cost(d) \in Nat
    <2>1. ResolveDiscounts(x, n)[d] \in Discounts
      BY ListParts, ConstantsAssumption DEF ResolveDiscounts
    <2>2. ResolveDiscounts(x, n)[d].value \in Nat
      BY <2>1, ConstantsAssumption
    <2> QED
      BY <2>2, SubtotalIs, DayTotalIs
  <1>4. \A d \in S : f[d] = cost(d) /\ f[d] \in Nat
    BY <1>3
  <1> HIDE DEF S, f, cost
  <1>5. ASSUME NEW g PROVE Adds(g) <=> AreSums(g, f, S)
    <2>1. \A s \in SUBSET S : s # {} => f[One(s)] = cost(One(s))
      BY <1>4, OneOf
    <2>2. [s \in SUBSET S |-> IF s = {} THEN 0 ELSE cost(One(s)) + g[s \ {One(s)}]]
            = [s \in SUBSET S |-> IF s = {} THEN 0 ELSE f[One(s)] + g[s \ {One(s)}]]
      BY <2>1
    <2> QED
      BY <2>2 DEF AreSums, One
  <1> HIDE DEF Adds
  <1> DEFINE h == CHOOSE g : Adds(g)
  <1>6. AreSums(h, f, S)
    BY <1>2, <1>5, SumsExist
  <1> HIDE DEF h
  <1>7. h[S] \in Nat
    BY <1>2, <1>4, <1>6, SumsAreNatural
  <1> QED
    BY <1>1, <1>7 DEF h

-----------------------------------------------------------------------------
(* The invariant, and what follows from it *)

LEMMA BudgetInit == Init => BudgetInv
  <1> SUFFICES ASSUME Init PROVE BudgetInv
    OBVIOUS
  <1>1. /\ budget = [b \in Budgets |-> NoBudget] /\ items = [b \in Budgets |-> {}]
        /\ number = [b \in Budgets |-> 0] /\ worker = [p \in Workers |-> Idle]
        /\ stale = [b \in Budgets |-> FALSE]
    BY DEF Init
  <1>2. ShapeOK
    BY <1>1, IdleForm, NumberedFinite DEF ShapeOK
  <1>3. \A b \in Budgets : BudgetForm(b)
    BY <1>1, IdleForm DEF BudgetForm, GaplessBatches
  <1>4. \A p \in Workers : RequestForm(p, worker[p])
    BY <1>1, IdleRequest
  <1>5. \A p, q \in Workers : Apart(worker[p], worker[q])
    BY <1>1, IdleRequest
  <1>6. Numbered = {}
    BY <1>1 DEF Numbered
  <1>7. NumbersUsed
    BY <1>6, FS_EmptySet DEF NumbersUsed
  <1> QED
    BY <1>2, <1>3, <1>4, <1>5, <1>7 DEF BudgetInv

LEMMA BudgetStutter == BudgetInv /\ UNCHANGED vars => BudgetInv'
  <1> SUFFICES ASSUME BudgetInv, UNCHANGED vars PROVE BudgetInv'
    OBVIOUS
  <1>1. /\ budget' = budget /\ items' = items /\ number' = number
        /\ worker' = worker /\ stale' = stale
    BY DEF vars
  <1>2. ShapeOK' /\ Numbered' = Numbered
    BY <1>1 DEF BudgetInv, ShapeOK, Numbered
  <1>3. \A b \in Budgets : BudgetForm(b)'
    BY <1>1 DEF BudgetInv, BudgetForm, GoodBudget
  <1>4. ASSUME NEW q \in Workers
        PROVE  RequestForm(q, worker[q])'
    <2>1. RequestForm(q, worker[q]) /\ worker[q] \in Requests
      BY DEF BudgetInv, ShapeOK
    <2> QED
      BY <1>1, <1>2, <2>1, FrameForm, NumberedFinite, RequestParts
  <1>5. \A p, q \in Workers : p # q => Apart(worker[p], worker[q])'
    BY <1>1 DEF BudgetInv, Apart
  <1>6. NumbersUsed'
    BY <1>1, <1>2 DEF BudgetInv, NumbersUsed
  <1> QED
    BY <1>2, <1>3, <1>4, <1>5, <1>6 DEF BudgetInv

LEMMA BudgetStep == BudgetInv /\ [Next]_vars => BudgetInv'
  <1> SUFFICES ASSUME BudgetInv, [Next]_vars PROVE BudgetInv'
    OBVIOUS
  <1>1. ASSUME NEW p \in Workers, NEW b \in Budgets, NEW c \in Drafts[b], CreateBudget(p, b, c)
        PROVE  BudgetInv'
    BY <1>1, CreateStep
  <1>2. ASSUME NEW p \in Workers, NEW b \in Budgets, NEW u \in Inputs[b], UpdateBudget(p, b, u)
        PROVE  BudgetInv'
    BY <1>2, UpdateStep
  <1>3. ASSUME NEW p \in Workers, NEW b \in Budgets,
               SendBudget(p, b) \/ CreateContract(p, b) \/ CancelWithContract(p, b)
        PROVE  BudgetInv'
    BY <1>3, SendStep, CreateContractStep, CancelStep
  <1>4. ASSUME NEW p \in Workers, DeleteItems(p) \/ InsertItems(p) \/ ReloadBudget(p)
        PROVE  BudgetInv'
    BY <1>4, DeleteStep, InsertStep, ReloadStep
  <1>5. ASSUME NEW p \in Workers, WriteBudget(p) \/ MarkSent(p)
        PROVE  BudgetInv'
    BY <1>5, WriteStep, MarkSentStep
  <1>6. ASSUME NEW p \in Workers, CountContracts(p) \/ InsertContract(p) \/ Fail(p)
        PROVE  BudgetInv'
    BY <1>6, CountStep, InsertContractStep, FailStep
  <1> QED
    BY <1>1, <1>2, <1>3, <1>4, <1>5, <1>6, BudgetStutter DEF Next

\* The state is well typed; in particular a total is a natural number, however
\* large the discounts are.
THEOREM TypeCorrect == Spec => []TypeOK
  <1>1. BudgetInv => TypeOK
    <2> SUFFICES ASSUME BudgetInv PROVE TypeOK
      OBVIOUS
    <2>1. Totals \subseteq Nat
      BY TotalIsNat DEF Totals
    <2>2. BudgetRows \subseteq Rows
      BY <2>1 DEF BudgetRows, Rows
    <2>3. Requests \subseteq WorkerStates
      BY <2>2 DEF Requests, WorkerStates
    <2> QED
      BY <2>2, <2>3 DEF BudgetInv, ShapeOK, TypeOK
  <1> QED
    BY <1>1, BudgetInit, BudgetStep, PTL DEF Spec

\* The days that have lines are the first ones: to count them, as the gate
\* before an offer does, is to know that none is missing.
THEOREM DaysWithoutGap == Spec => []NoGapInDays
  <1>1. BudgetInv => NoGapInDays
    <2> SUFFICES ASSUME BudgetInv, NEW b \in Budgets, NEW i \in items[b], NEW d \in 0 .. i.day
                 PROVE  d \in ItemDays(items[b])
      BY DEF NoGapInDays, Closed, ItemDays
    <2>1. PICK j \in items[b] : j.day = d
      BY DEF BudgetInv, BudgetForm, GaplessBatches
    <2> QED
      BY <2>1 DEF ItemDays
  <1> QED
    BY <1>1, BudgetInit, BudgetStep, PTL DEF Spec

\* An offer is complete: lines on every day, prices, a total.
THEOREM OffersAreComplete == Spec => []OffersComplete
  <1>1. BudgetInv => OffersComplete
    <2> SUFFICES ASSUME BudgetInv, NEW b \in Budgets, budget[b].status \in OfferStatuses,
                        stale[b] = FALSE
                 PROVE  Complete(b)
      BY DEF OffersComplete, BudgetInv, ShapeOK
    <2>1. budget[b].status # None
      BY NoneAssumption DEF OfferStatuses, BudgetStatus
    <2>2. WholeOffer(budget[b], items[b])
      BY <2>1 DEF BudgetInv, BudgetForm, GoodBudget
    <2> QED
      BY <2>2, CompleteOffer
  <1> QED
    BY <1>1, BudgetInit, BudgetStep, PTL DEF Spec

\* The total of a budget is the total of the lines, days and discounts it has.
THEOREM TotalsAgree == Spec => []TotalAgrees
  <1>1. BudgetInv => TotalAgrees
    <2> SUFFICES ASSUME BudgetInv, NEW b \in Budgets, budget[b].status # None,
                        stale[b] = FALSE
                 PROVE  budget[b].total =
                          TotalAmount(items[b], budget[b].days, budget[b].discounts)
      BY DEF TotalAgrees, BudgetInv, ShapeOK
    <2> QED
      BY DEF BudgetInv, BudgetForm, GoodBudget
  <1> QED
    BY <1>1, BudgetInit, BudgetStep, PTL DEF Spec

\* The budget of a contract is approved or cancelled, and complete.
THEOREM ContractsAreOfApproved == Spec => []ContractsOfApproved
  <1>1. BudgetInv => ContractsOfApproved
    <2> SUFFICES ASSUME BudgetInv, NEW b \in Budgets, number[b] # 0, stale[b] = FALSE
                 PROVE  budget[b].status \in {"APPROVED", "CANCELED"} /\ Complete(b)
      BY DEF ContractsOfApproved, Numbered, BudgetInv, ShapeOK
    <2>1. /\ budget[b].status \in {"APPROVED", "CANCELED"}
          /\ WholeOffer(budget[b], items[b])
      BY DEF BudgetInv, BudgetForm, GoodBudget
    <2> QED
      BY <2>1, CompleteOffer
  <1> QED
    BY <1>1, BudgetInit, BudgetStep, PTL DEF Spec

-----------------------------------------------------------------------------
(* What a step may not do *)

\* Only a stale save moves a budget that is settled.
Settles == \A b \in Budgets :
              budget[b].status \in FinalStatuses /\ budget'[b].status # budget[b].status
                => stale'[b]

LEMMA WriteSettles ==
    ASSUME BudgetInv, NEW p \in Workers, WriteBudget(p)
    PROVE  Settles
  <1> DEFINE v == worker[p]
             row == Changed(v.put, v.entity, budget[v.b])
  <1>1. v.pc = "write" /\ v.pc # "idle"
    BY DEF WriteBudget, At
  <1>2. /\ v \in Requests /\ RequestForm(p, v) /\ v.b \in Budgets
        /\ budget[v.b].status # None /\ budget[v.b] \in BudgetRows /\ BudgetForm(v.b)
    BY <1>1, RequestNow
  <1>3. budget' = [budget EXCEPT ![v.b] = row] /\ Wrote(p, v.b)
    BY DEF WriteBudget
  <1>4. /\ stale' \in [Budgets -> BOOLEAN]
        /\ stale'[v.b] = FALSE => stale[v.b] = FALSE /\ v.fresh = TRUE
    BY <1>2, <1>3, WroteType
  <1>5. RowsForm(p, v) /\ (v.fresh = TRUE /\ stale[v.b] = FALSE => UpdateForm(v))
    BY <1>1, <1>2 DEF RequestForm, Updating
  <1>6. ASSUME stale'[v.b] = FALSE, budget[v.b].status \in FinalStatuses
        PROVE  row.status = budget[v.b].status
    <2>1. UpdateForm(v) /\ GoodBudget(v.b)
      BY <1>2, <1>4, <1>5, <1>6 DEF BudgetForm
    <2>2. v.put = Differing(v.entity, budget[v.b]) /\ v.entity \in BudgetRows
      BY <1>1, <1>2, <2>1, RequestParts DEF UpdateForm
    <2>3. row = v.entity
      BY <1>2, <2>2, ChangedForm DEF Differing
    <2>4. /\ v.entity.status \in {budget[v.b].status, "CANCELED"}
          /\ number[v.b] = 0 => v.entity.status = budget[v.b].status
      BY <1>1, <1>2, <1>5, <1>6, <2>1, WrittenOffer
    <2>5. number[v.b] # 0 => budget[v.b].status = "CANCELED"
      BY <1>6, <2>1 DEF GoodBudget, FinalStatuses
    <2> QED
      BY <2>3, <2>4, <2>5
  <1> HIDE DEF row
  <1> QED
    BY <1>2, <1>3, <1>4, <1>6 DEF Settles, BudgetInv, ShapeOK

LEMMA SentSettles ==
    ASSUME BudgetInv, NEW p \in Workers, MarkSent(p)
    PROVE  Settles
  <1> DEFINE v == worker[p]
  <1>1. v.pc = "mail" /\ v.pc # "idle"
    BY DEF MarkSent, At
  <1>2. /\ RequestForm(p, v) /\ v.b \in Budgets
    BY <1>1, RequestNow
  <1>3. budget' = [budget EXCEPT ![v.b].status = "SENT"] /\ Wrote(p, v.b)
    BY DEF MarkSent
  <1>4. /\ stale' \in [Budgets -> BOOLEAN]
        /\ stale'[v.b] = FALSE => stale[v.b] = FALSE /\ v.fresh = TRUE
    BY <1>2, <1>3, WroteType
  <1>5. stale'[v.b] = FALSE => budget[v.b].status = "GENERATED"
    BY <1>1, <1>2, <1>4 DEF RequestForm
  <1> QED
    BY <1>2, <1>3, <1>4, <1>5 DEF Settles, FinalStatuses, BudgetInv, ShapeOK

LEMMA StepSettles == BudgetInv /\ [Next]_vars => Settles
  <1> SUFFICES ASSUME BudgetInv, [Next]_vars PROVE Settles
    OBVIOUS
  <1>1. CASE budget' = budget
    BY <1>1 DEF Settles
  <1>2. ASSUME NEW p \in Workers, NEW b \in Budgets, NEW c \in Drafts[b], CreateBudget(p, b, c)
        PROVE  Settles
    <2>1. None \notin FinalStatuses
      BY NoneAssumption DEF FinalStatuses, BudgetStatus
    <2> QED
      BY <1>2, <2>1 DEF CreateBudget, Settles, BudgetInv, ShapeOK
  <1> QED
    BY <1>1, <1>2, WriteSettles, SentSettles
    DEF Next, vars, UpdateBudget, SendBudget, CreateContract, CancelWithContract,
        DeleteItems, InsertItems, ReloadBudget, CountContracts, InsertContract, Fail

\* A refused, expired or cancelled budget stays so, stale saves apart.
THEOREM SettledStaysSo == Spec => SettledStays
  <1>1. BudgetInv /\ [Next]_vars => [Settles]_vars
    BY StepSettles
  <1>2. [Settles]_vars <=> [\A b \in Budgets :
           budget[b].status \in FinalStatuses /\ budget'[b].status # budget[b].status
              => stale'[b]]_vars
    BY DEF Settles
  <1> QED
    BY <1>1, <1>2, BudgetInit, BudgetStep, PTL DEF Spec, SettledStays

LEMMA ContractsInit == Init => Contracts!Init
  BY DEF Init, Contracts!Init

LEMMA ContractsStep == BudgetInv /\ [Next]_vars => [Contracts!Next]_number
  <1> SUFFICES ASSUME BudgetInv, [Next]_vars
               PROVE  [Contracts!Next]_number
    OBVIOUS
  <1>1. CASE number' = number
    BY <1>1
  <1>2. ASSUME NEW p \in Workers, InsertContract(p)
        PROVE  [Contracts!Next]_number
    <2> DEFINE b == worker[p].b
    <2>1. b \in Budgets
      BY <1>2, RequestNow DEF InsertContract, At
    <2>2. CASE number[b] = 0 /\ number' = [number EXCEPT ![b] = Cardinality(Numbered) + 1]
      <3>1. Contracts!Numbered = Numbered
        BY DEF Contracts!Numbered, Numbered
      <3>2. Contracts!Cardinality(Numbered) = Cardinality(Numbered)
        BY DEF Contracts!Cardinality, Cardinality
      <3>3. Contracts!Issue(b)
        BY <2>2, <3>1, <3>2 DEF Contracts!Issue
      <3> QED
        BY <2>1, <3>3 DEF Contracts!Next
    <2> QED
      BY <1>1, <1>2, <2>2, InsertContractStep
  <1>3. ASSUME NEW p \in Workers, NEW b \in Budgets,
               \/ \E c \in Drafts[b] : CreateBudget(p, b, c)
               \/ \E u \in Inputs[b] : UpdateBudget(p, b, u)
               \/ SendBudget(p, b) \/ CreateContract(p, b) \/ CancelWithContract(p, b)
        PROVE  number' = number
    BY <1>3 DEF CreateBudget, UpdateBudget, SendBudget, CreateContract, CancelWithContract
  <1>4. ASSUME NEW p \in Workers,
               \/ DeleteItems(p) \/ InsertItems(p) \/ ReloadBudget(p) \/ WriteBudget(p)
               \/ MarkSent(p) \/ CountContracts(p) \/ Fail(p)
        PROVE  number' = number
    BY <1>4 DEF DeleteItems, InsertItems, ReloadBudget, WriteBudget, MarkSent,
                CountContracts, Fail
  <1>5. UNCHANGED vars => number' = number
    BY DEF vars
  <1> QED
    BY <1>1, <1>2, <1>3, <1>4, <1>5 DEF Next

\* The numbers of contracts are given out in order, with no gap and none twice.
THEOREM ContractsNumbered == Spec => ContractsNumberedInOrder
  <1> QED
    BY BudgetInit, BudgetStep, ContractsInit, ContractsStep, PTL
    DEF Spec, ContractsNumberedInOrder, Contracts!Spec

=============================================================================
