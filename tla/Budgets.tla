------------------------------ MODULE Budgets -------------------------------
(***************************************************************************)
(* A budget from its draft to the contract made of it, edited, priced,     *)
(* moved along its statuses and mailed by several requests at a time.      *)
(*                                                                         *)
(* A request reads the budget with its items, checks, and saves later in a *)
(* transaction.  Saving reads the row once more and writes the columns in  *)
(* which the entity differs from it; the items an entity carries are       *)
(* compared too, and a row that is not among them makes the save fail.     *)
(* Nothing but the rows a transaction has deleted is locked.               *)
(*                                                                         *)
(* stale is a history variable: it records the budgets that were ever      *)
(* saved by a request that had read them before somebody else's write.     *)
(* A version column would refuse exactly those saves.                      *)
(***************************************************************************)
EXTENDS BudgetPricing, FiniteSets

CONSTANTS
    Budgets,     \* budgets; each can have one contract
    Workers,     \* requests served at the same time (a bound)
    MaxDays,     \* event days of a budget (a bound)
    Prices,      \* prices of a line; 0 is a line not priced yet
    Discounts,   \* discounts of a day
    Drafts,      \* what each budget may be created with (a bound)
    Inputs,      \* the updates that are requested of each (a bound)
    None

BudgetStatus == {"DRAFT", "GENERATED", "SENT", "APPROVED", "REJECTED",
                 "EXPIRED", "CANCELED"}

FinalStatuses == {"REJECTED", "EXPIRED", "CANCELED"}

\* A budget in one of these is an offer the client has or may get.
OfferStatuses == {"GENERATED", "SENT", "APPROVED", "REJECTED"}

AllowedTransitions ==
    [s \in BudgetStatus |->
        CASE s = "DRAFT"     -> {"GENERATED", "CANCELED", "EXPIRED"}
          [] s = "GENERATED" -> {"SENT", "APPROVED", "DRAFT", "CANCELED", "EXPIRED"}
          [] s = "SENT"      -> {"DRAFT", "APPROVED", "REJECTED", "EXPIRED", "CANCELED"}
          [] s = "APPROVED"  -> {"CANCELED"}
          [] OTHER           -> {}]

Days == 0 .. MaxDays - 1

Lines == [day : Days, price : Prices]

\* What a budget is created with.
Contents == [days : 1 .. MaxDays, discount : Discounts, lines : SUBSET Lines]

\* An update may name a status, and days, a discount and lines; None, or no
\* lines, is what the request leaves out.
Updates == [status : BudgetStatus \cup {None}, days : (1 .. MaxDays) \cup {None},
            discount : Discounts \cup {None}, lines : SUBSET Lines]

ASSUME ConstantsAssumption ==
    /\ IsFiniteSet(Budgets)
    /\ MaxDays \in Nat \ {0}
    /\ Prices \subseteq Nat
    /\ NoDiscount \in Discounts
    /\ \A x \in Discounts :
         /\ DOMAIN x = {"kind", "value"}
         /\ x.kind \in {"", "amount", "percentage"} /\ x.value \in Nat
    /\ \A b \in Budgets : Drafts[b] \subseteq Contents
    /\ \A b \in Budgets : Inputs[b] \subseteq Updates

\* There are finitely many requests, and a price is a number of so many digits.
ASSUME FiniteAssumption == IsFiniteSet(Workers) /\ IsFiniteSet(Prices)

ASSUME NoneAssumption ==
    /\ None \notin Budgets
    /\ None \notin Discounts
    /\ None \notin BudgetStatus
    /\ None \notin Nat

VARIABLES
    budget,   \* tb_budgets: status, days, discounts per day and total
    items,    \* tb_budget_items: by whom inserted, day and price
    number,   \* tb_contracts: the number of the contract of a budget, 0: none
    worker,   \* the requests being served
    stale     \* history: budgets saved by a request that had read too early

vars == <<budget, items, number, worker, stale>>

-----------------------------------------------------------------------------
(* Data *)

Items == [by : Workers, day : Days, price : Prices]

DiscountLists == UNION {[0 .. n - 1 -> Discounts] : n \in 0 .. MaxDays}

\* status None: the budget does not exist yet.
Rows == [status : BudgetStatus \cup {None}, days : 0 .. MaxDays,
         discounts : DiscountLists, total : Nat]

Columns == {"status", "days", "discounts", "total"}

NoBudget == [status |-> None, days |-> 0,
             discounts |-> [d \in 0 .. -1 |-> NoDiscount], total |-> 0]

PCs == {"idle", "delete", "insert", "reload", "write",   \* update
        "mail",                                          \* e-mail
        "count", "contract"}                             \* contract

WorkerStates ==
    [pc      : PCs,
     b       : Budgets \cup {None},
     entity  : Rows,               \* the row as it is to be saved
     put     : SUBSET Columns,     \* the columns of it that the save will write
     listed  : BOOLEAN,            \* the entity carries its items
     list    : SUBSET Items,       \* those items
     drop    : SUBSET Items,       \* rows deleted in the transaction
     add     : SUBSET Items,       \* rows inserted in it
     leaving : BOOLEAN,            \* the update takes a draft to its next status
     fresh   : BOOLEAN,            \* history: nobody wrote since it read
     number  : 0 .. Cardinality(Budgets)]

Idle == [pc |-> "idle", b |-> None, entity |-> NoBudget, put |-> {},
         listed |-> FALSE, list |-> {}, drop |-> {}, add |-> {},
         leaving |-> FALSE, fresh |-> TRUE, number |-> 0]

Init ==
    /\ budget = [b \in Budgets |-> NoBudget]
    /\ items = [b \in Budgets |-> {}]
    /\ number = [b \in Budgets |-> 0]
    /\ worker = [p \in Workers |-> Idle]
    /\ stale = [b \in Budgets |-> FALSE]

At(p, pc) == worker[p].pc = pc

Goto(p, w) == worker' = [worker EXCEPT ![p] = w]

Done(p) == Goto(p, Idle)

Begin(p, w) == At(p, "idle") /\ Goto(p, w)

\* p's write of budget b: whoever read b before has read too early now, and
\* finds the rows no more that p has deleted.
Wrote(p, b) ==
    /\ worker' = [q \in Workers |->
                    IF q = p THEN Idle
                    ELSE IF worker[q].b = b
                      THEN [worker[q] EXCEPT !.fresh = FALSE,
                                             !.drop = @ \ worker[p].drop,
                                             !.list = @ \ worker[p].drop]
                    ELSE worker[q]]
    /\ stale' = [stale EXCEPT ![b] = @ \/ ~ worker[p].fresh]

ItemDays(its) == {i.day : i \in its}

ItemsFrom(p, lines) == {[by |-> p, day |-> l.day, price |-> l.price] : l \in lines}

-----------------------------------------------------------------------------
(* Creation *)

\* Mutant: a day of the event may be left without a line.
DaysMayBeEmpty(lines, n) ==
    /\ lines # {}
    /\ \A l \in lines : l.day \in 0 .. n - 1

\* Each line is on a day of the event, each day has a line, no line is there
\* twice (lines of one day stand for one position).
LineRules(lines, n) ==
    /\ lines # {}
    /\ \A l \in lines : l.day \in 0 .. n - 1
    /\ Cardinality(ItemDays(lines)) >= n
    /\ \A l, m \in lines : l.day = m.day => l = m

CreateBudget(p, b, c) ==
    /\ At(p, "idle")
    /\ budget[b].status = None
    /\ LineRules(c.lines, c.days)
    /\ LET discounts == [d \in 0 .. c.days - 1 |-> c.discount]
           new == ItemsFrom(p, c.lines)
       IN  /\ items' = [items EXCEPT ![b] = new]
           /\ budget' = [budget EXCEPT ![b] =
                [status |-> "DRAFT", days |-> c.days, discounts |-> discounts,
                 total |-> TotalAmount(new, c.days, discounts)]]
    /\ UNCHANGED <<number, worker, stale>>

-----------------------------------------------------------------------------
(* Update *)

\* What a request or a save leaves out stays as it was.
Given(x, y) == IF x = None THEN y ELSE x

Edits(u) == u.days # None \/ u.discount # None \/ u.lines # {}

DaysAfter(u, row) == Given(u.days, row.days)

\* The rules for the fields an update leaves or changes.  Discounts, and
\* all that is given per day, must be as many as there are days.
EditRules(u, row, its) ==
    /\ row.status = "DRAFT"
    /\ u.lines = {} => its # {}
    /\ u.discount = None => DaysAfter(u, row) = Cardinality(DOMAIN row.discounts)
    /\ u.lines # {} => LineRules(u.lines, DaysAfter(u, row))

\* Mutant: a status may be given whatever it was.
AnyMove(from, to) == TRUE

MayMove(from, to) == to \in {None, from} \/ to \in AllowedTransitions[from]

\* Mutant: an edit without lines keeps the total it found.
KeepTotal(u, row, its) ==
    IF u.lines # {} THEN TotalAmount(its, DaysAfter(u, row), row.discounts)
    ELSE row.total

\* The total is computed again by every edit, from the lines given or else
\* from those read, over the days there will be.
NewTotal(u, row, its) ==
    LET n == DaysAfter(u, row)
        discounts == IF u.discount = None THEN row.discounts
                     ELSE [d \in 0 .. n - 1 |-> u.discount]
    IN  IF Edits(u) THEN TotalAmount(its, n, ResolveDiscounts(discounts, n))
        ELSE row.total

Entity(u, row, its) ==
    LET n == DaysAfter(u, row)
    IN  [status |-> Given(u.status, row.status),
         days |-> n,
         discounts |-> ResolveDiscounts(IF u.discount = None THEN row.discounts
                                        ELSE [d \in 0 .. n - 1 |-> u.discount], n),
         total |-> NewTotal(u, row, its)]

UpdateBudget(p, b, u) ==
    LET row == budget[b]
        new == ItemsFrom(p, u.lines)
    IN  /\ row.status # None
        /\ u.status # None \/ Edits(u)
        /\ Edits(u) => EditRules(u, row, items[b])
        /\ MayMove(row.status, u.status)
        /\ Begin(p, [Idle EXCEPT
               !.pc = IF u.lines = {} THEN "reload" ELSE "delete",
               !.b = b,
               !.entity = Entity(u, row, IF u.lines = {} THEN items[b] ELSE new),
               !.listed = TRUE, !.list = items[b], !.add = new,
               !.leaving = row.status = "DRAFT" /\ u.status \notin {None, "DRAFT"}])
        /\ UNCHANGED <<budget, items, number, stale>>

\* The DELETE begins: it is to delete the rows that are committed by now.
DeleteItems(p) ==
    /\ At(p, "delete")
    /\ Goto(p, [worker[p] EXCEPT !.pc = "insert", !.drop = items[worker[p].b]])
    /\ UNCHANGED <<budget, items, number, stale>>

\* The rows that transactions have deleted and hold until they end.
HeldBy(q) == IF worker[q].pc \in {"reload", "write"} THEN worker[q].drop ELSE {}

\* It ends once nobody holds one of its rows; those that are gone by then are
\* passed over (Wrote), those that were inserted meanwhile are not seen.  Then
\* the new rows are inserted and all are read.
InsertItems(p) ==
    LET w == worker[p]
    IN  /\ At(p, "insert")
        /\ \A q \in Workers \ {p} : worker[q].b = w.b => HeldBy(q) \cap w.drop = {}
        /\ Goto(p, [w EXCEPT !.pc = "reload",
                             !.list = (items[w.b] \ w.drop) \cup w.add])
        /\ UNCHANGED <<budget, items, number, stale>>

\* Mutant: the gate forgets the prices.
GateWithoutPrices(row, its) ==
    its # {} /\ Cardinality(ItemDays(its)) >= row.days

\* assertBudgetReadyForContract: lines, all of them priced, as many days with
\* lines as there are days, and a total.
ReadyForContract(row, its) ==
    /\ row.days > 0
    /\ its # {}
    /\ \A i \in its : i.price > 0
    /\ Cardinality(ItemDays(its)) >= row.days
    /\ row.total > 0

\* The columns in which an entity differs from the row, and the row with them.
Differing(entity, row) == {c \in Columns : entity[c] # row[c]}

Changed(put, entity, row) == [c \in Columns |-> IF c \in put THEN entity[c] ELSE row[c]]

\* The first half of the save.  An item that the entity does not carry would
\* lose its budget, which the column does not allow: the update fails.  So it
\* does when a draft is left that is not ready, which the code finds out after
\* the second half and takes back.
ReloadBudget(p) ==
    LET w == worker[p]
        visible == (items[w.b] \ w.drop) \cup w.add
    IN  /\ At(p, "reload")
        /\ IF \/ w.listed /\ ~ visible \subseteq w.list
              \/ w.leaving /\ ~ ReadyForContract(w.entity, w.list)
             THEN Done(p)
             ELSE Goto(p, [Idle EXCEPT
                      !.pc = "write", !.b = w.b, !.fresh = w.fresh,
                      !.entity = w.entity, !.put = Differing(w.entity, budget[w.b]),
                      !.drop = w.drop, !.add = w.add])
        /\ UNCHANGED <<budget, items, number, stale>>

\* The second half, and the end of the transaction.
WriteBudget(p) ==
    LET w == worker[p]
    IN  /\ At(p, "write")
        /\ budget' = [budget EXCEPT ![w.b] = Changed(w.put, w.entity, @)]
        /\ items' = [items EXCEPT ![w.b] = (@ \ w.drop) \cup w.add]
        /\ Wrote(p, w.b)
        /\ UNCHANGED number

-----------------------------------------------------------------------------
(* Sending *)

SendBudget(p, b) ==
    /\ budget[b].status = "GENERATED"
    /\ Begin(p, [Idle EXCEPT !.pc = "mail", !.b = b])
    /\ UNCHANGED <<budget, items, number, stale>>

\* The mail is out; the status is set whatever it is by now.
MarkSent(p) ==
    /\ At(p, "mail")
    /\ budget' = [budget EXCEPT ![worker[p].b].status = "SENT"]
    /\ Wrote(p, worker[p].b)
    /\ UNCHANGED <<items, number>>

-----------------------------------------------------------------------------
(* The contract of a budget *)

\* Mutant: a contract is made of a budget in any status.
CreateContractOfAny(p, b) ==
    /\ budget[b].total > 0
    /\ number[b] = 0
    /\ Begin(p, [Idle EXCEPT !.pc = "count", !.b = b])
    /\ UNCHANGED <<budget, items, number, stale>>

CreateContract(p, b) ==
    /\ budget[b].status = "APPROVED"
    /\ budget[b].total > 0
    /\ number[b] = 0
    /\ Begin(p, [Idle EXCEPT !.pc = "count", !.b = b])
    /\ UNCHANGED <<budget, items, number, stale>>

Numbered == {b \in Budgets : number[b] # 0}

CountContracts(p) ==
    /\ At(p, "count")
    /\ Numbered # Budgets
    /\ Goto(p, [worker[p] EXCEPT !.pc = "contract",
                                 !.number = Cardinality(Numbered) + 1])
    /\ UNCHANGED <<budget, items, number, stale>>

\* Mutant: the number is not unique.
TakenByBudget(w) == number[w.b] # 0

\* Two unique indexes: one contract per budget, one contract per number.
Taken(w) == number[w.b] # 0 \/ \E b \in Budgets : number[b] = w.number

InsertContract(p) ==
    LET w == worker[p]
    IN  /\ At(p, "contract")
        /\ number' = IF Taken(w) THEN number
                     ELSE [number EXCEPT ![w.b] = w.number]
        /\ Done(p)
        /\ UNCHANGED <<budget, items, stale>>

\* The contract is cancelled and takes its budget along; the contract's own
\* status is the subject of ContractSigning.  The budget is read without its
\* items.
CancelWithContract(p, b) ==
    /\ number[b] # 0
    /\ Begin(p, [Idle EXCEPT !.pc = "reload", !.b = b,
                             !.entity = [budget[b] EXCEPT !.status = "CANCELED"]])
    /\ UNCHANGED <<budget, items, number, stale>>

\* A request fails, and its transaction with it.
Fail(p) ==
    /\ ~ At(p, "idle")
    /\ Done(p)
    /\ UNCHANGED <<budget, items, number, stale>>

-----------------------------------------------------------------------------

Next ==
    \E p \in Workers :
        \/ \E b \in Budgets :
             \/ \E c \in Drafts[b] : CreateBudget(p, b, c)
             \/ \E u \in Inputs[b] : UpdateBudget(p, b, u)
             \/ SendBudget(p, b) \/ CreateContract(p, b) \/ CancelWithContract(p, b)
        \/ DeleteItems(p) \/ InsertItems(p) \/ ReloadBudget(p) \/ WriteBudget(p)
        \/ MarkSent(p)
        \/ CountContracts(p) \/ InsertContract(p)
        \/ Fail(p)

Spec == Init /\ [][Next]_vars

-----------------------------------------------------------------------------
(* Properties *)

TypeOK ==
    /\ budget \in [Budgets -> Rows]
    /\ items \in [Budgets -> SUBSET Items]
    /\ number \in [Budgets -> 0 .. Cardinality(Budgets)]
    /\ worker \in [Workers -> WorkerStates]
    /\ stale \in [Budgets -> BOOLEAN]

Closed(its) == \A d \in ItemDays(its) : 0 .. d \subseteq ItemDays(its)

\* The gate counts the days that have lines, it does not look which they are
\* (budget-completeness.util).  That is enough because the days with lines are
\* always the first ones, with no gap, also when two updates have both
\* inserted their lines and whatever became of the number of days.
NoGapInDays == \A b \in Budgets : Closed(items[b])

Complete(b) ==
    /\ items[b] # {}
    /\ \A i \in items[b] : i.price > 0
    /\ 0 .. budget[b].days - 1 \subseteq ItemDays(items[b])
    /\ budget[b].total > 0

\* A budget that the client has or may get is complete: every day has lines,
\* all lines have a price, there is a total (update-budgets.validator) -
\* unless somebody has saved over a write he had not seen.
OffersComplete ==
    \A b \in Budgets :
        budget[b].status \in OfferStatuses => stale[b] \/ Complete(b)

\* The total of a budget is that of the lines, days and discounts it has, not
\* of those it had when some edit began - unless there was a stale save.
TotalAgrees ==
    \A b \in Budgets :
        budget[b].status # None =>
            \/ stale[b]
            \/ budget[b].total =
                 TotalAmount(items[b], budget[b].days, budget[b].discounts)

\* The budget of a contract stays approved until it is cancelled, and is
\* complete in either case (create-contracts.validator) - likewise.
ContractsOfApproved ==
    \A b \in Numbered :
        stale[b] \/ (budget[b].status \in {"APPROVED", "CANCELED"} /\ Complete(b))

\* A refused, expired or cancelled budget stays so; only a stale save, such as
\* the status that a mail leaves behind, revives it.
SettledStays ==
    [][\A b \in Budgets :
          budget[b].status \in FinalStatuses /\ budget'[b].status # budget[b].status
              => stale'[b]]_vars

Contracts == INSTANCE NumberRegister WITH Holders <- Budgets, issued <- number

\* The numbers of contracts, counted without a lock, are a register without
\* gaps: the unique index refuses the later of two that counted the same.
ContractsNumberedInOrder == Contracts!Spec

=============================================================================
