---------------------------- MODULE PaymentLedger ----------------------------
(***************************************************************************)
(* A payment and its items: created once with its items, then either given *)
(* new items, of which its status and amounts are the aggregate, or        *)
(* updated itself.                                                         *)
(*                                                                         *)
(* A request reads the payment, checks, and saves later in a transaction:  *)
(* new items replace those that a DELETE finds, the payment's row is read  *)
(* once more and the columns in which the entity differs are written.      *)
(* Requests to create it look for it and insert in a transaction of their  *)
(* own: the first that inserts makes the payment followed here, the others *)
(* make twins of it, payments of the same contract that share no row with  *)
(* it.  What activations insert is in ContractSigning.                     *)
(*                                                                         *)
(* stale is a history variable: the payment was saved by a request that    *)
(* had read it before somebody else's write.                               *)
(***************************************************************************)
EXTENDS Integers, FiniteSetsExt, SequencesExt

CONSTANTS
    Workers,    \* requests served at the same time (a bound)
    Batches,    \* the lists of items that are entered (a bound)
    Edits,      \* the updates without items that are entered (a bound)
    None

PaymentStatus == {"PENDING", "PARTIAL", "PAID", "CANCELED"}

AllowedTransitions ==
    [s \in PaymentStatus |->
        CASE s = "PENDING" -> {"PARTIAL", "PAID", "CANCELED"}
          [] s = "PARTIAL" -> {"PAID", "CANCELED"}
          [] s = "PAID"    -> {"CANCELED"}
          [] OTHER         -> {}]

\* An item as entered.  Amounts are integers (cents).
Entries == [status : PaymentStatus, planned : Nat, paid : Nat]

\* An update without items: None for what is left out; dated, if it has a
\* payment date.
Changes == [status : PaymentStatus \cup {None}, paid : Int \cup {None}, dated : BOOLEAN]

VARIABLES
    payment,    \* tb_payments: status, planned and paid amount
    twins,      \* tb_payments: how many more rows name the contract
    items,      \* tb_payment_items: by whom inserted, position and entry
    worker,     \* the requests being served
    stale       \* history: the payment was saved by who had read too early

vars == <<payment, twins, items, worker, stale>>

-----------------------------------------------------------------------------
(* Items and what they add up to *)

\* An item as stored.
Items == [by : Workers, at : Nat, status : PaymentStatus, planned : Nat, paid : Nat]

Row(p, k, entry) == [by |-> p, at |-> k, status |-> entry.status,
                     planned |-> entry.planned, paid |-> entry.paid]

\* Entries that plan nothing are dropped.
Stored(p, batch) ==
    {Row(p, k, batch[k]) : k \in {j \in DOMAIN batch : batch[j].planned > 0}}

EntryRules(its) ==
    /\ its # {}
    /\ \A i \in its :
         /\ i.status \in {"PENDING", "CANCELED"} => i.paid = 0
         /\ i.status = "PARTIAL" => i.paid < i.planned

Planned(its) == MapThenSumSet(LAMBDA i : i.planned, its)

Paid(its) == MapThenSumSet(LAMBDA i : i.paid, its)

\* Mutant: all paid is only what is paid exactly.
AggregateExact(its) ==
    IF Paid(its) > Planned(its) THEN "PARTIAL"
    ELSE IF Paid(its) = Planned(its) THEN "PAID"
    ELSE IF Paid(its) > 0 THEN "PARTIAL" ELSE "PENDING"

\* Of items that plan something.
AggregateStatus(its) ==
    CASE Paid(its) >= Planned(its)           -> "PAID"
      [] Paid(its) \in 1 .. Planned(its) - 1 -> "PARTIAL"
      [] OTHER -> IF \A i \in its : i.status = "CANCELED" THEN "CANCELED" ELSE "PENDING"

Aggregate(its) == [status |-> AggregateStatus(its), planned |-> Planned(its),
                   paid |-> Paid(its)]

-----------------------------------------------------------------------------
(* State *)

Rows == [status : PaymentStatus, planned : Nat, paid : Nat]

NoPayment == [status |-> None, planned |-> 0, paid |-> 0]

Puts == [status : PaymentStatus \cup {None}, planned : Nat \cup {None},
         paid : Nat \cup {None}]

WorkerStates ==
    [pc     : {"idle", "create", "delete", "insert", "reload", "write"},
     save   : Puts,            \* the entity, then its changes
     drop   : SUBSET Items,    \* rows deleted in the transaction
     add    : SUBSET Items,    \* rows inserted in it
     fresh  : BOOLEAN]         \* history: nobody wrote since it read

Idle == [pc |-> "idle", save |-> [status |-> None, planned |-> None, paid |-> None],
         drop |-> {}, add |-> {}, fresh |-> TRUE]

Init ==
    /\ payment = NoPayment
    /\ twins = 0
    /\ items = {}
    /\ worker = [p \in Workers |-> Idle]
    /\ stale = FALSE

At(p, pc) == worker[p].pc = pc

Goto(p, w) == worker' = [worker EXCEPT ![p] = w]

Begin(p, w) == At(p, "idle") /\ Goto(p, w)

Given(x, y) == IF x = None THEN y ELSE x

Differing(x, y) == IF x = y THEN None ELSE x

-----------------------------------------------------------------------------
(* Operations *)

\* Whoever asks for a payment that is there gets it as it is.
LookUpPayment(p, batch) ==
    LET new == Stored(p, batch)
    IN  /\ payment = NoPayment
        /\ EntryRules(new)
        /\ Begin(p, [Idle EXCEPT !.pc = "create", !.save = Aggregate(new), !.add = new])
        /\ UNCHANGED <<payment, twins, items, stale>>

\* The transaction does not look again.
InsertPayment(p) ==
    LET w == worker[p]
    IN  /\ At(p, "create")
        /\ \/ /\ payment = NoPayment
              /\ payment' = w.save
              /\ items' = w.add
              /\ UNCHANGED twins
           \/ /\ payment # NoPayment
              /\ twins' = twins + 1
              /\ UNCHANGED <<payment, items>>
        /\ Goto(p, Idle)
        /\ UNCHANGED stale

UpdateItems(p, batch) ==
    LET new == Stored(p, batch)
    IN  /\ payment # NoPayment
        /\ EntryRules(new)
        /\ Begin(p, [Idle EXCEPT !.pc = "delete", !.save = Aggregate(new), !.add = new])
        /\ UNCHANGED <<payment, twins, items, stale>>

\* Mutant: an amount is only bounded from above.
PaidRulesLoose(status, paid, u) ==
    /\ paid <= payment.planned
    /\ status \in {"PENDING", "CANCELED"} => paid = 0
    /\ status \in {"PAID", "PARTIAL"} => u.dated /\ u.paid # None
    /\ status = "PARTIAL" => paid < payment.planned

\* What may be paid in a status; a date and an amount with it.
PaidRules(status, paid, u) ==
    /\ u.paid # None => u.paid \in 0 .. payment.planned
    /\ status \in {"PENDING", "CANCELED"} => paid = 0
    /\ status \in {"PAID", "PARTIAL"} => u.dated /\ u.paid # None
    /\ status = "PARTIAL" => paid \in 1 .. payment.planned - 1

\* Mutant: a status may be given whatever it was.
AnyMove(from, to) == TRUE

MayMove(from, to) == to \in {None, from} \/ to \in AllowedTransitions[from]

UpdatePayment(p, u) ==
    LET status == Given(u.status, payment.status)
        paid == Given(u.paid, payment.paid)
    IN  /\ payment # NoPayment
        /\ MayMove(payment.status, u.status)
        /\ PaidRules(status, paid, u)
        /\ Begin(p, [Idle EXCEPT !.pc = "reload",
                                 !.save = [status |-> status, paid |-> paid,
                                           planned |-> payment.planned]])
        /\ UNCHANGED <<payment, twins, items, stale>>

\* The DELETE begins: it is to delete the rows that are committed by now.
DeleteItems(p) ==
    /\ At(p, "delete")
    /\ Goto(p, [worker[p] EXCEPT !.pc = "insert", !.drop = items])
    /\ UNCHANGED <<payment, twins, items, stale>>

\* The rows that transactions have deleted and hold until they end.
HeldBy(q) == IF At(q, "reload") \/ At(q, "write") THEN worker[q].drop ELSE {}

\* It ends once nobody holds one of its rows; those that are gone by then are
\* passed over (Wrote), those that were inserted meanwhile are not seen.
InsertItems(p) ==
    /\ At(p, "insert")
    /\ \A q \in Workers \ {p} : HeldBy(q) \cap worker[p].drop = {}
    /\ Goto(p, [worker[p] EXCEPT !.pc = "reload"])
    /\ UNCHANGED <<payment, twins, items, stale>>

\* The first half of the save.
ReloadPayment(p) ==
    LET w == worker[p]
    IN  /\ At(p, "reload")
        /\ Goto(p, [w EXCEPT
               !.pc = "write",
               !.save = [status |-> Differing(w.save.status, payment.status),
                         planned |-> Differing(w.save.planned, payment.planned),
                         paid |-> Differing(w.save.paid, payment.paid)]])
        /\ UNCHANGED <<payment, twins, items, stale>>

\* p has written the payment: whoever had read it has read too early now, and
\* finds the rows no more that p has deleted.
Wrote(p) ==
    /\ worker' = [q \in Workers |->
                    IF q = p THEN Idle
                    ELSE IF At(q, "idle") THEN worker[q]
                    ELSE [worker[q] EXCEPT !.fresh = FALSE, !.drop = @ \ worker[p].drop]]
    /\ stale' = (stale \/ ~ worker[p].fresh)

\* Mutant: the items of before are left in place.
WriteBeside(p) ==
    LET w == worker[p]
    IN  /\ At(p, "write")
        /\ payment' = [status |-> Given(w.save.status, payment.status),
                       planned |-> Given(w.save.planned, payment.planned),
                       paid |-> Given(w.save.paid, payment.paid)]
        /\ items' = items \cup w.add
        /\ Wrote(p)
        /\ UNCHANGED twins

\* The second half, and the end of the transaction.
WritePayment(p) ==
    LET w == worker[p]
    IN  /\ At(p, "write")
        /\ payment' = [status |-> Given(w.save.status, payment.status),
                       planned |-> Given(w.save.planned, payment.planned),
                       paid |-> Given(w.save.paid, payment.paid)]
        /\ items' = (items \ w.drop) \cup w.add
        /\ Wrote(p)
        /\ UNCHANGED twins

\* A request fails, and its transaction with it.
Fail(p) ==
    /\ ~ At(p, "idle")
    /\ Goto(p, Idle)
    /\ UNCHANGED <<payment, twins, items, stale>>

Next ==
    \E p \in Workers :
        \/ \E batch \in Batches : LookUpPayment(p, batch) \/ UpdateItems(p, batch)
        \/ InsertPayment(p)
        \/ \E u \in Edits : UpdatePayment(p, u)
        \/ DeleteItems(p) \/ InsertItems(p)
        \/ ReloadPayment(p) \/ WritePayment(p)
        \/ Fail(p)

Spec == Init /\ [][Next]_vars

-----------------------------------------------------------------------------
(* Properties *)

TypeOK ==
    /\ payment \in Rows \cup {NoPayment}
    /\ twins \in Nat
    /\ items \in SUBSET Items
    /\ worker \in [Workers -> WorkerStates]
    /\ stale \in BOOLEAN

\* A contract is billed twice only by requests that were served at once: no
\* unique index says so, and the check is made before the transaction that
\* inserts (create-payment.validator).
FewPayments ==
    payment # NoPayment => 1 + twins <= Cardinality(Workers)

\* Status and amounts agree whichever way they were set, from items or by
\* themselves (update-payment.validator, payment-aggregation.util): nothing is
\* paid of what is pending or cancelled, a part of what is partial; and what
\* is planned is what the items plan, also after updates without items: two
\* requests that both replace the items would double them.  Except that a
\* request has saved over a write it had not seen.
LedgerAgrees ==
    \/ stale
    \/ /\ CASE payment.status \in {"PENDING", "CANCELED"} -> payment.paid = 0
             [] payment.status = "PARTIAL" -> payment.paid \in 1 .. payment.planned - 1
             [] OTHER -> TRUE
       /\ payment.planned = Planned(items)

\* New items set whatever status they add up to; other updates keep to the
\* allowed transitions, checked before the transaction that saves - but for
\* stale saves.
TransitionsHold ==
    [][payment # NoPayment /\ payment'.status # payment.status =>
          \/ payment'.status \in AllowedTransitions[payment.status]
          \/ \E p \in Workers : At(p, "write") /\ worker[p].add # {}
          \/ stale']_vars

=============================================================================
