------------------------------ MODULE Documents ------------------------------
(***************************************************************************)
(* What the client is given to read: the proposal made of a budget, and    *)
(* the contract made of the approved budget, the lead and the company's    *)
(* profile.  A contract keeps a copy of what it was made of, but a         *)
(* rendering of it reads the budget and the lead again where its query     *)
(* loads them, and each of the three renderings loads something else.      *)
(* Requests are atomic here; Budgets has their interleavings.              *)
(***************************************************************************)
EXTENDS BudgetPricing, ContractStatuses, SequencesExt

CONSTANTS
    BudgetForms,        \* what budgets are created with
    BudgetEdits,        \* what they are updated with
    LeadEdits, ProfileEdits, ContractorEdits,
    Bodies,             \* texts an operator writes instead of the default body
    None

VARIABLES
    budget, lead, profile, contract

\* The identity of the company, the texts that the documents tell apart.
PartyFields == {"legalName", "tradeName", "representativeName", "pixKey", "pixKeyType"}

\* COMPANY_PROFILE_DEFAULTS.
Defaults == [legalName |-> "owner", tradeName |-> "Royal Copeiras",
             representativeName |-> "owner", pixKey |-> "registration", pixKeyType |-> "cnpj"]

LeadFields == {"name", "legalName", "street", "address"}

NewLead == [name |-> "lead", legalName |-> None, street |-> None, address |-> "old address"]

\* A value that is given, or else the one there is.
Or(x, y) == IF x = None THEN y ELSE x

\* A text of which something is left once it is trimmed.
Filled(x) == x \notin {None, ""}

\* The fields of over that have a text, and those of base for the others.
Merge(base, over) == [f \in DOMAIN base |-> IF Filled(over[f]) THEN over[f] ELSE base[f]]

Length(days) == Cardinality(DOMAIN days)

IsList(l) == IsFiniteSet(DOMAIN l) /\ DOMAIN l = 0 .. Length(l) - 1

\* What the input types let through of a budget: there is a day, and no amount
\* is negative.  Items may have the same order, which is 0 without one.
Entered(form) ==
    /\ form.days # None => IsList(form.days) /\ Length(form.days) > 0
    /\ form.fees # None => IsList(form.fees) /\ \A d \in DOMAIN form.fees : form.fees[d] \in Nat
    /\ form.discounts # None =>
         IsList(form.discounts) /\ \A d \in DOMAIN form.discounts : form.discounts[d].value \in Nat
    /\ form.items # None =>
         IsFiniteSet(form.items) /\ \A i \in form.items : i.price \in Nat /\ i.order \in Nat

\* Neither is there yet.
NoBudget == [status |-> "NONE"]
NoContract == [status |-> "NONE"]

Init ==
    /\ budget = NoBudget
    /\ lead = NewLead
    /\ profile = Defaults
    /\ contract = NoContract

-----------------------------------------------------------------------------
(* Budgets *)

\* An entry of an array that may be shorter than there are days.
FeeOf(fees, d) == IF d \in DOMAIN fees THEN fees[d] ELSE 0

SumOf(values) == MapThenSumSet(LAMBDA d : values[d], DOMAIN values)

Subtotal(items, n) == SumOf([d \in 0 .. n - 1 |-> DaySubtotal(items, d)])

Total(items, n, fees, discounts) ==
    SumOf([d \in 0 .. n - 1 |-> DayTotal(DaySubtotal(items, d), FeeOf(fees, d), discounts[d])])

\* Every item is of a day that exists, and every day has one.
ItemsCover(items, n) == {i.day : i \in items} = 0 .. n - 1

SaveBudget(form) ==
    LET n == Length(form.days)
        discounts == ResolveDiscounts(form.discounts, n)
        fees == IF form.fees = << >> THEN [d \in 0 .. n - 1 |-> 0] ELSE form.fees
    IN  /\ budget = NoBudget
        /\ n > 0
        /\ Length(form.discounts) \in {0, n}
        /\ ItemsCover(form.items, n)
        /\ Length(fees) = n
        /\ budget' = [status |-> "DRAFT", days |-> form.days, advance |-> form.advance,
                      fees |-> fees, discounts |-> discounts, items |-> form.items,
                      subtotal |-> Subtotal(form.items, n),
                      total |-> Total(form.items, n, fees, discounts)]
        /\ UNCHANGED <<lead, profile, contract>>

\* The arrays of the days have one length and are replaced together.  Fees
\* and items that are not given stay, also when the days become fewer or more;
\* so does the subtotal, while the total is computed again.
UpdateBudget(e) ==
    LET days == Or(e.days, budget.days)
        n == Length(days)
        given == Or(e.discounts, budget.discounts)
        discounts == ResolveDiscounts(given, n)
        fees == Or(e.fees, budget.fees)
        its == Or(e.items, budget.items)
    IN  /\ budget # NoBudget /\ budget.status = "DRAFT"
        /\ Length(given) \in {0, n}
        /\ e.items # None => ItemsCover(e.items, n)
        /\ e.fees # None => Length(e.fees) = n
        /\ budget' = [status |-> "DRAFT", days |-> days, advance |-> Or(e.advance, budget.advance),
                      fees |-> fees, discounts |-> discounts, items |-> its,
                      subtotal |-> IF e.items = None THEN budget.subtotal ELSE Subtotal(its, n),
                      total |-> Total(its, n, fees, discounts)]
        /\ UNCHANGED <<lead, profile, contract>>

\* assertBudgetReadyForContract, of what the updates leave open.
ReadyForContract ==
    /\ \A i \in budget.items : i.price > 0
    /\ Cardinality({i.day : i \in budget.items}) >= Length(budget.days)
    /\ budget.total > 0

\* The statuses that a budget goes through on its way to a contract.
BudgetMoves == [DRAFT |-> {"GENERATED", "CANCELED"},
                GENERATED |-> {"DRAFT", "APPROVED", "CANCELED"},
                APPROVED |-> {"CANCELED"},
                CANCELED |-> {}]

MoveBudget(to) ==
    /\ budget # NoBudget
    /\ to \in BudgetMoves[budget.status]
    /\ budget.status = "DRAFT" => ReadyForContract
    /\ budget' = [budget EXCEPT !.status = to]
    /\ UNCHANGED <<lead, profile, contract>>

UpdateLead(e) ==
    /\ lead' = [f \in LeadFields |-> Or(e[f], lead[f])]
    /\ UNCHANGED <<budget, profile, contract>>

UpdateProfile(e) ==
    /\ profile' = Merge(profile, e)
    /\ UNCHANGED <<budget, lead, contract>>

-----------------------------------------------------------------------------
(* Contracts *)

\* contractSnapshot: the guests, the fees and the items are not in it.
StoredCopy(over) ==
    [contractor |-> Merge(profile, over), lead |-> lead,
     days |-> budget.days, advance |-> budget.advance, total |-> budget.total]

\* Mutant: a contract is made of a budget in any status.
CreateContractOfAny(over, body, status) ==
    /\ budget # NoBudget /\ budget.total > 0
    /\ contract = NoContract
    /\ status \in InitialStatuses
    /\ contract' = [status |-> status, body |-> body, copy |-> StoredCopy(over)]
    /\ UNCHANGED <<budget, lead, profile>>

CreateContract(over, body, status) ==
    /\ budget # NoBudget /\ budget.status = "APPROVED" /\ budget.total > 0
    /\ contract = NoContract
    /\ status \in InitialStatuses
    /\ contract' = [status |-> status, body |-> body, copy |-> StoredCopy(over)]
    /\ UNCHANGED <<budget, lead, profile>>

\* The content of a contract is edited in DRAFT only.
UpdateContract(over, body) ==
    /\ contract # NoContract /\ contract.status = "DRAFT"
    /\ contract' = [contract EXCEPT !.body = Or(body, @),
                                    !.copy.contractor = Merge(@, over)]
    /\ UNCHANGED <<budget, lead, profile>>

\* Whoever moves it: an update, a signature, a closing.
MoveContract(to) ==
    /\ contract # NoContract
    /\ to \in AllowedTransitions[contract.status]
    /\ contract' = [contract EXCEPT !.status = to]
    /\ budget' = IF to = "CANCELED" THEN [budget EXCEPT !.status = "CANCELED"] ELSE budget
    /\ UNCHANGED <<lead, profile>>

Next ==
    \/ \E form \in BudgetForms : SaveBudget(form)
    \/ \E e \in BudgetEdits : UpdateBudget(e)
    \/ \E to \in DOMAIN BudgetMoves : MoveBudget(to)
    \/ \E e \in LeadEdits : UpdateLead(e)
    \/ \E e \in ProfileEdits : UpdateProfile(e)
    \/ \E over \in ContractorEdits, body \in Bodies \cup {None}, s \in InitialStatuses :
          CreateContract(over, body, s)
    \/ \E over \in ContractorEdits, body \in Bodies \cup {None} : UpdateContract(over, body)
    \/ \E to \in ContractStatus : MoveContract(to)

-----------------------------------------------------------------------------
(* The proposal, as previewed and mailed *)

Days(b) == 0 .. Length(b.days) - 1

\* What a list says that has one value for each day, in field: the value, if
\* all are equal, or else the value of each day.
PerDay(days, field) ==
    LET values == {days[d][field] : d \in DOMAIN days}
    IN  IF Cardinality(values) = 1 THEN {<<None, v>> : v \in values}
        ELSE {<<days[d].date, days[d][field]>> : d \in DOMAIN days}

\* The departure is on the next day if it is earlier than the arrival; at
\* midnight it is not.
LeavesNextDay(day) == day.departure > 0 /\ day.departure < day.arrival

PriceOf(items) == SumOf([i \in items |-> i.price])

\* Mutant: the discount of a day is one on its items.
DayDiscountOnItems(items, fee, discount) ==
    DiscountAmount(PriceOf(items), discount)

\* The discount of a day, computed once more when it is printed.
DayDiscount(items, fee, discount) ==
    DiscountAmount(PriceOf(items) + fee, discount)

\* The mail is given the lines without their day, and takes all of them to be
\* of the first.
DayInMail(items) == [i \in items |-> 0]

\* The sum of the days' discounts, for lines that dayOf puts on days.
DiscountSummary(b, dayOf) ==
    SumOf([d \in Days(b) |->
             DayDiscount({i \in b.items : dayOf[i] = d}, FeeOf(b.fees, d), b.discounts[d])])

Row(kind, day, amount) == [kind |-> kind, day |-> day, amount |-> amount]

FeeRow(day, amount) == IF amount > 0 THEN << Row("fee", day, amount) >> ELSE << >>

\* The members of S by key; which of two comes first that have the same is open.
InOrder(S, key) ==
    CHOOSE s \in SetToSeqs(S) : \A m, n \in DOMAIN s : m < n => key[s[m]] <= key[s[n]]

ItemRows(items) ==
    LET sorted == InOrder(items, [i \in items |-> i.order])
    IN  [n \in DOMAIN sorted |-> Row("item", sorted[n].day, sorted[n].price)]

\* A day of several: its items, its fee and what they come to.
DayBlock(b, d) ==
    LET its == {i \in b.items : i.day = d}
        fee == FeeOf(b.fees, d)
    IN  ItemRows(its) \o FeeRow(d, fee)
        \o << Row("subtotal", d, PriceOf(its) + fee) >>

\* The rows of one day, whichever day items are of, or the days' blocks.
Rows(b) ==
    LET days == {i.day : i \in b.items}
        ordered == InOrder(days, [d \in days |-> d])
        discount == DiscountSummary(b, [i \in b.items |-> i.day])
    IN  (IF Length(b.days) = 1
           THEN ItemRows(b.items) \o FeeRow(0, SumOf(b.fees))
           ELSE FlattenSeq([n \in DOMAIN ordered |-> DayBlock(b, ordered[n])]))
        \o (IF discount > 0 THEN << Row("discount", 0, discount) >> ELSE << >>)

Proposal(b) == [rows |-> Rows(b), total |-> b.total]

\* The sums at the end of the mail that the proposal is attached to.
Mail(b) == [subtotal |-> b.subtotal, fees |-> SumOf(b.fees),
            discount |-> DiscountSummary(b, DayInMail(b.items)), total |-> b.total]

-----------------------------------------------------------------------------
(* The contract *)

\* What the queries load: for the preview and the mail, and for the signature.
Read == {"budget", "lead"}
ForSignature == {"lead"}

\* Mutant: a rendering names the company as it is now.
ContractorNow == profile

\* The company as the contract keeps it, and the defaults for what it lacks.
Contractor == Merge(Defaults, contract.copy.contractor)

\* What is loaded, or else the copy; items are not even loaded with the budget.
Snapshot(loaded) ==
    LET copy == contract.copy
        live == "budget" \in loaded
    IN  [days |-> IF live THEN budget.days ELSE copy.days,
         guests |-> IF live THEN PerDay(budget.days, "guests") ELSE {},
         fees |-> IF live THEN budget.fees ELSE << >>,
         advance |-> IF live THEN budget.advance ELSE copy.advance,
         total |-> IF live THEN budget.total ELSE copy.total,
         items |-> {},
         lead |-> IF "lead" \in loaded
                    THEN [f \in LeadFields |-> Or(lead[f], copy.lead[f])] ELSE copy.lead,
         contractor |-> Contractor]

\* The client is named by the name alone, unless there is more to say; the
\* structured address comes before the free one.
Contractee(l) ==
    LET address == IF Filled(l.street) THEN l.street ELSE l.address
    IN  IF Filled(l.legalName) \/ Filled(address)
          THEN <<IF Filled(l.legalName) THEN l.legalName ELSE l.name, l.name, address>>
          ELSE <<l.name>>

\* The key that is paid to, with what it is and whose.
PaymentReference(c) ==
    <<IF c.pixKeyType \in {"cnpj", "cpf"} THEN c.pixKeyType ELSE "chave PIX", c.pixKey, c.representativeName>>

Schedule(days) ==
    {<<days[d].date, days[d].arrival,
       days[d].date + (IF LeavesNextDay(days[d]) THEN 1 ELSE 0), days[d].departure>>
       : d \in DOMAIN days}

\* A line for each item of staff, by day if there are several; without items
\* it is one service, whatever was ordered.
ServiceLines(s) ==
    LET staff == {i \in s.items : i.kind = "LABOR"}
    IN  IF staff = {} THEN {<<None, "service", 1>>}
        ELSE IF Length(s.days) = 1 THEN {<<None, i.what, i.quantity>> : i \in staff}
        ELSE {<<s.days[i.day].date, i.what, i.quantity>> : i \in staff}

Supplies(s) == {<<i.what, i.quantity>> : i \in {j \in s.items : j.kind = "SUPPLY"}}

\* The clauses that depend on anything.
DefaultBody(s) ==
    [services |-> ServiceLines(s),
     hours |-> PerDay(s.days, "hours"),
     schedule |-> Schedule(s.days),
     place |-> PerDay(s.days, "place"),
     guests |-> s.guests,
     displacement |-> {<<d, s.fees[d]>> : d \in {e \in DOMAIN s.fees : s.fees[e] > 0}},
     supplies |-> Supplies(s),
     total |-> s.total,
     parts |-> <<s.advance, 100 - s.advance>>,
     payment |-> PaymentReference(s.contractor),
     company |-> s.contractor.tradeName]

ContractDocument(loaded) ==
    LET s == Snapshot(loaded)
    IN  [contractee |-> Contractee(s.lead),
         contractor |-> <<s.contractor.legalName, s.contractor.tradeName>>,
         body |-> contract.body,
         clauses |-> IF contract.body = None THEN DefaultBody(s) ELSE << >>]

-----------------------------------------------------------------------------
(* Properties *)

\* Every entity has its columns, and every list one entry for each day, but
\* for the fees that an edit of the days may leave behind.
TypeOK ==
    /\ budget # NoBudget =>
         /\ budget.status \in DOMAIN BudgetMoves
         /\ DOMAIN budget.discounts = Days(budget)
         /\ {budget.total, budget.subtotal} \subseteq Nat
    /\ DOMAIN lead = LeadFields /\ DOMAIN profile = PartyFields
    /\ contract # NoContract => contract.status \in ContractStatus /\ contract.body \in Bodies \cup {None}

\* The fees and the items of the budget are those of its days.
FitsDays(b) == DOMAIN b.fees = Days(b) /\ ItemsCover(b.items, Length(b.days))

SumOfRows(rows, kinds, days) ==
    SumOf([n \in {m \in DOMAIN rows : rows[m].kind \in kinds /\ rows[m].day \in days} |->
             rows[n].amount])

\* What the mail says of fees and discount leads from its subtotal to its total.
MailAddsUp ==
    LET mail == Mail(budget) IN mail.subtotal + mail.fees - mail.discount = mail.total

\* The rows of a proposal add up to the total it prints, although the discount
\* in them is computed again from the lines; of several days each has one
\* subtotal, that of its rows, in the order of the days.  So do the sums of
\* the mail, if there is one day.
ProposalAddsUp ==
    budget # NoBudget /\ FitsDays(budget) =>
      LET rows == Proposal(budget).rows
          bands == {n \in DOMAIN rows : rows[n].kind = "subtotal"}
      IN  /\ SumOfRows(rows, {"item", "fee"}, Days(budget))
               - SumOfRows(rows, {"discount"}, {0}) = budget.total
          /\ Length(budget.days) = 1 => MailAddsUp
          /\ Length(budget.days) > 1 =>
               /\ {rows[n].day : n \in bands} = Days(budget)
               /\ \A m, n \in bands : m < n => rows[m].day < rows[n].day
               /\ \A n \in bands :
                    rows[n].amount = SumOfRows(rows, {"item", "fee"}, {rows[n].day})

\* The terms that the signed document shares with those read before.
Terms(document) ==
    [document EXCEPT !.clauses = [c \in DOMAIN @ \ {"guests", "displacement"} |-> @[c]]]

\* The client signs the terms that were previewed and mailed: the document for
\* the signature, made of the copy, agrees with those made of the budget as it
\* is now on parties, price, payment, days, hours and place.
SameTerms ==
    contract # NoContract =>
      Terms(ContractDocument(Read)) = Terms(ContractDocument(ForSignature))

Settled(loaded) ==
    LET document == ContractDocument(loaded) IN <<document.clauses, document.contractor>>

\* As long as nobody edits a contract, what happens to the profile, the lead
\* and the budget changes no clause of it, nor how it names the company.
TermsStay ==
    [][(contract # NoContract /\ contract'.body = contract.body
          /\ contract'.copy.contractor = contract.copy.contractor) =>
         \A loaded \in {Read, ForSignature} : Settled(loaded)' = Settled(loaded)
      ]_<<budget, lead, profile, contract>>

\* No contract with the default body is rendered without the staff, the
\* supplies, the guests or the fees of its budget.
NoHollowContracts ==
    contract # NoContract /\ contract.body = None =>
      \A loaded \in {Read, ForSignature} :
         LET clauses == ContractDocument(loaded).clauses
             whole == [Snapshot(Read) EXCEPT !.items = budget.items]
         IN  clauses = DefaultBody(whole)

=============================================================================
