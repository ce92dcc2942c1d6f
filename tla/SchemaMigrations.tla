-------------------------- MODULE SchemaMigrations ---------------------------
(***************************************************************************)
(* The migrations of the database.  A workflow checks a release out and    *)
(* runs the migrations that the database has not had yet, in one           *)
(* transaction, ordered by the last 13 characters of their names; a revert *)
(* undoes the migration that was run last.  Both are commands of TypeORM.  *)
(* The release that serves is deployed on its own: until then the one      *)
(* before writes to the schema as the migrations have left it.             *)
(*                                                                         *)
(* The schema is the set of the tables, columns, constraints and labels    *)
(* that migrations change.  Of the data there is what migrations rewrite.  *)
(* A migration that meets data it cannot convert has no step: the run is   *)
(* rolled back.                                                            *)
(***************************************************************************)
EXTENDS Integers, Sequences, FiniteSets, SequencesExt

CONSTANTS
    Releases,     \* how many of the migrations the releases have
    Databases,    \* databases as they were before the first migration
    MaxEvents,    \* events that are created (a bound)
    None

VARIABLES
    db,        \* the database, with the migrations it has had, in order
    release,   \* the release that serves
    pending,   \* the migrations that the run under way has still to do
    saved      \* the database as that run found it

vars == <<db, release, pending, saved>>

-----------------------------------------------------------------------------
(* Migrations that only add to the schema, and take that back when undone.  *)

AddEventTimesToBudgets == {"budgets.event_arrival_times", "budgets.event_departure_times"}

AddPositionReferenceToBudgetItems == {"budget_items.idtb_positions"}

\* The same column again, if it is not there.
EnsureBudgetItemsPositionReference == {"budget_items.idtb_positions"}

AddDiscountPercentageToBudgets == {"budgets.discount_percentage"}

AddDiscountTypeAndAmountToBudgets ==
    {"budgets.discount_type", "budgets.discount_type enum", "budgets.discount_amount"}

AddOvertimeMinutesToEvents == {"events.overtime_minutes"}

CreatePaymentsTable == {"payments", "payments_origin_enum", "payments_status_enum"}

AddServiceGenderToBudgetItems == {"budget_items.service_gender"}

CreateCompanyProfileTable == {"company_profile"}

CreatePublicIntakeCodesTable == {"public_intake_codes"}

AddEventDateIndexToBudgetItems == {"budget_items.event_date_index"}

AddLegalNameAndAddressToLeads ==
    {"leads.legal_name", "leads.address", "leads.address_city", "leads.address_state",
     "leads.address_zip_code"}

CreateSuppliesTable == {"supplies"}

AddItemTypeAndSupplyToBudgetItems ==
    {"budget_items.item_type", "budget_items.idtb_supplies", "budget_items.unit"}

AddOvertimeRatesAndExtraExpensesToEvents ==
    {"events.overtime_hourly_rate", "events.extra_expenses",
     "event_assignments.overtime_hourly_payment"}

\* Labels of an enumeration stay when the migration is undone.
AddClosedWithoutSignatureContractStatus == {"contracts_status.closed_without_signature"}

AddPositionsToUserPageAccessEnum == {"page_key.POSITIONS"}

AddPaymentsToUserPageAccessEnum == {"page_key.PAYMENTS"}

AddSuppliesToUserPageAccessEnum == {"page_key.SUPPLIES"}

\* Columns of timestamps lose their time zone; undoing gives it back to these.
StandardizeTimestampsWithoutTimezone ==
    {"budgets.sent_at with time zone", "contracts.sent_at with time zone",
     "signatures.signed_at with time zone", "signatures.consent_at with time zone"}

\* Everybody is FEMALE, and must be something, ...
AddGenderToEmployees == {"employees.gender", "employees.gender not null"}

\* ... until the next migration, which forgets it again.
MakeEmployeeGenderNullable == {"employees.gender not null"}

-----------------------------------------------------------------------------
(* All migrations, in the order of their files. *)

Files ==
    <<"MakeEmployeeDocumentNullable", "AddEventTimesToBudgets",
      "StandardizeTimestampsWithoutTimezone", "AddClosedWithoutSignatureContractStatus",
      "CreatePositionsAndRelateEmployees", "AddPositionsToUserPageAccessEnum",
      "AddGenderToEmployees", "MakeEmployeeGenderNullable",
      "AddPositionReferenceToBudgetItems", "EnsureBudgetItemsPositionReference",
      "BackfillBudgetItemsPositions", "ResetPositionsAndDependencies",
      "SeedDefaultPositionsAndMapBudgetItems", "AddDiscountPercentageToBudgets",
      "AddDiscountTypeAndAmountToBudgets", "AddOvertimeMinutesToEvents",
      "CreatePaymentsTable", "RefactorPaymentsToAggregateByReference",
      "AddEventNumberToEvents", "AddPaymentsToUserPageAccessEnum",
      "AddServiceGenderToBudgetItems", "AddSignerTypeAndFixSignatureDates",
      "CreateCompanyProfileTable", "FixSwappedSignatureDocuments",
      "CreatePublicIntakeCodesTable", "ConvertBudgetDayFieldsToArrays",
      "AddEventDateIndexToBudgetItems", "ConvertBudgetDisplacementFeeToArray",
      "ConvertBudgetDiscountFieldsToArrays", "AddLegalNameAndAddressToLeads",
      "CreateSuppliesTable", "AddSuppliesToUserPageAccessEnum",
      "AddItemTypeAndSupplyToBudgetItems", "AddStructuredAddressToLeads",
      "AddOvertimeRatesAndExtraExpensesToEvents", "RemoveStaffSlotsForSupplyItems">>

FilesOf(r) == {Files[i] : i \in 1 .. r}

\* What an up adds to the schema ...
Adds ==
    [AddEventTimesToBudgets |-> AddEventTimesToBudgets,
     AddClosedWithoutSignatureContractStatus |-> AddClosedWithoutSignatureContractStatus,
     CreatePositionsAndRelateEmployees |->
         {"positions", "employees.idtb_positions", "employees.idtb_positions not null"},
     AddPositionsToUserPageAccessEnum |-> AddPositionsToUserPageAccessEnum,
     AddGenderToEmployees |-> AddGenderToEmployees,
     AddPositionReferenceToBudgetItems |-> AddPositionReferenceToBudgetItems,
     EnsureBudgetItemsPositionReference |-> EnsureBudgetItemsPositionReference,
     AddDiscountPercentageToBudgets |-> AddDiscountPercentageToBudgets,
     AddDiscountTypeAndAmountToBudgets |-> AddDiscountTypeAndAmountToBudgets,
     AddOvertimeMinutesToEvents |-> AddOvertimeMinutesToEvents,
     CreatePaymentsTable |-> CreatePaymentsTable,
     RefactorPaymentsToAggregateByReference |-> {"payments.idtb_events", "payment_items"},
     AddEventNumberToEvents |-> {"events.event_number"},
     AddPaymentsToUserPageAccessEnum |-> AddPaymentsToUserPageAccessEnum,
     AddServiceGenderToBudgetItems |-> AddServiceGenderToBudgetItems,
     AddSignerTypeAndFixSignatureDates |-> {"signatures.signer_type"},
     CreateCompanyProfileTable |-> CreateCompanyProfileTable,
     CreatePublicIntakeCodesTable |-> CreatePublicIntakeCodesTable,
     AddEventDateIndexToBudgetItems |-> AddEventDateIndexToBudgetItems,
     AddLegalNameAndAddressToLeads |-> AddLegalNameAndAddressToLeads,
     CreateSuppliesTable |-> CreateSuppliesTable,
     AddSuppliesToUserPageAccessEnum |-> AddSuppliesToUserPageAccessEnum,
     AddItemTypeAndSupplyToBudgetItems |-> AddItemTypeAndSupplyToBudgetItems,
     AddStructuredAddressToLeads |->
         {"leads.address_street", "leads.address_number", "leads.address_complement",
          "leads.address_neighborhood"},
     AddOvertimeRatesAndExtraExpensesToEvents |-> AddOvertimeRatesAndExtraExpensesToEvents]

\* ... and what it drops.
Drops ==
    [MakeEmployeeDocumentNullable |-> {"employees.document not null"},
     StandardizeTimestampsWithoutTimezone |-> StandardizeTimestampsWithoutTimezone,
     CreatePositionsAndRelateEmployees |-> {"employees.position"},
     MakeEmployeeGenderNullable |-> MakeEmployeeGenderNullable,
     ResetPositionsAndDependencies |-> {"employees.idtb_positions not null"},
     ConvertBudgetDiscountFieldsToArrays |-> {"budgets.discount_type enum"}]

\* What a down leaves as the up has made it.
Kept ==
    AddClosedWithoutSignatureContractStatus \cup AddPositionsToUserPageAccessEnum
      \cup AddPaymentsToUserPageAccessEnum \cup AddSuppliesToUserPageAccessEnum

Added(m) == IF m \in DOMAIN Adds THEN Adds[m] ELSE {}

Dropped(m) == IF m \in DOMAIN Drops THEN Drops[m] ELSE {}

\* ResetPositionsAndDependencies undoes nothing, and a type of discount becomes
\* a text.
Unrestored == {"ResetPositionsAndDependencies", "ConvertBudgetDiscountFieldsToArrays"}

Restored(m) == IF m \in Unrestored THEN {} ELSE Dropped(m)

BaseSchema ==
    {"employees.document not null", "employees.position"}
      \cup StandardizeTimestampsWithoutTimezone

\* What is known of a database: the schema, the migrations it has had, and the
\* data that migrations rewrite.
Fields ==
    {"schema", "applied", "users", "owner", "employees", "positions", "items",
     "payments", "events", "identified", "signed", "signatures", "days", "budget",
     "address", "street", "slots", "legacyActive"}

\* A row of signatures has a date and a document of each of two parties.
Rows ==
    LET of(values) == [client : values \cup {None}, company : values \cup {None}]
    IN  [date : of(Nat), document : of(STRING)]

BudgetFields == {"location", "fee", "percentage", "kind"}

\* Before the first migration there are no payments and no positions, events
\* have no number, and budgets have one value of each field.
ASSUME DatabasesAssumption ==
    \A d \in Databases :
        /\ d = [f \in Fields |-> d[f]]
        /\ d.schema = BaseSchema /\ d.applied = <<>>
        /\ d.payments \in [DOMAIN d.payments -> {"absent"}]
        /\ d.events \in Seq({None})
        /\ d.positions = {}
        /\ \A e \in DOMAIN d.employees :
             LET x == d.employees[e]
             IN  x = [document |-> x.document, text |-> <<x.text[1], x.text[2]>>, position |-> None]
        /\ d.signatures \in [DOMAIN d.signatures -> Rows] /\ IsFiniteSet(DOMAIN d.signatures)
        /\ d.days \in Nat /\ DOMAIN d.budget = BudgetFields
        /\ \A f \in BudgetFields :
             d.budget[f] = [each |-> FALSE, values |-> <<d.budget[f].values[1]>>]

ASSUME NoneAssumption == None \notin Nat

\* A release has the first so many of the files.
ASSUME ReleasesAssumption == Releases \subseteq 1 .. Len(Files)

\* The timestamps that the others have rise as the files do.
Place == [m \in FilesOf(Len(Files)) |-> CHOOSE i \in DOMAIN Files : Files[i] = m]

\* Mutant: another timestamp has that form.
RankWithGenderLast == [Place EXCEPT !["AddGenderToEmployees"] = Len(Files) + 1]

\* The order in which they run: the timestamp of AddSignerTypeAndFixSignatureDates
\* has another form than the others and is the largest number of all.
Rank == [Place EXCEPT !["AddSignerTypeAndFixSignatureDates"] = Len(Files) + 1]

-----------------------------------------------------------------------------
(* The commands. *)

Init ==
    /\ db \in Databases
    /\ release = 0
    /\ pending = {}
    /\ saved = None

Running == saved # None

\* A release, whichever it is, is checked out and its migrations are run.
BeginRun(r) ==
    LET missing == FilesOf(r) \ {db.applied[i] : i \in DOMAIN db.applied}
    IN  /\ ~ Running
        /\ missing # {}
        /\ pending' = missing
        /\ saved' = db
        /\ UNCHANGED <<db, release>>

\* A release takes over: production after the run of its migrations, beta when
\* Vercel gets to it, an earlier one when a deployment is taken back.
Deploy(r) ==
    /\ ~ Running
    /\ release' = r
    /\ UNCHANGED <<db, pending, saved>>

Due(m) == Running /\ m \in pending /\ \A n \in pending : Rank[m] <= Rank[n]

\* The next migration of the run makes the database d.
Up(m, d) ==
    /\ Due(m)
    /\ db' = [d EXCEPT !.schema = (@ \cup Added(m)) \ Dropped(m), !.applied = Append(@, m)]
    /\ pending' = pending \ {m}
    /\ UNCHANGED <<release, saved>>

CommitRun ==
    /\ Running
    /\ pending = {}
    /\ saved' = None
    /\ UNCHANGED <<db, release, pending>>

\* A migration fails, or the connection is lost.
RollBack ==
    /\ Running
    /\ db' = saved
    /\ pending' = {}
    /\ saved' = None
    /\ UNCHANGED release

\* The migration run last is reverted, which makes the database d.
Down(m, d) ==
    /\ ~ Running
    /\ db.applied # <<>>
    /\ Last(db.applied) = m
    /\ db' = [d EXCEPT !.schema = (@ \ (Added(m) \ Kept)) \cup Restored(m),
                       !.applied = Front(@)]
    /\ UNCHANGED <<release, pending, saved>>

-----------------------------------------------------------------------------
(* Employees and positions.  A text is a word and how it is dressed: the    *)
(* case and spaces that normalizing takes away.                             *)

Employees == DOMAIN db.employees

\* An empty document becomes none; undone, none becomes eleven zeros, which
\* only one employee can have.
MakeEmployeeDocumentNullable ==
    LET name == "MakeEmployeeDocumentNullable"
        With(old, new) == [e \in Employees |->
                             [db.employees[e] EXCEPT !.document = IF @ = old THEN new ELSE @]]
    IN  \/ Up(name, [db EXCEPT !.employees = With("", None)])
        \/ /\ Cardinality({e \in Employees : db.employees[e].document \in {None, "zeros"}}) <= 1
           /\ Down(name, [db EXCEPT !.employees = With(None, "zeros")])

NoPosition == <<"sem cargo", "plain">>

Named(text) == IF text[1] = "" THEN NoPosition ELSE text

\* The texts become positions, one for all that are normalized to one word, and
\* named as one of them is.
CreatePositionsAndRelateEmployees ==
    LET name == "CreatePositionsAndRelateEmployees"
        texts == [e \in Employees |-> Named(db.employees[e].text)]
        words == {texts[e][1] : e \in Employees}
    IN  /\ Due(name)
        /\ \E names \in [words -> {texts[e] : e \in Employees}] :
             LET position(w) == [owner |-> db.owner, word |-> w, name |-> names[w]]
             IN  /\ \A w \in words : names[w][1] = w
                 /\ Up(name,
                       [db EXCEPT
                          !.positions = {position(w) : w \in words},
                          !.employees = [e \in Employees |->
                             [@[e] EXCEPT !.position = position(texts[e][1]), !.text = None]]])

\* Undone, the names of positions become texts, and the positions go.
RemovePositions ==
    LET text(p) == IF p = None THEN NoPosition ELSE p.name
    IN  Down("CreatePositionsAndRelateEmployees",
             [db EXCEPT
                !.positions = {},
                !.employees = [e \in Employees |->
                   [@[e] EXCEPT !.text = text(db.employees[e].position), !.position = None]]])

\* What the words of a budget line say about its position.
SeededWords == {"copeira", "garcom", "seguranca", "recepcionista", "monitor"}

InferredWords == SeededWords \cup {"porteiro"}

\* The lines without a position get that of their word, if it is there.
Mapped(items, positions, owner, words) ==
    [i \in DOMAIN items |->
       LET fitting == {p \in positions : p.owner = owner /\ p.word = items[i].word}
       IN  IF items[i].position = None /\ items[i].word \in words /\ fitting # {}
           THEN [items[i] EXCEPT !.position = CHOOSE p \in fitting : TRUE]
           ELSE items[i]]

With(positions, owner, words) ==
    positions \cup {[owner |-> owner, word |-> w, name |-> <<w, "plain">>] :
                      w \in words \ {p.word : p \in {q \in positions : q.owner = owner}}}

\* What positions can be made of.
Owners == {"seed"} \cup {d.owner : d \in Databases}

Entered == UNION {{d.employees[e].text : e \in DOMAIN d.employees} : d \in Databases}

Words == InferredWords \cup {NoPosition[1]} \cup {t[1] : t \in Entered}

Texts == Words \X ({"plain"} \cup {t[2] : t \in Entered})

Positions == [owner : Owners, word : Words, name : Texts]

ASSUME PositionsAssumption == None \notin Texts \cup Positions

\* Positions that lines ask for are created, and the lines refer to them.
BackfillBudgetItemsPositions ==
    LET name == "BackfillBudgetItemsPositions"
        asked == {db.items[i].word : i \in {j \in DOMAIN db.items : db.items[j].position = None}}
        positions == With(db.positions, db.owner, asked \cap InferredWords)
    IN  \/ Up(name, [db EXCEPT !.positions = positions,
                               !.items = Mapped(@, positions, db.owner, InferredWords)])
        \/ Down(name, db)

\* All positions go, and nothing brings them back.
ResetPositionsAndDependencies ==
    LET name == "ResetPositionsAndDependencies"
    IN  \/ Up(name, [db EXCEPT
                       !.positions = {},
                       !.items = [i \in DOMAIN @ |-> [@[i] EXCEPT !.position = None]],
                       !.employees = [e \in Employees |-> [@[e] EXCEPT !.position = None]]])
        \/ Down(name, db)

\* Five positions of one user, who must be there; undone, they must not be
\* anybody's position.
SeedDefaultPositionsAndMapBudgetItems ==
    LET name == "SeedDefaultPositionsAndMapBudgetItems"
        positions == With(db.positions, "seed", SeededWords)
        seeded == {p \in db.positions : p.owner = "seed" /\ p.word \in SeededWords}
    IN  \/ /\ "seed" \in db.users
           /\ Up(name, [db EXCEPT !.positions = positions,
                                  !.items = Mapped(@, positions, "seed", SeededWords)])
        \/ /\ \A e \in Employees : db.employees[e].position \notin seeded
           /\ Down(name, [db EXCEPT
                            !.positions = @ \ seeded,
                            !.items = [i \in DOMAIN @ |->
                               [@[i] EXCEPT !.position = IF @ \in seeded THEN None ELSE @]]])

-----------------------------------------------------------------------------
(* Payments and events. *)

Payments == DOMAIN db.payments

\* The table goes with its payments when it is undone: see CreatePaymentsTable.
DropPayments ==
    Down("CreatePaymentsTable", [db EXCEPT !.payments = [p \in Payments |-> "absent"]])

\* Mutant: payments that are there get no item.
RefactorWithoutBackfill ==
    LET name == "RefactorPaymentsToAggregateByReference"
    IN  \/ Up(name, db)
        \/ Down(name, [db EXCEPT !.payments =
                         [p \in Payments |-> IF @[p] = "itemized" THEN "bare" ELSE @[p]]])

\* Every payment gets one item that repeats it; undone, the items go.
RefactorPaymentsToAggregateByReference ==
    LET name == "RefactorPaymentsToAggregateByReference"
        Become(old, new) == [p \in Payments |-> IF db.payments[p] = old THEN new
                                                ELSE db.payments[p]]
    IN  \/ Up(name, [db EXCEPT !.payments = Become("bare", "itemized")])
        \/ Down(name, [db EXCEPT !.payments = Become("itemized", "bare")])

\* Events without a number get their rank by creation.
AddEventNumberToEvents ==
    LET name == "AddEventNumberToEvents"
    IN  \/ Up(name, [db EXCEPT !.events = [i \in DOMAIN @ |-> IF @[i] = None THEN i ELSE @[i]]])
        \/ Down(name, [db EXCEPT !.events = [i \in DOMAIN @ |-> None]])

-----------------------------------------------------------------------------
(* Signatures of one contract.  A row is an envelope and one of two parties. *)

Envelopes == DOMAIN db.signatures

\* Each pair of a client's and a company's row swaps what it holds in a column.
\* A row in two pairs has two values to take: the statement fails.
OncePaired(pairs) ==
    \A x, y \in pairs : x # y => x.client # y.client /\ x.company # y.company

\* Mutant: the company's row takes the client's value before it is given.
CopiedOver(pairs, column) ==
    [e \in Envelopes |->
       [db.signatures[e] EXCEPT ![column].client =
          IF \E x \in pairs : x.client = e
          THEN db.signatures[(CHOOSE x \in pairs : x.client = e).company][column].company
          ELSE @]]

Swapped(pairs, column) ==
    [e \in Envelopes |->
       [db.signatures[e] EXCEPT ![column] =
          [client  |-> IF \E x \in pairs : x.client = e
                       THEN db.signatures[(CHOOSE x \in pairs : x.client = e).company][column].company
                       ELSE @.client,
           company |-> IF \E x \in pairs : x.company = e
                       THEN db.signatures[(CHOOSE x \in pairs : x.company = e).client][column].client
                       ELSE @.company]]]

Pairs == [client : Envelopes, company : Envelopes]

OfClient(x, column) == db.signatures[x.client][column].client

OfCompany(x, column) == db.signatures[x.company][column].company

\* Dates of a signed contract where the client's is the later one are swapped;
\* undone, those where it is the earlier one.
AddSignerTypeAndFixSignatureDates ==
    LET name == "AddSignerTypeAndFixSignatureDates"
        dated == {x \in Pairs : db.signed /\ None \notin {OfClient(x, "date"), OfCompany(x, "date")}}
        later == {x \in dated : OfClient(x, "date") > OfCompany(x, "date")}
        earlier == {x \in dated : OfClient(x, "date") < OfCompany(x, "date")}
    IN  \/ OncePaired(later) /\ Up(name, [db EXCEPT !.signatures = Swapped(later, "date")])
        \/ OncePaired(earlier) /\ Down(name, [db EXCEPT !.signatures = Swapped(earlier, "date")])

\* Documents are swapped where the client's row has the company's, if that is
\* known (CONTRACT_COMPANY_SIGNER_IDENTIFIER).  The statement needs signer_type.
FixSwappedSignatureDocuments ==
    LET name == "FixSwappedSignatureDocuments"
        wrong == {x \in Pairs : /\ OfClient(x, "document") = "company's"
                                /\ OfCompany(x, "document") # "company's"}
        right == {x \in Pairs : /\ OfClient(x, "document") # "company's"
                                /\ OfCompany(x, "document") = "company's"}
        Able(pairs) == "signatures.signer_type" \in db.schema /\ OncePaired(pairs)
    IN  \/ ~ db.identified /\ (Up(name, db) \/ Down(name, db))
        \/ /\ db.identified /\ Able(wrong)
           /\ Up(name, [db EXCEPT !.signatures = Swapped(wrong, "document")])
        \/ /\ db.identified /\ Able(right)
           /\ Down(name, [db EXCEPT !.signatures = Swapped(right, "document")])

-----------------------------------------------------------------------------
(* Budgets.  A field of a budget has one value, or with each day its own. *)

One(v) == [each |-> FALSE, values |-> <<v>>]

\* The value there was is repeated for each day, or the empty one is, if any.
ToArray(field, empty) ==
    LET v == field.values[1]
        copies(x) == [i \in 1 .. (IF db.days = 0 THEN 1 ELSE db.days) |-> x]
    IN  [each |-> TRUE,
         values |-> IF v # None THEN copies(v) ELSE IF empty # None THEN copies(empty) ELSE <<>>]

\* The value of the first day, or the default, if any.
ToValue(field, default) == One(IF field.values = <<>> THEN default ELSE field.values[1])

\* location stands for event_location, guest_count and duration_hours.
ConvertBudgetDayFieldsToArrays ==
    LET name == "ConvertBudgetDayFieldsToArrays"
    IN  \/ Up(name, [db EXCEPT !.budget.location = ToArray(@, None)])
        \/ Down(name, [db EXCEPT !.budget.location = ToValue(@, None)])

ConvertBudgetDisplacementFeeToArray ==
    LET name == "ConvertBudgetDisplacementFeeToArray"
    IN  \/ Up(name, [db EXCEPT !.budget.fee = ToArray(@, None)])
        \/ Down(name, [db EXCEPT !.budget.fee = ToValue(@, "0")])

\* percentage stands for discount_percentage and discount_amount.
ConvertBudgetDiscountFieldsToArrays ==
    Up("ConvertBudgetDiscountFieldsToArrays",
       [db EXCEPT !.budget.percentage = ToArray(@, "0"), !.budget.kind = ToArray(@, "")])

\* Undone, an empty kind of discount is none; a percentage of 0 stays one.
RemoveDiscountsOfDays ==
    LET kind == ToValue(db.budget.kind, None).values[1]
    IN  Down("ConvertBudgetDiscountFieldsToArrays",
             [db EXCEPT !.budget.percentage = ToValue(@, None),
                        !.budget.kind = One(IF kind = "" THEN None ELSE kind)])

-----------------------------------------------------------------------------
(* Leads and the staffing of events. *)

\* The address becomes the street as well, which is shorter.
AddStructuredAddressToLeads ==
    LET name == "AddStructuredAddressToLeads"
    IN  \/ db.address # "long" /\ Up(name, [db EXCEPT !.street = db.address])
        \/ Down(name, [db EXCEPT !.street = None])

\* Slots that nobody has go if the line is a supply, or of the position that was
\* one before; the position is not active any more, and is again when undone.
RemoveStaffSlotsForSupplyItems ==
    LET name == "RemoveStaffSlotsForSupplyItems"
    IN  \/ Up(name, [db EXCEPT
                       !.slots = {s \in @ : s.taken \/ s.line \notin {"supply", "legacy"}},
                       !.legacyActive = FALSE])
        \/ Down(name, [db EXCEPT !.legacyActive = TRUE])

\* The others.
WithData ==
    {"MakeEmployeeDocumentNullable", "CreatePositionsAndRelateEmployees",
     "BackfillBudgetItemsPositions", "ResetPositionsAndDependencies",
     "SeedDefaultPositionsAndMapBudgetItems", "RefactorPaymentsToAggregateByReference",
     "AddEventNumberToEvents", "AddSignerTypeAndFixSignatureDates",
     "FixSwappedSignatureDocuments", "ConvertBudgetDayFieldsToArrays",
     "ConvertBudgetDisplacementFeeToArray", "ConvertBudgetDiscountFieldsToArrays",
     "AddStructuredAddressToLeads", "RemoveStaffSlotsForSupplyItems"}

ChangeSchema ==
    \E m \in {Files[i] : i \in DOMAIN Files} \ WithData :
        \/ Up(m, db)
        \/ m # "CreatePaymentsTable" /\ Down(m, db)

Migrate ==
    \/ ChangeSchema
    \/ MakeEmployeeDocumentNullable \/ CreatePositionsAndRelateEmployees \/ RemovePositions
    \/ BackfillBudgetItemsPositions \/ ResetPositionsAndDependencies
    \/ SeedDefaultPositionsAndMapBudgetItems
    \/ DropPayments \/ RefactorPaymentsToAggregateByReference \/ AddEventNumberToEvents
    \/ AddSignerTypeAndFixSignatureDates \/ FixSwappedSignatureDocuments
    \/ ConvertBudgetDayFieldsToArrays \/ ConvertBudgetDisplacementFeeToArray
    \/ ConvertBudgetDiscountFieldsToArrays \/ RemoveDiscountsOfDays
    \/ AddStructuredAddressToLeads \/ RemoveStaffSlotsForSupplyItems

-----------------------------------------------------------------------------
(* What the application writes, each release in a form of its own: it knows *)
(* the schema that its migrations make.  A run locks the tables it changes,  *)
(* so what is written meanwhile is written before it or after it.            *)

Knows(m) == m \in FilesOf(release)

Serve(d) ==
    /\ ~ Running
    /\ db' = d
    /\ UNCHANGED <<release, pending, saved>>

\* An operator gives an employee a position.
AssignPosition ==
    \E e \in Employees, p \in db.positions :
        /\ Knows("CreatePositionsAndRelateEmployees")
        /\ "employees.idtb_positions" \in db.schema
        /\ db.employees[e].position # p
        /\ Serve([db EXCEPT !.employees[e].position = p])

\* A payment is created with its items by a release that has items, which fails
\* where there are none yet.  An earlier one creates it without, even where there
\* are: the columns of Refactor... that it does not name may be null.
AddPayment ==
    \E p \in Payments :
        /\ Knows("CreatePaymentsTable") /\ "payments" \in db.schema
        /\ db.payments[p] = "absent"
        /\ \/ /\ Knows("RefactorPaymentsToAggregateByReference")
              /\ "payment_items" \in db.schema
              /\ Serve([db EXCEPT !.payments[p] = "itemized"])
           \/ /\ ~ Knows("RefactorPaymentsToAggregateByReference")
              /\ Serve([db EXCEPT !.payments[p] = "bare"])

\* An event gets the number of those that have one, plus one.  The number may
\* not be null: a release that gives none fails where there are numbers.
AddEvent ==
    /\ Len(db.events) < MaxEvents
    /\ Knows("AddEventNumberToEvents") <=> "events.event_number" \in db.schema
    /\ Serve([db EXCEPT !.events =
                Append(@, IF Knows("AddEventNumberToEvents")
                          THEN Cardinality({i \in DOMAIN @ : @[i] # None}) + 1 ELSE None)])

\* The last day of a budget is moved to where only that day is.
EditBudget ==
    /\ Knows("ConvertBudgetDayFieldsToArrays")
    /\ db.budget.location.each
    /\ db.days > 1
    /\ Serve([db EXCEPT !.budget.location.values = [i \in 1 .. db.days |->
                IF i = db.days THEN "elsewhere" ELSE "hall"]])

Next ==
    \/ \E r \in Releases : BeginRun(r) \/ Deploy(r)
    \/ Migrate
    \/ CommitRun \/ RollBack
    \/ AssignPosition \/ AddPayment \/ AddEvent \/ EditBudget

Spec == Init /\ [][Next]_vars

-----------------------------------------------------------------------------

\* The schema that the migrations a database has had make.
Expected ==
    LET applied == ToSet(db.applied)
    IN  (BaseSchema \cup UNION {Added(m) : m \in applied}) \ UNION {Dropped(m) : m \in applied}

\* What the down of a migration takes, although its up has not given it, or does
\* not give back: the column of two migrations, and Unrestored.
TakenBack(m) == IF m = "EnsureBudgetItemsPositionReference" THEN Added(m)
            ELSE IF m \in Unrestored THEN Dropped(m)
            ELSE {}

\* The schema is the one that the migrations a database has had make, through
\* runs of earlier and later releases in whatever order that makes, failures and
\* reverts.  It differs only in labels of enumerations, which stay, and in what
\* the down of three migrations takes, until these are run again: with them it
\* does not differ.  So a release that is deployed again after a revert may lack
\* a column (README, "sem risco de drift de schema").
DriftConfined ==
    /\ db.schema \ Expected \subseteq Kept
    /\ Expected \ db.schema \subseteq
         UNION {TakenBack(m) : m \in FilesOf(Len(Files)) \ ToSet(db.applied)}

\* A payment without items where there are items.
WithoutItems(p) == "payment_items" \in db.schema /\ db.payments[p] = "bare"

\* What a migration fills in and what the application writes fit together,
\* through failures, reverts and whatever was entered meanwhile.  Once there are
\* items, a payment is without only if a release that knows none has just
\* created it, between the run of the migrations and the deployment: none that
\* was there before stays without, and none loses what it has.  Events are
\* numbered 1, 2, 3, ... in the order of their creation
\* (RefactorPaymentsToAggregateByReference, AddEventNumberToEvents).
BackfillsMeet ==
    /\ []("events.event_number" \in db.schema =>
             \A i \in DOMAIN db.events : db.events[i] = i)
    /\ [][\A p \in Payments :
             WithoutItems(p)' /\ ~ WithoutItems(p) =>
               /\ db.payments[p] = "absent"
               /\ ~ Knows("RefactorPaymentsToAggregateByReference")]_vars

\* How often the rows of the contract hold a value.
Count(d, column, v) ==
    Cardinality({x \in [row : DOMAIN d.signatures, party : {"client", "company"}] :
                   d.signatures[x.row][column][x.party] = v})

\* The value of the first day; no percentage, no fee and none are the same.
FirstDay(field) ==
    IF field.values = <<>> \/ field.values[1] \in {None, "0", ""} THEN None ELSE field.values[1]

\* The word that says what an employee is employed as.
WordOf(employee) ==
    IF employee.position # None THEN employee.position.word
    ELSE IF employee.text # None THEN employee.text[1] ELSE ""

\* Neither a migration nor its reversal loses what it converts: dates and
\* documents of signatures are exchanged, not copied; the first day keeps the
\* values of a budget; an employee's position outlasts its way from a text to a
\* table and back; nobody who is assigned to an event is removed.
NothingLost ==
    [][Len(db'.applied) # Len(db.applied) =>
         /\ \A row \in Envelopes, column \in {"date", "document"}, party \in {"client", "company"} :
              LET v == db.signatures[row][column][party]
              IN  Count(db', column, v) = Count(db, column, v)
         /\ \A f \in DOMAIN db.budget : FirstDay(db'.budget[f]) = FirstDay(db.budget[f])
         /\ \A s \in db.slots : s.taken => s \in db'.slots
         /\ \/ "ResetPositionsAndDependencies" \in ToSet(db'.applied) \cup ToSet(db.applied)
            \/ \A e \in Employees :
                 LET word == WordOf(db.employees[e])
                 IN  word \notin {"", NoPosition[1]} => WordOf(db'.employees[e]) = word
      ]_vars

=============================================================================
