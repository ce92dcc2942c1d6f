--------------------------- MODULE SchemaProofs -----------------------------
(***************************************************************************)
(* What migrations fill in and what the application writes fit together,   *)
(* the schema of a database differs from the one that its migrations make  *)
(* only in what is known to be kept or not restored, and what migrations   *)
(* convert is kept, for every set of releases and of databases.            *)
(***************************************************************************)
EXTENDS SchemaMigrations, FiniteSetTheorems, SequenceTheorems, TLAPS

-----------------------------------------------------------------------------
(* What migrations add and drop *)

Column == "budget_items.idtb_positions"
NotNull == "employees.idtb_positions not null"
TypeEnum == "budgets.discount_type enum"

\* Read off the tables.
LEMMA AddsTable ==
    /\ DOMAIN Adds =
         {"AddEventTimesToBudgets", "AddClosedWithoutSignatureContractStatus",
          "CreatePositionsAndRelateEmployees", "AddPositionsToUserPageAccessEnum",
          "AddGenderToEmployees", "AddPositionReferenceToBudgetItems",
          "EnsureBudgetItemsPositionReference", "AddDiscountPercentageToBudgets",
          "AddDiscountTypeAndAmountToBudgets", "AddOvertimeMinutesToEvents",
          "CreatePaymentsTable", "RefactorPaymentsToAggregateByReference",
          "AddEventNumberToEvents", "AddPaymentsToUserPageAccessEnum",
          "AddServiceGenderToBudgetItems", "AddSignerTypeAndFixSignatureDates",
          "CreateCompanyProfileTable", "CreatePublicIntakeCodesTable",
          "AddEventDateIndexToBudgetItems", "AddLegalNameAndAddressToLeads",
          "CreateSuppliesTable", "AddSuppliesToUserPageAccessEnum",
          "AddItemTypeAndSupplyToBudgetItems", "AddStructuredAddressToLeads",
          "AddOvertimeRatesAndExtraExpensesToEvents"}
    /\ Adds.AddEventTimesToBudgets =
             {"budgets.event_arrival_times", "budgets.event_departure_times"}
    /\ Adds.AddClosedWithoutSignatureContractStatus =
             {"contracts_status.closed_without_signature"}
    /\ Adds.CreatePositionsAndRelateEmployees =
             {"positions", "employees.idtb_positions", NotNull}
    /\ Adds.AddPositionsToUserPageAccessEnum = {"page_key.POSITIONS"}
    /\ Adds.AddGenderToEmployees = {"employees.gender", "employees.gender not null"}
    /\ Adds.AddPositionReferenceToBudgetItems = {Column}
    /\ Adds.EnsureBudgetItemsPositionReference = {Column}
    /\ Adds.AddDiscountPercentageToBudgets = {"budgets.discount_percentage"}
    /\ Adds.AddDiscountTypeAndAmountToBudgets =
             {"budgets.discount_type", TypeEnum, "budgets.discount_amount"}
    /\ Adds.AddOvertimeMinutesToEvents = {"events.overtime_minutes"}
    /\ Adds.CreatePaymentsTable =
             {"payments", "payments_origin_enum", "payments_status_enum"}
    /\ Adds.RefactorPaymentsToAggregateByReference =
             {"payments.idtb_events", "payment_items"}
    /\ Adds.AddEventNumberToEvents = {"events.event_number"}
    /\ Adds.AddPaymentsToUserPageAccessEnum = {"page_key.PAYMENTS"}
    /\ Adds.AddServiceGenderToBudgetItems = {"budget_items.service_gender"}
    /\ Adds.AddSignerTypeAndFixSignatureDates = {"signatures.signer_type"}
    /\ Adds.CreateCompanyProfileTable = {"company_profile"}
    /\ Adds.CreatePublicIntakeCodesTable = {"public_intake_codes"}
    /\ Adds.AddEventDateIndexToBudgetItems = {"budget_items.event_date_index"}
    /\ Adds.AddLegalNameAndAddressToLeads =
             {"leads.legal_name", "leads.address", "leads.address_city",
              "leads.address_state", "leads.address_zip_code"}
    /\ Adds.CreateSuppliesTable = {"supplies"}
    /\ Adds.AddSuppliesToUserPageAccessEnum = {"page_key.SUPPLIES"}
    /\ Adds.AddItemTypeAndSupplyToBudgetItems =
             {"budget_items.item_type", "budget_items.idtb_supplies",
              "budget_items.unit"}
    /\ Adds.AddStructuredAddressToLeads =
             {"leads.address_street", "leads.address_number",
              "leads.address_complement", "leads.address_neighborhood"}
    /\ Adds.AddOvertimeRatesAndExtraExpensesToEvents =
             {"events.overtime_hourly_rate", "events.extra_expenses",
              "event_assignments.overtime_hourly_payment"}
  BY DEF Adds, Column, NotNull, TypeEnum, AddEventTimesToBudgets,
     AddClosedWithoutSignatureContractStatus, AddPositionsToUserPageAccessEnum,
     AddGenderToEmployees, AddPositionReferenceToBudgetItems,
     EnsureBudgetItemsPositionReference, AddDiscountPercentageToBudgets,
     AddDiscountTypeAndAmountToBudgets, AddOvertimeMinutesToEvents,
     CreatePaymentsTable, AddPaymentsToUserPageAccessEnum,
     AddServiceGenderToBudgetItems, CreateCompanyProfileTable,
     CreatePublicIntakeCodesTable, AddEventDateIndexToBudgetItems,
     AddLegalNameAndAddressToLeads, CreateSuppliesTable,
     AddSuppliesToUserPageAccessEnum, AddItemTypeAndSupplyToBudgetItems,
     AddOvertimeRatesAndExtraExpensesToEvents

LEMMA DropsTable ==
    /\ DOMAIN Drops =
         {"MakeEmployeeDocumentNullable", "StandardizeTimestampsWithoutTimezone",
          "CreatePositionsAndRelateEmployees", "MakeEmployeeGenderNullable",
          "ResetPositionsAndDependencies", "ConvertBudgetDiscountFieldsToArrays"}
    /\ Drops.MakeEmployeeDocumentNullable = {"employees.document not null"}
    /\ Drops.StandardizeTimestampsWithoutTimezone = StandardizeTimestampsWithoutTimezone
    /\ Drops.CreatePositionsAndRelateEmployees = {"employees.position"}
    /\ Drops.MakeEmployeeGenderNullable = {"employees.gender not null"}
    /\ Drops.ResetPositionsAndDependencies = {NotNull}
    /\ Drops.ConvertBudgetDiscountFieldsToArrays = {TypeEnum}
  BY DEF Drops, MakeEmployeeGenderNullable, NotNull, TypeEnum

\* A label and the migration that adds it, or drops it.
AddedFrom(m, l) ==
    \/ /\ m = "AddEventTimesToBudgets"
       /\ l \in {"budgets.event_arrival_times", "budgets.event_departure_times"}
    \/ /\ m = "AddClosedWithoutSignatureContractStatus"
       /\ l = "contracts_status.closed_without_signature"
    \/ /\ m = "CreatePositionsAndRelateEmployees"
       /\ l \in {"positions", "employees.idtb_positions", NotNull}
    \/ m = "AddPositionsToUserPageAccessEnum" /\ l = "page_key.POSITIONS"
    \/ m = "AddGenderToEmployees" /\ l \in {"employees.gender", "employees.gender not null"}
    \/ m = "AddPositionReferenceToBudgetItems" /\ l = Column
    \/ m = "EnsureBudgetItemsPositionReference" /\ l = Column
    \/ m = "AddDiscountPercentageToBudgets" /\ l = "budgets.discount_percentage"
    \/ /\ m = "AddDiscountTypeAndAmountToBudgets"
       /\ l \in {"budgets.discount_type", TypeEnum, "budgets.discount_amount"}
    \/ m = "AddOvertimeMinutesToEvents" /\ l = "events.overtime_minutes"
    \/ /\ m = "CreatePaymentsTable"
       /\ l \in {"payments", "payments_origin_enum", "payments_status_enum"}
    \/ /\ m = "RefactorPaymentsToAggregateByReference"
       /\ l \in {"payments.idtb_events", "payment_items"}
    \/ m = "AddEventNumberToEvents" /\ l = "events.event_number"
    \/ m = "AddPaymentsToUserPageAccessEnum" /\ l = "page_key.PAYMENTS"
    \/ m = "AddServiceGenderToBudgetItems" /\ l = "budget_items.service_gender"
    \/ m = "AddSignerTypeAndFixSignatureDates" /\ l = "signatures.signer_type"
    \/ m = "CreateCompanyProfileTable" /\ l = "company_profile"
    \/ m = "CreatePublicIntakeCodesTable" /\ l = "public_intake_codes"
    \/ m = "AddEventDateIndexToBudgetItems" /\ l = "budget_items.event_date_index"
    \/ /\ m = "AddLegalNameAndAddressToLeads"
       /\ l \in {"leads.legal_name", "leads.address", "leads.address_city",
                "leads.address_state", "leads.address_zip_code"}
    \/ m = "CreateSuppliesTable" /\ l = "supplies"
    \/ m = "AddSuppliesToUserPageAccessEnum" /\ l = "page_key.SUPPLIES"
    \/ /\ m = "AddItemTypeAndSupplyToBudgetItems"
       /\ l \in {"budget_items.item_type", "budget_items.idtb_supplies",
                "budget_items.unit"}
    \/ /\ m = "AddStructuredAddressToLeads"
       /\ l \in {"leads.address_street", "leads.address_number",
                "leads.address_complement", "leads.address_neighborhood"}
    \/ /\ m = "AddOvertimeRatesAndExtraExpensesToEvents"
       /\ l \in {"events.overtime_hourly_rate", "events.extra_expenses",
                "event_assignments.overtime_hourly_payment"}

DroppedFrom(m, l) ==
    \/ m = "MakeEmployeeDocumentNullable" /\ l = "employees.document not null"
    \/ m = "StandardizeTimestampsWithoutTimezone" /\ l \in StandardizeTimestampsWithoutTimezone
    \/ m = "CreatePositionsAndRelateEmployees" /\ l = "employees.position"
    \/ m = "MakeEmployeeGenderNullable" /\ l = "employees.gender not null"
    \/ m = "ResetPositionsAndDependencies" /\ l = NotNull
    \/ m = "ConvertBudgetDiscountFieldsToArrays" /\ l = TypeEnum

LEMMA AddedLabels == ASSUME NEW m, NEW l, l \in Added(m) PROVE AddedFrom(m, l)
  <1> USE AddsTable DEF Added, AddedFrom
  <1>1. CASE m = "AddEventTimesToBudgets" BY <1>1
  <1>2. CASE m = "AddClosedWithoutSignatureContractStatus" BY <1>2
  <1>3. CASE m = "CreatePositionsAndRelateEmployees" BY <1>3
  <1>4. CASE m = "AddPositionsToUserPageAccessEnum" BY <1>4
  <1>5. CASE m = "AddGenderToEmployees" BY <1>5
  <1>6. CASE m = "AddPositionReferenceToBudgetItems" BY <1>6
  <1>7. CASE m = "EnsureBudgetItemsPositionReference" BY <1>7
  <1>8. CASE m = "AddDiscountPercentageToBudgets" BY <1>8
  <1>9. CASE m = "AddDiscountTypeAndAmountToBudgets" BY <1>9
  <1>10. CASE m = "AddOvertimeMinutesToEvents" BY <1>10
  <1>11. CASE m = "CreatePaymentsTable" BY <1>11
  <1>12. CASE m = "RefactorPaymentsToAggregateByReference" BY <1>12
  <1>13. CASE m = "AddEventNumberToEvents" BY <1>13
  <1>14. CASE m = "AddPaymentsToUserPageAccessEnum" BY <1>14
  <1>15. CASE m = "AddServiceGenderToBudgetItems" BY <1>15
  <1>16. CASE m = "AddSignerTypeAndFixSignatureDates" BY <1>16
  <1>17. CASE m = "CreateCompanyProfileTable" BY <1>17
  <1>18. CASE m = "CreatePublicIntakeCodesTable" BY <1>18
  <1>19. CASE m = "AddEventDateIndexToBudgetItems" BY <1>19
  <1>20. CASE m = "AddLegalNameAndAddressToLeads" BY <1>20
  <1>21. CASE m = "CreateSuppliesTable" BY <1>21
  <1>22. CASE m = "AddSuppliesToUserPageAccessEnum" BY <1>22
  <1>23. CASE m = "AddItemTypeAndSupplyToBudgetItems" BY <1>23
  <1>24. CASE m = "AddStructuredAddressToLeads" BY <1>24
  <1>25. CASE m = "AddOvertimeRatesAndExtraExpensesToEvents" BY <1>25
  <1> QED
    BY <1>1, <1>2, <1>3, <1>4, <1>5, <1>6, <1>7, <1>8, <1>9, <1>10, <1>11, <1>12, <1>13,
       <1>14, <1>15, <1>16, <1>17, <1>18, <1>19, <1>20, <1>21, <1>22, <1>23, <1>24,
       <1>25

LEMMA DroppedLabels == ASSUME NEW m, NEW l, l \in Dropped(m) PROVE DroppedFrom(m, l)
  BY DropsTable DEF Dropped, DroppedFrom

\* Few labels are those of two migrations: a column is added twice, and what one
\* migration adds another drops.
LEMMA AddedByOne ==
    ASSUME NEW m, NEW n, NEW l, l \in Added(m), l \in Added(n), m # n
    PROVE  /\ l = Column
           /\ m \in {"AddPositionReferenceToBudgetItems", "EnsureBudgetItemsPositionReference"}
           /\ n \in {"AddPositionReferenceToBudgetItems", "EnsureBudgetItemsPositionReference"}
  <1>1. AddedFrom(m, l) /\ AddedFrom(n, l)
    BY AddedLabels
  <1> USE <1>1 DEF AddedFrom, Column, NotNull, TypeEnum
  <1>2. CASE m = "AddEventTimesToBudgets" BY <1>2
  <1>3. CASE m = "AddClosedWithoutSignatureContractStatus" BY <1>3
  <1>4. CASE m = "CreatePositionsAndRelateEmployees" BY <1>4
  <1>5. CASE m = "AddPositionsToUserPageAccessEnum" BY <1>5
  <1>6. CASE m = "AddGenderToEmployees" BY <1>6
  <1>7. CASE m = "AddPositionReferenceToBudgetItems" BY <1>7
  <1>8. CASE m = "EnsureBudgetItemsPositionReference" BY <1>8
  <1>9. CASE m = "AddDiscountPercentageToBudgets" BY <1>9
  <1>10. CASE m = "AddDiscountTypeAndAmountToBudgets" BY <1>10
  <1>11. CASE m = "AddOvertimeMinutesToEvents" BY <1>11
  <1>12. CASE m = "CreatePaymentsTable" BY <1>12
  <1>13. CASE m = "RefactorPaymentsToAggregateByReference" BY <1>13
  <1>14. CASE m = "AddEventNumberToEvents" BY <1>14
  <1>15. CASE m = "AddPaymentsToUserPageAccessEnum" BY <1>15
  <1>16. CASE m = "AddServiceGenderToBudgetItems" BY <1>16
  <1>17. CASE m = "AddSignerTypeAndFixSignatureDates" BY <1>17
  <1>18. CASE m = "CreateCompanyProfileTable" BY <1>18
  <1>19. CASE m = "CreatePublicIntakeCodesTable" BY <1>19
  <1>20. CASE m = "AddEventDateIndexToBudgetItems" BY <1>20
  <1>21. CASE m = "AddLegalNameAndAddressToLeads" BY <1>21
  <1>22. CASE m = "CreateSuppliesTable" BY <1>22
  <1>23. CASE m = "AddSuppliesToUserPageAccessEnum" BY <1>23
  <1>24. CASE m = "AddItemTypeAndSupplyToBudgetItems" BY <1>24
  <1>25. CASE m = "AddStructuredAddressToLeads" BY <1>25
  <1>26. CASE m = "AddOvertimeRatesAndExtraExpensesToEvents" BY <1>26
  <1> QED
    BY <1>2, <1>3, <1>4, <1>5, <1>6, <1>7, <1>8, <1>9, <1>10, <1>11, <1>12, <1>13, <1>14,
       <1>15, <1>16, <1>17, <1>18, <1>19, <1>20, <1>21, <1>22, <1>23, <1>24, <1>25,
       <1>26

LEMMA DroppedByOne ==
    ASSUME NEW m, NEW n, NEW l, l \in Dropped(m), l \in Dropped(n)
    PROVE  m = n
  <1>1. DroppedFrom(m, l) /\ DroppedFrom(n, l)
    BY DroppedLabels
  <1> QED
    BY <1>1 DEF DroppedFrom, StandardizeTimestampsWithoutTimezone, NotNull, TypeEnum

LaterDropped(m, n) ==
    \/ m = "AddGenderToEmployees" /\ n = "MakeEmployeeGenderNullable"
    \/ m = "CreatePositionsAndRelateEmployees" /\ n = "ResetPositionsAndDependencies"
    \/ /\ m = "AddDiscountTypeAndAmountToBudgets"
       /\ n = "ConvertBudgetDiscountFieldsToArrays"

LEMMA AddedThenDropped ==
    ASSUME NEW m, NEW n, NEW l, l \in Added(m), l \in Dropped(n)
    PROVE  LaterDropped(m, n)
  <1>1. AddedFrom(m, l) /\ DroppedFrom(n, l)
    BY AddedLabels, DroppedLabels
  <1> QED
    BY <1>1 DEF AddedFrom, DroppedFrom, LaterDropped, StandardizeTimestampsWithoutTimezone,
       NotNull, Column, TypeEnum

LEMMA BaseNotAdded == ASSUME NEW m, NEW l, l \in Added(m) PROVE l \notin BaseSchema
  <1>1. AddedFrom(m, l)
    BY AddedLabels
  <1> QED
    BY <1>1 DEF AddedFrom, BaseSchema, StandardizeTimestampsWithoutTimezone, NotNull, Column,
       TypeEnum

LEMMA DroppedKnown ==
    ASSUME NEW m, NEW l, l \in Dropped(m)
    PROVE  \/ l \in BaseSchema
           \/ m = "MakeEmployeeGenderNullable" /\ l \in Added("AddGenderToEmployees")
           \/ m \in Unrestored
  <1>1. DroppedFrom(m, l)
    BY DroppedLabels
  <1>2. "employees.gender not null" \in Added("AddGenderToEmployees")
    BY AddsTable DEF Added
  <1> QED
    BY <1>1, <1>2 DEF DroppedFrom, BaseSchema, StandardizeTimestampsWithoutTimezone,
       Unrestored

-----------------------------------------------------------------------------
(* The order of four pairs *)

Pairing ==
    {<<"CreatePositionsAndRelateEmployees", "ResetPositionsAndDependencies">>,
     <<"AddGenderToEmployees", "MakeEmployeeGenderNullable">>,
     <<"AddPositionReferenceToBudgetItems", "EnsureBudgetItemsPositionReference">>,
     <<"AddDiscountTypeAndAmountToBudgets", "ConvertBudgetDiscountFieldsToArrays">>}

LEMMA FilesAt ==
    /\ Len(Files) = 36 /\ DOMAIN Files = 1 .. 36
    /\ Files[5] = "CreatePositionsAndRelateEmployees"
    /\ Files[7] = "AddGenderToEmployees"
    /\ Files[8] = "MakeEmployeeGenderNullable"
    /\ Files[9] = "AddPositionReferenceToBudgetItems"
    /\ Files[10] = "EnsureBudgetItemsPositionReference"
    /\ Files[12] = "ResetPositionsAndDependencies"
    /\ Files[15] = "AddDiscountTypeAndAmountToBudgets"
    /\ Files[29] = "ConvertBudgetDiscountFieldsToArrays"
  BY DEF Files

LEMMA FilesOnce ==
    \A i \in 1 .. 36 :
      /\ Files[i] = "CreatePositionsAndRelateEmployees" => i = 5
      /\ Files[i] = "AddGenderToEmployees" => i = 7
      /\ Files[i] = "MakeEmployeeGenderNullable" => i = 8
      /\ Files[i] = "AddPositionReferenceToBudgetItems" => i = 9
      /\ Files[i] = "EnsureBudgetItemsPositionReference" => i = 10
      /\ Files[i] = "ResetPositionsAndDependencies" => i = 12
      /\ Files[i] = "AddDiscountTypeAndAmountToBudgets" => i = 15
      /\ Files[i] = "ConvertBudgetDiscountFieldsToArrays" => i = 29
  BY DEF Files

LEMMA PairsRanked ==
    \A p \in Pairing : ~ Rank[p[2]] <= Rank[p[1]]
  <1>1. \A m \in FilesOf(36) : m # "AddSignerTypeAndFixSignatureDates" =>
           Rank[m] = CHOOSE i \in 1 .. 36 : Files[i] = m
    BY FilesAt DEF Rank, Place
  <1>2. /\ Rank["CreatePositionsAndRelateEmployees"] = 5
        /\ Rank["AddGenderToEmployees"] = 7
        /\ Rank["MakeEmployeeGenderNullable"] = 8
        /\ Rank["AddPositionReferenceToBudgetItems"] = 9
        /\ Rank["EnsureBudgetItemsPositionReference"] = 10
        /\ Rank["ResetPositionsAndDependencies"] = 12
        /\ Rank["AddDiscountTypeAndAmountToBudgets"] = 15
        /\ Rank["ConvertBudgetDiscountFieldsToArrays"] = 29
    BY <1>1, FilesAt, FilesOnce DEF FilesOf
  <1> QED
    BY <1>2 DEF Pairing

LEMMA PairsTogether ==
    ASSUME NEW r \in 0 .. 36, NEW p \in Pairing, p[2] \in FilesOf(r)
    PROVE  p[1] \in FilesOf(r)
  <1>1. PICK i \in 1 .. r : Files[i] = p[2]
    BY DEF FilesOf
  <1>2. i \in 1 .. 36
    OBVIOUS
  <1> QED
    BY <1>1, <1>2, FilesAt, FilesOnce DEF Pairing, FilesOf

-----------------------------------------------------------------------------
(* The labels of payments and events *)

\* The labels that the two migrations which fill data in add to the schema.
Items == "RefactorPaymentsToAggregateByReference"
Numbers == "AddEventNumberToEvents"
Labels == {"payment_items", "events.event_number"}

\* No other migration adds them, and none drops them or gives them back.
LEMMA LabelsAdded ==
    /\ \A m : Added(m) \cap Labels # {} => m \in {Items, Numbers}
    /\ Added(Items) \cap Labels = {"payment_items"}
    /\ Added(Numbers) \cap Labels = {"events.event_number"}
  <1>1. ASSUME NEW m, NEW l \in Labels, l \in Added(m) PROVE m \in {Items, Numbers}
    <2>1. AddedFrom(m, l)
      BY <1>1, AddedLabels
    <2> QED
      BY <1>1, <2>1 DEF AddedFrom, Labels, Items, Numbers, Column, NotNull, TypeEnum
  <1>2. /\ Added(Items) \cap Labels = {"payment_items"}
        /\ Added(Numbers) \cap Labels = {"events.event_number"}
    BY AddsTable DEF Added, Labels, Items, Numbers
  <1> QED
    BY <1>1, <1>2

LEMMA LabelsStay ==
    /\ \A m : Dropped(m) \cap Labels = {} /\ Restored(m) \cap Labels = {}
    /\ Kept \cap Labels = {}
  <1>1. ASSUME NEW m, NEW l \in Labels, l \in Dropped(m) PROVE FALSE
    <2>1. DroppedFrom(m, l)
      BY <1>1, DroppedLabels
    <2> QED
      BY <1>1, <2>1 DEF DroppedFrom, Labels, StandardizeTimestampsWithoutTimezone, NotNull,
         TypeEnum
  <1>2. Kept \cap Labels = {}
    BY DEF Labels, Kept, AddClosedWithoutSignatureContractStatus,
       AddPositionsToUserPageAccessEnum, AddPaymentsToUserPageAccessEnum,
       AddSuppliesToUserPageAccessEnum
  <1> QED
    BY <1>1, <1>2 DEF Restored

-----------------------------------------------------------------------------
(* What is in a database *)

Record(d) == d = [f \in Fields |-> d[f]]

Statuses == {"absent", "bare", "itemized"}

\* An event has the number of its rank or none; once there are numbers, it has
\* one.
Ranked(d) ==
    /\ \A i \in DOMAIN d.events : d.events[i] \in {None, i}
    /\ "events.event_number" \in d.schema => \A i \in DOMAIN d.events : d.events[i] = i

Fits(d) ==
    /\ Record(d)
    /\ d.payments \in [DOMAIN d.payments -> Statuses]
    /\ d.events \in Seq(Nat \cup {None})
    /\ Ranked(d)

\* Inductive: what is there fits, and so does what a failed run goes back to.
BackfillInv == Fits(db) /\ (Running => Fits(saved))

LEMMA BackfillInit == Init => BackfillInv
  <1> SUFFICES ASSUME Init PROVE BackfillInv
    OBVIOUS
  <1>1. /\ Record(db) /\ db.schema = BaseSchema
        /\ db.payments \in [DOMAIN db.payments -> {"absent"}]
        /\ db.events \in Seq({None})
    BY DatabasesAssumption DEF Init, Record
  <1>2. BaseSchema \cap Labels = {}
    BY DEF BaseSchema, StandardizeTimestampsWithoutTimezone, Labels
  <1>3. Ranked(db)
    BY <1>1, <1>2 DEF Ranked, Labels
  <1>4. /\ db.payments \in [DOMAIN db.payments -> Statuses]
        /\ db.events \in Seq(Nat \cup {None})
    BY <1>1 DEF Statuses
  <1> QED
    BY <1>1, <1>3, <1>4 DEF Init, BackfillInv, Fits, Running

\* Changing one field leaves the others.
LEMMA FieldChange ==
    ASSUME NEW d, Record(d), NEW x \in Fields, NEW v
    PROVE  LET e == [d EXCEPT ![x] = v] IN
           /\ Record(e) /\ e[x] = v
           /\ \A f \in Fields : f # x => e[f] = d[f]
  BY DEF Record

\* The data that the migrations of payments and events work on.
SameBackfills(d) ==
    /\ Record(d) /\ d.schema = db.schema /\ d.applied = db.applied
    /\ d.payments = db.payments /\ d.events = db.events

LEMMA NothingChanged == ASSUME BackfillInv PROVE SameBackfills(db)
  BY DEF BackfillInv, Fits, SameBackfills

\* A step that makes the database d, with a schema of its own.
LEMMA UpMakes ==
    ASSUME NEW m, NEW d, Record(d), Up(m, d)
    PROVE  /\ Record(db') /\ db'.payments = d.payments /\ db'.events = d.events
           /\ db'.schema = (d.schema \cup Added(m)) \ Dropped(m)
           /\ db'.applied = Append(d.applied, m)
           /\ \A f \in Fields \ {"schema", "applied"} : db'[f] = d[f]
           /\ saved' = saved
  <1> DEFINE schema == (d.schema \cup Added(m)) \ Dropped(m)
             applied == Append(d.applied, m)
  <1>1. db' = [[d EXCEPT !["schema"] = schema] EXCEPT !["applied"] = applied]
    BY DEF Up, Record, Fields
  <1> HIDE DEF schema, applied
  <1>2. /\ Record(db') /\ db'["payments"] = d["payments"] /\ db'["events"] = d["events"]
        /\ db'["schema"] = schema /\ db'["applied"] = applied
        /\ \A f \in Fields \ {"schema", "applied"} : db'[f] = d[f]
    BY <1>1 DEF Record, Fields
  <1> QED
    BY <1>2 DEF schema, applied, Up

LEMMA DownMakes ==
    ASSUME NEW m, NEW d, Record(d), Down(m, d)
    PROVE  /\ Record(db') /\ db'.payments = d.payments /\ db'.events = d.events
           /\ db'.schema = (d.schema \ (Added(m) \ Kept)) \cup Restored(m)
           /\ db'.applied = Front(d.applied)
           /\ \A f \in Fields \ {"schema", "applied"} : db'[f] = d[f]
           /\ saved' = saved
  <1> DEFINE schema == (d.schema \ (Added(m) \ Kept)) \cup Restored(m)
             applied == Front(d.applied)
  <1>1. db' = [[d EXCEPT !["schema"] = schema] EXCEPT !["applied"] = applied]
    BY DEF Down, Record, Fields
  <1> HIDE DEF schema, applied
  <1>2. /\ Record(db') /\ db'["payments"] = d["payments"] /\ db'["events"] = d["events"]
        /\ db'["schema"] = schema /\ db'["applied"] = applied
        /\ \A f \in Fields \ {"schema", "applied"} : db'[f] = d[f]
    BY <1>1 DEF Record, Fields
  <1> QED
    BY <1>2 DEF schema, applied, Down

\* Other migrations, run or reverted, leave what fits.
LEMMA QuietMigration ==
    ASSUME BackfillInv, NEW m, m \notin {Items, Numbers}, NEW d, SameBackfills(d),
           Up(m, d) \/ Down(m, d)
    PROVE  BackfillInv'
  <1>1. /\ Record(db') /\ db'.payments = db.payments /\ db'.events = db.events
        /\ db'.schema \cap Labels = db.schema \cap Labels
        /\ saved' = saved
    <2>1. CASE Up(m, d)
      BY <2>1, UpMakes, LabelsAdded, LabelsStay DEF SameBackfills
    <2>2. CASE Down(m, d)
      BY <2>2, DownMakes, LabelsAdded, LabelsStay DEF SameBackfills
    <2> QED
      BY <2>1, <2>2
  <1>2. "events.event_number" \in db'.schema <=> "events.event_number" \in db.schema
    BY <1>1 DEF Labels
  <1>3. Fits(db')
    BY <1>1, <1>2 DEF BackfillInv, Fits, Ranked
  <1> QED
    BY <1>1, <1>3 DEF BackfillInv, Running

-----------------------------------------------------------------------------
(* Payments and events *)

LEMMA PaymentsMigrate ==
    ASSUME BackfillInv, RefactorPaymentsToAggregateByReference
    PROVE  BackfillInv'
  <1> DEFINE Become(old, new) == [p \in Payments |-> IF db.payments[p] = old THEN new
                                                     ELSE db.payments[p]]
             more == Become("bare", "itemized")
             less == Become("itemized", "bare")
  <1>1. /\ more \in [Payments -> Statuses]
        /\ less \in [Payments -> Statuses]
    BY DEF BackfillInv, Fits, Statuses, Payments
  <1>2. \/ Up(Items, [db EXCEPT !.payments = more])
        \/ Down(Items, [db EXCEPT !.payments = less])
    BY DEF RefactorPaymentsToAggregateByReference, Items
  <1> HIDE DEF more, less
  <1>3. ASSUME NEW v
        PROVE  LET d == [db EXCEPT !.payments = v] IN
               Record(d) /\ d.payments = v /\ d.events = db.events /\ d.schema = db.schema
    BY DEF BackfillInv, Fits, Record, Fields
  <1>4. Ranked(db) /\ db.events \in Seq(Nat \cup {None})
    BY DEF BackfillInv, Fits
  <1>5. CASE Up(Items, [db EXCEPT !.payments = more])
    <2> DEFINE d == [db EXCEPT !.payments = more]
    <2>1. Record(d) /\ d.payments = more /\ d.events = db.events /\ d.schema = db.schema
      BY <1>3
    <2>2. Up(Items, d)
      BY <1>5
    <2> HIDE DEF d
    <2>3. /\ Record(db') /\ db'.payments = more /\ db'.events = db.events
          /\ "events.event_number" \in db'.schema => "events.event_number" \in db.schema
          /\ saved' = saved
      BY <2>1, <2>2, UpMakes, LabelsAdded DEF Labels
    <2>4. Fits(db')
      BY <1>1, <1>4, <2>3 DEF Fits, Ranked
    <2> QED
      BY <2>3, <2>4 DEF BackfillInv, Running
  <1>6. CASE Down(Items, [db EXCEPT !.payments = less])
    <2> DEFINE d == [db EXCEPT !.payments = less]
    <2>1. Record(d) /\ d.payments = less /\ d.events = db.events /\ d.schema = db.schema
      BY <1>3
    <2>2. Down(Items, d)
      BY <1>6
    <2> HIDE DEF d
    <2>3. /\ Record(db') /\ db'.payments = less /\ db'.events = db.events
          /\ "events.event_number" \in db'.schema => "events.event_number" \in db.schema
          /\ saved' = saved
      BY <2>1, <2>2, DownMakes, LabelsAdded, LabelsStay DEF Labels
    <2>4. Fits(db')
      BY <1>1, <1>4, <2>3 DEF Fits, Ranked
    <2> QED
      BY <2>3, <2>4 DEF BackfillInv, Running
  <1> QED
    BY <1>2, <1>5, <1>6

LEMMA PaymentsDropped ==
    ASSUME BackfillInv, DropPayments
    PROVE  BackfillInv'
  <1> DEFINE none == [p \in Payments |-> "absent"]
             d == [db EXCEPT !.payments = none]
  <1>1. none \in [Payments -> Statuses]
    BY DEF Statuses
  <1>2. Down("CreatePaymentsTable", d)
    BY DEF DropPayments
  <1> HIDE DEF none
  <1>3. Record(d) /\ d.payments = none /\ d.events = db.events /\ d.schema = db.schema
    BY DEF BackfillInv, Fits, Record, Fields
  <1> HIDE DEF d
  <1>4. /\ Record(db') /\ db'.payments = none /\ db'.events = db.events
        /\ "events.event_number" \in db'.schema => "events.event_number" \in db.schema
        /\ saved' = saved
    BY <1>2, <1>3, DownMakes, LabelsStay DEF Labels
  <1>5. Fits(db')
    BY <1>1, <1>4 DEF BackfillInv, Fits, Ranked
  <1> QED
    BY <1>4, <1>5 DEF BackfillInv, Running

LEMMA EventsMigrate ==
    ASSUME BackfillInv, AddEventNumberToEvents
    PROVE  BackfillInv'
  <1> DEFINE ranks == [i \in DOMAIN db.events |->
                         IF db.events[i] = None THEN i ELSE db.events[i]]
             none  == [i \in DOMAIN db.events |-> None]
  <1>1. /\ db.events \in Seq(Nat \cup {None})
        /\ \A i \in DOMAIN db.events : db.events[i] \in {None, i} /\ i \in Nat
    BY DEF BackfillInv, Fits, Ranked
  <1>2. /\ ranks \in Seq(Nat \cup {None}) /\ \A i \in DOMAIN ranks : ranks[i] = i
        /\ none \in Seq(Nat \cup {None}) /\ \A i \in DOMAIN none : none[i] = None
    <2>1. PICK n \in Nat : db.events \in [1 .. n -> Nat \cup {None}]
      BY <1>1, SeqDef
    <2>2. /\ ranks \in [1 .. n -> Nat \cup {None}] /\ \A i \in 1 .. n : ranks[i] = i
          /\ none \in [1 .. n -> Nat \cup {None}] /\ \A i \in 1 .. n : none[i] = None
      BY <1>1, <2>1
    <2>3. \A s : s \in [1 .. n -> Nat \cup {None}] => s \in Seq(Nat \cup {None})
      BY SeqDef
    <2> HIDE DEF ranks, none
    <2> QED
      BY <2>2, <2>3
  <1>3. \/ Up(Numbers, [db EXCEPT !.events = ranks])
        \/ Down(Numbers, [db EXCEPT !.events = none])
    BY DEF AddEventNumberToEvents, Numbers
  <1> HIDE DEF ranks, none
  <1>4. ASSUME NEW v
        PROVE  LET d == [db EXCEPT !.events = v] IN
               Record(d) /\ d.events = v /\ d.payments = db.payments /\ d.schema = db.schema
    BY DEF BackfillInv, Fits, Record, Fields
  <1>5. db.payments \in [DOMAIN db.payments -> Statuses]
    BY DEF BackfillInv, Fits
  <1>6. CASE Up(Numbers, [db EXCEPT !.events = ranks])
    <2> DEFINE d == [db EXCEPT !.events = ranks]
    <2>1. Record(d) /\ d.events = ranks /\ d.payments = db.payments /\ d.schema = db.schema
      BY <1>4
    <2>2. Up(Numbers, d)
      BY <1>6
    <2> HIDE DEF d
    <2>3. /\ Record(db') /\ db'.events = ranks /\ db'.payments = db.payments
          /\ saved' = saved
      BY <2>1, <2>2, UpMakes, LabelsAdded DEF Labels
    <2>4. Fits(db')
      BY <1>2, <1>5, <2>3 DEF Fits, Ranked
    <2> QED
      BY <2>3, <2>4 DEF BackfillInv, Running
  <1>7. CASE Down(Numbers, [db EXCEPT !.events = none])
    <2> DEFINE d == [db EXCEPT !.events = none]
    <2>1. Record(d) /\ d.events = none /\ d.payments = db.payments /\ d.schema = db.schema
      BY <1>4
    <2>2. Down(Numbers, d)
      BY <1>7
    <2> HIDE DEF d
    <2>3. /\ Record(db') /\ db'.events = none /\ db'.payments = db.payments
          /\ "events.event_number" \notin db'.schema
          /\ saved' = saved
      BY <2>1, <2>2, DownMakes, LabelsAdded, LabelsStay DEF Labels
    <2>4. Fits(db')
      BY <1>2, <1>5, <2>3 DEF Fits, Ranked
    <2> QED
      BY <2>3, <2>4 DEF BackfillInv, Running
  <1> QED
    BY <1>3, <1>6, <1>7


LEMMA PaymentAdded ==
    ASSUME BackfillInv, AddPayment
    PROVE  BackfillInv'
  <1>1. PICK p \in Payments, status \in {"bare", "itemized"} :
          Serve([db EXCEPT !.payments[p] = status])
    BY DEF AddPayment
  <1> DEFINE more == [db.payments EXCEPT ![p] = status]
  <1>2. /\ db.payments \in [Payments -> Statuses] /\ Record(db)
        /\ Ranked(db) /\ db.events \in Seq(Nat \cup {None})
    BY DEF BackfillInv, Fits, Payments
  <1>3. more \in [Payments -> Statuses]
    BY <1>2 DEF Statuses, Payments
  <1>4. db' = [db EXCEPT !.payments = more] /\ saved' = saved
    BY <1>1 DEF Serve
  <1> HIDE DEF more
  <1>5. Record(db') /\ db'.payments = more /\ db'.events = db.events /\ db'.schema = db.schema
    BY <1>2, <1>4 DEF Record, Fields
  <1>6. Fits(db')
    BY <1>2, <1>3, <1>5 DEF Fits, Ranked
  <1> QED
    BY <1>4, <1>6 DEF BackfillInv, Running

\* If every event has the number of its rank, one more than there are numbers is
\* the rank of the next event.
LEMMA NextRank ==
    ASSUME BackfillInv, "events.event_number" \in db.schema
    PROVE  Cardinality({i \in DOMAIN db.events : db.events[i] # None}) = Len(db.events)
  <1>1. /\ db.events \in Seq(Nat \cup {None})
        /\ \A i \in DOMAIN db.events : db.events[i] = i
    BY DEF BackfillInv, Fits, Ranked
  <1>2. Len(db.events) \in Nat /\ DOMAIN db.events = 1 .. Len(db.events)
    BY <1>1, LenProperties
  <1>3. {i \in DOMAIN db.events : db.events[i] # None} = 1 .. Len(db.events)
    <2>1. ASSUME NEW i \in 1 .. Len(db.events) PROVE db.events[i] # None
      <3>1. db.events[i] \in Nat
        BY <1>1, <1>2, <2>1
      <3> QED
        BY <3>1, NoneAssumption, Zenon
    <2> QED
      BY <1>2, <2>1
  <1>4. ASSUME NEW n \in Nat PROVE Cardinality(1 .. n) = n
    <2>1. /\ 1 \in Int /\ n \in Int /\ (1 > n) = (n = 0) /\ n - 1 + 1 = n
      OBVIOUS
    <2>2. Cardinality(1 .. n) = IF 1 > n THEN 0 ELSE n - 1 + 1
      BY <2>1, FS_Interval, Zenon
    <2> QED
      BY <2>1, <2>2
  <1> QED
    BY <1>2, <1>3, <1>4

LEMMA EventAdded ==
    ASSUME BackfillInv, AddEvent
    PROVE  BackfillInv'
  <1> DEFINE n == Len(db.events)
             number == IF Knows(Numbers)
                       THEN Cardinality({i \in DOMAIN db.events : db.events[i] # None}) + 1
                       ELSE None
             more == Append(db.events, number)
  <1>1. /\ Record(db) /\ db.payments \in [DOMAIN db.payments -> Statuses]
        /\ db.events \in Seq(Nat \cup {None}) /\ Ranked(db)
    BY DEF BackfillInv, Fits
  <1>2. n \in Nat /\ DOMAIN db.events = 1 .. n
    BY <1>1, LenProperties
  <1>3. /\ "events.event_number" \in db.schema => number = n + 1
        /\ "events.event_number" \notin db.schema => number = None
    BY NextRank DEF AddEvent, Numbers
  <1>4. db' = [db EXCEPT !.events = more] /\ saved' = saved
    BY DEF AddEvent, Serve, Numbers
  <1> HIDE DEF number
  <1>5. number \in Nat \cup {None}
    BY <1>2, <1>3
  <1>6. /\ more \in Seq(Nat \cup {None}) /\ Len(more) = n + 1
        /\ \A i \in 1 .. n : more[i] = db.events[i]
        /\ more[n + 1] = number
    BY <1>1, <1>5, AppendProperties
  <1>7. DOMAIN more = 1 .. (n + 1)
    BY <1>6, LenProperties
  <1> HIDE DEF more, n
  <1>8. Record(db') /\ db'.events = more /\ db'.payments = db.payments /\ db'.schema = db.schema
    BY <1>1, <1>4 DEF Record, Fields
  <1>9. Ranked(db')
    <2>1. ASSUME NEW i \in 1 .. (n + 1)
          PROVE  /\ more[i] \in {None, i}
                 /\ "events.event_number" \in db.schema => more[i] = i
      <3>1. CASE i = n + 1
        BY <1>3, <1>6, <3>1
      <3>2. CASE i \in 1 .. n
        BY <1>1, <1>2, <1>6, <3>2 DEF Ranked
      <3> QED
        BY <1>2, <3>1, <3>2
    <2> QED
      BY <1>7, <1>8, <2>1 DEF Ranked
  <1>10. Fits(db')
    BY <1>1, <1>6, <1>8, <1>9 DEF Fits
  <1> QED
    BY <1>4, <1>10 DEF BackfillInv, Running

-----------------------------------------------------------------------------
(* Everything else *)

OtherFields == Fields \ {"schema", "applied", "payments", "events"}

LEMMA OneField ==
    ASSUME NEW d, SameBackfills(d), NEW x \in OtherFields, NEW v
    PROVE  SameBackfills([d EXCEPT ![x] = v])
  <1>1. {"schema", "applied", "payments", "events"} \subseteq Fields \ {x}
    BY DEF OtherFields, Fields
  <1>2. /\ Record([d EXCEPT ![x] = v])
        /\ \A f \in Fields \ {x} : [d EXCEPT ![x] = v][f] = d[f]
    BY FieldChange DEF SameBackfills, OtherFields
  <1> QED
    BY <1>1, <1>2 DEF SameBackfills

LEMMA TwoFields ==
    ASSUME BackfillInv, NEW x \in OtherFields, NEW y \in OtherFields, NEW v, NEW u
    PROVE  SameBackfills([[db EXCEPT ![x] = v] EXCEPT ![y] = u])
  BY NothingChanged, OneField

\* What the application writes elsewhere.
LEMMA ServedElsewhere ==
    ASSUME BackfillInv, NEW d, SameBackfills(d), Serve(d)
    PROVE  BackfillInv'
  BY DEF BackfillInv, SameBackfills, Serve, Running, Fits, Ranked

\* A migration of other data.
OtherMigration ==
    \E m, d : m \notin {Items, Numbers} /\ SameBackfills(d) /\ (Up(m, d) \/ Down(m, d))

LEMMA EmployeesElsewhere ==
    ASSUME BackfillInv,
           \/ ChangeSchema \/ MakeEmployeeDocumentNullable
           \/ CreatePositionsAndRelateEmployees \/ RemovePositions
    PROVE  OtherMigration
  <1>1. CASE ChangeSchema
    BY <1>1, NothingChanged DEF ChangeSchema, WithData, OtherMigration, Items, Numbers
  <1>2. CASE MakeEmployeeDocumentNullable
    <2>1. PICK v : \/ Up("MakeEmployeeDocumentNullable", [db EXCEPT !.employees = v])
                   \/ Down("MakeEmployeeDocumentNullable", [db EXCEPT !.employees = v])
      BY <1>2 DEF MakeEmployeeDocumentNullable
    <2>2. SameBackfills([db EXCEPT !["employees"] = v])
      BY NothingChanged, OneField DEF OtherFields, Fields
    <2> QED
      BY <2>1, <2>2 DEF OtherMigration, Items, Numbers
  <1>3. CASE CreatePositionsAndRelateEmployees
    <2>1. PICK v, u : Up("CreatePositionsAndRelateEmployees",
                         [db EXCEPT !.positions = v, !.employees = u])
      BY <1>3 DEF CreatePositionsAndRelateEmployees
    <2>2. SameBackfills([[db EXCEPT !["positions"] = v] EXCEPT !["employees"] = u])
      BY TwoFields DEF OtherFields, Fields
    <2> QED
      BY <2>1, <2>2 DEF OtherMigration, Items, Numbers
  <1>4. CASE RemovePositions
    <2>1. PICK v, u : Down("CreatePositionsAndRelateEmployees",
                           [db EXCEPT !.positions = v, !.employees = u])
      BY <1>4 DEF RemovePositions
    <2>2. SameBackfills([[db EXCEPT !["positions"] = v] EXCEPT !["employees"] = u])
      BY TwoFields DEF OtherFields, Fields
    <2> QED
      BY <2>1, <2>2 DEF OtherMigration, Items, Numbers
  <1> QED
    BY <1>1, <1>2, <1>3, <1>4

LEMMA PositionsElsewhere ==
    ASSUME BackfillInv,
           \/ BackfillBudgetItemsPositions \/ ResetPositionsAndDependencies
           \/ SeedDefaultPositionsAndMapBudgetItems
    PROVE  OtherMigration
  <1>1. CASE BackfillBudgetItemsPositions
    <2>1. PICK v, u : \/ Up("BackfillBudgetItemsPositions",
                            [db EXCEPT !.positions = v, !.items = u])
                      \/ Down("BackfillBudgetItemsPositions", db)
      BY <1>1 DEF BackfillBudgetItemsPositions
    <2>2. SameBackfills([[db EXCEPT !["positions"] = v] EXCEPT !["items"] = u])
      BY TwoFields DEF OtherFields, Fields
    <2> QED
      BY <2>1, <2>2, NothingChanged DEF OtherMigration, Items, Numbers
  <1>2. CASE ResetPositionsAndDependencies
    <2>1. PICK v, u, w : \/ Up("ResetPositionsAndDependencies",
                               [db EXCEPT !.positions = v, !.items = u, !.employees = w])
                         \/ Down("ResetPositionsAndDependencies", db)
      BY <1>2 DEF ResetPositionsAndDependencies
    <2> DEFINE d == [[db EXCEPT !["positions"] = v] EXCEPT !["items"] = u]
    <2>2. SameBackfills(d)
      BY TwoFields DEF OtherFields, Fields
    <2>3. SameBackfills([d EXCEPT !["employees"] = w])
      <3> HIDE DEF d
      <3> QED
        BY <2>2, OneField DEF OtherFields, Fields
    <2> QED
      BY <2>1, <2>3, NothingChanged DEF OtherMigration, Items, Numbers
  <1>3. CASE SeedDefaultPositionsAndMapBudgetItems
    <2>1. PICK v, u : \/ Up("SeedDefaultPositionsAndMapBudgetItems",
                            [db EXCEPT !.positions = v, !.items = u])
                      \/ Down("SeedDefaultPositionsAndMapBudgetItems",
                            [db EXCEPT !.positions = v, !.items = u])
      BY <1>3 DEF SeedDefaultPositionsAndMapBudgetItems
    <2>2. SameBackfills([[db EXCEPT !["positions"] = v] EXCEPT !["items"] = u])
      BY TwoFields DEF OtherFields, Fields
    <2> QED
      BY <2>1, <2>2 DEF OtherMigration, Items, Numbers
  <1> QED
    BY <1>1, <1>2, <1>3

LEMMA SignaturesElsewhere ==
    ASSUME BackfillInv,
           AddSignerTypeAndFixSignatureDates \/ FixSwappedSignatureDocuments
    PROVE  OtherMigration
  <1>1. ASSUME NEW v PROVE SameBackfills([db EXCEPT !["signatures"] = v])
    BY NothingChanged, OneField DEF OtherFields, Fields
  <1>2. CASE AddSignerTypeAndFixSignatureDates
    <2>1. PICK v : \/ Up("AddSignerTypeAndFixSignatureDates", [db EXCEPT !.signatures = v])
                   \/ Down("AddSignerTypeAndFixSignatureDates", [db EXCEPT !.signatures = v])
      BY <1>2 DEF AddSignerTypeAndFixSignatureDates
    <2> QED
      BY <1>1, <2>1 DEF OtherMigration, Items, Numbers
  <1>3. CASE FixSwappedSignatureDocuments
    <2>1. PICK d : /\ d = db \/ \E v : d = [db EXCEPT !.signatures = v]
                   /\ \/ Up("FixSwappedSignatureDocuments", d)
                      \/ Down("FixSwappedSignatureDocuments", d)
      BY <1>3 DEF FixSwappedSignatureDocuments
    <2> QED
      BY <1>1, <2>1, NothingChanged DEF OtherMigration, Items, Numbers
  <1> QED
    BY <1>2, <1>3

LEMMA BudgetsElsewhere ==
    ASSUME BackfillInv,
           \/ ConvertBudgetDayFieldsToArrays \/ ConvertBudgetDisplacementFeeToArray
           \/ ConvertBudgetDiscountFieldsToArrays \/ RemoveDiscountsOfDays
    PROVE  OtherMigration
  <1>1. ASSUME NEW v PROVE SameBackfills([db EXCEPT !["budget"] = v])
    BY NothingChanged, OneField DEF OtherFields, Fields
  <1>2. CASE ConvertBudgetDayFieldsToArrays
    <2>1. PICK v : \/ Up("ConvertBudgetDayFieldsToArrays", [db EXCEPT !.budget.location = v])
                   \/ Down("ConvertBudgetDayFieldsToArrays", [db EXCEPT !.budget.location = v])
      BY <1>2 DEF ConvertBudgetDayFieldsToArrays
    <2>2. [db EXCEPT !.budget.location = v]
            = [db EXCEPT !["budget"] = [db.budget EXCEPT !.location = v]]
      OBVIOUS
    <2> QED
      BY <1>1, <2>1, <2>2 DEF OtherMigration, Items, Numbers
  <1>3. CASE ConvertBudgetDisplacementFeeToArray
    <2>1. PICK v : \/ Up("ConvertBudgetDisplacementFeeToArray", [db EXCEPT !.budget.fee = v])
                   \/ Down("ConvertBudgetDisplacementFeeToArray", [db EXCEPT !.budget.fee = v])
      BY <1>3 DEF ConvertBudgetDisplacementFeeToArray
    <2>2. [db EXCEPT !.budget.fee = v]
            = [db EXCEPT !["budget"] = [db.budget EXCEPT !.fee = v]]
      OBVIOUS
    <2> QED
      BY <1>1, <2>1, <2>2 DEF OtherMigration, Items, Numbers
  <1>4. CASE ConvertBudgetDiscountFieldsToArrays \/ RemoveDiscountsOfDays
    <2>1. PICK v, u :
            \/ Up("ConvertBudgetDiscountFieldsToArrays",
                  [db EXCEPT !.budget.percentage = v, !.budget.kind = u])
            \/ Down("ConvertBudgetDiscountFieldsToArrays",
                  [db EXCEPT !.budget.percentage = v, !.budget.kind = u])
      BY <1>4 DEF ConvertBudgetDiscountFieldsToArrays, RemoveDiscountsOfDays
    <2>2. SameBackfills([db EXCEPT !.budget.percentage = v, !.budget.kind = u])
      BY NothingChanged DEF SameBackfills, Record, Fields
    <2> QED
      BY <2>1, <2>2 DEF OtherMigration, Items, Numbers
  <1> QED
    BY <1>2, <1>3, <1>4

LEMMA LeadsAndSlotsElsewhere ==
    ASSUME BackfillInv,
           AddStructuredAddressToLeads \/ RemoveStaffSlotsForSupplyItems
    PROVE  OtherMigration
  <1>1. CASE AddStructuredAddressToLeads
    <2>1. PICK v : \/ Up("AddStructuredAddressToLeads", [db EXCEPT !.street = v])
                   \/ Down("AddStructuredAddressToLeads", [db EXCEPT !.street = v])
      BY <1>1 DEF AddStructuredAddressToLeads
    <2>2. SameBackfills([db EXCEPT !["street"] = v])
      BY NothingChanged, OneField DEF OtherFields, Fields
    <2> QED
      BY <2>1, <2>2 DEF OtherMigration, Items, Numbers
  <1>2. CASE RemoveStaffSlotsForSupplyItems
    <2>1. PICK v : \/ Up("RemoveStaffSlotsForSupplyItems",
                         [db EXCEPT !.slots = v, !.legacyActive = FALSE])
                   \/ Down("RemoveStaffSlotsForSupplyItems", [db EXCEPT !.legacyActive = TRUE])
      BY <1>2 DEF RemoveStaffSlotsForSupplyItems
    <2>2. /\ SameBackfills([[db EXCEPT !["slots"] = v] EXCEPT !["legacyActive"] = FALSE])
          /\ SameBackfills([db EXCEPT !["legacyActive"] = TRUE])
      BY NothingChanged, TwoFields, OneField DEF OtherFields, Fields
    <2> QED
      BY <2>1, <2>2 DEF OtherMigration, Items, Numbers
  <1> QED
    BY <1>1, <1>2

LEMMA MigrationsFit ==
    ASSUME BackfillInv, Migrate
    PROVE  BackfillInv'
  <1>1. CASE OtherMigration
    BY <1>1, QuietMigration DEF OtherMigration
  <1> QED
    BY <1>1, EmployeesElsewhere, PositionsElsewhere, SignaturesElsewhere, BudgetsElsewhere,
       LeadsAndSlotsElsewhere, PaymentsDropped, PaymentsMigrate, EventsMigrate DEF Migrate

LEMMA ServingFits ==
    ASSUME BackfillInv, AssignPosition \/ EditBudget
    PROVE  BackfillInv'
  <1>1. CASE AssignPosition
    <2>1. PICK v : Serve([db EXCEPT !.employees = v])
      BY <1>1 DEF AssignPosition
    <2>2. SameBackfills([db EXCEPT !["employees"] = v])
      BY NothingChanged, OneField DEF OtherFields, Fields
    <2> QED
      BY <2>1, <2>2, ServedElsewhere
  <1>2. CASE EditBudget
    <2>1. PICK v : Serve([db EXCEPT !.budget = v])
      BY <1>2 DEF EditBudget
    <2>2. SameBackfills([db EXCEPT !["budget"] = v])
      BY NothingChanged, OneField DEF OtherFields, Fields
    <2> QED
      BY <2>1, <2>2, ServedElsewhere
  <1> QED
    BY <1>1, <1>2

\* A run that begins remembers a database that fits, and one that is rolled back
\* returns to it.
LEMMA BackfillStep == BackfillInv /\ [Next]_vars => BackfillInv'
  <1> SUFFICES ASSUME BackfillInv, [Next]_vars PROVE BackfillInv'
    OBVIOUS
  <1>1. ASSUME NEW r \in Releases, BeginRun(r) \/ Deploy(r) PROVE BackfillInv'
    BY <1>1 DEF BackfillInv, BeginRun, Deploy, Running, Fits, Ranked
  <1>2. CASE Migrate
    BY <1>2, MigrationsFit
  <1>3. CASE CommitRun
    BY <1>3 DEF BackfillInv, CommitRun, Running, Fits, Ranked
  <1>4. CASE RollBack
    BY <1>4 DEF BackfillInv, RollBack, Running, Fits, Ranked
  <1>5. CASE AssignPosition \/ EditBudget
    BY <1>5, ServingFits
  <1>6. CASE AddPayment
    BY <1>6, PaymentAdded
  <1>7. CASE AddEvent
    BY <1>7, EventAdded
  <1>8. CASE UNCHANGED vars
    BY <1>8 DEF BackfillInv, vars, Running, Fits, Ranked
  <1> QED
    BY <1>1, <1>2, <1>3, <1>4, <1>5, <1>6, <1>7, <1>8 DEF Next

-----------------------------------------------------------------------------
(* The schema *)

Applied(d) == ToSet(d.applied)

LEMMA TakenTable ==
    /\ TakenBack("EnsureBudgetItemsPositionReference") = {Column}
    /\ TakenBack("ResetPositionsAndDependencies") = {NotNull}
    /\ TakenBack("ConvertBudgetDiscountFieldsToArrays") = {TypeEnum}
    /\ \A m : TakenBack(m) \subseteq Added(m) \cup Dropped(m)
  BY AddsTable, DropsTable DEF TakenBack, Unrestored, Added, Dropped

\* The second of each pair has run after the first.
PairsInOrder(d) ==
    \A p \in Pairing, j \in DOMAIN d.applied :
      d.applied[j] = p[2] => \E i \in DOMAIN d.applied : i < j /\ d.applied[i] = p[1]

\* Each migration has run once, and four of them after those they change.
RunInOrder(d) ==
    /\ d.applied \in Seq(FilesOf(36))
    /\ \A i, j \in DOMAIN d.applied : d.applied[i] = d.applied[j] => i = j
    /\ PairsInOrder(d)

\* Nothing is in the schema but what was there before, what migrations that have
\* run have added and labels that stay; nothing that was dropped is; and all else
\* is but what a migration that has been undone has taken.
SchemaFits(d) ==
    /\ \A l \in d.schema : l \in BaseSchema \cup Kept \/ \E m \in Applied(d) : l \in Added(m)
    /\ \A m \in Applied(d) : Dropped(m) \cap d.schema = {}
    /\ \A l \in BaseSchema : l \in d.schema \/ \E m \in Applied(d) : l \in Dropped(m)
    /\ \A m \in Applied(d) : \A l \in Added(m) :
         \/ l \in d.schema
         \/ \E n \in Applied(d) : l \in Dropped(n)
         \/ \E n \in FilesOf(36) \ Applied(d) : l \in TakenBack(n)

Tidy(d) == RunInOrder(d) /\ SchemaFits(d)

\* The run of a release has still to do what of it the database lacks.
RunOf(r) ==
    /\ pending \subseteq FilesOf(r)
    /\ FilesOf(r) \subseteq Applied(db) \cup pending

\* Inductive, with BackfillInv: what is there is tidy, and so is what a failed run
\* goes back to.
DriftInv ==
    /\ Tidy(db)
    /\ Running => /\ Tidy(saved)
                  /\ Applied(db) \cap pending = {}
                  /\ \E r \in 1 .. 36 : RunOf(r)

LEMMA DriftInit == Init => DriftInv
  <1> SUFFICES ASSUME Init PROVE DriftInv
    OBVIOUS
  <1>1. db.schema = BaseSchema /\ db.applied = << >>
    BY DatabasesAssumption DEF Init
  <1>2. Applied(db) = {}
    BY <1>1 DEF Applied, ToSet
  <1>3. RunInOrder(db)
    BY <1>1 DEF RunInOrder, PairsInOrder
  <1> QED
    BY <1>1, <1>2, <1>3 DEF Init, DriftInv, Tidy, SchemaFits, Running

LEMMA MoreFiles ==
    ASSUME NEW r \in 0 .. 36, NEW s \in r .. 36
    PROVE  FilesOf(r) \subseteq FilesOf(s)
  BY DEF FilesOf

\* Of a pair, the first has run if the second has.
LEMMA PairsApplied ==
    ASSUME NEW d, RunInOrder(d), NEW p \in Pairing, p[2] \in Applied(d)
    PROVE  p[1] \in Applied(d)
  BY DEF RunInOrder, PairsInOrder, Applied, ToSet

LEMMA LaterPair ==
    ASSUME NEW m, NEW n, LaterDropped(m, n)
    PROVE  <<m, n>> \in Pairing
  BY DEF LaterDropped, Pairing

\* What a migration leaves that is run on a tidy database.
LEMMA TidyUp ==
    ASSUME DriftInv, NEW m, Due(m), NEW d,
           d.schema = (db.schema \cup Added(m)) \ Dropped(m),
           d.applied = Append(db.applied, m)
    PROVE  /\ Tidy(d)
           /\ Applied(d) = Applied(db) \cup {m}
  <1> DEFINE n == Len(db.applied)
  <1>0. PICK r \in 1 .. 36 : RunOf(r)
    BY DEF DriftInv, Due
  <1>1. /\ m \in FilesOf(r) /\ m \notin Applied(db)
        /\ FilesOf(r) \subseteq Applied(db) \cup pending
        /\ Tidy(db)
    BY <1>0 DEF DriftInv, Due, RunOf
  <1>2. FilesOf(r) \subseteq FilesOf(36)
    <2>1. r \in 0 .. 36 /\ 36 \in r .. 36
      OBVIOUS
    <2> QED
      BY <2>1, MoreFiles
  <1>3. /\ n \in Nat /\ DOMAIN db.applied = 1 .. n /\ db.applied \in Seq(FilesOf(36))
    BY <1>1, LenProperties DEF Tidy, RunInOrder
  <1>4. /\ d.applied \in Seq(FilesOf(36)) /\ DOMAIN d.applied = 1 .. (n + 1)
        /\ \A i \in 1 .. n : d.applied[i] = db.applied[i]
        /\ d.applied[n + 1] = m
    <2>1. /\ d.applied \in Seq(FilesOf(36)) /\ Len(d.applied) = n + 1
          /\ \A i \in 1 .. n : d.applied[i] = db.applied[i]
          /\ d.applied[n + 1] = m
      BY <1>1, <1>2, <1>3, AppendProperties
    <2> QED
      BY <2>1, LenProperties
  <1> HIDE DEF n
  <1>5. Applied(d) = Applied(db) \cup {m}
    BY <1>3, <1>4 DEF Applied, ToSet
  <1>6. RunInOrder(d)
    <2>1. \A i, j \in 1 .. (n + 1) : d.applied[i] = d.applied[j] => i = j
      <3>1. \A i, j \in 1 .. n : db.applied[i] = db.applied[j] => i = j
        BY <1>1, <1>3 DEF Tidy, RunInOrder
      <3>2. \A i \in 1 .. n : db.applied[i] # m
        BY <1>1, <1>3 DEF Applied, ToSet
      <3> QED
        BY <1>3, <1>4, <3>1, <3>2
    <2>2. ASSUME NEW p \in Pairing, NEW j \in 1 .. (n + 1), d.applied[j] = p[2]
          PROVE  \E i \in 1 .. (n + 1) : i < j /\ d.applied[i] = p[1]
      <3>1. CASE j \in 1 .. n
        <4>1. db.applied[j] = p[2] /\ PairsInOrder(db)
          BY <1>1, <1>4, <2>2, <3>1 DEF Tidy, RunInOrder
        <4>2. PICK i \in 1 .. n : i < j /\ db.applied[i] = p[1]
          BY <1>3, <3>1, <4>1, Zenon DEF PairsInOrder
        <4> QED
          BY <1>3, <1>4, <4>2
      <3>2. CASE j = n + 1
        <4>1. m = p[2]
          BY <1>4, <2>2, <3>2
        <4>2. p[1] \in FilesOf(r)
          <5>1. r \in 0 .. 36
            OBVIOUS
          <5> QED
            BY <1>1, <4>1, <5>1, PairsTogether
        <4>3. p[1] \notin pending
          BY <4>1, PairsRanked DEF Due
        <4>4. p[1] \in Applied(db)
          BY <1>1, <4>2, <4>3
        <4>5. PICK i \in 1 .. n : db.applied[i] = p[1]
          BY <1>3, <4>4 DEF Applied, ToSet
        <4> QED
          BY <1>3, <1>4, <3>2, <4>5
      <3> QED
        BY <1>3, <3>1, <3>2
    <2>3. PairsInOrder(d)
      BY <1>4, <2>2, Zenon DEF PairsInOrder
    <2> QED
      BY <1>4, <2>1, <2>3 DEF RunInOrder
  <1>7. SchemaFits(db) /\ RunInOrder(db)
    BY <1>1 DEF Tidy
  <1>8. ASSUME NEW l \in d.schema
        PROVE  l \in BaseSchema \cup Kept \/ \E k \in Applied(d) : l \in Added(k)
    BY <1>5, <1>7 DEF SchemaFits
  <1>9. ASSUME NEW k \in Applied(d), NEW l \in Dropped(k), l \in d.schema
        PROVE  FALSE
    <2>1. k # m /\ k \in Applied(db)
      BY <1>5, <1>9
    <2>2. l \in Added(m)
      BY <1>7, <1>9, <2>1 DEF SchemaFits
    <2>3. <<m, k>> \in Pairing
      BY <1>9, <2>2, AddedThenDropped, LaterPair
    <2> QED
      BY <1>1, <1>7, <2>1, <2>3, PairsApplied
  <1>10. ASSUME NEW l \in BaseSchema
         PROVE  l \in d.schema \/ \E k \in Applied(d) : l \in Dropped(k)
    BY <1>5, <1>7 DEF SchemaFits
  <1>11. ASSUME NEW k \in Applied(d), NEW l \in Added(k)
         PROVE  \/ l \in d.schema
                \/ \E j \in Applied(d) : l \in Dropped(j)
                \/ \E j \in FilesOf(36) \ Applied(d) : l \in TakenBack(j)
    <2>1. CASE k = m \/ l \in db.schema
      BY <1>5, <1>11, <2>1
    <2>2. CASE k \in Applied(db) /\ \E j \in Applied(db) : l \in Dropped(j)
      BY <1>5, <2>2
    <2>3. ASSUME NEW j \in FilesOf(36) \ Applied(db), l \in TakenBack(j)
          PROVE  \/ l \in d.schema
                 \/ \E i \in Applied(d) : l \in Dropped(i)
                 \/ \E i \in FilesOf(36) \ Applied(d) : l \in TakenBack(i)
      <3>1. CASE j = m
        <4>1. l \in Added(m) \cup Dropped(m)
          BY <2>3, <3>1, TakenTable
        <4> QED
          BY <1>5, <3>1, <4>1
      <3>2. CASE j # m
        BY <1>5, <2>3, <3>2
      <3> QED
        BY <3>1, <3>2
    <2> QED
      BY <1>5, <1>7, <1>11, <2>1, <2>2, <2>3 DEF SchemaFits
  <1>12. SchemaFits(d)
    BY <1>8, <1>9, <1>10, <1>11 DEF SchemaFits
  <1> QED
    BY <1>5, <1>6, <1>12 DEF Tidy

\* The last element, and what is before it.
LEMMA FrontAndLast ==
    ASSUME NEW S, NEW s \in Seq(S), s # << >>
    PROVE  /\ Len(s) \in Nat \ {0} /\ DOMAIN s = 1 .. Len(s)
           /\ Last(s) = s[Len(s)]
           /\ Front(s) \in Seq(S)
           /\ DOMAIN Front(s) = 1 .. (Len(s) - 1)
           /\ \A i \in 1 .. (Len(s) - 1) : Front(s)[i] = s[i]
  <1>1. Len(s) \in Nat /\ DOMAIN s = 1 .. Len(s) /\ Len(s) # 0
    BY EmptySeq, LenProperties
  <1>2. /\ Front(s) \in Seq(S) /\ Len(Front(s)) = Len(s) - 1
        /\ \A i \in 1 .. (Len(s) - 1) : Front(s)[i] = s[i]
    BY <1>1, SubSeqProperties DEF Front
  <1> QED
    BY <1>1, <1>2, LenProperties DEF Last

\* What a migration leaves that is undone.
LEMMA TidyDown ==
    ASSUME DriftInv, NEW m, db.applied # << >>, m = Last(db.applied), NEW d,
           d.schema = (db.schema \ (Added(m) \ Kept)) \cup Restored(m),
           d.applied = Front(db.applied)
    PROVE  Tidy(d) /\ Applied(d) = Applied(db) \ {m} /\ m \in Applied(db)
  <1> DEFINE n == Len(db.applied)
  <1>1. RunInOrder(db) /\ SchemaFits(db)
    BY DEF DriftInv, Tidy
  <1>2. /\ n \in Nat \ {0} /\ DOMAIN db.applied = 1 .. n /\ db.applied[n] = m
        /\ d.applied \in Seq(FilesOf(36)) /\ DOMAIN d.applied = 1 .. (n - 1)
        /\ \A i \in 1 .. (n - 1) : d.applied[i] = db.applied[i]
    BY <1>1, FrontAndLast DEF RunInOrder
  <1> HIDE DEF n
  <1>3. \A i, j \in 1 .. n : db.applied[i] = db.applied[j] => i = j
    BY <1>1, <1>2 DEF RunInOrder
  <1>4. Applied(d) = Applied(db) \ {m} /\ m \in Applied(db)
    <2>1. \A i \in 1 .. n : i = n \/ i \in 1 .. (n - 1)
      BY <1>2
    <2>2. \A i \in 1 .. (n - 1) : i \in 1 .. n /\ i # n /\ n \in 1 .. n
      BY <1>2
    <2>3. n \in 1 .. n
      BY <1>2
    <2> QED
      BY <1>2, <1>3, <2>1, <2>2, <2>3 DEF Applied, ToSet
  <1>5. RunInOrder(d)
    <2>1. \A i, j \in 1 .. (n - 1) : d.applied[i] = d.applied[j] => i = j
      BY <1>2, <1>3
    <2>2. ASSUME NEW p \in Pairing, NEW j \in 1 .. (n - 1), d.applied[j] = p[2]
          PROVE  \E i \in 1 .. (n - 1) : i < j /\ d.applied[i] = p[1]
      <3>1. j \in 1 .. n /\ db.applied[j] = p[2]
        BY <1>2, <2>2
      <3>2. PairsInOrder(db) /\ DOMAIN db.applied = 1 .. n
        BY <1>1, <1>2 DEF RunInOrder
      <3>3. PICK i \in 1 .. n : i < j /\ db.applied[i] = p[1]
        BY <3>1, <3>2, Zenon DEF PairsInOrder
      <3>4. i \in 1 .. (n - 1)
        BY <1>2, <3>3
      <3> QED
        BY <1>2, <3>3, <3>4
    <2>3. PairsInOrder(d)
      BY <1>2, <2>2, Zenon DEF PairsInOrder
    <2> QED
      BY <1>2, <2>1, <2>3 DEF RunInOrder
  \* Nothing that is left depends on what is undone.
  <1>6. ASSUME NEW p \in Pairing, p[1] = m
        PROVE  p[2] \notin Applied(d)
    BY <1>4, <1>5, <1>6, PairsApplied
  <1>7. m \in FilesOf(36)
    BY <1>1, <1>2 DEF RunInOrder
  <1>8. ASSUME NEW l \in Dropped(m), m \notin Unrestored
        PROVE  l \in d.schema
    BY <1>8 DEF Restored
  <1>9. ASSUME NEW l \in d.schema
        PROVE  l \in BaseSchema \cup Kept \/ \E k \in Applied(d) : l \in Added(k)
    <2>1. CASE l \in db.schema /\ l \notin Added(m) \ Kept
      <3>1. CASE \E k \in Applied(db) : l \in Added(k)
        BY <1>4, <2>1, <3>1
      <3> QED
        BY <1>1, <2>1, <3>1 DEF SchemaFits
    <2>2. CASE l \in Restored(m)
      <3>1. l \in Dropped(m) /\ m \notin Unrestored
        BY <2>2 DEF Restored
      <3>2. CASE m = "MakeEmployeeGenderNullable" /\ l \in Added("AddGenderToEmployees")
        <4>1. <<"AddGenderToEmployees", m>> \in Pairing
          BY <3>2 DEF Pairing
        <4>2. "AddGenderToEmployees" \in Applied(d)
          BY <1>1, <1>4, <3>2, <4>1, PairsApplied
        <4> QED
          BY <3>2, <4>2
      <3> QED
        BY <3>1, <3>2, DroppedKnown
    <2> QED
      BY <1>9, <2>1, <2>2
  <1>10. ASSUME NEW k \in Applied(d), NEW l \in Dropped(k), l \in d.schema
         PROVE  FALSE
    <2>1. l \notin db.schema
      BY <1>1, <1>4, <1>10 DEF SchemaFits
    <2>2. l \in Dropped(m)
      BY <1>10, <2>1 DEF Restored
    <2> QED
      BY <1>4, <1>10, <2>2, DroppedByOne
  <1>11. ASSUME NEW l \in BaseSchema
         PROVE  l \in d.schema \/ \E k \in Applied(d) : l \in Dropped(k)
    <2>1. CASE l \in db.schema
      BY <2>1, BaseNotAdded
    <2>2. CASE l \in Dropped(m)
      <3>1. l # NotNull
        <4>1. NotNull \in Added("CreatePositionsAndRelateEmployees")
          BY AddsTable DEF Added
        <4> QED
          BY <4>1, BaseNotAdded
      <3>2. l # TypeEnum
        <4>1. TypeEnum \in Added("AddDiscountTypeAndAmountToBudgets")
          BY AddsTable DEF Added
        <4> QED
          BY <4>1, BaseNotAdded
      <3>3. m \notin Unrestored
        <4>1. /\ Dropped("ResetPositionsAndDependencies") = {NotNull}
              /\ Dropped("ConvertBudgetDiscountFieldsToArrays") = {TypeEnum}
          BY DropsTable DEF Dropped
        <4> QED
          BY <2>2, <3>1, <3>2, <4>1 DEF Unrestored
      <3> QED
        BY <1>8, <2>2, <3>3
    <2> QED
      BY <1>1, <1>4, <2>1, <2>2 DEF SchemaFits
  <1>12. ASSUME NEW k \in Applied(d), NEW l \in Added(k)
         PROVE  \/ l \in d.schema
                \/ \E j \in Applied(d) : l \in Dropped(j)
                \/ \E j \in FilesOf(36) \ Applied(d) : l \in TakenBack(j)
    <2>1. k \in Applied(db) /\ k # m /\ m \in FilesOf(36) \ Applied(d)
      BY <1>4, <1>7, <1>12
    <2>2. CASE l \in db.schema /\ l \in Added(m)
      <3>1. /\ l = Column
            /\ {k, m} \subseteq {"AddPositionReferenceToBudgetItems",
                                 "EnsureBudgetItemsPositionReference"}
        BY <1>12, <2>1, <2>2, AddedByOne
      <3>2. m # "AddPositionReferenceToBudgetItems"
        <4>1. SUFFICES ASSUME m = "AddPositionReferenceToBudgetItems" PROVE FALSE
          OBVIOUS
        <4>2. k = "EnsureBudgetItemsPositionReference"
          BY <2>1, <3>1, <4>1
        <4>3. <<m, k>> \in Pairing
          BY <4>1, <4>2 DEF Pairing
        <4> QED
          BY <1>6, <1>12, <4>3
      <3>3. l \in TakenBack(m)
        BY <3>1, <3>2, TakenTable
      <3> QED
        BY <2>1, <3>3
    <2>3. CASE l \in db.schema /\ l \notin Added(m)
      BY <2>3
    <2>4. CASE l \in Dropped(m)
      <3>1. CASE m \in Unrestored
        <4>1. l \in TakenBack(m)
          BY <2>4, <3>1 DEF TakenBack, Unrestored
        <4> QED
          BY <2>1, <4>1
      <3> QED
        BY <1>8, <2>4, <3>1
    <2>5. CASE \E j \in Applied(db) : l \in Dropped(j) /\ j # m
      BY <1>4, <2>5
    <2>6. CASE \E j \in FilesOf(36) \ Applied(db) : l \in TakenBack(j)
      BY <1>4, <2>6
    <2> QED
      BY <1>1, <1>12, <2>1, <2>2, <2>3, <2>4, <2>5, <2>6 DEF SchemaFits
  <1>13. SchemaFits(d)
    BY <1>9, <1>10, <1>11, <1>12 DEF SchemaFits
  <1> QED
    BY <1>4, <1>5, <1>13 DEF Tidy

\* Every migration works on the schema as it is.
SomeMigration ==
    \E m, d : /\ Record(d) /\ d.schema = db.schema /\ d.applied = db.applied
              /\ Up(m, d) \/ Down(m, d)

LEMMA EveryMigration ==
    ASSUME BackfillInv, Migrate
    PROVE  SomeMigration
  <1>1. OtherMigration => SomeMigration
    BY DEF OtherMigration, SomeMigration, SameBackfills
  <1>2. ASSUME NEW v
        PROVE  LET d == [db EXCEPT !.payments = v] IN
               Record(d) /\ d.schema = db.schema /\ d.applied = db.applied
    BY DEF BackfillInv, Fits, Record, Fields
  <1>3. ASSUME NEW v
        PROVE  LET d == [db EXCEPT !.events = v] IN
               Record(d) /\ d.schema = db.schema /\ d.applied = db.applied
    BY DEF BackfillInv, Fits, Record, Fields
  <1>4. CASE DropPayments
    <2>1. PICK v : Down("CreatePaymentsTable", [db EXCEPT !.payments = v])
      BY <1>4 DEF DropPayments
    <2> QED
      BY <1>2, <2>1 DEF SomeMigration
  <1>5. CASE RefactorPaymentsToAggregateByReference
    <2>1. PICK v : \/ Up(Items, [db EXCEPT !.payments = v])
                   \/ Down(Items, [db EXCEPT !.payments = v])
      BY <1>5 DEF RefactorPaymentsToAggregateByReference, Items
    <2> QED
      BY <1>2, <2>1 DEF SomeMigration
  <1>6. CASE AddEventNumberToEvents
    <2>1. PICK v : \/ Up(Numbers, [db EXCEPT !.events = v])
                   \/ Down(Numbers, [db EXCEPT !.events = v])
      BY <1>6 DEF AddEventNumberToEvents, Numbers
    <2> QED
      BY <1>3, <2>1 DEF SomeMigration
  <1> QED
    BY <1>1, <1>4, <1>5, <1>6, EmployeesElsewhere, PositionsElsewhere, SignaturesElsewhere,
       BudgetsElsewhere, LeadsAndSlotsElsewhere DEF Migrate

LEMMA MigrationsTidy ==
    ASSUME BackfillInv, DriftInv, Migrate
    PROVE  DriftInv'
  <1>1. PICK m, d : /\ Record(d) /\ d.schema = db.schema /\ d.applied = db.applied
                    /\ Up(m, d) \/ Down(m, d)
    BY EveryMigration DEF SomeMigration
  <1>2. CASE Up(m, d)
    <2>1. /\ db'.schema = (db.schema \cup Added(m)) \ Dropped(m)
          /\ db'.applied = Append(db.applied, m)
      BY <1>1, <1>2, UpMakes
    <2>2. Due(m) /\ pending' = pending \ {m} /\ saved' = saved
      BY <1>2 DEF Up
    <2>3. Tidy(db') /\ Applied(db') = Applied(db) \cup {m}
      BY <2>1, <2>2, TidyUp
    <2>4. Running /\ m \in pending
      BY <2>2 DEF Due
    <2>5. PICK r \in 1 .. 36 : RunOf(r)
      BY <2>4 DEF DriftInv
    <2>6. /\ pending' \subseteq FilesOf(r)
          /\ FilesOf(r) \subseteq Applied(db') \cup pending'
          /\ Applied(db') \cap pending' = {}
      BY <2>2, <2>3, <2>4, <2>5 DEF DriftInv, RunOf
    <2>7. Applied(db)' = Applied(db') /\ Tidy(db)' = Tidy(db')
      BY DEF Applied, Tidy, RunInOrder, PairsInOrder, SchemaFits
    <2> QED
      BY <2>2, <2>3, <2>4, <2>6, <2>7 DEF DriftInv, Running, RunOf
  <1>3. CASE Down(m, d)
    <2>1. /\ db'.schema = (db.schema \ (Added(m) \ Kept)) \cup Restored(m)
          /\ db'.applied = Front(db.applied)
      BY <1>1, <1>3, DownMakes
    <2>2. ~ Running /\ db.applied # << >> /\ m = Last(db.applied) /\ saved' = saved
      BY <1>3 DEF Down
    <2>3. Tidy(db')
      BY <2>1, <2>2, TidyDown
    <2> QED
      BY <2>2, <2>3 DEF DriftInv, Running
  <1> QED
    BY <1>1, <1>2, <1>3

\* The application writes no schema.
LEMMA ServingTidy ==
    ASSUME BackfillInv, DriftInv, AssignPosition \/ EditBudget \/ AddPayment \/ AddEvent
    PROVE  DriftInv'
  <1>1. ASSUME NEW x \in Fields \ {"schema", "applied"}, NEW v, Serve([db EXCEPT ![x] = v])
        PROVE  DriftInv'
    <2>1. db'.schema = db.schema /\ db'.applied = db.applied
      BY <1>1 DEF Serve, BackfillInv, Fits, Record, Fields
    <2> QED
      BY <1>1, <2>1 DEF Serve, DriftInv, Running, Tidy, RunInOrder, PairsInOrder, SchemaFits,
         Applied, RunOf
  <1>2. PICK v : \/ Serve([db EXCEPT !["employees"] = v]) \/ Serve([db EXCEPT !["budget"] = v])
                 \/ Serve([db EXCEPT !["payments"] = v]) \/ Serve([db EXCEPT !["events"] = v])
    <2>1. CASE AssignPosition
      <3>1. PICK v : Serve([db EXCEPT !.employees = v])
        BY <2>1 DEF AssignPosition
      <3> QED
        BY <3>1
    <2>2. CASE EditBudget
      <3>1. PICK v : Serve([db EXCEPT !.budget = v])
        BY <2>2 DEF EditBudget
      <3> QED
        BY <3>1
    <2>3. CASE AddPayment
      <3>1. PICK v : Serve([db EXCEPT !.payments = v])
        BY <2>3 DEF AddPayment
      <3> QED
        BY <3>1
    <2>4. CASE AddEvent
      <3>1. PICK v : Serve([db EXCEPT !.events = v])
        BY <2>4 DEF AddEvent
      <3> QED
        BY <3>1
    <2> QED
      BY <2>1, <2>2, <2>3, <2>4
  <1> QED
    BY <1>1, <1>2 DEF Fields

LEMMA DriftStep == BackfillInv /\ DriftInv /\ [Next]_vars => DriftInv'
  <1> SUFFICES ASSUME BackfillInv, DriftInv, [Next]_vars PROVE DriftInv'
    OBVIOUS
  <1>1. ASSUME NEW r \in Releases, BeginRun(r) PROVE DriftInv'
    <2>1. r \in 1 .. 36 /\ db' = db /\ saved' = db
      BY <1>1, ReleasesAssumption, FilesAt DEF BeginRun
    <2>2. pending' = FilesOf(r) \ Applied(db)
      BY <1>1 DEF BeginRun, Applied, ToSet
    <2> QED
      BY <2>1, <2>2 DEF DriftInv, RunOf
  <1>7. ASSUME NEW r \in Releases, Deploy(r) PROVE DriftInv'
    BY <1>7 DEF DriftInv, Deploy, Running, RunOf
  <1>2. CASE Migrate
    BY <1>2, MigrationsTidy
  <1>3. CASE CommitRun
    BY <1>3 DEF DriftInv, CommitRun, Running
  <1>4. CASE RollBack
    BY <1>4 DEF DriftInv, RollBack, Running
  <1>5. CASE AssignPosition \/ EditBudget \/ AddPayment \/ AddEvent
    BY <1>5, ServingTidy
  <1>6. CASE UNCHANGED vars
    BY <1>6 DEF DriftInv, vars, Running, RunOf
  <1> QED
    BY <1>1, <1>2, <1>3, <1>4, <1>5, <1>6, <1>7 DEF Next

\* The schema is the one that the migrations a database has had make, whatever
\* runs of whichever releases, in whatever order, failures and reverts there were,
\* but for labels that stay and for what three migrations have taken that are not
\* among them (README, "sem risco de drift de schema").
THEOREM DriftIsConfined == Spec => []DriftConfined
  <1>1. ASSUME DriftInv PROVE DriftConfined
    <2>1. SchemaFits(db) /\ Len(Files) = 36
      BY <1>1, FilesAt DEF DriftInv, Tidy
    <2>2. ASSUME NEW l \in db.schema \ Expected PROVE l \in Kept
      BY <2>1 DEF SchemaFits, Expected, Applied
    <2>3. ASSUME NEW l \in Expected \ db.schema
          PROVE  \E m \in FilesOf(36) \ Applied(db) : l \in TakenBack(m)
      BY <2>1 DEF SchemaFits, Expected, Applied
    <2> QED
      BY <2>1, <2>2, <2>3 DEF DriftConfined, Applied
  <1> QED
    BY <1>1, BackfillInit, BackfillStep, DriftInit, DriftStep, PTL DEF Spec

-----------------------------------------------------------------------------
(* Payments and their items *)

\* There are items once the migration that makes them has run, and only then.
LEMMA ItemsFromMigration ==
    ASSUME NEW d, SchemaFits(d), "payment_items" \in d.schema
    PROVE  Items \in Applied(d)
  <1>1. "payment_items" \notin BaseSchema \cup Kept
    BY LabelsStay DEF Labels, BaseSchema, StandardizeTimestampsWithoutTimezone
  <1>2. PICK m \in Applied(d) : "payment_items" \in Added(m)
    BY <1>1 DEF SchemaFits
  <1>3. m \notin {Items} => m = Numbers
    BY <1>2, LabelsAdded DEF Labels
  <1>4. "payment_items" \notin Added(Numbers)
    BY AddsTable DEF Added, Numbers
  <1> QED
    BY <1>2, <1>3, <1>4

\* Inductive, with BackfillInv and DriftInv: a run that began when there were items
\* leaves them and the payments alone.
ItemsInv ==
    Running /\ "payment_items" \in saved.schema =>
      /\ Items \notin pending
      /\ "payment_items" \in db.schema
      /\ db.payments = saved.payments

LEMMA ItemsInit == Init => ItemsInv
  BY DEF Init, ItemsInv, Running

\* A migration leaves payments and whether there are items alone, or gives all
\* that are there items, or takes the items or the payments away.
ItemsMigration ==
    \/ /\ db'.payments = db.payments
       /\ "payment_items" \in db'.schema <=> "payment_items" \in db.schema
    \/ Due(Items) /\ \A p \in Payments : db'.payments[p] # "bare"
    \/ ~ Running /\ "payment_items" \notin db'.schema
    \/ ~ Running /\ \A p \in Payments : db'.payments[p] # "bare"

LEMMA QuietItems ==
    ASSUME BackfillInv, NEW m, m # Items, NEW d, Record(d), d.schema = db.schema,
           d.payments = db.payments, Up(m, d) \/ Down(m, d)
    PROVE  ItemsMigration
  <1>1. "payment_items" \notin Added(m)
    <2>1. "payment_items" \notin Added(Numbers)
      BY AddsTable DEF Added, Numbers
    <2> QED
      BY <2>1, LabelsAdded DEF Labels
  <1>2. "payment_items" \notin Dropped(m) \cup Restored(m)
    BY LabelsStay DEF Labels
  <1>3. CASE Up(m, d)
    BY <1>1, <1>2, <1>3, UpMakes DEF ItemsMigration
  <1>4. CASE Down(m, d)
    BY <1>1, <1>2, <1>4, DownMakes DEF ItemsMigration
  <1> QED
    BY <1>3, <1>4

LEMMA ItemsMigrate ==
    ASSUME BackfillInv, Migrate
    PROVE  ItemsMigration
  <1>1. CASE OtherMigration
    BY <1>1, QuietItems DEF OtherMigration, SameBackfills
  <1>2. CASE AddEventNumberToEvents
    <2>1. PICK v : \/ Up(Numbers, [db EXCEPT !.events = v])
                   \/ Down(Numbers, [db EXCEPT !.events = v])
      BY <1>2 DEF AddEventNumberToEvents, Numbers
    <2> DEFINE d == [db EXCEPT !.events = v]
    <2>2. Record(d) /\ d.schema = db.schema /\ d.payments = db.payments
      BY DEF BackfillInv, Fits, Record, Fields
    <2>3. Up(Numbers, d) \/ Down(Numbers, d)
      BY <2>1
    <2> HIDE DEF d
    <2> QED
      BY <2>2, <2>3, QuietItems DEF Numbers, Items
  <1>3. CASE DropPayments
    <2> DEFINE none == [p \in Payments |-> "absent"]
               d == [db EXCEPT !.payments = none]
    <2>1. Down("CreatePaymentsTable", d)
      BY <1>3 DEF DropPayments
    <2>2. \A p \in Payments : none[p] # "bare"
      OBVIOUS
    <2> HIDE DEF none
    <2>3. Record(d) /\ d.payments = none
      BY DEF BackfillInv, Fits, Record, Fields
    <2> HIDE DEF d
    <2>4. db'.payments = none /\ ~ Running
      BY <2>1, <2>3, DownMakes DEF Down
    <2> QED
      BY <2>2, <2>4 DEF ItemsMigration
  <1>4. CASE RefactorPaymentsToAggregateByReference
    <2> DEFINE Become(old, new) == [p \in Payments |-> IF db.payments[p] = old THEN new
                                                       ELSE db.payments[p]]
               more == Become("bare", "itemized")
               less == Become("itemized", "bare")
    <2>1. \A p \in Payments : more[p] # "bare"
      OBVIOUS
    <2>2. \/ Up(Items, [db EXCEPT !.payments = more])
          \/ Down(Items, [db EXCEPT !.payments = less])
      BY <1>4 DEF RefactorPaymentsToAggregateByReference, Items
    <2> HIDE DEF more, less
    <2>3. ASSUME NEW v
          PROVE  LET d == [db EXCEPT !.payments = v] IN Record(d) /\ d.payments = v
      BY DEF BackfillInv, Fits, Record, Fields
    <2>4. CASE Up(Items, [db EXCEPT !.payments = more])
      <3>1. db'.payments = more
        BY <2>3, <2>4, UpMakes
      <3>2. Due(Items)
        BY <2>4 DEF Up
      <3> QED
        BY <2>1, <3>1, <3>2 DEF ItemsMigration
    <2>5. CASE Down(Items, [db EXCEPT !.payments = less])
      <3> DEFINE d == [db EXCEPT !.payments = less]
      <3>1. Record(d) /\ Down(Items, d)
        BY <2>3, <2>5
      <3> HIDE DEF d
      <3>2. db'.schema = (d.schema \ (Added(Items) \ Kept)) \cup Restored(Items)
        BY <3>1, DownMakes
      <3>3. /\ "payment_items" \in Added(Items) \ Kept
            /\ "payment_items" \notin Restored(Items)
        BY LabelsAdded, LabelsStay DEF Labels
      <3>4. ~ Running
        BY <3>1 DEF Down
      <3> QED
        BY <3>2, <3>3, <3>4 DEF ItemsMigration
    <2> QED
      BY <2>2, <2>4, <2>5
  <1> QED
    BY <1>1, <1>2, <1>3, <1>4, EmployeesElsewhere, PositionsElsewhere, SignaturesElsewhere,
       BudgetsElsewhere, LeadsAndSlotsElsewhere DEF Migrate

\* Nothing is served while a run is under way.
LEMMA ServingOrRunning ==
    ASSUME AssignPosition \/ EditBudget \/ AddPayment \/ AddEvent
    PROVE  ~ Running /\ saved' = saved /\ release' = release
  BY DEF AssignPosition, EditBudget, AddPayment, AddEvent, Serve

LEMMA ItemsStep == BackfillInv /\ DriftInv /\ ItemsInv /\ [Next]_vars => ItemsInv'
  <1> SUFFICES ASSUME BackfillInv, DriftInv, ItemsInv, [Next]_vars PROVE ItemsInv'
    OBVIOUS
  <1>1. ASSUME NEW r \in Releases, BeginRun(r) PROVE ItemsInv'
    <2>1. /\ saved' = db /\ db' = db
          /\ pending' = FilesOf(r) \ Applied(db)
      BY <1>1 DEF BeginRun, Applied, ToSet
    <2>2. "payment_items" \in db.schema => Items \in Applied(db)
      BY ItemsFromMigration DEF DriftInv, Tidy
    <2> QED
      BY <2>1, <2>2 DEF ItemsInv
  <1>2. CASE Migrate
    <2>1. PICK m, d : Record(d) /\ (Up(m, d) \/ Down(m, d))
      BY <1>2, EveryMigration DEF SomeMigration
    <2>2. saved' = saved /\ pending' \subseteq pending
      BY <2>1 DEF Up, Down
    <2>3. ItemsMigration
      BY <1>2, ItemsMigrate
    <2>4. Due(Items) => Items \in pending
      BY DEF Due
    <2> QED
      BY <2>2, <2>3, <2>4 DEF ItemsInv, ItemsMigration, Running
  <1>3. CASE CommitRun \/ RollBack
    BY <1>3 DEF CommitRun, RollBack, ItemsInv, Running
  <1>4. CASE AssignPosition \/ EditBudget \/ AddPayment \/ AddEvent
    BY <1>4, ServingOrRunning DEF ItemsInv, Running
  <1>5. CASE UNCHANGED vars \/ \E r \in Releases : Deploy(r)
    BY <1>5 DEF ItemsInv, vars, Deploy, Running
  <1> QED
    BY <1>1, <1>2, <1>3, <1>4, <1>5 DEF Next

\* What comes to be without items where there are items.
OnlyByEarlier ==
    \A p \in Payments :
      WithoutItems(p)' /\ ~ WithoutItems(p) =>
        /\ db.payments[p] = "absent"
        /\ ~ Knows("RefactorPaymentsToAggregateByReference")

LEMMA EarlierStep ==
    ASSUME BackfillInv, DriftInv, ItemsInv, [Next]_vars
    PROVE  OnlyByEarlier
  <1> USE DEF OnlyByEarlier, WithoutItems
  <1>1. ASSUME db'.payments = db.payments,
               "payment_items" \in db'.schema => "payment_items" \in db.schema
        PROVE  OnlyByEarlier
    BY <1>1
  <1>2. CASE Migrate
    <2>1. ItemsMigration
      BY <1>2, ItemsMigrate
    <2> QED
      BY <1>1, <2>1 DEF ItemsMigration
  <1>3. CASE RollBack
    <2>1. db' = saved /\ Running
      BY <1>3 DEF RollBack
    <2> QED
      BY <2>1 DEF ItemsInv
  <1>4. CASE AddPayment
    <2>1. PICK p \in Payments, status \in {"bare", "itemized"} :
            /\ db.payments[p] = "absent"
            /\ Serve([db EXCEPT !.payments[p] = status])
            /\ status = "bare" => ~ Knows("RefactorPaymentsToAggregateByReference")
      BY <1>4 DEF AddPayment
    <2> DEFINE more == [db.payments EXCEPT ![p] = status]
    <2>2. /\ \A q \in Payments : q # p => more[q] = db.payments[q]
          /\ more[p] = status
      BY <2>1 DEF BackfillInv, Fits, Payments
    <2>3. db' = [db EXCEPT !.payments = more]
      BY <2>1 DEF Serve
    <2> HIDE DEF more
    <2>4. db'.payments = more /\ db'.schema = db.schema
      BY <2>3 DEF BackfillInv, Fits, Record, Fields
    <2> QED
      BY <2>1, <2>2, <2>4
  <1>5. CASE AssignPosition \/ EditBudget \/ AddEvent
    <2>1. PICK v : \/ Serve([db EXCEPT !.employees = v]) \/ Serve([db EXCEPT !.budget = v])
                   \/ Serve([db EXCEPT !.events = v])
      <3>1. CASE AssignPosition
        <4>1. PICK v : Serve([db EXCEPT !.employees = v])
          BY <3>1 DEF AssignPosition
        <4> QED
          BY <4>1
      <3>2. CASE EditBudget
        <4>1. PICK v : Serve([db EXCEPT !.budget = v])
          BY <3>2 DEF EditBudget
        <4> QED
          BY <4>1
      <3>3. CASE AddEvent
        <4>1. PICK v : Serve([db EXCEPT !.events = v])
          BY <3>3 DEF AddEvent
        <4> QED
          BY <4>1
      <3> QED
        BY <1>5, <3>1, <3>2, <3>3
    <2>2. db'.payments = db.payments /\ db'.schema = db.schema
      BY <2>1 DEF Serve, BackfillInv, Fits, Record, Fields
    <2> QED
      BY <1>1, <2>2
  <1>6. CASE (\E r \in Releases : BeginRun(r) \/ Deploy(r)) \/ CommitRun \/ UNCHANGED vars
    <2>1. db' = db
      BY <1>6 DEF BeginRun, Deploy, CommitRun, vars
    <2> QED
      BY <1>1, <2>1
  <1> QED
    BY <1>2, <1>3, <1>4, <1>5, <1>6 DEF Next

\* Once there are items, only a payment that a release without items has just
\* created is without; and once events are numbered they are numbered 1, 2, 3, ...
\* in the order of their creation, whatever runs, deployments, failures, reverts
\* and entries there were between the migrations that fill them in
\* (RefactorPaymentsToAggregateByReference, AddEventNumberToEvents).
THEOREM BackfillsAgree == Spec => BackfillsMeet
  <1> DEFINE Numbered == "events.event_number" \in db.schema =>
                           \A i \in DOMAIN db.events : db.events[i] = i
  <1>1. BackfillInv => Numbered
    BY DEF BackfillInv, Fits, Ranked
  <1>2. BackfillInv /\ DriftInv /\ ItemsInv /\ [Next]_vars => [OnlyByEarlier]_vars
    BY EarlierStep
  <1>3. []Numbered /\ [][OnlyByEarlier]_vars => BackfillsMeet
    BY DEF BackfillsMeet, OnlyByEarlier
  <1> HIDE DEF Numbered
  <1> QED
    BY <1>1, <1>2, <1>3, BackfillInit, BackfillStep, DriftInit, DriftStep, ItemsInit,
       ItemsStep, PTL DEF Spec

-----------------------------------------------------------------------------
(* What is converted is kept *)

Parties == {"client", "company"}

Columns == {"date", "document"}

RowsTyped(d) ==
    d.signatures \in [DOMAIN d.signatures -> Rows] /\ IsFiniteSet(DOMAIN d.signatures)

\* The migration that makes an array of a field.
Conversion ==
    [location   |-> "ConvertBudgetDayFieldsToArrays",
     fee        |-> "ConvertBudgetDisplacementFeeToArray",
     percentage |-> "ConvertBudgetDiscountFieldsToArrays",
     kind       |-> "ConvertBudgetDiscountFieldsToArrays"]

\* A field that is still to be converted has a value.
BudgetWhole(d) ==
    /\ d.days \in Nat /\ DOMAIN d.budget = BudgetFields
    /\ \A f \in BudgetFields :
         /\ "values" \in DOMAIN d.budget[f]
         /\ Conversion[f] \notin Applied(d) => d.budget[f].values # <<>>

\* Positions are named by their word.
Posts == {p \in Positions : p.name[1] = p.word}

Related == "CreatePositionsAndRelateEmployees"
Reset == "ResetPositionsAndDependencies"

\* Employees have a text until they may have a position.
Employment(d, employee) ==
    /\ {"text", "position"} \subseteq DOMAIN employee
    /\ IF Related \in Applied(d) THEN employee.text = None /\ employee.position \in Posts \cup {None}
       ELSE employee.text \in Texts /\ employee.position = None

StaffTyped(d) ==
    /\ d.owner \in Owners /\ d.positions \subseteq Posts
    /\ \A e \in DOMAIN d.employees : Employment(d, d.employees[e])
    /\ "employees.idtb_positions" \in d.schema => Related \in Applied(d)

Sound(d) == RowsTyped(d) /\ BudgetWhole(d) /\ StaffTyped(d)

\* Each value is as often in a column of the one as of the other.
SameCounts(d, e) ==
    /\ DOMAIN e.signatures = DOMAIN d.signatures
    /\ \A column \in Columns : \A v : Count(e, column, v) = Count(d, column, v)

SameFirstDays(d, e) == \A f \in BudgetFields : FirstDay(e.budget[f]) = FirstDay(d.budget[f])

SameTaken(d, e) == \A s : s.taken => (s \in d.slots <=> s \in e.slots)

\* An employee without a text is one without a position.
Alike(v, w) == v = w \/ {v, w} \subseteq {"", NoPosition[1]}

SameWords(d, e) ==
    /\ DOMAIN e.employees = DOMAIN d.employees
    /\ \/ Reset \in Applied(d) \cup Applied(e)
       \/ \A x \in DOMAIN d.employees : Alike(WordOf(d.employees[x]), WordOf(e.employees[x]))

Same(d, e) == SameCounts(d, e) /\ SameFirstDays(d, e) /\ SameTaken(d, e) /\ SameWords(d, e)

\* Inductive, with DriftInv: the database holds what the one held that a failed
\* run goes back to.
KeepInv == Sound(db) /\ (Running => Sound(saved) /\ Same(saved, db))

LEMMA KeepInit == Init => KeepInv
  <1> SUFFICES ASSUME Init PROVE KeepInv
    OBVIOUS
  <1> DEFINE known ==
               /\ db.schema = BaseSchema /\ db.applied = <<>>
               /\ db.positions = {}
               /\ \A e \in DOMAIN db.employees :
                    LET x == db.employees[e]
                    IN  x = [document |-> x.document, text |-> <<x.text[1], x.text[2]>>,
                             position |-> None]
               /\ db.signatures \in [DOMAIN db.signatures -> Rows]
               /\ IsFiniteSet(DOMAIN db.signatures)
               /\ db.days \in Nat /\ DOMAIN db.budget = BudgetFields
               /\ \A f \in BudgetFields :
                    db.budget[f] = [each |-> FALSE, values |-> <<db.budget[f].values[1]>>]
  <1>1. known
    BY DatabasesAssumption, Zenon DEF Init
  <1>2. Applied(db) = {}
    BY <1>1 DEF Applied, ToSet
  <1>3. RowsTyped(db)
    BY <1>1 DEF RowsTyped
  <1>4. BudgetWhole(db)
    <2>1. ASSUME NEW f \in BudgetFields
          PROVE  "values" \in DOMAIN db.budget[f] /\ db.budget[f].values # <<>>
      <3>1. PICK v : db.budget[f] = [each |-> FALSE, values |-> <<v>>]
        BY <1>1
      <3> QED
        BY <3>1
    <2> QED
      BY <1>1, <2>1 DEF BudgetWhole
  <1>5. StaffTyped(db)
    <2>1. ASSUME NEW e \in DOMAIN db.employees PROVE Employment(db, db.employees[e])
      <3> DEFINE t == db.employees[e].text
      <3>1. db.employees[e] = [document |-> db.employees[e].document, text |-> <<t[1], t[2]>>,
                               position |-> None]
        BY <1>1
      <3>2. t \in Entered
        BY DEF Entered, Init
      <3>3. t = <<t[1], t[2]>>
        BY <3>1
      <3>4. t \in Texts
        BY <3>2, <3>3 DEF Texts, Words
      <3>5. /\ DOMAIN db.employees[e] = {"document", "text", "position"}
            /\ db.employees[e].position = None
        BY <3>1
      <3> QED
        BY <1>2, <3>4, <3>5 DEF Employment
    <2>2. "employees.idtb_positions" \notin db.schema
      BY <1>1 DEF BaseSchema, StandardizeTimestampsWithoutTimezone
    <2> QED
      BY <1>1, <2>1, <2>2 DEF StaffTyped, Owners, Init
  <1> QED
    BY <1>3, <1>4, <1>5 DEF KeepInv, Sound, Init, Running

LEMMA SameReflexive == ASSUME NEW d PROVE Same(d, d)
  BY DEF Same, SameCounts, SameFirstDays, SameTaken, SameWords, Alike

LEMMA SameSymmetric == ASSUME NEW d, NEW e, Same(d, e) PROVE Same(e, d)
  <1>1. SameCounts(e, d) /\ SameFirstDays(e, d) /\ SameTaken(e, d)
    BY DEF Same, SameCounts, SameFirstDays, SameTaken
  <1>2. SameWords(e, d)
    BY DEF Same, SameWords, Alike
  <1> QED
    BY <1>1, <1>2 DEF Same

\* A step that is run leaves what has been applied so.
LEMMA SameTransitive ==
    ASSUME NEW c, NEW d, NEW e, Same(c, d), Same(d, e), Applied(d) \subseteq Applied(e)
    PROVE  Same(c, e)
  <1>1. SameCounts(c, e)
    BY DEF Same, SameCounts
  <1>2. SameFirstDays(c, e) /\ SameTaken(c, e)
    BY DEF Same, SameFirstDays, SameTaken
  <1>3. SameWords(c, e)
    <2>1. /\ DOMAIN d.employees = DOMAIN c.employees
          /\ DOMAIN e.employees = DOMAIN d.employees
      BY DEF Same, SameWords
    <2>2. CASE Reset \in Applied(c) \cup Applied(e)
      BY <2>1, <2>2 DEF SameWords
    <2>3. CASE Reset \notin Applied(c) \cup Applied(e)
      <3>1. ASSUME NEW x \in DOMAIN c.employees
            PROVE  Alike(WordOf(c.employees[x]), WordOf(e.employees[x]))
        BY <2>1, <2>3 DEF Same, SameWords, Alike
      <3> QED
        BY <2>1, <3>1 DEF SameWords
    <2> QED
      BY <2>2, <2>3
  <1> QED
    BY <1>1, <1>2, <1>3 DEF Same

-----------------------------------------------------------------------------
(* Signatures *)

Holding(C, f, v) == {c \in C : f[c] = v}

\* An exchange of values does not change how often one occurs.
LEMMA Exchange ==
    ASSUME NEW C, IsFiniteSet(C), NEW mate \in [C -> C], \A c \in C : mate[mate[c]] = c,
           NEW f, NEW g, \A c \in C : g[c] = f[mate[c]], NEW v
    PROVE  Cardinality(Holding(C, g, v)) = Cardinality(Holding(C, f, v))
  <1> DEFINE S == {c \in C : f[c] = v}
             T == {c \in C : g[c] = v}
             h == [c \in S |-> mate[c]]
  <1>1. h \in [S -> T]
    OBVIOUS
  <1>2. h \in Injection(S, T)
    BY <1>1 DEF Injection, IsInjective
  <1>3. h \in Surjection(S, T)
    <2>1. ASSUME NEW t \in T PROVE mate[t] \in S /\ h[mate[t]] = t
      OBVIOUS
    <2> QED
      BY <1>1, <2>1, Zenon DEF Surjection
  <1>4. IsFiniteSet(S)
    BY FS_Subset
  <1>5. ExistsBijection(S, T)
    BY <1>2, <1>3 DEF ExistsBijection, Bijection
  <1> QED
    BY <1>4, <1>5, FS_Bijection DEF Holding

Cells(rows) == [row : rows, party : Parties]

LEMMA CellsFinite == ASSUME NEW rows, IsFiniteSet(rows) PROVE IsFiniteSet(Cells(rows))
  <1> DEFINE h == [p \in rows \X Parties |-> [row |-> p[1], party |-> p[2]]]
  <1>1. IsFiniteSet(Parties)
    <2>1. IsFiniteSet({"client"} \cup {"company"})
      BY FS_Singleton, FS_Union
    <2>2. Parties = {"client"} \cup {"company"}
      BY DEF Parties
    <2> QED
      BY <2>1, <2>2
  <1>2. IsFiniteSet(rows \X Parties)
    BY <1>1, FS_Product
  <1>3. h \in Surjection(rows \X Parties, Cells(rows))
    <2>1. h \in [rows \X Parties -> Cells(rows)]
      BY DEF Cells
    <2>2. ASSUME NEW c \in Cells(rows)
          PROVE  <<c.row, c.party>> \in rows \X Parties /\ h[<<c.row, c.party>>] = c
      BY DEF Cells
    <2> QED
      BY <2>1, <2>2, Zenon DEF Surjection
  <1> QED
    BY <1>2, <1>3, FS_Surjection

\* What a cell takes its value from: that of the other party of the pair that its
\* row is in.
Mate(pairs, c) ==
    IF c.party = "client"
    THEN IF \E x \in pairs : x.client = c.row
         THEN [row |-> (CHOOSE x \in pairs : x.client = c.row).company, party |-> "company"] ELSE c
    ELSE IF \E x \in pairs : x.company = c.row
         THEN [row |-> (CHOOSE x \in pairs : x.company = c.row).client, party |-> "client"] ELSE c

\* Where no row is in two pairs, this is an exchange.
LEMMA MatesExchange ==
    ASSUME NEW pairs \in SUBSET Pairs, OncePaired(pairs), NEW c \in Cells(Envelopes)
    PROVE  Mate(pairs, c) \in Cells(Envelopes) /\ Mate(pairs, Mate(pairs, c)) = c
  <1>1. /\ c = [row |-> c.row, party |-> c.party]
        /\ c.row \in Envelopes /\ c.party \in {"client", "company"}
    BY DEF Cells, Parties
  <1>2. ASSUME NEW x \in pairs
        PROVE  /\ (CHOOSE y \in pairs : y.client = x.client) = x
               /\ (CHOOSE y \in pairs : y.company = x.company) = x
               /\ x.client \in Envelopes /\ x.company \in Envelopes
    <2>1. \A y \in pairs : (y.client = x.client => y = x) /\ (y.company = x.company => y = x)
      BY DEF OncePaired
    <2> QED
      BY <2>1 DEF Pairs
  <1> DEFINE client(x) == [row |-> x.client, party |-> "client"]
             company(x) == [row |-> x.company, party |-> "company"]
  <1>3. ASSUME NEW x \in pairs
        PROVE  /\ Mate(pairs, client(x)) = company(x)
               /\ Mate(pairs, company(x)) = client(x)
    <2>1. /\ client(x).row = x.client /\ client(x).party = "client"
          /\ company(x).row = x.company /\ company(x).party = "company"
      OBVIOUS
    <2>2. Mate(pairs, client(x))
            = [row |-> (CHOOSE y \in pairs : y.client = x.client).company, party |-> "company"]
      <3> HIDE DEF client
      <3> QED
        BY <2>1 DEF Mate
    <2>3. Mate(pairs, company(x))
            = [row |-> (CHOOSE y \in pairs : y.company = x.company).client, party |-> "client"]
      <3> HIDE DEF company
      <3> QED
        BY <2>1 DEF Mate
    <2> QED
      BY <1>2, <2>2, <2>3
  <1>4. CASE \E x \in pairs : c \in {client(x), company(x)}
    <2>1. PICK x \in pairs : c \in {client(x), company(x)}
      BY <1>4
    <2>2. client(x) \in Cells(Envelopes) /\ company(x) \in Cells(Envelopes)
      BY <1>2 DEF Cells, Parties
    <2> HIDE DEF client, company
    <2> QED
      BY <1>3, <2>1, <2>2
  <1>5. CASE ~ \E x \in pairs : c \in {client(x), company(x)}
    <2>1. Mate(pairs, c) = c
      <3>1. CASE c.party = "client"
        <4>1. ~ \E x \in pairs : x.client = c.row
          BY <1>1, <1>5, <3>1
        <4> QED
          BY <3>1, <4>1 DEF Mate
      <3>2. CASE c.party = "company"
        <4>1. ~ \E x \in pairs : x.company = c.row
          BY <1>1, <1>5, <3>2
        <4> QED
          BY <3>2, <4>1 DEF Mate
      <3> QED
        BY <1>1, <3>1, <3>2
    <2> QED
      BY <2>1
  <1> QED
    BY <1>4, <1>5

\* What the rows hold in a column after a swap, and in the other.
LEMMA SwappedCells ==
    ASSUME NEW pairs \in SUBSET Pairs, OncePaired(pairs), NEW column \in Columns, RowsTyped(db)
    PROVE  LET rows == Swapped(pairs, column) IN
           /\ rows \in [Envelopes -> Rows]
           /\ \A c \in Cells(Envelopes) :
                rows[c.row][column][c.party]
                  = db.signatures[Mate(pairs, c).row][column][Mate(pairs, c).party]
           /\ \A e \in Envelopes, other \in Columns \ {column} :
                rows[e][other] = db.signatures[e][other]
  <1> DEFINE rows == Swapped(pairs, column)
             old(e, p) == db.signatures[e][column][p]
             new(e) == [client  |-> old(Mate(pairs, [row |-> e, party |-> "client"]).row,
                                        Mate(pairs, [row |-> e, party |-> "client"]).party),
                        company |-> old(Mate(pairs, [row |-> e, party |-> "company"]).row,
                                        Mate(pairs, [row |-> e, party |-> "company"]).party)]
             values == IF column = "date" THEN Nat \cup {None} ELSE STRING \cup {None}
  <1>1. \A e \in Envelopes : db.signatures[e] \in Rows
    BY DEF RowsTyped, Envelopes
  <1>2. \A e \in Envelopes, p \in Parties : old(e, p) \in values
    BY <1>1 DEF Rows, Columns, Parties
  <1>3. ASSUME NEW e \in Envelopes
        PROVE  rows[e] = [db.signatures[e] EXCEPT ![column] = new(e)]
    <2>1. new(e).client = IF \E x \in pairs : x.client = e
                          THEN old((CHOOSE x \in pairs : x.client = e).company, "company")
                          ELSE old(e, "client")
      BY DEF Mate
    <2>2. new(e).company = IF \E x \in pairs : x.company = e
                          THEN old((CHOOSE x \in pairs : x.company = e).client, "client")
                          ELSE old(e, "company")
      BY DEF Mate
    <2>3. column \in DOMAIN db.signatures[e] /\ DOMAIN db.signatures[e] = Columns
      BY <1>1 DEF Rows, Columns
    <2> QED
      BY <2>1, <2>2, <2>3 DEF Swapped
  <1>4. ASSUME NEW e \in Envelopes PROVE new(e) \in [client : values, company : values]
    <2>1. \A p \in Parties : [row |-> e, party |-> p] \in Cells(Envelopes)
      BY DEF Cells
    <2>2. \A p \in Parties : Mate(pairs, [row |-> e, party |-> p]) \in Cells(Envelopes)
      BY <2>1, MatesExchange
    <2>3. \A p \in Parties : old(Mate(pairs, [row |-> e, party |-> p]).row,
                                 Mate(pairs, [row |-> e, party |-> p]).party) \in values
      BY <1>2, <2>2 DEF Cells
    <2> HIDE DEF old, values
    <2> QED
      BY <2>3 DEF Parties
  <1>5. ASSUME NEW e \in Envelopes
        PROVE  /\ rows[e] \in Rows /\ rows[e][column] = new(e)
               /\ \A other \in Columns \ {column} : rows[e][other] = db.signatures[e][other]
    <2>1. db.signatures[e] \in Rows /\ new(e) \in [client : values, company : values]
      BY <1>1, <1>4
    <2>2. rows[e] = [db.signatures[e] EXCEPT ![column] = new(e)]
      BY <1>3
    <2> HIDE DEF new, rows
    <2>3. CASE column = "date"
      BY <2>1, <2>2, <2>3 DEF Rows, Columns
    <2>4. CASE column = "document"
      BY <2>1, <2>2, <2>4 DEF Rows, Columns
    <2> QED
      BY <2>3, <2>4 DEF Columns
  <1>6. rows = [e \in Envelopes |-> rows[e]]
    BY DEF Swapped
  <1>7. rows \in [Envelopes -> Rows]
    <2> HIDE DEF rows
    <2> QED
      BY <1>5, <1>6
  <1>8. ASSUME NEW c \in Cells(Envelopes)
        PROVE  rows[c.row][column][c.party] = old(Mate(pairs, c).row, Mate(pairs, c).party)
    <2>1. /\ c.row \in Envelopes /\ c.party \in {"client", "company"}
          /\ c = [row |-> c.row, party |-> c.party]
      BY DEF Cells, Parties
    <2>2. rows[c.row][column] = new(c.row)
      BY <1>5, <2>1
    <2> HIDE DEF rows, old
    <2> QED
      BY <2>1, <2>2
  <1> QED
    BY <1>5, <1>7, <1>8

\* A swap keeps what is in the columns.
LEMMA SwapKeeps ==
    ASSUME NEW pairs \in SUBSET Pairs, OncePaired(pairs), NEW column \in Columns, RowsTyped(db),
           NEW d, d.signatures = Swapped(pairs, column)
    PROVE  RowsTyped(d) /\ SameCounts(db, d)
  <1> DEFINE C == Cells(Envelopes)
             mate == [c \in C |-> Mate(pairs, c)]
  <1>1. /\ d.signatures \in [Envelopes -> Rows] /\ DOMAIN d.signatures = Envelopes
        /\ \A c \in C : d.signatures[c.row][column][c.party]
                          = db.signatures[Mate(pairs, c).row][column][Mate(pairs, c).party]
        /\ \A e \in Envelopes, other \in Columns \ {column} :
             d.signatures[e][other] = db.signatures[e][other]
    BY SwappedCells
  <1>2. IsFiniteSet(Envelopes) /\ IsFiniteSet(C)
    BY CellsFinite DEF RowsTyped, Envelopes
  <1>3. RowsTyped(d)
    BY <1>1, <1>2 DEF RowsTyped
  <1>4. mate \in [C -> C] /\ \A c \in C : mate[mate[c]] = c
    BY MatesExchange
  <1>5. ASSUME NEW v PROVE Count(d, column, v) = Count(db, column, v)
    <2> DEFINE f == [c \in C |-> db.signatures[c.row][column][c.party]]
               g == [c \in C |-> d.signatures[c.row][column][c.party]]
    <2>1. \A c \in C : g[c] = f[mate[c]]
      BY <1>1, <1>4
    <2>2. /\ Count(db, column, v) = Cardinality(Holding(C, f, v))
          /\ Count(d, column, v) = Cardinality(Holding(C, g, v))
      BY <1>1 DEF Count, Cells, Parties, Envelopes, Holding
    <2> HIDE DEF C, mate, f, g
    <2> QED
      BY <1>2, <1>4, <2>1, <2>2, Exchange
  <1>6. ASSUME NEW other \in Columns \ {column}, NEW v
        PROVE  Count(d, other, v) = Count(db, other, v)
    <2>1. \A c \in C : d.signatures[c.row][other][c.party] = db.signatures[c.row][other][c.party]
      BY <1>1 DEF Cells
    <2>2. {c \in C : d.signatures[c.row][other][c.party] = v}
            = {c \in C : db.signatures[c.row][other][c.party] = v}
      BY <2>1
    <2> QED
      BY <1>1, <2>2 DEF Count, Cells, Parties, Envelopes
  <1> QED
    BY <1>1, <1>3, <1>5, <1>6 DEF SameCounts, Envelopes

-----------------------------------------------------------------------------
(* What migrations leave alone *)

\* The database that a step of a migration makes from d.
Makes(m, d) ==
    /\ \A f \in Fields \ {"schema", "applied"} : db'[f] = d[f]
    /\ saved' = saved
    /\ \/ /\ m \notin Applied(db) /\ Applied(db') = Applied(db) \cup {m} /\ Running
          /\ db'.schema = (db.schema \cup Added(m)) \ Dropped(m)
       \/ /\ m \in Applied(db) /\ Applied(db') = Applied(db) \ {m} /\ ~ Running
          /\ db'.schema = (db.schema \ (Added(m) \ Kept)) \cup Restored(m)

\* d is the database as it is, but for its data.
Converted(d) == Record(d) /\ d.schema = db.schema /\ d.applied = db.applied

LEMMA MigrationMakes ==
    ASSUME BackfillInv, DriftInv, NEW m, NEW d, Converted(d), Up(m, d) \/ Down(m, d)
    PROVE  Makes(m, d)
  <1>1. CASE Up(m, d)
    <2>1. /\ db'.schema = (db.schema \cup Added(m)) \ Dropped(m)
          /\ db'.applied = Append(db.applied, m)
          /\ \A f \in Fields \ {"schema", "applied"} : db'[f] = d[f]
          /\ saved' = saved
      BY <1>1, UpMakes DEF Converted
    <2>2. Due(m)
      BY <1>1 DEF Up
    <2>3. Applied(db') = Applied(db) \cup {m}
      BY <2>1, <2>2, TidyUp
    <2>4. Running /\ m \notin Applied(db)
      BY <2>2 DEF Due, DriftInv
    <2> QED
      BY <2>1, <2>3, <2>4 DEF Makes
  <1>2. CASE Down(m, d)
    <2>1. /\ db'.schema = (db.schema \ (Added(m) \ Kept)) \cup Restored(m)
          /\ db'.applied = Front(db.applied)
          /\ \A f \in Fields \ {"schema", "applied"} : db'[f] = d[f]
          /\ saved' = saved
      BY <1>2, DownMakes DEF Converted
    <2>2. ~ Running /\ db.applied # << >> /\ m = Last(db.applied)
      BY <1>2 DEF Down
    <2>3. Applied(db') = Applied(db) \ {m} /\ m \in Applied(db)
      BY <2>1, <2>2, TidyDown
    <2> QED
      BY <2>1, <2>2, <2>3 DEF Makes
  <1> QED
    BY <1>1, <1>2

\* The column of positions comes and goes with one migration.
LEMMA IdColumn ==
    LET l == "employees.idtb_positions" IN
    /\ \A m : l \in Added(m) => m = Related
    /\ l \in Added(Related) \ Kept
    /\ \A m : l \notin Restored(m)
  <1> DEFINE l == "employees.idtb_positions"
  <1>1. ASSUME NEW m, l \in Added(m) PROVE m = Related
    <2>1. AddedFrom(m, l)
      BY <1>1, AddedLabels
    <2> QED
      BY <2>1 DEF AddedFrom, Column, TypeEnum, Related
  <1>2. l \in Added(Related)
    BY AddsTable DEF Added, Related
  <1>3. l \notin Kept
    BY DEF Kept, AddClosedWithoutSignatureContractStatus, AddPositionsToUserPageAccessEnum,
           AddPaymentsToUserPageAccessEnum, AddSuppliesToUserPageAccessEnum
  <1>4. ASSUME NEW m PROVE l \notin Restored(m)
    <2>1. SUFFICES ASSUME l \in Dropped(m) PROVE FALSE
      BY DEF Restored
    <2>2. DroppedFrom(m, l)
      BY <2>1, DroppedLabels
    <2> QED
      BY <2>2 DEF DroppedFrom, StandardizeTimestampsWithoutTimezone, NotNull, TypeEnum
  <1> QED
    BY <1>1, <1>2, <1>3, <1>4

Conversions == {Conversion[f] : f \in BudgetFields}

LEMMA BudgetStays ==
    ASSUME BudgetWhole(db), NEW m, NEW d, Makes(m, d), m \notin Conversions,
           d.budget = db.budget, d.days = db.days
    PROVE  BudgetWhole(db') /\ SameFirstDays(db, db')
  <1>1. db'.budget = db.budget /\ db'.days = db.days
    BY DEF Makes, Fields
  <1>2. \A f \in BudgetFields : Conversion[f] \in Applied(db) => Conversion[f] \in Applied(db')
    BY DEF Makes, Conversions
  <1> QED
    BY <1>1, <1>2 DEF BudgetWhole, SameFirstDays

LEMMA RowsStay ==
    ASSUME RowsTyped(db), NEW m, NEW d, Makes(m, d), RowsTyped(d), SameCounts(db, d)
    PROVE  RowsTyped(db') /\ SameCounts(db, db')
  <1>1. db'.signatures = d.signatures
    BY DEF Makes, Fields
  <1>2. \A column, v : Count(db', column, v) = Count(d, column, v)
    BY <1>1 DEF Count
  <1> QED
    BY <1>1, <1>2 DEF RowsTyped, SameCounts

LEMMA SlotsStay ==
    ASSUME NEW m, NEW d, Makes(m, d), SameTaken(db, d) PROVE SameTaken(db, db')
  <1>1. db'.slots = d.slots
    BY DEF Makes, Fields
  <1> QED
    BY <1>1 DEF SameTaken

\* The staff, after a migration other than that from texts to positions.
LEMMA StaffStays ==
    ASSUME StaffTyped(db), NEW m, NEW d, Makes(m, d), m # Related,
           d.owner = db.owner, d.positions \subseteq Posts,
           DOMAIN d.employees = DOMAIN db.employees,
           \A e \in DOMAIN db.employees :
             /\ Employment(db, d.employees[e])
             /\ m # Reset => Alike(WordOf(db.employees[e]), WordOf(d.employees[e]))
    PROVE  StaffTyped(db') /\ SameWords(db, db')
  <1>1. db'.owner = d.owner /\ db'.positions = d.positions /\ db'.employees = d.employees
    BY DEF Makes, Fields
  <1>2. Related \in Applied(db) <=> Related \in Applied(db')
    BY DEF Makes
  <1>3. ASSUME "employees.idtb_positions" \in db'.schema PROVE Related \in Applied(db')
    <2>1. "employees.idtb_positions" \in db.schema
      BY <1>3, IdColumn DEF Makes
    <2> QED
      BY <1>2, <2>1 DEF StaffTyped
  <1>4. StaffTyped(db')
    BY <1>1, <1>2, <1>3 DEF StaffTyped, Employment
  <1>5. m = Reset => Reset \in Applied(db) \cup Applied(db')
    BY DEF Makes
  <1>6. SameWords(db, db')
    BY <1>1, <1>5 DEF SameWords
  <1> QED
    BY <1>4, <1>6

Keeps == Sound(db') /\ Same(db, db')

LEMMA StaffSame ==
    ASSUME StaffTyped(db), NEW m, NEW d, Makes(m, d), m # Related,
           d.owner = db.owner, d.positions \subseteq Posts, d.employees = db.employees
    PROVE  StaffTyped(db') /\ SameWords(db, db')
  <1>1. \A e \in DOMAIN db.employees :
          /\ Employment(db, db.employees[e])
          /\ Alike(WordOf(db.employees[e]), WordOf(db.employees[e]))
    BY DEF StaffTyped, Alike
  <1> QED
    BY <1>1, StaffStays

LEMMA RowsSame ==
    ASSUME RowsTyped(db), NEW m, NEW d, Makes(m, d), d.signatures = db.signatures
    PROVE  RowsTyped(db') /\ SameCounts(db, db')
  <1>1. RowsTyped(d) /\ SameCounts(db, d)
    BY DEF RowsTyped, SameCounts, Count
  <1> QED
    BY <1>1, RowsStay

LEMMA SlotsSame ==
    ASSUME NEW m, NEW d, Makes(m, d), d.slots = db.slots PROVE SameTaken(db, db')
  BY SlotsStay DEF SameTaken

\* What has to be kept.
Held == {"signatures", "budget", "days", "slots", "employees", "owner", "positions"}

LEMMA ConversionsAre ==
    Conversions = {"ConvertBudgetDayFieldsToArrays", "ConvertBudgetDisplacementFeeToArray",
                   "ConvertBudgetDiscountFieldsToArrays"}
  BY DEF Conversions, Conversion, BudgetFields

LEMMA QuietKeeps ==
    ASSUME Sound(db), NEW m, m \notin Conversions \cup {Related}, NEW d, Makes(m, d),
           \A f \in Held : d[f] = db[f]
    PROVE  Keeps
  <1>1. /\ d.signatures = db.signatures /\ d.budget = db.budget /\ d.days = db.days
        /\ d.slots = db.slots /\ d.employees = db.employees
        /\ d.owner = db.owner /\ d.positions = db.positions
    BY DEF Held
  <1>2. d.positions \subseteq Posts /\ m # Related /\ m \notin Conversions
    BY <1>1 DEF Sound, StaffTyped
  <1> QED
    BY <1>1, <1>2, BudgetStays, RowsSame, SlotsSame, StaffSame DEF Sound, Same, Keeps

LEMMA Unread ==
    ASSUME BackfillInv, NEW x \in Fields \ {"schema", "applied"}, NEW v
    PROVE  LET d == [db EXCEPT ![x] = v] IN
           Converted(d) /\ d[x] = v /\ \A f \in Fields : f # x => d[f] = db[f]
  <1>1. Record(db) /\ {"schema", "applied"} \subseteq Fields
    BY DEF BackfillInv, Fits, Fields
  <1> QED
    BY <1>1, FieldChange DEF Converted

LEMMA OthersKeep ==
    ASSUME BackfillInv, DriftInv, Sound(db),
           \/ ChangeSchema \/ DropPayments \/ RefactorPaymentsToAggregateByReference
           \/ AddEventNumberToEvents \/ AddStructuredAddressToLeads
    PROVE  Keeps
  <1>1. Converted(db)
    BY DEF BackfillInv, Fits, Converted
  <1>2. PICK m, d : /\ m \notin Conversions \cup {Related}
                    /\ Converted(d) /\ \A f \in Held : d[f] = db[f]
                    /\ Up(m, d) \/ Down(m, d)
    <2>1. ASSUME NEW x \in {"payments", "events", "street"}, NEW v
          PROVE  LET d == [db EXCEPT ![x] = v] IN
                 Converted(d) /\ \A f \in Held : d[f] = db[f]
      <3>1. x \in Fields \ {"schema", "applied"} /\ Held \subseteq Fields \ {x}
        BY DEF Fields, Held
      <3> QED
        BY <3>1, Unread
    <2>2. CASE ChangeSchema
      <3>1. PICK m : m \notin WithData /\ (Up(m, db) \/ Down(m, db))
        BY <2>2 DEF ChangeSchema
      <3>2. m \notin Conversions \cup {Related}
        BY <3>1, ConversionsAre DEF WithData, Related
      <3> QED
        BY <1>1, <3>1, <3>2
    <2>3. CASE DropPayments
      <3>1. PICK v : Down("CreatePaymentsTable", [db EXCEPT !["payments"] = v])
        BY <2>3 DEF DropPayments
      <3>2. "CreatePaymentsTable" \notin Conversions \cup {Related}
        BY ConversionsAre DEF Related
      <3> QED
        BY <2>1, <3>1, <3>2
    <2>4. CASE RefactorPaymentsToAggregateByReference
      <3>1. PICK v : \/ Up(Items, [db EXCEPT !["payments"] = v])
                     \/ Down(Items, [db EXCEPT !["payments"] = v])
        BY <2>4 DEF RefactorPaymentsToAggregateByReference, Items
      <3>2. Items \notin Conversions \cup {Related}
        BY ConversionsAre DEF Related, Items
      <3> QED
        BY <2>1, <3>1, <3>2
    <2>5. CASE AddEventNumberToEvents
      <3>1. PICK v : \/ Up(Numbers, [db EXCEPT !["events"] = v])
                     \/ Down(Numbers, [db EXCEPT !["events"] = v])
        BY <2>5 DEF AddEventNumberToEvents, Numbers
      <3>2. Numbers \notin Conversions \cup {Related}
        BY ConversionsAre DEF Related, Numbers
      <3> QED
        BY <2>1, <3>1, <3>2
    <2>6. CASE AddStructuredAddressToLeads
      <3>1. PICK v : \/ Up("AddStructuredAddressToLeads", [db EXCEPT !["street"] = v])
                     \/ Down("AddStructuredAddressToLeads", [db EXCEPT !["street"] = v])
        BY <2>6 DEF AddStructuredAddressToLeads
      <3>2. "AddStructuredAddressToLeads" \notin Conversions \cup {Related}
        BY ConversionsAre DEF Related
      <3> QED
        BY <2>1, <3>1, <3>2
    <2> QED
      BY <2>2, <2>3, <2>4, <2>5, <2>6
  <1> QED
    BY <1>2, MigrationMakes, QuietKeeps

-----------------------------------------------------------------------------
(* What migrations convert *)

LEMMA SignaturesKept ==
    ASSUME BackfillInv, DriftInv, Sound(db),
           AddSignerTypeAndFixSignatureDates \/ FixSwappedSignatureDocuments
    PROVE  Keeps
  <1>1. Converted(db) /\ RowsTyped(db)
    BY DEF BackfillInv, Fits, Converted, Sound
  <1> DEFINE Swaps(d) == \E pairs \in SUBSET Pairs, column \in Columns :
                           /\ OncePaired(pairs)
                           /\ d = [db EXCEPT !["signatures"] = Swapped(pairs, column)]
             dates == "AddSignerTypeAndFixSignatureDates"
             documents == "FixSwappedSignatureDocuments"
  <1>2. PICK m, d :
          m \in {dates, documents} /\ (d = db \/ Swaps(d)) /\ (Up(m, d) \/ Down(m, d))
    <2>1. ASSUME NEW pairs \in SUBSET Pairs, OncePaired(pairs), NEW column \in Columns
          PROVE  Swaps([db EXCEPT !["signatures"] = Swapped(pairs, column)])
      BY <2>1
    <2>2. "date" \in Columns /\ "document" \in Columns
      BY DEF Columns
    <2> HIDE DEF Swaps
    <2>3. CASE AddSignerTypeAndFixSignatureDates
      <3>1. PICK pairs \in SUBSET Pairs :
              /\ OncePaired(pairs)
              /\ \/ Up(dates, [db EXCEPT !["signatures"] = Swapped(pairs, "date")])
                 \/ Down(dates, [db EXCEPT !["signatures"] = Swapped(pairs, "date")])
        BY <2>3 DEF AddSignerTypeAndFixSignatureDates
      <3> QED
        BY <2>1, <2>2, <3>1
    <2>4. CASE FixSwappedSignatureDocuments
      <3>1. \/ Up(documents, db) \/ Down(documents, db)
            \/ \E pairs \in SUBSET Pairs :
              /\ OncePaired(pairs)
              /\ \/ Up(documents, [db EXCEPT !["signatures"] = Swapped(pairs, "document")])
                 \/ Down(documents, [db EXCEPT !["signatures"] = Swapped(pairs, "document")])
        BY <2>4 DEF FixSwappedSignatureDocuments
      <3> QED
        BY <2>1, <2>2, <3>1
    <2> QED
      BY <2>3, <2>4
  <1> DEFINE Fine == /\ Converted(d) /\ RowsTyped(d) /\ SameCounts(db, d)
                      /\ \A f \in Held \ {"signatures"} : d[f] = db[f]
  <1>3. Fine
    <2>1. CASE d = db
      BY <1>1, <2>1 DEF SameCounts
    <2>2. ASSUME NEW pairs \in SUBSET Pairs, NEW column \in Columns, OncePaired(pairs),
                 d = [db EXCEPT !["signatures"] = Swapped(pairs, column)]
          PROVE  Fine
      <3> DEFINE rows == Swapped(pairs, column)
      <3>1. "signatures" \in Fields \ {"schema", "applied"} /\ Held \subseteq Fields
        BY DEF Fields, Held
      <3>2. d = [db EXCEPT !["signatures"] = rows]
        BY <2>2
      <3> HIDE DEF rows
      <3>3. LET e == [db EXCEPT !["signatures"] = rows] IN
            /\ Converted(e) /\ e["signatures"] = rows
            /\ \A f \in Held \ {"signatures"} : e[f] = db[f]
        BY <3>1, Unread
      <3>4. RowsTyped(d) /\ SameCounts(db, d)
        BY <1>1, <2>2, <3>2, <3>3, SwapKeeps DEF rows
      <3> QED
        BY <3>2, <3>3, <3>4
    <2> HIDE DEF Fine
    <2> QED
      BY <1>2, <2>1, <2>2
  <1>4. /\ d.budget = db.budget /\ d.days = db.days /\ d.slots = db.slots
        /\ d.employees = db.employees /\ d.owner = db.owner /\ d.positions = db.positions
    BY <1>3 DEF Held
  <1>5. m \notin Conversions /\ m # Related /\ d.positions \subseteq Posts
    BY <1>2, <1>4, ConversionsAre DEF Related, Sound, StaffTyped
  <1>6. Makes(m, d)
    BY <1>2, <1>3, MigrationMakes
  <1> QED
    BY <1>3, <1>4, <1>5, <1>6, BudgetStays, RowsStay, SlotsSame, StaffSame
       DEF Sound, Same, Keeps

LEMMA SlotsKept ==
    ASSUME BackfillInv, DriftInv, Sound(db), RemoveStaffSlotsForSupplyItems
    PROVE  Keeps
  <1> DEFINE name == "RemoveStaffSlotsForSupplyItems"
             rest == {s \in db.slots : s.taken \/ s.line \notin {"supply", "legacy"}}
  <1>1. PICK d : /\ d \in {[[db EXCEPT !["slots"] = rest] EXCEPT !["legacyActive"] = FALSE],
                           [db EXCEPT !["legacyActive"] = TRUE]}
                 /\ Up(name, d) \/ Down(name, d)
    BY DEF RemoveStaffSlotsForSupplyItems
  <1>2. /\ Converted(d) /\ d.slots \in {rest, db.slots}
        /\ \A f \in Held \ {"slots"} : d[f] = db[f]
    BY <1>1 DEF Converted, BackfillInv, Fits, Record, Fields, Held
  <1>3. SameTaken(db, d)
    BY <1>2 DEF SameTaken
  <1>4. /\ d.signatures = db.signatures /\ d.budget = db.budget /\ d.days = db.days
        /\ d.employees = db.employees /\ d.owner = db.owner /\ d.positions = db.positions
    BY <1>2 DEF Held
  <1>5. name \notin Conversions /\ name # Related /\ d.positions \subseteq Posts
    BY <1>4, ConversionsAre DEF Related, Sound, StaffTyped
  <1>6. Makes(name, d)
    BY <1>1, <1>2, MigrationMakes
  <1> QED
    BY <1>3, <1>4, <1>5, <1>6, BudgetStays, RowsSame, SlotsStay, StaffSame
       DEF Sound, Same, Keeps

LEMMA Copies ==
    ASSUME NEW k \in Nat, NEW x
    PROVE  LET c == [i \in 1 .. (IF k = 0 THEN 1 ELSE k) |-> x] IN c # << >> /\ c[1] = x
  <1>1. 1 \in 1 .. (IF k = 0 THEN 1 ELSE k)
    OBVIOUS
  <1>2. DOMAIN << >> = {}
    OBVIOUS
  <1> QED
    BY <1>1, <1>2

LEMMA FirstOf ==
    ASSUME NEW s
    PROVE  LET a == [each |-> TRUE, values |-> s] IN
           /\ "values" \in DOMAIN a
           /\ s = << >> \/ s[1] \in {None, "0", ""} => FirstDay(a) = None
           /\ s # << >> /\ s[1] \notin {None, "0", ""} => FirstDay(a) = s[1]
  BY DEF FirstDay

\* The first day of an array has the value there was.
LEMMA ToArrayKeeps ==
    ASSUME NEW k \in Nat, db.days = k, NEW field, field.values # << >>,
           NEW empty \in {None, "0", ""}
    PROVE  LET a == ToArray(field, empty) IN
           "values" \in DOMAIN a /\ FirstDay(a) = FirstDay(field)
  <1> DEFINE v == field.values[1]
             copies(x) == [i \in 1 .. (IF k = 0 THEN 1 ELSE k) |-> x]
             all == IF v # None THEN copies(v)
                    ELSE IF empty # None THEN copies(empty) ELSE << >>
  <1>1. ToArray(field, empty) = [each |-> TRUE, values |-> all]
    BY DEF ToArray
  <1>2. copies(v) # << >> /\ copies(v)[1] = v /\ copies(empty) # << >> /\ copies(empty)[1] = empty
    <2>1. ASSUME NEW x PROVE copies(x) # << >> /\ copies(x)[1] = x
      BY Copies
    <2> HIDE DEF copies
    <2> QED
      BY <2>1
  <1>3. FirstDay(field) = IF v \in {None, "0", ""} THEN None ELSE v
    BY DEF FirstDay
  <1> HIDE DEF copies, v
  <1>4. \/ v # None /\ all # << >> /\ all[1] = v
        \/ v = None /\ all = << >>
        \/ v = None /\ all # << >> /\ all[1] = empty
    BY <1>2
  <1> HIDE DEF all
  <1> DEFINE a == [each |-> TRUE, values |-> all]
  <1>5. /\ "values" \in DOMAIN a
        /\ all = << >> \/ all[1] \in {None, "0", ""} => FirstDay(a) = None
        /\ all # << >> /\ all[1] \notin {None, "0", ""} => FirstDay(a) = all[1]
    BY FirstOf
  <1> HIDE DEF a
  <1>6. FirstDay(a) = FirstDay(field)
    BY <1>3, <1>4, <1>5
  <1> QED
    BY <1>1, <1>5, <1>6 DEF a

\* The one value of a field is that of the first day.
LEMMA ToValueKeeps ==
    ASSUME NEW field, NEW default \in {None, "0"}
    PROVE  LET a == ToValue(field, default) IN
           "values" \in DOMAIN a /\ a.values # << >> /\ FirstDay(a) = FirstDay(field)
  BY DEF ToValue, One, FirstDay

LEMMA DueIsNew == ASSUME DriftInv, NEW m, Due(m) PROVE m \notin Applied(db) /\ Running
  BY DEF DriftInv, Due

\* A conversion of fields of the budget.
LEMMA BudgetConverted ==
    ASSUME Sound(db), NEW m \in Conversions, NEW d, Makes(m, d),
           \A f \in Held \ {"budget"} : d[f] = db[f],
           DOMAIN d.budget = BudgetFields,
           \A f \in BudgetFields :
             /\ "values" \in DOMAIN d.budget[f]
             /\ FirstDay(d.budget[f]) = FirstDay(db.budget[f])
             /\ Conversion[f] # m => d.budget[f] = db.budget[f]
             /\ Conversion[f] = m => Running \/ d.budget[f].values # << >>
    PROVE  Keeps
  <1>1. /\ d.signatures = db.signatures /\ d.days = db.days
        /\ d.slots = db.slots /\ d.employees = db.employees
        /\ d.owner = db.owner /\ d.positions = db.positions
    BY DEF Held
  <1>2. d.positions \subseteq Posts /\ m # Related
    BY <1>1, ConversionsAre DEF Sound, StaffTyped, Related
  <1>3. db'.budget = d.budget /\ db'.days = d.days
    BY DEF Makes, Fields
  <1>4. ASSUME NEW f \in BudgetFields, Conversion[f] \notin Applied(db')
        PROVE  d.budget[f].values # << >>
    <2>1. CASE Conversion[f] = m
      BY <1>4, <2>1 DEF Makes
    <2>2. CASE Conversion[f] # m
      <3>1. Conversion[f] \notin Applied(db)
        BY <1>4, <2>2 DEF Makes
      <3> QED
        BY <2>2, <3>1 DEF Sound, BudgetWhole
    <2> QED
      BY <2>1, <2>2
  <1>5. BudgetWhole(db') /\ SameFirstDays(db, db')
    BY <1>1, <1>3, <1>4 DEF BudgetWhole, SameFirstDays, Sound
  <1> QED
    BY <1>1, <1>2, <1>5, RowsSame, SlotsSame, StaffSame DEF Sound, Same, Keeps

LEMMA BudgetKept ==
    ASSUME BackfillInv, DriftInv, Sound(db),
           \/ ConvertBudgetDayFieldsToArrays \/ ConvertBudgetDisplacementFeeToArray
           \/ ConvertBudgetDiscountFieldsToArrays \/ RemoveDiscountsOfDays
    PROVE  Keeps
  <1> DEFINE b == db.budget
             days == "ConvertBudgetDayFieldsToArrays"
             fees == "ConvertBudgetDisplacementFeeToArray"
             discounts == "ConvertBudgetDiscountFieldsToArrays"
  <1>1. /\ DOMAIN b = BudgetFields /\ db.days \in Nat
        /\ \A f \in BudgetFields : "values" \in DOMAIN b[f]
        /\ \A f \in BudgetFields : Conversion[f] \notin Applied(db) => b[f].values # << >>
    BY DEF Sound, BudgetWhole
  <1>2. ASSUME NEW c, DOMAIN c = BudgetFields, NEW m \in Conversions,
               \A f \in BudgetFields :
                 /\ "values" \in DOMAIN c[f] /\ FirstDay(c[f]) = FirstDay(b[f])
                 /\ Conversion[f] # m => c[f] = b[f],
               \/ Up(m, [db EXCEPT !["budget"] = c])
               \/ /\ Down(m, [db EXCEPT !["budget"] = c])
                  /\ \A f \in BudgetFields : Conversion[f] = m => c[f].values # << >>
        PROVE  Keeps
    <2> DEFINE d == [db EXCEPT !["budget"] = c]
    <2>1. "budget" \in Fields \ {"schema", "applied"} /\ Held \subseteq Fields
      BY DEF Fields, Held
    <2>2. Converted(d) /\ d["budget"] = c /\ \A f \in Held \ {"budget"} : d[f] = db[f]
      BY <2>1, Unread
    <2>3. Up(m, d) \/ Down(m, d)
      BY <1>2
    <2>4. Up(m, d) => Running
      BY DEF Up, Due
    <2>5. \A f \in BudgetFields : Conversion[f] = m => Running \/ c[f].values # << >>
      BY <1>2, <2>4
    <2> HIDE DEF d
    <2>6. Makes(m, d) /\ d.budget = c
      BY <2>2, <2>3, MigrationMakes
    <2> QED
      BY <1>2, <2>2, <2>5, <2>6, BudgetConverted
  <1>3. /\ Conversion["location"] = days /\ Conversion["fee"] = fees
        /\ Conversion["percentage"] = discounts /\ Conversion["kind"] = discounts
        /\ days \in Conversions /\ fees \in Conversions /\ discounts \in Conversions
        /\ days # fees /\ days # discounts /\ fees # discounts
    BY ConversionsAre DEF Conversion
  <1>4. /\ "location" \in BudgetFields /\ "fee" \in BudgetFields
        /\ "percentage" \in BudgetFields /\ "kind" \in BudgetFields
        /\ \A f \in BudgetFields : f \in {"location", "fee", "percentage", "kind"}
    BY DEF BudgetFields
  \* A field that is the only one of its migration.
  <1>5. ASSUME NEW x \in {"location", "fee"}, NEW default \in {None, "0"},
               \/ Up(Conversion[x], [db EXCEPT !["budget"] = [b EXCEPT ![x] = ToArray(b[x], None)]])
               \/ Down(Conversion[x],
                      [db EXCEPT !["budget"] = [b EXCEPT ![x] = ToValue(b[x], default)]])
        PROVE  Keeps
    <2> DEFINE m == Conversion[x]
               more == ToArray(b[x], None)
               less == ToValue(b[x], default)
               with(y) == [b EXCEPT ![x] = y]
    <2>1. /\ x \in BudgetFields /\ m \in Conversions
          /\ \A f \in BudgetFields : Conversion[f] = m => f = x
      BY <1>3, <1>4
    <2>2. ASSUME Up(m, [db EXCEPT !["budget"] = with(more)])
          PROVE  "values" \in DOMAIN more /\ FirstDay(more) = FirstDay(b[x])
      <3>1. b[x].values # << >>
        BY <1>1, <2>1, <2>2, DueIsNew DEF Up
      <3> QED
        BY <1>1, <3>1, ToArrayKeeps
    <2>3. "values" \in DOMAIN less /\ less.values # << >> /\ FirstDay(less) = FirstDay(b[x])
      BY ToValueKeeps
    <2> HIDE DEF more, less, b, m
    <2>4. ASSUME NEW y, "values" \in DOMAIN y, FirstDay(y) = FirstDay(b[x])
          PROVE  /\ DOMAIN with(y) = BudgetFields /\ with(y)[x] = y
                 /\ \A f \in BudgetFields :
                      /\ "values" \in DOMAIN with(y)[f] /\ FirstDay(with(y)[f]) = FirstDay(b[f])
                      /\ Conversion[f] # m => with(y)[f] = b[f]
                 /\ \A f \in BudgetFields : Conversion[f] = m => with(y)[f] = y
      BY <1>1, <2>1, <2>4 DEF m
    <2>5. \/ Up(m, [db EXCEPT !["budget"] = with(more)])
          \/ Down(m, [db EXCEPT !["budget"] = with(less)])
      BY <1>5 DEF more, less, m, b
    <2> HIDE DEF with
    <2>6. CASE Up(m, [db EXCEPT !["budget"] = with(more)])
      BY <1>2, <2>1, <2>2, <2>4, <2>6
    <2>7. CASE Down(m, [db EXCEPT !["budget"] = with(less)])
      BY <1>2, <2>1, <2>3, <2>4, <2>7
    <2> QED
      BY <2>5, <2>6, <2>7
  <1>6. CASE ConvertBudgetDayFieldsToArrays
    <2>1. \/ Up(days, [db EXCEPT !["budget"] = [b EXCEPT !["location"] = ToArray(b["location"], None)]])
          \/ Down(days, [db EXCEPT !["budget"] = [b EXCEPT !["location"] = ToValue(b["location"], None)]])
      BY <1>6 DEF ConvertBudgetDayFieldsToArrays
    <2> HIDE DEF b
    <2> QED
      BY <1>3, <1>5, <2>1
  <1>7. CASE ConvertBudgetDisplacementFeeToArray
    <2>1. \/ Up(fees, [db EXCEPT !["budget"] = [b EXCEPT !["fee"] = ToArray(b["fee"], None)]])
          \/ Down(fees, [db EXCEPT !["budget"] = [b EXCEPT !["fee"] = ToValue(b["fee"], "0")]])
      BY <1>7 DEF ConvertBudgetDisplacementFeeToArray
    <2> HIDE DEF b
    <2> QED
      BY <1>3, <1>5, <2>1
  \* The two fields of discounts.
  <1> DEFINE with(y, z) == [[b EXCEPT !["percentage"] = y] EXCEPT !["kind"] = z]
  <1>8. ASSUME NEW y, "values" \in DOMAIN y, FirstDay(y) = FirstDay(b["percentage"]),
               NEW z, "values" \in DOMAIN z, FirstDay(z) = FirstDay(b["kind"])
        PROVE  /\ DOMAIN with(y, z) = BudgetFields
               /\ with(y, z)["percentage"] = y /\ with(y, z)["kind"] = z
               /\ \A f \in BudgetFields :
                    /\ "values" \in DOMAIN with(y, z)[f]
                    /\ FirstDay(with(y, z)[f]) = FirstDay(b[f])
                    /\ Conversion[f] # discounts => with(y, z)[f] = b[f]
               /\ \A f \in BudgetFields : Conversion[f] = discounts => with(y, z)[f] \in {y, z}
    <2> HIDE DEF b
    <2> QED
      BY <1>1, <1>3, <1>4, <1>8
  <1>9. ASSUME NEW y, NEW z
        PROVE  [db EXCEPT !.budget.percentage = y, !.budget.kind = z]
                 = [db EXCEPT !["budget"] = with(y, z)]
    <2>1. Record(db) /\ "budget" \in Fields
      BY DEF BackfillInv, Fits, Fields
    <2> QED
      BY <2>1 DEF Record
  <1>10. CASE ConvertBudgetDiscountFieldsToArrays
    <2> DEFINE more == ToArray(b["percentage"], "0")
               kinds == ToArray(b["kind"], "")
    <2>1. [db EXCEPT !.budget.percentage = ToArray(@, "0"), !.budget.kind = ToArray(@, "")]
            = [db EXCEPT !.budget.percentage = more, !.budget.kind = kinds]
      <3>1. Record(db) /\ "budget" \in Fields
        BY DEF BackfillInv, Fits, Fields
      <3> QED
        BY <3>1 DEF Record
    <2>2. Up(discounts, [db EXCEPT !["budget"] = with(more, kinds)])
      BY <1>9, <1>10, <2>1 DEF ConvertBudgetDiscountFieldsToArrays
    <2>3. b["percentage"].values # << >> /\ b["kind"].values # << >>
      BY <1>1, <1>3, <1>4, <2>2, DueIsNew DEF Up
    <2>4. /\ "values" \in DOMAIN more /\ FirstDay(more) = FirstDay(b["percentage"])
          /\ "values" \in DOMAIN kinds /\ FirstDay(kinds) = FirstDay(b["kind"])
      BY <1>1, <2>3, ToArrayKeeps
    <2> HIDE DEF more, kinds, b, with
    <2> QED
      BY <1>2, <1>3, <1>8, <2>2, <2>4
  <1>11. CASE RemoveDiscountsOfDays
    <2> DEFINE kind == ToValue(b["kind"], None)
               none == One(IF kind.values[1] = "" THEN None ELSE kind.values[1])
               less == ToValue(b["percentage"], None)
    <2>1. [db EXCEPT !.budget.percentage = ToValue(@, None), !.budget.kind = none]
            = [db EXCEPT !.budget.percentage = less, !.budget.kind = none]
      <3>1. Record(db) /\ "budget" \in Fields
        BY DEF BackfillInv, Fits, Fields
      <3> HIDE DEF none
      <3> QED
        BY <3>1 DEF Record
    <2>2. Down(discounts, [db EXCEPT !["budget"] = with(less, none)])
      BY <1>9, <1>11, <2>1 DEF RemoveDiscountsOfDays
    <2>3. /\ "values" \in DOMAIN less /\ less.values # << >>
          /\ FirstDay(less) = FirstDay(b["percentage"])
          /\ FirstDay(kind) = FirstDay(b["kind"])
      BY ToValueKeeps
    <2>4. "values" \in DOMAIN none /\ none.values # << >> /\ FirstDay(none) = FirstDay(kind)
      <3>1. kind = One(kind.values[1])
        BY DEF ToValue, One
      <3> HIDE DEF kind
      <3> QED
        BY <3>1 DEF One, FirstDay
    <2> HIDE DEF less, none, b, with, kind
    <2> QED
      BY <1>2, <1>3, <1>8, <2>2, <2>3, <2>4
  <1> QED
    BY <1>6, <1>7, <1>10, <1>11

-----------------------------------------------------------------------------
(* Employees *)

LEMMA StaffChange ==
    ASSUME Sound(db), NEW m, m \notin Conversions \cup {Related}, NEW d, Makes(m, d),
           \A f \in Held \ {"employees", "positions"} : d[f] = db[f],
           d.positions \subseteq Posts, DOMAIN d.employees = DOMAIN db.employees,
           \A e \in DOMAIN db.employees :
             /\ Employment(db, d.employees[e])
             /\ m # Reset => Alike(WordOf(db.employees[e]), WordOf(d.employees[e]))
    PROVE  Keeps
  <1>1. /\ d.signatures = db.signatures /\ d.budget = db.budget /\ d.days = db.days
        /\ d.slots = db.slots /\ d.owner = db.owner
    BY DEF Held
  <1>2. BudgetWhole(db') /\ SameFirstDays(db, db')
    BY <1>1, BudgetStays DEF Sound
  <1>3. RowsTyped(db') /\ SameCounts(db, db') /\ SameTaken(db, db')
    BY <1>1, RowsSame, SlotsSame DEF Sound
  <1>4. StaffTyped(db') /\ SameWords(db, db')
    BY <1>1, StaffStays DEF Sound
  <1> QED
    BY <1>2, <1>3, <1>4 DEF Sound, Same, Keeps

\* What is held but for employees and positions.
Alone(d) == Converted(d) /\ \A f \in Held \ {"employees", "positions"} : d[f] = db[f]

LEMMA PositionsAndItems ==
    ASSUME BackfillInv, NEW v, NEW u
    PROVE  LET d == [db EXCEPT !.positions = v, !.items = u]
           IN  Alone(d) /\ d.positions = v /\ d.employees = db.employees
  BY DEF BackfillInv, Fits, Record, Fields, Held, Converted, Alone

LEMMA PositionsAndEmployees ==
    ASSUME BackfillInv, NEW v, NEW w
    PROVE  LET d == [db EXCEPT !.positions = v, !.employees = w]
           IN  Alone(d) /\ d.positions = v /\ d.employees = w
  BY DEF BackfillInv, Fits, Record, Fields, Held, Converted, Alone

LEMMA EmployeesOnly ==
    ASSUME BackfillInv, NEW w
    PROVE  LET d == [db EXCEPT !.employees = w]
           IN  Alone(d) /\ d.positions = db.positions /\ d.employees = w
  BY DEF BackfillInv, Fits, Record, Fields, Held, Converted, Alone

\* Positions that are added are named by their word.
LEMMA WithPosts ==
    ASSUME NEW positions, positions \subseteq Posts, NEW owner \in Owners, NEW words \in SUBSET Words
    PROVE  With(positions, owner, words) \subseteq Posts
  <1>1. ASSUME NEW w \in words
        PROVE  [owner |-> owner, word |-> w, name |-> <<w, "plain">>] \in Posts
    BY DEF Posts, Positions, Texts
  <1> QED
    BY <1>1 DEF With

\* Documents have nothing to do with it.
LEMMA DocumentsApart ==
    ASSUME NEW d, NEW employee, NEW v, Employment(d, employee)
    PROVE  LET e == [employee EXCEPT !.document = v] IN
           Employment(d, e) /\ WordOf(e) = WordOf(employee)
  <1> DEFINE e == [employee EXCEPT !.document = v]
  <1>1. /\ DOMAIN e = DOMAIN employee /\ {"text", "position"} \subseteq DOMAIN employee
        /\ e.text = employee.text /\ e.position = employee.position
    BY DEF Employment
  <1> HIDE DEF e
  <1>2. Employment(d, e) /\ WordOf(e) = WordOf(employee)
    BY <1>1 DEF Employment, WordOf
  <1> QED
    BY <1>2 DEF e

LEMMA StaffKept ==
    ASSUME BackfillInv, DriftInv, Sound(db),
           \/ MakeEmployeeDocumentNullable \/ BackfillBudgetItemsPositions
           \/ ResetPositionsAndDependencies \/ SeedDefaultPositionsAndMapBudgetItems
    PROVE  Keeps
  <1>1. /\ db.owner \in Owners /\ db.positions \subseteq Posts
        /\ \A e \in Employees : Employment(db, db.employees[e])
        /\ Employees = DOMAIN db.employees
        /\ Alone(db)
    BY DEF Sound, StaffTyped, Employees, BackfillInv, Fits, Converted, Alone
  <1>2. ASSUME NEW m, m \notin Conversions \cup {Related}, NEW d, Alone(d), Up(m, d) \/ Down(m, d),
               d.positions \subseteq Posts, DOMAIN d.employees = Employees,
               \A e \in Employees :
                 /\ Employment(db, d.employees[e])
                 /\ m # Reset => WordOf(d.employees[e]) = WordOf(db.employees[e])
        PROVE  Keeps
    <2>1. Makes(m, d)
      BY <1>2, MigrationMakes DEF Alone
    <2> QED
      BY <1>1, <1>2, <2>1, StaffChange DEF Alike, Alone
  <1>3. CASE MakeEmployeeDocumentNullable
    <2> DEFINE with(old, new) ==
                 [e \in Employees |->
                    [db.employees[e] EXCEPT !.document = IF @ = old THEN new ELSE @]]
    <2>1. PICK w \in {with("", None), with(None, "zeros")} :
            \/ Up("MakeEmployeeDocumentNullable", [db EXCEPT !.employees = w])
            \/ Down("MakeEmployeeDocumentNullable", [db EXCEPT !.employees = w])
      BY <1>3 DEF MakeEmployeeDocumentNullable
    <2>2. ASSUME NEW old, NEW new, NEW e \in Employees
          PROVE  /\ Employment(db, with(old, new)[e])
                 /\ WordOf(with(old, new)[e]) = WordOf(db.employees[e])
      <3>1. PICK v : with(old, new)[e] = [db.employees[e] EXCEPT !.document = v]
        OBVIOUS
      <3> DEFINE x == [db.employees[e] EXCEPT !.document = v]
      <3>2. Employment(db, x) /\ WordOf(x) = WordOf(db.employees[e])
        <4>1. Employment(db, db.employees[e])
          BY <1>1
        <4> QED
          BY <4>1, DocumentsApart
      <3>3. with(old, new)[e] = x
        BY <3>1
      <3> HIDE DEF x, with
      <3> QED
        BY <3>2, <3>3
    <2>3. \A old, new : DOMAIN with(old, new) = Employees
      OBVIOUS
    <2> HIDE DEF with
    <2>4. /\ DOMAIN w = Employees
          /\ \A e \in Employees : Employment(db, w[e]) /\ WordOf(w[e]) = WordOf(db.employees[e])
      BY <2>1, <2>2, <2>3
    <2> DEFINE d == [db EXCEPT !.employees = w]
    <2>5. Alone(d) /\ d.positions = db.positions /\ d.employees = w
      BY EmployeesOnly
    <2>6. "MakeEmployeeDocumentNullable" \notin Conversions \cup {Related}
      BY ConversionsAre DEF Related
    <2>7. Up("MakeEmployeeDocumentNullable", d) \/ Down("MakeEmployeeDocumentNullable", d)
      BY <2>1
    <2> HIDE DEF d
    <2> QED
      BY <1>1, <1>2, <2>4, <2>5, <2>6, <2>7
  <1>4. CASE BackfillBudgetItemsPositions
    <2> DEFINE name == "BackfillBudgetItemsPositions"
               asked == {db.items[i].word : i \in {j \in DOMAIN db.items : db.items[j].position = None}}
               words == asked \cap InferredWords
               v == With(db.positions, db.owner, words)
    <2>1. PICK u : Up(name, [db EXCEPT !.positions = v, !.items = u]) \/ Down(name, db)
      BY <1>4 DEF BackfillBudgetItemsPositions
    <2>2. words \in SUBSET Words
      BY DEF Words
    <2>3. v \subseteq Posts
      <3> HIDE DEF words
      <3> QED
        BY <1>1, <2>2, WithPosts
    <2> HIDE DEF v
    <2> DEFINE d == [db EXCEPT !.positions = v, !.items = u]
    <2>4. Alone(d) /\ d.positions = v /\ d.employees = db.employees
      BY PositionsAndItems
    <2>5. name \notin Conversions \cup {Related}
      BY ConversionsAre DEF Related
    <2>6. Up(name, d) \/ Down(name, db)
      BY <2>1
    <2> HIDE DEF d, name
    <2>7. CASE Up(name, d)
      BY <1>1, <1>2, <2>3, <2>4, <2>5, <2>7
    <2>8. CASE Down(name, db)
      BY <1>1, <1>2, <2>4, <2>5, <2>8
    <2> QED
      BY <2>6, <2>7, <2>8
  <1>5. CASE ResetPositionsAndDependencies
    <2> DEFINE w == [e \in Employees |-> [db.employees[e] EXCEPT !.position = None]]
    <2>1. PICK u : \/ Up(Reset, [db EXCEPT !.positions = {}, !.items = u, !.employees = w])
                   \/ Down(Reset, db)
      BY <1>5 DEF ResetPositionsAndDependencies, Reset
    <2>2. ASSUME NEW e \in Employees PROVE Employment(db, w[e])
      <3>1. Employment(db, db.employees[e])
        BY <1>1
      <3> QED
        BY <3>1 DEF Employment
    <2> DEFINE none == {}
               d == [db EXCEPT !.positions = none, !.items = u, !.employees = w]
    <2>3. DOMAIN w = Employees /\ none \subseteq Posts
      OBVIOUS
    <2> HIDE DEF w, none
    <2>4. Alone(d) /\ d.positions = none /\ d.employees = w
      BY DEF BackfillInv, Fits, Record, Fields, Held, Converted, Alone
    <2>5. Reset \notin Conversions \cup {Related}
      BY ConversionsAre DEF Related, Reset
    <2>6. Up(Reset, d) \/ Down(Reset, db)
      BY <2>1 DEF none
    <2> HIDE DEF d
    <2>7. CASE Up(Reset, d)
      BY <1>2, <2>2, <2>3, <2>4, <2>5, <2>7
    <2>8. CASE Down(Reset, db)
      BY <1>1, <1>2, <2>4, <2>5, <2>8
    <2> QED
      BY <2>6, <2>7, <2>8
  <1>6. CASE SeedDefaultPositionsAndMapBudgetItems
    <2> DEFINE name == "SeedDefaultPositionsAndMapBudgetItems"
               more == With(db.positions, "seed", SeededWords)
               less == db.positions \ {p \in db.positions : p.owner = "seed" /\ p.word \in SeededWords}
    <2>1. PICK v, u :
            /\ v \in {more, less}
            /\ \/ Up(name, [db EXCEPT !.positions = v, !.items = u])
               \/ Down(name, [db EXCEPT !.positions = v, !.items = u])
      <3> DEFINE Taken(v, u) == [db EXCEPT !.positions = v, !.items = u]
      <3>1. (\E u : Up(name, Taken(more, u))) \/ (\E u : Down(name, Taken(less, u)))
        BY <1>6 DEF SeedDefaultPositionsAndMapBudgetItems
      <3>2. \E v, u : v \in {more, less} /\ (Up(name, Taken(v, u)) \/ Down(name, Taken(v, u)))
        <4> HIDE DEF more, less, name, Taken
        <4> QED
          BY <3>1
      <3> QED
        BY <3>2
    <2>2. SeededWords \in SUBSET Words /\ "seed" \in Owners
      BY DEF Words, InferredWords, Owners
    <2>3. more \subseteq Posts /\ less \subseteq Posts
      BY <1>1, <2>2, WithPosts
    <2> HIDE DEF more, less
    <2> DEFINE d == [db EXCEPT !.positions = v, !.items = u]
    <2>4. Alone(d) /\ d.positions = v /\ d.employees = db.employees
      BY PositionsAndItems
    <2>5. name \notin Conversions \cup {Related}
      BY ConversionsAre DEF Related
    <2>6. Up(name, d) \/ Down(name, d)
      BY <2>1
    <2>7. v \subseteq Posts
      BY <2>1, <2>3
    <2> HIDE DEF d, name
    <2> QED
      BY <1>1, <1>2, <2>4, <2>5, <2>6, <2>7
  <1> QED
    BY <1>3, <1>4, <1>5, <1>6

\* Texts become positions, or positions texts.
LEMMA TextsConverted ==
    ASSUME Sound(db), NEW d, Makes(Related, d), Alone(d), d.positions \subseteq Posts,
           DOMAIN d.employees = DOMAIN db.employees,
           \A e \in DOMAIN db.employees :
             LET x == d.employees[e] IN
             /\ {"text", "position"} \subseteq DOMAIN x
             /\ IF Running THEN x.text = None /\ x.position \in Posts
                ELSE x.text \in Texts /\ x.position = None
             /\ Alike(WordOf(db.employees[e]), WordOf(x))
    PROVE  Keeps
  <1>1. /\ d.signatures = db.signatures /\ d.budget = db.budget /\ d.days = db.days
        /\ d.slots = db.slots /\ d.owner = db.owner
    BY DEF Held, Alone
  <1>2. Related \notin Conversions
    BY ConversionsAre DEF Related
  <1>3. BudgetWhole(db') /\ SameFirstDays(db, db')
    BY <1>1, <1>2, BudgetStays DEF Sound
  <1>4. RowsTyped(db') /\ SameCounts(db, db') /\ SameTaken(db, db')
    BY <1>1, RowsSame, SlotsSame DEF Sound
  <1>5. db'.owner = d.owner /\ db'.positions = d.positions /\ db'.employees = d.employees
    BY DEF Makes, Fields
  <1>6. /\ Running <=> Related \in Applied(db')
        /\ ~ Running => "employees.idtb_positions" \notin db'.schema
    BY IdColumn DEF Makes
  <1>7. ASSUME NEW e \in DOMAIN db'.employees PROVE Employment(db', db'.employees[e])
    BY <1>5, <1>6 DEF Employment
  <1>8. StaffTyped(db')
    BY <1>1, <1>5, <1>6, <1>7 DEF StaffTyped, Sound
  <1>9. SameWords(db, db')
    BY <1>5 DEF SameWords
  <1> QED
    BY <1>3, <1>4, <1>8, <1>9 DEF Sound, Same, Keeps

LEMMA PositionsMade ==
    ASSUME BackfillInv, DriftInv, Sound(db), CreatePositionsAndRelateEmployees
    PROVE  Keeps
  <1> DEFINE texts == [e \in Employees |-> Named(db.employees[e].text)]
             words == {texts[e][1] : e \in Employees}
  <1>1. Due(Related)
    BY DEF CreatePositionsAndRelateEmployees, Related
  <1>2. Running /\ Related \notin Applied(db)
    BY <1>1, DueIsNew
  <1>3. /\ db.owner \in Owners /\ Employees = DOMAIN db.employees
        /\ \A e \in Employees : {"text", "position"} \subseteq DOMAIN db.employees[e]
        /\ \A e \in Employees : db.employees[e].text \in Texts /\ db.employees[e].position = None
    BY <1>2 DEF Sound, StaffTyped, Employment, Employees
  <1>4. NoPosition \in Texts /\ \A t \in Texts : t[1] \in Words /\ t # None
    BY PositionsAssumption DEF Texts, Words, NoPosition
  <1>5. \A e \in Employees : texts[e] \in Texts /\ texts[e][1] \in Words
    BY <1>3, <1>4 DEF Named
  <1> HIDE DEF texts
  <1>6. PICK names \in [words -> {texts[e] : e \in Employees}] :
          /\ \A w \in words : names[w][1] = w
          /\ Up(Related,
               [db EXCEPT
                  !.positions = {[owner |-> db.owner, word |-> w, name |-> names[w]] : w \in words},
                  !.employees = [e \in Employees |->
                     [db.employees[e] EXCEPT
                        !.position = [owner |-> db.owner, word |-> texts[e][1],
                                      name |-> names[texts[e][1]]],
                        !.text = None]]])
    <2> DEFINE position(names, w) == [owner |-> db.owner, word |-> w, name |-> names[w]]
    <2>1. ASSUME NEW names
          PROVE  [db EXCEPT
                    !.positions = {position(names, w) : w \in words},
                    !.employees = [e \in Employees |->
                       [@[e] EXCEPT !.position = position(names, texts[e][1]), !.text = None]]]
                   = [db EXCEPT
                        !.positions = {position(names, w) : w \in words},
                        !.employees = [e \in Employees |->
                           [db.employees[e] EXCEPT
                              !.position = position(names, texts[e][1]), !.text = None]]]
      <3>1. Record(db)
        BY DEF BackfillInv, Fits
      <3> QED
        BY <3>1 DEF Record, Fields
    <2> QED
      BY <2>1 DEF CreatePositionsAndRelateEmployees, Related, texts
  <1> DEFINE position(w) == [owner |-> db.owner, word |-> w, name |-> names[w]]
             v == {position(w) : w \in words}
             with(e) == [db.employees[e] EXCEPT !.position = position(texts[e][1]), !.text = None]
             u == [e \in Employees |-> with(e)]
             d == [db EXCEPT !.positions = v, !.employees = u]
  <1>7. ASSUME NEW w \in words PROVE position(w) \in Posts /\ position(w).word = w
    <2>1. names[w] \in Texts /\ names[w][1] = w /\ w \in Words
      BY <1>5, <1>6
    <2> QED
      BY <1>3, <2>1 DEF Posts, Positions
  <1>8. v \subseteq Posts
    BY <1>7
  <1>9. ASSUME NEW e \in Employees
        PROVE  /\ {"text", "position"} \subseteq DOMAIN u[e]
               /\ u[e].text = None /\ u[e].position \in Posts
               /\ Alike(WordOf(db.employees[e]), WordOf(u[e]))
    <2>1. texts[e][1] \in words
      OBVIOUS
    <2>2. /\ DOMAIN with(e) = DOMAIN db.employees[e]
          /\ with(e).text = None /\ with(e).position = position(texts[e][1])
      BY <1>3
    <2>3. position(texts[e][1]) \in Posts /\ position(texts[e][1]).word = texts[e][1]
      BY <1>7, <2>1
    <2>4. u[e] = with(e)
      OBVIOUS
    <2> HIDE DEF with, position, u
    <2>5. WordOf(u[e]) = texts[e][1]
      <3>1. position(texts[e][1]) # None
        BY <2>3, PositionsAssumption DEF Posts
      <3> QED
        BY <2>2, <2>3, <2>4, <3>1 DEF WordOf
    <2>6. /\ WordOf(db.employees[e]) = db.employees[e].text[1]
          /\ texts[e] = Named(db.employees[e].text)
      BY <1>3, <1>4 DEF WordOf, texts
    <2>7. Alike(WordOf(db.employees[e]), WordOf(u[e]))
      BY <2>5, <2>6 DEF Alike, Named
    <2> QED
      BY <1>3, <2>2, <2>3, <2>4, <2>7
  <1>10. DOMAIN u = Employees
    OBVIOUS
  <1> HIDE DEF v, u
  <1>11. Alone(d) /\ d.positions = v /\ d.employees = u
    BY PositionsAndEmployees
  <1>12. Up(Related, d)
    BY <1>6 DEF u, v
  <1> HIDE DEF d
  <1>13. Makes(Related, d)
    BY <1>11, <1>12, MigrationMakes DEF Alone
  <1> QED
    BY <1>2, <1>3, <1>8, <1>9, <1>10, <1>11, <1>13, TextsConverted

LEMMA PositionsTaken ==
    ASSUME BackfillInv, DriftInv, Sound(db), RemovePositions
    PROVE  Keeps
  <1> DEFINE text(p) == IF p = None THEN NoPosition ELSE p.name
             with(e) == [db.employees[e] EXCEPT !.text = text(db.employees[e].position),
                                                !.position = None]
             v == {}
             u == [e \in Employees |-> with(e)]
             d == [db EXCEPT !.positions = v, !.employees = u]
  <1>1. Down(Related, d)
    <2>1. [db EXCEPT !.positions = {},
                     !.employees = [e \in Employees |->
                        [@[e] EXCEPT !.text = text(db.employees[e].position), !.position = None]]]
            = d
      <3>1. Record(db)
        BY DEF BackfillInv, Fits
      <3> QED
        BY <3>1 DEF Record, Fields
    <2> QED
      BY <2>1 DEF RemovePositions, Related
  <1>2. DOMAIN u = Employees /\ v \subseteq Posts
    OBVIOUS
  <1>3. Alone(d) /\ d.positions = v /\ d.employees = u
    <2> HIDE DEF u, v
    <2> QED
      BY PositionsAndEmployees
  <1>4. Makes(Related, d)
    <2> HIDE DEF d
    <2> QED
      BY <1>1, <1>3, MigrationMakes DEF Alone
  <1>5. ~ Running /\ Related \in Applied(db)
    <2>1. ~ Running
      BY <1>1 DEF Down
    <2> QED
      BY <1>4, <2>1 DEF Makes
  <1>6. /\ Employees = DOMAIN db.employees
        /\ \A e \in Employees : {"text", "position"} \subseteq DOMAIN db.employees[e]
        /\ \A e \in Employees : db.employees[e].text = None
        /\ \A e \in Employees : db.employees[e].position \in Posts \cup {None}
    BY <1>5 DEF Sound, StaffTyped, Employment, Employees
  <1>7. ASSUME NEW e \in Employees
        PROVE  /\ {"text", "position"} \subseteq DOMAIN u[e]
               /\ u[e].text \in Texts /\ u[e].position = None
               /\ Alike(WordOf(db.employees[e]), WordOf(u[e]))
    <2> DEFINE p == db.employees[e].position
    <2>1. /\ DOMAIN with(e) = DOMAIN db.employees[e]
          /\ with(e).text = text(p) /\ with(e).position = None
      BY <1>6
    <2>2. u[e] = with(e)
      OBVIOUS
    <2>3. p \in Posts \cup {None} /\ None \notin Posts
      BY <1>6, PositionsAssumption DEF Posts
    <2>4. NoPosition \in Texts /\ None \notin Texts
      BY PositionsAssumption DEF Texts, Words, NoPosition
    <2>5. text(p) \in Texts
      BY <2>3, <2>4 DEF Posts, Positions
    <2>6. WordOf(db.employees[e]) = IF p = None THEN "" ELSE p.word
      BY <1>6 DEF WordOf
    <2> HIDE DEF with, u
    <2>7. WordOf(u[e]) = text(p)[1]
      <3>1. text(p) # None
        BY <2>4, <2>5
      <3> HIDE DEF text
      <3> QED
        BY <2>1, <2>2, <3>1 DEF WordOf
    <2>8. Alike(WordOf(db.employees[e]), WordOf(u[e]))
      <3>1. CASE p = None
        BY <2>6, <2>7, <3>1 DEF Alike
      <3>2. CASE p # None
        BY <2>3, <2>6, <2>7, <3>2 DEF Alike, Posts
      <3> QED
        BY <3>1, <3>2
    <2> QED
      BY <1>6, <2>1, <2>2, <2>5, <2>8
  <1> HIDE DEF u, v, d
  <1> QED
    BY <1>2, <1>3, <1>4, <1>5, <1>6, <1>7, TextsConverted

-----------------------------------------------------------------------------
(* Every step *)

LEMMA MigrationsKeep ==
    ASSUME BackfillInv, DriftInv, Sound(db), Migrate
    PROVE  Keeps
  BY OthersKeep, SignaturesKept, SlotsKept, BudgetKept, StaffKept, PositionsMade, PositionsTaken
     DEF Migrate

\* What is served writes one field.
LEMMA Served ==
    ASSUME BackfillInv, NEW x \in Fields, NEW v, Serve([db EXCEPT ![x] = v])
    PROVE  db'[x] = v /\ \A f \in Fields : f # x => db'[f] = db[f]
  <1>1. Record(db)
    BY DEF BackfillInv, Fits
  <1>2. db' = [db EXCEPT ![x] = v]
    BY DEF Serve
  <1> QED
    BY <1>1, <1>2 DEF Record

LEMMA ServingKeeps ==
    ASSUME BackfillInv, Sound(db), AssignPosition \/ EditBudget \/ AddPayment \/ AddEvent
    PROVE  Sound(db') /\ ~ Running /\ saved' = saved /\ db'.applied = db.applied
  <1>1. ASSUME NEW x \in {"employees", "budget", "payments", "events"}, NEW v,
               Serve([db EXCEPT ![x] = v]),
               x = "employees" => \A e \in DOMAIN v : Employment(db, v[e]),
               x = "budget" => /\ DOMAIN v = BudgetFields
                               /\ \A f \in BudgetFields : "values" \in DOMAIN v[f]
                               /\ \A f \in BudgetFields :
                                    v[f].values # << >> \/ v[f] = db.budget[f]
        PROVE  Sound(db') /\ ~ Running /\ saved' = saved /\ db'.applied = db.applied
    <2>1. x \in Fields \ {"schema", "applied"} /\ saved' = saved /\ ~ Running
      BY <1>1 DEF Fields, Serve
    <2>2. db'[x] = v /\ \A f \in Fields : f # x => db'[f] = db[f]
      BY <1>1, <2>1, Served
    <2>4. /\ db'.signatures = db.signatures /\ db'.days = db.days /\ db'.owner = db.owner
          /\ db'.positions = db.positions /\ db'.schema = db.schema /\ db'.applied = db.applied
          /\ db'.budget = IF x = "budget" THEN v ELSE db.budget
          /\ db'.employees = IF x = "employees" THEN v ELSE db.employees
      BY <2>2 DEF Fields
    <2>5. Applied(db') = Applied(db)
      BY <2>4 DEF Applied
    <2>6. RowsTyped(db')
      BY <2>4 DEF Sound, RowsTyped
    <2>7. BudgetWhole(db')
      BY <1>1, <2>4, <2>5 DEF Sound, BudgetWhole
    <2>8. StaffTyped(db')
      BY <1>1, <2>4, <2>5 DEF Sound, StaffTyped, Employment
    <2> QED
      BY <2>1, <2>4, <2>6, <2>7, <2>8 DEF Sound
  <1>2. CASE AssignPosition
    <2>1. PICK e \in Employees, p \in db.positions :
            /\ "employees.idtb_positions" \in db.schema
            /\ Serve([db EXCEPT !.employees[e].position = p])
      BY <1>2 DEF AssignPosition
    <2> DEFINE v == [db.employees EXCEPT ![e] = [@ EXCEPT !.position = p]]
    <2>2. Serve([db EXCEPT !["employees"] = v])
      BY <2>1
    <2>3. ASSUME NEW x \in DOMAIN v PROVE Employment(db, v[x])
      <3>1. Employment(db, db.employees[x]) /\ Related \in Applied(db) /\ p \in Posts
        BY <2>1 DEF Sound, StaffTyped
      <3>2. CASE x # e
        BY <3>1, <3>2
      <3>3. CASE x = e
        <4>1. v[x] = [db.employees[x] EXCEPT !.position = p]
          BY <3>3
        <4>2. /\ DOMAIN v[x] = DOMAIN db.employees[x]
              /\ v[x].text = db.employees[x].text /\ v[x].position = p
          BY <3>1, <4>1 DEF Employment
        <4> HIDE DEF v
        <4> QED
          BY <3>1, <4>2 DEF Employment
      <3> QED
        BY <3>2, <3>3
    <2> HIDE DEF v
    <2> QED
      BY <1>1, <2>2, <2>3
  <1>3. CASE EditBudget
    <2> DEFINE values == [i \in 1 .. db.days |-> IF i = db.days THEN "elsewhere" ELSE "hall"]
               place == [db.budget["location"] EXCEPT !.values = values]
               v == [db.budget EXCEPT !["location"] = place]
    <2>1. Serve([db EXCEPT !["budget"] = v]) /\ db.days > 1
      BY <1>3 DEF EditBudget
    <2>2. DOMAIN db.budget = BudgetFields /\ \A f \in BudgetFields : "values" \in DOMAIN db.budget[f]
      BY DEF Sound, BudgetWhole
    <2>3. values # << >>
      <3>1. 1 \in DOMAIN values
        BY <2>1 DEF Sound, BudgetWhole
      <3>2. DOMAIN << >> = {}
        OBVIOUS
      <3> HIDE DEF values
      <3> QED
        BY <3>1, <3>2
    <2>4. "location" \in BudgetFields
      BY DEF BudgetFields
    <2> HIDE DEF values
    <2>5. "values" \in DOMAIN place /\ place.values = values
      BY <2>2, <2>4
    <2> HIDE DEF place
    <2>6. /\ DOMAIN v = BudgetFields /\ v["location"] = place
          /\ \A f \in BudgetFields : f # "location" => v[f] = db.budget[f]
      BY <2>2, <2>4
    <2> HIDE DEF v
    <2> QED
      BY <1>1, <2>1, <2>2, <2>3, <2>5, <2>6
  <1>4. CASE AddPayment
    <2>1. PICK v : Serve([db EXCEPT !["payments"] = v])
      <3>1. PICK v : Serve([db EXCEPT !.payments = v])
        BY <1>4 DEF AddPayment
      <3> QED
        BY <3>1
    <2> QED
      BY <1>1, <2>1
  <1>5. CASE AddEvent
    <2>1. PICK v : Serve([db EXCEPT !["events"] = v])
      <3>1. PICK v : Serve([db EXCEPT !.events = v])
        BY <1>5 DEF AddEvent
      <3> QED
        BY <3>1
    <2> QED
      BY <1>1, <2>1
  <1> QED
    BY <1>2, <1>3, <1>4, <1>5

LEMMA KeepStep == BackfillInv /\ DriftInv /\ KeepInv /\ [Next]_vars => KeepInv'
  <1> SUFFICES ASSUME BackfillInv, DriftInv, KeepInv, [Next]_vars PROVE KeepInv'
    OBVIOUS
  <1>1. Sound(db) /\ (Running => Sound(saved) /\ Same(saved, db))
    BY DEF KeepInv
  <1>2. ASSUME NEW r \in Releases, BeginRun(r) PROVE KeepInv'
    <2>1. db' = db /\ saved' = db
      BY <1>2 DEF BeginRun
    <2> QED
      BY <1>1, <2>1, SameReflexive DEF KeepInv
  <1>3. CASE Migrate
    <2>1. Sound(db') /\ Same(db, db')
      BY <1>1, <1>3, MigrationsKeep DEF Keeps
    <2>2. saved' = saved /\ (Running => Applied(db) \subseteq Applied(db'))
      <3>1. PICK m, d : Converted(d) /\ (Up(m, d) \/ Down(m, d))
        BY <1>3, EveryMigration DEF SomeMigration, Converted
      <3>2. Makes(m, d)
        BY <3>1, MigrationMakes
      <3> QED
        BY <3>2 DEF Makes
    <2>3. Running => Same(saved, db')
      BY <1>1, <2>1, <2>2, SameTransitive
    <2> QED
      BY <1>1, <2>1, <2>2, <2>3 DEF KeepInv, Running
  <1>4. CASE CommitRun
    <2>1. db' = db /\ saved' = None
      BY <1>4 DEF CommitRun
    <2> QED
      BY <1>1, <2>1 DEF KeepInv, Running
  <1>5. CASE RollBack
    <2>1. db' = saved /\ saved' = None /\ Running
      BY <1>5 DEF RollBack
    <2> QED
      BY <1>1, <2>1 DEF KeepInv, Running
  <1>6. CASE AssignPosition \/ EditBudget \/ AddPayment \/ AddEvent
    BY <1>1, <1>6, ServingKeeps DEF KeepInv, Running
  <1>7. CASE UNCHANGED vars \/ \E r \in Releases : Deploy(r)
    <2>1. db' = db /\ saved' = saved
      BY <1>7 DEF vars, Deploy
    <2> QED
      BY <1>1, <2>1 DEF KeepInv, Running
  <1> QED
    BY <1>2, <1>3, <1>4, <1>5, <1>6, <1>7 DEF Next

\* A step that changes what has been applied is a migration, or goes back.
LEMMA AppliedChange ==
    ASSUME BackfillInv, DriftInv, KeepInv, [Next]_vars, Len(db'.applied) # Len(db.applied)
    PROVE  Same(db, db')
  <1>1. Sound(db) /\ (Running => Same(saved, db))
    BY DEF KeepInv
  <1>2. CASE Migrate
    BY <1>1, <1>2, MigrationsKeep DEF Keeps
  <1>3. CASE RollBack
    <2>1. db' = saved /\ Running
      BY <1>3 DEF RollBack
    <2> QED
      BY <1>1, <2>1, SameSymmetric
  <1>4. CASE AssignPosition \/ EditBudget \/ AddPayment \/ AddEvent
    BY <1>1, <1>4, ServingKeeps
  <1>5. CASE (\E r \in Releases : BeginRun(r) \/ Deploy(r)) \/ CommitRun \/ UNCHANGED vars
    BY <1>5 DEF BeginRun, Deploy, CommitRun, vars
  <1> QED
    BY <1>2, <1>3, <1>4, <1>5 DEF Next

\* Neither a migration, nor its reversal, nor the end of a run that fails loses
\* what is converted: the dates and documents of signatures, the first day of a
\* budget, what employees are employed as, and the slots that are taken.
THEOREM ConversionsKeep == Spec => NothingLost
  <1> DEFINE Lossless ==
        /\ \A row \in Envelopes, column \in {"date", "document"}, party \in {"client", "company"} :
             LET v == db.signatures[row][column][party]
             IN  Count(db', column, v) = Count(db, column, v)
        /\ \A f \in DOMAIN db.budget : FirstDay(db'.budget[f]) = FirstDay(db.budget[f])
        /\ \A s \in db.slots : s.taken => s \in db'.slots
        /\ \/ "ResetPositionsAndDependencies" \in ToSet(db'.applied) \cup ToSet(db.applied)
           \/ \A e \in Employees :
                LET word == WordOf(db.employees[e])
                IN  word \notin {"", NoPosition[1]} => WordOf(db'.employees[e]) = word
  <1>1. ASSUME Sound(db), Same(db, db') PROVE Lossless
    <2>1. DOMAIN db.budget = BudgetFields
      BY <1>1 DEF Sound, BudgetWhole
    <2>2. SameCounts(db, db') /\ SameFirstDays(db, db') /\ SameTaken(db, db') /\ SameWords(db, db')
      BY <1>1 DEF Same
    <2>3. \A row \in Envelopes, column \in {"date", "document"}, party \in {"client", "company"} :
             LET v == db.signatures[row][column][party]
             IN  Count(db', column, v) = Count(db, column, v)
      BY <2>2 DEF SameCounts, Columns
    <2>4. \A f \in DOMAIN db.budget : FirstDay(db'.budget[f]) = FirstDay(db.budget[f])
      BY <2>1, <2>2 DEF SameFirstDays
    <2>5. \A s \in db.slots : s.taken => s \in db'.slots
      BY <2>2 DEF SameTaken
    <2>6. \/ "ResetPositionsAndDependencies" \in ToSet(db'.applied) \cup ToSet(db.applied)
          \/ \A e \in Employees :
                LET word == WordOf(db.employees[e])
                IN  word \notin {"", NoPosition[1]} => WordOf(db'.employees[e]) = word
      BY <2>2 DEF SameWords, Alike, Applied, Reset, Employees
    <2> QED
      BY <2>3, <2>4, <2>5, <2>6
  <1>2. BackfillInv /\ DriftInv /\ KeepInv /\ [Next]_vars
          => [Len(db'.applied) # Len(db.applied) => Lossless]_vars
    <2> SUFFICES ASSUME BackfillInv, DriftInv, KeepInv, [Next]_vars,
                        Len(db'.applied) # Len(db.applied)
                 PROVE  Lossless
      OBVIOUS
    <2>1. Sound(db) /\ Same(db, db')
      BY AppliedChange DEF KeepInv
    <2> HIDE DEF Lossless
    <2> QED
      BY <1>1, <2>1
  <1>3. [][Len(db'.applied) # Len(db.applied) => Lossless]_vars => NothingLost
    BY DEF NothingLost
  <1> HIDE DEF Lossless
  <1> QED
    BY <1>2, <1>3, BackfillInit, BackfillStep, DriftInit, DriftStep, KeepInit, KeepStep, PTL
       DEF Spec

=============================================================================
