# Royal Copeiras backend: TLA+ models and proofs

The backend is a NestJS application with a GraphQL API over PostgreSQL. Its
modules live in `src/src/modules`. It takes a prospect from a public form to a
lead, a budget, a contract signed through an external provider (Assinafy), and
then to a scheduled event with its payments. The application is deployed as
serverless instances: any number of requests run at once, in no common process,
and the only things they share are the database and the provider.

This directory holds models of the parts where that matters, TLC runs over
small instances of them, and TLAPS proofs of what the models promise for
instances of any size.

## 1. Inventory

### How the parts interact

    prospect --> public intake --> leads --> budgets --> contracts
                                                           |  ^
                                               send/cancel |  | status, activation
                                                           v  |
                    provider <--> signature services (rows, webhook, callback)
                                                           |
                                        activation (one transaction)
                                         |          |           |
                                     customers    events     payments

* Handlers call each other as functions; there is no queue and no scheduler.
* All shared state is in tables. The isolation level is READ COMMITTED. Nothing
  is locked but the rows a transaction updates, the entries of unique indexes,
  and one advisory lock (budget numbers).
* `repository.save(entity)` reads the row again and writes every column in which
  the entity, as it was read and changed, differs from it. A save that comes
  late therefore also writes back columns nobody meant to change.
* The provider calls back over HTTP, by a webhook and by a callback: repeated,
  late, in any order, or never.

### Components

| component | state | operations | what is hard | what makes it correct |
|---|---|---|---|---|
| contracts | `tb_contracts`: status, customer, number | create, send, close by hand, update, cancel | stale saves; statuses written without a check after a provider call | an active status comes with its event; a cancellation is complete |
| signatures | `tb_signatures`: a row per signer and envelope; the provider's envelopes | request, webhook, callback, status query, revoke | reports repeated and reordered; rows saved over one another; a crash between provider and database | a row says SIGNED only if that party signed or the name of an event was misread; no signature is lost; one open envelope per contract |
| activation | `tb_customers`, `tb_events`, `tb_payments` | find or create the customer, create event, create payments, in one transaction | two activations of one contract; two contracts of one client; numbers counted without a lock | all or nothing; one event; one payment, or few beside those that operators enter; numbers without gaps |
| payments | `tb_payments` and items | create, update | looked up, then inserted; items deleted and inserted by two updates; a stale transition check | few payments of a contract; totals match the items; a finished payment stays so |
| events and staffing | `tb_events`, `tb_event_assignments` | update, assign an employee | the check for the day and the save are apart | one allocation per employee and event day |
| public intake | `tb_public_intake_codes` | issue, verify, submit | invalidate and insert apart; submission and consumption apart | few open codes; a final code stays so; results of one submission |
| leads | `tb_leads` | create, update, reuse on intake | looked up, then inserted; whole row saved as read | no client twice; WON and LOST are final |
| budgets | `tb_budgets`, items | create, edit, send, approve | read and checked before the transaction; SENT written after a mail | the status moves along the table of transitions; a budget out of DRAFT is complete; numbers in order |
| authentication | `tb_auth_credentials`, `tb_auth_verification_codes` | login, lock, recover | counters read, awaited, written | what is counted has failed; few codes are open; a code resets once |
| sessions | `tb_sessions` | create, validate, refresh, revoke | the whole session saved as read | a session that is logged out stays so |
| users and permissions | `tb_users`, page access rows | create, update, set permissions | writes of one operation on two connections; delete and insert apart | a user has the pages that were asked for last |
| employees, positions, supplies | `tb_employees`, `tb_positions`, `tb_supplies` | create, update, activate | lookups in tables whose indexes are of one owner; an old position written back | a name once; no inactive position is given |
| company profile | one row of `tb_company_profile` | read (creates it), update | created by whoever reads it first | one record |
| customers | `tb_customers` | update (creation by activation) | nothing but the stale save | - |
| lists | - | page by page, by offset | rows enter and leave between two pages | every row is shown |
| proposals, contracts as documents, mails | copies in `tb_contracts` | preview, mail, signature | sums computed several times; each rendering loads something else | the rows add up; the client signs what was read |
| database schema | the schema, `migrations` | run, revert, deploy | order of timestamps; conversions of data; reverts; a release that writes to the schema of another | drift confined, nothing lost |
| common: responses, guards, rate limit | none | formatting, checks | - | - |

The hazards, each at its line and with the properties that watch it, are listed
in `PROJECT.json`.

## 2. Plan

In the order of importance. All parts have been built; what was left out of each
is said with the module (section 3) and in section 6.

| part | modules | composed in | proofs |
|---|---|---|---|
| contract signing and activation | `ContractStatuses`, `ContractSigning` | implements `NumberRegister` | `ContractSigningProofs` |
| public intake | `PublicIntake` | implements `NumberRegister` | `PublicIntakeProofs` |
| budgets | `BudgetPricing`, `Budgets` | implements `NumberRegister` | `BudgetProofs`, `FiniteSums` |
| staffing of events | `EventStaffing` | - | `StaffingProofs` |
| authentication, sessions, access, leads | `Credentials`, `PasswordRecovery`, `Sessions`, `UserAccess`, `Leads` | `Office` | `OfficeProofs` |
| payments, catalogues, employees, profile, lists | `PaymentLedger`, `Catalog`, `Employees`, `CompanyProfile`, `Listing` | `Desk` | `DeskProofs` |
| proposals and contracts as documents | `Documents` (uses `BudgetPricing`, `ContractStatuses`) | `Desk` | `DeskProofs`, `FiniteSums` |
| the database through releases | `SchemaMigrations` | - | `SchemaProofs` |

All safety and action properties of the passing runs are theorems (section 5). What would
come next is in section 6: what the code does that no module has.

## 3. What is modelled

### ContractStatuses

The enumerations, the statuses from which a contract may be sent or closed, the
table of manual transitions, and `ResolveContractStatus`, the function by which
webhook and callback derive the status of a contract from its rows. The code
uses `every` and `some` over a list; both depend only on the set of statuses.

### ContractSigning

| variable | in the system |
|---|---|
| `contract` | status and customer link of each row of `tb_contracts` |
| `budget` | status of the contract's budget (only a cancellation writes it here) |
| `row` | `tb_signatures`: for each envelope and signer the status and the last event |
| `customers` | documents that have a row in `tb_customers` (unique) |
| `event` | number and customer of the contract's row of `tb_events` (both unique) |
| `payments`, `direct` | how many rows of `tb_payments` reference the contract: inserted by its activation, and by the mutation `createPayment` |
| `lock` | which open transaction has updated the contract row |
| `worker` | for each request being served: where it is, and what it has read |
| `envelope`, `sent` | the provider: envelopes, who signed, reports sent |

One action is one step of a handler, from one await that matters to the next:

* **send**: `SendContract` / `RequestSignature`, the lookup (`ReuseEnvelope`,
  `NoActiveEnvelope`), `CreateEnvelope` / `EnvelopeRefused`, `InsertRows`,
  `MarkSent`.
* **reports**: `ReceiveWebhook` / `ReceiveCallback` read the rows, `SaveRows`
  writes them, `ResolveStatus` reads all rows of the contract, then the
  transaction: `ReadContract`, `WriteContract`.
* **activation**, inside the same transaction or in that of `CloseContract`:
  `FindCustomer`, `LinkCustomer`, `CreateEvent`, `CreatePayments`, and `Commit`
  or, when a unique index refuses, `Abort`. What the transaction has written is
  kept in the worker until it commits; `SeenStatus` and `SeenCustomer` are what
  its own reads return.
* **manual updates**: `ReadForUpdate`, then `SaveUpdate` or `SaveCancel`, and
  after a cancellation `ListRows`, `Revoke` / `RevokeRefused`, `MarkRow`,
  `EndRevoke`. `CancelRequest` is the mutation that revokes one envelope.
* **status query**: `PollStatus`, `SavePoll`.
* **payments by hand**: `LookUpPayment` looks for a payment of the contract and
  `InsertPayment` inserts one, in a transaction that does not look again. Nothing is
  locked and no index is unique, so both may run beside an activation.
* **anything**: `Fail` ends a request at any step, which stands for an exception,
  a database error, a deadlock victim and a stopped instance.
* **provider** (external): `Sign`, `Reject`. A report once sent stays in `sent`,
  so it may be delivered any number of times, in any order, or never.

Details that are abstracted on purpose:

* A contract has a lead and a budget with a positive total, so that a payment is
  always due; the amounts are left out.
* Saving an entity whose customer link was linked by somebody else meanwhile may
  or may not overwrite that link, depending on when the save reads the row
  again: both outcomes are possible (`WriteContract`, `SaveUpdate`, and for the
  status `LinkCustomer`).
* `MarkRow` and `SavePoll` find and save their rows in one step. The revocation
  loop asks the provider once per row; the second request for an envelope that
  is deleted already is refused, which `RevokeRefused` covers.
* The document that signature rows carry is the company's (`ClientDocument`):
  that of the client is not stored when the lead has none.
* A request for a payment that names only the event always finds the payment that
  was created with the event or is linked to it, so it inserts none; a request that names
  a contract with the event of another, the link that a request adds to a payment that
  is there, and an update that takes a payment's links away are left out.
* Callback statuses other than SIGNED, REJECTED and PENDING, signature links and
  timestamps are left out.

What the provider reports is a choice of `Forms`, each with what happened - a signature
was asked for (`requested`), given or refused - and how it arrives: `items` (the assignment's
items with their completion), `subject` (the name of an event, about one signer), `bare`
(a name and no signer: the code falls back to a word of the name or to the first row) or
`callback`. Of a name only matters whether it has "sign" or "assinad" in it (`sign`,
`process-signature-webhook.service.ts` 224-240). If it has, the row becomes SIGNED
whatever happened: `signer_rejected_document`, `signature_requested` and
`assignment_created` all have. `Misread(e, s)` says that the provider has sent
such a report, and the properties about signatures count s as `Vouched` for then: the
code breaks the plain claim, and the models show that it is broken in no other way.

### PublicIntake

| variable | in the system |
|---|---|
| `code` | `tb_public_intake_codes`: owner, the timestamps as what they are compared for, results |
| `lead` | which client each row of `tb_leads` is about |
| `budget` | number, lead and owner of each row of `tb_budgets` |
| `leadLock` | which open transaction has updated a lead |
| `numberLock` | which open transaction holds the advisory lock of the year |
| `worker` | for each request being served: where it is, and what it has read |

* **codes**: `IssueCode` invalidates the open codes of the operator and
  `InsertCode` inserts the new one; `VerifyCode` finds the code entered and
  `MarkVerified` writes the form token; `ExpireCode` and `ExpireForm` are the
  passing of time.
* **leads**: `CreateLead` searches for a duplicate, `InsertLead` inserts.
* **submission**: `SubmitForm` finds the form; then in one transaction
  `FindLead`, `SaveLead` for a lead that is there or `CheckLead` for one that is
  not, `TakeNumber`, `Commit`; after it `Consume`.
* **budgets created by an operator**: `CreateBudget`, then the same `TakeNumber`
  and `Commit`.
* **anything**: `Fail` ends a request at any step and rolls its transaction back.

Abstracted on purpose: a client is what two leads are compared by (name without
accents, case and double spaces, and the digits of the document); two codes never
show the same digits; of the form tokens of a code only the last is looked up, so
a form is identified with its code; budgets are of one year; what a form fills in
in an existing lead is left out, only that it locks the row; a lead is not
deactivated; items, prices, the catalog and the mail are left out. The unique index
on budget numbers is left out because `NumberIsFree` shows that no insert meets it.

### NumberRegister

The abstract specification of a numbering: nobody gets two numbers, and the
numbers 1, 2, 3, ... are given in the order in which the documents come to exist.
Three parts of the code implement it, in two ways:

* `ContractSigning` (events): the number is `COUNT + 1` and nothing is locked; the
  unique index rolls back the later of two transactions that counted the same.
* `PublicIntake` (budgets): the number is `MAX + 1`, read and used under an advisory
  lock that lasts to the end of the transaction; no insert is ever refused.
* `Budgets` (contracts): `COUNT + 1` again, read before the insert, and a unique index.

### How a save is modelled

Everything from here on has one operation in common, `repository.save(entity)`. It
is two steps: the row is read again and the columns are found in which the entity
differs from it (`Reload...`, `Differing`); then these columns are written, and no
others (`Write...`, `put`). So a save that began early neither loses nor keeps
everything that happened since: it depends on the column. A request that does not
name a column may thus write it, if somebody else changed it before the reload.

Such *stale* saves cannot be told to be wrong or right by the code, which has no
version column. The models record them in history variables (`stale`, `fresh`,
`late`, `mixed`), which no guard reads, and the properties say exactly what holds
without them, or how many requests at a time it takes to break something. The
counterexamples that this excludes are the ones that a version column would refuse.

### BudgetPricing and Budgets

| variable | in the system |
|---|---|
| `budget` | `tb_budgets`: status, days, discounts per day, total |
| `items` | `tb_budget_items`: by which request inserted, day, price |
| `number` | `tb_contracts.contract_number` of the contract made of the budget |
| `worker` | for each request: where it is, the entity and the lines as it read them |
| `stale` | history: saved by a request that had read before another's write |

* **creation** `CreateBudget`; **updates** `UpdateBudget` with the rules for days,
  lines, transitions and the gate that leaving a draft passes
  (`ReadyForContract`), then in one transaction `DeleteItems`, `InsertItems`,
  `ReloadBudget`, `WriteBudget`; **mail** `SendBudget`, `MarkSent`.
* **contracts** `CreateContract`, `CountContracts`, `InsertContract`;
  `CancelWithContract` is the budget's part of a cancellation.
* Deleted lines lock their rows: a second deletion of the same lines waits, and then
  deletes nothing, since the rows are gone. The lines an entity carries and the
  table has lost make the save fail (`Fail`); those it carries and the other has
  added stay.
* Amounts are integers. An exact half of a cent goes up, which floating point may do
  otherwise. Displacement fees are 0 here and real in `Documents`; the lines of a day
  stand for one position; the lead is active; the number of a budget is in
  `PublicIntake`.

### EventStaffing

`event` is the status and the overtime of a row of `tb_events`, `slot` the employee
and the activity of its rows of `tb_event_assignments`, which are created with the
event: a slot per unit of each line that is not a supply. `UpdateEventAssignment`
checks gender, line and day, `ReloadSlot` and `WriteSlot` save; `UpdateEvent`,
`ReloadEvent`, `WriteEvent` likewise. A comment (`update-event-assignment.service.ts`
144-147) says that an employee can hold only one active allocation per event day.
That is not so for requests that overlap; `FewAllocations` says how far it is off:
never more than there are requests at a time, although saves of stale entities
could have gone on adding. Rates, employees' payments and extra expenses are columns
that no condition reads.

### PaymentLedger

`payment` is status, planned and paid amount, `items` the rows of
`tb_payment_items`, `twins` how many more payments the contract has. `LookUpPayment`
finds none and `InsertPayment` inserts one in a transaction of its own: the first that
inserts makes the payment, who comes later a twin. `UpdateItems` (replace the items, whose
aggregate is the payment) and `UpdatePayment` (status and amounts themselves) are
checked before the transaction `DeleteItems`, `InsertItems`, `ReloadPayment`,
`WritePayment`. Items that another transaction deletes first are waited for, and gone
(`HeldBy`, `Wrote`). Origins, proofs and notes are left out, and the reference
that a second creation adds to a payment that is there. A twin shares no row with the
payment, and what becomes of it is the same again; `FewPayments` counts it. Payments that
an activation inserts are in `ContractSigning`.

### Office: Credentials, Sessions, PasswordRecovery, UserAccess, Leads

`Office` composes five parts that share no column. A behaviour follows one of them
(`part`) while the others rest, which is all that can be observed of parts that do not
meet, and keeps the state space a sum, not a product. The reset of a password also
takes the credential's count and lock back: `Unlock` in `Credentials`.

* **`Credentials`**: `attempts` and `locked` of `tb_auth_credentials`, and the logins
  under way. A login reads the credential, verifies the password, and writes the
  count it read plus one, or a lock, or, after the session is created, neither.
  `failures` and `late` are history.
* **`Sessions`**: one row of `tb_sessions`, `token` being the refresh token it has,
  and `signed` the last token that was handed out. `Refresh` saves the session twice
  (`Touch`, `Rotate`), `Logout` once (`Revoke`), each save in two halves.
* **`PasswordRecovery`**: `code` are the rows of `tb_auth_verification_codes`.
  `RequestRecovery` invalidates and `InsertCode` inserts; `BeginVerification` ends in
  `RegisterInvalidAttempt`, which clears an invalidation made meanwhile, or
  `MarkVerified`; `BeginReset`, `UpdatePassword`, `Consume` are three writes.
* **`UserAccess`**: `user` (group, status, date of inactivation) and `override`
  (`tb_user_page_access`). `AdminUpdate` saves the user (`ReloadUser`, `WriteUser`);
  then `ReadUser`, `DeleteOverrides`, `InsertOverrides` set the pages, in no
  transaction. A user's own status change is an `AdminUpdate` with a status alone.
  `reset` without pages, refused defaults, asks for no page at all.
  A user who is inactivated and activated again keeps `inactivated`, the date
  (`admin-update-user-access.service.ts` 54), and the login, which reads it, refuses
  the active user with "Usuário inativo.".
* **`Leads`**: `lead` is name and status of the rows of `tb_leads`. `CreateLead` and
  `UpdateLead` look for a duplicate (`FindDuplicate`) and save later. The lookup
  trims the name it looks for but not those it compares with, so a lead stored with a
  space before its name is never found. The comment of `lead-duplicate.util.ts`
  (25-26) that a client is not registered twice holds only for requests that do not
  overlap; `FewLeads` says that a client has never more leads of one form than there
  are requests at a time.

### Desk: Catalog, Employees, CompanyProfile, Listing, Documents, and the ledger

Composed in the same way as `Office`.

* **`Catalog`** is the catalogue of positions or that of supplies, by `kind`: the code
  of the two differs in what `normalizeName` strips. `LookUp` looks among
  everybody's rows, `InsertRow` and `WriteRow` meet the unique index of one owner
  (`IndexAllows`).
* **`Employees`**: document and position of employees, and whether a position is
  active. The lookups of a request (`FindDocument`, `FindPosition`) and its save
  (`ReloadEmployee`, `WriteEmployee`) are apart. A document that was entered can never
  be cleared: a blank one is not written.
* **`CompanyProfile`**: the record is created by whoever reads it first
  (`ResolveEntity`, `InsertProfile`); two first readers bring two. Reads take the one
  created first; an insert that began earlier but is committed later takes over, and
  with it what was entered in the other is gone. A blank text is not written.
* **`Listing`** is the reading of any of eleven lists, page by page: `FetchPage`,
  `CountRows` (another query, left out if the page is not full), while rows
  `Enter` and, where an update can change a filtered column, `Leave`. Rows with the
  same time have no order of their own in the code; the model orders them. A reader
  skips rows if others leave; `AllShown` says that nothing else makes him.
* **`Documents`**: `budget`, `lead`, `profile` and `contract`, with the copy of all
  three that a contract keeps. Here requests are atomic (`Budgets` has the
  interleavings) and the data are richer: days with hours and places, fees, discounts,
  staff and supplies. `Proposal` are the rows of the proposal, `Mail` the sums of
  the mail, `ContractDocument(loaded)` the clauses of a contract rendered by a query
  that loads the rows `loaded`: `Read` for preview and mail, `ForSignature`.
  Wording, numbers in words, layout, fonts and the merge of PDF fragments are left out.

What the models of `Documents` show of the code, apart from its properties:

* An update that makes the days of a budget fewer leaves lines and fees of days that
  are gone in its subtotal and in the proposal's rows, but not in its total:
  `ProposalAddsUp` leaves such budgets out (`FitsDays`).
* The mail is given lines without their day (`send-budget-email.service.ts` 100) and
  takes all of them to be of the first day: with several days its discount is not that
  of the attached proposal. `ProposalAddsUp` asks it of one day only.
* No rendering of a contract loads the lines of the budget (run `hollow`).
* A departure at midnight is not printed as on the next day (`LeavesNextDay`).
* Preview, mail and signature read the lead again: a contract that was made follows
  later edits of the lead, in the same way in all three.

### SchemaMigrations

| variable | in the system |
|---|---|
| `db` | the database: the migrations applied, in order, the schema, and data |
| `release` | the release that serves: how many of the 36 migration files it has |
| `pending`, `saved` | what a run of `migration:run` has still to do, and what to go back to |

`BeginRun(r)` checks release `r` out, any one, and begins a run, which ends in `CommitRun`
or `RollBack`: all migrations of a run are one transaction. `Deploy(r)` makes a release,
again any one, the one that serves. The two are apart: the workflow for production commits
the migrations first and deploys then (`deploy-backend.yml` 53-70), that for beta does not
deploy (`migrate-beta.yml`), and a deployment can be taken back. A revert undoes the last
migration applied (`Down`). Each migration is an operator named like its class. The schema is a set
of names; a migration that adds columns only is the set of what it adds, the others
(`ChangeSchema`, `WithData`) convert the data, and where PostgreSQL would refuse a
statement there is no step, so that the run rolls back. `AssignPosition`, `AddPayment`,
`AddEvent`, `EditBudget` are what the application writes between two commands, in the
form that the release that serves knows (`Knows`), to the schema as it is: where they do not
go together the statement fails, or, as with a payment without items, is accepted.

What the model shows, apart from its properties:

* The name of `AddSignerTypeAndFixSignatureDates` has another form of timestamp and
  sorts after all others. A database that skips the releases between its addition and
  that of `FixSwappedSignatureDocuments` runs the latter first, which needs the
  column; with `CONTRACT_COMPANY_SIGNER_IDENTIFIER` set the run fails and is rolled
  back. (The deployment workflow sets only the database's variables, so there the
  migration does nothing.)
* There is drift, although the README of the repository says (line 88) that there is no
  risk of it. Undoing `EnsureBudgetItemsPositionReference` drops the column that
  `AddPositionReferenceToBudgetItems` made (76-79): who goes back to an earlier release by a
  revert and its deployment has all migrations of that release applied and lacks the column.
  `ResetPositionsAndDependencies` undoes nothing, and undoing
  `ConvertBudgetDiscountFieldsToArrays` makes a text of what was an enumeration.
  `DriftConfined` says that this is all, labels of enumerations apart, which stay: the
  schema is what the applied migrations make, but for what one of these three has taken
  that is not applied now.
* Between the run of the migrations and the deployment the release before may create
  payments without items where there are items, and no migration meets them again unless
  it is undone. `BackfillsMeet` says that no other payment is ever without.
* A contract with two envelopes gives the subqueries of the swaps several rows, and
  an address of more than 160 characters does not fit `AddStructuredAddressToLeads`:
  both block the run. `SeedDefaultPositionsAndMapBudgetItems` needs one particular
  user. The reversal of the nullable document needs that at most one employee is
  without.
* `CreatePositionsAndRelateEmployees` keeps accents that `BackfillBudgetItemsPositions`
  strips; the conversion of a budget's fixed discount and fee into arrays repeats them
  for each day, so that a budget of several days changes its price when it is next
  computed. `NothingLost` asks for the first day.

## 4. Runs

Every run has two requests served at once (`w1`, `w2`; one in `lost_report`) and any
number of them one after the other: two are enough for every race between two
handlers, and one request may still fail and be repeated. With two workers TLC
finishes each run in about three minutes; the largest, `operators`, has 4.1 million
distinct states.

| run | instance | shows |
|---|---|---|
| `signing` | 1 contract, 2 envelopes, send + update to SIGNED, webhooks with items and refusals by a name that reads as a signature | signatures recorded are true or misread; activation is justified; an active status comes with its event |
| `operators` | 1 contract, 1 envelope, request, close, cancel, revoke, poll, payments by hand, callbacks | an event never without payment, one payment by activation and few in all, customer linked first |
| `activation` | 3 contracts (2 of one client), closing | numbering implements `NumberRegister`; every request ends |
| `intake` | 3 codes, 2 clients, 2 leads, 2 budgets | a final code stays final, few codes are open, results belong together |
| `numbering` | 1 code, 2 clients, 2 leads, 3 budgets | numbering implements `NumberRegister`, no number is met twice; every request ends |
| `budgets` | 2 budgets, of 2 days and of 1 | offers complete and priced, totals right, settled budgets settled, but for stale saves; contract numbers implement `NumberRegister` |
| `staffing` | 3 slots of a day, 2 employees | few allocations; a column changes only by who asks for it |
| `office` | the five parts of `Office` | counts, logouts, recovery codes, permissions, duplicates and outcomes of leads |
| `schema` | databases with data, 4 releases in any order | drift only where three reversals make it, backfills fit what the application writes, conversions lose nothing |
| `desk` | the six parts of `Desk` | payments and items agree, few duplicates, of payments too, active positions, lists complete, documents that add up and stay the same |
| `lost_report` | violation of `DroppedReportWasProcessed` | a delivery dropped as processed never had its effect |
| `hollow` | violation of `NoHollowContracts` | a contract with the default body is rendered without staff and supplies |

### Signing

The instances are in `MCContractSigning`: contracts `c1..c3`, envelopes `e1, e2`, the
operations `Ops` and the statuses `Requested` by manual updates. The reachable state
space is finite without further bounds. Two envelopes are enough for one to be stale.
`signing` has 2,951,906 distinct states: a refusal that is read as a signature (`Misread`)
is one report of each signer and envelope, beside the itemised ones that say who has
signed; the other names are the same to the code, and the proofs are about all forms.
`operators` has 4,140,077: there the reports are callbacks, which say what happened.
`activation` has `CHECK_DEADLOCK FALSE`: without envelopes and updates, once every
contract is closed (or a draft, which cannot be closed) no request is left to make.

What these models show besides, and no run asserts, because nothing in the code
excludes it:

* Two requests at once find no pending row and create two envelopes, although a
  comment in `create-signature-request.service.ts` (28-33) says that the one that is
  there is used again.
* The envelope that is used again (line 32) may be dead: one row is still PENDING
  while the signer of another rejected, or a revocation marked the first row only.
* A contract is billed twice by `createPayment` beside an activation, or twice at once:
  `FewPayments` allows as many payments as there are requests at a time, and one by
  activations. In `operators` TLC reaches two.
* That activations bill once holds in `operators`, where no operator sets an active status
  by hand. With a manual SIGNED it does not: the status that the reports would write is
  there already, so it is not written, the row is not locked, and two reports bill
  the contract twice. `signing` therefore does not check it.

### Intake

`RoomForCode`, `RoomForLead` and `RoomForBudget` are
the bounds: a request that will insert a row starts only while there is a row for
every request under way. Three codes are the least at which an operator could have
more open codes than requests; two budgets the least at which one form is submitted
twice; three make two requests meet at the lock when there are numbers already.
Rows and requests are interchangeable and taken up to symmetry, but not in
`numbering`, which checks liveness and a refinement. Both have `CHECK_DEADLOCK FALSE`
because the bounds may be reached: all codes issued and expired, all budgets created.

### Budgets and staffing

`MCBudgets` (497,011 distinct states): `b1` is created with two days, a discount of a
quarter and a line that has no price, and is updated by a status alone, by lines
alone, or by fewer days together with a status. Two days and two prices are what the
gate tells apart, and one more would only repeat a line. `b2` starts approved, as its
creation and two updates leave it, so that two contracts count at once. Once both
budgets are settled nothing is left to ask: `CHECK_DEADLOCK FALSE`.

`MCEventStaffing` (249,000): two lines ask for three slots on one day, for two
employees of whom one fits all three and the other, a man, only the porter's; a third
line is a supply and has no slot. Three slots are more than two requests, so `FewAllocations` is not
true for want of slots.

### Office

`MCOffice` (584,597, all parts): the lock is at 3 failures instead of 5, a recovery
code at 2 wrong entries; 4 refresh tokens, 3 recovery codes, 3 leads of one client,
each one more than requests, so that the properties that count against the number of
requests can fail. Two groups and two pages of which one group has both, so that
an override can be in either direction. Bounds may be reached (`CHECK_DEADLOCK FALSE`).

### Desk

`MCDesk` (724,113 distinct states): four lists of items, of which one is refused, and six
updates of a payment; three owners in the catalogue, so that the unique index alone
would allow three rows of a name while `FewNames` allows two; two positions and two
employees, one document; three inserts of the profile; lists of up to three rows
with pages of one, of two, and of the default length. Documents: two budgets (a day with
staff, supplies, fee and percentage; two days with a discount larger than the
second), four updates that go from one to the other or enter discounts and fees,
one update of the lead, one of the profile and one of the contractor in the contract.
`CHECK_DEADLOCK FALSE` because bounds are reached. `hollow` is the same instance with
documents alone.

### Schema

`MCSchemaMigrations` (1,845,135 distinct states): four releases, `{9, 10, 23, 36}`, in between
which the migrations lie whose order or reversal matters: the column that is ensured
twice, the items of payments, and the timestamp that sorts last. Any of them is run and
any deployed at any time. A database has interesting data of one kind at a time -
employees and lines, signatures of one or two envelopes, a budget of 0 to 2 days, payments
and events, an address and slots - since migrations of different kinds touch no common
table; of each kind those that the migrations tell apart.

### Fairness

`FairSpec`, used by `activation` and `numbering`: strong fairness of each
worker's own next step. A request that was taken up is run by the platform to
its end. The steps that wait for a contract row are enabled again each time the
holder ends its transaction, and PostgreSQL serves the waiting sessions in turn,
so a session that waits again and again gets the row: strong, not weak,
fairness. The advisory lock is handed on in the same way. Nothing is assumed of
operators, signers, prospects or deliveries.

The other modules have no lock that is waited for but those of deleted rows, which
one transaction holds from its DELETE to its end without waiting for another; there
is no liveness property of them beyond what `RequestsEnd` shows of the harder case.

## 5. Proofs

TLAPS checks 44 theorems in seven modules, and in an eighth (`FiniteSums`) the lemmas about
sums and order that two of them share, for every value of the constants that
satisfies the named assumptions of the modules: contracts, codes, budgets and requests
are finitely many where they are counted, so are the values of a price, where prices are
added (`FiniteAssumption`: a price is `numeric(12,2)`), `None` is none of the values, and
inputs have their types (`FormsAssumption`: what the DTOs of a budget let through).
Nothing bounds envelopes, days, lines, employees or the size of a price.

| module | theorem | says: `Spec =>` |
|---|---|---|
| `ContractSigningProofs` | `TypeCorrect` | `[]TypeOK` |
| | `EventsArePaid` | `[]EventHasPayment` |
| | `EventsNumbered` | `EventsNumberedInOrder` (refinement) |
| | `ActivatedWithEvent` | `ActivatedWithStatus` |
| | `BilledOnce` | `[]FewPayments`, if nobody asks for an active status |
| | `EventsHaveCustomers` | `CreatedWithCustomer`, if nobody asks for an active status |
| | `SignaturesTrue` | `[]SignedRowsAreSigned` |
| | `EventsJustified` | `ActivationJustified` |
| `PublicIntakeProofs` | `TypeCorrect` | `[]TypeOK` |
| | `NumbersFree` | `[]NumberIsFree` |
| | `BudgetsNumbered` | `BudgetsNumberedInOrder` (refinement) |
| | `FinalStatus` | `FinalStatusStays` |
| | `OpenCodesFew` | `[]FewOpenCodes` |
| | `ResultsTogether` | `[]ResultsBelongTogether` |
| `BudgetProofs` | `TypeCorrect` | `[]TypeOK` |
| | `DaysWithoutGap` | `[]NoGapInDays` |
| | `OffersAreComplete` | `[]OffersComplete` |
| | `TotalsAgree` | `[]TotalAgrees` |
| | `ContractsAreOfApproved` | `[]ContractsOfApproved` |
| | `SettledStaysSo` | `SettledStays` |
| | `ContractsNumbered` | `ContractsNumberedInOrder` (refinement) |
| `StaffingProofs` | `TypeCorrect` | `[]TypeOK` |
| | `AskedColumns` | `OnlyAskedChanges` |
| | `AllocationsStayFew` | `[]FewAllocations` |
| `OfficeProofs` | `TypesHold` | `[]TypeOK` |
| | `CountsHaveFailed` | `[]CountedHaveFailed` |
| | `SessionsEnd` | `LogoutEnds` |
| | `CodesStayFew` | `[]FewRecoveryCodes` |
| | `CodesResetOnce` | `ResetsOnce` |
| | `PagesStayAsAsked` | `[]PagesAsAsked` |
| | `LeadsStayFew` | `[]FewLeads` |
| | `OutcomesStay` | `OutcomeStays` |
| `DeskProofs` | `TypesHold` | `[]TypeOK` |
| | `AmountsAgree` | `[]LedgerAgrees` |
| | `PaymentsMoveOn` | `TransitionsHold` |
| | `RecordsStayFew` | `[]FewRecords` |
| | `PositionsAreActive` | `AssignedWereActive` |
| | `ReadersSeeAll` | `[]AllShown` |
| | `ProposalsAddUp` | `[]ProposalAddsUp` |
| | `TermsAreTheSame` | `[]SameTerms` |
| | `ClausesStay` | `TermsStay` |
| `SchemaProofs` | `BackfillsAgree` | `BackfillsMeet` |
| | `DriftIsConfined` | `[]DriftConfined` |
| | `ConversionsKeep` | `NothingLost` |

The assumption about what operators ask for, `Requested \cap ActiveStatuses = {}`, is
needed. The code lets an operator set SIGNED by hand, which activates nothing.
TLC then finds, with one contract, one envelope and two workers, that `FewPayments` is
violated: two reports read the status that was set by hand, so neither writes it nor
locks the row, and both go on to activate; between them the contract is canceled, and
each inserts a payment. The theorems about signatures need no assumption: they hold of
every form of report, and name the reports that are misread.

* **Types.** `TypeInv` adds to `TypeOK` what the types need to be inductive:
  a worker inside a transaction has a contract and a contract status, one that
  saves rows has an envelope and a status of a signature, and so on. The only
  arithmetic is in the event number: a contract without an event leaves at most
  N - 1 events, so the next number is at most N.
* **Payments.** An event is inserted, or exists already, when `CreatePayments`
  looks for payments; from there to the commit the worker either carries a
  payment or the table has one, and payments are never deleted (`PaymentInv`).
* **Numbers.** `NumberInv`: the events are numbered exactly 1..n. A transaction
  carries n + 1 for the n it counted. If nobody committed since, its commit is a
  step of the register; if somebody did, n + 1 is taken and the unique index
  refuses it: a step that changes nothing. This is the whole argument for a count
  without a lock, and it also shows what it needs: no event is ever deleted.
* **Status and event.** `ScheduleInv`: who has given a contract an active status, and is
  past the creation of the event, carries an event or has found one. A commit that makes
  a contract active therefore brings the event with it, and the only other writes of an
  active status are those of manual updates; this needs no assumption.
* **One payment.** `BillingInv`: an active contract has an event (`ActiveHaveEvents`), a
  request that has written the status holds the row until it ends, one that activates
  has written it or has found an event, and one that inserts a payment has written it
  and seen none by activation. Two such requests would hold the row at once. What is not
  inductive alone is the payment count: without the event of an active contract, a report
  that writes nothing, and so locks nothing, could insert one.
* **Few payments.** `CountInv`: the payments of a contract and the requests about to insert
  one, by activation or by hand, are together no more than requests. A request comes to
  insert only where it has seen none: until the first is there the requests are all
  that count, and from then on none is added.
* **Customers.** `CustomerInv`: a link is to a customer that is stored or is about to be,
  of the document that the lead has, and an event is created after the link.
* **Signatures.** `SignatureInv`: whoever a row says has signed, a worker is about to save
  so, or a status query was answered so, is believed (`Believed`): he has signed at the
  provider, or was misread. A report sent says what is true at the provider. Neither
  is ever taken back (`StepsGrow`), as signatures stay and reports remain sent. So stale
  saves, repetition and reordering can lose a signature but not invent one.
* **Justification.** `JustifiedInv`: a request that carries SIGNED towards the
  contract read rows that all said SIGNED, so every signer of some envelope is believed to
  have signed it; this stays true however long the request waits.

For the public intake:

* **Numbers.** `NumberInv`: the budgets are numbered exactly 1..n, and a transaction
  about to commit holds the lock and carries n + 1. Nobody else can be about to
  commit, since the lock is held by one; so n is still the number of budgets when
  it commits, and the commit is a step of the register. The types need this too:
  without it the largest number need not exist.
* **Codes.** No invariant is needed for `FinalStatusStays`: of an issued code no step
  takes back the owner, the invalidation or the results, and none invalidates a
  code with results. `FewOpenCodes` is inductive as it stands because it counts the
  codes about to be inserted: invalidating leaves none open and adds one request,
  inserting turns one request into one open code, and nothing else opens a code.
* **Results.** `ResultInv` adds what a submission carries: the owner of its code,
  a lead that exists, and before `Consume` a budget for that lead and owner.
  Leads and budgets that exist stay as they are, so this outlasts any delay.

For the budgets:

* **Shape.** `BudgetInv` says of every budget without a stale save that it is good
  (`GoodBudget`: an offer is complete, the total is that of the lines), and of every
  update that nobody has overtaken that it would leave it so (`UpdateForm`). In the steps a
  sum over lines need not be known to be a natural number: the types say that a total is one
  of `Totals`, what `TotalAmount` makes of some lines. `TypeCorrect` says that it is a
  natural number: no discount takes off more than there is (`DiscountIs`), and sums over
  finite sets of natural numbers are natural (`TotalIsNat`).
* **Days.** `NoGapInDays` needs no exception for stale saves: lines come and go in
  whole batches that one request inserted, and every batch is gapless
  (`GaplessBatches`), so that any union of them is.
* **Deleted lines.** No two transactions hold the same deleted line (`Apart`), so that
  the lines one counts on when it commits are not gone by another's commit.
* **Numbers.** As for events: `NumbersUsed` are exactly 1..n, a later insert of the
  same number is refused, so the module implements the register.

For the staffing of events: a request that is fresh carries, in the columns it does
not name, what the row holds (`WorkerForm`); hence a column changes only by who names
it or is stale. `AllocationsStayFew` counts the slots of a day that an employee
has or may get from a request under way (`Booked`). A step adds to this set only by
the check of a new request, and that passes only if he holds no slot of the day yet
but those that requests are about: the set is then an image of the set of requests
(`BookedStep`). Saves of stale entities add nothing, as their slots are counted.

For the administration, `PartSteps` says that a step of `Office` is a step of one part
and leaves the others alone, so that each part has an invariant of its own:

* `CredentialInv`: the count that a login goes on with is no more than the failures
  since the count was last at zero, unless that was after it read.
* `SessionInv`: the tokens that requests carry have been signed, and a request that
  nobody has overtaken carries the token and the activity of the session (`InTime`).
* `RecoveryInv`: a code with the last attempt used is invalid, and a reset that is
  not overlapped has a code that nobody has consumed. For `FewRecoveryCodes` the codes
  that are open or that a wrong entry may open again, and the codes to be inserted, are
  together no more than the requests (`FewOpenable`).
* `AccessInv`: a request that nobody has overtaken has read the group the user has, and
  finds no overrides when it inserts its own (`AccessForm`); overrides that make some
  pages of the defaults give just these pages (`EffectiveDesired`).
* `LeadInv`: the leads of a client that a lookup finds (`Held`) and the requests about to
  give a lead that name (`Naming`) are together no more than requests, as a lookup that
  finds another ends its request.

For the desk, `PartSteps` again splits the steps of `Desk` into those of its parts:

* `LedgerInv`: a request that nobody has overtaken carries a row whose status and amounts
  agree, and which is the sum of the items that will be all there are, or what may become
  of the payment as it is (`LedgerForm`). Deleting before inserting is safe as long as the
  items deleted are all there were. That a sum of amounts is a natural number
  (`SumsAreNatural`) is proved without induction over sets: of the subsets for which it
  is not, a smallest one would lose an element and be one of those for which it is.
* `LedgerCount`: the payment, its twins and the requests about to insert another are together
  no more than requests, and once there is a payment nobody comes to insert.
* `CatalogInv`: the rows of a name that a lookup finds, and the requests about to give a
  row that name, are together no more than requests (`FewHeld`), as for leads.
* `ProfileInv`: profiles have times of creation of their own, and these belong to
  different requests that are not about to create another (`FewTimes`): who finds a
  profile creates none.
* `EmployeeInv`: employees are numbered in order, and a request that is not overtaken
  carries the position that the row has, or one that is active.
* `ListInv`: until a row leaves the list, rows are different, and each row at a position
  that the pages have passed was shown or entered meanwhile. A page with fewer rows than
  its limit, or a total not beyond its end, then means that all positions are passed.
* `DocumentsInv`: a contract is of an approved budget, or one canceled with it, and its
  copy has the days, the advance and the total of the budget. So it makes no difference
  to the parties and clauses whether a rendering reads the copy or the budget.
* The types of `Desk` (`TypesHold`) follow from these invariants and two more:
  `L!TypeOK`, which is inductive, also when rows leave a list, and `DocumentsType` about the
  columns of the lead and the profile and the body of a contract. That stored amounts are
  natural numbers is part of what follows about proposals.

`ProposalsAddUp` relates what is stored of a budget to what is printed of it. What is stored:
`PricedInv` says that the lists of fees and discounts have entries for days and no
negative amount, that the subtotal is the price of all items and the total that of the
days (`Total`), each less a discount. It is inductive by itself but for the steps that
cancel a budget, which need `DocumentsInv`; that an update may leave the subtotal as it was
is right because items are only replaced by others that are all of existing days
(`SubtotalIs`, by `SumOfGroups`). What is printed is taken apart in four steps:

* *Sums* (`FiniteSums`). `MapThenSumSet` takes the elements in whatever order CHOOSE gives. `SumRemoves`
  proves that the order makes no difference, and from it that sums may be added
  (`SumOfSums`), split (`SumOfUnion`), renamed by an injection (`SumRenamed`) and grouped
  (`SumOfGroups`). Each is an induction over the subsets of one finite set, which
  `Inductively` replaces by a set of those for which the claim holds: a smallest subset that
  is not in it would lose an element and be in it.
* *Order* (`FiniteSums`). `OrderExists`: every finite set with integer keys has an ordered sequence, so
  that `InOrder` chooses one, which leaves nobody out (`OrderedAll`); of the days 0 to n - 1
  it is the only one (`DaysInOrder`). Items may share an order, as `sortOrder` is 0 by
  default: nothing in the proof depends on which of them comes first.
* *Rows.* `Weight` is what the rows come to that are of some kinds and days, `Banded` says
  that the first k days have one subtotal each, in order. A block adds to both what its
  day costs (`DayBlockIs`, `WeightOfConcat`, `BandedConcat`), and counting (`Counting`,
  the same argument for numbers) carries this over the equation that defines
  `FlattenSeq` (`FlatRows`, `FlatBanded`).
* *Discount.* The sum of the discounts computed again when a proposal is printed, or in
  the mail of one day, is what the total left out (`TotalIs`, `SummaryIs`), as each is
  computed from the same price and fee of a day, and takes off no more than that.

TLC checked `PricedInv` on the instance of the run `desk`, in which two items of a budget
share their order.

For the schema, `BackfillInv` says of the database, and of the one that a failed run goes
back to, that an event has the number of its rank or none, and that once events are numbered
none is without. The weaker half,
about databases that are not numbered yet, is what makes the migration fill in ranks when
it comes; it holds because a revert takes all numbers back. The number of a new event is
a count, which is its rank (`NextRank`). Every other migration writes other fields and
changes neither of the two labels of the schema (`LabelsAdded`, `LabelsStay`). Assumed is
`DatabasesAssumption`: before the first migration there are no payments, and no event
has a number. What `BackfillsMeet` says of payments is about steps (`OnlyByEarlier`): there
are items only while the migration that makes them is applied (`ItemsFromMigration`), and it
leaves no payment without; so a payment without items is new, and of a release that knows
none. The end of a failed run goes back to payments of before: `ItemsInv` says that a run
that found items has left them and the payments as they were.

`DriftInv` says of each database (`Tidy`), the current one and
the one to go back to: no migration is applied twice; nothing is in its schema that was
neither there before nor added by an applied migration nor a label that stays; what an applied migration
drops is gone; and what one adds is there, unless an applied migration drops it or one
that is not applied has taken it along when it was undone (`TakenBack`). The last case
is the reverts of `EnsureBudgetItemsPositionReference`, `ResetPositionsAndDependencies`
and `ConvertBudgetDiscountFieldsToArrays`; it is empty when
all migrations are applied. Four migrations change
what others add (`Pairing`), and run after them: in one run because `Rank` puts them
so, in two because a release has the first so many files (`ReleasesAssumption`), which
include the earlier of a pair, whichever releases come in whatever order. During a run, what is applied and what is `pending` are
together the migrations of the release at least and have nothing in common, so that `Due` can
choose only among what is lacking. No pair has `AddSignerTypeAndFixSignatureDates`,
the one that runs out of order.

`KeepInv` says of a running migration that the database holds what the one held that a
failure goes back to (`Same`): each value as often in a column of signatures, the first
day of each field of a budget, the slots that are taken, and the words of employees. With
it the end of a failed run is the same question as a migration: `Same` is an equivalence,
but for `ResetPositionsAndDependencies`, which empties the positions and which
`NothingLost` excepts; the part of a run before a step and the step compose because
a step of a run takes no migration back. For each migration the argument is another. The
swaps of dates and of documents exchange cells of the same row, each at most once, so
that the cells with a value before and after are in bijection and equally many. A field
of a budget that is still to be converted has a value (`BudgetWhole`); without
that its first day would appear from nowhere. An employee has a text until the positions
are made and then a position named by that text or none (`StaffTyped`), which is what the
reversal writes back. `DatabasesAssumption` gives the types of the data before the first
migration, `PositionsAssumption` that `None` is no position and no text. TLC checked
`KeepInv` on the instance of the run `schema`, with the values of its cells.

Only model-checked: `RequestsEnd`, which is liveness under fairness and out of the
prover's reach, as are ENABLED and induction over data. No module that is proved
about has a RECURSIVE operator. Every `TypeOK` is a theorem, those of the parts
of `Office` and `Desk` as conjuncts of theirs.

## 6. What is not modelled

* **Mails other than the proposal, PDF templates and rendering**: wording, layout,
  fonts, fragments that are merged, the mail provider. Output without state. Numbers
  in words are not modelled either.
* **Response catalogues, DTOs, resolvers, guards, rate limit**: they keep no state but
  the rate counter of a library; who may call what is decided from the pages that
  `UserAccess` has.
* **The creation of users**: the user and the page permissions are inserted on two
  connections; if the user is in an open transaction (`create-user.service.ts` 91) the
  permissions meet a foreign key that is not there yet. One request, no interleaving.
* **Customers by hand**: creation is refused by the code, and an update is a save of one
  row that no decision reads and that looks for no duplicate.
* **Activity of budgets and leads, notes, dates that nothing compares, contact data**:
  columns that no condition of a modelled operation reads.
* **Tables that no migration creates**: they are there before the first one, in
  `SchemaMigrations` as in the repository.
* **The bootstrap of the first administrator**, tokens and hashes: run once, or stateless.
