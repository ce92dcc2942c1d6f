------------------------------- MODULE Listing -------------------------------
(***************************************************************************)
(* Reading a list page by page while rows are entered and change.  The     *)
(* lists of the application have one form: the rows that a filter lets     *)
(* through, the newest first, a page of them by offset, and then, by       *)
(* another query, how many there are.  They differ in the columns that     *)
(* their filters name; a row leaves a filtered list when such a column is  *)
(* changed.                                                                *)
(***************************************************************************)
EXTENDS Integers, FiniteSets, SequencesExt

CONSTANTS
    MaxRows,    \* rows that are entered (a bound)
    Limits,     \* lengths of a page that are asked for
    None

VARIABLES
    list,       \* which list is read, and with a filter on which columns
    rows,       \* the rows it has, in its order
    entered,    \* how many rows have been entered so far
    reader,     \* the page it is at
    shown,      \* the rows it has been given
    missed,     \* history: the rows that entered after the reader had begun
    left        \* history: rows have left the list since then

-----------------------------------------------------------------------------
(* The lists: the columns that their filters name *)

GetCustomers == {}

GetUsers == {}

GetPublicIntakeCodes == {}

GetEmployees == {"createdAt"}

GetPositions == {"isActive", "name"}

GetSupplies == {"isActive", "name"}

GetLeads == {"status", "createdAt"}

GetBudgets == {"idLeads", "status", "issueDate"}

GetContracts == {"idBudgets", "status", "createdAt"}

GetEvents == {"idContracts", "status", "createdAt"}

GetPayments == {"idLeads", "idBudgets", "idContracts", "idEvents", "status", "createdAt"}

Lists == [customers |-> GetCustomers, users |-> GetUsers, codes |-> GetPublicIntakeCodes,
          employees |-> GetEmployees, positions |-> GetPositions,
          supplies |-> GetSupplies, leads |-> GetLeads, budgets |-> GetBudgets,
          contracts |-> GetContracts, events |-> GetEvents, payments |-> GetPayments]

\* Columns that updates change in rows that are there.
Changing == {"isActive", "name", "status", "issueDate"}

-----------------------------------------------------------------------------
(* Pages *)

DefaultPage == 1

DefaultLimit == 10

ResolvePagination(page, limit) ==
    LET safePage == IF page = None \/ page <= 0 THEN DefaultPage ELSE page
        safeLimit == IF limit = None \/ limit <= 0 THEN DefaultLimit ELSE limit
    IN  [page |-> safePage, limit |-> safeLimit, skip |-> (safePage - 1) * safeLimit]

\* Mutant: there is more only if more than one row is left.
HasNextPageShort(page, limit, total) == page * limit < total - 1

CalculateHasNextPage(page, limit, total) == page * limit < total

\* The rows of a page, by offset.
Page(p) == {rows[k] : k \in DOMAIN rows \cap (p.skip + 1 .. p.skip + p.limit)}

\* A total is counted only if the page does not tell it: not if it has rows,
\* but fewer than it may have.
NeedsCount(p, found) == found = p.limit \/ (found = 0 /\ p.skip > 0)

-----------------------------------------------------------------------------
(* State *)

Readers == [pc : {"page", "count", "end"}, page : Nat \cup {None}, limit : Limits]

TypeOK ==
    /\ list \in [of : DOMAIN Lists, by : SUBSET UNION {Lists[l] : l \in DOMAIN Lists}]
    /\ rows \in Seq(1 .. MaxRows)
    /\ entered \in 0 .. MaxRows
    /\ reader \in Readers
    /\ shown \subseteq 1 .. MaxRows /\ missed \subseteq 1 .. MaxRows
    /\ left \in BOOLEAN

\* A reader begins; he names one column of the filter, or none.
Init ==
    /\ list \in {[of |-> l, by |-> by] :
                   l \in DOMAIN Lists,
                   by \in {{}} \cup {{c} : c \in UNION {Lists[k] : k \in DOMAIN Lists}}}
    /\ list.by \subseteq Lists[list.of]
    /\ entered \in 0 .. MaxRows
    /\ rows = [k \in 1 .. entered |-> k]
    /\ reader \in {[pc |-> "page", page |-> None, limit |-> limit] : limit \in Limits}
    /\ shown = {} /\ missed = {} /\ left = FALSE

\* A new row, or one that has come to pass the filter.  It is not always the
\* first one: its time is when its transaction began, and events are ordered
\* by their days.
Enter(k) ==
    /\ entered < MaxRows
    /\ k \in 1 .. Len(rows) + 1
    /\ entered' = entered + 1
    /\ rows' = InsertAt(rows, k, entered + 1)
    /\ missed' = missed \cup {entered + 1}
    /\ UNCHANGED <<list, reader, shown, left>>

\* A row does not pass the filter any more.
Leave(k) ==
    /\ list.by \cap Changing # {}
    /\ k \in DOMAIN rows
    /\ rows' = RemoveAt(rows, k)
    /\ left' = TRUE
    /\ UNCHANGED <<list, entered, reader, shown, missed>>

\* What the reader does with an answer: he asks for the next page if there is
\* one.
Turn(p, total) ==
    IF CalculateHasNextPage(p.page, p.limit, total)
    THEN [reader EXCEPT !.pc = "page", !.page = p.page + 1]
    ELSE [reader EXCEPT !.pc = "end"]

FetchPage ==
    LET p == ResolvePagination(reader.page, reader.limit)
        found == Cardinality(Page(p))
    IN  /\ reader.pc = "page"
        /\ shown' = shown \cup Page(p)
        /\ reader' = IF NeedsCount(p, found) THEN [reader EXCEPT !.pc = "count"]
                     ELSE Turn(p, p.skip + found)
        /\ UNCHANGED <<list, rows, entered, missed, left>>

CountRows ==
    /\ reader.pc = "count"
    /\ reader' = Turn(ResolvePagination(reader.page, reader.limit), Len(rows))
    /\ UNCHANGED <<list, rows, entered, shown, missed, left>>

Next ==
    \/ \E k \in 1 .. MaxRows + 1 : Enter(k) \/ Leave(k)
    \/ FetchPage \/ CountRows

-----------------------------------------------------------------------------

\* Who reads a list to its end has been given every row that was in it all
\* the while, whatever was entered between two pages or between a page and
\* its count (pagination.helper and the get validators) - unless rows have
\* left the list, which moves the others to pages he has read already.
AllShown ==
    reader.pc = "end" /\ ~ left => \A k \in DOMAIN rows : rows[k] \in shown \cup missed

=============================================================================
