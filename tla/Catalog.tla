------------------------------- MODULE Catalog -------------------------------
(***************************************************************************)
(* The catalogue of positions, or that of supplies: the same operations on *)
(* tables of the same shape (kind says which of the two is followed).  A   *)
(* name is compared as its normalized form.  It is looked up among the     *)
(* rows of everybody, while the unique index is one of each owner; the     *)
(* lookup and the save are apart.                                          *)
(***************************************************************************)
EXTENDS Integers, FiniteSets

CONSTANTS
    Workers,    \* requests served at the same time (a bound)
    Owners,     \* users who create rows
    Words,
    MaxRows,    \* rows that are followed (a bound)
    None

VARIABLES
    kind,       \* which of the two catalogues
    rows,       \* tb_positions or tb_supplies, in the order of creation
    worker      \* the requests being served

Kinds == {"positions", "supplies"}

\* A word as it is typed: plain, in capitals or with accents, or with a sign
\* that is a diacritic but not a combining mark (as a grave accent alone).
Names == [word : Words, form : {"plain", "accented", "signed"}]

\* normalizeName of the one catalogue takes combining marks away, that of the
\* other every diacritic.
Normalized(name) ==
    [name EXCEPT !.form = IF kind = "positions" /\ name.form = "signed" THEN "signed"
                          ELSE "plain"]

Ids == 1 .. MaxRows

Row == [owner : Owners, name : Names]

NoRow == [owner |-> None, name |-> None]

Requests ==
    [pc    : {"idle", "lookup", "insert", "reload", "write"},
     row   : Ids \cup {None},        \* the row to update
     owner : Owners \cup {None},     \* of the row to insert
     name  : Names \cup {None}]      \* normalized; None if it is not written

Idle == [pc |-> "idle", row |-> None, owner |-> None, name |-> None]

TypeOK ==
    /\ kind \in Kinds
    /\ rows \in [Ids -> Row \cup {NoRow}]
    /\ worker \in [Workers -> Requests]

Init ==
    /\ kind \in Kinds
    /\ rows = [r \in Ids |-> NoRow]
    /\ worker = [p \in Workers |-> Idle]

At(p, pc) == worker[p].pc = pc

Goto(p, w) == worker' = [worker EXCEPT ![p] = w]

Known == {r \in Ids : rows[r] # NoRow}

Named(name) == {r \in Known : rows[r].name = name}

\* The unique index on owner and normalized name.
IndexAllows(r, row) ==
    \A s \in Named(row.name) : s = r \/ rows[s].owner # row.owner

CreateRow(p, owner, name) ==
    /\ At(p, "idle")
    /\ Goto(p, [pc |-> "lookup", row |-> None, owner |-> owner, name |-> Normalized(name)])
    /\ UNCHANGED <<kind, rows>>

\* An update reads the row; a name that the row has already is not looked up.
UpdateRow(p, r, name) ==
    LET new == Normalized(name)
    IN  /\ At(p, "idle") /\ r \in Known
        /\ Goto(p, [pc |-> IF new = rows[r].name THEN "reload" ELSE "lookup",
                    row |-> r, owner |-> None, name |-> new])
        /\ UNCHANGED <<kind, rows>>

\* Mutant: the name is looked up among the rows of the same owner.
LookUpOwn(p) ==
    LET w == worker[p]
    IN  /\ At(p, "lookup")
        /\ \A s \in Named(w.name) : w.row = None /\ rows[s].owner # w.owner
        /\ Goto(p, [w EXCEPT !.pc = IF w.row = None THEN "insert" ELSE "reload"])
        /\ UNCHANGED <<kind, rows>>

\* The lookup; an earlier row of the name refuses the request (Fail).
LookUp(p) ==
    LET w == worker[p]
    IN  /\ At(p, "lookup")
        /\ Named(w.name) = {}
        /\ Goto(p, [w EXCEPT !.pc = IF w.row = None THEN "insert" ELSE "reload"])
        /\ UNCHANGED <<kind, rows>>

\* The insert, which the index may refuse (Fail).
InsertRow(p) ==
    LET w == worker[p]
        row == [owner |-> w.owner, name |-> w.name]
        id == Cardinality(Known) + 1
    IN  /\ At(p, "insert") /\ id \in Ids
        /\ IndexAllows(id, row)
        /\ rows' = [rows EXCEPT ![id] = row]
        /\ Goto(p, Idle)
        /\ UNCHANGED kind

\* The save reads the row again: a name it has by now is not written.
ReloadRow(p) ==
    LET w == worker[p]
    IN  /\ At(p, "reload")
        /\ Goto(p, [w EXCEPT !.pc = "write",
                             !.name = IF w.name = rows[w.row].name THEN None ELSE w.name])
        /\ UNCHANGED <<kind, rows>>

WriteRow(p) ==
    LET w == worker[p]
        row == IF w.name = None THEN rows[w.row] ELSE [rows[w.row] EXCEPT !.name = w.name]
    IN  /\ At(p, "write")
        /\ IndexAllows(w.row, row)
        /\ rows' = [rows EXCEPT ![w.row] = row]
        /\ Goto(p, Idle)
        /\ UNCHANGED kind

\* A request is refused or fails.
Fail(p) ==
    /\ ~ At(p, "idle")
    /\ Goto(p, Idle)
    /\ UNCHANGED <<kind, rows>>

Next ==
    \E p \in Workers :
        \/ \E owner \in Owners, name \in Names : CreateRow(p, owner, name)
        \/ \E r \in Ids, name \in Names : UpdateRow(p, r, name)
        \/ LookUp(p) \/ InsertRow(p)
        \/ ReloadRow(p) \/ WriteRow(p)
        \/ Fail(p)

\* A name is in the catalogue once, whoever has entered it, except that
\* requests which overlap may bring as many rows of it as there are requests
\* (create-positions, update-positions.validator and those of supplies): the
\* index of each owner does not refuse the second.
FewNames == \A name \in Names : Cardinality(Named(name)) <= Cardinality(Workers)

=============================================================================
