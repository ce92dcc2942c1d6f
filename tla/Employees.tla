------------------------------ MODULE Employees ------------------------------
(***************************************************************************)
(* Employees and the positions they are given.  A request looks a document *)
(* number and a position up and saves later; an employee is not given a    *)
(* position that is inactive.  A position may be deactivated by an update  *)
(* of the catalogue at any time, whoever has it.                           *)
(***************************************************************************)
EXTENDS Integers, FiniteSets

CONSTANTS
    Workers,        \* requests served at the same time (a bound)
    Positions,
    Documents,      \* document numbers
    MaxEmployees,   \* employees that are followed (a bound)
    None

VARIABLES
    active,     \* tb_positions.is_active
    employees,  \* tb_employees
    worker      \* the requests being served

Ids == 1 .. MaxEmployees

Employee == [document : Documents \cup {None}, position : Positions]

NoEmployee == [document |-> None, position |-> None]

\* What a request enters: a document may be blank (""), and an update leaves
\* out what is None.
Inputs == [document : Documents \cup {None, ""}, position : Positions \cup {None}]

Requests ==
    [pc       : {"idle", "document", "position", "insert", "reload", "write"},
     id       : Ids \cup {None},                    \* the employee to update
     document : Documents \cup {None},              \* None: not written
     position : Positions \cup {None},
     checked  : BOOLEAN,        \* the position is to be looked up
     late     : BOOLEAN]        \* history: the position was deactivated, or
                                \* the employee written, since it was read

Idle == [pc |-> "idle", id |-> None, document |-> None, position |-> None,
         checked |-> FALSE, late |-> FALSE]

TypeOK ==
    /\ active \in [Positions -> BOOLEAN]
    /\ employees \in [Ids -> Employee \cup {NoEmployee}]
    /\ worker \in [Workers -> Requests]

Init ==
    /\ active = [q \in Positions |-> TRUE]
    /\ employees = [e \in Ids |-> NoEmployee]
    /\ worker = [p \in Workers |-> Idle]

At(p, pc) == worker[p].pc = pc

Goto(p, w) == worker' = [worker EXCEPT ![p] = w]

Known == {e \in Ids : employees[e] # NoEmployee}

Holding(document) == {e \in Known : employees[e].document = document}

Given(x, y) == IF x = None THEN y ELSE x

\* A document that is entered; a blank one is none.
Entered(document) == IF document = "" THEN None ELSE document

\* A document that somebody has refuses the request.
CreateEmployee(p, input) ==
    LET document == Entered(input.document)
    IN  /\ At(p, "idle")
        /\ input.position # None
        /\ document # None => Holding(document) = {}
        /\ Goto(p, [Idle EXCEPT !.pc = "position", !.document = document,
                                !.position = input.position, !.checked = TRUE])
        /\ UNCHANGED <<active, employees>>

\* An update reads the employee: a document is looked up if it is another one,
\* and a blank one is not written.
UpdateEmployee(p, e, input) ==
    LET document == Entered(input.document)
    IN  /\ At(p, "idle") /\ e \in Known
        /\ Goto(p, [pc |-> IF document \in {None, employees[e].document}
                             THEN "position" ELSE "document",
                    id |-> e,
                    document |-> IF input.document = "" THEN None
                                 ELSE Given(document, employees[e].document),
                    position |-> Given(input.position, employees[e].position),
                    checked |-> input.position # None, late |-> FALSE])
        /\ UNCHANGED <<active, employees>>

\* The lookup of the other document.
FindDocument(p) ==
    /\ At(p, "document")
    /\ Holding(worker[p].document) = {}
    /\ Goto(p, [worker[p] EXCEPT !.pc = "position"])
    /\ UNCHANGED <<active, employees>>

\* Mutant: a position only has to exist.
FindAnyPosition(p) ==
    LET w == worker[p]
    IN  /\ At(p, "position")
        /\ Goto(p, [w EXCEPT !.pc = IF w.id = None THEN "insert" ELSE "reload"])
        /\ UNCHANGED <<active, employees>>

\* The lookup of the position, which has to be active; not if an update keeps
\* the one that was read.
FindPosition(p) ==
    LET w == worker[p]
    IN  /\ At(p, "position")
        /\ w.checked => active[w.position]
        /\ Goto(p, [w EXCEPT !.pc = IF w.id = None THEN "insert" ELSE "reload"])
        /\ UNCHANGED <<active, employees>>

\* The unique index on documents.
IndexAllows(e, document) == document = None \/ Holding(document) \subseteq {e}

InsertEmployee(p) ==
    LET w == worker[p]
        e == Cardinality(Known) + 1
    IN  /\ At(p, "insert") /\ e \in Ids
        /\ IndexAllows(e, w.document)
        /\ employees' = [employees EXCEPT ![e] = [document |-> w.document,
                                                  position |-> w.position]]
        /\ Goto(p, Idle)
        /\ UNCHANGED active

Differing(x, y) == IF x = y THEN None ELSE x

\* The save reads the employee again: only what differs is written.
ReloadEmployee(p) ==
    LET w == worker[p]
    IN  /\ At(p, "reload")
        /\ Goto(p, [w EXCEPT !.pc = "write",
               !.document = Differing(w.document, employees[w.id].document),
               !.position = Differing(w.position, employees[w.id].position)])
        /\ UNCHANGED <<active, employees>>

\* Whoever had read the employee has read it too early now.
WriteEmployee(p) ==
    LET w == worker[p]
    IN  /\ At(p, "write")
        /\ IndexAllows(w.id, w.document)
        /\ employees' = [employees EXCEPT ![w.id] =
                           [document |-> Given(w.document, @.document),
                            position |-> Given(w.position, @.position)]]
        /\ worker' = [q \in Workers |->
                        IF q = p THEN Idle
                        ELSE IF worker[q].id = w.id THEN [worker[q] EXCEPT !.late = TRUE]
                        ELSE worker[q]]
        /\ UNCHANGED active

\* An update of the catalogue.
SetActive(q, is) ==
    /\ active' = [active EXCEPT ![q] = is]
    /\ worker' = [p \in Workers |->
                    IF worker[p].position = q /\ ~ is
                    THEN [worker[p] EXCEPT !.late = TRUE] ELSE worker[p]]
    /\ UNCHANGED employees

Fail(p) ==
    /\ ~ At(p, "idle")
    /\ Goto(p, Idle)
    /\ UNCHANGED <<active, employees>>

Next ==
    \/ \E p \in Workers :
         \/ \E input \in Inputs : CreateEmployee(p, input)
         \/ \E e \in Ids, input \in Inputs : UpdateEmployee(p, e, input)
         \/ FindDocument(p) \/ FindPosition(p) \/ InsertEmployee(p)
         \/ ReloadEmployee(p) \/ WriteEmployee(p)
         \/ Fail(p)
    \/ \E q \in Positions, is \in BOOLEAN : SetActive(q, is)

\* An employee is given an active position, whichever way: created with it or
\* by an update, also one that only leaves it as it was read (create- and
\* update-employees.validator) - but for requests that were overtaken by the
\* deactivation of the position or by another update of the employee.
GivenActive(e) ==
    LET q == employees'[e].position
    IN  \/ q = employees[e].position
        \/ active[q]
        \/ \E p \in Workers :
             /\ worker[p].pc \in {"insert", "write"}
             /\ worker[p].late /\ worker[p].position = q

=============================================================================
