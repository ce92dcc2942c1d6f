---------------------------- MODULE EventStaffing ----------------------------
(***************************************************************************)
(* The event of a signed contract: the slots its budget's lines ask for,   *)
(* the employees who get them, and the overtime.                           *)
(*                                                                         *)
(* Nothing here is in a transaction with its checks.  A request reads a    *)
(* slot, checks whether the employee has another one that day, and saves:  *)
(* the row is read once more and the columns in which the entity differs   *)
(* from it are written.  Events do not meet: there is one.                 *)
(*                                                                         *)
(* A request's fresh is history: it records whether nobody else has        *)
(* written what it is about since it read it.                              *)
(***************************************************************************)
EXTENDS Integers, FiniteSets

CONSTANTS
    Lines,       \* lines of the budget
    LineType,    \* what they are: LABOR or SUPPLY
    LineDay,     \* the event day they are for
    Quantity,    \* how many are booked
    Terms,       \* the terms that a line's description holds
    Employees,   \* any of them may be an active one when a request asks
    Gender,      \* of the employees
    Workers,     \* requests served at the same time (a bound)
    Statuses,    \* statuses that are entered (a bound)
    Overtimes,   \* minutes of overtime that are entered (a bound)
    None

EventStatus == {"scheduled", "in_progress", "completed", "canceled"}

FemaleTerms == {"copeira", "garconete", "porteira", "monitora"}

MaleTerms == {"copeiro", "garcom", "garcon", "porteiro", "monitor"}

ASSUME ConstantsAssumption ==
    /\ IsFiniteSet(Workers)
    /\ LineType \in [Lines -> {"LABOR", "SUPPLY"}]
    /\ Quantity \in [Lines -> Nat]
    /\ LineDay \in [Lines -> Nat]
    /\ Terms \in [Lines -> SUBSET (FemaleTerms \cup MaleTerms)]
    /\ Gender \in [Employees -> {"FEMALE", "MALE"}]
    /\ Statuses \subseteq EventStatus
    /\ Overtimes \subseteq Nat

ASSUME NoneAssumption ==
    /\ None \notin Employees
    /\ None \notin BOOLEAN
    /\ None \notin EventStatus
    /\ None \notin Nat

Staffed(l) == LineType[l] # "SUPPLY"

\* A line gets one slot per unit, and one if it says none.
SlotCount(l) == IF Quantity[l] > 0 THEN Quantity[l] ELSE 1

Slots == UNION {{[line |-> l, index |-> k] : k \in 1 .. SlotCount(l)} :
                   l \in {m \in Lines : Staffed(m)}}

VARIABLES
    event,      \* tb_events: status and overtime of the event
    slot,       \* tb_event_assignments: employee and whether it is active
    worker      \* the requests being served

vars == <<event, slot, worker>>

-----------------------------------------------------------------------------
(* Data *)

\* Mutant: any minutes of overtime are taken.
AnyMinutes(minutes) == TRUE

\* Overtime comes in half hours.
InSteps(minutes) == minutes % 30 = 0

Minutes == {m \in Nat : m % 30 = 0}

EventRows == [status : EventStatus, overtime : Minutes]

SlotRows == [employee : Employees \cup {None}, active : BOOLEAN]

NoEvent == [status |-> None, overtime |-> None]

NoSlot == [employee |-> None, active |-> None]

\* What a request asks for, or a save writes: None for a column left alone.
EventPuts == [status : EventStatus \cup {None}, overtime : Minutes \cup {None}]

SlotPuts == [employee : Employees \cup {None}, active : BOOLEAN \cup {None}]

WorkerStates ==
    [pc    : {"idle", "slot", "put slot", "event", "put event"},
     s     : Slots \cup {None},
     asked : SUBSET {"active", "status", "overtime"},   \* columns it names
     save  : EventPuts \cup SlotPuts,   \* the entity, then its changes
     fresh : BOOLEAN]                    \* history: nobody wrote since it read

Idle == [pc |-> "idle", s |-> None, asked |-> {}, save |-> NoEvent,
         fresh |-> TRUE]

\* The event is created with its slots, all of them active and empty.
Init ==
    /\ event = [status |-> "scheduled", overtime |-> 0]
    /\ slot = [s \in Slots |-> [employee |-> None, active |-> TRUE]]
    /\ worker = [p \in Workers |-> Idle]

At(p, pc) == worker[p].pc = pc

Begin(p, w) == At(p, "idle") /\ worker' = [worker EXCEPT ![p] = w]

\* p has written slot s, or the event: None.
Wrote(p, s) ==
    worker' = [q \in Workers |->
                 IF q = p THEN Idle
                 ELSE IF ~ At(q, "idle") /\ worker[q].s = s
                   THEN [worker[q] EXCEPT !.fresh = FALSE]
                 ELSE worker[q]]

Given(x, y) == IF x = None THEN y ELSE x

Named(x, column) == IF x = None THEN {} ELSE {column}

Differing(x, y) == IF x = y THEN None ELSE x

-----------------------------------------------------------------------------
(* Slots *)

\* "monitora" holds "monitor" and "garconete" holds "garcon".
RequiredGender(l) ==
    CASE Terms[l] \cap FemaleTerms # {} -> "FEMALE"
      [] Terms[l] \cap MaleTerms # {}   -> "MALE"
      [] OTHER                          -> None

\* Mutant: only slots of the same line count.
AllocatedOnLine(s, e) ==
    \E t \in Slots \ {s} :
        t.line = s.line /\ slot[t] = [employee |-> e, active |-> TRUE]

\* The employee has another active slot on that day.
AllocatedOnDay(s, e) ==
    \E t \in Slots \ {s} :
        /\ LineDay[t.line] = LineDay[s.line]
        /\ slot[t] = [employee |-> e, active |-> TRUE]

\* Mutant: a slot is switched on unless the request says no.
ActiveByDefault(row, e, a) == [employee |-> e, active |-> Given(a, TRUE)]

Allocation(row, e, a) == [employee |-> e, active |-> Given(a, row.active)]

\* The request names an employee and may switch the slot on or off.
UpdateEventAssignment(p, s, e, a) ==
    /\ RequiredGender(s.line) \in {None, Gender[e]}
    /\ ~ AllocatedOnDay(s, e)
    /\ Begin(p, [Idle EXCEPT !.pc = "slot", !.s = s,
                             !.asked = Named(a, "active"),
                             !.save = Allocation(slot[s], e, a)])
    /\ UNCHANGED <<event, slot>>

ReloadSlot(p) ==
    LET w == worker[p]
        row == slot[w.s]
    IN  /\ At(p, "slot")
        /\ worker' = [worker EXCEPT
               ![p].pc = "put slot",
               ![p].save = [employee |-> Differing(w.save.employee, row.employee),
                            active |-> Differing(w.save.active, row.active)]]
        /\ UNCHANGED <<event, slot>>

WriteSlot(p) ==
    LET w == worker[p]
    IN  /\ At(p, "put slot")
        /\ slot' = [slot EXCEPT ![w.s] =
               [employee |-> Given(w.save.employee, @.employee),
                active |-> Given(w.save.active, @.active)]]
        /\ Wrote(p, w.s)
        /\ UNCHANGED event

-----------------------------------------------------------------------------
(* The event itself *)

\* Mutant: overtime that is left out is none.
OvertimeByDefault(status, overtime) ==
    [status |-> Given(status, event.status), overtime |-> Given(overtime, 0)]

EventAfter(status, overtime) ==
    [status |-> Given(status, event.status),
     overtime |-> Given(overtime, event.overtime)]

\* Any status may follow any other.
UpdateEvent(p, status, overtime) ==
    /\ status # None \/ overtime # None
    /\ overtime # None => InSteps(overtime)
    /\ Begin(p, [Idle EXCEPT !.pc = "event",
                             !.asked = Named(status, "status") \cup
                                       Named(overtime, "overtime"),
                             !.save = EventAfter(status, overtime)])
    /\ UNCHANGED <<event, slot>>

ReloadEvent(p) ==
    LET w == worker[p]
    IN  /\ At(p, "event")
        /\ worker' = [worker EXCEPT
               ![p].pc = "put event",
               ![p].save = [status |-> Differing(w.save.status, event.status),
                            overtime |-> Differing(w.save.overtime, event.overtime)]]
        /\ UNCHANGED <<event, slot>>

WriteEvent(p) ==
    LET w == worker[p]
    IN  /\ At(p, "put event")
        /\ event' = [status |-> Given(w.save.status, event.status),
                     overtime |-> Given(w.save.overtime, event.overtime)]
        /\ Wrote(p, None)
        /\ UNCHANGED slot

-----------------------------------------------------------------------------

\* A request fails.
Fail(p) ==
    /\ ~ At(p, "idle")
    /\ worker' = [worker EXCEPT ![p] = Idle]
    /\ UNCHANGED <<event, slot>>

Next ==
    \E p \in Workers :
        \/ \E s \in Slots, e \in Employees, a \in BOOLEAN \cup {None} :
             UpdateEventAssignment(p, s, e, a)
        \/ ReloadSlot(p) \/ WriteSlot(p)
        \/ \E status \in Statuses \cup {None}, overtime \in Overtimes \cup {None} :
             UpdateEvent(p, status, overtime)
        \/ ReloadEvent(p) \/ WriteEvent(p)
        \/ Fail(p)

Spec == Init /\ [][Next]_vars

-----------------------------------------------------------------------------
(* Properties *)

TypeOK ==
    /\ event \in EventRows
    /\ slot \in [Slots -> SlotRows]
    /\ worker \in [Workers -> WorkerStates]

Held(e, d) == {s \in Slots : /\ LineDay[s.line] = d
                             /\ slot[s] = [employee |-> e, active |-> TRUE]}

\* "The same employee may work several days of one event, but can hold only
\* one active allocation per event day": as the check and the save are apart,
\* as many as there are requests at a time, however long it goes on; one, if
\* requests come one by one.
FewAllocations ==
    \A e \in Employees, s \in Slots :
        Cardinality(Held(e, LineDay[s.line])) <= Cardinality(Workers)

\* A request may change a column of slot s, or of the event: it names it, or
\* has read too early.
MayChange(s, column) ==
    \E p \in Workers :
        /\ ~ At(p, "idle") /\ worker[p].s = s
        /\ column \in worker[p].asked \/ ~ worker[p].fresh

\* A column changes only by a request that gives it a value, although every
\* request saves the whole entity: but for a stale save, nobody takes back
\* what another has set meanwhile.
OnlyAskedChanges ==
    [][/\ \A s \in Slots :
            slot'[s].active # slot[s].active => MayChange(s, "active")
       /\ event'.status # event.status => MayChange(None, "status")
       /\ event'.overtime # event.overtime => MayChange(None, "overtime")]_vars

=============================================================================
