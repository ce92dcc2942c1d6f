--------------------------- MODULE StaffingProofs ----------------------------
(***************************************************************************)
(* The properties of EventStaffing, for any number of lines, employees and *)
(* requests.                                                               *)
(***************************************************************************)
EXTENDS EventStaffing, FiniteSetTheorems, TLAPS

Slotting == {"slot", "put slot"}

\* What a request carries in each of its steps.  In the second half of a save
\* it writes what it was asked for, or has read too early.
WorkerForm(p) ==
    LET w == worker[p]
    IN  /\ w.pc \in Slotting => w.s \in Slots /\ w.save \in SlotPuts
        /\ w.pc = "slot" => w.save.active \in BOOLEAN
        /\ w.pc \in {"event", "put event"} => w.s = None /\ w.save \in EventPuts
        /\ w.pc = "event" => w.save \in EventRows
        /\ w.pc = "slot" /\ w.fresh = TRUE /\ "active" \notin w.asked =>
               w.save.active = slot[w.s].active
        /\ w.pc = "put slot" /\ w.fresh = TRUE /\ "active" \notin w.asked =>
               w.save.active = None
        /\ w.pc = "event" /\ w.fresh = TRUE =>
               /\ "status" \notin w.asked => w.save.status = event.status
               /\ "overtime" \notin w.asked => w.save.overtime = event.overtime
        /\ w.pc = "put event" /\ w.fresh = TRUE =>
               /\ "status" \notin w.asked => w.save.status = None
               /\ "overtime" \notin w.asked => w.save.overtime = None

StaffInv == TypeOK /\ \A p \in Workers : WorkerForm(p)

-----------------------------------------------------------------------------
(* Records *)

LEMMA SlotForms ==
    ASSUME NEW e \in Employees \cup {None}, NEW a \in BOOLEAN \cup {None}
    PROVE  /\ [employee |-> e, active |-> a] \in SlotPuts
           /\ a # None => [employee |-> e, active |-> a] \in SlotRows
  BY NoneAssumption DEF SlotPuts, SlotRows

LEMMA EventForms ==
    ASSUME NEW s \in EventStatus \cup {None}, NEW m \in Minutes \cup {None}
    PROVE  /\ [status |-> s, overtime |-> m] \in EventPuts
           /\ s # None /\ m # None => [status |-> s, overtime |-> m] \in EventRows
  BY DEF EventPuts, EventRows

LEMMA SlotParts ==
    ASSUME NEW x
    PROVE  /\ x \in SlotPuts => /\ x.employee \in Employees \cup {None}
                                /\ x.active \in BOOLEAN \cup {None}
           /\ x \in SlotRows => /\ x.employee \in Employees \cup {None}
                                /\ x.active \in BOOLEAN
                                /\ x = [employee |-> x.employee, active |-> x.active]
  BY DEF SlotPuts, SlotRows

LEMMA EventParts ==
    ASSUME NEW x
    PROVE  /\ x \in EventPuts => /\ x.status \in EventStatus \cup {None}
                                 /\ x.overtime \in Minutes \cup {None}
           /\ x \in EventRows => /\ x.status \in EventStatus
                                 /\ x.overtime \in Minutes
                                 /\ x.status # None /\ x.overtime # None
                                 /\ x \in EventPuts
  BY NoneAssumption DEF EventPuts, EventRows, Minutes

LEMMA IdleType == Idle \in WorkerStates
  <1>1. NoEvent \in EventPuts
    BY DEF NoEvent, EventPuts
  <1> QED
    BY <1>1, ZenonT(60) DEF Idle, WorkerStates

LEMMA StaffInit == Init => StaffInv
  <1> SUFFICES ASSUME Init
               PROVE  StaffInv
    OBVIOUS
  <1>1. event \in EventRows
    <2>1. 0 \in Minutes /\ "scheduled" \in EventStatus
      BY DEF Minutes, EventStatus
    <2> QED
      BY <2>1 DEF Init, EventRows
  <1>2. [employee |-> None, active |-> TRUE] \in SlotRows
    BY DEF SlotRows
  <1>3. slot \in [Slots -> SlotRows]
    BY <1>2 DEF Init
  <1>4. TypeOK
    BY <1>1, <1>3, IdleType DEF Init, TypeOK
  <1>5. \A p \in Workers : WorkerForm(p)
    BY DEF Init, Idle, WorkerForm, Slotting
  <1> QED
    BY <1>4, <1>5 DEF StaffInv

-----------------------------------------------------------------------------
(* One lemma per operation *)

LEMMA UpdateEventAssignmentStep ==
    ASSUME StaffInv, NEW p \in Workers, NEW s \in Slots, NEW e \in Employees,
           NEW a \in BOOLEAN \cup {None}, UpdateEventAssignment(p, s, e, a)
    PROVE  StaffInv'
  <1> DEFINE save == Allocation(slot[s], e, a)
             w == [Idle EXCEPT !.pc = "slot", !.s = s, !.asked = Named(a, "active"),
                               !.save = save]
  <1>1. slot[s].active \in BOOLEAN
    BY SlotParts DEF StaffInv, TypeOK
  <1>2. /\ save.active = IF a = None THEN slot[s].active ELSE a
        /\ save.active \in BOOLEAN
        /\ save = [employee |-> e, active |-> save.active]
    BY <1>1 DEF Allocation, Given
  <1>3. save \in SlotPuts
    BY <1>2, SlotForms
  <1>4. Named(a, "active") \in SUBSET {"active", "status", "overtime"}
        /\ ("active" \notin Named(a, "active") => a = None)
    BY DEF Named
  <1> HIDE DEF save
  <1>5. w \in WorkerStates
    BY <1>3, <1>4, IdleType, ZenonT(60) DEF WorkerStates, Idle
  <1>6. /\ w.pc = "slot" /\ w.s = s /\ w.asked = Named(a, "active") /\ w.save = save
    BY DEF Idle
  <1>7. worker' = [worker EXCEPT ![p] = w] /\ event' = event /\ slot' = slot
    BY DEF UpdateEventAssignment, Begin, save
  <1> HIDE DEF w
  <1>8. TypeOK'
    BY <1>5, <1>7 DEF StaffInv, TypeOK
  <1>9. ASSUME NEW q \in Workers
        PROVE  WorkerForm(q)'
    <2>1. CASE q = p
      BY <2>1, <1>2, <1>3, <1>4, <1>6, <1>7 DEF StaffInv, TypeOK, WorkerForm, Slotting
    <2>2. CASE q # p
      BY <2>2, <1>7 DEF StaffInv, TypeOK, WorkerForm
    <2> QED
      BY <2>1, <2>2
  <1> QED
    BY <1>8, <1>9 DEF StaffInv

LEMMA ReloadSlotStep ==
    ASSUME StaffInv, NEW p \in Workers, ReloadSlot(p)
    PROVE  StaffInv'
  <1> DEFINE s == worker[p].s
             save == [employee |-> Differing(worker[p].save.employee, slot[s].employee),
                      active |-> Differing(worker[p].save.active, slot[s].active)]
             w == [worker[p] EXCEPT !.pc = "put slot", !.save = save]
  <1>0. /\ worker[p] \in WorkerStates /\ worker[p].pc = "slot"
        /\ s \in Slots /\ worker[p].save \in SlotPuts /\ slot[s] \in SlotRows
        /\ WorkerForm(p)
    BY DEF StaffInv, TypeOK, WorkerForm, ReloadSlot, At, Slotting
  <1>1. /\ save.employee \in Employees \cup {None}
        /\ save.active \in BOOLEAN \cup {None}
        /\ save = [employee |-> save.employee, active |-> save.active]
    BY <1>0, SlotParts DEF Differing
  <1>2. save \in SlotPuts
    BY <1>1, SlotForms
  <1>3. worker[p].save.active = slot[s].active => save.active = None
    BY DEF Differing
  <1> HIDE DEF save
  <1>4. w \in WorkerStates
    BY <1>0, <1>2, ZenonT(60) DEF WorkerStates
  <1>5. /\ w.pc = "put slot" /\ w.s = s /\ w.asked = worker[p].asked /\ w.save = save
        /\ w.fresh = worker[p].fresh
    BY <1>0 DEF WorkerStates
  <1>6. worker' = [worker EXCEPT ![p] = w] /\ event' = event /\ slot' = slot
    BY DEF ReloadSlot, save
  <1> HIDE DEF w
  <1>7. TypeOK'
    BY <1>4, <1>6 DEF StaffInv, TypeOK
  <1>8. ASSUME NEW q \in Workers
        PROVE  WorkerForm(q)'
    <2>1. CASE q = p
      <3>1. worker'[p] = w
        BY <1>6 DEF StaffInv, TypeOK
      <3>2. w.fresh = TRUE /\ "active" \notin w.asked => save.active = None
        BY <1>0, <1>3, <1>5 DEF WorkerForm
      <3> QED
        BY <2>1, <3>1, <3>2, <1>0, <1>2, <1>5 DEF WorkerForm, Slotting
    <2>2. CASE q # p
      BY <2>2, <1>6 DEF StaffInv, TypeOK, WorkerForm
    <2> QED
      BY <2>1, <2>2
  <1> QED
    BY <1>7, <1>8 DEF StaffInv

\* A write ends its request and leaves the others what they carry.
LEMMA WroteEach ==
    ASSUME StaffInv, NEW p \in Workers, NEW s, Wrote(p, s), NEW r \in Workers
    PROVE  worker'[r] = IF r = p THEN Idle
                        ELSE IF worker[r].pc # "idle" /\ worker[r].s = s
                          THEN [worker[r] EXCEPT !.fresh = FALSE]
                        ELSE worker[r]
  BY DEF Wrote, At

LEMMA LateForm ==
    ASSUME StaffInv, NEW r \in Workers
    PROVE  /\ [worker[r] EXCEPT !.fresh = FALSE] \in WorkerStates
           /\ [worker[r] EXCEPT !.fresh = FALSE].fresh = FALSE
           /\ [worker[r] EXCEPT !.fresh = FALSE].pc = worker[r].pc
           /\ [worker[r] EXCEPT !.fresh = FALSE].s = worker[r].s
           /\ [worker[r] EXCEPT !.fresh = FALSE].asked = worker[r].asked
           /\ [worker[r] EXCEPT !.fresh = FALSE].save = worker[r].save
  <1>1. worker[r] \in WorkerStates
    BY DEF StaffInv, TypeOK
  <1>2. [worker[r] EXCEPT !.fresh = FALSE] \in WorkerStates
    BY <1>1, ZenonT(60) DEF WorkerStates
  <1> QED
    BY <1>1, <1>2 DEF WorkerStates

LEMMA WroteType ==
    ASSUME StaffInv, NEW p \in Workers, NEW s, Wrote(p, s)
    PROVE  worker' \in [Workers -> WorkerStates] /\ worker'[p] = Idle
  <1>1. ASSUME NEW r \in Workers
        PROVE  worker'[r] \in WorkerStates
    <2>1. worker[r] \in WorkerStates /\ Idle \in WorkerStates
      BY IdleType DEF StaffInv, TypeOK
    <2>2. [worker[r] EXCEPT !.fresh = FALSE] \in WorkerStates
      BY LateForm, Zenon
    <2>3. worker'[r] \in {Idle, worker[r], [worker[r] EXCEPT !.fresh = FALSE]}
      BY WroteEach, Zenon
    <2> QED
      BY <2>1, <2>2, <2>3
  <1> QED
    BY <1>1, WroteEach DEF Wrote

LEMMA WroteKeeps ==
    ASSUME StaffInv, NEW p \in Workers, NEW s, Wrote(p, s), NEW q \in Workers, q # p
    PROVE  /\ worker'[q].pc = worker[q].pc /\ worker'[q].s = worker[q].s
           /\ worker'[q].asked = worker[q].asked
           /\ worker'[q].save = worker[q].save
  <1>1. worker'[q] \in {worker[q], [worker[q] EXCEPT !.fresh = FALSE]}
    BY WroteEach, Zenon
  <1>2. CASE worker'[q] = worker[q]
    BY <1>2
  <1>3. CASE worker'[q] = [worker[q] EXCEPT !.fresh = FALSE]
    BY <1>3, LateForm, Zenon
  <1> QED
    BY <1>1, <1>2, <1>3

LEMMA WroteFresh ==
    ASSUME StaffInv, NEW p \in Workers, NEW s, Wrote(p, s), NEW q \in Workers, q # p,
           worker'[q].fresh = TRUE
    PROVE  worker'[q] = worker[q] /\ (worker[q].pc = "idle" \/ worker[q].s # s)
  <1>1. CASE worker[q].pc # "idle" /\ worker[q].s = s
    <2>1. worker'[q] = [worker[q] EXCEPT !.fresh = FALSE]
      BY <1>1, WroteEach
    <2> QED
      BY <2>1, LateForm
  <1>2. CASE ~ (worker[q].pc # "idle" /\ worker[q].s = s)
    <2>1. worker'[q] = worker[q]
      BY <1>2 DEF Wrote, At
    <2> QED
      BY <1>2, <2>1
  <1> QED
    BY <1>1, <1>2

LEMMA WriteSlotStep ==
    ASSUME StaffInv, NEW p \in Workers, WriteSlot(p)
    PROVE  StaffInv'
  <1> DEFINE s == worker[p].s
             row == [employee |-> Given(worker[p].save.employee, slot[s].employee),
                     active |-> Given(worker[p].save.active, slot[s].active)]
  <1>1. /\ s \in Slots /\ worker[p].save \in SlotPuts /\ slot[s] \in SlotRows
    BY DEF StaffInv, TypeOK, WorkerForm, WriteSlot, At, Slotting
  <1>2. /\ row.employee \in Employees \cup {None} /\ row.active \in BOOLEAN
        /\ row = [employee |-> row.employee, active |-> row.active]
    BY <1>1, SlotParts DEF Given
  <1>3. row \in SlotRows
    BY <1>2, SlotForms, NoneAssumption
  <1>4. slot' = [slot EXCEPT ![s] = row] /\ event' = event /\ Wrote(p, s)
    BY DEF WriteSlot
  <1> HIDE DEF row
  <1>5. TypeOK'
    BY <1>1, <1>3, <1>4, WroteType DEF StaffInv, TypeOK
  <1>6. ASSUME NEW q \in Workers
        PROVE  WorkerForm(q)'
    <2>1. CASE q = p
      <3>1. worker'[q] = Idle
        BY <2>1, <1>4, WroteType
      <3> QED
        BY <3>1 DEF WorkerForm, Slotting, Idle
    <2>2. CASE q # p
      <3>1. worker[q].pc \in Slotting /\ worker[q].s # s => slot'[worker[q].s] = slot[worker[q].s]
        BY <1>4 DEF StaffInv, TypeOK, WorkerForm
      <3>2. /\ worker'[q].pc = worker[q].pc /\ worker'[q].s = worker[q].s
            /\ worker'[q].asked = worker[q].asked
            /\ worker'[q].save = worker[q].save
        BY <2>2, <1>4, WroteKeeps
      <3>3. worker'[q].fresh = TRUE =>
               worker'[q] = worker[q] /\ (worker[q].pc = "idle" \/ worker[q].s # s)
        BY <2>2, <1>4, WroteFresh, Zenon
      <3>4. WorkerForm(q) /\ event' = event
        BY <1>4 DEF StaffInv
      <3> QED
        BY <3>1, <3>2, <3>3, <3>4 DEF WorkerForm, Slotting
    <2> QED
      BY <2>1, <2>2
  <1> QED
    BY <1>5, <1>6 DEF StaffInv

LEMMA UpdateEventStep ==
    ASSUME StaffInv, NEW p \in Workers, NEW status \in Statuses \cup {None},
           NEW overtime \in Overtimes \cup {None}, UpdateEvent(p, status, overtime)
    PROVE  StaffInv'
  <1> DEFINE save == EventAfter(status, overtime)
             asked == Named(status, "status") \cup Named(overtime, "overtime")
             w == [Idle EXCEPT !.pc = "event", !.asked = asked, !.save = save]
  <1>1. /\ event.status \in EventStatus /\ event.overtime \in Minutes
        /\ event.status # None /\ event.overtime # None
    BY EventParts DEF StaffInv, TypeOK
  <1>2. /\ save.status = IF status = None THEN event.status ELSE status
        /\ save.overtime = IF overtime = None THEN event.overtime ELSE overtime
        /\ save = [status |-> save.status, overtime |-> save.overtime]
    BY DEF EventAfter, Given
  <1>3. save.status \in EventStatus /\ save.status # None
    BY <1>1, <1>2, ConstantsAssumption
  <1>4. save.overtime \in Minutes /\ save.overtime # None
    <2>1. overtime # None => overtime \in Minutes
      BY ConstantsAssumption DEF UpdateEvent, InSteps, Minutes
    <2> QED
      BY <2>1, <1>1, <1>2
  <1>5. save \in EventRows /\ save \in EventPuts
    BY <1>2, <1>3, <1>4, EventForms
  <1>6. /\ asked \in SUBSET {"active", "status", "overtime"}
        /\ "status" \notin asked => status = None
        /\ "overtime" \notin asked => overtime = None
    BY DEF Named
  <1> HIDE DEF save, asked
  <1>7. w \in WorkerStates
    BY <1>5, <1>6, IdleType, ZenonT(60) DEF WorkerStates, Idle
  <1>8. w.pc = "event" /\ w.s = None /\ w.asked = asked /\ w.save = save
    BY DEF Idle
  <1>9. worker' = [worker EXCEPT ![p] = w] /\ event' = event /\ slot' = slot
    BY DEF UpdateEvent, Begin, save, asked
  <1> HIDE DEF w
  <1>10. TypeOK'
    BY <1>7, <1>9 DEF StaffInv, TypeOK
  <1>11. ASSUME NEW q \in Workers
         PROVE  WorkerForm(q)'
    <2>1. CASE q = p
      BY <2>1, <1>2, <1>5, <1>6, <1>8, <1>9 DEF StaffInv, TypeOK, WorkerForm, Slotting
    <2>2. CASE q # p
      BY <2>2, <1>9 DEF StaffInv, TypeOK, WorkerForm
    <2> QED
      BY <2>1, <2>2
  <1> QED
    BY <1>10, <1>11 DEF StaffInv

LEMMA ReloadEventStep ==
    ASSUME StaffInv, NEW p \in Workers, ReloadEvent(p)
    PROVE  StaffInv'
  <1> DEFINE save == [status |-> Differing(worker[p].save.status, event.status),
                      overtime |-> Differing(worker[p].save.overtime, event.overtime)]
             w == [worker[p] EXCEPT !.pc = "put event", !.save = save]
  <1>0. /\ worker[p] \in WorkerStates /\ worker[p].pc = "event"
        /\ worker[p].s = None /\ worker[p].save \in EventRows /\ WorkerForm(p)
    BY DEF StaffInv, TypeOK, WorkerForm, ReloadEvent, At
  <1>1. /\ save.status \in EventStatus \cup {None}
        /\ save.overtime \in Minutes \cup {None}
        /\ save = [status |-> save.status, overtime |-> save.overtime]
    BY <1>0, EventParts DEF Differing
  <1>2. save \in EventPuts
    BY <1>1, EventForms
  <1>3. /\ worker[p].save.status = event.status => save.status = None
        /\ worker[p].save.overtime = event.overtime => save.overtime = None
    BY DEF Differing
  <1> HIDE DEF save
  <1>4. w \in WorkerStates
    BY <1>0, <1>2, ZenonT(60) DEF WorkerStates
  <1>5. /\ w.pc = "put event" /\ w.s = None /\ w.asked = worker[p].asked /\ w.save = save
        /\ w.fresh = worker[p].fresh
    BY <1>0 DEF WorkerStates
  <1>6. worker' = [worker EXCEPT ![p] = w] /\ event' = event /\ slot' = slot
    BY DEF ReloadEvent, save
  <1> HIDE DEF w
  <1>7. TypeOK'
    BY <1>4, <1>6 DEF StaffInv, TypeOK
  <1>8. ASSUME NEW q \in Workers
        PROVE  WorkerForm(q)'
    <2>1. CASE q = p
      <3>1. worker'[p] = w
        BY <1>6 DEF StaffInv, TypeOK
      <3>2. w.fresh = TRUE => /\ "status" \notin w.asked => save.status = None
                              /\ "overtime" \notin w.asked => save.overtime = None
        BY <1>0, <1>3, <1>5 DEF WorkerForm
      <3> QED
        BY <2>1, <3>1, <3>2, <1>0, <1>2, <1>5 DEF WorkerForm, Slotting
    <2>2. CASE q # p
      BY <2>2, <1>6 DEF StaffInv, TypeOK, WorkerForm
    <2> QED
      BY <2>1, <2>2
  <1> QED
    BY <1>7, <1>8 DEF StaffInv

LEMMA WriteEventStep ==
    ASSUME StaffInv, NEW p \in Workers, WriteEvent(p)
    PROVE  StaffInv'
  <1>1. worker[p].save \in EventPuts /\ event \in EventRows
    BY DEF StaffInv, TypeOK, WorkerForm, WriteEvent, At
  <1>2. /\ Given(worker[p].save.status, event.status) \in EventStatus
        /\ Given(worker[p].save.overtime, event.overtime) \in Minutes
    BY <1>1, EventParts DEF Given
  <1>3. event' \in EventRows
    BY <1>2 DEF WriteEvent, EventRows
  <1>4. slot' = slot /\ Wrote(p, None)
    BY DEF WriteEvent
  <1>5. TypeOK'
    BY <1>3, <1>4, WroteType DEF StaffInv, TypeOK
  <1>6. ASSUME NEW q \in Workers
        PROVE  WorkerForm(q)'
    <2>1. CASE q = p
      <3>1. worker'[q] = Idle
        BY <2>1, <1>4, WroteType
      <3> QED
        BY <3>1 DEF WorkerForm, Slotting, Idle
    <2>2. CASE q # p
      <3>1. /\ worker'[q].pc = worker[q].pc /\ worker'[q].s = worker[q].s
            /\ worker'[q].asked = worker[q].asked
            /\ worker'[q].save = worker[q].save
        BY <2>2, <1>4, WroteKeeps
      <3>2. worker'[q].fresh = TRUE =>
               worker'[q] = worker[q] /\ (worker[q].pc = "idle" \/ worker[q].s # None)
        BY <2>2, <1>4, WroteFresh, Zenon
      <3>3. WorkerForm(q)
        BY DEF StaffInv
      <3> QED
        BY <3>1, <3>2, <3>3, <1>4 DEF WorkerForm, Slotting
    <2> QED
      BY <2>1, <2>2
  <1> QED
    BY <1>5, <1>6 DEF StaffInv

LEMMA FailStep ==
    ASSUME StaffInv, NEW p \in Workers, Fail(p)
    PROVE  StaffInv'
  <1>1. worker' = [worker EXCEPT ![p] = Idle] /\ event' = event /\ slot' = slot
    BY DEF Fail
  <1>2. TypeOK'
    BY <1>1, IdleType DEF StaffInv, TypeOK
  <1>3. \A q \in Workers : WorkerForm(q)'
    BY <1>1 DEF StaffInv, TypeOK, WorkerForm, Slotting, Idle
  <1> QED
    BY <1>2, <1>3 DEF StaffInv

LEMMA StaffStep == StaffInv /\ [Next]_vars => StaffInv'
  <1> SUFFICES ASSUME StaffInv, [Next]_vars
               PROVE  StaffInv'
    OBVIOUS
  <1>1. CASE UNCHANGED vars
    BY <1>1 DEF vars, StaffInv, TypeOK, WorkerForm
  <1>2. CASE Next
    BY <1>2, UpdateEventAssignmentStep, ReloadSlotStep, WriteSlotStep, UpdateEventStep,
       ReloadEventStep, WriteEventStep, FailStep DEF Next
  <1> QED
    BY <1>1, <1>2

\* Event, slots and requests always have their types: for any lines,
\* employees and number of requests.
THEOREM TypeCorrect == Spec => []TypeOK
  <1>1. StaffInv => TypeOK
    BY DEF StaffInv
  <1> QED
    BY <1>1, StaffInit, StaffStep, PTL DEF Spec

-----------------------------------------------------------------------------
(* Columns *)

\* No request changes a column that it was not asked to change, unless it had
\* read the row before somebody else wrote it.
THEOREM AskedColumns == Spec => OnlyAskedChanges
  <1> DEFINE Asked ==
          /\ \A s \in Slots :
               slot'[s].active # slot[s].active => MayChange(s, "active")
          /\ event'.status # event.status => MayChange(None, "status")
          /\ event'.overtime # event.overtime => MayChange(None, "overtime")
  <1>1. StaffInv /\ [Next]_vars => [Asked]_vars
    <2> SUFFICES ASSUME StaffInv, Next
                 PROVE  Asked
      OBVIOUS
    <2>1. ASSUME NEW p \in Workers, WriteSlot(p)
          PROVE  Asked
      <3>1. event' = event
        BY <2>1 DEF WriteSlot
      <3>2. ASSUME NEW s \in Slots, slot'[s].active # slot[s].active
            PROVE  MayChange(s, "active")
        <4>1. /\ s = worker[p].s /\ worker[p].pc = "put slot"
              /\ slot'[s].active = Given(worker[p].save.active, slot[s].active)
          BY <2>1, <3>2 DEF WriteSlot, At, StaffInv, TypeOK
        <4>2. worker[p].save.active # None
          BY <3>2, <4>1 DEF Given
        <4>3. "active" \in worker[p].asked \/ worker[p].fresh # TRUE
          BY <4>1, <4>2 DEF StaffInv, WorkerForm
        <4> QED
          BY <4>1, <4>3 DEF MayChange, At
      <3> QED
        BY <3>1, <3>2
    <2>2. ASSUME NEW p \in Workers, WriteEvent(p)
          PROVE  Asked
      <3>1. /\ slot' = slot /\ worker[p].pc = "put event"
            /\ event'.status = Given(worker[p].save.status, event.status)
            /\ event'.overtime = Given(worker[p].save.overtime, event.overtime)
        BY <2>2 DEF WriteEvent, At
      <3>2. worker[p].s = None
        BY <3>1 DEF StaffInv, WorkerForm
      <3>3. event'.status # event.status => MayChange(None, "status")
        <4> SUFFICES ASSUME event'.status # event.status
                     PROVE  MayChange(None, "status")
          OBVIOUS
        <4>1. "status" \in worker[p].asked \/ worker[p].fresh # TRUE
          BY <3>1 DEF Given, StaffInv, WorkerForm
        <4> QED
          BY <3>1, <3>2, <4>1 DEF MayChange, At
      <3>4. event'.overtime # event.overtime => MayChange(None, "overtime")
        <4> SUFFICES ASSUME event'.overtime # event.overtime
                     PROVE  MayChange(None, "overtime")
          OBVIOUS
        <4>1. "overtime" \in worker[p].asked \/ worker[p].fresh # TRUE
          BY <3>1 DEF Given, StaffInv, WorkerForm
        <4> QED
          BY <3>1, <3>2, <4>1 DEF MayChange, At
      <3> QED
        BY <3>1, <3>3, <3>4
    <2>3. CASE UNCHANGED <<event, slot>>
      BY <2>3
    <2> QED
      BY <2>1, <2>2, <2>3 DEF Next, UpdateEventAssignment, ReloadSlot, UpdateEvent,
         ReloadEvent, Fail
  <1> QED
    BY <1>1, StaffInit, StaffStep, PTL DEF Spec, OnlyAskedChanges

-----------------------------------------------------------------------------
(* Allocations *)

\* Request p will give, or leave, slot s to employee e.
Giving(p, s, e) ==
    /\ worker[p].pc \in Slotting
    /\ worker[p].s = s
    /\ Given(worker[p].save.employee, slot[s].employee) = e

\* The slots of a day that an employee has, or may have when the requests
\* under way are done.
Booked(e, d) ==
    {s \in Slots : /\ LineDay[s.line] = d
                   /\ \/ slot[s] = [employee |-> e, active |-> TRUE]
                      \/ \E p \in Workers : Giving(p, s, e)}

LEMMA BookedIn ==
    ASSUME NEW e, NEW d, NEW s
    PROVE  /\ s \in Booked(e, d) <=>
                /\ s \in Slots /\ LineDay[s.line] = d
                /\ \/ slot[s] = [employee |-> e, active |-> TRUE]
                   \/ \E p \in Workers : Giving(p, s, e)
           /\ (s \in Booked(e, d))' <=>
                /\ s \in Slots /\ LineDay[s.line] = d
                /\ \/ slot'[s] = [employee |-> e, active |-> TRUE]
                   \/ \E p \in Workers : Giving(p, s, e)'
  BY DEF Booked

\* As many slots as there are requests, at most.
LEMMA ImageFew ==
    ASSUME NEW T, NEW f, T \subseteq {f[p] : p \in Workers}
    PROVE  IsFiniteSet(T) /\ Cardinality(T) <= Cardinality(Workers)
  <1> DEFINE image == {f[p] : p \in Workers}
             g == [p \in Workers |-> f[p]]
  <1>1. g \in Surjection(Workers, image)
    BY DEF Surjection
  <1>2. IsFiniteSet(image) /\ Cardinality(image) <= Cardinality(Workers)
    BY <1>1, FS_Surjection, ConstantsAssumption
  <1>3. IsFiniteSet(T) /\ Cardinality(T) <= Cardinality(image)
    BY <1>2, FS_Subset
  <1> QED
    BY <1>2, <1>3, FS_CardinalityType, ConstantsAssumption

\* A write leaves no new request to book a slot.
LEMMA WroteGiving ==
    ASSUME StaffInv, NEW p \in Workers, NEW s, Wrote(p, s), NEW q \in Workers,
           NEW t, NEW e, Giving(q, t, e)'
    PROVE  /\ worker[q].pc \in Slotting /\ worker[q].s = t
           /\ Given(worker[q].save.employee, slot'[t].employee) = e
  <1>1. q # p
    <2>1. worker'[p].pc = "idle"
      BY WroteType DEF Idle
    <2>2. worker'[q].pc \in Slotting
      BY DEF Giving
    <2> QED
      BY <2>1, <2>2 DEF Slotting
  <1>2. /\ worker'[q].pc = worker[q].pc /\ worker'[q].s = worker[q].s
        /\ worker'[q].save = worker[q].save
    BY <1>1, WroteKeeps
  <1> QED
    BY <1>2 DEF Giving

\* A step books no further slot, or leaves one for each request at most.
LEMMA BookedStep ==
    ASSUME StaffInv, [Next]_vars, NEW e \in Employees, NEW d
    PROVE  \/ Booked(e, d)' \subseteq Booked(e, d)
           \/ Booked(e, d)' \subseteq {worker'[p].s : p \in Workers}
  <1> SUFFICES ASSUME NEW t, (t \in Booked(e, d))', t \notin Booked(e, d)
               PROVE  Booked(e, d)' \subseteq {worker'[p].s : p \in Workers}
    OBVIOUS
  <1>0. /\ t \in Slots /\ LineDay[t.line] = d
        /\ slot[t] # [employee |-> e, active |-> TRUE]
        /\ \A p \in Workers : ~ Giving(p, t, e)
    BY BookedIn
  <1>1. ASSUME NEW p \in Workers, NEW s \in Slots, NEW g \in Employees,
               NEW a \in BOOLEAN \cup {None}, UpdateEventAssignment(p, s, g, a)
        PROVE  Booked(e, d)' \subseteq {worker'[q].s : q \in Workers}
    <2> DEFINE w == [Idle EXCEPT !.pc = "slot", !.s = s, !.asked = Named(a, "active"),
                                 !.save = Allocation(slot[s], g, a)]
    <2>1. w.pc = "slot" /\ w.s = s /\ w.save.employee = g
      BY DEF Idle, Allocation
    <2> HIDE DEF w
    <2>2. worker' = [worker EXCEPT ![p] = w] /\ slot' = slot
      BY <1>1 DEF UpdateEventAssignment, Begin, w
    <2>3. worker'[p] = w /\ \A q \in Workers \ {p} : worker'[q] = worker[q]
      BY <2>2 DEF StaffInv, TypeOK
    <2>4. \A q \in Workers \ {p} : Giving(q, t, e)' => Giving(q, t, e)
      BY <2>2, <2>3 DEF Giving
    <2>5. Giving(p, t, e)'
      BY <1>0, <2>2, <2>4, BookedIn
    <2>6. s = t /\ g = e
      BY <2>1, <2>3, <2>5, NoneAssumption DEF Giving, Given
    <2>7. \A u \in Slots : LineDay[u.line] = d /\ slot[u] = [employee |-> e, active |-> TRUE]
                             => u = s
      BY <1>0, <1>1, <2>6 DEF UpdateEventAssignment, AllocatedOnDay
    <2> SUFFICES ASSUME NEW u, (u \in Booked(e, d))'
                 PROVE  \E q \in Workers : u = worker'[q].s
      OBVIOUS
    <2>8. u = s \/ \E q \in Workers : Giving(q, u, e)'
      BY <2>2, <2>7, BookedIn
    <2> QED
      BY <2>1, <2>3, <2>8 DEF Giving
  <1>2. ASSUME NEW p \in Workers, ReloadSlot(p)
        PROVE  FALSE
    <2> DEFINE save == [employee |-> Differing(worker[p].save.employee,
                                               slot[worker[p].s].employee),
                        active |-> Differing(worker[p].save.active,
                                             slot[worker[p].s].active)]
               w == [worker[p] EXCEPT !.pc = "put slot", !.save = save]
    <2>1. worker[p] \in WorkerStates /\ worker[p].pc = "slot"
      BY <1>2 DEF ReloadSlot, At, StaffInv, TypeOK
    <2>2. save.employee = Differing(worker[p].save.employee, slot[worker[p].s].employee)
      OBVIOUS
    <2> HIDE DEF save
    <2>3. w.s = worker[p].s /\ w.save = save
      BY <2>1 DEF WorkerStates
    <2>4. worker' = [worker EXCEPT ![p] = w] /\ slot' = slot
      BY <1>2 DEF ReloadSlot, save
    <2> HIDE DEF w
    <2>5. worker'[p] = w /\ \A q \in Workers \ {p} : worker'[q] = worker[q]
      BY <2>4 DEF StaffInv, TypeOK
    <2>6. Giving(p, t, e)' => Giving(p, t, e)
      <3>1. worker[p].save.employee # None
              => Given(save.employee, slot[worker[p].s].employee) = worker[p].save.employee
        BY <2>2 DEF Given, Differing
      <3>2. worker[p].save.employee = None => save.employee = None
        BY <2>2 DEF Differing
      <3> SUFFICES ASSUME Giving(p, t, e)'
                   PROVE  Giving(p, t, e)
        OBVIOUS
      <3>3. worker[p].s = t /\ Given(save.employee, slot[t].employee) = e
        BY <2>3, <2>4, <2>5 DEF Giving
      <3>4. Given(worker[p].save.employee, slot[t].employee) = e
        BY <3>1, <3>2, <3>3 DEF Given
      <3> QED
        BY <2>1, <3>3, <3>4 DEF Giving, Slotting
    <2>7. \A q \in Workers : Giving(q, t, e)' => Giving(q, t, e)
      BY <2>4, <2>5, <2>6 DEF Giving
    <2> QED
      BY <1>0, <2>4, <2>7, BookedIn
  <1>3. ASSUME NEW p \in Workers, WriteSlot(p)
        PROVE  FALSE
    <2> DEFINE s == worker[p].s
               row == [employee |-> Given(worker[p].save.employee, slot[s].employee),
                       active |-> Given(worker[p].save.active, slot[s].active)]
    <2>1. s \in Slots /\ worker[p].pc = "put slot"
      BY <1>3 DEF WriteSlot, At, StaffInv, WorkerForm, Slotting
    <2>2. slot' = [slot EXCEPT ![s] = row] /\ Wrote(p, s)
      BY <1>3 DEF WriteSlot
    <2>3. row.employee = Given(worker[p].save.employee, slot[s].employee)
      OBVIOUS
    <2> HIDE DEF row
    <2>4. ASSUME NEW q \in Workers, Giving(q, t, e)'
          PROVE  /\ worker[q].pc \in Slotting /\ worker[q].s = t
                 /\ Given(worker[q].save.employee, slot'[t].employee) = e
      BY <2>2, <2>4, WroteGiving
    <2>5. CASE t # s
      <3>1. slot'[t] = slot[t]
        BY <1>0, <2>2, <2>5 DEF StaffInv, TypeOK
      <3> QED
        BY <1>0, <2>4, <3>1, BookedIn DEF Giving
    <2>6. CASE t = s
      <3>1. slot'[t] = row
        BY <1>0, <2>2, <2>6 DEF StaffInv, TypeOK
      <3>2. row.employee # e
        BY <1>0, <2>1, <2>3, <2>6 DEF Giving, Slotting
      <3>3. PICK q \in Workers : Giving(q, t, e)'
        <4>1. slot'[t] # [employee |-> e, active |-> TRUE]
          BY <3>1, <3>2
        <4> QED
          BY <4>1, BookedIn
      <3>4. worker[q].save.employee = e
        BY <2>4, <3>1, <3>2, <3>3 DEF Given
      <3> QED
        BY <1>0, <2>4, <3>3, <3>4, NoneAssumption DEF Giving, Given
    <2> QED
      BY <2>5, <2>6
  <1>4. ASSUME NEW p \in Workers, NEW status \in Statuses \cup {None},
               NEW overtime \in Overtimes \cup {None}, UpdateEvent(p, status, overtime)
        PROVE  FALSE
    <2> DEFINE w == [Idle EXCEPT !.pc = "event",
                                 !.asked = Named(status, "status") \cup
                                           Named(overtime, "overtime"),
                                 !.save = EventAfter(status, overtime)]
    <2>1. w.pc = "event"
      BY DEF Idle
    <2>2. worker' = [worker EXCEPT ![p] = w] /\ slot' = slot
      BY <1>4 DEF UpdateEvent, Begin
    <2> HIDE DEF w
    <2>3. \A q \in Workers : Giving(q, t, e)' => Giving(q, t, e)
      BY <2>1, <2>2 DEF Giving, Slotting, StaffInv, TypeOK
    <2> QED
      BY <1>0, <2>2, <2>3, BookedIn
  <1>5. ASSUME NEW p \in Workers, ReloadEvent(p)
        PROVE  FALSE
    <2> DEFINE w == [worker[p] EXCEPT
                       !.pc = "put event",
                       !.save = [status |-> Differing(worker[p].save.status, event.status),
                                 overtime |-> Differing(worker[p].save.overtime,
                                                        event.overtime)]]
    <2>1. w.pc = "put event"
      BY DEF StaffInv, TypeOK, WorkerStates
    <2>2. worker' = [worker EXCEPT ![p] = w] /\ slot' = slot
      BY <1>5 DEF ReloadEvent
    <2> HIDE DEF w
    <2>3. \A q \in Workers : Giving(q, t, e)' => Giving(q, t, e)
      BY <2>1, <2>2 DEF Giving, Slotting, StaffInv, TypeOK
    <2> QED
      BY <1>0, <2>2, <2>3, BookedIn
  <1>6. ASSUME NEW p \in Workers, WriteEvent(p)
        PROVE  FALSE
    <2>1. slot' = slot /\ Wrote(p, None)
      BY <1>6 DEF WriteEvent
    <2>2. \A q \in Workers : Giving(q, t, e)' => Giving(q, t, e)
      BY <2>1, WroteGiving DEF Giving
    <2> QED
      BY <1>0, <2>1, <2>2, BookedIn
  <1>7. ASSUME NEW p \in Workers, Fail(p)
        PROVE  FALSE
    <2>1. slot' = slot /\ worker' = [worker EXCEPT ![p] = Idle] /\ Idle.pc = "idle"
      BY <1>7 DEF Fail, Idle
    <2>2. \A q \in Workers : Giving(q, t, e)' => Giving(q, t, e)
      BY <2>1 DEF Giving, Slotting, StaffInv, TypeOK
    <2> QED
      BY <1>0, <2>1, <2>2, BookedIn
  <1>8. CASE UNCHANGED vars
    BY <1>0, <1>8, BookedIn DEF vars, Giving
  <1> QED
    BY <1>1, <1>2, <1>3, <1>4, <1>5, <1>6, <1>7, <1>8 DEF Next

FewBooked(e, d) == IsFiniteSet(Booked(e, d)) /\ Cardinality(Booked(e, d)) <= Cardinality(Workers)

FewBookedInv ==
    StaffInv /\ \A e \in Employees, s \in Slots : FewBooked(e, LineDay[s.line])

\* However requests overlap and however long it goes on, no employee has more
\* slots on a day than there are requests at a time.
THEOREM AllocationsStayFew == Spec => []FewAllocations
  <1>1. Init => FewBookedInv
    <2> SUFFICES ASSUME Init, NEW e \in Employees, NEW s \in Slots
                 PROVE  FewBooked(e, LineDay[s.line])
      BY StaffInit DEF FewBookedInv
    <2>1. \A t \in Slots : slot[t].employee = None
      BY DEF Init
    <2>2. \A p \in Workers, t \in Slots : ~ Giving(p, t, e)
      BY DEF Init, Giving, Slotting, Idle
    <2>3. Booked(e, LineDay[s.line]) = {}
      <3>1. \A t \in Slots : slot[t] # [employee |-> e, active |-> TRUE]
        BY <2>1, NoneAssumption
      <3> QED
        BY <2>2, <3>1, BookedIn
    <2> QED
      BY <2>3, ImageFew DEF FewBooked
  <1>2. FewBookedInv /\ [Next]_vars => FewBookedInv'
    <2> SUFFICES ASSUME FewBookedInv, [Next]_vars, NEW e \in Employees, NEW s \in Slots
                 PROVE  FewBooked(e, LineDay[s.line])'
      BY StaffStep DEF FewBookedInv
    <2> DEFINE d == LineDay[s.line]
    <2>0. FewBooked(e, d) /\ StaffInv
      BY DEF FewBookedInv
    <2>1. CASE Booked(e, d)' \subseteq Booked(e, d)
      <3>1. IsFiniteSet(Booked(e, d)') /\ Cardinality(Booked(e, d)') <= Cardinality(Booked(e, d))
        BY <2>0, <2>1, FS_Subset DEF FewBooked
      <3> QED
        BY <2>0, <3>1, FS_CardinalityType, ConstantsAssumption DEF FewBooked
    <2>2. CASE Booked(e, d)' \subseteq {worker'[p].s : p \in Workers}
      <3> DEFINE f == [p \in Workers |-> worker'[p].s]
      <3>1. Booked(e, d)' \subseteq {f[p] : p \in Workers}
        BY <2>2
      <3> QED
        BY <3>1, ImageFew DEF FewBooked
    <2> QED
      BY <2>0, <2>1, <2>2, BookedStep
  <1>3. FewBookedInv => FewAllocations
    <2> SUFFICES ASSUME FewBookedInv, NEW e \in Employees, NEW s \in Slots
                 PROVE  Cardinality(Held(e, LineDay[s.line])) <= Cardinality(Workers)
      BY DEF FewAllocations
    <2> DEFINE d == LineDay[s.line]
    <2>0. FewBooked(e, d)
      BY DEF FewBookedInv
    <2>1. Held(e, d) \subseteq Booked(e, d)
      BY DEF Held, Booked
    <2>2. IsFiniteSet(Held(e, d)) /\ Cardinality(Held(e, d)) <= Cardinality(Booked(e, d))
      BY <2>0, <2>1, FS_Subset DEF FewBooked
    <2> QED
      BY <2>0, <2>2, FS_CardinalityType, ConstantsAssumption DEF FewBooked
  <1> QED
    BY <1>1, <1>2, <1>3, PTL DEF Spec

=============================================================================
