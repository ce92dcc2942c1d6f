---------------------------- MODULE CompanyProfile ----------------------------
(***************************************************************************)
(* The one record with which contracts name the company.  It is created    *)
(* with default values by whoever reads it first, and nothing but the read *)
(* keeps it single.  An insert has the time at which it began; it is seen  *)
(* when it is committed.                                                   *)
(***************************************************************************)
EXTENDS Integers, FiniteSets

CONSTANTS
    Workers,    \* requests served at the same time (a bound)
    MaxTime,    \* inserts that are begun (a bound)
    None

VARIABLES
    clock,      \* inserts begun so far: the times they are stamped with
    profiles,   \* tb_company_profile
    worker      \* the requests being served

Texts == {"default", "entered"}

\* A required text, and one of the optional texts.
Profile == [created : 1 .. MaxTime, name : Texts, phone : Texts]

\* An update: None for a text left out, "" for one with nothing in it, which
\* a required text may not be.
Updates == [name : {"entered", None}, phone : {"entered", None, ""}]

NoUpdate == [name |-> None, phone |-> None]

Requests ==
    [pc     : {"idle", "insert", "update", "write"},
     input  : [name : Texts \cup {None}, phone : Texts \cup {None, ""}],
     record : Profile \cup {None}]

Idle == [pc |-> "idle", input |-> NoUpdate, record |-> None]

TypeOK ==
    /\ clock \in 0 .. MaxTime
    /\ profiles \in SUBSET Profile
    /\ worker \in [Workers -> Requests]

Init ==
    /\ clock = 0 /\ profiles = {}
    /\ worker = [p \in Workers |-> Idle]

At(p, pc) == worker[p].pc = pc

Goto(p, w) == worker' = [worker EXCEPT ![p] = w]

Oldest == CHOOSE r \in profiles : \A s \in profiles : r.created <= s.created

\* A read is done with its record, an update goes on.
WithRecord(w, record) ==
    IF w.input = NoUpdate THEN Idle ELSE [w EXCEPT !.pc = "update", !.record = record]

\* The insert of the default values begins.
BeginInsert(p, w) ==
    /\ clock < MaxTime
    /\ clock' = clock + 1
    /\ Goto(p, [w EXCEPT !.pc = "insert",
           !.record = [created |-> clock + 1, name |-> "default", phone |-> "default"]])

\* Mutant: a record that is there is not found.
ResolveNone(p, input) ==
    /\ At(p, "idle")
    /\ BeginInsert(p, [Idle EXCEPT !.input = input])
    /\ UNCHANGED profiles

\* A read of the profile (nothing to update) or an update of it begins with
\* resolveEntity: the oldest record, or, without one, the defaults.
ResolveEntity(p, input) ==
    LET w == [Idle EXCEPT !.input = input]
    IN  /\ At(p, "idle")
        /\ IF profiles # {}
             THEN Goto(p, WithRecord(w, Oldest)) /\ UNCHANGED clock
             ELSE BeginInsert(p, w)
        /\ UNCHANGED profiles

\* The insert is committed.
InsertProfile(p) ==
    LET w == worker[p]
    IN  /\ At(p, "insert")
        /\ profiles' = profiles \cup {w.record}
        /\ Goto(p, WithRecord(w, w.record))
        /\ UNCHANGED clock

\* What the text of a record becomes: a blank one is not written (undefined).
Text(given, current) == IF given \in {None, ""} THEN current ELSE given

\* The save reads the record again; here the texts in which the entity
\* differs from it are found.
UpdateProfile(p) ==
    LET w == worker[p]
        now == CHOOSE r \in profiles : r.created = w.record.created
        put == [name |-> Text(w.input.name, w.record.name),
                phone |-> IF w.input.phone = "" THEN now.phone
                          ELSE Text(w.input.phone, w.record.phone)]
    IN  /\ At(p, "update")
        /\ Goto(p, [w EXCEPT !.pc = "write",
                             !.input = [name |-> IF put.name = now.name THEN None ELSE put.name,
                                        phone |-> IF put.phone = now.phone THEN None
                                                  ELSE put.phone]])
        /\ UNCHANGED <<clock, profiles>>

WriteProfile(p) ==
    LET w == worker[p]
        now == CHOOSE r \in profiles : r.created = w.record.created
    IN  /\ At(p, "write")
        /\ profiles' = (profiles \ {now}) \cup
                         {[now EXCEPT !.name = Text(w.input.name, @),
                                      !.phone = Text(w.input.phone, @)]}
        /\ Goto(p, Idle)
        /\ UNCHANGED clock

Fail(p) ==
    /\ ~ At(p, "idle")
    /\ Goto(p, Idle)
    /\ UNCHANGED <<clock, profiles>>

Next ==
    \E p \in Workers :
        \/ \E input \in Updates : ResolveEntity(p, input)
        \/ InsertProfile(p)
        \/ UpdateProfile(p) \/ WriteProfile(p)
        \/ Fail(p)

\* There is one profile, except that first reads which overlap bring one each
\* (get-company-profile.service, resolveEntity).
FewProfiles == Cardinality(profiles) <= Cardinality(Workers)

=============================================================================
