------------------------------ MODULE UserAccess -----------------------------
(***************************************************************************)
(* One user: group, status and the pages allowed beyond, or forbidden      *)
(* despite, the defaults of the group.                                     *)
(*                                                                         *)
(* An administrator's request saves the user, then reads it again, deletes *)
(* the overrides and inserts those in which the pages asked for differ     *)
(* from the defaults of the group; no transaction holds these together.    *)
(***************************************************************************)
EXTENDS Integers

CONSTANTS
    Groups,
    Pages,
    Defaults,   \* the pages of each group
    Inputs,     \* what administrators ask for: group, status, pages, and whether
                \* the group's defaults are to hold; None for what is not given
                \* (the defaults refused and no pages given: no pages are asked for)
    Workers,    \* requests served at the same time (a bound)
    None

VARIABLES
    user,       \* tb_users: group, status, whether inactivated_at is set
    override,   \* tb_user_page_access: allowed or not, per page
    worker,     \* the requests being served
    asked,      \* history: the pages of the request that was answered last
    mixed       \* history: it had read the group too early, or was interrupted

vars == <<user, override, worker, asked, mixed>>

Rows == [group : Groups, status : BOOLEAN, inactivated : BOOLEAN]

Puts == [group : Groups \cup {None}, status : BOOLEAN \cup {None},
         inactivated : BOOLEAN \cup {None}]

NoPut == [group |-> None, status |-> None, inactivated |-> None]

WorkerStates ==
    [pc    : {"idle", "reload", "put", "permissions", "delete", "insert"},
     save  : Puts,                        \* the entity, then its changes
     pages : (SUBSET Pages) \cup {None},  \* None: permissions are not asked for
     reset : BOOLEAN,                     \* the group's defaults are
     group : Groups \cup {None},          \* as read before the overrides are set
     fresh : BOOLEAN]                     \* history: nothing was written since

Idle == [pc |-> "idle", save |-> NoPut, pages |-> None, reset |-> FALSE,
         group |-> None, fresh |-> TRUE]

Init ==
    /\ \E g \in Groups : user = [group |-> g, status |-> TRUE, inactivated |-> FALSE]
    /\ override = [k \in Pages |-> None]
    /\ worker = [p \in Workers |-> Idle]
    /\ asked = None
    /\ mixed = FALSE

At(p, pc) == worker[p].pc = pc

\* p goes on with w; what others have read is out of date.
Outdating(p, w) ==
    worker' = [q \in Workers |->
                 IF q = p THEN w
                 ELSE IF At(q, "idle") THEN worker[q]
                 ELSE [worker[q] EXCEPT !.fresh = FALSE]]

Given(x, y) == IF x = None THEN y ELSE x

Differing(x, y) == IF x = y THEN None ELSE x

\* The pages a group g has with overrides o.
Effective(g, o) ==
    {k \in Pages : o[k] = TRUE \/ (o[k] = None /\ k \in Defaults[g])}

\* Mutant: only pages that are added are stored.
OverridesAdded(g, pages) ==
    [k \in Pages |-> IF k \in pages /\ k \notin Defaults[g] THEN TRUE ELSE None]

DesiredOverrides(g, pages) ==
    [k \in Pages |-> IF (k \in pages) = (k \in Defaults[g]) THEN None ELSE k \in pages]

-----------------------------------------------------------------------------

\* The date of inactivation is set, or left undefined, which the save takes
\* for a column to leave alone.
AdminUpdate(p, input) ==
    /\ At(p, "idle")
    /\ worker' = [worker EXCEPT ![p] =
          [Idle EXCEPT !.pc = "reload", !.pages = input.pages, !.reset = input.reset,
              !.save = [group |-> Given(input.group, user.group),
                        status |-> Given(input.status, user.status),
                        inactivated |-> CASE input.status = None  -> user.inactivated
                                          [] input.status = FALSE -> TRUE
                                          [] OTHER                -> None]]]
    /\ UNCHANGED <<user, override, asked, mixed>>

Changed(entity, row) == IF entity = None THEN None ELSE Differing(entity, row)

ReloadUser(p) ==
    LET e == worker[p].save
    IN  /\ At(p, "reload")
        /\ worker' = [worker EXCEPT
               ![p].pc = "put",
               ![p].save = [group |-> Differing(e.group, user.group),
                            status |-> Differing(e.status, user.status),
                            inactivated |-> Changed(e.inactivated, user.inactivated)]]
        /\ UNCHANGED <<user, override, asked, mixed>>

\* A change of the group leaves the overrides as they are.
WriteUser(p) ==
    LET w == worker[p]
    IN  /\ At(p, "put")
        /\ user' = [group |-> Given(w.save.group, user.group),
                    status |-> Given(w.save.status, user.status),
                    inactivated |-> Given(w.save.inactivated, user.inactivated)]
        /\ LET next == IF w.pages = None /\ ~ w.reset THEN Idle
                       ELSE [w EXCEPT !.pc = "permissions", !.save = NoPut]
           IN  IF user'.group = user.group
                 THEN worker' = [worker EXCEPT ![p] = next]
                 ELSE Outdating(p, next)
        /\ asked' = IF user'.group = user.group THEN asked ELSE None
        /\ UNCHANGED <<override, mixed>>

ReadUser(p) ==
    /\ At(p, "permissions")
    /\ worker' = [worker EXCEPT ![p].pc = "delete", ![p].group = user.group,
                                ![p].fresh = TRUE]
    /\ UNCHANGED <<user, override, asked, mixed>>

DeleteOverrides(p) ==
    LET w == worker[p]
    IN  /\ At(p, "delete")
        /\ override' = [k \in Pages |-> None]
        /\ asked' = None
        /\ mixed' = FALSE
        /\ Outdating(p, IF w.reset THEN Idle ELSE [w EXCEPT !.pc = "insert"])
        /\ UNCHANGED user

\* The unique index on user and page refuses an override that is there; none
\* is inserted then.
InsertOverrides(p) ==
    LET w == worker[p]
        desired == DesiredOverrides(w.group, w.pages)
    IN  /\ At(p, "insert")
        /\ IF \E k \in Pages : desired[k] # None /\ override[k] # None
             THEN /\ worker' = [worker EXCEPT ![p] = Idle]
                  /\ UNCHANGED <<override, asked, mixed>>
             ELSE /\ override' = [k \in Pages |-> Given(desired[k], override[k])]
                  /\ asked' = w.pages
                  /\ mixed' = ~ w.fresh
                  /\ Outdating(p, Idle)
        /\ UNCHANGED user

\* A request fails.
Fail(p) ==
    /\ ~ At(p, "idle")
    /\ worker' = [worker EXCEPT ![p] = Idle]
    /\ UNCHANGED <<user, override, asked, mixed>>

Next ==
    \E p \in Workers :
        \/ \E input \in Inputs : AdminUpdate(p, input)
        \/ ReloadUser(p) \/ WriteUser(p)
        \/ ReadUser(p) \/ DeleteOverrides(p) \/ InsertOverrides(p)
        \/ Fail(p)

Spec == Init /\ [][Next]_vars

TypeOK ==
    /\ user \in Rows
    /\ override \in [Pages -> BOOLEAN \cup {None}]
    /\ worker \in [Workers -> WorkerStates]
    /\ asked \in (SUBSET Pages) \cup {None}
    /\ mixed \in BOOLEAN

\* As long as the group stays, a user has the pages that the request answered
\* last has asked for, not some of one request and some of another
\* (user-page-access.service) - unless the two overlap.
PagesAsAsked == mixed \/ asked = None \/ Effective(user.group, override) = asked

=============================================================================
