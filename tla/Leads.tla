-------------------------------- MODULE Leads --------------------------------
(***************************************************************************)
(* The register of leads.  No lead is to be there twice: a creation, and   *)
(* an update of name or document, looks for another of the same client     *)
(* first.  No index holds it to that, and no transaction.                  *)
(*                                                                         *)
(* An update saves the whole entity: the row is read once more and the     *)
(* columns in which the entity differs from it are written.                *)
(***************************************************************************)
EXTENDS Integers, FiniteSets

CONSTANTS
    MaxLeads,   \* rows (a bound)
    Created,    \* what creations ask for: name and status
    Updates,    \* what updates ask for; None for what is not given
    Clients,    \* names and documents, with case, accents and inner spaces folded
    Workers,    \* requests served at the same time (a bound)
    None

Leads == 1 .. MaxLeads

LeadStatus == {"NEW", "QUALIFIED", "WON", "LOST"}

AllowedTransitions ==
    [s \in LeadStatus |->
        CASE s = "NEW"       -> {"QUALIFIED", "WON", "LOST"}
          [] s = "QUALIFIED" -> {"WON", "LOST"}
          [] OTHER           -> {}]

VARIABLES
    lead,      \* tb_leads: name, as entered, and status
    worker     \* the requests being served

vars == <<lead, worker>>

\* A name as entered may have spaces around it.
Names == [client : Clients, padded : BOOLEAN]

\* name None: no such lead yet.
Rows == [name : Names \cup {None}, status : LeadStatus]

NoLead == [name |-> None, status |-> "NEW"]

Puts == [name : Names \cup {None}, status : LeadStatus \cup {None}]

WorkerStates ==
    [pc    : {"idle", "insert", "lookup", "reload", "put"},
     l     : Leads \cup {None},
     save  : Puts,         \* the entity, then its changes
     fresh : BOOLEAN]      \* history: nobody else wrote the lead since it was read

Idle == [pc |-> "idle", l |-> None, save |-> [name |-> None, status |-> None],
         fresh |-> TRUE]

Init ==
    /\ lead = [l \in Leads |-> NoLead]
    /\ worker = [p \in Workers |-> Idle]

At(p, pc) == worker[p].pc = pc

Begin(p, w) == At(p, "idle") /\ worker' = [worker EXCEPT ![p] = w]

Given(x, y) == IF x = None THEN y ELSE x

Differing(x, y) == IF x = y THEN None ELSE x

\* Mutant: the lead to be left out is the only one looked at.
FindDuplicateItself(name, excluded) ==
    excluded \in Leads /\ lead[excluded].name = [client |-> name.client, padded |-> FALSE]

\* The name looked for loses the spaces around it, the names compared do not.
FindDuplicate(name, excluded) ==
    \E l \in Leads \ {excluded} : lead[l].name = [client |-> name.client, padded |-> FALSE]

\* Mutant: a status may be given whatever it was.
AnyMove(from, to) == TRUE

MayMove(from, to) == to \in {None, from} \/ to \in AllowedTransitions[from]

Taken(l) == lead[l].name # None \/ \E q \in Workers : worker[q].l = l

CreateLead(p, l, input) ==
    /\ ~ Taken(l)
    /\ \A k \in 1 .. l - 1 : Taken(k)
    /\ ~ FindDuplicate(input.name, None)
    /\ Begin(p, [Idle EXCEPT !.pc = "insert", !.l = l, !.save = input])
    /\ UNCHANGED lead

InsertLead(p) ==
    /\ At(p, "insert")
    /\ lead' = [lead EXCEPT ![worker[p].l] = worker[p].save]
    /\ worker' = [worker EXCEPT ![p] = Idle]

UpdateLead(p, l, input) ==
    LET row == lead[l]
    IN  /\ row.name # None
        /\ MayMove(row.status, input.status)
        /\ Begin(p, [Idle EXCEPT !.pc = IF input.name = None THEN "reload" ELSE "lookup",
                                 !.l = l,
                                 !.save = [name |-> Given(input.name, row.name),
                                           status |-> Given(input.status, row.status)]])
        /\ UNCHANGED lead

LookUpDuplicate(p) ==
    /\ At(p, "lookup")
    /\ ~ FindDuplicate(worker[p].save.name, worker[p].l)
    /\ worker' = [worker EXCEPT ![p].pc = "reload"]
    /\ UNCHANGED lead

ReloadLead(p) ==
    LET w == worker[p]
    IN  /\ At(p, "reload")
        /\ worker' = [worker EXCEPT
               ![p].pc = "put",
               ![p].save = [name |-> Differing(w.save.name, lead[w.l].name),
                            status |-> Differing(w.save.status, lead[w.l].status)]]
        /\ UNCHANGED lead

WriteLead(p) ==
    LET w == worker[p]
    IN  /\ At(p, "put")
        /\ lead' = [lead EXCEPT ![w.l] = [name |-> Given(w.save.name, @.name),
                                          status |-> Given(w.save.status, @.status)]]
        /\ worker' = [q \in Workers |->
                        IF q = p THEN Idle
                        ELSE IF worker[q].l = w.l THEN [worker[q] EXCEPT !.fresh = FALSE]
                        ELSE worker[q]]

\* A request fails, or is refused for a duplicate.
Fail(p) ==
    /\ ~ At(p, "idle")
    /\ worker' = [worker EXCEPT ![p] = Idle]
    /\ UNCHANGED lead

Next ==
    \E p \in Workers :
        \/ \E l \in Leads :
             \/ \E input \in Created : CreateLead(p, l, input)
             \/ \E input \in Updates : UpdateLead(p, l, input)
        \/ InsertLead(p) \/ LookUpDuplicate(p) \/ ReloadLead(p) \/ WriteLead(p)
        \/ Fail(p)

Spec == Init /\ [][Next]_vars

TypeOK ==
    /\ lead \in [Leads -> Rows]
    /\ worker \in [Workers -> WorkerStates]

\* The leads that a lookup of the client finds.
Registered(c) == {l \in Leads : lead[l].name = [client |-> c, padded |-> FALSE]}

\* Of one client a lookup finds no more leads than there are requests at a time
\* (lead-duplicate.util): the lookup and the save are apart, and an update of
\* anything saves the name as it was read.
FewLeads ==
    \A c \in Clients : Cardinality(Registered(c)) <= Cardinality(Workers)

\* A lead that is won or lost stays so (update-leads.validator), but for an
\* update that had read it before.
OutcomeStays ==
    [][\A l \in Leads :
          lead[l].status \in {"WON", "LOST"} /\ lead'[l].status # lead[l].status =>
              \E p \in Workers : worker[p].l = l /\ ~ worker[p].fresh]_vars

=============================================================================
