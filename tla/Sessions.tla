------------------------------ MODULE Sessions -------------------------------
(***************************************************************************)
(* One session, from its login to its logout: its refresh token, which     *)
(* every refresh replaces, and whether it is active.                       *)
(*                                                                         *)
(* A refresh finds the session by its token and saves the entity twice,    *)
(* first with the time of its use, then with a new token; a logout finds   *)
(* it and saves it once, inactive.  Every save reads the row once more and *)
(* writes the columns in which the entity differs from it.                 *)
(***************************************************************************)
EXTENDS Integers

CONSTANTS
    Workers,      \* requests served at the same time (a bound)
    MaxTokens,    \* tokens that are signed (a bound)
    None

VARIABLES
    session,    \* tb_sessions: token and activity
    signed,     \* tokens signed so far, the login's is number 1
    request     \* the requests being served

vars == <<session, signed, request>>

Rows == [token : 1 .. MaxTokens, active : BOOLEAN]

\* What a save writes; None for a column in which nothing differs.
Puts == [token : (1 .. MaxTokens) \cup {None}, active : BOOLEAN \cup {None}]

PCs == {"idle", "touch", "put touch", "sign", "rotate", "put rotate",
        "revoke", "put revoke"}

Requests ==
    [pc     : PCs,
     entity : Rows,
     put    : Puts,
     fresh  : BOOLEAN]    \* history: nobody else wrote since it read

NoPut == [token |-> None, active |-> None]

Idle == [pc |-> "idle", entity |-> [token |-> 1, active |-> TRUE], put |-> NoPut,
         fresh |-> TRUE]

Init ==
    /\ session = [token |-> 1, active |-> TRUE]
    /\ signed = 1
    /\ request = [p \in Workers |-> Idle]

\* A request comes with any token that was handed out.
Finds(t) == t <= signed /\ session.token = t

\* Mutant: a revoked session is found as well.
FindsRevoked(t) == Finds(t)

ValidateSession(t) == Finds(t) /\ session.active

Begin(p, pc) ==
    /\ request[p].pc = "idle"
    /\ request' = [request EXCEPT ![p] = [Idle EXCEPT !.pc = pc, !.entity = session]]
    /\ UNCHANGED <<session, signed>>

Refresh(p, t) == ValidateSession(t) /\ Begin(p, "touch")

Logout(p, t) ==
    /\ Finds(t)
    /\ request[p].pc = "idle"
    /\ request' = [request EXCEPT ![p] =
           [Idle EXCEPT !.pc = "revoke", !.entity = [session EXCEPT !.active = FALSE]]]
    /\ UNCHANGED <<session, signed>>

Differing(x, y) == IF x = y THEN None ELSE x

Given(x, y) == IF x = None THEN y ELSE x

\* The first half of a save.
Reload(p, from, to) ==
    LET e == request[p].entity
    IN  /\ request[p].pc = from
        /\ request' = [request EXCEPT
               ![p].pc = to,
               ![p].put = [token |-> Differing(e.token, session.token),
                           active |-> Differing(e.active, session.active)]]
        /\ UNCHANGED <<session, signed>>

\* The second half.  Others had read too early if anything has changed.
Write(p, from, to) ==
    LET put == request[p].put
    IN  /\ request[p].pc = from
        /\ session' = [token |-> Given(put.token, session.token),
                       active |-> Given(put.active, session.active)]
        /\ request' = [q \in Workers |->
               IF q = p THEN IF to = "idle" THEN Idle
                             ELSE [request[p] EXCEPT !.pc = to, !.put = NoPut]
               ELSE IF request[q].pc = "idle" \/ session' = session THEN request[q]
               ELSE [request[q] EXCEPT !.fresh = FALSE]]
        /\ UNCHANGED signed

Touch(p) == Reload(p, "touch", "put touch") \/ Write(p, "put touch", "sign")

SignTokens(p) ==
    /\ request[p].pc = "sign"
    /\ signed < MaxTokens
    /\ signed' = signed + 1
    /\ request' = [request EXCEPT ![p].pc = "rotate", ![p].entity.token = signed + 1]
    /\ UNCHANGED session

Rotate(p) == Reload(p, "rotate", "put rotate") \/ Write(p, "put rotate", "idle")

Revoke(p) == Reload(p, "revoke", "put revoke") \/ Write(p, "put revoke", "idle")

Drop(p) ==
    /\ request[p].pc # "idle"
    /\ request' = [request EXCEPT ![p] = Idle]
    /\ UNCHANGED <<session, signed>>

Next ==
    \E p \in Workers :
        \/ \E t \in 1 .. MaxTokens : Refresh(p, t) \/ Logout(p, t)
        \/ Touch(p) \/ SignTokens(p) \/ Rotate(p) \/ Revoke(p)
        \/ Drop(p)

Spec == Init /\ [][Next]_vars

TypeOK ==
    /\ session \in Rows
    /\ signed \in 1 .. MaxTokens
    /\ request \in [Workers -> Requests]

\* p is about to write what it had read before somebody else wrote.
LateWrite(p) ==
    request[p].pc \in {"put touch", "put rotate", "put revoke"} /\ ~ request[p].fresh

\* A session that is logged out has ended: it is not found by a refresh, gets
\* no new token and is not revived by the entities that are saved whole, nor
\* does a token that was replaced come back (refresh-auth-session,
\* revoke-session) - unless the logout, or the other refresh, overlaps.
LogoutEnds ==
    [][/\ signed' # signed =>
            \/ session.active
            \/ \E p \in Workers : request[p].pc = "sign" /\ ~ request[p].fresh
       /\ \/ session'.token >= session.token /\ (session'.active => session.active)
          \/ \E p \in Workers : LateWrite(p)]_vars

=============================================================================
