--------------------------- MODULE PasswordRecovery --------------------------
(***************************************************************************)
(* The recovery of one user's password: a code is mailed, its verification *)
(* gives a token, the token resets the password.                           *)
(*                                                                         *)
(* None of the requests is a transaction: issuing invalidates the codes    *)
(* that are open and then inserts a new one; a verification reads a code   *)
(* and then writes what it makes of it; a reset reads it, updates the      *)
(* password and then consumes it.                                          *)
(***************************************************************************)
EXTENDS Integers, FiniteSetsExt

CONSTANTS
    Workers,       \* requests served at the same time (a bound)
    MaxCodes,      \* codes that are issued (a bound)
    MaxAttempts,   \* wrong entries that invalidate a code: 5 in the code
    None

Codes == 1 .. MaxCodes

VARIABLES
    code,      \* tb_auth_verification_codes, in the order of creation
    request    \* the requests being served

vars == <<code, request>>

Rows == [made : BOOLEAN, invalid : BOOLEAN, verified : BOOLEAN, consumed : BOOLEAN,
         expired : BOOLEAN, attempts : 0 .. MaxAttempts]

NoCode == [made |-> FALSE, invalid |-> FALSE, verified |-> FALSE,
           consumed |-> FALSE, expired |-> FALSE, attempts |-> 0]

Requests == [pc : {"idle", "insert", "verify", "password", "consume"},
             c : Codes \cup {None},
             attempts : 0 .. MaxAttempts,    \* as read
             fresh : BOOLEAN]    \* history: no other reset with the code overlaps

Idle == [pc |-> "idle", c |-> None, attempts |-> 0, fresh |-> TRUE]

Init ==
    /\ code = [c \in Codes |-> NoCode]
    /\ request = [p \in Workers |-> Idle]

At(p, pc) == request[p].pc = pc

Goto(p, r) == request' = [request EXCEPT ![p] = r]

Open(c) == code[c].made /\ ~ code[c].invalid /\ ~ code[c].consumed

\* A code that may be entered.
Valid(c) == Open(c) /\ ~ code[c].verified /\ ~ code[c].expired

\* Mutant: that a code was used is not looked at.
UsableForever(c) ==
    code[c].made /\ ~ code[c].invalid /\ code[c].verified /\ ~ code[c].expired

\* A code whose token may reset the password.
Usable(c) == Open(c) /\ code[c].verified /\ ~ code[c].expired

\* A reset has updated the password and not yet consumed its code c.
Consuming(c) == \E q \in Workers : At(q, "consume") /\ request[q].c = c

-----------------------------------------------------------------------------

\* Mutant: only codes that nobody has verified are invalidated.
InvalidateUnverified ==
    [c \in Codes |-> IF Open(c) /\ ~ code[c].verified
                     THEN [code[c] EXCEPT !.invalid = TRUE] ELSE code[c]]

InvalidateOpenCodes ==
    [c \in Codes |-> IF Open(c) THEN [code[c] EXCEPT !.invalid = TRUE] ELSE code[c]]

RequestRecovery(p) ==
    /\ At(p, "idle")
    /\ code' = InvalidateOpenCodes
    /\ Goto(p, [Idle EXCEPT !.pc = "insert"])

InsertCode(p) ==
    /\ At(p, "insert")
    /\ \E c \in Codes :
         /\ ~ code[c].made
         /\ \A d \in 1 .. c - 1 : code[d].made
         /\ code' = [code EXCEPT ![c].made = TRUE]
    /\ Goto(p, Idle)

\* The latest of the valid codes is the one an entry is compared with.
BeginVerification(p) ==
    /\ At(p, "idle")
    /\ \E c \in Codes :
         /\ Valid(c)
         /\ \A d \in c + 1 .. MaxCodes : ~ Valid(d)
         /\ Goto(p, [Idle EXCEPT !.pc = "verify", !.c = c, !.attempts = code[c].attempts])
    /\ UNCHANGED code

\* The count as read plus one, and whether that is too many: a code that was
\* invalidated meanwhile is open again if not.
RegisterInvalidAttempt(p) ==
    LET r == request[p]
    IN  /\ At(p, "verify")
        /\ code' = [code EXCEPT ![r.c].attempts = r.attempts + 1,
                                ![r.c].invalid = r.attempts + 1 >= MaxAttempts]
        /\ Goto(p, Idle)
    
MarkVerified(p) ==
    /\ At(p, "verify")
    /\ code' = [code EXCEPT ![request[p].c].verified = TRUE]
    /\ Goto(p, Idle)

BeginReset(p) ==
    /\ At(p, "idle")
    /\ \E c \in Codes :
         /\ Usable(c)
         /\ Goto(p, [Idle EXCEPT !.pc = "password", !.c = c,
                        !.fresh = ~ Consuming(c)])
    /\ UNCHANGED code

UpdatePassword(p) ==
    /\ At(p, "password")
    /\ request' = [q \in Workers |->
                      IF q = p THEN [request[p] EXCEPT !.pc = "consume"]
                      ELSE IF At(q, "password") /\ request[q].c = request[p].c
                             THEN [request[q] EXCEPT !.fresh = FALSE]
                      ELSE request[q]]
    /\ UNCHANGED code

Consume(p) ==
    /\ At(p, "consume")
    /\ code' = [code EXCEPT ![request[p].c].consumed = TRUE]
    /\ Goto(p, Idle)

\* A request fails.
Drop(p) ==
    /\ ~ At(p, "idle")
    /\ Goto(p, Idle)
    /\ UNCHANGED code

\* The codes expire in the order of their creation.
Expire(c) ==
    /\ code[c].made /\ ~ code[c].expired
    /\ \A d \in 1 .. c - 1 : code[d].expired
    /\ code' = [code EXCEPT ![c].expired = TRUE]
    /\ UNCHANGED request

Next ==
    \/ \E p \in Workers :
         \/ RequestRecovery(p) \/ InsertCode(p)
         \/ BeginVerification(p) \/ RegisterInvalidAttempt(p) \/ MarkVerified(p)
         \/ BeginReset(p) \/ UpdatePassword(p) \/ Consume(p)
         \/ Drop(p)
    \/ \E c \in Codes : Expire(c)

Spec == Init /\ [][Next]_vars

TypeOK ==
    /\ code \in [Codes -> Rows]
    /\ request \in [Workers -> Requests]

\* A new code takes the place of the ones before, those that were verified
\* included (password-recovery-codes.service): although wrong entries open
\* invalidated codes again, there are never more than requests at a time.
FewRecoveryCodes ==
    Cardinality({c \in Codes : Open(c)}) <= Cardinality(Workers)

\* A code that has reset the password, or is doing so, resets it once more only
\* by a request that overlaps the other (reset-password-with-recovery.service);
\* one that failed before the code's consumption does not count.
ResetsOnce ==
    [][\A p \in Workers :
          At(p, "password") /\ request'[p].pc = "consume" =>
              LET c == request[p].c
              IN  code[c].consumed \/ Consuming(c) => ~ request[p].fresh]_vars

=============================================================================
