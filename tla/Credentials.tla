----------------------------- MODULE Credentials -----------------------------
(***************************************************************************)
(* The credential of one user: the failed logins that are counted, the     *)
(* lock they lead to, and what takes both back.                            *)
(*                                                                         *)
(* A login reads the credential, verifies the password and then writes the *)
(* count it had read plus one, or a lock; or, once it has created the      *)
(* session, no count and no lock.                                          *)
(***************************************************************************)
EXTENDS Integers

CONSTANTS
    Workers,    \* logins served at the same time (a bound)
    Limit       \* failed logins that lead to a lock: 5 in the code

VARIABLES
    attempts,   \* tb_auth_credentials.failed_login_attempts
    locked,     \* lock_until is in the future
    login,      \* the logins being served
    failures,   \* history: failed logins recorded since all was last taken back
    late        \* history: one of them had read before that

vars == <<attempts, locked, login, failures, late>>

\* read: the count as read; early: all was taken back since.
Logins == [pc : {"idle", "verify", "session"}, read : 0 .. Limit - 1, early : BOOLEAN]

Idle == [pc |-> "idle", read |-> 0, early |-> FALSE]

Init ==
    /\ attempts = 0
    /\ locked = FALSE
    /\ login = [p \in Workers |-> Idle]
    /\ failures = 0
    /\ late = FALSE

BeginLogin(p) ==
    /\ login[p].pc = "idle"
    /\ ~ locked
    /\ login' = [login EXCEPT ![p] = [Idle EXCEPT !.pc = "verify", !.read = attempts]]
    /\ UNCHANGED <<attempts, locked, failures, late>>

\* Mutant: the count stays when a lock is set.
CountOn(n) == IF n >= Limit THEN Limit - 1 ELSE n

\* Mutant: nothing starts the count afresh.
CountFurther(n) == IF n > Limit THEN Limit ELSE n

\* A lock starts the count afresh.
CountAfter(n) == IF n >= Limit THEN 0 ELSE n

\* The password does not match.
RegisterFailedLogin(p) ==
    LET n == login[p].read + 1
    IN  /\ login[p].pc = "verify"
        /\ attempts' = CountAfter(n)
        /\ locked' = (locked \/ n >= Limit)
        /\ failures' = IF n >= Limit THEN 0 ELSE IF failures < Limit THEN failures + 1
                       ELSE failures
        /\ late' = (n < Limit /\ (late \/ login[p].early))
        /\ login' = [q \in Workers |->
                        IF q = p THEN Idle
                        ELSE IF n >= Limit THEN [login[q] EXCEPT !.early = TRUE]
                        ELSE login[q]]

\* The password matches; a session is created.
CreateSession(p) ==
    /\ login[p].pc = "verify"
    /\ login' = [login EXCEPT ![p].pc = "session"]
    /\ UNCHANGED <<attempts, locked, failures, late>>

\* Count and lock are taken back, as seen by the logins q that go on.
TakeBack(done) ==
    /\ attempts' = 0
    /\ locked' = FALSE
    /\ failures' = 0
    /\ late' = FALSE
    /\ login' = [q \in Workers |->
                    IF q \in done THEN Idle
                    ELSE IF login[q].pc = "idle" THEN login[q]
                    ELSE [login[q] EXCEPT !.early = TRUE]]

RegisterSuccessfulLogin(p) == login[p].pc = "session" /\ TakeBack({p})

\* An administrator unlocks the credential, or the password is changed or reset.
Unlock == TakeBack({})

LockEnds ==
    /\ locked
    /\ locked' = FALSE
    /\ UNCHANGED <<attempts, login, failures, late>>

Drop(p) ==
    /\ login[p].pc # "idle"
    /\ login' = [login EXCEPT ![p] = Idle]
    /\ UNCHANGED <<attempts, locked, failures, late>>

Next ==
    \/ \E p \in Workers :
         \/ BeginLogin(p) \/ RegisterFailedLogin(p)
         \/ CreateSession(p) \/ RegisterSuccessfulLogin(p)
         \/ Drop(p)
    \/ Unlock
    \/ LockEnds

Spec == Init /\ [][Next]_vars

TypeOK ==
    /\ attempts \in 0 .. Limit - 1
    /\ locked \in BOOLEAN
    /\ login \in [Workers -> Logins]
    /\ failures \in 0 .. Limit
    /\ late \in BOOLEAN

\* The count is never more than the logins that have failed since it last
\* started at zero (auth-credentials.service), and a lock thus never comes too
\* soon: logins that overlap are counted too low, not too high.  Only one that
\* had read the count before it was taken back counts what is no longer there.
CountedHaveFailed == late \/ attempts <= failures

=============================================================================
