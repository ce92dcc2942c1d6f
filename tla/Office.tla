------------------------------- MODULE Office --------------------------------
(***************************************************************************)
(* Five parts of the administration: the credential of a user, a session,  *)
(* the recovery of a password, a user's access and the register of leads.  *)
(* They share no columns, but that the reset of a password takes the       *)
(* credential's count and lock back, which Credentials has as Unlock.  So  *)
(* each is followed by itself: part is the one that a behaviour is about,  *)
(* and the others rest.                                                    *)
(***************************************************************************)
EXTENDS Integers, FiniteSets

CONSTANTS
    Parts,                                  \* the parts that are followed
    Workers, None,
    Limit,                                  \* Credentials
    MaxTokens,                              \* Sessions
    MaxCodes, MaxAttempts,                  \* PasswordRecovery
    Groups, Pages, Defaults, Inputs,        \* UserAccess
    MaxLeads, Created, Updates, Clients     \* Leads

VARIABLES
    part,
    attempts, locked, login, failures, late,    \* Credentials
    session, signed, sessionRequest,            \* Sessions
    code, recoveryRequest,                      \* PasswordRecovery
    user, override, accessWorker, asked, mixed, \* UserAccess
    lead, leadWorker                            \* Leads

C == INSTANCE Credentials
S == INSTANCE Sessions WITH request <- sessionRequest
R == INSTANCE PasswordRecovery WITH request <- recoveryRequest
U == INSTANCE UserAccess WITH worker <- accessWorker
L == INSTANCE Leads WITH worker <- leadWorker

AllParts == {"credentials", "sessions", "recovery", "access", "leads"}

ASSUME PartsAssumption == Parts \subseteq AllParts

ASSUME WorkersAssumption == IsFiniteSet(Workers)

ASSUME NoneAssumption ==
    /\ None \notin Nat /\ None \notin BOOLEAN /\ None \notin Groups
    /\ \A k \in SUBSET Pages : k # None

ASSUME LimitAssumption == Limit \in Nat \ {0}

ASSUME TokensAssumption == MaxTokens \in Nat \ {0}

ASSUME CodesAssumption == MaxCodes \in Nat /\ MaxAttempts \in Nat \ {0}

ASSUME AccessAssumption ==
    /\ Defaults \in [Groups -> SUBSET Pages]
    /\ Inputs \subseteq [group : Groups \cup {None}, status : BOOLEAN \cup {None},
                         pages : (SUBSET Pages) \cup {None}, reset : BOOLEAN]

ASSUME LeadsAssumption ==
    /\ MaxLeads \in Nat
    /\ None \notin L!Names /\ None \notin L!LeadStatus
    /\ Created \subseteq [name : L!Names, status : L!LeadStatus]
    /\ Updates \subseteq [name : L!Names \cup {None}, status : L!LeadStatus \cup {None}]

credentialVars == <<attempts, locked, login, failures, late>>
sessionVars == <<session, signed, sessionRequest>>
recoveryVars == <<code, recoveryRequest>>
accessVars == <<user, override, accessWorker, asked, mixed>>
leadVars == <<lead, leadWorker>>

vars == <<part, credentialVars, sessionVars, recoveryVars, accessVars, leadVars>>

Init ==
    /\ part \in Parts
    /\ C!Init /\ S!Init /\ R!Init /\ U!Init /\ L!Init

\* What the step of one part leaves alone.
Rest(moving) ==
    /\ UNCHANGED part
    /\ moving # "credentials" => UNCHANGED credentialVars
    /\ moving # "sessions" => UNCHANGED sessionVars
    /\ moving # "recovery" => UNCHANGED recoveryVars
    /\ moving # "access" => UNCHANGED accessVars
    /\ moving # "leads" => UNCHANGED leadVars

Next ==
    \/ part = "credentials" /\ C!Next /\ Rest("credentials")
    \/ part = "sessions" /\ S!Next /\ Rest("sessions")
    \/ part = "recovery" /\ R!Next /\ Rest("recovery")
    \/ part = "access" /\ U!Next /\ Rest("access")
    \/ part = "leads" /\ L!Next /\ Rest("leads")

Spec == Init /\ [][Next]_vars

-----------------------------------------------------------------------------

\* Every variable of every part has its type: no count of failed logins, for
\* one, reaches the limit (auth-credentials.service).
TypeOK == C!TypeOK /\ S!TypeOK /\ R!TypeOK /\ U!TypeOK /\ L!TypeOK

\* Failed logins are not counted too high: see Credentials.
CountedHaveFailed == C!CountedHaveFailed

\* A session ends with its logout: see Sessions.
LogoutEnds == S!LogoutEnds

\* No recovery codes stay open beside new ones: see PasswordRecovery.
FewRecoveryCodes == R!FewRecoveryCodes

\* A recovery code resets the password once: see PasswordRecovery.
ResetsOnce == R!ResetsOnce

\* A user has the pages of the latest request: see UserAccess.
PagesAsAsked == U!PagesAsAsked

\* A client is registered no more often than requests overlap: see Leads.
FewLeads == L!FewLeads

\* A lead that is won or lost stays so: see Leads.
OutcomeStays == L!OutcomeStays

=============================================================================
