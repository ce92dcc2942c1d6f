-------------------------- MODULE ContractStatuses --------------------------
(***************************************************************************)
(* The statuses of contracts and of signature rows, the transitions an     *)
(* operator may ask for, and the rule that derives the status of a         *)
(* contract from the statuses of its signature rows.                       *)
(***************************************************************************)

\* ContractStatus (contracts/enums/contract-status.enum.ts), by key.
ContractStatus ==
    {"DRAFT", "GENERATED", "PENDING_SIGNATURE", "SIGNED",
     "CLOSED_WITHOUT_SIGNATURE", "REJECTED", "EXPIRED", "CANCELED"}

\* SignatureStatus (signature/enums/signature-status.enum.ts).
SignatureStatus ==
    {"DRAFT", "PENDING", "SIGNED", "REJECTED", "CANCELLED", "EXPIRED",
     "UNKNOWN"}

\* The two rows an envelope has: signer 0 is the client, signer 1 the company.
Signers == {"CLIENT", "COMPANY"}

\* A contract may be created in one of these.
InitialStatuses == {"DRAFT", "GENERATED", "PENDING_SIGNATURE"}

\* A contract can be sent, or closed by hand, from these.
SendableStatuses == {"GENERATED", "PENDING_SIGNATURE"}

\* A contract in one of these is activated: customer, event and payments.
ActiveStatuses == {"SIGNED", "CLOSED_WITHOUT_SIGNATURE"}

\* CONTRACT_ALLOWED_TRANSITIONS of the update validator.
AllowedTransitions ==
    [s \in ContractStatus |->
        CASE s = "DRAFT" ->
                 {"GENERATED", "PENDING_SIGNATURE", "CANCELED", "EXPIRED"}
          [] s = "GENERATED" ->
                 {"PENDING_SIGNATURE", "SIGNED", "CLOSED_WITHOUT_SIGNATURE",
                  "REJECTED", "CANCELED", "EXPIRED", "DRAFT"}
          [] s = "PENDING_SIGNATURE" ->
                 {"SIGNED", "CLOSED_WITHOUT_SIGNATURE", "REJECTED",
                  "CANCELED", "EXPIRED", "GENERATED", "DRAFT"}
          [] s \in ActiveStatuses -> {"CANCELED"}
          [] s \in {"REJECTED", "EXPIRED"} -> {"GENERATED", "CANCELED"}
          [] s = "CANCELED" -> {}]

\* Mutant: one signed row is enough.
ResolveContractStatusSome(statuses) ==
    IF "SIGNED" \in statuses THEN "SIGNED" ELSE "PENDING_SIGNATURE"

\* resolveContractStatusFromSignatures: "every" and "some" depend only on the
\* set of statuses the rows have.
ResolveContractStatus(statuses) ==
    CASE statuses = {}             -> "PENDING_SIGNATURE"
      [] statuses = {"SIGNED"}     -> "SIGNED"
      [] "REJECTED" \in statuses   -> "REJECTED"
      [] "CANCELLED" \in statuses /\ "REJECTED" \notin statuses -> "CANCELED"
      [] "EXPIRED" \in statuses
         /\ statuses \cap {"REJECTED", "CANCELLED"} = {} -> "EXPIRED"
      [] OTHER -> "PENDING_SIGNATURE"

=============================================================================
