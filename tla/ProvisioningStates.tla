-------------------------- MODULE ProvisioningStates --------------------------
(***************************************************************************)
(* The states of a provisioning job and the table of their transitions     *)
(* (src/domain/provisioning/state-machine.ts).                             *)
(***************************************************************************)
EXTENDS Integers

CONSTANT MaxRetries \* MAX_AUTOMATIC_RETRIES

ASSUME ProvisioningAssumption == MaxRetries \in Nat \ {0}

ProvisioningState ==
    {"payment_pending", "paid", "provisioning", "provisioned_unverified",
     "risk_verified", "active", "provisioning_failed_retryable",
     "manual_review", "provisioning_failed_permanent"}

ProvisioningEdges ==
    [payment_pending |-> {"paid", "provisioning_failed_permanent"},
     paid |-> {"provisioning", "manual_review"},
     provisioning |-> {"provisioned_unverified",
                       "provisioning_failed_retryable", "manual_review"},
     provisioned_unverified |-> {"risk_verified",
                       "provisioning_failed_retryable", "manual_review"},
     risk_verified |-> {"active", "manual_review"},
     active |-> {"manual_review"},
     provisioning_failed_retryable |-> {"provisioning", "manual_review"},
     manual_review |-> {"provisioning", "risk_verified", "active",
                        "provisioning_failed_permanent"},
     provisioning_failed_permanent |-> {}]

CanProvision(from, to) == to \in ProvisioningEdges[from]

\* Faulty variant: one retry too many.
NextStateAfterFailureLate(attempts, retryable) ==
    IF retryable /\ attempts <= MaxRetries THEN "provisioning_failed_retryable"
    ELSE "manual_review"

\* nextStateAfterFailure: bounded retries, then a person.
NextStateAfterFailure(attempts, retryable) ==
    IF retryable /\ attempts < MaxRetries THEN "provisioning_failed_retryable"
    ELSE "manual_review"

\* requiresOperatorAttention, isTradeable.
NeedsOperator(state) ==
    state \in {"manual_review", "provisioning_failed_permanent"}
IsTradeable(state) == state = "active"

=============================================================================
