---------------------------- MODULE Permissions ----------------------------
(***************************************************************************)
(* core/permissions.py: the risk tiers, the permission matrix and the part *)
(* of ApprovalGate.check that is decided before anybody has to be asked.   *)
(* A matrix is a partial map, as the dict it stands for: a tier it does    *)
(* not mention falls back to require_approval.                             *)
(***************************************************************************)

RiskTier == {"read_only", "writes_internal", "financial", "destructive"}

Policy == {"auto_allow", "require_approval", "deny"}

DEFAULT_MATRIX ==
  [t \in RiskTier |-> IF t \in {"read_only", "writes_internal"}
                        THEN "auto_allow" ELSE "require_approval"]

PermissionMatrix == UNION {[T -> Policy] : T \in SUBSET RiskTier}

policy_for(matrix, tier) ==
  IF tier \in DOMAIN matrix THEN matrix[tier] ELSE "require_approval"

\* on_approval_needed: absent, a plain function, or a coroutine function.
ApprovalGate ==
  [matrix : PermissionMatrix, on_approval_needed : {"none", "sync", "async"}]

\* PermissionGrants(): the gate a run gets when its services carry none.
DefaultGate == [matrix |-> DEFAULT_MATRIX, on_approval_needed |-> "none"]

-----------------------------------------------------------------------------
(* The three ways check(call, tier) can go without waiting.                *)

Admits(gate, tier) == policy_for(gate.matrix, tier) = "auto_allow"

Refuses(gate, tier) ==
  \/ policy_for(gate.matrix, tier) = "deny"
  \/ /\ policy_for(gate.matrix, tier) = "require_approval"
     /\ gate.on_approval_needed = "none"

Asks(gate, tier) ==
  /\ policy_for(gate.matrix, tier) = "require_approval"
  /\ gate.on_approval_needed # "none"
=============================================================================
