------------------------------- MODULE Config -------------------------------
(***************************************************************************)
(* config/settings.py: what the policy file harness.yaml is turned into    *)
(* when cli.py wires up the services of a turn. The file is validated as   *)
(* to its shape only; names of tiers, policies and budgets are looked up,  *)
(* or not found, here.                                                     *)
(***************************************************************************)
EXTENDS Permissions

\* config/harness.yaml: the names of its budgets, and its risk matrix.
harness_yaml ==
  [budgets |-> {"default", "advisor_prep"},
   risk_matrix |-> [t \in RiskTier |-> IF t \in {"financial", "destructive"}
                                        THEN "require_approval" ELSE "auto_allow"]]

\* The matrix of a file that does not have one.
default_risk_matrix ==
  [t \in RiskTier |-> IF t \in {"read_only", "writes_internal"}
                        THEN "auto_allow" ELSE "require_approval"]

\* RiskTier(...) and Policy(...) raise ValueError for a name they do not know.
permission_matrix_raises(config) == config.risk_matrix \notin PermissionMatrix

permission_matrix(config) == config.risk_matrix

\* The default is looked up before it is known whether it is needed, so that
\* its absence is a KeyError for every name.
budget_for_raises(config) == "default" \notin config.budgets

\* The file, the default of the file and the default of the gate are written
\* down in three places.
ASSUME DefaultsAgree ==
  /\ permission_matrix(harness_yaml) = DEFAULT_MATRIX
  /\ default_risk_matrix = DEFAULT_MATRIX
=============================================================================
