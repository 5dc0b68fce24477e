------------------------------- MODULE Router -------------------------------
(***************************************************************************)
(* routing/router.py: the decisions of TieredRouter. Tier 1 compares the   *)
(* request with the configured routes; what it is not sure of goes to a    *)
(* model (triage.py), unless the router-tier ablation forbids that, and    *)
(* back to the best guess if that model fails. Scores are abstracted to    *)
(* whether they reach the confidence threshold.                            *)
(***************************************************************************)
EXTENDS Naturals

CONSTANTS
  RoutesConfig,   \* routes.yaml: the mode and the target of each route
  TriageTargets,  \* what the triage may name as a target
  NoRoute         \* tier 1 matched no route

RouteMode == {"direct", "tool_loop", "flow"}

\* `sure`: the score has reached the confidence threshold.
RouteChoice ==
  [name : DOMAIN RoutesConfig, sure : BOOLEAN] \cup [name : {NoRoute}, sure : {FALSE}]

\* Fails toward a flow that nothing has routed the request to. (A name that
\* ends in _bug is a deliberately wrong variant of the definition after it.)
fallback_bug == [mode |-> "flow", target |-> "orchestrator", tier |-> 1]

fallback == [mode |-> "tool_loop", target |-> "single_agent", tier |-> 1]

\* The triage may combine any mode with any target.
TriageDecision == [mode : RouteMode, target : TriageTargets, tier : {2}]

\* Tier 1 decides alone. Below tier 2 it does so whatever its score.
Followed(choice, router_tier) ==
  choice.name # NoRoute /\ (choice.sure \/ router_tier < 2)

\* Forgets the ablation.
Escalated_bug(choice, router_tier) == ~ Followed(choice, router_tier)

\* The triage is there: cli.py always builds one.
Escalated(choice, router_tier) == ~ Followed(choice, router_tier) /\ router_tier >= 2

\* The tier-1 decision, also where the triage is ablated or fails.
BestGuess(choice) ==
  IF choice.name = NoRoute THEN fallback
  ELSE [mode |-> RoutesConfig[choice.name].mode,
        target |-> RoutesConfig[choice.name].target, tier |-> 1]
=============================================================================
