----------------------------- MODULE MC_Process -----------------------------
(***************************************************************************)
(* Two processes of one session over one database, the routes of           *)
(* routes.yaml, a triage that names a flow or something else, and policy   *)
(* files with everything, without a default budget, and with a tier that   *)
(* does not exist.                                                         *)
(***************************************************************************)
EXTENDS Process

First == CHOOSE p \in Processes : TRUE

MC_Routes ==
  [name \in {"small_talk", "current_time", "advisor_prep"} |->
     CASE name = "small_talk"   -> [mode |-> "direct", target |-> "greeting"]
       [] name = "current_time" -> [mode |-> "tool_loop", target |-> "single_agent"]
       [] name = "advisor_prep" -> [mode |-> "flow", target |-> "orchestrator"]]

MC_Configs ==
  {harness_yaml, [harness_yaml EXCEPT !.budgets = {"advisor_prep"}],
   [harness_yaml EXCEPT !.risk_matrix = [t \in {"read-only"} |-> "auto_allow"]]}

With(tier, memory, config) ==
  [session_id |-> "cli-session", router_tier |-> tier, memory_on |-> memory, config |-> config]

\* The first process is run as cli.py runs it, beside one that differs.
MC_Settings ==
  {[p \in Processes |-> IF p = First THEN With(3, TRUE, harness_yaml) ELSE other] :
     other \in {With(1, FALSE, harness_yaml)} \cup
               {With(3, TRUE, config) : config \in MC_Configs \ {harness_yaml}}}
=============================================================================
