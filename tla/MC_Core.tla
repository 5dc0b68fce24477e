------------------------------ MODULE MC_Core ------------------------------
(***************************************************************************)
(* What the flows and the loop are built on: the tool registry, a budget's *)
(* ledger, and the compaction of a conversation. They have no state in     *)
(* common, so that one run explores all three, each on its own: `part` is  *)
(* chosen at the start and says which of them moves.                       *)
(***************************************************************************)
EXTENDS ToolRegistry, Ledger, Compaction

VARIABLE part

-----------------------------------------------------------------------------
(* The registry: two executions over two names, one of which is registered *)
(* again with other tiers while calls of it are under way; one gate of     *)
(* every kind.                                                             *)

MC_ToolNames == {"lookup", "export"}
MC_Specs == {"lookup_r", "lookup_f", "export_d"}
MC_SpecName == [s \in MC_Specs |-> IF s = "export_d" THEN "export" ELSE "lookup"]
MC_SpecTier ==
  [s \in MC_Specs |-> CASE s = "lookup_r" -> "read_only"
                        [] s = "lookup_f" -> "financial"
                        [] s = "export_d" -> "destructive"]
MC_SpecFlows == [s \in MC_Specs |-> {}]

\* The library default with and without a callback, a matrix that forbids a
\* tier, and one that leaves every tier to the fallback.
MC_Gates ==
  {DefaultGate,
   [matrix |-> DEFAULT_MATRIX, on_approval_needed |-> "async"],
   [matrix |-> [t \in {"financial", "destructive"} |-> "deny"],
    on_approval_needed |-> "async"],
   [matrix |-> <<>>, on_approval_needed |-> "sync"]}

-----------------------------------------------------------------------------
(* The ledger: ceilings of every kind (set, unset, zero) within reach of   *)
(* three usage reports and four seconds.                                   *)

Ceilings(wall, cost) ==
  [max_total_tokens |-> Unlimited, max_tool_calls |-> Unlimited,
   max_wall_clock_seconds |-> wall, max_cost_usd |-> cost]

MC_Budgets ==
  {Ceilings(wall, cost) : wall \in {0, 2, Unlimited}, cost \in {0, 3, Unlimited}}

-----------------------------------------------------------------------------
(* Conversations of five messages. Half of the sizes are above Keep, one of *)
(* them less than the cut makes of it.                                      *)

\* What does not move stays in one of its initial states.
Init ==
  /\ EmptyRegistry /\ LedgerInit /\ HistoryInit
  /\ part \in {"registry", "ledger", "history"}
  /\ part # "ledger" => budget = Ceilings(0, 0) /\ price = 0
  /\ part # "history" => limit = NoLimit

Next ==
  \/ part = "registry" /\ RegistryNext /\ UNCHANGED <<ledgerVars, historyVars, part>>
  \/ part = "ledger" /\ LedgerNext /\ UNCHANGED <<registryVars, historyVars, part>>
  \/ part = "history" /\ HistoryNext /\ UNCHANGED <<registryVars, ledgerVars, part>>

Spec == Init /\ [][Next]_<<registryVars, ledgerVars, historyVars, part>>
=============================================================================
