------------------------ MODULE MC_OrchestratorFlow ------------------------
(***************************************************************************)
(* The demo tools; gates that allow, ask, refuse and are absent; the       *)
(* ablation flags in every combination, with the gate of the CLI; an agent *)
(* that may ask for two searches at a time; and the documents of the       *)
(* retrieval server, with the terms of theirs that a search may ask for.   *)
(***************************************************************************)
EXTENDS Ablations, DemoTools, Config, Integers, Sequences

\* The gate of the CLI, a gate without a callback, one that has to ask for
\* everything, and one that forbids what is financial and asks for the rest.
CliGate == [matrix |-> permission_matrix(harness_yaml), on_approval_needed |-> "sync"]
StrictGate == [matrix |-> <<>>, on_approval_needed |-> "async"]
ClosedGate == [matrix |-> <<>>, on_approval_needed |-> "none"]
DenyGate == [matrix |-> [t \in {"financial"} |-> "deny"], on_approval_needed |-> "sync"]
MC_Gates == {CliGate, StrictGate, ClosedGate, DenyGate}

\* No flag makes a difference before the fan-out is over.
MC_Setups ==
  [approval_gate : {CliGate}, memory_on : BOOLEAN, critic_on : BOOLEAN,
   fact_extractor : BOOLEAN] \cup
  [approval_gate : MC_Gates \cup {NoGate}, memory_on : {TRUE}, critic_on : {TRUE},
   fact_extractor : {TRUE}]

MC_Terms == {"client", "annuity", "quarter", "annuities", "yields"}

MC_Corpus ==
  <<{"client", "annuity"}, {"client", "quarter"}, {"annuities"}, {"quarter", "yields"}>>

MC_Searches ==
  {<<<<>>, 5>>, <<<<"client", "quarter">>, 5>>} \cup
  ({<<"quarter", "annuity", "client">>, <<"yields", "yields", "annuities">>} \X {-1, 0, 2, 5})
=============================================================================
