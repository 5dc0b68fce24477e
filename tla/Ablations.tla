------------------------------ MODULE Ablations ------------------------------
(***************************************************************************)
(* evals/ablations.py: what a run of the orchestrator calls under each     *)
(* combination of the ablation flags. _run_with_flags puts counters around *)
(* the flow's agents and its memory; here they are read off the awaits of  *)
(* the flow and of its retrieval worker.                                   *)
(***************************************************************************)
EXTENDS OrchestratorFlow

agent_calls == awaited["retrieving"] + awaited["synthesizing"] + awaited["reviewing"]

memory_recall_calls == awaited["recalling"]

memory_remember_calls == awaited["remembering"]

AblationResult ==
  [agent_calls |-> agent_calls, memory_recall_calls |-> memory_recall_calls,
   memory_remember_calls |-> memory_remember_calls]

\* What the flags make of a run that succeeds and has something to remember.
Expected ==
  LET memory == IF setup.memory_on THEN 1 ELSE 0
  IN  [agent_calls |-> IF setup.critic_on THEN 3 ELSE 2,
       memory_recall_calls |-> memory,
       memory_remember_calls |-> IF setup.fact_extractor THEN memory ELSE 0]

\* The deltas the sweep is there to measure: the critic is exactly one more
\* agent call, and memory is touched if and only if it is on. No turn calls
\* more than that, however it ends, which is all that bounds what the agents
\* of the orchestrator spend; only a turn that found no facts stores none. And
\* what is returned, or remembered, was reviewed if and only if the critic is on.
AblationsHold ==
  LET written == IF setup.critic_on THEN "critic" ELSE "synthesizer"
  IN  /\ \A field \in DOMAIN Expected : AblationResult[field] <= Expected[field]
      /\ turn.stop_reason = "success" =>
           /\ AblationResult \in {Expected, [Expected EXCEPT !.memory_remember_calls = 0]}
           /\ synthesis = written
      /\ remembered # "none" => memory_remember_calls = 1 /\ remembered = written
=============================================================================
