------------------------- MODULE MC_SingleAgentFlow -------------------------
(***************************************************************************)
(* The demo tools, a model that asks for up to two calls at a time, and    *)
(* one setup for every combination that takes the turn another way.        *)
(***************************************************************************)
EXTENDS SingleAgentFlow, DemoTools, Config

MC_Invocations == {<<"echo", "hi">>, <<"get_current_time", "">>}

\* The gate of the CLI (its callback answers at once), one whose callback is
\* awaited, and a matrix that wants approval for read_only tools.
CliGate == [matrix |-> permission_matrix(harness_yaml), on_approval_needed |-> "sync"]
StrictGate == [matrix |-> <<>>, on_approval_needed |-> "async"]
ClosedGate == [matrix |-> <<>>, on_approval_needed |-> "none"]
MC_Gates == {CliGate, StrictGate, ClosedGate}

Ceilings(tokens, calls, wall, cost) ==
  [max_total_tokens |-> tokens, max_tool_calls |-> calls,
   max_wall_clock_seconds |-> wall, max_cost_usd |-> cost]

With(gate, memory, extractor, ceilings, price) ==
  [approval_gate |-> gate, memory_on |-> memory, fact_extractor |-> extractor,
   budget |-> ceilings, price |-> price]

MC_Setups ==
  {With(CliGate, TRUE, TRUE, Ceilings(5, 3, 1, 4), 1),
   With(StrictGate, TRUE, FALSE, Ceilings(4, 2, Unlimited, Unlimited), 0),
   With(StrictGate, FALSE, TRUE, Ceilings(Unlimited, 3, 1, 2), 1),
   With(ClosedGate, FALSE, FALSE, Ceilings(Unlimited, Unlimited, 0, Unlimited), 1),
   With(NoGate, TRUE, FALSE, Ceilings(3, Unlimited, Unlimited, 3), 2)}
=============================================================================
