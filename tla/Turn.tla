-------------------------------- MODULE Turn --------------------------------
(***************************************************************************)
(* flows/base.py's Flow, under AgentLoop.run_turn, as it looks to whoever  *)
(* awaits the turn: it ends at most once and for good. Facts of it can be  *)
(* in memory by then, or be stored later, as memory/extraction.py has it,  *)
(* if the turn was a success. A turn that run_turn converts into a         *)
(* failure, and one with memory ablated, never leaves any.                 *)
(***************************************************************************)
EXTENDS FlowResults

VARIABLES memory_on, stop_reason, facts

vars == <<memory_on, stop_reason, facts>>

Init == memory_on \in BOOLEAN /\ stop_reason = "none" /\ facts = FALSE

End ==
  /\ stop_reason = "none"
  /\ [stop_reason |-> stop_reason', facts |-> facts'] \in Outcomes(memory_on)
  /\ UNCHANGED memory_on

\* The facts that were extracted after the turn are remembered.
Later ==
  /\ stop_reason = "success" /\ memory_on /\ facts' = TRUE
  /\ UNCHANGED <<memory_on, stop_reason>>

Spec == Init /\ [][End \/ Later]_vars
=============================================================================
