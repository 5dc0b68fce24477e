---------------------------- MODULE FlowResults ----------------------------
(***************************************************************************)
(* How a turn ends: what AgentLoop.run_turn makes of a flow that returns   *)
(* or raises (core/loop.py), shared by the flows.                          *)
(***************************************************************************)

\* What can leave a flow. RuntimeError is a tool's error raised again;
\* Exception is anything else (a provider, the database, a callback), and
\* CancelledError what Ctrl-C raises at the await the turn is suspended in.
Exceptions == {"RepeatedFailureError", "BudgetExhaustedError", "PermissionDenied",
               "RuntimeError", "Exception", "CancelledError"}

StopReasons == {"success", "repeated_failure", "budget_exhausted",
                "permission_denied", "uncaught"}

\* "uncaught": no FlowResult comes about, the exception leaves run_turn.
StopReason(exception) ==
  CASE exception = "RepeatedFailureError" -> "repeated_failure"
    [] exception = "BudgetExhaustedError" -> "budget_exhausted"
    [] exception = "PermissionDenied"     -> "permission_denied"
    [] OTHER                              -> "uncaught"

\* A turn: how far the flow's coroutine is, and how it ended.
At(pc)     == [pc |-> pc, stop_reason |-> "none", exception |-> "none"]
Succeeded  == [pc |-> "ended", stop_reason |-> "success", exception |-> "none"]
RaisedBy(exception) ==
  [pc |-> "ended", stop_reason |-> StopReason(exception), exception |-> exception]

Turns(places) ==
  {At(pc) : pc \in places} \cup {Succeeded} \cup {RaisedBy(x) : x \in Exceptions}

\* What whoever awaits a turn can find afterwards: how it ended, and whether
\* memory holds facts of it. Remembering is the last thing a flow awaits.
Outcomes(memory_on) ==
  [stop_reason : StopReasons, facts : {FALSE}] \cup
  (IF memory_on THEN [stop_reason : {"success", "uncaught"}, facts : {TRUE}] ELSE {})
=============================================================================
