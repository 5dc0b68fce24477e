--------------------------- MODULE BudgetTracker ---------------------------
(***************************************************************************)
(* core/budgets.py: the ledger a run keeps of what it has spent, and the   *)
(* two places where the ledger is held against the ceiling: record_usage   *)
(* and the poll check_wall_clock. Tokens and tool calls are enforced by    *)
(* the agent, under the limits usage_limits() hands it; for those two the  *)
(* ledger only reports.                                                    *)
(*                                                                         *)
(* Money and time are integers, and a token costs `price`, which is 0 for  *)
(* a model that has no entry in the price list.                            *)
(***************************************************************************)
EXTENDS Integers

CONSTANTS
  Unlimited,  \* None, for a ceiling that is not set
  MaxClock    \* bound of the exploration: the clock stops here

ASSUME BudgetAssumption == Unlimited \notin Nat /\ MaxClock \in Nat

VARIABLES
  clock,  \* time.monotonic() - _start
  status  \* the BudgetStatus

budgetVars == <<clock, status>>

Ceiling == Nat \cup {Unlimited}

Budget == [max_total_tokens : Ceiling, max_tool_calls : Ceiling,
           max_wall_clock_seconds : Ceiling, max_cost_usd : Ceiling]

BudgetStatus ==
  [tokens_used : Nat, tool_calls_used : Nat, elapsed_seconds : Nat, cost_usd : Nat,
   exhausted_reason : {"none", "wall_clock_exceeded", "cost_exceeded"}]

BudgetInit ==
  /\ clock = 0
  /\ status = [tokens_used |-> 0, tool_calls_used |-> 0, elapsed_seconds |-> 0,
               cost_usd |-> 0, exhausted_reason |-> "none"]

BudgetTypeOK == clock \in Nat /\ status \in BudgetStatus

-----------------------------------------------------------------------------
(* The ledger. A name that ends in _bug is a deliberately wrong variant of *)
(* the definition after it.                                                *)

Exceeds(x, ceiling) == ceiling # Unlimited /\ x > ceiling

exhausted(s) == s.exhausted_reason # "none"

\* Not sticky: the reason is worked out anew at every check.
check_exhaustion_bug(b, s) ==
  [s EXCEPT !.exhausted_reason =
     IF Exceeds(s.cost_usd, b.max_cost_usd) THEN "cost_exceeded"
     ELSE IF Exceeds(s.elapsed_seconds, b.max_wall_clock_seconds)
       THEN "wall_clock_exceeded" ELSE "none"]

\* The cost is left to the agent's own limits.
check_exhaustion_cost_bug(b, s) ==
  [s EXCEPT !.exhausted_reason =
     IF exhausted(s) THEN @
     ELSE IF Exceeds(s.elapsed_seconds, b.max_wall_clock_seconds)
       THEN "wall_clock_exceeded" ELSE "none"]

check_exhaustion(b, s) ==
  [s EXCEPT !.exhausted_reason =
     IF exhausted(s) THEN @
     ELSE IF Exceeds(s.elapsed_seconds, b.max_wall_clock_seconds)
       THEN "wall_clock_exceeded"
     ELSE IF Exceeds(s.cost_usd, b.max_cost_usd) THEN "cost_exceeded"
     ELSE "none"]

\* The ceilings the agent enforces for the run, while it runs.
usage_limits_bug(b) ==
  [total_tokens_limit |-> b.max_total_tokens, tool_calls_limit |-> Unlimited]

usage_limits(b) ==
  [total_tokens_limit |-> b.max_total_tokens, tool_calls_limit |-> b.max_tool_calls]

\* The difference the wrong way round.
refresh_wall_clock_bug(s) == [s EXCEPT !.elapsed_seconds = 0 - clock]

refresh_wall_clock(s) == [s EXCEPT !.elapsed_seconds = clock]

\* Leaves the check to the next poll of the clock.
record_usage_bug(b, price, s, tokens, calls) ==
  [refresh_wall_clock(s) EXCEPT !.tokens_used = @ + tokens,
                                !.tool_calls_used = calls,
                                !.cost_usd = @ + tokens * price]

\* The turn's tokens in place of the sum.
record_usage_sum_bug(b, price, s, tokens, calls) ==
  check_exhaustion(b, [refresh_wall_clock(s) EXCEPT !.tokens_used = tokens,
                                                    !.tool_calls_used = calls,
                                                    !.cost_usd = @ + tokens * price])

record_usage(b, price, s, tokens, calls) ==
  check_exhaustion(b, [refresh_wall_clock(s) EXCEPT !.tokens_used = @ + tokens,
                                                    !.tool_calls_used = calls,
                                                    !.cost_usd = @ + tokens * price])

\* The status check_wall_clock leaves behind; it returns whether that is exhausted.
check_wall_clock(b, s) == check_exhaustion(b, refresh_wall_clock(s))

Tick == clock < MaxClock /\ clock' = clock + 1
=============================================================================
