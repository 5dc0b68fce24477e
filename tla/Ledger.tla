------------------------------- MODULE Ledger -------------------------------
(***************************************************************************)
(* A BudgetTracker on its own, used in any way its two methods allow: a    *)
(* process may keep one tracker over several runs, and poll it from        *)
(* anywhere.                                                               *)
(***************************************************************************)
EXTENDS BudgetTracker

CONSTANTS
  Budgets,    \* the ceilings a tracker is made with
  Prices,     \* what a token may cost
  Tokens,     \* how many tokens a turn may report
  Calls,      \* how many tool calls a turn may report
  MaxReports  \* bound of the exploration: usage reports per tracker

ASSUME LedgerAssumption ==
  /\ Budgets \subseteq Budget
  /\ Prices \subseteq Nat /\ Tokens \subseteq Nat /\ Calls \subseteq Nat
  /\ MaxReports \in Nat

VARIABLES
  budget,   \* the ceilings of this tracker
  price,    \* the price of its model
  reported  \* observation: the token counts reported so far

ledgerVars == <<clock, status, budget, price, reported>>

LedgerInit ==
  /\ BudgetInit
  /\ budget \in Budgets
  /\ price \in Prices
  /\ reported = [turns |-> 0, tokens |-> 0]

RecordUsage ==
  /\ reported.turns < MaxReports
  /\ \E t \in Tokens, c \in Calls :
       /\ status' = record_usage(budget, price, status, t, c)
       /\ reported' = [turns |-> reported.turns + 1, tokens |-> reported.tokens + t]
  /\ UNCHANGED <<clock, budget, price>>

CheckWallClock ==
  /\ status' = check_wall_clock(budget, status)
  /\ UNCHANGED <<clock, budget, price, reported>>

Time == Tick /\ UNCHANGED <<status, budget, price, reported>>

LedgerNext == RecordUsage \/ CheckWallClock \/ Time

LedgerSpec == LedgerInit /\ [][LedgerNext]_ledgerVars

-----------------------------------------------------------------------------
(* Properties.                                                             *)

\* Every variable has its shape; the figures of the ledger are never negative.
LedgerTypeOK ==
  /\ BudgetTypeOK
  /\ budget \in Budgets /\ price \in Prices
  /\ reported \in [turns : 0 .. MaxReports, tokens : Nat]

Overdrawn(s) ==
  \/ Exceeds(s.elapsed_seconds, budget.max_wall_clock_seconds)
  \/ Exceeds(s.cost_usd, budget.max_cost_usd)

\* budgets.py, _check_exhaustion: a run is told that its budget is exhausted
\* exactly when one of the two ceilings the ledger watches has been passed by
\* what the ledger shows. No method may leave the ledger over a ceiling
\* without the verdict, and no verdict stands on a ledger within its ceilings.
ExhaustedIffOverdrawn == exhausted(status) <=> Overdrawn(status)

\* The ledger adds up, over all the runs the tracker has served: what was
\* reported to record_usage has been counted once, and charged at the price
\* of the model, whatever polls happened in between.
NothingIsLost ==
  /\ status.tokens_used = reported.tokens
  /\ status.cost_usd = price * reported.tokens
  /\ status.elapsed_seconds <= clock

\* "sticky - first exhaustion reason wins": a verdict is never withdrawn, and
\* never replaced by the other one when that ceiling is passed too.
FirstReasonWins ==
  [][exhausted(status) => status'.exhausted_reason = status.exhausted_reason]_status
=============================================================================
