---------------------------- MODULE LedgerProofs ----------------------------
(***************************************************************************)
(* Proofs about Ledger, for any ceilings, prices and reports. Everything   *)
(* rests on what one check does to a status (CheckIsExact): it gives a     *)
(* status that was fine its verdict, and leaves one with a verdict alone.  *)
(* A ledger only grows, so that a verdict once given stays deserved.       *)
(***************************************************************************)
EXTENDS Ledger, TLAPS

LedgerInv == LedgerTypeOK /\ ExhaustedIffOverdrawn /\ NothingIsLost

-----------------------------------------------------------------------------
(* Lemmas about the operators.                                             *)

\* What is over a ceiling stays over it as it grows.
LEMMA ExceedsGrows ==
  ASSUME NEW x \in Nat, NEW y \in Nat, x <= y, NEW c \in Ceiling, Exceeds(x, c)
  PROVE  Exceeds(y, c)
  BY DEF Exceeds, Ceiling

\* The ceilings of every budget a tracker is made with are ceilings.
LEMMA BudgetsHaveCeilings ==
  ASSUME LedgerTypeOK
  PROVE  budget.max_wall_clock_seconds \in Ceiling /\ budget.max_cost_usd \in Ceiling
  BY LedgerAssumption DEF LedgerTypeOK, Budget

\* The check keeps every figure and an earlier verdict, and otherwise gives
\* the verdict that the figures call for.
LEMMA CheckIsExact ==
  ASSUME NEW s \in BudgetStatus, exhausted(s) => Overdrawn(s)
  PROVE  LET t == check_exhaustion(budget, s)
         IN  /\ t \in BudgetStatus
             /\ t.tokens_used = s.tokens_used /\ t.tool_calls_used = s.tool_calls_used
             /\ t.elapsed_seconds = s.elapsed_seconds /\ t.cost_usd = s.cost_usd
             /\ exhausted(t) <=> Overdrawn(t)
             /\ exhausted(s) => t.exhausted_reason = s.exhausted_reason
<1> DEFINE t == check_exhaustion(budget, s)
<1>1. /\ t \in BudgetStatus
      /\ t.tokens_used = s.tokens_used /\ t.tool_calls_used = s.tool_calls_used
      /\ t.elapsed_seconds = s.elapsed_seconds /\ t.cost_usd = s.cost_usd
      /\ exhausted(s) => t.exhausted_reason = s.exhausted_reason
  BY DEF check_exhaustion, BudgetStatus, exhausted
<1>2. Overdrawn(t) <=> Overdrawn(s)
  BY <1>1 DEF Overdrawn
<1>3. exhausted(t) <=> Overdrawn(s)
  BY DEF check_exhaustion, BudgetStatus, exhausted, Overdrawn
<1>4. QED
  BY <1>1, <1>2, <1>3

\* A status that has grown out of the present one deserves the same verdict.
LEMMA VerdictStaysDeserved ==
  ASSUME LedgerInv, NEW s \in BudgetStatus,
         s.exhausted_reason = status.exhausted_reason,
         status.elapsed_seconds <= s.elapsed_seconds, status.cost_usd <= s.cost_usd
  PROVE  exhausted(s) => Overdrawn(s)
<1> SUFFICES ASSUME exhausted(s) PROVE Overdrawn(s)
  OBVIOUS
<1>1. Overdrawn(status)
  BY DEF LedgerInv, ExhaustedIffOverdrawn, exhausted
<1>2. status \in BudgetStatus
  BY DEF LedgerInv, LedgerTypeOK, BudgetTypeOK
<1>3. QED
  BY <1>1, <1>2, ExceedsGrows, BudgetsHaveCeilings DEF Overdrawn, LedgerInv, BudgetStatus

-----------------------------------------------------------------------------
(* The invariant.                                                          *)

\* A new tracker satisfies the invariant.
LEMMA InitEstablishes == LedgerInit => LedgerInv
<1> SUFFICES ASSUME LedgerInit PROVE LedgerInv
  OBVIOUS
<1>1. LedgerTypeOK
  BY LedgerAssumption, BudgetAssumption
     DEF LedgerInit, BudgetInit, LedgerTypeOK, BudgetTypeOK, BudgetStatus
<1>2. ~ Overdrawn(status) /\ ~ exhausted(status)
  BY <1>1, BudgetsHaveCeilings
     DEF LedgerInit, BudgetInit, Overdrawn, Exceeds, exhausted, Ceiling
<1>3. NothingIsLost
  <2>1. price \in Nat
    BY <1>1, LedgerAssumption DEF LedgerTypeOK
  <2>2. QED
    BY <2>1 DEF LedgerInit, BudgetInit, NothingIsLost
<1>4. QED
  BY <1>1, <1>2, <1>3 DEF LedgerInv, ExhaustedIffOverdrawn

\* What record_usage hands to the check.
Grown(t, c) ==
  [refresh_wall_clock(status) EXCEPT !.tokens_used = @ + t, !.tool_calls_used = c,
                                     !.cost_usd = @ + t * price]

\* Before it is checked, a report leaves a ledger that adds up and has only grown.
LEMMA GrownIsFine ==
  ASSUME LedgerInv, NEW t \in Tokens, NEW c \in Calls
  PROVE  /\ Grown(t, c) \in BudgetStatus
         /\ Grown(t, c).exhausted_reason = status.exhausted_reason
         /\ Grown(t, c).tokens_used = status.tokens_used + t
         /\ Grown(t, c).cost_usd = status.cost_usd + t * price
         /\ Grown(t, c).elapsed_seconds = clock
         /\ status.elapsed_seconds <= clock
         /\ status.cost_usd <= Grown(t, c).cost_usd
<1>1. /\ status \in BudgetStatus /\ clock \in Nat /\ price \in Nat /\ t \in Nat /\ c \in Nat
      /\ status.elapsed_seconds <= clock
  BY LedgerAssumption DEF LedgerInv, LedgerTypeOK, BudgetTypeOK, NothingIsLost
<1>2. \A m, n \in Nat : m * n \in Nat
  OBVIOUS
<1>3. t * price \in Nat
  BY <1>1, <1>2
<1> DEFINE charge == t * price
<1>4. Grown(t, c) = [tokens_used |-> status.tokens_used + t, tool_calls_used |-> c,
                     elapsed_seconds |-> clock, cost_usd |-> status.cost_usd + charge,
                     exhausted_reason |-> status.exhausted_reason]
  <2> HIDE DEF charge
  <2>1. Grown(t, c) = [refresh_wall_clock(status) EXCEPT
                         !.tokens_used = @ + t, !.tool_calls_used = c, !.cost_usd = @ + charge]
    BY DEF Grown, charge
  <2>2. QED
    BY <1>1, <2>1 DEF refresh_wall_clock, BudgetStatus
<1>5. charge \in Nat
  BY <1>3
<1> HIDE DEF charge
<1>6. /\ Grown(t, c) \in BudgetStatus
      /\ Grown(t, c).exhausted_reason = status.exhausted_reason
      /\ Grown(t, c).tokens_used = status.tokens_used + t
      /\ Grown(t, c).cost_usd = status.cost_usd + charge
      /\ Grown(t, c).elapsed_seconds = clock
      /\ status.cost_usd <= Grown(t, c).cost_usd
  BY <1>1, <1>4, <1>5 DEF BudgetStatus
<1>7. QED
  BY <1>1, <1>6 DEF charge

\* So does a poll, which changes nothing but the elapsed time.
LEMMA RefreshedIsFine ==
  ASSUME LedgerInv
  PROVE  LET s == refresh_wall_clock(status)
         IN  /\ s \in BudgetStatus
             /\ s.exhausted_reason = status.exhausted_reason
             /\ s.tokens_used = status.tokens_used /\ s.cost_usd = status.cost_usd
             /\ s.elapsed_seconds = clock /\ status.elapsed_seconds <= clock
  BY DEF LedgerInv, LedgerTypeOK, BudgetTypeOK, NothingIsLost, refresh_wall_clock, BudgetStatus

\* A check of a status that has grown out of the present one keeps the
\* verdict's part of the invariant, and the verdict.
LEMMA CheckedIsFine ==
  ASSUME LedgerInv, NEW s \in BudgetStatus,
         s.exhausted_reason = status.exhausted_reason,
         status.elapsed_seconds <= s.elapsed_seconds, status.cost_usd <= s.cost_usd,
         status' = check_exhaustion(budget, s), UNCHANGED <<budget, price>>
  PROVE  /\ status' \in BudgetStatus /\ ExhaustedIffOverdrawn'
         /\ status'.tokens_used = s.tokens_used /\ status'.cost_usd = s.cost_usd
         /\ status'.elapsed_seconds = s.elapsed_seconds
         /\ exhausted(status) => status'.exhausted_reason = status.exhausted_reason
<1>1. exhausted(s) => Overdrawn(s)
  BY VerdictStaysDeserved
<1>2. exhausted(status) => exhausted(s)
  BY DEF exhausted
<1>3. exhausted(check_exhaustion(budget, s)) <=> Overdrawn(check_exhaustion(budget, s))
  BY <1>1, CheckIsExact
<1>4. ExhaustedIffOverdrawn'
  BY <1>3 DEF ExhaustedIffOverdrawn, Overdrawn, exhausted
<1>5. QED
  BY <1>1, <1>2, <1>4, CheckIsExact

\* Every step preserves the invariant, and a verdict once given.
LEMMA NextPreserves ==
  LedgerInv /\ [LedgerNext]_ledgerVars =>
    LedgerInv' /\ (exhausted(status) => status'.exhausted_reason = status.exhausted_reason)
<1> SUFFICES ASSUME LedgerInv, [LedgerNext]_ledgerVars
    PROVE  /\ LedgerInv'
           /\ exhausted(status) => status'.exhausted_reason = status.exhausted_reason
  OBVIOUS
<1> USE DEF LedgerInv
<1>0. /\ clock \in Nat /\ status \in BudgetStatus /\ budget \in Budgets
      /\ price \in Prices /\ price \in Nat
      /\ reported \in [turns : 0 .. MaxReports, tokens : Nat]
  BY LedgerAssumption DEF LedgerTypeOK, BudgetTypeOK
<1>1. CASE RecordUsage
  <2>1. PICK t \in Tokens, c \in Calls :
          /\ status' = check_exhaustion(budget, Grown(t, c))
          /\ reported' = [turns |-> reported.turns + 1, tokens |-> reported.tokens + t]
    BY <1>1 DEF RecordUsage, record_usage, Grown
  <2>2. UNCHANGED <<clock, budget, price>> /\ reported.turns < MaxReports
    BY <1>1 DEF RecordUsage
  <2>3. t \in Nat /\ MaxReports \in Nat
    BY LedgerAssumption
  <2>4. /\ status' \in BudgetStatus /\ ExhaustedIffOverdrawn'
        /\ status'.tokens_used = status.tokens_used + t
        /\ status'.cost_usd = status.cost_usd + t * price
        /\ status'.elapsed_seconds = clock
        /\ exhausted(status) => status'.exhausted_reason = status.exhausted_reason
    BY <2>1, <2>2, GrownIsFine, CheckedIsFine
  <2>5. LedgerTypeOK'
    BY <1>0, <2>1, <2>2, <2>3, <2>4 DEF LedgerTypeOK, BudgetTypeOK
  <2>6. status.cost_usd + t * price = price * (reported.tokens + t)
    BY <1>0, <2>3 DEF NothingIsLost
  <2>7. NothingIsLost'
    BY <1>0, <2>1, <2>2, <2>4, <2>6 DEF NothingIsLost
  <2>8. QED
    BY <2>4, <2>5, <2>7
<1>2. CASE CheckWallClock
  <2>1. status' = check_exhaustion(budget, refresh_wall_clock(status))
    BY <1>2 DEF CheckWallClock, check_wall_clock
  <2>2. UNCHANGED <<clock, budget, price, reported>>
    BY <1>2 DEF CheckWallClock
  <2>3. /\ status' \in BudgetStatus /\ ExhaustedIffOverdrawn'
        /\ status'.tokens_used = status.tokens_used
        /\ status'.cost_usd = status.cost_usd
        /\ status'.elapsed_seconds = clock
        /\ exhausted(status) => status'.exhausted_reason = status.exhausted_reason
    <3> DEFINE s == refresh_wall_clock(status)
    <3>1. /\ s \in BudgetStatus
          /\ s.exhausted_reason = status.exhausted_reason
          /\ s.tokens_used = status.tokens_used /\ s.cost_usd = status.cost_usd
          /\ s.elapsed_seconds = clock /\ status.elapsed_seconds <= clock
      BY RefreshedIsFine
    <3>2. status.cost_usd <= s.cost_usd
      BY <1>0, <3>1 DEF BudgetStatus
    <3>3. status' = check_exhaustion(budget, s)
      BY <2>1
    <3> HIDE DEF s
    <3>4. QED
      BY <2>2, <3>1, <3>2, <3>3, CheckedIsFine
  <2>4. LedgerTypeOK'
    BY <1>0, <2>2, <2>3 DEF LedgerTypeOK, BudgetTypeOK
  <2>5. NothingIsLost'
    BY <1>0, <2>2, <2>3 DEF NothingIsLost
  <2>6. QED
    BY <2>3, <2>4, <2>5
<1>3. CASE Time
  BY <1>0, <1>3 DEF Time, Tick, LedgerTypeOK, BudgetTypeOK, ExhaustedIffOverdrawn, Overdrawn,
                    NothingIsLost, BudgetStatus
<1>4. CASE UNCHANGED ledgerVars
  BY <1>4 DEF ledgerVars, LedgerTypeOK, BudgetTypeOK, ExhaustedIffOverdrawn, Overdrawn,
              NothingIsLost
<1>5. QED
  BY <1>1, <1>2, <1>3, <1>4 DEF LedgerNext

-----------------------------------------------------------------------------
(* Theorems.                                                               *)

\* The inductive invariant of the ledger holds throughout.
THEOREM Invariance == LedgerSpec => []LedgerInv
  BY InitEstablishes, NextPreserves, PTL DEF LedgerSpec

\* BudgetTracker keeps its types, for any ceilings and reports.
THEOREM TypeCorrect == LedgerSpec => []LedgerTypeOK
  BY Invariance, PTL DEF LedgerInv

\* _check_exhaustion: the verdict is there exactly when it is deserved.
THEOREM VerdictIsExact == LedgerSpec => []ExhaustedIffOverdrawn
  BY Invariance, PTL DEF LedgerInv

\* record_usage: the ledger adds up, whatever is polled in between.
THEOREM LedgerAddsUp == LedgerSpec => []NothingIsLost
  BY Invariance, PTL DEF LedgerInv

\* The first reason of exhaustion is kept for good.
THEOREM ReasonIsSticky == LedgerSpec => FirstReasonWins
<1>1. LedgerInv /\ [LedgerNext]_ledgerVars =>
        [exhausted(status) => status'.exhausted_reason = status.exhausted_reason]_status
  BY NextPreserves
<1>2. QED
  BY <1>1, Invariance, PTL DEF LedgerSpec, FirstReasonWins
=============================================================================
