SPECIFICATION Spec
CONSTANTS
  Executions = {e1, e2}
  ToolNames <- DemoSpecs
  Flows = {"single_agent", "orchestrator"}
  Specs <- DemoSpecs
  SpecName <- DemoName
  SpecTier <- DemoTier
  SpecFlows <- DemoFlows
  Gates <- MC_Gates
  NoSpec = NoSpec
  Unlimited = Unlimited
  MaxClock = 2
  Setups <- MC_Setups
  Invocations <- MC_Invocations
  ErrorTexts = {"boom", "bust"}
  TurnTokens = {1, 2}
  RequestLimit = 3
  NoGate = NoGate
  NoCall = NoCall
INVARIANTS
  TypeOK
  SuccessWithinBudget
  ToolCallsWithinLimit
  StampedLedgerIsWhole
  OnlyCheckedTurnsAreRemembered
  RepeatedFailureIsARepeat
  ServicesGateDecides
PROPERTIES
  TurnEnds
  TurnSpec
CHECK_DEADLOCK FALSE
