SPECIFICATION Spec
CONSTANTS
  Executions = {e1, e2}
  ToolNames <- MC_ToolNames
  Flows = {"single_agent"}
  Specs <- MC_Specs
  SpecName <- MC_SpecName
  SpecTier <- MC_SpecTier
  SpecFlows <- MC_SpecFlows
  Gates <- MC_Gates
  NoSpec = NoSpec
  Unlimited = Unlimited
  MaxClock = 4
  Budgets <- MC_Budgets
  Prices = {0, 1, 2}
  Tokens = {0, 1, 2}
  Calls = {0, 2}
  MaxReports = 3
  Keep = 2
  Wrap = 2
  Sizes = {1, 2, 3, 6}
  Limits = {0, 2, 5, 9}
  MaxMessages = 5
INVARIANTS
  RegistryTypeOK
  OnlyClearedHandlersRun
  ResultTellsWhatRan
  LedgerTypeOK
  ExhaustedIffOverdrawn
  NothingIsLost
  HistoryTypeOK
  RecentTurnsAreIntact
  CompactionIsExact
PROPERTIES
  MonitorSpec
  FirstReasonWins
