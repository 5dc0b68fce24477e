SPECIFICATION Spec
CONSTANTS
  Processes = {p1, p2}
  Sessions = {"cli-session"}
  Settings <- MC_Settings
  Configs <- MC_Configs
  Flows = {"single_agent", "orchestrator"}
  RoutesConfig <- MC_Routes
  TriageTargets = {"orchestrator", "other"}
  NoRoute = NoRoute
  NoChoice = NoChoice
INVARIANTS
  TypeOK
  LedgerIsTruthful
  FactsMatchTheRecord
  EscalationIsCapped
  RoutesAreServed
  MemoryPoolIsClosed
  UnreachableIsSurvived
PROPERTY
  ProcessEnds
CHECK_DEADLOCK FALSE
