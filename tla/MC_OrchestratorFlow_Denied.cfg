SPECIFICATION Spec
CONSTANTS
  Executions = {"account", "meeting"}
  ToolNames <- DemoSpecs
  Flows = {"single_agent", "orchestrator"}
  Specs <- DemoSpecs
  SpecName <- DemoName
  SpecTier <- DemoTier
  SpecFlows <- DemoFlows
  Gates <- MC_Gates
  NoSpec = NoSpec
  Setups <- MC_Setups
  RequestLimit = 2
  SearchCalls = {c1, c2}
  Terms <- MC_Terms
  Corpus <- MC_Corpus
  Searches <- MC_Searches
  NoGate = NoGate
INVARIANT
  DeniedWorkerIsSurvived
CHECK_DEADLOCK FALSE
