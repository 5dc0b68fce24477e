------------------------- MODULE ToolRegistryProofs -------------------------
(***************************************************************************)
(* Proofs about ToolRegistry, for any number of executions, names, specs   *)
(* and gates. What an execution may look like at each await is captured by *)
(* ExecutionInv; it is inductive, implies the safety properties, and makes *)
(* every step of the registry a step of the reference monitor.             *)
(***************************************************************************)
EXTENDS ToolRegistry, Naturals, TLAPS

\* The frame of an execution, as its next resumption relies on it: it holds
\* a spec whenever it is suspended, waits for an approval only where the
\* gate asks for one, and has run nothing but that spec, once cleared.
FrameOK(x) ==
  /\ x.pc \in {"idle", "approval"} => x = Idle \/ x = Waiting(x.spec, x.gate)
  /\ x.pc = "approval" => x.spec # NoSpec /\ Asks(x.gate, SpecTier[x.spec])
  /\ x.pc = "handler" => x.ran # NoSpec
  /\ x.ran # NoSpec =>
       /\ x.ran = x.spec
       /\ \/ Admits(x.gate, SpecTier[x.ran])
          \/ /\ Asks(x.gate, SpecTier[x.ran])
             /\ x.approved = SpecTier[x.ran]
  /\ x.pc = "done" =>
       /\ x.result \in {"ok", "failed"} => x.ran # NoSpec
       /\ x.result \in {"unknown", "denied", "raised"} => x.ran = NoSpec

ExecutionInv == \A e \in Executions : FrameOK(exec[e])

RegistryInv == RegistryTypeOK /\ ExecutionInv

-----------------------------------------------------------------------------
(* Lemmas about the decision procedure and the frames.                     *)

\* Whatever the matrix and the tier, check() takes exactly one of its ways.
LEMMA CheckIsTotal ==
  ASSUME NEW g \in ApprovalGate, NEW t \in RiskTier
  PROVE  /\ Admits(g, t) \/ Refuses(g, t) \/ Asks(g, t)
         /\ ~ (Admits(g, t) /\ Refuses(g, t))
         /\ ~ (Admits(g, t) /\ Asks(g, t))
         /\ ~ (Refuses(g, t) /\ Asks(g, t))
<1>1. policy_for(g.matrix, t) \in Policy
  BY DEF ApprovalGate, PermissionMatrix, policy_for, Policy
<1>2. QED
  BY <1>1 DEF Admits, Refuses, Asks, Policy, ApprovalGate

\* The gates of the runs, and the one that stands in for none, are gates.
LEMMA GatesAreGates == Gates \cup {DefaultGate} \subseteq ApprovalGate
<1>1. DEFAULT_MATRIX \in [RiskTier -> Policy]
  BY DEF DEFAULT_MATRIX, Policy
<1>2. DEFAULT_MATRIX \in PermissionMatrix
  BY <1>1 DEF PermissionMatrix
<1>3. QED
  BY <1>2, RegistryAssumption DEF DefaultGate, ApprovalGate

\* The frames execute() builds for a registered spec have their type and are
\* sound: the handler frame provided the gate cleared the spec's tier.
LEMMA FramesAreSound ==
  ASSUME NEW s \in Specs, NEW g \in Gates \cup {DefaultGate}
  PROVE  /\ Admits(g, SpecTier[s]) =>
              Started(s, g, "none") \in Execution /\ FrameOK(Started(s, g, "none"))
         /\ Asks(g, SpecTier[s]) =>
              /\ Started(s, g, SpecTier[s]) \in Execution
              /\ FrameOK(Started(s, g, SpecTier[s]))
              /\ Waiting(s, g) \in Execution
              /\ FrameOK(Waiting(s, g))
         /\ \A why \in {"denied", "raised"} :
              Stopped(s, g, why) \in Execution /\ FrameOK(Stopped(s, g, why))
<1>1. s # NoSpec /\ SpecTier[s] \in RiskTier
  BY RegistryAssumption
<1>2. QED
  BY <1>1 DEF Started, Waiting, Stopped, Idle, Execution, FrameOK, RiskTier

\* A free slot is a sound frame.
LEMMA IdleIsSound == Idle \in Execution /\ FrameOK(Idle)
  BY DEF Idle, Execution, FrameOK

\* So is the frame of a call whose tool is not registered.
LEMMA UnknownIsSound ==
  ASSUME NEW g \in Gates \cup {DefaultGate}
  PROVE  Stopped(NoSpec, g, "unknown") \in Execution
         /\ FrameOK(Stopped(NoSpec, g, "unknown"))
  BY DEF Stopped, Idle, Execution, FrameOK

\* Replacing one frame by a sound one preserves the invariant.
LEMMA BecomesIsSound ==
  ASSUME RegistryInv, UNCHANGED tools,
         NEW e \in Executions, NEW x \in Execution, FrameOK(x), Becomes(e, x)
  PROVE  RegistryInv'
  BY DEF RegistryInv, RegistryTypeOK, ExecutionInv, Becomes

\* Whatever the callback answers, the frame it resumes is sound.
LEMMA AnsweredIsSound ==
  ASSUME RegistryInv, UNCHANGED tools, NEW e \in Executions, NEW s \in Specs,
         NEW g \in Gates \cup {DefaultGate}, Asks(g, SpecTier[s]), Answered(e, s, g)
  PROVE  RegistryInv'
<1>1. CASE Becomes(e, Started(s, g, SpecTier[s]))
  BY <1>1, FramesAreSound, BecomesIsSound
<1>2. CASE Becomes(e, Stopped(s, g, "denied"))
  BY <1>2, FramesAreSound, BecomesIsSound
<1>3. CASE Becomes(e, Stopped(s, g, "raised"))
  BY <1>3, FramesAreSound, BecomesIsSound
<1>4. QED
  BY <1>1, <1>2, <1>3 DEF Answered

\* A call, with a gate of a run or the one for none, leaves the registry sound.
LEMMA ExecuteIsSound ==
  ASSUME RegistryInv, NEW e \in Executions, NEW n \in ToolNames,
         NEW g \in Gates \cup {DefaultGate}, execute(e, n, g)
  PROVE  RegistryInv'
<1>1. CASE tools[n] = NoSpec
  <2>1. Becomes(e, Stopped(NoSpec, g, "unknown")) /\ UNCHANGED tools
    BY <1>1 DEF execute
  <2>2. QED
    BY <2>1, UnknownIsSound, BecomesIsSound
<1>2. CASE tools[n] # NoSpec
  <2> DEFINE s == tools[n]
  <2>1. s \in Specs /\ check(e, s, g) /\ UNCHANGED tools
    BY <1>2 DEF execute, RegistryInv, RegistryTypeOK
  <2> HIDE DEF s
  <2>2. CASE Admits(g, SpecTier[s]) /\ Becomes(e, Started(s, g, "none"))
    BY <2>1, <2>2, FramesAreSound, BecomesIsSound
  <2>3. CASE Becomes(e, Stopped(s, g, "denied"))
    BY <2>1, <2>3, FramesAreSound, BecomesIsSound
  <2>4. CASE Asks(g, SpecTier[s]) /\ Answered(e, s, g)
    BY <2>1, <2>4, AnsweredIsSound
  <2>5. CASE Asks(g, SpecTier[s]) /\ Becomes(e, Waiting(s, g))
    BY <2>1, <2>5, FramesAreSound, BecomesIsSound
  <2>6. QED
    BY <2>1, <2>2, <2>3, <2>4, <2>5 DEF check
<1>3. QED
  BY <1>1, <1>2

\* So does an answer, and the return of a handler.
LEMMA ResumeIsSound ==
  ASSUME RegistryInv, NEW e \in Executions, ApprovalArrives(e) \/ HandlerEnds(e)
  PROVE  RegistryInv'
<1>1. CASE ApprovalArrives(e)
  <2>1. /\ exec[e].spec \in Specs
        /\ exec[e].gate \in Gates \cup {DefaultGate}
        /\ Asks(exec[e].gate, SpecTier[exec[e].spec])
    BY <1>1 DEF ApprovalArrives, RegistryInv, RegistryTypeOK, ExecutionInv, FrameOK, Execution
  <2>2. QED
    BY <1>1, <2>1, AnsweredIsSound DEF ApprovalArrives
<1>2. CASE HandlerEnds(e)
  <2>1. PICK r \in {"ok", "failed"} :
          exec' = [exec EXCEPT ![e].pc = "done", ![e].result = r]
    BY <1>2 DEF HandlerEnds
  <2> DEFINE x == [exec[e] EXCEPT !.pc = "done", !.result = r]
  <2>2. exec[e] \in Execution /\ FrameOK(exec[e]) /\ exec[e].pc = "handler"
    BY <1>2 DEF HandlerEnds, RegistryInv, RegistryTypeOK, ExecutionInv
  <2>3. x \in Execution /\ FrameOK(x)
    BY <2>2 DEF Execution, FrameOK
  <2>4. Becomes(e, x) /\ UNCHANGED tools
    BY <1>2, <2>1 DEF HandlerEnds, Becomes, RegistryInv, RegistryTypeOK
  <2>5. QED
    BY <2>3, <2>4, BecomesIsSound
<1>3. QED
  BY <1>1, <1>2

\* A frame that is cancelled is sound, whatever it was suspended in.
LEMMA CancelledIsSound ==
  ASSUME NEW x \in Execution, FrameOK(x)
  PROVE  LET y == [x EXCEPT !.pc = "done", !.result = "cancelled"]
         IN  y \in Execution /\ FrameOK(y)
  BY DEF Execution, FrameOK

\* So a cancellation leaves the registry sound.
LEMMA CancelIsSound ==
  ASSUME RegistryInv, NEW e \in Executions, Cancelled(e)
  PROVE  RegistryInv'
<1> DEFINE x == [exec[e] EXCEPT !.pc = "done", !.result = "cancelled"]
<1>1. exec[e] \in Execution /\ FrameOK(exec[e])
  BY DEF RegistryInv, RegistryTypeOK, ExecutionInv
<1>2. x \in Execution /\ FrameOK(x)
  BY <1>1, CancelledIsSound
<1>3. Becomes(e, x) /\ UNCHANGED tools
  BY DEF Cancelled, Becomes, RegistryInv, RegistryTypeOK
<1>4. QED
  BY <1>2, <1>3, BecomesIsSound

-----------------------------------------------------------------------------
\* An empty registry satisfies the invariant.
LEMMA InitEstablishes == EmptyRegistry => RegistryInv
  BY IdleIsSound DEF EmptyRegistry, RegistryInit, RegistryInv, RegistryTypeOK, ExecutionInv

\* Every action of the registry preserves the invariant.
LEMMA NextPreserves == RegistryInv /\ [RegistryNext]_registryVars => RegistryInv'
<1> SUFFICES ASSUME RegistryInv, [RegistryNext]_registryVars PROVE RegistryInv'
  OBVIOUS
<1>1. ASSUME NEW s \in Specs, register(s) PROVE RegistryInv'
  <2>1. tools' \in [ToolNames -> Specs \cup {NoSpec}]
    BY <1>1, RegistryAssumption DEF register, RegistryInv, RegistryTypeOK
  <2>2. QED
    BY <1>1, <2>1 DEF register, RegistryInv, RegistryTypeOK, ExecutionInv
<1>2. ASSUME NEW e \in Executions, NEW n \in ToolNames, NEW g \in Gates, execute(e, n, g)
      PROVE  RegistryInv'
  BY <1>2, ExecuteIsSound
<1>3. ASSUME NEW e \in Executions, ApprovalArrives(e) \/ HandlerEnds(e) \/ Cancelled(e)
      PROVE  RegistryInv'
  BY <1>3, ResumeIsSound, CancelIsSound
<1>4. ASSUME NEW e \in Executions, Collected(e) PROVE RegistryInv'
  BY <1>4, IdleIsSound, BecomesIsSound DEF Collected
<1>5. CASE UNCHANGED registryVars
  BY <1>5 DEF registryVars, RegistryInv, RegistryTypeOK, ExecutionInv
<1>6. QED
  BY <1>1, <1>2, <1>3, <1>4, <1>5 DEF RegistryNext

\* The inductive invariant of the registry holds throughout.
LEMMA Invariance == RegistrySpec => []RegistryInv
  BY InitEstablishes, NextPreserves, PTL DEF RegistrySpec

-----------------------------------------------------------------------------
\* The dict and every coroutine frame keep their shape.
THEOREM TypeCorrect == RegistrySpec => []RegistryTypeOK
<1>1. RegistryInv => RegistryTypeOK
  BY DEF RegistryInv
<1>2. QED
  BY <1>1, Invariance, PTL

\* No handler ever runs for a tier that was not cleared for its own call,
\* whatever is registered or answered while the call is suspended.
THEOREM ChokePoint == RegistrySpec => []OnlyClearedHandlersRun
<1>1. RegistryInv => OnlyClearedHandlersRun
  BY DEF RegistryInv, ExecutionInv, FrameOK, OnlyClearedHandlersRun, Admits, Asks
<1>2. QED
  BY <1>1, Invariance, PTL

\* A ToolResult never claims a handler ran that did not, or the reverse.
THEOREM ResultsAreTruthful == RegistrySpec => []ResultTellsWhatRan
<1>1. RegistryInv => ResultTellsWhatRan
  BY DEF RegistryInv, ExecutionInv, FrameOK, ResultTellsWhatRan
<1>2. QED
  BY <1>1, Invariance, PTL

-----------------------------------------------------------------------------
(* The registry implements the reference monitor. A step that changes the  *)
(* frame of e either gives e a frame that has run nothing (Renew), starts  *)
(* a cleared handler (Decide), or leaves the monitor's view as it was.     *)

ClearedBy(x) ==
  {t \in RiskTier : Admits(x.gate, t) \/ (x.approved = t /\ ~ Refuses(x.gate, t))}

\* A step that replaces the frame of e changes the view of e, and no other.
LEMMA ViewChanges ==
  ASSUME RegistryTypeOK, NEW e \in Executions, NEW x \in Execution, Becomes(e, x)
  PROVE  /\ [f \in Executions |-> ClearedTiers(f)']
              = [[f \in Executions |-> ClearedTiers(f)] EXCEPT ![e] = ClearedBy(x)]
         /\ [f \in Executions |-> exec'[f].ran]
              = [[f \in Executions |-> exec[f].ran] EXCEPT ![e] = x.ran]
<1>1. exec' = [exec EXCEPT ![e] = x] /\ exec \in [Executions -> Execution]
  BY DEF Becomes, RegistryTypeOK
<1>2. \A f \in Executions : exec'[f] = IF f = e THEN x ELSE exec[f]
  BY <1>1
<1>3. \A f \in Executions :
        ClearedTiers(f)' = IF f = e THEN ClearedBy(x) ELSE ClearedTiers(f)
  BY <1>2 DEF ClearedTiers, ClearedBy
<1>4. QED
  BY <1>2, <1>3

\* A new frame that has run nothing is a renewal to the monitor.
LEMMA RenewStep ==
  ASSUME RegistryTypeOK, NEW e \in Executions, NEW x \in Execution, Becomes(e, x),
         x.ran = NoSpec
  PROVE  Monitor!MonitorNext
<1>1. ClearedBy(x) \in SUBSET RiskTier
  BY DEF ClearedBy
<1>2. Monitor!Renew(e)
  BY <1>1, ViewChanges DEF Monitor!Renew
<1>3. QED
  BY <1>2 DEF Monitor!MonitorNext

\* A new frame that runs what it is cleared for is a decision.
LEMMA DecideStep ==
  ASSUME RegistryTypeOK, NEW e \in Executions, NEW x \in Execution, Becomes(e, x),
         exec[e].ran = NoSpec, x.ran \in Specs, SpecTier[x.ran] \in ClearedBy(x)
  PROVE  Monitor!MonitorNext
<1>1. ClearedBy(x) \in SUBSET RiskTier
  BY DEF ClearedBy
<1>2. Monitor!Decide(e)
  BY <1>1, ViewChanges DEF Monitor!Decide
<1>3. QED
  BY <1>2 DEF Monitor!MonitorNext

\* A handler frame, as execute() builds it, carries its clearance with it.
LEMMA StartedIsCleared ==
  ASSUME NEW s \in Specs, NEW g \in Gates \cup {DefaultGate}
  PROVE  /\ Admits(g, SpecTier[s]) => SpecTier[s] \in ClearedBy(Started(s, g, "none"))
         /\ Asks(g, SpecTier[s]) =>
              SpecTier[s] \in ClearedBy(Started(s, g, SpecTier[s]))
<1>1. SpecTier[s] \in RiskTier
  BY RegistryAssumption
<1>2. Asks(g, SpecTier[s]) => ~ Refuses(g, SpecTier[s])
  BY <1>1, CheckIsTotal, GatesAreGates
<1>3. QED
  BY <1>1, <1>2 DEF ClearedBy, Started

\* The answer of the callback is a step of the monitor, whatever it is.
LEMMA AnsweredIsMonitored ==
  ASSUME RegistryInv, NEW e \in Executions, exec[e].ran = NoSpec, NEW s \in Specs,
         NEW g \in Gates \cup {DefaultGate}, Asks(g, SpecTier[s]), Answered(e, s, g)
  PROVE  Monitor!MonitorNext
<1>1. CASE Becomes(e, Started(s, g, SpecTier[s]))
  <2>1. Started(s, g, SpecTier[s]).ran = s
    BY DEF Started
  <2>2. QED
    BY <1>1, <2>1, FramesAreSound, StartedIsCleared, DecideStep DEF RegistryInv
<1>2. ASSUME NEW why \in {"denied", "raised"}, Becomes(e, Stopped(s, g, why))
      PROVE  Monitor!MonitorNext
  <2>1. Stopped(s, g, why).ran = NoSpec
    BY DEF Stopped, Idle
  <2>2. QED
    BY <1>2, <2>1, FramesAreSound, RenewStep DEF RegistryInv
<1>3. QED
  BY <1>1, <1>2 DEF Answered

\* Before the handler is started the execution has acted on nothing.
LEMMA NotYetRun ==
  ASSUME NEW x, FrameOK(x), x.pc \in {"idle", "approval"}
  PROVE  x.ran = NoSpec
<1>1. Idle.ran = NoSpec
  BY DEF Idle
<1>2. Waiting(x.spec, x.gate).ran = NoSpec
  BY DEF Waiting, Idle
<1>3. QED
  BY <1>1, <1>2 DEF FrameOK

\* Every action of the registry is a step of the monitor or leaves its view alone.
LEMMA NextIsMonitored ==
  RegistryInv /\ [RegistryNext]_registryVars => [Monitor!MonitorNext]_(Monitor!monitorVars)
<1> SUFFICES ASSUME RegistryInv, [RegistryNext]_registryVars
             PROVE  Monitor!MonitorNext \/ UNCHANGED Monitor!monitorVars
  OBVIOUS
<1> DEFINE grants == [f \in Executions |-> ClearedTiers(f)]
           acts   == [f \in Executions |-> exec[f].ran]
<1>a. ASSUME \A f \in Executions : ClearedTiers(f)' = ClearedTiers(f),
             \A f \in Executions : exec'[f].ran = exec[f].ran
      PROVE  UNCHANGED Monitor!monitorVars
  <2>1. grants' = grants
    BY <1>a
  <2>2. acts' = acts
    BY <1>a
  <2>3. QED
    BY <2>1, <2>2 DEF Monitor!monitorVars
<1>0. ASSUME UNCHANGED exec PROVE UNCHANGED Monitor!monitorVars
  <2>1. \A f \in Executions : ClearedTiers(f)' = ClearedTiers(f)
    BY <1>0 DEF ClearedTiers
  <2>2. QED
    BY <1>0, <2>1, <1>a
<1>1. ASSUME NEW s \in Specs, register(s) PROVE UNCHANGED Monitor!monitorVars
  BY <1>1, <1>0 DEF register
<1>2. ASSUME NEW e \in Executions, NEW n \in ToolNames, NEW g \in Gates, execute(e, n, g)
      PROVE  Monitor!MonitorNext
  <2>1. exec[e].ran = NoSpec
    BY <1>2, NotYetRun DEF execute, RegistryInv, ExecutionInv
  <2>2. CASE tools[n] = NoSpec
    <3>1. Stopped(NoSpec, g, "unknown").ran = NoSpec
      BY DEF Stopped, Idle
    <3>2. Becomes(e, Stopped(NoSpec, g, "unknown"))
      BY <1>2, <2>2 DEF execute
    <3>3. QED
      BY <3>1, <3>2, UnknownIsSound, RenewStep DEF RegistryInv
  <2>3. CASE tools[n] # NoSpec
    <3> DEFINE s == tools[n]
    <3>1. s \in Specs /\ check(e, s, g)
      BY <1>2, <2>3 DEF execute, RegistryInv, RegistryTypeOK
    <3> HIDE DEF s
    <3>2. CASE Admits(g, SpecTier[s]) /\ Becomes(e, Started(s, g, "none"))
      <4>1. Started(s, g, "none").ran = s
        BY DEF Started
      <4>2. QED
        BY <2>1, <3>1, <3>2, <4>1, FramesAreSound, StartedIsCleared, DecideStep
           DEF RegistryInv
    <3>3. CASE Becomes(e, Stopped(s, g, "denied"))
      <4>1. Stopped(s, g, "denied").ran = NoSpec
        BY DEF Stopped, Idle
      <4>2. QED
        BY <3>1, <3>3, <4>1, FramesAreSound, RenewStep DEF RegistryInv
    <3>4. CASE Asks(g, SpecTier[s]) /\ Answered(e, s, g)
      BY <2>1, <3>1, <3>4, AnsweredIsMonitored
    <3>5. CASE Asks(g, SpecTier[s]) /\ Becomes(e, Waiting(s, g))
      <4>1. Waiting(s, g).ran = NoSpec
        BY DEF Waiting, Idle
      <4>2. QED
        BY <3>1, <3>5, <4>1, FramesAreSound, RenewStep DEF RegistryInv
    <3>6. QED
      BY <3>1, <3>2, <3>3, <3>4, <3>5 DEF check
  <2>4. QED
    BY <2>2, <2>3
<1>3. ASSUME NEW e \in Executions, ApprovalArrives(e) PROVE Monitor!MonitorNext
  <2>1. /\ exec[e].spec \in Specs /\ exec[e].gate \in Gates \cup {DefaultGate}
        /\ Asks(exec[e].gate, SpecTier[exec[e].spec])
    BY <1>3 DEF ApprovalArrives, RegistryInv, RegistryTypeOK, ExecutionInv, FrameOK, Execution
  <2>2. exec[e].ran = NoSpec
    BY <1>3, NotYetRun DEF ApprovalArrives, RegistryInv, ExecutionInv
  <2>3. QED
    BY <1>3, <2>1, <2>2, AnsweredIsMonitored DEF ApprovalArrives
<1>4. ASSUME NEW e \in Executions, HandlerEnds(e) \/ Cancelled(e)
      PROVE  UNCHANGED Monitor!monitorVars
  <2>1. PICK r : exec' = [exec EXCEPT ![e].pc = "done", ![e].result = r]
    BY <1>4 DEF HandlerEnds, Cancelled
  <2>2. exec \in [Executions -> Execution]
    BY DEF RegistryInv, RegistryTypeOK
  <2>3. \A f \in Executions : /\ exec'[f].ran = exec[f].ran
                               /\ exec'[f].gate = exec[f].gate
                               /\ exec'[f].approved = exec[f].approved
    BY <2>1, <2>2 DEF Execution
  <2>4. \A f \in Executions : ClearedTiers(f)' = ClearedTiers(f)
    BY <2>3 DEF ClearedTiers
  <2>5. QED
    BY <2>3, <2>4, <1>a
<1>5. ASSUME NEW e \in Executions, Collected(e) PROVE Monitor!MonitorNext
  <2>1. Idle.ran = NoSpec
    BY DEF Idle
  <2>2. QED
    BY <1>5, <2>1, IdleIsSound, RenewStep DEF Collected, RegistryInv
<1>6. CASE UNCHANGED registryVars
  BY <1>6, <1>0 DEF registryVars
<1>7. QED
  BY <1>1, <1>2, <1>3, <1>4, <1>5, <1>6 DEF RegistryNext

\* An empty registry is an initial state of the monitor.
LEMMA InitIsMonitored == EmptyRegistry => Monitor!MonitorInit
  BY DEF EmptyRegistry, RegistryInit, Monitor!MonitorInit, Idle, ClearedTiers

\* InMemoryToolRegistry.execute with ApprovalGate.check is a reference
\* monitor: each step is a decision, a renewal, or invisible to it.
THEOREM ImplementsMonitor == RegistrySpec => MonitorSpec
  BY InitIsMonitored, NextIsMonitored, Invariance, PTL
     DEF RegistrySpec, MonitorSpec, Monitor!MonitorSpec

-----------------------------------------------------------------------------
(* How far a call has come; the flows that make calls use it.               *)

CallDepth(pc) ==
  CASE pc = "idle" -> 0 [] pc = "approval" -> 1 [] pc = "handler" -> 2 [] OTHER -> 3

\* One call goes on to a later await, or to its end, and no other moves.
CallAdvances(e) ==
  /\ CallDepth(exec'[e].pc) > CallDepth(exec[e].pc)
  /\ \A f \in Executions \ {e} : exec'[f] = exec[f]

\* execute() awaits the approval once and the handler once, in this order,
\* also if the callback raises or the coroutine is cancelled.
LEMMA CallsAdvance ==
  ASSUME RegistryTypeOK, NEW e \in Executions,
         \/ \E name, g : execute(e, name, g)
         \/ ApprovalArrives(e) \/ HandlerEnds(e) \/ Cancelled(e)
  PROVE  CallAdvances(e)
<1>1. ASSUME NEW x, Becomes(e, x), CallDepth(x.pc) > CallDepth(exec[e].pc)
      PROVE  CallAdvances(e)
  BY <1>1 DEF Becomes, RegistryTypeOK, CallAdvances
<1>2. /\ \A s, g, a : CallDepth(Started(s, g, a).pc) = 2
      /\ \A s, g : CallDepth(Waiting(s, g).pc) = 1
      /\ \A s, g, why : CallDepth(Stopped(s, g, why).pc) = 3
  BY DEF CallDepth, Started, Waiting, Stopped, Idle
<1>3. CallDepth("idle") = 0 /\ CallDepth("approval") = 1 /\ CallDepth("handler") = 2
  BY DEF CallDepth
<1>4. ASSUME NEW s, NEW g, Answered(e, s, g), exec[e].pc \in {"idle", "approval"}
      PROVE  CallAdvances(e)
  <2>1. CallDepth(exec[e].pc) \in 0 .. 1
    BY <1>3, <1>4
  <2>2. \/ Becomes(e, Started(s, g, SpecTier[s]))
        \/ \E why : Becomes(e, Stopped(s, g, why))
    BY <1>4 DEF Answered
  <2>3. QED
    BY <1>1, <1>2, <2>1, <2>2
<1>5. ASSUME NEW name, NEW g, execute(e, name, g) PROVE CallAdvances(e)
  <2>1. exec[e].pc = "idle"
    BY <1>5 DEF execute
  <2>2. CASE Becomes(e, Stopped(NoSpec, g, "unknown"))
    BY <1>1, <1>2, <1>3, <2>1, <2>2
  <2>3. CASE check(e, tools[name], g)
    <3>1. \/ Becomes(e, Started(tools[name], g, "none"))
          \/ Becomes(e, Stopped(tools[name], g, "denied"))
          \/ Answered(e, tools[name], g)
          \/ Becomes(e, Waiting(tools[name], g))
      BY <2>3 DEF check
    <3>2. QED
      BY <1>1, <1>2, <1>3, <1>4, <2>1, <3>1
  <2>4. QED
    BY <1>5, <2>2, <2>3 DEF execute
<1>6. CASE ApprovalArrives(e)
  BY <1>4, <1>6 DEF ApprovalArrives
<1>7. ASSUME NEW r, exec[e].pc \in {"approval", "handler"},
             exec' = [exec EXCEPT ![e].pc = "done", ![e].result = r]
      PROVE  CallAdvances(e)
  <2>1. exec'[e].pc = "done" /\ \A f \in Executions \ {e} : exec'[f] = exec[f]
    BY <1>7 DEF RegistryTypeOK, Execution
  <2>2. CallDepth("done") = 3
    BY DEF CallDepth
  <2>3. CallDepth(exec[e].pc) < 3
    BY <1>3, <1>7
  <2>4. QED
    BY <2>1, <2>2, <2>3 DEF CallAdvances
<1>8. HandlerEnds(e) \/ Cancelled(e) => CallAdvances(e)
  BY <1>7 DEF HandlerEnds, Cancelled
<1>9. QED
  BY <1>5, <1>6, <1>8
=============================================================================
