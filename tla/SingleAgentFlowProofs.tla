----------------------- MODULE SingleAgentFlowProofs -----------------------
(***************************************************************************)
(* Proofs about SingleAgentFlow, for any tools, gates, setups, model       *)
(* requests and batches of calls. CallOK says what one call of a batch may *)
(* look like, CountsOK ties the dispatches to the agent's own counters,    *)
(* FailuresOK the detector to the calls that have failed, and PhaseOK says *)
(* what each place of the turn may rely on. Together they are inductive.   *)
(***************************************************************************)
EXTENDS SingleAgentFlow, ToolRegistryProofs, FiniteSetTheorems

\* The most calls a response can ask for.
Width == Cardinality(Executions)

\* The calls of the batch that were dispatched, and those of c that failed.
Dispatched     == {e \in Executions : exec[e].pc # "idle"}
FailedCalls(c) == {e \in Executions : call[e] = c /\ raised[e] # "none"}

\* No call is out: nothing the agent started can still fail.
Quiet == \A e \in Executions : /\ exec[e] = Idle /\ call[e] = NoCall
                               /\ raised[e] = "none"

\* A slot without a call is free; a call is of a registered tool, goes
\* through the gate in force, and can raise when it is over only.
CallOK(e) ==
  /\ call[e] = NoCall => exec[e] = Idle /\ raised[e] = "none"
  /\ call[e] # NoCall => call[e][1] \in ToolNames
  /\ exec[e].pc # "idle" => exec[e].gate = grants
  /\ exec[e].pc # "done" => exec[e].result = "none" /\ raised[e] = "none"

\* The agent counts a batch when it is over, the flow each call when it is
\* dispatched. A batch is admitted as a whole.
CountsOK ==
  /\ call_count <= usage.requests * Width /\ ToolCallsWithinLimit
  /\ turn.pc \in {"recalling", "requesting"} => call_count = usage.tool_calls
  /\ turn.pc = "calling" =>
       /\ call_count = usage.tool_calls + Cardinality(Dispatched)
       /\ usage.tool_calls + Width <= usage.requests * Width
       /\ ~ Exceeds(usage.tool_calls + Cardinality(Asked), setup.budget.max_tool_calls)

\* A failure is counted no more often than calls have failed with it, and is
\* taken for a repeated one only after two of them.
FailuresOK ==
  /\ \A k \in FailureKeys : seen[k] <= Cardinality(FailedCalls(k[1]))
  /\ turn.stop_reason = "repeated_failure"
       \/ (\E e \in Executions : raised[e] = "RepeatedFailureError") =>
         \E k \in FailureKeys : seen[k] >= 2

\* The ledger before record_usage, and after a check that was passed.
Unspent ==
  /\ status.tokens_used = 0 /\ status.tool_calls_used = 0 /\ status.cost_usd = 0
  /\ ~ exhausted(status)

Recorded ==
  /\ status.tokens_used = usage.tokens /\ status.tool_calls_used = call_count
  /\ ~ exhausted(status)
  /\ ~ Exceeds(usage.tokens, setup.budget.max_total_tokens)
  /\ ~ Exceeds(setup.price * usage.tokens, setup.budget.max_cost_usd)
  /\ ~ Exceeds(status.elapsed_seconds, setup.budget.max_wall_clock_seconds)

\* The places after the check; a turn that remembers has been there.
Checked == turn.pc \in {"extracting", "remembering"} \/ turn.stop_reason = "success" \/ remembered

PhaseOK ==
  /\ turn.pc \in {"recalling", "requesting"} => Quiet
  /\ turn.pc \in {"recalling", "requesting", "calling"} => Unspent
  /\ Checked => Quiet /\ Recorded
  /\ turn.pc \in {"extracting", "remembering"} => setup.memory_on
  /\ remembered => turn.pc = "ended" /\ setup.memory_on
  /\ StampedLedgerIsWhole

FlowInv ==
  /\ RegistryInv /\ TypeOK
  /\ (\A e \in Executions : CallOK(e)) /\ CountsOK /\ FailuresOK /\ PhaseOK
-----------------------------------------------------------------------------
(* Lemmas about the state and its parts.                                   *)

\* The gate in force is a gate.
LEMMA GrantsIsAGate ==
  ASSUME FlowInv
  PROVE  grants \in Gates \cup {DefaultGate}
  BY FlowAssumption DEF FlowInv, TypeOK, Setup, grants

\* Sets of calls are finite, and at most as large as a response.
LEMMA SlotsAreFinite ==
  /\ Width \in Nat
  /\ \A T \in SUBSET Executions : /\ IsFiniteSet(T) /\ Cardinality(T) \in Nat
                                  /\ Cardinality(T) <= Width
<1>1. IsFiniteSet(Executions)
  BY FlowAssumption
<1>2. QED
  BY <1>1, FS_CardinalityType, FS_Subset DEF Width

\* Another request leaves room for another response.
LEMMA RequestsMakeRoom ==
  ASSUME NEW r \in Nat
  PROVE  /\ r * Width \in Nat /\ (r + 1) * Width = r * Width + Width
         /\ \A s \in Nat : r <= s => r * Width <= s * Width
<1>1. Width \in Nat
  BY SlotsAreFinite
<1>2. r * Width \in Nat /\ (r + 1) * Width = r * Width + Width
  BY <1>1
<1>3. ASSUME NEW s \in Nat, r <= s PROVE r * Width <= s * Width
  <2> DEFINE d == s - r
  <2>1. d \in Nat /\ s = r + d
    BY <1>3
  <2> HIDE DEF d
  <2>2. s * Width = r * Width + d * Width /\ d * Width \in Nat
    BY <1>1, <2>1
  <2>3. QED
    BY <1>2, <2>2
<1>4. QED
  BY <1>2, <1>3

\* A free slot holds nothing of an earlier call.
LEMMA FreeSlotIsIdle ==
  ASSUME FlowInv, NEW e \in Executions, exec[e].pc = "idle"
  PROVE  exec[e] = Idle
  BY DEF FlowInv, RegistryInv, ExecutionInv, FrameOK, Idle, Waiting

\* A turn is at one of its places or has ended, by success or an exception.
LEMMA TurnShapes ==
  /\ \A p \in Places : At(p) \in Turns(Places) /\ At(p).pc = p
                       /\ At(p).stop_reason = "none" /\ At(p).exception = "none"
  /\ Succeeded \in Turns(Places) /\ Succeeded.pc = "ended"
  /\ Succeeded.stop_reason = "success" /\ Succeeded.exception = "none"
  /\ \A x \in Exceptions :
       /\ RaisedBy(x) \in Turns(Places) /\ RaisedBy(x).pc = "ended" /\ RaisedBy(x).exception = x
       /\ RaisedBy(x).stop_reason \in StopReasons \ {"success"}
       /\ RaisedBy(x).stop_reason = "repeated_failure" <=> x = "RepeatedFailureError"
       /\ RaisedBy(x).stop_reason = "budget_exhausted" <=> x = "BudgetExhaustedError"
  BY DEF Turns, At, Succeeded, RaisedBy, StopReason, StopReasons, Exceptions

\* And which of these it is, is decided by pc and stop_reason.
LEMMA TurnIsOneOfThem ==
  ASSUME NEW t \in Turns(Places)
  PROVE  /\ t.pc \in Places \cup {"ended"}
         /\ t.pc # "ended" <=> t.stop_reason = "none"
         /\ t.pc = "ended" => t.stop_reason \in StopReasons
         /\ t.exception = "none" <=> t.stop_reason \in {"none", "success"}
  BY DEF Turns, At, Succeeded, RaisedBy, StopReason, StopReasons, Exceptions, Places

\* Only what the model has asked for is dispatched.
LEMMA DispatchedAreAsked ==
  ASSUME FlowInv
  PROVE  /\ Dispatched \subseteq Asked
         /\ Cardinality(Dispatched) <= Cardinality(Asked)
         /\ Cardinality(Asked) <= Width
         /\ Cardinality(Dispatched) \in Nat /\ Cardinality(Asked) \in Nat
<1>1. Dispatched \subseteq Asked
  BY DEF FlowInv, CallOK, Dispatched, Asked, Idle
<1>2. Asked \in SUBSET Executions /\ Dispatched \in SUBSET Executions
  BY DEF Dispatched, Asked
<1>3. Cardinality(Dispatched) <= Cardinality(Asked)
  BY <1>1, <1>2, SlotsAreFinite, FS_Subset
<1>4. QED
  BY <1>1, <1>2, <1>3, SlotsAreFinite

-----------------------------------------------------------------------------
(* The initial state.                                                      *)

\* A turn begins with nothing counted, recorded or called.
LEMMA FlowInitHolds ==
  ASSUME Init
  PROVE  FlowInv
<1>1. /\ tools = [n \in ToolNames |-> CHOOSE s \in Specs : SpecName[s] = n]
      /\ exec = [e \in Executions |-> Idle]
  BY DEF Init, RegistryInit
<1>2. \A n \in ToolNames : tools[n] \in Specs
  BY <1>1, ToolsAreRegistered
<1>3. RegistryInv
  BY <1>1, <1>2, IdleIsSound DEF RegistryInv, RegistryTypeOK, ExecutionInv
<1>4. /\ usage \in [requests : 0 .. RequestLimit, tokens : Nat, tool_calls : Nat]
      /\ seen \in [FailureKeys -> 0 .. Width] /\ call_count \in 0 .. RequestLimit * Width
  <2>1. RequestLimit \in Nat /\ RequestLimit * Width \in Nat /\ Width \in Nat
    BY FlowAssumption, RequestsMakeRoom, SlotsAreFinite
  <2>2. QED
    BY <2>1 DEF Init
<1>5. /\ turn = At(turn.pc) /\ turn.pc \in {"recalling", "requesting"}
      /\ turn \in Turns(Places) /\ turn.stop_reason = "none"
  <2>1. PICK p \in {"recalling", "requesting"} : turn = At(p)
    BY DEF Init
  <2>2. QED
    BY <2>1, TurnShapes DEF Places
<1>6. setup \in Setups /\ setup \in Setup /\ remembered = FALSE /\ call_count = 0
  BY FlowAssumption DEF Init
<1>7. TypeOK
  BY <1>3, <1>4, <1>5, <1>6
     DEF Init, TypeOK, RegistryInv, BudgetInit, BudgetTypeOK, BudgetStatus, Exceptions, Width
<1>8. Quiet /\ Unspent
  BY <1>1 DEF Init, BudgetInit, Quiet, Unspent, exhausted
<1>9. \A e \in Executions : CallOK(e)
  BY <1>8 DEF Quiet, CallOK, Idle
<1>10. CountsOK
  <2>1. 0 * Width = 0
    BY SlotsAreFinite
  <2>2. ~ Exceeds(0, setup.budget.max_tool_calls)
    BY <1>6 DEF Setup, Budget, Ceiling, Exceeds
  <2>3. QED
    BY <1>5, <1>6, <2>1, <2>2 DEF Init, CountsOK, ToolCallsWithinLimit
<1>11. FailuresOK
  <2>1. \A k \in FailureKeys : FailedCalls(k[1]) \in SUBSET Executions
    BY DEF FailedCalls
  <2>2. QED
    BY <1>5, <1>8, <2>1, SlotsAreFinite DEF Init, FailuresOK, Quiet
<1>12. PhaseOK
  BY <1>5, <1>6, <1>8 DEF Init, PhaseOK, Checked, StampedLedgerIsWhole, Unspent
<1>13. QED
  BY <1>3, <1>7, <1>9, <1>10, <1>11, <1>12 DEF FlowInv
-----------------------------------------------------------------------------
(* Tool calls: one call of a batch moves, and _dispatch settles it.        *)

\* What is out was asked for, by a turn that is calling or was ended by an
\* exception, and has not failed.
LEMMA OutstandingCall ==
  ASSUME FlowInv, NEW e \in Executions,
         exec[e].pc \in {"approval", "handler"} \/ e \in Asked
  PROVE  /\ call[e] \in Invocations /\ call[e] # NoCall /\ e \in Asked
         /\ turn.pc \in {"calling", "ended"} /\ turn.stop_reason # "success" /\ ~ remembered
         /\ exec[e].pc # "done" => raised[e] = "none" /\ exec[e].result = "none"
<1>1. call[e] # NoCall
  BY DEF FlowInv, CallOK, Asked, Idle
<1>2. turn.pc \in Places \cup {"ended"}
  BY TurnIsOneOfThem DEF FlowInv, TypeOK
<1>3. QED
  BY <1>1, <1>2 DEF FlowInv, TypeOK, CallOK, PhaseOK, Checked, Quiet, Asked, Places

\* Counting a failure keeps the count within the calls that have failed.
LEMMA RecordIsSound ==
  ASSUME FlowInv, NEW e \in Executions, call[e] \in Invocations, raised[e] = "none",
         NEW text \in ErrorTexts \cup {"denied"}, record(e, text), call' = call,
         UNCHANGED <<turn, setup>>
  PROVE  /\ FailuresOK' /\ seen' \in [FailureKeys -> 0 .. Width]
         /\ raised' \in [Executions -> Exceptions \cup {"none"}]
         /\ \A f \in Executions \ {e} : raised'[f] = raised[f]
<1> DEFINE key == <<call[e], text>>
<1>1. /\ key \in FailureKeys /\ key[1] = call[e]
      /\ seen \in [FailureKeys -> 0 .. Width] /\ seen[key] \in 0 .. Width
      /\ raised \in [Executions -> Exceptions \cup {"none"}]
  BY DEF FailureKeys, FlowInv, TypeOK, Width
<1>2. /\ seen' = [seen EXCEPT ![key] = seen[key] + 1]
      /\ raised' = [raised EXCEPT ![e] = IF seen[key] + 1 >= 2 THEN "RepeatedFailureError"
                                         ELSE "RuntimeError"]
  BY DEF record
<1> HIDE DEF key
<1>3. /\ raised'[e] # "none" /\ raised' \in [Executions -> Exceptions \cup {"none"}]
      /\ \A f \in Executions \ {e} : raised'[f] = raised[f]
  BY <1>1, <1>2 DEF Exceptions
<1>4. FailedCalls(call[e])' = FailedCalls(call[e]) \cup {e} /\ e \notin FailedCalls(call[e])
  BY <1>3 DEF FailedCalls
<1>5. \A c \in Invocations : c # call[e] => FailedCalls(c)' = FailedCalls(c)
  BY <1>3 DEF FailedCalls
<1>6. /\ Cardinality(FailedCalls(call[e])') = Cardinality(FailedCalls(call[e])) + 1
      /\ Cardinality(FailedCalls(call[e])) \in Nat
      /\ Cardinality(FailedCalls(call[e])') <= Width
  <2>1. FailedCalls(call[e]) \in SUBSET Executions /\ FailedCalls(call[e])' \in SUBSET Executions
    BY DEF FailedCalls
  <2>2. QED
    BY <1>4, <2>1, SlotsAreFinite, FS_AddElement
<1>7. ASSUME NEW k \in FailureKeys
      PROVE  seen'[k] <= Cardinality(FailedCalls(k[1])')
  <2>1. /\ seen[k] <= Cardinality(FailedCalls(k[1])) /\ seen[k] \in Nat
        /\ k[1] \in Invocations
    BY <1>1 DEF FlowInv, FailuresOK, FailureKeys
  <2>2. seen'[k] = IF k = key THEN seen[k] + 1 ELSE seen[k]
    BY <1>1, <1>2
  <2>3. CASE k[1] = call[e]
    BY <1>6, <2>1, <2>2, <2>3
  <2>4. CASE k[1] # call[e]
    BY <1>1, <1>5, <2>1, <2>2, <2>4
  <2>5. QED
    BY <2>3, <2>4
<1>8. seen[key] + 1 <= Width
  <2>1. seen'[key] = seen[key] + 1 /\ seen'[key] <= Cardinality(FailedCalls(call[e])')
    BY <1>1, <1>2, <1>7
  <2>2. QED
    BY <1>1, <1>6, <2>1, SlotsAreFinite
<1>9. seen' \in [FailureKeys -> 0 .. Width]
  BY <1>1, <1>2, <1>8, SlotsAreFinite
<1>10. ASSUME \/ turn'.stop_reason = "repeated_failure"
              \/ \E f \in Executions : raised'[f] = "RepeatedFailureError"
       PROVE  \E k \in FailureKeys : seen'[k] >= 2
  <2>1. CASE seen[key] + 1 >= 2
    BY <1>1, <1>2, <2>1
  <2>2. CASE ~ (seen[key] + 1 >= 2)
    <3>1. raised'[e] = "RuntimeError"
      BY <1>1, <1>2, <2>2
    <3>2. PICK k \in FailureKeys : seen[k] >= 2
      BY <1>3, <1>10, <3>1 DEF FlowInv, FailuresOK
    <3>3. k # key /\ seen'[k] = seen[k]
      BY <1>1, <1>2, <2>2, <3>2
    <3>4. QED
      BY <3>2, <3>3
  <2>3. QED
    BY <2>1, <2>2
<1>11. FailuresOK'
  BY <1>7, <1>10 DEF FailuresOK
<1>12. QED
  BY <1>3, <1>9, <1>11

\* Whatever the result, settling it leaves the detector sound.
LEMMA SettleIsSound ==
  ASSUME FlowInv, NEW e \in Executions, call[e] \in Invocations, raised[e] = "none",
         Settle(e), call' = call, UNCHANGED <<turn, setup>>
  PROVE  /\ FailuresOK' /\ seen' \in [FailureKeys -> 0 .. Width]
         /\ raised' \in [Executions -> Exceptions \cup {"none"}]
         /\ \A f \in Executions \ {e} : raised'[f] = raised[f]
         /\ exec'[e].result \in {"none", "ok"} => raised' = raised
<1>1. CASE exec'[e].result \in {"none", "ok"} /\ UNCHANGED <<seen, raised>>
  BY <1>1 DEF FlowInv, TypeOK, FailuresOK, FailedCalls, Width
<1>2. CASE exec'[e].result = "denied" /\ record(e, "denied")
  BY <1>2, RecordIsSound
<1>3. CASE exec'[e].result = "failed" /\ \E text \in ErrorTexts : record(e, text)
  BY <1>3, RecordIsSound
<1>4. CASE /\ exec'[e].result = "raised" /\ UNCHANGED seen
           /\ raised' = [raised EXCEPT ![e] = "Exception"]
  <2>1. /\ raised' \in [Executions -> Exceptions \cup {"none"}] /\ raised'[e] = "Exception"
        /\ \A f \in Executions \ {e} : raised'[f] = raised[f]
    BY <1>4 DEF FlowInv, TypeOK, Exceptions
  <2>2. ASSUME NEW k \in FailureKeys
        PROVE  seen'[k] <= Cardinality(FailedCalls(k[1])')
    <3>1. FailedCalls(k[1]) \subseteq FailedCalls(k[1])'
      BY <2>1 DEF FailedCalls
    <3>2. FailedCalls(k[1]) \in SUBSET Executions /\ FailedCalls(k[1])' \in SUBSET Executions
      BY DEF FailedCalls
    <3>3. Cardinality(FailedCalls(k[1])) <= Cardinality(FailedCalls(k[1])')
      BY <3>1, <3>2, SlotsAreFinite, FS_Subset
    <3>4. /\ seen[k] \in Nat /\ seen[k] <= Cardinality(FailedCalls(k[1]))
          /\ Cardinality(FailedCalls(k[1])) \in Nat /\ Cardinality(FailedCalls(k[1])') \in Nat
      BY <3>2, SlotsAreFinite DEF FlowInv, TypeOK, FailuresOK
    <3>5. QED
      BY <1>4, <3>3, <3>4
  <2>3. FailuresOK'
    BY <1>4, <2>1, <2>2 DEF FlowInv, FailuresOK
  <2>4. QED
    BY <1>4, <2>1, <2>3 DEF FlowInv, TypeOK, Width
<1>5. QED
  BY <1>1, <1>2, <1>3, <1>4 DEF Settle
\* A call of the batch that is not over moves, and is settled; a dispatch of
\* it is counted; everything else stays.
LEMMA CallMoves ==
  ASSUME FlowInv, RegistryInv', NEW e \in Executions, e \in Asked,
         UNCHANGED <<tools, budgetVars, usage, call, flowVars>>,
         exec[e].pc # "done", NEW x \in Execution, Becomes(e, x),
         x.pc # "idle", x.gate = grants, x.pc # "done" => x.result = "none",
         exec[e].pc = "idle" => turn.pc = "calling",
         call_count' = IF exec[e].pc = "idle" THEN call_count + 1 ELSE call_count,
         FailuresOK', seen' \in [FailureKeys -> 0 .. Width],
         raised' \in [Executions -> Exceptions \cup {"none"}],
         \A f \in Executions \ {e} : raised'[f] = raised[f],
         exec'[e].result \in {"none", "ok"} => raised' = raised
  PROVE  FlowInv'
<1>1. /\ exec'[e] = x /\ grants' = grants
      /\ \A f \in Executions \ {e} : exec'[f] = exec[f]
      /\ UNCHANGED <<tools, clock, status, usage, call, setup, turn, remembered>>
  BY DEF Becomes, FlowInv, RegistryInv, RegistryTypeOK, flowVars, budgetVars, grants
<1>2. /\ call[e] \in Invocations /\ call[e] # NoCall /\ turn.pc \in {"calling", "ended"}
      /\ turn.stop_reason # "success" /\ ~ remembered /\ raised[e] = "none"
  BY OutstandingCall
<1>3. /\ call_count \in Nat /\ usage.requests \in Nat /\ usage.tool_calls \in Nat
      /\ usage.requests <= RequestLimit /\ RequestLimit \in Nat
  BY FlowAssumption, RequestsMakeRoom DEF FlowInv, TypeOK
<1>4. ASSUME NEW f \in Executions PROVE CallOK(f)'
  BY <1>1, <1>2 DEF FlowInv, CallOK
<1>5. CountsOK'
  <2>1. CASE exec[e].pc = "idle"
    <3>1. Dispatched' = Dispatched \cup {e} /\ e \notin Dispatched /\ Asked' = Asked
      BY <1>1, <2>1 DEF Dispatched, Asked
    <3>2. Dispatched \subseteq Executions /\ Dispatched' \subseteq Executions
      BY DEF Dispatched
    <3>3. Cardinality(Dispatched') = Cardinality(Dispatched) + 1
      BY <3>1, <3>2, SlotsAreFinite, FS_AddElement
    <3>4. Dispatched' \subseteq Asked /\ Asked \subseteq Executions
      BY <3>1, DispatchedAreAsked DEF Asked
    <3>5. Cardinality(Dispatched') <= Cardinality(Asked) /\ Cardinality(Asked) <= Width
      BY <3>4, SlotsAreFinite, FS_Subset
    <3>6. /\ call_count' = usage.tool_calls + Cardinality(Dispatched')
          /\ usage.tool_calls + Width <= usage.requests * Width
          /\ ~ Exceeds(usage.tool_calls + Cardinality(Asked), setup.budget.max_tool_calls)
      BY <1>3, <2>1, <3>3, DispatchedAreAsked DEF FlowInv, CountsOK
    <3>7. /\ Cardinality(Asked) \in Nat /\ Cardinality(Dispatched') \in Nat /\ Width \in Nat
          /\ usage.requests * Width \in Nat
      BY <1>3, <3>2, DispatchedAreAsked, SlotsAreFinite, RequestsMakeRoom
    <3>8. call_count' <= usage.requests * Width
      BY <1>3, <3>5, <3>6, <3>7
    <3>9. ~ Exceeds(call_count', setup.budget.max_tool_calls)
      <4>1. setup.budget.max_tool_calls \in Nat \cup {Unlimited}
        BY FlowAssumption DEF FlowInv, TypeOK, Setup, Budget, Ceiling
      <4>2. QED
        BY <1>3, <3>5, <3>6, <3>7, <4>1 DEF Exceeds
    <3>10. QED
      BY <1>1, <2>1, <3>1, <3>6, <3>8, <3>9 DEF CountsOK, ToolCallsWithinLimit
  <2>2. CASE exec[e].pc # "idle"
    <3>1. Dispatched' = Dispatched /\ Asked' = Asked /\ call_count' = call_count
      BY <1>1, <2>2 DEF Dispatched, Asked
    <3>2. QED
      BY <1>1, <3>1 DEF FlowInv, CountsOK, ToolCallsWithinLimit
  <2>3. QED
    BY <2>1, <2>2
<1>6. call_count' \in 0 .. RequestLimit * Width
  <2>1. call_count' <= usage.requests * Width
    BY <1>1, <1>5 DEF CountsOK
  <2>2. /\ usage.requests * Width <= RequestLimit * Width
        /\ usage.requests * Width \in Nat /\ RequestLimit * Width \in Nat
    BY <1>3, RequestsMakeRoom
  <2>3. QED
    BY <1>3, <2>1, <2>2
<1>7. TypeOK'
  BY <1>1, <1>6 DEF FlowInv, RegistryInv, TypeOK, BudgetTypeOK, Width
<1>8. PhaseOK'
  <2>1. ~ Checked /\ Checked' = Checked
    BY <1>1, <1>2 DEF Checked
  <2>2. StampedLedgerIsWhole'
    <3>1. CASE turn.pc = "calling"
      BY <1>1, <3>1 DEF FlowInv, PhaseOK, Unspent, StampedLedgerIsWhole
    <3>2. CASE turn.pc = "ended"
      BY <1>1, <3>2 DEF FlowInv, PhaseOK, StampedLedgerIsWhole
    <3>3. QED
      BY <1>2, <3>1, <3>2
  <2>3. QED
    BY <1>1, <1>2, <2>1, <2>2 DEF FlowInv, PhaseOK, Unspent
<1>9. QED
  BY <1>4, <1>5, <1>7, <1>8 DEF FlowInv

\* The frame a call has when the callback has answered.
LEMMA AnswerMoves ==
  ASSUME FlowInv, NEW e \in Executions, NEW s \in Specs, NEW g \in Gates \cup {DefaultGate},
         Asks(g, SpecTier[s]), Answered(e, s, g)
  PROVE  \E x \in Execution :
           /\ Becomes(e, x) /\ x.pc \in {"handler", "done"} /\ x.gate = g
           /\ x.pc # "done" => x.result = "none"
<1>1. CASE Becomes(e, Started(s, g, SpecTier[s]))
  <2>1. Started(s, g, SpecTier[s]) \in Execution
    BY FramesAreSound
  <2>2. QED
    BY <1>1, <2>1 DEF Started
<1>2. ASSUME NEW why \in {"denied", "raised"}, Becomes(e, Stopped(s, g, why))
      PROVE  \E x \in Execution : Becomes(e, x) /\ x.pc = "done" /\ x.gate = g
  <2>1. Stopped(s, g, why) \in Execution
    BY FramesAreSound
  <2>2. QED
    BY <1>2, <2>1 DEF Stopped, Idle
<1>3. QED
  BY <1>1, <1>2 DEF Answered

\* The frame a call has when it has been dispatched.
LEMMA ExecuteMoves ==
  ASSUME FlowInv, NEW e \in Executions, NEW n \in ToolNames,
         NEW g \in Gates \cup {DefaultGate}, execute(e, n, g)
  PROVE  \E x \in Execution :
           /\ Becomes(e, x) /\ x.pc # "idle" /\ x.gate = g
           /\ x.pc # "done" => x.result = "none"
<1>1. CASE tools[n] = NoSpec
  <2>1. Becomes(e, Stopped(NoSpec, g, "unknown"))
    BY <1>1 DEF execute
  <2>2. Stopped(NoSpec, g, "unknown") \in Execution
    BY UnknownIsSound
  <2>3. QED
    BY <2>1, <2>2 DEF Stopped, Idle
<1>2. CASE tools[n] # NoSpec
  <2> DEFINE s == tools[n]
  <2>1. s \in Specs /\ check(e, s, g)
    BY <1>2 DEF execute, FlowInv, RegistryInv, RegistryTypeOK
  <2> HIDE DEF s
  <2>2. CASE Admits(g, SpecTier[s]) /\ Becomes(e, Started(s, g, "none"))
    <3>1. Started(s, g, "none") \in Execution
      BY <2>1, <2>2, FramesAreSound
    <3>2. QED
      BY <2>2, <3>1 DEF Started
  <2>3. CASE Becomes(e, Stopped(s, g, "denied"))
    <3>1. Stopped(s, g, "denied") \in Execution
      BY <2>1, FramesAreSound
    <3>2. QED
      BY <2>3, <3>1 DEF Stopped, Idle
  <2>4. CASE Asks(g, SpecTier[s]) /\ Answered(e, s, g)
    BY <2>1, <2>4, AnswerMoves
  <2>5. CASE Asks(g, SpecTier[s]) /\ Becomes(e, Waiting(s, g))
    <3>1. Waiting(s, g) \in Execution
      BY <2>1, <2>5, FramesAreSound
    <3>2. QED
      BY <2>5, <3>1 DEF Waiting, Idle
  <2>6. QED
    BY <2>1, <2>2, <2>3, <2>4, <2>5 DEF check
<1>3. QED
  BY <1>1, <1>2

\* A call is dispatched.
LEMMA DispatchPreserves ==
  ASSUME FlowInv, NEW e \in Executions, Dispatch(e)
  PROVE  FlowInv'
<1>1. /\ turn.pc = "calling" /\ e \in Asked /\ exec[e].pc = "idle" /\ Settle(e)
      /\ call_count' = call_count + 1
      /\ UNCHANGED <<tools, budgetVars, usage, call, flowVars>>
      /\ execute(e, call[e][1], grants)
  BY DEF Dispatch, execute
<1>2. call[e] \in Invocations /\ call[e][1] \in ToolNames /\ raised[e] = "none"
  BY <1>1, OutstandingCall DEF FlowInv, CallOK
<1>3. grants \in Gates \cup {DefaultGate}
  BY GrantsIsAGate
<1>4. RegistryInv'
  BY <1>1, <1>2, <1>3, ExecuteIsSound DEF FlowInv
<1>5. PICK x \in Execution : /\ Becomes(e, x) /\ x.pc # "idle" /\ x.gate = grants
                             /\ x.pc # "done" => x.result = "none"
  BY <1>1, <1>2, <1>3, ExecuteMoves
<1>6. /\ FailuresOK' /\ seen' \in [FailureKeys -> 0 .. Width]
      /\ raised' \in [Executions -> Exceptions \cup {"none"}]
      /\ \A f \in Executions \ {e} : raised'[f] = raised[f]
      /\ exec'[e].result \in {"none", "ok"} => raised' = raised
  BY <1>1, <1>2, SettleIsSound DEF flowVars
<1>7. QED
  BY <1>1, <1>4, <1>5, <1>6, CallMoves

\* The coroutine of a call goes on.
LEMMA ResumePreserves ==
  ASSUME FlowInv, NEW e \in Executions, Resume(e)
  PROVE  FlowInv'
<1>1. /\ exec[e].pc \in {"approval", "handler"} /\ Settle(e) /\ call_count' = call_count
      /\ UNCHANGED <<tools, budgetVars, usage, call, flowVars>>
      /\ exec[e] \in Execution /\ exec[e].gate = grants
  BY DEF Resume, ApprovalArrives, HandlerEnds, FlowInv, RegistryInv, RegistryTypeOK, CallOK
<1>2. call[e] \in Invocations /\ e \in Asked /\ raised[e] = "none"
  BY <1>1, OutstandingCall
<1>3. RegistryInv'
  BY ResumeIsSound DEF Resume, FlowInv
<1>4. \E x \in Execution : /\ Becomes(e, x) /\ x.pc # "idle" /\ x.gate = grants
                           /\ x.pc # "done" => x.result = "none"
  <2>1. CASE ApprovalArrives(e)
    <3>1. /\ exec[e].spec \in Specs /\ exec[e].gate \in Gates \cup {DefaultGate}
          /\ Asks(exec[e].gate, SpecTier[exec[e].spec])
          /\ Answered(e, exec[e].spec, exec[e].gate)
      BY <2>1 DEF ApprovalArrives, FlowInv, RegistryInv, RegistryTypeOK, ExecutionInv,
                  FrameOK, Execution
    <3>2. QED
      BY <1>1, <3>1, AnswerMoves
  <2>2. CASE HandlerEnds(e)
    <3>1. PICK r \in {"ok", "failed"} :
            exec' = [exec EXCEPT ![e].pc = "done", ![e].result = r]
      BY <2>2 DEF HandlerEnds
    <3> DEFINE x == [exec[e] EXCEPT !.pc = "done", !.result = r]
    <3>2. x \in Execution /\ x.pc = "done" /\ x.gate = grants
      BY <1>1 DEF Execution
    <3>3. Becomes(e, x)
      BY <3>1 DEF Becomes, FlowInv, RegistryInv, RegistryTypeOK
    <3> HIDE DEF x
    <3>4. QED
      BY <3>2, <3>3
  <2>3. QED
    BY <2>1, <2>2 DEF Resume
<1>5. PICK x \in Execution : /\ Becomes(e, x) /\ x.pc # "idle" /\ x.gate = grants
                             /\ x.pc # "done" => x.result = "none"
  BY <1>4
<1>6. /\ FailuresOK' /\ seen' \in [FailureKeys -> 0 .. Width]
      /\ raised' \in [Executions -> Exceptions \cup {"none"}]
      /\ \A f \in Executions \ {e} : raised'[f] = raised[f]
      /\ exec'[e].result \in {"none", "ok"} => raised' = raised
  BY <1>1, <1>2, SettleIsSound DEF flowVars
<1>7. QED
  BY <1>1, <1>2, <1>3, <1>5, <1>6, CallMoves
\* Some of the calls are cancelled, perhaps none.
SomeCancelled ==
  \E gone \in SUBSET Executions :
    exec' = [e \in Executions |-> IF e \in gone THEN Cancel(e) ELSE exec[e]]

\* The ways the code cancels calls.
LEMMA WaysToCancel ==
  ASSUME FlowInv,
         \/ exec' \in {exec, [e \in Executions |-> Cancel(e)]}
         \/ \E e \in Executions : Cancelled(e)
  PROVE  SomeCancelled
<1>1. exec = [e \in Executions |-> exec[e]]
  BY DEF FlowInv, RegistryInv, RegistryTypeOK
<1>2. CASE exec' = exec
  <2>1. exec' = [e \in Executions |-> IF e \in {} THEN Cancel(e) ELSE exec[e]]
    BY <1>1, <1>2
  <2>2. {} \in SUBSET Executions
    OBVIOUS
  <2>3. QED
    BY <2>1, <2>2, Zenon DEF SomeCancelled
<1>3. CASE exec' = [e \in Executions |-> Cancel(e)]
  <2>1. exec' = [e \in Executions |-> IF e \in Executions THEN Cancel(e) ELSE exec[e]]
    BY <1>3
  <2>2. Executions \in SUBSET Executions
    OBVIOUS
  <2>3. QED
    BY <2>1, <2>2, Zenon DEF SomeCancelled
<1>4. ASSUME NEW f \in Executions, Cancelled(f)
      PROVE  SomeCancelled
  <2>1. exec' = [exec EXCEPT ![f] = Cancel(f)]
    BY <1>1, <1>4 DEF Cancelled, Cancel, Running
  <2>2. exec' = [e \in Executions |-> IF e \in {f} THEN Cancel(e) ELSE exec[e]]
    BY <1>1, <2>1
  <2>3. QED
    BY <2>2 DEF SomeCancelled
<1>5. QED
  BY <1>2, <1>3, <1>4

\* A cancellation frees nobody's slot, and touches nothing that is over.
LEMMA CancelsAreSound ==
  ASSUME FlowInv, SomeCancelled, tools' = tools
  PROVE  /\ RegistryInv'
         /\ \A e \in Executions :
              /\ exec'[e].pc = "idle" <=> exec[e].pc = "idle"
              /\ exec'[e].gate = exec[e].gate
              /\ exec[e].pc = "idle" => exec'[e] = exec[e]
              /\ exec'[e].pc # "done" => exec'[e] = exec[e]
<1>1. ASSUME NEW e \in Executions
      PROVE  /\ Cancel(e) \in Execution /\ FrameOK(Cancel(e))
             /\ Cancel(e) = exec[e] \/ (Cancel(e).pc = "done" /\ Running(e))
             /\ Cancel(e).gate = exec[e].gate
  <2>1. exec[e] \in Execution /\ FrameOK(exec[e])
    BY DEF FlowInv, RegistryInv, RegistryTypeOK, ExecutionInv
  <2> DEFINE y == [exec[e] EXCEPT !.pc = "done", !.result = "cancelled"]
  <2>2. y \in Execution /\ FrameOK(y) /\ y.pc = "done" /\ y.gate = exec[e].gate
    BY <2>1, CancelledIsSound DEF Execution
  <2>3. Cancel(e) = IF Running(e) THEN y ELSE exec[e]
    BY DEF Cancel
  <2> HIDE DEF y
  <2>4. QED
    BY <2>1, <2>2, <2>3
<1>2. PICK gone \in SUBSET Executions :
        exec' = [e \in Executions |-> IF e \in gone THEN Cancel(e) ELSE exec[e]]
  BY DEF SomeCancelled
<1>3. RegistryInv'
  BY <1>1, <1>2 DEF FlowInv, RegistryInv, RegistryTypeOK, ExecutionInv
<1>4. QED
  BY <1>1, <1>2, <1>3 DEF Running

-----------------------------------------------------------------------------
(* The turn moves, and its calls are at most cancelled.                    *)

LiveCalls ==
  /\ SomeCancelled
  /\ UNCHANGED <<tools, setup, call, raised, seen, call_count>>

\* What the calls keep when the turn moves without them.
LEMMA TurnMoves ==
  ASSUME FlowInv, LiveCalls, turn' \in Turns(Places), BudgetTypeOK', remembered' \in BOOLEAN,
         usage' \in [requests : 0 .. RequestLimit, tokens : Nat, tool_calls : Nat],
         usage.requests <= usage'.requests,
         turn'.pc \in {"recalling", "requesting"} =>
           turn.pc \in {"recalling", "requesting"} /\ usage'.tool_calls = usage.tool_calls,
         turn'.pc = "calling" => turn' = turn /\ usage' = usage,
         turn'.stop_reason = "repeated_failure" =>
           \/ turn.stop_reason = "repeated_failure"
           \/ \E e \in Executions : raised[e] = "RepeatedFailureError",
         PhaseOK'
  PROVE  FlowInv'
<1>1. /\ RegistryInv' /\ grants' = grants
      /\ UNCHANGED <<tools, setup, call, raised, seen, call_count>>
      /\ \A e \in Executions : /\ exec'[e].pc = "idle" <=> exec[e].pc = "idle"
                               /\ exec'[e].gate = exec[e].gate
                               /\ exec[e].pc = "idle" => exec'[e] = exec[e]
                               /\ exec'[e].pc # "done" => exec'[e] = exec[e]
  BY CancelsAreSound DEF LiveCalls, grants
<1>2. TypeOK'
  BY <1>1 DEF FlowInv, RegistryInv, TypeOK
<1>3. ASSUME NEW e \in Executions PROVE CallOK(e)'
  BY <1>1 DEF FlowInv, CallOK, Idle
<1>4. CountsOK'
  <2>1. Dispatched' = Dispatched /\ Asked' = Asked
    BY <1>1 DEF Dispatched, Asked
  <2>2. call_count' <= usage'.requests * Width
    <3>1. /\ usage.requests \in Nat /\ usage'.requests \in Nat /\ Width \in Nat
          /\ call_count \in Nat
      BY FlowAssumption, SlotsAreFinite, RequestsMakeRoom DEF FlowInv, TypeOK
    <3>2. /\ usage.requests * Width <= usage'.requests * Width
          /\ usage.requests * Width \in Nat /\ usage'.requests * Width \in Nat
      BY <3>1, RequestsMakeRoom
    <3>3. QED
      BY <1>1, <3>1, <3>2 DEF FlowInv, CountsOK
  <2>3. QED
    BY <1>1, <2>1, <2>2 DEF FlowInv, CountsOK, ToolCallsWithinLimit
<1>5. FailuresOK'
  <2>1. \A c : FailedCalls(c)' = FailedCalls(c)
    BY <1>1 DEF FailedCalls
  <2>2. QED
    BY <1>1, <2>1 DEF FlowInv, FailuresOK
<1>6. QED
  BY <1>1, <1>2, <1>3, <1>4, <1>5 DEF FlowInv

\* An exception ends the turn. Memory may have been written if it was being
\* written, and the ledger is what it was before.
LEMMA RaisingMoves ==
  ASSUME FlowInv, LiveCalls, UNCHANGED budgetVars, turn.pc # "ended",
         NEW x \in Exceptions, turn' = RaisedBy(x),
         usage' \in [requests : 0 .. RequestLimit, tokens : Nat, tool_calls : Nat],
         \/ usage' = usage
         \/ turn.pc = "requesting" /\ usage.requests <= usage'.requests,
         x = "RepeatedFailureError" =>
           \E e \in Executions : raised[e] = "RepeatedFailureError",
         x = "BudgetExhaustedError" => turn.pc \in {"requesting", "calling"},
         remembered' \in BOOLEAN, remembered' = remembered \/ turn.pc = "remembering"
  PROVE  FlowInv'
<1>1. /\ turn' \in Turns(Places) /\ turn'.pc = "ended" /\ turn'.stop_reason # "success"
      /\ turn'.stop_reason = "repeated_failure" <=> x = "RepeatedFailureError"
      /\ turn'.stop_reason = "budget_exhausted" <=> x = "BudgetExhaustedError"
  BY TurnShapes
<1>2. /\ turn.stop_reason = "none" /\ ~ remembered
      /\ turn.pc \in Places
  BY TurnIsOneOfThem DEF FlowInv, TypeOK, PhaseOK
<1>3. /\ UNCHANGED <<status, clock, setup, call, raised, call_count>>
      /\ \A e \in Executions : exec[e].pc = "idle" => exec'[e] = exec[e]
  BY CancelsAreSound DEF LiveCalls, budgetVars
<1>4. usage' = usage \/ turn.pc = "requesting"
  OBVIOUS
<1>5. CASE remembered'
  <2>1. turn.pc = "remembering" /\ Checked /\ usage' = usage
    BY <1>2, <1>4, <1>5 DEF Checked
  <2>2. Quiet /\ Recorded /\ setup.memory_on
    BY <2>1 DEF FlowInv, PhaseOK
  <2>3. Quiet' /\ Recorded'
    BY <1>3, <2>1, <2>2 DEF Quiet, Recorded, Idle
  <2>4. x # "BudgetExhaustedError"
    BY <2>1
  <2>5. StampedLedgerIsWhole'
    BY <1>1, <2>3, <2>4 DEF Recorded, StampedLedgerIsWhole
  <2>6. PhaseOK'
    BY <1>1, <1>3, <2>2, <2>3, <2>5 DEF PhaseOK
  <2>7. QED
    BY <1>1, <1>3, <2>1, <2>6, TurnMoves DEF FlowInv, TypeOK, BudgetTypeOK
<1>6. CASE ~ remembered'
  <2>1. ~ Checked'
    BY <1>1, <1>6 DEF Checked
  <2>2. StampedLedgerIsWhole'
    <3>1. CASE turn.pc \in {"recalling", "requesting", "calling"}
      BY <1>1, <1>3, <3>1 DEF FlowInv, PhaseOK, Unspent, StampedLedgerIsWhole
    <3>2. CASE turn.pc \in {"extracting", "remembering"}
      <4>1. Recorded /\ usage' = usage /\ x # "BudgetExhaustedError"
        BY <1>4, <3>2 DEF FlowInv, PhaseOK, Checked
      <4>2. QED
        BY <1>1, <1>3, <4>1 DEF Recorded, StampedLedgerIsWhole
    <3>3. QED
      BY <1>2, <3>1, <3>2 DEF Places
  <2>3. PhaseOK'
    BY <1>1, <1>6, <2>1, <2>2 DEF PhaseOK
  <2>4. usage.requests <= usage'.requests
    BY FlowAssumption DEF FlowInv, TypeOK
  <2>5. QED
    BY <1>1, <1>3, <2>3, <2>4, TurnMoves DEF FlowInv, TypeOK, BudgetTypeOK
<1>7. QED
  BY <1>5, <1>6

\* A turn past its check goes on, or succeeds: it alone may remember.
LEMMA LaterMoves ==
  ASSUME FlowInv, LiveCalls, UNCHANGED <<budgetVars, usage, exec>>,
         turn.pc \in {"extracting", "remembering"},
         turn' \in {At("remembering"), Succeeded},
         remembered' \in BOOLEAN, remembered' => turn' = Succeeded
  PROVE  FlowInv'
<1>1. Checked /\ Quiet /\ Recorded /\ setup.memory_on /\ ~ remembered
  BY DEF FlowInv, PhaseOK, Checked
<1>2. /\ turn' \in Turns(Places) /\ turn'.pc \in {"remembering", "ended"}
      /\ turn'.stop_reason \in {"none", "success"}
      /\ remembered' => turn'.pc = "ended"
  BY TurnShapes DEF Places
<1>3. Quiet' /\ Recorded' /\ UNCHANGED <<status, clock, setup, call_count>>
  BY <1>1 DEF Quiet, Recorded, LiveCalls, budgetVars
<1>4. StampedLedgerIsWhole'
  BY <1>2, <1>3 DEF Recorded, StampedLedgerIsWhole
<1>5. PhaseOK'
  BY <1>1, <1>2, <1>3, <1>4 DEF PhaseOK
<1>6. usage.requests <= usage'.requests
  BY FlowAssumption DEF FlowInv, TypeOK
<1>7. QED
  BY <1>2, <1>3, <1>5, <1>6, TurnMoves DEF FlowInv, TypeOK, BudgetTypeOK
\* A step that leaves the calls alone.
LEMMA CallsStay ==
  ASSUME FlowInv, UNCHANGED <<registryVars, setup, call, raised, seen, call_count>>
  PROVE  LiveCalls /\ UNCHANGED exec
  BY WaysToCancel DEF LiveCalls, registryVars

-----------------------------------------------------------------------------
(* The actions.                                                            *)

\* The recall returns or raises.
LEMMA RecallPreserves ==
  ASSUME FlowInv, Recall
  PROVE  FlowInv'
<1>1. /\ turn.pc = "recalling" /\ UNCHANGED <<budgetVars, usage, setup, remembered>>
      /\ UNCHANGED <<registryVars, setup, call, raised, seen, call_count>>
  BY DEF Recall, agentVars
<1>2. LiveCalls /\ UNCHANGED exec
  BY <1>1, CallsStay
<1>3. /\ usage' \in [requests : 0 .. RequestLimit, tokens : Nat, tool_calls : Nat]
      /\ usage.requests <= usage'.requests /\ remembered' \in BOOLEAN
  BY <1>1, FlowAssumption DEF FlowInv, TypeOK
<1>4. CASE turn' = At("requesting")
  <2>1. turn' \in Turns(Places) /\ turn'.pc = "requesting" /\ turn'.stop_reason = "none"
    BY <1>4, TurnShapes DEF Places
  <2>2. PhaseOK'
    BY <1>1, <1>2, <2>1
       DEF FlowInv, PhaseOK, Checked, Quiet, Unspent, StampedLedgerIsWhole, budgetVars
  <2>3. BudgetTypeOK'
    BY <1>1 DEF FlowInv, TypeOK, BudgetTypeOK, budgetVars
  <2>4. QED
    BY <1>1, <1>2, <1>3, <2>1, <2>2, <2>3, TurnMoves
<1>5. CASE turn' = RaisedBy("Exception")
  BY <1>1, <1>2, <1>3, <1>5, RaisingMoves DEF Exceptions
<1>6. QED
  BY <1>4, <1>5 DEF Recall

\* A response is charged to the agent's usage.
LEMMA ChargeIsSound ==
  ASSUME FlowInv, NEW t \in TurnTokens, Charge(t)
  PROVE  /\ usage' \in [requests : 0 .. RequestLimit, tokens : Nat, tool_calls : Nat]
         /\ usage'.requests = usage.requests + 1 /\ usage'.tool_calls = usage.tool_calls
         /\ usage'.tokens = usage.tokens + t
         /\ usage.requests <= usage'.requests /\ turn.pc = "requesting"
<1>1. /\ t \in Nat /\ RequestLimit \in Nat /\ usage.requests < RequestLimit
      /\ usage \in [requests : 0 .. RequestLimit, tokens : Nat, tool_calls : Nat]
      /\ usage' = [usage EXCEPT !.requests = usage.requests + 1, !.tokens = usage.tokens + t]
      /\ turn.pc = "requesting"
  BY FlowAssumption DEF FlowInv, TypeOK, Charge
<1>2. usage.requests + 1 \in 0 .. RequestLimit /\ usage.tokens + t \in Nat
      /\ usage.tool_calls \in Nat /\ usage.requests \in Nat
  BY <1>1
<1>3. /\ usage'.requests = usage.requests + 1 /\ usage'.tokens = usage.tokens + t
      /\ usage'.tool_calls = usage.tool_calls
  BY <1>1
<1>4. usage' \in [requests : 0 .. RequestLimit, tokens : Nat, tool_calls : Nat]
  BY <1>1, <1>2
<1>5. QED
  BY <1>1, <1>2, <1>3, <1>4

\* A limit of the agent strikes.
LEMMA UsageLimitPreserves ==
  ASSUME FlowInv, UsageLimitExceeded
  PROVE  FlowInv'
<1>1. /\ UNCHANGED <<budgetVars, setup, remembered>> /\ turn' = RaisedBy("BudgetExhaustedError")
      /\ UNCHANGED <<registryVars, setup, call, raised, seen, call_count>>
  BY DEF UsageLimitExceeded, LeavesLedger, budgetVars
<1>2. LiveCalls /\ remembered' \in BOOLEAN
  BY <1>1, CallsStay DEF FlowInv, TypeOK
<1>3. /\ turn.pc = "requesting" /\ usage.requests <= usage'.requests
      /\ usage' \in [requests : 0 .. RequestLimit, tokens : Nat, tool_calls : Nat]
  <2>1. CASE turn.pc = "requesting" /\ UNCHANGED usage
    BY <2>1, FlowAssumption DEF FlowInv, TypeOK
  <2>2. CASE \E t \in TurnTokens : Charge(t)
    BY <2>2, ChargeIsSound
  <2>3. QED
    BY <2>1, <2>2 DEF UsageLimitExceeded
<1>4. QED
  BY <1>1, <1>2, <1>3, RaisingMoves DEF Exceptions

\* The provider does not answer.
LEMMA ProviderFailsPreserves ==
  ASSUME FlowInv, ProviderFails
  PROVE  FlowInv'
<1>1. /\ turn.pc = "requesting" /\ UNCHANGED <<budgetVars, usage, remembered>>
      /\ turn' = RaisedBy("Exception")
      /\ UNCHANGED <<registryVars, setup, call, raised, seen, call_count>>
  BY DEF ProviderFails, agentVars
<1>2. LiveCalls /\ remembered' \in BOOLEAN
  BY <1>1, CallsStay DEF FlowInv, TypeOK
<1>3. usage' \in [requests : 0 .. RequestLimit, tokens : Nat, tool_calls : Nat]
  BY <1>1 DEF FlowInv, TypeOK
<1>4. QED
  BY <1>1, <1>2, <1>3, RaisingMoves DEF Exceptions

\* One of the calls has raised.
LEMMA BatchRaisesPreserves ==
  ASSUME FlowInv, BatchRaises
  PROVE  FlowInv'
<1>1. /\ turn.pc = "calling" /\ UNCHANGED <<budgetVars, usage, remembered>>
      /\ UNCHANGED <<tools, setup, call, raised, seen, call_count>>
  BY DEF BatchRaises, agentVars
<1>2. LiveCalls /\ remembered' \in BOOLEAN
  BY <1>1, WaysToCancel DEF LiveCalls, BatchRaises, FlowInv, TypeOK
<1>3. PICK e \in Executions : raised[e] \in Exceptions /\ turn' = RaisedBy(raised[e])
  BY DEF BatchRaises, Asked, FlowInv, TypeOK
<1>4. usage' \in [requests : 0 .. RequestLimit, tokens : Nat, tool_calls : Nat]
  BY <1>1 DEF FlowInv, TypeOK
<1>5. QED
  BY <1>1, <1>2, <1>3, <1>4, RaisingMoves

\* Ctrl-C.
LEMMA InterruptPreserves ==
  ASSUME FlowInv, Interrupt
  PROVE  FlowInv'
<1>1. /\ turn.pc # "ended" /\ UNCHANGED <<budgetVars, usage>>
      /\ turn' = RaisedBy("CancelledError")
      /\ UNCHANGED <<tools, setup, call, raised, seen, call_count>>
  BY DEF Interrupt, agentVars
<1>2. /\ remembered' \in BOOLEAN
      /\ remembered' = remembered \/ turn.pc = "remembering"
  BY DEF Interrupt, FlowInv, TypeOK
<1>3. LiveCalls
  BY <1>1, WaysToCancel DEF LiveCalls, Interrupt
<1>4. usage' \in [requests : 0 .. RequestLimit, tokens : Nat, tool_calls : Nat]
  BY <1>1 DEF FlowInv, TypeOK
<1>5. QED
  BY <1>1, <1>2, <1>3, <1>4, RaisingMoves DEF Exceptions

\* The extractor, and the store.
LEMMA MemoryPreserves ==
  ASSUME FlowInv, Extract \/ Remember
  PROVE  FlowInv'
<1>1. /\ turn.pc \in {"extracting", "remembering"} /\ UNCHANGED <<budgetVars, usage>>
      /\ UNCHANGED <<registryVars, setup, call, raised, seen, call_count>>
  BY DEF Extract, Remember, agentVars
<1>2. LiveCalls /\ UNCHANGED exec
  BY <1>1, CallsStay
<1>3. /\ usage' \in [requests : 0 .. RequestLimit, tokens : Nat, tool_calls : Nat]
      /\ remembered' \in BOOLEAN
  BY <1>1 DEF FlowInv, TypeOK, Extract, Remember
<1>4. ~ remembered
  BY <1>1 DEF FlowInv, PhaseOK
<1>5. CASE turn' = RaisedBy("Exception") /\ (remembered' = remembered \/ turn.pc = "remembering")
  BY <1>1, <1>2, <1>3, <1>5, RaisingMoves DEF Exceptions
<1>6. CASE turn' \in {At("remembering"), Succeeded} /\ (remembered' => turn' = Succeeded)
  BY <1>1, <1>2, <1>3, <1>6, LaterMoves
<1>7. QED
  BY <1>4, <1>5, <1>6 DEF Extract, Remember

\* A step that only cancels a call, or lets time pass.
LEMMA IdleStepPreserves ==
  ASSUME FlowInv, LiveCalls, UNCHANGED <<status, usage, turn, remembered>>, clock' \in Nat,
         turn.pc = "ended" \/ UNCHANGED exec
  PROVE  FlowInv'
<1>1. \A e \in Executions : exec[e].pc = "idle" => exec'[e] = exec[e]
  BY CancelsAreSound DEF LiveCalls
<1>2. PhaseOK'
  BY <1>1 DEF FlowInv, LiveCalls, PhaseOK, Checked, Quiet, Recorded, Unspent,
              StampedLedgerIsWhole, Idle
<1>3. /\ BudgetTypeOK' /\ remembered' \in BOOLEAN /\ turn' \in Turns(Places)
      /\ usage' \in [requests : 0 .. RequestLimit, tokens : Nat, tool_calls : Nat]
      /\ usage.requests <= usage'.requests
  BY FlowAssumption DEF FlowInv, TypeOK, BudgetTypeOK
<1>4. QED
  BY <1>2, <1>3, TurnMoves

\* The event loop is closed.
LEMMA TeardownPreserves ==
  ASSUME FlowInv, NEW e \in Executions, Teardown(e)
  PROVE  FlowInv'
<1>1. /\ turn.pc = "ended" /\ Cancelled(e)
      /\ UNCHANGED <<tools, clock, status, usage, call, raised, seen, call_count,
                     setup, turn, remembered>>
  BY DEF Teardown, Cancelled, budgetVars, agentVars, flowVars
<1>2. LiveCalls /\ clock' \in Nat
  BY <1>1, WaysToCancel DEF LiveCalls, FlowInv, TypeOK, BudgetTypeOK
<1>3. QED
  BY <1>1, <1>2, IdleStepPreserves

\* A second passes.
LEMMA TimePreserves ==
  ASSUME FlowInv, Time
  PROVE  FlowInv'
<1>1. /\ UNCHANGED <<status, usage, turn, remembered>> /\ clock' \in Nat
      /\ UNCHANGED <<registryVars, setup, call, raised, seen, call_count>>
  BY DEF Time, Tick, agentVars, flowVars, FlowInv, TypeOK, BudgetTypeOK
<1>2. LiveCalls /\ UNCHANGED exec
  BY <1>1, CallsStay
<1>3. QED
  BY <1>1, <1>2, IdleStepPreserves
\* A batch is admitted: nothing of it is dispatched yet.
LEMMA ModelAsksPreserves ==
  ASSUME FlowInv, ModelAsks
  PROVE  FlowInv'
<1>1. /\ UNCHANGED <<tools, exec, clock, status, raised, seen, call_count, setup, remembered>>
      /\ turn' = At("calling")
  BY DEF ModelAsks, registryVars, budgetVars
<1>2. PICK t \in TurnTokens : Charge(t)
  BY DEF ModelAsks
<1>3. /\ usage' \in [requests : 0 .. RequestLimit, tokens : Nat, tool_calls : Nat]
      /\ usage'.requests = usage.requests + 1 /\ usage'.tool_calls = usage.tool_calls
      /\ turn.pc = "requesting" /\ usage.requests \in Nat /\ usage.tool_calls \in Nat
      /\ call_count \in Nat
  BY <1>2, ChargeIsSound, SlotsAreFinite, FlowAssumption, RequestsMakeRoom DEF FlowInv, TypeOK
<1>4. /\ call' \in [Executions -> {c \in Invocations : c[1] \in wired} \cup {NoCall}]
      /\ ~ Exceeds(usage.tool_calls + Cardinality(Asked'), setup.budget.max_tool_calls)
  BY DEF ModelAsks, Asked, limits, usage_limits
<1>5. Quiet /\ Unspent /\ call_count = usage.tool_calls /\ ~ remembered
  BY <1>3 DEF FlowInv, PhaseOK, CountsOK
<1>6. /\ turn' \in Turns(Places) /\ turn'.pc = "calling" /\ turn'.stop_reason = "none"
  BY <1>1, TurnShapes DEF Places
<1>7. RegistryInv' /\ grants' = grants
  BY <1>1 DEF FlowInv, RegistryInv, RegistryTypeOK, ExecutionInv, grants
<1>8. TypeOK'
  <2>1. call' \in [Executions -> Invocations \cup {NoCall}]
    BY <1>4
  <2>2. QED
    BY <1>1, <1>3, <1>6, <1>7, <2>1 DEF FlowInv, RegistryInv, TypeOK, BudgetTypeOK
<1>9. ASSUME NEW e \in Executions PROVE CallOK(e)'
  BY <1>1, <1>4, <1>5 DEF CallOK, Quiet, wired, scoped, Idle
<1>10. CountsOK'
  <2>1. Dispatched' = {} /\ Cardinality(Dispatched') = 0
    BY <1>1, <1>5, FS_EmptySet DEF Dispatched, Quiet, Idle
  <2>2. /\ usage.requests * Width \in Nat /\ Width \in Nat
        /\ (usage.requests + 1) * Width = usage.requests * Width + Width
    BY <1>3, RequestsMakeRoom, SlotsAreFinite
  <2>3. call_count <= usage.requests * Width
    BY DEF FlowInv, CountsOK
  <2>4. /\ call_count' <= usage'.requests * Width
        /\ usage'.tool_calls + Width <= usage'.requests * Width
        /\ call_count' = usage'.tool_calls + Cardinality(Dispatched')
    BY <1>1, <1>3, <1>5, <2>1, <2>2, <2>3
  <2>5. ToolCallsWithinLimit'
    BY <1>1 DEF FlowInv, CountsOK, ToolCallsWithinLimit
  <2>6. QED
    BY <1>1, <1>3, <1>4, <1>6, <2>4, <2>5 DEF CountsOK
<1>11. FailuresOK'
  <2>1. \A c : FailedCalls(c) = {} /\ FailedCalls(c)' = {}
    BY <1>1, <1>5 DEF FailedCalls, Quiet
  <2>2. QED
    BY <1>1, <1>5, <1>6, <2>1 DEF FlowInv, FailuresOK, Quiet
<1>12. PhaseOK'
  BY <1>1, <1>5, <1>6 DEF PhaseOK, Checked, Unspent, StampedLedgerIsWhole
<1>13. QED
  BY <1>7, <1>8, <1>9, <1>10, <1>11, <1>12 DEF FlowInv

\* The batch is over and nothing of it has failed: the agent counts it.
LEMMA BatchDonePreserves ==
  ASSUME FlowInv, BatchDone
  PROVE  FlowInv'
<1>1. /\ turn.pc = "calling" /\ turn' = At("requesting")
      /\ \A e \in Asked : exec[e].pc = "done" /\ raised[e] = "none"
      /\ usage' = [usage EXCEPT !.tool_calls = @ + Cardinality(Asked)]
      /\ call' = [e \in Executions |-> NoCall]
      /\ exec' = [e \in Executions |-> Idle]
      /\ UNCHANGED <<tools, clock, status, raised, seen, call_count, setup, remembered>>
  BY DEF BatchDone, budgetVars
<1>2. /\ turn' \in Turns(Places) /\ turn'.pc = "requesting" /\ turn'.stop_reason = "none"
      /\ ~ remembered
  BY <1>1, TurnShapes DEF Places, FlowInv, PhaseOK
<1>3. Dispatched = Asked
  BY <1>1, DispatchedAreAsked DEF Dispatched, Asked
<1>4. \A e \in Executions : raised[e] = "none"
  BY <1>1 DEF FlowInv, CallOK, Asked
<1>5. /\ usage' \in [requests : 0 .. RequestLimit, tokens : Nat, tool_calls : Nat]
      /\ usage'.requests = usage.requests
      /\ usage'.tool_calls = usage.tool_calls + Cardinality(Asked)
  BY <1>1, DispatchedAreAsked DEF FlowInv, TypeOK
<1>6. RegistryInv'
  BY <1>1, IdleIsSound DEF FlowInv, RegistryInv, RegistryTypeOK, ExecutionInv
<1>7. TypeOK'
  BY <1>1, <1>2, <1>5, <1>6 DEF FlowInv, RegistryInv, TypeOK, BudgetTypeOK
<1>8. Quiet'
  BY <1>1, <1>4 DEF Quiet
<1>9. \A e \in Executions : CallOK(e)'
  BY <1>8 DEF Quiet, CallOK, Idle
<1>10. CountsOK'
  BY <1>1, <1>2, <1>3, <1>5 DEF FlowInv, CountsOK, ToolCallsWithinLimit
<1>11. FailuresOK'
  <2>1. \A k \in FailureKeys : k[1] \in Invocations
    BY DEF FailureKeys
  <2>2. \A c : FailedCalls(c) = {} /\ FailedCalls(c)' = {}
    BY <1>1, <1>4 DEF FailedCalls
  <2>3. QED
    BY <1>1, <1>2, <1>4, <2>2 DEF FlowInv, FailuresOK
<1>12. PhaseOK'
  BY <1>1, <1>2, <1>8 DEF FlowInv, PhaseOK, Checked, Unspent, StampedLedgerIsWhole
<1>13. QED
  BY <1>6, <1>7, <1>9, <1>10, <1>11, <1>12 DEF FlowInv

\* The check keeps every figure, and passes a status within its ceilings only.
LEMMA CheckIsExact ==
  ASSUME NEW b, NEW s \in BudgetStatus
  PROVE  LET t == check_exhaustion(b, s)
         IN  /\ t \in BudgetStatus
             /\ t.tokens_used = s.tokens_used /\ t.tool_calls_used = s.tool_calls_used
             /\ t.elapsed_seconds = s.elapsed_seconds /\ t.cost_usd = s.cost_usd
             /\ ~ exhausted(t) => /\ ~ Exceeds(s.elapsed_seconds, b.max_wall_clock_seconds)
                                  /\ ~ Exceeds(s.cost_usd, b.max_cost_usd)
  BY DEF check_exhaustion, BudgetStatus, exhausted

\* What the ledger shows after the usage of a turn was recorded and checked.
LEMMA LedgerAfterCheck ==
  ASSUME NEW b, NEW price, NEW tokens, NEW calls, NEW s,
         price \in Nat, tokens \in Nat, calls \in Nat,
         status \in BudgetStatus, clock \in Nat, Unspent,
         s = check_wall_clock(b, record_usage(b, price, status, tokens, calls))
  PROVE  /\ s \in BudgetStatus
         /\ s.tokens_used = tokens /\ s.tool_calls_used = calls
         /\ ~ exhausted(s) => /\ ~ Exceeds(s.elapsed_seconds, b.max_wall_clock_seconds)
                              /\ ~ Exceeds(price * tokens, b.max_cost_usd)
<1>1. \A m, n \in Nat : m * n = n * m /\ m * n \in Nat
  OBVIOUS
<1>2. price * tokens = tokens * price /\ tokens * price \in Nat
  BY <1>1
<1> DEFINE r == refresh_wall_clock(status)
           a == [r EXCEPT !.tokens_used = @ + tokens]
           c == [a EXCEPT !.tool_calls_used = calls]
           d == [c EXCEPT !.cost_usd = @ + tokens * price]
           g == check_exhaustion(b, d)
           h == refresh_wall_clock(g)
<1>3. r \in BudgetStatus /\ r.tokens_used = 0 /\ r.cost_usd = 0 /\ r.elapsed_seconds = clock
  BY DEF refresh_wall_clock, Unspent, BudgetStatus
<1>4. record_usage(b, price, status, tokens, calls) = check_exhaustion(b, d)
  <2>1. d = [r EXCEPT !.tokens_used = @ + tokens, !.tool_calls_used = calls,
                      !.cost_usd = @ + tokens * price]
    BY <1>3 DEF BudgetStatus
  <2>2. QED
    BY <2>1 DEF record_usage
<1> HIDE DEF r
<1>5. a \in BudgetStatus /\ a.tokens_used = tokens /\ a.cost_usd = 0
  BY <1>3 DEF BudgetStatus
<1> HIDE DEF a
<1>6. c \in BudgetStatus /\ c.tokens_used = tokens /\ c.cost_usd = 0 /\ c.tool_calls_used = calls
  BY <1>5 DEF BudgetStatus
<1> HIDE DEF c
<1>7. /\ d \in BudgetStatus /\ d.tokens_used = tokens /\ d.tool_calls_used = calls
      /\ d.cost_usd = price * tokens
  BY <1>2, <1>6 DEF BudgetStatus
<1> HIDE DEF d
<1>8. /\ g \in BudgetStatus /\ g.tokens_used = tokens /\ g.tool_calls_used = calls
      /\ g.cost_usd = price * tokens
  BY <1>7, CheckIsExact
<1> HIDE DEF g
<1>9. /\ h \in BudgetStatus /\ h.tokens_used = tokens /\ h.tool_calls_used = calls
      /\ h.cost_usd = price * tokens
  BY <1>8 DEF refresh_wall_clock, BudgetStatus
<1>10. check_wall_clock(b, g) = check_exhaustion(b, h)
  BY DEF check_wall_clock
<1> HIDE DEF h
<1>11. QED
  BY <1>4, <1>9, <1>10, CheckIsExact DEF g

\* The final response: recorded, checked, and only then remembered.
LEMMA ModelAnswersPreserves ==
  ASSUME FlowInv, NEW output \in {"empty", "text"}, ModelAnswers(output)
  PROVE  FlowInv'
<1>1. UNCHANGED <<registryVars, clock, call, raised, seen, call_count, setup, remembered>>
  BY DEF ModelAnswers
<1>2. PICK t \in TurnTokens : Charge(t) /\ WithinTokens
  BY DEF ModelAnswers
<1>3. /\ usage' \in [requests : 0 .. RequestLimit, tokens : Nat, tool_calls : Nat]
      /\ usage'.tool_calls = usage.tool_calls /\ usage.requests <= usage'.requests
      /\ turn.pc = "requesting"
  BY <1>2, ChargeIsSound
<1>4. Quiet /\ Unspent /\ call_count = usage.tool_calls /\ ~ remembered /\ call_count \in Nat
  BY <1>3, FlowAssumption, RequestsMakeRoom, SlotsAreFinite DEF FlowInv, PhaseOK, CountsOK, TypeOK
<1>5. status' = check_wall_clock(setup.budget,
                  record_usage(setup.budget, setup.price, status, usage'.tokens, call_count))
  BY <1>4 DEF ModelAnswers
<1>6. /\ status' \in BudgetStatus
      /\ status'.tokens_used = usage'.tokens /\ status'.tool_calls_used = call_count
      /\ ~ exhausted(status') =>
           /\ ~ Exceeds(status'.elapsed_seconds, setup.budget.max_wall_clock_seconds)
           /\ ~ Exceeds(setup.price * usage'.tokens, setup.budget.max_cost_usd)
  <2>1. setup.price \in Nat /\ usage'.tokens \in Nat /\ status \in BudgetStatus /\ clock \in Nat
    BY <1>3, FlowAssumption DEF FlowInv, TypeOK, Setup, BudgetTypeOK
  <2>2. QED
    BY <1>4, <1>5, <2>1, LedgerAfterCheck
<1>7. ~ Exceeds(usage'.tokens, setup.budget.max_total_tokens)
  BY <1>2 DEF WithinTokens, limits, usage_limits
<1>8. LiveCalls /\ UNCHANGED <<exec, setup, call_count>> /\ ~ remembered' /\ Quiet'
  BY <1>1, <1>4, CallsStay DEF Quiet, registryVars
<1>9. CASE exhausted(status') /\ turn' = RaisedBy("BudgetExhaustedError")
  <2>1. /\ turn' \in Turns(Places) /\ turn'.pc = "ended"
        /\ turn'.stop_reason = "budget_exhausted"
    BY <1>9, TurnShapes DEF Exceptions
  <2>2. PhaseOK'
    BY <1>6, <1>8, <1>9, <2>1 DEF PhaseOK, Checked, StampedLedgerIsWhole
  <2>3. QED
    BY <1>1, <1>3, <1>6, <1>8, <2>1, <2>2, TurnMoves DEF FlowInv, TypeOK, BudgetTypeOK
<1>10. CASE ~ exhausted(status') /\ turn' = AfterCheck(output)
  <2>1. Recorded'
    BY <1>6, <1>7, <1>8, <1>10 DEF Recorded
  <2>2. /\ turn' \in {At("extracting"), At("remembering"), Succeeded}
        /\ turn' # Succeeded => setup.memory_on
    BY <1>10 DEF AfterCheck
  <2>3. /\ turn' \in Turns(Places) /\ turn'.pc \in {"extracting", "remembering", "ended"}
        /\ turn'.stop_reason \in {"none", "success"}
        /\ turn'.pc # "ended" => setup.memory_on
    BY <2>2, TurnShapes DEF Places
  <2>4. StampedLedgerIsWhole'
    BY <1>8, <2>1, <2>3 DEF Recorded, StampedLedgerIsWhole
  <2>5. PhaseOK'
    BY <1>8, <2>1, <2>3, <2>4 DEF PhaseOK
  <2>6. QED
    BY <1>1, <1>3, <1>6, <1>8, <2>3, <2>5, TurnMoves DEF FlowInv, TypeOK, BudgetTypeOK
<1>11. QED
  BY <1>9, <1>10 DEF ModelAnswers

\* Every step preserves the invariant.
LEMMA FlowNextPreserves == FlowInv /\ [Next]_vars => FlowInv'
<1> SUFFICES ASSUME FlowInv, [Next]_vars PROVE FlowInv'
  OBVIOUS
<1>1. CASE Recall \/ Extract \/ Remember
  BY <1>1, RecallPreserves, MemoryPreserves
<1>2. CASE UsageLimitExceeded \/ ProviderFails \/ ModelAsks
  BY <1>2, UsageLimitPreserves, ProviderFailsPreserves, ModelAsksPreserves
<1>3. ASSUME NEW output \in {"empty", "text"}, ModelAnswers(output) PROVE FlowInv'
  BY <1>3, ModelAnswersPreserves
<1>4. ASSUME NEW e \in Executions, Dispatch(e) \/ Resume(e) \/ Teardown(e) PROVE FlowInv'
  BY <1>4, DispatchPreserves, ResumePreserves, TeardownPreserves
<1>5. CASE BatchDone \/ BatchRaises
  BY <1>5, BatchDonePreserves, BatchRaisesPreserves
<1>6. CASE Interrupt \/ Time
  BY <1>6, InterruptPreserves, TimePreserves
<1>7. CASE UNCHANGED vars
  <2>1. /\ UNCHANGED <<registryVars, setup, call, raised, seen, call_count>>
        /\ UNCHANGED <<status, usage, turn, remembered, clock>>
    BY <1>7 DEF vars, budgetVars, agentVars, flowVars
  <2>2. LiveCalls /\ UNCHANGED exec /\ clock' \in Nat
    BY <2>1, CallsStay DEF FlowInv, TypeOK, BudgetTypeOK
  <2>3. QED
    BY <2>1, <2>2, IdleStepPreserves
<1>8. QED
  BY <1>1, <1>2, <1>3, <1>4, <1>5, <1>6, <1>7 DEF Next, ModelResponds

\* So the invariant holds throughout.
LEMMA FlowInvariance == Spec => []FlowInv
<1>1. Init => FlowInv
  BY FlowInitHolds
<1>2. QED
  BY <1>1, FlowNextPreserves, PTL DEF Spec
-----------------------------------------------------------------------------
(* What holds of every turn.                                               *)

\* Every variable has its shape, the detector and the counters their bounds:
\* no error is counted more often than a response has calls.
THEOREM AgentTypeCorrect == Spec => []TypeOK
<1>1. FlowInv => TypeOK
  BY DEF FlowInv
<1>2. QED
  BY <1>1, FlowInvariance, PTL

\* A turn that succeeds has stayed within all four ceilings, and the ledger
\* shows what it used.
THEOREM SuccessIsAffordable == Spec => []SuccessWithinBudget
<1>1. ASSUME FlowInv PROVE SuccessWithinBudget
  BY <1>1 DEF FlowInv, PhaseOK, Checked, Recorded, CountsOK, ToolCallsWithinLimit,
              SuccessWithinBudget
<1>2. QED
  BY <1>1, FlowInvariance, PTL

\* However many calls a response asks for at once, no run is taken past
\* max_tool_calls.
THEOREM BatchesAreAdmittedWhole == Spec => []ToolCallsWithinLimit
<1>1. FlowInv => ToolCallsWithinLimit
  BY DEF FlowInv, CountsOK
<1>2. QED
  BY <1>1, FlowInvariance, PTL

\* run_turn stamps the whole usage of a turn or nothing, and its verdict is
\* the one the turn reports.
THEOREM StampsAreWhole == Spec => []StampedLedgerIsWhole
<1>1. FlowInv => StampedLedgerIsWhole
  BY DEF FlowInv, PhaseOK
<1>2. QED
  BY <1>1, FlowInvariance, PTL

\* While nothing has failed, nothing is counted as a failure.
LEMMA NothingFailedUncounted ==
  ASSUME FlowInv, \A e \in Executions : raised[e] = "none"
  PROVE  \A k \in FailureKeys : seen[k] = 0
<1>1. ASSUME NEW k \in FailureKeys PROVE seen[k] = 0
  <2>1. FailedCalls(k[1]) = {}
    BY DEF FailedCalls
  <2>2. seen[k] \in 0 .. Width /\ seen[k] <= Cardinality(FailedCalls(k[1]))
    BY DEF FlowInv, FailuresOK, TypeOK, Width
  <2>3. QED
    BY <2>1, <2>2, SlotsAreFinite, FS_EmptySet
<1>2. QED
  BY <1>1

\* What is in memory comes from a turn that had passed its check, and of
\* which no tool call failed.
THEOREM MemoryIsOfCheckedTurns == Spec => []OnlyCheckedTurnsAreRemembered
<1>1. ASSUME FlowInv, remembered PROVE OnlyCheckedTurnsAreRemembered
  <2>1. Quiet /\ Recorded /\ setup.memory_on
    BY <1>1 DEF FlowInv, PhaseOK, Checked
  <2>2. \A e \in Executions : raised[e] = "none"
    BY <2>1 DEF Quiet
  <2>3. QED
    BY <1>1, <2>1, <2>2, NothingFailedUncounted DEF Recorded, OnlyCheckedTurnsAreRemembered
<1>2. FlowInv => OnlyCheckedTurnsAreRemembered
  BY <1>1 DEF OnlyCheckedTurnsAreRemembered
<1>3. QED
  BY <1>2, FlowInvariance, PTL

\* A set of at least two calls has two different ones.
LEMMA TwoOfThem ==
  ASSUME NEW T \in SUBSET Executions, Cardinality(T) >= 2
  PROVE  \E e, f \in T : e # f
<1>1. IsFiniteSet(T)
  BY SlotsAreFinite
<1>2. T # {}
  BY FS_EmptySet
<1>3. PICK e \in T : TRUE
  BY <1>2
<1>4. IsFiniteSet(T \ {e}) /\ Cardinality(T \ {e}) = Cardinality(T) - 1
  BY <1>1, <1>3, FS_RemoveElement
<1>5. Cardinality(T) \in Nat
  BY SlotsAreFinite
<1>6. T \ {e} # {}
  BY <1>4, <1>5, FS_EmptySet
<1>7. QED
  BY <1>3, <1>6

\* Nobody is told that a failure repeats that has not happened twice.
THEOREM RepeatedFailuresRepeat == Spec => []RepeatedFailureIsARepeat
<1>1. ASSUME FlowInv, turn.stop_reason = "repeated_failure" PROVE RepeatedFailureIsARepeat
  <2>1. PICK k \in FailureKeys : seen[k] >= 2
    BY <1>1 DEF FlowInv, FailuresOK
  <2>2. seen[k] <= Cardinality(FailedCalls(k[1])) /\ seen[k] \in Nat
    BY <1>1 DEF FlowInv, FailuresOK, TypeOK
  <2>3. FailedCalls(k[1]) \in SUBSET Executions /\ Cardinality(FailedCalls(k[1])) \in Nat
    BY SlotsAreFinite DEF FailedCalls
  <2>4. PICK e, f \in FailedCalls(k[1]) : e # f
    BY <2>1, <2>2, <2>3, TwoOfThem
  <2>5. QED
    BY <2>1, <2>4 DEF FailedCalls, RepeatedFailureIsARepeat
<1>2. FlowInv => RepeatedFailureIsARepeat
  BY <1>1 DEF RepeatedFailureIsARepeat
<1>3. QED
  BY <1>2, FlowInvariance, PTL

\* The gate of the services decides every call, also of a turn that is over.
THEOREM ServicesGateIsInForce == Spec => []ServicesGateDecides
<1>1. ASSUME FlowInv, NEW e \in Executions, exec[e].ran # NoSpec, setup.approval_gate # NoGate
      PROVE  LET tier == SpecTier[exec[e].ran]
             IN  \/ Admits(setup.approval_gate, tier)
                 \/ Asks(setup.approval_gate, tier) /\ exec[e].approved = tier
  <2>1. exec[e].pc # "idle"
    BY <1>1, FreeSlotIsIdle DEF Idle
  <2>2. exec[e].gate = setup.approval_gate
    BY <1>1, <2>1 DEF FlowInv, CallOK, grants
  <2>3. QED
    BY <1>1, <2>2 DEF FlowInv, RegistryInv, ExecutionInv, FrameOK
<1>2. FlowInv => ServicesGateDecides
  BY <1>1 DEF ServicesGateDecides
<1>3. QED
  BY <1>2, FlowInvariance, PTL

-----------------------------------------------------------------------------
(* The flow is a Turn.                                                     *)

\* How a step can touch the facts or a turn that has ended.
LEMMA StepsOfTheTurn ==
  ASSUME FlowInv, [Next]_vars
  PROVE  /\ setup' = setup
         /\ turn.pc = "ended" => turn' = turn
         /\ remembered' # remembered =>
              /\ turn.pc = "remembering"
              /\ turn' \in {Succeeded, RaisedBy("Exception"), RaisedBy("CancelledError")}
<1>1. ASSUME NEW e \in Executions, Dispatch(e) \/ Resume(e) \/ Teardown(e)
      PROVE  setup' = setup /\ turn' = turn /\ remembered' = remembered
  BY <1>1 DEF Dispatch, Resume, Teardown, flowVars
<1>2. CASE Recall \/ Extract
  BY <1>2 DEF Recall, Extract
<1>3. CASE UsageLimitExceeded \/ ProviderFails \/ ModelAsks
  BY <1>3, ChargeIsSound DEF UsageLimitExceeded, ProviderFails, ModelAsks
<1>4. ASSUME NEW output \in {"empty", "text"}, ModelAnswers(output)
      PROVE  setup' = setup /\ remembered' = remembered /\ turn.pc = "requesting"
  BY <1>4, ChargeIsSound DEF ModelAnswers
<1>5. CASE BatchDone \/ BatchRaises
  BY <1>5 DEF BatchDone, BatchRaises
<1>6. CASE Remember
  BY <1>6 DEF Remember
<1>7. CASE Interrupt
  BY <1>7 DEF Interrupt
<1>8. CASE Time \/ UNCHANGED vars
  BY <1>8 DEF Time, vars, flowVars
<1>9. QED
  BY <1>1, <1>2, <1>3, <1>4, <1>5, <1>6, <1>7, <1>8 DEF Next, ModelResponds

\* Every step ends the turn, together with its facts, or is not seen.
LEMMA StepIsAStepOfTheTurn ==
  ASSUME FlowInv, FlowInv', [Next]_vars
  PROVE  [Contract!End \/ Contract!Later]_(Contract!vars)
<1>1. /\ setup' = setup
      /\ turn.pc = "ended" => turn' = turn /\ remembered' = remembered
      /\ turn \in Turns(Places) /\ turn' \in Turns(Places) /\ remembered' \in BOOLEAN
  BY StepsOfTheTurn DEF FlowInv, TypeOK
<1>2. CASE turn.pc = "ended"
  BY <1>1, <1>2, StepsOfTheTurn DEF Contract!vars
<1>3. CASE turn.pc # "ended"
  <2>1. setup' = setup /\ ~ remembered /\ turn.stop_reason = "none"
    BY <1>1, <1>3, StepsOfTheTurn, TurnIsOneOfThem DEF FlowInv, PhaseOK
  <2>2. CASE remembered'
    <3>1. /\ turn' \in {Succeeded, RaisedBy("Exception"), RaisedBy("CancelledError")}
          /\ setup.memory_on
      BY <2>1, <2>2, StepsOfTheTurn DEF FlowInv, PhaseOK
    <3>2. turn'.stop_reason \in {"success", "uncaught"}
      BY <3>1 DEF Succeeded, RaisedBy, StopReason
    <3>3. [stop_reason |-> turn'.stop_reason, facts |-> TRUE] \in Contract!Outcomes(setup.memory_on)
      BY <3>1, <3>2 DEF Contract!Outcomes
    <3>4. remembered' = TRUE
      BY <2>2, <1>1
    <3>5. QED
      BY <2>1, <3>3, <3>4 DEF Contract!End
  <2>3. CASE ~ remembered' /\ turn'.stop_reason \in StopReasons
    <3>1. [stop_reason |-> turn'.stop_reason, facts |-> FALSE] \in Contract!Outcomes(setup.memory_on)
      BY <2>3 DEF Contract!Outcomes, Contract!StopReasons, StopReasons
    <3>2. remembered' = FALSE
      BY <1>1, <2>3
    <3>3. QED
      BY <2>1, <3>1, <3>2 DEF Contract!End
  <2>4. CASE ~ remembered' /\ turn'.stop_reason = "none"
    <3>1. remembered' = remembered
      BY <1>1, <2>1, <2>4 DEF FlowInv, TypeOK
    <3>2. QED
      BY <2>1, <2>4, <3>1 DEF Contract!vars
  <2>5. turn'.stop_reason \in StopReasons \cup {"none"}
    BY <1>1, TurnIsOneOfThem
  <2>6. QED
    BY <2>2, <2>3, <2>4, <2>5
<1>4. QED
  BY <1>2, <1>3

\* To whoever awaits it, the flow is a Turn: it ends once, with all it leaves
\* in memory, and what run_turn converts into a failure has left nothing.
THEOREM AgentImplementsTurn == Spec => TurnSpec
<1>1. Init => Contract!Init
  <2>1. ASSUME Init PROVE setup.memory_on \in BOOLEAN /\ turn.stop_reason = "none"
    BY <2>1, FlowAssumption DEF Init, Setup, At
  <2>2. QED
    BY <2>1 DEF Init, Contract!Init
<1>2. FlowInv /\ FlowInv' /\ [Next]_vars => [Contract!End \/ Contract!Later]_(Contract!vars)
  BY StepIsAStepOfTheTurn
<1>3. QED
  BY <1>1, <1>2, FlowInvariance, PTL DEF Spec, TurnSpec, Contract!Spec

-----------------------------------------------------------------------------
(* How far a turn has come. TurnEnds needs fairness and stays with TLC;     *)
(* that no turn can go on for ever needs none.                             *)

\* Each request has a place of its own, and so has each batch of calls.
TurnDepth(pc, requests) ==
  CASE pc = "recalling"   -> 0
    [] pc = "requesting"  -> 2 * requests + 1
    [] pc = "calling"     -> 2 * requests
    [] pc = "extracting"  -> 2 * RequestLimit + 2
    [] pc = "remembering" -> 2 * RequestLimit + 3
    [] OTHER              -> 2 * RequestLimit + 4

\* A step takes the turn to a later await; or it leaves the turn where it is,
\* and takes one of the calls to a later await, or lets a second pass.
TurnAdvances ==
  LET before == TurnDepth(turn.pc, usage.requests)
      after  == TurnDepth(turn'.pc, usage'.requests)
  IN  \/ after \in before + 1 .. 2 * RequestLimit + 4
      \/ /\ UNCHANGED <<turn, usage>>
         /\ \/ exec' = exec /\ clock' = clock + 1
            \/ UNCHANGED clock /\ \E e \in Executions : CallAdvances(e)

\* The depth of a turn is bounded by the number of its requests.
LEMMA DepthIsBounded ==
  ASSUME NEW pc \in Places \cup {"ended"}, NEW n \in 0 .. RequestLimit
  PROVE  /\ TurnDepth(pc, n) \in 0 .. 2 * RequestLimit + 4
         /\ pc # "ended" => TurnDepth(pc, n) < 2 * RequestLimit + 4
<1>1. n \in Nat /\ n <= RequestLimit /\ RequestLimit \in Nat
  BY FlowAssumption
<1>2. QED
  BY <1>1 DEF TurnDepth, Places

\* What a state says of it.
LEMMA DepthOfTheTurn ==
  ASSUME FlowInv
  PROVE  turn.pc \in Places \cup {"ended"} /\ usage.requests \in 0 .. RequestLimit
  BY TurnIsOneOfThem DEF FlowInv, TypeOK

\* Every step that takes the turn elsewhere takes it forward.
LEMMA TurnGoesOn ==
  ASSUME FlowInv, FlowInv',
         \/ Recall \/ ModelResponds \/ BatchDone \/ BatchRaises \/ Extract \/ Remember
         \/ Interrupt
  PROVE  TurnAdvances
<1> DEFINE n == usage.requests
           m == usage'.requests
<1>1. /\ RequestLimit \in Nat /\ n \in Nat /\ m \in Nat
      /\ n \in 0 .. RequestLimit /\ m \in 0 .. RequestLimit
      /\ turn.pc \in Places \cup {"ended"} /\ turn'.pc \in Places \cup {"ended"}
  BY FlowAssumption, DepthOfTheTurn, TurnIsOneOfThem DEF FlowInv, TypeOK
<1> HIDE DEF n, m
<1>2. SUFFICES TurnDepth(turn'.pc, m) > TurnDepth(turn.pc, n)
  <2>1. /\ TurnDepth(turn'.pc, m) \in 0 .. 2 * RequestLimit + 4
        /\ TurnDepth(turn.pc, n) \in 0 .. 2 * RequestLimit + 4
    BY <1>1, DepthIsBounded
  <2> DEFINE after == TurnDepth(turn'.pc, m)
             before == TurnDepth(turn.pc, n)
  <2> HIDE DEF after, before
  <2>2. after > before => after \in before + 1 .. 2 * RequestLimit + 4
    BY <1>1, <2>1 DEF after, before
  <2>3. QED
    BY <2>2 DEF TurnAdvances, n, m, after, before
<1>3. ASSUME turn.pc # "ended", turn' = Succeeded \/ \E x : turn' = RaisedBy(x)
      PROVE  TurnDepth(turn'.pc, m) > TurnDepth(turn.pc, n)
  <2>1. turn'.pc = "ended"
    BY <1>3 DEF Succeeded, RaisedBy
  <2>2. TurnDepth("ended", m) = 2 * RequestLimit + 4
    BY DEF TurnDepth
  <2>3. TurnDepth(turn.pc, n) < 2 * RequestLimit + 4 /\ TurnDepth(turn.pc, n) \in Nat
    BY <1>1, <1>3, DepthIsBounded
  <2>4. QED
    BY <1>1, <2>1, <2>2, <2>3
<1>4. \A p : At(p).pc = p
  BY DEF At
<1>5. CASE Recall
  <2>1. turn.pc = "recalling" /\ (turn' = At("requesting") \/ turn' = RaisedBy("Exception"))
    BY <1>5 DEF Recall
  <2>2. CASE turn' = At("requesting")
    BY <1>1, <1>4, <2>1, <2>2 DEF TurnDepth
  <2>3. QED
    BY <1>3, <2>1, <2>2
<1>6. CASE UsageLimitExceeded \/ ProviderFails
  <2>1. turn.pc = "requesting"
    BY <1>6, ChargeIsSound DEF UsageLimitExceeded, ProviderFails
  <2>2. QED
    BY <1>3, <1>6, <2>1 DEF UsageLimitExceeded, ProviderFails
<1>7. CASE ModelAsks
  <2>1. turn' = At("calling") /\ \E t \in TurnTokens : Charge(t)
    BY <1>7 DEF ModelAsks
  <2>2. turn.pc = "requesting" /\ m = n + 1
    BY <2>1, ChargeIsSound DEF n, m
  <2>3. QED
    BY <1>1, <1>4, <2>1, <2>2 DEF TurnDepth
<1>8. ASSUME NEW output \in {"empty", "text"}, ModelAnswers(output)
      PROVE  TurnDepth(turn'.pc, m) > TurnDepth(turn.pc, n)
  <2>1. turn.pc = "requesting" /\ n < RequestLimit
    BY <1>8 DEF ModelAnswers, Charge, n
  <2>2. \/ turn' = RaisedBy("BudgetExhaustedError") \/ turn' = Succeeded
        \/ turn' = At("extracting") \/ turn' = At("remembering")
    BY <1>8 DEF ModelAnswers, AfterCheck
  <2>3. CASE turn' = At("extracting") \/ turn' = At("remembering")
    BY <1>1, <1>4, <2>1, <2>3 DEF TurnDepth
  <2>4. QED
    BY <1>3, <2>1, <2>2, <2>3
<1>9. CASE BatchDone
  <2>1. turn.pc = "calling" /\ turn' = At("requesting") /\ m = n
    BY <1>9 DEF BatchDone, FlowInv, TypeOK, n, m
  <2>2. QED
    BY <1>1, <1>4, <2>1 DEF TurnDepth
<1>10. CASE BatchRaises
  <2>1. turn.pc = "calling" /\ \E x : turn' = RaisedBy(x)
    BY <1>10 DEF BatchRaises
  <2>2. QED
    BY <1>3, <2>1
<1>11. CASE Extract
  <2>1. /\ turn.pc = "extracting"
        /\ turn' = At("remembering") \/ turn' = Succeeded \/ turn' = RaisedBy("Exception")
    BY <1>11 DEF Extract
  <2>2. CASE turn' = At("remembering")
    BY <1>1, <1>4, <2>1, <2>2 DEF TurnDepth
  <2>3. QED
    BY <1>3, <2>1, <2>2
<1>12. CASE Remember
  <2>1. turn.pc = "remembering" /\ (turn' = Succeeded \/ turn' = RaisedBy("Exception"))
    BY <1>12 DEF Remember
  <2>2. QED
    BY <1>3, <2>1
<1>13. CASE Interrupt
  BY <1>3, <1>13 DEF Interrupt
<1>14. QED
  BY <1>5, <1>6, <1>7, <1>8, <1>9, <1>10, <1>11, <1>12, <1>13 DEF ModelResponds

\* No await of a turn is repeated without a request in between, and requests
\* are limited: whatever the model, the tools and the callback do, and whether
\* or not they answer in time, no turn goes on for ever.
THEOREM NoEndlessTurn == Spec => [][TurnAdvances]_vars
<1>1. ASSUME FlowInv, FlowInv', Next PROVE TurnAdvances
  <2>1. ASSUME NEW e \in Executions, Dispatch(e) \/ Resume(e) \/ Teardown(e)
        PROVE  TurnAdvances
    <3>1. UNCHANGED <<turn, usage, clock>>
      BY <2>1 DEF Dispatch, Resume, Teardown, agentVars, flowVars, budgetVars
    <3>2. CallAdvances(e)
      BY <1>1, <2>1, CallsAdvance DEF Dispatch, Resume, Teardown, FlowInv, RegistryInv
    <3>3. QED
      BY <3>1, <3>2 DEF TurnAdvances
  <2>2. CASE Time
    <3>1. UNCHANGED <<turn, usage, exec>> /\ clock' = clock + 1
      BY <2>2 DEF Time, Tick, registryVars, agentVars, flowVars
    <3>2. QED
      BY <3>1 DEF TurnAdvances
  <2>3. QED
    BY <1>1, <2>1, <2>2, TurnGoesOn DEF Next
<1>2. QED
  BY <1>1, FlowInvariance, PTL DEF Spec
=============================================================================
