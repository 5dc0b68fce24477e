----------------------- MODULE OrchestratorFlowProofs -----------------------
(***************************************************************************)
(* Proofs about OrchestratorFlow and Ablations, for any tools, gates and   *)
(* setups, any number of model requests and any corpus. The registry keeps *)
(* its own invariant (ToolRegistryProofs); WorkerOK, SearchOK and CallOK   *)
(* say what the three workers and the search calls of the agent may look   *)
(* like, FanoutOK what a turn knows of them once gather has returned, and  *)
(* ProgressOK what it has awaited by then. Together they are inductive. A  *)
(* worker that is done stays as it is, which is why the synthesis can rely *)
(* on it.                                                                  *)
(***************************************************************************)
EXTENDS Ablations, ToolRegistryProofs

\* Each name has the spec it was registered with.
ToolsOK == \A n \in ToolNames : tools[n] \in Specs /\ SpecName[tools[n]] = n

\* A worker calls its own tool through the gate in force, is never told that
\* the tool is unknown, and is cancelled only with the turn.
WorkerOK(e) ==
  /\ exec[e].pc # "idle" => exec[e].gate = grants /\ exec[e].spec = tools[WorkerTool[e]]
  /\ exec[e].pc # "done" => exec[e].result = "none"
  /\ exec[e].pc = "done" =>
       \/ exec[e].result \in {"ok", "denied", "failed", "raised"}
       \/ exec[e].result = "cancelled" /\ turn.pc = "ended"

\* A search call asks where the gate does, and has been cleared, by an answer
\* of its own if need be, when it is sent.
CallOK(x) ==
  /\ x \in SearchCall
  /\ x.pc = "approval" => Asks(grants, "read_only")
  /\ x.pc = "server" =>
       Admits(grants, "read_only") \/ (Asks(grants, "read_only") /\ x.approved)

CallsOK == calls \in [SearchCalls -> SearchCall] /\ \A c \in SearchCalls : CallOK(calls[c])

\* The agent is counted once it has started.
SearchOK ==
  /\ search.pc # "done" => search.raised = "none"
  /\ search.pc = "idle" => awaited["retrieving"] = 0
  /\ search.pc # "idle" /\ search.raised = "none" => awaited["retrieving"] = 1

\* The sources are there if and only if all workers have returned; a turn is
\* past the fan-out only with them, and raised without them only for a worker
\* that did, or when it was interrupted.
FanoutOK ==
  /\ sources["retrieved"] = "none" =>
       /\ sources["account"] = "none"
       /\ turn.pc \in {"fanout", "ended"} /\ turn.stop_reason # "success"
       /\ turn.exception \notin {"none", "CancelledError"} =>
            search.raised # "none" \/ \E e \in Executions : exec[e].result = "raised"
  /\ sources["retrieved"] # "none" =>
       /\ turn.pc # "fanout"
       /\ search.pc = "done" /\ search.raised = "none"
       /\ \A e \in Executions :
            /\ exec[e].pc = "done" /\ exec[e].result \in {"ok", "denied", "failed"}
            /\ sources[e] = "data" <=> exec[e].result = "ok"

One(condition) == IF condition THEN 1 ELSE 0

Author == IF setup.critic_on THEN "critic" ELSE "synthesizer"

\* What has been awaited at each place, or at most when the turn has ended;
\* what has been written by then; and nothing is remembered before the end.
ProgressOK ==
  LET memory == One(setup.memory_on)
      critic == One(setup.critic_on)
      store  == One(setup.memory_on /\ setup.fact_extractor)
  IN  /\ awaited["fanout"] = 0
      /\ turn.pc = "fanout" => \A p \in Places : awaited[p] = 0
      /\ turn.pc \in {"recalling", "synthesizing"} =>
           /\ awaited["reviewing"] = 0 /\ awaited["extracting"] = 0
           /\ awaited["remembering"] = 0 /\ awaited["recalling"] = memory
           /\ awaited["synthesizing"] = One(turn.pc = "synthesizing")
           /\ turn.pc = "recalling" => setup.memory_on
      /\ turn.pc \in {"reviewing", "extracting", "remembering"} =>
           /\ awaited["recalling"] = memory /\ awaited["synthesizing"] = 1
           /\ awaited["reviewing"] = critic
           /\ awaited["extracting"] = One(turn.pc # "reviewing")
           /\ awaited["remembering"] = One(turn.pc = "remembering")
           /\ turn.pc = "reviewing" => setup.critic_on
           /\ turn.pc # "reviewing" =>
                setup.memory_on /\ setup.fact_extractor /\ synthesis = Author
      /\ turn.pc = "ended" =>
           /\ awaited["recalling"] \in 0 .. memory /\ awaited["synthesizing"] \in 0 .. 1
           /\ awaited["reviewing"] \in 0 .. critic /\ awaited["extracting"] \in 0 .. 1
           /\ awaited["remembering"] \in 0 .. store
      /\ turn.stop_reason = "success" =>
           /\ awaited["recalling"] = memory /\ awaited["synthesizing"] = 1
           /\ awaited["reviewing"] = critic /\ synthesis = Author
      /\ remembered # "none" =>
           /\ turn.pc = "ended" /\ setup.memory_on
           /\ awaited["remembering"] = 1 /\ remembered = Author

FlowInv ==
  /\ RegistryInv /\ TypeOK
  /\ ToolsOK /\ (\A e \in Executions : WorkerOK(e)) /\ SearchOK /\ CallsOK
  /\ FanoutOK /\ ProgressOK

-----------------------------------------------------------------------------
(* Lemmas about the state and its parts.                                   *)

\* The gate in force is a gate.
LEMMA GrantsIsAGate ==
  ASSUME FlowInv
  PROVE  grants \in Gates \cup {DefaultGate} /\ grants \in ApprovalGate
  BY GatesAreGates, FlowAssumption DEF FlowInv, TypeOK, Setup, grants

\* A worker that is not done moves; everything else stays.
LEMMA WorkerMoves ==
  ASSUME FlowInv, RegistryInv', UNCHANGED <<tools, flowVars>>,
         NEW e \in Executions, exec[e].pc # "done", NEW x \in Execution, Becomes(e, x),
         x.pc # "idle", x.gate = grants, x.spec = tools[WorkerTool[e]],
         x.pc # "done" => x.result = "none",
         x.pc = "done" => \/ x.result \in {"ok", "denied", "failed", "raised"}
                          \/ x.result = "cancelled" /\ turn.pc = "ended"
  PROVE  FlowInv'
<1>1. /\ exec'[e] = x /\ grants' = grants
      /\ \A f \in Executions \ {e} : exec'[f] = exec[f]
      /\ UNCHANGED <<tools, setup, turn, search, calls, reply, sources, synthesis, remembered,
                     awaited>>
  BY DEF Becomes, FlowInv, RegistryInv, RegistryTypeOK, flowVars, searchVars, grants
<1>2. TypeOK' /\ ToolsOK'
  BY <1>1 DEF FlowInv, RegistryInv, TypeOK, ToolsOK
<1>3. ASSUME NEW f \in Executions PROVE WorkerOK(f)'
  BY <1>1 DEF FlowInv, WorkerOK
<1>4. SearchOK' /\ CallsOK' /\ ProgressOK'
  BY <1>1 DEF FlowInv, SearchOK, CallsOK, CallOK, ProgressOK, Author
<1>5. FanoutOK'
  <2>1. exec[e].result = "none" /\ sources["retrieved"] = "none"
    BY DEF FlowInv, WorkerOK, FanoutOK
  <2>2. \A f \in Executions : exec[f].result = "raised" => exec'[f].result = "raised"
    BY <1>1, <2>1
  <2>3. QED
    BY <1>1, <2>1, <2>2 DEF FlowInv, FanoutOK
<1>6. QED
  BY <1>2, <1>3, <1>4, <1>5 DEF FlowInv

\* The agent, while it is not done, or its calls move; everything else stays.
LEMMA SearchMoves ==
  ASSUME FlowInv, UNCHANGED <<registryVars, setup, turn, sources, synthesis, remembered>>,
         search.pc # "done" \/ search' = search,
         search' \in Search, DOMAIN reply' = DOMAIN NoReply,
         \/ awaited' = awaited
         \/ search.pc = "idle" /\ awaited' = [awaited EXCEPT !["retrieving"] = @ + 1],
         SearchOK', CallsOK'
  PROVE  FlowInv'
<1>1. tools' = tools /\ exec' = exec /\ grants' = grants
  BY DEF registryVars, grants
<1>2. RegistryInv' /\ ToolsOK'
  BY <1>1 DEF FlowInv, RegistryInv, RegistryTypeOK, ExecutionInv, ToolsOK
<1>3. /\ awaited' \in [Awaits -> 0 .. 1]
      /\ \A p \in Places : awaited'[p] = awaited[p]
  BY DEF FlowInv, TypeOK, SearchOK, Awaits, Places
<1>4. TypeOK'
  BY <1>2, <1>3 DEF FlowInv, RegistryInv, TypeOK, CallsOK
<1>5. \A e \in Executions : WorkerOK(e)'
  BY <1>1 DEF FlowInv, WorkerOK
<1>6. FanoutOK'
  <2>1. sources["retrieved"] # "none" => search' = search
    BY DEF FlowInv, FanoutOK
  <2>2. search.raised # "none" => search'.raised # "none"
    BY DEF FlowInv, SearchOK
  <2>3. QED
    BY <1>1, <2>1, <2>2 DEF FlowInv, FanoutOK
<1>7. ProgressOK'
  BY <1>3 DEF FlowInv, ProgressOK, Author, Places
<1>8. QED
  BY <1>2, <1>4, <1>5, <1>6, <1>7 DEF FlowInv

\* The turn goes on or ends; the workers stay.
LEMMA TurnMoves ==
  ASSUME FlowInv, UNCHANGED <<registryVars, setup, search, calls, reply>>,
         turn.pc # "ended", NEW next \in Turns(Places), Goes(next),
         next.pc \in Places => awaited[next.pc] = 0,
         sources' \in [{"account", "meeting", "retrieved"} -> {"none", "data", "unavailable"}],
         {synthesis', remembered'} \subseteq {"none", "synthesizer", "critic"},
         FanoutOK', ProgressOK'
  PROVE  FlowInv'
<1>1. tools' = tools /\ exec' = exec /\ grants' = grants /\ turn' = next
  BY DEF registryVars, grants, Goes
<1>2. RegistryInv' /\ ToolsOK'
  BY <1>1 DEF FlowInv, RegistryInv, RegistryTypeOK, ExecutionInv, ToolsOK
<1>3. next.pc \in Places \cup {"ended"}
  BY DEF Turns, At, Succeeded, RaisedBy
<1>4. /\ awaited' \in [Awaits -> 0 .. 1]
      /\ awaited'["retrieving"] = awaited["retrieving"]
  BY <1>3 DEF Goes, FlowInv, TypeOK, Awaits, Places
<1>5. TypeOK'
  BY <1>1, <1>2, <1>4 DEF FlowInv, RegistryInv, TypeOK
<1>6. \A e \in Executions : WorkerOK(e)'
  BY <1>1 DEF FlowInv, WorkerOK
<1>7. SearchOK' /\ CallsOK'
  BY <1>1, <1>4 DEF FlowInv, SearchOK, CallsOK, CallOK
<1>8. QED
  BY <1>2, <1>5, <1>6, <1>7 DEF FlowInv

-----------------------------------------------------------------------------
(* The registry workers.                                                   *)

\* What the callback makes of a call is a frame of the worker that asked.
LEMMA AnswerMoves ==
  ASSUME FlowInv, RegistryInv', UNCHANGED <<tools, flowVars>>, NEW e \in Executions,
         exec[e].pc # "done", NEW s \in Specs, s = tools[WorkerTool[e]],
         Asks(grants, SpecTier[s]), Answered(e, s, grants)
  PROVE  FlowInv'
<1>1. CASE Becomes(e, Started(s, grants, SpecTier[s]))
  <2> DEFINE x == Started(s, grants, SpecTier[s])
  <2>1. x \in Execution
    BY GrantsIsAGate, FramesAreSound
  <2>2. x.pc = "handler" /\ x.gate = grants /\ x.spec = s /\ x.result = "none"
    BY DEF Started
  <2> HIDE DEF x
  <2>3. QED
    BY <1>1, <2>1, <2>2, WorkerMoves DEF x
<1>2. ASSUME NEW why \in {"denied", "raised"}, Becomes(e, Stopped(s, grants, why))
      PROVE  FlowInv'
  <2> DEFINE x == Stopped(s, grants, why)
  <2>1. x \in Execution
    BY GrantsIsAGate, FramesAreSound
  <2>2. x.pc = "done" /\ x.gate = grants /\ x.spec = s /\ x.result = why
    BY DEF Stopped, Idle
  <2> HIDE DEF x
  <2>3. QED
    BY <1>2, <2>1, <2>2, WorkerMoves DEF x
<1>3. QED
  BY <1>1, <1>2 DEF Answered

\* The call of a worker.
LEMMA DispatchPreserves ==
  ASSUME FlowInv, NEW e \in Executions, Dispatch(e)
  PROVE  FlowInv'
<1> DEFINE s == tools[WorkerTool[e]]
           g == grants
<1>1. /\ exec[e].pc = "idle" /\ UNCHANGED <<tools, flowVars>>
      /\ g \in Gates \cup {DefaultGate}
      /\ s \in Specs /\ s # NoSpec /\ WorkerTool[e] \in ToolNames
  BY ToolsAreRegistered, RegistryAssumption, GrantsIsAGate DEF Dispatch, execute, FlowInv, ToolsOK
<1>2. RegistryInv' /\ check(e, s, g)
  BY <1>1, ExecuteIsSound DEF Dispatch, execute, FlowInv
<1> HIDE DEF s, g
<1>3. CASE Admits(g, SpecTier[s]) /\ Becomes(e, Started(s, g, "none"))
  <2> DEFINE x == Started(s, g, "none")
  <2>1. x \in Execution
    BY <1>1, <1>3, FramesAreSound
  <2>2. x.pc = "handler" /\ x.gate = g /\ x.spec = s /\ x.result = "none"
    BY DEF Started
  <2> HIDE DEF x
  <2>3. QED
    BY <1>1, <1>2, <1>3, <2>1, <2>2, WorkerMoves DEF x, s, g
<1>4. CASE Becomes(e, Stopped(s, g, "denied"))
  <2> DEFINE x == Stopped(s, g, "denied")
  <2>1. x \in Execution
    BY <1>1, FramesAreSound
  <2>2. x.pc = "done" /\ x.gate = g /\ x.spec = s /\ x.result = "denied"
    BY DEF Stopped, Idle
  <2> HIDE DEF x
  <2>3. QED
    BY <1>1, <1>2, <1>4, <2>1, <2>2, WorkerMoves DEF x, s, g
<1>5. CASE Asks(g, SpecTier[s]) /\ Answered(e, s, g)
  BY <1>1, <1>2, <1>5, AnswerMoves DEF s, g
<1>6. CASE Asks(g, SpecTier[s]) /\ Becomes(e, Waiting(s, g))
  <2> DEFINE x == Waiting(s, g)
  <2>1. x \in Execution
    BY <1>1, <1>6, FramesAreSound
  <2>2. x.pc = "approval" /\ x.gate = g /\ x.spec = s /\ x.result = "none"
    BY DEF Waiting, Idle
  <2> HIDE DEF x
  <2>3. QED
    BY <1>1, <1>2, <1>6, <2>1, <2>2, WorkerMoves DEF x, s, g
<1>7. QED
  BY <1>2, <1>3, <1>4, <1>5, <1>6 DEF check

\* A frame that ends where it was suspended keeps what it was called with.
LEMMA EndedFrame ==
  ASSUME NEW x \in Execution, NEW why \in {"ok", "failed", "cancelled"}
  PROVE  LET y == [x EXCEPT !.pc = "done", !.result = why]
         IN  /\ y \in Execution /\ y.pc = "done" /\ y.result = why
             /\ y.gate = x.gate /\ y.spec = x.spec
  BY DEF Execution

\* The answer of the callback, or the return of the handler.
LEMMA ResumePreserves ==
  ASSUME FlowInv, NEW e \in Executions, Resume(e)
  PROVE  FlowInv'
<1>1. /\ UNCHANGED <<tools, flowVars>> /\ RegistryInv' /\ exec[e] \in Execution
      /\ exec[e].pc \in {"approval", "handler"}
      /\ exec[e].gate = grants /\ exec[e].spec = tools[WorkerTool[e]]
      /\ tools[WorkerTool[e]] \in Specs
  BY ResumeIsSound, ToolsAreRegistered
     DEF Resume, ApprovalArrives, HandlerEnds, FlowInv, RegistryInv, RegistryTypeOK,
         WorkerOK, ToolsOK
<1>2. CASE ApprovalArrives(e)
  <2>1. Asks(grants, SpecTier[tools[WorkerTool[e]]])
    BY <1>1, <1>2 DEF ApprovalArrives, FlowInv, RegistryInv, ExecutionInv, FrameOK
  <2>2. QED
    BY <1>1, <1>2, <2>1, AnswerMoves DEF ApprovalArrives
<1>3. CASE HandlerEnds(e)
  <2>1. PICK r \in {"ok", "failed"} :
          exec' = [exec EXCEPT ![e].pc = "done", ![e].result = r]
    BY <1>3 DEF HandlerEnds
  <2> DEFINE x == [exec[e] EXCEPT !.pc = "done", !.result = r]
  <2>2. /\ x \in Execution /\ x.pc = "done" /\ x.result = r
        /\ x.gate = exec[e].gate /\ x.spec = exec[e].spec
    <3>1. r \in {"ok", "failed", "cancelled"}
      OBVIOUS
    <3>2. QED
      BY <1>1, <3>1, EndedFrame
  <2>3. Becomes(e, x)
    BY <2>1 DEF Becomes, FlowInv, RegistryInv, RegistryTypeOK
  <2> HIDE DEF x
  <2>4. QED
    BY <1>1, <2>2, <2>3, WorkerMoves
<1>4. QED
  BY <1>2, <1>3 DEF Resume

\* A worker is cancelled after the turn has ended.
LEMMA CancelPreserves ==
  ASSUME FlowInv, turn.pc = "ended", UNCHANGED flowVars, NEW e \in Executions, Cancelled(e)
  PROVE  FlowInv'
<1> DEFINE x == [exec[e] EXCEPT !.pc = "done", !.result = "cancelled"]
<1>1. /\ UNCHANGED tools /\ RegistryInv' /\ exec[e] \in Execution
      /\ exec[e].pc \in {"approval", "handler"}
      /\ exec[e].gate = grants /\ exec[e].spec = tools[WorkerTool[e]]
  BY CancelIsSound DEF Cancelled, FlowInv, RegistryInv, RegistryTypeOK, WorkerOK
<1>2. /\ x \in Execution /\ x.pc = "done" /\ x.result = "cancelled"
      /\ x.gate = exec[e].gate /\ x.spec = exec[e].spec
  BY <1>1, EndedFrame
<1>3. Becomes(e, x)
  BY DEF Becomes, Cancelled, FlowInv, RegistryInv, RegistryTypeOK
<1> HIDE DEF x
<1>4. QED
  BY <1>1, <1>2, <1>3, WorkerMoves

-----------------------------------------------------------------------------
(* The retrieval worker.                                                   *)

\* What the agent does of itself, and what becomes of its calls.
SearchAction ==
  \/ StartSearch \/ SearchModel \/ SearchModelFails \/ CallsDone \/ CallsRaise
  \/ \E c \in SearchCalls : SearchApproved(c) \/ ServerAnswers(c)

\* Whatever may become of a call is as the gate in force has it.
LEMMA CallsAreSound ==
  ASSUME FlowInv
  PROVE  /\ CallOK(NoCall) /\ CallOK(Returned) /\ \A x \in Exceptions : CallOK(Raised(x))
         /\ Admits(grants, "read_only") => CallOK(AtServer(FALSE))
         /\ Asks(grants, "read_only") =>
              CallOK(AtApproval) /\ \A x \in AfterApproval : CallOK(x)
<1>1. "PermissionDenied" \in Exceptions /\ "Exception" \in Exceptions
  BY DEF Exceptions
<1>2. ASSUME NEW x \in Exceptions PROVE CallOK(Raised(x))
  BY DEF CallOK, SearchCall, Raised
<1>3. CallOK(NoCall) /\ CallOK(Returned)
  BY DEF CallOK, SearchCall, NoCall, Returned
<1>4. ASSUME NEW approved \in BOOLEAN
      PROVE  /\ AtServer(approved) \in SearchCall
             /\ AtServer(approved).pc = "server" /\ AtServer(approved).approved = approved
  BY DEF AtServer, SearchCall
<1>5. Admits(grants, "read_only") => CallOK(AtServer(FALSE))
  BY <1>4 DEF CallOK
<1>6. Asks(grants, "read_only") => CallOK(AtApproval) /\ CallOK(AtServer(TRUE))
  BY <1>4 DEF CallOK, AtApproval, SearchCall
<1>7. QED
  BY <1>1, <1>2, <1>3, <1>5, <1>6 DEF AfterApproval

\* A search call is sent, or waits, only as the gate in force has it.
LEMMA ToolCallIsSound ==
  ASSUME FlowInv, NEW x \in process_tool_call
  PROVE  CallOK(x)
<1> DEFINE gate == setup.approval_gate
<1>1. CASE gate = NoGate
  <2>1. grants = DefaultGate /\ x = AtServer(FALSE)
    BY <1>1 DEF grants, process_tool_call
  <2>2. Admits(grants, "read_only")
    BY <2>1 DEF DefaultGate, DEFAULT_MATRIX, Admits, policy_for, RiskTier
  <2>3. QED
    BY <2>1, <2>2, CallsAreSound
<1>2. CASE gate # NoGate
  <2>1. grants = gate
    BY <1>2 DEF grants
  <2>2. "read_only" \in RiskTier
    BY DEF RiskTier
  <2>3. Admits(gate, "read_only") \/ Refuses(gate, "read_only") \/ Asks(gate, "read_only")
    BY <2>1, <2>2, GrantsIsAGate, CheckIsTotal
  <2>4. CASE Admits(gate, "read_only")
    <3>1. ~ Refuses(gate, "read_only")
      BY <2>1, <2>2, <2>4, GrantsIsAGate, CheckIsTotal
    <3>2. x = AtServer(FALSE)
      BY <1>2, <2>4, <3>1 DEF process_tool_call
    <3>3. QED
      BY <2>1, <2>4, <3>2, CallsAreSound
  <2>5. CASE Refuses(gate, "read_only")
    <3>1. ~ Admits(gate, "read_only")
      BY <2>1, <2>2, <2>5, GrantsIsAGate, CheckIsTotal
    <3>2. x = Raised("PermissionDenied")
      BY <1>2, <2>5, <3>1 DEF process_tool_call
    <3>3. QED
      BY <3>2, CallsAreSound DEF Exceptions
  <2>6. CASE Asks(gate, "read_only")
    <3>1. ~ Admits(gate, "read_only") /\ ~ Refuses(gate, "read_only")
      BY <2>1, <2>2, <2>6, GrantsIsAGate, CheckIsTotal
    <3>2. x = AtApproval \/ x \in AfterApproval
      BY <1>2, <3>1 DEF process_tool_call
    <3>3. QED
      BY <2>1, <2>6, <3>2, CallsAreSound
  <2>7. QED
    BY <2>3, <2>4, <2>5, <2>6
<1>3. QED
  BY <1>1, <1>2

\* So are calls of which one goes on as it may.
LEMMA OneCallMoves ==
  ASSUME FlowInv, grants' = grants, NEW c \in SearchCalls, NEW x, CallOK(x),
         calls' = [calls EXCEPT ![c] = x]
  PROVE  CallsOK'
<1>1. calls' \in [SearchCalls -> SearchCall]
  BY DEF FlowInv, CallsOK, CallOK
<1>2. \A d \in SearchCalls : calls'[d] = IF d = c THEN x ELSE calls[d]
  BY DEF FlowInv, CallsOK
<1>3. \A d \in SearchCalls : CallOK(calls'[d])
  BY <1>2 DEF FlowInv, CallsOK
<1>4. QED
  BY <1>1, <1>3 DEF CallsOK, CallOK

\* So are calls that are cancelled, or left to go on.
LEMMA CancelledCallsAreSound ==
  ASSUME FlowInv, NEW to \in {calls, CallsCancelled}
  PROVE  to \in [SearchCalls -> SearchCall] /\ \A c \in SearchCalls : CallOK(to[c])
<1>1. CallOK(Raised("CancelledError")) /\ Raised("CancelledError") \in SearchCall
  BY CallsAreSound DEF Exceptions, CallOK
<1>2. QED
  BY <1>1 DEF FlowInv, CallsOK, CallsCancelled

\* A step of the agent or of its calls alone.
LEMMA SearchStepMoves ==
  ASSUME FlowInv, SearchStep, DOMAIN reply' = DOMAIN NoReply, CallsOK',
         \/ search' = search
         \/ /\ search.pc \notin {"idle", "done"} /\ search' \in Search /\ search'.pc # "idle"
            /\ search'.pc # "done" => search'.raised = "none"
  PROVE  FlowInv'
<1>1. SearchOK' /\ search' \in Search
  BY DEF FlowInv, TypeOK, SearchOK, SearchStep
<1>2. QED
  BY <1>1, SearchMoves DEF SearchStep

\* Every action of the retrieval worker preserves the invariant.
LEMMA SearchPreserves ==
  ASSUME FlowInv, SearchAction
  PROVE  FlowInv'
<1>1. /\ search \in Search /\ DOMAIN reply = DOMAIN NoReply
      /\ search.pc # "done" => search.raised = "none"
      /\ search.pc = "idle" => awaited["retrieving"] = 0
  BY DEF FlowInv, TypeOK, SearchOK
<1>2. SearchStep => grants' = grants
  BY DEF SearchStep, grants
<1>3. SearchStep /\ calls' = calls => CallsOK'
  BY <1>2 DEF FlowInv, CallsOK, CallOK
<1>4. ASSUME NEW x \in Exceptions
      PROVE  Failed(search, x) \in Search /\ Failed(search, x).pc = "done"
  BY <1>1 DEF Failed, Search
<1>5. CASE StartSearch
  <2> DEFINE x == [search EXCEPT !.pc = "model"]
  <2>1. search.pc = "idle" /\ search.raised = "none" /\ search' = x
    BY <1>1, <1>5 DEF StartSearch
  <2>2. x \in Search /\ x.pc = "model" /\ x.raised = "none"
    BY <1>1, <2>1 DEF Search
  <2> HIDE DEF x
  <2>3. awaited'["retrieving"] = 1
    BY <1>1, <1>5, <2>1 DEF StartSearch, FlowInv, TypeOK, Awaits
  <2>4. SearchOK' /\ CallsOK'
    BY <1>5, <2>1, <2>2, <2>3 DEF StartSearch, SearchOK, CallsOK, CallOK, FlowInv, grants
  <2>5. QED
    BY <1>1, <1>5, <2>1, <2>2, <2>4, SearchMoves DEF StartSearch
<1>6. CASE SearchModel
  <2> DEFINE n == search.asked + 1
             x == [search EXCEPT !.asked = n, !.pc = "done"]
             y == [search EXCEPT !.asked = n, !.pc = "calling"]
  <2>1. /\ search.pc = "model" /\ search.asked < RequestLimit /\ SearchStep /\ reply' = reply
        /\ \/ search' = x /\ calls' = calls
           \/ search' = y /\ calls' \in Batches
    BY <1>6 DEF SearchModel
  <2>2. n \in 0 .. RequestLimit
    BY <1>1, <2>1, FlowAssumption DEF Search
  <2> HIDE DEF n
  <2>3. /\ x \in Search /\ x.pc = "done"
        /\ y \in Search /\ y.pc = "calling" /\ y.raised = "none"
    BY <1>1, <2>1, <2>2 DEF Search
  <2> HIDE DEF x, y
  <2>4. calls' \in Batches => CallsOK'
    <3>1. \A z \in process_tool_call \cup {NoCall} : CallOK(z) /\ z \in SearchCall
      BY CallsAreSound, ToolCallIsSound DEF CallOK
    <3> HIDE DEF process_tool_call
    <3>2. calls' \in Batches =>
            /\ calls' \in [SearchCalls -> SearchCall]
            /\ \A c \in SearchCalls : CallOK(calls'[c])
      BY <3>1 DEF Batches
    <3>3. QED
      BY <1>2, <2>1, <3>2 DEF CallsOK, CallOK
  <2>5. QED
    BY <1>1, <1>3, <2>1, <2>3, <2>4, SearchStepMoves
<1>7. CASE SearchModelFails
  BY <1>1, <1>3, <1>4, <1>7, SearchStepMoves DEF SearchModelFails, Exceptions
<1>8. CASE CallsDone
  <2> DEFINE x == [search EXCEPT !.pc = "model"]
  <2>1. search.pc = "calling" /\ search.raised = "none" /\ SearchStep /\ search' = x
        /\ calls' = [c \in SearchCalls |-> NoCall] /\ reply' = NoReply
    BY <1>1, <1>8 DEF CallsDone
  <2>2. x \in Search /\ x.pc = "model" /\ x.raised = "none"
    BY <1>1, <2>1 DEF Search
  <2> HIDE DEF x
  <2>3. CallOK(NoCall) /\ NoCall \in SearchCall
    BY CallsAreSound DEF CallOK
  <2>4. CallsOK'
    BY <1>2, <2>1, <2>3 DEF CallsOK, CallOK
  <2>5. QED
    BY <2>1, <2>2, <2>4, SearchStepMoves
<1>9. CASE CallsRaise
  <2>1. PICK c \in SearchCalls :
          calls[c].raised # "none" /\ search' = Failed(search, calls[c].raised)
    BY <1>9 DEF CallsRaise
  <2>2. calls[c].raised \in Exceptions
    BY <2>1 DEF FlowInv, CallsOK, SearchCall, NoCall, AtApproval, AtServer, Returned, Raised
  <2>3. search.pc = "calling" /\ SearchStep /\ reply' = reply
        /\ calls' \in {calls, CallsCancelled}
    BY <1>9 DEF CallsRaise
  <2>4. CallsOK'
    BY <1>2, <2>3, CancelledCallsAreSound DEF CallsOK, CallOK
  <2>5. QED
    BY <1>1, <1>4, <2>1, <2>2, <2>3, <2>4, SearchStepMoves
<1>10. ASSUME NEW c \in SearchCalls, SearchApproved(c) \/ ServerAnswers(c)
       PROVE  FlowInv'
  <2>1. SearchStep /\ search' = search /\ Pending(c) /\ DOMAIN reply' = DOMAIN NoReply
    BY <1>1, <1>10 DEF SearchApproved, ServerAnswers, Pending, NoReply
  <2>2. PICK x : CallOK(x) /\ calls' = [calls EXCEPT ![c] = x]
    <3>1. CASE SearchApproved(c)
      <4>1. Asks(grants, "read_only")
        BY <3>1 DEF SearchApproved, FlowInv, CallsOK, CallOK
      <4>2. QED
        BY <3>1, <4>1, CallsAreSound DEF SearchApproved
    <3>2. CASE ServerAnswers(c)
      BY <3>2, CallsAreSound DEF ServerAnswers, Exceptions
    <3>3. QED
      BY <1>10, <3>1, <3>2
  <2>3. CallsOK'
    BY <1>2, <2>1, <2>2, OneCallMoves
  <2>4. QED
    BY <2>1, <2>3, SearchStepMoves
<1>11. QED
  BY <1>5, <1>6, <1>7, <1>8, <1>9, <1>10 DEF SearchAction

\* None of it touches the turn or the registry.
LEMMA SearchLeavesTheTurn ==
  ASSUME SearchAction
  PROVE  UNCHANGED <<registryVars, setup, turn, sources, synthesis, remembered>>
<1>1. StartSearch \/ SearchModel \/ SearchModelFails \/ CallsDone \/ CallsRaise =>
        UNCHANGED <<registryVars, setup, turn, sources, synthesis, remembered>>
  BY DEF StartSearch, SearchModel, SearchModelFails, CallsDone, CallsRaise, SearchStep
<1>2. ASSUME NEW c \in SearchCalls, SearchApproved(c) \/ ServerAnswers(c)
      PROVE  UNCHANGED <<registryVars, setup, turn, sources, synthesis, remembered>>
  BY <1>2 DEF SearchApproved, ServerAnswers, SearchStep
<1>3. QED
  BY <1>1, <1>2 DEF SearchAction

-----------------------------------------------------------------------------
(* The turn.                                                               *)

Later == Places \ {"fanout"}

\* Where the coroutine can go on to, and how it can end.
LEMMA TurnShapes ==
  /\ \A p \in Places : /\ At(p) \in Turns(Places) /\ At(p).pc = p
                       /\ At(p).stop_reason = "none" /\ At(p).exception = "none"
  /\ Succeeded \in Turns(Places) /\ Succeeded.pc = "ended"
  /\ Succeeded.stop_reason = "success" /\ Succeeded.exception = "none"
  /\ \A x \in Exceptions : /\ RaisedBy(x) \in Turns(Places) /\ RaisedBy(x).pc = "ended"
                           /\ RaisedBy(x).stop_reason # "success"
                           /\ RaisedBy(x).exception = x
  BY DEF At, Succeeded, RaisedBy, StopReason, Turns

\* What has been awaited when the turn goes on.
LEMMA Counts ==
  ASSUME FlowInv, NEW next, Goes(next)
  PROVE  /\ turn' = next
         /\ \A p \in Awaits : awaited'[p] = IF p = next.pc THEN awaited[p] + 1 ELSE awaited[p]
         /\ \A p \in Awaits : awaited[p] \in 0 .. 1
         /\ Awaits = {"fanout", "recalling", "synthesizing", "reviewing", "extracting",
                      "remembering", "retrieving"}
  BY DEF Goes, FlowInv, TypeOK, Awaits, Places

\* Past the fan-out the turn goes on, or ends, with the sources it has.
LEMMA LaterMoves ==
  ASSUME FlowInv, turn.pc \in Later, TurnStep,
         NEW next \in {At(p) : p \in Later} \cup {Succeeded} \cup {RaisedBy(x) : x \in Exceptions},
         Goes(next), next.pc \in Places => awaited[next.pc] = 0,
         {synthesis', remembered'} \subseteq {"none", "synthesizer", "critic"},
         ProgressOK'
  PROVE  FlowInv'
<1>1. /\ next \in Turns(Places) /\ next.pc # "fanout" /\ turn' = next
  BY TurnShapes DEF Later, Goes
<1>2. sources["retrieved"] # "none" /\ turn.pc # "ended"
  BY DEF FlowInv, FanoutOK, Later, Places
<1>3. /\ UNCHANGED <<registryVars, setup, search, calls, reply, sources>>
      /\ sources' \in [{"account", "meeting", "retrieved"} -> {"none", "data", "unavailable"}]
  BY DEF TurnStep, searchVars, FlowInv, TypeOK
<1>4. FanoutOK'
  BY <1>1, <1>2, <1>3 DEF FlowInv, FanoutOK, registryVars
<1>5. QED
  BY <1>1, <1>2, <1>3, <1>4, TurnMoves

\* Wherever a turn raises, or is interrupted, what it has awaited is enough.
LEMMA RaisingProgress ==
  ASSUME FlowInv, turn.pc \in Places, NEW x \in Exceptions, Goes(RaisedBy(x)),
         setup' = setup, synthesis' \in {synthesis, "critic", "synthesizer"},
         \/ remembered' = remembered
         \/ turn.pc = "remembering" /\ remembered' = synthesis
  PROVE  ProgressOK'
<1>1. /\ turn' = RaisedBy(x) /\ turn'.pc = "ended" /\ turn'.stop_reason # "success"
      /\ \A p \in Awaits : awaited'[p] = awaited[p]
  BY Counts, TurnShapes DEF Awaits, Places
<1>2. One(setup.memory_on) \in 0 .. 1 /\ One(setup.critic_on) \in 0 .. 1
      /\ One(setup.memory_on /\ setup.fact_extractor) \in 0 .. 1
  BY DEF One
<1>3. remembered = "none" /\ turn.pc # "ended"
  BY DEF FlowInv, ProgressOK, Places
<1>4. /\ awaited'["fanout"] = 0
      /\ awaited'["recalling"] \in 0 .. One(setup.memory_on)
      /\ awaited'["synthesizing"] \in 0 .. 1
      /\ awaited'["reviewing"] \in 0 .. One(setup.critic_on)
      /\ awaited'["extracting"] \in 0 .. 1
      /\ awaited'["remembering"] \in 0 .. One(setup.memory_on /\ setup.fact_extractor)
  BY <1>1, <1>2 DEF FlowInv, ProgressOK, Places, Awaits, One
<1>5. remembered' # "none" =>
        setup'.memory_on /\ awaited'["remembering"] = 1 /\ remembered' = Author'
  BY <1>1, <1>3 DEF FlowInv, ProgressOK, Author, One, Awaits
<1>6. QED
  BY <1>1, <1>4, <1>5 DEF ProgressOK

\* A later step that raises, or is interrupted, preserves the invariant.
LEMMA RaisingMoves ==
  ASSUME FlowInv, turn.pc \in Later, TurnStep, NEW x \in Exceptions, Goes(RaisedBy(x)),
         synthesis' = synthesis,
         \/ remembered' = remembered
         \/ turn.pc = "remembering" /\ remembered' = synthesis
  PROVE  FlowInv'
<1>1. RaisedBy(x).pc \notin Places
  BY TurnShapes DEF Places
<1>2. ProgressOK'
  BY RaisingProgress DEF TurnStep, Later
<1>3. {synthesis', remembered'} \subseteq {"none", "synthesizer", "critic"}
  BY DEF FlowInv, TypeOK
<1>4. QED
  BY <1>1, <1>2, <1>3, LaterMoves

\* After the last agent the turn extracts facts, or has succeeded.
LEMMA WrittenMoves ==
  ASSUME FlowInv, turn.pc \in {"synthesizing", "reviewing"}, TurnStep, Goes(Written),
         turn.pc = "synthesizing" => ~ setup.critic_on,
         synthesis' = Author, remembered' = remembered
  PROVE  FlowInv'
<1>1. /\ UNCHANGED setup /\ turn' = Written
      /\ \A p \in Awaits : awaited'[p] = IF p = Written.pc THEN awaited[p] + 1 ELSE awaited[p]
      /\ Awaits = {"fanout", "recalling", "synthesizing", "reviewing", "extracting",
                   "remembering", "retrieving"}
  BY Counts DEF TurnStep
<1>2. /\ awaited["fanout"] = 0 /\ awaited["recalling"] = One(setup.memory_on)
      /\ awaited["synthesizing"] = 1 /\ awaited["reviewing"] = One(setup.critic_on)
      /\ awaited["extracting"] = 0 /\ awaited["remembering"] = 0 /\ remembered = "none"
  BY DEF FlowInv, ProgressOK, One
<1>3. {synthesis', remembered'} \subseteq {"none", "synthesizer", "critic"}
  BY <1>2 DEF Author
<1>4. CASE setup.memory_on /\ setup.fact_extractor
  <2>1. Written = At("extracting")
    BY <1>4 DEF Written
  <2>2. ProgressOK'
    BY <1>1, <1>2, <1>4, <2>1, TurnShapes DEF ProgressOK, One, Author, Places
  <2>3. QED
    BY <1>2, <1>3, <2>1, <2>2, LaterMoves, TurnShapes DEF Later, Places
<1>5. CASE ~ (setup.memory_on /\ setup.fact_extractor)
  <2>1. Written = Succeeded
    BY <1>5 DEF Written
  <2>2. ProgressOK'
    BY <1>1, <1>2, <1>5, <2>1, TurnShapes DEF ProgressOK, One, Author, Places
  <2>3. QED
    BY <1>2, <1>3, <2>1, <2>2, LaterMoves, TurnShapes DEF Later, Places
<1>6. QED
  BY <1>4, <1>5

\* Recall.
LEMMA RecallPreserves ==
  ASSUME FlowInv, Recall
  PROVE  FlowInv'
<1>1. /\ turn.pc = "recalling" /\ turn.pc \in Later /\ TurnStep
      /\ synthesis' = synthesis /\ remembered' = remembered
  BY DEF Recall, Later, Places
<1>2. CASE Goes(RaisedBy("Exception"))
  BY <1>1, <1>2, RaisingMoves DEF Exceptions
<1>3. CASE Goes(At("synthesizing"))
  <2>1. awaited["synthesizing"] = 0 /\ At("synthesizing").pc = "synthesizing"
    BY <1>1, TurnShapes DEF FlowInv, ProgressOK, One, Places
  <2>2. {synthesis', remembered'} \subseteq {"none", "synthesizer", "critic"}
    BY <1>1 DEF FlowInv, TypeOK
  <2>3. ProgressOK'
    BY <1>1, <1>3, Counts, TurnShapes DEF FlowInv, ProgressOK, One, Places, TurnStep
  <2>4. QED
    BY <1>1, <1>3, <2>1, <2>2, <2>3, LaterMoves DEF Later, Places
<1>4. QED
  BY <1>2, <1>3 DEF Recall

\* The synthesis.
LEMMA SynthesizePreserves ==
  ASSUME FlowInv, Synthesize
  PROVE  FlowInv'
<1>1. /\ turn.pc = "synthesizing" /\ turn.pc \in Later /\ TurnStep
      /\ remembered' = remembered
  BY DEF Synthesize, Later, Places
<1>2. CASE Goes(RaisedBy("Exception")) /\ synthesis' = synthesis
  BY <1>1, <1>2, RaisingMoves DEF Exceptions
<1>3. CASE setup.critic_on /\ Goes(At("reviewing")) /\ synthesis' = "synthesizer"
  <2>1. awaited["reviewing"] = 0 /\ At("reviewing").pc = "reviewing"
    BY <1>1, TurnShapes DEF FlowInv, ProgressOK, Places
  <2>2. {synthesis', remembered'} \subseteq {"none", "synthesizer", "critic"}
    BY <1>1, <1>3 DEF FlowInv, TypeOK
  <2>3. ProgressOK'
    BY <1>1, <1>3, Counts, TurnShapes DEF FlowInv, ProgressOK, One, Places, TurnStep
  <2>4. QED
    BY <1>1, <1>3, <2>1, <2>2, <2>3, LaterMoves DEF Later, Places
<1>4. CASE ~ setup.critic_on /\ Goes(Written) /\ synthesis' = "synthesizer"
  BY <1>1, <1>4, WrittenMoves DEF Author
<1>5. QED
  BY <1>2, <1>3, <1>4 DEF Synthesize

\* The review.
LEMMA ReviewPreserves ==
  ASSUME FlowInv, Review
  PROVE  FlowInv'
<1>1. /\ turn.pc = "reviewing" /\ turn.pc \in Later /\ TurnStep
      /\ remembered' = remembered /\ setup.critic_on
  BY DEF Review, Later, Places, FlowInv, ProgressOK
<1>2. CASE Goes(RaisedBy("Exception")) /\ synthesis' = synthesis
  BY <1>1, <1>2, RaisingMoves DEF Exceptions
<1>3. CASE Goes(Written) /\ synthesis' = "critic"
  BY <1>1, <1>3, WrittenMoves DEF Author
<1>4. QED
  BY <1>2, <1>3 DEF Review

\* The extraction of facts.
LEMMA ExtractPreserves ==
  ASSUME FlowInv, Extract
  PROVE  FlowInv'
<1>1. /\ turn.pc = "extracting" /\ turn.pc \in Later /\ TurnStep
      /\ synthesis' = synthesis /\ remembered' = remembered
  BY DEF Extract, Later, Places
<1>2. CASE Goes(RaisedBy("Exception"))
  BY <1>1, <1>2, RaisingMoves DEF Exceptions
<1>3. {synthesis', remembered'} \subseteq {"none", "synthesizer", "critic"}
  BY <1>1 DEF FlowInv, TypeOK
<1>4. CASE Goes(At("remembering"))
  <2>1. awaited["remembering"] = 0 /\ At("remembering").pc = "remembering"
    BY <1>1, TurnShapes DEF FlowInv, ProgressOK, One, Places
  <2>2. ProgressOK'
    BY <1>1, <1>4, Counts, TurnShapes
       DEF FlowInv, ProgressOK, One, Author, Places, TurnStep
  <2>3. QED
    BY <1>1, <1>3, <1>4, <2>1, <2>2, LaterMoves DEF Later, Places
<1>5. CASE Goes(Succeeded)
  <2>1. Succeeded.pc \notin Places
    BY TurnShapes DEF Places
  <2>2. ProgressOK'
    BY <1>1, <1>5, Counts, TurnShapes
       DEF FlowInv, ProgressOK, One, Author, Places, TurnStep
  <2>3. QED
    BY <1>1, <1>3, <1>5, <2>1, <2>2, LaterMoves
<1>6. QED
  BY <1>2, <1>4, <1>5 DEF Extract

\* The last await.
LEMMA RememberPreserves ==
  ASSUME FlowInv, Remember
  PROVE  FlowInv'
<1>1. /\ turn.pc = "remembering" /\ turn.pc \in Later /\ TurnStep /\ synthesis' = synthesis
  BY DEF Remember, Later, Places
<1>2. CASE Goes(RaisedBy("Exception")) /\ remembered' \in {synthesis, remembered}
  BY <1>1, <1>2, RaisingMoves DEF Exceptions
<1>3. CASE Goes(Succeeded) /\ remembered' = synthesis
  <2>1. Succeeded.pc \notin Places
    BY TurnShapes DEF Places
  <2>2. {synthesis', remembered'} \subseteq {"none", "synthesizer", "critic"}
    BY <1>1, <1>3 DEF FlowInv, TypeOK
  <2>3. ProgressOK'
    BY <1>1, <1>3, Counts, TurnShapes
       DEF FlowInv, ProgressOK, One, Author, Places, TurnStep
  <2>4. QED
    BY <1>1, <1>3, <2>1, <2>2, <2>3, LaterMoves
<1>4. QED
  BY <1>2, <1>3 DEF Remember

\* Ctrl-C past the fan-out.
LEMMA InterruptPreserves ==
  ASSUME FlowInv, Interrupt
  PROVE  FlowInv'
<1>1. /\ turn.pc \in Later /\ TurnStep /\ synthesis' = synthesis
      /\ Goes(RaisedBy("CancelledError"))
  BY DEF Interrupt, Later, FlowInv, TypeOK, Turns, At, Succeeded, RaisedBy
<1>2. \/ remembered' = remembered
      \/ turn.pc = "remembering" /\ remembered' = synthesis
  BY DEF Interrupt
<1>3. QED
  BY <1>1, <1>2, RaisingMoves DEF Exceptions

\* There are two registry workers, each with a source of its own.
LEMMA TwoWorkers == Executions = {"account", "meeting"}
  BY FlowAssumption DEF WorkerTool

\* All workers have returned.
LEMMA FanoutDonePreserves ==
  ASSUME FlowInv, FanoutDone
  PROVE  FlowInv'
<1>1. /\ turn.pc = "fanout" /\ search.pc = "done" /\ search.raised = "none"
      /\ \A e \in Executions : exec[e].pc = "done" /\ exec[e].result # "raised"
      /\ sources' = [account |-> _worker("account"), meeting |-> _worker("meeting"),
                     retrieved |-> "data"]
      /\ Goes(AfterFanout)
      /\ UNCHANGED <<registryVars, setup, search, calls, reply, synthesis, remembered>>
  BY DEF FanoutDone, searchVars
<1>2. \A e \in Executions : exec[e].result \in {"ok", "denied", "failed"}
  BY <1>1 DEF FlowInv, WorkerOK
<1>3. \A e \in Executions : sources'[e] = IF exec[e].result = "ok" THEN "data" ELSE "unavailable"
  BY <1>1, TwoWorkers DEF _worker
<1>4. sources' \in [{"account", "meeting", "retrieved"} -> {"none", "data", "unavailable"}]
      /\ sources'["retrieved"] = "data"
  BY <1>1 DEF _worker
<1>5. PICK p \in {"recalling", "synthesizing"} :
        AfterFanout = At(p) /\ (p = "recalling" <=> setup.memory_on)
  BY DEF AfterFanout
<1>6. /\ turn' = At(p) /\ turn'.pc = p /\ turn'.stop_reason = "none"
      /\ turn'.exception = "none" /\ At(p) \in Turns(Places) /\ At(p).pc \in Places
  BY <1>1, <1>5, Counts, TurnShapes DEF Places
<1>7. UNCHANGED <<tools, exec, setup, search>>
  BY <1>1 DEF registryVars
<1>8. FanoutOK'
  BY <1>1, <1>2, <1>3, <1>4, <1>6, <1>7 DEF FanoutOK
<1>9. ProgressOK'
  BY <1>1, <1>5, <1>6, Counts DEF FlowInv, ProgressOK, One, Places
<1>10. awaited[At(p).pc] = 0 /\ {synthesis', remembered'} \subseteq {"none", "synthesizer", "critic"}
  BY <1>1, <1>6 DEF FlowInv, ProgressOK, TypeOK
<1>11. QED
  BY <1>1, <1>4, <1>5, <1>6, <1>8, <1>9, <1>10, TurnMoves

\* A worker has raised.
LEMMA FanoutRaisesPreserves ==
  ASSUME FlowInv, FanoutRaises
  PROVE  FlowInv'
<1>1. /\ turn.pc = "fanout" /\ TurnStep /\ synthesis' = synthesis /\ remembered' = remembered
      /\ turn.pc \in Places
  BY DEF FanoutRaises, Places
<1>2. PICK x \in Exceptions :
        /\ Goes(RaisedBy(x))
        /\ search.raised # "none" \/ \E e \in Executions : exec[e].result = "raised"
  BY DEF FanoutRaises, FlowInv, TypeOK, Search, Exceptions
<1>3. /\ turn' = RaisedBy(x) /\ turn'.pc = "ended" /\ turn'.stop_reason # "success"
      /\ RaisedBy(x) \in Turns(Places) /\ RaisedBy(x).pc \notin Places
  BY <1>2, Counts, TurnShapes DEF Places
<1>4. /\ sources' = sources /\ sources["retrieved"] = "none" /\ sources["account"] = "none"
      /\ UNCHANGED <<registryVars, exec, setup, search, calls, reply>>
  BY <1>1 DEF TurnStep, searchVars, registryVars, FlowInv, FanoutOK
<1>5. FanoutOK'
  BY <1>2, <1>3, <1>4 DEF FanoutOK
<1>6. ProgressOK'
  BY <1>1, <1>2, <1>4, RaisingProgress
<1>7. /\ {synthesis', remembered'} \subseteq {"none", "synthesizer", "critic"}
      /\ sources' \in [{"account", "meeting", "retrieved"} -> {"none", "data", "unavailable"}]
  BY <1>1, <1>4 DEF FlowInv, TypeOK
<1>8. QED
  BY <1>1, <1>2, <1>3, <1>4, <1>5, <1>6, <1>7, TurnMoves

\* Ctrl-C in the fan-out: every worker that runs is cancelled with the turn.
LEMMA InterruptFanoutPreserves ==
  ASSUME FlowInv, InterruptFanout
  PROVE  FlowInv'
<1> DEFINE cancelled(e) == [exec[e] EXCEPT !.pc = "done", !.result = "cancelled"]
<1>1. /\ turn.pc = "fanout" /\ turn.pc \in Places /\ "CancelledError" \in Exceptions
      /\ Goes(RaisedBy("CancelledError"))
      /\ UNCHANGED <<tools, setup, reply, sources, synthesis, remembered>>
      /\ grants' = grants
  BY DEF InterruptFanout, Places, Exceptions, grants
<1>2. /\ turn' = RaisedBy("CancelledError") /\ turn'.pc = "ended"
      /\ turn'.stop_reason # "success" /\ turn'.exception = "CancelledError"
      /\ turn' \in Turns(Places)
      /\ \A p \in Awaits : awaited'[p] = awaited[p]
      /\ awaited' \in [Awaits -> 0 .. 1]
  BY <1>1, Counts, TurnShapes DEF Places, Goes
<1>3. exec' = [e \in Executions |-> IF Running(e) THEN cancelled(e) ELSE exec[e]]
  BY DEF InterruptFanout
<1>4. ASSUME NEW e \in Executions
      PROVE  /\ exec'[e] \in Execution /\ FrameOK(exec'[e])
             /\ \/ exec'[e] = exec[e]
                \/ /\ exec[e].pc \notin {"idle", "done"}
                   /\ exec'[e].pc = "done" /\ exec'[e].result = "cancelled"
                   /\ exec'[e].gate = exec[e].gate /\ exec'[e].spec = exec[e].spec
  <2>1. exec[e] \in Execution /\ FrameOK(exec[e])
    BY DEF FlowInv, RegistryInv, RegistryTypeOK, ExecutionInv
  <2>2. "cancelled" \in {"ok", "failed", "cancelled"}
    OBVIOUS
  <2>3. /\ cancelled(e) \in Execution /\ FrameOK(cancelled(e))
        /\ cancelled(e).pc = "done" /\ cancelled(e).result = "cancelled"
        /\ cancelled(e).gate = exec[e].gate /\ cancelled(e).spec = exec[e].spec
    BY <2>1, <2>2, CancelledIsSound, EndedFrame
  <2>4. exec'[e] = IF Running(e) THEN cancelled(e) ELSE exec[e]
    BY <1>3
  <2> HIDE DEF cancelled
  <2>5. QED
    BY <2>1, <2>3, <2>4 DEF Running
<1>5. RegistryInv'
  <2>1. exec' \in [Executions -> Execution]
    BY <1>3, <1>4
  <2>2. QED
    BY <1>1, <1>4, <2>1 DEF FlowInv, RegistryInv, RegistryTypeOK, ExecutionInv
<1>6. ToolsOK' /\ \A e \in Executions : WorkerOK(e)'
  BY <1>1, <1>2, <1>4 DEF FlowInv, ToolsOK, WorkerOK
<1>7. /\ search' \in Search /\ search'.pc = "done"
      /\ search'.raised = "none" => search' = search
  BY DEF InterruptFanout, Failed, FlowInv, TypeOK, Search, Exceptions
<1>8. SearchOK' /\ CallsOK'
  <2>1. CallsOK'
    BY <1>1, CancelledCallsAreSound DEF InterruptFanout, CallsOK, CallOK
  <2>2. QED
    BY <1>2, <1>7, <2>1 DEF FlowInv, SearchOK, Awaits
<1>9. FanoutOK'
  BY <1>1, <1>2 DEF FlowInv, FanoutOK
<1>10. ProgressOK'
  BY <1>1, RaisingProgress
<1>11. TypeOK'
  BY <1>1, <1>2, <1>5, <1>7, <1>8 DEF FlowInv, TypeOK, RegistryInv, CallsOK
<1>12. QED
  BY <1>5, <1>6, <1>8, <1>9, <1>10, <1>11 DEF FlowInv

\* The end of the process, after the turn.
LEMMA TeardownPreserves ==
  ASSUME FlowInv, Teardown
  PROVE  FlowInv'
<1>1. /\ DOMAIN reply' = DOMAIN NoReply /\ search \in Search
      /\ UNCHANGED <<setup, turn, reply, sources, synthesis, remembered, awaited>>
  BY DEF Teardown, FlowInv, TypeOK
<1>2. CASE Searching /\ search' = Failed(search, "CancelledError") /\ UNCHANGED <<registryVars, calls>>
  <2>1. search.pc # "done" /\ search' \in Search /\ search'.pc = "done"
        /\ search'.raised = "CancelledError"
    BY <1>1, <1>2 DEF Searching, Failed, Search, Exceptions
  <2>2. SearchOK' /\ CallsOK'
    BY <1>1, <1>2, <2>1 DEF SearchOK, CallsOK, CallOK, FlowInv, grants
  <2>3. QED
    BY <1>1, <1>2, <2>1, <2>2, SearchMoves
<1>3. ASSUME NEW e \in Executions, Cancelled(e), UNCHANGED <<search, calls>>
      PROVE  FlowInv'
  <2>1. turn.pc = "ended" /\ UNCHANGED flowVars
    BY <1>1, <1>3 DEF Teardown, flowVars, searchVars
  <2>2. QED
    BY <1>3, <2>1, CancelPreserves
<1>4. ASSUME NEW c \in SearchCalls, calls' = [calls EXCEPT ![c] = Raised("CancelledError")],
             UNCHANGED <<registryVars, search>>
      PROVE  FlowInv'
  <2>1. CallOK(Raised("CancelledError"))
    BY CallsAreSound DEF Exceptions
  <2>2. CallsOK'
    BY <1>1, <1>4, <2>1, OneCallMoves DEF grants
  <2>3. SearchOK'
    BY <1>1, <1>4 DEF FlowInv, SearchOK
  <2>4. QED
    BY <1>1, <1>4, <2>2, <2>3, SearchMoves
<1>5. QED
  BY <1>2, <1>3, <1>4 DEF Teardown

-----------------------------------------------------------------------------
\* A turn that starts satisfies the invariant.
LEMMA FlowInitEstablishes == Init => FlowInv
<1> SUFFICES ASSUME Init PROVE FlowInv
  OBVIOUS
<1>1. /\ tools \in [ToolNames -> Specs \cup {NoSpec}] /\ ToolsOK
  <2>1. tools = [n \in ToolNames |-> CHOOSE s \in Specs : SpecName[s] = n]
    BY DEF Init, RegistryInit
  <2>2. \A n \in ToolNames : /\ (CHOOSE s \in Specs : SpecName[s] = n) \in Specs
                             /\ SpecName[CHOOSE s \in Specs : SpecName[s] = n] = n
    BY ToolsAreRegistered
  <2>3. QED
    BY <2>1, <2>2 DEF ToolsOK
<1>2. RegistryInv
  BY <1>1, IdleIsSound DEF Init, RegistryInit, RegistryInv, RegistryTypeOK, ExecutionInv
<1>3. \A e \in Executions : WorkerOK(e)
  BY DEF Init, RegistryInit, WorkerOK, Idle
<1>4. turn.pc = "fanout" /\ turn.stop_reason = "none" /\ turn.exception = "none"
      /\ turn \in Turns(Places)
  BY TurnShapes DEF Init, Places
<1>5. TypeOK
  BY <1>2, <1>4, FlowAssumption
     DEF Init, TypeOK, RegistryInv, Search, NoReply, SearchCall, NoCall
<1>6. SearchOK /\ CallsOK
  BY DEF Init, SearchOK, CallsOK, CallOK, SearchCall, NoCall, Awaits
<1>7. FanoutOK
  BY <1>4 DEF Init, FanoutOK
<1>8. ProgressOK
  BY <1>4 DEF Init, ProgressOK, Awaits, Places
<1>9. QED
  BY <1>1, <1>2, <1>3, <1>5, <1>6, <1>7, <1>8 DEF FlowInv

\* Every action of the flow preserves the invariant.
LEMMA FlowNextPreserves == FlowInv /\ [Next]_vars => FlowInv'
<1> SUFFICES ASSUME FlowInv, [Next]_vars PROVE FlowInv'
  OBVIOUS
<1>1. ASSUME NEW e \in Executions, Dispatch(e) \/ Resume(e) PROVE FlowInv'
  BY <1>1, DispatchPreserves, ResumePreserves
<1>2. CASE SearchAction
  BY <1>2, SearchPreserves
<1>3. CASE FanoutDone \/ FanoutRaises \/ InterruptFanout
  BY <1>3, FanoutDonePreserves, FanoutRaisesPreserves, InterruptFanoutPreserves
<1>4. CASE Recall \/ Synthesize \/ Review \/ Extract \/ Remember \/ Interrupt
  BY <1>4, RecallPreserves, SynthesizePreserves, ReviewPreserves, ExtractPreserves,
     RememberPreserves, InterruptPreserves
<1>5. CASE Teardown
  BY <1>5, TeardownPreserves
<1>6. CASE UNCHANGED vars
  BY <1>6 DEF vars, registryVars, flowVars, searchVars, FlowInv, RegistryInv, RegistryTypeOK,
              ExecutionInv, TypeOK, ToolsOK, WorkerOK, SearchOK, CallsOK, CallOK, FanoutOK, ProgressOK, Author, grants
<1>7. QED
  BY <1>1, <1>2, <1>3, <1>4, <1>5, <1>6 DEF Next, SearchAction

\* The inductive invariant of the flow holds throughout.
LEMMA FlowInvariance == Spec => []FlowInv
  BY FlowInitEstablishes, FlowNextPreserves, PTL DEF Spec

-----------------------------------------------------------------------------
(* The answers of the server. RetrievalProofs has its own instance of what  *)
(* Server instantiates, with the same corpus.                              *)

Answers == INSTANCE RetrievalProofs

\* What is proved of the one instance holds of the other.
LEMMA SameRetrieval ==
  ASSUME NEW query, NEW k
  PROVE  /\ Answers!search(query, k) = Server!search(query, k)
         /\ \A chunks : Answers!IsAnswer(chunks, query, k) => Server!IsAnswer(chunks, query, k)
<1>1. Answers!sorted(query) = Server!sorted(query)
  BY DEF Answers!sorted, Server!sorted, Answers!Placed, Server!Placed, Answers!score,
         Server!score, Answers!InsertAt, Server!InsertAt,
         Answers!Cardinality, Server!Cardinality
<1>2. Answers!search(query, k) = Server!search(query, k)
  BY <1>1 DEF Answers!search, Server!search, Answers!upto, Server!upto, Answers!Min, Server!Min
<1>3. ASSUME NEW chunks, Answers!IsAnswer(chunks, query, k)
      PROVE  Server!IsAnswer(chunks, query, k)
  BY <1>3 DEF Answers!IsAnswer, Server!IsAnswer, Answers!Before, Server!Before, Answers!score,
              Server!score, Answers!fetch_chunk, Server!fetch_chunk, Answers!Min, Server!Min,
              Answers!Cardinality, Server!Cardinality
<1>4. QED
  BY <1>2, <1>3

\* Whatever the agent may search with, the server answers it well.
LEMMA SearchesAreAnswered ==
  ASSUME NEW q \in Searches
  PROVE  Server!IsAnswer(Server!search(q[1], q[2]), q[1], q[2])
<1>1. q[1] \in Seq(Terms) /\ q[2] \in Int
  BY SearchAssumption
<1>2. Answers!IsAnswer(Answers!search(q[1], q[2]), q[1], q[2])
  BY <1>1, SearchAssumption, Answers!SearchIsGrounded
<1>3. QED
  BY <1>2, SameRetrieval

\* The agent has what the server made of one of its searches, or nothing.
ReplyOK ==
  \/ reply = NoReply
  \/ \E q \in Searches :
       reply = [query |-> q[1], k |-> q[2], chunks |-> Server!search(q[1], q[2])]

\* Only the server answers, and only the return of all calls forgets it.
LEMMA RepliesComeFromTheServer == ReplyOK /\ [Next]_vars => ReplyOK'
<1> SUFFICES ASSUME ReplyOK, [Next]_vars PROVE ReplyOK'
  OBVIOUS
<1>1. CASE CallsDone
  BY <1>1 DEF CallsDone, ReplyOK, NoReply
<1>2. ASSUME NEW c \in SearchCalls, ServerAnswers(c) PROVE ReplyOK'
  BY <1>2 DEF ServerAnswers, ReplyOK, NoReply
<1>3. CASE reply' = reply
  BY <1>3 DEF ReplyOK, NoReply
<1>4. ASSUME NEW e \in Executions, Dispatch(e) \/ Resume(e) PROVE reply' = reply
  BY <1>4 DEF Dispatch, Resume, flowVars, searchVars
<1>5. StartSearch \/ SearchModel \/ SearchModelFails \/ CallsRaise => reply' = reply
  BY DEF StartSearch, SearchModel, SearchModelFails, CallsRaise
<1>6. ASSUME NEW c \in SearchCalls, SearchApproved(c) PROVE reply' = reply
  BY <1>6 DEF SearchApproved
<1>7. FanoutDone \/ FanoutRaises \/ InterruptFanout => reply' = reply
  BY DEF FanoutDone, FanoutRaises, InterruptFanout, TurnStep, searchVars
<1>8. Recall \/ Synthesize \/ Review \/ Extract \/ Remember \/ Interrupt \/ Teardown => reply' = reply
  BY DEF Recall, Synthesize, Review, Extract, Remember, Interrupt, Teardown, TurnStep, searchVars
<1>9. UNCHANGED vars => reply' = reply
  BY DEF vars, flowVars, searchVars
<1>10. QED
  BY <1>1, <1>2, <1>3, <1>4, <1>5, <1>6, <1>7, <1>8, <1>9 DEF Next

\* search in retrieval/mcp_server: whatever the agent asks for, the server
\* answers with the matches that rank best, in order, and each can be fetched
\* to verify the citation; unless the number of chunks asked for is negative,
\* they are that many, or all. The registry, the gates and the turn around
\* the agent have no part in it.
THEOREM AgentIsToldTheTruth == Spec => []AnswersAreGrounded
<1>1. Init => ReplyOK
  BY DEF Init, ReplyOK
<1>2. ReplyOK => AnswersAreGrounded
  BY SearchesAreAnswered DEF ReplyOK, AnswersAreGrounded
<1>3. QED
  BY <1>1, <1>2, RepliesComeFromTheServer, PTL DEF Spec

-----------------------------------------------------------------------------
\* Every variable of the flow keeps its shape.
THEOREM FlowTypeCorrect == Spec => []TypeOK
<1>1. FlowInv => TypeOK
  BY DEF FlowInv
<1>2. QED
  BY <1>1, FlowInvariance, PTL

\* What the registry promises any caller it keeps for this flow, with the gate
\* of its services or none, and whenever the turn is broken off.
THEOREM RegistryKeepsItsWord == Spec => [](OnlyClearedHandlersRun /\ ResultTellsWhatRan)
<1>1. FlowInv => OnlyClearedHandlersRun
  BY DEF FlowInv, RegistryInv, ExecutionInv, FrameOK, OnlyClearedHandlersRun, Admits, Asks
<1>2. FlowInv => ResultTellsWhatRan
  BY DEF FlowInv, RegistryInv, ExecutionInv, FrameOK, ResultTellsWhatRan
<1>3. QED
  BY <1>1, <1>2, FlowInvariance, PTL

\* asyncio.gather in run: no later step, and no success, before all three
\* workers have returned.
THEOREM GatherWaits == Spec => []SynthesisAfterWholeFanout
<1>1. ASSUME FlowInv, FanoutOver PROVE sources["retrieved"] # "none"
  BY <1>1 DEF FlowInv, FanoutOK, FanoutOver
<1>2. FlowInv => SynthesisAfterWholeFanout
  BY <1>1 DEF SynthesisAfterWholeFanout, FlowInv, FanoutOK
<1>3. QED
  BY <1>2, FlowInvariance, PTL

\* No financial data reaches the synthesis, and no search call the MCP server,
\* that the gate in force had not cleared for that very call, however many
\* calls of a response wait for answers at once.
THEOREM DataIsCleared == Spec => []OnlyClearedDataIsUsed
<1> DEFINE gate == IF setup.approval_gate = NoGate THEN DefaultGate ELSE setup.approval_gate
<1>1. ASSUME FlowInv, sources["account"] = "data"
      PROVE  \/ Admits(gate, "financial")
             \/ Asks(gate, "financial") /\ exec["account"].approved = "financial"
  <2> DEFINE x == exec["account"]
  <2>1. "account" \in Executions /\ WorkerTool["account"] = "account_lookup"
    BY TwoWorkers DEF WorkerTool
  <2>2. sources["retrieved"] # "none"
    BY <1>1 DEF FlowInv, FanoutOK
  <2>3. x.pc = "done" /\ x.result = "ok"
    BY <1>1, <2>1, <2>2 DEF FlowInv, FanoutOK
  <2>4. x.gate = gate /\ x.spec = tools["account_lookup"]
    BY <1>1, <2>1, <2>3 DEF FlowInv, WorkerOK, grants
  <2>5. SpecTier[tools["account_lookup"]] = "financial"
    BY <1>1, <2>1, ToolsAreRegistered DEF FlowInv, ToolsOK
  <2>6. FrameOK(x)
    BY <1>1, <2>1 DEF FlowInv, RegistryInv, ExecutionInv
  <2> HIDE DEF x, gate
  <2>7. QED
    BY <2>3, <2>4, <2>5, <2>6 DEF FrameOK, x
<1>2. ASSUME FlowInv, NEW c \in SearchCalls, calls[c].pc = "server"
      PROVE  Admits(gate, "read_only") \/ (Asks(gate, "read_only") /\ calls[c].approved)
  BY <1>2 DEF FlowInv, CallsOK, CallOK, grants
<1>3. FlowInv => OnlyClearedDataIsUsed
  BY <1>1, <1>2 DEF OnlyClearedDataIsUsed
<1>4. QED
  BY <1>3, FlowInvariance, PTL

\* A denied or failed tool does not end the turn: if it raises, a worker
\* raised, a later step did, or somebody interrupted it.
THEOREM ToolFailuresAreSurvived == Spec => []FailedToolsAreSurvived
<1>1. FlowInv => FailedToolsAreSurvived
  BY DEF FlowInv, FanoutOK, FailedToolsAreSurvived
<1>2. QED
  BY <1>1, FlowInvariance, PTL

\* What the ablation flags leave out is left out, and nothing else, on every
\* way through the flow; what is returned or remembered had its critic.
THEOREM FlagsDecide == Spec => []AblationsHold
<1> DEFINE written == IF setup.critic_on THEN "critic" ELSE "synthesizer"
           memory == One(setup.memory_on)
           critic == One(setup.critic_on)
           store  == One(setup.memory_on /\ setup.fact_extractor)
<1>1. ASSUME FlowInv
      PROVE  /\ Expected.agent_calls = 2 + critic
             /\ Expected.memory_recall_calls = memory
             /\ Expected.memory_remember_calls = store
             /\ DOMAIN Expected = {"agent_calls", "memory_recall_calls", "memory_remember_calls"}
             /\ critic \in 0 .. 1 /\ memory \in 0 .. 1 /\ store \in 0 .. 1
  BY DEF Expected, One
<1> HIDE DEF memory, critic, store
<1>2. ASSUME FlowInv
      PROVE  /\ awaited["recalling"] \in 0 .. memory /\ awaited["synthesizing"] \in 0 .. 1
             /\ awaited["reviewing"] \in 0 .. critic /\ awaited["remembering"] \in 0 .. store
             /\ awaited["retrieving"] \in 0 .. 1
  <2>1. turn.pc \in Places \cup {"ended"}
    BY <1>2 DEF FlowInv, TypeOK, Turns, At, Succeeded, RaisedBy
  <2>2. awaited["retrieving"] \in 0 .. 1
    BY <1>2 DEF FlowInv, TypeOK, Awaits
  <2>3. QED
    BY <1>1, <1>2, <2>1, <2>2
       DEF FlowInv, ProgressOK, Places, One, memory, critic, store
<1>3. ASSUME FlowInv, NEW field \in DOMAIN Expected
      PROVE  AblationResult[field] <= Expected[field]
  BY <1>1, <1>2, <1>3
     DEF AblationResult, agent_calls, memory_recall_calls, memory_remember_calls
<1>4. ASSUME FlowInv, turn.stop_reason = "success"
      PROVE  /\ AblationResult \in {Expected, [Expected EXCEPT !.memory_remember_calls = 0]}
             /\ synthesis = written
  <2>1. /\ awaited["recalling"] = memory /\ awaited["synthesizing"] = 1
        /\ awaited["reviewing"] = critic /\ synthesis = written
    BY <1>4 DEF FlowInv, ProgressOK, Author, memory, critic
  <2>2. awaited["retrieving"] = 1
    BY <1>4 DEF FlowInv, FanoutOK, SearchOK
  <2>3. awaited["remembering"] = store \/ awaited["remembering"] = 0
    BY <1>1, <1>2, <1>4
  <2>4. /\ AblationResult.agent_calls = 2 + critic
        /\ AblationResult.memory_recall_calls = memory
        /\ AblationResult.memory_remember_calls = awaited["remembering"]
    BY <1>1, <1>4, <2>1, <2>2
       DEF AblationResult, agent_calls, memory_recall_calls, memory_remember_calls
  <2>5. /\ AblationResult = [agent_calls |-> AblationResult.agent_calls,
                              memory_recall_calls |-> AblationResult.memory_recall_calls,
                              memory_remember_calls |-> AblationResult.memory_remember_calls]
        /\ Expected = [agent_calls |-> Expected.agent_calls,
                       memory_recall_calls |-> Expected.memory_recall_calls,
                       memory_remember_calls |-> Expected.memory_remember_calls]
    BY DEF AblationResult, Expected
  <2>6. QED
    BY <1>1, <1>4, <2>1, <2>3, <2>4, <2>5
<1>5. ASSUME FlowInv, remembered # "none"
      PROVE  memory_remember_calls = 1 /\ remembered = written
  BY <1>5 DEF FlowInv, ProgressOK, Author, memory_remember_calls
<1>6. FlowInv => AblationsHold
  BY <1>3, <1>4, <1>5 DEF AblationsHold
<1>7. QED
  BY <1>6, FlowInvariance, PTL

-----------------------------------------------------------------------------
(* The flow is a Turn. A step either leaves the end of the turn and its    *)
(* facts as they are, or ends it.                                          *)

\* An end of the turn is an end of the contract.
LEMMA EndsAreEnds ==
  ASSUME FlowInv, turn.pc # "ended", turn'.stop_reason \in StopReasons, setup' = setup,
         remembered' # "none" =>
           setup.memory_on /\ turn'.stop_reason \in {"success", "uncaught"}
  PROVE  Contract!End
<1>1. turn.stop_reason = "none"
  BY DEF FlowInv, TypeOK, Turns, At, Succeeded, RaisedBy
<1>2. CASE remembered' = "none"
  <2>1. (remembered' # "none") = FALSE
    BY <1>2
  <2>2. [stop_reason |-> turn'.stop_reason, facts |-> FALSE] \in Contract!Outcomes(setup.memory_on)
    BY DEF Contract!Outcomes, Contract!StopReasons, StopReasons
  <2>3. QED
    BY <1>1, <2>1, <2>2 DEF Contract!End
<1>3. CASE remembered' # "none"
  <2>1. (remembered' # "none") = TRUE
    BY <1>3
  <2>2. [stop_reason |-> turn'.stop_reason, facts |-> TRUE] \in Contract!Outcomes(setup.memory_on)
    BY <1>3 DEF Contract!Outcomes
  <2>3. QED
    BY <1>1, <2>1, <2>2 DEF Contract!End
<1>4. QED
  BY <1>2, <1>3

\* A step that keeps the turn from ending, and its facts, is invisible.
LEMMA GoesOnUnseen ==
  ASSUME setup' = setup, turn'.stop_reason = turn.stop_reason, remembered' = remembered
  PROVE  UNCHANGED Contract!vars
  BY DEF Contract!vars

\* A turn that has begun awaits what has left no facts yet.
LEMMA OpenTurnLeftNothing ==
  ASSUME FlowInv, turn.pc # "ended"
  PROVE  remembered = "none" /\ turn.stop_reason = "none"
  BY DEF FlowInv, ProgressOK, TypeOK, Turns, At, Succeeded, RaisedBy

\* How a step can touch the facts or a turn that has ended.
LEMMA StepsOfTheTurn ==
  ASSUME FlowInv, [Next]_vars
  PROVE  /\ setup' = setup
         /\ turn.pc = "ended" => turn' = turn
         /\ remembered' # remembered =>
              /\ turn.pc = "remembering"
              /\ turn' \in {Succeeded, RaisedBy("Exception"), RaisedBy("CancelledError")}
<1>1. ASSUME NEW e \in Executions, Dispatch(e) \/ Resume(e)
      PROVE  setup' = setup /\ turn' = turn /\ remembered' = remembered
  BY <1>1 DEF Dispatch, Resume, flowVars
<1>2. CASE SearchAction
  BY <1>2, SearchLeavesTheTurn
<1>3. CASE FanoutDone \/ FanoutRaises
  BY <1>3 DEF FanoutDone, FanoutRaises, TurnStep
<1>4. CASE Recall \/ Synthesize \/ Review \/ Extract
  BY <1>4 DEF Recall, Synthesize, Review, Extract, TurnStep
<1>5. CASE Remember
  BY <1>5 DEF Remember, Goes, TurnStep
<1>6. CASE InterruptFanout
  BY <1>6 DEF InterruptFanout
<1>7. CASE Interrupt
  BY <1>7 DEF Interrupt, Goes, TurnStep
<1>8. CASE Teardown
  BY <1>8 DEF Teardown
<1>9. CASE UNCHANGED vars
  BY <1>9 DEF vars, flowVars
<1>10. QED
  BY <1>1, <1>2, <1>3, <1>4, <1>5, <1>6, <1>7, <1>8, <1>9 DEF Next, SearchAction

\* Every step is a step of the contract.
LEMMA StepIsAStepOfTheTurn ==
  ASSUME FlowInv, FlowInv', [Next]_vars
  PROVE  [Contract!End \/ Contract!Later]_(Contract!vars)
<1>1. CASE turn.pc = "ended"
  <2>1. setup' = setup /\ turn' = turn /\ remembered' = remembered
    BY <1>1, StepsOfTheTurn
  <2>2. QED
    BY <2>1, GoesOnUnseen
<1>2. CASE turn.pc # "ended" /\ remembered' = remembered
  <2>1. setup' = setup /\ remembered' = "none" /\ turn.stop_reason = "none"
    BY <1>2, StepsOfTheTurn, OpenTurnLeftNothing
  <2>2. turn'.stop_reason \in StopReasons \cup {"none"}
    BY DEF FlowInv, TypeOK, Turns, At, Succeeded, RaisedBy, StopReason, StopReasons
  <2>3. CASE turn'.stop_reason = "none"
    BY <1>2, <2>1, <2>3, GoesOnUnseen
  <2>4. CASE turn'.stop_reason \in StopReasons
    BY <1>2, <2>1, <2>4, EndsAreEnds
  <2>5. QED
    BY <2>2, <2>3, <2>4
<1>3. CASE turn.pc # "ended" /\ remembered' # remembered
  <2>1. /\ setup' = setup /\ setup.memory_on
        /\ turn' \in {Succeeded, RaisedBy("Exception"), RaisedBy("CancelledError")}
    BY <1>3, StepsOfTheTurn DEF FlowInv, ProgressOK
  <2>2. turn'.stop_reason \in {"success", "uncaught"}
    BY <2>1 DEF Succeeded, RaisedBy, StopReason
  <2>3. QED
    BY <1>3, <2>1, <2>2, EndsAreEnds DEF StopReasons
<1>4. QED
  BY <1>1, <1>2, <1>3

\* To whoever awaits it, the flow is a Turn: it ends once, with all it leaves
\* in memory, and what run_turn converts into a failure has left nothing.
THEOREM ImplementsTurn == Spec => TurnSpec
<1>1. Init => Contract!Init
  <2>1. ASSUME Init PROVE setup.memory_on \in BOOLEAN
    BY <2>1, FlowAssumption DEF Init, Setup
  <2>2. QED
    BY <2>1 DEF Init, Contract!Init, At
<1>2. FlowInv /\ FlowInv' /\ [Next]_vars => [Contract!End \/ Contract!Later]_(Contract!vars)
  BY StepIsAStepOfTheTurn
<1>3. QED
  BY <1>1, <1>2, FlowInvariance, PTL DEF Spec, TurnSpec, Contract!Spec

-----------------------------------------------------------------------------
(* How far a turn and its workers have come. TurnEnds needs fairness and    *)
(* stays with TLC; that nothing can go on for ever needs none.              *)

TurnDepth(pc) ==
  CASE pc = "fanout" -> 0       [] pc = "recalling" -> 1  [] pc = "synthesizing" -> 2
    [] pc = "reviewing" -> 3    [] pc = "extracting" -> 4 [] pc = "remembering" -> 5
    [] OTHER -> 6

\* Each request of the retrieval agent is followed by a batch of calls.
SearchDepth(s) ==
  CASE s.pc = "idle"    -> 0
    [] s.pc = "calling" -> 2 * s.asked
    [] s.pc = "model"   -> 2 * s.asked + 1
    [] OTHER            -> 2 * RequestLimit + 2

SearchCallDepth(pc) ==
  CASE pc = "none" -> 0 [] pc = "approval" -> 1 [] pc = "server" -> 2 [] OTHER -> 3

\* A search call comes closer to its end, and the others stay where they are.
SearchCallAdvances(c) ==
  /\ SearchCallDepth(calls'[c].pc) > SearchCallDepth(calls[c].pc)
  /\ \A d \in SearchCalls \ {c} : calls'[d] = calls[d]

\* A step takes the turn to a later await, or one of its three workers; with
\* the retrieval agent it may take the calls that the agent starts or ends.
FlowAdvances ==
  \/ TurnDepth(turn'.pc) > TurnDepth(turn.pc)
  \/ /\ UNCHANGED turn
     /\ \/ /\ UNCHANGED exec
           /\ SearchDepth(search') \in SearchDepth(search) + 1 .. 2 * RequestLimit + 2
        \/ UNCHANGED <<exec, search>> /\ \E c \in SearchCalls : SearchCallAdvances(c)
        \/ UNCHANGED <<search, calls>> /\ \E e \in Executions : CallAdvances(e)

\* The agent is at most as deep as its requests let it be.
LEMMA SearchDepthIsBounded ==
  ASSUME NEW s \in Search
  PROVE  /\ SearchDepth(s) \in 0 .. 2 * RequestLimit + 2
         /\ s.pc # "done" => SearchDepth(s) < 2 * RequestLimit + 2
         /\ RequestLimit \in Nat /\ s.asked \in Nat /\ s.asked <= RequestLimit
         /\ s.pc \in {"idle", "model", "calling", "done"}
<1>1. RequestLimit \in Nat /\ s.asked \in Nat /\ s.asked <= RequestLimit
      /\ s.pc \in {"idle", "model", "calling", "done"}
  BY FlowAssumption DEF Search
<1>2. QED
  BY <1>1 DEF SearchDepth

\* A search call that is answered, or cancelled, comes closer to its end.
LEMMA SearchCallGoesOn ==
  ASSUME FlowInv, UNCHANGED <<turn, exec, search>>, NEW c \in SearchCalls,
         \/ SearchApproved(c) \/ ServerAnswers(c)
         \/ Pending(c) /\ calls' = [calls EXCEPT ![c] = Raised("CancelledError")]
  PROVE  FlowAdvances
<1>1. /\ Returned.pc = "done" /\ \A x : Raised(x).pc = "done"
      /\ \A x \in AfterApproval : x.pc \in {"server", "done"}
  BY DEF Returned, Raised, AfterApproval, AtServer
<1>2. /\ calls \in [SearchCalls -> SearchCall]
      /\ calls[c].pc = "approval" \/ calls[c].pc = "server"
  BY DEF FlowInv, CallsOK, SearchApproved, ServerAnswers, Pending
<1>3. PICK x : /\ calls' = [calls EXCEPT ![c] = x]
               /\ x.pc = "done" \/ (calls[c].pc = "approval" /\ x.pc = "server")
  BY <1>1 DEF SearchApproved, ServerAnswers
<1>4. calls'[c] = x /\ \A d \in SearchCalls \ {c} : calls'[d] = calls[d]
  BY <1>2, <1>3
<1>5. SearchCallDepth(calls'[c].pc) > SearchCallDepth(calls[c].pc)
  BY <1>2, <1>3, <1>4 DEF SearchCallDepth
<1>6. QED
  BY <1>4, <1>5 DEF FlowAdvances, SearchCallAdvances

\* The agent's own steps take it forward.
LEMMA SearchGoesOn ==
  ASSUME FlowInv, FlowInv', UNCHANGED <<turn, exec>>,
         \/ StartSearch \/ SearchModel \/ SearchModelFails \/ CallsDone \/ CallsRaise
         \/ Searching /\ search' = Failed(search, "CancelledError")
  PROVE  FlowAdvances
<1> DEFINE n == search.asked
           bound == 2 * RequestLimit + 2
<1>1. search \in Search /\ search' \in Search
  BY DEF FlowInv, TypeOK
<1>2. /\ SearchDepth(search) \in 0 .. bound /\ SearchDepth(search') \in 0 .. bound
      /\ search.pc # "done" => SearchDepth(search) < bound
      /\ RequestLimit \in Nat /\ n \in Nat
  BY <1>1, SearchDepthIsBounded
<1>3. SUFFICES SearchDepth(search') > SearchDepth(search)
  <2> DEFINE after == SearchDepth(search')
             before == SearchDepth(search)
  <2> HIDE DEF after, before
  <2>1. after > before => after \in before + 1 .. bound
    BY <1>2 DEF after, before
  <2>2. QED
    BY <2>1 DEF FlowAdvances, after, before
<1>4. ASSUME search.pc # "done", search'.pc = "done"
      PROVE  SearchDepth(search') > SearchDepth(search)
  <2>1. SearchDepth(search') = bound
    BY <1>4 DEF SearchDepth
  <2>2. QED
    BY <1>2, <1>4, <2>1
<1>5. ASSUME NEW x PROVE Failed(search, x).pc = "done"
  BY <1>1 DEF Failed, Search
<1>6. CASE StartSearch
  <2>1. search.pc = "idle" /\ search'.pc = "model" /\ search'.asked = n
    BY <1>1, <1>6 DEF StartSearch, Search
  <2>2. QED
    BY <1>2, <2>1 DEF SearchDepth
<1>7. CASE SearchModel
  <2>1. /\ search.pc = "model"
        /\ search'.pc = "done" \/ (search'.pc = "calling" /\ search'.asked = n + 1)
    BY <1>1, <1>7 DEF SearchModel, Search
  <2>2. CASE search'.pc = "done"
    BY <1>4, <2>1, <2>2
  <2>3. CASE search'.pc = "calling" /\ search'.asked = n + 1
    BY <1>2, <2>1, <2>3 DEF SearchDepth
  <2>4. QED
    BY <2>1, <2>2, <2>3
<1>8. CASE CallsDone
  <2>1. search.pc = "calling" /\ search'.pc = "model" /\ search'.asked = n
    BY <1>1, <1>8 DEF CallsDone, Search
  <2>2. QED
    BY <1>2, <2>1 DEF SearchDepth
<1>9. CASE SearchModelFails \/ CallsRaise
  BY <1>4, <1>5, <1>9 DEF SearchModelFails, CallsRaise
<1>10. CASE Searching /\ search' = Failed(search, "CancelledError")
  BY <1>4, <1>5, <1>10 DEF Searching
<1>11. QED
  BY <1>6, <1>7, <1>8, <1>9, <1>10

\* The turn goes only forward, and from its end nowhere.
LEMMA TurnGoesOn ==
  ASSUME FlowInv,
         \/ FanoutDone \/ FanoutRaises \/ InterruptFanout \/ Interrupt
         \/ Recall \/ Synthesize \/ Review \/ Extract \/ Remember
  PROVE  FlowAdvances
<1>1. SUFFICES TurnDepth(turn'.pc) > TurnDepth(turn.pc)
  BY DEF FlowAdvances
<1>2. turn.pc \in Places \cup {"ended"}
  BY DEF FlowInv, TypeOK, Turns, At, Succeeded, RaisedBy
<1>3. /\ \A p : At(p).pc = p
      /\ Succeeded.pc = "ended" /\ \A x : RaisedBy(x).pc = "ended"
  BY DEF At, Succeeded, RaisedBy
<1>4. \A next : Goes(next) => turn'.pc = next.pc
  BY DEF Goes
<1>5. ASSUME turn.pc # "ended", turn'.pc = "ended"
      PROVE  TurnDepth(turn'.pc) > TurnDepth(turn.pc)
  BY <1>2, <1>5 DEF TurnDepth, Places
<1>6. CASE FanoutDone
  <2>1. turn.pc = "fanout" /\ turn'.pc \in {"recalling", "synthesizing"}
    BY <1>3, <1>4, <1>6 DEF FanoutDone, AfterFanout
  <2>2. QED
    BY <2>1 DEF TurnDepth
<1>7. CASE FanoutRaises \/ InterruptFanout \/ Interrupt
  BY <1>3, <1>4, <1>5, <1>7 DEF FanoutRaises, InterruptFanout, Interrupt
<1>8. CASE Recall
  <2>1. turn.pc = "recalling" /\ turn'.pc \in {"synthesizing", "ended"}
    BY <1>3, <1>4, <1>8 DEF Recall
  <2>2. QED
    BY <2>1 DEF TurnDepth
<1>9. Written.pc \in {"extracting", "ended"}
  BY <1>3 DEF Written
<1>10. CASE Synthesize
  <2>1. turn.pc = "synthesizing" /\ turn'.pc \in {"reviewing", "extracting", "ended"}
    BY <1>3, <1>4, <1>9, <1>10 DEF Synthesize
  <2>2. QED
    BY <2>1 DEF TurnDepth
<1>11. CASE Review
  <2>1. turn.pc = "reviewing" /\ turn'.pc \in {"extracting", "ended"}
    BY <1>3, <1>4, <1>9, <1>11 DEF Review
  <2>2. QED
    BY <2>1 DEF TurnDepth
<1>12. CASE Extract
  <2>1. turn.pc = "extracting" /\ turn'.pc \in {"remembering", "ended"}
    BY <1>3, <1>4, <1>12 DEF Extract
  <2>2. QED
    BY <2>1 DEF TurnDepth
<1>13. CASE Remember
  <2>1. turn.pc = "remembering" /\ turn'.pc = "ended"
    BY <1>3, <1>4, <1>13 DEF Remember
  <2>2. QED
    BY <2>1 DEF TurnDepth
<1>14. QED
  BY <1>6, <1>7, <1>8, <1>10, <1>11, <1>12, <1>13

\* Whatever fails, is denied or is interrupted, and whether or not anything
\* answers in time, neither the turn nor a worker that has outlived it, nor a
\* search call that has outlived its agent, goes on for ever.
THEOREM NoEndlessTurn == Spec => [][FlowAdvances]_vars
<1>1. ASSUME FlowInv, FlowInv', Next PROVE FlowAdvances
  <2>1. ASSUME NEW e \in Executions, UNCHANGED <<turn, search, calls>>,
               Dispatch(e) \/ Resume(e) \/ Cancelled(e)
        PROVE  FlowAdvances
    <3>1. CallAdvances(e)
      BY <1>1, <2>1, CallsAdvance DEF Dispatch, Resume, FlowInv, RegistryInv
    <3>2. QED
      BY <2>1, <3>1 DEF FlowAdvances
  <2>2. ASSUME NEW e \in Executions, Dispatch(e) \/ Resume(e)
        PROVE  UNCHANGED <<turn, search, calls>>
    BY <2>2 DEF Dispatch, Resume, flowVars, searchVars
  <2>3. SearchAction => UNCHANGED <<turn, exec>>
    BY SearchLeavesTheTurn DEF registryVars
  <2>4. CASE SearchAction
    <3>1. ASSUME NEW c \in SearchCalls, SearchApproved(c) \/ ServerAnswers(c)
          PROVE  FlowAdvances
      <4>1. UNCHANGED search
        BY <3>1 DEF SearchApproved, ServerAnswers
      <4>2. QED
        BY <1>1, <2>3, <2>4, <3>1, <4>1, SearchCallGoesOn
    <3>2. QED
      BY <1>1, <2>3, <2>4, <3>1, SearchGoesOn DEF SearchAction
  <2>5. CASE Teardown
    BY <1>1, <2>1, <2>5, SearchGoesOn, SearchCallGoesOn DEF Teardown, registryVars
  <2>6. QED
    BY <1>1, <2>1, <2>2, <2>4, <2>5, TurnGoesOn DEF Next, SearchAction
<1>2. QED
  BY <1>1, FlowInvariance, PTL DEF Spec
=============================================================================
