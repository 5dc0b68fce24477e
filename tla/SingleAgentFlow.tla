-------------------------- MODULE SingleAgentFlow --------------------------
(***************************************************************************)
(* flows/single_agent.py under AgentLoop.run_turn: one turn of the default *)
(* flow, from its first await to the FlowResult or the exception that      *)
(* leaves run_turn. The flow recalls memory, lets the agent alternate      *)
(* model requests with batches of tool calls, checks the budget once at    *)
(* the end, and stores what the turn is to be remembered by.               *)
(*                                                                         *)
(* The agent itself (pydantic_ai) is not part of the repository. It is     *)
(* modelled as the flow relies on it: it enforces usage_limits, runs the   *)
(* calls of one response concurrently, and lets what a tool raises leave   *)
(* agent.run. What becomes of the other calls of the batch then is left    *)
(* open: they are cancelled, or go on with nobody waiting for them.        *)
(***************************************************************************)
EXTENDS ToolRegistry, BudgetTracker, FlowResults, FiniteSets

CONSTANTS
  Setups,        \* the services and flags a turn may be given, see Setup
  Invocations,   \* the <<tool name, arguments>> the model may ask for
  ErrorTexts,    \* what a handler's exception may say
  TurnTokens,    \* how many tokens one response may cost
  RequestLimit,  \* model requests the agent allows a run (50 by default)
  NoGate,        \* services.approval_gate is None
  NoCall         \* the execution serves no call

FLOW_NAME == "single_agent"

Setup == [approval_gate : Gates \cup {NoGate}, memory_on : BOOLEAN,
          fact_extractor : BOOLEAN, budget : Budget, price : Nat]

ASSUME FlowAssumption ==
  /\ TurnTokens \subseteq Nat /\ RequestLimit \in Nat
  /\ "denied" \notin ErrorTexts /\ NoCall \notin Invocations /\ NoGate \notin Gates
  /\ Setups \subseteq Setup
  /\ IsFiniteSet(Executions)

\* tools/demo_tools.py: a spec for every name.
ASSUME ToolsAreRegistered == \A n \in ToolNames : \E s \in Specs : SpecName[s] = n

VARIABLES
  setup,       \* services and ablation flags; fixed during the turn
  turn,        \* where the coroutine is, or how it ended (FlowResults)
  usage,       \* the agent's RunUsage
  call,        \* the call each execution of the current batch serves
  raised,      \* what the dispatch of that call raised, if it is over
  seen,        \* RepeatedFailureDetector._seen
  call_count,  \* dispatches so far
  remembered   \* whether memory holds facts of this turn

agentVars == <<usage, call, raised, seen, call_count>>
flowVars  == <<setup, turn, remembered>>
vars      == <<registryVars, budgetVars, agentVars, flowVars>>

Places == {"recalling", "requesting", "calling", "extracting", "remembering"}

\* What a failure is counted under: the call and the text of its error.
FailureKeys == Invocations \X (ErrorTexts \cup {"denied"})

\* Forgets the gate of the services. (A name that ends in _bug is a
\* deliberately wrong variant of the definition after it.)
grants_bug == DefaultGate

\* The run's grants, with the gate of the services if they carry one.
grants == IF setup.approval_gate = NoGate THEN DefaultGate ELSE setup.approval_gate

\* The tools wired to the agent: those in scope that have a typed wrapper.
wired == scoped(FLOW_NAME) \cap {"get_current_time", "echo"}

Asked == {e \in Executions : call[e] # NoCall}

Init ==
  /\ RegistryInit([n \in ToolNames |-> CHOOSE s \in Specs : SpecName[s] = n])
  /\ BudgetInit
  /\ setup \in Setups
  /\ turn = At(IF setup.memory_on THEN "recalling" ELSE "requesting")
  /\ usage = [requests |-> 0, tokens |-> 0, tool_calls |-> 0]
  /\ call = [e \in Executions |-> NoCall]
  /\ raised = [e \in Executions |-> "none"]
  /\ seen = [k \in FailureKeys |-> 0]
  /\ call_count = 0
  /\ remembered = FALSE

-----------------------------------------------------------------------------
(* Memory before the agent runs.                                           *)

Recall ==
  /\ turn.pc = "recalling"
  /\ turn' \in {At("requesting"), RaisedBy("Exception")}
  /\ UNCHANGED <<registryVars, budgetVars, agentVars, setup, remembered>>

-----------------------------------------------------------------------------
(* The agent's side of a turn.                                             *)

limits == usage_limits(setup.budget)

\* A request is answered, at a cost of t tokens.
Charge(t) ==
  /\ turn.pc = "requesting"
  /\ usage.requests < RequestLimit
  /\ usage' = [usage EXCEPT !.requests = @ + 1, !.tokens = @ + t]

WithinTokens == ~ Exceeds(usage'.tokens, limits.total_tokens_limit)

\* Reports what had been used before the request.
LeavesLedger_bug ==
  status' = record_usage(setup.budget, setup.price, status, usage.tokens, call_count)

\* An exception of agent.run goes past record_usage.
LeavesLedger == UNCHANGED status

\* The request is not made, or not answered with anything the limits allow.
UsageLimitExceeded ==
  /\ \/ /\ turn.pc = "requesting" /\ usage.requests >= RequestLimit
        /\ UNCHANGED usage
     \/ \E t \in TurnTokens : Charge(t) /\ ~ WithinTokens
     \/ /\ \E t \in TurnTokens : Charge(t) /\ WithinTokens
        /\ Exceeds(usage.tool_calls + Cardinality(Executions), limits.tool_calls_limit)
  /\ turn' = RaisedBy("BudgetExhaustedError")
  /\ LeavesLedger
  /\ UNCHANGED <<registryVars, clock, call, raised, seen, call_count,
                 setup, remembered>>

ProviderFails ==
  /\ turn.pc = "requesting"
  /\ turn' = RaisedBy("Exception")
  /\ UNCHANGED <<registryVars, budgetVars, agentVars, setup, remembered>>

ModelAsks ==
  /\ \E t \in TurnTokens : Charge(t) /\ WithinTokens
  /\ \E batch \in [Executions -> {c \in Invocations : c[1] \in wired} \cup {NoCall}] :
       LET size == Cardinality({e \in Executions : batch[e] # NoCall})
       IN  /\ size > 0
           /\ ~ Exceeds(usage.tool_calls + size, limits.tool_calls_limit)
           /\ call' = batch
  /\ turn' = At("calling")
  /\ UNCHANGED <<registryVars, budgetVars, raised, seen, call_count, setup, remembered>>

-----------------------------------------------------------------------------
(* Tool calls: _dispatch, around the registry's execute.                   *)

\* Counts a failure when it is tried and again when it is recorded.
record_twice_bug(e, text) ==
  LET key == <<call[e], text>>
  IN  /\ seen' = [seen EXCEPT ![key] = @ + 2]
      /\ raised' = [raised EXCEPT ![e] = IF seen[key] + 1 >= 2 THEN "RepeatedFailureError"
                                         ELSE "RuntimeError"]

\* Counts failures of any kind together.
record_bug(e, text) ==
  LET key == <<call[e], text>>
  IN  /\ seen' = [seen EXCEPT ![key] = 1]
      /\ raised' = [raised EXCEPT ![e] = IF call_count >= 2 THEN "RepeatedFailureError"
                                         ELSE "RuntimeError"]

\* detector.record for a failed result; the count includes this failure.
record(e, text) ==
  LET key == <<call[e], text>>
  IN  /\ seen' = [seen EXCEPT ![key] = @ + 1]
      /\ raised' = [raised EXCEPT ![e] = IF seen[key] + 1 >= 2 THEN "RepeatedFailureError"
                                         ELSE "RuntimeError"]

\* What _dispatch does with the result, in the step that produced it.
Settle(e) ==
  LET result == exec'[e].result
  IN  \/ result \in {"none", "ok"} /\ UNCHANGED <<seen, raised>>
      \/ result = "denied" /\ record(e, "denied")
      \/ result = "failed" /\ \E text \in ErrorTexts : record(e, text)
      \/ /\ result = "raised"
         /\ raised' = [raised EXCEPT ![e] = "Exception"]
         /\ UNCHANGED seen

Dispatch(e) ==
  /\ turn.pc = "calling" /\ e \in Asked
  /\ execute(e, call[e][1], grants)
  /\ call_count' = call_count + 1
  /\ Settle(e)
  /\ UNCHANGED <<budgetVars, usage, call, flowVars>>

\* The coroutine of a dispatch goes on, whether or not the turn still waits.
Resume(e) ==
  /\ ApprovalArrives(e) \/ HandlerEnds(e)
  /\ Settle(e)
  /\ UNCHANGED <<budgetVars, usage, call, call_count, flowVars>>

\* Every dispatch of the batch has returned: the results go to the model.
BatchDone ==
  /\ turn.pc = "calling"
  /\ \A e \in Asked : exec[e].pc = "done" /\ raised[e] = "none"
  /\ turn' = At("requesting")
  /\ usage' = [usage EXCEPT !.tool_calls = @ + Cardinality(Asked)]
  /\ call' = [e \in Executions |-> NoCall]
  /\ exec' = [e \in Executions |-> Idle]
  /\ UNCHANGED <<tools, budgetVars, raised, seen, call_count, setup, remembered>>

\* Only a repeated failure ends the run.
BatchRaises_bug ==
  /\ turn.pc = "calling"
  /\ \E e \in Asked : /\ raised[e] = "RepeatedFailureError"
                      /\ turn' = RaisedBy(raised[e])
  /\ UNCHANGED <<registryVars, budgetVars, agentVars, setup, remembered>>

Running(e) == exec[e].pc \in {"approval", "handler"}

Cancel(e) == IF Running(e) THEN [exec[e] EXCEPT !.pc = "done", !.result = "cancelled"]
             ELSE exec[e]

\* One of them raised: it leaves agent.run, the flow and run_turn's try.
BatchRaises ==
  /\ turn.pc = "calling"
  /\ \A e \in Asked : exec[e].pc # "idle"
  /\ \E e \in Asked : raised[e] # "none" /\ turn' = RaisedBy(raised[e])
  /\ exec' \in {exec, [e \in Executions |-> Cancel(e)]}
  /\ UNCHANGED <<tools, budgetVars, agentVars, setup, remembered>>

-----------------------------------------------------------------------------
(* After the agent.                                                        *)

\* What follows a response that passed the budget check.
AfterCheck_bug(output) ==
  IF output = "text"
    THEN At(IF setup.fact_extractor THEN "extracting" ELSE "remembering") ELSE Succeeded

AfterCheck(output) ==
  IF setup.memory_on /\ output = "text"
    THEN At(IF setup.fact_extractor THEN "extracting" ELSE "remembering") ELSE Succeeded

\* The final response arrives: usage is recorded, the budget checked, and
\* the flow goes on to its next await, all in one step.
ModelAnswers(output) ==
  /\ \E t \in TurnTokens : Charge(t) /\ WithinTokens
  /\ LET calls == IF usage.tool_calls # 0 THEN usage.tool_calls ELSE call_count
         recorded == record_usage(setup.budget, setup.price, status, usage'.tokens, calls)
     IN  status' = check_wall_clock(setup.budget, recorded)
  /\ turn' = IF exhausted(status') THEN RaisedBy("BudgetExhaustedError")
             ELSE AfterCheck(output)
  /\ UNCHANGED <<registryVars, clock, call, raised, seen, call_count, setup, remembered>>

\* The extractor is an agent of its own, with no limits set.
Extract ==
  /\ turn.pc = "extracting"
  /\ turn' \in {At("remembering"), Succeeded, RaisedBy("Exception")}
  /\ UNCHANGED <<registryVars, budgetVars, agentVars, setup, remembered>>

\* Looks at the clock once more when the facts are stored.
Remember_bug ==
  /\ turn.pc = "remembering"
  /\ LET checked == check_wall_clock(setup.budget, status)
     IN  /\ status' = checked /\ remembered' = TRUE
         /\ turn' = IF exhausted(checked) THEN RaisedBy("BudgetExhaustedError") ELSE Succeeded
  /\ UNCHANGED <<registryVars, clock, agentVars, setup>>

\* The store raises before or after its transaction took effect.
Remember ==
  /\ turn.pc = "remembering"
  /\ \/ turn' = Succeeded /\ remembered' = TRUE
     \/ turn' = RaisedBy("Exception") /\ remembered' \in BOOLEAN
  /\ UNCHANGED <<registryVars, budgetVars, agentVars, setup>>

-----------------------------------------------------------------------------
(* Ctrl-C. asyncio.run cancels the task of the turn: CancelledError is      *)
(* raised at the await it is suspended in, and no "except Exception" stops  *)
(* it. The event loop is then closed and cancels what is left.             *)

Interrupt ==
  /\ turn.pc # "ended"
  /\ turn' = RaisedBy("CancelledError")
  /\ exec' \in {exec, [e \in Executions |-> Cancel(e)]}
  /\ remembered' \in IF turn.pc = "remembering" THEN BOOLEAN ELSE {remembered}
  /\ UNCHANGED <<tools, budgetVars, agentVars, setup>>

Teardown(e) ==
  /\ turn.pc = "ended"
  /\ Cancelled(e)
  /\ UNCHANGED <<budgetVars, agentVars, flowVars>>

Time == Tick /\ UNCHANGED <<registryVars, status, agentVars, flowVars>>

ModelResponds ==
  \/ UsageLimitExceeded \/ ProviderFails \/ ModelAsks
  \/ \E output \in {"empty", "text"} : ModelAnswers(output)

Next ==
  \/ Recall \/ ModelResponds
  \/ \E e \in Executions : Dispatch(e) \/ Resume(e) \/ Teardown(e)
  \/ BatchDone \/ BatchRaises
  \/ Extract \/ Remember \/ Interrupt \/ Time

\* A task that is ready runs; what comes from outside is left to AwaitsReturn.
Fairness ==
  /\ \A e \in Executions : WF_vars(Dispatch(e))
  /\ WF_vars(BatchDone) /\ WF_vars(BatchRaises)

Spec == Init /\ [][Next]_vars /\ Fairness

-----------------------------------------------------------------------------
(* Properties.                                                             *)

\* Every variable has its shape; the agent's counters respect its own bounds.
TypeOK ==
  /\ RegistryTypeOK /\ BudgetTypeOK
  /\ setup \in Setups
  /\ turn \in Turns(Places)
  /\ usage \in [requests : 0 .. RequestLimit, tokens : Nat, tool_calls : Nat]
  /\ call \in [Executions -> Invocations \cup {NoCall}]
  /\ raised \in [Executions -> Exceptions \cup {"none"}]
  /\ seen \in [FailureKeys -> 0 .. Cardinality(Executions)]
  /\ call_count \in 0 .. RequestLimit * Cardinality(Executions)
  /\ remembered \in BOOLEAN

\* SingleAgentFlow.run reports success only for a turn that stayed within all
\* four ceilings: tokens and tool calls as the agent counted them, cost and
\* time as of the check at the end; and then the ledger shows that usage.
SuccessWithinBudget ==
  turn.stop_reason = "success" =>
    /\ ~ Exceeds(usage.tokens, setup.budget.max_total_tokens)
    /\ ~ Exceeds(call_count, setup.budget.max_tool_calls)
    /\ ~ Exceeds(setup.price * usage.tokens, setup.budget.max_cost_usd)
    /\ ~ Exceeds(status.elapsed_seconds, setup.budget.max_wall_clock_seconds)
    /\ status.tokens_used = usage.tokens /\ status.tool_calls_used = call_count

\* usage_limits: the calls of one response are admitted together, so that not
\* even a parallel batch can take the run past max_tool_calls.
ToolCallsWithinLimit == ~ Exceeds(call_count, setup.budget.max_tool_calls)

\* What run_turn stamps of a turn is the whole usage or, where agent.run has
\* raised, nothing, but never a part of it; and what it stamps as exhausted is
\* what it reports as budget_exhausted, unless the agent's own limits struck.
StampedLedgerIsWhole ==
  LET stamped == <<status.tokens_used, status.tool_calls_used>>
  IN  /\ stamped \in {<<0, 0>>, <<usage.tokens, call_count>>}
      /\ exhausted(status) => turn.stop_reason = "budget_exhausted"
      /\ turn.stop_reason = "budget_exhausted" => exhausted(status) \/ stamped = <<0, 0>>

\* A turn leaves facts in memory only if memory is not ablated, no tool call
\* of it failed, and its output had passed the budget check before.
OnlyCheckedTurnsAreRemembered ==
  remembered =>
    /\ setup.memory_on
    /\ ~ exhausted(status) /\ status.tokens_used = usage.tokens
    /\ \A e \in Executions : raised[e] = "none"
    /\ \A k \in FailureKeys : seen[k] = 0

\* RepeatedFailureDetector: a turn is stopped as a repeated failure only if
\* two calls with one tool, one set of arguments and one error have failed.
RepeatedFailureIsARepeat ==
  turn.stop_reason = "repeated_failure" =>
    \E k \in FailureKeys :
      /\ seen[k] >= 2
      /\ \E e, f \in Executions : /\ e # f /\ call[e] = k[1] /\ call[f] = k[1]
                                  /\ raised[e] # "none" /\ raised[f] # "none"

\* The gate a deployment puts into the services decides every call the model
\* makes, also those that run on after the turn has ended.
ServicesGateDecides ==
  \A e \in Executions : exec[e].ran # NoSpec /\ setup.approval_gate # NoGate =>
    LET tier == SpecTier[exec[e].ran]
    IN  \/ Admits(setup.approval_gate, tier)
        \/ Asks(setup.approval_gate, tier) /\ exec[e].approved = tier

\* What is awaited from outside comes: the answer of a callback, the end of a
\* handler, the model, and the database, which is given no time-out.
AwaitsReturn ==
  /\ \A e \in Executions : []<> ~ Running(e)
  /\ \A p \in Places \ {"calling"} : []<> (turn.pc # p)

\* Then every turn ends: with a failing tool, a model that keeps asking for
\* tools, or a spent budget.
TurnEnds == AwaitsReturn => <> (turn.pc = "ended")

Contract == INSTANCE Turn WITH memory_on <- setup.memory_on,
                               stop_reason <- turn.stop_reason, facts <- remembered

\* flows/base.py's Flow, as `Process` awaits it: the turn ends once and for
\* good, and what run_turn converts into a failure has left nothing in memory
\* and never will.
TurnSpec == Contract!Spec

-----------------------------------------------------------------------------
(* What the documentation says, and the code does not do; see the README.  *)

\* core/loop.py: permission denials are converted into a FlowResult.
DenialIsConverted ==
  turn.stop_reason = "uncaught" /\ turn.exception # "CancelledError" =>
    \A e \in Asked : exec[e].result # "denied"

\* tools/registry.py: "tool failures are data, not harness bugs"; core/loop.py:
\* it takes a repetition for the flow to abort, so a first failure of a handler
\* goes back to the model.
FirstFailureIsData ==
  turn.exception = "RuntimeError" => \A e \in Asked : exec[e].result # "failed"
=============================================================================
