-------------------------- MODULE OrchestratorFlow --------------------------
(***************************************************************************)
(* flows/orchestrator.py under AgentLoop.run_turn: three workers run in    *)
(* parallel, two of them calls to the tool registry and one an agent that  *)
(* searches through the MCP toolset of tools/mcp_client.py; when all have  *)
(* returned, a synthesis is written, reviewed by a critic, and remembered. *)
(* If a worker raises, asyncio.gather raises at once and does not stop the *)
(* other two. No agent of this flow is given the budget's limits.          *)
(***************************************************************************)
EXTENDS ToolRegistry, FlowResults, Integers, Sequences

CONSTANTS
  Setups,        \* the services and flags a turn may be given, see Setup
  RequestLimit,  \* model requests the retrieval agent may make
  SearchCalls,   \* the search calls that one of its responses may hold
  Terms,         \* the words that texts and queries are made of
  Corpus,        \* what the MCP server has to search in, see Retrieval
  Searches,      \* the <<query, k>> the agent may search with
  NoGate         \* services.approval_gate is None

\* The two registry workers, and the tool each of them calls.
WorkerTool == [account |-> "account_lookup", meeting |-> "meeting_history"]

Setup == [approval_gate : Gates \cup {NoGate}, memory_on : BOOLEAN,
          critic_on : BOOLEAN, fact_extractor : BOOLEAN]

ASSUME FlowAssumption ==
  /\ Executions = DOMAIN WorkerTool
  /\ RequestLimit \in Nat \ {0} /\ NoGate \notin Gates
  /\ Setups \subseteq Setup

\* _CORPUS is a list of texts. Nothing keeps the agent from a search without a
\* term, or from asking for no chunk or a negative number of them.
ASSUME SearchAssumption ==
  /\ Corpus \in Seq(SUBSET Terms)
  /\ Searches \subseteq Seq(Terms) \X Int

\* tools/demo_tools.py: a spec for every name, the workers' tools among them;
\* account_lookup is registered as financial.
ASSUME ToolsAreRegistered ==
  /\ \A n \in ToolNames : \E s \in Specs : SpecName[s] = n
  /\ \A e \in Executions : WorkerTool[e] \in ToolNames
  /\ \A s \in Specs : SpecName[s] = "account_lookup" => SpecTier[s] = "financial"

VARIABLES
  setup,       \* services and ablation flags; fixed during the turn
  turn,        \* where the coroutine is, or how it ended (FlowResults)
  search,      \* the retrieval worker: an agent with the MCP toolset
  calls,       \* the search calls of its last response
  reply,       \* the server's latest answer that the agent's model waits for
  sources,     \* what the fan-out gave the synthesis to work from
  synthesis,   \* which agent wrote the current SynthesisOutput
  remembered,  \* which SynthesisOutput the facts in memory were taken from
  awaited      \* how often the flow has come to each of its awaits; an observation

searchVars == <<search, calls, reply>>
flowVars == <<setup, turn, searchVars, sources, synthesis, remembered, awaited>>
vars     == <<registryVars, flowVars>>

Places == {"fanout", "recalling", "synthesizing", "reviewing", "extracting",
           "remembering"}

Awaits == Places \cup {"retrieving"}

\* The retrieval worker between two awaits of its own, and one search call;
\* `approved` is an observation, as in Execution.
Search ==
  [pc     : {"idle", "model", "calling", "done"},
   raised : Exceptions \cup {"none"},
   asked  : 0 .. RequestLimit]

NoCall           == [pc |-> "none", raised |-> "none", approved |-> FALSE]
AtApproval       == [pc |-> "approval", raised |-> "none", approved |-> FALSE]
AtServer(approved) == [pc |-> "server", raised |-> "none", approved |-> approved]
Returned         == [pc |-> "done", raised |-> "none", approved |-> FALSE]
Raised(exception) == [pc |-> "done", raised |-> exception, approved |-> FALSE]

SearchCall ==
  {NoCall, AtApproval, AtServer(TRUE), AtServer(FALSE), Returned} \cup
  {Raised(x) : x \in Exceptions}

Server == INSTANCE Retrieval

\* The model has no answer of the server before it.
NoReply == [query |-> <<>>, k |-> 0, chunks |-> <<>>]

grants == IF setup.approval_gate = NoGate THEN DefaultGate ELSE setup.approval_gate

Init ==
  /\ RegistryInit([n \in ToolNames |-> CHOOSE s \in Specs : SpecName[s] = n])
  /\ setup \in Setups
  /\ turn = At("fanout")
  /\ search = [pc |-> "idle", raised |-> "none", asked |-> 0]
  /\ calls = [c \in SearchCalls |-> NoCall]
  /\ reply = NoReply
  /\ sources = [account |-> "none", meeting |-> "none", retrieved |-> "none"]
  /\ synthesis = "none" /\ remembered = "none"
  /\ awaited = [p \in Awaits |-> 0]

\* The flow goes on to `next`: its end, or its next await.
Goes(next) ==
  /\ turn' = next
  /\ awaited' = [p \in Awaits |-> IF p = next.pc THEN awaited[p] + 1 ELSE awaited[p]]

Running(e) == exec[e].pc \in {"approval", "handler"}
Searching  == search.pc \in {"model", "calling"}
Pending(c) == calls[c].pc \in {"approval", "server"}

-----------------------------------------------------------------------------
(* The registry workers. A name that ends in _bug is a deliberately wrong   *)
(* variant of the definition after it.                                     *)

Dispatch(e) ==
  /\ turn.pc = "fanout"
  /\ execute(e, WorkerTool[e], grants)
  /\ UNCHANGED flowVars

Resume(e) ==
  /\ ApprovalArrives(e) \/ HandlerEnds(e)
  /\ UNCHANGED flowVars

\* What _worker makes of the result.
_worker(e) == IF exec[e].result = "ok" THEN "data" ELSE "unavailable"

-----------------------------------------------------------------------------
(* The retrieval worker: model requests alternate with batches of search    *)
(* calls. The agent's library runs the calls of one response concurrently,  *)
(* each through process_tool_call; what becomes of the others when one of   *)
(* them raises is left open, as in SingleAgentFlow.                         *)

Failed(s, exception) == [s EXCEPT !.pc = "done", !.raised = exception]

SearchStep == UNCHANGED <<registryVars, setup, turn, sources, synthesis,
                          remembered, awaited>>

StartSearch ==
  /\ turn.pc = "fanout" /\ search.pc = "idle"
  /\ search' = [search EXCEPT !.pc = "model"]
  /\ awaited' = [awaited EXCEPT !["retrieving"] = @ + 1]
  /\ UNCHANGED <<registryVars, setup, turn, calls, reply, sources, synthesis, remembered>>

\* What a callback that is asked can make of the call.
AfterApproval == {AtServer(TRUE), Raised("PermissionDenied"), Raised("Exception")}

\* A call, up to its next await. Every search counts as read_only, and a
\* toolset built without a gate does not check at all.
process_tool_call ==
  LET gate == setup.approval_gate
  IN  CASE gate = NoGate -> {AtServer(FALSE)}
        [] gate # NoGate /\ Admits(gate, "read_only")  -> {AtServer(FALSE)}
        [] gate # NoGate /\ Refuses(gate, "read_only") -> {Raised("PermissionDenied")}
        [] OTHER -> IF gate.on_approval_needed = "async" THEN {AtApproval}
                    ELSE AfterApproval

\* The calls of a response; they are started before any of them goes on.
Batches == [SearchCalls -> process_tool_call \cup {NoCall}]

\* No limit of requests.
SearchModel_bug ==
  /\ search.pc = "model"
  /\ \/ search' = [search EXCEPT !.asked = @ + 1, !.pc = "done"] /\ UNCHANGED calls
     \/ /\ search' = [search EXCEPT !.asked = @ + 1, !.pc = "calling"]
        /\ calls' \in Batches /\ \E c \in SearchCalls : calls'[c] # NoCall
  /\ SearchStep /\ UNCHANGED reply

\* The agent's model answers with a text, or with search calls.
SearchModel ==
  /\ search.pc = "model" /\ search.asked < RequestLimit
  /\ \/ search' = [search EXCEPT !.asked = @ + 1, !.pc = "done"] /\ UNCHANGED calls
     \/ /\ search' = [search EXCEPT !.asked = @ + 1, !.pc = "calling"]
        /\ calls' \in Batches /\ \E c \in SearchCalls : calls'[c] # NoCall
  /\ SearchStep /\ UNCHANGED reply

\* It does not answer, or the agent's own limit of requests is reached.
SearchModelFails ==
  /\ search.pc = "model"
  /\ search' = Failed(search, "Exception")
  /\ SearchStep /\ UNCHANGED <<calls, reply>>

\* The answer to one call is taken for an answer to all that wait for one.
SearchApproved_bug(c) ==
  /\ calls[c].pc = "approval"
  /\ \E answer \in AfterApproval :
       calls' = [d \in SearchCalls |->
                  IF d # c /\ calls[d].pc = "approval" /\ answer.pc = "server"
                    THEN AtServer(FALSE)
                  ELSE IF d = c THEN answer ELSE calls[d]]
  /\ SearchStep /\ UNCHANGED <<search, reply>>

\* Whether or not the agent still waits for the call.
SearchApproved(c) ==
  /\ calls[c].pc = "approval"
  /\ \E answer \in AfterApproval : calls' = [calls EXCEPT ![c] = answer]
  /\ SearchStep /\ UNCHANGED <<search, reply>>

\* The server answers the query it was sent. If it fails, that is a message
\* to the model, or the end of the agent.
ServerAnswers(c) ==
  /\ calls[c].pc = "server"
  /\ \/ /\ calls' = [calls EXCEPT ![c] = Returned]
        /\ reply' \in {NoReply} \cup {[query |-> q[1], k |-> q[2], chunks |-> Server!search(q[1], q[2])]
                                       : q \in Searches}
     \/ calls' = [calls EXCEPT ![c] = Raised("Exception")] /\ UNCHANGED reply
  /\ SearchStep /\ UNCHANGED search

\* All calls have returned: the answers go to the model.
CallsDone ==
  /\ search.pc = "calling"
  /\ \A c \in SearchCalls : calls[c] \in {NoCall, Returned}
  /\ search' = [search EXCEPT !.pc = "model"]
  /\ calls' = [c \in SearchCalls |-> NoCall]
  /\ reply' = NoReply
  /\ SearchStep

CallsCancelled ==
  [c \in SearchCalls |-> IF Pending(c) THEN Raised("CancelledError") ELSE calls[c]]

\* One of them raised: it leaves agent.run.
CallsRaise ==
  /\ search.pc = "calling"
  /\ \E c \in SearchCalls : /\ calls[c].raised # "none"
                             /\ search' = Failed(search, calls[c].raised)
  /\ calls' \in {calls, CallsCancelled}
  /\ SearchStep /\ UNCHANGED reply

-----------------------------------------------------------------------------
(* The turn: asyncio.gather, and everything after it.                      *)

TurnStep == UNCHANGED <<registryVars, setup, searchVars, sources>>

AllStarted == search.pc # "idle" /\ \A e \in Executions : exec[e].pc # "idle"

\* Recalls whether or not memory is on.
AfterFanout_bug == At("recalling")

AfterFanout == At(IF setup.memory_on THEN "recalling" ELSE "synthesizing")

\* Goes on when the workers have been started, waiting for none of them.
FanoutDone_bug ==
  /\ turn.pc = "fanout" /\ AllStarted
  /\ sources' = [account |-> _worker("account"), meeting |-> _worker("meeting"),
                 retrieved |-> "data"]
  /\ Goes(AfterFanout)
  /\ UNCHANGED <<registryVars, setup, searchVars, synthesis, remembered>>

FanoutDone ==
  /\ turn.pc = "fanout"
  /\ search.pc = "done" /\ search.raised = "none"
  /\ \A e \in Executions : exec[e].pc = "done" /\ exec[e].result # "raised"
  /\ sources' = [account |-> _worker("account"), meeting |-> _worker("meeting"),
                 retrieved |-> "data"]
  /\ Goes(AfterFanout)
  /\ UNCHANGED <<registryVars, setup, searchVars, synthesis, remembered>>

\* Looks at the retrieval worker only.
FanoutRaises_bug ==
  /\ turn.pc = "fanout" /\ AllStarted
  /\ search.raised # "none" /\ Goes(RaisedBy(search.raised))
  /\ TurnStep /\ UNCHANGED <<synthesis, remembered>>

\* A denial raises, as any other exception of a worker.
FanoutRaises_denied_bug ==
  /\ turn.pc = "fanout" /\ AllStarted
  /\ \E e \in Executions : /\ exec[e].result \in {"denied", "raised"}
                          /\ Goes(RaisedBy("PermissionDenied"))
  /\ TurnStep /\ UNCHANGED <<synthesis, remembered>>

\* The first worker that raises ends the turn; the others are left running.
FanoutRaises ==
  /\ turn.pc = "fanout" /\ AllStarted
  /\ \/ \E e \in Executions : exec[e].result = "raised" /\ Goes(RaisedBy("Exception"))
     \/ search.raised # "none" /\ Goes(RaisedBy(search.raised))
  /\ TurnStep /\ UNCHANGED <<synthesis, remembered>>

Recall ==
  /\ turn.pc = "recalling"
  /\ \E next \in {At("synthesizing"), RaisedBy("Exception")} : Goes(next)
  /\ TurnStep /\ UNCHANGED <<synthesis, remembered>>

\* After the last agent: where the turn goes if memory is on or off.
Written == IF setup.memory_on /\ setup.fact_extractor THEN At("extracting") ELSE Succeeded

Synthesize ==
  /\ turn.pc = "synthesizing"
  /\ \/ /\ Goes(IF setup.critic_on THEN At("reviewing") ELSE Written)
        /\ synthesis' = "synthesizer"
     \/ Goes(RaisedBy("Exception")) /\ UNCHANGED synthesis
  /\ TurnStep /\ UNCHANGED remembered

Review ==
  /\ turn.pc = "reviewing"
  /\ \/ Goes(Written) /\ synthesis' = "critic"
     \/ Goes(RaisedBy("Exception")) /\ UNCHANGED synthesis
  /\ TurnStep /\ UNCHANGED remembered

Extract ==
  /\ turn.pc = "extracting"
  /\ \E next \in {At("remembering"), Succeeded, RaisedBy("Exception")} : Goes(next)
  /\ TurnStep /\ UNCHANGED <<synthesis, remembered>>

\* Reports a failure of the store as what run_turn converts.
Remember_bug ==
  /\ turn.pc = "remembering"
  /\ Goes(RaisedBy("PermissionDenied")) /\ remembered' \in {synthesis, remembered}
  /\ TurnStep /\ UNCHANGED synthesis

\* The store raises before or after its transaction took effect.
Remember ==
  /\ turn.pc = "remembering"
  /\ \/ Goes(Succeeded) /\ remembered' = synthesis
     \/ Goes(RaisedBy("Exception")) /\ remembered' \in {synthesis, remembered}
  /\ TurnStep /\ UNCHANGED synthesis

-----------------------------------------------------------------------------
(* Ctrl-C. asyncio.run cancels the task of the turn: CancelledError is      *)
(* raised at the await it is suspended in. Of these, gather cancels every   *)
(* worker that is not done. What is left of a turn that has ended is        *)
(* cancelled when the event loop is closed with the process.               *)

InterruptFanout ==
  /\ turn.pc = "fanout"
  /\ exec' = [e \in Executions |->
               IF Running(e) THEN [exec[e] EXCEPT !.pc = "done", !.result = "cancelled"]
               ELSE exec[e]]
  /\ search' = IF search.pc = "done" THEN search ELSE Failed(search, "CancelledError")
  /\ calls' \in {calls, CallsCancelled}
  /\ Goes(RaisedBy("CancelledError"))
  /\ UNCHANGED <<tools, setup, reply, sources, synthesis, remembered>>

Interrupt ==
  /\ turn.pc \notin {"fanout", "ended"}
  /\ Goes(RaisedBy("CancelledError"))
  /\ remembered' \in IF turn.pc = "remembering" THEN {synthesis, remembered}
                      ELSE {remembered}
  /\ TurnStep /\ UNCHANGED synthesis

Teardown ==
  /\ turn.pc = "ended"
  /\ \/ \E e \in Executions : Cancelled(e) /\ UNCHANGED <<search, calls>>
     \/ /\ Searching /\ search' = Failed(search, "CancelledError")
        /\ UNCHANGED <<registryVars, calls>>
     \/ /\ \E c \in SearchCalls :
             Pending(c) /\ calls' = [calls EXCEPT ![c] = Raised("CancelledError")]
        /\ UNCHANGED <<registryVars, search>>
  /\ UNCHANGED <<setup, turn, reply, sources, synthesis, remembered, awaited>>

Next ==
  \/ \E e \in Executions : Dispatch(e) \/ Resume(e)
  \/ StartSearch \/ SearchModel \/ SearchModelFails \/ CallsDone \/ CallsRaise
  \/ \E c \in SearchCalls : SearchApproved(c) \/ ServerAnswers(c)
  \/ FanoutDone \/ FanoutRaises
  \/ Recall \/ Synthesize \/ Review \/ Extract \/ Remember
  \/ InterruptFanout \/ Interrupt \/ Teardown

\* A task that is ready runs; what comes from outside is left to AwaitsReturn.
Fairness ==
  /\ \A e \in Executions : WF_vars(Dispatch(e))
  /\ WF_vars(StartSearch) /\ WF_vars(CallsDone) /\ WF_vars(CallsRaise)
  /\ WF_vars(FanoutDone) /\ WF_vars(FanoutRaises)

Spec == Init /\ [][Next]_vars /\ Fairness

-----------------------------------------------------------------------------
(* Properties.                                                             *)

\* Every variable has its shape.
TypeOK ==
  /\ RegistryTypeOK
  /\ setup \in Setups
  /\ turn \in Turns(Places)
  /\ search \in Search /\ calls \in [SearchCalls -> SearchCall]
  /\ DOMAIN reply = DOMAIN NoReply
  /\ awaited \in [Awaits -> 0 .. 1]
  /\ sources \in [{"account", "meeting", "retrieved"} -> {"none", "data", "unavailable"}]
  /\ {synthesis, remembered} \subseteq {"none", "synthesizer", "critic"}

FanoutOver == turn.pc \notin {"fanout", "ended"} \/ turn.stop_reason = "success"

\* "workers are independent until the synthesis step below needs all of them
\* together": no later step is taken, and no success reported, before every
\* worker has returned; and each source says what its worker came back with.
SynthesisAfterWholeFanout ==
  FanoutOver =>
    /\ search.pc = "done" /\ search.raised = "none"
    /\ \A e \in Executions :
         /\ exec[e].pc = "done" /\ exec[e].result \in {"ok", "denied", "failed"}
         /\ sources[e] = "data" <=> exec[e].result = "ok"

\* Account data is financial: it reaches the synthesis, and a search reaches
\* the MCP server, only if the gate in force allows that tier, or its
\* callback approved this very call, also while other calls of the response
\* wait for answers of their own. No gate in the services is the default gate.
OnlyClearedDataIsUsed ==
  LET gate == IF setup.approval_gate = NoGate THEN DefaultGate ELSE setup.approval_gate
  IN  /\ sources["account"] = "data" =>
           \/ Admits(gate, "financial")
           \/ Asks(gate, "financial") /\ exec["account"].approved = "financial"
      /\ \A c \in SearchCalls : calls[c].pc = "server" =>
           \/ Admits(gate, "read_only")
           \/ Asks(gate, "read_only") /\ calls[c].approved

\* _worker turns a denied or failed tool into "[unavailable: ...]": if the
\* turn raises, something other than a ToolResult has gone wrong, or somebody
\* has interrupted it.
FailedToolsAreSurvived ==
  turn.exception # "none" =>
    \/ \E e \in Executions : exec[e].result = "raised"
    \/ search.raised # "none"
    \/ sources["retrieved"] # "none"
    \/ turn.exception = "CancelledError"

\* "Returns up to k chunks, each with its id, text, and a naive relevance
\* score": whatever the agent asks for, the server answers with the matches
\* that rank best, in order, and each can be fetched to verify the citation;
\* they are k of them, or all, for every k that is not negative.
AnswersAreGrounded ==
  reply # NoReply => Server!IsAnswer(reply.chunks, reply.query, reply.k)

\* What is awaited from outside comes: the answer of a callback, the end of a
\* handler, a model, the MCP server, and the database, which is given no
\* time-out.
AwaitsReturn ==
  /\ \A e \in Executions : []<> ~ Running(e)
  /\ \A c \in SearchCalls : []<> ~ Pending(c)
  /\ []<> (search.pc # "model")
  /\ \A p \in Places \ {"fanout"} : []<> (turn.pc # p)

\* Then every turn ends, whoever is the first to fail, and so does every
\* worker that gather has left running, with the calls of its agent.
TurnEnds ==
  AwaitsReturn =>
    <> /\ turn.pc = "ended"
       /\ \A e \in Executions : ~ Running(e)
       /\ ~ Searching /\ \A c \in SearchCalls : ~ Pending(c)

Contract == INSTANCE Turn WITH memory_on <- setup.memory_on,
                               stop_reason <- turn.stop_reason,
                               facts <- remembered # "none"

\* flows/base.py's Flow, as `Process` awaits it: the turn ends once and for
\* good, and what run_turn converts into a failure has left nothing in memory
\* and never will.
TurnSpec == Contract!Spec

-----------------------------------------------------------------------------
(* What the documentation says, and the code does not do; see the README.  *)

\* evals/test_flows.py: one denied worker does not take the fan-out down.
DeniedWorkerIsSurvived == turn.stop_reason # "permission_denied"

\* memory/extraction.py: extraction is run "after the turn finishes (not
\* inline) so extraction latency/cost never sits on the user-facing response
\* path"; a turn whose answer was complete cannot be lost to it.
ExtractionIsOffThePath ==
  awaited["extracting"] > 0 => turn.exception # "Exception"
=============================================================================
