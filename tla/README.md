# fable-harness in TLA+

This directory specifies the harness in `src/harness`: an agent harness that
routes a request to a *flow*, lets the flow call models and tools under
permissions and a budget, and keeps what was learned in a store of temporal
facts. The specifications are checked with TLC on small instances, and all
their safety properties are proved with TLAPS for any instance.

`PROJECT.json` is the index: components, runs, the lines of the source each
definition models (`map`), a wrong variant of the code for every property
(`mutants`), hazards, findings and theorems. A definition whose name ends in
`_bug` (or `_..._bug`) is such a wrong variant. It stands before the
definition it spoils, nothing in a specification uses it, and it is there to
show that the property named beside it in `PROJECT.json` would notice.

## 1. The system

The harness is Python on asyncio: one event loop, coroutines that are atomic
between two `await`s. So the hard part is what may happen *during* an await,
and what is left running when somebody stops waiting.

| Component | State | Operations | Talks to |
|---|---|---|---|
| permissions (`core/permissions.py`) | matrix tier -> policy; optional callback, plain or async | `policy_for`, `ApprovalGate.check` | the approver |
| tool registry (`tools/registry.py`) | `_tools`: name -> spec; one frame per running `execute` | `register`, `scoped`, `execute` | permissions, handlers |
| demo tools (`tools/demo_tools.py`) | none | four handlers and their specs | registry |
| budgets (`core/budgets.py`) | the ledger `BudgetStatus`, start time | `usage_limits`, `record_usage`, `check_wall_clock` | flows, the agent library |
| single-agent flow (`flows/single_agent.py`) | detector, call counter, coroutine | `run`, `_dispatch` | all of the above, memory, the model |
| orchestrator flow (`flows/orchestrator.py`) | coroutine, three workers | `run`, `_worker`, `_retrieval_worker`, `_run_agent` | registry, MCP toolset, memory, models |
| MCP client (`tools/mcp_client.py`) | none | `process_tool_call` | permissions, the MCP server |
| agent loop (`core/loop.py`) | `RepeatedFailureDetector._seen` | `run_turn`, `record`, `compact_history` | router, flows |
| memory store (`memory/pgvector_store.py`, `init.sql`) | table `memory_items` | `remember`, `recall`, `invalidate` | Postgres, embeddings |
| memory extraction (`memory/extraction.py`) | none | `extract` | a model |
| router (`routing/*`) | none after construction | `route`, triage | encoder, a model |
| session store and CLI (`core/session.py`, `cli.py`) | tables `sessions`, `run_records`; two connection pools | connect, `ensure_session`, `record_run`, `close`; `_run` | everything |
| retrieval server (`retrieval/mcp_server`) | a constant corpus | `search`, `fetch_chunk` | MCP client |
| settings (`config/*`) | the policy file, read once | `permission_matrix`, `budget_for` | CLI |
| run context, telemetry | flags, exporters | read once, `stamp` | everything |
| evals (`evals/*`) | counters around a run | the ablation sweep, tests | everything |

How a turn goes: `cli._run` connects the stores and calls
`AgentLoop.run_turn`, which asks the router for a target and awaits that flow.
A flow reaches tools only through `InMemoryToolRegistry.execute` (or the MCP
toolset with the same gate), and either returns a `FlowResult` or raises;
`run_turn` converts three kinds of exception into a `FlowResult` and lets the
others through.

### What is hard to get right here

1. **Approvals are awaited.** Between the read of a spec and the start of its
   handler any other coroutine may run: approve another call, register the
   name again, cancel this one.
2. **Several calls of one model response run at once.** They share the
   counter, the detector and a limit; the first that raises ends the turn,
   while its siblings are suspended in a handler or an approval.
3. **`asyncio.gather` without cancellation.** A failing worker ends the
   orchestrator's turn with the other two still going.
4. **Two layers of limits.** Tokens and calls are enforced by the agent
   library, cost and wall clock by a ledger that is looked at after the run.
5. **Errors in places where they are not expected:** the callback, the
   database after its commit, the extractor.
6. **Overlapping transactions** on the memory table at READ COMMITTED, with a
   `now()` that is the start of the transaction.
7. **A process that may lose its database, its encoder or itself at every
   await**, with a `finally`, two connections and an audit row that comes last.
8. **Ctrl-C.** `asyncio.run` raises `CancelledError` at the await the turn is
   in: past every `except Exception`, through the `finally`, and into all
   workers of a `gather`.
9. **Memory is written inside the turn**, after the answer is there and before
   it is on record, so the two tables may come to say different things.

`PROJECT.json` lists every such place as a hazard, with its line and the
properties that watch it.

### What makes each component correct

- permissions, registry: no handler runs that this call was not cleared for;
  the result tells truly what ran.
- budgets: the verdict agrees with the ledger, the ledger with the reports,
  and a verdict is for good.
- single-agent flow: success only within all ceilings; a repeated failure is
  one; only a turn that passed its check is remembered; every turn ends.
- orchestrator flow: nothing is written before the fan-out is complete; what
  is written from was cleared, each call for itself; ablated agents do not
  run; tools that are denied or fail are survived; turn and workers end.
- flows, to whoever awaits them: a turn ends once, and one that is reported as
  failed or ablated leaves nothing in memory, then or later.
- memory store: facts are closed and never lost, opened again or altered; a
  batch is learned in one step; a recall answers with up to `k` facts that were
  live in its scope at one moment; an invalidation closes all that were live
  and matched at one moment.
- retrieval server: the matches that rank best, in order, each to be fetched.
- router: the ablation caps the escalation; a request that no route matches
  goes to `single_agent`, when no triage decides; no configured route names a
  flow that does not exist.
- agent loop: every decision leads to a flow or to an answer; compaction keeps
  the recent end of the conversation and takes no more than it has to.
- session store and CLI: what is on record is true and agrees with what is
  remembered; an unreachable database is survived; whatever fails, memory is
  closed and the process ends.

## 2. Modules

| Module | Models | Extends |
|---|---|---|
| `Permissions` | tiers, policies, the decision of `ApprovalGate.check` before anybody is asked | |
| `ToolRegistry` | `InMemoryToolRegistry`; one frame (`exec[e]`) per coroutine of `execute` | `Permissions` |
| `ReferenceMonitor` | abstract: a call acts at most once, on an object it is cleared for | |
| `ToolRegistryProofs` | theorems about `ToolRegistry` | `ToolRegistry` |
| `BudgetTracker` | ledger, ceilings, verdict, as operators and two variables | |
| `Ledger` | a tracker on its own, its methods called in any order | `BudgetTracker` |
| `LedgerProofs` | theorems about `Ledger` | `Ledger` |
| `FlowResults` | what `run_turn` makes of a flow that returns or raises | |
| `Turn` | abstract: a turn, and the facts of it, as whoever awaits it sees them | `FlowResults` |
| `DemoTools` | the registered specs | |
| `SingleAgentFlow` | one turn of the default flow | `ToolRegistry`, `BudgetTracker`, `FlowResults` |
| `SingleAgentFlowProofs` | theorems about `SingleAgentFlow` | `SingleAgentFlow`, `ToolRegistryProofs` |
| `OrchestratorFlow` | one turn of the fan-out flow with its MCP worker and server | `ToolRegistry`, `FlowResults`; instantiates `Retrieval` |
| `Retrieval` | the search of the MCP server, and what its answers should be | |
| `RetrievalProofs` | theorem about `Retrieval` | `Retrieval` |
| `Ablations` | the counts of the ablation sweep | `OrchestratorFlow` |
| `OrchestratorFlowProofs` | theorems about `OrchestratorFlow` and `Ablations` | `Ablations`, `ToolRegistryProofs`; instantiates `RetrievalProofs` |
| `FactStore` | abstract: facts that are learned once and closed for good, and what calls may come back with | |
| `MemoryStore` | the table and the method calls under way on it | |
| `MemoryStoreProofs` | theorems about `MemoryStore` | `MemoryStore` |
| `Config` | the policy file, and how looking things up in it fails | `Permissions` |
| `Router` | the decisions of `TieredRouter` and `LLMTriage`, as operators | |
| `Process` | `cli._run` with `run_turn`'s dispatch, several processes over the tables `sessions` and `run_records` | `Router`, `FlowResults`, `Config` |
| `ProcessProofs` | theorems about `Process` | `Process` |
| `Compaction` | `compact_history`, and a conversation kept in check by it | |
| `CompactionProofs` | theorems about `Compaction` | `Compaction` |
| `MC_Core` | one instance for TLC of `ToolRegistry`, `Ledger` and `Compaction`, which share no state: one of them moves, the others stay | all three |
| other `MC_*` | instances for TLC | |

Correspondence with the code:

- **An action is what a coroutine does between two awaits.** `execute(e, name,
  g)` in `ToolRegistry` covers the lookup, `check`, and the start of the
  handler if the gate has nobody to ask, because the code does not suspend in
  between; `ApprovalArrives` is the resumption of the callback's await up to
  the start of the handler, `HandlerEnds` that of the handler's up to the
  return of the `ToolResult`. A plain callback answers inside `execute`.
- **`SingleAgentFlow`** adds to that what `_dispatch` does in the same step:
  `Dispatch` counts the call, `Settle` records a failure in the detector and
  raises. `ModelAnswers` is the final response with everything the flow does
  before its next await: `record_usage`, `check_wall_clock`, the raise or the
  choice of what follows. `BatchDone` and `BatchRaises` are the agent library
  collecting the results.
- **`OrchestratorFlow`**: `exec["account"]` and `exec["meeting"]` are the two
  registry workers and `search` the third, an agent. A response of its model
  is a batch of search calls (`SearchModel`), which the library runs
  concurrently: each is a `process_tool_call` of its own, at its own approval or
  at the server (`calls[c]`). `CallsDone` and `CallsRaise` collect them, as
  `BatchDone` and `BatchRaises` do in the other flow. `FanoutDone` is the return
  of `gather`, `FanoutRaises` its first exception; workers go on after that, and
  so may the calls of the agent. `InterruptFanout` is a cancelled `gather`,
  which takes its workers along. `reply` is the server's latest answer, by the
  operators of `Retrieval`, until the model has read it. `awaited` counts
  the awaits of the flow, and `Ablations` reads off it what the counters of
  `evals/ablations.py` show.
- **`MemoryStore`**: one action per statement sent to Postgres. `rows` is what
  is committed; a transaction's writes appear at `Commit`; `Locked` is the
  row locks an `UPDATE` waits for. `Begin` fixes what the predicate matches and
  `Select` what of it is live in the scope. A recall goes through the HNSW
  index of `init.sql:17-18`: the scan is approximate, finds a limited number
  of rows of every scope, closed ones too, and the `WHERE` is applied to what it
  found. So `Nearest` is any `K` or fewer of the live facts of the scope.
- **`Process`**: `run[p]` is the coroutine `_run` of one process: its `pc` is
  the await it is suspended in, and each action is the answer to that await
  with everything up to the next one. `LeaveTry` is the `finally` around
  `run_turn`. A flow is one step, and its outcome any of the `Outcomes` that
  a turn of `Turn` ends with; section 4 says why that is all there is. `facts` is what the
  turns have left in `memory_items`. `Interrupt` and `Kill` break off the
  await a process is in, and `BrokenOff` says what the database may have done
  by then.
- **`Compaction`**: `compact_history` is the loop, one round per step of the
  recursion. A message is its turn and its length. The function has no caller
  in the repository yet; `Say` and `Compact` are the caller that its comments
  speak of ("re-evaluate utilization on the next call"), who appends to a
  history and puts back what the function returns.
- `approved`, `ran` (registry), `approved` (search calls), `reply`, `awaited`
  (orchestrator), `reported` (ledger), `match`, `tier`, `target`, `facts` (process),
  `said`, `cut` (compaction) are observations: no guard reads them.

Abstractions: money and seconds are integers and one price stands for the two
of input and output tokens, so the rounding of floats is outside the models;
arguments, outputs and error texts are members of small sets, or left out
where no decision depends on them; an embedding has no content, and
which facts are nearest is left open; a text of the corpus is the set of terms
that occur in it; a similarity score is compared with the threshold and
otherwise forgotten; the length of a cut message does not depend
on the number of digits in it; spans, logs and durations are not
modelled.

Code outside the repository is modelled as the source relies on it, and
marked external in `map`: the agent library (`UsageLimits`, concurrent tool
calls of a response, exceptions of a tool leave `Agent.run`), Ctrl-C and the
closing of the event loop by `asyncio.run`, the cancellation of a `gather`, and
Postgres's row locks. Where the code does
not say what the library does, the model leaves it open: when a tool of a
batch raises or the turn is interrupted, the calls of the batch may be
cancelled or go on.

## 3. Runs

| Run | Properties | Shows |
|---|---|---|
| `core` | registry: `OnlyClearedHandlersRun`, `ResultTellsWhatRan`, `MonitorSpec`; ledger: `ExhaustedIffOverdrawn`, `NothingIsLost`, `FirstReasonWins`; history: `RecentTurnsAreIntact`, `CompactionIsExact` | whatever calls, answers, cancellations and registrations interleave, the registry is a reference monitor with truthful results; the verdict agrees with the ledger and is final; a conversation compacted at any time is its own recent end |
| `single_agent` | `SuccessWithinBudget`, `ToolCallsWithinLimit`, `StampedLedgerIsWhole`, `OnlyCheckedTurnsAreRemembered`, `RepeatedFailureIsARepeat`, `ServicesGateDecides`, `TurnEnds`, `TurnSpec` | a turn with parallel calls, interrupted or not, keeps to its budget and gate, ends, and implements `Turn` |
| `orchestrator` | `SynthesisAfterWholeFanout`, `OnlyClearedDataIsUsed`, `AblationsHold`, `FailedToolsAreSurvived`, `AnswersAreGrounded`, `TurnEnds`, `TurnSpec` | the fan-out is complete and cleared, call by call, before anything is made of it; turn and workers end; the server answers as documented; the flags decide what is called; the flow implements `Turn` |
| `process` | `LedgerIsTruthful`, `FactsMatchTheRecord`, `EscalationIsCapped`, `RoutesAreServed`, `MemoryPoolIsClosed`, `UnreachableIsSurvived`, `ProcessEnds` | what fails or is broken off at which await does not falsify the record, contradict it in memory, leak memory's pool or hang the process; the router keeps to its cap and its fallback |
| `memory` | `HistoryIsKept`, `FactStoreSpec` | overlapping, failing and repeated calls keep the history of facts and implement `FactStore` |

Each of them also checks one type invariant of each module it explores. Seven
more runs each show one place where the program does not do what its
documentation says (section 6).

Bounds, and why they are enough:

- `core`, registry: two executions, each able to serve any number of calls; two
  names, one with specs of two tiers, so that a name changes its tier while a
  call of it waits. The properties speak of one execution and what others do
  to it; two are enough for that, and the proofs cover any number.
- `core`, ledger: four seconds, three reports of up to two tokens, prices 0 to 2,
  ceilings unset, zero and in reach, in all combinations.
- `single_agent`: batches of one or two calls, three model requests, two
  tools, two error texts. Two failures of the same call need two executions,
  and can be in one batch only, because the first failure ends the turn
  (section 6). The
  five setups put the ceilings on, just below and beyond what three requests
  may spend, and use a gate of each kind.
- `orchestrator`: two requests of the retrieval agent and two searches in one
  response, so that concurrent searches wait for an approval each, and a later
  one has to pass the gate anew; five gates, all eight combinations of the flags.
  The corpus is the four documents with five of their terms; the searches
  match nothing, some and all of them, with equal and unequal scores, a term
  asked for twice, and a `k` below and above the number of matches, of zero and
  under zero.
- `memory`: two clients (every pair of methods overlaps), two facts, two
  scopes, `K = 1` so that facts compete for a place, clock up to 2. A failed
  call may be followed by any other, the same call again included. Facts and
  clients are interchangeable and declared as a symmetry; the properties of
  this run treat all of them alike.
- `process`: two processes of one session, one with the defaults and the other
  with the router capped to tier 1 and memory ablated, or with a policy file
  that has no default budget or a tier that does not exist; the three routes
  of `routes.yaml`; a triage that names a flow or something else, with every
  mode. Processes meet only in the two tables, so
  two of them show every meeting of a pair. Tier 2 is left out because
  `route` distinguishes only below 2 and from 2 on.
- `core`, history: five messages, of sizes below and above what is kept of a cut
  message, one of them shorter than the cut makes it, and limits from none to
  one that several messages fill.

`MaxClock`, `MaxReports`, `MaxMessages` and `RequestLimit` bound the exploration. Of these,
`RequestLimit` is real: the agent library allows 50 requests by default.

Deadlock is checked for `core` and `memory`, which never stop. Processes end,
so `process` does not check it. The flows stop when the turn has ended, and a
turn also stops where something that never comes is awaited, so their runs do
not check it; that a turn ends is `TurnEnds`.

**Fairness.** In the flows only the event loop is fair: a task that is ready is
run. That is weak fairness of the dispatch of a call, of the start of the
retrieval agent, and of the steps that collect what calls and workers came back
with. Nothing is assumed about what comes from outside: approvals and handlers
get no time-out from the code, and neither does the database, whose pools are
created without a `command_timeout` (`memory/pgvector_store.py:32`). `TurnEnds` is
therefore conditional: *if* every approval, handler, model, search and database
call that is awaited returns or raises, then the turn ends, and in the
orchestrator every worker and call that outlives it as well. The condition is
written into the property (`AwaitsReturn`) and not into the specification. For
`process` the same assumption is made by the specification, as weak fairness of
the step of each process: the encoder, the triage, the database and the flow
return or raise. For the flow that is `TurnEnds`, with the approvals of `cli.py`,
whose callback answers at once; for the database it is an assumption about the
deployment, which the code does nothing to ensure. Being interrupted or killed is
never fair. No fairness makes a model stop asking for tools; that the turn ends
nevertheless is the work of `RequestLimit`.

## 4. Refinement

`ToolRegistry` implements `ReferenceMonitor` under the mapping `Monitor`: the
classes a call is cleared for are the tiers its gate auto-allows and the one
that was approved for this very call, and what it acted on is the spec whose
handler was started. Starting a handler is a `Decide` step, a new or a refused
call a `Renew` step, and everything else (registrations, the end of a handler,
a cancellation) is invisible. Both TLC (`core`) and TLAPS
(`ImplementsMonitor`) check it.

`SingleAgentFlow` and `OrchestratorFlow` both implement `Turn` (`TurnSpec` in
`single_agent` and `orchestrator`): whatever happens inside, a turn ends once,
and only a success or an uncaught exception can have left facts. `Turn` allows the
facts of a success to be stored later, as `memory/extraction.py` describes it; the
flows do not make use of that, for they store inline (`extraction_inline` in
section 6), so that `Turn` would also be implemented by flows that follow the
documentation. `Process` does not look into its flows: `FlowEnds` takes an
outcome from the same set `Outcomes` that `Turn` ends with, which is all that
these flows do. So what `process` shows of the record and the facts is shown of
both flows. TLC checks the refinements, and TLAPS proves them
(`AgentImplementsTurn`, `ImplementsTurn`).

`MemoryStore` implements `FactStore` (`FactStoreSpec` in `memory`): a fact is
unknown, live or closed, and a call is started, takes effect and returns. The
mapping is `FactsOf` for the rows and `CallsOf` for the calls, whose state
`StateOf` reads off the place a method is at. `Insert` is the abstract `Learn`,
which skips what is known; `Answer` is `Tell`, which picks at most `K` of the
live facts of the scope; `Select` is `Look`, the moment at which an invalidation
takes *all* that is live in its scope and matches; `Commit` is `Forget`, which
closes all of that in one step. An invalidation that returns normally has gone
through both; one that fails has closed nothing, or everything without having
been acknowledged. Locks, time stamps and embeddings are invisible. Both TLC
(`memory`) and TLAPS (`ImplementsFactStore`) check it.

## 5. Proofs

For any sets of executions, names, specs and gates (`RegistryAssumption`: the
specs have names, tiers and flows, the gates are gates, `NoSpec` is no spec):

- `TypeCorrect`, `ChokePoint`, `ResultsAreTruthful`: the three invariants of
  the registry in `core`.
- `ImplementsMonitor`: every behaviour of the registry is one of the monitor.

`OnlyClearedHandlersRun` is not inductive: it says nothing of a call that waits
for an approval, yet the handler is started from what that call holds. The
invariant `ExecutionInv` says it frame by frame (`FrameOK`): a waiting frame
holds a spec that its gate has to ask for; a frame that has run anything has
run the spec it holds, cleared by its own gate or by an approval of just that
tier. That no registration can disturb this is visible in the invariant: it
does not mention `tools`. `FramesAreSound` shows that each frame `execute`
builds has the property, `BecomesIsSound` that replacing one frame keeps it
for all; the theorems follow. `CheckIsTotal` states that `check` always takes
exactly one of its three ways. For the refinement, `RenewStep` and
`DecideStep` say which frames are which step of the monitor.

For any ceilings, prices and reports (`LedgerAssumption`, `BudgetAssumption`):

- `TypeCorrect`, `VerdictIsExact`, `LedgerAddsUp`, `ReasonIsSticky`.

`LedgerInv` is the conjunction of the first three properties. The verdict
depends on the sum: `ExhaustedIffOverdrawn` is kept because the figures of the
ledger only grow (`VerdictStaysDeserved`), which needs that the elapsed time
never runs ahead of the clock and that prices are not negative. `CheckIsExact`
is the statement about `_check_exhaustion` alone.

For any clients, facts, scopes and `K` (`StoreAssumption`: `Null` is no time,
`NoRow` no row):

- `TypeCorrect`, `HistoryIsSafe`: the invariant and the action property of
  `memory`.
- `ImplementsFactStore`: every behaviour of the store is one of `FactStore`.

`HistoryIsKept` speaks of single steps, and does not follow from the step
alone: a commit writes the rows its call has held on to since its `SELECT`.
`CallsAreSound` is what a call knows on the way there: it has a scope, a time
stamp that is a time, and, once it has found facts, these are stored in its
scope. That no other call can spoil this is `RowsKeep`: a row that is there
stays, in its scope. Locks are not needed for any of it. `CommitClosesRows`
says what a commit makes of one row, and `RowsAreWritten` that only it and
`Insert` write any. For the refinement the mapping is taken row by row and
call by call (`MappingIsPointwise`, `CallsMove`); what is live means the same
on both sides (`LiveAgrees`), and each step that the abstract store sees has a
lemma of its own (`MethodsStart`, `InsertLearns`, `AnswerTells`, `SelectLooks`,
`CommitForgets`, `CallReturns`), as have those it does not (`AwaitsAreUnseen`).

For any tools, texts of errors, budgets, prices and gates (`FlowAssumption`:
the setups are setups, "denied" is the text of no exception, and there are
finitely many executions; `ToolsAreRegistered`: every name has a spec, as
`tools/demo_tools.py` registers them):

- `AgentTypeCorrect`, `SuccessIsAffordable`, `BatchesAreAdmittedWhole`,
  `StampsAreWhole`, `MemoryIsOfCheckedTurns`, `RepeatedFailuresRepeat`, `ServicesGateIsInForce`: the invariants of
  `single_agent`.
- `AgentImplementsTurn`: every behaviour of the flow is one of `Turn`.

The registry's part of `FlowInv` is `RegistryInv`, and the lemmas of
`ToolRegistryProofs` about one frame (`ExecuteIsSound`, `ResumeIsSound` and
others) are used for the flow's steps, which do in one step what the registry does and
what `_dispatch` adds. The rest is what the flow knows between its awaits.
`CountsOK` says why a parallel batch cannot pass `max_tool_calls`: the limit is
compared with the whole batch before its first call, while the flow counts
call by call; so the invariant has to relate the library's counter, the flow's
counter and the calls already dispatched. `FailuresOK` bounds each entry of
the detector by the number of calls that did fail in this way; two are needed
for a repeat, hence two calls did. `PhaseOK` says that no ledger is written
before the check and that nothing is out after it (`Quiet`), which is what
makes a success affordable and a remembered turn one without a failure.

For any gates, searches, corpus and flags (`FlowAssumption`,
`ToolsAreRegistered`: here also that `account_lookup` is registered as
financial; `SearchAssumption`: the corpus is a list of texts, and a search is a
list of terms with an integer `k`):

- `FlowTypeCorrect`, `GatherWaits`, `DataIsCleared`, `ToolFailuresAreSurvived`,
  `FlagsDecide`, `AgentIsToldTheTruth`: the invariants of `orchestrator`.
- `RegistryKeepsItsWord`: what is proved of the registry alone still holds of it
  under this flow.
- `ImplementsTurn`: every behaviour of the flow is one of `Turn`.

`OnlyClearedDataIsUsed` is about sources that were collected when workers
returned. `ToolsOK` and `WorkerOK` say that a worker's frame goes through the
gate in force with the spec of its own tool, which no registration changes
during the turn; `CallsOK` says of each search call that it waits only where the
gate asks, and is at the server only with an approval of its own, whatever the
other calls of the response wait for (`ToolCallIsSound`, `OneCallMoves`,
`CancelledCallsAreSound`); `FanoutOK` ties `sources` to what has become of the workers,
also when a sibling has ended the turn. `ProgressOK` has the count of every
await at every place of the flow; the ablation counts and "remembered, hence
reviewed" follow. `Turn` sees a flow only when it ends or stores facts:
`GoesOnUnseen` covers all other steps, `EndsAreEnds` the ends.
`AgentIsToldTheTruth` needs of the flow only that a reply is kept with the
search it answers (`ReplyOK`); the rest is the theorem about the server.

For any corpus, any query and any `k`, negative ones included (the theorem has
its hypotheses with it: texts are sets of terms, a query is a list of terms):

- `SearchIsGrounded`: `search` returns matches that rank best, in order; for a `k`
  that is not negative there are `k` of them, or all. How many a negative `k`
  gives is not claimed (section 6).

`IsAnswer`, which is what this means, counts the documents that stand before a
chunk and does not sort; `sorted` inserts document by document, in a recursive
function. As the provers have no induction over data, a least document takes its
place: there is no first document at which the function is without a value
(`SortingIsDefined`, `SortedSolves`), nor a first at which its value is not
`Ranked` (`SortedIsRanked`). The step between is `PlacedIsRanked`: among ranked
chunks those with as many terms or more are the first ones, without a gap
(`NoGaps`), so that the place they leave to the next document is right, also
for equal scores. `RanksAreCounted` gets from the order to the count, by a
bijection between the places in front of a chunk and the documents that stand
before it, and `UptoKeepsTheFirst` says what the slice leaves.
`SameRetrieval` is a formality: the server of the flow and the one of the theorem are two
instances of `Retrieval`, with the same corpus.

For any processes, sessions, settings, policy files and routes
(`ProcessAssumption`, and `RoutesAreRegistered`: `routes.yaml` sends nothing to
a flow that `cli.py` does not register, which TLC evaluates on the routes of
the repository):

- `TypeCorrect`, `LedgerIsAudited`, `TablesAgree`, `EscalationKeepsToItsCap`,
  `OnlyATriageMissesAFlow`, `FinallyClosesMemory`, `NullStoresSuffice`: the
  invariants of `process`.

Each of them speaks of ended processes or of rows, and is none the less decided
on the way. `RunOK` says what a process carries to each await (`StartOK`
before the turn has ended, `EndOK` after, `TurnOK` about the decision and the
facts) and `RecordsOK` that a row agrees with the process that wrote it, and is
its only one. Processes meet only in the tables, so a step of one leaves `RunOK`
of the others alone; `Moves` and `Records` show that once, and each action has a
lemma that its own process arrives somewhere sound.

For conversations of any length, any sizes and any limit
(`CompactionAssumption`):

- `TypeCorrect`, `RecentTurnsAreKept`, `CompactionLosesNoMore`.

`compact_history` is recursive, and the provers have no induction over data.
The proof replaces it by minimality. `Compacted` gives the result of
the recursion outright: the end of the history from the first message at which
the rounds stop. It solves the recursive equation (`CompactedSolves`), hence the
equation has a solution; and no solution can differ from it, since there would
be a first round in which it does (`RoundsStop`, `LeastExists`).
`RecentTurnsAreIntact` needs two things to be inductive: that messages are said
in turn (`SaidInTurn`), and that a message is cut only in front of others, so
that the last one is never in other words than it was said.

**No step goes back.** `TurnEnds` and `ProcessEnds` have two sides: nothing
goes on for ever, and nothing stops on the way. The first needs no fairness and
is proved, by a measure that every step increases and that is bounded:

- `NothingIsAwaitedTwice` (processes): each step takes one process to a later
  await, or to its end, and leaves the others where they are. So no failure is
  retried, neither by the `finally` nor by Ctrl-C, and a process ends within
  nine steps of its own.
- `NoEndlessTurn` (single-agent flow): each step takes the turn further, or it
  leaves the turn where it is and takes one of its calls further, or the clock.
  The depth of a turn counts its requests (`TurnDepth`): each request has an
  await of its own and so has the batch it asks for, and `RequestLimit` bounds
  both. The depth of a call is `CallDepth`, of `ToolRegistryProofs`, where
  `CallsAdvance` shows that `execute` awaits an approval once and a handler once.
- `NoEndlessTurn` (orchestrator): the same of its turn, of the two registry
  workers, of the retrieval agent, whose requests are limited, too, and of its
  search calls; it covers the workers and calls that outlive the turn.

The measures are state functions of the proof modules. No run checks these
theorems as properties, since `TurnEnds` and `ProcessEnds` say more on the
instances.

Only model-checked:

- **Liveness**, as far as it is more than that: that a turn or a process which
  can go on does go on. The provers know neither `ENABLED` nor fairness.
- **The seven runs of section 6:** they are counterexamples.

## 6. Where the program and its documentation differ

Each is a run that ends in a counterexample, and a finding in `PROJECT.json`.

| Run | What happens |
|---|---|
| `denial_escapes` | `core/loop.py:10-12` promises that a permission denial becomes a clean `FlowResult`. In the single-agent flow a denied call is raised as a plain `RuntimeError`, which leaves `run_turn`. |
| `denied_retrieval_aborts` | `evals/test_flows.py:72-73`: "one denied worker shouldn't take down account/meeting/retrieval fan-out entirely". A denial of the retrieval worker's search does. |
| `extraction_inline` | `memory/extraction.py:1-4` has extraction run "*after* the turn finishes (not inline) so extraction latency/cost never sits on the user-facing response path". Both flows await it, and the store, before they return (`flows/single_agent.py:94-102`, `flows/orchestrator.py:125-128`): if either fails, an answer that was complete is lost. |
| `first_failure_ends` | `tools/registry.py:114`: "tool failures are data, not harness bugs"; `core/loop.py:50-52`: the detector aborts "instead of letting the model retry a broken action forever"; `evals/test_harness.py:115`: the first failure does not raise. `_dispatch` raises for the first one (`flows/single_agent.py:132-133`), which ends the turn uncaught; the model is never told, and only calls of one response can make a repeat. |
| `knowledge_lost` | `memory/init.sql:1-3`: what the agent knew and when must stay answerable. `invalidate` writes the time its transaction began; facts recalled until it commits are on record as closed at the time. |
| `audit_missing` | `core/session.py:3-5`: every turn a session had is a row in `run_records`. `cli._run` records after the turn and outside any `try`, so a turn that raises something `run_turn` does not convert leaves no row. |
| `compaction_stuck` | `core/loop.py:102`: after a cut the "oldest entry is now short". It is longer than 200 characters, because the wrapping comes on top, so the next call cuts it again to the same length: nothing is ever dropped, and a long first message keeps a conversation full for good. |

Met while modelling, and not shown by a run:

- The wall clock is looked at once, when the agent is done
  (`flows/single_agent.py:87`), though `core/budgets.py:1-2` calls the budget a
  hard ceiling; the model may be asked again after the time is up.
- No agent of the orchestrator is given limits, and no usage is recorded, so
  its turns have no ceiling at all; `OrchestratorFlow` has no budget.
- Of two overlapping invalidations both count a fact that both have selected,
  and the second commit overwrites `valid_to`, with an earlier time if its
  transaction began first. `HistoryIsKept` says what holds: the fact stays
  closed.
- A recall may return fewer than `k` facts though more are live in its scope:
  the HNSW scan finds a limited number of rows before the `WHERE` is applied
  (`memory/init.sql:17-18`, `memory/pgvector_store.py:86`).
- The encoder id is stored "as a guard against silently mixing embedding
  spaces", but `recall` does not look at it.
- A guess below the threshold is followed when the triage fails, to the
  orchestrator as to any other flow; `routing/router.py:96-98` wants to "fail
  toward the bounded tool loop" when nothing matches confidently. This holds
  only where nothing matches at all (`EscalationIsCapped`).
- Tier 2 already runs the LLM triage, which `core/context.py:23-24` has for
  tier 3.
- A database that is lost after it was reached ends the process with an
  exception, and the answer is not printed; `cli.py:11-14` promises
  degradation, and `core/session.py:37-39` not to fail "a run over a
  non-essential audit write". `UnreachableIsSurvived` says what holds.
- A run cut off by `UsageLimitExceeded` is never recorded in the budget, so the
  ledger that `run_turn` stamps is empty (`StampedLedgerIsWhole`); nothing
  states what it should be.
- Of each budget in `config/harness.yaml` the program uses `default` only
  (`cli.py:130`); `advisor_prep` is for nobody. Its comment on the risk matrix
  (lines 19-21) names `read_only` as the only tier that is auto-allowed, and
  the next lines auto-allow `writes_internal`, too.
- `budget_for` evaluates its default first, so a file without `default` fails
  for a name that it has (`Config`).
- The services are wired after the connects and before the `try`
  (`cli.py:114-133`): if that fails, both pools stay open.
- `search` "returns up to k chunks"; for a negative `k` it returns all but the
  last few (`upto` in `Retrieval`), which is more than `k`. `AnswersAreGrounded`
  has negative ones too, and claims of them the order and the content only.
- `cli.py:169` calls the session id "for memory/session scoping"; memory is
  scoped by `user_scope`, which is always "default".
- `invalidate` promises to close "all live items matching"
  (`memory/store.py:53-56`); all that are live at its `SELECT`, as
  `FactStoreSpec` has it. An item remembered between that and the `UPDATE` stays
  live.

## 7. Not modelled

- **`StaticRouter`, a loop without a router, `TieredRouter` without a triage,
  `history`:** not used by the program.
- **Validation of `.env` and `harness.yaml`:** happens before anything is
  connected, and a process that fails there has done nothing. Ceilings, prices
  and thresholds are constants of the models.
- **Telemetry:** exporters hold nothing that a decision reads.
- **`connect`, `close`, `_to_pgvector` and the numbers of an embedding; null
  stores:** input and output without state of their own.
- **A tool name the model makes up:** the agent library answers it without
  the harness; only wired tools are asked for.
- **Evals** other than the ablation sweep: they are the tests, read as
  statements of intent.
- **A second Ctrl-C:** it ends the process at once, as `Kill` does.

## 8. Plan

Done, in this order, the most important behaviour first: permissions and
registry with the abstract monitor; budgets; the two flows on top of them; the
memory store; the process around a turn with the router; compaction; proofs of
the registry and the ledger; then Ctrl-C in the flows and in the process, the
abstract turn that both flows implement and the process awaits, the abstract
fact store, facts beside the record, the retrieval server, the policy file and
the ablation sweep; proofs of the memory store, of the processes, of both flows
with the abstract turn, and of compaction; proofs of the retrieval server, alone
and inside the orchestrator, and of the measures by which every turn and every
process comes to its end.

What is left: the liveness properties stay with TLC. Some hazards have no
property, since the code keeps nothing that could be stated about them (section
6): the encoder id, which `recall` ignores; what the orchestrator's agents spend;
which `valid_to` a fact ends with when two invalidations close it; and the time a
turn may take before its wall clock is looked at.
