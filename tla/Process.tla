------------------------------ MODULE Process ------------------------------
(***************************************************************************)
(* cli.py: the life of processes that serve one turn each, over the tables *)
(* of core/session.py, with the dispatch of AgentLoop.run_turn in between. *)
(* A process connects to memory and sessions, makes sure its session has a *)
(* row, routes the request, awaits the flow, closes memory in a finally,   *)
(* records the run, closes sessions and prints. The database may fail, and *)
(* the process be interrupted or killed, at each of these awaits; a flow   *)
(* is what the module Turn says of it, which SingleAgentFlow and           *)
(* OrchestratorFlow implement.                                             *)
(***************************************************************************)
EXTENDS Router, FlowResults, Config, Sequences, FiniteSets

CONSTANTS
  Processes,
  Sessions,   \* session ids
  Settings,   \* the settings that the processes may be started with, see Setting
  Configs,    \* the contents harness.yaml may have
  Flows,      \* the flows cli.py registers with the loop
  NoChoice

Setting == [session_id : Sessions, router_tier : 1 .. 3, memory_on : BOOLEAN,
            config : Configs]

ASSUME ProcessAssumption == Settings \subseteq [Processes -> Setting]

\* routes.yaml sends nothing to a flow that cli.py does not register.
ASSUME RoutesAreRegistered ==
  /\ fallback.target \in Flows
  /\ \A name \in DOMAIN RoutesConfig :
       RoutesConfig[name].mode = "direct" \/ RoutesConfig[name].target \in Flows

VARIABLES
  setting,      \* of each process
  run,          \* the coroutine of _run in each process, see Run
  sessions,     \* the ids in table sessions
  run_records,  \* table run_records, in the order of insertion
  facts         \* the processes whose turn has left facts in memory_items

vars == <<setting, run, sessions, run_records, facts>>

Ended == {"printed", "crashed", "killed"}

\* What run_turn returns; of the flows' reasons, an uncaught exception has none.
TurnReasons == (StopReasons \ {"uncaught"}) \cup {"direct_answer", "unknown_flow"}

\* What the router can decide on: a flow, or an answer.
Targets ==
  Flows \cup TriageTargets \cup {RoutesConfig[name].target : name \in DOMAIN RoutesConfig}

\* The two stores are Postgres or the null store; `pools` are those open. The
\* stop reason is there once run_turn has returned, `error` what has been
\* raised. `choice` waits for the triage; `match`, `tier` and `target` are
\* observations: what tier 1 found, "pending" from the begin of the turn on;
\* which tier has decided; and the flow, or the answer, it has decided on.
Run ==
  [pc          : {"connecting_memory", "connecting_sessions", "ensuring", "routing",
                  "triaging", "flow", "closing_memory", "recording",
                  "closing_sessions"} \cup Ended,
   memory      : {"unset", "null", "postgres"},
   sessions    : {"unset", "null", "postgres"},
   pools       : SUBSET {"memory", "sessions"},
   choice      : RouteChoice \cup {NoChoice},
   match       : {"unset", "pending", "nothing", "unsure", "sure"},
   tier        : 0 .. 2,
   target      : Targets \cup {"none"},
   stop_reason : TurnReasons \cup {"none"},
   error       : {"none", "database", "encoder", "config", "turn", "interrupt"}]

RunRecord == [by : Processes, session_id : Sessions,
              stop_reason : TurnReasons, success : BOOLEAN]

Fresh == [pc |-> "connecting_memory", memory |-> "unset", sessions |-> "unset",
          pools |-> {}, choice |-> NoChoice, match |-> "unset", tier |-> 0,
          target |-> "none", stop_reason |-> "none", error |-> "none"]

Init ==
  /\ setting \in Settings
  /\ run = [p \in Processes |-> Fresh]
  /\ sessions = {} /\ run_records = <<>> /\ facts = {}

Goes(p, states) == \E r \in states : run' = [run EXCEPT ![p] = r]

Crashed(r, why) == [r EXCEPT !.pc = "crashed", !.error = why]

-----------------------------------------------------------------------------
(* Start. A store that cannot be reached is replaced by the null store. A   *)
(* name that ends in _bug is a deliberately wrong variant of the definition *)
(* after it.                                                               *)

ConnectMemory(p) ==
  LET r == [run[p] EXCEPT !.pc = "connecting_sessions"]
  IN  /\ run[p].pc = "connecting_memory"
      /\ Goes(p, {[r EXCEPT !.memory = "postgres", !.pools = @ \cup {"memory"}],
                  [r EXCEPT !.memory = "null"]})
      /\ UNCHANGED <<setting, sessions, run_records, facts>>

\* The services are wired up without an await and before the try. The router
\* embeds its routes then, which takes the encoder, and the policy file has to
\* name a default budget, and tiers and policies that exist.
Wired(p, r) ==
  LET config == setting[p].config
  IN  IF budget_for_raises(config) \/ permission_matrix_raises(config)
      THEN {Crashed(r, "config")}
      ELSE {[r EXCEPT !.pc = "routing", !.match = "pending"], Crashed(r, "encoder")}

\* The connection error is not caught.
ConnectSessions_bug(p) ==
  LET r == [run[p] EXCEPT !.sessions = "postgres", !.pools = @ \cup {"sessions"}]
  IN  /\ run[p].pc = "connecting_sessions"
      /\ Goes(p, {[r EXCEPT !.pc = "ensuring"], Crashed(run[p], "database")})
      /\ UNCHANGED <<setting, sessions, run_records, facts>>

\* The null store's ensure_session returns at once.
ConnectSessions(p) ==
  LET r == [run[p] EXCEPT !.sessions = "postgres", !.pools = @ \cup {"sessions"}]
  IN  /\ run[p].pc = "connecting_sessions"
      /\ Goes(p, {[r EXCEPT !.pc = "ensuring"]} \cup Wired(p, [run[p] EXCEPT !.sessions = "null"]))
      /\ UNCHANGED <<setting, sessions, run_records, facts>>

\* INSERT INTO sessions ... ON CONFLICT DO NOTHING. It may fail, and may have
\* taken effect when it does.
EnsureSession(p) ==
  LET stored == sessions \cup {setting[p].session_id}
  IN  /\ run[p].pc = "ensuring"
      /\ \/ sessions' = stored /\ Goes(p, Wired(p, run[p]))
         \/ sessions' \in {sessions, stored} /\ Goes(p, {Crashed(run[p], "database")})
      /\ UNCHANGED <<setting, run_records, facts>>

-----------------------------------------------------------------------------
(* The turn. What returns or raises goes through the finally.              *)

AfterTurn(r) ==
  [r EXCEPT !.pc = IF r.error # "none" THEN "crashed"
                   ELSE IF r.sessions = "postgres" THEN "recording" ELSE "printed"]

\* No finally: an exception goes past the close.
LeaveTry_bug(r) ==
  IF r.memory = "postgres" /\ r.error = "none" THEN [r EXCEPT !.pc = "closing_memory"]
  ELSE AfterTurn(r)

LeaveTry(r) ==
  IF r.memory = "postgres" THEN [r EXCEPT !.pc = "closing_memory"] ELSE AfterTurn(r)

Returns(r, reason) == LeaveTry([r EXCEPT !.stop_reason = reason])

Raises(r) == LeaveTry([r EXCEPT !.error = "turn"])

Decided(r, decision) ==
  [r EXCEPT !.choice = NoChoice, !.tier = decision.tier, !.target = decision.target,
            !.match = IF r.choice.name = NoRoute THEN "nothing"
                      ELSE IF r.choice.sure THEN "sure" ELSE "unsure"]

\* Looks for flows in the routes of the single-agent loop only.
Dispatched_bug(r, decision) ==
  LET d == Decided(r, decision)
  IN  CASE decision.mode = "direct" -> Returns(d, "direct_answer")
        [] decision.mode # "direct" /\ decision.target # "single_agent" ->
             Returns(d, "unknown_flow")
        [] OTHER -> [d EXCEPT !.pc = "flow"]

\* run_turn with a decision, up to its next await.
Dispatched(r, decision) ==
  LET d == Decided(r, decision)
  IN  CASE decision.mode = "direct" -> Returns(d, "direct_answer")
        [] decision.mode # "direct" /\ decision.target \notin Flows ->
             Returns(d, "unknown_flow")
        [] OTHER -> [d EXCEPT !.pc = "flow"]

\* Tier 1 answers, or its encoder fails; nothing in route catches that.
Route(p) ==
  /\ run[p].pc = "routing"
  /\ \/ Goes(p, {Raises(run[p])})
     \/ \E choice \in RouteChoice :
          LET r == [run[p] EXCEPT !.choice = choice]
          IN  Goes(p, IF Escalated(choice, setting[p].router_tier)
                      THEN {[r EXCEPT !.pc = "triaging"]}
                      ELSE {Dispatched(r, BestGuess(choice))})
  /\ UNCHANGED <<setting, sessions, run_records, facts>>

Triage(p) ==
  /\ run[p].pc = "triaging"
  /\ \E decision \in TriageDecision \cup {BestGuess(run[p].choice)} :
       Goes(p, {Dispatched(run[p], decision)})
  /\ UNCHANGED <<setting, sessions, run_records, facts>>

\* Makes a result of any exception.
FlowResult_bug(r, stop_reason) == Returns(r, stop_reason)

\* Takes an exception it does not know for a tool that has failed.
FlowResult_blanket_bug(r, stop_reason) ==
  Returns(r, IF stop_reason = "uncaught" THEN "repeated_failure" ELSE stop_reason)

\* What run_turn makes of a flow that returns, or raises what it converts, or
\* something else.
FlowResult(r, stop_reason) ==
  IF stop_reason = "uncaught" THEN Raises(r) ELSE Returns(r, stop_reason)

\* The null store forgets what it is told to remember.
LeavesFacts(p) == run[p].memory = "postgres" /\ setting[p].memory_on

FlowEnds(p) ==
  /\ run[p].pc = "flow"
  /\ \E outcome \in Outcomes(LeavesFacts(p)) :
       /\ Goes(p, {FlowResult(run[p], outcome.stop_reason)})
       /\ facts' = IF outcome.facts THEN facts \cup {p} ELSE facts
  /\ UNCHANGED <<setting, sessions, run_records>>

-----------------------------------------------------------------------------
(* After the turn.                                                         *)

\* Waits for the pool to be given back by a turn that returned.
CloseMemory_bug(p) ==
  /\ run[p].pc = "closing_memory" /\ run[p].error = "none"
  /\ Goes(p, {AfterTurn([run[p] EXCEPT !.pools = @ \ {"memory"}])})
  /\ UNCHANGED <<setting, sessions, run_records, facts>>

\* A close that fails replaces what the turn has returned or raised. The pool
\* is gone either way.
CloseMemory(p) ==
  LET r == [run[p] EXCEPT !.pools = @ \ {"memory"}]
  IN  /\ run[p].pc = "closing_memory"
      /\ Goes(p, {AfterTurn(r), Crashed(r, "database")})
      /\ UNCHANGED <<setting, sessions, run_records, facts>>

record_of(p) == [by |-> p, session_id |-> setting[p].session_id,
                 stop_reason |-> run[p].stop_reason,
                 success |-> run[p].stop_reason \in {"success", "direct_answer"}]

\* Tries again when the database does not answer.
RecordRun_bug(p) ==
  /\ run[p].pc = "recording"
  /\ \/ /\ run_records' = Append(run_records, record_of(p))
        /\ Goes(p, {[run[p] EXCEPT !.pc = "closing_sessions"]})
     \/ /\ Len(run_records) < 2 * Cardinality(Processes)
        /\ run_records' \in {run_records, Append(run_records, record_of(p))}
        /\ UNCHANGED run
  /\ UNCHANGED <<setting, sessions, facts>>

\* INSERT INTO run_records; it may fail, and may have taken effect then. The
\* row of the session has to be there (REFERENCES sessions).
RecordRun(p) ==
  /\ run[p].pc = "recording"
  /\ \/ /\ setting[p].session_id \in sessions
        /\ run_records' = Append(run_records, record_of(p))
        /\ Goes(p, {[run[p] EXCEPT !.pc = "closing_sessions"],
                    Crashed(run[p], "database")})
     \/ UNCHANGED run_records /\ Goes(p, {Crashed(run[p], "database")})
  /\ UNCHANGED <<setting, sessions, facts>>

CloseSessions(p) ==
  LET r == [run[p] EXCEPT !.pools = @ \ {"sessions"}]
  IN  /\ run[p].pc = "closing_sessions"
      /\ Goes(p, {[r EXCEPT !.pc = "printed"], Crashed(r, "database")})
      /\ UNCHANGED <<setting, sessions, run_records, facts>>

-----------------------------------------------------------------------------
(* Ends by force.                                                          *)

\* Whatever the process awaits, the database may have done it already.
BrokenOff(p) ==
  LET id == setting[p].session_id
  IN  /\ sessions' \in IF run[p].pc = "ensuring" THEN {sessions, sessions \cup {id}}
                       ELSE {sessions}
      /\ run_records' \in IF run[p].pc = "recording" /\ id \in sessions
                          THEN {run_records, Append(run_records, record_of(p))}
                          ELSE {run_records}
      /\ facts' \in IF run[p].pc = "flow" /\ LeavesFacts(p) THEN {facts, facts \cup {p}}
                    ELSE {facts}
      /\ UNCHANGED setting

\* Ctrl-C, once: asyncio.run raises CancelledError at the await. No "except
\* Exception" stops it, but the finally is gone through, and a close that is
\* broken off gives its pool up.
Interrupt(p) ==
  LET r == [run[p] EXCEPT !.error = "interrupt"]
      closing == CASE r.pc = "closing_memory" -> {"memory"}
                   [] r.pc = "closing_sessions" -> {"sessions"}
                   [] OTHER -> {}
  IN  /\ run[p].pc \notin Ended /\ run[p].error # "interrupt"
      /\ Goes(p, {IF r.pc \in {"routing", "triaging", "flow"} THEN LeaveTry(r)
                  ELSE [r EXCEPT !.pc = "crashed", !.pools = @ \ closing]})
      /\ BrokenOff(p)

\* At any time, with nothing cleaned up and nothing left but the tables.
Kill(p) ==
  /\ run[p].pc \notin Ended
  /\ run' = [run EXCEPT ![p] = [Fresh EXCEPT !.pc = "killed"]]
  /\ BrokenOff(p)

-----------------------------------------------------------------------------
Step(p) ==
  \/ ConnectMemory(p) \/ ConnectSessions(p) \/ EnsureSession(p)
  \/ Route(p) \/ Triage(p) \/ FlowEnds(p)
  \/ CloseMemory(p) \/ RecordRun(p) \/ CloseSessions(p)

Next == \E p \in Processes : Step(p) \/ Interrupt(p) \/ Kill(p)

\* What a process awaits here returns or raises. For the flow that is TurnEnds
\* of SingleAgentFlow and OrchestratorFlow; of the database, the encoder and
\* the triage's model it is assumed: the pools have no time-out for commands.
Spec == Init /\ [][Next]_vars /\ \A p \in Processes : WF_vars(Step(p))

-----------------------------------------------------------------------------
(* Properties.                                                             *)

\* The processes and the tables have their shape.
TypeOK ==
  /\ setting \in Settings
  /\ run \in [Processes -> Run]
  /\ sessions \subseteq Sessions
  /\ run_records \in Seq(RunRecord)
  /\ facts \subseteq Processes

Rows(p) == {i \in DOMAIN run_records : run_records[i].by = p}

\* "an auditable ledger of what ran": a turn has at most one row; it says what
\* the turn came to and belongs to a session on record; and what was printed
\* of a turn, with sessions connected, is on record.
LedgerIsTruthful ==
  \A p \in Processes :
    /\ Cardinality(Rows(p)) <= 1
    /\ run[p].pc = "printed" /\ run[p].sessions = "postgres" => Rows(p) # {}
    /\ \A i \in Rows(p) :
         /\ run_records[i].session_id = setting[p].session_id
         /\ run_records[i].session_id \in sessions
         /\ run[p].pc # "killed" => run_records[i].stop_reason = run[p].stop_reason
         /\ run_records[i].success <=>
              run_records[i].stop_reason \in {"success", "direct_answer"}

\* A turn is remembered only if it succeeded, as far as the two tables tell:
\* no facts are there of a turn that is on record as failed or as answered
\* without a flow, none with memory ablated or unreachable; and what was
\* printed after leaving facts is on record as a success.
FactsMatchTheRecord ==
  \A p \in facts :
    /\ setting[p].memory_on /\ run[p].memory # "null"
    /\ \A i \in Rows(p) : run_records[i].stop_reason = "success"
    /\ run[p].pc = "printed" => run[p].stop_reason = "success"

\* The router-tier ablation caps the escalation: at router_tier 1, and where
\* tier 1 was sure, the decision is tier 1's; and with the triage ablated or
\* failing, a request that matched nothing goes "toward the bounded tool loop,
\* never toward an unrouted flow". What router_tier 2 stands for is left open.
EscalationIsCapped ==
  \A p \in Processes :
    /\ setting[p].router_tier = 1 \/ run[p].match = "sure" => run[p].tier # 2
    /\ run[p].tier = 1 /\ run[p].match = "nothing" =>
         /\ run[p].target = "single_agent"
         /\ run[p].stop_reason \notin {"direct_answer", "unknown_flow"}

\* routes.yaml and cli.py agree: a flow is unknown only if a triage made its
\* name up, whatever tier 1 decides and however the triage fails.
RoutesAreServed ==
  \A p \in Processes :
    run[p].stop_reason = "unknown_flow" => run[p].tier = 2

\* The finally: once a turn has begun, an end other than a kill leaves no pool
\* of memory open, however the turn or the close went, or was interrupted.
MemoryPoolIsClosed ==
  \A p \in Processes :
    run[p].pc \in {"printed", "crashed"} /\ run[p].match # "unset" =>
      "memory" \notin run[p].pools

\* "a non-essential dependency being down shouldn't take out the harness": a
\* process that never reached the database is not failed by it, and its turn
\* is printed unless it raised.
UnreachableIsSurvived ==
  \A p \in Processes :
    run[p].pc = "crashed" /\ "postgres" \notin {run[p].memory, run[p].sessions} =>
      run[p].error # "database" /\ run[p].stop_reason = "none"

\* No process hangs of itself, whatever fails under way.
ProcessEnds == \A p \in Processes : <> (run[p].pc \in Ended)

-----------------------------------------------------------------------------
(* What the documentation says, and the code does not do; see the README.  *)

\* session.py: "every turn a session had is a row in run_records". Left out
\* are the turns cut off by force, by Ctrl-C or by the database itself.
EveryTurnIsOnRecord ==
  \A p \in Processes :
    /\ run[p].pc \in {"printed", "crashed"} /\ run[p].sessions = "postgres"
    /\ run[p].tier # 0 /\ run[p].error \notin {"database", "interrupt"}
    => Rows(p) # {}
=============================================================================
