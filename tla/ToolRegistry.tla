---------------------------- MODULE ToolRegistry ----------------------------
(***************************************************************************)
(* tools/registry.py: InMemoryToolRegistry, shared by every run of the     *)
(* process. An execution is one coroutine of execute(); it can be          *)
(* suspended while an approval callback or the handler is awaited, and     *)
(* other executions and registrations happen meanwhile. Between two awaits *)
(* a coroutine is atomic, so that is what an action is.                    *)
(***************************************************************************)
EXTENDS Permissions

CONSTANTS
  Executions,  \* coroutines of execute()
  ToolNames,
  Flows,
  Specs,       \* the ToolSpecs anybody registers
  SpecName,    \* the name, ...
  SpecTier,    \* ... the risk tier ...
  SpecFlows,   \* ... and the flows (empty: all) of each spec
  Gates,       \* the approval gates runs pass in
  NoSpec       \* absence of a spec

ASSUME RegistryAssumption ==
  /\ SpecName \in [Specs -> ToolNames]
  /\ SpecTier \in [Specs -> RiskTier]
  /\ SpecFlows \in [Specs -> SUBSET Flows]
  /\ Gates \subseteq ApprovalGate
  /\ NoSpec \notin Specs

VARIABLES
  tools,  \* _tools: the spec registered under each name
  exec    \* the local state of each execution, see Execution

registryVars == <<tools, exec>>

\* `approved` and `ran` are observations: the tier the callback said yes to,
\* and the spec whose handler was started.
Execution ==
  [pc       : {"idle", "approval", "handler", "done"},
   spec     : Specs \cup {NoSpec},
   gate     : Gates \cup {DefaultGate},
   approved : RiskTier \cup {"none"},
   ran      : Specs \cup {NoSpec},
   result   : {"none", "ok", "unknown", "denied", "failed", "raised", "cancelled"}]

Idle == [pc |-> "idle", spec |-> NoSpec, gate |-> DefaultGate,
         approved |-> "none", ran |-> NoSpec, result |-> "none"]

RegistryInit(registered) ==
  /\ tools = registered
  /\ exec = [e \in Executions |-> Idle]

-----------------------------------------------------------------------------
(* The states execute() can leave an execution in at an await or a return. *)

Started(s, g, approved) ==
  [pc |-> "handler", spec |-> s, gate |-> g,
   approved |-> approved, ran |-> s, result |-> "none"]

Waiting(s, g) == [Idle EXCEPT !.pc = "approval", !.spec = s, !.gate = g]

Stopped(s, g, why) ==
  [Idle EXCEPT !.pc = "done", !.spec = s, !.gate = g, !.result = why]

Becomes(e, state) == exec' = [exec EXCEPT ![e] = state]

-----------------------------------------------------------------------------
(* Operations. The definitions whose name ends in _bug are deliberately    *)
(* wrong variants of the next one; they show that the properties notice.   *)

\* Keyed by the spec instead of by its name.
register_bug(s) ==
  /\ tools' = [n \in ToolNames \cup {s} |-> IF n = s THEN s ELSE tools[n]]
  /\ UNCHANGED exec

register(s) ==
  /\ tools' = [tools EXCEPT ![SpecName[s]] = s]
  /\ UNCHANGED exec

scoped(flow) ==
  {n \in ToolNames : /\ tools[n] # NoSpec
                     /\ \/ SpecFlows[tools[n]] = {}
                        \/ flow \in SpecFlows[tools[n]]}

\* The callback's answer, for a spec that was read before it was asked. It
\* may also raise, and nothing in execute() catches that.
Answered(e, s, g) ==
  \/ Becomes(e, Started(s, g, SpecTier[s]))
  \/ Becomes(e, Stopped(s, g, "denied"))
  \/ Becomes(e, Stopped(s, g, "raised"))

\* No callback: falls through instead of failing closed.
check_bug(e, s, g) ==
  \/ ~ Asks(g, SpecTier[s]) /\ Becomes(e, Started(s, g, "none"))
  \/ Asks(g, SpecTier[s])   /\ Answered(e, s, g)

check(e, s, g) ==
  \/ Admits(g, SpecTier[s])  /\ Becomes(e, Started(s, g, "none"))
  \/ Refuses(g, SpecTier[s]) /\ Becomes(e, Stopped(s, g, "denied"))
  \/ /\ Asks(g, SpecTier[s])
     /\ \/ g.on_approval_needed = "sync"  /\ Answered(e, s, g)
        \/ g.on_approval_needed = "async" /\ Becomes(e, Waiting(s, g))

execute(e, name, g) ==
  /\ exec[e].pc = "idle"
  /\ \/ /\ tools[name] = NoSpec
        /\ Becomes(e, Stopped(NoSpec, g, "unknown"))
     \/ /\ tools[name] # NoSpec
        /\ check(e, tools[name], g)
  /\ UNCHANGED tools

\* Looks the name up again after the await and runs what it finds.
ApprovalArrives_bug(e) ==
  LET held == exec[e].spec
  IN  /\ exec[e].pc = "approval"
      /\ Becomes(e, Started(tools[SpecName[held]], exec[e].gate, SpecTier[held]))
      /\ UNCHANGED tools

\* The awaited callback answers: the coroutine resumes with the spec it holds.
ApprovalArrives(e) ==
  /\ exec[e].pc = "approval"
  /\ Answered(e, exec[e].spec, exec[e].gate)
  /\ UNCHANGED tools

\* Fills the result in from the registry instead of from the spec it holds.
HandlerEnds_bug(e) ==
  /\ exec[e].pc = "handler"
  /\ exec' = [exec EXCEPT ![e].pc = "done", ![e].result = "ok",
                          ![e].spec = tools[SpecName[exec[e].spec]]]
  /\ UNCHANGED tools

\* The handler returns, or raises an Exception that becomes the error.
HandlerEnds(e) ==
  /\ exec[e].pc = "handler"
  /\ \E r \in {"ok", "failed"} :
       exec' = [exec EXCEPT ![e].pc = "done", ![e].result = r]
  /\ UNCHANGED tools

\* CancelledError is no Exception: it leaves execute() from either await.
Cancelled(e) ==
  /\ exec[e].pc \in {"approval", "handler"}
  /\ exec' = [exec EXCEPT ![e].pc = "done", ![e].result = "cancelled"]
  /\ UNCHANGED tools

\* The caller has taken the result; the slot can serve another call.
Collected(e) ==
  /\ exec[e].pc = "done"
  /\ Becomes(e, Idle)
  /\ UNCHANGED tools

-----------------------------------------------------------------------------
EmptyRegistry == RegistryInit([n \in ToolNames |-> NoSpec])

RegistryNext ==
  \/ \E s \in Specs : register(s)
  \/ \E e \in Executions :
       \/ \E n \in ToolNames, g \in Gates : execute(e, n, g)
       \/ ApprovalArrives(e)
       \/ HandlerEnds(e)
       \/ Cancelled(e)
       \/ Collected(e)

RegistrySpec == EmptyRegistry /\ [][RegistryNext]_registryVars

-----------------------------------------------------------------------------
(* Properties.                                                             *)

\* Every variable has its shape (the dict of tools, the coroutine frames).
RegistryTypeOK ==
  /\ tools \in [ToolNames -> Specs \cup {NoSpec}]
  /\ exec \in [Executions -> Execution]

\* ApprovalGate.check before dispatch (registry.py, execute): a handler was
\* started only for a tier its own run's matrix auto-allows, or requires
\* approval for and the callback approved that tier for this very call. It
\* must survive a re-registration of the name, and answers to other calls,
\* while the approval is awaited; a deny policy can never be talked round.
OnlyClearedHandlersRun ==
  \A e \in Executions : exec[e].ran # NoSpec =>
    LET tier == SpecTier[exec[e].ran]
        policy == policy_for(exec[e].gate.matrix, tier)
    IN  \/ policy = "auto_allow"
        \/ policy = "require_approval" /\ exec[e].approved = tier

\* The ToolResult is a truthful audit record: ok and failed mean that the
\* handler of the spec named in it ran; unknown, denied and a raising
\* callback mean that no handler did.
ResultTellsWhatRan ==
  \A e \in Executions : exec[e].pc = "done" =>
    /\ exec[e].result \in {"ok", "failed"} =>
         exec[e].ran # NoSpec /\ exec[e].ran = exec[e].spec
    /\ exec[e].result \in {"unknown", "denied", "raised"} => exec[e].ran = NoSpec

\* The registry implements the reference monitor: a call is cleared for the
\* tiers its gate auto-allows and for the one that was approved for it.
ClearedTiers(e) ==
  {t \in RiskTier : \/ Admits(exec[e].gate, t)
                    \/ exec[e].approved = t /\ ~ Refuses(exec[e].gate, t)}

Monitor == INSTANCE ReferenceMonitor WITH
  Calls   <- Executions,
  Objects <- Specs,
  Classes <- RiskTier,
  ClassOf <- SpecTier,
  Nothing <- NoSpec,
  cleared <- [e \in Executions |-> ClearedTiers(e)],
  acted   <- [e \in Executions |-> exec[e].ran]

MonitorSpec == Monitor!MonitorSpec
=============================================================================
