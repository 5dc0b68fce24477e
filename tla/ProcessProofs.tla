--------------------------- MODULE ProcessProofs ---------------------------
(***************************************************************************)
(* Proofs about Process, for any number of processes and sessions, any     *)
(* settings and policy files, and any routes that name registered flows.   *)
(* RunOK is what the coroutine of a process relies on when it goes on, and *)
(* RecordsOK what the two tables say of it; together with the types they   *)
(* are inductive. A step moves one process (Moves, Records), and what is   *)
(* left to show of each action is that the place it goes to is sound.      *)
(***************************************************************************)
EXTENDS Process, FiniteSetTheorems, TLAPS

BeforeTurn == {"connecting_memory", "connecting_sessions", "ensuring"}
BeforeTurnEnds == BeforeTurn \cup {"routing", "triaging", "flow"}

\* The tables know nothing of a turn that has not ended, and nothing has been
\* raised or returned; the triage has been called for a reason.
StartOK(s, r, recorded, left) ==
  /\ r.pc \in BeforeTurnEnds =>
       r.error = "none" /\ r.stop_reason = "none" /\ ~ recorded /\ ~ left
  /\ r.pc \in BeforeTurnEnds \ {"flow"} => r.tier = 0
  /\ r.pc \in BeforeTurn => r.match = "unset"
  /\ r.pc = "connecting_memory" => r.pools = {}
  /\ r.pc = "triaging" => r.choice \in RouteChoice /\ Escalated(r.choice, s.router_tier)

\* A run is recorded only after its turn has returned, and once; it is closed
\* only where it was connected, and memory before anything is recorded.
EndOK(r, recorded) ==
  /\ r.pc \in {"recording", "closing_sessions", "printed"} =>
       r.error = "none" /\ r.stop_reason # "none"
  /\ r.pc = "closing_memory" =>
       r.memory = "postgres" /\ (r.error = "none" => r.stop_reason # "none")
  /\ r.pc \in {"ensuring", "recording", "closing_sessions"} => r.sessions = "postgres"
  /\ r.pc = "closing_sessions" \/ (r.pc = "printed" /\ r.sessions = "postgres") => recorded
  /\ recorded => r.pc \in {"closing_sessions"} \cup Ended
  /\ "memory" \in r.pools => r.memory = "postgres"
  /\ \/ r.pc \in {"recording", "closing_sessions", "printed"}
     \/ r.pc = "crashed" /\ r.match # "unset"
     => "memory" \notin r.pools
  /\ r.pc = "crashed" /\ "postgres" \notin {r.memory, r.sessions} =>
       r.error # "database" /\ r.stop_reason = "none"

\* Facts are left with memory on and connected, by a turn that succeeds or
\* returns nothing; and the decision is the one the settings allow.
TurnOK(s, r, left) ==
  /\ left => /\ s.memory_on /\ r.memory # "null"
             /\ r.pc # "killed" => \/ r.stop_reason = "success"
                                   \/ r.stop_reason = "none" /\ r.error # "none"
  /\ s.router_tier = 1 \/ r.match = "sure" => r.tier # 2
  /\ r.tier = 1 /\ r.match = "nothing" =>
       r.target = "single_agent" /\ r.stop_reason \notin {"direct_answer", "unknown_flow"}
  /\ r.stop_reason = "unknown_flow" => r.tier = 2

RunOK(s, r, recorded, left) ==
  StartOK(s, r, recorded, left) /\ EndOK(r, recorded) /\ TurnOK(s, r, left)

Recorded(p) == \E i \in DOMAIN run_records : run_records[i].by = p

RowOK(row) ==
  /\ row.session_id = setting[row.by].session_id /\ row.session_id \in sessions
  /\ run[row.by].pc # "killed" => row.stop_reason = run[row.by].stop_reason
  /\ row.success <=> row.stop_reason \in {"success", "direct_answer"}
  /\ row.by \in facts => row.stop_reason = "success"

RecordsOK ==
  /\ \A i \in DOMAIN run_records : RowOK(run_records[i])
  /\ \A i, j \in DOMAIN run_records : run_records[i].by = run_records[j].by => i = j

ProcessInv ==
  /\ TypeOK
  /\ \A p \in Processes : RunOK(setting[p], run[p], Recorded(p), p \in facts)
  /\ RecordsOK

-----------------------------------------------------------------------------
(* Lemmas about the state as a whole.                                      *)

\* What the invariant says of a process and its settings.
LEMMA Current ==
  ASSUME ProcessInv, NEW p \in Processes
  PROVE  /\ setting[p] \in Setting /\ setting[p].session_id \in Sessions
         /\ run[p] \in Run /\ RunOK(setting[p], run[p], Recorded(p), p \in facts)
  BY ProcessAssumption DEF ProcessInv, TypeOK, Setting

\* Every row of the table is a row, and says what the process by it says.
LEMMA RowsAreSound ==
  ASSUME ProcessInv, NEW i \in DOMAIN run_records
  PROVE  /\ run_records[i] \in RunRecord /\ run_records[i].by \in Processes
         /\ RowOK(run_records[i])
<1>1. run_records \in Seq(RunRecord) /\ RowOK(run_records[i])
  BY DEF ProcessInv, TypeOK, RecordsOK
<1>2. run_records[i] \in RunRecord
  BY <1>1
<1>3. QED
  BY <1>1, <1>2 DEF RunRecord

\* A process goes to a sound place, having perhaps stored the row of its
\* session, or facts before it is recorded: all others stay sound, and so
\* does every row.
LEMMA Moves ==
  ASSUME ProcessInv, NEW p \in Processes, NEW r \in Run, run' = [run EXCEPT ![p] = r],
         UNCHANGED <<setting, run_records>>,
         sessions \subseteq sessions', sessions' \subseteq Sessions,
         facts' = facts \/ (facts' = facts \cup {p} /\ ~ Recorded(p)),
         Recorded(p) /\ r.pc # "killed" =>
           run[p].pc # "killed" /\ r.stop_reason = run[p].stop_reason,
         RunOK(setting[p], r, Recorded(p), p \in facts')
  PROVE  ProcessInv'
<1>1. TypeOK'
  BY DEF ProcessInv, TypeOK
<1>2. \A q \in Processes : Recorded(q)' <=> Recorded(q)
  BY DEF Recorded
<1>3. ASSUME NEW q \in Processes
      PROVE  RunOK(setting[q], run[q], Recorded(q), q \in facts)'
  <2>1. CASE q = p
    <3>1. run'[q] = r /\ setting'[q] = setting[p]
      BY <2>1 DEF ProcessInv, TypeOK
    <3>2. QED
      BY <1>2, <2>1, <3>1 DEF RunOK, StartOK, EndOK, TurnOK
  <2>2. CASE q # p
    <3>1. run'[q] = run[q] /\ setting'[q] = setting[q] /\ (q \in facts' <=> q \in facts)
      BY <2>2 DEF ProcessInv, TypeOK
    <3>2. RunOK(setting[q], run[q], Recorded(q), q \in facts)
      BY DEF ProcessInv
    <3>3. QED
      BY <1>2, <3>1, <3>2 DEF RunOK, StartOK, EndOK, TurnOK
  <2>3. QED
    BY <2>1, <2>2
<1>4. ASSUME NEW i \in DOMAIN run_records PROVE RowOK(run_records[i])'
  <2> DEFINE row == run_records[i]
  <2>1. RowOK(row) /\ row.by \in Processes
    BY RowsAreSound
  <2>2. row.by = p => Recorded(p)
    BY DEF Recorded
  <2>3. row.by # p => run'[row.by] = run[row.by] /\ (row.by \in facts' <=> row.by \in facts)
    BY <2>1 DEF ProcessInv, TypeOK
  <2>4. row.by = p => run'[row.by] = r /\ facts' = facts
    BY <2>1, <2>2 DEF ProcessInv, TypeOK
  <2> HIDE DEF row
  <2>5. RowOK(row)'
    BY <2>1, <2>2, <2>3, <2>4 DEF RowOK, row
  <2>6. QED
    BY <2>5 DEF row
<1>5. RecordsOK'
  BY <1>4 DEF ProcessInv, RecordsOK
<1>6. QED
  BY <1>1, <1>3, <1>5 DEF ProcessInv

\* A process that has not recorded its turn does, and goes to a sound place.
LEMMA Records ==
  ASSUME ProcessInv, NEW p \in Processes, NEW r \in Run, run' = [run EXCEPT ![p] = r],
         UNCHANGED <<setting, sessions, facts>>,
         run[p].pc = "recording", setting[p].session_id \in sessions,
         run_records' = Append(run_records, record_of(p)),
         r.pc # "killed" => r.stop_reason = run[p].stop_reason,
         RunOK(setting[p], r, TRUE, p \in facts)
  PROVE  ProcessInv'
<1> DEFINE n == Len(run_records)
<1>1. /\ ~ Recorded(p)
      /\ run[p].stop_reason \in TurnReasons
      /\ p \in facts => run[p].stop_reason = "success"
  BY Current DEF RunOK, StartOK, EndOK, TurnOK, Run, Ended
<1>2. record_of(p) \in RunRecord
  BY <1>1, Current DEF record_of, RunRecord
<1>a. PICK row \in RunRecord : row = record_of(p)
  BY <1>2
<1>b. /\ row.by = p /\ row.session_id = setting[p].session_id
      /\ row.stop_reason = run[p].stop_reason
      /\ row.success = (run[p].stop_reason \in {"success", "direct_answer"})
  BY <1>a DEF record_of
<1>c. row.success <=> row.stop_reason \in {"success", "direct_answer"}
  BY <1>b
<1>3. run_records \in Seq(RunRecord) /\ n \in Nat
  BY DEF ProcessInv, TypeOK
<1>4. /\ run_records' \in Seq(RunRecord)
      /\ DOMAIN run_records' = 1 .. n + 1 /\ DOMAIN run_records = 1 .. n
      /\ run_records'[n + 1] = row
      /\ \A i \in 1 .. n : run_records'[i] = run_records[i]
  BY <1>a, <1>3
<1> HIDE DEF n
<1>5. TypeOK'
  BY <1>4 DEF ProcessInv, TypeOK
<1>6. \A q \in Processes : Recorded(q)' <=> (Recorded(q) \/ q = p)
  BY <1>b, <1>3, <1>4 DEF Recorded
<1>7. ASSUME NEW q \in Processes
      PROVE  RunOK(setting[q], run[q], Recorded(q), q \in facts)'
  <2>1. CASE q = p
    <3>1. run'[q] = r /\ setting'[q] = setting[p]
      BY <2>1 DEF ProcessInv, TypeOK
    <3>2. QED
      BY <1>6, <2>1, <3>1 DEF RunOK, StartOK, EndOK, TurnOK
  <2>2. CASE q # p
    <3>1. run'[q] = run[q] /\ setting'[q] = setting[q]
      BY <2>2 DEF ProcessInv, TypeOK
    <3>2. RunOK(setting[q], run[q], Recorded(q), q \in facts)
      BY DEF ProcessInv
    <3>3. QED
      BY <1>6, <2>2, <3>1, <3>2 DEF RunOK, StartOK, EndOK, TurnOK
  <2>3. QED
    BY <2>1, <2>2
<1>8. RowOK(row)'
  <2>1. run'[p] = r
    BY DEF ProcessInv, TypeOK
  <2>2. QED
    BY <1>1, <1>b, <1>c, <2>1 DEF RowOK
<1>9. ASSUME NEW i \in 1 .. n
      PROVE  RowOK(run_records[i])' /\ run_records[i].by # p
  <2>1. RowOK(run_records[i]) /\ run_records[i].by \in Processes
    BY <1>4, RowsAreSound
  <2>2. run_records[i].by # p
    BY <1>1, <1>4 DEF Recorded
  <2>3. run'[run_records[i].by] = run[run_records[i].by]
    BY <2>1, <2>2 DEF ProcessInv, TypeOK
  <2>4. run_records'[i] = run_records[i]
    BY <1>4
  <2>5. QED
    BY <2>1, <2>2, <2>3, <2>4 DEF RowOK
<1>10. RecordsOK'
  <2>1. ASSUME NEW i \in 1 .. n + 1 PROVE RowOK(run_records[i])'
    <3>1. CASE i = n + 1
      BY <1>4, <1>8, <3>1 DEF RowOK
    <3>2. CASE i # n + 1
      <4>1. i \in 1 .. n
        BY <1>3, <3>2
      <4>2. QED
        BY <4>1, <1>9
    <3>3. QED
      BY <3>1, <3>2
  <2>2. ASSUME NEW i \in 1 .. n + 1, NEW j \in 1 .. n + 1,
               run_records'[i].by = run_records'[j].by
        PROVE  i = j
    BY <1>b, <1>3, <1>4, <1>9, <2>2 DEF ProcessInv, RecordsOK
  <2>3. QED
    BY <1>4, <2>1, <2>2 DEF RecordsOK
<1>11. QED
  BY <1>5, <1>7, <1>10 DEF ProcessInv

-----------------------------------------------------------------------------
(* Lemmas about the turn.                                                  *)

\* Where LeaveTry goes is sound for a turn that returned or raised, and not
\* recorded; it keeps what the turn has come to.
LEMMA LeaveTryIsSound ==
  ASSUME NEW r \in Run, "memory" \in r.pools => r.memory = "postgres",
         r.error = "none" => r.stop_reason # "none",
         r.error # "none" => r.error # "database" /\ r.stop_reason = "none"
  PROVE  LET t == LeaveTry(r)
         IN  /\ t \in Run /\ EndOK(t, FALSE)
             /\ t.pc \in {"closing_memory", "recording", "printed", "crashed"}
             /\ t.stop_reason = r.stop_reason /\ t.error = r.error /\ t.memory = r.memory
             /\ t.tier = r.tier /\ t.match = r.match /\ t.target = r.target
<1>1. ASSUME NEW pc \in {"closing_memory", "recording", "printed", "crashed"}
      PROVE  LET t == [r EXCEPT !.pc = pc]
             IN  /\ t \in Run /\ t.pc = pc /\ t.pools = r.pools /\ t.sessions = r.sessions
                 /\ t.stop_reason = r.stop_reason /\ t.error = r.error
                 /\ t.memory = r.memory /\ t.tier = r.tier /\ t.match = r.match
                 /\ t.target = r.target
  BY DEF Run, Ended
<1>2. CASE r.memory = "postgres"
  <2>1. LeaveTry(r) = [r EXCEPT !.pc = "closing_memory"]
    BY <1>2 DEF LeaveTry
  <2>2. QED
    BY <1>1, <1>2, <2>1 DEF EndOK
<1>3. CASE r.memory # "postgres" /\ r.error # "none"
  <2>1. LeaveTry(r) = [r EXCEPT !.pc = "crashed"]
    BY <1>3 DEF LeaveTry, AfterTurn
  <2>2. QED
    BY <1>1, <1>3, <2>1 DEF EndOK, Ended
<1>4. CASE r.memory # "postgres" /\ r.error = "none" /\ r.sessions = "postgres"
  <2>1. LeaveTry(r) = [r EXCEPT !.pc = "recording"]
    BY <1>4 DEF LeaveTry, AfterTurn
  <2>2. QED
    BY <1>1, <1>4, <2>1 DEF EndOK
<1>5. CASE r.memory # "postgres" /\ r.error = "none" /\ r.sessions # "postgres"
  <2>1. LeaveTry(r) = [r EXCEPT !.pc = "printed"]
    BY <1>5 DEF LeaveTry, AfterTurn
  <2>2. QED
    BY <1>1, <1>5, <2>1 DEF EndOK, Ended
<1>6. QED
  BY <1>2, <1>3, <1>4, <1>5

\* So a turn may leave the try with any result that agrees with its decision
\* and with the facts it leaves.
LEMMA TurnLeaves ==
  ASSUME ProcessInv, NEW p \in Processes, run[p].pc \in {"routing", "triaging", "flow"},
         NEW r \in Run, r.pools = run[p].pools, r.memory = run[p].memory, r.pc # "killed",
         r.error = "none" => r.stop_reason # "none",
         r.error # "none" => r.error # "database" /\ r.stop_reason = "none",
         run' = [run EXCEPT ![p] = LeaveTry(r)],
         UNCHANGED <<setting, sessions, run_records>>,
         facts' \in {facts, facts \cup {p}},
         TurnOK(setting[p], r, p \in facts')
  PROVE  ProcessInv'
<1> DEFINE t == LeaveTry(r)
<1>1. ~ Recorded(p) /\ ("memory" \in r.pools => r.memory = "postgres")
  BY Current DEF RunOK, StartOK, EndOK, BeforeTurn, BeforeTurnEnds
<1>2. /\ t \in Run /\ EndOK(t, FALSE)
      /\ t.pc \in {"closing_memory", "recording", "printed", "crashed"}
      /\ t.stop_reason = r.stop_reason /\ t.error = r.error /\ t.memory = r.memory
      /\ t.tier = r.tier /\ t.match = r.match /\ t.target = r.target
  BY <1>1, LeaveTryIsSound
<1> HIDE DEF t
<1>3. RunOK(setting[p], t, Recorded(p), p \in facts')
  BY <1>1, <1>2 DEF RunOK, StartOK, EndOK, TurnOK, BeforeTurn, BeforeTurnEnds
<1>4. sessions' \subseteq Sessions
  BY DEF ProcessInv, TypeOK
<1>5. QED
  BY <1>1, <1>2, <1>3, <1>4, Moves DEF t

\* The choice that a decision was made on keeps to the cap, and tier 1 names
\* only flows that are there.
LEMMA DecisionsAreCapped ==
  ASSUME NEW choice \in RouteChoice, NEW router_tier \in 1 .. 3,
         NEW decision, \/ decision = BestGuess(choice)
                       \/ decision \in TriageDecision /\ Escalated(choice, router_tier)
  PROVE  /\ decision.tier \in {1, 2} /\ decision.target \in Targets
         /\ decision.tier = 2 =>
              router_tier >= 2 /\ (choice.name = NoRoute \/ ~ choice.sure)
         /\ decision.tier = 1 => decision.mode = "direct" \/ decision.target \in Flows
         /\ decision.tier = 1 /\ choice.name = NoRoute =>
              decision.mode # "direct" /\ decision.target = "single_agent"
<1>1. CASE decision = BestGuess(choice) /\ choice.name = NoRoute
  BY <1>1, RoutesAreRegistered DEF BestGuess, fallback, Targets
<1>2. CASE decision = BestGuess(choice) /\ choice.name # NoRoute
  <2>1. choice.name \in DOMAIN RoutesConfig
    BY <1>2 DEF RouteChoice
  <2>2. /\ decision.mode = RoutesConfig[choice.name].mode
        /\ decision.target = RoutesConfig[choice.name].target
        /\ decision.tier = 1
    BY <1>2 DEF BestGuess
  <2>3. QED
    BY <1>2, <2>1, <2>2, RoutesAreRegistered DEF Targets
<1>3. CASE decision \in TriageDecision /\ Escalated(choice, router_tier)
  BY <1>3 DEF TriageDecision, Escalated, Followed, Targets
<1>4. QED
  BY <1>1, <1>2, <1>3

\* A decision leaves a process in its shape.
LEMMA DecidedIsRun ==
  ASSUME NEW r \in Run, NEW t \in 0 .. 2, NEW g \in Targets,
         NEW m \in {"nothing", "unsure", "sure"}
  PROVE  [r EXCEPT !.choice = NoChoice, !.tier = t, !.target = g, !.match = m] \in Run
<1>1. [r EXCEPT !.choice = NoChoice] \in Run
  BY DEF Run
<1>2. \A q \in Run : [q EXCEPT !.tier = t] \in Run
  BY DEF Run
<1>3. \A q \in Run : [q EXCEPT !.match = m] \in Run
  BY DEF Run
<1>4. \A q \in Run : [q EXCEPT !.target = g] \in Run
  BY DEF Run
<1>5. [r EXCEPT !.choice = NoChoice, !.tier = t, !.target = g, !.match = m]
        = [[[[r EXCEPT !.choice = NoChoice] EXCEPT !.tier = t] EXCEPT !.target = g]
             EXCEPT !.match = m]
  OBVIOUS
<1>6. QED
  BY <1>1, <1>2, <1>3, <1>4, <1>5

\* A dispatch on such a decision is sound, whether it starts a flow or not.
LEMMA DispatchIsSound ==
  ASSUME ProcessInv, NEW p \in Processes, run[p].pc \in {"routing", "triaging"},
         NEW choice \in RouteChoice,
         NEW decision, \/ decision = BestGuess(choice)
                       \/ decision \in TriageDecision
                            /\ Escalated(choice, setting[p].router_tier),
         NEW r, r = [run[p] EXCEPT !.choice = choice],
         run' = [run EXCEPT ![p] = Dispatched(r, decision)],
         UNCHANGED <<setting, sessions, run_records, facts>>
  PROVE  ProcessInv'
<1> DEFINE d == Decided(r, decision)
<1>1. /\ run[p] \in Run /\ setting[p].router_tier \in 1 .. 3
      /\ RunOK(setting[p], run[p], Recorded(p), p \in facts)
  BY Current DEF Setting
<1>2. /\ ~ Recorded(p) /\ p \notin facts
      /\ run[p].error = "none" /\ run[p].stop_reason = "none"
      /\ "memory" \in run[p].pools => run[p].memory = "postgres"
  BY <1>1 DEF RunOK, StartOK, EndOK, BeforeTurn, BeforeTurnEnds
<1>3. /\ decision.tier \in {1, 2} /\ decision.target \in Targets
      /\ decision.tier = 2 =>
           setting[p].router_tier >= 2 /\ (choice.name = NoRoute \/ ~ choice.sure)
      /\ decision.tier = 1 => decision.mode = "direct" \/ decision.target \in Flows
      /\ decision.tier = 1 /\ choice.name = NoRoute =>
           decision.mode # "direct" /\ decision.target = "single_agent"
  BY <1>1, DecisionsAreCapped
<1>4. /\ d \in Run /\ d.pools = run[p].pools /\ d.memory = run[p].memory
      /\ d.pc = run[p].pc /\ d.error = "none" /\ d.stop_reason = "none"
      /\ d.tier = decision.tier /\ d.target = decision.target
      /\ d.match = "nothing" <=> choice.name = NoRoute
      /\ d.match = "sure" <=> choice.name # NoRoute /\ choice.sure
  <2> DEFINE m == IF choice.name = NoRoute THEN "nothing"
                  ELSE IF choice.sure THEN "sure" ELSE "unsure"
  <2>1. r \in Run /\ r.choice = choice
    BY <1>1 DEF Run
  <2>2. d = [r EXCEPT !.choice = NoChoice, !.tier = decision.tier,
                        !.target = decision.target, !.match = m]
    BY <2>1 DEF Decided
  <2>3. m \in {"nothing", "sure", "unsure"}
    OBVIOUS
  <2>4. (m = "nothing" <=> choice.name = NoRoute) /\ (m = "sure" <=> choice.name # NoRoute /\ choice.sure)
    OBVIOUS
  <2> HIDE DEF m, d
  <2>5. /\ d \in Run /\ d.pools = r.pools /\ d.memory = r.memory
        /\ d.pc = r.pc /\ d.error = r.error /\ d.stop_reason = r.stop_reason
        /\ d.tier = decision.tier /\ d.target = decision.target /\ d.match = m
    <3>1. decision.tier \in 0 .. 2
      BY <1>3
    <3>2. /\ d.choice = NoChoice /\ d.tier = decision.tier /\ d.match = m
          /\ d.target = decision.target
          /\ d.pools = r.pools /\ d.memory = r.memory /\ d.sessions = r.sessions
          /\ d.pc = r.pc /\ d.error = r.error /\ d.stop_reason = r.stop_reason
      BY <2>1, <2>2 DEF Run
    <3>3. d \in Run
      BY <1>3, <2>1, <2>2, <2>3, <3>1, DecidedIsRun
    <3>4. QED
      BY <3>2, <3>3
  <2>6. /\ r.pools = run[p].pools /\ r.memory = run[p].memory /\ r.pc = run[p].pc
        /\ r.error = run[p].error /\ r.stop_reason = run[p].stop_reason
    BY <1>1 DEF Run
  <2>7. QED
    BY <1>2, <2>4, <2>5, <2>6
<1>5. ASSUME NEW reason \in {"direct_answer", "unknown_flow"},
             Dispatched(r, decision) = Returns(d, reason),
             decision.tier = 1 => decision.mode = "direct" /\ reason = "direct_answer"
      PROVE  ProcessInv'
  <2> DEFINE x == [d EXCEPT !.stop_reason = reason]
  <2>1. /\ x \in Run /\ x.pools = run[p].pools /\ x.memory = run[p].memory
        /\ x.pc = run[p].pc /\ x.error = "none" /\ x.stop_reason = reason
        /\ x.tier = d.tier /\ x.match = d.match /\ x.target = d.target
    BY <1>4 DEF Run, TurnReasons
  <2>2. run' = [run EXCEPT ![p] = LeaveTry(x)]
    BY <1>5 DEF Returns
  <2> HIDE DEF x, d
  <2>3. TurnOK(setting[p], x, p \in facts')
    BY <1>2, <1>3, <1>4, <1>5, <2>1 DEF TurnOK
  <2>4. QED
    BY <2>1, <2>2, <2>3, TurnLeaves
<1>6. ASSUME Dispatched(r, decision) = [d EXCEPT !.pc = "flow"] PROVE ProcessInv'
  <2> DEFINE x == [d EXCEPT !.pc = "flow"]
  <2>1. /\ x \in Run /\ x.pools = run[p].pools /\ x.memory = run[p].memory
        /\ x.pc = "flow" /\ x.error = "none" /\ x.stop_reason = "none"
        /\ x.tier = d.tier /\ x.match = d.match /\ x.target = d.target
    BY <1>4 DEF Run
  <2>2. run' = [run EXCEPT ![p] = x]
    BY <1>6
  <2> HIDE DEF x, d
  <2>3. RunOK(setting[p], x, Recorded(p), p \in facts')
    BY <1>2, <1>3, <1>4, <2>1
       DEF RunOK, StartOK, EndOK, TurnOK, BeforeTurn, BeforeTurnEnds, Ended
  <2>4. QED
    BY <1>2, <2>1, <2>2, <2>3, Moves DEF ProcessInv, TypeOK
<1>7. CASE decision.mode = "direct"
  BY <1>5, <1>7 DEF Dispatched
<1>8. CASE decision.mode # "direct" /\ decision.target \notin Flows
  BY <1>3, <1>5, <1>8 DEF Dispatched
<1>9. CASE decision.mode # "direct" /\ decision.target \in Flows
  BY <1>6, <1>9 DEF Dispatched
<1>10. QED
  BY <1>7, <1>8, <1>9

-----------------------------------------------------------------------------
(* Every action preserves the invariant.                                   *)

\* Wiring takes a process that has not begun its turn to the routing, or ends it.
LEMMA WiredIsSound ==
  ASSUME ProcessInv, NEW p \in Processes,
         run[p].pc \in {"connecting_sessions", "ensuring"},
         NEW q \in Run, q = run[p] \/ q = [run[p] EXCEPT !.sessions = "null"],
         NEW r \in Wired(p, q)
  PROVE  r \in Run /\ RunOK(setting[p], r, Recorded(p), p \in facts)
<1>1. /\ run[p] \in Run /\ RunOK(setting[p], run[p], Recorded(p), p \in facts)
  BY Current
<1>2. /\ q.pc = run[p].pc /\ q.memory = run[p].memory /\ q.pools = run[p].pools
      /\ q.tier = run[p].tier /\ q.error = run[p].error /\ q.match = run[p].match
      /\ q.target = run[p].target
      /\ q.stop_reason = run[p].stop_reason
  BY <1>1 DEF Run
<1>3. CASE r = [q EXCEPT !.pc = "routing", !.match = "pending"]
  <2>1. /\ r \in Run /\ r.pc = "routing" /\ r.memory = q.memory /\ r.pools = q.pools
        /\ r.tier = q.tier /\ r.error = q.error /\ r.match = "pending"
        /\ r.stop_reason = q.stop_reason
    BY <1>3 DEF Run
  <2>2. QED
    BY <1>1, <1>2, <2>1
       DEF RunOK, StartOK, EndOK, TurnOK, BeforeTurn, BeforeTurnEnds, Ended
<1>4. ASSUME NEW why \in {"config", "encoder"}, r = Crashed(q, why)
      PROVE  r \in Run /\ RunOK(setting[p], r, Recorded(p), p \in facts)
  <2>1. /\ r \in Run /\ r.pc = "crashed" /\ r.memory = q.memory /\ r.pools = q.pools
        /\ r.tier = q.tier /\ r.error = why /\ r.match = q.match /\ r.target = q.target
        /\ r.stop_reason = q.stop_reason
    BY <1>4 DEF Run, Crashed, Ended
  <2>2. QED
    BY <1>1, <1>2, <2>1
       DEF RunOK, StartOK, EndOK, TurnOK, BeforeTurn, BeforeTurnEnds, Ended
<1>5. QED
  BY <1>3, <1>4 DEF Wired

\* A process that is not recorded moves to a sound place, and nothing else changes
\* but the row of its session.
LEMMA StartMoves ==
  ASSUME ProcessInv, NEW p \in Processes, run[p].pc \in BeforeTurnEnds, NEW r \in Run,
         run' = [run EXCEPT ![p] = r], RunOK(setting[p], r, Recorded(p), p \in facts),
         sessions' \in {sessions, sessions \cup {setting[p].session_id}},
         UNCHANGED <<setting, run_records, facts>>
  PROVE  ProcessInv'
<1>1. ~ Recorded(p)
  BY Current DEF RunOK, StartOK
<1>2. sessions \subseteq sessions' /\ sessions' \subseteq Sessions
  BY Current DEF ProcessInv, TypeOK
<1>3. QED
  BY <1>1, <1>2, Moves

\* Connecting to memory.
LEMMA ConnectMemoryPreserves ==
  ASSUME ProcessInv, NEW p \in Processes, ConnectMemory(p)
  PROVE  ProcessInv'
<1>1. /\ run[p] \in Run /\ RunOK(setting[p], run[p], Recorded(p), p \in facts)
      /\ run[p].pc = "connecting_memory"
  BY Current DEF ConnectMemory
<1>2. ~ Recorded(p) /\ p \notin facts /\ run[p].tier = 0 /\ run[p].pools = {}
      /\ run[p].error = "none" /\ run[p].stop_reason = "none" /\ run[p].match = "unset"
  BY <1>1 DEF RunOK, StartOK, BeforeTurn, BeforeTurnEnds
<1> DEFINE q == [run[p] EXCEPT !.pc = "connecting_sessions"]
           open == [q EXCEPT !.memory = "postgres", !.pools = @ \cup {"memory"}]
           null == [q EXCEPT !.memory = "null"]
<1>3. q \in Run /\ q.pc = "connecting_sessions" /\ q.tier = 0 /\ q.pools = {}
      /\ q.error = "none" /\ q.stop_reason = "none" /\ q.match = "unset"
  BY <1>1, <1>2 DEF Run
<1> HIDE DEF q
<1>4. /\ open \in Run /\ open.pc = "connecting_sessions" /\ open.tier = 0
      /\ open.error = "none" /\ open.stop_reason = "none" /\ open.memory = "postgres"
      /\ open.match = "unset"
  BY <1>3 DEF Run
<1>5. /\ null \in Run /\ null.pc = "connecting_sessions" /\ null.tier = 0 /\ null.pools = {}
      /\ null.error = "none" /\ null.stop_reason = "none" /\ null.match = "unset"
  BY <1>3 DEF Run
<1>6. PICK r \in {open, null} : run' = [run EXCEPT ![p] = r]
  BY DEF ConnectMemory, Goes, q
<1> HIDE DEF open, null
<1>7. RunOK(setting[p], r, Recorded(p), p \in facts)
  BY <1>2, <1>4, <1>5 DEF RunOK, StartOK, EndOK, TurnOK, BeforeTurn, BeforeTurnEnds, Ended
<1>8. QED
  BY <1>1, <1>4, <1>5, <1>6, <1>7, StartMoves DEF ConnectMemory, BeforeTurn, BeforeTurnEnds

\* Connecting to the sessions, and wiring if they are not there.
LEMMA ConnectSessionsPreserves ==
  ASSUME ProcessInv, NEW p \in Processes, ConnectSessions(p)
  PROVE  ProcessInv'
<1>1. /\ run[p] \in Run /\ RunOK(setting[p], run[p], Recorded(p), p \in facts)
      /\ run[p].pc = "connecting_sessions"
  BY Current DEF ConnectSessions
<1>2. /\ ~ Recorded(p) /\ p \notin facts /\ run[p].tier = 0
      /\ run[p].error = "none" /\ run[p].stop_reason = "none" /\ run[p].match = "unset"
      /\ "memory" \in run[p].pools => run[p].memory = "postgres"
  BY <1>1 DEF RunOK, StartOK, EndOK, BeforeTurn, BeforeTurnEnds
<1> DEFINE q == [run[p] EXCEPT !.sessions = "postgres", !.pools = @ \cup {"sessions"}]
           open == [q EXCEPT !.pc = "ensuring"]
           null == [run[p] EXCEPT !.sessions = "null"]
<1>3. /\ q \in Run /\ q.memory = run[p].memory /\ q.tier = 0 /\ q.sessions = "postgres"
      /\ q.error = "none" /\ q.stop_reason = "none" /\ q.match = "unset"
      /\ "memory" \in q.pools => "memory" \in run[p].pools
  BY <1>1, <1>2 DEF Run
<1> HIDE DEF q
<1>4. /\ open \in Run /\ open.pc = "ensuring" /\ open.tier = 0 /\ open.memory = q.memory
      /\ open.error = "none" /\ open.stop_reason = "none" /\ open.sessions = "postgres"
      /\ open.pools = q.pools /\ open.match = "unset"
  BY <1>3 DEF Run
<1>5. null \in Run
  BY <1>1 DEF Run
<1>6. PICK r \in {open} \cup Wired(p, null) : run' = [run EXCEPT ![p] = r]
  BY DEF ConnectSessions, Goes, q
<1>7. r \in Run /\ RunOK(setting[p], r, Recorded(p), p \in facts)
  <2>1. CASE r = open
    <3> HIDE DEF open, null
    <3>1. QED
      BY <1>2, <1>3, <1>4, <2>1
         DEF RunOK, StartOK, EndOK, TurnOK, BeforeTurn, BeforeTurnEnds, Ended
  <2>2. CASE r \in Wired(p, null)
    BY <1>1, <1>5, <2>2, WiredIsSound
  <2>3. QED
    BY <1>6, <2>1, <2>2
<1>8. QED
  BY <1>1, <1>6, <1>7, StartMoves DEF ConnectSessions, BeforeTurn, BeforeTurnEnds

\* The row of the session, and wiring after it.
LEMMA EnsureSessionPreserves ==
  ASSUME ProcessInv, NEW p \in Processes, EnsureSession(p)
  PROVE  ProcessInv'
<1>1. /\ run[p] \in Run /\ RunOK(setting[p], run[p], Recorded(p), p \in facts)
      /\ run[p].pc = "ensuring"
  BY Current DEF EnsureSession
<1> DEFINE failed == Crashed(run[p], "database")
<1>2. /\ failed \in Run /\ failed.pc = "crashed" /\ failed.sessions = run[p].sessions
      /\ failed.memory = run[p].memory /\ failed.pools = run[p].pools
      /\ failed.tier = run[p].tier /\ failed.error = "database"
      /\ failed.match = run[p].match /\ failed.target = run[p].target
      /\ failed.stop_reason = run[p].stop_reason
  BY <1>1 DEF Crashed, Run, Ended
<1>3. PICK r \in Wired(p, run[p]) \cup {failed} : run' = [run EXCEPT ![p] = r]
  BY DEF EnsureSession, Goes
<1>4. r \in Run /\ RunOK(setting[p], r, Recorded(p), p \in facts)
  <2>1. CASE r = failed
    <3> HIDE DEF failed
    <3>1. QED
      BY <1>1, <1>2, <2>1
         DEF RunOK, StartOK, EndOK, TurnOK, BeforeTurn, BeforeTurnEnds, Ended
  <2>2. CASE r \in Wired(p, run[p])
    BY <1>1, <2>2, WiredIsSound
  <2>3. QED
    BY <1>3, <2>1, <2>2
<1>5. QED
  BY <1>1, <1>3, <1>4, StartMoves DEF EnsureSession, BeforeTurn, BeforeTurnEnds

\* An exception of a turn that has not ended, with or without its facts.
LEMMA RaisesIsSound ==
  ASSUME ProcessInv, NEW p \in Processes, run[p].pc \in {"routing", "triaging", "flow"},
         NEW why \in {"turn", "interrupt"},
         run' = [run EXCEPT ![p] = LeaveTry([run[p] EXCEPT !.error = why])],
         UNCHANGED <<setting, sessions, run_records>>,
         facts' = facts \/ (facts' = facts \cup {p} /\ LeavesFacts(p))
  PROVE  ProcessInv'
<1> DEFINE r == [run[p] EXCEPT !.error = why]
<1>1. /\ run[p] \in Run /\ RunOK(setting[p], run[p], Recorded(p), p \in facts)
  BY Current
<1>2. /\ run[p].stop_reason = "none" /\ p \notin facts
  BY <1>1 DEF RunOK, StartOK, BeforeTurn, BeforeTurnEnds
<1>3. /\ r \in Run /\ r.error = why /\ r.pools = run[p].pools /\ r.memory = run[p].memory
      /\ r.pc = run[p].pc /\ r.stop_reason = run[p].stop_reason
      /\ r.tier = run[p].tier /\ r.match = run[p].match /\ r.target = run[p].target
  BY <1>1 DEF Run
<1>4. run' = [run EXCEPT ![p] = LeaveTry(r)]
  OBVIOUS
<1> HIDE DEF r
<1>5. TurnOK(setting[p], r, p \in facts')
  BY <1>1, <1>2, <1>3 DEF RunOK, TurnOK, LeavesFacts
<1>6. QED
  BY <1>2, <1>3, <1>4, <1>5, TurnLeaves

\* Tier 1.
LEMMA RoutePreserves ==
  ASSUME ProcessInv, NEW p \in Processes, Route(p)
  PROVE  ProcessInv'
<1>1. /\ run[p] \in Run /\ setting[p].router_tier \in 1 .. 3
      /\ RunOK(setting[p], run[p], Recorded(p), p \in facts)
      /\ run[p].pc = "routing" /\ UNCHANGED <<setting, sessions, run_records, facts>>
  BY Current DEF Route, Setting
<1>2. CASE Goes(p, {Raises(run[p])})
  BY <1>1, <1>2, RaisesIsSound DEF Goes, Raises
<1>3. ASSUME NEW choice \in RouteChoice, ~ Escalated(choice, setting[p].router_tier),
             Goes(p, {Dispatched([run[p] EXCEPT !.choice = choice], BestGuess(choice))})
      PROVE  ProcessInv'
  BY <1>1, <1>3, DispatchIsSound DEF Goes
<1>4. ASSUME NEW choice \in RouteChoice, Escalated(choice, setting[p].router_tier),
             Goes(p, {[[run[p] EXCEPT !.choice = choice] EXCEPT !.pc = "triaging"]})
      PROVE  ProcessInv'
  <2> DEFINE q == [run[p] EXCEPT !.choice = choice]
             r == [q EXCEPT !.pc = "triaging"]
  <2>1. /\ q \in Run /\ q.choice = choice /\ q.pools = run[p].pools
        /\ q.memory = run[p].memory /\ q.error = run[p].error
        /\ q.stop_reason = run[p].stop_reason /\ q.tier = run[p].tier
        /\ q.match = run[p].match /\ q.target = run[p].target
    BY <1>1 DEF Run
  <2>2. run' = [run EXCEPT ![p] = r]
    BY <1>4 DEF Goes
  <2> HIDE DEF q
  <2>3. /\ r \in Run /\ r.pc = "triaging" /\ r.choice = choice /\ r.pools = q.pools
        /\ r.memory = q.memory /\ r.error = q.error /\ r.stop_reason = q.stop_reason
        /\ r.tier = q.tier /\ r.match = q.match /\ r.target = q.target
    BY <2>1 DEF Run
  <2> HIDE DEF r
  <2>4. RunOK(setting[p], r, Recorded(p), p \in facts)
    BY <1>1, <1>4, <2>1, <2>3
       DEF RunOK, StartOK, EndOK, TurnOK, BeforeTurn, BeforeTurnEnds, Ended
  <2>5. QED
    BY <1>1, <2>2, <2>3, <2>4, StartMoves DEF BeforeTurn, BeforeTurnEnds
<1>5. QED
  BY <1>2, <1>3, <1>4 DEF Route

\* Tier 2, or back to the best guess of tier 1.
LEMMA TriagePreserves ==
  ASSUME ProcessInv, NEW p \in Processes, Triage(p)
  PROVE  ProcessInv'
<1> DEFINE choice == run[p].choice
<1>1. /\ run[p] \in Run /\ run[p].pc = "triaging" /\ choice \in RouteChoice
      /\ Escalated(choice, setting[p].router_tier)
      /\ UNCHANGED <<setting, sessions, run_records, facts>>
  BY Current DEF Triage, RunOK, StartOK
<1>2. PICK decision \in TriageDecision \cup {BestGuess(choice)} :
        run' = [run EXCEPT ![p] = Dispatched(run[p], decision)]
  BY DEF Triage, Goes
<1>3. run[p] = [run[p] EXCEPT !.choice = choice]
  BY <1>1 DEF Run
<1>4. QED
  BY <1>1, <1>2, <1>3, DispatchIsSound

\* The flow.
LEMMA FlowEndsPreserves ==
  ASSUME ProcessInv, NEW p \in Processes, FlowEnds(p)
  PROVE  ProcessInv'
<1>1. /\ run[p] \in Run /\ RunOK(setting[p], run[p], Recorded(p), p \in facts)
      /\ run[p].pc = "flow" /\ UNCHANGED <<setting, sessions, run_records>>
  BY Current DEF FlowEnds
<1>2. PICK outcome \in Outcomes(LeavesFacts(p)) :
        /\ run' = [run EXCEPT ![p] = FlowResult(run[p], outcome.stop_reason)]
        /\ facts' = IF outcome.facts THEN facts \cup {p} ELSE facts
  BY DEF FlowEnds, Goes
<1>3. /\ outcome.stop_reason \in StopReasons
      /\ facts' = facts
         \/ (facts' = facts \cup {p} /\ LeavesFacts(p)
               /\ outcome.stop_reason \in {"success", "uncaught"})
  <2>1. CASE outcome \in [stop_reason : StopReasons, facts : {FALSE}]
    BY <1>2, <2>1
  <2>2. CASE LeavesFacts(p)
             /\ outcome \in [stop_reason : {"success", "uncaught"}, facts : {TRUE}]
    BY <1>2, <2>2 DEF StopReasons
  <2>3. QED
    BY <2>1, <2>2 DEF Outcomes
<1>4. CASE outcome.stop_reason = "uncaught"
  BY <1>1, <1>2, <1>3, <1>4, RaisesIsSound DEF FlowResult, Raises
<1>5. CASE outcome.stop_reason # "uncaught"
  <2> DEFINE r == [run[p] EXCEPT !.stop_reason = outcome.stop_reason]
  <2>1. /\ run[p].error = "none" /\ p \notin facts
    BY <1>1 DEF RunOK, StartOK, BeforeTurn, BeforeTurnEnds
  <2>2. outcome.stop_reason \in TurnReasons
        /\ outcome.stop_reason \notin {"none", "direct_answer", "unknown_flow"}
    BY <1>3, <1>5 DEF StopReasons, TurnReasons
  <2>3. /\ r \in Run /\ r.error = "none" /\ r.pools = run[p].pools
        /\ r.memory = run[p].memory /\ r.pc = "flow" /\ r.tier = run[p].tier
        /\ r.stop_reason = outcome.stop_reason /\ r.match = run[p].match
        /\ r.target = run[p].target
    BY <1>1, <2>1, <2>2 DEF Run
  <2>4. run' = [run EXCEPT ![p] = LeaveTry(r)]
    BY <1>2, <1>5 DEF FlowResult, Returns
  <2> HIDE DEF r
  <2>5. TurnOK(setting[p], r, p \in facts')
    BY <1>1, <1>3, <1>5, <2>1, <2>2, <2>3 DEF RunOK, TurnOK, LeavesFacts
  <2>6. QED
    BY <1>1, <1>3, <2>2, <2>3, <2>4, <2>5, TurnLeaves
<1>6. QED
  BY <1>4, <1>5

\* The close of memory, whether it works or fails.
LEMMA CloseMemoryPreserves ==
  ASSUME ProcessInv, NEW p \in Processes, CloseMemory(p)
  PROVE  ProcessInv'
<1>1. /\ run[p] \in Run /\ RunOK(setting[p], run[p], Recorded(p), p \in facts)
      /\ run[p].pc = "closing_memory" /\ UNCHANGED <<setting, sessions, run_records, facts>>
  BY Current DEF CloseMemory
<1>2. /\ ~ Recorded(p) /\ run[p].memory = "postgres"
      /\ run[p].error = "none" => run[p].stop_reason # "none"
  BY <1>1 DEF RunOK, EndOK, Ended
<1> DEFINE q == [run[p] EXCEPT !.pools = @ \ {"memory"}]
<1>3. /\ q \in Run /\ "memory" \notin q.pools /\ q.memory = run[p].memory
      /\ q.error = run[p].error /\ q.stop_reason = run[p].stop_reason
      /\ q.tier = run[p].tier /\ q.match = run[p].match /\ q.target = run[p].target
      /\ q.pc = "closing_memory"
  BY <1>1 DEF Run
<1>4. PICK r \in {AfterTurn(q), Crashed(q, "database")} : run' = [run EXCEPT ![p] = r]
  BY DEF CloseMemory, Goes
<1> HIDE DEF q
<1>5. CASE r = Crashed(q, "database")
  <2>1. /\ r \in Run /\ r.pc = "crashed" /\ r.error = "database" /\ r.pools = q.pools
        /\ r.memory = q.memory /\ r.stop_reason = q.stop_reason
        /\ r.tier = q.tier /\ r.match = q.match /\ r.target = q.target
    BY <1>3, <1>5 DEF Crashed, Run, Ended
  <2>2. RunOK(setting[p], r, Recorded(p), p \in facts)
    BY <1>1, <1>2, <1>3, <2>1
       DEF RunOK, StartOK, EndOK, TurnOK, BeforeTurn, BeforeTurnEnds, Ended
  <2>3. QED
    BY <1>1, <1>2, <1>4, <2>1, <2>2, Moves DEF ProcessInv, TypeOK
<1>6. CASE r = AfterTurn(q)
  <2>1. PICK pc \in {"crashed", "recording", "printed"} :
          /\ r = [q EXCEPT !.pc = pc]
          /\ pc = "crashed" <=> q.error # "none"
          /\ pc = "recording" => q.sessions = "postgres"
          /\ pc = "printed" => q.sessions # "postgres"
    BY <1>6 DEF AfterTurn
  <2>2. /\ r \in Run /\ r.pc = pc /\ r.error = q.error /\ r.pools = q.pools
        /\ r.memory = q.memory /\ r.stop_reason = q.stop_reason
        /\ r.tier = q.tier /\ r.match = q.match /\ r.target = q.target
        /\ r.sessions = q.sessions
    BY <1>3, <2>1 DEF Run, Ended
  <2>3. RunOK(setting[p], r, Recorded(p), p \in facts)
    BY <1>1, <1>2, <1>3, <2>1, <2>2
       DEF RunOK, StartOK, EndOK, TurnOK, BeforeTurn, BeforeTurnEnds, Ended
  <2>4. QED
    BY <1>1, <1>2, <1>4, <2>2, <2>3, Moves DEF ProcessInv, TypeOK
<1>7. QED
  BY <1>4, <1>5, <1>6

\* What a failure of the database leaves of a run that is being recorded.
LEMMA RecordingFails ==
  ASSUME ProcessInv, NEW p \in Processes, run[p].pc = "recording", NEW recorded
  PROVE  LET r == Crashed(run[p], "database")
         IN  /\ r \in Run /\ r.stop_reason = run[p].stop_reason
             /\ RunOK(setting[p], r, recorded, p \in facts)
<1> DEFINE r == Crashed(run[p], "database")
<1>1. /\ run[p] \in Run /\ RunOK(setting[p], run[p], Recorded(p), p \in facts)
  BY Current
<1>2. /\ r \in Run /\ r.pc = "crashed" /\ r.error = "database" /\ r.pools = run[p].pools
      /\ r.memory = run[p].memory /\ r.sessions = run[p].sessions
      /\ r.stop_reason = run[p].stop_reason
      /\ r.tier = run[p].tier /\ r.match = run[p].match /\ r.target = run[p].target
  BY <1>1 DEF Crashed, Run, Ended
<1> HIDE DEF r
<1>3. RunOK(setting[p], r, recorded, p \in facts)
  BY <1>1, <1>2 DEF RunOK, StartOK, EndOK, TurnOK, BeforeTurn, BeforeTurnEnds, Ended
<1>4. QED
  BY <1>2, <1>3 DEF r

\* The insert of the record.
LEMMA RecordRunPreserves ==
  ASSUME ProcessInv, NEW p \in Processes, RecordRun(p)
  PROVE  ProcessInv'
<1>1. /\ run[p] \in Run /\ RunOK(setting[p], run[p], Recorded(p), p \in facts)
      /\ run[p].pc = "recording" /\ UNCHANGED <<setting, sessions, facts>>
  BY Current DEF RecordRun
<1>2. ~ Recorded(p)
  BY <1>1 DEF RunOK, EndOK, Ended
<1> DEFINE failed == Crashed(run[p], "database")
           done == [run[p] EXCEPT !.pc = "closing_sessions"]
<1>3. /\ done \in Run /\ done.pc = "closing_sessions" /\ done.error = run[p].error
      /\ done.pools = run[p].pools /\ done.memory = run[p].memory
      /\ done.sessions = run[p].sessions /\ done.stop_reason = run[p].stop_reason
      /\ done.tier = run[p].tier /\ done.match = run[p].match
      /\ done.target = run[p].target
  BY <1>1 DEF Run
<1>4. /\ failed \in Run /\ failed.stop_reason = run[p].stop_reason
      /\ RunOK(setting[p], failed, TRUE, p \in facts)
      /\ RunOK(setting[p], failed, Recorded(p), p \in facts)
  BY <1>1, RecordingFails
<1>5. CASE UNCHANGED run_records /\ Goes(p, {failed})
  <2>1. run' = [run EXCEPT ![p] = failed]
    BY <1>5 DEF Goes
  <2> HIDE DEF failed
  <2>2. QED
    BY <1>1, <1>2, <1>4, <1>5, <2>1, Moves DEF ProcessInv, TypeOK
<1>6. CASE /\ setting[p].session_id \in sessions
           /\ run_records' = Append(run_records, record_of(p)) /\ Goes(p, {done, failed})
  <2>1. PICK r \in {done, failed} : run' = [run EXCEPT ![p] = r]
    BY <1>6 DEF Goes
  <2> HIDE DEF failed, done
  <2>2. RunOK(setting[p], done, TRUE, p \in facts)
    BY <1>1, <1>3 DEF RunOK, StartOK, EndOK, TurnOK, BeforeTurn, BeforeTurnEnds, Ended
  <2>3. QED
    BY <1>1, <1>3, <1>4, <1>6, <2>1, <2>2, Records
<1>7. QED
  BY <1>5, <1>6 DEF RecordRun

\* The close of the sessions.
LEMMA CloseSessionsPreserves ==
  ASSUME ProcessInv, NEW p \in Processes, CloseSessions(p)
  PROVE  ProcessInv'
<1>1. /\ run[p] \in Run /\ RunOK(setting[p], run[p], Recorded(p), p \in facts)
      /\ run[p].pc = "closing_sessions"
      /\ UNCHANGED <<setting, sessions, run_records, facts>>
  BY Current DEF CloseSessions
<1> DEFINE q == [run[p] EXCEPT !.pools = @ \ {"sessions"}]
<1>2. /\ q \in Run /\ ("memory" \in q.pools <=> "memory" \in run[p].pools)
      /\ q.memory = run[p].memory /\ q.sessions = run[p].sessions
      /\ q.error = run[p].error /\ q.stop_reason = run[p].stop_reason
      /\ q.tier = run[p].tier /\ q.match = run[p].match /\ q.target = run[p].target
  BY <1>1 DEF Run
<1>3. PICK r \in {[q EXCEPT !.pc = "printed"], Crashed(q, "database")} :
        run' = [run EXCEPT ![p] = r]
  BY DEF CloseSessions, Goes
<1> HIDE DEF q
<1>4. /\ r \in Run /\ r.pools = q.pools /\ r.memory = q.memory /\ r.sessions = q.sessions
      /\ r.stop_reason = q.stop_reason /\ r.tier = q.tier /\ r.match = q.match
      /\ r.target = q.target
      /\ \/ r.pc = "printed" /\ r.error = q.error
         \/ r.pc = "crashed" /\ r.error = "database"
  <2>1. CASE r = [q EXCEPT !.pc = "printed"]
    BY <1>2, <2>1 DEF Run, Ended
  <2>2. CASE r = Crashed(q, "database")
    BY <1>2, <2>2 DEF Crashed, Run, Ended
  <2>3. QED
    BY <1>3, <2>1, <2>2
<1>5. RunOK(setting[p], r, Recorded(p), p \in facts)
  BY <1>1, <1>2, <1>4 DEF RunOK, StartOK, EndOK, TurnOK, BeforeTurn, BeforeTurnEnds, Ended
<1>6. QED
  BY <1>1, <1>2, <1>3, <1>4, <1>5, Moves DEF ProcessInv, TypeOK

\* What is broken off may have taken effect in the database; where the process
\* ends up has to be sound either way.
LEMMA BrokenOffIsSound ==
  ASSUME ProcessInv, NEW p \in Processes, run[p].pc \notin Ended, NEW r \in Run,
         run' = [run EXCEPT ![p] = r], BrokenOff(p),
         r.pc # "killed" => r.stop_reason = run[p].stop_reason,
         RunOK(setting[p], r, Recorded(p), p \in facts'),
         run[p].pc = "recording" => RunOK(setting[p], r, TRUE, p \in facts)
  PROVE  ProcessInv'
<1>1. RunOK(setting[p], run[p], Recorded(p), p \in facts)
  BY Current
<1>2. CASE run[p].pc = "recording" /\ setting[p].session_id \in sessions
           /\ run_records' = Append(run_records, record_of(p))
  <2>1. UNCHANGED <<setting, sessions, facts>>
    BY <1>2 DEF BrokenOff
  <2>2. QED
    BY <1>2, <2>1, Records
<1>3. CASE run_records' = run_records
  <2>1. sessions' \in {sessions, sessions \cup {setting[p].session_id}}
    BY DEF BrokenOff
  <2>2. sessions \subseteq sessions' /\ sessions' \subseteq Sessions
    BY <2>1, Current DEF ProcessInv, TypeOK
  <2>3. facts' = facts \/ (facts' = facts \cup {p} /\ ~ Recorded(p))
    BY <1>1 DEF BrokenOff, RunOK, StartOK, BeforeTurn, BeforeTurnEnds
  <2>4. UNCHANGED <<setting, run_records>>
    BY <1>3 DEF BrokenOff
  <2>5. run[p].pc # "killed"
    BY DEF Ended
  <2>6. QED
    BY <2>2, <2>3, <2>4, <2>5, Moves
<1>4. QED
  BY <1>2, <1>3 DEF BrokenOff

\* Ctrl-C.
LEMMA InterruptPreserves ==
  ASSUME ProcessInv, NEW p \in Processes, Interrupt(p)
  PROVE  ProcessInv'
<1>1. /\ run[p] \in Run /\ RunOK(setting[p], run[p], Recorded(p), p \in facts)
      /\ run[p].pc \notin Ended /\ BrokenOff(p)
  BY Current DEF Interrupt
<1> DEFINE q == [run[p] EXCEPT !.error = "interrupt"]
           closing == CASE q.pc = "closing_memory" -> {"memory"}
                        [] q.pc = "closing_sessions" -> {"sessions"}
                        [] OTHER -> {}
           r == [q EXCEPT !.pc = "crashed", !.pools = @ \ closing]
<1>2. /\ q \in Run /\ q.error = "interrupt" /\ q.pools = run[p].pools /\ q.pc = run[p].pc
      /\ q.memory = run[p].memory /\ q.sessions = run[p].sessions
      /\ q.stop_reason = run[p].stop_reason
      /\ q.tier = run[p].tier /\ q.match = run[p].match /\ q.target = run[p].target
  BY <1>1 DEF Run
<1>3. CASE run[p].pc \in {"routing", "triaging", "flow"}
  <2>1. run' = [run EXCEPT ![p] = LeaveTry(q)]
    BY <1>2, <1>3 DEF Interrupt, Goes
  <2>2. /\ UNCHANGED <<setting, sessions, run_records>>
        /\ facts' = facts \/ (facts' = facts \cup {p} /\ LeavesFacts(p))
    BY <1>1, <1>3 DEF BrokenOff
  <2>3. QED
    BY <1>3, <2>1, <2>2, RaisesIsSound
<1>4. CASE run[p].pc \notin {"routing", "triaging", "flow"}
  <2>1. run' = [run EXCEPT ![p] = r]
    BY <1>2, <1>4 DEF Interrupt, Goes
  <2>2. /\ closing \in SUBSET {"memory", "sessions"}
        /\ run[p].pc = "closing_memory" => "memory" \in closing
    BY <1>2
  <2> HIDE DEF q, closing
  <2>3. /\ r \in Run /\ r.pc = "crashed" /\ r.error = "interrupt"
        /\ r.pools = run[p].pools \ closing
        /\ r.memory = run[p].memory /\ r.sessions = run[p].sessions
        /\ r.stop_reason = run[p].stop_reason
        /\ r.tier = run[p].tier /\ r.match = run[p].match /\ r.target = run[p].target
    BY <1>2, <2>2 DEF Run, Ended
  <2> HIDE DEF r
  <2>4. facts' = facts
    BY <1>1, <1>4 DEF BrokenOff
  <2>5. run[p].pc \in {"recording", "closing_memory", "closing_sessions",
                       "connecting_memory", "connecting_sessions", "ensuring"}
    BY <1>1, <1>4 DEF Run
  <2>6. ASSUME NEW recorded
        PROVE  RunOK(setting[p], r, recorded, p \in facts)
    BY <1>1, <2>2, <2>3, <2>5
       DEF RunOK, StartOK, EndOK, TurnOK, BeforeTurn, BeforeTurnEnds, Ended
  <2>7. RunOK(setting[p], r, Recorded(p), p \in facts') /\ RunOK(setting[p], r, TRUE, p \in facts)
    BY <2>4, <2>6
  <2>8. QED
    BY <1>1, <2>1, <2>3, <2>7, BrokenOffIsSound
<1>5. QED
  BY <1>3, <1>4

\* SIGKILL, or the end of the machine.
LEMMA KillPreserves ==
  ASSUME ProcessInv, NEW p \in Processes, Kill(p)
  PROVE  ProcessInv'
<1> DEFINE r == [Fresh EXCEPT !.pc = "killed"]
<1>1. /\ run[p] \in Run /\ RunOK(setting[p], run[p], Recorded(p), p \in facts)
      /\ run[p].pc \notin Ended /\ BrokenOff(p) /\ run' = [run EXCEPT ![p] = r]
  BY Current DEF Kill
<1>2. /\ r \in Run /\ r.pc = "killed" /\ r.pools = {} /\ r.memory = "unset"
      /\ r.stop_reason = "none" /\ r.error = "none" /\ r.tier = 0
  BY DEF Fresh, Run, Ended, TurnReasons
<1> HIDE DEF r
<1>3. p \in facts' => setting[p].memory_on
  BY <1>1 DEF BrokenOff, LeavesFacts, RunOK, TurnOK
<1>4. p \in facts => setting[p].memory_on
  BY <1>1 DEF RunOK, TurnOK
<1>5. RunOK(setting[p], r, Recorded(p), p \in facts') /\ RunOK(setting[p], r, TRUE, p \in facts)
  BY <1>2, <1>3, <1>4 DEF RunOK, StartOK, EndOK, TurnOK, BeforeTurn, BeforeTurnEnds, Ended
<1>6. QED
  BY <1>1, <1>2, <1>5, BrokenOffIsSound

-----------------------------------------------------------------------------
\* Processes that have not started, over empty tables, satisfy the invariant.
LEMMA InitEstablishes == Init => ProcessInv
<1> SUFFICES ASSUME Init PROVE ProcessInv
  OBVIOUS
<1>1. /\ Fresh \in Run /\ Fresh.pc = "connecting_memory" /\ Fresh.pools = {}
      /\ Fresh.error = "none" /\ Fresh.stop_reason = "none" /\ Fresh.tier = 0
      /\ Fresh.match = "unset"
  BY DEF Fresh, Run, TurnReasons
<1>2. run_records \in Seq(RunRecord) /\ DOMAIN run_records = {}
  BY DEF Init
<1>3. TypeOK
  BY <1>1, <1>2 DEF Init, TypeOK
<1>4. ASSUME NEW p \in Processes PROVE RunOK(setting[p], run[p], Recorded(p), p \in facts)
  <2>1. run[p] = Fresh /\ p \notin facts /\ ~ Recorded(p)
    BY <1>2 DEF Init, Recorded
  <2>2. QED
    BY <1>1, <2>1 DEF RunOK, StartOK, EndOK, TurnOK, BeforeTurn, BeforeTurnEnds, Ended
<1>5. QED
  BY <1>2, <1>3, <1>4 DEF ProcessInv, RecordsOK

\* Every action preserves the invariant.
LEMMA NextPreserves == ProcessInv /\ [Next]_vars => ProcessInv'
<1> SUFFICES ASSUME ProcessInv, [Next]_vars PROVE ProcessInv'
  OBVIOUS
<1>1. ASSUME NEW p \in Processes, Step(p) PROVE ProcessInv'
  BY <1>1, ConnectMemoryPreserves, ConnectSessionsPreserves, EnsureSessionPreserves,
     RoutePreserves, TriagePreserves, FlowEndsPreserves, CloseMemoryPreserves,
     RecordRunPreserves, CloseSessionsPreserves DEF Step
<1>2. ASSUME NEW p \in Processes, Interrupt(p) \/ Kill(p) PROVE ProcessInv'
  BY <1>2, InterruptPreserves, KillPreserves
<1>3. CASE UNCHANGED vars
  BY <1>3 DEF vars, ProcessInv, TypeOK, RunOK, StartOK, EndOK, TurnOK, Recorded,
              RecordsOK, RowOK
<1>4. QED
  BY <1>1, <1>2, <1>3 DEF Next

\* The inductive invariant holds throughout.
LEMMA Invariance == Spec => []ProcessInv
  BY InitEstablishes, NextPreserves, PTL DEF Spec

-----------------------------------------------------------------------------
\* Settings, coroutines and tables keep their shape.
THEOREM TypeCorrect == Spec => []TypeOK
<1>1. ProcessInv => TypeOK
  BY DEF ProcessInv
<1>2. QED
  BY <1>1, Invariance, PTL

\* Rows of one process are one row at most.
LEMMA OneRowEach ==
  ASSUME ProcessInv, NEW p \in Processes
  PROVE  Cardinality(Rows(p)) <= 1
<1>1. CASE Rows(p) = {}
  BY <1>1, FS_EmptySet
<1>2. ASSUME NEW i \in Rows(p) PROVE Cardinality(Rows(p)) <= 1
  <2>1. Rows(p) = {i}
    BY <1>2 DEF ProcessInv, RecordsOK, Rows
  <2>2. QED
    BY <2>1, FS_Singleton
<1>3. QED
  BY <1>1, <1>2

\* The run_records of cli.py and core/session.py can be relied on: one row a
\* turn at most, true, of a session on record, and there for whatever was
\* printed with the sessions connected; whatever fails and whoever is killed.
THEOREM LedgerIsAudited == Spec => []LedgerIsTruthful
<1>1. ASSUME ProcessInv, NEW p \in Processes
      PROVE  /\ Cardinality(Rows(p)) <= 1
             /\ run[p].pc = "printed" /\ run[p].sessions = "postgres" => Rows(p) # {}
             /\ \A i \in Rows(p) :
                  /\ run_records[i].session_id = setting[p].session_id
                  /\ run_records[i].session_id \in sessions
                  /\ run[p].pc # "killed" => run_records[i].stop_reason = run[p].stop_reason
                  /\ run_records[i].success <=>
                       run_records[i].stop_reason \in {"success", "direct_answer"}
  <2>1. Cardinality(Rows(p)) <= 1
    BY <1>1, OneRowEach
  <2>2. run[p].pc = "printed" /\ run[p].sessions = "postgres" => Rows(p) # {}
    BY <1>1, Current DEF RunOK, EndOK, Recorded, Rows
  <2>3. ASSUME NEW i \in Rows(p) PROVE RowOK(run_records[i]) /\ run_records[i].by = p
    BY <1>1, RowsAreSound DEF Rows
  <2>4. QED
    BY <2>1, <2>2, <2>3 DEF RowOK
<1>2. ProcessInv => LedgerIsTruthful
  BY <1>1 DEF LedgerIsTruthful
<1>3. QED
  BY <1>2, Invariance, PTL

\* The two tables agree: facts are remembered of turns that succeeded only, as
\* far as run_records tells, and of none with memory ablated or unreachable.
THEOREM TablesAgree == Spec => []FactsMatchTheRecord
<1>1. ASSUME ProcessInv, NEW p \in facts
      PROVE  /\ setting[p].memory_on /\ run[p].memory # "null"
             /\ \A i \in Rows(p) : run_records[i].stop_reason = "success"
             /\ run[p].pc = "printed" => run[p].stop_reason = "success"
  <2>1. p \in Processes
    BY <1>1 DEF ProcessInv, TypeOK
  <2>2. RunOK(setting[p], run[p], Recorded(p), p \in facts)
    BY <1>1, <2>1, Current
  <2>3. ASSUME NEW i \in Rows(p) PROVE run_records[i].stop_reason = "success"
    BY <1>1, RowsAreSound DEF Rows, RowOK
  <2>4. QED
    BY <2>2, <2>3 DEF RunOK, EndOK, TurnOK
<1>2. ProcessInv => FactsMatchTheRecord
  BY <1>1 DEF FactsMatchTheRecord
<1>3. QED
  BY <1>2, Invariance, PTL

\* The router of cli.py keeps to its cap, for any routes and any triage; and
\* what tier 1 matches with nothing it sends to single_agent, with the triage
\* ablated or failing.
THEOREM EscalationKeepsToItsCap == Spec => []EscalationIsCapped
<1>1. ProcessInv => EscalationIsCapped
  BY DEF ProcessInv, RunOK, TurnOK, EscalationIsCapped
<1>2. QED
  BY <1>1, Invariance, PTL

\* Whatever tier 1 decides, or falls back on, is a flow that is registered.
THEOREM OnlyATriageMissesAFlow == Spec => []RoutesAreServed
<1>1. ProcessInv => RoutesAreServed
  BY DEF ProcessInv, RunOK, TurnOK, RoutesAreServed
<1>2. QED
  BY <1>1, Invariance, PTL

\* The finally of cli.py leaves no pool of memory open after a turn that has
\* begun, whatever tier 1, the flow, the close or Ctrl-C do to it.
THEOREM FinallyClosesMemory == Spec => []MemoryPoolIsClosed
<1>1. ProcessInv => MemoryPoolIsClosed
  BY DEF ProcessInv, RunOK, EndOK, MemoryPoolIsClosed
<1>2. QED
  BY <1>1, Invariance, PTL

\* A database that was never reached does not fail a process.
THEOREM NullStoresSuffice == Spec => []UnreachableIsSurvived
<1>1. ProcessInv => UnreachableIsSurvived
  BY DEF ProcessInv, RunOK, EndOK, UnreachableIsSurvived
<1>2. QED
  BY <1>1, Invariance, PTL

-----------------------------------------------------------------------------
(* How far a process has come. ProcessEnds needs fairness and stays with   *)
(* TLC; that no process can go on for ever needs none.                     *)

Depth(pc) ==
  CASE pc = "connecting_memory" -> 0   [] pc = "connecting_sessions" -> 1
    [] pc = "ensuring" -> 2            [] pc = "routing" -> 3
    [] pc = "triaging" -> 4            [] pc = "flow" -> 5
    [] pc = "closing_memory" -> 6      [] pc = "recording" -> 7
    [] pc = "closing_sessions" -> 8    [] OTHER -> 9

\* A step takes one process to a later await, or to its end, and no other
\* process anywhere: nothing is awaited twice, so that no failure is retried
\* and each process ends within nine steps.
ProcessAdvances ==
  \E p \in Processes :
    /\ run[p].pc \notin Ended /\ Depth(run'[p].pc) > Depth(run[p].pc)
    /\ \A q \in Processes \ {p} : run'[q] = run[q]

\* An end is nine deep, at most.
LEMMA DepthIsANumber == \A pc : Depth(pc) \in 0 .. 9
  BY DEF Depth

\* One process moves, to where the step takes it.
LEMMA Forward ==
  ASSUME TypeOK, NEW p \in Processes, NEW states, Goes(p, states), run[p].pc \notin Ended,
         \A r \in states : Depth(r.pc) > Depth(run[p].pc)
  PROVE  ProcessAdvances
<1>1. PICK r \in states : run' = [run EXCEPT ![p] = r]
  BY DEF Goes
<1>2. run'[p] = r /\ \A q \in Processes \ {p} : run'[q] = run[q]
  BY <1>1 DEF TypeOK
<1>3. QED
  BY <1>2 DEF ProcessAdvances

\* A turn that is over goes through the finally, or past it.
LEMMA TurnIsLeft ==
  ASSUME NEW r, "pc" \in DOMAIN r
  PROVE  Depth(AfterTurn(r).pc) >= 7 /\ Depth(LeaveTry(r).pc) >= 6
  BY DEF Depth, AfterTurn, LeaveTry

\* A crash is an end.
LEMMA CrashIsLast ==
  ASSUME NEW r, "pc" \in DOMAIN r, NEW why
  PROVE  Depth(Crashed(r, why).pc) = 9
  BY DEF Crashed, Depth

\* A decision leads to the flow, or to the end of the turn.
LEMMA DecisionsLeadOn ==
  ASSUME NEW r \in Run, NEW decision
  PROVE  Depth(Dispatched(r, decision).pc) >= 5
<1> DEFINE d == Decided(r, decision)
<1>1. "pc" \in DOMAIN d
  BY DEF Decided, Run
<1> HIDE DEF d
<1>2. ASSUME NEW reason PROVE Depth(Returns(d, reason).pc) >= 5
  <2> DEFINE t == [d EXCEPT !.stop_reason = reason]
  <2>1. "pc" \in DOMAIN t
    BY <1>1
  <2> HIDE DEF t
  <2>2. Depth(LeaveTry(t).pc) >= 6 /\ Depth(LeaveTry(t).pc) \in Nat
    BY <2>1, TurnIsLeft, DepthIsANumber
  <2>3. QED
    BY <2>2 DEF Returns, t
<1>3. Depth([d EXCEPT !.pc = "flow"].pc) >= 5
  BY <1>1 DEF Depth
<1>4. \/ Dispatched(r, decision) = Returns(d, "direct_answer")
      \/ Dispatched(r, decision) = Returns(d, "unknown_flow")
      \/ Dispatched(r, decision) = [d EXCEPT !.pc = "flow"]
  BY DEF Dispatched, d
<1>5. QED
  BY <1>2, <1>3, <1>4

\* The start: connections, the row of the session, and the wiring.
LEMMA StartAdvances ==
  ASSUME TypeOK, NEW p \in Processes,
         ConnectMemory(p) \/ ConnectSessions(p) \/ EnsureSession(p)
  PROVE  ProcessAdvances
<1>1. run[p] \in Run
  BY DEF TypeOK
<1>2. ASSUME NEW q, "pc" \in DOMAIN q, NEW r \in Wired(p, q) PROVE Depth(r.pc) >= 3
  <2> DEFINE routed == [q EXCEPT !.pc = "routing", !.match = "pending"]
  <2>1. routed.pc = "routing" /\ Depth("routing") = 3
    BY <1>2 DEF Depth
  <2>2. r \in {routed, Crashed(q, "encoder"), Crashed(q, "config")}
    BY DEF Wired
  <2> HIDE DEF routed
  <2>3. QED
    BY <1>2, <2>1, <2>2, CrashIsLast
<1>3. CASE ConnectMemory(p)
  <2> DEFINE q == [run[p] EXCEPT !.pc = "connecting_sessions"]
             states == {[q EXCEPT !.memory = "postgres", !.pools = @ \cup {"memory"}],
                        [q EXCEPT !.memory = "null"]}
  <2>1. q \in Run /\ q.pc = "connecting_sessions"
    BY <1>1 DEF Run
  <2> HIDE DEF q
  <2>2. \A r \in states : r.pc = "connecting_sessions"
    BY <2>1 DEF Run
  <2>3. run[p].pc = "connecting_memory" /\ Goes(p, states)
    BY <1>3 DEF ConnectMemory, q
  <2> HIDE DEF states
  <2>4. QED
    BY <2>2, <2>3, Forward DEF Depth, Ended
<1>4. CASE ConnectSessions(p)
  <2> DEFINE open == [run[p] EXCEPT !.sessions = "postgres", !.pools = @ \cup {"sessions"}]
             null == [run[p] EXCEPT !.sessions = "null"]
             states == {[open EXCEPT !.pc = "ensuring"]} \cup Wired(p, null)
  <2>1. "pc" \in DOMAIN open /\ "pc" \in DOMAIN null
    BY <1>1 DEF Run
  <2>2. run[p].pc = "connecting_sessions" /\ Goes(p, states)
    BY <1>4 DEF ConnectSessions
  <2> HIDE DEF open, null
  <2>3. [open EXCEPT !.pc = "ensuring"].pc = "ensuring"
    BY <2>1
  <2>4. \A r \in states : Depth(r.pc) > 1
    <3>1. \A r \in Wired(p, null) : Depth(r.pc) > 1
      BY <1>2, <2>1, DepthIsANumber
    <3>2. Depth("ensuring") > 1
      BY DEF Depth
    <3>3. QED
      BY <2>3, <3>1, <3>2
  <2> HIDE DEF states
  <2>5. Depth("connecting_sessions") = 1 /\ "connecting_sessions" \notin Ended
    BY DEF Depth, Ended
  <2>6. QED
    BY <2>2, <2>4, <2>5, Forward
<1>5. CASE EnsureSession(p)
  <2> DEFINE crash == {Crashed(run[p], "database")}
  <2>1. run[p].pc = "ensuring" /\ (Goes(p, Wired(p, run[p])) \/ Goes(p, crash))
    BY <1>5 DEF EnsureSession
  <2>2. \A r \in crash : Depth(r.pc) > 2
    <3>1. "pc" \in DOMAIN run[p]
      BY <1>1 DEF Run
    <3>2. QED
      BY <3>1, CrashIsLast
  <2>3. \A r \in Wired(p, run[p]) : Depth(r.pc) > 2
    <3>1. "pc" \in DOMAIN run[p]
      BY <1>1 DEF Run
    <3>2. QED
      BY <1>2, <3>1, DepthIsANumber
  <2>4. Depth("ensuring") = 2 /\ "ensuring" \notin Ended
    BY DEF Depth, Ended
  <2> HIDE DEF crash
  <2>5. QED
    BY <2>1, <2>2, <2>3, <2>4, Forward
<1>6. QED
  BY <1>3, <1>4, <1>5

\* The turn: tier 1, the triage and the flow, and whatever they raise.
LEMMA TurnAdvances ==
  ASSUME TypeOK, NEW p \in Processes, Route(p) \/ Triage(p) \/ FlowEnds(p)
  PROVE  ProcessAdvances
<1>1. run[p] \in Run /\ "pc" \in DOMAIN run[p]
  BY DEF TypeOK, Run
<1>2. ASSUME NEW r, "pc" \in DOMAIN r, NEW reason
      PROVE  Depth(Raises(r).pc) > 5 /\ Depth(Returns(r, reason).pc) > 5
  <2> DEFINE t == [r EXCEPT !.error = "turn"]
             u == [r EXCEPT !.stop_reason = reason]
  <2>1. "pc" \in DOMAIN t /\ "pc" \in DOMAIN u
    BY <1>2
  <2> HIDE DEF t, u
  <2>2. Depth(LeaveTry(t).pc) > 5 /\ Depth(LeaveTry(u).pc) > 5
    BY <2>1, TurnIsLeft, DepthIsANumber
  <2>3. QED
    BY <2>2 DEF Raises, Returns, t, u
<1>3. /\ Depth("routing") = 3 /\ Depth("triaging") = 4 /\ Depth("flow") = 5
      /\ {"routing", "triaging", "flow"} \cap Ended = {}
  BY DEF Depth, Ended
<1>4. ASSUME NEW n \in Nat, NEW r, Depth(r.pc) > 5 \/ Depth(r.pc) >= 5, n < 5
      PROVE  Depth(r.pc) > n
  BY <1>4, DepthIsANumber
<1>5. CASE Route(p)
  <2>1. run[p].pc = "routing"
    BY <1>5 DEF Route
  <2>2. CASE Goes(p, {Raises(run[p])})
    <3>1. \A r \in {Raises(run[p])} : Depth(r.pc) > 3
      BY <1>1, <1>2, <1>4
    <3>2. QED
      BY <1>3, <2>1, <2>2, <3>1, Forward
  <2>3. ASSUME NEW choice \in RouteChoice, NEW r, r = [run[p] EXCEPT !.choice = choice],
               Goes(p, {[r EXCEPT !.pc = "triaging"]}) \/ Goes(p, {Dispatched(r, BestGuess(choice))})
        PROVE  ProcessAdvances
    <3>1. r \in Run
      BY <1>1, <2>3 DEF Run
    <3>2. Depth([r EXCEPT !.pc = "triaging"].pc) > 3
      BY <1>3, <3>1 DEF Run
    <3>3. Depth(Dispatched(r, BestGuess(choice)).pc) > 3
      BY <1>4, <3>1, DecisionsLeadOn
    <3> DEFINE asked == {[r EXCEPT !.pc = "triaging"]}
               decided == {Dispatched(r, BestGuess(choice))}
    <3>4. (\A t \in asked : Depth(t.pc) > 3) /\ \A t \in decided : Depth(t.pc) > 3
      BY <3>2, <3>3
    <3>5. Goes(p, asked) \/ Goes(p, decided)
      BY <2>3
    <3> HIDE DEF asked, decided
    <3>6. QED
      BY <1>3, <2>1, <3>4, <3>5, Forward
  <2>4. QED
    BY <1>5, <2>2, <2>3 DEF Route
<1>6. CASE Triage(p)
  <2>1. PICK decision : Goes(p, {Dispatched(run[p], decision)})
    BY <1>6 DEF Triage
  <2>2. \A r \in {Dispatched(run[p], decision)} : Depth(r.pc) > 4
    BY <1>1, <1>4, DecisionsLeadOn
  <2>3. QED
    BY <1>3, <1>6, <2>1, <2>2, Forward DEF Triage
<1>7. CASE FlowEnds(p)
  <2>1. PICK reason : Goes(p, {FlowResult(run[p], reason)})
    BY <1>7 DEF FlowEnds
  <2>2. \A r \in {FlowResult(run[p], reason)} : Depth(r.pc) > 5
    BY <1>1, <1>2 DEF FlowResult
  <2>3. QED
    BY <1>3, <1>7, <2>1, <2>2, Forward DEF FlowEnds
<1>8. QED
  BY <1>5, <1>6, <1>7

\* After the turn: the closes and the record.
LEMMA EndAdvances ==
  ASSUME TypeOK, NEW p \in Processes, CloseMemory(p) \/ RecordRun(p) \/ CloseSessions(p)
  PROVE  ProcessAdvances
<1>1. run[p] \in Run
  BY DEF TypeOK
<1>2. /\ Depth("closing_memory") = 6 /\ Depth("recording") = 7
      /\ Depth("closing_sessions") = 8 /\ Depth("printed") = 9
      /\ {"closing_memory", "recording", "closing_sessions"} \cap Ended = {}
  BY DEF Depth, Ended
<1>3. CASE CloseMemory(p)
  <2> DEFINE r == [run[p] EXCEPT !.pools = @ \ {"memory"}]
             states == {AfterTurn(r), Crashed(r, "database")}
  <2>1. "pc" \in DOMAIN r
    BY <1>1 DEF Run
  <2>2. run[p].pc = "closing_memory" /\ Goes(p, states)
    BY <1>3 DEF CloseMemory
  <2> HIDE DEF r
  <2>3. Depth(AfterTurn(r).pc) > 6 /\ Depth(Crashed(r, "database").pc) > 6
    BY <2>1, TurnIsLeft, CrashIsLast, DepthIsANumber
  <2>4. \A t \in states : Depth(t.pc) > 6
    BY <2>3
  <2> HIDE DEF states
  <2>5. QED
    BY <1>2, <2>2, <2>4, Forward
<1>4. CASE RecordRun(p)
  <2> DEFINE closing == [run[p] EXCEPT !.pc = "closing_sessions"]
             crash == Crashed(run[p], "database")
  <2>1. closing.pc = "closing_sessions" /\ Depth(crash.pc) = 9
    <3>1. "pc" \in DOMAIN run[p]
      BY <1>1 DEF Run
    <3>2. QED
      BY <3>1, CrashIsLast
  <2>2. run[p].pc = "recording" /\ (Goes(p, {closing, crash}) \/ Goes(p, {crash}))
    BY <1>4 DEF RecordRun
  <2> HIDE DEF closing, crash
  <2>3. \A t \in {closing, crash} : Depth(t.pc) > 7
    BY <1>2, <2>1
  <2>4. \A t \in {crash} : Depth(t.pc) > 7
    BY <2>1
  <2>5. QED
    BY <1>2, <2>2, <2>3, <2>4, Forward
<1>5. CASE CloseSessions(p)
  <2> DEFINE r == [run[p] EXCEPT !.pools = @ \ {"sessions"}]
             states == {[r EXCEPT !.pc = "printed"], Crashed(r, "database")}
  <2>1. "pc" \in DOMAIN r
    BY <1>1 DEF Run
  <2>2. run[p].pc = "closing_sessions" /\ Goes(p, states)
    BY <1>5 DEF CloseSessions
  <2> HIDE DEF r
  <2>3. [r EXCEPT !.pc = "printed"].pc = "printed" /\ Depth(Crashed(r, "database").pc) = 9
    BY <2>1, CrashIsLast
  <2>4. \A t \in states : Depth(t.pc) > 8
    <3>1. ASSUME NEW t, t = [r EXCEPT !.pc = "printed"] PROVE Depth(t.pc) > 8
      BY <1>2, <2>3, <3>1
    <3>2. Depth(Crashed(r, "database").pc) > 8
      BY <2>3
    <3>3. QED
      BY <3>1, <3>2
  <2> HIDE DEF states
  <2>5. QED
    BY <1>2, <2>2, <2>4, Forward
<1>6. QED
  BY <1>3, <1>4, <1>5

\* Ctrl-C and kill: the first may still go through the finally.
LEMMA ForceAdvances ==
  ASSUME TypeOK, NEW p \in Processes, Interrupt(p) \/ Kill(p)
  PROVE  ProcessAdvances
<1>1. run[p] \in Run /\ run[p].pc \notin Ended
  BY DEF TypeOK, Interrupt, Kill
<1>2. Depth(run[p].pc) < 9 /\ (run[p].pc \in {"routing", "triaging", "flow"} => Depth(run[p].pc) <= 5)
  BY <1>1 DEF Run, Depth, Ended
<1>3. CASE Kill(p)
  <2> DEFINE killed == {[Fresh EXCEPT !.pc = "killed"]}
  <2>1. Goes(p, killed)
    BY <1>3 DEF Kill, Goes
  <2>2. \A r \in killed : Depth(r.pc) = 9
    BY DEF Fresh, Depth
  <2> HIDE DEF killed
  <2>3. \A r \in killed : Depth(r.pc) > Depth(run[p].pc)
    BY <1>2, <2>2, DepthIsANumber
  <2>4. QED
    BY <1>1, <2>1, <2>3, Forward
<1>4. CASE Interrupt(p)
  <2> DEFINE r == [run[p] EXCEPT !.error = "interrupt"]
             closing == CASE r.pc = "closing_memory" -> {"memory"}
                          [] r.pc = "closing_sessions" -> {"sessions"}
                          [] OTHER -> {}
             crash == [r EXCEPT !.pc = "crashed", !.pools = @ \ closing]
             t == IF r.pc \in {"routing", "triaging", "flow"} THEN LeaveTry(r) ELSE crash
  <2>1. Goes(p, {t})
    BY <1>4 DEF Interrupt
  <2>2. "pc" \in DOMAIN r /\ r.pc = run[p].pc
    BY <1>1 DEF Run
  <2> HIDE DEF r, closing
  <2>3. Depth(crash.pc) = 9
    BY <2>2 DEF Depth
  <2>4. Depth(LeaveTry(r).pc) > 5
    BY <2>2, TurnIsLeft, DepthIsANumber
  <2>5. Depth(t.pc) > Depth(run[p].pc)
    <3>1. CASE r.pc \in {"routing", "triaging", "flow"}
      <4>1. t = LeaveTry(r)
        BY <3>1
      <4> HIDE DEF t
      <4>2. QED
        BY <1>2, <2>2, <2>4, <3>1, <4>1, DepthIsANumber
    <3>2. CASE r.pc \notin {"routing", "triaging", "flow"}
      <4>1. t = crash
        BY <3>2
      <4> HIDE DEF t, crash
      <4>2. QED
        BY <1>2, <2>3, <4>1
    <3>3. QED
      BY <3>1, <3>2
  <2> HIDE DEF t
  <2>6. \A u \in {t} : Depth(u.pc) > Depth(run[p].pc)
    BY <2>5
  <2>7. QED
    BY <1>1, <2>1, <2>6, Forward
<1>5. QED
  BY <1>3, <1>4

\* No failure is retried, and no process goes on for ever, whatever the
\* database, the flow or the operator do to it.
THEOREM NothingIsAwaitedTwice == Spec => [][ProcessAdvances]_vars
<1>1. ProcessInv /\ [Next]_vars => ProcessAdvances \/ UNCHANGED vars
  BY StartAdvances, TurnAdvances, EndAdvances, ForceAdvances DEF ProcessInv, Next, Step
<1>2. QED
  BY <1>1, Invariance, PTL DEF Spec
=============================================================================
