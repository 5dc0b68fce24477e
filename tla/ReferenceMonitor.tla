-------------------------- MODULE ReferenceMonitor --------------------------
(***************************************************************************)
(* What "the registry is the single choke point" promises, with nothing    *)
(* of how it is done: a call acts on at most one object, only on one whose *)
(* class it is cleared for at that moment, and the clearance it acted      *)
(* under stands as long as the act is on record.                           *)
(***************************************************************************)
CONSTANTS Calls, Objects, Classes, ClassOf, Nothing  \* ClassOf \in [Objects -> Classes]

VARIABLES
  cleared,  \* the classes each call is cleared for
  acted     \* the object each call acted on, if any

monitorVars == <<cleared, acted>>

MonitorInit ==
  /\ cleared \in [Calls -> SUBSET Classes]
  /\ acted = [c \in Calls |-> Nothing]

\* A call that has not acted may have its clearance decided, and act under it.
Decide(c) ==
  /\ acted[c] = Nothing
  /\ \E granted \in SUBSET Classes :
       /\ cleared' = [cleared EXCEPT ![c] = granted]
       /\ \/ UNCHANGED acted
          \/ \E o \in Objects : /\ ClassOf[o] \in granted
                                /\ acted' = [acted EXCEPT ![c] = o]

\* The record of a call is closed, and its place taken by a new call.
Renew(c) ==
  /\ \E granted \in SUBSET Classes : cleared' = [cleared EXCEPT ![c] = granted]
  /\ acted' = [acted EXCEPT ![c] = Nothing]

MonitorNext == \E c \in Calls : Decide(c) \/ Renew(c)

MonitorSpec == MonitorInit /\ [][MonitorNext]_monitorVars
=============================================================================
