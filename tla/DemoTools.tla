----------------------------- MODULE DemoTools -----------------------------
(***************************************************************************)
(* tools/demo_tools.py: the specs every caller in the repository registers *)
(* before it starts a run. A spec is identified by its name here, because  *)
(* each name is registered once.                                           *)
(***************************************************************************)

DemoSpecs == {"get_current_time", "echo", "account_lookup", "meeting_history"}

DemoTier == [s \in DemoSpecs |-> IF s = "account_lookup" THEN "financial" ELSE "read_only"]

DemoFlows == [s \in DemoSpecs |-> IF s \in {"account_lookup", "meeting_history"}
                                    THEN {"orchestrator"} ELSE {}]

DemoName == [s \in DemoSpecs |-> s]
=============================================================================
