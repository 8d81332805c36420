------------------------------- MODULE WireRuns -------------------------------
(***************************************************************************)
(* WireLzApp, with what became of the last run of the wire task.  A run    *)
(* reads everything first and then sends what differs; it is complete when *)
(* all that it computed was sent, and stays so until LayerZero changes a   *)
(* default.                                                                *)
(***************************************************************************)
EXTENDS WireLzApp

VARIABLE
  run   \* "begun", "complete", or "broken": it failed, or read other defaults

runs_vars == <<vars, run>>

RunsInit == Init /\ run = "broken"

TrackedConfigure == Configure /\ run' = "begun"

TrackedSendTx(a) ==
  /\ SendTx(a)
  /\ run' = IF run = "begun" /\ \A b \in Apps : pending'[b] = <<>> THEN "complete" ELSE run

TrackedBreak ==
  /\ \/ \E a \in Apps : SendFails(a)
     \/ Killed
     \/ \E key \in DefaultKeys, value \in Libraries \cup Values : NewDefault(key, value)
  /\ run' = "broken"

RunsNext ==
  \/ TrackedConfigure
  \/ \E a \in Apps : TrackedSendTx(a)
  \/ TrackedBreak

RunsSpec == RunsInit /\ [][RunsNext]_runs_vars

FairRunsSpec == RunsSpec /\ WF_vars(Configure) /\ \A a \in Apps : WF_vars(SendTx(a))

-------------------------------------------------------------------------------
(* One complete run is enough, whatever the runs before it sent or failed to
   send, and whatever order the chains execute its transactions in: none of
   them undoes what the run read and found right, or what another one of it
   sends. *)
CompleteRunWires == run = "complete" => AllWired
===============================================================================
