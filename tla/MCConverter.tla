---------------------------- MODULE MCConverter -----------------------------
(***************************************************************************)
(* A device for TLC with a declarative converter: a property and a timer   *)
(* of its own, next to a plan property of one code, a plan property of two *)
(* codes, and an event property.                                           *)
(***************************************************************************)
EXTENDS Driver

MCCodes == {"switch_1", "alarm_message"}
MCTables == [switch_1 : {"true", "false", None}, alarm_message : {"ring", "clear", None}]

MCPlanProps == {"switch", "alarm"}
MCDepends == [p \in MCPlanProps |-> IF p = "switch" THEN {"switch_1"} ELSE MCCodes]
MCReading(p, f) ==
  IF p = "switch" \/ f["switch_1"] # "true" THEN f["switch_1"] ELSE f["alarm_message"]
MCReadings == {"true", "false", "ring", "clear"}

MCEventProps == {"doorbell"}
MCEventCode == [p \in MCEventProps |-> "alarm_message"]
MCFires == [p \in MCEventProps |-> {"ring"}]

Runs(state, value, tick, sends) ==
  [state |-> state, values |-> [mode |-> value], timers |-> [tick |-> tick], sends |-> sends]
MCPrograms == {Runs("busy", "busy", "set", TRUE), Runs("idle", "idle", "cancel", FALSE),
               Runs("busy", None, "keep", TRUE), Runs("idle", Unpublished, "keep", FALSE)}
MCMachineProps == {"mode"}
MCMachineTimers == {"tick"}
MCMachineStates == {"idle", "busy"}
NoFunction == <<>>
=============================================================================
