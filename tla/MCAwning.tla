------------------------------ MODULE MCAwning ------------------------------
(***************************************************************************)
(* An awning for TLC that meters its energy: its state is taken from       *)
(* control reports, inverted, it has a position and no independent target, *)
(* a property adds up increments, and its accept_passive setting is a      *)
(* switch next to a second one.                                            *)
(***************************************************************************)
EXTENDS Driver

Positions == {0, 40, 100}
MCCodes == {"control", "percent_state", "add_ele"}
MCTables == [control : {"open", "stop", "close", None},
             percent_state : Positions \cup {None},
             add_ele : {1, None}]
MCReports == {f \in MCTables :
  f["add_ele"] = None \/ (f["control"] = None /\ f["percent_state"] = None)}
MCPlanProps == {"position"}
MCDepends == [p \in MCPlanProps |-> {"percent_state"}]
MCReading(p, f) == f["percent_state"]
MCDeltaProps == {"energy"}
MCDeltaCode == [p \in MCDeltaProps |-> "add_ele"]
MCSwitches == {"accept_passive", "cover_invert_control"}
MCDefaults == [p \in MCSwitches |-> FALSE]
NoMachine == {[state |-> "s", values |-> <<>>, timers |-> <<>>, sends |-> FALSE]}
MCStates == {"s"}
NoFunction == <<>>
=============================================================================
