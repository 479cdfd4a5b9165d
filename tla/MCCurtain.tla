------------------------------ MODULE MCCurtain ------------------------------
(***************************************************************************)
(* A curtain for TLC: a control word, an independent target and a position *)
(* with a value at each end and two between, reported one or two at a time *)
(* on any channel.  It has no converter, increments or device settings.    *)
(***************************************************************************)
EXTENDS Driver

Positions == {0, 40, 60, 100}
MCCodes == {"control", "percent_control", "percent_state"}
MCTables == [control : {"open", "stop", "close", None},
             percent_control : Positions \cup {None},
             percent_state : Positions \cup {None}]
MCReports == {f \in MCTables : \E c \in MCCodes : f[c] = None}

MCPlanProps == {"position"}
MCDepends == [p \in MCPlanProps |-> {"percent_state"}]
MCReading(p, f) == f["percent_state"]
NoMachine == {[state |-> "s", values |-> <<>>, timers |-> <<>>, sends |-> FALSE]}
MCStates == {"s"}
NoFunction == <<>>
==============================================================================
