------------------------------- MODULE Meter --------------------------------
(***************************************************************************)
(* What a delta property promises (docs/device-customization.md, "Delta    *)
(* settings"): a running total to which every report adds its increment at *)
(* most once, which nothing else changes, and which starts over with a     *)
(* driver that takes nothing over from the one before.                     *)
(***************************************************************************)
EXTENDS Integers

CONSTANTS
  Ids,    \* the reports of increments
  Inc(_)  \* the increment a report carries

VARIABLES
  counted, \* the reports added since the total started
  total    \* the running total

vars == <<counted, total>>

Init == counted = {} /\ total = 0

Add(id) ==
  /\ id \in Ids \ counted
  /\ counted' = counted \cup {id}
  /\ total' = total + Inc(id)

StartOver == counted' = {} /\ total' = 0

Next == StartOver \/ \E id \in Ids : Add(id)

Spec == Init /\ [][Next]_vars
=============================================================================
