------------------------------ MODULE Assembly ------------------------------
(***************************************************************************)
(* The properties of a driver: which there are, what they are called, what *)
(* gives them their values and what takes their writes.  Driver::new       *)
(* (driver.rs:105-161) lays entity plans, a converter, motion trackers,    *)
(* device settings and the block's props over each other in one name       *)
(* space.  A step is one plan, one row of a layout, or one later stage.    *)
(*                                                                         *)
(* A name is a sequence of words, joined by underscores in the code: the   *)
(* words of a group, those of a property, a number.  A DP is its code.     *)
(***************************************************************************)
EXTENDS Integers, Sequences, SequencesExt

CONSTANTS
  None,     \* nothing
  Plans,    \* the plans of all DPs, in the order of classification
  Dps,      \* the codes of the device, in the order of their DP IDs
  Writable, \* the codes that can be written
  Deltas,   \* the codes that report increments
  Numbers,  \* the words "1", "2", ... (bound on the suffixes of a name)
  Blocks    \* the blocks and options drivers are made with

Available == <<"available">>
SettingKeys == {"invert_position", "invert_set_position", "invert_control",
                "position_from_target", "state_source", "invert_reported_motion"}
CoverState == <<"cover", "state">>
AcceptPassive == <<"delta", "accept_passive">>

VARIABLES
  stage,    \* what is done next
  block,    \* the override block and the options
  dps,      \* the codes of the device as it is classified
  plans,    \* the places of its plans
  at, row,  \* the place and the row in hand
  prefix,   \* of the names of grouped rows
  props,    \* the descriptor's properties: by whom each is defined, whether it is announced rw
  bindings, \* who gives a property its value and takes its writes, and whether it takes any
  covers,   \* the covers found
  first,    \* the properties and covers of the first classification, once it is done
  taken,    \* the converter's properties
  motions,  \* the property of each cover that has a tracker
  switches  \* the device settings that are properties

names == <<props, bindings, covers>>
cursor == <<plans, at, row, prefix>>
vars == <<stage, block, dps, cursor, names, first, taken, motions, switches>>

Init ==
  /\ stage = "classify"
  /\ block \in Blocks
  /\ dps = ToSet(Dps)
  /\ plans = {} /\ at = 1 /\ row = 1 /\ prefix = <<>>
  /\ props = <<>> /\ bindings = <<>> /\ covers = <<>>
  /\ first = <<>>
  /\ taken = {} /\ motions = <<>> /\ switches = {}

-----------------------------------------------------------------------------
(* assemble: plans become properties.                                      *)

(* The plan of a DP no other plan depends on. *)
UnusedPlan(code) ==
  [id |-> code, key |-> code, needs |-> {code}, codes |-> {code}, exposed |-> TRUE,
   composite |-> FALSE, cover |-> None,
   rows |-> <<[name |-> code, grouped |-> FALSE, of |-> {code}, writable |-> code \in Writable]>>]

(* The plans there can be, by their place: the tables', then one of a DP   *)
(* each.                                                                   *)
Places == 1..(Len(Plans) + Len(Dps))
PlanAt(place) == IF place <= Len(Plans) THEN Plans[place] ELSE UnusedPlan(Dps[place - Len(Plans)])

ASSUME AssemblyAssumption ==
  /\ Plans \in Seq(ToSet(Plans))
  /\ \A plan \in ToSet(Plans) : plan.key \in Seq(STRING) /\ plan.rows \in Seq(ToSet(plan.rows))
  /\ Dps \in Seq(Seq(STRING))
  /\ Numbers \in Seq(STRING)

Classified == {i \in DOMAIN Plans : Plans[i].needs \subseteq dps}

Unused(found) ==
  LET claimed == UNION {Plans[i].codes : i \in {f \in found : Plans[f].exposed}}
  IN  {Len(Plans) + d : d \in {i \in DOMAIN Dps : Dps[i] \notin claimed}}

(* Only the first classification looks for unused DPs. *)
ClassifyFirst ==
  /\ stage = "classify" /\ first = <<>>
  /\ plans' = IF ~block.auto THEN {}
              ELSE Classified \cup (IF block.unused THEN Unused(Classified) ELSE {})
  /\ stage' = "plan"
  /\ UNCHANGED <<block, dps, at, row, prefix, names, first, taken, motions, switches>>

ClassifyAgain ==
  /\ stage = "classify" /\ first # <<>>
  /\ plans' = Classified
  /\ stage' = "plan"
  /\ UNCHANGED <<block, dps, at, row, prefix, names, first, taken, motions, switches>>

(* name: the base, or the base with the least number that makes it free. *)
Numbered(base, i) == IF i = 1 THEN base ELSE Append(base, Numbers[i])
Free(name) == name \notin DOMAIN props /\ name # Available
IsNameFor(name, base) == \E i \in DOMAIN Numbers :
  /\ name = Numbered(base, i) /\ Free(name)
  /\ \A j \in 1..(i - 1) : ~Free(Numbered(base, j))

Numbereds(base) == {Numbered(base, i) : i \in DOMAIN Numbers}

(* The first composite names its properties plainly, and is the device.    *)
IsMain == \A i \in plans : i < at => ~(PlanAt(i).exposed /\ PlanAt(i).composite)

Present(code) == IF code \in dps THEN code ELSE None
CoverFound(p, group) ==
  LET position == Present(p.cover.position)
      target == Present(p.cover.target)
  IN  [prefix |-> group, cur |-> IF position # None THEN position ELSE target,
       setp |-> target, ins |-> Present(p.cover.word)]

OpenPlan ==
  /\ stage = "plan" /\ at \in plans
  /\ LET p == PlanAt(at) IN
     /\ p.exposed
     /\ \E group \in {<<>>} \cup Numbereds(p.key) :
          /\ IF p.composite /\ ~IsMain THEN IsNameFor(group, p.key) ELSE group = <<>>
          /\ prefix' = group
          /\ covers' = IF p.cover = None THEN covers ELSE Append(covers, CoverFound(p, group))
  /\ row' = 1 /\ stage' = "row"
  /\ UNCHANGED <<block, dps, plans, at, props, bindings, first, taken, motions, switches>>

SkipPlan ==
  /\ stage = "plan" /\ at \in Places
  /\ at \in plans => ~PlanAt(at).exposed
  /\ at' = at + 1
  /\ UNCHANGED <<stage, block, dps, plans, row, prefix, names, first, taken, motions, switches>>

Row == PlanAt(at).rows[row]

Over(new, old) ==
  [n \in DOMAIN new \cup DOMAIN old |-> IF n \in DOMAIN new THEN new[n] ELSE old[n]]
Defines(new) == props' = Over(new, props) /\ bindings' = Over(new, bindings)

AddRow ==
  /\ stage = "row" /\ row \in DOMAIN PlanAt(at).rows
  /\ Row.of \cap dps # {}
  /\ LET base == IF Row.grouped THEN prefix \o Row.name ELSE Row.name IN
     \E name \in Numbereds(base) :
       /\ IsNameFor(name, base)
       /\ Defines([n \in {name} |-> [by |-> <<"row", PlanAt(at).id, row>>, rw |-> Row.writable]])
  /\ row' = row + 1
  /\ UNCHANGED <<stage, block, dps, plans, at, prefix, covers, first, taken, motions, switches>>

SkipRow ==
  /\ stage = "row" /\ row \in DOMAIN PlanAt(at).rows
  /\ Row.of \cap dps = {}
  /\ row' = row + 1
  /\ UNCHANGED <<stage, block, dps, plans, at, prefix, names, first, taken, motions, switches>>

ClosePlan ==
  /\ stage = "row" /\ row \notin DOMAIN PlanAt(at).rows
  /\ at' = at + 1 /\ stage' = "plan"
  /\ UNCHANGED <<block, dps, plans, row, prefix, names, first, taken, motions, switches>>

-----------------------------------------------------------------------------
(* Covers and their settings.                                              *)

Settings(c) ==
  IF c.prefix \in DOMAIN block.cover THEN block.cover[c.prefix]
  ELSE [source |-> IF block.deviceSettings THEN "inferred" ELSE None, fromTarget |-> FALSE]

Separate(c) == c.setp # None /\ c.cur # c.setp
CanInfer(c) == c.cur # None /\ (Separate(c) \/ c.ins # None)
Dropped == {c.cur : c \in {d \in ToSet(covers) :
                             Settings(d).fromTarget /\ Separate(d) /\ d.cur # None}}

Assembled == stage = "plan" /\ at \notin Places

(* A cover that shows its target is assembled again without its position. *)
SelectTargets ==
  /\ Assembled /\ first = <<>> /\ Dropped # {}
  /\ first' = [props |-> props, covers |-> covers]
  /\ dps' = dps \ Dropped
  /\ stage' = "classify"
  /\ at' = 1 /\ row' = 1 /\ prefix' = <<>>
  /\ props' = <<>> /\ bindings' = <<>> /\ covers' = <<>>
  /\ UNCHANGED <<block, plans, taken, motions, switches>>

(* check_cover_groups: the groups the block names have to be there. *)
MakeCovers ==
  /\ Assembled /\ (first = <<>> => Dropped = {})
  /\ first' = IF first = <<>> THEN [props |-> props, covers |-> covers] ELSE first
  /\ stage' = IF DOMAIN block.cover \subseteq {<<>>} \cup {c.prefix : c \in ToSet(covers)}
              THEN "declare" ELSE "failed"
  /\ UNCHANGED <<block, dps, cursor, names, taken, motions, switches>>

(* declarative *)
Declare ==
  /\ stage = "declare"
  /\ LET defined == block.converter IN
     IF \E n \in DOMAIN defined : n = Available \/ (defined[n].rw /\ ~defined[n].program)
     THEN stage' = "failed" /\ UNCHANGED <<props, bindings, taken>>
     ELSE /\ stage' = "motions"
          /\ taken' = DOMAIN defined
          /\ Defines([n \in DOMAIN defined |-> [by |-> <<"converter">>, rw |-> defined[n].rw]])
  /\ UNCHANGED <<block, dps, cursor, covers, first, motions, switches>>

(* cover_motions *)
StateName(c) == c.prefix \o CoverState

Usable(c) == CASE Settings(c).source = "control" -> c.ins # None
               [] Settings(c).source = "inferred" -> CanInfer(c)
               [] Settings(c).source = "none" -> c.cur # None
               [] OTHER -> FALSE

Movable == {i \in DOMAIN covers : Usable(covers[i])}
Moving == {i \in DOMAIN covers : StateName(covers[i]) \notin taken /\ Usable(covers[i])}

AddMotions ==
  /\ stage = "motions"
  /\ motions' = [i \in Moving |-> StateName(covers[i])]
  /\ Defines([n \in {StateName(covers[i]) : i \in Moving} |-> [by |-> <<"motion">>, rw |-> FALSE]])
  /\ stage' = "switches"
  /\ UNCHANGED <<block, dps, cursor, covers, first, taken, switches>>

(* config_switches.  Whether the display source can be chosen was decided  *)
(* by the first classification, cover by cover in their order.             *)
ChoiceNow(i) == covers[i].cur # None /\ Separate(covers[i])
Choice(i) == i \in DOMAIN first.covers /\ first.covers[i].cur # None /\ Separate(first.covers[i])
Applies(i, k) ==
  LET c == covers[i] IN
  CASE k = "position_from_target" -> Choice(i)
    [] k = "state_source" -> c.cur # None \/ c.ins # None
    [] k = "invert_reported_motion" -> c.ins # None /\ Settings(c).source = "control"
    [] k = "invert_position" -> c.cur # None
    [] k = "invert_set_position" -> Separate(c)
    [] k = "invert_control" -> c.ins # None /\ c.setp = None

SettingName(i, k) == covers[i].prefix \o <<"cover", k>>

NotOfTables(n) == n \notin DOMAIN bindings \/ bindings[n].by[1] # "row"
Undescribed(n) == n \notin DOMAIN props

Offered == {o \in (DOMAIN covers) \X SettingKeys :
  /\ Applies(o[1], o[2])
  /\ o[2] \in {"state_source", "invert_reported_motion"} => StateName(covers[o[1]]) \notin taken
  /\ Undescribed(SettingName(o[1], o[2]))}

(* delta_config *)
Accumulates == \E n \in DOMAIN bindings :
  bindings[n].by[1] = "row" /\ bindings[n].by[2] \in Deltas

AddSwitches ==
  /\ stage = "switches"
  /\ LET cover == {SettingName(o[1], o[2]) : o \in Offered}
         delta == {n \in {AcceptPassive} : Accumulates /\ Undescribed(n)}
         new == IF block.deviceSettings THEN cover \cup delta ELSE {}
     IN  /\ switches' = new
         /\ props' = Over([n \in new |-> [by |-> <<"setting">>, rw |-> TRUE]], props)
  /\ stage' = "props"
  /\ UNCHANGED <<block, dps, cursor, bindings, covers, first, taken, motions>>

-----------------------------------------------------------------------------
(* patch_descriptor: what the block's props say is laid over all of it.    *)

Patch == block.props
Sourced == {n \in DOMAIN Patch : Patch[n].src # None}
Hidden == {n \in DOMAIN Patch \ Sourced : Patch[n].hide}
ReadOnly == {n \in DOMAIN Patch \ (Sourced \cup Hidden) : Patch[n].rw = FALSE}
SourcedRw(n) == IF Patch[n].rw = None THEN Patch[n].src \in Writable ELSE Patch[n].rw

PatchFails(n) ==
  IF n = Available THEN TRUE
  ELSE IF n \in Sourced
  THEN Patch[n].src \notin dps \/ (SourcedRw(n) /\ Patch[n].src \notin Writable)
  ELSE n \notin DOMAIN props

Patched(table) ==
  [n \in (DOMAIN table \ Hidden) \cup Sourced |->
     IF n \in Sourced THEN [by |-> <<"dp", Patch[n].src>>, rw |-> SourcedRw(n)]
     ELSE [by |-> table[n].by, rw |-> table[n].rw /\ n \notin ReadOnly]]

PatchProps ==
  /\ stage = "props"
  /\ \A n \in DOMAIN Patch : ~PatchFails(n)
  /\ props' = Patched(props)
  /\ bindings' = Patched(bindings)
  /\ switches' = switches \ Hidden
  /\ stage' = "ready"
  /\ UNCHANGED <<block, dps, cursor, covers, first, taken, motions>>

PatchPropsFails ==
  /\ stage = "props"
  /\ \E n \in DOMAIN Patch : PatchFails(n)
  /\ stage' = "failed"
  /\ UNCHANGED <<block, dps, cursor, names, first, taken, motions, switches>>

Next ==
  \/ ClassifyFirst \/ ClassifyAgain \/ OpenPlan \/ SkipPlan \/ AddRow \/ SkipRow \/ ClosePlan
  \/ SelectTargets \/ MakeCovers \/ Declare \/ AddMotions \/ AddSwitches
  \/ PatchProps \/ PatchPropsFails

Spec == Init /\ [][Next]_vars

-----------------------------------------------------------------------------
Ready == stage = "ready"

(* Whatever can set n while the driver runs: its row, DP or converter, a    *)
(* tracker if it is bound to motion (apply_effects asks the binding), the  *)
(* device setting of its name.  handle asks the settings for a write first.*)
Producers(n) == {bindings[m].by : m \in {n} \cap DOMAIN bindings} \cup
                {<<"setting">> : m \in {n} \cap switches}
Consumer(n) == IF n \in switches THEN <<"setting">>
               ELSE IF n \in DOMAIN bindings THEN bindings[n].by ELSE None
Trackers(n) == {i \in DOMAIN motions : motions[i] = n}

(* A DP of the block's props under the name of a device setting gives the  *)
(* value, while the setting keeps the writes (driver.rs:541).              *)
Replaced == Sourced \cap switches

(* Tables, converter, trackers, settings and props share one name space,   *)
(* and each looks at a different table for what is taken.  Every property  *)
(* is set by exactly what its definition comes from, the same takes its    *)
(* writes, one tracker has its name if it shows motion, and nothing is     *)
(* bound that is not described (assembly.rs:95, driver.rs:136-161).        *)
OwnedByDefinition(n) == Producers(n) = {props[n].by} /\ Consumer(n) = props[n].by
OneTracker(n) == bindings[n].by = <<"motion">> => \E i \in DOMAIN motions : Trackers(n) = {i}
OneOwner == Ready =>
  /\ DOMAIN bindings \cup switches = DOMAIN props
  /\ \A n \in DOMAIN props \ Replaced : OwnedByDefinition(n)
  /\ \A n \in DOMAIN bindings : OneTracker(n)

(* "A declarative converter that defines a cover's cover_state owns it:    *)
(* that cover gets neither the built-in state producer nor its             *)
(* source/direction switches.  Other covers of the device are independent" *)
(* (docs/device-customization.md:128).                                     *)
ConverterOwns == Ready =>
  \A i \in DOMAIN covers :
    LET owned == covers[i].prefix \o CoverState \in DOMAIN block.converter
        shown == {k \in {"state_source", "invert_reported_motion"} : SettingName(i, k) \in switches}
    IN  /\ owned => i \notin DOMAIN motions /\ shown = {}
        /\ ~owned /\ Usable(covers[i]) => i \in DOMAIN motions

(* Selecting the target as the source classifies the device again, without *)
(* the position's DP: what the tables name stays, every cover keeps its    *)
(* group, and the choice can be taken back (device-customization.md:117,   *)
(* "the switch stays available").                                          *)
FoundPlans == {i \in DOMAIN Plans : Plans[i].exposed /\ Plans[i].needs \subseteq ToSet(Dps)}
Unclaimed == {code \in ToSet(Dps) : \A i \in FoundPlans : code \notin Plans[i].codes}
OfTables(table) == {n \in DOMAIN table : table[n].by[1] = "row" /\ table[n].by[2] \notin Unclaimed}
SourceKeepsTables == Ready =>
  /\ OfTables(first.props) \ Hidden \subseteq DOMAIN props
  /\ [i \in DOMAIN covers |-> covers[i].prefix] = [i \in DOMAIN first.covers |-> first.covers[i].prefix]
  /\ \A i \in DOMAIN covers :
       LET name == SettingName(i, "position_from_target")
       IN  block.deviceSettings /\ Settings(covers[i]).fromTarget /\ Separate(first.covers[i])
             => name \in DOMAIN props \cup Hidden

(* What that takes of the tables: no plan needs a position that its target *)
(* can stand for, and no property is read of such positions alone, as of   *)
(* the covers' plans of the rule data, which are found by their word and   *)
(* read a position from either DP.  Plans are told apart by their ids.     *)
Spared ==
  LET curtains == {Plans[i].cover : i \in FoundPlans} \ {None}
  IN  {c.position : c \in {d \in curtains : d.target \in ToSet(Dps) \ {d.position}}}
PositionsSpared ==
  /\ \A i \in FoundPlans :
       /\ Plans[i].id \in Plans[i].codes /\ Plans[i].needs \cap Spared = {}
       /\ \A r \in DOMAIN Plans[i].rows :
            LET of == Plans[i].rows[r].of \cap ToSet(Dps) IN of # {} => of \ Spared # {}
  /\ \A i, j \in FoundPlans : Plans[i].id = Plans[j].id => i = j

(* "Property IDs and cover group IDs stay stable through source changes"   *)
(* (device-customization.md:134), of every property of the first           *)
(* classification.  They do not: a DP no table claims is looked for only   *)
(* before the first (driver.rs:111-120), and the second forgets it.        *)
SourceKeepsNames == Ready => DOMAIN first.props \ Hidden \subseteq DOMAIN props
=============================================================================
