---------------------------- MODULE AssemblyProofs ----------------------------
(***************************************************************************)
(* Proofs that the layers of a driver's properties never contend for a     *)
(* name, that a converter keeps what it defines, and that properties and   *)
(* groups keep their names when the source of a position is changed, for   *)
(* any plans, device and block.                                            *)
(***************************************************************************)
EXTENDS Assembly, FiniteSetTheorems, SequenceTheorems, TLAPS

(* Every cover's state has a name of its own.  It has when no two groups   *)
(* have the same name, which is up to the keys of the tables: name() looks *)
(* at the properties there are, not at the groups.                         *)
StatesDiffer == \A i, j \in DOMAIN covers : StateName(covers[i]) = StateName(covers[j]) => i = j

(* Until the settings come, what is described is bound, to the same.       *)
Bound ==
  /\ DOMAIN bindings = DOMAIN props
  /\ \A n \in DOMAIN props : props[n].by = bindings[n].by
  /\ switches = {}

(* Then a name is bound or a setting.                                      *)
BoundOrSetting ==
  /\ DOMAIN props = DOMAIN bindings \cup switches
  /\ DOMAIN bindings \cap switches = {}
  /\ \A n \in DOMAIN bindings : props[n].by = bindings[n].by
  /\ \A n \in switches : props[n].by = <<"setting">>

(* What is bound to motion has a tracker, and trackers have their cover's  *)
(* name.                                                                   *)
NoMotion == \A n \in DOMAIN bindings : bindings[n].by # <<"motion">>
Tracked ==
  /\ DOMAIN motions \subseteq DOMAIN covers
  /\ \A i \in DOMAIN motions : motions[i] = StateName(covers[i])
  /\ \A n \in DOMAIN bindings : bindings[n].by = <<"motion">> => \E i \in DOMAIN motions : motions[i] = n

Tables == {"classify", "plan", "row", "declare", "motions"}
Owned == DOMAIN bindings \cup switches = DOMAIN props
         /\ \A n \in DOMAIN props \ Replaced : OwnedByDefinition(n)

AssemblyInv ==
  /\ stage \in Tables \cup {"switches", "props", "ready", "failed"}
  /\ stage \in Tables => Bound /\ NoMotion
  /\ stage = "switches" => Bound /\ Tracked
  /\ stage = "props" => BoundOrSetting /\ Tracked
  /\ stage = "ready" => Owned /\ Tracked

(* What is defined is bound as it is described.                            *)
LEMMA DefinesBound ==
  ASSUME Bound, NEW new, Defines(new), switches' = switches
  PROVE  Bound'
<1>1. DOMAIN props' = DOMAIN new \cup DOMAIN props /\ DOMAIN bindings' = DOMAIN new \cup DOMAIN bindings
  BY DEF Defines, Over
<1>2. \A n \in DOMAIN new : props'[n] = new[n] /\ bindings'[n] = new[n]
  BY DEF Defines, Over
<1>3. \A n \in DOMAIN props \ DOMAIN new : props'[n] = props[n] /\ bindings'[n] = bindings[n]
  BY DEF Defines, Over, Bound
<1>4. QED
  BY <1>1, <1>2, <1>3 DEF Bound

(* What is bound now is newly defined, or was bound before.                *)
LEMMA DefinesBinds ==
  ASSUME NEW new, Defines(new), NEW n \in DOMAIN bindings'
  PROVE  \/ n \in DOMAIN new /\ bindings'[n] = new[n]
         \/ n \in DOMAIN bindings /\ bindings'[n] = bindings[n]
BY DEF Defines, Over

-----------------------------------------------------------------------------
LEMMA InvHolds == Spec => []AssemblyInv
<1>1. Init => AssemblyInv
  BY DEF Init, AssemblyInv, Tables, Bound, NoMotion
<1>2. AssemblyInv /\ [Next]_vars => AssemblyInv'
  <2> SUFFICES ASSUME AssemblyInv, [Next]_vars PROVE AssemblyInv'
    OBVIOUS
  <2> USE DEF AssemblyInv
  <2>1. CASE ClassifyFirst
    BY <2>1 DEF ClassifyFirst, names, Tables, Bound, NoMotion
  <2>2. CASE ClassifyAgain
    BY <2>2 DEF ClassifyAgain, names, Tables, Bound, NoMotion
  <2>3. CASE OpenPlan
    BY <2>3 DEF OpenPlan, Tables, Bound, NoMotion
  <2>4. CASE SkipPlan
    BY <2>4 DEF SkipPlan, names, Tables, Bound, NoMotion
  <2>5. CASE AddRow
    <3>1. PICK name : Defines([n \in {name} |-> [by |-> <<"row", PlanAt(at).id, row>>, rw |-> Row.writable]])
      BY <2>5 DEF AddRow
    <3>2. stage = "row" /\ stage' = "row" /\ switches' = switches
      BY <2>5 DEF AddRow
    <3>3. Bound'
      BY <3>1, <3>2, DefinesBound DEF Tables
    <3>4. <<"row", PlanAt(at).id, row>> # <<"motion">>
      OBVIOUS
    <3>5. NoMotion'
      BY <3>1, <3>2, <3>4, DefinesBinds DEF NoMotion, Tables
    <3>6. QED
      BY <3>2, <3>3, <3>5 DEF Tables
  <2>6. CASE SkipRow
    BY <2>6 DEF SkipRow, names, Tables, Bound, NoMotion
  <2>7. CASE ClosePlan
    BY <2>7 DEF ClosePlan, names, Tables, Bound, NoMotion
  <2>8. CASE SelectTargets
    BY <2>8 DEF SelectTargets, Tables, Bound, NoMotion, Assembled
  <2>9. CASE MakeCovers
    BY <2>9 DEF MakeCovers, names, Tables, Bound, NoMotion, Assembled
  <2>10. CASE Declare
    <3>1. CASE stage' = "failed"
      BY <3>1 DEF Tables
    <3>2. CASE stage' # "failed"
      <4> DEFINE new == [n \in DOMAIN block.converter |->
                           [by |-> <<"converter">>, rw |-> block.converter[n].rw]]
      <4>1. stage = "declare" /\ stage' = "motions" /\ Defines(new) /\ switches' = switches
        BY <2>10, <3>2 DEF Declare
      <4>2. \A n \in DOMAIN new : new[n].by # <<"motion">>
        OBVIOUS
      <4> HIDE DEF new
      <4>3. Bound'
        BY <4>1, DefinesBound DEF Tables
      <4>4. NoMotion'
        BY <4>1, <4>2, DefinesBinds DEF NoMotion, Tables
      <4>5. QED
        BY <4>1, <4>3, <4>4 DEF Tables
    <3>3. QED
      BY <3>1, <3>2
  <2>11. CASE AddMotions
    <3> DEFINE new == [n \in {StateName(covers[i]) : i \in Moving} |-> [by |-> <<"motion">>, rw |-> FALSE]]
    <3>1. /\ stage = "motions" /\ stage' = "switches" /\ Defines(new)
          /\ motions' = [i \in Moving |-> StateName(covers[i])]
          /\ covers' = covers /\ switches' = switches
      BY <2>11 DEF AddMotions
    <3>2. DOMAIN new = {StateName(covers[i]) : i \in Moving}
      OBVIOUS
    <3> HIDE DEF new
    <3>3. Bound'
      BY <3>1, DefinesBound DEF Tables
    <3>4. DOMAIN motions' = Moving /\ Moving \subseteq DOMAIN covers
      BY <3>1 DEF Moving
    <3>5. \A i \in DOMAIN motions' : motions'[i] = StateName(covers'[i])
      BY <3>1
    <3>6. ASSUME NEW n \in DOMAIN bindings', bindings'[n].by = <<"motion">>
          PROVE  \E i \in DOMAIN motions' : motions'[i] = n
      <4>1. n \in DOMAIN new
        BY <3>1, <3>6, DefinesBinds DEF NoMotion, Tables
      <4>2. QED
        BY <4>1, <3>1, <3>2, <3>4
    <3>7. Tracked'
      BY <3>1, <3>4, <3>5, <3>6 DEF Tracked, StateName
    <3>8. QED
      BY <3>1, <3>3, <3>7 DEF Tables
  <2>12. CASE AddSwitches
    <3>1. PICK new :
            /\ \A n \in new : Undescribed(n)
            /\ switches' = new
            /\ props' = Over([n \in new |-> [by |-> <<"setting">>, rw |-> TRUE]], props)
      <4> DEFINE cover == {SettingName(o[1], o[2]) : o \in Offered}
                 delta == {n \in {AcceptPassive} : Accumulates /\ Undescribed(n)}
                 new == IF block.deviceSettings THEN cover \cup delta ELSE {}
      <4>1. \A n \in cover : Undescribed(n)
        BY DEF Offered
      <4>2. \A n \in new : Undescribed(n)
        BY <4>1
      <4>3. QED
        BY <4>2, <2>12 DEF AddSwitches
    <3>2. /\ stage = "switches" /\ stage' = "props" /\ bindings' = bindings
          /\ covers' = covers /\ motions' = motions
      BY <2>12 DEF AddSwitches
    <3>3. new \cap DOMAIN props = {}
      BY <3>1 DEF Undescribed
    <3>4. BoundOrSetting'
      <4> DEFINE s == [n \in new |-> [by |-> <<"setting">>, rw |-> TRUE]]
      <4>1. props' = Over(s, props) /\ DOMAIN s = new /\ \A n \in new : s[n].by = <<"setting">>
        BY <3>1
      <4> HIDE DEF s
      <4>2. DOMAIN props' = new \cup DOMAIN props /\ \A n \in new : props'[n].by = <<"setting">>
        BY <4>1 DEF Over
      <4>3. \A n \in DOMAIN props : props'[n] = props[n]
        BY <4>1, <3>3 DEF Over
      <4>4. QED
        BY <4>2, <4>3, <3>1, <3>2, <3>3 DEF BoundOrSetting, Bound, Tables
    <3>5. Tracked'
      BY <3>2 DEF Tracked, StateName, Tables
    <3>6. QED
      BY <3>2, <3>4, <3>5 DEF Tables
  <2>13. CASE PatchProps
    <3>1. /\ stage = "props" /\ stage' = "ready" /\ BoundOrSetting /\ Tracked
          /\ props' = Patched(props) /\ bindings' = Patched(bindings) /\ switches' = switches \ Hidden
          /\ block' = block /\ covers' = covers /\ motions' = motions
      BY <2>13 DEF PatchProps, Tables
    <3>2. Sourced' = Sourced /\ Hidden' = Hidden /\ Hidden \cap Sourced = {}
      BY <3>1 DEF Sourced, Hidden, Patch
    <3>3. DOMAIN bindings' \cup switches' = DOMAIN props'
      BY <3>1, <3>2 DEF Patched, BoundOrSetting
    <3>4. ASSUME NEW n \in DOMAIN props' \ Replaced' PROVE OwnedByDefinition(n)'
      <4>1. CASE n \in Sourced
        <5>1. n \notin switches' /\ n \in DOMAIN bindings' /\ bindings'[n].by = props'[n].by
          BY <4>1, <3>1, <3>2 DEF Patched, Replaced
        <5>2. QED
          BY <5>1 DEF OwnedByDefinition, Producers, Consumer
      <4>2. CASE n \notin Sourced /\ n \in switches'
        <5>1. n \notin DOMAIN bindings' /\ props'[n].by = <<"setting">>
          BY <4>2, <3>1 DEF Patched, BoundOrSetting
        <5>2. QED
          BY <5>1, <4>2 DEF OwnedByDefinition, Producers, Consumer
      <4>3. CASE n \notin Sourced /\ n \notin switches'
        <5>1. n \in DOMAIN bindings' /\ bindings'[n].by = props'[n].by
          BY <4>3, <3>1, <3>3 DEF Patched, BoundOrSetting
        <5>2. QED
          BY <5>1, <4>3 DEF OwnedByDefinition, Producers, Consumer
      <4>4. QED
        BY <4>1, <4>2, <4>3
    <3>5. ASSUME NEW n \in DOMAIN bindings', bindings'[n].by = <<"motion">>
          PROVE  \E i \in DOMAIN motions' : motions'[i] = n
      <4>1. n \notin Sourced
        <5>1. \A code : <<"dp", code>> # <<"motion">>
          OBVIOUS
        <5>2. QED
          BY <5>1, <3>1, <3>5 DEF Patched
      <4>2. n \in DOMAIN bindings /\ bindings[n].by = <<"motion">>
        BY <4>1, <3>1, <3>5 DEF Patched
      <4>3. QED
        BY <4>2, <3>1 DEF Tracked
    <3>6. Tracked'
      BY <3>1, <3>5 DEF Tracked, StateName
    <3>7. QED
      BY <3>1, <3>3, <3>4, <3>6 DEF Owned, Tables
  <2>14. CASE PatchPropsFails
    BY <2>14 DEF PatchPropsFails, Tables
  <2>15. CASE UNCHANGED vars
    BY <2>15 DEF vars, names, cursor, Tables, Bound, NoMotion, Tracked, StateName, BoundOrSetting,
      Owned, OwnedByDefinition, Producers, Consumer, Replaced, Sourced, Patch
  <2>16. QED
    BY <2>1, <2>2, <2>3, <2>4, <2>5, <2>6, <2>7, <2>8, <2>9, <2>10, <2>11, <2>12, <2>13, <2>14, <2>15
    DEF Next
<1>3. QED
  BY <1>1, <1>2, PTL DEF Spec

(* Where no two covers have states of one name, every property of a ready  *)
(* driver has one owner, whatever the plans, the converter and the block's *)
(* props are: they contend for a name only where props puts a DP under the *)
(* name of a setting.                                                      *)
THEOREM PropertiesHaveOneOwner == Spec /\ []StatesDiffer => []OneOwner
<1>1. AssemblyInv /\ StatesDiffer => OneOwner
  <2> SUFFICES ASSUME AssemblyInv, StatesDiffer, Ready PROVE OneOwner
    BY DEF OneOwner
  <2>1. Owned /\ Tracked
    BY DEF AssemblyInv, Ready
  <2>2. ASSUME NEW n \in DOMAIN bindings PROVE OneTracker(n)
    <3> SUFFICES ASSUME bindings[n].by = <<"motion">> PROVE \E i \in DOMAIN motions : Trackers(n) = {i}
      BY DEF OneTracker
    <3>1. PICK i \in DOMAIN motions : motions[i] = n
      BY <2>1 DEF Tracked
    <3>2. \A j \in Trackers(n) : j = i
      BY <2>1, <3>1 DEF Trackers, Tracked, StatesDiffer
    <3>3. QED
      BY <3>1, <3>2 DEF Trackers
  <2>3. QED
    BY <2>1, <2>2 DEF Owned, OneOwner
<1>2. QED
  BY <1>1, InvHolds, PTL

-----------------------------------------------------------------------------
(* What the converter owns.                                                *)

(* The words of names; those the code itself uses are listed for the       *)
(* provers, which do not know that they are strings.                       *)
Words == STRING \cup SettingKeys \cup {"cover", "delta", "accept_passive"}

Codes == ToSet(Dps) \cup {None}
CoverRecords == [prefix : Seq(Words), cur : Codes, setp : Codes, ins : Codes]

Grouped ==
  /\ dps \subseteq ToSet(Dps) /\ plans \subseteq Places
  /\ prefix \in Seq(Words) /\ covers \in Seq(CoverRecords)

(* What a switch of a cover is the name of.                                *)
SwitchOf(n) ==
  n = AcceptPassive \/
  \E i \in DOMAIN covers, k \in SettingKeys :
    /\ n = SettingName(i, k)
    /\ k \in {"state_source", "invert_reported_motion"} => StateName(covers[i]) \notin taken

Taken ==
  /\ stage \in {"motions", "switches", "props", "ready"} => taken = DOMAIN block.converter
  /\ stage \in {"switches", "props", "ready"} => DOMAIN motions = Moving
  /\ stage \in {"props", "ready"} => \A n \in switches : SwitchOf(n)

(* Equal names with equally many words after the group are equal in both.  *)
LEMMA LastWords ==
  ASSUME NEW p \in Seq(Words), NEW q \in Seq(Words), NEW u \in Seq(Words), NEW v \in Seq(Words),
         Len(u) = Len(v), p \o u = q \o v
  PROVE  p = q /\ u = v
<1>1. Len(p) \in Nat /\ Len(q) \in Nat /\ Len(u) \in Nat
  BY LenProperties
<1>2. /\ Len(p \o u) = Len(p) + Len(u)
      /\ \A i \in 1..Len(p) + Len(u) : (p \o u)[i] = IF i <= Len(p) THEN p[i] ELSE u[i - Len(p)]
  BY ConcatProperties, Zenon
<1>3. /\ Len(q \o v) = Len(q) + Len(v)
      /\ \A i \in 1..Len(q) + Len(v) : (q \o v)[i] = IF i <= Len(q) THEN q[i] ELSE v[i - Len(q)]
  BY ConcatProperties, Zenon
<1>4. Len(p) = Len(q)
  BY <1>1, <1>2, <1>3
<1>5. \A i \in 1..Len(p) : p[i] = q[i]
  BY <1>1, <1>2, <1>3, <1>4
<1>6. \A i \in 1..Len(u) : u[i] = v[i]
  <2> TAKE i \in 1..Len(u)
  <2>1. Len(p) + i \in 1..Len(p) + Len(u) /\ ~(Len(p) + i <= Len(p)) /\ Len(p) + i - Len(p) = i
    BY <1>1
  <2> QED
    BY <1>2, <1>3, <1>4, <2>1
<1> QED
  BY <1>4, <1>5, <1>6, SeqEqual

NameOf(group, k) == group \o <<"cover", k>>

(* A group and a setting can be told from the name they make.              *)
LEMMA SettingNames ==
  ASSUME NEW p \in Seq(Words), NEW q \in Seq(Words), NEW k \in SettingKeys, NEW l \in SettingKeys
  PROVE  /\ NameOf(p, k) # AcceptPassive
         /\ NameOf(p, k) = NameOf(q, l) => p = q /\ k = l
<1> DEFINE u == <<"cover", k>>
           v == <<"cover", l>>
           empty == <<>>
<1>1. SettingKeys \subseteq Words /\ "cover" \in Words /\ "delta" \in Words /\ "accept_passive" \in Words
  BY DEF Words
<1>2. /\ u \in Seq(Words) /\ v \in Seq(Words) /\ AcceptPassive \in Seq(Words) /\ empty \in Seq(Words)
      /\ Len(u) = 2 /\ Len(v) = 2 /\ Len(AcceptPassive) = 2 /\ empty \o AcceptPassive = AcceptPassive
      /\ u # AcceptPassive /\ (u = v => k = l)
  BY <1>1 DEF AcceptPassive
<1> HIDE DEF u, v, empty
<1>3. p \o u # AcceptPassive
  BY <1>2, LastWords
<1>4. p \o u = q \o v => p = q /\ u = v
  BY <1>2, LastWords
<1> QED
  BY <1>2, <1>3, <1>4 DEF NameOf, u, v

LEMMA StringsAreWords == Seq(STRING) \subseteq Seq(Words)
BY SeqMonotonic DEF Words

LEMMA GroupedStep ==
  ASSUME Grouped, [Next]_vars
  PROVE  Grouped'
<1> USE DEF Grouped
<1>1. CASE ClassifyFirst
  <2>1. Classified \subseteq Places /\ Unused(Classified) \subseteq Places
    BY AssemblyAssumption DEF Classified, Unused, Places
  <2> QED
    BY <1>1, <2>1 DEF ClassifyFirst, names
<1>2. CASE ClassifyAgain
  <2>1. Classified \subseteq Places
    BY AssemblyAssumption DEF Classified, Places
  <2> QED
    BY <1>2, <2>1 DEF ClassifyAgain, names
<1>3. CASE OpenPlan
  <2>1. PICK group \in {<<>>} \cup Numbereds(PlanAt(at).key) :
          /\ prefix' = group
          /\ covers' = IF PlanAt(at).cover = None THEN covers
                       ELSE Append(covers, CoverFound(PlanAt(at), group))
    BY <1>3 DEF OpenPlan
  <2>2. at \in Places /\ UNCHANGED <<dps, plans>>
    BY <1>3 DEF OpenPlan
  <2>3. PlanAt(at).key \in Seq(STRING)
    <3>1. CASE at <= Len(Plans)
      <4>1. Plans[at] \in ToSet(Plans)
        BY <2>2, <3>1, AssemblyAssumption DEF Places, ToSet
      <4> QED
        BY <3>1, <4>1, AssemblyAssumption DEF PlanAt
    <3>2. CASE ~(at <= Len(Plans))
      <4>1. Len(Plans) \in Nat /\ Len(Dps) \in Nat
        BY AssemblyAssumption, LenProperties
      <4>2. Dps[at - Len(Plans)] \in Seq(STRING)
        BY <2>2, <3>2, <4>1, AssemblyAssumption DEF Places
      <4> QED
        BY <3>2, <4>2 DEF PlanAt, UnusedPlan
    <3> QED
      BY <3>1, <3>2
  <2>4. group \in Seq(Words)
    <3>1. <<>> \in Seq(Words)
      BY EmptySeq
    <3>2. \A i \in DOMAIN Numbers : Numbered(PlanAt(at).key, i) \in Seq(Words)
      <4> SUFFICES ASSUME NEW i \in DOMAIN Numbers
                   PROVE  Numbered(PlanAt(at).key, i) \in Seq(Words)
        OBVIOUS
      <4>1. Numbers[i] \in Words /\ PlanAt(at).key \in Seq(Words)
        BY <2>3, AssemblyAssumption, StringsAreWords DEF Words
      <4> QED
        BY <4>1, AppendProperties DEF Numbered
    <3> QED
      BY <3>1, <3>2 DEF Numbereds
  <2>5. CoverFound(PlanAt(at), group) \in CoverRecords
    BY <2>4 DEF CoverFound, CoverRecords, Codes, Present
  <2> QED
    BY <2>1, <2>2, <2>4, <2>5, AppendProperties
<1>4. CASE SelectTargets
  <2>1. <<>> \in Seq(Words) /\ <<>> \in Seq(CoverRecords)
    BY EmptySeq
  <2> QED
    BY <1>4, <2>1 DEF SelectTargets
<1>5. CASE \/ SkipPlan \/ AddRow \/ SkipRow \/ ClosePlan \/ MakeCovers \/ Declare
           \/ AddMotions \/ AddSwitches \/ PatchProps \/ PatchPropsFails \/ UNCHANGED vars
  BY <1>5 DEF SkipPlan, AddRow, SkipRow, ClosePlan, MakeCovers, Declare, AddMotions, AddSwitches,
              PatchProps, PatchPropsFails, vars, names, cursor
<1> QED
  BY <1>1, <1>2, <1>3, <1>4, <1>5 DEF Next

(* What is the converter's is settled before trackers and switches, and    *)
(* each of these looks it up.                                              *)
LEMMA TakenStep ==
  ASSUME Taken, [Next]_vars, stage \in Tables \cup {"switches", "props", "ready", "failed"}
  PROVE  Taken'
<1> USE DEF Taken
<1>1. CASE \/ ClassifyFirst \/ ClassifyAgain \/ OpenPlan \/ SkipPlan \/ AddRow \/ SkipRow
           \/ ClosePlan \/ SelectTargets \/ MakeCovers \/ PatchPropsFails
  BY <1>1 DEF ClassifyFirst, ClassifyAgain, OpenPlan, SkipPlan, AddRow, SkipRow, ClosePlan,
              SelectTargets, MakeCovers, PatchPropsFails
<1>2. CASE Declare
  BY <1>2 DEF Declare
<1>3. CASE AddMotions
  <2>1. /\ stage = "motions" /\ stage' = "switches" /\ DOMAIN motions' = Moving
        /\ UNCHANGED <<block, covers, taken>>
    BY <1>3 DEF AddMotions
  <2>2. Moving' = Moving
    BY <2>1 DEF Moving, StateName, Usable, Settings, CanInfer, Separate
  <2> QED
    BY <2>1, <2>2
<1>4. CASE AddSwitches
  <2>1. /\ stage = "switches" /\ stage' = "props" /\ UNCHANGED <<block, covers, taken, motions>>
        /\ \A n \in switches' : n = AcceptPassive \/ \E o \in Offered : n = SettingName(o[1], o[2])
    BY <1>4 DEF AddSwitches
  <2>2. Moving' = Moving
    BY <2>1 DEF Moving, StateName, Usable, Settings, CanInfer, Separate
  <2>3. \A o \in Offered :
          /\ o[1] \in DOMAIN covers /\ o[2] \in SettingKeys
          /\ o[2] \in {"state_source", "invert_reported_motion"} => StateName(covers[o[1]]) \notin taken
    BY DEF Offered
  <2>4. \A n \in switches' : SwitchOf(n)
    BY <2>1, <2>3 DEF SwitchOf
  <2>5. \A n : SwitchOf(n)' <=> SwitchOf(n)
    BY <2>1 DEF SwitchOf, SettingName, StateName
  <2> QED
    BY <2>1, <2>2, <2>4, <2>5
<1>5. CASE PatchProps
  <2>1. /\ stage = "props" /\ stage' = "ready" /\ UNCHANGED <<block, covers, taken, motions>>
        /\ switches' \subseteq switches
    BY <1>5 DEF PatchProps
  <2>2. Moving' = Moving
    BY <2>1 DEF Moving, StateName, Usable, Settings, CanInfer, Separate
  <2>3. \A n : SwitchOf(n)' <=> SwitchOf(n)
    BY <2>1 DEF SwitchOf, SettingName, StateName
  <2> QED
    BY <2>1, <2>2, <2>3
<1>6. CASE UNCHANGED vars
  BY <1>6 DEF vars, names, cursor, SwitchOf, SettingName, StateName, Moving, Usable, Settings,
              CanInfer, Separate
<1> QED
  BY <1>1, <1>2, <1>3, <1>4, <1>5, <1>6 DEF Next

LEMMA TakenAlways == Spec => [](Grouped /\ Taken)
<1>1. Init => Grouped /\ Taken
  <2>1. <<>> \in Seq(Words) /\ <<>> \in Seq(CoverRecords)
    BY EmptySeq
  <2> QED
    BY <2>1 DEF Init, Grouped, Taken
<1>2. AssemblyInv /\ Grouped /\ Taken /\ [Next]_vars => (Grouped /\ Taken)'
  BY GroupedStep, TakenStep DEF AssemblyInv
<1> QED
  BY <1>1, <1>2, InvHolds, PTL DEF Spec

(* A converter that defines a cover's state is the only one to give it:    *)
(* that cover has no tracker and none of the switches that choose one,     *)
(* whatever the groups are called; every other cover that can be tracked   *)
(* has its tracker (cover_motions, config_switches).                       *)
THEOREM ConverterAlwaysOwns == Spec => []ConverterOwns
<1>1. Grouped /\ Taken => ConverterOwns
  <2> SUFFICES ASSUME Grouped, Taken, Ready, NEW i \in DOMAIN covers
               PROVE  /\ StateName(covers[i]) \in DOMAIN block.converter =>
                           /\ i \notin DOMAIN motions
                           /\ \A k \in {"state_source", "invert_reported_motion"} :
                                SettingName(i, k) \notin switches
                      /\ StateName(covers[i]) \notin DOMAIN block.converter /\ Usable(covers[i]) =>
                           i \in DOMAIN motions
    BY DEF ConverterOwns, StateName
  <2>1. /\ taken = DOMAIN block.converter /\ DOMAIN motions = Moving
        /\ \A n \in switches : SwitchOf(n)
    BY DEF Taken, Ready
  <2>2. \A j \in DOMAIN covers : covers[j].prefix \in Seq(Words)
    <3>1. \A j \in DOMAIN covers : covers[j] \in CoverRecords
      BY DEF Grouped
    <3> QED
      BY <3>1 DEF CoverRecords
  <2>3. ASSUME StateName(covers[i]) \in taken,
               NEW k \in {"state_source", "invert_reported_motion"}, SettingName(i, k) \in switches
        PROVE  FALSE
    <3>1. k \in SettingKeys
      BY <2>3 DEF SettingKeys
    <3>2. SettingName(i, k) # AcceptPassive
      <4>1. SettingName(i, k) = NameOf(covers[i].prefix, k)
        BY DEF SettingName, NameOf
      <4> QED
        BY <2>2, <3>1, <4>1, SettingNames
    <3>3. PICK j \in DOMAIN covers, l \in SettingKeys :
            /\ SettingName(i, k) = SettingName(j, l)
            /\ l \in {"state_source", "invert_reported_motion"} => StateName(covers[j]) \notin taken
      BY <2>1, <2>3, <3>2 DEF SwitchOf
    <3>4. covers[i].prefix = covers[j].prefix /\ k = l
      <4>1. NameOf(covers[i].prefix, k) = NameOf(covers[j].prefix, l)
        BY <3>3 DEF SettingName, NameOf
      <4> QED
        BY <2>2, <3>1, <4>1, SettingNames
    <3> QED
      BY <2>3, <3>3, <3>4 DEF StateName
  <2> QED
    BY <2>1, <2>3 DEF Moving
<1> QED
  BY <1>1, TakenAlways, PTL
-----------------------------------------------------------------------------
(* What stays when the source of a position is changed.                    *)

IsRow(entry, i, r) == entry.by = <<"row", Plans[i].id, r>>
OfUnused(entry) == \E code \in Unclaimed, r \in Nat : entry.by = <<"row", code, r>>

(* Row r of plan i comes before row s of plan a.                           *)
Before(i, r, a, s) == i < a \/ (i = a /\ r < s)
Rows(i) == DOMAIN Plans[i].rows
Due(i, r) == Plans[i].rows[r].of \cap ToSet(Dps) # {}

(* A name follows from the names of the rows before, and these from theirs.*)
Earlier(table, i, r) ==
  {n \in DOMAIN table : \E j \in FoundPlans : \E s \in Rows(j) : IsRow(table[n], j, s) /\ Before(j, s, i, r)}
LeastFree(n, base, used) ==
  \E k \in DOMAIN Numbers :
    /\ n = Numbered(base, k) /\ n \notin used /\ n # Available
    /\ \A l \in 1..(k - 1) : Numbered(base, l) \in used \/ Numbered(base, l) = Available
Secondary(i) == Plans[i].composite /\ \E j \in FoundPlans : j < i /\ Plans[j].composite
GroupIs(table, i, g) ==
  IF Secondary(i) THEN LeastFree(g, Plans[i].key, Earlier(table, i, 1)) ELSE g = <<>>
Base(g, i, r) == IF Plans[i].rows[r].grouped THEN g \o Plans[i].rows[r].name ELSE Plans[i].rows[r].name
NameIs(table, i, r, n) ==
  \E g : GroupIs(table, i, g) /\ LeastFree(n, Base(g, i, r), Earlier(table, i, r))

(* The rows before row s of plan a have their names in a table, and only   *)
(* these, but for the unused DPs, which come last.                         *)
Known(table, n, a, s) ==
  \E i \in FoundPlans : \E r \in Rows(i) :
    Before(i, r, a, s) /\ Due(i, r) /\ IsRow(table[n], i, r) /\ NameIs(table, i, r, n)
Laid(table, a, s) ==
  /\ \A n \in DOMAIN table : Known(table, n, a, s) \/ (a > Len(Plans) /\ OfUnused(table[n]))
  /\ \A i \in FoundPlans : \A r \in Rows(i) :
       Before(i, r, a, s) /\ Due(i, r) => \E n \in DOMAIN table : IsRow(table[n], i, r)

(* The covers are those of the plans up to a, in their order.              *)
Curtains == {i \in FoundPlans : Plans[i].cover # None}
UpTo(a) == {i \in Curtains : i <= a}
CoversLaid(list, table, a) ==
  /\ DOMAIN list = 1..Cardinality(UpTo(a))
  /\ \A k \in DOMAIN list : \E i \in UpTo(a) :
       Cardinality(UpTo(i)) = k /\ GroupIs(table, i, list[k].prefix)

(* One table follows another up to row s of plan a.                        *)
Follows(table, model, a, s) ==
  /\ \A n \in DOMAIN table : n \in DOMAIN model /\ model[n].by = table[n].by
  /\ \A n \in DOMAIN model : \A i \in FoundPlans : \A r \in Rows(i) :
       IsRow(model[n], i, r) /\ Before(i, r, a, s) => n \in DOMAIN table

TablesEnd == Len(Plans) + 1

LEMMA PlansAre ==
  /\ DOMAIN Plans = 1..Len(Plans) /\ Len(Plans) \in Nat /\ FoundPlans \subseteq 1..Len(Plans)
  /\ \A i \in FoundPlans : Rows(i) = 1..Len(Plans[i].rows) /\ Len(Plans[i].rows) \in Nat
<1>1. DOMAIN Plans = 1..Len(Plans) /\ Len(Plans) \in Nat
  BY AssemblyAssumption, LenProperties
<1>2. ASSUME NEW i \in DOMAIN Plans
      PROVE  Rows(i) = 1..Len(Plans[i].rows) /\ Len(Plans[i].rows) \in Nat
  <2>1. Plans[i] \in ToSet(Plans)
    BY DEF ToSet
  <2>2. Plans[i].rows \in Seq(ToSet(Plans[i].rows))
    BY <2>1, AssemblyAssumption
  <2>3. QED
    BY <2>2, LenProperties DEF Rows
<1>3. QED
  BY <1>1, <1>2 DEF FoundPlans

LEMMA LeastIsOne ==
  ASSUME NEW n, NEW m, NEW base, NEW used, LeastFree(n, base, used), LeastFree(m, base, used)
  PROVE  n = m
<1>1. DOMAIN Numbers \subseteq Nat \ {0}
  BY AssemblyAssumption, LenProperties
<1>2. PICK k \in DOMAIN Numbers :
        /\ n = Numbered(base, k) /\ n \notin used /\ n # Available
        /\ \A l \in 1..(k - 1) : Numbered(base, l) \in used \/ Numbered(base, l) = Available
  BY DEF LeastFree
<1>3. PICK j \in DOMAIN Numbers :
        /\ m = Numbered(base, j) /\ m \notin used /\ m # Available
        /\ \A l \in 1..(j - 1) : Numbered(base, l) \in used \/ Numbered(base, l) = Available
  BY DEF LeastFree
<1>4. ~(k < j) /\ ~(j < k)
  BY <1>1, <1>2, <1>3
<1>5. QED
  BY <1>1, <1>2, <1>3, <1>4

(* A property of a table's row is not one of an unused DP, and a plan is   *)
(* known by its id.                                                        *)
LEMMA RowsDiffer ==
  ASSUME PositionsSpared, NEW i \in FoundPlans, NEW r, NEW entry, IsRow(entry, i, r)
  PROVE  /\ ~OfUnused(entry)
         /\ \A j \in FoundPlans : \A s : IsRow(entry, j, s) => j = i /\ s = r
<1>1. Plans[i].id \notin Unclaimed
  BY DEF PositionsSpared, Unclaimed
<1>2. \A j \in FoundPlans : Plans[i].id = Plans[j].id => i = j
  BY DEF PositionsSpared
<1>3. \A j, s : IsRow(entry, j, s) => Plans[j].id = Plans[i].id /\ s = r
  BY DEF IsRow
<1>4. QED
  BY <1>1, <1>2, <1>3 DEF OfUnused, IsRow

(* Names depend on the earlier rows alone.                                 *)
LEMMA SameEarlier ==
  ASSUME NEW t, NEW u, NEW i \in FoundPlans, NEW r \in Rows(i),
         Earlier(t, i, r) = Earlier(u, i, r), Earlier(t, i, 1) = Earlier(u, i, 1)
  PROVE  /\ \A g : GroupIs(t, i, g) <=> GroupIs(u, i, g)
         /\ \A n : NameIs(t, i, r, n) <=> NameIs(u, i, r, n)
BY DEF GroupIs, NameIs

LEMMA OneName ==
  ASSUME NEW t, NEW i, NEW r, NEW n, NEW m, NameIs(t, i, r, n), NameIs(t, i, r, m)
  PROVE  n = m
<1>1. PICK g : GroupIs(t, i, g) /\ LeastFree(n, Base(g, i, r), Earlier(t, i, r))
  BY DEF NameIs
<1>2. PICK h : GroupIs(t, i, h) /\ LeastFree(m, Base(h, i, r), Earlier(t, i, r))
  BY DEF NameIs
<1>3. g = h
  BY <1>1, <1>2, LeastIsOne DEF GroupIs
<1>4. QED
  BY <1>1, <1>2, <1>3, LeastIsOne

(* A table with one more property. *)
With(table, n, entry) == Over([m \in {n} |-> entry], table)

(* A later row takes nothing from the names of those before.               *)
LEMMA AddedLater ==
  ASSUME NEW t, NEW n, n \notin DOMAIN t, NEW e, NEW i, NEW r,
         \A j \in FoundPlans : \A s \in Rows(j) : IsRow(e, j, s) => ~Before(j, s, i, r)
  PROVE  Earlier(With(t, n, e), i, r) = Earlier(t, i, r)
<1> DEFINE u == With(t, n, e)
<1>1. DOMAIN u = DOMAIN t \cup {n} /\ u[n] = e /\ \A m \in DOMAIN t : u[m] = t[m]
  BY DEF With, Over
<1> HIDE DEF u
<1>2. Earlier(u, i, r) = Earlier(t, i, r)
  BY <1>1 DEF Earlier
<1>3. QED
  BY <1>2 DEF u

LEMMA LaidRow ==
  ASSUME PositionsSpared, NEW t, NEW a \in FoundPlans, NEW s \in Rows(a), Laid(t, a, s), Due(a, s),
         NEW n, n \notin DOMAIN t, NEW e, IsRow(e, a, s), NameIs(t, a, s, n)
  PROVE  /\ Laid(With(t, n, e), a, s + 1)
         /\ \A i \in FoundPlans : i <= a => \A g : GroupIs(t, i, g) => GroupIs(With(t, n, e), i, g)
<1> DEFINE u == With(t, n, e)
<1>1. DOMAIN u = DOMAIN t \cup {n} /\ u[n] = e /\ \A m \in DOMAIN t : u[m] = t[m]
  BY DEF With, Over
<1>2. a \in 1..Len(Plans) /\ Len(Plans) \in Nat /\ s \in Nat \ {0} /\ FoundPlans \subseteq 1..Len(Plans)
      /\ \A i \in FoundPlans : \A r \in Rows(i) : r \in Nat \ {0}
  BY PlansAre
<1>3. \A i \in FoundPlans : \A r \in Nat \ {0} : ~Before(a, s, i, r) => Earlier(u, i, r) = Earlier(t, i, r)
  BY <1>2, AddedLater, RowsDiffer
<1> HIDE DEF u
<1>4. ASSUME NEW i \in FoundPlans, NEW r \in Rows(i), Before(i, r, a, s + 1)
      PROVE  /\ Earlier(u, i, r) = Earlier(t, i, r) /\ Earlier(u, i, 1) = Earlier(t, i, 1)
             /\ Before(i, r, a, s) \/ (i = a /\ r = s)
  <2>1. r \in Nat \ {0} /\ i \in Nat
    BY <1>2
  <2>2. ~Before(a, s, i, r) /\ ~Before(a, s, i, 1) /\ (Before(i, r, a, s) \/ (i = a /\ r = s))
    BY <1>2, <1>4, <2>1 DEF Before
  <2>3. QED
    BY <1>3, <2>1, <2>2
<1>5. Before(a, s, a, s + 1)
  BY <1>2 DEF Before
<1>6. ASSUME NEW m \in DOMAIN u
      PROVE  Known(u, m, a, s + 1)
  <2>1. CASE m = n
    <3>1. NameIs(u, a, s, n)
      BY <1>4, <1>5, SameEarlier
    <3>2. QED
      BY <1>1, <1>5, <2>1, <3>1 DEF Known
  <2>2. CASE m \in DOMAIN t
    <3>1. ~(a > Len(Plans))
      BY <1>2
    <3>2. PICK i \in FoundPlans : \E r \in Rows(i) :
            Before(i, r, a, s) /\ Due(i, r) /\ IsRow(t[m], i, r) /\ NameIs(t, i, r, m)
      BY <2>2, <3>1 DEF Laid, Known
    <3> PICK r \in Rows(i) : Before(i, r, a, s) /\ Due(i, r) /\ IsRow(t[m], i, r) /\ NameIs(t, i, r, m)
      BY <3>2
    <3>3. Before(i, r, a, s + 1)
      BY <1>2, <3>2 DEF Before
    <3>4. NameIs(u, i, r, m) /\ u[m] = t[m]
      BY <1>1, <1>4, <2>2, <3>2, <3>3, SameEarlier
    <3>5. QED
      BY <3>2, <3>3, <3>4 DEF Known
  <2>3. QED
    BY <1>1, <2>1, <2>2
<1>7. ASSUME NEW i \in FoundPlans, NEW r \in Rows(i), Before(i, r, a, s + 1), Due(i, r)
      PROVE  \E m \in DOMAIN u : IsRow(u[m], i, r)
  <2>1. CASE i = a /\ r = s
    BY <1>1, <2>1
  <2>2. CASE Before(i, r, a, s)
    BY <1>1, <1>7, <2>2 DEF Laid
  <2>3. QED
    BY <1>4, <1>7, <2>1, <2>2
<1>8. ASSUME NEW i \in FoundPlans, i <= a, NEW g, GroupIs(t, i, g)
      PROVE  GroupIs(u, i, g)
  <2>1. i \in Nat /\ ~Before(a, s, i, 1)
    BY <1>2, <1>8 DEF Before
  <2>2. QED
    BY <1>3, <1>8, <2>1 DEF GroupIs
<1>9. QED
  BY <1>6, <1>7, <1>8 DEF Laid, u

LEMMA LaidUnused ==
  ASSUME PositionsSpared, NEW t, NEW a, NEW s, NEW z, a > Len(Plans), a \in Nat, Laid(t, a, s),
         NEW n, n \notin DOMAIN t, NEW e, OfUnused(e)
  PROVE  /\ Laid(With(t, n, e), a, z)
         /\ \A i \in FoundPlans : \A g : GroupIs(t, i, g) => GroupIs(With(t, n, e), i, g)
<1> DEFINE u == With(t, n, e)
<1>1. DOMAIN u = DOMAIN t \cup {n} /\ u[n] = e /\ \A m \in DOMAIN t : u[m] = t[m]
  BY DEF With, Over
<1>2. \A i, r : Earlier(u, i, r) = Earlier(t, i, r)
  BY AddedLater, RowsDiffer
<1>3. \A i \in FoundPlans : \A r : Before(i, r, a, s) /\ Before(i, r, a, z)
  BY PlansAre DEF Before
<1> HIDE DEF u
<1>4. ASSUME NEW m \in DOMAIN u
      PROVE  Known(u, m, a, z) \/ OfUnused(u[m])
  <2>1. CASE m = n
    BY <1>1, <2>1
  <2>2. CASE m \in DOMAIN t /\ ~OfUnused(t[m])
    <3>1. PICK i \in FoundPlans : \E r \in Rows(i) :
            Due(i, r) /\ IsRow(t[m], i, r) /\ NameIs(t, i, r, m)
      BY <2>2 DEF Laid, Known
    <3> PICK r \in Rows(i) : Due(i, r) /\ IsRow(t[m], i, r) /\ NameIs(t, i, r, m)
      BY <3>1
    <3>2. NameIs(u, i, r, m) /\ u[m] = t[m]
      BY <1>1, <1>2, <2>2, <3>1, SameEarlier
    <3>3. QED
      BY <1>3, <3>1, <3>2 DEF Known
  <2>3. QED
    BY <1>1, <2>1, <2>2
<1>5. ASSUME NEW i \in FoundPlans, NEW r \in Rows(i), Due(i, r)
      PROVE  \E m \in DOMAIN u : IsRow(u[m], i, r)
  BY <1>1, <1>3, <1>5 DEF Laid
<1>6. \A i \in FoundPlans : \A g : GroupIs(t, i, g) => GroupIs(u, i, g)
  BY <1>2 DEF GroupIs
<1>7. QED
  BY <1>4, <1>5, <1>6 DEF Laid, u

(* Rows that are not due change nothing.                                   *)
LEMMA LaidSkips ==
  ASSUME NEW t, NEW a, NEW s, NEW b, NEW z, Laid(t, a, s), a > Len(Plans) => b > Len(Plans),
         \A i \in FoundPlans : \A r \in Rows(i) : Due(i, r) => (Before(i, r, a, s) <=> Before(i, r, b, z))
  PROVE  Laid(t, b, z)
BY DEF Laid, Known

(* As long as a table follows another, both give the same names.           *)
LEMMA SameBefore ==
  ASSUME NEW t, NEW f, NEW a \in Nat, NEW s \in Nat, Follows(t, f, a, s),
         NEW i \in FoundPlans, NEW r \in Nat, ~Before(a, s, i, r)
  PROVE  Earlier(t, i, r) = Earlier(f, i, r)
<1>1. FoundPlans \subseteq Nat /\ \A j \in FoundPlans : Rows(j) \subseteq Nat
  BY PlansAre
<1>2. \A j \in FoundPlans : \A z \in Rows(j) : Before(j, z, i, r) => Before(j, z, a, s)
  BY <1>1 DEF Before
<1>3. Earlier(t, i, r) \subseteq Earlier(f, i, r)
  BY DEF Earlier, Follows, IsRow
<1>4. Earlier(f, i, r) \subseteq Earlier(t, i, r)
  BY <1>2 DEF Earlier, Follows, IsRow
<1>5. QED
  BY <1>3, <1>4

(* What a table has by a row of a plan is named as that row is.            *)
LEMMA RowKnown ==
  ASSUME PositionsSpared, NEW f, Laid(f, TablesEnd, 1), NEW i \in FoundPlans, NEW r,
         NEW m \in DOMAIN f, IsRow(f[m], i, r)
  PROVE  Due(i, r) /\ NameIs(f, i, r, m)
<1>1. ~OfUnused(f[m])
  BY RowsDiffer
<1>2. PICK j \in FoundPlans : \E z \in Rows(j) : Due(j, z) /\ IsRow(f[m], j, z) /\ NameIs(f, j, z, m)
  BY <1>1 DEF Laid, Known
<1>3. QED
  BY <1>2, RowsDiffer

LEMMA FollowsRow ==
  ASSUME PositionsSpared, NEW t, NEW f, NEW a \in FoundPlans, NEW s \in Rows(a),
         Follows(t, f, a, s), Laid(f, TablesEnd, 1), Due(a, s),
         NEW n, n \notin DOMAIN t, NEW e, IsRow(e, a, s), NameIs(t, a, s, n)
  PROVE  Follows(With(t, n, e), f, a, s + 1)
<1> DEFINE u == With(t, n, e)
<1>1. DOMAIN u = DOMAIN t \cup {n} /\ u[n] = e /\ \A m \in DOMAIN t : u[m] = t[m]
  BY DEF With, Over
<1> HIDE DEF u
<1>2. a \in 1..Len(Plans) /\ Len(Plans) \in Nat /\ s \in Nat \ {0} /\ FoundPlans \subseteq Nat
      /\ \A i \in FoundPlans : Rows(i) \subseteq Nat
  BY PlansAre
<1>3. Earlier(t, a, s) = Earlier(f, a, s) /\ Earlier(t, a, 1) = Earlier(f, a, 1)
  <2>1. ~Before(a, s, a, s) /\ ~Before(a, s, a, 1)
    BY <1>2 DEF Before
  <2>2. QED
    BY <1>2, <2>1, SameBefore
<1>4. NameIs(f, a, s, n)
  BY <1>3, SameEarlier
<1>5. Before(a, s, TablesEnd, 1)
  BY <1>2 DEF Before, TablesEnd
<1>6. \A m \in DOMAIN f : IsRow(f[m], a, s) => m = n
  BY <1>4, RowKnown, OneName
<1>7. n \in DOMAIN f /\ IsRow(f[n], a, s)
  <2>1. PICK m \in DOMAIN f : IsRow(f[m], a, s)
    BY <1>5 DEF Laid
  <2>2. QED
    BY <1>6, <2>1
<1>8. \A m \in DOMAIN u : m \in DOMAIN f /\ f[m].by = u[m].by
  BY <1>1, <1>7 DEF Follows, IsRow
<1>9. ASSUME NEW m \in DOMAIN f, NEW i \in FoundPlans, NEW r \in Rows(i),
             IsRow(f[m], i, r), Before(i, r, a, s + 1)
      PROVE  m \in DOMAIN u
  <2>1. Before(i, r, a, s) \/ (i = a /\ r = s)
    BY <1>2, <1>9 DEF Before
  <2>2. QED
    BY <1>1, <1>6, <1>9, <2>1 DEF Follows
<1>10. QED
  BY <1>8, <1>9 DEF Follows, u

LEMMA FollowsSkips ==
  ASSUME PositionsSpared, NEW t, NEW f, NEW a, NEW s, NEW b, NEW z, Follows(t, f, a, s), Laid(f, TablesEnd, 1),
         \A i \in FoundPlans : \A r \in Rows(i) : Due(i, r) => (Before(i, r, a, s) <=> Before(i, r, b, z))
  PROVE  Follows(t, f, b, z)
BY RowKnown DEF Follows

-----------------------------------------------------------------------------
LEMMA CoversCount ==
  /\ \A a : IsFiniteSet(UpTo(a)) /\ Cardinality(UpTo(a)) \in Nat
  /\ \A a \in Curtains : Cardinality(UpTo(a)) = Cardinality(UpTo(a - 1)) + 1
  /\ \A i \in Curtains, a \in Int : i <= a => Cardinality(UpTo(i)) <= Cardinality(UpTo(a))
  /\ \A i, j \in Curtains : Cardinality(UpTo(i)) = Cardinality(UpTo(j)) => i = j
<1>1. Len(Plans) \in Nat /\ Curtains \subseteq 1..Len(Plans) /\ \A i \in Curtains : i \in Int
  <2>1. Curtains \subseteq FoundPlans
    BY DEF Curtains
  <2>2. QED
    BY <2>1, PlansAre
<1>2. ASSUME NEW a
      PROVE  IsFiniteSet(UpTo(a)) /\ Cardinality(UpTo(a)) \in Nat
  <2>1. UpTo(a) \in SUBSET (1..Len(Plans))
    BY <1>1 DEF UpTo
  <2>2. IsFiniteSet(1..Len(Plans))
    BY <1>1, FS_Interval
  <2>3. IsFiniteSet(UpTo(a))
    BY <2>1, <2>2, FS_Subset
  <2>4. QED
    BY <2>3, FS_CardinalityType
<1>3. ASSUME NEW a \in Curtains
      PROVE  Cardinality(UpTo(a)) = Cardinality(UpTo(a - 1)) + 1
  <2>1. a \in Int
    BY <1>1
  <2>2. \A i \in Curtains : i <= a <=> i <= a - 1 \/ i = a
    BY <1>1, <2>1
  <2>3. UpTo(a) = UpTo(a - 1) \cup {a}
    BY <2>2 DEF UpTo
  <2>4. ~(a <= a - 1)
    BY <2>1
  <2>5. a \notin UpTo(a - 1)
    BY <2>4 DEF UpTo
  <2>6. QED
    BY <1>2, <2>3, <2>5, FS_AddElement
<1>4. ASSUME NEW i \in Curtains, NEW a \in Int, i <= a
      PROVE  Cardinality(UpTo(i)) <= Cardinality(UpTo(a))
  <2>1. i \in Int /\ \A j \in Curtains : j <= i => j <= a
    BY <1>1, <1>4
  <2>2. UpTo(i) \in SUBSET UpTo(a)
    BY <2>1 DEF UpTo
  <2>3. QED
    BY <1>2, <2>2, FS_Subset
<1>5. ASSUME NEW i \in Curtains, NEW j \in Curtains, i < j
      PROVE  Cardinality(UpTo(i)) < Cardinality(UpTo(j))
  <2>1. j - 1 \in Int /\ i <= j - 1
    BY <1>1, <1>5
  <2>2. Cardinality(UpTo(i)) <= Cardinality(UpTo(j - 1))
    BY <1>4, <2>1
  <2>3. QED
    BY <1>2, <1>3, <2>2
<1>6. ASSUME NEW i \in Curtains, NEW j \in Curtains, Cardinality(UpTo(i)) = Cardinality(UpTo(j))
      PROVE  i = j
  <2>1. ~(i < j) /\ ~(j < i)
    BY <1>2, <1>5, <1>6
  <2>2. QED
    BY <1>1, <2>1
<1>7. QED
  BY <1>2, <1>3, <1>4, <1>6

LEMMA CoversNext ==
  ASSUME NEW S, NEW list \in Seq(S), NEW t, NEW a \in Curtains, CoversLaid(list, t, a - 1),
         NEW c \in S, GroupIs(t, a, c.prefix)
  PROVE  CoversLaid(Append(list, c), t, a)
<1> DEFINE new == Append(list, c)
<1>1. /\ Len(list) \in Nat /\ DOMAIN list = 1..Len(list) /\ DOMAIN new = 1..Len(list) + 1
      /\ new[Len(list) + 1] = c /\ \A k \in 1..Len(list) : new[k] = list[k]
  BY AppendProperties, LenProperties
<1> HIDE DEF new
<1>2. Cardinality(UpTo(a - 1)) \in Nat /\ Cardinality(UpTo(a)) = Cardinality(UpTo(a - 1)) + 1
  BY CoversCount
<1>3. Len(list) = Cardinality(UpTo(a - 1))
  <2>1. 1..Len(list) = 1..Cardinality(UpTo(a - 1))
    BY <1>1 DEF CoversLaid
  <2>2. QED
    BY <1>1, <1>2, <2>1
<1>4. a \in Int /\ \A i \in Curtains : i \in Int
  BY PlansAre DEF Curtains
<1>5. a \in UpTo(a) /\ UpTo(a - 1) \subseteq UpTo(a)
  <2>1. a <= a /\ \A i \in Curtains : i <= a - 1 => i <= a
    BY <1>4
  <2>2. QED
    BY <2>1 DEF UpTo
<1>6. ASSUME NEW k \in DOMAIN new
      PROVE  \E i \in UpTo(a) : Cardinality(UpTo(i)) = k /\ GroupIs(t, i, new[k].prefix)
  <2>1. CASE k = Len(list) + 1
    BY <1>1, <1>2, <1>3, <1>5, <2>1
  <2>2. CASE k \in 1..Len(list)
    BY <1>1, <1>5, <2>2 DEF CoversLaid
  <2>3. QED
    BY <1>1, <2>1, <2>2
<1>7. QED
  BY <1>1, <1>2, <1>3, <1>6 DEF CoversLaid, new

LEMMA CoversKept ==
  ASSUME NEW list, NEW t, NEW u, NEW a, NEW b, CoversLaid(list, t, a), UpTo(a) = UpTo(b),
         \A i \in UpTo(a) : \A g : GroupIs(t, i, g) => GroupIs(u, i, g)
  PROVE  CoversLaid(list, u, b)
BY DEF CoversLaid

(* The covers of one list have the groups of another.                      *)
CoversFollow(list, model) ==
  \A k \in DOMAIN list : k \in DOMAIN model /\ list[k].prefix = model[k].prefix

LEMMA CoversFollowNext ==
  ASSUME NEW S, NEW list \in Seq(S), NEW model, NEW t, NEW f, NEW a \in Curtains, NEW c \in S,
         CoversLaid(list, t, a - 1), CoversLaid(model, f, Len(Plans)), CoversFollow(list, model),
         GroupIs(t, a, c.prefix), Earlier(t, a, 1) = Earlier(f, a, 1)
  PROVE  CoversFollow(Append(list, c), model)
<1> DEFINE new == Append(list, c)
<1>1. /\ Len(list) \in Nat /\ DOMAIN list = 1..Len(list) /\ DOMAIN new = 1..Len(list) + 1
      /\ new[Len(list) + 1] = c /\ \A k \in 1..Len(list) : new[k] = list[k]
  BY AppendProperties, LenProperties
<1> HIDE DEF new
<1>2. a \in Int /\ a <= Len(Plans) /\ Len(Plans) \in Int /\ UpTo(Len(Plans)) \subseteq Curtains
  BY PlansAre DEF Curtains, UpTo
<1>3. /\ Cardinality(UpTo(a - 1)) \in Nat /\ Cardinality(UpTo(a)) = Cardinality(UpTo(a - 1)) + 1
      /\ Cardinality(UpTo(Len(Plans))) \in Nat /\ Cardinality(UpTo(a)) <= Cardinality(UpTo(Len(Plans)))
  BY <1>2, CoversCount
<1>4. Len(list) = Cardinality(UpTo(a - 1))
  <2>1. 1..Len(list) = 1..Cardinality(UpTo(a - 1))
    BY <1>1 DEF CoversLaid
  <2>2. QED
    BY <1>1, <1>3, <2>1
<1> DEFINE k == Len(list) + 1
<1>5. k \in DOMAIN model
  BY <1>1, <1>3, <1>4 DEF CoversLaid
<1>6. PICK i \in UpTo(Len(Plans)) : Cardinality(UpTo(i)) = k /\ GroupIs(f, i, model[k].prefix)
  BY <1>5 DEF CoversLaid
<1>7. i = a
  BY <1>2, <1>3, <1>4, <1>6, CoversCount
<1>8. GroupIs(f, a, c.prefix)
  BY DEF GroupIs
<1>9. c.prefix = model[k].prefix
  BY <1>6, <1>7, <1>8, LeastIsOne DEF GroupIs
<1>10. QED
  BY <1>1, <1>5, <1>9 DEF CoversFollow, new

-----------------------------------------------------------------------------
RowNow == IF stage = "row" THEN row ELSE 1
PlanNow == IF stage = "row" THEN at ELSE at - 1

(* A cover of the first classification has the DPs its plan names.         *)
Given(code) == IF code \in ToSet(Dps) THEN code ELSE None
CoverOfPlan(c, p) ==
  /\ c.setp = Given(p.cover.target)
  /\ c.cur = IF Given(p.cover.position) # None THEN Given(p.cover.position) ELSE c.setp

(* A cover with two position DPs shows one.                                *)
Shows(list) == \A k \in DOMAIN list : Separate(list[k]) => list[k].cur # None

(* Where a classification is, and with which plans.                        *)
Walk ==
  /\ at \in Nat \ {0} /\ row \in Nat \ {0}
  /\ stage = "classify" => at = 1 /\ props = <<>> /\ covers = <<>>
  /\ stage = "row" => at \in plans /\ PlanAt(at).exposed
  /\ stage # "classify" =>
       /\ \A i \in plans : i <= Len(Plans) /\ PlanAt(i).exposed => i \in FoundPlans
       /\ \A i \in plans : i > Len(Plans) => first = <<>> /\ Dps[i - Len(Plans)] \in Unclaimed
       /\ block.auto => FoundPlans \subseteq plans
       /\ ~block.auto => plans = {}
  /\ ~block.auto => first = <<>> /\ props = <<>> /\ covers = <<>>

(* The names it gave.                                                      *)
Naming ==
  /\ stage = "row" /\ at \in FoundPlans => GroupIs(props, at, prefix)
  /\ block.auto => Laid(props, at, RowNow) /\ CoversLaid(covers, props, PlanNow)

(* The first classification sees the whole device, the second all but      *)
(* positions it can do without.                                            *)
Once == first = <<>>
FirstPass == Once =>
  /\ dps = ToSet(Dps)
  /\ \A k \in DOMAIN covers : \E i \in Curtains : CoverOfPlan(covers[k], Plans[i])
SecondPass == ~Once =>
  /\ ToSet(Dps) \ Spared \subseteq dps /\ dps \subseteq ToSet(Dps)
  /\ Shows(first.covers)
  /\ Laid(first.props, TablesEnd, 1) /\ CoversLaid(first.covers, first.props, Len(Plans))
  /\ Follows(props, first.props, at, RowNow) /\ CoversFollow(covers, first.covers)

ClassifyInv ==
  stage \in {"classify", "plan", "row"} => Walk /\ Naming /\ FirstPass /\ SecondPass

(* Afterwards what it gave stays.                                          *)
Shown(n) == n \in DOMAIN props \cup (IF stage = "ready" THEN Hidden ELSE {})
KeptInv == stage \in {"declare", "motions", "switches", "props", "ready"} =>
  /\ \A n \in OfTables(first.props) : Shown(n)
  /\ [i \in DOMAIN covers |-> covers[i].prefix] = [i \in DOMAIN first.covers |-> first.covers[i].prefix]
  /\ Shows(first.covers)
  /\ stage \in {"props", "ready"} =>
       \A i \in DOMAIN covers :
         block.deviceSettings /\ Separate(first.covers[i]) => Shown(SettingName(i, "position_from_target"))

-----------------------------------------------------------------------------
LEMMA FoundAre ==
  /\ \A i \in FoundPlans : PlanAt(i) = Plans[i] /\ Plans[i].exposed /\ i <= Len(Plans)
  /\ ToSet(Dps) \ Spared \subseteq dps /\ dps \subseteq ToSet(Dps) /\ PositionsSpared =>
       /\ \A i \in Classified : i <= Len(Plans) /\ (PlanAt(i).exposed => i \in FoundPlans)
       /\ FoundPlans \subseteq Classified
<1>1. Len(Plans) \in Nat /\ DOMAIN Plans = 1..Len(Plans) /\ FoundPlans \subseteq DOMAIN Plans
      /\ \A i \in FoundPlans : Plans[i].exposed
  BY PlansAre DEF FoundPlans
<1>2. \A i \in DOMAIN Plans : i <= Len(Plans) /\ PlanAt(i) = Plans[i]
  BY <1>1 DEF PlanAt
<1>3. ASSUME dps \subseteq ToSet(Dps), NEW i \in Classified
      PROVE  i <= Len(Plans) /\ (PlanAt(i).exposed => i \in FoundPlans)
  BY <1>2, <1>3 DEF Classified, FoundPlans
<1>4. ASSUME ToSet(Dps) \ Spared \subseteq dps, PositionsSpared, NEW i \in FoundPlans
      PROVE  i \in Classified
  <2>1. Plans[i].needs \cap Spared = {} /\ Plans[i].needs \subseteq ToSet(Dps) /\ i \in DOMAIN Plans
    BY <1>4 DEF PositionsSpared, FoundPlans
  <2>2. QED
    BY <1>4, <2>1 DEF Classified
<1>5. QED
  BY <1>1, <1>2, <1>3, <1>4

(* The plan in hand is a table's, or an unused DP's after these.           *)
LEMMA InHand ==
  ASSUME Grouped, Walk, at \in plans, PlanAt(at).exposed, stage # "classify"
  PROVE  /\ block.auto
         /\ \/ at \in FoundPlans
            \/ /\ at > Len(Plans) /\ Once /\ PlanAt(at).id \in Unclaimed /\ PlanAt(at).cover = None
               /\ \A i \in FoundPlans : i < at
<1>1. at \in Nat /\ Len(Plans) \in Nat
  BY PlansAre DEF Walk
<1>2. block.auto
  BY DEF Walk
<1>3. CASE at <= Len(Plans)
  BY <1>2, <1>3 DEF Walk
<1>4. CASE ~(at <= Len(Plans))
  <2>1. Once /\ Dps[at - Len(Plans)] \in Unclaimed /\ at > Len(Plans)
    BY <1>1, <1>4 DEF Walk, Once
  <2>2. PlanAt(at).id = Dps[at - Len(Plans)] /\ PlanAt(at).cover = None
    BY <1>4 DEF PlanAt, UnusedPlan
  <2>3. \A i \in FoundPlans : i < at
    BY <1>1, <2>1, PlansAre
  <2>4. QED
    BY <1>2, <2>1, <2>2, <2>3
<1>5. QED
  BY <1>3, <1>4

(* While the tables' plans are laid out, what there is comes from earlier  *)
(* rows.                                                                   *)
LEMMA AllEarlier ==
  ASSUME NEW t, NEW a \in FoundPlans, NEW s, Laid(t, a, s)
  PROVE  DOMAIN t = Earlier(t, a, s)
<1>1. ~(a > Len(Plans))
  BY PlansAre
<1>2. \A n \in DOMAIN t : Known(t, n, a, s)
  BY <1>1 DEF Laid
<1>3. QED
  BY <1>2 DEF Known, Earlier

LEMMA FreeNames ==
  ASSUME NEW n, NEW base
  PROVE  IsNameFor(n, base) <=> LeastFree(n, base, DOMAIN props)
BY DEF IsNameFor, LeastFree, Free

(* Where the cursor passes no row that is due, tables stay laid out.       *)
LEMMA Passing ==
  ASSUME PositionsSpared, Grouped, Walk, Naming, SecondPass, NEW b \in Nat, NEW z,
         at > Len(Plans) => b > Len(Plans),
         \A i \in FoundPlans : \A r \in Rows(i) : Due(i, r) => (Before(i, r, at, RowNow) <=> Before(i, r, b, z))
  PROVE  /\ block.auto => Laid(props, b, z)
         /\ ~Once => Follows(props, first.props, b, z)
<1>1. block.auto => Laid(props, b, z)
  BY LaidSkips DEF Naming
<1>2. ~Once => Follows(props, first.props, b, z)
  BY FollowsSkips DEF SecondPass
<1>3. QED
  BY <1>1, <1>2

LEMMA ClassifyBegins ==
  ASSUME PositionsSpared, Grouped, ClassifyInv, ClassifyFirst \/ ClassifyAgain
  PROVE  ClassifyInv'
<1>1. /\ stage = "classify" /\ stage' = "plan"
      /\ UNCHANGED <<block, dps, at, row, prefix, props, bindings, covers, first>>
  BY DEF ClassifyFirst, ClassifyAgain, names
<1>2. Walk /\ Naming /\ FirstPass /\ SecondPass
  BY <1>1 DEF ClassifyInv
<1>3. Naming' /\ FirstPass' /\ SecondPass'
  <2>1. RowNow' = RowNow /\ PlanNow' = PlanNow
    BY <1>1 DEF RowNow, PlanNow
  <2>2. QED
    BY <1>1, <1>2, <2>1 DEF Naming, FirstPass, SecondPass, Once, Shows, Separate
<1>4. CASE ClassifyFirst
  <2>1. /\ first = <<>> /\ dps = ToSet(Dps)
        /\ plans' = IF ~block.auto THEN {}
                    ELSE Classified \cup (IF block.unused THEN Unused(Classified) ELSE {})
    BY <1>2, <1>4 DEF ClassifyFirst, FirstPass, Once
  <2>2. \A i \in Classified : i <= Len(Plans) /\ (PlanAt(i).exposed => i \in FoundPlans)
    BY <2>1, FoundAre
  <2>3. FoundPlans \subseteq Classified
    BY <2>1, FoundAre
  <2>4. {f \in Classified : Plans[f].exposed} = FoundPlans
    BY <2>1 DEF Classified, FoundPlans
  <2>5. ASSUME NEW i \in Unused(Classified)
        PROVE  ~(i <= Len(Plans)) /\ Dps[i - Len(Plans)] \in Unclaimed
    <3>1. PICK d \in DOMAIN Dps :
            i = Len(Plans) + d /\ Dps[d] \notin UNION {Plans[j].codes : j \in {f \in Classified : Plans[f].exposed}}
      BY DEF Unused
    <3>2. Dps[d] \notin UNION {Plans[j].codes : j \in FoundPlans}
      BY <2>4, <3>1
    <3>3. Dps[d] \in Unclaimed
      BY <3>2 DEF Unclaimed, ToSet
    <3>4. Len(Plans) \in Nat /\ d \in Nat \ {0}
      BY PlansAre, AssemblyAssumption, LenProperties
    <3>5. i - Len(Plans) = d /\ ~(i <= Len(Plans))
      BY <3>1, <3>4
    <3>6. QED
      BY <3>3, <3>5
  <2>6. \A i \in Classified : ~(i > Len(Plans))
    BY <2>2, PlansAre DEF Classified
  <2>7. \A i \in plans' : /\ i <= Len(Plans) /\ PlanAt(i).exposed => i \in FoundPlans
                          /\ i > Len(Plans) => Dps[i - Len(Plans)] \in Unclaimed
    BY <2>1, <2>2, <2>5, <2>6
  <2>8. block.auto => FoundPlans \subseteq plans'
    BY <2>1, <2>3
  <2>9. Walk'
    BY <1>1, <1>2, <2>1, <2>7, <2>8 DEF Walk
  <2>10. QED
    BY <1>3, <2>9 DEF ClassifyInv
<1>5. CASE ClassifyAgain
  <2>1. ~Once /\ plans' = Classified /\ block.auto
    BY <1>2, <1>5 DEF ClassifyAgain, Once, Walk
  <2>2. \A i \in Classified : i <= Len(Plans) /\ (PlanAt(i).exposed => i \in FoundPlans)
    BY <1>2, <2>1, FoundAre DEF SecondPass
  <2>3. FoundPlans \subseteq Classified
    BY <1>2, <2>1, FoundAre DEF SecondPass
  <2>4. \A i \in Classified : ~(i > Len(Plans))
    BY <2>2, PlansAre DEF Classified
  <2>5. Walk'
    BY <1>1, <1>2, <2>1, <2>2, <2>3, <2>4 DEF Walk, PlanAt
  <2>6. QED
    BY <1>3, <2>5 DEF ClassifyInv
<1>6. QED
  BY <1>4, <1>5

LEMMA PlanOpens ==
  ASSUME PositionsSpared, Grouped, Grouped', ClassifyInv, OpenPlan
  PROVE  ClassifyInv'
<1>1. /\ stage = "plan" /\ stage' = "row" /\ row' = 1 /\ at \in plans /\ PlanAt(at).exposed
      /\ UNCHANGED <<block, dps, plans, at, props, first>>
  BY DEF OpenPlan
<1>2. Walk /\ Naming /\ FirstPass /\ SecondPass
  BY <1>1 DEF ClassifyInv
<1>3. PICK group :
        /\ IF PlanAt(at).composite /\ ~IsMain THEN IsNameFor(group, PlanAt(at).key) ELSE group = <<>>
        /\ prefix' = group
        /\ covers' = IF PlanAt(at).cover = None THEN covers ELSE Append(covers, CoverFound(PlanAt(at), group))
  BY DEF OpenPlan
<1>4. RowNow = 1 /\ RowNow' = 1 /\ PlanNow = at - 1 /\ PlanNow' = at
  BY <1>1 DEF RowNow, PlanNow
<1>5. block.auto /\ \/ at \in FoundPlans
                    \/ at > Len(Plans) /\ Once /\ PlanAt(at).cover = None /\ \A i \in FoundPlans : i < at
  BY <1>1, <1>2, InHand
<1>6. Walk'
  <2>1. 1 \in Nat \ {0} /\ stage' # "classify"
    BY <1>1
  <2>2. at' \in plans' /\ PlanAt(at').exposed
    BY <1>1
  <2>3. QED
    BY <1>1, <1>2, <1>5, <2>1, <2>2 DEF Walk
<1>7. Laid(props', at', RowNow') /\ (~Once' => Follows(props', first'.props, at', RowNow'))
  BY <1>1, <1>2, <1>4, <1>5 DEF Naming, SecondPass, Once
<1>8. Laid(props, at, 1) /\ CoversLaid(covers, props, at - 1)
  BY <1>2, <1>4, <1>5 DEF Naming
<1>9. at \in Int /\ covers \in Seq(CoverRecords) /\ \A i \in Curtains : i \in Int
  <2>1. Curtains \subseteq FoundPlans
    BY DEF Curtains
  <2>2. QED
    BY <1>2, <2>1, PlansAre DEF Grouped, Walk
<1>10. CASE at \in FoundPlans
  <2>1. PlanAt(at) = Plans[at]
    BY <1>10, FoundAre
  <2>2. ~IsMain <=> \E j \in FoundPlans : j < at /\ Plans[j].composite
    <3>1. FoundPlans \subseteq plans
      BY <1>1, <1>2, <1>5 DEF Walk
    <3>2. \A j \in plans : j < at /\ PlanAt(j).exposed => j \in FoundPlans
      <4>1. at <= Len(Plans) /\ Len(Plans) \in Int /\ \A j \in plans : j \in Int
        BY <1>10, PlansAre, FoundAre, AssemblyAssumption, LenProperties DEF Grouped, Places
      <4>2. \A j \in plans : j < at => j <= Len(Plans)
        BY <1>9, <4>1
      <4>3. QED
        BY <1>1, <1>2, <4>2 DEF Walk
    <3>3. \A j \in FoundPlans : PlanAt(j) = Plans[j] /\ PlanAt(j).exposed
      BY FoundAre
    <3>4. QED
      BY <3>1, <3>2, <3>3 DEF IsMain
  <2>3. DOMAIN props = Earlier(props, at, 1)
    BY <1>8, <1>10, AllEarlier
  <2>4. GroupIs(props, at, group)
    BY <1>3, <2>1, <2>2, <2>3, FreeNames DEF GroupIs, Secondary
  <2>5. CASE at \in Curtains
    <3> DEFINE c == CoverFound(Plans[at], group)
    <3>1. covers' = Append(covers, c) /\ c.prefix = group
      BY <1>3, <2>1, <2>5 DEF Curtains, CoverFound
    <3>2. c \in CoverRecords
      <4>1. Len(covers) \in Nat /\ covers' \in Seq(CoverRecords) /\ covers'[Len(covers) + 1] = c
            /\ Len(covers) + 1 \in DOMAIN covers'
        BY <1>9, <3>1, AppendProperties, LenProperties DEF Grouped
      <4>2. QED
        BY <4>1, ElementOfSeq
    <3>3. CoverOfPlan(c, Plans[at]) \/ ~Once
      BY <1>2 DEF CoverOfPlan, CoverFound, Present, Given, FirstPass
    <3> HIDE DEF c
    <3>4. CoversLaid(covers', props, at)
      BY <1>8, <1>9, <2>4, <2>5, <3>1, <3>2, CoversNext
    <3>5. ~Once => CoversFollow(covers', first.covers)
      <4> SUFFICES ASSUME ~Once PROVE CoversFollow(covers', first.covers)
        OBVIOUS
      <4>1. ~Before(at, 1, at, 1)
        BY <1>9 DEF Before
      <4>2. Follows(props, first.props, at, 1) /\ CoversLaid(first.covers, first.props, Len(Plans))
            /\ CoversFollow(covers, first.covers)
        BY <1>2, <1>4 DEF SecondPass
      <4>3. Earlier(props, at, 1) = Earlier(first.props, at, 1)
        BY <1>2, <1>10, <4>1, <4>2, SameBefore DEF Walk
      <4>4. QED
        BY <1>8, <1>9, <2>4, <2>5, <3>1, <3>2, <4>2, <4>3, CoversFollowNext
    <3>6. Once => \A k \in DOMAIN covers' : \E i \in Curtains : CoverOfPlan(covers'[k], Plans[i])
      <4>1. /\ DOMAIN covers' = 1..Len(covers) + 1 /\ Len(covers) \in Nat /\ DOMAIN covers = 1..Len(covers)
            /\ covers'[Len(covers) + 1] = c /\ \A k \in 1..Len(covers) : covers'[k] = covers[k]
        BY <1>9, <3>1, <3>2, AppendProperties, LenProperties
      <4>2. \A k \in DOMAIN covers' : k = Len(covers) + 1 \/ k \in 1..Len(covers)
        BY <4>1
      <4>3. QED
        BY <1>2, <2>5, <3>3, <4>1, <4>2 DEF FirstPass
    <3>7. Naming'
      BY <1>1, <1>3, <1>4, <1>7, <2>4, <3>4 DEF Naming
    <3>8. FirstPass' /\ SecondPass'
      BY <1>1, <1>2, <1>7, <3>5, <3>6 DEF FirstPass, SecondPass, Once, CoverOfPlan, Shows, Separate
    <3>9. QED
      BY <1>1, <1>6, <3>7, <3>8 DEF ClassifyInv
  <2>6. CASE at \notin Curtains
    <3>1. covers' = covers
      BY <1>3, <1>10, <2>1, <2>6 DEF Curtains
    <3>2. \A i \in Curtains : i <= at <=> i <= at - 1
      BY <1>9, <2>6
    <3>3. UpTo(at - 1) = UpTo(at)
      BY <3>2 DEF UpTo
    <3>4. CoversLaid(covers, props, at)
      BY <1>8, <3>3, CoversKept
    <3>5. Naming'
      BY <1>1, <1>3, <1>4, <1>7, <2>4, <3>1, <3>4 DEF Naming
    <3>6. FirstPass' /\ SecondPass'
      BY <1>1, <1>2, <1>7, <3>1 DEF FirstPass, SecondPass, Once, CoverOfPlan, Shows, Separate
    <3>7. QED
      BY <1>1, <1>6, <3>5, <3>6 DEF ClassifyInv
  <2>7. QED
    BY <2>5, <2>6
<1>11. CASE at \notin FoundPlans
  <2>1. covers' = covers
    BY <1>3, <1>5, <1>11
  <2>2. \A i \in Curtains : i <= at <=> i <= at - 1
    BY <1>5, <1>9, <1>11 DEF Curtains
  <2>3. UpTo(at - 1) = UpTo(at)
    BY <2>2 DEF UpTo
  <2>4. CoversLaid(covers, props, at)
    BY <1>8, <2>3, CoversKept
  <2>5. Naming'
    BY <1>1, <1>4, <1>7, <1>11, <2>1, <2>4 DEF Naming
  <2>6. FirstPass' /\ SecondPass'
    BY <1>1, <1>2, <1>7, <2>1 DEF FirstPass, SecondPass, Once, CoverOfPlan, Shows, Separate
  <2>7. QED
    BY <1>1, <1>6, <2>5, <2>6 DEF ClassifyInv
<1>12. QED
  BY <1>10, <1>11

(* What is left to show where no property and no cover is made.            *)
LEMMA CursorMoves ==
  ASSUME ClassifyInv, stage \in {"plan", "row"}, stage' \in {"plan", "row"},
         UNCHANGED <<block, dps, plans, prefix, props, covers, first>>,
         at' \in Nat \ {0}, row' \in Nat \ {0},
         stage' = "row" => stage = "row" /\ at' = at, UpTo(PlanNow') = UpTo(PlanNow),
         block.auto => Laid(props, at', RowNow'),
         ~Once => Follows(props, first.props, at', RowNow')
  PROVE  ClassifyInv'
<1>1. Walk /\ Naming /\ FirstPass /\ SecondPass
  BY DEF ClassifyInv
<1>2. Walk'
  <2>1. stage' = "row" => at' \in plans' /\ PlanAt(at').exposed
    BY <1>1 DEF Walk
  <2>2. stage' # "classify" /\ stage # "classify"
    OBVIOUS
  <2>3. QED
    BY <1>1, <2>1, <2>2 DEF Walk
<1>3. block.auto => CoversLaid(covers, props, PlanNow')
  BY <1>1, CoversKept DEF Naming
<1>4. Naming'
  BY <1>1, <1>3 DEF Naming
<1>5. FirstPass' /\ SecondPass'
  BY <1>1 DEF FirstPass, SecondPass, Once, CoverOfPlan, Shows, Separate
<1>6. QED
  BY <1>2, <1>4, <1>5 DEF ClassifyInv

LEMMA PlanSkipped ==
  ASSUME PositionsSpared, Grouped, ClassifyInv, SkipPlan
  PROVE  ClassifyInv'
<1>1. /\ stage = "plan" /\ stage' = "plan" /\ at' = at + 1 /\ (at \in plans => ~PlanAt(at).exposed)
      /\ UNCHANGED <<block, dps, plans, prefix, props, covers, first, row>>
  BY DEF SkipPlan, names
<1>2. Walk /\ Naming /\ FirstPass /\ SecondPass
  BY <1>1 DEF ClassifyInv
<1>3. RowNow = 1 /\ RowNow' = 1 /\ PlanNow = at - 1 /\ PlanNow' = at + 1 - 1 /\ at \in Nat \ {0}
  BY <1>1, <1>2 DEF RowNow, PlanNow, Walk
<1>4. block.auto => at \notin FoundPlans
  BY <1>1, <1>2, FoundAre DEF Walk
<1>5. ~Once => block.auto
  BY <1>2 DEF Walk, Once
<1>6. CASE block.auto
  <2>1. FoundPlans \subseteq Int /\ \A i \in FoundPlans : \A r \in Rows(i) : r \in Nat \ {0}
    BY PlansAre
  <2>2. \A i \in FoundPlans : \A r \in Rows(i) : Before(i, r, at, 1) <=> Before(i, r, at + 1, 1)
    BY <1>3, <1>4, <1>6, <2>1 DEF Before
  <2>3. at > Len(Plans) => at + 1 > Len(Plans)
    BY <1>3, PlansAre
  <2>4. /\ Laid(props, at + 1, 1)
        /\ ~Once => Follows(props, first.props, at + 1, 1)
    BY <1>2, <1>3, <1>6, <2>2, <2>3, Passing
  <2>5. \A i \in Curtains : i <= at - 1 <=> i <= at + 1 - 1
    BY <1>3, <1>4, <1>6, <2>1 DEF Curtains
  <2>6. UpTo(PlanNow') = UpTo(PlanNow)
    BY <1>3, <2>5 DEF UpTo
  <2>7. at' \in Nat \ {0} /\ row' \in Nat \ {0}
    BY <1>1, <1>2, <1>3 DEF Walk
  <2>8. QED
    BY <1>1, <1>3, <2>4, <2>6, <2>7, CursorMoves
<1>7. CASE ~block.auto
  <2>1. Once /\ Once' /\ at' \in Nat \ {0}
    BY <1>1, <1>3, <1>5, <1>7 DEF Once
  <2>2. Walk'
    BY <1>1, <1>2, <1>7, <2>1 DEF Walk
  <2>3. Naming' /\ FirstPass' /\ SecondPass'
    BY <1>1, <1>2, <1>7, <2>1 DEF Naming, FirstPass, SecondPass, CoverOfPlan
  <2>4. QED
    BY <1>1, <2>2, <2>3 DEF ClassifyInv
<1>8. QED
  BY <1>6, <1>7

LEMMA RowSkipped ==
  ASSUME PositionsSpared, Grouped, ClassifyInv, SkipRow
  PROVE  ClassifyInv'
<1>1. /\ stage = "row" /\ stage' = "row" /\ row' = row + 1 /\ row \in DOMAIN PlanAt(at).rows
      /\ Row.of \cap dps = {}
      /\ UNCHANGED <<block, dps, plans, at, prefix, props, covers, first>>
  BY DEF SkipRow, names
<1>2. Walk /\ Naming /\ FirstPass /\ SecondPass
  BY <1>1 DEF ClassifyInv
<1>3. /\ RowNow = row /\ RowNow' = row + 1 /\ PlanNow' = PlanNow
      /\ at \in Nat \ {0} /\ row \in Nat \ {0}
  BY <1>1, <1>2 DEF RowNow, PlanNow, Walk
<1>4. /\ block.auto
      /\ at \in FoundPlans \/ \A i \in FoundPlans : i < at
  BY <1>1, <1>2, InHand DEF Walk
<1>5. at \in FoundPlans => ~Due(at, row)
  <2> SUFFICES ASSUME at \in FoundPlans, Due(at, row) PROVE FALSE
    OBVIOUS
  <2>1. PlanAt(at) = Plans[at]
    BY FoundAre
  <2>2. Plans[at].rows[row].of \cap dps = {} /\ row \in DOMAIN Plans[at].rows
    BY <1>1, <2>1 DEF Row
  <2>3. (Plans[at].rows[row].of \cap ToSet(Dps)) \ Spared # {}
    BY <2>2 DEF PositionsSpared, Due
  <2>4. ToSet(Dps) \ Spared \subseteq dps
    BY <1>2 DEF FirstPass, SecondPass
  <2>5. QED
    BY <2>2, <2>3, <2>4
<1>6. FoundPlans \subseteq Int /\ \A i \in FoundPlans : \A r \in Rows(i) : r \in Nat \ {0}
  BY PlansAre
<1>7. ASSUME NEW i \in FoundPlans, NEW r \in Rows(i), Due(i, r)
      PROVE  Before(i, r, at, row) <=> Before(i, r, at, row + 1)
  <2>1. i = at => r # row
    BY <1>5, <1>7
  <2>2. QED
    BY <1>3, <1>6, <2>1 DEF Before
<1>8. /\ Laid(props, at, row + 1)
      /\ ~Once => Follows(props, first.props, at, row + 1)
  BY <1>2, <1>3, <1>4, <1>7, Passing
<1>9. row' \in Nat \ {0} /\ at' = at
  BY <1>1, <1>3
<1>10. QED
  BY <1>1, <1>3, <1>8, <1>9, CursorMoves

LEMMA PlanCloses ==
  ASSUME PositionsSpared, Grouped, ClassifyInv, ClosePlan
  PROVE  ClassifyInv'
<1>1. /\ stage = "row" /\ stage' = "plan" /\ at' = at + 1 /\ row \notin DOMAIN PlanAt(at).rows
      /\ UNCHANGED <<block, dps, plans, row, prefix, props, covers, first>>
  BY DEF ClosePlan, names
<1>2. Walk /\ Naming /\ FirstPass /\ SecondPass
  BY <1>1 DEF ClassifyInv
<1>3. /\ RowNow = row /\ RowNow' = 1 /\ PlanNow' = at + 1 - 1 /\ PlanNow = at
      /\ at \in Nat \ {0} /\ row \in Nat \ {0}
  BY <1>1, <1>2 DEF RowNow, PlanNow, Walk
<1>4. /\ block.auto
      /\ at \in FoundPlans \/ \A i \in FoundPlans : i < at
  BY <1>1, <1>2, InHand DEF Walk
<1>5. /\ FoundPlans \subseteq Int
      /\ \A i \in FoundPlans : Rows(i) = 1..Len(Plans[i].rows) /\ Len(Plans[i].rows) \in Nat
  BY PlansAre
<1>6. at \in FoundPlans => \A r \in Rows(at) : r < row
  <2> SUFFICES ASSUME at \in FoundPlans, NEW r \in Rows(at) PROVE r < row
    OBVIOUS
  <2>1. row \notin Rows(at)
    BY <1>1, FoundAre DEF Rows
  <2>2. QED
    BY <1>3, <1>5, <2>1
<1>7. ASSUME NEW i \in FoundPlans, NEW r \in Rows(i)
      PROVE  Before(i, r, at, row) <=> Before(i, r, at + 1, 1)
  <2>1. i \in Int /\ r \in Nat \ {0} /\ (i = at => r < row)
    BY <1>5, <1>6
  <2>2. QED
    BY <1>3, <2>1 DEF Before
<1>8. at > Len(Plans) => at + 1 > Len(Plans)
  BY <1>3, PlansAre
<1>9. /\ Laid(props, at + 1, 1)
      /\ ~Once => Follows(props, first.props, at + 1, 1)
  BY <1>2, <1>3, <1>4, <1>7, <1>8, Passing
<1>10. at' \in Nat \ {0} /\ row' \in Nat \ {0} /\ PlanNow' = PlanNow
  BY <1>1, <1>3
<1>11. QED
  BY <1>1, <1>3, <1>9, <1>10, CursorMoves

LEMMA RowAdded ==
  ASSUME PositionsSpared, Grouped, ClassifyInv, AddRow
  PROVE  ClassifyInv'
<1>1. /\ stage = "row" /\ stage' = "row" /\ row' = row + 1 /\ row \in DOMAIN PlanAt(at).rows
      /\ Row.of \cap dps # {}
      /\ UNCHANGED <<block, dps, plans, at, prefix, covers, first>>
  BY DEF AddRow
<1>2. Walk /\ Naming /\ FirstPass /\ SecondPass
  BY <1>1 DEF ClassifyInv
<1>3. /\ RowNow = row /\ RowNow' = row + 1 /\ PlanNow = at /\ PlanNow' = at
      /\ at \in Nat \ {0} /\ row \in Nat \ {0}
  BY <1>1, <1>2 DEF RowNow, PlanNow, Walk
<1>4. /\ block.auto
      /\ \/ at \in FoundPlans
         \/ /\ at > Len(Plans) /\ Once /\ PlanAt(at).id \in Unclaimed
            /\ \A i \in FoundPlans : i < at
  BY <1>1, <1>2, InHand DEF Walk
<1>5. PICK name :
        /\ IsNameFor(name, IF Row.grouped THEN prefix \o Row.name ELSE Row.name)
        /\ Defines([n \in {name} |-> [by |-> <<"row", PlanAt(at).id, row>>, rw |-> Row.writable]])
  BY DEF AddRow
<1> DEFINE entry == [by |-> <<"row", PlanAt(at).id, row>>, rw |-> Row.writable]
<1>6. props' = With(props, name, entry)
  BY <1>5 DEF Defines, With
<1>7. entry.by = <<"row", PlanAt(at).id, row>>
  OBVIOUS
<1> HIDE DEF entry
<1>8. name \notin DOMAIN props
  BY <1>5 DEF IsNameFor, Free
<1>9. Laid(props, at, row) /\ CoversLaid(covers, props, at)
  BY <1>2, <1>3, <1>4 DEF Naming
<1>10. /\ Laid(props', at, row + 1)
       /\ \A i \in FoundPlans : i <= at => \A g : GroupIs(props, i, g) => GroupIs(props', i, g)
       /\ ~Once => Follows(props', first.props, at, row + 1)
  <2>1. CASE at \in FoundPlans
    <3>1. PlanAt(at) = Plans[at]
      BY <2>1, FoundAre
    <3>2. row \in Rows(at) /\ Row = Plans[at].rows[row] /\ IsRow(entry, at, row)
      BY <1>1, <1>7, <3>1 DEF Rows, Row, IsRow
    <3>3. dps \subseteq ToSet(Dps)
      BY <1>2 DEF FirstPass, SecondPass
    <3>4. Due(at, row)
      BY <1>1, <3>2, <3>3 DEF Due
    <3>5. GroupIs(props, at, prefix)
      BY <1>1, <1>2, <2>1 DEF Naming
    <3>6. LeastFree(name, Base(prefix, at, row), Earlier(props, at, row))
      <4>1. DOMAIN props = Earlier(props, at, row)
        BY <1>9, <2>1, AllEarlier
      <4>2. QED
        BY <1>5, <3>2, <4>1, FreeNames DEF Base
    <3>7. NameIs(props, at, row, name)
      BY <3>5, <3>6 DEF NameIs
    <3>8. /\ Laid(props', at, row + 1)
          /\ \A i \in FoundPlans : i <= at => \A g : GroupIs(props, i, g) => GroupIs(props', i, g)
      BY <1>6, <1>8, <1>9, <2>1, <3>2, <3>4, <3>7, LaidRow
    <3>9. ~Once => Follows(props', first.props, at, row + 1)
      BY <1>2, <1>3, <1>6, <1>8, <2>1, <3>2, <3>4, <3>7, FollowsRow DEF SecondPass
    <3>10. QED
      BY <3>8, <3>9
  <2>2. CASE at \notin FoundPlans
    <3>1. OfUnused(entry)
      BY <1>3, <1>4, <1>7, <2>2 DEF OfUnused
    <3>2. QED
      BY <1>3, <1>4, <1>6, <1>8, <1>9, <2>2, <3>1, LaidUnused
  <2>3. QED
    BY <2>1, <2>2
<1>11. Walk'
  <2>1. row' \in Nat \ {0} /\ at' \in plans' /\ PlanAt(at').exposed
    BY <1>1, <1>2, <1>3 DEF Walk
  <2>2. QED
    BY <1>1, <1>2, <1>4, <2>1 DEF Walk
<1>12. CoversLaid(covers, props', at)
  <2>1. \A i \in UpTo(at) : i \in FoundPlans /\ i <= at
    BY DEF UpTo, Curtains
  <2>2. QED
    BY <1>9, <1>10, <2>1, CoversKept
<1>13. Naming'
  <2>1. at \in FoundPlans => GroupIs(props', at, prefix)
    BY <1>1, <1>2, <1>3, <1>10 DEF Naming
  <2>2. QED
    BY <1>1, <1>3, <1>10, <1>12, <2>1 DEF Naming
<1>14. FirstPass' /\ SecondPass'
  BY <1>1, <1>2, <1>3, <1>10 DEF FirstPass, SecondPass, Once, CoverOfPlan, Shows, Separate
<1>15. QED
  BY <1>1, <1>11, <1>13, <1>14 DEF ClassifyInv

(* After the last place the tables' rows have all been named.              *)
LEMMA AllLaid ==
  ASSUME Grouped, ClassifyInv, Assembled
  PROVE  /\ Walk /\ Naming /\ FirstPass /\ SecondPass /\ at > Len(Plans)
         /\ block.auto => Laid(props, TablesEnd, 1) /\ CoversLaid(covers, props, Len(Plans))
         /\ FirstPass /\ Once => Shows(covers)
<1>1. stage = "plan" /\ at \notin Places
  BY DEF Assembled
<1>2. Walk /\ Naming /\ FirstPass /\ SecondPass
  BY <1>1 DEF ClassifyInv
<1>3. Len(Plans) \in Nat /\ Len(Dps) \in Nat /\ at \in Nat \ {0}
  BY <1>2, PlansAre, AssemblyAssumption, LenProperties DEF Walk
<1>4. at > Len(Plans)
  BY <1>1, <1>3 DEF Places
<1>5. RowNow = 1 /\ PlanNow = at - 1
  BY <1>1 DEF RowNow, PlanNow
<1>6. ASSUME block.auto
      PROVE  Laid(props, TablesEnd, 1) /\ CoversLaid(covers, props, Len(Plans))
  <2>1. FoundPlans \subseteq 1..Len(Plans) /\ Curtains \subseteq FoundPlans
    BY PlansAre DEF Curtains
  <2>2. \A i \in FoundPlans : \A r : Before(i, r, at, 1) /\ Before(i, r, TablesEnd, 1)
    BY <1>3, <1>4, <2>1 DEF Before, TablesEnd
  <2>3. TablesEnd > Len(Plans)
    BY <1>3 DEF TablesEnd
  <2>4. Laid(props, at, 1) /\ CoversLaid(covers, props, at - 1)
    BY <1>2, <1>5, <1>6 DEF Naming
  <2>5. Laid(props, TablesEnd, 1)
    BY <2>2, <2>3, <2>4, LaidSkips
  <2>6. \A i \in Curtains : i <= at - 1 <=> i <= Len(Plans)
    BY <1>3, <1>4, <2>1
  <2>7. UpTo(at - 1) = UpTo(Len(Plans))
    BY <2>6 DEF UpTo
  <2>8. CoversLaid(covers, props, Len(Plans))
    BY <2>4, <2>7, CoversKept
  <2>9. QED
    BY <2>5, <2>8
<1>7. FirstPass /\ Once => Shows(covers)
  BY DEF FirstPass, CoverOfPlan, Shows, Separate
<1>8. QED
  BY <1>2, <1>4, <1>6, <1>7

LEMMA TargetsSelected ==
  ASSUME PositionsSpared, Grouped, ClassifyInv, SelectTargets
  PROVE  ClassifyInv'
<1>1. /\ Assembled /\ Once /\ Dropped # {}
      /\ first' = [props |-> props, covers |-> covers]
      /\ dps' = dps \ Dropped /\ stage' = "classify" /\ at' = 1 /\ row' = 1
      /\ props' = <<>> /\ covers' = <<>> /\ block' = block
  BY DEF SelectTargets, Once
<1>2. /\ Walk /\ FirstPass /\ Shows(covers)
      /\ block.auto => Laid(props, TablesEnd, 1) /\ CoversLaid(covers, props, Len(Plans))
  BY <1>1, AllLaid
<1>3. block.auto
  <2>1. covers # <<>>
    BY <1>1 DEF Dropped, ToSet
  <2>2. QED
    BY <1>2, <2>1 DEF Walk
<1>4. first'.props = props /\ first'.covers = covers /\ first' # <<>>
  BY <1>1
<1>5. Dropped \subseteq Spared
  <2> SUFFICES ASSUME NEW c \in ToSet(covers), Separate(c), c.cur # None PROVE c.cur \in Spared
    BY DEF Dropped
  <2>1. PICK i \in Curtains : CoverOfPlan(c, Plans[i])
    BY <1>1, <1>2 DEF FirstPass, ToSet
  <2> DEFINE d == Plans[i].cover
  <2>2. i \in FoundPlans /\ d # None
    BY DEF Curtains
  <2>3. /\ d.target \in ToSet(Dps) /\ c.setp = d.target
        /\ d.position \in ToSet(Dps) /\ c.cur = d.position
    BY <2>1 DEF CoverOfPlan, Given, Separate
  <2>4. d.target # d.position
    BY <2>3 DEF Separate
  <2>5. QED
    BY <2>2, <2>3, <2>4 DEF Spared
<1>6. ToSet(Dps) \ Spared \subseteq dps' /\ dps' \subseteq ToSet(Dps)
  BY <1>1, <1>2, <1>5 DEF FirstPass
<1>7. RowNow' = 1 /\ PlanNow' = 1 - 1
  BY <1>1 DEF RowNow, PlanNow
<1>8. FoundPlans \subseteq Nat \ {0} /\ \A i \in FoundPlans : Rows(i) \subseteq Nat \ {0}
  BY PlansAre
<1>9. \A i \in FoundPlans : \A r \in Rows(i) : ~Before(i, r, 1, 1)
  BY <1>8 DEF Before
<1>10. Laid(props', 1, 1) /\ Follows(props', first'.props, 1, 1)
  <2>1. DOMAIN props' = {}
    BY <1>1
  <2>2. QED
    BY <1>9, <2>1 DEF Laid, Follows
<1>11. CoversLaid(covers', props', 1 - 1) /\ CoversFollow(covers', first'.covers)
  <2>1. DOMAIN covers' = {}
    BY <1>1
  <2>2. UpTo(1 - 1) = {}
    <3>1. \A i \in Curtains : ~(i <= 1 - 1)
      BY <1>8 DEF Curtains
    <3>2. QED
      BY <3>1 DEF UpTo
  <2>3. 1..Cardinality(UpTo(1 - 1)) = {}
    BY <2>2, FS_EmptySet
  <2>4. QED
    BY <2>1, <2>3 DEF CoversLaid, CoversFollow
<1>12. Walk'
  BY <1>1, <1>3 DEF Walk
<1>13. Naming'
  BY <1>1, <1>7, <1>10, <1>11 DEF Naming
<1>14. ~Once' /\ FirstPass'
  BY <1>4 DEF Once, FirstPass
<1>15. SecondPass'
  <2>1. Shows(first'.covers)
    BY <1>2, <1>4
  <2>2. QED
    BY <1>1, <1>2, <1>3, <1>4, <1>6, <1>7, <1>10, <1>11, <2>1 DEF SecondPass, Shows, Separate
<1>16. QED
  BY <1>12, <1>13, <1>14, <1>15 DEF ClassifyInv

LEMMA CoversMade ==
  ASSUME PositionsSpared, Grouped, ClassifyInv, MakeCovers
  PROVE  ClassifyInv' /\ KeptInv'
<1>1. /\ Assembled /\ stage' \in {"declare", "failed"} /\ UNCHANGED <<props, covers>>
      /\ first' = IF Once THEN [props |-> props, covers |-> covers] ELSE first
  BY DEF MakeCovers, names, Once
<1>2. /\ Walk /\ Naming /\ FirstPass /\ SecondPass /\ at > Len(Plans) /\ (Once => Shows(covers))
      /\ block.auto => Laid(props, TablesEnd, 1) /\ CoversLaid(covers, props, Len(Plans))
  BY <1>1, AllLaid
<1>3. CASE Once
  <2>1. first'.props = props' /\ first'.covers = covers'
    BY <1>1, <1>3
  <2>2. Shows(first'.covers)
    BY <1>1, <1>2, <1>3, <2>1
  <2>3. QED
    BY <1>1, <2>1, <2>2 DEF ClassifyInv, KeptInv, OfTables, Shown, Shows, Separate
<1>4. CASE ~Once
  <2>1. block.auto /\ first' = first /\ RowNow = 1
    BY <1>1, <1>2, <1>4 DEF Walk, Once, RowNow, Assembled
  <2>2. ASSUME NEW n \in OfTables(first.props)
        PROVE  n \in DOMAIN props
    <3>1. n \in DOMAIN first.props /\ ~OfUnused(first.props[n])
      <4>1. n \in DOMAIN first.props /\ first.props[n].by[2] \notin Unclaimed
        BY DEF OfTables
      <4>2. QED
        BY <4>1 DEF OfUnused
    <3>2. Laid(first.props, TablesEnd, 1) /\ Follows(props, first.props, at, 1)
      BY <1>2, <1>4, <2>1 DEF SecondPass
    <3>3. PICK i \in FoundPlans : \E r \in Rows(i) : IsRow(first.props[n], i, r)
      BY <3>1, <3>2 DEF Laid, Known
    <3>4. \A r : Before(i, r, at, 1)
      BY <1>2, PlansAre DEF Before, Walk
    <3>5. QED
      BY <3>1, <3>2, <3>3, <3>4 DEF Follows
  <2>3. DOMAIN covers = DOMAIN first.covers
    BY <1>2, <1>4, <2>1 DEF SecondPass, CoversLaid
  <2>4. \A k \in DOMAIN covers : covers[k].prefix = first.covers[k].prefix
    BY <1>2, <1>4 DEF SecondPass, CoversFollow
  <2>5. [i \in DOMAIN covers |-> covers[i].prefix] = [i \in DOMAIN first.covers |-> first.covers[i].prefix]
    BY <2>3, <2>4
  <2>6. Shows(first.covers)
    BY <1>2, <1>4 DEF SecondPass
  <2>7. QED
    BY <1>1, <2>1, <2>2, <2>5, <2>6 DEF ClassifyInv, KeptInv, OfTables, Shown, Shows, Separate
<1>5. QED
  BY <1>3, <1>4

(* The later stages add properties, and only props that hide take any away.*)
LEMMA KeptStays ==
  ASSUME KeptInv, UNCHANGED <<block, covers, first>>, stage' # "ready",
         stage \in {"declare", "motions", "switches"}, DOMAIN props \subseteq DOMAIN props',
         stage' = "props" => \A i \in DOMAIN covers :
           block.deviceSettings /\ Separate(first.covers[i]) => SettingName(i, "position_from_target") \in DOMAIN props'
  PROVE  KeptInv'
<1>1. \A n \in OfTables(first.props) : n \in DOMAIN props
  BY DEF KeptInv, Shown
<1>2. \A n \in OfTables(first'.props) : Shown(n)'
  BY <1>1 DEF Shown, OfTables
<1>3. /\ [i \in DOMAIN covers |-> covers[i].prefix] = [i \in DOMAIN first.covers |-> first.covers[i].prefix]
      /\ Shows(first.covers)
  BY DEF KeptInv
<1>4. Shows(first.covers)'
  BY <1>3 DEF Shows, Separate
<1>5. stage' = "props" => \A i \in DOMAIN covers' :
           block'.deviceSettings /\ Separate(first'.covers[i]) => Shown(SettingName(i, "position_from_target"))'
  BY DEF Shown, SettingName, Separate
<1>6. QED
  BY <1>2, <1>3, <1>4, <1>5 DEF KeptInv

LEMMA KeptStep ==
  ASSUME KeptInv, stage \in {"declare", "motions", "switches", "props", "ready", "failed"}, [Next]_vars
  PROVE  KeptInv'
<1>1. CASE Declare
  <2>1. stage = "declare" /\ stage' \in {"failed", "motions"} /\ UNCHANGED <<block, covers, first>>
        /\ DOMAIN props \subseteq DOMAIN props'
    BY <1>1 DEF Declare, Defines, Over
  <2>2. QED
    BY <2>1, KeptStays
<1>2. CASE AddMotions
  <2>1. stage = "motions" /\ stage' = "switches" /\ UNCHANGED <<block, covers, first>>
        /\ DOMAIN props \subseteq DOMAIN props'
    BY <1>2 DEF AddMotions, Defines, Over
  <2>2. QED
    BY <2>1, KeptStays
<1>3. CASE AddSwitches
  <2>1. stage = "switches" /\ stage' = "props" /\ UNCHANGED <<block, covers, first>>
        /\ DOMAIN props' = switches' \cup DOMAIN props
        /\ (block.deviceSettings => {SettingName(o[1], o[2]) : o \in Offered} \subseteq switches')
    BY <1>3 DEF AddSwitches, Over
  <2>2. ASSUME NEW i \in DOMAIN covers, block.deviceSettings, Separate(first.covers[i])
        PROVE  SettingName(i, "position_from_target") \in DOMAIN props'
    <3>1. DOMAIN covers = DOMAIN first.covers /\ Shows(first.covers)
      <4>1. /\ [k \in DOMAIN covers |-> covers[k].prefix] = [k \in DOMAIN first.covers |-> first.covers[k].prefix]
            /\ Shows(first.covers)
        BY <2>1 DEF KeptInv
      <4>2. DOMAIN [k \in DOMAIN covers |-> covers[k].prefix]
              = DOMAIN [k \in DOMAIN first.covers |-> first.covers[k].prefix]
        BY <4>1
      <4>3. QED
        BY <4>1, <4>2
    <3>2. Applies(i, "position_from_target")
      BY <2>2, <3>1 DEF Applies, Choice, Shows
    <3> DEFINE n == SettingName(i, "position_from_target")
    <3>3. CASE n \in DOMAIN props
      BY <2>1, <3>3
    <3>4. CASE n \notin DOMAIN props
      <4>1. <<i, "position_from_target">> \in Offered
        BY <3>2, <3>4 DEF Offered, Undescribed, SettingKeys
      <4>2. QED
        BY <2>1, <2>2, <4>1
    <3>5. QED
      BY <3>3, <3>4
  <2>3. QED
    BY <2>1, <2>2, KeptStays
<1>4. CASE PatchProps
  <2>1. stage = "props" /\ stage' = "ready" /\ UNCHANGED <<block, covers, first>>
        /\ DOMAIN props' = (DOMAIN props \ Hidden) \cup Sourced
    BY <1>4 DEF PatchProps, Patched
  <2>2. Hidden' = Hidden
    BY <2>1 DEF Hidden, Patch, Sourced
  <2>3. \A n \in DOMAIN props : Shown(n)'
    BY <2>1, <2>2 DEF Shown
  <2>4. \A n \in OfTables(first'.props) : Shown(n)'
    BY <2>1, <2>3 DEF KeptInv, Shown, OfTables
  <2>5. /\ [i \in DOMAIN covers |-> covers[i].prefix] = [i \in DOMAIN first.covers |-> first.covers[i].prefix]
        /\ Shows(first.covers)
    BY <2>1 DEF KeptInv
  <2>6. Shows(first.covers)'
    BY <2>1, <2>5 DEF Shows, Separate
  <2>7. ASSUME NEW i \in DOMAIN covers, block.deviceSettings, Separate(first.covers[i])
        PROVE  SettingName(i, "position_from_target") \in DOMAIN props
    BY <2>1, <2>7 DEF KeptInv, Shown
  <2>8. \A i \in DOMAIN covers' :
          block'.deviceSettings /\ Separate(first'.covers[i]) => Shown(SettingName(i, "position_from_target"))'
    BY <2>1, <2>3, <2>7 DEF SettingName, Separate
  <2>9. QED
    BY <2>1, <2>4, <2>5, <2>6, <2>8 DEF KeptInv
<1>5. CASE UNCHANGED vars
  BY <1>5 DEF vars, names, KeptInv, Shown, OfTables, Shows, Separate, SettingName, Hidden, Patch, Sourced
<1>6. CASE \/ ClassifyFirst \/ ClassifyAgain \/ OpenPlan \/ SkipPlan \/ AddRow \/ SkipRow \/ ClosePlan
           \/ SelectTargets \/ MakeCovers
  BY <1>6 DEF ClassifyFirst, ClassifyAgain, OpenPlan, SkipPlan, AddRow, SkipRow, ClosePlan,
              SelectTargets, MakeCovers, Assembled
<1>7. CASE PatchPropsFails
  BY <1>7 DEF PatchPropsFails, KeptInv
<1>8. QED
  BY <1>1, <1>2, <1>3, <1>4, <1>5, <1>6, <1>7 DEF Next

(* For any device, plans and block: as long as no plan needs a position    *)
(* that its target can stand for, selecting the target leaves every        *)
(* property of the tables and every group its name, and the choice can be  *)
(* taken back (driver.rs:113-131, assembly.rs name).                       *)
THEOREM SourcesKeepTables ==
  ASSUME PositionsSpared
  PROVE  Spec => []SourceKeepsTables
<1>1. Init => ClassifyInv /\ KeptInv
  <2> SUFFICES ASSUME Init PROVE ClassifyInv /\ KeptInv
    OBVIOUS
  <2>1. /\ stage = "classify" /\ Once /\ at = 1 /\ row = 1 /\ props = <<>> /\ covers = <<>>
        /\ dps = ToSet(Dps)
    BY DEF Init, Once
  <2>2. FoundPlans \subseteq Nat \ {0} /\ \A i \in FoundPlans : Rows(i) \subseteq Nat \ {0}
    BY PlansAre
  <2>3. Laid(props, 1, 1)
    <3>1. \A i \in FoundPlans : \A r \in Rows(i) : ~Before(i, r, 1, 1)
      BY <2>2 DEF Before
    <3>2. DOMAIN props = {}
      BY <2>1
    <3>3. QED
      BY <3>1, <3>2 DEF Laid
  <2>4. CoversLaid(covers, props, 1 - 1)
    <3>1. \A i \in Curtains : ~(i <= 1 - 1)
      BY <2>2 DEF Curtains
    <3>2. UpTo(1 - 1) = {}
      BY <3>1 DEF UpTo
    <3>3. 1..Cardinality(UpTo(1 - 1)) = {} /\ DOMAIN covers = {}
      BY <2>1, <3>2, FS_EmptySet
    <3>4. QED
      BY <3>3 DEF CoversLaid
  <2>5. Walk /\ Naming /\ SecondPass
    BY <2>1, <2>3, <2>4 DEF Walk, Naming, SecondPass, RowNow, PlanNow, Once
  <2>6. FirstPass
    BY <2>1 DEF FirstPass
  <2>7. QED
    BY <2>1, <2>5, <2>6 DEF ClassifyInv, KeptInv
<1>2. AssemblyInv /\ Grouped /\ Grouped' /\ ClassifyInv /\ KeptInv /\ [Next]_vars => ClassifyInv' /\ KeptInv'
  <2> SUFFICES ASSUME AssemblyInv, Grouped, Grouped', ClassifyInv, KeptInv, [Next]_vars
               PROVE  ClassifyInv' /\ KeptInv'
    OBVIOUS
  <2>1. CASE ClassifyFirst \/ ClassifyAgain \/ OpenPlan \/ SkipPlan \/ AddRow \/ SkipRow \/ ClosePlan
             \/ SelectTargets
    <3>1. ClassifyInv'
      BY <2>1, ClassifyBegins, PlanOpens, PlanSkipped, RowAdded, RowSkipped, PlanCloses, TargetsSelected
    <3>2. stage' \in {"classify", "plan", "row"}
      BY <2>1 DEF ClassifyFirst, ClassifyAgain, OpenPlan, SkipPlan, AddRow, SkipRow, ClosePlan, SelectTargets,
                  Assembled
    <3>3. QED
      BY <3>1, <3>2 DEF KeptInv
  <2>2. CASE MakeCovers
    BY <2>2, CoversMade
  <2>3. CASE Declare \/ AddMotions \/ AddSwitches \/ PatchProps \/ PatchPropsFails
    <3>1. /\ stage \in {"declare", "motions", "switches", "props", "ready", "failed"}
          /\ stage' \notin {"classify", "plan", "row"}
      BY <2>3 DEF Declare, AddMotions, AddSwitches, PatchProps, PatchPropsFails
    <3>2. QED
      BY <3>1, KeptStep DEF ClassifyInv
  <2>4. CASE UNCHANGED vars
    <3>1. stage \notin {"classify", "plan", "row"} => stage \in {"declare", "motions", "switches", "props", "ready", "failed"}
      BY DEF AssemblyInv, Tables
    <3>2. UNCHANGED <<stage, block, dps, plans, at, row, prefix, props, covers, first>>
      BY <2>4 DEF vars, names, cursor
    <3>3. KeptInv'
      BY <3>2 DEF KeptInv, Shown, OfTables, Shows, Separate, SettingName, Hidden, Patch, Sourced
    <3>4. Walk' <=> Walk
      BY <3>2 DEF Walk, PlanAt
    <3>5. (Naming' <=> Naming) /\ (FirstPass' <=> FirstPass) /\ (SecondPass' <=> SecondPass)
      BY <3>2 DEF Naming, FirstPass, SecondPass, RowNow, PlanNow, Once, CoverOfPlan, Shows, Separate
    <3>6. QED
      BY <3>2, <3>3, <3>4, <3>5 DEF ClassifyInv
  <2>5. QED
    BY <2>1, <2>2, <2>3, <2>4 DEF Next
<1>3. KeptInv => SourceKeepsTables
  BY DEF KeptInv, SourceKeepsTables, Ready, Shown, Hidden
<1>4. QED
  BY <1>1, <1>2, <1>3, InvHolds, TakenAlways, PTL DEF Spec
=============================================================================
