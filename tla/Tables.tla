------------------------------- MODULE Tables --------------------------------
(***************************************************************************)
(* How Driver::new makes a driver's DP tables and adapter: from the        *)
(* exported device, the quirk of its product, the host's DP map and an     *)
(* override block (driver/overrides.rs prepare, data.rs patch_op,          *)
(* adapter.rs Adapter::new, driver.rs build_adapter and invert_cover).     *)
(*                                                                         *)
(* Everything is keyed by code or by DP ID, and later steps read what      *)
(* earlier ones left: a rename finds its DP by the code it had at first, a *)
(* definition writes over whatever has that code.  One action is one step  *)
(* of the construction, one operation of the quirk or one DP of the block. *)
(* Of classification only the roles of a curtain are modelled: which cover *)
(* the tables give, what its settings make of it, and which settings it    *)
(* offers as switches.                                                     *)
(***************************************************************************)
EXTENDS Adapter

CONSTANTS
  None,     \* no code, no schema entry
  Devices,  \* exported devices: the three tables and local_strategy
  Quirks,   \* sequences of quirk operations
  DpMaps,   \* the host's DP maps, functions from some IDs to codes
  Blocks,   \* the dp members of a block: sequences of patches [id, code, spec, mode]
  Remaps,   \* the remap members of a block
  Removals, \* the remove members of a block
  CoverSettings \* [on, source]: settings turned on, and where its state comes from

Control == "control"
Position == "percent_state"
Target == "percent_control"

\* A schema entry: the DP it is of, its kind, the words of an Enum and the
\* limits of a number.
Schema(e) ==
  /\ e = [of |-> e.of, kind |-> e.kind, range |-> e.range,
          min |-> e.min, max |-> e.max, step |-> e.step, scale |-> e.scale]
  /\ e.kind \in {"Boolean", "Integer", "Enum", "String"}
  /\ {e.min, e.max} \subseteq Int
  /\ \A w \in e.range : w = Word(w.word)

Described(table) == \A c \in DOMAIN table : Schema(table[c])

\* An entry of an adapter, and an adapter.
Entry(e) ==
  /\ e = [code |-> e.code, convert |-> e.convert, config |-> e.config, missing |-> e.missing]
  /\ \/ e.missing = Word(e.missing.word)
     \/ e.missing = Number(e.missing.num) /\ e.missing.num \in Int
     \/ e.missing \in {Bool(TRUE), Bool(FALSE), Null}
Fitting(a) == a = [entries |-> a.entries, remaps |-> a.remaps, ranges |-> a.ranges]

Operations == UNION {Range(q) : q \in Quirks}
Patches == UNION {Range(b) : b \in Blocks}

\* validate: a patch with a type is of a mode; dp is an object, which keeps
\* its order and names a DP once.
ASSUME TablesAssumption ==
  /\ None \notin {Control, Position, Target}
  /\ \A d \in Devices :
       /\ Described(d.function) /\ Described(d.status_range)
       /\ \A i \in DOMAIN d.local_strategy : Entry(d.local_strategy[i])
  /\ Quirks \subseteq Seq(Operations)
  /\ \A op \in Operations : op.op = "DefineDp" => Schema(op.spec)
  /\ Blocks \subseteq Seq(Patches)
  /\ \A p \in Patches : p.spec # None => Schema(p.spec) /\ p.mode \cap {"R", "W"} # {}
  /\ \A b \in Blocks : \A i, j \in DOMAIN b : b[i].id = b[j].id => i = j
  /\ \A r \in Remaps : \A c \in DOMAIN r : r[c].invert \in BOOLEAN

VARIABLES
  stage,    \* how far the construction is
  device,   \* [function, status_range, status]: tables keyed by code
  strategy, \* local_strategy: the adapter entries of the device export by DP ID
  dpmap,    \* DP IDs defined by the quirk, the host and the block
  quirk,    \* operations of the quirk still to apply
  dp,       \* the block's dp member
  applied,  \* how many of its patches were applied
  original, \* the code each DP had before the block
  remap,    \* the block's remap member
  removed,  \* the block's remove member
  adapter,  \* the DP adapter
  settings, \* settings of the device's cover
  cover,    \* the cover's roles, and the settings it offers, or None
  motion,   \* its motion tracker, or None
  own,      \* history: the schema entry each DP ID has
  held,     \* history: the code each DP ID has
  clean     \* history: the DPs had, and were given, codes of their own

vars == <<stage, device, strategy, dpmap, quirk, dp, applied, original, remap, removed,
          adapter, settings, cover, motion, own, held, clean>>
fitted == <<settings, cover, motion>>

NoSettings == [on |-> {}, source |-> None]
NoAdapter == [entries |-> <<>>, remaps |-> <<>>, ranges |-> <<>>]

\* f with v at x; f laid over g; f without S.
Put(f, x, v) == [y \in DOMAIN f \cup {x} |-> IF y = x THEN v ELSE f[y]]
Over(f, g) == [y \in DOMAIN f \cup DOMAIN g |-> IF y \in DOMAIN f THEN f[y] ELSE g[y]]
Without(f, S) == Restrict(f, DOMAIN f \ S)
At(f, x) == IF x \in DOMAIN f THEN f[x] ELSE None

-----------------------------------------------------------------------------
(* The device. *)

Table == Over(device.status_range, device.function)

(* DefineDp: the tables its mode names get the entry, the others lose it. *)
DefineDp(d, op) ==
  [function     |-> IF "W" \in op.mode THEN Put(d.function, op.code, op.spec)
                    ELSE Without(d.function, {op.code}),
   status_range |-> IF "R" \in op.mode THEN Put(d.status_range, op.code, op.spec)
                    ELSE Without(d.status_range, {op.code}),
   status       |-> d.status]

RemoveCodes(d, S) ==
  [function     |-> Without(d.function, S),
   status_range |-> Without(d.status_range, S),
   status       |-> Without(d.status, S)]

(* A quirk operation applies always or when a code's status reached a number. *)
Holds(when, status) ==
  \/ when.code = None
  \/ when.code \in DOMAIN status /\ status[when.code].type \in {"number", "boolean"}
     /\ status[when.code].num >= when.least

Quirk ==
  /\ stage = "quirk" /\ quirk # <<>>
  /\ LET op == Head(quirk)
         on == Holds(op.when, device.status)
     IN  /\ device' = IF ~on THEN device
                      ELSE IF op.op = "DefineDp" THEN DefineDp(device, op)
                      ELSE RemoveCodes(device, {op.code})
         /\ dpmap' = IF ~on THEN dpmap
                     ELSE IF op.op = "DefineDp" THEN Put(dpmap, op.id, op.code)
                     ELSE Without(dpmap, {op.id})
  /\ quirk' = Tail(quirk)
  /\ UNCHANGED <<stage, strategy, dp, applied, original, remap, removed, adapter, fitted,
                 own, held, clean>>

StrategyCodes == [i \in DOMAIN strategy |-> strategy[i].code]

(* The host's DP map goes over the quirk's, local_strategy over both. *)
MapDps ==
  /\ stage = "quirk" /\ quirk = <<>>
  /\ \E hosts \in DpMaps, block \in Blocks :
       /\ dpmap' = Over(hosts, dpmap)
       /\ dp' = block
  /\ original' = Over(StrategyCodes, dpmap')
  /\ held' = original'
  /\ own' = [i \in DOMAIN original' |->
               IF original'[i] \in DOMAIN Table THEN Table[original'[i]].of ELSE None]
  /\ clean' = \A i, j \in DOMAIN original' : original'[i] = original'[j] => i = j
  /\ stage' = "dp"
  /\ UNCHANGED <<device, strategy, quirk, applied, remap, removed, adapter, fitted>>

-----------------------------------------------------------------------------
(* The override block. *)

Moved(t, old, new) == IF old \in DOMAIN t THEN Put(Without(t, {old}), new, t[old]) ELSE t

(* Variant: what the device reports is not renamed with what it takes. *)
RenamedFunction(d, old, new) == [d EXCEPT !.function = Moved(@, old, new)]
Renamed(d, old, new) ==
  [function     |-> Moved(d.function, old, new),
   status_range |-> Moved(d.status_range, old, new),
   status       |-> Moved(d.status, old, new)]

(* Another DP has the patch's code; one that is only taken would take the  *)
(* code of an entry that is reported, and is nobody's.                     *)
Takes(p) == \E i \in DOMAIN held \ {p.id} : held[i] = p.code
Hidden(old, new) ==
  old \in DOMAIN device.function \ DOMAIN device.status_range /\ new \in DOMAIN device.status_range

Patching == stage = "dp" /\ applied < Len(dp)
Now == dp[applied + 1]

Rename ==
  /\ Patching /\ Now.spec = None
  /\ LET old == At(original, Now.id)
     IN  /\ old # None
         /\ device' = Renamed(device, old, Now.code)
         /\ dpmap' = [i \in DOMAIN dpmap |-> IF dpmap[i] = old THEN Now.code ELSE dpmap[i]]
         /\ clean' = (clean /\ ~Takes(Now) /\ ~Hidden(old, Now.code))
  /\ held' = Put(held, Now.id, Now.code)
  /\ applied' = applied + 1
  /\ UNCHANGED <<stage, strategy, quirk, dp, original, remap, removed, adapter, fitted, own>>

RenameFails ==
  /\ Patching /\ Now.spec = None
  /\ At(original, Now.id) = None
  /\ stage' = "failed"
  /\ UNCHANGED <<device, strategy, dpmap, quirk, dp, applied, original, remap, removed, adapter,
                 fitted, own, held, clean>>

Define ==
  /\ Patching /\ Now.spec # None
  /\ device' = DefineDp(device, Now)
  /\ dpmap' = Put(dpmap, Now.id, Now.code)
  /\ own' = Put(own, Now.id, Now.spec.of)
  /\ held' = Put(held, Now.id, Now.code)
  /\ clean' = (clean /\ ~Takes(Now))
  /\ applied' = applied + 1
  /\ UNCHANGED <<stage, strategy, quirk, dp, original, remap, removed, adapter, fitted>>

Spoken(alias, w) == IF w.word \in DOMAIN alias THEN Word(alias[w.word]) ELSE w

Translated(table, r) ==
  [c \in DOMAIN table |->
     IF c \in DOMAIN r /\ table[c].kind = "Enum"
     THEN [table[c] EXCEPT !.range = {Spoken(r[c].alias, w) : w \in @}]
     ELSE table[c]]

Remap ==
  /\ stage = "dp" /\ applied = Len(dp)
  /\ \E r \in Remaps :
       /\ remap' = r
       /\ device' = [function     |-> Translated(device.function, r),
                     status_range |-> Translated(device.status_range, r),
                     status       |-> [c \in DOMAIN device.status |->
                       IF c \in DOMAIN r /\ device.status[c].type = "string"
                       THEN Spoken(r[c].alias, device.status[c]) ELSE device.status[c]]]
  /\ stage' = "remove"
  /\ UNCHANGED <<strategy, dpmap, quirk, dp, applied, original, removed, adapter, fitted,
                 own, held, clean>>

RemoveDps ==
  /\ stage = "remove"
  /\ \E R \in Removals :
       /\ removed' = R
       /\ device' = RemoveCodes(device, R)
       /\ dpmap' = [i \in {j \in DOMAIN dpmap : dpmap[j] \notin R} |-> dpmap[i]]
  /\ stage' = "adapter"
  /\ UNCHANGED <<strategy, quirk, dp, applied, original, remap, adapter, fitted,
                 own, held, clean>>

-----------------------------------------------------------------------------
(* The adapter. *)

Plain(c) == [code |-> c, convert |-> "default", config |-> <<>>, missing |-> Word("")]

(* Entries of local_strategy, and plain ones of what else the DP map names. *)
Entries ==
  [i \in DOMAIN strategy \cup DOMAIN dpmap |->
     IF i \in DOMAIN strategy THEN strategy[i] ELSE Plain(dpmap[i])]

(* A rename changes an entry's code and keeps its conversion; a definition *)
(* replaces an entry of another code.                                      *)
PatchOf(i) == CHOOSE p \in Range(dp) : p.id = i
Patched(entries) ==
  [i \in DOMAIN entries \cup {p.id : p \in {q \in Range(dp) : q.spec # None}} |->
     IF ~\E p \in Range(dp) : p.id = i THEN entries[i]
     ELSE IF PatchOf(i).spec = None THEN [entries[i] EXCEPT !.code = PatchOf(i).code]
     ELSE IF i \in DOMAIN entries /\ entries[i].code = PatchOf(i).code THEN entries[i]
     ELSE Plain(PatchOf(i).code)]

Unremoved(entries) == Without(entries, {i \in DOMAIN entries : entries[i].code \in removed})

(* Variant: what the block removes is taken out before its DPs are renamed. *)
KeptEntriesEarly(entries) == Patched(Unremoved(entries))
KeptEntries(entries) == Unremoved(Patched(entries))

(* set_bounds: the raw limits of an Integer, reported ones first. *)
BoundsOf(c) ==
  IF c \in DOMAIN Table /\ Table[c].kind = "Integer" THEN <<Table[c].min, Table[c].max>> ELSE <<>>

Adapt ==
  /\ stage = "adapter"
  /\ adapter' =
       [entries |-> KeptEntries(Entries),
        remaps  |-> [c \in DOMAIN remap |->
                       [alias |-> remap[c].alias, invert |-> remap[c].invert, bounds |-> BoundsOf(c)]],
        ranges  |-> [c \in {d \in DOMAIN device.status_range : device.status_range[d].kind = "Enum"}
                       |-> device.status_range[c].range]]
  /\ stage' = "cover"
  /\ UNCHANGED <<device, strategy, dpmap, quirk, dp, applied, original, remap, removed, fitted,
                 own, held, clean>>

(* Adapter::invert turns the code's inversion over. *)
Turned(a, c) ==
  LET r == RemapOf(a, c)
  IN  [a EXCEPT !.remaps = Put(@, c, [alias |-> r.alias, invert |-> ~r.invert, bounds |-> BoundsOf(c)])]

Swap(w) == IF w = "open" THEN "close" ELSE IF w = "close" THEN "open" ELSE w

(* Variant: the swap replaces the aliases. *)
SwappedOnly(a, r) ==
  [a EXCEPT !.remaps =
     Put(@, r.code, [RemapOf(a, r.code) EXCEPT !.alias = [w \in {"open", "close"} |-> Swap(w)]])]

(* swap_control_words: the aliased words and the plain ones nothing is     *)
(* aliased to, with what they stand for swapped.                           *)
Swapped(a, r) ==
  LET alias == RemapOf(a, r.code).alias
      swaps == IF {Word("open"), Word("close")} \subseteq r.spec.range THEN {"open", "close"} ELSE {}
      devs == DOMAIN alias \cup (swaps \ Range(alias))
      new == [w \in devs |-> LET std == IF w \in DOMAIN alias THEN alias[w] ELSE w
                             IN  IF std \in swaps THEN Swap(std) ELSE std]
  IN  [a EXCEPT !.remaps =
         Put(@, r.code, [RemapOf(a, r.code) EXCEPT !.alias = [w \in {d \in devs : new[d] # d} |-> new[w]]])]

-----------------------------------------------------------------------------
(* The cover: a curtain's, whose key is control (rules, platforms.cover).  *)

NoRole == [code |-> None, spec |-> None]
Role(t, c) == [code |-> c, spec |-> t[c]]
Of(t, c, kind) == c \in DOMAIN t /\ t[c].kind = kind

(* resolve: the code in the first of two tables that has it of the kind.   *)
Resolve(c, kind, first, second) ==
  IF Of(first, c, kind) THEN Role(first, c)
  ELSE IF Of(second, c, kind) THEN Role(second, c) ELSE NoRole

Else(r, other) == IF r = NoRole THEN other ELSE r
Taken(d, c, kind) == Resolve(c, kind, d.function, d.status_range)
Reported(d, c, kind) == Resolve(c, kind, d.status_range, d.function)

CoverOf(d) ==
  IF Control \notin DOMAIN d.function \cup DOMAIN d.status_range THEN None
  ELSE [cur  |-> Else(Reported(d, Position, "Integer"), Reported(d, Target, "Integer")),
        setp |-> Taken(d, Target, "Integer"),
        ins  |-> Else(Taken(d, Control, "Enum"), Taken(d, Control, "Boolean"))]

Separate(c) == c.setp # NoRole /\ c.cur.code # c.setp.code
CanInfer(c) == c.cur # NoRole /\ (Separate(c) \/ c.ins # NoRole)

(* without_target_positions: with position_from_target a cover of two      *)
(* position DPs is made again of a device without the reported one.        *)
Selected(c, s) ==
  IF "position_from_target" \in s.on /\ Separate(c) /\ c.cur # NoRole
  THEN CoverOf(RemoveCodes(device, {c.cur.code})) ELSE c

(* Variant: the choice is what the cover made in the end still offers. *)
ChoiceNow(first, c) == c.cur # NoRole /\ Separate(c)
Choice(first, c) == first.cur # NoRole /\ Separate(first)

Applies(c, s, choice) ==
  [position_from_target   |-> choice,
   state_source           |-> c.cur # NoRole \/ c.ins # NoRole,
   invert_reported_motion |-> c.ins # NoRole /\ s.source = "control",
   invert_position        |-> c.cur # NoRole,
   invert_set_position    |-> Separate(c),
   invert_control         |-> c.ins # NoRole /\ c.setp = NoRole]

Inverted(a, c, s) ==
  LET one == IF "invert_position" \in s.on /\ c.cur # NoRole THEN Turned(a, c.cur.code) ELSE a
      two == IF "invert_set_position" \in s.on /\ Separate(c) THEN Turned(one, c.setp.code) ELSE one
  IN  IF "invert_control" \notin s.on \/ c.ins = NoRole \/ c.setp # NoRole THEN two
      ELSE IF c.ins.spec.kind = "Boolean" THEN Turned(two, c.ins.code)
      ELSE Swapped(two, c.ins)

(* cover_motions *)
Tracker(c, s) ==
  IF \/ s.source = "control"  /\ c.ins # NoRole
     \/ s.source = "inferred" /\ CanInfer(c)
     \/ s.source = "none"     /\ c.cur # NoRole
  THEN [mode |-> s.source, command |-> c.ins.code, position |-> c.cur.code,
        target |-> IF Separate(c) THEN c.setp.code ELSE None]
  ELSE None

FitCover ==
  /\ stage = "cover" /\ CoverOf(device) # None
  /\ \E s \in CoverSettings :
       LET first == CoverOf(device)
           c == Selected(first, s)
           applies == Applies(c, s, Choice(first, c))
       IN  /\ settings' = s
           /\ cover' = [cur |-> c.cur, setp |-> c.setp, ins |-> c.ins,
                        switches |-> {k \in DOMAIN applies : applies[k]}]
           /\ adapter' = Inverted(adapter, c, s)
           /\ motion' = Tracker(c, s)
  /\ stage' = "ready"
  /\ UNCHANGED <<device, strategy, dpmap, quirk, dp, applied, original, remap, removed,
                 own, held, clean>>

NoCover ==
  /\ stage = "cover" /\ CoverOf(device) = None
  /\ stage' = "ready"
  /\ UNCHANGED <<device, strategy, dpmap, quirk, dp, applied, original, remap, removed, adapter,
                 fitted, own, held, clean>>

-----------------------------------------------------------------------------
Init ==
  /\ stage = "quirk"
  /\ \E d \in Devices :
       /\ device = [function |-> d.function, status_range |-> d.status_range, status |-> d.status]
       /\ strategy = d.local_strategy
  /\ quirk \in Quirks
  /\ dpmap = <<>> /\ dp = <<>> /\ applied = 0 /\ original = <<>>
  /\ remap = <<>> /\ removed = {} /\ adapter = NoAdapter
  /\ settings = NoSettings /\ cover = None /\ motion = None
  /\ own = <<>> /\ held = <<>> /\ clean = TRUE

Next == Quirk \/ MapDps \/ Rename \/ RenameFails \/ Define \/ Remap \/ RemoveDps
          \/ Adapt \/ FitCover \/ NoCover
Spec == Init /\ [][Next]_vars

-----------------------------------------------------------------------------
(* Properties. *)

(* Every part of a construction in progress has its type: the tables hold  *)
(* schema entries, and what is known of a DP is known from the start of    *)
(* the block on.                                                           *)
TypeOK ==
  /\ stage \in {"quirk", "dp", "remove", "adapter", "cover", "ready", "failed"}
  /\ Described(device.function) /\ Described(device.status_range)
  /\ \A i \in DOMAIN strategy : Entry(strategy[i])
  /\ Fitting(adapter)
  /\ \A i \in DOMAIN adapter.entries : Entry(adapter.entries[i])
  /\ quirk \in Seq(Operations)
  /\ dp \in Blocks \cup {<<>>} /\ applied \in 0..Len(dp)
  /\ DOMAIN own = DOMAIN held /\ DOMAIN original \subseteq DOMAIN held
  /\ IF stage = "quirk" THEN dp = <<>>
     ELSE DOMAIN dpmap \cup DOMAIN strategy \subseteq DOMAIN held

Kept == {p \in Range(dp) : p.code \notin removed /\ own[p.id] # None}

(* docs/device-customization.md: a renamed DP keeps its type and range, a  *)
(* DP with a type is defined; either way a write of the new code goes to   *)
(* the DP it was given to, and to no other.  It holds of every device      *)
(* whose DPs have codes of their own, and every block none of whose        *)
(* patches takes a code another DP has at that moment, or hides what it    *)
(* renames behind an entry that is no DP's.                                *)
PatchesHold ==
  stage = "ready" /\ clean =>
    \A p \in Kept :
      /\ p.code \in DOMAIN Table /\ Table[p.code].of = own[p.id]
      /\ {w.id : w \in Write(adapter, p.code, Null)} = {p.id}

(* The same of every block that gives its DPs codes of their own in the    *)
(* end, as the documentation has it: a renamed DP keeps its type.          *)
RenamedKeepsType ==
  stage = "ready" /\ (\A i, j \in DOMAIN held : i # j => held[i] # held[j]) =>
    \A p \in Kept : p.spec = None => p.code \in DOMAIN Table /\ Table[p.code].of = own[p.id]

(* What a block removes is nowhere: no table offers it, no report is read  *)
(* as it and no write of it finds a DP, whatever the quirk, the host and   *)
(* the rest of the block defined or renamed.                               *)
RemovedIsGone ==
  stage = "ready" =>
    \A c \in removed :
      /\ c \notin DOMAIN Table \cup DOMAIN device.status
      /\ c \notin Range(dpmap)
      /\ Write(adapter, c, Null) = {}

Samples == {Word(w) : w \in {"open", "close", "stop", "on", "off", "pause"}}
             \cup {Bool(TRUE), Bool(FALSE)} \cup {Number(n) : n \in {0, 5, 10, 35, 400, 1000}}

Uninverted ==
  [adapter EXCEPT !.remaps = [c \in DOMAIN remap |->
     [alias |-> remap[c].alias, invert |-> remap[c].invert, bounds |-> BoundsOf(c)]]]

(* The words a write of the code may send: those that have an alias, and   *)
(* the offered ones that are no alias's.                                   *)
DeviceWords(c) ==
  LET alias == RemapOf([remaps |-> remap], c).alias
      offered == UNION {t[c].range : t \in {u \in {device.function, device.status_range} : Of(u, c, "Enum")}}
  IN  DOMAIN alias \cup ({w.word : w \in offered} \ Range(alias))

\* A number that takes whole steps.
Whole(spec) == spec.step \in Nat /\ (spec.scale = 10 \/ (spec.scale = 1 /\ spec.step # 0))

(* What can be said of the code: a number takes whole steps; an enum       *)
(* conversion is an Enum's and has a raw word for each, and any other      *)
(* conversion takes an empty word for a missing value.                     *)
Expressible(c) ==
  LET spec == Table[c]
  IN  /\ spec.kind = "Integer" => Whole(spec)
      /\ \A e \in Range(adapter.entries) : e.code = c =>
           IF e.convert = "enum" THEN spec.kind = "Enum" /\ DeviceWords(c) \subseteq Range(e.config)
           ELSE spec.kind = "Enum" => "" \notin DeviceWords(c)

\* What is accepted of v for code c is sent, and the report of it is shown
\* as what was accepted.
ReadsBack(c, v) ==
  LET spec == Table[c]
      def == Definition(spec, Natural(spec))
  IN  \A a \in (IF def.type = "text" THEN {} ELSE Accepted(def, v)) :
        /\ RoleWrite(spec, a) # {}
        /\ \A x \in RoleWrite(spec, a) : \A w \in Write(adapter, c, x) :
             \E r \in Read(adapter, w.id, w.raw) :
               r.code = c /\ IlValue(def, DpRead(spec, def, r.value)) = a

(* A value the check lets through to a property bound to a writable DP is  *)
(* accepted by the DP's role, and the device's report of what was sent is  *)
(* shown as that value: check, role, mirroring, alias and conversion on    *)
(* the way out undo those on the way back, also of a cover that is         *)
(* inverted.  (Of DPs whose conversion can say what is offered.)           *)
WritesReadBack ==
  stage = "ready" =>
    \A c \in {d \in DOMAIN device.function : Expressible(d)}, v \in Samples : ReadsBack(c, v)

Opposite(c, v) ==
  CASE v.type = "boolean" -> Bool(~Truth(v))
    [] v.type = "number"  -> Number(BoundsOf(c)[1] + BoundsOf(c)[2] - v.num)
    [] OTHER              -> Word(Swap(v.word))

Has(c, kind) == Of(device.function, c, kind) \/ Of(device.status_range, c, kind)
Fits(c, v) == v.type = CASE Has(c, "Integer") -> "number"
                         [] Has(c, "Boolean") -> "boolean"
                         [] OTHER             -> "string"

\* The DP a curtain's position is shown from with settings s, as the
\* documentation has it.
Shown(s) ==
  IF Has(Position, "Integer") /\ ~("position_from_target" \in s.on /\ Has(Target, "Integer"))
  THEN Position ELSE IF Has(Target, "Integer") THEN Target ELSE None

InvertedCodes(s) ==
  {c \in {Position, Target, Control} :
     \/ c = Shown(s) /\ "invert_position" \in s.on
     \/ c = Target /\ Has(Target, "Integer") /\ Shown(s) # Target /\ "invert_set_position" \in s.on
     \/ /\ c = Control /\ "invert_control" \in s.on /\ ~Has(Target, "Integer")
        /\ IF Has(Control, "Enum")
           THEN {Word("open"), Word("close")} \subseteq Taken(device, Control, "Enum").spec.range
           ELSE Has(Control, "Boolean")}

\* The two tables describe a curtain's DPs alike.
Alike ==
  \A c \in {Control, Position, Target} :
    c \in DOMAIN device.function \cap DOMAIN device.status_range =>
      /\ device.function[c].kind = device.status_range[c].kind
      /\ device.function[c].range = device.status_range[c].range

\* What is read of DP id for a raw value, against what adapter a reads,
\* which has none of the codes turned.
Composes(a, turned, id, raw) ==
  LET e == adapter.entries[id]
      alias == RemapOf(a, e.code).alias
      said == StrategyRead(e, raw)
      plain == Read(a, id, raw)
  IN  IF e.code \notin turned THEN Read(adapter, id, raw) = plain
      ELSE Fits(e.code, said) /\ (said.word \in Range(alias) => said.word \in DOMAIN alias) =>
             Read(adapter, id, raw) =
               {[code |-> e.code, value |-> Opposite(e.code, r.value)] : r \in plain}

(* docs/device-customization.md: an inversion is laid over the remap, and  *)
(* the swap is composed with the alias.  What is read of an inverted DP is *)
(* the opposite of what is read otherwise, for every value of its kind but *)
(* the words that only stand for what an alias makes of another, and what  *)
(* is read of the other DPs is left as it was.  (Of curtains that report   *)
(* the kinds of values they take.)                                         *)
InversionComposes ==
  stage = "ready" /\ cover # None /\ Alike =>
    LET a == Uninverted
        turned == InvertedCodes(settings)
    IN  \A id \in DOMAIN adapter.entries, raw \in Samples : Composes(a, turned, id, raw)

(* docs/device-customization.md: with two position DPs, ON uses the target *)
(* for display, OFF the original feedback, and the switch stays available, *)
(* although the cover it leads to has one position DP.  The tracker goes   *)
(* by the position that is shown, and a target of its own is another DP.   *)
TargetSelected ==
  stage = "ready" /\ cover # None =>
    /\ cover.cur.code = Shown(settings)
    /\ "position_from_target" \in cover.switches
         <=> Has(Position, "Integer") /\ Has(Target, "Integer")
    /\ motion # None => /\ motion.position = Shown(settings)
                        /\ motion.target # None => motion.target # Shown(settings)
=============================================================================
