--------------------------- MODULE OverridesProofs ---------------------------
(***************************************************************************)
(* Proofs about what override blocks do: to a driver's DP tables (Tables), *)
(* for any devices, quirks, DP maps, blocks and cover settings, and to its *)
(* settings (Settings), for any settings, values, defaults and override    *)
(* files.                                                                  *)
(***************************************************************************)
EXTENDS Tables, Settings, TLAPS

-----------------------------------------------------------------------------
(* The operators of the tables.                                            *)

(* What a put and a layer leave behind.                                    *)
LEMMA PutIs ==
  ASSUME NEW f, NEW x, NEW v
  PROVE  /\ DOMAIN Put(f, x, v) = DOMAIN f \cup {x}
         /\ Put(f, x, v)[x] = v
         /\ \A y \in DOMAIN f \ {x} : Put(f, x, v)[y] = f[y]
BY DEF Put

LEMMA OverIs ==
  ASSUME NEW f, NEW g
  PROVE  /\ DOMAIN Over(f, g) = DOMAIN f \cup DOMAIN g
         /\ \A y \in DOMAIN f : Over(f, g)[y] = f[y]
         /\ \A y \in DOMAIN g \ DOMAIN f : Over(f, g)[y] = g[y]
BY DEF Over

LEMMA WithoutIs ==
  ASSUME NEW f, NEW S
  PROVE  /\ DOMAIN Without(f, S) = DOMAIN f \ S
         /\ \A y \in DOMAIN f \ S : Without(f, S)[y] = f[y]
BY DEF Without, Restrict

LEMMA MovedIs ==
  ASSUME NEW t, NEW old, NEW new
  PROVE  /\ old \notin DOMAIN t => Moved(t, old, new) = t
         /\ old \in DOMAIN t =>
              /\ DOMAIN Moved(t, old, new) = (DOMAIN t \ {old}) \cup {new}
              /\ Moved(t, old, new)[new] = t[old]
         /\ \A y \in DOMAIN t \ {old, new} :
              y \in DOMAIN Moved(t, old, new) /\ Moved(t, old, new)[y] = t[y]
         /\ DOMAIN Moved(t, old, new) \subseteq DOMAIN t \cup {new}
<1>1. CASE old \notin DOMAIN t
  BY <1>1 DEF Moved
<1>2. CASE old \in DOMAIN t
  <2>1. Moved(t, old, new) = Put(Without(t, {old}), new, t[old])
    BY <1>2 DEF Moved
  <2>2. DOMAIN Without(t, {old}) = DOMAIN t \ {old}
        /\ \A y \in DOMAIN t \ {old} : Without(t, {old})[y] = t[y]
    BY WithoutIs
  <2>3. /\ DOMAIN Moved(t, old, new) = (DOMAIN t \ {old}) \cup {new}
        /\ Moved(t, old, new)[new] = t[old]
        /\ \A y \in (DOMAIN t \ {old}) \ {new} : Moved(t, old, new)[y] = Without(t, {old})[y]
    BY <2>1, <2>2 DEF Put
  <2>4. QED
    BY <1>2, <2>2, <2>3
<1>3. QED
  BY <1>1, <1>2

LEMMA MovedDescribed ==
  ASSUME NEW t, Described(t), NEW old, NEW new
  PROVE  Described(Moved(t, old, new))
<1> SUFFICES ASSUME NEW c \in DOMAIN Moved(t, old, new) PROVE Schema(Moved(t, old, new)[c])
  BY DEF Described
<1>1. CASE old \notin DOMAIN t
  BY <1>1, MovedIs DEF Described
<1>2. CASE old \in DOMAIN t /\ c = new
  BY <1>2, MovedIs DEF Described
<1>3. CASE old \in DOMAIN t /\ c # new
  <2>. DOMAIN Moved(t, old, new) = (DOMAIN t \ {old}) \cup {new}
    BY <1>3, MovedIs
  <2>1. c \in DOMAIN t \ {old, new}
    BY <1>3
  <2>2. Moved(t, old, new)[c] = t[c]
    BY <2>1, MovedIs
  <2>3. QED
    BY <2>1, <2>2 DEF Described
<1>4. QED
  BY <1>1, <1>2, <1>3

LEMMA WithoutDescribed ==
  ASSUME NEW t, Described(t), NEW S
  PROVE  Described(Without(t, S))
BY DEF Without, Restrict, Described

LEMMA DefineDpDescribed ==
  ASSUME NEW d, Described(d.function), Described(d.status_range), NEW op, Schema(op.spec)
  PROVE  /\ Described(DefineDp(d, op).function)
         /\ Described(DefineDp(d, op).status_range)
<1>1. ASSUME NEW t, Described(t) PROVE Described(Put(t, op.code, op.spec))
  BY <1>1 DEF Put, Described
<1>2. QED
  BY <1>1, WithoutDescribed DEF DefineDp

LEMMA TranslatedDescribed ==
  ASSUME NEW t, Described(t), NEW r
  PROVE  /\ Described(Translated(t, r))
         /\ DOMAIN Translated(t, r) = DOMAIN t
         /\ \A c \in DOMAIN t : Translated(t, r)[c].of = t[c].of
<1>1. ASSUME NEW c \in DOMAIN t
      PROVE  /\ Schema(Translated(t, r)[c]) /\ Translated(t, r)[c].of = t[c].of
  <2>1. Schema(t[c])
    BY DEF Described
  <2> DEFINE words == {Spoken(r[c].alias, w) : w \in t[c].range}
  <2>2. Translated(t, r)[c] = t[c] \/ Translated(t, r)[c] = [t[c] EXCEPT !.range = words]
    BY DEF Translated
  <2>3. \A w \in words : w = Word(w.word)
    BY <2>1 DEF Schema, Spoken, Word
  <2> HIDE DEF words
  <2>4. QED
    BY <2>1, <2>2, <2>3 DEF Schema
<1>2. DOMAIN Translated(t, r) = DOMAIN t
  BY DEF Translated
<1>3. QED
  BY <1>1, <1>2 DEF Described

(* An inversion changes only how values are mapped.                        *)
LEMMA TurnedIs ==
  ASSUME NEW a, Fitting(a), NEW c
  PROVE  /\ Fitting(Turned(a, c))
         /\ Turned(a, c).entries = a.entries /\ Turned(a, c).ranges = a.ranges
BY DEF Fitting, Turned

LEMMA SwappedIs ==
  ASSUME NEW a, Fitting(a), NEW r
  PROVE  /\ Fitting(Swapped(a, r))
         /\ Swapped(a, r).entries = a.entries /\ Swapped(a, r).ranges = a.ranges
BY DEF Fitting, Swapped

LEMMA InvertedIs ==
  ASSUME NEW a, Fitting(a), NEW c, NEW s
  PROVE  /\ Fitting(Inverted(a, c, s))
         /\ Inverted(a, c, s).entries = a.entries /\ Inverted(a, c, s).ranges = a.ranges
<1> DEFINE one == IF "invert_position" \in s.on /\ c.cur # NoRole THEN Turned(a, c.cur.code) ELSE a
           two == IF "invert_set_position" \in s.on /\ Separate(c) THEN Turned(one, c.setp.code)
                  ELSE one
<1>1. Fitting(one) /\ one.entries = a.entries /\ one.ranges = a.ranges
  BY TurnedIs
<1> HIDE DEF one
<1>2. Fitting(two) /\ two.entries = one.entries /\ two.ranges = one.ranges
  BY <1>1, TurnedIs
<1> HIDE DEF two
<1>3. \/ Inverted(a, c, s) = two
      \/ Inverted(a, c, s) = Turned(two, c.ins.code)
      \/ Inverted(a, c, s) = Swapped(two, c.ins)
  BY DEF Inverted, one, two
<1>4. QED
  BY <1>1, <1>2, <1>3, TurnedIs, SwappedIs

(* The patches of a block, each of a DP of its own.                        *)
LEMMA BlockType ==
  ASSUME dp \in Blocks \cup {<<>>}
  PROVE  /\ dp \in Seq(Patches)
         /\ \A i, j \in DOMAIN dp : dp[i].id = dp[j].id => i = j
<1>1. CASE dp \in Blocks
  BY <1>1, TablesAssumption
<1>2. CASE dp = <<>>
  BY <1>2
<1>3. QED
  BY <1>1, <1>2

LEMMA PatchOfIs ==
  ASSUME dp \in Blocks \cup {<<>>}, NEW p \in Range(dp)
  PROVE  PatchOf(p.id) = p
<1>1. PatchOf(p.id) \in Range(dp) /\ PatchOf(p.id).id = p.id
  BY DEF PatchOf
<1>2. PICK i \in DOMAIN dp : p = dp[i]
  BY DEF Range
<1>3. PICK j \in DOMAIN dp : PatchOf(p.id) = dp[j]
  BY <1>1 DEF Range
<1>4. QED
  BY <1>1, <1>2, <1>3, BlockType

(* A plain entry is one, of its code.                                      *)
LEMMA PlainIs ==
  ASSUME NEW c
  PROVE  Entry(Plain(c)) /\ Plain(c).code = c
<1> DEFINE missing == Word("")
           config == <<>>
<1> HIDE DEF missing, config
<1>1. Plain(c) = [code |-> c, convert |-> "default", config |-> config, missing |-> missing]
  BY DEF Plain, missing, config
<1>2. missing = Word(missing.word)
  BY DEF missing, Word
<1>3. Plain(c).missing = Word(Plain(c).missing.word)
  BY <1>1, <1>2
<1>4. Plain(c).code = c
      /\ Plain(c) = [code |-> Plain(c).code, convert |-> Plain(c).convert,
                     config |-> Plain(c).config, missing |-> Plain(c).missing]
  BY <1>1
<1>5. QED
  BY <1>3, <1>4 DEF Entry

(* What the block makes of an adapter's entries.                           *)
LEMMA PatchedIs ==
  ASSUME dp \in Blocks \cup {<<>>},
         NEW entries, \A i \in DOMAIN entries : Entry(entries[i])
  PROVE  /\ DOMAIN entries \subseteq DOMAIN Patched(entries)
         /\ \A i \in DOMAIN Patched(entries) :
              /\ Entry(Patched(entries)[i])
              /\ \A p \in Range(dp) : p.id = i => Patched(entries)[i].code = p.code
              /\ (\A p \in Range(dp) : p.id # i) =>
                   i \in DOMAIN entries /\ Patched(entries)[i] = entries[i]
         /\ \A p \in Range(dp) : p.spec # None => p.id \in DOMAIN Patched(entries)
<1>1. DOMAIN Patched(entries) = DOMAIN entries \cup {p.id : p \in {q \in Range(dp) : q.spec # None}}
  BY DEF Patched
<1>2. ASSUME NEW i \in DOMAIN Patched(entries), NEW p \in Range(dp), p.id = i
      PROVE  Entry(Patched(entries)[i]) /\ Patched(entries)[i].code = p.code
  <2>1. PatchOf(i) = p
    BY <1>2, PatchOfIs
  <2>2. CASE p.spec = None
    <3>1. i \in DOMAIN entries
      <4>1. ASSUME NEW q \in Range(dp), q.id = i PROVE q = p
        <5>1. PatchOf(q.id) = q
          BY PatchOfIs
        <5>2. QED
          BY <2>1, <4>1, <5>1
      <4>2. QED
        BY <1>1, <2>2, <4>1
    <3>2. Patched(entries)[i] = [entries[i] EXCEPT !.code = p.code]
      BY <1>2, <2>1, <2>2 DEF Patched
    <3>3. QED
      BY <3>1, <3>2 DEF Entry
  <2>3. CASE p.spec # None
    <3>1. \/ i \in DOMAIN entries /\ entries[i].code = p.code /\ Patched(entries)[i] = entries[i]
          \/ Patched(entries)[i] = Plain(p.code)
      BY <1>2, <2>1, <2>3 DEF Patched
    <3>2. QED
      BY <3>1, PlainIs
  <2>4. QED
    BY <2>2, <2>3
<1>3. ASSUME NEW i \in DOMAIN Patched(entries), \A p \in Range(dp) : p.id # i
      PROVE  i \in DOMAIN entries /\ Patched(entries)[i] = entries[i]
  BY <1>1, <1>3 DEF Patched
<1>4. QED
  BY <1>1, <1>2, <1>3

LEMMA EntriesAre ==
  ASSUME \A i \in DOMAIN strategy : Entry(strategy[i])
  PROVE  /\ DOMAIN Entries = DOMAIN strategy \cup DOMAIN dpmap
         /\ \A i \in DOMAIN Entries : Entry(Entries[i])
         /\ \A i \in DOMAIN strategy : Entries[i] = strategy[i]
         /\ \A i \in DOMAIN dpmap \ DOMAIN strategy : Entries[i].code = dpmap[i]
BY PlainIs DEF Entries

LEMMA KeptIs ==
  ASSUME NEW entries
  PROVE  /\ DOMAIN KeptEntries(entries) =
              {i \in DOMAIN Patched(entries) : Patched(entries)[i].code \notin removed}
         /\ \A i \in DOMAIN KeptEntries(entries) : KeptEntries(entries)[i] = Patched(entries)[i]
BY DEF KeptEntries, Unremoved, Without, Restrict

-----------------------------------------------------------------------------
(* Whatever the device, the quirk, the host's DP map and the block are,    *)
(* the tables hold schema entries of a kind, and every DP the DP map names *)
(* from the start of the block on is known by a code (overrides.rs         *)
(* prepare, driver.rs build_adapter).                                      *)
THEOREM TablesTypes == Spec => []TypeOK
<1>1. Init => TypeOK
  <2> SUFFICES ASSUME Init PROVE TypeOK
    OBVIOUS
  <2> USE DEF Init
  <2>1. PICK d \in Devices :
          /\ device = [function |-> d.function, status_range |-> d.status_range, status |-> d.status]
          /\ strategy = d.local_strategy
    OBVIOUS
  <2>2. Described(d.function) /\ Described(d.status_range)
        /\ \A i \in DOMAIN d.local_strategy : Entry(d.local_strategy[i])
    BY TablesAssumption
  <2>3. Described(device.function) /\ Described(device.status_range)
        /\ \A i \in DOMAIN strategy : Entry(strategy[i])
    BY <2>1, <2>2
  <2>4. Fitting(adapter) /\ \A i \in DOMAIN adapter.entries : Entry(adapter.entries[i])
    BY DEF NoAdapter, Fitting
  <2>5. quirk \in Seq(Operations)
    BY TablesAssumption
  <2>6. dp \in Blocks \cup {<<>>} /\ applied \in 0..Len(dp)
    OBVIOUS
  <2>7. stage = "quirk" /\ dp = <<>> /\ own = <<>> /\ held = <<>> /\ original = <<>>
    OBVIOUS
  <2>8. QED
    <3> HIDE DEF Init
    <3> QED
      BY <2>3, <2>4, <2>5, <2>6, <2>7 DEF TypeOK
<1>2. TypeOK /\ [Next]_vars => TypeOK'
  <2> SUFFICES ASSUME TypeOK, [Next]_vars PROVE TypeOK'
    OBVIOUS
  <2> USE DEF TypeOK
  <2>1. CASE Quirk
    <3> DEFINE op == Head(quirk)
    <3>1. op \in Operations /\ Tail(quirk) \in Seq(Operations)
      BY <2>1 DEF Quirk
    <3>2. op.op = "DefineDp" => Schema(op.spec)
      BY <3>1, TablesAssumption
    <3>3. \/ device' = device
          \/ op.op = "DefineDp" /\ device' = DefineDp(device, op)
          \/ device' = RemoveCodes(device, {op.code})
      BY <2>1 DEF Quirk
    <3>4. Described(device'.function) /\ Described(device'.status_range)
      BY <3>2, <3>3, DefineDpDescribed, WithoutDescribed DEF RemoveCodes
    <3>5. quirk' = Tail(quirk) /\ UNCHANGED <<stage, strategy, adapter, dp, applied>>
          /\ UNCHANGED <<original, own, held>>
      BY <2>1 DEF Quirk, fitted
    <3>6. stage = "quirk"
      BY <2>1 DEF Quirk
    <3>7. QED
      BY <3>1, <3>4, <3>5, <3>6
  <2>2. CASE MapDps
    <3>1. dp' \in Blocks /\ applied' = 0
      BY <2>2, Len(<<>>) = 0 DEF MapDps
    <3>2. applied' \in 0..Len(dp')
      BY <3>1, TablesAssumption
    <3>3. /\ DOMAIN own' = DOMAIN held' /\ DOMAIN original' \subseteq DOMAIN held'
          /\ DOMAIN dpmap' \cup DOMAIN strategy' \subseteq DOMAIN held'
      BY <2>2, OverIs DEF MapDps, StrategyCodes
    <3>4. QED
      BY <2>2, <3>1, <3>2, <3>3 DEF MapDps, fitted
  <2>3. CASE Rename
    <3>1. PICK old : device' = Renamed(device, old, Now.code)
                     /\ dpmap' = [i \in DOMAIN dpmap |-> IF dpmap[i] = old THEN Now.code ELSE dpmap[i]]
      BY <2>3 DEF Rename
    <3>2. Described(device'.function) /\ Described(device'.status_range)
      BY <3>1, MovedDescribed DEF Renamed
    <3>3. applied' \in 0..Len(dp')
      BY <2>3 DEF Rename, Patching
    <3>4. Now.id \in DOMAIN held
      BY <2>3 DEF Rename, Patching, At
    <3>5. DOMAIN held' = DOMAIN held /\ DOMAIN dpmap' = DOMAIN dpmap
      BY <2>3, <3>1, <3>4 DEF Rename, Put
    <3>6. QED
      BY <2>3, <3>1, <3>2, <3>3, <3>5 DEF Rename, Patching, fitted
  <2>4. CASE RenameFails
    BY <2>4 DEF RenameFails, Patching, fitted
  <2>5. CASE Define
    <3>1. Now \in Patches
      BY <2>5, BlockType DEF Define, Patching, Now
    <3>2. Schema(Now.spec)
      BY <2>5, <3>1, TablesAssumption DEF Define
    <3>3. Described(device'.function) /\ Described(device'.status_range)
      BY <2>5, <3>2, DefineDpDescribed DEF Define
    <3>4. applied' \in 0..Len(dp')
      BY <2>5 DEF Define, Patching
    <3>5. /\ DOMAIN own' = DOMAIN held' /\ DOMAIN original' \subseteq DOMAIN held'
          /\ DOMAIN dpmap' \cup DOMAIN strategy' \subseteq DOMAIN held'
      BY <2>5 DEF Define, Patching, Put
    <3>6. QED
      BY <2>5, <3>3, <3>4, <3>5 DEF Define, Patching, fitted
  <2>6. CASE Remap
    <3>1. Described(device'.function) /\ Described(device'.status_range)
      BY <2>6, TranslatedDescribed DEF Remap
    <3>2. QED
      BY <2>6, <3>1 DEF Remap, fitted
  <2>7. CASE RemoveDps
    <3>1. Described(device'.function) /\ Described(device'.status_range)
      BY <2>7, WithoutDescribed DEF RemoveDps, RemoveCodes
    <3>2. DOMAIN dpmap' \subseteq DOMAIN dpmap
      BY <2>7 DEF RemoveDps
    <3>3. QED
      BY <2>7, <3>1, <3>2 DEF RemoveDps, fitted
  <2>8. CASE Adapt
    <3>1. Fitting(adapter') /\ adapter'.entries = KeptEntries(Entries)
      BY <2>8 DEF Adapt, Fitting
    <3>2. \A i \in DOMAIN adapter'.entries : Entry(adapter'.entries[i])
      <4>1. \A i \in DOMAIN Entries : Entry(Entries[i])
        BY EntriesAre
      <4>2. \A i \in DOMAIN Patched(Entries) : Entry(Patched(Entries)[i])
        BY <4>1, PatchedIs
      <4>3. \A i \in DOMAIN KeptEntries(Entries) : Entry(KeptEntries(Entries)[i])
        BY <4>2, KeptIs
      <4>4. QED
        BY <3>1, <4>3
    <3>3. QED
      BY <2>8, <3>1, <3>2 DEF Adapt, fitted
  <2>9. CASE FitCover
    <3>1. Fitting(adapter') /\ adapter'.entries = adapter.entries
      BY <2>9, InvertedIs DEF FitCover
    <3>2. QED
      BY <2>9, <3>1 DEF FitCover
  <2>10. CASE NoCover
    BY <2>10 DEF NoCover, fitted
  <2>11. CASE UNCHANGED vars
    BY <2>11 DEF vars, fitted
  <2>12. QED
    BY <2>1, <2>2, <2>3, <2>4, <2>5, <2>6, <2>7, <2>8, <2>9, <2>10, <2>11 DEF Next
<1>3. QED
  BY <1>1, <1>2, PTL DEF Spec

-----------------------------------------------------------------------------
(* What is removed is out of the tables and the DP map at once, and out of *)
(* the adapter as soon as there is one: nothing that comes later brings a  *)
(* code back.                                                              *)
Gone ==
  /\ stage \in {"adapter", "cover", "ready"} =>
       \A c \in removed :
         /\ c \notin DOMAIN device.function \cup DOMAIN device.status_range \cup DOMAIN device.status
         /\ c \notin Range(dpmap)
  /\ stage \in {"cover", "ready"} =>
       \A i \in DOMAIN adapter.entries : adapter.entries[i].code \notin removed

(* What a block removes is in no table, is read of no report and written   *)
(* to no DP, for any quirk, DP map and block: prepare takes it out of the  *)
(* tables and the DP map, build_adapter out of the entries that it has     *)
(* just renamed, and no inversion makes an entry.                          *)
THEOREM WhatIsRemovedIsGone == Spec => []RemovedIsGone
<1>1. Init => Gone
  BY DEF Init, Gone
<1>2. TypeOK /\ Gone /\ [Next]_vars => Gone'
  <2> SUFFICES ASSUME TypeOK, Gone, [Next]_vars PROVE Gone'
    OBVIOUS
  <2>1. CASE Quirk \/ MapDps \/ Rename \/ RenameFails \/ Define \/ Remap
    <3>1. stage' \notin {"adapter", "cover", "ready"}
      BY <2>1 DEF Quirk, MapDps, Rename, RenameFails, Define, Remap, Patching
    <3>2. QED
      BY <3>1 DEF Gone
  <2>2. CASE RemoveDps
    <3>1. /\ device' = RemoveCodes(device, removed')
          /\ dpmap' = [i \in {j \in DOMAIN dpmap : dpmap[j] \notin removed'} |-> dpmap[i]]
          /\ stage' = "adapter"
      BY <2>2 DEF RemoveDps
    <3>2. ASSUME NEW c \in removed'
          PROVE  /\ c \notin DOMAIN device'.function
                 /\ c \notin DOMAIN device'.status_range
                 /\ c \notin DOMAIN device'.status
                 /\ c \notin Range(dpmap')
      BY <3>1 DEF RemoveCodes, Without, Restrict, Range
    <3>3. QED
      BY <3>1, <3>2 DEF Gone
  <2>3. CASE Adapt
    <3>1. adapter'.entries = KeptEntries(Entries) /\ UNCHANGED <<device, dpmap, removed>>
          /\ stage = "adapter" /\ stage' = "cover"
      BY <2>3 DEF Adapt
    <3>2. \A i \in DOMAIN KeptEntries(Entries) : KeptEntries(Entries)[i].code \notin removed
      BY KeptIs
    <3>3. QED
      BY <3>1, <3>2 DEF Gone
  <2>4. CASE FitCover \/ NoCover
    <3>1. adapter'.entries = adapter.entries /\ UNCHANGED <<device, dpmap, removed>>
          /\ stage = "cover"
      BY <2>4, InvertedIs DEF FitCover, NoCover, TypeOK
    <3>2. QED
      BY <3>1 DEF Gone
  <2>5. CASE UNCHANGED vars
    BY <2>5 DEF vars, Gone
  <2>6. QED
    BY <2>1, <2>2, <2>3, <2>4, <2>5 DEF Next
<1>3. Gone => RemovedIsGone
  <2> SUFFICES ASSUME Gone, stage = "ready", NEW c \in removed
               PROVE  /\ c \notin DOMAIN Table \cup DOMAIN device.status
                      /\ c \notin Range(dpmap)
                      /\ Write(adapter, c, Null) = {}
    BY DEF RemovedIsGone
  <2>1. DOMAIN Table = DOMAIN device.status_range \cup DOMAIN device.function
    BY OverIs DEF Table
  <2>2. \A i \in DOMAIN adapter.entries : adapter.entries[i].code # c
    BY DEF Gone
  <2>3. Write(adapter, c, Null) = {}
    BY <2>2 DEF Write
  <2>4. QED
    BY <2>1, <2>3 DEF Gone
<1>4. QED
  BY <1>1, <1>2, <1>3, TablesTypes, PTL DEF Spec

-----------------------------------------------------------------------------
(* The roles of a cover.                                                   *)
HasIn(d, c, kind) == Of(d.function, c, kind) \/ Of(d.status_range, c, kind)

LEMMA RolesAre ==
  ASSUME NEW d, NEW c, c # None, NEW kind
  PROVE  /\ HasIn(d, c, kind) =>
              /\ Reported(d, c, kind).code = c /\ Reported(d, c, kind) # NoRole
              /\ Taken(d, c, kind).code = c /\ Taken(d, c, kind) # NoRole
         /\ ~HasIn(d, c, kind) => Reported(d, c, kind) = NoRole /\ Taken(d, c, kind) = NoRole
BY DEF HasIn, Reported, Taken, Resolve, Role, NoRole

(* What a curtain's cover is made of.                                      *)
LEMMA CoverIs ==
  ASSUME NEW d, Control \in DOMAIN d.function \cup DOMAIN d.status_range,
         NEW position, position = HasIn(d, Position, "Integer"),
         NEW target, target = HasIn(d, Target, "Integer")
  PROVE  LET c == CoverOf(d)
         IN  /\ c.cur.code = IF position THEN Position ELSE IF target THEN Target ELSE None
             /\ c.setp.code = IF target THEN Target ELSE None
             /\ c.cur # NoRole <=> position \/ target
             /\ c.setp # NoRole <=> target
             /\ Separate(c) <=> position /\ target
<1> DEFINE c == CoverOf(d)
<1>1. /\ c.cur = Else(Reported(d, Position, "Integer"), Reported(d, Target, "Integer"))
      /\ c.setp = Taken(d, Target, "Integer")
  BY DEF CoverOf
<1>2. Position # None /\ Target # None /\ Position # Target
  BY TablesAssumption DEF Position, Target
<1>3. NoRole.code = None
  BY DEF NoRole
<1>4. /\ c.setp.code = IF target THEN Target ELSE None
      /\ c.setp # NoRole <=> target
  BY <1>1, <1>2, <1>3, RolesAre
<1>5. /\ c.cur.code = IF position THEN Position ELSE IF target THEN Target ELSE None
      /\ c.cur # NoRole <=> position \/ target
  BY <1>1, <1>2, <1>3, RolesAre DEF Else
<1>6. Separate(c) <=> position /\ target
  BY <1>2, <1>4, <1>5 DEF Separate
<1>7. QED
  BY <1>4, <1>5, <1>6

(* Without the code a position is reported by, the rest of a device stays. *)
LEMMA OthersStay ==
  ASSUME NEW d, NEW x, NEW c, c # x, NEW kind
  PROVE  /\ ~HasIn(RemoveCodes(d, {x}), x, kind)
         /\ HasIn(RemoveCodes(d, {x}), c, kind) <=> HasIn(d, c, kind)
         /\ c \in DOMAIN d.function \cup DOMAIN d.status_range =>
              c \in DOMAIN RemoveCodes(d, {x}).function \cup DOMAIN RemoveCodes(d, {x}).status_range
BY DEF HasIn, Of, RemoveCodes, Without, Restrict

(* What the settings make of a device's cover: the position that is shown, *)
(* a target of its own only if it is not shown, and the control as it was. *)
LEMMA SelectedIs ==
  ASSUME Control \in DOMAIN device.function \cup DOMAIN device.status_range, NEW s
  PROVE  LET c == Selected(CoverOf(device), s)
         IN  /\ c.cur.code = Shown(s)
             /\ c.cur # NoRole <=> Shown(s) # None
             /\ c.setp # NoRole <=> Has(Target, "Integer")
             /\ c.setp # NoRole => c.setp.code = Target
             /\ Separate(c) <=> Has(Target, "Integer") /\ Shown(s) # Target
             /\ c.ins = CoverOf(device).ins
<1> DEFINE position == HasIn(device, Position, "Integer")
           target == HasIn(device, Target, "Integer")
           first == CoverOf(device)
           c == Selected(first, s)
           left == RemoveCodes(device, {Position})
<1>1. Position # None /\ Target # None /\ Position # Target /\ Control # Position
  BY TablesAssumption DEF Control, Position, Target
<1>2. Has(Position, "Integer") = position /\ Has(Target, "Integer") = target
  BY DEF Has, HasIn
<1>3. CASE "position_from_target" \in s.on /\ position /\ target
  <2>1. c = CoverOf(left)
    BY <1>3, CoverIs DEF Selected
  <2>2. /\ Control \in DOMAIN left.function \cup DOMAIN left.status_range
        /\ ~HasIn(left, Position, "Integer") /\ HasIn(left, Target, "Integer")
    BY <1>1, <1>3, OthersStay
  <2>3. c.ins = first.ins
    <3>1. \A kind : /\ Of(left.function, Control, kind) <=> Of(device.function, Control, kind)
                    /\ Of(left.status_range, Control, kind) <=> Of(device.status_range, Control, kind)
                    /\ Of(device.function, Control, kind) =>
                         left.function[Control] = device.function[Control]
                    /\ Of(device.status_range, Control, kind) =>
                         left.status_range[Control] = device.status_range[Control]
      BY <1>1 DEF Of, RemoveCodes, Without, Restrict
    <3>2. \A kind : Taken(left, Control, kind) = Taken(device, Control, kind)
      BY <3>1 DEF Taken, Resolve, Role
    <3>3. QED
      BY <2>1, <2>2, <3>2 DEF CoverOf
  <2>4. QED
    BY <1>1, <1>2, <1>3, <2>1, <2>2, <2>3, CoverIs DEF Shown
<1>4. CASE ~("position_from_target" \in s.on /\ position /\ target)
  <2>1. c = first
    BY <1>4, CoverIs DEF Selected
  <2>2. QED
    BY <1>1, <1>2, <1>4, <2>1, CoverIs DEF Shown
<1>5. QED
  BY <1>3, <1>4

(* A cover takes its position from the DP that is shown, and offers the    *)
(* choice when the device has both.                                        *)
LEMMA FittedCover ==
  ASSUME FitCover
  PROVE  TargetSelected'
<1> DEFINE first == CoverOf(device)
<1>1. Control \in DOMAIN device.function \cup DOMAIN device.status_range
  BY DEF FitCover, CoverOf
<1>2. PICK s \in CoverSettings :
        LET c == Selected(first, s)
            applies == Applies(c, s, Choice(first, c))
        IN  /\ settings' = s
            /\ cover' = [cur |-> c.cur, setp |-> c.setp, ins |-> c.ins,
                          switches |-> {k \in DOMAIN applies : applies[k]}]
            /\ motion' = Tracker(c, s)
  BY DEF FitCover
<1> DEFINE c == Selected(first, s)
<1>3. Choice(first, c) <=> Has(Position, "Integer") /\ Has(Target, "Integer")
  BY <1>1, CoverIs DEF Choice, Has, HasIn
<1>4. /\ c.cur.code = Shown(s)
      /\ Separate(c) => c.setp.code # Shown(s)
  BY <1>1, SelectedIs DEF Separate
<1>5. /\ Shown(settings)' = Shown(s)
      /\ (Has(Position, "Integer") /\ Has(Target, "Integer"))'
           <=> Has(Position, "Integer") /\ Has(Target, "Integer")
  BY <1>2 DEF FitCover, Shown, Has
<1>6. "position_from_target" \in cover'.switches <=> Choice(first, c)
  BY <1>2 DEF Applies
<1>7. motion' # None => /\ motion'.position = c.cur.code
                       /\ motion'.target = IF Separate(c) THEN c.setp.code ELSE None
  BY <1>2 DEF Tracker
<1>8. cover'.cur.code = Shown(s)
  BY <1>2, <1>4
<1>9. /\ cover'.cur.code = Shown(settings)'
      /\ "position_from_target" \in cover'.switches
           <=> (Has(Position, "Integer") /\ Has(Target, "Integer"))'
      /\ motion' # None => /\ motion'.position = Shown(settings)'
                           /\ motion'.target # None => motion'.target # Shown(settings)'
  <2> HIDE DEF c
  <2> QED
    BY <1>3, <1>4, <1>5, <1>6, <1>7, <1>8
<1>10. QED
  BY <1>9 DEF TargetSelected

(* There is no cover before its step.                                      *)
Unfitted == stage # "ready" => cover = None

(* For any tables and settings: a cover shows the DP its display source    *)
(* names, its tracker goes by the same, and where there are two the choice *)
(* stays (driver.rs without_target_positions, cover_motions; cover.rs      *)
(* make_covers).                                                           *)
THEOREM TargetIsSelected == Spec => []TargetSelected
<1>1. Init => Unfitted /\ TargetSelected
  BY DEF Init, Unfitted, TargetSelected
<1>2. Unfitted /\ TargetSelected /\ [Next]_vars => Unfitted' /\ TargetSelected'
  <2> SUFFICES ASSUME Unfitted, TargetSelected, [Next]_vars
               PROVE  Unfitted' /\ TargetSelected'
    OBVIOUS
  <2>1. CASE Quirk \/ MapDps \/ Rename \/ RenameFails \/ Define \/ Remap \/ RemoveDps \/ Adapt
    <3>1. stage' # "ready" /\ stage # "ready" /\ cover' = cover
      BY <2>1 DEF Quirk, MapDps, Rename, RenameFails, Define, Remap, RemoveDps, Adapt, Patching, fitted
    <3>2. QED
      BY <3>1 DEF Unfitted, TargetSelected
  <2>2. CASE FitCover
    BY <2>2, FittedCover DEF FitCover, Unfitted
  <2>3. CASE NoCover
    BY <2>3 DEF NoCover, fitted, Unfitted, TargetSelected
  <2>4. CASE UNCHANGED vars
    BY <2>4 DEF vars, fitted, Unfitted, TargetSelected, Shown, Has
  <2>5. QED
    BY <2>1, <2>2, <2>3, <2>4 DEF Next
<1>3. QED
  BY <1>1, <1>2, PTL DEF Spec

-----------------------------------------------------------------------------
(* What a block makes of the DPs, as long as each has a code of its own.   *)

Touched == {dp[k].id : k \in 1..applied}

(* No two DPs have a code.                                                 *)
Apart == \A i, j \in DOMAIN held : held[i] = held[j] => i = j

(* The tables have the DP's schema entry under the code the DP has.        *)
SchemasKept ==
  \A i \in DOMAIN held : own[i] # None /\ held[i] \notin removed =>
    held[i] \in DOMAIN Table /\ Table[held[i]].of = own[i]

(* A DP that was patched has the code it was given, another one the code   *)
(* it had, and local_strategy and the DP map still say so.                 *)
Given == \A k \in 1..applied : dp[k].id \in DOMAIN held /\ held[dp[k].id] = dp[k].code
Untouched ==
  \A i \in (DOMAIN held \cup DOMAIN original) \ Touched :
    i \in DOMAIN held \cap DOMAIN original /\ held[i] = original[i]
StrategyFirst ==
  \A i \in DOMAIN strategy : i \in DOMAIN original /\ original[i] = strategy[i].code
MapFollows ==
  \A i \in DOMAIN held \ DOMAIN strategy :
    /\ i \in DOMAIN dpmap <=> held[i] \notin removed
    /\ i \in DOMAIN dpmap => dpmap[i] = held[i]

InOrder == Apart /\ SchemasKept /\ Given /\ Untouched /\ StrategyFirst /\ MapFollows

(* The adapter has an entry for each DP that is left, under its code.      *)
EntriesFollow ==
  /\ DOMAIN adapter.entries = {i \in DOMAIN held : held[i] \notin removed}
  /\ \A i \in DOMAIN adapter.entries : adapter.entries[i].code = held[i]

PatchesInv ==
  /\ stage \in {"remove", "adapter", "cover", "ready"} => applied = Len(dp)
  /\ stage \in {"quirk", "dp", "remove"} => removed = {}
  /\ stage \in {"dp", "remove", "adapter", "cover", "ready"} /\ clean => InOrder
  /\ stage \in {"cover", "ready"} /\ clean => EntriesFollow

(* The schema entries of a device, as its tables give them.                *)
TableOf(d) == Over(d.status_range, d.function)

LEMMA RenamedTable ==
  ASSUME NEW d, NEW old, NEW new
  PROVE  LET t == TableOf(d)
             u == TableOf(Renamed(d, old, new))
         IN  /\ /\ old \in DOMAIN t
                /\ ~(old \in DOMAIN d.function \ DOMAIN d.status_range
                     /\ new \in DOMAIN d.status_range)
                => new \in DOMAIN u /\ u[new] = t[old]
             /\ \A c \in DOMAIN t \ {old, new} : c \in DOMAIN u /\ u[c] = t[c]
<1> DEFINE f == d.function
           r == d.status_range
           g == Moved(f, old, new)
           q == Moved(r, old, new)
<1>1. TableOf(d) = Over(r, f) /\ TableOf(Renamed(d, old, new)) = Over(q, g)
  BY DEF TableOf, Renamed
<1>2. ASSUME NEW c \in DOMAIN Over(r, f) \ {old, new}
      PROVE  c \in DOMAIN Over(q, g) /\ Over(q, g)[c] = Over(r, f)[c]
  <2> HIDE DEF f, r
  <2>1. c \in DOMAIN q <=> c \in DOMAIN r
    BY MovedIs
  <2>2. c \in DOMAIN g <=> c \in DOMAIN f
    BY MovedIs
  <2>3. c \in DOMAIN r => q[c] = r[c]
    BY MovedIs
  <2>4. c \in DOMAIN f => g[c] = f[c]
    BY MovedIs
  <2> HIDE DEF g, q
  <2>5. QED
    BY <2>1, <2>2, <2>3, <2>4 DEF Over
<1>3. ASSUME old \in DOMAIN Over(r, f), ~(old \in DOMAIN f \ DOMAIN r /\ new \in DOMAIN r)
      PROVE  new \in DOMAIN Over(q, g) /\ Over(q, g)[new] = Over(r, f)[old]
  <2> HIDE DEF f, r
  <2>1. old \in DOMAIN r => new \in DOMAIN q /\ q[new] = r[old]
    BY DEF Moved, Put
  <2>2. old \in DOMAIN f => new \in DOMAIN g /\ g[new] = f[old]
    BY DEF Moved, Put
  <2>3. old \notin DOMAIN r => q = r
    BY MovedIs
  <2> HIDE DEF g, q
  <2>4. QED
    BY <1>3, <2>1, <2>2, <2>3 DEF Over
<1>4. QED
  BY <1>1, <1>2, <1>3

LEMMA DefinedTable ==
  ASSUME NEW d, NEW p, p.mode \cap {"R", "W"} # {}
  PROVE  LET t == TableOf(d)
             u == TableOf(DefineDp(d, p))
         IN  /\ p.code \in DOMAIN u /\ u[p.code] = p.spec
             /\ \A c \in DOMAIN t \ {p.code} : c \in DOMAIN u /\ u[c] = t[c]
<1> DEFINE f == d.function
           r == d.status_range
           g == IF "W" \in p.mode THEN Put(f, p.code, p.spec) ELSE Without(f, {p.code})
           q == IF "R" \in p.mode THEN Put(r, p.code, p.spec) ELSE Without(r, {p.code})
<1>1. TableOf(d) = Over(r, f) /\ TableOf(DefineDp(d, p)) = Over(q, g)
  BY DEF TableOf, DefineDp
<1>2. /\ "W" \in p.mode => p.code \in DOMAIN g /\ g[p.code] = p.spec
      /\ "W" \notin p.mode => p.code \notin DOMAIN g
      /\ "R" \in p.mode => p.code \in DOMAIN q /\ q[p.code] = p.spec
      /\ "R" \notin p.mode => p.code \notin DOMAIN q
  BY DEF Put, Without, Restrict
<1>3. ASSUME NEW c, c # p.code
      PROVE  /\ c \in DOMAIN g <=> c \in DOMAIN f
             /\ c \in DOMAIN q <=> c \in DOMAIN r
             /\ c \in DOMAIN f => g[c] = f[c]
             /\ c \in DOMAIN r => q[c] = r[c]
  BY <1>3 DEF Put, Without, Restrict
<1> HIDE DEF f, r, g, q
<1>4. p.code \in DOMAIN Over(q, g) /\ Over(q, g)[p.code] = p.spec
  BY <1>2 DEF Over
<1>5. ASSUME NEW c \in DOMAIN Over(r, f) \ {p.code}
      PROVE  c \in DOMAIN Over(q, g) /\ Over(q, g)[c] = Over(r, f)[c]
  BY <1>3 DEF Over
<1>6. QED
  BY <1>1, <1>4, <1>5

(* The patch that is applied next is of a DP that none was of.             *)
LEMMA NextPatch ==
  ASSUME TypeOK, Patching
  PROVE  /\ Now \in Range(dp) /\ Now \in Patches /\ Now.id \notin Touched
         /\ \A k \in 1..applied : dp[k].id # Now.id
         /\ applied' = applied + 1 /\ dp' = dp => Touched' = Touched \cup {Now.id}
<1> USE DEF TypeOK, Patching, Now
<1>1. dp \in Seq(Patches) /\ \A i, j \in DOMAIN dp : dp[i].id = dp[j].id => i = j
  BY BlockType
<1>2. applied + 1 \in DOMAIN dp /\ \A k \in 1..applied : k \in DOMAIN dp /\ k # applied + 1
  BY <1>1
<1>3. Now \in Range(dp) /\ Now \in Patches
  BY <1>1, <1>2 DEF Range
<1>4. \A k \in 1..applied : dp[k].id # Now.id
  BY <1>1, <1>2
<1>5. ASSUME applied' = applied + 1, dp' = dp
      PROVE  Touched' = Touched \cup {Now.id}
  <2>1. 1..(applied + 1) = 1..applied \cup {applied + 1}
    BY <1>1
  <2>2. QED
    BY <1>5, <2>1 DEF Touched
<1>6. QED
  BY <1>3, <1>4, <1>5 DEF Touched

(* Giving a DP a code nobody has keeps the codes apart, the patched where  *)
(* they were put and the others where they were.                           *)
LEMMA GivenHolds ==
  ASSUME TypeOK, Patching, InOrder, ~Takes(Now), held' = Put(held, Now.id, Now.code),
         applied' = applied + 1, UNCHANGED <<dp, original>>
  PROVE  Apart' /\ Given' /\ Untouched'
<1>1. /\ DOMAIN held' = DOMAIN held \cup {Now.id}
      /\ held'[Now.id] = Now.code
      /\ \A i \in DOMAIN held \ {Now.id} : held'[i] = held[i] /\ held[i] # Now.code
  BY DEF Put, Takes
<1>2. Apart'
  BY <1>1 DEF Apart, InOrder
<1>3. Given'
  <2>1. ASSUME NEW k \in 1..applied
        PROVE  dp[k].id \in DOMAIN held' /\ held'[dp[k].id] = dp[k].code
    BY <1>1, NextPatch DEF InOrder, Given
  <2>2. dp[applied + 1].id \in DOMAIN held' /\ held'[dp[applied + 1].id] = dp[applied + 1].code
    BY <1>1 DEF Now
  <2>3. 1..applied' = 1..applied \cup {applied + 1}
    BY DEF TypeOK
  <2>4. QED
    BY <2>1, <2>2, <2>3 DEF Given
<1>4. Untouched'
  <2>1. Touched' = Touched \cup {Now.id}
    BY NextPatch
  <2>2. QED
    BY <1>1, <2>1 DEF InOrder, Untouched
<1>5. QED
  BY <1>2, <1>3, <1>4

LEMMA RenameInOrder ==
  ASSUME TypeOK, InOrder, removed = {}, Rename, clean'
  PROVE  InOrder'
<1> DEFINE old == At(original, Now.id)
<1>1. /\ Patching /\ ~Takes(Now) /\ ~Hidden(old, Now.code) /\ old # None
      /\ device' = Renamed(device, old, Now.code)
      /\ dpmap' = [i \in DOMAIN dpmap |-> IF dpmap[i] = old THEN Now.code ELSE dpmap[i]]
      /\ held' = Put(held, Now.id, Now.code) /\ applied' = applied + 1
      /\ UNCHANGED <<strategy, dp, original, removed, own>>
  BY DEF Rename
<1>2. Apart' /\ Given' /\ Untouched' /\ StrategyFirst'
  BY <1>1, GivenHolds DEF InOrder, StrategyFirst
<1>3. Now.id \in DOMAIN original /\ original[Now.id] = old
  BY <1>1 DEF At
<1>4. Now.id \in DOMAIN held /\ held[Now.id] = old
  BY <1>1, <1>3, NextPatch DEF InOrder, Untouched
<1>5. /\ DOMAIN held' = DOMAIN held /\ held'[Now.id] = Now.code
      /\ \A i \in DOMAIN held \ {Now.id} : held'[i] = held[i] /\ held[i] # Now.code /\ held[i] # old
  BY <1>1, <1>4 DEF Put, Takes, InOrder, Apart
<1>6. SchemasKept'
  <2>1. Table = TableOf(device) /\ Table' = TableOf(Renamed(device, old, Now.code))
    BY <1>1 DEF Table, TableOf
  <2>2. old \in DOMAIN Table => Now.code \in DOMAIN Table' /\ Table'[Now.code] = Table[old]
    BY <1>1, <2>1, RenamedTable DEF Hidden
  <2>3. \A c \in DOMAIN Table \ {old, Now.code} : c \in DOMAIN Table' /\ Table'[c] = Table[c]
    BY <2>1, RenamedTable
  <2>4. ASSUME NEW i \in DOMAIN held, own[i] # None
        PROVE  held'[i] \in DOMAIN Table' /\ Table'[held'[i]].of = own[i]
    <3>1. held[i] \in DOMAIN Table /\ Table[held[i]].of = own[i]
      BY <2>4 DEF InOrder, SchemasKept
    <3>2. QED
      BY <1>4, <1>5, <2>2, <2>3, <3>1
  <2>5. QED
    BY <1>1, <1>5, <2>4 DEF SchemasKept
<1>7. MapFollows'
  BY <1>1, <1>4, <1>5 DEF InOrder, MapFollows
<1>8. QED
  BY <1>2, <1>6, <1>7 DEF InOrder

LEMMA DefineInOrder ==
  ASSUME TypeOK, InOrder, removed = {}, Define, clean'
  PROVE  InOrder'
<1>1. /\ Patching /\ ~Takes(Now) /\ Now.spec # None
      /\ device' = DefineDp(device, Now)
      /\ dpmap' = Put(dpmap, Now.id, Now.code)
      /\ own' = Put(own, Now.id, Now.spec.of)
      /\ held' = Put(held, Now.id, Now.code) /\ applied' = applied + 1
      /\ UNCHANGED <<strategy, dp, original, removed>>
  BY DEF Define
<1>2. Apart' /\ Given' /\ Untouched' /\ StrategyFirst'
  BY <1>1, GivenHolds DEF InOrder, StrategyFirst
<1>3. /\ DOMAIN held' = DOMAIN held \cup {Now.id} /\ held'[Now.id] = Now.code
      /\ \A i \in DOMAIN held \ {Now.id} : held'[i] = held[i] /\ held[i] # Now.code
  BY <1>1 DEF Put, Takes
<1>4. SchemasKept'
  <2>1. Table = TableOf(device) /\ Table' = TableOf(DefineDp(device, Now))
    BY <1>1 DEF Table, TableOf
  <2>2. Now.mode \cap {"R", "W"} # {}
    BY <1>1, NextPatch, TablesAssumption
  <2>3. Now.code \in DOMAIN Table' /\ Table'[Now.code] = Now.spec
    BY <2>1, <2>2, DefinedTable
  <2>4. \A c \in DOMAIN Table \ {Now.code} : c \in DOMAIN Table' /\ Table'[c] = Table[c]
    BY <2>1, <2>2, DefinedTable
  <2>5. own'[Now.id] = Now.spec.of /\ \A i \in DOMAIN held \ {Now.id} : own'[i] = own[i]
    BY <1>1 DEF Put, TypeOK
  <2>6. ASSUME NEW i \in DOMAIN held \ {Now.id}, own'[i] # None
        PROVE  held'[i] \in DOMAIN Table' /\ Table'[held'[i]].of = own'[i]
    <3>1. held[i] \in DOMAIN Table /\ Table[held[i]].of = own[i]
      BY <2>5, <2>6 DEF InOrder, SchemasKept
    <3>2. QED
      BY <1>3, <2>4, <2>5, <3>1
  <2>7. QED
    BY <1>1, <1>3, <2>3, <2>5, <2>6 DEF SchemasKept
<1>5. MapFollows'
  BY <1>1, <1>3 DEF InOrder, MapFollows, Put
<1>6. QED
  BY <1>2, <1>4, <1>5 DEF InOrder

LEMMA MapInOrder ==
  ASSUME TypeOK, stage = "quirk", removed = {}, MapDps, clean'
  PROVE  InOrder'
<1>1. /\ original' = Over(StrategyCodes, dpmap') /\ held' = original'
      /\ own' = [i \in DOMAIN original' |->
                   IF original'[i] \in DOMAIN Table THEN Table[original'[i]].of ELSE None]
      /\ \A i, j \in DOMAIN original' : original'[i] = original'[j] => i = j
      /\ UNCHANGED <<device, strategy, applied, removed>>
  BY DEF MapDps
<1>2. applied' = 0
  BY <1>1, Len(<<>>) = 0 DEF TypeOK
<1>3. Apart' /\ Given' /\ Untouched'
  BY <1>1, <1>2 DEF Apart, Given, Untouched
<1>4. SchemasKept'
  BY <1>1 DEF SchemasKept, Table
<1>5. DOMAIN StrategyCodes = DOMAIN strategy
      /\ \A i \in DOMAIN strategy : StrategyCodes[i] = strategy[i].code
  BY DEF StrategyCodes
<1>6. StrategyFirst' /\ MapFollows'
  <2>1. /\ DOMAIN original' = DOMAIN strategy \cup DOMAIN dpmap'
        /\ \A i \in DOMAIN strategy : original'[i] = strategy[i].code
        /\ \A i \in DOMAIN dpmap' \ DOMAIN strategy : original'[i] = dpmap'[i]
    BY <1>1, <1>5 DEF Over
  <2>2. QED
    BY <1>1, <2>1 DEF StrategyFirst, MapFollows
<1>7. QED
  BY <1>3, <1>4, <1>6 DEF InOrder

LEMMA RemapInOrder ==
  ASSUME TypeOK, InOrder, Remap
  PROVE  InOrder'
<1>1. UNCHANGED <<strategy, dpmap, dp, applied, original, removed, own, held>>
  BY DEF Remap
<1>2. DOMAIN Table' = DOMAIN Table /\ \A c \in DOMAIN Table : Table'[c].of = Table[c].of
  <2> DEFINE f == device.function
             q == device.status_range
  <2>1. PICK r \in Remaps : /\ device'.function = Translated(f, r)
                            /\ device'.status_range = Translated(q, r)
    BY DEF Remap
  <2>2. /\ DOMAIN device'.function = DOMAIN f
        /\ \A c \in DOMAIN f : device'.function[c].of = f[c].of
    BY <2>1, TranslatedDescribed DEF TypeOK
  <2>3. /\ DOMAIN device'.status_range = DOMAIN q
        /\ \A c \in DOMAIN q : device'.status_range[c].of = q[c].of
    BY <2>1, TranslatedDescribed DEF TypeOK
  <2>4. QED
    BY <2>2, <2>3 DEF Table, Over
<1>3. SchemasKept'
  BY <1>1, <1>2 DEF InOrder, SchemasKept
<1>4. QED
  BY <1>1, <1>3 DEF InOrder, Apart, Given, Touched, Untouched, StrategyFirst, MapFollows

LEMMA RemoveInOrder ==
  ASSUME InOrder, removed = {}, RemoveDps
  PROVE  InOrder'
<1>1. /\ device' = RemoveCodes(device, removed')
      /\ dpmap' = [i \in {j \in DOMAIN dpmap : dpmap[j] \notin removed'} |-> dpmap[i]]
      /\ UNCHANGED <<strategy, dp, applied, original, own, held>>
  BY DEF RemoveDps
<1>2. \A c \in DOMAIN Table \ removed' : c \in DOMAIN Table' /\ Table'[c] = Table[c]
  BY <1>1 DEF Table, RemoveCodes, Without, Restrict, Over
<1>3. SchemasKept'
  BY <1>1, <1>2 DEF InOrder, SchemasKept
<1>4. MapFollows'
  BY <1>1 DEF InOrder, MapFollows
<1>5. QED
  BY <1>1, <1>3, <1>4 DEF InOrder, Apart, Given, Touched, Untouched, StrategyFirst

(* Every patch has its say about the entry of its DP, and an entry nobody  *)
(* patched has the code its DP has.                                        *)
LEMMA AdaptFollows ==
  ASSUME TypeOK, InOrder, applied = Len(dp), Adapt
  PROVE  EntriesFollow'
<1>0. Range(dp) = {dp[k] : k \in 1..applied}
  BY BlockType DEF TypeOK, Range
<1>1. adapter'.entries = KeptEntries(Entries) /\ held' = held /\ removed' = removed
  BY DEF Adapt
<1>2. /\ DOMAIN Entries = DOMAIN strategy \cup DOMAIN dpmap
      /\ \A i \in DOMAIN Entries : Entry(Entries[i])
      /\ \A i \in DOMAIN strategy : Entries[i] = strategy[i]
      /\ \A i \in DOMAIN dpmap \ DOMAIN strategy : Entries[i].code = dpmap[i]
  BY EntriesAre DEF TypeOK
<1> DEFINE all == Patched(Entries)
<1>3. /\ DOMAIN Entries \subseteq DOMAIN all
      /\ \A i \in DOMAIN all :
           /\ \A p \in Range(dp) : p.id = i => all[i].code = p.code
           /\ (\A p \in Range(dp) : p.id # i) => i \in DOMAIN Entries /\ all[i] = Entries[i]
      /\ \A p \in Range(dp) : p.spec # None => p.id \in DOMAIN all
  BY <1>2, PatchedIs DEF TypeOK
<1> HIDE DEF all
<1>4. \A p \in Range(dp) : p.id \in DOMAIN held /\ held[p.id] = p.code
  BY <1>0 DEF InOrder, Given
<1>5. ASSUME NEW i \in DOMAIN all
      PROVE  i \in DOMAIN held /\ all[i].code = held[i]
  <2>1. CASE \E p \in Range(dp) : p.id = i
    BY <1>3, <1>4, <2>1
  <2>2. CASE \A p \in Range(dp) : p.id # i
    <3>1. i \in DOMAIN Entries /\ all[i] = Entries[i]
      BY <1>3, <2>2
    <3>2. i \in DOMAIN held
      BY <1>2, <3>1 DEF TypeOK, Adapt
    <3>3. i \notin Touched
      BY <1>0, <2>2 DEF Touched
    <3>4. held[i] = original[i]
      BY <3>2, <3>3 DEF InOrder, Untouched
    <3>5. QED
      BY <1>2, <3>1, <3>2, <3>4 DEF InOrder, StrategyFirst, MapFollows
  <2>3. QED
    BY <2>1, <2>2
<1>6. ASSUME NEW i \in DOMAIN held, held[i] \notin removed
      PROVE  i \in DOMAIN all
  BY <1>2, <1>3, <1>6 DEF InOrder, MapFollows
<1>7. DOMAIN KeptEntries(Entries) = {i \in DOMAIN all : all[i].code \notin removed}
      /\ \A i \in DOMAIN KeptEntries(Entries) : KeptEntries(Entries)[i] = all[i]
  BY KeptIs DEF all
<1>8. QED
  BY <1>1, <1>5, <1>6, <1>7 DEF EntriesFollow

(* A write goes to the DPs that have the code.                             *)
Named(a, c) == {i \in DOMAIN a.entries : a.entries[i].code = c}

LEMMA WritesTo ==
  ASSUME NEW a, NEW c, NEW v
  PROVE  {w.id : w \in Write(a, c, v)} = Named(a, c)
<1> DEFINE raw(i) == StrategyWrite(a.entries[i], Unaliased(a, c, Flip(a, c, v)))
<1> HIDE DEF raw
<1>1. Write(a, c, v) = {[id |-> i, raw |-> raw(i)] : i \in Named(a, c)}
  BY DEF Write, raw, Named
<1>2. ASSUME NEW i \in Named(a, c) PROVE i \in {w.id : w \in Write(a, c, v)}
  <2>1. [id |-> i, raw |-> raw(i)] \in Write(a, c, v)
    BY <1>1
  <2>2. [id |-> i, raw |-> raw(i)].id = i
    OBVIOUS
  <2>3. QED
    BY <2>1, <2>2
<1>3. ASSUME NEW w \in Write(a, c, v) PROVE w.id \in Named(a, c)
  BY <1>1
<1>4. QED
  BY <1>2, <1>3

(* A device whose DPs have codes of their own keeps them so, whatever a    *)
(* block renames and defines, unless it gives a DP another's code.         *)
THEOREM PatchesAreHeld == Spec => []PatchesHold
<1>1. Init => PatchesInv
  BY DEF Init, PatchesInv
<1>2. TypeOK /\ PatchesInv /\ [Next]_vars => PatchesInv'
  <2> SUFFICES ASSUME TypeOK, PatchesInv, [Next]_vars PROVE PatchesInv'
    OBVIOUS
  <2>1. CASE Quirk
    BY <2>1 DEF Quirk, PatchesInv
  <2>2. CASE MapDps
    BY <2>2, MapInOrder DEF MapDps, PatchesInv
  <2>3. CASE Rename
    BY <2>3, RenameInOrder DEF Rename, Patching, PatchesInv
  <2>4. CASE RenameFails
    BY <2>4 DEF RenameFails, PatchesInv
  <2>5. CASE Define
    BY <2>5, DefineInOrder DEF Define, Patching, PatchesInv
  <2>6. CASE Remap
    BY <2>6, RemapInOrder DEF Remap, PatchesInv
  <2>7. CASE RemoveDps
    BY <2>7, RemoveInOrder DEF RemoveDps, PatchesInv
  <2>8. CASE Adapt
    <3>1. clean => EntriesFollow'
      BY <2>8, AdaptFollows DEF Adapt, PatchesInv
    <3>2. InOrder => InOrder'
      BY <2>8 DEF Adapt, InOrder, Apart, SchemasKept, Table, Given, Touched, Untouched,
                  StrategyFirst, MapFollows
    <3>3. QED
      BY <2>8, <3>1, <3>2 DEF Adapt, PatchesInv
  <2>9. CASE FitCover \/ NoCover
    <3>1. adapter'.entries = adapter.entries /\ stage = "cover" /\ stage' = "ready"
          /\ UNCHANGED <<device, strategy, dpmap, dp, applied, original, removed, own, held, clean>>
      BY <2>9, InvertedIs DEF FitCover, NoCover, TypeOK
    <3>2. InOrder => InOrder'
      BY <3>1 DEF InOrder, Apart, SchemasKept, Table, Given, Touched, Untouched,
                  StrategyFirst, MapFollows
    <3>3. EntriesFollow => EntriesFollow'
      BY <3>1 DEF EntriesFollow
    <3>4. QED
      BY <3>1, <3>2, <3>3 DEF PatchesInv
  <2>10. CASE UNCHANGED vars
    <3>1. UNCHANGED <<stage, device, strategy, dpmap, dp, applied, original, removed, adapter, own,
                      held, clean>>
      BY <2>10 DEF vars
    <3>2. (InOrder => InOrder') /\ (EntriesFollow => EntriesFollow')
      BY <3>1 DEF InOrder, Apart, SchemasKept, Table, Given, Touched, Untouched,
                  StrategyFirst, MapFollows, EntriesFollow
    <3>3. QED
      BY <3>1, <3>2 DEF PatchesInv
  <2>11. QED
    BY <2>1, <2>2, <2>3, <2>4, <2>5, <2>6, <2>7, <2>8, <2>9, <2>10 DEF Next
<1>3. TypeOK /\ PatchesInv => PatchesHold
  <2> SUFFICES ASSUME TypeOK, PatchesInv, stage = "ready", clean, NEW p \in Kept
               PROVE  /\ p.code \in DOMAIN Table /\ Table[p.code].of = own[p.id]
                      /\ {w.id : w \in Write(adapter, p.code, Null)} = {p.id}
    BY DEF PatchesHold
  <2>1. InOrder /\ EntriesFollow /\ applied = Len(dp)
    BY DEF PatchesInv
  <2>2. PICK k \in 1..applied : p = dp[k]
    BY <2>1, BlockType DEF Kept, Range, TypeOK
  <2>3. p.id \in DOMAIN held /\ held[p.id] = p.code /\ p.code \notin removed /\ own[p.id] # None
    BY <2>1, <2>2 DEF InOrder, Given, Kept
  <2>4. p.code \in DOMAIN Table /\ Table[p.code].of = own[p.id]
    BY <2>1, <2>3 DEF InOrder, SchemasKept
  <2>5. Named(adapter, p.code) = {p.id}
    BY <2>1, <2>3 DEF InOrder, Apart, EntriesFollow, Named
  <2>6. {w.id : w \in Write(adapter, p.code, Null)} = Named(adapter, p.code)
    BY WritesTo
  <2>7. QED
    BY <2>4, <2>5, <2>6
<1>4. QED
  BY <1>1, <1>2, <1>3, TablesTypes, PTL DEF Spec

-----------------------------------------------------------------------------
(* What an inversion makes of what is read.                                *)

Proper(v) ==
  \/ v = Word(v.word)
  \/ v = Number(v.num) /\ v.num \in Int
  \/ v \in {Bool(TRUE), Bool(FALSE), Null}

(* A remap of the adapter.                                                 *)
Remapped(r) == r = [alias |-> r.alias, invert |-> r.invert, bounds |-> r.bounds]

(* The adapter's way from a value the conversion gives to a code's value.  *)
Way(a, c, v) == Flip(a, c, Aliased(a, c, v))

LEMMA ReadIs ==
  ASSUME NEW a, NEW id \in DOMAIN a.entries, NEW raw
  PROVE  LET e == a.entries[id]
             v == Way(a, e.code, StrategyRead(e, raw))
         IN  Read(a, id, raw) = IF e.code \in DOMAIN a.ranges /\ v \notin a.ranges[e.code]
                                THEN {} ELSE {[code |-> e.code, value |-> v]}
BY DEF Read, Way

(* Values are told apart by their type.                                    *)
LEMMA ProperIs ==
  ASSUME NEW v, Proper(v)
  PROVE  /\ v.type = "string" => v = Word(v.word)
         /\ v.type = "number" => v = Number(v.num) /\ v.num \in Int
         /\ v.type = "boolean" => v = Bool(Truth(v)) /\ Truth(v) \in BOOLEAN
<1>1. \A w : Word(w).type = "string" /\ Word(w).word = w
  BY DEF Word
<1>2. \A n : Number(n).type = "number" /\ Number(n).num = n
  BY DEF Number
<1>3. /\ Bool(TRUE).type = "boolean" /\ Bool(FALSE).type = "boolean" /\ Null.type = "null"
      /\ Truth(Bool(TRUE)) = TRUE /\ Truth(Bool(FALSE)) = FALSE
  BY DEF Bool, Null, Truth
<1>4. QED
  BY <1>1, <1>2, <1>3 DEF Proper

(* What a conversion gives is a value.                                     *)
LEMMA StrategyReadProper ==
  ASSUME NEW e, Entry(e), NEW raw, Proper(raw)
  PROVE  Proper(StrategyRead(e, raw))
<1>1. Proper(e.missing)
  BY DEF Entry, Proper
<1>2. \A w : Proper(Word(w))
  BY DEF Proper, Word
<1>3. QED
  BY <1>1, <1>2 DEF StrategyRead

LEMMA SamplesProper ==
  ASSUME NEW v \in Samples
  PROVE  Proper(v)
<1>1. \A w : Proper(Word(w))
  BY DEF Proper, Word
<1>2. \A n \in Int : Proper(Number(n))
  BY DEF Proper, Number
<1>3. Proper(Bool(TRUE)) /\ Proper(Bool(FALSE))
  BY DEF Proper
<1> DEFINE words == {"open", "close", "stop", "on", "off", "pause"}
           numbers == {0, 5, 10, 35, 400, 1000}
<1>4. Samples = {Word(w) : w \in words} \cup {Bool(TRUE), Bool(FALSE)} \cup {Number(n) : n \in numbers}
  BY DEF Samples
<1>5. numbers \subseteq Int
  OBVIOUS
<1> HIDE DEF words, numbers
<1>6. QED
  BY <1>1, <1>2, <1>3, <1>4, <1>5

(* What the two inversions make of the remap of their code; those of the   *)
(* other codes they leave.                                                 *)
LEMMA RemapAliased ==
  ASSUME NEW r, Remapped(r), NEW alias
  PROVE  [r EXCEPT !.alias = alias] = [alias |-> alias, invert |-> r.invert, bounds |-> r.bounds]
<1>1. PICK x, y, z : r = [alias |-> x, invert |-> y, bounds |-> z]
  BY DEF Remapped
<1>2. r.invert = y /\ r.bounds = z
  BY <1>1
<1>3. [[alias |-> x, invert |-> y, bounds |-> z] EXCEPT !.alias = alias]
        = [alias |-> alias, invert |-> y, bounds |-> z]
  OBVIOUS
<1>4. QED
  BY <1>1, <1>2, <1>3

LEMMA TurnedRemap ==
  ASSUME NEW a, Fitting(a), NEW c
  PROVE  /\ RemapOf(Turned(a, c), c) =
              [alias |-> RemapOf(a, c).alias, invert |-> ~RemapOf(a, c).invert, bounds |-> BoundsOf(c)]
         /\ \A x : x # c => RemapOf(Turned(a, c), x) = RemapOf(a, x)
<1> DEFINE new == [alias |-> RemapOf(a, c).alias, invert |-> ~RemapOf(a, c).invert,
                   bounds |-> BoundsOf(c)]
           b == Turned(a, c)
<1>1. b = [a EXCEPT !.remaps = Put(@, c, new)]
  BY Zenon DEF Turned
<1> HIDE DEF new, b
<1>2. b.remaps = Put(a.remaps, c, new)
  BY <1>1 DEF Fitting
<1>3. RemapOf(b, c) = new /\ \A x : x # c => RemapOf(b, x) = RemapOf(a, x)
  BY <1>2 DEF Put, RemapOf
<1>4. QED
  BY <1>3 DEF new, b

(* What an alias makes of a word.                                          *)
Said(alias, w) == IF w \in DOMAIN alias THEN alias[w] ELSE w

(* What is said of every word is exchanged, but of those that only stand   *)
(* for what the alias makes of another; without both words nothing is.     *)
SwapAlias(alias, both) ==
  LET swaps == IF both THEN {"open", "close"} ELSE {}
      devs == DOMAIN alias \cup (swaps \ Range(alias))
      new == [w \in devs |-> LET std == IF w \in DOMAIN alias THEN alias[w] ELSE w
                             IN  IF std \in swaps THEN Swap(std) ELSE std]
  IN  [w \in {d \in devs : new[d] # d} |-> new[w]]
Exchanged(old, new, both) ==
  /\ new.invert = old.invert /\ new.bounds = old.bounds
  /\ new.alias = SwapAlias(old.alias, both)
  /\ \A w : (both => (w \in Range(old.alias) => w \in DOMAIN old.alias)) =>
       Said(new.alias, w) = IF both THEN Swap(Said(old.alias, w)) ELSE Said(old.alias, w)
BothWords(spec) == {Word("open"), Word("close")} \subseteq spec.range

LEMMA SwappedRemap ==
  ASSUME NEW a, Fitting(a), NEW r, Remapped(RemapOf(a, r.code))
  PROVE  /\ Exchanged(RemapOf(a, r.code), RemapOf(Swapped(a, r), r.code), BothWords(r.spec))
         /\ \A x : x # r.code => RemapOf(Swapped(a, r), x) = RemapOf(a, x)
<1> DEFINE old == RemapOf(a, r.code)
           both == {Word("open"), Word("close")} \subseteq r.spec.range
           swaps == IF both THEN {"open", "close"} ELSE {}
           devs == DOMAIN old.alias \cup (swaps \ Range(old.alias))
           new == [w \in devs |-> LET std == IF w \in DOMAIN old.alias THEN old.alias[w] ELSE w
                                  IN  IF std \in swaps THEN Swap(std) ELSE std]
           alias == [w \in {d \in devs : new[d] # d} |-> new[w]]
           b == Swapped(a, r)
<1>1. b = [a EXCEPT !.remaps = Put(@, r.code, [RemapOf(a, r.code) EXCEPT !.alias = alias])]
  BY DEF Swapped
<1>2. \A w \in devs : new[w] = IF Said(old.alias, w) \in swaps THEN Swap(Said(old.alias, w))
                               ELSE Said(old.alias, w)
  BY DEF Said
<1>3. \A w : Said(alias, w) = IF w \in devs THEN new[w] ELSE w
  <2> HIDE DEF devs, new
  <2> QED
    BY DEF Said
<1>4. [RemapOf(a, r.code) EXCEPT !.alias = alias]
        = [alias |-> alias, invert |-> old.invert, bounds |-> old.bounds]
  <2> HIDE DEF alias
  <2> QED
    BY RemapAliased
<1>5. ASSUME NEW w, both => (w \in Range(old.alias) => w \in DOMAIN old.alias)
      PROVE  Said(alias, w) = IF both THEN Swap(Said(old.alias, w)) ELSE Said(old.alias, w)
  <2>1. w \notin devs => w \notin DOMAIN old.alias /\ (both => w \notin {"open", "close"})
    BY <1>5
  <2>2. both => \A x : x \notin swaps => Swap(x) = x
    BY DEF Swap
  <2>3. CASE w \in devs
    BY <1>2, <1>3, <2>2, <2>3
  <2>4. CASE w \notin devs
    <3>1. Said(alias, w) = w /\ Said(old.alias, w) = w
      BY <1>3, <2>1, <2>4 DEF Said
    <3>2. both => Swap(w) = w
      BY <2>1, <2>4 DEF Swap
    <3>3. QED
      BY <3>1, <3>2
  <2>5. QED
    BY <2>3, <2>4
<1>6. b.remaps = Put(a.remaps, r.code, [alias |-> alias, invert |-> old.invert, bounds |-> old.bounds])
  BY <1>1, <1>4 DEF Fitting
<1>6a. alias = SwapAlias(old.alias, both)
  BY DEF SwapAlias
<1> HIDE DEF b, alias
<1>7. RemapOf(b, r.code) = [alias |-> alias, invert |-> old.invert, bounds |-> old.bounds]
      /\ \A x : x # r.code => RemapOf(b, x) = RemapOf(a, x)
  BY <1>6 DEF Put, RemapOf
<1>8. \A w : (both => (w \in Range(old.alias) => w \in DOMAIN old.alias)) =>
        Said(RemapOf(b, r.code).alias, w) = IF both THEN Swap(Said(old.alias, w)) ELSE Said(old.alias, w)
  <2> SUFFICES ASSUME NEW w, both => (w \in Range(old.alias) => w \in DOMAIN old.alias)
               PROVE  Said(RemapOf(b, r.code).alias, w)
                        = IF both THEN Swap(Said(old.alias, w)) ELSE Said(old.alias, w)
    OBVIOUS
  <2>1. Said(alias, w) = IF both THEN Swap(Said(old.alias, w)) ELSE Said(old.alias, w)
    BY <1>5
  <2>2. RemapOf(b, r.code).alias = alias
    BY <1>7
  <2>3. QED
    BY <2>1, <2>2
<1>9. RemapOf(b, r.code).invert = old.invert /\ RemapOf(b, r.code).bounds = old.bounds
  BY <1>7
<1>10. Exchanged(old, RemapOf(b, r.code), BothWords(r.spec))
  <2>1. RemapOf(b, r.code).alias = SwapAlias(old.alias, BothWords(r.spec))
    BY <1>7, <1>6a DEF BothWords
  <2>2. QED
    BY <1>8, <1>9, <2>1 DEF Exchanged, BothWords
<1>11. QED
  BY <1>7, <1>10 DEF b

(* The settings of a cover reach the DPs they are about, each once: those  *)
(* shown and set at most one inversion each, the control its swap only if  *)
(* there is no target, and every other code stays.                         *)
SwapsWords(s) ==
  "invert_control" \in s.on /\ ~Has(Target, "Integer") /\ Has(Control, "Enum")
Turns(s, x) ==
  \/ x # None /\ x = Shown(s) /\ "invert_position" \in s.on
  \/ x = Target /\ Has(Target, "Integer") /\ Shown(s) # Target /\ "invert_set_position" \in s.on
  \/ /\ x = Control /\ "invert_control" \in s.on /\ ~Has(Target, "Integer")
     /\ ~Has(Control, "Enum") /\ Has(Control, "Boolean")

LEMMA InvertedRemap ==
  ASSUME Control \in DOMAIN device.function \cup DOMAIN device.status_range,
         NEW a, Fitting(a), \A x : Remapped(RemapOf(a, x)), NEW s, NEW x
  PROVE  LET b == Inverted(a, Selected(CoverOf(device), s), s)
             old == RemapOf(a, x)
             new == RemapOf(b, x)
         IN  IF x = Control /\ SwapsWords(s)
             THEN Exchanged(old, new, BothWords(Taken(device, Control, "Enum").spec))
             ELSE IF Turns(s, x)
             THEN new = [alias |-> old.alias, invert |-> ~old.invert, bounds |-> BoundsOf(x)]
             ELSE new = old
<1> DEFINE c == Selected(CoverOf(device), s)
           one == IF "invert_position" \in s.on /\ c.cur # NoRole THEN Turned(a, c.cur.code) ELSE a
           two == IF "invert_set_position" \in s.on /\ Separate(c) THEN Turned(one, c.setp.code)
                  ELSE one
           b == Inverted(a, c, s)
           turned == [alias |-> RemapOf(a, x).alias, invert |-> ~RemapOf(a, x).invert,
                      bounds |-> BoundsOf(x)]
           first == x = Shown(s) /\ x # None /\ "invert_position" \in s.on
           second == x = Target /\ Has(Target, "Integer") /\ Shown(s) # Target
                       /\ "invert_set_position" \in s.on
<1>1. /\ c.cur.code = Shown(s)
      /\ c.cur # NoRole <=> Shown(s) # None
      /\ c.setp # NoRole <=> Has(Target, "Integer")
      /\ c.setp # NoRole => c.setp.code = Target
      /\ Separate(c) <=> Has(Target, "Integer") /\ Shown(s) # Target
      /\ c.ins = CoverOf(device).ins
  BY SelectedIs
<1>2. /\ None \notin {Control, Position, Target}
      /\ Control # Position /\ Control # Target /\ Position # Target
      /\ Shown(s) \in {Position, Target, None}
  BY TablesAssumption DEF Control, Position, Target, Shown
<1>3. /\ c.ins = NoRole <=> ~Has(Control, "Enum") /\ ~Has(Control, "Boolean")
      /\ Has(Control, "Enum") => /\ c.ins = Taken(device, Control, "Enum")
                                 /\ c.ins.spec.kind = "Enum" /\ c.ins.code = Control
      /\ ~Has(Control, "Enum") /\ Has(Control, "Boolean") =>
           c.ins.spec.kind = "Boolean" /\ c.ins.code = Control
  <2>1. \A kind : Has(Control, kind) <=> HasIn(device, Control, kind)
    BY DEF Has, HasIn
  <2>2. CoverOf(device).ins
          = Else(Taken(device, Control, "Enum"), Taken(device, Control, "Boolean"))
    BY DEF CoverOf
  <2>3. \A kind : Taken(device, Control, kind) # NoRole => Taken(device, Control, kind).spec.kind = kind
    BY DEF Taken, Resolve, Role, Of
  <2>4. QED
    BY <1>1, <1>2, <2>1, <2>2, <2>3, RolesAre DEF Else
<1> HIDE DEF c
<1>4. /\ Fitting(one) /\ RemapOf(one, Control) = RemapOf(a, Control)
      /\ RemapOf(one, x) = IF first THEN turned ELSE RemapOf(a, x)
  BY <1>1, <1>2, TurnedIs, TurnedRemap
<1> HIDE DEF one
<1>5. /\ Fitting(two) /\ RemapOf(two, Control) = RemapOf(a, Control)
      /\ RemapOf(two, x) = IF second \/ first THEN turned ELSE RemapOf(a, x)
  <2>1. CASE "invert_set_position" \in s.on /\ Separate(c)
    <3>1. two = Turned(one, Target) /\ (second <=> x = Target) /\ (x = Target => ~first)
      BY <1>1, <2>1
    <3> HIDE DEF two
    <3>2. Fitting(two) /\ RemapOf(two, Control) = RemapOf(a, Control)
      BY <1>2, <1>4, <3>1, TurnedIs, TurnedRemap
    <3>3. CASE x = Target
      <4>1. RemapOf(one, x) = RemapOf(a, x)
        BY <1>4, <3>1, <3>3
      <4>2. RemapOf(two, x) = turned
        BY <1>4, <3>1, <3>3, <4>1, TurnedRemap
      <4>3. QED
        BY <3>1, <3>2, <3>3, <4>2
    <3>4. CASE x # Target
      BY <1>4, <3>1, <3>2, <3>4, TurnedRemap
    <3>5. QED
      BY <3>3, <3>4
  <2>2. CASE ~("invert_set_position" \in s.on /\ Separate(c))
    BY <1>1, <1>4, <2>2
  <2>3. QED
    BY <2>1, <2>2
<1>6. b = IF "invert_control" \notin s.on \/ c.ins = NoRole \/ c.setp # NoRole THEN two
          ELSE IF c.ins.spec.kind = "Boolean" THEN Turned(two, c.ins.code)
          ELSE Swapped(two, c.ins)
  BY DEF Inverted, one, two
<1> HIDE DEF two, b
<1>7. CASE x = Control
  <2>1. ~first /\ ~second /\ RemapOf(two, x) = RemapOf(a, x)
    BY <1>2, <1>5, <1>7
  <2>2. CASE SwapsWords(s)
    <3>1. b = Swapped(two, c.ins) /\ c.ins = Taken(device, Control, "Enum") /\ c.ins.code = x
      BY <1>1, <1>3, <1>6, <1>7, <2>2 DEF SwapsWords
    <3>2. Remapped(RemapOf(two, c.ins.code))
      BY <2>1, <3>1
    <3>3. Exchanged(RemapOf(a, x), RemapOf(b, x), BothWords(Taken(device, Control, "Enum").spec))
      BY <1>5, <2>1, <3>1, <3>2, SwappedRemap
    <3>4. QED
      BY <1>7, <2>2, <3>3 DEF b, c
  <2>3. CASE ~SwapsWords(s) /\ Turns(s, x)
    <3>1. b = Turned(two, x)
      BY <1>1, <1>2, <1>3, <1>6, <1>7, <2>3 DEF SwapsWords, Turns
    <3>2. RemapOf(b, x) = turned
      BY <1>5, <2>1, <3>1, TurnedRemap
    <3>3. QED
      BY <1>7, <2>3, <3>2 DEF b, c
  <2>4. CASE ~SwapsWords(s) /\ ~Turns(s, x)
    <3>1. b = two
      BY <1>1, <1>2, <1>3, <1>6, <1>7, <2>4 DEF SwapsWords, Turns
    <3>2. QED
      BY <1>7, <2>1, <2>4, <3>1 DEF b, c
  <2>5. QED
    BY <2>2, <2>3, <2>4
<1>8. CASE x # Control
  <2>1. RemapOf(b, x) = RemapOf(two, x)
    <3>1. CASE b = two
      BY <3>1
    <3>2. CASE b = Turned(two, Control)
      BY <1>5, <1>8, <3>2, TurnedRemap
    <3>3. CASE b = Swapped(two, c.ins) /\ c.ins.code = Control /\ Has(Control, "Enum")
      <4>1. Remapped(RemapOf(two, c.ins.code))
        BY <1>5, <3>3
      <4>2. QED
        BY <1>5, <1>8, <3>3, <4>1, SwappedRemap
    <3>4. QED
      BY <1>3, <1>6, <3>1, <3>2, <3>3
  <2>2. Turns(s, x) <=> first \/ second
    BY <1>8 DEF Turns
  <2>3. QED
    BY <1>5, <1>8, <2>1, <2>2 DEF b, c
<1>9. QED
  BY <1>7, <1>8 DEF b, c

(* With tables that are alike a DP of a curtain has one kind.              *)
LEMMA KindsAre ==
  ASSUME Alike, NEW c \in {Control, Position, Target}, NEW kind, Has(c, kind)
  PROVE  /\ \A other : Has(c, other) => other = kind
         /\ c \in DOMAIN Table /\ Table[c].kind = kind
         /\ c \in DOMAIN device.status_range =>
              /\ device.status_range[c].kind = kind
              /\ Taken(device, c, kind).spec.range = device.status_range[c].range
<1>1. /\ DOMAIN Table = DOMAIN device.status_range \cup DOMAIN device.function
      /\ c \in DOMAIN device.status_range => Table[c] = device.status_range[c]
      /\ c \notin DOMAIN device.status_range => Table[c] = device.function[c]
  <2>1. c \in DOMAIN device.status_range \cup DOMAIN device.function
    BY DEF Has, Of
  <2>2. QED
    BY <2>1 DEF Table, Over
<1>2. \A other : Has(c, other) => other = kind
  BY DEF Alike, Has, Of
<1>3. c \in DOMAIN device.status_range => device.status_range[c].kind = kind
  BY DEF Alike, Has, Of
<1>4. c \in DOMAIN device.status_range =>
        Taken(device, c, kind).spec.range = device.status_range[c].range
  BY DEF Alike, Has, Of, Taken, Resolve, Role
<1>5. QED
  BY <1>1, <1>2, <1>3, <1>4 DEF Has, Of

(* The way of a word goes by the alias, that of another value by the       *)
(* inversion.                                                              *)
LEMMA WayIs ==
  ASSUME NEW a, NEW c, NEW v, Proper(v)
  PROVE  LET r == RemapOf(a, c)
         IN  /\ v.type = "string" => Way(a, c, v) = Word(Said(r.alias, v.word))
             /\ v.type = "boolean" => Way(a, c, v) = IF r.invert THEN Bool(~Truth(v)) ELSE v
             /\ v.type = "number" =>
                  Way(a, c, v) = IF r.invert /\ r.bounds # <<>>
                                 THEN Number(r.bounds[1] + r.bounds[2] - v.num) ELSE v
             /\ v.type \notin {"string", "boolean", "number"} => Way(a, c, v) = v
<1>1. \A w : Word(w).type = "string"
  BY DEF Word
<1>2. v.type = "string" => Aliased(a, c, v) = Word(Said(RemapOf(a, c).alias, v.word))
  BY ProperIs DEF Aliased, Said
<1>3. v.type # "string" => Aliased(a, c, v) = v
  BY DEF Aliased
<1>4. \A x : x.type \notin {"boolean", "number"} => Flip(a, c, x) = x
  BY DEF Flip
<1>5. v.type = "string" => Way(a, c, v) = Word(Said(RemapOf(a, c).alias, v.word))
  BY <1>1, <1>2, <1>4 DEF Way
<1>6. v.type # "string" => Way(a, c, v) = Flip(a, c, v)
  BY <1>3 DEF Way
<1>7. QED
  BY <1>4, <1>5, <1>6 DEF Flip

Regular(a) ==
  \A x : LET r == RemapOf(a, x)
         IN  Remapped(r) /\ r.invert \in BOOLEAN /\ (r.invert => r.bounds = BoundsOf(x))
Mirrors(a) ==
  \A x : LET r == RemapOf(a, x) IN r.invert \in BOOLEAN /\ (r.invert => r.bounds = BoundsOf(x))

(* Turned over, an inversion shows the opposite: another one is taken      *)
(* back, and none becomes one.                                             *)
LEMMA TurnedWay ==
  ASSUME NEW a, NEW b, NEW x, RemapOf(a, x).invert \in BOOLEAN,
         RemapOf(a, x).invert => RemapOf(a, x).bounds = BoundsOf(x),
         RemapOf(b, x) = [alias |-> RemapOf(a, x).alias, invert |-> ~RemapOf(a, x).invert,
                          bounds |-> BoundsOf(x)],
         NEW v, Proper(v), v.type \in {"boolean", "number"},
         v.type = "number" => /\ BoundsOf(x) # <<>>
                              /\ BoundsOf(x)[1] \in Int /\ BoundsOf(x)[2] \in Int
  PROVE  Way(b, x, v) = Opposite(x, Way(a, x, v))
<1>1. /\ \A n : Number(n).type = "number" /\ Number(n).num = n
      /\ \A t \in BOOLEAN : Bool(t).type = "boolean" /\ (Truth(Bool(t)) <=> t)
  BY DEF Number, Bool, Truth
<1>2. RemapOf(b, x).bounds = BoundsOf(x) /\ (RemapOf(b, x).invert <=> ~RemapOf(a, x).invert)
  <2> DEFINE r == RemapOf(b, x)
             old == RemapOf(a, x)
  <2>1. r = [alias |-> old.alias, invert |-> ~old.invert, bounds |-> BoundsOf(x)]
        /\ old.invert \in BOOLEAN
    OBVIOUS
  <2> HIDE DEF r, old
  <2>2. r.bounds = BoundsOf(x) /\ (r.invert <=> ~old.invert)
    BY <2>1
  <2>3. QED
    BY <2>2 DEF r, old
<1>3. CASE v.type = "boolean"
  <2>1. v = Bool(Truth(v)) /\ Truth(v) \in BOOLEAN
    BY <1>3, ProperIs
  <2>2. Way(a, x, v) = IF RemapOf(a, x).invert THEN Bool(~Truth(v)) ELSE v
    BY <1>3, WayIs
  <2>3. Way(b, x, v) = IF RemapOf(a, x).invert THEN v ELSE Bool(~Truth(v))
    BY <1>2, <1>3, WayIs
  <2>4. \A t \in BOOLEAN : Opposite(x, Bool(t)) = Bool(~t)
    BY <1>1 DEF Opposite
  <2>5. QED
    BY <2>1, <2>2, <2>3, <2>4
<1>4. CASE v.type = "number"
  <2> DEFINE m == BoundsOf(x)[1]
             n == BoundsOf(x)[2]
  <2>1. v = Number(v.num) /\ v.num \in Int /\ m \in Int /\ n \in Int
    BY <1>4, ProperIs
  <2>2. Way(a, x, v) = IF RemapOf(a, x).invert THEN Number(m + n - v.num) ELSE v
    BY <1>4, WayIs
  <2>3. Way(b, x, v) = IF RemapOf(a, x).invert THEN v ELSE Number(m + n - v.num)
    BY <1>2, <1>4, WayIs
  <2>4. \A k : Opposite(x, Number(k)) = Number(m + n - k)
    BY <1>1 DEF Opposite
  <2> HIDE DEF m, n
  <2>5. m + n - (m + n - v.num) = v.num
    BY <2>1
  <2>6. QED
    BY <2>1, <2>2, <2>3, <2>4, <2>5
<1>5. QED
  BY <1>3, <1>4

\* The type a code's values are of.
Telling(a, x, v) ==
  Fits(x, v) /\ (v.word \in Range(RemapOf(a, x).alias) => v.word \in DOMAIN RemapOf(a, x).alias)

LEMMA InvertedAre ==
  ASSUME NEW s, NEW x
  PROVE  x \in InvertedCodes(s)
           <=> \/ Turns(s, x)
               \/ x = Control /\ SwapsWords(s) /\ BothWords(Taken(device, Control, "Enum").spec)
<1>1. Shown(s) \in {Position, Target, None}
  BY DEF Shown
<1>2. Control # Position /\ Control # Target /\ None \notin {Control, Position, Target}
  BY TablesAssumption DEF Control, Position, Target
<1>3. QED
  BY <1>1, <1>2 DEF InvertedCodes, Turns, SwapsWords, BothWords

(* What turns over is a number with limits or a switch, and no Enum.       *)
LEMMA TurnsAre ==
  ASSUME Alike, Described(device.function), Described(device.status_range),
         NEW s, NEW x, Turns(s, x), NEW v, Fits(x, v)
  PROVE  /\ v.type \in {"boolean", "number"}
         /\ v.type = "number" => /\ BoundsOf(x) # <<>>
                                 /\ BoundsOf(x)[1] \in Int /\ BoundsOf(x)[2] \in Int
         /\ x \in DOMAIN device.status_range => device.status_range[x].kind # "Enum"
<1>1. CASE x \in {Position, Target} /\ Has(x, "Integer")
  <2>1. v.type = "number"
    <3>1. ~Has(x, "Boolean")
      BY <1>1, KindsAre
    <3>2. QED
      BY <1>1, <3>1 DEF Fits
  <2>2. x \in DOMAIN Table /\ Table[x].kind = "Integer"
        /\ (x \in DOMAIN device.status_range => device.status_range[x].kind = "Integer")
    BY <1>1, KindsAre
  <2>3. Table[x].min \in Int /\ Table[x].max \in Int
    BY <2>2 DEF Table, Over, Described, Schema
  <2>4. BoundsOf(x) = <<Table[x].min, Table[x].max>>
    BY <2>2 DEF BoundsOf
  <2>5. QED
    BY <2>1, <2>2, <2>3, <2>4
<1>2. CASE x = Control /\ Has(Control, "Boolean")
  <2>1. ~Has(Control, "Integer")
        /\ (x \in DOMAIN device.status_range => device.status_range[x].kind = "Boolean")
    BY <1>2, KindsAre
  <2>2. v.type = "boolean"
    BY <1>2, <2>1 DEF Fits
  <2>3. QED
    BY <2>1, <2>2
<1>3. QED
  <2>1. x = Shown(s) /\ x # None => x \in {Position, Target} /\ Has(x, "Integer")
    BY DEF Shown
  <2>2. QED
    BY <1>1, <1>2, <2>1 DEF Turns

LEMMA WayInverted ==
  ASSUME Alike, Described(device.function), Described(device.status_range),
         Control \in DOMAIN device.function \cup DOMAIN device.status_range,
         NEW a, Fitting(a), Regular(a), NEW s, NEW x, NEW v, Proper(v)
  PROVE  LET b == Inverted(a, Selected(CoverOf(device), s), s)
         IN  /\ x \notin InvertedCodes(s) => Way(b, x, v) = Way(a, x, v)
             /\ x \in InvertedCodes(s) /\ Telling(a, x, v) => Way(b, x, v) = Opposite(x, Way(a, x, v))
<1> DEFINE b == Inverted(a, Selected(CoverOf(device), s), s)
           both == BothWords(Taken(device, Control, "Enum").spec)
<1>1. \A y : Remapped(RemapOf(a, y)) /\ RemapOf(a, y).invert \in BOOLEAN
             /\ (RemapOf(a, y).invert => RemapOf(a, y).bounds = BoundsOf(y))
  BY DEF Regular
<1>2. IF x = Control /\ SwapsWords(s) THEN Exchanged(RemapOf(a, x), RemapOf(b, x), both)
      ELSE IF Turns(s, x)
      THEN RemapOf(b, x) = [alias |-> RemapOf(a, x).alias, invert |-> ~RemapOf(a, x).invert,
                            bounds |-> BoundsOf(x)]
      ELSE RemapOf(b, x) = RemapOf(a, x)
  BY <1>1, InvertedRemap
<1>3. x \in InvertedCodes(s) <=> Turns(s, x) \/ (x = Control /\ SwapsWords(s) /\ both)
  BY InvertedAre
<1> HIDE DEF b, both
<1>4. CASE x = Control /\ SwapsWords(s)
  <2>1. /\ RemapOf(b, x).invert = RemapOf(a, x).invert /\ RemapOf(b, x).bounds = RemapOf(a, x).bounds
        /\ \A w : (both => (w \in Range(RemapOf(a, x).alias) => w \in DOMAIN RemapOf(a, x).alias)) =>
             Said(RemapOf(b, x).alias, w)
               = IF both THEN Swap(Said(RemapOf(a, x).alias, w)) ELSE Said(RemapOf(a, x).alias, w)
    BY <1>2, <1>4 DEF Exchanged
  <2>2. ~Turns(s, x)
    <3>1. Shown(s) # Control \/ Shown(s) = None
      BY TablesAssumption DEF Shown, Control, Position, Target
    <3>2. Control # Target
      BY DEF Control, Target
    <3>3. QED
      BY <1>4, <3>1, <3>2 DEF Turns, SwapsWords
  <2>3. CASE ~both
    <3>1. Way(b, x, v) = Way(a, x, v)
      BY <2>1, <2>3, WayIs
    <3>2. QED
      BY <1>3, <2>2, <2>3, <3>1 DEF b
  <2>4. CASE both
    <3>1. ASSUME Telling(a, x, v) PROVE Way(b, x, v) = Opposite(x, Way(a, x, v))
      <4>1. v.type = "string"
        <5>1. ~Has(Control, "Integer") /\ ~Has(Control, "Boolean")
          BY <1>4, KindsAre DEF SwapsWords
        <5>2. QED
          BY <1>4, <3>1, <5>1 DEF Telling, Fits
      <4>2. Way(a, x, v) = Word(Said(RemapOf(a, x).alias, v.word))
            /\ Way(b, x, v) = Word(Said(RemapOf(b, x).alias, v.word))
        BY <4>1, WayIs
      <4>3. Said(RemapOf(b, x).alias, v.word) = Swap(Said(RemapOf(a, x).alias, v.word))
        BY <2>1, <2>4, <3>1 DEF Telling
      <4>4. \A w : Opposite(x, Word(w)) = Word(Swap(w))
        BY DEF Opposite, Word
      <4>5. QED
        BY <4>2, <4>3, <4>4
    <3>2. QED
      BY <1>3, <1>4, <2>4, <3>1 DEF b
  <2>5. QED
    BY <2>3, <2>4
<1>5. CASE ~(x = Control /\ SwapsWords(s)) /\ Turns(s, x)
  <2>1. ASSUME Telling(a, x, v) PROVE Way(b, x, v) = Opposite(x, Way(a, x, v))
    <3>1. /\ v.type \in {"boolean", "number"}
          /\ v.type = "number" => /\ BoundsOf(x) # <<>>
                                  /\ BoundsOf(x)[1] \in Int /\ BoundsOf(x)[2] \in Int
      BY <1>5, <2>1, TurnsAre DEF Telling
    <3>2. QED
      BY <1>1, <1>2, <1>5, <3>1, TurnedWay
  <2>2. QED
    BY <1>3, <1>5, <2>1 DEF b
<1>6. CASE ~(x = Control /\ SwapsWords(s)) /\ ~Turns(s, x)
  <2>1. RemapOf(b, x) = RemapOf(a, x)
    BY <1>2, <1>6
  <2>2. Way(b, x, v) = Way(a, x, v)
    BY <2>1 DEF Way, Flip, Aliased
  <2>3. QED
    BY <1>3, <1>6, <2>2 DEF b
<1>7. QED
  BY <1>4, <1>5, <1>6

(* From its making on the adapter mirrors in the limits of the tables and  *)
(* reports their words; until it is inverted it maps values as the remap   *)
(* says.                                                                   *)
Enums == {c \in DOMAIN device.status_range : device.status_range[c].kind = "Enum"}
Adapted ==
  /\ remap = <<>> \/ remap \in Remaps
  /\ stage \in {"cover", "ready"} =>
       Mirrors(adapter) /\ adapter.ranges = [c \in Enums |-> device.status_range[c].range]
  /\ stage = "cover" => Regular(adapter) /\ \A x : RemapOf(adapter, x) = RemapOf(Uninverted, x)

(* What leaves the schema as it is leaves what an inversion is about.      *)
LEMMA SameSchema ==
  ASSUME device' = device
  PROVE  /\ \A x : BoundsOf(x)' = BoundsOf(x)
         /\ \A x, v : Opposite(x, v)' = Opposite(x, v) /\ (Fits(x, v)' <=> Fits(x, v))
         /\ Alike' <=> Alike
         /\ \A x : x \in InvertedCodes(settings)' <=> x \in InvertedCodes(settings')
<1>1. \A x : BoundsOf(x)' = BoundsOf(x)
  BY DEF BoundsOf, Table
<1>2. \A x, v : Opposite(x, v)' = Opposite(x, v)
  BY <1>1 DEF Opposite
<1>3. \A x, v : Fits(x, v)' <=> Fits(x, v)
  BY DEF Fits, Has
<1>4. Alike' <=> Alike
  BY DEF Alike
<1>5. \A x : x \in InvertedCodes(settings)' <=> x \in InvertedCodes(settings')
  BY DEF InvertedCodes, Shown, Has, Taken
<1>6. QED
  BY <1>1, <1>2, <1>3, <1>4, <1>5

(* An Enum may report the opposite of what it may report.                  *)
LEMMA RangeTurns ==
  ASSUME Alike, Described(device.function), Described(device.status_range),
         NEW a, NEW s, NEW x \in InvertedCodes(s), x \in Enums, NEW v, Proper(v), Fits(x, v)
  PROVE  Opposite(x, Way(a, x, v)) \in device.status_range[x].range
           <=> Way(a, x, v) \in device.status_range[x].range
<1> DEFINE range == device.status_range[x].range
           w == Said(RemapOf(a, x).alias, v.word)
<1>1. ~Turns(s, x)
  BY TurnsAre DEF Enums
<1>2. x = Control /\ SwapsWords(s) /\ BothWords(Taken(device, Control, "Enum").spec)
  BY <1>1, InvertedAre
<1>3. ~Has(x, "Integer") /\ ~Has(x, "Boolean") /\ range = Taken(device, x, "Enum").spec.range
  BY <1>2, KindsAre DEF SwapsWords, Enums
<1>4. v.type = "string"
  BY <1>3 DEF Fits
<1>5. Way(a, x, v) = Word(w)
  BY <1>4, WayIs
<1>6. \A u : Opposite(x, Word(u)) = Word(Swap(u))
  BY DEF Opposite, Word
<1>7. Word("open") \in range /\ Word("close") \in range
  BY <1>2, <1>3 DEF BothWords
<1> HIDE DEF w, range
<1>8. Word(Swap(w)) \in range <=> Word(w) \in range
  BY <1>7 DEF Swap
<1>9. QED
  BY <1>5, <1>6, <1>8 DEF range

(* The same of every value a device may send.                              *)
InversionsHold ==
  stage = "ready" /\ cover # None /\ Alike =>
    \A id \in DOMAIN adapter.entries : \A raw :
      Proper(raw) => Composes(Uninverted, InvertedCodes(settings), id, raw)

(* The step that inverts: a report is read of the adapter it makes as it   *)
(* is of the one before, or as the opposite.                               *)
LEMMA FittedReads ==
  ASSUME TypeOK, Adapted, FitCover
  PROVE  InversionsHold'
<1>1. PICK s \in CoverSettings :
        /\ settings' = s
        /\ adapter' = Inverted(adapter, Selected(CoverOf(device), s), s)
  BY DEF FitCover
<1>2. /\ stage = "cover" /\ device' = device /\ remap' = remap
      /\ Control \in DOMAIN device.function \cup DOMAIN device.status_range
  BY DEF FitCover, CoverOf
<1>3. /\ Described(device.function) /\ Described(device.status_range) /\ Fitting(adapter)
      /\ \A i \in DOMAIN adapter.entries : Entry(adapter.entries[i])
  BY DEF TypeOK
<1>4. /\ Regular(adapter) /\ \A x : RemapOf(adapter, x) = RemapOf(Uninverted, x)
      /\ adapter.ranges = [c \in Enums |-> device.status_range[c].range]
  BY <1>2 DEF Adapted
<1>5. adapter'.entries = adapter.entries /\ adapter'.ranges = adapter.ranges /\ Fitting(adapter')
  BY <1>1, <1>3, InvertedIs
<1>6. /\ Uninverted'.entries = adapter.entries /\ Uninverted'.ranges = adapter.ranges
      /\ \A x : RemapOf(Uninverted', x) = RemapOf(adapter, x)
  <2>1. Fitting(Uninverted') /\ Uninverted'.entries = adapter'.entries
        /\ Uninverted'.ranges = adapter'.ranges
    BY <1>5 DEF Uninverted, Fitting
  <2>2. \A x : RemapOf(Uninverted', x) = RemapOf(Uninverted, x)
    <3>1. ASSUME NEW x
          PROVE  /\ RemapOf(Uninverted, x) = IF x \in DOMAIN remap
                      THEN [alias |-> remap[x].alias, invert |-> remap[x].invert, bounds |-> BoundsOf(x)]
                      ELSE NoRemap
                 /\ RemapOf(Uninverted', x) = IF x \in DOMAIN remap
                      THEN [alias |-> remap[x].alias, invert |-> remap[x].invert, bounds |-> BoundsOf(x)']
                      ELSE NoRemap
      BY <1>2, <1>3, <1>5 DEF Fitting, Uninverted, RemapOf
    <3>2. QED
      BY <1>2, <3>1, SameSchema
  <2>3. QED
    BY <1>4, <1>5, <2>1, <2>2
<1>7. SUFFICES ASSUME Alike, NEW id \in DOMAIN adapter.entries, NEW raw, Proper(raw)
               PROVE  LET e == adapter.entries[id]
                          alias == RemapOf(adapter, e.code).alias
                          said == StrategyRead(e, raw)
                          plain == Read(Uninverted', id, raw)
                      IN  IF e.code \notin InvertedCodes(s) THEN Read(adapter', id, raw) = plain
                          ELSE Fits(e.code, said) /\ (said.word \in Range(alias) => said.word \in DOMAIN alias) =>
                                 Read(adapter', id, raw) =
                                   {[code |-> e.code, value |-> Opposite(e.code, r.value)] : r \in plain}
  BY <1>1, <1>2, <1>5, <1>6, SameSchema DEF InversionsHold, Composes
<1> DEFINE e == adapter.entries[id]
           x == e.code
           v == StrategyRead(e, raw)
           before == Way(adapter, x, v)
           after == Way(adapter', x, v)
<1>8. Proper(v)
  BY <1>3, <1>7, StrategyReadProper
<1>9. /\ Read(Uninverted', id, raw)
           = IF x \in DOMAIN adapter.ranges /\ before \notin adapter.ranges[x] THEN {}
             ELSE {[code |-> x, value |-> before]}
      /\ Read(adapter', id, raw)
           = IF x \in DOMAIN adapter.ranges /\ after \notin adapter.ranges[x] THEN {}
             ELSE {[code |-> x, value |-> after]}
  <2>1. Way(Uninverted', x, v) = before
    BY <1>6 DEF Way, Flip, Aliased
  <2>2. id \in DOMAIN Uninverted'.entries /\ Uninverted'.entries[id] = e
        /\ id \in DOMAIN adapter'.entries /\ adapter'.entries[id] = e
    BY <1>5, <1>6
  <2>3. Read(Uninverted', id, raw)
          = IF x \in DOMAIN adapter.ranges /\ before \notin adapter.ranges[x] THEN {}
            ELSE {[code |-> x, value |-> before]}
    BY <1>6, <2>1, <2>2, ReadIs
  <2>4. Read(adapter', id, raw)
          = IF x \in DOMAIN adapter.ranges /\ after \notin adapter.ranges[x] THEN {}
            ELSE {[code |-> x, value |-> after]}
    BY <1>5, <2>2, ReadIs
  <2>5. QED
    BY <2>3, <2>4
<1>10. /\ x \notin InvertedCodes(s) => after = before
       /\ x \in InvertedCodes(s) /\ Telling(adapter, x, v) => after = Opposite(x, before)
  <2> DEFINE b == Inverted(adapter, Selected(CoverOf(device), s), s)
  <2>1. /\ x \notin InvertedCodes(s) => Way(b, x, v) = before
        /\ x \in InvertedCodes(s) /\ Telling(adapter, x, v) => Way(b, x, v) = Opposite(x, before)
    <3> HIDE DEF x, v
    <3> QED
      BY <1>2, <1>3, <1>4, <1>7, <1>8, WayInverted
  <2>2. b = adapter'
    BY <1>1
  <2> HIDE DEF b
  <2>3. QED
    BY <2>1, <2>2
<1>11. CASE x \notin InvertedCodes(s)
  BY <1>9, <1>10, <1>11
<1>12. CASE x \in InvertedCodes(s)
  <2>1. SUFFICES ASSUME Telling(adapter, x, v)
                 PROVE  Read(adapter', id, raw)
                          = {[code |-> x, value |-> Opposite(x, r.value)] : r \in Read(Uninverted', id, raw)}
    BY <1>12 DEF Telling
  <2>2. after = Opposite(x, before)
    BY <1>10, <1>12, <2>1
  <2>3. ASSUME x \in DOMAIN adapter.ranges
        PROVE  after \in adapter.ranges[x] <=> before \in adapter.ranges[x]
    <3>1. x \in Enums /\ adapter.ranges[x] = device.status_range[x].range
      BY <1>4, <2>3
    <3>2. Opposite(x, before) \in device.status_range[x].range
            <=> before \in device.status_range[x].range
      <4>1. Fits(x, v)
        BY <2>1 DEF Telling
      <4> HIDE DEF x, v
      <4>2. QED
        BY <1>3, <1>7, <1>8, <1>12, <3>1, <4>1, RangeTurns
    <3>3. QED
      BY <2>2, <3>1, <3>2
  <2> HIDE DEF x, before, after
  <2>4. CASE x \in DOMAIN adapter.ranges /\ before \notin adapter.ranges[x]
    BY <1>9, <2>3, <2>4
  <2>5. CASE ~(x \in DOMAIN adapter.ranges /\ before \notin adapter.ranges[x])
    <3>1. Read(Uninverted', id, raw) = {[code |-> x, value |-> before]}
          /\ Read(adapter', id, raw) = {[code |-> x, value |-> after]}
      BY <1>9, <2>3, <2>5
    <3>2. [code |-> x, value |-> before].value = before
      OBVIOUS
    <3> DEFINE r0 == [code |-> x, value |-> before]
    <3> HIDE DEF r0
    <3>3. {[code |-> x, value |-> Opposite(x, r.value)] : r \in {r0}}
            = {[code |-> x, value |-> Opposite(x, r0.value)]}
      OBVIOUS
    <3>4. QED
      BY <2>2, <3>1, <3>2, <3>3 DEF r0
  <2>6. QED
    BY <2>4, <2>5
<1>13. QED
  BY <1>11, <1>12

LEMMA AdaptedStep == TypeOK /\ Adapted /\ [Next]_vars => Adapted'
<1> SUFFICES ASSUME TypeOK, Adapted, [Next]_vars PROVE Adapted'
  OBVIOUS
<1>1. CASE Quirk \/ MapDps \/ Rename \/ RenameFails \/ Define \/ Remap \/ RemoveDps
  <2>1. stage' \notin {"cover", "ready"} /\ (remap' = remap \/ remap' \in Remaps)
    BY <1>1 DEF Quirk, MapDps, Rename, RenameFails, Define, Remap, RemoveDps, Patching, fitted
  <2>2. QED
    BY <2>1 DEF Adapted
<1>2. CASE Adapt
  <2>1. /\ stage' = "cover" /\ device' = device /\ remap' = remap
    BY <1>2 DEF Adapt, fitted
  <2>2. /\ adapter'.ranges = [c \in Enums |-> device.status_range[c].range]
        /\ \A x : RemapOf(adapter', x) = RemapOf(Uninverted', x)
        /\ \A x : LET r == RemapOf(adapter', x)
                  IN  Remapped(r) /\ r.invert \in BOOLEAN /\ (r.invert => r.bounds = BoundsOf(x))
    <3>1. /\ adapter'.ranges = [c \in Enums |-> device.status_range[c].range]
          /\ adapter'.remaps = [c \in DOMAIN remap |->
               [alias |-> remap[c].alias, invert |-> remap[c].invert, bounds |-> BoundsOf(c)]]
          /\ Fitting(adapter')
      BY <1>2 DEF Adapt, Enums, Fitting
    <3>2. \A x \in DOMAIN remap : remap[x].invert \in BOOLEAN
      BY TablesAssumption DEF Adapted
    <3>3. \A x : BoundsOf(x)' = BoundsOf(x)
      BY <2>1, SameSchema
    <3>4. ASSUME NEW x
          PROVE  /\ RemapOf(adapter', x) = RemapOf(Uninverted', x)
                 /\ LET r == RemapOf(adapter', x)
                    IN  Remapped(r) /\ r.invert \in BOOLEAN /\ (r.invert => r.bounds = BoundsOf(x))
      <4>1. Uninverted'.remaps = [c \in DOMAIN remap |->
              [alias |-> remap[c].alias, invert |-> remap[c].invert, bounds |-> BoundsOf(c)']]
        BY <2>1, <3>1 DEF Uninverted, Fitting
      <4>2. CASE x \in DOMAIN remap
        <5>1. RemapOf(adapter', x)
                = [alias |-> remap[x].alias, invert |-> remap[x].invert, bounds |-> BoundsOf(x)]
          BY <3>1, <4>2 DEF RemapOf
        <5>2. RemapOf(Uninverted', x)
                = [alias |-> remap[x].alias, invert |-> remap[x].invert, bounds |-> BoundsOf(x)]
          BY <3>3, <4>1, <4>2 DEF RemapOf
        <5>3. QED
          BY <3>2, <4>2, <5>1, <5>2 DEF Remapped
      <4>3. CASE x \notin DOMAIN remap
        <5>1. RemapOf(adapter', x) = NoRemap /\ RemapOf(Uninverted', x) = NoRemap
          BY <3>1, <4>1, <4>3 DEF RemapOf
        <5>2. QED
          BY <5>1 DEF NoRemap, Remapped
      <4>4. QED
        BY <4>2, <4>3
    <3>5. QED
      BY <3>1, <3>4
  <2>3. \A x : BoundsOf(x)' = BoundsOf(x)
    BY <2>1, SameSchema
  <2>4. Regular(adapter)' /\ Mirrors(adapter)'
    BY <2>2, <2>3 DEF Regular, Mirrors
  <2>5. (adapter.ranges = [c \in Enums |-> device.status_range[c].range])'
    BY <2>1, <2>2 DEF Enums
  <2>6. QED
    BY <2>1, <2>2, <2>4, <2>5 DEF Adapted
<1>3. CASE FitCover
  <2>1. PICK s \in CoverSettings : adapter' = Inverted(adapter, Selected(CoverOf(device), s), s)
    BY <1>3 DEF FitCover
  <2>2. /\ stage = "cover" /\ stage' = "ready" /\ device' = device /\ remap' = remap
        /\ Control \in DOMAIN device.function \cup DOMAIN device.status_range
    BY <1>3 DEF FitCover, CoverOf
  <2>3. /\ Regular(adapter) /\ adapter.ranges = [c \in Enums |-> device.status_range[c].range]
        /\ Fitting(adapter)
    BY <2>2 DEF Adapted, TypeOK
  <2>4. ASSUME NEW x
        PROVE  LET r == RemapOf(adapter', x)
               IN  r.invert \in BOOLEAN /\ (r.invert => r.bounds = BoundsOf(x))
    <3> DEFINE b == Inverted(adapter, Selected(CoverOf(device), s), s)
               old == RemapOf(adapter, x)
               new == RemapOf(b, x)
    <3>1. Remapped(old) /\ old.invert \in BOOLEAN /\ (old.invert => old.bounds = BoundsOf(x))
      BY <2>3 DEF Regular
    <3>2. \/ new.invert = old.invert /\ new.bounds = old.bounds
          \/ new = [alias |-> old.alias, invert |-> ~old.invert, bounds |-> BoundsOf(x)]
          \/ new = old
      BY <2>2, <2>3, InvertedRemap DEF Regular, Exchanged
    <3> DEFINE r == RemapOf(adapter', x)
    <3>3. r = new
      BY <2>1
    <3> HIDE DEF old, new, b, r
    <3>4. new.invert \in BOOLEAN /\ (new.invert => new.bounds = BoundsOf(x))
      <4>1. CASE new.invert = old.invert /\ new.bounds = old.bounds
        BY <3>1, <4>1
      <4>2. CASE new = [alias |-> old.alias, invert |-> ~old.invert, bounds |-> BoundsOf(x)]
        BY <4>2
      <4>3. CASE new = old
        BY <3>1, <4>3
      <4>4. QED
        BY <3>2, <4>1, <4>2, <4>3
    <3>5. r.invert \in BOOLEAN /\ (r.invert => r.bounds = BoundsOf(x))
      BY <3>3, <3>4
    <3>6. QED
      BY <3>5 DEF r
  <2>5. \A x : BoundsOf(x)' = BoundsOf(x)
    BY <2>2, SameSchema
  <2>6. Mirrors(adapter)'
    BY <2>4, <2>5 DEF Mirrors
  <2>7. adapter'.ranges = adapter.ranges
    BY <2>1, <2>3, InvertedIs
  <2>8. QED
    BY <2>2, <2>3, <2>6, <2>7 DEF Adapted, Enums
<1>4. CASE NoCover
  BY <1>4 DEF NoCover, fitted, Adapted, Mirrors, BoundsOf, Table, Enums
<1>5. CASE UNCHANGED vars
  BY <1>5 DEF vars, fitted, Adapted, Regular, Mirrors, Uninverted, BoundsOf, Table, Enums
<1>6. QED
  BY <1>1, <1>2, <1>3, <1>4, <1>5 DEF Next

(* For any tables, remaps and settings of a cover: what is read of an      *)
(* inverted DP is the opposite of what is read otherwise, and what is read *)
(* of the other DPs stays (adapter.rs swap_control_words and invert,       *)
(* driver.rs invert_cover).                                                *)
THEOREM InversionsCompose == Spec => []InversionComposes
<1>1. Init => Adapted /\ Unfitted /\ InversionsHold
  BY DEF Init, Adapted, Unfitted, InversionsHold
<1>2. TypeOK /\ Adapted /\ Unfitted /\ InversionsHold /\ [Next]_vars => Unfitted' /\ InversionsHold'
  <2> SUFFICES ASSUME TypeOK, Adapted, Unfitted, InversionsHold, [Next]_vars
               PROVE  Unfitted' /\ InversionsHold'
    OBVIOUS
  <2>1. CASE Quirk \/ MapDps \/ Rename \/ RenameFails \/ Define \/ Remap \/ RemoveDps
    <3>1. stage' # "ready" /\ stage # "ready" /\ cover' = cover
      BY <2>1 DEF Quirk, MapDps, Rename, RenameFails, Define, Remap, RemoveDps, Patching, fitted
    <3>2. QED
      BY <3>1 DEF Unfitted, InversionsHold
  <2>2. CASE Adapt
    <3>1. stage' = "cover" /\ stage = "adapter" /\ cover' = cover
      BY <2>2 DEF Adapt, fitted
    <3>2. QED
      BY <3>1 DEF Unfitted, InversionsHold
  <2>3. CASE FitCover
    BY <2>3, FittedReads DEF FitCover, Unfitted
  <2>4. CASE NoCover
    BY <2>4 DEF NoCover, fitted, Unfitted, InversionsHold
  <2>5. CASE UNCHANGED vars
    <3>1. Unfitted'
      BY <2>5 DEF vars, fitted, Unfitted
    <3>2. InversionsHold'
      <4>1. Uninverted' = Uninverted
        BY <2>5 DEF vars, Uninverted, BoundsOf, Table
      <4>2. UNCHANGED <<stage, device, adapter, settings, cover>>
        BY <2>5 DEF vars, fitted
      <4>3. QED
        BY <4>1, <4>2, SameSchema DEF InversionsHold, Composes
    <3>3. QED
      BY <3>1, <3>2
  <2>6. QED
    BY <2>1, <2>2, <2>3, <2>4, <2>5 DEF Next
<1>3. InversionsHold => InversionComposes
  BY SamplesProper DEF InversionsHold, InversionComposes
<1>4. QED
  BY <1>1, <1>2, <1>3, TablesTypes, AdaptedStep, PTL DEF Spec

-----------------------------------------------------------------------------
(* What a switch and a number read back as.                                *)

(* A multiple of ten tenths is a whole number, and rounds to itself.       *)
LEMMA RoundedIs ==
  ASSUME NEW n \in Int
  PROVE  Rounded(10 * n) = n
BY DEF Rounded

LEMMA WholeSteps ==
  ASSUME NEW m \in Int, NEW n \in Int, NEW step \in Nat \ {0}, (n - 10 * m) % (10 * step) = 0
  PROVE  \E k \in Int : n = 10 * k
<1> DEFINE q == (n - 10 * m) \div (10 * step)
<1>1. q \in Int /\ n - 10 * m = (10 * step) * q
  OBVIOUS
<1> HIDE DEF q
<1>2. n = 10 * (m + step * q) /\ m + step * q \in Int
  BY <1>1
<1>3. QED
  BY <1>2

\* A schema entry of a switch, or of a number that takes whole steps.
Measured(spec) ==
  \/ spec.kind = "Boolean"
  \/ /\ spec.kind = "Integer" /\ spec.min \in Int /\ spec.max \in Int /\ spec.step \in Nat
     /\ spec.scale = 10 \/ (spec.scale = 1 /\ spec.step # 0)

(* The role sends what the check lets through, and shows what it sent as   *)
(* what was accepted.                                                      *)
LEMMA RoleBack ==
  ASSUME NEW spec, Measured(spec), NEW v, Proper(v),
         NEW a \in Accepted(Definition(spec, Natural(spec)), v)
  PROVE  LET def == Definition(spec, Natural(spec))
         IN  /\ RoleWrite(spec, a) # {}
             /\ \A x \in RoleWrite(spec, a) :
                  /\ Proper(x) /\ x.type \in {"boolean", "number"}
                  /\ x.type = "number" => spec.kind = "Integer"
                  /\ IlValue(def, DpRead(spec, def, x)) = a
<1> DEFINE def == Definition(spec, Natural(spec))
<1>1. CASE spec.kind = "Boolean"
  <2>1. def.type = "binary"
    BY <1>1 DEF Definition, Natural
  <2>2. PICK t \in BOOLEAN : a = Bool(t)
    <3>1. (a = v /\ v.type = "boolean") \/ a \in {Bool(TRUE), Bool(FALSE)}
      BY <2>1 DEF Accepted
    <3>2. QED
      BY <3>1, ProperIs
  <2>3. RoleWrite(spec, a) = {a} /\ DpRead(spec, def, a) = a /\ IlValue(def, a) = a
    BY <1>1, <2>1, <2>2 DEF RoleWrite, DpRead, RoleRead, IlValue, Bool
  <2>4. Proper(a) /\ a.type = "boolean"
    BY <2>2 DEF Proper, Bool
  <2>5. QED
    BY <2>3, <2>4
<1>2. CASE spec.kind = "Integer"
  <2>1. /\ def.type = "number" /\ def.min = Tenths(spec, spec.min)
        /\ def.max = Tenths(spec, spec.max) /\ def.step = Tenths(spec, spec.step)
    BY <1>2 DEF Definition, Natural
  <2> DEFINE n == v.num
  <2>2. /\ a = v /\ v.type = "number" /\ n \in def.min .. def.max
        /\ def.step = 0 \/ (n - def.min) % def.step = 0
    BY <2>1 DEF Accepted
  <2>3. a = Number(n) /\ n \in Int /\ Number(n).type = "number" /\ Number(n).num = n
    BY <2>2, ProperIs DEF Number
  <2>4. spec.min \in Int /\ spec.max \in Int /\ spec.step \in Nat
    BY <1>2 DEF Measured
  <2>5. PICK x \in Int : /\ x \in spec.min .. spec.max
                         /\ Rounded(n * spec.scale) = x /\ Tenths(spec, x) = n
    <3>1. CASE spec.scale = 10
      <4>1. \A k \in Int : Tenths(spec, k) = k
        BY <3>1 DEF Tenths
      <4>2. n \in spec.min .. spec.max
        BY <2>1, <2>2, <2>4, <4>1
      <4>3. Rounded(n * 10) = n
        BY <2>3, RoundedIs
      <4>4. QED
        BY <2>3, <3>1, <4>1, <4>2, <4>3
    <3>2. CASE spec.scale = 1 /\ spec.step # 0
      <4>1. \A k \in Int : Tenths(spec, k) = 10 * k
        BY <3>2 DEF Tenths
      <4>2. /\ def.min = 10 * spec.min /\ def.max = 10 * spec.max /\ def.step = 10 * spec.step
        BY <2>1, <2>4, <4>1
      <4>3. (n - 10 * spec.min) % (10 * spec.step) = 0
        BY <2>2, <2>4, <3>2, <4>2
      <4>4. PICK k \in Int : n = 10 * k
        BY <2>3, <2>4, <3>2, <4>3, WholeSteps
      <4>5. k \in spec.min .. spec.max
        BY <2>2, <2>4, <4>2, <4>4
      <4>6. Rounded(n * 1) = k
        BY <2>3, <4>4, RoundedIs
      <4>7. QED
        BY <3>2, <4>1, <4>4, <4>5, <4>6
    <3>3. QED
      BY <1>2, <3>1, <3>2 DEF Measured
  <2>6. RoleWrite(spec, a) = {Number(x)}
    <3>1. 1 * n * spec.scale = n * spec.scale
      BY <2>3
    <3>2. QED
      BY <1>2, <2>3, <2>5, <3>1 DEF RoleWrite
  <2>7. DpRead(spec, def, Number(x)) = Number(n)
    BY <1>2, <2>1, <2>5 DEF DpRead, RoleRead, Number
  <2>8. IlValue(def, Number(n)) = Number(n)
    BY <2>1 DEF IlValue
  <2>9. Proper(Number(x)) /\ Number(x).type = "number"
    BY DEF Proper, Number
  <2>10. QED
    BY <1>2, <2>3, <2>6, <2>7, <2>8, <2>9
<1>3. QED
  BY <1>1, <1>2 DEF Measured

(* A mirror shows a value what it showed for it.                           *)
LEMMA FlipBack ==
  ASSUME NEW a, NEW c, RemapOf(a, c).invert \in BOOLEAN, NEW v, Proper(v),
         v.type \in {"boolean", "number"},
         v.type = "number" /\ RemapOf(a, c).invert =>
           RemapOf(a, c).bounds[1] \in Int /\ RemapOf(a, c).bounds[2] \in Int
  PROVE  LET w == Flip(a, c, v)
         IN  Proper(w) /\ w.type = v.type /\ Flip(a, c, w) = v
<1> DEFINE r == RemapOf(a, c)
<1>1. CASE ~r.invert
  BY <1>1 DEF Flip
<1>2. CASE r.invert /\ v.type = "boolean"
  <2>1. v = Bool(Truth(v)) /\ Truth(v) \in BOOLEAN
    BY <1>2, ProperIs
  <2>2. \A t \in BOOLEAN : /\ Flip(a, c, Bool(t)) = Bool(~t) /\ Proper(Bool(t))
                           /\ Bool(t).type = "boolean"
    BY <1>2 DEF Flip, Bool, Truth, Proper
  <2>3. QED
    BY <1>2, <2>1, <2>2
<1>3. CASE r.invert /\ v.type = "number"
  <2> DEFINE m == r.bounds[1]
             n == r.bounds[2]
  <2>1. v = Number(v.num) /\ v.num \in Int /\ m \in Int /\ n \in Int
    BY <1>3, ProperIs
  <2>2. \A k \in Int : /\ Flip(a, c, Number(k)) = IF r.bounds # <<>> THEN Number(m + n - k) ELSE Number(k)
                       /\ Proper(Number(k)) /\ Number(k).type = "number"
    BY <1>3 DEF Flip, Number, Proper
  <2> HIDE DEF m, n
  <2>3. m + n - v.num \in Int /\ m + n - (m + n - v.num) = v.num
    BY <2>1
  <2>4. QED
    BY <1>3, <2>1, <2>2, <2>3
<1>4. QED
  BY <1>1, <1>2, <1>3

(* A value that is no word passes alias and conversion as it is, and the   *)
(* report of what is written is read as what was to be written.            *)
LEMMA ReadOfWritten ==
  ASSUME NEW a, NEW c, c \notin DOMAIN a.ranges, RemapOf(a, c).invert \in BOOLEAN,
         \A e \in Range(a.entries) : e.code = c => e.convert # "enum",
         NEW x, Proper(x), x.type \in {"boolean", "number"},
         x.type = "number" /\ RemapOf(a, c).invert =>
           RemapOf(a, c).bounds[1] \in Int /\ RemapOf(a, c).bounds[2] \in Int,
         NEW w \in Write(a, c, x)
  PROVE  Read(a, w.id, w.raw) = {[code |-> c, value |-> x]}
<1> DEFINE raw == Flip(a, c, x)
<1>1. Proper(raw) /\ raw.type \in {"boolean", "number"} /\ Flip(a, c, raw) = x
  BY FlipBack
<1>2. PICK i \in DOMAIN a.entries :
        /\ a.entries[i].code = c
        /\ w = [id |-> i, raw |-> StrategyWrite(a.entries[i], Unaliased(a, c, raw))]
  BY DEF Write
<1>3. a.entries[i].convert # "enum"
  BY <1>2 DEF Range
<1> HIDE DEF raw
<1>4. Unaliased(a, c, raw) = raw
  BY <1>1 DEF Unaliased, Word
<1>5. StrategyWrite(a.entries[i], raw) = raw
  BY <1>3 DEF StrategyWrite
<1>6. StrategyRead(a.entries[i], raw) = raw
  <2>1. Null.type = "null" /\ Word("").type = "string"
    BY DEF Null, Word
  <2>2. raw \notin {Null, Word("")}
    BY <1>1, <2>1
  <2>3. QED
    BY <1>3, <2>2 DEF StrategyRead
<1>7. Way(a, c, raw) = x
  BY <1>1 DEF Way, Aliased
<1>8. w.id = i /\ w.raw = raw
  BY <1>2, <1>4, <1>5
<1>9. QED
  BY <1>2, <1>6, <1>7, <1>8, ReadIs

-----------------------------------------------------------------------------
(* What a word reads back as.                                              *)

(* The words a write may send of those offered, with an alias.             *)
Sendable(alias, offered) == DOMAIN alias \cup ({w.word : w \in offered} \ Range(alias))

(* What is offered is what an alias makes of words: a word that has an     *)
(* alias is one only if it is an alias itself.                             *)
Known(alias, range) ==
  \A w \in range : w = Word(w.word) /\ (w.word \in DOMAIN alias => w.word \in Range(alias))

(* What is sent for a word is told as that word: a word that has it for    *)
(* alias, or the word itself if there is none and it stands for no other.  *)
Speaks(alias, range, said) ==
  \A w \in range :
    LET devs == {u \in DOMAIN alias : alias[u] = w.word}
    IN  devs \subseteq said /\ (devs = {} => w.word \notin DOMAIN alias /\ w.word \in said)

(* The remap's own aliases tell what is sent.                              *)
LEMMA RemapSpeaks ==
  ASSUME NEW alias, NEW offered, NEW range, range \subseteq offered, Known(alias, range)
  PROVE  Speaks(alias, range, Sendable(alias, offered))
<1> SUFFICES ASSUME NEW w \in range, \A u \in DOMAIN alias : alias[u] # w.word
             PROVE  w.word \notin DOMAIN alias /\ w.word \in Sendable(alias, offered)
  BY DEF Speaks, Sendable
<1>1. w.word \notin Range(alias)
  BY DEF Range
<1>2. QED
  BY <1>1 DEF Known, Sendable

(* The swap of an inverted control sends no other words and keeps that.    *)
LEMMA SwapSpeaks ==
  ASSUME NEW alias, NEW offered, NEW range, range \subseteq offered, Known(alias, range),
         NEW both \in BOOLEAN,
         both => /\ {Word("open"), Word("close")} \subseteq offered
                 /\ Known(alias, {Word("open"), Word("close")})
  PROVE  Speaks(SwapAlias(alias, both), range, Sendable(alias, offered))
<1> DEFINE swaps == IF both THEN {"open", "close"} ELSE {}
           devs == DOMAIN alias \cup (swaps \ Range(alias))
           new == [w \in devs |-> LET std == IF w \in DOMAIN alias THEN alias[w] ELSE w
                                  IN  IF std \in swaps THEN Swap(std) ELSE std]
           after == SwapAlias(alias, both)
           said == Sendable(alias, offered)
<1>1. \A u \in swaps : u \in {w.word : w \in offered} /\ (u \in DOMAIN alias => u \in Range(alias))
  <2>1. Word("open").word = "open" /\ Word("close").word = "close"
    BY DEF Word
  <2>2. QED
    BY <2>1 DEF Known
<1>2. devs \subseteq said
  BY <1>1 DEF Sendable
<1>3. /\ DOMAIN after = {u \in devs : new[u] # u}
      /\ \A u \in DOMAIN after : after[u] = new[u]
  BY DEF SwapAlias
<1>4. /\ \A u \in DOMAIN alias : u \in devs
           /\ new[u] = IF alias[u] \in swaps THEN Swap(alias[u]) ELSE alias[u]
      /\ \A u \in devs \ DOMAIN alias : u \in swaps /\ u \notin Range(alias) /\ new[u] = Swap(u)
      /\ \A u \in swaps \ Range(alias) : u \in devs
  OBVIOUS
<1>5. \A u \in swaps : Swap(u) \in swaps /\ Swap(u) # u /\ Swap(Swap(u)) = u
  BY DEF Swap
<1> HIDE DEF swaps, devs, new, after
<1>6. SUFFICES ASSUME NEW w \in range, \A u \in DOMAIN after : after[u] # w.word
               PROVE  w.word \notin DOMAIN after /\ w.word \in said
  <2>1. DOMAIN after \subseteq said
    BY <1>2, <1>3
  <2> HIDE DEF said
  <2>2. Speaks(after, range, said)
    BY <1>6, <2>1 DEF Speaks
  <2>3. QED
    BY <2>2 DEF after, said
<1> DEFINE x == w.word
<1>7. /\ x \in {v.word : v \in offered}
      /\ x \in DOMAIN alias => x \in Range(alias)
      /\ x \notin Range(alias) => x \in said
      /\ x \in DOMAIN alias => x \in said
  BY DEF Known, Sendable
<1>8. \A u \in devs : new[u] = x => u = x
  BY <1>3, <1>6
<1>9. ASSUME NEW u \in DOMAIN alias, new[u] = x
      PROVE  x \notin DOMAIN after /\ x \in said
  BY <1>3, <1>4, <1>7, <1>8, <1>9
<1> HIDE DEF x, said
<1>10. CASE x \notin swaps
  <2>1. CASE x \in Range(alias)
    <3>1. PICK u \in DOMAIN alias : alias[u] = x
      BY <2>1 DEF Range
    <3>2. QED
      BY <1>4, <1>9, <1>10, <3>1 DEF x
  <2>2. CASE x \notin Range(alias)
    BY <1>3, <1>4, <1>7, <1>10, <2>2 DEF x
  <2>3. QED
    BY <2>1, <2>2
<1>11. CASE x \in swaps
  <2> DEFINE y == Swap(x)
  <2>1. y \in swaps /\ y # x /\ Swap(y) = x
    BY <1>5, <1>11
  <2> HIDE DEF y
  <2>2. CASE y \in Range(alias)
    <3>1. PICK u \in DOMAIN alias : alias[u] = y
      BY <2>2 DEF Range
    <3>2. new[u] = x
      BY <1>4, <2>1, <3>1
    <3>3. QED
      BY <1>9, <3>2 DEF x
  <2>3. CASE y \notin Range(alias)
    <3>1. y \in devs /\ y \notin DOMAIN alias
      BY <1>1, <1>4, <2>1, <2>3
    <3>2. QED
      BY <1>4, <1>8, <2>1, <3>1
  <2>4. QED
    BY <2>2, <2>3
<1>12. QED
  BY <1>10, <1>11 DEF x

(* A word goes by the alias alone.                                         *)
LEMMA WordWay ==
  ASSUME NEW a, NEW c, NEW u
  PROVE  Way(a, c, Word(u)) = Word(Said(RemapOf(a, c).alias, u))
<1>1. \A x : Word(x).type = "string" /\ Word(x).word = x
  BY DEF Word
<1>2. Aliased(a, c, Word(u)) = Word(Said(RemapOf(a, c).alias, u))
  BY <1>1 DEF Aliased, Said
<1>3. \A x : Flip(a, c, Word(x)) = Word(x)
  BY <1>1 DEF Flip
<1>4. QED
  BY <1>2, <1>3 DEF Way

(* A word that is sent so is shown as that word: the conversion's raw      *)
(* words, chosen or not, mean what was looked up.                          *)
LEMMA WordRead ==
  ASSUME NEW a, NEW c, NEW range, NEW v \in range, v = Word(v.word), NEW said,
         Speaks(RemapOf(a, c).alias, range, said),
         c \in DOMAIN a.ranges => v \in a.ranges[c],
         \A e \in Range(a.entries) : e.code = c =>
           IF e.convert = "enum" THEN said \subseteq Range(e.config) ELSE "" \notin said,
         NEW w \in Write(a, c, v)
  PROVE  Read(a, w.id, w.raw) = {[code |-> c, value |-> v]}
<1> DEFINE alias == RemapOf(a, c).alias
<1>1. \A u : /\ Word(u).type = "string" /\ Word(u).word = u /\ Proper(Word(u))
             /\ Word(u) # Null /\ KeyOf(Word(u)) = u
  BY DEF Word, Proper, Null, KeyOf
<1>2. Flip(a, c, v) = v
  BY <1>1 DEF Flip
<1>3. PICK i \in DOMAIN a.entries :
        /\ a.entries[i].code = c
        /\ w = [id |-> i, raw |-> StrategyWrite(a.entries[i], Unaliased(a, c, v))]
  BY <1>2 DEF Write
<1> DEFINE e == a.entries[i]
<1>4. PICK u \in said : Unaliased(a, c, v) = Word(u) /\ Said(alias, u) = v.word
  <2> DEFINE devs == {x \in DOMAIN alias : Word(alias[x]) = v}
             speakers == {x \in DOMAIN alias : alias[x] = v.word}
  <2>1. devs = speakers
    BY <1>1
  <2>2. Unaliased(a, c, v) = IF devs = {} THEN v ELSE Word(CHOOSE x \in devs : TRUE)
    BY DEF Unaliased
  <2>3. speakers \subseteq said /\ (speakers = {} => v.word \notin DOMAIN alias /\ v.word \in said)
    BY DEF Speaks
  <2>4. CASE devs = {}
    <3>1. Unaliased(a, c, v) = Word(v.word) /\ v.word \in said /\ v.word \notin DOMAIN alias
      BY <2>1, <2>2, <2>3, <2>4
    <3>2. QED
      BY <3>1 DEF Said
  <2>5. CASE devs # {}
    <3>1. (CHOOSE x \in devs : TRUE) \in devs
      BY <2>5
    <3> DEFINE x == CHOOSE x \in devs : TRUE
    <3>2. x \in said /\ x \in DOMAIN alias /\ alias[x] = v.word
      BY <2>1, <2>3, <3>1
    <3> HIDE DEF devs, x
    <3>3. Unaliased(a, c, v) = Word(x)
      BY <2>2, <2>5 DEF x
    <3>4. QED
      BY <3>2, <3>3 DEF Said
  <2>6. QED
    BY <2>4, <2>5
<1> HIDE DEF alias
<1>5. e \in Range(a.entries) /\ e.code = c
  BY <1>3 DEF Range
<1>6. StrategyRead(e, StrategyWrite(e, Word(u))) = Word(u)
  <2>1. CASE e.convert = "enum"
    <3> DEFINE keys == {k \in DOMAIN e.config : Word(e.config[k]) = Word(u)}
               named == IF keys \cap Digits = {} THEN keys ELSE keys \cap Digits
    <3>1. u \in Range(e.config)
      BY <1>5, <2>1
    <3>2. keys # {}
      BY <3>1 DEF Range
    <3>3. named # {} /\ named \subseteq keys
      BY <3>2
    <3> DEFINE k == CHOOSE x \in named : TRUE
    <3>4. k \in named
      BY <3>3
    <3>5. StrategyWrite(e, Word(u)) = Word(k)
      BY <2>1, <3>2 DEF StrategyWrite
    <3>6. k \in DOMAIN e.config /\ Word(e.config[k]) = Word(u)
      BY <3>3, <3>4
    <3> HIDE DEF k, named, keys
    <3>7. QED
      BY <1>1, <2>1, <3>5, <3>6 DEF StrategyRead
  <2>2. CASE e.convert # "enum"
    <3>1. StrategyWrite(e, Word(u)) = Word(u)
      BY <2>2 DEF StrategyWrite
    <3>2. u # ""
      BY <1>5, <2>2
    <3>3. Word(u) \notin {Null, Word("")}
      BY <1>1, <3>2
    <3>4. QED
      BY <2>2, <3>1, <3>3 DEF StrategyRead
  <2>3. QED
    BY <2>1, <2>2
<1>7. Way(a, c, Word(u)) = v
  <2>1. Way(a, c, Word(u)) = Word(Said(RemapOf(a, c).alias, u))
    BY WordWay
  <2>2. QED
    BY <1>4, <2>1 DEF alias
<1>8. w.id = i /\ w.raw = StrategyWrite(e, Word(u))
  BY <1>3, <1>4
<1>9. StrategyRead(a.entries[i], w.raw) = Word(u)
  BY <1>6, <1>8
<1>10. Way(a, a.entries[i].code, StrategyRead(a.entries[i], w.raw)) = v
  BY <1>3, <1>7, <1>9
<1>11. Read(a, i, w.raw) = IF c \in DOMAIN a.ranges /\ v \notin a.ranges[c]
                          THEN {} ELSE {[code |-> c, value |-> v]}
  <2> HIDE DEF e
  <2>1. QED
    BY <1>3, <1>10, ReadIs
<1>12. QED
  BY <1>8, <1>11

(* What the remap made of the words of the tables.                         *)
AliasOf(c) == RemapOf([remaps |-> remap], c).alias
Offered(c) ==
  UNION {t[c].range : t \in {u \in {device.function, device.status_range} : Of(u, c, "Enum")}}
Translations ==
  stage \in {"remove", "adapter", "cover", "ready"} =>
    \A t \in {device.function, device.status_range} : \A c \in DOMAIN t :
      t[c].kind = "Enum" => Known(AliasOf(c), t[c].range)

(* A remap leaves words that are aliases, or have none.                    *)
LEMMA TranslatedKnown ==
  ASSUME NEW t, Described(t), NEW r, NEW c \in DOMAIN Translated(t, r),
         Translated(t, r)[c].kind = "Enum"
  PROVE  Known(RemapOf([remaps |-> r], c).alias, Translated(t, r)[c].range)
<1>1. c \in DOMAIN t
  BY DEF Translated
<1>2. Schema(t[c])
  BY <1>1 DEF Described
<1>3. \A x : Word(x).word = x
  BY DEF Word
<1>4. CASE c \in DOMAIN r
  <2> DEFINE alias == r[c].alias
             words == {Spoken(alias, w) : w \in t[c].range}
  <2>1. RemapOf([remaps |-> r], c).alias = alias
    BY <1>4 DEF RemapOf
  <2>2. t[c].kind = "Enum" /\ Translated(t, r)[c] = [t[c] EXCEPT !.range = words]
    <3>1. Translated(t, r)[c] = IF t[c].kind = "Enum" THEN [t[c] EXCEPT !.range = words] ELSE t[c]
      BY <1>1, <1>4 DEF Translated
    <3> HIDE DEF words
    <3>2. QED
      BY <3>1
  <2>3. Known(alias, words)
    <3>1. ASSUME NEW w \in t[c].range
          PROVE  LET s == Spoken(alias, w)
                 IN  s = Word(s.word) /\ (s.word \in DOMAIN alias => s.word \in Range(alias))
      <4>1. w = Word(w.word)
        BY <1>2 DEF Schema
      <4>2. CASE w.word \in DOMAIN alias
        <5>1. Spoken(alias, w) = Word(alias[w.word])
          BY <4>2 DEF Spoken
        <5>2. QED
          BY <1>3, <4>2, <5>1 DEF Range
      <4>3. CASE w.word \notin DOMAIN alias
        BY <4>1, <4>3 DEF Spoken
      <4>4. QED
        BY <4>2, <4>3
    <3>2. QED
      BY <3>1 DEF Known
  <2> HIDE DEF alias, words
  <2>4. Translated(t, r)[c].range = words
    BY <1>2, <2>2 DEF Schema
  <2>5. QED
    BY <2>1, <2>3, <2>4
<1>5. CASE c \notin DOMAIN r
  <2>1. RemapOf([remaps |-> r], c).alias = <<>>
    BY <1>5 DEF RemapOf, NoRemap
  <2>2. Translated(t, r)[c] = t[c]
    BY <1>1, <1>5 DEF Translated
  <2>3. Known(<<>>, t[c].range)
    BY <1>2 DEF Known, Schema
  <2>4. QED
    BY <2>1, <2>2, <2>3
<1>6. QED
  BY <1>4, <1>5

LEMMA TranslationsStep == TypeOK /\ Translations /\ [Next]_vars => Translations'
<1> SUFFICES ASSUME TypeOK, Translations, [Next]_vars PROVE Translations'
  OBVIOUS
<1>1. CASE Quirk \/ MapDps \/ Rename \/ RenameFails \/ Define
  <2>1. stage' \notin {"remove", "adapter", "cover", "ready"}
    BY <1>1 DEF Quirk, MapDps, Rename, RenameFails, Define, Patching
  <2>2. QED
    BY <2>1 DEF Translations
<1>2. CASE Remap
  <2>1. PICK r \in Remaps :
          /\ remap' = r
          /\ device'.function = Translated(device.function, r)
          /\ device'.status_range = Translated(device.status_range, r)
    BY <1>2 DEF Remap
  <2>2. Described(device.function) /\ Described(device.status_range)
    BY DEF TypeOK
  <2>3. QED
    BY <2>1, <2>2, TranslatedKnown DEF Translations, AliasOf
<1>3. CASE RemoveDps
  <2>1. PICK R : device' = RemoveCodes(device, R)
    BY <1>3 DEF RemoveDps
  <2>2. /\ device'.function = Without(device.function, R)
        /\ device'.status_range = Without(device.status_range, R)
        /\ remap' = remap /\ stage = "remove"
    BY <1>3, <2>1 DEF RemoveDps, RemoveCodes
  <2>3. ASSUME NEW t \in {device.function, device.status_range},
               NEW c \in DOMAIN Without(t, R), Without(t, R)[c].kind = "Enum"
        PROVE  Known(AliasOf(c), Without(t, R)[c].range)
    <3>1. c \in DOMAIN t /\ Without(t, R)[c] = t[c]
      BY DEF Without, Restrict
    <3>2. QED
      BY <2>2, <2>3, <3>1 DEF Translations
  <2>4. \A c : AliasOf(c)' = AliasOf(c)
    BY <2>2 DEF AliasOf
  <2>5. QED
    BY <2>2, <2>3, <2>4 DEF Translations
<1>4. CASE Adapt \/ FitCover \/ NoCover \/ UNCHANGED vars
  <2>1. device' = device /\ remap' = remap
        /\ (stage' = stage \/ stage \in {"adapter", "cover"})
    BY <1>4 DEF Adapt, FitCover, NoCover, vars
  <2>2. \A c : AliasOf(c)' = AliasOf(c)
    BY <2>1 DEF AliasOf
  <2>3. QED
    BY <2>1, <2>2 DEF Translations
<1>5. QED
  BY <1>1, <1>2, <1>3, <1>4 DEF Next

(* What a table offers is offered, and known.                              *)
LEMMA TableKnown ==
  ASSUME Translations, stage \in {"cover", "ready"}, NEW c \in DOMAIN Table, Table[c].kind = "Enum"
  PROVE  /\ Table[c].range \subseteq Offered(c) /\ Known(AliasOf(c), Table[c].range)
         /\ DeviceWords(c) = Sendable(AliasOf(c), Offered(c))
<1>1. PICK t \in {device.function, device.status_range} : c \in DOMAIN t /\ Table[c] = t[c]
  BY DEF Table, Over
<1>2. Known(AliasOf(c), Table[c].range)
  BY <1>1 DEF Translations
<1>3. Table[c].range \subseteq Offered(c)
  BY <1>1 DEF Offered, Of
<1>4. DeviceWords(c) = Sendable(AliasOf(c), Offered(c))
  BY DEF DeviceWords, Sendable, AliasOf, Offered
<1>5. QED
  BY <1>2, <1>3, <1>4

(* The adapter that was made tells words, with its control swapped or not. *)
Speaking ==
  stage = "ready" =>
    \A c \in DOMAIN Table : Table[c].kind = "Enum" =>
      Speaks(RemapOf(adapter, c).alias, Table[c].range, DeviceWords(c))

LEMMA PlainSpeaks ==
  ASSUME Translations, stage \in {"cover", "ready"}, NEW c \in DOMAIN Table, Table[c].kind = "Enum"
  PROVE  Speaks(AliasOf(c), Table[c].range, DeviceWords(c))
<1>1. /\ Table[c].range \subseteq Offered(c) /\ Known(AliasOf(c), Table[c].range)
      /\ DeviceWords(c) = Sendable(AliasOf(c), Offered(c))
  BY TableKnown
<1>2. QED
  BY <1>1, RemapSpeaks

LEMMA SwappedSpeaks ==
  ASSUME Translations, stage \in {"cover", "ready"}, Has(Control, "Enum"), Control \in DOMAIN Table,
         Table[Control].kind = "Enum"
  PROVE  Speaks(SwapAlias(AliasOf(Control), BothWords(Taken(device, Control, "Enum").spec)),
                Table[Control].range, DeviceWords(Control))
<1> DEFINE spec == Taken(device, Control, "Enum").spec
           both == BothWords(spec)
           words == {Word("open"), Word("close")}
<1>1. PICK t \in {device.function, device.status_range} : Of(t, Control, "Enum") /\ spec = t[Control]
  BY DEF Has, Taken, Resolve, Role
<1>2. spec.range \subseteq Offered(Control)
  BY <1>1 DEF Offered
<1>3. Known(AliasOf(Control), spec.range)
  BY <1>1 DEF Translations, Of
<1>4. both \in BOOLEAN /\ (both => words \subseteq spec.range)
  BY DEF BothWords
<1> HIDE DEF spec, both
<1>5. both => words \subseteq Offered(Control) /\ Known(AliasOf(Control), words)
  BY <1>2, <1>3, <1>4 DEF Known
<1>6. /\ Table[Control].range \subseteq Offered(Control)
      /\ Known(AliasOf(Control), Table[Control].range)
      /\ DeviceWords(Control) = Sendable(AliasOf(Control), Offered(Control))
  BY TableKnown
<1>7. Speaks(SwapAlias(AliasOf(Control), both), Table[Control].range,
             Sendable(AliasOf(Control), Offered(Control)))
  BY <1>4, <1>5, <1>6, SwapSpeaks
<1>8. QED
  BY <1>6, <1>7 DEF both, spec

LEMMA SpeakingStep ==
  TypeOK /\ Adapted /\ Translations /\ Speaking /\ [Next]_vars => Speaking'
<1> SUFFICES ASSUME TypeOK, Adapted, Translations, Speaking, [Next]_vars PROVE Speaking'
  OBVIOUS
<1>1. CASE Quirk \/ MapDps \/ Rename \/ RenameFails \/ Define \/ Remap \/ RemoveDps \/ Adapt
  <2>1. stage' # "ready"
    BY <1>1 DEF Quirk, MapDps, Rename, RenameFails, Define, Remap, RemoveDps, Adapt, Patching
  <2>2. QED
    BY <2>1 DEF Speaking
<1>2. CASE FitCover \/ NoCover \/ UNCHANGED vars
  <2>1. device' = device /\ remap' = remap
    BY <1>2 DEF FitCover, NoCover, vars
  <2>2. Table' = Table /\ \A c : DeviceWords(c)' = DeviceWords(c)
    BY <2>1 DEF Table, DeviceWords
  <2>3. ASSUME stage' = "ready", NEW c \in DOMAIN Table, Table[c].kind = "Enum"
        PROVE  Speaks(RemapOf(adapter', c).alias, Table[c].range, DeviceWords(c))
    <3>1. CASE UNCHANGED vars
      BY <2>3, <3>1 DEF vars, Speaking
    <3>2. CASE FitCover \/ NoCover
      <4>1. stage = "cover"
        BY <3>2 DEF FitCover, NoCover
      <4>2. RemapOf(adapter, c).alias = AliasOf(c)
        <5>1. RemapOf(adapter, c) = RemapOf(Uninverted, c)
          BY <4>1 DEF Adapted
        <5>2. Uninverted.remaps = [x \in DOMAIN remap |->
                [alias |-> remap[x].alias, invert |-> remap[x].invert, bounds |-> BoundsOf(x)]]
          BY DEF TypeOK, Fitting, Uninverted
        <5>3. QED
          BY <5>1, <5>2 DEF RemapOf, AliasOf
      <4>3. Speaks(RemapOf(adapter, c).alias, Table[c].range, DeviceWords(c))
        BY <2>3, <4>1, <4>2, PlainSpeaks
      <4>4. CASE NoCover
        BY <4>3, <4>4 DEF NoCover
      <4>5. CASE FitCover
        <5>1. PICK s : adapter' = Inverted(adapter, Selected(CoverOf(device), s), s)
          BY <4>5 DEF FitCover
        <5>2. Control \in DOMAIN device.function \cup DOMAIN device.status_range
          BY <4>5 DEF FitCover, CoverOf
        <5>3. Fitting(adapter) /\ \A x : Remapped(RemapOf(adapter, x))
          BY <4>1 DEF TypeOK, Adapted, Regular
        <5>4. IF c = Control /\ SwapsWords(s)
              THEN RemapOf(adapter', c).alias
                     = SwapAlias(AliasOf(c), BothWords(Taken(device, Control, "Enum").spec))
              ELSE RemapOf(adapter', c).alias = RemapOf(adapter, c).alias
          <6> DEFINE b == Inverted(adapter, Selected(CoverOf(device), s), s)
          <6>1. IF c = Control /\ SwapsWords(s)
                THEN Exchanged(RemapOf(adapter, c), RemapOf(b, c),
                               BothWords(Taken(device, Control, "Enum").spec))
                ELSE RemapOf(b, c).alias = RemapOf(adapter, c).alias
            BY <5>2, <5>3, InvertedRemap
          <6> HIDE DEF b
          <6>2. RemapOf(adapter', c) = RemapOf(b, c)
            BY <5>1 DEF b
          <6>3. QED
            BY <4>2, <6>1, <6>2 DEF Exchanged
        <5>5. CASE c = Control /\ SwapsWords(s)
          BY <2>3, <4>1, <5>4, <5>5, SwappedSpeaks DEF SwapsWords
        <5>6. CASE ~(c = Control /\ SwapsWords(s))
          BY <4>3, <5>4, <5>6
        <5>7. QED
          BY <5>5, <5>6
      <4>6. QED
        BY <3>2, <4>4, <4>5
    <3>3. QED
      BY <1>2, <3>1, <3>2
  <2>4. QED
    BY <2>2, <2>3 DEF Speaking
<1>3. QED
  BY <1>1, <1>2 DEF Next

(* What is accepted for a Boolean DP, or an Integer DP that takes whole    *)
(* steps, is shown again, however often the DP is inverted.                *)
LEMMA NumberBack ==
  ASSUME Adapted, stage = "ready", NEW c \in DOMAIN Table, Measured(Table[c]),
         \A e \in Range(adapter.entries) : e.code = c => e.convert # "enum",
         NEW v, Proper(v)
  PROVE  ReadsBack(c, v)
<1> DEFINE spec == Table[c]
           def == Definition(spec, Natural(spec))
<1>1. /\ RemapOf(adapter, c).invert \in BOOLEAN
      /\ RemapOf(adapter, c).invert => RemapOf(adapter, c).bounds = BoundsOf(c)
      /\ DOMAIN adapter.ranges = Enums
  BY DEF Adapted, Mirrors
<1>2. spec.kind = "Integer" => BoundsOf(c)[1] \in Int /\ BoundsOf(c)[2] \in Int
  BY DEF BoundsOf, Measured
<1>3. c \notin DOMAIN adapter.ranges
  <2>1. c \in Enums => spec.kind = "Enum"
    BY DEF Enums, Table, Over
  <2>2. spec.kind # "Enum"
    BY DEF Measured
  <2>3. QED
    BY <1>1, <2>1, <2>2
<1>4. SUFFICES ASSUME NEW a \in Accepted(def, v)
               PROVE  /\ RoleWrite(spec, a) # {}
                      /\ \A x \in RoleWrite(spec, a) : \A w \in Write(adapter, c, x) :
                           \E r \in Read(adapter, w.id, w.raw) :
                             r.code = c /\ IlValue(def, DpRead(spec, def, r.value)) = a
  BY DEF ReadsBack
<1> HIDE DEF spec, def
<1>5. /\ RoleWrite(spec, a) # {}
      /\ \A x \in RoleWrite(spec, a) :
           /\ Proper(x) /\ x.type \in {"boolean", "number"}
           /\ x.type = "number" => spec.kind = "Integer"
           /\ IlValue(def, DpRead(spec, def, x)) = a
  BY <1>4, RoleBack DEF spec, def
<1>6. ASSUME NEW x \in RoleWrite(spec, a), NEW w \in Write(adapter, c, x)
      PROVE  Read(adapter, w.id, w.raw) = {[code |-> c, value |-> x]}
  BY <1>1, <1>2, <1>3, <1>5, ReadOfWritten
<1>7. ASSUME NEW x \in RoleWrite(spec, a), NEW w \in Write(adapter, c, x)
      PROVE  \E r \in Read(adapter, w.id, w.raw) :
               r.code = c /\ IlValue(def, DpRead(spec, def, r.value)) = a
  <2> DEFINE r == [code |-> c, value |-> x]
  <2>1. r \in Read(adapter, w.id, w.raw) /\ r.code = c /\ r.value = x
    BY <1>6, <1>7
  <2>2. IlValue(def, DpRead(spec, def, x)) = a
    BY <1>5, <1>7
  <2> HIDE DEF r
  <2>3. QED
    BY <2>1, <2>2
<1>8. QED
  BY <1>5, <1>7

(* What is accepted for an Enum is shown again, inverted or not.           *)
LEMMA WordBack ==
  ASSUME Adapted, Translations, Speaking, stage = "ready", NEW c \in DOMAIN Table,
         Table[c].kind = "Enum", Expressible(c), NEW v
  PROVE  ReadsBack(c, v)
<1> DEFINE spec == Table[c]
           def == Definition(spec, Natural(spec))
<1>1. spec.kind = "Enum" /\ def.type = "select" /\ def.options = spec.range
  BY DEF Definition, Natural
<1>2. SUFFICES ASSUME v \in spec.range
               PROVE  /\ RoleWrite(spec, v) # {}
                      /\ \A x \in RoleWrite(spec, v) : \A w \in Write(adapter, c, x) :
                           \E r \in Read(adapter, w.id, w.raw) :
                             r.code = c /\ IlValue(def, DpRead(spec, def, r.value)) = v
  <2>1. Accepted(def, v) = IF v \in spec.range THEN {v} ELSE {}
    BY <1>1 DEF Accepted
  <2>2. QED
    BY <1>1, <1>2, <2>1 DEF ReadsBack
<1>3. RoleWrite(spec, v) = {v} /\ IlValue(def, DpRead(spec, def, v)) = v
  BY <1>1, <1>2 DEF RoleWrite, DpRead, RoleRead, IlValue
<1>4. v = Word(v.word)
  BY <1>2, TableKnown DEF Known
<1>5. Speaks(RemapOf(adapter, c).alias, spec.range, DeviceWords(c))
  BY DEF Speaking
<1>6. c \in DOMAIN adapter.ranges => v \in adapter.ranges[c]
  <2>1. adapter.ranges = [x \in Enums |-> device.status_range[x].range]
    BY DEF Adapted
  <2>2. c \in Enums => device.status_range[c] = spec
    BY DEF Enums, Table, Over
  <2> HIDE DEF spec
  <2>3. QED
    BY <1>2, <2>1, <2>2
<1>7. \A e \in Range(adapter.entries) : e.code = c =>
        IF e.convert = "enum" THEN DeviceWords(c) \subseteq Range(e.config)
        ELSE "" \notin DeviceWords(c)
  BY DEF Expressible
<1> HIDE DEF spec, def
<1>8. ASSUME NEW w \in Write(adapter, c, v)
      PROVE  \E r \in Read(adapter, w.id, w.raw) :
               r.code = c /\ IlValue(def, DpRead(spec, def, r.value)) = v
  <2> DEFINE r == [code |-> c, value |-> v]
  <2>1. Read(adapter, w.id, w.raw) = {r}
    BY <1>2, <1>4, <1>5, <1>6, <1>7, WordRead
  <2>2. r.code = c /\ r.value = v
    OBVIOUS
  <2> HIDE DEF r
  <2>3. QED
    BY <1>3, <2>1, <2>2
<1>9. QED
  BY <1>3, <1>8

(* The same of every value a consumer may write, for every DP of the       *)
(* tables.                                                                 *)
ValuesReadBack ==
  stage = "ready" =>
    \A c \in DOMAIN Table : Expressible(c) => \A v : Proper(v) => ReadsBack(c, v)

(* For any tables, words, limits, aliases, conversions, remaps and         *)
(* settings of a cover: what a write says, checked, made raw, mirrored and *)
(* translated, is what its report shows (check.rs, data.rs read and write, *)
(* adapter.rs, overrides.rs translate).                                    *)
THEOREM ValuesAreReadBack == Spec => []ValuesReadBack
<1>1. Init => Adapted /\ Translations /\ Speaking
  BY DEF Init, Adapted, Translations, Speaking
<1>2. TypeOK /\ Adapted /\ Translations /\ Speaking => ValuesReadBack
  <2> SUFFICES ASSUME TypeOK, Adapted, Translations, Speaking, stage = "ready",
                      NEW c \in DOMAIN Table, Expressible(c), NEW v, Proper(v)
               PROVE  ReadsBack(c, v)
    BY DEF ValuesReadBack
  <2>1. Schema(Table[c])
    BY DEF TypeOK, Described, Table, Over
  <2>2. CASE Table[c].kind = "Enum"
    BY <2>2, WordBack
  <2>3. CASE Table[c].kind \in {"Boolean", "Integer"}
    <3>1. \A e \in Range(adapter.entries) : e.code = c => e.convert # "enum"
      BY <2>3 DEF Expressible
    <3>2. Measured(Table[c])
      BY <2>1, <2>3 DEF Expressible, Whole, Measured, Schema
    <3>3. QED
      BY <3>1, <3>2, NumberBack
  <2>4. CASE Table[c].kind = "String"
    <3>1. Definition(Table[c], Natural(Table[c])).type = "text"
      BY <2>4 DEF Definition, Natural
    <3>2. QED
      BY <3>1 DEF ReadsBack
  <2>5. QED
    BY <2>1, <2>2, <2>3, <2>4 DEF Schema
<1>3. QED
  BY <1>1, <1>2, TablesTypes, AdaptedStep, TranslationsStep, SpeakingStep, PTL DEF Spec

(* The values the run tries are such values, the writable DPs such DPs.    *)
THEOREM WritesAreReadBack == Spec => []WritesReadBack
<1>1. ValuesReadBack => WritesReadBack
  <2>1. DOMAIN device.function \subseteq DOMAIN Table
    BY DEF Table, Over
  <2>2. QED
    BY <2>1, SamplesProper DEF ValuesReadBack, WritesReadBack
<1>2. QED
  BY <1>1, ValuesAreReadBack, PTL

-----------------------------------------------------------------------------
(* Settings.                                                               *)

(* Merging two blocks gives a block, and gives every setting a value when  *)
(* the one underneath does.                                                *)
LEMMA MergeType ==
  ASSUME NEW dst \in SettingBlocks, NEW src \in SettingBlocks
  PROVE  /\ Merge(dst, src) \in SettingBlocks
         /\ dst \in [Keys -> Choices] => Merge(dst, src) \in [Keys -> Choices]
BY DEF Merge, SettingBlocks

(* Defaults are a block that names everything.                             *)
LEMMA DefaultType ==
  Default \in SettingBlocks /\ Default \in [Keys -> Choices] /\ Empty \in SettingBlocks
BY SettingsAssumption DEF SettingBlocks, Empty

(* The settings in force are values, whatever the override files hold.     *)
LEMMA LayeredType ==
  ASSUME packProduct \in SettingBlocks, packDevice \in SettingBlocks,
         NEW p \in SettingBlocks, NEW d \in SettingBlocks
  PROVE  Layered(p, d) \in [Keys -> Choices]
<1>1. Merge(packProduct, p) \in SettingBlocks /\ Merge(packDevice, d) \in SettingBlocks
  BY MergeType
<1>2. Merge(Merge(packProduct, p), Merge(packDevice, d)) \in SettingBlocks
  BY <1>1, MergeType
<1>3. QED
  BY <1>2, MergeType, DefaultType DEF Layered

(* The block a SettingsChanged carries is a block.                         *)
LEMMA SettingsBlockType ==
  ASSUME NEW now \in [Keys -> Choices]
  PROVE  SettingsBlock(now) \in SettingBlocks
BY DEF SettingsBlock, SettingBlocks

-----------------------------------------------------------------------------
(* Every setting has a value and every block is one, in every behaviour.   *)
THEOREM SettingsTypes == SettingsSpec => []SettingsTypeOK
<1>1. SettingsInit => SettingsTypeOK
  BY LayeredType, DefaultType, SettingsAssumption
  DEF SettingsInit, SettingsTypeOK, SettingBlocks
<1>2. SettingsTypeOK /\ [SettingsNext]_settingsVars => SettingsTypeOK'
  <2> SUFFICES ASSUME SettingsTypeOK, [SettingsNext]_settingsVars PROVE SettingsTypeOK'
    OBVIOUS
  <2> USE SettingsAssumption DEF SettingsTypeOK
  <2>1. ASSUME NEW k \in Keys, NEW v \in Choices, WriteSetting(k, v) PROVE SettingsTypeOK'
    <3> DEFINE now == [inForce EXCEPT ![k] = v]
    <3>1. now \in [Keys -> Choices]
      OBVIOUS
    <3>2. SettingsBlock(now) \in SettingBlocks
      BY <3>1, SettingsBlockType
    <3>3. QED
      BY <2>1, <3>1, <3>2 DEF WriteSetting, layers
  <2>2. CASE Save
    BY <2>2 DEF Save, layers
  <2>3. ASSUME NEW p \in SettingBlocks, NEW u \in SettingBlocks, Build(p, u) PROVE SettingsTypeOK'
    <3>1. Merge(u, saved) \in SettingBlocks
      BY MergeType
    <3>2. Layered(p, Merge(u, saved)) \in [Keys -> Choices]
      BY <3>1, LayeredType
    <3>3. QED
      BY <2>3, <3>1, <3>2 DEF Build
  <2>4. CASE UNCHANGED settingsVars
    BY <2>4 DEF settingsVars, layers
  <2>5. QED
    BY <2>1, <2>2, <2>3, <2>4 DEF SettingsNext
<1>3. QED
  BY <1>1, <1>2, PTL DEF SettingsSpec

-----------------------------------------------------------------------------
(* Without a rule pack that overrides the settings of a device, its        *)
(* settings survive a reload.  The block in own_blocks is what decides     *)
(* whether a setting may be left out of a SettingsChanged, so it has to    *)
(* name everything the user's file names; and a block that is yet to be    *)
(* saved has to give the settings in force as one that was saved does.     *)
Saved == IF told = Unset THEN saved ELSE told

SettingsInv ==
  /\ SettingsTypeOK
  /\ packProduct = Empty /\ packDevice = Empty
  /\ ownBlocks.product = product
  /\ \A k \in Keys : ownBlocks.device[k] = Unset => user[k] = Unset
  /\ Layered(product, Merge(user, Saved)) = inForce

(* A setting is the device's, else the product's, else the default.        *)
LEMMA LayeredIs ==
  ASSUME packProduct = Empty, packDevice = Empty,
         NEW p \in SettingBlocks, NEW d \in SettingBlocks
  PROVE  Layered(p, d) =
           [k \in Keys |-> IF d[k] # Unset THEN d[k] ELSE IF p[k] # Unset THEN p[k] ELSE Default[k]]
BY DEF Layered, Merge, SettingBlocks, Empty

LEMMA SurvivesInit ==
  ASSUME PackBlocks = {Empty}, SettingsInit, SettingsTypeOK
  PROVE  SettingsInv
<1>1. Merge(user, Empty) = user
  BY DEF Merge, Empty, SettingsTypeOK, SettingBlocks
<1>2. QED
  BY <1>1 DEF SettingsInit, SettingsInv, Saved

LEMMA SurvivesWrite ==
  ASSUME SettingsInv, NEW k \in Keys, NEW v \in Choices, WriteSetting(k, v)
  PROVE  Layered(product, Merge(user, told')) = inForce' /\ told' # Unset
<1> DEFINE now == [inForce EXCEPT ![k] = v]
<1> USE DEF SettingsInv, SettingsTypeOK
<1>1. now \in [Keys -> Choices] /\ now \in SettingBlocks
  BY DEF SettingBlocks
<1>2. told' = SettingsBlock(now) /\ inForce' = now
  BY DEF WriteSetting
<1>3. SettingsBlock(now) \in SettingBlocks
  BY <1>1, SettingsBlockType
<1>4. told' # Unset
  BY <1>2, <1>3, SettingsAssumption
<1>5. Merge(user, told') \in SettingBlocks
  BY <1>2, <1>3, MergeType
<1>6. ASSUME NEW j \in Keys
      PROVE  /\ Merge(user, told')[j] # Unset => Merge(user, told')[j] = now[j]
             /\ Merge(user, told')[j] = Unset =>
                  now[j] = IF product[j] # Unset THEN product[j] ELSE Default[j]
  BY <1>1, <1>2, SettingsAssumption DEF SettingsBlock, Base, Merge, SettingBlocks
<1>7. QED
  <2>1. Layered(product, Merge(user, told')) =
          [j \in Keys |-> IF Merge(user, told')[j] # Unset THEN Merge(user, told')[j]
                          ELSE IF product[j] # Unset THEN product[j] ELSE Default[j]]
    BY <1>5, LayeredIs
  <2>2. Layered(product, Merge(user, told')) = [j \in Keys |-> now[j]]
    BY <1>6, <2>1
  <2>3. QED
    BY <1>1, <1>2, <1>4, <2>2

(* For any settings and values, a product's block and a user's file: as    *)
(* long as the rule pack has no block of its own, what is written to a     *)
(* switch is what a reload gives (driver.rs settings_block against         *)
(* overrides.rs prepare).                                                  *)
THEOREM SettingsSurviveReload ==
  PackBlocks = {Empty} /\ SettingsSpec => []SurvivesReload
<1> SUFFICES ASSUME PackBlocks = {Empty}
             PROVE  SettingsSpec => []SurvivesReload
  OBVIOUS
<1>1. SettingsInit /\ SettingsTypeOK => SettingsInv
  BY SurvivesInit
<1>2. SettingsInv /\ SettingsTypeOK' /\ [SettingsNext]_settingsVars => SettingsInv'
  <2> SUFFICES ASSUME SettingsInv, SettingsTypeOK', [SettingsNext]_settingsVars PROVE SettingsInv'
    OBVIOUS
  <2>1. ASSUME NEW k \in Keys, NEW v \in Choices, WriteSetting(k, v) PROVE SettingsInv'
    <3>1. Layered(product, Merge(user, told')) = inForce' /\ told' # Unset
      BY <2>1, SurvivesWrite
    <3>2. UNCHANGED <<packProduct, packDevice, product, user, ownBlocks>>
      BY <2>1 DEF WriteSetting, layers
    <3>3. Saved' = told'
      BY <3>1 DEF Saved
    <3>4. Layered(product, Merge(user, Saved))'
            = Layered(product, Merge(user, told'))
      BY <3>2, <3>3 DEF Layered, Merge
    <3>5. QED
      BY <3>1, <3>2, <3>4 DEF SettingsInv
  <2>2. CASE Save
    BY <2>2 DEF SettingsInv, Save, layers, Saved, Layered, Merge
  <2>3. ASSUME NEW p \in SettingBlocks, NEW u \in SettingBlocks, Build(p, u) PROVE SettingsInv'
    <3>1. \A k \in Keys : Merge(u, saved)[k] = Unset => u[k] = Unset
      BY DEF Merge
    <3>2. QED
      BY <2>3, <3>1 DEF SettingsInv, Build, Saved, Layered, Merge
  <2>4. CASE UNCHANGED settingsVars
    BY <2>4 DEF SettingsInv, settingsVars, layers, Saved, Layered, Merge
  <2>5. QED
    BY <2>1, <2>2, <2>3, <2>4 DEF SettingsNext
<1>3. SettingsInv => SurvivesReload
  BY DEF SettingsInv, SurvivesReload, Saved, DeviceBlock
<1>4. QED
  BY <1>1, <1>2, <1>3, SettingsTypes, PTL DEF SettingsSpec
=============================================================================
