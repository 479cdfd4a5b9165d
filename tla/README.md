# A formal model of the Tuya interpreter engine

The engine (`src/rust/engine`) turns what a Tuya device reports into values of properties, and commands for
properties into what is sent to the device. It does no I/O: a host calls a *driver* with inputs (connected, a message,
a timer, a command) and executes the outputs (values, events, messages to send, timers to set). All state that decides
anything lives in the driver, across calls whose order nobody controls: pushes, readbacks and snapshots overtake each
other, timers expire while the call that cancels them is under way, links go down, programs fail half-way, drivers are
replaced while they count. This directory models that state in TLA+, checks it with TLC, and proves the central facts
with TLAPS.

Paths below are relative to the repository; `driver.rs` and the like are in `src/rust/engine/src`.

## 1. Inventory

| Component | State | Operations | What makes it correct |
| --- | --- | --- | --- |
| Device driver (`driver.rs`, `runtime.rs`, `protocol.rs`) | link flags, last known codes and DPs, published values, timers waited for, message count, bindings' totals, converter state, motion memory, settings | one `handle` per input: Connected, Describe with seeds, Disconnected, Message, Timer, Command; `carry`, `settings_block`, `snapshot`, `restore` | the consumer's copy equals the driver's; live values are those of the last known codes; nothing of a device survives its disconnection; timers of driver and host agree; a failed input changes nothing |
| Cover motion tracker (`driver/cover.rs`) | state, target, whether by word, last position | `update`, `reset` | a move that is shown ends; copies of old reports start no move; a resting cover shows where it is |
| Delta accumulation (`plan.rs`, `driver.rs`) | total, last timestamp, message count | `accumulate`, `carry` | a running total that adds every report once |
| Device settings (`driver.rs`, `driver/cover.rs`, `driver/overrides.rs`) | settings in force, own blocks | write of a switch, `settings_block`, construction | a switch's value survives a reload |
| Declarative converters (`machine.rs`) | one state value, programs | update, timer, write and reset programs | effects are all applied or none; no program runs for a device that is gone |
| Plans and assembly (`entity.rs`, `assembly.rs`, `plan.rs`) | none after construction | classify, unused, assemble, name; read, write, affected | every property has one owner, whichever layers define it; names stay when the source of a position is changed; a property is read again when one of its codes changed |
| Command check (`driver/check.rs`) | none | `check` | a value is accepted only if the descriptor allows it |
| DP adapter (`adapter.rs`) | none after construction | read, write, aliases, inversion | reading what was written gives it back |
| Request API (`api.rs`, `lib.rs`) | rule pack registry, open drivers and their locks | install, remove, open, drive, carry, close | ids keep their content, handles are not reused, no deadlock |
| Bindings (`src/tuya_interpreter`, `bindings/js`) | Python's cache of installed packs, a handle per driver | register, unregister, open, drive, close | the cache agrees with the registry, and drivers find their packs |
| Rule packs, overrides, expressions (`rules.rs`, `driver/overrides.rs`, `expr.rs`) | none | compose, patch, validate, evaluate | order of layers; budgets bound the work |
| Example host (`examples/rust`) | a session with one device | connect, read, set, toggle, quit; write with a timeout and one query | a late reply of an older state is not taken for the new one; every command ends |

**How they interact.** A binding or host owns drivers and calls them one input at a time (`api.rs` holds a mutex per
driver). `runtime.rs` runs every input on a copy of the driver and commits the copy only when the input succeeded, so
outputs of a failed input are lost together with its changes. Inside a message the adapter makes a table of codes, the
driver decides which codes *changed*, runs the converter's program and the motion tracker, accumulates deltas, fires
events, and reads every property that depends on a changed code. `Driver::set` compares what it has to say with the
values published before, and says only what differs. The host keeps timers by name, delivers their expiry as an input,
and keeps settings.

**What is hard.** Outputs are suppressed against state that a rolled-back call may have changed; the channel and the
first message after a reconnect decide what counts as live; a timer's expiry races its cancellation; a report may be
heard twice, in another order, or never; a replacement driver is opened and seeded while the old one goes on; settings
pass through layers that two computations must agree about. `PROJECT.json` lists every such place with its line, and
the properties that would notice.

## 2. Modules

| Module | Models | Extends |
| --- | --- | --- |
| `Motion` | the motion tracker as pure operators, `Update` from memory and report to memory, state and timer | |
| `Driver` | one driver, the host that runs its timers and the consumer that keeps its values | `Motion` |
| `Cover` | a physical curtain, time in seconds, the tracker and the host's settle timer | `Motion` |
| `Meter` | what a delta property promises (abstract) | |
| `Delta` | the accumulator, repeated and reordered reports, replacement drivers and restarts; implements `Meter` | |
| `Registry` | rule packs, open drivers and their mutexes, used by threads that do not know of each other | |
| `Settings` | layers of settings, `settings_block`, the host's storage and reloads | |
| `Adapter` | a value's way to the device and back as pure operators: check, role, conversion, alias, mirror | |
| `Tables` | how a driver's DP tables and adapter are built from device, quirk, host and override block | `Adapter` |
| `Assembly` | which properties a driver has, under which names, and who owns each | |
| `Binding` | Python threads that make drivers and release rule packs, and the binding's cache of packs | |
| `Session` | the example host, its driver's value of one switch, the connection and the device | |
| `MC*` | small instances for TLC | the module they instantiate |
| `MotionProofs`, `DriverProofs`, `CoverProofs`, `DeltaProofs`, `RegistryProofs`, `AssemblyProofs` | theorems and proofs | the module they are about |
| `OverridesProofs` | theorems and proofs about what override blocks do | `Tables`, `Settings` |
| `HostProofs` | theorems and proofs about the example host and the Python binding | `Session`, `Binding` |

**Driver.** The variables `linked` to `settings` are the fields of `driver::Driver`, with codes in place of raw DPs
(the adapter's conversion is a table). `seen` is the consumer's copy, built only from outputs; `armed` and `due` are
the host's running and expired timers, `spent` those an input that failed had used up; `out` is what a step produced
besides. An action is a whole input:

| Action | Code |
| --- | --- |
| `Connected`, `Describe`, `DescribeEnds`, `Disconnected`, `Message`, `EmptyMessage`, `SettleDue`, `TimerIgnored`, `MachineTimer`, `WriteSetting`, `WritePlan`, `WriteMachine` | the arms of `handle_inner` (driver.rs:350-616) |
| `MessageFails`, `MachineTimerFails`, `DescribeFails`, `Reject` | an error in those arms: `runtime.rs` drops the copy, so only the host has changed |
| `Expire` | the host's clock |

A Describe applies its seeds to the same copy one after another, and any of them may fail, so it is an open `call`: it
begins with a snapshot of the driver in `call.before`, each seed is a `Message` step whose outputs collect in
`call.pub` and `call.tims`, and the call ends by delivering them or by restoring the snapshot. Nothing else can happen
in between, as the driver is locked. `Publish` and `Heard` are the two halves of `Driver::set`: what is stored and what
is said.

Data is abstract. A message is a table of codes. `Reading(p, table)` stands for a plan's reading and depends on
`Depends[p]` alone, as `ReadingAssumption` states. A converter program is any element of `Programs`, that is any new
state, values, timer orders and sends (what `Machine::invoke` may return), since rule packs can hold any. Seeds are messages: seeds that are other inputs
are allowed by the code and not modelled. `accept_passive` is modelled where it is exposed as a switch. The sequence number
is frozen when there is no delta property, since nothing else reads it.

**Cover** adds what `Driver` leaves out: a curtain with a place and a motor that obeys words, may be stopped by hand,
reports some of its movement and loses some, and a clock. **Delta** adds the transport (reports numbered 1, 2, ...
that can be heard again) and the driver that takes another's place. Tuya timestamps and sequence numbers share the
field `lastTs`; timestamps are modelled as `Epoch + i`, later than any count of messages. **Settings** treats the
settings of a device as one function; the product's, the device's, the rule pack's and the user's blocks are partial
functions merged in the order of `prepare` (overrides.rs:32-44).

**Registry** lets threads ask for `InstallKnown`, `Install`, `RemoveRules`, `Open`, `Close`, `Drive` and `CarryHandle`, and go
on with `InstallFails`, `InstallEnds`, `OpenFails`, `OpenEnds`, `CloseEnds`, `FindOld`, `Lock`, `DriveEnds`, `DriveFails`,
`DrivePanics`, `CopyEnds` and `CarryEnds`. A step is what a request does between two points where another thread may come
in: each use of a registry is one, as nothing waits inside it, and work under a driver's mutex is two, taking it and
ending. `Dropped` is the release of guards at the end of a scope. A driver is its count of messages (`Driver.seq`), which
is what `Delta` needs to survive a carry; a drive copies it and puts the copy in its place, as `runtime.rs` does. Not
everything answered is a step: a refused request changes nothing. `told`, `closes` and `answered` are what clients know.

**Tables** follows `Driver::new` (driver.rs:100-151), that is `prepare` (overrides.rs:7-105), `build_adapter`, `make_covers`,
`without_target_positions`, `invert_cover` and `cover_motions` (driver.rs:629-821) step by step: an action is one operation of the quirk, one DP of the block or one stage, since each reads tables that the ones before it
left. `dpmap`, `original`, `remap` and `removed` are the code's own; `held` and `own` remember which code and which
schema entry each DP ID should have, and `clean` that DPs had codes of their own at first and no patch took one from another.
Adapter entries are keyed by DP ID, as in the code, and the block's `dp` member is any element of the constant `Blocks`, any
number of patches. A schema entry carries its origin (`of`), so that an entry in the wrong place can be told. The block's `remap`, `remove` and the settings of the cover
are chosen where they are first used; nothing reads them before. Of classification only what decides a curtain's cover
is modelled: `CoverOf` finds its roles for position, target and control by `Resolve`, and `FitCover` makes the cover, makes
it again without its position DP where the target is to be shown, inverts what its settings say, offers the settings
that apply and gives it a tracker. **Adapter** has the operators: `Accepted` is `check`, `RoleWrite` and `RoleRead` are `Role`, `Write` and `Read` the
adapter's, `DpRead` and `IlValue` the end of a report's way. Property values are in tenths and scales one or ten, which
makes `Rounded` and `Tenths` exact. An enum conversion may have several raw words for one value; which of them is
written is left open.

**Assembly** follows the rest of `Driver::new` (driver.rs:105-161): `entity::classify` and `unused`, `assemble` with `name`,
`declarative`, `cover_motions`, `config_switches` and `patch_descriptor`. They fill one name space, and each looks at another table
for what is taken. A step is one plan, one row of a plan's layout, or one later stage. A name is a sequence of words (the code joins
them with underscores), so that two layers meet under a name exactly where they do in the code. `props` says by whom a
property is defined, `bindings` who gives it its value and takes its writes; `switches`, `taken` and `motions` are the code's
`config_switches`, the converter's names and the trackers. `first` keeps what the first classification found, as `choices` does in
the code, and as a record of what there was. Which plans a device can have, with the codes they need and claim, is a constant, as rule
tables are data; `plans` is the set of the places, in the order of classification, of those it has. That hazardous device settings are announced read-only is left out.

**Binding** has the two statements of `register_rules` and `unregister_rules` that read or change `_installed`, with the engine's
request between or after them, as steps of threads; a request of the engine gives up Python's lock. The engine's side is a
set of ids, since an id is the hash of its pack (`Registry` shows that an id keeps its contents). A driver the engine keeps needs its
id only while it is made; `users` counts those that are passed as JSON and name it in every request.

**Session** is `main.rs` of the example with a device of one switch. A wait (`receive_dps`) begins with a listener of its own, made
just before the command is sent: of the frames under way then, any first ones are lost to it (`Listen`). The connection keeps
order. The device may carry out a write or not, acknowledge it without a report, refuse it, answer a query with other DPs or not
at all, report of its own, and be operated by hand. Any error ends the session, as in the code.

## 3. Runs

| Run | Shows | Bounds |
| --- | --- | --- |
| `curtain_inferred` | `MoveWillSettle`, `HeadsForTarget`, `AtRestShowsPosition`, `CopiesStartNothing`, `SnapshotRests`: timers, target, position and shown state of an inferred cover agree through any order of inputs | three codes, both ends and two positions between, up to two codes in a message, one seed |
| `awning` | `MotionShown` with the state taken from inverted control reports; `LiveIsCurrent`, `SettingsShown`: totals and settings through disconnects and rolled-back seeds | three positions, increments of one, one timestamp, two switches, messages that count or move, three of them with DPs |
| `converter` | `ConsumerAgrees`, `LiveIsCurrent`, `OfflineIsBlank`, `OfflineIsQuiet`, `TimersAgree`, `CopiesStartNothing`, `NoSendWhileDown` with a program that sets, cancels and sends, and a host that still delivers cancelled timers | two codes, a plan property of both, an event property, four programs, one seed |
| `cover` | `SilenceSettles`, `SettlesAfterSilence`, `EndsAreReported` in time | four places, two seconds |
| `delta` | `NothingLost` and `KeepsPromise`: the accumulator implements `Meter` | three reports, four messages |
| `registry` | `IdsKeepContents`, `NothingUndone`, `ClosedOnce`, `HoldersWork`, `Answered` in every interleaving of two threads | one id, two valid packs and one that is not, six requests |
| `settings` | `SurvivesReload` for every product and user block | two settings of two values |
| `tables` | `PatchesHold`, `RemovedIsGone`, `WritesReadBack`, `InversionComposes`, `TargetSelected` for every driver that can be built from the parts below | four curtains (odd words with and without a target, an enum conversion, a Boolean control), three quirks, two DP maps, blocks of up to two of twelve patches, five remaps, three removals, nine choices of a cover's settings |
| `assembly` | `OneOwner`, `ConverterOwns`, `SourceKeepsTables` for every driver of a curtain with two motors; `PositionsSpared`, the hypothesis of its proof, as an ASSUME | five settings of the covers, six converters, six blocks of props; classification, unused DPs and device settings on or off |
| `assembly_source` | finding 1: `SourceKeepsNames` fails | the same |
| `binding` | `CacheIsTrue`, `UsersFindPacks` in every interleaving | three threads, a valid and an invalid pack, two users of an id |
| `session` | `ReadsOwnWrites`, `TogglesTurn`, `WaitsEnd` | three commands and three frames under way |

Four more configurations reproduce disagreements of section 4 and are not part of the list: `MCSettings_pack.cfg` (`SurvivesReload` fails), `MCCover_chatter.cfg` (`SettlesInTime`
fails), `MCDelta_reordered.cfg` (`AddsOnce` fails), `MCTables_renamed.cfg` (`RenamedKeepsType` fails).

**Why the bounds are enough.** Every property relates one property or timer to the codes it depends on, so one of a kind
suffices, and two codes are needed where a reading can be half stale. The tracker distinguishes only the ends, equality
and order of positions: both ends and two positions between give every order of position, last position and target.
One seed is enough for a description to fail after something was applied. Three reports give a repetition with another
report in between. Six requests of two threads are enough for two drivers, carries in opposite directions and a drive
beside them, and for a handle to be closed, its place taken and closed again. Blocks of two patches are the least in which
one can disturb another; `PatchesAreHeld` says so of any number. Two motors are what it takes for one to be the device and the other a group with a name of its own; the
blocks of `assembly` put each later layer (converter, trackers, settings, props) under a name of each earlier one. Three commands and frames are a
write, its query and the read after it beside a report of before, one of other DPs and one of another's doing. Of three threads two make drivers and one
releases their pack. 
The values tried by `WritesReadBack` are both ends of a range,
values in it, values a scale turns into tenths and values off every step. No run needs more than two
minutes. `CHECK_DEADLOCK FALSE` stands where things end: a driver is built, a session is over, requests are used up.

Four preconditions of the `tables` run are conditions of the code's, not of the model's. `clean`: two DPs with one code
share their schema entry, and a block that makes them so is what disagreement 5 is about; and a DP that is only taken, renamed to a
code that the device reports without any DP of it, is described as what is reported, since every lookup of a schema entry tries
`status_range` first. `Expressible`: an enum
conversion makes words, of an Enum only, and one whose config has no raw word for a word that may be sent (`DeviceWords`) has no way to send it; any other
conversion takes an empty word for a missing value; and a number whose step is no whole raw number is rounded. `InversionComposes` leaves out words
that only stand for what an alias makes of another word, since the swap gives that word to the alias; and its `Alike` asks that `function` and
`status_range` agree on the kind and range of a cover's DPs, since one decides how commands are inverted and the other how reports are.

**Host contract.** A host executes outputs in order and delivers an expiry once. `LateTimers` says whether an expiry that is
already on its way is still delivered after the timer was cancelled. With `LateTimers = TRUE` (`converter`) the driver's
list of timers filters late ones; what it cannot tell is the late expiry of a timer that was set again under the same
name, which the code, too, takes for the new one.

**Fairness.** `Cover` has `WF(Tick)` and `WF(SettleDue)`, that is, time passes and the host delivers an expired
timer, which is what `SetTimer` asks of it. The device owes nothing: the liveness property supposes only that it falls
silent. `Registry` has `WF(Proceed(t))` for every thread: the system runs it, and it takes a mutex that stays free. The
standard library's mutex is not fair, and a thread may wait as long as others keep asking; with the bound on requests
they stop, so `Answered` says that nobody waits for a mutex that is never released. `Session` has weak fairness of connecting (it
succeeds or fails), and of the two timeouts: tokio's timers expire. Device and connection owe nothing, and no frame need ever
arrive, so `WaitsEnd` rests on the timeouts alone; each also holds against a device that never stops reporting, since the deadline is
one for the whole wait (main.rs:127). The other modules state safety and
action properties and need none.

## 4. Findings

1. `docs/device-customization.md:134` says property IDs stay stable through source changes. With `position_from_target` a device is
   classified a second time, and only the first classification is followed by the properties of unused DPs (driver.rs:113-121,
   127-131): with `expose_unused` they disappear with the choice of a source and come back with the other
   (`assembly_source`). What the tables name stays (`SourceKeepsTables`, proved).

Four more places where the documents say more than the code does; the configurations named in section 3 show them.

2. A switch's value is to be kept over a reload (`docs/device-customization.md:88-93`). `settings_block` leaves out what
   equals the defaults and `options.overrides` (driver.rs:253, 274), but a reload also applies the rule pack's own
   overrides (overrides.rs:32-44): a setting the pack turns on cannot be turned off for good. Without
   such a pack `SurvivesReload` holds, and is proved.
3. `docs/device-customization.md:101` calls `settle` the seconds without a *position report* after which a move counts as
   stopped. The timer is set again by every message handled while a move is shown (cover.rs:279-282), so a report of
   the battery postpones it. `SettlesAfterSilence` is what does hold.
4. `docs/device-customization.md:151` says a report seen twice with the same `t` adds once. Only the timestamp counted
   last is compared (plan.rs:62), so a repetition that arrives after another report is added twice. As long as
   repetitions are not overtaken, `KeepsPromise` holds, and is proved.
5. `docs/device-customization.md:35` says a renamed DP keeps its type. Renames are applied one by one to tables keyed by
   code, each looking for the code its DP had before the block (overrides.rs:49-69). A block that exchanges the codes
   of two DPs, as one would for a device that labels them the wrong way round, overwrites one entry and moves the other
   twice. Blocks whose patches take only free codes are applied as documented (`PatchesHold`).

Three things were met that contradict no document: a property of props from a DP under the name of a device setting shows the DP
while its writes go to the setting (`Replaced` in `Assembly`); a report with a control word that names no motion hides the position
next to it (`WordsMove` in `DriverProofs`); and a rule pack that Python releases while a driver is made with it can stay in the
binding's cache when the engine has it no more (`overlapped` in `Binding`).

## 5. Proofs

TLC checks the instances above. The theorems hold for every value of the constants that satisfies the named
assumptions (`MotionAssumption`, `TableAssumption`, ...), which TLC evaluates on every instance.

* **`ConsumerAlwaysAgrees`** (`DriverProofs`). The property speaks of closed calls only, so it is not inductive: `Agrees`
  adds what holds of an open one, that its collected outputs laid over the consumer's copy give the driver's values,
  and that the snapshot it may fall back to has the values the consumer holds. `HeardIsPublished` is the heart: saying
  only what differs from `values` is invisible to a consumer that holds `values`. `OverOver` lets outputs be
  collected first and delivered later.
* **`TimersAlwaysAgree`** (`DriverProofs`). `TimersHeld` compares the driver's timers with `After`, the timers the host will
  hold once an open call's orders reach it, and adds that a host that forgets cancelled timers never has one both
  running and due; without that an expiry could leave a running timer behind.
* **`DriverTypeCorrect`** (`DriverProofs`). `TypeOK` with the shape of `call`; the lemmas say which values each kind of step
  can say of each kind of property, and rest on `UpdateType` of `MotionProofs` for the tracker.
* **`LiveAlwaysCurrent`, `OfflineAlwaysBlank`, `OfflineAlwaysQuiet`, `SettingsAlwaysShown`, `MotionAlwaysShown`** (`DriverProofs`).
  These speak of what the consumer holds between calls. `ConsumerAlwaysAgrees` makes that `values`, so the invariant `ShownInv` is
  about the driver itself: it is stated of a record of its fields (`ShownOf`), and holds of the driver as it is and of the
  copy an open call may fall back to. The one fact about data is `ReadingAssumption`: a reading depends on the codes of
  its property, so a message that changes none of them leaves it current.
* **`MoveAlwaysSettles`, `MoveAlwaysHeads`, `RestAlwaysShown`** (`DriverProofs`), for inferred covers. `SettleInv`: the driver waits for the
  settle timer exactly while it holds a move, and no failed call used that timer up (its arm cannot fail); with
  `TimersAgree` it is then at the host. `CourseInv`: the target is strictly ahead of the position, and at rest the
  published state is that of the position. It needs `WordsMove`, that every word the device reports names a motion; section 4 says what
  happens otherwise.
* **`CopiesNeverStart`, `SnapshotsRest`, `NeverSendsWhileDown`** (`DriverProofs`). Action properties, from the type invariant and
  `UpdateOfCopy`, which says what `Update` makes of a report that is not live. With these every property of `Driver` is proved.
* **`PropertiesHaveOneOwner`** (`AssemblyProofs`). `AssemblyInv` goes through the stages: until the settings come what is described is
  bound, to the same owner (`Bound`); then a name is bound or a setting, never both (`BoundOrSetting`); props change both tables
  alike, except for the names in `Replaced`. The hypothesis `[]StatesDiffer`, that no two covers' states have one name, is up
  to the keys of the tables: `name` looks at the properties there are, not at the groups.
* **`MovesSettle`, `EndsAreTrue`, `TypeCorrect`** (`CoverProofs`). `CoverInv` adds that the consumer is shown a move exactly
  while the tracker holds one. `InferredFollows`, `SettleEnds` and `EndsOfInferred` of `MotionProofs` are the facts about
  `Update` they need: the timer is set with every answer that leaves a move, a timer ends it, an end is published
  only where the position is, and a position is passed over in silence only in the middle of a move.
* **`NothingIsLost`, `ImplementsMeter`, `TypeCorrect`** (`DeltaProofs`). `LastCounted` says what `lastTs` can be: a message count
  so far, or the timestamp of a report in the total; so a stamp that equals it belongs to a report that was added.
  It survives `Carry` because the count never falls. `LatestCounted` is needed for the refinement, under `Orderly`.
* **`IdsAlwaysKeepContents`, `HandlesCloseOnce`, `HoldersAlwaysWork`, `AnsweredStaysCounted`, `TypeCorrect`** (`RegistryProofs`), for
  any number of threads and requests. `LockInv` joins three facts that need each other: who holds a mutex works with that
  driver, a drive under a mutex has an up-to-date copy, and a carry's copy is no less than what it owes. `OthersStable`
  says that a thread's call stays sound while others raise counts and leave alone what it holds; with it each step is
  about one thread. `ClosedInv` adds that closed handles are below `next` and not open.
* **`ConverterAlwaysOwns`** (`AssemblyProofs`). `Taken` adds that trackers and switches were chosen by the converter's names that
  are still the block's, and that every switch in `switches` is some cover's setting; `Grouped` that covers' groups are sequences
  of words. A switch is known by its name alone, so `SettingNames` has to tell groups and settings apart: two names with equally
  many words after the group are equal only in both (`LastWords`), and no setting of a cover is called `accept_passive`.
* **`SourcesKeepTables`** (`AssemblyProofs`), for tables with `PositionsSpared`: plans are found without the positions that a target can
  stand for, and no property is read of such a position alone. That is so of the covers in `rules/builtin` (found by their word or target, with a
  position from either DP), and TLC checks it of the instance. A classification is a walk over the rows of the plans, and a name is the least one that is free, so
  the property relates two walks: `NameIs` says that the name of a row follows from the names of earlier rows (`Laid` holds of any walk), and
  `Follows` that the second walk has, up to its cursor, the first one's table. Names of unused DPs come after all of these, which is why losing
  them (finding 1) shifts no other name. `KeptInv` takes it through the later stages.
* **`PatchesAreHeld`** (`OverridesProofs`), for any number of devices, quirks, DP maps, patches, remaps and removals. `InOrder` is
  what a block keeps: DPs have codes of their own (`Apart`), the tables have each DP's schema entry under its present code
  (`SchemasKept`), patched DPs have the code they were given and others the one they had (`Given`, `Untouched`), which is what makes
  looking a DP up by its *original* code right, and `local_strategy` and the DP map say the same (`StrategyFirst`, `MapFollows`).
  `EntriesFollow` is what the adapter makes of it. The proof showed that free codes alone are not enough: hence `Hidden`
  in `clean`, of which the bounds had had no instance, and codes of their own at the start.
* **`WhatIsRemovedIsGone`, `TargetIsSelected`, `TablesTypes`** (`OverridesProofs`). `Gone` goes by stages: out of the tables and the DP map
  with `RemoveDps`, out of the adapter with `Adapt`, and nothing later makes an entry. `CoverIs` says which roles a curtain's tables
  give, `OthersStay` that taking out the position leaves the rest, so the cover after the choice is that of the first but for its position.
* **`InversionsCompose`** (`OverridesProofs`), for every value a device may send, not only the samples. `Adapted` says that from its making
  on the adapter mirrors in the limits of the tables and reports their words, and until it is inverted maps values as the remap
  says. `InvertedRemap` is the heart: whatever settings combine, each DP is turned once, or its two words exchanged once (`Exchanged`), though up
  to three calls of `invert_cover` go over the same remaps.
* **`ValuesAreReadBack`, `WritesAreReadBack`** (`OverridesProofs`), for every value and every DP that is `Expressible`, in tables that are `clean` or not.
  For numbers, `WholeSteps` and `RoleBack` say that what `Rounded` makes of an accepted number stays within its limits and is shown as the number
  that was accepted, `FlipBack` that mirroring in limits undoes itself and stays in them. For words, the range of an Enum and the reports of it are translated at different places, so
  what they have to agree on is an invariant: `Translations` (a word on offer that has an alias is one itself, which is so only because the remap translated the range)
  and `Speaks` (what is sent for a word is told as that word, and is one of `DeviceWords`). `SwapSpeaks` is the step that could break it: swapping
  the words of an inverted control on top of aliases that exchange them, name one twice or leave one out keeps `Speaks` and sends no word that was not sent before.
* **`SettingsSurviveReload`, `SettingsTypes`** (`OverridesProofs`), the first with `PackBlocks = {Empty}`. `SettingsInv` adds that a block yet
  to be saved gives the settings in force as a saved one does, and that `ownBlocks.device` names whatever the user's file
  names, which is what makes leaving a setting out harmless.
* **`WritesAreRead`, `ToggleTurns`, `SessionTypes`** (`HostProofs`), for channels of any length. `Undisturbed`: without a write in
  progress every report under way says what the device has (`Settled`); during one the device turns once, so that whatever
  is under way says old values first and the wanted one from some frame on, never the other way round (`Turning`). Losing first frames
  to a new listener keeps both (`LaterFrames`), which is why a late reply of the state before cannot be taken for the new one.
* **`CacheHolds`, `PacksFound`, `BindingTypes`** (`HostProofs`), for any number of threads and ids. The two properties need each other and what
  a thread relies on between its two steps: what it installed is there when it remembers it (`MadeWithPacks`), and nobody
  uses or remembers what it is about to remove (`ReleasedUnused`), both but for `overlapped`.

Two modules hold the proofs of two components each; their states have nothing in common, and the definitions that would share a name are
prefixed in the smaller one (`SettingsSpec`, `PythonSpec`).

Only model-checked: the liveness properties `SilenceSettles`, `Answered` and `WaitsEnd` (fairness is out of the prover's reach).

## 6. Not modelled, and the plan

What later work could add, in this order:

1. Snapshot, restore and migration of a driver, as actions of `Driver`; seeds that are not messages.
2. Settings of several groups in one block in `Settings`, with the groups `Assembly` finds.
3. The rest of the adapter's conversions, and `requires` in the command check, in `Adapter`.

Left out for good: the composition of rule packs (`rules.rs`: a recursive merge and an interpreter of a JSON schema, both pure
functions of documents) and the validation of override blocks; the meaning of expressions and of readings of several codes (data, covered by the
repository's golden tests; a converter's program is any effect it may have); rule data and the scripts that generate it; JSON
encoding, finalizers, and the marshalling of strings over the C ABI. The JavaScript binding has one thread, no cache, and passes
requests through.
