------------------------------- MODULE Driver -------------------------------
(***************************************************************************)
(* One device driver of the engine (rust/engine/src/driver.rs), the host   *)
(* that calls it and the consumer that keeps what it publishes.            *)
(*                                                                         *)
(* A driver is a state machine without I/O: handle(now, input) changes its *)
(* state and returns outputs.  One action here is one call of handle, from *)
(* its first early return to the outputs the host has applied, except      *)
(* Describe, whose seeds are inputs of their own: it opens a call, each    *)
(* seed is a Message step of that call, and the call ends by delivering    *)
(* all outputs or, when a seed fails, by restoring the state it began in   *)
(* (runtime.rs runs every input on a copy and commits it on success).      *)
(*                                                                         *)
(* Data is abstract: a message is the table the DP adapter made of it, a   *)
(* property's reading is a constant operator on the known codes, and a     *)
(* converter program is any element of Programs.                           *)
(***************************************************************************)
EXTENDS Motion

CONSTANTS
  Codes,         \* the DP codes of the device
  Tables,        \* what can be known of the codes, functions from Codes to a value or None
  Reports,       \* the tables the DP adapter makes of one message
  PlanProps,     \* properties read from an entity plan
  Depends,       \* [PlanProps -> SUBSET Codes]: Plan.depends_on
  Reading(_, _), \* Binding::read of a plan property from a table of codes
  Readings,      \* the values Reading can give, besides None
  DeltaProps,    \* properties that add up increments
  DeltaCode,     \* [DeltaProps -> Codes]
  EventProps,    \* properties that only fire events
  EventCode,     \* [EventProps -> Codes]
  Fires,         \* [EventProps -> SET]: the values that are event kinds of the property
  MachineProps,  \* properties the declarative converter owns
  MachineTimers, \* the names its programs use for timers
  MachineStates, \* the values its state slots can take
  InitialState,  \* its initial_state
  ResetStates,   \* what its reset program can leave; a failed one leaves initial_state
  Programs,      \* the effects of one run of its update, timer or write program
  Outcomes,      \* the values a converter can emit
  MotionProp,    \* the cover_state property the tracker owns, or None
  Switches,      \* device-setting properties
  AcceptPassive, \* the switch of the delta setting, or None
  SettingValues, \* what a switch can be set to
  Defaults,      \* [Switches -> SettingValues]: the settings the driver was built with
  Writable,      \* plan properties with a write path
  Times,         \* the Tuya timestamps messages carry
  MaxSeq,        \* bound: messages with DPs a behaviour has, when the device has delta properties
  MaxSeeds,      \* bound: seeds of one Describe that succeed
  LateTimers     \* TRUE: a timer that has expired is delivered even after CancelTimer

Available == "available"
SettleTimer == "settle"

Trackable == IF MotionProp = None THEN {} ELSE {MotionProp}
Props == PlanProps \cup DeltaProps \cup MachineProps \cup Trackable \cup Switches \cup {Available}
Timers == MachineTimers \cup {SettleTimer}
Program == [state  : MachineStates,
            values : [MachineProps -> Outcomes \cup {None, Unpublished}],
            timers : [MachineTimers -> TimerEffects],
            sends  : BOOLEAN]
Blank == [c \in Codes |-> None]

(* "new" laid over "old" wherever it is not a gap. *)
Over(old, new, gap) == [x \in DOMAIN old |-> IF new[x] = gap THEN old[x] ELSE new[x]]

ASSUME TableAssumption ==
  /\ Blank \in Tables
  /\ Reports \subseteq Tables
  /\ \A f \in Tables :
       /\ DOMAIN f = Codes
       /\ \A c \in {Target, Position} \ {None} : f[c] \in Int \cup {None}
       /\ \A p \in DeltaProps : f[DeltaCode[p]] \in Int \cup {None}
       /\ \A new \in Reports : Over(f, new, None) \in Tables
  /\ {Command, Target, Position} \subseteq Codes \cup {None}
  /\ None \notin Codes
  /\ \A p \in DeltaProps : DeltaCode[p] \in Codes

ASSUME PropAssumption ==
  /\ PlanProps \cap (DeltaProps \cup MachineProps \cup Trackable \cup Switches \cup {Available}) = {}
  /\ DeltaProps \cap (MachineProps \cup Trackable \cup Switches \cup {Available}) = {}
  /\ MachineProps \cap (Trackable \cup Switches \cup {Available}) = {}
  /\ Trackable \cap (Switches \cup {Available}) = {}
  /\ Available \notin Switches
  /\ None \notin PlanProps \cup DeltaProps \cup MachineProps \cup Switches \cup {Available}
  /\ AcceptPassive \in Switches \cup {None}
  /\ SettleTimer \notin MachineTimers

(* A reading is a value of its own codes only. *)
ASSUME ReadingAssumption ==
  \A p \in PlanProps, f \in Tables :
    /\ Depends[p] \subseteq Codes
    /\ Reading(p, f) \in Readings \cup {None}
    /\ \A g \in Tables : (\A c \in Depends[p] : f[c] = g[c]) => Reading(p, f) = Reading(p, g)

ASSUME ValueAssumption ==
  /\ \A v \in {None, Unpublished} :
       /\ v \notin Int
       /\ v \notin {"on", "off", "active", "passive", "state"}
       /\ v \notin Readings
       /\ v \notin Outcomes
       /\ v \notin SettingValues
  /\ Defaults \in [Switches -> SettingValues]
  /\ InitialState \in ResetStates
  /\ ResetStates \subseteq MachineStates
  /\ Programs \subseteq Program
  /\ \A t \in Times : t \in Int
  /\ MaxSeq \in Nat
  /\ MaxSeeds \in Nat
  /\ LateTimers \in BOOLEAN

VARIABLES
  linked,     \* the host says the device is connected
  synced,     \* a message with DPs arrived since the last disconnect
  described,  \* the descriptor was published
  codes,      \* last reported value of every code
  values,     \* last published value of every property
  timers,     \* names of the timers the driver waits for
  seq,        \* messages with DPs so far
  totals,     \* Binding.total of the delta properties
  lastTs,     \* Binding.last_ts: timestamp of the increment counted last
  machine,    \* state of the declarative converter
  motion,     \* memory of the motion tracker
  settings,   \* the device settings in force
  call,       \* the Describe in progress
  seen,       \* the consumer's copy of the published values
  armed,      \* timers the host has running
  due,        \* timers that expired and are yet to be delivered
  spent,      \* timers whose Timer input failed: the driver still waits for them
  out         \* the channel of the last step's message, and what it produced besides values and timers

driverVars == <<linked, synced, described, codes, values, timers, seq, totals, lastTs,
                machine, motion, settings>>
hostVars == <<seen, armed, due, spent>>
vars == <<driverVars, call, hostVars, out>>

-----------------------------------------------------------------------------
(* Outputs.  What a call says about each property and timer is a function; *)
(* Driver::set turns it into outputs for what differs from values.         *)

Silence == [p \in Props |-> Unpublished]
NoTimers == [n \in Timers |-> "keep"]

(* Variant: what is not said is stored, too. *)
PublishAll(said) == said
Publish(said) == [p \in Props |-> IF said[p] = Unpublished THEN values[p] ELSE said[p]]

(* Variant: a property that becomes absent is not announced. *)
HeardValues(said) ==
  [p \in Props |-> IF said[p] \in {values[p], None} THEN Unpublished ELSE said[p]]
Heard(said) == [p \in Props |-> IF said[p] = values[p] THEN Unpublished ELSE said[p]]

(* apply_effects: only a timer the driver waits for is cancelled. *)
Ordered(waiting, tims) ==
  [n \in Timers |-> IF tims[n] = "cancel" /\ n \notin waiting THEN "keep" ELSE tims[n]]
Rearmed(waiting, tims) ==
  {n \in Timers : tims[n] = "set" \/ (n \in waiting /\ tims[n] # "cancel")}

Closed == [open |-> FALSE, before |-> None, pub |-> Silence, tims |-> NoTimers, seeds |-> 0]

(* The host applies the outputs of a call that succeeded. *)
Deliver(pub, tims) ==
  LET touched == {n \in Timers : tims[n] # "keep"}
  IN  /\ seen' = Over(seen, pub, Unpublished)
      /\ armed' = Rearmed(armed, tims)
      /\ due' = IF LateTimers THEN due ELSE due \ touched
      /\ spent' = spent \ touched

(* Outputs of a seed wait for the rest of its call. *)
Emit(pub, tims) ==
  IF call.open
    THEN /\ call' = [call EXCEPT !.pub = Over(@, pub, Unpublished), !.tims = Over(@, tims, "keep"),
                                 !.seeds = @ + 1]
         /\ UNCHANGED hostVars
    ELSE Deliver(pub, tims) /\ UNCHANGED call

Quiet == [channel |-> None, sent |-> FALSE, events |-> {}]

-----------------------------------------------------------------------------
(* Driver::describe: once, the settings' values and no cover_state.        *)

DescribeSays(p) ==
  IF described THEN Unpublished
  ELSE IF p \in Switches THEN settings[p]
  ELSE IF p = MotionProp /\ Mode # "inferred" THEN None
  ELSE Unpublished

Described == [p \in Props |-> DescribeSays(p)]

(* The copy of the driver that runtime.rs commits only on success. *)
Snapshot == [linked |-> linked, synced |-> synced, described |-> described, codes |-> codes,
             values |-> values, timers |-> timers, seq |-> seq, totals |-> totals,
             lastTs |-> lastTs, machine |-> machine, motion |-> motion, settings |-> settings]

Commit(copy) ==
  /\ linked' = copy.linked
  /\ synced' = copy.synced
  /\ described' = copy.described
  /\ codes' = copy.codes
  /\ values' = copy.values
  /\ timers' = copy.timers
  /\ seq' = copy.seq
  /\ totals' = copy.totals
  /\ lastTs' = copy.lastTs
  /\ machine' = copy.machine
  /\ motion' = copy.motion
  /\ settings' = copy.settings

(* Variants: a part of the driver is not part of the copy. *)
ValuesKept(copy) == Commit([copy EXCEPT !.values = values])
TimersKept(copy) == Commit([copy EXCEPT !.timers = timers])
TotalsKept(copy) == Commit([copy EXCEPT !.totals = totals])
RolledBack(copy) == Commit(copy)

Connected ==
  /\ ~call.open
  /\ linked' = TRUE
  /\ described' = TRUE
  /\ values' = Publish(Described)
  /\ Emit(Heard(Described), NoTimers)
  /\ out' = Quiet
  /\ UNCHANGED <<synced, codes, timers, seq, totals, lastTs, machine, motion, settings>>

(* Describe{seed}: the descriptor first, then the seeds, as Message steps. *)
Describe ==
  /\ ~call.open
  /\ described' = TRUE
  /\ values' = Publish(Described)
  /\ call' = [open |-> TRUE, before |-> Snapshot, pub |-> Heard(Described), tims |-> NoTimers,
              seeds |-> 0]
  /\ out' = Quiet
  /\ UNCHANGED <<linked, synced, codes, timers, seq, totals, lastTs, machine, motion, settings, hostVars>>

DescribeEnds ==
  LET said == [Silence EXCEPT ![Available] = IF synced THEN Unpublished ELSE "off"]
  IN  /\ call.open
      /\ values' = Publish(said)
      /\ Deliver(Over(call.pub, Heard(said), Unpublished), call.tims)
      /\ call' = Closed
      /\ out' = Quiet
      /\ UNCHANGED <<linked, synced, described, codes, timers, seq, totals, lastTs, machine, motion, settings>>

(* The next seed fails: nothing of the call is kept or delivered. *)
DescribeFails ==
  /\ call.open
  /\ RolledBack(call.before)
  /\ call' = Closed
  /\ out' = Quiet
  /\ UNCHANGED hostVars

-----------------------------------------------------------------------------
(* Input::Disconnected *)

(* Variants: only what a program owns becomes absent; settings do, too. *)
DisconnectSaysOwned(p) ==
  CASE p = Available      -> "off"
    [] p \in MachineProps -> IF values[p] = None THEN Unpublished ELSE None
    [] OTHER              -> Unpublished
DisconnectSaysAll(p) ==
  IF p = Available THEN "off" ELSE IF values[p] = None THEN Unpublished ELSE None

DisconnectSays(p) ==
  CASE p \in Switches  -> Unpublished
    [] p = Available   -> "off"
    [] OTHER           -> IF values[p] = None THEN Unpublished ELSE None

Survives(p) ==
  CASE p \in Switches  -> values[p]
    [] p = Available   -> "off"
    [] OTHER           -> None

Disconnected ==
  /\ ~call.open
  /\ linked' = FALSE
  /\ synced' = FALSE
  /\ codes' = Blank
  /\ values' = [p \in Props |-> Survives(p)]
  /\ machine' \in ResetStates
  /\ motion' = Reset
  /\ timers' = {}
  /\ Emit([p \in Props |-> DisconnectSays(p)],
          [n \in Timers |-> IF n \in timers THEN "cancel" ELSE "keep"])
  /\ out' = Quiet
  /\ UNCHANGED <<described, seq, totals, lastTs, settings>>

-----------------------------------------------------------------------------
(* Input::Message *)

Carried(new) == {c \in Codes : new[c] # None}

(* Variant: compared after the merge. *)
MovedLate(new) == {c \in Codes : new[c] # None /\ new[c] # Over(codes, new, None)[c]}
Moved(new) == {c \in Codes : new[c] # None /\ new[c] # codes[c]}

Pushed(channel) == channel = "active"
Changed(new, channel) == IF Pushed(channel) \/ ~synced THEN Carried(new) ELSE Moved(new)

(* Variants: a first readback is live; so is a snapshot that moves a code. *)
LiveReportFirst(new, channel) ==
  \/ Pushed(channel)
  \/ channel = "passive" /\ Moved(new) # {}
LiveReportCopy(new, channel) == Pushed(channel) \/ (synced /\ Moved(new) # {})
LiveReport(new, channel) ==
  \/ Pushed(channel)
  \/ synced /\ channel = "passive" /\ Moved(new) # {}

Merged(new) == Over(codes, new, None)

Counted(channel) ==
  \/ Pushed(channel)
  \/ channel = "passive" /\ AcceptPassive # None /\ settings[AcceptPassive] = TRUE

(* The sequence number stands in for a missing timestamp; nothing reads it *)
(* on a device without delta properties.                                   *)
NextSeq == IF DeltaProps = {} THEN seq ELSE seq + 1
Stamp(t) == IF t = None THEN NextSeq ELSE t

(* plan.rs accumulate *)
Accumulates(p, new, channel, ts) ==
  /\ Counted(channel)
  /\ new[DeltaCode[p]] # None
  /\ ts # lastTs[p]

(* Variant: a reading waits for all its codes. *)
AffectedByAll(p, new, channel) == ~synced \/ Depends[p] \subseteq Changed(new, channel)
Affected(p, new, channel) == ~synced \/ Depends[p] \cap Changed(new, channel) # {}

(* Variant: a copy fires events, too. *)
EventsOfAny(new, channel) ==
  {p \in EventProps : EventCode[p] \in Changed(new, channel) /\ new[EventCode[p]] \in Fires[p]}
EventsOf(new, channel) ==
  {p \in EventProps : /\ Pushed(channel)
                      /\ EventCode[p] \in Changed(new, channel)
                      /\ Merged(new)[EventCode[p]] \in Fires[p]}

Tracked(new, channel) == Update(motion, Merged(new), Changed(new, channel), LiveReport(new, channel), FALSE)

MessageSays(p, new, channel, ts, prog) ==
  CASE p \in Switches     -> DescribeSays(p)
    [] p = Available      -> IF synced THEN Unpublished ELSE "on"
    [] p \in MachineProps -> prog.values[p]
    [] p = MotionProp     -> IF Tracked(new, channel).state = Unpublished THEN DescribeSays(p)
                             ELSE Tracked(new, channel).state
    [] p \in PlanProps    -> IF Affected(p, new, channel) THEN Reading(p, Merged(new)) ELSE Unpublished
    [] p \in DeltaProps   -> IF Accumulates(p, new, channel, ts) THEN totals[p] + new[DeltaCode[p]]
                             ELSE IF ~synced THEN totals[p] ELSE Unpublished

MessageTimers(new, channel, prog) ==
  [n \in Timers |-> CASE n \in MachineTimers -> prog.timers[n]
                      [] MotionProp = None   -> "keep"
                      [] OTHER               -> Tracked(new, channel).timer]

Message(channel, new, t, prog) ==
  LET ts   == Stamp(t)
      said == [p \in Props |-> MessageSays(p, new, channel, ts, prog)]
      tims == MessageTimers(new, channel, prog)
      adds == {p \in DeltaProps : Accumulates(p, new, channel, ts)}
  IN  /\ call.open => call.seeds < MaxSeeds
      /\ NextSeq <= MaxSeq
      /\ linked' = (linked \/ ~synced)
      /\ synced' = TRUE
      /\ described' = TRUE
      /\ codes' = Merged(new)
      /\ seq' = NextSeq
      /\ totals' = [p \in DeltaProps |-> IF p \in adds THEN totals[p] + new[DeltaCode[p]] ELSE totals[p]]
      /\ lastTs' = [p \in DeltaProps |-> IF p \in adds THEN ts ELSE lastTs[p]]
      /\ prog.sends => linked'
      /\ machine' = prog.state
      /\ motion' = IF MotionProp = None THEN motion ELSE Tracked(new, channel).tracker
      /\ values' = Publish(said)
      /\ timers' = Rearmed(timers, tims)
      /\ Emit(Heard(said), Ordered(timers, tims))
      /\ out' = [channel |-> channel, sent |-> prog.sends, events |-> EventsOf(new, channel)]
      /\ UNCHANGED settings

(* A message without DPs only describes. *)
EmptyMessage ==
  /\ call.open => call.seeds < MaxSeeds
  /\ described' = TRUE
  /\ values' = Publish(Described)
  /\ Emit(Heard(Described), NoTimers)
  /\ out' = Quiet
  /\ UNCHANGED <<linked, synced, codes, timers, seq, totals, lastTs, machine, motion, settings>>

(* A program, a reading or the adapter's write fails: the call returns an *)
(* error and the driver is unchanged.                                      *)
MessageFails ==
  /\ ~call.open
  /\ out' = Quiet
  /\ UNCHANGED <<driverVars, call, hostVars>>

-----------------------------------------------------------------------------
(* Timers of the host and Input::Timer *)

Expire(n) ==
  /\ ~call.open
  /\ n \in armed
  /\ armed' = armed \ {n}
  /\ due' = due \cup {n}
  /\ out' = Quiet
  /\ UNCHANGED <<driverVars, call, seen, spent>>

TimerIgnored(n) ==
  /\ ~call.open
  /\ n \in due \ timers
  /\ due' = due \ {n}
  /\ out' = Quiet
  /\ UNCHANGED <<driverVars, call, seen, armed, spent>>

ProgramSays(prog) == [p \in Props |-> IF p \in MachineProps THEN prog.values[p] ELSE Unpublished]
ProgramTimers(prog) == [m \in Timers |-> IF m \in MachineTimers THEN prog.timers[m] ELSE "keep"]

(* The timer program of the converter, with the name taken off the list. *)
MachineTimer(n, prog) ==
  LET waiting == timers \ {n}
      said    == ProgramSays(prog)
      tims    == ProgramTimers(prog)
      orders  == Ordered(waiting, tims)
  IN  /\ ~call.open
      /\ n \in due \cap timers \cap MachineTimers
      /\ prog.sends => linked
      /\ machine' = prog.state
      /\ values' = Publish(said)
      /\ timers' = Rearmed(waiting, tims)
      /\ seen' = Over(seen, Heard(said), Unpublished)
      /\ armed' = Rearmed(armed, orders)
      /\ due' = (IF LateTimers THEN due ELSE {m \in due : orders[m] = "keep"}) \ {n}
      /\ spent' = {m \in spent : orders[m] = "keep"} \ {n}
      /\ out' = [Quiet EXCEPT !.sent = prog.sends]
      /\ UNCHANGED <<linked, synced, described, codes, seq, totals, lastTs, motion, settings, call>>

(* Its program or its effects fail: the driver keeps waiting for a timer   *)
(* the host no longer has.                                                 *)
MachineTimerFails(n) ==
  /\ ~call.open
  /\ n \in due \cap timers \cap MachineTimers
  /\ due' = due \ {n}
  /\ spent' = spent \cup {n}
  /\ out' = Quiet
  /\ UNCHANGED <<driverVars, call, seen, armed>>

Settled == Update(motion, codes, {}, FALSE, TRUE)

SettleDue ==
  LET said == [Silence EXCEPT ![MotionProp] = Settled.state]
  IN  /\ ~call.open
      /\ SettleTimer \in due \cap timers
      /\ timers' = timers \ {SettleTimer}
      /\ motion' = Settled.tracker
      /\ values' = Publish(said)
      /\ seen' = Over(seen, Heard(said), Unpublished)
      /\ due' = due \ {SettleTimer}
      /\ spent' = spent \ {SettleTimer}
      /\ out' = Quiet
      /\ UNCHANGED <<linked, synced, described, codes, seq, totals, lastTs, machine, settings, call, armed>>

-----------------------------------------------------------------------------
(* Input::Command *)

(* check, a missing write path, a link that is down or a failing write:    *)
(* whatever the reason, a Reject is the only effect.                       *)
Reject ==
  /\ ~call.open
  /\ out' = Quiet
  /\ UNCHANGED <<driverVars, call, hostVars>>

(* Variant: the link is believed up once the device is described. *)
ReachableOnce == described
Reachable == linked

(* A device setting needs no link. *)
WriteSetting(p, v) ==
  LET said == [Silence EXCEPT ![p] = v]
  IN  /\ ~call.open
      /\ settings' = [settings EXCEPT ![p] = v]
      /\ values' = Publish(said)
      /\ Emit(Heard(said), NoTimers)
      /\ out' = Quiet
      /\ UNCHANGED <<linked, synced, described, codes, timers, seq, totals, lastTs, machine, motion>>

WritePlan(p) ==
  /\ ~call.open
  /\ p \in Writable
  /\ Reachable
  /\ out' = [Quiet EXCEPT !.sent = TRUE]
  /\ UNCHANGED <<driverVars, call, hostVars>>

WriteMachine(prog) ==
  LET said == ProgramSays(prog)
      tims == ProgramTimers(prog)
  IN  /\ ~call.open
      /\ MachineProps # {}
      /\ Reachable
      /\ machine' = prog.state
      /\ values' = Publish(said)
      /\ timers' = Rearmed(timers, tims)
      /\ Emit(Heard(said), Ordered(timers, tims))
      /\ out' = [Quiet EXCEPT !.sent = prog.sends]
      /\ UNCHANGED <<linked, synced, described, codes, seq, totals, lastTs, motion, settings>>

-----------------------------------------------------------------------------
Init ==
  /\ linked = FALSE
  /\ synced = FALSE
  /\ described = FALSE
  /\ codes = Blank
  /\ values = [p \in Props |-> None]
  /\ timers = {}
  /\ seq = 0
  /\ totals = [p \in DeltaProps |-> 0]
  /\ lastTs = [p \in DeltaProps |-> None]
  /\ machine = InitialState
  /\ motion = Reset
  /\ settings = Defaults
  /\ call = Closed
  /\ seen = [p \in Props |-> None]
  /\ armed = {}
  /\ due = {}
  /\ spent = {}
  /\ out = Quiet

Channels == {"active", "passive", "state"}

Next ==
  \/ Connected
  \/ Describe
  \/ DescribeEnds
  \/ DescribeFails
  \/ Disconnected
  \/ \E channel \in Channels, new \in Reports, t \in Times \cup {None}, prog \in Programs :
       Message(channel, new, t, prog)
  \/ EmptyMessage
  \/ MessageFails
  \/ \E n \in Timers : Expire(n) \/ TimerIgnored(n) \/ MachineTimerFails(n)
  \/ \E n \in MachineTimers, prog \in Programs : MachineTimer(n, prog)
  \/ SettleDue
  \/ Reject
  \/ \E p \in Switches, v \in SettingValues : WriteSetting(p, v)
  \/ \E p \in Writable : WritePlan(p)
  \/ \E prog \in Programs : WriteMachine(prog)

Spec == Init /\ [][Next]_vars

-----------------------------------------------------------------------------
(* Every value has its type.                                               *)

TypeOf(p) ==
  CASE p = Available      -> {"on", "off"}
    [] p \in Switches     -> SettingValues
    [] p \in MachineProps -> Outcomes
    [] p = MotionProp     -> CoverStates
    [] p \in DeltaProps   -> Int
    [] OTHER              -> Readings

Typed(f, gaps) ==
  /\ f = [p \in Props |-> f[p]]
  /\ \A p \in Props : f[p] \in TypeOf(p) \cup gaps

StateTyped(d) ==
  /\ d.linked \in BOOLEAN
  /\ d.synced \in BOOLEAN
  /\ d.described \in BOOLEAN
  /\ d.codes \in Tables
  /\ Typed(d.values, {None})
  /\ d.timers \subseteq Timers
  /\ d.seq \in Nat
  /\ d.totals \in [DeltaProps -> Int]
  /\ d.lastTs \in [DeltaProps -> Int \cup {None}]
  /\ d.machine \in MachineStates
  /\ d.motion \in Trackers
  /\ d.settings \in [Switches -> SettingValues]

TypeOK ==
  /\ StateTyped(Snapshot)
  /\ call.open \in BOOLEAN
  /\ call.open => StateTyped(call.before)
  /\ call.seeds \in Nat
  /\ Typed(call.pub, {None, Unpublished})
  /\ call.tims \in [Timers -> TimerEffects]
  /\ Typed(seen, {None})
  /\ armed \subseteq Timers
  /\ due \subseteq Timers
  /\ spent \subseteq Timers
  /\ out.sent \in BOOLEAN

-----------------------------------------------------------------------------
(* Safety.                                                                 *)

(* The consumer that applies every Value and Absent holds what the driver  *)
(* holds, whatever failed or was rolled back on the way: no output is      *)
(* suppressed as a repetition of something that was never delivered        *)
(* (Driver::set against values, and the copy of runtime.rs).               *)
ConsumerAgrees == ~call.open => seen = values

(* While the device is synced the consumer sees it available, on a link    *)
(* that is up, with every property as the last known codes give it, not    *)
(* only those the last message touched (Plan::affected).                   *)
LiveIsCurrent ==
  ~call.open /\ synced =>
    /\ linked
    /\ seen[Available] = "on"
    /\ \A p \in PlanProps : seen[p] = Reading(p, codes)
    /\ \A p \in DeltaProps : seen[p] = totals[p]

(* Nothing read from a device survives its disconnection, so a stale value *)
(* is never shown as live; programs may set values of their own.           *)
OfflineIsBlank ==
  ~call.open /\ ~synced =>
    /\ seen[Available] # "on"
    /\ \A p \in PlanProps \cup DeltaProps \cup Trackable : seen[p] = None

(* A converter's timers and a tracked move do not outlive the link: no     *)
(* program runs by timer for a device that is gone.                        *)
OfflineIsQuiet == ~call.open /\ ~linked => timers = {} /\ motion.state \notin Directions

(* Device settings are shown as they are in force, across disconnects and  *)
(* descriptions that were rolled back.                                     *)
SettingsShown ==
  ~call.open => \A p \in Switches : seen[p] = settings[p] \/ (seen[p] = None /\ ~described)

(* Every timer the driver waits for is running or expired at the host, or  *)
(* was used up by a call that failed; and a host that forgets what it is   *)
(* told to cancel holds no other.                                          *)
TimersAgree ==
  ~call.open =>
    /\ timers \subseteq armed \cup due \cup spent
    /\ ~LateTimers => armed \cup due \cup spent \subseteq timers

(* The consumer sees a cover move exactly while the tracker holds it moving. *)
MotionShown ==
  ~call.open /\ MotionProp # None =>
    \A dir \in Directions : seen[MotionProp] = dir <=> motion.state = dir

(* A move that is shown will be settled: its timer runs or is due.         *)
MoveWillSettle ==
  ~call.open /\ MotionProp # None /\ Mode = "inferred" /\ Settle > 0 =>
    (seen[MotionProp] \in Directions <=> SettleTimer \in timers \cap (armed \cup due))

(* An inferred move has a target ahead of the position: arriving at it, or *)
(* at the end of the rail, ends the move whatever DP reported it.          *)
HeadsForTarget ==
  Mode = "inferred" /\ motion.state \in Directions =>
    /\ motion.target # None
    /\ Pos(codes) # None =>
         IF motion.state = "opening" THEN Pos(codes) < motion.target ELSE Pos(codes) > motion.target

(* A resting cover shows the state its last known position has.            *)
AtRestShowsPosition ==
  ~call.open /\ Mode = "inferred" /\ MotionProp # None /\ motion.state \notin Directions =>
    (seen[MotionProp] # None /\ Pos(codes) # None => seen[MotionProp] = Resting(Pos(codes)))

(* A copy of what the device last said: a snapshot, or a readback before   *)
(* anything else was heard.                                                *)
Copied == out'.channel = "state" \/ (out'.channel = "passive" /\ ~synced)

(* Copies of old reports start no motion and fire no event.                *)
CopiesStartNothing ==
  [][Copied => /\ out'.events = {}
               /\ (MotionProp # None /\ values'[MotionProp] \in Directions) =>
                     values'[MotionProp] = values[MotionProp]]_vars

(* A snapshot that moves a code of the cover shows the position's resting  *)
(* state, even in the middle of a move.                                    *)
Relevant == {Command, Position} \cup (IF Mode = "inferred" THEN {Target} ELSE {})
SnapshotRests ==
  [][(/\ MotionProp # None
      /\ out'.channel = "state"
      /\ \E c \in Relevant \ {None} : codes'[c] # codes[c]
      /\ Pos(codes') # None) => values'[MotionProp] = Resting(Pos(codes'))]_vars

(* A call sends to the device only while the link is up.                   *)
NoSendWhileDown == [][out'.sent => linked']_vars
=============================================================================
