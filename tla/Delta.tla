------------------------------- MODULE Delta --------------------------------
(***************************************************************************)
(* The accumulator of a delta property (plan.rs, accumulate; driver.rs,    *)
(* handle_inner and carry), the reports it hears and the drivers that take *)
(* its place.                                                              *)
(*                                                                         *)
(* The device numbers its reports of increments 1, 2, ...  A report may be *)
(* heard more than once, as a push, as a readback and in a snapshot.  Some *)
(* carry a Tuya timestamp, which orders them; the others are stamped with  *)
(* the number of messages the driver has had.                              *)
(***************************************************************************)
EXTENDS Integers

CONSTANTS
  None,       \* no timestamp
  MaxReports, \* bound: reports of one behaviour
  Inc(_),     \* the increment report i carries
  Stamped,    \* the reports with a Tuya timestamp
  Epoch,      \* Tuya timestamps are later than it and sequence numbers are not
  MaxSeq,     \* bound: messages of one behaviour
  Orderly     \* TRUE: no report is heard again once a later one was heard

Reports == 1..MaxReports

ASSUME DeltaAssumption ==
  /\ MaxReports \in Nat
  /\ \A i \in Reports : Inc(i) \in Int
  /\ Stamped \subseteq Reports
  /\ Epoch \in Nat
  /\ MaxSeq \in 0..Epoch
  /\ Orderly \in BOOLEAN
  /\ None \notin Int

VARIABLES
  seq,     \* Driver.seq
  accept,  \* DeltaSettings.accept_passive
  total,   \* Binding.total
  lastTs,  \* Binding.last_ts
  standby, \* Driver.seq of the driver opened to take its place, or None
  emitted, \* reports the device has made
  latest,  \* the latest report heard on any channel
  pushed,  \* reports heard as a push since the total started
  times    \* how often each report was added since the total started

driverVars == <<seq, accept, total, lastTs>>
vars == <<driverVars, standby, emitted, latest, pushed, times>>

Stamp(i) == Epoch + i

(* The report's own timestamp, or the message's number in place of one. *)
StampOf(i) == IF i \in Stamped THEN Stamp(i) ELSE seq + 1

Counted(channel) == channel = "active" \/ (channel = "passive" /\ accept)

(* Variant: every message is news. *)
AlwaysNew(ts) == TRUE
NewTs(ts) == ts # lastTs

Emit ==
  /\ emitted < MaxReports
  /\ emitted' = emitted + 1
  /\ UNCHANGED <<driverVars, standby, latest, pushed, times>>

(* Report i is heard.  Without a timestamp a report heard twice is two     *)
(* reports, so only one with a timestamp is heard again.                   *)
Deliverable(i) ==
  /\ i <= emitted
  /\ Orderly => i >= latest
  /\ i \notin Stamped => i > latest

Hear(i, channel) ==
  LET ts   == StampOf(i)
      adds == Counted(channel) /\ NewTs(ts)
  IN  /\ Deliverable(i)
      /\ seq < MaxSeq
      /\ seq' = seq + 1
      /\ total' = IF adds THEN total + Inc(i) ELSE total
      /\ lastTs' = IF adds THEN ts ELSE lastTs
      /\ times' = IF adds THEN [times EXCEPT ![i] = @ + 1] ELSE times
      /\ latest' = IF i > latest THEN i ELSE latest
      /\ pushed' = IF channel = "active" THEN pushed \cup {i} ELSE pushed
      /\ UNCHANGED <<accept, standby, emitted>>

(* A message without the delta DP. *)
HearOther ==
  /\ seq < MaxSeq
  /\ seq' = seq + 1
  /\ UNCHANGED <<accept, total, lastTs, standby, emitted, latest, pushed, times>>

WriteSetting(value) ==
  /\ accept' = value
  /\ UNCHANGED <<seq, total, lastTs, standby, emitted, latest, pushed, times>>

(* A driver that is to take over is opened and may be seeded with the      *)
(* snapshot before it does; the old one goes on until then.                *)
Open ==
  /\ standby = None
  /\ standby' = 0
  /\ UNCHANGED <<driverVars, emitted, latest, pushed, times>>

Seed ==
  /\ standby # None
  /\ standby < MaxSeq
  /\ standby' = standby + 1
  /\ UNCHANGED <<driverVars, emitted, latest, pushed, times>>

StartedOver ==
  /\ total' = 0
  /\ lastTs' = None
  /\ times' = [i \in Reports |-> 0]
  /\ pushed' = {}

(* Variant: a driver numbers its own messages. *)
OwnSeq(new, old) == new
CarriedSeq(new, old) == IF old > new THEN old ELSE new

(* Driver::carry, and the replacement.  The total is taken over only by a  *)
(* delta property of the same DPs.                                         *)
Carry(same, setting) ==
  /\ standby # None
  /\ standby' = None
  /\ seq' = CarriedSeq(standby, seq)
  /\ accept' = setting
  /\ IF same THEN UNCHANGED <<total, lastTs, pushed, times>> ELSE StartedOver
  /\ UNCHANGED <<emitted, latest>>

(* A new process that kept nothing of the old. *)
Restart(setting) ==
  /\ seq' = 0
  /\ accept' = setting
  /\ standby' = None
  /\ StartedOver
  /\ UNCHANGED <<emitted, latest>>

Init ==
  /\ seq = 0
  /\ accept \in BOOLEAN
  /\ total = 0
  /\ lastTs = None
  /\ standby = None
  /\ emitted = 0
  /\ latest = 0
  /\ pushed = {}
  /\ times = [i \in Reports |-> 0]

Channels == {"active", "passive", "state"}

Next ==
  \/ Emit
  \/ \E i \in Reports, channel \in Channels : Hear(i, channel)
  \/ HearOther
  \/ \E value \in BOOLEAN : WriteSetting(value)
  \/ Open
  \/ Seed
  \/ \E same, setting \in BOOLEAN : Carry(same, setting)
  \/ \E setting \in BOOLEAN : Restart(setting)

Spec == Init /\ [][Next]_vars

-----------------------------------------------------------------------------
TypeOK ==
  /\ seq \in 0..MaxSeq
  /\ accept \in BOOLEAN
  /\ total \in Int
  /\ lastTs \in Int \cup {None}
  /\ standby \in 0..MaxSeq \cup {None}
  /\ emitted \in 0..MaxReports
  /\ latest \in 0..MaxReports
  /\ pushed \subseteq Reports
  /\ times \in [Reports -> Nat]

(* Every report that was pushed is in the total: none is taken for a       *)
(* repetition of another, whatever was heard in between and whichever      *)
(* driver took over (docs/rust-engine.md, "compatible delta totals").      *)
NothingLost == \A i \in pushed : times[i] > 0

(* A report with a Tuya timestamp is added once at most, as                *)
(* docs/device-customization.md says of a report seen twice.               *)
AddsOnce == \A i \in Stamped : times[i] <= 1

(* The accumulator implements the meter of its documentation.              *)
Promise == INSTANCE Meter WITH Ids <- Reports, counted <- {i \in Reports : times[i] > 0}
KeepsPromise == Promise!Spec
=============================================================================
