------------------------------ MODULE Session -------------------------------
(***************************************************************************)
(* The example host (examples/rust/src/main.rs): a person at a prompt, a   *)
(* driver, and a device with one switch at the other end of a connection   *)
(* that keeps order.  Commands are sent without waiting; their replies     *)
(* come among the reports the device sends of its own.                     *)
(*                                                                         *)
(* The host listens only while it waits.  What arrives when it does not,   *)
(* or is still unread when it stops, nobody hears.                         *)
(***************************************************************************)
EXTENDS Integers, Sequences

CONSTANTS
  None,     \* unknown, or nothing
  MaxFrames \* bound: commands, and frames, under way at one time

ASSUME SessionAssumption ==
  /\ MaxFrames \in Nat \ {0}
  /\ None \notin {"on", "off"}

Values == {"on", "off"}
Unflipped(value) == value
Flipped(value) == CHOOSE other \in Values : other # value

(* Frames: a report with the switch's DP, one of other DPs, an empty one;  *)
(* a protocol error, frames the listener lost, the end of the connection.  *)
Reports == Values \cup {"others", "empty"}
Failures == {"error", "lagged", "closed"}
Query == "query"
Waits == {"read", "write", "retry"}

VARIABLES
  phase,   \* what the host is doing
  toggles, \* the read that is waited for begins a toggle command
  want,    \* the DPS of the write that is waited for
  shown,   \* the driver's value of the switch
  actual,  \* the device's
  inbox,   \* commands on their way to the device
  wire,    \* frames on their way to the host
  done,    \* the value of the last command that was carried out
  operated \* whether somebody else has operated the device

host == <<phase, toggles, want, shown, done>>
vars == <<host, actual, inbox, wire, operated>>

TypeOK ==
  /\ phase \in Waits \cup {"connecting", "idle", "ended"}
  /\ toggles \in BOOLEAN
  /\ {want, shown, done} \subseteq Values \cup {None}
  /\ actual \in Values
  /\ inbox \in Seq(Values \cup {Query})
  /\ wire \in Seq(Reports \cup Failures)
  /\ operated \in BOOLEAN

Init ==
  /\ phase = "connecting"
  /\ toggles = FALSE
  /\ want = None /\ shown = None /\ done = None
  /\ actual \in Values
  /\ inbox = <<>> /\ wire = <<>>
  /\ operated = FALSE

-----------------------------------------------------------------------------
(* The host.  A wait begins with a listener of its own: of the frames that *)
(* were under way, any first ones may have come before.                    *)

Sends(command) == inbox' = Append(inbox, command)

Listen(frames) == \E heardFrom \in 0..Len(frames) :
  wire' = SubSeq(frames, heardFrom + 1, Len(frames))

Read(toggle, frames) ==
  /\ phase' = "read"
  /\ toggles' = toggle
  /\ want' = None
  /\ Sends(Query)
  /\ Listen(frames)

Write(value, frames) ==
  /\ phase' = "write"
  /\ toggles' = FALSE
  /\ want' = value
  /\ done' = None
  /\ Sends(value)
  /\ Listen(frames)

(* Every error ends the session: the driver is told that it is             *)
(* disconnected, and the transport is closed.                              *)
End ==
  /\ phase' = "ended"
  /\ shown' = None /\ done' = None /\ want' = None /\ toggles' = FALSE
  /\ wire' = <<>>
  /\ UNCHANGED inbox

Connect ==
  /\ phase = "connecting"
  /\ Read(FALSE, wire)
  /\ UNCHANGED <<shown, done, actual, operated>>

ConnectFails ==
  /\ phase = "connecting"
  /\ End
  /\ UNCHANGED <<actual, operated>>

Prompt == phase = "idle" /\ Len(inbox) < MaxFrames

(* Also a command for another property that the driver rejects: the host   *)
(* goes on to read.                                                        *)
CommandRead ==
  /\ Prompt
  /\ Read(FALSE, wire)
  /\ UNCHANGED <<shown, done, actual, operated>>

CommandToggle ==
  /\ Prompt
  /\ Read(TRUE, wire)
  /\ UNCHANGED <<shown, done, actual, operated>>

CommandSet(value) ==
  /\ Prompt
  /\ Write(value, wire)
  /\ UNCHANGED <<shown, actual, operated>>

(* Quitting, a setting or timer this host does not execute.                *)
CommandEnds ==
  /\ phase = "idle"
  /\ End
  /\ UNCHANGED <<actual, operated>>

(* A frame that answers a read goes to the driver as a State message.      *)
ReadReplied(frame, rest) ==
  /\ phase = "read"
  /\ frame \in Values \cup {"others"}
  /\ LET value == IF frame \in Values THEN frame ELSE shown IN
     IF ~toggles
     THEN /\ phase' = "idle"
          /\ shown' = value
          /\ wire' = rest
          /\ UNCHANGED <<toggles, want, done, inbox>>
     ELSE IF value = None THEN End
     ELSE Write(Flipped(value), rest) /\ shown' = value

AnyReport(frame) == frame \in Values
Expected(frame) == frame = want

(* One that shows what was written goes there as a Passive message, and is *)
(* followed by a read.                                                     *)
WriteReplied(frame, rest) ==
  /\ phase \in {"write", "retry"}
  /\ Expected(frame)
  /\ shown' = frame
  /\ done' = want
  /\ Read(FALSE, rest)

Failed(frame) ==
  /\ phase \in Waits
  /\ frame \in Failures \/ (phase = "read" /\ frame = "empty")
  /\ End

Ignored(frame, rest) ==
  /\ phase # "read"
  /\ phase \in {"write", "retry"} => frame \in Reports /\ ~Expected(frame)
  /\ wire' = rest
  /\ UNCHANGED <<host, inbox>>

(* receive_dps takes the next frame; with no wait, nobody hears it.        *)
Arrive ==
  /\ wire # <<>>
  /\ LET frame == Head(wire)
         rest == Tail(wire)
     IN ReadReplied(frame, rest) \/ WriteReplied(frame, rest) \/ Failed(frame) \/ Ignored(frame, rest)
  /\ UNCHANGED <<actual, operated>>

WriteAgain == "write"
AskOnce == "retry"

(* A write whose report is late is asked for once; any other wait ends     *)
(* with the session.                                                       *)
TimeoutRetries ==
  /\ phase = "write"
  /\ phase' = AskOnce
  /\ Sends(Query)
  /\ UNCHANGED <<toggles, want, shown, done, actual, wire, operated>>

TimeoutEnds ==
  /\ phase \in {"read", "retry"}
  /\ End
  /\ UNCHANGED <<actual, operated>>

-----------------------------------------------------------------------------
(* The device.  It may acknowledge a write without a report, refuse it,    *)
(* and report whenever it likes; what it reports of the switch is true.    *)

Reply(reports) == \E report \in reports : wire' = Append(wire, report)
Room == phase # "ended" /\ Len(wire) < MaxFrames

DeviceWrites ==
  /\ inbox # <<>> /\ Head(inbox) \in Values
  /\ actual' \in {Head(inbox), actual}
  /\ inbox' = Tail(inbox)
  /\ \/ UNCHANGED wire
     \/ Room /\ Reply({actual', "error"})
  /\ UNCHANGED <<host, operated>>

DeviceAnswers ==
  /\ inbox # <<>> /\ Head(inbox) = Query
  /\ inbox' = Tail(inbox)
  /\ \/ UNCHANGED wire
     \/ Room /\ Reply({actual, "others", "empty", "error"})
  /\ UNCHANGED <<host, actual, operated>>

DeviceReports ==
  /\ Room
  /\ Reply({actual, "others"} \cup (Failures \ {"error"}))
  /\ UNCHANGED <<host, actual, inbox, operated>>

(* Somebody operates the switch by hand, or another controller does.       *)
Operate ==
  /\ Room
  /\ actual' = Flipped(actual)
  /\ Reply({actual'})
  /\ operated' = TRUE
  /\ UNCHANGED <<host, inbox>>

Next ==
  \/ Connect \/ ConnectFails
  \/ CommandRead \/ CommandToggle \/ CommandEnds
  \/ \E value \in Values : CommandSet(value)
  \/ Arrive \/ TimeoutRetries \/ TimeoutEnds
  \/ DeviceWrites \/ DeviceAnswers \/ DeviceReports \/ Operate

(* tokio's timers expire; nothing else is certain.                         *)
Spec ==
  /\ Init /\ [][Next]_vars
  /\ WF_vars(Connect \/ ConnectFails)
  /\ WF_vars(TimeoutRetries) /\ WF_vars(TimeoutEnds)

-----------------------------------------------------------------------------
(* A command that was carried out lasts: as long as nobody else operates   *)
(* the device, it has the value and the driver shows it, through every     *)
(* later read, whatever reports of before were under way (the filter of    *)
(* receive_dps and the comment at main.rs:155).                            *)
ReadsOwnWrites == ~operated /\ done # None => shown = done /\ actual = done

(* A toggle turns the switch, as long as nobody else operates it: what it  *)
(* read before is not from before an earlier command.                      *)
TogglesTurn ==
  [][toggles /\ phase' = "write" /\ ~operated => want' # actual]_vars

(* Every command comes to an end, by an answer or an error, whatever the   *)
(* device does or does not send.                                           *)
WaitsEnd == phase \in Waits \cup {"connecting"} ~> phase \in {"idle", "ended"}
=============================================================================
