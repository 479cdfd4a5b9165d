----------------------------- MODULE HostProofs -----------------------------
(***************************************************************************)
(* Proofs about two hosts of the engine.  The example's (Session): what a  *)
(* command that was carried out leaves behind, and which way a toggle      *)
(* turns the switch, whatever frames were under way.  The Python binding's *)
(* (Binding, named  here): that drivers find the rule packs they    *)
(* were made with, for any number of threads.                              *)
(***************************************************************************)
EXTENDS Session, Binding, SequenceTheorems, TLAPS

-----------------------------------------------------------------------------
(* A session.                                                              *)

(* What a channel says of the switch: nothing but `value`; nothing but     *)
(* `value` once it has said so.                                            *)
Only(channel, value) ==
  \A i \in 1..Len(channel) : channel[i] \in Values => channel[i] = value
Lasts(channel, value) ==
  \A i, j \in 1..Len(channel) :
    i <= j /\ channel[i] = value /\ channel[j] \in Values => channel[j] = value
Says(channel, value) == \E i \in 1..Len(channel) : channel[i] = value

(* No write is waited for: what is under way, and what the driver shows,   *)
(* is the device's value.                                                  *)
Settled ==
  phase \in {"connecting", "read", "idle"} =>
    /\ Only(wire, actual) /\ Only(inbox, actual)
    /\ shown \in {None, actual}
    /\ done \in {None, shown}

(* A write is: the device changes its value once, to the one that is       *)
(* wanted, and reports that it has it after it has it.                     *)
Turning ==
  phase \in {"write", "retry"} =>
    /\ want \in Values /\ done = None
    /\ Lasts(wire, want) /\ Lasts(inbox, want)
    /\ Says(wire, want) => actual = want
    /\ actual = want => Only(inbox, want)

Undisturbed ==
  /\ toggles => phase = "read"
  /\ phase = "ended" => done = None
  /\ ~operated => Settled /\ Turning

-----------------------------------------------------------------------------
(* Channels.                                                               *)

(* A channel from some frame on says no more than the whole channel.       *)
LEMMA LaterFrames ==
  ASSUME NEW S, NEW frames \in Seq(S), NEW from \in 0..Len(frames),
         NEW rest, rest = SubSeq(frames, from + 1, Len(frames)), NEW value
  PROVE  /\ rest \in Seq(S)
         /\ Only(frames, value) => Only(rest, value)
         /\ Lasts(frames, value) => Lasts(rest, value)
         /\ Says(rest, value) => Says(frames, value)
<1>1. Len(frames) \in Nat /\ from \in Nat
  BY LenProperties
<1>2. \A i \in (from + 1)..Len(frames) : frames[i] \in S
  BY <1>1, ElementOfSeq
<1>3. /\ rest \in Seq(S)
      /\ Len(rest) = Len(frames) - from
      /\ \A i \in 1..Len(rest) : rest[i] = frames[i + from]
  <2>1. /\ rest \in Seq(S)
        /\ Len(rest) = (IF from + 1 <= Len(frames) THEN Len(frames) - (from + 1) + 1 ELSE 0)
        /\ \A i \in 1..(Len(frames) - (from + 1) + 1) : rest[i] = frames[from + 1 + i - 1]
    BY <1>1, <1>2, SubSeqProperties
  <2> QED
    BY <1>1, <2>1
<1>4. \A i \in 1..Len(rest) : i + from \in 1..Len(frames)
  BY <1>1, <1>3
<1> QED
  BY <1>1, <1>3, <1>4 DEF Only, Lasts, Says

(* The frame that is taken, and those behind it.                           *)
LEMMA NextFrame ==
  ASSUME NEW S, NEW frames \in Seq(S), frames # <<>>, NEW value
  PROVE  /\ Head(frames) \in S /\ Tail(frames) \in Seq(S)
         /\ Says(frames, Head(frames))
         /\ Only(frames, value) =>
              /\ Only(Tail(frames), value)
              /\ Head(frames) \in Values => Head(frames) = value
         /\ Lasts(frames, value) =>
              /\ Lasts(Tail(frames), value)
              /\ Head(frames) = value => Only(Tail(frames), value)
         /\ Says(Tail(frames), value) => Says(frames, value)
<1>1. Len(frames) \in Nat /\ Len(frames) > 0
  BY LenProperties, EmptySeq
<1>2. /\ Head(frames) \in S /\ Tail(frames) \in Seq(S)
      /\ Len(Tail(frames)) = Len(frames) - 1
      /\ \A i \in 1..Len(Tail(frames)) : Tail(frames)[i] = frames[i + 1]
  BY HeadTailProperties
<1>3. Head(frames) = frames[1] /\ 1 \in 1..Len(frames)
  BY <1>1
<1>4. \A i \in 1..Len(Tail(frames)) : i + 1 \in 1..Len(frames) /\ 1 <= i + 1
  BY <1>1, <1>2
<1> QED
  BY <1>1, <1>2, <1>3, <1>4 DEF Only, Lasts, Says

(* A frame that is sent.                                                   *)
LEMMA SentFrame ==
  ASSUME NEW S, NEW frames \in Seq(S), NEW frame \in S, NEW value
  PROVE  /\ Append(frames, frame) \in Seq(S)
         /\ Only(frames, value) /\ (frame \in Values => frame = value) =>
              Only(Append(frames, frame), value)
         /\ Lasts(frames, value) /\ (Says(frames, value) /\ frame \in Values => frame = value) =>
              Lasts(Append(frames, frame), value)
         /\ Says(Append(frames, frame), value) => Says(frames, value) \/ frame = value
<1>1. Len(frames) \in Nat
  BY LenProperties
<1>2. /\ Append(frames, frame) \in Seq(S)
      /\ Len(Append(frames, frame)) = Len(frames) + 1
      /\ \A i \in 1..Len(frames) : Append(frames, frame)[i] = frames[i]
      /\ Append(frames, frame)[Len(frames) + 1] = frame
  BY AppendProperties
<1>3. \A i \in 1..Len(Append(frames, frame)) : i \in 1..Len(frames) \/ i = Len(frames) + 1
  BY <1>1, <1>2
<1>4. ASSUME Lasts(frames, value), Says(frames, value) /\ frame \in Values => frame = value
      PROVE  Lasts(Append(frames, frame), value)
  <2> SUFFICES ASSUME NEW i \in 1..Len(Append(frames, frame)),
                      NEW j \in 1..Len(Append(frames, frame)),
                      i <= j, Append(frames, frame)[i] = value,
                      Append(frames, frame)[j] \in Values
               PROVE  Append(frames, frame)[j] = value
    BY DEF Lasts
  <2>1. CASE j \in 1..Len(frames)
    BY <1>1, <1>2, <1>3, <1>4, <2>1 DEF Lasts
  <2>2. CASE j = Len(frames) + 1
    BY <1>1, <1>2, <1>3, <1>4, <2>2 DEF Says
  <2> QED
    BY <1>3, <2>1, <2>2
<1> QED
  BY <1>1, <1>2, <1>3, <1>4 DEF Only, Says

(* A channel that speaks of one value only.                                *)
LEMMA OneValue ==
  ASSUME NEW frames, NEW value \in Values, NEW other \in Values, Only(frames, value)
  PROVE  Lasts(frames, other) /\ (Says(frames, other) => other = value)
  BY DEF Only, Lasts, Says

LEMMA FlippedValue ==
  ASSUME NEW value \in Values
  PROVE  Flipped(value) \in Values /\ Flipped(value) # value
  BY DEF Flipped, Values

-----------------------------------------------------------------------------
(* Type correctness.                                                       *)

Frames == Reports \cup Failures
Commands == Values \cup {Query}

LEMMA SendsType ==
  ASSUME TypeOK, NEW command \in Commands, Sends(command)
  PROVE  inbox' \in Seq(Commands)
BY SentFrame DEF TypeOK, Sends, Commands

LEMMA ListenType ==
  ASSUME NEW frames \in Seq(Frames), Listen(frames)
  PROVE  wire' \in Seq(Frames)
BY LaterFrames DEF Listen

LEMMA ReadType ==
  ASSUME TypeOK, NEW toggle \in BOOLEAN, NEW frames \in Seq(Frames), Read(toggle, frames),
         {shown', done'} \subseteq Values \cup {None}, actual' \in Values, operated' \in BOOLEAN
  PROVE  TypeOK'
<1>1. inbox' \in Seq(Commands) /\ wire' \in Seq(Frames)
  BY SendsType, ListenType DEF Read, Commands
<1> QED
  BY <1>1 DEF TypeOK, Read, Waits, Commands, Frames

LEMMA WriteType ==
  ASSUME TypeOK, NEW value \in Values, NEW frames \in Seq(Frames), Write(value, frames),
         shown' \in Values \cup {None}, actual' \in Values, operated' \in BOOLEAN
  PROVE  TypeOK'
<1>1. inbox' \in Seq(Commands) /\ wire' \in Seq(Frames)
  BY SendsType, ListenType DEF Write, Commands
<1> QED
  BY <1>1 DEF TypeOK, Write, Waits, Commands, Frames

LEMMA EndType ==
  ASSUME TypeOK, End, actual' \in Values, operated' \in BOOLEAN
  PROVE  TypeOK'
<1>1. <<>> \in Seq(Frames)
  BY EmptySeq
<1> QED
  BY <1>1 DEF TypeOK, End, Frames

LEMMA DeviceType ==
  ASSUME TypeOK, UNCHANGED host, actual' \in Values, operated' \in BOOLEAN,
         inbox' \in Seq(Commands),
         NEW reports \in SUBSET Frames, UNCHANGED wire \/ Reply(reports)
  PROVE  TypeOK'
<1>1. wire \in Seq(Frames)
  BY DEF TypeOK, Frames
<1>2. CASE Reply(reports)
  <2>1. PICK report \in reports : wire' = Append(wire, report)
    BY <1>2 DEF Reply
  <2>2. wire' \in Seq(Frames)
    BY <1>1, <2>1, SentFrame
  <2> QED
    BY <2>2 DEF TypeOK, host, Commands, Frames
<1> QED
  BY <1>1, <1>2 DEF TypeOK, host, Commands, Frames

LEMMA ArriveType ==
  ASSUME TypeOK, Arrive
  PROVE  TypeOK'
<1> DEFINE frame == Head(wire)
           rest == Tail(wire)
<1>1. frame \in Frames /\ rest \in Seq(Frames)
  BY NextFrame DEF TypeOK, Frames, Arrive
<1>2. actual' \in Values /\ operated' \in BOOLEAN
  BY DEF TypeOK, Arrive
<1> HIDE DEF frame, rest
<1>3. CASE ReadReplied(frame, rest)
  <2> DEFINE value == IF frame \in Values THEN frame ELSE shown
  <2>1. value \in Values \cup {None}
    BY DEF TypeOK
  <2>2. CASE ~toggles
    BY <1>1, <1>2, <1>3, <2>1, <2>2 DEF ReadReplied, TypeOK, Frames
  <2>3. CASE toggles /\ value = None
    BY <1>2, <1>3, <2>3, EndType DEF ReadReplied
  <2>4. CASE toggles /\ value # None
    <3>1. Flipped(value) \in Values
      BY <2>1, <2>4, FlippedValue
    <3>2. Write(Flipped(value), rest) /\ shown' = value
      BY <1>3, <2>4 DEF ReadReplied
    <3> QED
      BY <1>1, <1>2, <2>1, <3>1, <3>2, WriteType
  <2> QED
    BY <2>2, <2>3, <2>4 DEF TypeOK
<1>4. CASE WriteReplied(frame, rest)
  <2>1. {shown', done'} \subseteq Values \cup {None}
    BY <1>4 DEF WriteReplied, Expected, TypeOK
  <2> QED
    BY <1>1, <1>2, <1>4, <2>1, ReadType DEF WriteReplied
<1>5. CASE Failed(frame)
  BY <1>2, <1>5, EndType DEF Failed
<1>6. CASE Ignored(frame, rest)
  BY <1>1, <1>2, <1>6 DEF Ignored, TypeOK, host, Frames
<1> QED
  BY <1>3, <1>4, <1>5, <1>6 DEF Arrive, frame, rest

LEMMA TypeKept ==
  ASSUME TypeOK, [Next]_vars
  PROVE  TypeOK'
<1> USE DEF Frames, Commands
<1>1. wire \in Seq(Frames) /\ actual \in Values /\ operated \in BOOLEAN
      /\ {shown, done} \subseteq Values \cup {None}
  BY DEF TypeOK
<1>2. CASE Connect
  BY <1>1, <1>2, ReadType DEF Connect
<1>3. CASE ConnectFails
  BY <1>1, <1>3, EndType DEF ConnectFails
<1>4. CASE CommandRead
  BY <1>1, <1>4, ReadType DEF CommandRead
<1>5. CASE CommandToggle
  BY <1>1, <1>5, ReadType DEF CommandToggle
<1>6. CASE CommandEnds
  BY <1>1, <1>6, EndType DEF CommandEnds
<1>7. ASSUME NEW value \in Values, CommandSet(value)
      PROVE  TypeOK'
  BY <1>1, <1>7, WriteType DEF CommandSet
<1>8. CASE Arrive
  BY <1>8, ArriveType
<1>9. CASE TimeoutRetries
  BY <1>9, SendsType DEF TimeoutRetries, TypeOK, AskOnce, Waits
<1>10. CASE TimeoutEnds
  BY <1>1, <1>10, EndType DEF TimeoutEnds
<1>11. CASE DeviceWrites
  <2>1. Head(inbox) \in Values /\ Tail(inbox) \in Seq(Commands)
    BY <1>11, NextFrame DEF DeviceWrites, TypeOK
  <2>2. {actual', "error"} \in SUBSET Frames /\ actual' \in Values
    BY <1>1, <1>11, <2>1 DEF DeviceWrites, Reports, Failures
  <2> QED
    BY <1>1, <1>11, <2>1, <2>2, DeviceType DEF DeviceWrites
<1>12. CASE DeviceAnswers
  <2>1. Tail(inbox) \in Seq(Commands)
    BY <1>12, NextFrame DEF DeviceAnswers, TypeOK
  <2>2. {actual, "others", "empty", "error"} \in SUBSET Frames
    BY <1>1 DEF Reports, Failures
  <2> QED
    BY <1>1, <1>12, <2>1, <2>2, DeviceType DEF DeviceAnswers
<1>13. CASE DeviceReports
  <2>1. {actual, "others"} \cup (Failures \ {"error"}) \in SUBSET Frames
    BY <1>1 DEF Reports, Failures
  <2> QED
    BY <1>1, <1>13, <2>1, DeviceType DEF DeviceReports, TypeOK
<1>14. CASE Operate
  <2>1. actual' \in Values
    BY <1>1, <1>14, FlippedValue DEF Operate
  <2>2. {actual'} \in SUBSET Frames
    BY <2>1 DEF Reports
  <2> QED
    BY <1>14, <2>1, <2>2, DeviceType DEF Operate, TypeOK
<1>15. CASE UNCHANGED vars
  BY <1>15 DEF TypeOK, vars, host
<1> QED
  BY <1>2, <1>3, <1>4, <1>5, <1>6, <1>7, <1>8, <1>9, <1>10, <1>11, <1>12, <1>13, <1>14, <1>15
  DEF Next

(* The host waits for what it sent only, and every frame and command under *)
(* way is one that the host or the device knows.                           *)
THEOREM SessionTypes == Spec => []TypeOK
<1>1. Init => TypeOK
  <2>1. <<>> \in Seq(Frames) /\ <<>> \in Seq(Commands)
    BY EmptySeq
  <2> QED
    BY <2>1 DEF Init, TypeOK, Frames, Commands
<1>2. TypeOK /\ [Next]_vars => TypeOK'
  BY TypeKept
<1> QED
  BY <1>1, <1>2, PTL DEF Spec

-----------------------------------------------------------------------------
(* What is under way after a read, a write and an end.                     *)

LEMMA ReadSettles ==
  ASSUME TypeOK, NEW toggle \in BOOLEAN, NEW frames \in Seq(Frames), Read(toggle, frames),
         Only(frames, actual'), Only(inbox, actual'),
         shown' \in {None, actual'}, done' \in {None, shown'}
  PROVE  Undisturbed'
<1>1. Only(wire', actual')
  BY LaterFrames DEF Read, Listen
<1>2. Query \in Commands /\ Query \notin Values /\ inbox \in Seq(Commands)
  BY DEF Commands, Query, Values, TypeOK
<1>3. Only(inbox', actual')
  BY <1>2, SentFrame DEF Read, Sends
<1>4. phase' = "read"
  BY DEF Read
<1> QED
  BY <1>1, <1>3, <1>4 DEF Undisturbed, Settled, Turning, Only

LEMMA WriteTurns ==
  ASSUME TypeOK, NEW value \in Values, NEW frames \in Seq(Frames), Write(value, frames),
         Only(frames, actual), Only(inbox, actual), UNCHANGED actual
  PROVE  Undisturbed'
<1>1. actual \in Values /\ inbox \in Seq(Commands) /\ value \in Commands
  BY DEF TypeOK, Commands
<1>2. Only(wire', actual)
  BY LaterFrames DEF Write, Listen
<1>3. Lasts(wire', value) /\ (Says(wire', value) => value = actual)
  BY <1>1, <1>2, OneValue
<1>4. inbox' = Append(inbox, value) /\ phase' = "write" /\ want' = value /\ done' = None /\ ~toggles'
  BY DEF Write, Sends
<1>5. Lasts(inbox, value) /\ (Says(inbox, value) => value = actual)
  BY <1>1, OneValue
<1>6. Lasts(inbox', value)
  BY <1>1, <1>4, <1>5, SentFrame
<1>7. actual = value => Only(inbox', value)
  BY <1>1, <1>4, SentFrame
<1> QED
  BY <1>3, <1>4, <1>6, <1>7 DEF Undisturbed, Settled, Turning, Only, Lasts, Says

LEMMA EndUndisturbed ==
  ASSUME End
  PROVE  Undisturbed'
BY DEF End, Undisturbed, Settled, Turning

(* Once somebody else has operated the device, only the host's own part    *)
(* is left to show.                                                        *)
LEMMA OperatedUndisturbed ==
  ASSUME operated',
         \/ \E toggle \in BOOLEAN, frames \in Seq(Frames) : Read(toggle, frames)
         \/ \E value \in Values, frames \in Seq(Frames) : Write(value, frames)
         \/ Undisturbed /\ UNCHANGED <<phase, toggles, done>>
  PROVE  Undisturbed'
BY DEF Undisturbed, Read, Write

-----------------------------------------------------------------------------
(* The device.                                                             *)

(* It takes a command, or does not, and sends a frame, or does not, without *)
(* a change of its value: what it sends of the switch is true.             *)
LEMMA DeviceSpeaks ==
  ASSUME TypeOK, Undisturbed, UNCHANGED <<host, actual, operated>>,
         \/ UNCHANGED inbox
         \/ inbox # <<>> /\ inbox' = Tail(inbox),
         NEW frame \in Frames, frame \in Values => frame = actual,
         wire' = wire \/ wire' = Append(wire, frame)
  PROVE  Undisturbed'
<1>1. wire \in Seq(Frames) /\ inbox \in Seq(Commands)
  BY DEF TypeOK, Frames, Commands
<1>2. /\ Only(inbox, actual) => Only(inbox', actual)
      /\ Only(inbox, want) => Only(inbox', want)
      /\ Lasts(inbox, want) => Lasts(inbox', want)
  <2>1. CASE UNCHANGED inbox
    BY <2>1
  <2>2. CASE inbox # <<>> /\ inbox' = Tail(inbox)
    BY <1>1, <2>2, NextFrame
  <2> QED
    BY <2>1, <2>2
<1>3. CASE operated'
  BY <1>3, OperatedUndisturbed DEF host
<1>4. CASE ~operated' /\ phase \in {"connecting", "read", "idle"}
  <2>1. Settled
    BY <1>4 DEF Undisturbed
  <2>2. Only(wire, actual) => Only(wire', actual)
    BY <1>1, SentFrame DEF Only
  <2> QED
    BY <1>2, <1>4, <2>1, <2>2 DEF Undisturbed, Settled, Turning, host, Only
<1>5. CASE ~operated' /\ phase \in {"write", "retry"}
  <2>1. Turning /\ want \in Values
    BY <1>5 DEF Undisturbed, Turning
  <2>2. Lasts(wire', want) /\ (Says(wire', want) => actual = want)
    <3>1. CASE wire' = wire
      BY <1>5, <2>1, <3>1 DEF Turning, Lasts, Says
    <3>2. CASE wire' = Append(wire, frame)
      BY <1>1, <1>5, <2>1, <3>2, SentFrame DEF Turning
    <3> QED
      BY <3>1, <3>2
  <2>3. want' = want /\ phase' = phase /\ done' = done /\ actual' = actual /\ toggles' = toggles
    BY DEF host
  <2>4. Lasts(inbox', want) /\ (actual = want => Only(inbox', want))
    BY <1>2, <1>5, <2>1 DEF Turning
  <2>5. done = None /\ ~toggles
    BY <1>5, <2>1 DEF Undisturbed, Turning
  <2> QED
    BY <1>5, <2>1, <2>2, <2>3, <2>4, <2>5 DEF Undisturbed, Settled, Turning
<1>6. CASE ~operated' /\ phase \notin {"connecting", "read", "idle", "write", "retry"}
  BY <1>6 DEF Undisturbed, Settled, Turning, host
<1> QED
  BY <1>3, <1>4, <1>5, <1>6

LEMMA WritesUndisturbed ==
  ASSUME TypeOK, Undisturbed, DeviceWrites
  PROVE  Undisturbed'
<1>1. /\ wire \in Seq(Frames) /\ inbox \in Seq(Commands) /\ actual \in Values
      /\ inbox # <<>> /\ Head(inbox) \in Values /\ inbox' = Tail(inbox)
      /\ actual' \in {Head(inbox), actual}
      /\ UNCHANGED host /\ UNCHANGED operated
  BY DEF TypeOK, Frames, Commands, DeviceWrites
<1>2. actual' \in Values /\ actual' \in Frames /\ "error" \in Frames /\ "error" \notin Values
  BY <1>1 DEF Frames, Reports, Failures, Values
<1>3. PICK frame \in {actual', "error"} : wire' = wire \/ wire' = Append(wire, frame)
  BY DEF DeviceWrites, Reply
<1>4. CASE operated'
  BY <1>1, <1>4, OperatedUndisturbed DEF host
<1>5. CASE actual' = actual
  BY <1>1, <1>2, <1>3, <1>5, DeviceSpeaks
<1>6. CASE ~operated' /\ actual' # actual
  <2>1. actual' = Head(inbox)
    BY <1>1, <1>6
  <2>2. ~Only(inbox, actual)
    BY <1>1, <1>6, <2>1, NextFrame
  <2>3. phase \notin {"connecting", "read", "idle"}
    BY <1>1, <1>6, <2>2 DEF Undisturbed, Settled
  <2>4. CASE phase \in {"write", "retry"}
    <3>1. /\ Turning /\ want \in Values /\ want' = want
          /\ phase' = phase /\ done' = done /\ toggles' = toggles
      BY <1>1, <1>6, <2>4 DEF Undisturbed, Turning, host
    <3>2. actual # want /\ ~Says(wire, want)
      BY <2>2, <2>4, <3>1 DEF Turning
    <3>3. Lasts(wire, want)
      BY <2>4, <3>1 DEF Turning
    <3>4. Lasts(wire', want) /\ (Says(wire', want) => actual' = want)
      <4>1. CASE wire' = wire
        BY <3>2, <3>3, <4>1
      <4>2. CASE wire' = Append(wire, frame)
        <5>1. frame \in Frames /\ (frame = want => actual' = want)
          BY <1>2, <3>1
        <5> QED
          BY <1>1, <3>2, <3>3, <4>2, <5>1, SentFrame
      <4> QED
        BY <1>3, <4>1, <4>2
    <3>5. Lasts(inbox', want) /\ (actual' = want => Only(inbox', want))
      BY <1>1, <2>1, <2>4, <3>1, NextFrame DEF Turning
    <3> QED
      BY <1>1, <1>6, <2>4, <3>1, <3>4, <3>5 DEF Undisturbed, Settled, Turning
  <2>5. CASE phase \notin {"write", "retry"}
    BY <1>1, <2>3, <2>5 DEF Undisturbed, Settled, Turning, host
  <2> QED
    BY <2>4, <2>5
<1> QED
  BY <1>4, <1>5, <1>6

-----------------------------------------------------------------------------
(* The host.                                                               *)

LEMMA ArriveUndisturbed ==
  ASSUME TypeOK, Undisturbed, Arrive
  PROVE  Undisturbed'
<1> DEFINE frame == Head(wire)
           rest == Tail(wire)
<1>1. /\ wire \in Seq(Frames) /\ actual \in Values /\ UNCHANGED <<actual, operated>>
      /\ frame \in Frames /\ rest \in Seq(Frames) /\ Says(wire, frame)
  BY NextFrame DEF TypeOK, Frames, Arrive
<1>2. /\ Only(wire, actual) => Only(rest, actual) /\ (frame \in Values => frame = actual)
      /\ Lasts(wire, want) => Lasts(rest, want) /\ (frame = want => Only(rest, want))
      /\ Says(rest, want) => Says(wire, want)
  BY NextFrame DEF TypeOK, Frames, Arrive
<1>3. ReadReplied(frame, rest) \/ WriteReplied(frame, rest) \/ Failed(frame) \/ Ignored(frame, rest)
  BY DEF Arrive
<1> HIDE DEF frame, rest
<1>4. CASE ReadReplied(frame, rest)
  <2> DEFINE value == IF frame \in Values THEN frame ELSE shown
  <2>1. phase = "read" /\ value \in Values \cup {None}
    BY <1>4 DEF TypeOK, ReadReplied
  <2>2. ~operated => Settled
    BY DEF Undisturbed
  <2>3. ~operated => /\ Only(wire, actual) /\ Only(rest, actual) /\ Only(inbox, actual)
                     /\ value \in {None, actual} /\ done \in {None, value}
    BY <1>2, <2>1, <2>2 DEF Settled
  <2>4. CASE ~toggles
    <3>1. /\ phase' = "idle" /\ shown' = value /\ wire' = rest
          /\ UNCHANGED <<toggles, want, done, inbox>>
      BY <1>4, <2>4 DEF ReadReplied
    <3> HIDE DEF value
    <3>2. ~operated => Only(wire', actual') /\ Only(inbox', actual')
      BY <1>1, <2>3, <3>1
    <3> QED
      BY <1>1, <2>3, <2>4, <3>1, <3>2 DEF Undisturbed, Settled, Turning
  <2>5. CASE toggles /\ value = None
    BY <1>4, <2>5, EndUndisturbed DEF ReadReplied
  <2>6. CASE toggles /\ value # None
    <3>1. Flipped(value) \in Values
      BY <2>1, <2>6, FlippedValue
    <3>2. Write(Flipped(value), rest)
      BY <1>4, <2>6 DEF ReadReplied
    <3>3. CASE operated
      BY <1>1, <3>1, <3>2, <3>3, OperatedUndisturbed
    <3>4. CASE ~operated
      BY <1>1, <2>3, <3>1, <3>2, <3>4, WriteTurns
    <3> QED
      BY <3>3, <3>4
  <2> QED
    BY <2>4, <2>5, <2>6
<1>5. CASE WriteReplied(frame, rest)
  <2>1. /\ phase \in {"write", "retry"} /\ frame = want /\ Read(FALSE, rest)
        /\ shown' = frame /\ done' = want
    BY <1>5 DEF WriteReplied, Expected
  <2>2. CASE operated
    BY <1>1, <2>1, <2>2, OperatedUndisturbed
  <2>3. CASE ~operated
    <3>1. Turning
      BY <2>3 DEF Undisturbed
    <3>2. actual = want /\ Only(rest, want) /\ Only(inbox, want)
      BY <1>1, <1>2, <2>1, <3>1 DEF Turning
    <3> QED
      BY <1>1, <2>1, <3>2, ReadSettles
  <2> QED
    BY <2>2, <2>3
<1>6. CASE Failed(frame)
  BY <1>6, EndUndisturbed DEF Failed
<1>7. CASE Ignored(frame, rest)
  <2>1. /\ wire' = rest /\ UNCHANGED <<phase, toggles, want, shown, done, actual, inbox, operated>>
    BY <1>1, <1>7 DEF Ignored, host
  <2>2. ~operated => (Settled /\ Turning)'
    <3> SUFFICES ASSUME ~operated
                 PROVE  (Settled /\ Turning)'
      OBVIOUS
    <3>1. Settled /\ Turning
      BY DEF Undisturbed
    <3>2. Settled'
      <4>1. Only(wire, actual) => Only(wire', actual')
        BY <1>2, <2>1
      <4> QED
        BY <2>1, <3>1, <4>1 DEF Settled
    <3>3. Turning'
      <4>1. /\ Lasts(wire, want) => Lasts(wire', want')
            /\ Says(wire', want') => Says(wire, want)
        BY <1>2, <2>1
      <4> QED
        BY <2>1, <3>1, <4>1 DEF Turning
    <3> QED
      BY <3>2, <3>3
  <2> QED
    BY <2>1, <2>2 DEF Undisturbed
<1> QED
  BY <1>3, <1>4, <1>5, <1>6, <1>7

LEMMA RetriesUndisturbed ==
  ASSUME TypeOK, Undisturbed, TimeoutRetries
  PROVE  Undisturbed'
<1>1. Query \in Commands /\ Query \notin Values /\ inbox \in Seq(Commands)
  BY DEF Commands, Query, Values, TypeOK
<1>2. /\ phase = "write" /\ phase' = "retry" /\ inbox' = Append(inbox, Query)
      /\ UNCHANGED <<toggles, want, shown, done, actual, wire, operated>>
  BY DEF TimeoutRetries, AskOnce, Sends
<1>3. want \in Values => /\ Only(inbox, want) => Only(inbox', want')
                         /\ Lasts(inbox, want) => Lasts(inbox', want')
  BY <1>1, <1>2, SentFrame
<1>4. ~operated => Turning'
  BY <1>2, <1>3 DEF Undisturbed, Turning
<1> QED
  BY <1>2, <1>4 DEF Undisturbed, Settled
LEMMA StepUndisturbed ==
  ASSUME TypeOK, Undisturbed, [Next]_vars
  PROVE  Undisturbed'
<1>1. /\ wire \in Seq(Frames) /\ inbox \in Seq(Commands) /\ actual \in Values
      /\ Undisturbed
  BY DEF TypeOK, Frames, Commands
<1>2. phase \in {"connecting", "idle"} /\ ~operated =>
        /\ Only(wire, actual) /\ Only(inbox, actual)
        /\ shown \in {None, actual} /\ done \in {None, shown}
  BY DEF Undisturbed, Settled
<1>3. ASSUME NEW toggle \in BOOLEAN, phase \in {"connecting", "idle"}, Read(toggle, wire),
             UNCHANGED <<shown, done, actual, operated>>
      PROVE  Undisturbed'
  <2>1. CASE operated
    BY <1>1, <1>3, <2>1, OperatedUndisturbed
  <2>2. CASE ~operated
    BY <1>1, <1>2, <1>3, <2>2, ReadSettles
  <2> QED
    BY <2>1, <2>2
<1>4. CASE Connect
  BY <1>3, <1>4 DEF Connect
<1>5. CASE ConnectFails \/ CommandEnds \/ TimeoutEnds
  BY <1>5, EndUndisturbed DEF ConnectFails, CommandEnds, TimeoutEnds
<1>6. CASE CommandRead
  BY <1>3, <1>6 DEF CommandRead, Prompt
<1>7. CASE CommandToggle
  BY <1>3, <1>7 DEF CommandToggle, Prompt
<1>8. ASSUME NEW value \in Values, CommandSet(value)
      PROVE  Undisturbed'
  <2>1. CASE operated
    BY <1>1, <1>8, <2>1, OperatedUndisturbed DEF CommandSet
  <2>2. CASE ~operated
    BY <1>1, <1>2, <1>8, <2>2, WriteTurns DEF CommandSet, Prompt
  <2> QED
    BY <2>1, <2>2
<1>9. CASE Arrive
  BY <1>9, ArriveUndisturbed
<1>10. CASE TimeoutRetries
  BY <1>10, RetriesUndisturbed
<1>11. CASE DeviceWrites
  BY <1>11, WritesUndisturbed
<1>12. CASE DeviceAnswers
  <2>1. PICK frame \in {actual, "others", "empty", "error"} :
          wire' = wire \/ wire' = Append(wire, frame)
    BY <1>12 DEF DeviceAnswers, Reply
  <2>2. frame \in Frames /\ (frame \in Values => frame = actual)
    BY <1>1 DEF Frames, Reports, Failures, Values
  <2>3. /\ inbox # <<>> /\ inbox' = Tail(inbox)
        /\ UNCHANGED <<host, actual, operated>>
    BY <1>12 DEF DeviceAnswers
  <2> QED
    BY <2>1, <2>2, <2>3, DeviceSpeaks
<1>13. CASE DeviceReports
  <2>1. PICK frame \in {actual, "others"} \cup (Failures \ {"error"}) : wire' = Append(wire, frame)
    BY <1>13 DEF DeviceReports, Reply
  <2>2. frame \in Frames /\ (frame \in Values => frame = actual)
    BY <1>1 DEF Frames, Reports, Failures, Values
  <2>3. UNCHANGED <<host, actual, operated>> /\ UNCHANGED inbox
    BY <1>13 DEF DeviceReports
  <2> QED
    BY <2>1, <2>2, <2>3, DeviceSpeaks
<1>14. CASE Operate
  BY <1>14, OperatedUndisturbed DEF Operate, host
<1>15. CASE UNCHANGED vars
  BY <1>15 DEF vars, host, Undisturbed, Settled, Turning
<1> QED
  BY <1>4, <1>5, <1>6, <1>7, <1>8, <1>9, <1>10, <1>11, <1>12, <1>13, <1>14, <1>15 DEF Next

LEMMA UndisturbedAlways == Spec => []Undisturbed
<1>1. Init => Undisturbed
  BY DEF Init, Undisturbed, Settled, Turning, Only
<1>2. TypeOK /\ Undisturbed /\ [Next]_vars => Undisturbed'
  BY StepUndisturbed
<1> QED
  BY <1>1, <1>2, SessionTypes, PTL DEF Spec

(* However many commands, reports and late answers are under way, a value  *)
(* that was written and confirmed stays the device's and the driver's, and *)
(* no report from before it is ever taken for an answer (main.rs, write    *)
(* and receive_dps): what a channel says of the switch changes once during *)
(* a write, and not at all without one.                                    *)
THEOREM WritesAreRead == Spec => []ReadsOwnWrites
<1>1. TypeOK /\ Undisturbed => ReadsOwnWrites
  BY SessionAssumption DEF TypeOK, Undisturbed, Settled, Turning, ReadsOwnWrites, Waits
<1> QED
  BY <1>1, SessionTypes, UndisturbedAlways, PTL

(* A toggle asks for the other value of what it has just read, which is    *)
(* what the device still has (main.rs, toggle).                            *)
THEOREM ToggleTurns == Spec => TogglesTurn
<1> DEFINE Turns == toggles /\ phase' = "write" /\ ~operated => want' # actual
<1>1. TypeOK /\ Undisturbed /\ [Next]_vars => [Turns]_vars
  <2> SUFFICES ASSUME TypeOK, Undisturbed, Next, toggles, phase' = "write", ~operated
               PROVE  want' # actual
    OBVIOUS
  <2>1. phase = "read" /\ Settled /\ actual \in Values
    BY DEF Undisturbed, TypeOK
  <2>2. Arrive
    BY <2>1 DEF Next, Connect, ConnectFails, CommandRead, CommandToggle, CommandEnds, CommandSet,
                Prompt, TimeoutRetries, TimeoutEnds, End, DeviceWrites, DeviceAnswers,
                DeviceReports, Operate, host
  <2>3. ReadReplied(Head(wire), Tail(wire))
    BY <2>1, <2>2 DEF Arrive, WriteReplied, Failed, End, Ignored
  <2> DEFINE value == IF Head(wire) \in Values THEN Head(wire) ELSE shown
  <2>4. value # None /\ want' = Flipped(value)
    BY <2>1, <2>3 DEF ReadReplied, End, Write
  <2>5. Head(wire) \in Values => Head(wire) = actual
    BY <2>1, <2>2, NextFrame DEF Arrive, TypeOK, Settled
  <2>6. value = actual
    BY <2>1, <2>4, <2>5 DEF Settled
  <2> QED
    BY <2>1, <2>4, <2>6, FlippedValue
<1> QED
  BY <1>1, SessionTypes, UndisturbedAlways, PTL DEF Spec, TogglesTurn

-----------------------------------------------------------------------------
(* The rule packs of the Python binding.                                   *)

(* What a thread that is making a driver, or releasing a pack, relies on:  *)
(* what it installed is there; nobody is to use what it removes.           *)
MadeWithPacks ==
  \A t \in Threads :
    call[t].at = "remember" /\ call[t].id \notin overlapped => call[t].id \in packs

ReleasedUnused ==
  \A t \in Threads :
    call[t].at = "remove" /\ call[t].id \notin overlapped =>
      /\ call[t].id \notin installed /\ users[call[t].id] = 0
      /\ ~Busy(call[t].id, Using)

PacksHeld ==
  CacheIsTrue /\ UsersFindPacks /\ MadeWithPacks /\ ReleasedUnused

LEMMA PythonCalls ==
  ASSUME NEW c \in Calls
  PROVE  c.at # "idle" => c.id \in Ids
BY DEF Calls, Idle

(* A thread names one of the host's ids, and only packs that passed        *)
(* validation are registered (native.py, register_rules).                  *)
THEOREM BindingTypes == PythonSpec => []PythonTypeOK
<1>1. PythonInit => PythonTypeOK
  BY BindingAssumption DEF PythonInit, PythonTypeOK, Calls
<1>2. PythonTypeOK /\ [PythonNext]_pythonVars => PythonTypeOK'
  <2> SUFFICES ASSUME PythonTypeOK, [PythonNext]_pythonVars
               PROVE  PythonTypeOK'
    OBVIOUS
  <2> USE DEF PythonTypeOK
  <2>1. /\ MaxUsers \in Nat /\ Valid \subseteq Ids
        /\ \A t \in Threads : call[t] \in Calls
        /\ \A t \in Threads : call[t].at # "idle" => call[t].id \in Ids
    BY PythonCalls, BindingAssumption
  <2>2. /\ Idle \in Calls
        /\ \A id \in Ids, at \in {"install", "remember", "use", "remove"} :
             [at |-> at, id |-> id] \in Calls
    BY DEF Calls
  <2>3. ASSUME NEW t \in Threads, NEW id \in Ids, Register(t, id) \/ Unregister(t, id)
        PROVE  PythonTypeOK'
    BY <2>1, <2>2, <2>3 DEF Register, Unregister, Becomes, Forgotten
  <2>4. ASSUME NEW t \in Threads, Install(t) \/ Remember(t)
        PROVE  PythonTypeOK'
    BY <2>1, <2>2, <2>4 DEF Install, Remember, Becomes, At
  <2>5. ASSUME NEW t \in Threads,
               InstallFails(t) \/ Open(t) \/ OpenFails(t) \/ Remove(t)
        PROVE  PythonTypeOK'
    BY <2>1, <2>2, <2>5
    DEF InstallFails, Open, OpenFails, Remove, Returns
  <2>6. ASSUME NEW t \in Threads, Create(t)
        PROVE  PythonTypeOK'
    <3>1. call[t].id \in Ids
      BY <2>1, <2>6 DEF Create, At
    <3>2. users' \in [Ids -> 0..MaxUsers]
      BY <2>1, <2>6, <3>1 DEF Create
    <3> QED
      BY <2>1, <2>2, <2>6, <3>2 DEF Create, Returns
  <2>7. ASSUME NEW id \in Ids, LastUse(id)
        PROVE  PythonTypeOK'
    <3>1. users' \in [Ids -> 0..MaxUsers]
      BY <2>1, <2>7 DEF LastUse
    <3> QED
      BY <2>7, <3>1 DEF LastUse
  <2>8. CASE UNCHANGED pythonVars
    BY <2>8 DEF pythonVars, Calls
  <2> QED
    BY <2>3, <2>4, <2>5, <2>6, <2>7, <2>8 DEF PythonNext
<1> QED
  BY <1>1, <1>2, PTL DEF PythonSpec

(* Each step of a thread keeps what every other thread relies on.          *)
LEMMA PacksHeldStep ==
  ASSUME PythonTypeOK, PacksHeld, [PythonNext]_pythonVars
  PROVE  PacksHeld'
<1> USE DEF PacksHeld, CacheIsTrue, UsersFindPacks, MadeWithPacks, ReleasedUnused
<1>1. /\ MaxUsers \in Nat
      /\ call \in [Threads -> Calls] /\ users \in [Ids -> 0..MaxUsers]
      /\ \A t \in Threads : call[t].at # "idle" => call[t].id \in Ids
      /\ Using = {"install", "remember", "use"}
      /\ Idle.at = "idle"
  BY PythonCalls, BindingAssumption DEF PythonTypeOK, Using, Idle
<1>2. ASSUME NEW t \in Threads, NEW id \in Ids, Register(t, id)
      PROVE  PacksHeld'
  BY <1>1, <1>2 DEF Register, Becomes, Known, Busy
<1>3. ASSUME NEW t \in Threads, NEW id \in Ids, Unregister(t, id)
      PROVE  PacksHeld'
  BY <1>1, <1>3 DEF Unregister, Becomes, Forgotten, Busy
<1>4. ASSUME NEW t \in Threads, Install(t)
      PROVE  PacksHeld'
  BY <1>1, <1>4 DEF Install, Becomes, At, Busy
<1>5. ASSUME NEW t \in Threads, Remember(t)
      PROVE  PacksHeld'
  BY <1>1, <1>5 DEF Remember, Becomes, At, Busy
<1>6. ASSUME NEW t \in Threads, InstallFails(t) \/ Open(t) \/ OpenFails(t)
      PROVE  PacksHeld'
  BY <1>1, <1>6
  DEF InstallFails, Open, OpenFails, Returns, Busy
<1>7. ASSUME NEW t \in Threads, Create(t)
      PROVE  PacksHeld'
  BY <1>1, <1>7 DEF Create, Returns, At, Busy
<1>8. ASSUME NEW t \in Threads, Remove(t)
      PROVE  PacksHeld'
  BY <1>1, <1>8 DEF Remove, Returns, At, Busy
<1>9. ASSUME NEW id \in Ids, LastUse(id)
      PROVE  PacksHeld'
  BY <1>1, <1>9 DEF LastUse, Busy
<1>10. CASE UNCHANGED pythonVars
  BY <1>10 DEF pythonVars, Busy
<1> QED
  BY <1>2, <1>3, <1>4, <1>5, <1>6, <1>7, <1>8, <1>9, <1>10 DEF PythonNext

LEMMA PacksHeldAlways == PythonSpec => []PacksHeld
<1>1. PythonInit => PacksHeld
  BY DEF PythonInit, Idle, PacksHeld, CacheIsTrue, UsersFindPacks,
         MadeWithPacks, ReleasedUnused, Busy
<1>2. PythonTypeOK /\ PacksHeld /\ [PythonNext]_pythonVars => PacksHeld'
  BY PacksHeldStep
<1> QED
  BY <1>1, <1>2, BindingTypes, PTL DEF PythonSpec

(* What the binding remembers as registered is registered, for any number  *)
(* of threads, with the exception that CacheIsTrue names: without a lock   *)
(* over the two steps of an install and of a release (native.py,           *)
(* register_rules and unregister_rules), it rests on a release being made  *)
(* when no driver uses the id.                                             *)
THEOREM CacheHolds == PythonSpec => []CacheIsTrue
<1>1. PacksHeld => CacheIsTrue
  BY DEF PacksHeld
<1> QED
  BY <1>1, PacksHeldAlways, PTL

(* A driver that goes on to name its rule pack in every request, and one   *)
(* that is about to, finds it registered (driver.py and native.py).        *)
THEOREM PacksFound == PythonSpec => []UsersFindPacks
<1>1. PacksHeld => UsersFindPacks
  BY DEF PacksHeld
<1> QED
  BY <1>1, PacksHeldAlways, PTL
=============================================================================
