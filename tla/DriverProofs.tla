---------------------------- MODULE DriverProofs ----------------------------
(***************************************************************************)
(* Proofs about one device driver, its host and its consumer, for any      *)
(* device, plan, converter and settings.                                   *)
(***************************************************************************)
EXTENDS Driver, MotionProofs

(* A call is a record of these fields. *)
CallShape ==
  /\ call = [open |-> call.open, before |-> call.before, pub |-> call.pub,
             tims |-> call.tims, seeds |-> call.seeds]
  /\ call.open \in BOOLEAN

(* Outputs of a seed are added to those of its call.                       *)
LEMMA EmitOpen ==
  ASSUME CallShape, call.open, NEW pub, NEW tims, Emit(pub, tims)
  PROVE  /\ CallShape' /\ call'.open
         /\ call'.before = call.before
         /\ call'.seeds = call.seeds + 1
         /\ call'.pub = Over(call.pub, pub, Unpublished)
         /\ call'.tims = Over(call.tims, tims, "keep")
         /\ UNCHANGED <<seen, armed, due, spent>>
BY DEF CallShape, Emit, hostVars

LEMMA EmitClosed ==
  ASSUME ~call.open, NEW pub, NEW tims, Emit(pub, tims)
  PROVE  Deliver(pub, tims) /\ UNCHANGED call
BY DEF Emit

LEMMA EmitShape ==
  ASSUME CallShape, NEW pub, NEW tims, Emit(pub, tims)
  PROVE  CallShape'
BY EmitOpen, EmitClosed DEF CallShape

-----------------------------------------------------------------------------
(* The consumer.  A call that is open has not been heard of: its outputs,  *)
(* laid over what the consumer holds, give the values, and the copy it     *)
(* falls back to has the consumer's.                                       *)
Valued(f) == f = [p \in Props |-> f[p]]

Agrees ==
  /\ CallShape
  /\ Valued(values) /\ Valued(seen)
  /\ ~call.open => seen = values
  /\ call.open => /\ Valued(call.pub)
                  /\ Over(seen, call.pub, Unpublished) = values
                  /\ call.before.values = seen

(* Suppressing what repeats the values, and nothing else, is invisible to  *)
(* a consumer that holds them.                                             *)
LEMMA HeardIsPublished ==
  ASSUME Valued(values), NEW said
  PROVE  Over(values, Heard(said), Unpublished) = Publish(said)
BY DEF Valued, Over, Heard, Publish

LEMMA OverValued ==
  ASSUME NEW old, Valued(old), NEW new
  PROVE  Valued(Over(old, new, Unpublished))
BY DEF Valued, Over

(* Outputs can be collected before they are delivered.                     *)
LEMMA OverOver ==
  ASSUME NEW f, NEW g, NEW h, Valued(f), Valued(g)
  PROVE  Over(f, Over(g, h, Unpublished), Unpublished) =
         Over(Over(f, g, Unpublished), h, Unpublished)
BY DEF Valued, Over

LEMMA PublishValued ==
  ASSUME NEW said
  PROVE  Valued(Publish(said)) /\ Valued(Heard(said)) /\ Valued(Silence)
BY DEF Valued, Publish, Heard, Silence

LEMMA EmitAgrees ==
  ASSUME Agrees, NEW said, NEW orders, values' = Publish(said), Emit(Heard(said), orders)
  PROVE  Agrees'
<1>1. Over(values, Heard(said), Unpublished) = values'
  BY HeardIsPublished DEF Agrees
<1>2. Valued(values)' /\ CallShape'
  BY PublishValued, EmitShape DEF Agrees, Valued
<1>3. CASE call.open
  <2>1. /\ call'.open /\ call'.before = call.before /\ seen' = seen
        /\ call'.pub = Over(call.pub, Heard(said), Unpublished)
    BY <1>3, EmitOpen DEF Agrees
  <2>2. Valued(call.pub) /\ Valued(seen) /\ Over(seen, call.pub, Unpublished) = values
    BY <1>3 DEF Agrees
  <2>3. Over(seen, call'.pub, Unpublished) = values'
    BY <1>1, <2>1, <2>2, OverOver
  <2>4. Valued(call'.pub)
    BY <2>1, <2>2, OverValued
  <2>5. QED
    BY <1>2, <1>3, <2>1, <2>2, <2>3, <2>4 DEF Agrees, Valued
<1>4. CASE ~call.open
  <2>1. call' = call /\ seen' = Over(seen, Heard(said), Unpublished)
    BY <1>4, EmitClosed DEF Deliver
  <2>2. seen' = values'
    BY <1>1, <1>4, <2>1 DEF Agrees
  <2>3. QED
    BY <1>2, <1>4, <2>1, <2>2 DEF Agrees, Valued
<1>5. QED
  BY <1>3, <1>4

LEMMA DirectAgrees ==
  ASSUME Agrees, ~call.open, NEW said, values' = Publish(said),
         seen' = Over(seen, Heard(said), Unpublished), call' = call
  PROVE  Agrees'
<1>1. Over(values, Heard(said), Unpublished) = values'
  BY HeardIsPublished DEF Agrees
<1>2. Valued(values')
  BY PublishValued
<1>3. seen' = values'
  BY <1>1 DEF Agrees
<1>4. QED
  BY <1>2, <1>3 DEF Agrees, Valued, CallShape

LEMMA SameAgrees ==
  ASSUME Agrees, UNCHANGED <<values, seen, call>>
  PROVE  Agrees'
BY DEF Agrees, Valued, CallShape

LEMMA DescribeAgrees == ASSUME Agrees, Describe PROVE Agrees'
<1>1. /\ ~call.open /\ values' = Publish(Described) /\ seen' = seen
      /\ call'.open = TRUE /\ call'.before = Snapshot /\ call'.pub = Heard(Described)
      /\ CallShape'
  BY DEF Describe, hostVars, CallShape
<1>2. Snapshot.values = seen /\ seen = values
  BY <1>1 DEF Snapshot, Agrees
<1>3. Over(seen, call'.pub, Unpublished) = values'
  BY <1>1, <1>2, HeardIsPublished DEF Agrees
<1>4. Valued(values') /\ Valued(call'.pub)
  BY <1>1, PublishValued
<1>5. QED
  BY <1>1, <1>2, <1>3, <1>4 DEF Agrees, Valued

LEMMA DescribeEndsAgrees == ASSUME Agrees, DescribeEnds PROVE Agrees'
<1> DEFINE said == [Silence EXCEPT ![Available] = IF synced THEN Unpublished ELSE "off"]
<1>1. /\ call.open /\ values' = Publish(said) /\ call' = Closed
      /\ seen' = Over(seen, Over(call.pub, Heard(said), Unpublished), Unpublished)
  BY DEF DescribeEnds, Deliver
<1>2. seen' = Over(values, Heard(said), Unpublished)
  BY <1>1, OverOver DEF Agrees
<1>3. seen' = values' /\ Valued(values')
  BY <1>1, <1>2, HeardIsPublished, PublishValued DEF Agrees
<1>4. CallShape' /\ ~call'.open
  BY <1>1 DEF CallShape, Closed
<1>5. QED
  BY <1>3, <1>4 DEF Agrees, Valued

LEMMA DescribeFailsAgrees == ASSUME Agrees, DescribeFails PROVE Agrees'
BY DEF DescribeFails, RolledBack, Commit, Agrees, CallShape, Closed, hostVars, Valued

LEMMA DisconnectedAgrees == ASSUME Agrees, Disconnected PROVE Agrees'
<1> DEFINE pub == [p \in Props |-> DisconnectSays(p)]
<1>1. ~call.open /\ values' = [p \in Props |-> Survives(p)]
  BY DEF Disconnected
<1>2. call' = call /\ seen' = Over(seen, pub, Unpublished)
  BY <1>1, EmitClosed DEF Disconnected, Deliver
<1>3. seen = values /\ Valued(values)
  BY <1>1 DEF Agrees
<1>4. "off" # Unpublished /\ None # Unpublished
  BY MotionAssumption, ValueAssumption
<1>5. seen' = [p \in Props |-> IF pub[p] = Unpublished THEN values[p] ELSE pub[p]]
  BY <1>2, <1>3 DEF Over, Valued
<1>6. ASSUME NEW p \in Props
      PROVE  (IF pub[p] = Unpublished THEN values[p] ELSE pub[p]) = Survives(p)
  BY <1>4 DEF DisconnectSays, Survives
<1>7. seen' = values'
  BY <1>1, <1>5, <1>6
<1>8. QED
  BY <1>1, <1>2, <1>7 DEF Agrees, Valued, CallShape

LEMMA AgreesStep == Agrees /\ [Next]_vars => Agrees'
<1> SUFFICES ASSUME Agrees, [Next]_vars PROVE Agrees'
  OBVIOUS
<1>1. CASE Connected
  BY <1>1, EmitAgrees DEF Connected
<1>2. CASE Describe
  BY <1>2, DescribeAgrees
<1>3. CASE DescribeEnds
  BY <1>3, DescribeEndsAgrees
<1>4. CASE DescribeFails
  BY <1>4, DescribeFailsAgrees
<1>5. CASE Disconnected
  BY <1>5, DisconnectedAgrees
<1>6. ASSUME NEW channel \in Channels, NEW new \in Reports, NEW t \in Times \cup {None},
             NEW prog \in Programs, Message(channel, new, t, prog)
      PROVE  Agrees'
  BY <1>6, EmitAgrees DEF Message
<1>7. CASE EmptyMessage
  BY <1>7, EmitAgrees DEF EmptyMessage
<1>8. CASE MessageFails \/ Reject
  BY <1>8, SameAgrees DEF MessageFails, Reject, driverVars, hostVars
<1>9. ASSUME NEW n \in Timers, Expire(n) \/ TimerIgnored(n) \/ MachineTimerFails(n) PROVE Agrees'
  BY <1>9, SameAgrees DEF Expire, TimerIgnored, MachineTimerFails, driverVars
<1>10. ASSUME NEW n \in MachineTimers, NEW prog \in Programs, MachineTimer(n, prog) PROVE Agrees'
  BY <1>10, DirectAgrees DEF MachineTimer
<1>11. CASE SettleDue
  BY <1>11, DirectAgrees DEF SettleDue
<1>12. ASSUME NEW p \in Switches, NEW v \in SettingValues, WriteSetting(p, v) PROVE Agrees'
  BY <1>12, EmitAgrees DEF WriteSetting
<1>13. ASSUME NEW p \in Writable, WritePlan(p) PROVE Agrees'
  BY <1>13, SameAgrees DEF WritePlan, driverVars, hostVars
<1>14. ASSUME NEW prog \in Programs, WriteMachine(prog) PROVE Agrees'
  BY <1>14, EmitAgrees DEF WriteMachine
<1>15. CASE UNCHANGED vars
  BY <1>15, SameAgrees DEF vars, driverVars, hostVars
<1>16. QED
  BY <1>1, <1>2, <1>3, <1>4, <1>5, <1>6, <1>7, <1>8, <1>9, <1>10, <1>11, <1>12, <1>13, <1>14,
     <1>15 DEF Next

(* The consumer holds what the driver holds, whatever was suppressed as a  *)
(* repetition, failed or was rolled back on the way.                       *)
THEOREM ConsumerAlwaysAgrees == Spec => []ConsumerAgrees
<1>1. Init => Agrees
  BY DEF Init, Agrees, CallShape, Closed, Valued
<1>2. Agrees => ConsumerAgrees
  BY DEF Agrees, ConsumerAgrees
<1>3. QED
  BY <1>1, <1>2, AgreesStep, PTL DEF Spec

-----------------------------------------------------------------------------
(* The timers.  While a call is open its orders are yet to reach the host: *)
(* After is what the host will hold then.  A host that forgets what it is  *)
(* told to cancel has no timer both running and due.                       *)
Held == armed \cup due \cup spent
After == {n \in Timers : call.tims[n] = "set" \/ (n \in Held /\ call.tims[n] = "keep")}

TimersHeld ==
  /\ CallShape
  /\ timers \subseteq Timers
  /\ ~LateTimers => armed \cap due = {}
  /\ ~call.open => /\ timers \subseteq Held
                   /\ ~LateTimers => Held \subseteq timers
  /\ call.open => /\ call.tims \in [Timers -> TimerEffects]
                  /\ timers \subseteq After
                  /\ ~LateTimers => After \subseteq timers
                  /\ call.before.timers \subseteq Held \cap Timers
                  /\ ~LateTimers => Held \subseteq call.before.timers

LEMMA OrderedType ==
  ASSUME NEW tims \in [Timers -> TimerEffects], NEW waiting
  PROVE  Ordered(waiting, tims) \in [Timers -> TimerEffects]
BY DEF Ordered, TimerEffects

LEMMA RearmedType ==
  ASSUME NEW waiting, NEW tims
  PROVE  Rearmed(waiting, tims) \subseteq Timers
BY DEF Rearmed

(* Every way a step leads to orders keeps the host's timers and the        *)
(* driver's in step.                                                       *)
LEMMA EmitTimers ==
  ASSUME TimersHeld, NEW pub, NEW tims \in [Timers -> TimerEffects],
         timers' = Rearmed(timers, tims), Emit(pub, Ordered(timers, tims))
  PROVE  TimersHeld'
<1> DEFINE orders == Ordered(timers, tims)
<1>1. CallShape'
  BY EmitShape DEF TimersHeld
<1>2. timers' \subseteq Timers
  BY RearmedType
<1>3. CASE call.open
  <2>1. /\ call'.open /\ call'.before = call.before
        /\ call'.tims = Over(call.tims, orders, "keep")
        /\ UNCHANGED <<armed, due, spent>>
    BY <1>3, EmitOpen DEF TimersHeld
  <2>2. call'.tims = [n \in Timers |-> IF orders[n] = "keep" THEN call.tims[n] ELSE orders[n]]
    BY <1>3, <2>1 DEF Over, TimersHeld
  <2>3. call'.tims \in [Timers -> TimerEffects]
    BY <1>3, <2>2, OrderedType DEF TimersHeld, TimerEffects
  <2>4. timers' \subseteq After'
    BY <1>3, <2>1, <2>2 DEF After, Held, Rearmed, Ordered, TimersHeld, TimerEffects
  <2>5. ~LateTimers => After' \subseteq timers'
    BY <1>3, <2>1, <2>2 DEF After, Held, Rearmed, Ordered, TimersHeld, TimerEffects
  <2>6. QED
    BY <1>1, <1>2, <1>3, <2>1, <2>3, <2>4, <2>5 DEF TimersHeld, Held
<1>4. CASE ~call.open
  <2>1. call' = call /\ Deliver(pub, orders)
    BY <1>4, EmitClosed
  <2>2. /\ armed' = {n \in Timers : orders[n] = "set" \/ (n \in armed /\ orders[n] # "cancel")}
        /\ due' = IF LateTimers THEN due ELSE due \ {n \in Timers : orders[n] # "keep"}
        /\ spent' = spent \ {n \in Timers : orders[n] # "keep"}
    BY <2>1 DEF Deliver, Rearmed
  <2>3. timers' \subseteq Held'
    BY <1>4, <2>2 DEF Held, Rearmed, Ordered, TimersHeld, TimerEffects
  <2>4. ~LateTimers => Held' \subseteq timers' /\ armed' \cap due' = {}
    BY <1>4, <2>2 DEF Held, Rearmed, Ordered, TimersHeld, TimerEffects
  <2>5. QED
    BY <1>1, <1>2, <1>4, <2>1, <2>3, <2>4 DEF TimersHeld
<1>5. QED
  BY <1>3, <1>4

LEMMA SameTimers ==
  ASSUME TimersHeld, UNCHANGED <<timers, armed, due, spent, call>>
  PROVE  TimersHeld'
BY DEF TimersHeld, CallShape, Held, After

(* A call without orders is one with orders to keep every timer.           *)
LEMMA KeepTimers ==
  ASSUME TimersHeld, NEW pub, timers' = timers, Emit(pub, NoTimers)
  PROVE  TimersHeld'
<1>1. NoTimers \in [Timers -> TimerEffects]
  BY DEF NoTimers, TimerEffects
<1>2. Rearmed(timers, NoTimers) = timers
  BY DEF Rearmed, NoTimers, TimersHeld
<1>3. Ordered(timers, NoTimers) = NoTimers
  BY DEF Ordered, NoTimers
<1>4. QED
  BY <1>1, <1>2, <1>3, EmitTimers

LEMMA ProgramTimersType ==
  ASSUME NEW prog \in Programs
  PROVE  ProgramTimers(prog) \in [Timers -> TimerEffects]
<1>1. prog.timers \in [MachineTimers -> TimerEffects]
  BY ValueAssumption DEF Program
<1>2. QED
  BY <1>1 DEF ProgramTimers, TimerEffects

LEMMA MessageTimersType ==
  ASSUME NEW new, NEW channel, NEW prog \in Programs
  PROVE  MessageTimers(new, channel, prog) \in [Timers -> TimerEffects]
<1>1. prog.timers \in [MachineTimers -> TimerEffects]
  BY ValueAssumption DEF Program
<1>2. Tracked(new, channel).timer \in TimerEffects
  BY UpdateTimer DEF Tracked
<1>3. QED
  BY <1>1, <1>2 DEF MessageTimers, TimerEffects

LEMMA DescribeTimers == ASSUME TimersHeld, Describe PROVE TimersHeld'
<1>1. /\ ~call.open /\ UNCHANGED <<timers, armed, due, spent>>
      /\ call' = [open |-> TRUE, before |-> Snapshot, pub |-> Heard(Described), tims |-> NoTimers,
                  seeds |-> 0]
  BY DEF Describe, hostVars
<1>2. Snapshot.timers = timers
  BY DEF Snapshot
<1>3. After' = Held \cap Timers
  BY <1>1 DEF After, Held, NoTimers
<1>4. QED
  BY <1>1, <1>2, <1>3 DEF TimersHeld, CallShape, Held, NoTimers, TimerEffects

LEMMA DescribeEndsTimers == ASSUME TimersHeld, DescribeEnds PROVE TimersHeld'
<1>1. call.open /\ call' = Closed /\ timers' = timers
  BY DEF DescribeEnds
<1>2. /\ armed' = Rearmed(armed, call.tims)
      /\ due' = IF LateTimers THEN due ELSE due \ {n \in Timers : call.tims[n] # "keep"}
      /\ spent' = spent \ {n \in Timers : call.tims[n] # "keep"}
  BY DEF DescribeEnds, Deliver
<1>3. timers' \subseteq Held'
  BY <1>1, <1>2 DEF TimersHeld, Held, After, Rearmed, TimerEffects
<1>4. ~LateTimers => Held' \subseteq timers' /\ armed' \cap due' = {}
  BY <1>1, <1>2 DEF TimersHeld, Held, After, Rearmed, TimerEffects
<1>5. QED
  BY <1>1, <1>3, <1>4 DEF TimersHeld, CallShape, Closed

LEMMA DescribeFailsTimers == ASSUME TimersHeld, DescribeFails PROVE TimersHeld'
<1>1. call.open /\ call' = Closed /\ timers' = call.before.timers /\ UNCHANGED <<armed, due, spent>>
  BY DEF DescribeFails, RolledBack, Commit, hostVars
<1>2. QED
  BY <1>1 DEF TimersHeld, Held, CallShape, Closed

(* A disconnect cancels every timer the driver waits for.                  *)
LEMMA DisconnectedTimers == ASSUME TimersHeld, Disconnected PROVE TimersHeld'
<1> DEFINE tims == [n \in Timers |-> IF n \in timers THEN "cancel" ELSE "keep"]
<1>1. /\ ~call.open /\ timers' = {}
      /\ Emit([p \in Props |-> DisconnectSays(p)], tims)
  BY DEF Disconnected
<1>2. Ordered(timers, tims) = tims
  BY DEF Ordered
<1>3. Rearmed(timers, tims) = {}
  BY DEF Rearmed, TimersHeld
<1>4. tims \in [Timers -> TimerEffects]
  BY DEF TimerEffects
<1>5. QED
  BY <1>1, <1>2, <1>3, <1>4, EmitTimers

LEMMA MachineTimerTimers ==
  ASSUME TimersHeld, NEW n \in MachineTimers, NEW prog \in Programs, MachineTimer(n, prog)
  PROVE  TimersHeld'
<1> DEFINE waiting == timers \ {n}
           tims    == ProgramTimers(prog)
           orders  == Ordered(waiting, tims)
<1>1. /\ ~call.open /\ call' = call
      /\ n \in due \cap timers
      /\ timers' = Rearmed(waiting, tims)
      /\ armed' = Rearmed(armed, orders)
      /\ due' = (IF LateTimers THEN due ELSE {m \in due : orders[m] = "keep"}) \ {n}
      /\ spent' = {m \in spent : orders[m] = "keep"} \ {n}
  BY DEF MachineTimer
<1>2. tims \in [Timers -> TimerEffects]
  BY ProgramTimersType
<1> HIDE DEF tims
<1>3. timers' \subseteq Held'
  BY <1>1, <1>2 DEF TimersHeld, Held, Rearmed, Ordered, TimerEffects
<1>4. ~LateTimers => Held' \subseteq timers' /\ armed' \cap due' = {}
  BY <1>1, <1>2 DEF TimersHeld, Held, Rearmed, Ordered, TimerEffects
<1>5. timers' \subseteq Timers
  BY <1>1, RearmedType
<1>6. QED
  BY <1>1, <1>3, <1>4, <1>5 DEF TimersHeld, CallShape

LEMMA TimersStep == TimersHeld /\ [Next]_vars => TimersHeld'
<1> SUFFICES ASSUME TimersHeld, [Next]_vars PROVE TimersHeld'
  OBVIOUS
<1>1. CASE Connected
  BY <1>1, KeepTimers DEF Connected
<1>2. CASE Describe
  BY <1>2, DescribeTimers
<1>3. CASE DescribeEnds
  BY <1>3, DescribeEndsTimers
<1>4. CASE DescribeFails
  BY <1>4, DescribeFailsTimers
<1>5. CASE Disconnected
  BY <1>5, DisconnectedTimers
<1>6. ASSUME NEW channel \in Channels, NEW new \in Reports, NEW t \in Times \cup {None},
             NEW prog \in Programs, Message(channel, new, t, prog)
      PROVE  TimersHeld'
  BY <1>6, EmitTimers, MessageTimersType DEF Message
<1>7. CASE EmptyMessage
  BY <1>7, KeepTimers DEF EmptyMessage
<1>8. CASE MessageFails \/ Reject
  BY <1>8, SameTimers DEF MessageFails, Reject, driverVars, hostVars
<1>9. ASSUME NEW n \in Timers, Expire(n) PROVE TimersHeld'
  <2>1. n \in armed /\ armed' = armed \ {n} /\ due' = due \cup {n} /\ UNCHANGED <<timers, spent, call>>
    BY <1>9 DEF Expire, driverVars
  <2>2. Held' = Held /\ ~call.open
    BY <1>9, <2>1 DEF Held, Expire
  <2>3. QED
    BY <2>1, <2>2 DEF TimersHeld, CallShape
<1>10. ASSUME NEW n \in Timers, TimerIgnored(n) PROVE TimersHeld'
  BY <1>10 DEF TimerIgnored, driverVars, TimersHeld, CallShape, Held
<1>11. ASSUME NEW n \in Timers, MachineTimerFails(n) PROVE TimersHeld'
  BY <1>11 DEF MachineTimerFails, driverVars, TimersHeld, CallShape, Held
<1>12. ASSUME NEW n \in MachineTimers, NEW prog \in Programs, MachineTimer(n, prog) PROVE TimersHeld'
  BY <1>12, MachineTimerTimers
<1>13. CASE SettleDue
  BY <1>13 DEF SettleDue, TimersHeld, CallShape, Held
<1>14. ASSUME NEW p \in Switches, NEW v \in SettingValues, WriteSetting(p, v) PROVE TimersHeld'
  BY <1>14, KeepTimers DEF WriteSetting
<1>15. ASSUME NEW p \in Writable, WritePlan(p) PROVE TimersHeld'
  BY <1>15, SameTimers DEF WritePlan, driverVars, hostVars
<1>16. ASSUME NEW prog \in Programs, WriteMachine(prog) PROVE TimersHeld'
  BY <1>16, EmitTimers, ProgramTimersType DEF WriteMachine
<1>17. CASE UNCHANGED vars
  BY <1>17, SameTimers DEF vars, driverVars, hostVars
<1>18. QED
  BY <1>1, <1>2, <1>3, <1>4, <1>5, <1>6, <1>7, <1>8, <1>9, <1>10, <1>11, <1>12, <1>13, <1>14,
     <1>15, <1>16, <1>17 DEF Next

(* Every timer the driver waits for is running or expired at the host, or  *)
(* was used up by a call that failed, and a host that forgets what it is   *)
(* told to cancel holds no other.                                          *)
THEOREM TimersAlwaysAgree == Spec => []TimersAgree
<1>1. Init => TimersHeld
  BY DEF Init, TimersHeld, CallShape, Closed, Held
<1>2. TimersHeld => TimersAgree
  BY DEF TimersHeld, TimersAgree, Held
<1>3. QED
  BY <1>1, <1>2, TimersStep, PTL DEF Spec

-----------------------------------------------------------------------------
(* The type of every variable of a driver, its host and its consumer.      *)

TypeInv == TypeOK /\ CallShape

(* What a step can say of the properties. *)
Sayable(said) == Typed(said, {None, Unpublished})

(* The kinds of properties are disjoint, so each has one type.             *)
LEMMA Kinds ==
  ASSUME NEW p
  PROVE  /\ p = Available => p \notin Switches \cup MachineProps \cup DeltaProps /\ p # MotionProp
         /\ p \in Switches => p \notin MachineProps \cup DeltaProps /\ p # MotionProp
         /\ p \in MachineProps => p \notin DeltaProps /\ p # MotionProp
         /\ p \in DeltaProps => p # MotionProp
         /\ p \in PlanProps => /\ p \notin Switches \cup MachineProps \cup DeltaProps \cup {Available}
                              /\ p # MotionProp
BY PropAssumption DEF Trackable

LEMMA TypeOfIs ==
  ASSUME NEW p
  PROVE  /\ p = Available => TypeOf(p) = {"on", "off"}
         /\ p \in Switches => TypeOf(p) = SettingValues
         /\ p \in MachineProps => TypeOf(p) = Outcomes
         /\ p = MotionProp => TypeOf(p) = CoverStates
         /\ p \in DeltaProps => TypeOf(p) = Int
         /\ p \in PlanProps => TypeOf(p) = Readings
<1> USE Kinds
<1>1. p = Available => TypeOf(p) = {"on", "off"}
  BY DEF TypeOf
<1>2. p \in Switches => TypeOf(p) = SettingValues
  BY DEF TypeOf
<1>3. p \in MachineProps => TypeOf(p) = Outcomes
  BY DEF TypeOf
<1>4. p = MotionProp => TypeOf(p) = CoverStates
  BY DEF TypeOf
<1>5. p \in DeltaProps => TypeOf(p) = Int
  BY DEF TypeOf
<1>6. p \in PlanProps => TypeOf(p) = Readings
  BY DEF TypeOf
<1>7. QED
  BY <1>1, <1>2, <1>3, <1>4, <1>5, <1>6

LEMMA NotAValue ==
  ASSUME NEW p \in Props
  PROVE  None \notin TypeOf(p) /\ Unpublished \notin TypeOf(p)
BY MotionAssumption, ValueAssumption DEF TypeOf, CoverStates, MotionStates, Directions

LEMMA PublishTyped ==
  ASSUME Typed(values, {None}), NEW said, Sayable(said)
  PROVE  Typed(Publish(said), {None}) /\ Sayable(Heard(said))
BY DEF Typed, Sayable, Publish, Heard

LEMMA OverTyped ==
  ASSUME NEW gaps \in {{None}, {None, Unpublished}}, NEW old, Typed(old, gaps), NEW new, Sayable(new)
  PROVE  Typed(Over(old, new, Unpublished), gaps)
BY DEF Typed, Sayable, Over

LEMMA SilenceTyped == Sayable(Silence) /\ NoTimers \in [Timers -> TimerEffects]
BY DEF Sayable, Typed, Silence, NoTimers, TimerEffects

-----------------------------------------------------------------------------
(* The driver's own state: StateTyped of the copy a call would fall back   *)
(* to.                                                                     *)
OwnTyped ==
  /\ linked \in BOOLEAN /\ synced \in BOOLEAN /\ described \in BOOLEAN
  /\ codes \in Tables
  /\ Typed(values, {None})
  /\ timers \subseteq Timers
  /\ seq \in Nat
  /\ totals \in [DeltaProps -> Int]
  /\ lastTs \in [DeltaProps -> Int \cup {None}]
  /\ machine \in MachineStates
  /\ motion \in Trackers
  /\ settings \in [Switches -> SettingValues]

LEMMA SnapshotTyped == StateTyped(Snapshot) <=> OwnTyped
BY DEF StateTyped, Snapshot, OwnTyped

CallTyped ==
  /\ CallShape
  /\ call.open => StateTyped(call.before)
  /\ call.seeds \in Nat
  /\ Sayable(call.pub)
  /\ call.tims \in [Timers -> TimerEffects]

HostTyped ==
  /\ Typed(seen, {None})
  /\ armed \subseteq Timers /\ due \subseteq Timers /\ spent \subseteq Timers

LEMMA TypeParts == TypeInv <=> OwnTyped /\ CallTyped /\ HostTyped /\ out.sent \in BOOLEAN
BY SnapshotTyped DEF TypeInv, TypeOK, CallTyped, HostTyped, Sayable, CallShape

LEMMA DeliverTyped ==
  ASSUME HostTyped, NEW pub, Sayable(pub), NEW orders, Deliver(pub, orders)
  PROVE  HostTyped'
<1>1. Typed(seen', {None})
  BY OverTyped DEF HostTyped, Deliver
<1>2. armed' \subseteq Timers /\ due' \subseteq Timers /\ spent' \subseteq Timers
  BY DEF HostTyped, Deliver, Rearmed
<1>3. QED
  BY <1>1, <1>2 DEF HostTyped, Typed

LEMMA EmitTyped ==
  ASSUME CallTyped, HostTyped, NEW pub, Sayable(pub),
         NEW orders \in [Timers -> TimerEffects], Emit(pub, orders)
  PROVE  CallTyped' /\ HostTyped'
<1>1. CASE call.open
  <2>1. /\ CallShape' /\ call'.open
        /\ call'.before = call.before
        /\ call'.seeds = call.seeds + 1
        /\ call'.pub = Over(call.pub, pub, Unpublished)
        /\ call'.tims = Over(call.tims, orders, "keep")
        /\ UNCHANGED <<seen, armed, due, spent>>
    BY <1>1, EmitOpen DEF CallTyped
  <2>2. Sayable(call'.pub)
    BY <2>1, OverTyped DEF CallTyped, Sayable
  <2>3. call'.tims \in [Timers -> TimerEffects]
    BY <2>1 DEF CallTyped, Over
  <2>4. QED
    BY <1>1, <2>1, <2>2, <2>3 DEF CallTyped, HostTyped, Sayable, Typed, StateTyped
<1>2. CASE ~call.open
  <2>1. Deliver(pub, orders) /\ call' = call
    BY <1>2, EmitClosed
  <2>2. QED
    BY <1>2, <2>1, DeliverTyped DEF CallTyped, CallShape, Sayable, Typed
<1>3. QED
  BY <1>1, <1>2

-----------------------------------------------------------------------------
(* What each kind of step says. *)

LEMMA DescribeSayable ==
  ASSUME OwnTyped, NEW p \in Props
  PROVE  DescribeSays(p) \in TypeOf(p) \cup {None, Unpublished}
<1>1. p \in Switches => settings[p] \in TypeOf(p)
  BY TypeOfIs DEF OwnTyped
<1>2. QED
  BY <1>1 DEF DescribeSays

LEMMA DescribedSayable == ASSUME OwnTyped PROVE Sayable(Described)
BY DescribeSayable DEF Described, Sayable, Typed

LEMMA DisconnectSayable ==
  /\ Sayable([p \in Props |-> DisconnectSays(p)])
  /\ [n \in Timers |-> IF n \in timers THEN "cancel" ELSE "keep"] \in [Timers -> TimerEffects]
<1>1. ASSUME NEW p \in Props PROVE DisconnectSays(p) \in TypeOf(p) \cup {None, Unpublished}
  BY TypeOfIs DEF DisconnectSays
<1>2. QED
  BY <1>1 DEF Sayable, Typed, TimerEffects

LEMMA SurvivesTyped ==
  ASSUME OwnTyped
  PROVE  Typed([p \in Props |-> Survives(p)], {None})
<1>1. ASSUME NEW p \in Props PROVE Survives(p) \in TypeOf(p) \cup {None}
  BY TypeOfIs DEF Survives, OwnTyped, Typed
<1>2. QED
  BY <1>1 DEF Typed

LEMMA ProgramSayable ==
  ASSUME NEW prog \in Programs
  PROVE  Sayable(ProgramSays(prog)) /\ prog.state \in MachineStates /\ prog.sends \in BOOLEAN
<1>1. prog \in Program
  BY ValueAssumption
<1>2. ASSUME NEW p \in MachineProps
      PROVE  prog.values[p] \in TypeOf(p) \cup {None, Unpublished}
  BY <1>1, TypeOfIs DEF Program
<1>3. QED
  BY <1>1, <1>2 DEF Program, ProgramSays, Sayable, Typed

(* A cover's codes, as known after a message, are positions.               *)
LEMMA MergedTable ==
  ASSUME OwnTyped, NEW new \in Reports
  PROVE  Merged(new) \in Tables /\ Known(Merged(new)) /\ Known(codes)
<1>1. Merged(new) \in Tables /\ codes \in Tables
  BY TableAssumption DEF OwnTyped, Merged
<1>2. QED
  BY <1>1, TableAssumption DEF Known

LEMMA TrackedTyped ==
  ASSUME OwnTyped, NEW new \in Reports, NEW channel
  PROVE  /\ Tracked(new, channel).tracker \in Trackers
         /\ Tracked(new, channel).state \in CoverStates \cup {None, Unpublished}
<1>1. None \notin Changed(new, channel)
  BY TableAssumption DEF Changed, Carried, Moved
<1>2. QED
  BY <1>1, MergedTable, UpdateType DEF Tracked, OwnTyped

LEMMA AddsTyped ==
  ASSUME OwnTyped, NEW p \in DeltaProps, NEW new \in Reports, NEW channel, NEW ts,
         Accumulates(p, new, channel, ts)
  PROVE  totals[p] + new[DeltaCode[p]] \in Int
<1>1. new[DeltaCode[p]] \in Int
  BY TableAssumption DEF Accumulates
<1>2. QED
  BY <1>1 DEF OwnTyped

LEMMA MessageSayable ==
  ASSUME OwnTyped, NEW new \in Reports, NEW channel, NEW ts, NEW prog \in Programs, NEW p \in Props
  PROVE  MessageSays(p, new, channel, ts, prog) \in TypeOf(p) \cup {None, Unpublished}
<1>1. CASE p \in Switches
  <2>1. MessageSays(p, new, channel, ts, prog) = DescribeSays(p)
    BY <1>1, Kinds DEF MessageSays
  <2>2. QED
    BY <2>1, DescribeSayable
<1>2. CASE p = Available
  <2>1. MessageSays(p, new, channel, ts, prog) \in {Unpublished, "on"}
    BY <1>2, Kinds DEF MessageSays
  <2>2. QED
    BY <1>2, <2>1, TypeOfIs
<1>3. CASE p \in MachineProps
  <2>1. prog.values[p] \in Outcomes \cup {None, Unpublished}
    BY <1>3, ValueAssumption DEF Program
  <2>2. MessageSays(p, new, channel, ts, prog) = prog.values[p]
    BY <1>3, Kinds DEF MessageSays
  <2>3. QED
    BY <1>3, <2>1, <2>2, TypeOfIs
<1>4. CASE p = MotionProp
  <2>1. p \notin Switches \cup MachineProps \cup DeltaProps \cup PlanProps \cup {Available}
    BY <1>4, Kinds
  <2>2. MessageSays(p, new, channel, ts, prog) \in
          {DescribeSays(p), Tracked(new, channel).state}
    BY <1>4, <2>1 DEF MessageSays
  <2>3. QED
    BY <1>4, <2>2, TypeOfIs, DescribeSayable, TrackedTyped
<1>5. CASE p \in PlanProps
  <2>1. Reading(p, Merged(new)) \in Readings \cup {None}
    BY <1>5, MergedTable, ReadingAssumption
  <2>2. MessageSays(p, new, channel, ts, prog) \in {Reading(p, Merged(new)), Unpublished}
    BY <1>5, Kinds DEF MessageSays
  <2>3. QED
    BY <1>5, <2>1, <2>2, TypeOfIs
<1>6. CASE p \in DeltaProps
  <2>1. p \notin PlanProps
    BY <1>6, Kinds
  <2>2. totals[p] \in Int
    BY <1>6 DEF OwnTyped
  <2>3. MessageSays(p, new, channel, ts, prog) =
          IF Accumulates(p, new, channel, ts) THEN totals[p] + new[DeltaCode[p]]
          ELSE IF ~synced THEN totals[p] ELSE Unpublished
    BY <1>6, <2>1, Kinds DEF MessageSays
  <2>4. QED
    BY <1>6, <2>2, <2>3, AddsTyped, TypeOfIs
<1>7. QED
  BY <1>1, <1>2, <1>3, <1>4, <1>5, <1>6 DEF Props, Trackable

LEMMA MessageSaysSayable ==
  ASSUME OwnTyped, NEW new \in Reports, NEW channel, NEW ts, NEW prog \in Programs
  PROVE  Sayable([p \in Props |-> MessageSays(p, new, channel, ts, prog)])
BY MessageSayable DEF Sayable, Typed

-----------------------------------------------------------------------------
(* Steps that publish through Emit need only say what is sayable and leave *)
(* the rest of the driver typed.                                           *)
RestTyped ==
  /\ linked \in BOOLEAN /\ synced \in BOOLEAN /\ described \in BOOLEAN
  /\ codes \in Tables
  /\ timers \subseteq Timers
  /\ seq \in Nat
  /\ totals \in [DeltaProps -> Int]
  /\ lastTs \in [DeltaProps -> Int \cup {None}]
  /\ machine \in MachineStates
  /\ motion \in Trackers
  /\ settings \in [Switches -> SettingValues]
  /\ out.sent \in BOOLEAN

LEMMA RestParts == TypeInv <=> RestTyped /\ Typed(values, {None}) /\ CallTyped /\ HostTyped
BY TypeParts DEF RestTyped, OwnTyped

LEMMA RestPartsPrimed ==
  (RestTyped /\ Typed(values, {None}) /\ CallTyped /\ HostTyped)' => TypeInv'
BY RestParts, PTL

LEMMA EmitTypeInv ==
  ASSUME TypeInv, RestTyped', NEW said, Sayable(said), values' = Publish(said),
         NEW orders \in [Timers -> TimerEffects], Emit(Heard(said), orders)
  PROVE  TypeInv'
<1>1. Typed(values, {None}) /\ CallTyped /\ HostTyped
  BY RestParts
<1>2. Typed(values', {None}) /\ Sayable(Heard(said))
  BY <1>1, PublishTyped
<1>3. CallTyped' /\ HostTyped'
  BY <1>1, <1>2, EmitTyped
<1>4. Typed(values, {None})'
  BY <1>2 DEF Typed, TypeOf
<1>5. QED
  BY <1>3, <1>4, RestPartsPrimed

LEMMA DirectTypeInv ==
  ASSUME TypeInv, RestTyped', NEW said, Sayable(said), values' = Publish(said),
         seen' = Over(seen, Heard(said), Unpublished), UNCHANGED call,
         armed' \subseteq Timers, due' \subseteq Timers, spent' \subseteq Timers
  PROVE  TypeInv'
<1>1. Typed(values, {None}) /\ CallTyped /\ HostTyped
  BY RestParts
<1>2. Typed(values', {None}) /\ Sayable(Heard(said))
  BY <1>1, PublishTyped
<1>3. Typed(seen', {None})
  BY <1>1, <1>2, OverTyped DEF HostTyped
<1>4. CallTyped'
  BY <1>1 DEF CallTyped, CallShape, StateTyped, Sayable, Typed
<1>5. Typed(values, {None})' /\ HostTyped'
  BY <1>2, <1>3 DEF Typed, TypeOf, HostTyped
<1>6. QED
  BY <1>4, <1>5, RestPartsPrimed

LEMMA SilentTypeInv ==
  ASSUME TypeInv, UNCHANGED <<driverVars, call, seen>>, out'.sent \in BOOLEAN,
         armed' \subseteq Timers, due' \subseteq Timers, spent' \subseteq Timers
  PROVE  TypeInv'
<1>1. RestTyped /\ Typed(values, {None}) /\ CallTyped /\ HostTyped
  BY RestParts
<1>2. RestTyped' /\ Typed(values, {None})' /\ HostTyped'
  BY <1>1 DEF RestTyped, driverVars, HostTyped, Typed, TypeOf
<1>3. CallTyped'
  BY <1>1 DEF CallTyped, CallShape, StateTyped, Sayable, Typed
<1>4. QED
  BY <1>2, <1>3, RestPartsPrimed

LEMMA QuietSends == Quiet.sent = FALSE /\ [Quiet EXCEPT !.sent = TRUE].sent = TRUE
BY DEF Quiet

LEMMA DescribeTypeInv == ASSUME TypeInv, Describe PROVE TypeInv'
<1>1. OwnTyped /\ CallTyped /\ HostTyped
  BY TypeParts
<1>2. /\ described' = TRUE /\ values' = Publish(Described)
      /\ call' = [open |-> TRUE, before |-> Snapshot, pub |-> Heard(Described),
                  tims |-> NoTimers, seeds |-> 0]
      /\ out'.sent = FALSE
      /\ UNCHANGED <<linked, synced, codes, timers, seq, totals, lastTs, machine, motion, settings>>
      /\ UNCHANGED <<seen, armed, due, spent>>
  BY QuietSends DEF Describe, hostVars
<1>3. Typed(Publish(Described), {None}) /\ Sayable(Heard(Described))
  BY <1>1, DescribedSayable, PublishTyped DEF OwnTyped
<1>4. StateTyped(Snapshot)
  BY <1>1, SnapshotTyped
<1>5. CallTyped'
  BY <1>2, <1>3, <1>4, SilenceTyped DEF CallTyped, CallShape, Sayable, Typed, StateTyped
<1>6. RestTyped' /\ Typed(values, {None})' /\ HostTyped'
  BY <1>1, <1>2, <1>3 DEF OwnTyped, RestTyped, HostTyped, Typed, TypeOf
<1>7. QED
  BY <1>5, <1>6, RestPartsPrimed

LEMMA ClosedTyped == ASSUME call' = Closed PROVE CallTyped'
BY SilenceTyped DEF Closed, CallTyped, CallShape, Sayable, Typed

LEMMA DescribeEndsTypeInv == ASSUME TypeInv, DescribeEnds PROVE TypeInv'
<1> DEFINE said == [Silence EXCEPT ![Available] = IF synced THEN Unpublished ELSE "off"]
           pub  == Over(call.pub, Heard(said), Unpublished)
<1>1. OwnTyped /\ CallTyped /\ HostTyped
  BY TypeParts
<1>2. /\ values' = Publish(said)
      /\ Deliver(pub, call.tims)
      /\ call' = Closed
      /\ out'.sent = FALSE
      /\ UNCHANGED <<linked, synced, described, codes, timers, seq, totals, lastTs, machine,
                     motion, settings>>
  BY QuietSends DEF DescribeEnds
<1>3. Sayable(said)
  BY TypeOfIs DEF Sayable, Typed, Silence
<1>4. Typed(Publish(said), {None}) /\ Sayable(Heard(said))
  BY <1>1, <1>3, PublishTyped DEF OwnTyped
<1>5. Sayable(pub)
  BY <1>1, <1>4, OverTyped DEF CallTyped, Sayable
<1>6. HostTyped'
  BY <1>1, <1>2, <1>5, DeliverTyped
<1>7. CallTyped'
  BY <1>2, ClosedTyped
<1>8. RestTyped' /\ Typed(values, {None})'
  BY <1>1, <1>2, <1>4 DEF OwnTyped, RestTyped, Typed, TypeOf
<1>9. QED
  BY <1>6, <1>7, <1>8, RestPartsPrimed

LEMMA DescribeFailsTypeInv == ASSUME TypeInv, DescribeFails PROVE TypeInv'
<1>1. StateTyped(call.before) /\ HostTyped
  BY TypeParts DEF DescribeFails, CallTyped
<1>2. Commit(call.before) /\ call' = Closed /\ out'.sent = FALSE /\ UNCHANGED <<seen, armed, due, spent>>
  BY QuietSends DEF DescribeFails, RolledBack, hostVars
<1>3. RestTyped' /\ Typed(values, {None})'
  BY <1>1, <1>2 DEF StateTyped, Commit, RestTyped, Typed, TypeOf
<1>4. CallTyped' /\ HostTyped'
  BY <1>1, <1>2, ClosedTyped DEF HostTyped, Typed, TypeOf
<1>5. QED
  BY <1>3, <1>4, RestPartsPrimed

LEMMA DisconnectedTypeInv == ASSUME TypeInv, Disconnected PROVE TypeInv'
<1>1. OwnTyped /\ CallTyped /\ HostTyped
  BY TypeParts
<1>2. /\ linked' = FALSE /\ synced' = FALSE /\ codes' = Blank
      /\ values' = [p \in Props |-> Survives(p)]
      /\ machine' \in ResetStates /\ motion' = Reset /\ timers' = {}
      /\ out'.sent = FALSE
      /\ UNCHANGED <<described, seq, totals, lastTs, settings>>
  BY QuietSends DEF Disconnected
<1>3. RestTyped'
  BY <1>1, <1>2, TableAssumption, ValueAssumption DEF RestTyped, OwnTyped, Reset, Trackers
<1>4. Typed(values, {None})'
  BY <1>1, <1>2, SurvivesTyped DEF Typed, TypeOf
<1>5. CallTyped' /\ HostTyped'
  BY <1>1, DisconnectSayable, EmitTyped DEF Disconnected
<1>6. QED
  BY <1>3, <1>4, <1>5, RestPartsPrimed

LEMMA MessageTypeInv ==
  ASSUME TypeInv, NEW channel \in Channels, NEW new \in Reports, NEW t \in Times \cup {None},
         NEW prog \in Programs, Message(channel, new, t, prog)
  PROVE  TypeInv'
<1> DEFINE ts   == Stamp(t)
           said == [p \in Props |-> MessageSays(p, new, channel, ts, prog)]
           tims == MessageTimers(new, channel, prog)
<1>1. OwnTyped
  BY TypeParts
<1>2. Sayable(said)
  BY <1>1, MessageSaysSayable
<1>3. Ordered(timers, tims) \in [Timers -> TimerEffects]
  BY MessageTimersType, OrderedType
<1>4. RestTyped'
  <2>1. linked' \in BOOLEAN /\ synced' \in BOOLEAN /\ described' \in BOOLEAN
    BY <1>1 DEF Message, OwnTyped
  <2>2. codes' \in Tables
    BY <1>1, MergedTable DEF Message
  <2>3. timers' \subseteq Timers
    BY RearmedType DEF Message
  <2>4. seq' \in Nat /\ ts \in Int
    BY <1>1, ValueAssumption DEF Message, NextSeq, Stamp, OwnTyped
  <2>5. totals' \in [DeltaProps -> Int]
    BY <1>1, AddsTyped DEF Message, OwnTyped
  <2>6. lastTs' \in [DeltaProps -> Int \cup {None}]
    BY <1>1, <2>4 DEF Message, OwnTyped
  <2>7. machine' \in MachineStates /\ out'.sent \in BOOLEAN
    BY ProgramSayable DEF Message
  <2>8. motion' \in Trackers
    BY <1>1, TrackedTyped DEF Message, OwnTyped
  <2>9. settings' \in [Switches -> SettingValues]
    BY <1>1 DEF Message, OwnTyped
  <2>10. QED
    BY <2>1, <2>2, <2>3, <2>4, <2>5, <2>6, <2>7, <2>8, <2>9 DEF RestTyped
<1>5. values' = Publish(said) /\ Emit(Heard(said), Ordered(timers, tims))
  BY DEF Message
<1>6. QED
  BY <1>2, <1>3, <1>4, <1>5, EmitTypeInv

LEMMA MachineTimerTypeInv ==
  ASSUME TypeInv, NEW n \in MachineTimers, NEW prog \in Programs, MachineTimer(n, prog)
  PROVE  TypeInv'
<1>1. RestTyped /\ HostTyped
  BY RestParts
<1>2. RestTyped'
  BY <1>1, ProgramSayable, RearmedType, QuietSends DEF MachineTimer, RestTyped, Quiet
<1>3. armed' \subseteq Timers /\ due' \subseteq Timers /\ spent' \subseteq Timers
  BY <1>1, RearmedType DEF MachineTimer, HostTyped
<1>4. QED
  BY <1>2, <1>3, ProgramSayable, DirectTypeInv DEF MachineTimer

LEMMA SettleDueTypeInv == ASSUME TypeInv, SettleDue PROVE TypeInv'
<1> DEFINE said == [Silence EXCEPT ![MotionProp] = Settled.state]
<1>1. OwnTyped /\ RestTyped /\ HostTyped
  BY TypeParts, RestParts
<1>2. Known(codes)
  BY <1>1, TableAssumption DEF OwnTyped, Known
<1>3. Settled.tracker \in Trackers /\ Settled.state \in CoverStates \cup {None, Unpublished}
  BY <1>1, <1>2, UpdateType DEF Settled, OwnTyped
<1>4. Sayable(said)
  BY <1>3, TypeOfIs DEF Sayable, Typed, Silence
<1>5. RestTyped'
  BY <1>1, <1>3, QuietSends DEF SettleDue, RestTyped
<1>6. armed' \subseteq Timers /\ due' \subseteq Timers /\ spent' \subseteq Timers
  BY <1>1 DEF SettleDue, HostTyped
<1>7. QED
  BY <1>4, <1>5, <1>6, DirectTypeInv DEF SettleDue

LEMMA WriteSettingTypeInv ==
  ASSUME TypeInv, NEW p \in Switches, NEW v \in SettingValues, WriteSetting(p, v)
  PROVE  TypeInv'
<1> DEFINE said == [Silence EXCEPT ![p] = v]
<1>1. Sayable(said)
  BY TypeOfIs DEF Sayable, Typed, Silence
<1>2. RestTyped'
  BY RestParts, QuietSends DEF WriteSetting, RestTyped
<1>3. QED
  BY <1>1, <1>2, SilenceTyped, EmitTypeInv DEF WriteSetting

LEMMA WriteMachineTypeInv ==
  ASSUME TypeInv, NEW prog \in Programs, WriteMachine(prog)
  PROVE  TypeInv'
<1>1. RestTyped'
  BY RestParts, ProgramSayable, RearmedType DEF WriteMachine, RestTyped, Quiet
<1>2. QED
  BY <1>1, ProgramSayable, ProgramTimersType, OrderedType, EmitTypeInv DEF WriteMachine

LEMMA TypeStep == TypeInv /\ [Next]_vars => TypeInv'
<1> SUFFICES ASSUME TypeInv, [Next]_vars PROVE TypeInv'
  OBVIOUS
<1>0. OwnTyped /\ RestTyped /\ HostTyped
  BY TypeParts, RestParts
<1>1. CASE Connected
  <2>1. RestTyped'
    BY <1>0, <1>1, QuietSends DEF Connected, RestTyped
  <2>2. QED
    BY <1>0, <1>1, <2>1, DescribedSayable, SilenceTyped, EmitTypeInv DEF Connected
<1>2. CASE Describe
  BY <1>2, DescribeTypeInv
<1>3. CASE DescribeEnds
  BY <1>3, DescribeEndsTypeInv
<1>4. CASE DescribeFails
  BY <1>4, DescribeFailsTypeInv
<1>5. CASE Disconnected
  BY <1>5, DisconnectedTypeInv
<1>6. ASSUME NEW channel \in Channels, NEW new \in Reports, NEW t \in Times \cup {None},
             NEW prog \in Programs, Message(channel, new, t, prog)
      PROVE  TypeInv'
  BY <1>6, MessageTypeInv
<1>7. CASE EmptyMessage
  <2>1. RestTyped'
    BY <1>0, <1>7, QuietSends DEF EmptyMessage, RestTyped
  <2>2. QED
    BY <1>0, <1>7, <2>1, DescribedSayable, SilenceTyped, EmitTypeInv DEF EmptyMessage
<1>8. CASE MessageFails \/ Reject
  BY <1>0, <1>8, SilentTypeInv, QuietSends DEF MessageFails, Reject, hostVars, HostTyped
<1>9. ASSUME NEW n \in Timers, Expire(n) \/ TimerIgnored(n) \/ MachineTimerFails(n) PROVE TypeInv'
  BY <1>0, <1>9, SilentTypeInv, QuietSends DEF Expire, TimerIgnored, MachineTimerFails, HostTyped
<1>10. ASSUME NEW n \in MachineTimers, NEW prog \in Programs, MachineTimer(n, prog) PROVE TypeInv'
  BY <1>10, MachineTimerTypeInv
<1>11. CASE SettleDue
  BY <1>11, SettleDueTypeInv
<1>12. ASSUME NEW p \in Switches, NEW v \in SettingValues, WriteSetting(p, v) PROVE TypeInv'
  BY <1>12, WriteSettingTypeInv
<1>13. ASSUME NEW p \in Writable, WritePlan(p) PROVE TypeInv'
  BY <1>0, <1>13, SilentTypeInv, QuietSends DEF WritePlan, hostVars, HostTyped
<1>14. ASSUME NEW prog \in Programs, WriteMachine(prog) PROVE TypeInv'
  BY <1>14, WriteMachineTypeInv
<1>15. CASE UNCHANGED vars
  BY <1>0, <1>15, SilentTypeInv DEF vars, hostVars, HostTyped, RestTyped
<1>16. QED
  BY <1>1, <1>2, <1>3, <1>4, <1>5, <1>6, <1>7, <1>8, <1>9, <1>10, <1>11, <1>12, <1>13, <1>14,
     <1>15 DEF Next

LEMMA TypeInit == Init => TypeInv
<1> SUFFICES ASSUME Init PROVE TypeInv
  OBVIOUS
<1>1. RestTyped
  <2>1. codes \in Tables /\ motion \in Trackers
    BY TableAssumption DEF Init, Reset, Trackers
  <2>2. machine \in MachineStates /\ settings \in [Switches -> SettingValues]
    BY ValueAssumption DEF Init
  <2>3. totals \in [DeltaProps -> Int] /\ lastTs \in [DeltaProps -> Int \cup {None}]
    BY DEF Init
  <2>4. out.sent \in BOOLEAN
    BY QuietSends DEF Init
  <2>5. linked \in BOOLEAN /\ synced \in BOOLEAN /\ described \in BOOLEAN
    BY DEF Init
  <2>6. timers \subseteq Timers /\ seq \in Nat
    BY DEF Init
  <2>7. QED
    BY <2>1, <2>2, <2>3, <2>4, <2>5, <2>6 DEF RestTyped
<1>2. Typed(values, {None}) /\ HostTyped
  BY DEF Init, Typed, HostTyped
<1>3. CallTyped
  BY SilenceTyped DEF Init, Closed, CallTyped, CallShape
<1>4. QED
  BY <1>1, <1>2, <1>3, RestParts

(* Every value has its type in every behaviour of a driver, its host and   *)
(* its consumer: a reading, an increment, a tracker's answer or a failed   *)
(* call never leaves a value of another kind.                              *)
THEOREM DriverTypeCorrect == Spec => []TypeOK
<1>1. TypeInv => TypeOK
  BY DEF TypeInv
<1>2. QED
  BY <1>1, TypeInit, TypeStep, PTL DEF Spec

-----------------------------------------------------------------------------
(***************************************************************************)
(* What the consumer is shown: live values are current, nothing is left of *)
(* a device that is gone, settings are shown as they are in force, and a   *)
(* cover is shown to move exactly while its tracker holds a move.          *)
(*                                                                         *)
(* The properties are stated of "seen" between calls, where it equals      *)
(* "values" (Agrees).  What a call must preserve is therefore stated of    *)
(* the driver itself, and of the copy an open call may fall back to.       *)
(***************************************************************************)

LiveOf(d) ==
  d.synced =>
    /\ d.linked
    /\ d.values[Available] = "on"
    /\ \A p \in PlanProps : d.values[p] = Reading(p, d.codes)
    /\ \A p \in DeltaProps : d.values[p] = d.totals[p]

BlankOf(d) ==
  ~d.synced =>
    /\ d.values[Available] # "on"
    /\ \A p \in PlanProps \cup DeltaProps \cup Trackable : d.values[p] = None

(* A driver that has not described its device has heard nothing of it.     *)
DescribedOf(d) == ~d.described => ~d.synced

QuietOf(d) == ~d.linked => d.timers = {}

SettingsOf(d) ==
  \A p \in Switches : d.values[p] = d.settings[p] \/ (d.values[p] = None /\ ~d.described)

MovesOf(d) ==
  IF MotionProp = None THEN d.motion.state \notin Directions
  ELSE \A dir \in Directions : d.values[MotionProp] = dir <=> d.motion.state = dir

ShownOf(d) ==
  /\ LiveOf(d)
  /\ BlankOf(d)
  /\ DescribedOf(d)
  /\ QuietOf(d)
  /\ SettingsOf(d)
  /\ MovesOf(d)

Shown == ShownOf(Snapshot)
ShownBefore == call.open => ShownOf(call.before)
ShownInv == Shown /\ ShownBefore

LEMMA SnapshotIs ==
  /\ Snapshot.linked = linked
  /\ Snapshot.synced = synced
  /\ Snapshot.described = described
  /\ Snapshot.codes = codes
  /\ Snapshot.values = values
  /\ Snapshot.timers = timers
  /\ Snapshot.totals = totals
  /\ Snapshot.motion = motion
  /\ Snapshot.settings = settings
BY DEF Snapshot

LEMMA SnapshotIsPrimed ==
  /\ Snapshot'.linked = linked'
  /\ Snapshot'.synced = synced'
  /\ Snapshot'.described = described'
  /\ Snapshot'.codes = codes'
  /\ Snapshot'.values = values'
  /\ Snapshot'.timers = timers'
  /\ Snapshot'.totals = totals'
  /\ Snapshot'.motion = motion'
  /\ Snapshot'.settings = settings'
BY DEF Snapshot

(* Every call is closed, or opens with what it may fall back to.           *)
LEMMA EmitBefore ==
  ASSUME CallShape, ShownBefore, NEW pub, NEW orders, Emit(pub, orders)
  PROVE  ShownBefore'
<1>1. CASE call.open
  <2>1. call'.before = call.before
    BY <1>1, EmitOpen
  <2>2. QED
    BY <1>1, <2>1 DEF ShownBefore, ShownOf, LiveOf, BlankOf, DescribedOf, QuietOf, SettingsOf, MovesOf
<1>2. CASE ~call.open
  BY <1>2, EmitClosed DEF ShownBefore
<1>3. QED
  BY <1>1, <1>2

(* What is not about the converter's properties or timers stands.          *)
LEMMA OthersStand ==
  ASSUME Shown, linked => linked',
         UNCHANGED <<synced, described, codes, totals, motion, settings>>,
         \A p \in Props \ MachineProps : values'[p] = values[p],
         linked' \/ timers' = {}
  PROVE  Shown'
<1>1. ASSUME NEW p, p \in PlanProps \cup DeltaProps \cup Trackable \cup Switches \cup {Available}
      PROVE  values'[p] = values[p]
  BY <1>1, Kinds DEF Props, Trackable
<1>2. LiveOf(Snapshot)'
  BY <1>1, SnapshotIs, SnapshotIsPrimed DEF Shown, ShownOf, LiveOf
<1>3. BlankOf(Snapshot)' /\ SettingsOf(Snapshot)'
  BY <1>1, SnapshotIs, SnapshotIsPrimed DEF Shown, ShownOf, BlankOf, SettingsOf
<1>4. DescribedOf(Snapshot)' /\ QuietOf(Snapshot)'
  BY SnapshotIs, SnapshotIsPrimed DEF Shown, ShownOf, DescribedOf, QuietOf
<1>5. MovesOf(Snapshot)'
  BY <1>1, SnapshotIs, SnapshotIsPrimed DEF Shown, ShownOf, MovesOf, Trackable
<1>6. QED
  BY <1>2, <1>3, <1>4, <1>5 DEF Shown, ShownOf

(* Steps that change neither what is shown nor the driver's timers. *)
LEMMA SilentShown ==
  ASSUME ShownInv, UNCHANGED <<driverVars, call>>
  PROVE  ShownInv'
<1>1. Shown'
  BY SnapshotIs, SnapshotIsPrimed DEF driverVars, ShownInv, Shown, ShownOf, LiveOf, BlankOf, DescribedOf,
     QuietOf, SettingsOf, MovesOf
<1>2. ShownBefore'
  BY DEF ShownInv, ShownBefore, ShownOf, LiveOf, BlankOf, DescribedOf, QuietOf, SettingsOf, MovesOf
<1>3. QED
  BY <1>1, <1>2 DEF ShownInv

(* The first description tells the settings and that a cover that reports  *)
(* its state has none yet; a later one tells nothing.                      *)
LEMMA DescribedShown ==
  ASSUME TypeInv, Shown, described' = TRUE, values' = Publish(Described), linked => linked',
         UNCHANGED <<synced, codes, timers, totals, motion, settings>>
  PROVE  Shown'
<1>1. ASSUME NEW p \in Props PROVE values'[p] = IF DescribeSays(p) = Unpublished THEN values[p] ELSE DescribeSays(p)
  BY DEF Publish, Described
<1>2. ASSUME NEW p \in PlanProps \cup DeltaProps \cup {Available} PROVE values'[p] = values[p]
  BY <1>1, Kinds DEF DescribeSays, Props
<1>3. ASSUME NEW p \in Switches PROVE values'[p] = IF described THEN values[p] ELSE settings[p]
  <2>1. settings[p] # Unpublished
    BY TypeParts, ValueAssumption DEF OwnTyped
  <2>2. QED
    BY <1>1, <2>1 DEF DescribeSays, Props
<1>4. MotionProp # None =>
        values'[MotionProp] = values[MotionProp] \/ (values'[MotionProp] = None /\ ~described)
  BY <1>1, Kinds DEF DescribeSays, Props, Trackable
<1>5. LiveOf(Snapshot)'
  BY <1>2, SnapshotIs, SnapshotIsPrimed DEF Shown, ShownOf, LiveOf
<1>6. BlankOf(Snapshot)'
  BY <1>2, <1>4, SnapshotIs, SnapshotIsPrimed DEF Shown, ShownOf, BlankOf, Trackable
<1>7. SettingsOf(Snapshot)'
  BY <1>3, SnapshotIs, SnapshotIsPrimed DEF Shown, ShownOf, SettingsOf
<1>8. DescribedOf(Snapshot)' /\ QuietOf(Snapshot)'
  BY SnapshotIs, SnapshotIsPrimed DEF Shown, ShownOf, DescribedOf, QuietOf
<1>9. MovesOf(Snapshot)'
  <2>1. CASE MotionProp = None \/ described
    BY <1>4, <2>1, SnapshotIs, SnapshotIsPrimed DEF Shown, ShownOf, MovesOf
  <2>2. CASE MotionProp # None /\ ~described
    <3>1. values[MotionProp] = None
      BY <2>2, SnapshotIs DEF Shown, ShownOf, DescribedOf, BlankOf, Trackable
    <3>2. values'[MotionProp] = values[MotionProp]
      BY <1>4, <2>2, <3>1
    <3>3. QED
      BY <2>2, <3>2, SnapshotIs, SnapshotIsPrimed DEF Shown, ShownOf, MovesOf
  <2>3. QED
    BY <2>1, <2>2
<1>10. QED
  BY <1>5, <1>6, <1>7, <1>8, <1>9 DEF Shown, ShownOf

LEMMA DescribeEndsShown == ASSUME TypeInv, ShownInv, DescribeEnds PROVE ShownInv'
<1> DEFINE said == [Silence EXCEPT ![Available] = IF synced THEN Unpublished ELSE "off"]
<1>1. /\ values' = Publish(said) /\ call' = Closed
      /\ UNCHANGED <<linked, synced, described, codes, timers, totals, motion, settings>>
  BY DEF DescribeEnds
<1>2. ASSUME NEW p \in Props
      PROVE  values'[p] = IF p = Available /\ ~synced THEN "off" ELSE values[p]
  BY <1>1, ValueAssumption DEF Publish, Silence
<1>3. ASSUME NEW p, p \in PlanProps \cup DeltaProps \cup Trackable \cup Switches
      PROVE  values'[p] = values[p]
  BY <1>2, <1>3, Kinds DEF Props, Trackable
<1>4. synced => values'[Available] = values[Available]
  BY <1>2 DEF Props
<1>5. ~synced => values'[Available] = "off"
  BY <1>2 DEF Props
<1> HIDE DEF said
<1>6. LiveOf(Snapshot)'
  BY <1>1, <1>3, <1>4, SnapshotIs, SnapshotIsPrimed DEF ShownInv, Shown, ShownOf, LiveOf
<1>7. BlankOf(Snapshot)'
  BY <1>1, <1>3, <1>5, SnapshotIs, SnapshotIsPrimed DEF ShownInv, Shown, ShownOf, BlankOf
<1>8. SettingsOf(Snapshot)' /\ DescribedOf(Snapshot)' /\ QuietOf(Snapshot)'
  BY <1>1, <1>3, SnapshotIs, SnapshotIsPrimed
     DEF ShownInv, Shown, ShownOf, SettingsOf, DescribedOf, QuietOf
<1>9. MovesOf(Snapshot)'
  BY <1>1, <1>3, SnapshotIs, SnapshotIsPrimed DEF ShownInv, Shown, ShownOf, MovesOf, Trackable
<1>10. QED
  BY <1>1, <1>6, <1>7, <1>8, <1>9 DEF ShownInv, Shown, ShownOf, ShownBefore, Closed

LEMMA DescribeFailsShown == ASSUME ShownInv, DescribeFails PROVE ShownInv'
<1>1. ShownOf(call.before) /\ Commit(call.before) /\ call' = Closed
  BY DEF DescribeFails, RolledBack, ShownInv, ShownBefore
<1>2. Shown'
  BY <1>1, SnapshotIsPrimed DEF Commit, Shown, ShownOf, LiveOf, BlankOf, DescribedOf, QuietOf, SettingsOf,
     MovesOf
<1>3. QED
  BY <1>1, <1>2 DEF ShownInv, ShownBefore, Closed

LEMMA DisconnectedShown == ASSUME TypeInv, ShownInv, Disconnected PROVE ShownInv'
<1>1. /\ linked' = FALSE /\ synced' = FALSE /\ timers' = {} /\ motion' = Reset
      /\ values' = [p \in Props |-> Survives(p)]
      /\ UNCHANGED <<described, settings>>
  BY DEF Disconnected
<1>2. ASSUME NEW p \in Switches PROVE values'[p] = values[p]
  BY <1>1, Kinds DEF Survives, Props
<1>3. ASSUME NEW p, p \in PlanProps \cup DeltaProps \cup Trackable PROVE values'[p] = None
  BY <1>1, <1>3, Kinds DEF Survives, Props, Trackable
<1>4. values'[Available] = "off"
  BY <1>1, Kinds DEF Survives, Props
<1>5. LiveOf(Snapshot)' /\ DescribedOf(Snapshot)' /\ QuietOf(Snapshot)'
  BY <1>1, SnapshotIsPrimed DEF LiveOf, DescribedOf, QuietOf
<1>6. BlankOf(Snapshot)'
  BY <1>1, <1>3, <1>4, SnapshotIsPrimed DEF BlankOf
<1>7. SettingsOf(Snapshot)'
  BY <1>1, <1>2, SnapshotIs, SnapshotIsPrimed DEF ShownInv, Shown, ShownOf, SettingsOf
<1>8. MovesOf(Snapshot)'
  <2>1. MotionProp # None => values'[MotionProp] = None
    BY <1>3 DEF Trackable
  <2>2. motion'.state = None /\ None \notin Directions
    BY <1>1, MotionAssumption DEF Reset, Directions
  <2>3. QED
    BY <2>1, <2>2, SnapshotIsPrimed DEF MovesOf
<1>9. ShownBefore'
  BY EmitBefore DEF Disconnected, ShownInv, TypeInv
<1>10. QED
  BY <1>5, <1>6, <1>7, <1>8, <1>9 DEF ShownInv, Shown, ShownOf

LEMMA WriteSettingShown ==
  ASSUME TypeInv, ShownInv, NEW p \in Switches, NEW v \in SettingValues, WriteSetting(p, v)
  PROVE  ShownInv'
<1> DEFINE said == [Silence EXCEPT ![p] = v]
<1>1. /\ values' = Publish(said) /\ settings' = [settings EXCEPT ![p] = v]
      /\ UNCHANGED <<linked, synced, described, codes, timers, totals, motion>>
  BY DEF WriteSetting
<1>2. ASSUME NEW q \in Props PROVE values'[q] = IF q = p THEN v ELSE values[q]
  BY <1>1, ValueAssumption DEF Publish, Silence
<1> HIDE DEF said
<1>3. ASSUME NEW q, q \in PlanProps \cup DeltaProps \cup Trackable \cup {Available}
      PROVE  values'[q] = values[q]
  BY <1>2, <1>3, Kinds DEF Props, Trackable
<1>4. ASSUME NEW q \in Switches
      PROVE  values'[q] = settings'[q] \/ (values'[q] = values[q] /\ settings'[q] = settings[q])
  BY <1>1, <1>2, TypeParts DEF Props, OwnTyped
<1>5. LiveOf(Snapshot)' /\ BlankOf(Snapshot)'
  BY <1>1, <1>3, SnapshotIs, SnapshotIsPrimed DEF ShownInv, Shown, ShownOf, LiveOf, BlankOf
<1>6. SettingsOf(Snapshot)' /\ DescribedOf(Snapshot)' /\ QuietOf(Snapshot)'
  BY <1>1, <1>4, SnapshotIs, SnapshotIsPrimed
     DEF ShownInv, Shown, ShownOf, SettingsOf, DescribedOf, QuietOf
<1>7. MovesOf(Snapshot)'
  BY <1>1, <1>3, SnapshotIs, SnapshotIsPrimed DEF ShownInv, Shown, ShownOf, MovesOf, Trackable
<1>8. ShownBefore'
  BY EmitBefore DEF WriteSetting, ShownInv, TypeInv
<1>9. QED
  BY <1>5, <1>6, <1>7, <1>8 DEF ShownInv, Shown, ShownOf

(* A program speaks of its own properties only, and runs while the link is *)
(* up.                                                                     *)
LEMMA ProgramStands ==
  ASSUME NEW prog, values' = Publish(ProgramSays(prog))
  PROVE  \A p \in Props \ MachineProps : values'[p] = values[p]
BY DEF Publish, ProgramSays

LEMMA WriteMachineShown ==
  ASSUME TypeInv, ShownInv, NEW prog \in Programs, WriteMachine(prog)
  PROVE  ShownInv'
<1>1. Shown'
  BY ProgramStands, OthersStand DEF WriteMachine, Reachable, ShownInv
<1>2. ShownBefore'
  BY EmitBefore DEF WriteMachine, ShownInv, TypeInv
<1>3. QED
  BY <1>1, <1>2 DEF ShownInv

LEMMA MachineTimerShown ==
  ASSUME ShownInv, NEW n \in MachineTimers, NEW prog \in Programs, MachineTimer(n, prog)
  PROVE  ShownInv'
<1>1. linked
  BY SnapshotIs DEF MachineTimer, ShownInv, Shown, ShownOf, QuietOf
<1>2. Shown'
  BY <1>1, ProgramStands, OthersStand DEF MachineTimer, ShownInv
<1>3. ~call.open /\ call' = call
  BY DEF MachineTimer
<1>4. QED
  BY <1>2, <1>3 DEF ShownInv, ShownBefore

LEMMA SettledFollows ==
  ASSUME OwnTyped
  PROVE  Follows(motion, Settled)
<1>1. Known(codes) /\ motion \in Trackers /\ None \notin {}
  BY TableAssumption DEF OwnTyped, Known
<1>2. QED
  BY <1>1, UpdateFollows DEF Settled

(* The settle timer asks nothing of a cover that does not move.            *)
LEMMA SettledRests ==
  ASSUME OwnTyped, motion.state \notin Directions
  PROVE  Settled.state = Unpublished /\ Settled.tracker.state = motion.state
<1>1. Known(codes) /\ motion \in Trackers
  BY TableAssumption DEF OwnTyped, Known
<1>2. Pos(codes) \in Int \cup {None} /\ Noted(motion, Pos(codes)).state = motion.state
  BY <1>1, PosType, NotedType
<1>3. CASE Mode = "inferred"
  <2>1. Settled.state = Unpublished
    BY <1>1, <1>3, SettleEnds DEF Settled
  <2>2. QED
    BY <2>1, SettledFollows DEF Follows
<1>4. CASE Mode # "inferred"
  BY <1>2, <1>4 DEF Settled, Update, UpdateReported
<1>5. QED
  BY <1>3, <1>4

LEMMA SettleDueShown == ASSUME TypeInv, ShownInv, SettleDue PROVE ShownInv'
<1> DEFINE said == [Silence EXCEPT ![MotionProp] = Settled.state]
<1>1. /\ values' = Publish(said) /\ motion' = Settled.tracker /\ timers' \subseteq timers
      /\ ~call.open /\ call' = call
      /\ UNCHANGED <<linked, synced, described, codes, totals, settings>>
  BY DEF SettleDue
<1>2. OwnTyped /\ Known(codes) /\ motion \in Trackers
  BY TypeParts, TableAssumption DEF OwnTyped, Known
<1>3. ASSUME NEW p \in Props
      PROVE  values'[p] = IF p = MotionProp /\ Settled.state # Unpublished THEN Settled.state
                          ELSE values[p]
  BY <1>1 DEF Publish, Silence
<1> HIDE DEF said
<1>4. ASSUME NEW p, p \in PlanProps \cup DeltaProps \cup Switches \cup {Available}
      PROVE  values'[p] = values[p]
  BY <1>3, <1>4, Kinds DEF Props
<1>5. /\ Settled.state = Unpublished => Settled.tracker.state = motion.state
      /\ Settled.state # Unpublished =>
           \A dir \in Directions : Settled.state = dir <=> Settled.tracker.state = dir
  BY <1>2, SettledFollows DEF Follows
<1>6. MotionProp # None =>
        values'[MotionProp] = IF Settled.state = Unpublished THEN values[MotionProp] ELSE Settled.state
  BY <1>3 DEF Props, Trackable
<1>7. MovesOf(Snapshot)'
  <2>1. CASE MotionProp = None
    BY <1>1, <1>2, <2>1, SettledRests, SnapshotIs, SnapshotIsPrimed DEF ShownInv, Shown, ShownOf, MovesOf
  <2>2. CASE MotionProp # None
    BY <1>1, <1>5, <1>6, <2>2, SnapshotIs, SnapshotIsPrimed DEF ShownInv, Shown, ShownOf, MovesOf
  <2>3. QED
    BY <2>1, <2>2
<1>8. BlankOf(Snapshot)'
  <2>1. CASE MotionProp # None /\ ~synced
    <3>1. values[MotionProp] = None
      BY <2>1, SnapshotIs DEF ShownInv, Shown, ShownOf, BlankOf, Trackable
    <3>2. motion.state \notin Directions
      BY <2>1, <3>1, SnapshotIs, MotionAssumption DEF ShownInv, Shown, ShownOf, MovesOf, Directions
    <3>3. values'[MotionProp] = None
      BY <1>2, <1>6, <2>1, <3>1, <3>2, SettledRests
    <3>4. QED
      BY <1>1, <1>4, <3>3, SnapshotIs, SnapshotIsPrimed DEF ShownInv, Shown, ShownOf, BlankOf, Trackable
  <2>2. CASE MotionProp = None \/ synced
    BY <1>1, <1>4, <2>2, SnapshotIs, SnapshotIsPrimed DEF ShownInv, Shown, ShownOf, BlankOf, Trackable
  <2>3. QED
    BY <2>1, <2>2
<1>9. LiveOf(Snapshot)'
  BY <1>1, <1>4, SnapshotIs, SnapshotIsPrimed DEF ShownInv, Shown, ShownOf, LiveOf
<1>10. SettingsOf(Snapshot)' /\ DescribedOf(Snapshot)' /\ QuietOf(Snapshot)'
  BY <1>1, <1>4, SnapshotIs, SnapshotIsPrimed
     DEF ShownInv, Shown, ShownOf, SettingsOf, DescribedOf, QuietOf
<1>11. QED
  BY <1>1, <1>7, <1>8, <1>9, <1>10 DEF ShownInv, Shown, ShownOf, ShownBefore

(* A code that a message did not change is known as before.                *)
LEMMA Unchanged ==
  ASSUME OwnTyped, NEW new \in Reports, NEW channel, NEW c \in Codes, c \notin Changed(new, channel)
  PROVE  Merged(new)[c] = codes[c]
<1>1. DOMAIN codes = Codes
  BY TableAssumption DEF OwnTyped
<1>2. new[c] = None \/ new[c] = codes[c]
  BY DEF Changed, Carried, Moved
<1>3. QED
  BY <1>1, <1>2 DEF Merged, Over

(* So a reading that does not depend on what changed is still current.     *)
LEMMA ReadingStands ==
  ASSUME OwnTyped, NEW new \in Reports, NEW channel, NEW p \in PlanProps, ~Affected(p, new, channel)
  PROVE  synced /\ Reading(p, Merged(new)) = Reading(p, codes)
<1>1. synced /\ Depends[p] \cap Changed(new, channel) = {}
  BY DEF Affected
<1>2. Merged(new) \in Tables /\ codes \in Tables /\ Depends[p] \subseteq Codes
  BY MergedTable, ReadingAssumption DEF OwnTyped
<1>3. \A c \in Depends[p] : Merged(new)[c] = codes[c]
  BY <1>1, <1>2, Unchanged
<1>4. QED
  BY <1>1, <1>2, <1>3, ReadingAssumption

LEMMA TrackedFollows ==
  ASSUME OwnTyped, NEW new \in Reports, NEW channel
  PROVE  Follows(motion, Tracked(new, channel))
<1>1. None \notin Changed(new, channel)
  BY TableAssumption DEF Changed, Carried, Moved
<1>2. QED
  BY <1>1, MergedTable, UpdateFollows DEF Tracked, OwnTyped

LEMMA MessageShown ==
  ASSUME TypeInv, ShownInv, NEW channel \in Channels, NEW new \in Reports,
         NEW t \in Times \cup {None}, NEW prog \in Programs, Message(channel, new, t, prog)
  PROVE  ShownInv'
<1> DEFINE ts   == Stamp(t)
           said == [p \in Props |-> MessageSays(p, new, channel, ts, prog)]
           adds == {p \in DeltaProps : Accumulates(p, new, channel, ts)}
<1>1. /\ values' = Publish(said)
      /\ linked' = (linked \/ ~synced) /\ synced' = TRUE /\ described' = TRUE
      /\ codes' = Merged(new)
      /\ totals' = [p \in DeltaProps |-> IF p \in adds THEN totals[p] + new[DeltaCode[p]] ELSE totals[p]]
      /\ motion' = IF MotionProp = None THEN motion ELSE Tracked(new, channel).tracker
      /\ settings' = settings
  BY DEF Message
<1>2. OwnTyped /\ CallShape
  BY TypeParts DEF TypeInv
<1>3. ASSUME NEW p \in Props
      PROVE  values'[p] = IF MessageSays(p, new, channel, ts, prog) = Unpublished THEN values[p]
                          ELSE MessageSays(p, new, channel, ts, prog)
  BY <1>1 DEF Publish
<1> HIDE DEF ts, said
<1>4. linked'
  BY <1>1, SnapshotIs DEF ShownInv, Shown, ShownOf, LiveOf
<1>5. ASSUME NEW p \in PlanProps PROVE values'[p] = Reading(p, Merged(new))
  <2>1. MessageSays(p, new, channel, ts, prog) =
          IF Affected(p, new, channel) THEN Reading(p, Merged(new)) ELSE Unpublished
    BY Kinds DEF MessageSays
  <2>2. Reading(p, Merged(new)) # Unpublished
    BY <1>2, MergedTable, ReadingAssumption, ValueAssumption, MotionAssumption
  <2>3. ~Affected(p, new, channel) => values[p] = Reading(p, Merged(new))
    BY <1>2, ReadingStands, SnapshotIs DEF ShownInv, Shown, ShownOf, LiveOf
  <2>4. QED
    BY <1>3, <2>1, <2>2, <2>3 DEF Props
<1>6. ASSUME NEW p \in DeltaProps PROVE values'[p] = totals'[p]
  <2>1. MessageSays(p, new, channel, ts, prog) =
          IF p \in adds THEN totals[p] + new[DeltaCode[p]]
          ELSE IF ~synced THEN totals[p] ELSE Unpublished
    BY Kinds DEF MessageSays
  <2>2. totals[p] # Unpublished /\ (p \in adds => totals[p] + new[DeltaCode[p]] # Unpublished)
    BY <1>2, AddsTyped, ValueAssumption DEF OwnTyped
  <2>3. synced => values[p] = totals[p]
    BY SnapshotIs DEF ShownInv, Shown, ShownOf, LiveOf
  <2>4. totals'[p] = IF p \in adds THEN totals[p] + new[DeltaCode[p]] ELSE totals[p]
    BY <1>1
  <2> HIDE DEF adds
  <2>5. QED
    BY <1>3, <2>1, <2>2, <2>3, <2>4 DEF Props
<1>7. values'[Available] = "on"
  <2>1. MessageSays(Available, new, channel, ts, prog) = IF synced THEN Unpublished ELSE "on"
    BY Kinds DEF MessageSays
  <2>2. "on" # Unpublished
    BY ValueAssumption
  <2>3. QED
    BY <1>3, <2>1, <2>2, SnapshotIs DEF Props, ShownInv, Shown, ShownOf, LiveOf
<1>8. ASSUME NEW p \in Switches PROVE values'[p] = settings[p]
  <2>1. MessageSays(p, new, channel, ts, prog) = DescribeSays(p)
    BY Kinds DEF MessageSays
  <2>2. DescribeSays(p) = IF described THEN Unpublished ELSE settings[p]
    BY DEF DescribeSays
  <2>3. settings[p] # Unpublished
    BY <1>2, ValueAssumption DEF OwnTyped
  <2>4. described => values[p] = settings[p]
    BY SnapshotIs DEF ShownInv, Shown, ShownOf, SettingsOf
  <2>5. QED
    BY <1>3, <2>1, <2>2, <2>3, <2>4 DEF Props
<1>9. MovesOf(Snapshot)'
  <2>1. CASE MotionProp = None
    BY <1>1, <2>1, SnapshotIs, SnapshotIsPrimed DEF ShownInv, Shown, ShownOf, MovesOf
  <2>2. CASE MotionProp # None
    <3> DEFINE r == Tracked(new, channel)
    <3>1. MessageSays(MotionProp, new, channel, ts, prog) =
            IF r.state = Unpublished THEN DescribeSays(MotionProp) ELSE r.state
      BY <2>2, Kinds DEF MessageSays, Trackable
    <3>2. DescribeSays(MotionProp) = Unpublished \/ (DescribeSays(MotionProp) = None /\ ~described)
      BY <2>2, Kinds DEF DescribeSays, Trackable
    <3>3. ~described => values[MotionProp] = None
      BY <2>2, SnapshotIs DEF ShownInv, Shown, ShownOf, DescribedOf, BlankOf, Trackable
    <3>4. values'[MotionProp] = IF r.state = Unpublished THEN values[MotionProp] ELSE r.state
      BY <1>3, <2>2, <3>1, <3>2, <3>3 DEF Props, Trackable
    <3>5. Follows(motion, r) /\ motion' = r.tracker
      BY <1>1, <1>2, <2>2, TrackedFollows
    <3>6. \A dir \in Directions : values[MotionProp] = dir <=> motion.state = dir
      BY <2>2, SnapshotIs DEF ShownInv, Shown, ShownOf, MovesOf
    <3> HIDE DEF r
    <3>7. QED
      BY <2>2, <3>4, <3>5, <3>6, SnapshotIsPrimed DEF MovesOf, Follows
  <2>3. QED
    BY <2>1, <2>2
<1>10. LiveOf(Snapshot)'
  BY <1>1, <1>4, <1>5, <1>6, <1>7, SnapshotIsPrimed DEF LiveOf
<1>11. BlankOf(Snapshot)' /\ DescribedOf(Snapshot)' /\ QuietOf(Snapshot)' /\ SettingsOf(Snapshot)'
  BY <1>1, <1>4, <1>8, SnapshotIsPrimed DEF BlankOf, DescribedOf, QuietOf, SettingsOf
<1>12. ShownBefore'
  BY <1>2, EmitBefore DEF Message, ShownInv
<1>13. QED
  BY <1>9, <1>10, <1>11, <1>12 DEF ShownInv, Shown, ShownOf

LEMMA DescribeShown == ASSUME TypeInv, ShownInv, Describe PROVE ShownInv'
<1>1. Shown'
  BY DescribedShown DEF Describe, ShownInv
<1>2. call'.before = Snapshot
  BY DEF Describe
<1>3. ShownBefore'
  BY <1>2 DEF ShownInv, Shown, ShownBefore, ShownOf, LiveOf, BlankOf, DescribedOf, QuietOf, SettingsOf,
     MovesOf
<1>4. QED
  BY <1>1, <1>3 DEF ShownInv

LEMMA ShownStep == TypeInv /\ ShownInv /\ [Next]_vars => ShownInv'
<1> SUFFICES ASSUME TypeInv, ShownInv, [Next]_vars PROVE ShownInv'
  OBVIOUS
<1>0. CallShape
  BY DEF TypeInv
<1>1. CASE Connected
  BY <1>0, <1>1, DescribedShown, EmitBefore DEF Connected, ShownInv
<1>2. CASE Describe
  BY <1>2, DescribeShown
<1>3. CASE DescribeEnds
  BY <1>3, DescribeEndsShown
<1>4. CASE DescribeFails
  BY <1>4, DescribeFailsShown
<1>5. CASE Disconnected
  BY <1>5, DisconnectedShown
<1>6. ASSUME NEW channel \in Channels, NEW new \in Reports, NEW t \in Times \cup {None},
             NEW prog \in Programs, Message(channel, new, t, prog)
      PROVE  ShownInv'
  BY <1>6, MessageShown
<1>7. CASE EmptyMessage
  BY <1>0, <1>7, DescribedShown, EmitBefore DEF EmptyMessage, ShownInv
<1>8. CASE MessageFails \/ Reject
  BY <1>8, SilentShown DEF MessageFails, Reject
<1>9. ASSUME NEW n \in Timers, Expire(n) \/ TimerIgnored(n) \/ MachineTimerFails(n) PROVE ShownInv'
  BY <1>9, SilentShown DEF Expire, TimerIgnored, MachineTimerFails
<1>10. ASSUME NEW n \in MachineTimers, NEW prog \in Programs, MachineTimer(n, prog) PROVE ShownInv'
  BY <1>10, MachineTimerShown
<1>11. CASE SettleDue
  BY <1>11, SettleDueShown
<1>12. ASSUME NEW p \in Switches, NEW v \in SettingValues, WriteSetting(p, v) PROVE ShownInv'
  BY <1>12, WriteSettingShown
<1>13. ASSUME NEW p \in Writable, WritePlan(p) PROVE ShownInv'
  BY <1>13, SilentShown DEF WritePlan
<1>14. ASSUME NEW prog \in Programs, WriteMachine(prog) PROVE ShownInv'
  BY <1>14, WriteMachineShown
<1>15. CASE UNCHANGED vars
  BY <1>15, SilentShown DEF vars
<1>16. QED
  BY <1>1, <1>2, <1>3, <1>4, <1>5, <1>6, <1>7, <1>8, <1>9, <1>10, <1>11, <1>12, <1>13, <1>14,
     <1>15 DEF Next

LEMMA ShownInit == Init => ShownInv
<1> SUFFICES ASSUME Init PROVE ShownInv
  OBVIOUS
<1>1. ~linked /\ ~synced /\ ~described /\ timers = {} /\ motion = Reset /\ ~call.open
  BY DEF Init, Closed
<1>2. \A p \in Props : values[p] = None
  BY DEF Init
<1>3. "on" # None /\ Reset.state \notin Directions
  BY MotionAssumption, ValueAssumption DEF Reset, Directions
<1>4. LiveOf(Snapshot) /\ DescribedOf(Snapshot) /\ QuietOf(Snapshot)
  BY <1>1, SnapshotIs DEF LiveOf, DescribedOf, QuietOf
<1>5. BlankOf(Snapshot) /\ SettingsOf(Snapshot)
  BY <1>1, <1>2, <1>3, SnapshotIs DEF BlankOf, SettingsOf, Props
<1>6. MovesOf(Snapshot)
  <2>1. MotionProp # None => values[MotionProp] = None
    BY <1>2 DEF Props, Trackable
  <2>2. Reset.state = None
    BY DEF Reset
  <2>3. QED
    BY <1>1, <1>3, <2>1, <2>2, SnapshotIs DEF MovesOf
<1>7. QED
  BY <1>1, <1>4, <1>5, <1>6 DEF ShownInv, Shown, ShownOf, ShownBefore

LEMMA ShownAlways == Spec => [](TypeInv /\ Agrees /\ ShownInv)
<1>1. Init => Agrees
  BY DEF Init, Agrees, CallShape, Closed, Valued
<1>2. QED
  BY <1>1, TypeInit, ShownInit, TypeStep, AgreesStep, ShownStep, PTL DEF Spec

(* While a device is synced the consumer sees it available, on a link that *)
(* is up, with every reading and total as the last known codes give them,  *)
(* whatever part of them the last message touched.                         *)
THEOREM LiveAlwaysCurrent == Spec => []LiveIsCurrent
<1>1. Agrees /\ ShownInv => LiveIsCurrent
  BY SnapshotIs DEF Agrees, ShownInv, Shown, ShownOf, LiveOf, LiveIsCurrent
<1>2. QED
  BY <1>1, ShownAlways, PTL

(* Nothing read from a device survives its disconnection at the consumer.  *)
THEOREM OfflineAlwaysBlank == Spec => []OfflineIsBlank
<1>1. Agrees /\ ShownInv => OfflineIsBlank
  BY SnapshotIs DEF Agrees, ShownInv, Shown, ShownOf, BlankOf, OfflineIsBlank
<1>2. QED
  BY <1>1, ShownAlways, PTL

(* No timer and no move outlives the link.                                 *)
THEOREM OfflineAlwaysQuiet == Spec => []OfflineIsQuiet
<1>1. ShownInv => OfflineIsQuiet
  <2> SUFFICES ASSUME ShownInv, ~linked PROVE timers = {} /\ motion.state \notin Directions
    BY DEF OfflineIsQuiet
  <2>1. ~synced /\ timers = {}
    BY SnapshotIs DEF ShownInv, Shown, ShownOf, LiveOf, QuietOf
  <2>2. MotionProp # None => values[MotionProp] = None
    BY <2>1, SnapshotIs DEF ShownInv, Shown, ShownOf, BlankOf, Trackable
  <2>3. None \notin Directions
    BY MotionAssumption DEF Directions
  <2>4. motion.state \notin Directions
    BY <2>2, <2>3, SnapshotIs DEF ShownInv, Shown, ShownOf, MovesOf
  <2>5. QED
    BY <2>1, <2>4
<1>2. QED
  BY <1>1, ShownAlways, PTL

(* Device settings are shown as they are in force, from the first          *)
(* description on.                                                         *)
THEOREM SettingsAlwaysShown == Spec => []SettingsShown
<1>1. Agrees /\ ShownInv => SettingsShown
  BY SnapshotIs DEF Agrees, ShownInv, Shown, ShownOf, SettingsOf, SettingsShown
<1>2. QED
  BY <1>1, ShownAlways, PTL

(* The consumer sees a cover move exactly while the tracker holds it       *)
(* moving, in every mode and through every failed call.                    *)
THEOREM MotionAlwaysShown == Spec => []MotionShown
<1>1. Agrees /\ ShownInv => MotionShown
  BY SnapshotIs DEF Agrees, ShownInv, Shown, ShownOf, MovesOf, MotionShown
<1>2. QED
  BY <1>1, ShownAlways, PTL

-----------------------------------------------------------------------------
(* The settle timer of an inferred cover.  It is set exactly while a move  *)
(* is held, and no call that failed has used it up: only a converter's     *)
(* program can fail on a timer.                                            *)
SettleOf(d) == d.motion.state \in Directions <=> SettleTimer \in d.timers

SettleInv ==
  /\ SettleOf(Snapshot)
  /\ call.open => SettleOf(call.before)
  /\ SettleTimer \notin spent

Settles == MotionProp # None /\ Mode = "inferred" /\ Settle > 0

LEMMA EmitSettle ==
  ASSUME CallShape, SettleInv, NEW pub, NEW orders, Emit(pub, orders)
  PROVE  (call'.open => SettleOf(call'.before)) /\ SettleTimer \notin spent'
<1>1. CASE call.open
  BY <1>1, EmitOpen DEF SettleInv
<1>2. CASE ~call.open
  BY <1>2, EmitClosed DEF SettleInv, Deliver
<1>3. QED
  BY <1>1, <1>2

LEMMA ResetRests == Reset.state \notin Directions
BY MotionAssumption DEF Reset, Directions

(* Steps whose orders are for other timers and that leave the move alone.  *)
LEMMA EmitOthers ==
  ASSUME CallShape, SettleInv, motion' = motion, NEW pub, NEW orders, Emit(pub, orders),
         SettleTimer \in timers' <=> SettleTimer \in timers
  PROVE  SettleInv'
<1>1. SettleOf(Snapshot)'
  BY SnapshotIs, SnapshotIsPrimed DEF SettleInv, SettleOf
<1>2. (call'.open => SettleOf(call'.before)) /\ SettleTimer \notin spent'
  BY EmitSettle
<1>3. QED
  BY <1>1, <1>2 DEF SettleInv, SettleOf

LEMMA DirectOthers ==
  ASSUME SettleInv, motion' = motion, call' = call, SettleTimer \notin spent',
         SettleTimer \in timers' <=> SettleTimer \in timers
  PROVE  SettleInv'
BY SnapshotIs, SnapshotIsPrimed DEF SettleInv, SettleOf

LEMMA ProgramSettle ==
  ASSUME NEW prog \in Programs, NEW waiting
  PROVE  /\ SettleTimer \in Rearmed(waiting, ProgramTimers(prog)) <=> SettleTimer \in waiting
         /\ Ordered(waiting, ProgramTimers(prog))[SettleTimer] = "keep"
BY PropAssumption DEF Rearmed, Ordered, ProgramTimers, Timers

LEMMA SettleStep ==
  ASSUME Settles
  PROVE  TypeInv /\ SettleInv /\ [Next]_vars => SettleInv'
<1> SUFFICES ASSUME TypeInv, SettleInv, [Next]_vars PROVE SettleInv'
  OBVIOUS
<1>0. CallShape /\ OwnTyped
  BY TypeParts DEF TypeInv
<1>1. CASE Connected
  BY <1>0, <1>1, EmitOthers DEF Connected
<1>2. CASE Describe
  <2>1. call'.before = Snapshot /\ UNCHANGED <<timers, motion, spent>>
    BY <1>2 DEF Describe, hostVars
  <2>2. QED
    BY <2>1, SnapshotIs, SnapshotIsPrimed DEF SettleInv, SettleOf
<1>3. CASE DescribeEnds
  <2>1. call' = Closed /\ UNCHANGED <<timers, motion>> /\ spent' \subseteq spent
    BY <1>3 DEF DescribeEnds, Deliver
  <2>2. QED
    BY <2>1, SnapshotIs, SnapshotIsPrimed DEF SettleInv, SettleOf, Closed
<1>4. CASE DescribeFails
  <2>1. SettleOf(call.before) /\ call' = Closed /\ spent' = spent
    BY <1>4 DEF DescribeFails, SettleInv, hostVars
  <2>2. motion' = call.before.motion /\ timers' = call.before.timers
    BY <1>4 DEF DescribeFails, RolledBack, Commit
  <2>3. QED
    BY <2>1, <2>2, SnapshotIsPrimed DEF SettleInv, SettleOf, Closed
<1>5. CASE Disconnected
  <2>1. motion' = Reset /\ timers' = {}
    BY <1>5 DEF Disconnected
  <2>2. SettleOf(Snapshot)'
    BY <2>1, SnapshotIsPrimed, ResetRests DEF SettleOf
  <2>3. (call'.open => SettleOf(call'.before)) /\ SettleTimer \notin spent'
    BY <1>0, <1>5, EmitSettle DEF Disconnected
  <2>4. QED
    BY <2>2, <2>3 DEF SettleInv, SettleOf
<1>6. ASSUME NEW channel \in Channels, NEW new \in Reports, NEW t \in Times \cup {None},
             NEW prog \in Programs, Message(channel, new, t, prog)
      PROVE  SettleInv'
  <2> DEFINE r    == Tracked(new, channel)
             tims == MessageTimers(new, channel, prog)
  <2>1. motion' = r.tracker /\ timers' = Rearmed(timers, tims)
    BY <1>6 DEF Message, Settles
  <2>2. tims[SettleTimer] = r.timer
    BY PropAssumption DEF MessageTimers, Timers, Settles
  <2>3. r.timer = IF r.tracker.state \in Directions THEN "set" ELSE "cancel"
    <3>1. None \notin Changed(new, channel)
      BY TableAssumption DEF Changed, Carried, Moved
    <3>2. QED
      BY <1>0, <3>1, MergedTable, InferredFollows DEF Tracked, OwnTyped, Settles
  <2> HIDE DEF r, tims
  <2>4. SettleTimer \in timers' <=> motion'.state \in Directions
    BY <2>1, <2>2, <2>3 DEF Rearmed, Timers
  <2>5. (call'.open => SettleOf(call'.before)) /\ SettleTimer \notin spent'
    BY <1>0, <1>6, EmitSettle DEF Message
  <2>6. QED
    BY <2>4, <2>5, SnapshotIsPrimed DEF SettleInv, SettleOf
<1>7. CASE EmptyMessage
  BY <1>0, <1>7, EmitOthers DEF EmptyMessage
<1>8. CASE MessageFails \/ Reject
  BY <1>8, DirectOthers DEF MessageFails, Reject, driverVars, hostVars, SettleInv
<1>9. ASSUME NEW n \in Timers, Expire(n) \/ TimerIgnored(n) PROVE SettleInv'
  BY <1>9, DirectOthers DEF Expire, TimerIgnored, driverVars, SettleInv
<1>10. ASSUME NEW n \in Timers, MachineTimerFails(n) PROVE SettleInv'
  BY <1>10, DirectOthers, PropAssumption DEF MachineTimerFails, driverVars, SettleInv
<1>11. ASSUME NEW n \in MachineTimers, NEW prog \in Programs, MachineTimer(n, prog) PROVE SettleInv'
  <2>1. SettleTimer \in timers' <=> SettleTimer \in timers
    BY <1>11, ProgramSettle, PropAssumption DEF MachineTimer
  <2>2. SettleTimer \notin spent'
    BY <1>11 DEF MachineTimer, SettleInv
  <2>3. QED
    BY <1>11, <2>1, <2>2, DirectOthers DEF MachineTimer
<1>12. CASE SettleDue
  <2>1. motion' = Settled.tracker /\ SettleTimer \notin timers' /\ call' = call /\ SettleTimer \notin spent'
    BY <1>12 DEF SettleDue
  <2>2. Settled.tracker.state \notin Directions
    BY <1>0, TableAssumption, SettleEnds DEF Settled, OwnTyped, Known, Settles
  <2>3. QED
    BY <2>1, <2>2, SnapshotIsPrimed DEF SettleInv, SettleOf
<1>13. ASSUME NEW p \in Switches, NEW v \in SettingValues, WriteSetting(p, v) PROVE SettleInv'
  BY <1>0, <1>13, EmitOthers DEF WriteSetting
<1>14. ASSUME NEW p \in Writable, WritePlan(p) PROVE SettleInv'
  BY <1>14, DirectOthers DEF WritePlan, driverVars, hostVars, SettleInv
<1>15. ASSUME NEW prog \in Programs, WriteMachine(prog) PROVE SettleInv'
  <2>1. SettleTimer \in timers' <=> SettleTimer \in timers
    BY <1>15, ProgramSettle DEF WriteMachine
  <2>2. QED
    BY <1>0, <1>15, <2>1, EmitOthers DEF WriteMachine
<1>16. CASE UNCHANGED vars
  BY <1>16, DirectOthers DEF vars, driverVars, hostVars, SettleInv
<1>17. QED
  BY <1>1, <1>2, <1>3, <1>4, <1>5, <1>6, <1>7, <1>8, <1>9, <1>10, <1>11, <1>12, <1>13, <1>14,
     <1>15, <1>16 DEF Next

(* A move that is shown will be settled: its timer runs or is due at the   *)
(* host, whatever was cancelled, failed or rolled back.                    *)
THEOREM MoveAlwaysSettles == Spec => []MoveWillSettle
<1>1. CASE Settles
  <2>1. Init => SettleInv
    BY ResetRests, SnapshotIs DEF Init, SettleInv, SettleOf, Closed
  <2>2. TypeInv /\ SettleInv /\ [Next]_vars => SettleInv'
    BY <1>1, SettleStep
  <2>3. Agrees /\ ShownInv /\ SettleInv /\ TimersAgree => MoveWillSettle
    <3> SUFFICES ASSUME Agrees, ShownInv, SettleInv, TimersAgree, ~call.open
                 PROVE  seen[MotionProp] \in Directions <=> SettleTimer \in timers \cap (armed \cup due)
      BY DEF MoveWillSettle
    <3>1. seen[MotionProp] \in Directions <=> motion.state \in Directions
      BY <1>1, SnapshotIs DEF Agrees, ShownInv, Shown, ShownOf, MovesOf, Settles
    <3>2. motion.state \in Directions <=> SettleTimer \in timers
      BY SnapshotIs DEF SettleInv, SettleOf
    <3>3. SettleTimer \in timers => SettleTimer \in armed \cup due
      BY DEF TimersAgree, SettleInv
    <3>4. QED
      BY <3>1, <3>2, <3>3
  <2>4. QED
    BY <2>1, <2>2, <2>3, ShownAlways, TimersAlwaysAgree, PTL DEF Spec
<1>2. CASE ~Settles
  <2>1. MoveWillSettle
    BY <1>2 DEF Settles, MoveWillSettle
  <2>2. QED
    BY <2>1, PTL
<1>3. QED
  BY <1>1, <1>2

-----------------------------------------------------------------------------
(* The course of an inferred cover: a move heads for a target ahead of it, *)
(* and a cover at rest is shown where it is.  Both suppose that every word *)
(* a report brings names a motion: a report with another word and a new    *)
(* position takes the word's branch, which passes over the position.       *)
WordsMove == \A new \in Reports : Command # None /\ new[Command] # None => Word(new[Command]) # None

CourseOf(d) ==
  /\ HasAhead(d.motion, Pos(d.codes))
  /\ MotionProp # None /\ d.motion.state \notin Directions =>
       (d.values[MotionProp] # None /\ Pos(d.codes) # None =>
          d.values[MotionProp] = Resting(Pos(d.codes)))

CourseInv == CourseOf(Snapshot) /\ (call.open => CourseOf(call.before))

LEMMA EmitCourse ==
  ASSUME CallShape, CourseInv, NEW pub, NEW orders, Emit(pub, orders)
  PROVE  call'.open => CourseOf(call'.before)
<1>1. CASE call.open
  BY <1>1, EmitOpen DEF CourseInv
<1>2. CASE ~call.open
  BY <1>2, EmitClosed
<1>3. QED
  BY <1>1, <1>2

(* Steps that touch neither the codes, the move nor what is shown of it.   *)
LEMMA CourseStands ==
  ASSUME CourseInv, UNCHANGED <<codes, motion>>,
         MotionProp # None => values'[MotionProp] = values[MotionProp],
         call'.open => CourseOf(call'.before)
  PROVE  CourseInv'
<1>1. CourseOf(Snapshot)'
  BY SnapshotIs, SnapshotIsPrimed DEF CourseInv, CourseOf
<1>2. QED
  BY <1>1 DEF CourseInv, CourseOf

LEMMA CourseSilent ==
  ASSUME CourseInv, UNCHANGED <<codes, motion, values, call>>
  PROVE  CourseInv'
BY CourseStands DEF CourseInv

(* What a message changes it brings. *)
LEMMA ChangedIs ==
  ASSUME OwnTyped, NEW new \in Reports, NEW channel, NEW c \in Changed(new, channel)
  PROVE  c \in Codes /\ c # None /\ new[c] # None /\ Merged(new)[c] = new[c]
<1>1. DOMAIN codes = Codes
  BY TableAssumption DEF OwnTyped
<1>2. c \in Codes /\ new[c] # None
  BY DEF Changed, Carried, Moved
<1>3. QED
  BY <1>1, <1>2, TableAssumption DEF Merged, Over

LEMMA TrackedCourse ==
  ASSUME WordsMove, Mode = "inferred", OwnTyped, HasAhead(motion, Pos(codes)), NEW new \in Reports,
         NEW channel
  PROVE  KeepsCourse(motion, Pos(codes), Pos(Merged(new)), Tracked(new, channel))
<1> DEFINE changed == Changed(new, channel)
           st      == Merged(new)
<1>1. Known(st) /\ Known(codes) /\ motion \in Trackers
  BY MergedTable DEF OwnTyped
<1>2. Pos(codes) \in Int \cup {None}
  BY <1>1, PosType
<1>3. None \notin changed
  BY ChangedIs
<1>4. Understood(st, changed)
  BY ChangedIs DEF Understood, WordsMove
<1>5. Position \notin changed => Pos(st) = Pos(codes)
  BY Unchanged, TableAssumption DEF Pos
<1>6. Position \in changed => Pos(st) # None
  BY ChangedIs DEF Pos
<1>7. Target \in changed => st[Target] # None
  BY ChangedIs
<1> HIDE DEF changed, st
<1> DEFINE active == LiveReport(new, channel)
           timer  == FALSE
<1>8. ~timer
  OBVIOUS
<1> HIDE DEF active, timer
<1>9. KeepsCourse(motion, Pos(codes), Pos(st), Update(motion, st, changed, active, timer))
  BY <1>1, <1>2, <1>3, <1>4, <1>5, <1>6, <1>7, <1>8, UpdateAhead
<1>10. QED
  BY <1>9 DEF Tracked, changed, st, active, timer

LEMMA MessageCourse ==
  ASSUME WordsMove, Mode = "inferred", TypeInv, ShownInv, CourseInv, NEW channel \in Channels,
         NEW new \in Reports, NEW t \in Times \cup {None}, NEW prog \in Programs,
         Message(channel, new, t, prog)
  PROVE  CourseInv'
<1> DEFINE ts   == Stamp(t)
           said == [p \in Props |-> MessageSays(p, new, channel, ts, prog)]
           r    == Tracked(new, channel)
<1>1. /\ values' = Publish(said) /\ codes' = Merged(new)
      /\ motion' = IF MotionProp = None THEN motion ELSE r.tracker
  BY DEF Message
<1>2. OwnTyped /\ CallShape
  BY TypeParts DEF TypeInv
<1>3. call'.open => CourseOf(call'.before)
  BY <1>2, EmitCourse DEF Message
<1>4. CASE MotionProp = None
  <2>1. motion'.state \notin Directions
    BY <1>1, <1>4, SnapshotIs DEF ShownInv, Shown, ShownOf, MovesOf
  <2>2. QED
    BY <1>3, <1>4, <2>1, SnapshotIsPrimed DEF CourseInv, CourseOf, HasAhead
<1>5. CASE MotionProp # None
  <2>1. MessageSays(MotionProp, new, channel, ts, prog) = r.state
    <3>1. DescribeSays(MotionProp) = Unpublished
      BY <1>5, Kinds DEF DescribeSays, Trackable
    <3>2. QED
      BY <1>5, <3>1, Kinds DEF MessageSays, Trackable
  <2>2. values'[MotionProp] = IF r.state = Unpublished THEN values[MotionProp] ELSE r.state
    BY <1>1, <1>5, <2>1 DEF Publish, Props, Trackable
  <2>3. KeepsCourse(motion, Pos(codes), Pos(codes'), r)
    BY <1>1, <1>2, TrackedCourse, SnapshotIs DEF CourseInv, CourseOf
  <2> HIDE DEF r, said
  <2>4. CourseOf(Snapshot)'
    BY <1>1, <1>5, <2>2, <2>3, SnapshotIs, SnapshotIsPrimed DEF CourseInv, CourseOf, KeepsCourse
  <2>5. QED
    BY <1>3, <2>4 DEF CourseInv, CourseOf
<1>6. QED
  BY <1>4, <1>5

LEMMA SettleDueCourse ==
  ASSUME Mode = "inferred", TypeInv, ShownInv, CourseInv, SettleDue
  PROVE  CourseInv'
<1> DEFINE said == [Silence EXCEPT ![MotionProp] = Settled.state]
<1>1. /\ values' = Publish(said) /\ codes' = codes /\ motion' = Settled.tracker
      /\ ~call.open /\ call' = call
  BY DEF SettleDue
<1>2. OwnTyped /\ Known(codes) /\ motion \in Trackers
  BY TypeParts, TableAssumption DEF OwnTyped, Known
<1>3. CASE MotionProp = None
  <2>1. motion'.state \notin Directions
    BY <1>1, <1>2, <1>3, SettledRests, SnapshotIs DEF ShownInv, Shown, ShownOf, MovesOf
  <2>2. QED
    BY <1>1, <1>3, <2>1, SnapshotIsPrimed DEF CourseInv, CourseOf, HasAhead
<1>4. CASE MotionProp # None
  <2>1. values'[MotionProp] = IF Settled.state = Unpublished THEN values[MotionProp] ELSE Settled.state
    BY <1>1, <1>4 DEF Publish, Silence, Props, Trackable
  <2>2. KeepsCourse(motion, Pos(codes), Pos(codes), Settled)
    <3>1. HasAhead(motion, Pos(codes)) /\ Pos(codes) \in Int \cup {None}
      BY <1>2, PosType, SnapshotIs DEF CourseInv, CourseOf
    <3>2. Understood(codes, {})
      BY DEF Understood
    <3> DEFINE changed == {}
    <3>3. None \notin changed /\ Position \notin changed /\ Target \notin changed
      OBVIOUS
    <3>4. QED
      BY <1>2, <3>1, <3>2, <3>3, UpdateAhead DEF Settled
  <2> HIDE DEF said
  <2>3. CourseOf(Snapshot)'
    BY <1>1, <1>4, <2>1, <2>2, SnapshotIs, SnapshotIsPrimed DEF CourseInv, CourseOf, KeepsCourse
  <2>4. QED
    BY <1>1, <2>3 DEF CourseInv
<1>5. QED
  BY <1>3, <1>4

LEMMA CourseStep ==
  ASSUME WordsMove, Mode = "inferred"
  PROVE  TypeInv /\ ShownInv /\ CourseInv /\ [Next]_vars => CourseInv'
<1> SUFFICES ASSUME TypeInv, ShownInv, CourseInv, [Next]_vars PROVE CourseInv'
  OBVIOUS
<1>0. CallShape /\ OwnTyped
  BY TypeParts DEF TypeInv
<1>a. ASSUME values' = Publish(Described), MotionProp # None
      PROVE  values'[MotionProp] = values[MotionProp]
  <2>1. DescribeSays(MotionProp) = Unpublished
    BY <1>a, Kinds DEF DescribeSays, Trackable
  <2>2. QED
    BY <1>a, <2>1 DEF Publish, Described, Props, Trackable
<1>1. CASE Connected
  BY <1>0, <1>a, <1>1, EmitCourse, CourseStands DEF Connected
<1>2. CASE Describe
  <2>1. call'.before = Snapshot
    BY <1>2 DEF Describe
  <2>2. QED
    BY <1>a, <1>2, <2>1, CourseStands DEF Describe, CourseInv
<1>3. CASE DescribeEnds
  <2>1. MotionProp # None => values'[MotionProp] = values[MotionProp]
    BY <1>3, Kinds DEF DescribeEnds, Publish, Silence, Props, Trackable
  <2>2. QED
    BY <1>3, <2>1, CourseStands DEF DescribeEnds, Closed
<1>4. CASE DescribeFails
  <2>1. CourseOf(call.before) /\ Commit(call.before) /\ call' = Closed
    BY <1>4 DEF DescribeFails, RolledBack, CourseInv
  <2>2. QED
    BY <2>1, SnapshotIsPrimed DEF Commit, CourseInv, CourseOf, Closed
<1>5. CASE Disconnected
  <2>1. motion' = Reset /\ values' = [p \in Props |-> Survives(p)]
    BY <1>5 DEF Disconnected
  <2>2. MotionProp # None => values'[MotionProp] = None
    BY <2>1, Kinds DEF Survives, Props, Trackable
  <2>3. CourseOf(Snapshot)'
    BY <2>1, <2>2, ResetRests, SnapshotIsPrimed DEF CourseOf, HasAhead
  <2>4. call'.open => CourseOf(call'.before)
    BY <1>0, <1>5, EmitCourse DEF Disconnected
  <2>5. QED
    BY <2>3, <2>4 DEF CourseInv, CourseOf
<1>6. ASSUME NEW channel \in Channels, NEW new \in Reports, NEW t \in Times \cup {None},
             NEW prog \in Programs, Message(channel, new, t, prog)
      PROVE  CourseInv'
  BY <1>6, MessageCourse
<1>7. CASE EmptyMessage
  BY <1>0, <1>a, <1>7, EmitCourse, CourseStands DEF EmptyMessage
<1>8. CASE MessageFails \/ Reject
  BY <1>8, CourseSilent DEF MessageFails, Reject, driverVars
<1>9. ASSUME NEW n \in Timers, Expire(n) \/ TimerIgnored(n) \/ MachineTimerFails(n) PROVE CourseInv'
  BY <1>9, CourseSilent DEF Expire, TimerIgnored, MachineTimerFails, driverVars
<1>10. ASSUME NEW n \in MachineTimers, NEW prog \in Programs, MachineTimer(n, prog) PROVE CourseInv'
  <2>1. MotionProp # None => values'[MotionProp] = values[MotionProp]
    BY <1>10, ProgramStands, Kinds DEF MachineTimer, Props, Trackable
  <2>2. QED
    BY <1>10, <2>1, CourseStands DEF MachineTimer
<1>11. CASE SettleDue
  BY <1>11, SettleDueCourse
<1>12. ASSUME NEW p \in Switches, NEW v \in SettingValues, WriteSetting(p, v) PROVE CourseInv'
  <2>1. MotionProp # None => values'[MotionProp] = values[MotionProp]
    BY <1>12, Kinds DEF WriteSetting, Publish, Silence, Props, Trackable
  <2>2. QED
    BY <1>0, <1>12, <2>1, EmitCourse, CourseStands DEF WriteSetting
<1>13. ASSUME NEW p \in Writable, WritePlan(p) PROVE CourseInv'
  BY <1>13, CourseSilent DEF WritePlan, driverVars
<1>14. ASSUME NEW prog \in Programs, WriteMachine(prog) PROVE CourseInv'
  <2>1. MotionProp # None => values'[MotionProp] = values[MotionProp]
    BY <1>14, ProgramStands, Kinds DEF WriteMachine, Props, Trackable
  <2>2. QED
    BY <1>0, <1>14, <2>1, EmitCourse, CourseStands DEF WriteMachine
<1>15. CASE UNCHANGED vars
  BY <1>15, CourseSilent DEF vars, driverVars
<1>16. QED
  BY <1>1, <1>2, <1>3, <1>4, <1>5, <1>6, <1>7, <1>8, <1>9, <1>10, <1>11, <1>12, <1>13, <1>14,
     <1>15 DEF Next

LEMMA CourseAlways ==
  ASSUME WordsMove, Mode = "inferred"
  PROVE  Spec => []CourseInv
<1>1. Init => CourseInv
  <2> SUFFICES ASSUME Init PROVE CourseInv
    OBVIOUS
  <2>1. motion = Reset /\ ~call.open
    BY DEF Init, Closed
  <2>2. MotionProp # None => values[MotionProp] = None
    BY DEF Init, Props, Trackable
  <2>3. QED
    BY <2>1, <2>2, ResetRests, SnapshotIs DEF CourseInv, CourseOf, HasAhead
<1>2. TypeInv /\ ShownInv /\ CourseInv /\ [Next]_vars => CourseInv'
  BY CourseStep
<1>3. QED
  BY <1>1, <1>2, ShownAlways, PTL DEF Spec

(* An inferred move has a target ahead of the position, so that arriving   *)
(* there or at the end of the rail ends it.                                *)
THEOREM MoveAlwaysHeads == ASSUME WordsMove PROVE Spec => []HeadsForTarget
<1>1. CASE Mode = "inferred"
  <2>1. CourseInv => HeadsForTarget
    BY SnapshotIs DEF CourseInv, CourseOf, HasAhead, HeadsForTarget
  <2>2. Spec => []CourseInv
    BY <1>1, CourseAlways
  <2>3. QED
    BY <2>1, <2>2, PTL
<1>2. CASE Mode # "inferred"
  <2>1. HeadsForTarget
    BY <1>2 DEF HeadsForTarget
  <2>2. QED
    BY <2>1, PTL
<1>3. QED
  BY <1>1, <1>2

(* A resting cover shows the state its last known position has.            *)
THEOREM RestAlwaysShown == ASSUME WordsMove PROVE Spec => []AtRestShowsPosition
<1>1. CASE Mode = "inferred"
  <2>1. Agrees /\ CourseInv => AtRestShowsPosition
    BY SnapshotIs DEF Agrees, CourseInv, CourseOf, AtRestShowsPosition
  <2>2. Spec => []CourseInv
    BY <1>1, CourseAlways
  <2>3. QED
    BY <2>1, <2>2, ShownAlways, PTL
<1>2. CASE Mode # "inferred"
  <2>1. AtRestShowsPosition
    BY <1>2 DEF AtRestShowsPosition
  <2>2. QED
    BY <2>1, PTL
<1>3. QED
  BY <1>1, <1>2

-----------------------------------------------------------------------------
(* Copies of old reports.  A snapshot is never live, nor is a readback     *)
(* before anything else was heard.                                         *)
LEMMA TrackedCopy ==
  ASSUME OwnTyped, NEW new \in Reports, NEW channel,
         channel = "state" \/ (channel = "passive" /\ ~synced)
  PROVE  OfCopy(Pos(Merged(new)), Changed(new, channel), Tracked(new, channel))
<1> DEFINE active == LiveReport(new, channel)
           timer  == FALSE
<1>1. ~active /\ ~timer
  BY DEF LiveReport, Pushed
<1>2. Known(Merged(new)) /\ motion \in Trackers
  BY MergedTable DEF OwnTyped
<1> HIDE DEF active, timer
<1>3. OfCopy(Pos(Merged(new)), Changed(new, channel),
             Update(motion, Merged(new), Changed(new, channel), active, timer))
  BY <1>1, <1>2, UpdateOfCopy
<1>4. QED
  BY <1>3 DEF Tracked, active, timer

(* Only a message has a channel. *)
LEMMA OnlyMessages ==
  ASSUME [Next]_vars, vars' # vars, out'.channel \in Channels
  PROVE  \E channel \in Channels, new \in Reports, t \in Times \cup {None}, prog \in Programs :
           Message(channel, new, t, prog)
<1>1. None \notin Channels
  BY ValueAssumption DEF Channels
<1>2. Quiet.channel = None /\ \A b : [Quiet EXCEPT !.sent = b].channel = None
  BY DEF Quiet
<1>3. QED
  BY <1>1, <1>2 DEF Next, Connected, Describe, DescribeEnds, DescribeFails, Disconnected, EmptyMessage,
     MessageFails, Expire, TimerIgnored, MachineTimerFails, MachineTimer, SettleDue, Reject,
     WriteSetting, WritePlan, WriteMachine

(* What a message tells of the cover, and what it changes.                 *)
LEMMA MessageTells ==
  ASSUME OwnTyped, MotionProp # None, NEW channel, NEW new \in Reports, NEW t, NEW prog,
         Message(channel, new, t, prog)
  PROVE  LET r == Tracked(new, channel)
         IN  /\ codes' = Merged(new)
             /\ values'[MotionProp] = IF r.state = Unpublished
                                        THEN IF described \/ Mode = "inferred" THEN values[MotionProp]
                                             ELSE None
                                        ELSE r.state
<1> DEFINE said == [p \in Props |-> MessageSays(p, new, channel, Stamp(t), prog)]
           r    == Tracked(new, channel)
<1>1. values' = Publish(said) /\ codes' = Merged(new)
  BY DEF Message
<1>2. MotionProp \in Props
  BY DEF Props, Trackable
<1>3. DescribeSays(MotionProp) = IF described \/ Mode = "inferred" THEN Unpublished ELSE None
  BY Kinds DEF DescribeSays, Trackable
<1>4. said[MotionProp] = IF r.state = Unpublished THEN DescribeSays(MotionProp) ELSE r.state
  BY <1>2, Kinds DEF MessageSays, Trackable
<1>5. values'[MotionProp] = IF said[MotionProp] = Unpublished THEN values[MotionProp] ELSE said[MotionProp]
  BY <1>1, <1>2 DEF Publish
<1> HIDE DEF said, r
<1>6. None # Unpublished
  BY MotionAssumption
<1>7. QED
  BY <1>1, <1>3, <1>4, <1>5, <1>6 DEF r

(* Copies of old reports start no motion and fire no event.                *)
THEOREM CopiesNeverStart == Spec => CopiesStartNothing
<1>1. TypeInv /\ [Next]_vars =>
        [Copied => /\ out'.events = {}
                   /\ (MotionProp # None /\ values'[MotionProp] \in Directions) =>
                         values'[MotionProp] = values[MotionProp]]_vars
  <2> SUFFICES ASSUME TypeInv, [Next]_vars, vars' # vars, Copied
               PROVE  /\ out'.events = {}
                      /\ (MotionProp # None /\ values'[MotionProp] \in Directions) =>
                            values'[MotionProp] = values[MotionProp]
    OBVIOUS
  <2>1. PICK channel \in Channels, new \in Reports, t \in Times \cup {None}, prog \in Programs :
          Message(channel, new, t, prog)
    BY OnlyMessages DEF Copied, Channels
  <2>2. out'.channel = channel /\ out'.events = EventsOf(new, channel)
    BY <2>1 DEF Message
  <2>3. channel = "state" \/ (channel = "passive" /\ ~synced)
    BY <2>2 DEF Copied
  <2>4. EventsOf(new, channel) = {}
    BY <2>3 DEF EventsOf, Pushed
  <2>5. OwnTyped
    BY TypeParts
  <2>6. Tracked(new, channel).state \notin Directions
    BY <2>3, <2>5, TrackedCopy DEF OfCopy
  <2>7. None \notin Directions
    BY MotionAssumption DEF Directions
  <2>8. QED
    BY <2>1, <2>2, <2>4, <2>5, <2>6, <2>7, MessageTells
<1>2. QED
  BY <1>1, TypeInit, TypeStep, PTL DEF Spec, CopiesStartNothing

(* A snapshot that moves a code of the cover shows where it rests.         *)
THEOREM SnapshotsRest == Spec => SnapshotRests
<1>1. TypeInv /\ [Next]_vars =>
        [(/\ MotionProp # None
          /\ out'.channel = "state"
          /\ \E c \in Relevant \ {None} : codes'[c] # codes[c]
          /\ Pos(codes') # None) => values'[MotionProp] = Resting(Pos(codes'))]_vars
  <2> SUFFICES ASSUME TypeInv, [Next]_vars, vars' # vars, MotionProp # None, out'.channel = "state",
                      NEW c \in Relevant \ {None}, codes'[c] # codes[c], Pos(codes') # None
               PROVE  values'[MotionProp] = Resting(Pos(codes'))
    OBVIOUS
  <2>1. PICK channel \in Channels, new \in Reports, t \in Times \cup {None}, prog \in Programs :
          Message(channel, new, t, prog)
    BY OnlyMessages DEF Channels
  <2>2. channel = "state" /\ codes' = Merged(new)
    BY <2>1 DEF Message
  <2>3. OwnTyped
    BY TypeParts
  <2>4. c \in Codes
    BY TableAssumption DEF Relevant
  <2>5. c \in Changed(new, channel)
    BY <2>2, <2>3, <2>4, Unchanged
  <2>6. Tracked(new, channel).state = Resting(Pos(codes'))
    BY <2>2, <2>3, <2>5, TrackedCopy DEF OfCopy, Relevant
  <2>7. Resting(Pos(codes')) # Unpublished
    BY MotionAssumption DEF Resting
  <2>8. QED
    BY <2>1, <2>3, <2>6, <2>7, MessageTells
<1>2. QED
  BY <1>1, TypeInit, TypeStep, PTL DEF Spec, SnapshotRests

(* A call sends to the device only while the link is up, whichever program *)
(* or write asked for it.                                                  *)
THEOREM NeverSendsWhileDown == Spec => NoSendWhileDown
<1>1. [Next]_vars => [out'.sent => linked']_vars
  <2> SUFFICES ASSUME Next, out'.sent PROVE linked'
    BY DEF vars
  <2>1. ~Quiet.sent /\ \A b : [Quiet EXCEPT !.sent = b].sent = b
    BY DEF Quiet
  <2>2. ASSUME NEW channel \in Channels, NEW new \in Reports, NEW t \in Times \cup {None},
               NEW prog \in Programs, Message(channel, new, t, prog)
        PROVE  linked'
    BY <2>2 DEF Message
  <2>3. ASSUME NEW n \in MachineTimers, NEW prog \in Programs, MachineTimer(n, prog) PROVE linked'
    BY <2>1, <2>3 DEF MachineTimer
  <2>4. ASSUME NEW p \in Writable, WritePlan(p) PROVE linked'
    BY <2>4 DEF WritePlan, Reachable, driverVars
  <2>5. ASSUME NEW prog \in Programs, WriteMachine(prog) PROVE linked'
    BY <2>5 DEF WriteMachine, Reachable
  <2>6. QED
    BY <2>1, <2>2, <2>3, <2>4, <2>5
       DEF Next, Connected, Describe, DescribeEnds, DescribeFails, Disconnected, EmptyMessage,
           MessageFails, Expire, TimerIgnored, MachineTimerFails, SettleDue, Reject, WriteSetting
<1>2. QED
  BY <1>1, PTL DEF Spec, NoSendWhileDown
=============================================================================
