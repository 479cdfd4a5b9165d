----------------------------- MODULE DeltaProofs ----------------------------
(***************************************************************************)
(* Proofs about the accumulator of a delta property, for any number of     *)
(* reports and messages and any choice of the reports with a timestamp.    *)
(***************************************************************************)
EXTENDS Delta, TLAPS

(* The stamp of the report counted last is the number of a message the     *)
(* driver has had, or the timestamp of a report that is in the total.      *)
LastCounted ==
  lastTs = None \/ lastTs \in 0..seq \/ \E j \in Stamped : lastTs = Stamp(j) /\ times[j] > 0

(* While reports are heard in order, only the latest can be heard again,   *)
(* and if it is in the total its stamp is the last one.                    *)
LatestCounted ==
  Orderly =>
    /\ \A i \in Reports : i > latest => times[i] = 0
    /\ latest \in Stamped /\ times[latest] > 0 => lastTs = Stamp(latest)

DeltaInv == TypeOK /\ LastCounted /\ NothingLost /\ LatestCounted

-----------------------------------------------------------------------------
(* A sequence number is never taken for a timestamp: a repetition, to the  *)
(* accumulator, is a report with a timestamp that is in the total.         *)
LEMMA RepeatedIsCounted ==
  ASSUME DeltaInv, seq < MaxSeq, NEW i \in Reports, ~NewTs(StampOf(i))
  PROVE  i \in Stamped /\ times[i] > 0
<1>1. StampOf(i) = lastTs
  BY DEF NewTs
<1>2. StampOf(i) \in Int /\ StampOf(i) \notin 0..seq
  BY DeltaAssumption DEF DeltaInv, TypeOK, StampOf, Stamp, Reports
<1>3. PICK j \in Stamped : StampOf(i) = Stamp(j) /\ times[j] > 0
  BY <1>1, <1>2, DeltaAssumption DEF DeltaInv, LastCounted
<1>4. i \in Stamped
  BY <1>3, DeltaAssumption DEF DeltaInv, TypeOK, StampOf, Stamp, Reports
<1>5. i = j
  BY <1>3, <1>4, DeltaAssumption DEF StampOf, Stamp, Reports
<1>6. QED
  BY <1>3, <1>4, <1>5

(* Heard in order, a report that is added was not in the total.            *)
LEMMA AddedIsNew ==
  ASSUME DeltaInv, Orderly, NEW i \in Reports, Deliverable(i), NewTs(StampOf(i))
  PROVE  times[i] = 0
<1> USE DEF DeltaInv, TypeOK, LatestCounted
<1>1. CASE i > latest
  BY <1>1
<1>2. CASE ~(i > latest)
  <2>1. i = latest /\ i \in Stamped
    BY <1>2 DEF Deliverable, Reports
  <2>2. lastTs # Stamp(latest)
    BY <2>1 DEF NewTs, StampOf
  <2>3. QED
    BY <2>1, <2>2
<1>3. QED
  BY <1>1, <1>2

-----------------------------------------------------------------------------
LEMMA DeltaInit == Init => DeltaInv
BY DeltaAssumption DEF Init, DeltaInv, TypeOK, LastCounted, NothingLost, LatestCounted, Reports

LEMMA HearType ==
  ASSUME TypeOK, NEW i \in Reports, NEW channel \in Channels, Hear(i, channel)
  PROVE  TypeOK'
<1> USE DeltaAssumption DEF TypeOK, Reports
<1>1. seq' \in 0..MaxSeq /\ latest' \in 0..MaxReports /\ pushed' \subseteq Reports
  BY DEF Hear
<1>2. total' \in Int /\ lastTs' \in Int \cup {None}
  BY DEF Hear, StampOf, Stamp
<1>3. times' \in [Reports -> Nat]
  BY DEF Hear
<1>4. QED
  BY <1>1, <1>2, <1>3 DEF Hear

LEMMA HearKeeps ==
  ASSUME DeltaInv, NEW i \in Reports, NEW channel \in Channels, Hear(i, channel)
  PROVE  DeltaInv'
<1> DEFINE adds == Counted(channel) /\ NewTs(StampOf(i))
<1>1. TypeOK'
  BY HearType DEF DeltaInv
<1>2. CASE adds
  <2>1. /\ times' = [times EXCEPT ![i] = @ + 1]
        /\ lastTs' = StampOf(i)
        /\ seq' = seq + 1
        /\ latest' = IF i > latest THEN i ELSE latest
        /\ pushed' \subseteq pushed \cup {i}
        /\ Deliverable(i)
    BY <1>2 DEF Hear
  <2>2. times'[i] > 0 /\ \A j \in Reports \ {i} : times'[j] = times[j]
    BY <2>1 DEF DeltaInv, TypeOK
  <2>3. LastCounted'
    <3>1. CASE i \in Stamped
      BY <3>1, <2>1, <2>2 DEF LastCounted, StampOf, Stamp
    <3>2. CASE i \notin Stamped
      BY <3>2, <2>1 DEF LastCounted, StampOf, DeltaInv, TypeOK
    <3>3. QED
      BY <3>1, <3>2
  <2>4. NothingLost'
    BY <2>1, <2>2 DEF NothingLost, DeltaInv, TypeOK
  <2>5. LatestCounted'
    BY <2>1, <2>2 DEF LatestCounted, DeltaInv, TypeOK, Deliverable, StampOf, Stamp, Reports
  <2>6. QED
    BY <1>1, <2>3, <2>4, <2>5 DEF DeltaInv
<1>3. CASE ~adds
  <2>1. /\ times' = times /\ lastTs' = lastTs
        /\ seq' = seq + 1 /\ seq < MaxSeq
        /\ latest' = IF i > latest THEN i ELSE latest
        /\ pushed' = IF channel = "active" THEN pushed \cup {i} ELSE pushed
        /\ Deliverable(i)
    BY <1>3 DEF Hear
  <2>2. LastCounted'
    BY <2>1 DEF LastCounted, DeltaInv, TypeOK, Stamp
  <2>3. channel = "active" => times[i] > 0
    BY <1>3, <2>1, RepeatedIsCounted DEF Counted
  <2>4. NothingLost'
    BY <2>1, <2>3 DEF NothingLost, DeltaInv
  <2>5. LatestCounted'
    BY <2>1 DEF LatestCounted, DeltaInv, TypeOK, Stamp, Reports
  <2>6. QED
    BY <1>1, <2>2, <2>4, <2>5 DEF DeltaInv
<1>4. QED
  BY <1>2, <1>3

(* The number of messages never falls while the total is kept, so a stamp  *)
(* of the driver before is not given out a second time.                    *)
LEMMA CarryKeeps ==
  ASSUME DeltaInv, NEW same \in BOOLEAN, NEW setting \in BOOLEAN, Carry(same, setting)
  PROVE  DeltaInv'
<1> USE DeltaAssumption DEF DeltaInv, TypeOK
<1>1. standby \in 0..MaxSeq /\ seq' \in 0..MaxSeq /\ seq' >= seq
  BY DEF Carry, CarriedSeq
<1>2. CASE same
  <2>1. UNCHANGED <<total, lastTs, pushed, times, emitted, latest>> /\ standby' = None /\ accept' = setting
    BY <1>2 DEF Carry
  <2>2. QED
    BY <1>1, <2>1 DEF LastCounted, NothingLost, LatestCounted, Stamp
<1>3. CASE ~same
  BY <1>1, <1>3 DEF Carry, StartedOver, LastCounted, NothingLost, LatestCounted, Reports
<1>4. QED
  BY <1>2, <1>3

LEMMA DeltaStep == DeltaInv /\ [Next]_vars => DeltaInv'
<1> SUFFICES ASSUME DeltaInv, [Next]_vars PROVE DeltaInv'
  OBVIOUS
<1> USE DeltaAssumption DEF DeltaInv, TypeOK, LastCounted, NothingLost, LatestCounted, Stamp
<1>1. CASE Emit
  BY <1>1 DEF Emit, driverVars
<1>2. ASSUME NEW i \in Reports, NEW channel \in Channels, Hear(i, channel) PROVE DeltaInv'
  BY <1>2, HearKeeps
<1>3. CASE HearOther
  BY <1>3 DEF HearOther
<1>4. ASSUME NEW value \in BOOLEAN, WriteSetting(value) PROVE DeltaInv'
  BY <1>4 DEF WriteSetting
<1>5. CASE Open
  BY <1>5 DEF Open, driverVars
<1>6. CASE Seed
  BY <1>6 DEF Seed, driverVars
<1>7. ASSUME NEW same \in BOOLEAN, NEW setting \in BOOLEAN, Carry(same, setting) PROVE DeltaInv'
  BY <1>7, CarryKeeps
<1>8. ASSUME NEW setting \in BOOLEAN, Restart(setting) PROVE DeltaInv'
  BY <1>8 DEF Restart, StartedOver, Reports
<1>9. CASE UNCHANGED vars
  BY <1>9 DEF vars, driverVars
<1>10. QED
  BY <1>1, <1>2, <1>3, <1>4, <1>5, <1>6, <1>7, <1>8, <1>9 DEF Next

LEMMA DeltaInvariant == Spec => []DeltaInv
BY DeltaInit, DeltaStep, PTL DEF Spec

-----------------------------------------------------------------------------
(* Every variable has its type in every behaviour.                         *)
THEOREM TypeCorrect == Spec => []TypeOK
<1>1. DeltaInv => TypeOK
  BY DEF DeltaInv
<1>2. QED
  BY <1>1, DeltaInvariant, PTL

(* Every report that was pushed is in the total, in whatever order reports *)
(* are heard and whichever driver takes over.                              *)
THEOREM NothingIsLost == Spec => []NothingLost
<1>1. DeltaInv => NothingLost
  BY DEF DeltaInv
<1>2. QED
  BY <1>1, DeltaInvariant, PTL

(* As long as no report is heard again after a later one, the accumulator  *)
(* implements the meter: it adds every report at most once, and nothing    *)
(* else changes its total.                                                 *)
THEOREM ImplementsMeter ==
  ASSUME Orderly
  PROVE  Spec => KeepsPromise
<1>1. Init => Promise!Init
  BY DEF Init, Promise!Init
<1>2. DeltaInv /\ [Next]_vars => [Promise!Next]_(Promise!vars)
  <2> SUFFICES ASSUME DeltaInv, [Next]_vars, ~UNCHANGED <<total, times>>
               PROVE  Promise!Next
    BY DEF Promise!vars
  <2>1. ASSUME NEW i \in Reports, NEW channel \in Channels, Hear(i, channel) PROVE Promise!Next
    <3>1. /\ NewTs(StampOf(i)) /\ Deliverable(i)
          /\ total' = total + Inc(i)
          /\ times' = [times EXCEPT ![i] = @ + 1]
      BY <2>1 DEF Hear
    <3>2. times[i] = 0
      BY <3>1, AddedIsNew
    <3>3. times'[i] > 0 /\ \A j \in Reports \ {i} : times'[j] = times[j]
      BY <3>1 DEF DeltaInv, TypeOK
    <3>4. {j \in Reports : times[j] > 0}' = {j \in Reports : times[j] > 0} \cup {i}
      BY <3>3
    <3>5. Promise!Add(i)
      BY <3>1, <3>2, <3>4 DEF Promise!Add
    <3>6. QED
      BY <3>5 DEF Promise!Next
  <2>2. ASSUME StartedOver PROVE Promise!Next
    BY <2>2 DEF StartedOver, Promise!Next, Promise!StartOver
  <2>3. QED
    BY <2>1, <2>2 DEF Next, Emit, HearOther, WriteSetting, Open, Seed, Carry, Restart, vars, driverVars
<1>3. QED
  BY <1>1, <1>2, DeltaInvariant, PTL DEF Spec, KeepsPromise, Promise!Spec
=============================================================================
