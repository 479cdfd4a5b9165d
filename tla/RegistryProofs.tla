--------------------------- MODULE RegistryProofs ---------------------------
(***************************************************************************)
(* Proofs about the request API (Registry), for any number of threads and  *)
(* requests.                                                               *)
(***************************************************************************)
EXTENDS Registry, TLAPS

(* What is known of a call from where it is. *)
LEMMA CallFields ==
  ASSUME NEW c \in Calls
  PROVE  /\ c.at = "install" => c.id \in Ids /\ c.pack \in Packs
         /\ c.at = "close" => c.on \in Handles
         /\ c.at = "find" => c.on \in Handles /\ c.old \in Handles /\ c.due \in Nat
         /\ c.at \in {"drive", "copy", "carry"} => c \in LiveCalls
<1>1. CASE c \in {Idle, Opening}
  BY <1>1 DEF Idle, Opening
<1>2. CASE c \in [at : {"install"}, id : Ids, pack : Packs]
  BY <1>2
<1>3. CASE c \in [at : {"close"}, on : Handles]
  BY <1>3
<1>4. CASE c \in [at : {"find"}, on : Handles, old : Handles, due : Nat]
  BY <1>4
<1>5. CASE c \in LiveCalls
  BY <1>5 DEF LiveCalls
<1>6. QED
  BY <1>1, <1>2, <1>3, <1>4, <1>5 DEF Calls

(* Every call a step leaves a thread with is one of Calls. *)
LEMMA CallsOf ==
  ASSUME TypeOK
  PROVE  /\ Idle \in Calls
         /\ Opening \in Calls
         /\ \A id \in Ids, pack \in Packs : Installing(id, pack) \in Calls
         /\ \A h \in Handles : Closing(h) \in Calls
         /\ \A h, old \in Handles : Finding(h, old) \in Calls
         /\ \A at \in {"drive", "copy", "carry"}, on, to \in Handles, copy, due \in Nat :
              Work(at, on, to, copy, due) \in LiveCalls
         /\ LiveCalls \subseteq Calls
<1>1. /\ Idle \in Calls
      /\ Opening \in Calls
      /\ LiveCalls \subseteq Calls
  BY DEF Calls
<1>2. \A id \in Ids, pack \in Packs : Installing(id, pack) \in Calls
  BY DEF Calls, Installing
<1>3. \A h \in Handles : Closing(h) \in Calls
  BY DEF Calls, Closing
<1>4. \A h, old \in Handles : Finding(h, old) \in Calls
  <2>1. \A old \in Handles : drivers[old].answered \in Nat
    BY DEF TypeOK, Drivers
  <2>2. QED
    BY <2>1 DEF Calls, Finding
<1>5. \A at \in {"drive", "copy", "carry"}, on, to \in Handles, copy, due \in Nat :
        Work(at, on, to, copy, due) \in LiveCalls
  BY DEF LiveCalls, Work
<1>6. QED
  BY <1>1, <1>2, <1>3, <1>4, <1>5

LEMMA CallsKept ==
  ASSUME TypeOK, Handles' = Handles,
         NEW t \in Threads, NEW what \in Calls, Becomes(t, what)
  PROVE  call' \in [Threads -> Calls']
<1>1. Calls' = Calls
  BY DEF Calls, LiveCalls, Idle, Opening
<1>2. QED
  BY <1>1 DEF TypeOK, Becomes

(* Dropping the guards of a thread changes who holds what and nothing else. *)
LEMMA DroppedDrivers ==
  ASSUME NEW t \in Threads, NEW H, NEW ds \in [H -> Drivers]
  PROVE  /\ Dropped(t, ds) \in [H -> Drivers]
         /\ \A h \in H : /\ Dropped(t, ds)[h].seq = ds[h].seq
                         /\ Dropped(t, ds)[h].answered = ds[h].answered
                         /\ ds[h].holder = t => Dropped(t, ds)[h].holder = None
                         /\ ds[h].holder # t => Dropped(t, ds)[h].holder = ds[h].holder
  BY DEF Dropped, Drivers

(* A step that leaves the handles as they are, a call of a known form and  *)
(* drivers of the same kind leaves everything else as it is.               *)
LEMMA TypeKept ==
  ASSUME TypeOK, UNCHANGED next, Handles' = Handles, open' \subseteq Handles,
         packs' \in [Ids -> Packs \cup {None}], told' \subseteq Ids \X Packs,
         closes' \in Seq(Nat), drivers' \in [Handles -> Drivers],
         call' \in [Threads -> Calls'], requests' \in 0..MaxRequests
  PROVE  TypeOK'
  BY DEF TypeOK, Drivers

(* Every variable of the request API has its type in every behaviour, so a *)
(* call only ever names drivers that were opened (api.rs, opened).         *)
THEOREM TypeCorrect == Spec => []TypeOK
<1>1. Init => TypeOK
  BY RegistryAssumption DEF Init, TypeOK, Handles, Calls
<1>2. ASSUME TypeOK, [Next]_vars PROVE TypeOK'
  <2>1. CASE UNCHANGED vars
    BY <1>2, <2>1 DEF vars, TypeOK, Handles, Calls, LiveCalls, Idle, Opening, Drivers
  <2>2. ASSUME NEW t \in Threads, Request(t) PROVE TypeOK'
    <3>1. ASSUME Asks(t) PROVE requests' \in 0..MaxRequests
      BY <1>2, <3>1, RegistryAssumption DEF Asks, TypeOK
    <3>2. ASSUME NEW id \in Ids, NEW pack \in Packs, InstallKnown(t, id, pack) PROVE TypeOK'
      <4>1. call' \in [Threads -> Calls']
        BY <1>2, <3>2 DEF InstallKnown, TypeOK, Calls, LiveCalls, Handles, Idle, Opening
      <4>2. QED
        BY <1>2, <3>1, <3>2, <4>1, TypeKept DEF InstallKnown, Tell, TypeOK, Handles
    <3>3. ASSUME NEW id \in Ids, NEW pack \in Packs, Install(t, id, pack) PROVE TypeOK'
      <4>1. call' \in [Threads -> Calls']
        BY <1>2, <3>3, CallsOf, CallsKept DEF Install, Handles
      <4>2. QED
        BY <1>2, <3>1, <3>3, <4>1, TypeKept DEF Install, TypeOK, Handles
    <3>4. ASSUME NEW id \in Ids, RemoveRules(t, id) PROVE TypeOK'
      <4>1. call' \in [Threads -> Calls']
        BY <1>2, <3>4 DEF RemoveRules, TypeOK, Calls, LiveCalls, Handles, Idle, Opening
      <4>2. QED
        BY <1>2, <3>1, <3>4, <4>1, TypeKept DEF RemoveRules, TypeOK, Handles
    <3>5. ASSUME NEW id \in Ids \cup {None}, Open(t, id) PROVE TypeOK'
      <4>1. call' \in [Threads -> Calls']
        BY <1>2, <3>5, CallsOf, CallsKept DEF Open, Handles
      <4>2. QED
        BY <1>2, <3>1, <3>5, <4>1, TypeKept DEF Open, TypeOK, Handles
    <3>6. ASSUME NEW h \in Handles, Close(t, h) PROVE TypeOK'
      <4>1. call' \in [Threads -> Calls']
        BY <1>2, <3>6, CallsOf, CallsKept DEF Close, Handles
      <4>2. QED
        BY <1>2, <3>1, <3>6, <4>1, TypeKept DEF Close, TypeOK, Handles
    <3>7. ASSUME NEW h \in Handles, Drive(t, h) PROVE TypeOK'
      <4>1. call' \in [Threads -> Calls']
        BY <1>2, <3>7, CallsOf, CallsKept DEF Drive, Handles
      <4>2. QED
        BY <1>2, <3>1, <3>7, <4>1, TypeKept DEF Drive, TypeOK, Handles
    <3>8. ASSUME NEW h \in Handles, NEW old \in Handles, CarryHandle(t, h, old) PROVE TypeOK'
      <4>1. call' \in [Threads -> Calls']
        BY <1>2, <3>8, CallsOf, CallsKept DEF CarryHandle, Handles
      <4>2. QED
        BY <1>2, <3>1, <3>8, <4>1, TypeKept DEF CarryHandle, TypeOK, Handles
    <3>9. QED
      BY <2>2, <3>2, <3>3, <3>4, <3>5, <3>6, <3>7, <3>8 DEF Request
  <2>3. ASSUME NEW t \in Threads, Proceed(t) PROVE TypeOK'
    <3> DEFINE c == call[t]
    <3>1. c \in Calls /\ requests \in 0..MaxRequests
      BY <1>2 DEF TypeOK
    <3>2. CASE InstallFails(t)
      <4>1. call' \in [Threads -> Calls']
        BY <1>2, <3>2, CallsOf, CallsKept DEF InstallFails, Answers, Handles
      <4>2. QED
        BY <1>2, <3>2, <4>1, TypeKept DEF InstallFails, TypeOK, Handles
    <3>3. CASE InstallEnds(t)
      <4>1. call' \in [Threads -> Calls']
        BY <1>2, <3>3, CallsOf, CallsKept DEF InstallEnds, Answers, Handles
      <4>2. c.id \in Ids /\ c.pack \in Packs
        BY <3>1, <3>3, CallFields DEF InstallEnds
      <4>3. QED
        BY <1>2, <3>3, <4>1, <4>2, TypeKept
        DEF InstallEnds, Registered, Tell, TypeOK, Handles
    <3>4. CASE OpenFails(t)
      <4>1. call' \in [Threads -> Calls']
        BY <1>2, <3>4, CallsOf, CallsKept DEF OpenFails, Answers, Handles
      <4>2. QED
        BY <1>2, <3>4, <4>1, TypeKept DEF OpenFails, TypeOK, Handles
    <3>5. CASE OpenEnds(t)
      <4>1. next' = next + 1 /\ Handles' = Handles \cup {next + 1}
        BY <1>2, <3>5 DEF OpenEnds, NextHandle, Handles, TypeOK
      <4>2. drivers' \in [Handles' -> Drivers]
        BY <1>2, <3>5, <4>1, RegistryAssumption
        DEF OpenEnds, NextHandle, NewDriver, Handles, Drivers, TypeOK
      <4>3. Calls \subseteq Calls'
        BY <4>1 DEF Calls, LiveCalls, Idle, Opening
      <4>4. call' \in [Threads -> Calls']
        BY <1>2, <3>5, <4>3, CallsOf DEF OpenEnds, Answers, Becomes, TypeOK
      <4>5. closes' \in Seq(Nat)
        BY <1>2, <3>5, <4>1 DEF OpenEnds, TypeOK
      <4>6. Handles' = 1..next'
        BY <1>2, <4>1 DEF TypeOK
      <4>7. open' \subseteq Handles'
        BY <1>2, <3>5, <4>1 DEF OpenEnds, NextHandle, TypeOK
      <4>8. /\ next' \in Nat /\ requests' \in 0..MaxRequests
            /\ packs' \in [Ids -> Packs \cup {None}]
            /\ told' \subseteq Ids \X Packs
        BY <1>2, <3>5, <4>1 DEF OpenEnds, TypeOK
      <4>9. QED
        BY <4>2, <4>4, <4>5, <4>6, <4>7, <4>8 DEF TypeOK, Drivers
    <3>6. CASE CloseEnds(t)
      <4>1. call' \in [Threads -> Calls']
        BY <1>2, <3>6, CallsOf, CallsKept DEF CloseEnds, Answers, Handles
      <4>2. c.on \in Handles
        BY <3>1, <3>6, CallFields DEF CloseEnds
      <4>3. closes \in Seq(Nat) /\ c.on \in Nat
        BY <1>2, <4>2 DEF TypeOK
      <4>4. closes' \in Seq(Nat)
        BY <3>6, <4>3 DEF CloseEnds
      <4>5. /\ UNCHANGED <<packs, next, drivers, told, requests>>
            /\ open' \subseteq open
        BY <3>6 DEF CloseEnds
      <4>6. QED
        BY <1>2, <4>1, <4>4, <4>5, TypeKept DEF TypeOK, Handles
    <3>7. CASE FindOld(t)
      <4>1. c.on \in Handles /\ c.old \in Handles /\ c.due \in Nat
        BY <3>1, <3>7, CallFields DEF FindOld
      <4>2. call' \in [Threads -> Calls']
        BY <1>2, <3>7, <4>1, CallsOf, CallsKept DEF FindOld, Handles
      <4>3. QED
        BY <1>2, <3>7, <4>2, TypeKept DEF FindOld, TypeOK, Handles
    <3>8. CASE Lock(t)
      <4>1. c \in LiveCalls
        BY <3>1, <3>8, CallFields DEF Lock, Works
      <4>2. c.on \in Handles /\ drivers[c.on].seq \in Nat
        BY <1>2, <4>1 DEF LiveCalls, TypeOK, Drivers
      <4>3. [c EXCEPT !.locked = TRUE,
               !.copy = IF c.at = "carry" THEN @ ELSE drivers[c.on].seq] \in LiveCalls
        BY <4>1, <4>2 DEF LiveCalls
      <4>4. drivers' \in [Handles -> Drivers]
        <5>1. drivers' = drivers \/ drivers' = [drivers EXCEPT ![c.on].holder = t]
          BY <3>8 DEF Lock
        <5>2. [drivers EXCEPT ![c.on].holder = t] \in [Handles -> Drivers]
          BY <1>2, <4>2 DEF TypeOK, Drivers
        <5>3. QED
          BY <1>2, <5>1, <5>2 DEF TypeOK
      <4>5. Handles' = Handles
        BY <1>2, <3>8, <4>4 DEF Handles
      <4>6. call' \in [Threads -> Calls']
        BY <1>2, <3>8, <4>3, <4>5, CallsOf, CallsKept DEF Lock, Answers
      <4>7. QED
        BY <1>2, <3>8, <4>4, <4>5, <4>6, TypeKept DEF Lock, TypeOK
    <3>9. CASE DriveEnds(t) \/ DriveFails(t) \/ DrivePanics(t) \/ CopyEnds(t) \/ CarryEnds(t)
      <4>1. c \in LiveCalls
        BY <3>1, <3>9, CallFields
        DEF DriveEnds, DriveFails, DrivePanics, CopyEnds, CarryEnds, Ends
      <4>2. /\ c.on \in Handles /\ c.to \in Handles /\ c.copy \in Nat /\ c.due \in Nat
            /\ drivers[c.on].seq \in Nat /\ drivers[c.on].answered \in Nat
        BY <1>2, <4>1 DEF LiveCalls, TypeOK, Drivers
      <4>3. drivers' \in [Handles -> Drivers]
        <5>1. drivers \in [Handles -> Drivers]
          BY <1>2 DEF TypeOK
        <5>2. CASE DriveEnds(t)
          <6> DEFINE ds == [drivers EXCEPT ![c.on].seq = c.copy + 1,
                                           ![c.on].answered = drivers[c.on].answered + 1]
          <6>1. ds \in [Handles -> Drivers]
            BY <1>2, <4>2, <5>1 DEF Drivers
          <6>2. drivers' = Dropped(t, ds)
            BY <5>2 DEF DriveEnds
          <6> HIDE DEF ds
          <6>3. QED
            BY <6>1, <6>2, DroppedDrivers
        <5>3. CASE DriveFails(t) \/ CopyEnds(t)
          BY <5>1, <5>3, DroppedDrivers DEF DriveFails, CopyEnds
        <5>4. CASE DrivePanics(t)
          <6> DEFINE ds == [drivers EXCEPT ![c.on].poisoned = TRUE]
          <6>1. ds \in [Handles -> Drivers]
            BY <4>2, <5>1 DEF Drivers
          <6>2. drivers' = Dropped(t, ds)
            BY <5>4 DEF DrivePanics
          <6> HIDE DEF ds
          <6>3. QED
            BY <6>1, <6>2, DroppedDrivers
        <5>5. CASE CarryEnds(t)
          <6> DEFINE ds == [drivers EXCEPT
                              ![c.on].seq = Larger(drivers[c.on].seq, c.copy),
                              ![c.on].answered = Larger(drivers[c.on].answered, c.due)]
          <6>1. /\ Larger(drivers[c.on].seq, c.copy) \in Nat
                /\ Larger(drivers[c.on].answered, c.due) \in Nat
            BY <4>2 DEF Larger
          <6>2. ds \in [Handles -> Drivers]
            BY <1>2, <4>2, <5>1, <6>1 DEF Drivers
          <6>3. drivers' = Dropped(t, ds)
            BY <5>5 DEF CarryEnds
          <6> HIDE DEF ds
          <6>4. QED
            BY <6>2, <6>3, DroppedDrivers
        <5>6. QED
          BY <3>9, <5>2, <5>3, <5>4, <5>5
      <4>4. Handles' = Handles
        BY <4>3 DEF Handles
      <4>5. call' \in [Threads -> Calls']
        <5>1. Work("carry", c.to, c.to, c.copy, c.due) \in Calls /\ Idle \in Calls
          BY <1>2, <4>2, CallsOf
        <5>2. QED
          BY <1>2, <3>9, <4>4, <5>1, CallsKept
          DEF DriveEnds, DriveFails, DrivePanics, CopyEnds, CarryEnds, Answers
      <4>6. UNCHANGED <<packs, next, open, told, closes, requests>>
        BY <3>9 DEF DriveEnds, DriveFails, DrivePanics, CopyEnds, CarryEnds, Ends
      <4>7. QED
        BY <1>2, <4>3, <4>4, <4>5, <4>6, TypeKept DEF TypeOK
    <3>10. QED
      BY <2>3, <3>2, <3>3, <3>4, <3>5, <3>6, <3>7, <3>8, <3>9 DEF Proceed
  <2>4. QED
    BY <1>2, <2>1, <2>2, <2>3 DEF Next
<1>3. QED
  BY <1>1, <1>2, PTL DEF Spec

-----------------------------------------------------------------------------
(* Only installing and removing touch the packs and what clients know.     *)
LEMMA PackSteps ==
  ASSUME [Next]_vars
  PROVE  \/ UNCHANGED <<packs, told>>
         \/ \E t \in Threads, id \in Ids, pack \in Packs : InstallKnown(t, id, pack)
         \/ \E t \in Threads : InstallEnds(t)
         \/ \E t \in Threads, id \in Ids : RemoveRules(t, id)
  BY DEF Next, vars, Request, Proceed, Install, InstallFails, Open, OpenFails, OpenEnds,
         Close, CloseEnds, Drive, CarryHandle, FindOld, Lock, Ends, DriveEnds, DriveFails,
         DrivePanics, CopyEnds, CarryEnds

(* An id stands for what clients were told it stands for, until it is      *)
(* removed: the second look at the registry in install (api.rs) finds what *)
(* another thread put there since the first.                               *)
THEOREM IdsAlwaysKeepContents == Spec => []IdsKeepContents
<1>1. Init => IdsKeepContents
  BY DEF Init, IdsKeepContents
<1>2. ASSUME TypeOK, IdsKeepContents, [Next]_vars PROVE IdsKeepContents'
  <2> SUFFICES ASSUME NEW claim \in told' PROVE packs'[claim[1]] = claim[2]
    BY DEF IdsKeepContents
  <2>1. \A known \in told : known[1] \in Ids /\ known[2] \in Packs /\ packs[known[1]] = known[2]
    BY <1>2 DEF TypeOK, IdsKeepContents
  <2>2. CASE UNCHANGED <<packs, told>>
    BY <2>1, <2>2
  <2>3. ASSUME NEW t \in Threads, NEW id \in Ids, NEW pack \in Packs, InstallKnown(t, id, pack)
        PROVE  packs'[claim[1]] = claim[2]
    BY <2>1, <2>3 DEF InstallKnown, Tell
  <2>4. ASSUME NEW t \in Threads, InstallEnds(t) PROVE packs'[claim[1]] = claim[2]
    <3> DEFINE id == call[t].id
               pack == call[t].pack
    <3>1. id \in Ids /\ pack \in Packs
      BY <1>2, <2>4, CallFields DEF InstallEnds, TypeOK
    <3>2. packs' = [packs EXCEPT ![id] = Registered(id, pack)]
      BY <2>4 DEF InstallEnds
    <3>3. packs'[id] = Registered(id, pack) /\ \A i \in Ids : i # id => packs'[i] = packs[i]
      BY <1>2, <3>1, <3>2 DEF TypeOK
    <3>4. CASE claim \in told
      BY <2>1, <3>3, <3>4, RegistryAssumption DEF Registered
    <3>5. CASE claim \notin told
      <4>1. claim = <<id, pack>> /\ Registered(id, pack) = pack
        BY <2>4, <3>5 DEF InstallEnds, Tell
      <4>2. QED
        BY <3>3, <4>1
    <3>6. QED
      BY <3>4, <3>5
  <2>5. ASSUME NEW t \in Threads, NEW id \in Ids, RemoveRules(t, id)
        PROVE  packs'[claim[1]] = claim[2]
    BY <1>2, <2>1, <2>5 DEF RemoveRules, TypeOK
  <2>6. QED
    BY <1>2, <2>2, <2>3, <2>4, <2>5, PackSteps
<1>3. QED
  BY <1>1, <1>2, TypeCorrect, PTL DEF Spec

-----------------------------------------------------------------------------
(* A handle whose close was answered with true is one that was given, and  *)
(* is not open any more.                                                   *)
ClosedInv ==
  /\ ClosedOnce
  /\ \A i \in 1..Len(closes) : closes[i] \in 1..next /\ closes[i] \notin open

LEMMA HandleSteps ==
  ASSUME [Next]_vars
  PROVE  \/ UNCHANGED <<next, open, closes>>
         \/ \E t \in Threads : OpenEnds(t)
         \/ \E t \in Threads : CloseEnds(t)
  BY DEF Next, vars, Request, Proceed, InstallKnown, Install, InstallFails, InstallEnds,
         RemoveRules, Open, OpenFails, Close, Drive, CarryHandle, FindOld, Lock, Ends,
         DriveEnds, DriveFails, DrivePanics, CopyEnds, CarryEnds

(* Of all closes of a handle, however they overlap, one is answered with   *)
(* true, and no later driver has its handle (api.rs, open_driver, live).   *)
THEOREM HandlesCloseOnce == Spec => []ClosedOnce
<1>1. Init => ClosedInv
  BY DEF Init, ClosedInv, ClosedOnce
<1>2. ASSUME TypeOK, ClosedInv, [Next]_vars PROVE ClosedInv'
  <2>1. CASE UNCHANGED <<next, open, closes>>
    BY <1>2, <2>1 DEF ClosedInv, ClosedOnce
  <2>2. ASSUME NEW t \in Threads, OpenEnds(t) PROVE ClosedInv'
    <3>1. next \in Nat /\ next' = next + 1 /\ open' = open \cup {next + 1} /\ closes' = closes
      BY <1>2, <2>2 DEF OpenEnds, NextHandle, TypeOK
    <3>2. QED
      BY <1>2, <3>1 DEF ClosedInv, ClosedOnce
  <2>3. ASSUME NEW t \in Threads, CloseEnds(t) PROVE ClosedInv'
    <3> DEFINE h == call[t].on
    <3>1. next' = next /\ open' = open \ {h}
      BY <2>3 DEF CloseEnds
    <3>2. CASE h \notin open
      BY <1>2, <2>3, <3>1, <3>2 DEF CloseEnds, WasOpen, ClosedInv, ClosedOnce
    <3>3. CASE h \in open
      <4>1. closes' = Append(closes, h) /\ closes \in Seq(Nat) /\ h \in 1..next
        BY <1>2, <2>3, <3>3 DEF CloseEnds, WasOpen, TypeOK
      <4>2. /\ Len(closes') = Len(closes) + 1 /\ Len(closes) \in Nat
            /\ DOMAIN closes' = 1..Len(closes) + 1 /\ DOMAIN closes = 1..Len(closes)
            /\ closes'[Len(closes) + 1] = h
            /\ \A i \in 1..Len(closes) : closes'[i] = closes[i]
        BY <4>1
      <4>3. \A i \in 1..Len(closes) : closes[i] # h
        BY <1>2, <3>3 DEF ClosedInv
      <4>4. ClosedOnce'
        BY <1>2, <4>2, <4>3 DEF ClosedInv, ClosedOnce
      <4>5. \A i \in 1..Len(closes') : closes'[i] \in 1..next' /\ closes'[i] \notin open'
        BY <1>2, <3>1, <4>1, <4>2 DEF ClosedInv
      <4>6. QED
        BY <4>4, <4>5 DEF ClosedInv
    <3>4. QED
      BY <3>2, <3>3
  <2>4. QED
    BY <1>2, <2>1, <2>2, <2>3, HandleSteps
<1>3. ClosedInv => ClosedOnce
  BY DEF ClosedInv
<1>4. QED
  BY <1>1, <1>2, <1>3, TypeCorrect, PTL DEF Spec

-----------------------------------------------------------------------------
Working == {"drive", "copy", "carry"}

(* What holds of a call c of thread t: it works under a mutex of its own,  *)
(* with a copy that is up to date, and what it carries is no less than     *)
(* what it owes.                                                           *)
CallInv(t, c) ==
  /\ c.at \in Working /\ c.locked => drivers[c.on].holder = t
  /\ c.at = "drive" /\ c.locked => c.copy = drivers[c.on].seq
  /\ c.at = "find" => c.due <= drivers[c.old].seq
  /\ c.at = "copy" /\ ~c.locked => c.due <= drivers[c.on].seq
  /\ c.at = "copy" /\ c.locked => c.due <= c.copy
  /\ c.at = "carry" => c.due <= c.copy

LockInv ==
  /\ HoldersWork
  /\ NothingUndone
  /\ \A t \in Threads : CallInv(t, call[t])

(* A thread's call stays sound while others raise message counts and leave *)
(* alone the driver it holds.                                              *)
LEMMA OthersStable ==
  ASSUME TypeOK, LockInv, TypeOK', NEW u \in Threads, call'[u] = call[u],
         \A h \in Handles : /\ h \in Handles'
                            /\ drivers[h].seq <= drivers'[h].seq
                            /\ drivers[h].holder = u => /\ drivers'[h].holder = u
                                                        /\ drivers'[h].seq = drivers[h].seq
  PROVE  CallInv(u, call[u])'
<1> DEFINE c == call[u]
<1>1. c \in Calls /\ CallInv(u, c)
  BY DEF TypeOK, LockInv
<1>2. \A h \in Handles : drivers[h].seq \in Nat /\ drivers'[h].seq \in Nat
  BY DEF TypeOK, Drivers
<1>3. CASE c.at = "find"
  <2>1. c.old \in Handles /\ c.due \in Nat
    BY <1>1, <1>3, CallFields
  <2>2. QED
    BY <1>1, <1>2, <1>3, <2>1 DEF CallInv, Working
<1>4. CASE c.at \in Working
  <2>1. c \in LiveCalls
    BY <1>1, <1>4, CallFields DEF Working
  <2>2. c.on \in Handles /\ c.due \in Nat /\ c.copy \in Nat
    BY <2>1 DEF LiveCalls
  <2>3. QED
    BY <1>1, <1>2, <1>4, <2>2 DEF CallInv, Working
<1>5. CASE c.at \notin Working /\ c.at # "find"
  BY <1>5 DEF CallInv, Working
<1>6. QED
  BY <1>3, <1>4, <1>5

(* A step of thread t outside every mutex. *)
Quiet(t, what) ==
  /\ UNCHANGED drivers
  /\ Becomes(t, what)
  /\ ~(Works(t) /\ call[t].locked)
  /\ ~(what.at \in Working /\ what.locked)
  /\ what.at = "find" => what.due <= drivers[what.old].seq
  /\ what.at = "copy" => what.due <= drivers[what.on].seq
  /\ what.at # "carry"

LEMMA QuietKeeps ==
  ASSUME TypeOK, LockInv, TypeOK', NEW t \in Threads, NEW what, Quiet(t, what)
  PROVE  LockInv'
<1>1. /\ call'[t] = what
      /\ \A u \in Threads : u # t => call'[u] = call[u]
      /\ drivers' = drivers /\ Handles' = Handles
  BY DEF Quiet, Becomes, TypeOK, Handles
<1>2. \A h \in Handles : drivers[h].holder # t
  BY DEF Quiet, LockInv, HoldersWork
<1>3. HoldersWork'
  BY <1>1, <1>2 DEF LockInv, HoldersWork, Works
<1>4. NothingUndone'
  BY <1>1 DEF LockInv, NothingUndone
<1>5. CallInv(t, call[t])'
  BY <1>1 DEF Quiet, CallInv, Working
<1>6. ASSUME NEW u \in Threads, u # t PROVE CallInv(u, call[u])'
  <2>1. \A h \in Handles : drivers[h].seq <= drivers[h].seq
    BY DEF TypeOK, Drivers
  <2>2. QED
    BY <1>1, <1>6, <2>1, OthersStable
<1>7. QED
  BY <1>3, <1>4, <1>5, <1>6 DEF LockInv

(* Every step is one outside every mutex, or one of those that take or     *)
(* leave one, or opens a driver.                                           *)
LEMMA LockSteps ==
  ASSUME TypeOK, LockInv, [Next]_vars
  PROVE  \/ UNCHANGED <<drivers, call>>
         \/ \E t \in Threads : \E what : Quiet(t, what)
         \/ \E t \in Threads :
              \/ OpenEnds(t) \/ Lock(t) \/ DriveEnds(t) \/ DriveFails(t) \/ DrivePanics(t)
              \/ CopyEnds(t) \/ CarryEnds(t)
<1>1. CASE UNCHANGED vars
  BY <1>1 DEF vars
<1>2. ASSUME NEW t \in Threads, Asks(t)
      PROVE  /\ ~Works(t)
             /\ call[t] = Idle
  BY <1>2 DEF Asks, Works, Idle
<1>3. ASSUME NEW t \in Threads, Request(t)
      PROVE  UNCHANGED <<drivers, call>> \/ \E what : Quiet(t, what)
  <2>1. ASSUME NEW id \in Ids, NEW pack \in Packs, InstallKnown(t, id, pack)
        PROVE  UNCHANGED <<drivers, call>>
    BY <2>1 DEF InstallKnown
  <2>2. ASSUME NEW id \in Ids, NEW pack \in Packs, Install(t, id, pack)
        PROVE  Quiet(t, Installing(id, pack))
    BY <1>2, <2>2 DEF Install, Quiet, Installing, Working
  <2>3. ASSUME NEW id \in Ids, RemoveRules(t, id) PROVE UNCHANGED <<drivers, call>>
    BY <2>3 DEF RemoveRules
  <2>4. ASSUME NEW id \in Ids \cup {None}, Open(t, id) PROVE Quiet(t, Opening)
    BY <1>2, <2>4 DEF Open, Quiet, Opening, Working
  <2>5. ASSUME NEW h \in Handles, Close(t, h) PROVE Quiet(t, Closing(h))
    BY <1>2, <2>5 DEF Close, Quiet, Closing, Working
  <2>6. ASSUME NEW h \in Handles, Drive(t, h) PROVE Quiet(t, Work("drive", h, h, 0, 0))
    BY <1>2, <2>6 DEF Drive, Quiet, Work, Working
  <2>7. ASSUME NEW h \in Handles, NEW old \in Handles, CarryHandle(t, h, old)
        PROVE  Quiet(t, Finding(h, old))
    BY <1>2, <2>7 DEF CarryHandle, Quiet, Finding, Working, LockInv, NothingUndone
  <2>8. QED
    BY <1>3, <2>1, <2>2, <2>3, <2>4, <2>5, <2>6, <2>7 DEF Request
<1>4. ASSUME NEW t \in Threads,
             InstallFails(t) \/ InstallEnds(t) \/ OpenFails(t) \/ CloseEnds(t)
      PROVE  Quiet(t, Idle)
  BY <1>4 DEF InstallFails, InstallEnds, OpenFails, CloseEnds, Answers, Quiet, Idle, Works, Working
<1>5. ASSUME NEW t \in Threads, FindOld(t) PROVE \E what : Quiet(t, what)
  <2> DEFINE c == call[t]
             copy == Work("copy", c.old, c.on, 0, c.due)
  <2>1. c.due <= drivers[c.old].seq
    BY <1>5 DEF FindOld, LockInv, CallInv
  <2>2. CASE c.old \in open
    <3>1. Quiet(t, copy)
      BY <1>5, <2>1, <2>2 DEF FindOld, Quiet, Work, Works, Working
    <3>2. QED
      BY <3>1
  <2>3. CASE c.old \notin open
    <3>1. Quiet(t, Idle)
      BY <1>5, <2>3 DEF FindOld, Quiet, Idle, Works, Working
    <3>2. QED
      BY <3>1
  <2>4. QED
    BY <2>2, <2>3
<1>6. QED
  BY <1>1, <1>3, <1>4, <1>5 DEF Next, Proceed

LEMMA CountsAreNumbers ==
  ASSUME TypeOK
  PROVE  \A h \in Handles : drivers[h].seq \in Nat /\ drivers[h].answered \in Nat
  BY DEF TypeOK, Drivers

(* What a step does that takes or leaves a mutex: only thread t's call and *)
(* the drivers t holds, or comes to hold, are touched.                     *)
LEMMA LockKeeps ==
  ASSUME TypeOK, LockInv, TypeOK', NEW t \in Threads, Lock(t)
  PROVE  LockInv'
<1> DEFINE c == call[t]
           h == c.on
<1>1. c \in LiveCalls /\ ~c.locked /\ c.at \in Working
  <2>1. c \in Calls
    BY DEF TypeOK
  <2>2. QED
    BY <2>1, CallFields DEF Lock, Works, Working
<1>2. h \in Handles /\ drivers[h].holder = None /\ drivers[h].seq \in Nat /\ CallInv(t, c)
  BY <1>1 DEF LiveCalls, Lock, Free, TypeOK, Drivers, LockInv
<1>3. \A g \in Handles : drivers[g].holder # t
  BY <1>1 DEF LockInv, HoldersWork
<1>4. CASE drivers[h].poisoned
  <2>1. Quiet(t, Idle)
    BY <1>1, <1>4 DEF Lock, Answers, Quiet, Idle, Working
  <2>2. QED
    BY <2>1, QuietKeeps
<1>5. CASE ~drivers[h].poisoned
  <2> DEFINE copy == IF c.at = "carry" THEN c.copy ELSE drivers[h].seq
             locked == [c EXCEPT !.locked = TRUE, !.copy = copy]
  <2>1. drivers' = [drivers EXCEPT ![h].holder = t] /\ call' = [call EXCEPT ![t] = locked]
    BY <1>5 DEF Lock, Becomes
  <2>2. /\ Handles' = Handles
        /\ drivers'[h].holder = t /\ drivers'[h].seq = drivers[h].seq
        /\ drivers'[h].answered = drivers[h].answered
        /\ \A g \in Handles : g # h => drivers'[g] = drivers[g]
    BY <1>2, <2>1 DEF Handles, TypeOK, Drivers
  <2>3. /\ locked.at = c.at /\ locked.on = c.on /\ locked.due = c.due
        /\ locked.locked = TRUE /\ locked.copy = copy
    BY <1>1 DEF LiveCalls
  <2> HIDE DEF locked
  <2>4. call'[t] = locked /\ \A u \in Threads : u # t => call'[u] = call[u]
    BY <2>1 DEF TypeOK
  <2>5. HoldersWork'
    BY <1>1, <1>3, <2>2, <2>3, <2>4 DEF LockInv, HoldersWork, Works, Working
  <2>6. NothingUndone'
    BY <2>2 DEF LockInv, NothingUndone
  <2>7. CallInv(t, call[t])'
    BY <1>1, <1>2, <2>2, <2>3, <2>4 DEF CallInv, Working
  <2>8. ASSUME NEW u \in Threads, u # t PROVE CallInv(u, call[u])'
    <3>1. \A g \in Handles : drivers[g].seq <= drivers'[g].seq
      BY <1>2, <2>2, CountsAreNumbers
    <3>2. \A g \in Handles : drivers[g].holder = u => g # h
      BY <1>2, RegistryAssumption
    <3>3. QED
      BY <2>2, <2>4, <2>8, <3>1, <3>2, OthersStable
  <2>9. QED
    BY <2>5, <2>6, <2>7, <2>8 DEF LockInv
<1>6. QED
  BY <1>4, <1>5

(* t ends its work with the driver it holds: it drops its guard, and the   *)
(* driver's counts have grown, if they have changed.                       *)
LEMMA EndKeeps ==
  ASSUME TypeOK, LockInv, TypeOK', NEW t \in Threads, Works(t), call[t].locked,
         NEW what, Becomes(t, what), ~(what.at \in Working /\ what.locked),
         what.at \in {"idle", "carry"}, what.at = "carry" => what.due <= what.copy,
         NEW ds \in [Handles -> Drivers], drivers' = Dropped(t, ds),
         \A g \in Handles : /\ ds[g].holder = drivers[g].holder
                            /\ g # call[t].on => ds[g].seq = drivers[g].seq
                            /\ g # call[t].on => ds[g].answered = drivers[g].answered,
         drivers[call[t].on].seq <= ds[call[t].on].seq,
         ds[call[t].on].answered <= ds[call[t].on].seq
  PROVE  LockInv'
<1> DEFINE c == call[t]
           h == c.on
<1>1. c \in LiveCalls /\ c.at \in Working /\ h \in Handles
  <2>1. c \in Calls
    BY DEF TypeOK
  <2>2. QED
    BY <2>1, CallFields DEF Works, LiveCalls, Working
<1>2. drivers[h].holder = t
  BY <1>1 DEF LockInv, CallInv
<1>3. \A g \in Handles : drivers[g].holder = t => g = h
  BY DEF LockInv, HoldersWork
<1>4. Handles' = Handles
  BY DEF Handles, Dropped
<1>5. \A g \in Handles :
         /\ drivers'[g].seq = ds[g].seq
         /\ drivers'[g].answered = ds[g].answered
         /\ ds[g].holder = t => drivers'[g].holder = None
         /\ ds[g].holder # t => drivers'[g].holder = ds[g].holder
  BY DroppedDrivers
<1>6. call'[t] = what /\ \A u \in Threads : u # t => call'[u] = call[u]
  BY DEF Becomes, TypeOK
<1>7. \A g \in Handles : drivers'[g].holder # t
  BY <1>5, RegistryAssumption
<1>8. HoldersWork'
  <2>1. \A g \in Handles, u \in Threads :
           drivers'[g].holder = u => u # t /\ drivers[g].holder = u
    BY <1>5, <1>7, RegistryAssumption
  <2>2. QED
    BY <1>4, <1>6, <2>1 DEF LockInv, HoldersWork, Works
<1>9. NothingUndone'
  BY <1>1, <1>4, <1>5 DEF LockInv, NothingUndone
<1>10. CallInv(t, call[t])'
  BY <1>6 DEF CallInv, Working
<1>11. ASSUME NEW u \in Threads, u # t PROVE CallInv(u, call[u])'
  <2>1. \A g \in Handles : drivers[g].seq <= drivers'[g].seq
    BY <1>1, <1>5, CountsAreNumbers
  <2>2. \A g \in Handles : drivers[g].holder = u => /\ drivers'[g].holder = u
                                                   /\ drivers'[g].seq = drivers[g].seq
    BY <1>2, <1>5, <1>11
  <2>3. QED
    BY <1>4, <1>6, <1>11, <2>1, <2>2, OthersStable
<1>12. QED
  BY <1>8, <1>9, <1>10, <1>11 DEF LockInv

(* No request ever waits for a mutex while it holds one, and what clients  *)
(* know to be handled stays counted.                                       *)
LEMMA LocksKept == TypeOK /\ LockInv /\ [Next]_vars /\ TypeOK' => LockInv'
<1> SUFFICES ASSUME TypeOK, LockInv, [Next]_vars, TypeOK' PROVE LockInv'
  OBVIOUS
<1>1. CASE UNCHANGED <<drivers, call>>
  BY <1>1 DEF LockInv, HoldersWork, NothingUndone, CallInv, Works, Handles
<1>2. ASSUME NEW t \in Threads, NEW what, Quiet(t, what) PROVE LockInv'
  BY <1>2, QuietKeeps
<1>3. ASSUME NEW t \in Threads, OpenEnds(t) PROVE LockInv'
  <2>1. /\ Handles' = Handles \cup {next + 1} /\ next + 1 \notin Handles
        /\ \A h \in Handles : drivers'[h] = drivers[h]
        /\ drivers'[next + 1] = NewDriver
    BY <1>3 DEF OpenEnds, NextHandle, Handles, TypeOK
  <2>2. call'[t] = Idle /\ call[t].at = "open" /\ \A u \in Threads : u # t => call'[u] = call[u]
    BY <1>3 DEF OpenEnds, Answers, Becomes, TypeOK
  <2>3. HoldersWork'
    <3>1. \A u \in Threads, h \in Handles' : drivers'[h].holder = u => h \in Handles
      BY <2>1, RegistryAssumption DEF NewDriver
    <3>2. \A h \in Handles : drivers[h].holder # t
      BY <2>2 DEF LockInv, HoldersWork, Works
    <3>3. QED
      BY <2>1, <2>2, <3>1, <3>2 DEF LockInv, HoldersWork, Works
  <2>4. NothingUndone'
    BY <2>1 DEF LockInv, NothingUndone, NewDriver
  <2>5. CallInv(t, call[t])'
    BY <2>2 DEF CallInv, Idle, Working
  <2>6. ASSUME NEW u \in Threads, u # t PROVE CallInv(u, call[u])'
    BY <2>1, <2>2, <2>6, CountsAreNumbers, OthersStable
  <2>7. QED
    BY <2>3, <2>4, <2>5, <2>6 DEF LockInv
<1>4. ASSUME NEW t \in Threads,
             DriveEnds(t) \/ DriveFails(t) \/ DrivePanics(t) \/ CopyEnds(t) \/ CarryEnds(t)
      PROVE  LockInv'
  <2> DEFINE c == call[t]
             h == c.on
  <2>1. Works(t) /\ c.locked
    BY <1>4 DEF DriveEnds, DriveFails, DrivePanics, CopyEnds, CarryEnds, Ends, Works
  <2>2. c \in LiveCalls /\ CallInv(t, c)
    <3>1. c \in Calls /\ CallInv(t, c)
      BY DEF TypeOK, LockInv
    <3>2. QED
      BY <2>1, <3>1, CallFields DEF Works
  <2>3. h \in Handles /\ c.copy \in Nat /\ c.due \in Nat
    BY <2>2 DEF LiveCalls
  <2>4. /\ drivers[h].seq \in Nat /\ drivers[h].answered \in Nat
        /\ drivers[h].answered <= drivers[h].seq
    BY <2>3, CountsAreNumbers DEF LockInv, NothingUndone
  <2>5. drivers \in [Handles -> Drivers]
    BY DEF TypeOK
  <2>6. CASE DriveEnds(t)
    <3> DEFINE ds == [drivers EXCEPT ![h].seq = c.copy + 1,
                                     ![h].answered = drivers[h].answered + 1]
    <3>1. ds \in [Handles -> Drivers]
      BY <2>3, <2>4, <2>5 DEF Drivers
    <3>2. drivers' = Dropped(t, ds)
      BY <2>6 DEF DriveEnds
    <3>3. /\ ds[h].seq = c.copy + 1 /\ ds[h].answered = drivers[h].answered + 1
          /\ \A g \in Handles : /\ ds[g].holder = drivers[g].holder
                                /\ g # h => ds[g] = drivers[g]
      BY <2>3, <2>5 DEF Drivers
    <3> HIDE DEF ds
    <3>4. c.copy = drivers[h].seq
      BY <2>1, <2>2, <2>6 DEF CallInv, DriveEnds, Ends
    <3>5. drivers[h].seq <= ds[h].seq /\ ds[h].answered <= ds[h].seq
      BY <2>4, <3>3, <3>4
    <3>6. Becomes(t, Idle) /\ Idle.at = "idle"
      BY <2>6 DEF DriveEnds, Answers, Idle
    <3>7. QED
      BY <2>1, <3>1, <3>2, <3>3, <3>5, <3>6, EndKeeps DEF Working
  <2>7. CASE DriveFails(t)
    <3>1. Becomes(t, Idle) /\ Idle.at = "idle" /\ drivers' = Dropped(t, drivers)
      BY <2>7 DEF DriveFails, Answers, Idle
    <3>2. drivers[h].seq <= drivers[h].seq
      BY <2>4
    <3>3. QED
      BY <2>1, <2>4, <2>5, <3>1, <3>2, EndKeeps DEF Working
  <2>8. CASE DrivePanics(t)
    <3> DEFINE ds == [drivers EXCEPT ![h].poisoned = TRUE]
    <3>1. ds \in [Handles -> Drivers]
      BY <2>3, <2>5 DEF Drivers
    <3>2. drivers' = Dropped(t, ds)
      BY <2>8 DEF DrivePanics
    <3>3. \A g \in Handles : /\ ds[g].holder = drivers[g].holder
                            /\ ds[g].seq = drivers[g].seq
                            /\ ds[g].answered = drivers[g].answered
      BY <2>3, <2>5 DEF Drivers
    <3> HIDE DEF ds
    <3>4. Becomes(t, Idle) /\ Idle.at = "idle"
      BY <2>8 DEF DrivePanics, Answers, Idle
    <3>5. drivers[h].seq <= ds[h].seq /\ ds[h].answered <= ds[h].seq
      BY <2>3, <2>4, <3>3
    <3>6. QED
      BY <2>1, <3>1, <3>2, <3>3, <3>4, <3>5, EndKeeps DEF Working
  <2>9. CASE CopyEnds(t)
    <3> DEFINE carry == Work("carry", c.to, c.to, c.copy, c.due)
    <3>1. Becomes(t, carry) /\ drivers' = Dropped(t, drivers)
      BY <2>9 DEF CopyEnds
    <3>2. carry.at = "carry" /\ ~carry.locked /\ carry.due = c.due /\ carry.copy = c.copy
      BY DEF Work
    <3>3. carry.due <= carry.copy
      BY <2>1, <2>2, <2>9, <3>2 DEF CallInv, CopyEnds, Ends
    <3> HIDE DEF carry
    <3>4. drivers[h].seq <= drivers[h].seq
      BY <2>4
    <3>5. QED
      BY <2>1, <2>4, <2>5, <3>1, <3>2, <3>3, <3>4, EndKeeps DEF Working
  <2>10. CASE CarryEnds(t)
    <3> DEFINE ds == [drivers EXCEPT ![h].seq = Larger(drivers[h].seq, c.copy),
                                     ![h].answered = Larger(drivers[h].answered, c.due)]
    <3>1. c.due <= c.copy
      BY <2>2, <2>10 DEF CallInv, CarryEnds, Ends
    <3>2. /\ Larger(drivers[h].seq, c.copy) \in Nat
          /\ Larger(drivers[h].answered, c.due) \in Nat
          /\ drivers[h].seq <= Larger(drivers[h].seq, c.copy)
          /\ Larger(drivers[h].answered, c.due) <= Larger(drivers[h].seq, c.copy)
      BY <2>3, <2>4, <3>1 DEF Larger
    <3>3. ds \in [Handles -> Drivers]
      BY <2>3, <2>5, <3>2 DEF Drivers
    <3>4. drivers' = Dropped(t, ds)
      BY <2>10 DEF CarryEnds
    <3>5. /\ ds[h].seq = Larger(drivers[h].seq, c.copy)
          /\ ds[h].answered = Larger(drivers[h].answered, c.due)
          /\ \A g \in Handles : /\ ds[g].holder = drivers[g].holder
                                /\ g # h => ds[g] = drivers[g]
      BY <2>3, <2>5 DEF Drivers
    <3> HIDE DEF ds
    <3>6. Becomes(t, Idle) /\ Idle.at = "idle"
      BY <2>10 DEF CarryEnds, Answers, Idle
    <3>7. QED
      BY <2>1, <3>2, <3>3, <3>4, <3>5, <3>6, EndKeeps DEF Working
  <2>11. QED
    BY <1>4, <2>6, <2>7, <2>8, <2>9, <2>10
<1>5. QED
  BY <1>1, <1>2, <1>3, <1>4, LockKeeps, LockSteps

LEMMA LocksHeld == Spec => []LockInv
<1>1. Init => LockInv
  BY DEF Init, LockInv, HoldersWork, NothingUndone, CallInv, Handles, Idle, Working
<1>2. QED
  BY <1>1, LocksKept, TypeCorrect, PTL DEF Spec

(* A thread that holds a driver's mutex works with that driver: it waits   *)
(* for no other, so a request that waits is let in as soon as one that     *)
(* works ends (api.rs, carry_handle copies the old driver for this).       *)
THEOREM HoldersAlwaysWork == Spec => []HoldersWork
<1>1. LockInv => HoldersWork
  BY DEF LockInv
<1>2. QED
  BY <1>1, LocksHeld, PTL

(* A message whose handling was answered stays counted, in its driver and  *)
(* in every one that carried from it after the answer, whatever other      *)
(* threads drive, copy, carry and close meanwhile.                         *)
THEOREM AnsweredStaysCounted == Spec => []NothingUndone
<1>1. LockInv => NothingUndone
  BY DEF LockInv
<1>2. QED
  BY <1>1, LocksHeld, PTL
=============================================================================
