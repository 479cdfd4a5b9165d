------------------------------ MODULE Registry ------------------------------
(***************************************************************************)
(* The request API of the engine (api.rs): the registered rule packs, the  *)
(* drivers kept in engine memory and their locks, used by threads that do  *)
(* not know of each other.                                                 *)
(*                                                                         *)
(* Nothing waits while it holds one of the two registries, so what a       *)
(* thread does with a registry is one step.  A driver's mutex is held      *)
(* while a request works with the driver.  A request keeps the driver it   *)
(* has found, open or not, so `drivers' keeps closed ones.                 *)
(*                                                                         *)
(* Requests that only read (view, snapshot) are drives that fail, and one  *)
(* that is refused without having done anything is no step.                *)
(***************************************************************************)
EXTENDS Integers, Sequences

CONSTANTS
  None,       \* no pack, no thread
  Threads,    \* threads that call the engine
  Ids,        \* rule pack ids
  Packs,      \* contents of rule packs
  Valid,      \* the contents that pass validation
  MaxRequests \* bound: requests of one behaviour

ASSUME RegistryAssumption ==
  /\ Valid \subseteq Packs
  /\ None \notin Packs \cup Threads
  /\ MaxRequests \in Nat

VARIABLES
  packs,    \* PACKS: what is registered under each id
  next,     \* Drivers.next
  open,     \* the handles in Drivers.open
  drivers,  \* the drivers by their handles
  call,     \* what each thread is doing
  told,     \* <<id, pack>>: a client was told that the id is registered so
  closes,   \* the handles of the closes answered with true, in order
  requests  \* requests so far

vars == <<packs, next, open, drivers, call, told, closes, requests>>

(* Messages handled, and how many of them a client knows to be; the thread *)
(* that holds the mutex; whether one panicked while it did.                *)
NewDriver == [seq |-> 0, answered |-> 0, holder |-> None, poisoned |-> FALSE]

Idle == [at |-> "idle"]
Installing(id, pack) == [at |-> "install", id |-> id, pack |-> pack]
Opening == [at |-> "open"]
Closing(h) == [at |-> "close", on |-> h]
Finding(h, old) == [at |-> "find", on |-> h, old |-> old, due |-> drivers[old].answered]

(* Work with a driver, not begun before its mutex is locked.  A carry      *)
(* works with the old driver first, to copy it for the driver `to'.        *)
Work(at, on, to, copy, due) ==
  [at |-> at, on |-> on, to |-> to, copy |-> copy, due |-> due, locked |-> FALSE]

Asks(t) ==
  /\ call[t] = Idle
  /\ requests < MaxRequests
  /\ requests' = requests + 1

Becomes(t, what) == call' = [call EXCEPT ![t] = what]
Answers(t) == Becomes(t, Idle)

-----------------------------------------------------------------------------
(* Rule packs.  The registry is looked at, the pack is validated without   *)
(* the lock, and the registry is looked at again.                          *)

Tell(id, pack, registered) ==
  told' = IF registered = pack THEN told \cup {<<id, pack>>} ELSE told

InstallKnown(t, id, pack) ==
  /\ Asks(t)
  /\ packs[id] # None
  /\ Tell(id, pack, packs[id])
  /\ UNCHANGED <<packs, next, open, drivers, call, closes>>

Install(t, id, pack) ==
  /\ Asks(t)
  /\ packs[id] = None
  /\ Becomes(t, Installing(id, pack))
  /\ UNCHANGED <<packs, next, open, drivers, told, closes>>

InstallFails(t) ==
  /\ call[t].at = "install"
  /\ call[t].pack \notin Valid
  /\ Answers(t)
  /\ UNCHANGED <<packs, next, open, drivers, told, closes, requests>>

(* Variant: what was free at the first look is taken to be still free.     *)
Replaced(id, pack) == pack
Registered(id, pack) == IF packs[id] = None THEN pack ELSE packs[id]

InstallEnds(t) ==
  /\ call[t].at = "install"
  /\ call[t].pack \in Valid
  /\ LET id         == call[t].id
         registered == Registered(id, call[t].pack)
     IN  /\ packs' = [packs EXCEPT ![id] = registered]
         /\ Tell(id, call[t].pack, registered)
  /\ Answers(t)
  /\ UNCHANGED <<next, open, drivers, closes, requests>>

RemoveRules(t, id) ==
  /\ Asks(t)
  /\ packs' = [packs EXCEPT ![id] = None]
  /\ told' = {claim \in told : claim[1] # id}
  /\ UNCHANGED <<next, open, drivers, call, closes>>

-----------------------------------------------------------------------------
(* Opening and closing.                                                    *)

(* The pack is given with the request, or is the one registered under id.  *)
(* The driver has a reference of its own to it from here on.               *)
Open(t, id) ==
  /\ Asks(t)
  /\ id # None => packs[id] # None
  /\ Becomes(t, Opening)
  /\ UNCHANGED <<packs, next, open, drivers, told, closes>>

OpenFails(t) ==
  /\ call[t].at = "open"
  /\ Answers(t)
  /\ UNCHANGED <<packs, next, open, drivers, told, closes, requests>>

NextHandle == next + 1

OpenEnds(t) ==
  /\ call[t].at = "open"
  /\ next' = NextHandle
  /\ open' = open \cup {NextHandle}
  /\ drivers' = [h \in DOMAIN drivers \cup {NextHandle} |->
                   IF h = NextHandle THEN NewDriver ELSE drivers[h]]
  /\ Answers(t)
  /\ UNCHANGED <<packs, told, closes, requests>>

Close(t, h) ==
  /\ Asks(t)
  /\ h \in open
  /\ Becomes(t, Closing(h))
  /\ UNCHANGED <<packs, next, open, drivers, told, closes>>

(* Variant: the answer says what was found when the request began.         *)
WasFound(h) == TRUE
WasOpen(h) == h \in open

CloseEnds(t) ==
  /\ call[t].at = "close"
  /\ open' = open \ {call[t].on}
  /\ closes' = IF WasOpen(call[t].on) THEN Append(closes, call[t].on) ELSE closes
  /\ Answers(t)
  /\ UNCHANGED <<packs, next, drivers, told, requests>>

-----------------------------------------------------------------------------
(* Working with open drivers.                                              *)

Drive(t, h) ==
  /\ Asks(t)
  /\ h \in open
  /\ Becomes(t, Work("drive", h, h, 0, 0))
  /\ UNCHANGED <<packs, next, open, drivers, told, closes>>

(* Both drivers must be open, and are found one after the other.  A        *)
(* driver carries nothing from itself.                                     *)
CarryHandle(t, h, old) ==
  /\ Asks(t)
  /\ h \in open
  /\ old # h
  /\ Becomes(t, Finding(h, old))
  /\ UNCHANGED <<packs, next, open, drivers, told, closes>>

FindOld(t) ==
  LET c == call[t]
  IN  /\ c.at = "find"
      /\ Becomes(t, IF c.old \in open THEN Work("copy", c.old, c.on, 0, c.due) ELSE Idle)
      /\ UNCHANGED <<packs, next, open, drivers, told, closes, requests>>

Works(t) == call[t].at \in {"drive", "copy", "carry"}

(* Variant: nobody waits.                                                  *)
Unguarded(h) == TRUE
Free(h) == drivers[h].holder = None

Lock(t) ==
  LET h == call[t].on
  IN  /\ Works(t)
      /\ ~call[t].locked
      /\ Free(h)
      /\ IF drivers[h].poisoned
         THEN /\ Answers(t)
              /\ UNCHANGED drivers
         ELSE /\ Becomes(t, [call[t] EXCEPT !.locked = TRUE,
                               !.copy = IF call[t].at = "carry" THEN @ ELSE drivers[h].seq])
              /\ drivers' = [drivers EXCEPT ![h].holder = t]
      /\ UNCHANGED <<packs, next, open, told, closes, requests>>

(* The guards of t are dropped. *)
Dropped(t, ds) ==
  [h \in DOMAIN ds |-> IF ds[h].holder = t THEN [ds[h] EXCEPT !.holder = None] ELSE ds[h]]

Ends(t, at) ==
  /\ call[t].at = at
  /\ call[t].locked
  /\ UNCHANGED <<packs, next, open, told, closes, requests>>

(* The input is handled on the copy, which then takes the driver's place.  *)
DriveEnds(t) ==
  LET h == call[t].on
  IN  /\ Ends(t, "drive")
      /\ drivers' = Dropped(t, [drivers EXCEPT ![h].seq = call[t].copy + 1,
                                               ![h].answered = @ + 1])
      /\ Answers(t)

DriveFails(t) ==
  /\ Ends(t, "drive")
  /\ drivers' = Dropped(t, drivers)
  /\ Answers(t)

(* A panic is answered as an error (lib.rs) and poisons the mutex. *)
DrivePanics(t) ==
  /\ Ends(t, "drive")
  /\ drivers' = Dropped(t, [drivers EXCEPT ![call[t].on].poisoned = TRUE])
  /\ Answers(t)

(* Variant: the old driver stays locked until the request is answered.     *)
CopyKept(t) ==
  /\ Ends(t, "copy")
  /\ UNCHANGED drivers
  /\ Becomes(t, Work("carry", call[t].to, call[t].to, call[t].copy, call[t].due))

CopyEnds(t) ==
  /\ Ends(t, "copy")
  /\ drivers' = Dropped(t, drivers)
  /\ Becomes(t, Work("carry", call[t].to, call[t].to, call[t].copy, call[t].due))

Larger(a, b) == IF a > b THEN a ELSE b

CarryEnds(t) ==
  LET h == call[t].on
  IN  /\ Ends(t, "carry")
      /\ drivers' = Dropped(t, [drivers EXCEPT
                       ![h].seq = Larger(@, call[t].copy),
                       ![h].answered = Larger(@, call[t].due)])
      /\ Answers(t)

-----------------------------------------------------------------------------
Init ==
  /\ packs = [id \in Ids |-> None]
  /\ next = 0
  /\ open = {}
  /\ drivers = [h \in {} |-> NewDriver]
  /\ call = [t \in Threads |-> Idle]
  /\ told = {}
  /\ closes = <<>>
  /\ requests = 0

Handles == DOMAIN drivers

Request(t) ==
  \/ \E id \in Ids, pack \in Packs : InstallKnown(t, id, pack) \/ Install(t, id, pack)
  \/ \E id \in Ids : RemoveRules(t, id)
  \/ \E id \in Ids \cup {None} : Open(t, id)
  \/ \E h \in Handles : Close(t, h) \/ Drive(t, h)
  \/ \E h, old \in Handles : CarryHandle(t, h, old)

Proceed(t) ==
  \/ InstallFails(t)
  \/ InstallEnds(t)
  \/ OpenFails(t)
  \/ OpenEnds(t)
  \/ CloseEnds(t)
  \/ FindOld(t)
  \/ Lock(t)
  \/ DriveEnds(t)
  \/ DriveFails(t)
  \/ DrivePanics(t)
  \/ CopyEnds(t)
  \/ CarryEnds(t)

Next == \E t \in Threads : Request(t) \/ Proceed(t)

(* A thread that can go on does, and a mutex that stays free is locked.    *)
Spec == Init /\ [][Next]_vars /\ \A t \in Threads : WF_vars(Proceed(t))

-----------------------------------------------------------------------------
LiveCalls ==
  [at : {"drive", "copy", "carry"}, on : Handles, to : Handles,
   copy : Nat, due : Nat, locked : BOOLEAN]

Calls ==
  {Idle, Opening}
    \cup [at : {"install"}, id : Ids, pack : Packs]
    \cup [at : {"close"}, on : Handles]
    \cup [at : {"find"}, on : Handles, old : Handles, due : Nat]
    \cup LiveCalls

Drivers ==
  [seq : Nat, answered : Nat, holder : Threads \cup {None}, poisoned : BOOLEAN]

TypeOK ==
  /\ packs \in [Ids -> Packs \cup {None}]
  /\ next \in Nat
  /\ Handles = 1..next
  /\ open \subseteq Handles
  /\ drivers \in [Handles -> Drivers]
  /\ call \in [Threads -> Calls]
  /\ told \subseteq Ids \X Packs
  /\ closes \in Seq(Nat)
  /\ requests \in 0..MaxRequests

(* An id stands for what clients were told it stands for, until it is      *)
(* removed, however the requests that install it overlap                   *)
(* (docs/rust-engine.md: ids cannot be reused for different contents).     *)
IdsKeepContents == \A claim \in told : packs[claim[1]] = claim[2]

(* A message whose handling was answered is counted by its driver, and by  *)
(* the one that carried from it since: threads that drive, copy and carry  *)
(* at the same time undo nothing (runtime.rs commits a copy).              *)
NothingUndone == \A h \in Handles : drivers[h].answered <= drivers[h].seq

(* Of all closes of a handle, one is answered with true: the driver it was *)
(* given to was open once, and no other driver ever gets it.               *)
ClosedOnce == \A i, j \in DOMAIN closes : closes[i] = closes[j] => i = j

(* No request waits for a mutex while it holds one (api.rs, carry_handle). *)
HoldersWork ==
  \A t \in Threads, h \in Handles :
     drivers[h].holder = t => Works(t) /\ call[t].locked /\ call[t].on = h

(* Every request is answered, whatever the others do: they wait for the    *)
(* drivers they name and never for each other in a circle.                 *)
Answered == \A t \in Threads : call[t] # Idle ~> call[t] = Idle
=============================================================================
