------------------------------ MODULE Binding -------------------------------
(***************************************************************************)
(* The Python binding (native.py, driver.py): threads construct drivers,   *)
(* which registers their rule packs, and release packs.  A set remembers   *)
(* which packs the engine has, and no lock joins it to the engine's own    *)
(* registry.                                                               *)
(*                                                                         *)
(* An id is the hash of its pack, so that all installs of an id install    *)
(* the same, and an install is one step: finding it or putting it there    *)
(* (Registry has the steps between).                                       *)
(***************************************************************************)
EXTENDS Naturals

CONSTANTS
  Threads, \* threads of the host
  Ids,     \* the ids of its rule packs
  Valid,   \* those whose packs pass validation
  MaxUsers \* bound: drivers that use one id at a time

ASSUME BindingAssumption == Valid \subseteq Ids /\ MaxUsers \in Nat \ {0}

VARIABLES
  installed, \* _installed: the ids the binding takes to be registered
  packs,     \* the ids that are
  call,      \* what each thread is doing, and with which id
  users,     \* how many drivers go on to name each id
  overlapped \* the ids released while a driver was made with them

pythonVars == <<installed, packs, call, users, overlapped>>

Idle == [at |-> "idle"]
Calls == {Idle} \cup [at : {"install", "remember", "use", "remove"}, id : Ids]

PythonTypeOK ==
  /\ installed \subseteq Ids /\ packs \subseteq Valid
  /\ call \in [Threads -> Calls]
  /\ users \in [Ids -> 0..MaxUsers]
  /\ overlapped \subseteq Ids

PythonInit ==
  /\ installed = {} /\ packs = {}
  /\ call = [t \in Threads |-> Idle]
  /\ users = [id \in Ids |-> 0]
  /\ overlapped = {}

Becomes(t, at, id) == call' = [call EXCEPT ![t] = [at |-> at, id |-> id]]
Returns(t) == call' = [call EXCEPT ![t] = Idle]
At(t, at) == call[t].at = at

Busy(id, ats) == \E t \in Threads : call[t].at \in ats /\ call[t].id = id
Using == {"install", "remember", "use"}

(* Variant: what another thread is installing is taken to be registered.   *)
KnownOrComing(id) == id \in installed \/ Busy(id, {"install"})
Known(id) == id \in installed

(* register_rules: what is remembered is not installed again.              *)
Register(t, id) ==
  /\ At(t, "idle")
  /\ Becomes(t, IF Known(id) THEN "use" ELSE "install", id)
  /\ overlapped' = IF Busy(id, {"remove"}) THEN overlapped \cup {id} ELSE overlapped
  /\ UNCHANGED <<installed, packs, users>>

Install(t) ==
  /\ At(t, "install") /\ call[t].id \in Valid
  /\ packs' = packs \cup {call[t].id}
  /\ Becomes(t, "remember", call[t].id)
  /\ UNCHANGED <<installed, users, overlapped>>

InstallFails(t) ==
  /\ At(t, "install") /\ call[t].id \notin Valid
  /\ Returns(t)
  /\ UNCHANGED <<installed, packs, users, overlapped>>

Remember(t) ==
  /\ At(t, "remember")
  /\ installed' = installed \cup {call[t].id}
  /\ Becomes(t, "use", call[t].id)
  /\ UNCHANGED <<packs, users, overlapped>>

(* The driver is made with the id: one the engine keeps needs it no more,  *)
(* one that is passed as JSON names it in every request.                   *)
Open(t) ==
  /\ At(t, "use") /\ call[t].id \in packs
  /\ Returns(t)
  /\ UNCHANGED <<installed, packs, users, overlapped>>

Create(t) ==
  /\ At(t, "use") /\ call[t].id \in packs
  /\ users[call[t].id] < MaxUsers
  /\ users' = [users EXCEPT ![call[t].id] = @ + 1]
  /\ Returns(t)
  /\ UNCHANGED <<installed, packs, overlapped>>

(* A refused device, or an id that is not registered.                      *)
OpenFails(t) ==
  /\ At(t, "use")
  /\ Returns(t)
  /\ UNCHANGED <<installed, packs, users, overlapped>>

LastUse(id) ==
  /\ users[id] > 0
  /\ users' = [users EXCEPT ![id] = @ - 1]
  /\ UNCHANGED <<installed, packs, call, overlapped>>

-----------------------------------------------------------------------------
(* unregister_rules, "after its last driver stops using this ID".  That    *)
(* leaves a driver that is being made while the id is released, here or in *)
(* between the two steps.                                                  *)

(* Variant: the engine releases the pack, the binding remembers it.        *)
StillInstalled(id) == installed
Forgotten(id) == installed \ {id}

Unregister(t, id) ==
  /\ At(t, "idle")
  /\ users[id] = 0
  /\ installed' = Forgotten(id)
  /\ Becomes(t, "remove", id)
  /\ overlapped' = IF Busy(id, Using) THEN overlapped \cup {id} ELSE overlapped \ {id}
  /\ UNCHANGED <<packs, users>>

Remove(t) ==
  /\ At(t, "remove")
  /\ packs' = packs \ {call[t].id}
  /\ Returns(t)
  /\ UNCHANGED <<installed, users, overlapped>>

PythonNext ==
  \/ \E t \in Threads :
       \/ \E id \in Ids : Register(t, id) \/ Unregister(t, id)
       \/ Install(t) \/ InstallFails(t) \/ Remember(t)
       \/ Open(t) \/ Create(t) \/ OpenFails(t) \/ Remove(t)
  \/ \E id \in Ids : LastUse(id)

PythonSpec == PythonInit /\ [][PythonNext]_pythonVars

-----------------------------------------------------------------------------
(* What the binding remembers the engine has: otherwise no driver could be *)
(* made with the pack until somebody releases it again.  It is so for      *)
(* every id that was not released while a driver was made with it, and     *)
(* again once it has been released with no driver being made               *)
(* (native.py:60-63 and 69-70, two steps each without a lock).             *)
CacheIsTrue == installed \ overlapped \subseteq packs

(* A driver finds its pack, when it is made and in every later request     *)
(* that names the id, however many are made and packs released at once,    *)
(* with the same exception.                                                *)
UsersFindPacks ==
  \A id \in Ids \ overlapped : users[id] > 0 \/ Busy(id, {"use"}) => id \in packs
=============================================================================
