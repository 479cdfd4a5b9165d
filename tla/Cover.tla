------------------------------- MODULE Cover --------------------------------
(***************************************************************************)
(* An inferred cover in time: a curtain that moves, reports some of its    *)
(* movement and may stop without a word, the motion tracker of             *)
(* driver/cover.rs that hears it, and the host that runs its settle timer. *)
(*                                                                         *)
(* Time passes in ticks of a second.  The curtain and the host are not in  *)
(* the repository; what they may do is what the tracker is built to bear:  *)
(* reports that are lost, reports of other DPs, and snapshots at any time. *)
(***************************************************************************)
EXTENDS Motion

CONSTANTS
  Places, \* the positions the curtain reports, the ends 0 and 100 among them
  Other   \* a DP code that has nothing to do with the cover

ASSUME CoverAssumption ==
  /\ Mode = "inferred"
  /\ Settle > 0
  /\ {0, 100} \subseteq Places
  /\ \A p \in Places : p \in 0..100
  /\ Command # None /\ Position # None /\ Command # Position /\ Target = None
  /\ Other \notin {None, Command, Position}

VARIABLES
  place,  \* where the curtain is
  motor,  \* where it runs to, None while it stands
  word,   \* the control word reported last
  known,  \* the position reported last
  motion, \* the tracker
  shown,  \* the published cover_state
  left,   \* seconds until the settle timer expires, None while it is not set
  quiet,  \* seconds since the cover's own DPs were last heard of, at most Settle + 1
  idle    \* seconds since the device was last heard of, at most Settle + 1

vars == <<place, motor, word, known, motion, shown, left, quiet, idle>>

Table(w, p) == [c \in {Command, Position} |-> IF c = Command THEN w ELSE p]

Published(state) == IF state = Unpublished THEN shown ELSE state

(* Driver::handle of a message, for the tracker and its timer. *)
Heard(w, p, changed, active) ==
  LET found == Update(motion, Table(w, p), changed, active, FALSE)
  IN  /\ word' = w
      /\ known' = p
      /\ motion' = found.tracker
      /\ shown' = Published(found.state)
      /\ left' = CASE found.timer = "set"    -> Settle
                   [] found.timer = "cancel" -> None
                   [] OTHER                  -> left
      /\ idle' = 0

Runs(w) == CASE w = "open" -> 100 [] w = "close" -> 0 [] OTHER -> None

(* The curtain obeys a word and reports it. *)
Order(w) ==
  /\ motor' = IF Runs(w) = place THEN None ELSE Runs(w)
  /\ Heard(w, known, {Command}, TRUE)
  /\ quiet' = 0
  /\ UNCHANGED place

(* It comes to the next place on its way. *)
Ahead(p) ==
  /\ motor # None
  /\ IF motor > place THEN p > place ELSE p < place
  /\ \A q \in Places : ~(place < q /\ q < p) /\ ~(p < q /\ q < place)
  /\ place' = p
  /\ motor' = IF p = motor THEN None ELSE motor

Slide(p) ==
  /\ Ahead(p)
  /\ Heard(word, p, {Position}, TRUE)
  /\ quiet' = 0

SlideUnheard(p) == Ahead(p) /\ UNCHANGED <<word, known, motion, shown, left, quiet, idle>>

(* It is stopped by hand or by an obstacle and reports nothing. *)
Stall ==
  /\ motor # None
  /\ motor' = None
  /\ UNCHANGED <<place, word, known, motion, shown, left, quiet, idle>>

(* A snapshot that tells a new position. *)
Snapshot ==
  /\ known # place
  /\ Heard(word, place, {Position}, FALSE)
  /\ quiet' = 0
  /\ UNCHANGED <<place, motor>>

(* A report of another DP, or a snapshot of what is known. *)
Chatter ==
  /\ \/ Heard(word, known, {Other}, TRUE)
     \/ known = place /\ Heard(word, known, {}, FALSE)
  /\ UNCHANGED <<place, motor, quiet>>

Later(seconds) == IF seconds > Settle THEN seconds ELSE seconds + 1

(* A second passes; a timer that is due is delivered first. *)
Tick ==
  /\ left # 0
  /\ left' = IF left = None THEN None ELSE left - 1
  /\ quiet' = Later(quiet)
  /\ idle' = Later(idle)
  /\ UNCHANGED <<place, motor, word, known, motion, shown>>

SettleDue ==
  LET found == Update(motion, Table(word, known), {}, FALSE, TRUE)
  IN  /\ left = 0
      /\ left' = None
      /\ motion' = found.tracker
      /\ shown' = Published(found.state)
      /\ UNCHANGED <<place, motor, word, known, quiet, idle>>

Init ==
  /\ place \in Places
  /\ motor = None
  /\ word = None
  /\ known = None
  /\ motion = Reset
  /\ shown = None
  /\ left = None
  /\ quiet = 0
  /\ idle = 0

Device ==
  \/ \E w \in {"open", "close", "stop"} : Order(w)
  \/ \E p \in Places : Slide(p) \/ SlideUnheard(p)
  \/ Stall
  \/ Snapshot
  \/ Chatter

Next == Device \/ Tick \/ SettleDue

(* Time passes and the host delivers what is due; the device owes nothing. *)
Spec == Init /\ [][Next]_vars /\ WF_vars(Tick) /\ WF_vars(SettleDue)

-----------------------------------------------------------------------------
TypeOK ==
  /\ place \in Places
  /\ motor \in {0, 100, None}
  /\ known \in Places \cup {None}
  /\ motion \in Trackers
  /\ shown \in CoverStates \cup {None}
  /\ left \in 0..Settle \cup {None}
  /\ quiet \in 0..Settle + 1
  /\ idle \in 0..Settle + 1

(* A move is shown for no longer than settle seconds after the device was  *)
(* last heard of: the timer is never lost between two reports.             *)
SettlesAfterSilence == shown \in Directions => left # None /\ idle + left <= Settle

(* A move is shown for no longer than settle seconds after the last report *)
(* of the cover, as docs/device-customization.md says of "settle".          *)
SettlesInTime == shown \in Directions => quiet <= Settle

(* Once the device falls silent for good, a shown move ends for good, even *)
(* if its last reports were lost.                                          *)
SilenceSettles == <>[][~Device]_vars => <>[](shown \notin Directions)

(* A cover is shown open or closed only where it last reported to be, not  *)
(* where a word or a target sent it.                                       *)
EndsAreReported ==
  /\ shown = "open" => known = 100
  /\ shown = "closed" => known = 0
=============================================================================
