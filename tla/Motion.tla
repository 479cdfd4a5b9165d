------------------------------- MODULE Motion -------------------------------
(***************************************************************************)
(* The cover motion tracker (driver/cover.rs, Motion): a pure function     *)
(* from the tracker's memory and one report to the cover_state the report  *)
(* implies.  It decides between the five published states from the command *)
(* word, the target position and the current position of a cover.          *)
(*                                                                         *)
(* A DP code the cover does not have is None, and so is the value of a     *)
(* code that was never reported.  Positions are integers in the IL's       *)
(* direction: 0 is closed and 100 is open.                                 *)
(***************************************************************************)
EXTENDS Integers

CONSTANTS
  None,          \* Rust's Option::None and JSON's null
  Unpublished,   \* no output about a property: what was published stands
  Mode,          \* Motion.mode: "control", "inferred" or "none"
  InvertReport,  \* Motion.invert_report: swap opening and closing of control reports
  Settle,        \* Motion.settle, in seconds: 0 when moves never settle by time
  Command,       \* the DP code of the control word, or None
  Target,        \* the DP code of an independent target position, or None
  Position       \* the DP code of the current position, or None

ASSUME MotionAssumption ==
  /\ Mode \in {"control", "inferred", "none"}
  /\ InvertReport \in BOOLEAN
  /\ Settle \in Nat
  /\ None \notin Int
  /\ {None, Unpublished} \cap {"opening", "closing", "stopped", "open", "closed"} = {}
  /\ None # Unpublished
  /\ Target # None => Target # Position
  /\ Mode = "control" => Command # None

Directions == {"opening", "closing"}
MotionStates == Directions \cup {"stopped"}
CoverStates == MotionStates \cup {"open", "closed"}

(* What one report does to a timer of the host. *)
TimerEffects == {"keep", "set", "cancel"}

(* The tracker's memory. *)
Trackers == [state : MotionStates \cup {None}, target : Int \cup {None},
             byWord : BOOLEAN, last : Int \cup {None}]
Reset == [state |-> None, target |-> None, byWord |-> FALSE, last |-> None]

(* Variant: positions are taken for fractions. *)
RestingFraction(pos) == IF pos <= 0 THEN "closed" ELSE IF pos >= 1 THEN "open" ELSE "stopped"
Resting(pos) == IF pos <= 0 THEN "closed" ELSE IF pos >= 100 THEN "open" ELSE "stopped"

(* Variant: the end positions are not told from the others. *)
StoppedOr(pos, unknown) == IF pos = None THEN unknown ELSE "stopped"
RestingOr(pos, unknown) == IF pos = None THEN unknown ELSE Resting(pos)

Pos(st) == IF Position = None THEN None ELSE st[Position]
Noted(m, pos) == IF pos = None THEN m ELSE [m EXCEPT !.last = pos]

Opposite(dir) == IF dir = "opening" THEN "closing" ELSE "opening"
EndOf(dir) == IF dir = "opening" THEN 100 ELSE 0

(* The motion a control word names; None for a word that names none. *)
Word(word) ==
  CASE word = "stop"  -> "stopped"
    [] word = "open"  -> "opening"
    [] word = "close" -> "closing"
    [] OTHER          -> None

-----------------------------------------------------------------------------
(* Modes "control" and "none": a live word is the state, and anything else *)
(* that is relevant reports the position at rest.                          *)

Reported(word) ==
  LET dir == Word(word)
  IN  IF InvertReport /\ dir \in Directions THEN Opposite(dir) ELSE dir

(* Variant: the tracker goes on believing in a move it has reported over. *)
KeptAtRest(m) == m
AtRest(m) == Reset

UpdateReported(m, st, changed, active) ==
  LET pos   == Pos(st)
      noted == Noted(m, pos)
      live  == active /\ Mode = "control"
      said  == IF live /\ Command \in changed THEN Reported(st[Command]) ELSE None
      quiet == [tracker |-> noted, state |-> Unpublished, timer |-> "keep"]
  IN  IF {Command, Position} \cap changed = {} THEN quiet
      ELSE IF said # None
        THEN [tracker |-> [noted EXCEPT !.state = said], state |-> said, timer |-> "keep"]
      ELSE IF live /\ m.state \in Directions THEN quiet
      ELSE [tracker |-> AtRest(noted), state |-> RestingOr(pos, None), timer |-> "keep"]

-----------------------------------------------------------------------------
(* Mode "inferred": each case answers with the tracker and in "next" the   *)
(* motion it finds, None when it finds nothing new.                        *)

Found(m, next, target, byWord) ==
  [tracker |-> [m EXCEPT !.target = target, !.byWord = byWord], next |-> next]
Nothing(m) == [tracker |-> m, next |-> None]

(* A control word starts a move to an end, or stops it. *)
Commanded(m, word) ==
  LET dir == Word(word)
  IN  IF dir \in Directions THEN Found(m, dir, EndOf(dir), TRUE)
      ELSE [tracker |-> m, next |-> dir]

(* A new target is compared with the current position. *)
Targeted(m, pos, target) ==
  IF target = None THEN Nothing(m)
  ELSE Found(m, CASE target = pos -> "stopped"
                  [] target > pos -> "opening"
                  [] OTHER        -> "closing", target, FALSE)

(* Position feedback of a moving cover: it corrects the direction a word   *)
(* named, and finds the arrival at the target.                             *)
Followed(m, last, pos) ==
  LET heading  == IF pos > last THEN "opening" ELSE "closing"
      turned   == m.byWord /\ last # None /\ last # pos /\ m.state # heading
      moving   == IF turned THEN heading ELSE m.state
      target   == IF turned THEN EndOf(heading) ELSE m.target
      arrived  == target # None /\ IF moving = "opening" THEN pos >= target ELSE pos <= target
  IN  [tracker |-> [m EXCEPT !.target = target],
       next    |-> IF arrived THEN "stopped" ELSE IF turned THEN heading ELSE None]

Live(m, last, pos, st, changed) ==
  IF Command \in changed THEN Commanded(m, st[Command])
  ELSE IF Target \in changed /\ pos # None THEN Targeted(m, pos, st[Target])
  ELSE IF Position \in changed /\ pos # None
    THEN IF m.state \in Directions THEN Followed(m, last, pos)
         ELSE [tracker |-> m, next |-> "stopped"]
  ELSE Nothing(m)

(* Variant: a word starts a move whatever the position. *)
NeverAtEnd(pos, moving) == FALSE

(* A cover at an end does not move towards it. *)
AtEnd(pos, moving) ==
  /\ pos # None
  /\ \/ pos <= 0 /\ moving = "closing"
     \/ pos >= 100 /\ moving = "opening"

Current(m, next) == IF next = None THEN m.state ELSE next

Observed(m, last, pos, st, changed, active, timer) ==
  IF timer THEN [tracker |-> m, next |-> IF m.state \in Directions THEN "stopped" ELSE None]
  ELSE IF ~active
    THEN [tracker |-> m, next |-> IF pos # None /\ {Command, Position, Target} \cap changed # {}
                                  THEN "stopped" ELSE None]
  ELSE LET found == Live(m, last, pos, st, changed)
       IN  IF AtEnd(pos, Current(m, found.next)) THEN [found EXCEPT !.next = "stopped"] ELSE found

(* Variants: the timer is only ever cancelled; it follows the motion       *)
(* before the report.                                                      *)
SettleTimerOnce(m, after) == IF after.state \in Directions THEN "keep" ELSE "cancel"

SettleTimerBefore(m, after) ==
  IF Settle = 0 THEN "keep" ELSE IF m.state \in Directions THEN "set" ELSE "cancel"

(* A moving cover's settle timer starts again with every report. *)
SettleTimerFor(m, after) ==
  IF Settle = 0 THEN "keep" ELSE IF after.state \in Directions THEN "set" ELSE "cancel"

UpdateInferred(m, st, changed, active, timer) ==
  LET pos   == Pos(st)
      seen  == Observed(Noted(m, pos), m.last, pos, st, changed, active, timer)
      next  == seen.next
      after == [seen.tracker EXCEPT !.state = Current(m, next)]
  IN  [tracker |-> IF next = "stopped" THEN [after EXCEPT !.target = None, !.byWord = FALSE] ELSE after,
       state   |-> CASE next = None      -> Unpublished
                     [] next = "stopped" -> RestingOr(pos, "stopped")
                     [] OTHER            -> next,
       timer   |-> IF timer THEN "keep" ELSE SettleTimerFor(m, after)]

Update(m, st, changed, active, timer) ==
  IF Mode = "inferred" THEN UpdateInferred(m, st, changed, active, timer)
  ELSE UpdateReported(m, st, changed, active)
=============================================================================
