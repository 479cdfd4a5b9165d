---------------------------- MODULE MotionProofs ----------------------------
(***************************************************************************)
(* Facts about the motion tracker, for every mode, settle time and cover.  *)
(***************************************************************************)
EXTENDS Motion, TLAPS

(* The tracker answers every report with an order for its timer.           *)
LEMMA UpdateTimer ==
  ASSUME NEW m, NEW st, NEW changed, NEW active, NEW timer
  PROVE  Update(m, st, changed, active, timer).timer \in TimerEffects
<1>1. UpdateInferred(m, st, changed, active, timer).timer \in TimerEffects
  BY DEF UpdateInferred, SettleTimerFor, TimerEffects
<1>2. UpdateReported(m, st, changed, active).timer \in TimerEffects
  BY DEF UpdateReported, TimerEffects
<1>3. QED
  BY <1>1, <1>2 DEF Update


(* What is known of a cover are positions and targets, or nothing.         *)
Known(st) ==
  /\ Position # None => st[Position] \in Int \cup {None}
  /\ Target # None => st[Target] \in Int \cup {None}

LEMMA PosType == ASSUME NEW st, Known(st) PROVE Pos(st) \in Int \cup {None}
BY DEF Known, Pos

LEMMA NotedType ==
  ASSUME NEW m \in Trackers, NEW pos \in Int \cup {None}
  PROVE  Noted(m, pos) \in Trackers /\ Noted(m, pos).state = m.state
BY DEF Noted, Trackers

LEMMA RestingOrType ==
  ASSUME NEW pos \in Int \cup {None}, NEW unknown
  PROVE  RestingOr(pos, unknown) \in {"closed", "open", "stopped", unknown}
BY DEF RestingOr, Resting

LEMMA WordType == ASSUME NEW word PROVE Word(word) \in MotionStates \cup {None}
BY DEF Word, MotionStates, Directions

(* An answer of the inferring tracker to a report. *)
Answer(r) ==
  /\ r.tracker \in Trackers
  /\ r.next \in MotionStates \cup {None}

(* No case of the inferring tracker changes the motion itself: the motion  *)
(* it finds does.                                                          *)
LEMMA ObservedType ==
  ASSUME NEW m \in Trackers, NEW last \in Int \cup {None}, NEW st, Known(st), NEW changed,
         None \notin changed, NEW active, NEW timer
  PROVE  /\ Answer(Observed(m, last, Pos(st), st, changed, active, timer))
         /\ Observed(m, last, Pos(st), st, changed, active, timer).tracker.state = m.state
<1> DEFINE pos == Pos(st)
           Good(r) == Answer(r) /\ r.tracker.state = m.state
<1>1. pos \in Int \cup {None}
  BY PosType
<1>2. ASSUME NEW word PROVE Good(Commanded(m, word))
  <2>1. ASSUME NEW end \in Int
        PROVE  /\ [m EXCEPT !.target = end, !.byWord = TRUE] \in Trackers
               /\ [m EXCEPT !.target = end, !.byWord = TRUE].state = m.state
    BY DEF Trackers
  <2>2. CASE Word(word) \in Directions
    <3> DEFINE moved == [m EXCEPT !.target = EndOf(Word(word)), !.byWord = TRUE]
    <3>1. EndOf(Word(word)) \in Int
      BY DEF EndOf
    <3>2. moved \in Trackers /\ moved.state = m.state
      BY <2>1, <3>1
    <3>3. Commanded(m, word) = [tracker |-> moved, next |-> Word(word)]
      BY <2>2 DEF Commanded, Found
    <3> HIDE DEF moved
    <3>4. QED
      BY <2>2, <3>2, <3>3 DEF Answer, MotionStates
  <2>3. CASE Word(word) \notin Directions
    BY <2>3, WordType DEF Commanded, Answer
  <2>4. QED
    BY <2>2, <2>3
<1>3. ASSUME NEW target \in Int \cup {None} PROVE Good(Targeted(m, pos, target))
  BY DEF Targeted, Found, Nothing, Answer, Trackers, MotionStates, Directions
<1>4. Good(Followed(m, last, pos))
  BY DEF Followed, Answer, Trackers, MotionStates, Directions, EndOf
<1>5. Good(Live(m, last, pos, st, changed))
  <2>1. Target \in changed => st[Target] \in Int \cup {None}
    BY DEF Known
  <2>2. Good([tracker |-> m, next |-> "stopped"]) /\ Good(Nothing(m))
    BY DEF Answer, Nothing, MotionStates
  <2>3. QED
    BY <1>2, <1>3, <1>4, <2>1, <2>2 DEF Live
<1>6. QED
  BY <1>5 DEF Observed, Answer, MotionStates

LEMMA UpdateInferredType ==
  ASSUME NEW m \in Trackers, NEW st, Known(st), NEW changed, None \notin changed,
         NEW active, NEW timer
  PROVE  /\ UpdateInferred(m, st, changed, active, timer).tracker \in Trackers
         /\ UpdateInferred(m, st, changed, active, timer).state \in CoverStates \cup {Unpublished}
<1> DEFINE pos  == Pos(st)
           seen == Observed(Noted(m, pos), m.last, pos, st, changed, active, timer)
<1>1. pos \in Int \cup {None}
  BY PosType
<1>2. Noted(m, pos) \in Trackers /\ m.last \in Int \cup {None}
  BY <1>1, NotedType DEF Trackers
<1>3. Answer(seen)
  BY <1>2, ObservedType
<1> HIDE DEF seen
<1>4. UpdateInferred(m, st, changed, active, timer).tracker \in Trackers
  <2> DEFINE after == [seen.tracker EXCEPT !.state = Current(m, seen.next)]
  <2>1. Current(m, seen.next) \in MotionStates \cup {None}
    BY <1>3 DEF Answer, Current, Trackers
  <2>2. after \in Trackers
    BY <1>3, <2>1 DEF Answer, Trackers
  <2>3. [after EXCEPT !.target = None, !.byWord = FALSE] \in Trackers
    BY <2>2 DEF Trackers
  <2>4. QED
    BY <2>2, <2>3 DEF UpdateInferred, seen
<1>5. UpdateInferred(m, st, changed, active, timer).state \in CoverStates \cup {Unpublished}
  BY <1>1, <1>3, RestingOrType DEF UpdateInferred, seen, Answer, CoverStates, MotionStates, Directions
<1>6. QED
  BY <1>4, <1>5

LEMMA UpdateReportedType ==
  ASSUME NEW m \in Trackers, NEW st, Known(st), NEW changed, NEW active
  PROVE  /\ UpdateReported(m, st, changed, active).tracker \in Trackers
         /\ UpdateReported(m, st, changed, active).state \in CoverStates \cup {None, Unpublished}
<1> DEFINE noted == Noted(m, Pos(st))
<1>1. Pos(st) \in Int \cup {None} /\ noted \in Trackers
  BY PosType, NotedType
<1>2. ASSUME NEW word PROVE Reported(word) \in MotionStates \cup {None}
  BY WordType DEF Reported, Opposite, MotionStates, Directions
<1>3. ASSUME NEW said \in MotionStates PROVE [noted EXCEPT !.state = said] \in Trackers
  BY <1>1 DEF Trackers
<1>4. AtRest(noted) \in Trackers
  BY DEF AtRest, Reset, Trackers
<1>5. UpdateReported(m, st, changed, active).tracker \in Trackers
  BY <1>1, <1>2, <1>3, <1>4 DEF UpdateReported
<1>6. UpdateReported(m, st, changed, active).state \in CoverStates \cup {None, Unpublished}
  BY <1>1, <1>2, RestingOrType DEF UpdateReported, CoverStates, MotionStates
<1>7. QED
  BY <1>5, <1>6

(* Whatever is reported, the tracker remembers a motion and publishes a    *)
(* state of a cover, its absence, or nothing.                              *)
LEMMA UpdateType ==
  ASSUME NEW m \in Trackers, NEW st, Known(st), NEW changed, None \notin changed,
         NEW active, NEW timer
  PROVE  /\ Update(m, st, changed, active, timer).tracker \in Trackers
         /\ Update(m, st, changed, active, timer).state \in CoverStates \cup {None, Unpublished}
         /\ Update(m, st, changed, active, timer).timer \in TimerEffects
BY UpdateInferredType, UpdateReportedType, UpdateTimer DEF Update

-----------------------------------------------------------------------------
(* The inferring tracker publishes a move exactly when it holds one, and   *)
(* sets its timer for as long as it does.                                  *)
LEMMA InferredFollows ==
  ASSUME Mode = "inferred", Settle > 0, NEW m \in Trackers, NEW st, Known(st), NEW changed,
         None \notin changed, NEW active
  PROVE  LET r == Update(m, st, changed, active, FALSE)
         IN  /\ r.state = Unpublished => r.tracker.state = m.state
             /\ r.state # Unpublished =>
                  (r.state \in Directions <=> r.tracker.state \in Directions)
             /\ r.timer = IF r.tracker.state \in Directions THEN "set" ELSE "cancel"
<1> DEFINE pos  == Pos(st)
           seen == Observed(Noted(m, pos), m.last, pos, st, changed, active, FALSE)
           r    == UpdateInferred(m, st, changed, active, FALSE)
<1>1. pos \in Int \cup {None} /\ Noted(m, pos) \in Trackers /\ m.last \in Int \cup {None}
  BY PosType, NotedType DEF Trackers
<1>2. Answer(seen)
  BY <1>1, ObservedType
<1> HIDE DEF seen
<1>3. r.tracker.state = Current(m, seen.next)
  BY <1>2 DEF UpdateInferred, seen, Answer, Trackers
<1>4. r.timer = IF Current(m, seen.next) \in Directions THEN "set" ELSE "cancel"
  <2> DEFINE after == [seen.tracker EXCEPT !.state = Current(m, seen.next)]
  <2>1. after.state = Current(m, seen.next)
    BY <1>2 DEF Answer, Trackers
  <2>2. r.timer = SettleTimerFor(m, after)
    BY DEF UpdateInferred, seen
  <2>3. SettleTimerFor(m, after) = IF after.state \in Directions THEN "set" ELSE "cancel"
    <3> HIDE DEF after
    <3> QED
      BY MotionAssumption DEF SettleTimerFor
  <2> HIDE DEF after, r
  <2>4. QED
    BY <2>1, <2>2, <2>3
<1>5. r.state = CASE seen.next = None      -> Unpublished
                  [] seen.next = "stopped" -> RestingOr(pos, "stopped")
                  [] OTHER                 -> seen.next
  BY DEF UpdateInferred, seen
<1>6. RestingOr(pos, "stopped") \in {"closed", "open", "stopped"}
  BY <1>1, RestingOrType
<1>7. /\ r.state = Unpublished => r.tracker.state = m.state
      /\ r.state # Unpublished => (r.state \in Directions <=> r.tracker.state \in Directions)
  BY <1>2, <1>3, <1>5, <1>6, MotionAssumption DEF Answer, Current, MotionStates, Directions
<1>8. QED
  BY <1>3, <1>4, <1>7 DEF Update

(* The settle timer ends a move: after it the tracker holds none and says  *)
(* where the cover rests.                                                  *)
LEMMA SettleEnds ==
  ASSUME Mode = "inferred", NEW m \in Trackers, NEW st, Known(st), NEW changed, NEW active
  PROVE  LET r == Update(m, st, changed, active, TRUE)
         IN  /\ r.tracker.state \notin Directions
             /\ IF m.state \in Directions THEN r.state \in CoverStates \ Directions
                ELSE r.state = Unpublished
<1> DEFINE pos == Pos(st)
           r   == UpdateInferred(m, st, changed, active, TRUE)
<1>1. pos \in Int \cup {None} /\ Noted(m, pos) \in Trackers /\ Noted(m, pos).state = m.state
  BY PosType, NotedType
<1>2. RestingOr(pos, "stopped") \in {"closed", "open", "stopped"}
  BY <1>1, RestingOrType
<1>3. r.state = IF m.state \in Directions THEN RestingOr(pos, "stopped") ELSE Unpublished
  BY <1>1, MotionAssumption DEF UpdateInferred, Observed
<1>4. r.tracker.state = IF m.state \in Directions THEN "stopped" ELSE m.state
  BY <1>1, MotionAssumption DEF UpdateInferred, Observed, Current, Trackers
<1>5. QED
  BY <1>2, <1>3, <1>4 DEF Update, CoverStates, MotionStates, Directions

(* An end is published only where the position is; and news of a position  *)
(* is passed over in silence only in the middle of a move.                 *)
LEMMA EndsOfInferred ==
  ASSUME Mode = "inferred", Command # Position, NEW m \in Trackers, NEW st, Known(st),
         NEW changed, None \notin changed, NEW active, NEW timer
  PROVE  LET r   == Update(m, st, changed, active, timer)
             pos == Pos(st)
         IN  /\ r.state = "open" => pos # None /\ pos >= 100
             /\ r.state = "closed" => pos # None /\ pos <= 0
             /\ r.state = Unpublished /\ ~timer /\ changed = {Position} /\ pos # None =>
                  m.state \in Directions
<1> DEFINE pos  == Pos(st)
           seen == Observed(Noted(m, pos), m.last, pos, st, changed, active, timer)
           r    == UpdateInferred(m, st, changed, active, timer)
<1>1. /\ pos \in Int \cup {None} /\ m.last \in Int \cup {None}
      /\ Noted(m, pos) \in Trackers /\ Noted(m, pos).state = m.state
  BY PosType, NotedType DEF Trackers
<1>2. Answer(seen)
  BY <1>1, ObservedType
<1>3. r.state = CASE seen.next = None      -> Unpublished
                  [] seen.next = "stopped" -> RestingOr(pos, "stopped")
                  [] OTHER                 -> seen.next
  BY DEF UpdateInferred
<1>4. RestingOr(pos, "stopped") = IF pos = None THEN "stopped" ELSE IF pos <= 0 THEN "closed"
                                  ELSE IF pos >= 100 THEN "open" ELSE "stopped"
  BY DEF RestingOr, Resting
<1>5. /\ r.state = "open" => pos # None /\ pos >= 100
      /\ r.state = "closed" => pos # None /\ pos <= 0
      /\ r.state = Unpublished => seen.next = None
  <2> HIDE DEF seen, pos
  <2>1. seen.next \in {None, "opening", "closing", "stopped"}
    BY <1>2 DEF Answer, MotionStates, Directions
  <2>2. r.state \in {Unpublished, "opening", "closing", RestingOr(pos, "stopped")}
    BY <2>1, <1>3
  <2>3. QED
    BY <1>1, <1>3, <1>4, <2>1, <2>2, MotionAssumption
<1>6. ASSUME ~timer, changed = {Position}, pos # None, m.state \notin Directions
      PROVE  seen.next # None
  <2>1. "stopped" # None
    BY MotionAssumption
  <2>2. CASE ~active
    BY <1>6, <2>1, <2>2 DEF Observed
  <2>3. CASE active
    <3>1. Position # None
      BY <1>6 DEF Pos
    <3>2. Command \notin changed /\ Target \notin changed
      BY <1>6, <3>1, MotionAssumption
    <3>3. Live(Noted(m, pos), m.last, pos, st, changed) =
            [tracker |-> Noted(m, pos), next |-> "stopped"]
      BY <1>1, <1>6, <3>2 DEF Live
    <3>4. QED
      BY <1>6, <2>1, <2>3, <3>3 DEF Observed
  <2>4. QED
    BY <2>2, <2>3
<1>7. QED
  BY <1>5, <1>6 DEF Update

-----------------------------------------------------------------------------
(* In every mode the tracker says that a cover moves exactly when it holds *)
(* the move, and says nothing only when what it holds stands.              *)
Follows(m, r) ==
  /\ r.state = Unpublished => r.tracker.state = m.state
  /\ r.state # Unpublished => \A dir \in Directions : r.state = dir <=> r.tracker.state = dir

LEMMA UpdateFollows ==
  ASSUME NEW m \in Trackers, NEW st, Known(st), NEW changed, None \notin changed,
         NEW active, NEW timer
  PROVE  Follows(m, Update(m, st, changed, active, timer))
<1>1. CASE Mode = "inferred"
  <2> DEFINE pos  == Pos(st)
             seen == Observed(Noted(m, pos), m.last, pos, st, changed, active, timer)
             r    == UpdateInferred(m, st, changed, active, timer)
  <2>1. pos \in Int \cup {None} /\ Noted(m, pos) \in Trackers /\ m.last \in Int \cup {None}
    BY PosType, NotedType DEF Trackers
  <2>2. Answer(seen)
    BY <2>1, ObservedType
  <2> HIDE DEF seen
  <2>3. r.tracker.state = Current(m, seen.next)
    BY <2>2 DEF UpdateInferred, seen, Answer, Trackers
  <2>4. r.state = CASE seen.next = None      -> Unpublished
                    [] seen.next = "stopped" -> RestingOr(pos, "stopped")
                    [] OTHER                 -> seen.next
    BY DEF UpdateInferred, seen
  <2>5. RestingOr(pos, "stopped") \in {"closed", "open", "stopped"}
    BY <2>1, RestingOrType
  <2>6. /\ r.state = Unpublished => r.tracker.state = m.state
        /\ r.state # Unpublished =>
             \A dir \in Directions : r.state = dir <=> r.tracker.state = dir
    BY <2>2, <2>3, <2>4, <2>5, MotionAssumption DEF Answer, Current, MotionStates, Directions
  <2>7. QED
    BY <1>1, <2>6 DEF Update, Follows
<1>2. CASE Mode # "inferred"
  <2> DEFINE noted == Noted(m, Pos(st))
             r     == UpdateReported(m, st, changed, active)
  <2>1. Pos(st) \in Int \cup {None} /\ noted \in Trackers /\ noted.state = m.state
    BY PosType, NotedType
  <2>2. ASSUME NEW word PROVE Reported(word) \in MotionStates \cup {None}
    BY WordType DEF Reported, Opposite, MotionStates, Directions
  <2>3. ASSUME NEW said \in MotionStates PROVE [noted EXCEPT !.state = said].state = said
    BY <2>1 DEF Trackers
  <2>4. AtRest(noted).state = None /\ RestingOr(Pos(st), None) \notin Directions
    BY <2>1, RestingOrType, MotionAssumption DEF AtRest, Reset, Directions
  <2> HIDE DEF noted
  <2>5. \/ r.state = Unpublished /\ r.tracker = noted
        \/ r.state \in MotionStates /\ r.tracker = [noted EXCEPT !.state = r.state]
        \/ r.state = RestingOr(Pos(st), None) /\ r.tracker = AtRest(noted)
    BY <2>2 DEF UpdateReported, noted
  <2>6. /\ r.state = Unpublished => r.tracker.state = m.state
        /\ r.state # Unpublished =>
             \A dir \in Directions : r.state = dir <=> r.tracker.state = dir
    <3> HIDE DEF r
    <3>1. Unpublished \notin MotionStates \cup {"open", "closed", None} /\ None \notin Directions
      BY MotionAssumption DEF MotionStates, Directions
    <3>2. RestingOr(Pos(st), None) # Unpublished
      BY <2>1, <3>1, RestingOrType DEF MotionStates
    <3>3. QED
      BY <2>1, <2>3, <2>4, <2>5, <3>1, <3>2
  <2>7. QED
    BY <1>2, <2>6 DEF Update, Follows
<1>3. QED
  BY <1>1, <1>2

(* The words a cover reports, where they name a motion.                    *)
Understood(st, changed) == Command \in changed => Word(st[Command]) # None

(* An inferred move has its target ahead of the position.                  *)
HasAhead(m, pos) ==
  m.state \in Directions =>
    /\ m.target # None
    /\ pos # None => IF m.state = "opening" THEN pos < m.target ELSE pos > m.target

(* What is found of a live report of a cover that moves ahead is a move    *)
(* ahead, an end of one, or nothing because nothing is new.                *)
LEMMA LiveAhead ==
  ASSUME NEW m \in Trackers, NEW last \in Int \cup {None}, NEW st, Known(st), NEW changed,
         None \notin changed, Understood(st, changed),
         NEW pos, pos = Pos(st), NEW before \in Int \cup {None}, HasAhead(m, before),
         Position \notin changed => pos = before,
         Position \in changed => pos # None,
         Target \in changed => st[Target] # None
  PROVE  LET found == Live(m, last, pos, st, changed)
         IN  /\ found.next \in Directions /\ ~AtEnd(pos, found.next) =>
                  HasAhead([found.tracker EXCEPT !.state = found.next], pos)
             /\ found.next = None => /\ m.state \in Directions => HasAhead(found.tracker, pos)
                                     /\ m.state \notin Directions => pos = before
<1>0. pos \in Int \cup {None}
  BY PosType
<1>1. CASE Command \in changed
  <2>1. Live(m, last, pos, st, changed) = Commanded(m, st[Command])
    BY <1>1 DEF Live
  <2>2. Word(st[Command]) \in MotionStates /\ Word(st[Command]) # None
    BY <1>1, WordType DEF Understood
  <2> DEFINE dir == Word(st[Command])
  <2>3. CASE dir \in Directions
    <3>1. Commanded(m, st[Command]) =
            [tracker |-> [m EXCEPT !.target = EndOf(dir), !.byWord = TRUE], next |-> dir]
      BY <2>3 DEF Commanded, Found
    <3>2. ~AtEnd(pos, dir) =>
            HasAhead([[m EXCEPT !.target = EndOf(dir), !.byWord = TRUE] EXCEPT !.state = dir], pos)
      BY <1>0, <2>3, MotionAssumption DEF HasAhead, AtEnd, EndOf, Directions, Trackers
    <3>3. dir # None
      BY <2>2
    <3>4. QED
      BY <2>1, <2>3, <3>1, <3>2, <3>3
  <2>4. CASE dir \notin Directions
    BY <2>1, <2>2, <2>4 DEF Commanded
  <2>5. QED
    BY <2>3, <2>4
<1>2. CASE Command \notin changed /\ Target \in changed /\ pos # None
  <2> DEFINE target == st[Target]
  <2>1. Live(m, last, pos, st, changed) = Targeted(m, pos, target)
    BY <1>2 DEF Live
  <2>2. target \in Int /\ pos \in Int
    BY <1>0, <1>2 DEF Known
  <2> DEFINE next == CASE target = pos -> "stopped" [] target > pos -> "opening" [] OTHER -> "closing"
             aimed == [m EXCEPT !.target = target, !.byWord = FALSE]
  <2>3. Targeted(m, pos, target) = [tracker |-> aimed, next |-> next]
    BY <1>2, <2>2 DEF Targeted, Found
  <2> HIDE DEF target
  <2>4. /\ next \in MotionStates
        /\ next = "opening" => pos < target
        /\ next = "closing" => pos > target
    BY <2>2 DEF MotionStates, Directions
  <2>5. next \in Directions => HasAhead([aimed EXCEPT !.state = next], pos)
    BY <1>2, <2>2, <2>4, MotionAssumption DEF HasAhead, Directions, Trackers
  <2>6. next # None
    BY <2>4, MotionAssumption DEF MotionStates, Directions
  <2>7. Live(m, last, pos, st, changed).tracker = aimed /\ Live(m, last, pos, st, changed).next = next
    BY <2>1, <2>3
  <2> HIDE DEF next, aimed
  <2>8. QED
    BY <2>5, <2>6, <2>7
<1>3. CASE Command \notin changed /\ ~(Target \in changed /\ pos # None) /\ Position \in changed
  <2>1. CASE m.state \in Directions
    <3>1. Live(m, last, pos, st, changed) = Followed(m, last, pos)
      BY <1>3, <2>1 DEF Live
    <3> DEFINE heading == IF pos > last THEN "opening" ELSE "closing"
               turned  == m.byWord /\ last # None /\ last # pos /\ m.state # heading
               moving  == IF turned THEN heading ELSE m.state
               target  == IF turned THEN EndOf(heading) ELSE m.target
               arrived == target # None /\ IF moving = "opening" THEN pos >= target ELSE pos <= target
    <3>2. Followed(m, last, pos) =
            [tracker |-> [m EXCEPT !.target = target],
             next    |-> IF arrived THEN "stopped" ELSE IF turned THEN heading ELSE None]
      BY DEF Followed
    <3>3. target \in Int /\ pos \in Int /\ heading \in Directions /\ moving \in Directions
      BY <1>0, <1>3, <2>1, MotionAssumption DEF HasAhead, EndOf, Directions, Trackers
    <3>4. ~arrived => IF moving = "opening" THEN pos < target ELSE pos > target
      <4> HIDE DEF heading, moving, target
      <4> QED
        BY <3>3, MotionAssumption
    <3> DEFINE found == Live(m, last, pos, st, changed)
    <3>5. /\ found.tracker = [m EXCEPT !.target = target]
          /\ found.next = IF arrived THEN "stopped" ELSE IF turned THEN heading ELSE None
      BY <3>1, <3>2
    <3>6. found.next = heading /\ found.next \in Directions => HasAhead([found.tracker EXCEPT !.state = heading], pos)
      <4> HIDE DEF heading, target, arrived, turned, found
      <4> QED
        BY <3>3, <3>4, <3>5, MotionAssumption DEF HasAhead, Directions, Trackers
    <3>7. found.next = None => HasAhead(found.tracker, pos)
      <4> HIDE DEF heading, target, arrived, turned, found
      <4> QED
        BY <2>1, <3>3, <3>4, <3>5, MotionAssumption DEF HasAhead, Directions, Trackers
    <3>8. found.next \in Directions => found.next = heading
      <4> HIDE DEF heading, arrived, turned, found
      <4> QED
        BY <3>5, MotionAssumption DEF Directions
    <3> HIDE DEF heading, found
    <3>9. QED
      BY <2>1, <3>6, <3>7, <3>8 DEF found
  <2>2. CASE m.state \notin Directions
    BY <1>3, <2>2, MotionAssumption DEF Live, Directions
  <2>3. QED
    BY <2>1, <2>2
<1>4. CASE Command \notin changed /\ ~(Target \in changed /\ pos # None) /\ Position \notin changed
  BY <1>4, MotionAssumption DEF Live, Nothing, HasAhead, Directions
<1>5. QED
  BY <1>1, <1>2, <1>3, <1>4

(* So an inferred move always heads for a target ahead of it, and a cover  *)
(* that rests is said to rest where it is, unless nothing of it is new.    *)
KeepsCourse(m, before, pos, r) ==
  /\ HasAhead(r.tracker, pos)
  /\ r.tracker.state \notin Directions =>
       IF r.state = Unpublished THEN m.state \notin Directions /\ pos = before
       ELSE pos # None => r.state = Resting(pos)

LEMMA UpdateAhead ==
  ASSUME Mode = "inferred", NEW m \in Trackers, NEW st, Known(st), NEW changed,
         None \notin changed, Understood(st, changed), NEW active, NEW timer,
         NEW before \in Int \cup {None}, HasAhead(m, before),
         Position \notin changed => Pos(st) = before,
         Position \in changed => Pos(st) # None,
         Target \in changed => st[Target] # None,
         timer => changed = {}
  PROVE  KeepsCourse(m, before, Pos(st), Update(m, st, changed, active, timer))
<1> DEFINE pos   == Pos(st)
           noted == Noted(m, pos)
           seen  == Observed(noted, m.last, pos, st, changed, active, timer)
           after == [seen.tracker EXCEPT !.state = Current(m, seen.next)]
           r     == UpdateInferred(m, st, changed, active, timer)
<1>1. /\ pos \in Int \cup {None} /\ m.last \in Int \cup {None}
      /\ noted \in Trackers /\ noted.state = m.state
  BY PosType, NotedType DEF Trackers
<1>2. Answer(seen) /\ seen.tracker.state = m.state
  BY <1>1, ObservedType
<1>3. HasAhead(noted, before)
  BY DEF HasAhead, Noted, Trackers
<1>4. /\ seen.next \in Directions => HasAhead([seen.tracker EXCEPT !.state = seen.next], pos)
      /\ seen.next = None => /\ m.state \in Directions => HasAhead(seen.tracker, pos)
                             /\ m.state \notin Directions => pos = before
  <2>1. CASE timer
    <3>1. seen.next = None => m.state \notin Directions
      BY <1>1, <2>1, MotionAssumption DEF Observed
    <3>2. seen.next \notin Directions
      BY <1>1, <2>1, MotionAssumption DEF Observed, Directions
    <3>3. QED
      BY <2>1, <3>1, <3>2
  <2>2. CASE ~timer /\ ~active
    <3>1. seen = [tracker |-> noted,
                  next |-> IF pos # None /\ {Command, Position, Target} \cap changed # {}
                           THEN "stopped" ELSE None]
      BY <2>2 DEF Observed
    <3> HIDE DEF seen, noted
    <3>2. seen.next \notin Directions
      BY <3>1, MotionAssumption DEF Directions
    <3>3. seen.next = None => pos = before /\ seen.tracker = noted
      BY <3>1, MotionAssumption
    <3>4. QED
      BY <1>3, <3>2, <3>3
  <2>3. CASE ~timer /\ active
    <3> DEFINE found == Live(noted, m.last, pos, st, changed)
    <3>1. /\ found.next \in Directions /\ ~AtEnd(pos, found.next) =>
               HasAhead([found.tracker EXCEPT !.state = found.next], pos)
          /\ found.next = None => /\ noted.state \in Directions => HasAhead(found.tracker, pos)
                                  /\ noted.state \notin Directions => pos = before
      <4> HIDE DEF noted
      <4> QED
        BY <1>1, <1>3, LiveAhead
    <3>2. seen = IF AtEnd(pos, Current(noted, found.next)) THEN [found EXCEPT !.next = "stopped"]
                 ELSE found
      BY <2>3 DEF Observed
    <3>3. [found EXCEPT !.next = "stopped"].next \notin Directions \cup {None}
      <4>1. found = [tracker |-> found.tracker, next |-> found.next]
        BY DEF Live, Commanded, Targeted, Followed, Found, Nothing
      <4> HIDE DEF found
      <4>2. [found EXCEPT !.next = "stopped"].next = "stopped"
        BY <4>1
      <4>3. QED
        BY <4>2, MotionAssumption DEF Directions
    <3> HIDE DEF found, seen
    <3>4. found.next \in Directions => Current(noted, found.next) = found.next
      BY MotionAssumption DEF Current, Directions
    <3>5. QED
      BY <1>1, <3>1, <3>2, <3>3, <3>4
  <2>4. QED
    BY <2>1, <2>2, <2>3
<1> HIDE DEF seen
<1>5. seen.next \in MotionStates \cup {None} /\ "stopped" \notin Directions \cup {None, Unpublished}
  BY <1>2, MotionAssumption DEF Answer, Directions
<1>6. r.state = CASE seen.next = None      -> Unpublished
                  [] seen.next = "stopped" -> RestingOr(pos, "stopped")
                  [] OTHER                 -> seen.next
  BY DEF UpdateInferred, seen
<1>7. /\ r.tracker.state = Current(m, seen.next)
      /\ seen.next # "stopped" => r.tracker = after
  BY <1>2 DEF UpdateInferred, seen, Answer, Trackers
<1>8. CASE seen.next = None
  <2>1. after = seen.tracker
    BY <1>2, <1>8 DEF Current, Answer, Trackers
  <2>2. r.tracker = seen.tracker /\ r.state = Unpublished
    BY <1>5, <1>6, <1>7, <1>8, <2>1
  <2>3. HasAhead(seen.tracker, pos)
    BY <1>2, <1>4, <1>8 DEF HasAhead
  <2>4. QED
    BY <1>2, <1>4, <1>8, <2>2, <2>3 DEF Update, KeepsCourse
<1>9. CASE seen.next \in Directions
  <2>1. r.tracker = after /\ Current(m, seen.next) = seen.next
    BY <1>5, <1>7, <1>9, MotionAssumption DEF Current, Directions
  <2>2. r.tracker.state \in Directions
    BY <1>7, <1>9, <2>1
  <2>3. QED
    BY <1>4, <1>9, <2>1, <2>2 DEF Update, KeepsCourse
<1>10. CASE seen.next = "stopped"
  <2>1. r.tracker.state = "stopped"
    BY <1>5, <1>7, <1>10 DEF Current
  <2>2. pos # None => RestingOr(pos, "stopped") = Resting(pos)
    BY DEF RestingOr
  <2>3. r.state = RestingOr(pos, "stopped")
    BY <1>5, <1>6, <1>10
  <2>4. r.state # Unpublished
    BY <1>1, <2>3, RestingOrType, MotionAssumption
  <2>5. QED
    BY <1>5, <2>1, <2>2, <2>3, <2>4 DEF HasAhead, Update, KeepsCourse
<1>11. QED
  BY <1>5, <1>8, <1>9, <1>10 DEF MotionStates

(* A copy of an old report is taken for where the cover rests, if it       *)
(* brings anything of the cover.                                           *)
OfCopy(pos, changed, r) ==
  /\ r.state \notin Directions
  /\ /\ ({Command, Position} \cup (IF Mode = "inferred" THEN {Target} ELSE {})) \cap changed # {}
     /\ pos # None
     => r.state = Resting(pos)

LEMMA UpdateOfCopy ==
  ASSUME NEW m \in Trackers, NEW st, Known(st), NEW changed, NEW active, NEW timer, ~active, ~timer
  PROVE  OfCopy(Pos(st), changed, Update(m, st, changed, active, timer))
<1> DEFINE pos == Pos(st)
<1>1. pos \in Int \cup {None}
  BY PosType
<1>2. /\ RestingOr(pos, "stopped") \notin Directions
      /\ RestingOr(pos, None) \notin Directions
      /\ Unpublished \notin Directions
  BY <1>1, RestingOrType, MotionAssumption DEF Directions
<1>3. ASSUME NEW unknown, pos # None PROVE RestingOr(pos, unknown) = Resting(pos)
  BY <1>3 DEF RestingOr
<1>4. CASE Mode = "inferred"
  <2> DEFINE new  == pos # None /\ {Command, Position, Target} \cap changed # {}
             seen == Observed(Noted(m, pos), m.last, pos, st, changed, active, timer)
             r    == UpdateInferred(m, st, changed, active, timer)
  <2>1. seen.next = IF new THEN "stopped" ELSE None
    BY DEF Observed
  <2>2. r.state = CASE seen.next = None      -> Unpublished
                    [] seen.next = "stopped" -> RestingOr(pos, "stopped")
                    [] OTHER                 -> seen.next
    BY DEF UpdateInferred
  <2> HIDE DEF seen, new
  <2>3. r.state = IF new THEN RestingOr(pos, "stopped") ELSE Unpublished
    BY <2>1, <2>2, MotionAssumption
  <2> HIDE DEF r
  <2>4. QED
    BY <1>2, <1>3, <1>4, <2>3 DEF OfCopy, Update, new, r
<1>5. CASE Mode # "inferred"
  <2> DEFINE r == UpdateReported(m, st, changed, active)
  <2>1. r.state = IF {Command, Position} \cap changed = {} THEN Unpublished ELSE RestingOr(pos, None)
    BY DEF UpdateReported
  <2> HIDE DEF r
  <2>2. QED
    BY <1>2, <1>3, <1>5, <2>1 DEF OfCopy, Update, r
<1>6. QED
  BY <1>4, <1>5
=============================================================================
