----------------------------- MODULE CoverProofs ----------------------------
(***************************************************************************)
(* Proofs about an inferred cover in time, for any settle time and any     *)
(* positions it reports.                                                   *)
(***************************************************************************)
EXTENDS Cover, MotionProofs

(* The consumer is shown a move while the tracker holds one; its timer     *)
(* runs then, and was started when the device was last heard of.  A cover  *)
(* that is shown at an end was last reported there.                        *)
CoverInv ==
  /\ TypeOK
  /\ shown \in Directions <=> motion.state \in Directions
  /\ motion.state \in Directions => left # None /\ idle + left <= Settle
  /\ EndsAreReported

LEMMA PlacesKnown == \A p \in Places : p \in Int /\ p # None
BY CoverAssumption, MotionAssumption

LEMMA TableIs ==
  ASSUME NEW w, NEW p \in Places \cup {None}
  PROVE  Known(Table(w, p)) /\ Pos(Table(w, p)) = p
BY CoverAssumption DEF Table, Known, Pos

LEMMA HeardType ==
  ASSUME TypeOK, NEW w, NEW p \in Places \cup {None},
         NEW changed, None \notin changed, NEW active, Heard(w, p, changed, active)
  PROVE  /\ motion' \in Trackers /\ known' \in Places \cup {None}
         /\ shown' \in CoverStates \cup {None}
         /\ left' \in 0..Settle \cup {None}
         /\ idle' \in 0..Settle + 1
<1> DEFINE found == Update(motion, Table(w, p), changed, active, FALSE)
<1>1. Known(Table(w, p))
  BY TableIs
<1>2. found.tracker \in Trackers /\ found.state \in CoverStates \cup {Unpublished}
  BY <1>1, UpdateInferredType, CoverAssumption DEF TypeOK, Update
<1>3. /\ motion' = found.tracker /\ known' = p /\ shown' = Published(found.state) /\ idle' = 0
      /\ left' \in {Settle, None, left}
  BY DEF Heard
<1> HIDE DEF found
<1>4. shown' \in CoverStates \cup {None}
  BY <1>2, <1>3 DEF Published, TypeOK
<1>5. QED
  BY <1>2, <1>3, <1>4, MotionAssumption DEF TypeOK

(* A report keeps the consumer, the tracker and the timer in step.         *)
LEMMA HeardKeeps ==
  ASSUME CoverInv, NEW w, NEW p \in Places \cup {None}, NEW changed, None \notin changed,
         NEW active, Heard(w, p, changed, active),
         p = known \/ (changed = {Position} /\ p # None)
  PROVE  /\ shown' \in Directions <=> motion'.state \in Directions
         /\ motion'.state \in Directions => left' # None /\ idle' + left' <= Settle
         /\ EndsAreReported'
<1> DEFINE found == Update(motion, Table(w, p), changed, active, FALSE)
<1>1. Known(Table(w, p)) /\ Pos(Table(w, p)) = p /\ motion \in Trackers
  BY TableIs DEF CoverInv, TypeOK
<1>2. /\ found.state = Unpublished => found.tracker.state = motion.state
      /\ found.state # Unpublished =>
           (found.state \in Directions <=> found.tracker.state \in Directions)
      /\ found.timer = IF found.tracker.state \in Directions THEN "set" ELSE "cancel"
  BY <1>1, InferredFollows, CoverAssumption
<1>3. /\ found.state = "open" => p # None /\ p >= 100
      /\ found.state = "closed" => p # None /\ p <= 0
      /\ found.state = Unpublished /\ changed = {Position} /\ p # None => motion.state \in Directions
  BY <1>1, EndsOfInferred, CoverAssumption
<1>4. /\ motion' = found.tracker /\ known' = p /\ idle' = 0
      /\ shown' = IF found.state = Unpublished THEN shown ELSE found.state
      /\ found.timer = "set" => left' = Settle
  BY DEF Heard, Published
<1> HIDE DEF found
<1>5. shown' \in Directions <=> motion'.state \in Directions
  BY <1>2, <1>4 DEF CoverInv
<1>6. motion'.state \in Directions => left' # None /\ idle' + left' <= Settle
  BY <1>2, <1>4, MotionAssumption
<1>7. EndsAreReported'
  <2>1. \A q \in Places : q \in 0..100
    BY CoverAssumption
  <2>2. CASE found.state # Unpublished
    BY <1>3, <1>4, <2>1, <2>2 DEF EndsAreReported
  <2>3. CASE found.state = Unpublished
    BY <1>3, <1>4, <2>3 DEF EndsAreReported, CoverInv, Directions
  <2>4. QED
    BY <2>2, <2>3
<1>8. QED
  BY <1>5, <1>6, <1>7

LEMMA HeardInv ==
  ASSUME CoverInv, NEW w, NEW p \in Places \cup {None}, NEW changed, None \notin changed,
         NEW active, Heard(w, p, changed, active),
         p = known \/ (changed = {Position} /\ p # None),
         place' \in Places, motor' \in {0, 100, None}, quiet' \in 0..Settle + 1
  PROVE  CoverInv'
<1>1. TypeOK'
  BY HeardType DEF CoverInv, TypeOK
<1>2. QED
  BY <1>1, HeardKeeps DEF CoverInv

LEMMA UnheardInv ==
  ASSUME CoverInv, UNCHANGED <<word, known, motion, shown, left, quiet, idle>>,
         place' \in Places, motor' \in {0, 100, None}
  PROVE  CoverInv'
BY DEF CoverInv, TypeOK, EndsAreReported

LEMMA DeviceInv == ASSUME CoverInv, Device PROVE CoverInv'
<1> USE CoverAssumption, MotionAssumption
<1>1. /\ place \in Places /\ motor \in {0, 100, None} /\ quiet \in 0..Settle + 1
      /\ known \in Places \cup {None} /\ 0 \in 0..Settle + 1
  BY DEF CoverInv, TypeOK
<1>2. ASSUME NEW w \in {"open", "close", "stop"}, Order(w) PROVE CoverInv'
  <2>1. motor' \in {0, 100, None} /\ place' = place /\ quiet' = 0
    BY <1>2 DEF Order, Runs
  <2>2. Heard(w, known, {Command}, TRUE)
    BY <1>2 DEF Order
  <2>3. QED
    BY <1>1, <2>1, <2>2, HeardInv
<1>3. ASSUME NEW p \in Places, Ahead(p) PROVE place' \in Places /\ motor' \in {0, 100, None}
  BY <1>1, <1>3 DEF Ahead
<1>4. ASSUME NEW p \in Places, Slide(p) PROVE CoverInv'
  <2>1. place' \in Places /\ motor' \in {0, 100, None}
    BY <1>3, <1>4 DEF Slide
  <2>2. Heard(word, p, {Position}, TRUE) /\ quiet' = 0 /\ p # None
    BY <1>4, PlacesKnown DEF Slide
  <2>3. QED
    BY <1>1, <2>1, <2>2, HeardInv
<1>5. ASSUME NEW p \in Places, SlideUnheard(p) PROVE CoverInv'
  BY <1>3, <1>5, UnheardInv DEF SlideUnheard
<1>6. CASE Stall
  BY <1>1, <1>6, UnheardInv DEF Stall
<1>7. CASE Snapshot
  <2>1. Heard(word, place, {Position}, FALSE) /\ place # None /\ quiet' = 0
        /\ UNCHANGED <<place, motor>>
    BY <1>1, <1>7, PlacesKnown DEF Snapshot
  <2>2. QED
    BY <1>1, <2>1, HeardInv
<1>8. CASE Chatter
  <2>1. UNCHANGED <<place, motor, quiet>>
    BY <1>8 DEF Chatter
  <2>2. CASE Heard(word, known, {Other}, TRUE)
    BY <1>1, <2>1, <2>2, HeardInv
  <2>3. CASE Heard(word, known, {}, FALSE)
    BY <1>1, <2>1, <2>3, HeardInv
  <2>4. QED
    BY <1>8, <2>2, <2>3 DEF Chatter
<1>9. QED
  BY <1>2, <1>4, <1>5, <1>6, <1>7, <1>8 DEF Device

(* A second is as much nearer to the timer as it is further from the       *)
(* report.                                                                 *)
LEMMA TickInv == ASSUME CoverInv, Tick PROVE CoverInv'
<1>1. quiet' \in 0..Settle + 1 /\ idle' \in 0..Settle + 1
  BY MotionAssumption DEF Tick, Later, CoverInv, TypeOK
<1>2. left' \in 0..Settle \cup {None}
  BY MotionAssumption DEF Tick, CoverInv, TypeOK
<1>3. motion'.state \in Directions => left' # None /\ idle' + left' <= Settle
  BY MotionAssumption DEF Tick, Later, CoverInv, TypeOK
<1>4. QED
  BY <1>1, <1>2, <1>3 DEF Tick, CoverInv, TypeOK, EndsAreReported

LEMMA SettleDueInv == ASSUME CoverInv, SettleDue PROVE CoverInv'
<1> DEFINE found == Update(motion, Table(word, known), {}, FALSE, TRUE)
<1>1. motion \in Trackers /\ known \in Places \cup {None}
  BY DEF CoverInv, TypeOK
<1>2. Known(Table(word, known)) /\ Pos(Table(word, known)) = known
  BY <1>1, TableIs
<1>3. /\ found.tracker.state \notin Directions
      /\ IF motion.state \in Directions THEN found.state \in CoverStates \ Directions
         ELSE found.state = Unpublished
  BY <1>1, <1>2, SettleEnds, CoverAssumption
<1>4. /\ found.state = "open" => known # None /\ known >= 100
      /\ found.state = "closed" => known # None /\ known <= 0
  BY <1>1, <1>2, EndsOfInferred, CoverAssumption
<1>5. found.tracker \in Trackers
  BY <1>1, <1>2, UpdateInferredType, CoverAssumption DEF Update
<1>6. /\ left' = None /\ motion' = found.tracker
      /\ shown' = IF found.state = Unpublished THEN shown ELSE found.state
      /\ UNCHANGED <<place, motor, word, known, quiet, idle>>
  BY DEF SettleDue, Published
<1> HIDE DEF found
<1>7. shown' \in CoverStates \cup {None} /\ shown' \notin Directions
  BY <1>3, <1>6, MotionAssumption DEF CoverInv, TypeOK, CoverStates, MotionStates, Directions
<1>8. EndsAreReported'
  BY <1>1, <1>4, <1>6, CoverAssumption DEF EndsAreReported, CoverInv
<1>9. QED
  BY <1>3, <1>5, <1>6, <1>7, <1>8 DEF CoverInv, TypeOK

LEMMA CoverInit == Init => CoverInv
<1> SUFFICES ASSUME Init PROVE CoverInv
  OBVIOUS
<1>1. None \notin Directions /\ None # "open" /\ None # "closed"
  BY MotionAssumption DEF Directions
<1>2. motion \in Trackers /\ motion.state = None
  BY DEF Init, Reset, Trackers
<1>3. TypeOK
  BY <1>2, MotionAssumption DEF Init, TypeOK
<1>4. QED
  BY <1>1, <1>2, <1>3 DEF Init, CoverInv, EndsAreReported

LEMMA CoverInvariant == Spec => []CoverInv
<1>1. CoverInv /\ [Next]_vars => CoverInv'
  <2> SUFFICES ASSUME CoverInv, [Next]_vars PROVE CoverInv'
    OBVIOUS
  <2>1. CASE Device
    BY <2>1, DeviceInv
  <2>2. CASE Tick
    BY <2>2, TickInv
  <2>3. CASE SettleDue
    BY <2>3, SettleDueInv
  <2>4. CASE UNCHANGED vars
    BY <2>4 DEF vars, CoverInv, TypeOK, EndsAreReported
  <2>5. QED
    BY <2>1, <2>2, <2>3, <2>4 DEF Next
<1>2. QED
  BY <1>1, CoverInit, PTL DEF Spec

-----------------------------------------------------------------------------
(* Every variable has its type in every behaviour.                         *)
THEOREM TypeCorrect == Spec => []TypeOK
<1>1. CoverInv => TypeOK
  BY DEF CoverInv
<1>2. QED
  BY <1>1, CoverInvariant, PTL

(* A move is shown no longer than the settle time after the device was     *)
(* last heard of, whatever it reports and loses on the way.                *)
THEOREM MovesSettle == Spec => []SettlesAfterSilence
<1>1. CoverInv => SettlesAfterSilence
  BY DEF CoverInv, SettlesAfterSilence
<1>2. QED
  BY <1>1, CoverInvariant, PTL

(* A cover is shown at an end only if it last reported to be there.        *)
THEOREM EndsAreTrue == Spec => []EndsAreReported
<1>1. CoverInv => EndsAreReported
  BY DEF CoverInv
<1>2. QED
  BY <1>1, CoverInvariant, PTL
=============================================================================
