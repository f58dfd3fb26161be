----------------------------- MODULE ClockDial -----------------------------
(***************************************************************************)
(* The block clock's dial (qml/components/blockclockdial.cpp): when its    *)
(* animation runs, what it repaints, and the block segments it paints.     *)
(* Angles are small numbers: one unit is the distance at which the arc     *)
(* snaps to its target, Full the whole circle.                             *)
(***************************************************************************)
EXTENDS Integers, Sequences, SequencesExt, FiniteSetsExt

CONSTANTS Full,       \* the whole dial: angles and fractions are 0..Full
          Gap,        \* minimum_interval_fraction, in the same unit
          MaxSegments \* bound on blocks on the dial

VARIABLES item,   \* the properties set from outside
          motion, \* [angle, animation, delay]: the arc and the two timers
          image   \* [wasActive, stale]; stale: what is painted misses a change

dialVars == <<item, motion, image>>

\* The constructor; nothing was painted yet.  wait: the connecting animation
\* has a delay (5 s).
DialInit ==
  /\ item = [complete |-> FALSE, rendering |-> TRUE, visible |-> TRUE, window |-> "none", connected |-> FALSE,
             synced |-> FALSE, paused |-> FALSE, animate |-> TRUE, wait |-> TRUE, now |-> 0, progress |-> 0,
             blocks |-> << >>]
  /\ motion = [angle |-> 0, animation |-> FALSE, delay |-> FALSE]
  /\ image = [wasActive |-> FALSE, stale |-> TRUE]

----------------------------------------------------------------------------
(* The animation *)

\* presentationActive
PresentationActive(i) == i.complete /\ i.rendering /\ i.visible /\ i.window # "hidden"

\* getTargetAnimationAngle
Target(i) == CASE i.connected /\ i.synced -> i.now
               [] i.connected /\ ~i.synced -> i.progress
               [] OTHER -> Full

Animates(i) == PresentationActive(i) /\ i.animate /\ ~i.paused

\* syncAnimationState: the timers and the arc for the item's new state.
Resumed(i, m, becomingActive) ==
  IF becomingActive THEN [m EXCEPT !.angle = IF i.connected THEN Target(i) ELSE 0] ELSE m
Stopped(i, m) == [angle |-> IF i.animate THEN m.angle ELSE Target(i), animation |-> FALSE, delay |-> FALSE]
SyncAnimationState(i, m, becomingActive) ==
  LET resumed == Resumed(i, m, becomingActive)
  IN CASE ~Animates(i) -> Stopped(i, m)
       [] Animates(i) /\ ~i.connected ->
            IF m.animation \/ m.delay THEN resumed ELSE [resumed EXCEPT !.animation = ~i.wait, !.delay = i.wait]
       [] OTHER -> [resumed EXCEPT !.delay = FALSE, !.animation = resumed.angle # Target(i)]

\* A setter's tail: syncAnimationState, then requestRepaint when repaints.  The
\* image misses the change unless an update was requested while it is shown.
NoRepaintOnReturn(i, becomingActive, repaints) == PresentationActive(i) /\ repaints
Repainted(i, becomingActive, repaints) == PresentationActive(i) /\ (becomingActive \/ repaints)
Becomes(i, m, changed, repaints) ==
  LET becomingActive == PresentationActive(i) /\ ~image.wasActive
  IN /\ item' = i
     /\ motion' = SyncAnimationState(i, m, becomingActive)
     /\ image' = [wasActive |-> PresentationActive(i),
                  stale |-> (image.stale \/ changed) /\ ~Repainted(i, becomingActive, repaints)]

ComponentComplete == ~item.complete /\ Becomes([item EXCEPT !.complete = TRUE], motion, FALSE, FALSE)
SetVisible == Becomes([item EXCEPT !.visible = ~@], motion, FALSE, FALSE)
\* connectWindowVisibility: a window is set once, its visibility changes.
SetWindow(w) == w # item.window /\ w # "none" /\ Becomes([item EXCEPT !.window = w], motion, FALSE, FALSE)
SetRenderingActive == Becomes([item EXCEPT !.rendering = ~@], motion, FALSE, FALSE)
SetCurrentTimeFraction(now) == now # item.now /\ Becomes([item EXCEPT !.now = now], motion, TRUE, TRUE)
SetSyncProgress(p) == p # item.progress /\ Becomes([item EXCEPT !.progress = p], motion, TRUE, TRUE)
SetConnected == Becomes([item EXCEPT !.connected = ~@], [motion EXCEPT !.angle = 0], TRUE, TRUE)
SetSynced == Becomes([item EXCEPT !.synced = ~@], [motion EXCEPT !.angle = 0], TRUE, TRUE)
SetPaused == Becomes([item EXCEPT !.paused = ~@], motion, TRUE, TRUE)
SetAnimateDial ==
  Becomes([item EXCEPT !.animate = ~@], IF item.animate THEN motion ELSE [motion EXCEPT !.angle = 0], TRUE, TRUE)
\* setConnectingAnimationDelayMs, to another delay or to none, restarts the
\* connecting animation without a repaint.  A page sets it only while it creates
\* the dial.
SetConnectingAnimationDelay(wait) ==
  LET halted == IF item.connected THEN motion ELSE [motion EXCEPT !.animation = FALSE, !.delay = FALSE]
  IN ~item.complete /\ (item.wait \/ wait) /\ Becomes([item EXCEPT !.wait = wait], halted, FALSE, FALSE)

\* setBlockTimeFractions leaves the animation alone.
SetBlockTimeFractions(blocks) ==
  /\ blocks # item.blocks /\ blocks = SortSeq(blocks, <)
  /\ item' = [item EXCEPT !.blocks = blocks]
  /\ image' = [image EXCEPT !.stale = ~PresentationActive(item)]
  /\ UNCHANGED motion

\* The single-shot delay ends.
DelayTimeout ==
  /\ motion.delay
  /\ motion' = [motion EXCEPT !.delay = FALSE, !.animation = @ \/ Animates(item)]
  /\ UNCHANGED <<item, image>>

\* advanceAnimation: the connecting arc turns on for ever, the others stop at the target.
Nearer(angle, target) == IF angle < target THEN angle + 1 ELSE IF angle > target THEN angle - 1 ELSE angle
AdvanceAnimation ==
  LET angle == IF item.connected THEN Nearer(motion.angle, Target(item)) ELSE Nearer(motion.angle, Full)
  IN /\ motion.animation
     /\ motion' = IF ~Animates(item) THEN [motion EXCEPT !.animation = FALSE]
                  ELSE [motion EXCEPT !.angle = angle, !.animation = ~(item.connected /\ angle = Target(item))]
     /\ UNCHANGED <<item, image>>

----------------------------------------------------------------------------
(* The segments of the arc (coalescedBlockSegments) *)

\* Block boundaries from the newest to the oldest; a block closer than the gap
\* to the boundary before it joins that boundary's cluster.
JoinsNeighbour(boundaries, block, previous) == previous - block < Gap
Joins(boundaries, block, previous) == Last(boundaries).fraction - block < Gap
Clustered(state, block, now) ==
  CASE block <= 0 -> state
    [] block > 0 /\ block >= now -> [state EXCEPT !.future = @ + 1]
    [] block > 0 /\ block < now /\ Joins(state.boundaries, block, state.previous) ->
         [state EXCEPT !.boundaries = [@ EXCEPT ![Len(@)].count = @ + 1], !.previous = block]
    [] OTHER -> [state EXCEPT !.boundaries = Append(@, [fraction |-> block, count |-> 1]), !.previous = block]
Boundaries(blocks, now) ==
  FoldLeft(LAMBDA state, block : Clustered(state, block, now),
           [boundaries |-> <<[fraction |-> now, count |-> 0]>>, future |-> 0, previous |-> now], Reverse(blocks))

\* An undersized first segment is merged into the next one.
DropUndersized(boundaries) ==
  IF Len(boundaries) > 1 /\ Last(boundaries).fraction < Gap THEN Front(boundaries) ELSE boundaries

Segments(blocks, now) ==
  LET state == Boundaries(blocks, now)
      chronological == Reverse(DropUndersized(state.boundaries))
      after(i) == state.future + FoldSeq(LAMBDA b, n : b.count + n, 0, SubSeq(chronological, i + 1, Len(chronological)))
  IN IF now <= 0 THEN << >>
     ELSE [i \in DOMAIN chronological |->
             [from |-> IF i = 1 THEN 0 ELSE chronological[i - 1].fraction, to |-> chronological[i].fraction,
              confirmations |-> after(i) + chronological[i].count, next |-> after(i)]]

----------------------------------------------------------------------------

AllFractions == UNION {[1..n -> 0..Full] : n \in 0..MaxSegments}

\* The two setters the segments depend on.
SegmentsNext ==
  \/ \E now \in 0..Full : SetCurrentTimeFraction(now)
  \/ \E blocks \in AllFractions : SetBlockTimeFractions(blocks)

DialNext ==
  \/ \E w \in {"none", "shown", "hidden"} : SetWindow(w)
  \/ \E progress \in 0..Full : SetSyncProgress(progress)
  \/ SegmentsNext
  \/ ComponentComplete \/ SetVisible \/ SetRenderingActive \/ SetConnected \/ SetSynced \/ SetPaused
  \/ \E wait \in BOOLEAN : SetConnectingAnimationDelay(wait)
  \/ SetAnimateDial \/ DelayTimeout \/ AdvanceAnimation

----------------------------------------------------------------------------
(* Properties *)

\* However visibility, connection, pausing and data change in turn, a dial that
\* is shown has no change left unpainted, its arc is on its way or at its target
\* unless it is paused, and a dial that is not shown or paused runs no timer.
DialIsAlive ==
  /\ PresentationActive(item) => ~image.stale
  /\ Animates(item) => \/ motion.animation
                       \/ motion.delay /\ ~item.connected
                       \/ item.connected /\ motion.angle = Target(item)
  /\ ~Animates(item) => ~motion.animation /\ ~motion.delay
  /\ ~item.animate /\ item.complete => motion.angle = Target(item)

\* The arc is cut without holes from the period's start to now into segments not
\* narrower than the gap, and each one counts the blocks after it and those of
\* the boundary it ends at: merging blocks that lie close together loses none.
SegmentsCountBlocks ==
  LET segments == Segments(item.blocks, item.now)
      count(P(_)) == Cardinality({i \in DOMAIN item.blocks : item.blocks[i] > 0 /\ P(item.blocks[i])})
  IN item.now > 0 =>
       /\ segments[1].from = 0 /\ Last(segments).to = item.now
       /\ \A i \in DOMAIN segments :
            LET s == segments[i]
                end == s.to = item.now
            IN /\ i > 1 => s.from = segments[i - 1].to
               /\ Len(segments) > 1 => s.to - s.from >= Gap
               /\ s.next = count(LAMBDA b : IF end THEN b >= item.now ELSE b > s.to)
               /\ s.confirmations = count(LAMBDA b : b > s.to - Gap)
=============================================================================
