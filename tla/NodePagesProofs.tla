-------------------------- MODULE NodePagesProofs --------------------------
(***************************************************************************)
(* The pages about the node, for any bounds.  Each page is a part of       *)
(* MCNodePages and has its own inductive invariant, which says what the    *)
(* messages still on their way will do to what is shown.                   *)
(***************************************************************************)
EXTENDS MCNodePages, SequenceTheorems, TLAPS

(***************************************************************************)
(* Peers: the details' rows and pointers                                   *)
(***************************************************************************)
peerList == v2
details == v3

\* DetailsFollowPeer is inductive but for the shape of the records.
PeersInv ==
  /\ peerList \in [ids : {peerList.ids}, version : {peerList.version}, ready : BOOLEAN, requested : BOOLEAN,
                   timer : BOOLEAN, stopping : BOOLEAN]
  /\ \A d \in details : d = [id |-> d.id, row |-> d.row, version |-> d.version]
  /\ PeerPages!DetailsFollowPeer

LEMMA PeersInitInv == PeerPages!PeersInit => PeersInv
<1> SUFFICES ASSUME PeerPages!PeersInit PROVE PeersInv
  OBVIOUS
<1>1. /\ peerList = [ids |-> << >>, version |-> 0, ready |-> FALSE, requested |-> FALSE, timer |-> FALSE,
                    stopping |-> FALSE]
      /\ details = {}
  BY DEF PeerPages!PeersInit, peerList, details
<1>2. peerList.ids = << >> /\ peerList.version = 0
  BY <1>1
<1> QED BY <1>1, <1>2 DEF PeersInv, PeerPages!DetailsFollowPeer, details

LEMMA RefreshKeepsPeersInv ==
  ASSUME PeersInv, NEW ids, PeerPages!Refreshed(ids)
  PROVE  PeersInv'
<1> DEFINE version == peerList.version + 1
           follow(d) == IF ids # peerList.ids THEN PeerPages!OnModelReset(d, ids, version)
                        ELSE PeerPages!OnModelDataChanged(d, ids, version)
           notified == ids # peerList.ids \/ ids # << >>
<1>1. /\ peerList' = [peerList EXCEPT !.ids = ids, !.version = version, !.ready = TRUE,
                                      !.timer = @ \/ peerList.requested]
      /\ details' = IF notified THEN UNION {follow(d) : d \in details} ELSE details
  BY DEF PeerPages!Refreshed, peerList, details
<1>2. /\ peerList' \in [ids : {peerList'.ids}, version : {peerList'.version}, ready : BOOLEAN,
                        requested : BOOLEAN, timer : BOOLEAN, stopping : BOOLEAN]
      /\ peerList'.ids = ids /\ peerList'.version = version
  BY <1>1 DEF PeersInv
<1>3. ASSUME NEW d \in details, NEW e \in follow(d)
      PROVE  /\ e = [id |-> e.id, row |-> e.row, version |-> e.version]
             /\ e.version = version /\ e.row \in DOMAIN ids /\ ids[e.row] = e.id
  BY <1>3 DEF PeersInv, PeerPages!OnModelReset, PeerPages!OnModelDataChanged
<1>4. CASE notified
  BY <1>1, <1>2, <1>3, <1>4 DEF PeersInv, PeerPages!DetailsFollowPeer, peerList, details
<1>5. CASE ~notified
  <2>1. details = {}
    BY <1>5 DEF PeersInv, PeerPages!DetailsFollowPeer, peerList, details
  <2> QED
    BY <1>1, <1>2, <1>5, <2>1 DEF PeersInv, PeerPages!DetailsFollowPeer, peerList, details
<1> QED BY <1>4, <1>5

LEMMA PeersNextInv ==
  ASSUME PeersInv, PeerPages!PeersNext \/ UNCHANGED <<v1, v2, v3, v4>>
  PROVE  PeersInv'
<1>1. ASSUME UNCHANGED <<peerList, details>>
      PROVE  PeersInv'
  BY <1>1 DEF PeersInv, PeerPages!DetailsFollowPeer, peerList, details
<1>2. ASSUME UNCHANGED details, peerList' \in [ids : {peerList.ids}, version : {peerList.version}, ready : BOOLEAN,
                                               requested : BOOLEAN, timer : BOOLEAN, stopping : BOOLEAN]
      PROVE  PeersInv'
  BY <1>2 DEF PeersInv, PeerPages!DetailsFollowPeer, peerList, details
<1>3. ASSUME NEW row \in DOMAIN peerList.ids, PeerPages!PeerDetailsAt(row)
      PROVE  PeersInv'
  BY <1>3 DEF PeersInv, PeerPages!DetailsFollowPeer, PeerPages!PeerDetailsAt, peerList, details
<1>4. CASE PeerPages!RefreshPeers
  BY <1>4, RefreshKeepsPeersInv DEF PeerPages!RefreshPeers
<1>5. CASE PeerPages!BackendReady
  <2>1. CASE PeerPages!Refreshed(v1.peers)
    BY <2>1, RefreshKeepsPeersInv
  <2>2. CASE peerList' = [peerList EXCEPT !.ready = TRUE, !.timer = peerList.requested] /\ UNCHANGED details
    BY <1>2, <2>2 DEF PeersInv
  <2> QED BY <1>5, <2>1, <2>2 DEF PeerPages!BackendReady, peerList, details
<1>6. CASE PeerPages!StartAutoRefresh \/ PeerPages!StopAutoRefresh \/ PeerPages!BeginPeersShutdown
  BY <1>2, <1>6 DEF PeersInv, PeerPages!StartAutoRefresh, PeerPages!StopAutoRefresh,
    PeerPages!BeginPeersShutdown, peerList, details
<1>7. ASSUME NEW d \in details, PeerPages!DisconnectPeer(d)
      PROVE  PeersInv'
  <2>1. (\E ids : PeerPages!Refreshed(ids)) \/ UNCHANGED <<peerList, details>>
    BY <1>7 DEF PeerPages!DisconnectPeer, peerList, details
  <2> QED BY <1>1, <2>1, RefreshKeepsPeersInv
<1>8. CASE \/ PeerPages!PeerConnects \/ \E i \in DOMAIN v1.peers : PeerPages!PeerLeaves(i)
           \/ \E d \in v4 : PeerPages!DeleteLater(d)
           \/ UNCHANGED <<v1, v2, v3, v4>>
  BY <1>1, <1>8 DEF PeerPages!PeerConnects, PeerPages!PeerLeaves, PeerPages!DeleteLater, peerList, details
<1> QED
  BY <1>3, <1>4, <1>5, <1>6, <1>7, <1>8 DEF PeerPages!PeersNext, peerList, details

LEMMA PeersStepInv ==
  ASSUME part = "peers" => PeersInv, [Next]_vars, part' = "peers"
  PROVE  PeersInv'
<1>1. part = "peers" /\ (PeerPages!PeersNext \/ UNCHANGED <<v1, v2, v3, v4>>)
  BY DEF Next, vars, SyncStep, MempoolStep, LogStep, ParserStep, ConsoleStep, SettingsStep, ClockStep,
    TrafficStep, PeersStep, DialStep, SegmentsStep
<1> QED BY <1>1, PeersNextInv

\* However peers come and go, and the list is reset or refreshed in place
\* (PeerListModel::refresh), the details of a peer point into the newest list
\* and at that peer (PeerDetailsModel::onModelReset, onModelDataChanged).
THEOREM DetailsPointAtTheirPeer == Spec => []DetailsFollowPeer
<1> DEFINE Inv == part = "peers" => PeersInv
<1>1. Init => Inv
  BY PeersInitInv DEF Init
<1>2. Inv /\ [Next]_vars => Inv'
  BY PeersStepInv
<1>3. Inv => DetailsFollowPeer
  BY DEF PeersInv, DetailsFollowPeer
<1> QED BY <1>1, <1>2, <1>3, PTL DEF Spec

(***************************************************************************)
(* ClockDial: the dial's animation and repaints                            *)
(***************************************************************************)
item == v1
motion == v2
image == v3

ItemType(i) ==
  i \in [complete : BOOLEAN, rendering : BOOLEAN, visible : BOOLEAN, window : {"none", "shown", "hidden"},
         connected : BOOLEAN, synced : BOOLEAN, paused : BOOLEAN, animate : BOOLEAN, wait : BOOLEAN,
         now : Int, progress : Int, blocks : {i.blocks}]
MotionType(m) == m \in [angle : Int, animation : BOOLEAN, delay : BOOLEAN]
DialType == ItemType(item) /\ MotionType(motion) /\ image \in [wasActive : BOOLEAN, stale : BOOLEAN]

\* m_was_presentation_active is what presentationActive gave at the last change,
\* so the change that shows the dial is the one that repaints it.
DialInv ==
  /\ DialType
  /\ image.wasActive = Dial!PresentationActive(item)
  /\ Dial!PresentationActive(item) => ~image.stale
  /\ Dial!Animates(item) => \/ motion.animation
                            \/ motion.delay /\ ~item.connected
                            \/ item.connected /\ motion.angle = Dial!Target(item)
  /\ ~Dial!Animates(item) => ~motion.animation /\ ~motion.delay
  /\ ~item.animate => motion.angle = Dial!Target(item)

\* A setter that ends in syncAnimationState and requests a repaint for what it
\* changed keeps the dial alive, whatever it did to the item and to the timers.
LEMMA BecomesInv ==
  ASSUME DialInv, NEW i, NEW m, NEW changed \in BOOLEAN, ItemType(i), MotionType(m), Dial!Becomes(i, m, changed, changed)
  PROVE  DialInv'
<1> DEFINE becomingActive == Dial!PresentationActive(i) /\ ~image.wasActive
<1>1. /\ item' = i
      /\ motion' = Dial!SyncAnimationState(i, m, becomingActive)
      /\ image' = [wasActive |-> Dial!PresentationActive(i),
                   stale |-> (image.stale \/ changed) /\ ~Dial!Repainted(i, becomingActive, changed)]
  BY DEF Dial!Becomes, item, motion, image
<1>2. Dial!PresentationActive(i) \in BOOLEAN /\ Dial!Animates(i) \in BOOLEAN /\ Dial!Target(i) \in Int
  BY AnglesAssumption DEF Dial!PresentationActive, Dial!Animates, Dial!Target, ItemType
<1>3. image'.wasActive = Dial!PresentationActive(i) /\ (Dial!PresentationActive(i) => ~image'.stale)
  BY <1>1, <1>2 DEF DialInv, DialType, Dial!Repainted
<1>4. image' \in [wasActive : BOOLEAN, stale : BOOLEAN]
  BY <1>1, <1>2 DEF DialInv, DialType, Dial!Repainted
<1> DEFINE resumed == Dial!Resumed(i, m, becomingActive)
<1>5. MotionType(resumed) /\ resumed.animation = m.animation /\ resumed.delay = m.delay
  BY <1>2 DEF Dial!Resumed, MotionType, ItemType
<1>6. CASE ~Dial!Animates(i)
  <2>1. motion' = [angle |-> IF i.animate THEN m.angle ELSE Dial!Target(i), animation |-> FALSE, delay |-> FALSE]
    BY <1>1, <1>6 DEF Dial!SyncAnimationState, Dial!Stopped
  <2>2. MotionType(motion')
    BY <1>2, <2>1 DEF MotionType, ItemType
  <2>3. ~motion'.animation /\ ~motion'.delay /\ (~i.animate => motion'.angle = Dial!Target(i))
    BY <2>1 DEF ItemType
  <2> QED
    BY <1>1, <1>2, <1>3, <1>4, <1>6, <2>2, <2>3
    DEF DialInv, DialType, ItemType, MotionType, Dial!PresentationActive, Dial!Animates, Dial!Target, item, motion, image
<1>7. CASE Dial!Animates(i)
  <2>1. i.animate
    BY <1>7 DEF Dial!Animates
  <2>2. CASE ~i.connected
    <3>1. motion' = IF m.animation \/ m.delay THEN resumed ELSE [resumed EXCEPT !.animation = ~i.wait, !.delay = i.wait]
      BY <1>1, <1>7, <2>2 DEF Dial!SyncAnimationState
    <3>2. MotionType(motion') /\ (motion'.animation \/ motion'.delay)
      BY <1>5, <3>1 DEF MotionType, ItemType
    <3> QED
      BY <1>1, <1>2, <1>3, <1>4, <1>7, <2>1, <2>2, <3>2
      DEF DialInv, DialType, ItemType, MotionType, Dial!PresentationActive, Dial!Animates, Dial!Target, item, motion, image
  <2>3. CASE i.connected
    <3>1. motion' = [resumed EXCEPT !.delay = FALSE, !.animation = resumed.angle # Dial!Target(i)]
      BY <1>1, <1>7, <2>3 DEF Dial!SyncAnimationState
    <3>2. MotionType(motion') /\ (motion'.animation \/ motion'.angle = Dial!Target(i))
      BY <1>2, <1>5, <3>1 DEF MotionType
    <3> QED
      BY <1>1, <1>2, <1>3, <1>4, <1>7, <2>1, <2>3, <3>2
      DEF DialInv, DialType, ItemType, MotionType, Dial!PresentationActive, Dial!Animates, Dial!Target, item, motion, image
  <2> QED BY <2>2, <2>3 DEF ItemType
<1> QED BY <1>6, <1>7

LEMMA DialInitInv == Dial!DialInit => DialInv
<1> SUFFICES ASSUME Dial!DialInit PROVE DialInv
  OBVIOUS
<1>1. ItemType(item) /\ ~item.complete /\ item.animate
  BY DEF Dial!DialInit, ItemType, item
<1>2. MotionType(motion) /\ ~motion.animation /\ ~motion.delay
  BY DEF Dial!DialInit, MotionType, motion
<1>3. image \in [wasActive : BOOLEAN, stale : BOOLEAN] /\ ~image.wasActive
  BY DEF Dial!DialInit, image
<1>4. Dial!PresentationActive(item) = FALSE /\ ~Dial!Animates(item)
  BY <1>1 DEF Dial!PresentationActive, Dial!Animates, ItemType
<1>5. image.wasActive = FALSE
  BY <1>3
<1> QED BY <1>1, <1>2, <1>3, <1>4, <1>5 DEF DialInv, DialType

LEMMA SettersInv ==
  ASSUME DialInv,
         \/ Dial!ComponentComplete \/ Dial!SetVisible \/ Dial!SetRenderingActive \/ Dial!SetConnected
         \/ Dial!SetSynced \/ Dial!SetPaused \/ Dial!SetAnimateDial
         \/ \E w \in {"none", "shown", "hidden"} : Dial!SetWindow(w)
         \/ \E now \in 0..DialAngles : Dial!SetCurrentTimeFraction(now)
         \/ \E progress \in 0..DialAngles : Dial!SetSyncProgress(progress)
         \/ \E wait \in BOOLEAN : Dial!SetConnectingAnimationDelay(wait)
  PROVE  DialInv'
<1>1. ItemType(item) /\ MotionType(motion)
  BY DEF DialInv, DialType
<1>2. 0..DialAngles \subseteq Int
  BY AnglesAssumption
<1>3. CASE Dial!ComponentComplete
  <2> DEFINE i == [item EXCEPT !.complete = TRUE]
  <2>1. ItemType(i)
    BY <1>1, <1>2 DEF ItemType
  <2>2. Dial!Becomes(i, motion, FALSE, FALSE)
    BY <1>3 DEF Dial!ComponentComplete, item, motion
  <2> HIDE DEF i
  <2> QED BY <1>1, <2>1, <2>2, BecomesInv
<1>4. CASE Dial!SetVisible
  <2> DEFINE i == [item EXCEPT !.visible = ~@]
  <2>1. ItemType(i)
    BY <1>1, <1>2 DEF ItemType
  <2>2. Dial!Becomes(i, motion, FALSE, FALSE)
    BY <1>4 DEF Dial!SetVisible, item, motion
  <2> HIDE DEF i
  <2> QED BY <1>1, <2>1, <2>2, BecomesInv
<1>5. CASE Dial!SetRenderingActive
  <2> DEFINE i == [item EXCEPT !.rendering = ~@]
  <2>1. ItemType(i)
    BY <1>1, <1>2 DEF ItemType
  <2>2. Dial!Becomes(i, motion, FALSE, FALSE)
    BY <1>5 DEF Dial!SetRenderingActive, item, motion
  <2> HIDE DEF i
  <2> QED BY <1>1, <2>1, <2>2, BecomesInv
<1>6. CASE Dial!SetConnected
  <2> DEFINE i == [item EXCEPT !.connected = ~@]
             m == [motion EXCEPT !.angle = 0]
  <2>1. ItemType(i)
    BY <1>1, <1>2 DEF ItemType
  <2>2. MotionType(m)
    BY <1>1 DEF MotionType, ItemType
  <2>3. Dial!Becomes(i, m, TRUE, TRUE)
    BY <1>6 DEF Dial!SetConnected, item, motion
  <2> HIDE DEF i, m
  <2> QED BY <2>1, <2>2, <2>3, BecomesInv
<1>7. CASE Dial!SetSynced
  <2> DEFINE i == [item EXCEPT !.synced = ~@]
             m == [motion EXCEPT !.angle = 0]
  <2>1. ItemType(i)
    BY <1>1, <1>2 DEF ItemType
  <2>2. MotionType(m)
    BY <1>1 DEF MotionType, ItemType
  <2>3. Dial!Becomes(i, m, TRUE, TRUE)
    BY <1>7 DEF Dial!SetSynced, item, motion
  <2> HIDE DEF i, m
  <2> QED BY <2>1, <2>2, <2>3, BecomesInv
<1>8. CASE Dial!SetPaused
  <2> DEFINE i == [item EXCEPT !.paused = ~@]
  <2>1. ItemType(i)
    BY <1>1, <1>2 DEF ItemType
  <2>2. Dial!Becomes(i, motion, TRUE, TRUE)
    BY <1>8 DEF Dial!SetPaused, item, motion
  <2> HIDE DEF i
  <2> QED BY <1>1, <2>1, <2>2, BecomesInv
<1>9. CASE Dial!SetAnimateDial
  <2> DEFINE i == [item EXCEPT !.animate = ~@]
             m == IF item.animate THEN motion ELSE [motion EXCEPT !.angle = 0]
  <2>1. ItemType(i)
    BY <1>1, <1>2 DEF ItemType
  <2>2. MotionType(m)
    BY <1>1 DEF MotionType, ItemType
  <2>3. Dial!Becomes(i, m, TRUE, TRUE)
    BY <1>9 DEF Dial!SetAnimateDial, item, motion
  <2> HIDE DEF i, m
  <2> QED BY <2>1, <2>2, <2>3, BecomesInv
<1>10. ASSUME NEW w \in {"none", "shown", "hidden"}, Dial!SetWindow(w) PROVE DialInv'
  <2> DEFINE i == [item EXCEPT !.window = w]
  <2>1. ItemType(i)
    BY <1>1, <1>2 DEF ItemType
  <2>2. Dial!Becomes(i, motion, FALSE, FALSE)
    BY <1>10 DEF Dial!SetWindow, item, motion
  <2> HIDE DEF i
  <2> QED BY <1>1, <2>1, <2>2, BecomesInv
<1>11. ASSUME NEW now \in 0..DialAngles, Dial!SetCurrentTimeFraction(now) PROVE DialInv'
  <2> DEFINE i == [item EXCEPT !.now = now]
  <2>1. ItemType(i)
    BY <1>1, <1>2 DEF ItemType
  <2>2. Dial!Becomes(i, motion, TRUE, TRUE)
    BY <1>11 DEF Dial!SetCurrentTimeFraction, item, motion
  <2> HIDE DEF i
  <2> QED BY <1>1, <2>1, <2>2, BecomesInv
<1>12. ASSUME NEW progress \in 0..DialAngles, Dial!SetSyncProgress(progress) PROVE DialInv'
  <2> DEFINE i == [item EXCEPT !.progress = progress]
  <2>1. ItemType(i)
    BY <1>1, <1>2 DEF ItemType
  <2>2. Dial!Becomes(i, motion, TRUE, TRUE)
    BY <1>12 DEF Dial!SetSyncProgress, item, motion
  <2> HIDE DEF i
  <2> QED BY <1>1, <2>1, <2>2, BecomesInv
<1>13. ASSUME NEW wait \in BOOLEAN, Dial!SetConnectingAnimationDelay(wait) PROVE DialInv'
  <2> DEFINE i == [item EXCEPT !.wait = wait]
             m == IF item.connected THEN motion ELSE [motion EXCEPT !.animation = FALSE, !.delay = FALSE]
  <2>1. ItemType(i)
    BY <1>1, <1>2 DEF ItemType
  <2>2. MotionType(m)
    BY <1>1 DEF MotionType, ItemType
  <2>3. Dial!Becomes(i, m, FALSE, FALSE)
    BY <1>13 DEF Dial!SetConnectingAnimationDelay, item, motion
  <2> HIDE DEF i, m
  <2> QED BY <2>1, <2>2, <2>3, BecomesInv
<1> QED
  BY <1>3, <1>4, <1>5, <1>6, <1>7, <1>8, <1>9, <1>10, <1>11, <1>12, <1>13

LEMMA DialNextInv ==
  ASSUME DialInv, Dial!DialNext \/ UNCHANGED <<v1, v2, v3>>
  PROVE  DialInv'
<1> USE DEF ItemType, MotionType
<1>1. ASSUME NEW blocks, Dial!SetBlockTimeFractions(blocks)
      PROVE  DialInv'
  <2>1. /\ item' = [item EXCEPT !.blocks = blocks]
        /\ image' = [image EXCEPT !.stale = ~Dial!PresentationActive(item)]
        /\ motion' = motion
    BY <1>1 DEF Dial!SetBlockTimeFractions, item, motion, image
  <2>2. ItemType(item') /\ image' \in [wasActive : BOOLEAN, stale : BOOLEAN]
    BY <2>1 DEF DialInv, DialType, Dial!PresentationActive
  <2>3. /\ item'.complete = item.complete /\ item'.rendering = item.rendering /\ item'.visible = item.visible
        /\ item'.window = item.window /\ item'.connected = item.connected /\ item'.synced = item.synced
        /\ item'.paused = item.paused /\ item'.animate = item.animate /\ item'.now = item.now
        /\ item'.progress = item.progress
        /\ image'.wasActive = image.wasActive /\ image'.stale = ~Dial!PresentationActive(item)
    BY <2>1 DEF DialInv, DialType
  <2> QED
    BY <2>1, <2>2, <2>3
    DEF DialInv, DialType, Dial!PresentationActive, Dial!Animates, Dial!Target, item, motion, image
<1>2. CASE Dial!DelayTimeout
  <2>1. motion' = [motion EXCEPT !.delay = FALSE, !.animation = @ \/ Dial!Animates(item)]
        /\ UNCHANGED <<item, image>>
    BY <1>2 DEF Dial!DelayTimeout, item, motion, image
  <2>2. /\ MotionType(motion') /\ motion'.angle = motion.angle /\ ~motion'.delay
        /\ (motion'.animation <=> motion.animation \/ Dial!Animates(item))
    BY <2>1 DEF DialInv, DialType, Dial!Animates, Dial!PresentationActive
  <2> QED
    BY <2>1, <2>2
    DEF DialInv, DialType, Dial!PresentationActive, Dial!Animates, Dial!Target, item, motion, image
<1>3. CASE Dial!AdvanceAnimation
  <2> DEFINE angle == IF item.connected THEN Dial!Nearer(motion.angle, Dial!Target(item))
                      ELSE Dial!Nearer(motion.angle, DialAngles)
  <2>1. /\ motion.animation
        /\ motion' = IF ~Dial!Animates(item) THEN [motion EXCEPT !.animation = FALSE]
                     ELSE [motion EXCEPT !.angle = angle, !.animation = ~(item.connected /\ angle = Dial!Target(item))]
        /\ UNCHANGED <<item, image>>
    BY <1>3 DEF Dial!AdvanceAnimation, item, motion, image
  <2>2. Dial!Animates(item) /\ item.animate
    BY <2>1 DEF DialInv, DialType, Dial!Animates
  <2>3. angle \in Int
    BY AnglesAssumption DEF Dial!Nearer, Dial!Target, DialInv, DialType
  <2>4. MotionType(motion') /\ (motion'.animation \/ (item.connected /\ motion'.angle = Dial!Target(item)))
    BY <2>1, <2>2, <2>3 DEF DialInv, DialType
  <2> QED
    BY <2>1, <2>2, <2>4
    DEF DialInv, DialType, Dial!PresentationActive, Dial!Animates, Dial!Target, item, motion, image
<1>4. CASE UNCHANGED <<v1, v2, v3>>
  BY <1>4 DEF DialInv, DialType, Dial!PresentationActive, Dial!Animates, Dial!Target, item, motion, image
<1> QED
  BY <1>1, <1>2, <1>3, <1>4, SettersInv DEF Dial!DialNext, Dial!SegmentsNext

LEMMA DialStepInv ==
  ASSUME part = "dial" => DialInv, [Next]_vars, part' = "dial"
  PROVE  DialInv'
<1>1. part = "dial" /\ (Dial!DialNext \/ UNCHANGED <<v1, v2, v3>>)
  BY DEF Next, vars, SyncStep, MempoolStep, LogStep, ParserStep, ConsoleStep, SettingsStep, ClockStep,
    TrafficStep, PeersStep, DialStep, SegmentsStep
<1> QED BY <1>1, DialNextInv

\* However the dial is shown, hidden, connected, paused and fed (the setters of
\* BlockClockDial), a shown dial has painted every change and its arc is moving
\* or at its target (syncAnimationState), and no timer runs for a dial that is
\* hidden or paused.
THEOREM DialKeepsAlive == Spec => []DialIsAlive
<1> DEFINE Inv == part = "dial" => DialInv
<1>1. Init => Inv
  BY DialInitInv DEF Init
<1>2. Inv /\ [Next]_vars => Inv'
  BY DialStepInv
<1>3. Inv => DialIsAlive
  BY DEF DialInv, DialIsAlive, Dial!DialIsAlive, item, motion, image
<1> QED BY <1>1, <1>2, <1>3, PTL DEF Spec

(***************************************************************************)
(* NodeSync: the heights shown and the end of the synchronization          *)
(***************************************************************************)
chain == v1
init == v2
result == v3
mailbox == v4
display == v5
stopping == v6
USE DEF chain, init, result, mailbox, display, stopping

BlockTip == [height : Int, ibd : BOOLEAN]
HeaderTip == [height : Int, presync : BOOLEAN]
ReadTips == [block : Int, header : Int, ibd : BOOLEAN]
DisplayType == [block : Int, header : Int, blockActive : BOOLEAN, headerActive : BOOLEAN, presync : BOOLEAN,
                ready : BOOLEAN, complete : BOOLEAN, seenBlock : BOOLEAN, seenHeader : BOOLEAN]

SyncType ==
  /\ chain \in [tip : Int, header : Int, block : Int, ibd : BOOLEAN]
  /\ init \in {"none", "loaded", "read", "done"}
  /\ mailbox \in [block : {mailbox.block}, header : {mailbox.header}, queued : BOOLEAN]
  /\ \A n \in mailbox.block : n \in BlockTip /\ mailbox.block = {n}
  /\ \A n \in mailbox.header : n \in HeaderTip /\ mailbox.header = {n}
  /\ \A r \in result : r \in ReadTips /\ result = {r}
  /\ init = "read" => result # {}
  /\ display \in DisplayType
  /\ stopping \in BOOLEAN

\* What is not queued is not in the mailbox, and what is there is the newest: a
\* header of the first pass is ahead of the headers kept.
MailboxInv ==
  /\ ~mailbox.queued => mailbox.block = {} /\ mailbox.header = {}
  /\ \A n \in mailbox.block : n.height = chain.block
  /\ \A n \in mailbox.header : IF n.presync THEN n.height > chain.header ELSE n.height = chain.header

\* What was handled is shown until the next notification; LoadChainTip notifies
\* of a block before the tips are read, a header may be known from them only.
ShownInv ==
  /\ init # "none" /\ mailbox.block = {} => display.seenBlock
  /\ display.seenBlock /\ mailbox.block = {} => display.block = chain.block
  /\ (display.seenHeader \/ init = "done") /\ mailbox.header = {} =>
       IF display.presync THEN display.header > chain.header ELSE display.header = chain.header
  /\ init = "read" /\ ~display.seenHeader /\ mailbox.header = {} => \A r \in result : r.header = chain.header

\* The initial download that LoadChainTip reports is forgotten when the tips are
\* applied, unless the node was in one when they were read; if it has left it
\* since, the newest block's notification says so.
DownloadInv ==
  ~chain.ibd =>
    /\ init = "read" => \/ \A r \in result : ~r.ibd
                       \/ (mailbox.block = {} /\ ~display.blockActive)
                       \/ \E n \in mailbox.block : ~n.ibd
    /\ init = "done" => /\ mailbox.block = {} => ~display.blockActive
                       /\ \A n \in mailbox.block : ~n.ibd

\* The completion is of the values shown.
Complete(d) ==
  /\ d.complete => d.header - d.block <= Delta
  /\ d.ready /\ ~d.blockActive /\ ~d.headerActive /\ ~d.presync /\ d.block = d.header => d.complete

SyncInv ==
  /\ SyncType
  /\ ~stopping => /\ MailboxInv /\ ShownInv /\ DownloadInv /\ Complete(display)
                  /\ init = "done" => display.ready

LEMMA TheElement ==
  ASSUME NEW S, NEW e, S = {e}
  PROVE  (CHOOSE x \in S : TRUE) = e
  OBVIOUS

LEMMA UpdateSyncCompletionOK ==
  ASSUME NEW d \in DisplayType
  PROVE  /\ Sync!UpdateSyncCompletion(d) \in DisplayType
         /\ Complete(Sync!UpdateSyncCompletion(d))
         /\ \A f \in {"block", "header", "blockActive", "headerActive", "presync", "ready", "seenBlock", "seenHeader"} :
              Sync!UpdateSyncCompletion(d)[f] = d[f]
<1>1. CASE d.complete
  <2>1. Sync!UpdateSyncCompletion(d) = [d EXCEPT !.complete = d.header - d.block <= Delta]
    BY <1>1 DEF Sync!UpdateSyncCompletion
  <2>2. (d.header - d.block <= Delta) \in BOOLEAN /\ (d.block = d.header => d.header - d.block <= Delta)
    BY HeightsAssumption DEF DisplayType
  <2> QED BY <2>1, <2>2 DEF DisplayType, Complete
<1>2. CASE ~d.complete
  <2> DEFINE c == d.ready /\ ~d.blockActive /\ ~d.headerActive /\ ~d.presync /\ d.block >= d.header
  <2>1. Sync!UpdateSyncCompletion(d) = [d EXCEPT !.complete = c]
    BY <1>2 DEF Sync!UpdateSyncCompletion
  <2>2. c => d.header - d.block <= Delta
    BY HeightsAssumption DEF DisplayType
  <2>3. d.ready /\ ~d.blockActive /\ ~d.headerActive /\ ~d.presync /\ d.block = d.header => c
    BY HeightsAssumption DEF DisplayType
  <2>4. c \in BOOLEAN
    BY DEF DisplayType
  <2> HIDE DEF c
  <2> QED BY <2>1, <2>2, <2>3, <2>4 DEF DisplayType, Complete
<1> QED BY <1>1, <1>2 DEF DisplayType

\* publishNotifications empties the mailbox into what is shown.
LEMMA PublishedOK ==
  ASSUME SyncType, NEW p, p = Sync!Published(display)
  PROVE  /\ p \in DisplayType /\ p.ready = display.ready
         /\ mailbox.block = {} => /\ p.block = display.block /\ p.blockActive = display.blockActive
                                 /\ p.seenBlock = display.seenBlock
         /\ \A n \in mailbox.block : p.block = n.height /\ p.blockActive = n.ibd /\ p.seenBlock
         /\ mailbox.header = {} => /\ p.header = display.header /\ p.presync = display.presync
                                  /\ p.seenHeader = display.seenHeader
         /\ \A n \in mailbox.header : p.header = n.height /\ p.presync = n.presync /\ p.seenHeader
<1> DEFINE n == CHOOSE m \in mailbox.header : TRUE
           h == IF mailbox.header = {} THEN display
                ELSE [Sync!SetHeaderSyncState(display, n.height, n.presync) EXCEPT !.seenHeader = TRUE]
           b == CHOOSE m \in mailbox.block : TRUE
<1>1. p = IF mailbox.block = {} THEN h
          ELSE [h EXCEPT !.seenBlock = TRUE, !.block = b.height, !.blockActive = b.ibd]
  BY DEF Sync!Published
<1>2. ASSUME NEW m \in mailbox.header PROVE m = n /\ m \in HeaderTip
  BY <1>2, TheElement DEF SyncType
<1>3. ASSUME NEW m \in mailbox.block PROVE m = b /\ m \in BlockTip
  BY <1>3, TheElement DEF SyncType
<1> HIDE DEF n, b
<1>4. /\ h \in DisplayType /\ h.ready = display.ready /\ h.block = display.block
      /\ h.blockActive = display.blockActive /\ h.seenBlock = display.seenBlock
      /\ mailbox.header = {} => /\ h.header = display.header /\ h.presync = display.presync
                               /\ h.seenHeader = display.seenHeader
      /\ \A m \in mailbox.header : h.header = m.height /\ h.presync = m.presync /\ h.seenHeader
  <2>1. CASE mailbox.header = {}
    BY <2>1 DEF SyncType
  <2>2. CASE mailbox.header # {}
    <3>1. n \in mailbox.header /\ n \in HeaderTip /\ \A m \in mailbox.header : m = n
      BY <1>2, <2>2
    <3>2. h = [[display EXCEPT !.header = n.height, !.presync = n.presync,
                               !.headerActive = n.height > 0 /\ Sync!EstimateHeadersLeft(n.height) > Delta]
               EXCEPT !.seenHeader = TRUE]
      BY <2>2 DEF Sync!SetHeaderSyncState
    <3>3. (n.height > 0 /\ Sync!EstimateHeadersLeft(n.height) > Delta) \in BOOLEAN
      BY <3>1, HeightsAssumption DEF HeaderTip, SyncType, Sync!EstimateHeadersLeft
    <3> HIDE DEF h
    <3> QED BY <2>2, <3>1, <3>2, <3>3 DEF SyncType, DisplayType, HeaderTip
  <2> QED BY <2>1, <2>2
<1> HIDE DEF h
<1>5. CASE mailbox.block = {}
  BY <1>1, <1>4, <1>5
<1>6. CASE mailbox.block # {}
  <2>1. b \in mailbox.block /\ b \in BlockTip /\ \A m \in mailbox.block : m = b
    BY <1>3, <1>6
  <2>2. p = [h EXCEPT !.seenBlock = TRUE, !.block = b.height, !.blockActive = b.ibd]
    BY <1>1, <1>6
  <2>3. p \in DisplayType /\ p.block = b.height /\ p.blockActive = b.ibd /\ p.seenBlock
    BY <1>4, <2>1, <2>2 DEF DisplayType, BlockTip
  <2>4. p.ready = h.ready /\ p.header = h.header /\ p.presync = h.presync /\ p.seenHeader = h.seenHeader
    BY <1>4, <2>2 DEF DisplayType
  <2> QED BY <1>4, <1>6, <2>1, <2>3, <2>4
<1> QED BY <1>5, <1>6

LEMMA NotifyBlockOK ==
  ASSUME SyncType, NEW height \in Int, NEW ibd \in BOOLEAN, Sync!NotifyBlockTip(height, ibd)
  PROVE  /\ mailbox' \in [block : {mailbox'.block}, header : {mailbox'.header}, queued : BOOLEAN]
         /\ ~stopping => mailbox'.queued
         /\ mailbox'.block # {} /\ mailbox'.header = mailbox.header
         /\ \A n \in mailbox'.block : /\ n \in BlockTip /\ mailbox'.block = {n}
                                     /\ n.height = height /\ n.ibd = ibd
<1> DEFINE tip == [height |-> height, ibd |-> ibd]
<1>1. mailbox' = [[mailbox EXCEPT !.block = {tip}] EXCEPT !.queued = @ \/ ~stopping]
  BY DEF Sync!NotifyBlockTip, Sync!Schedule
<1>2. tip \in BlockTip /\ tip.height = height /\ tip.ibd = ibd
  BY DEF BlockTip
<1> HIDE DEF tip
<1>3. /\ mailbox'.block = {tip} /\ mailbox'.header = mailbox.header /\ mailbox'.queued \in BOOLEAN
      /\ ~stopping => mailbox'.queued
      /\ mailbox' = [block |-> {tip}, header |-> mailbox.header, queued |-> mailbox'.queued]
  BY <1>1 DEF SyncType
<1> QED BY <1>2, <1>3 DEF tip

LEMMA NotifyHeaderOK ==
  ASSUME SyncType, NEW height \in Int, NEW presync \in BOOLEAN, Sync!NotifyHeaderTip(height, presync)
  PROVE  /\ mailbox' \in [block : {mailbox'.block}, header : {mailbox'.header}, queued : BOOLEAN]
         /\ ~stopping => mailbox'.queued
         /\ mailbox'.header # {} /\ mailbox'.block = mailbox.block
         /\ \A n \in mailbox'.header : /\ n \in HeaderTip /\ mailbox'.header = {n}
                                      /\ n.height = height /\ n.presync = presync
<1> DEFINE tip == [height |-> height, presync |-> presync]
<1>1. mailbox' = [[mailbox EXCEPT !.header = {tip}] EXCEPT !.queued = @ \/ ~stopping]
  BY DEF Sync!NotifyHeaderTip, Sync!Schedule
<1>2. tip \in HeaderTip /\ tip.height = height /\ tip.presync = presync
  BY DEF HeaderTip
<1> HIDE DEF tip
<1>3. /\ mailbox'.header = {tip} /\ mailbox'.block = mailbox.block /\ mailbox'.queued \in BOOLEAN
      /\ ~stopping => mailbox'.queued
      /\ mailbox' = [block |-> mailbox.block, header |-> {tip}, queued |-> mailbox'.queued]
  BY <1>1 DEF SyncType
<1> QED BY <1>2, <1>3 DEF tip

LEMMA SyncInitInv == Sync!Init => SyncInv
<1> SUFFICES ASSUME Sync!Init PROVE SyncInv
  OBVIOUS
<1>1. PICK tip \in 1..MaxHeight, height \in 0..MaxHeight :
        chain = [tip |-> tip, header |-> height, block |-> height, ibd |-> tip - height > Delta]
  BY DEF Sync!Init
<1>2. chain \in [tip : Int, header : Int, block : Int, ibd : BOOLEAN]
  BY <1>1, HeightsAssumption
<1>3. /\ mailbox = [block |-> {}, header |-> {}, queued |-> FALSE]
      /\ init = "none" /\ result = {} /\ stopping = FALSE
      /\ display = [block |-> 0, header |-> 0, blockActive |-> FALSE, headerActive |-> FALSE, presync |-> FALSE,
                   ready |-> FALSE, complete |-> FALSE, seenBlock |-> FALSE, seenHeader |-> FALSE]
  BY DEF Sync!Init
<1>4. display \in DisplayType /\ ~display.seenHeader /\ ~display.ready /\ ~display.complete
  BY <1>3 DEF DisplayType
<1>5. Complete(display)
  BY <1>4 DEF Complete
<1>6. mailbox.block = {} /\ mailbox.header = {} /\ ~display.seenBlock
      /\ mailbox \in [block : {mailbox.block}, header : {mailbox.header}, queued : BOOLEAN]
  BY <1>3
<1>7. SyncType
  BY <1>2, <1>3, <1>4, <1>6 DEF SyncType
<1> QED BY <1>3, <1>4, <1>5, <1>6, <1>7 DEF SyncInv, MailboxInv, ShownInv, DownloadInv

\* A step of the node that keeps what was read and shown and posts a block.
LEMMA BlockNoticeInv ==
  ASSUME SyncInv, NEW ibd \in BOOLEAN, Sync!NotifyBlockTip(chain'.block, ibd),
         chain' \in [tip : Int, header : Int, block : Int, ibd : BOOLEAN],
         chain'.header = chain.header, ~chain'.ibd => ~ibd \/ init' = "loaded",
         init' \in {"loaded", "read", "done"}, init' = init \/ init' = "loaded",
         UNCHANGED <<result, display, stopping>>
  PROVE  SyncInv'
<1> USE DEF SyncInv
<1>1. chain'.block \in Int /\ SyncType
  OBVIOUS
<1>2. /\ mailbox' \in [block : {mailbox'.block}, header : {mailbox'.header}, queued : BOOLEAN]
      /\ ~stopping => mailbox'.queued
      /\ mailbox'.block # {} /\ mailbox'.header = mailbox.header
      /\ \A n \in mailbox'.block : /\ n \in BlockTip /\ mailbox'.block = {n}
                                  /\ n.height = chain'.block /\ n.ibd = ibd
  BY <1>1, NotifyBlockOK, Zenon
<1>3. SyncType'
  BY <1>2 DEF SyncType
<1>4. ~stopping => MailboxInv'
  BY <1>2 DEF MailboxInv
<1>5. ~stopping => ShownInv'
  BY <1>2 DEF ShownInv
<1>6. DownloadInv'
  BY <1>2 DEF DownloadInv
<1> QED BY <1>3, <1>4, <1>5, <1>6 DEF Complete

\* The same for a header.
LEMMA HeaderNoticeInv ==
  ASSUME SyncInv, NEW height \in Int, NEW presync \in BOOLEAN, Sync!NotifyHeaderTip(height, presync),
         IF presync THEN height > chain'.header ELSE height = chain'.header,
         chain' \in [tip : Int, header : Int, block : Int, ibd : BOOLEAN],
         chain'.block = chain.block, chain'.ibd = chain.ibd,
         UNCHANGED <<init, result, display, stopping>>
  PROVE  SyncInv'
<1> USE DEF SyncInv
<1>1. SyncType
  OBVIOUS
<1>2. /\ mailbox' \in [block : {mailbox'.block}, header : {mailbox'.header}, queued : BOOLEAN]
      /\ ~stopping => mailbox'.queued
      /\ mailbox'.header # {} /\ mailbox'.block = mailbox.block
      /\ \A n \in mailbox'.header : /\ n \in HeaderTip /\ mailbox'.header = {n}
                                   /\ n.height = height /\ n.presync = presync
  BY <1>1, NotifyHeaderOK, Zenon
<1>3. SyncType'
  BY <1>2 DEF SyncType
<1>4. ~stopping => MailboxInv'
  BY <1>2 DEF MailboxInv
<1>5. ~stopping => ShownInv'
  BY <1>2 DEF ShownInv
<1>6. ~stopping => DownloadInv'
  BY <1>2 DEF DownloadInv
<1> QED BY <1>3, <1>4, <1>5, <1>6 DEF Complete

LEMMA NodeNotifiesInv ==
  ASSUME SyncInv,
         \/ Sync!LoadChainTip \/ Sync!AcceptHeader \/ Sync!ConnectBlock
         \/ \E height \in 1..MaxHeight : Sync!Presync(height)
  PROVE  SyncInv'
<1>0. chain \in [tip : Int, header : Int, block : Int, ibd : BOOLEAN] /\ init \in {"none", "loaded", "read", "done"}
  BY DEF SyncInv, SyncType
<1>1. CASE Sync!LoadChainTip
  <2>1. /\ init' = "loaded" /\ Sync!NotifyBlockTip(chain'.block, TRUE)
        /\ UNCHANGED <<chain, result, display, stopping>>
    BY <1>1 DEF Sync!LoadChainTip
  <2> QED BY <1>0, <2>1, BlockNoticeInv
<1>2. CASE Sync!AcceptHeader
  <2>1. /\ chain' = [chain EXCEPT !.header = @ + 1] /\ Sync!NotifyHeaderTip(chain.header + 1, FALSE)
        /\ UNCHANGED <<init, result, display, stopping>>
    BY <1>2 DEF Sync!AcceptHeader
  <2>2. /\ chain' \in [tip : Int, header : Int, block : Int, ibd : BOOLEAN]
        /\ chain'.block = chain.block /\ chain'.ibd = chain.ibd
        /\ chain'.header = chain.header + 1 /\ chain.header + 1 \in Int
    BY <1>0, <2>1
  <2> QED BY <2>1, <2>2, HeaderNoticeInv
<1>3. CASE Sync!ConnectBlock
  <2> DEFINE still == chain.ibd /\ chain.tip - (chain.block + 1) > Delta
  <2>1. /\ init # "none" /\ chain' = [chain EXCEPT !.block = @ + 1, !.ibd = still]
        /\ Sync!NotifyBlockTip(chain.block + 1, still)
        /\ UNCHANGED <<init, result, display, stopping>>
    BY <1>3 DEF Sync!ConnectBlock
  <2>2. still \in BOOLEAN
    BY <1>0, HeightsAssumption
  <2> HIDE DEF still
  <2>5. chain' = [tip |-> chain.tip, header |-> chain.header, block |-> chain.block + 1, ibd |-> still]
    BY <1>0, <2>1
  <2>3. /\ chain' \in [tip : Int, header : Int, block : Int, ibd : BOOLEAN]
        /\ chain'.header = chain.header /\ (~chain'.ibd => ~still) /\ chain'.block = chain.block + 1
    BY <1>0, <2>2, <2>5
  <2>4. Sync!NotifyBlockTip(chain'.block, still)
    BY <2>1, <2>3
  <2> QED BY <1>0, <2>1, <2>2, <2>3, <2>4, BlockNoticeInv
<1>4. ASSUME NEW height \in 1..MaxHeight, Sync!Presync(height)
      PROVE  SyncInv'
  <2>1. /\ chain.header < height /\ Sync!NotifyHeaderTip(height, TRUE)
        /\ UNCHANGED <<chain, init, result, display, stopping>>
    BY <1>4 DEF Sync!Presync
  <2>2. height \in Int /\ height > chain'.header
    BY <1>0, <2>1, HeightsAssumption
  <2> QED BY <1>0, <2>1, <2>2, HeaderNoticeInv
<1> QED BY <1>1, <1>2, <1>3, <1>4

LEMMA QuietNodeInv ==
  ASSUME SyncInv, Sync!NetworkMinesBlocks \/ Sync!InitializeEnd \/ UNCHANGED <<v1, v2, v3, v4, v5, v6>>
  PROVE  SyncInv'
<1> USE DEF SyncInv
<1>1. CASE Sync!NetworkMinesBlocks
  <2>1. PICK tip \in (chain.tip + 1)..MaxHeight : chain' = [chain EXCEPT !.tip = tip]
    BY <1>1 DEF Sync!NetworkMinesBlocks
  <2>2. tip \in Int
    BY HeightsAssumption DEF SyncType
  <2>3. /\ chain' \in [tip : Int, header : Int, block : Int, ibd : BOOLEAN]
        /\ chain'.block = chain.block /\ chain'.header = chain.header /\ chain'.ibd = chain.ibd
    BY <2>1, <2>2 DEF SyncType
  <2>4. UNCHANGED <<init, result, mailbox, display, stopping>>
    BY <1>1 DEF Sync!NetworkMinesBlocks
  <2>5. SyncType'
    BY <2>3, <2>4 DEF SyncType
  <2> QED BY <2>3, <2>4, <2>5 DEF MailboxInv, ShownInv, DownloadInv, Complete
<1>2. CASE Sync!InitializeEnd
  <2> DEFINE r == [block |-> chain.block, header |-> chain.header, ibd |-> chain.ibd]
  <2>1. init = "loaded" /\ init' = "read" /\ result' = {r} /\ UNCHANGED <<chain, mailbox, display, stopping>>
    BY <1>2 DEF Sync!InitializeEnd
  <2>2. r \in ReadTips /\ r.header = chain.header /\ r.ibd = chain.ibd
    BY DEF SyncType, ReadTips
  <2> HIDE DEF r
  <2>3. SyncType'
    BY <2>1, <2>2 DEF SyncType
  <2>4. ~stopping => MailboxInv' /\ ShownInv'
    BY <2>1, <2>2 DEF MailboxInv, ShownInv
  <2>5. DownloadInv'
    BY <2>1, <2>2 DEF DownloadInv
  <2> QED BY <2>1, <2>3, <2>4, <2>5 DEF Complete
<1>3. CASE UNCHANGED <<v1, v2, v3, v4, v5, v6>>
  BY <1>3 DEF SyncType, MailboxInv, ShownInv, DownloadInv, Complete
<1> QED BY <1>1, <1>2, <1>3

LEMMA PublishInv == ASSUME SyncInv, Sync!PublishNotifications PROVE SyncInv'
<1> USE DEF SyncInv
<1>1. SyncType /\ UNCHANGED <<chain, init, result, stopping>>
  BY DEF Sync!PublishNotifications
<1>2. CASE stopping
  <2>1. mailbox' = [mailbox EXCEPT !.queued = FALSE] /\ display' = display
    BY <1>2 DEF Sync!PublishNotifications
  <2>2. /\ mailbox' \in [block : {mailbox'.block}, header : {mailbox'.header}, queued : BOOLEAN]
        /\ mailbox'.block = mailbox.block /\ mailbox'.header = mailbox.header
    BY <1>1, <2>1 DEF SyncType
  <2>3. SyncType'
    BY <1>1, <2>1, <2>2 DEF SyncType
  <2> QED BY <1>1, <1>2, <2>3
<1>3. CASE ~stopping
  <2> DEFINE p == Sync!Published(display)
  <2>1. mailbox' = [block |-> {}, header |-> {}, queued |-> FALSE] /\ display' = Sync!UpdateSyncCompletion(p)
    BY <1>3 DEF Sync!PublishNotifications
  <2> HIDE DEF p
  <2>2. p = Sync!Published(display)
    BY DEF p
  <2>3. /\ mailbox' \in [block : {mailbox'.block}, header : {mailbox'.header}, queued : BOOLEAN]
        /\ mailbox'.block = {} /\ mailbox'.header = {}
    BY <2>1
  <2>4. /\ p \in DisplayType /\ p.ready = display.ready
        /\ mailbox.block = {} => /\ p.block = display.block /\ p.blockActive = display.blockActive
                                /\ p.seenBlock = display.seenBlock
        /\ \A n \in mailbox.block : p.block = n.height /\ p.blockActive = n.ibd /\ p.seenBlock
        /\ mailbox.header = {} => /\ p.header = display.header /\ p.presync = display.presync
                                 /\ p.seenHeader = display.seenHeader
        /\ \A n \in mailbox.header : p.header = n.height /\ p.presync = n.presync /\ p.seenHeader
    BY <1>1, <2>2, PublishedOK
  <2>5. /\ display' \in DisplayType /\ Complete(display')
        /\ display'.block = p.block /\ display'.header = p.header /\ display'.blockActive = p.blockActive
        /\ display'.presync = p.presync /\ display'.ready = p.ready
        /\ display'.seenBlock = p.seenBlock /\ display'.seenHeader = p.seenHeader
    BY <2>1, <2>4, UpdateSyncCompletionOK
  <2>6. SyncType'
    BY <1>1, <2>3, <2>5 DEF SyncType
  <2>7. MailboxInv'
    BY <2>3 DEF MailboxInv
  <2>8. ShownInv'
    BY <1>1, <1>3, <2>3, <2>4, <2>5 DEF ShownInv, MailboxInv
  <2>9. DownloadInv'
    BY <1>1, <1>3, <2>3, <2>4, <2>5 DEF DownloadInv
  <2> QED BY <1>1, <1>3, <2>4, <2>5, <2>6, <2>7, <2>8, <2>9
<1> QED BY <1>2, <1>3

LEMMA ApplyResultOK ==
  ASSUME SyncType, NEW d \in DisplayType, NEW r \in ReadTips, d.seenBlock, NEW a, a = Sync!ApplyResult(d, r)
  PROVE  /\ a \in DisplayType /\ a.block = d.block /\ (a.blockActive => d.blockActive /\ r.ibd)
         /\ d.seenHeader => a.header = d.header /\ a.presync = d.presync
         /\ ~d.seenHeader => a.header = r.header /\ ~a.presync
         /\ a.seenBlock
<1> DEFINE cleared == [d EXCEPT !.blockActive = @ /\ r.ibd]
<1>1. a = IF d.seenHeader THEN cleared ELSE Sync!SetHeaderSyncState(cleared, r.header, FALSE)
  BY DEF Sync!ApplyResult
<1>2. /\ cleared \in DisplayType /\ cleared.block = d.block /\ (cleared.blockActive => d.blockActive /\ r.ibd)
      /\ cleared.header = d.header /\ cleared.presync = d.presync /\ cleared.seenBlock
  BY DEF DisplayType, ReadTips
<1> HIDE DEF cleared
<1>3. CASE d.seenHeader
  BY <1>1, <1>2, <1>3
<1>4. CASE ~d.seenHeader
  <2> DEFINE active == r.header > 0 /\ Sync!EstimateHeadersLeft(r.header) > Delta
  <2>1. a = [cleared EXCEPT !.header = r.header, !.presync = FALSE, !.headerActive = active]
    BY <1>1, <1>4 DEF Sync!SetHeaderSyncState
  <2>2. active \in BOOLEAN
    BY HeightsAssumption DEF ReadTips, SyncType, Sync!EstimateHeadersLeft
  <2> HIDE DEF active
  <2> QED BY <1>2, <1>4, <2>1, <2>2 DEF DisplayType, ReadTips
<1> QED BY <1>3, <1>4

LEMMA InitializeResultInv == ASSUME SyncInv, Sync!InitializeResult PROVE SyncInv'
<1> USE DEF SyncInv
<1> DEFINE p == Sync!Published(display)
           r == CHOOSE x \in result : TRUE
           a == Sync!ApplyResult(p, r)
<1>1. /\ SyncType /\ ~stopping /\ init = "read" /\ init' = "done"
      /\ mailbox' = [mailbox EXCEPT !.block = {}, !.header = {}]
      /\ display' = Sync!UpdateSyncCompletion([a EXCEPT !.ready = TRUE])
      /\ UNCHANGED <<chain, result, stopping>>
  BY DEF Sync!InitializeResult
<1>2. r \in result /\ r \in ReadTips
  BY <1>1, TheElement DEF SyncType
<1> HIDE DEF r
<1>3. p = Sync!Published(display)
  OBVIOUS
<1> HIDE DEF p
<1>4. /\ p \in DisplayType
      /\ mailbox.block = {} => /\ p.block = display.block /\ p.blockActive = display.blockActive
                              /\ p.seenBlock = display.seenBlock
      /\ \A n \in mailbox.block : p.block = n.height /\ p.blockActive = n.ibd /\ p.seenBlock
      /\ mailbox.header = {} => /\ p.header = display.header /\ p.presync = display.presync
                               /\ p.seenHeader = display.seenHeader
      /\ \A n \in mailbox.header : p.header = n.height /\ p.presync = n.presync /\ p.seenHeader
  BY <1>1, <1>3, PublishedOK
<1>5. p.seenBlock /\ p.block = chain.block
  BY <1>1, <1>4 DEF ShownInv, MailboxInv
<1>6. a = Sync!ApplyResult(p, r)
  OBVIOUS
<1> HIDE DEF a
<1>7. /\ a \in DisplayType /\ a.block = p.block /\ (a.blockActive => p.blockActive /\ r.ibd)
      /\ p.seenHeader => a.header = p.header /\ a.presync = p.presync
      /\ ~p.seenHeader => a.header = r.header /\ ~a.presync
      /\ a.seenBlock
  <2>1. SyncType /\ p \in DisplayType /\ r \in ReadTips /\ p.seenBlock
    BY <1>1, <1>2, <1>4, <1>5
  <2> QED BY <1>6, <2>1, ApplyResultOK
<1> DEFINE e == [a EXCEPT !.ready = TRUE]
<1>8. /\ e \in DisplayType /\ e.block = a.block /\ e.blockActive = a.blockActive /\ e.header = a.header
      /\ e.presync = a.presync /\ e.seenBlock = a.seenBlock /\ e.ready
  BY <1>7 DEF DisplayType
<1> HIDE DEF e
<1>9. /\ display' \in DisplayType /\ Complete(display')
      /\ display'.block = a.block /\ display'.header = a.header /\ display'.blockActive = a.blockActive
      /\ display'.presync = a.presync /\ display'.ready /\ display'.seenBlock
  <2>1. display' = Sync!UpdateSyncCompletion(e)
    BY <1>1 DEF e
  <2>2. /\ display' \in DisplayType /\ Complete(display')
        /\ display'.block = e.block /\ display'.header = e.header /\ display'.blockActive = e.blockActive
        /\ display'.presync = e.presync /\ display'.ready = e.ready /\ display'.seenBlock = e.seenBlock
    BY <1>8, <2>1, UpdateSyncCompletionOK
  <2> QED BY <1>7, <1>8, <2>2
<1>10. /\ mailbox' \in [block : {mailbox'.block}, header : {mailbox'.header}, queued : BOOLEAN]
       /\ mailbox'.block = {} /\ mailbox'.header = {}
  BY <1>1 DEF SyncType
<1>11. SyncType'
  BY <1>1, <1>9, <1>10 DEF SyncType
<1>12. MailboxInv'
  BY <1>10 DEF MailboxInv
<1>13. IF a.presync THEN a.header > chain.header ELSE a.header = chain.header
  <2>1. CASE mailbox.header = {} /\ ~display.seenHeader
    BY <1>1, <1>2, <1>4, <1>7, <2>1 DEF ShownInv
  <2>2. CASE mailbox.header = {} /\ display.seenHeader
    BY <1>1, <1>4, <1>7, <2>2 DEF ShownInv
  <2>3. ASSUME NEW n \in mailbox.header
        PROVE  IF a.presync THEN a.header > chain.header ELSE a.header = chain.header
    BY <1>1, <1>4, <1>7, <2>3 DEF MailboxInv
  <2> QED BY <2>1, <2>2, <2>3
<1>14. ShownInv'
  BY <1>1, <1>5, <1>7, <1>9, <1>10, <1>13 DEF ShownInv
<1>15. ASSUME ~chain.ibd PROVE ~a.blockActive
  <2>1. \A n \in mailbox.block : mailbox.block = {n} /\ p.blockActive = n.ibd
    BY <1>1, <1>4 DEF SyncType
  <2>2. CASE \A x \in result : ~x.ibd
    BY <1>2, <1>7, <2>2
  <2>3. CASE mailbox.block = {} /\ ~display.blockActive
    BY <1>4, <1>7, <2>3
  <2>4. ASSUME NEW n \in mailbox.block, ~n.ibd PROVE ~a.blockActive
    BY <1>7, <2>1, <2>4
  <2> QED BY <1>1, <1>15, <2>2, <2>3, <2>4 DEF DownloadInv
<1>16. DownloadInv'
  BY <1>1, <1>9, <1>10, <1>15 DEF DownloadInv
<1> QED BY <1>1, <1>9, <1>11, <1>12, <1>14, <1>16

LEMMA SyncNextInv ==
  ASSUME SyncInv, Sync!SyncNext \/ UNCHANGED <<v1, v2, v3, v4, v5, v6>>
  PROVE  SyncInv'
<1>1. ASSUME Sync!BeginShutdown PROVE SyncInv'
  <2> DEFINE d == [display EXCEPT !.ready = FALSE]
  <2>1. /\ stopping' = TRUE /\ display' = Sync!UpdateSyncCompletion(d)
        /\ UNCHANGED <<chain, init, result, mailbox>>
    BY <1>1 DEF Sync!BeginShutdown
  <2>2. d \in DisplayType
    BY DEF SyncInv, SyncType, DisplayType
  <2> HIDE DEF d
  <2>3. display' \in DisplayType
    BY <2>1, <2>2, UpdateSyncCompletionOK
  <2> QED BY <2>1, <2>3 DEF SyncInv, SyncType
<1> QED BY <1>1, NodeNotifiesInv, QuietNodeInv, PublishInv, InitializeResultInv DEF Sync!SyncNext

LEMMA SyncStepInv ==
  ASSUME part = "sync" => SyncInv, [Next]_vars, part' = "sync"
  PROVE  SyncInv'
<1>1. part = "sync" /\ (Sync!SyncNext \/ UNCHANGED <<v1, v2, v3, v4, v5, v6>>)
  BY DEF Next, vars, SyncStep, MempoolStep, LogStep, ParserStep, ConsoleStep, SettingsStep, ClockStep,
    TrafficStep, PeersStep, DialStep, SegmentsStep
<1> QED BY <1>1, SyncNextInv

\* In whatever order notifications overwrite one another and the result of
\* initialize arrives, once nothing is queued the heights shown are the node's
\* (publishNotifications, initializeResult), and the synchronization ends when,
\* and only while, the blocks have caught up (updateSyncCompletion).
THEOREM SynchronizationIsShown == Spec => []SyncIsCurrent
<1> DEFINE Inv == part = "sync" => SyncInv
<1>1. Init => Inv
  BY SyncInitInv DEF Init
<1>2. Inv /\ [Next]_vars => Inv'
  BY SyncStepInv
<1>3. Inv => SyncIsCurrent
  <2> SUFFICES ASSUME SyncInv, init = "done", ~stopping, ~mailbox.queued
               PROVE  Sync!SyncIsCurrent
    BY DEF SyncIsCurrent, Sync!SyncIsCurrent, Sync!ShownTipIsCurrent, Sync!SyncCompletionIsRight
  <2>1. mailbox.block = {} /\ mailbox.header = {} /\ display.seenBlock /\ display.ready
    BY DEF SyncInv, MailboxInv, ShownInv
  <2>2. display.block = chain.block /\ (IF display.presync THEN display.header > chain.header ELSE display.header = chain.header)
    BY <2>1 DEF SyncInv, ShownInv
  <2>3. display.complete => chain.header - chain.block <= Delta
    BY <2>2, HeightsAssumption DEF SyncInv, Complete, SyncType, DisplayType
  <2>4. chain.block = chain.tip /\ chain.header = chain.tip /\ ~chain.ibd /\ ~display.presync /\ ~display.headerActive
          => display.complete
    BY <2>1, <2>2 DEF SyncInv, Complete, DownloadInv
  <2> QED
    BY <2>2, <2>3, <2>4 DEF Sync!SyncIsCurrent, Sync!ShownTipIsCurrent, Sync!SyncCompletionIsRight
<1> QED BY <1>1, <1>2, <1>3, PTL DEF Spec

HIDE DEF chain, init, result, mailbox, display, stopping

(***************************************************************************)
(* MempoolPolling: the worker's timer                                      *)
(***************************************************************************)
polling == v2
queries == v3
pollWorker == v4
USE DEF polling, queries, pollWorker

PollEvents == {"start", "stop", "fetch", "quit"}
WorkerType(w) == w \in [alive : BOOLEAN, timer : BOOLEAN, queue : Seq(PollEvents)]

\* The last event but fetches decides whether the timer runs once the queue is
\* empty; without one the timer stays as it is.
Told(timer, queue, wanted) ==
  /\ (\A k \in 1..Len(queue) : queue[k] = "fetch") => (timer <=> wanted)
  /\ \A k \in 1..Len(queue) :
       queue[k] # "fetch" /\ (\A j \in 1..Len(queue) : j > k => queue[j] = "fetch") => (queue[k] = "start" <=> wanted)

PollInv ==
  /\ polling \in BOOLEAN /\ queries \in BOOLEAN /\ WorkerType(pollWorker)
  /\ Told(pollWorker.timer, pollWorker.queue, polling /\ queries)

LEMMA PostOK ==
  ASSUME NEW w, WorkerType(w), NEW e \in PollEvents, NEW x, x = Mempool!Post(w, e)
  PROVE  /\ WorkerType(x) /\ x.timer = w.timer
         /\ \A wanted \in BOOLEAN : e = "fetch" /\ Told(w.timer, w.queue, wanted) => Told(x.timer, x.queue, wanted)
         /\ e # "fetch" => Told(x.timer, x.queue, e = "start")
<1>1. /\ w.queue \in Seq(PollEvents) /\ x = [w EXCEPT !.queue = Append(w.queue, e)]
  BY DEF WorkerType, Mempool!Post
<1>2. /\ x.queue = Append(w.queue, e) /\ x.timer = w.timer
      /\ x = [alive |-> w.alive, timer |-> w.timer, queue |-> Append(w.queue, e)]
  BY <1>1 DEF WorkerType
<1>3. /\ Len(w.queue) \in Nat /\ Len(x.queue) = Len(w.queue) + 1 /\ x.queue[Len(w.queue) + 1] = e
      /\ \A k \in 1..Len(w.queue) : x.queue[k] = w.queue[k]
      /\ Append(w.queue, e) \in Seq(PollEvents)
  BY <1>1, <1>2
<1>4. WorkerType(x)
  BY <1>2, <1>3 DEF WorkerType
<1> HIDE DEF WorkerType
<1>5. ASSUME NEW wanted \in BOOLEAN, e = "fetch", Told(w.timer, w.queue, wanted)
      PROVE  Told(x.timer, x.queue, wanted)
  BY <1>2, <1>3, <1>5 DEF Told
<1>6. ASSUME e # "fetch" PROVE Told(x.timer, x.queue, e = "start")
  <2>1. \A k \in 1..Len(x.queue) : (\A j \in 1..Len(x.queue) : j > k => x.queue[j] = "fetch") => k = Len(x.queue)
    BY <1>3, <1>6
  <2> QED BY <1>3, <1>6, <2>1 DEF Told
<1> QED BY <1>2, <1>4, <1>5, <1>6

\* setMempoolInfoPollingActive: the event it queues brings the timer to what is
\* wanted now.
LEMMA PollingSetOK ==
  ASSUME PollInv, NEW active \in BOOLEAN, NEW x, x = Mempool!PollingSet(pollWorker, active)
  PROVE  WorkerType(x) /\ Told(x.timer, x.queue, active /\ queries)
<1>1. CASE polling = active \/ ~queries
  <2>1. x = pollWorker
    BY <1>1 DEF Mempool!PollingSet
  <2>2. (active /\ queries) = (polling /\ queries)
    BY <1>1 DEF PollInv
  <2> QED BY <2>1, <2>2 DEF PollInv
<1>2. CASE ~(polling = active \/ ~queries) /\ active
  <2> DEFINE y == Mempool!Post(pollWorker, "start")
  <2>1. x = Mempool!Post(y, "fetch")
    BY <1>2 DEF Mempool!PollingSet
  <2>2. WorkerType(y) /\ Told(y.timer, y.queue, "start" = "start")
    BY PostOK DEF PollInv, PollEvents
  <2> HIDE DEF y
  <2>3. Told(y.timer, y.queue, TRUE)
    BY <2>2 DEF Told
  <2>4. WorkerType(x) /\ Told(x.timer, x.queue, TRUE)
    BY <2>1, <2>2, <2>3, PostOK DEF PollEvents
  <2> QED BY <1>2, <2>4 DEF Told
<1>3. CASE ~(polling = active \/ ~queries) /\ ~active
  <2>1. x = Mempool!Post(pollWorker, "stop")
    BY <1>3 DEF Mempool!PollingSet
  <2>2. WorkerType(x) /\ Told(x.timer, x.queue, "stop" = "start")
    BY <2>1, PostOK DEF PollInv, PollEvents
  <2> QED BY <1>3, <2>2 DEF Told
<1> QED BY <1>1, <1>2, <1>3

LEMMA PollNextInv ==
  ASSUME PollInv, Mempool!PollNext \/ UNCHANGED <<v1, v2, v3, v4, v5, v6, v7>>
  PROVE  PollInv'
<1> USE DEF PollInv
<1>1. CASE \/ Mempool!MempoolChanges \/ Mempool!Timeout \/ Mempool!ApplyMempoolInfo \/ Mempool!RequestShutdown
           \/ UNCHANGED <<v1, v2, v3, v4, v5, v6, v7>>
  <2>1. UNCHANGED <<polling, queries, pollWorker>>
    BY <1>1 DEF Mempool!MempoolChanges, Mempool!Timeout, Mempool!ApplyMempoolInfo, Mempool!RequestShutdown
  <2> QED BY <2>1 DEF Told, WorkerType
<1>2. CASE Mempool!RefreshMempoolInfo
  <2>1. pollWorker' = Mempool!Post(pollWorker, "fetch") /\ UNCHANGED <<polling, queries>>
    BY <1>2 DEF Mempool!RefreshMempoolInfo
  <2>2. (polling /\ queries) \in BOOLEAN /\ "fetch" \in PollEvents
    BY DEF PollEvents
  <2>3. WorkerType(pollWorker') /\ Told(pollWorker'.timer, pollWorker'.queue, polling /\ queries)
    BY <2>1, <2>2, PostOK
  <2> QED BY <2>1, <2>3
<1>3. ASSUME NEW active \in BOOLEAN, Mempool!SetMempoolInfoPollingActive(active)
      PROVE  PollInv'
  <2>1. polling' = active /\ pollWorker' = Mempool!PollingSet(pollWorker, active) /\ queries' = queries
    BY <1>3 DEF Mempool!SetMempoolInfoPollingActive
  <2>2. WorkerType(pollWorker') /\ Told(pollWorker'.timer, pollWorker'.queue, active /\ queries)
    BY <2>1, PollingSetOK
  <2> QED BY <2>1, <2>2
<1>4. CASE Mempool!InitializeResult
  <2> DEFINE x == Mempool!StartIfPolling(pollWorker)
  <2>1. queries' = TRUE /\ pollWorker' = Mempool!Post(x, "fetch") /\ polling' = polling
    BY <1>4 DEF Mempool!InitializeResult
  <2>2. WorkerType(x) /\ Told(x.timer, x.queue, polling)
    <3>1. CASE polling
      <4>1. x = Mempool!Post(pollWorker, "start")
        BY <3>1 DEF Mempool!StartIfPolling
      <4>2. WorkerType(x) /\ Told(x.timer, x.queue, "start" = "start")
        BY <4>1, PostOK DEF PollEvents
      <4> HIDE DEF x
      <4> QED BY <3>1, <4>2 DEF Told
    <3>2. CASE ~polling
      <4>1. x = pollWorker
        BY <3>2 DEF Mempool!StartIfPolling
      <4> HIDE DEF x
      <4> QED BY <3>2, <4>1 DEF Told
    <3> QED BY <3>1, <3>2
  <2> HIDE DEF x
  <2>3. WorkerType(pollWorker') /\ Told(pollWorker'.timer, pollWorker'.queue, polling)
    BY <2>1, <2>2, PostOK DEF PollEvents
  <2> QED BY <2>1, <2>3 DEF Told
<1>5. CASE Mempool!HandleRunawayException
  <2>1. polling' = FALSE /\ queries' = FALSE /\ pollWorker' = Mempool!PollingSet(pollWorker, FALSE)
    BY <1>5 DEF Mempool!HandleRunawayException
  <2>2. WorkerType(pollWorker') /\ Told(pollWorker'.timer, pollWorker'.queue, FALSE /\ queries)
    BY <2>1, PollingSetOK
  <2> QED BY <2>1, <2>2 DEF Told
<1>6. CASE Mempool!BeginShutdown
  <2> DEFINE x == Mempool!PollingSet(pollWorker, FALSE)
  <2>1. polling' = FALSE /\ queries' = queries /\ pollWorker' = Mempool!Post(x, "quit")
    BY <1>6 DEF Mempool!BeginShutdown
  <2>2. WorkerType(x)
    BY PollingSetOK
  <2> HIDE DEF x
  <2>3. WorkerType(pollWorker') /\ Told(pollWorker'.timer, pollWorker'.queue, "quit" = "start")
    BY <2>1, <2>2, PostOK DEF PollEvents
  <2> QED BY <2>1, <2>3 DEF Told
<1>7. CASE Mempool!WorkerEvent
  <2> DEFINE q == pollWorker.queue
             event == Head(q)
  <2>1. /\ q \in Seq(PollEvents) /\ q # << >> /\ UNCHANGED <<polling, queries>>
        /\ \/ event = "start" /\ pollWorker' = [[pollWorker EXCEPT !.queue = Tail(q)] EXCEPT !.timer = TRUE]
           \/ event = "stop" /\ pollWorker' = [[pollWorker EXCEPT !.queue = Tail(q)] EXCEPT !.timer = FALSE]
           \/ event = "fetch" /\ pollWorker' = [pollWorker EXCEPT !.queue = Tail(q)]
           \/ event = "quit" /\ pollWorker' = [[pollWorker EXCEPT !.queue = Tail(q)] EXCEPT !.timer = FALSE, !.alive = FALSE]
    <3>1. event \in PollEvents
      BY <1>7 DEF Mempool!WorkerEvent, WorkerType
    <3>2. CASE event = "start"
      BY <1>7, <3>2 DEF Mempool!WorkerEvent, WorkerType
    <3>3. CASE event = "stop"
      BY <1>7, <3>3 DEF Mempool!WorkerEvent, WorkerType
    <3>4. CASE event = "fetch"
      BY <1>7, <3>4 DEF Mempool!WorkerEvent, WorkerType
    <3>5. CASE event = "quit"
      BY <1>7, <3>5 DEF Mempool!WorkerEvent, WorkerType
    <3> QED BY <3>1, <3>2, <3>3, <3>4, <3>5 DEF PollEvents
  <2>2. /\ Len(q) \in Nat /\ Len(q) >= 1 /\ Len(Tail(q)) = Len(q) - 1 /\ Tail(q) \in Seq(PollEvents) /\ event = q[1]
        /\ \A k \in 1..Len(Tail(q)) : Tail(q)[k] = q[k + 1]
    BY <2>1
  <2>3. /\ WorkerType(pollWorker') /\ pollWorker'.queue = Tail(q)
        /\ event = "fetch" => (pollWorker'.timer <=> pollWorker.timer)
        /\ event # "fetch" => (pollWorker'.timer <=> event = "start")
    <3>1. WorkerType(pollWorker)
      OBVIOUS
    <3> HIDE DEF q, event
    <3>2. CASE event = "start"
      BY <2>1, <2>2, <3>1, <3>2 DEF WorkerType
    <3>3. CASE event = "stop"
      BY <2>1, <2>2, <3>1, <3>3 DEF WorkerType
    <3>4. CASE event = "fetch"
      BY <2>1, <2>2, <3>1, <3>4 DEF WorkerType
    <3>5. CASE event = "quit"
      BY <2>1, <2>2, <3>1, <3>5 DEF WorkerType
    <3> QED BY <2>1, <3>2, <3>3, <3>4, <3>5
  <2>4. \A k \in 1..Len(q) : k > 1 => q[k] = Tail(q)[k - 1] /\ k - 1 \in 1..Len(Tail(q))
    BY <2>2
  <2>5. ASSUME \A k \in 1..Len(Tail(q)) : Tail(q)[k] = "fetch"
        PROVE  pollWorker'.timer <=> polling /\ queries
    <3>1. \A k \in 1..Len(q) : k > 1 => q[k] = "fetch"
      BY <2>2, <2>4, <2>5
    <3>2. CASE event = "fetch"
      <4>1. \A k \in 1..Len(q) : q[k] = "fetch"
        BY <2>2, <3>1, <3>2
      <4> QED BY <2>3, <3>2, <4>1 DEF Told
    <3>3. CASE event # "fetch"
      <4>1. 1 \in 1..Len(q) /\ q[1] # "fetch"
        BY <2>2, <3>3
      <4>2. event = "start" <=> polling /\ queries
        BY <2>2, <3>1, <4>1 DEF Told
      <4> QED BY <2>3, <3>3, <4>2
    <3> QED BY <3>2, <3>3
  <2>6. ASSUME NEW k \in 1..Len(Tail(q)), Tail(q)[k] # "fetch",
               \A j \in 1..Len(Tail(q)) : j > k => Tail(q)[j] = "fetch"
        PROVE  Tail(q)[k] = "start" <=> polling /\ queries
    <3>1. k + 1 \in 1..Len(q) /\ q[k + 1] = Tail(q)[k]
      BY <2>2
    <3>2. \A j \in 1..Len(q) : j > k + 1 => q[j] = "fetch"
      BY <2>2, <2>4, <2>6
    <3> QED BY <2>6, <3>1, <3>2 DEF Told
  <2> QED BY <2>1, <2>3, <2>5, <2>6 DEF Told
<1> QED BY <1>1, <1>2, <1>3, <1>4, <1>5, <1>6, <1>7 DEF Mempool!PollNext

LEMMA PollStepInv ==
  ASSUME part = "mempool" => PollInv, [Next]_vars, part' = "mempool"
  PROVE  PollInv'
<1>1. part = "mempool" /\ (Mempool!PollNext \/ UNCHANGED <<v1, v2, v3, v4, v5, v6, v7>>)
  BY DEF Next, vars, SyncStep, MempoolStep, LogStep, ParserStep, ConsoleStep, SettingsStep, ClockStep,
    TrafficStep, PeersStep, DialStep, SegmentsStep
<1> QED BY <1>1, PollNextInv

\* Whether polling is asked for before the node is ready, while it faults or
\* shuts down: the events queued to the worker (setMempoolInfoPollingActive,
\* initializeResult, handleRunawayException, beginShutdown) leave its timer
\* running exactly while polling is wanted and the backend answers.
THEOREM PollingIsFollowed == Spec => []TimerFollowsPolling
<1> DEFINE Inv == part = "mempool" => PollInv
<1>1. Init => Inv
  <2> SUFFICES ASSUME Mempool!Init PROVE PollInv
    BY DEF Init
  <2>1. polling = FALSE /\ queries = FALSE /\ pollWorker = [alive |-> TRUE, timer |-> FALSE, queue |-> << >>]
    BY DEF Mempool!Init
  <2>2. ~pollWorker.timer /\ pollWorker.queue = << >> /\ pollWorker.alive
    BY <2>1
  <2>3. << >> \in Seq(PollEvents) /\ Len(<< >>) = 0
    OBVIOUS
  <2>4. WorkerType(pollWorker)
    BY <2>1, <2>3 DEF WorkerType
  <2>5. Told(pollWorker.timer, pollWorker.queue, polling /\ queries)
    BY <2>1, <2>2, <2>3 DEF Told
  <2> QED BY <2>1, <2>4, <2>5 DEF PollInv
<1>2. Inv /\ [Next]_vars => Inv'
  BY PollStepInv
<1>3. Inv => TimerFollowsPolling
  BY DEF PollInv, Told, TimerFollowsPolling, Mempool!TimerFollowsPolling
<1> QED BY <1>1, <1>2, <1>3, PTL DEF Spec

HIDE DEF polling, queries, pollWorker

(***************************************************************************)
(* BlockClock: the blocks known while notifications are on their way       *)
(***************************************************************************)
blockChain == v1
notices == v2
cache == v3
loader == v4
clockDial == v5
USE DEF blockChain, notices, cache, loader, clockDial

Notice == [block : Blocks, connected : BOOLEAN]
ClockType ==
  /\ blockChain \in [tip : Blocks, disconnects : Nat]
  /\ notices \in Seq(Notice)
  /\ cache \in [blocks : SUBSET Blocks, pending : {cache.pending}, retention : Int, initialized : BOOLEAN, dirty : BOOLEAN,
                stopped : BOOLEAN, attached : BOOLEAN]
  /\ DOMAIN cache.pending \subseteq Blocks /\ \A b \in DOMAIN cache.pending : cache.pending[b] \in BOOLEAN
  /\ loader \in [pc : {"idle", "registered", "loading", "subscribed", "stopped"}, from : Int, anchor : Blocks]
  /\ clockDial \in [now : Int, period : Int, cached : SUBSET Blocks, shown : SUBSET Blocks, posted : BOOLEAN,
                    stopped : BOOLEAN, floor : Int]

\* Where the loader is, and from which time on blocks are kept.
StageInv ==
  /\ cache.stopped <=> loader.pc = "stopped"
  /\ ~cache.stopped => (cache.initialized <=> loader.pc = "subscribed")
  /\ loader.pc = "idle" => DOMAIN cache.pending = {}
  /\ ~cache.stopped /\ ~clockDial.stopped => cache.attached
  /\ clockDial.period = Clock!PeriodStartFor(clockDial.now)
  /\ cache.retention <= clockDial.floor /\ clockDial.floor <= clockDial.period
  /\ loader.pc \in {"registered", "loading"} => loader.from <= clockDial.floor

\* The last notification about a block that is on its way, or the last one kept,
\* says whether the block is active.
Announced(b) == \E i \in 1..Len(notices) : notices[i].block = b
NoticesInv ==
  \A i \in 1..Len(notices) :
    (\A j \in 1..Len(notices) : j > i => notices[j].block # notices[i].block) =>
      (notices[i].connected <=> notices[i].block \in Clock!Active)
PendingInv ==
  ~cache.initialized /\ ~cache.stopped =>
    \A b \in DOMAIN cache.pending :
      b.time >= clockDial.floor /\ ~Announced(b) => (cache.pending[b] <=> b \in Clock!Active)

\* Of the other blocks the cache, or the chain that is read, knows.
KnownInv ==
  \A b \in Blocks : b.time >= clockDial.floor /\ ~Announced(b) /\ ~cache.stopped =>
    /\ cache.initialized => (b \in cache.blocks <=> b \in Clock!Active)
    /\ loader.pc = "loading" /\ b \notin DOMAIN cache.pending =>
         (b \in Clock!Ancestors(loader.anchor) <=> b \in Clock!Active)

\* What the dial shows is what it last took from the cache, and a change is
\* announced to it.
TakenInv ==
  ~clockDial.stopped =>
    /\ clockDial.shown = Clock!Visible(clockDial.cached, clockDial.period)
    /\ cache.initialized /\ ~cache.stopped =>
         /\ ~cache.dirty => clockDial.cached = cache.blocks
         /\ cache.dirty => clockDial.posted

ClockInv == ClockType /\ StageInv /\ NoticesInv /\ PendingInv /\ KnownInv /\ TakenInv

LEMMA AncestorsOK ==
  ASSUME NEW b \in Blocks
  PROVE  /\ Clock!Ancestors(b) \subseteq Blocks /\ b \in Clock!Ancestors(b)
         /\ Clock!HoldsParents(Clock!Ancestors(b))
         /\ \A S \in SUBSET Blocks : b \in S /\ Clock!HoldsParents(S) => Clock!Ancestors(b) \subseteq S
  BY DEF Clock!Ancestors, Clock!HoldsParents

\* A child has one more ancestor than its parent: itself.
LEMMA ParentsAncestors ==
  ASSUME NEW b \in Blocks, NEW p \in Blocks, p.id = b.parent
  PROVE  Clock!Ancestors(b) = Clock!Ancestors(p) \cup {b} /\ b \notin Clock!Ancestors(p)
<1>1. Clock!Ancestors(p) \subseteq Clock!Ancestors(b)
  <2>1. p \in Clock!Ancestors(b)
    BY AncestorsOK DEF Clock!HoldsParents
  <2> QED BY <2>1, AncestorsOK
<1>2. Clock!Ancestors(b) \subseteq Clock!Ancestors(p) \cup {b}
  <2>1. Clock!HoldsParents(Clock!Ancestors(p) \cup {b})
    BY AncestorsOK, BlocksAssumption DEF Clock!HoldsParents
  <2> QED BY <2>1, AncestorsOK
<1>3. b \notin Clock!Ancestors(p)
  <2> DEFINE older == {a \in Blocks : a.id <= p.id}
  <2>1. Clock!HoldsParents(older) /\ p \in older /\ b \notin older
    BY BlocksAssumption DEF Clock!HoldsParents
  <2> QED BY <2>1, AncestorsOK
<1> QED BY <1>1, <1>2, <1>3, AncestorsOK

LEMMA GenesisOK == Clock!Genesis \in Blocks /\ Clock!Genesis.parent = 0
  BY BlocksAssumption DEF Clock!Genesis

\* A block that is connected or disconnected is announced.
LEMMA NodeStepOK ==
  ASSUME ClockInv, NEW b \in Blocks, NEW connected \in BOOLEAN,
         notices' = Append(notices, [block |-> b, connected |-> connected]), UNCHANGED <<cache, loader, clockDial>>,
         blockChain' \in [tip : Blocks, disconnects : Nat],
         \A x \in Blocks : x # b => (x \in Clock!Active' <=> x \in Clock!Active), b \in Clock!Active' <=> connected
  PROVE  ClockInv'
<1> USE DEF ClockInv
<1> DEFINE notice == [block |-> b, connected |-> connected]
<1>1. notice \in Notice /\ notice.block = b /\ notice.connected = connected
  BY DEF Notice
<1>2. notices \in Seq(Notice) /\ Len(notices) \in Nat /\ \A i \in 1..Len(notices) : notices[i] \in Notice
  BY DEF ClockType
<1>3. /\ notices' \in Seq(Notice) /\ Len(notices') = Len(notices) + 1
      /\ \A i \in 1..Len(notices) : notices'[i] = notices[i]
      /\ notices'[Len(notices) + 1] = notice
  <2> HIDE DEF notice
  <2> QED BY <1>1, <1>2, AppendProperties DEF notice
<1> HIDE DEF notice, notices
<1>4. ClockType' /\ StageInv'
  BY <1>3 DEF ClockType, StageInv, Clock!PeriodStartFor, notices
<1>5. \A i \in 1..Len(notices') : i = Len(notices) + 1 \/ i \in 1..Len(notices)
  BY <1>2, <1>3
<1>6. \A x \in Blocks : ~Announced(x)' => ~Announced(x) /\ x # b
  <2>1. Len(notices) + 1 \in 1..Len(notices') /\ \A i \in 1..Len(notices) : i \in 1..Len(notices')
    BY <1>2, <1>3
  <2> QED BY <1>1, <1>3, <2>1 DEF Announced
<1>7. NoticesInv'
  <2> SUFFICES ASSUME NEW i \in 1..Len(notices'),
                      \A j \in 1..Len(notices') : j > i => notices'[j].block # notices'[i].block
               PROVE  notices'[i].connected <=> notices'[i].block \in Clock!Active'
    BY DEF NoticesInv
  <2>1. CASE i = Len(notices) + 1
    BY <1>1, <1>3, <2>1
  <2>2. CASE i \in 1..Len(notices)
    <3>1. /\ \A j \in 1..Len(notices) : j \in 1..Len(notices') /\ notices'[j] = notices[j]
          /\ Len(notices) + 1 \in 1..Len(notices') /\ Len(notices) + 1 > i
      BY <1>2, <1>3, <2>2
    <3>2. notices[i].block # b /\ notices[i].block \in Blocks /\ notices'[i] = notices[i]
      BY <1>1, <1>2, <1>3, <2>2, <3>1 DEF Notice
    <3>3. notices[i].connected <=> notices[i].block \in Clock!Active
      BY <2>2, <3>1 DEF NoticesInv
    <3> QED BY <3>2, <3>3
  <2> QED BY <1>5, <2>1, <2>2
<1>8. PendingInv'
  <2>1. \A x \in DOMAIN cache.pending : x \in Blocks
    BY DEF ClockType
  <2> QED BY <1>6, <2>1 DEF PendingInv
<1>9. KnownInv'
  BY <1>6 DEF KnownInv
<1>10. TakenInv'
  BY DEF TakenInv, Clock!Visible
<1> QED BY <1>4, <1>7, <1>8, <1>9, <1>10

LEMMA NodeInv ==
  ASSUME ClockInv, (\E b \in Blocks : Clock!ConnectBlock(b)) \/ Clock!DisconnectTip
  PROVE  ClockInv'
<1>1. blockChain \in [tip : Blocks, disconnects : Nat] /\ blockChain.tip \in Blocks /\ blockChain.disconnects \in Nat
  BY DEF ClockInv, ClockType
<1>2. ASSUME NEW b \in Blocks, Clock!ConnectBlock(b) PROVE ClockInv'
  <2>1. /\ b.parent = blockChain.tip.id /\ blockChain' = [blockChain EXCEPT !.tip = b]
        /\ notices' = Append(notices, [block |-> b, connected |-> TRUE]) /\ UNCHANGED <<cache, loader, clockDial>>
    BY <1>2 DEF Clock!ConnectBlock
  <2>2. blockChain' \in [tip : Blocks, disconnects : Nat] /\ blockChain'.tip = b
    BY <1>1, <2>1
  <2>3. Clock!Active' = Clock!Active \cup {b}
    BY <1>1, <2>1, <2>2, ParentsAncestors DEF Clock!Active
  <2> QED BY <2>1, <2>2, <2>3, NodeStepOK
<1>3. CASE Clock!DisconnectTip
  <2> DEFINE tip == blockChain.tip
             below == CHOOSE p \in Blocks : p.id = tip.parent
  <2>1. /\ tip # Clock!Genesis /\ blockChain' = [tip |-> below, disconnects |-> blockChain.disconnects + 1]
        /\ notices' = Append(notices, [block |-> tip, connected |-> FALSE]) /\ UNCHANGED <<cache, loader, clockDial>>
    BY <1>3 DEF Clock!DisconnectTip
  <2>2. below \in Blocks /\ below.id = tip.parent
    BY <1>1, <2>1, GenesisOK, BlocksAssumption
  <2> HIDE DEF below
  <2>3. blockChain' \in [tip : Blocks, disconnects : Nat] /\ blockChain'.tip = below
    BY <1>1, <2>1, <2>2
  <2>4. Clock!Active = Clock!Active' \cup {tip} /\ tip \notin Clock!Active'
    BY <1>1, <2>2, <2>3, ParentsAncestors DEF Clock!Active
  <2> QED BY <1>1, <2>1, <2>3, <2>4, NodeStepOK
<1> QED BY <1>2, <1>3

\* The first notification leaves the queue.
LEMMA TailOK ==
  ASSUME ClockInv, notices # << >>, notices' = Tail(notices), blockChain' = blockChain
  PROVE  /\ notices' \in Seq(Notice) /\ Head(notices) \in Notice /\ NoticesInv'
         /\ \A b \in Blocks : Announced(b) <=> b = Head(notices).block \/ Announced(b)'
         /\ \A b \in Blocks : b = Head(notices).block /\ ~Announced(b)' => (Head(notices).connected <=> b \in Clock!Active)
<1> USE DEF ClockInv
<1>1. notices \in Seq(Notice)
  BY DEF ClockType
<1> HIDE DEF notices
<1>2. /\ notices' \in Seq(Notice) /\ Head(notices) \in Notice /\ Head(notices) = notices[1]
      /\ Len(notices) \in Nat /\ Len(notices) >= 1 /\ Len(notices') = Len(notices) - 1
      /\ \A i \in 1..Len(notices') : notices'[i] = notices[i + 1]
  <2>1. \A s \in Seq(Notice) : s # << >> => Len(s) \in Nat \ {0}
    BY EmptySeq
  <2> QED BY <1>1, <2>1, HeadTailProperties
<1>3. /\ \A i \in 1..Len(notices') : i + 1 \in 1..Len(notices) /\ notices'[i] = notices[i + 1]
      /\ \A i \in 1..Len(notices) : i = 1 \/ (i - 1 \in 1..Len(notices') /\ notices'[i - 1] = notices[i])
      /\ 1 \in 1..Len(notices)
  BY <1>2
<1>4. \A b \in Blocks : Announced(b) <=> b = Head(notices).block \/ Announced(b)'
  BY <1>2, <1>3 DEF Announced
<1>5. Clock!Active' = Clock!Active
  BY DEF Clock!Active
<1>6. NoticesInv'
  <2> SUFFICES ASSUME NEW i \in 1..Len(notices'),
                      \A j \in 1..Len(notices') : j > i => notices'[j].block # notices'[i].block
               PROVE  notices'[i].connected <=> notices'[i].block \in Clock!Active
    BY <1>5 DEF NoticesInv
  <2>1. i + 1 \in 1..Len(notices) /\ notices'[i] = notices[i + 1]
    BY <1>3
  <2>2. ASSUME NEW j \in 1..Len(notices), j > i + 1
        PROVE  notices[j].block # notices[i + 1].block
    <3>1. j - 1 \in 1..Len(notices') /\ notices'[j - 1] = notices[j] /\ j - 1 > i
      BY <1>2, <1>3, <2>2
    <3> QED BY <2>1, <3>1
  <2> QED BY <2>1, <2>2 DEF NoticesInv
<1>7. ASSUME NEW b \in Blocks, b = Head(notices).block, ~Announced(b)'
      PROVE  Head(notices).connected <=> b \in Clock!Active
  <2>1. \A j \in 1..Len(notices) : j > 1 => notices[j].block # notices[1].block
    <3>1. b = notices[1].block /\ \A i \in 1..Len(notices') : notices'[i].block # b
      BY <1>2, <1>7 DEF Announced
    <3>2. \A j \in 1..Len(notices) : j > 1 => j - 1 \in 1..Len(notices') /\ notices'[j - 1] = notices[j]
      BY <1>2, <1>3
    <3> QED BY <3>1, <3>2
  <2>2. notices[1].connected <=> notices[1].block \in Clock!Active
    BY <1>3, <2>1 DEF NoticesInv
  <2> QED BY <1>2, <1>7, <2>2
<1> QED BY <1>2, <1>4, <1>6, <1>7

\* A notification is dropped before registration and below the retention, kept
\* until the snapshot is there, and then changes the blocks (record).
LEMMA NotifyInv ==
  ASSUME ClockInv, Clock!Notify
  PROVE  ClockInv'
<1> USE DEF ClockInv
<1> DEFINE n == Head(notices)
<1>1. /\ notices # << >> /\ notices' = Tail(notices) /\ UNCHANGED <<blockChain, loader>>
      /\ cache' = IF loader.pc = "idle" THEN cache ELSE Clock!Record(cache, n)
      /\ clockDial' = IF cache'.initialized /\ cache'.blocks # cache.blocks THEN Clock!Wake(cache') ELSE clockDial
  BY DEF Clock!Notify
<1>2. /\ notices' \in Seq(Notice) /\ n \in Notice /\ NoticesInv'
      /\ \A b \in Blocks : Announced(b) <=> b = n.block \/ Announced(b)'
      /\ \A b \in Blocks : b = n.block /\ ~Announced(b)' => (n.connected <=> b \in Clock!Active)
  BY <1>1, TailOK
<1>3. n.block \in Blocks /\ n.connected \in BOOLEAN
  BY <1>2 DEF Notice
<1>4. Clock!Active' = Clock!Active /\ loader' = loader /\ blockChain' = blockChain
  BY <1>1 DEF Clock!Active
<1> HIDE DEF n, notices
<1>5. \A b \in Blocks : b.time \in Int
  BY BlocksAssumption
<1>6. cache.retention \in Int /\ clockDial.floor \in Int /\ cache.retention <= clockDial.floor
  BY DEF ClockType, StageInv
\* What every case leaves alone.
<1>7. ASSUME cache'.retention = cache.retention, cache'.initialized = cache.initialized, cache'.stopped = cache.stopped,
             cache'.attached = cache.attached, cache' \in [blocks : SUBSET Blocks, pending : {cache'.pending}, retention : Int,
               initialized : BOOLEAN, dirty : BOOLEAN, stopped : BOOLEAN, attached : BOOLEAN],
             DOMAIN cache'.pending \subseteq Blocks, \A b \in DOMAIN cache'.pending : cache'.pending[b] \in BOOLEAN,
             loader.pc = "idle" => DOMAIN cache'.pending = {},
             ~cache.initialized => cache'.blocks = cache.blocks,
             cache'.blocks # cache.blocks => cache'.dirty, cache'.blocks = cache.blocks => cache'.dirty = cache.dirty,
             PendingInv', KnownInv'
      PROVE  ClockInv'
  <2>1. /\ clockDial' = clockDial \/ (cache.attached /\ clockDial' = [clockDial EXCEPT !.posted = TRUE])
        /\ cache.initialized /\ cache.attached /\ cache'.blocks # cache.blocks => clockDial' = [clockDial EXCEPT !.posted = TRUE]
    BY <1>1, <1>7 DEF Clock!Wake
  <2>2. /\ clockDial' \in [now : Int, period : Int, cached : SUBSET Blocks, shown : SUBSET Blocks, posted : BOOLEAN,
                           stopped : BOOLEAN, floor : Int]
        /\ clockDial'.now = clockDial.now /\ clockDial'.period = clockDial.period /\ clockDial'.cached = clockDial.cached
        /\ clockDial'.shown = clockDial.shown /\ clockDial'.stopped = clockDial.stopped /\ clockDial'.floor = clockDial.floor
        /\ clockDial.posted => clockDial'.posted
        /\ cache.initialized /\ cache.attached /\ cache'.blocks # cache.blocks => clockDial'.posted
    <3> HIDE DEF cache
    <3> QED BY <2>1 DEF ClockType
  <2> HIDE DEF cache, clockDial, loader, blockChain
  <2>3. ClockType'
    BY <1>2, <1>4, <1>7, <2>2 DEF ClockType
  <2>4. StageInv'
    BY <1>4, <1>7, <2>2 DEF StageInv, Clock!PeriodStartFor
  <2>5. TakenInv'
    <3> SUFFICES ASSUME ~clockDial.stopped
                 PROVE  /\ clockDial'.shown = Clock!Visible(clockDial'.cached, clockDial'.period)
                        /\ cache.initialized /\ ~cache.stopped =>
                             /\ ~cache'.dirty => clockDial'.cached = cache'.blocks
                             /\ cache'.dirty => clockDial'.posted
      BY <1>7, <2>2 DEF TakenInv
    <3>1. clockDial'.shown = Clock!Visible(clockDial'.cached, clockDial'.period)
      BY <2>2 DEF TakenInv
    <3>2. ~cache.stopped => cache.attached
      BY DEF StageInv
    <3>3. CASE cache'.blocks = cache.blocks
      BY <1>7, <2>2, <3>1, <3>3 DEF TakenInv
    <3>4. CASE cache'.blocks # cache.blocks
      BY <1>7, <2>2, <3>1, <3>2, <3>4 DEF TakenInv
    <3> QED BY <3>3, <3>4
  <2> QED BY <1>2, <1>7, <2>3, <2>4, <2>5
<1>8. ASSUME cache' = cache, loader.pc = "idle" \/ cache.stopped \/ n.block.time < cache.retention
      PROVE  ClockInv'
  <2>1. clockDial' = clockDial
    BY <1>1, <1>8
  <2>2. ASSUME NEW b \in Blocks, b.time >= clockDial.floor, ~Announced(b)', loader.pc # "idle", ~cache.stopped
        PROVE  ~Announced(b)
    BY <1>2, <1>3, <1>5, <1>6, <1>8, <2>2
  <2>3. PendingInv'
    BY <1>4, <1>8, <2>1, <2>2 DEF PendingInv, StageInv, ClockType
  <2>4. KnownInv'
    BY <1>4, <1>8, <2>1, <2>2 DEF KnownInv, StageInv
  <2> QED BY <1>7, <1>8, <2>3, <2>4 DEF ClockType, StageInv
<1>9. CASE loader.pc # "idle" /\ ~cache.stopped /\ n.block.time >= cache.retention /\ ~cache.initialized
  <2> DEFINE kept == Clock!AssignEvent(cache.pending, n)
  <2>1. cache' = [cache EXCEPT !.pending = kept]
    BY <1>1, <1>9 DEF Clock!Record
  <2>2. /\ DOMAIN kept = DOMAIN cache.pending \cup {n.block}
        /\ \A b \in DOMAIN kept : kept[b] = IF b = n.block THEN n.connected ELSE cache.pending[b]
    BY DEF Clock!AssignEvent
  <2> HIDE DEF kept
  <2>3. /\ cache'.retention = cache.retention /\ cache'.initialized = cache.initialized /\ cache'.stopped = cache.stopped
        /\ cache'.attached = cache.attached /\ cache'.blocks = cache.blocks /\ cache'.dirty = cache.dirty /\ cache'.pending = kept
        /\ cache' \in [blocks : SUBSET Blocks, pending : {cache'.pending}, retention : Int,
               initialized : BOOLEAN, dirty : BOOLEAN, stopped : BOOLEAN, attached : BOOLEAN]
    BY <2>1 DEF ClockType
  <2>4. clockDial' = clockDial
    BY <1>1, <2>3
  <2> HIDE DEF cache
  <2>5. DOMAIN kept \subseteq Blocks /\ \A b \in DOMAIN kept : kept[b] \in BOOLEAN
    BY <1>3, <2>2 DEF ClockType
  <2>6. PendingInv'
    <3> SUFFICES ASSUME NEW b \in DOMAIN kept, b.time >= clockDial.floor, ~Announced(b)'
                 PROVE  kept[b] <=> b \in Clock!Active
      BY <1>4, <2>3, <2>4 DEF PendingInv
    <3>1. CASE b = n.block
      BY <1>2, <1>3, <2>2, <3>1
    <3>2. CASE b # n.block
      <4>1. b \in DOMAIN cache.pending /\ b \in Blocks /\ kept[b] = cache.pending[b]
        BY <2>2, <2>5, <3>2
      <4>2. ~Announced(b)
        BY <1>2, <3>2, <4>1
      <4> QED BY <1>9, <4>1, <4>2 DEF PendingInv
    <3> QED BY <3>1, <3>2
  <2>7. KnownInv'
    <3> SUFFICES ASSUME NEW b \in Blocks, b.time >= clockDial.floor, ~Announced(b)', loader.pc = "loading", b \notin DOMAIN kept
                 PROVE  b \in Clock!Ancestors(loader.anchor) <=> b \in Clock!Active
      BY <1>4, <1>9, <2>3, <2>4 DEF KnownInv
    <3>1. b \notin DOMAIN cache.pending /\ ~Announced(b)
      BY <1>2, <2>2
    <3> QED BY <1>9, <3>1 DEF KnownInv
  <2> QED BY <1>7, <1>9, <2>3, <2>5, <2>6, <2>7
<1>10. CASE loader.pc # "idle" /\ ~cache.stopped /\ n.block.time >= cache.retention /\ cache.initialized
  <2> DEFINE known == IF n.connected THEN cache.blocks \cup {n.block} ELSE cache.blocks \ {n.block}
             fresh == cache.dirty \/ known # cache.blocks
  <2>1. cache' = [cache EXCEPT !.blocks = known, !.dirty = fresh]
    BY <1>1, <1>3, <1>5, <1>6, <1>10 DEF Clock!Record
  <2>2. known \subseteq Blocks /\ \A b \in Blocks : b \in known <=> IF b = n.block THEN n.connected ELSE b \in cache.blocks
    BY <1>3 DEF ClockType
  <2>3. fresh \in BOOLEAN /\ (known # cache.blocks => fresh) /\ (known = cache.blocks => fresh = cache.dirty)
    BY DEF ClockType
  <2> HIDE DEF known, fresh
  <2>4. cache' = [blocks |-> known, pending |-> cache.pending, retention |-> cache.retention, initialized |-> cache.initialized,
                  dirty |-> fresh, stopped |-> cache.stopped, attached |-> cache.attached]
    BY <2>1 DEF ClockType
  <2>5. /\ cache'.retention = cache.retention /\ cache'.initialized = cache.initialized /\ cache'.stopped = cache.stopped
        /\ cache'.attached = cache.attached /\ cache'.blocks = known /\ cache'.dirty = fresh /\ cache'.pending = cache.pending
        /\ cache' \in [blocks : SUBSET Blocks, pending : {cache'.pending}, retention : Int,
               initialized : BOOLEAN, dirty : BOOLEAN, stopped : BOOLEAN, attached : BOOLEAN]
    BY <2>2, <2>3, <2>4 DEF ClockType
  <2>6. clockDial'.floor = clockDial.floor
    BY <1>1 DEF Clock!Wake, ClockType
  <2> HIDE DEF cache, clockDial
  <2>7. PendingInv'
    BY <1>10, <2>5 DEF PendingInv
  <2>8. KnownInv'
    <3>1. loader.pc # "loading"
      BY <1>10 DEF StageInv
    <3> SUFFICES ASSUME NEW b \in Blocks, b.time >= clockDial.floor, ~Announced(b)'
                 PROVE  b \in known <=> b \in Clock!Active
      BY <1>4, <2>5, <2>6, <3>1 DEF KnownInv
    <3>2. CASE b = n.block
      BY <1>2, <1>3, <2>2, <3>2
    <3>3. CASE b # n.block
      BY <1>2, <1>10, <2>2, <3>3 DEF KnownInv
    <3> QED BY <3>2, <3>3
  <2> QED BY <1>7, <1>10, <2>3, <2>5, <2>7, <2>8 DEF ClockType
<1> QED
  <2>1. CASE loader.pc = "idle"
    BY <1>1, <1>8, <2>1
  <2>2. CASE loader.pc # "idle" /\ (cache.stopped \/ n.block.time < cache.retention)
    <3>1. n.block.time < cache.retention => ~(n.block.time >= cache.retention)
      BY <1>3, <1>5, <1>6
    <3>2. Clock!Record(cache, n) = cache
      BY <2>2, <3>1 DEF Clock!Record
    <3> QED BY <1>1, <1>8, <2>2, <3>2
  <2>3. n.block.time < cache.retention \/ n.block.time >= cache.retention
    BY <1>3, <1>5, <1>6
  <2> QED BY <1>9, <1>10, <2>1, <2>2, <2>3

\* A notification handler is registered, and then the tip is read.
LEMMA LoaderInv ==
  ASSUME ClockInv, Clock!Register \/ Clock!ReadBestBlock
  PROVE  ClockInv'
<1> USE DEF ClockInv
<1>1. /\ cache.retention \in Int /\ blockChain.tip \in Blocks /\ UNCHANGED <<blockChain, notices, cache, clockDial>>
      /\ loader \in [pc : {"idle", "registered", "loading", "subscribed", "stopped"}, from : Int, anchor : Blocks]
  BY DEF ClockType, Clock!Register, Clock!ReadBestBlock
<1>2. \/ loader.pc = "idle" /\ ~cache.stopped /\ loader' = [loader EXCEPT !.pc = "registered", !.from = cache.retention]
      \/ loader.pc = "registered" /\ loader' = [loader EXCEPT !.pc = "loading", !.anchor = blockChain.tip]
  BY DEF Clock!Register, Clock!ReadBestBlock
<1>3. /\ loader' \in [pc : {"idle", "registered", "loading", "subscribed", "stopped"}, from : Int, anchor : Blocks]
      /\ \/ loader.pc = "idle" /\ ~cache.stopped /\ loader'.pc = "registered" /\ loader'.from = cache.retention
         \/ loader.pc = "registered" /\ loader'.pc = "loading" /\ loader'.anchor = blockChain.tip /\ loader'.from = loader.from
  BY <1>1, <1>2
<1>4. Clock!Active' = Clock!Active
  BY <1>1 DEF Clock!Active
<1>5. ClockType' /\ NoticesInv'
  BY <1>1, <1>3, <1>4 DEF ClockType, NoticesInv
<1>6. StageInv'
  BY <1>1, <1>3 DEF StageInv, Clock!PeriodStartFor
<1>7. PendingInv'
  BY <1>1, <1>4 DEF PendingInv, Announced
<1>8. KnownInv'
  <2>1. loader'.pc = "loading" => Clock!Ancestors(loader'.anchor) = Clock!Active
    BY <1>3 DEF Clock!Active
  <2> QED BY <1>1, <1>3, <1>4, <2>1 DEF KnownInv, Announced
<1>9. TakenInv'
  BY <1>1 DEF TakenInv, Clock!Visible
<1> QED BY <1>5, <1>6, <1>7, <1>8, <1>9

\* The blocks read and the notifications kept meanwhile are the active chain, as
\* far as nothing else is announced (initialize).
LEMMA InstallInv ==
  ASSUME ClockInv, Clock!Install
  PROVE  ClockInv'
<1> USE DEF ClockInv
<1> DEFINE loaded == Clock!Retained(Clock!Ancestors(loader.anchor), loader.from)
           known == Clock!Retained(Clock!Reconciled(loaded, cache.pending), cache.retention)
<1>1. /\ loader.pc = "loading" /\ loader' = [loader EXCEPT !.pc = "subscribed"] /\ UNCHANGED <<blockChain, notices>>
      /\ ~cache.stopped /\ ~cache.initialized
      /\ loader \in [pc : {"idle", "registered", "loading", "subscribed", "stopped"}, from : Int, anchor : Blocks]
  BY DEF ClockType, StageInv, Clock!Install
<1>2. /\ cache' = [cache EXCEPT !.blocks = known, !.pending = Clock!NoEvents, !.initialized = TRUE, !.dirty = TRUE]
      /\ clockDial' = Clock!Wake(cache)
  BY <1>1 DEF Clock!Install
<1>3. /\ loader' \in [pc : {"idle", "registered", "loading", "subscribed", "stopped"}, from : Int, anchor : Blocks]
      /\ loader'.pc = "subscribed"
  BY <1>1
<1>4. /\ known \subseteq Blocks
      /\ \A b \in Blocks : b.time >= cache.retention /\ b.time >= loader.from =>
           (b \in known <=> IF b \in DOMAIN cache.pending THEN cache.pending[b] ELSE b \in Clock!Ancestors(loader.anchor))
  BY DEF Clock!Retained, Clock!Reconciled
<1> HIDE DEF known
<1>5. cache' = [blocks |-> known, pending |-> Clock!NoEvents, retention |-> cache.retention, initialized |-> TRUE,
                dirty |-> TRUE, stopped |-> cache.stopped, attached |-> cache.attached]
  BY <1>2 DEF ClockType
<1>6. /\ cache'.blocks = known /\ cache'.pending = Clock!NoEvents /\ cache'.retention = cache.retention /\ cache'.initialized
      /\ cache'.dirty /\ cache'.stopped = cache.stopped /\ cache'.attached = cache.attached
      /\ cache' \in [blocks : SUBSET Blocks, pending : {cache'.pending}, retention : Int,
               initialized : BOOLEAN, dirty : BOOLEAN, stopped : BOOLEAN, attached : BOOLEAN]
  BY <1>4, <1>5 DEF ClockType
<1>7. DOMAIN Clock!NoEvents = {}
  BY DEF Clock!NoEvents
<1>8. /\ clockDial' \in [now : Int, period : Int, cached : SUBSET Blocks, shown : SUBSET Blocks, posted : BOOLEAN,
                         stopped : BOOLEAN, floor : Int]
      /\ clockDial'.now = clockDial.now /\ clockDial'.period = clockDial.period /\ clockDial'.cached = clockDial.cached
      /\ clockDial'.shown = clockDial.shown /\ clockDial'.stopped = clockDial.stopped /\ clockDial'.floor = clockDial.floor
      /\ cache.attached => clockDial'.posted
  <2>1. (clockDial' = clockDial /\ ~cache.attached) \/ clockDial' = [clockDial EXCEPT !.posted = TRUE]
    BY <1>2 DEF Clock!Wake
  <2> HIDE DEF cache
  <2> QED BY <2>1 DEF ClockType
<1>9. Clock!Active' = Clock!Active
  BY <1>1 DEF Clock!Active
<1>10. /\ cache.retention \in Int /\ clockDial.floor \in Int /\ loader.from \in Int /\ cache.retention <= clockDial.floor
       /\ loader.from <= clockDial.floor /\ \A b \in Blocks : b.time \in Int
  BY <1>1, BlocksAssumption DEF ClockType, StageInv
<1> HIDE DEF cache, clockDial, loader, blockChain, notices
<1>11. ClockType' /\ NoticesInv'
  BY <1>1, <1>3, <1>6, <1>7, <1>8, <1>9 DEF ClockType, NoticesInv
<1>12. StageInv'
  BY <1>1, <1>3, <1>6, <1>8 DEF StageInv, Clock!PeriodStartFor
<1>13. PendingInv'
  BY <1>6 DEF PendingInv
<1>14. KnownInv'
  <2> SUFFICES ASSUME NEW b \in Blocks, b.time >= clockDial.floor, ~Announced(b)
               PROVE  b \in known <=> b \in Clock!Active
    BY <1>1, <1>3, <1>6, <1>8, <1>9 DEF KnownInv, Announced
  <2>1. b \in known <=> IF b \in DOMAIN cache.pending THEN cache.pending[b] ELSE b \in Clock!Ancestors(loader.anchor)
    BY <1>4, <1>10
  <2>2. CASE b \in DOMAIN cache.pending
    BY <1>1, <2>1, <2>2 DEF PendingInv
  <2>3. CASE b \notin DOMAIN cache.pending
    BY <1>1, <2>1, <2>3 DEF KnownInv
  <2> QED BY <2>2, <2>3
<1>15. TakenInv'
  <2>1. ~clockDial.stopped => cache.attached
    BY <1>1 DEF StageInv
  <2>2. ~clockDial.stopped => clockDial.shown = Clock!Visible(clockDial.cached, clockDial.period)
    BY DEF TakenInv
  <2>3. ~clockDial.stopped => clockDial'.shown = Clock!Visible(clockDial'.cached, clockDial'.period)
    BY <1>8, <2>2
  <2> QED BY <1>6, <1>8, <2>1, <2>3 DEF TakenInv
<1> QED BY <1>11, <1>12, <1>13, <1>14, <1>15

LEMMA UnsubscribeInv ==
  ASSUME ClockInv, Clock!Unsubscribe
  PROVE  ClockInv'
<1> USE DEF ClockInv
<1>1. /\ loader' = [loader EXCEPT !.pc = "stopped"] /\ UNCHANGED <<blockChain, notices, clockDial>>
      /\ cache' = [cache EXCEPT !.stopped = TRUE, !.pending = Clock!NoEvents, !.attached = FALSE]
      /\ loader \in [pc : {"idle", "registered", "loading", "subscribed", "stopped"}, from : Int, anchor : Blocks]
  BY DEF ClockType, Clock!Unsubscribe
<1>2. cache' = [blocks |-> cache.blocks, pending |-> Clock!NoEvents, retention |-> cache.retention,
                initialized |-> cache.initialized, dirty |-> cache.dirty, stopped |-> TRUE, attached |-> FALSE]
  BY <1>1 DEF ClockType
<1>3. /\ cache'.stopped /\ cache'.pending = Clock!NoEvents /\ cache'.retention = cache.retention
      /\ cache' \in [blocks : SUBSET Blocks, pending : {cache'.pending}, retention : Int,
               initialized : BOOLEAN, dirty : BOOLEAN, stopped : BOOLEAN, attached : BOOLEAN]
  BY <1>2 DEF ClockType
<1>4. /\ loader' \in [pc : {"idle", "registered", "loading", "subscribed", "stopped"}, from : Int, anchor : Blocks]
      /\ loader'.pc = "stopped"
  BY <1>1
<1>5. DOMAIN Clock!NoEvents = {} /\ Clock!Active' = Clock!Active
  BY <1>1 DEF Clock!NoEvents, Clock!Active
<1> HIDE DEF cache, loader
<1>6. ClockType' /\ NoticesInv'
  BY <1>1, <1>3, <1>4, <1>5 DEF ClockType, NoticesInv
<1>7. StageInv'
  BY <1>1, <1>3, <1>4 DEF StageInv, Clock!PeriodStartFor
<1>8. PendingInv' /\ KnownInv'
  BY <1>3 DEF PendingInv, KnownInv
<1>9. TakenInv'
  BY <1>1, <1>3 DEF TakenInv, Clock!Visible
<1> QED BY <1>6, <1>7, <1>8, <1>9

LEMMA PeriodOK ==
  ASSUME NEW now \in Int
  PROVE  Clock!PeriodStartFor(now) \in Int
  BY PeriodAssumption DEF Clock!PeriodStartFor

\* setRetentionStart keeps what is not older than the new start.
LEMMA KeptOK ==
  ASSUME ClockInv, NEW start \in Int, NEW kept, kept = Clock!SetRetentionStart(cache, start)
  PROVE  /\ kept \in [blocks : SUBSET Blocks, pending : {kept.pending}, retention : Int, initialized : BOOLEAN,
                      dirty : BOOLEAN, stopped : BOOLEAN, attached : BOOLEAN]
         /\ kept.initialized = cache.initialized /\ kept.stopped = cache.stopped /\ kept.attached = cache.attached
         /\ kept.retention = start \/ kept.retention = cache.retention
         /\ kept = cache \/ kept.dirty
         /\ DOMAIN kept.pending \subseteq DOMAIN cache.pending
         /\ \A b \in DOMAIN kept.pending : kept.pending[b] = cache.pending[b]
         /\ \A b \in Blocks : b.time >= kept.retention =>
              (b \in kept.blocks <=> b \in cache.blocks) /\ (b \in DOMAIN kept.pending <=> b \in DOMAIN cache.pending)
<1> USE DEF ClockInv
<1>1. CASE cache.stopped \/ cache.retention = start
  <2>1. kept = cache
    BY <1>1 DEF Clock!SetRetentionStart
  <2>2. cache \in [blocks : SUBSET Blocks, pending : {cache.pending}, retention : Int, initialized : BOOLEAN,
                   dirty : BOOLEAN, stopped : BOOLEAN, attached : BOOLEAN]
    BY DEF ClockType
  <2> HIDE DEF cache
  <2> QED BY <2>1, <2>2
<1>2. CASE ~(cache.stopped \/ cache.retention = start)
  <2> DEFINE known == Clock!Retained(cache.blocks, start)
             events == Clock!RetainedEvents(cache.pending, start)
  <2>1. kept = [cache EXCEPT !.retention = start, !.blocks = known, !.dirty = TRUE, !.pending = events]
    BY <1>2 DEF Clock!SetRetentionStart
  <2>2. known \subseteq Blocks /\ \A b \in Blocks : b.time >= start => (b \in known <=> b \in cache.blocks)
    BY DEF Clock!Retained, ClockType
  <2>3. /\ DOMAIN events \subseteq DOMAIN cache.pending
        /\ \A b \in DOMAIN events : events[b] = cache.pending[b]
        /\ \A b \in Blocks : b.time >= start => (b \in DOMAIN events <=> b \in DOMAIN cache.pending)
    BY DEF Clock!RetainedEvents
  <2> HIDE DEF known, events
  <2>4. kept = [blocks |-> known, pending |-> events, retention |-> start, initialized |-> cache.initialized,
                dirty |-> TRUE, stopped |-> cache.stopped, attached |-> cache.attached]
    BY <2>1 DEF ClockType
  <2>5. cache.initialized \in BOOLEAN /\ cache.stopped \in BOOLEAN /\ cache.attached \in BOOLEAN
    BY DEF ClockType
  <2> HIDE DEF cache
  <2> QED BY <2>2, <2>3, <2>4, <2>5
<1> QED BY <1>1, <1>2

\* A snapshot was taken.
LEMMA CleanOK ==
  ASSUME NEW events, NEW c \in [blocks : SUBSET Blocks, pending : {events}, retention : Int, initialized : BOOLEAN,
                               dirty : BOOLEAN, stopped : BOOLEAN, attached : BOOLEAN],
         NEW clean, clean = [c EXCEPT !.dirty = FALSE]
  PROVE  clean = [blocks |-> c.blocks, pending |-> c.pending, retention |-> c.retention, initialized |-> c.initialized,
                  dirty |-> FALSE, stopped |-> c.stopped, attached |-> c.attached]
  OBVIOUS

\* The dial moves to another period.
LEMMA MovedOK ==
  ASSUME NEW n, NEW p, NEW c, NEW s, NEW w, NEW h, NEW f, NEW start, NEW blocks, NEW seen,
         NEW d, d = [now |-> n, period |-> p, cached |-> c, shown |-> s, posted |-> w, stopped |-> h, floor |-> f],
         NEW e, e = [d EXCEPT !.period = start, !.cached = blocks, !.shown = seen]
  PROVE  e = [now |-> n, period |-> start, cached |-> blocks, shown |-> seen, posted |-> w, stopped |-> h, floor |-> f]
  OBVIOUS

\* A step of the clock: the retention may move, and so may what is never asked
\* for again.
LEMMA TickInv ==
  ASSUME ClockInv, NEW now \in 0..MaxTime, Clock!Tick(now)
  PROVE  ClockInv'
<1> USE DEF ClockInv
<1> DEFINE dayPart == Clock!PeriodStartFor(now)
           start == dayPart - Period
           kept == Clock!SetRetentionStart(cache, start)
           taken == IF Clock!HasSnapshot(kept) THEN kept.blocks ELSE clockDial.cached
           low == IF cache'.retention > clockDial.floor THEN cache'.retention ELSE clockDial.floor
           moved == dayPart # clockDial.period
           updated == Clock!UpdateCurrentTime(cache, [clockDial EXCEPT !.now = now], now)
<1>1. /\ ~clockDial.stopped /\ dayPart >= clockDial.floor /\ UNCHANGED <<blockChain, notices, loader>>
      /\ cache' = updated.cache /\ clockDial' = [updated.dial EXCEPT !.floor = IF cache'.retention > @ THEN cache'.retention ELSE @]
  BY DEF Clock!Tick
<1>2. now \in Int /\ dayPart \in Int /\ start \in Int /\ start <= dayPart /\ Period \in Nat
  BY PeriodOK, PeriodAssumption
<1>3. /\ clockDial \in [now : Int, period : Int, cached : SUBSET Blocks, shown : SUBSET Blocks, posted : BOOLEAN,
                        stopped : BOOLEAN, floor : Int]
      /\ cache.retention \in Int /\ clockDial.floor \in Int /\ cache.retention <= clockDial.floor
      /\ \A b \in Blocks : b.time \in Int
      /\ cache \in [blocks : SUBSET Blocks, pending : {cache.pending}, retention : Int, initialized : BOOLEAN,
                    dirty : BOOLEAN, stopped : BOOLEAN, attached : BOOLEAN]
  BY BlocksAssumption DEF ClockType, StageInv
<1> HIDE DEF dayPart, start
\* The cache after the step.
<1>4. /\ ~moved => cache' = cache
      /\ moved => cache' = IF Clock!HasSnapshot(kept) THEN [kept EXCEPT !.dirty = FALSE] ELSE kept
  <2>1. [clockDial EXCEPT !.now = now].period = clockDial.period
    BY <1>3
  <2> QED BY <1>1, <2>1 DEF Clock!UpdateCurrentTime, dayPart, start
<1>5. /\ kept \in [blocks : SUBSET Blocks, pending : {kept.pending}, retention : Int, initialized : BOOLEAN,
                   dirty : BOOLEAN, stopped : BOOLEAN, attached : BOOLEAN]
      /\ kept.initialized = cache.initialized /\ kept.stopped = cache.stopped /\ kept.attached = cache.attached
      /\ kept.retention = start \/ kept.retention = cache.retention
      /\ kept = cache \/ kept.dirty
      /\ DOMAIN kept.pending \subseteq DOMAIN cache.pending
      /\ \A b \in DOMAIN kept.pending : kept.pending[b] = cache.pending[b]
      /\ \A b \in Blocks : b.time >= kept.retention =>
           (b \in kept.blocks <=> b \in cache.blocks) /\ (b \in DOMAIN kept.pending <=> b \in DOMAIN cache.pending)
  BY <1>2, KeptOK
<1> HIDE DEF kept
<1>6. [kept EXCEPT !.dirty = FALSE] = [blocks |-> kept.blocks, pending |-> kept.pending, retention |-> kept.retention,
         initialized |-> kept.initialized, dirty |-> FALSE, stopped |-> kept.stopped, attached |-> kept.attached]
  BY <1>5, CleanOK
<1>7. /\ cache' \in [blocks : SUBSET Blocks, pending : {cache'.pending}, retention : Int, initialized : BOOLEAN,
                     dirty : BOOLEAN, stopped : BOOLEAN, attached : BOOLEAN]
      /\ cache'.initialized = cache.initialized /\ cache'.stopped = cache.stopped /\ cache'.attached = cache.attached
      /\ cache'.retention = start \/ cache'.retention = cache.retention
      /\ DOMAIN cache'.pending \subseteq DOMAIN cache.pending
      /\ \A b \in DOMAIN cache'.pending : cache'.pending[b] = cache.pending[b]
      /\ \A b \in Blocks : b.time >= cache'.retention =>
           (b \in cache'.blocks <=> b \in cache.blocks) /\ (b \in DOMAIN cache'.pending <=> b \in DOMAIN cache.pending)
  <2> HIDE DEF cache, moved
  <2>1. CASE ~moved
    BY <1>3, <1>4, <2>1
  <2>2. CASE moved /\ ~Clock!HasSnapshot(kept)
    BY <1>4, <1>5, <2>2
  <2>3. CASE moved /\ Clock!HasSnapshot(kept)
    <3> DEFINE clean == [kept EXCEPT !.dirty = FALSE]
    <3>1. /\ clean.blocks = kept.blocks /\ clean.pending = kept.pending /\ clean.retention = kept.retention
          /\ clean.initialized = kept.initialized /\ clean.stopped = kept.stopped /\ clean.attached = kept.attached
          /\ clean \in [blocks : SUBSET Blocks, pending : {kept.pending}, retention : Int, initialized : BOOLEAN,
                        dirty : BOOLEAN, stopped : BOOLEAN, attached : BOOLEAN]
      BY <1>5, <1>6
    <3>2. cache' = clean
      BY <1>4, <2>3
    <3> HIDE DEF clean
    <3> QED BY <1>5, <3>1, <3>2
  <2> QED BY <2>1, <2>2, <2>3
\* The dial after the step.
<1>8. low \in Int /\ low >= clockDial.floor /\ low >= cache'.retention /\ low <= dayPart
  BY <1>1, <1>2, <1>3, <1>7
<1>9. ~moved => clockDial' = [now |-> now, period |-> clockDial.period, cached |-> clockDial.cached, shown |-> clockDial.shown,
                              posted |-> clockDial.posted, stopped |-> clockDial.stopped, floor |-> low]
  <2> DEFINE d == [clockDial EXCEPT !.now = now]
  <2>1. d = [now |-> now, period |-> clockDial.period, cached |-> clockDial.cached, shown |-> clockDial.shown,
             posted |-> clockDial.posted, stopped |-> clockDial.stopped, floor |-> clockDial.floor]
    BY <1>3
  <2>2. ~moved => updated.dial = d
    BY <2>1 DEF Clock!UpdateCurrentTime, dayPart
  <2> HIDE DEF d, updated
  <2> QED BY <1>1, <2>1, <2>2
<1>10. moved => clockDial' = [now |-> now, period |-> dayPart, cached |-> taken, shown |-> Clock!Visible(taken, dayPart),
                              posted |-> clockDial.posted, stopped |-> clockDial.stopped, floor |-> low]
  <2> DEFINE d == [clockDial EXCEPT !.now = now]
             e == [d EXCEPT !.period = dayPart, !.cached = taken, !.shown = Clock!Visible(taken, dayPart)]
  <2>1. d = [now |-> now, period |-> clockDial.period, cached |-> clockDial.cached, shown |-> clockDial.shown,
             posted |-> clockDial.posted, stopped |-> clockDial.stopped, floor |-> clockDial.floor]
    BY <1>3
  <2>2. moved => updated.dial = e
    BY <2>1 DEF Clock!UpdateCurrentTime, dayPart, start, kept
  <2> HIDE DEF d, taken
  <2>3. e = [now |-> now, period |-> dayPart, cached |-> taken, shown |-> Clock!Visible(taken, dayPart),
             posted |-> clockDial.posted, stopped |-> clockDial.stopped, floor |-> clockDial.floor]
    <3>1. PICK turned : turned = [d EXCEPT !.period = dayPart, !.cached = taken, !.shown = Clock!Visible(taken, dayPart)]
      OBVIOUS
    <3>2. turned = [now |-> now, period |-> dayPart, cached |-> taken, shown |-> Clock!Visible(taken, dayPart),
                    posted |-> clockDial.posted, stopped |-> clockDial.stopped, floor |-> clockDial.floor]
      BY <2>1, <3>1, MovedOK
    <3> QED BY <3>1, <3>2
  <2> HIDE DEF e, updated
  <2> QED BY <1>1, <2>2, <2>3
<1>11. taken \subseteq Blocks
  BY <1>3, <1>5
<1>12. /\ clockDial' \in [now : Int, period : Int, cached : SUBSET Blocks, shown : SUBSET Blocks, posted : BOOLEAN,
                          stopped : BOOLEAN, floor : Int]
       /\ clockDial'.now = now /\ clockDial'.period = dayPart /\ clockDial'.posted = clockDial.posted
       /\ clockDial'.stopped = clockDial.stopped /\ clockDial'.floor = low
       /\ ~moved => clockDial'.cached = clockDial.cached /\ clockDial'.shown = clockDial.shown
       /\ moved => clockDial'.cached = taken /\ clockDial'.shown = Clock!Visible(taken, dayPart)
  <2>1. Clock!Visible(taken, dayPart) \subseteq Blocks
    BY <1>11 DEF Clock!Visible
  <2> HIDE DEF low, taken
  <2>2. CASE ~moved
    BY <1>2, <1>3, <1>8, <1>9, <2>2
  <2>3. CASE moved
    <3> HIDE DEF moved
    <3> QED BY <1>2, <1>3, <1>8, <1>10, <1>11, <2>1, <2>3
  <2> QED BY <2>2, <2>3
<1>13. Clock!Active' = Clock!Active
  BY <1>1 DEF Clock!Active
<1>14. TakenInv'
  <2>1. /\ clockDial.shown = Clock!Visible(clockDial.cached, clockDial.period)
        /\ cache.initialized /\ ~cache.stopped /\ ~cache.dirty => clockDial.cached = cache.blocks
        /\ cache.initialized /\ ~cache.stopped /\ cache.dirty => clockDial.posted
    BY <1>1 DEF TakenInv
  <2>2. CASE ~moved
    BY <1>4, <1>12, <2>1, <2>2 DEF TakenInv
  <2>3. CASE moved
    <3>1. ASSUME cache.initialized, ~cache.stopped
          PROVE  ~cache'.dirty /\ clockDial'.cached = cache'.blocks
      <4>1. CASE kept.dirty
        <5>1. Clock!HasSnapshot(kept)
          BY <1>5, <3>1, <4>1 DEF Clock!HasSnapshot
        <5>2. cache'.dirty = FALSE /\ cache'.blocks = kept.blocks
          BY <1>4, <1>6, <2>3, <5>1
        <5> QED BY <1>12, <2>3, <5>1, <5>2
      <4>2. CASE ~kept.dirty
        <5>1. ~Clock!HasSnapshot(kept) /\ kept = cache
          BY <1>5, <4>2 DEF Clock!HasSnapshot
        <5>2. cache' = cache /\ taken = clockDial.cached
          BY <1>4, <2>3, <5>1
        <5> HIDE DEF cache, moved, taken
        <5> QED BY <1>12, <2>1, <2>3, <3>1, <4>2, <5>1, <5>2
      <4> QED BY <4>1, <4>2
    <3> HIDE DEF cache, moved, taken, clockDial
    <3> QED BY <1>7, <1>12, <2>3, <3>1 DEF TakenInv
  <2> QED BY <2>2, <2>3
<1> HIDE DEF cache, clockDial, loader, blockChain, notices, low, moved, taken
<1>15. ClockType' /\ NoticesInv'
  BY <1>1, <1>7, <1>12, <1>13 DEF ClockType, NoticesInv
<1>16. StageInv'
  <2>1. loader'.pc = loader.pc /\ loader'.from = loader.from /\ loader.from \in Int
    BY <1>1 DEF ClockType
  <2>2. clockDial'.period = Clock!PeriodStartFor(clockDial'.now)
    BY <1>12 DEF dayPart
  <2>3. loader.pc \in {"registered", "loading"} => loader.from <= low
    BY <1>3, <1>8, <2>1 DEF StageInv
  <2> HIDE DEF dayPart
  <2> QED BY <1>7, <1>8, <1>12, <2>1, <2>2, <2>3 DEF StageInv, Clock!PeriodStartFor
<1>17. \A b \in Blocks : b.time >= low => b.time >= clockDial.floor /\ b.time >= cache'.retention
  BY <1>3, <1>7, <1>8, <1>2
<1>18. PendingInv'
  <2>1. \A b \in DOMAIN cache'.pending : b \in Blocks
    BY <1>7 DEF ClockType
  <2> QED BY <1>1, <1>7, <1>12, <1>13, <1>17, <2>1 DEF PendingInv, Announced
<1>19. KnownInv'
  BY <1>1, <1>7, <1>12, <1>13, <1>17 DEF KnownInv, Announced
<1> QED BY <1>14, <1>15, <1>16, <1>18, <1>19

\* The dial takes the blocks and stands in its period (refreshHistory).
LEMMA RefreshInv ==
  ASSUME ClockInv, Clock!RefreshHistory
  PROVE  ClockInv'
<1> USE DEF ClockInv
<1> DEFINE awake == [clockDial EXCEPT !.posted = FALSE]
           asleep == clockDial.stopped \/ ~Clock!HasSnapshot(cache)
<1>1. /\ cache \in [blocks : SUBSET Blocks, pending : {cache.pending}, retention : Int, initialized : BOOLEAN,
                    dirty : BOOLEAN, stopped : BOOLEAN, attached : BOOLEAN]
      /\ clockDial \in [now : Int, period : Int, cached : SUBSET Blocks, shown : SUBSET Blocks, posted : BOOLEAN,
                        stopped : BOOLEAN, floor : Int]
      /\ UNCHANGED <<blockChain, notices, loader>> /\ clockDial.period = Clock!PeriodStartFor(clockDial.now)
  BY DEF ClockType, StageInv, Clock!RefreshHistory
<1>2. awake = [now |-> clockDial.now, period |-> clockDial.period, cached |-> clockDial.cached, shown |-> clockDial.shown,
               posted |-> FALSE, stopped |-> clockDial.stopped, floor |-> clockDial.floor]
  <2>1. PICK d : d = [clockDial EXCEPT !.posted = FALSE]
    OBVIOUS
  <2>2. d = [now |-> clockDial.now, period |-> clockDial.period, cached |-> clockDial.cached, shown |-> clockDial.shown,
             posted |-> FALSE, stopped |-> clockDial.stopped, floor |-> clockDial.floor]
    BY <1>1, <2>1
  <2> QED BY <2>1, <2>2
<1>3. asleep => clockDial' = awake /\ cache' = cache
  BY DEF Clock!RefreshHistory
<1> HIDE DEF awake
<1>4. ~asleep =>
        /\ cache' = [cache EXCEPT !.dirty = FALSE]
        /\ clockDial' = [now |-> clockDial.now, period |-> clockDial.period, cached |-> cache.blocks,
                         shown |-> Clock!Visible(cache.blocks, clockDial.period), posted |-> FALSE,
                         stopped |-> clockDial.stopped, floor |-> clockDial.floor]
  <2> DEFINE fresh == [cache EXCEPT !.dirty = FALSE]
             filled == [awake EXCEPT !.cached = cache.blocks]
             updated == Clock!UpdateCurrentTime(fresh, filled, clockDial.now)
  <2> SUFFICES ASSUME ~asleep
               PROVE  /\ cache' = fresh
                      /\ clockDial' = [now |-> clockDial.now, period |-> clockDial.period, cached |-> cache.blocks,
                                       shown |-> Clock!Visible(cache.blocks, clockDial.period), posted |-> FALSE,
                                       stopped |-> clockDial.stopped, floor |-> clockDial.floor]
    OBVIOUS
  <2>1. filled = [now |-> clockDial.now, period |-> clockDial.period, cached |-> cache.blocks, shown |-> clockDial.shown,
                  posted |-> FALSE, stopped |-> clockDial.stopped, floor |-> clockDial.floor]
    <3>1. PICK d : d = [awake EXCEPT !.cached = cache.blocks]
      OBVIOUS
    <3>2. d = [now |-> clockDial.now, period |-> clockDial.period, cached |-> cache.blocks, shown |-> clockDial.shown,
               posted |-> FALSE, stopped |-> clockDial.stopped, floor |-> clockDial.floor]
      BY <1>2, <3>1
    <3> QED BY <3>1, <3>2
  <2>2. cache' = updated.cache /\ clockDial' = [updated.dial EXCEPT !.shown = Clock!Visible(updated.dial.cached, updated.dial.period)]
    BY DEF Clock!RefreshHistory, awake
  <2> HIDE DEF filled, fresh
  <2>3. filled.period = clockDial.period /\ filled.cached = cache.blocks
    BY <2>1
  <2>4. updated.cache = fresh /\ updated.dial = filled
    BY <1>1, <2>3 DEF Clock!UpdateCurrentTime
  <2> HIDE DEF updated
  <2>5. clockDial' = [filled EXCEPT !.shown = Clock!Visible(cache.blocks, clockDial.period)]
    BY <2>2, <2>3, <2>4
  <2>6. clockDial' = [now |-> clockDial.now, period |-> clockDial.period, cached |-> cache.blocks,
                      shown |-> Clock!Visible(cache.blocks, clockDial.period), posted |-> FALSE,
                      stopped |-> clockDial.stopped, floor |-> clockDial.floor]
    BY <2>1, <2>5
  <2> QED BY <2>2, <2>4, <2>6
<1>5. /\ cache' \in [blocks : SUBSET Blocks, pending : {cache'.pending}, retention : Int, initialized : BOOLEAN,
                     dirty : BOOLEAN, stopped : BOOLEAN, attached : BOOLEAN]
      /\ cache'.initialized = cache.initialized /\ cache'.stopped = cache.stopped /\ cache'.attached = cache.attached
      /\ cache'.retention = cache.retention /\ cache'.blocks = cache.blocks /\ cache'.pending = cache.pending
      /\ asleep => cache'.dirty = cache.dirty
      /\ ~asleep => ~cache'.dirty
  <2>1. CASE asleep
    BY <1>1, <1>3, <2>1
  <2>2. CASE ~asleep
    <3>1. PICK clean : clean = [cache EXCEPT !.dirty = FALSE]
      OBVIOUS
    <3>2. clean = [blocks |-> cache.blocks, pending |-> cache.pending, retention |-> cache.retention,
                   initialized |-> cache.initialized, dirty |-> FALSE, stopped |-> cache.stopped, attached |-> cache.attached]
      BY <1>1, <3>1, CleanOK
    <3>3. cache' = clean
      BY <1>4, <2>2, <3>1
    <3> HIDE DEF cache, asleep
    <3> QED BY <1>1, <2>2, <3>2, <3>3
  <2> QED BY <2>1, <2>2
<1>6. Clock!Visible(cache.blocks, clockDial.period) \subseteq Blocks
  BY <1>1 DEF Clock!Visible
<1>7. /\ clockDial' \in [now : Int, period : Int, cached : SUBSET Blocks, shown : SUBSET Blocks, posted : BOOLEAN,
                         stopped : BOOLEAN, floor : Int]
      /\ clockDial'.now = clockDial.now /\ clockDial'.period = clockDial.period
      /\ clockDial'.stopped = clockDial.stopped /\ clockDial'.floor = clockDial.floor
      /\ asleep => clockDial'.cached = clockDial.cached /\ clockDial'.shown = clockDial.shown
      /\ ~asleep => /\ clockDial'.cached = cache.blocks
                    /\ clockDial'.shown = Clock!Visible(cache.blocks, clockDial.period)
  <2> DEFINE seen == IF asleep THEN clockDial.shown ELSE Clock!Visible(cache.blocks, clockDial.period)
             held == IF asleep THEN clockDial.cached ELSE cache.blocks
  <2>1. clockDial' = [now |-> clockDial.now, period |-> clockDial.period, cached |-> held, shown |-> seen, posted |-> FALSE,
                      stopped |-> clockDial.stopped, floor |-> clockDial.floor]
    <3> HIDE DEF asleep, cache, clockDial
    <3> QED BY <1>2, <1>3, <1>4
  <2>2. held \in SUBSET Blocks /\ seen \in SUBSET Blocks
    BY <1>1, <1>6
  <2>3. /\ clockDial.now \in Int /\ clockDial.period \in Int /\ clockDial.stopped \in BOOLEAN /\ clockDial.floor \in Int
        /\ asleep => held = clockDial.cached /\ seen = clockDial.shown
        /\ ~asleep => held = cache.blocks /\ seen = Clock!Visible(cache.blocks, clockDial.period)
    BY <1>1
  <2> HIDE DEF asleep, cache, clockDial, seen, held
  <2> QED BY <2>1, <2>2, <2>3
<1>8. Clock!Active' = Clock!Active
  BY <1>1 DEF Clock!Active
<1>9. TakenInv'
  <2>1. clockDial.stopped \/ ~cache.initialized \/ cache.stopped \/ ~cache.dirty <=> asleep
    BY DEF Clock!HasSnapshot
  <2> HIDE DEF asleep, cache, clockDial
  <2> QED BY <1>5, <1>7, <2>1 DEF TakenInv
<1> HIDE DEF cache, clockDial, loader, blockChain, notices, asleep
<1>10. ClockType' /\ NoticesInv'
  BY <1>1, <1>5, <1>7, <1>8 DEF ClockType, NoticesInv
<1>11. StageInv'
  BY <1>1, <1>5, <1>7 DEF StageInv, Clock!PeriodStartFor
<1>12. PendingInv'
  BY <1>1, <1>5, <1>7, <1>8 DEF PendingInv, Announced
<1>13. KnownInv'
  BY <1>1, <1>5, <1>7, <1>8 DEF KnownInv, Announced
<1> QED BY <1>9, <1>10, <1>11, <1>12, <1>13

LEMMA StopDialInv ==
  ASSUME ClockInv, Clock!StopDial
  PROVE  ClockInv'
<1> USE DEF ClockInv
<1>1. /\ cache \in [blocks : SUBSET Blocks, pending : {cache.pending}, retention : Int, initialized : BOOLEAN,
                    dirty : BOOLEAN, stopped : BOOLEAN, attached : BOOLEAN]
      /\ clockDial \in [now : Int, period : Int, cached : SUBSET Blocks, shown : SUBSET Blocks, posted : BOOLEAN,
                        stopped : BOOLEAN, floor : Int]
      /\ clockDial' = [clockDial EXCEPT !.stopped = TRUE] /\ cache' = [cache EXCEPT !.attached = FALSE]
      /\ UNCHANGED <<blockChain, notices, loader>>
  BY DEF ClockType, Clock!StopDial
<1>2. /\ clockDial' \in [now : Int, period : Int, cached : SUBSET Blocks, shown : SUBSET Blocks, posted : BOOLEAN,
                         stopped : BOOLEAN, floor : Int]
      /\ clockDial'.now = clockDial.now /\ clockDial'.period = clockDial.period
      /\ clockDial'.floor = clockDial.floor /\ clockDial'.stopped
  BY <1>1
<1>3. /\ cache' \in [blocks : SUBSET Blocks, pending : {cache'.pending}, retention : Int, initialized : BOOLEAN,
                     dirty : BOOLEAN, stopped : BOOLEAN, attached : BOOLEAN]
      /\ cache'.initialized = cache.initialized /\ cache'.stopped = cache.stopped
      /\ cache'.retention = cache.retention /\ cache'.blocks = cache.blocks /\ cache'.pending = cache.pending
  BY <1>1
<1>4. Clock!Active' = Clock!Active
  BY <1>1 DEF Clock!Active
<1> HIDE DEF cache, clockDial
<1>5. ClockType' /\ NoticesInv'
  BY <1>1, <1>2, <1>3, <1>4 DEF ClockType, NoticesInv
<1>6. StageInv'
  BY <1>1, <1>2, <1>3 DEF StageInv, Clock!PeriodStartFor
<1>7. PendingInv'
  BY <1>1, <1>2, <1>3, <1>4 DEF PendingInv, Announced
<1>8. KnownInv'
  BY <1>1, <1>2, <1>3, <1>4 DEF KnownInv, Announced
<1>9. TakenInv'
  BY <1>2 DEF TakenInv
<1> QED BY <1>5, <1>6, <1>7, <1>8, <1>9

LEMMA ClockInitInv ==
  ASSUME Clock!Init
  PROVE  ClockInv
<1>1. Period \in Nat /\ Clock!PeriodStartFor(0) = 0
  BY PeriodAssumption DEF Clock!PeriodStartFor
<1>2. DOMAIN Clock!NoEvents = {} /\ Clock!Visible({}, 0) = {} /\ notices = << >> /\ Len(notices) = 0
  BY DEF Clock!NoEvents, Clock!Visible, Clock!Init
<1>3. ClockType
  BY <1>1, <1>2, GenesisOK DEF ClockType, Clock!Init, Notice
<1>4. StageInv
  BY <1>1, <1>2 DEF StageInv, Clock!Init
<1>5. NoticesInv /\ PendingInv
  BY <1>2 DEF NoticesInv, PendingInv, Clock!Init
<1>6. KnownInv /\ TakenInv
  BY <1>2 DEF KnownInv, TakenInv, Clock!Init
<1> QED BY <1>3, <1>4, <1>5, <1>6 DEF ClockInv

LEMMA ClockNextInv ==
  ASSUME ClockInv, Clock!ClockNext \/ UNCHANGED <<v1, v2, v3, v4, v5>>
  PROVE  ClockInv'
<1>1. CASE UNCHANGED <<v1, v2, v3, v4, v5>>
  BY <1>1 DEF ClockInv, ClockType, StageInv, NoticesInv, PendingInv, KnownInv, TakenInv, Announced, Clock!Active,
    Clock!PeriodStartFor, Clock!Visible
<1>2. CASE \E now \in 0..MaxTime : Clock!Tick(now)
  BY <1>2, TickInv
<1>3. CASE (\E b \in Blocks : Clock!ConnectBlock(b)) \/ Clock!DisconnectTip
  BY <1>3, NodeInv
<1> QED
  BY <1>1, <1>2, <1>3, NotifyInv, LoaderInv, InstallInv, UnsubscribeInv, RefreshInv, StopDialInv DEF Clock!ClockNext

LEMMA ClockStepInv ==
  ASSUME part = "clock" => ClockInv, [Next]_vars, part' = "clock"
  PROVE  ClockInv'
<1>1. part = "clock" /\ (Clock!ClockNext \/ UNCHANGED <<v1, v2, v3, v4, v5>>)
  BY DEF Next, vars, SyncStep, MempoolStep, LogStep, ParserStep, ConsoleStep, SettingsStep, ClockStep,
    TrafficStep, PeersStep, DialStep, SegmentsStep
<1> QED BY <1>1, ClockNextInv

\* However blocks, reorganizations, late notifications, the first reading of the
\* chain, periods, clock changes and the stop of either side interleave (record,
\* initialize, setRetentionStart, refreshHistory): at rest the dial shows the
\* blocks of its period that the active chain has.
THEOREM ActiveChainIsShown == Spec => []DialShowsActiveChain
<1> DEFINE Inv == part = "clock" => ClockInv
<1>1. Init => Inv
  BY ClockInitInv DEF Init
<1>2. Inv /\ [Next]_vars => Inv'
  BY ClockStepInv
<1>3. Inv => DialShowsActiveChain
  <2> SUFFICES ASSUME ClockInv, loader.pc = "subscribed", notices = << >>, ~clockDial.posted, ~clockDial.stopped
               PROVE  clockDial.shown = Clock!Visible(Clock!Active, clockDial.period)
    BY DEF DialShowsActiveChain, Clock!DialShowsActiveChain
  <2>1. cache.initialized /\ ~cache.stopped
    BY DEF ClockInv, StageInv
  <2>2. clockDial.shown = Clock!Visible(cache.blocks, clockDial.period)
    BY <2>1 DEF ClockInv, TakenInv
  <2>3. Len(notices) = 0 /\ \A b \in Blocks : ~Announced(b)
    BY DEF Announced
  <2>4. /\ clockDial.floor \in Int /\ clockDial.period \in Int /\ clockDial.floor <= clockDial.period
        /\ cache.blocks \subseteq Blocks /\ Clock!Active \subseteq Blocks /\ \A b \in Blocks : b.time \in Int
    BY AncestorsOK, BlocksAssumption DEF ClockInv, ClockType, StageInv, Clock!Active
  <2>5. \A b \in Blocks : b.time >= clockDial.period => (b \in cache.blocks <=> b \in Clock!Active)
    BY <2>1, <2>3, <2>4 DEF ClockInv, KnownInv
  <2> HIDE DEF cache, clockDial
  <2> QED BY <2>2, <2>4, <2>5 DEF Clock!Visible
<1> QED BY <1>1, <1>2, <1>3, PTL DEF Spec

HIDE DEF blockChain, notices, cache, loader, clockDial

=============================================================================
