------------------------------ MODULE NodeStatus ------------------------------
(***************************************************************************)
(* How NodeModel (qml/models/nodemodel.cpp) keeps what it shows about      *)
(* peers, warnings and network activity in step with the node.  The node's *)
(* threads drop changes into a mailbox that posts at most one delivery to  *)
(* the GUI thread; status snapshots and the pause command run on worker    *)
(* threads; and two generation counters tell a completion that it was      *)
(* overtaken by a notification.                                            *)
(*                                                                         *)
(* The node is external: it changes a value first and notifies afterwards  *)
(* with the value it has then.  Peers stand for the inbound and outbound   *)
(* counts and for the total the notification carries.                      *)
(***************************************************************************)
EXTENDS Integers

CONSTANTS Kinds,       \* which of "active", "peers", "warning" change by themselves
          MaxEvents,   \* bound on changes by the node or over RPC and on setPause calls
          MayFail      \* may a status snapshot throw?

ASSUME KindsAssumption == Kinds \subseteq {"active", "peers", "warning"}
ASSUME BoundsAssumption ==
  MaxEvents \in Nat /\ MayFail \in BOOLEAN

VARIABLES
  node,       \* external: active, peers, warning
  owed,       \* external: notifications of a change that are still to be sent
  changes,    \* external: number of changes so far
  mailbox,    \* Notifications: what was dropped and not yet picked up
  statusGen,  \* Notifications::status_generation
  netGen,     \* Notifications::network_generation
  delivery,   \* delivery_pending and where its event is on the GUI thread
  gui,        \* what NodeModel shows and its life cycle flags
  status,     \* m_status_pending, m_status_again and the task in flight
  action      \* the setPause command: pending, desired, error, the task

statusVars == <<node, owed, changes, mailbox, statusGen, netGen, delivery, gui, status, action>>
nodeVars == <<node, owed, changes>>
boxVars == <<mailbox, statusGen, netGen>>

\* A std::optional is the set of the values it holds: none or one.
None == {}
Some(v) == {v}
Value(o) == CHOOSE v \in o : TRUE
Optional(S) == {o \in SUBSET S : \A v, w \in o : v = w}

\* No snapshot task exists and none is asked for.
IdleStatus(failed) ==
  [step |-> "idle", again |-> FALSE, ready |-> FALSE, gen |-> 0, netGen |-> 0,
   peers |-> 0, warning |-> 0, active |-> None, failed |-> failed]

StatusInit ==
  /\ node = [active |-> TRUE, peers |-> 0, warning |-> 0]
  /\ owed = {}
  /\ changes = 0
  /\ mailbox = [peers |-> FALSE, warnings |-> FALSE, active |-> None, total |-> None]
  /\ statusGen = 0 /\ netGen = 0
  /\ delivery = [pending |-> FALSE, attached |-> TRUE, publishing |-> FALSE]
  /\ gui = [ready |-> FALSE, shutdown |-> FALSE, stopping |-> FALSE,
            peers |-> 0, warning |-> 0, pause |-> FALSE, known |-> FALSE]
  /\ status = IdleStatus(FALSE)
  /\ action = [step |-> "idle", desired |-> FALSE, requested |-> FALSE, gen |-> 0,
               paused |-> FALSE, error |-> FALSE, requests |-> 0]

----------------------------------------------------------------------------
(* The node: a value changes, then its notification is sent. *)

NodeChanges(kind) ==
  /\ changes + action.requests < MaxEvents
  /\ changes' = changes + 1
  /\ owed' = owed \cup {kind}
  /\ node' = CASE kind = "active" -> [node EXCEPT !.active = ~@]
               [] kind = "peers" -> [node EXCEPT !.peers = 1 - @]
               [] kind = "warning" -> [node EXCEPT !.warning = 1 - @]
  /\ UNCHANGED <<boxVars, delivery, gui, status, action>>

\* Notifications::schedule, called with the mutex held
Scheduled ==
  [delivery EXCEPT !.pending = @ \/ delivery.attached]

DropWithoutStatusGeneration(kind) ==
  /\ mailbox' = CASE kind = "active" -> [mailbox EXCEPT !.active = Some(node.active)]
                  [] kind = "peers" -> [mailbox EXCEPT !.peers = TRUE, !.total = Some(node.peers)]
                  [] kind = "warning" -> [mailbox EXCEPT !.warnings = TRUE]
  /\ statusGen' = IF kind = "active" THEN statusGen ELSE statusGen + 1
  /\ netGen' = IF kind = "active" THEN netGen + 1 ELSE netGen
  /\ delivery' = Scheduled

\* The callbacks of the three Connect...Signal functions
Drop(kind) ==
  /\ mailbox' = CASE kind = "active" -> [mailbox EXCEPT !.active = Some(node.active)]
                  [] kind = "peers" -> [mailbox EXCEPT !.peers = TRUE, !.total = Some(node.peers)]
                  [] kind = "warning" -> [mailbox EXCEPT !.warnings = TRUE]
  /\ statusGen' = statusGen + 1
  /\ netGen' = IF kind = "active" THEN netGen + 1 ELSE netGen
  /\ delivery' = Scheduled

Notify(kind) ==
  /\ kind \in owed
  /\ owed' = owed \ {kind}
  /\ Drop(kind)
  /\ UNCHANGED <<node, changes, gui, status, action>>

----------------------------------------------------------------------------
(* NodeModel on the GUI thread *)

GuiFree == ~delivery.publishing

\* refreshStatus: one task at a time, a request during it is remembered.  The
\* generations are read when the task is submitted.
RefreshedStatus(st, g, nodeReady) ==
  IF ~g.ready \/ g.shutdown \/ g.stopping THEN st
  ELSE IF st.step # "idle" THEN [st EXCEPT !.again = TRUE]
  ELSE [st EXCEPT !.step = "submitted", !.ready = nodeReady,
                  !.gen = statusGen, !.netGen = netGen]

Accepting(g) == ~g.stopping /\ ~g.shutdown

\* publishNotifications: the mailbox is emptied and applied.
PublishedMailbox ==
  IF Accepting(gui)
  THEN [mailbox EXCEPT !.peers = FALSE, !.warnings = FALSE, !.active = None]
  ELSE mailbox

PublishedStatusForWarnings(g, nodeReady) ==
  IF Accepting(g) /\ mailbox.warnings THEN RefreshedStatus(status, g, nodeReady) ELSE status

PublishedStatus(g, nodeReady) ==
  IF Accepting(g) /\ (mailbox.peers \/ mailbox.warnings)
  THEN RefreshedStatus(status, g, nodeReady) ELSE status

PublishedGuiOnce(g) ==
  IF Accepting(g) /\ mailbox.active # None /\ ~g.known
  THEN [g EXCEPT !.known = TRUE, !.pause = ~Value(mailbox.active)] ELSE g

PublishedGui(g) ==
  IF Accepting(g) /\ mailbox.active # None
  THEN [g EXCEPT !.known = TRUE, !.pause = ~Value(mailbox.active)] ELSE g

\* The posted delivery resets delivery_pending under the mutex and then, with
\* the mutex released in between, publishes.
BeginDelivery ==
  /\ GuiFree /\ delivery.pending
  /\ delivery' = [delivery EXCEPT !.pending = FALSE, !.publishing = TRUE]
  /\ UNCHANGED <<nodeVars, boxVars, gui, status, action>>

Publish ==
  /\ delivery.publishing
  /\ delivery' = [delivery EXCEPT !.publishing = FALSE]
  /\ mailbox' = PublishedMailbox
  /\ gui' = PublishedGui(gui)
  /\ status' = PublishedStatus(gui, gui.ready)
  /\ UNCHANGED <<nodeVars, statusGen, netGen, action>>

\* initializeResult with success: queries become possible, what the mailbox
\* holds is published, the node is marked ready and a snapshot is requested.
Initialized ==
  /\ GuiFree
  /\ ~gui.ready /\ Accepting(gui)
  /\ LET g == [gui EXCEPT !.ready = TRUE]
     IN /\ mailbox' = PublishedMailbox
        /\ gui' = PublishedGui(g)
        /\ status' = RefreshedStatus(PublishedStatus(g, FALSE), g, TRUE)
  /\ UNCHANGED <<nodeVars, statusGen, netGen, delivery, action>>

RequestShutdown ==
  /\ GuiFree /\ ~gui.shutdown
  /\ gui' = [gui EXCEPT !.shutdown = TRUE]
  /\ UNCHANGED <<nodeVars, boxVars, delivery, status, action>>

\* beginShutdown: notifications are detached and both executors stopped.
BeginShutdown ==
  /\ GuiFree /\ gui.shutdown /\ ~gui.stopping
  /\ gui' = [gui EXCEPT !.stopping = TRUE]
  /\ delivery' = [delivery EXCEPT !.attached = FALSE]
  /\ UNCHANGED <<nodeVars, boxVars, status, action>>

----------------------------------------------------------------------------
(* The status snapshot *)

\* The worker reads peers and warnings first and network activity last.
ReadCounts ==
  /\ status.step = "submitted"
  /\ status' = [status EXCEPT !.step = "counted", !.peers = node.peers, !.warning = node.warning]
  /\ UNCHANGED <<nodeVars, boxVars, delivery, gui, action>>

ReadActive ==
  /\ status.step = "counted"
  /\ status' = [status EXCEPT !.step = "read",
                  !.active = IF status.ready THEN Some(node.active) ELSE None]
  /\ UNCHANGED <<nodeVars, boxVars, delivery, gui, action>>

NetworkAlwaysCurrent == TRUE
\* network_current: no notification of network activity came meanwhile.
NetworkCurrent == status.netGen = netGen

\* The completion of refreshStatus.  Counts are published even when another
\* refresh is due; network activity only when no notification overtook it.
StatusRead ==
  /\ GuiFree /\ ~gui.stopping
  /\ status.step = "read"
  /\ LET idle == IdleStatus(status.failed)
         overtaken == status.gen # statusGen
         g == [gui EXCEPT !.peers = IF mailbox.total = None THEN status.peers ELSE Value(mailbox.total),
                          !.warning = status.warning]
     IN IF gui.shutdown
        THEN status' = [idle EXCEPT !.again = status.again] /\ UNCHANGED gui
        ELSE /\ gui' = IF status.active # None /\ NetworkCurrent
                       THEN [g EXCEPT !.known = TRUE, !.pause = ~Value(status.active)] ELSE g
             /\ status' = IF status.again \/ overtaken
                          THEN RefreshedStatus(idle, gui, gui.ready)
                          ELSE idle
  /\ UNCHANGED <<nodeVars, boxVars, delivery, action>>

StatusFailed ==
  /\ GuiFree /\ ~gui.stopping
  /\ MayFail /\ status.step = "submitted"
  /\ LET idle == IdleStatus(TRUE)
     IN status' = IF status.again THEN RefreshedStatus(idle, gui, gui.ready) ELSE idle
  /\ UNCHANGED <<nodeVars, boxVars, delivery, gui, action>>

----------------------------------------------------------------------------
(* The pause command *)

\* setPause
SetPause(pause) ==
  /\ GuiFree
  /\ gui.ready /\ Accepting(gui)
  /\ changes + action.requests < MaxEvents
  /\ action' = IF action.step # "idle" \/ gui.pause = pause
               THEN [action EXCEPT !.desired = pause, !.requests = @ + 1]
               ELSE [action EXCEPT !.desired = pause, !.requests = @ + 1, !.error = FALSE,
                                   !.requested = pause, !.step = "submitted"]
  /\ UNCHANGED <<nodeVars, boxVars, delivery, gui, status>>

\* node->setNetworkActive on the worker: nothing happens when the node is in
\* that state already, else it notifies from the same call.
SetNetworkActive ==
  /\ action.step = "submitted"
  /\ node' = [node EXCEPT !.active = ~action.requested]
  /\ action' = [action EXCEPT !.step = IF node.active = action.requested THEN "notify" ELSE "set"]
  /\ UNCHANGED <<owed, changes, boxVars, delivery, gui, status>>

NotifyOwnChange ==
  /\ action.step = "notify"
  /\ Drop("active")
  /\ action' = [action EXCEPT !.step = "set"]
  /\ UNCHANGED <<nodeVars, gui, status>>

ReadGeneration ==
  /\ action.step = "set"
  /\ action' = [action EXCEPT !.step = "generation", !.gen = netGen]
  /\ UNCHANGED <<nodeVars, boxVars, delivery, gui, status>>

ReadPaused ==
  /\ action.step = "generation"
  /\ action' = [action EXCEPT !.step = "done", !.paused = ~node.active]
  /\ UNCHANGED <<nodeVars, boxVars, delivery, gui, status>>

\* The task of the command is gone.
IdleAction ==
  [action EXCEPT !.step = "idle", !.requested = FALSE, !.gen = 0, !.paused = FALSE]

\* What is left of the command after its completion: a newer wish is submitted
\* at once, otherwise a result that is not the wish is an error.
Continued(current) ==
  IF action.desired # action.requested
  THEN [IdleAction EXCEPT !.step = "submitted", !.requested = action.desired]
  ELSE [IdleAction EXCEPT !.error = @ \/ (current /\ action.paused # action.requested)]

\* The completion of submitNetworkAction; during shutdown it leaves the command
\* pending for good.
ActionCompleted ==
  /\ GuiFree /\ ~gui.stopping
  /\ action.step = "done"
  /\ IF gui.shutdown
     THEN action' = [IdleAction EXCEPT !.step = "abandoned"] /\ UNCHANGED <<mailbox, gui, status>>
     ELSE IF action.gen = netGen
     THEN /\ gui' = [gui EXCEPT !.known = TRUE, !.pause = action.paused]
          /\ action' = Continued(TRUE)
          /\ UNCHANGED <<mailbox, status>>
     ELSE /\ mailbox' = PublishedMailbox
          /\ gui' = PublishedGui(gui)
          /\ status' = RefreshedStatus(PublishedStatus(gui, gui.ready), gui, gui.ready)
          /\ action' = Continued(FALSE)
  /\ UNCHANGED <<nodeVars, statusGen, netGen, delivery>>

ActionFailed ==
  /\ GuiFree /\ ~gui.stopping
  /\ MayFail /\ action.step = "submitted"
  /\ action' = [IdleAction EXCEPT !.error = TRUE]
  /\ UNCHANGED <<nodeVars, boxVars, delivery, gui, status>>

----------------------------------------------------------------------------

TaskStep == \/ ReadCounts \/ ReadActive
              \/ SetNetworkActive \/ NotifyOwnChange \/ ReadGeneration \/ ReadPaused

StatusNext ==
  \/ \E kind \in Kinds : NodeChanges(kind) \/ Notify(kind)
  \/ BeginDelivery \/ Publish \/ Initialized \/ RequestShutdown \/ BeginShutdown
  \/ StatusRead \/ StatusFailed
  \/ \E pause \in BOOLEAN : SetPause(pause)
  \/ ActionCompleted \/ ActionFailed
  \/ TaskStep

\* Every notification that is owed is sent, posted events are delivered and
\* worker tasks run to their end.
StatusFairness ==
  /\ \A kind \in Kinds : WF_statusVars(Notify(kind))
  /\ WF_statusVars(BeginDelivery) /\ WF_statusVars(Publish)
  /\ WF_statusVars(ReadCounts \/ ReadActive)
  /\ WF_statusVars(SetNetworkActive \/ NotifyOwnChange \/ ReadGeneration \/ ReadPaused)
  /\ WF_statusVars(StatusRead) /\ WF_statusVars(ActionCompleted)

StatusSpec == StatusInit /\ [][StatusNext]_statusVars
FairStatusSpec == StatusSpec /\ StatusFairness

----------------------------------------------------------------------------
(* Properties *)

\* Every variable stays in the set of values the code can give it.
StatusTypeOK ==
  /\ node \in [active : BOOLEAN, peers : 0..1, warning : 0..1]
  /\ owed \subseteq Kinds
  /\ changes \in 0..MaxEvents
  /\ mailbox \in [peers : BOOLEAN, warnings : BOOLEAN, active : Optional(BOOLEAN),
                  total : Optional(0..1)]
  /\ statusGen \in Nat /\ netGen \in 0..statusGen
  /\ delivery \in [pending : BOOLEAN, attached : BOOLEAN, publishing : BOOLEAN]
  /\ gui \in [ready : BOOLEAN, shutdown : BOOLEAN, stopping : BOOLEAN,
              peers : 0..1, warning : 0..1, pause : BOOLEAN, known : BOOLEAN]
  /\ status \in [step : {"idle", "submitted", "counted", "read"}, again : BOOLEAN,
                 ready : BOOLEAN, gen : 0..statusGen, netGen : 0..netGen,
                 peers : 0..1, warning : 0..1, active : Optional(BOOLEAN), failed : BOOLEAN]
  /\ action \in [step : {"idle", "submitted", "notify", "set", "generation", "done", "abandoned"},
                 desired : BOOLEAN, requested : BOOLEAN, gen : 0..netGen,
                 paused : BOOLEAN, error : BOOLEAN, requests : 0..MaxEvents]

\* Once network activity is known, the model shows what the node does unless
\* a change is still on its way to the GUI: no late snapshot and no late
\* result of a command puts an older value over a newer notification.
KnownPauseIsCurrent ==
  (Accepting(gui) /\ gui.known
    /\ "active" \notin owed /\ action.step # "notify" /\ mailbox.active = None)
  => gui.pause = ~node.active

\* The state is well formed, generations included, and the pause shown is current.
NodeStatusIsCurrent == StatusTypeOK /\ KnownPauseIsCurrent

\* After the last change the peers and warnings shown are those of the node,
\* unless a snapshot failed or the application shuts down.
PeersSettle ==
  <>[](gui.ready => (gui.peers = node.peers /\ gui.warning = node.warning)
                    \/ gui.shutdown \/ status.failed)

\* After the last change the model knows and shows the node's network activity.
PauseSettles ==
  <>[](gui.ready => (gui.known /\ gui.pause = ~node.active)
                    \/ gui.shutdown \/ status.failed)

\* No notification, snapshot or command leaves the status page behind the node
\* for good: no wake-up of the mailbox (schedule) and no refresh is lost.
StatusSettles == PeersSettle /\ PauseSettles

=============================================================================
