----------------------------- MODULE BlockClock -----------------------------
(***************************************************************************)
(* The blocks on the block clock's dial (qml/models/blockclockhistory.cpp, *)
(* qml/models/blockclockmodel.cpp).  The init worker registers for block   *)
(* notifications and then reads the ancestors of the tip, while the node   *)
(* connects and disconnects blocks and its notifications arrive late; the  *)
(* GUI moves the period on and takes snapshots of the cache.               *)
(***************************************************************************)
EXTENDS Integers, Sequences

CONSTANTS Blocks,   \* a tree: records [id, parent, time], the genesis block's parent is 0
          Period,   \* PERIOD_SECONDS
          MaxTime,  \* bound on the clock
          MaxReorgs \* bound on disconnected blocks

VARIABLES chain,   \* [tip, disconnects]: the active chain
          notices, \* notifications the node has queued
          cache,   \* BlockClockHistory: [blocks, pending, retention, initialized, dirty, stopped, attached]
          loader,  \* [pc, from, anchor]: SubscribeBlockClockHistory
          dial     \* [now, period, cached, shown, posted, stopped]; floor: the latest
                   \* time, over the program's life, below which blocks were not kept

clockVars == <<chain, notices, cache, loader, dial>>

PeriodStartFor(now) == now - (now % Period)
\* The block and its ancestors: what every chain down to the genesis block holds.
HoldsParents(chained) == \A c \in chained, p \in Blocks : p.id = c.parent => p \in chained
Ancestors(b) == {a \in Blocks : \A chained \in SUBSET Blocks : b \in chained /\ HoldsParents(chained) => a \in chained}
Active == Ancestors(chain.tip)
Genesis == CHOOSE b \in Blocks : b.parent = 0

Visible(blocks, period) == {b \in blocks : period <= b.time /\ b.time < period + Period}

\* m_pending maps blocks to whether they were connected.
NoEvents == [b \in {} |-> TRUE]

\* The model is made, and has set the retention, before the backend is initialized.
Init ==
  /\ chain = [tip |-> Genesis, disconnects |-> 0]
  /\ notices = << >>
  /\ cache = [blocks |-> {}, pending |-> NoEvents, retention |-> -Period, initialized |-> FALSE, dirty |-> TRUE,
              stopped |-> FALSE, attached |-> TRUE]
  /\ loader = [pc |-> "idle", from |-> 0, anchor |-> Genesis]
  /\ dial = [now |-> 0, period |-> 0, cached |-> {}, shown |-> {}, posted |-> FALSE, stopped |-> FALSE,
             floor |-> -Period]

----------------------------------------------------------------------------
(* The node (external) *)

ConnectBlock(b) ==
  /\ b.parent = chain.tip.id
  /\ chain' = [chain EXCEPT !.tip = b]
  /\ notices' = Append(notices, [block |-> b, connected |-> TRUE])
  /\ UNCHANGED <<cache, loader, dial>>
DisconnectTip ==
  /\ chain.tip # Genesis /\ chain.disconnects < MaxReorgs
  /\ chain' = [tip |-> CHOOSE p \in Blocks : p.id = chain.tip.parent, disconnects |-> chain.disconnects + 1]
  /\ notices' = Append(notices, [block |-> chain.tip, connected |-> FALSE])
  /\ UNCHANGED <<cache, loader, dial>>

----------------------------------------------------------------------------
(* The cache *)

\* m_changed posts one refresh to the GUI (scheduleHistoryRefresh).
Wake(c) == IF c.attached THEN [dial EXCEPT !.posted = TRUE] ELSE dial

Retained(blocks, start) == {b \in blocks : b.time >= start}

\* Of the events of a block the last one is kept.
AssignEvent(pending, notice) ==
  [b \in DOMAIN pending \cup {notice.block} |-> IF b = notice.block THEN notice.connected ELSE pending[b]]
RetainedEvents(pending, start) == [b \in {e \in DOMAIN pending : ~pending[e] \/ e.time >= start} |-> pending[b]]

\* record: before the snapshot is installed events are kept.
Record(c, notice) ==
  CASE c.stopped \/ notice.block.time < c.retention -> c
    [] ~c.stopped /\ notice.block.time >= c.retention /\ ~c.initialized -> [c EXCEPT !.pending = AssignEvent(@, notice)]
    [] OTHER -> LET blocks == IF notice.connected THEN c.blocks \cup {notice.block} ELSE c.blocks \ {notice.block}
                IN [c EXCEPT !.blocks = blocks, !.dirty = @ \/ blocks # c.blocks]

\* Nothing is delivered before registration; a queued event may be older than it.
Notify ==
  /\ notices # << >>
  /\ notices' = Tail(notices)
  /\ cache' = IF loader.pc = "idle" THEN cache ELSE Record(cache, Head(notices))
  /\ dial' = IF cache'.initialized /\ cache'.blocks # cache.blocks THEN Wake(cache') ELSE dial
  /\ UNCHANGED <<chain, loader>>

SetRetentionStart(c, start) ==
  IF c.stopped \/ c.retention = start THEN c
  ELSE [c EXCEPT !.retention = start, !.blocks = Retained(@, start), !.dirty = TRUE,
                 !.pending = RetainedEvents(@, start)]
HasSnapshot(c) == ~c.stopped /\ c.initialized /\ c.dirty

----------------------------------------------------------------------------
(* SubscribeBlockClockHistory: register, read the tip, read its ancestors *)

Register ==
  /\ loader.pc = "idle" /\ ~cache.stopped
  /\ loader' = [loader EXCEPT !.pc = "registered", !.from = cache.retention]
  /\ UNCHANGED <<chain, notices, cache, dial>>
ReadBestBlock ==
  /\ loader.pc = "registered"
  /\ loader' = [loader EXCEPT !.pc = "loading", !.anchor = chain.tip]
  /\ UNCHANGED <<chain, notices, cache, dial>>

PendingIgnored(blocks, pending) == blocks
Reconciled(blocks, pending) == {b \in Blocks : IF b \in DOMAIN pending THEN pending[b] ELSE b \in blocks}

\* initialize
Install ==
  LET loaded == Retained(Ancestors(loader.anchor), loader.from)
  IN /\ loader.pc = "loading"
     /\ loader' = [loader EXCEPT !.pc = "subscribed"]
     /\ cache' = IF cache.stopped THEN cache
                 ELSE [cache EXCEPT !.blocks = Retained(Reconciled(loaded, cache.pending), cache.retention),
                                    !.pending = NoEvents, !.initialized = TRUE, !.dirty = TRUE]
     /\ dial' = IF cache.stopped THEN dial ELSE Wake(cache)
     /\ UNCHANGED <<chain, notices>>

\* A shutdown during loading and the release of the subscription stop the cache.
Unsubscribe ==
  /\ loader.pc \in {"registered", "loading", "subscribed"} /\ ~cache.stopped
  /\ loader' = [loader EXCEPT !.pc = "stopped"]
  /\ cache' = [cache EXCEPT !.stopped = TRUE, !.pending = NoEvents, !.attached = FALSE]
  /\ UNCHANGED <<chain, notices, dial>>

----------------------------------------------------------------------------
(* The GUI *)

\* updateCurrentTime at a time: a new period discards what is older than the
\* period before it.
UpdateCurrentTime(c, d, now) ==
  LET period == PeriodStartFor(now)
      kept == SetRetentionStart(c, period - Period)
      cached == IF HasSnapshot(kept) THEN kept.blocks ELSE d.cached
  IN IF period = d.period THEN [cache |-> c, dial |-> d]
     ELSE [cache |-> IF HasSnapshot(kept) THEN [kept EXCEPT !.dirty = FALSE] ELSE kept,
           dial |-> [d EXCEPT !.period = period, !.cached = cached, !.shown = Visible(cached, period)]]

\* The clock may be set back into what every retention so far has kept, at
\* least one period ("ordinary backwards clock/DST changes").
Tick(now) ==
  /\ ~dial.stopped /\ now # dial.now
  /\ PeriodStartFor(now) >= dial.floor
  /\ LET updated == UpdateCurrentTime(cache, [dial EXCEPT !.now = now], now)
     IN /\ cache' = updated.cache
        /\ dial' = [updated.dial EXCEPT !.floor = IF cache'.retention > @ THEN cache'.retention ELSE @]
  /\ UNCHANGED <<chain, notices, loader>>

RefreshHistory ==
  LET awake == [dial EXCEPT !.posted = FALSE]
      taken == [cache EXCEPT !.dirty = FALSE]
      updated == UpdateCurrentTime(taken, [awake EXCEPT !.cached = cache.blocks], dial.now)
  IN /\ dial.posted
     /\ IF dial.stopped \/ ~HasSnapshot(cache) THEN dial' = awake /\ UNCHANGED cache
        ELSE /\ cache' = updated.cache
             /\ dial' = [updated.dial EXCEPT !.shown = Visible(updated.dial.cached, updated.dial.period)]
     /\ UNCHANGED <<chain, notices, loader>>

StopDial ==
  /\ ~dial.stopped
  /\ dial' = [dial EXCEPT !.stopped = TRUE]
  /\ cache' = [cache EXCEPT !.attached = FALSE]
  /\ UNCHANGED <<chain, notices, loader>>

ClockNext ==
  \/ \E b \in Blocks : ConnectBlock(b)
  \/ \E now \in 0..MaxTime : Tick(now)
  \/ DisconnectTip \/ Notify \/ Register \/ ReadBestBlock \/ Install \/ Unsubscribe \/ RefreshHistory \/ StopDial

----------------------------------------------------------------------------
(* Properties *)

\* When nothing is under way the dial shows the active chain's blocks of its
\* period, each one once, whatever reorganizations, clock changes and late
\* notifications came while the first snapshot was read.
DialShowsActiveChain ==
  loader.pc = "subscribed" /\ notices = << >> /\ ~dial.posted /\ ~dial.stopped =>
    dial.shown = Visible(Active, dial.period)
=============================================================================
