------------------------------ MODULE NodeSync ------------------------------
(***************************************************************************)
(* Block and header tips on their way to the synchronization display       *)
(* (qml/models/nodemodel.cpp).  Notifications overwrite one another in a   *)
(* mailbox that one queued event empties; the result of initialize brings  *)
(* tips that may be older than the notifications handled before it.        *)
(***************************************************************************)
EXTENDS Integers

CONSTANTS MaxHeight, \* bound on the chain
          Delta      \* HEADER_HEIGHT_DELTA_SYNC

VARIABLES chain,    \* the node: [tip, header, block, ibd]; tip is the network's height
          init,     \* "none", "loaded", "read" or "done": progress of initialize
          result,   \* {} or {what initialize read: [block, header, ibd]}
          mailbox,  \* [block, header, queued]: each {} or {the newest notification}
          display,  \* what the GUI shows
          stopping

syncVars == <<chain, init, result, mailbox, display, stopping>>

EstimateHeadersLeft(height) == chain.tip - height

Init ==
  /\ \E tip \in 1..MaxHeight, height \in 0..MaxHeight :
       /\ height <= tip
       /\ chain = [tip |-> tip, header |-> height, block |-> height, ibd |-> tip - height > Delta]
  /\ init = "none" /\ result = {}
  /\ mailbox = [block |-> {}, header |-> {}, queued |-> FALSE]
  /\ display = [block |-> 0, header |-> 0, blockActive |-> FALSE, headerActive |-> FALSE, presync |-> FALSE,
                ready |-> FALSE, complete |-> FALSE, seenBlock |-> FALSE, seenHeader |-> FALSE]
  /\ stopping = FALSE

----------------------------------------------------------------------------
(* The node's threads *)

Schedule(box) == [box EXCEPT !.queued = @ \/ ~stopping]
NotifyBlockTip(height, ibd) ==
  mailbox' = Schedule([mailbox EXCEPT !.block = {[height |-> height, ibd |-> ibd]}])
NotifyHeaderTip(height, presync) ==
  mailbox' = Schedule([mailbox EXCEPT !.header = {[height |-> height, presync |-> presync]}])

\* LoadChainTip reports an initial download whatever the state.
LoadChainTip ==
  /\ init = "none"
  /\ init' = "loaded"
  /\ NotifyBlockTip(chain.block, TRUE)
  /\ UNCHANGED <<chain, result, display, stopping>>

\* Headers are downloaded twice: the first pass is presync.
Presync(height) ==
  /\ init # "none" /\ chain.header < height /\ height <= chain.tip /\ chain.tip - chain.header > Delta
  /\ NotifyHeaderTip(height, TRUE)
  /\ UNCHANGED <<chain, init, result, display, stopping>>

AcceptHeader ==
  /\ init # "none" /\ chain.header < chain.tip
  /\ chain' = [chain EXCEPT !.header = @ + 1]
  /\ NotifyHeaderTip(chain.header + 1, FALSE)
  /\ UNCHANGED <<init, result, display, stopping>>

ConnectBlock ==
  /\ init # "none" /\ chain.block < chain.header
  /\ LET ibd == chain.ibd /\ chain.tip - (chain.block + 1) > Delta
     IN /\ chain' = [chain EXCEPT !.block = @ + 1, !.ibd = ibd]
        /\ NotifyBlockTip(chain.block + 1, ibd)
  /\ UNCHANGED <<init, result, display, stopping>>

NetworkMinesBlocks ==
  /\ chain.tip < MaxHeight
  /\ \E tip \in (chain.tip + 1)..MaxHeight : chain' = [chain EXCEPT !.tip = tip]
  /\ UNCHANGED <<init, result, mailbox, display, stopping>>

\* The executor reads the tips after AppInitMain; the GUI handles them later.
InitializeEnd ==
  /\ init = "loaded"
  /\ init' = "read"
  /\ result' = {[block |-> chain.block, header |-> chain.header, ibd |-> chain.ibd]}
  /\ UNCHANGED <<chain, mailbox, display, stopping>>

----------------------------------------------------------------------------
(* The GUI thread *)

UpdateSyncCompletion(d) ==
  IF d.complete THEN [d EXCEPT !.complete = d.header - d.block <= Delta]
  ELSE [d EXCEPT !.complete = /\ d.ready /\ ~d.blockActive /\ ~d.headerActive /\ ~d.presync
                              /\ d.block >= d.header]

SetHeaderSyncState(d, height, presync) ==
  [d EXCEPT !.header = height, !.presync = presync,
            !.headerActive = height > 0 /\ EstimateHeadersLeft(height) > Delta]

\* The mailbox is emptied as a whole, so both heights are of one moment.
Published(d) ==
  LET withHeader == IF mailbox.header = {} THEN d
                    ELSE LET n == CHOOSE m \in mailbox.header : TRUE
                         IN [SetHeaderSyncState(d, n.height, n.presync) EXCEPT !.seenHeader = TRUE]
  IN IF mailbox.block = {} THEN withHeader
     ELSE LET n == CHOOSE m \in mailbox.block : TRUE
          IN [withHeader EXCEPT !.seenBlock = TRUE, !.block = n.height, !.blockActive = n.ibd]

PublishNotifications ==
  /\ mailbox.queued
  /\ IF stopping THEN mailbox' = [mailbox EXCEPT !.queued = FALSE] /\ UNCHANGED display
     ELSE /\ mailbox' = [block |-> {}, header |-> {}, queued |-> FALSE]
          /\ display' = UpdateSyncCompletion(Published(display))
  /\ UNCHANGED <<chain, init, result, stopping>>

ResultWithoutCheck(d, r) ==
  [SetHeaderSyncState(d, r.header, FALSE) EXCEPT !.block = r.block, !.blockActive = r.ibd]
\* Tips of the result count only where no notification was seen.
ApplyResult(d, r) ==
  LET withBlock == IF d.seenBlock THEN d ELSE [d EXCEPT !.block = r.block, !.blockActive = r.ibd]
      cleared == [withBlock EXCEPT !.blockActive = @ /\ r.ibd]
  IN IF d.seenHeader THEN cleared ELSE SetHeaderSyncState(cleared, r.header, FALSE)

InitializeResult ==
  /\ init = "read" /\ ~stopping
  /\ init' = "done"
  /\ mailbox' = [mailbox EXCEPT !.block = {}, !.header = {}]
  /\ display' = LET r == CHOOSE x \in result : TRUE
                IN UpdateSyncCompletion([ApplyResult(Published(display), r) EXCEPT !.ready = TRUE])
  /\ UNCHANGED <<chain, result, stopping>>

BeginShutdown ==
  /\ ~stopping
  /\ stopping' = TRUE
  /\ display' = UpdateSyncCompletion([display EXCEPT !.ready = FALSE])
  /\ UNCHANGED <<chain, init, result, mailbox>>

SyncNext ==
  \/ LoadChainTip \/ AcceptHeader \/ ConnectBlock \/ NetworkMinesBlocks \/ InitializeEnd
  \/ \E height \in 1..MaxHeight : Presync(height)
  \/ PublishNotifications \/ InitializeResult \/ BeginShutdown

----------------------------------------------------------------------------
(* Properties *)

\* Once the events are handled, the heights shown are the node's: the result
\* of initialize does not bring back tips older than a handled notification.
ShownTipIsCurrent ==
  init = "done" /\ ~stopping /\ ~mailbox.queued =>
    /\ display.block = chain.block
    /\ display.presync \/ display.header = chain.header

\* The start page is left only when the chain reached the best header, and a
\* start that is caught up does not stay in the synchronization page although
\* the node reports an initial download while it loads the chain.
SyncCompletionIsRight ==
  init = "done" /\ ~stopping /\ ~mailbox.queued =>
    /\ display.complete => chain.header - chain.block <= Delta
    /\ chain.block = chain.tip /\ chain.header = chain.tip /\ ~chain.ibd /\ ~display.presync /\ ~display.headerActive
         => display.complete

\* The synchronization display follows the node, its completion included.
SyncIsCurrent == ShownTipIsCurrent /\ SyncCompletionIsRight
=============================================================================
