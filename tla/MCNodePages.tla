---------------------------- MODULE MCNodePages ----------------------------
(***************************************************************************)
(* The pages about the node, and the settings a start finds, for TLC.      *)
(* They share no state: a behaviour of this module is a behaviour of one   *)
(* of them, named by part, and the variables are that page's.              *)
(***************************************************************************)
EXTENDS Integers, Sequences

CONSTANTS MaxHeight, Delta,                                          \* NodeSync
          MaxChanges, MaxQueue,                                      \* MempoolPolling
          MaxLogBytes, MaxEpoch, MaxLine, Block, MaxDelta, LoadStep, MaxLimit, \* DebugLog
          MaxChars,                                                  \* RpcParser
          Commands, Wallets, HistoryMax, MaxRows, MaxSubmits,        \* RpcConsole
          Customs, Values, MaxStarts,                                \* StartupSettings
          Blocks, Period, MaxTime, MaxReorgs,                        \* BlockClock
          MaxSamples, Windows, DefaultWindow, Span, MaxTrafficBytes, MaxCommands, MaxPublished, \* Traffic
          MaxPeers, MaxRefreshes,                                    \* Peers
          DialAngles, SegmentAngles, Gap, MaxSegments                \* ClockDial

ASSUME HeightsAssumption == MaxHeight \in Nat /\ Delta \in Nat
ASSUME RowsAssumption == MaxRows \in Nat
ASSUME AnglesAssumption == DialAngles \in Nat
\* A directory or value is none of the words that say there is none.
ASSUME ChoicesAssumption ==
  /\ Customs \cap {"default dir", "unset", "none", "plain", "choose", "reset"} = {}
  /\ Values \cap {"unset", "none", "untouched"} = {}
ASSUME PeriodAssumption == Period \in Nat \ {0}
\* A tree of blocks with one genesis block, numbered from parents to children.
ASSUME BlocksAssumption ==
  /\ \A b \in Blocks : b.id \in Nat /\ b.parent \in Nat /\ b.parent < b.id /\ b.time \in Int
  /\ \A b, c \in Blocks : b.id = c.id \/ (b.parent = 0 /\ c.parent = 0) => b = c
  /\ \A b \in Blocks : b.parent # 0 => \E p \in Blocks : p.id = b.parent
  /\ \E b \in Blocks : b.parent = 0

\* Each page uses as many of the variables as it has.
VARIABLES part, v1, v2, v3, v4, v5, v6, v7, v8, v9, v10

vars == <<part, v1, v2, v3, v4, v5, v6, v7, v8, v9, v10>>

\* A chain of three blocks, the third older than its parent, and a fork.
MCBlocks == {[id |-> 1, parent |-> 0, time |-> 0], [id |-> 2, parent |-> 1, time |-> 2],
             [id |-> 3, parent |-> 2, time |-> 1], [id |-> 4, parent |-> 1, time |-> 3]}

Sync == INSTANCE NodeSync WITH
         chain <- v1, init <- v2, result <- v3, mailbox <- v4, display <- v5, stopping <- v6
Mempool == INSTANCE MempoolPolling WITH
         mempool <- v1, polling <- v2, queries <- v3, worker <- v4, arriving <- v5, shown <- v6, phase <- v7
Log == INSTANCE DebugLog WITH
         MaxBytes <- MaxLogBytes, file <- v1, watch <- v2, changed <- v3, debounce <- v4, log <- v5,
         all <- v6, display <- v7, view <- v8, read <- v9, again <- v10
Parser == INSTANCE RpcParser WITH
         line <- v1
Console == INSTANCE RpcConsole WITH
         text <- v1, output <- v2, history <- v3, browse <- v4, console <- v5, worker <- v6
Settings == INSTANCE StartupSettings WITH
         disk <- v1, program <- v2, owed <- v3, settled <- v4
Clock == INSTANCE BlockClock WITH
         chain <- v1, notices <- v2, cache <- v3, loader <- v4, dial <- v5
Network == INSTANCE Traffic WITH
         MaxBytes <- MaxTrafficBytes, tower <- v1, inbox <- v2, sampler <- v3, arrivals <- v4
PeerPages == INSTANCE Peers WITH
         connections <- v1, peerList <- v2, details <- v3, leaving <- v4
\* The dial with its timers, and with many blocks on it.
Dial == INSTANCE ClockDial WITH
         Full <- DialAngles, MaxSegments <- 1, item <- v1, motion <- v2, image <- v3
Segments == INSTANCE ClockDial WITH
         Full <- SegmentAngles, item <- v1, motion <- v2, image <- v3

Init ==
  \/ part = "sync" /\ Sync!Init /\ v7 = 0 /\ v8 = 0 /\ v9 = 0 /\ v10 = 0
  \/ part = "mempool" /\ Mempool!Init /\ v8 = 0 /\ v9 = 0 /\ v10 = 0
  \/ part = "log" /\ Log!Init
  \/ /\ v7 = 0 /\ v8 = 0 /\ v9 = 0 /\ v10 = 0
     /\ \/ part = "console" /\ Console!Init
        \/ /\ v6 = 0
           /\ \/ part = "clock" /\ Clock!Init
              \/ /\ v5 = 0
                 /\ \/ part = "settings" /\ Settings!Init
                    \/ part = "traffic" /\ Network!TrafficInit
                    \/ part = "peers" /\ PeerPages!PeersInit
                    \/ part = "dial" /\ Dial!DialInit /\ v4 = 0
                    \/ part = "segments" /\ Segments!DialInit /\ v4 = 0
                    \/ part = "parser" /\ Parser!Init /\ v2 = 0 /\ v3 = 0 /\ v4 = 0

SyncStep == part = "sync" /\ Sync!SyncNext /\ UNCHANGED <<part, v7, v8, v9, v10>>
MempoolStep == part = "mempool" /\ Mempool!PollNext /\ UNCHANGED <<part, v8, v9, v10>>
LogStep == part = "log" /\ Log!LogNext /\ UNCHANGED part
ParserStep == part = "parser" /\ Parser!ParserNext /\ UNCHANGED <<part, v2, v3, v4, v5, v6, v7, v8, v9, v10>>
ConsoleStep == part = "console" /\ Console!ConsoleNext /\ UNCHANGED <<part, v7, v8, v9, v10>>
SettingsStep == part = "settings" /\ Settings!StartupNext /\ UNCHANGED <<part, v5, v6, v7, v8, v9, v10>>
ClockStep == part = "clock" /\ Clock!ClockNext /\ UNCHANGED <<part, v6, v7, v8, v9, v10>>
TrafficStep == part = "traffic" /\ Network!TrafficNext /\ UNCHANGED <<part, v5, v6, v7, v8, v9, v10>>
PeersStep == part = "peers" /\ PeerPages!PeersNext /\ UNCHANGED <<part, v5, v6, v7, v8, v9, v10>>
DialStep == part = "dial" /\ Dial!DialNext /\ UNCHANGED <<part, v4, v5, v6, v7, v8, v9, v10>>
SegmentsStep == part = "segments" /\ Segments!SegmentsNext /\ UNCHANGED <<part, v4, v5, v6, v7, v8, v9, v10>>

Next ==
  \/ SyncStep \/ MempoolStep \/ LogStep \/ ParserStep \/ ConsoleStep \/ SettingsStep
  \/ ClockStep \/ TrafficStep \/ PeersStep \/ DialStep \/ SegmentsStep

Spec == Init /\ [][Next]_vars

----------------------------------------------------------------------------
(* Properties *)

\* The chain shown is the node's or a notification is on its way (NodeModel).
SyncIsCurrent == part = "sync" => Sync!SyncIsCurrent
\* The mempool is polled exactly while a page asks for it (setMempoolInfoPollingActive).
TimerFollowsPolling == part = "mempool" => Mempool!TimerFollowsPolling
\* The debug log's page shows the file's lines (DebugLogModel).
LogIsCurrent == part = "log" => Log!LogIsCurrent
\* No argument of a sensitive command is kept (RPCParseCommandLine).
SecretsAreHidden == part = "parser" => Parser!SecretsAreHidden
\* The console runs one command at a time and shows its result (RpcConsoleModel).
ConsoleIsSerial == part = "console" => Console!ConsoleIsSerial
\* Choices made in one start hold in the next (onboarding_settings, core_settings).
ChoicesSurviveRestarts == part = "settings" => Settings!ChoicesSurviveRestarts
\* The clock's dial shows the blocks of the active chain (BlockClockHistory).
DialShowsActiveChain == part = "clock" => Clock!DialShowsActiveChain
\* The traffic shown is the newest sample's (NetworkTrafficTower).
TrafficIsCurrent == part = "traffic" => Network!TrafficIsCurrent
\* A page of details shows its own peer (PeerDetailsModel).
DetailsFollowPeer == part = "peers" => PeerPages!DetailsFollowPeer
\* The dial animates and repaints while it is seen (BlockClockDial).
DialIsAlive == part = "dial" => Dial!DialIsAlive
\* The dial has as many segments as the period has blocks (BlockClockDial).
SegmentsCountBlocks == part = "segments" => Segments!SegmentsCountBlocks
=============================================================================
