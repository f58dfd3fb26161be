----------------------------- MODULE RpcConsole -----------------------------
(***************************************************************************)
(* The RPC console (qml/models/rpcconsolemodel.cpp) with its input field   *)
(* (qml/pages/node/CommandConsole.qml).  Commands run on a worker thread,  *)
(* one at a time; "stop" runs at once; rows and history are bounded.       *)
(***************************************************************************)
EXTENDS Integers, Sequences, FiniteSets

CONSTANTS Commands,   \* commands that parse
          Wallets,
          HistoryMax, \* HISTORY_MAX
          MaxRows,    \* kMaxRows
          MaxSubmits  \* bound on accepted commands

VARIABLES text,    \* [shown, draft]: the field, and what was typed there last
          output,  \* rows [kind, n]: n numbers the command a row belongs to
          history, \* oldest first
          browse,  \* [idx, saved]: m_history_idx and m_pending_text
          console, \* [executing, stopping, wallet, submits, nodeStops]
          worker   \* [thread, queue, results]

consoleVars == <<text, output, history, browse, console, worker>>

Init ==
  /\ text = [shown |-> "", draft |-> ""] /\ output = << >> /\ history = << >>
  /\ browse = [idx |-> -1, saved |-> ""]
  /\ console = [executing |-> FALSE, stopping |-> FALSE, wallet |-> "none", submits |-> 0, nodeStops |-> FALSE]
  /\ worker = [thread |-> "running", queue |-> << >>, results |-> << >>]

\* appendRow drops the oldest rows.
AppendRows(rows) ==
  LET all == output \o rows
  IN output' = SubSeq(all, Len(all) - (IF Len(all) > MaxRows THEN MaxRows ELSE Len(all)) + 1, Len(all))
NavigationReset == browse' = [idx |-> -1, saved |-> ""]

\* Typing changes the text and so leaves the history.
Type(word) ==
  /\ word # text.shown
  /\ text' = [shown |-> word, draft |-> word]
  /\ NavigationReset
  /\ UNCHANGED <<output, history, console, worker>>

ClearField == text' = [shown |-> "", draft |-> ""]

\* submitCommand: an unbalanced line is answered at once, stop is executed
\* here, and another command is refused while one is executing.
SubmitInvalid ==
  /\ ~console.stopping /\ text.shown = "bad"
  /\ AppendRows(<<[kind |-> "error", n |-> 0]>>)
  /\ ClearField /\ NavigationReset
  /\ UNCHANGED <<history, console, worker>>
SubmitStop ==
  /\ ~console.stopping /\ text.shown = "stop"
  /\ console' = [console EXCEPT !.nodeStops = TRUE]
  /\ ClearField /\ NavigationReset
  /\ UNCHANGED <<output, history, worker>>
AlwaysFree == TRUE
MayExecute == ~console.executing
SubmitCommand(wallet) ==
  /\ ~console.stopping /\ text.shown \in Commands /\ MayExecute /\ console.submits < MaxSubmits
  /\ LET n == console.submits + 1
         repeated == history # << >> /\ history[Len(history)] = text.shown
         longer == IF repeated THEN history ELSE Append(history, text.shown)
     IN /\ history' = IF Len(longer) > HistoryMax THEN Tail(longer) ELSE longer
        /\ AppendRows((IF console.wallet # wallet THEN <<[kind |-> "wallet", n |-> n]>> ELSE << >>)
                      \o <<[kind |-> "request", n |-> n]>>)
        /\ console' = [console EXCEPT !.executing = TRUE, !.wallet = wallet, !.submits = n]
        /\ worker' = [worker EXCEPT !.queue = Append(@, n)]
  /\ ClearField /\ NavigationReset

\* browseHistory: index 0 is the newest entry; below it is the saved text.
Browse(direction) ==
  LET idx == IF browse.idx + direction >= Len(history) THEN Len(history) - 1 ELSE browse.idx + direction
      saved == IF browse.idx = -1 THEN text.shown ELSE browse.saved
  IN /\ history # << >>
     /\ browse' = [idx |-> IF idx < 0 THEN -1 ELSE idx, saved |-> saved]
     /\ text' = [text EXCEPT !.shown = IF idx < 0 THEN saved ELSE history[Len(history) - idx]]
     /\ UNCHANGED <<output, history, console, worker>>
Clear ==
  /\ output # << >>
  /\ output' = << >>
  /\ UNCHANGED <<text, history, browse, console, worker>>

Execute(kind) ==
  /\ worker.thread = "running" /\ worker.queue # << >>
  /\ worker' = [worker EXCEPT !.queue = Tail(@), !.results = Append(@, [kind |-> kind, n |-> Head(worker.queue)])]
  /\ UNCHANGED <<text, output, history, browse, console>>

OnResultReady ==
  /\ worker.results # << >>
  /\ worker' = [worker EXCEPT !.results = Tail(@)]
  /\ IF console.stopping THEN UNCHANGED <<output, console>>
     ELSE AppendRows(<<Head(worker.results)>>) /\ console' = [console EXCEPT !.executing = FALSE]
  /\ UNCHANGED <<text, history, browse>>

BeginShutdown ==
  /\ ~console.stopping
  /\ console' = [console EXCEPT !.stopping = TRUE]
  /\ UNCHANGED <<text, output, history, browse, worker>>

\* The thread quits after the command it executes; the rest of the queue never runs.
ThreadFinishes ==
  /\ console.stopping /\ worker.thread = "running"
  /\ worker' = [worker EXCEPT !.thread = "finished"]
  /\ UNCHANGED <<text, output, history, browse, console>>

ConsoleNext ==
  \/ \E word \in Commands \cup {"bad", "stop"} : Type(word)
  \/ SubmitInvalid \/ SubmitStop \/ Clear \/ OnResultReady \/ BeginShutdown \/ ThreadFinishes
  \/ \E wallet \in Wallets : SubmitCommand(wallet)
  \/ \E direction \in {1, -1} : Browse(direction)
  \/ \E kind \in {"reply", "error"} : Execute(kind)

----------------------------------------------------------------------------
(* Properties *)

Rows(kinds) == {i \in DOMAIN output : output[i].kind \in kinds /\ output[i].n > 0}

\* The button is free exactly when no command is under way, so an answer always
\* stands below its own request and above the next one, and going through the
\* history and back gives the draft that was in the field.
ConsoleIsSerial ==
  /\ ~console.stopping => console.executing = (worker.queue # << >> \/ worker.results # << >>)
  /\ \A i, j \in Rows({"request", "reply", "error"}) : i < j =>
       output[i].n < output[j].n \/ (output[i].n = output[j].n /\ output[i].kind = "request" /\ output[j].kind # "request")
  /\ text.shown = IF browse.idx = -1 THEN text.draft ELSE history[Len(history) - browse.idx]
=============================================================================
