--------------------------- MODULE RuntimeDialogs ---------------------------
(***************************************************************************)
(* Message boxes and questions of the node's threads                       *)
(* (qml/models/nodemodel.cpp).  A thread that needs an answer blocks until *)
(* the GUI thread returns from its call; the GUI waits for the user in a   *)
(* nested event loop, which handles further calls, so loops pile up and    *)
(* return innermost first while dialogs are shown oldest first.            *)
(***************************************************************************)
EXTENDS Integers, Sequences, SequencesExt

CONSTANTS Threads,    \* node threads that call the message box and the question
          InitThread, \* the one that runs AppInitMain
          Styles,     \* the calls they make: [icon, modal, question, texts]
          MaxCalls    \* bound on the calls

VARIABLES calls,    \* the calls so far, each of Styles
          waits,    \* per thread: the call it is blocked in, or 0
          events,   \* the GUI's queue of calls; 0 is initializeResult
          loops,    \* calls whose nested event loop runs, outermost first
          active,   \* {} or {the call whose dialog is shown}
          dialogs,  \* m_runtime_dialog_queue
          answers,  \* answered calls with their answers
          startup   \* [init, enabled, failureShown, warnings, errors, error, shutdown]

dialogVars == <<calls, waits, events, loops, active, dialogs, answers, startup>>

Blocking(call) == call.modal \/ call.question

Init ==
  /\ calls = << >> /\ waits = [t \in Threads |-> 0] /\ events = << >> /\ loops = << >>
  /\ active = {} /\ dialogs = << >> /\ answers = << >>
  /\ startup = [init |-> "running", enabled |-> FALSE, failureShown |-> FALSE, warnings |-> {}, errors |-> {},
                error |-> {}, shutdown |-> FALSE]

----------------------------------------------------------------------------
(* The node's threads *)

\* showRuntimeMessageBox and showRuntimeQuestion off the GUI thread.
CallFromThread(t, call) ==
  /\ waits[t] = 0 /\ Len(calls) < MaxCalls
  /\ t = InitThread => startup.init = "running"
  /\ calls' = Append(calls, call)
  /\ events' = Append(events, Len(calls) + 1)
  /\ waits' = [waits EXCEPT ![t] = IF Blocking(call) THEN Len(calls) + 1 ELSE 0]
  /\ UNCHANGED <<loops, active, dialogs, answers, startup>>

InitializeEnds(success) ==
  /\ startup.init = "running" /\ waits[InitThread] = 0
  /\ startup' = [startup EXCEPT !.init = IF success THEN "ok" ELSE "failed"]
  /\ events' = Append(events, 0)
  /\ UNCHANGED <<calls, waits, loops, active, dialogs, answers>>

----------------------------------------------------------------------------
(* The GUI thread *)

\* The early part of showRuntimeDialogOnGuiThread: until initialization ends,
\* warnings and non-modal messages are kept for later instead of shown.
Recorded(call) == ~startup.enabled /\ ~call.question /\ (call.icon = "warning" \/ ~call.modal)
Record(call) ==
  startup' = CASE call.icon = "warning" -> [startup EXCEPT !.warnings = @ \cup call.texts]
               [] call.icon = "error"   -> [startup EXCEPT !.errors = @ \cup call.texts]
               [] OTHER                 -> startup

\* The answer of a nested loop goes to the thread that blocks in the call.
Release(i) == waits' = [t \in Threads |-> IF waits[t] = i THEN 0 ELSE waits[t]]

ShowRequest(i) ==
  IF active = {} THEN active' = {i} /\ UNCHANGED dialogs
  ELSE dialogs' = Append(dialogs, i) /\ UNCHANGED active

ShowRuntimeDialogOnGuiThread(i) ==
  LET call == calls[i]
  IN IF startup.shutdown THEN Release(i) /\ UNCHANGED <<loops, active, dialogs, startup>>
     ELSE IF Recorded(call) THEN Release(i) /\ Record(call) /\ UNCHANGED <<loops, active, dialogs>>
     ELSE /\ ShowRequest(i)
          /\ loops' = IF Blocking(call) THEN Append(loops, i) ELSE loops
          /\ startup' = [startup EXCEPT !.failureShown =
                           @ \/ (~startup.enabled /\ (call.question \/ call.icon = "error"))]
          /\ UNCHANGED waits

HandleCall ==
  /\ events # << >> /\ Head(events) # 0
  /\ events' = Tail(events)
  /\ ShowRuntimeDialogOnGuiThread(Head(events))
  /\ UNCHANGED <<calls, answers>>

\* An answer is what the nested loop of a call reads when it returns.
Answer(ids, ok) == answers' = [i \in ids \cup DOMAIN answers |-> IF i \in ids THEN ok ELSE answers[i]]

\* answerRuntimeDialog: the oldest waiting dialog takes the place of the answered one.
NextDialogDropped == active' = {} /\ UNCHANGED dialogs
NextDialog ==
  /\ active' = IF dialogs = << >> THEN {} ELSE {Head(dialogs)}
  /\ dialogs' = IF dialogs = << >> THEN << >> ELSE Tail(dialogs)

AnswerRuntimeDialog(ok) ==
  /\ active # {} /\ Answer(active, ok)
  /\ NextDialog
  /\ UNCHANGED <<calls, waits, events, loops, startup>>

\* Only the innermost loop can return, once its own dialog is answered.
LoopReturns ==
  /\ loops # << >> /\ Last(loops) \in DOMAIN answers
  /\ loops' = Front(loops)
  /\ Release(Last(loops))
  /\ UNCHANGED <<calls, events, active, dialogs, answers, startup>>

\* Every dialog, shown or waiting, is answered with Cancel.
CancelShownOnly == Answer(active, FALSE) /\ active' = {} /\ UNCHANGED dialogs
CancelDialogs == Answer(active \cup ToSet(dialogs), FALSE) /\ active' = {} /\ dialogs' = << >>

RequestShutdown ==
  /\ ~startup.shutdown
  /\ startup' = [startup EXCEPT !.shutdown = TRUE]
  /\ CancelDialogs
  /\ UNCHANGED <<calls, waits, events, loops>>

\* showStartupWarnings: the kept warnings become one dialog that does not block.
ForgetStartupWarnings == UNCHANGED <<calls, active, dialogs>>
ShowStartupWarnings ==
  IF startup.warnings = {} THEN UNCHANGED <<calls, active, dialogs>>
  ELSE /\ calls' = Append(calls, [texts |-> startup.warnings, icon |-> "warning", modal |-> FALSE, question |-> FALSE])
       /\ ShowRequest(Len(calls) + 1)

InitializeResult ==
  /\ events # << >> /\ Head(events) = 0
  /\ events' = Tail(events)
  /\ \/ /\ startup.shutdown
        /\ UNCHANGED <<calls, active, dialogs, answers, startup>>
     \/ /\ ~startup.shutdown /\ startup.init = "ok"
        /\ startup' = [startup EXCEPT !.errors = {}, !.enabled = TRUE, !.warnings = {}]
        /\ ShowStartupWarnings
        /\ UNCHANGED answers
     \/ /\ ~startup.shutdown /\ startup.init = "failed" /\ startup.failureShown
        /\ startup' = [startup EXCEPT !.shutdown = TRUE]
        /\ CancelDialogs
        /\ UNCHANGED calls
     \/ /\ ~startup.shutdown /\ startup.init = "failed" /\ ~startup.failureShown
        /\ startup' = [startup EXCEPT !.warnings = {}, !.error = startup.errors \cup startup.warnings]
        /\ UNCHANGED <<calls, active, dialogs, answers>>
  /\ UNCHANGED <<waits, loops>>

DialogNext ==
  \/ \E t \in Threads, call \in Styles : CallFromThread(t, call)
  \/ \E success \in BOOLEAN : InitializeEnds(success)
  \/ HandleCall \/ LoopReturns \/ RequestShutdown \/ InitializeResult
  \/ \E ok \in BOOLEAN : AnswerRuntimeDialog(ok)

----------------------------------------------------------------------------
(* Properties *)

\* A blocked thread's call is in exactly one place that will release it: in
\* the GUI's queue, or in a nested loop whose dialog is shown, waits its turn
\* or is answered (m_runtime_dialog_active, m_runtime_dialog_queue, answered).
NoCallIsForgotten ==
  /\ \A t \in Threads : waits[t] # 0 => (waits[t] \in ToSet(events)) # (waits[t] \in ToSet(loops))
  /\ \A k \in DOMAIN loops : loops[k] \in active \cup ToSet(dialogs) \cup DOMAIN answers
  /\ active = {} => dialogs = << >>

\* A warning raised while the node starts is not lost: it waits for the end of
\* the initialization, is in a dialog, or is part of the startup error.
StartupWarningIsNotLost ==
  startup.shutdown \/
  \A i \in DOMAIN calls : calls[i].icon = "warning" /\ i \notin ToSet(events) =>
     calls[i].texts \subseteq startup.warnings \cup startup.error
       \cup UNION {calls[k].texts : k \in active \cup ToSet(dialogs) \cup DOMAIN answers}

\* No message box or question of the node's threads is lost in the queue of
\* dialogs, by initialization's end or by shutdown.
DialogsAreKept == NoCallIsForgotten /\ StartupWarningIsNotLost
=============================================================================
