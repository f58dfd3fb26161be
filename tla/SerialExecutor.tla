--------------------------- MODULE SerialExecutor ---------------------------
(***************************************************************************)
(* What the models of the GUI rely on when they hand work to a             *)
(* BackendExecutor: tasks are numbered as they are accepted and run one    *)
(* after the other; callbacks come in the same order, after their task,    *)
(* and never once the executor was told to stop; and a stopping executor   *)
(* drains only when every accepted task has run.  Threads, event queues    *)
(* and joins do not appear here.                                           *)
(***************************************************************************)
EXTENDS Integers

CONSTANT Executors

VARIABLES phase,     \* "unborn", "open", "stopping" or "drained"
          accepted,  \* how many tasks submit() accepted
          completed, \* how many of them have run
          notified   \* the last task whose callback was invoked, or 0

vars == <<phase, accepted, completed, notified>>

Init ==
  /\ phase = [e \in Executors |-> "unborn"]
  /\ accepted = [e \in Executors |-> 0]
  /\ completed = [e \in Executors |-> 0]
  /\ notified = [e \in Executors |-> 0]

Open(e) ==
  /\ phase[e] = "unborn"
  /\ phase' = [phase EXCEPT ![e] = "open"]
  /\ UNCHANGED <<accepted, completed, notified>>

Accept(e) ==
  /\ phase[e] = "open"
  /\ accepted' = [accepted EXCEPT ![e] = @ + 1]
  /\ UNCHANGED <<phase, completed, notified>>

Run(e) ==
  /\ phase[e] \in {"open", "stopping"}
  /\ completed[e] < accepted[e]
  /\ completed' = [completed EXCEPT ![e] = @ + 1]
  /\ UNCHANGED <<phase, accepted, notified>>

Notify(e, id) ==
  /\ phase[e] = "open"
  /\ notified[e] < id /\ id <= completed[e]
  /\ notified' = [notified EXCEPT ![e] = id]
  /\ UNCHANGED <<phase, accepted, completed>>

\* Executors that are still open are told to stop, one or all at once.
Stop(es) ==
  /\ \A e \in es : phase[e] = "open"
  /\ phase' = [e \in Executors |-> IF e \in es THEN "stopping" ELSE phase[e]]
  /\ UNCHANGED <<accepted, completed, notified>>

Drain(e) ==
  /\ phase[e] = "stopping"
  /\ completed[e] = accepted[e]
  /\ phase' = [phase EXCEPT ![e] = "drained"]
  /\ UNCHANGED <<accepted, completed, notified>>

Next ==
  \/ \E e \in Executors : Open(e) \/ Accept(e) \/ Run(e) \/ Drain(e)
  \/ \E e \in Executors : \E id \in 1..completed[e] : Notify(e, id)
  \/ \E es \in SUBSET Executors : Stop(es)

Spec == Init /\ [][Next]_vars
=============================================================================
