--------------------------- MODULE MempoolPolling ---------------------------
(***************************************************************************)
(* The mempool figures of the node page (qml/models/nodemodel.cpp): a      *)
(* worker thread owns a timer that the GUI starts and stops by queued      *)
(* events, fetches the figures, and queues them back to the GUI.           *)
(***************************************************************************)
EXTENDS Integers, Sequences

CONSTANTS MaxChanges, \* bound on the changes of the mempool
          MaxQueue    \* bound on the queues: neither thread outruns the other

VARIABLES mempool,  \* the node's figures, as a version
          polling,  \* m_mempool_info_polling_active
          queries,  \* m_backend_queries_ready
          worker,   \* [alive, timer, queue]: the worker thread
          arriving, \* fetched figures queued to the GUI
          shown,
          phase     \* "starting", "up", "requested" (to shut down), "faulted" or "stopping"

pollVars == <<mempool, polling, queries, worker, arriving, shown, phase>>

Init ==
  /\ mempool = 0 /\ shown = 0 /\ arriving = << >>
  /\ polling = FALSE /\ queries = FALSE /\ phase = "starting"
  /\ worker = [alive |-> TRUE, timer |-> FALSE, queue |-> << >>]

Post(w, event) == [w EXCEPT !.queue = Append(@, event)]

MempoolChanges ==
  /\ mempool < MaxChanges
  /\ mempool' = mempool + 1
  /\ UNCHANGED <<polling, queries, worker, arriving, shown, phase>>

\* setMempoolInfoPollingActive and the refresh it asks for when it starts.
PollingSet(w, active) ==
  CASE polling = active \/ ~queries -> w
    [] polling # active /\ queries /\ active -> Post(Post(w, "start"), "fetch")
    [] OTHER -> Post(w, "stop")

SetMempoolInfoPollingActive(active) ==
  /\ phase # "stopping" /\ Len(worker.queue) < MaxQueue
  /\ polling' = active
  /\ worker' = PollingSet(worker, active)
  /\ UNCHANGED <<mempool, queries, arriving, shown, phase>>

RefreshMempoolInfo ==
  /\ queries /\ phase # "stopping" /\ Len(worker.queue) < MaxQueue
  /\ worker' = Post(worker, "fetch")
  /\ UNCHANGED <<mempool, polling, queries, arriving, shown, phase>>

\* initializeResult: the page may have asked for polling before the node was ready.
StartNothing(w) == w
StartIfPolling(w) == IF polling THEN Post(w, "start") ELSE w
InitializeResult ==
  /\ phase = "starting"
  /\ phase' = "up" /\ queries' = TRUE
  /\ worker' = Post(StartIfPolling(worker), "fetch")
  /\ UNCHANGED <<mempool, polling, arriving, shown>>

\* requestShutdown: a later initializeResult only asks again, and figures that
\* arrive are ignored from here on.
RequestShutdown ==
  /\ phase \in {"starting", "up"}
  /\ phase' = "requested"
  /\ UNCHANGED <<mempool, polling, queries, worker, arriving, shown>>

\* handleRunawayException stops the timer before it closes the queries, and
\* sets the same flag as requestShutdown.
HandleRunawayException ==
  /\ phase \in {"starting", "up", "requested"}
  /\ phase' = "faulted" /\ polling' = FALSE /\ queries' = FALSE
  /\ worker' = PollingSet(worker, FALSE)
  /\ UNCHANGED <<mempool, arriving, shown>>

\* The last event stops the timer and the thread.
BeginShutdown ==
  /\ phase # "stopping"
  /\ phase' = "stopping" /\ polling' = FALSE
  /\ worker' = Post(PollingSet(worker, FALSE), "quit")
  /\ UNCHANGED <<mempool, queries, arriving, shown>>

Fetch == arriving' = Append(arriving, mempool)

WorkerEvent ==
  /\ worker.alive /\ worker.queue # << >> /\ Len(arriving) < MaxQueue
  /\ LET event == Head(worker.queue)
         rest  == [worker EXCEPT !.queue = Tail(@)]
     IN CASE event = "start" -> worker' = [rest EXCEPT !.timer = TRUE] /\ UNCHANGED arriving
          [] event = "stop"  -> worker' = [rest EXCEPT !.timer = FALSE] /\ UNCHANGED arriving
          [] event = "fetch" -> worker' = rest /\ Fetch
          [] event = "quit"  -> worker' = [rest EXCEPT !.timer = FALSE, !.alive = FALSE] /\ UNCHANGED arriving
  /\ UNCHANGED <<mempool, polling, queries, shown, phase>>

Timeout ==
  /\ worker.alive /\ worker.timer /\ Len(arriving) < MaxQueue
  /\ Fetch
  /\ UNCHANGED <<mempool, polling, queries, worker, shown, phase>>

ApplyMempoolInfo ==
  /\ arriving # << >>
  /\ arriving' = Tail(arriving)
  /\ shown' = IF phase \in {"starting", "up"} THEN Head(arriving) ELSE shown
  /\ UNCHANGED <<mempool, polling, queries, worker, phase>>

PollNext ==
  \/ MempoolChanges \/ RefreshMempoolInfo \/ InitializeResult
  \/ RequestShutdown \/ HandleRunawayException \/ BeginShutdown
  \/ \E active \in BOOLEAN : SetMempoolInfoPollingActive(active)
  \/ WorkerEvent \/ Timeout \/ ApplyMempoolInfo

----------------------------------------------------------------------------
(* Properties *)

\* The page does not stay out of date while it polls: whenever polling is on
\* and the node is up, either the timer runs or the event that starts it is
\* queued, and once polling is off nothing keeps the timer running.
TimerFollowsPolling ==
  worker.queue = << >> => (worker.timer <=> polling /\ queries)
=============================================================================
