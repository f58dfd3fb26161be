------------------------------ MODULE Traffic ------------------------------
(***************************************************************************)
(* The network traffic graph (qml/models/networktraffictower.cpp).  A      *)
(* worker thread samples the node's byte counter on a timer and keeps the  *)
(* rates; while the page is active it also keeps their moving averages and *)
(* posts snapshots of them to the GUI, whose commands reach the worker     *)
(* through its event queue.  Received and sent bytes are handled alike:    *)
(* one counter stands for both.                                            *)
(***************************************************************************)
EXTENDS Integers, Sequences, SequencesExt, FiniteSetsExt

CONSTANTS MaxSamples,   \* MAX_SAMPLES
          Windows,      \* filter window sizes the page asks for
          DefaultWindow,\* DEFAULT_FILTER_WINDOW_SIZE
          Span,         \* windows that are visible (10 in the code)
          MaxBytes,     \* bound on the node's counter
          MaxCommands,  \* bound on commands of the page
          MaxPublished  \* bound on snapshots in flight

VARIABLES tower,    \* GUI: [active, generation, started, stopping, drained, shown, commands]
          inbox,    \* commands queued for the worker
          sampler,  \* NetworkTrafficWorker
          arrivals  \* snapshots queued for the GUI

trafficVars == <<tower, inbox, sampler, arrivals>>

Least(a, b) == IF a < b THEN a ELSE b
Added(rates) == FoldSeq(LAMBDA x, y : x + y, 0, rates)
\* An average is kept as the fraction the code divides out.
Average(rates) == [sum |-> Added(rates), count |-> Len(rates)]
Greater(a, b) == a.sum * b.count > b.sum * a.count
NoRate == [sum |-> 0, count |-> 1]

TrafficInit ==
  /\ tower = [active |-> FALSE, generation |-> 0, started |-> FALSE, stopping |-> FALSE, drained |-> FALSE,
              shown |-> [list |-> << >>, highest |-> NoRate, total |-> 0], commands |-> 0]
  /\ inbox = << >>
  /\ sampler = [active |-> FALSE, generation |-> 0, baseline |-> FALSE, valid |-> FALSE, previous |-> 0,
                window |-> DefaultWindow, rates |-> << >>, smoothed |-> << >>, highest |-> NoRate,
                timer |-> FALSE, running |-> TRUE]
  /\ arrivals = << >>

----------------------------------------------------------------------------
(* The moving average *)

\* currentMovingAverage: of the newest samples.
CurrentMovingAverage(rates, window) == Average(SubSeq(rates, 1, Least(Len(rates), window)))

\* calculateSmoothedHistory: a sliding sum, newest sample first.
SlidingSum(rates, window) ==
  LET size == Least(Len(rates), window)
      sums[i \in 1..Len(rates)] ==
        IF i = 1 THEN Added(SubSeq(rates, 1, size))
        ELSE sums[i - 1] - rates[i - 1] + (IF i + size - 1 <= Len(rates) THEN rates[i + size - 1] ELSE 0)
  IN sums
CalculateSmoothedHistory(rates, window) ==
  LET size == Least(Len(rates), window)
      sums == SlidingSum(rates, window)
  IN [i \in 1..Len(rates) |-> [sum |-> sums[i], count |-> Least(size, Len(rates) - i + 1)]]

VisibleHistory(smoothed, window) == SubSeq(smoothed, 1, Least(Len(smoothed), window * Span))
CalculateMaxRate(smoothed, window) ==
  FoldSeq(LAMBDA a, highest : IF Greater(a, highest) THEN a ELSE highest, NoRate, VisibleHistory(smoothed, window))

EnsureSmoothedHistory(w) ==
  LET smoothed == CalculateSmoothedHistory(w.rates, w.window)
  IN IF w.valid THEN w
     ELSE [w EXCEPT !.smoothed = smoothed, !.highest = CalculateMaxRate(smoothed, w.window), !.valid = TRUE]

AppendSmoothedSample(w) ==
  LET longer == <<CurrentMovingAverage(w.rates, w.window)>> \o w.smoothed
      smoothed == SubSeq(longer, 1, Least(Len(longer), Len(w.rates)))
  IN [w EXCEPT !.smoothed = smoothed, !.highest = CalculateMaxRate(smoothed, w.window)]

\* publishSnapshot
Publish(w) ==
  IF ~w.active THEN arrivals
  ELSE Append(arrivals, [generation |-> w.generation,
                         data |-> [list |-> VisibleHistory(w.smoothed, w.window), highest |-> w.highest, total |-> w.previous]])

----------------------------------------------------------------------------
(* The worker *)

RateDelta(current, previous) == IF current >= previous THEN current - previous ELSE 0

Sampled(w, total) ==
  LET rates == SubSeq(<<RateDelta(total, w.previous)>> \o w.rates, 1, Least(Len(w.rates) + 1, MaxSamples))
      longer == [w EXCEPT !.rates = rates, !.previous = total]
  IN CASE ~w.baseline -> [w EXCEPT !.baseline = TRUE, !.previous = total]
       [] w.baseline /\ ~w.active -> [longer EXCEPT !.valid = FALSE]
       [] w.baseline /\ w.active /\ w.valid -> AppendSmoothedSample(longer)
       [] OTHER -> EnsureSmoothedHistory(longer)

\* The timer fires.
Sample(total) ==
  /\ sampler.timer /\ Len(arrivals) < MaxPublished
  /\ sampler' = Sampled(sampler, total)
  /\ arrivals' = Publish(sampler')
  /\ UNCHANGED <<tower, inbox>>

RunStart(total) ==
  /\ inbox # << >> /\ Head(inbox).kind = "start" /\ Len(arrivals) < MaxPublished
  /\ sampler' = [Sampled(sampler, total) EXCEPT !.timer = TRUE]
  /\ arrivals' = Publish(sampler')
  /\ inbox' = Tail(inbox)
  /\ UNCHANGED tower

ToldActive(w, command) == [w EXCEPT !.active = command.active]
Told(w, command) == [w EXCEPT !.active = command.active, !.generation = command.generation]

\* The derived history is rebuilt when the page becomes active again.
RunSetActive ==
  LET command == Head(inbox)
      told == Told(sampler, command)
  IN /\ inbox # << >> /\ command.kind = "active" /\ Len(arrivals) < MaxPublished
     /\ sampler' = IF command.active THEN EnsureSmoothedHistory(told) ELSE [told EXCEPT !.valid = FALSE]
     /\ arrivals' = Publish(sampler')
     /\ inbox' = Tail(inbox)
     /\ UNCHANGED tower

WindowKeepingHistory(w, size) == [w EXCEPT !.window = size]
FilterWindowSize(w, size) ==
  LET changed == [w EXCEPT !.window = size, !.valid = FALSE]
  IN IF w.active THEN EnsureSmoothedHistory(changed) ELSE changed

RunSetFilterWindowSize ==
  LET command == Head(inbox)
      size == IF command.size > MaxSamples THEN MaxSamples ELSE IF command.size < 1 THEN 1 ELSE command.size
  IN /\ inbox # << >> /\ command.kind = "window" /\ Len(arrivals) < MaxPublished
     /\ IF size = sampler.window THEN UNCHANGED <<sampler, arrivals>>
        ELSE sampler' = FilterWindowSize(sampler, size) /\ arrivals' = Publish(sampler')
     /\ inbox' = Tail(inbox)
     /\ UNCHANGED tower

\* The worker stops its timer and its thread, which JoinThreadAsync then joins.
RunStop ==
  /\ inbox # << >> /\ Head(inbox).kind = "stop"
  /\ sampler' = [sampler EXCEPT !.timer = FALSE, !.running = FALSE]
  /\ inbox' = Tail(inbox)
  /\ UNCHANGED <<tower, arrivals>>

----------------------------------------------------------------------------
(* The GUI *)

StartSampling ==
  /\ ~tower.stopping /\ ~tower.started
  /\ tower' = [tower EXCEPT !.started = TRUE]
  /\ inbox' = Append(inbox, [kind |-> "start"])
  /\ UNCHANGED <<sampler, arrivals>>
SetActive ==
  /\ ~tower.stopping /\ tower.commands < MaxCommands
  /\ tower' = [tower EXCEPT !.active = ~@, !.generation = @ + 1, !.commands = @ + 1]
  /\ inbox' = Append(inbox, [kind |-> "active", active |-> tower'.active, generation |-> tower'.generation])
  /\ UNCHANGED <<sampler, arrivals>>
UpdateFilterWindowSize(size) ==
  /\ ~tower.stopping /\ tower.commands < MaxCommands
  /\ tower' = [tower EXCEPT !.commands = @ + 1]
  /\ inbox' = Append(inbox, [kind |-> "window", size |-> size])
  /\ UNCHANGED <<sampler, arrivals>>

Wanted(snapshot) == tower.active /\ snapshot.generation = tower.generation
ApplySnapshot ==
  /\ arrivals # << >>
  /\ tower' = IF Wanted(Head(arrivals)) THEN [tower EXCEPT !.shown = Head(arrivals).data] ELSE tower
  /\ arrivals' = Tail(arrivals)
  /\ UNCHANGED <<inbox, sampler>>

BeginTrafficShutdown ==
  /\ ~tower.stopping
  /\ tower' = [tower EXCEPT !.stopping = TRUE]
  /\ inbox' = Append(inbox, [kind |-> "stop"])
  /\ UNCHANGED <<sampler, arrivals>>
TrafficDrained ==
  /\ tower.stopping /\ ~sampler.running /\ ~tower.drained
  /\ tower' = [tower EXCEPT !.drained = TRUE]
  /\ UNCHANGED <<inbox, sampler, arrivals>>

TrafficNext ==
  \/ \E total \in 0..MaxBytes : Sample(total) \/ RunStart(total)
  \/ \E size \in Windows : UpdateFilterWindowSize(size)
  \/ RunSetActive \/ RunSetFilterWindowSize \/ RunStop \/ StartSampling \/ SetActive \/ ApplySnapshot
  \/ BeginTrafficShutdown \/ TrafficDrained

----------------------------------------------------------------------------
(* Properties *)

\* The averages kept while the page is active, extended one sample at a time,
\* are the averages of the retained samples, whatever pauses, changes of the
\* filter window and evictions lie between.  Where the window reaches past the
\* oldest retained sample that holds until samples are evicted.
SmoothedIsMovingAverage ==
  sampler.valid =>
    /\ Len(sampler.smoothed) = Len(sampler.rates)
    /\ \A i \in DOMAIN sampler.rates :
         LET last == Least(i + sampler.window - 1, Len(sampler.rates))
         IN (i + sampler.window - 1 <= Len(sampler.rates) \/ Len(sampler.rates) < MaxSamples) =>
              sampler.smoothed[i] = Average(SubSeq(sampler.rates, i, last))

\* An active page at rest shows the worker's newest averages for the window it
\* asked for last: no command or snapshot is lost, overtaken or taken for one of
\* an earlier activation.
ShownTrafficIsCurrent ==
  tower.active /\ inbox = << >> /\ arrivals = << >> =>
    /\ sampler.active /\ sampler.valid
    /\ tower.shown.list = VisibleHistory(sampler.smoothed, sampler.window)
    /\ tower.shown.highest = CalculateMaxRate(sampler.smoothed, sampler.window)
    /\ tower.shown.total = sampler.previous

\* The traffic page follows the worker, and the worker's averages its samples.
TrafficIsCurrent == SmoothedIsMovingAverage /\ ShownTrafficIsCurrent
=============================================================================
