------------------------------ MODULE DebugLog ------------------------------
(***************************************************************************)
(* The debug log viewer (qml/models/debuglogmodel.cpp): a reader thread    *)
(* reads the tail of the file, or only what was appended when the bytes at *)
(* the old end still match; a file watcher with a debounce timer asks for  *)
(* reads; one read is in flight at a time.  The file is modelled byte by   *)
(* byte, because offsets, unfinished lines and block boundaries matter.    *)
(***************************************************************************)
EXTENDS Integers, Sequences, SequencesExt, FiniteSetsExt

CONSTANTS MaxBytes,  \* bound on the bytes written
          MaxEpoch,  \* bound on rotations
          MaxLine,   \* kMaxLogLineBytes
          Block,     \* TAIL_READ_BLOCK_SIZE
          MaxDelta,  \* MAX_DELTA_BYTES
          LoadStep,  \* the first load limit and what loadMore adds to it
          MaxLimit   \* kMaxLoadLimit

VARIABLES file,    \* [exists, epoch, left, text]: text of bytes "x", "w" (a warning) and "n" (newline)
          watch,   \* "none", "file" or "dir": what the watcher watches
          changed, \* a watcher event is on its way
          debounce,
          log,     \* the saved offset: [size, partial, discarding, epoch]; epoch is the anchor
          all,     \* m_all_lines, oldest first
          display, \* m_display_lines
          view,    \* [active, limit, loaded, warnOnly, stopping]
          read,    \* {} or {the read in flight}
          again    \* [refresh, full]: the read to run after the one in flight

logVars == <<file, watch, changed, debounce, log, all, display, view, read, again>>

Newlines(from, to) == {i \in (from + 1)..to : file.text[i] = "n"}

\* ParseCompleteLines: the lines of a region that ends with a newline; empty
\* and oversized ones are left out.
ParseCompleteLines(from, to) ==
  LET start(e) == Max({from} \cup Newlines(from, e - 1)) + 1
      kept == {e \in Newlines(from, to) : e - start(e) \in 1..MaxLine}
      ends == SetToSortSeq(kept, <)
  IN [k \in DOMAIN ends |-> [epoch |-> file.epoch, at |-> start(ends[k]), warn |-> file.text[start(ends[k])] = "w"]]
LastLines(s, n) == IF Len(s) > n THEN SubSeq(s, Len(s) - n + 1, Len(s)) ELSE s

Init ==
  /\ file \in [exists : BOOLEAN, epoch : {0}, left : {MaxBytes}, text : {<< >>}]
  /\ watch = "none" /\ changed = FALSE /\ debounce = FALSE
  /\ log = [size |-> -1, partial |-> 0, discarding |-> FALSE, epoch |-> 0]
  /\ all = << >> /\ display = << >>
  /\ view \in [active : {FALSE}, limit : {LoadStep}, loaded : {0}, warnOnly : {FALSE}, stopping : {FALSE}]
  /\ read = {} /\ again = [refresh |-> FALSE, full |-> FALSE]

----------------------------------------------------------------------------
(* The node writes, and the file may be removed and written anew *)

FileEvent(seen) == changed' = (changed \/ seen)

WriteLog(bytes) ==
  /\ file.exists /\ Len(bytes) <= file.left
  /\ file' = [file EXCEPT !.text = @ \o bytes, !.left = @ - Len(bytes)]
  /\ FileEvent(watch = "file")
  /\ UNCHANGED <<watch, debounce, log, all, display, view, read, again>>

\* The watcher drops a path that is removed.
RemoveLog ==
  /\ file.exists
  /\ file' = [file EXCEPT !.exists = FALSE]
  /\ FileEvent(watch # "none")
  /\ watch' = IF watch = "file" THEN "none" ELSE watch
  /\ UNCHANGED <<debounce, log, all, display, view, read, again>>

CreateLog ==
  /\ ~file.exists /\ file.epoch < MaxEpoch
  /\ file' = [file EXCEPT !.exists = TRUE, !.epoch = @ + 1, !.text = << >>]
  /\ FileEvent(watch = "dir")
  /\ UNCHANGED <<watch, debounce, log, all, display, view, read, again>>

----------------------------------------------------------------------------
(* The reader thread *)

\* ReadTail goes back block by block from the last newline.  data is the bytes
\* start+1..end: a block and the rest of the line it cuts.
TailLines(wanted) ==
  LET bytes == Len(file.text)
      complete == Max({0} \cup Newlines(0, bytes))
      Back[cursor \in 0..bytes, end \in 0..bytes, discarding \in BOOLEAN, need \in 0..wanted] ==
        IF cursor = 0 \/ need = 0 THEN << >>
        ELSE LET start == Max({0, cursor - Block})
                 before == Newlines(start, cursor)
                 data == IF discarding THEN Max(before) ELSE end
                 first == Min(Newlines(start, data))
                 segment == LastLines(ParseCompleteLines(IF start = 0 THEN 0 ELSE first, data), need)
             IN IF discarding /\ before = {} THEN Back[start, start, TRUE, need]
                ELSE Back[start, IF start = 0 THEN 0 ELSE first, start # 0 /\ first - start > MaxLine, need - Len(segment)]
                     \o segment
  IN Back[complete, complete, FALSE, wanted]

ReadTail(limit) ==
  LET bytes == Len(file.text)
      partial == bytes - Max({0} \cup Newlines(0, bytes))
      lines == TailLines(limit + 1)
  IN [opened |-> TRUE, full |-> TRUE, limit |-> limit, size |-> bytes, epoch |-> file.epoch,
      partial |-> IF partial > MaxLine THEN 0 ELSE partial, discarding |-> partial > MaxLine,
      lines |-> LastLines(lines, limit)]

ContinuesBySize(r) == Len(file.text) >= r.size
\* The file has not shrunk and the bytes before the old end are the same.
Continues(r) == Len(file.text) >= r.size /\ (r.size = 0 \/ r.epoch = file.epoch)

ReadAppended(r) ==
  LET bytes == Len(file.text)
      ended == Newlines(r.size, bytes)
      from == IF r.discarding THEN Min(ended) ELSE r.size - r.partial
      complete == Max({from} \cup Newlines(from, bytes))
      rest == bytes - complete
      result == [opened |-> TRUE, full |-> FALSE, limit |-> r.limit, size |-> bytes, epoch |-> file.epoch,
                 partial |-> 0, discarding |-> TRUE, lines |-> << >>]
  IN IF r.discarding /\ ended = {} THEN result
     ELSE [result EXCEPT !.partial = IF rest > MaxLine THEN 0 ELSE rest, !.discarding = rest > MaxLine,
                         !.lines = LastLines(ParseCompleteLines(from, complete), r.limit + 1)]

ReadAndFilter(r) ==
  CASE ~file.exists -> [opened |-> FALSE]
    [] file.exists /\ (r.full \/ r.size < 0) -> ReadTail(r.limit)
    [] OTHER -> IF ~Continues(r) \/ Len(file.text) - r.size + r.partial > MaxDelta THEN ReadTail(r.limit)
                ELSE ReadAppended(r)

ReaderReads ==
  \E r \in read :
    /\ r.result = {}
    /\ read' = {[r EXCEPT !.result = {ReadAndFilter(r)}]}
    /\ UNCHANGED <<file, watch, changed, debounce, log, all, display, view, again>>

----------------------------------------------------------------------------
(* The GUI thread *)

\* refresh, given the state it finds: the reads in flight, the saved offset,
\* the view and what is to run afterwards.
NewRead(full, offset, v) ==
  [full |-> full, limit |-> v.limit, size |-> offset.size, partial |-> offset.partial,
   discarding |-> offset.discarding, epoch |-> offset.epoch, stale |-> FALSE, result |-> {}]
Refresh(full, inFlight, offset, v, later) ==
  CASE ~v.active \/ v.stopping -> read' = inFlight /\ again' = later
    [] v.active /\ ~v.stopping /\ inFlight # {} ->
         read' = inFlight /\ again' = [refresh |-> TRUE, full |-> later.full \/ full]
    [] OTHER -> read' = {NewRead(full, offset, v)} /\ again' = later
WatchLogPath == watch' = IF file.exists THEN "file" ELSE "dir"
NoneLater == [refresh |-> FALSE, full |-> FALSE]

SetActive(active) ==
  /\ view.active # active /\ ~view.stopping
  /\ view' = [view EXCEPT !.active = active]
  /\ LET old == {[r EXCEPT !.stale = TRUE] : r \in read}
     IN IF active
        THEN WatchLogPath /\ Refresh(view.loaded < view.limit, old, log, view', again) /\ UNCHANGED <<changed, debounce>>
        ELSE watch' = "none" /\ debounce' = FALSE /\ read' = old /\ again' = NoneLater /\ UNCHANGED changed
  /\ UNCHANGED <<file, log, all, display>>

\* fileChanged and directoryChanged; the event may outlive the watch.
WatcherEvent ==
  /\ changed
  /\ changed' = FALSE
  /\ IF view.active /\ ~view.stopping THEN WatchLogPath /\ debounce' = TRUE ELSE UNCHANGED <<watch, debounce>>
  /\ UNCHANGED <<file, log, all, display, view, read, again>>

DebounceTimeout ==
  /\ debounce
  /\ debounce' = FALSE
  /\ Refresh(FALSE, read, log, view, again)
  /\ UNCHANGED <<file, watch, changed, log, all, display, view>>

FilteredLines(lines, warnOnly) == SelectSeq(lines, LAMBDA line : line.warn \/ ~warnOnly)

\* The page offers only loadMore; nothing in the program lowers the limit.
LoadMore ==
  /\ view.limit < MaxLimit
  /\ view' = [view EXCEPT !.limit = Min({@ + LoadStep, MaxLimit})]
  /\ Refresh(TRUE, read, log, view', again)
  /\ UNCHANGED <<file, watch, changed, debounce, log, all, display>>

SetWarningsAndErrorsOnly(warnOnly) ==
  /\ view.warnOnly # warnOnly
  /\ view' = [view EXCEPT !.warnOnly = warnOnly]
  /\ display' = FilteredLines(all, warnOnly)
  /\ UNCHANGED <<file, watch, changed, debounce, log, all, read, again>>

\* applyLines and applyDelta: a delta removes old rows and adds new ones.
ApplyLines(lines) ==
  /\ all' = LastLines(lines, view.limit)
  /\ display' = FilteredLines(all', view.warnOnly)
ApplyDelta(lines) ==
  LET new == LastLines(lines, view.limit)
      keep == Min({Len(all), Max({0, view.limit - Len(new)})})
      dropped == FilteredLines(SubSeq(all, 1, Len(all) - keep), view.warnOnly)
  IN /\ all' = SubSeq(all, Len(all) - keep + 1, Len(all)) \o new
     /\ display' = SubSeq(display, Len(dropped) + 1, Len(display)) \o FilteredLines(new, view.warnOnly)

OnReadCompleted(r) ==
  /\ WatchLogPath
  /\ IF ~r.opened
     THEN /\ UNCHANGED <<log, all, display, view>>
          /\ IF again.refresh THEN Refresh(again.full, {}, log, view, NoneLater) ELSE read' = {} /\ again' = again
     ELSE /\ log' = [size |-> r.size, partial |-> r.partial, discarding |-> r.discarding, epoch |-> r.epoch]
          /\ IF r.full THEN ApplyLines(r.lines) ELSE ApplyDelta(r.lines)
          /\ view' = [view EXCEPT !.loaded = IF r.full THEN Min({r.limit, view.limit}) ELSE @]
          /\ LET wider == view'.loaded < view.limit
             IN IF again.refresh \/ wider THEN Refresh(again.full \/ wider, {}, log', view', NoneLater)
                ELSE read' = {} /\ again' = NoneLater

\* A result of an earlier activation is dropped; the read asked for meanwhile runs.
StaleResult ==
  /\ IF view.active /\ again.refresh THEN Refresh(again.full, {}, log, view, NoneLater) ELSE read' = {} /\ again' = again
  /\ UNCHANGED <<watch, log, all, display, view>>

ReadCompleted ==
  \E r \in read :
    /\ r.result # {} /\ ~view.stopping
    /\ IF ~view.active \/ r.stale THEN StaleResult ELSE \E result \in r.result : OnReadCompleted(result)
    /\ UNCHANGED <<file, changed, debounce>>

Stop ==
  /\ ~view.stopping
  /\ view' = [view EXCEPT !.stopping = TRUE]
  /\ watch' = "none" /\ debounce' = FALSE /\ read' = {} /\ again' = NoneLater
  /\ UNCHANGED <<file, changed, log, all, display>>

LogNext ==
  \/ \E bytes \in {<<"x", "n">>, <<"w", "x">>} : WriteLog(bytes)
  \/ RemoveLog \/ CreateLog \/ ReaderReads \/ WatcherEvent \/ DebounceTimeout \/ ReadCompleted \/ LoadMore \/ Stop
  \/ \E active \in BOOLEAN : SetActive(active)
  \/ \E warnOnly \in BOOLEAN : SetWarningsAndErrorsOnly(warnOnly)

----------------------------------------------------------------------------
(* Properties *)

ExactLine ==
  \E e \in Newlines(0, Len(file.text)) : e - Max({0} \cup Newlines(0, e - 1)) - 1 = MaxLine

\* With no read and no event under way, an active viewer shows exactly the
\* newest lines of the file: appended reads, tail reads by blocks, rotation,
\* limits and activations never leave a line out or show one twice.  Lines of
\* exactly kMaxLogLineBytes are excepted: a tail read drops one that starts at
\* a block boundary.
LogShownIsCurrent ==
  /\ view.active /\ ~view.stopping /\ read = {} /\ ~changed /\ ~debounce /\ file.exists /\ ~ExactLine
  => all = LastLines(ParseCompleteLines(0, Len(file.text)), view.limit)

\* The rows are the filtered lines, though appended lines only edit the ends.
DisplayIsFiltered == display = FilteredLines(all, view.warnOnly)

\* The log page shows the file's newest lines, filtered as the user asked.
LogIsCurrent == LogShownIsCurrent /\ DisplayIsFiltered
=============================================================================
