------------------------------ MODULE Activity ------------------------------
(***************************************************************************)
(* The activity list of a wallet (qml/models/transactionactivitymodel.cpp) *)
(* and the filter above it (activityfilterproxymodel.cpp).  Requests for   *)
(* work gather in a pending set; one read at a time runs on the wallet's   *)
(* executor over a copy of the records, and its result counts only if no   *)
(* notification came meanwhile.                                            *)
(***************************************************************************)
EXTENDS Integers, Sequences, FiniteSetsExt

CONSTANTS Txids, Requests,
          Known,   \* the transactions in the wallet at the start
          PaysTo,  \* the request a transaction's output matches, by transaction
          Amount,  \* the wallet impact of each transaction
          MaxTip,  \* bound on the blocks
          MaxEvents \* bound on wallet events, edits of requests and failures

VARIABLES wallet,   \* [state, tip]: per transaction Absent, Conflicted, 0 (pool) or its height
          notes,    \* transactionChanged signals on their way to the GUI
          requests, \* per request: Absent or the version of its note
          pending,  \* m_pending, a set of "reload", "poll", "details" and transactions
          job,      \* {} or {the read under way}
          records,  \* m_transactions: transaction -> depth, or Unknown
          retry,    \* transactions whose status could not be read
          lastTip,
          detail,   \* [txid, flow, loading]
          rows,     \* the list: what it shows of transactions and of requests
          proxy,    \* [filter, balance]: the filter and the pending balance it has cached
          flags,    \* [scheduled, rebuild, stopped, lost]
          events    \* counts towards MaxEvents

activityVars == <<wallet, notes, requests, pending, job, records, retry, lastTip, detail, rows, proxy, flags, events>>
walletVars == <<wallet, notes>>
listVars == <<requests, rows, proxy>>

NoRecords == [t \in {} |-> 0]
Absent == -2
Unknown == -3
Conflicted == -1

Count == events < MaxEvents /\ events' = events + 1

----------------------------------------------------------------------------
(* What the wallet answers, and what the rows show *)

Present == {t \in Txids : wallet.state[t] # Absent}
Depth(t) == CASE wallet.state[t] = Conflicted -> -1
              [] wallet.state[t] = 0            -> 0
              [] OTHER                          -> wallet.tip - wallet.state[t] + 1

Active(depth) == depth # Unknown /\ depth # -1
IsPending(depth) == depth = 0

\* rebuildRows: requests that an active transaction pays get no row of their own.
RowsOf(recs, reqs) ==
  [txs  |-> recs,
   matched |-> {t \in DOMAIN recs : PaysTo[t] \in Requests /\ reqs[PaysTo[t]] # Absent},
   open |-> {<<r, reqs[r]>> : r \in {x \in Requests : reqs[x] # Absent /\
                                        ~\E t \in DOMAIN recs : PaysTo[t] = x /\ Active(recs[t])}}]

\* The filter: an upper bound of the amount (-1 is none) and, as typeMatches
\* for payment requests, whether only rows with a request are shown.  Dates,
\* texts and the other types are tests of a row alike.
Filters == [max : {-1, 1}, requestsOnly : BOOLEAN]
TypeMatches(filter, shown, t) == filter.requestsOnly => t \in shown.matched
FilterAcceptsRow(filter, shown, t) ==
  TypeMatches(filter, shown, t) /\ (filter.max >= 0 => Amount[t] <= filter.max)
Accepted(filter, shown) == {t \in DOMAIN shown.txs : FilterAcceptsRow(filter, shown, t)}
Impact(transactions) == MapThenSumSet(LAMBDA t : Amount[t], transactions)
PendingBalance(filter, shown) == Impact({t \in Accepted(filter, shown) : IsPending(shown.txs[t])})

\* The proxy drops its cached balance when its rows come or go, or when a role
\* it depends on changes in a row; the page then reads it again.
InvalidatesOnCount(old, new) == DOMAIN old.txs # DOMAIN new.txs
Invalidates(old, new) ==
  LET were == Accepted(proxy.filter, old)
  IN \/ were # Accepted(proxy.filter, new) \/ {p[1] : p \in old.open} # {p[1] : p \in new.open}
     \/ \E t \in were : IsPending(old.txs[t]) # IsPending(new.txs[t])
RebuildRows(recs, reqs) ==
  LET new == RowsOf(recs, reqs)
  IN /\ rows' = new
     /\ proxy' = IF Invalidates(rows, new) THEN [proxy EXCEPT !.balance = PendingBalance(proxy.filter, new)] ELSE proxy

Init ==
  /\ wallet = [state |-> [t \in Txids |-> IF t \in Known THEN 0 ELSE Absent], tip |-> 1] /\ notes = << >>
  /\ requests = [r \in Requests |-> Absent]
  /\ pending = {"reload"} /\ job = {} /\ records = NoRecords /\ retry = {} /\ lastTip = 0
  /\ detail = [txid |-> "none", flow |-> "none", loading |-> FALSE]
  /\ rows = [txs |-> NoRecords, matched |-> {}, open |-> {}] /\ proxy = [filter |-> [max |-> -1, requestsOnly |-> FALSE], balance |-> Impact({})]
  /\ flags = [scheduled |-> TRUE, rebuild |-> FALSE, stopped |-> FALSE, lost |-> FALSE] /\ events = 0

----------------------------------------------------------------------------
(* The wallet *)

TransactionEnters(t, state) ==
  /\ Count
  /\ ~flags.stopped /\ wallet.state[t] # state /\ state \in {Absent, Conflicted, 0, wallet.tip}
  /\ wallet' = [wallet EXCEPT !.state[t] = state]
  /\ notes' = Append(notes, t)
  /\ UNCHANGED <<pending, job, records, retry, lastTip, detail, flags, listVars>>

\* Depths change without a notification.
BlockConnected ==
  /\ ~flags.stopped /\ wallet.tip < MaxTip
  /\ wallet' = [wallet EXCEPT !.tip = @ + 1]
  /\ UNCHANGED <<notes, pending, job, records, retry, lastTip, detail, flags, listVars, events>>

----------------------------------------------------------------------------
(* The GUI thread *)

\* schedule: work waits for the read under way.
Schedule(work) ==
  /\ pending' = work
  /\ flags' = [flags EXCEPT !.scheduled = @ \/ (~flags.stopped /\ work # {} /\ job' = {})]

Supersede == job' = {[j EXCEPT !.superseded = TRUE] : j \in job}

UpdateTransaction ==
  /\ notes # << >>
  /\ notes' = Tail(notes)
  /\ Supersede
  /\ Schedule(pending \cup {Head(notes)})
  /\ UNCHANGED <<wallet, records, retry, lastTip, detail, listVars, events>>

Reload ==
  /\ Count
  /\ Supersede
  /\ Schedule(pending \cup {"reload"})
  /\ UNCHANGED <<walletVars, records, retry, lastTip, detail, listVars>>

Poll ==
  /\ ~flags.stopped
  /\ UNCHANGED job
  /\ Schedule(pending \cup {"poll"})
  /\ UNCHANGED <<walletVars, records, retry, lastTip, detail, listVars, events>>

\* A flow of outputs alone is shown at once when the transaction is known;
\* "none" closes the page.
RequestTransactionDetails(t) ==
  /\ Count
  /\ ~flags.stopped
  /\ job' = {[j EXCEPT !.otherDetail = TRUE] : j \in job}
  /\ detail' = [txid |-> t, loading |-> t # "none",
                flow |-> IF detail.txid = t /\ detail.flow # "none" THEN detail.flow
                         ELSE IF t \in DOMAIN records THEN t ELSE "none"]
  /\ Schedule(IF t = "none" THEN pending \ {"details"} ELSE pending \cup {"details"})
  /\ UNCHANGED <<walletVars, records, retry, lastTip, listVars>>

StartWork ==
  /\ flags.scheduled
  /\ IF flags.stopped \/ job # {} \/ pending = {} THEN UNCHANGED <<pending, job>>
     ELSE /\ pending' = {}
          /\ job' = {[work |-> pending, stage |-> "records", superseded |-> FALSE, otherDetail |-> FALSE,
                      records |-> records, retry |-> retry, tip |-> lastTip, detail |-> detail.txid,
                      flow |-> detail.flow, changed |-> FALSE]}
  /\ flags' = [flags EXCEPT !.scheduled = FALSE]
  /\ UNCHANGED <<walletVars, records, retry, lastTip, detail, listVars, events>>

----------------------------------------------------------------------------
(* readSnapshot, on the wallet's executor: each stage is a call of the wallet *)

\* A status read fails while the wallet is locked elsewhere (tryGetTxStatus);
\* the record then keeps what it knew.
StatusRead(j, t, read) ==
  IF read THEN Depth(t) ELSE IF t \in DOMAIN j.records THEN j.records[t] ELSE Unknown

ReadRecords(read) ==
  \E j \in job :
    /\ j.stage = "records"
    /\ LET reload == "reload" \in j.work
           asked  == Txids \cap (j.work \cup (IF reload THEN Txids ELSE {}))
           keep   == (DOMAIN j.records \ asked) \cup (asked \cap Present)
       IN job' = {[j EXCEPT !.stage = "tip",
                     !.records = [t \in keep |-> IF t \in asked THEN StatusRead(j, t, read) ELSE j.records[t]],
                     !.retry = IF read THEN @ \ asked ELSE (@ \ asked) \cup (asked \cap Present),
                     !.changed = asked # {} \/ reload]}
    /\ UNCHANGED <<walletVars, pending, records, retry, lastTip, detail, flags, listVars, events>>

\* The poll rereads every status after a new tip, else those that failed.
ReadTipLate ==
  \E j \in job :
    /\ j.stage = "tip"
    /\ job' = {[j EXCEPT !.stage = "statuses", !.tip = IF "poll" \in j.work THEN wallet.tip ELSE @]}
    /\ UNCHANGED <<walletVars, pending, records, retry, lastTip, detail, flags, listVars, events>>
ReadTip ==
  \E j \in job :
    /\ j.stage = "tip"
    /\ LET newTip == "poll" \in j.work /\ j.tip # wallet.tip
       IN job' = {[j EXCEPT !.stage = "statuses", !.tip = IF newTip THEN wallet.tip ELSE @,
                            !.work = IF newTip THEN @ \cup {"statuses"} ELSE @]}
    /\ UNCHANGED <<walletVars, pending, records, retry, lastTip, detail, flags, listVars, events>>

\* A transaction asked for before its notification is read last.
StatusesRead(j, read) ==
  LET asked == IF "statuses" \in j.work THEN DOMAIN j.records
               ELSE IF "poll" \in j.work THEN DOMAIN j.records \cap j.retry ELSE {}
      known == IF read THEN asked \cap Present ELSE {}
  IN [j EXCEPT !.records = [t \in DOMAIN j.records |-> IF t \in known THEN Depth(t) ELSE j.records[t]],
               !.retry = (@ \cup asked) \ known,
               !.changed = @ \/ "statuses" \in j.work \/ ("poll" \in j.work /\ j.retry # {})]
DetailsRead(j, read) ==
  LET shows == j.detail # "none" /\ ("details" \in j.work \/ j.changed)
      found == shows /\ j.detail \notin DOMAIN j.records /\ j.detail \in Present
      recs  == [t \in DOMAIN j.records \cup (IF found THEN {j.detail} ELSE {}) |->
                  IF found /\ t = j.detail THEN StatusRead(j, t, read) ELSE j.records[t]]
  IN [j EXCEPT !.stage = "done", !.records = recs, !.changed = @ \/ found,
               !.retry = IF found /\ ~read THEN @ \cup {j.detail} ELSE @,
               !.flow = IF ~shows THEN @ ELSE IF j.detail \in DOMAIN recs THEN j.detail ELSE "none"]

ReadStatuses(read) ==
  \E j \in job :
    /\ j.stage = "statuses"
    /\ job' = {DetailsRead(StatusesRead(j, read), read)}
    /\ UNCHANGED <<walletVars, pending, records, retry, lastTip, detail, flags, listVars, events>>

\* The result: superseded work is done again, and details of another
\* transaction than the one now shown are left out.
Merge(j) == j.work \ {"statuses"}
Never(j) == FALSE
Superseded(j) == j.superseded
OtherDetail(j) == j.otherDetail
ApplySnapshot ==
  \E j \in job :
    /\ j.stage = "done"
    /\ job' = {}
    /\ IF flags.stopped THEN UNCHANGED <<pending, records, retry, lastTip, detail, rows, proxy, flags>>
       ELSE IF Superseded(j)
       THEN Schedule(pending \cup Merge(j)) /\ UNCHANGED <<records, retry, lastTip, detail, rows, proxy>>
       ELSE /\ records' = j.records /\ retry' = j.retry /\ lastTip' = j.tip
            /\ detail' = IF OtherDetail(j) THEN detail ELSE [detail EXCEPT !.flow = j.flow, !.loading = FALSE]
            /\ IF j.changed THEN RebuildRows(j.records, requests) ELSE UNCHANGED <<rows, proxy>>
            /\ pending' = pending
            /\ flags' = [flags EXCEPT !.scheduled = @ \/ pending # {}, !.lost = @ /\ "reload" \notin j.work]
    /\ UNCHANGED <<walletVars, requests, events>>

\* A read that throws is not repeated unless it was superseded.
SnapshotFails ==
  \E j \in job :
    /\ Count
    /\ job' = {}
    /\ IF flags.stopped THEN UNCHANGED <<pending, detail, flags>>
       ELSE IF j.superseded THEN Schedule(pending \cup Merge(j)) /\ UNCHANGED detail
       ELSE /\ detail' = IF j.otherDetail THEN detail ELSE [detail EXCEPT !.loading = FALSE]
            /\ pending' = pending
            /\ flags' = [flags EXCEPT !.scheduled = @ \/ pending # {}, !.lost = TRUE]
    /\ UNCHANGED <<walletVars, records, retry, lastTip, listVars>>

----------------------------------------------------------------------------
(* Requests, the filter and the end *)

\* Signals of the request list; while a reconciliation is being applied, one
\* rebuild is put off to the event loop.
RequestsChange(r, version, applying) ==
  /\ Count
  /\ requests[r] # version
  /\ requests' = [requests EXCEPT ![r] = version]
  /\ LET edited == requests[r] # Absent /\ version # Absent
     IN IF edited /\ (applying \/ flags.rebuild)
        THEN flags' = [flags EXCEPT !.rebuild = TRUE] /\ UNCHANGED <<rows, proxy>>
        ELSE RebuildRows(records, requests') /\ UNCHANGED flags
  /\ UNCHANGED <<walletVars, pending, job, records, retry, lastTip, detail>>

DeferredRebuild ==
  /\ flags.rebuild
  /\ flags' = [flags EXCEPT !.rebuild = FALSE]
  /\ IF flags.stopped THEN UNCHANGED <<rows, proxy>> ELSE RebuildRows(records, requests)
  /\ UNCHANGED <<walletVars, requests, pending, job, records, retry, lastTip, detail, events>>

\* Any of the filter's setters: nothing for the same filter, else the rows are
\* filtered again and countChanged drops the cached balance.
SetFilter(filter) ==
  /\ Count
  /\ proxy.filter # filter
  /\ proxy' = [filter |-> filter, balance |-> PendingBalance(filter, rows)]
  /\ UNCHANGED <<walletVars, requests, pending, job, records, retry, lastTip, detail, rows, flags>>

Stop ==
  /\ ~flags.stopped
  /\ flags' = [flags EXCEPT !.stopped = TRUE]
  /\ detail' = [detail EXCEPT !.loading = FALSE]
  /\ UNCHANGED <<walletVars, requests, pending, job, records, retry, lastTip, rows, proxy, events>>

ActivityNext ==
  \/ \E t \in Txids, state \in {Absent, Conflicted} \cup 0..MaxTip : TransactionEnters(t, state)
  \/ BlockConnected \/ UpdateTransaction \/ Reload \/ Poll \/ StartWork
  \/ \E t \in Txids \cup {"none"} : RequestTransactionDetails(t)
  \/ \E read \in BOOLEAN : ReadRecords(read) \/ ReadStatuses(read)
  \/ ReadTip \/ ApplySnapshot \/ SnapshotFails
  \/ \E r \in Requests, version \in {Absent, 1, 2}, applying \in BOOLEAN : RequestsChange(r, version, applying)
  \/ DeferredRebuild \/ Stop
  \/ \E filter \in Filters : SetFilter(filter)

----------------------------------------------------------------------------
(* Properties *)

\* At rest the list shows the wallet: no notification that came during a read
\* and no block that came between two reads leaves it behind.
ActivityIsCurrent ==
  /\ notes = << >> /\ pending = {} /\ job = {} /\ retry = {} /\ lastTip = wallet.tip
  /\ ~flags.stopped /\ ~flags.lost
  => records = [t \in Present |-> Depth(t)]

\* The details page never shows another transaction's flow, and a page that
\* says it is loading has a read on its way.
DetailsAreOfTransaction ==
  /\ detail.flow \in {"none", detail.txid}
  /\ detail.loading => "details" \in pending \/ \E j \in job : "details" \in j.work
  /\ pending # {} /\ ~flags.stopped => flags.scheduled \/ job # {}

\* The rows follow the records and the requests, and the balance the filter
\* has cached is that of its rows.
RowsAndBalanceAreCurrent ==
  /\ ~flags.rebuild /\ ~flags.stopped => rows = RowsOf(records, requests)
  /\ proxy.balance = PendingBalance(proxy.filter, rows)

\* The activity page follows the wallet: its records, its rows with their
\* balance, and the transaction whose details are open.
ActivityFollowsWallet ==
  /\ ActivityIsCurrent
  /\ DetailsAreOfTransaction
  /\ RowsAndBalanceAreCurrent
=============================================================================
