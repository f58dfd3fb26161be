--------------------------- MODULE ReceiveRequests ---------------------------
(***************************************************************************)
(* Payment requests of one wallet and the payments they received           *)
(* (qml/models/walletqmlmodel.cpp).  A scan of the wallet's history runs   *)
(* on the executor while notifications of changed transactions are         *)
(* applied on the GUI thread; a timer asks for unconfirmed payments, which *)
(* leave the mempool without a notification.  A request that was ever paid *)
(* is locked: what it asks for can no longer be edited.                    *)
(*                                                                         *)
(* The wallet thread holds the lock of the wallet while it changes a       *)
(* transaction and posts the notification, so both are one step.  A        *)
(* handler of the GUI thread looks up one transaction after the other and  *)
(* records each by itself, so it is one step too.  The executor is used as *)
(* BackendExecutor specifies it; a poll is only ever submitted before a    *)
(* scan, so that the order of tasks needs no queue.                        *)
(***************************************************************************)
EXTENDS Integers, Sequences, FiniteSets, FiniteSetsExt

CONSTANTS
  Txs,         \* transactions that may pay this wallet
  Addresses,   \* receiving addresses the wallet can hand out
  Pays,        \* Pays[t][a] is what t pays to a
  InitialAddress, \* the address of a request the wallet had stored
  MaxRequests, \* bound on the ids of requests
  MaxChanges,  \* bound on changes of transactions by the wallet, and exceptions
  MaxOperations \* bound on operations of the user

NoAddress == "none"

ASSUME TxsAssumption == IsFiniteSet(Txs) /\ IsFiniteSet(Addresses)
ASSUME PaysAssumption ==
  /\ Pays \in [Txs -> [Addresses -> Nat]]
  /\ InitialAddress \in Addresses /\ NoAddress \notin Addresses
ASSUME BoundsAssumption == MaxRequests \in Nat \ {0} /\ {MaxChanges, MaxOperations} \subseteq Nat

Ids == 1..MaxRequests
Terms == {"some", "other"}        \* amount, label and message of a request
NoRequest == [address |-> NoAddress, terms |-> "some", paid |-> FALSE]
Statuses == {"absent", "mempool", "inactive", "confirmed"}

VARIABLES
  status,    \* external: what the wallet knows of each transaction
  given,     \* external: addresses the wallet has handed out
  stage,     \* "constructing", "running" or "stopped"
  requests,  \* ReceiveRequestHistoryModel: the requests in memory
  stored,    \* the same, as the wallet file has them
  receiving, \* m_receiving_address, its paid flag, and the copy in QSettings
  book,      \* recorded payments, totals, unconfirmed ids, timer, revision
  scan,      \* the reconciliation: flags, captured addresses and findings
  poll,      \* the check of unconfirmed payments
  queue,     \* events posted to the GUI thread
  missed,    \* history: transactions whose change nobody was told of
  failed,    \* history: a reconciliation of this model ended in an exception
  spent      \* history: how much of MaxChanges and MaxOperations is used

receiveVars == <<status, given, stage, requests, stored, receiving, book, scan, poll,
          queue, missed, failed, spent>>
history == <<missed, failed, spent>>

Message(kind, t) == [kind |-> kind, tx |-> t]
Change == spent.changes < MaxChanges /\ spent' = [spent EXCEPT !.changes = @ + 1]
Operate == spent.operations < MaxOperations /\ spent' = [spent EXCEPT !.operations = @ + 1]

Saved == {r \in Ids : requests[r] # NoRequest}
RequestAddresses == {requests[r].address : r \in Saved}
PaidBy(t) == {a \in Addresses : Pays[t][a] > 0}
Present == {t \in Txs : status[t] # "absent"}

\* receiveRequestReconciliationPending, and the counter of notifications.
ReconciliationPending == scan.state # "idle"
NotificationsPending == \E i \in 1..Len(queue) : queue[i].kind \in {"changed", "deleted"}

-----------------------------------------------------------------------------
(* The book of payments.  The revision is read only by a poll that compares *)
(* it with the one it started from: book.steady says that it is the same.   *)

EmptyBook == [payments |-> [t \in Txs |-> {}], totals |-> [a \in Addresses |-> 0],
              unconfirmed |-> {}, timer |-> FALSE, steady |-> FALSE]

UpdatePollTimer(b) == [b EXCEPT !.timer = b.unconfirmed # {}]

RemovePaymentTwice(b, t) ==
  UpdatePollTimer([b EXCEPT !.unconfirmed = @ \ {t}, !.steady = FALSE,
    !.totals = [a \in Addresses |-> IF a \in b.payments[t] THEN @[a] - Pays[t][a] ELSE @[a]]])

RemovePayment(b, t) ==
  UpdatePollTimer([b EXCEPT !.unconfirmed = @ \ {t}, !.steady = FALSE,
    !.totals = [a \in Addresses |-> IF a \in b.payments[t] THEN @[a] - Pays[t][a] ELSE @[a]],
    !.payments[t] = {}])

\* ScanReceiveRequestTransaction: which addresses were paid, if the payment counts.
CountsAsPayment(t) == status[t] \in {"mempool", "confirmed"}
Received(t, addresses) == IF CountsAsPayment(t) THEN PaidBy(t) \cap addresses ELSE {}
Unconfirmed(t, addresses) == status[t] = "mempool" /\ Received(t, addresses) # {}

AddPayment(b, t, addresses) ==
  UpdatePollTimer([b EXCEPT
    !.unconfirmed = IF Unconfirmed(t, addresses) THEN @ \cup {t} ELSE @,
    !.totals = [a \in Addresses |->
                  IF a \in Received(t, addresses) THEN @[a] + Pays[t][a] ELSE @[a]],
    !.payments[t] = Received(t, addresses)])

RecordPayment(b, t) ==
  IF status[t] = "absent" THEN b ELSE AddPayment(RemovePayment(b, t), t, RequestAddresses)

\* Other payments to the addresses of t that no longer count.
RecheckPayments(b, t) ==
  LET related == {u \in Txs \ {t} : b.payments[u] \cap b.payments[t] # {}}
  IN FoldSet(LAMBDA u, c : RemovePayment(c, u), b, {u \in related : ~CountsAsPayment(u)})

Changed(b, t) == RecheckPayments(RecordPayment(RemovePayment(b, t), t), t)
RecordAll == FoldSet(LAMBDA t, b : RecordPayment(b, t), book, Present)

\* A pending scan will replace what is recorded now.
StillMissed == IF ReconciliationPending THEN missed ELSE missed \ Present

\* markReceiveRequestPayment for these addresses.  A write that fails leaves
\* the lock in memory only.
Unlocked(addresses) == {r \in Saved : requests[r].address \in addresses /\ ~requests[r].paid}
Locked(rs, ids) == [r \in Ids |-> IF r \in ids THEN [requests[r] EXCEPT !.paid = TRUE] ELSE rs[r]]

Mark(addresses) ==
  /\ requests' = Locked(requests, Unlocked(addresses))
  /\ \E written \in SUBSET Unlocked(addresses) : stored' = Locked(stored, written)

AllPaid == UNION {PaidBy(t) : t \in Present}

\* recordReceiveRequestPayment also notices a payment to the receiving address.
Notice(addresses) ==
  receiving' = [receiving EXCEPT !.paid = @ \/ receiving.address \in addresses]

-----------------------------------------------------------------------------
(* Reconciliation *)

IdleScan == [state |-> "idle", addresses |-> {}, todo |-> {},
             payments |-> [t \in Txs |-> {}], unconfirmed |-> {}, observed |-> {},
             requested |-> FALSE, updates |-> [t \in Txs |-> "none"]]
IdlePoll == [state |-> "idle", todo |-> {}, inactive |-> {}, confirmed |-> {}]

\* refreshReceiveRequestPayments, from a scan s and for the requests rs.
Refresh(s, rs) ==
  LET saved == {r \in Ids : rs[r] # NoRequest}
  IN CASE s.state # "idle" -> [s EXCEPT !.requested = TRUE]
       [] s.state = "idle" /\ saved = {} -> s
       [] OTHER -> [s EXCEPT !.state = "queued", !.addresses = {rs[r].address : r \in saved}]

\* It empties the book when there is nothing to reconcile.
RefreshedBook(s, rs, b) ==
  IF s.state = "idle" /\ \A r \in Ids : rs[r] = NoRequest THEN EmptyBook ELSE b

\* A finished scan: idle again, with the flags the code keeps.
Finished(s) == [IdleScan EXCEPT !.requested = s.requested, !.updates = s.updates]

OnWorker == poll.state # "queued"

ScanStart ==
  /\ OnWorker /\ scan.state = "queued"
  /\ scan' = [scan EXCEPT !.state = "reading", !.todo = Present]
  /\ missed' = {}
  /\ UNCHANGED <<status, given, stage, requests, stored, receiving, book, poll, queue,
                 failed, spent>>

ObservedActive(t, addresses) == Received(t, addresses)
Observed(t, addresses) == PaidBy(t) \cap addresses

ScanRead(t) ==
  /\ OnWorker /\ scan.state = "reading" /\ t \in scan.todo
  /\ scan' = [scan EXCEPT !.todo = @ \ {t},
       !.payments[t] = Received(t, scan.addresses),
       !.unconfirmed = IF Unconfirmed(t, scan.addresses) THEN @ \cup {t} ELSE @,
       !.observed = @ \cup Observed(t, scan.addresses)]
  /\ UNCHANGED <<status, given, stage, requests, stored, receiving, book, poll, queue, history>>

\* The result, or an exception, is posted to the GUI thread.
Post(kind) == queue' = Append(queue, Message(kind, "none"))

ScanEnd ==
  /\ OnWorker /\ scan.state = "reading" /\ scan.todo = {}
  /\ scan' = [scan EXCEPT !.state = "done"]
  /\ Post("scan")
  /\ UNCHANGED <<status, given, stage, requests, stored, receiving, book, poll, history>>

ScanThrows ==
  /\ OnWorker /\ scan.state \in {"queued", "reading"}
  /\ Change
  /\ scan' = [scan EXCEPT !.state = "done"]
  /\ Post("scan failed")
  /\ UNCHANGED <<status, given, stage, requests, stored, receiving, book, poll, missed, failed>>

PollRead(t) ==
  /\ poll.state = "queued" /\ t \in poll.todo
  /\ poll' = [poll EXCEPT !.todo = @ \ {t},
       !.inactive = IF CountsAsPayment(t) THEN @ ELSE @ \cup {t},
       !.confirmed = IF status[t] = "confirmed" THEN @ \cup {t} ELSE @]
  /\ UNCHANGED <<status, given, stage, requests, stored, receiving, book, scan, queue, history>>

PollEnd ==
  /\ poll.state = "queued" /\ poll.todo = {}
  /\ poll' = [poll EXCEPT !.state = "done"]
  /\ Post("poll")
  /\ UNCHANGED <<status, given, stage, requests, stored, receiving, book, scan, history>>

PollThrows ==
  /\ poll.state = "queued"
  /\ Change
  /\ poll' = [poll EXCEPT !.state = "done"]
  /\ Post("poll failed")
  /\ UNCHANGED <<status, given, stage, requests, stored, receiving, book, scan, missed, failed>>

-----------------------------------------------------------------------------
(* The GUI thread *)

Handle(kind) ==
  /\ stage = "running"
  /\ queue # <<>> /\ Head(queue).kind = kind
  /\ queue' = Tail(queue)

\* The handler of a transaction notification.  Each transaction it looks up
\* is read from the wallet at that time.
TransactionChanged ==
  LET t == Head(queue).tx
  IN /\ Handle("changed")
     /\ scan' = IF ReconciliationPending THEN [scan EXCEPT !.updates[t] = "changed"] ELSE scan
     /\ book' = Changed(book, t)
     /\ IF t \in Present THEN Mark(PaidBy(t)) /\ Notice(PaidBy(t))
                         ELSE UNCHANGED <<requests, stored, receiving>>
     /\ missed' = missed \ {t}
     /\ UNCHANGED <<status, given, stage, poll, failed, spent>>

TransactionDeleted ==
  LET t == Head(queue).tx
  IN /\ Handle("deleted")
     /\ scan' = IF ReconciliationPending THEN [scan EXCEPT !.updates[t] = "deleted"] ELSE scan
     /\ book' = RemovePayment(book, t)
     /\ missed' = missed \ {t}
     /\ UNCHANGED <<status, given, stage, requests, stored, receiving, poll, failed, spent>>

\* The book a scan found, with the notifications that came meanwhile replayed.
ScannedBook ==
  LET Total(a) == MapThenSumSet(LAMBDA t : Pays[t][a], {t \in Txs : a \in scan.payments[t]})
      scanned == [book EXCEPT !.payments = scan.payments, !.unconfirmed = scan.unconfirmed,
                              !.totals = [a \in Addresses |-> Total(a)], !.steady = FALSE]
      Replay(t, b) == IF scan.updates[t] = "changed" THEN Changed(b, t) ELSE RemovePayment(b, t)
  IN UpdatePollTimer(FoldSet(Replay, scanned, {t \in Txs : scan.updates[t] # "none"}))

ApplyScan ==
  LET replayed == {t \in Present : scan.updates[t] = "changed"}
  IN /\ Handle("scan") /\ ~scan.requested
     /\ scan' = IdleScan
     /\ book' = ScannedBook
     /\ Mark(scan.observed \cup UNION {PaidBy(t) : t \in replayed})
     /\ Notice(UNION {PaidBy(t) : t \in replayed})
     /\ UNCHANGED <<status, given, stage, poll, history>>

\* Something changed that the scan cannot know of: scan again.
RepeatScan ==
  /\ Handle("scan") /\ scan.requested
  /\ scan' = Refresh(IdleScan, requests)
  /\ book' = RefreshedBook(IdleScan, requests, book)
  /\ UNCHANGED <<status, given, stage, requests, stored, receiving, poll, history>>

ScanFailed ==
  /\ Handle("scan failed")
  /\ scan' = Finished(scan)
  /\ failed' = TRUE
  /\ UNCHANGED <<status, given, stage, requests, stored, receiving, book, poll, missed, spent>>

\* pollUnconfirmedReceiveRequestPayments, at a timeout of the timer.
PollTimeout ==
  /\ stage = "running" /\ book.timer
  /\ poll.state = "idle" /\ ~ReconciliationPending /\ ~NotificationsPending
  /\ poll' = [IdlePoll EXCEPT !.state = "queued", !.todo = book.unconfirmed]
  /\ book' = [book EXCEPT !.steady = TRUE]
  /\ UNCHANGED <<status, given, stage, requests, stored, receiving, scan, queue, history>>

PollNeverOutdated == FALSE
PollOutdated == ~book.steady \/ ReconciliationPending \/ NotificationsPending

PollDone ==
  /\ Handle("poll")
  /\ poll' = IdlePoll
  /\ book' = IF PollOutdated THEN book
             ELSE LET b == FoldSet(LAMBDA t, c : RemovePayment(c, t), book, poll.inactive)
                  IN UpdatePollTimer([b EXCEPT !.unconfirmed = @ \ poll.confirmed])
  /\ UNCHANGED <<status, given, stage, requests, stored, receiving, scan, history>>

PollFailed ==
  /\ Handle("poll failed")
  /\ poll' = IdlePoll
  /\ UNCHANGED <<status, given, stage, requests, stored, receiving, book, scan, history>>

-----------------------------------------------------------------------------
(* Operations of the user *)

\* ensureReceivingAddress: keep an address nobody has paid to, unless another
\* one or another type is asked for (renew).  The wallet may be locked.
EnsureReceivingAddress(renew) ==
  LET address == IF receiving.address = NoAddress /\ ~renew THEN receiving.persisted
                 ELSE receiving.address
      known == address # NoAddress
      paid == receiving.paid \/ (known /\ \E t \in Present : address \in PaidBy(t))
  IN /\ stage = "running" /\ Operate
     /\ IF known
        THEN book' = RecordAll /\ Mark(AllPaid) /\ missed' = StillMissed
        ELSE UNCHANGED <<book, requests, stored, missed>>
     /\ IF known /\ ~renew /\ ~paid
        THEN receiving' = [receiving EXCEPT !.address = address] /\ UNCHANGED given
        ELSE \/ \E a \in Addresses \ given :
                  /\ given' = given \cup {a}
                  /\ receiving' = [address |-> a, paid |-> FALSE, persisted |-> a]
             \/ receiving' = [receiving EXCEPT !.address = address, !.paid = paid] /\ UNCHANGED given
     /\ UNCHANGED <<status, stage, scan, poll, queue, failed>>

\* setCurrentPaymentRequestAddress, for an address that has no request yet.
ChooseAddress(a) ==
  /\ stage = "running" /\ a \in given \ RequestAddresses
  /\ Operate
  /\ receiving' = [address |-> a, paid |-> FALSE, persisted |-> a]
  /\ UNCHANGED <<status, given, stage, requests, stored, book, scan, poll, queue, missed, failed>>

\* usePaymentRequestAsTemplate
UseAsTemplate(r) ==
  /\ stage = "running" /\ r \in Saved
  /\ Operate
  /\ receiving' = [address |-> NoAddress, paid |-> FALSE, persisted |-> NoAddress]
  /\ UNCHANGED <<status, given, stage, requests, stored, book, scan, poll, queue, missed, failed>>

NextId == Max({0} \cup Saved) + 1

\* commitReceivingPaymentRequest and savePaymentRequest for a new request.
CommitRequest ==
  LET paid == receiving.paid \/ receiving.address \in AllPaid
      new == [address |-> receiving.address, terms |-> "some", paid |-> FALSE]
  IN /\ stage = "running" /\ Operate
     /\ book' = RecordAll
     /\ missed' = StillMissed
     /\ \/ /\ receiving.address # NoAddress /\ ~paid /\ NextId \in Ids
           /\ requests' = [Locked(requests, Unlocked(AllPaid)) EXCEPT ![NextId] = new]
           /\ \E written \in SUBSET Unlocked(AllPaid) :
                stored' = [Locked(stored, written) EXCEPT ![NextId] = new]
           /\ receiving' = [address |-> NoAddress, paid |-> FALSE, persisted |-> NoAddress]
           /\ scan' = [scan EXCEPT !.requested = @ \/ ReconciliationPending]
        \* refused, or the wallet could not store it
        \/ /\ Mark(AllPaid) /\ Notice(AllPaid)
           /\ UNCHANGED scan
     /\ UNCHANGED <<status, given, stage, poll, queue, failed>>

EditableDespiteNotifications == ~ReconciliationPending
Editable == ~ReconciliationPending /\ ~NotificationsPending

\* updatePaymentRequest and savePaymentRequest for a saved request.
UpdateRequest(r, terms) ==
  LET edited == [requests[r] EXCEPT !.terms = terms]
  IN /\ stage = "running" /\ r \in Saved /\ Editable
     /\ ~requests[r].paid \/ terms = requests[r].terms
     /\ Operate
     /\ requests' = [requests EXCEPT ![r] = edited]
     /\ stored' = [stored EXCEPT ![r] = edited]
     /\ UNCHANGED <<status, given, stage, receiving, book, scan, poll, queue, missed, failed>>

\* removeReceiveRequest
RemoveRequest(r) ==
  LET rest == [requests EXCEPT ![r] = NoRequest]
  IN /\ stage = "running" /\ r \in Saved
     /\ Operate
     /\ requests' = rest
     /\ stored' = [stored EXCEPT ![r] = NoRequest]
     /\ scan' = Refresh(scan, rest)
     /\ book' = RefreshedBook(scan, rest, book)
     /\ UNCHANGED <<status, given, stage, receiving, poll, queue, missed, failed>>

\* syncPaymentRequestNoteToAddress: the private note is not part of the model.
SyncNote ==
  /\ stage = "running"
  /\ Operate
  /\ scan' = Refresh(scan, requests)
  /\ book' = RefreshedBook(scan, requests, book)
  /\ UNCHANGED <<status, given, stage, requests, stored, receiving, poll, queue, missed, failed>>

-----------------------------------------------------------------------------
(* The life of the model, and the wallet *)

\* The constructor reads the stored requests, starts to reconcile and
\* subscribes to the wallet at its end.  The stored request may have been
\* paid while another program had the wallet open.
ReceiveInit ==
  /\ given = {InitialAddress}
  /\ status \in {s \in [Txs -> Statuses] :
                   \A t \in Txs : s[t] # "absent" => PaidBy(t) \subseteq given}
  /\ requests = [r \in Ids |-> IF r = 1
                   THEN [address |-> InitialAddress, terms |-> "some", paid |-> FALSE]
                   ELSE NoRequest]
  /\ stored = requests
  /\ receiving = [address |-> NoAddress, paid |-> FALSE, persisted |-> NoAddress]
  /\ book = EmptyBook
  /\ scan = Refresh(IdleScan, requests)
  /\ poll = IdlePoll
  /\ queue = <<>>
  /\ stage = "constructing"
  /\ missed = {} /\ failed = FALSE /\ spent = [changes |-> 0, operations |-> 0]

SubscribeToWalletSignals ==
  /\ stage = "constructing"
  /\ stage' = "running"
  /\ UNCHANGED <<status, given, requests, stored, receiving, book, scan, poll, queue, history>>

\* The executor runs what it accepted and delivers nothing any more.
BeginModelShutdown ==
  /\ stage = "running"
  /\ Operate
  /\ stage' = "stopped"
  /\ book' = [book EXCEPT !.timer = FALSE]
  /\ scan' = IdleScan /\ poll' = IdlePoll /\ queue' = <<>>
  /\ UNCHANGED <<status, given, requests, stored, receiving, missed, failed>>

\* Another model of the same wallet, or the next start of the program.
Reopen ==
  /\ stage = "stopped"
  /\ stage' = "constructing"
  /\ requests' = stored
  /\ receiving' = [address |-> NoAddress, paid |-> FALSE, persisted |-> receiving.persisted]
  /\ book' = EmptyBook
  /\ scan' = Refresh(IdleScan, stored)
  /\ missed' = {} /\ failed' = FALSE
  /\ UNCHANGED <<status, given, stored, poll, queue, spent>>

\* Can the scan still see a change of t?
ScanWillRead(t) == scan.state = "queued" \/ (scan.state = "reading" /\ t \in scan.todo)

\* External: the wallet changes what it knows of t.  It tells its
\* subscribers, except of a transaction that just leaves the mempool.
WalletChanges(t, s, told) ==
  /\ s # status[t] /\ (status[t] = "absent" => s # "inactive")
  /\ PaidBy(t) \subseteq given
  /\ told \/ (status[t] = "mempool" /\ s = "inactive")
  /\ Change
  /\ status' = [status EXCEPT ![t] = s]
  /\ queue' = IF told /\ stage = "running"
              THEN Append(queue, Message(IF s = "absent" THEN "deleted" ELSE "changed", t))
              ELSE queue
  /\ missed' = IF told /\ stage = "constructing" /\ ~ScanWillRead(t) THEN missed \cup {t}
               ELSE missed
  /\ UNCHANGED <<given, stage, requests, stored, receiving, book, scan, poll, failed>>

-----------------------------------------------------------------------------
Worker == ScanStart \/ ScanEnd \/ PollEnd \/ \E t \in Txs : ScanRead(t) \/ PollRead(t)
Throws == ScanThrows \/ PollThrows

Gui ==
  \/ SubscribeToWalletSignals
  \/ TransactionChanged \/ TransactionDeleted
  \/ ApplyScan \/ RepeatScan \/ ScanFailed
  \/ PollDone \/ PollFailed

RequestOperations ==
  \/ \E renew \in BOOLEAN : EnsureReceivingAddress(renew)
  \/ \E a \in Addresses : ChooseAddress(a)
  \/ CommitRequest
  \/ \E r \in Ids : RemoveRequest(r) \/ UseAsTemplate(r)
  \/ \E r \in Ids, terms \in Terms : UpdateRequest(r, terms)
  \/ SyncNote \/ BeginModelShutdown \/ Reopen

Wallet == \E t \in Txs, s \in Statuses, told \in BOOLEAN : WalletChanges(t, s, told)

ReceiveNext == Worker \/ Throws \/ Gui \/ PollTimeout \/ RequestOperations \/ Wallet

ReceiveSpec == ReceiveInit /\ [][ReceiveNext]_receiveVars
\* The executor thread runs, the GUI thread handles its events and the timer
\* fires.  One condition is enough: none of them can go on without the others.
FairReceiveSpec == ReceiveSpec /\ WF_receiveVars(Worker \/ Gui \/ PollTimeout)

-----------------------------------------------------------------------------
Books == [payments : [Txs -> SUBSET Addresses], totals : [Addresses -> Nat],
          unconfirmed : SUBSET Txs, timer : BOOLEAN, steady : BOOLEAN]

\* Every variable has its type; no total is ever negative (the totals are
\* kept by adding and subtracting, and a payment must not be taken twice),
\* they are the sums of the recorded payments, and the timer runs exactly
\* while an unconfirmed payment is recorded.
RequestsTypeOK ==
  /\ status \in [Txs -> Statuses] /\ given \subseteq Addresses
  /\ stage \in {"constructing", "running", "stopped"}
  /\ {requests, stored} \subseteq
       [Ids -> [address : Addresses, terms : Terms, paid : BOOLEAN] \cup {NoRequest}]
  /\ receiving \in [address : Addresses \cup {NoAddress}, paid : BOOLEAN,
                    persisted : Addresses \cup {NoAddress}]
  /\ book \in Books
  /\ scan.state \in {"idle", "queued", "reading", "done"}
  /\ poll.state \in {"idle", "queued", "done"}
  /\ \A a \in Addresses :
       book.totals[a] = MapThenSumSet(LAMBDA t : Pays[t][a], {t \in Txs : a \in book.payments[t]})
  /\ stage = "running" => book.timer = (book.unconfirmed # {})

Paying(r) == {t \in Present : requests[r].address \in PaidBy(t)}

\* A request that was paid is locked (payment_received) as soon as no
\* reconciliation and no notification is on its way, however the payments,
\* scans, polls and operations of the user were interleaved; only a failed
\* scan, or a change the wallet made before the model subscribed, is excused.
PaidRequestIsLocked ==
  stage = "running" /\ ~ReconciliationPending /\ ~NotificationsPending /\ ~failed
    => \A r \in Saved : Paying(r) \subseteq missed \/ requests[r].paid

\* What a request asks for is never edited once the wallet knows a payment to
\* it, even when the GUI thread has not handled the notification yet
\* (savePaymentRequest).
PaidTermsFixed ==
  [][\A r \in Saved :
       requests'[r] # NoRequest /\ stage' = stage /\ requests'[r].terms # requests[r].terms
         => failed \/ Paying(r) \subseteq missed]_receiveVars

\* Paid requests are locked and keep their terms, and the totals kept for them
\* are the sums of their payments.
PaidRequestsAreFixed == [](RequestsTypeOK /\ PaidRequestIsLocked) /\ PaidTermsFixed

\* What a request received: the payments to it that count now.
Due(a) == MapThenSumSet(LAMBDA t : Pays[t][a], {t \in Txs \ missed : CountsAsPayment(t)})
Shown(a) == book.totals[a]
          - MapThenSumSet(LAMBDA t : Pays[t][a], {t \in missed : a \in book.payments[t]})

\* The received amount of every request settles on the payments that count:
\* notifications, the replay after a scan and the polls of unconfirmed
\* payments together leave no stale payment behind and lose none.
TotalsSettle ==
  <>[](stage = "stopped" \/ failed \/ \A a \in RequestAddresses : Shown(a) = Due(a))

\* Once the history scan is over, every payment is reflected in the lock of
\* its request: "Until the background history scan completes, an old request
\* might have received a payment that is not yet reflected in its persisted
\* lock." (savePaymentRequest)
ScanReflectsPayments ==
  stage = "running" /\ ~ReconciliationPending /\ ~NotificationsPending /\ ~failed
    => \A r \in Saved : Paying(r) # {} => requests[r].paid
=============================================================================
