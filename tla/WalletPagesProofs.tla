-------------------------- MODULE WalletPagesProofs --------------------------
(***************************************************************************)
(* Proofs about the pages of a wallet.  What SpendingProofs proves of      *)
(* Spending holds of the part "sends", an instance of Spending whose       *)
(* variables no other part touches; the activity list and the send form    *)
(* have inductive invariants of their own.                                 *)
(***************************************************************************)
EXTENDS MCWalletPages, SequenceTheorems, FiniteSetTheorems, WellFoundedInduction, TLAPS

SendsProved ==
  INSTANCE SpendingProofs WITH
    wallet <- v1, unlocker <- v2, work <- v3, draft <- v4, tx <- v5, psbt <- v6,
    canSend <- v7, canBroadcast <- v8, page <- v9, bump <- v10, bumpable <- v11,
    file <- v12, committed <- v13, asked <- v14, made <- v15, rpcs <- v16

\* The inductive invariant of Spending
SendsInv == SendsProved!LockOK /\ SendsProved!SendOK

----------------------------------------------------------------------------
(* Sends and SendsProved instantiate the same definitions: expanded, they    *)
(* are the same formulas.                                                    *)

LEMMA SameInit == Sends!Init <=> SendsProved!Init
  BY DEF Sends!Init, Sends!FirstPage, SendsProved!Init, SendsProved!FirstPage

LEMMA SameNext == Sends!Next <=> SendsProved!Next
  BY DEF Sends!Next, Sends!EditDraft, Sends!CloseReview, Sends!Passphrases,
    Sends!PrepareTransaction, Sends!SubmitPassphrase, Sends!ConfirmFeeBump,
    Sends!SignMessage, Sends!PrepareFails, Sends!PrepareUnmatched,
    Sends!PrepareDone, Sends!Psbts, Sends!ImportPsbt, Sends!ImportUnmatched,
    Sends!BeginApproval, Sends!SaveCurrentTransactionAsPsbt,
    Sends!ApproveExternalSigner, Sends!RequestSend, Sends!ConfirmSweep,
    Sends!CancelConfirmation, Sends!SendSigned, Sends!SendFails,
    Sends!BroadcastCurrentTransaction, Sends!PrepareFeeBump, Sends!BumpFails,
    Sends!BumpCommitted, Sends!ResetBump, Sends!MessageDone, Sends!EncryptWallet,
    Sends!RpcSetLocked, Sends!Unload, Sends!TransactionConfirmed, Sends!Idle,
    Sends!Drafts, Sends!lockVars, Sends!DiscardCurrentTransaction, Sends!FirstPage,
    Sends!Available, Sends!MustUnlock, Sends!MayStart, Sends!UnlockForAction,
    Sends!sendVars, Sends!IsCurrentTransaction, Sends!SendTransaction,
    Sends!Refused, Sends!UnlockForCommit, Sends!UnlockForSigning, Sends!Relock,
    Sends!Deleted, Sends!PrivateKeysDisabled, Sends!ShowReview, Sends!Psbt,
    Sends!Importable, Sends!CanSendPsbt, Sends!CanBroadcastPsbt, Sends!SendEnabled,
    Sends!CurrentObjects, Sends!Sent, Sends!Closed, Sends!WalletHasSigner,
    Sends!Record, SendsProved!Next, SendsProved!EditDraft, SendsProved!CloseReview,
    SendsProved!Passphrases, SendsProved!PrepareTransaction,
    SendsProved!SubmitPassphrase, SendsProved!ConfirmFeeBump,
    SendsProved!SignMessage, SendsProved!PrepareFails, SendsProved!PrepareUnmatched,
    SendsProved!PrepareDone, SendsProved!Psbts, SendsProved!ImportPsbt,
    SendsProved!ImportUnmatched, SendsProved!BeginApproval,
    SendsProved!SaveCurrentTransactionAsPsbt, SendsProved!ApproveExternalSigner,
    SendsProved!RequestSend, SendsProved!ConfirmSweep,
    SendsProved!CancelConfirmation, SendsProved!SendSigned, SendsProved!SendFails,
    SendsProved!BroadcastCurrentTransaction, SendsProved!PrepareFeeBump,
    SendsProved!BumpFails, SendsProved!BumpCommitted, SendsProved!ResetBump,
    SendsProved!MessageDone, SendsProved!EncryptWallet, SendsProved!RpcSetLocked,
    SendsProved!Unload, SendsProved!TransactionConfirmed, SendsProved!Idle,
    SendsProved!Drafts, SendsProved!lockVars, SendsProved!DiscardCurrentTransaction,
    SendsProved!FirstPage, SendsProved!Available, SendsProved!MustUnlock,
    SendsProved!MayStart, SendsProved!UnlockForAction, SendsProved!sendVars,
    SendsProved!IsCurrentTransaction, SendsProved!SendTransaction,
    SendsProved!Refused, SendsProved!UnlockForCommit, SendsProved!UnlockForSigning,
    SendsProved!Relock, SendsProved!Deleted, SendsProved!PrivateKeysDisabled,
    SendsProved!ShowReview, SendsProved!Psbt, SendsProved!Importable,
    SendsProved!CanSendPsbt, SendsProved!CanBroadcastPsbt, SendsProved!SendEnabled,
    SendsProved!CurrentObjects, SendsProved!Sent, SendsProved!Closed,
    SendsProved!WalletHasSigner, SendsProved!Record

LEMMA SameApproved == Sends!CommittedWasApproved <=> SendsProved!CommittedWasApproved
  BY DEF Sends!CommittedWasApproved, Sends!TypeOK, Sends!CommittedWasConfirmed,
    Sends!CommittedIsSigned, Sends!Cardinality, SendsProved!CommittedWasApproved,
    SendsProved!TypeOK, SendsProved!CommittedWasConfirmed,
    SendsProved!CommittedIsSigned, SendsProved!Cardinality

LEMMA SameUndone == Sends!GuiUnlockIsUndone <=> SendsProved!GuiUnlockIsUndone
  BY DEF Sends!GuiUnlockIsUndone, Sends!Idle, SendsProved!GuiUnlockIsUndone,
    SendsProved!Idle

----------------------------------------------------------------------------
LEMMA SendsInit == ASSUME Init, part = "sends" PROVE SendsInv
<1>1. Sends!Init
  BY DEF Init
<1>2. SendsProved!Init
  BY <1>1, SameInit
<1>3. Kinds \subseteq SendsProved!WalletKinds
  BY KindsAssumption DEF SendsProved!WalletKinds
<1> QED
  BY <1>2, <1>3, SendsProved!InitOK DEF SendsInv

LEMMA SendsNext ==
  ASSUME part = "sends" => SendsInv, [Next]_vars, part' = "sends"
  PROVE  SendsInv'
<1>1. part = "sends" /\ (Sends!Next \/ UNCHANGED vars)
  BY DEF Next, FeesStep, SendsStep, ListStep, vars
<1>2. SendsProved!Next \/ UNCHANGED SendsProved!vars
  BY <1>1, SameNext DEF vars, SendsProved!vars, SendsProved!lockVars, SendsProved!sendVars
<1> QED
  BY <1>1, <1>2, SendsProved!NextOK DEF SendsInv

\* Whatever the user, RPC clients and imports do around sendTransaction,
\* broadcastCurrentTransaction and the external signer: only objects that the
\* user clicked Send or Broadcast for while they were shown are committed,
\* and only with their signatures.
THEOREM OnlyApprovedIsCommitted == Spec => []CommittedWasApproved
<1> DEFINE Inv == part = "sends" => SendsInv
<1>1. Init => Inv
  BY SendsInit
<1>2. Inv /\ [Next]_vars => Inv'
  BY SendsNext
<1>3. Inv => CommittedWasApproved
  BY SendsProved!ImpliesApproved, SameApproved DEF SendsInv, CommittedWasApproved
<1> QED
  BY <1>1, <1>2, <1>3, PTL DEF Spec

\* Every way out of an operation that unlocked the wallet with a passphrase
\* (WalletUnlock) locks it again, also when RPC clients lock and unlock it in
\* between, and what an RPC client unlocked is not taken for the GUI's.
THEOREM UnlockedIsLockedAgain == Spec => []GuiUnlockIsUndone
<1> DEFINE Inv == part = "sends" => SendsInv
<1>1. Init => Inv
  BY SendsInit
<1>2. Inv /\ [Next]_vars => Inv'
  BY SendsNext
<1>3. Inv => GuiUnlockIsUndone
  BY SendsProved!ImpliesUndone, SameUndone DEF SendsInv, GuiUnlockIsUndone
<1> QED
  BY <1>1, <1>2, <1>3, PTL DEF Spec

(***************************************************************************)
(* Activity: the list follows the wallet                                   *)
(***************************************************************************)
wallet == v1
notes == v2
payments == v3
pending == v4
job == v5
records == v6
retry == v7
lastTip == v8
detail == v9
shownRows == v10
proxy == v11
flags == v12
USE DEF wallet, notes, payments, pending, job, records, retry, lastTip, detail, shownRows, proxy, flags

Table(recs) == DOMAIN recs \subseteq Txids /\ recs = [t \in DOMAIN recs |-> recs[t]]
JobOK(j) ==
  /\ j = [work |-> j.work, stage |-> j.stage, superseded |-> j.superseded, otherDetail |-> j.otherDetail,
          records |-> j.records, retry |-> j.retry, tip |-> j.tip, detail |-> j.detail, flow |-> j.flow,
          changed |-> j.changed]
  /\ j.stage \in {"records", "tip", "statuses", "done"}
  /\ j.superseded \in BOOLEAN /\ j.otherDetail \in BOOLEAN /\ j.changed \in BOOLEAN
  /\ Table(j.records) /\ j.tip \in Int /\ j.tip <= wallet.tip
  /\ j.stage = "records" => j.records = records /\ j.retry = retry /\ j.tip = lastTip
  /\ ~j.changed => j.records = records
  /\ j.detail \in Txids \cup {"none"} /\ j.flow \in {"none", j.detail}
  /\ ~j.otherDetail => j.detail = detail.txid

ListType ==
  /\ wallet \in [state : [Txids -> Int], tip : Int]
  /\ notes \in Seq(Txids)
  /\ Table(records) /\ lastTip \in Int /\ lastTip <= wallet.tip
  /\ detail \in [txid : Txids \cup {"none"}, flow : Txids \cup {"none"}, loading : BOOLEAN]
  /\ flags \in [scheduled : BOOLEAN, rebuild : BOOLEAN, stopped : BOOLEAN, lost : BOOLEAN]
  /\ \A j, k \in job : j = k
  /\ \A j \in job : JobOK(j)

\* A transaction that will be read again, and one that stands as at some tip
\* since the last one that was read.
Awaited(t) == (\E i \in 1..Len(notes) : notes[i] = t) \/ t \in pending \/ "reload" \in pending
DepthAt(t, tip) == IF wallet.state[t] = -1 THEN -1 ELSE IF wallet.state[t] = 0 THEN 0 ELSE tip - wallet.state[t] + 1
Stands(recs, t) == t \in DOMAIN recs <=> t \in List!Present
Depicted(recs, from, t) ==
  Stands(recs, t) /\ (t \in DOMAIN recs => \E tip \in from..wallet.tip : recs[t] = DepthAt(t, tip))

RecordsInv ==
  ~flags.stopped /\ ~flags.lost =>
    \A t \in Txids : \/ Awaited(t) \/ t \in retry \/ Depicted(records, lastTip, t)
                     \/ \E j \in job : t \in j.work \/ "reload" \in j.work
ReadInv ==
  \A j \in job : ~flags.stopped /\ ~j.superseded /\ j.stage # "records" /\ (flags.lost => "reload" \in j.work) =>
    \A t \in Txids : \/ Awaited(t) \/ t \in j.retry
                     \/ IF j.stage = "statuses" /\ "statuses" \in j.work THEN Stands(j.records, t)
                                                                         ELSE Depicted(j.records, j.tip, t)
DetailInv ==
  /\ detail.flow \in {"none", detail.txid}
  /\ flags.stopped => ~detail.loading
  /\ detail.loading => "details" \in pending \/ \E j \in job : "details" \in j.work /\ ~j.otherDetail
  /\ pending # {} /\ ~flags.stopped => flags.scheduled \/ job # {}
RowsInv ==
  /\ ~flags.rebuild /\ ~flags.stopped => shownRows = List!RowsOf(records, payments)
  /\ proxy = [filter |-> proxy.filter, balance |-> proxy.balance]
  /\ proxy.balance = List!PendingBalance(proxy.filter, shownRows)

ListInv == ListType /\ RecordsInv /\ ReadInv /\ DetailInv /\ RowsInv

----------------------------------------------------------------------------
(* The read under way, field by field                                        *)

Reading(work, stage, superseded, other, recs, again, tip, txid, flow, changed) ==
  [work |-> work, stage |-> stage, superseded |-> superseded, otherDetail |-> other, records |-> recs,
   retry |-> again, tip |-> tip, detail |-> txid, flow |-> flow, changed |-> changed]

\* A transaction is none of the other things to do.
LEMMA WordsOK == \A t \in Txids : t \notin {"reload", "poll", "details", "statuses", "none"}
  BY TxidsAssumption

LEMMA DepthOK ==
  ASSUME ListInv, NEW t \in Txids
  PROVE  List!Depth(t) = DepthAt(t, wallet.tip)
  BY DEF List!Depth, DepthAt, List!Conflicted, ListInv, ListType

\* What is read now stands as at the wallet's tip.
LEMMA NowOK ==
  ASSUME ListInv, NEW recs, NEW from \in Int, from <= wallet.tip, NEW t \in Txids,
         t \in DOMAIN recs, t \in List!Present, recs[t] = List!Depth(t)
  PROVE  Depicted(recs, from, t)
<1>1. wallet.tip \in from..wallet.tip
  BY DEF ListInv, ListType
<1> HIDE DEF wallet
<1> QED BY <1>1, DepthOK DEF Depicted, Stands

----------------------------------------------------------------------------
(* The wallet                                                                *)

LEMMA EntersInv ==
  ASSUME ListInv, NEW t \in Txids, NEW state \in Int, List!TransactionEnters(t, state)
  PROVE  ListInv'
<1> USE DEF ListInv
<1>1. /\ wallet' = [wallet EXCEPT !.state[t] = state] /\ notes' = Append(notes, t)
      /\ UNCHANGED <<pending, job, records, retry, lastTip, detail, flags, payments, shownRows, proxy>>
  BY DEF List!TransactionEnters, List!listVars
<1>2. /\ wallet' \in [state : [Txids -> Int], tip : Int] /\ wallet'.tip = wallet.tip
      /\ \A x \in Txids : x # t => wallet'.state[x] = wallet.state[x]
  BY <1>1 DEF ListType
<1>3. notes \in Seq(Txids) /\ Len(notes) \in Nat
  BY DEF ListType
<1>4. /\ notes' \in Seq(Txids) /\ Len(notes') = Len(notes) + 1 /\ notes'[Len(notes) + 1] = t
      /\ \A i \in 1..Len(notes) : notes'[i] = notes[i]
  BY <1>1, <1>3, AppendProperties
<1>5. Awaited(t)' /\ \A x \in Txids : Awaited(x) => Awaited(x)'
  <2>1. Len(notes) + 1 \in 1..Len(notes') /\ \A i \in 1..Len(notes) : i \in 1..Len(notes')
    BY <1>3, <1>4
  <2> HIDE DEF notes
  <2> QED BY <1>1, <1>4, <2>1 DEF Awaited
<1>6. \A x \in Txids : x # t => (x \in List!Present <=> x \in List!Present')
  BY <1>2 DEF List!Present
<1> HIDE DEF wallet, notes
<1>7. ListType'
  BY <1>1, <1>2, <1>4 DEF ListType, JobOK
<1>8. \A recs, from : \A x \in Txids : x # t /\ Depicted(recs, from, x) => Depicted(recs, from, x)'
  BY <1>2, <1>6 DEF Depicted, Stands, DepthAt
<1>9. \A recs : \A x \in Txids : x # t /\ Stands(recs, x) => Stands(recs, x)'
  BY <1>6 DEF Stands
<1>10. RecordsInv'
  BY <1>1, <1>5, <1>8 DEF RecordsInv
<1>11. ReadInv'
  BY <1>1, <1>5, <1>8, <1>9 DEF ReadInv
<1>12. DetailInv' /\ RowsInv'
  BY <1>1 DEF DetailInv, RowsInv, List!RowsOf, List!PendingBalance, List!Active, List!Accepted, List!FilterAcceptsRow, List!TypeMatches, List!IsPending
<1> QED BY <1>7, <1>10, <1>11, <1>12

LEMMA BlockInv ==
  ASSUME ListInv, List!BlockConnected
  PROVE  ListInv'
<1> USE DEF ListInv
<1>1. /\ wallet' = [wallet EXCEPT !.tip = @ + 1]
      /\ UNCHANGED <<notes, pending, job, records, retry, lastTip, detail, flags, payments, shownRows, proxy>>
  BY DEF List!BlockConnected, List!listVars
<1>2. /\ wallet' \in [state : [Txids -> Int], tip : Int] /\ wallet'.tip = wallet.tip + 1 /\ wallet'.state = wallet.state
      /\ wallet.tip \in Int
  BY <1>1 DEF ListType
<1>3. List!Present' = List!Present
  BY <1>2 DEF List!Present
<1> HIDE DEF wallet
<1>4. ListType'
  <2>1. \A n \in Int : n <= wallet.tip => n <= wallet.tip + 1
    BY <1>2
  <2>2. lastTip <= wallet'.tip /\ \A j \in job : j.tip <= wallet'.tip
    BY <1>2, <2>1 DEF ListType, JobOK
  <2> QED BY <1>1, <1>2, <2>2 DEF ListType, JobOK
<1>5. \A recs : \A t \in Txids : Stands(recs, t) => Stands(recs, t)'
  BY <1>3 DEF Stands
<1>6. \A recs, from : \A t \in Txids : from \in Int /\ Depicted(recs, from, t) => Depicted(recs, from, t)'
  <2> SUFFICES ASSUME NEW t \in Txids, NEW recs, NEW from \in Int, Depicted(recs, from, t) PROVE Depicted(recs, from, t)'
    OBVIOUS
  <2>1. \A tip \in from..wallet.tip : tip \in from..wallet'.tip /\ DepthAt(t, tip)' = DepthAt(t, tip)
    BY <1>2 DEF DepthAt
  <2> QED BY <1>3, <2>1 DEF Depicted, Stands
<1>7. lastTip \in Int /\ \A j \in job : j.tip \in Int
  BY DEF ListType, JobOK
<1>8. RecordsInv'
  BY <1>1, <1>6, <1>7 DEF RecordsInv, Awaited
<1>9. ReadInv'
  BY <1>1, <1>5, <1>6, <1>7 DEF ReadInv, Awaited
<1>10. DetailInv' /\ RowsInv'
  BY <1>1 DEF DetailInv, RowsInv, List!RowsOf, List!PendingBalance, List!Active, List!Accepted, List!FilterAcceptsRow, List!TypeMatches, List!IsPending
<1> QED BY <1>4, <1>8, <1>9, <1>10

----------------------------------------------------------------------------
(* Work that is asked for                                                    *)

Marked(k, j) ==
  k = Reading(j.work, j.stage, TRUE, j.otherDetail, j.records, j.retry, j.tip, j.detail, j.flow, j.changed)

\* What was superseded is still the one read under way.
LEMMA SupersedeOK ==
  ASSUME ListInv, List!Supersede
  PROVE  /\ \A j, k \in job' : j = k
         /\ job = {} <=> job' = {}
         /\ \A k \in job' : \E j \in job : Marked(k, j)
         /\ \A j \in job : \E k \in job' : Marked(k, j)
<1>1. job' = {[j EXCEPT !.superseded = TRUE] : j \in job} /\ \A j, k \in job : j = k
  BY DEF List!Supersede, ListInv, ListType
<1>2. ASSUME NEW j \in job, NEW k, k = [j EXCEPT !.superseded = TRUE]
      PROVE  Marked(k, j)
  <2>1. j = Reading(j.work, j.stage, j.superseded, j.otherDetail, j.records, j.retry, j.tip, j.detail, j.flow, j.changed)
    BY DEF ListInv, ListType, JobOK, Reading
  <2> QED BY <1>2, <2>1 DEF Reading, Marked
<1> QED BY <1>1, <1>2

\* The shared part of what asks for more work.
LEMMA AskedInv ==
  ASSUME ListInv, NEW work, List!Supersede, List!Schedule(work),
         UNCHANGED <<wallet, records, retry, lastTip, detail, payments, shownRows, proxy>>,
         pending \subseteq work, notes' \in Seq(Txids),
         \A t \in Txids : Awaited(t) => Awaited(t)'
  PROVE  ListInv'
<1> USE DEF ListInv
<1>1. /\ pending' = work /\ flags' = [flags EXCEPT !.scheduled = @ \/ (~flags.stopped /\ work # {} /\ job' = {})]
      /\ flags \in [scheduled : BOOLEAN, rebuild : BOOLEAN, stopped : BOOLEAN, lost : BOOLEAN]
  BY DEF List!Schedule, ListType
<1>2. /\ flags' \in [scheduled : BOOLEAN, rebuild : BOOLEAN, stopped : BOOLEAN, lost : BOOLEAN]
      /\ flags'.stopped = flags.stopped /\ flags'.lost = flags.lost /\ flags'.rebuild = flags.rebuild
      /\ flags'.scheduled <=> flags.scheduled \/ (~flags.stopped /\ work # {} /\ job' = {})
  BY <1>1
<1>3. ASSUME NEW j \in job, NEW k, Marked(k, j)
      PROVE  /\ k.work = j.work /\ k.superseded /\ k.otherDetail = j.otherDetail
             /\ JobOK(k)'
  <2>1. /\ k.work = j.work /\ k.stage = j.stage /\ k.superseded = TRUE /\ k.otherDetail = j.otherDetail /\ k.records = j.records
        /\ k.retry = j.retry /\ k.tip = j.tip /\ k.detail = j.detail /\ k.flow = j.flow /\ k.changed = j.changed
        /\ k = Reading(k.work, k.stage, k.superseded, k.otherDetail, k.records, k.retry, k.tip, k.detail, k.flow, k.changed)
    BY <1>3 DEF Marked, Reading
  <2>2. JobOK(j)
    BY DEF ListType
  <2> QED BY <2>1, <2>2 DEF JobOK, Reading
<1> HIDE DEF flags, job, notes
<1>4. ListType'
  <2>1. \A k \in job' : JobOK(k)'
    BY <1>3, SupersedeOK
  <2>2. \A j, k \in job' : j = k
    BY SupersedeOK
  <2> QED BY <1>2, <2>1, <2>2 DEF ListType
<1>5. \A recs, from : \A t \in Txids : Depicted(recs, from, t) => Depicted(recs, from, t)'
  BY DEF Depicted, Stands, DepthAt, List!Present
<1>6. \A t \in Txids : (\E j \in job : t \in j.work \/ "reload" \in j.work) => \E k \in job' : t \in k.work \/ "reload" \in k.work
  BY <1>3, SupersedeOK
<1>7. RecordsInv'
  BY <1>2, <1>5, <1>6 DEF RecordsInv
<1>8. ReadInv'
  BY <1>3, SupersedeOK DEF ReadInv
<1>9. DetailInv'
  <2>1. (\E j \in job : "details" \in j.work /\ ~j.otherDetail) => \E k \in job' : "details" \in k.work /\ ~k.otherDetail
    BY <1>3, SupersedeOK
  <2>2. pending' # {} /\ ~flags'.stopped => flags'.scheduled \/ job' # {}
    BY <1>1, <1>2
  <2> QED BY <1>1, <1>2, <2>1, <2>2 DEF DetailInv
<1>10. RowsInv'
  BY <1>2 DEF RowsInv, List!RowsOf, List!PendingBalance, List!Active, List!Accepted, List!FilterAcceptsRow,
    List!TypeMatches, List!IsPending
<1> QED BY <1>4, <1>7, <1>8, <1>9, <1>10

LEMMA ReloadInv ==
  ASSUME ListInv, List!Reload
  PROVE  ListInv'
<1>1. /\ List!Supersede /\ List!Schedule(pending \cup {"reload"})
      /\ UNCHANGED <<wallet, notes, records, retry, lastTip, detail, payments, shownRows, proxy>>
  BY DEF List!Reload, List!walletVars, List!listVars
<1>2. notes' \in Seq(Txids)
  BY <1>1 DEF ListInv, ListType
<1>3. \A t \in Txids : Awaited(t) => Awaited(t)'
  BY <1>1 DEF Awaited, List!Schedule
<1> QED BY <1>1, <1>2, <1>3, AskedInv

LEMMA UpdateInv ==
  ASSUME ListInv, List!UpdateTransaction
  PROVE  ListInv'
<1>1. /\ List!Supersede /\ List!Schedule(pending \cup {Head(notes)}) /\ notes # << >> /\ notes' = Tail(notes)
      /\ UNCHANGED <<wallet, records, retry, lastTip, detail, payments, shownRows, proxy>>
  BY DEF List!UpdateTransaction, List!listVars
<1>2. notes \in Seq(Txids) /\ Len(notes) \in Nat
  BY DEF ListInv, ListType
<1>3. /\ Head(notes) = notes[1] /\ notes' \in Seq(Txids) /\ Len(notes') = Len(notes) - 1
      /\ \A i \in 1..Len(notes') : notes'[i] = notes[i + 1]
  BY <1>1, <1>2, HeadTailProperties
<1>4. \A t \in Txids : Awaited(t) => Awaited(t)'
  <2> SUFFICES ASSUME NEW t \in Txids, Awaited(t) PROVE Awaited(t)'
    OBVIOUS
  <2>1. pending' = pending \cup {Head(notes)}
    BY <1>1 DEF List!Schedule
  <2>2. CASE t \in pending \/ "reload" \in pending
    BY <2>1, <2>2 DEF Awaited
  <2>3. CASE \E i \in 1..Len(notes) : notes[i] = t
    <3> HIDE DEF notes
    <3>1. PICK i \in 1..Len(notes) : notes[i] = t
      BY <2>3
    <3>2. CASE i = 1
      BY <1>3, <2>1, <3>1, <3>2 DEF Awaited
    <3>3. CASE i # 1
      <4>1. i - 1 \in 1..Len(notes') /\ notes'[i - 1] = notes[i]
        BY <1>2, <1>3, <3>3
      <4> QED BY <3>1, <4>1 DEF Awaited
    <3> QED BY <3>2, <3>3
  <2> QED BY <2>2, <2>3 DEF Awaited
<1> QED BY <1>1, <1>3, <1>4, AskedInv

\* What the list shows depends on the records, the requests and the filter alone.
LEMMA RowsKept ==
  ASSUME ListInv, UNCHANGED <<records, payments, shownRows, proxy>>,
         ~flags'.rebuild /\ ~flags'.stopped => ~flags.rebuild /\ ~flags.stopped
  PROVE  RowsInv'
  BY DEF ListInv, RowsInv, List!RowsOf, List!PendingBalance, List!Active, List!Accepted, List!FilterAcceptsRow,
    List!TypeMatches, List!IsPending

\* What schedule leaves of the flags.
LEMMA ScheduleOK ==
  ASSUME ListInv, NEW work, List!Schedule(work)
  PROVE  /\ pending' = work
         /\ flags' \in [scheduled : BOOLEAN, rebuild : BOOLEAN, stopped : BOOLEAN, lost : BOOLEAN]
         /\ flags'.stopped = flags.stopped /\ flags'.lost = flags.lost /\ flags'.rebuild = flags.rebuild
         /\ work # {} /\ ~flags'.stopped /\ (pending # {} => flags.scheduled \/ job # {} \/ job' = {}) =>
              flags'.scheduled \/ job' # {}
<1>1. /\ pending' = work /\ flags' = [flags EXCEPT !.scheduled = @ \/ (~flags.stopped /\ work # {} /\ job' = {})]
      /\ flags \in [scheduled : BOOLEAN, rebuild : BOOLEAN, stopped : BOOLEAN, lost : BOOLEAN]
  BY DEF List!Schedule, ListInv, ListType
<1>2. /\ flags' \in [scheduled : BOOLEAN, rebuild : BOOLEAN, stopped : BOOLEAN, lost : BOOLEAN]
      /\ flags'.stopped = flags.stopped /\ flags'.lost = flags.lost /\ flags'.rebuild = flags.rebuild
      /\ flags'.scheduled <=> flags.scheduled \/ (~flags.stopped /\ work # {} /\ job' = {})
  BY <1>1
<1> QED BY <1>1, <1>2

LEMMA PollInv ==
  ASSUME ListInv, List!Poll
  PROVE  ListInv'
<1> USE DEF ListInv
<1>1. /\ UNCHANGED job /\ List!Schedule(pending \cup {"poll"})
      /\ UNCHANGED <<wallet, notes, records, retry, lastTip, detail, payments, shownRows, proxy>>
  BY DEF List!Poll, List!walletVars, List!listVars
<1>2. /\ pending' = pending \cup {"poll"}
      /\ flags' \in [scheduled : BOOLEAN, rebuild : BOOLEAN, stopped : BOOLEAN, lost : BOOLEAN]
      /\ flags'.stopped = flags.stopped /\ flags'.lost = flags.lost /\ flags'.rebuild = flags.rebuild
      /\ ~flags'.stopped => flags'.scheduled \/ job' # {}
  BY <1>1, ScheduleOK
<1> HIDE DEF flags
<1>3. ListType'
  BY <1>1, <1>2 DEF ListType, JobOK
<1>4. /\ \A t \in Txids : Awaited(t) => Awaited(t)'
      /\ \A recs, from : \A t \in Txids : Depicted(recs, from, t) => Depicted(recs, from, t)'
      /\ \A recs : \A t \in Txids : Stands(recs, t) => Stands(recs, t)'
  BY <1>1, <1>2 DEF Awaited, Depicted, Stands, DepthAt, List!Present
<1>5. RecordsInv'
  BY <1>1, <1>2, <1>4 DEF RecordsInv
<1>6. ReadInv'
  BY <1>1, <1>2, <1>4 DEF ReadInv
<1>7. DetailInv'
  BY <1>1, <1>2 DEF DetailInv
<1>8. RowsInv'
  BY <1>1, <1>2, RowsKept
<1> QED BY <1>3, <1>5, <1>6, <1>7, <1>8

Turned(k, j) ==
  k = Reading(j.work, j.stage, j.superseded, TRUE, j.records, j.retry, j.tip, j.detail, j.flow, j.changed)

\* The read under way is about the details of another transaction.
LEMMA RequestDetailsInv ==
  ASSUME ListInv, NEW t \in Txids \cup {"none"}, List!RequestTransactionDetails(t)
  PROVE  ListInv'
<1> USE DEF ListInv
<1> DEFINE flow == IF detail.txid = t /\ detail.flow # "none" THEN detail.flow
                   ELSE IF t \in DOMAIN records THEN t ELSE "none"
           work == IF t = "none" THEN pending \ {"details"} ELSE pending \cup {"details"}
<1>1. /\ ~flags.stopped /\ job' = {[j EXCEPT !.otherDetail = TRUE] : j \in job}
      /\ detail' = [txid |-> t, loading |-> t # "none", flow |-> flow] /\ List!Schedule(work)
      /\ UNCHANGED <<wallet, notes, records, retry, lastTip, payments, shownRows, proxy>>
  BY DEF List!RequestTransactionDetails, List!walletVars, List!listVars
<1>2. flow \in {"none", t} /\ flow \in Txids \cup {"none"}
  BY DEF DetailInv
<1> HIDE DEF flow
<1>3. /\ detail' \in [txid : Txids \cup {"none"}, flow : Txids \cup {"none"}, loading : BOOLEAN]
      /\ detail'.flow \in {"none", detail'.txid} /\ (detail'.loading <=> t # "none") /\ detail'.txid = t
  BY <1>1, <1>2
<1>4. /\ pending' = work
      /\ flags' \in [scheduled : BOOLEAN, rebuild : BOOLEAN, stopped : BOOLEAN, lost : BOOLEAN]
      /\ flags'.stopped = flags.stopped /\ flags'.lost = flags.lost /\ flags'.rebuild = flags.rebuild
      /\ work # {} => flags'.scheduled \/ job' # {}
  <2>1. ~flags.stopped /\ (job' = {} => job = {})
    BY <1>1
  <2>2. pending # {} => flags.scheduled \/ job # {} \/ job' = {}
    BY <1>1 DEF DetailInv
  <2> HIDE DEF work
  <2> QED BY <1>1, <2>1, <2>2, ScheduleOK
<1>5. ASSUME NEW j \in job, NEW k, k = [j EXCEPT !.otherDetail = TRUE] PROVE Turned(k, j)
  <2>1. j = Reading(j.work, j.stage, j.superseded, j.otherDetail, j.records, j.retry, j.tip, j.detail, j.flow, j.changed)
    BY DEF ListType, JobOK, Reading
  <2> QED BY <1>5, <2>1 DEF Reading, Turned
<1>6. /\ \A j, k \in job' : j = k
      /\ \A k \in job' : \E j \in job : Turned(k, j)
      /\ \A j \in job : \E k \in job' : Turned(k, j)
  BY <1>1, <1>5 DEF ListType
<1>7. ASSUME NEW j \in job, NEW k, Turned(k, j)
      PROVE  /\ k.work = j.work /\ k.stage = j.stage /\ k.superseded = j.superseded /\ k.retry = j.retry
             /\ k.records = j.records /\ k.tip = j.tip /\ JobOK(k)'
  <2>1. /\ k.work = j.work /\ k.stage = j.stage /\ k.superseded = j.superseded /\ k.otherDetail = TRUE /\ k.records = j.records
        /\ k.retry = j.retry /\ k.tip = j.tip /\ k.detail = j.detail /\ k.flow = j.flow /\ k.changed = j.changed
        /\ k = Reading(k.work, k.stage, k.superseded, k.otherDetail, k.records, k.retry, k.tip, k.detail, k.flow, k.changed)
    BY <1>7 DEF Turned, Reading
  <2>2. JobOK(j)
    BY DEF ListType
  <2> QED BY <1>1, <2>1, <2>2 DEF JobOK, Reading
<1> HIDE DEF flags, job, detail
<1>8. ListType'
  BY <1>1, <1>3, <1>4, <1>6, <1>7 DEF ListType
<1>9. /\ \A x \in Txids : Awaited(x) => Awaited(x)'
      /\ \A recs, from : \A x \in Txids : Depicted(recs, from, x) => Depicted(recs, from, x)'
      /\ \A recs : \A x \in Txids : Stands(recs, x) => Stands(recs, x)'
  BY <1>1, <1>4, WordsOK DEF Awaited, Depicted, Stands, DepthAt, List!Present
<1>10. \A x \in Txids : (\E j \in job : x \in j.work \/ "reload" \in j.work) => \E k \in job' : x \in k.work \/ "reload" \in k.work
  BY <1>6, <1>7
<1>11. RecordsInv'
  BY <1>1, <1>4, <1>9, <1>10 DEF RecordsInv
<1>12. ReadInv'
  <2> SUFFICES ASSUME NEW k \in job', ~flags'.stopped, ~k.superseded, k.stage # "records", flags'.lost => "reload" \in k.work,
                      NEW x \in Txids
               PROVE  \/ Awaited(x)' \/ x \in k.retry
                      \/ IF k.stage = "statuses" /\ "statuses" \in k.work THEN Stands(k.records, x)'
                                                                          ELSE Depicted(k.records, k.tip, x)'
    BY DEF ReadInv
  <2>1. PICK j \in job : Turned(k, j)
    BY <1>6
  <2>2. /\ k.work = j.work /\ k.stage = j.stage /\ k.superseded = j.superseded /\ k.retry = j.retry
        /\ k.records = j.records /\ k.tip = j.tip
    BY <1>7, <2>1
  <2>3. \/ Awaited(x) \/ x \in j.retry
        \/ IF j.stage = "statuses" /\ "statuses" \in j.work THEN Stands(j.records, x) ELSE Depicted(j.records, j.tip, x)
    BY <1>4, <2>2 DEF ReadInv
  <2> QED BY <1>9, <2>2, <2>3
<1>13. DetailInv'
  BY <1>1, <1>3, <1>4 DEF DetailInv
<1>14. RowsInv'
  BY <1>1, <1>4, RowsKept
<1> QED BY <1>8, <1>11, <1>12, <1>13, <1>14

LEMMA StartInv ==
  ASSUME ListInv, List!StartWork
  PROVE  ListInv'
<1> USE DEF ListInv
<1> DEFINE begun == Reading(pending, "records", FALSE, FALSE, records, retry, lastTip, detail.txid, detail.flow, FALSE)
           waits == flags.stopped \/ job # {} \/ pending = {}
<1>1. /\ flags' = [flags EXCEPT !.scheduled = FALSE]
      /\ flags \in [scheduled : BOOLEAN, rebuild : BOOLEAN, stopped : BOOLEAN, lost : BOOLEAN]
      /\ UNCHANGED <<wallet, notes, records, retry, lastTip, detail, payments, shownRows, proxy>>
      /\ waits => UNCHANGED <<pending, job>>
      /\ ~waits => pending' = {} /\ job' = {begun}
  BY DEF List!StartWork, List!walletVars, List!listVars, ListType, Reading
<1>2. /\ flags' \in [scheduled : BOOLEAN, rebuild : BOOLEAN, stopped : BOOLEAN, lost : BOOLEAN]
      /\ flags'.stopped = flags.stopped /\ flags'.lost = flags.lost /\ flags'.rebuild = flags.rebuild
  BY <1>1
<1> HIDE DEF flags
<1>3. /\ \A recs, from : \A t \in Txids : Depicted(recs, from, t) => Depicted(recs, from, t)'
      /\ \A recs : \A t \in Txids : Stands(recs, t) => Stands(recs, t)'
  BY <1>1 DEF Depicted, Stands, DepthAt, List!Present
<1>4. RowsInv'
  BY <1>1, <1>2, RowsKept
<1>5. CASE waits
  <2>1. ListType'
    BY <1>1, <1>2, <1>5 DEF ListType, JobOK
  <2>2. RecordsInv' /\ ReadInv'
    BY <1>1, <1>2, <1>3, <1>5 DEF RecordsInv, ReadInv, Awaited
  <2>3. DetailInv'
    BY <1>1, <1>2, <1>5 DEF DetailInv
  <2> QED BY <1>4, <2>1, <2>2, <2>3
<1>6. CASE ~waits
  <2> PICK k : k = begun
    OBVIOUS
  <2>1. /\ k.work = pending /\ k.stage = "records" /\ k.superseded = FALSE /\ k.otherDetail = FALSE
        /\ k.records = records /\ k.retry = retry /\ k.tip = lastTip /\ k.detail = detail.txid
        /\ k.flow = detail.flow /\ k.changed = FALSE
        /\ k = Reading(k.work, k.stage, k.superseded, k.otherDetail, k.records, k.retry,
                           k.tip, k.detail, k.flow, k.changed)
    BY DEF Reading
  <2>2. job' = {k}
    BY <1>1, <1>6
  <2> HIDE DEF begun
  <2>3. JobOK(k)'
    BY <1>1, <2>1 DEF JobOK, Reading, ListType, DetailInv
  <2>4. ListType'
    BY <1>1, <1>2, <1>6, <2>3, <2>2 DEF ListType
  <2>5. RecordsInv'
    BY <1>1, <1>2, <1>3, <1>6, <2>1, <2>2 DEF RecordsInv, Awaited
  <2>6. ReadInv'
    BY <1>1, <1>6, <2>1, <2>2 DEF ReadInv
  <2>7. DetailInv'
    BY <1>1, <1>2, <1>6, <2>1, <2>2 DEF DetailInv
  <2> QED BY <1>4, <2>4, <2>5, <2>6, <2>7
<1> QED BY <1>5, <1>6

----------------------------------------------------------------------------
(* The read, on the wallet's executor                                        *)

ReadSoFar(j, t) ==
  \/ Awaited(t) \/ t \in j.retry
  \/ IF j.stage = "statuses" /\ "statuses" \in j.work THEN Stands(j.records, t) ELSE Depicted(j.records, j.tip, t)
Counts(j) == ~flags.stopped /\ ~j.superseded /\ (flags.lost => "reload" \in j.work)

\* A call of the wallet changes the read under way alone.
LEMMA WorkerInv ==
  ASSUME ListInv, NEW j \in job, NEW k, job' = {k}, JobOK(k),
         UNCHANGED <<wallet, notes, pending, records, retry, lastTip, detail, flags, payments, shownRows, proxy>>,
         j.work \subseteq k.work, k.otherDetail = j.otherDetail, k.stage # "records",
         Counts(k) => \A t \in Txids : ReadSoFar(k, t)
  PROVE  ListInv'
<1> USE DEF ListInv
<1> HIDE DEF job
<1>1. JobOK(k)'
  BY DEF JobOK
<1>2. ListType'
  BY <1>1 DEF ListType
<1>3. /\ \A t \in Txids : Awaited(t) => Awaited(t)'
      /\ \A recs, from : \A t \in Txids : Depicted(recs, from, t) => Depicted(recs, from, t)'
      /\ \A recs : \A t \in Txids : Stands(recs, t) => Stands(recs, t)'
  BY DEF Awaited, Depicted, Stands, DepthAt, List!Present
<1>4. \A i \in job : i = j
  BY DEF ListType
<1>5. RecordsInv'
  BY <1>3, <1>4 DEF RecordsInv
<1>6. ReadInv'
  <2> SUFFICES ASSUME Counts(k), NEW t \in Txids
               PROVE  \/ Awaited(t)' \/ t \in k.retry
                      \/ IF k.stage = "statuses" /\ "statuses" \in k.work THEN Stands(k.records, t)'
                                                                          ELSE Depicted(k.records, k.tip, t)'
    BY DEF ReadInv, Counts
  <2>1. ReadSoFar(k, t)
    OBVIOUS
  <2> QED BY <1>3, <2>1 DEF ReadSoFar
<1>7. DetailInv'
  BY <1>4 DEF DetailInv
<1>8. RowsInv'
  BY RowsKept
<1> QED BY <1>2, <1>5, <1>6, <1>7, <1>8

LEMMA ReadRecordsInv ==
  ASSUME ListInv, NEW read \in BOOLEAN, List!ReadRecords(read)
  PROVE  ListInv'
<1> USE DEF ListInv
<1>1. PICK j \in job :
        /\ j.stage = "records"
        /\ LET reload == "reload" \in j.work
               asked  == Txids \cap (j.work \cup (IF reload THEN Txids ELSE {}))
               keep   == (DOMAIN j.records \ asked) \cup (asked \cap List!Present)
           IN job' = {[j EXCEPT !.stage = "tip",
                         !.records = [t \in keep |-> IF t \in asked THEN List!StatusRead(j, t, read) ELSE j.records[t]],
                         !.retry = IF read THEN @ \ asked ELSE (@ \ asked) \cup (asked \cap List!Present),
                         !.changed = asked # {} \/ reload]}
  BY DEF List!ReadRecords
<1>2. UNCHANGED <<wallet, notes, pending, records, retry, lastTip, detail, flags, payments, shownRows, proxy>>
  BY DEF List!ReadRecords, List!walletVars, List!listVars
<1>3. JobOK(j) /\ j.records = records /\ j.retry = retry /\ j.tip = lastTip
  BY <1>1 DEF ListType, JobOK
<1> DEFINE reload == "reload" \in j.work
           asked  == Txids \cap (j.work \cup (IF reload THEN Txids ELSE {}))
           keep   == (DOMAIN j.records \ asked) \cup (asked \cap List!Present)
           recs == [t \in keep |-> IF t \in asked THEN List!StatusRead(j, t, read) ELSE j.records[t]]
           again == IF read THEN j.retry \ asked ELSE (j.retry \ asked) \cup (asked \cap List!Present)
           changed == asked # {} \/ reload
<1>4. PICK k : k = [j EXCEPT !.stage = "tip", !.records = recs, !.retry = again, !.changed = changed]
  OBVIOUS
<1>5. job' = {k}
  BY <1>1, <1>4
<1>6. asked \subseteq Txids /\ keep \subseteq Txids /\ (reload => asked = Txids) /\ (~reload => asked = Txids \cap j.work)
  BY <1>3 DEF JobOK, Table
<1>7. /\ Table(recs) /\ DOMAIN recs = keep
      /\ \A t \in keep : recs[t] = IF t \in asked THEN List!StatusRead(j, t, read) ELSE j.records[t]
      /\ ~changed => recs = j.records
  <2>1. ~changed => keep = DOMAIN j.records
    OBVIOUS
  <2>2. j.records = [t \in DOMAIN j.records |-> j.records[t]]
    BY <1>3 DEF JobOK, Table
  <2>3. asked = {} => recs = [t \in keep |-> j.records[t]]
    OBVIOUS
  <2>4. ~changed => recs = j.records
    BY <2>1, <2>2, <2>3
  <2> HIDE DEF keep, asked, changed
  <2> QED BY <1>6, <2>4 DEF Table
<1>8. \A t \in asked : \/ t \in again
                       \/ t \in DOMAIN recs /\ t \in List!Present /\ recs[t] = List!Depth(t)
                       \/ t \notin DOMAIN recs /\ t \notin List!Present
  <2>1. \A t \in asked : (t \in keep <=> t \in List!Present) /\ (t \in List!Present /\ ~read => t \in again)
    OBVIOUS
  <2> HIDE DEF keep, asked, again, recs
  <2> QED BY <1>7, <2>1 DEF List!StatusRead
<1>9. \A t \in Txids \ asked : /\ t \in DOMAIN recs <=> t \in DOMAIN j.records
                               /\ t \in DOMAIN recs => recs[t] = j.records[t]
                               /\ t \in j.retry => t \in again
  <2>1. \A t \in Txids \ asked : (t \in keep <=> t \in DOMAIN j.records) /\ (t \in j.retry => t \in again)
    OBVIOUS
  <2> HIDE DEF keep, asked, again, recs
  <2> QED BY <1>7, <2>1
<1>10. changed \in BOOLEAN
  OBVIOUS
<1> HIDE DEF recs, again, changed, keep
<1>11. /\ k.work = j.work /\ k.stage = "tip" /\ k.superseded = j.superseded /\ k.otherDetail = j.otherDetail /\ k.records = recs
       /\ k.retry = again /\ k.tip = j.tip /\ k.detail = j.detail /\ k.flow = j.flow /\ k.changed = changed
       /\ k = Reading(k.work, k.stage, k.superseded, k.otherDetail, k.records, k.retry, k.tip, k.detail, k.flow, k.changed)
  <2>1. j = Reading(j.work, j.stage, j.superseded, j.otherDetail, j.records, j.retry, j.tip, j.detail, j.flow, j.changed)
    BY <1>3 DEF JobOK, Reading
  <2>2. k = Reading(j.work, "tip", j.superseded, j.otherDetail, recs, again, j.tip, j.detail, j.flow, changed)
    BY <1>4, <2>1 DEF Reading
  <2> QED BY <2>2 DEF Reading
<1>12. JobOK(k)
  BY <1>3, <1>7, <1>10, <1>11 DEF JobOK, Reading
<1>13. ASSUME Counts(k), NEW t \in Txids PROVE ReadSoFar(k, t)
  <2>1. lastTip \in Int /\ lastTip <= wallet.tip
    BY DEF ListType
  <2>2. CASE t \in asked
    <3>1. CASE t \in again
      BY <1>11, <3>1 DEF ReadSoFar
    <3>2. CASE t \in DOMAIN recs /\ t \in List!Present /\ recs[t] = List!Depth(t)
      <4>1. Depicted(recs, lastTip, t)
        BY <2>1, <3>2, NowOK
      <4> QED BY <1>3, <1>11, <4>1 DEF ReadSoFar
    <3>3. CASE t \notin DOMAIN recs /\ t \notin List!Present
      BY <1>11, <3>3 DEF ReadSoFar, Depicted, Stands
    <3> QED BY <1>8, <2>2, <3>1, <3>2, <3>3
  <2>3. CASE t \notin asked
    <3>1. ~reload /\ t \notin j.work /\ ~flags.lost /\ ~flags.stopped
      BY <1>6, <1>11, <1>13, <2>3 DEF Counts
    <3>2. \A i \in job : i = j
      BY DEF ListType
    <3>3. Awaited(t) \/ t \in retry \/ Depicted(records, lastTip, t)
      BY <3>1, <3>2 DEF RecordsInv
    <3>4. Depicted(records, lastTip, t) => Depicted(recs, lastTip, t)
      BY <1>3, <1>9, <2>3 DEF Depicted, Stands
    <3> QED BY <1>3, <1>9, <1>11, <2>3, <3>3, <3>4 DEF ReadSoFar
  <2> QED BY <2>2, <2>3
<1> QED BY <1>2, <1>5, <1>11, <1>12, <1>13, WorkerInv

LEMMA ReadTipInv ==
  ASSUME ListInv, List!ReadTip
  PROVE  ListInv'
<1> USE DEF ListInv
<1>1. PICK j \in job :
        /\ j.stage = "tip"
        /\ LET newTip == "poll" \in j.work /\ j.tip # wallet.tip
           IN job' = {[j EXCEPT !.stage = "statuses", !.tip = IF newTip THEN wallet.tip ELSE @,
                                !.work = IF newTip THEN @ \cup {"statuses"} ELSE @]}
  BY DEF List!ReadTip
<1>2. UNCHANGED <<wallet, notes, pending, records, retry, lastTip, detail, flags, payments, shownRows, proxy>>
  BY DEF List!ReadTip, List!walletVars, List!listVars
<1>3. JobOK(j) /\ wallet.tip \in Int
  BY DEF ListType
<1> DEFINE newTip == "poll" \in j.work /\ j.tip # wallet.tip
           tip == IF newTip THEN wallet.tip ELSE j.tip
           work == IF newTip THEN j.work \cup {"statuses"} ELSE j.work
<1>4. PICK k : k = [j EXCEPT !.stage = "statuses", !.tip = tip, !.work = work]
  OBVIOUS
<1>5. job' = {k}
  BY <1>1, <1>4
<1>6. /\ tip \in Int /\ tip <= wallet.tip /\ j.work \subseteq work /\ ("reload" \in work => "reload" \in j.work)
      /\ ~newTip => work = j.work /\ tip = j.tip
      /\ newTip => "statuses" \in work
  BY <1>3 DEF JobOK
<1> HIDE DEF newTip, tip, work
<1>7. /\ k.work = work /\ k.stage = "statuses" /\ k.superseded = j.superseded /\ k.otherDetail = j.otherDetail
      /\ k.records = j.records
      /\ k.retry = j.retry /\ k.tip = tip /\ k.detail = j.detail /\ k.flow = j.flow /\ k.changed = j.changed
      /\ k = Reading(k.work, k.stage, k.superseded, k.otherDetail, k.records, k.retry, k.tip, k.detail, k.flow, k.changed)
  <2>1. j = Reading(j.work, j.stage, j.superseded, j.otherDetail, j.records, j.retry, j.tip, j.detail, j.flow, j.changed)
    BY <1>3 DEF JobOK, Reading
  <2>2. k = Reading(work, "statuses", j.superseded, j.otherDetail, j.records, j.retry, tip, j.detail, j.flow, j.changed)
    BY <1>4, <2>1 DEF Reading
  <2> QED BY <2>2 DEF Reading
<1>8. JobOK(k)
  BY <1>1, <1>3, <1>6, <1>7 DEF JobOK, Reading
<1>9. ASSUME Counts(k), NEW t \in Txids PROVE ReadSoFar(k, t)
  <2>1. Awaited(t) \/ t \in j.retry \/ Depicted(j.records, j.tip, t)
    BY <1>1, <1>6, <1>7, <1>9 DEF ReadInv, Counts
  <2>2. CASE "statuses" \in work
    BY <1>7, <2>1, <2>2 DEF ReadSoFar, Depicted
  <2>3. CASE "statuses" \notin work
    BY <1>6, <1>7, <2>1, <2>3 DEF ReadSoFar
  <2> QED BY <2>2, <2>3
<1> QED BY <1>2, <1>5, <1>6, <1>7, <1>8, <1>9, WorkerInv

\* The statuses that are read again.
LEMMA StatusesOK ==
  ASSUME ListInv, NEW j \in job, j.stage = "statuses", NEW read \in BOOLEAN, NEW k, k = List!StatusesRead(j, read)
  PROVE  /\ JobOK(k) /\ k.work = j.work /\ k.stage = "statuses" /\ k.superseded = j.superseded /\ k.otherDetail = j.otherDetail
         /\ k.tip = j.tip /\ DOMAIN k.records = DOMAIN j.records
         /\ Counts(k) => \A t \in Txids : Awaited(t) \/ t \in k.retry \/ Depicted(k.records, k.tip, t)
<1> USE DEF ListInv
<1>1. JobOK(j)
  BY DEF ListType
<1> DEFINE asked == IF "statuses" \in j.work THEN DOMAIN j.records
                    ELSE IF "poll" \in j.work THEN DOMAIN j.records \cap j.retry ELSE {}
           known == IF read THEN asked \cap List!Present ELSE {}
           recs == [t \in DOMAIN j.records |-> IF t \in known THEN List!Depth(t) ELSE j.records[t]]
           again == (j.retry \cup asked) \ known
           changed == j.changed \/ "statuses" \in j.work \/ ("poll" \in j.work /\ j.retry # {})
<1>2. k = [j EXCEPT !.records = recs, !.retry = again, !.changed = changed]
  BY DEF List!StatusesRead
<1>3. /\ Table(recs) /\ DOMAIN recs = DOMAIN j.records
      /\ \A t \in DOMAIN recs : recs[t] = IF t \in known THEN List!Depth(t) ELSE j.records[t]
  <2>1. DOMAIN j.records \subseteq Txids
    BY <1>1 DEF JobOK, Table
  <2> HIDE DEF known
  <2> QED BY <2>1 DEF Table
<1>4. changed \in BOOLEAN /\ (~changed => recs = j.records /\ ~j.changed)
  <2>1. ~changed => asked = {}
    OBVIOUS
  <2>2. ~changed => \A t : t \notin known
    BY <2>1
  <2>3. j.records = [t \in DOMAIN j.records |-> j.records[t]] /\ j.changed \in BOOLEAN
    BY <1>1 DEF JobOK, Table
  <2> HIDE DEF known, asked
  <2> QED BY <2>2, <2>3
<1>5. /\ known \subseteq asked /\ known \subseteq List!Present /\ asked \subseteq DOMAIN j.records
      /\ \A t \in asked : t \in again \/ t \in known
      /\ \A t \in j.retry : t \in again \/ t \in known
      /\ "statuses" \in j.work => asked = DOMAIN j.records
  OBVIOUS
<1> HIDE DEF recs, again, changed, known, asked
<1>6. /\ k.work = j.work /\ k.stage = "statuses" /\ k.superseded = j.superseded /\ k.otherDetail = j.otherDetail
      /\ k.records = recs
      /\ k.retry = again /\ k.tip = j.tip /\ k.detail = j.detail /\ k.flow = j.flow /\ k.changed = changed
      /\ k = Reading(k.work, k.stage, k.superseded, k.otherDetail, k.records, k.retry, k.tip, k.detail, k.flow, k.changed)
  <2>1. j = Reading(j.work, "statuses", j.superseded, j.otherDetail, j.records, j.retry, j.tip, j.detail, j.flow, j.changed)
    BY <1>1 DEF JobOK, Reading
  <2>2. k = Reading(j.work, "statuses", j.superseded, j.otherDetail, recs, again, j.tip, j.detail, j.flow, changed)
    BY <1>2, <2>1 DEF Reading
  <2> QED BY <2>2 DEF Reading
<1>7. JobOK(k)
  BY <1>1, <1>3, <1>4, <1>6 DEF JobOK, Reading
<1>8. ASSUME Counts(k), NEW t \in Txids PROVE Awaited(t) \/ t \in again \/ Depicted(recs, j.tip, t)
  <2>1. j.tip \in Int /\ j.tip <= wallet.tip
    BY <1>1 DEF JobOK
  <2>2. Awaited(t) \/ t \in j.retry \/ IF "statuses" \in j.work THEN Stands(j.records, t) ELSE Depicted(j.records, j.tip, t)
    BY <1>6, <1>8 DEF ReadInv, Counts
  <2>3. CASE t \in known
    <3>1. t \in DOMAIN recs /\ t \in List!Present /\ recs[t] = List!Depth(t)
      BY <1>3, <1>5, <2>3
    <3> QED BY <2>1, <3>1, NowOK
  <2>4. CASE t \notin known
    <3>1. t \in j.retry => t \in again
      BY <1>5, <2>4
    <3>2. CASE "statuses" \in j.work
      <4>1. Stands(j.records, t) => t \in again \/ Depicted(recs, j.tip, t)
        BY <1>3, <1>5, <2>4, <3>2 DEF Stands, Depicted
      <4> QED BY <2>2, <3>1, <3>2, <4>1
    <3>3. CASE "statuses" \notin j.work
      <4>1. Depicted(j.records, j.tip, t) => Depicted(recs, j.tip, t)
        BY <1>3, <2>4 DEF Stands, Depicted
      <4> QED BY <2>2, <3>1, <3>3, <4>1
    <3> QED BY <3>2, <3>3
  <2> QED BY <2>3, <2>4
<1> QED BY <1>3, <1>6, <1>7, <1>8

LEMMA ReadStatusesInv ==
  ASSUME ListInv, NEW read \in BOOLEAN, List!ReadStatuses(read)
  PROVE  ListInv'
<1> USE DEF ListInv
<1>1. PICK j \in job : j.stage = "statuses" /\ job' = {List!DetailsRead(List!StatusesRead(j, read), read)}
  BY DEF List!ReadStatuses
<1>2. UNCHANGED <<wallet, notes, pending, records, retry, lastTip, detail, flags, payments, shownRows, proxy>>
  BY DEF List!ReadStatuses, List!walletVars, List!listVars
<1>3. PICK m : m = List!StatusesRead(j, read)
  OBVIOUS
<1>4. /\ JobOK(m) /\ m.work = j.work /\ m.stage = "statuses" /\ m.superseded = j.superseded /\ m.otherDetail = j.otherDetail
      /\ Counts(m) => \A t \in Txids : Awaited(t) \/ t \in m.retry \/ Depicted(m.records, m.tip, t)
  BY <1>1, <1>3, StatusesOK
<1> DEFINE shows == m.detail # "none" /\ ("details" \in m.work \/ m.changed)
           found == shows /\ m.detail \notin DOMAIN m.records /\ m.detail \in List!Present
           recs == [t \in DOMAIN m.records \cup (IF found THEN {m.detail} ELSE {}) |->
                      IF found /\ t = m.detail THEN List!StatusRead(m, t, read) ELSE m.records[t]]
           changed == m.changed \/ found
           again == IF found /\ ~read THEN m.retry \cup {m.detail} ELSE m.retry
           flow == IF ~shows THEN m.flow ELSE IF m.detail \in DOMAIN recs THEN m.detail ELSE "none"
<1>5. PICK k : k = [m EXCEPT !.stage = "done", !.records = recs, !.changed = changed, !.retry = again, !.flow = flow]
  OBVIOUS
<1>6. job' = {k}
  <2>1. k = List!DetailsRead(m, read)
    BY <1>5, Zenon DEF List!DetailsRead
  <2> QED BY <1>1, <1>3, <2>1
<1>7. /\ Table(recs)
      /\ \A t \in Txids : ~(found /\ t = m.detail) =>
           /\ t \in DOMAIN recs <=> t \in DOMAIN m.records
           /\ t \in DOMAIN recs => recs[t] = m.records[t]
      /\ found => m.detail \in DOMAIN recs /\ recs[m.detail] = List!StatusRead(m, m.detail, read)
      /\ ~found => recs = m.records
  <2>1. DOMAIN m.records \subseteq Txids /\ m.detail \in Txids \cup {"none"} /\ m.records = [t \in DOMAIN m.records |-> m.records[t]]
    BY <1>4 DEF JobOK, Table
  <2>2. /\ found => m.detail \in Txids
        /\ DOMAIN recs = DOMAIN m.records \cup (IF found THEN {m.detail} ELSE {})
        /\ \A t \in DOMAIN recs : recs[t] = IF found /\ t = m.detail THEN List!StatusRead(m, t, read) ELSE m.records[t]
    BY <2>1
  <2>3. recs = [t \in DOMAIN recs |-> recs[t]]
    OBVIOUS
  <2> HIDE DEF found, recs
  <2>4. ~found => recs = m.records
    <3>1. ~found => DOMAIN recs = DOMAIN m.records /\ \A t \in DOMAIN recs : recs[t] = m.records[t]
      BY <2>2
    <3> QED BY <2>1, <2>3, <3>1
  <2> QED BY <2>1, <2>2, <2>3, <2>4 DEF Table
<1>8. /\ changed \in BOOLEAN /\ flow \in {"none", m.detail} /\ m.retry \subseteq again
      /\ (~changed => ~m.changed /\ ~found) /\ (found /\ ~read => m.detail \in again)
      /\ (found => m.detail \in List!Present)
  BY <1>4 DEF JobOK
<1> HIDE DEF recs, changed, again, flow, shows, found
<1>9. /\ k.work = m.work /\ k.stage = "done" /\ k.superseded = m.superseded /\ k.otherDetail = m.otherDetail /\ k.records = recs
      /\ k.retry = again /\ k.tip = m.tip /\ k.detail = m.detail /\ k.flow = flow /\ k.changed = changed
      /\ k = Reading(k.work, k.stage, k.superseded, k.otherDetail, k.records, k.retry, k.tip, k.detail, k.flow, k.changed)
  <2>1. m = Reading(m.work, m.stage, m.superseded, m.otherDetail, m.records, m.retry, m.tip, m.detail, m.flow, m.changed)
    BY <1>4 DEF JobOK, Reading
  <2>2. k = Reading(m.work, "done", m.superseded, m.otherDetail, recs, again, m.tip, m.detail, flow, changed)
    BY <1>5, <2>1 DEF Reading
  <2> QED BY <2>2 DEF Reading
<1>10. JobOK(k)
  BY <1>4, <1>7, <1>8, <1>9 DEF JobOK, Reading
<1>11. ASSUME Counts(k), NEW t \in Txids PROVE ReadSoFar(k, t)
  <2>1. Awaited(t) \/ t \in m.retry \/ Depicted(m.records, m.tip, t)
    BY <1>4, <1>9, <1>11 DEF Counts
  <2>2. CASE found /\ t = m.detail
    <3>1. CASE read
      <4>1. t \in DOMAIN recs /\ t \in List!Present /\ recs[t] = List!Depth(t)
        BY <1>7, <1>8, <2>2, <3>1 DEF List!StatusRead
      <4>2. Depicted(recs, m.tip, t)
        BY <1>4, <4>1, NowOK DEF JobOK
      <4> QED BY <1>9, <4>2 DEF ReadSoFar
    <3>2. CASE ~read
      BY <1>8, <1>9, <2>2, <3>2 DEF ReadSoFar
    <3> QED BY <3>1, <3>2
  <2>3. CASE ~(found /\ t = m.detail)
    <3>1. Depicted(m.records, m.tip, t) => Depicted(recs, m.tip, t)
      BY <1>7, <2>3 DEF Depicted, Stands
    <3> QED BY <1>8, <1>9, <2>1, <3>1 DEF ReadSoFar
  <2> QED BY <2>2, <2>3
<1> QED BY <1>2, <1>4, <1>6, <1>9, <1>10, <1>11, WorkerInv

----------------------------------------------------------------------------
(* The result, on the GUI thread                                             *)

\* The rows are those of the records and the requests, with the balance the
\* filter has cached.
LEMMA RebuiltOK ==
  ASSUME ListInv, NEW recs, NEW reqs, recs = records', reqs = payments', List!RebuildRows(recs, reqs)
  PROVE  RowsInv'
<1> USE DEF ListInv
<1> DEFINE new == List!RowsOf(recs, reqs)
           balance == List!PendingBalance(proxy.filter, new)
<1>1. /\ shownRows' = new
      /\ proxy' = IF List!Invalidates(shownRows, new) THEN [proxy EXCEPT !.balance = balance] ELSE proxy
  BY DEF List!RebuildRows
<1>2. /\ proxy = [filter |-> proxy.filter, balance |-> proxy.balance]
      /\ proxy.balance = List!PendingBalance(proxy.filter, shownRows)
  BY DEF RowsInv
<1>3. ~List!Invalidates(shownRows, new) => balance = List!PendingBalance(proxy.filter, shownRows)
  <2> HIDE DEF new
  <2> SUFFICES ASSUME ~List!Invalidates(shownRows, new)
               PROVE  {t \in List!Accepted(proxy.filter, shownRows) : List!IsPending(shownRows.txs[t])}
                        = {t \in List!Accepted(proxy.filter, new) : List!IsPending(new.txs[t])}
    BY DEF List!PendingBalance
  <2>1. /\ List!Accepted(proxy.filter, shownRows) = List!Accepted(proxy.filter, new)
        /\ \A t \in List!Accepted(proxy.filter, shownRows) : List!IsPending(shownRows.txs[t]) = List!IsPending(new.txs[t])
    BY DEF List!Invalidates
  <2> QED BY <2>1
<1> HIDE DEF balance
<1>4. proxy' = [filter |-> proxy.filter, balance |-> balance]
  BY <1>1, <1>2, <1>3
<1>5. proxy'.filter = proxy.filter /\ proxy'.balance = balance /\ proxy' = [filter |-> proxy'.filter, balance |-> proxy'.balance]
  BY <1>4
<1>6. balance = List!PendingBalance(proxy'.filter, shownRows')
  BY <1>1, <1>5 DEF balance
<1>7. shownRows' = List!RowsOf(records', payments')
  BY <1>1
<1> HIDE DEF proxy, shownRows, records, payments, new
<1>8. List!PendingBalance(proxy.filter, shownRows)' = List!PendingBalance(proxy'.filter, shownRows')
  BY DEF List!PendingBalance, List!Accepted, List!FilterAcceptsRow, List!TypeMatches, List!IsPending
<1>9. List!RowsOf(records, payments)' = List!RowsOf(records', payments')
  BY DEF List!RowsOf, List!Active
<1> QED BY <1>5, <1>6, <1>7, <1>8, <1>9 DEF RowsInv

\* The read is over; what it was asked for is asked for again.
LEMMA MergedInv ==
  ASSUME ListInv, NEW j \in job, job' = {}, List!Schedule(pending \cup List!Merge(j)),
         UNCHANGED <<wallet, notes, records, retry, lastTip, detail, payments, shownRows, proxy>>
  PROVE  ListInv'
<1> USE DEF ListInv
<1>1. /\ pending' = pending \cup (j.work \ {"statuses"})
      /\ flags' \in [scheduled : BOOLEAN, rebuild : BOOLEAN, stopped : BOOLEAN, lost : BOOLEAN]
      /\ flags'.stopped = flags.stopped /\ flags'.lost = flags.lost /\ flags'.rebuild = flags.rebuild
      /\ pending' # {} /\ ~flags'.stopped => flags'.scheduled \/ job' # {}
  BY ScheduleOK DEF List!Merge
<1> HIDE DEF flags, job
<1>2. ListType'
  BY <1>1 DEF ListType
<1>3. \A i \in job : i = j
  BY DEF ListType
<1>4. /\ \A t \in Txids : Awaited(t) \/ t \in j.work \/ "reload" \in j.work => Awaited(t)'
      /\ \A recs, from : \A t \in Txids : Depicted(recs, from, t) => Depicted(recs, from, t)'
  BY <1>1, WordsOK DEF Awaited, Depicted, Stands, DepthAt, List!Present
<1>5. RecordsInv'
  BY <1>1, <1>3, <1>4 DEF RecordsInv
<1>6. ReadInv'
  BY DEF ReadInv
<1>7. DetailInv'
  BY <1>1, <1>3 DEF DetailInv
<1>8. RowsInv'
  BY <1>1, RowsKept
<1> QED BY <1>2, <1>5, <1>6, <1>7, <1>8

\* The read is over after the list was stopped.
LEMMA EndedInv ==
  ASSUME ListInv, job' = {}, flags.stopped,
         UNCHANGED <<wallet, notes, pending, flags, records, retry, lastTip, detail, payments, shownRows, proxy>>
  PROVE  ListInv'
<1> USE DEF ListInv
<1>1. ListType'
  BY DEF ListType
<1>2. RecordsInv' /\ ReadInv'
  BY DEF RecordsInv, ReadInv
<1>3. DetailInv'
  BY DEF DetailInv
<1>4. RowsInv'
  BY RowsKept
<1> QED BY <1>1, <1>2, <1>3, <1>4

LEMMA ApplyInv ==
  ASSUME ListInv, List!ApplySnapshot
  PROVE  ListInv'
<1> USE DEF ListInv
<1>1. PICK j \in job :
        /\ j.stage = "done" /\ job' = {}
        /\ IF flags.stopped THEN UNCHANGED <<pending, records, retry, lastTip, detail, shownRows, proxy, flags>>
           ELSE IF List!Superseded(j)
           THEN List!Schedule(pending \cup List!Merge(j)) /\ UNCHANGED <<records, retry, lastTip, detail, shownRows, proxy>>
           ELSE /\ records' = j.records /\ retry' = j.retry /\ lastTip' = j.tip
                /\ detail' = IF List!OtherDetail(j) THEN detail ELSE [detail EXCEPT !.flow = j.flow, !.loading = FALSE]
                /\ IF j.changed THEN List!RebuildRows(j.records, payments) ELSE UNCHANGED <<shownRows, proxy>>
                /\ pending' = pending
                /\ flags' = [flags EXCEPT !.scheduled = @ \/ pending # {}, !.lost = @ /\ "reload" \notin j.work]
  BY DEF List!ApplySnapshot
<1>2. UNCHANGED <<wallet, notes, payments>>
  BY DEF List!ApplySnapshot, List!walletVars
<1>3. JobOK(j) /\ \A i \in job : i = j
  BY DEF ListType
<1>4. CASE flags.stopped
  BY <1>1, <1>2, <1>4, EndedInv
<1>5. CASE ~flags.stopped /\ List!Superseded(j)
  <2>1. job' = {} /\ List!Schedule(pending \cup List!Merge(j)) /\ UNCHANGED <<records, retry, lastTip, detail, shownRows, proxy>>
    BY <1>1, <1>5
  <2> QED BY <1>2, <2>1, MergedInv
<1>6. CASE ~flags.stopped /\ ~List!Superseded(j)
  <2>1. /\ job' = {} /\ records' = j.records /\ retry' = j.retry /\ lastTip' = j.tip /\ pending' = pending
        /\ detail' = IF j.otherDetail THEN detail ELSE [detail EXCEPT !.flow = j.flow, !.loading = FALSE]
        /\ IF j.changed THEN List!RebuildRows(j.records, payments) ELSE UNCHANGED <<shownRows, proxy>>
        /\ flags' = [flags EXCEPT !.scheduled = @ \/ pending # {}, !.lost = @ /\ "reload" \notin j.work]
        /\ ~j.superseded
    BY <1>1, <1>6 DEF List!Superseded, List!OtherDetail
  <2>2. /\ detail \in [txid : Txids \cup {"none"}, flow : Txids \cup {"none"}, loading : BOOLEAN]
        /\ flags \in [scheduled : BOOLEAN, rebuild : BOOLEAN, stopped : BOOLEAN, lost : BOOLEAN]
        /\ j.flow \in {"none", j.detail} /\ j.detail \in Txids \cup {"none"} /\ j.otherDetail \in BOOLEAN
        /\ ~j.otherDetail => j.detail = detail.txid
    BY <1>3 DEF ListType, JobOK
  <2>3. /\ flags' \in [scheduled : BOOLEAN, rebuild : BOOLEAN, stopped : BOOLEAN, lost : BOOLEAN]
        /\ flags'.stopped = flags.stopped /\ flags'.rebuild = flags.rebuild
        /\ flags'.lost <=> flags.lost /\ "reload" \notin j.work
        /\ pending # {} => flags'.scheduled
    <3> HIDE DEF pending
    <3> QED BY <2>1, <2>2
  <2>4. /\ detail' \in [txid : Txids \cup {"none"}, flow : Txids \cup {"none"}, loading : BOOLEAN]
        /\ detail'.txid = detail.txid
        /\ j.otherDetail => detail' = detail
        /\ ~j.otherDetail => detail'.flow = j.flow /\ ~detail'.loading
    <3>1. CASE j.otherDetail
      BY <2>1, <2>2, <3>1
    <3>2. CASE ~j.otherDetail
      <4>1. detail' = [detail EXCEPT !.flow = j.flow, !.loading = FALSE]
        BY <2>1, <3>2
      <4> QED BY <2>2, <3>2, <4>1
    <3> QED BY <3>1, <3>2
  <2> HIDE DEF detail, flags
  <2>5. ListType'
    BY <1>2, <1>3, <2>1, <2>3, <2>4 DEF ListType, JobOK
  <2>6. RecordsInv'
    <3> SUFFICES ASSUME ~flags'.stopped, ~flags'.lost, NEW t \in Txids
                 PROVE  Awaited(t)' \/ t \in retry' \/ Depicted(records, lastTip, t)'
      BY DEF RecordsInv
    <3>1. Awaited(t) \/ t \in j.retry \/ Depicted(j.records, j.tip, t)
      BY <1>1, <2>1, <2>3 DEF ReadInv
    <3>2. Awaited(t) => Awaited(t)'
      BY <1>2, <2>1 DEF Awaited
    <3>3. Depicted(j.records, j.tip, t) => Depicted(records, lastTip, t)'
      BY <1>2, <2>1 DEF Depicted, Stands, DepthAt, List!Present
    <3> QED BY <2>1, <3>1, <3>2, <3>3
  <2>7. ReadInv'
    BY <2>1 DEF ReadInv
  <2>8. DetailInv'
    BY <1>3, <2>1, <2>2, <2>3, <2>4 DEF DetailInv
  <2>9. RowsInv'
    <3>1. CASE j.changed
      BY <1>2, <2>1, <3>1, RebuiltOK
    <3>2. CASE ~j.changed
      BY <1>2, <1>3, <2>1, <2>3, <3>2, RowsKept DEF JobOK
    <3> QED BY <3>1, <3>2
  <2> QED BY <2>5, <2>6, <2>7, <2>8, <2>9
<1> QED BY <1>4, <1>5, <1>6

LEMMA FailsInv ==
  ASSUME ListInv, List!SnapshotFails
  PROVE  ListInv'
<1> USE DEF ListInv
<1>1. PICK j \in job :
        /\ job' = {}
        /\ IF flags.stopped THEN UNCHANGED <<pending, detail, flags>>
           ELSE IF j.superseded THEN List!Schedule(pending \cup List!Merge(j)) /\ UNCHANGED detail
           ELSE /\ detail' = IF j.otherDetail THEN detail ELSE [detail EXCEPT !.loading = FALSE]
                /\ pending' = pending
                /\ flags' = [flags EXCEPT !.scheduled = @ \/ pending # {}, !.lost = TRUE]
  BY DEF List!SnapshotFails
<1>2. UNCHANGED <<wallet, notes, records, retry, lastTip, payments, shownRows, proxy>>
  BY DEF List!SnapshotFails, List!walletVars, List!listVars
<1>3. JobOK(j) /\ \A i \in job : i = j
  BY DEF ListType
<1>4. CASE flags.stopped
  BY <1>1, <1>2, <1>4, EndedInv
<1>5. CASE ~flags.stopped /\ j.superseded
  <2>1. job' = {} /\ List!Schedule(pending \cup List!Merge(j)) /\ UNCHANGED detail
    BY <1>1, <1>5
  <2> QED BY <1>2, <2>1, MergedInv
<1>6. CASE ~flags.stopped /\ ~j.superseded
  <2>1. /\ job' = {} /\ pending' = pending
        /\ detail' = IF j.otherDetail THEN detail ELSE [detail EXCEPT !.loading = FALSE]
        /\ flags' = [flags EXCEPT !.scheduled = @ \/ pending # {}, !.lost = TRUE]
    BY <1>1, <1>6
  <2>2. /\ detail \in [txid : Txids \cup {"none"}, flow : Txids \cup {"none"}, loading : BOOLEAN]
        /\ flags \in [scheduled : BOOLEAN, rebuild : BOOLEAN, stopped : BOOLEAN, lost : BOOLEAN]
        /\ j.otherDetail \in BOOLEAN
    BY <1>3 DEF ListType, JobOK
  <2>3. /\ flags' \in [scheduled : BOOLEAN, rebuild : BOOLEAN, stopped : BOOLEAN, lost : BOOLEAN]
        /\ flags'.stopped = flags.stopped /\ flags'.rebuild = flags.rebuild /\ flags'.lost
        /\ pending # {} => flags'.scheduled
    <3> HIDE DEF pending
    <3> QED BY <2>1, <2>2
  <2>4. /\ detail' \in [txid : Txids \cup {"none"}, flow : Txids \cup {"none"}, loading : BOOLEAN]
        /\ detail'.txid = detail.txid /\ detail'.flow = detail.flow
        /\ j.otherDetail => detail' = detail
        /\ ~j.otherDetail => ~detail'.loading
    <3>1. CASE j.otherDetail
      BY <2>1, <2>2, <3>1
    <3>2. CASE ~j.otherDetail
      <4>1. detail' = [detail EXCEPT !.loading = FALSE]
        BY <2>1, <3>2
      <4> QED BY <2>2, <3>2, <4>1
    <3> QED BY <3>1, <3>2
  <2> HIDE DEF detail, flags
  <2>5. ListType'
    BY <1>2, <2>1, <2>3, <2>4 DEF ListType
  <2>6. RecordsInv' /\ ReadInv'
    BY <2>1, <2>3 DEF RecordsInv, ReadInv
  <2>7. DetailInv'
    BY <1>3, <2>1, <2>3, <2>4 DEF DetailInv
  <2>8. RowsInv'
    BY <1>2, <2>3, RowsKept
  <2> QED BY <2>5, <2>6, <2>7, <2>8
<1> QED BY <1>4, <1>5, <1>6

----------------------------------------------------------------------------
(* Requests, the filter and the end                                          *)

\* The rows alone change.
LEMMA ShownInv ==
  ASSUME ListInv, RowsInv', UNCHANGED <<wallet, notes, pending, job, records, retry, lastTip, detail>>,
         flags' \in [scheduled : BOOLEAN, rebuild : BOOLEAN, stopped : BOOLEAN, lost : BOOLEAN],
         flags'.scheduled = flags.scheduled, flags'.stopped = flags.stopped, flags'.lost = flags.lost
  PROVE  ListInv'
<1> USE DEF ListInv
<1> HIDE DEF flags
<1>1. ListType'
  BY DEF ListType, JobOK
<1>2. RecordsInv' /\ ReadInv'
  BY DEF RecordsInv, ReadInv, Awaited, Depicted, Stands, DepthAt, List!Present
<1>3. DetailInv'
  BY DEF DetailInv
<1> QED BY <1>1, <1>2, <1>3

LEMMA RequestsInv ==
  ASSUME ListInv, NEW r, NEW version, NEW applying \in BOOLEAN, List!RequestsChange(r, version, applying)
  PROVE  ListInv'
<1> USE DEF ListInv
<1> DEFINE edited == payments[r] # List!Absent /\ version # List!Absent
<1>1. /\ UNCHANGED <<wallet, notes, pending, job, records, retry, lastTip, detail>>
      /\ flags \in [scheduled : BOOLEAN, rebuild : BOOLEAN, stopped : BOOLEAN, lost : BOOLEAN]
      /\ IF edited /\ (applying \/ flags.rebuild)
         THEN flags' = [flags EXCEPT !.rebuild = TRUE] /\ UNCHANGED <<shownRows, proxy>>
         ELSE List!RebuildRows(records, payments') /\ UNCHANGED flags
  BY DEF List!RequestsChange, List!walletVars, ListType
<1> HIDE DEF edited
<1>2. CASE edited /\ (applying \/ flags.rebuild)
  <2>1. /\ flags' \in [scheduled : BOOLEAN, rebuild : BOOLEAN, stopped : BOOLEAN, lost : BOOLEAN]
        /\ flags'.scheduled = flags.scheduled /\ flags'.stopped = flags.stopped /\ flags'.lost = flags.lost /\ flags'.rebuild
    <3>1. flags' = [flags EXCEPT !.rebuild = TRUE]
      BY <1>1, <1>2
    <3> QED BY <1>1, <3>1
  <2>2. RowsInv'
    <3>1. proxy' = proxy /\ shownRows' = shownRows
      BY <1>1, <1>2
    <3> HIDE DEF flags
    <3> QED BY <2>1, <3>1 DEF RowsInv, List!PendingBalance, List!Accepted, List!FilterAcceptsRow, List!TypeMatches, List!IsPending
  <2> QED BY <1>1, <2>1, <2>2, ShownInv
<1>3. CASE ~(edited /\ (applying \/ flags.rebuild))
  <2>1. List!RebuildRows(records, payments') /\ UNCHANGED flags
    BY <1>1, <1>3
  <2>2. PICK reqs : reqs = payments'
    OBVIOUS
  <2>3. RowsInv'
    BY <1>1, <2>1, <2>2, RebuiltOK
  <2>4. flags' \in [scheduled : BOOLEAN, rebuild : BOOLEAN, stopped : BOOLEAN, lost : BOOLEAN]
    BY <1>1, <2>1
  <2> QED BY <1>1, <2>1, <2>3, <2>4, ShownInv
<1> QED BY <1>2, <1>3

LEMMA RebuildInv ==
  ASSUME ListInv, List!DeferredRebuild
  PROVE  ListInv'
<1> USE DEF ListInv
<1>1. /\ UNCHANGED <<wallet, notes, payments, pending, job, records, retry, lastTip, detail>>
      /\ flags' = [flags EXCEPT !.rebuild = FALSE]
      /\ flags \in [scheduled : BOOLEAN, rebuild : BOOLEAN, stopped : BOOLEAN, lost : BOOLEAN]
      /\ IF flags.stopped THEN UNCHANGED <<shownRows, proxy>> ELSE List!RebuildRows(records, payments)
  BY DEF List!DeferredRebuild, List!walletVars, ListType
<1>2. /\ flags' \in [scheduled : BOOLEAN, rebuild : BOOLEAN, stopped : BOOLEAN, lost : BOOLEAN]
      /\ flags'.scheduled = flags.scheduled /\ flags'.stopped = flags.stopped /\ flags'.lost = flags.lost
  BY <1>1
<1>3. RowsInv'
  <2>1. CASE flags.stopped
    <3> HIDE DEF flags
    <3> QED BY <1>1, <1>2, <2>1, RowsKept
  <2>2. CASE ~flags.stopped
    BY <1>1, <2>2, RebuiltOK
  <2> QED BY <2>1, <2>2
<1> QED BY <1>1, <1>2, <1>3, ShownInv

LEMMA FilterInv ==
  ASSUME ListInv, NEW filter, List!SetFilter(filter)
  PROVE  ListInv'
<1> USE DEF ListInv
<1>1. /\ UNCHANGED <<wallet, notes, payments, pending, job, records, retry, lastTip, detail, shownRows, flags>>
      /\ proxy' = [filter |-> filter, balance |-> List!PendingBalance(filter, shownRows)]
      /\ flags' \in [scheduled : BOOLEAN, rebuild : BOOLEAN, stopped : BOOLEAN, lost : BOOLEAN]
  BY DEF List!SetFilter, List!walletVars, ListType
<1>2. /\ proxy'.filter = filter /\ proxy'.balance = List!PendingBalance(filter, shownRows)
      /\ proxy' = [filter |-> proxy'.filter, balance |-> proxy'.balance]
  BY <1>1
<1> HIDE DEF proxy
<1>3. List!PendingBalance(proxy.filter, shownRows)' = List!PendingBalance(filter, shownRows)
  BY <1>1, <1>2 DEF List!PendingBalance, List!Accepted, List!FilterAcceptsRow, List!TypeMatches, List!IsPending
<1>4. RowsInv'
  BY <1>1, <1>2, <1>3 DEF RowsInv, List!RowsOf, List!Active
<1> QED BY <1>1, <1>4, ShownInv

LEMMA StopInv ==
  ASSUME ListInv, List!Stop
  PROVE  ListInv'
<1> USE DEF ListInv
<1>1. /\ UNCHANGED <<wallet, notes, payments, pending, job, records, retry, lastTip, shownRows, proxy>>
      /\ flags' = [flags EXCEPT !.stopped = TRUE] /\ detail' = [detail EXCEPT !.loading = FALSE]
      /\ flags \in [scheduled : BOOLEAN, rebuild : BOOLEAN, stopped : BOOLEAN, lost : BOOLEAN]
      /\ detail \in [txid : Txids \cup {"none"}, flow : Txids \cup {"none"}, loading : BOOLEAN]
  BY DEF List!Stop, List!walletVars, ListType
<1>2. /\ flags' \in [scheduled : BOOLEAN, rebuild : BOOLEAN, stopped : BOOLEAN, lost : BOOLEAN]
      /\ flags'.stopped
  BY <1>1
<1>3. /\ detail' \in [txid : Txids \cup {"none"}, flow : Txids \cup {"none"}, loading : BOOLEAN]
      /\ detail'.txid = detail.txid /\ detail'.flow = detail.flow /\ ~detail'.loading
  BY <1>1
<1> HIDE DEF flags, detail
<1>4. ListType'
  BY <1>1, <1>2, <1>3 DEF ListType, JobOK
<1>5. RecordsInv' /\ ReadInv'
  BY <1>2 DEF RecordsInv, ReadInv
<1>6. DetailInv'
  BY <1>2, <1>3 DEF DetailInv
<1>7. RowsInv'
  BY <1>1, <1>2, RowsKept
<1> QED BY <1>4, <1>5, <1>6, <1>7

LEMMA ListInitInv ==
  ASSUME List!Init
  PROVE  ListInv
<1>1. /\ wallet \in [state : [Txids -> Int], tip : Int] /\ wallet.tip = 1 /\ notes \in Seq(Txids) /\ pending = {"reload"} /\ job = {}
      /\ records = List!NoRecords /\ lastTip = 0
      /\ payments = [r \in Requests |-> List!Absent]
      /\ detail = [txid |-> "none", flow |-> "none", loading |-> FALSE]
      /\ shownRows = [txs |-> List!NoRecords, matched |-> {}, open |-> {}]
      /\ proxy = [filter |-> [max |-> -1, requestsOnly |-> FALSE], balance |-> List!Impact({})]
      /\ flags = [scheduled |-> TRUE, rebuild |-> FALSE, stopped |-> FALSE, lost |-> FALSE]
  BY DEF List!Init, List!Absent
<1>2. DOMAIN List!NoRecords = {} /\ List!NoRecords = [t \in DOMAIN List!NoRecords |-> List!NoRecords[t]]
  BY DEF List!NoRecords
<1>3. ListType
  BY <1>1, <1>2 DEF ListType, Table
<1>4. RecordsInv /\ ReadInv /\ DetailInv
  BY <1>1 DEF RecordsInv, ReadInv, DetailInv, Awaited
<1>5. RowsInv
  <2>1. List!RowsOf(List!NoRecords, payments) = [txs |-> List!NoRecords, matched |-> {}, open |-> {}]
    <3>1. \A r \in Requests : payments[r] = List!Absent
      BY <1>1
    <3> HIDE DEF payments
    <3> QED BY <1>2, <3>1 DEF List!RowsOf
  <2>2. List!Accepted(proxy.filter, shownRows) = {}
    BY <1>1, <1>2 DEF List!Accepted
  <2>3. List!PendingBalance(proxy.filter, shownRows) = List!Impact({})
    BY <2>2 DEF List!PendingBalance
  <2> QED BY <1>1, <2>1, <2>3 DEF RowsInv
<1> QED BY <1>3, <1>4, <1>5 DEF ListInv

LEMMA ListNextInv ==
  ASSUME ListInv, List!ActivityNext
  PROVE  ListInv'
<1>1. \A state \in {List!Absent, List!Conflicted} \cup 0..MaxTip : state \in Int
  BY DEF List!Absent, List!Conflicted
<1> QED BY <1>1, EntersInv, BlockInv, UpdateInv, ReloadInv, PollInv, StartInv, RequestDetailsInv, ReadRecordsInv, ReadStatusesInv,
    ReadTipInv, ApplyInv, FailsInv, RequestsInv, RebuildInv, FilterInv, StopInv DEF List!ActivityNext

LEMMA ListStutters ==
  ASSUME ListInv, UNCHANGED <<v1, v2, v3, v4, v5, v6, v7, v8, v9, v10, v11, v12>>
  PROVE  ListInv'
<1> USE DEF ListInv
<1>1. RowsInv'
  BY RowsKept
<1>2. flags' \in [scheduled : BOOLEAN, rebuild : BOOLEAN, stopped : BOOLEAN, lost : BOOLEAN]
  BY DEF ListType
<1> QED BY <1>1, <1>2, ShownInv

LEMMA ListStepInv ==
  ASSUME part = "list" => ListInv, [Next]_vars, part' = "list"
  PROVE  ListInv'
<1>1. part = "list" /\ (List!ActivityNext \/ UNCHANGED <<v1, v2, v3, v4, v5, v6, v7, v8, v9, v10, v11, v12>>)
  BY DEF Next, vars, FeesStep, SendsStep, ListStep
<1> QED BY <1>1, ListNextInv, ListStutters

\* However notifications, blocks, edits of requests, filters and failures come
\* while a read of the wallet is under way (schedule, startWork, readSnapshot):
\* at rest the records are the wallet's transactions with their depths, the rows
\* and the balance follow the records, and the details shown are those of the
\* transaction that is open.
THEOREM ActivityFollows == Spec => []ActivityFollowsWallet
<1> DEFINE Inv == part = "list" => ListInv
<1>1. Init => Inv
  BY ListInitInv DEF Init
<1>2. Inv /\ [Next]_vars => Inv'
  BY ListStepInv
<1>3. Inv => ActivityFollowsWallet
  <2> SUFFICES ASSUME ListInv PROVE List!ActivityFollowsWallet
    BY DEF ActivityFollowsWallet
  <2>1. List!ActivityIsCurrent
    <3> SUFFICES ASSUME notes = << >>, pending = {}, job = {}, retry = {}, lastTip = wallet.tip, ~flags.stopped, ~flags.lost
                 PROVE  records = [t \in List!Present |-> List!Depth(t)]
      BY DEF List!ActivityIsCurrent
    <3>1. Len(notes) = 0
      OBVIOUS
    <3>2. \A t \in Txids : Depicted(records, lastTip, t)
      BY <3>1 DEF ListInv, RecordsInv, Awaited
    <3>3. \A t \in Txids : t \in DOMAIN records => records[t] = List!Depth(t)
      <4>1. lastTip \in Int /\ \A tip \in lastTip..wallet.tip : tip = wallet.tip
        BY DEF ListInv, ListType
      <4> QED BY <3>2, <4>1, DepthOK DEF Depicted
    <3>4. DOMAIN records = List!Present
      BY <3>2 DEF Depicted, Stands, ListInv, ListType, Table, List!Present
    <3>5. records = [t \in DOMAIN records |-> records[t]] /\ DOMAIN records \subseteq Txids
      BY DEF ListInv, ListType, Table
    <3> HIDE DEF records
    <3> QED BY <3>3, <3>4, <3>5
  <2>2. List!DetailsAreOfTransaction
    BY DEF List!DetailsAreOfTransaction, ListInv, DetailInv
  <2>3. List!RowsAndBalanceAreCurrent
    BY DEF List!RowsAndBalanceAreCurrent, ListInv, RowsInv
  <2> QED BY <2>1, <2>2, <2>3 DEF List!ActivityFollowsWallet
<1> QED BY <1>1, <1>2, <1>3, PTL DEF Spec

HIDE DEF wallet, notes, payments, pending, job, records, retry, lastTip, detail, shownRows, proxy, flags

----------------------------------------------------------------------------
(* The send form.  It has one or two recipients: the sum of their amounts is *)
(* the fold unrolled, whose recursive function is given explicitly.          *)

\* What Sum adds up.
LEMMA SumOK ==
  ASSUME NEW f, NEW n \in 1..2, DOMAIN f = 1..n, \A i \in 1..n : f[i] \in Int
  PROVE  Fees!Sum(f) = IF n = 1 THEN f[1] ELSE f[1] + f[2]
<1> DEFINE D == 1..n
           Pick(s) == CHOOSE x \in s : TRUE
           Eq(g) == g = [s \in SUBSET D |-> IF s = {} THEN 0 ELSE f[Pick(s)] + g[s \ {Pick(s)}]]
           it == CHOOSE g : Eq(g)
           At(s) == IF s = {} THEN 0 ELSE IF s = {1} THEN f[1] ELSE IF s = {2} THEN f[2] ELSE f[1] + f[2]
           w == [s \in SUBSET D |-> At(s)]
<1>1. Fees!Sum(f) = it[D]
  BY DEF Fees!Sum, Fees!FoldFunction, Fees!FoldFunctionOnSet, Fees!MapThenFoldSet
<1>2. \A s \in SUBSET D : s # {} => Pick(s) \in s
  OBVIOUS
<1>3. \A s \in SUBSET D : s \in {{}, {1}, {2}, {1, 2}}
  <2> SUFFICES ASSUME NEW s \in SUBSET D PROVE s \in {{}, {1}, {2}, {1, 2}}
    OBVIOUS
  <2> HIDE DEF Pick
  <2>1. \A x \in s : x = 1 \/ x = 2
    OBVIOUS
  <2>2. CASE 1 \in s /\ 2 \in s
    BY <2>1, <2>2
  <2>3. CASE 1 \in s /\ 2 \notin s
    BY <2>1, <2>3
  <2>4. CASE 1 \notin s /\ 2 \in s
    BY <2>1, <2>4
  <2>5. CASE 1 \notin s /\ 2 \notin s
    <3>1. \A x : x \notin s
      BY <2>1, <2>5
    <3>2. s = {}
      BY <3>1
    <3> QED BY <3>2
  <2> QED BY <2>2, <2>3, <2>4, <2>5
<1>4. 1 \in D /\ (2 \in D <=> n = 2) /\ D = IF n = 1 THEN {1} ELSE {1, 2}
  <2>1. 1..1 = {1} /\ 1..2 = {1, 2}
    OBVIOUS
  <2>2. n = 1 \/ n = 2
    OBVIOUS
  <2> QED BY <2>1, <2>2
<1> HIDE DEF D, Pick
<1>5. \A s \in SUBSET D : s # {} => At(s) = f[Pick(s)] + At(s \ {Pick(s)})
  <2> SUFFICES ASSUME NEW s \in SUBSET D, s # {} PROVE At(s) = f[Pick(s)] + At(s \ {Pick(s)})
    OBVIOUS
  <2>0. f[1] \in Int /\ (2 \in D => f[2] \in Int)
    BY <1>4
  <2>1. CASE s = {1}
    <3>1. Pick(s) = 1 /\ s \ {Pick(s)} = {}
      BY <2>1, <1>2
    <3> QED BY <3>1, <2>0, <2>1
  <2>2. CASE s = {2}
    <3>1. Pick(s) = 2 /\ s \ {Pick(s)} = {} /\ 2 \in D
      BY <2>2, <1>2
    <3> QED BY <3>1, <2>0, <2>2
  <2>3. CASE s = {1, 2}
    <3>0. s # {1} /\ s # {2} /\ 2 \in D
      <4>1. 1 \in s /\ 2 \in s
        BY <2>3
      <4>2. 2 \notin {1} /\ 1 \notin {2} /\ \A x \in s : x \in D
        OBVIOUS
      <4> QED BY <4>1, <4>2
    <3>1. (Pick(s) = 1 /\ s \ {Pick(s)} = {2}) \/ (Pick(s) = 2 /\ s \ {Pick(s)} = {1})
      <4>1. Pick(s) = 1 \/ Pick(s) = 2
        BY <2>3, <1>2
      <4>2. {1, 2} \ {1} = {2} /\ {1, 2} \ {2} = {1}
        OBVIOUS
      <4> QED BY <2>3, <4>1, <4>2
    <3> QED BY <3>0, <3>1, <2>0
  <2> QED BY <1>3, <2>1, <2>2, <2>3
<1>6. Eq(w)
  <2>1. \A s \in SUBSET D : s # {} => s \ {Pick(s)} \in SUBSET D
    OBVIOUS
  <2> HIDE DEF At
  <2>2. \A s \in SUBSET D : s # {} => w[s \ {Pick(s)}] = At(s \ {Pick(s)})
    BY <2>1
  <2>3. \A s \in SUBSET D : At(s) = IF s = {} THEN 0 ELSE f[Pick(s)] + w[s \ {Pick(s)}]
    BY <1>5, <2>2 DEF At
  <2> HIDE DEF w
  <2>4. [s \in SUBSET D |-> At(s)] = [s \in SUBSET D |-> IF s = {} THEN 0 ELSE f[Pick(s)] + w[s \ {Pick(s)}]]
    BY <2>3
  <2> QED BY <2>4 DEF w
<1>7. Eq(it)
  BY <1>6
<1> HIDE DEF it
<1>8. \A s \in SUBSET D : it[s] = IF s = {} THEN 0 ELSE f[Pick(s)] + it[s \ {Pick(s)}]
  BY <1>7
<1>9. it[{}] = 0
  BY <1>8
<1>10. it[{1}] = f[1] /\ (n = 2 => it[{2}] = f[2])
  <2>0. {1} \in SUBSET D /\ (n = 2 => {2} \in SUBSET D) /\ {1} # {} /\ {2} # {}
    BY <1>4
  <2>1. Pick({1}) = 1 /\ {1} \ {Pick({1})} = {}
    <3>1. Pick({1}) \in {1}
      BY <1>2, <2>0
    <3> QED BY <3>1
  <2>2. n = 2 => Pick({2}) = 2 /\ {2} \ {Pick({2})} = {}
    <3>1. n = 2 => Pick({2}) \in {2}
      BY <1>2, <2>0
    <3> QED BY <3>1
  <2>3. it[{1}] = f[1] + it[{}] /\ (n = 2 => it[{2}] = f[2] + it[{}])
    BY <1>8, <2>0, <2>1, <2>2
  <2>4. f[1] \in Int /\ (n = 2 => f[2] \in Int)
    OBVIOUS
  <2> QED BY <1>9, <2>3, <2>4
<1>11. CASE n = 1
  BY <1>1, <1>4, <1>10, <1>11
<1>12. CASE n = 2
  <2>1. (Pick(D) = 1 /\ D \ {Pick(D)} = {2}) \/ (Pick(D) = 2 /\ D \ {Pick(D)} = {1})
    <3>1. Pick(D) \in D /\ D = {1, 2}
      BY <1>2, <1>4, <1>12
    <3>2. {1, 2} \ {1} = {2} /\ {1, 2} \ {2} = {1}
      OBVIOUS
    <3> QED BY <3>1, <3>2
  <2>2. it[D] = f[Pick(D)] + it[D \ {Pick(D)}]
    BY <1>4, <1>8
  <2>3. it[D] = f[1] + f[2]
    <3>1. f[1] \in Int /\ f[2] \in Int
      BY <1>12
    <3>2. it[{1}] = f[1] /\ it[{2}] = f[2]
      BY <1>10, <1>12
    <3>3. CASE Pick(D) = 1 /\ D \ {Pick(D)} = {2}
      <4>1. it[D] = f[1] + it[{2}]
        BY <2>2, <3>3
      <4> QED BY <4>1, <3>1, <3>2
    <3>4. CASE Pick(D) = 2 /\ D \ {Pick(D)} = {1}
      <4>1. it[D] = f[2] + it[{1}]
        BY <2>2, <3>4
      <4> QED BY <4>1, <3>1, <3>2
    <3> QED BY <2>1, <3>3, <3>4
  <2> QED BY <1>1, <1>12, <2>3
<1> QED BY <1>11, <1>12

\* A bounded set of integers has a largest element.
LEMMA LargestOK ==
  ASSUME NEW S \in SUBSET Int, S # {}, NEW b \in Int, \A x \in S : x <= b
  PROVE  Fees!Max(S) \in S /\ \A y \in S : y <= Fees!Max(S)
<1> DEFINE T == {d \in Nat : b - d \in S}
<1>1. T # {}
  <2>1. PICK x \in S : TRUE
    OBVIOUS
  <2>2. x \in Int /\ x <= b
    BY <2>1
  <2>3. b - x \in Nat /\ b - (b - x) = x
    BY <2>2
  <2> QED BY <2>1, <2>3
<1>2. PICK d \in T : \A e \in T : ~(<<e, d>> \in OpToRel(<, Nat))
  <2>1. T \subseteq Nat
    OBVIOUS
  <2> HIDE DEF T
  <2> QED BY <1>1, <2>1, NatLessThanWellFounded, WFMin, Zenon
<1>3. d \in Nat /\ b - d \in S
  OBVIOUS
<1>4. \A y \in S : y <= b - d
  <2> SUFFICES ASSUME NEW y \in S, ~(y <= b - d) PROVE FALSE
    OBVIOUS
  <2>1. y \in Int /\ y <= b
    OBVIOUS
  <2>2. b - y \in Nat /\ b - y < d /\ b - (b - y) = y
    BY <1>3, <2>1
  <2>3. b - y \in T
    BY <2>2
  <2> HIDE DEF T
  <2>4. <<b - y, d>> \in OpToRel(<, Nat)
    BY <1>3, <2>2, Zenon DEF OpToRel
  <2> QED BY <1>2, <2>3, <2>4
<1>5. \E x \in S : \A y \in S : x >= y
  BY <1>3, <1>4
<1>6. Fees!Max(S) \in S /\ \A y \in S : Fees!Max(S) >= y
  BY <1>5 DEF Fees!Max
<1> QED BY <1>6

Row == [id : Nat \ {0}, addr : Fees!Addresses, amount : Nat]
Recipients(r) ==
  /\ r \in Seq(Row) /\ Len(r) \in 1..2
  /\ \A i, k \in 1..Len(r) : i # k => r[i].id # r[k].id

LEMMA IndexOK ==
  ASSUME NEW r, Recipients(r), NEW id \in Nat
  PROVE  /\ Fees!Index(r, id) \in 0..Len(r)
         /\ Fees!Index(r, id) # 0 => r[Fees!Index(r, id)].id = id
         /\ \A i \in 1..Len(r) : r[i].id = id => Fees!Index(r, id) = i
<1> DEFINE S == {0} \cup {i \in DOMAIN r : r[i].id = id}
<1>1. Len(r) \in Nat /\ DOMAIN r = 1..Len(r)
  BY DEF Recipients
<1>2. S \in SUBSET Int /\ S # {} /\ Len(r) \in Int /\ \A x \in S : x <= Len(r)
  BY <1>1
<1>3. Fees!Index(r, id) = Fees!Max(S)
  BY DEF Fees!Index
<1> HIDE DEF S
<1>4. Fees!Max(S) \in S /\ \A y \in S : y <= Fees!Max(S)
  BY <1>2, LargestOK
<1>5. \A x \in S : x = 0 \/ (x \in 1..Len(r) /\ r[x].id = id)
  BY <1>1 DEF S
<1>6. \A i \in 1..Len(r) : r[i].id = id => i \in S
  BY <1>1 DEF S
<1>7. \A i \in 1..Len(r) : r[i].id = id => Fees!Max(S) = i
  BY <1>1, <1>4, <1>5, <1>6 DEF Recipients
<1> QED BY <1>1, <1>3, <1>4, <1>5, <1>7

----------------------------------------------------------------------------
(* The send form by name                                                     *)

recipients == v1
editing == v2
takesAll == v3
leaving == v4
coins == v5
before == v6
spendable == v7
kept == v8
inList == v9
preset == v10
rate == v11
shown == v12
asked == v13
done == v14
closing == v15

USE DEF recipients, editing, takesAll, leaving, coins, before, spendable, kept, inList, preset, rate, shown, asked,
        done, closing

Bounded(s) == \E n \in Nat : \A x \in s : x <= n

\* The rows have ids of their own, also beside those that are being deleted.
RowsOK(r, m, dying) ==
  /\ Recipients(r)
  /\ dying \subseteq Nat \ {0} /\ Bounded(dying)
  /\ \A i \in 1..Len(r) : r[i].id \notin dying
  /\ m \in {0} \cup {r[i].id : i \in 1..Len(r)} \cup dying
FormInv ==
  /\ RowsOK(recipients, takesAll, leaving)
  /\ editing \in 1..Len(recipients)
  /\ spendable \subseteq Coins
  /\ preset \in Fees!Targets
  /\ rate \in [on : BOOLEAN, rate : Fees!CustomRates]
  /\ shown = [estimates |-> shown.estimates, custom |-> shown.custom, pending |-> shown.pending,
              timer |-> shown.timer, id |-> shown.id]
  /\ shown.id \in Nat

\* Forms that a request captured, and previews computed for one.
FormOK(form) ==
  /\ \E n \in 1..2 : DOMAIN form.amounts = 1..n /\ form.remainder \in 0..n
  /\ \A i \in DOMAIN form.amounts : form.amounts[i] \in Nat
  /\ form.custom \in Fees!CustomRates
Rest(form) == Fees!Sum([form.amounts EXCEPT ![form.remainder] = 0])
PreviewOK(p) ==
  /\ p.fee \in Int /\ p.fee > 0 /\ p.max \in Nat
  /\ p.form.remainder # 0 => p.max > 0 /\ Fees!Value(p.inputs) = p.max + p.fee + Rest(p.form)
ResultOK(result) == (\A p \in result : PreviewOK(p)) /\ \A p, q \in result : p = q
IsFor(result, form) == \A p \in result : p.form = form

PreviewsInv ==
  /\ \A t \in Fees!Targets : ResultOK(shown.estimates[t])
  /\ ResultOK(shown.custom)
  /\ ~done => IsFor(shown.custom, Fees!Form) /\ \A t \in Fees!Targets : IsFor(shown.estimates[t], Fees!Form)
FilledIn(r, m, result) == \A p \in result : Fees!Index(r, m) # 0 => r[Fees!Index(r, m)].amount = p.max
MaximumInv == ~done => FilledIn(recipients, takesAll, Fees!SelectedFeePreview(shown, preset, rate))
SubmittedInv ==
  /\ \E S : asked \in Seq(S)
  /\ \A i \in 1..Len(asked) :
       /\ asked[i].id \in Nat /\ asked[i].id <= shown.id
       /\ FormOK(asked[i].form)
       /\ asked[i].id = shown.id /\ ~done => asked[i].form = Fees!Form
PendingInv == shown.pending /\ ~closing => shown.timer \/ \E i \in 1..Len(asked) : asked[i].id = shown.id

FeesInv == FormInv /\ PreviewsInv /\ MaximumInv /\ SubmittedInv /\ PendingInv

----------------------------------------------------------------------------
(* What previews add up to                                                   *)

LEMMA ValueOK ==
  ASSUME NEW s, s \subseteq Coins
  PROVE  /\ Fees!Cardinality(s) \in Nat /\ (s # {} => Fees!Cardinality(s) > 0)
         /\ Fees!Value(s) \in Int
<1>1. IsFiniteSet(s)
  BY CoinsAssumption, FS_Subset
<1>2. Cardinality(s) \in Nat /\ (Cardinality(s) = 0 <=> s = {})
  BY <1>1, FS_CardinalityType, FS_EmptySet
<1>3. Fees!Cardinality(s) = Cardinality(s)
  BY DEF Fees!Cardinality, Cardinality
<1>4. Fees!Value(s) = CoinValue * Fees!Cardinality(s)
  BY DEF Fees!Value
<1> QED BY <1>2, <1>3, <1>4, AmountsAssumption

LEMMA RestOK ==
  ASSUME NEW form, FormOK(form)
  PROVE  Rest(form) \in Int
<1> DEFINE a == [form.amounts EXCEPT ![form.remainder] = 0]
<1>1. PICK n \in 1..2 : DOMAIN form.amounts = 1..n
  BY DEF FormOK
<1>2. DOMAIN a = 1..n /\ \A i \in 1..n : a[i] \in Int
  BY <1>1 DEF FormOK
<1> HIDE DEF a
<1>3. Fees!Sum(a) = IF n = 1 THEN a[1] ELSE a[1] + a[2]
  BY <1>2, SumOK
<1>4. Fees!Sum(a) \in Int
  BY <1>2, <1>3
<1> QED BY <1>4 DEF Rest, a

LEMMA InputsOK ==
  ASSUME FormInv, NEW s, s \subseteq spendable
  PROVE  s \subseteq Coins
  BY DEF FormInv

LEMMA CostOK ==
  ASSUME NEW n \in Nat, n > 0, NEW x \in {1, 2, 3}
  PROVE  x * n \in Int /\ x * n > 0
<1>1. CASE x = 1 BY <1>1
<1>2. CASE x = 2 BY <1>2
<1>3. CASE x = 3 BY <1>3
<1> QED BY <1>1, <1>2, <1>3

LEMMA SendAllOK ==
  ASSUME FormInv, NEW form, FormOK(form), form.remainder # 0, NEW x \in {1, 2, 3}
  PROVE  /\ ResultOK(Fees!CreateSendAllTransaction(form, x, spendable))
         /\ IsFor(Fees!CreateSendAllTransaction(form, x, spendable), form)
<1> DEFINE inputs == Fees!ApplySelectedInputsPolicy(form.coins, spendable)
           amounts == [form.amounts EXCEPT ![form.remainder] = 0]
           remainder == Fees!Value(inputs) - x * Fees!Cardinality(inputs) - Fees!Sum(amounts)
           result == Fees!CreateSendAllTransaction(form, x, spendable)
<1>1. \A p \in result :
        /\ p = [form |-> form, inputs |-> inputs, fee |-> x * Fees!Cardinality(inputs), max |-> remainder]
        /\ inputs # {} /\ inputs \subseteq spendable
        /\ \A i \in DOMAIN amounts : (IF i = form.remainder THEN remainder ELSE amounts[i]) >= Dust
  BY DEF Fees!CreateSendAllTransaction
<1>2. form.remainder \in DOMAIN amounts
  BY DEF FormOK
<1>3. Fees!Sum(amounts) = Rest(form)
  BY DEF Rest
<1> HIDE DEF result, inputs, amounts
<1>4. ASSUME NEW p \in result
      PROVE  PreviewOK(p) /\ p.form = form
  <2>1. inputs # {} /\ inputs \subseteq spendable /\ remainder >= Dust
    BY <1>1, <1>2
  <2>2. Fees!Cardinality(inputs) \in Nat /\ Fees!Cardinality(inputs) > 0 /\ Fees!Value(inputs) \in Int
    BY <2>1, InputsOK, ValueOK
  <2>3. x * Fees!Cardinality(inputs) \in Int /\ x * Fees!Cardinality(inputs) > 0
    BY <2>2, CostOK
  <2>4. Fees!Sum(amounts) \in Int
    BY <1>3, RestOK
  <2>5. p.form = form /\ p.inputs = inputs /\ p.fee = x * Fees!Cardinality(inputs) /\ p.max = remainder
    BY <1>1
  <2>6. p.max \in Nat /\ p.max > 0
    BY <2>1, <2>2, <2>3, <2>4, <2>5, AmountsAssumption
  <2>7. p.max = Fees!Value(inputs) - p.fee - Rest(form)
    BY <1>3, <2>5
  <2>8. Fees!Value(p.inputs) = p.max + p.fee + Rest(p.form)
    BY <1>3, <2>2, <2>3, <2>4, <2>5, <2>7
  <2> QED BY <2>3, <2>5, <2>6, <2>8 DEF PreviewOK
<1>5. \A p, q \in result : p = q
  BY <1>1
<1> QED BY <1>4, <1>5 DEF ResultOK, IsFor, result

LEMMA FixedOK ==
  ASSUME FormInv, NEW form, FormOK(form), form.remainder = 0, NEW x \in {1, 2, 3}
  PROVE  /\ ResultOK(Fees!FixedAmountPreview(form, x, spendable))
         /\ IsFor(Fees!FixedAmountPreview(form, x, spendable), form)
<1> DEFINE inputs == Fees!ApplySelectedInputsPolicy(form.coins, spendable)
           result == Fees!FixedAmountPreview(form, x, spendable)
<1>1. \A p \in result :
        /\ p = [form |-> form, inputs |-> inputs, fee |-> x * Fees!Cardinality(inputs), max |-> 0]
        /\ inputs # {} /\ inputs \subseteq spendable
  BY DEF Fees!FixedAmountPreview
<1> HIDE DEF result, inputs
<1>2. ASSUME NEW p \in result
      PROVE  PreviewOK(p) /\ p.form = form
  <2>1. Fees!Cardinality(inputs) \in Nat /\ Fees!Cardinality(inputs) > 0
    BY <1>1, InputsOK, ValueOK
  <2>2. x * Fees!Cardinality(inputs) \in Int /\ x * Fees!Cardinality(inputs) > 0
    BY <2>1, CostOK
  <2>3. p.form = form /\ p.fee = x * Fees!Cardinality(inputs) /\ p.max = 0
    BY <1>1
  <2> QED BY <2>2, <2>3 DEF PreviewOK
<1>3. \A p, q \in result : p = q
  BY <1>1
<1> QED BY <1>2, <1>3 DEF ResultOK, IsFor, result

LEMMA TryOK ==
  ASSUME FormInv, NEW form, FormOK(form), NEW x \in {1, 2, 3}
  PROVE  /\ ResultOK(Fees!TryPreviewFee(form, x, spendable))
         /\ IsFor(Fees!TryPreviewFee(form, x, spendable), form)
  BY SendAllOK, FixedOK DEF Fees!TryPreviewFee

LEMMA NoneOK == \A form : ResultOK({}) /\ IsFor({}, form)
  BY DEF ResultOK, IsFor

LEMMA EstimatesOK ==
  ASSUME FormInv, NEW form, FormOK(form), NEW t \in Fees!Targets
  PROVE  /\ ResultOK(Fees!EstimatePreviewFee(form, t, spendable))
         /\ IsFor(Fees!EstimatePreviewFee(form, t, spendable), form)
         /\ ResultOK(Fees!EstimateCustomPreviewFee(form, spendable))
         /\ IsFor(Fees!EstimateCustomPreviewFee(form, spendable), form)
<1>1. Fees!Rate[t] \in {1, 2, 3} /\ Fees!Required * Fees!FallbackFeeMultiplier(t) \in {1, 2, 3}
  BY DEF Fees!Rate, Fees!Required, Fees!FallbackFeeMultiplier
<1>2. form.custom # 0 => form.custom \in {1, 2, 3}
  BY DEF FormOK, Fees!CustomRates
<1>3. /\ ResultOK(Fees!EstimatePreviewFee(form, t, spendable))
      /\ IsFor(Fees!EstimatePreviewFee(form, t, spendable), form)
  BY <1>1, TryOK DEF Fees!EstimatePreviewFee
<1>4. /\ ResultOK(Fees!EstimateCustomPreviewFee(form, spendable))
      /\ IsFor(Fees!EstimateCustomPreviewFee(form, spendable), form)
  BY <1>2, TryOK, NoneOK DEF Fees!EstimateCustomPreviewFee
<1> QED BY <1>3, <1>4

----------------------------------------------------------------------------
(* Rows whose amounts are filled in                                          *)

Refilled(q, r) ==
  q \in [1..Len(r) -> Row] /\ \A i \in 1..Len(r) : q[i].id = r[i].id /\ q[i].addr = r[i].addr

LEMMA RefilledOK ==
  ASSUME NEW q, NEW r, Recipients(r), Refilled(q, r)
  PROVE  /\ Recipients(q) /\ Len(q) = Len(r)
         /\ \A m, dying : RowsOK(r, m, dying) => RowsOK(q, m, dying)
         /\ \A m : Fees!Index(q, m) = Fees!Index(r, m)
<1>1. Len(r) \in Nat /\ DOMAIN r = 1..Len(r)
  BY DEF Recipients
<1>2. q \in Seq(Row) /\ Len(q) = Len(r) /\ DOMAIN q = 1..Len(r)
  BY <1>1 DEF Refilled
<1>3. Recipients(q)
  BY <1>2 DEF Recipients, Refilled
<1>4. ASSUME NEW m, NEW dying, RowsOK(r, m, dying)
      PROVE  RowsOK(q, m, dying)
  <2>1. {q[i].id : i \in 1..Len(q)} = {r[i].id : i \in 1..Len(r)}
    BY <1>2 DEF Refilled
  <2>2. m \in {0} \cup {q[i].id : i \in 1..Len(q)} \cup dying
    BY <1>4, <2>1 DEF RowsOK
  <2>3. \A i \in 1..Len(q) : q[i].id \notin dying
    BY <1>2, <1>4 DEF RowsOK, Refilled
  <2> QED BY <1>3, <1>4, <2>2, <2>3 DEF RowsOK
<1>5. ASSUME NEW m
      PROVE  Fees!Index(q, m) = Fees!Index(r, m)
  <2>1. {i \in DOMAIN q : q[i].id = m} = {i \in DOMAIN r : r[i].id = m}
    BY <1>1, <1>2 DEF Refilled
  <2> QED BY <2>1 DEF Fees!Index
<1> QED BY <1>2, <1>3, <1>4, <1>5

\* The amount of the row that takes the maximum is no part of the form.
LEMMA FormKept ==
  ASSUME NEW q, NEW r, Recipients(r), Refilled(q, r), NEW m, NEW c, NEW k,
         \A i \in 1..Len(r) : r[i].id # m => q[i].amount = r[i].amount
  PROVE  Fees!FormOf(q, m, c, k) = Fees!FormOf(r, m, c, k)
<1>1. DOMAIN q = DOMAIN r /\ DOMAIN r = 1..Len(r)
  BY RefilledOK DEF Recipients, Refilled
<1>2. [i \in DOMAIN q |-> q[i].addr] = [i \in DOMAIN r |-> r[i].addr]
  BY <1>1 DEF Refilled
<1>3. [i \in DOMAIN q |-> IF q[i].id = m THEN 0 ELSE q[i].amount]
        = [i \in DOMAIN r |-> IF r[i].id = m THEN 0 ELSE r[i].amount]
  BY <1>1 DEF Refilled
<1>4. Fees!Index(q, m) = Fees!Index(r, m)
  BY RefilledOK
<1> QED BY <1>2, <1>3, <1>4 DEF Fees!FormOf

LEMMA CapturedOK ==
  ASSUME NEW r, Recipients(r), NEW m \in Nat, NEW c, NEW k \in [on : BOOLEAN, rate : Fees!CustomRates]
  PROVE  FormOK(Fees!FormOf(r, m, c, k)) /\ Fees!FormOf(r, m, c, k).remainder = Fees!Index(r, m)
<1> DEFINE form == Fees!FormOf(r, m, c, k)
<1>1. Len(r) \in 1..2 /\ DOMAIN r = 1..Len(r) /\ \A i \in 1..Len(r) : r[i] \in Row
  BY DEF Recipients
<1>2. /\ form.amounts = [i \in DOMAIN r |-> IF r[i].id = m THEN 0 ELSE r[i].amount]
      /\ form.remainder = Fees!Index(r, m)
      /\ form.custom = IF k.on THEN k.rate ELSE 0
  BY DEF Fees!FormOf
<1> HIDE DEF form
<1>3. form.remainder \in 0..Len(r)
  BY <1>2, IndexOK
<1>4. DOMAIN form.amounts = 1..Len(r) /\ \A i \in 1..Len(r) : form.amounts[i] \in Nat
  BY <1>1, <1>2 DEF Row
<1>5. form.custom \in Fees!CustomRates
  BY <1>2 DEF Fees!CustomRates
<1>6. FormOK(form)
  BY <1>1, <1>3, <1>4, <1>5 DEF FormOK
<1> QED BY <1>2, <1>6 DEF form

LEMMA IdsTyped ==
  ASSUME NEW r, NEW m, NEW dying, RowsOK(r, m, dying)
  PROVE  (\A i \in 1..Len(r) : r[i].id \in Nat \ {0}) /\ m \in Nat
<1>1. \A i \in 1..Len(r) : r[i] \in Row
  BY DEF RowsOK, Recipients
<1>2. \A i \in 1..Len(r) : r[i].id \in Nat \ {0}
  BY <1>1 DEF Row
<1> QED BY <1>2 DEF RowsOK

LEMMA MaximumTyped == ASSUME FormInv PROVE takesAll \in Nat
  BY IdsTyped DEF FormInv

LEMMA FormIsOK == ASSUME FormInv PROVE FormOK(Fees!Form) /\ Fees!Form.remainder = Fees!Index(recipients, takesAll)
<1>1. takesAll \in Nat /\ Recipients(recipients)
  BY MaximumTyped DEF FormInv, RowsOK
<1> QED BY <1>1, CapturedOK DEF FormInv, Fees!Form

\* The maximum's row takes what the selected preview leaves for it.
LEMMA UpdatedOK ==
  ASSUME FormInv, NEW f, NEW t, NEW k, ResultOK(Fees!SelectedFeePreview(f, t, k)),
         NEW q, q = Fees!UpdateMaximumAmount(recipients, f, t, k)
  PROVE  /\ Refilled(q, recipients)
         /\ \A i \in 1..Len(recipients) : recipients[i].id # takesAll => q[i].amount = recipients[i].amount
         /\ IsFor(Fees!SelectedFeePreview(f, t, k), Fees!Form)
              => FilledIn(q, takesAll, Fees!SelectedFeePreview(f, t, k))
<1> DEFINE result == Fees!SelectedFeePreview(f, t, k)
<1>1. q = [i \in DOMAIN recipients |->
             IF recipients[i].id = takesAll /\ \E p \in result : p.max # 0
             THEN [recipients[i] EXCEPT !.amount = (CHOOSE p \in result : TRUE).max] ELSE recipients[i]]
  BY DEF Fees!UpdateMaximumAmount
<1> HIDE DEF result
<1>2. Recipients(recipients) /\ DOMAIN recipients = 1..Len(recipients) /\ \A i \in 1..Len(recipients) : recipients[i] \in Row
  BY DEF FormInv, RowsOK, Recipients
<1>3. \A p \in result : (CHOOSE x \in result : TRUE) = p /\ PreviewOK(p)
  BY DEF ResultOK, result
<1>4. ASSUME NEW i \in 1..Len(recipients), recipients[i].id = takesAll, NEW p \in result, p.max # 0
      PROVE  q[i].id = recipients[i].id /\ q[i].addr = recipients[i].addr /\ q[i].amount = p.max /\ q[i] \in Row
  <2>1. q[i] = [recipients[i] EXCEPT !.amount = p.max]
    BY <1>1, <1>2, <1>3, <1>4
  <2>2. p.max \in Nat
    BY <1>3 DEF PreviewOK
  <2>3. recipients[i] \in Row
    BY <1>2
  <2> HIDE DEF recipients
  <2> QED BY <2>1, <2>2, <2>3 DEF Row
<1>5. ASSUME NEW i \in 1..Len(recipients), ~(recipients[i].id = takesAll /\ \E p \in result : p.max # 0)
      PROVE  q[i] = recipients[i]
  BY <1>1, <1>2, <1>5
<1>6. DOMAIN q = 1..Len(recipients)
  BY <1>1, <1>2
<1>7. Refilled(q, recipients)
  <2>1. \A i \in 1..Len(recipients) : q[i].id = recipients[i].id /\ q[i].addr = recipients[i].addr /\ q[i] \in Row
    BY <1>2, <1>4, <1>5
  <2>2. q = [i \in DOMAIN q |-> q[i]]
    BY <1>1
  <2> QED BY <1>6, <2>1, <2>2 DEF Refilled
<1>8. \A i \in 1..Len(recipients) : recipients[i].id # takesAll => q[i].amount = recipients[i].amount
  BY <1>5
<1>9. ASSUME IsFor(result, Fees!Form)
      PROVE  FilledIn(q, takesAll, result)
  <2> SUFFICES ASSUME NEW p \in result, Fees!Index(q, takesAll) # 0 PROVE q[Fees!Index(q, takesAll)].amount = p.max
    BY DEF FilledIn
  <2>1. Fees!Index(q, takesAll) = Fees!Index(recipients, takesAll)
    BY <1>2, <1>7, RefilledOK
  <2>2. Fees!Index(recipients, takesAll) \in 1..Len(recipients) /\ recipients[Fees!Index(recipients, takesAll)].id = takesAll
    <3>1. Len(recipients) \in Nat
      BY <1>2 DEF Recipients
    <3>2. Fees!Index(recipients, takesAll) \in 0..Len(recipients) /\ recipients[Fees!Index(recipients, takesAll)].id = takesAll
      BY <1>2, <2>1, MaximumTyped, IndexOK
    <3> QED BY <2>1, <3>1, <3>2
  <2>3. p.form.remainder # 0
    BY <1>9, <2>1, FormIsOK DEF IsFor
  <2>4. p.max # 0
    BY <1>3, <2>3 DEF PreviewOK
  <2> QED BY <1>4, <2>1, <2>2, <2>4
<1> QED BY <1>7, <1>8, <1>9 DEF result

----------------------------------------------------------------------------
(* scheduleFeeEstimates                                                      *)

LEMMA GrossOK ==
  ASSUME FormInv, NEW r, Recipients(r), NEW m, NEW c, NEW q, q = Fees!GrossRemainder(r, m, c)
  PROVE  Refilled(q, r)
<1> DEFINE left(i) == Fees!Max({0, Fees!Value(Fees!ApplySelectedInputsPolicy(c, spendable) \cap spendable)
                                     - Fees!Sum([j \in DOMAIN r |-> IF j = i THEN 0 ELSE r[j].amount])})
<1>1. q = [i \in DOMAIN r |-> IF r[i].id = m /\ r[i].addr = "none" /\ ~closing
                              THEN [r[i] EXCEPT !.amount = left(i)] ELSE r[i]]
  BY DEF Fees!GrossRemainder
<1>2. Len(r) \in 1..2 /\ DOMAIN r = 1..Len(r) /\ \A i \in 1..Len(r) : r[i] \in Row
  BY DEF Recipients
<1>3. ASSUME NEW i \in 1..Len(r)
      PROVE  left(i) \in Nat
  <2> DEFINE others == [j \in DOMAIN r |-> IF j = i THEN 0 ELSE r[j].amount]
             x == Fees!Value(Fees!ApplySelectedInputsPolicy(c, spendable) \cap spendable) - Fees!Sum(others)
  <2>1. DOMAIN others = 1..Len(r) /\ \A j \in 1..Len(r) : others[j] \in Int
    BY <1>2 DEF Row
  <2> HIDE DEF others
  <2>2. Fees!Sum(others) = IF Len(r) = 1 THEN others[1] ELSE others[1] + others[2]
    BY <1>2, <2>1, SumOK
  <2>3. Fees!Sum(others) \in Int
    BY <1>2, <2>1, <2>2
  <2>4. Fees!Value(Fees!ApplySelectedInputsPolicy(c, spendable) \cap spendable) \in Int
    BY ValueOK DEF FormInv
  <2>5. x \in Int
    BY <2>3, <2>4
  <2> HIDE DEF x
  <2>6. \E b \in Int : \A y \in {0, x} : y <= b
    <3>1. CASE x <= 0
      BY <3>1, <2>5
    <3>2. CASE ~(x <= 0)
      BY <3>2, <2>5
    <3> QED BY <3>1, <3>2
  <2>7. {0, x} \in SUBSET Int /\ {0, x} # {}
    BY <2>5
  <2>8. Fees!Max({0, x}) \in {0, x} /\ \A y \in {0, x} : y <= Fees!Max({0, x})
    BY <2>6, <2>7, LargestOK
  <2>9. Fees!Max({0, x}) \in Nat
    BY <2>5, <2>8
  <2> QED BY <2>9 DEF x, others
<1> HIDE DEF left
<1>4. ASSUME NEW i \in 1..Len(r)
      PROVE  q[i] \in Row /\ q[i].id = r[i].id /\ q[i].addr = r[i].addr
  <2>1. q[i] = r[i] \/ q[i] = [r[i] EXCEPT !.amount = left(i)]
    BY <1>1, <1>2
  <2> QED BY <1>2, <1>3, <2>1 DEF Row
<1>5. q = [i \in DOMAIN q |-> q[i]] /\ DOMAIN q = 1..Len(r)
  BY <1>1, <1>2
<1> QED BY <1>4, <1>5 DEF Refilled

\* A request of before is not the newest one any more.
LEMMA ScheduledOK ==
  ASSUME FormInv, NEW r, NEW m, NEW f, f = Fees!ScheduleFeeEstimates(shown, r, m)
  PROVE  /\ f = [estimates |-> Fees!NoEstimates, custom |-> {}, pending |-> f.pending, timer |-> f.timer, id |-> f.id]
         /\ f.id = shown.id + 1 /\ (f.pending => f.timer)
<1>1. \/ f = Fees!ClearFeeEstimates(shown)
      \/ f = [Fees!ClearFeeEstimates(shown) EXCEPT !.pending = TRUE, !.timer = TRUE]
  BY DEF Fees!ScheduleFeeEstimates
<1>2. shown = [estimates |-> shown.estimates, custom |-> shown.custom, pending |-> shown.pending,
               timer |-> shown.timer, id |-> shown.id]
  BY DEF FormInv
<1>3. PICK g : g = Fees!ClearFeeEstimates(shown)
  OBVIOUS
<1>4. g = [estimates |-> Fees!NoEstimates, custom |-> {}, pending |-> FALSE, timer |-> FALSE, id |-> shown.id + 1]
  <2>1. g = [shown EXCEPT !.id = @ + 1, !.estimates = Fees!NoEstimates, !.custom = {}, !.pending = FALSE, !.timer = FALSE]
    BY <1>3 DEF Fees!ClearFeeEstimates
  <2> HIDE DEF shown
  <2> QED BY <1>2, <2>1
<1>5. \/ f = g
      \/ f = [g EXCEPT !.pending = TRUE, !.timer = TRUE]
  BY <1>1, <1>3
<1> HIDE DEF shown
<1>6. \/ f = [estimates |-> Fees!NoEstimates, custom |-> {}, pending |-> FALSE, timer |-> FALSE, id |-> shown.id + 1]
      \/ f = [estimates |-> Fees!NoEstimates, custom |-> {}, pending |-> TRUE, timer |-> TRUE, id |-> shown.id + 1]
  BY <1>4, <1>5
<1> QED BY <1>6

\* With nothing shown, what is left is the shape of the form.
LEMMA ClearedInv ==
  ASSUME FeesInv, shown'.estimates = Fees!NoEstimates, shown'.custom = {}, shown'.id = shown.id + 1,
         shown' = [estimates |-> shown'.estimates, custom |-> shown'.custom, pending |-> shown'.pending,
                   timer |-> shown'.timer, id |-> shown'.id],
         shown'.pending => shown'.timer,
         RowsOK(recipients, takesAll, leaving)', editing' \in 1..Len(recipients'), spendable' \subseteq spendable,
         preset' \in Fees!Targets, rate' \in [on : BOOLEAN, rate : Fees!CustomRates], asked' = asked
  PROVE  FeesInv'
<1> USE DEF FeesInv
<1>1. shown.id \in Nat
  BY DEF FormInv
<1> HIDE DEF shown
<1>2. FormInv'
  BY <1>1 DEF FormInv
<1>3. \A t \in Fees!Targets : shown'.estimates[t] = {}
  BY DEF Fees!NoEstimates
<1>4. PreviewsInv'
  <2>1. \A t \in Fees!Targets : ResultOK(shown.estimates[t])' /\ IsFor(shown.estimates[t], Fees!Form)'
    BY <1>3 DEF ResultOK, IsFor
  <2>2. ResultOK(shown.custom)' /\ IsFor(shown.custom, Fees!Form)'
    BY DEF ResultOK, IsFor
  <2> QED BY <2>1, <2>2 DEF PreviewsInv
<1>5. MaximumInv'
  <2>1. preset' \in Fees!Targets
    OBVIOUS
  <2>2. Fees!SelectedFeePreview(shown, preset, rate)' = {}
    BY <1>3, <2>1 DEF Fees!SelectedFeePreview
  <2> QED BY <2>2 DEF MaximumInv, FilledIn
<1>6. SubmittedInv'
  <2>1. \A i \in 1..Len(asked) : asked[i].id \in Nat /\ asked[i].id <= shown'.id /\ asked[i].id # shown'.id
    BY <1>1 DEF SubmittedInv
  <2> QED BY <2>1 DEF SubmittedInv, FormOK
<1>7. PendingInv'
  BY DEF PendingInv
<1> QED BY <1>2, <1>4, <1>5, <1>6, <1>7

LEMMA RescheduleInv ==
  ASSUME FeesInv, NEW r, NEW m, NEW c, NEW k, Fees!Reschedule(r, m, c, k), RowsOK(r, m, leaving'),
         editing' \in 1..Len(r), spendable' \subseteq spendable, preset' \in Fees!Targets,
         k \in [on : BOOLEAN, rate : Fees!CustomRates], asked' = asked
  PROVE  FeesInv'
<1>1. /\ recipients' = Fees!GrossRemainder(r, m, c) /\ takesAll' = m /\ rate' = k
      /\ shown' = Fees!ScheduleFeeEstimates(shown, r, m)
  BY DEF Fees!Reschedule
<1>2. PICK f : f = shown'
  OBVIOUS
<1>3. /\ f = [estimates |-> Fees!NoEstimates, custom |-> {}, pending |-> f.pending, timer |-> f.timer, id |-> f.id]
      /\ f.id = shown.id + 1 /\ (f.pending => f.timer)
  BY <1>1, <1>2, ScheduledOK DEF FeesInv
<1>4. f.estimates = Fees!NoEstimates /\ f.custom = {}
  BY <1>3
<1>5. PICK q : q = recipients'
  OBVIOUS
<1>6. Recipients(r)
  BY DEF RowsOK
<1>7. Refilled(q, r)
  BY <1>1, <1>5, <1>6, GrossOK DEF FeesInv
<1>8. RowsOK(q, m, leaving') /\ Len(q) = Len(r)
  BY <1>6, <1>7, RefilledOK
<1>9. RowsOK(recipients, takesAll, leaving)' /\ editing' \in 1..Len(recipients')
  BY <1>1, <1>5, <1>8 DEF RowsOK, Recipients, Bounded
<1> QED BY <1>1, <1>2, <1>3, <1>4, <1>9, ClearedInv

----------------------------------------------------------------------------
(* The user's edits                                                          *)

LEMMA SameIdsOK ==
  ASSUME NEW q, NEW r, NEW m, NEW dying, RowsOK(r, m, dying), q \in [1..Len(r) -> Row],
         \A i \in 1..Len(r) : q[i].id = r[i].id
  PROVE  RowsOK(q, m, dying) /\ Len(q) = Len(r)
<1>1. Len(r) \in Nat /\ DOMAIN r = 1..Len(r)
  BY DEF RowsOK, Recipients
<1>2. q \in Seq(Row) /\ Len(q) = Len(r)
  BY <1>1
<1>3. Recipients(q)
  BY <1>2 DEF RowsOK, Recipients
<1>4. {q[i].id : i \in 1..Len(q)} = {r[i].id : i \in 1..Len(r)}
  BY <1>2
<1>5. m \in {0} \cup {q[i].id : i \in 1..Len(q)} \cup dying
  BY <1>4 DEF RowsOK
<1> QED BY <1>2, <1>3, <1>5 DEF RowsOK

\* A new recipient's id is none that is in use.
LEMMA LastIdOK ==
  ASSUME RowsOK(recipients, takesAll, leaving)
  PROVE  /\ Fees!LastId \in Nat
         /\ \A i \in 1..Len(recipients) : recipients[i].id <= Fees!LastId
         /\ \A x \in leaving : x <= Fees!LastId
<1> DEFINE S == {recipients[i].id : i \in DOMAIN recipients} \cup leaving
<1>1. /\ Len(recipients) \in 1..2 /\ DOMAIN recipients = 1..Len(recipients)
      /\ \A i \in 1..Len(recipients) : recipients[i].id \in Nat
      /\ \A x \in leaving : x \in Nat
  <2>1. Len(recipients) \in 1..2 /\ DOMAIN recipients = 1..Len(recipients)
    BY DEF RowsOK, Recipients
  <2>2. \A i \in 1..Len(recipients) : recipients[i].id \in Nat
    BY IdsTyped
  <2>3. \A x \in leaving : x \in Nat
    BY DEF RowsOK
  <2> QED BY <2>1, <2>2, <2>3
<1>2. PICK n \in Nat : \A x \in leaving : x <= n
  BY DEF RowsOK, Bounded
<1>3. Fees!LastId = Fees!Max(S)
  BY DEF Fees!LastId
<1>4. S \in SUBSET Nat /\ recipients[1].id \in S /\ \A i \in 1..Len(recipients) : recipients[i].id \in S
  BY <1>1
<1>5. \A x \in S : x \in leaving \/ x = recipients[1].id \/ (Len(recipients) = 2 /\ x = recipients[2].id)
  BY <1>1
<1>6. \A x \in leaving : x \in S
  OBVIOUS
<1> HIDE DEF S
<1>7. PICK b \in Nat : n <= b /\ recipients[1].id <= b /\ (Len(recipients) = 2 => recipients[2].id <= b)
  <2>1. recipients[1].id \in Nat /\ (Len(recipients) = 2 => recipients[2].id \in Nat)
    BY <1>1
  <2>2. CASE Len(recipients) = 2
    <3> DEFINE b == n + recipients[1].id + recipients[2].id
    <3>1. b \in Nat /\ n <= b /\ recipients[1].id <= b /\ recipients[2].id <= b
      BY <2>1, <2>2
    <3> QED BY <3>1
  <2>3. CASE Len(recipients) # 2
    <3> DEFINE b == n + recipients[1].id
    <3>1. b \in Nat /\ n <= b /\ recipients[1].id <= b
      BY <2>1
    <3> QED BY <2>3, <3>1
  <2> QED BY <2>2, <2>3
<1>8. \A x \in S : x <= b
  BY <1>1, <1>2, <1>4, <1>5, <1>7
<1>9. S \in SUBSET Int /\ S # {} /\ b \in Int
  BY <1>4, <1>7
<1>10. Fees!Max(S) \in S /\ \A y \in S : y <= Fees!Max(S)
  BY <1>8, <1>9, LargestOK
<1> QED BY <1>3, <1>4, <1>6, <1>10

LEMMA EditAddressInv ==
  ASSUME FeesInv, NEW addr \in Fees!Addresses, Fees!EditAddress(addr)
  PROVE  FeesInv'
<1> DEFINE q == [recipients EXCEPT ![editing].addr = addr]
<1>1. /\ Fees!Reschedule(q, takesAll, coins, rate)
      /\ UNCHANGED <<editing, leaving, spendable, preset, asked>>
  BY DEF Fees!EditAddress, Fees!KeepForm, Fees!coinVars
<1>2. RowsOK(recipients, takesAll, leaving) /\ editing \in 1..Len(recipients) /\ preset \in Fees!Targets
      /\ rate \in [on : BOOLEAN, rate : Fees!CustomRates]
  BY DEF FeesInv, FormInv
<1>3. q \in [1..Len(recipients) -> Row] /\ \A i \in 1..Len(recipients) : q[i].id = recipients[i].id
  <2>1. recipients \in [1..Len(recipients) -> Row]
    BY <1>2 DEF RowsOK, Recipients
  <2> HIDE DEF recipients
  <2> QED BY <2>1 DEF Row
<1> HIDE DEF q
<1>4. RowsOK(q, takesAll, leaving) /\ Len(q) = Len(recipients)
  BY <1>2, <1>3, SameIdsOK
<1> QED BY <1>1, <1>2, <1>4, RescheduleInv

LEMMA EditAmountInv ==
  ASSUME FeesInv, NEW amount \in Fees!Typed, Fees!EditAmount(amount)
  PROVE  FeesInv'
<1> DEFINE q == [recipients EXCEPT ![editing].amount = amount]
           m == IF takesAll = recipients[editing].id THEN 0 ELSE takesAll
<1>1. /\ Fees!Reschedule(q, m, coins, rate)
      /\ UNCHANGED <<editing, leaving, spendable, preset, asked>>
  BY DEF Fees!EditAmount, Fees!KeepForm, Fees!coinVars
<1>2. RowsOK(recipients, takesAll, leaving) /\ editing \in 1..Len(recipients) /\ preset \in Fees!Targets
      /\ rate \in [on : BOOLEAN, rate : Fees!CustomRates]
  BY DEF FeesInv, FormInv
<1>3. RowsOK(recipients, m, leaving)
  BY <1>2 DEF RowsOK
<1>4. q \in [1..Len(recipients) -> Row] /\ \A i \in 1..Len(recipients) : q[i].id = recipients[i].id
  <2>1. recipients \in [1..Len(recipients) -> Row] /\ amount \in Nat
    BY <1>2 DEF RowsOK, Recipients, Fees!Typed
  <2> HIDE DEF recipients
  <2> QED BY <2>1 DEF Row
<1> HIDE DEF q, m
<1>5. RowsOK(q, m, leaving) /\ Len(q) = Len(recipients)
  BY <1>3, <1>4, SameIdsOK
<1> QED BY <1>1, <1>2, <1>5, RescheduleInv

LEMMA UseMaximumInv ==
  ASSUME FeesInv, Fees!UseMaximum
  PROVE  FeesInv'
<1>1. /\ Fees!Reschedule(recipients, recipients[editing].id, coins, rate)
      /\ UNCHANGED <<editing, leaving, spendable, preset, asked>>
  BY DEF Fees!UseMaximum, Fees!KeepForm, Fees!coinVars
<1>2. RowsOK(recipients, takesAll, leaving) /\ editing \in 1..Len(recipients) /\ preset \in Fees!Targets
      /\ rate \in [on : BOOLEAN, rate : Fees!CustomRates]
  BY DEF FeesInv, FormInv
<1>3. RowsOK(recipients, recipients[editing].id, leaving)
  BY <1>2 DEF RowsOK
<1> QED BY <1>1, <1>2, <1>3, RescheduleInv

NewRow == [id |-> Fees!LastId + 1, addr |-> "none", amount |-> 0]

LEMMA NewRowOK ==
  ASSUME RowsOK(recipients, takesAll, leaving)
  PROVE  /\ NewRow \in Row /\ NewRow.id \notin leaving
         /\ \A i \in 1..Len(recipients) : recipients[i].id # NewRow.id
<1>1. Fees!LastId + 1 \in Nat \ {0}
  BY LastIdOK
<1>2. Fees!LastId + 1 \notin leaving
  <2>1. \A x \in leaving : x \in Nat /\ x <= Fees!LastId
    BY LastIdOK DEF RowsOK
  <2> QED BY <2>1, LastIdOK
<1>3. \A i \in 1..Len(recipients) : recipients[i].id # Fees!LastId + 1
  BY LastIdOK, IdsTyped
<1>4. NewRow.id = Fees!LastId + 1 /\ "none" \in Fees!Addresses
  BY DEF NewRow, Fees!Addresses
<1> QED BY <1>1, <1>2, <1>3, <1>4 DEF NewRow, Row

LEMMA AddInv ==
  ASSUME FeesInv, Fees!AddRecipient
  PROVE  FeesInv'
<1>1. /\ Fees!Reschedule(Append(recipients, NewRow), takesAll, coins, rate)
      /\ Len(recipients) = 1 /\ editing' = 2
      /\ UNCHANGED <<leaving, spendable, preset, asked>>
  BY DEF Fees!AddRecipient, Fees!coinVars, NewRow
<1>2. RowsOK(recipients, takesAll, leaving) /\ preset \in Fees!Targets
      /\ rate \in [on : BOOLEAN, rate : Fees!CustomRates]
  BY DEF FeesInv, FormInv
<1>3. PICK e : e = NewRow
  OBVIOUS
<1>4. PICK q : q = Append(recipients, e)
  OBVIOUS
<1>5. e \in Row /\ e.id \notin leaving /\ \A i \in 1..Len(recipients) : recipients[i].id # e.id
  BY <1>2, <1>3, NewRowOK
<1>6. q \in Seq(Row) /\ Len(q) = 2 /\ q[1] = recipients[1] /\ q[2] = e
  <2>1. recipients \in Seq(Row)
    BY <1>2 DEF RowsOK, Recipients
  <2>2. /\ q \in Seq(Row) /\ Len(q) = Len(recipients) + 1 /\ q[Len(recipients) + 1] = e
        /\ \A i \in 1..Len(recipients) : q[i] = recipients[i]
    BY <1>4, <1>5, <2>1, AppendProperties
  <2> QED BY <1>1, <2>2
<1>7. Recipients(q) /\ \A i \in 1..Len(q) : q[i].id \notin leaving
  BY <1>1, <1>2, <1>5, <1>6 DEF Recipients, RowsOK
<1>8. {recipients[i].id : i \in 1..Len(recipients)} \subseteq {q[i].id : i \in 1..Len(q)}
  BY <1>1, <1>6
<1>9. RowsOK(q, takesAll, leaving)
  BY <1>2, <1>7, <1>8 DEF RowsOK
<1>10. Fees!Reschedule(q, takesAll, coins, rate)
  BY <1>1, <1>3, <1>4
<1>11. RowsOK(q, takesAll, leaving') /\ editing' \in 1..Len(q)
  BY <1>1, <1>6, <1>9
<1>12. spendable' \subseteq spendable /\ preset' \in Fees!Targets /\ asked' = asked
  BY <1>1, <1>2
<1> QED BY <1>2, <1>10, <1>11, <1>12, RescheduleInv

\* Removed recipients keep their ids until they are deleted.
LEMMA LeavingOK ==
  ASSUME RowsOK(recipients, takesAll, leaving), NEW s, s \subseteq 1..Len(recipients)
  PROVE  /\ leaving \cup {recipients[i].id : i \in s} \subseteq Nat \ {0}
         /\ Bounded(leaving \cup {recipients[i].id : i \in s})
<1>1. \A x \in leaving \cup {recipients[i].id : i \in s} : x \in Nat \ {0}
  BY IdsTyped DEF RowsOK
<1>2. \A x \in leaving \cup {recipients[i].id : i \in s} : x <= Fees!LastId
  BY LastIdOK
<1> QED BY <1>1, <1>2, LastIdOK DEF Bounded

LEMMA RemoveInv ==
  ASSUME FeesInv, NEW i \in DOMAIN recipients, Fees!RemoveRecipient(i)
  PROVE  FeesInv'
<1>1. /\ Fees!Reschedule(Fees!RemoveAt(recipients, i), takesAll, coins, rate)
      /\ Len(recipients) > 1 /\ editing' = 1 /\ leaving' = leaving \cup {recipients[i].id}
      /\ UNCHANGED <<spendable, preset, asked>>
  BY DEF Fees!RemoveRecipient, Fees!coinVars
<1>2. RowsOK(recipients, takesAll, leaving) /\ preset \in Fees!Targets
      /\ rate \in [on : BOOLEAN, rate : Fees!CustomRates]
  BY DEF FeesInv, FormInv
<1>3. recipients \in Seq(Row) /\ Len(recipients) = 2 /\ DOMAIN recipients = 1..2 /\ i \in 1..2
      /\ recipients[1].id # recipients[2].id
  BY <1>1, <1>2 DEF RowsOK, Recipients
<1>4. PICK q : q = Fees!RemoveAt(recipients, i)
  OBVIOUS
<1>5. q \in Seq(Row) /\ Len(q) = 1 /\ q[1] = recipients[3 - i]
  <2>1. q = SubSeq(recipients, 1, i - 1) \o SubSeq(recipients, i + 1, Len(recipients))
    BY <1>4 DEF Fees!RemoveAt
  <2>2. CASE i = 1
    <3> DEFINE a == SubSeq(recipients, 1, 0)
               b == SubSeq(recipients, 2, 2)
    <3>1. a \in Seq(Row) /\ Len(a) = 0
      BY <1>3, SubSeqProperties
    <3>2. b \in Seq(Row) /\ Len(b) = 1 /\ b[1] = recipients[2]
      BY <1>3, SubSeqProperties
    <3>3. q = a \o b
      BY <2>1, <2>2, <1>3
    <3> HIDE DEF a, b
    <3> QED BY <2>2, <3>1, <3>2, <3>3, ConcatProperties
  <2>3. CASE i = 2
    <3> DEFINE a == SubSeq(recipients, 1, 1)
               b == SubSeq(recipients, 3, 2)
    <3>1. a \in Seq(Row) /\ Len(a) = 1 /\ a[1] = recipients[1]
      BY <1>3, SubSeqProperties
    <3>2. b \in Seq(Row) /\ Len(b) = 0
      BY <1>3, SubSeqProperties
    <3>3. q = a \o b
      BY <2>1, <2>3, <1>3
    <3> HIDE DEF a, b
    <3>4. Len(q) = Len(a) + Len(b) /\ q \in Seq(Row) /\ \A k \in 1..Len(a) : q[k] = a[k]
      BY <3>1, <3>2, <3>3, ConcatProperties
    <3>5. 3 - i = 1
      BY <2>3
    <3> QED BY <3>1, <3>2, <3>4, <3>5
  <2> QED BY <1>3, <2>2, <2>3
<1>6. leaving' \subseteq Nat \ {0} /\ Bounded(leaving')
  <2>1. leaving' = leaving \cup {recipients[j].id : j \in {i}}
    BY <1>1
  <2>2. {i} \subseteq 1..Len(recipients)
    BY <1>3
  <2> HIDE DEF leaving, recipients
  <2> QED BY <1>2, <2>1, <2>2, LeavingOK
<1>7. Recipients(q) /\ \A k \in 1..Len(q) : q[k].id \notin leaving'
  <2>1. q[1].id \notin leaving /\ q[1].id # recipients[i].id
    <3>1. recipients[1].id \notin leaving /\ recipients[2].id \notin leaving
      BY <1>2, <1>3 DEF RowsOK
    <3> QED BY <1>3, <1>5, <3>1
  <2> QED BY <1>1, <1>5, <2>1 DEF Recipients
<1>8. takesAll \in {0} \cup {q[k].id : k \in 1..Len(q)} \cup leaving'
  <2>1. takesAll = 0 \/ takesAll \in leaving \/ takesAll = recipients[1].id \/ takesAll = recipients[2].id
    BY <1>2, <1>3 DEF RowsOK
  <2>2. recipients[3 - i].id \in {q[k].id : k \in 1..Len(q)}
    BY <1>5
  <2> QED BY <1>1, <1>3, <2>1, <2>2
<1>9. RowsOK(q, takesAll, leaving')
  BY <1>6, <1>7, <1>8 DEF RowsOK
<1>10. Fees!Reschedule(q, takesAll, coins, rate)
  BY <1>1, <1>4
<1>11. editing' \in 1..Len(q)
  BY <1>1, <1>5
<1>12. spendable' \subseteq spendable /\ preset' \in Fees!Targets /\ asked' = asked
  BY <1>1, <1>2
<1> QED BY <1>2, <1>9, <1>10, <1>11, <1>12, RescheduleInv

LEMMA ClearInv ==
  ASSUME FeesInv, Fees!ClearForm
  PROVE  FeesInv'
<1>1. /\ Fees!Reschedule(<<NewRow>>, 0, {}, rate)
      /\ editing' = 1 /\ leaving' = leaving \cup {recipients[i].id : i \in DOMAIN recipients}
      /\ UNCHANGED <<spendable, preset, asked>>
  BY DEF Fees!ClearForm, Fees!coinVars, NewRow
<1>2. RowsOK(recipients, takesAll, leaving) /\ preset \in Fees!Targets
      /\ rate \in [on : BOOLEAN, rate : Fees!CustomRates]
  BY DEF FeesInv, FormInv
<1>3. DOMAIN recipients = 1..Len(recipients)
  BY <1>2 DEF RowsOK, Recipients
<1>4. PICK e : e = NewRow
  OBVIOUS
<1>5. e \in Row /\ e.id \notin leaving /\ \A i \in 1..Len(recipients) : recipients[i].id # e.id
  BY <1>2, <1>4, NewRowOK
<1>6. leaving' \subseteq Nat \ {0} /\ Bounded(leaving')
  BY <1>1, <1>2, <1>3, LeavingOK
<1>7. PICK q : q = <<e>>
  OBVIOUS
<1>8. q \in Seq(Row) /\ Len(q) = 1 /\ q[1] = e
  BY <1>5, <1>7
<1>9. e.id \notin leaving'
  BY <1>1, <1>3, <1>5
<1>10. RowsOK(q, 0, leaving')
  BY <1>6, <1>8, <1>9 DEF RowsOK, Recipients
<1> QED BY <1>1, <1>2, <1>4, <1>7, <1>8, <1>10, RescheduleInv

LEMMA SameRowsInv ==
  ASSUME FeesInv, NEW c, NEW k \in [on : BOOLEAN, rate : Fees!CustomRates],
         Fees!Reschedule(recipients, takesAll, c, k), UNCHANGED <<editing, leaving, asked>>,
         spendable' = spendable, preset' \in Fees!Targets
  PROVE  FeesInv'
<1>1. RowsOK(recipients, takesAll, leaving) /\ editing \in 1..Len(recipients)
  BY DEF FeesInv, FormInv
<1>2. RowsOK(recipients, takesAll, leaving') /\ editing' \in 1..Len(recipients) /\ spendable' \subseteq spendable
      /\ asked' = asked
  BY <1>1
<1> QED BY <1>2, RescheduleInv

\* The choices that no edit of the rows touches.
LEMMA ChoicesOK ==
  ASSUME FeesInv
  PROVE  /\ preset \in Fees!Targets /\ rate \in [on : BOOLEAN, rate : Fees!CustomRates]
         /\ \A on \in BOOLEAN : [rate EXCEPT !.on = on] \in [on : BOOLEAN, rate : Fees!CustomRates]
         /\ \A x \in Fees!CustomRates : [rate EXCEPT !.rate = x] \in [on : BOOLEAN, rate : Fees!CustomRates]
<1>1. preset \in Fees!Targets /\ rate \in [on : BOOLEAN, rate : Fees!CustomRates]
  BY DEF FeesInv, FormInv
<1> HIDE DEF rate
<1> QED BY <1>1

LEMMA ToggleInv ==
  ASSUME FeesInv, NEW c \in Coins, Fees!ToggleCoinSelection(c)
  PROVE  FeesInv'
<1>1. Fees!Reschedule(recipients, takesAll, IF c \in coins THEN coins \ {c} ELSE coins \cup {c}, rate)
  BY DEF Fees!ToggleCoinSelection
<1>2. UNCHANGED <<editing, leaving, spendable, preset, asked>>
  BY DEF Fees!ToggleCoinSelection, Fees!KeepForm, Fees!coinVars
<1> QED BY <1>1, <1>2, ChoicesOK, SameRowsInv

LEMMA BeginSelectionInv ==
  ASSUME FeesInv, Fees!BeginSelection
  PROVE  FeesInv'
<1>1. Fees!Reschedule(recipients, takesAll, coins \cap spendable, rate) /\ UNCHANGED <<editing, leaving, spendable, preset, asked>>
  BY DEF Fees!BeginSelection
<1> QED BY <1>1, ChoicesOK, SameRowsInv

LEMMA CancelSelectionInv ==
  ASSUME FeesInv, Fees!CancelSelection
  PROVE  FeesInv'
<1>1. Fees!Reschedule(recipients, takesAll, Fees!Restored, rate) /\ UNCHANGED <<editing, leaving, spendable, preset, asked>>
  BY DEF Fees!CancelSelection, Fees!coinVars
<1> QED BY <1>1, ChoicesOK, SameRowsInv

LEMMA LockInv ==
  ASSUME FeesInv, NEW c \in Coins, Fees!SetCoinLocked(c)
  PROVE  FeesInv'
<1>1. Fees!Reschedule(recipients, takesAll, (coins \cap spendable) \ (kept' \ kept), rate)
  BY DEF Fees!SetCoinLocked
<1>2. UNCHANGED <<editing, leaving, spendable, preset, asked>>
  BY DEF Fees!SetCoinLocked
<1> QED BY <1>1, <1>2, ChoicesOK, SameRowsInv

LEMMA CustomFeeInv ==
  ASSUME FeesInv, NEW on \in BOOLEAN, Fees!SetCustomFeeEnabled(on)
  PROVE  FeesInv'
<1>1. PICK k : k = [rate EXCEPT !.on = on]
  OBVIOUS
<1>2. Fees!Reschedule(recipients, takesAll, coins, k) /\ UNCHANGED <<editing, leaving, spendable, preset, asked>>
  BY <1>1 DEF Fees!SetCustomFeeEnabled, Fees!KeepForm, Fees!coinVars
<1>3. k \in [on : BOOLEAN, rate : Fees!CustomRates]
  BY <1>1, ChoicesOK
<1> QED BY <1>2, <1>3, ChoicesOK, SameRowsInv

LEMMA CustomRateInv ==
  ASSUME FeesInv, NEW x \in Fees!CustomRates, Fees!SetCustomFeeRate(x)
  PROVE  FeesInv'
<1>1. PICK k : k = [rate EXCEPT !.rate = x]
  OBVIOUS
<1>2. PICK f : f = [shown EXCEPT !.custom = {}]
  OBVIOUS
<1>3. /\ UNCHANGED <<editing, leaving, spendable, asked>>
      /\ \E t \in IF x = 0 THEN {preset} ELSE Fees!Targets :
           /\ preset' = t
           /\ Fees!Reschedule(IF t # preset THEN Fees!UpdateMaximumAmount(recipients, f, t, k) ELSE recipients, takesAll, coins, k)
  BY <1>1, <1>2 DEF Fees!SetCustomFeeRate, Fees!coinVars
<1>4. PICK t \in Fees!Targets :
           /\ preset' = t
           /\ Fees!Reschedule(IF t # preset THEN Fees!UpdateMaximumAmount(recipients, f, t, k) ELSE recipients, takesAll, coins, k)
  BY <1>3, ChoicesOK
<1>5. k \in [on : BOOLEAN, rate : Fees!CustomRates]
  BY <1>1, ChoicesOK
<1>6. CASE t = preset
  <2>1. Fees!Reschedule(recipients, takesAll, coins, k)
    BY <1>4, <1>6
  <2> QED BY <1>3, <1>4, <1>5, <2>1, SameRowsInv
<1>7. CASE t # preset
  <2>1. PICK q : q = Fees!UpdateMaximumAmount(recipients, f, t, k)
    OBVIOUS
  <2>2. f.custom = {} /\ f.estimates = shown.estimates
    <3>1. shown = [estimates |-> shown.estimates, custom |-> shown.custom, pending |-> shown.pending,
                   timer |-> shown.timer, id |-> shown.id]
      BY DEF FeesInv, FormInv
    <3> HIDE DEF shown
    <3> QED BY <1>2, <3>1
  <2>3. ResultOK(Fees!SelectedFeePreview(f, t, k))
    BY <2>2, NoneOK DEF FeesInv, PreviewsInv, Fees!SelectedFeePreview
  <2>4. Refilled(q, recipients) /\ RowsOK(recipients, takesAll, leaving) /\ Recipients(recipients)
    BY <2>1, <2>3, UpdatedOK DEF FeesInv, FormInv, RowsOK
  <2>5. RowsOK(q, takesAll, leaving) /\ Len(q) = Len(recipients)
    BY <2>4, RefilledOK
  <2>6. Fees!Reschedule(q, takesAll, coins, k)
    BY <1>4, <1>7, <2>1
  <2>7. RowsOK(q, takesAll, leaving') /\ editing' \in 1..Len(q) /\ spendable' \subseteq spendable /\ preset' \in Fees!Targets
        /\ asked' = asked
    BY <1>3, <1>4, <2>5 DEF FeesInv, FormInv
  <2> QED BY <1>5, <2>6, <2>7, RescheduleInv
<1> QED BY <1>6, <1>7

----------------------------------------------------------------------------
(* What leaves the previews as they are                                      *)

LEMMA KeptInv ==
  ASSUME FeesInv, shown' = shown, asked' = asked, RowsOK(recipients, takesAll, leaving)',
         editing' \in 1..Len(recipients'), spendable' \subseteq spendable, preset' \in Fees!Targets,
         rate' \in [on : BOOLEAN, rate : Fees!CustomRates], done => done', closing => closing',
         ~done' => Fees!Form' = Fees!Form, MaximumInv'
  PROVE  FeesInv'
<1> USE DEF FeesInv
<1>1. FormInv'
  BY DEF FormInv
<1>2. PreviewsInv'
  BY DEF PreviewsInv, ResultOK, IsFor, PreviewOK
<1>3. SubmittedInv'
  BY DEF SubmittedInv
<1>4. PendingInv'
  BY DEF PendingInv
<1> QED BY <1>1, <1>2, <1>3, <1>4

\* The selection that is cancelled later is none of the form's.
LEMMA AppliedInv ==
  ASSUME FeesInv, Fees!ApplySelection
  PROVE  FeesInv'
<1>1. UNCHANGED <<recipients, editing, takesAll, leaving, coins, spendable, preset, rate, shown, asked, done, closing>>
  BY DEF Fees!ApplySelection, Fees!coinVars
<1>2. RowsOK(recipients, takesAll, leaving)' /\ editing' \in 1..Len(recipients') /\ preset' \in Fees!Targets
      /\ rate' \in [on : BOOLEAN, rate : Fees!CustomRates]
  BY <1>1 DEF FeesInv, FormInv, RowsOK
<1>3. Fees!Form' = Fees!Form
  BY <1>1 DEF Fees!Form
<1>4. MaximumInv'
  BY <1>1 DEF FeesInv, MaximumInv
<1> QED BY <1>1, <1>2, <1>3, <1>4, KeptInv

LEMMA TargetInv ==
  ASSUME FeesInv, NEW t \in Fees!Targets, Fees!SetFeeTargetBlocks(t)
  PROVE  FeesInv'
<1>1. /\ preset' = t /\ recipients' = Fees!UpdateMaximumAmount(recipients, shown, t, rate)
      /\ UNCHANGED <<editing, takesAll, leaving, coins, spendable, rate, shown, asked, done, closing>>
  BY DEF Fees!SetFeeTargetBlocks, Fees!coinVars
<1>2. PICK q : q = recipients'
  OBVIOUS
<1>3. ResultOK(Fees!SelectedFeePreview(shown, t, rate)) /\ (~done => IsFor(Fees!SelectedFeePreview(shown, t, rate), Fees!Form))
  BY NoneOK DEF FeesInv, PreviewsInv, Fees!SelectedFeePreview
<1>4. /\ Refilled(q, recipients)
      /\ \A i \in 1..Len(recipients) : recipients[i].id # takesAll => q[i].amount = recipients[i].amount
      /\ ~done => FilledIn(q, takesAll, Fees!SelectedFeePreview(shown, t, rate))
  BY <1>1, <1>2, <1>3, UpdatedOK DEF FeesInv
<1>5. RowsOK(recipients, takesAll, leaving) /\ Recipients(recipients) /\ editing \in 1..Len(recipients)
      /\ rate \in [on : BOOLEAN, rate : Fees!CustomRates]
  BY DEF FeesInv, FormInv, RowsOK
<1>6. RowsOK(q, takesAll, leaving) /\ Len(q) = Len(recipients)
  BY <1>4, <1>5, RefilledOK
<1>7. Fees!FormOf(q, takesAll, coins, rate) = Fees!FormOf(recipients, takesAll, coins, rate)
  BY <1>4, <1>5, FormKept
<1>8. Fees!Form' = Fees!Form
  BY <1>1, <1>2, <1>7 DEF Fees!Form
<1>9. MaximumInv'
  BY <1>1, <1>2, <1>4 DEF MaximumInv
<1>10. RowsOK(recipients, takesAll, leaving)' /\ editing' \in 1..Len(recipients')
  BY <1>1, <1>2, <1>5, <1>6
<1> QED BY <1>1, <1>5, <1>8, <1>9, <1>10, KeptInv

\* With a custom rate the preset shows nothing of its own.
LEMMA CustomTargetInv ==
  ASSUME FeesInv, NEW t \in Fees!Targets, Fees!SetCustomFeeTarget(t)
  PROVE  FeesInv'
<1>1. preset' = t /\ UNCHANGED <<editing, leaving, spendable, asked, done, closing>>
  BY DEF Fees!SetCustomFeeTarget, Fees!coinVars
<1>2. PICK x \in Fees!CustomRates :
        IF rate = [on |-> TRUE, rate |-> x] THEN UNCHANGED <<recipients, takesAll, coins, rate, shown>>
        ELSE Fees!Reschedule(recipients, takesAll, coins, [on |-> TRUE, rate |-> x])
  BY DEF Fees!SetCustomFeeTarget
<1>3. CASE rate # [on |-> TRUE, rate |-> x]
  <2>1. PICK k : k = [on |-> TRUE, rate |-> x]
    OBVIOUS
  <2>2. k \in [on : BOOLEAN, rate : Fees!CustomRates]
    BY <2>1
  <2>3. Fees!Reschedule(recipients, takesAll, coins, k)
    BY <1>2, <1>3, <2>1
  <2> QED BY <1>1, <2>2, <2>3, SameRowsInv
<1>4. CASE rate = [on |-> TRUE, rate |-> x]
  <2>1. UNCHANGED <<recipients, takesAll, coins, rate, shown>> /\ rate.on
    BY <1>2, <1>4
  <2>2. RowsOK(recipients, takesAll, leaving)' /\ editing' \in 1..Len(recipients')
        /\ rate' \in [on : BOOLEAN, rate : Fees!CustomRates]
    BY <1>1, <2>1 DEF FeesInv, FormInv, RowsOK
  <2>3. Fees!Form' = Fees!Form
    BY <2>1 DEF Fees!Form
  <2>4. Fees!SelectedFeePreview(shown, preset, rate)' = Fees!SelectedFeePreview(shown, preset, rate)
    BY <2>1 DEF Fees!SelectedFeePreview
  <2>5. MaximumInv'
    BY <1>1, <2>1, <2>4 DEF FeesInv, MaximumInv
  <2> QED BY <1>1, <2>1, <2>2, <2>3, <2>5, KeptInv
<1> QED BY <1>3, <1>4

\* A recipient that is gone took the maximum of no row.
LEMMA DestroyedInv ==
  ASSUME FeesInv, Fees!RecipientDestroyed
  PROVE  FeesInv'
<1>1. /\ leaving' = {} /\ takesAll' = IF takesAll \in leaving THEN 0 ELSE takesAll
      /\ UNCHANGED <<recipients, editing, coins, spendable, preset, rate, shown, asked, done, closing>>
  BY DEF Fees!RecipientDestroyed, Fees!coinVars
<1>2. /\ RowsOK(recipients, takesAll, leaving) /\ editing \in 1..Len(recipients) /\ preset \in Fees!Targets
      /\ rate \in [on : BOOLEAN, rate : Fees!CustomRates]
  BY DEF FeesInv, FormInv
<1>3. PICK m : m = takesAll'
  OBVIOUS
<1>4. Bounded({})
  <2>1. 0 \in Nat
    OBVIOUS
  <2> QED BY <2>1 DEF Bounded
<1>5. RowsOK(recipients, m, {})
  BY <1>1, <1>2, <1>3, <1>4 DEF RowsOK
<1>6. \A i \in 1..Len(recipients) : recipients[i].id = m <=> recipients[i].id = takesAll
  <2>1. \A i \in 1..Len(recipients) : recipients[i].id # 0 /\ recipients[i].id \notin leaving
    BY <1>2, IdsTyped DEF RowsOK
  <2> QED BY <1>1, <1>3, <2>1
<1>7. DOMAIN recipients = 1..Len(recipients)
  BY <1>2 DEF RowsOK, Recipients
<1>8. Fees!Index(recipients, m) = Fees!Index(recipients, takesAll)
  <2>1. {i \in DOMAIN recipients : recipients[i].id = m} = {i \in DOMAIN recipients : recipients[i].id = takesAll}
    BY <1>6, <1>7
  <2> QED BY <2>1 DEF Fees!Index
<1>9. Fees!FormOf(recipients, m, coins, rate) = Fees!FormOf(recipients, takesAll, coins, rate)
  <2>1. [i \in DOMAIN recipients |-> IF recipients[i].id = m THEN 0 ELSE recipients[i].amount]
          = [i \in DOMAIN recipients |-> IF recipients[i].id = takesAll THEN 0 ELSE recipients[i].amount]
    BY <1>6, <1>7
  <2> QED BY <1>8, <2>1 DEF Fees!FormOf
<1>10. Fees!Form' = Fees!Form
  BY <1>1, <1>3, <1>9 DEF Fees!Form
<1>11. MaximumInv'
  BY <1>1, <1>3, <1>8 DEF FeesInv, MaximumInv, FilledIn
<1>12. RowsOK(recipients, takesAll, leaving)' /\ editing' \in 1..Len(recipients') /\ preset' \in Fees!Targets
       /\ rate' \in [on : BOOLEAN, rate : Fees!CustomRates]
  BY <1>1, <1>2, <1>3, <1>5 DEF RowsOK
<1> QED BY <1>1, <1>10, <1>11, <1>12, KeptInv

----------------------------------------------------------------------------
(* The wallet's coins                                                        *)

LEMMA CoinsUpdatedInv ==
  ASSUME FeesInv, Fees!UpdateCoins
  PROVE  FeesInv'
<1>1. UNCHANGED <<editing, leaving, spendable, preset, asked, done, closing>>
  BY DEF Fees!UpdateCoins
<1>2. Fees!Reschedule(recipients, takesAll, coins \cap spendable, rate)
  BY DEF Fees!UpdateCoins
<1> QED BY <1>1, <1>2, ChoicesOK, SameRowsInv

LEMMA SpentInv ==
  ASSUME FeesInv, NEW c \in Coins, Fees!CoinSpent(c)
  PROVE  FeesInv'
<1>1. /\ spendable' \subseteq spendable
      /\ UNCHANGED <<recipients, editing, takesAll, leaving, coins, preset, rate, shown, asked, done, closing>>
  BY DEF Fees!CoinSpent
<1>2. RowsOK(recipients, takesAll, leaving)' /\ editing' \in 1..Len(recipients') /\ preset' \in Fees!Targets
      /\ rate' \in [on : BOOLEAN, rate : Fees!CustomRates]
  BY <1>1 DEF FeesInv, FormInv, RowsOK
<1>3. Fees!Form' = Fees!Form
  BY <1>1 DEF Fees!Form
<1>4. MaximumInv'
  BY <1>1 DEF FeesInv, MaximumInv
<1> QED BY <1>1, <1>2, <1>3, <1>4, KeptInv

\* What was sent is not edited any more: the form is cleared next.
LEMMA SentInv ==
  ASSUME FeesInv, Fees!TransactionSent
  PROVE  FeesInv'
<1>1. /\ done' = TRUE /\ spendable' \subseteq spendable /\ takesAll' = 0
      /\ shown' = IF coins # {} THEN Fees!ScheduleFeeEstimates(shown, recipients, 0) ELSE shown
      /\ UNCHANGED <<recipients, editing, leaving, preset, rate, asked, closing>>
  BY DEF Fees!TransactionSent
<1>2. RowsOK(recipients, takesAll, leaving)' /\ editing' \in 1..Len(recipients') /\ preset' \in Fees!Targets
      /\ rate' \in [on : BOOLEAN, rate : Fees!CustomRates]
  BY <1>1 DEF FeesInv, FormInv, RowsOK
<1>3. CASE coins = {}
  <2>1. MaximumInv'
    BY <1>1 DEF MaximumInv
  <2> QED BY <1>1, <1>2, <1>3, <2>1, KeptInv
<1>4. CASE coins # {}
  <2>1. PICK f : f = shown'
    OBVIOUS
  <2>2. /\ f = [estimates |-> Fees!NoEstimates, custom |-> {}, pending |-> f.pending, timer |-> f.timer, id |-> f.id]
        /\ f.id = shown.id + 1 /\ (f.pending => f.timer)
    BY <1>1, <1>4, <2>1, ScheduledOK DEF FeesInv
  <2>3. f.estimates = Fees!NoEstimates /\ f.custom = {}
    BY <2>2
  <2> QED BY <1>1, <1>2, <2>1, <2>2, <2>3, ClearedInv
<1> QED BY <1>3, <1>4

----------------------------------------------------------------------------
(* Requests and their answers                                                *)

LEMMA RequestNowInv ==
  ASSUME FeesInv, Fees!RequestFeeEstimatesNow
  PROVE  FeesInv'
<1> USE DEF FeesInv
<1>1. UNCHANGED <<recipients, editing, takesAll, leaving, coins, spendable, preset, rate, done, closing>>
  BY DEF Fees!RequestFeeEstimatesNow, Fees!coinVars
<1>2. RowsOK(recipients, takesAll, leaving)' /\ editing' \in 1..Len(recipients') /\ preset' \in Fees!Targets
      /\ rate' \in [on : BOOLEAN, rate : Fees!CustomRates] /\ spendable' \subseteq spendable
  BY <1>1 DEF FormInv, RowsOK
<1>3. shown = [estimates |-> shown.estimates, custom |-> shown.custom, pending |-> shown.pending,
               timer |-> shown.timer, id |-> shown.id] /\ shown.id \in Nat
  BY DEF FormInv
<1>4. PICK f : f = shown'
  OBVIOUS
<1>5. Fees!Form' = Fees!Form
  BY <1>1 DEF Fees!Form
<1>6. CASE ~Fees!BuildRecipients(recipients, takesAll)
  <2>1. f = [shown EXCEPT !.id = @ + 1, !.estimates = Fees!NoEstimates, !.custom = {}, !.pending = FALSE, !.timer = FALSE]
        /\ asked' = asked
    BY <1>4, <1>6 DEF Fees!RequestFeeEstimatesNow, Fees!ClearFeeEstimates
  <2>2. f = [estimates |-> Fees!NoEstimates, custom |-> {}, pending |-> FALSE, timer |-> FALSE, id |-> shown.id + 1]
    <3> HIDE DEF shown
    <3> QED BY <1>3, <2>1
  <2>3. f.estimates = Fees!NoEstimates /\ f.custom = {} /\ f.id = shown.id + 1 /\ ~f.pending
        /\ f = [estimates |-> f.estimates, custom |-> f.custom, pending |-> f.pending, timer |-> f.timer, id |-> f.id]
    BY <2>2
  <2> QED BY <1>2, <1>4, <2>1, <2>3, ClearedInv
<1>7. CASE Fees!BuildRecipients(recipients, takesAll)
  <2>1. PICK e : e = [id |-> shown.id + 1, form |-> Fees!Form]
    OBVIOUS
  <2>2. f = [shown EXCEPT !.timer = FALSE, !.pending = TRUE, !.id = @ + 1] /\ asked' = Append(asked, e)
    BY <1>4, <1>7, <2>1 DEF Fees!RequestFeeEstimatesNow
  <2>3. f = [estimates |-> shown.estimates, custom |-> shown.custom, pending |-> TRUE, timer |-> FALSE, id |-> shown.id + 1]
    <3> HIDE DEF shown
    <3> QED BY <1>3, <2>2
  <2>4. f.estimates = shown.estimates /\ f.custom = shown.custom /\ f.id = shown.id + 1 /\ f.pending /\ ~f.timer
        /\ f = [estimates |-> f.estimates, custom |-> f.custom, pending |-> f.pending, timer |-> f.timer, id |-> f.id]
    BY <2>3
  <2>5. PICK S : asked \in Seq(S)
    BY DEF SubmittedInv
  <2>6. asked \in Seq(S \cup {e}) /\ e \in S \cup {e}
    BY <2>5
  <2>7. PICK r : r = asked'
    OBVIOUS
  <2>8. /\ r \in Seq(S \cup {e}) /\ Len(r) = Len(asked) + 1 /\ r[Len(asked) + 1] = e
        /\ \A i \in 1..Len(asked) : r[i] = asked[i]
    BY <2>2, <2>6, <2>7, AppendProperties
  <2>9. Len(asked) \in Nat
    BY <2>5
  <2>10. e.id = shown.id + 1 /\ e.form = Fees!Form /\ FormOK(e.form)
    BY <2>1, FormIsOK
  <2>11. \A i \in 1..Len(r) : r[i] = e \/ (i \in 1..Len(asked) /\ r[i] = asked[i])
    BY <2>8, <2>9
  <2>12. FormInv'
    BY <1>2, <1>3, <1>4, <2>4 DEF FormInv
  <2>13. PreviewsInv'
    BY <1>1, <1>4, <1>5, <2>4 DEF PreviewsInv, ResultOK, IsFor, PreviewOK
  <2>14. MaximumInv'
    <3>1. Fees!SelectedFeePreview(shown, preset, rate)' = Fees!SelectedFeePreview(shown, preset, rate)
      BY <1>1, <1>4, <2>4 DEF Fees!SelectedFeePreview
    <3> QED BY <1>1, <3>1 DEF MaximumInv
  <2>15. SubmittedInv'
    <3>1. \A i \in 1..Len(asked) : asked[i].id \in Nat /\ asked[i].id <= shown.id /\ FormOK(asked[i].form)
      BY DEF SubmittedInv
    <3>2. ASSUME NEW i \in 1..Len(r)
          PROVE  r[i].id \in Nat /\ r[i].id <= f.id /\ FormOK(r[i].form) /\ (r[i].id = f.id => r[i].form = Fees!Form)
      <4>1. CASE r[i] = e
        BY <1>3, <2>4, <2>10, <4>1
      <4>2. CASE i \in 1..Len(asked) /\ r[i] = asked[i]
        BY <1>3, <2>4, <3>1, <4>2
      <4> QED BY <2>11, <4>1, <4>2
    <3> QED BY <1>4, <1>5, <2>7, <2>8, <3>2 DEF SubmittedInv, FormOK
  <2>16. PendingInv'
    <3>1. Len(asked) + 1 \in 1..Len(r) /\ r[Len(asked) + 1].id = f.id
      BY <2>4, <2>8, <2>9, <2>10
    <3> QED BY <1>4, <2>7, <3>1 DEF PendingInv
  <2> QED BY <2>12, <2>13, <2>14, <2>15, <2>16
<1> QED BY <1>6, <1>7

\* Only the newest request's answer is shown, and that one was asked for the
\* form as it still is.
LEMMA AnswerInv ==
  ASSUME FeesInv, NEW threw \in BOOLEAN, Fees!ApplyFeeEstimates(threw)
  PROVE  FeesInv'
<1> USE DEF FeesInv
<1>1. /\ UNCHANGED <<editing, takesAll, leaving, coins, spendable, preset, rate, done, closing>>
      /\ asked # << >> /\ asked' = Tail(asked)
  BY DEF Fees!ApplyFeeEstimates, Fees!coinVars
<1>2. PICK r : r = asked'
  OBVIOUS
<1>3. PICK first : first = asked[1]
  OBVIOUS
<1>4. PICK S : asked \in Seq(S)
  BY DEF SubmittedInv
<1>5. /\ Head(asked) = asked[1] /\ r \in Seq(S) /\ Len(r) = Len(asked) - 1
      /\ \A i \in 1..Len(r) : r[i] = asked[i + 1]
  BY <1>1, <1>2, <1>4, HeadTailProperties
<1>6. Len(asked) \in Nat /\ Len(asked) > 0 /\ Len(r) \in Nat
  BY <1>1, <1>4, <1>5
<1>7. /\ first.id \in Nat /\ first.id <= shown.id /\ FormOK(first.form)
      /\ first.id = shown.id /\ ~done => first.form = Fees!Form
  BY <1>3, <1>6 DEF SubmittedInv
<1>8. \A i \in 1..Len(r) : i + 1 \in 1..Len(asked) /\ r[i] = asked[i + 1]
  BY <1>5, <1>6
<1>9. \A i \in 1..Len(r) : /\ r[i].id \in Nat /\ r[i].id <= shown.id /\ FormOK(r[i].form)
                           /\ r[i].id = shown.id /\ ~done => r[i].form = Fees!Form
  <2>1. \A k \in 1..Len(asked) : /\ asked[k].id \in Nat /\ asked[k].id <= shown.id /\ FormOK(asked[k].form)
                                 /\ asked[k].id = shown.id /\ ~done => asked[k].form = Fees!Form
    BY DEF SubmittedInv
  <2> QED BY <1>8, <2>1
<1>10. /\ RowsOK(recipients, takesAll, leaving) /\ Recipients(recipients) /\ editing \in 1..Len(recipients)
       /\ preset \in Fees!Targets /\ rate \in [on : BOOLEAN, rate : Fees!CustomRates]
  BY DEF FormInv, RowsOK
<1>11. CASE first.id # shown.id
  <2>1. UNCHANGED <<recipients, shown>>
    BY <1>3, <1>5, <1>11 DEF Fees!ApplyFeeEstimates, Fees!Newest
  <2>2. Fees!Form' = Fees!Form
    BY <1>1, <2>1 DEF Fees!Form
  <2>3. FormInv'
    BY <1>1, <2>1 DEF FormInv, RowsOK
  <2>4. PreviewsInv'
    BY <1>1, <2>1, <2>2 DEF PreviewsInv, ResultOK, IsFor, PreviewOK
  <2>5. MaximumInv'
    BY <1>1, <2>1 DEF MaximumInv
  <2>6. SubmittedInv'
    BY <1>1, <1>2, <1>5, <1>9, <2>1, <2>2 DEF SubmittedInv, FormOK
  <2>7. PendingInv'
    <3>1. (\E i \in 1..Len(asked) : asked[i].id = shown.id) => \E i \in 1..Len(r) : r[i].id = shown.id
      <4> SUFFICES ASSUME NEW i \in 1..Len(asked), asked[i].id = shown.id PROVE \E k \in 1..Len(r) : r[k].id = shown.id
        OBVIOUS
      <4>1. i # 1
        BY <1>3, <1>11
      <4>2. i - 1 \in 1..Len(r) /\ (i - 1) + 1 = i
        BY <1>5, <1>6, <4>1
      <4>3. r[i - 1] = asked[i]
        BY <1>5, <4>2
      <4> QED BY <4>2, <4>3
    <3> QED BY <1>1, <1>2, <2>1, <3>1 DEF PendingInv
  <2> QED BY <2>3, <2>4, <2>5, <2>6, <2>7
<1>12. CASE first.id = shown.id
  <2>1. PICK est : est = [t \in Fees!Targets |-> IF threw THEN {} ELSE Fees!EstimatePreviewFee(first.form, t, spendable)]
    OBVIOUS
  <2>2. PICK own : own = IF threw THEN {} ELSE Fees!EstimateCustomPreviewFee(first.form, spendable)
    OBVIOUS
  <2>3. PICK f : f = [shown EXCEPT !.pending = FALSE, !.estimates = est, !.custom = own]
    OBVIOUS
  <2>4. shown' = f /\ recipients' = Fees!UpdateMaximumAmount(recipients, f, preset, rate)
    BY <1>3, <1>5, <1>12, <2>1, <2>2, <2>3 DEF Fees!ApplyFeeEstimates, Fees!Newest
  <2>5. f = [estimates |-> est, custom |-> own, pending |-> FALSE, timer |-> shown.timer, id |-> shown.id]
        /\ shown.id \in Nat
    <3>1. shown = [estimates |-> shown.estimates, custom |-> shown.custom, pending |-> shown.pending,
                   timer |-> shown.timer, id |-> shown.id] /\ shown.id \in Nat
      BY DEF FormInv
    <3> HIDE DEF shown
    <3> QED BY <2>3, <3>1
  <2>6. /\ f.estimates = est /\ f.custom = own /\ ~f.pending /\ f.id = shown.id
        /\ f = [estimates |-> f.estimates, custom |-> f.custom, pending |-> f.pending, timer |-> f.timer, id |-> f.id]
    BY <2>5
  <2>7. ASSUME NEW t \in Fees!Targets
        PROVE  ResultOK(est[t]) /\ IsFor(est[t], first.form) /\ ResultOK(own) /\ IsFor(own, first.form)
    BY <1>7, <2>1, <2>2, EstimatesOK, NoneOK
  <2>8. ResultOK(own) /\ IsFor(own, first.form)
    BY <1>10, <2>7
  <2>9. PICK result : result = Fees!SelectedFeePreview(f, preset, rate)
    OBVIOUS
  <2>10. ResultOK(result) /\ IsFor(result, first.form)
    BY <1>10, <2>6, <2>7, <2>8, <2>9, NoneOK DEF Fees!SelectedFeePreview
  <2>11. PICK q : q = recipients'
    OBVIOUS
  <2>12. /\ Refilled(q, recipients)
         /\ \A i \in 1..Len(recipients) : recipients[i].id # takesAll => q[i].amount = recipients[i].amount
         /\ ~done => FilledIn(q, takesAll, result)
    BY <1>7, <1>12, <2>4, <2>9, <2>10, <2>11, UpdatedOK
  <2>13. RowsOK(q, takesAll, leaving) /\ Len(q) = Len(recipients)
    BY <1>10, <2>12, RefilledOK
  <2>14. Fees!FormOf(q, takesAll, coins, rate) = Fees!FormOf(recipients, takesAll, coins, rate)
    BY <1>10, <2>12, FormKept
  <2>15. Fees!Form' = Fees!Form
    BY <1>1, <2>11, <2>14 DEF Fees!Form
  <2>16. FormInv'
    <3>1. RowsOK(recipients, takesAll, leaving)' /\ editing' \in 1..Len(recipients')
      BY <1>1, <1>10, <2>11, <2>13
    <3> QED BY <1>1, <1>10, <2>4, <2>5, <2>6, <3>1 DEF FormInv
  <2>17. PreviewsInv'
    <3>1. \A t \in Fees!Targets : ResultOK(f.estimates[t]) /\ (~done => IsFor(f.estimates[t], Fees!Form))
      BY <1>7, <1>12, <2>6, <2>7
    <3>2. ResultOK(f.custom) /\ (~done => IsFor(f.custom, Fees!Form))
      BY <1>7, <1>12, <2>6, <2>8
    <3> QED BY <1>1, <2>4, <2>15, <3>1, <3>2 DEF PreviewsInv, ResultOK, IsFor, PreviewOK
  <2>18. MaximumInv'
    <3>1. Fees!SelectedFeePreview(shown, preset, rate)' = result
      BY <1>1, <2>4, <2>9 DEF Fees!SelectedFeePreview
    <3> QED BY <1>1, <2>11, <2>12, <3>1 DEF MaximumInv
  <2>19. SubmittedInv'
    BY <1>1, <1>2, <1>5, <1>9, <2>4, <2>6, <2>15 DEF SubmittedInv, FormOK
  <2>20. PendingInv'
    BY <2>4, <2>6 DEF PendingInv
  <2> QED BY <2>16, <2>17, <2>18, <2>19, <2>20
<1> QED BY <1>11, <1>12

LEMMA ClosingInv ==
  ASSUME FeesInv, Fees!BeginShutdown
  PROVE  FeesInv'
<1> USE DEF FeesInv
<1>1. /\ closing' = TRUE /\ asked' = << >>
      /\ UNCHANGED <<recipients, editing, takesAll, leaving, coins, spendable, preset, rate, done>>
  BY DEF Fees!BeginShutdown, Fees!coinVars
<1>2. PICK f : f = shown'
  OBVIOUS
<1>3. /\ f.estimates = shown.estimates /\ f.custom = shown.custom /\ f.id = shown.id
      /\ f = [estimates |-> f.estimates, custom |-> f.custom, pending |-> f.pending, timer |-> f.timer, id |-> f.id]
  <2>1. f = [shown EXCEPT !.timer = FALSE]
    BY <1>2 DEF Fees!BeginShutdown
  <2>2. shown = [estimates |-> shown.estimates, custom |-> shown.custom, pending |-> shown.pending,
                 timer |-> shown.timer, id |-> shown.id]
    BY DEF FormInv
  <2> HIDE DEF shown
  <2>3. f = [estimates |-> shown.estimates, custom |-> shown.custom, pending |-> shown.pending, timer |-> FALSE, id |-> shown.id]
    BY <2>1, <2>2
  <2> QED BY <2>3
<1>4. Fees!Form' = Fees!Form
  BY <1>1 DEF Fees!Form
<1>5. FormInv'
  BY <1>1, <1>2, <1>3 DEF FormInv, RowsOK
<1>6. PreviewsInv'
  BY <1>1, <1>2, <1>3, <1>4 DEF PreviewsInv, ResultOK, IsFor, PreviewOK
<1>7. MaximumInv'
  <2>1. Fees!SelectedFeePreview(shown, preset, rate)' = Fees!SelectedFeePreview(shown, preset, rate)
    BY <1>1, <1>2, <1>3 DEF Fees!SelectedFeePreview
  <2> QED BY <1>1, <2>1 DEF MaximumInv
<1>8. SubmittedInv'
  <2>1. PICK r : r = asked'
    OBVIOUS
  <2>2. r \in Seq({}) /\ Len(r) = 0
    BY <1>1, <2>1
  <2> QED BY <2>1, <2>2 DEF SubmittedInv
<1>9. PendingInv'
  BY <1>1 DEF PendingInv
<1> QED BY <1>5, <1>6, <1>7, <1>8, <1>9

LEMMA FeesInitInv ==
  ASSUME Fees!Init
  PROVE  FeesInv
<1>1. /\ recipients = <<[id |-> 1, addr |-> "none", amount |-> 0]>>
      /\ editing = 1 /\ takesAll = 0 /\ leaving = {} /\ spendable = Coins /\ preset = "slow"
      /\ rate = [on |-> FALSE, rate |-> 0]
      /\ shown = [estimates |-> Fees!NoEstimates, custom |-> {}, pending |-> FALSE, timer |-> FALSE, id |-> 0]
      /\ asked = << >>
  BY DEF Fees!Init
<1>2. RowsOK(recipients, takesAll, leaving) /\ Len(recipients) = 1
  <2>1. PICK e : e = [id |-> 1, addr |-> "none", amount |-> 0]
    OBVIOUS
  <2>2. e \in Row
    BY <2>1 DEF Row, Fees!Addresses
  <2>3. recipients = <<e>>
    BY <1>1, <2>1
  <2>4. recipients \in Seq(Row) /\ Len(recipients) = 1
    BY <2>2, <2>3
  <2>5. Bounded({})
    <3>1. 0 \in Nat
      OBVIOUS
    <3> QED BY <3>1 DEF Bounded
  <2> QED BY <1>1, <2>4, <2>5 DEF RowsOK, Recipients
<1>3. /\ \A t \in Fees!Targets : shown.estimates[t] = {}
      /\ shown.custom = {} /\ ~shown.pending /\ shown.id = 0
      /\ shown = [estimates |-> shown.estimates, custom |-> shown.custom, pending |-> shown.pending,
                  timer |-> shown.timer, id |-> shown.id]
  <2>1. PICK f : f = shown
    OBVIOUS
  <2>2. f = [estimates |-> Fees!NoEstimates, custom |-> {}, pending |-> FALSE, timer |-> FALSE, id |-> 0]
    BY <1>1, <2>1
  <2>3. \A t \in Fees!Targets : f.estimates[t] = {}
    BY <2>2 DEF Fees!NoEstimates
  <2>4. /\ f.custom = {} /\ ~f.pending /\ f.id = 0
        /\ f = [estimates |-> f.estimates, custom |-> f.custom, pending |-> f.pending, timer |-> f.timer, id |-> f.id]
    BY <2>2
  <2> QED BY <2>1, <2>3, <2>4
<1>4. preset \in Fees!Targets /\ rate \in [on : BOOLEAN, rate : Fees!CustomRates] /\ ~rate.on
  BY <1>1 DEF Fees!Targets, Fees!CustomRates
<1>5. FormInv
  BY <1>1, <1>2, <1>3, <1>4 DEF FormInv
<1>6. PreviewsInv
  BY <1>3 DEF PreviewsInv, ResultOK, IsFor
<1>7. MaximumInv
  <2>1. Fees!SelectedFeePreview(shown, preset, rate) = {}
    BY <1>3, <1>4 DEF Fees!SelectedFeePreview
  <2> QED BY <2>1 DEF MaximumInv, FilledIn
<1>8. SubmittedInv
  <2>1. asked \in Seq({}) /\ Len(asked) = 0
    BY <1>1
  <2> QED BY <2>1 DEF SubmittedInv
<1>9. PendingInv
  BY <1>3 DEF PendingInv
<1> QED BY <1>5, <1>6, <1>7, <1>8, <1>9 DEF FeesInv

LEMMA FeesNextInv ==
  ASSUME FeesInv, Fees!Next
  PROVE  FeesInv'
<1>1. CASE Fees!Edit
  BY <1>1, EditAddressInv, EditAmountInv, RemoveInv, ToggleInv, LockInv, BeginSelectionInv, AppliedInv, TargetInv,
    CustomTargetInv, CustomFeeInv, CustomRateInv, UseMaximumInv, AddInv, ClearInv
  DEF Fees!Edit, Fees!SendRecipientsListModelClear
<1>2. CASE Fees!UpdateCoins \/ Fees!CancelSelection \/ Fees!ClearSentForm \/ Fees!RecipientDestroyed
  BY <1>2, CoinsUpdatedInv, CancelSelectionInv, ClearInv, DestroyedInv DEF Fees!ClearSentForm
<1>3. CASE \/ Fees!RequestFeeEstimatesNow \/ (\E threw \in BOOLEAN : Fees!ApplyFeeEstimates(threw))
           \/ Fees!TransactionSent \/ Fees!BeginShutdown \/ (\E c \in Coins : Fees!CoinSpent(c))
  BY <1>3, RequestNowInv, AnswerInv, SentInv, ClosingInv, SpentInv
<1> QED BY <1>1, <1>2, <1>3 DEF Fees!Next

LEMMA FeesStutters ==
  ASSUME FeesInv, UNCHANGED Fees!vars
  PROVE  FeesInv'
<1>1. UNCHANGED <<recipients, editing, takesAll, leaving, coins, spendable, preset, rate, shown, asked, done, closing>>
  BY DEF Fees!vars, Fees!coinVars
<1>2. RowsOK(recipients, takesAll, leaving)' /\ editing' \in 1..Len(recipients') /\ preset' \in Fees!Targets
      /\ rate' \in [on : BOOLEAN, rate : Fees!CustomRates]
  BY <1>1 DEF FeesInv, FormInv, RowsOK
<1>3. Fees!Form' = Fees!Form
  BY <1>1 DEF Fees!Form
<1>4. MaximumInv'
  BY <1>1 DEF FeesInv, MaximumInv
<1> QED BY <1>1, <1>2, <1>3, <1>4, KeptInv

LEMMA FeesStepInv ==
  ASSUME part = "fees" => FeesInv, [Next]_vars, part' = "fees"
  PROVE  FeesInv'
<1>1. part = "fees" /\ (Fees!Next \/ UNCHANGED Fees!vars)
  BY DEF Next, vars, FeesStep, SendsStep, ListStep, Fees!vars, Fees!coinVars
<1> QED BY <1>1, FeesNextInv, FeesStutters

\* The amounts of all rows are the form's and the maximum.
LEMMA RowsAddUp ==
  ASSUME FormInv, Fees!Index(recipients, takesAll) # 0
  PROVE  Fees!Sum([i \in DOMAIN recipients |-> recipients[i].amount])
           = recipients[Fees!Index(recipients, takesAll)].amount + Rest(Fees!Form)
<1> DEFINE n == Len(recipients)
           j == Fees!Index(recipients, takesAll)
           a == [i \in DOMAIN recipients |-> recipients[i].amount]
           b == [Fees!Form.amounts EXCEPT ![Fees!Form.remainder] = 0]
<1>1. /\ Recipients(recipients) /\ takesAll \in Nat /\ n \in 1..2 /\ DOMAIN recipients = 1..n
      /\ \A i \in 1..n : recipients[i] \in Row
  BY MaximumTyped DEF FormInv, RowsOK, Recipients
<1>2. j \in 1..n /\ \A i \in 1..n : recipients[i].id = takesAll => i = j
  <2>1. /\ j \in 0..n /\ j # 0
        /\ \A i \in 1..n : recipients[i].id = takesAll => j = i
    BY <1>1, IndexOK
  <2> HIDE DEF j, n
  <2>2. n \in Nat
    BY <1>1
  <2> QED BY <2>1, <2>2
<1>3. /\ Fees!Form.amounts = [i \in DOMAIN recipients |-> IF recipients[i].id = takesAll THEN 0 ELSE recipients[i].amount]
      /\ Fees!Form.remainder = j
  BY FormIsOK DEF Fees!Form, Fees!FormOf
<1> HIDE DEF j
<1>4. DOMAIN b = 1..n /\ b[j] = 0 /\ \A i \in 1..n : i # j => b[i] = a[i]
  BY <1>1, <1>2, <1>3
<1>5. DOMAIN a = 1..n /\ \A i \in 1..n : a[i] \in Int /\ a[i] = recipients[i].amount
  BY <1>1 DEF Row
<1>6. Rest(Fees!Form) = Fees!Sum(b)
  BY DEF Rest
<1> HIDE DEF a, b, n
<1>7. \A i \in 1..n : b[i] \in Int
  BY <1>2, <1>4, <1>5
<1>8. Fees!Sum(a) = IF n = 1 THEN a[1] ELSE a[1] + a[2]
  BY <1>1, <1>5, SumOK
<1>9. Fees!Sum(b) = IF n = 1 THEN b[1] ELSE b[1] + b[2]
  BY <1>1, <1>4, <1>7, SumOK
<1>10. Fees!Sum(a) = a[j] + Fees!Sum(b)
  <2>1. CASE n = 1
    BY <1>2, <1>4, <1>5, <1>8, <1>9, <2>1
  <2>2. CASE n = 2
    <3>1. a[1] \in Int /\ a[2] \in Int
      BY <1>5, <2>2
    <3>2. CASE j = 1
      <4>1. b[1] = 0 /\ b[2] = a[2]
        BY <1>4, <2>2, <3>2
      <4> QED BY <1>8, <1>9, <2>2, <3>1, <3>2, <4>1
    <3>3. CASE j = 2
      <4>1. b[2] = 0 /\ b[1] = a[1]
        BY <1>4, <2>2, <3>3
      <4> QED BY <1>8, <1>9, <2>2, <3>1, <3>3, <4>1
    <3> QED BY <1>2, <2>2, <3>2, <3>3
  <2> QED BY <1>1, <2>1, <2>2
<1> QED BY <1>2, <1>5, <1>6, <1>10 DEF a, j

\* Whatever edits, coin changes, late answers and payments come between
\* scheduleFeeEstimates, requestFeeEstimatesNow and applyFeeEstimates: the fee
\* shown was computed for the form as it is, what is announced as pending is on
\* its way, and with the maximum filled in the amounts and the fee add up to
\* the inputs.
THEOREM FeeIsOfTheForm == Spec => []FeeFollowsForm
<1> DEFINE Inv == part = "fees" => FeesInv
<1>1. Init => Inv
  BY FeesInitInv DEF Init
<1>2. Inv /\ [Next]_vars => Inv'
  BY FeesStepInv
<1>3. Inv => FeeFollowsForm
  <2> SUFFICES ASSUME FeesInv PROVE Fees!FeeFollowsForm
    BY DEF FeeFollowsForm
  <2> USE DEF FeesInv
  <2>1. DOMAIN recipients = 1..Len(recipients) /\ \A i \in 1..Len(recipients) : recipients[i] \in Row
    BY DEF FormInv, RowsOK, Recipients
  <2>2. ASSUME NEW p \in Fees!Previews
        PROVE  PreviewOK(p) /\ (~done => p.form = Fees!Form)
    <3>1. p \in shown.custom \/ \E t \in Fees!Targets : p \in shown.estimates[t]
      BY DEF Fees!Previews
    <3> QED BY <3>1 DEF PreviewsInv, ResultOK, IsFor
  <2>3. Fees!TypeOK
    <3>1. \A i \in DOMAIN recipients : recipients[i].addr \in Fees!Addresses /\ recipients[i].amount \in Nat
      BY <2>1 DEF Row
    <3>2. editing \in DOMAIN recipients /\ takesAll \in {0} \cup {recipients[i].id : i \in DOMAIN recipients} \cup leaving
      BY <2>1 DEF FormInv, RowsOK
    <3>3. \A p \in Fees!Previews : p.fee > 0 /\ p.max \in Nat
      BY <2>2 DEF PreviewOK
    <3> QED BY <3>1, <3>2, <3>3 DEF Fees!TypeOK
  <2>4. Fees!ShownFeeIsForForm
    BY <2>2 DEF Fees!ShownFeeIsForForm
  <2>5. Fees!PendingEstimateIsOnItsWay
    <3>1. DOMAIN asked = 1..Len(asked)
      BY DEF SubmittedInv
    <3> QED BY <3>1 DEF Fees!PendingEstimateIsOnItsWay, PendingInv
  <2>6. Fees!MaximumFollowsPreview
    <3> SUFFICES ASSUME ~done, NEW p \in Fees!SelectedFeePreview(shown, preset, rate),
                        Fees!Index(recipients, takesAll) # 0
                 PROVE  Fees!Sum([i \in DOMAIN recipients |-> recipients[i].amount]) + p.fee = Fees!Value(p.inputs)
      BY DEF Fees!MaximumFollowsPreview
    <3>1. p \in Fees!Previews
      <4>1. p \in shown.custom \/ p \in shown.estimates[preset]
        BY DEF Fees!SelectedFeePreview
      <4>2. preset \in Fees!Targets
        BY DEF FormInv
      <4>3. p \in shown.custom \/ \E t \in Fees!Targets : p \in shown.estimates[t]
        BY <4>1, <4>2
      <4> QED BY <4>3 DEF Fees!Previews
    <3>2. p.form = Fees!Form /\ PreviewOK(p)
      BY <2>2, <3>1
    <3>3. recipients[Fees!Index(recipients, takesAll)].amount = p.max
      BY DEF MaximumInv, FilledIn
    <3>4. Fees!Form.remainder # 0 /\ FormOK(Fees!Form)
      BY FormIsOK
    <3>5. Fees!Value(p.inputs) = p.max + p.fee + Rest(Fees!Form)
      BY <3>2, <3>4 DEF PreviewOK
    <3>6. Fees!Sum([i \in DOMAIN recipients |-> recipients[i].amount]) = p.max + Rest(Fees!Form)
      BY <3>3, RowsAddUp
    <3>7. Rest(Fees!Form) \in Int /\ p.max \in Int /\ p.fee \in Int
      BY <3>2, <3>4, RestOK DEF PreviewOK
    <3> QED BY <3>5, <3>6, <3>7
  <2> QED BY <2>3, <2>4, <2>5, <2>6 DEF Fees!FeeFollowsForm
<1> QED BY <1>1, <1>2, <1>3, PTL DEF Spec

----------------------------------------------------------------------------
\* Neither editing, locking coins nor cancelling the picker (cancelSelection)
\* selects a coin that the list does not show, also when coins were spent since
\* the picker was opened.
THEOREM NoHiddenCoinIsSelected == Spec => []SelectedCoinsAreListed
<1> DEFINE Inv == part = "fees" => coins \subseteq inList
<1>1. Init => Inv
  BY DEF Init, Fees!Init
<1>2. Inv /\ [Next]_vars => Inv'
  <2> SUFFICES ASSUME part = "fees" => coins \subseteq inList, [Next]_vars, part' = "fees" PROVE (coins \subseteq inList)'
    OBVIOUS
  <2>1. part = "fees" /\ coins \subseteq inList /\ (Fees!Next \/ UNCHANGED Fees!vars)
    BY DEF Next, vars, FeesStep, SendsStep, ListStep, Fees!vars, Fees!coinVars
  <2>2. CASE UNCHANGED Fees!vars
    BY <2>1, <2>2 DEF Fees!vars, Fees!coinVars
  <2>3. CASE Fees!Edit
    <3>1. ASSUME \/ \E addr \in Fees!Addresses : Fees!EditAddress(addr)
                 \/ \E amount \in Fees!Typed : Fees!EditAmount(amount)
                 \/ \E i \in DOMAIN recipients : Fees!RemoveRecipient(i)
                 \/ Fees!UseMaximum \/ Fees!AddRecipient
                 \/ \E on \in BOOLEAN : Fees!SetCustomFeeEnabled(on)
                 \/ \E x \in Fees!CustomRates : Fees!SetCustomFeeRate(x)
          PROVE  coins' = coins /\ inList' = inList
      BY <3>1 DEF Fees!EditAddress, Fees!EditAmount, Fees!RemoveRecipient, Fees!UseMaximum, Fees!AddRecipient,
        Fees!SetCustomFeeEnabled, Fees!SetCustomFeeRate, Fees!Reschedule, Fees!KeepForm, Fees!coinVars
    <3>2. ASSUME Fees!ApplySelection \/ \E t \in Fees!Targets : Fees!SetFeeTargetBlocks(t) \/ Fees!SetCustomFeeTarget(t)
          PROVE  coins' = coins /\ inList' = inList
      BY <3>2 DEF Fees!ApplySelection, Fees!SetFeeTargetBlocks, Fees!SetCustomFeeTarget, Fees!Reschedule, Fees!coinVars
    <3>3. ASSUME NEW c \in Coins, Fees!ToggleCoinSelection(c) \/ Fees!SetCoinLocked(c)
          PROVE  coins' \subseteq inList'
      BY <2>1, <3>3 DEF Fees!ToggleCoinSelection, Fees!SetCoinLocked, Fees!Reschedule, Fees!KeepForm, Fees!coinVars
    <3>4. ASSUME Fees!BeginSelection \/ Fees!SendRecipientsListModelClear
          PROVE  coins' \subseteq inList'
      BY <2>1, <3>4 DEF Fees!BeginSelection, Fees!SendRecipientsListModelClear, Fees!ClearForm, Fees!Reschedule
    <3> QED BY <2>1, <2>3, <3>1, <3>2, <3>3, <3>4 DEF Fees!Edit
  <2>4. ASSUME Fees!UpdateCoins \/ Fees!CancelSelection \/ Fees!ClearSentForm \/ Fees!RecipientDestroyed
        PROVE  coins' \subseteq inList'
    <3>1. CASE Fees!UpdateCoins
      BY <2>1, <3>1 DEF Fees!UpdateCoins, Fees!Reschedule
    <3>2. CASE Fees!CancelSelection
      <4>1. coins' = Fees!Restored /\ inList' = inList
        BY <3>2 DEF Fees!CancelSelection, Fees!Reschedule, Fees!coinVars
      <4>2. Fees!Restored \subseteq inList
        BY DEF Fees!Restored
      <4> QED BY <4>1, <4>2
    <3>3. CASE Fees!ClearSentForm \/ Fees!RecipientDestroyed
      BY <2>1, <3>3 DEF Fees!ClearSentForm, Fees!ClearForm, Fees!RecipientDestroyed, Fees!Reschedule, Fees!coinVars
    <3> QED BY <2>4, <3>1, <3>2, <3>3
  <2>5. ASSUME \/ Fees!RequestFeeEstimatesNow \/ \E threw \in BOOLEAN : Fees!ApplyFeeEstimates(threw)
               \/ Fees!BeginShutdown \/ \E c \in Coins : Fees!CoinSpent(c)
        PROVE  coins' = coins /\ inList' = inList
    BY <2>5 DEF Fees!RequestFeeEstimatesNow, Fees!ApplyFeeEstimates, Fees!BeginShutdown, Fees!CoinSpent, Fees!coinVars
  <2>6. ASSUME Fees!TransactionSent
        PROVE  coins' = {}
    BY <2>6 DEF Fees!TransactionSent
  <2> QED BY <2>1, <2>2, <2>3, <2>4, <2>5, <2>6 DEF Fees!Next
<1>3. Inv => SelectedCoinsAreListed
  BY DEF SelectedCoinsAreListed, Fees!SelectedCoinsAreListed
<1> QED BY <1>1, <1>2, <1>3, PTL DEF Spec

HIDE DEF recipients, editing, takesAll, leaving, coins, before, spendable, kept, inList, preset, rate, shown, asked,
         done, closing

=============================================================================
