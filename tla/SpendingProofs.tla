--------------------------- MODULE SpendingProofs ---------------------------
(***************************************************************************)
(* What the wallet commits is what the user asked to send and is signed,   *)
(* and a wallet that the GUI unlocked is locked again, for any number of   *)
(* transactions put up for review and of steps of RPC clients.             *)
(*                                                                         *)
(* The conditions of sendTransaction do not say so by themselves.  That a  *)
(* transaction without a PSBT is signed depends on how it got there        *)
(* (SignedInv), and that the user asked for it on which objects the        *)
(* confirmations still open belong to (AskedInv).                          *)
(***************************************************************************)
EXTENDS Spending, FiniteSetTheorems, TLAPS

WalletKinds == {"keys", "signer", "watch"}

WalletType == [kind : WalletKinds, crypted : BOOLEAN, locked : BOOLEAN, closing : BOOLEAN]
TxType == [obj : Nat, what : Drafts \cup {"p"}, src : {"draft", "psbt", "none"},
           sweeps : BOOLEAN, signed : BOOLEAN]
PsbtType == [what : Drafts \cup {"p"}, sigs : {"none", "all"}, mine : BOOLEAN, fee : BOOLEAN,
             multi : BOOLEAN]
WorkType == [op : {"prepare", "send", "bump", "message"}, relock : BOOLEAN]
PageType == [at : {"form", "review", "sent"}, imported : BOOLEAN, alert : SUBSET Nat,
             popup : SUBSET Nat,
             signer : {"initial", "waiting", "error", "partiallySigned", "signed"}]

\* S holds at most one element, and that is one of T.
AtMostOne(S, T) == \A e \in S : e \in T /\ S = {e}

LockType ==
  wallet \in WalletType /\ unlocker \in {"none", "gui", "rpc"} /\ AtMostOne(work, WorkType)

SendType ==
  /\ AtMostOne(tx, TxType) /\ AtMostOne(psbt, PsbtType) /\ AtMostOne(file, PsbtType)
  /\ draft \in Drafts \cup {"p"} /\ page \in PageType /\ made \in Nat
  /\ canSend \in BOOLEAN /\ canBroadcast \in BOOLEAN

\* What the GUI unlocked it has work for, at the end of which it locks.
LockInv ==
  /\ wallet.locked => unlocker = "none"
  /\ unlocker = "gui" => \E w \in work : w.relock

\* The external signer has approved nothing while the form is shown, and a
\* transaction is prepared from the form.
FormInv ==
  /\ page.at = "form" => page.signer = "initial"
  /\ (\E w \in work : w.op = "prepare") => page.at = "form"

\* Objects are numbered in order; the confirmations that are open, and the
\* sending in progress, are for objects the user asked to send.
AskedInv ==
  /\ CurrentObjects \subseteq 1..made
  /\ page.alert \cup page.popup \subseteq 1..made
  /\ page.alert \cup page.popup \subseteq asked
  /\ (\E w \in work : w.op = "send") => tx # {} /\ CurrentObjects \subseteq asked

\* A transaction without a PSBT that is not signed is one the wallet cannot
\* sign, or one its external signer has not approved and no confirmation is
\* open for.
SignedInv ==
  psbt = {} =>
    \A t \in tx :
      \/ t.signed
      \/ wallet.kind = "watch"
      \/ /\ wallet.kind = "signer" /\ page.signer # "signed"
         /\ t.obj \notin page.alert \cup page.popup

\* The inductive invariant: what is about the lock, and what is about sending.
LockOK == LockType /\ LockInv
SendOK ==
  SendType /\ FormInv /\ AskedInv /\ SignedInv /\ CommittedWasConfirmed /\ CommittedIsSigned

----------------------------------------------------------------------------
(* The lock *)

\* No step changes what kind of wallet it is.
SameKind == wallet'.kind = wallet.kind

Ops == {"prepare", "send", "bump", "message"}

LEMMA UnlockFacts ==
  ASSUME LockOK, Idle, NEW op \in Ops, NEW pass, UnlockForAction(op, pass)
  PROVE  LockOK' /\ SameKind /\ \A w \in work' : w.op = op
<1> DEFINE unlock == pass = "right" /\ wallet.crypted /\ wallet.locked
<1>1. work' = {[op |-> op, relock |-> unlock]}
  BY DEF UnlockForAction
<1>2. unlock \in BOOLEAN
  OBVIOUS
<1>3. CASE unlock
  <2>1. wallet' = [wallet EXCEPT !.locked = FALSE] /\ unlocker' = "gui"
    BY <1>3 DEF UnlockForAction
  <2>2. wallet' \in WalletType /\ ~wallet'.locked /\ SameKind
    BY <2>1 DEF LockOK, LockType, WalletType, SameKind
  <2>3. work' = {[op |-> op, relock |-> TRUE]}
    BY <1>1, <1>3
  <2>4. AtMostOne(work', WorkType) /\ (\E w \in work' : w.relock) /\ \A w \in work' : w.op = op
    BY <2>3 DEF AtMostOne, WorkType, Ops
  <2> QED
    BY <2>1, <2>2, <2>4 DEF LockOK, LockType, LockInv
<1>4. CASE ~unlock
  <2>1. wallet' = wallet /\ unlocker' = unlocker
    BY <1>4 DEF UnlockForAction, lockVars
  <2>2. work' = {[op |-> op, relock |-> FALSE]}
    BY <1>1, <1>4
  <2>3. AtMostOne(work', WorkType) /\ \A w \in work' : w.op = op
    BY <2>2 DEF AtMostOne, WorkType, Ops
  <2>4. unlocker # "gui"
    BY DEF LockOK, LockInv, Idle
  <2> QED
    BY <2>1, <2>3, <2>4 DEF LockOK, LockType, LockInv, SameKind
<1> QED
  BY <1>3, <1>4

LEMMA RelockFacts ==
  ASSUME LockOK, Relock
  PROVE  LockOK' /\ SameKind /\ work' = {}
<1>1. work' = {} /\ AtMostOne(work', WorkType)
  BY DEF Relock, AtMostOne
<1>2. CASE \E w \in work : w.relock
  <2>1. wallet' = [wallet EXCEPT !.locked = TRUE] /\ unlocker' = "none"
    BY <1>2 DEF Relock
  <2>2. wallet' \in WalletType /\ SameKind
    BY <2>1 DEF LockOK, LockType, WalletType, SameKind
  <2> QED
    BY <1>1, <2>1, <2>2 DEF LockOK, LockType, LockInv
<1>3. CASE ~\E w \in work : w.relock
  <2>1. wallet' = wallet /\ unlocker' = unlocker
    BY <1>3 DEF Relock, lockVars
  <2> QED
    BY <1>1, <1>3, <2>1 DEF LockOK, LockType, LockInv, SameKind
<1> QED
  BY <1>2, <1>3

LEMMA SameLock ==
  ASSUME LockOK, UNCHANGED <<lockVars, work>>
  PROVE  LockOK' /\ SameKind /\ work' = work
  BY DEF LockOK, LockType, LockInv, SameKind, lockVars

\* RPC clients and encryption
LEMMA OtherLocks ==
  ASSUME LockOK, \/ EncryptWallet
                 \/ \E locked \in BOOLEAN : RpcSetLocked(locked)
                 \/ Unload
  PROVE  LockOK' /\ SameKind /\ work' = work
<1>0. wallet \in WalletType /\ LockType /\ LockInv
  BY DEF LockOK, LockType
<1>1. CASE EncryptWallet
  <2>1. /\ wallet' = [wallet EXCEPT !.crypted = TRUE, !.locked = TRUE]
        /\ unlocker' = "none" /\ work' = work
    BY <1>1 DEF EncryptWallet
  <2>2. wallet' \in WalletType /\ SameKind
    BY <1>0, <2>1 DEF WalletType, SameKind
  <2> QED
    BY <1>0, <2>1, <2>2 DEF LockOK, LockType, LockInv
<1>2. ASSUME NEW locked \in BOOLEAN, RpcSetLocked(locked)
      PROVE  LockOK' /\ SameKind /\ work' = work
  <2>1. /\ wallet' = [wallet EXCEPT !.locked = locked]
        /\ unlocker' = IF locked THEN "none" ELSE "rpc"
        /\ work' = work
    BY <1>2 DEF RpcSetLocked
  <2>2. wallet' \in WalletType /\ SameKind /\ wallet'.locked = locked
    BY <1>0, <2>1 DEF WalletType, SameKind
  <2> QED
    BY <1>0, <2>1, <2>2 DEF LockOK, LockType, LockInv
<1>3. CASE Unload
  <2>1. /\ wallet' = [wallet EXCEPT !.closing = TRUE] /\ unlocker' = unlocker /\ work' = work
    BY <1>3 DEF Unload
  <2>2. wallet' \in WalletType /\ SameKind /\ wallet'.locked = wallet.locked
    BY <1>0, <2>1 DEF WalletType, SameKind
  <2> QED
    BY <1>0, <2>1, <2>2 DEF LockOK, LockType, LockInv
<1> QED
  BY <1>1, <1>2, <1>3

----------------------------------------------------------------------------
(* The review *)

\* Steps that leave the transaction under review alone.
LEMMA SendFrame ==
  ASSUME SendOK, SameKind, UNCHANGED <<sendVars, file>>,
         (\E w \in work' : w.op = "prepare") =>
           page.at = "form" \/ \E w \in work : w.op = "prepare",
         (\E w \in work' : w.op = "send") => \E w \in work : w.op = "send"
  PROVE  SendOK'
<1>1. UNCHANGED <<draft, tx, psbt, canSend, canBroadcast, page, committed, asked, made, file>>
  BY DEF sendVars
<1>2. SendType'
  BY <1>1 DEF SendOK, SendType
<1>3. FormInv'
  BY <1>1 DEF SendOK, FormInv
<1>4. AskedInv'
  BY <1>1 DEF SendOK, AskedInv, CurrentObjects
<1>5. SignedInv'
  BY <1>1 DEF SendOK, SignedInv, SameKind
<1>6. CommittedWasConfirmed' /\ CommittedIsSigned'
  BY <1>1 DEF SendOK, CommittedWasConfirmed, CommittedIsSigned
<1> QED
  BY <1>2, <1>3, <1>4, <1>5, <1>6 DEF SendOK

\* The one transaction under review.
LEMMA TheTransaction ==
  ASSUME SendOK, NEW t, t = CHOOSE u \in tx : TRUE, tx # {}
  PROVE  /\ t \in tx /\ tx = {t} /\ t \in TxType /\ CurrentObjects = {t.obj}
         /\ t.obj \in 1..made
<1>1. t \in tx
  OBVIOUS
<1>2. tx = {t} /\ t \in TxType
  BY <1>1 DEF SendOK, SendType, AtMostOne
<1>3. CurrentObjects = {t.obj}
  BY <1>2 DEF CurrentObjects
<1> QED
  BY <1>1, <1>2, <1>3 DEF SendOK, AskedInv

\* A new object is not one of those a confirmation is open for.
LEMMA ReviewFacts ==
  ASSUME SendOK, NEW t \in TxType, t.obj = made + 1, ShowReview(t)
  PROVE  /\ page' \in PageType /\ page'.at = "review" /\ page'.signer = page.signer
         /\ page'.alert = {} /\ page'.popup = {}
<1>1. /\ page \in PageType /\ made \in Nat /\ page.alert \cup page.popup \subseteq 1..made
  BY DEF SendOK, SendType, AskedInv
<1>2. made + 1 \notin page.alert \cup page.popup
  BY <1>1
<1>3. Closed(page.alert, t) = {} /\ Closed(page.popup, t) = {}
  BY <1>2 DEF Closed, IsCurrentTransaction
<1>4. PICK b \in BOOLEAN : page' = [page EXCEPT !.at = "review", !.alert = {}, !.popup = {},
                                                !.imported = b]
  <2>1. page' = [page EXCEPT !.at = "review", !.alert = Closed(page.alert, t),
                             !.popup = Closed(page.popup, t), !.imported = (t.src = "psbt")]
    BY <1>1 DEF ShowReview, PageType
  <2> QED
    BY <1>3, <2>1
<1> QED
  BY <1>1, <1>4 DEF PageType

\* Where nothing is committed and the user asked for nothing new, the
\* invariant is about the transaction and the page.
LEMMA ReviewFrame ==
  ASSUME SendOK, SendType', FormInv', AskedInv', SignedInv', UNCHANGED <<committed>>
  PROVE  SendOK'
  BY DEF SendOK, CommittedWasConfirmed, CommittedIsSigned

LEMMA EditDraftStep ==
  ASSUME LockOK, SendOK, EditDraft
  PROVE  LockOK' /\ SendOK'
<1>1. /\ draft' \in Drafts
      /\ UNCHANGED <<lockVars, work, tx, psbt, canSend, canBroadcast, page, committed, asked, made,
                     file>>
  BY DEF EditDraft
<1>2. LockOK' /\ SameKind /\ work' = work
  BY <1>1, SameLock
<1>3. SendType'
  BY <1>1 DEF SendOK, SendType
<1>4. FormInv'
  BY <1>1 DEF SendOK, FormInv
<1>5. AskedInv'
  BY <1>1 DEF SendOK, AskedInv, CurrentObjects
<1>6. SignedInv'
  BY <1>1, <1>2 DEF SendOK, SignedInv, SameKind
<1> QED
  BY <1>1, <1>2, <1>3, <1>4, <1>5, <1>6, ReviewFrame

\* Steps after which there is no transaction.
LEMMA NoTransaction ==
  ASSUME SendOK, tx' = {}, UNCHANGED <<committed, asked, made, file>>,
         draft' \in Drafts \cup {"p"}, psbt' = {} \/ psbt' = psbt,
         canSend' \in BOOLEAN, canBroadcast' \in BOOLEAN,
         page' \in PageType, page'.alert = {}, page'.popup = {},
         page'.at = "form" => page'.signer = "initial", work' = {}
  PROVE  SendOK'
<1>1. SendType'
  BY DEF SendOK, SendType, AtMostOne
<1>2. FormInv'
  BY DEF FormInv
<1>3. AskedInv'
  BY DEF AskedInv, CurrentObjects
<1>4. SignedInv'
  BY DEF SignedInv
<1> QED
  BY <1>1, <1>2, <1>3, <1>4, ReviewFrame

LEMMA PrepareUnmatchedStep ==
  ASSUME LockOK, SendOK, PrepareUnmatched
  PROVE  LockOK' /\ SendOK'
<1>1. /\ Relock /\ tx' = {} /\ psbt' = {} /\ canSend' = FALSE /\ canBroadcast' = FALSE
      /\ page' = [page EXCEPT !.alert = {}, !.popup = {}]
      /\ UNCHANGED <<draft, committed, asked, made, file>>
  BY DEF PrepareUnmatched, Deleted
<1>2. LockOK' /\ work' = {}
  BY <1>1, RelockFacts
<1>3. page \in PageType /\ FormInv /\ draft \in Drafts \cup {"p"}
  BY DEF SendOK, SendType
<1>4. /\ page' \in PageType /\ page'.alert = {} /\ page'.popup = {}
      /\ page'.at = page.at /\ page'.signer = page.signer
  BY <1>1, <1>3 DEF PageType
<1> QED
  BY <1>1, <1>2, <1>3, <1>4, NoTransaction DEF FormInv

LEMMA ImportUnmatchedStep ==
  ASSUME LockOK, SendOK, NEW p \in PsbtType, ImportUnmatched(p)
  PROVE  LockOK' /\ SendOK'
<1>1. /\ work = {} /\ tx' = {} /\ draft' = p.what
      /\ page' = [page EXCEPT !.alert = {}, !.popup = {}]
      /\ UNCHANGED <<lockVars, work, psbt, canSend, canBroadcast, committed, asked, made, file>>
  BY DEF ImportUnmatched, Deleted, Idle
<1>2. LockOK' /\ work' = {}
  BY <1>1, SameLock
<1>3. page \in PageType /\ FormInv /\ canSend \in BOOLEAN /\ canBroadcast \in BOOLEAN
  BY DEF SendOK, SendType
<1>4. /\ page' \in PageType /\ page'.alert = {} /\ page'.popup = {}
      /\ page'.at = page.at /\ page'.signer = page.signer
  BY <1>1, <1>3 DEF PageType
<1>5. draft' \in Drafts \cup {"p"}
  BY <1>1 DEF PsbtType
<1> QED
  BY <1>1, <1>2, <1>3, <1>4, <1>5, NoTransaction DEF FormInv

\* Steps that put a new object up for review.
LEMMA NewTransaction ==
  ASSUME SendOK, NEW t \in TxType, t.obj = made + 1, tx' = {t}, ShowReview(t), made' = made + 1,
         UNCHANGED <<committed, asked, file>>, draft' \in Drafts \cup {"p"},
         AtMostOne(psbt', PsbtType), canSend' \in BOOLEAN, canBroadcast' \in BOOLEAN,
         work' = {},
         psbt' = {} => \/ t.signed
                       \/ wallet'.kind = "watch"
                       \/ wallet'.kind = "signer" /\ page.signer # "signed"
  PROVE  SendOK'
<1>1. /\ page' \in PageType /\ page'.at = "review" /\ page'.signer = page.signer
      /\ page'.alert = {} /\ page'.popup = {}
  BY ReviewFacts
<1>2. made \in Nat /\ AtMostOne(file, PsbtType)
  BY DEF SendOK, SendType
<1>3. SendType'
  BY <1>1, <1>2 DEF SendType, AtMostOne
<1>4. FormInv'
  BY <1>1 DEF FormInv
<1>5. AskedInv'
  <2>1. CurrentObjects' = {made + 1}
    BY DEF CurrentObjects
  <2>2. made + 1 \in 1..made'
    BY <1>2
  <2> QED
    BY <1>1, <2>1, <2>2 DEF AskedInv
<1>6. SignedInv'
  BY <1>1 DEF SignedInv
<1> QED
  BY <1>3, <1>4, <1>5, <1>6, ReviewFrame

LEMMA PrepareDoneStep ==
  ASSUME LockOK, SendOK, PrepareDone
  PROVE  LockOK' /\ SendOK'
<1>1. /\ \E w \in work : w.op = "prepare"
      /\ Relock /\ made' = made + 1
      /\ psbt' = {} /\ canSend' = TRUE /\ canBroadcast' = FALSE
      /\ UNCHANGED <<draft, committed, asked, file>>
  BY DEF PrepareDone
<1>2. LockOK' /\ SameKind /\ work' = {}
  BY <1>1, RelockFacts
<1>3. PICK sweeps \in BOOLEAN :
        LET t == [obj |-> made + 1, what |-> draft, src |-> "draft", sweeps |-> sweeps,
                  signed |-> ~PrivateKeysDisabled]
        IN tx' = {t} /\ ShowReview(t)
  BY DEF PrepareDone
<1> DEFINE t == [obj |-> made + 1, what |-> draft, src |-> "draft", sweeps |-> sweeps,
                 signed |-> ~PrivateKeysDisabled]
<1>4. tx' = {t} /\ ShowReview(t)
  BY <1>3
<1>5. (~PrivateKeysDisabled) \in BOOLEAN /\ made + 1 \in Nat /\ draft \in Drafts \cup {"p"}
  BY DEF PrivateKeysDisabled, SendOK, SendType
<1>6. t \in TxType /\ t.obj = made + 1 /\ t.signed = ~PrivateKeysDisabled
  BY <1>5 DEF TxType
<1>7. page.signer # "signed"
  BY <1>1 DEF SendOK, FormInv
<1>8. t.signed \/ wallet'.kind = "watch" \/ wallet'.kind = "signer"
  <2>1. wallet.kind \in WalletKinds /\ wallet'.kind = wallet.kind
    BY <1>2 DEF LockOK, LockType, WalletType, SameKind
  <2>2. wallet.kind = "keys" => ~PrivateKeysDisabled
    BY DEF PrivateKeysDisabled
  <2> QED
    BY <1>6, <2>1, <2>2 DEF WalletKinds
<1>9. AtMostOne(psbt', PsbtType)
  BY <1>1 DEF AtMostOne
<1> HIDE DEF t
<1> QED
  BY <1>1, <1>2, <1>4, <1>5, <1>6, <1>7, <1>8, <1>9, NewTransaction

LEMMA PsbtsTyped == \A p \in Psbts : p \in PsbtType
<1>1. \A sigs \in {"none", "all"}, mine, fee, multi \in BOOLEAN :
        Psbt(sigs, mine, fee, multi) \in PsbtType
  BY DEF Psbt, PsbtType
<1>2. /\ Psbt("none", TRUE, TRUE, FALSE) \in PsbtType
      /\ Psbt("none", TRUE, TRUE, TRUE) \in PsbtType
      /\ Psbt("none", FALSE, TRUE, FALSE) \in PsbtType
      /\ Psbt("all", FALSE, TRUE, FALSE) \in PsbtType
      /\ Psbt("all", TRUE, FALSE, FALSE) \in PsbtType
  BY <1>1
<1> QED
  BY <1>2 DEF Psbts

LEMMA ImportPsbtStep ==
  ASSUME LockOK, SendOK, NEW p \in PsbtType, ImportPsbt(p)
  PROVE  LockOK' /\ SendOK'
<1> DEFINE t == [obj |-> made + 1, what |-> p.what, src |-> "psbt", sweeps |-> FALSE,
                 signed |-> p.sigs = "all"]
<1>1. /\ work = {} /\ tx' = {t} /\ ShowReview(t) /\ made' = made + 1 /\ draft' = p.what
      /\ psbt' = {p} /\ canSend' = CanSendPsbt(p) /\ canBroadcast' = CanBroadcastPsbt(p)
      /\ UNCHANGED <<lockVars, work, committed, asked, file>>
  BY DEF ImportPsbt, Idle
<1>2. LockOK' /\ work' = {}
  BY <1>1, SameLock
<1>3. p.what \in Drafts \cup {"p"} /\ made + 1 \in Nat /\ (p.sigs = "all") \in BOOLEAN
  BY DEF PsbtType, SendOK, SendType
<1>4. t \in TxType /\ t.obj = made + 1
  BY <1>3 DEF TxType
<1>5. AtMostOne(psbt', PsbtType) /\ psbt' # {}
  BY <1>1 DEF AtMostOne
<1>6. canSend' \in BOOLEAN /\ canBroadcast' \in BOOLEAN
  BY <1>1 DEF CanSendPsbt, CanBroadcastPsbt, PsbtType
<1> HIDE DEF t
<1> QED
  BY <1>1, <1>2, <1>3, <1>4, <1>5, <1>6, NewTransaction

LEMMA FirstPageFacts ==
  FirstPage \in PageType /\ FirstPage.alert = {} /\ FirstPage.popup = {}
    /\ FirstPage.at = "form" /\ FirstPage.signer = "initial"
  BY DEF FirstPage, PageType

\* Steps of the page that leave the transaction alone and open no confirmation.
LEMMA PageFrame ==
  ASSUME SendOK, SameKind, UNCHANGED <<tx, psbt, committed, asked, made, file>>,
         draft' \in Drafts \cup {"p"}, canSend' \in BOOLEAN, canBroadcast' \in BOOLEAN,
         page' \in PageType, page'.at = "form" => page'.signer = "initial",
         page'.alert \subseteq page.alert, page'.popup \subseteq page.popup,
         page'.signer = "signed" => page.signer = "signed", work' = {}
  PROVE  SendOK'
<1>1. SendType'
  BY DEF SendOK, SendType
<1>2. FormInv'
  BY DEF FormInv
<1>3. AskedInv'
  BY DEF SendOK, AskedInv, CurrentObjects
<1>4. SignedInv'
  BY DEF SendOK, SignedInv, SameKind
<1> QED
  BY <1>1, <1>2, <1>3, <1>4, ReviewFrame

LEMMA CloseReviewStep ==
  ASSUME LockOK, SendOK, CloseReview
  PROVE  LockOK' /\ SendOK'
<1>1. work = {} /\ UNCHANGED <<lockVars, work, committed, asked, made, file>>
  BY DEF CloseReview, Idle
<1>2. LockOK' /\ SameKind /\ work' = {}
  BY <1>1, SameLock
<1>3. CASE page.imported
  <2>1. /\ tx' = {} /\ psbt' = {} /\ canSend' = FALSE /\ canBroadcast' = FALSE
        /\ draft' = "d1" /\ page' = FirstPage
    BY <1>3 DEF CloseReview, DiscardCurrentTransaction
  <2>2. draft' \in Drafts \cup {"p"}
    BY <2>1 DEF Drafts
  <2> QED
    BY <1>1, <1>2, <2>1, <2>2, FirstPageFacts, NoTransaction
<1>4. CASE ~page.imported
  <2>1. /\ page' = [FirstPage EXCEPT !.popup = page.popup]
        /\ draft' = IF page.at = "sent" THEN "d1" ELSE draft
        /\ UNCHANGED <<tx, psbt, canSend, canBroadcast>>
    BY <1>4 DEF CloseReview
  <2>2. page \in PageType /\ draft' \in Drafts \cup {"p"}
    BY <2>1 DEF SendOK, SendType, Drafts
  <2>3. /\ page' \in PageType /\ page'.alert = {} /\ page'.popup = page.popup
        /\ page'.at = "form" /\ page'.signer = "initial"
    BY <2>1, <2>2, FirstPageFacts DEF PageType
  <2>4. canSend' \in BOOLEAN /\ canBroadcast' \in BOOLEAN
    BY <2>1 DEF SendOK, SendType
  <2> QED
    BY <1>1, <1>2, <2>1, <2>2, <2>3, <2>4, PageFrame
<1> QED
  BY <1>3, <1>4

LEMMA SaveStep ==
  ASSUME LockOK, SendOK, SaveCurrentTransactionAsPsbt
  PROVE  LockOK' /\ SendOK'
<1>1. work = {} /\ UNCHANGED <<lockVars, work, sendVars>>
  BY DEF SaveCurrentTransactionAsPsbt, Idle
<1>2. LockOK' /\ SameKind /\ work' = {}
  BY <1>1, SameLock
<1>3. UNCHANGED <<draft, tx, psbt, canSend, canBroadcast, page, committed, asked, made>>
  BY <1>1 DEF sendVars
<1>4. PICK t \in tx :
        file' = IF psbt # {} THEN psbt
                ELSE {[what |-> t.what, sigs |-> "none", mine |-> TRUE, fee |-> TRUE, multi |-> FALSE]}
  BY DEF SaveCurrentTransactionAsPsbt
<1>5. t \in TxType /\ t.what \in Drafts \cup {"p"} /\ AtMostOne(psbt, PsbtType)
  BY DEF SendOK, SendType, AtMostOne, TxType
<1>6. AtMostOne(file', PsbtType)
  <2>1. CASE psbt # {}
    BY <1>4, <1>5, <2>1
  <2>2. CASE psbt = {}
    <3> DEFINE q == [what |-> t.what, sigs |-> "none", mine |-> TRUE, fee |-> TRUE, multi |-> FALSE]
    <3>1. file' = {q}
      BY <1>4, <2>2
    <3>2. q \in PsbtType
      BY <1>5 DEF PsbtType
    <3> HIDE DEF q
    <3> QED
      BY <3>1, <3>2 DEF AtMostOne
  <2> QED
    BY <2>1, <2>2
<1>7. SendType'
  BY <1>3, <1>6 DEF SendOK, SendType
<1>8. FormInv'
  BY <1>2, <1>3 DEF SendOK, FormInv
<1>9. AskedInv'
  BY <1>2, <1>3 DEF SendOK, AskedInv, CurrentObjects
<1>10. SignedInv'
  BY <1>2, <1>3 DEF SendOK, SignedInv, SameKind
<1> QED
  BY <1>2, <1>3, <1>7, <1>8, <1>9, <1>10, ReviewFrame

----------------------------------------------------------------------------
(* The external signer *)

LEMMA BeginApprovalStep ==
  ASSUME LockOK, SendOK, BeginApproval
  PROVE  LockOK' /\ SendOK'
<1>1. /\ work = {} /\ page.at = "review" /\ page' = [page EXCEPT !.signer = "waiting"]
      /\ UNCHANGED <<lockVars, work, draft, tx, psbt, canSend, canBroadcast, committed, asked,
                     made, file>>
  BY DEF BeginApproval, Idle
<1>2. LockOK' /\ SameKind /\ work' = {}
  BY <1>1, SameLock
<1>3. page \in PageType /\ draft \in Drafts \cup {"p"} /\ canSend \in BOOLEAN
        /\ canBroadcast \in BOOLEAN
  BY DEF SendOK, SendType
<1>4. /\ page' \in PageType /\ page'.at = "review" /\ page'.signer = "waiting"
      /\ page'.alert = page.alert /\ page'.popup = page.popup
  BY <1>1, <1>3 DEF PageType
<1> QED
  BY <1>1, <1>2, <1>3, <1>4, PageFrame

LEMMA ApproveStep ==
  ASSUME LockOK, SendOK, NEW outcome \in {"error", "partiallySigned", "signed"},
         ApproveExternalSigner(outcome)
  PROVE  LockOK' /\ SendOK'
<1>1. /\ work = {} /\ page.signer = "waiting"
      /\ UNCHANGED <<lockVars, work, draft, committed, asked, made, file>>
  BY DEF ApproveExternalSigner, Idle
<1>2. LockOK' /\ SameKind /\ work' = {}
  BY <1>1, SameLock
<1>3. /\ page \in PageType /\ draft \in Drafts \cup {"p"} /\ canSend \in BOOLEAN
      /\ canBroadcast \in BOOLEAN /\ made \in Nat /\ AtMostOne(file, PsbtType)
      /\ FormInv /\ AskedInv
  BY DEF SendOK, SendType
<1>4. page.at # "form"
  BY <1>1, <1>3 DEF FormInv
<1>5. CASE outcome = "error" \/ ~Available \/ tx = {}
  <2>1. page' = [page EXCEPT !.signer = "error"] /\ UNCHANGED <<tx, psbt, canSend, canBroadcast>>
    BY <1>5 DEF ApproveExternalSigner
  <2>2. /\ page' \in PageType /\ page'.at = page.at /\ page'.signer = "error"
        /\ page'.alert = page.alert /\ page'.popup = page.popup
    BY <1>3, <2>1 DEF PageType
  <2> QED
    BY <1>1, <1>2, <1>3, <1>4, <2>1, <2>2, PageFrame
<1>6. CASE ~(outcome = "error" \/ ~Available \/ tx = {})
  <2> DEFINE t == CHOOSE u \in tx : TRUE
             p == [what |-> t.what, sigs |-> IF outcome = "signed" THEN "all" ELSE "none",
                   mine |-> TRUE, fee |-> TRUE, multi |-> outcome # "signed"]
             r == [t EXCEPT !.signed = @ \/ outcome = "signed"]
  <2>1. /\ page' = [page EXCEPT !.signer = outcome] /\ psbt' = {p} /\ tx' = {r}
        /\ canSend' = (outcome = "signed") /\ canBroadcast' = FALSE
    BY <1>6 DEF ApproveExternalSigner
  <2>2. t \in TxType /\ CurrentObjects = {t.obj}
    BY <1>6, TheTransaction
  <2> HIDE DEF t
  <2>3. p \in PsbtType
    BY <2>2 DEF PsbtType, TxType
  <2>4. r \in TxType /\ r.obj = t.obj
    BY <2>2 DEF TxType
  <2> HIDE DEF p, r
  <2>5. /\ page' \in PageType /\ page'.at = page.at
        /\ page'.alert = page.alert /\ page'.popup = page.popup
    BY <1>3, <1>6, <2>1 DEF PageType
  <2>6. SendType'
    BY <1>1, <1>3, <2>1, <2>3, <2>4, <2>5 DEF SendType, AtMostOne
  <2>7. FormInv'
    BY <1>2, <1>4, <2>5 DEF FormInv
  <2>8. AskedInv'
    <3>1. CurrentObjects' = CurrentObjects
      BY <2>1, <2>2, <2>4 DEF CurrentObjects
    <3> QED
      BY <1>1, <1>2, <1>3, <2>5, <3>1 DEF AskedInv
  <2>9. SignedInv'
    BY <2>1 DEF SignedInv
  <2> QED
    BY <1>1, <1>2, <2>6, <2>7, <2>8, <2>9, ReviewFrame
<1> QED
  BY <1>5, <1>6

----------------------------------------------------------------------------
(* Sending *)

\* What is committed signed, for an object that was asked for.
LEMMA SentFacts ==
  ASSUME SendOK, tx # {}, NEW t, t = CHOOSE u \in tx : TRUE,
         NEW signed \in BOOLEAN, signed, NEW again \in BOOLEAN, Sent(t, signed, again),
         t.obj \in asked', asked \subseteq asked', work' = {}
  PROVE  SendOK'
<1>1. /\ committed' = committed \cup
           {[what |-> t.what, signed |-> signed, asked |-> t.obj \in asked']}
      /\ tx' = {[t EXCEPT !.src = "none", !.signed = signed]}
      /\ psbt' = {} /\ canSend' = again /\ canBroadcast' = FALSE
      /\ page' = [page EXCEPT !.at = "sent", !.alert = {}, !.popup = {}, !.signer = "initial"]
      /\ UNCHANGED <<draft, made, file>>
  BY DEF Sent, Record
<1>2. /\ page \in PageType /\ draft \in Drafts \cup {"p"} /\ made \in Nat
      /\ AtMostOne(file, PsbtType) /\ CommittedWasConfirmed /\ CommittedIsSigned
  BY DEF SendOK, SendType
<1>3. t \in TxType /\ t.obj \in 1..made
  BY TheTransaction
<1> DEFINE r == [t EXCEPT !.src = "none", !.signed = signed]
           c == [what |-> t.what, signed |-> signed, asked |-> t.obj \in asked']
<1>4. r \in TxType /\ r.obj = t.obj /\ r.signed
  BY <1>3 DEF TxType
<1>5. /\ page' \in PageType /\ page'.at = "sent" /\ page'.alert = {} /\ page'.popup = {}
  BY <1>1, <1>2 DEF PageType
<1>6. c.signed /\ c.asked
  OBVIOUS
<1>7. committed' = committed \cup {c} /\ tx' = {r}
  BY <1>1
<1> HIDE DEF r, c
<1>8. SendType'
  BY <1>1, <1>2, <1>4, <1>5, <1>7 DEF SendType, AtMostOne
<1>9. FormInv'
  BY <1>5 DEF FormInv
<1>10. AskedInv'
  <2>1. CurrentObjects' = {t.obj}
    BY <1>4, <1>7 DEF CurrentObjects
  <2> QED
    BY <1>1, <1>3, <1>5, <2>1 DEF AskedInv
<1>11. SignedInv'
  BY <1>4, <1>7 DEF SignedInv
<1>12. CommittedWasConfirmed' /\ CommittedIsSigned'
  BY <1>2, <1>6, <1>7 DEF CommittedWasConfirmed, CommittedIsSigned
<1> QED
  BY <1>8, <1>9, <1>10, <1>11, <1>12 DEF SendOK

\* A refusal, after which a confirmation may be open: for what was asked for,
\* with a PSBT or a signature if the wallet has an external signer.
LEMMA RefusedFacts ==
  ASSUME LockOK, SendOK, Idle, Refused, asked \subseteq asked',
         page' \in PageType, page'.at = page.at, page'.signer = page.signer,
         page'.alert \cup page'.popup \subseteq page.alert \cup page.popup \cup CurrentObjects,
         page'.alert \cup page'.popup \subseteq asked',
         SignedInv => SignedInv'
  PROVE  LockOK' /\ SendOK'
<1>1. /\ work = {}
      /\ UNCHANGED <<lockVars, work, draft, tx, psbt, canSend, canBroadcast, committed, made, file>>
  BY DEF Refused, Idle
<1>2. LockOK' /\ SameKind /\ work' = {}
  BY <1>1, SameLock
<1>3. SendType'
  BY <1>1 DEF SendOK, SendType
<1>4. FormInv'
  BY <1>2 DEF SendOK, FormInv
<1>5. AskedInv'
  <2>1. CurrentObjects' = CurrentObjects
    BY <1>1 DEF CurrentObjects
  <2> QED
    BY <1>1, <1>2, <2>1 DEF SendOK, AskedInv
<1>6. SignedInv'
  BY DEF SendOK
<1> QED
  BY <1>1, <1>2, <1>3, <1>4, <1>5, <1>6, ReviewFrame

LEMMA PageWithoutAlert ==
  ASSUME SendOK, page' = [page EXCEPT !.alert = {}]
  PROVE  /\ page' \in PageType /\ page'.at = page.at /\ page'.signer = page.signer
         /\ page'.alert = {} /\ page'.popup = page.popup
  BY DEF SendOK, SendType, PageType

\* sendTransactionInternal, called for an object the user asked to send.
LEMMA SendTransactionFacts ==
  ASSUME LockOK, SendOK, Idle, NEW pass, NEW ask \in SUBSET Nat, SendTransaction(pass, ask),
         asked \subseteq asked', CurrentObjects \subseteq asked', ask \subseteq asked',
         ask \subseteq page.popup \cup CurrentObjects,
         psbt = {} /\ wallet.kind # "watch" => \A t \in tx : t.signed
  PROVE  LockOK' /\ SendOK'
<1> DEFINE t == CHOOSE u \in tx : TRUE
           complete == \A p \in psbt : p.sigs = "all"
           refused == \/ ~Available \/ tx = {} \/ (psbt # {} /\ ~canSend)
                      \/ (~(psbt # {} /\ complete) /\ wallet.kind = "watch")
<1>0. page.alert \cup page.popup \subseteq asked
  BY DEF SendOK, AskedInv
<1>1. ASSUME Refused, page' = [page EXCEPT !.alert = {}]
      PROVE  LockOK' /\ SendOK'
  <2>1. /\ page' \in PageType /\ page'.at = page.at /\ page'.signer = page.signer
        /\ page'.alert = {} /\ page'.popup = page.popup
    BY <1>1, PageWithoutAlert
  <2>2. SignedInv => SignedInv'
    <3>1. UNCHANGED <<wallet, tx, psbt>>
      BY <1>1 DEF Refused, lockVars
    <3> QED
      BY <2>1, <3>1 DEF SignedInv
  <2> QED
    BY <1>0, <1>1, <2>1, <2>2, RefusedFacts
<1>2. CASE refused
  BY <1>1, <1>2 DEF SendTransaction
<1>3. CASE ~refused /\ (psbt = {} \/ complete)
  <2>1. Sent(t, psbt # {} \/ t.signed, TRUE) /\ UNCHANGED <<lockVars, work>>
    BY <1>3 DEF SendTransaction
  <2>2. LockOK' /\ work' = {}
    BY <2>1, SameLock DEF Idle
  <2>3. tx # {} /\ (psbt = {} => wallet.kind # "watch")
    BY <1>3
  <2>4. t \in tx /\ t \in TxType /\ CurrentObjects = {t.obj}
    BY <2>3, TheTransaction
  <2>5. psbt # {} \/ t.signed
    BY <2>3, <2>4
  <2>6. t.obj \in asked' /\ (psbt # {} \/ t.signed) \in BOOLEAN
    BY <2>4
  <2> HIDE DEF complete, refused
  <2> QED
    BY <2>1, <2>2, <2>3, <2>5, <2>6, SentFacts
<1>4. CASE ~refused /\ ~(psbt = {} \/ complete) /\ MustUnlock /\ pass = "none"
  <2>1. Refused /\ page' = [page EXCEPT !.alert = {}, !.popup = ask]
    BY <1>4 DEF SendTransaction
  <2>2. /\ page' \in PageType /\ page'.at = page.at /\ page'.signer = page.signer
        /\ page'.alert = {} /\ page'.popup = ask
    BY <2>1 DEF SendOK, SendType, PageType
  <2>3. SignedInv'
    BY <1>4, <2>1 DEF SignedInv, Refused
  <2> QED
    BY <2>1, <2>2, <2>3, RefusedFacts
<1>5. CASE ~refused /\ ~(psbt = {} \/ complete) /\ ~(MustUnlock /\ pass = "none") /\ ~MayStart(pass)
  BY <1>1, <1>5 DEF SendTransaction
<1>6. CASE ~refused /\ ~(psbt = {} \/ complete) /\ ~(MustUnlock /\ pass = "none") /\ MayStart(pass)
  <2>1. /\ UnlockForAction("send", pass) /\ page' = [page EXCEPT !.alert = {}]
        /\ UNCHANGED <<draft, tx, psbt, canSend, canBroadcast, committed, made, file>>
    BY <1>6 DEF SendTransaction
  <2>2. LockOK' /\ SameKind /\ \A w \in work' : w.op = "send"
    BY <2>1, UnlockFacts DEF Ops
  <2>3. /\ page' \in PageType /\ page'.at = page.at /\ page'.signer = page.signer
        /\ page'.alert = {} /\ page'.popup = page.popup
    BY <2>1, PageWithoutAlert
  <2>4. SendType'
    BY <2>1, <2>3 DEF SendOK, SendType
  <2>5. FormInv'
    BY <2>2, <2>3 DEF SendOK, FormInv
  <2>6. AskedInv'
    <3>1. CurrentObjects' = CurrentObjects /\ tx' # {}
      BY <1>6, <2>1 DEF CurrentObjects
    <3> QED
      BY <2>1, <2>3, <3>1 DEF SendOK, AskedInv
  <2>7. SignedInv'
    BY <1>6, <2>1 DEF SignedInv
  <2> QED
    BY <2>1, <2>2, <2>4, <2>5, <2>6, <2>7, ReviewFrame
<1> QED
  BY <1>2, <1>3, <1>4, <1>5, <1>6

\* The user's click: the page's conditions and SignedInv say that it is signed.
LEMMA RequestSendStep ==
  ASSUME LockOK, SendOK, RequestSend
  PROVE  LockOK' /\ SendOK'
<1>1. SendEnabled /\ asked' = asked \cup CurrentObjects /\ Idle
  BY DEF RequestSend, SendEnabled
<1>2. wallet.kind \in WalletKinds /\ (wallet.kind = "signer" => page.signer = "signed")
  BY <1>1 DEF LockOK, LockType, WalletType, SendEnabled
<1>3. psbt = {} /\ wallet.kind # "watch" => \A t \in tx : t.signed
  BY <1>2 DEF SendOK, SignedInv
<1>4. CurrentObjects \subseteq 1..made /\ made \in Nat /\ page.alert \cup page.popup \subseteq asked
        /\ page \in PageType
  BY DEF SendOK, AskedInv, SendType
<1>5. CurrentObjects \in SUBSET Nat
  BY <1>4
<1>6. CASE \E t \in tx : t.src = "draft" /\ t.sweeps
  <2>1. page' = [page EXCEPT !.alert = CurrentObjects] /\ Refused
    BY <1>6 DEF RequestSend
  <2>2. /\ page' \in PageType /\ page'.at = page.at /\ page'.signer = page.signer
        /\ page'.alert = CurrentObjects /\ page'.popup = page.popup
    BY <1>4, <1>5, <2>1 DEF PageType
  <2>3. SignedInv'
    <3>1. UNCHANGED <<wallet, tx, psbt>>
      BY <2>1 DEF Refused, lockVars
    <3> QED
      BY <1>3, <3>1 DEF SignedInv
  <2> QED
    BY <1>1, <1>4, <2>1, <2>2, <2>3, RefusedFacts
<1>7. CASE ~\E t \in tx : t.src = "draft" /\ t.sweeps
  <2>1. SendTransaction("none", CurrentObjects)
    BY <1>7 DEF RequestSend
  <2> QED
    BY <1>1, <1>3, <1>5, <2>1, SendTransactionFacts
<1> QED
  BY <1>6, <1>7

\* A confirmation that is open for the current transaction was asked for, and
\* SignedInv holds without its last case.
LEMMA ConfirmationFacts ==
  ASSUME LockOK, SendOK, NEW S \in {page.alert, page.popup}, IsCurrentTransaction(S, tx)
  PROVE  /\ CurrentObjects \subseteq S /\ CurrentObjects \subseteq asked
         /\ CurrentObjects \in SUBSET Nat /\ S \in SUBSET Nat /\ S \subseteq asked
         /\ psbt = {} /\ wallet.kind # "watch" => \A t \in tx : t.signed
<1>1. PICK t \in tx : t.obj \in S
  BY DEF IsCurrentTransaction
<1>2. tx = {t} /\ CurrentObjects = {t.obj}
  BY DEF SendOK, SendType, AtMostOne, CurrentObjects
<1>3. S \in SUBSET Nat /\ S \subseteq asked
  BY DEF SendOK, SendType, PageType, AskedInv
<1>4. psbt = {} /\ wallet.kind # "watch" => t.signed
  BY <1>1 DEF SendOK, SignedInv
<1> QED
  BY <1>1, <1>2, <1>3, <1>4

LEMMA ConfirmSweepStep ==
  ASSUME LockOK, SendOK, ConfirmSweep
  PROVE  LockOK' /\ SendOK'
<1>1. Idle /\ asked' = asked
  BY DEF ConfirmSweep
<1>2. CASE IsCurrentTransaction(page.alert, tx)
  <2>1. SendTransaction("none", CurrentObjects)
    BY <1>2 DEF ConfirmSweep
  <2> QED
    BY <1>1, <1>2, <2>1, ConfirmationFacts, SendTransactionFacts
<1>3. CASE ~IsCurrentTransaction(page.alert, tx)
  <2>1. Refused /\ page' = [page EXCEPT !.alert = {}]
    BY <1>3 DEF ConfirmSweep
  <2>2. /\ page' \in PageType /\ page'.at = page.at /\ page'.signer = page.signer
        /\ page'.alert = {} /\ page'.popup = page.popup
    BY <2>1, PageWithoutAlert
  <2>3. SignedInv => SignedInv'
    BY <2>1, <2>2 DEF SignedInv, Refused, lockVars
  <2>4. page.alert \cup page.popup \subseteq asked
    BY DEF SendOK, AskedInv
  <2> QED
    BY <1>1, <2>1, <2>2, <2>3, <2>4, RefusedFacts
<1> QED
  BY <1>2, <1>3

LEMMA SubmitPassphraseStep ==
  ASSUME LockOK, SendOK, NEW pass, SubmitPassphrase(pass)
  PROVE  LockOK' /\ SendOK'
<1>1. Idle /\ asked' = asked
  BY DEF SubmitPassphrase
<1>2. CASE IsCurrentTransaction(page.popup, tx)
  <2>1. SendTransaction(pass, page.popup)
    BY <1>2 DEF SubmitPassphrase
  <2> QED
    BY <1>1, <1>2, <2>1, ConfirmationFacts, SendTransactionFacts
<1>3. CASE ~IsCurrentTransaction(page.popup, tx)
  <2>1. Refused /\ page' = [page EXCEPT !.popup = {}]
    BY <1>3 DEF SubmitPassphrase
  <2>2. /\ page' \in PageType /\ page'.at = page.at /\ page'.signer = page.signer
        /\ page'.alert = page.alert /\ page'.popup = {}
    BY <2>1 DEF SendOK, SendType, PageType
  <2>3. SignedInv => SignedInv'
    BY <2>1, <2>2 DEF SignedInv, Refused, lockVars
  <2>4. page.alert \cup page.popup \subseteq asked
    BY DEF SendOK, AskedInv
  <2> QED
    BY <1>1, <2>1, <2>2, <2>3, <2>4, RefusedFacts
<1> QED
  BY <1>2, <1>3

LEMMA CancelConfirmationStep ==
  ASSUME LockOK, SendOK, CancelConfirmation
  PROVE  LockOK' /\ SendOK'
<1>1. /\ Idle /\ asked' = asked /\ Refused
      /\ page' = [page EXCEPT !.alert = {}, !.popup = {}]
  BY DEF CancelConfirmation
<1>2. /\ page' \in PageType /\ page'.at = page.at /\ page'.signer = page.signer
      /\ page'.alert = {} /\ page'.popup = {}
  BY <1>1 DEF SendOK, SendType, PageType
<1>3. SignedInv => SignedInv'
  BY <1>1, <1>2 DEF SignedInv, Refused, lockVars
<1> QED
  BY <1>1, <1>2, <1>3, RefusedFacts

LEMMA SendSignedStep ==
  ASSUME LockOK, SendOK, SendSigned
  PROVE  LockOK' /\ SendOK'
<1>1. /\ Relock /\ asked' = asked /\ \E w \in work : w.op = "send"
      /\ Sent(CHOOSE t \in tx : TRUE, TRUE, TRUE)
  BY DEF SendSigned
<1>2. LockOK' /\ work' = {}
  BY <1>1, RelockFacts
<1>3. tx # {} /\ CurrentObjects \subseteq asked
  BY <1>1 DEF SendOK, AskedInv
<1> DEFINE t == CHOOSE u \in tx : TRUE
<1>4. CurrentObjects = {t.obj} /\ Sent(t, TRUE, TRUE)
  BY <1>1, <1>3, TheTransaction
<1>5. t.obj \in asked'
  BY <1>1, <1>3, <1>4
<1> QED
  BY <1>1, <1>2, <1>3, <1>4, <1>5, SentFacts

LEMMA BroadcastStep ==
  ASSUME LockOK, SendOK, NEW ok \in BOOLEAN, BroadcastCurrentTransaction(ok)
  PROVE  LockOK' /\ SendOK'
<1>1. Idle /\ asked' = asked \cup CurrentObjects
  BY DEF BroadcastCurrentTransaction
<1> DEFINE broadcast == ok /\ Available /\ tx # {} /\ \E p \in psbt : p.fee /\ p.sigs = "all"
<1>2. CASE broadcast
  <2> DEFINE t == CHOOSE u \in tx : TRUE
  <2>1. Sent(t, TRUE, FALSE) /\ UNCHANGED <<lockVars, work>>
    BY <1>2 DEF BroadcastCurrentTransaction
  <2>2. LockOK' /\ work' = {}
    BY <1>1, <2>1, SameLock DEF Idle
  <2>3. tx # {}
    BY <1>2
  <2>4. CurrentObjects = {t.obj}
    BY <2>3, TheTransaction
  <2> QED
    BY <1>1, <2>1, <2>2, <2>3, <2>4, SentFacts
<1>3. CASE ~broadcast
  <2>1. Refused /\ page' = page
    BY <1>3 DEF BroadcastCurrentTransaction
  <2>2. page \in PageType /\ page.alert \cup page.popup \subseteq asked
    BY DEF SendOK, SendType, AskedInv
  <2>3. SignedInv => SignedInv'
    BY <2>1 DEF SignedInv, Refused, lockVars
  <2> QED
    BY <1>1, <2>1, <2>2, <2>3, RefusedFacts
<1> QED
  BY <1>2, <1>3

----------------------------------------------------------------------------
(* Operations that leave the review alone *)

\* They start from the idle GUI thread.
LEMMA StartsStep ==
  ASSUME LockOK, SendOK, NEW pass,
         PrepareTransaction(pass) \/ ConfirmFeeBump(pass) \/ SignMessage(pass)
  PROVE  LockOK' /\ SendOK'
<1>1. Idle /\ UNCHANGED <<sendVars, file>>
  BY DEF PrepareTransaction, ConfirmFeeBump, SignMessage
<1>2. PICK op \in {"prepare", "bump", "message"} :
        UnlockForAction(op, pass) /\ (op = "prepare" => page.at = "form")
  BY DEF PrepareTransaction, ConfirmFeeBump, UnlockForCommit, SignMessage, UnlockForSigning
<1>3. LockOK' /\ SameKind /\ \A w \in work' : w.op = op
  BY <1>1, <1>2, UnlockFacts DEF Ops
<1> QED
  BY <1>1, <1>2, <1>3, SendFrame

\* They end with the lock.
LEMMA EndsStep ==
  ASSUME LockOK, SendOK,
         PrepareFails \/ SendFails \/ BumpFails \/ BumpCommitted \/ MessageDone
  PROVE  LockOK' /\ SendOK'
<1>1. Relock /\ UNCHANGED <<sendVars, file>>
  BY DEF PrepareFails, SendFails, BumpFails, BumpCommitted, MessageDone
<1>2. LockOK' /\ SameKind /\ work' = {}
  BY <1>1, RelockFacts
<1> QED
  BY <1>1, <1>2, SendFrame

LEMMA AsideStep ==
  ASSUME LockOK, SendOK,
         \/ \E ok \in BOOLEAN : PrepareFeeBump("t", ok)
         \/ ResetBump \/ TransactionConfirmed
         \/ UNCHANGED vars
  PROVE  LockOK' /\ SendOK'
<1>1. UNCHANGED <<lockVars, work, sendVars, file>>
  BY DEF PrepareFeeBump, ResetBump, TransactionConfirmed, vars
<1>2. LockOK' /\ SameKind /\ work' = work
  BY <1>1, SameLock
<1> QED
  BY <1>1, <1>2, SendFrame

LEMMA OthersStep ==
  ASSUME LockOK, SendOK,
         \/ EncryptWallet
         \/ \E locked \in BOOLEAN : RpcSetLocked(locked)
         \/ Unload
  PROVE  LockOK' /\ SendOK'
<1>1. UNCHANGED <<sendVars, file>>
  BY DEF EncryptWallet, RpcSetLocked, Unload
<1>2. LockOK' /\ SameKind /\ work' = work
  BY OtherLocks
<1> QED
  BY <1>1, <1>2, SendFrame

----------------------------------------------------------------------------
(* The theorems *)

LEMMA InitOK == ASSUME Kinds \subseteq WalletKinds, Init PROVE LockOK /\ SendOK
<1>1. PICK kind \in Kinds, crypted \in BOOLEAN :
        wallet = [kind |-> kind, crypted |-> crypted, locked |-> crypted, closing |-> FALSE]
  BY DEF Init
<1>2. /\ unlocker = "none" /\ work = {} /\ draft = "d1" /\ tx = {} /\ psbt = {}
      /\ canSend = FALSE /\ canBroadcast = FALSE /\ page = FirstPage /\ file = {}
      /\ committed = {} /\ asked = {} /\ made = 0
  BY DEF Init
<1>3. wallet \in WalletType
  BY <1>1 DEF WalletType
<1>4. LockOK
  BY <1>2, <1>3 DEF LockOK, LockType, LockInv, AtMostOne
<1>5. SendType
  BY <1>2, FirstPageFacts DEF SendType, AtMostOne, Drafts
<1>6. FormInv /\ SignedInv /\ CommittedWasConfirmed /\ CommittedIsSigned
  BY <1>2, FirstPageFacts DEF FormInv, SignedInv, CommittedWasConfirmed, CommittedIsSigned
<1>7. AskedInv
  BY <1>2, FirstPageFacts DEF AskedInv, CurrentObjects
<1> QED
  BY <1>4, <1>5, <1>6, <1>7 DEF SendOK

LEMMA NextOK == LockOK /\ SendOK /\ [Next]_vars => (LockOK /\ SendOK)'
<1> SUFFICES ASSUME LockOK, SendOK, [Next]_vars PROVE LockOK' /\ SendOK'
  OBVIOUS
<1>1. CASE EditDraft \/ CloseReview
  BY <1>1, EditDraftStep, CloseReviewStep
<1>2. CASE \E pass \in Passphrases :
             \/ PrepareTransaction(pass) \/ SubmitPassphrase(pass)
             \/ ConfirmFeeBump(pass) \/ SignMessage(pass)
  BY <1>2, StartsStep, SubmitPassphraseStep
<1>3. CASE PrepareUnmatched \/ PrepareDone
  BY <1>3, PrepareUnmatchedStep, PrepareDoneStep
<1>4. CASE \E p \in Psbts \cup file : ImportPsbt(p) \/ ImportUnmatched(p)
  <2>1. PICK p \in Psbts \cup file : ImportPsbt(p) \/ ImportUnmatched(p)
    BY <1>4
  <2>2. p \in PsbtType
    BY PsbtsTyped DEF SendOK, SendType, AtMostOne
  <2> QED
    BY <2>1, <2>2, ImportPsbtStep, ImportUnmatchedStep
<1>5. CASE BeginApproval \/ SaveCurrentTransactionAsPsbt
  BY <1>5, BeginApprovalStep, SaveStep
<1>6. CASE \E outcome \in {"error", "partiallySigned", "signed"} : ApproveExternalSigner(outcome)
  BY <1>6, ApproveStep
<1>7. CASE RequestSend \/ ConfirmSweep \/ CancelConfirmation \/ SendSigned
  BY <1>7, RequestSendStep, ConfirmSweepStep, CancelConfirmationStep, SendSignedStep
<1>8. CASE \E ok \in BOOLEAN : BroadcastCurrentTransaction(ok) \/ PrepareFeeBump("t", ok)
  BY <1>8, BroadcastStep, AsideStep
<1>9. CASE PrepareFails \/ SendFails \/ BumpFails \/ BumpCommitted \/ MessageDone
  BY <1>9, EndsStep
<1>10. CASE ResetBump \/ TransactionConfirmed \/ UNCHANGED vars
  BY <1>10, AsideStep
<1>11. CASE \/ EncryptWallet
            \/ \E locked \in BOOLEAN : RpcSetLocked(locked)
            \/ Unload
  BY <1>11, OthersStep
<1> QED
  BY <1>1, <1>2, <1>3, <1>4, <1>5, <1>6, <1>7, <1>8, <1>9, <1>10, <1>11 DEF Next

LEMMA AtMostOneIsSmall ==
  ASSUME NEW S, NEW T, AtMostOne(S, T)
  PROVE  Cardinality(S) <= 1
<1>1. CASE S = {}
  BY <1>1, FS_EmptySet
<1>2. CASE S # {}
  <2>1. PICK e : S = {e}
    BY <1>2 DEF AtMostOne
  <2>2. Cardinality({e}) = 1
    BY FS_Singleton
  <2> QED
    BY <2>1, <2>2
<1> QED
  BY <1>1, <1>2

LEMMA ImpliesApproved == LockOK /\ SendOK => CommittedWasApproved
<1> SUFFICES ASSUME LockOK, SendOK PROVE TypeOK
  BY DEF CommittedWasApproved, SendOK
<1>1. Cardinality(tx) <= 1 /\ Cardinality(psbt) <= 1 /\ Cardinality(work) <= 1
  BY AtMostOneIsSmall DEF LockOK, LockType, SendOK, SendType
<1>2. /\ page.at \in {"form", "review", "sent"}
      /\ page.alert \cup page.popup \subseteq 1..made
  BY DEF SendOK, SendType, PageType, AskedInv
<1>3. unlocker \in {"none", "gui", "rpc"} /\ (wallet.locked => unlocker = "none")
  BY DEF LockOK, LockType, LockInv
<1> QED
  BY <1>1, <1>2, <1>3 DEF TypeOK

LEMMA ImpliesUndone == LockOK => GuiUnlockIsUndone
  BY DEF LockOK, LockInv, GuiUnlockIsUndone, Idle

\* Whatever the user, RPC clients and imports do around sendTransaction,
\* broadcastCurrentTransaction and the external signer: only objects that the
\* user clicked Send or Broadcast for while they were shown are committed,
\* and only with their signatures.
THEOREM SpendingIsApproved ==
  ASSUME Kinds \subseteq WalletKinds
  PROVE  Spec => []CommittedWasApproved
<1>1. Init => LockOK /\ SendOK
  BY InitOK
<1>2. LockOK /\ SendOK /\ [Next]_vars => (LockOK /\ SendOK)'
  BY NextOK
<1>3. LockOK /\ SendOK => CommittedWasApproved
  BY ImpliesApproved
<1> QED
  BY <1>1, <1>2, <1>3, PTL DEF Spec

\* Every way out of an operation that unlocked the wallet with a passphrase
\* (WalletUnlock) locks it again, also when RPC clients lock and unlock it in
\* between, and what an RPC client unlocked is not taken for the GUI's.
THEOREM UnlockIsUndone ==
  ASSUME Kinds \subseteq WalletKinds
  PROVE  Spec => []GuiUnlockIsUndone
<1>1. Init => LockOK /\ SendOK
  BY InitOK
<1>2. LockOK /\ SendOK /\ [Next]_vars => (LockOK /\ SendOK)'
  BY NextOK
<1>3. LockOK /\ SendOK => GuiUnlockIsUndone
  BY ImpliesUndone
<1> QED
  BY <1>1, <1>2, <1>3, PTL DEF Spec

=============================================================================
