------------------------------ MODULE Spending ------------------------------
(***************************************************************************)
(* Preparing, importing, signing and sending a transaction, replacing one  *)
(* with a higher fee, and signing a message (qml/models/walletqmlmodel,    *)
(* walletqmlmodeltransaction, bumptransactionmodel,                        *)
(* signverifymessagemodel, walletunlock; the review page).  An operation   *)
(* that needs the keys unlocks the wallet, works and locks it again; RPC   *)
(* clients lock and unlock the same wallet, and close it, in between.      *)
(***************************************************************************)
EXTENDS Integers, FiniteSets

CONSTANTS Kinds,       \* of wallets: subset of {"keys", "signer", "watch"}
          MaxObjects,  \* bound on transactions put up for review
          MaxRpc       \* bound on the steps of RPC clients

VARIABLES wallet,    \* [kind, crypted, locked, closing]
          unlocker,  \* who unlocked it last: "gui", "rpc", or "none" while locked
          work,      \* {} or {[op, relock]}: what the GUI thread does with the wallet
          draft,     \* the payment in the form
          tx,        \* {} or {[obj, what, src, sweeps, signed]}, the transaction under review
          psbt,      \* {} or {its PSBT}
          canSend, canBroadcast,
          page,      \* [at, imported, alert, popup, signer]: the review and its confirmations
          bump,      \* [state, original]
          bumpable,  \* transactions of the wallet that can be replaced
          file,      \* {} or {a PSBT the user saved}
          committed, \* what went to the wallet or the network: [what, signed, asked]
          asked,     \* objects the user clicked Send or Broadcast for
          made, rpcs

sendVars == <<draft, tx, psbt, canSend, canBroadcast, page, committed, asked, made>>
lockVars == <<wallet, unlocker>>
vars == <<lockVars, work, sendVars, bump, bumpable, file, rpcs>>

Drafts == {"d1", "d2"}
\* PSBT files the user opens: signatures present, whether all inputs are the
\* wallet's, whether the fee is known, and whether several parties must sign.
Psbt(sigs, mine, fee, multi) == [what |-> "p", sigs |-> sigs, mine |-> mine, fee |-> fee, multi |-> multi]
Psbts == {Psbt("none", TRUE, TRUE, FALSE), Psbt("none", TRUE, TRUE, TRUE), Psbt("none", FALSE, TRUE, FALSE),
          Psbt("all", FALSE, TRUE, FALSE), Psbt("all", TRUE, FALSE, FALSE)}
Passphrases == {"none", "right", "wrong"}

Idle == work = {}
Available == ~wallet.closing
PrivateKeysDisabled == wallet.kind # "keys"
MustUnlock == wallet.kind = "keys" /\ wallet.crypted /\ wallet.locked

----------------------------------------------------------------------------
(* Unlocking *)

\* TryUnlockWithPassphrase and the guard that relocks.
MayStart(pass) == pass = "wrong" => ~(wallet.crypted /\ wallet.locked)
UnlockForAction(op, pass) ==
  LET unlock == pass = "right" /\ wallet.crypted /\ wallet.locked
  IN /\ work' = {[op |-> op, relock |-> unlock]}
     /\ IF unlock
        THEN /\ wallet' = [wallet EXCEPT !.locked = FALSE]
             /\ unlocker' = "gui"
        ELSE UNCHANGED lockVars

NoRelock == work' = {} /\ UNCHANGED lockVars
Relock ==
  /\ work' = {}
  /\ IF \E w \in work : w.relock
     THEN /\ wallet' = [wallet EXCEPT !.locked = TRUE]
          /\ unlocker' = "none"
     ELSE UNCHANGED lockVars

----------------------------------------------------------------------------
(* The transaction under review *)

IsCurrentAlways(reviewed, current) == reviewed # {}
IsCurrentTransaction(reviewed, current) == \E t \in current : t.obj \in reviewed

\* A new object closes the confirmations of the old one.
Closed(reviewed, t) == IF IsCurrentTransaction(reviewed, {t}) THEN reviewed ELSE {}
ShowReview(t) ==
  page' = [page EXCEPT !.at = "review", !.alert = Closed(@, t), !.popup = Closed(@, t),
                       !.imported = t.src = "psbt"]
\* A deleted object leaves its confirmations without a transaction.
Deleted == page' = [page EXCEPT !.alert = {}, !.popup = {}]

EditDraft ==
  /\ Idle /\ page.at = "form"
  /\ \E d \in Drafts \ {draft} : draft' = d
  /\ UNCHANGED <<lockVars, work, tx, psbt, canSend, canBroadcast, page, committed, asked, made, bump, bumpable, file, rpcs>>

PrepareTransaction(pass) ==
  /\ Idle /\ page.at = "form" /\ Available /\ made < MaxObjects
  /\ MustUnlock => pass # "none"
  /\ MayStart(pass)
  /\ UnlockForAction("prepare", pass)
  /\ UNCHANGED <<sendVars, bump, bumpable, file, rpcs>>

\* Insufficient funds, a bad fee rate, or keys locked by an RPC client.
PrepareFails ==
  /\ \E w \in work : w.op = "prepare"
  /\ Relock
  /\ UNCHANGED <<sendVars, bump, bumpable, file, rpcs>>

\* The recipients on the form cannot be matched: no transaction is left.
PrepareUnmatched ==
  /\ \E w \in work : w.op = "prepare"
  /\ Relock
  /\ tx' = {} /\ psbt' = {} /\ canSend' = FALSE /\ canBroadcast' = FALSE
  /\ Deleted
  /\ UNCHANGED <<draft, committed, asked, made, bump, bumpable, file, rpcs>>

PrepareDone ==
  /\ \E w \in work : w.op = "prepare"
  /\ PrivateKeysDisabled \/ ~wallet.locked
  /\ Relock
  /\ \E sweeps \in BOOLEAN :
       LET t == [obj |-> made + 1, what |-> draft, src |-> "draft", sweeps |-> sweeps,
                 signed |-> ~PrivateKeysDisabled]
       IN tx' = {t} /\ ShowReview(t)
  /\ made' = made + 1
  /\ psbt' = {} /\ canSend' = TRUE /\ canBroadcast' = FALSE
  /\ UNCHANGED <<draft, committed, asked, bump, bumpable, file, rpcs>>

\* Errors and transactions the wallet knows leave the review alone.
Importable(p) == \A c \in committed : c.what # p.what
WalletHasSigner == wallet.kind # "watch"
CanSendPsbt(p) == p.fee /\ p.mine /\ (p.sigs = "all" \/ (~p.multi /\ WalletHasSigner))
CanBroadcastPsbt(p) == p.fee /\ p.sigs = "all"

ImportPsbt(p) ==
  /\ Idle /\ Available /\ made < MaxObjects /\ page.at # "sent"
  /\ Importable(p)
  /\ LET t == [obj |-> made + 1, what |-> p.what, src |-> "psbt", sweeps |-> FALSE, signed |-> p.sigs = "all"]
     IN tx' = {t} /\ ShowReview(t)
  /\ made' = made + 1
  /\ draft' = p.what
  /\ psbt' = {p} /\ canSend' = CanSendPsbt(p) /\ canBroadcast' = CanBroadcastPsbt(p)
  /\ UNCHANGED <<lockVars, work, committed, asked, bump, bumpable, file, rpcs>>

\* Its recipients cannot be matched: the PSBT and the flags of the previous
\* transaction stay although that is gone.
ImportUnmatched(p) ==
  /\ Idle /\ Available /\ page.at # "sent"
  /\ Importable(p)
  /\ tx' = {} /\ draft' = p.what
  /\ Deleted
  /\ UNCHANGED <<lockVars, work, psbt, canSend, canBroadcast, committed, asked, made, bump, bumpable, file, rpcs>>

DiscardCurrentTransaction ==
  /\ tx' = {} /\ psbt' = {} /\ canSend' = FALSE /\ canBroadcast' = FALSE
  /\ draft' = "d1"

FirstPage == [at |-> "form", imported |-> FALSE, alert |-> {}, popup |-> {}, signer |-> "initial"]

\* Back, Done, or the page is hidden.
CloseReview ==
  /\ Idle /\ page.at # "form"
  /\ IF page.imported
     THEN DiscardCurrentTransaction /\ page' = FirstPage
     ELSE /\ page' = [FirstPage EXCEPT !.popup = page.popup]
          /\ draft' = IF page.at = "sent" THEN "d1" ELSE draft
          /\ UNCHANGED <<tx, psbt, canSend, canBroadcast>>
  /\ UNCHANGED <<lockVars, work, committed, asked, made, bump, bumpable, file, rpcs>>

\* A draft is saved without its signatures, an imported or partly signed PSBT
\* as it is.
SaveCurrentTransactionAsPsbt ==
  /\ Idle /\ Available /\ page.at = "review"
  /\ \E t \in tx :
       file' = IF psbt # {} THEN psbt
               ELSE {[what |-> t.what, sigs |-> "none", mine |-> TRUE, fee |-> TRUE, multi |-> FALSE]}
  /\ UNCHANGED <<lockVars, work, sendVars, bump, bumpable, rpcs>>

\* With an external signer, the button approves before it sends.
BeginApproval ==
  /\ Idle /\ page.at = "review" /\ wallet.kind = "signer"
  /\ canSend /\ ~(page.imported /\ canBroadcast)
  /\ page.signer \in {"initial", "error"}
  /\ page' = [page EXCEPT !.signer = "waiting"]
  /\ UNCHANGED <<lockVars, work, draft, tx, psbt, canSend, canBroadcast, committed, asked, made, bump, bumpable, file, rpcs>>

\* Signs the transaction that is current when the timer fires.
ApproveExternalSigner(outcome) ==
  /\ Idle /\ page.signer = "waiting"
  /\ IF outcome = "error" \/ ~Available \/ tx = {}
     THEN page' = [page EXCEPT !.signer = "error"] /\ UNCHANGED <<tx, psbt, canSend, canBroadcast>>
     ELSE LET t == CHOOSE u \in tx : TRUE
              p == [what |-> t.what, sigs |-> IF outcome = "signed" THEN "all" ELSE "none",
                    mine |-> TRUE, fee |-> TRUE, multi |-> outcome # "signed"]
          IN /\ page' = [page EXCEPT !.signer = outcome]
             /\ psbt' = {p}
             /\ tx' = {[t EXCEPT !.signed = @ \/ outcome = "signed"]}
             /\ canSend' = (outcome = "signed") /\ canBroadcast' = FALSE
  /\ UNCHANGED <<lockVars, work, draft, committed, asked, made, bump, bumpable, file, rpcs>>

----------------------------------------------------------------------------
(* Sending *)

Record(t, signed) == committed' = committed \cup {[what |-> t.what, signed |-> signed, asked |-> t.obj \in asked']}

\* The wallet has the transaction; the page shows that it was sent.
Sent(t, signed, mayResend) ==
  /\ Record(t, signed)
  /\ tx' = {[t EXCEPT !.src = "none", !.signed = signed]}
  /\ psbt' = {} /\ canSend' = mayResend /\ canBroadcast' = FALSE
  /\ page' = [page EXCEPT !.at = "sent", !.alert = {}, !.popup = {}, !.signer = "initial"]
  /\ UNCHANGED <<draft, made, bump, bumpable, file, rpcs>>

Refused == UNCHANGED <<lockVars, work, draft, tx, psbt, canSend, canBroadcast, committed, made, bump, bumpable, file, rpcs>>

\* sendTransactionInternal; the page asks for a passphrase for the object in ask.
SendTransaction(pass, ask) ==
  LET t == CHOOSE u \in tx : TRUE
      complete == \A p \in psbt : p.sigs = "all"
  IN IF ~Available \/ tx = {} \/ (psbt # {} /\ ~canSend) \/ (~(psbt # {} /\ complete) /\ wallet.kind = "watch")
     THEN Refused /\ page' = [page EXCEPT !.alert = {}]
     ELSE IF psbt = {} \/ complete
     THEN Sent(t, psbt # {} \/ t.signed, TRUE) /\ UNCHANGED <<lockVars, work>>
     ELSE IF MustUnlock /\ pass = "none"
     THEN Refused /\ page' = [page EXCEPT !.alert = {}, !.popup = ask]
     ELSE IF ~MayStart(pass)
     THEN Refused /\ page' = [page EXCEPT !.alert = {}]
     ELSE /\ UnlockForAction("send", pass)
          /\ page' = [page EXCEPT !.alert = {}]
          /\ UNCHANGED <<draft, tx, psbt, canSend, canBroadcast, committed, made, bump, bumpable, file, rpcs>>

SendEnabledUnapproved ==
  /\ Idle /\ page.at = "review" /\ page.alert = {} /\ page.popup = {}
  /\ canSend /\ ~(page.imported /\ canBroadcast)

SendEnabled ==
  /\ Idle /\ page.at = "review" /\ page.alert = {} /\ page.popup = {}
  /\ canSend /\ ~(page.imported /\ canBroadcast)
  /\ wallet.kind = "signer" => page.signer = "signed"

CurrentObjects == {t.obj : t \in tx}

RequestSend ==
  /\ SendEnabled
  /\ asked' = asked \cup CurrentObjects
  /\ IF \E t \in tx : t.src = "draft" /\ t.sweeps
     THEN page' = [page EXCEPT !.alert = CurrentObjects] /\ Refused
     ELSE SendTransaction("none", CurrentObjects)

\* The user confirms a sweep, or enters the passphrase; an import may have
\* replaced the transaction meanwhile.
ConfirmSweep ==
  /\ Idle /\ page.alert # {}
  /\ UNCHANGED asked
  /\ IF IsCurrentTransaction(page.alert, tx) THEN SendTransaction("none", CurrentObjects)
     ELSE Refused /\ page' = [page EXCEPT !.alert = {}]

SubmitPassphrase(pass) ==
  /\ Idle /\ page.popup # {} /\ pass # "none"
  /\ UNCHANGED asked
  /\ IF IsCurrentTransaction(page.popup, tx) THEN SendTransaction(pass, page.popup)
     ELSE Refused /\ page' = [page EXCEPT !.popup = {}]

CancelConfirmation ==
  /\ Idle /\ page.alert \cup page.popup # {}
  /\ page' = [page EXCEPT !.alert = {}, !.popup = {}]
  /\ Refused /\ UNCHANGED asked

\* The keys, or the external signer, complete the PSBT and it is committed.
SendSigned ==
  /\ \E w \in work : w.op = "send"
  /\ PrivateKeysDisabled \/ ~wallet.locked
  /\ \A p \in psbt : p.mine
  /\ Relock
  /\ UNCHANGED asked
  /\ Sent(CHOOSE t \in tx : TRUE, TRUE, TRUE)

SendFails ==
  /\ \E w \in work : w.op = "send"
  /\ Relock
  /\ UNCHANGED <<sendVars, bump, bumpable, file, rpcs>>

BroadcastCurrentTransaction(ok) ==
  /\ Idle /\ page.at = "review" /\ page.imported /\ canBroadcast
  /\ asked' = asked \cup CurrentObjects
  /\ IF ok /\ Available /\ tx # {} /\ \E p \in psbt : p.fee /\ p.sigs = "all"
     THEN Sent(CHOOSE t \in tx : TRUE, TRUE, FALSE) /\ UNCHANGED <<lockVars, work>>
     ELSE Refused /\ UNCHANGED page

----------------------------------------------------------------------------
(* Fee bump, message, encryption *)

PrepareFeeBump(id, ok) ==
  /\ Idle /\ page.at = "form"
  /\ bump.state # "confirm"
  /\ bump' = IF ok /\ id \in bumpable THEN [state |-> "confirm", original |-> {id}]
             ELSE [bump EXCEPT !.state = "failed"]
  /\ UNCHANGED <<lockVars, work, sendVars, bumpable, file, rpcs>>

UnlockForCommit(pass) == MayStart(pass) /\ UnlockForAction("bump", pass)

ConfirmFeeBump(pass) ==
  /\ Idle /\ bump.state = "confirm"
  /\ MustUnlock => pass # "none"
  /\ UnlockForCommit(pass)
  /\ bump' = [bump EXCEPT !.state = "committing"]
  /\ UNCHANGED <<sendVars, bumpable, file, rpcs>>

BumpFails ==
  /\ \E w \in work : w.op = "bump"
  /\ Relock
  /\ bump' = [bump EXCEPT !.state = "failed"]
  /\ UNCHANGED <<sendVars, bumpable, file, rpcs>>

BumpCommitted ==
  /\ \E w \in work : w.op = "bump"
  /\ bump.original \subseteq bumpable
  /\ PrivateKeysDisabled \/ ~wallet.locked
  /\ Relock
  /\ bump' = [bump EXCEPT !.state = "done"]
  /\ bumpable' = bumpable \ bump.original
  /\ UNCHANGED <<sendVars, file, rpcs>>

ResetBump ==
  /\ Idle /\ bump.state \in {"confirm", "failed", "done"}
  /\ bump' = [state |-> "idle", original |-> {}]
  /\ UNCHANGED <<lockVars, work, sendVars, bumpable, file, rpcs>>

UnlockForSigning(pass) ==
  /\ wallet.crypted /\ wallet.locked => pass # "none"
  /\ MayStart(pass)
  /\ UnlockForAction("message", pass)

SignMessage(pass) ==
  /\ Idle /\ page.at = "form"
  /\ UnlockForSigning(pass)
  /\ UNCHANGED <<sendVars, bump, bumpable, file, rpcs>>

\* With a signature or an error.
MessageDone ==
  /\ \E w \in work : w.op = "message"
  /\ Relock
  /\ UNCHANGED <<sendVars, bump, bumpable, file, rpcs>>

\* A freshly encrypted wallet is locked.
EncryptWallet ==
  /\ Idle /\ Available /\ page.at = "form" /\ ~PrivateKeysDisabled /\ ~wallet.crypted
  /\ wallet' = [wallet EXCEPT !.crypted = TRUE, !.locked = TRUE]
  /\ unlocker' = "none"
  /\ UNCHANGED <<work, sendVars, bump, bumpable, file, rpcs>>

\* RPC clients and blocks.
RpcSetLocked(locked) ==
  /\ wallet.crypted /\ wallet.locked # locked /\ rpcs < MaxRpc
  /\ wallet' = [wallet EXCEPT !.locked = locked]
  /\ unlocker' = IF locked THEN "none" ELSE "rpc"
  /\ rpcs' = rpcs + 1
  /\ UNCHANGED <<work, sendVars, bump, bumpable, file>>

Unload ==
  /\ ~wallet.closing /\ rpcs < MaxRpc
  /\ wallet' = [wallet EXCEPT !.closing = TRUE]
  /\ rpcs' = rpcs + 1
  /\ UNCHANGED <<unlocker, work, sendVars, bump, bumpable, file>>

TransactionConfirmed ==
  /\ bumpable # {} /\ rpcs < MaxRpc
  /\ bumpable' = {}
  /\ rpcs' = rpcs + 1
  /\ UNCHANGED <<lockVars, work, sendVars, bump, file>>

----------------------------------------------------------------------------

Init ==
  /\ \E kind \in Kinds, crypted \in BOOLEAN :
       /\ crypted => kind = "keys"
       /\ wallet = [kind |-> kind, crypted |-> crypted, locked |-> crypted, closing |-> FALSE]
  /\ unlocker = "none" /\ work = {}
  /\ draft = "d1" /\ tx = {} /\ psbt = {} /\ canSend = FALSE /\ canBroadcast = FALSE
  /\ page = FirstPage
  /\ bump = [state |-> "idle", original |-> {}] /\ bumpable = {"t"} /\ file = {}
  /\ committed = {} /\ asked = {} /\ made = 0 /\ rpcs = 0

Next ==
  \/ EditDraft \/ CloseReview
  \/ \E pass \in Passphrases :
       PrepareTransaction(pass) \/ SubmitPassphrase(pass) \/ ConfirmFeeBump(pass) \/ SignMessage(pass)
  \/ PrepareFails \/ PrepareUnmatched \/ PrepareDone
  \/ \E p \in Psbts \cup file : ImportPsbt(p) \/ ImportUnmatched(p)
  \/ BeginApproval \/ SaveCurrentTransactionAsPsbt
  \/ \E outcome \in {"error", "partiallySigned", "signed"} : ApproveExternalSigner(outcome)
  \/ RequestSend \/ ConfirmSweep \/ CancelConfirmation \/ SendSigned \/ SendFails
  \/ \E ok \in BOOLEAN : BroadcastCurrentTransaction(ok) \/ PrepareFeeBump("t", ok)
  \/ BumpFails \/ BumpCommitted \/ ResetBump \/ MessageDone \/ EncryptWallet
  \/ \E locked \in BOOLEAN : RpcSetLocked(locked)
  \/ Unload \/ TransactionConfirmed

Spec == Init /\ [][Next]_vars

----------------------------------------------------------------------------
(* Properties *)

\* At most one transaction, PSBT and operation of the wallet at a time.
TypeOK ==
  /\ Cardinality(tx) <= 1 /\ Cardinality(psbt) <= 1 /\ Cardinality(work) <= 1
  /\ page.at \in {"form", "review", "sent"}
  /\ page.alert \cup page.popup \subseteq 1..made
  /\ unlocker \in {"none", "gui", "rpc"} /\ (wallet.locked => unlocker = "none")

\* The wallet and the network only get transactions the user asked to send
\* while the review showed them, although an import may replace the
\* transaction under an open confirmation.
CommittedWasConfirmed == \A c \in committed : c.asked

\* Nothing is committed without its signatures, whatever mix of keys, signer,
\* imported PSBT and partial approval led there.
CommittedIsSigned == \A c \in committed : c.signed

\* Whatever way an operation ends, the GUI does not leave a wallet unlocked
\* that it unlocked; a wallet an RPC client unlocked is left alone.
GuiUnlockIsUndone == Idle => unlocker # "gui"

\* Only transactions the user approved, with their signatures, are committed.
CommittedWasApproved ==
  /\ TypeOK
  /\ CommittedWasConfirmed
  /\ CommittedIsSigned
=============================================================================
