---------------------------- MODULE FeeEstimates ----------------------------
(***************************************************************************)
(* The send form of a wallet and the fee previews shown beside it          *)
(* (qml/models/walletqmlmodel.cpp, sendrecipientslistmodel.cpp,            *)
(* coinslistmodel.cpp).  Every edit drops the previews and restarts a      *)
(* debounce timer; the timer submits one request with a copy of the form;  *)
(* the executor answers in order; an answer that is not the newest         *)
(* request's is ignored.  A recipient that takes the maximum has its       *)
(* amount filled in from the preview of the selected target.               *)
(***************************************************************************)
EXTENDS Integers, Sequences, FiniteSets, FiniteSetsExt, SequencesExt, Functions

CONSTANTS Coins,     \* the wallet's coins
          CoinValue, \* what each is worth
          Dust,      \* smallest output that relays
          MaxEdits   \* bound on the user's operations

VARIABLES rows,     \* the recipients: [id, addr, amount]
          current,  \* the row being edited
          maximum,  \* id of the recipient that takes the maximum, 0 for none
          dying,    \* ids of removed recipients that deleteLater has not reached
          selected, \* manually selected coins
          previous, \* {} or {the selection to restore when the coin picker is cancelled}
          unspent,  \* coins of the wallet that are still there
          locked,   \* coins the user locked
          listed,   \* coins the list model shows
          target,   \* selected standard target
          custom,   \* [on, rate]; rate 0 is no valid rate
          fee,      \* [estimates, custom, pending, timer, id]
          requests, \* submitted to the executor, oldest first: [id, form]
          sent,     \* the payment was sent and its form is not cleared yet
          stopping, edits

coinVars == <<unspent, locked, listed>>
vars == <<rows, current, maximum, dying, selected, previous, coinVars, target, custom, fee, requests,
          sent, stopping, edits>>

Targets == {"fast", "slow"}
\* Fee rates per input; external, chosen so that the targets differ.
Rate == [t \in Targets |-> IF t = "fast" THEN 3 ELSE 1]
Required == 1
CustomRates == {0, 2}
Addresses == {"none", "a", "b"}
\* Amounts the user types: dust, an amount that fits.
Typed == {1, 4}

----------------------------------------------------------------------------
(* Previews, computed on the executor.  A result is {} or {preview}. *)

Value(coins) == CoinValue * Cardinality(coins)
Sum(amounts) == FoldFunction(+, 0, amounts)

\* Selected coins are the only inputs; locked ones have to be selected.
ApplySelectedInputsPolicy(coins, wallet) == IF coins # {} THEN coins ELSE wallet \ locked

\* The remainder goes to one recipient and there is no change.
CreateSendAllTransaction(form, rate, wallet) ==
  LET inputs == ApplySelectedInputsPolicy(form.coins, wallet)
      amounts == [form.amounts EXCEPT ![form.remainder] = 0]
      remainder == Value(inputs) - rate * Cardinality(inputs) - Sum(amounts)
  IN {p \in {[form |-> form, inputs |-> inputs, fee |-> rate * Cardinality(inputs), max |-> remainder]} :
        /\ inputs # {} /\ inputs \subseteq wallet
        /\ IsInjective(form.addrs)
        /\ \A i \in DOMAIN amounts : (IF i = form.remainder THEN remainder ELSE amounts[i]) >= Dust}

\* A fixed amount; selected inputs that fall short still tell the fee.
FixedAmountPreview(form, rate, wallet) ==
  LET inputs == ApplySelectedInputsPolicy(form.coins, wallet)
      cost == rate * Cardinality(inputs)
  IN {p \in {[form |-> form, inputs |-> inputs, fee |-> cost, max |-> 0]} :
        /\ inputs # {} /\ inputs \subseteq wallet
        /\ form.coins # {} \/ Sum(form.amounts) + cost <= Value(inputs)}

TryPreviewFee(form, rate, wallet) ==
  IF form.remainder # 0 THEN CreateSendAllTransaction(form, rate, wallet)
                        ELSE FixedAmountPreview(form, rate, wallet)

FallbackFeeMultiplier(t) == IF t = "fast" THEN 2 ELSE 1

\* No made-up rate for a maximum.
EstimatePreviewFee(form, t, wallet) ==
  LET first == TryPreviewFee(form, Rate[t], wallet)
  IN IF first # {} \/ form.remainder # 0 THEN first
     ELSE TryPreviewFee(form, Required * FallbackFeeMultiplier(t), wallet)

EstimateCustomPreviewFee(form, wallet) ==
  IF form.custom = 0 THEN {} ELSE TryPreviewFee(form, form.custom, wallet)

NoEstimates == [t \in Targets |-> {}]

----------------------------------------------------------------------------
(* The form *)

Index(r, id) == Max({0} \cup {i \in DOMAIN r : r[i].id = id})

\* What a request captures; the amount of the maximum's row does not count.
FormOf(r, m, coins, k) ==
  [addrs |-> [i \in DOMAIN r |-> r[i].addr],
   amounts |-> [i \in DOMAIN r |-> IF r[i].id = m THEN 0 ELSE r[i].amount],
   remainder |-> Index(r, m), coins |-> coins, custom |-> IF k.on THEN k.rate ELSE 0]
Form == FormOf(rows, maximum, selected, custom)

BuildRecipients(r, m) ==
  \A i \in DOMAIN r : r[i].addr # "none" /\ (r[i].id = m \/ r[i].amount >= Dust)

SelectedFeePreview(f, t, k) == IF k.on THEN (IF k.rate # 0 THEN f.custom ELSE {}) ELSE f.estimates[t]

UpdateMaximumFromStandard(r, f, t, k) ==
  [i \in DOMAIN r |->
     IF r[i].id = maximum /\ \E p \in f.estimates[t] : p.max # 0
     THEN [r[i] EXCEPT !.amount = (CHOOSE p \in f.estimates[t] : TRUE).max] ELSE r[i]]

UpdateMaximumAmount(r, f, t, k) ==
  [i \in DOMAIN r |->
     IF r[i].id = maximum /\ \E p \in SelectedFeePreview(f, t, k) : p.max # 0
     THEN [r[i] EXCEPT !.amount = (CHOOSE p \in SelectedFeePreview(f, t, k) : TRUE).max] ELSE r[i]]

ClearFeeEstimatesKeepsPending(f) ==
  [f EXCEPT !.id = @ + 1, !.estimates = NoEstimates, !.custom = {}, !.timer = FALSE]
ClearFeeEstimates(f) ==
  [f EXCEPT !.id = @ + 1, !.estimates = NoEstimates, !.custom = {}, !.pending = FALSE, !.timer = FALSE]

\* Without an address the maximum's row shows the gross remainder.
GrossRemainder(r, m, coins) ==
  [i \in DOMAIN r |->
     IF r[i].id = m /\ r[i].addr = "none" /\ ~stopping
     THEN [r[i] EXCEPT !.amount =
             Max({0, Value(ApplySelectedInputsPolicy(coins, unspent) \cap unspent)
                       - Sum([j \in DOMAIN r |-> IF j = i THEN 0 ELSE r[j].amount])})]
     ELSE r[i]]

ScheduleFeeEstimates(f, r, m) ==
  IF stopping \/ ~BuildRecipients(r, m) THEN ClearFeeEstimates(f)
  ELSE [ClearFeeEstimates(f) EXCEPT !.pending = TRUE, !.timer = TRUE]

\* The form changes and scheduleFeeEstimates is called in the same event.
Reschedule(r, m, coins, k) ==
  /\ rows' = GrossRemainder(r, m, coins)
  /\ maximum' = m
  /\ selected' = coins
  /\ custom' = k
  /\ fee' = ScheduleFeeEstimates(fee, r, m)

MayEdit == ~sent /\ edits < MaxEdits /\ edits' = edits + 1
KeepForm == UNCHANGED <<current, dying, previous, coinVars, target, requests, sent, stopping>>

Init ==
  /\ rows = <<[id |-> 1, addr |-> "none", amount |-> 0]>>
  /\ current = 1 /\ maximum = 0 /\ dying = {}
  /\ selected = {} /\ previous = {}
  /\ unspent = Coins /\ locked = {} /\ listed = Coins
  /\ target = "slow"
  /\ custom = [on |-> FALSE, rate |-> 0]
  /\ fee = [estimates |-> NoEstimates, custom |-> {}, pending |-> FALSE, timer |-> FALSE, id |-> 0]
  /\ requests = <<>>
  /\ sent = FALSE /\ stopping = FALSE /\ edits = 0

EditAddress(addr) ==
  /\ MayEdit
  /\ Reschedule([rows EXCEPT ![current].addr = addr], maximum, selected, custom)
  /\ KeepForm

\* Typing over the prefilled maximum makes it a fixed amount.
EditAmount(amount) ==
  /\ MayEdit
  /\ amount # rows[current].amount
  /\ Reschedule([rows EXCEPT ![current].amount = amount],
                IF maximum = rows[current].id THEN 0 ELSE maximum, selected, custom)
  /\ KeepForm

UseMaximum ==
  /\ MayEdit /\ ~stopping
  /\ Reschedule(rows, rows[current].id, selected, custom)
  /\ KeepForm

LastId == Max({rows[i].id : i \in DOMAIN rows} \cup dying)

AddRecipient ==
  /\ MayEdit
  /\ Len(rows) = 1
  /\ Reschedule(Append(rows, [id |-> LastId + 1, addr |-> "none", amount |-> 0]), maximum, selected, custom)
  /\ current' = 2
  /\ UNCHANGED <<dying, previous, coinVars, target, requests, sent, stopping>>

\* The removed recipient lives until the event loop deletes it, and may still
\* be the one that takes the maximum.
RemoveRecipient(i) ==
  /\ MayEdit
  /\ Len(rows) > 1
  /\ Reschedule(RemoveAt(rows, i), maximum, selected, custom)
  /\ current' = 1
  /\ dying' = dying \cup {rows[i].id}
  /\ UNCHANGED <<previous, coinVars, target, requests, sent, stopping>>

RecipientDestroyed ==
  /\ dying # {}
  /\ dying' = {}
  /\ maximum' = IF maximum \in dying THEN 0 ELSE maximum
  /\ UNCHANGED <<rows, current, selected, previous, coinVars, target, custom, fee, requests, sent, stopping, edits>>

\* The row may show a coin that was spent meanwhile.
ToggleCoinSelection(c) ==
  /\ MayEdit
  /\ c \in listed
  /\ Reschedule(rows, maximum, IF c \in selected THEN selected \ {c} ELSE selected \cup {c}, custom)
  /\ KeepForm

\* The list follows the wallet, on its notifications and when the picker opens,
\* and reports its selection whether that changed or not: the form reschedules.
UpdateCoins ==
  /\ listed # unspent
  /\ listed' = unspent
  /\ Reschedule(rows, maximum, selected \cap unspent, custom)
  /\ UNCHANGED <<current, dying, previous, unspent, locked, target, requests, sent, stopping, edits>>

BeginSelection ==
  /\ MayEdit /\ previous = {}
  /\ listed' = unspent
  /\ previous' = {selected \cap unspent}
  /\ Reschedule(rows, maximum, selected \cap unspent, custom)
  /\ UNCHANGED <<current, dying, unspent, locked, target, requests, sent, stopping>>

ApplySelection ==
  /\ MayEdit /\ previous # {}
  /\ previous' = {}
  /\ UNCHANGED <<rows, current, maximum, dying, selected, coinVars, target, custom, fee, requests, sent, stopping>>

RestoredWithSpent == UNION previous
Restored == (UNION previous) \cap listed

CancelSelection ==
  /\ previous # {}
  /\ previous' = {}
  /\ Reschedule(rows, maximum, Restored, custom)
  /\ UNCHANGED <<current, dying, coinVars, target, requests, sent, stopping, edits>>

SetCoinLocked(c) ==
  /\ MayEdit
  /\ c \in listed
  /\ locked' = IF c \in locked THEN locked \ {c} ELSE locked \cup {c}
  /\ listed' = unspent
  /\ Reschedule(rows, maximum, (selected \cap unspent) \ (locked' \ locked), custom)
  /\ UNCHANGED <<current, dying, previous, unspent, target, requests, sent, stopping>>

\* All standard targets are estimated together: a change needs no request.
SetFeeTargetBlocks(t) ==
  /\ MayEdit
  /\ target # t
  /\ target' = t
  /\ rows' = UpdateMaximumAmount(rows, fee, t, custom)
  /\ UNCHANGED <<current, maximum, dying, selected, previous, coinVars, custom, fee, requests, sent, stopping>>

SetCustomFeeEnabled(on) ==
  /\ MayEdit
  /\ custom.on # on
  /\ Reschedule(rows, maximum, selected, [custom EXCEPT !.on = on])
  /\ KeepForm

\* A valid rate may move the selected target to the one it would buy.
SetCustomFeeRate(rate) ==
  /\ MayEdit
  /\ custom.rate # rate
  /\ \E t \in IF rate = 0 THEN {target} ELSE Targets :
       LET k == [custom EXCEPT !.rate = rate]
           f == [fee EXCEPT !.custom = {}]
       IN /\ target' = t
          /\ Reschedule(IF t # target THEN UpdateMaximumAmount(rows, f, t, k) ELSE rows, maximum, selected, k)
  /\ UNCHANGED <<current, dying, previous, coinVars, requests, sent, stopping>>

\* The slider enters the rate of a target, or blank when there is no estimate.
SetCustomFeeTarget(t) ==
  /\ MayEdit
  /\ target' = t
  /\ \E rate \in CustomRates :
       IF custom = [on |-> TRUE, rate |-> rate] THEN UNCHANGED <<rows, maximum, selected, custom, fee>>
       ELSE Reschedule(rows, maximum, selected, [on |-> TRUE, rate |-> rate])
  /\ UNCHANGED <<current, dying, previous, coinVars, requests, sent, stopping>>

ClearForm ==
  /\ Reschedule(<<[id |-> LastId + 1, addr |-> "none", amount |-> 0]>>, 0, {}, custom)
  /\ current' = 1
  /\ dying' = dying \cup {rows[i].id : i \in DOMAIN rows}
  /\ sent' = FALSE
  /\ UNCHANGED <<previous, coinVars, target, requests, stopping>>

SendRecipientsListModelClear == MayEdit /\ ClearForm
\* The review of a payment that was sent closes.
ClearSentForm == sent /\ ClearForm /\ UNCHANGED edits

----------------------------------------------------------------------------

RequestFeeEstimatesNow ==
  /\ fee.timer
  /\ IF BuildRecipients(rows, maximum)
     THEN /\ fee' = [fee EXCEPT !.timer = FALSE, !.pending = TRUE, !.id = @ + 1]
          /\ requests' = Append(requests, [id |-> fee.id + 1, form |-> Form])
     ELSE fee' = ClearFeeEstimates(fee) /\ UNCHANGED requests
  /\ UNCHANGED <<rows, current, maximum, dying, selected, previous, coinVars, target, custom, sent, stopping, edits>>

AnyRequest(request) == TRUE
Newest(request) == request.id = fee.id

\* The executor ran the oldest request (or it threw) and its result comes back.
ApplyFeeEstimates(threw) ==
  /\ requests # <<>>
  /\ requests' = Tail(requests)
  /\ LET r == Head(requests)
         f == [fee EXCEPT !.pending = FALSE,
                 !.estimates = [t \in Targets |-> IF threw THEN {} ELSE EstimatePreviewFee(r.form, t, unspent)],
                 !.custom = IF threw THEN {} ELSE EstimateCustomPreviewFee(r.form, unspent)]
     IN IF Newest(r)
        THEN fee' = f /\ rows' = UpdateMaximumAmount(rows, f, target, custom)
        ELSE UNCHANGED <<fee, rows>>
  /\ UNCHANGED <<current, maximum, dying, selected, previous, coinVars, target, custom, sent, stopping, edits>>

\* The reviewed transaction was sent: its inputs are spent, the maximum and
\* the selection are cleared, the recipients stay until the review closes.
TransactionSent ==
  /\ MayEdit /\ ~stopping
  /\ BuildRecipients(rows, maximum)
  /\ sent' = TRUE
  /\ unspent' = unspent \ ApplySelectedInputsPolicy(selected, unspent)
  /\ maximum' = 0
  /\ selected' = {}
  /\ fee' = IF selected # {} THEN ScheduleFeeEstimates(fee, rows, 0) ELSE fee
  /\ UNCHANGED <<rows, current, dying, previous, locked, listed, target, custom, requests, stopping>>

\* Another client of the wallet spends a coin.
CoinSpent(c) ==
  /\ c \in unspent
  /\ unspent' = unspent \ {c}
  /\ UNCHANGED <<rows, current, maximum, dying, selected, previous, locked, listed, target, custom, fee, requests, sent, stopping, edits>>

BeginShutdown ==
  /\ ~stopping
  /\ stopping' = TRUE
  /\ fee' = [fee EXCEPT !.timer = FALSE]
  /\ requests' = <<>>
  /\ UNCHANGED <<rows, current, maximum, dying, selected, previous, coinVars, target, custom, sent, edits>>

----------------------------------------------------------------------------

Edit ==
  \/ \E addr \in Addresses : EditAddress(addr)
  \/ \E amount \in Typed : EditAmount(amount)
  \/ \E i \in DOMAIN rows : RemoveRecipient(i)
  \/ \E c \in Coins : ToggleCoinSelection(c) \/ SetCoinLocked(c)
  \/ BeginSelection \/ ApplySelection
  \/ \E t \in Targets : SetFeeTargetBlocks(t) \/ SetCustomFeeTarget(t)
  \/ \E on \in BOOLEAN : SetCustomFeeEnabled(on)
  \/ \E rate \in CustomRates : SetCustomFeeRate(rate)
  \/ UseMaximum \/ AddRecipient \/ SendRecipientsListModelClear

Next ==
  \/ Edit \/ UpdateCoins \/ CancelSelection \/ ClearSentForm \/ RecipientDestroyed
  \/ RequestFeeEstimatesNow
  \/ \E threw \in BOOLEAN : ApplyFeeEstimates(threw)
  \/ TransactionSent \/ BeginShutdown
  \/ \E c \in Coins : CoinSpent(c)

----------------------------------------------------------------------------
(* Properties *)

Previews == (UNION {fee.estimates[t] : t \in Targets}) \cup fee.custom

\* The form and the previews have the shape the code gives them.
TypeOK ==
  /\ \A i \in DOMAIN rows : rows[i].addr \in Addresses /\ rows[i].amount \in Nat
  /\ current \in DOMAIN rows
  /\ maximum \in {0} \cup {rows[i].id : i \in DOMAIN rows} \cup dying
  /\ \A p \in Previews : p.fee > 0 /\ p.max \in Nat

\* No preview outlives the form it was computed for: between an edit and the
\* newest answer nothing is shown, whatever older requests still answer.
ShownFeeIsForForm == ~sent => \A p \in Previews : p.form = Form

\* Only coins of the list are selected, so the next update can drop the spent
\* ones; closing the picker must not bring back a coin that left the list.
SelectedCoinsAreListed == selected \subseteq listed

\* While an estimate is announced as pending, the timer runs or the newest
\* request is on its way: the spinner cannot hang.
PendingEstimateIsOnItsWay ==
  fee.pending /\ ~stopping => fee.timer \/ \E i \in DOMAIN requests : requests[i].id = fee.id

\* The row that takes the maximum shows what the selected preview leaves for
\* it: the amounts and the fee shown add up to the inputs.
MaximumFollowsPreview ==
  ~sent => \A p \in SelectedFeePreview(fee, target, custom) :
             Index(rows, maximum) # 0 => Sum([i \in DOMAIN rows |-> rows[i].amount]) + p.fee = Value(p.inputs)

\* Whatever edits, coin changes and late answers come in between, the fee and
\* the maximum shown belong to the form as it is, or an estimate for it is on
\* its way.
FeeFollowsForm ==
  /\ TypeOK
  /\ ShownFeeIsForForm
  /\ PendingEstimateIsOnItsWay
  /\ MaximumFollowsPreview
=============================================================================
