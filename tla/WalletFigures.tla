---------------------------- MODULE WalletFigures ----------------------------
(***************************************************************************)
(* What the wallet pages say about a transaction and about amounts:        *)
(* qml/models/transactionactivity.cpp, transactionflow.cpp,                *)
(* qml/bitcoinamount.cpp and qml/bitcoinunits.cpp.                         *)
(* These are pure functions, checked on every bounded input: figure is the *)
(* input under check.                                                      *)
(***************************************************************************)
EXTENDS Integers, Sequences, FiniteSets, SequencesExt, FiniteSetsExt

CONSTANTS MaxInputs, MaxOutputs, MaxValue, \* bounds on transactions
          CollapseAbove,                   \* outputs a preview lists before it groups them (10)
          MaxAmount,                       \* bound on amounts
          MaxInt64                         \* the greatest qint64, much smaller here

VARIABLE figure

----------------------------------------------------------------------------
(* Wallet transactions: external, as interfaces::WalletTx describes them *)

Total(s) == FoldLeft(LAMBDA sum, x : sum + x.value, 0, s)
Those(s, Test(_)) == SelectSeq(s, Test)
Mine(x) == x.mine

Outputs == {o \in [value : 0..MaxValue, mine : BOOLEAN, change : BOOLEAN, data : BOOLEAN] :
              /\ o.change => o.mine
              /\ o.data => ~o.mine}
Inputs == [value : 1..MaxValue, mine : BOOLEAN, known : BOOLEAN]
WalletTxs == {t \in [coinbase : BOOLEAN, vin : BoundedSeq(Inputs, MaxInputs), vout : BoundedSeq(Outputs, MaxOutputs)] :
                /\ t.vin # << >> /\ t.vout # << >>
                /\ IF t.coinbase THEN t.vin = <<[value |-> 1, mine |-> FALSE, known |-> FALSE]>>
                   ELSE Total(t.vin) >= Total(t.vout)}
Debit(t) == IF t.coinbase THEN 0 ELSE Total(Those(t.vin, Mine))
Credit(t) == Total(Those(t.vout, Mine))

----------------------------------------------------------------------------
(* TransactionActivity::fromWalletTx *)

IsDataOutput(o) == o.data /\ o.value = 0
AllFromWallet(t) == ~t.coinbase /\ \A i \in DOMAIN t.vin : t.vin[i].mine
MixedInputs(t) == ~t.coinbase /\ ~AllFromWallet(t) /\ \E i \in DOMAIN t.vin : t.vin[i].mine
Payments(t) == Those(t.vout, LAMBDA o : ~IsDataOutput(o))
OwnOutputs(t) == Those(Payments(t), Mine)
OwnRecipients(t) == Those(OwnOutputs(t), LAMBDA o : ~o.change)
Internal(t) == AllFromWallet(t) /\ OwnOutputs(t) # << >> /\ OwnOutputs(t) = Payments(t)
Consolidation(t) == Internal(t) /\ Len(t.vin) > Len(OwnOutputs(t))
SelfSend(t) == Internal(t) /\ ~Consolidation(t) /\ Len(OwnRecipients(t)) = 1
Split(t) == Internal(t) /\ ~SelfSend(t) /\ Len(t.vin) < Len(OwnOutputs(t))
ActivityFee(t) == IF AllFromWallet(t) THEN {Debit(t) - Total(t.vout)} ELSE {}

ShowsOutputNoChange(t, o) == ~IsDataOutput(o) /\ (AllFromWallet(t) \/ o.mine) /\ ~o.change
\* Change is hidden only when the wallet paid for everything and something else is shown.
ShowsOutput(t, o) ==
  /\ ~IsDataOutput(o)
  /\ AllFromWallet(t) \/ o.mine
  /\ ~(AllFromWallet(t) /\ (~Internal(t) \/ SelfSend(t)) /\ o.mine /\ o.change)
OutputAction(t, o) ==
  [value |-> o.value,
   direction |-> IF ~AllFromWallet(t) THEN "receive" ELSE IF o.mine THEN "internal" ELSE "send"]
Actions(t) ==
  (IF MixedInputs(t) THEN <<[value |-> Debit(t), direction |-> "send"]>> ELSE << >>)
  \o LET shown == Those(t.vout, LAMBDA o : ShowsOutput(t, o)) IN [i \in DOMAIN shown |-> OutputAction(t, shown[i])]

ActivityType(t) ==
  CASE t.coinbase -> "mined"
    [] ~t.coinbase /\ Consolidation(t) -> "consolidation"
    [] ~t.coinbase /\ Split(t) -> "split"
    [] ~t.coinbase /\ Internal(t) /\ ~Consolidation(t) /\ ~Split(t) -> "internal"
    [] OTHER -> IF Len(Actions(t)) > 1 THEN "multiple"
                ELSE IF Actions(t) = << >> THEN "other" ELSE Actions(t)[1].direction
Listed(t) == AllFromWallet(t) \/ MixedInputs(t) \/ \E i \in DOMAIN t.vout : t.vout[i].mine

----------------------------------------------------------------------------
(* BuildTransactionFlow: prevouts the wallet cannot find are unknown inputs *)

InputsKnown(t) == t.coinbase \/ \A i \in DOMAIN t.vin : t.vin[i].known
FlowFee(t) ==
  LET debit == IF InputsKnown(t) THEN {Total(t.vin)} ELSE IF AllFromWallet(t) THEN {Debit(t)} ELSE {}
  IN IF t.coinbase THEN {} ELSE {d - Total(t.vout) : d \in {x \in debit : x >= Total(t.vout)}}
Foreign(o) == ~o.mine
FlowOutputs(t, collapse) ==
  LET foreign == Those(t.vout, Foreign)
      grouped == collapse /\ Len(t.vout) > CollapseAbove /\ Len(foreign) > 1
  IN IF grouped THEN Append(Those(t.vout, Mine), [value |-> Total(foreign), mine |-> FALSE, change |-> FALSE, data |-> FALSE])
     ELSE t.vout

----------------------------------------------------------------------------
(* Amounts: a text is a whole part, a number of decimals with their value,  *)
(* and the digits behind a second decimal point                            *)

Decimals == [SAT |-> 0, bits |-> 2]
Factor == [SAT |-> 1, bits |-> 100]
Format(unit, n) ==
  [whole |-> n \div Factor[unit], digits |-> Decimals[unit], frac |-> n % Factor[unit], more |-> << >>]

\* QString::toLongLong gives 0 for what does not fit.  A sum that does not fit is
\* undefined behaviour; compiled, it wraps around.
ToLongLong(n) == IF n > MaxInt64 THEN 0 ELSE n
Wrapped(n) == IF n > MaxInt64 THEN n - 2 * (MaxInt64 + 1) ELSE n

\* sanitize cuts surplus decimals, but keeps them all in front of a second
\* decimal point.
Sanitize(unit, text) ==
  LET surplus == text.digits - Decimals[unit]
  IN IF surplus > 0 /\ text.more = << >>
     THEN [text EXCEPT !.digits = Decimals[unit], !.frac = @ \div 10^surplus] ELSE [text EXCEPT !.more = << >>]

\* displayToSats fills up missing decimals; only the product is clamped.
InRangeUnclamped(unit, text, frac) == Wrapped(ToLongLong(text.whole) * Factor[unit] + ToLongLong(frac))
InRangeSats(unit, text, frac) ==
  LET whole == ToLongLong(text.whole)
  IN IF whole > MaxInt64 \div Factor[unit] THEN MaxInt64 ELSE Wrapped(whole * Factor[unit] + ToLongLong(frac))
DisplayToSatsUnpadded(unit, text) == InRangeSats(unit, text, text.frac)
DisplayToSats(unit, text) ==
  InRangeSats(unit, text, text.frac * (IF text.digits < Decimals[unit] THEN 10^(Decimals[unit] - text.digits) ELSE 1))

\* In SAT only the digits count: a decimal point is dropped like a separator.
FromDisplay(unit, text) ==
  IF unit = "SAT"
  THEN ToLongLong(FoldLeft(LAMBDA n, digit : 10 * n + digit, text.whole * 10^text.digits + text.frac, text.more))
  ELSE DisplayToSats(unit, Sanitize(unit, text))

Texts == {x \in [whole : (0..4) \cup {MaxInt64 + 1}, digits : 0..3, frac : 0..999, more : {<< >>, <<3>>}] :
            x.frac < 10^x.digits}
Figures == [tx : WalletTxs] \cup [sats : 0..MaxAmount] \cup [text : Texts]

Init == figure \in Figures

----------------------------------------------------------------------------
(* Properties *)

Directed(s, direction) == Total(Those(s, LAMBDA a : a.direction = direction))

\* What the activity page lists for a transaction adds up to its effect on the
\* balance: sends and the fee against receipts, whoever paid for the inputs,
\* and the flow page knows the same fee and the same outputs.
ActivityAddsUp ==
  "tx" \in DOMAIN figure =>
    LET t == figure.tx
        impact == Credit(t) - Debit(t)
        actions == Actions(t)
    IN /\ Listed(t) => impact = Directed(actions, "receive") - Directed(actions, "send")
                                - (IF AllFromWallet(t) THEN CHOOSE fee \in ActivityFee(t) : TRUE ELSE 0)
       /\ ActivityFee(t) # {} => FlowFee(t) = ActivityFee(t)
       /\ \A collapse \in BOOLEAN : Total(FlowOutputs(t, collapse)) = Total(t.vout)
       /\ ActivityType(t) \in {"internal", "consolidation", "split"} => {impact} = {-fee : fee \in ActivityFee(t)}

\* An amount shown in a unit reads back as the same amount.  A typed text never
\* becomes more than what was typed, and becomes less only by a part of a
\* satoshi or when it is beyond the greatest amount, whose clamp is the greatest
\* amount.  Excepted are a decimal point in SAT and, in front of a second
\* decimal point, more decimals than the unit has: the amount field takes
\* neither, and FromDisplay reads them as more.
AmountsRoundTrip ==
  /\ "sats" \in DOMAIN figure =>
       \A unit \in DOMAIN Factor : FromDisplay(unit, Format(unit, figure.sats)) = figure.sats
  /\ "text" \in DOMAIN figure =>
       \A unit \in DOMAIN Factor :
         LET text  == figure.text
             scale == 10^text.digits
             typed == (text.whole * scale + text.frac) * Factor[unit]
             read  == FromDisplay(unit, text)
         IN (IF unit = "SAT" THEN text.digits = 0 /\ text.more = << >>
                             ELSE text.more # << >> => text.digits <= Decimals[unit]) =>
              /\ read * scale <= typed
              /\ typed <= MaxInt64 * scale => typed - read * scale < scale
              /\ text.whole <= MaxInt64 /\ text.whole > MaxInt64 \div Factor[unit] => read = MaxInt64
=============================================================================
