--------------------------- MODULE MCWalletPages ---------------------------
(***************************************************************************)
(* The pages of one wallet, for TLC: the send form, reviewing and sending, *)
(* the activity list and the figures shown.  They share no state: a        *)
(* behaviour of this module is a behaviour of one of them, named by part,  *)
(* and the variables are that page's.                                      *)
(***************************************************************************)
EXTENDS Integers, Sequences, FiniteSets

CONSTANTS Coins, CoinValue, Dust, MaxEdits,                       \* FeeEstimates
          Kinds, MaxObjects, MaxRpc,                              \* Spending
          Txids, Requests, Known, PaysTo, Amount, MaxTip, MaxEvents, \* Activity
          MaxInputs, MaxOutputs, MaxValue, CollapseAbove, MaxAmount, MaxInt64 \* WalletFigures

\* A wallet has finitely many coins.
ASSUME CoinsAssumption == IsFiniteSet(Coins)
\* A recipient is valid with an amount above zero only (SendRecipient::isValid).
ASSUME AmountsAssumption == CoinValue \in Nat /\ Dust \in Nat \ {0}
\* Amounts are qint64.
ASSUME Int64Assumption == MaxInt64 \in Nat /\ MaxAmount <= MaxInt64
\* Wallets with keys, with an external signer, and without either
ASSUME KindsAssumption == Kinds \subseteq {"keys", "signer", "watch"}
\* The work of the activity list names transactions beside other things to do.
ASSUME TxidsAssumption == Txids \cap {"reload", "poll", "details", "statuses", "none"} = {}

\* Each page uses as many of the variables as it has.
VARIABLES part, v1, v2, v3, v4, v5, v6, v7, v8, v9, v10, v11, v12, v13, v14, v15, v16

vars == <<part, v1, v2, v3, v4, v5, v6, v7, v8, v9, v10, v11, v12, v13, v14, v15, v16>>

Fees == INSTANCE FeeEstimates WITH
         rows <- v1, current <- v2, maximum <- v3, dying <- v4, selected <- v5, previous <- v6,
         unspent <- v7, locked <- v8, listed <- v9, target <- v10, custom <- v11, fee <- v12,
         requests <- v13, sent <- v14, stopping <- v15, edits <- v16
Sends == INSTANCE Spending WITH
         wallet <- v1, unlocker <- v2, work <- v3, draft <- v4, tx <- v5, psbt <- v6, canSend <- v7,
         canBroadcast <- v8, page <- v9, bump <- v10, bumpable <- v11, file <- v12, committed <- v13,
         asked <- v14, made <- v15, rpcs <- v16
List == INSTANCE Activity WITH
         wallet <- v1, notes <- v2, requests <- v3, pending <- v4, job <- v5, records <- v6,
         retry <- v7, lastTip <- v8, detail <- v9, rows <- v10, proxy <- v11, flags <- v12,
         events <- v13
Figures == INSTANCE WalletFigures WITH
         figure <- v1

\* The first transaction pays a request.
MCPaysTo == [t \in Txids |-> IF t = "t1" THEN "r1" ELSE "r0"]
MCAmount == [t \in Txids |-> IF t = "t1" THEN 1 ELSE 2]

UnusedByList == v14 = 0 /\ v15 = 0 /\ v16 = 0
UnusedByFigures == v2 = 0 /\ v3 = 0 /\ v4 = 0 /\ v5 = 0 /\ v6 = 0 /\ v7 = 0 /\ v8 = 0 /\ v9 = 0 /\ v10 = 0 /\ v11 = 0
           /\ v12 = 0 /\ v13 = 0

Init ==
  \/ part = "fees" /\ Fees!Init
  \/ part = "sends" /\ Sends!Init
  \/ part = "list" /\ List!Init /\ UnusedByList
  \/ part = "figures" /\ Figures!Init /\ UnusedByFigures /\ UnusedByList

FeesStep == part = "fees" /\ Fees!Next /\ UNCHANGED part
SendsStep == part = "sends" /\ Sends!Next /\ UNCHANGED part
ListStep == part = "list" /\ List!ActivityNext /\ UNCHANGED <<part, v14, v15, v16>>

Next == FeesStep \/ SendsStep \/ ListStep

Spec == Init /\ [][Next]_vars

----------------------------------------------------------------------------
(* Properties *)

\* The fee and the maximum shown belong to the form (requestFeeEstimates).
FeeFollowsForm == part = "fees" => Fees!FeeFollowsForm
\* Closing the coin picker brings no spent coin back (cancelSelection).
SelectedCoinsAreListed == part = "fees" => Fees!SelectedCoinsAreListed
\* Only approved and signed transactions are committed (sendTransaction).
CommittedWasApproved == part = "sends" => Sends!CommittedWasApproved
\* The GUI locks again what it unlocked (WalletUnlock).
GuiUnlockIsUndone == part = "sends" => Sends!GuiUnlockIsUndone
\* The activity list follows the wallet (TransactionActivityModel).
ActivityFollowsWallet == part = "list" => List!ActivityFollowsWallet
\* A transaction's activities add up to its effect on the balance
\* (TransactionActivity, TransactionFlow).
ActivityAddsUp == part = "figures" => Figures!ActivityAddsUp
\* Amounts shown read back as the same amounts (BitcoinAmount).
AmountsRoundTrip == part = "figures" => Figures!AmountsRoundTrip
=============================================================================
