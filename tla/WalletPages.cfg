\* The pages of a wallet: a send form with two coins, two transactions reviewed
\* in each kind of wallet, two transactions in the activity list, and all small
\* transactions and amounts.
SPECIFICATION Spec
CONSTANTS
  Coins = {c1, c2}
  CoinValue = 10
  Dust = 2
  MaxEdits = 3
  Kinds = {"keys", "signer", "watch"}
  MaxObjects = 2
  MaxRpc = 1
  Txids = {"t1", "t2"}
  Requests = {"r1"}
  Known = {"t1"}
  PaysTo <- MCPaysTo
  Amount <- MCAmount
  MaxTip = 2
  MaxEvents = 2
  MaxInputs = 2
  MaxOutputs = 2
  MaxValue = 2
  CollapseAbove = 1
  MaxAmount = 300
  MaxInt64 = 350
INVARIANTS
  FeeFollowsForm
  SelectedCoinsAreListed
  CommittedWasApproved
  GuiUnlockIsUndone
  ActivityFollowsWallet
  ActivityAddsUp
  AmountsRoundTrip
CHECK_DEADLOCK FALSE
