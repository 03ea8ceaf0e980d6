\* A payment from the list of coins to its confirmations, against a node that
\* lies about coins, fails, rejects, and reorganizes.
SPECIFICATION FairSpec
INVARIANTS NothingBurned SentOnce
PROPERTIES ConfirmedOnOneChain WaitEnds
CHECK_DEADLOCK FALSE
CONSTANTS
  w = w
  x = x
  y = y
  z = z
  Coins = {w, x, y, z}
  NoMaxFee = NoMaxFee
  ValueOf <- Values
  Listings <- Lists
  Orders <- SomeOrders
  Retries = 1
  MAX_SAFE_INTEGER = 12
  MAX_TX_INPUTS = 2
  MAX_TX_OUTPUTS = 2
  MIN_FEE_PROPOSE = 2
  MIN_FEE_ATTEST = 2
  MAX_FEE_BACKSTOP = 2
  MAX_FEE_DIVISOR = 4
  MAX_SELECT_ROUNDS = 2
  Depths = {1, 2}
  MaxTip = 4
  MaxReorgs = 1
