\* From an empty ledger across V11, V20 and V28: a deploy, its mints and transfers,
\* an offer, the claims of both windows and the first fclaim, to the end of all.
SPECIFICATION FairSpec
INVARIANTS Conserved
PROPERTIES HoldNeverDisplaced OffersEnd CancelsResolve
CHECK_DEADLOCK FALSE
CONSTANTS
  None = None
  CSD = CSD
  TRS = TRS
  A = A
  B = B
  TOK = TOK
  USD = USD
  alice = alice
  bob = bob
  ZERO_ADDR = ZERO_ADDR
  o1 = o1
  o2 = o2
  o3 = o3
  b1 = b1
  f1 = f1
  f2 = f2
  f3 = f3
  s1 = s1
  s2 = s2
  hash = hash
\* the sets of actors, ids and inputs
  Addrs = {A, B, TRS}
  TREASURY_ADDR = TRS
  Tickers = {TOK}
  Names = {}
  OfferIds = {o1}
  BidIds = {}
  FclaimIds = {f1}
  AnchorIds = {1}
  Salts = {}
  Contents = {hash}
  Supplies = {2}
  MintLimits = {0, 1}
  Amounts = {1, 2}
  OfferTerms <- ClaimTerms
  Expiries = {2}
  PaidTo <- ClaimPays
  NameTargets = {}
  Payments = {0, 1}
  MaxHeight = 6
  MaxPos = 1
  MaxGap = 1
\* the parameters of the convention
  EPOCH_LEN = 2
  CLAIM_WINDOW_BLOCKS = 1
  CLAIM_WINDOW_BLOCKS_V20 = 2
  CLAIM_FILL_GRACE_BLOCKS = 1
  CLAIM_COOLDOWN_BLOCKS = 1
  MAX_ACTIVE_CLAIMS = 1
  FCLAIM_MAX_EPOCH_AHEAD = 1
  MAX_OFFER_EPOCHS = 1
  MAX_SAFE_INTEGER = 50
  COMMIT_MAX_BLOCKS = 0
  REG_COMMIT_MAX_BLOCKS = 0
  REG_FINALIZE_GRACE_BLOCKS = 1
  FINALIZE_TIP_MARGIN = 1
  MAX_PENDING_REG = 1
  NAME_TERM_EPOCHS = 2
  NAME_GRACE_EPOCHS = 1
  NAME_PREMIUM_START = 4
  NAME_PREMIUM_DECAY_EPOCHS = 1
  NAME_FEE <- Fees
  DEPLOY_FEE = 1
  FEE_BPS = 100
  FEE_BPS_V16 = 150
  REBATE_FLAT = 1
  REBATE_BPS = 10
\* the activation heights
  ACTIVATION_HEIGHT = 1  V11_HEIGHT = 2  V12_HEIGHT = 2  V13_HEIGHT = 2
  V14_HEIGHT = 2  V15_HEIGHT = 2  V16_HEIGHT = 2  V17_HEIGHT = 2
  V18_HEIGHT = 3  V19_HEIGHT = 2  V20_HEIGHT = 3  V21_HEIGHT = 3
  V22_HEIGHT = 3  V23_HEIGHT = 3  V24_HEIGHT = 3  V25_HEIGHT = 3
  V26_HEIGHT = 3  V27_HEIGHT = 3  V28_HEIGHT = 4  V29_HEIGHT = 5
