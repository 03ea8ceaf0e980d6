\* A partial offer of 3 TOK for 2 CSD, a quote answering a bid and a TOK-USD swap,
\* interleaved with transfers of the blocks, cancels, ocancels, claims and expiry.
SPECIFICATION MarketSpec
INVARIANTS LockIntegrity PartialFillExact PreflightAgrees
PROPERTIES FillBeatsCancel
SYMMETRY Symmetric
CHECK_DEADLOCK FALSE
CONSTANTS
  None = None
  CSD = CSD
  TRS = TRS
  A = A
  B = B
  TOK = TOK
  USD = USD
  alice = alice
  bob = bob
  ZERO_ADDR = ZERO_ADDR
  o1 = o1
  o2 = o2
  o3 = o3
  b1 = b1
  f1 = f1
  f2 = f2
  f3 = f3
  s1 = s1
  s2 = s2
  hash = hash
\* the sets of actors, ids and inputs
  Addrs = {A, B, TRS}
  TREASURY_ADDR = TRS
  Tickers = {TOK, USD}
  Names = {}
  OfferIds = {o1, o2}
  BidIds = {b1}
  FclaimIds = {f1}
  AnchorIds = {1}
  Salts = {}
  Contents = {}
  Supplies = {}
  MintLimits = {}
  Amounts = {}
  OfferTerms <- MarketTerms
  Expiries = {2}
  PaidTo <- MarketPays
  NameTargets = {}
  Payments = {0}
  MaxHeight = 3
  MaxPos = 2
  MaxGap = 1
\* the parameters of the convention
  EPOCH_LEN = 1
  CLAIM_WINDOW_BLOCKS = 1
  CLAIM_WINDOW_BLOCKS_V20 = 1
  CLAIM_FILL_GRACE_BLOCKS = 1
  CLAIM_COOLDOWN_BLOCKS = 1
  MAX_ACTIVE_CLAIMS = 1
  FCLAIM_MAX_EPOCH_AHEAD = 1
  MAX_OFFER_EPOCHS = 1
  MAX_SAFE_INTEGER = 50
  COMMIT_MAX_BLOCKS = 2
  REG_COMMIT_MAX_BLOCKS = 1
  REG_FINALIZE_GRACE_BLOCKS = 1
  FINALIZE_TIP_MARGIN = 1
  MAX_PENDING_REG = 1
  NAME_TERM_EPOCHS = 2
  NAME_GRACE_EPOCHS = 1
  NAME_PREMIUM_START = 4
  NAME_PREMIUM_DECAY_EPOCHS = 1
  NAME_FEE <- Fees
  DEPLOY_FEE = 1
  FEE_BPS = 100
  FEE_BPS_V16 = 150
  REBATE_FLAT = 1
  REBATE_BPS = 10
\* the activation heights
  ACTIVATION_HEIGHT = 1  V11_HEIGHT = 1  V12_HEIGHT = 1  V13_HEIGHT = 1
  V14_HEIGHT = 1  V15_HEIGHT = 1  V16_HEIGHT = 1  V17_HEIGHT = 1
  V18_HEIGHT = 1  V19_HEIGHT = 1  V20_HEIGHT = 1  V21_HEIGHT = 1
  V22_HEIGHT = 1  V23_HEIGHT = 1  V24_HEIGHT = 1  V25_HEIGHT = 1
  V26_HEIGHT = 1  V27_HEIGHT = 1  V28_HEIGHT = 1  V29_HEIGHT = 1
