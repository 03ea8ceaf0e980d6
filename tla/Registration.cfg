\* Three addresses contest one name: registered at once in block 1, by commit,
\* reveal and finalize from V25 (2) on, reclaimed at the premium until V26 (4).
\* The two positions and two txids reach every tie of the anchor order.  The grace
\* is wider than the margins of a client's check, and the last height is past it.
SPECIFICATION Spec
INVARIANTS WinnerCanFinalize
PROPERTIES FinalizeCheckHolds FrozenReservation SettledNameKept
CHECK_DEADLOCK FALSE
SYMMETRY Claimants
CONSTANTS
  None = None
  CSD = CSD
  TRS = TRS
  A = A
  B = B
  TOK = TOK
  USD = USD
  alice = alice
  bob = bob
  ZERO_ADDR = ZERO_ADDR
  o1 = o1
  o2 = o2
  o3 = o3
  b1 = b1
  f1 = f1
  f2 = f2
  f3 = f3
  s1 = s1
  s2 = s2
  hash = hash
\* the sets of actors, ids and inputs
  Addrs = {A, B, TRS}
  TREASURY_ADDR = TRS
  Tickers = {}
  Names = {alice}
  OfferIds = {}
  BidIds = {}
  FclaimIds = {}
  AnchorIds = {1, 2}
  Salts = {s1}
  Contents = {}
  Supplies = {}
  MintLimits = {}
  Amounts = {}
  OfferTerms = {}
  Expiries = {}
  PaidTo = {}
  NameTargets = {}
  Payments = {1}
  MaxHeight = 7
  MaxPos = 2
  MaxGap = 2
\* the parameters of the convention
  EPOCH_LEN = 1
  CLAIM_WINDOW_BLOCKS = 1
  CLAIM_WINDOW_BLOCKS_V20 = 1
  CLAIM_FILL_GRACE_BLOCKS = 1
  CLAIM_COOLDOWN_BLOCKS = 1
  MAX_ACTIVE_CLAIMS = 1
  FCLAIM_MAX_EPOCH_AHEAD = 1
  MAX_OFFER_EPOCHS = 1
  MAX_SAFE_INTEGER = 50
  COMMIT_MAX_BLOCKS = 4
  REG_COMMIT_MAX_BLOCKS = 2
  REG_FINALIZE_GRACE_BLOCKS = 3
  FINALIZE_TIP_MARGIN = 1
  MAX_PENDING_REG = 1
  NAME_TERM_EPOCHS = 1
  NAME_GRACE_EPOCHS = 0
  NAME_PREMIUM_START = 4
  NAME_PREMIUM_DECAY_EPOCHS = 1
  NAME_FEE <- Fees
  DEPLOY_FEE = 1
  FEE_BPS = 100
  FEE_BPS_V16 = 150
  REBATE_FLAT = 1
  REBATE_BPS = 10
\* the activation heights
  ACTIVATION_HEIGHT = 1  V11_HEIGHT = 1  V12_HEIGHT = 1  V13_HEIGHT = 1
  V14_HEIGHT = 1  V15_HEIGHT = 1  V16_HEIGHT = 1  V17_HEIGHT = 1
  V18_HEIGHT = 1  V19_HEIGHT = 1  V20_HEIGHT = 1  V21_HEIGHT = 1
  V22_HEIGHT = 1  V23_HEIGHT = 1  V24_HEIGHT = 1  V25_HEIGHT = 2
  V26_HEIGHT = 4  V27_HEIGHT = 5  V28_HEIGHT = 5  V29_HEIGHT = 5
