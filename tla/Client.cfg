\* What a client relies on when it signs: an open lane of two offers, and the pure
\* calls of the SDK on bounded inputs.
SPECIFICATION ClientSpec
INVARIANTS FillSafe DuplicatesIgnored SelectorsAgree TxOneReading ProvenAuthor ChainNumbersExact RouteFailsClosed SignInFresh ReadsAlike QuotesFair
SYMMETRY LaneSymmetry
CHECK_DEADLOCK FALSE
CONSTANTS
  None = None
  CSD = CSD
  A = A
  B = B
  C = C
  D = D
  TRS = TRS
  TOK = TOK
  USD = USD
  o1 = o1
  o2 = o2
  f1 = f1
  f2 = f2
  f3 = f3
  f4 = f4
  x1 = x1
  x2 = x2
  y1 = y1
  NaN = NaN
  NoAddr = NoAddr
  alice = alice
\* the sets of actors, ids and inputs
  Addrs = {A, B, C, TRS}
  TREASURY_ADDR = TRS
  Tickers = {TOK}
  Names = {alice}
  OfferIds = {o1, o2}
  BidIds = {}
  FclaimIds = {f1, f2}
  AnchorIds = {1}
  Salts = {}
  Contents = {}
  OfferTerms = {}
  Expiries = {0, 1, 2, 3, 4, 5, 6}
  PaidTo <- LanePays
  Payments = {0}
  MaxHeight = 7
  MaxPos = 9
  MaxGap = 1
  BaseHeight = 5
  LaneOffers <- Lanes
  Buyers = {B, C}
  CancelIds = {y1}
  FillIds = {x1}
  AskAhead = 1
  Txs <- ClientTxs
  Headers <- ClientHeaders
  Bodies <- ClientBodies
  Blocks <- ClientBlocks
  Words <- ClientWords
  Contenders <- ClientContenders
  Tips <- ClientTips
  Messages <- ClientMessages
  SignIns <- ClientSignIns
  Uris <- ClientUris
  Spends <- ClientSpends
  Orders <- ClientOrders
  TimeOf <- Times
  AddressOf <- Accounts
  KeyOf <- Keys
  AmountOf <- Numbers
  ShortTexts <- Short
  LoneSurrogate <- Lone
  HugeAsJs <- AsJs
  HugeAsDigits <- AsDigits
  Utf16Rank <- ByUtf16
  Utf8Rank <- ByUtf8
  CoinOwner <- Coins
  Nonces <- NonceTexts
  SafeIntegers <- Ints
  SmallIntegers <- Ints
  ProfileKeys <- ProfileNames
\* the parameters of the convention and of the chain
  EPOCH_LEN = 2
  CLAIM_WINDOW_BLOCKS = 1
  CLAIM_WINDOW_BLOCKS_V20 = 3
  CLAIM_FILL_GRACE_BLOCKS = 1
  CLAIM_COOLDOWN_BLOCKS = 1
  MAX_ACTIVE_CLAIMS = 1
  FCLAIM_MAX_EPOCH_AHEAD = 2
  MAX_OFFER_EPOCHS = 0
  MAX_SAFE_INTEGER = 50
  COMMIT_MAX_BLOCKS = 2
  REG_COMMIT_MAX_BLOCKS = 1
  REG_FINALIZE_GRACE_BLOCKS = 1
  FINALIZE_TIP_MARGIN = 1
  MAX_PENDING_REG = 1
  NAME_TERM_EPOCHS = 2
  NAME_GRACE_EPOCHS = 1
  NAME_PREMIUM_START = 4
  NAME_PREMIUM_DECAY_EPOCHS = 1
  NAME_FEE <- NameFees
  DEPLOY_FEE = 1
  FEE_BPS = 100
  FEE_BPS_V16 = 150
  REBATE_FLAT = 1
  REBATE_BPS = 10
  FILL_TIP_MARGIN = 1
  FEE_GATE_MARGIN_BLOCKS = 2
  CLAIM_MIN_DEPTH = 1
  CLAIM_DEPTH_SPARE = 1
  CLAIM_ODDS = 4
  INITIAL_REWARD = 1
  HALVING_INTERVAL = 20
  MAX_HALVINGS = 2
  BYTE = 4
  TARGET_BYTES = 5
  POW_LIMIT_BITS = 336
  MAX_WORK = 200
  W32 = 1
  W64 = 1
  W256 = 1
  W160 = 1
  MAX_TX_BYTES = 24
  MAX_TX_INPUTS = 2
  MAX_TX_OUTPUTS = 2
  TARGET_BLOCK_SECS = 4
  HOUR = 10
  DEFAULT_FUTURE_SKEW = 2
  PROFILE_MAX_KEYS = 1
  TIME_SCALE = 10
  EXP_SCALE = 10
  MAX_EPOCHS = 50
  BPS = 10
\* the activation heights
  ACTIVATION_HEIGHT = 1  V11_HEIGHT = 1  V12_HEIGHT = 1  V13_HEIGHT = 1
  V14_HEIGHT = 1  V15_HEIGHT = 1  V16_HEIGHT = 2  V17_HEIGHT = 2
  V18_HEIGHT = 2  V19_HEIGHT = 2  V20_HEIGHT = 5  V21_HEIGHT = 3
  V22_HEIGHT = 4  V23_HEIGHT = 4  V24_HEIGHT = 4  V25_HEIGHT = 4
  V26_HEIGHT = 4  V27_HEIGHT = 4  V28_HEIGHT = 5  V29_HEIGHT = 6
