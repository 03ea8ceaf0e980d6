\* Two inclusion checks share a client that syncs and reorgs between their awaits.
SPECIFICATION Spec
INVARIANTS TypeOK ProofIsOfOneChain
PROPERTIES OnlyHeavierReplaces
SYMMETRY CallersSwap
CONSTANTS
  Nobody = Nobody
  NoHash = NoHash
  c1 = c1
  c2 = c2
\* the headers and the rules
  Headers <- Tree
  GENESIS = 1
  PrevOf <- Prev
  TimeOf <- Time
  BitsOf <- Bits
  PowOk <- Tree
  WorkOf <- Work
  Compact <- Rounded
  MAX_U128 = 15
  POW_LIMIT = 16
  TARGET_BLOCK_SECS = 4
  LWMA_SOLVETIME_MAX_FACTOR = 3
  LWMA_WINDOW = 2
  MTP_WINDOW = 2
  MIN_BLOCK_SPACING_SECS = 1
  MAX_FUTURE_DRIFT_SECS = 1
\* what the callers may ask for and what may be served
  Callers = {c1, c2}
  Served <- MixedRuns
  SyncTargets = {}
  SeedPoints = {}
  TxHeights = {2, 3, 4}
  Formats = {}
  Stored = {}
  Clocks = {20}
  Checkpoints <- NoPins
  MAX_SYNC_GAP = 3
  MaxHeight = 5
  HonestTip = 6
