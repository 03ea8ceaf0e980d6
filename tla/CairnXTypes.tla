----------------------------- MODULE CairnXTypes -----------------------------
(***************************************************************************)
(* The constants of the CairnX convention and the pure arithmetic every    *)
(* record handler reads: packages/cairnx/src/types.ts, and the two         *)
(* predicates of packages/cairnx/src/resolve/context.ts that need no       *)
(* replay state.  Every activation height is a CONSTANT, so that a model   *)
(* can place one inside its few blocks and a theorem holds for all of      *)
(* them.  An absent optional field is None; an absent amount is 0.         *)
(***************************************************************************)
EXTENDS Integers, FiniteSets

CONSTANTS
  Addrs,          \* addresses that appear in the feed, the treasury included
  TREASURY_ADDR,
  Tickers,        \* token tickers
  Names,          \* claimable names
  CSD,            \* the native coin, as the asset of a want
  None,           \* an absent optional field
  OfferIds, BidIds, FclaimIds,   \* txids of the Proposes that carry them
  AnchorIds,      \* txids as far as their order breaks a tie between anchors
  Salts,          \* commit salts
  Contents        \* opaque metadata: profile maps and tmeta hashes

CONSTANTS
  EPOCH_LEN, CLAIM_WINDOW_BLOCKS, CLAIM_WINDOW_BLOCKS_V20,
  CLAIM_FILL_GRACE_BLOCKS, CLAIM_COOLDOWN_BLOCKS, MAX_ACTIVE_CLAIMS,
  FCLAIM_MAX_EPOCH_AHEAD, MAX_OFFER_EPOCHS, MAX_SAFE_INTEGER,
  COMMIT_MAX_BLOCKS, REG_COMMIT_MAX_BLOCKS, REG_FINALIZE_GRACE_BLOCKS,
  MAX_PENDING_REG, NAME_TERM_EPOCHS, NAME_GRACE_EPOCHS,
  NAME_PREMIUM_START, NAME_PREMIUM_DECAY_EPOCHS, NAME_FEE,
  DEPLOY_FEE, FEE_BPS, FEE_BPS_V16, REBATE_FLAT, REBATE_BPS

CONSTANTS
  ACTIVATION_HEIGHT, V11_HEIGHT, V12_HEIGHT, V13_HEIGHT, V14_HEIGHT,
  V15_HEIGHT, V16_HEIGHT, V17_HEIGHT, V18_HEIGHT, V19_HEIGHT, V20_HEIGHT,
  V21_HEIGHT, V22_HEIGHT, V23_HEIGHT, V24_HEIGHT, V25_HEIGHT, V26_HEIGHT,
  V27_HEIGHT, V28_HEIGHT, V29_HEIGHT

FeeRegimes == {"ens", "V18", "V24"}

ASSUME SetsAssumption ==
  /\ TREASURY_ADDR \in Addrs
  /\ None \notin Addrs \cup OfferIds \cup BidIds \cup FclaimIds \cup Salts
                 \cup Contents \cup Tickers \cup Names
  /\ Tickers \cap Names = {}
  /\ CSD \notin Tickers \cup Names \cup {None}
  /\ OfferIds \cap FclaimIds = {} /\ BidIds \cap (OfferIds \cup FclaimIds) = {}
  /\ AnchorIds \subseteq Nat

\* A feed is a finite list: finitely many addresses and offers appear in it.
ASSUME FiniteAssumption == IsFiniteSet(Addrs) /\ IsFiniteSet(OfferIds)

ASSUME ParametersAssumption ==
  /\ EPOCH_LEN \in Nat \ {0}
  /\ {CLAIM_WINDOW_BLOCKS, CLAIM_WINDOW_BLOCKS_V20, CLAIM_FILL_GRACE_BLOCKS,
      CLAIM_COOLDOWN_BLOCKS, MAX_ACTIVE_CLAIMS, FCLAIM_MAX_EPOCH_AHEAD,
      MAX_OFFER_EPOCHS, MAX_SAFE_INTEGER, COMMIT_MAX_BLOCKS,
      REG_COMMIT_MAX_BLOCKS, REG_FINALIZE_GRACE_BLOCKS, MAX_PENDING_REG,
      NAME_TERM_EPOCHS, NAME_GRACE_EPOCHS, DEPLOY_FEE, FEE_BPS,
      FEE_BPS_V16, REBATE_FLAT, REBATE_BPS} \subseteq Nat
  /\ {NAME_PREMIUM_START, NAME_PREMIUM_DECAY_EPOCHS} \subseteq Nat \ {0}
  /\ NAME_FEE \in [FeeRegimes -> [Names -> Nat]]

ASSUME GatesAssumption ==
  /\ ACTIVATION_HEIGHT \in Nat \ {0}
  /\ {V11_HEIGHT, V12_HEIGHT, V13_HEIGHT, V14_HEIGHT, V15_HEIGHT,
      V16_HEIGHT, V17_HEIGHT, V18_HEIGHT, V19_HEIGHT, V20_HEIGHT,
      V21_HEIGHT, V22_HEIGHT, V23_HEIGHT, V24_HEIGHT, V25_HEIGHT,
      V26_HEIGHT, V27_HEIGHT, V28_HEIGHT, V29_HEIGHT} \subseteq Nat

\* The order the source's gates keep wherever one rule relies on another.
ASSUME GateOrderAssumption ==
  /\ V17_HEIGHT <= V20_HEIGHT /\ V20_HEIGHT <= V28_HEIGHT
  /\ V13_HEIGHT <= V14_HEIGHT /\ V14_HEIGHT <= V28_HEIGHT
  /\ V13_HEIGHT <= V17_HEIGHT /\ V17_HEIGHT <= V28_HEIGHT
  /\ V21_HEIGHT <= V22_HEIGHT /\ V22_HEIGHT <= V28_HEIGHT
  /\ V11_HEIGHT <= V15_HEIGHT /\ V14_HEIGHT <= V15_HEIGHT
  /\ V15_HEIGHT <= V25_HEIGHT
  /\ V25_HEIGHT <= V26_HEIGHT /\ V25_HEIGHT <= V27_HEIGHT
  /\ V26_HEIGHT <= V28_HEIGHT /\ V27_HEIGHT <= V28_HEIGHT
  /\ V28_HEIGHT <= V29_HEIGHT

-----------------------------------------------------------------------------
(* Epochs, and the epoch an offer or a bid really ends with.               *)

Smaller(a, b) == IF a < b THEN a ELSE b

epochOf(h) == h \div EPOCH_LEN

\* The distances the source's gates and windows keep wherever one rule relies on
\* another: an anchor may be revealed no later than a listing is embargoed, those
\* of the time before the embargo are out of reach by V14, and no listing outlives
\* a lease that was granted before leases existed.
ASSUME GateDistanceAssumption ==
  /\ REG_COMMIT_MAX_BLOCKS <= COMMIT_MAX_BLOCKS
  /\ V13_HEIGHT <= ACTIVATION_HEIGHT \/ V13_HEIGHT + COMMIT_MAX_BLOCKS <= V14_HEIGHT
  /\ V15_HEIGHT <= V21_HEIGHT /\ MAX_OFFER_EPOCHS <= NAME_TERM_EPOCHS
  /\ epochOf(V21_HEIGHT) <= epochOf(V15_HEIGHT) + NAME_TERM_EPOCHS

\* e is an offer or a bid; h is the height the question is asked at.
effExpiry(e, h) ==
  IF e.height < V22_HEIGHT /\ h >= V21_HEIGHT
    THEN Smaller(e.expiresEpoch, epochOf(e.height) + MAX_OFFER_EPOCHS)
    ELSE e.expiresEpoch

-----------------------------------------------------------------------------
(* The exclusive hold of an open, CSD-priced offer.                        *)

claimWindowAt(h) ==
  IF h >= V20_HEIGHT THEN CLAIM_WINDOW_BLOCKS_V20 ELSE CLAIM_WINDOW_BLOCKS

\* The grace of a stored claim, recovered from the era of its deadline.
claimGraceOf(until, claimTxid) ==
  IF claimTxid = None /\ until - CLAIM_WINDOW_BLOCKS_V20 >= V20_HEIGHT
    THEN CLAIM_FILL_GRACE_BLOCKS ELSE 0

claimGrace(o) == claimGraceOf(o.claimUntilHeight, o.claimTxid)

claimHeld(o, h) ==
  o.claimedBy # None /\ h < o.claimUntilHeight + claimGrace(o)

\* Mutant of fclaimHeld: the freeze ends one block early.
fclaimHeldShort(o, h) == o.claimTxid # None /\ claimHeld(o, h + 1)

\* A hold granted by an fclaim, which freezes the offer against its seller.
fclaimHeld(o, h) == o.claimTxid # None /\ claimHeld(o, h)

-----------------------------------------------------------------------------
(* Fees.                                                                   *)

CeilBps(value, bps) == (value * bps + 9999) \div 10000

feeBpsAt(h) == IF h < V11_HEIGHT THEN 0
               ELSE IF h < V16_HEIGHT THEN FEE_BPS ELSE FEE_BPS_V16

\* The fee rate is captured when the offer is created: o.height.
tradeFee(o, value) ==
  IF feeBpsAt(o.height) = 0 THEN 0 ELSE CeilBps(value, feeBpsAt(o.height))

makerRebate(value) == REBATE_FLAT + CeilBps(value, REBATE_BPS)

nameRegFee(name, h) ==
  NAME_FEE[IF h >= V24_HEIGHT THEN "V24" ELSE
           IF h >= V18_HEIGHT THEN "V18" ELSE "ens"][name]

\* Mutant of expiredClaimFee: the decay is not stopped at the base fee.
expiredClaimFeeUnclamped(name, past, h) ==
  nameRegFee(name, h) *
    (1 + ((NAME_PREMIUM_START - 1) * (NAME_PREMIUM_DECAY_EPOCHS - past))
           \div NAME_PREMIUM_DECAY_EPOCHS)

expiredClaimFee(name, past, h) ==
  LET base == nameRegFee(name, h)
      left == NAME_PREMIUM_DECAY_EPOCHS - past
  IN IF left <= 0 THEN base
     ELSE base * (1 + ((NAME_PREMIUM_START - 1) * left)
                        \div NAME_PREMIUM_DECAY_EPOCHS)
=============================================================================
