--------------------------- MODULE ClientSelectors ---------------------------
(***************************************************************************)
(* The pure selectors a client takes from types.ts: the resolver's height  *)
(* rules turned around, to plan a hold or a fill.                          *)
(***************************************************************************)
EXTENDS CairnXTypes, FiniteSetsExt

CONSTANTS FILL_TIP_MARGIN, FEE_GATE_MARGIN_BLOCKS

\* How the source's numbers fit together: a window and its grace end within the
\* epochs an fclaim may reach ahead, windows and fees only grow at a gate, and the
\* fee gates are further apart than the margin.
ASSUME SelectorAssumption ==
  /\ FILL_TIP_MARGIN \in Nat /\ FEE_GATE_MARGIN_BLOCKS \in Nat
  /\ CLAIM_WINDOW_BLOCKS <= CLAIM_WINDOW_BLOCKS_V20
  /\ CLAIM_WINDOW_BLOCKS_V20 + CLAIM_FILL_GRACE_BLOCKS
       \in 1 .. FCLAIM_MAX_EPOCH_AHEAD * EPOCH_LEN
  /\ MAX_ACTIVE_CLAIMS > 0
  /\ V18_HEIGHT + FEE_GATE_MARGIN_BLOCKS <= V24_HEIGHT
  /\ \A n \in Names : /\ NAME_FEE["ens"][n] <= NAME_FEE["V18"][n]
                      /\ NAME_FEE["V18"][n] <= NAME_FEE["V24"][n]

FCLAIM_WINDOW_MIN == CLAIM_WINDOW_BLOCKS_V20 + CLAIM_FILL_GRACE_BLOCKS + 1

\* The window behind a stored deadline.  An fclaim's deadline is rounded up to
\* an epoch, so only a bound is known.
claimWindowOf(until, claimTxid) ==
  IF claimTxid # None THEN FCLAIM_WINDOW_MIN
  ELSE IF until - CLAIM_WINDOW_BLOCKS_V20 >= V20_HEIGHT THEN CLAIM_WINDOW_BLOCKS_V20
  ELSE CLAIM_WINDOW_BLOCKS

\* The epoch a client asks its hold to end in.
fclaimEpochFor(tipHeight, offerExpires) ==
  Smaller(epochOf(tipHeight + CLAIM_WINDOW_BLOCKS_V20 + CLAIM_FILL_GRACE_BLOCKS), offerExpires)

\* Mutant of offerExpiryHeightOf: the cap of the first era binds below its gate.
offerExpiryHeightOfCapped(expires, anchor) ==
  LET raw == (expires + 1) * EPOCH_LEN
  IN IF anchor >= V22_HEIGHT THEN raw
     ELSE Smaller(raw, (epochOf(anchor) + MAX_OFFER_EPOCHS + 1) * EPOCH_LEN)

\* The first height at which an offer is expired.
offerExpiryHeightOf(expires, anchor) ==
  LET raw    == (expires + 1) * EPOCH_LEN
      capped == (epochOf(anchor) + MAX_OFFER_EPOCHS + 1) * EPOCH_LEN
  IN IF anchor >= V22_HEIGHT THEN raw
     ELSE Smaller(raw, IF capped < V21_HEIGHT THEN V21_HEIGHT ELSE capped)

\* The height a name fee is priced at: just below a fee gate, the gate.
buildFeeHeight(tip) ==
  LET gates == {g \in {V18_HEIGHT, V24_HEIGHT} : tip < g /\ tip >= g - FEE_GATE_MARGIN_BLOCKS}
  IN IF gates = {} THEN tip ELSE Min(gates)

offerFillTooLate(expiresAt, tipHeight) == expiresAt - 1 < tipHeight + FILL_TIP_MARGIN
=============================================================================
