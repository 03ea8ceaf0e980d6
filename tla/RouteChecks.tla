---------------------------- MODULE RouteChecks ----------------------------
(***************************************************************************)
(* What a service asks of an RPC backend before it may win routing         *)
(* (light/src/route.ts).  A number may be NaN, any that is not finite; the *)
(* header's hash is the number its nonce was ground for.                   *)
(***************************************************************************)
EXTENDS HeaderCodec

CONSTANTS NaN, TARGET_BLOCK_SECS

isNum(x) == x # NaN

\* Mutant of positive: a number below 1 is taken as it is.
positiveRaw(x, dflt) == IF isNum(x) THEN x ELSE dflt

positive(x, dflt) == IF isNum(x) /\ x > 0 THEN x ELSE dflt

headerHash(h) == h.nonce

tipHeaderPowOk(h, claimedTipHash) ==
  /\ isNum(h.bits)
  /\ headerHash(h) = claimedTipHash
  /\ powOk(headerHash(h), h.bits)

\* The blocks wall-clock time allows since the local tip.
staleBlocks(o) ==
  IF isNum(o.localTime) /\ isNum(o.nowSecs)
    THEN Max({0, (o.nowSecs - o.localTime) \div Max({1, positive(o.blockSecs, TARGET_BLOCK_SECS)})})
    ELSE 0

hasAnchor(o) == isNum(o.localHeight) /\ o.localHeight >= positive(o.anchorFloor, 0)

\* A contender whose header passed tipHeaderPowOk, against the own chain.
contenderPlausible(o) ==
  o.enabled /\ hasAnchor(o) =>
    /\ isNum(o.claimedHeight)
    /\ o.claimedHeight <= o.localHeight + positive(o.maxAhead, 0) + staleBlocks(o)
    /\ isNum(o.contenderBits) /\ bitsToTarget(o.contenderBits) > 0
    /\ LET expected == IF isNum(o.expectedLocalBits) THEN bitsToTarget(o.expectedLocalBits) ELSE 0
           eased    == expected * Max({1, positive(o.maxEase, 1)})
       IN expected > 0 => bitsToTarget(o.contenderBits) <= Min({eased, POW_LIMIT_TARGET})
=============================================================================
