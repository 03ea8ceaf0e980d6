------------------------------- MODULE Quotes -------------------------------
(***************************************************************************)
(* The market maker's sizing and pricing (cairnx/src/mm).  Not consensus:  *)
(* the maker and the site share it, so that a spend the site sizes is one  *)
(* the maker accepts.  The fixed-point scales are constants, small enough  *)
(* for the checker's integers; a refusal is None.                          *)
(***************************************************************************)
EXTENDS Integers, Sequences, SequencesExt, FiniteSetsExt

CONSTANTS None,
          TIME_SCALE, EXP_SCALE,   \* 10^12 and 10^6 in the code
          MAX_EPOCHS, BPS          \* 20000 and 10000

FIX   == TIME_SCALE * EXP_SCALE
FIX30 == FIX * TIME_SCALE

ceilDiv(a, b) == (a + b - 1) \div b

-----------------------------------------------------------------------------
(* size.ts: an indicative ladder of [size, pricePerUnit], cheapest first.  *)

asLevels(levels) == SelectSeq(levels, LAMBDA l : l.size > 0 /\ l.pricePerUnit > 0)

tierFor(levels, tokBase, unit) ==
  LET fits == {i \in DOMAIN asLevels(levels) : asLevels(levels)[i].size * unit >= tokBase}
  IN IF tokBase <= 0 \/ fits = {} THEN None ELSE asLevels(levels)[Min(fits)]

\* What the spend buys on rung l: what its price gives, or the whole rung when
\* the spend covers it; 0 when neither.
sizedAt(l, csdBase, unit) ==
  LET cap == l.size * unit
      tok == (csdBase * unit) \div l.pricePerUnit
  IN IF tok <= cap THEN tok ELSE IF (csdBase * unit) \div cap >= l.pricePerUnit THEN cap ELSE 0

\* The most tokens a spend buys; nothing unless some rung fits it exactly.
sizeBid(csdBase, unit, levels, minBidCsd, inventoryBase) ==
  LET lvls  == asLevels(levels)
      price(l) == (csdBase * unit) \div l.pricePerUnit
      exact == {l \in Range(lvls) : price(l) <= l.size * unit}
      best  == Max({sizedAt(l, csdBase, unit) : l \in Range(lvls)})
  IN IF \/ csdBase <= 0 \/ csdBase < minBidCsd
        \/ exact = {} \/ \E l \in Range(lvls) : price(l) <= 0
        \/ inventoryBase # None /\ best > inventoryBase
       THEN None ELSE best

\* The price per token the maker needs, or None when it refuses the bid.
acceptBid(csdBase, tokBase, levels, ref, marginBps, have, remainingEpochs, unit) ==
  LET tier == tierFor(levels, tokBase, unit)
      floorAccept == ref + (ref * marginBps) \div BPS
      needUnit == Max({floorAccept, tier.pricePerUnit})
  IN IF \/ tokBase <= 0 \/ csdBase <= 0 \/ remainingEpochs < 2
        \/ have # None /\ tokBase > have
        \/ tier = None
        \/ (csdBase * unit) \div tokBase < needUnit
       THEN None ELSE needUnit

-----------------------------------------------------------------------------
(* curve.ts and sunrise.ts: an order costs the integral of the spot curve. *)

sunriseTimeMult(rateBps, epochs) ==
  FoldLeft(LAMBDA m, k : (m * (BPS + rateBps)) \div BPS, TIME_SCALE,
           [k \in 1 .. Min({Max({epochs, 0}), MAX_EPOCHS}) |-> k])

\* e^z - 1: the terms of the series until one is 0.
expm1Scaled(z) ==
  LET next(acc, i) == LET term == (acc.term * z) \div (i * FIX)
                      IN [term |-> term, sum |-> acc.sum + term]
  IN FoldLeft(next, [term |-> FIX, sum |-> 0], [i \in 1 .. 20 |-> i]).sum

\* The antiderivative V of the price, and what it is divided by.  The price is
\* flat from s on: where the curve reaches the cap, else from E.
curveOf(p, epochs) ==
  LET aNum   == p.p0 * sunriseTimeMult(p.rateBps, epochs)
      capNum == p.p0 * p.capMult * TIME_SCALE
      g(y)   == expm1Scaled((p.kScaled * y * TIME_SCALE) \div p.E)
      priceNum(y) == aNum * (FIX + g(y))
      capped == {y \in 0 .. p.E : priceNum(y) >= capNum * FIX}
      s      == IF capped = {} THEN p.E ELSE Min(capped)
      flat   == IF capped = {} THEN priceNum(p.E) ELSE capNum * FIX
      V(x)   == IF x <= s THEN aNum * p.E * EXP_SCALE * g(x)
                ELSE aNum * p.E * EXP_SCALE * g(s) + flat * p.kScaled * (x - s)
  IN IF p.kScaled = 0 \/ p.E = 0
       THEN [V |-> [x \in 0 .. p.room |-> Min({aNum, capNum}) * x], D |-> TIME_SCALE * p.U]
       ELSE [V |-> [x \in 0 .. p.room |-> V(x)], D |-> p.kScaled * p.U * FIX30]

\* Mutant of orderCost: rounded down.
orderCostDown(c, q, n) == (c.V[q + n] - c.V[q]) \div c.D

\* What n tokens cost from q on, c the curve.
orderCost(c, q, n) == ceilDiv(c.V[q + n] - c.V[q], c.D)

\* With the margin, and never below the floor per token.
answerPrice(c, p, q, n) ==
  LET mult == BPS + p.marginBps
  IN Max({ceilDiv(orderCost(c, q, n) * mult, BPS),
          ceilDiv(p.floorPerToken * n * mult, p.U * BPS)})

\* The largest n in 0 .. room whose answer is within the budget, by bisection.
sunriseTokensFor(c, p, q, budget, room) ==
  LET halve(r, k) ==
        LET mid == (r.lo + r.hi + 1) \div 2
        IN IF r.lo >= r.hi THEN r
           ELSE IF answerPrice(c, p, q, mid) <= budget THEN [r EXCEPT !.lo = mid]
           ELSE [r EXCEPT !.hi = mid - 1]
  IN FoldLeft(halve, [lo |-> 0, hi |-> room], [k \in 1 .. room |-> k]).lo

-----------------------------------------------------------------------------
(* notional.ts and allin.ts: the volume of a fill, and what a taker pays.  *)

\* rebate is what the maker is owed when it is paid at the selling address.
tradeNotional(want, paid, rebate, selfPaid) ==
  LET notional == IF want > 0 /\ paid > want THEN want ELSE paid
      extra    == paid - notional
      back     == IF selfPaid THEN Min({rebate, extra}) ELSE 0
  IN [notional |-> notional, rebate |-> back, change |-> extra - back]

rfqFillAllIn(n, tradeFee, makerRebate, attestFee) == n + tradeFee + makerRebate + attestFee
=============================================================================
