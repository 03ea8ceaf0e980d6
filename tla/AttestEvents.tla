---------------------------- MODULE AttestEvents ----------------------------
(***************************************************************************)
(* The attests on an offer or a bid: cancel (score 0), the three fill      *)
(* paths (score 100), the legacy claim (score 50), and the routing of a    *)
(* fill that attests an fclaim (resolve/attest.ts).                        *)
(***************************************************************************)
EXTENDS ResolveContext

CONSTANT PaidTo   \* what an attest's own outputs may pay, per address

ASSUME PaidToAssumption == PaidTo \subseteq [Addrs -> Nat]

Taker(o) == o.terms.taker

\* A taker-bound offer admits its taker; an untaken one anybody, so far.
OpenToFiller(id, who) ==
  /\ Open(id)
  /\ Taker(offers[id]) \in {None, who}

\* Mutant of openFillAdmitted: any live claim admits any filler.
openFillAdmittedAnyone(id, who, target) ==
  LET o == offers[id]
  IN height >= V13_HEIGHT /\ Taker(o) = None =>
       /\ height >= V17_HEIGHT
       /\ ~(height >= V28_HEIGHT /\ o.claimTxid # None /\ target = id)
       /\ claimHeld(o, height)

\* openFillReject, negated: an untaken CSD-priced offer is filled only by the
\* holder of its live claim and, once an fclaim was granted on it, only by
\* attesting the fclaim.
openFillAdmitted(id, who, target) ==
  LET o == offers[id]
  IN height >= V13_HEIGHT /\ Taker(o) = None =>
       /\ height >= V17_HEIGHT
       /\ ~(height >= V28_HEIGHT /\ o.claimTxid # None /\ target = id)
       /\ claimHeld(o, height) /\ who = o.claimedBy

\* Mutants of deliverNameToBuyer: the name stays locked; it keeps pointing at
\* the seller.
deliverNameLocked(n, who, txid) ==
  names' = [names EXCEPT ![n] =
    [@ EXCEPT !.owner = who, !.addr = None, !.profile = None,
              !.effHeight = height, !.pos = pos', !.id = txid, !.viaFill = TRUE]]

\* names: a sale clears the old owner's data and, from V13, re-stamps the
\* anchor to the fill and makes it immune to displacement.
deliverNameToBuyer(n, who, txid) ==
  LET sold == [names[n] EXCEPT !.owner = who, !.locked = FALSE,
                               !.addr = None, !.profile = None]
  IN names' = [names EXCEPT ![n] =
       IF height < V13_HEIGHT THEN sold
       ELSE [sold EXCEPT !.effHeight = height, !.pos = pos', !.id = txid,
                         !.viaFill = TRUE]]

\* locked, avail, offerLock, names: the whole give side goes to the buyer.
deliverGive(id, who, txid) ==
  LET o == offers[id]
      g == o.terms.give
  IN IF isNameGive(g)
       THEN /\ nameExists(g.asset)
            /\ deliverNameToBuyer(g.asset, who, txid)
            /\ UNCHANGED <<locked, avail, offerLock>>
       ELSE /\ offerLock[id] # 0
            /\ locked' = addBal(locked, g.asset, o.seller, -offerLock[id])
            /\ avail' = addBal(avail, g.asset, who, offerLock[id])
            /\ offerLock' = [offerLock EXCEPT ![id] = 0]
            /\ UNCHANGED names

markFilled(id, who) ==
  /\ offers' = [offers EXCEPT ![id] = [@ EXCEPT !.status = "filled", !.buyer = who]]
  /\ markBidDone(offers[id], who)

-----------------------------------------------------------------------------
\* The attest carries the token-fill confidence marker; without it nothing
\* happens.  The swap is atomic: pay payto and the treasury, take the give.
applyTokenFill(id, who, txid) ==
  LET o == offers[id]
      w == o.terms.want
      g == o.terms.give
      fee == tradeFee(o, w.amount)
      paid == addBal(addBal(addBal(avail, w.asset, who, -(w.amount + fee)),
                            w.asset, paytoOf(o), w.amount),
                     w.asset, TREASURY_ADDR, fee)
  IN /\ OpenToFiller(id, who)
     /\ isTokenWant(w)
     /\ tokens[w.asset].deployer # None
     /\ avail[w.asset][who] >= w.amount + fee
     /\ IF isNameGive(g)
          THEN /\ nameExists(g.asset)
               /\ deliverNameToBuyer(g.asset, who, txid)
               /\ avail' = paid
               /\ UNCHANGED <<locked, offerLock>>
          ELSE /\ offerLock[id] # 0
               /\ locked' = addBal(locked, g.asset, o.seller, -offerLock[id])
               /\ avail' = addBal(paid, g.asset, who, offerLock[id])
               /\ offerLock' = [offerLock EXCEPT ![id] = 0]
               /\ UNCHANGED names
     /\ markFilled(id, who)
     /\ UNCHANGED <<tokens, feesPaid, fclaims, pendingCancels, commits, recaptures>>

\* Mutant of deliveredAfter: each payment is rounded on its own.
deliveredPerFill(o, paid) ==
  o.delivered + (o.terms.give.amount * (paid - o.paid)) \div o.terms.want.amount

\* What has been delivered once paid is paid, rounded in the maker's favour on
\* the running total.
deliveredAfter(o, paid) == (o.terms.give.amount * paid) \div o.terms.want.amount

\* A payment X buys its share of the give; the tail of an offer is always
\* buyable.
applyPartialFill(id, who, target, pt) ==
  LET o == offers[id]
      want == o.terms.want.amount
      remaining == want - o.paid
      X == pt[paytoOf(o)]
      x == Smaller(X, remaining)
      fee == tradeFee(o, x)
      newPaid == o.paid + x
      newDelivered == deliveredAfter(o, newPaid)
      out == newDelivered - o.delivered
      t == o.terms.give.asset
  IN /\ OpenToFiller(id, who)
     /\ ~isTokenWant(o.terms.want) /\ o.terms.min # 0
     /\ openFillAdmitted(id, who, target)
     /\ X >= Smaller(remaining, o.terms.min)
     /\ pt[TREASURY_ADDR] >= fee
     /\ out # 0
     /\ offerLock[id] # 0
     /\ locked' = addBal(locked, t, o.seller, -out)
     /\ avail' = addBal(avail, t, who, out)
     /\ feesPaid' = feesPaid + fee
     /\ LET part == [o EXCEPT !.paid = newPaid, !.delivered = newDelivered]
        IN IF newPaid = want
             THEN /\ offers' = [offers EXCEPT ![id] =
                       [part EXCEPT !.status = "filled", !.buyer = who]]
                  /\ offerLock' = [offerLock EXCEPT ![id] = 0]
                  /\ markBidDone(o, who)
             ELSE /\ offers' = [offers EXCEPT ![id] = part]
                  /\ offerLock' = [offerLock EXCEPT ![id] = @ - out]
                  /\ UNCHANGED bids
     /\ UNCHANGED <<tokens, names, fclaims, pendingCancels, commits, recaptures>>

\* What a whole CSD fill must pay address a: the price, the treasury's fee and
\* the maker's rebate, summed where they fall on one address.
fillNeeds(o, a) ==
  LET want == o.terms.want.amount
      resting == \/ Taker(o) # None /\ o.terms.bid # None
                 \/ Taker(o) = None /\ o.height >= V17_HEIGHT
      rebate == IF o.height >= V16_HEIGHT /\ resting THEN makerRebate(want) ELSE 0
  IN (IF a = paytoOf(o) THEN want ELSE 0)
       + (IF a = TREASURY_ADDR THEN tradeFee(o, want) ELSE 0)
       + (IF a = o.seller THEN rebate ELSE 0)

applyFill(id, who, target, pt, txid) ==
  LET o == offers[id]
  IN /\ OpenToFiller(id, who)
     /\ ~isTokenWant(o.terms.want) /\ o.terms.min = 0
     /\ openFillAdmitted(id, who, target)
     /\ \A a \in Addrs : pt[a] >= fillNeeds(o, a)
     /\ deliverGive(id, who, txid)
     /\ feesPaid' = feesPaid + tradeFee(o, o.terms.want.amount)
     /\ markFilled(id, who)
     /\ UNCHANGED <<tokens, fclaims, pendingCancels, commits, recaptures>>

\* The offer a fill attesting target reaches: the offer itself, or the offer
\* whose current hold target granted.  A denied or superseded fclaim has none.
routedOffers(target) ==
  {id \in OfferIds :
     \/ id = target /\ offers[id].status # "none"
     \/ /\ height >= V28_HEIGHT
        /\ target \in FclaimIds /\ fclaims[target].outcome = "granted"
        /\ id = fclaims[target].offer /\ offers[id].claimTxid = target}

FillAttest(target, who, pt, txid) ==
  \E id \in routedOffers(target) :
     \/ applyTokenFill(id, who, txid)
     \/ applyPartialFill(id, who, target, pt)
     \/ applyFill(id, who, target, pt, txid)

-----------------------------------------------------------------------------
\* Deferred to the block boundary (FlushCancel), so a fill of this block wins.
applyCancel(id, who) ==
  LET o == offers[id]
  IN /\ Open(id)
     /\ who = o.seller
     /\ ~(Taker(o) # None /\ o.height >= V28_HEIGHT)
     /\ pendingCancels' = pendingCancels \cup {[offer |-> id, at |-> height]}
     /\ UNCHANGED <<tokenVars, feesPaid, offers, offerLock, bids, fclaims, nameVars>>

cancelBid(b, who) ==
  /\ bids[b].status = "open"
  /\ who = bids[b].bidder
  /\ bids' = [bids EXCEPT ![b].status = "cancelled"]
  /\ UNCHANGED <<tokenVars, feesPaid, offers, offerLock, fclaims,
                 pendingCancels, nameVars>>

\* The claim of [V17, V28): a payment-free attest, no fclaim txid.
applyLegacyClaim(id, who) ==
  LET o == offers[id]
  IN /\ height >= V17_HEIGHT /\ height < V28_HEIGHT
     /\ Open(id)
     /\ Taker(o) = None /\ ~isTokenWant(o.terms.want)
     /\ claimAvailable(o, who)
     /\ liveHoldCount(who) < MAX_ACTIVE_CLAIMS
     /\ offers' = [offers EXCEPT ![id] =
                     [@ EXCEPT !.claimedBy = who,
                               !.claimUntilHeight = height + claimWindowAt(height)]]
     /\ UNCHANGED <<tokenVars, feesPaid, offerLock, bids, fclaims,
                    pendingCancels, nameVars>>

AttestEvent(who) ==
  \/ \E target \in OfferIds \cup FclaimIds, pt \in PaidTo, txid \in AnchorIds :
        FillAttest(target, who, pt, txid)
  \/ \E id \in OfferIds : applyCancel(id, who)
  \/ \E b \in BidIds : cancelBid(b, who)
  \/ \E id \in OfferIds : applyLegacyClaim(id, who)
=============================================================================
