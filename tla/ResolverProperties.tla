------------------------- MODULE ResolverProperties -------------------------
(***************************************************************************)
(* What the resolver promises, as invariants and action properties of its  *)
(* replay.                                                                 *)
(***************************************************************************)
EXTENDS Resolver, Preflight, FiniteSetsExt

-----------------------------------------------------------------------------
(* The token ledger.                                                       *)

\* Tokens are neither created nor lost: what the holders of a ticker have,
\* free and locked, is what was minted of it, and that is within its supply.
\* It spans every path that moves a balance: mint, transfer, the lock of an
\* offer, its release, the swap with its in-kind fee, the partial fill.
Conserved ==
  \A t \in Tickers :
    /\ MapThenSumSet(LAMBDA a : avail[t][a] + locked[t][a], Addrs) = tokens[t].minted
    /\ tokens[t].minted <= tokens[t].supply

\* A seller's locked balance is exactly what its open offers still owe, and no
\* balance is negative: no release, fill or expiry returns a lock twice, and
\* none leaves a part of it behind.
LockIntegrity ==
  \A t \in Tickers, a \in Addrs :
    /\ avail[t][a] >= 0
    /\ locked[t][a] = MapThenSumSet(LAMBDA i : offerLock[i],
         {i \in OfferIds : /\ Open(i) /\ offers[i].seller = a
                           /\ offers[i].terms.give.asset = t})

\* A partially fillable offer never sells more than was paid for, its lock is
\* what is left of the give, and whoever completes the price gets the exact
\* remainder (the cumulative floor of applyPartialFill).
PartialFillExact ==
  \A i \in OfferIds :
    LET o == offers[i]
        give == o.terms.give.amount
        want == o.terms.want.amount
    IN o.terms.min # 0 =>
         /\ o.delivered * want <= give * o.paid
         /\ Open(i) => o.paid < want /\ offerLock[i] = give - o.delivered
         /\ o.status = "filled" => o.paid = want /\ o.delivered = give

\* A bid reads as done only if an offer answering it was filled by its bidder,
\* whatever order the bid, its answers and its cancel arrive in.
BidDoneSound ==
  \A b \in BidIds : bids[b].status = "done" =>
    \E i \in OfferIds : /\ offers[i].terms.bid = b
                        /\ offers[i].status = "filled"
                        /\ offers[i].buyer = bids[b].bidder

-----------------------------------------------------------------------------
(* Offers, cancels and exclusive holds.                                    *)

\* While the chain still mines a fill of a granted fclaim (its epoch has not
\* passed the fclaim's expiry), that fclaim is the offer's current hold, and
\* the offer is open with its give side in place, or already sold to the
\* holder.  So no cancel, expiry, later grant or displacement can make the
\* holder pay for nothing: delivery and payment share one deadline.
HoldPromise ==
  \A f \in FclaimIds :
    LET i == fclaims[f].offer
        o == offers[i]
        g == o.terms.give
    IN fclaims[f].outcome = "granted" /\ epochOf(height) <= fclaims[f].expiresEpoch =>
         /\ o.claimTxid = f /\ o.claimedBy = fclaims[f].proposer
         /\ claimHeld(o, height)
         /\ \/ /\ Open(i)
               /\ IF isNameGive(g) THEN names[g.asset].owner = o.seller
                                   ELSE offerLock[i] > 0
            \/ o.status = "filled" /\ o.buyer = o.claimedBy

\* A live hold is never taken over: not by a second claim, not when the claim
\* path changes at V28, not in the grace of a hold of an older era.
HoldNeverDisplaced ==
  [][\A i \in OfferIds :
       claimHeld(offers[i], height') =>
         /\ offers'[i].claimedBy = offers[i].claimedBy
         /\ offers'[i].claimTxid = offers[i].claimTxid]_vars

\* From V14 an offer is cancelled only after the last attest of its block.  A
\* seller cannot cancel in front of a payment that is in the same block, and no
\* contest withdraws a name that is on sale: a listing waits until no earlier
\* anchor can be revealed, and ends before the lease does.
FillBeatsCancel ==
  [][\A i \in OfferIds :
       Open(i) /\ offers'[i].status = "cancelled" /\ height >= V14_HEIGHT
         => phase' = "flush"]_vars

-----------------------------------------------------------------------------
(* Names.                                                                  *)

Anchored(n) == <<n.effHeight, n.pos, n.id>>

\* A name is locked exactly while one open offer sells it, that offer is its
\* owner's, the name is no mere reservation, and its lease outlives the sale: no
\* fill finds it lapsed.
NameLockSymmetry ==
  \A n \in Names :
    /\ names[n].locked <=> openNameOffers(n) # {}
    /\ Cardinality(openNameOffers(n)) <= 1
    /\ \A i \in openNameOffers(n) :
         /\ offers[i].seller = names[n].owner /\ ~names[n].pending
         /\ Settled /\ height >= V15_HEIGHT => ~lapsed(names[n], epochOf(height))

\* A reservation, of a free name or of a lapsed one, can be finalized by its
\* owner: one of its salts opens the commit the reservation is anchored at, and
\* a recapture reservation still stands beside a lapsed record.
OpenedBy(n, r) == \E s \in Salts : commits[<<n, r.owner, s>>] = r.effHeight

WinnerCanFinalize ==
  \A n \in Names :
    /\ names[n].pending => OpenedBy(n, names[n])
    /\ recaptures[n].owner # None =>
         /\ OpenedBy(n, recaptures[n])
         /\ nameExists(n) /\ ~names[n].pending
         /\ lapsed(names[n], epochOf(height))

\* Once the reveal window has passed its anchor a reservation can only be
\* finalized by its owner or run out: the fee an nfinalize carries is never
\* paid into a contest that is still open.
FrozenReservation ==
  [][\A n \in Names :
       LET r == names[n]
           s == names'[n]
           q == recaptures[n]
           z == recaptures'[n]
       IN /\ r.pending /\ height > r.effHeight + REG_COMMIT_MAX_BLOCKS
             /\ height <= r.finalizeBy /\ s # r
             => ~s.pending /\ s.owner = r.owner /\ Anchored(s) = Anchored(r)
          /\ q.owner # None /\ height > q.effHeight + REG_COMMIT_MAX_BLOCKS
             /\ height <= q.finalizeBy /\ z # q
             => z = NoRecapture /\ s.owner = q.owner /\ Anchored(s) = Anchored(q)]_vars

\* From V25 on, a registered name older than the reveal window keeps its anchor
\* and its owner unless the owner parts with it: by a transfer, which keeps the
\* anchor, or through the fill of the owner's own offer.
SettledNameKept ==
  [][\A n \in Names :
       LET r == names[n]
           s == names'[n]
       IN /\ nameExists(n) /\ ~r.pending /\ ~lapsed(r, epochOf(height))
          /\ height >= V25_HEIGHT /\ height > r.effHeight + REG_COMMIT_MAX_BLOCKS
          /\ Anchored(s) # Anchored(r)
          => \E i \in openNameOffers(n) : offers[i].seller = r.owner
                                          /\ offers'[i].status = "filled"]_vars

\* A name bought by a fill is never displaced while its lease lives, however
\* early the anchor a rival reveals; and whatever path a name changes hands by,
\* the old owner's payment target and profile go with the old owner.
BoughtNameImmune ==
  [][\A n \in Names :
       LET r == names[n]
           s == names'[n]
       IN /\ r.viaFill /\ ~lapsed(r, epochOf(height)) => s.viaFill /\ ~s.pending
          /\ s.owner # r.owner => s.addr = None /\ s.profile = None]_vars

\* The owner, the anchor and the lease of a lapsed name change only in exchange
\* for the decaying premium: an abandoned recapture, a renewal or a plain
\* registration never resets them.
PremiumPaid ==
  [][\A n \in Names :
       LET r == names[n]
           past == epochOf(height) - (paidThrough(r) + NAME_GRACE_EPOCHS)
       IN /\ nameExists(n) /\ ~r.pending /\ height >= V15_HEIGHT
          /\ lapsed(r, epochOf(height))
          /\ <<names'[n].owner, Anchored(names'[n]), paidThrough(names'[n])>>
               # <<r.owner, Anchored(r), paidThrough(r)>>
          => feesPaid' - feesPaid >= expiredClaimFee(n, past, height)]_vars

-----------------------------------------------------------------------------
(* The client's preflight against the resolver.                            *)

BlockStart == Settled /\ phase = "propose" /\ pos = 0

\* An attest of target by me that pays pt fills offer i in this block.
Sells(i, target, me, pt) ==
  /\ UNCHANGED chainVars
  /\ \E txid \in AnchorIds : FillAttest(target, me, pt, txid)
  /\ offers'[i] # offers[i]

\* And gives the filler got of its asset.
Fills(i, target, me, pt, got) ==
  LET g == offers[i].terms.give
  IN /\ Sells(i, target, me, pt)
     /\ IF isNameGive(g) THEN names'[g.asset].owner = me
                         ELSE avail'[g.asset][me] = avail[g.asset][me] + got

\* An endorsed fill that carries the outputs the client sized lands and delivers
\* what the preview said, and with one unit less on a leg a whole fill does not;
\* whatever a refused fill pays beside its payment, it does not land, whichever
\* of the two verdicts refused it.  The client
\* may ask at the height of the fill or at the tip below it: then the one
\* endorsement that fails is that of a hold whose last block was the tip.
PreflightAgrees ==
  BlockStart =>
    \A i \in OfferIds, me \in Addrs, target \in OfferIds \cup FclaimIds,
       tip \in {height - 1, height} :
      LET o == offers[i]
      IN o.status # "none" =>
           \A pay \in 0 .. o.terms.want.amount + 1 :
             LET verdict == fillEndorsement(i, o, me, pay, tip, target)
                 outs    == requiredFillOutputs(o, pay)
                 lavish  == [a \in Addrs |-> IF a = paytoOf(o) THEN pay
                                             ELSE MAX_SAFE_INTEGER]
             IN /\ /\ verdict = "endorsed"
                   /\ tip = height \/ o.claimedBy = None \/ claimHeld(o, height)
                   => /\ ENABLED Fills(i, target, me, outs, previewFill(o, pay).got)
                      /\ o.terms.min = 0 =>
                           \A a \in {b \in Addrs : outs[b] > 0} :
                             ~ENABLED Fills(i, target, me, [outs EXCEPT ![a] = @ - 1],
                                            previewFill(o, pay).got)
                /\ verdict = "refused" \/ ~fillIsSafe(o, me, pay, tip)
                     => ~ENABLED Sells(i, target, me, lavish)

\* A reservation its client found safe to finalize at some tip, checked against
\* the commit it made, is still its own for the next FINALIZE_TIP_MARGIN blocks
\* and can be finalized in each of them: the fee is sent neither into an open
\* contest nor past the deadline.
FinalizeCheckHolds ==
  [][\A n \in Names, who \in Addrs, s \in Salts, late \in 1 .. FINALIZE_TIP_MARGIN :
       finalizeWinnerCheck(names[n], who, commits[<<n, who, s>>], height - late) =>
         /\ Settled => ENABLED (/\ UNCHANGED chainVars
                                /\ \E fee \in Payments :
                                     finalizeRegistration(n, who, s, fee))
         /\ names'[n] # names[n] => names'[n].owner = who /\ ~names'[n].pending]_vars

-----------------------------------------------------------------------------
(* The contract of a listing, and what the replay owes in the end.         *)

Lane(o) == IF o.terms.taker # None THEN "quote"
           ELSE IF isTokenWant(o.terms.want) THEN "swap" ELSE "open"

\* Offer i, unless it was published before V28: then its era had other rules.
EraOffer(i) == IF offers[i].height >= V28_HEIGHT THEN offers[i] ELSE NoOffer

Contract == INSTANCE SaleContract WITH
  Listings <- OfferIds, Buyers <- Addrs, Nobody <- None,
  MaxHold <- (FCLAIM_MAX_EPOCH_AHEAD + 1) * EPOCH_LEN,
  block <- height,
  status <- [i \in OfferIds |-> EraOffer(i).status],
  lane   <- [i \in OfferIds |-> Lane(EraOffer(i))],
  taker  <- [i \in OfferIds |-> EraOffer(i).terms.taker],
  holder <- [i \in OfferIds |-> EraOffer(i).claimedBy],
  until  <- [i \in OfferIds |-> EraOffer(i).claimUntilHeight],
  buyer  <- [i \in OfferIds |-> EraOffer(i).buyer]

\* For the offers published from V28 on the resolver implements SaleContract: an
\* offer is sold only to its live holder, or to its taker, and neither changes
\* hands, nor is withdrawn, nor expires under a hold, whichever of the records,
\* attests, sweeps and deferred cancels comes next, and whatever rules the
\* replay began with.
KeepsContract == Contract!Spec

\* The replay is one process that never waits: it always reaches the next step
\* of its loops and the next block.
Fairness == WF_vars(ReplayLoop)

\* Every offer whose last epoch ends before the tip ends: filled, cancelled or
\* expired, its give side is not locked for ever.
OffersEnd ==
  \A i \in OfferIds :
    Open(i) /\ epochOf(MaxHeight) > effExpiry(offers[i], MaxHeight) ~> ~Open(i)

\* A cancel accepted from the seller ends the offer within the cancel's own
\* block, unless a granted fclaim holds it when the block ends; a legacy claim
\* does not keep the offer open.
CancelsResolve ==
  \A i \in OfferIds, h \in 1 .. MaxHeight :
    LET c == [offer |-> i, at |-> h]
    IN c \in pendingCancels
         ~> /\ height = h /\ c \notin pendingCancels
            /\ ~Open(i) \/ fclaimHeld(offers[i], h)

=============================================================================
