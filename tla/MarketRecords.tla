---------------------------- MODULE MarketRecords ----------------------------
(***************************************************************************)
(* The market records carried by Proposes: offer, bid, the bulk cancel     *)
(* ocancel, and the fclaim that grants an exclusive hold                   *)
(* (resolve/market.ts).                                                    *)
(***************************************************************************)
EXTENDS ResolveContext

CONSTANTS OfferTerms,   \* give, want, payto, taker, min and bid of the offers
          Expiries      \* expires_epoch values a Propose may carry

\* The offers parseRecord lets through: give and want differ, and only a
\* CSD-priced token offer carries a min, between 1 and the price.
OfferShape(x) ==
  /\ x \in [give : [asset : Tickers \cup Names, amount : Nat \ {0}],
            want : [asset : Tickers \cup {CSD}, amount : Nat],
            payto : Addrs \cup {None}, taker : Addrs \cup {None},
            min : Nat, bid : BidIds \cup {None}]
  /\ x.give.asset # x.want.asset
  /\ x.min # 0 => /\ x.give.asset \in Tickers /\ x.want.asset = CSD
                  /\ x.min <= x.want.amount

ASSUME OfferTermsAssumption ==
  /\ \A x \in OfferTerms : OfferShape(x)
  /\ Expiries \subseteq Nat

-----------------------------------------------------------------------------
\* offerEnvelopeRefusal: the rules that read only the record and its Propose.
offerEnvelopeOk(terms, who, expires) ==
  LET wantIsToken == isTokenWant(terms.want)
  IN /\ wantIsToken \/ terms.min # 0 \/ terms.bid # None => height >= V12_HEIGHT
     /\ ~wantIsToken /\ terms.taker = None =>
           height < V13_HEIGHT \/ height >= V17_HEIGHT
     /\ (IF terms.payto = None THEN who ELSE terms.payto) # TREASURY_ADDR
     /\ expires <= MAX_SAFE_INTEGER
     /\ epochOf(height) <= expires
     /\ height >= V21_HEIGHT /\ height < V22_HEIGHT =>
           expires - epochOf(height) <= MAX_OFFER_EPOCHS
     /\ isNameGive(terms.give) => height >= V11_HEIGHT

\* A claimed name may be sold once its anchor out-ages the reveal window; a
\* bought one at once.  The lease must outlive the offer.
nameOfferable(n, who, expires) ==
  /\ n.owner = who
  /\ ~n.pending
  /\ ~n.locked
  /\ height >= V13_HEIGHT /\ ~n.viaFill =>
        height - n.effHeight >
          (IF height >= V27_HEIGHT THEN REG_COMMIT_MAX_BLOCKS ELSE COMMIT_MAX_BLOCKS)
  /\ height >= V15_HEIGHT => paidThrough(n) >= expires

\* avail, locked, offerLock, names: the give side leaves the seller's hands.
lockGive(id, give, who, expires) ==
  IF isNameGive(give)
    THEN /\ nameOfferable(names[give.asset], who, expires)
         /\ names' = [names EXCEPT ![give.asset].locked = TRUE]
         /\ UNCHANGED <<avail, locked, offerLock>>
    ELSE /\ tokens[give.asset].deployer # None
         /\ avail[give.asset][who] >= give.amount
         /\ avail' = addBal(avail, give.asset, who, -give.amount)
         /\ locked' = addBal(locked, give.asset, who, give.amount)
         /\ offerLock' = [offerLock EXCEPT ![id] = give.amount]
         /\ UNCHANGED names

applyOffer(id, who, terms, expires) ==
  /\ offers[id].status = "none"
  /\ offerEnvelopeOk(terms, who, expires)
  /\ lockGive(id, terms.give, who, expires)
  /\ offers' = [offers EXCEPT ![id] = [NoOffer EXCEPT !.status = "open",
                  !.seller = who, !.terms = terms, !.expiresEpoch = expires,
                  !.height = height]]
  /\ bids' = [b \in BidIds |->
                IF b = terms.bid /\ bids[b].status # "none"
                  THEN [bids[b] EXCEPT !.offers = @ \cup {id}] ELSE bids[b]]
  /\ UNCHANGED <<tokens, feesPaid, fclaims, pendingCancels, commits, recaptures>>

applyBid(b, who, expires) ==
  /\ bids[b].status = "none"
  /\ height >= V12_HEIGHT
  /\ expires <= MAX_SAFE_INTEGER
  /\ epochOf(height) <= expires
  /\ height >= V21_HEIGHT /\ height < V22_HEIGHT =>
        expires - epochOf(height) <= MAX_OFFER_EPOCHS
  /\ bids' = [bids EXCEPT ![b] = [NoBid EXCEPT !.status = "open",
                !.bidder = who, !.expiresEpoch = expires, !.height = height]]
  /\ UNCHANGED <<tokenVars, feesPaid, offers, offerLock, fclaims,
                 pendingCancels, nameVars>>

\* A taker-bound offer anchored from V28 on is a firm quote.
FirmQuote(o) == o.terms.taker # None /\ o.height >= V28_HEIGHT

\* filter is a ticker, a name, or None for all of the sender's open offers.
applyOcancel(who, filter) ==
  /\ height >= V12_HEIGHT
  /\ pendingCancels' = pendingCancels \cup
       {[offer |-> i, at |-> height] :
          i \in {j \in OfferIds :
                   /\ Open(j) /\ offers[j].seller = who
                   /\ ~FirmQuote(offers[j])
                   /\ filter \in {None, offers[j].terms.give.asset}}}
  /\ UNCHANGED <<tokenVars, feesPaid, offers, offerLock, bids, fclaims, nameVars>>

\* The grant ladder, in the order of the code.
fclaimGranted(id, who, E) ==
  LET o == offers[id]
  IN /\ E <= MAX_SAFE_INTEGER
     /\ o.status # "none"
     /\ Open(id)
     /\ o.terms.taker = None
     /\ ~isTokenWant(o.terms.want)
     /\ E <= effExpiry(o, height)
     /\ E <= epochOf(height) + FCLAIM_MAX_EPOCH_AHEAD
     /\ epochOf(height) <= E
     /\ claimAvailable(o, who)
     /\ liveHoldCount(who) < MAX_ACTIVE_CLAIMS

\* A denied fclaim is recorded too: it is a proposal a fill can attest.
applyFclaim(f, who, id, E) ==
  /\ fclaims[f].outcome = "none"
  /\ height >= V28_HEIGHT
  /\ LET granted == fclaimGranted(id, who, E)
     IN /\ fclaims' = [fclaims EXCEPT ![f] =
             [outcome |-> IF granted THEN "granted" ELSE "denied", offer |-> id,
              proposer |-> who, expiresEpoch |-> E, height |-> height]]
        /\ offers' = IF granted
             THEN [offers EXCEPT ![id] =
                     [@ EXCEPT !.claimedBy = who, !.claimTxid = f,
                               !.claimUntilHeight = (E + 1) * EPOCH_LEN]]
             ELSE offers
  /\ UNCHANGED <<tokenVars, feesPaid, offerLock, bids, pendingCancels, nameVars>>

MarketRecord(who) ==
  \/ \E id \in OfferIds, terms \in OfferTerms, E \in Expiries :
        applyOffer(id, who, terms, E)
  \/ \E b \in BidIds, E \in Expiries : applyBid(b, who, E)
  \/ \E filter \in Tickers \cup Names \cup {None} : applyOcancel(who, filter)
  \/ \E f \in FclaimIds, id \in OfferIds, E \in Expiries : applyFclaim(f, who, id, E)
=============================================================================
