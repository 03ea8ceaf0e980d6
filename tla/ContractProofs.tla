--------------------------- MODULE ContractProofs ---------------------------
(***************************************************************************)
(* Theorems about holds and listings from V28 on: a granted hold is kept   *)
(* until its last block or until its holder has bought, and the resolver   *)
(* implements the abstract contract of a listing (SaleContract).  And one  *)
(* from V14 on: only the flush cancels an open offer, so that a fill of    *)
(* the same block wins.                                                    *)
(***************************************************************************)
EXTENDS NameProofs

-----------------------------------------------------------------------------
(* The deferred cancels.                                                   *)

\* A cancel waits for the end of its own block, and no firm quote is waiting.
PendingOk ==
  \A c \in pendingCancels :
    /\ c.at = height /\ offers[c.offer].status # "none" /\ ~FirmQuote(offers[c.offer])

\* An offer that exists keeps its terms, its seller and its height.
LEMMA TermsStay ==
  ASSUME Types, [Next]_vars, NEW i \in OfferIds, offers[i].status # "none"
  PROVE  /\ offers'[i].status # "none" /\ offers'[i].terms = offers[i].terms
         /\ offers'[i].seller = offers[i].seller /\ offers'[i].height = offers[i].height
         /\ offers'[i].expiresEpoch = offers[i].expiresEpoch
  <1>1. Moves(i) /\ offers[i] \in OfferRec
    BY StepMoves DEF Types, OfferTypes
  <1>2. CASE PartSold(i)
    <2> DEFINE o == offers[i]
    <2> PICK x \in Nat, who \in Addrs :
           LET part == [o EXCEPT !.paid = o.paid + x, !.delivered = deliveredAfter(o, o.paid + x)]
           IN offers'[i] \in {part, [part EXCEPT !.status = "filled", !.buyer = who]}
      BY <1>2 DEF PartSold
    <2>1. o.status = "open"
      BY <1>2 DEF PartSold, Open
    <2> QED BY <1>1, <2>1 DEF OfferRec
  <1>3. CASE Rests(i) \/ Claimed(i) \/ Sold(i) \/ Ended(i)
    BY <1>1, <1>3 DEF Rests, Claimed, Sold, Ended, OfferRec, Open
  <1> QED BY <1>1, <1>2, <1>3 DEF MovesOn, Moves, Published

\* What a step adds to the deferred cancels.
LEMMA NewCancels ==
  ASSUME Types, [Next]_vars
  PROVE  \/ pendingCancels = {} /\ pendingCancels' = {}
         \/ height' = height /\ \A c \in pendingCancels' \ pendingCancels :
              c.at = height /\ Open(c.offer) /\ ~FirmQuote(offers[c.offer])
  <1>1. CASE ReplayLoop
    <2>1. CASE NextBlock
      BY <2>1 DEF NextBlock, marketVars
    <2>2. CASE \E c \in pendingCancels : FlushCancel(c)
      <3>1. height' = height /\ pendingCancels' \subseteq pendingCancels
        BY <2>2 DEF FlushCancel
      <3> QED BY <3>1
    <2>3. CASE ~NextBlock /\ ~\E c \in pendingCancels : FlushCancel(c)
      <3>1. height' = height /\ pendingCancels' = pendingCancels
        BY <1>1, <2>3 DEF ReplayLoop, ExpireOffer, ExpireBid, DropReservation, DropRecapture,
                          marketVars, chainVars
      <3> QED BY <3>1
    <2> QED BY <2>1, <2>2, <2>3
  <1>2. CASE ProposeEvent
    <2> PICK who \in Addrs, p \in 1 .. MaxPos :
             Event("propose", p) /\ (TokenRecord(who) \/ MarketRecord(who) \/ NameRecord(who))
      BY <1>2 DEF ProposeEvent
    <2>1. height' = height
      BY DEF Event
    <2>2. CASE TokenRecord(who)
      BY <2>1, <2>2, TokenTypes DEF Types, marketVars
    <2>3. CASE MarketRecord(who)
      <3>1. CASE \E filter \in Tickers \cup Names \cup {None} : applyOcancel(who, filter)
        <4>1. \A c \in pendingCancels' \ pendingCancels :
                c.at = height /\ Open(c.offer) /\ ~FirmQuote(offers[c.offer])
          BY <3>1 DEF applyOcancel
        <4> QED BY <2>1, <4>1
      <3>2. CASE ~\E filter \in Tickers \cup Names \cup {None} : applyOcancel(who, filter)
        <4>1. pendingCancels' = pendingCancels
          BY <2>3, <3>2 DEF MarketRecord, applyOffer, applyBid, applyFclaim
        <4> QED BY <2>1, <4>1
      <3> QED BY <3>1, <3>2
    <2>4. CASE NameRecord(who)
      BY <2>1, <2>4, NameRecordFrame DEF NameFrame
    <2> QED BY <2>2, <2>3, <2>4
  <1>3. CASE AttestStep
    <2> PICK who \in Addrs, p \in 1 .. MaxPos : Event("attest", p) /\ AttestEvent(who)
      BY <1>3 DEF AttestStep
    <2>1. height' = height
      BY DEF Event
    <2>2. CASE \E id \in OfferIds : applyCancel(id, who)
      BY <2>1, <2>2 DEF applyCancel, FirmQuote, Taker
    <2>3. CASE ~\E id \in OfferIds : applyCancel(id, who)
      <3>1. ASSUME NEW target, NEW pt, NEW txid, FillAttest(target, who, pt, txid)
            PROVE  pendingCancels' = pendingCancels
        <4> PICK id \in OfferIds :
               \/ applyTokenFill(id, who, txid)
               \/ applyPartialFill(id, who, target, pt)
               \/ applyFill(id, who, target, pt, txid)
          BY <3>1 DEF FillAttest, routedOffers
        <4> QED BY DEF applyTokenFill, applyPartialFill, applyFill
      <3>2. pendingCancels' = pendingCancels
        BY <2>3, <3>1 DEF AttestEvent, cancelBid, applyLegacyClaim
      <3> QED BY <2>1, <3>2
    <2> QED BY <2>2, <2>3
  <1>4. CASE UNCHANGED vars
    BY <1>4 DEF vars, marketVars, chainVars
  <1> QED BY <1>1, <1>2, <1>3, <1>4 DEF Next

\* In every state the deferred cancels are of this block and of no firm quote.
LEMMA PendingInvariant == Spec => []PendingOk
  <1>1. Init => PendingOk
    BY DEF Init, PendingOk
  <1>2. Types /\ Types' /\ PendingOk /\ [Next]_vars => PendingOk'
    <2> SUFFICES ASSUME Types, Types', PendingOk, [Next]_vars, NEW c \in pendingCancels'
                 PROVE  /\ c.at = height' /\ offers'[c.offer].status # "none"
                        /\ ~FirmQuote(offers'[c.offer])
      BY DEF PendingOk
    <2>1. c.offer \in OfferIds
      BY DEF Types, MarketTypes
    <2>2. /\ c.at = height' /\ offers[c.offer].status # "none" /\ ~FirmQuote(offers[c.offer])
      BY NewCancels DEF PendingOk, Open
    <2> QED BY <2>1, <2>2, TermsStay DEF FirmQuote
  <1> QED BY <1>1, <1>2, TypesInvariant, PTL DEF Spec

-----------------------------------------------------------------------------
(* The lock of a whole offer.                                              *)

\* An open whole offer has its give locked, all of it.
WholeBooks ==
  \A i \in OfferIds :
    /\ Open(i) /\ offers[i].terms.min = 0 /\ ~isNameGive(offers[i].terms.give)
    => offerLock[i] = offers[i].terms.give.amount

\* So in every state: what publishes locks the give, and only an end releases it.
LEMMA WholeBooksInvariant == Spec => []WholeBooks
  <1>1. Init => WholeBooks
    BY DEF Init, WholeBooks, Open, NoOffer
  <1>2. Types /\ WholeBooks /\ [Next]_vars => WholeBooks'
    <2> SUFFICES ASSUME Types, WholeBooks, [Next]_vars, NEW i \in OfferIds,
                        offers'[i].status = "open", offers'[i].terms.min = 0,
                        ~isNameGive(offers'[i].terms.give)
                 PROVE  offerLock'[i] = offers'[i].terms.give.amount
      BY DEF WholeBooks, Open, isNameGive
    <2>1. Moves(i) /\ offers[i] \in OfferRec
      BY StepMoves DEF Types, OfferTypes
    <2>2. CASE Published(i)
      BY <2>2 DEF Published, NoOffer
    <2>3. CASE offers[i].status # "none"
      <3>1. offers'[i].terms = offers[i].terms
        BY <2>3, TermsStay
      <3>2. ~Sold(i) /\ ~Ended(i)
        BY <2>1 DEF Sold, Ended, OfferRec
      <3>3. ~PartSold(i)
        BY <3>1 DEF PartSold
      <3>4. Rests(i) \/ Claimed(i)
        BY <2>1, <2>3, <3>2, <3>3 DEF MovesOn, Moves, Published
      <3>5. offerLock'[i] = offerLock[i] /\ Open(i)
        BY <3>4 DEF Rests, Claimed, Open
      <3> QED BY <3>1, <3>5 DEF WholeBooks, isNameGive
    <2>4. CASE offers[i].status = "none" /\ ~Published(i)
      BY <2>1, <2>4 DEF MovesOn, Moves, Rests, Claimed, Sold, PartSold, Ended, Open
    <2> QED BY <2>2, <2>3, <2>4
  <1> QED BY <1>1, <1>2, TypesInvariant, PTL DEF Spec

-----------------------------------------------------------------------------
(* The moves of a sale from V28 on.                                        *)

\* Nothing of the sale of offer i changes; a part of its price may be paid.
SameHold(i) ==
  /\ offers'[i].claimedBy = offers[i].claimedBy
  /\ offers'[i].claimTxid = offers[i].claimTxid
  /\ offers'[i].claimUntilHeight = offers[i].claimUntilHeight

SameSale(i) ==
  /\ offers'[i].status = offers[i].status /\ offers'[i].terms = offers[i].terms
  /\ offers'[i].height = offers[i].height /\ offers'[i].buyer = offers[i].buyer
  /\ offers'[i].expiresEpoch = offers[i].expiresEpoch
  /\ SameHold(i)

\* No hold is granted.
SameFclaims ==
  \A f \in FclaimIds : fclaims'[f].outcome = "granted" => fclaims'[f] = fclaims[f]

Grants(i, f, who, E) ==
  /\ Open(i) /\ ~claimHeld(offers[i], height)
  /\ offers[i].terms.taker = None /\ ~isTokenWant(offers[i].terms.want)
  /\ epochOf(height) <= E /\ E <= epochOf(height) + FCLAIM_MAX_EPOCH_AHEAD
  /\ E <= effExpiry(offers[i], height)
  /\ offers'[i] = [offers[i] EXCEPT !.claimedBy = who, !.claimTxid = f,
                                    !.claimUntilHeight = (E + 1) * EPOCH_LEN]
  /\ fclaims[f].outcome = "none"
  /\ fclaims' = [fclaims EXCEPT ![f] =
       [outcome |-> "granted", offer |-> i, proposer |-> who, expiresEpoch |-> E,
        height |-> height]]

SoldTo(i, who) ==
  /\ Open(i) /\ offers[i].terms.taker \in {None, who}
  /\ offers[i].terms.taker = None /\ ~isTokenWant(offers[i].terms.want) =>
       claimHeld(offers[i], height) /\ who = offers[i].claimedBy
  /\ offers'[i].status = "filled" /\ offers'[i].buyer = who /\ SameHold(i)

Withdrawn(i) ==
  /\ Open(i) /\ ~fclaimHeld(offers[i], height) /\ ~FirmQuote(offers[i])
  /\ offers'[i] = [offers[i] EXCEPT !.status = "cancelled"]

RunsOut(i) ==
  /\ Open(i) /\ epochOf(height) > effExpiry(offers[i], height)
  /\ offers'[i] = [offers[i] EXCEPT !.status = "expired"]

Moved(i) ==
  \/ SameFclaims /\ (Published(i) \/ Withdrawn(i) \/ RunsOut(i) \/ \E who \in Addrs : SoldTo(i, who))
  \/ \E f \in FclaimIds, who \in Addrs, E \in Nat : Grants(i, f, who, E)

SaleStep ==
  \/ SameFclaims /\ height' = height + 1 /\ offers' = offers
  \/ SameFclaims /\ height' = height /\ \A i \in OfferIds : SameSale(i)
  \/ /\ height' = height
     /\ \E i \in OfferIds : Moved(i) /\ \A j \in OfferIds \ {i} : SameSale(j)

\* A step that leaves the offers alone.
LEMMA OffersStay ==
  ASSUME height' = height, SameFclaims, \A i \in OfferIds : offers'[i] = offers[i]
  PROVE  SaleStep
  BY DEF SaleStep, SameSale, SameHold

\* A step that writes one offer.
LEMMA OneOffer ==
  ASSUME Types, NEW id \in OfferIds, NEW rec, offers' = [offers EXCEPT ![id] = rec]
  PROVE  /\ offers'[id] = rec
         /\ \A j \in OfferIds \ {id} : SameSale(j)
  <1>1. offers'[id] = rec /\ \A j \in OfferIds \ {id} : offers'[j] = offers[j]
    BY DEF Types, OfferTypes
  <1> QED BY <1>1 DEF SameSale, SameHold

\* The flush withdraws what no hold freezes, the sweep ends what has expired.
LEMMA ReplaySales ==
  ASSUME Types, PendingOk, height >= V28_HEIGHT, ReplayLoop
  PROVE  SaleStep
  <1>1. CASE \E c \in pendingCancels : FlushCancel(c)
    <2> PICK c \in pendingCancels : FlushCancel(c)
      BY <1>1
    <2>1. /\ c.offer \in OfferIds /\ c.at = height /\ ~FirmQuote(offers[c.offer])
          /\ height' = height /\ SameFclaims
      BY DEF Types, MarketTypes, PendingOk, FlushCancel, SameFclaims
    <2>2. CASE UNCHANGED offers
      BY <2>1, <2>2, OffersStay
    <2>3. CASE ~cancelFrozen(c) /\ Open(c.offer) /\ setOfferStatus(c.offer, "cancelled")
      <3>1. offers' = [offers EXCEPT ![c.offer] = [offers[c.offer] EXCEPT !.status = "cancelled"]]
        BY <2>3 DEF setOfferStatus
      <3>2. ~fclaimHeld(offers[c.offer], height)
        BY <2>1, <2>3 DEF cancelFrozen
      <3>3. /\ offers'[c.offer] = [offers[c.offer] EXCEPT !.status = "cancelled"]
            /\ \A j \in OfferIds \ {c.offer} : SameSale(j)
        BY <2>1, <3>1, OneOffer
      <3>4. Withdrawn(c.offer)
        BY <2>1, <2>3, <3>2, <3>3 DEF Withdrawn
      <3> QED BY <2>1, <3>3, <3>4 DEF SaleStep, Moved
    <2> QED BY <2>2, <2>3 DEF FlushCancel
  <1>2. CASE NextBlock
    BY <1>2 DEF NextBlock, marketVars, SaleStep, SameFclaims
  <1>3. CASE \E id \in OfferIds : ExpireOffer(id)
    <2> PICK id \in OfferIds : ExpireOffer(id)
      BY <1>3
    <2>1. /\ offers' = [offers EXCEPT ![id] = [offers[id] EXCEPT !.status = "expired"]]
          /\ height' = height /\ SameFclaims
          /\ Open(id) /\ epochOf(height) > effExpiry(offers[id], height)
      BY DEF ExpireOffer, StaleOffers, Stale, Open, setOfferStatus, chainVars, SameFclaims
    <2>2. RunsOut(id) /\ \A j \in OfferIds \ {id} : SameSale(j)
      BY <2>1, OneOffer DEF RunsOut
    <2> QED BY <2>1, <2>2 DEF SaleStep, Moved
  <1>4. CASE (\E b \in BidIds : ExpireBid(b))
             \/ (\E n \in Names : DropReservation(n)) \/ (\E n \in Names : DropRecapture(n))
    <2>1. height' = height /\ offers' = offers /\ fclaims' = fclaims
      BY <1>4 DEF ExpireBid, DropReservation, DropRecapture, marketVars, chainVars
    <2> QED BY <2>1, OffersStay DEF SameFclaims
  <1> QED BY <1>1, <1>2, <1>3, <1>4 DEF ReplayLoop

\* A market record publishes an offer or grants a hold.
LEMMA MarketRecordSales ==
  ASSUME Types, NEW who \in Addrs, MarketRecord(who), height' = height
  PROVE  SaleStep
  <1>1. CASE \E id \in OfferIds, x \in OfferTerms, E \in Expiries : applyOffer(id, who, x, E)
    <2> PICK id \in OfferIds, x \in OfferTerms, E \in Expiries : applyOffer(id, who, x, E)
      BY <1>1
    <2>1. /\ offers[id].status = "none" /\ SameFclaims
          /\ offers' = [offers EXCEPT ![id] =
               [NoOffer EXCEPT !.status = "open", !.seller = who, !.terms = x,
                               !.expiresEpoch = E, !.height = height]]
      BY DEF applyOffer, SameFclaims
    <2>2. ~isNameGive(x.give) => offerLock'[id] = x.give.amount
      BY DEF applyOffer, lockGive, Types, OfferTypes
    <2>3. /\ offers'[id] = [NoOffer EXCEPT !.status = "open", !.seller = who, !.terms = x,
                                           !.expiresEpoch = E, !.height = height]
          /\ \A j \in OfferIds \ {id} : SameSale(j)
      BY <2>1, OneOffer
    <2>4. Published(id)
      <3>1. E \in Nat
        BY OfferTermsAssumption
      <3> DEFINE q == offers'[id]
                 lock == offerLock'[id]
      <3>2. q = [NoOffer EXCEPT !.status = "open", !.seller = who, !.terms = x,
                                !.expiresEpoch = E, !.height = height]
        BY <2>3
      <3>3. ~isNameGive(x.give) => lock = x.give.amount
        BY <2>2
      <3> HIDE DEF q, lock
      <3>4. \E w \in Addrs, y \in OfferTerms, e \in Nat :
               /\ q = [NoOffer EXCEPT !.status = "open", !.seller = w, !.terms = y,
                                      !.expiresEpoch = e, !.height = height]
               /\ ~isNameGive(y.give) => lock = y.give.amount
        BY <3>1, <3>2, <3>3, Zenon
      <3> QED BY <2>1, <3>4 DEF Published, q, lock
    <2> QED BY <2>1, <2>3, <2>4 DEF SaleStep, Moved
  <1>2. CASE \/ \E b \in BidIds, E \in Expiries : applyBid(b, who, E)
             \/ \E filter \in Tickers \cup Names \cup {None} : applyOcancel(who, filter)
    BY <1>2, OffersStay DEF applyBid, applyOcancel, SameFclaims
  <1>3. CASE \E f \in FclaimIds, id \in OfferIds, E \in Expiries : applyFclaim(f, who, id, E)
    <2> PICK f \in FclaimIds, id \in OfferIds, E \in Expiries : applyFclaim(f, who, id, E)
      BY <1>3
    <2> DEFINE granted == fclaimGranted(id, who, E)
    <2>1. /\ fclaims[f].outcome = "none" /\ E \in Nat
          /\ fclaims' = [fclaims EXCEPT ![f] =
               [outcome |-> IF granted THEN "granted" ELSE "denied", offer |-> id,
                proposer |-> who, expiresEpoch |-> E, height |-> height]]
      BY OfferTermsAssumption DEF applyFclaim
    <2>2. CASE ~granted
      <3>1. SameFclaims
        BY <2>1, <2>2 DEF SameFclaims, Types, MarketTypes
      <3>2. offers' = offers
        BY <2>2 DEF applyFclaim
      <3> QED BY <3>1, <3>2, OffersStay
    <2>3. CASE granted
      <3>1. offers' = [offers EXCEPT ![id] =
              [offers[id] EXCEPT !.claimedBy = who, !.claimTxid = f,
                                 !.claimUntilHeight = (E + 1) * EPOCH_LEN]]
        BY <2>3 DEF applyFclaim
      <3>2. /\ \A j \in OfferIds \ {id} : SameSale(j)
            /\ offers'[id] = [offers[id] EXCEPT !.claimedBy = who, !.claimTxid = f,
                                                !.claimUntilHeight = (E + 1) * EPOCH_LEN]
        BY <3>1, OneOffer
      <3>3. Grants(id, f, who, E)
        BY <2>1, <2>3, <3>2 DEF Grants, fclaimGranted, claimAvailable
      <3> QED BY <2>1, <3>2, <3>3 DEF SaleStep, Moved
    <2> QED BY <2>2, <2>3
  <1> QED BY <1>1, <1>2, <1>3 DEF MarketRecord

\* From V28 on no name record ends a listing: none is left when a name is taken.
LEMMA NameRecordSales ==
  ASSUME Types, NamesOk, Settled, height >= V28_HEIGHT, NEW who \in Addrs, NameRecord(who)
  PROVE  \A i \in OfferIds : offers'[i] = offers[i]
  <1>1. ASSUME NEW n \in Names, voidOpenNameOffers(n), \A i \in OfferIds : ~Of(offers[i], n)
        PROVE  \A i \in OfferIds : offers'[i] = offers[i]
    BY <1>1 DEF voidOpenNameOffers, openNameOffers, Open, Of, Lists
  <1>2. height >= V26_HEIGHT /\ height >= V25_HEIGHT
    BY GateOrderAssumption, GatesAssumption DEF Types, ChainTypes
  <1>3. CASE \E n \in Names, salt \in Salts \cup {None}, txid \in AnchorIds,
                fee \in Payments : applyName(n, who, salt, txid, fee)
    <2> PICK n \in Names, salt \in Salts \cup {None}, txid \in AnchorIds,
             fee \in Payments : applyName(n, who, salt, txid, fee)
      BY <1>3
    <2>1. reserveRecapture(n, who, salt, txid) \/ reserveName(n, who, salt, txid)
      <3>1. ~reclaimLapsed(n, who, salt, txid, fee) /\ ~registerName(n, who, salt, txid, fee)
        BY <1>2, GatesAssumption DEF reclaimLapsed, registerName, Types, ChainTypes
      <3> QED BY <3>1 DEF applyName
    <2>2. CASE reserveName(n, who, salt, txid)
      <3>1. offers' = offers \/ voidOpenNameOffers(n)
        BY <2>2 DEF reserveName, takeName
      <3> QED BY <1>1, <2>2, <3>1, ReservedUnlisted
    <2> QED BY <2>1, <2>2 DEF reserveRecapture
  <1>4. CASE \E n \in Names, salt \in Salts, fee \in Payments : applyNfinalize(n, who, salt, fee)
    <2> PICK n \in Names, salt \in Salts, fee \in Payments : applyNfinalize(n, who, salt, fee)
      BY <1>4
    <2>1. CASE finalizeRegistration(n, who, salt, fee)
      BY <2>1 DEF finalizeRegistration
    <2>2. CASE finalizeRecapture(n, who, salt, fee)
      <3>1. recaptures[n].owner # None /\ (offers' = offers \/ voidOpenNameOffers(n))
        BY <2>2, SetsAssumption DEF finalizeRecapture, finalizable
      <3> QED BY <1>1, <3>1, RecaptureStands
    <2> QED BY <2>1, <2>2 DEF applyNfinalize
  <1>5. CASE \/ \E key \in CommitKeys : applyNcommit(key)
             \/ \E n \in Names, to \in Addrs : applyNxfer(n, who, to)
             \/ \E n \in Names, target \in NameTargets : applyNset(n, who, target)
             \/ \E n \in Names, p \in Contents \cup {None} : applyNprofile(n, who, p)
             \/ \E n \in Names, fee \in Payments : applyNrenew(n, who, fee)
    <2>1. offers' = offers
      BY <1>5 DEF applyNcommit, applyNxfer, applyNset, applyNprofile, applyNrenew, OnlyNames
    <2> QED BY <2>1
  <1> QED BY <1>3, <1>4, <1>5 DEF NameRecord

\* An attest sells an offer to its taker, to the holder, or in a swap.
LEMMA AttestSales ==
  ASSUME Types, height >= V28_HEIGHT, NEW who \in Addrs, AttestEvent(who), height' = height
  PROVE  SaleStep
  <1>1. ASSUME NEW id \in OfferIds, OpenToFiller(id, who), UNCHANGED fclaims, NEW rec,
               offers' = [offers EXCEPT ![id] = rec],
               rec.status = "filled", rec.buyer = who,
               rec.claimedBy = offers[id].claimedBy, rec.claimTxid = offers[id].claimTxid,
               rec.claimUntilHeight = offers[id].claimUntilHeight,
               NEW target, isTokenWant(offers[id].terms.want) \/ openFillAdmitted(id, who, target)
        PROVE  SaleStep
    <2>1. SameFclaims
      BY <1>1 DEF SameFclaims
    <2>2. offers'[id] = rec /\ \A j \in OfferIds \ {id} : SameSale(j)
      BY <1>1, OneOffer
    <2>3. height >= V13_HEIGHT
      BY GateOrderAssumption, GatesAssumption DEF Types, ChainTypes
    <2>4. SoldTo(id, who)
      BY <1>1, <2>2, <2>3 DEF SoldTo, SameHold, OpenToFiller, openFillAdmitted, Taker
    <2> QED BY <2>1, <2>2, <2>4 DEF SaleStep, Moved
  <1>2. ASSUME NEW id \in OfferIds, OpenToFiller(id, who), UNCHANGED fclaims, markFilled(id, who),
               NEW target, isTokenWant(offers[id].terms.want) \/ openFillAdmitted(id, who, target)
        PROVE  SaleStep
    <2> DEFINE rec == [offers[id] EXCEPT !.status = "filled", !.buyer = who]
    <2>1. offers' = [offers EXCEPT ![id] = rec]
      BY <1>2 DEF markFilled
    <2>2. /\ rec.status = "filled" /\ rec.buyer = who
          /\ rec.claimedBy = offers[id].claimedBy /\ rec.claimTxid = offers[id].claimTxid
          /\ rec.claimUntilHeight = offers[id].claimUntilHeight
      BY DEF Types, OfferTypes, OfferRec
    <2> HIDE DEF rec
    <2> QED BY <1>1, <1>2, <2>1, <2>2
  <1>3. ASSUME NEW id \in OfferIds, NEW target, NEW pt \in PaidTo,
               applyPartialFill(id, who, target, pt)
        PROVE  SaleStep
    <2> DEFINE o == offers[id]
               paid == o.paid + Smaller(pt[paytoOf(o)], o.terms.want.amount - o.paid)
               part == [o EXCEPT !.paid = paid, !.delivered = deliveredAfter(o, paid)]
               full == [part EXCEPT !.status = "filled", !.buyer = who]
    <2>1. /\ offers' = [offers EXCEPT ![id] = part] \/ offers' = [offers EXCEPT ![id] = full]
          /\ OpenToFiller(id, who) /\ openFillAdmitted(id, who, target) /\ UNCHANGED fclaims
      BY <1>3 DEF applyPartialFill
    <2> HIDE DEF paid
    <2>2. /\ part.status = o.status /\ part.terms = o.terms /\ part.height = o.height
          /\ part.buyer = o.buyer /\ part.expiresEpoch = o.expiresEpoch
          /\ part.claimedBy = o.claimedBy /\ part.claimTxid = o.claimTxid
          /\ part.claimUntilHeight = o.claimUntilHeight
      BY DEF Types, OfferTypes, OfferRec
    <2>3. /\ full.status = "filled" /\ full.buyer = who
          /\ full.claimedBy = o.claimedBy /\ full.claimTxid = o.claimTxid
          /\ full.claimUntilHeight = o.claimUntilHeight
      BY DEF Types, OfferTypes, OfferRec
    <2> HIDE DEF part, full
    <2>4. CASE offers' = [offers EXCEPT ![id] = full]
      BY <1>1, <2>1, <2>3, <2>4
    <2>5. CASE offers' = [offers EXCEPT ![id] = part]
      <3>1. \A j \in OfferIds : SameSale(j)
        BY <2>2, <2>5, OneOffer DEF SameSale, SameHold
      <3> QED BY <2>1, <3>1 DEF SaleStep, SameFclaims
    <2> QED BY <2>1, <2>4, <2>5
  <1>4. ASSUME NEW target \in OfferIds \cup FclaimIds, NEW pt \in PaidTo, NEW txid \in AnchorIds,
               FillAttest(target, who, pt, txid)
        PROVE  SaleStep
    <2> PICK id \in OfferIds :
           \/ applyTokenFill(id, who, txid)
           \/ applyPartialFill(id, who, target, pt)
           \/ applyFill(id, who, target, pt, txid)
      BY <1>4 DEF FillAttest, routedOffers
    <2>1. CASE applyTokenFill(id, who, txid)
      <3>1. OpenToFiller(id, who) /\ UNCHANGED fclaims /\ markFilled(id, who)
            /\ isTokenWant(offers[id].terms.want)
        BY <2>1 DEF applyTokenFill
      <3> QED BY <1>2, <3>1
    <2>2. CASE applyFill(id, who, target, pt, txid)
      <3>1. OpenToFiller(id, who) /\ UNCHANGED fclaims /\ markFilled(id, who)
            /\ openFillAdmitted(id, who, target)
        BY <2>2 DEF applyFill
      <3> QED BY <1>2, <3>1
    <2> QED BY <1>3, <2>1, <2>2
  <1>5. CASE \/ \E id \in OfferIds : applyCancel(id, who)
             \/ \E b \in BidIds : cancelBid(b, who)
    BY <1>5, OffersStay DEF applyCancel, cancelBid, SameFclaims
  <1>6. ~\E id \in OfferIds : applyLegacyClaim(id, who)
    <2>1. ~(height < V28_HEIGHT)
      BY GatesAssumption DEF Types, ChainTypes
    <2> QED BY <2>1 DEF applyLegacyClaim
  <1> QED BY <1>4, <1>5, <1>6 DEF AttestEvent

\* No step moves a sale in any other way.
LEMMA StepSales ==
  ASSUME Types, NamesOk, PendingOk, [Next]_vars, height >= V28_HEIGHT
  PROVE  SaleStep
  <1>1. CASE ReplayLoop
    BY <1>1, ReplaySales
  <1>2. CASE ProposeEvent
    <2> PICK who \in Addrs, p \in 1 .. MaxPos :
             Event("propose", p) /\ (TokenRecord(who) \/ MarketRecord(who) \/ NameRecord(who))
      BY <1>2 DEF ProposeEvent
    <2>1. height' = height /\ Settled
      BY DEF Event
    <2>2. CASE TokenRecord(who)
      BY <2>1, <2>2, TokenTypes, OffersStay DEF Types, marketVars, SameFclaims
    <2>3. CASE MarketRecord(who)
      BY <2>1, <2>3, MarketRecordSales
    <2>4. CASE NameRecord(who)
      BY <2>1, <2>4, NameRecordSales, NameRecordFrame, OffersStay DEF NameFrame, SameFclaims
    <2> QED BY <2>2, <2>3, <2>4
  <1>3. CASE AttestStep
    BY <1>3, AttestSales DEF AttestStep, Event
  <1>4. CASE UNCHANGED vars
    BY <1>4, OffersStay DEF vars, marketVars, chainVars, SameFclaims
  <1> QED BY <1>1, <1>2, <1>3, <1>4 DEF Next

-----------------------------------------------------------------------------
(* The promise of a granted hold.                                          *)

\* A granted fclaim is the hold of its offer until its epoch is over: nobody
\* else's, within the offer's term, and the offer is open or was bought by it.
HoldOk(f) ==
  LET c == fclaims[f]
      o == offers[c.offer]
  IN c.outcome = "granted" =>
       /\ c.offer \in OfferIds /\ c.proposer \in Addrs /\ height >= V28_HEIGHT
       /\ epochOf(height) <= c.expiresEpoch =>
            /\ o.claimTxid = f /\ o.claimedBy = c.proposer
            /\ o.claimUntilHeight = (c.expiresEpoch + 1) * EPOCH_LEN
            /\ o.terms.taker = None /\ ~isTokenWant(o.terms.want)
            /\ c.expiresEpoch <= effExpiry(o, height)
            /\ o.status = "open" \/ (o.status = "filled" /\ o.buyer = o.claimedBy)

HoldsOk == \A f \in FclaimIds : HoldOk(f)

\* A height belongs to an epoch as long as it is below the next one.
LEMMA EpochBounds ==
  ASSUME NEW h \in Nat, NEW E \in Nat
  PROVE  epochOf(h) <= E <=> h < (E + 1) * EPOCH_LEN
  <1>1. \A L \in Nat \ {0}, q, r \in Nat : r < L /\ q <= E => q * L + r < (E + 1) * L
    OBVIOUS
  <1>2. \A L \in Nat \ {0}, q, r \in Nat : q >= E + 1 => q * L + r >= (E + 1) * L
    OBVIOUS
  <1>3. \A L \in Nat \ {0} : /\ h \div L \in Nat /\ h % L \in Nat /\ h % L < L
                             /\ h = (h \div L) * L + (h % L)
    OBVIOUS
  <1> DEFINE q == h \div EPOCH_LEN
             r == h % EPOCH_LEN
  <1>4. EPOCH_LEN \in Nat \ {0} /\ q \in Nat /\ r \in Nat /\ r < EPOCH_LEN /\ h = q * EPOCH_LEN + r
    BY <1>3, ParametersAssumption
  <1> HIDE DEF q, r
  <1>5. q <= E => q * EPOCH_LEN + r < (E + 1) * EPOCH_LEN
    BY <1>1, <1>4
  <1>6. q >= E + 1 => q * EPOCH_LEN + r >= (E + 1) * EPOCH_LEN
    BY <1>2, <1>4
  <1>7. (E + 1) * EPOCH_LEN \in Nat
    BY <1>4, NatProduct
  <1>8. q <= E <=> h < (E + 1) * EPOCH_LEN
    BY <1>4, <1>5, <1>6, <1>7
  <1> QED BY <1>8 DEF epochOf, q

\* The grace only lengthens a claim, and a hold granted by an fclaim has none.
LEMMA GraceNat ==
  ASSUME NEW o \in OfferRec
  PROVE  claimGrace(o) \in Nat /\ (o.claimTxid # None => claimGrace(o) = 0)
  BY ParametersAssumption DEF claimGrace, claimGraceOf

\* While its epoch lasts a granted fclaim is a live, freezing hold.
LEMMA HoldIsLive ==
  ASSUME Types, NEW f \in FclaimIds, HoldOk(f), fclaims[f].outcome = "granted",
         epochOf(height) <= fclaims[f].expiresEpoch
  PROVE  LET o == offers[fclaims[f].offer]
         IN o.claimTxid # None /\ claimHeld(o, height) /\ fclaimHeld(o, height)
  <1> DEFINE c == fclaims[f]
             o == offers[c.offer]
  <1>1. /\ c.offer \in OfferIds /\ c.proposer \in Addrs
        /\ o.claimTxid = f /\ o.claimedBy = c.proposer
        /\ o.claimUntilHeight = (c.expiresEpoch + 1) * EPOCH_LEN
    BY DEF HoldOk
  <1>2. o \in OfferRec /\ height \in Nat /\ c.expiresEpoch \in Nat
    BY <1>1 DEF Types, OfferTypes, MarketTypes, FclaimRec, ChainTypes
  <1>3. o.claimTxid # None /\ o.claimedBy # None
    BY <1>1, SetsAssumption
  <1>4. height < o.claimUntilHeight
    BY <1>1, <1>2, EpochBounds
  <1>5. height < o.claimUntilHeight + claimGrace(o)
    BY <1>2, <1>4, GraceNat DEF OfferRec
  <1> QED BY <1>3, <1>5 DEF claimHeld, fclaimHeld

\* Before V28 there are no fclaims.
LEMMA NoEarlyFclaim ==
  ASSUME Types, [Next]_vars, height < V28_HEIGHT
  PROVE  fclaims' = fclaims
  <1>1. CASE ReplayLoop
    BY <1>1 DEF ReplayLoop, FlushCancel, NextBlock, ExpireOffer, ExpireBid, DropReservation,
                DropRecapture, marketVars
  <1>2. CASE ProposeEvent
    <2> PICK who \in Addrs : TokenRecord(who) \/ MarketRecord(who) \/ NameRecord(who)
      BY <1>2 DEF ProposeEvent
    <2>1. CASE TokenRecord(who)
      BY <2>1, TokenTypes DEF Types, marketVars
    <2>2. CASE MarketRecord(who)
      <3>1. ~(height >= V28_HEIGHT)
        BY GatesAssumption DEF Types, ChainTypes
      <3>2. ASSUME NEW f, NEW id, NEW E PROVE ~applyFclaim(f, who, id, E)
        BY <3>1 DEF applyFclaim
      <3> QED BY <2>2, <3>2 DEF MarketRecord, applyOffer, applyBid, applyOcancel
    <2>3. CASE NameRecord(who)
      BY <2>3, NameRecordFrame DEF NameFrame
    <2> QED BY <2>1, <2>2, <2>3
  <1>3. CASE AttestStep
    <2> PICK who \in Addrs : AttestEvent(who)
      BY <1>3 DEF AttestStep
    <2>1. ASSUME NEW target, NEW pt, NEW txid, FillAttest(target, who, pt, txid)
          PROVE  fclaims' = fclaims
      <3> PICK id \in OfferIds :
             \/ applyTokenFill(id, who, txid)
             \/ applyPartialFill(id, who, target, pt)
             \/ applyFill(id, who, target, pt, txid)
        BY <2>1 DEF FillAttest, routedOffers
      <3> QED BY DEF applyTokenFill, applyPartialFill, applyFill
    <2> QED BY <2>1 DEF AttestEvent, applyCancel, cancelBid, applyLegacyClaim
  <1>4. CASE UNCHANGED vars
    BY <1>4 DEF vars, marketVars
  <1> QED BY <1>1, <1>2, <1>3, <1>4 DEF Next

\* An older hold survives whatever is done to the offer it is on.
LEMMA HoldSurvives ==
  ASSUME Types, Types', [Next]_vars, SaleStep, height >= V28_HEIGHT, NEW f \in FclaimIds, HoldOk(f),
         fclaims[f].outcome = "granted", fclaims'[f] = fclaims[f]
  PROVE  HoldOk(f)'
  <1> DEFINE c == fclaims[f]
             i == c.offer
             o == offers[i]
             q == offers'[i]
  <1>1. /\ i \in OfferIds /\ c.proposer \in Addrs /\ o \in OfferRec /\ c.expiresEpoch \in Nat
        /\ height \in Nat /\ height' \in Nat /\ height' >= height
    BY DEF HoldOk, Types, OfferTypes, MarketTypes, FclaimRec, ChainTypes, SaleStep
  <1>2. SUFFICES ASSUME epochOf(height') <= c.expiresEpoch
                 PROVE  /\ q.claimTxid = f /\ q.claimedBy = c.proposer
                        /\ q.claimUntilHeight = (c.expiresEpoch + 1) * EPOCH_LEN
                        /\ q.terms.taker = None /\ ~isTokenWant(q.terms.want)
                        /\ c.expiresEpoch <= effExpiry(q, height')
                        /\ q.status = "open" \/ (q.status = "filled" /\ q.buyer = q.claimedBy)
    <2>1. height' >= V28_HEIGHT
      BY <1>1, GatesAssumption
    <2> QED BY <1>1, <2>1 DEF HoldOk
  <1>3. epochOf(height) <= c.expiresEpoch
    BY <1>1, <1>2, EpochBounds, NatProduct, ParametersAssumption
  <1>4. /\ o.claimTxid = f /\ o.claimedBy = c.proposer
        /\ o.claimUntilHeight = (c.expiresEpoch + 1) * EPOCH_LEN
        /\ o.terms.taker = None /\ ~isTokenWant(o.terms.want)
        /\ c.expiresEpoch <= effExpiry(o, height)
        /\ o.status = "open" \/ (o.status = "filled" /\ o.buyer = o.claimedBy)
    BY <1>3 DEF HoldOk
  <1>5. claimHeld(o, height) /\ fclaimHeld(o, height)
    BY <1>3, HoldIsLive
  <1>6. q.terms = o.terms /\ q.height = o.height /\ q.expiresEpoch = o.expiresEpoch
        => c.expiresEpoch <= effExpiry(q, height')
    <2>1. height >= V21_HEIGHT /\ height' >= V21_HEIGHT
      BY <1>1, GateOrderAssumption, GatesAssumption
    <2> QED BY <1>4, <2>1 DEF effExpiry
  <1>7. CASE offers' = offers
    BY <1>4, <1>6, <1>7
  <1>8. CASE SameSale(i)
    BY <1>4, <1>6, <1>8 DEF SameSale, SameHold
  <1>9. CASE Moved(i)
    <2>1. ~Published(i)
      BY <1>4 DEF Published
    <2>2. ~Withdrawn(i)
      BY <1>5 DEF Withdrawn
    <2>3. ~RunsOut(i)
      <3>1. epochOf(height) \in Nat /\ effExpiry(o, height) \in Int
        BY <1>1, EpochNat, ParametersAssumption DEF effExpiry, Smaller, OfferRec
      <3> QED BY <1>1, <1>3, <1>4, <3>1 DEF RunsOut
    <2>4. \A g \in FclaimIds, who \in Addrs, E \in Nat : ~Grants(i, g, who, E)
      BY <1>5 DEF Grants
    <2>5. PICK who \in Addrs : SoldTo(i, who)
      BY <1>9, <2>1, <2>2, <2>3, <2>4 DEF Moved
    <2>6. q.status = "filled" /\ q.buyer = who /\ who = o.claimedBy /\ SameHold(i) /\ Open(i)
      BY <1>4, <2>5 DEF SoldTo
    <2>7. q.terms = o.terms /\ q.height = o.height /\ q.expiresEpoch = o.expiresEpoch
      BY <1>1, <2>6, TermsStay DEF Open
    <2> QED BY <1>4, <1>6, <2>6, <2>7 DEF SameHold
  <1> QED BY <1>1, <1>7, <1>8, <1>9 DEF SaleStep

\* A hold that a step grants is a good one from the start.
LEMMA HoldBegins ==
  ASSUME Types, Types', height >= V28_HEIGHT, height' = height,
         NEW i \in OfferIds, NEW f \in FclaimIds, NEW who \in Addrs, NEW E \in Nat,
         Grants(i, f, who, E)
  PROVE  HoldOk(f)'
  <1> DEFINE q == offers'[i]
  <1>1. /\ fclaims'[f].outcome = "granted" /\ fclaims'[f].offer = i
        /\ fclaims'[f].proposer = who /\ fclaims'[f].expiresEpoch = E
    BY DEF Grants, Types, MarketTypes
  <1>2. /\ q.claimTxid = f /\ q.claimedBy = who /\ q.claimUntilHeight = (E + 1) * EPOCH_LEN
        /\ q.terms = offers[i].terms /\ q.status = "open" /\ q.height = offers[i].height
        /\ q.expiresEpoch = offers[i].expiresEpoch
    BY DEF Grants, Open, Types, OfferTypes, OfferRec
  <1>3. E <= effExpiry(q, height')
    BY <1>2 DEF Grants, effExpiry
  <1>4. height' >= V28_HEIGHT /\ q.terms.taker = None /\ ~isTokenWant(q.terms.want)
    BY <1>2 DEF Grants
  <1> DEFINE c == fclaims'[f]
             o == offers'[c.offer]
  <1>5. SUFFICES /\ c.offer \in OfferIds /\ c.proposer \in Addrs /\ height' >= V28_HEIGHT
                 /\ o.claimTxid = f /\ o.claimedBy = c.proposer
                 /\ o.claimUntilHeight = (c.expiresEpoch + 1) * EPOCH_LEN
                 /\ o.terms.taker = None /\ ~isTokenWant(o.terms.want)
                 /\ c.expiresEpoch <= effExpiry(o, height')
                 /\ o.status = "open"
    BY DEF HoldOk
  <1>6. o = q
    BY <1>1
  <1> HIDE DEF q, o
  <1> QED BY <1>1, <1>2, <1>3, <1>4, <1>6

\* The holds are good in every state.
LEMMA HoldsInvariant == Spec => []HoldsOk
  <1>1. Init => HoldsOk
    BY DEF Init, HoldsOk, HoldOk, NoFclaim
  <1>2. Types /\ Types' /\ NamesOk /\ PendingOk /\ HoldsOk /\ [Next]_vars => HoldsOk'
    <2> SUFFICES ASSUME Types, Types', NamesOk, PendingOk, HoldsOk, [Next]_vars,
                        NEW f \in FclaimIds
                 PROVE  HoldOk(f)'
      BY DEF HoldsOk
    <2>1. HoldOk(f)
      BY DEF HoldsOk
    <2>2. CASE ~(fclaims'[f].outcome = "granted")
      BY <2>2 DEF HoldOk
    <2>3. CASE fclaims'[f].outcome = "granted" /\ ~(height >= V28_HEIGHT)
      <3>1. height < V28_HEIGHT
        BY <2>3, GatesAssumption DEF Types, ChainTypes
      <3>2. fclaims[f].outcome = "granted"
        BY <2>3, <3>1, NoEarlyFclaim
      <3> QED BY <2>1, <2>3, <3>2 DEF HoldOk
    <2>4. CASE fclaims'[f].outcome = "granted" /\ height >= V28_HEIGHT
      <3>1. SaleStep
        BY <2>4, StepSales
      <3>2. CASE fclaims'[f] = fclaims[f]
        BY <2>1, <2>4, <3>1, <3>2, HoldSurvives
      <3>3. CASE fclaims'[f] # fclaims[f]
        <4>1. ~SameFclaims
          BY <2>4, <3>3 DEF SameFclaims
        <4>2. PICK i \in OfferIds, g \in FclaimIds, who \in Addrs, E \in Nat :
                 height' = height /\ Grants(i, g, who, E)
          BY <3>1, <4>1 DEF SaleStep, Moved
        <4>3. g = f
          BY <3>3, <4>2 DEF Grants, Types, MarketTypes
        <4> QED BY <2>4, <4>2, <4>3, HoldBegins
      <3> QED BY <3>2, <3>3
    <2> QED BY <2>2, <2>3, <2>4
  <1> QED BY <1>1, <1>2, TypesInvariant, NamesInvariant, PendingInvariant, PTL DEF Spec

\* As long as the price of a partial offer is not paid, some of the give is left.
LEMMA RestIsLeft ==
  ASSUME NEW g \in Nat \ {0}, NEW w \in Nat, NEW p \in Nat, p < w
  PROVE  g - ((g * p) \div w) > 0
  <1> DEFINE share == (g * p) \div w
  <1>1. share * w <= g * p /\ share \in Nat /\ g * p \in Nat
    BY FloorShare, NatProduct, NatQuotient
  <1>2. g * p < g * w
    <2>1. \A a \in Nat \ {0}, d \in Nat \ {0} : a * d > 0
      OBVIOUS
    <2>2. g * w = g * p + g * (w - p)
      OBVIOUS
    <2> QED BY <2>1, <2>2, NatProduct
  <1> HIDE DEF share
  <1>3. \A s \in Nat : s >= g => s * w >= g * w
    OBVIOUS
  <1>4. share < g
    BY <1>1, <1>2, <1>3, NatProduct
  <1> QED BY <1>1, <1>4 DEF share

\* Whoever holds, whatever else is in the blocks, and wherever the gates lie:
\* until its last epoch is over a granted fclaim is the live hold of its offer,
\* and the offer is open with its give in place, or was bought by the holder
\* (applyFclaim, and everything that could take the give away).
THEOREM HoldsArePromises == Spec => []HoldPromise
  <1>1. Types /\ HoldsOk /\ NamesOk /\ PartialBooks /\ WholeBooks => HoldPromise
    <2> SUFFICES ASSUME Types, HoldsOk, NamesOk, PartialBooks, WholeBooks, NEW f \in FclaimIds,
                        fclaims[f].outcome = "granted",
                        epochOf(height) <= fclaims[f].expiresEpoch
                 PROVE  LET i == fclaims[f].offer
                            o == offers[i]
                            g == o.terms.give
                        IN /\ o.claimTxid = f /\ o.claimedBy = fclaims[f].proposer
                           /\ claimHeld(o, height)
                           /\ \/ /\ Open(i)
                                 /\ IF isNameGive(g) THEN names[g.asset].owner = o.seller
                                                     ELSE offerLock[i] > 0
                              \/ o.status = "filled" /\ o.buyer = o.claimedBy
      BY DEF HoldPromise
    <2> DEFINE i == fclaims[f].offer
               o == offers[i]
               g == o.terms.give
    <2>1. HoldOk(f)
      BY DEF HoldsOk
    <2>2. /\ i \in OfferIds /\ o.claimTxid = f /\ o.claimedBy = fclaims[f].proposer
          /\ o.status = "open" \/ (o.status = "filled" /\ o.buyer = o.claimedBy)
      BY <2>1 DEF HoldOk
    <2>3. claimHeld(o, height)
      BY <2>1, HoldIsLive
    <2>4. ASSUME Open(i), isNameGive(g) PROVE names[g.asset].owner = o.seller
      <3>1. g.asset \in Names /\ Of(offers[i], g.asset)
        BY <2>4 DEF Of, Lists, Open, isNameGive
      <3> QED BY <2>2, <3>1 DEF NamesOk, NameOk, ListingOk
    <2>5. ASSUME Open(i), ~isNameGive(g) PROVE offerLock[i] > 0
      <3>1. OfferShape(o.terms) /\ o \in OfferRec
        BY <2>2, <2>5, OfferParts DEF Types, Open
      <3>2. /\ g.amount \in Nat \ {0} /\ o.terms.want.amount \in Nat /\ o.paid \in Nat
        BY <3>1 DEF OfferShape, OfferRec
      <3>3. CASE o.terms.min = 0
        BY <2>2, <2>5, <3>2, <3>3 DEF WholeBooks
      <3>4. CASE o.terms.min # 0
        <4>1. /\ offerLock[i] = g.amount - ((g.amount * o.paid) \div o.terms.want.amount)
              /\ o.paid < o.terms.want.amount
          BY <2>2, <2>5, <3>4 DEF PartialBooks, deliveredAfter
        <4> HIDE DEF g, o, i
        <4> QED BY <3>2, <4>1, RestIsLeft
      <3> QED BY <3>3, <3>4
    <2> QED BY <2>2, <2>3, <2>4, <2>5 DEF Open
  <1> QED BY <1>1, TypesInvariant, HoldsInvariant, NamesInvariant, PartialBooksInvariant,
             WholeBooksInvariant, PTL

-----------------------------------------------------------------------------
(* The contract of a listing.                                              *)

\* An offer is no younger than the replay, and a claim on one of V28 or later is
\* an fclaim's, up to the end of an epoch within the offer's term.
SaleOk(i) ==
  LET o == offers[i]
  IN /\ o.height <= height
     /\ o.height >= V28_HEIGHT /\ o.claimedBy # None =>
          /\ o.claimTxid # None
          /\ \E E \in Nat : o.claimUntilHeight = (E + 1) * EPOCH_LEN /\ E <= o.expiresEpoch

SalesOk == \A i \in OfferIds : SaleOk(i)

\* The fields of an offer that a move changes in place.
LEMMA EndFields ==
  ASSUME Types, NEW i \in OfferIds, Withdrawn(i) \/ RunsOut(i)
  PROVE  /\ SameHold(i) /\ Open(i) /\ offers'[i].terms = offers[i].terms
         /\ offers'[i].height = offers[i].height /\ offers'[i].buyer = offers[i].buyer
         /\ offers'[i].expiresEpoch = offers[i].expiresEpoch
         /\ Withdrawn(i) => offers'[i].status = "cancelled"
         /\ RunsOut(i) => offers'[i].status = "expired"
  BY DEF Types, OfferTypes, OfferRec, Withdrawn, RunsOut, SameHold

\* The fields of an offer that a grant of an fclaim leaves behind.
LEMMA GrantFields ==
  ASSUME Types, NEW i \in OfferIds, NEW f, NEW who, NEW E, Grants(i, f, who, E)
  PROVE  /\ offers'[i].claimedBy = who /\ offers'[i].claimTxid = f
         /\ offers'[i].claimUntilHeight = (E + 1) * EPOCH_LEN
         /\ offers'[i].status = "open" /\ offers[i].status = "open"
         /\ offers'[i].terms = offers[i].terms /\ offers'[i].height = offers[i].height
         /\ offers'[i].buyer = offers[i].buyer
         /\ offers'[i].expiresEpoch = offers[i].expiresEpoch
  BY DEF Types, OfferTypes, OfferRec, Grants, Open

\* An offer of the era is judged by the term it was published with.
LEMMA EraExpiry ==
  ASSUME NEW o, o.height \in Nat, o.height >= V28_HEIGHT, NEW h
  PROVE  effExpiry(o, h) = o.expiresEpoch
  <1>1. ~(o.height < V22_HEIGHT)
    BY GateOrderAssumption, GatesAssumption
  <1> QED BY <1>1 DEF effExpiry

\* Before V28 no offer is of that era.
LEMMA EarlySales ==
  ASSUME Types, Types', SalesOk, [Next]_vars, height < V28_HEIGHT, NEW j \in OfferIds
  PROVE  /\ offers[j].height < V28_HEIGHT /\ offers'[j].height < V28_HEIGHT
         /\ offers'[j].height <= height
  <1>1. /\ Moves(j) /\ offers[j] \in OfferRec /\ offers[j].height <= height
        /\ offers[j].height \in Nat /\ height \in Nat
    BY StepMoves DEF Types, OfferTypes, OfferRec, ChainTypes, SalesOk, SaleOk
  <1>2. offers'[j].height = offers[j].height \/ offers'[j].height = height
    <2>1. CASE Published(j)
      BY <2>1 DEF Published, NoOffer
    <2>2. CASE Rests(j)
      BY <2>2 DEF Rests
    <2>3. CASE ~Published(j) /\ ~Rests(j)
      <3>1. offers[j].status # "none"
        BY <1>1, <2>3 DEF MovesOn, Moves, Claimed, Sold, PartSold, Ended, Open
      <3> QED BY <3>1, TermsStay
    <2> QED BY <2>1, <2>2, <2>3
  <1> QED BY <1>1, <1>2, GatesAssumption

\* The heights and the claims of the era are sound in every state.
LEMMA SalesInvariant == Spec => []SalesOk
  <1>1. Init => SalesOk
    BY GatesAssumption DEF Init, SalesOk, SaleOk, NoOffer
  <1>2. Types /\ Types' /\ NamesOk /\ PendingOk /\ SalesOk /\ [Next]_vars => SalesOk'
    <2> SUFFICES ASSUME Types, Types', NamesOk, PendingOk, SalesOk, [Next]_vars, NEW j \in OfferIds
                 PROVE  SaleOk(j)'
      BY DEF SalesOk
    <2>1. /\ SaleOk(j) /\ offers[j] \in OfferRec /\ offers[j].height <= height
          /\ offers[j].height \in Nat /\ height \in Nat /\ height' \in Nat
          /\ offers'[j].height \in Nat
      BY DEF SalesOk, SaleOk, Types, OfferTypes, ChainTypes, OfferRec
    <2>2. CASE height < V28_HEIGHT
      <3>1. offers'[j].height < V28_HEIGHT /\ offers'[j].height <= height
        BY <2>2, EarlySales
      <3>2. height' >= height
        BY HeightSteps
      <3>3. offers'[j].height <= height' /\ ~(offers'[j].height >= V28_HEIGHT)
        BY <2>1, <3>1, <3>2, GatesAssumption
      <3> QED BY <3>3 DEF SaleOk
    <2>3. CASE height >= V28_HEIGHT
      <3>1. SaleStep
        BY <2>3, StepSales
      <3>2. height' >= height
        BY <2>1, <3>1 DEF SaleStep
      <3>3. CASE offers' = offers
        BY <2>1, <3>2, <3>3 DEF SaleOk
      <3>4. CASE SameSale(j)
        <4>1. offers'[j].height <= height'
          BY <2>1, <3>2, <3>4 DEF SameSale
        <4> QED BY <2>1, <3>4, <4>1 DEF SaleOk, SameSale, SameHold
      <3>5. CASE Moved(j) /\ height' = height
        <4>1. CASE Published(j)
          <5>1. offers'[j].height = height /\ offers'[j].claimedBy = None
            BY <4>1 DEF Published, NoOffer
          <5> QED BY <2>1, <3>2, <5>1 DEF SaleOk
        <4>2. CASE Withdrawn(j) \/ RunsOut(j)
          <5>1. /\ SameHold(j) /\ offers'[j].height = offers[j].height
                /\ offers'[j].expiresEpoch = offers[j].expiresEpoch
            BY <4>2, EndFields
          <5> QED BY <2>1, <3>5, <5>1 DEF SaleOk, SameHold
        <4>3. CASE \E who \in Addrs : SoldTo(j, who)
          <5>1. SameHold(j) /\ offers[j].status # "none"
            BY <4>3 DEF SoldTo, Open
          <5>2. /\ offers'[j].height = offers[j].height
                /\ offers'[j].expiresEpoch = offers[j].expiresEpoch
            BY <5>1, TermsStay
          <5> QED BY <2>1, <3>5, <5>1, <5>2 DEF SaleOk, SameHold
        <4>4. CASE \E f \in FclaimIds, who \in Addrs, E \in Nat : Grants(j, f, who, E)
          <5> PICK f \in FclaimIds, who \in Addrs, E \in Nat : Grants(j, f, who, E)
            BY <4>4
          <5>1. /\ offers'[j].claimTxid = f /\ offers'[j].claimUntilHeight = (E + 1) * EPOCH_LEN
                /\ offers'[j].height = offers[j].height
                /\ offers'[j].expiresEpoch = offers[j].expiresEpoch
            BY GrantFields
          <5>2. offers[j].height >= V28_HEIGHT => E <= offers[j].expiresEpoch
            BY <2>1, EraExpiry DEF Grants
          <5> QED BY <2>1, <3>5, <5>1, <5>2, SetsAssumption DEF SaleOk
        <4> QED BY <3>5, <4>1, <4>2, <4>3, <4>4 DEF Moved
      <3> QED BY <3>1, <3>3, <3>4, <3>5 DEF SaleStep
    <2>4. height < V28_HEIGHT \/ height >= V28_HEIGHT
      BY <2>1, GatesAssumption
    <2> QED BY <2>2, <2>3, <2>4
  <1> QED BY <1>1, <1>2, TypesInvariant, NamesInvariant, PendingInvariant, PTL DEF Spec

\* In the contract's words: the listing is held.
Kept(i) == offers[i].claimedBy # None /\ height < offers[i].claimUntilHeight

\* The claim of an offer of V28 or later has no grace: it is live exactly while it
\* holds.
LEMMA KeptIsHeld ==
  ASSUME Types, SalesOk, NEW i \in OfferIds, offers[i].height >= V28_HEIGHT
  PROVE  /\ Kept(i) <=> claimHeld(offers[i], height)
         /\ Kept(i) => fclaimHeld(offers[i], height)
         /\ Kept(i) => epochOf(height) <= offers[i].expiresEpoch
  <1> DEFINE o == offers[i]
  <1>1. o \in OfferRec /\ height \in Nat /\ SaleOk(i)
    BY DEF Types, OfferTypes, ChainTypes, SalesOk
  <1>2. o.claimedBy # None => o.claimTxid # None /\ claimGrace(o) = 0
    BY <1>1, GraceNat DEF SaleOk
  <1>3. Kept(i) <=> claimHeld(o, height)
    BY <1>1, <1>2 DEF Kept, claimHeld, OfferRec
  <1>4. Kept(i) => fclaimHeld(o, height)
    BY <1>2, <1>3 DEF fclaimHeld, claimHeld
  <1>5. ASSUME Kept(i) PROVE epochOf(height) <= o.expiresEpoch
    <2> PICK E \in Nat : o.claimUntilHeight = (E + 1) * EPOCH_LEN /\ E <= o.expiresEpoch
      BY <1>1, <1>5 DEF SaleOk, Kept
    <2>1. epochOf(height) <= E
      BY <1>1, <1>5, EpochBounds DEF Kept
    <2> QED BY <1>1, <2>1, EpochNat DEF OfferRec
  <1> QED BY <1>3, <1>4, <1>5

\* What the contract reads of offer i does not change.
SameEra(i) ==
  /\ EraOffer(i)'.status = EraOffer(i).status
  /\ EraOffer(i)'.claimedBy = EraOffer(i).claimedBy
  /\ EraOffer(i)'.claimUntilHeight = EraOffer(i).claimUntilHeight
  /\ EraOffer(i)'.buyer = EraOffer(i).buyer
  /\ EraOffer(i)'.terms.taker = EraOffer(i).terms.taker
  /\ Lane(EraOffer(i)') = Lane(EraOffer(i))

OthersKept(i) == \A j \in OfferIds \ {i} : SameEra(j)

\* Offer i is of V28 or later before and after the step.
InEra(i) == EraOffer(i) = offers[i] /\ EraOffer(i)' = offers'[i]

\* An offer at rest is at rest for the contract.
LEMMA SameSaleSameEra ==
  ASSUME NEW i, SameSale(i) PROVE SameEra(i)
  BY DEF SameSale, SameHold, SameEra, EraOffer, Lane

\* So is one published before V28, whatever happens to it.
LEMMA OldSaleSameEra ==
  ASSUME NEW i, ~(offers[i].height >= V28_HEIGHT), ~(offers'[i].height >= V28_HEIGHT)
  PROVE  SameEra(i)
  BY DEF SameEra, EraOffer

\* The lane of a listing is that of its terms.
LEMMA SameLane ==
  ASSUME NEW i, InEra(i), offers'[i].terms = offers[i].terms
  PROVE  /\ Lane(EraOffer(i)') = Lane(EraOffer(i))
         /\ EraOffer(i)'.terms.taker = EraOffer(i).terms.taker
  BY DEF InEra, Lane

\* A published offer is listed in the lane of its terms, and nobody holds it.
LEMMA PublishedLists ==
  ASSUME Types, Blank, height' = height, height >= V28_HEIGHT, NEW i \in OfferIds,
         Published(i), OthersKept(i)
  PROVE  Contract!List(i)
  <1> DEFINE q == offers'[i]
  <1>1. PICK who \in Addrs, x \in OfferTerms, E \in Nat :
           q = [NoOffer EXCEPT !.status = "open", !.seller = who, !.terms = x,
                               !.expiresEpoch = E, !.height = height]
    <2>1. \E who \in Addrs, x \in OfferTerms, E \in Nat :
             /\ offers'[i] = [NoOffer EXCEPT !.status = "open", !.seller = who, !.terms = x,
                                             !.expiresEpoch = E, !.height = height]
             /\ ~isNameGive(x.give) => offerLock'[i] = x.give.amount
      BY Zenon DEF Published
    <2> QED BY <2>1, Zenon
  <1>2. /\ q.status = "open" /\ q.terms = x /\ q.claimedBy = None
        /\ q.claimUntilHeight = 0 /\ q.buyer = None /\ q.height = height
    BY <1>1 DEF NoOffer
  <1>3. EraOffer(i) = NoOffer /\ EraOffer(i)' = q
    BY <1>2 DEF Published, Blank, EraOffer
  <1>4. x.taker \in Addrs \cup {None}
    BY OfferTermsAssumption DEF OfferShape
  <1>5. Lane(q) \in {"open", "quote", "swap"} /\ (Lane(q) = "quote" <=> q.terms.taker # None)
    BY DEF Lane
  <1>6. /\ Lane(q) \in {"open", "quote", "swap"} /\ q.terms.taker \in Addrs \cup {None}
        /\ Lane(q) = "quote" <=> q.terms.taker # None
    BY <1>2, <1>4, <1>5
  <1>7. /\ EraOffer(i).status = "none" /\ EraOffer(i).claimedBy = None
        /\ EraOffer(i).claimUntilHeight = 0 /\ EraOffer(i).buyer = None
    BY <1>3 DEF NoOffer
  <1> HIDE DEF q
  <1>8. /\ [j \in OfferIds |-> Lane(EraOffer(j)')]
             = [[j \in OfferIds |-> Lane(EraOffer(j))] EXCEPT ![i] = Lane(q)]
        /\ [j \in OfferIds |-> EraOffer(j)'.terms.taker]
             = [[j \in OfferIds |-> EraOffer(j).terms.taker] EXCEPT ![i] = q.terms.taker]
    BY <1>3 DEF OthersKept, SameEra
  <1>9. /\ [j \in OfferIds |-> EraOffer(j)'.status]
             = [[j \in OfferIds |-> EraOffer(j).status] EXCEPT ![i] = "open"]
        /\ [j \in OfferIds |-> EraOffer(j)'.claimedBy] = [j \in OfferIds |-> EraOffer(j).claimedBy]
        /\ [j \in OfferIds |-> EraOffer(j)'.claimUntilHeight]
             = [j \in OfferIds |-> EraOffer(j).claimUntilHeight]
        /\ [j \in OfferIds |-> EraOffer(j)'.buyer] = [j \in OfferIds |-> EraOffer(j).buyer]
    BY <1>2, <1>3, <1>7 DEF OthersKept, SameEra
  <1> QED BY <1>6, <1>7, <1>8, <1>9 DEF Contract!List

\* A grant is a hold of at most MaxHold blocks on an open listing nobody holds.
LEMMA GrantHolds ==
  ASSUME Types, SalesOk, height' = height, NEW i \in OfferIds, NEW f \in FclaimIds,
         NEW who \in Addrs, NEW E \in Nat, Grants(i, f, who, E), OthersKept(i),
         offers[i].height >= V28_HEIGHT, InEra(i)
  PROVE  Contract!Hold(i)
  <1> DEFINE L == EPOCH_LEN
             M == (FCLAIM_MAX_EPOCH_AHEAD + 1) * L
             until == (E + 1) * L
  <1>1. /\ height \in Nat /\ L \in Nat \ {0} /\ FCLAIM_MAX_EPOCH_AHEAD \in Nat
        /\ until \in Nat /\ M \in Nat /\ epochOf(height) \in Nat
    BY ParametersAssumption, NatProduct, EpochNat DEF Types, ChainTypes
  <1>2. height + 1 <= until
    BY <1>1, EpochBounds DEF Grants
  <1>3. until <= height + M
    <2>1. E <= epochOf(height) + FCLAIM_MAX_EPOCH_AHEAD
      BY DEF Grants
    <2>2. epochOf(height) * L <= height
      BY <1>1 DEF epochOf
    <2>3. \A e, h, a \in Nat, l \in Nat \ {0} : e <= h + a => (e + 1) * l <= h * l + (a + 1) * l
      OBVIOUS
    <2>4. until <= epochOf(height) * L + M
      BY <1>1, <2>1, <2>3
    <2> HIDE DEF until, M
    <2> QED BY <1>1, <2>2, <2>4, NatProduct
  <1>4. /\ offers'[i].claimedBy = who /\ offers'[i].claimUntilHeight = until
        /\ offers'[i].status = "open" /\ offers[i].status = "open"
        /\ offers'[i].terms = offers[i].terms /\ offers'[i].buyer = offers[i].buyer
    BY GrantFields
  <1>5. Lane(offers[i]) = "open"
    BY DEF Grants, Lane
  <1>6. ~Kept(i)
    BY KeptIsHeld DEF Grants
  <1> HIDE DEF until, M
  <1>7. until \in height + 1 .. height + M
    BY <1>1, <1>2, <1>3
  <1> QED BY <1>4, <1>5, <1>6, <1>7, SameLane DEF Contract!Hold, Contract!Held, Kept, OthersKept,
                                                  SameEra, InEra, M

\* A sale in the open lane is to the holder, in the quote lane to the taker.
LEMMA SoldSells ==
  ASSUME Types, SalesOk, [Next]_vars, height' = height, NEW i \in OfferIds, NEW who \in Addrs,
         SoldTo(i, who), OthersKept(i), offers[i].height >= V28_HEIGHT, InEra(i)
  PROVE  Contract!Sell(i)
  <1>1. /\ offers[i].status = "open" /\ offers'[i].status = "filled"
        /\ offers'[i].buyer = who /\ SameHold(i)
    BY DEF SoldTo, Open
  <1>2. offers'[i].terms = offers[i].terms
    BY <1>1, TermsStay
  <1>3. Lane(offers[i]) = "open" => Kept(i) /\ who = offers[i].claimedBy
    BY KeptIsHeld DEF SoldTo, Lane
  <1>4. Lane(offers[i]) = "quote" => who = offers[i].terms.taker
    BY DEF SoldTo, Lane
  <1>5. /\ Lane(EraOffer(i)') = Lane(offers[i])
        /\ EraOffer(i)'.terms.taker = offers[i].terms.taker
    BY <1>2, SameLane DEF InEra
  <1> QED BY <1>1, <1>3, <1>4, <1>5 DEF Contract!Sell, Contract!Held, Kept, OthersKept,
                                        SameEra, SameHold, InEra

\* Neither a firm quote nor a held listing is withdrawn, and none that is held expires.
LEMMA EndedEnds ==
  ASSUME Types, SalesOk, height' = height, NEW i \in OfferIds,
         Withdrawn(i) \/ RunsOut(i), OthersKept(i), offers[i].height >= V28_HEIGHT, InEra(i)
  PROVE  Contract!Withdraw(i) \/ Contract!Expire(i)
  <1>1. /\ SameHold(i) /\ offers[i].status = "open" /\ offers'[i].buyer = offers[i].buyer
        /\ offers'[i].terms = offers[i].terms
        /\ Withdrawn(i) => offers'[i].status = "cancelled"
        /\ RunsOut(i) => offers'[i].status = "expired"
    BY EndFields DEF Open
  <1>2. /\ Lane(EraOffer(i)') = Lane(EraOffer(i))
        /\ EraOffer(i)'.terms.taker = EraOffer(i).terms.taker
    BY <1>1, SameLane
  <1>3. offers[i].height \in Nat /\ height \in Nat /\ offers[i].expiresEpoch \in Nat
    BY DEF Types, OfferTypes, OfferRec, ChainTypes
  <1>4. CASE Withdrawn(i)
    <2>1. Lane(offers[i]) # "quote"
      BY <1>3, <1>4 DEF Withdrawn, FirmQuote, Lane
    <2>2. ~Kept(i)
      BY <1>4, KeptIsHeld DEF Withdrawn
    <2>3. Contract!Withdraw(i)
      BY <1>1, <1>2, <1>4, <2>1, <2>2 DEF Contract!Withdraw, Contract!Held, Kept, OthersKept,
                                          SameEra, SameHold, InEra
    <2> QED BY <2>3
  <1>5. CASE RunsOut(i)
    <2>1. epochOf(height) > offers[i].expiresEpoch /\ epochOf(height) \in Nat
      BY <1>3, <1>5, EraExpiry, EpochNat DEF RunsOut
    <2>2. ~Kept(i)
      BY <1>3, <2>1, KeptIsHeld
    <2>3. Contract!Expire(i)
      BY <1>1, <1>2, <1>5, <2>2 DEF Contract!Expire, Contract!Held, Kept, OthersKept,
                                    SameEra, SameHold, InEra
    <2> QED BY <2>3
  <1> QED BY <1>4, <1>5

\* From V28 on every step of the replay is a step of the contract, or none.
LEMMA LateStepKeeps ==
  ASSUME Types, Types', Blank, NamesOk, PendingOk, SalesOk, [Next]_vars, height >= V28_HEIGHT
  PROVE  [Contract!Next]_(Contract!vars)
  <1>1. SaleStep
    BY StepSales
  <1>2. CASE height' = height + 1 /\ offers' = offers
    <2>1. \A i \in OfferIds : EraOffer(i)' = EraOffer(i)
      BY <1>2 DEF EraOffer
    <2>2. Contract!Tick
      BY <1>2, <2>1 DEF Contract!Tick, Types, ChainTypes
    <2> QED BY <2>2 DEF Contract!Next
  <1>3. CASE height' = height /\ \A i \in OfferIds : SameEra(i)
    BY <1>3 DEF Contract!vars, SameEra
  <1>4. CASE height' = height /\ \A i \in OfferIds : SameSale(i)
    BY <1>3, <1>4, SameSaleSameEra
  <1>5. ASSUME height' = height, NEW i \in OfferIds, Moved(i),
               \A j \in OfferIds \ {i} : SameSale(j)
        PROVE  [Contract!Next]_(Contract!vars)
    <2>1. OthersKept(i)
      BY <1>5, SameSaleSameEra DEF OthersKept
    <2>2. CASE Published(i)
      BY <1>5, <2>1, <2>2, PublishedLists DEF Contract!Next
    <2>3. CASE ~Published(i)
      <3>1. offers[i].status # "none" /\ offers'[i].height = offers[i].height
        <4>1. offers[i].status # "none"
          BY <1>5, <2>3 DEF Moved, Withdrawn, RunsOut, SoldTo, Grants, Open
        <4> QED BY <4>1, TermsStay
      <3>2. CASE ~(offers[i].height >= V28_HEIGHT)
        BY <1>3, <1>5, <2>1, <3>1, <3>2, OldSaleSameEra DEF OthersKept
      <3>3. CASE offers[i].height >= V28_HEIGHT
        <4>1. InEra(i)
          BY <3>1, <3>3 DEF InEra, EraOffer
        <4>2. CASE Withdrawn(i) \/ RunsOut(i)
          BY <1>5, <2>1, <3>3, <4>1, <4>2, EndedEnds DEF Contract!Next
        <4>3. CASE \E who \in Addrs : SoldTo(i, who)
          BY <1>5, <2>1, <3>3, <4>1, <4>3, SoldSells DEF Contract!Next
        <4>4. CASE \E f \in FclaimIds, who \in Addrs, E \in Nat : Grants(i, f, who, E)
          BY <1>5, <2>1, <3>3, <4>1, <4>4, GrantHolds DEF Contract!Next
        <4> QED BY <1>5, <2>3, <4>2, <4>3, <4>4 DEF Moved
      <3> QED BY <3>2, <3>3
    <2> QED BY <2>2, <2>3
  <1> QED BY <1>1, <1>2, <1>4, <1>5 DEF SaleStep

\* Before V28 only the contract's time passes.
LEMMA EarlyStepKeeps ==
  ASSUME Types, Types', SalesOk, [Next]_vars, height < V28_HEIGHT
  PROVE  [Contract!Next]_(Contract!vars)
  <1>1. \A i \in OfferIds : /\ ~(offers[i].height >= V28_HEIGHT)
                            /\ ~(offers'[i].height >= V28_HEIGHT)
    <2> SUFFICES ASSUME NEW i \in OfferIds
                 PROVE  /\ ~(offers[i].height >= V28_HEIGHT)
                        /\ ~(offers'[i].height >= V28_HEIGHT)
      OBVIOUS
    <2>1. offers[i].height \in Nat /\ offers'[i].height \in Nat
      BY DEF Types, OfferTypes, OfferRec
    <2> QED BY <2>1, EarlySales, GatesAssumption
  <1>2. \A i \in OfferIds : EraOffer(i)' = EraOffer(i)
    BY <1>1 DEF EraOffer
  <1>3. height \in Nat /\ height' \in Nat /\ height <= height'
    BY HeightSteps DEF Types, ChainTypes
  <1>4. CASE height' = height
    BY <1>2, <1>4 DEF Contract!vars
  <1>5. CASE height' > height
    <2>1. Contract!Tick
      BY <1>2, <1>5 DEF Contract!Tick
    <2> QED BY <2>1 DEF Contract!Next
  <1> QED BY <1>3, <1>4, <1>5

\* Whatever the sellers, the buyers, the offers and the feed, and wherever the
\* gates lie: the replay keeps the contract of every listing published from V28
\* on.  It is sold only to its live holder or to its taker, and neither changes
\* hands, nor is withdrawn, nor expires under a hold.
THEOREM ReplayKeepsContract == Spec => KeepsContract
  <1>1. Init => Contract!Init
    <2> SUFFICES ASSUME Init PROVE Contract!Init
      OBVIOUS
    <2>1. NoTerms.want.asset # CSD
      BY SetsAssumption DEF NoTerms
    <2>2. Lane(NoOffer) = "swap"
      BY <2>1 DEF Lane, NoOffer, isTokenWant, NoTerms
    <2>3. /\ NoOffer.status = "none" /\ NoOffer.terms.taker = None /\ NoOffer.claimedBy = None
          /\ NoOffer.claimUntilHeight = 0 /\ NoOffer.buyer = None
      BY DEF NoOffer, NoTerms
    <2>4. \A i \in OfferIds : EraOffer(i) = NoOffer
      BY DEF Init, EraOffer
    <2> QED BY <2>2, <2>3, <2>4, GatesAssumption DEF Init, Contract!Init
  <1>2. Types /\ Types' /\ Blank /\ NamesOk /\ PendingOk /\ SalesOk /\ [Next]_vars
        => [Contract!Next]_(Contract!vars)
    <2>1. Types => height < V28_HEIGHT \/ height >= V28_HEIGHT
      BY GatesAssumption DEF Types, ChainTypes
    <2> QED BY <2>1, EarlyStepKeeps, LateStepKeeps
  <1> QED BY <1>1, <1>2, TypesInvariant, BlankInvariant, NamesInvariant, PendingInvariant,
             SalesInvariant, PTL DEF Spec, KeepsContract, Contract!Spec

-----------------------------------------------------------------------------
(* Cancels.                                                                *)

\* From V14 on no anchor that can still be revealed beats a listed name's: the
\* listing waited longer than the reveal window, or is from before V13, of
\* which every reveal has passed.
LEMMA WinnerUnlisted ==
  ASSUME Types, NamesOk, height >= V14_HEIGHT, NEW n \in Names, NEW who \in Addrs,
         NEW salt \in Salts \cup {None}, NEW txid \in AnchorIds, RevealValid(n, who, salt),
         winsName(Anchor(n, who, salt, txid), n)
  PROVE  \A i \in OfferIds : ~Of(offers[i], n)
  <1> DEFINE r == names[n]
             anchor == Anchor(n, who, salt, txid)
  <1> SUFFICES ASSUME NEW i \in OfferIds, Of(offers[i], n) PROVE FALSE
    OBVIOUS
  <1> DEFINE o == offers[i]
  <1>1. /\ ListingOk(o, n) /\ ~r.pending /\ r.owner # None /\ o.height <= height
    BY SetsAssumption DEF NamesOk, NameOk, ListingOk
  <1>2. ~r.viaFill /\ earlierAnchor(anchor, r)
    BY <1>1 DEF winsName, curActive
  <1>3. /\ height \in Nat /\ r.effHeight \in Nat /\ o.height \in Nat
    BY NameFields, OfferFields DEF Types, ChainTypes
  <1>4. /\ anchor.effHeight \in Nat /\ anchor.effHeight <= height
        /\ salt # None => height - anchor.effHeight <= RevealWindow
        /\ salt = None => anchor.effHeight = height
    BY AnchorHeight DEF Anchor
  <1>5. anchor.effHeight <= r.effHeight
    BY <1>2, <1>3, <1>4 DEF earlierAnchor
  <1> HIDE DEF anchor
  <1>6. /\ RevealWindow \in Nat /\ RevealWindow <= COMMIT_MAX_BLOCKS
        /\ height - r.effHeight <= RevealWindow
    BY <1>3, <1>4, <1>5, ParametersAssumption, GateDistanceAssumption DEF RevealWindow
  <1>7. CASE o.height >= V13_HEIGHT /\ r.effHeight + embargo(o.height) < o.height
    <2>1. RevealWindow <= embargo(o.height) /\ embargo(o.height) \in Nat
      BY <1>1, <1>3, ParametersAssumption, GateOrderAssumption, GateDistanceAssumption,
         GatesAssumption DEF RevealWindow, embargo
    <2> QED BY <1>1, <1>3, <1>6, <1>7, <2>1
  <1>8. CASE ACTIVATION_HEIGHT <= o.height /\ o.height < V13_HEIGHT /\ r.effHeight <= o.height
    <2>1. V13_HEIGHT + COMMIT_MAX_BLOCKS <= height
      BY <1>3, <1>8, ParametersAssumption, GateDistanceAssumption, GatesAssumption
    <2> QED BY <1>3, <1>6, <1>8, <2>1, ParametersAssumption, GatesAssumption
  <1> QED BY <1>1, <1>2, <1>7, <1>8 DEF ListingOk

\* From V14 on no record of a name ends a listing of it.
LEMMA NothingToVoid ==
  ASSUME Types, NamesOk, Settled, height >= V14_HEIGHT, NEW who \in Addrs, NameRecord(who),
         NEW i \in OfferIds
  PROVE  offers'[i] = offers[i]
  <1>1. ASSUME NEW n \in Names, voidOpenNameOffers(n), \A j \in OfferIds : ~Of(offers[j], n)
        PROVE  offers'[i] = offers[i]
    <2>1. i \notin openNameOffers(n)
      BY <1>1 DEF openNameOffers, Of, Lists, Open
    <2> QED BY <1>1, <2>1 DEF voidOpenNameOffers
  <1>2. ASSUME NEW n \in Names, lapsedNow(n)
        PROVE  \A j \in OfferIds : ~Of(offers[j], n)
    <2>1. height >= V15_HEIGHT /\ lapsed(names[n], epochOf(height))
      BY <1>2, SetsAssumption DEF lapsedNow, curActive, NoName
    <2> QED BY <2>1, LeaseOutlives
  <1>3. CASE \E n \in Names, salt \in Salts \cup {None}, txid \in AnchorIds,
                fee \in Payments : applyName(n, who, salt, txid, fee)
    <2> PICK n \in Names, salt \in Salts \cup {None}, txid \in AnchorIds,
             fee \in Payments : applyName(n, who, salt, txid, fee)
      BY <1>3
    <2>1. offers' = offers \/ voidOpenNameOffers(n)
      BY DEF applyName, reserveRecapture, reclaimLapsed, reserveName, registerName, takeName
    <2>2. CASE reserveRecapture(n, who, salt, txid)
      BY <2>2 DEF reserveRecapture
    <2>3. CASE reclaimLapsed(n, who, salt, txid, fee)
      BY <1>1, <1>2, <2>1, <2>3 DEF reclaimLapsed
    <2>4. CASE reserveName(n, who, salt, txid) \/ registerName(n, who, salt, txid, fee)
      <3>1. RevealValid(n, who, salt) /\ winsName(Anchor(n, who, salt, txid), n)
        BY <2>4 DEF reserveName, registerName
      <3> QED BY <1>1, <2>1, <3>1, WinnerUnlisted
    <2> QED BY <2>2, <2>3, <2>4 DEF applyName
  <1>4. CASE \E n \in Names, salt \in Salts, fee \in Payments : applyNfinalize(n, who, salt, fee)
    <2> PICK n \in Names, salt \in Salts, fee \in Payments : applyNfinalize(n, who, salt, fee)
      BY <1>4
    <2>1. CASE offers' = offers
      BY <2>1
    <2>2. CASE offers' # offers
      <3>1. finalizeRecapture(n, who, salt, fee) /\ voidOpenNameOffers(n)
        BY <2>2 DEF applyNfinalize, finalizeRegistration, finalizeRecapture
      <3>2. recaptures[n].owner # None
        BY <3>1, SetsAssumption DEF finalizeRecapture, finalizable
      <3> QED BY <1>1, <3>1, <3>2, RecaptureStands
    <2> QED BY <2>1, <2>2
  <1>5. CASE \/ \E key \in CommitKeys : applyNcommit(key)
             \/ \E n \in Names, to \in Addrs : applyNxfer(n, who, to)
             \/ \E n \in Names, target \in NameTargets : applyNset(n, who, target)
             \/ \E n \in Names, p \in Contents \cup {None} : applyNprofile(n, who, p)
             \/ \E n \in Names, fee \in Payments : applyNrenew(n, who, fee)
    BY <1>5 DEF applyNcommit, applyNxfer, applyNset, applyNprofile, applyNrenew, OnlyNames
  <1> QED BY <1>3, <1>4, <1>5 DEF NameRecord

\* A market record or an attest cancels nothing at once.
LEMMA NotCancelled ==
  ASSUME NEW i \in OfferIds, offers[i] \in OfferRec, Open(i), MovesOn(i)
  PROVE  offers'[i].status # "cancelled"
  BY DEF MovesOn, Rests, Published, Claimed, Sold, PartSold, Open, OfferRec

\* FillBeatsCancel: from V14 an offer is cancelled by the flush alone.  An attest
\* and a market record cancel nothing, a name record finds no listing to void, and
\* the cancel of an older block has been flushed in it.
THEOREM FillsBeatCancels == Spec => FillBeatsCancel
  <1>1. ASSUME Types, NamesOk, PendingOk, [Next]_vars, NEW i \in OfferIds, Open(i),
               offers'[i].status = "cancelled", height >= V14_HEIGHT
        PROVE  phase' = "flush"
    <2>1. height \in Nat /\ offers[i].status = "open" /\ offers[i] \in OfferRec
      BY <1>1 DEF Open, Types, ChainTypes, OfferTypes
    <2>2. CASE ReplayLoop
      <3>1. CASE \E c \in pendingCancels : FlushCancel(c)
        <4> PICK c \in pendingCancels : FlushCancel(c)
          BY <3>1
        <4>1. c.at = height
          BY <1>1 DEF PendingOk
        <4>2. ~CancelDue(c)
          BY <1>1, <2>1, <4>1, GatesAssumption DEF CancelDue
        <4> QED BY <4>2 DEF FlushCancel
      <3>2. CASE \E id \in OfferIds : ExpireOffer(id)
        <4> PICK id \in OfferIds : ExpireOffer(id)
          BY <3>2
        <4>1. offers' = [offers EXCEPT ![id].status = "expired"]
          BY DEF ExpireOffer, setOfferStatus
        <4>2. offers'[i].status \in {"open", "expired"}
          BY <1>1, <2>1, <4>1 DEF Types, OfferTypes, OfferRec
        <4> QED BY <1>1, <4>2
      <3>3. CASE NextBlock \/ (\E b \in BidIds : ExpireBid(b))
                 \/ (\E n \in Names : DropReservation(n)) \/ (\E n \in Names : DropRecapture(n))
        BY <1>1, <2>1, <3>3 DEF NextBlock, ExpireBid, DropReservation, DropRecapture, marketVars
      <3> QED BY <2>2, <3>1, <3>2, <3>3 DEF ReplayLoop
    <2>3. CASE ProposeEvent
      <3> PICK who \in Addrs, p \in 1 .. MaxPos :
               Event("propose", p) /\ (TokenRecord(who) \/ MarketRecord(who) \/ NameRecord(who))
        BY <2>3 DEF ProposeEvent
      <3>1. Settled /\ height' = height
        BY DEF Event
      <3>2. CASE TokenRecord(who)
        BY <1>1, <2>1, <3>2, TokenTypes DEF Types, marketVars
      <3>3. CASE MarketRecord(who)
        BY <1>1, <2>1, <3>1, <3>3, MarketRecordMoves, NotCancelled
      <3>4. CASE NameRecord(who)
        BY <1>1, <2>1, <3>1, <3>4, NothingToVoid
      <3> QED BY <3>2, <3>3, <3>4
    <2>4. CASE AttestStep
      BY <1>1, <2>1, <2>4, AttestMoves, NotCancelled DEF AttestStep, Event
    <2>5. CASE UNCHANGED vars
      BY <1>1, <2>1, <2>5 DEF vars, marketVars
    <2> QED BY <1>1, <2>2, <2>3, <2>4, <2>5 DEF Next
  <1>2. (Types /\ NamesOk /\ PendingOk) /\ [Next]_vars =>
          [\A i \in OfferIds : Open(i) /\ offers'[i].status = "cancelled" /\ height >= V14_HEIGHT
             => phase' = "flush"]_vars
    BY <1>1
  <1> QED BY <1>2, TypesInvariant, NamesInvariant, PendingInvariant, PTL DEF Spec, FillBeatsCancel

=============================================================================
