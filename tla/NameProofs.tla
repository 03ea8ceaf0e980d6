----------------------------- MODULE NameProofs -----------------------------
(***************************************************************************)
(* Theorems about names: a name is locked exactly while one listing of its *)
(* owner sells it, a listing never outlives the lease, and a name changes  *)
(* hands, anchor or lease only by the rules of its contest, of its sale or *)
(* of its premium.                                                         *)
(***************************************************************************)
EXTENDS ResolverProofs, FiniteSetTheorems

-----------------------------------------------------------------------------
(* The listings of names, and how a step moves them together with the      *)
(* name they sell.                                                         *)

\* Offer i sells a name, and what the name's rules read of it.
Lists(o) == o.status = "open" /\ o.terms.give.asset \in Names
Listing(i) == Lists(offers[i])

SameListing(i) ==
  /\ Lists(offers'[i]) <=> Lists(offers[i])
  /\ Lists(offers[i]) =>
       /\ offers'[i].terms = offers[i].terms /\ offers'[i].seller = offers[i].seller
       /\ offers'[i].height = offers[i].height
       /\ offers'[i].expiresEpoch = offers[i].expiresEpoch

OthersSame(i) == \A j \in OfferIds \ {i} : SameListing(j)

\* Nothing about names moves.
Quiet == UNCHANGED nameVars /\ \A i \in OfferIds : SameListing(i)

\* Offer i begins to sell name n for who.
Enlists(i, n, who) ==
  /\ ~Listing(i) /\ OthersSame(i)
  /\ Lists(offers'[i]) /\ offers'[i].terms.give.asset = n
  /\ offers'[i].seller = who /\ offers'[i].height = height
  /\ offers'[i].expiresEpoch \in Nat /\ epochOf(height) <= offers'[i].expiresEpoch
  /\ nameOfferable(names[n], who, offers'[i].expiresEpoch)
  /\ names' = [names EXCEPT ![n].locked = TRUE]
  /\ UNCHANGED <<commits, recaptures>>

\* Offer i ends unsold: its seller's cancel, or its expiry.
Delists(i, n) ==
  /\ Listing(i) /\ offers[i].terms.give.asset = n
  /\ ~Lists(offers'[i]) /\ OthersSame(i)
  /\ offers'[i].status = "cancelled" => phase' = "flush" \/ \E c \in pendingCancels : CancelDue(c)
  /\ names' = [names EXCEPT ![n].locked = FALSE]
  /\ UNCHANGED <<commits, recaptures>>

\* Offer i is sold to who, and its name delivered.
Delivers(i, n, who) ==
  /\ Settled
  /\ Listing(i) /\ offers[i].terms.give.asset = n
  /\ offers'[i].status = "filled" /\ offers'[i].buyer = who /\ OthersSame(i)
  /\ \E txid \in AnchorIds : deliverNameToBuyer(n, who, txid)
  /\ UNCHANGED <<commits, recaptures>>

NameStep ==
  \/ Quiet
  \/ /\ height' = height
     /\ \/ Settled /\ \E who \in Addrs : NameRecord(who)
        \/ \E n \in Names : DropReservation(n) \/ DropRecapture(n)
        \/ \E i \in OfferIds, n \in Names, who \in Addrs :
             Enlists(i, n, who) \/ Delists(i, n) \/ Delivers(i, n, who)

\* An offer that is not written is the same listing.
LEMMA SameIfUnchanged ==
  ASSUME NEW i \in OfferIds, offers'[i] = offers[i] PROVE SameListing(i)
  BY DEF SameListing

\* A write to one offer leaves the other listings alone.
LEMMA OthersStay ==
  ASSUME Types, NEW id \in OfferIds, NEW rec, offers' = [offers EXCEPT ![id] = rec]
  PROVE  OthersSame(id) /\ offers'[id] = rec
  <1>1. offers \in [OfferIds -> OfferRec]
    BY DEF Types, OfferTypes
  <1>2. \A j \in OfferIds \ {id} : offers'[j] = offers[j]
    BY <1>1
  <1> QED BY <1>1, <1>2 DEF OthersSame, SameListing

\* A write that keeps the listing fields of one offer is quiet.
LEMMA QuietWrite ==
  ASSUME Types, NEW id \in OfferIds, NEW rec, offers' = [offers EXCEPT ![id] = rec],
         UNCHANGED nameVars,
         \/ ~Lists(offers[id]) /\ ~Lists(rec)
         \/ /\ Lists(rec) <=> Lists(offers[id])
            /\ rec.terms = offers[id].terms /\ rec.seller = offers[id].seller
            /\ rec.height = offers[id].height /\ rec.expiresEpoch = offers[id].expiresEpoch
  PROVE  Quiet
  <1>1. OthersSame(id) /\ offers'[id] = rec
    BY OthersStay
  <1>2. SameListing(id)
    BY <1>1 DEF SameListing
  <1> QED BY <1>1, <1>2 DEF Quiet, OthersSame

LEMMA MarketRecordNames ==
  ASSUME Types, NEW who \in Addrs, MarketRecord(who), height' = height
  PROVE  NameStep
  <1>1. CASE \E id \in OfferIds, x \in OfferTerms, E \in Expiries : applyOffer(id, who, x, E)
    <2> PICK id \in OfferIds, x \in OfferTerms, E \in Expiries : applyOffer(id, who, x, E)
      BY <1>1
    <2> DEFINE rec == [NoOffer EXCEPT !.status = "open", !.seller = who, !.terms = x,
                                      !.expiresEpoch = E, !.height = height]
    <2>1. /\ offers[id].status = "none" /\ offers' = [offers EXCEPT ![id] = rec]
          /\ lockGive(id, x.give, who, E) /\ UNCHANGED <<commits, recaptures>>
          /\ epochOf(height) <= E
      BY DEF applyOffer, offerEnvelopeOk
    <2>2. /\ rec.status = "open" /\ rec.seller = who /\ rec.terms = x
          /\ rec.expiresEpoch = E /\ rec.height = height
      BY DEF NoOffer
    <2>3. ~Lists(offers[id]) /\ E \in Nat
      BY <2>1, OfferTermsAssumption DEF Lists
    <2>4. OthersSame(id) /\ offers'[id] = rec
      BY <2>1, OthersStay
    <2> HIDE DEF rec
    <2>5. CASE isNameGive(x.give)
      <3>1. /\ x.give.asset \in Names /\ Lists(rec)
            /\ nameOfferable(names[x.give.asset], who, E)
            /\ names' = [names EXCEPT ![x.give.asset].locked = TRUE]
        BY <2>1, <2>2, <2>5 DEF lockGive, isNameGive, Lists
      <3>2. Enlists(id, x.give.asset, who)
        BY <2>1, <2>2, <2>3, <2>4, <3>1 DEF Enlists, Listing
      <3> QED BY <3>1, <3>2 DEF NameStep
    <2>6. CASE ~isNameGive(x.give)
      <3>1. ~Lists(rec)
        BY <2>2, <2>6 DEF Lists, isNameGive
      <3>2. UNCHANGED names
        BY <2>1, <2>6 DEF lockGive
      <3>3. Quiet
        BY <2>1, <2>3, <3>1, <3>2, QuietWrite DEF nameVars
      <3> QED BY <3>3 DEF NameStep
    <2> QED BY <2>5, <2>6
  <1>2. CASE \E b \in BidIds, E \in Expiries : applyBid(b, who, E)
    BY <1>2, SameIfUnchanged DEF applyBid, NameStep, Quiet
  <1>3. CASE \E filter \in Tickers \cup Names \cup {None} : applyOcancel(who, filter)
    BY <1>3, SameIfUnchanged DEF applyOcancel, NameStep, Quiet
  <1>4. CASE \E f \in FclaimIds, id \in OfferIds, E \in Expiries : applyFclaim(f, who, id, E)
    <2> PICK f \in FclaimIds, id \in OfferIds, E \in Expiries : applyFclaim(f, who, id, E)
      BY <1>4
    <2> DEFINE held == [offers[id] EXCEPT !.claimedBy = who, !.claimTxid = f,
                                          !.claimUntilHeight = (E + 1) * EPOCH_LEN]
    <2>1. UNCHANGED nameVars /\ (offers' = offers \/ offers' = [offers EXCEPT ![id] = held])
      BY DEF applyFclaim
    <2>2. CASE offers' = offers
      BY <2>1, <2>2, SameIfUnchanged DEF NameStep, Quiet
    <2>3. CASE offers' = [offers EXCEPT ![id] = held]
      <3>1. /\ held.status = offers[id].status /\ held.terms = offers[id].terms
            /\ held.seller = offers[id].seller /\ held.height = offers[id].height
            /\ held.expiresEpoch = offers[id].expiresEpoch
        BY DEF Types, OfferTypes, OfferRec
      <3> HIDE DEF held
      <3>2. Quiet
        BY <2>1, <2>3, <3>1, QuietWrite DEF Lists
      <3> QED BY <3>2 DEF NameStep
    <2> QED BY <2>1, <2>2, <2>3
  <1> QED BY <1>1, <1>2, <1>3, <1>4 DEF MarketRecord

LEMMA AttestNames ==
  ASSUME Types, NEW who \in Addrs, AttestEvent(who), height' = height, Settled
  PROVE  NameStep
  <1>1. ASSUME NEW id \in OfferIds, Open(id), NEW txid \in AnchorIds, markFilled(id, who),
               UNCHANGED <<commits, recaptures>>,
               IF isNameGive(offers[id].terms.give)
                 THEN deliverNameToBuyer(offers[id].terms.give.asset, who, txid)
                 ELSE UNCHANGED names
        PROVE  NameStep
    <2> DEFINE sold == [offers[id] EXCEPT !.status = "filled", !.buyer = who]
               n == offers[id].terms.give.asset
    <2>1. /\ OthersSame(id) /\ offers'[id] = sold /\ sold.status = "filled"
          /\ sold.buyer = who /\ ~Lists(sold) /\ offers' = [offers EXCEPT ![id] = sold]
      <3>1. offers' = [offers EXCEPT ![id] = sold]
        BY <1>1 DEF markFilled
      <3>2. sold.status = "filled" /\ sold.buyer = who
        BY DEF Types, OfferTypes, OfferRec
      <3> QED BY <3>1, <3>2, OthersStay DEF Lists
    <2> HIDE DEF sold
    <2>2. CASE isNameGive(offers[id].terms.give)
      <3>1. Delivers(id, n, who) /\ n \in Names
        BY <1>1, <2>1, <2>2 DEF Delivers, Listing, Lists, isNameGive, Open
      <3> QED BY <3>1 DEF NameStep
    <2>3. CASE ~isNameGive(offers[id].terms.give)
      <3>1. ~Lists(offers[id])
        BY <2>3 DEF Lists, isNameGive
      <3>2. Quiet
        BY <1>1, <2>1, <2>3, <3>1, QuietWrite DEF nameVars
      <3> QED BY <3>2 DEF NameStep
    <2> QED BY <2>2, <2>3
  <1>2. ASSUME NEW id \in OfferIds, NEW txid \in AnchorIds, applyTokenFill(id, who, txid)
        PROVE  NameStep
    BY <1>1, <1>2 DEF applyTokenFill, OpenToFiller
  <1>3. ASSUME NEW id \in OfferIds, NEW target, NEW pt \in PaidTo, NEW txid \in AnchorIds,
               applyFill(id, who, target, pt, txid)
        PROVE  NameStep
    BY <1>1, <1>3 DEF applyFill, deliverGive, OpenToFiller
  <1>4. ASSUME NEW id \in OfferIds, NEW target, NEW pt \in PaidTo,
               applyPartialFill(id, who, target, pt)
        PROVE  NameStep
    <2>1. /\ Open(id) /\ offers[id].terms.min # 0 /\ UNCHANGED nameVars
          /\ \E rec : offers' = [offers EXCEPT ![id] = rec] /\ rec.terms = offers[id].terms
      <3> DEFINE o == offers[id]
                 x == Smaller(pt[paytoOf(o)], o.terms.want.amount - o.paid)
                 part == [o EXCEPT !.paid = o.paid + x, !.delivered = deliveredAfter(o, o.paid + x)]
                 full == [part EXCEPT !.status = "filled", !.buyer = who]
      <3>1. offers' = [offers EXCEPT ![id] = part] \/ offers' = [offers EXCEPT ![id] = full]
        BY <1>4 DEF applyPartialFill
      <3>2. part.terms = o.terms /\ full.terms = o.terms
        BY DEF Types, OfferTypes, OfferRec
      <3> HIDE DEF part, full
      <3>3. \E rec : offers' = [offers EXCEPT ![id] = rec] /\ rec.terms = offers[id].terms
        BY <3>1, <3>2
      <3> QED BY <1>4, <3>3 DEF applyPartialFill, OpenToFiller, nameVars
    <2>2. offers[id].terms.give.asset \notin Names
      <3>1. OfferShape(offers[id].terms)
        BY <2>1, OfferParts DEF Open, Types
      <3> QED BY <2>1, <3>1, SetsAssumption DEF OfferShape
    <2> PICK rec : offers' = [offers EXCEPT ![id] = rec] /\ rec.terms = offers[id].terms
      BY <2>1
    <2>3. ~Lists(offers[id]) /\ ~Lists(rec)
      BY <2>2 DEF Lists
    <2>4. Quiet
      BY <2>1, <2>3, QuietWrite
    <2> QED BY <2>4 DEF NameStep
  <1>5. ASSUME NEW id \in OfferIds, applyLegacyClaim(id, who)
        PROVE  NameStep
    <2> DEFINE held == [offers[id] EXCEPT !.claimedBy = who,
                          !.claimUntilHeight = height + claimWindowAt(height)]
    <2>1. offers' = [offers EXCEPT ![id] = held] /\ UNCHANGED nameVars
      BY <1>5 DEF applyLegacyClaim
    <2>2. /\ held.status = offers[id].status /\ held.terms = offers[id].terms
          /\ held.seller = offers[id].seller /\ held.height = offers[id].height
          /\ held.expiresEpoch = offers[id].expiresEpoch
      BY DEF Types, OfferTypes, OfferRec
    <2> HIDE DEF held
    <2>3. Quiet
      BY <2>1, <2>2, QuietWrite DEF Lists
    <2> QED BY <2>3 DEF NameStep
  <1>6. ASSUME NEW target \in OfferIds \cup FclaimIds, NEW pt \in PaidTo, NEW txid \in AnchorIds,
               FillAttest(target, who, pt, txid)
        PROVE  NameStep
    <2> PICK id \in OfferIds :
           \/ applyTokenFill(id, who, txid)
           \/ applyPartialFill(id, who, target, pt)
           \/ applyFill(id, who, target, pt, txid)
      BY <1>6 DEF FillAttest, routedOffers
    <2> QED BY <1>2, <1>3, <1>4
  <1>7. CASE \/ \E id \in OfferIds : applyCancel(id, who)
             \/ \E b \in BidIds : cancelBid(b, who)
    BY <1>7, SameIfUnchanged DEF applyCancel, cancelBid, NameStep, Quiet
  <1> QED BY <1>5, <1>6, <1>7 DEF AttestEvent

LEMMA ReplayNames ==
  ASSUME Types, ReplayLoop
  PROVE  NameStep
  <1>1. ASSUME NEW id \in OfferIds, Open(id), NEW st \in {"cancelled", "expired"},
               setOfferStatus(id, st), releaseGive(id), UNCHANGED <<height, commits, recaptures>>,
               st = "cancelled" => phase' = "flush" \/ \E c \in pendingCancels : CancelDue(c)
        PROVE  NameStep
    <2> DEFINE ended == [offers[id] EXCEPT !.status = st]
               n == offers[id].terms.give.asset
    <2>1. /\ offers' = [offers EXCEPT ![id] = ended] /\ ended.status = st /\ ~Lists(ended)
          /\ OthersSame(id) /\ offers'[id] = ended
      <3>1. offers' = [offers EXCEPT ![id] = ended]
        BY <1>1 DEF setOfferStatus, Types, OfferTypes
      <3>2. ended.status = st
        BY DEF Types, OfferTypes, OfferRec
      <3> QED BY <3>1, <3>2, OthersStay DEF Lists
    <2> HIDE DEF ended
    <2>2. CASE isNameGive(offers[id].terms.give)
      <3>1. Delists(id, n) /\ n \in Names
        BY <1>1, <2>1, <2>2 DEF Delists, Listing, Lists, isNameGive, Open, releaseGive
      <3>2. \A who \in Addrs : Enlists(id, n, who) \/ Delists(id, n) \/ Delivers(id, n, who)
        BY <3>1
      <3> QED BY <1>1, <3>1, <3>2, SetsAssumption DEF NameStep
    <2>3. CASE ~isNameGive(offers[id].terms.give)
      <3>1. ~Lists(offers[id])
        BY <2>3 DEF Lists, isNameGive
      <3>2. UNCHANGED nameVars
        BY <1>1, <2>3 DEF releaseGive, nameVars
      <3>3. Quiet
        BY <2>1, <3>1, <3>2, QuietWrite
      <3> QED BY <3>3 DEF NameStep
    <2> QED BY <2>2, <2>3
  <1>2. CASE \E c \in pendingCancels : FlushCancel(c)
    <2> PICK c \in pendingCancels : FlushCancel(c)
      BY <1>2
    <2>1. c.offer \in OfferIds
      BY DEF Types, MarketTypes
    <2>2. CASE UNCHANGED <<offers, avail, locked, names>>
      BY <2>2, SameIfUnchanged DEF FlushCancel, NameStep, Quiet, nameVars
    <2>3. CASE Open(c.offer) /\ releaseGive(c.offer) /\ setOfferStatus(c.offer, "cancelled")
      <3>1. UNCHANGED <<height, commits, recaptures>>
            /\ (phase' = "flush" \/ \E d \in pendingCancels : CancelDue(d))
        BY DEF FlushCancel
      <3> QED BY <1>1, <2>1, <2>3, <3>1
    <2> QED BY <2>2, <2>3 DEF FlushCancel
  <1>3. CASE \E id \in OfferIds : ExpireOffer(id)
    <2> PICK id \in OfferIds : ExpireOffer(id)
      BY <1>3
    <2>1. /\ Open(id) /\ setOfferStatus(id, "expired") /\ releaseGive(id)
          /\ UNCHANGED <<height, commits, recaptures>>
      BY DEF ExpireOffer, StaleOffers, Stale, Open, chainVars
    <2> QED BY <1>1, <2>1
  <1>4. CASE NextBlock \/ \E b \in BidIds : ExpireBid(b)
    BY <1>4, SameIfUnchanged DEF NextBlock, ExpireBid, marketVars, NameStep, Quiet
  <1>5. CASE \E n \in Names : DropReservation(n) \/ DropRecapture(n)
    BY <1>5 DEF DropReservation, DropRecapture, chainVars, NameStep
  <1> QED BY <1>2, <1>3, <1>4, <1>5 DEF ReplayLoop

\* No step moves the names and their listings in any other way.
LEMMA StepNames ==
  ASSUME Types, [Next]_vars
  PROVE  NameStep
  <1>1. CASE ReplayLoop
    BY <1>1, ReplayNames
  <1>2. CASE ProposeEvent
    <2> PICK who \in Addrs, p \in 1 .. MaxPos :
             Event("propose", p) /\ (TokenRecord(who) \/ MarketRecord(who) \/ NameRecord(who))
      BY <1>2 DEF ProposeEvent
    <2>1. height' = height /\ Settled
      BY DEF Event
    <2>2. CASE TokenRecord(who)
      BY <2>2, TokenTypes, SameIfUnchanged DEF Types, marketVars, NameStep, Quiet
    <2>3. CASE MarketRecord(who)
      BY <2>1, <2>3, MarketRecordNames
    <2>4. CASE NameRecord(who)
      BY <2>1, <2>4 DEF NameStep
    <2> QED BY <2>2, <2>3, <2>4
  <1>3. CASE AttestStep
    BY <1>3, AttestNames DEF AttestStep, Event
  <1>4. CASE UNCHANGED vars
    BY <1>4, SameIfUnchanged DEF vars, marketVars, NameStep, Quiet
  <1> QED BY <1>1, <1>2, <1>3, <1>4 DEF Next

-----------------------------------------------------------------------------
(* The inductive invariant.                                                *)

leaseFloor == epochOf(V15_HEIGHT) + NAME_TERM_EPOCHS

\* A name record: what there is of it when it is free, reserved or owned.
RecordOk(n) ==
  LET r == names[n]
  IN /\ r.owner = None => r = NoName
     /\ r.pending => /\ r.owner # None /\ ~r.viaFill /\ ~r.locked
                     /\ height >= V25_HEIGHT /\ r.effHeight # 0 /\ OpenedBy(n, r)
     /\ r.owner # None /\ ~r.pending => r.paidThrough >= leaseFloor
     /\ r.effHeight <= height

RecaptureOk(n) ==
  recaptures[n].owner # None =>
    /\ height >= V26_HEIGHT /\ recaptures[n].effHeight # 0 /\ OpenedBy(n, recaptures[n])
    /\ nameExists(n) /\ ~names[n].pending /\ lapsed(names[n], epochOf(height))

\* How long before an offer its name must have been anchored, from V13 on.
embargo(h) == IF h >= V27_HEIGHT THEN REG_COMMIT_MAX_BLOCKS ELSE COMMIT_MAX_BLOCKS

\* Offer o is a listing of name n.
Of(o, n) == Lists(o) /\ o.terms.give.asset = n

\* A listing is of its owner's locked name, out of the reach of an earlier anchor,
\* and within the lease.
ListingOk(o, n) ==
  LET r == names[n]
  IN /\ r.locked /\ r.owner = o.seller /\ o.seller \in Addrs /\ ~r.pending
     /\ o.height <= height
     /\ \/ r.viaFill
        \/ o.height >= V13_HEIGHT /\ r.effHeight + embargo(o.height) < o.height
        \/ ACTIVATION_HEIGHT <= o.height /\ o.height < V13_HEIGHT /\ r.effHeight <= o.height
     /\ o.height >= V15_HEIGHT => o.expiresEpoch <= r.paidThrough

NameOk(n) ==
  /\ RecordOk(n) /\ RecaptureOk(n)
  /\ \A i \in OfferIds : Of(offers[i], n) => ListingOk(offers[i], n)
  /\ names[n].locked => \E i \in OfferIds : Of(offers[i], n)
  /\ \A i, j \in OfferIds : Of(offers[i], n) /\ Of(offers[j], n) => i = j

NamesOk ==
  /\ height >= ACTIVATION_HEIGHT
  /\ \A k \in CommitKeys : commits[k] <= height
  /\ \A n \in Names : NameOk(n)

-----------------------------------------------------------------------------
(* What the invariant says of one state.                                   *)

\* Epochs follow heights.
LEMMA EpochMonotone ==
  ASSUME NEW g \in Nat, NEW h \in Nat, g <= h
  PROVE  epochOf(g) <= epochOf(h)
  <1>1. EPOCH_LEN \in Nat \ {0}
    BY ParametersAssumption
  <1>2. \A d \in Nat \ {0} : g \div d <= h \div d
    OBVIOUS
  <1> QED BY <1>1, <1>2 DEF epochOf

\* The commit, recapture and offer record fields of a well-typed state.
LEMMA NameFields ==
  ASSUME NameTypes, NEW n \in Names
  PROVE  /\ names[n] \in NameRec /\ recaptures[n] \in RecaptureRec
         /\ names[n].effHeight \in Nat /\ names[n].paidThrough \in Nat
         /\ names[n].finalizeBy \in Nat /\ recaptures[n].effHeight \in Nat
         /\ recaptures[n].finalizeBy \in Nat
         /\ names[n].pending \in BOOLEAN /\ names[n].locked \in BOOLEAN
         /\ names[n].viaFill \in BOOLEAN
         /\ names[n].pos \in Nat /\ names[n].id \in Nat
  BY DEF NameTypes, NameRec, RecaptureRec

LEMMA OfferFields ==
  ASSUME OfferTypes, NEW i \in OfferIds
  PROVE  /\ offers[i] \in OfferRec /\ offers[i].height \in Nat
         /\ offers[i].expiresEpoch \in Nat /\ offers[i].claimUntilHeight \in Nat
  BY DEF OfferTypes, OfferRec

\* No lease runs out under a listing: the sweep ends the listing first.
LEMMA LeaseOutlives ==
  ASSUME Types, NamesOk, Settled, height >= V15_HEIGHT,
         NEW n \in Names, NEW i \in OfferIds, Of(offers[i], n)
  PROVE  ~lapsed(names[n], epochOf(height))
  <1> DEFINE o == offers[i]
             r == names[n]
  <1>1. /\ ListingOk(o, n) /\ RecordOk(n) /\ o.status = "open"
    BY DEF NamesOk, NameOk, Of, Lists
  <1>2. /\ r.paidThrough >= leaseFloor /\ r.paidThrough \in Nat
        /\ o.height \in Nat /\ o.expiresEpoch \in Nat /\ height \in Nat
        /\ epochOf(height) \in Nat /\ epochOf(o.height) \in Nat /\ leaseFloor \in Nat
        /\ epochOf(V15_HEIGHT) \in Nat /\ epochOf(V21_HEIGHT) \in Nat
        /\ o.height >= V15_HEIGHT => o.expiresEpoch <= r.paidThrough
    BY <1>1, NameFields, OfferFields, EpochNat, GatesAssumption, ParametersAssumption, SetsAssumption
    DEF ListingOk, RecordOk, leaseFloor, Types, ChainTypes
  <1>3. epochOf(height) <= effExpiry(o, height)
    <2>1. effExpiry(o, height) \in Int
      BY <1>2, ParametersAssumption DEF effExpiry, Smaller
    <2>2. i \notin StaleOffers
      BY DEF Settled
    <2> QED BY <1>1, <1>2, <2>1, <2>2 DEF StaleOffers, Stale
  <1>4. CASE o.height >= V15_HEIGHT
    <2>1. effExpiry(o, height) <= o.expiresEpoch
      BY <1>2, ParametersAssumption DEF effExpiry, Smaller
    <2> QED BY <1>2, <1>3, <1>4, <2>1, ParametersAssumption DEF lapsed, paidThrough, effExpiry, Smaller
  <1>5. CASE o.height < V15_HEIGHT
    <2>1. epochOf(o.height) <= epochOf(V15_HEIGHT)
      BY <1>2, <1>5, EpochMonotone, GatesAssumption
    <2>2. CASE height >= V21_HEIGHT
      <3>1. o.height < V22_HEIGHT
        BY <1>2, <1>5, GateOrderAssumption, GateDistanceAssumption, GatesAssumption
      <3>2. effExpiry(o, height) <= epochOf(o.height) + MAX_OFFER_EPOCHS
        BY <1>2, <2>2, <3>1, ParametersAssumption DEF effExpiry, Smaller
      <3> QED BY <1>2, <1>3, <2>1, <3>2, ParametersAssumption, GateDistanceAssumption
        DEF leaseFloor, lapsed, paidThrough, effExpiry, Smaller
    <2>3. CASE height < V21_HEIGHT
      <3>1. epochOf(height) <= epochOf(V21_HEIGHT)
        BY <1>2, <2>3, EpochMonotone, GatesAssumption
      <3> QED BY <1>2, <3>1, ParametersAssumption, GateDistanceAssumption
        DEF leaseFloor, lapsed, paidThrough
    <2> QED BY <1>2, <2>2, <2>3, GatesAssumption
  <1> QED BY <1>2, <1>4, <1>5, GatesAssumption

\* No anchor that can still be revealed precedes that of a listed name, from V25 on.
LEMMA ListedIsSettled ==
  ASSUME Types, NamesOk, height >= V25_HEIGHT,
         NEW n \in Names, NEW i \in OfferIds, Of(offers[i], n), ~names[n].viaFill
  PROVE  height > names[n].effHeight + REG_COMMIT_MAX_BLOCKS
  <1> DEFINE o == offers[i]
             r == names[n]
  <1>1. ListingOk(o, n)
    BY DEF NamesOk, NameOk
  <1>2. r.effHeight \in Nat /\ o.height \in Nat /\ height \in Nat
    BY NameFields, OfferFields DEF Types, ChainTypes
  <1>3. embargo(o.height) >= REG_COMMIT_MAX_BLOCKS /\ embargo(o.height) \in Nat
    BY ParametersAssumption, GateDistanceAssumption DEF embargo
  <1>4. V13_HEIGHT <= ACTIVATION_HEIGHT \/ V13_HEIGHT + REG_COMMIT_MAX_BLOCKS <= V25_HEIGHT
    BY ParametersAssumption, GateOrderAssumption, GateDistanceAssumption, GatesAssumption
  <1> QED BY <1>1, <1>2, <1>3, <1>4, ParametersAssumption, GatesAssumption DEF ListingOk

-----------------------------------------------------------------------------
(* What a step keeps.                                                      *)

\* Blocks follow each other.
LEMMA HeightSteps ==
  ASSUME Types, [Next]_vars
  PROVE  height' \in Nat /\ height <= height'
  <1>1. height \in Nat /\ height' \in Nat
    BY StepTypes DEF Types, ChainTypes
  <1>2. CASE ReplayLoop
    BY <1>1, <1>2 DEF ReplayLoop, FlushCancel, NextBlock, ExpireOffer, ExpireBid, DropReservation,
                      DropRecapture, chainVars
  <1>3. CASE ProposeEvent \/ AttestStep
    BY <1>1, <1>3 DEF ProposeEvent, AttestStep, Event
  <1>4. CASE UNCHANGED vars
    BY <1>1, <1>4 DEF vars, chainVars
  <1> QED BY <1>2, <1>3, <1>4 DEF Next

\* A commit, once seen, keeps its height (applyNcommit).
CommitsKept ==
  \A k \in CommitKeys : /\ commits[k] # 0 => commits'[k] = commits[k]
                        /\ commits'[k] <= height'

LEMMA CommitsAreKept ==
  ASSUME Types, NamesOk, [Next]_vars
  PROVE  CommitsKept
  <1>1. /\ commits \in [CommitKeys -> Nat] /\ height \in Nat /\ height' \in Nat
        /\ height <= height' /\ \A k \in CommitKeys : commits[k] <= height
    BY HeightSteps DEF Types, NameTypes, ChainTypes, NamesOk
  <1>2. ASSUME UNCHANGED commits PROVE CommitsKept
    BY <1>1, <1>2 DEF CommitsKept
  <1>3. ASSUME NEW key \in CommitKeys, applyNcommit(key), height' = height
        PROVE  CommitsKept
    BY <1>1, <1>3 DEF CommitsKept, applyNcommit
  <1>4. NameStep
    BY StepNames
  <1>5. CASE Quiet
    BY <1>2, <1>5 DEF Quiet, nameVars
  <1>6. ASSUME NEW who \in Addrs, NameRecord(who), height' = height
        PROVE  CommitsKept
    <2>1. CASE \E key \in CommitKeys : applyNcommit(key)
      BY <1>3, <1>6, <2>1
    <2>2. CASE \E n \in Names, salt \in Salts \cup {None}, txid \in AnchorIds, fee \in Payments :
                 applyName(n, who, salt, txid, fee)
      BY <1>2, <2>2 DEF applyName, reserveRecapture, reclaimLapsed, reserveName, registerName
    <2>3. CASE \E n \in Names, salt \in Salts, fee \in Payments : applyNfinalize(n, who, salt, fee)
      BY <1>2, <2>3 DEF applyNfinalize, finalizeRegistration, finalizeRecapture
    <2>4. CASE \/ \E n \in Names, to \in Addrs : applyNxfer(n, who, to)
               \/ \E n \in Names, target \in NameTargets : applyNset(n, who, target)
               \/ \E n \in Names, p \in Contents \cup {None} : applyNprofile(n, who, p)
               \/ \E n \in Names, fee \in Payments : applyNrenew(n, who, fee)
      BY <1>2, <2>4 DEF applyNxfer, applyNset, applyNprofile, applyNrenew, OnlyNames
    <2> QED BY <1>6, <2>1, <2>2, <2>3, <2>4 DEF NameRecord
  <1>7. CASE \E n \in Names : DropReservation(n) \/ DropRecapture(n)
    BY <1>2, <1>7 DEF DropReservation, DropRecapture
  <1>8. CASE \E i \in OfferIds, n \in Names, who \in Addrs :
               Enlists(i, n, who) \/ Delists(i, n) \/ Delivers(i, n, who)
    BY <1>2, <1>8 DEF Enlists, Delists, Delivers
  <1> QED BY <1>4, <1>5, <1>6, <1>7, <1>8 DEF NameStep

\* What makes a reservation's commit its own stays.
LEMMA OpenedStays ==
  ASSUME CommitsKept, NEW n \in Names, NEW r, NEW q, OpenedBy(n, r),
         r.owner \in Addrs, r.effHeight # 0, q.owner = r.owner, q.effHeight = r.effHeight
  PROVE  \E s \in Salts : commits'[<<n, q.owner, s>>] = q.effHeight
  BY DEF OpenedBy, CommitsKept, CommitKeys

\* A lease that has lapsed stays lapsed.
LEMMA LapsedStays ==
  ASSUME NEW r, r.paidThrough \in Nat, height \in Nat, height' \in Nat, height <= height',
         lapsed(r, epochOf(height))
  PROVE  lapsed(r, epochOf(height'))
  BY EpochMonotone, EpochNat, ParametersAssumption DEF lapsed, paidThrough

\* Neither the record of n, its recapture, nor its listings move.
Untouched(n) ==
  /\ names'[n] = names[n] /\ recaptures'[n] = recaptures[n]
  /\ \A i \in OfferIds : Of(offers[i], n) \/ Of(offers'[i], n) => SameListing(i)

\* A record that stands, stands.
LEMMA RecordStays ==
  ASSUME Types, NamesOk, height' \in Nat, height <= height', CommitsKept,
         NEW n \in Names, names'[n] = names[n]
  PROVE  RecordOk(n)'
  <1> DEFINE r == names[n]
  <1>1. /\ RecordOk(n) /\ r.effHeight \in Nat /\ height \in Nat /\ r \in NameRec
    BY NameFields DEF NamesOk, NameOk, Types, ChainTypes
  <1>2. r.pending => OpenedBy(n, names[n])'
    <2> SUFFICES ASSUME r.pending
                 PROVE  \E s \in Salts : commits'[<<n, r.owner, s>>] = r.effHeight
      BY DEF OpenedBy
    <2>1. r.owner \in Addrs /\ OpenedBy(n, r) /\ r.effHeight # 0
      BY <1>1 DEF RecordOk, NameRec, OrNone
    <2> QED BY <2>1, OpenedStays
  <1> QED BY <1>1, <1>2, GatesAssumption DEF RecordOk

\* So does a recapture reservation.
LEMMA RecaptureStays ==
  ASSUME Types, NamesOk, height' \in Nat, height <= height', CommitsKept,
         NEW n \in Names, recaptures'[n] = recaptures[n],
         names'[n].paidThrough = names[n].paidThrough, names'[n].pending = names[n].pending,
         names'[n].owner # None
  PROVE  RecaptureOk(n)'
  <1> DEFINE q == recaptures[n]
  <1> SUFFICES ASSUME q.owner # None
               PROVE  /\ height' >= V26_HEIGHT /\ q.effHeight # 0
                      /\ \E s \in Salts : commits'[<<n, q.owner, s>>] = q.effHeight
                      /\ ~names[n].pending /\ lapsed(names'[n], epochOf(height'))
    BY DEF RecaptureOk, nameExists, OpenedBy
  <1>1. /\ RecaptureOk(n) /\ q \in RecaptureRec /\ height \in Nat
        /\ names[n].paidThrough \in Nat
    BY NameFields DEF NamesOk, NameOk, Types, ChainTypes
  <1>2. /\ height >= V26_HEIGHT /\ q.effHeight # 0 /\ OpenedBy(n, q) /\ ~names[n].pending
        /\ lapsed(names[n], epochOf(height)) /\ q.owner \in Addrs
    BY <1>1 DEF RecaptureOk, RecaptureRec, OrNone
  <1>3. lapsed(names[n], epochOf(height'))
    BY <1>1, <1>2, LapsedStays
  <1>4. \E s \in Salts : commits'[<<n, q.owner, s>>] = q.effHeight
    BY <1>2, OpenedStays
  <1> QED BY <1>1, <1>2, <1>3, <1>4, GatesAssumption DEF lapsed, paidThrough

\* A listing that stands, stands while its name's record changes in no field it
\* rests on.
LEMMA ListingStays ==
  ASSUME Types, Types', NamesOk, height <= height', NEW n \in Names, NEW i \in OfferIds,
         Of(offers'[i], n), SameListing(i),
         names'[n].locked = names[n].locked, names'[n].owner = names[n].owner,
         names'[n].pending = names[n].pending, names'[n].viaFill = names[n].viaFill,
         names'[n].effHeight = names[n].effHeight,
         names[n].paidThrough <= names'[n].paidThrough
  PROVE  ListingOk(offers[i], n)' /\ Of(offers[i], n)
  <1>1. /\ Of(offers[i], n) /\ offers'[i].seller = offers[i].seller
        /\ offers'[i].height = offers[i].height
        /\ offers'[i].expiresEpoch = offers[i].expiresEpoch
    BY DEF SameListing, Of
  <1>2. ListingOk(offers[i], n)
    BY <1>1 DEF NamesOk, NameOk
  <1>3. /\ height \in Nat /\ height' \in Nat /\ offers[i].height \in Nat
        /\ offers[i].expiresEpoch \in Nat /\ names[n].paidThrough \in Nat
        /\ names'[n].paidThrough \in Nat
    <2>1. names'[n].paidThrough \in Nat
      BY DEF Types, NameTypes, NameRec
    <2> QED BY <2>1, NameFields, OfferFields DEF Types, ChainTypes
  <1> QED BY <1>1, <1>2, <1>3 DEF ListingOk, embargo

\* The same listings, on a record that changes in no field they rest on.
LEMMA KeptListings ==
  ASSUME Types, Types', NamesOk, height <= height', NEW n \in Names,
         RecordOk(n)', RecaptureOk(n)',
         \A i \in OfferIds : Of(offers[i], n) \/ Of(offers'[i], n) => SameListing(i),
         names'[n].locked = names[n].locked, names'[n].owner = names[n].owner,
         names'[n].pending = names[n].pending, names'[n].viaFill = names[n].viaFill,
         names'[n].effHeight = names[n].effHeight,
         names[n].paidThrough <= names'[n].paidThrough
  PROVE  NameOk(n)'
  <1>1. \A i \in OfferIds : Of(offers'[i], n) => ListingOk(offers[i], n)' /\ Of(offers[i], n)
    BY ListingStays
  <1>2. \A i \in OfferIds : Of(offers[i], n) => Of(offers'[i], n)
    BY DEF SameListing, Of
  <1>3. names'[n].locked => \E i \in OfferIds : Of(offers'[i], n)
    BY <1>2 DEF NamesOk, NameOk
  <1>4. \A i, j \in OfferIds : Of(offers'[i], n) /\ Of(offers'[j], n) => i = j
    BY <1>1 DEF NamesOk, NameOk
  <1> QED BY <1>1, <1>3, <1>4 DEF NameOk, Of, Lists

LEMMA UntouchedOk ==
  ASSUME Types, Types', NamesOk, height <= height', CommitsKept, NEW n \in Names, Untouched(n)
  PROVE  NameOk(n)'
  <1>1. height' \in Nat /\ names[n].paidThrough \in Nat /\ names'[n] = names[n]
    BY NameFields DEF Types, ChainTypes, Untouched
  <1>2. RecordOk(n)'
    BY <1>1, RecordStays
  <1>3. RecaptureOk(n)'
    <2>1. CASE names[n].owner # None
      BY <1>1, <2>1, RecaptureStays DEF Untouched
    <2>2. CASE names[n].owner = None
      BY <2>2 DEF Untouched, RecaptureOk, nameExists, NamesOk, NameOk
    <2> QED BY <2>1, <2>2
  <1> QED BY <1>1, <1>2, <1>3, KeptListings DEF Untouched

\* A record nobody lists any more is as it should be when its fields are.
LEMMA Unlisted ==
  ASSUME NEW n \in Names, RecordOk(n)', RecaptureOk(n)', ~names'[n].locked,
         \A i \in OfferIds : ~Of(offers'[i], n)
  PROVE  NameOk(n)'
  BY DEF NameOk, Of, Lists

-----------------------------------------------------------------------------
(* Every step keeps the invariant.                                         *)

\* A step touches one name at most.
LEMMA OneName ==
  ASSUME Types, Types', NamesOk, [Next]_vars, NEW n \in Names, NameOk(n)',
         \A m \in Names \ {n} : Untouched(m)
  PROVE  NamesOk'
  <1>1. height' \in Nat /\ height \in Nat /\ height <= height' /\ CommitsKept
    BY HeightSteps, CommitsAreKept DEF Types, ChainTypes
  <1>2. \A m \in Names : NameOk(m)'
    BY <1>1, UntouchedOk
  <1> QED BY <1>1, <1>2, GatesAssumption DEF NamesOk, CommitsKept

\* An action that writes one record and moves no listing of another name.
LEMMA OthersUntouched ==
  ASSUME Types, NEW n \in Names, NEW s, names' = [names EXCEPT ![n] = s],
         \A m \in Names \ {n} : recaptures'[m] = recaptures[m],
         \A i \in OfferIds :
           \/ SameListing(i)
           \/ /\ Lists(offers[i]) => Of(offers[i], n)
              /\ Lists(offers'[i]) => Of(offers'[i], n)
  PROVE  \A m \in Names \ {n} : Untouched(m)
  <1> SUFFICES ASSUME NEW m \in Names \ {n} PROVE Untouched(m)
    OBVIOUS
  <1>1. names'[m] = names[m]
    BY DEF Types, NameTypes
  <1>2. ASSUME NEW i \in OfferIds, Of(offers[i], m) \/ Of(offers'[i], m)
        PROVE  SameListing(i)
    BY <1>2 DEF Of
  <1> QED BY <1>1, <1>2 DEF Untouched

\* A listing begins.
LEMMA EnlistKeeps ==
  ASSUME Types, Types', NamesOk, [Next]_vars, height' = height,
         NEW i \in OfferIds, NEW n \in Names, NEW who \in Addrs, Enlists(i, n, who)
  PROVE  NamesOk'
  <1> DEFINE r == names[n]
             s == [r EXCEPT !.locked = TRUE]
             o == offers'[i]
  <1>1. /\ r \in NameRec /\ names' = [names EXCEPT ![n] = s] /\ names'[n] = s
        /\ r.effHeight \in Nat /\ r.paidThrough \in Nat /\ height \in Nat
        /\ s.owner = r.owner /\ s.pending = r.pending /\ s.viaFill = r.viaFill
        /\ s.effHeight = r.effHeight /\ s.paidThrough = r.paidThrough /\ s.locked = TRUE
    BY NameFields DEF Enlists, Types, NameTypes, NameRec, ChainTypes
  <1>2. /\ r.owner = who /\ ~r.pending /\ ~r.locked /\ who # None
        /\ Of(o, n) /\ o.seller = who /\ o.height = height /\ o.expiresEpoch \in Nat
        /\ ~Lists(offers[i]) /\ OthersSame(i)
        /\ height >= V13_HEIGHT /\ ~r.viaFill => height - r.effHeight > embargo(height)
        /\ height >= V15_HEIGHT => r.paidThrough >= o.expiresEpoch
    BY SetsAssumption DEF Enlists, nameOfferable, embargo, Of, Listing, paidThrough
  <1>3. RecordOk(n) /\ RecaptureOk(n) /\ \A j \in OfferIds : Of(offers[j], n) => r.locked
    BY DEF NamesOk, NameOk, ListingOk
  <1>4. RecordOk(n)'
    BY <1>1, <1>2, <1>3 DEF RecordOk
  <1>5. RecaptureOk(n)'
    <2>1. height' \in Nat /\ CommitsKept /\ recaptures'[n] = recaptures[n]
      BY <1>1, CommitsAreKept DEF Enlists
    <2> QED BY <1>1, <1>2, <2>1, RecaptureStays
  <1>6. \A j \in OfferIds : Of(offers'[j], n) => j = i
    BY <1>2, <1>3 DEF OthersSame, SameListing, Of
  <1>7. ListingOk(offers[i], n)'
    <2>1. embargo(height) \in Nat /\ height >= ACTIVATION_HEIGHT /\ r.effHeight <= height
      BY <1>3, ParametersAssumption DEF embargo, NamesOk, RecordOk
    <2> HIDE DEF s, o
    <2>2. \/ r.viaFill
          \/ height >= V13_HEIGHT /\ r.effHeight + embargo(height) < height
          \/ ACTIVATION_HEIGHT <= height /\ height < V13_HEIGHT /\ r.effHeight <= height
      BY <1>1, <1>2, <2>1, GatesAssumption
    <2> QED BY <1>1, <1>2, <2>2 DEF ListingOk, o, embargo
  <1>8. NameOk(n)'
    BY <1>1, <1>2, <1>4, <1>5, <1>6, <1>7 DEF NameOk, Of, Lists
  <1>9. \A m \in Names \ {n} : Untouched(m)
    <2>1. \A m \in Names \ {n} : recaptures'[m] = recaptures[m]
      BY DEF Enlists
    <2>2. \A j \in OfferIds : \/ SameListing(j)
                              \/ /\ Lists(offers[j]) => Of(offers[j], n)
                                 /\ Lists(offers'[j]) => Of(offers'[j], n)
      BY <1>2 DEF OthersSame
    <2> QED BY <1>1, <2>1, <2>2, OthersUntouched
  <1> QED BY <1>8, <1>9, OneName

\* The only listing of n ends, and the record is left unlocked.
LEMMA LastListing ==
  ASSUME NamesOk, NEW n \in Names, NEW i \in OfferIds, Of(offers[i], n),
         ~Lists(offers'[i]), OthersSame(i)
  PROVE  /\ \A j \in OfferIds : ~Of(offers'[j], n)
         /\ \A j \in OfferIds : \/ SameListing(j)
                                \/ /\ Lists(offers[j]) => Of(offers[j], n)
                                   /\ Lists(offers'[j]) => Of(offers'[j], n)
  <1>1. \A j \in OfferIds : Of(offers[j], n) => j = i
    BY DEF NamesOk, NameOk
  <1> QED BY <1>1 DEF OthersSame, SameListing, Of

\* A listing ends unsold.
LEMMA DelistKeeps ==
  ASSUME Types, Types', NamesOk, [Next]_vars, height' = height,
         NEW i \in OfferIds, NEW n \in Names, Delists(i, n)
  PROVE  NamesOk'
  <1> DEFINE r == names[n]
             s == [r EXCEPT !.locked = FALSE]
  <1>1. /\ r \in NameRec /\ names' = [names EXCEPT ![n] = s] /\ names'[n] = s
        /\ r.effHeight \in Nat /\ r.paidThrough \in Nat /\ height \in Nat
        /\ s.owner = r.owner /\ s.pending = r.pending /\ s.viaFill = r.viaFill
        /\ s.effHeight = r.effHeight /\ s.paidThrough = r.paidThrough /\ s.locked = FALSE
    BY NameFields DEF Delists, Types, NameTypes, NameRec, ChainTypes
  <1>2. Of(offers[i], n) /\ ~Lists(offers'[i]) /\ OthersSame(i) /\ recaptures' = recaptures
    BY DEF Delists, Listing, Of
  <1>3. RecordOk(n) /\ r.owner # None /\ ~r.pending
    BY <1>2, SetsAssumption DEF NamesOk, NameOk, ListingOk
  <1> HIDE DEF s
  <1>4. RecordOk(n)'
    BY <1>1, <1>3 DEF RecordOk
  <1>5. RecaptureOk(n)'
    BY <1>1, <1>2, <1>3, RecaptureStays, CommitsAreKept
  <1>6. NameOk(n)'
    BY <1>1, <1>2, <1>4, <1>5, LastListing, Unlisted
  <1>7. \A m \in Names \ {n} : Untouched(m)
    BY <1>1, <1>2, LastListing, OthersUntouched
  <1> QED BY <1>6, <1>7, OneName

\* A listing is sold.
LEMMA DeliverKeeps ==
  ASSUME Types, Types', NamesOk, [Next]_vars, height' = height,
         NEW i \in OfferIds, NEW n \in Names, NEW who \in Addrs, Delivers(i, n, who)
  PROVE  NamesOk'
  <1> DEFINE r == names[n]
             s == names'[n]
  <1> PICK txid \in AnchorIds : deliverNameToBuyer(n, who, txid)
    BY DEF Delivers
  <1>1. /\ r \in NameRec /\ names' = [names EXCEPT ![n] = s] /\ height \in Nat
        /\ s.owner = who /\ s.locked = FALSE /\ s.pending = r.pending
        /\ s.paidThrough = r.paidThrough /\ s.effHeight \in {height, r.effHeight}
    <2>1. r \in NameRec /\ height \in Nat
      BY NameFields DEF Types, ChainTypes
    <2> DEFINE sold == [r EXCEPT !.owner = who, !.locked = FALSE, !.addr = None, !.profile = None]
               stamped == [sold EXCEPT !.effHeight = height, !.pos = pos', !.id = txid,
                                       !.viaFill = TRUE]
    <2>2. /\ sold.owner = who /\ sold.locked = FALSE /\ sold.pending = r.pending
          /\ sold.paidThrough = r.paidThrough /\ sold.effHeight = r.effHeight
          /\ stamped.owner = who /\ stamped.locked = FALSE /\ stamped.pending = r.pending
          /\ stamped.paidThrough = r.paidThrough /\ stamped.effHeight = height
      BY <2>1 DEF NameRec
    <2>3. names' = [names EXCEPT ![n] = sold] \/ names' = [names EXCEPT ![n] = stamped]
      BY DEF deliverNameToBuyer
    <2> HIDE DEF sold, stamped
    <2> QED BY <2>1, <2>2, <2>3 DEF Types, NameTypes
  <1>2. /\ Of(offers[i], n) /\ ~Lists(offers'[i]) /\ OthersSame(i) /\ recaptures' = recaptures
        /\ Settled
    BY DEF Delivers, Listing, Of, Lists
  <1>3. RecordOk(n) /\ RecaptureOk(n) /\ r.owner # None /\ ~r.pending /\ who # None
    BY <1>2, SetsAssumption DEF NamesOk, NameOk, ListingOk
  <1> HIDE DEF s
  <1>4. RecordOk(n)'
    BY <1>1, <1>3 DEF RecordOk, s
  <1>5. RecaptureOk(n)'
    <2>1. recaptures[n].owner = None
      BY <1>1, <1>2, <1>3, LeaseOutlives, GateOrderAssumption, GatesAssumption DEF RecaptureOk
    <2> QED BY <1>2, <2>1 DEF RecaptureOk
  <1>6. NameOk(n)'
    BY <1>1, <1>2, <1>4, <1>5, LastListing, Unlisted DEF s
  <1>7. \A m \in Names \ {n} : Untouched(m)
    BY <1>1, <1>2, LastListing, OthersUntouched
  <1> QED BY <1>6, <1>7, OneName

\* A record is written, and nobody lists its name afterwards.
LEMMA RewriteKeeps ==
  ASSUME Types, Types', NamesOk, [Next]_vars, NEW n \in Names, NEW s,
         names' = [names EXCEPT ![n] = s], s.locked = FALSE,
         \A m \in Names \ {n} : recaptures'[m] = recaptures[m],
         RecordOk(n)', RecaptureOk(n)',
         \A i \in OfferIds :
           /\ ~Of(offers'[i], n)
           /\ SameListing(i) \/ (Of(offers[i], n) /\ ~Lists(offers'[i]))
  PROVE  NamesOk'
  <1>1. names'[n] = s
    BY DEF Types, NameTypes
  <1>2. NameOk(n)'
    BY <1>1, Unlisted
  <1>3. \A m \in Names \ {n} : Untouched(m)
    BY OthersUntouched
  <1> QED BY <1>2, <1>3, OneName

\* A name that is reserved or free is not listed, nor is its recapture reserved.
LEMMA NotOwned ==
  ASSUME NamesOk, NEW n \in Names, names[n].pending \/ names[n].owner = None
  PROVE  /\ \A i \in OfferIds : ~Of(offers[i], n)
         /\ recaptures[n].owner = None
  BY SetsAssumption DEF NamesOk, NameOk, ListingOk, RecaptureOk, nameExists

\* A reservation that ran out is dropped.
LEMMA DropReservationKeeps ==
  ASSUME Types, Types', NamesOk, [Next]_vars, height' = height,
         NEW n \in Names, DropReservation(n)
  PROVE  NamesOk'
  <1>1. /\ names' = [names EXCEPT ![n] = NoName] /\ names'[n] = NoName
        /\ recaptures' = recaptures /\ offers' = offers /\ names[n].pending
    BY DEF DropReservation, StaleReservations, marketVars, Types, NameTypes
  <1>2. recaptures[n].owner = None /\ \A i \in OfferIds : ~Of(offers[i], n)
    BY <1>1, NotOwned
  <1>3. RecordOk(n)' /\ NoName.locked = FALSE
    BY <1>1 DEF RecordOk, NoName, Types, ChainTypes
  <1>4. RecaptureOk(n)'
    BY <1>1, <1>2 DEF RecaptureOk
  <1>5. \A i \in OfferIds : SameListing(i) /\ ~Of(offers'[i], n)
    BY <1>1, <1>2, SameIfUnchanged
  <1>6. \A m \in Names \ {n} : recaptures'[m] = recaptures[m]
    BY <1>1
  <1>7. \A i \in OfferIds :
           /\ ~Of(offers'[i], n)
           /\ SameListing(i) \/ (Of(offers[i], n) /\ ~Lists(offers'[i]))
    BY <1>5
  <1> HIDE DEF NoName
  <1> QED BY <1>1, <1>3, <1>4, <1>6, <1>7, RewriteKeeps

\* The offers stay, and one record changes in no field its listings rest on.
LEMMA AmendKeeps ==
  ASSUME Types, Types', NamesOk, [Next]_vars, NEW n \in Names, NEW s,
         names' = [names EXCEPT ![n] = s], offers' = offers,
         \A m \in Names \ {n} : recaptures'[m] = recaptures[m],
         RecordOk(n)', RecaptureOk(n)',
         s.locked = names[n].locked, s.owner = names[n].owner,
         s.pending = names[n].pending, s.viaFill = names[n].viaFill,
         s.effHeight = names[n].effHeight, names[n].paidThrough <= s.paidThrough
  PROVE  NamesOk'
  <1>1. names'[n] = s /\ height <= height'
    BY HeightSteps DEF Types, NameTypes
  <1>2. \A i \in OfferIds : SameListing(i)
    BY SameIfUnchanged
  <1>3. NameOk(n)'
    BY <1>1, <1>2, KeptListings
  <1>4. \A m \in Names \ {n} : Untouched(m)
    BY <1>2, OthersUntouched
  <1> QED BY <1>3, <1>4, OneName

\* A recapture reservation that ran out is dropped.
LEMMA DropRecaptureKeeps ==
  ASSUME Types, Types', NamesOk, [Next]_vars, height' = height,
         NEW n \in Names, DropRecapture(n)
  PROVE  NamesOk'
  <1>1. /\ recaptures' = [recaptures EXCEPT ![n] = NoRecapture] /\ names' = names
        /\ offers' = offers /\ names' = [names EXCEPT ![n] = names[n]]
        /\ recaptures'[n].owner = None
    BY DEF DropRecapture, marketVars, Types, NameTypes, NoRecapture
  <1>2. \A m \in Names \ {n} : recaptures'[m] = recaptures[m]
    BY <1>1 DEF Types, NameTypes
  <1>3. RecordOk(n)'
    BY <1>1, RecordStays, HeightSteps, CommitsAreKept
  <1>4. RecaptureOk(n)'
    BY <1>1 DEF RecaptureOk
  <1>5. names[n].paidThrough <= names[n].paidThrough
    BY NameFields DEF Types
  <1> QED BY <1>1, <1>2, <1>3, <1>4, <1>5, AmendKeeps

-----------------------------------------------------------------------------
(* The name records.                                                       *)

\* The handlers that leave the offers and the recaptures alone, and of a record
\* only the fields nothing rests on.
LEMMA NsetKeeps ==
  ASSUME Types, Types', NamesOk, [Next]_vars, height' = height, NEW n \in Names,
         NEW who \in Addrs,
         \/ \E target \in NameTargets : applyNset(n, who, target)
         \/ \E p \in Contents \cup {None} : applyNprofile(n, who, p)
  PROVE  NamesOk'
  <1> DEFINE r == names[n]
  <1>1. offers' = offers /\ recaptures' = recaptures /\ r.owner = who /\ ~r.pending
    BY DEF applyNset, applyNprofile, OnlyNames, holdsName
  <1>2. PICK s : /\ names' = [names EXCEPT ![n] = s]
                 /\ s.locked = r.locked /\ s.owner = r.owner /\ s.pending = r.pending
                 /\ s.viaFill = r.viaFill /\ s.effHeight = r.effHeight
                 /\ s.paidThrough = r.paidThrough
    <2>1. CASE \E target \in NameTargets : applyNset(n, who, target)
      <3> PICK target \in NameTargets : applyNset(n, who, target)
        BY <2>1
      <3> DEFINE t == IF height >= V23_HEIGHT /\ target = ZERO_ADDR THEN None ELSE target
                 s == [r EXCEPT !.addr = t]
      <3>1. names' = [names EXCEPT ![n] = s]
        BY DEF applyNset
      <3>2. /\ s.locked = r.locked /\ s.owner = r.owner /\ s.pending = r.pending
            /\ s.viaFill = r.viaFill /\ s.effHeight = r.effHeight
            /\ s.paidThrough = r.paidThrough
        BY NameFields DEF Types, NameRec
      <3> HIDE DEF s
      <3> QED BY <3>1, <3>2
    <2>2. CASE \E p \in Contents \cup {None} : applyNprofile(n, who, p)
      <3> PICK p \in Contents \cup {None} : applyNprofile(n, who, p)
        BY <2>2
      <3> DEFINE s == [r EXCEPT !.profile = p]
      <3>1. names' = [names EXCEPT ![n] = s]
        BY DEF applyNprofile
      <3>2. /\ s.locked = r.locked /\ s.owner = r.owner /\ s.pending = r.pending
            /\ s.viaFill = r.viaFill /\ s.effHeight = r.effHeight
            /\ s.paidThrough = r.paidThrough
        BY NameFields DEF Types, NameRec
      <3> HIDE DEF s
      <3> QED BY <3>1, <3>2
    <2> QED BY <2>1, <2>2
  <1>3. names'[n] = s /\ r.paidThrough \in Nat /\ height \in Nat /\ r.owner # None
    BY <1>1, <1>2, NameFields, SetsAssumption DEF Types, NameTypes, ChainTypes
  <1>4. RecordOk(n) /\ RecordOk(n)'
    BY <1>1, <1>2, <1>3 DEF NamesOk, NameOk, RecordOk
  <1>5. RecaptureOk(n)'
    BY <1>1, <1>2, <1>3, RecaptureStays, CommitsAreKept
  <1>6. /\ \A m \in Names \ {n} : recaptures'[m] = recaptures[m]
        /\ r.paidThrough <= s.paidThrough
    BY <1>1, <1>2, <1>3
  <1> QED BY <1>1, <1>2, <1>4, <1>5, <1>6, AmendKeeps

LEMMA NrenewKeeps ==
  ASSUME Types, Types', NamesOk, [Next]_vars, height' = height, NEW n \in Names,
         NEW who \in Addrs, NEW fee \in Payments, applyNrenew(n, who, fee)
  PROVE  NamesOk'
  <1> DEFINE r == names[n]
             s == [r EXCEPT !.paidThrough = @ + NAME_TERM_EPOCHS]
  <1>1. /\ offers' = offers /\ recaptures' = recaptures /\ r.owner # None /\ ~r.pending
        /\ ~lapsed(r, epochOf(height)) /\ names' = [names EXCEPT ![n] = s]
    BY DEF applyNrenew, nameExists
  <1>2. /\ r \in NameRec /\ r.paidThrough \in Nat /\ height \in Nat
        /\ r.effHeight \in Nat /\ NAME_TERM_EPOCHS \in Nat /\ leaseFloor \in Nat
    BY NameFields, ParametersAssumption, GatesAssumption, EpochNat
    DEF Types, ChainTypes, leaseFloor
  <1>3. /\ names'[n] = s /\ s.locked = r.locked /\ s.owner = r.owner /\ s.pending = r.pending
        /\ s.viaFill = r.viaFill /\ s.effHeight = r.effHeight
        /\ s.paidThrough = r.paidThrough + NAME_TERM_EPOCHS
    BY <1>1, <1>2 DEF NameRec, Types, NameTypes
  <1> HIDE DEF s
  <1>4. RecordOk(n) /\ recaptures[n].owner = None
    BY <1>1 DEF NamesOk, NameOk, RecaptureOk
  <1>5. RecordOk(n)'
    BY <1>1, <1>2, <1>3, <1>4 DEF RecordOk
  <1>6. RecaptureOk(n)'
    BY <1>1, <1>4 DEF RecaptureOk
  <1>7. r.paidThrough <= s.paidThrough
    BY <1>2, <1>3
  <1> QED BY <1>1, <1>3, <1>5, <1>6, <1>7, AmendKeeps

\* A transfer: the name is not listed, and not lapsed.
LEMMA NxferKeeps ==
  ASSUME Types, Types', NamesOk, [Next]_vars, height' = height, NEW n \in Names,
         NEW who \in Addrs, NEW to \in Addrs, applyNxfer(n, who, to)
  PROVE  NamesOk'
  <1> DEFINE r == names[n]
             s == [r EXCEPT !.owner = to, !.addr = None, !.profile = None]
  <1>1. /\ offers' = offers /\ recaptures' = recaptures /\ r.owner = who /\ ~r.pending
        /\ height >= V15_HEIGHT => ~lapsed(r, epochOf(height))
        /\ ~r.locked /\ names' = [names EXCEPT ![n] = s]
    BY DEF applyNxfer, holdsName, OnlyNames
  <1>2. /\ r \in NameRec /\ height \in Nat /\ r.owner # None /\ to # None
    BY <1>1, NameFields, SetsAssumption DEF Types, ChainTypes
  <1>3. /\ names'[n] = s /\ s.locked = r.locked /\ s.owner = to /\ s.pending = r.pending
        /\ s.viaFill = r.viaFill /\ s.effHeight = r.effHeight
        /\ s.paidThrough = r.paidThrough
    BY <1>1, <1>2 DEF NameRec, Types, NameTypes
  <1> HIDE DEF s
  <1>4. RecordOk(n) /\ \A i \in OfferIds : ~Of(offers[i], n)
    BY <1>1 DEF NamesOk, NameOk, ListingOk
  <1>5. recaptures[n].owner = None
    BY <1>1, <1>2, GateOrderAssumption, GatesAssumption DEF NamesOk, NameOk, RecaptureOk
  <1>6. RecordOk(n)'
    BY <1>1, <1>2, <1>3, <1>4 DEF RecordOk
  <1>7. RecaptureOk(n)'
    BY <1>1, <1>5 DEF RecaptureOk
  <1>8. \A i \in OfferIds : SameListing(i) /\ ~Of(offers'[i], n)
    BY <1>1, <1>4, SameIfUnchanged
  <1>9. \A i \in OfferIds :
           /\ ~Of(offers'[i], n)
           /\ SameListing(i) \/ (Of(offers[i], n) /\ ~Lists(offers'[i]))
    BY <1>8
  <1>10. s.locked = FALSE /\ \A m \in Names \ {n} : recaptures'[m] = recaptures[m]
    BY <1>1, <1>2, <1>3 DEF NameRec
  <1> QED BY <1>1, <1>6, <1>7, <1>9, <1>10, RewriteKeeps

\* The displacement of a record ends every listing of its name, but those a hold
\* freezes from V28 on.
LEMMA VoidListings ==
  ASSUME NamesOk, NEW n \in Names,
         IF curActive(n).owner # None THEN voidOpenNameOffers(n) ELSE UNCHANGED offers,
         height < V28_HEIGHT \/ \A i \in OfferIds : ~Of(offers[i], n), height \in Nat
  PROVE  \A i \in OfferIds :
           /\ ~Of(offers'[i], n)
           /\ SameListing(i) \/ (Of(offers[i], n) /\ ~Lists(offers'[i]))
  <1>1. CASE UNCHANGED offers /\ \A i \in OfferIds : ~Of(offers[i], n)
    BY <1>1, SameIfUnchanged
  <1>2. CASE voidOpenNameOffers(n)
    <2> SUFFICES ASSUME NEW i \in OfferIds
                 PROVE  /\ ~Of(offers'[i], n)
                        /\ SameListing(i) \/ (Of(offers[i], n) /\ ~Lists(offers'[i]))
      OBVIOUS
    <2>1. i \in openNameOffers(n) <=> Of(offers[i], n)
      BY DEF openNameOffers, Open, Of, Lists
    <2>2. CASE ~Of(offers[i], n)
      BY <1>2, <2>1, <2>2, SameIfUnchanged DEF voidOpenNameOffers
    <2>3. CASE Of(offers[i], n)
      <3>1. offers'[i] = [offers[i] EXCEPT !.status = "cancelled"]
        BY <1>2, <2>1, <2>3, GatesAssumption DEF voidOpenNameOffers
      <3>2. ~Lists(offers'[i])
        BY <3>1 DEF Lists
      <3> QED BY <2>3, <3>2 DEF Of
    <2> QED BY <2>2, <2>3
  <1>3. curActive(n).owner = None => names[n].pending \/ names[n].owner = None
    BY DEF curActive
  <1> QED BY <1>1, <1>2, <1>3, NotOwned

LEMMA TakeKeeps ==
  ASSUME Types, Types', NamesOk, [Next]_vars, height' = height, NEW n \in Names,
         NEW who \in Addrs, NEW anchor, NEW rec, takeName(n, who, anchor, rec),
         UNCHANGED recaptures, recaptures[n].owner = None,
         height < V28_HEIGHT \/ \A i \in OfferIds : ~Of(offers[i], n),
         RecordOk(n)', names'[n].locked = FALSE
  PROVE  NamesOk'
  <1>1. PICK s : names' = [names EXCEPT ![n] = s]
    BY DEF takeName
  <1>2. names'[n] = s /\ height \in Nat
    BY <1>1 DEF Types, NameTypes, ChainTypes
  <1>3. \A i \in OfferIds :
           /\ ~Of(offers'[i], n)
           /\ SameListing(i) \/ (Of(offers[i], n) /\ ~Lists(offers'[i]))
    BY <1>2, VoidListings DEF takeName
  <1>4. RecaptureOk(n)'
    BY DEF RecaptureOk
  <1>5. \A m \in Names \ {n} : recaptures'[m] = recaptures[m]
    OBVIOUS
  <1> QED BY <1>1, <1>2, <1>3, <1>4, <1>5, RewriteKeeps

\* What takeName writes.
LEMMA TakenRecord ==
  ASSUME NameTypes, NEW n \in Names, NEW who, NEW anchor, NEW rec \in NameRec,
         takeName(n, who, anchor, rec)
  PROVE  /\ names'[n].owner = who /\ names'[n].effHeight = anchor.effHeight
         /\ names'[n].pos = anchor.pos /\ names'[n].id = anchor.id
         /\ names'[n].locked = rec.locked /\ names'[n].viaFill = rec.viaFill
         /\ names'[n].pending = rec.pending /\ names'[n].paidThrough = rec.paidThrough
         /\ names'[n].finalizeBy = rec.finalizeBy
         /\ names'[n].addr = rec.addr /\ names'[n].profile = rec.profile
         /\ \A m \in Names \ {n} : names'[m] = names[m]
  <1> DEFINE s == [rec EXCEPT !.owner = who, !.effHeight = anchor.effHeight,
                              !.pos = anchor.pos, !.id = anchor.id]
  <1>1. /\ s.owner = who /\ s.effHeight = anchor.effHeight
        /\ s.pos = anchor.pos /\ s.id = anchor.id
        /\ s.locked = rec.locked /\ s.viaFill = rec.viaFill
        /\ s.pending = rec.pending /\ s.paidThrough = rec.paidThrough
        /\ s.finalizeBy = rec.finalizeBy /\ s.addr = rec.addr /\ s.profile = rec.profile
    BY DEF NameRec
  <1>2. names' = [names EXCEPT ![n] = s]
    BY DEF takeName
  <1> HIDE DEF s
  <1>3. names'[n] = s /\ \A m \in Names \ {n} : names'[m] = names[m]
    BY <1>2 DEF NameTypes
  <1> QED BY <1>1, <1>3

\* An anchor is a natural height, never above the block; with a salt it is that of
\* a commit of the reveal window.
LEMMA AnchorHeight ==
  ASSUME Types, NamesOk, NEW n \in Names, NEW who \in Addrs, NEW salt \in Salts \cup {None},
         NEW txid, RevealValid(n, who, salt)
  PROVE  LET e == Anchor(n, who, salt, txid).effHeight
         IN /\ e \in Nat /\ e <= height
            /\ salt # None => /\ salt \in Salts /\ e = commits[<<n, who, salt>>]
                              /\ e # 0 /\ height - e <= RevealWindow
  <1>1. height \in Nat /\ commits \in [CommitKeys -> Nat]
    BY DEF Types, ChainTypes, NameTypes
  <1>2. CASE salt = None
    BY <1>1, <1>2 DEF Anchor
  <1>3. CASE salt # None
    <2>1. salt \in Salts /\ <<n, who, salt>> \in CommitKeys
      BY <1>3 DEF CommitKeys
    <2>2. Anchor(n, who, salt, txid).effHeight = commits[<<n, who, salt>>]
      BY <1>3 DEF Anchor
    <2>3. /\ commits[<<n, who, salt>>] \in Nat /\ commits[<<n, who, salt>>] <= height
          /\ commits[<<n, who, salt>>] # 0 /\ height - commits[<<n, who, salt>>] <= RevealWindow
      BY <1>1, <1>3, <2>1 DEF NamesOk, RevealValid
    <2> QED BY <1>3, <2>1, <2>2, <2>3
  <1> QED BY <1>2, <1>3

\* From V25 on the reveal window is the freeze.
LEMMA WindowIsFreeze ==
  ASSUME height >= V25_HEIGHT PROVE RevealWindow = REG_COMMIT_MAX_BLOCKS
  BY DEF RevealWindow

\* From V25 on no reservation is made against a listed name: the listing had to
\* wait until no earlier anchor could be revealed.
LEMMA ReservedUnlisted ==
  ASSUME Types, NamesOk, NEW n \in Names, NEW who \in Addrs,
         NEW salt \in Salts \cup {None}, NEW txid \in AnchorIds, reserveName(n, who, salt, txid)
  PROVE  \A i \in OfferIds : ~Of(offers[i], n)
  <1> DEFINE r == names[n]
             anchor == Anchor(n, who, salt, txid)
  <1>1. /\ height >= V25_HEIGHT /\ salt # None /\ RevealValid(n, who, salt)
        /\ winsName(anchor, n)
    BY DEF reserveName
  <1>2. anchor.effHeight \in Nat /\ height - anchor.effHeight <= REG_COMMIT_MAX_BLOCKS
    BY <1>1, AnchorHeight, WindowIsFreeze
  <1>3. height \in Nat /\ r.effHeight \in Nat
    BY NameFields DEF Types, ChainTypes
  <1> SUFFICES ASSUME NEW i \in OfferIds, Of(offers[i], n) PROVE FALSE
    OBVIOUS
  <1>4. ~r.pending /\ r.owner # None
    BY SetsAssumption DEF NamesOk, NameOk, ListingOk
  <1>5. ~r.viaFill /\ earlierAnchor(anchor, r)
    BY <1>1, <1>4 DEF winsName, curActive
  <1>6. anchor.effHeight <= r.effHeight
    BY <1>2, <1>3, <1>5 DEF earlierAnchor
  <1>7. height > r.effHeight + REG_COMMIT_MAX_BLOCKS
    BY <1>1, <1>5, ListedIsSettled
  <1> HIDE DEF anchor
  <1> QED BY <1>2, <1>3, <1>6, <1>7, ParametersAssumption

LEMMA ReserveNameKeeps ==
  ASSUME Types, Types', NamesOk, [Next]_vars, height' = height, NEW n \in Names,
         NEW who \in Addrs, NEW salt \in Salts \cup {None}, NEW txid \in AnchorIds,
         reserveName(n, who, salt, txid)
  PROVE  NamesOk'
  <1> DEFINE r == names[n]
             anchor == Anchor(n, who, salt, txid)
             rec == [NoName EXCEPT !.pending = TRUE, !.finalizeBy = finalizeDeadline(anchor)]
  <1>1. /\ height >= V25_HEIGHT /\ salt # None /\ RevealValid(n, who, salt) /\ ~lapsedNow(n)
        /\ winsName(anchor, n) /\ takeName(n, who, anchor, rec)
        /\ UNCHANGED <<commits, recaptures>>
    BY DEF reserveName
  <1>2. /\ salt \in Salts /\ anchor.effHeight = commits[<<n, who, salt>>]
        /\ anchor.effHeight \in Nat /\ anchor.effHeight # 0 /\ anchor.effHeight <= height
        /\ height - anchor.effHeight <= REG_COMMIT_MAX_BLOCKS
    BY <1>1, AnchorHeight, WindowIsFreeze
  <1>3. /\ height \in Nat /\ who # None /\ r.effHeight \in Nat /\ r.finalizeBy \in Nat
    BY NameFields, SetsAssumption DEF Types, ChainTypes
  <1>4. \A i \in OfferIds : ~Of(offers[i], n)
    BY ReservedUnlisted
  <1>5. recaptures[n].owner = None
    BY <1>1, <1>3, GateOrderAssumption, GatesAssumption
    DEF NamesOk, NameOk, RecaptureOk, nameExists, lapsedNow, curActive
  <1>6. /\ rec \in NameRec /\ rec.pending = TRUE /\ rec.viaFill = FALSE /\ rec.locked = FALSE
    <2>1. finalizeDeadline(anchor) \in Nat
      <3> HIDE DEF anchor
      <3> QED BY <1>2, ParametersAssumption DEF finalizeDeadline
    <2> QED BY <2>1 DEF NoName, NameRec, OrNone
  <1> HIDE DEF rec, anchor
  <1>7. /\ names'[n].owner = who /\ names'[n].effHeight = anchor.effHeight
        /\ names'[n].pending = TRUE /\ names'[n].viaFill = FALSE /\ names'[n].locked = FALSE
    BY <1>1, <1>6, TakenRecord DEF Types
  <1>8. RecordOk(n)'
    <2>1. \E s \in Salts : commits'[<<n, names'[n].owner, s>>] = names'[n].effHeight
      BY <1>1, <1>2, <1>7
    <2> QED BY <1>1, <1>2, <1>3, <1>7, <2>1 DEF RecordOk, OpenedBy
  <1> QED BY <1>1, <1>4, <1>5, <1>7, <1>8, TakeKeeps

\* Before V26 no recapture is reserved, and a claim that wins owns at once.
LEMMA OwnAtOnceKeeps ==
  ASSUME Types, Types', NamesOk, [Next]_vars, height' = height, NEW n \in Names,
         NEW who \in Addrs, NEW salt \in Salts \cup {None}, NEW txid \in AnchorIds,
         NEW rec \in NameRec, takeName(n, who, Anchor(n, who, salt, txid), rec),
         height < V26_HEIGHT, RevealValid(n, who, salt), UNCHANGED <<commits, recaptures>>,
         rec.locked = FALSE, rec.pending = FALSE, rec.paidThrough >= leaseFloor
  PROVE  NamesOk'
  <1> DEFINE e == Anchor(n, who, salt, txid).effHeight
  <1>1. height \in Nat /\ e \in Nat /\ e <= height /\ who # None
    BY AnchorHeight, SetsAssumption DEF Types, ChainTypes
  <1>2. /\ names'[n].owner = who /\ names'[n].effHeight = e /\ names'[n].locked = FALSE
        /\ names'[n].pending = FALSE /\ names'[n].paidThrough = rec.paidThrough
    BY TakenRecord DEF Types
  <1> HIDE DEF e
  <1>3. RecordOk(n)'
    BY <1>1, <1>2 DEF RecordOk
  <1>4. recaptures[n].owner = None
    BY <1>1, GatesAssumption DEF NamesOk, NameOk, RecaptureOk
  <1>5. height < V28_HEIGHT
    BY <1>1, GateOrderAssumption, GatesAssumption
  <1> QED BY <1>2, <1>3, <1>4, <1>5, TakeKeeps

\* The term of a new lease, at or after V15, reaches the floor.
LEMMA TermReachesFloor ==
  ASSUME NEW h \in Nat, h >= V15_HEIGHT
  PROVE  /\ epochOf(h) + NAME_TERM_EPOCHS >= leaseFloor
         /\ epochOf(h) + NAME_TERM_EPOCHS \in Nat /\ leaseFloor \in Nat
  BY EpochMonotone, EpochNat, ParametersAssumption, GatesAssumption DEF leaseFloor

LEMMA RegisterKeeps ==
  ASSUME Types, Types', NamesOk, [Next]_vars, height' = height, NEW n \in Names,
         NEW who \in Addrs, NEW salt \in Salts \cup {None}, NEW txid \in AnchorIds,
         NEW fee \in Payments,
         registerName(n, who, salt, txid, fee) \/ reclaimLapsed(n, who, salt, txid, fee)
  PROVE  NamesOk'
  <1>1. height \in Nat
    BY DEF Types, ChainTypes
  <1>2. ASSUME NEW e \in Nat PROVE [NoName EXCEPT !.paidThrough = e] \in NameRec
    BY DEF NoName, NameRec, OrNone
  <1>3. ASSUME NEW e \in Nat PROVE [NoName EXCEPT !.viaFill = TRUE, !.paidThrough = e] \in NameRec
    BY DEF NoName, NameRec, OrNone
  <1>4. CASE registerName(n, who, salt, txid, fee)
    <2> DEFINE since == IF height >= V15_HEIGHT THEN epochOf(height) ELSE epochOf(V15_HEIGHT)
               rec == [NoName EXCEPT !.paidThrough = since + NAME_TERM_EPOCHS]
    <2>1. /\ height < V25_HEIGHT /\ RevealValid(n, who, salt)
          /\ takeName(n, who, Anchor(n, who, salt, txid), rec)
          /\ UNCHANGED <<commits, recaptures>>
      BY <1>4 DEF registerName
    <2>2. since + NAME_TERM_EPOCHS \in Nat /\ since + NAME_TERM_EPOCHS >= leaseFloor
      BY <1>1, TermReachesFloor, GatesAssumption
    <2>3. /\ rec \in NameRec /\ rec.locked = FALSE /\ rec.pending = FALSE
          /\ rec.paidThrough = since + NAME_TERM_EPOCHS
      BY <1>2, <2>2 DEF NoName
    <2>4. height < V26_HEIGHT
      BY <1>1, <2>1, GateOrderAssumption, GatesAssumption
    <2> HIDE DEF rec, since
    <2> QED BY <2>1, <2>2, <2>3, <2>4, OwnAtOnceKeeps
  <1>5. CASE reclaimLapsed(n, who, salt, txid, fee)
    <2> DEFINE rec == [NoName EXCEPT !.viaFill = TRUE,
                                     !.paidThrough = epochOf(height) + NAME_TERM_EPOCHS]
    <2>1. /\ height < V26_HEIGHT /\ RevealValid(n, who, salt) /\ height >= V15_HEIGHT
          /\ takeName(n, who, Anchor(n, who, salt, txid), rec)
          /\ UNCHANGED <<commits, recaptures>>
      BY <1>5 DEF reclaimLapsed, lapsedNow
    <2>2. /\ epochOf(height) + NAME_TERM_EPOCHS \in Nat
          /\ epochOf(height) + NAME_TERM_EPOCHS >= leaseFloor
      BY <1>1, <2>1, TermReachesFloor
    <2>3. /\ rec \in NameRec /\ rec.locked = FALSE /\ rec.pending = FALSE
          /\ rec.paidThrough = epochOf(height) + NAME_TERM_EPOCHS
      BY <1>3, <2>2 DEF NoName
    <2> HIDE DEF rec
    <2> QED BY <2>1, <2>2, <2>3, OwnAtOnceKeeps
  <1> QED BY <1>4, <1>5

LEMMA ReserveRecaptureKeeps ==
  ASSUME Types, Types', NamesOk, [Next]_vars, height' = height, NEW n \in Names,
         NEW who \in Addrs, NEW salt \in Salts \cup {None}, NEW txid \in AnchorIds,
         reserveRecapture(n, who, salt, txid)
  PROVE  NamesOk'
  <1> DEFINE anchor == Anchor(n, who, salt, txid)
             q == [owner |-> who, effHeight |-> anchor.effHeight, pos |-> anchor.pos,
                   id |-> anchor.id, finalizeBy |-> finalizeDeadline(anchor)]
  <1>1. /\ height >= V26_HEIGHT /\ salt # None /\ RevealValid(n, who, salt) /\ lapsedNow(n)
        /\ recaptures' = [recaptures EXCEPT ![n] = q]
        /\ UNCHANGED <<commits, names, offers>>
    BY DEF reserveRecapture
  <1>2. q.owner = who /\ q.effHeight = anchor.effHeight
    OBVIOUS
  <1>3. /\ salt \in Salts /\ anchor.effHeight = commits[<<n, who, salt>>]
        /\ anchor.effHeight # 0
    BY <1>1, AnchorHeight
  <1> HIDE DEF q, anchor
  <1>4. /\ recaptures'[n] = q /\ \A m \in Names \ {n} : recaptures'[m] = recaptures[m]
        /\ names' = [names EXCEPT ![n] = names[n]]
    BY <1>1 DEF Types, NameTypes
  <1>5. nameExists(n) /\ ~names[n].pending /\ lapsed(names[n], epochOf(height))
    BY <1>1 DEF lapsedNow, curActive, nameExists, NoName
  <1>6. RecaptureOk(n)'
    <2>1. \E s \in Salts : commits'[<<n, recaptures'[n].owner, s>>] = recaptures'[n].effHeight
      BY <1>1, <1>2, <1>3, <1>4
    <2>2. /\ names'[n].owner # None /\ ~names'[n].pending /\ recaptures'[n].effHeight # 0
          /\ height' >= V26_HEIGHT /\ lapsed(names[n], epochOf(height))'
      BY <1>1, <1>2, <1>3, <1>4, <1>5 DEF nameExists, lapsed, paidThrough
    <2> QED BY <2>1, <2>2 DEF RecaptureOk, OpenedBy, nameExists, lapsed, paidThrough
  <1>7. RecordOk(n)'
    BY <1>1, RecordStays, HeightSteps, CommitsAreKept
  <1>8. names[n].paidThrough <= names[n].paidThrough
    BY NameFields DEF Types
  <1> QED BY <1>1, <1>4, <1>6, <1>7, <1>8, AmendKeeps

LEMMA FinalizeRegistrationKeeps ==
  ASSUME Types, Types', NamesOk, [Next]_vars, height' = height, NEW n \in Names,
         NEW who \in Addrs, NEW salt \in Salts, NEW fee \in Payments,
         finalizeRegistration(n, who, salt, fee)
  PROVE  NamesOk'
  <1> DEFINE r == names[n]
             s == [r EXCEPT !.pending = FALSE, !.finalizeBy = 0,
                            !.paidThrough = epochOf(height) + NAME_TERM_EPOCHS]
  <1>1. /\ height >= V25_HEIGHT /\ r.pending /\ names' = [names EXCEPT ![n] = s]
        /\ UNCHANGED <<commits, recaptures, offers>>
    BY DEF finalizeRegistration, ownsReservation
  <1>2. r \in NameRec /\ height \in Nat /\ r.effHeight \in Nat /\ RecordOk(n)
    BY NameFields DEF Types, ChainTypes, NamesOk, NameOk
  <1>3. /\ names'[n] = s /\ s.owner = r.owner /\ s.locked = r.locked
        /\ s.pending = FALSE /\ s.effHeight = r.effHeight
        /\ s.paidThrough = epochOf(height) + NAME_TERM_EPOCHS
    BY <1>1, <1>2 DEF NameRec, Types, NameTypes
  <1>4. s.paidThrough >= leaseFloor
    <2>1. height >= V15_HEIGHT
      BY <1>1, <1>2, GateOrderAssumption, GatesAssumption
    <2> QED BY <1>2, <1>3, <2>1, TermReachesFloor
  <1> HIDE DEF s
  <1>5. RecordOk(n)'
    BY <1>1, <1>2, <1>3, <1>4 DEF RecordOk
  <1>6. recaptures[n].owner = None /\ \A i \in OfferIds : ~Of(offers[i], n)
    BY <1>1, NotOwned
  <1>7. RecaptureOk(n)' /\ \A m \in Names \ {n} : recaptures'[m] = recaptures[m]
    BY <1>1, <1>6 DEF RecaptureOk
  <1>8. s.locked = FALSE
    BY <1>1, <1>2, <1>3 DEF RecordOk, NameRec
  <1>9. \A i \in OfferIds :
           /\ ~Of(offers'[i], n)
           /\ SameListing(i) \/ (Of(offers[i], n) /\ ~Lists(offers'[i]))
    BY <1>1, <1>6, SameIfUnchanged
  <1> QED BY <1>1, <1>5, <1>7, <1>8, <1>9, RewriteKeeps

\* A reserved recapture still stands beside a lapsed record, so its finalize
\* always pays for the name; a lapsed name is not listed.
LEMMA RecaptureStands ==
  ASSUME Types, NamesOk, Settled, NEW n \in Names, recaptures[n].owner # None
  PROVE  /\ height >= V15_HEIGHT
         /\ nameExists(n) /\ ~names[n].pending /\ lapsed(names[n], epochOf(height))
         /\ \A i \in OfferIds : ~Of(offers[i], n)
  <1>1. /\ height >= V26_HEIGHT /\ nameExists(n) /\ ~names[n].pending
        /\ lapsed(names[n], epochOf(height))
    BY DEF NamesOk, NameOk, RecaptureOk
  <1>2. height >= V15_HEIGHT
    BY <1>1, GateOrderAssumption, GatesAssumption DEF Types, ChainTypes
  <1> QED BY <1>1, <1>2, LeaseOutlives

LEMMA FinalizeRecaptureKeeps ==
  ASSUME Types, Types', NamesOk, Settled, [Next]_vars, height' = height, NEW n \in Names,
         NEW who \in Addrs, NEW salt \in Salts, NEW fee \in Payments,
         finalizeRecapture(n, who, salt, fee)
  PROVE  NamesOk'
  <1> DEFINE q == recaptures[n]
             s == [NoName EXCEPT !.owner = who, !.effHeight = q.effHeight,
                       !.pos = q.pos, !.id = q.id,
                       !.paidThrough = epochOf(height) + NAME_TERM_EPOCHS]
  <1>1. q.owner = who /\ who # None /\ height \in Nat /\ q.effHeight \in Nat
        /\ height > q.effHeight + REG_COMMIT_MAX_BLOCKS
    BY NameFields, SetsAssumption DEF finalizeRecapture, finalizable, Types, ChainTypes
  <1>2. /\ height >= V15_HEIGHT /\ nameExists(n) /\ ~names[n].pending
        /\ lapsed(names[n], epochOf(height)) /\ \A i \in OfferIds : ~Of(offers[i], n)
    BY <1>1, RecaptureStands
  <1>3. /\ recaptures' = [recaptures EXCEPT ![n] = NoRecapture]
        /\ voidOpenNameOffers(n) /\ names' = [names EXCEPT ![n] = s] /\ UNCHANGED commits
    BY <1>2 DEF finalizeRecapture
  <1>4. /\ s.owner = who /\ s.effHeight = q.effHeight /\ s.locked = FALSE
        /\ s.pending = FALSE /\ s.paidThrough = epochOf(height) + NAME_TERM_EPOCHS
    BY DEF NoName
  <1> HIDE DEF s
  <1>5. /\ names'[n] = s /\ recaptures'[n].owner = None
        /\ \A m \in Names \ {n} : recaptures'[m] = recaptures[m]
    BY <1>3 DEF Types, NameTypes, NoRecapture
  <1>6. RecaptureOk(n)'
    BY <1>5 DEF RecaptureOk
  <1>7. RecordOk(n)'
    BY <1>1, <1>2, <1>4, <1>5, TermReachesFloor, ParametersAssumption DEF RecordOk
  <1>8. \A i \in OfferIds :
           /\ ~Of(offers'[i], n)
           /\ SameListing(i) \/ (Of(offers[i], n) /\ ~Lists(offers'[i]))
    BY <1>1, <1>2, <1>3, VoidListings DEF curActive, nameExists
  <1> QED BY <1>3, <1>4, <1>5, <1>6, <1>7, <1>8, RewriteKeeps

LEMMA NcommitKeeps ==
  ASSUME Types, Types', NamesOk, [Next]_vars, NEW key \in CommitKeys, applyNcommit(key)
  PROVE  NamesOk'
  <1>1. /\ height' \in Nat /\ height \in Nat /\ height <= height' /\ CommitsKept
        /\ UNCHANGED <<names, recaptures, offers>>
    BY HeightSteps, CommitsAreKept DEF Types, ChainTypes, applyNcommit
  <1>2. \A n \in Names : Untouched(n)
    BY <1>1, SameIfUnchanged DEF Untouched
  <1>3. \A n \in Names : NameOk(n)'
    BY <1>1, <1>2, UntouchedOk
  <1> QED BY <1>1, <1>3, GatesAssumption DEF NamesOk, CommitsKept

LEMMA NameRecordKeeps ==
  ASSUME Types, Types', NamesOk, Settled, [Next]_vars, height' = height,
         NEW who \in Addrs, NameRecord(who)
  PROVE  NamesOk'
  <1>1. CASE \E key \in CommitKeys : applyNcommit(key)
    BY <1>1, NcommitKeeps
  <1>2. CASE \E n \in Names, salt \in Salts \cup {None}, txid \in AnchorIds, fee \in Payments :
               applyName(n, who, salt, txid, fee)
    BY <1>2, ReserveRecaptureKeeps, ReserveNameKeeps, RegisterKeeps DEF applyName
  <1>3. CASE \E n \in Names, salt \in Salts, fee \in Payments : applyNfinalize(n, who, salt, fee)
    BY <1>3, FinalizeRegistrationKeeps, FinalizeRecaptureKeeps DEF applyNfinalize
  <1>4. CASE \E n \in Names, to \in Addrs : applyNxfer(n, who, to)
    BY <1>4, NxferKeeps
  <1>5. CASE \/ \E n \in Names, target \in NameTargets : applyNset(n, who, target)
             \/ \E n \in Names, p \in Contents \cup {None} : applyNprofile(n, who, p)
    BY <1>5, NsetKeeps
  <1>6. CASE \E n \in Names, fee \in Payments : applyNrenew(n, who, fee)
    BY <1>6, NrenewKeeps
  <1> QED BY <1>1, <1>2, <1>3, <1>4, <1>5, <1>6 DEF NameRecord

\* What no step touches stands.
LEMMA QuietKeeps ==
  ASSUME Types, Types', NamesOk, [Next]_vars, Quiet
  PROVE  NamesOk'
  <1>1. /\ height' \in Nat /\ height \in Nat /\ height <= height' /\ CommitsKept
    BY HeightSteps, CommitsAreKept DEF Types, ChainTypes
  <1>2. \A n \in Names : Untouched(n)
    BY DEF Untouched, Quiet, nameVars
  <1>3. \A n \in Names : NameOk(n)'
    BY <1>1, <1>2, UntouchedOk
  <1> QED BY <1>1, <1>3, GatesAssumption DEF NamesOk, CommitsKept

\* NamesOk is inductive.
LEMMA NamesStep ==
  ASSUME Types, Types', NamesOk, [Next]_vars
  PROVE  NamesOk'
  <1>1. NameStep
    BY StepNames
  <1>2. CASE Quiet
    BY <1>2, QuietKeeps
  <1>3. ASSUME height' = height, Settled, NEW who \in Addrs, NameRecord(who)
        PROVE  NamesOk'
    BY <1>3, NameRecordKeeps
  <1>4. ASSUME height' = height, NEW n \in Names, DropReservation(n) \/ DropRecapture(n)
        PROVE  NamesOk'
    BY <1>4, DropReservationKeeps, DropRecaptureKeeps
  <1>5. ASSUME height' = height, NEW i \in OfferIds, NEW n \in Names, NEW who \in Addrs,
               Enlists(i, n, who) \/ Delists(i, n) \/ Delivers(i, n, who)
        PROVE  NamesOk'
    BY <1>5, EnlistKeeps, DelistKeeps, DeliverKeeps
  <1> QED BY <1>1, <1>2, <1>3, <1>4, <1>5 DEF NameStep

LEMMA NamesInit == Init => NamesOk
  <1> SUFFICES ASSUME Init PROVE NamesOk
    OBVIOUS
  <1>1. height = ACTIVATION_HEIGHT /\ \A k \in CommitKeys : commits[k] = 0
    BY DEF Init
  <1>2. ASSUME NEW n \in Names PROVE NameOk(n)
    <2>1. /\ names[n] = NoName /\ recaptures[n] = NoRecapture
          /\ \A i \in OfferIds : offers[i].status = "none"
      BY DEF Init, NoOffer
    <2>2. RecordOk(n) /\ RecaptureOk(n)
      BY <1>1, <2>1, GatesAssumption DEF RecordOk, RecaptureOk, NoName, NoRecapture
    <2> QED BY <2>1, <2>2 DEF NameOk, Of, Lists, NoName
  <1> QED BY <1>1, <1>2, GatesAssumption DEF NamesOk


-----------------------------------------------------------------------------
(* How a step may change one name: its record, and its reserved recapture. *)

\* Owner, anchor, lease and standing stay; a reservation stays as it is.
Keeps(r, s) ==
  /\ s.owner = r.owner /\ Anchored(s) = Anchored(r) /\ s.paidThrough = r.paidThrough
  /\ s.viaFill = r.viaFill /\ s.pending = r.pending
  /\ r.pending => s = r

\* A new owner finds neither payment target nor profile.
Blanked(s) == s.addr = None /\ s.profile = None

\* Anchor a is no older than the reveal window.
Fresh(a) == a.effHeight \in Nat /\ (height >= V25_HEIGHT => height - a.effHeight <= REG_COMMIT_MAX_BLOCKS)

Dropped(n) ==
  /\ names[n].pending /\ height > names[n].finalizeBy
  /\ names'[n] = NoName

SoldName(n) ==
  LET r == names[n]
      s == names'[n]
  IN /\ \E i \in openNameOffers(n) : offers[i].seller = r.owner /\ offers'[i].status = "filled"
     /\ height >= V15_HEIGHT => ~lapsed(r, epochOf(height))
     /\ r.viaFill => s.viaFill
     /\ ~r.pending /\ ~s.pending /\ Blanked(s)

Contested(n) ==
  /\ ~lapsedNow(n) /\ Blanked(names'[n])
  /\ \E a : winsName(a, n) /\ Fresh(a)

Reclaimed(n) ==
  LET past == epochOf(height) - (paidThrough(names[n]) + NAME_GRACE_EPOCHS)
  IN /\ lapsedNow(n) /\ Blanked(names'[n])
     /\ feesPaid' = feesPaid + expiredClaimFee(n, past, height)

Finalized(n) ==
  LET r == names[n]
      s == names'[n]
  IN /\ r.pending /\ ~s.pending /\ s.owner = r.owner /\ Anchored(s) = Anchored(r)

Recaptured(n) ==
  LET q == recaptures[n]
      s == names'[n]
      past == epochOf(height) - (paidThrough(names[n]) + NAME_GRACE_EPOCHS)
  IN /\ q.owner # None /\ ~names[n].pending /\ lapsed(names[n], epochOf(height))
     /\ s.owner = q.owner /\ Anchored(s) = Anchored(q) /\ Blanked(s)
     /\ feesPaid' = feesPaid + expiredClaimFee(n, past, height)

HandedOn(n) ==
  LET r == names[n]
      s == names'[n]
  IN /\ ~r.pending /\ ~s.pending
     /\ height >= V15_HEIGHT => ~lapsed(r, epochOf(height))
     /\ Anchored(s) = Anchored(r) /\ s.viaFill = r.viaFill
     /\ s.owner # r.owner => Blanked(s)

\* What becomes of the record when the recapture beside it stays.
RecordMoves(n) ==
  \/ Keeps(names[n], names'[n]) \/ Dropped(n) \/ SoldName(n) \/ Contested(n)
  \/ Reclaimed(n) \/ Finalized(n) \/ HandedOn(n)

\* What becomes of the reserved recapture.
RecaptureMoves(n) ==
  LET q == recaptures[n]
  IN \/ recaptures'[n] = q /\ RecordMoves(n)
     \/ /\ names'[n] = names[n]
        /\ \/ q.owner # None /\ height > q.finalizeBy
           \/ /\ height >= V26_HEIGHT
              /\ \/ q.owner = None
                 \/ height > q.finalizeBy
                 \/ \E a : earlierAnchor(a, q) /\ Fresh(a)
     \/ recaptures'[n] = NoRecapture /\ Recaptured(n)

LEMMA KeptMoves ==
  ASSUME NEW n \in Names, names'[n] = names[n], recaptures'[n] = recaptures[n]
  PROVE  RecaptureMoves(n)
  BY DEF RecaptureMoves, RecordMoves, Keeps, Anchored

\* A write to the record of another name is none to this one.
LEMMA OtherMoves ==
  ASSUME Types, NEW n \in Names, NEW m \in Names \ {n}, NEW s,
         names' = [names EXCEPT ![m] = s] \/ names' = names,
         recaptures' = recaptures \/ \E z : recaptures' = [recaptures EXCEPT ![m] = z]
  PROVE  RecaptureMoves(n)
  <1>1. names'[n] = names[n] /\ recaptures'[n] = recaptures[n]
    BY DEF Types, NameTypes
  <1> QED BY <1>1, KeptMoves

\* A claim on n, by name record.
LEMMA ClaimMoves ==
  ASSUME Types, Types', NamesOk, height' = height, NEW n \in Names, NEW who \in Addrs,
         NEW salt \in Salts \cup {None}, NEW txid \in AnchorIds, NEW fee \in Payments,
         applyName(n, who, salt, txid, fee)
  PROVE  RecaptureMoves(n)
  <1> DEFINE a == Anchor(n, who, salt, txid)
             ep == epochOf(height)
  <1>1. RevealValid(n, who, salt) /\ height \in Nat
    BY DEF applyName, reserveRecapture, reclaimLapsed, reserveName, registerName, Types, ChainTypes
  <1>2. salt # None \/ height < V25_HEIGHT => Fresh(a)
    <2>1. a.effHeight \in Nat /\ (salt # None => height - a.effHeight <= RevealWindow)
      BY <1>1, AnchorHeight
    <2>2. height >= V25_HEIGHT => RevealWindow = REG_COMMIT_MAX_BLOCKS
      BY WindowIsFreeze
    <2> HIDE DEF a
    <2> QED BY <1>1, <2>1, <2>2, GatesAssumption DEF Fresh
  <1>3. CASE reserveRecapture(n, who, salt, txid)
    <2>1. Fresh(a) /\ height >= V26_HEIGHT /\ names' = names
          /\ \/ recaptures[n].owner = None \/ height > recaptures[n].finalizeBy
             \/ earlierAnchor(a, recaptures[n])
      BY <1>2, <1>3 DEF reserveRecapture
    <2> HIDE DEF a
    <2> QED BY <2>1 DEF RecaptureMoves
  <1>4. CASE reclaimLapsed(n, who, salt, txid, fee)
    <2> DEFINE rec == [NoName EXCEPT !.viaFill = TRUE, !.paidThrough = ep + NAME_TERM_EPOCHS]
    <2>1. /\ lapsedNow(n) /\ takeName(n, who, a, rec) /\ recaptures' = recaptures
          /\ feesPaid' = feesPaid +
               expiredClaimFee(n, ep - (paidThrough(names[n]) + NAME_GRACE_EPOCHS), height)
      BY <1>4 DEF reclaimLapsed, lapsedClaimFee
    <2>2. rec \in NameRec /\ rec.addr = None /\ rec.profile = None
      BY <1>1, LeaseNat DEF NoName, NameRec, OrNone
    <2> HIDE DEF rec, a
    <2>3. Reclaimed(n)
      BY <2>1, <2>2, TakenRecord DEF Reclaimed, Blanked, Types
    <2> QED BY <2>1, <2>3 DEF RecaptureMoves, RecordMoves
  <1>5. CASE reserveName(n, who, salt, txid)
    <2> DEFINE rec == [NoName EXCEPT !.pending = TRUE, !.finalizeBy = finalizeDeadline(a)]
    <2>1. /\ ~lapsedNow(n) /\ winsName(a, n) /\ takeName(n, who, a, rec)
          /\ recaptures' = recaptures /\ Fresh(a)
      BY <1>2, <1>5 DEF reserveName
    <2>2. rec \in NameRec /\ rec.addr = None /\ rec.profile = None
      <3>1. finalizeDeadline(a) \in Nat
        <4> HIDE DEF a
        <4> QED BY <2>1, ParametersAssumption DEF finalizeDeadline, Fresh
      <3> QED BY <3>1 DEF NoName, NameRec, OrNone
    <2> HIDE DEF rec, a
    <2>3. Contested(n)
      BY <2>1, <2>2, TakenRecord DEF Contested, Blanked, Types
    <2> QED BY <2>1, <2>3 DEF RecaptureMoves, RecordMoves
  <1>6. CASE registerName(n, who, salt, txid, fee)
    <2> DEFINE since == IF height >= V15_HEIGHT THEN ep ELSE epochOf(V15_HEIGHT)
               rec == [NoName EXCEPT !.paidThrough = since + NAME_TERM_EPOCHS]
    <2>1. /\ ~lapsedNow(n) /\ winsName(a, n) /\ takeName(n, who, a, rec)
          /\ recaptures' = recaptures /\ Fresh(a)
      BY <1>2, <1>6 DEF registerName
    <2>2. rec \in NameRec /\ rec.addr = None /\ rec.profile = None
      BY <1>1, LeaseNat, GatesAssumption DEF NoName, NameRec, OrNone
    <2> HIDE DEF rec, a
    <2>3. Contested(n)
      BY <2>1, <2>2, TakenRecord DEF Contested, Blanked, Types
    <2> QED BY <2>1, <2>3 DEF RecaptureMoves, RecordMoves
  <1> QED BY <1>3, <1>4, <1>5, <1>6 DEF applyName

LEMMA FinalizeMoves ==
  ASSUME Types, Types', NamesOk, Settled, height' = height, NEW n \in Names, NEW who \in Addrs,
         NEW salt \in Salts, NEW fee \in Payments, applyNfinalize(n, who, salt, fee)
  PROVE  RecaptureMoves(n)
  <1> DEFINE r == names[n]
             q == recaptures[n]
             ep == epochOf(height)
  <1>1. CASE finalizeRegistration(n, who, salt, fee)
    <2> DEFINE s == [r EXCEPT !.pending = FALSE, !.finalizeBy = 0,
                              !.paidThrough = ep + NAME_TERM_EPOCHS]
    <2>1. names' = [names EXCEPT ![n] = s] /\ r.pending /\ recaptures' = recaptures
      BY <1>1 DEF finalizeRegistration, ownsReservation
    <2>2. s.pending = FALSE /\ s.owner = r.owner /\ Anchored(s) = Anchored(r)
      BY NameFields DEF Types, NameRec, Anchored
    <2> HIDE DEF s
    <2>3. names'[n] = s
      BY <2>1 DEF Types, NameTypes
    <2> QED BY <2>1, <2>2, <2>3 DEF RecaptureMoves, RecordMoves, Finalized
  <1>2. CASE finalizeRecapture(n, who, salt, fee)
    <2> DEFINE s == [NoName EXCEPT !.owner = who, !.effHeight = q.effHeight,
                       !.pos = q.pos, !.id = q.id, !.paidThrough = ep + NAME_TERM_EPOCHS]
    <2>1. q.owner = who /\ who # None
      BY <1>2, SetsAssumption DEF finalizeRecapture, finalizable
    <2>2. nameExists(n) /\ ~r.pending /\ lapsed(r, ep)
      BY <2>1, RecaptureStands
    <2>3. /\ recaptures' = [recaptures EXCEPT ![n] = NoRecapture]
          /\ names' = [names EXCEPT ![n] = s]
          /\ feesPaid' = feesPaid +
               expiredClaimFee(n, ep - (paidThrough(names[n]) + NAME_GRACE_EPOCHS), height)
      BY <1>2, <2>2 DEF finalizeRecapture, lapsedClaimFee
    <2>4. s.owner = who /\ Anchored(s) = Anchored(q) /\ Blanked(s)
      BY DEF NoName, Anchored, Blanked
    <2> HIDE DEF s
    <2>5. names'[n] = s /\ recaptures'[n] = NoRecapture
      BY <2>3 DEF Types, NameTypes
    <2>6. Recaptured(n)
      BY <2>1, <2>2, <2>3, <2>4, <2>5 DEF Recaptured
    <2> QED BY <2>5, <2>6 DEF RecaptureMoves
  <1> QED BY <1>1, <1>2 DEF applyNfinalize

LEMMA HolderMoves ==
  ASSUME Types, Types', height' = height, NEW n \in Names, NEW who \in Addrs,
         \/ \E to \in Addrs : applyNxfer(n, who, to)
         \/ \E target \in NameTargets : applyNset(n, who, target)
         \/ \E p \in Contents \cup {None} : applyNprofile(n, who, p)
         \/ \E fee \in Payments : applyNrenew(n, who, fee)
  PROVE  RecaptureMoves(n)
  <1> DEFINE r == names[n]
  <1>1. r \in NameRec /\ recaptures' = recaptures /\ ~r.pending
    BY NameFields DEF Types, applyNxfer, applyNset, applyNprofile, applyNrenew, holdsName, OnlyNames
  <1>2. CASE \E to \in Addrs : applyNxfer(n, who, to)
    <2> PICK to \in Addrs : applyNxfer(n, who, to)
      BY <1>2
    <2> DEFINE s == [r EXCEPT !.owner = to, !.addr = None, !.profile = None]
    <2>1. names' = [names EXCEPT ![n] = s] /\ (height >= V15_HEIGHT => ~lapsed(r, epochOf(height)))
      BY DEF applyNxfer, holdsName
    <2>2. Anchored(s) = Anchored(r) /\ s.viaFill = r.viaFill /\ Blanked(s) /\ s.pending = r.pending
      BY <1>1 DEF NameRec, Anchored, Blanked
    <2> HIDE DEF s
    <2>3. names'[n] = s
      BY <2>1 DEF Types, NameTypes
    <2> QED BY <1>1, <2>1, <2>2, <2>3 DEF RecaptureMoves, RecordMoves, HandedOn
  <1>3. CASE \E target \in NameTargets : applyNset(n, who, target)
    <2> PICK target \in NameTargets : applyNset(n, who, target)
      BY <1>3
    <2> DEFINE t == IF height >= V23_HEIGHT /\ target = ZERO_ADDR THEN None ELSE target
               s == [r EXCEPT !.addr = t]
    <2>1. names' = [names EXCEPT ![n] = s]
      BY DEF applyNset
    <2>2. Keeps(r, s)
      BY <1>1 DEF NameRec, Anchored, Keeps
    <2> HIDE DEF s
    <2>3. names'[n] = s
      BY <2>1 DEF Types, NameTypes
    <2> QED BY <1>1, <2>2, <2>3 DEF RecaptureMoves, RecordMoves
  <1>4. CASE \E p \in Contents \cup {None} : applyNprofile(n, who, p)
    <2> PICK p \in Contents \cup {None} : applyNprofile(n, who, p)
      BY <1>4
    <2> DEFINE s == [r EXCEPT !.profile = p]
    <2>1. names' = [names EXCEPT ![n] = s]
      BY DEF applyNprofile
    <2>2. Keeps(r, s)
      BY <1>1 DEF NameRec, Anchored, Keeps
    <2> HIDE DEF s
    <2>3. names'[n] = s
      BY <2>1 DEF Types, NameTypes
    <2> QED BY <1>1, <2>2, <2>3 DEF RecaptureMoves, RecordMoves
  <1>5. CASE \E fee \in Payments : applyNrenew(n, who, fee)
    <2> DEFINE s == [r EXCEPT !.paidThrough = @ + NAME_TERM_EPOCHS]
    <2>1. names' = [names EXCEPT ![n] = s] /\ ~lapsed(r, epochOf(height))
      BY <1>5 DEF applyNrenew
    <2>2. /\ Anchored(s) = Anchored(r) /\ s.viaFill = r.viaFill /\ s.owner = r.owner
          /\ s.pending = r.pending
      BY <1>1 DEF NameRec, Anchored
    <2> HIDE DEF s
    <2>3. names'[n] = s
      BY <2>1 DEF Types, NameTypes
    <2> QED BY <1>1, <2>1, <2>2, <2>3 DEF RecaptureMoves, RecordMoves, HandedOn
  <1> QED BY <1>2, <1>3, <1>4, <1>5

LEMMA ListingMoves ==
  ASSUME Types, Types', NamesOk, height' = height, NEW n \in Names, NEW i \in OfferIds,
         NEW who \in Addrs, Enlists(i, n, who) \/ Delists(i, n) \/ Delivers(i, n, who)
  PROVE  RecaptureMoves(n)
  <1> DEFINE r == names[n]
  <1>1. r \in NameRec /\ recaptures' = recaptures
    BY NameFields DEF Types, Enlists, Delists, Delivers
  <1>2. ~r.pending
    BY DEF Enlists, nameOfferable, Delists, Delivers, Listing, NamesOk, NameOk, ListingOk, Of
  <1>3. CASE Enlists(i, n, who) \/ Delists(i, n)
    <2> PICK b \in BOOLEAN : names' = [names EXCEPT ![n].locked = b]
      BY <1>3 DEF Enlists, Delists
    <2> DEFINE s == [r EXCEPT !.locked = b]
    <2>1. Keeps(r, s)
      BY <1>1, <1>2 DEF NameRec, Anchored, Keeps
    <2>2. names' = [names EXCEPT ![n] = s]
      OBVIOUS
    <2> HIDE DEF s
    <2>3. names'[n] = s
      BY <2>2 DEF Types, NameTypes
    <2> QED BY <1>1, <2>1, <2>3 DEF RecaptureMoves, RecordMoves
  <1>4. CASE Delivers(i, n, who)
    <2> PICK txid \in AnchorIds : deliverNameToBuyer(n, who, txid)
      BY <1>4 DEF Delivers
    <2> DEFINE sold == [r EXCEPT !.owner = who, !.locked = FALSE, !.addr = None, !.profile = None]
               stamped == [sold EXCEPT !.effHeight = height, !.pos = pos', !.id = txid,
                                       !.viaFill = TRUE]
    <2>1. /\ Blanked(sold) /\ sold.pending = r.pending /\ sold.viaFill = r.viaFill
          /\ Blanked(stamped) /\ stamped.pending = r.pending /\ stamped.viaFill = TRUE
      BY <1>1 DEF NameRec, Blanked
    <2>2. names' = [names EXCEPT ![n] = sold] \/ names' = [names EXCEPT ![n] = stamped]
      BY DEF deliverNameToBuyer
    <2> HIDE DEF sold, stamped
    <2>3. names'[n] = sold \/ names'[n] = stamped
      BY <2>2 DEF Types, NameTypes
    <2>4. Of(offers[i], n) /\ offers'[i].status = "filled" /\ Settled
      BY <1>4 DEF Delivers, Of, Listing, Lists
    <2>5. offers[i].seller = r.owner /\ i \in openNameOffers(n)
      BY <2>4 DEF NamesOk, NameOk, ListingOk, openNameOffers, Of, Lists, Open
    <2>6. height >= V15_HEIGHT => ~lapsed(r, epochOf(height))
      BY <2>4, LeaseOutlives
    <2>7. SoldName(n)
      BY <1>2, <2>1, <2>3, <2>4, <2>5, <2>6 DEF SoldName
    <2> QED BY <1>1, <2>7 DEF RecaptureMoves, RecordMoves
  <1> QED BY <1>3, <1>4

\* No step changes a name or its reserved recapture in any other way.
LEMMA StepRecaptureMoves ==
  ASSUME Types, Types', NamesOk, [Next]_vars, NEW n \in Names
  PROVE  RecaptureMoves(n)
  <1>1. NameStep
    BY StepNames
  <1>2. CASE Quiet
    BY <1>2, KeptMoves DEF Quiet, nameVars
  <1>3. ASSUME height' = height, NEW m \in Names, DropReservation(m) \/ DropRecapture(m)
        PROVE  RecaptureMoves(n)
    <2>1. CASE m # n
      BY <1>3, <2>1, OtherMoves DEF DropReservation, DropRecapture
    <2>2. CASE m = n
      BY <1>3, <2>2 DEF DropReservation, StaleReservations, DropRecapture, StaleRecaptures,
                        RecaptureMoves, RecordMoves, Dropped, Types, NameTypes
    <2> QED BY <2>1, <2>2
  <1>4. ASSUME height' = height, NEW i \in OfferIds, NEW m \in Names, NEW who \in Addrs,
               Enlists(i, m, who) \/ Delists(i, m) \/ Delivers(i, m, who)
        PROVE  RecaptureMoves(n)
    <2>1. CASE m # n
      <3>1. /\ recaptures' = recaptures
            /\ \E s : names' = [names EXCEPT ![m] = s]
        BY <1>4 DEF Enlists, Delists, Delivers, deliverNameToBuyer
      <3> QED BY <2>1, <3>1, OtherMoves
    <2>2. CASE m = n
      BY <1>4, <2>2, ListingMoves
    <2> QED BY <2>1, <2>2
  <1>5. ASSUME height' = height, Settled, NEW who \in Addrs, NameRecord(who)
        PROVE  RecaptureMoves(n)
    <2>1. CASE \E key \in CommitKeys : applyNcommit(key)
      BY <2>1, KeptMoves DEF applyNcommit
    <2>2. ASSUME NEW m \in Names, NEW salt \in Salts \cup {None}, NEW txid \in AnchorIds,
                 NEW fee \in Payments, applyName(m, who, salt, txid, fee)
          PROVE  RecaptureMoves(n)
      <3>1. CASE m # n
        <4>1. /\ names' = names \/ \E s : names' = [names EXCEPT ![m] = s]
              /\ recaptures' = recaptures \/ \E z : recaptures' = [recaptures EXCEPT ![m] = z]
          BY <2>2 DEF applyName, reserveRecapture, reclaimLapsed, reserveName, registerName, takeName
        <4> QED BY <3>1, <4>1, OtherMoves
      <3>2. CASE m = n
        BY <1>5, <2>2, <3>2, ClaimMoves
      <3> QED BY <3>1, <3>2
    <2>3. ASSUME NEW m \in Names, NEW salt \in Salts, NEW fee \in Payments,
                 applyNfinalize(m, who, salt, fee)
          PROVE  RecaptureMoves(n)
      <3>1. CASE m # n
        <4>1. /\ names' = names \/ \E s : names' = [names EXCEPT ![m] = s]
              /\ recaptures' = recaptures \/ \E z : recaptures' = [recaptures EXCEPT ![m] = z]
          BY <2>3 DEF applyNfinalize, finalizeRegistration, finalizeRecapture
        <4> QED BY <3>1, <4>1, OtherMoves
      <3>2. CASE m = n
        BY <1>5, <2>3, <3>2, FinalizeMoves
      <3> QED BY <3>1, <3>2
    <2>4. ASSUME NEW m \in Names,
                 \/ \E to \in Addrs : applyNxfer(m, who, to)
                 \/ \E target \in NameTargets : applyNset(m, who, target)
                 \/ \E p \in Contents \cup {None} : applyNprofile(m, who, p)
                 \/ \E fee \in Payments : applyNrenew(m, who, fee)
          PROVE  RecaptureMoves(n)
      <3>1. CASE m # n
        <4>1. recaptures' = recaptures /\ \E s : names' = [names EXCEPT ![m] = s]
          BY <2>4 DEF applyNxfer, applyNset, applyNprofile, applyNrenew, OnlyNames
        <4> QED BY <3>1, <4>1, OtherMoves
      <3>2. CASE m = n
        BY <1>5, <2>4, <3>2, HolderMoves
      <3> QED BY <3>1, <3>2
    <2> QED BY <1>5, <2>1, <2>2, <2>3, <2>4 DEF NameRecord
  <1> QED BY <1>1, <1>2, <1>3, <1>4, <1>5 DEF NameStep

-----------------------------------------------------------------------------
(* The theorems.                                                           *)

\* The inductive invariant: a record is free, reserved behind a commit of its
\* owner, or owned under a lease; a reserved recapture stands beside a lapsed
\* record; a listing is the only one of its owner's locked name, made when no
\* earlier anchor could be revealed any more, and within the lease.
THEOREM NamesInvariant == Spec => []NamesOk
  <1> QED BY NamesInit, NamesStep, TypesInvariant, PTL DEF Spec

\* Whatever offers, cancels, fills, displacements and expiries follow each
\* other: a name is locked exactly while one open offer sells it, that offer is
\* its owner's, and no fill finds its lease lapsed.
THEOREM LocksMatchListings == Spec => []NameLockSymmetry
  <1>1. ASSUME Types, NamesOk PROVE NameLockSymmetry
    <2> SUFFICES ASSUME NEW n \in Names
                 PROVE  /\ names[n].locked <=> openNameOffers(n) # {}
                        /\ Cardinality(openNameOffers(n)) <= 1
                        /\ \A i \in openNameOffers(n) :
                             /\ offers[i].seller = names[n].owner /\ ~names[n].pending
                             /\ Settled /\ height >= V15_HEIGHT =>
                                  ~lapsed(names[n], epochOf(height))
      BY DEF NameLockSymmetry
    <2>1. \A i \in OfferIds : i \in openNameOffers(n) <=> Of(offers[i], n)
      BY DEF openNameOffers, Open, Of, Lists
    <2>2. openNameOffers(n) \subseteq OfferIds
      BY DEF openNameOffers
    <2>3. NameOk(n)
      BY <1>1 DEF NamesOk
    <2>4. names[n].locked <=> openNameOffers(n) # {}
      <3>1. \A i \in OfferIds : Of(offers[i], n) => names[n].locked
        BY <2>3 DEF NameOk, ListingOk
      <3>2. names[n].locked => \E i \in OfferIds : Of(offers[i], n)
        BY <2>3 DEF NameOk
      <3>3. names[n].locked \in BOOLEAN
        BY <1>1, NameFields DEF Types
      <3> QED BY <2>1, <2>2, <3>1, <3>2, <3>3
    <2>5. Cardinality(openNameOffers(n)) <= 1
      <3>1. openNameOffers(n) = {} \/ \E i : openNameOffers(n) = {i}
        BY <2>1, <2>2, <2>3 DEF NameOk
      <3>2. Cardinality(openNameOffers(n)) \in {0, 1}
        <4>1. \A x : Cardinality({x}) = 1
          BY FS_Singleton
        <4>2. Cardinality({}) = 0
          BY FS_EmptySet
        <4> QED BY <3>1, <4>1, <4>2, Zenon
      <3> QED BY <3>2
    <2>6. ASSUME NEW i \in openNameOffers(n)
          PROVE  /\ offers[i].seller = names[n].owner /\ ~names[n].pending
                 /\ Settled /\ height >= V15_HEIGHT => ~lapsed(names[n], epochOf(height))
      <3>1. i \in OfferIds /\ Of(offers[i], n)
        BY <2>1, <2>2
      <3> QED BY <1>1, <2>3, <3>1, LeaseOutlives DEF NameOk, ListingOk
    <2> QED BY <2>4, <2>5, <2>6
  <1> QED BY <1>1, NamesInvariant, TypesInvariant, PTL

\* However reservations displace each other: one that stands is opened by a
\* commit of its owner, and a recapture stands beside a lapsed record.
THEOREM WinnersCanFinalize == Spec => []WinnerCanFinalize
  <1>1. NamesOk => WinnerCanFinalize
    BY DEF NamesOk, NameOk, RecordOk, RecaptureOk, WinnerCanFinalize
  <1> QED BY <1>1, NamesInvariant, PTL

\* The record of a reservation, or of an owned name, is the one a contest is about.
LEMMA ActiveRecord ==
  ASSUME NamesOk, NEW n \in Names, names[n].owner # None,
         ~names[n].pending \/ ~(height > names[n].finalizeBy)
  PROVE  /\ curActive(n) = names[n]
         /\ \A a : winsName(a, n) => ~names[n].viaFill /\ earlierAnchor(a, names[n])
         /\ lapsedNow(n) <=> /\ ~names[n].pending /\ height >= V15_HEIGHT
                             /\ lapsed(names[n], epochOf(height))
  BY DEF curActive, winsName, lapsedNow

\* Once the reveal window has passed an anchor, no fresh anchor precedes it.
LEMMA TooLate ==
  ASSUME NEW a, NEW r, Fresh(a), r.effHeight \in Nat, height \in Nat, height >= V25_HEIGHT,
         height > r.effHeight + REG_COMMIT_MAX_BLOCKS
  PROVE  ~earlierAnchor(a, r)
  BY ParametersAssumption DEF Fresh, earlierAnchor

\* No name bought by a fill is displaced while its lease lives, and no owner
\* inherits another's payment target or profile.
THEOREM BoughtNamesAreImmune == Spec => BoughtNameImmune
  <1>1. ASSUME Types, Types', NamesOk, [Next]_vars, NEW n \in Names
        PROVE  /\ names[n].viaFill /\ ~lapsed(names[n], epochOf(height)) =>
                    names'[n].viaFill /\ ~names'[n].pending
               /\ names'[n].owner # names[n].owner =>
                    names'[n].addr = None /\ names'[n].profile = None
    <2> DEFINE r == names[n]
    <2>1. RecaptureMoves(n)
      BY <1>1, StepRecaptureMoves
    <2>2. RecordOk(n)
      BY <1>1 DEF NamesOk, NameOk
    <2>3. r.viaFill => r.owner # None /\ ~r.pending
      BY <2>2 DEF RecordOk, NoName
    <2>4. CASE names'[n] = r
      BY <2>3, <2>4
    <2>5. CASE RecordMoves(n)
      <3>1. CASE Keeps(r, names'[n])
        BY <2>3, <3>1 DEF Keeps
      <3>2. CASE Dropped(n)
        BY <2>3, <3>2 DEF Dropped, NoName
      <3>3. CASE SoldName(n)
        BY <3>3 DEF SoldName, Blanked
      <3>4. CASE Contested(n)
        BY <1>1, <2>3, <3>4, ActiveRecord DEF Contested, Blanked
      <3>5. CASE Reclaimed(n)
        BY <1>1, <2>3, <3>5, ActiveRecord DEF Reclaimed, Blanked
      <3>6. CASE Finalized(n)
        BY <2>3, <3>6 DEF Finalized
      <3>7. CASE HandedOn(n)
        BY <3>7 DEF HandedOn, Blanked
      <3> QED BY <2>5, <3>1, <3>2, <3>3, <3>4, <3>5, <3>6, <3>7 DEF RecordMoves
    <2>6. CASE Recaptured(n)
      BY <2>6 DEF Recaptured, Blanked
    <2> QED BY <2>1, <2>4, <2>5, <2>6 DEF RecaptureMoves
  <1>2. Types /\ Types' /\ NamesOk /\ [Next]_vars =>
          (\A n \in Names :
             /\ names[n].viaFill /\ ~lapsed(names[n], epochOf(height)) =>
                  names'[n].viaFill /\ ~names'[n].pending
             /\ names'[n].owner # names[n].owner =>
                  names'[n].addr = None /\ names'[n].profile = None)
    BY <1>1
  <1> QED BY <1>2, TypesInvariant, NamesInvariant, PTL DEF Spec, BoughtNameImmune

\* Whoever frames the lapsed name, and by whichever record: its owner, its anchor
\* and its lease change only against the premium due at that block.
THEOREM PremiumIsPaid == Spec => PremiumPaid
  <1>1. ASSUME Types, Types', NamesOk, [Next]_vars, NEW n \in Names, nameExists(n),
               ~names[n].pending, height >= V15_HEIGHT, lapsed(names[n], epochOf(height)),
               <<names'[n].owner, Anchored(names'[n]), paidThrough(names'[n])>>
                 # <<names[n].owner, Anchored(names[n]), paidThrough(names[n])>>
        PROVE  feesPaid' - feesPaid >= expiredClaimFee(n,
                 epochOf(height) - (paidThrough(names[n]) + NAME_GRACE_EPOCHS), height)
    <2> DEFINE r == names[n]
               past == epochOf(height) - (paidThrough(r) + NAME_GRACE_EPOCHS)
               due == expiredClaimFee(n, past, height)
    <2>1. RecaptureMoves(n)
      BY <1>1, StepRecaptureMoves
    <2>2. lapsedNow(n)
      BY <1>1, ActiveRecord DEF nameExists
    <2>3. due \in Nat /\ feesPaid \in Nat
      <3>1. /\ height \in Nat /\ epochOf(height) \in Nat /\ r.paidThrough \in Nat
            /\ feesPaid \in Nat
        BY <1>1, EpochNat, NameFields DEF Types, ChainTypes, LedgerTypes
      <3>2. past \in Int
        BY <3>1, ParametersAssumption DEF paidThrough
      <3> HIDE DEF past
      <3> QED BY <3>1, <3>2, PremiumNat
    <2>4. names'[n] # r /\ ~Keeps(r, names'[n])
      BY <1>1 DEF Keeps, paidThrough
    <2>5. ~Dropped(n) /\ ~Finalized(n) /\ ~SoldName(n) /\ ~Contested(n) /\ ~HandedOn(n)
      BY <1>1, <2>2 DEF Dropped, Finalized, SoldName, Contested, HandedOn
    <2>6. Reclaimed(n) \/ Recaptured(n)
      BY <2>1, <2>4, <2>5 DEF RecaptureMoves, RecordMoves
    <2>7. feesPaid' = feesPaid + due
      BY <2>6 DEF Reclaimed, Recaptured
    <2> HIDE DEF due
    <2> QED BY <2>3, <2>7 DEF due
  <1>2. Types /\ Types' /\ NamesOk /\ [Next]_vars =>
          \A n \in Names :
             LET r == names[n]
                 past == epochOf(height) - (paidThrough(r) + NAME_GRACE_EPOCHS)
             IN /\ nameExists(n) /\ ~r.pending /\ height >= V15_HEIGHT
                /\ lapsed(r, epochOf(height))
                /\ <<names'[n].owner, Anchored(names'[n]), paidThrough(names'[n])>>
                     # <<r.owner, Anchored(r), paidThrough(r)>>
                => feesPaid' - feesPaid >= expiredClaimFee(n, past, height)
    BY <1>1
  <1> QED BY <1>2, TypesInvariant, NamesInvariant, PTL DEF Spec, PremiumPaid

\* Once its contest is over a reservation, of a free or of a lapsed name, is
\* finalized by its owner or runs out: nothing else happens to it.
THEOREM ReservationsFreeze == Spec => FrozenReservation
  <1>1. ASSUME Types, Types', NamesOk, [Next]_vars, NEW n \in Names,
               names[n].pending, height > names[n].effHeight + REG_COMMIT_MAX_BLOCKS,
               height <= names[n].finalizeBy, names'[n] # names[n]
        PROVE  /\ ~names'[n].pending /\ names'[n].owner = names[n].owner
               /\ Anchored(names'[n]) = Anchored(names[n])
    <2> DEFINE r == names[n]
    <2>1. RecaptureMoves(n) /\ RecordOk(n)
      BY <1>1, StepRecaptureMoves DEF NamesOk, NameOk
    <2>2. /\ r.owner # None /\ height >= V25_HEIGHT /\ height \in Nat /\ r.effHeight \in Nat
          /\ ~(height > r.finalizeBy)
      BY <1>1, <2>1, NameFields DEF RecordOk, Types, ChainTypes
    <2>3. ~Keeps(r, names'[n]) /\ ~Dropped(n) /\ ~SoldName(n) /\ ~HandedOn(n) /\ ~Recaptured(n)
      BY <1>1, <2>2 DEF Keeps, Dropped, SoldName, HandedOn, Recaptured
    <2>4. ~Contested(n) /\ ~Reclaimed(n)
      BY <1>1, <2>2, ActiveRecord, TooLate DEF Contested, Reclaimed
    <2>5. Finalized(n)
      BY <1>1, <2>1, <2>3, <2>4 DEF RecaptureMoves, RecordMoves
    <2> QED BY <2>5 DEF Finalized
  <1>2. ASSUME Types, Types', NamesOk, [Next]_vars, NEW n \in Names,
               recaptures[n].owner # None,
               height > recaptures[n].effHeight + REG_COMMIT_MAX_BLOCKS,
               height <= recaptures[n].finalizeBy, recaptures'[n] # recaptures[n]
        PROVE  /\ recaptures'[n] = NoRecapture /\ names'[n].owner = recaptures[n].owner
               /\ Anchored(names'[n]) = Anchored(recaptures[n])
    <2> DEFINE q == recaptures[n]
    <2>1. RecaptureMoves(n)
      BY <1>1, <1>2, StepRecaptureMoves
    <2>2. height \in Nat /\ q.effHeight \in Nat /\ q.finalizeBy \in Nat
      BY <1>2, NameFields DEF Types, ChainTypes
    <2>3. \A a : Fresh(a) /\ height >= V26_HEIGHT => ~earlierAnchor(a, q)
      <3>1. height >= V26_HEIGHT => height >= V25_HEIGHT
        BY <2>2, GateOrderAssumption, GatesAssumption
      <3> QED BY <1>2, <2>2, <3>1, TooLate
    <2>4. recaptures'[n] = NoRecapture /\ Recaptured(n)
      BY <1>2, <2>1, <2>2, <2>3 DEF RecaptureMoves
    <2> QED BY <2>4 DEF Recaptured
  <1>3. Types /\ Types' /\ NamesOk /\ [Next]_vars =>
          \A n \in Names :
             LET r == names[n]
                 s == names'[n]
                 q == recaptures[n]
                 z == recaptures'[n]
             IN /\ r.pending /\ height > r.effHeight + REG_COMMIT_MAX_BLOCKS
                   /\ height <= r.finalizeBy /\ s # r
                   => ~s.pending /\ s.owner = r.owner /\ Anchored(s) = Anchored(r)
                /\ q.owner # None /\ height > q.effHeight + REG_COMMIT_MAX_BLOCKS
                   /\ height <= q.finalizeBy /\ z # q
                   => z = NoRecapture /\ s.owner = q.owner /\ Anchored(s) = Anchored(q)
    BY <1>1, <1>2
  <1> QED BY <1>3, TypesInvariant, NamesInvariant, PTL DEF Spec, FrozenReservation

\* From V25 on no anchor displaces a name older than the reveal window: it is
\* re-anchored only by the sale its own owner offered.
THEOREM SettledNamesAreKept == Spec => SettledNameKept
  <1>1. ASSUME Types, Types', NamesOk, [Next]_vars, NEW n \in Names, nameExists(n),
               ~names[n].pending, ~lapsed(names[n], epochOf(height)), height >= V25_HEIGHT,
               height > names[n].effHeight + REG_COMMIT_MAX_BLOCKS,
               Anchored(names'[n]) # Anchored(names[n])
        PROVE  \E i \in openNameOffers(n) : offers[i].seller = names[n].owner
                                            /\ offers'[i].status = "filled"
    <2> DEFINE r == names[n]
    <2>1. RecaptureMoves(n)
      BY <1>1, StepRecaptureMoves
    <2>2. height \in Nat /\ r.effHeight \in Nat /\ r.owner # None
      BY <1>1, NameFields DEF Types, ChainTypes, nameExists
    <2>3. /\ names'[n] # r /\ ~Keeps(r, names'[n]) /\ ~Dropped(n) /\ ~Finalized(n)
          /\ ~HandedOn(n) /\ ~Recaptured(n)
      BY <1>1 DEF Keeps, Dropped, Finalized, HandedOn, Recaptured
    <2>4. ~Contested(n) /\ ~Reclaimed(n)
      BY <1>1, <2>2, ActiveRecord, TooLate DEF Contested, Reclaimed
    <2>5. SoldName(n)
      BY <2>1, <2>3, <2>4 DEF RecaptureMoves, RecordMoves
    <2> QED BY <2>5 DEF SoldName
  <1>2. Types /\ Types' /\ NamesOk /\ [Next]_vars =>
          \A n \in Names :
             LET r == names[n]
                 s == names'[n]
             IN /\ nameExists(n) /\ ~r.pending /\ ~lapsed(r, epochOf(height))
                /\ height >= V25_HEIGHT /\ height > r.effHeight + REG_COMMIT_MAX_BLOCKS
                /\ Anchored(s) # Anchored(r)
                => \E i \in openNameOffers(n) : offers[i].seller = r.owner
                                                /\ offers'[i].status = "filled"
    BY <1>1
  <1> QED BY <1>2, TypesInvariant, NamesInvariant, PTL DEF Spec, SettledNameKept

=============================================================================
