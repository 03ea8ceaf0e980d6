--------------------------- MODULE ResolverProofs ---------------------------
(***************************************************************************)
(* Theorems about the resolver for every value of its constants: types,    *)
(* and what a step does to offers, holds and bids.                         *)
(***************************************************************************)
EXTENDS ResolverProperties, TLAPS

-----------------------------------------------------------------------------
(* The arithmetic of epochs and fees stays in the naturals.                *)

\* The product of two naturals is a natural.
LEMMA NatProduct == \A a, b \in Nat : a * b \in Nat
  OBVIOUS

\* A natural divided by a positive natural is a natural.
LEMMA NatQuotient == \A a \in Nat, b \in Nat \ {0} : a \div b \in Nat
  OBVIOUS

\* An epoch is a natural (epochOf).
LEMMA EpochNat == \A h \in Nat : epochOf(h) \in Nat
  BY NatQuotient, ParametersAssumption DEF epochOf

\* Whatever a fee is charged on, it is a natural (tradeFee).
LEMMA TradeFeeNat ==
  ASSUME NEW o, NEW v \in Nat
  PROVE  tradeFee(o, v) \in Nat
  <1>1. \A bps \in Nat : CeilBps(v, bps) \in Nat
    BY NatProduct, NatQuotient DEF CeilBps
  <1> QED BY <1>1, ParametersAssumption DEF tradeFee, feeBpsAt

\* The registration fee of a name is a natural (nameRegFee).
LEMMA RegFeeNat == \A n \in Names, h \in Nat : nameRegFee(n, h) \in Nat
  BY ParametersAssumption DEF nameRegFee, FeeRegimes

\* The premium for a lapsed name is a natural, at whatever distance from the
\* end of its grace it is asked for: the decay never takes it below zero.
LEMMA PremiumNat ==
  ASSUME NEW n \in Names, NEW past \in Int, NEW h \in Nat
  PROVE  expiredClaimFee(n, past, h) \in Nat
  <1> DEFINE left == NAME_PREMIUM_DECAY_EPOCHS - past
             drop == (NAME_PREMIUM_START - 1) * left
  <1>1. nameRegFee(n, h) \in Nat
    BY RegFeeNat
  <1>2. CASE left <= 0
    BY <1>1, <1>2 DEF expiredClaimFee
  <1>3. CASE ~(left <= 0)
    <2>1. drop \in Nat
      BY <1>3, NatProduct, ParametersAssumption
    <2>2. drop \div NAME_PREMIUM_DECAY_EPOCHS \in Nat
      BY <2>1, NatQuotient, ParametersAssumption
    <2> QED BY <1>1, <1>3, <2>2, NatProduct DEF expiredClaimFee
  <1> QED BY <1>2, <1>3

-----------------------------------------------------------------------------
(* The type invariant, by the parts of the state, with what it needs to be *)
(* inductive: an offer's terms are terms that were published, no more was  *)
(* paid on an offer than its price, and no more minted than the supply.    *)

ChainTypes == height \in Nat /\ phase \in {"propose", "attest", "flush"} /\ pos \in Nat

LedgerTypes ==
  /\ tokens \in [Tickers -> TokenRec]
  /\ \A t \in Tickers : tokens[t].minted <= tokens[t].supply
  /\ avail \in [Tickers -> [Addrs -> Int]]
  /\ locked \in [Tickers -> [Addrs -> Int]]
  /\ feesPaid \in Nat

OfferTypes ==
  /\ offers \in [OfferIds -> OfferRec]
  /\ offerLock \in [OfferIds -> Int]
  /\ \A i \in OfferIds :
       /\ offers[i].terms \in OfferTerms \cup {NoTerms}
       /\ offers[i].status # "none" => /\ offers[i].terms \in OfferTerms
                                       /\ offers[i].seller \in Addrs
       /\ offers[i].terms.min # 0 => offers[i].paid <= offers[i].terms.want.amount

MarketTypes ==
  /\ bids \in [BidIds -> BidRec]
  /\ fclaims \in [FclaimIds -> FclaimRec]
  /\ pendingCancels \in SUBSET [offer : OfferIds, at : Nat]

NameTypes ==
  /\ commits \in [CommitKeys -> Nat]
  /\ names \in [Names -> NameRec]
  /\ recaptures \in [Names -> RecaptureRec]

Types == ChainTypes /\ LedgerTypes /\ OfferTypes /\ MarketTypes /\ NameTypes

\* The types hold in the empty state a replay starts from (createContext).
LEMMA InitTypes == Init => Types
  <1> SUFFICES ASSUME Init PROVE Types
    OBVIOUS
  <1>1. ChainTypes
    BY GatesAssumption DEF Init, ChainTypes
  <1>2. LedgerTypes
    BY DEF Init, LedgerTypes, NoToken, TokenRec, OrNone
  <1>3. NoTerms \in Terms
    BY DEF NoTerms, Terms, OrNone
  <1>4. OfferTypes
    BY <1>3 DEF Init, OfferTypes, NoOffer, OfferRec, OrNone, NoTerms
  <1>5. MarketTypes
    BY DEF Init, MarketTypes, NoBid, BidRec, NoFclaim, FclaimRec, OrNone
  <1>6. NameTypes
    BY DEF Init, NameTypes, NoName, NameRec, NoRecapture, RecaptureRec, OrNone
  <1> QED BY <1>1, <1>2, <1>4, <1>5, <1>6 DEF Types

\* An event moves to a position of its block and to no other block.
LEMMA EventTypes ==
  ASSUME ChainTypes, NEW kind \in {"propose", "attest"}, NEW p \in 1 .. MaxPos,
         Event(kind, p)
  PROVE  ChainTypes' /\ height' = height
  BY BoundsAssumption DEF ChainTypes, Event

-----------------------------------------------------------------------------
(* Token records.                                                          *)

\* Every token record keeps the ledger's types and touches nothing else.
LEMMA TokenTypes ==
  ASSUME LedgerTypes, NEW who \in Addrs, TokenRecord(who)
  PROVE  LedgerTypes' /\ UNCHANGED <<marketVars, nameVars>>
  <1>1. CASE \E t \in Tickers, s \in Supplies, m \in MintLimits, fee \in Payments :
               applyDeploy(t, who, s, m, fee)
    <2> PICK t \in Tickers, s \in Supplies, m \in MintLimits, fee \in Payments :
             applyDeploy(t, who, s, m, fee)
      BY <1>1
    <2>1. s \in Nat /\ m \in Nat
      BY TokenInputsAssumption
    <2>2. tokens' \in [Tickers -> TokenRec]
      BY <2>1 DEF LedgerTypes, applyDeploy, NoToken, TokenRec, OrNone
    <2>3. \A u \in Tickers : tokens'[u].minted <= tokens'[u].supply
      BY <2>1 DEF LedgerTypes, applyDeploy, NoToken
    <2>4. feesPaid' \in Nat
      BY ParametersAssumption DEF LedgerTypes, applyDeploy
    <2> QED BY <2>2, <2>3, <2>4 DEF LedgerTypes, applyDeploy, TokenFrame
  <1>2. CASE \E t \in Tickers, req \in Amounts \cup {0} : applyMint(t, who, req)
    <2> PICK t \in Tickers, req \in Amounts \cup {0} : applyMint(t, who, req)
      BY <1>2
    <2> DEFINE credit == mintCredit(tokens[t], req)
    <2>1. /\ tokens[t] \in TokenRec /\ req \in Nat
          /\ tokens[t].minted < tokens[t].supply
      BY TokenInputsAssumption DEF LedgerTypes, applyMint
    <2>2. credit \in Nat /\ tokens[t].minted + credit <= tokens[t].supply
      BY <2>1 DEF mintCredit, Smaller, TokenRec
    <2>3. tokens' = [tokens EXCEPT ![t].minted = @ + credit]
      BY DEF applyMint
    <2> HIDE DEF credit
    <2> DEFINE tok == [tokens[t] EXCEPT !.minted = @ + credit]
    <2>8. tok \in TokenRec /\ tok.minted <= tok.supply
      BY <2>1, <2>2 DEF TokenRec
    <2>9. tokens' = [tokens EXCEPT ![t] = tok]
      BY <2>3
    <2> HIDE DEF tok
    <2>4. tokens' \in [Tickers -> TokenRec]
      BY <2>8, <2>9 DEF LedgerTypes
    <2>5. \A u \in Tickers : tokens'[u].minted <= tokens'[u].supply
      BY <2>8, <2>9 DEF LedgerTypes
    <2>6. avail' = addBal(avail, t, who, credit)
      BY DEF applyMint, credit
    <2>7. avail' \in [Tickers -> [Addrs -> Int]]
      BY <2>2, <2>6 DEF addBal, LedgerTypes
    <2> QED BY <2>4, <2>5, <2>7 DEF LedgerTypes, applyMint, TokenFrame
  <1>3. CASE \E t \in Tickers, to \in Addrs, a \in Amounts : applyTransfer(t, who, to, a)
    <2> PICK t \in Tickers, to \in Addrs, a \in Amounts : applyTransfer(t, who, to, a)
      BY <1>3
    <2>1. a \in Nat
      BY TokenInputsAssumption
    <2>2. avail' \in [Tickers -> [Addrs -> Int]]
      BY <2>1 DEF addBal, LedgerTypes, applyTransfer
    <2> QED BY <2>2 DEF LedgerTypes, applyTransfer, TokenFrame
  <1>4. CASE \E t \in Tickers, hash \in Contents : applyTmeta(t, who, hash)
    <2> PICK t \in Tickers, hash \in Contents : applyTmeta(t, who, hash)
      BY <1>4
    <2>1. tokens' \in [Tickers -> TokenRec]
      BY DEF LedgerTypes, applyTmeta, TokenRec, OrNone
    <2>2. \A u \in Tickers : tokens'[u].minted <= tokens'[u].supply
      BY DEF LedgerTypes, applyTmeta, TokenRec
    <2> QED BY <2>1, <2>2 DEF LedgerTypes, applyTmeta, TokenFrame
  <1> QED BY <1>1, <1>2, <1>3, <1>4 DEF TokenRecord

-----------------------------------------------------------------------------
(* Market records.                                                         *)

\* What parseRecord lets through has the shape of an offer's terms.
LEMMA OfferTermsTypes ==
  ASSUME NEW x \in OfferTerms \cup {NoTerms}
  PROVE  /\ x \in Terms
         /\ x.min # 0 => /\ x.want.amount \in Nat \ {0} /\ x.give.asset \in Tickers
                         /\ x.min <= x.want.amount
  <1>1. CASE x \in OfferTerms
    <2>1. OfferShape(x)
      BY <1>1, OfferTermsAssumption
    <2> QED BY <2>1 DEF OfferShape, Terms, OrNone
  <1>2. CASE x = NoTerms
    BY <1>2 DEF NoTerms, Terms, OrNone
  <1> QED BY <1>1, <1>2

\* A credit or a debit of one balance, and one flag or lock, keep their types.
LEMMA CreditTypes ==
  ASSUME NEW m \in [Tickers -> [Addrs -> Int]], NEW t \in Tickers, NEW a \in Addrs,
         NEW y \in Int
  PROVE  addBal(m, t, a, y) \in [Tickers -> [Addrs -> Int]]
  BY DEF addBal

LEMMA DebitTypes ==
  ASSUME NEW m \in [Tickers -> [Addrs -> Int]], NEW t \in Tickers, NEW a \in Addrs,
         NEW y \in Int
  PROVE  addBal(m, t, a, -y) \in [Tickers -> [Addrs -> Int]]
  BY DEF addBal

LEMMA LockedTypes ==
  ASSUME NameTypes, NEW n \in Names, NEW b \in BOOLEAN
  PROVE  [names EXCEPT ![n].locked = b] \in [Names -> NameRec]
  <1>1. [names[n] EXCEPT !.locked = b] \in NameRec
    BY DEF NameTypes, NameRec
  <1> QED BY <1>1 DEF NameTypes


\* Locking and releasing a give keeps the balances and the names typed.
LEMMA LockTypes ==
  ASSUME LedgerTypes, OfferTypes, NameTypes, NEW id \in OfferIds,
         NEW x \in OfferTerms, NEW who \in Addrs, NEW E, lockGive(id, x.give, who, E)
  PROVE  /\ avail' \in [Tickers -> [Addrs -> Int]]
         /\ locked' \in [Tickers -> [Addrs -> Int]]
         /\ offerLock' \in [OfferIds -> Int]
         /\ names' \in [Names -> NameRec]
  <1> DEFINE g == x.give
  <1>1. x \in Terms /\ OfferShape(x)
    BY OfferTermsTypes, OfferTermsAssumption
  <1>2. CASE isNameGive(g)
    <2>1. names' = [names EXCEPT ![g.asset].locked = TRUE]
          /\ UNCHANGED <<avail, locked, offerLock>>
      BY <1>2 DEF lockGive
    <2>2. g.asset \in Names
      BY <1>1, <1>2 DEF OfferShape, isNameGive
    <2>3. names' \in [Names -> NameRec]
      BY <2>1, <2>2, LockedTypes
    <2> QED BY <2>1, <2>3 DEF LedgerTypes, OfferTypes
  <1>3. CASE ~isNameGive(g)
    <2>1. /\ avail' = addBal(avail, g.asset, who, -g.amount)
          /\ locked' = addBal(locked, g.asset, who, g.amount)
          /\ offerLock' = [offerLock EXCEPT ![id] = g.amount]
          /\ UNCHANGED names
      BY <1>3 DEF lockGive
    <2>2. g.amount \in Nat /\ g.asset \in Tickers
      BY <1>1, <1>3 DEF OfferShape, isNameGive
    <2>3. avail \in [Tickers -> [Addrs -> Int]] /\ locked \in [Tickers -> [Addrs -> Int]]
      BY DEF LedgerTypes
    <2>4. avail' \in [Tickers -> [Addrs -> Int]] /\ locked' \in [Tickers -> [Addrs -> Int]]
      BY <2>1, <2>2, <2>3, CreditTypes, DebitTypes
    <2> QED BY <2>1, <2>2, <2>4 DEF OfferTypes, NameTypes
  <1> QED BY <1>2, <1>3

\* releaseGive too.
LEMMA ReleaseTypes ==
  ASSUME LedgerTypes, OfferTypes, NameTypes, NEW id \in OfferIds,
         offers[id].status # "none", releaseGive(id)
  PROVE  /\ avail' \in [Tickers -> [Addrs -> Int]]
         /\ locked' \in [Tickers -> [Addrs -> Int]]
         /\ names' \in [Names -> NameRec]
  <1> DEFINE o == offers[id]
             g == o.terms.give
  <1>1. CASE isNameGive(g)
    <2>1. names' = [names EXCEPT ![g.asset].locked = FALSE]
          /\ UNCHANGED <<avail, locked>>
      BY <1>1 DEF releaseGive
    <2>2. g.asset \in Names
      BY <1>1, OfferTermsAssumption DEF OfferTypes, OfferShape, isNameGive
    <2>3. names' \in [Names -> NameRec]
      BY <2>1, <2>2, LockedTypes
    <2> QED BY <2>1, <2>3 DEF LedgerTypes
  <1>2. CASE ~isNameGive(g)
    <2>1. /\ locked' = addBal(locked, g.asset, o.seller, -offerLock[id])
          /\ avail' = addBal(avail, g.asset, o.seller, offerLock[id])
          /\ UNCHANGED names
      BY <1>2 DEF releaseGive
    <2>2. offerLock[id] \in Int
      BY DEF OfferTypes
    <2>3. g.asset \in Tickers /\ o.seller \in Addrs
      BY <1>2, OfferTermsAssumption DEF OfferTypes, OfferShape, isNameGive
    <2>4. avail \in [Tickers -> [Addrs -> Int]] /\ locked \in [Tickers -> [Addrs -> Int]]
      BY DEF LedgerTypes
    <2>5. avail' \in [Tickers -> [Addrs -> Int]] /\ locked' \in [Tickers -> [Addrs -> Int]]
      <3> HIDE DEF o, g
      <3> QED BY <2>1, <2>2, <2>3, <2>4, CreditTypes, DebitTypes
    <2> QED BY <2>1, <2>5 DEF NameTypes
  <1> QED BY <1>1, <1>2

\* A new status leaves an offer well formed.
LEMMA StatusTypes ==
  ASSUME OfferTypes, NEW id \in OfferIds, offers[id].status # "none",
         NEW st \in {"filled", "cancelled", "expired"}, setOfferStatus(id, st),
         UNCHANGED offerLock
  PROVE  OfferTypes'
  <1>1. /\ offers' \in [OfferIds -> OfferRec]
        /\ \A i \in OfferIds : /\ offers'[i].terms = offers[i].terms
                               /\ offers'[i].seller = offers[i].seller
                               /\ offers'[i].paid = offers[i].paid
                               /\ offers'[i].status # "none" => offers[i].status # "none"
    BY DEF OfferTypes, setOfferStatus, OfferRec
  <1> QED BY <1>1 DEF OfferTypes

\* Every market record keeps the types of what it touches: it publishes an
\* offer of known terms, a bid, a cancel of existing offers, or a hold.
LEMMA MarketRecordTypes ==
  ASSUME Types, NEW who \in Addrs, MarketRecord(who), height' = height, ChainTypes'
  PROVE  Types'
  <1> USE DEF Types
  <1>1. CASE \E id \in OfferIds, x \in OfferTerms, E \in Expiries : applyOffer(id, who, x, E)
    <2> PICK id \in OfferIds, x \in OfferTerms, E \in Expiries : applyOffer(id, who, x, E)
      BY <1>1
    <2>1. /\ avail' \in [Tickers -> [Addrs -> Int]]
          /\ locked' \in [Tickers -> [Addrs -> Int]]
          /\ offerLock' \in [OfferIds -> Int]
          /\ names' \in [Names -> NameRec]
      BY LockTypes DEF applyOffer
    <2>2. x \in Terms /\ E \in Nat
      BY OfferTermsTypes, OfferTermsAssumption
    <2> DEFINE new == [NoOffer EXCEPT !.status = "open", !.seller = who, !.terms = x,
                                      !.expiresEpoch = E, !.height = height]
    <2>3. /\ new \in OfferRec /\ new.terms = x /\ new.paid = 0
          /\ new.status = "open" /\ new.seller = who
      BY <2>2 DEF NoOffer, OfferRec, OrNone, ChainTypes
    <2>4. offers' = [offers EXCEPT ![id] = new]
      BY DEF applyOffer
    <2> HIDE DEF new
    <2>5. OfferTypes'
      BY <2>1, <2>3, <2>4, OfferTermsTypes DEF OfferTypes
    <2>6. bids' \in [BidIds -> BidRec]
      BY DEF applyOffer, MarketTypes, BidRec
    <2>7. LedgerTypes' /\ MarketTypes' /\ NameTypes'
      BY <2>1, <2>6 DEF applyOffer, LedgerTypes, MarketTypes, NameTypes
    <2> QED BY <2>5, <2>7
  <1>2. CASE \E b \in BidIds, E \in Expiries : applyBid(b, who, E)
    <2> PICK b \in BidIds, E \in Expiries : applyBid(b, who, E)
      BY <1>2
    <2>1. E \in Nat
      BY OfferTermsAssumption
    <2>2. bids' \in [BidIds -> BidRec]
      BY <2>1 DEF applyBid, MarketTypes, ChainTypes, NoBid, BidRec, OrNone
    <2> QED BY <2>2 DEF applyBid, LedgerTypes, OfferTypes, MarketTypes, NameTypes,
                        tokenVars, nameVars
  <1>3. CASE \E filter \in Tickers \cup Names \cup {None} : applyOcancel(who, filter)
    <2>1. pendingCancels' \in SUBSET [offer : OfferIds, at : Nat]
      BY <1>3 DEF applyOcancel, MarketTypes, ChainTypes
    <2> QED BY <1>3, <2>1 DEF applyOcancel, LedgerTypes, OfferTypes, MarketTypes, NameTypes,
                              tokenVars, nameVars
  <1>4. CASE \E f \in FclaimIds, id \in OfferIds, E \in Expiries : applyFclaim(f, who, id, E)
    <2> PICK f \in FclaimIds, id \in OfferIds, E \in Expiries : applyFclaim(f, who, id, E)
      BY <1>4
    <2>1. E \in Nat /\ (E + 1) * EPOCH_LEN \in Nat
      BY OfferTermsAssumption, NatProduct, ParametersAssumption
    <2>2. fclaims' \in [FclaimIds -> FclaimRec]
      BY <2>1 DEF applyFclaim, MarketTypes, ChainTypes, FclaimRec, OrNone
    <2>3. OfferTypes'
      <3> DEFINE held == [offers[id] EXCEPT !.claimedBy = who, !.claimTxid = f,
                                            !.claimUntilHeight = (E + 1) * EPOCH_LEN]
      <3>1. CASE offers' = offers
        BY <3>1 DEF applyFclaim, OfferTypes
      <3>2. CASE offers' = [offers EXCEPT ![id] = held]
        <4>1. held \in OfferRec
          <5>1. offers[id] \in OfferRec
            BY DEF OfferTypes
          <5> QED BY <2>1, <5>1 DEF OfferRec, OrNone
        <4>2. /\ held.terms = offers[id].terms /\ held.seller = offers[id].seller
              /\ held.paid = offers[id].paid /\ held.status = offers[id].status
          BY DEF OfferTypes, OfferRec
        <4> HIDE DEF held
        <4> QED BY <3>2, <4>1, <4>2 DEF applyFclaim, OfferTypes
      <3> QED BY <3>1, <3>2 DEF applyFclaim, OfferTypes
    <2> QED BY <2>2, <2>3 DEF applyFclaim, LedgerTypes, MarketTypes, NameTypes,
                              tokenVars, nameVars
  <1> QED BY <1>1, <1>2, <1>3, <1>4 DEF MarketRecord

-----------------------------------------------------------------------------
(* Name records.                                                           *)

\* Cancelling the listings of a name keeps the offers well formed.
LEMMA VoidTypes ==
  ASSUME OfferTypes, NEW n \in Names, voidOpenNameOffers(n) \/ UNCHANGED offers,
         UNCHANGED offerLock
  PROVE  OfferTypes'
  <1>1. CASE voidOpenNameOffers(n)
    <2>1. /\ offers' \in [OfferIds -> OfferRec]
          /\ \A i \in OfferIds : /\ offers'[i].terms = offers[i].terms
                                 /\ offers'[i].seller = offers[i].seller
                                 /\ offers'[i].paid = offers[i].paid
                                 /\ offers'[i].status # "none" => offers[i].status # "none"
      <3>1. \A i \in openNameOffers(n) : offers[i].status = "open"
        BY DEF openNameOffers, Open
      <3> QED BY <1>1, <3>1 DEF OfferTypes, OfferRec, voidOpenNameOffers
    <2> QED BY <2>1 DEF OfferTypes
  <1>2. CASE UNCHANGED offers
    BY <1>2 DEF OfferTypes
  <1> QED BY <1>1, <1>2

\* The anchor of a reveal is made of naturals.
LEMMA AnchorTypes ==
  ASSUME Types, NEW n \in Names, NEW who \in Addrs, NEW salt \in Salts \cup {None},
         NEW txid \in AnchorIds, pos' \in Nat
  PROVE  Anchor(n, who, salt, txid) \in [effHeight : Nat, pos : Nat, id : Nat]
  <1>1. salt # None => commits[<<n, who, salt>>] \in Nat
    BY DEF Types, NameTypes, CommitKeys
  <1> QED BY <1>1, SetsAssumption DEF Anchor, Types, ChainTypes

\* A name that is taken holds a well-formed record, and so do the offers.
LEMMA TakeNameTypes ==
  ASSUME Types, NEW n \in Names, NEW who \in Addrs, NEW rec \in NameRec,
         NEW anchor \in [effHeight : Nat, pos : Nat, id : Nat],
         takeName(n, who, anchor, rec), UNCHANGED offerLock
  PROVE  names' \in [Names -> NameRec] /\ OfferTypes'
  <1> DEFINE new == [rec EXCEPT !.owner = who, !.effHeight = anchor.effHeight,
                                !.pos = anchor.pos, !.id = anchor.id]
  <1>1. new \in NameRec
    BY DEF NameRec, OrNone
  <1>2. names' = [names EXCEPT ![n] = new]
    BY DEF takeName
  <1> HIDE DEF new
  <1>3. names' \in [Names -> NameRec]
    BY <1>1, <1>2 DEF Types, NameTypes
  <1> QED BY <1>3, VoidTypes DEF takeName, Types

\* A lease that starts at some height ends at an epoch.
LEMMA LeaseNat == \A h \in Nat : epochOf(h) + NAME_TERM_EPOCHS \in Nat
  BY EpochNat, ParametersAssumption

\* The four ways to claim a name: each writes one well-formed record, cancels
\* at most the listings of the name, and collects a fee that is a natural.
LEMMA ApplyNameTypes ==
  ASSUME Types, NEW n \in Names, NEW who \in Addrs, NEW salt \in Salts \cup {None},
         NEW txid \in AnchorIds, NEW fee \in Payments,
         applyName(n, who, salt, txid, fee), height' = height, ChainTypes'
  PROVE  Types'
  <1> DEFINE anchor == Anchor(n, who, salt, txid)
  <1>1. anchor \in [effHeight : Nat, pos : Nat, id : Nat]
    BY AnchorTypes DEF ChainTypes
  <1>2. finalizeDeadline(anchor) \in Nat
    BY <1>1, ParametersAssumption DEF finalizeDeadline
  <1>3. height \in Nat /\ names[n].paidThrough \in Nat
    BY DEF Types, ChainTypes, NameTypes, NameRec
  <1>4. CASE reserveRecapture(n, who, salt, txid)
    <2>1. recaptures' \in [Names -> RecaptureRec]
      BY <1>1, <1>2, <1>4 DEF reserveRecapture, Types, NameTypes, RecaptureRec, OrNone
    <2> QED BY <1>4, <2>1 DEF reserveRecapture, NameFrame, Types, LedgerTypes, OfferTypes,
                              MarketTypes, NameTypes, tokenVars
  <1>5. CASE reclaimLapsed(n, who, salt, txid, fee)
    <2> DEFINE ep == epochOf(height)
               due == expiredClaimFee(n, ep - (paidThrough(names[n]) + NAME_GRACE_EPOCHS), height)
               rec == [NoName EXCEPT !.viaFill = TRUE, !.paidThrough = ep + NAME_TERM_EPOCHS]
    <2>1. ep \in Nat /\ ep + NAME_TERM_EPOCHS \in Nat
      BY <1>3, EpochNat, LeaseNat
    <2>2. rec \in NameRec
      BY <2>1 DEF NoName, NameRec, OrNone
    <2>3. due \in Nat
      BY <1>3, <2>1, PremiumNat, ParametersAssumption DEF paidThrough
    <2>4. takeName(n, who, anchor, rec) /\ feesPaid' = feesPaid + due
      BY <1>5 DEF reclaimLapsed, lapsedClaimFee
    <2>5. UNCHANGED <<commits, recaptures>> /\ NameFrame
      BY <1>5 DEF reclaimLapsed
    <2> HIDE DEF anchor, rec, due
    <2>6. names' \in [Names -> NameRec] /\ OfferTypes'
      BY <1>1, <2>2, <2>4, <2>5, TakeNameTypes DEF NameFrame
    <2> QED BY <2>3, <2>4, <2>5, <2>6 DEF NameFrame, Types, LedgerTypes, MarketTypes,
                                          NameTypes, tokenVars
  <1>6. CASE reserveName(n, who, salt, txid)
    <2> DEFINE rec == [NoName EXCEPT !.pending = TRUE, !.finalizeBy = finalizeDeadline(anchor)]
    <2>1. rec \in NameRec
      BY <1>2 DEF NoName, NameRec, OrNone
    <2>2. takeName(n, who, anchor, rec)
      BY <1>6 DEF reserveName
    <2>3. UNCHANGED <<commits, recaptures, feesPaid>> /\ NameFrame
      BY <1>6 DEF reserveName
    <2> HIDE DEF anchor, rec
    <2>4. names' \in [Names -> NameRec] /\ OfferTypes'
      BY <1>1, <2>1, <2>2, <2>3, TakeNameTypes DEF NameFrame
    <2> QED BY <2>3, <2>4 DEF NameFrame, Types, LedgerTypes, MarketTypes, NameTypes, tokenVars
  <1>7. CASE registerName(n, who, salt, txid, fee)
    <2> DEFINE since == IF height >= V15_HEIGHT THEN epochOf(height) ELSE epochOf(V15_HEIGHT)
               rec == [NoName EXCEPT !.paidThrough = since + NAME_TERM_EPOCHS]
    <2>1. since + NAME_TERM_EPOCHS \in Nat
      BY <1>3, LeaseNat, GatesAssumption
    <2>2. rec \in NameRec
      BY <2>1 DEF NoName, NameRec, OrNone
    <2>3. takeName(n, who, anchor, rec) /\ feesPaid' = feesPaid + nameRegFee(n, height)
      BY <1>7 DEF registerName
    <2>4. UNCHANGED <<commits, recaptures>> /\ NameFrame
      BY <1>7 DEF registerName
    <2>5. nameRegFee(n, height) \in Nat
      BY <1>3, RegFeeNat
    <2> HIDE DEF anchor, rec
    <2>6. names' \in [Names -> NameRec] /\ OfferTypes'
      BY <1>1, <2>2, <2>3, <2>4, TakeNameTypes DEF NameFrame
    <2> QED BY <2>3, <2>4, <2>5, <2>6 DEF NameFrame, Types, LedgerTypes, MarketTypes,
                                          NameTypes, tokenVars
  <1> QED BY <1>4, <1>5, <1>6, <1>7 DEF applyName

\* Finalizing writes one well-formed record and collects a natural fee; a
\* recapture that came too late is only dropped.
LEMMA FinalizeTypes ==
  ASSUME Types, NEW n \in Names, NEW who \in Addrs, NEW salt \in Salts,
         NEW fee \in Payments, applyNfinalize(n, who, salt, fee),
         height' = height, ChainTypes'
  PROVE  Types'
  <1> DEFINE ep == epochOf(height)
             base == nameRegFee(n, height)
  <1>1. height \in Nat /\ names[n] \in NameRec /\ recaptures[n] \in RecaptureRec
    BY DEF Types, ChainTypes, NameTypes
  <1>2. ep \in Nat /\ ep + NAME_TERM_EPOCHS \in Nat /\ base \in Nat
    BY <1>1, EpochNat, LeaseNat, RegFeeNat
  <1>3. CASE finalizeRegistration(n, who, salt, fee)
    <2> DEFINE owned == [names[n] EXCEPT !.pending = FALSE, !.finalizeBy = 0,
                                         !.paidThrough = ep + NAME_TERM_EPOCHS]
    <2>1. owned \in NameRec
      BY <1>1, <1>2 DEF NameRec
    <2>2. names' = [names EXCEPT ![n] = owned]
      BY <1>3 DEF finalizeRegistration, Types, NameTypes
    <2>3. feesPaid' = feesPaid + base /\ UNCHANGED <<commits, recaptures, offers>>
          /\ NameFrame
      BY <1>3 DEF finalizeRegistration
    <2> HIDE DEF owned, base
    <2> QED BY <1>2, <2>1, <2>2, <2>3 DEF NameFrame, Types, LedgerTypes, OfferTypes,
                                          MarketTypes, NameTypes, tokenVars
  <1>4. CASE finalizeRecapture(n, who, salt, fee)
    <2> DEFINE due == expiredClaimFee(n, ep - (paidThrough(names[n]) + NAME_GRACE_EPOCHS), height)
               taken == [NoName EXCEPT !.owner = who, !.effHeight = recaptures[n].effHeight,
                           !.pos = recaptures[n].pos, !.id = recaptures[n].id,
                           !.paidThrough = ep + NAME_TERM_EPOCHS]
    <2>1. taken \in NameRec
      BY <1>1, <1>2 DEF NoName, NameRec, RecaptureRec, OrNone
    <2>2. due \in Nat
      BY <1>1, <1>2, PremiumNat, ParametersAssumption DEF paidThrough, NameRec
    <2>3. recaptures' \in [Names -> RecaptureRec]
      BY <1>4 DEF finalizeRecapture, Types, NameTypes, NoRecapture, RecaptureRec, OrNone
    <2>4. \/ /\ voidOpenNameOffers(n)
             /\ names' = [names EXCEPT ![n] = taken]
             /\ feesPaid' = feesPaid + due
          \/ UNCHANGED <<names, offers, feesPaid>>
      BY <1>4 DEF finalizeRecapture, lapsedClaimFee
    <2>5. UNCHANGED commits /\ NameFrame
      BY <1>4 DEF finalizeRecapture
    <2>6. OfferTypes'
      BY <2>4, <2>5, VoidTypes DEF NameFrame, Types
    <2> HIDE DEF taken, due
    <2>7. names' \in [Names -> NameRec] /\ feesPaid' \in Nat
      BY <2>1, <2>2, <2>4 DEF Types, NameTypes, LedgerTypes
    <2> QED BY <2>3, <2>5, <2>6, <2>7 DEF NameFrame, Types, LedgerTypes, MarketTypes,
                                          NameTypes, tokenVars
  <1> QED BY <1>3, <1>4 DEF applyNfinalize

\* Every name record keeps the types.
LEMMA NameRecordTypes ==
  ASSUME Types, NEW who \in Addrs, NameRecord(who), height' = height, ChainTypes'
  PROVE  Types'
  <1>1. CASE \E key \in CommitKeys : applyNcommit(key)
    <2> PICK key \in CommitKeys : applyNcommit(key)
      BY <1>1
    <2>1. commits' \in [CommitKeys -> Nat]
      BY DEF applyNcommit, Types, NameTypes, ChainTypes
    <2> QED BY <2>1 DEF applyNcommit, NameFrame, Types, LedgerTypes, OfferTypes,
                        MarketTypes, NameTypes, tokenVars
  <1>2. CASE \E n \in Names, salt \in Salts \cup {None}, txid \in AnchorIds,
                fee \in Payments : applyName(n, who, salt, txid, fee)
    BY <1>2, ApplyNameTypes
  <1>3. CASE \E n \in Names, salt \in Salts, fee \in Payments :
               applyNfinalize(n, who, salt, fee)
    BY <1>3, FinalizeTypes
  <1>4. CASE \E n \in Names, to \in Addrs : applyNxfer(n, who, to)
    <2> PICK n \in Names, to \in Addrs : applyNxfer(n, who, to)
      BY <1>4
    <2>1. names' \in [Names -> NameRec]
      <3>1. [names[n] EXCEPT !.owner = to, !.addr = None, !.profile = None] \in NameRec
        BY DEF Types, NameTypes, NameRec, OrNone
      <3> QED BY <3>1 DEF applyNxfer, Types, NameTypes
    <2> QED BY <2>1 DEF applyNxfer, OnlyNames, NameFrame, Types, LedgerTypes, OfferTypes,
                        MarketTypes, NameTypes, tokenVars
  <1>5. CASE \E n \in Names, target \in NameTargets : applyNset(n, who, target)
    <2> PICK n \in Names, target \in NameTargets : applyNset(n, who, target)
      BY <1>5
    <2>1. names' \in [Names -> NameRec]
      BY DEF applyNset, Types, NameTypes, NameRec, OrNone
    <2> QED BY <2>1 DEF applyNset, OnlyNames, NameFrame, Types, LedgerTypes, OfferTypes,
                        MarketTypes, NameTypes, tokenVars
  <1>6. CASE \E n \in Names, p \in Contents \cup {None} : applyNprofile(n, who, p)
    <2> PICK n \in Names, p \in Contents \cup {None} : applyNprofile(n, who, p)
      BY <1>6
    <2>1. names' \in [Names -> NameRec]
      BY DEF applyNprofile, Types, NameTypes, NameRec, OrNone
    <2> QED BY <2>1 DEF applyNprofile, OnlyNames, NameFrame, Types, LedgerTypes, OfferTypes,
                        MarketTypes, NameTypes, tokenVars
  <1>7. CASE \E n \in Names, fee \in Payments : applyNrenew(n, who, fee)
    <2> PICK n \in Names, fee \in Payments : applyNrenew(n, who, fee)
      BY <1>7
    <2>1. nameRegFee(n, height) \in Nat
      BY RegFeeNat DEF Types, ChainTypes
    <2>2. names' \in [Names -> NameRec]
      BY ParametersAssumption DEF applyNrenew, Types, NameTypes, NameRec
    <2> QED BY <2>1, <2>2 DEF applyNrenew, NameFrame, Types, LedgerTypes, OfferTypes,
                              MarketTypes, NameTypes, tokenVars
  <1> QED BY <1>1, <1>2, <1>3, <1>4, <1>5, <1>6, <1>7 DEF NameRecord

-----------------------------------------------------------------------------
(* Attests.                                                                *)

\* What an offer that exists is made of.
LEMMA OfferParts ==
  ASSUME OfferTypes, NEW id \in OfferIds, offers[id].status # "none"
  PROVE  /\ offers[id] \in OfferRec /\ OfferShape(offers[id].terms)
         /\ offers[id].seller \in Addrs /\ paytoOf(offers[id]) \in Addrs
         /\ isTokenWant(offers[id].terms.want) => offers[id].terms.want.asset \in Tickers
         /\ ~isNameGive(offers[id].terms.give) => offers[id].terms.give.asset \in Tickers
         /\ isNameGive(offers[id].terms.give) => offers[id].terms.give.asset \in Names
  <1>1. OfferShape(offers[id].terms)
    BY OfferTermsAssumption DEF OfferTypes
  <1>2. offers[id] \in OfferRec /\ offers[id].seller \in Addrs
    BY DEF OfferTypes
  <1>3. offers[id].terms.payto \in Addrs \cup {None}
    BY <1>1 DEF OfferShape
  <1>4. paytoOf(offers[id]) \in Addrs
    BY <1>2, <1>3 DEF paytoOf
  <1> QED BY <1>1, <1>2, <1>4 DEF OfferShape, isTokenWant, isNameGive

\* A filled offer, and the bid it satisfies, stay well formed.
LEMMA FilledTypes ==
  ASSUME OfferTypes, MarketTypes, NEW id \in OfferIds, offers[id].status # "none",
         NEW who \in Addrs, markFilled(id, who), offerLock' \in [OfferIds -> Int]
  PROVE  OfferTypes' /\ bids' \in [BidIds -> BidRec]
  <1> DEFINE new == [offers[id] EXCEPT !.status = "filled", !.buyer = who]
  <1>1. /\ new \in OfferRec
        /\ new.terms = offers[id].terms /\ new.seller = offers[id].seller
        /\ new.paid = offers[id].paid
    <2>1. offers[id] \in OfferRec
      BY DEF OfferTypes
    <2> QED BY <2>1 DEF OfferRec, OrNone
  <1>2. offers' = [offers EXCEPT ![id] = new]
    BY DEF markFilled, OfferTypes
  <1> HIDE DEF new
  <1>3. OfferTypes'
    BY <1>1, <1>2 DEF OfferTypes
  <1>4. bids' \in [BidIds -> BidRec]
    BY DEF markFilled, markBidDone, MarketTypes, BidRec
  <1> QED BY <1>3, <1>4

\* A sold name is a well-formed record of its buyer.
LEMMA DeliverNameTypes ==
  ASSUME Types, NEW n \in Names, NEW who \in Addrs, NEW txid \in AnchorIds,
         deliverNameToBuyer(n, who, txid), pos' \in Nat
  PROVE  names' \in [Names -> NameRec]
  <1> DEFINE sold == [names[n] EXCEPT !.owner = who, !.locked = FALSE,
                                      !.addr = None, !.profile = None]
             anchored == [sold EXCEPT !.effHeight = height, !.pos = pos', !.id = txid,
                                      !.viaFill = TRUE]
  <1>1. names[n] \in NameRec /\ height \in Nat /\ txid \in Nat
    BY SetsAssumption DEF Types, ChainTypes, NameTypes
  <1>2. sold \in NameRec
    BY <1>1 DEF NameRec, OrNone
  <1>3. names' = [names EXCEPT ![n] = IF height < V13_HEIGHT THEN sold ELSE anchored]
    BY DEF deliverNameToBuyer
  <1> HIDE DEF sold
  <1>4. anchored \in NameRec
    BY <1>1, <1>2 DEF NameRec
  <1> HIDE DEF anchored
  <1> QED BY <1>2, <1>3, <1>4 DEF Types, NameTypes

\* The swap for tokens.
LEMMA TokenFillTypes ==
  ASSUME Types, NEW id \in OfferIds, NEW who \in Addrs, NEW txid \in AnchorIds,
         applyTokenFill(id, who, txid), height' = height, ChainTypes'
  PROVE  Types'
  <1> DEFINE o == offers[id]
             w == o.terms.want
             g == o.terms.give
             fee == tradeFee(o, w.amount)
             debited == addBal(avail, w.asset, who, -(w.amount + fee))
             credited == addBal(debited, w.asset, paytoOf(o), w.amount)
             paid == addBal(credited, w.asset, TREASURY_ADDR, fee)
  <1>1. o.status = "open" /\ isTokenWant(w) /\ markFilled(id, who)
        /\ UNCHANGED <<tokens, feesPaid, fclaims, pendingCancels, commits, recaptures>>
    BY DEF applyTokenFill, OpenToFiller, Open
  <1>2. /\ o.seller \in Addrs /\ paytoOf(o) \in Addrs /\ w.asset \in Tickers
        /\ ~isNameGive(g) => g.asset \in Tickers
        /\ isNameGive(g) => g.asset \in Names
        /\ w.amount \in Nat /\ fee \in Nat
    BY <1>1, OfferParts, TradeFeeNat DEF Types, OfferShape
  <1>3. avail \in [Tickers -> [Addrs -> Int]] /\ locked \in [Tickers -> [Addrs -> Int]]
        /\ offerLock \in [OfferIds -> Int] /\ offerLock[id] \in Int
    BY DEF Types, LedgerTypes, OfferTypes
  <1>4. paid \in [Tickers -> [Addrs -> Int]]
    <2>1. debited \in [Tickers -> [Addrs -> Int]]
      BY <1>2, <1>3 DEF addBal
    <2> HIDE DEF debited, fee
    <2>2. credited \in [Tickers -> [Addrs -> Int]]
      BY <1>2, <2>1 DEF addBal
    <2> HIDE DEF credited
    <2> QED BY <1>2, <2>2, SetsAssumption DEF addBal
  <1>5. /\ avail' \in [Tickers -> [Addrs -> Int]]
        /\ locked' \in [Tickers -> [Addrs -> Int]]
        /\ offerLock' \in [OfferIds -> Int]
        /\ names' \in [Names -> NameRec]
    <2>1. CASE isNameGive(g)
      <3>1. /\ deliverNameToBuyer(g.asset, who, txid) /\ avail' = paid
            /\ UNCHANGED <<locked, offerLock>>
        BY <2>1 DEF applyTokenFill
      <3>2. names' \in [Names -> NameRec]
        BY <1>2, <2>1, <3>1, DeliverNameTypes DEF ChainTypes
      <3> QED BY <1>3, <1>4, <3>1, <3>2
    <2>2. CASE ~isNameGive(g)
      <3>1. /\ locked' = addBal(locked, g.asset, o.seller, -offerLock[id])
            /\ avail' = addBal(paid, g.asset, who, offerLock[id])
            /\ offerLock' = [offerLock EXCEPT ![id] = 0]
            /\ UNCHANGED names
        BY <2>2 DEF applyTokenFill
      <3> HIDE DEF paid
      <3>2. g.asset \in Tickers /\ o.seller \in Addrs
        BY <1>2, <2>2
      <3>3. locked' \in [Tickers -> [Addrs -> Int]] /\ avail' \in [Tickers -> [Addrs -> Int]]
        <4> HIDE DEF g, o
        <4> QED BY <1>3, <1>4, <3>1, <3>2, CreditTypes, DebitTypes
      <3>4. offerLock' \in [OfferIds -> Int]
        BY <1>3, <3>1
      <3> QED BY <3>1, <3>3, <3>4 DEF Types, NameTypes
    <2> QED BY <2>1, <2>2
  <1>6. OfferTypes' /\ bids' \in [BidIds -> BidRec]
    BY <1>1, <1>5, FilledTypes DEF Types
  <1> QED BY <1>1, <1>5, <1>6 DEF Types, LedgerTypes, MarketTypes, NameTypes

\* The whole fill in the native coin.
LEMMA FillTypes ==
  ASSUME Types, NEW id \in OfferIds, NEW who \in Addrs, NEW target, NEW pt \in PaidTo,
         NEW txid \in AnchorIds, applyFill(id, who, target, pt, txid),
         height' = height, ChainTypes'
  PROVE  Types'
  <1> DEFINE o == offers[id]
             g == o.terms.give
             fee == tradeFee(o, o.terms.want.amount)
  <1>1. o.status = "open" /\ markFilled(id, who) /\ feesPaid' = feesPaid + fee
        /\ UNCHANGED <<tokens, fclaims, pendingCancels, commits, recaptures>>
        /\ deliverGive(id, who, txid)
    BY DEF applyFill, OpenToFiller, Open
  <1>2. /\ o.seller \in Addrs /\ fee \in Nat
        /\ ~isNameGive(g) => g.asset \in Tickers
        /\ isNameGive(g) => g.asset \in Names
    BY <1>1, OfferParts, TradeFeeNat DEF Types, OfferShape
  <1>3. avail \in [Tickers -> [Addrs -> Int]] /\ locked \in [Tickers -> [Addrs -> Int]]
        /\ offerLock \in [OfferIds -> Int] /\ offerLock[id] \in Int
    BY DEF Types, LedgerTypes, OfferTypes
  <1>4. /\ avail' \in [Tickers -> [Addrs -> Int]]
        /\ locked' \in [Tickers -> [Addrs -> Int]]
        /\ offerLock' \in [OfferIds -> Int]
        /\ names' \in [Names -> NameRec]
    <2>1. CASE isNameGive(g)
      <3>1. deliverNameToBuyer(g.asset, who, txid) /\ UNCHANGED <<locked, avail, offerLock>>
        BY <1>1, <2>1 DEF deliverGive
      <3>2. names' \in [Names -> NameRec]
        BY <1>2, <2>1, <3>1, DeliverNameTypes DEF ChainTypes
      <3> QED BY <1>3, <3>1, <3>2
    <2>2. CASE ~isNameGive(g)
      <3>1. /\ locked' = addBal(locked, g.asset, o.seller, -offerLock[id])
            /\ avail' = addBal(avail, g.asset, who, offerLock[id])
            /\ offerLock' = [offerLock EXCEPT ![id] = 0]
            /\ UNCHANGED names
        BY <1>1, <2>2 DEF deliverGive
      <3>2. g.asset \in Tickers /\ o.seller \in Addrs
        BY <1>2, <2>2
      <3>3. locked' \in [Tickers -> [Addrs -> Int]] /\ avail' \in [Tickers -> [Addrs -> Int]]
        <4> HIDE DEF g, o
        <4> QED BY <1>3, <3>1, <3>2, CreditTypes, DebitTypes
      <3>4. offerLock' \in [OfferIds -> Int]
        BY <1>3, <3>1
      <3> QED BY <3>1, <3>3, <3>4 DEF Types, NameTypes
    <2> QED BY <2>1, <2>2
  <1>5. OfferTypes' /\ bids' \in [BidIds -> BidRec]
    BY <1>1, <1>4, FilledTypes DEF Types
  <1>6. feesPaid' \in Nat
    BY <1>1, <1>2 DEF Types, LedgerTypes
  <1> QED BY <1>1, <1>4, <1>5, <1>6 DEF Types, LedgerTypes, MarketTypes, NameTypes

\* The partial fill: never more than the price is taken, so what was delivered
\* and what was paid stay naturals.
LEMMA PartialFillTypes ==
  ASSUME Types, NEW id \in OfferIds, NEW who \in Addrs, NEW target, NEW pt \in PaidTo,
         applyPartialFill(id, who, target, pt), height' = height, ChainTypes'
  PROVE  Types'
  <1> DEFINE o == offers[id]
             want == o.terms.want.amount
             x == Smaller(pt[paytoOf(o)], want - o.paid)
             fee == tradeFee(o, x)
             newPaid == o.paid + x
             newDelivered == deliveredAfter(o, newPaid)
             out == newDelivered - o.delivered
             t == o.terms.give.asset
             part == [o EXCEPT !.paid = newPaid, !.delivered = newDelivered]
             full == [part EXCEPT !.status = "filled", !.buyer = who]
  <1>1. o.status = "open" /\ o.terms.min # 0
    BY DEF applyPartialFill, OpenToFiller, Open
  <1>2. /\ o \in OfferRec /\ OfferShape(o.terms) /\ o.seller \in Addrs
        /\ paytoOf(o) \in Addrs
    BY <1>1, OfferParts DEF Types
  <1>3. /\ t \in Tickers /\ want \in Nat \ {0} /\ o.terms.give.amount \in Nat
        /\ o.paid \in Nat /\ o.delivered \in Nat
    BY <1>1, <1>2 DEF OfferShape, OfferRec
  <1>4. o.paid <= want
    BY <1>1 DEF Types, OfferTypes
  <1>5. pt[paytoOf(o)] \in Nat
    BY <1>2, PaidToAssumption
  <1>6. x \in Nat /\ newPaid \in Nat /\ newPaid <= want
    BY <1>3, <1>4, <1>5 DEF Smaller
  <1>7. newDelivered \in Nat
    <2>1. o.terms.give.amount * newPaid \in Nat
      BY <1>3, <1>6, NatProduct
    <2> HIDE DEF newPaid
    <2> QED BY <1>3, <2>1, NatQuotient DEF deliveredAfter
  <1>8. fee \in Nat
    BY <1>6, TradeFeeNat
  <1>9. /\ locked' = addBal(locked, t, o.seller, -out)
        /\ avail' = addBal(avail, t, who, out)
        /\ feesPaid' = feesPaid + fee
        /\ UNCHANGED <<tokens, names, fclaims, pendingCancels, commits, recaptures>>
    BY DEF applyPartialFill
  <1>10. \/ /\ offers' = [offers EXCEPT ![id] = full]
            /\ offerLock' = [offerLock EXCEPT ![id] = 0]
            /\ markBidDone(o, who)
         \/ /\ offers' = [offers EXCEPT ![id] = part]
            /\ offerLock' = [offerLock EXCEPT ![id] = @ - out]
            /\ UNCHANGED bids
    BY DEF applyPartialFill
  <1>11. part \in OfferRec /\ part.terms = o.terms /\ part.seller = o.seller
         /\ part.paid = newPaid /\ part.status = o.status
    <2> HIDE DEF newPaid, newDelivered, o
    <2> QED BY <1>2, <1>6, <1>7 DEF OfferRec
  <1>12. full \in OfferRec /\ full.terms = o.terms /\ full.seller = o.seller
         /\ full.paid = newPaid
    <2> HIDE DEF part, newPaid
    <2> QED BY <1>11 DEF OfferRec, OrNone
  <1> HIDE DEF x, fee, newPaid, newDelivered
  <1>13. out \in Int
    BY <1>3, <1>7
  <1> HIDE DEF out, part, full
  <1>14. LedgerTypes'
    <2>1. avail \in [Tickers -> [Addrs -> Int]] /\ locked \in [Tickers -> [Addrs -> Int]]
      BY DEF Types, LedgerTypes
    <2>2. t \in Tickers /\ o.seller \in Addrs
      BY <1>2, <1>3
    <2>3. avail' \in [Tickers -> [Addrs -> Int]] /\ locked' \in [Tickers -> [Addrs -> Int]]
      <3> HIDE DEF t, o
      <3> QED BY <1>9, <1>13, <2>1, <2>2, CreditTypes, DebitTypes
    <2>4. feesPaid' \in Nat
      BY <1>8, <1>9 DEF Types, LedgerTypes
    <2> QED BY <1>9, <2>3, <2>4 DEF Types, LedgerTypes
  <1>15. OfferTypes'
    <2>1. offerLock' \in [OfferIds -> Int]
      BY <1>10, <1>13 DEF Types, OfferTypes
    <2>2. PICK new \in OfferRec : /\ offers' = [offers EXCEPT ![id] = new]
                                  /\ new.terms = o.terms /\ new.seller = o.seller
                                  /\ new.paid = newPaid
      BY <1>10, <1>11, <1>12
    <2> QED BY <1>1, <1>6, <2>1, <2>2 DEF Types, OfferTypes
  <1>16. bids' \in [BidIds -> BidRec]
    BY <1>10 DEF markBidDone, Types, MarketTypes, BidRec
  <1> QED BY <1>9, <1>14, <1>15, <1>16 DEF Types, MarketTypes, NameTypes

\* Every attest keeps the types.
LEMMA AttestTypes ==
  ASSUME Types, NEW who \in Addrs, AttestEvent(who), height' = height, ChainTypes'
  PROVE  Types'
  <1>1. CASE \E target \in OfferIds \cup FclaimIds, pt \in PaidTo, txid \in AnchorIds :
               FillAttest(target, who, pt, txid)
    <2> PICK target \in OfferIds \cup FclaimIds, pt \in PaidTo, txid \in AnchorIds,
             id \in OfferIds :
               \/ applyTokenFill(id, who, txid)
               \/ applyPartialFill(id, who, target, pt)
               \/ applyFill(id, who, target, pt, txid)
      BY <1>1 DEF FillAttest, routedOffers
    <2> QED BY TokenFillTypes, PartialFillTypes, FillTypes
  <1>2. CASE \E id \in OfferIds : applyCancel(id, who)
    BY <1>2 DEF applyCancel, Types, ChainTypes, LedgerTypes, OfferTypes, MarketTypes,
                NameTypes, tokenVars, nameVars
  <1>3. CASE \E b \in BidIds : cancelBid(b, who)
    <2>1. bids' \in [BidIds -> BidRec]
      BY <1>3 DEF cancelBid, Types, MarketTypes, BidRec
    <2> QED BY <1>3, <2>1 DEF cancelBid, Types, LedgerTypes, OfferTypes, MarketTypes,
                              NameTypes, tokenVars, nameVars
  <1>4. CASE \E id \in OfferIds : applyLegacyClaim(id, who)
    <2> PICK id \in OfferIds : applyLegacyClaim(id, who)
      BY <1>4
    <2> DEFINE until == height + claimWindowAt(height)
               claimed == [offers[id] EXCEPT !.claimedBy = who, !.claimUntilHeight = until]
    <2>1. until \in Nat
      BY ParametersAssumption DEF claimWindowAt, Types, ChainTypes
    <2>2. offers' = [offers EXCEPT ![id] = claimed]
      BY DEF applyLegacyClaim
    <2> HIDE DEF until
    <2>3. /\ claimed \in OfferRec
          /\ claimed.terms = offers[id].terms /\ claimed.seller = offers[id].seller
          /\ claimed.paid = offers[id].paid /\ claimed.status = offers[id].status
      <3>1. offers[id] \in OfferRec
        BY DEF Types, OfferTypes
      <3> QED BY <2>1, <3>1 DEF OfferRec, OrNone
    <2> HIDE DEF claimed
    <2>4. OfferTypes'
      BY <2>2, <2>3 DEF applyLegacyClaim, Types, OfferTypes
    <2> QED BY <2>4 DEF applyLegacyClaim, Types, LedgerTypes, MarketTypes, NameTypes,
                        tokenVars, nameVars
  <1> QED BY <1>1, <1>2, <1>3, <1>4 DEF AttestEvent

-----------------------------------------------------------------------------
(* The replay loop, and the theorem.                                       *)

\* The flush and the sweep of one entry keep the types: a stale or cancelled
\* offer is one that exists, so its give is an asset its seller has.
LEMMA ReplayTypes ==
  ASSUME Types, ReplayLoop
  PROVE  Types'
  <1>1. CASE \E c \in pendingCancels : FlushCancel(c)
    <2> PICK c \in pendingCancels : FlushCancel(c)
      BY <1>1
    <2>1. c.offer \in OfferIds
      BY DEF Types, MarketTypes
    <2>2. /\ ChainTypes' /\ pendingCancels' \in SUBSET [offer : OfferIds, at : Nat]
          /\ UNCHANGED <<tokens, feesPaid, offerLock, bids, fclaims, commits, recaptures>>
      BY DEF FlushCancel, Types, ChainTypes, MarketTypes
    <2>3. CASE UNCHANGED <<offers, avail, locked, names>>
      BY <2>2, <2>3 DEF Types, LedgerTypes, OfferTypes, MarketTypes, NameTypes
    <2>4. CASE /\ Open(c.offer) /\ releaseGive(c.offer)
               /\ setOfferStatus(c.offer, "cancelled")
      <3>1. offers[c.offer].status # "none"
        BY <2>4 DEF Open
      <3>2. /\ avail' \in [Tickers -> [Addrs -> Int]]
            /\ locked' \in [Tickers -> [Addrs -> Int]]
            /\ names' \in [Names -> NameRec]
        BY <2>1, <2>4, <3>1, ReleaseTypes DEF Types
      <3>3. OfferTypes'
        BY <2>1, <2>2, <2>4, <3>1, StatusTypes DEF Types
      <3> QED BY <2>2, <3>2, <3>3 DEF Types, LedgerTypes, MarketTypes, NameTypes
    <2> QED BY <2>3, <2>4 DEF FlushCancel
  <1>2. CASE NextBlock
    BY <1>2 DEF NextBlock, Types, ChainTypes, LedgerTypes, OfferTypes, MarketTypes,
                NameTypes, tokenVars, marketVars, nameVars
  <1>3. CASE \E id \in OfferIds : ExpireOffer(id)
    <2> PICK id \in OfferIds : ExpireOffer(id)
      BY <1>3
    <2>1. /\ offers[id].status # "none" /\ releaseGive(id) /\ setOfferStatus(id, "expired")
          /\ UNCHANGED <<chainVars, tokens, feesPaid, offerLock, bids, fclaims,
                         pendingCancels, commits, recaptures>>
      BY DEF ExpireOffer, StaleOffers, Stale
    <2>2. /\ avail' \in [Tickers -> [Addrs -> Int]]
          /\ locked' \in [Tickers -> [Addrs -> Int]]
          /\ names' \in [Names -> NameRec]
      BY <2>1, ReleaseTypes DEF Types
    <2>3. OfferTypes'
      BY <2>1, StatusTypes DEF Types
    <2> QED BY <2>1, <2>2, <2>3 DEF Types, ChainTypes, LedgerTypes, MarketTypes, NameTypes,
                                    chainVars
  <1>4. CASE \E b \in BidIds : ExpireBid(b)
    <2>1. bids' \in [BidIds -> BidRec]
      BY <1>4 DEF ExpireBid, Types, MarketTypes, BidRec
    <2> QED BY <1>4, <2>1 DEF ExpireBid, Types, ChainTypes, LedgerTypes, OfferTypes,
                              MarketTypes, NameTypes, chainVars, tokenVars, nameVars
  <1>5. CASE \E n \in Names : DropReservation(n)
    <2>1. names' \in [Names -> NameRec]
      BY <1>5 DEF DropReservation, Types, NameTypes, NoName, NameRec, OrNone
    <2> QED BY <1>5, <2>1 DEF DropReservation, Types, ChainTypes, LedgerTypes, OfferTypes,
                              MarketTypes, NameTypes, chainVars, tokenVars, marketVars
  <1>6. CASE \E n \in Names : DropRecapture(n)
    <2>1. recaptures' \in [Names -> RecaptureRec]
      BY <1>6 DEF DropRecapture, Types, NameTypes, NoRecapture, RecaptureRec, OrNone
    <2> QED BY <1>6, <2>1 DEF DropRecapture, Types, ChainTypes, LedgerTypes, OfferTypes,
                              MarketTypes, NameTypes, chainVars, tokenVars, marketVars
  <1> QED BY <1>1, <1>2, <1>3, <1>4, <1>5, <1>6 DEF ReplayLoop

\* Every step of the resolver keeps the types.
LEMMA StepTypes == Types /\ [Next]_vars => Types'
  <1> SUFFICES ASSUME Types, [Next]_vars PROVE Types'
    OBVIOUS
  <1>1. CASE ReplayLoop
    BY <1>1, ReplayTypes
  <1>2. CASE ProposeEvent
    <2> PICK who \in Addrs, p \in 1 .. MaxPos :
             Event("propose", p) /\ (TokenRecord(who) \/ MarketRecord(who) \/ NameRecord(who))
      BY <1>2 DEF ProposeEvent
    <2>1. ChainTypes' /\ height' = height
      BY EventTypes DEF Types
    <2>2. CASE TokenRecord(who)
      BY <2>1, <2>2, TokenTypes DEF Types, OfferTypes, MarketTypes, NameTypes, marketVars,
                                    nameVars
    <2>3. CASE MarketRecord(who)
      BY <2>1, <2>3, MarketRecordTypes
    <2>4. CASE NameRecord(who)
      BY <2>1, <2>4, NameRecordTypes
    <2> QED BY <2>2, <2>3, <2>4
  <1>3. CASE AttestStep
    <2> PICK who \in Addrs, p \in 1 .. MaxPos : Event("attest", p) /\ AttestEvent(who)
      BY <1>3 DEF AttestStep
    <2>1. ChainTypes' /\ height' = height
      BY EventTypes DEF Types
    <2> QED BY <2>1, AttestTypes
  <1>4. CASE UNCHANGED vars
    BY <1>4 DEF vars, chainVars, tokenVars, marketVars, nameVars, Types, ChainTypes,
                LedgerTypes, OfferTypes, MarketTypes, NameTypes
  <1> QED BY <1>1, <1>2, <1>3, <1>4 DEF Next

\* Whatever events a chain carries, in whatever order the blocks put them, every
\* map of the replay holds entries of its source type, and the strengthening that
\* makes this inductive: an existing offer has published terms and a seller, no
\* partial offer was paid more than its price, no token minted past its supply.
THEOREM TypesInvariant == Spec => []Types
  BY InitTypes, StepTypes, PTL DEF Spec

\* The type invariant the run NameSale checks: every map of the replay holds entries
\* of its source type (the fields of Ctx and of its records).
THEOREM TypeCorrectness == Spec => []TypeOK
  <1>1. Types => TypeOK
    BY DEF Types, ChainTypes, LedgerTypes, OfferTypes, MarketTypes, NameTypes, TypeOK
  <1> QED BY <1>1, TypesInvariant, PTL


-----------------------------------------------------------------------------
(* The moves of one offer, its lock included.                              *)

Rests(i) == offers'[i] = offers[i] /\ offerLock'[i] = offerLock[i]

Published(i) ==
  /\ offers[i].status = "none"
  /\ \E who \in Addrs, x \in OfferTerms, E \in Nat :
       /\ offers'[i] = [NoOffer EXCEPT !.status = "open", !.seller = who, !.terms = x,
                                       !.expiresEpoch = E, !.height = height]
       /\ ~isNameGive(x.give) => offerLock'[i] = x.give.amount

Claimed(i) ==
  /\ Open(i) /\ ~claimHeld(offers[i], height) /\ height' = height
  /\ offerLock'[i] = offerLock[i]
  /\ \E who \in Addrs, until \in Nat, f \in FclaimIds \cup {None} :
       offers'[i] = [offers[i] EXCEPT !.claimedBy = who, !.claimTxid = f,
                                      !.claimUntilHeight = until]

Sold(i) ==
  /\ Open(i) /\ offers[i].terms.min = 0
  /\ \E who \in Addrs : offers'[i] = [offers[i] EXCEPT !.status = "filled", !.buyer = who]

\* x of the price is paid, and the total rounded again.
PartSold(i) ==
  LET o == offers[i]
      want == o.terms.want.amount
  IN /\ Open(i) /\ o.terms.min # 0
     /\ \E x \in Nat, who \in Addrs :
          LET part == [o EXCEPT !.paid = o.paid + x,
                                !.delivered = deliveredAfter(o, o.paid + x)]
          IN /\ o.paid + x <= want
             /\ \/ /\ o.paid + x = want
                   /\ offers'[i] = [part EXCEPT !.status = "filled", !.buyer = who]
                \/ /\ o.paid + x # want
                   /\ offers'[i] = part
                   /\ offerLock'[i] = offerLock[i] - (part.delivered - o.delivered)

Ended(i) ==
  /\ Open(i) /\ offerLock'[i] = offerLock[i]
  /\ \E st \in {"cancelled", "expired"} : offers'[i] = [offers[i] EXCEPT !.status = st]

\* All but the last: what a market record or an attest may do.
MovesOn(i) == Rests(i) \/ Published(i) \/ Claimed(i) \/ Sold(i) \/ PartSold(i)

Moves(i) == MovesOn(i) \/ Ended(i)

-----------------------------------------------------------------------------
(* Every step is one of them, for every offer.                             *)

\* A market record publishes an offer, claims one, or leaves all alone.
LEMMA MarketRecordMoves ==
  ASSUME Types, NEW who \in Addrs, MarketRecord(who), height' = height,
         NEW i \in OfferIds
  PROVE  MovesOn(i)
  <1>1. CASE \E id \in OfferIds, x \in OfferTerms, E \in Expiries : applyOffer(id, who, x, E)
    <2> PICK id \in OfferIds, x \in OfferTerms, E \in Expiries : applyOffer(id, who, x, E)
      BY <1>1
    <2>1. E \in Nat /\ OfferShape(x)
      BY OfferTermsAssumption
    <2>2. offerLock' = offerLock \/ offerLock' = [offerLock EXCEPT ![id] = x.give.amount]
      BY DEF applyOffer, lockGive
    <2>3. ~isNameGive(x.give) => offerLock' = [offerLock EXCEPT ![id] = x.give.amount]
      BY DEF applyOffer, lockGive
    <2>4. CASE i = id
      <3>1. Published(i)
        BY <2>1, <2>3, <2>4 DEF applyOffer, Published, Types, OfferTypes
      <3> QED BY <3>1 DEF MovesOn
    <2>5. CASE i # id
      <3>1. Rests(i)
        BY <2>2, <2>5 DEF applyOffer, Rests, Types, OfferTypes
      <3> QED BY <3>1 DEF MovesOn
    <2> QED BY <2>4, <2>5
  <1>2. CASE \E b \in BidIds, E \in Expiries : applyBid(b, who, E)
    BY <1>2 DEF applyBid, MovesOn, Rests
  <1>3. CASE \E filter \in Tickers \cup Names \cup {None} : applyOcancel(who, filter)
    BY <1>3 DEF applyOcancel, MovesOn, Rests
  <1>4. CASE \E f \in FclaimIds, id \in OfferIds, E \in Expiries : applyFclaim(f, who, id, E)
    <2> PICK f \in FclaimIds, id \in OfferIds, E \in Expiries : applyFclaim(f, who, id, E)
      BY <1>4
    <2> DEFINE until == (E + 1) * EPOCH_LEN
               held == [offers[id] EXCEPT !.claimedBy = who, !.claimTxid = f,
                                          !.claimUntilHeight = until]
    <2>1. until \in Nat /\ offerLock' = offerLock
      BY OfferTermsAssumption, NatProduct, ParametersAssumption DEF applyFclaim
    <2>2. CASE offers' = offers
      BY <2>1, <2>2 DEF MovesOn, Rests
    <2>3. CASE fclaimGranted(id, who, E) /\ offers' = [offers EXCEPT ![id] = held]
      <3>1. Open(id) /\ ~claimHeld(offers[id], height)
        BY <2>3 DEF fclaimGranted, claimAvailable
      <3>2. CASE i = id
        <4>1. offers'[i] = held
          BY <2>3, <3>2 DEF Types, OfferTypes
        <4> HIDE DEF until
        <4>2. Claimed(i)
          BY <2>1, <3>1, <3>2, <4>1 DEF Claimed
        <4> QED BY <4>2 DEF MovesOn
      <3>3. CASE i # id
        BY <2>1, <2>3, <3>3 DEF MovesOn, Rests, Types, OfferTypes
      <3> QED BY <3>2, <3>3
    <2> QED BY <2>2, <2>3 DEF applyFclaim
  <1> QED BY <1>1, <1>2, <1>3, <1>4 DEF MarketRecord

\* A name record touches neither balances, locks, bids nor holds; of the offers
\* only the listings of its name.
LEMMA NameRecordFrame ==
  ASSUME NEW who \in Addrs, NameRecord(who)
  PROVE  NameFrame /\ (offers' = offers \/ \E n \in Names : voidOpenNameOffers(n))
  <1>1. CASE \E key \in CommitKeys : applyNcommit(key)
    BY <1>1 DEF applyNcommit
  <1>2. CASE \E n \in Names, salt \in Salts \cup {None}, txid \in AnchorIds,
                fee \in Payments : applyName(n, who, salt, txid, fee)
    <2> PICK n \in Names, salt \in Salts \cup {None}, txid \in AnchorIds,
             fee \in Payments : applyName(n, who, salt, txid, fee)
      BY <1>2
    <2>1. NameFrame
      BY DEF applyName, reserveRecapture, reclaimLapsed, reserveName, registerName
    <2>2. offers' = offers \/ voidOpenNameOffers(n)
      BY DEF applyName, reserveRecapture, reclaimLapsed, reserveName, registerName, takeName
    <2> QED BY <2>1, <2>2
  <1>3. CASE \E n \in Names, salt \in Salts, fee \in Payments : applyNfinalize(n, who, salt, fee)
    <2> PICK n \in Names, salt \in Salts, fee \in Payments : applyNfinalize(n, who, salt, fee)
      BY <1>3
    <2>1. NameFrame
      BY DEF applyNfinalize, finalizeRegistration, finalizeRecapture
    <2>2. offers' = offers \/ voidOpenNameOffers(n)
      BY DEF applyNfinalize, finalizeRegistration, finalizeRecapture
    <2> QED BY <2>1, <2>2
  <1>4. CASE \E n \in Names, to \in Addrs : applyNxfer(n, who, to)
    BY <1>4 DEF applyNxfer, OnlyNames
  <1>5. CASE \E n \in Names, target \in NameTargets : applyNset(n, who, target)
    BY <1>5 DEF applyNset, OnlyNames
  <1>6. CASE \E n \in Names, p \in Contents \cup {None} : applyNprofile(n, who, p)
    BY <1>6 DEF applyNprofile, OnlyNames
  <1>7. CASE \E n \in Names, fee \in Payments : applyNrenew(n, who, fee)
    BY <1>7 DEF applyNrenew
  <1> QED BY <1>1, <1>2, <1>3, <1>4, <1>5, <1>6, <1>7 DEF NameRecord

\* A name record cancels listings of the name, or leaves all alone.
LEMMA NameRecordMoves ==
  ASSUME Types, NEW who \in Addrs, NameRecord(who), NEW i \in OfferIds
  PROVE  Moves(i)
  <1>1. offerLock' = offerLock
        /\ (offers' = offers \/ \E n \in Names : voidOpenNameOffers(n))
    BY NameRecordFrame DEF NameFrame
  <1>2. CASE offers' = offers
    BY <1>1, <1>2 DEF MovesOn, Moves, Rests
  <1>3. CASE \E n \in Names : voidOpenNameOffers(n)
    <2>1. \/ offers'[i] = offers[i]
          \/ Open(i) /\ offers'[i] = [offers[i] EXCEPT !.status = "cancelled"]
      BY <1>3 DEF voidOpenNameOffers, openNameOffers
    <2> QED BY <1>1, <2>1 DEF MovesOn, Moves, Rests, Ended
  <1> QED BY <1>1, <1>2, <1>3

\* The flush and the sweep end offers.
LEMMA ReplayMoves ==
  ASSUME Types, ReplayLoop, NEW i \in OfferIds
  PROVE  Moves(i)
  <1>1. ASSUME NEW id \in OfferIds, Open(id), NEW st \in {"cancelled", "expired"},
               setOfferStatus(id, st), UNCHANGED offerLock
        PROVE  Moves(i)
    <2>1. CASE i = id
      BY <1>1, <2>1 DEF setOfferStatus, MovesOn, Moves, Ended, Types, OfferTypes, OfferRec
    <2>2. CASE i # id
      BY <1>1, <2>2 DEF setOfferStatus, MovesOn, Moves, Rests, Types, OfferTypes
    <2> QED BY <2>1, <2>2
  <1>2. CASE \E c \in pendingCancels : FlushCancel(c)
    <2> PICK c \in pendingCancels : FlushCancel(c)
      BY <1>2
    <2>1. c.offer \in OfferIds
      BY DEF Types, MarketTypes
    <2>2. UNCHANGED offerLock
      BY DEF FlushCancel
    <2>3. CASE UNCHANGED offers
      BY <2>2, <2>3 DEF MovesOn, Moves, Rests
    <2>4. CASE Open(c.offer) /\ setOfferStatus(c.offer, "cancelled")
      BY <1>1, <2>1, <2>2, <2>4
    <2> QED BY <2>3, <2>4 DEF FlushCancel
  <1>3. CASE \E id \in OfferIds : ExpireOffer(id)
    <2> PICK id \in OfferIds : ExpireOffer(id)
      BY <1>3
    <2>1. Open(id) /\ setOfferStatus(id, "expired") /\ UNCHANGED offerLock
      BY DEF ExpireOffer, StaleOffers, Stale, Open
    <2> QED BY <1>1, <2>1
  <1>4. CASE NextBlock \/ (\E b \in BidIds : ExpireBid(b))
             \/ (\E n \in Names : DropReservation(n)) \/ (\E n \in Names : DropRecapture(n))
    BY <1>4 DEF NextBlock, ExpireBid, DropReservation, DropRecapture, marketVars, MovesOn,
                Moves, Rests
  <1> QED BY <1>2, <1>3, <1>4 DEF ReplayLoop

\* An attest claims or sells an offer, in whole or in part, or leaves all alone.
LEMMA AttestMoves ==
  ASSUME Types, NEW who \in Addrs, AttestEvent(who), height' = height,
         NEW i \in OfferIds
  PROVE  MovesOn(i)
  <1>1. ASSUME NEW id \in OfferIds, Open(id), offers[id].terms.min = 0, markFilled(id, who),
               offerLock' = offerLock \/ offerLock' = [offerLock EXCEPT ![id] = 0]
        PROVE  MovesOn(i)
    <2>1. CASE i = id
      BY <1>1, <2>1 DEF markFilled, MovesOn, Sold, Types, OfferTypes
    <2>2. CASE i # id
      BY <1>1, <2>2 DEF markFilled, MovesOn, Rests, Types, OfferTypes
    <2> QED BY <2>1, <2>2
  <1>2. ASSUME NEW id \in OfferIds, NEW txid \in AnchorIds, applyTokenFill(id, who, txid)
        PROVE  MovesOn(i)
    <2>1. Open(id) /\ isTokenWant(offers[id].terms.want) /\ markFilled(id, who)
          /\ (offerLock' = offerLock \/ offerLock' = [offerLock EXCEPT ![id] = 0])
      BY <1>2 DEF applyTokenFill, OpenToFiller
    <2>2. OfferShape(offers[id].terms)
      BY <2>1, OfferParts DEF Open, Types
    <2>3. offers[id].terms.min = 0
      BY <2>1, <2>2 DEF OfferShape, isTokenWant
    <2> QED BY <1>1, <2>1, <2>3
  <1>3. ASSUME NEW id \in OfferIds, NEW target, NEW pt \in PaidTo, NEW txid \in AnchorIds,
               applyFill(id, who, target, pt, txid)
        PROVE  MovesOn(i)
    <2>1. Open(id) /\ offers[id].terms.min = 0 /\ markFilled(id, who)
      BY <1>3 DEF applyFill, OpenToFiller
    <2>2. offerLock' = offerLock \/ offerLock' = [offerLock EXCEPT ![id] = 0]
      BY <1>3 DEF applyFill, deliverGive
    <2> QED BY <1>1, <2>1, <2>2
  <1>4. ASSUME NEW id \in OfferIds, NEW target, NEW pt \in PaidTo,
               applyPartialFill(id, who, target, pt)
        PROVE  MovesOn(i)
    <2> DEFINE o == offers[id]
               want == o.terms.want.amount
               x == Smaller(pt[paytoOf(o)], want - o.paid)
               part == [o EXCEPT !.paid = o.paid + x, !.delivered = deliveredAfter(o, o.paid + x)]
    <2>1. Open(id) /\ o.terms.min # 0
      BY <1>4 DEF applyPartialFill, OpenToFiller
    <2>2. OfferShape(o.terms) /\ paytoOf(o) \in Addrs /\ o.paid \in Nat
      BY <2>1, OfferParts DEF Open, Types, OfferRec
    <2>3. want \in Nat /\ o.paid <= want
      BY <2>1, <2>2 DEF Types, OfferTypes, OfferShape
    <2>4. x \in Nat /\ o.paid + x <= want
      BY <2>2, <2>3, PaidToAssumption DEF Smaller
    <2>5. \/ /\ o.paid + x = want
             /\ offers' = [offers EXCEPT ![id] = [part EXCEPT !.status = "filled", !.buyer = who]]
             /\ offerLock' = [offerLock EXCEPT ![id] = 0]
          \/ /\ o.paid + x # want
             /\ offers' = [offers EXCEPT ![id] = part]
             /\ offerLock' = [offerLock EXCEPT ![id] = @ - (deliveredAfter(o, o.paid + x) - o.delivered)]
      BY <1>4 DEF applyPartialFill
    <2>6. part.delivered = deliveredAfter(o, o.paid + x)
      BY <2>1 DEF Types, OfferTypes, OfferRec
    <2> HIDE DEF x
    <2>7. CASE i = id
      <3>1. PartSold(id)
        BY <2>1, <2>4, <2>5, <2>6 DEF PartSold, Types, OfferTypes
      <3> QED BY <2>7, <3>1 DEF MovesOn
    <2>8. CASE i # id
      <3> HIDE DEF part
      <3> QED BY <2>5, <2>8 DEF MovesOn, Rests, Types, OfferTypes
    <2> QED BY <2>7, <2>8
  <1>5. ASSUME NEW id \in OfferIds, applyLegacyClaim(id, who)
        PROVE  MovesOn(i)
    <2> DEFINE until == height + claimWindowAt(height)
    <2>1. /\ Open(id) /\ ~claimHeld(offers[id], height)
          /\ offers' = [offers EXCEPT ![id] =
                          [@ EXCEPT !.claimedBy = who, !.claimUntilHeight = until]]
          /\ offerLock' = offerLock
      BY <1>5 DEF applyLegacyClaim, claimAvailable
    <2>2. until \in Nat
      BY ParametersAssumption DEF claimWindowAt, Types, ChainTypes
    <2> HIDE DEF until
    <2>3. CASE i = id
      <3>1. offers[id] \in OfferRec
        BY DEF Types, OfferTypes
      <3>2. offers'[i] = [offers[i] EXCEPT !.claimedBy = who, !.claimTxid = offers[i].claimTxid,
                                           !.claimUntilHeight = until]
        BY <2>1, <2>3, <3>1 DEF OfferRec, Types, OfferTypes
      <3>3. offers[i].claimTxid \in FclaimIds \cup {None}
        BY <2>3, <3>1 DEF OfferRec, OrNone
      <3>4. Claimed(i)
        BY <2>1, <2>2, <2>3, <3>2, <3>3 DEF Claimed
      <3> QED BY <3>4 DEF MovesOn
    <2>4. CASE i # id
      BY <2>1, <2>4 DEF MovesOn, Rests, Types, OfferTypes
    <2> QED BY <2>3, <2>4
  <1>6. ASSUME NEW target \in OfferIds \cup FclaimIds, NEW pt \in PaidTo, NEW txid \in AnchorIds,
               FillAttest(target, who, pt, txid)
        PROVE  MovesOn(i)
    <2> PICK id \in OfferIds :
           \/ applyTokenFill(id, who, txid)
           \/ applyPartialFill(id, who, target, pt)
           \/ applyFill(id, who, target, pt, txid)
      BY <1>6 DEF FillAttest, routedOffers
    <2> QED BY <1>2, <1>3, <1>4
  <1>7. CASE \/ \E id \in OfferIds : applyCancel(id, who)
             \/ \E b \in BidIds : cancelBid(b, who)
    BY <1>7 DEF applyCancel, cancelBid, MovesOn, Rests
  <1> QED BY <1>5, <1>6, <1>7 DEF AttestEvent

\* No step moves an offer in any other way.
LEMMA StepMoves ==
  ASSUME Types, [Next]_vars, NEW i \in OfferIds
  PROVE  Moves(i)
  <1>1. CASE ReplayLoop
    BY <1>1, ReplayMoves
  <1>2. CASE ProposeEvent
    <2> PICK who \in Addrs, p \in 1 .. MaxPos :
             Event("propose", p) /\ (TokenRecord(who) \/ MarketRecord(who) \/ NameRecord(who))
      BY <1>2 DEF ProposeEvent
    <2>1. height' = height
      BY DEF Event
    <2>2. CASE TokenRecord(who)
      BY <2>2, TokenTypes DEF Types, marketVars, MovesOn, Moves, Rests
    <2>3. CASE MarketRecord(who)
      BY <2>1, <2>3, MarketRecordMoves DEF Moves
    <2>4. CASE NameRecord(who)
      BY <2>4, NameRecordMoves
    <2> QED BY <2>2, <2>3, <2>4
  <1>3. CASE AttestStep
    BY <1>3, AttestMoves DEF AttestStep, Event, Moves
  <1>4. CASE UNCHANGED vars
    BY <1>4 DEF vars, marketVars, MovesOn, Moves, Rests
  <1> QED BY <1>1, <1>2, <1>3, <1>4 DEF Next

-----------------------------------------------------------------------------
(* Holds.                                                                  *)

\* An offer that was not published is blank: nobody holds it.
Blank == \A i \in OfferIds : offers[i].status = "none" => offers[i] = NoOffer

\* Every move that changes an offer leaves it published.
LEMMA BlankInvariant == Spec => []Blank
  <1>1. Init => Blank
    BY DEF Init, Blank
  <1>2. Types /\ Blank /\ [Next]_vars => Blank'
    <2> SUFFICES ASSUME Types, Blank, [Next]_vars, NEW i \in OfferIds,
                        offers'[i].status = "none"
                 PROVE  offers'[i] = NoOffer
      BY DEF Blank
    <2>1. Moves(i) /\ offers[i] \in OfferRec
      BY StepMoves DEF Types, OfferTypes
    <2>2. Rests(i)
      BY <2>1 DEF MovesOn, Moves, Published, Claimed, Sold, PartSold, Ended, Open, OfferRec, NoOffer
    <2> QED BY <2>2 DEF Rests, Blank
  <1> QED BY <1>1, <1>2, TypesInvariant, PTL DEF Spec

\* Whoever the addresses, and however many offers and fclaims there are, and
\* wherever the gates lie: no step takes a live hold from its holder.
THEOREM HoldIsExclusive == Spec => HoldNeverDisplaced
  <1>1. ASSUME Types, Blank, [Next]_vars
        PROVE  \A i \in OfferIds : claimHeld(offers[i], height') =>
                 /\ offers'[i].claimedBy = offers[i].claimedBy
                 /\ offers'[i].claimTxid = offers[i].claimTxid
    <2> SUFFICES ASSUME NEW i \in OfferIds, claimHeld(offers[i], height')
                 PROVE  /\ offers'[i].claimedBy = offers[i].claimedBy
                        /\ offers'[i].claimTxid = offers[i].claimTxid
      OBVIOUS
    <2>1. Moves(i) /\ offers[i] \in OfferRec
      BY <1>1, StepMoves DEF Types, OfferTypes
    <2>2. offers[i].claimedBy # None
      BY DEF claimHeld
    <2>3. ~Published(i)
      <3>1. offers[i].status = "none" => offers[i].claimedBy = None
        BY <1>1 DEF Blank, NoOffer
      <3> QED BY <2>2, <3>1 DEF Published
    <2>4. ~Claimed(i)
      BY DEF Claimed
    <2> QED BY <2>1, <2>3, <2>4 DEF MovesOn, Moves, Rests, Sold, PartSold, Ended, OfferRec
  <1> QED BY <1>1, TypesInvariant, BlankInvariant, PTL DEF Spec, HoldNeverDisplaced

-----------------------------------------------------------------------------
(* Partial fills.                                                          *)

\* Rounding down: the share of nothing is nothing, of the price the whole give,
\* and what is delivered is never worth more than what was paid.
LEMMA FloorShare ==
  ASSUME NEW g \in Nat, NEW p \in Nat, NEW w \in Nat \ {0}
  PROVE  /\ (g * 0) \div w = 0
         /\ (g * w) \div w = g
         /\ ((g * p) \div w) * w <= g * p
  <1>1. (g * 0) \div w = 0
    OBVIOUS
  <1>2. (g * w) \div w = g
    OBVIOUS
  <1>3. \A a \in Nat : (a \div w) * w <= a
    OBVIOUS
  <1> QED BY <1>1, <1>2, <1>3, NatProduct

\* The share delivered is the rounded share of the total paid, the lock is the
\* rest of the give, and an offer is filled when its price is.
PartialBooks ==
  \A i \in OfferIds :
    LET o == offers[i]
        give == o.terms.give.amount
        want == o.terms.want.amount
    IN o.terms.min # 0 =>
         /\ o.delivered = deliveredAfter(o, o.paid)
         /\ Open(i) => o.paid < want /\ offerLock[i] = give - o.delivered
         /\ o.status = "filled" => o.paid = want

\* Every move keeps the books of a partial offer.
LEMMA PartialBooksInvariant == Spec => []PartialBooks
  <1>1. Init => PartialBooks
    BY DEF Init, PartialBooks, NoOffer, NoTerms
  <1>2. Types /\ PartialBooks /\ [Next]_vars => PartialBooks'
    <2> SUFFICES ASSUME Types, PartialBooks, [Next]_vars, NEW i \in OfferIds,
                        offers'[i].terms.min # 0
                 PROVE  LET o == offers'[i]
                            give == o.terms.give.amount
                            want == o.terms.want.amount
                        IN /\ o.delivered = deliveredAfter(o, o.paid)
                           /\ o.status = "open" =>
                                o.paid < want /\ offerLock'[i] = give - o.delivered
                           /\ o.status = "filled" => o.paid = want
      BY DEF PartialBooks, Open, deliveredAfter
    <2>1. /\ Moves(i) /\ offers[i] \in OfferRec /\ offerLock[i] \in Int
          /\ offers[i].terms \in Terms
      BY StepMoves DEF Types, OfferTypes, OfferRec
    <2>2. CASE Rests(i)
      BY <2>2 DEF Rests, PartialBooks, Open
    <2>3. CASE Published(i)
      <3> PICK who \in Addrs, x \in OfferTerms, E \in Nat :
             /\ offers'[i] = [NoOffer EXCEPT !.status = "open", !.seller = who, !.terms = x,
                                             !.expiresEpoch = E, !.height = height]
             /\ ~isNameGive(x.give) => offerLock'[i] = x.give.amount
        BY <2>3 DEF Published
      <3>1. /\ offers'[i].terms = x /\ offers'[i].paid = 0 /\ offers'[i].delivered = 0
            /\ offers'[i].status = "open"
        BY DEF NoOffer
      <3>2. x.want.amount \in Nat \ {0} /\ x.give.amount \in Nat
        BY <3>1, OfferTermsTypes DEF Terms
      <3>3. deliveredAfter(offers'[i], 0) = 0
        BY <3>1, <3>2, FloorShare DEF deliveredAfter
      <3>4. ~isNameGive(x.give)
        BY <3>1, OfferTermsAssumption, SetsAssumption DEF OfferShape, isNameGive
      <3> QED BY <3>1, <3>2, <3>3, <3>4
    <2>4. CASE Claimed(i)
      <3>1. /\ offers'[i].terms = offers[i].terms /\ offers'[i].paid = offers[i].paid
            /\ offers'[i].delivered = offers[i].delivered
            /\ offers'[i].status = offers[i].status /\ offerLock'[i] = offerLock[i]
        BY <2>1, <2>4 DEF Claimed, OfferRec
      <3> QED BY <3>1 DEF PartialBooks, Open, deliveredAfter
    <2>5. CASE Sold(i)
      BY <2>1, <2>5 DEF Sold, OfferRec
    <2>6. CASE PartSold(i)
      <3> DEFINE o == offers[i]
                 want == o.terms.want.amount
      <3>1. PICK x \in Nat, who \in Addrs :
              LET part == [o EXCEPT !.paid = o.paid + x,
                                    !.delivered = deliveredAfter(o, o.paid + x)]
              IN /\ o.paid + x <= want
                 /\ \/ /\ o.paid + x = want
                       /\ offers'[i] = [part EXCEPT !.status = "filled", !.buyer = who]
                    \/ /\ o.paid + x # want
                       /\ offers'[i] = part
                       /\ offerLock'[i] = offerLock[i] - (part.delivered - o.delivered)
        BY <2>6 DEF PartSold
      <3>2. Open(i) /\ o.terms.min # 0 /\ o.status = "open"
        BY <2>6 DEF PartSold, Open
      <3>3. offerLock[i] = o.terms.give.amount - o.delivered
        BY <3>2 DEF PartialBooks
      <3>4. /\ offers'[i].terms = o.terms /\ offers'[i].paid = o.paid + x
            /\ offers'[i].delivered = deliveredAfter(o, o.paid + x)
        BY <2>1, <3>1 DEF OfferRec
      <3>5. deliveredAfter(offers'[i], o.paid + x) = deliveredAfter(o, o.paid + x)
        BY <3>4 DEF deliveredAfter
      <3>6. \/ offers'[i].status = "filled" /\ o.paid + x = want
            \/ /\ offers'[i].status = "open" /\ o.paid + x < want
               /\ offerLock'[i] = offerLock[i] - (deliveredAfter(o, o.paid + x) - o.delivered)
        <4>1. o.paid \in Nat /\ want \in Nat
          BY <2>1 DEF OfferRec, Terms
        <4>2. [o EXCEPT !.paid = o.paid + x,
                        !.delivered = deliveredAfter(o, o.paid + x)].delivered
                = deliveredAfter(o, o.paid + x)
          BY <2>1 DEF OfferRec
        <4>3. CASE o.paid + x = want
          BY <2>1, <3>1, <4>3 DEF OfferRec
        <4>4. CASE o.paid + x # want
          <5>1. offers'[i].status = "open"
            BY <2>1, <3>1, <3>2, <4>4 DEF OfferRec
          <5>2. o.paid + x < want
            BY <3>1, <4>1, <4>4
          <5> QED BY <3>1, <4>2, <4>4, <5>1, <5>2
        <4> QED BY <4>3, <4>4
      <3>7. deliveredAfter(o, o.paid + x) \in Int
        <4>1. offers'[i] \in OfferRec
          BY StepTypes DEF Types, OfferTypes
        <4> QED BY <3>4, <4>1 DEF OfferRec
      <3> QED BY <2>1, <3>3, <3>4, <3>5, <3>6, <3>7 DEF OfferRec, Terms
    <2>7. CASE Ended(i)
      <3>1. /\ offers'[i].terms = offers[i].terms /\ offers'[i].paid = offers[i].paid
            /\ offers'[i].delivered = offers[i].delivered
            /\ offers'[i].status \in {"cancelled", "expired"}
        BY <2>1, <2>7 DEF Ended, OfferRec
      <3> QED BY <3>1 DEF PartialBooks, deliveredAfter
    <2> QED BY <2>1, <2>2, <2>3, <2>4, <2>5, <2>6, <2>7 DEF MovesOn, Moves
  <1> QED BY <1>1, <1>2, TypesInvariant, PTL DEF Spec

\* Whatever the price, the give and the payments: a partial offer never sells
\* more than was paid for, its lock is what is left, and completing the price
\* delivers the exact rest (applyPartialFill).
THEOREM PartialFillIsExact == Spec => []PartialFillExact
  <1>1. Types /\ PartialBooks => PartialFillExact
    <2> SUFFICES ASSUME Types, PartialBooks, NEW i \in OfferIds, offers[i].terms.min # 0
                 PROVE  LET o == offers[i]
                            give == o.terms.give.amount
                            want == o.terms.want.amount
                        IN /\ o.delivered * want <= give * o.paid
                           /\ Open(i) => o.paid < want /\ offerLock[i] = give - o.delivered
                           /\ o.status = "filled" => o.paid = want /\ o.delivered = give
      BY DEF PartialFillExact
    <2> DEFINE o == offers[i]
               give == o.terms.give.amount
               want == o.terms.want.amount
    <2>1. /\ o.paid \in Nat /\ o.terms \in OfferTerms \cup {NoTerms}
      BY DEF Types, OfferTypes, OfferRec
    <2>2. want \in Nat \ {0} /\ give \in Nat
      BY <2>1, OfferTermsTypes DEF Terms
    <2>3. /\ o.delivered = (give * o.paid) \div want
          /\ Open(i) => o.paid < want /\ offerLock[i] = give - o.delivered
          /\ o.status = "filled" => o.paid = want
      BY DEF PartialBooks, deliveredAfter
    <2> HIDE DEF o, give, want
    <2>4. ((give * o.paid) \div want) * want <= give * o.paid /\ (give * want) \div want = give
      BY <2>1, <2>2, FloorShare
    <2>5. o.delivered * want <= give * o.paid
      BY <2>3, <2>4
    <2>6. o.status = "filled" => o.delivered = give
      BY <2>3, <2>4
    <2> QED BY <2>3, <2>5, <2>6 DEF o, give, want
  <1> QED BY <1>1, TypesInvariant, PartialBooksInvariant, PTL

-----------------------------------------------------------------------------
(* Bids.                                                                   *)

\* A bid is only turned done by the fill of an offer answering it, by its bidder.
BidMoves(b) ==
  \/ bids'[b].status # "done"
  \/ bids[b].status = "done" /\ bids'[b].bidder = bids[b].bidder
  \/ /\ bids'[b].bidder = bids[b].bidder
     /\ \E i \in OfferIds : /\ offers'[i].terms.bid = b /\ offers'[i].status = "filled"
                            /\ offers'[i].buyer = bids[b].bidder

\* markBidDone is the only place where a bid becomes done.
LEMMA MarkBidMoves ==
  ASSUME Types, NEW id \in OfferIds, NEW who \in Addrs, NEW b \in BidIds,
         markBidDone(offers[id], who),
         offers'[id].terms = offers[id].terms, offers'[id].status = "filled",
         offers'[id].buyer = who
  PROVE  BidMoves(b)
  <1>1. CASE b = offers[id].terms.bid /\ bids[b].status = "open" /\ bids[b].bidder = who
    <2>1. bids'[b].bidder = bids[b].bidder
      BY <1>1 DEF markBidDone, Types, MarketTypes, BidRec
    <2> QED BY <1>1, <2>1 DEF BidMoves
  <1>2. CASE ~(b = offers[id].terms.bid /\ bids[b].status = "open" /\ bids[b].bidder = who)
    <2>1. bids'[b] = bids[b]
      BY <1>2 DEF markBidDone
    <2> QED BY <2>1 DEF BidMoves
  <1> QED BY <1>1, <1>2

\* A fill satisfies the bid it answers; no other attest makes a bid done.
LEMMA AttestBidMoves ==
  ASSUME Types, NEW who \in Addrs, AttestEvent(who), NEW b \in BidIds
  PROVE  BidMoves(b)
  <1>1. ASSUME NEW id \in OfferIds, markFilled(id, who)
        PROVE  BidMoves(b)
    <2>1. /\ offers'[id].terms = offers[id].terms /\ offers'[id].status = "filled"
          /\ offers'[id].buyer = who
      BY <1>1 DEF markFilled, Types, OfferTypes, OfferRec
    <2> QED BY <1>1, <2>1, MarkBidMoves DEF markFilled
  <1>2. ASSUME NEW id \in OfferIds, NEW target, NEW pt \in PaidTo,
               applyPartialFill(id, who, target, pt)
        PROVE  BidMoves(b)
    <2> DEFINE o == offers[id]
               x == Smaller(pt[paytoOf(o)], o.terms.want.amount - o.paid)
               part == [o EXCEPT !.paid = o.paid + x, !.delivered = deliveredAfter(o, o.paid + x)]
    <2>1. \/ /\ offers' = [offers EXCEPT ![id] = [part EXCEPT !.status = "filled", !.buyer = who]]
             /\ markBidDone(o, who)
          \/ UNCHANGED bids
      BY <1>2 DEF applyPartialFill
    <2>2. CASE UNCHANGED bids
      BY <2>2 DEF BidMoves
    <2>3. CASE /\ offers' = [offers EXCEPT ![id] = [part EXCEPT !.status = "filled", !.buyer = who]]
               /\ markBidDone(o, who)
      <3>1. /\ offers'[id].terms = o.terms /\ offers'[id].status = "filled"
            /\ offers'[id].buyer = who
        BY <2>3 DEF Types, OfferTypes, OfferRec
      <3> QED BY <2>3, <3>1, MarkBidMoves
    <2> QED BY <2>1, <2>2, <2>3
  <1>3. ASSUME NEW target \in OfferIds \cup FclaimIds, NEW pt \in PaidTo, NEW txid \in AnchorIds,
               FillAttest(target, who, pt, txid)
        PROVE  BidMoves(b)
    <2> PICK id \in OfferIds :
           markFilled(id, who) \/ applyPartialFill(id, who, target, pt)
      BY <1>3 DEF FillAttest, routedOffers, applyTokenFill, applyFill
    <2> QED BY <1>1, <1>2
  <1>4. CASE \E c \in BidIds : cancelBid(c, who)
    <2>1. bids'[b] = bids[b] \/ bids'[b].status # "done"
      BY <1>4 DEF cancelBid, Types, MarketTypes, BidRec
    <2> QED BY <2>1 DEF BidMoves
  <1>5. CASE \E id \in OfferIds : applyCancel(id, who) \/ applyLegacyClaim(id, who)
    BY <1>5 DEF applyCancel, applyLegacyClaim, BidMoves
  <1> QED BY <1>3, <1>4, <1>5 DEF AttestEvent

\* Nor does any other step.
LEMMA StepBidMoves ==
  ASSUME Types, [Next]_vars, NEW b \in BidIds
  PROVE  BidMoves(b)
  <1>1. CASE ReplayLoop
    <2>1. UNCHANGED bids \/ \E c \in BidIds : bids' = [bids EXCEPT ![c].status = "expired"]
      BY <1>1 DEF ReplayLoop, FlushCancel, NextBlock, ExpireOffer, ExpireBid, DropReservation,
                  DropRecapture, marketVars
    <2>2. bids'[b] = bids[b] \/ bids'[b].status # "done"
      BY <2>1 DEF Types, MarketTypes, BidRec
    <2> QED BY <2>2 DEF BidMoves
  <1>2. CASE ProposeEvent
    <2> PICK who \in Addrs, p \in 1 .. MaxPos :
             Event("propose", p) /\ (TokenRecord(who) \/ MarketRecord(who) \/ NameRecord(who))
      BY <1>2 DEF ProposeEvent
    <2>1. CASE TokenRecord(who)
      BY <2>1, TokenTypes DEF Types, marketVars, BidMoves
    <2>2. CASE MarketRecord(who)
      <3>1. CASE \E id \in OfferIds, x \in OfferTerms, E \in Expiries : applyOffer(id, who, x, E)
        <4>1. /\ bids'[b].status = bids[b].status /\ bids'[b].bidder = bids[b].bidder
          BY <3>1 DEF applyOffer, Types, MarketTypes, BidRec
        <4> QED BY <4>1 DEF BidMoves
      <3>2. CASE \E c \in BidIds, E \in Expiries : applyBid(c, who, E)
        <4>1. bids'[b] = bids[b] \/ bids'[b].status = "open"
          BY <3>2 DEF applyBid, Types, MarketTypes, NoBid
        <4> QED BY <4>1 DEF BidMoves
      <3>3. CASE \E filter \in Tickers \cup Names \cup {None} : applyOcancel(who, filter)
        BY <3>3 DEF applyOcancel, BidMoves
      <3>4. CASE \E f \in FclaimIds, id \in OfferIds, E \in Expiries : applyFclaim(f, who, id, E)
        BY <3>4 DEF applyFclaim, BidMoves
      <3> QED BY <2>2, <3>1, <3>2, <3>3, <3>4 DEF MarketRecord
    <2>3. CASE NameRecord(who)
      BY <2>3, NameRecordFrame DEF NameFrame, BidMoves
    <2> QED BY <2>1, <2>2, <2>3
  <1>3. CASE AttestStep
    BY <1>3, AttestBidMoves DEF AttestStep
  <1>4. CASE UNCHANGED vars
    BY <1>4 DEF vars, marketVars, BidMoves
  <1> QED BY <1>1, <1>2, <1>3, <1>4 DEF Next

\* However many bids, answers and bidders there are, and in whatever order they
\* come: a bid that reads as done was answered by an offer its bidder filled.
THEOREM BidDoneIsSound == Spec => []BidDoneSound
  <1>1. Init => BidDoneSound
    BY DEF Init, BidDoneSound, NoBid
  <1>2. Types /\ BidDoneSound /\ [Next]_vars => BidDoneSound'
    <2> SUFFICES ASSUME Types, BidDoneSound, [Next]_vars, NEW b \in BidIds,
                        bids'[b].status = "done"
                 PROVE  \E i \in OfferIds : /\ offers'[i].terms.bid = b
                                            /\ offers'[i].status = "filled"
                                            /\ offers'[i].buyer = bids'[b].bidder
      BY DEF BidDoneSound
    <2>1. BidMoves(b)
      BY StepBidMoves
    <2>2. CASE bids[b].status = "done" /\ bids'[b].bidder = bids[b].bidder
      <3>1. PICK i \in OfferIds : /\ offers[i].terms.bid = b
                                  /\ offers[i].status = "filled"
                                  /\ offers[i].buyer = bids[b].bidder
        BY <2>2 DEF BidDoneSound
      <3>2. offers'[i] = offers[i]
        BY <3>1, StepMoves DEF MovesOn, Moves, Rests, Published, Claimed, Sold, PartSold, Ended, Open
      <3> QED BY <2>2, <3>1, <3>2
    <2> QED BY <2>1, <2>2 DEF BidMoves
  <1> QED BY <1>1, <1>2, TypesInvariant, PTL DEF Spec
=============================================================================
