-------------------------- MODULE ClientProperties --------------------------
(***************************************************************************)
(* What a client may rely on when it signs.                                *)
(***************************************************************************)
EXTENDS ClientCalls

-----------------------------------------------------------------------------
(* The fill of an open lane.                                               *)

laneEvents(id) ==
  SelectSeq(feed, LAMBDA e : \/ e.id = id
                             \/ e.rec.t = "fclaim" /\ e.rec.offer = id
                             \/ e.kind = "attest" /\ e.rec.target \in laneTargets(feed, id))

Without(events, id) == SelectSeq(events, LAMBDA e : e.id # id)

\* The offer as a service may show it: as it is, with one term or a party of
\* another offer, or without the fills before.
Views(o, me) ==
  {o, [o EXCEPT !.terms.give.amount = @ + 1], [o EXCEPT !.terms.want.amount = @ + 1],
      [o EXCEPT !.terms.min = 1 - Smaller(@, 1)], [o EXCEPT !.terms.taker = me],
      [o EXCEPT !.height = V16_HEIGHT - 1], [o EXCEPT !.paid = 0],
      [o EXCEPT !.seller = me], [o EXCEPT !.terms.payto = me]}

\* What a client pays on: the served offer where it is the proven one.
boundTo(served, p) ==
  ~bindOfferTerms(served, p.terms) /\ served.seller = p.seller
    /\ Rules(0)!paytoOf(served) = p.payto

\* The offer moves by what was bought: no less is delivered and all that is
\* paid counts.
Moves(o, p, me, bought) ==
  IF o.terms.min = 0 THEN p.status = "filled" /\ p.buyer = me /\ o.status = "open"
  ELSE p.delivered - o.delivered >= bought.got /\ p.paid - o.paid = bought.pay

\* me's fill, mined at height at after the events of kept, moves the offer so.
Lands(kept, at, id, f, me, outs, bought) ==
  LET fill == [kind |-> "attest", id |-> None, height |-> at, pos |-> MaxPos + 1,
               who |-> me, rec |-> [t |-> "fill", target |-> f, pays |-> outs]]
  IN Moves(atBlock(replayed(kept), at).offers[id], replayed(Append(kept, fill)).offers[id],
           me, bought)

\* The fclaims of others on the lane, decided alike by the lane and the chain:
\* the cap denied none of them for holds elsewhere.
OthersDecided(id, me) ==
  \A c \in Range(feed) : c.rec.t = "fclaim" /\ c.rec.offer = id /\ c.who # me =>
    resolve(feed, tip).fclaims[c.id].outcome
      = resolve(laneEvents(id), tip).fclaims[c.id].outcome

\* Wherever the fill is mined, up to the margin above the tip, and whatever
\* reorganization shallower than the required depth comes between.
LandsAnyhow(c, outs, bought) ==
  LET id   == c.rec.offer
      e    == eventOf(feed, id)
      need == requiredClaimDepth(e.rec.terms.want.amount, e.height).depth
  IN \A cut \in 0 .. need - 1 : \A at \in tip + 1 - cut .. tip + FILL_TIP_MARGIN :
       Lands(SelectSeq(feed, LAMBDA d : d.height <= tip - cut), at, id, c.id, c.who,
             outs, bought)

\* A fill a client signs after verifyFillSpv is delivered in full and pays
\* nothing that buys nothing: on whatever shallow branch it is mined, though
\* the replay sees one lane only, though the service may show other terms, and
\* though an event the lane listed may not be provable.  (The replay cannot
\* see the cap of other buyers: see CompleteWindowDecides.)
FillSafe ==
  call = NoCall => \A c \in Range(feed) : c.rec.t = "fclaim" =>
    LET id     == c.rec.offer
        lane   == laneEvents(id)
        others == countOtherHoldsAtGrant(feed, c, c.who)
    IN \A lost \in {None} \cup idOf(lane) :
         LET proven   == Without(lane, lost)
             seen == resolve(proven, tip).offers[id]
         IN /\ others.ok
            /\ holdIsMine(idOf(lane), proven, tip, id, c.id, c.who, others.count)
            /\ OthersDecided(id, c.who)
            => \A served \in Views(resolve(feed, tip).offers[id], c.who) :
                 boundTo(served, bindProvenOffer(eventOf(lane, id))) =>
                   \A pay \in 1 .. served.terms.want.amount + 1 :
                     LET outs == Rules(0)!requiredFillOutputs(served, pay)
                     IN paysExactly(seen, pay, outs)
                          => LandsAnyhow(c, outs, Rules(0)!previewFill(served, pay))

\* "Over a window that holds the offer's history it refuses the doomed/forged
\* cases" (verifyfill.ts:153): the complete history of the lane, the honest
\* offer, its whole price.
CompleteWindowDecides ==
  call = NoCall => \A c \in Range(feed) : c.rec.t = "fclaim" =>
    LET id     == c.rec.offer
        lane   == laneEvents(id)
        o      == resolve(feed, tip).offers[id]
        others == countOtherHoldsAtGrant(feed, c, c.who)
        whole  == o.terms.want.amount
        outs   == Rules(0)!requiredFillOutputs(o, whole)
    IN /\ others.ok
       /\ verifyFillSpv(idOf(lane), lane, tip, id, c.id, c.who, others.count, whole, outs)
       => LandsAnyhow(c, outs, Rules(0)!previewFill(o, whole))

\* From V29 a feed that repeats its events, in whatever order its pages came,
\* replays like the feed: no partial fill or claim is applied twice.
DuplicatesIgnored ==
  LET again == SelectSeq(feed, LAMBDA e : e.height >= V29_HEIGHT)
  IN call = NoCall => resolve(Reverse(again) \o feed, tip) = resolve(feed, tip)

-----------------------------------------------------------------------------
(* The selectors and the codec.                                            *)

\* An open offer of terms o1's kind, and the replay at height h that knows it.
Resting(E, anchor) ==
  [Rules(0)!NoOffer EXCEPT !.status = "open", !.seller = TREASURY_ADDR, !.height = anchor,
     !.terms.want = [asset |-> CSD, amount |-> 1], !.expiresEpoch = E]
Knowing(o, h) ==
  [Start EXCEPT !.height = h, !.offers = [i \in OfferIds |-> IF i = OfferOrder[1] THEN o ELSE @[i]]]

\* The client's selectors are the resolver's rules, seen from the other side:
\* the height an offer expires at is where the sweep takes it; a fill that is
\* not too late is minable through the margin; the hold a client asks for at
\* one tip is granted in the next block; and the window of a stored claim is
\* its own, of an fclaim never so short that the grant seems older than the
\* tip it was asked at.  A name fee paid at one tip is enough wherever the
\* record is mined within the margin, fee gates included.  An offer that passes
\* the client's admission outlives its own block, and from V21 lives as long as
\* the node mines its attests.
SelectorsAgree ==
  call.fn = "select" =>
    LET E == call.expires
        o == Resting(E, call.anchor)
        gone(h) == OfferOrder[1] \in Rules(Knowing(o, h))!StaleOffers
        proven  == [height |-> call.anchor, who |-> CHOOSE a \in Addrs \ {TREASURY_ADDR} : TRUE,
                    rec |-> [expires |-> E, terms |-> o.terms]]
    IN /\ ~provenOfferRefusal(proven) =>
            /\ ~gone(call.anchor)
            /\ call.anchor >= V21_HEIGHT =>
                 offerExpiryHeightOf(E, call.anchor) = (E + 1) * EPOCH_LEN
       /\ \A t \in call.anchor .. 3 * MaxHeight :
            LET ask == fclaimEpochFor(t, E)
            IN /\ (t >= offerExpiryHeightOf(E, call.anchor)) <=> gone(t)
               /\ offerFillTooLate(offerExpiryHeightOf(E, call.anchor), t)
                    \/ \A d \in 0 .. FILL_TIP_MARGIN : ~gone(t + d)
               /\ call.anchor >= V22_HEIGHT /\ ~gone(t + 1) =>
                    /\ \A who \in Buyers :
                         Rules(Knowing(o, t + 1))!fclaimGranted(OfferOrder[1], who, ask)
                    /\ ask < E => \A f \in FclaimIds :
                         (ask + 1) * EPOCH_LEN - claimWindowOf((ask + 1) * EPOCH_LEN, f) >= t
               /\ claimWindowOf(t + claimWindowAt(t), None) = claimWindowAt(t)
               /\ \A n \in Names, d \in 0 .. FEE_GATE_MARGIN_BLOCKS :
                    nameRegFee(n, buildFeeHeight(t)) >= nameRegFee(n, t + d)

\* bytes with one digit changed, dropped or added.
NearMisses(bytes) ==
  {[bytes EXCEPT ![i] = (@ + 1) % BYTE] : i \in DOMAIN bytes}
    \cup {RemoveAt(bytes, i) : i \in DOMAIN bytes}
    \cup {Append(bytes, d) : d \in 0 .. BYTE - 1}

Reads(r, fields) == r.ok /\ r.out = fields
Respells(r, bytes) == r.ok => T!concatBytes(r.out) = bytes
OneReading(bytes, tx) ==
  /\ T!encodable(tx) /\ Len(bytes) <= MAX_TX_BYTES => Reads(T!deserialize(bytes), T!txFields(tx))
  /\ \A b \in NearMisses(bytes) : Respells(T!deserialize(b), b)

OneHeader(bytes, h) ==
  /\ (\A f \in Range(T!headerFields(h)) : T!inRange(f))
       => Reads(T!deserializeHeader(bytes), T!headerFields(h))
  /\ \A b \in NearMisses(bytes) : Respells(T!deserializeHeader(b), b)

\* Bytes are read as one transaction, or one header, or refused: what was
\* encoded is read back field by field, and whatever near miss is accepted
\* encodes to itself.  A second spelling would give a body another txid than
\* its block's, and a header another hash.
TxOneReading ==
  /\ call.fn = "encode" => OneReading(T!serialize(call.tx), call.tx)
  /\ call.fn = "header" => OneHeader(T!serializeHeader(call.h), call.h)

\* A body proven under a block's root and attributed with the coin it spends
\* is a transaction of the block by the owner of that coin, whatever was
\* served in place of its signatures; an untouched body is attributed, and the
\* looser reading of a scanner names the same author.
ProvenAuthor ==
  call.fn = "attribute" =>
    LET txids  == [i \in DOMAIN call.block |-> T!txidOf(call.block[i])]
        branch == H!merkleBranch(txids, call.at)
        author == T!authorOf(call.body, CoinOwner[call.body.inputs[1].vout])
        proven == H!verifyMerkleProof(T!txidOf(call.body), call.at, branch, H!merkleRoot(txids))
    IN call.at < Len(call.block) =>
         /\ proven /\ author # NoAddr =>
              \E i \in DOMAIN call.block :
                /\ T!strippedTx(call.block[i]) = T!strippedTx(call.body)
                /\ T!recoverSigner(call.block[i].inputs[1].scriptSig,
                                   T!sighash(call.block[i])) = author
         /\ call.body = call.block[call.at + 1] =>
              proven /\ author # NoAddr
                /\ T!signerAddrFromScriptSig(call.body.inputs[1].scriptSig) = author

\* Compact bits keep the order of the targets they encode and lose only their
\* low digits; encoding again changes nothing; a harder target is worth no
\* less work.  The emission adds up to the block rewards, below its limit.
ChainNumbersExact ==
  call.fn = "compact" =>
    LET x     == call.x
        at(y) == H!bitsToTarget(H!targetToBits(y))
        lost  == BYTE ^ Max({0, H!minBytes(x) - 2})
        again(b) == H!targetToBits(H!bitsToTarget(b))
    IN /\ at(x) \in x - lost + 1 .. x
       /\ x > 0 => at(x - 1) <= at(x)
       /\ again(H!targetToBits(x)) = H!targetToBits(x)
       /\ H!bitsToTarget(x) # 0 => H!bitsToTarget(again(x)) = H!bitsToTarget(x)
       /\ x > 1 => H!workForBits(H!targetToBits(x - 1)) >= H!workForBits(H!targetToBits(x))
       /\ emittedSupplyBase(x) = MapThenSumSet(blockReward, 0 .. x)
       /\ emittedSupplyBase(x) <= maxSupplyBase

-----------------------------------------------------------------------------
(* Routing, signing in, records and quotes.                                *)

Config == [maxAhead |-> 0, maxEase |-> 1, blockSecs |-> TARGET_BLOCK_SECS, anchorFloor |-> 0]
bad(x) == x = NaN \/ x <= 0
Sane(o) ==
  [k \in DOMAIN o |-> IF k \in DOMAIN Config THEN IF bad(o[k]) THEN Config[k] ELSE o[k] ELSE o[k]]

\* A configured number that is none, zero or negative admits no contender the
\* documented default refuses; with a usable anchor nothing unreadable passes,
\* and the tip that wins did its share of the expected work.
RouteFailsClosed ==
  /\ call.fn = "route" =>
       LET o == call.o
           ease == Max({1, Sane(o).maxEase})
       IN ~R!contenderPlausible(o) \/
            /\ R!contenderPlausible(Sane(o))
            /\ o.enabled /\ o.localHeight # NaN /\ o.localHeight >= Sane(o).anchorFloor =>
                 /\ o.claimedHeight # NaN /\ o.contenderBits # NaN
                 /\ \/ o.expectedLocalBits = NaN
                    \/ ~H!withinPowLimit(o.expectedLocalBits)
                    \/ (H!workForBits(o.contenderBits) + 1) * ease
                         > H!workForBits(o.expectedLocalBits)
  /\ call.fn = "tip" =>
       (R!tipHeaderPowOk(call.h.header, call.h.claimed)
          => call.h.claimed <= H!POW_LIMIT_TARGET)

\* who is who a checker e takes for signed in by a message of fields f.
Admitted(who, f, e) ==
  LET iat == S!parseTime(f.issuedAt)
      exp == S!parseTime(f.expirationTime)
      nbf == S!parseTime(f.notBefore)
      ahead == S!futureSkewOf(e)
      numbers == NaN \notin {iat, exp, e.now, e.skew, ahead}
      meant == f.domain = e.domain /\ f.nonce = e.nonce /\ f.chainId = e.chainId
  IN /\ who # None =>
          /\ KeyOf[who] = e.key /\ meant /\ numbers
          /\ e.now - HOUR - e.skew <= iat /\ iat <= e.now + ahead
          /\ e.now < exp + e.skew
          /\ f.notBefore # None => nbf # NaN /\ nbf <= e.now + e.skew
     /\ /\ S!buildable(f) /\ numbers /\ f.notBefore = None /\ meant
        /\ iat \in e.now - HOUR .. e.now /\ exp > e.now
        /\ e.skew >= 0 /\ ahead >= 0 /\ KeyOf[AddressOf[f.account]] = e.key
        => who = AddressOf[f.account]

WhoSigns(message, e) ==
  S!verifySiwc(message, S!signDigest(S!siwcDigest(message), e.key), e.key, e)

\* A message reads back as what was signed.  Who is signed in holds the key of
\* the account, signed for this party and this nonce, at most an hour and the
\* skew ago and before the expiry, whatever clock the caller supplied; and an
\* honest message just signed is accepted.
SignInFresh ==
  /\ call.fn = "sign" /\ S!buildable(call.f)
       => S!parseSiwcMessage(S!buildSiwcMessage(call.f)) = S!withStatement(call.f)
  /\ call.fn = "verify" =>
       Admitted(WhoSigns(S!buildSiwcMessage(call.f), call.e), call.f, call.e)

\* The same reader in a language that sorts keys by their UTF-8 bytes, spells
\* large numbers in digits and cannot encode a lone surrogate.
parsePorted(r) ==
  /\ U!sortedBy(Utf8Rank, r) /\ U!textsOf(r) \cap (HugeAsJs \cup LoneSurrogate) = {}
  /\ U!needs(r, "v", {"1"}) /\ U!has(r, "t") /\ U!recordOk(r)

\* Two implementations read every uri alike: none applies a record the other
\* ignores.
ReadsAlike == call.fn = "parse" => (U!parseRecord(call.u) <=> parsePorted(call.u))

\* What the site sizes the maker accepts; two orders cost no less than the one
\* that spans them; the tokens for a budget are the most whose answer is
\* within it; and the total quoted for an answer is what its fill pays out.
QuotesFair ==
  /\ call.fn = "size" =>
       LET x   == call.x
           tok == Q!sizeBid(x.csd, x.unit, x.levels, 0, None)
           o   == [Resting(0, V16_HEIGHT) EXCEPT !.terms.taker = TREASURY_ADDR,
                     !.terms.bid = OfferOrder[1], !.terms.want.amount = x.csd,
                     !.terms.give = [asset |-> CHOOSE t \in Tickers : TRUE, amount |-> 1],
                     !.seller = CHOOSE a \in Addrs \ {TREASURY_ADDR} : TRUE]
           outs == Rules(0)!requiredFillOutputs(o, x.csd)
           fill == Q!tradeNotional(x.csd, outs[o.seller], makerRebate(x.csd), TRUE)
       IN /\ tok # None =>
               Q!acceptBid(x.csd, tok, x.levels, x.levels[1].pricePerUnit, 0, None, 2, x.unit) # None
          /\ fill = [notional |-> x.csd, rebate |-> makerRebate(x.csd), change |-> 0]
          /\ MapThenSumSet(LAMBDA a : outs[a], Addrs) + 1
               = Q!rfqFillAllIn(x.csd, tradeFee(o, x.csd), makerRebate(x.csd), 1)
  /\ call.fn = "price" =>
       LET p == call.x
           c == Q!curveOf(p, p.epochs)
           price(n) == Q!answerPrice(c, p, p.q, n)
           room == p.room - p.q
       IN /\ \A n \in 1 .. room : \A m \in 1 .. room - n :
               price(n) + Q!answerPrice(c, p, p.q + n, m) >= price(n + m)
          /\ \A budget \in 0 .. price(room) + 1 :
               LET n == Q!sunriseTokensFor(c, p, p.q, budget, room)
               IN (n = 0 \/ price(n) <= budget) /\ (n = room \/ price(n + 1) > budget)
=============================================================================
