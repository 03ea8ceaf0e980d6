------------------------------- MODULE FillSpv -------------------------------
(***************************************************************************)
(* How a client convinces itself, without trusting a resolver, that the    *)
(* payment it is about to sign will be delivered (verifyfill.ts): it       *)
(* proves the events of one lane, replays them, and asks how deep they     *)
(* are buried (client.ts), what an offer says (provenOfferTerms), and how  *)
(* many other holds it had itself (holdcount.ts).                          *)
(***************************************************************************)
EXTENDS LaneReplay, ClientSelectors, ChainParams

CONSTANTS CLAIM_MIN_DEPTH,
          CLAIM_DEPTH_SPARE,   \* blocks of the window kept for the fill (5)
          CLAIM_ODDS           \* (1 - q) / q of the miner sized against (4)

idOf(events) == {events[i].id : i \in DOMAIN events}
eventOf(events, id) == events[CHOOSE i \in DOMAIN events : events[i].id = id]

-----------------------------------------------------------------------------
(* client.ts                                                               *)

\* A miner that reverses D blocks with odds ODDS^-D gains less than it forgoes.
requiredClaimDepth(value, h) ==
  LET reward == IF blockReward(h) = 0 THEN INITIAL_REWARD ELSE blockReward(h)
      most   == claimWindowAt(h) - CLAIM_DEPTH_SPARE
      enough == {D \in CLAIM_MIN_DEPTH .. most : value <= D * reward * CLAIM_ODDS ^ D}
  IN IF enough # {} THEN [depth |-> Min(enough), capped |-> FALSE]
                    ELSE [depth |-> most, capped |-> TRUE]

-----------------------------------------------------------------------------
(* The terms of an offer, served and proven.                               *)

\* The fields a payment is sized from.  The fee rate is the one of the height.
provenOfferTerms(e) ==
  [height |-> e.height, give |-> e.rec.terms.give, want |-> e.rec.terms.want,
   taker |-> e.rec.terms.taker, bid |-> e.rec.terms.bid, min |-> e.rec.terms.min]

\* Whether a served offer differs from the proven one in such a field.
bindOfferTerms(o, t) ==
  \/ o.height # t.height \/ feeBpsAt(o.height) # feeBpsAt(t.height)
  \/ o.terms.want # t.want \/ o.terms.give # t.give
  \/ o.terms.taker # t.taker \/ o.terms.bid # t.bid \/ o.terms.min # t.min

\* Whom a fill pays, from the proven record and its author.
bindProvenOffer(e) ==
  [seller |-> e.who, terms |-> provenOfferTerms(e),
   payto |-> IF e.rec.terms.payto = None THEN e.who ELSE e.rec.terms.payto]

\* admission.ts: what the resolver refuses of an offer without chain state.
provenOfferRefusal(e) ==
  \/ e.height < ACTIVATION_HEIGHT
  \/ ~Rules([Start EXCEPT !.height = e.height])!offerEnvelopeOk(e.rec.terms, e.who,
                                                               e.rec.expires)

-----------------------------------------------------------------------------
(* holdcount.ts and fillclosed.ts                                          *)

\* No hold of the claims below V28 lives on from this height.
LEGACY_HOLD_SUNSET_HEIGHT ==
  LET last == V28_HEIGHT - 1 + claimWindowAt(V28_HEIGHT - 1)
  IN last + claimGraceOf(last, None)

\* The client's own fill, of the whole price, closed the offer of its fclaim c
\* in a block between the two and the grant.
myProvenFillClosedOffer(events, c, me, grant) ==
  LET e == eventOf(events, c.rec.offer)
      fresh == [Rules(0)!NoOffer EXCEPT !.status = "open", !.seller = e.who,
                  !.terms = e.rec.terms, !.height = e.height]
      whole == Rules(0)!requiredFillOutputs(fresh, e.rec.terms.want.amount)
  IN /\ grant >= V29_HEIGHT
     /\ ~Rules(0)!isTokenWant(e.rec.terms.want)
     /\ \E d \in Range(events) :
          /\ d.rec.t = "fill" /\ d.who = me /\ d.rec.target = c.id
          /\ c.height < d.height /\ d.height < grant
          /\ \A a \in Addrs : d.rec.pays[a] >= whole[a]

\* The earlier fclaims of me, denied ones included, that may still hold.
otherHolds(events, target, me) ==
  {c \in Range(events) :
     /\ c.rec.t = "fclaim" /\ c.who = me /\ c.id # target.id /\ Before(c, target)
     /\ ~myProvenFillClosedOffer(events, c, me, target.height)
     /\ Rules(0)!fclaimHoldEnd(c.rec.expires) >= target.height}

\* The other offers me has such an fclaim on; below the sunset it is not counted.
countOtherHoldsAtGrant(events, target, me) ==
  [ok    |-> target.height >= LEGACY_HOLD_SUNSET_HEIGHT,
   count |-> Cardinality({c.rec.offer : c \in otherHolds(events, target, me)}
                           \ {target.rec.offer})]

-----------------------------------------------------------------------------
(* The verdict.                                                            *)

\* The grant replay: fclaim f of offer id, in the state the proven events
\* replay to at tip, is granted, routed to the offer and holds it for me.
replayLiveHold(s, id, f, me, tip) ==
  LET o == s.offers[id]
  IN /\ o.claimTxid = f /\ s.fclaims[f].outcome = "granted"
     /\ o.status = "open" /\ Rules(s)!hasLiveClaim(o, me, tip)

\* What a fill of offer id by attest may name: the offer or one of its fclaims.
laneTargets(events, id) ==
  {id} \cup {e.id : e \in {d \in Range(events) : d.rec.t = "fclaim" /\ d.rec.offer = id}}

\* Every listed event came back proven, under its own id.
provenEnough(listed, proven, id, f) == {id, f} \cup listed \subseteq idOf(proven)

\* Mutant of buriedEnough: the fills before are not asked for their depth.
buriedEnoughTwo(proven, id, f, tip) ==
  LET o == eventOf(proven, id)
  IN \A e \in Range(proven) : e.id \in {id, f} =>
       tip - e.height + 1 >= requiredClaimDepth(o.rec.terms.want.amount, o.height).depth

\* The offer, the fclaim and every fill of the lane are deep enough.
buriedEnough(proven, id, f, tip) ==
  LET o    == eventOf(proven, id)
      need == requiredClaimDepth(o.rec.terms.want.amount, o.height).depth
      basis(e) == e.rec.t = "fill" /\ e.rec.target \in laneTargets(proven, id)
  IN \A e \in Range(proven) :
       e.id \in {id, f} \/ basis(e) => tip - e.height + 1 >= need

\* The lane: what is proven and buried, and the hold it replays to.  others is
\* the caller's count of its other holds when f was granted.
holdIsMine(listed, proven, tip, id, f, me, others) ==
  LET offerEv  == eventOf(proven, id)
      fclaimEv == eventOf(proven, f)
  IN /\ provenEnough(listed, proven, id, f)
     /\ offerEv.rec.t = "offer" /\ fclaimEv.rec.t = "fclaim"
     /\ fclaimEv.height >= V28_HEIGHT /\ fclaimEv.rec.offer = id
     /\ ~Rules(0)!isTokenWant(offerEv.rec.terms.want)
     /\ Rules(0)!fclaimHoldEnd(fclaimEv.rec.expires) >= tip + FILL_TIP_MARGIN
     /\ others < MAX_ACTIVE_CLAIMS
     /\ buriedEnough(proven, id, f, tip)
     /\ replayLiveHold(resolve(proven, tip), id, f, me, tip)

NoSums == [a \in {} |-> 0]

\* The payment: sums is what the caller is about to build, per address, or NoSums.
paysExactly(o, pay, sums) ==
  /\ Rules(0)!previewFill(o, pay).got >= 1
  /\ sums # NoSums => sums = Rules(0)!requiredFillOutputs(o, pay)

verifyFillSpv(listed, proven, tip, id, f, me, others, pay, sums) ==
  /\ holdIsMine(listed, proven, tip, id, f, me, others)
  /\ paysExactly(resolve(proven, tip).offers[id], pay, sums)
=============================================================================
