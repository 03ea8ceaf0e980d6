----------------------------- MODULE LaneReplay -----------------------------
(***************************************************************************)
(* resolve(events, tipHeight) as the function it is, over the events that  *)
(* touch open lanes: offers, fclaims, fills and cancels.  Resolver is the  *)
(* same replay as a state machine; here a feed is a value, so that the     *)
(* replays of two feeds can be compared: a complete one with the part of   *)
(* it a client proved, or one with the same events fed twice.  Every rule  *)
(* is the resolver's own, asked of the replay state s (Rules(s)).          *)
(*                                                                         *)
(* An event is [kind, id, height, pos, who, rec], rec what it carries.     *)
(* Every seller is taken to own what it offers: the balances are left out. *)
(***************************************************************************)
EXTENDS CairnXTypes, SequencesExt

CONSTANTS OfferTerms, Expiries, PaidTo, FINALIZE_TIP_MARGIN,
          MaxHeight, MaxPos, MaxGap, Payments

Rules(s) == INSTANCE OpenLaneRules WITH
  height <- s.height, offers <- s.offers, fclaims <- s.fclaims,
  pendingCancels <- s.pending, phase <- "propose", pos <- 0, bids <- <<>>,
  tokens <- <<>>, avail <- <<>>, locked <- <<>>, feesPaid <- 0,
  offerLock <- <<>>, commits <- <<>>, names <- <<>>, recaptures <- <<>>

Start ==
  [height |-> 0, pending |-> {},
   offers  |-> [i \in OfferIds |-> Rules(0)!NoOffer],
   fclaims |-> [f \in FclaimIds |-> Rules(0)!NoFclaim]]

-----------------------------------------------------------------------------
(* The order and the duplicates of a feed.                                 *)

KindRank(e) == IF e.kind = "attest" THEN 1 ELSE 0

\* Two events of a block differ in kind or position, so the order of txids
\* never decides.
Before(d, e) ==
  \/ d.height < e.height
  \/ d.height = e.height /\ KindRank(d) < KindRank(e)
  \/ d.height = e.height /\ KindRank(d) = KindRank(e) /\ d.pos < e.pos

ordered(events) == SortSeq(events, Before)

\* Mutant of applied: nothing is dropped.
appliedTwice(events) == ordered(events)

\* From V29 the second event of one txid is dropped.
applied(events) ==
  LET keep(seq, e) ==
        IF e.height >= V29_HEIGHT
           /\ \E d \in Range(seq) : d.height >= V29_HEIGHT /\ d.id = e.id
          THEN seq ELSE Append(seq, e)
  IN FoldLeft(keep, <<>>, ordered(events))

-----------------------------------------------------------------------------
(* The replay.                                                             *)

withStatus(s, ids, status) ==
  FoldSet(LAMBDA i, t : [t EXCEPT !.offers[i].status = status], s, ids)

\* The deferred cancels run when their block is over.
flushed(s) ==
  LET cancelled == {i \in OfferIds :
        /\ s.offers[i].status = "open"
        /\ \E c \in s.pending : c.offer = i /\ ~Rules(s)!cancelFrozen(c)}
  IN [withStatus(s, cancelled, "cancelled") EXCEPT !.pending = {}]

swept(s) == withStatus(s, Rules(s)!StaleOffers, "expired")

atBlock(s, h) ==
  swept([(IF h # s.height THEN flushed(s) ELSE s) EXCEPT !.height = h])

applyOffer(s, e) ==
  LET r == e.rec
  IN IF s.offers[e.id].status = "none" /\ Rules(s)!offerEnvelopeOk(r.terms, e.who, r.expires)
       THEN [s EXCEPT !.offers[e.id] =
               [@ EXCEPT !.status = "open", !.seller = e.who, !.terms = r.terms,
                         !.expiresEpoch = r.expires, !.height = e.height]]
       ELSE s

applyFclaim(s, e) ==
  LET r  == e.rec
      ok == Rules(s)!fclaimGranted(r.offer, e.who, r.expires)
      c  == [outcome |-> IF ok THEN "granted" ELSE "denied", offer |-> r.offer,
             proposer |-> e.who, expiresEpoch |-> r.expires, height |-> e.height]
      o  == [s.offers[r.offer] EXCEPT !.claimedBy = e.who, !.claimTxid = e.id,
               !.claimUntilHeight = (r.expires + 1) * EPOCH_LEN]
  IN IF e.height < V28_HEIGHT \/ s.fclaims[e.id].outcome # "none" THEN s
     ELSE [s EXCEPT !.fclaims[e.id] = c,
                    !.offers[r.offer] = IF ok THEN o ELSE @]

cancels(s, e, ids) ==
  [s EXCEPT !.pending = @ \cup {[offer |-> i, at |-> e.height] : i \in ids}]

applyCancel(s, e) ==
  LET o == s.offers[e.rec.target]
  IN IF /\ o.status = "open" /\ o.seller = e.who
        /\ ~(o.terms.taker # None /\ o.height >= V28_HEIGHT)
       THEN cancels(s, e, {e.rec.target}) ELSE s

applyFill(s, e) ==
  LET hit == {i \in Rules(s)!routedOffers(e.rec.target) :
                /\ Rules(s)!OpenToFiller(i, e.who) /\ Rules(s)!openFillAdmitted(i, e.who, e.rec.target)
                /\ ~Rules(s)!isTokenWant(s.offers[i].terms.want)}
      sold(o) ==
        LET want == o.terms.want.amount
            x    == Smaller(e.rec.pays[Rules(s)!paytoOf(o)], want - o.paid)
            upto == Rules(s)!deliveredAfter(o, o.paid + x)
        IN IF o.terms.min = 0
             THEN IF \A a \in Addrs : e.rec.pays[a] >= Rules(s)!fillNeeds(o, a)
                    THEN [o EXCEPT !.status = "filled", !.buyer = e.who] ELSE o
           ELSE IF /\ e.rec.pays[Rules(s)!paytoOf(o)] >= Smaller(want - o.paid, o.terms.min)
                   /\ e.rec.pays[TREASURY_ADDR] >= tradeFee(o, x)
                   /\ upto > o.delivered
             THEN [o EXCEPT !.paid = o.paid + x, !.delivered = upto,
                            !.status = IF o.paid + x = want THEN "filled" ELSE "open",
                            !.buyer = IF o.paid + x = want THEN e.who ELSE None]
           ELSE o
  IN FoldSet(LAMBDA i, t : [t EXCEPT !.offers[i] = sold(@)], s, hit)

handled(s, e) ==
  CASE e.rec.t = "offer"  -> applyOffer(s, e)
    [] e.rec.t = "fclaim" -> applyFclaim(s, e)
    [] e.rec.t = "cancel" -> applyCancel(s, e)
    [] e.rec.t = "fill"   -> applyFill(s, e)

apply(s, e) == handled(atBlock(s, e.height), e)

\* The state before the closing sweep, and with it: an offer that no fill of
\* the next block could reach has expired.
replayed(events) == FoldLeft(apply, Start, applied(events))

resolve(events, tip) ==
  [swept([flushed(replayed(events)) EXCEPT !.height = tip + 1]) EXCEPT !.height = tip]
=============================================================================
