----------------------------- MODULE ClientLane -----------------------------
(***************************************************************************)
(* A chain that carries the events of two open lanes, block by block, and  *)
(* a buyer who considers, at every tip, to sign the fill of an fclaim.     *)
(***************************************************************************)
EXTENDS FillSpv

CONSTANTS LaneOffers,   \* offer id -> its terms, its seller and its expiry
          BaseHeight,   \* the block that publishes them
          AskAhead,     \* how many epochs ahead an fclaim asks to hold
          Buyers, CancelIds, FillIds

ASSUME LaneAssumption == OfferIds # {} /\ Buyers \subseteq Addrs

VARIABLES feed,   \* the events mined so far, in consensus order
          tip

laneVars == <<feed, tip>>

\* Some order of the offers: the positions 1, 2 ... in the base block.
OfferOrder == CHOOSE s \in [1 .. Cardinality(OfferIds) -> OfferIds] : Range(s) = OfferIds

LaneInit ==
  /\ tip = BaseHeight
  /\ feed = [i \in 1 .. Cardinality(OfferIds) |->
       LET id == OfferOrder[i]
       IN [kind |-> "propose", id |-> id, height |-> BaseHeight, pos |-> i,
           who |-> LaneOffers[id].seller,
           rec |-> [t |-> "offer", terms |-> LaneOffers[id].terms,
                    expires |-> LaneOffers[id].expires]]]

\* The next event of the block; proposals come before attests.
Mine(kind, id, who, rec) ==
  LET last == feed[Len(feed)]
      e(p) == [kind |-> kind, id |-> id, height |-> tip, pos |-> p, who |-> who, rec |-> rec]
  IN /\ id \notin idOf(feed)
     /\ kind = "propose" => last.height < tip \/ last.kind = "propose"
     /\ feed' = Append(feed, e(IF last.height = tip THEN last.pos + 1 ELSE 1))
     /\ UNCHANGED tip

\* A denied fclaim is mined like a granted one.
MineFclaim(who) ==
  \E f \in FclaimIds, i \in OfferIds :
    Mine("propose", f, who, [t |-> "fclaim", offer |-> i,
                             expires |-> epochOf(tip) + AskAhead])

MineFill(who) ==
  \E x \in FillIds, target \in FclaimIds, pays \in PaidTo :
    /\ target \in idOf(feed)
    /\ Mine("attest", x, who, [t |-> "fill", target |-> target, pays |-> pays])

MineCancel ==
  \E x \in CancelIds, i \in OfferIds :
    Mine("attest", x, LaneOffers[i].seller, [t |-> "cancel", target |-> i])

NextTip ==
  /\ tip < MaxHeight
  /\ tip' = tip + 1
  /\ UNCHANGED feed

LaneNext ==
  \/ \E who \in Buyers : MineFclaim(who)
  \/ \E who \in Buyers : MineFill(who)
  \/ MineCancel
  \/ NextTip
=============================================================================
