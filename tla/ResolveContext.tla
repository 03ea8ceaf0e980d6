--------------------------- MODULE ResolveContext ---------------------------
(***************************************************************************)
(* The replay state one resolve() call threads through its handlers        *)
(* (createContext in resolve/context.ts) and the replay loop around them   *)
(* (resolve.ts).  A behaviour is a replay: events arrive in consensus      *)
(* order, so the state carries the block being applied (height), whether   *)
(* its proposals or already its attests are being applied (phase) and the  *)
(* position of the last event (pos).                                       *)
(*                                                                         *)
(* The loop flushes the deferred cancels and sweeps what has expired       *)
(* before the first event of a new block.  Flush and sweep are loops over  *)
(* independent entries; each iteration is a step here, and no event is     *)
(* applied until both loops are done (Settled).                            *)
(*                                                                         *)
(* A rejected record or attest changes nothing but the diagnostic event    *)
(* log, which the model leaves out: it is a stuttering step.               *)
(***************************************************************************)
EXTENDS CairnXTypes

CONSTANTS MaxHeight,   \* the replay stops here
          MaxPos,      \* events per block and kind
          MaxGap,      \* how far apart two positions may be
          Payments     \* sums a Propose may pay to the treasury

ASSUME BoundsAssumption ==
  /\ MaxHeight \in Nat /\ MaxPos \in Nat /\ MaxGap \in Nat
  /\ Payments \subseteq Nat

VARIABLES height, phase, pos,
          tokens, avail, locked, feesPaid,
          offers, offerLock, bids, fclaims, pendingCancels,
          commits, names, recaptures

chainVars  == <<height, phase, pos>>
tokenVars  == <<tokens, avail, locked>>
marketVars == <<offers, offerLock, bids, fclaims, pendingCancels>>
nameVars   == <<commits, names, recaptures>>
vars       == <<chainVars, tokenVars, feesPaid, marketVars, nameVars>>

-----------------------------------------------------------------------------
(* What the maps hold before an entry exists.                              *)

NoToken == [deployer |-> None, supply |-> 0, mintLimit |-> 0, minted |-> 0,
            tmeta |-> None]

NoTerms == [give |-> [asset |-> None, amount |-> 0],
            want |-> [asset |-> None, amount |-> 0],
            payto |-> None, taker |-> None, min |-> 0, bid |-> None]

NoOffer == [status |-> "none", seller |-> None, terms |-> NoTerms,
            expiresEpoch |-> 0, height |-> 0, paid |-> 0, delivered |-> 0,
            claimedBy |-> None, claimUntilHeight |-> 0, claimTxid |-> None,
            buyer |-> None]

NoBid == [status |-> "none", bidder |-> None, expiresEpoch |-> 0,
          height |-> 0, offers |-> {}]

NoFclaim == [outcome |-> "none", offer |-> None, proposer |-> None,
             expiresEpoch |-> 0, height |-> 0]

NoName == [owner |-> None, effHeight |-> 0, pos |-> 0, id |-> 0,
           locked |-> FALSE, viaFill |-> FALSE, pending |-> FALSE,
           finalizeBy |-> 0, paidThrough |-> 0, addr |-> None,
           profile |-> None]

NoRecapture == [owner |-> None, effHeight |-> 0, pos |-> 0, id |-> 0,
                finalizeBy |-> 0]

-----------------------------------------------------------------------------
(* Reading an offer.                                                       *)

isNameGive(give)  == give.asset \in Names
isTokenWant(want) == want.asset # CSD
paytoOf(o) == IF o.terms.payto = None THEN o.seller ELSE o.terms.payto

Open(id) == offers[id].status = "open"
nameExists(n) == names[n].owner # None

\* The lease of a name.  One taken before V15 was never paid for a term: it is
\* created with the term the code reads in its place (V15_EPOCH + the term).
paidThrough(n) == n.paidThrough
lapsed(n, ep)  == ep > paidThrough(n) + NAME_GRACE_EPOCHS

\* The open offers that give name n.
openNameOffers(n) == {i \in OfferIds : Open(i) /\ offers[i].terms.give.asset = n}

\* Mutant of claimAvailable: a live hold stops protecting its holder at the end
\* of the window, before the grace.
claimAvailableInGrace(o, who) ==
  /\ o.claimedBy = None \/ height >= o.claimUntilHeight
  /\ o.claimedBy = who =>
       height >= o.claimUntilHeight + claimGrace(o) + CLAIM_COOLDOWN_BLOCKS

\* An address may claim an offer nobody holds, but not one whose hold it has
\* just let lapse.
claimAvailable(o, who) ==
  /\ ~claimHeld(o, height)
  /\ o.claimedBy = who =>
       height >= o.claimUntilHeight + claimGrace(o) + CLAIM_COOLDOWN_BLOCKS

\* One counter for both claim paths; from V29 only open holds count.
liveHoldCount(who) ==
  Cardinality({i \in OfferIds :
                 /\ offers[i].claimedBy = who
                 /\ claimHeld(offers[i], height)
                 /\ height < V29_HEIGHT \/ Open(i)})

-----------------------------------------------------------------------------
(* Mutating helpers: each fixes the next value of the variables it names.  *)

\* m, the avail or the locked column of the balances, with x more for a.
addBal(m, t, a, x) == [m EXCEPT ![t][a] = @ + x]

\* Mutant of releaseGive: a partly filled offer returns its whole give.
releaseGiveInFull(id) ==
  LET o == offers[id]
      g == o.terms.give
  IN IF isNameGive(g)
       THEN /\ names' = [names EXCEPT ![g.asset].locked = FALSE]
            /\ UNCHANGED <<avail, locked>>
       ELSE /\ locked' = addBal(locked, g.asset, o.seller, -g.amount)
            /\ avail' = addBal(avail, g.asset, o.seller, g.amount)
            /\ UNCHANGED names

\* avail, locked, names: hand the asset of offer id back to its seller.
releaseGive(id) ==
  LET o == offers[id]
      g == o.terms.give
  IN IF isNameGive(g)
       THEN /\ names' = [names EXCEPT ![g.asset].locked = FALSE]
            /\ UNCHANGED <<avail, locked>>
       ELSE /\ locked' = addBal(locked, g.asset, o.seller, -offerLock[id])
            /\ avail' = addBal(avail, g.asset, o.seller, offerLock[id])
            /\ UNCHANGED names

\* offers
setOfferStatus(id, st) == offers' = [offers EXCEPT ![id].status = st]

\* bids: an offer that answers a bid, filled by the bidder, satisfies it.
markBidDone(o, buyer) ==
  bids' = [b \in BidIds |->
             IF b = o.terms.bid /\ bids[b].status = "open" /\ bids[b].bidder = buyer
               THEN [bids[b] EXCEPT !.status = "done"] ELSE bids[b]]

\* offers: a displacement cancels the wrongful holder's listings of n, except
\* one frozen under a live fclaim hold.  The name's lock needs no release:
\* every caller replaces the name record with an unlocked one.
voidOpenNameOffers(n) ==
  offers' = [i \in OfferIds |->
               IF /\ i \in openNameOffers(n)
                  /\ ~(height >= V28_HEIGHT /\ fclaimHeld(offers[i], height))
                 THEN [offers[i] EXCEPT !.status = "cancelled"] ELSE offers[i]]

-----------------------------------------------------------------------------
(* The replay loop.                                                        *)

Stale(e) == e.status = "open" /\ epochOf(height) > effExpiry(e, height)
StaleUnclaimed    == {i \in OfferIds : Stale(offers[i]) /\ offers[i].claimedBy = None}
StaleOffers       == {i \in OfferIds : Stale(offers[i])}
StaleBids         == {b \in BidIds : Stale(bids[b])}
StaleReservations == {n \in Names : names[n].pending /\ height > names[n].finalizeBy}
StaleRecaptures   == {n \in Names : /\ recaptures[n].owner # None
                                    /\ height > recaptures[n].finalizeBy}

\* Mutant of CancelDue: the block of the gate still has the old rule.
CancelDueAtGate(c) == c.at <= V14_HEIGHT

\* Below V14 a cancel is immediate: its entry is due within its own block.
CancelDue(c) == c.at < V14_HEIGHT

Settled ==
  /\ StaleOffers = {} /\ StaleBids = {}
  /\ StaleReservations = {} /\ StaleRecaptures = {}
  /\ \A c \in pendingCancels : ~CancelDue(c)

\* The next event of the block, a "propose" or an "attest", is at position p.
Event(kind, p) ==
  /\ Settled
  /\ phase = "propose" \/ phase = kind
  /\ LET last == IF phase = kind THEN pos ELSE 0
     IN p \in last + 1 .. Smaller(last + MaxGap, MaxPos)
  /\ pos' = p /\ phase' = kind
  /\ UNCHANGED height

\* Mutant of cancelFrozen: a legacy claim freezes the offer too.
cancelFrozenByClaim(c) == claimHeld(offers[c.offer], c.at)

\* A hold that is live at the cancel's own block freezes the offer.
cancelFrozen(c) == c.at >= V28_HEIGHT /\ fclaimHeld(offers[c.offer], c.at)

\* One deferred cancel; a fill of its own block has already won.
FlushCancel(c) ==
  /\ c \in pendingCancels
  /\ pendingCancels' = pendingCancels \ {c}
  /\ IF CancelDue(c) THEN UNCHANGED phase ELSE phase' = "flush"
  /\ IF cancelFrozen(c) \/ ~Open(c.offer)
       THEN UNCHANGED <<offers, avail, locked, names>>
       ELSE /\ releaseGive(c.offer)
            /\ setOfferStatus(c.offer, "cancelled")
  /\ UNCHANGED <<height, pos, tokens, feesPaid, offerLock, bids, fclaims,
                 commits, recaptures>>

\* The first event of a later block.  Heights with no event are visited too,
\* which changes nothing: what is stale at a height is stale at the next one.
NextBlock ==
  /\ Settled /\ pendingCancels = {}
  /\ height < MaxHeight
  /\ height' = height + 1 /\ phase' = "propose" /\ pos' = 0
  /\ UNCHANGED <<tokenVars, feesPaid, marketVars, nameVars>>

\* sweepExpired, one entry of one of its four loops.
ExpireOffer(id) ==
  /\ id \in StaleOffers
  /\ releaseGive(id)
  /\ setOfferStatus(id, "expired")
  /\ UNCHANGED <<chainVars, tokens, feesPaid, offerLock, bids, fclaims,
                 pendingCancels, commits, recaptures>>

ExpireBid(b) ==
  /\ b \in StaleBids
  /\ bids' = [bids EXCEPT ![b].status = "expired"]
  /\ UNCHANGED <<chainVars, tokenVars, feesPaid, offers, offerLock, fclaims,
                 pendingCancels, nameVars>>

DropReservation(n) ==
  /\ n \in StaleReservations
  /\ names' = [names EXCEPT ![n] = NoName]
  /\ UNCHANGED <<chainVars, tokenVars, feesPaid, marketVars, commits, recaptures>>

DropRecapture(n) ==
  /\ n \in StaleRecaptures
  /\ recaptures' = [recaptures EXCEPT ![n] = NoRecapture]
  /\ UNCHANGED <<chainVars, tokenVars, feesPaid, marketVars, commits, names>>

ReplayLoop ==
  \/ \E c \in pendingCancels : FlushCancel(c)
  \/ NextBlock
  \/ \E id \in OfferIds : ExpireOffer(id)
  \/ \E b \in BidIds : ExpireBid(b)
  \/ \E n \in Names : DropReservation(n)
  \/ \E n \in Names : DropRecapture(n)

-----------------------------------------------------------------------------
CommitKeys == Names \X Addrs \X Salts

Init ==
  /\ height = ACTIVATION_HEIGHT /\ phase = "propose" /\ pos = 0
  /\ tokens = [t \in Tickers |-> NoToken]
  /\ avail = [t \in Tickers |-> [a \in Addrs |-> 0]]
  /\ locked = [t \in Tickers |-> [a \in Addrs |-> 0]]
  /\ feesPaid = 0
  /\ offers = [i \in OfferIds |-> NoOffer]
  /\ offerLock = [i \in OfferIds |-> 0]
  /\ bids = [b \in BidIds |-> NoBid]
  /\ fclaims = [f \in FclaimIds |-> NoFclaim]
  /\ pendingCancels = {}
  /\ commits = [k \in CommitKeys |-> 0]
  /\ names = [n \in Names |-> NoName]
  /\ recaptures = [n \in Names |-> NoRecapture]
=============================================================================
