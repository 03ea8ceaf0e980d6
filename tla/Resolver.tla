------------------------------ MODULE Resolver ------------------------------
(***************************************************************************)
(* The CairnX resolver, resolve(events, tipHeight) of resolve.ts: every    *)
(* event the chain may carry, in consensus order, through its handler.     *)
(* The state after NextBlock and the sweeps is the state resolve() returns *)
(* for a tip one block lower.                                              *)
(***************************************************************************)
EXTENDS TokenRecords, MarketRecords, NameRecords, AttestEvents

ProposeEvent ==
  \E who \in Addrs, p \in 1 .. MaxPos :
     /\ Event("propose", p)
     /\ TokenRecord(who) \/ MarketRecord(who) \/ NameRecord(who)

AttestStep ==
  \E who \in Addrs, p \in 1 .. MaxPos :
     /\ Event("attest", p)
     /\ AttestEvent(who)

Next == ReplayLoop \/ ProposeEvent \/ AttestStep

Spec == Init /\ [][Next]_vars

-----------------------------------------------------------------------------
(* Types.                                                                  *)

OrNone(S) == S \cup {None}

Terms == [give : [asset : OrNone(Tickers \cup Names), amount : Nat],
          want : [asset : OrNone(Tickers \cup {CSD}), amount : Nat],
          payto : OrNone(Addrs), taker : OrNone(Addrs), min : Nat,
          bid : OrNone(BidIds)]

TokenRec == [deployer : OrNone(Addrs), supply : Nat, mintLimit : Nat,
             minted : Nat, tmeta : OrNone(Contents)]

OfferRec == [status : {"none", "open", "filled", "cancelled", "expired"},
             seller : OrNone(Addrs), terms : Terms, expiresEpoch : Nat,
             height : Nat, paid : Nat, delivered : Nat,
             claimedBy : OrNone(Addrs), claimUntilHeight : Nat,
             claimTxid : OrNone(FclaimIds), buyer : OrNone(Addrs)]

BidRec == [status : {"none", "open", "done", "cancelled", "expired"},
           bidder : OrNone(Addrs), expiresEpoch : Nat, height : Nat,
           offers : SUBSET OfferIds]

FclaimRec == [outcome : {"none", "granted", "denied"}, offer : OrNone(OfferIds),
              proposer : OrNone(Addrs), expiresEpoch : Nat, height : Nat]

NameRec == [owner : OrNone(Addrs), effHeight : Nat, pos : Nat, id : Nat,
            locked : BOOLEAN, viaFill : BOOLEAN, pending : BOOLEAN,
            finalizeBy : Nat, paidThrough : Nat,
            addr : OrNone(NameTargets), profile : OrNone(Contents)]

RecaptureRec == [owner : OrNone(Addrs), effHeight : Nat, pos : Nat, id : Nat,
                 finalizeBy : Nat]

\* Every map holds entries of its source type.  Balances are integers here: that
\* none is negative is part of LockIntegrity.
TypeOK ==
  /\ height \in Nat /\ phase \in {"propose", "attest", "flush"} /\ pos \in Nat
  /\ tokens \in [Tickers -> TokenRec]
  /\ avail \in [Tickers -> [Addrs -> Int]]
  /\ locked \in [Tickers -> [Addrs -> Int]]
  /\ feesPaid \in Nat
  /\ offers \in [OfferIds -> OfferRec]
  /\ offerLock \in [OfferIds -> Int]
  /\ bids \in [BidIds -> BidRec]
  /\ fclaims \in [FclaimIds -> FclaimRec]
  /\ pendingCancels \in SUBSET [offer : OfferIds, at : Nat]
  /\ commits \in [CommitKeys -> Nat]
  /\ names \in [Names -> NameRec]
  /\ recaptures \in [Names -> RecaptureRec]
=============================================================================
