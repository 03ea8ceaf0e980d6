----------------------------- MODULE MCResolver -----------------------------
(***************************************************************************)
(* Values for the constants of the resolver, for the .cfg files, and the   *)
(* snapshots some runs start from.                                         *)
(***************************************************************************)
EXTENDS ResolverProperties, TLC

CONSTANTS A, B, TRS,          \* addresses; TRS is the treasury
          TOK, USD,           \* tickers
          alice, bob,         \* names
          o1, o2, o3, b1, f1, f2, f3, s1, s2, hash

Symmetric == Permutations(OfferIds) \cup Permutations(FclaimIds)
Claimants == Permutations({A, B})

Fees == [r \in FeeRegimes |-> [n \in Names |-> 1]]

Sale(asset, amount, price) ==
  [give |-> [asset |-> asset, amount |-> amount],
   want |-> [asset |-> CSD, amount |-> price],
   payto |-> None, taker |-> None, min |-> 0, bid |-> None]

-----------------------------------------------------------------------------
(* Offers and what an attest may pay.                                      *)

\* An open partial offer, a quote answering B's bid, and a token swap.
Partial == [Sale(TOK, 3, 2) EXCEPT !.min = 1]
Quote   == [Sale(TOK, 1, 1) EXCEPT !.taker = B, !.bid = b1]
Swap    == [Sale(TOK, 1, 1) EXCEPT !.want = [asset |-> USD, amount |-> 1]]

MarketTerms == {Partial, Quote, Swap}

ClaimTerms  == {Sale(TOK, 1, 1), [Sale(TOK, 1, 1) EXCEPT !.taker = B]}
NameTerms   == {Sale(alice, 1, 1), [Sale(alice, 1, 1) EXCEPT !.taker = B]}

\* An attest that pays x to seller A, its rebate included, and fee to the
\* treasury.
Pays(x, fee) == [c \in Addrs |-> IF c = A THEN x ELSE IF c = TRS THEN fee ELSE 0]

MarketPays == {Pays(1, 1), Pays(3, 1)}
ClaimPays  == {Pays(3, 1)}

-----------------------------------------------------------------------------
(* A replay may be resumed where an earlier part of it stopped: the        *)
(* snapshots below are what the records named in each leave behind.        *)

Snapshot(h, tok, av, com, nam, fees) ==
  /\ height = h /\ phase = "propose" /\ pos = 0
  /\ tokens = tok /\ avail = av
  /\ locked = [t \in Tickers |-> [a \in Addrs |-> 0]]
  /\ feesPaid = fees
  /\ offers = [i \in OfferIds |-> NoOffer]
  /\ offerLock = [i \in OfferIds |-> 0]
  /\ bids = [b \in BidIds |-> NoBid]
  /\ fclaims = [f \in FclaimIds |-> NoFclaim]
  /\ pendingCancels = {}
  /\ commits = com /\ names = nam
  /\ recaptures = [n \in Names |-> NoRecapture]

\* Two deploys and the mints of their whole supply: 4 TOK to A and 2 USD to B.
MintedTo(who, n) == [NoToken EXCEPT !.deployer = who, !.supply = n, !.minted = n]

MarketInit ==
  Snapshot(ACTIVATION_HEIGHT,
    [t \in Tickers |-> IF t = TOK THEN MintedTo(A, 4) ELSE MintedTo(B, 2)],
    [t \in Tickers |-> [a \in Addrs |->
       IF t = TOK /\ a = A THEN 4 ELSE IF t # TOK /\ a = B THEN 2 ELSE 0]],
    [k \in CommitKeys |-> 0], [n \in Names |-> NoName], 2 * DEPLOY_FEE)

MarketSpec == MarketInit /\ [][Next]_vars
FairSpec == Spec /\ Fairness

\* Two registrations, A's of alice and B's of bob, committed at height h - 2,
\* revealed a block later and finalized at h.  The replay is resumed at height at.
RegisteredTo(who, p, h) ==
  [NoName EXCEPT !.owner = who, !.effHeight = h - 2, !.pos = p, !.id = 1,
                 !.paidThrough = epochOf(h) + NAME_TERM_EPOCHS]

Registered(h, at) ==
  Snapshot(at, [t \in Tickers |-> NoToken], [t \in Tickers |-> [a \in Addrs |-> 0]],
    [k \in CommitKeys |->
       IF k \in {<<alice, A, s1>>, <<bob, B, s1>>} THEN h - 2 ELSE 0],
    [n \in Names |-> IF n = alice THEN RegisteredTo(A, 1, h)
                                  ELSE RegisteredTo(B, 2, h)],
    Cardinality(Names))

\* One block after the registration, or in the last block of the grace of an
\* older one.
LeaseInit == Registered(5, 6) \/ Registered(3, 5)
LeaseSpec == LeaseInit /\ [][Next]_vars
=============================================================================
