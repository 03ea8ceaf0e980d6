# csd-sdk: TLA+ models of the resolver, the light client and the payment path

The SDK of the CSD chain has one hard part and two that guard it. The hard part is
CairnX, an overlay: the chain knows two opaque transactions, Propose and Attest, and
the SDK gives them a meaning, a token ledger, a market with exclusive holds and a
registry of names with leases. No contract and no server decides: every wallet, indexer
and explorer runs `resolve(events, tipHeight)` (`packages/cairnx/src/resolve.ts`) over
the same feed and must reach the same state. Money moves *before* the resolver speaks: a
buyer pays in the transaction that carries the fill, and if the resolver then refuses the
fill the payment is not returned. The light client (`packages/light`) checks the chain
the feed comes from, against sources it does not trust. The RPC client and the
transaction builder (`packages/client`, `packages/tx`) spend coins and await
confirmations through a node that may lie, fail or reorganize.

So the properties here are about that: can a payment be mined that buys nothing, can a
balance be created, can a name be taken from the one who paid for it, can a client hold
a chain a node would refuse, can two readers of the same bytes disagree, can a signature
burn coins or sign in the wrong party.

## 1. Inventory

| Component | Source (`src/packages/`) | State | Operations | What is hard | Modules |
|---|---|---|---|---|---|
| Resolver, replay loop | `cairnx/src/resolve.ts`, `resolve/context.ts` | all maps of one replay, the deferred cancels, the block being applied | order and de-duplicate the feed, flush cancels, sweep expired entries, dispatch | when flush and sweep run relative to the events of a block; heights at which a predicate is read; a feed that repeats its pages | `ResolveContext`, `Resolver`, `LaneReplay` |
| Token records | `resolve/tokens.ts` | tokens, balances | deploy, mint, transfer, tmeta | open mints racing for the rest of a supply | `TokenRecords` |
| Market records | `resolve/market.ts` | offers, bids, fclaims, locks | offer, bid, ocancel, fclaim | bulk cancel snapshots, the grant ladder of a hold | `MarketRecords` |
| Attests | `resolve/attest.ts` | the same | fill (token, partial, whole), cancel, bid cancel, legacy claim | several actors on one offer in one block, routing through an fclaim, rounding | `AttestEvents` |
| Name records | `resolve/names.ts` | commits, names, recaptures | commit, claim, reserve, recapture, finalize, transfer, set, profile, renew | commit-reveal races that date back, freeze windows, leases that lapse | `NameRecords` |
| Constants and selectors | `cairnx/src/types.ts`, `codec` (`epochOf`) | none | gates, fees, era arithmetic of a claim, the height rules turned around | boundaries of one block | `CairnXTypes`, `ClientSelectors` |
| Client preflight | `preflight.ts` | none | may I sign this fill, this finalize | a second copy of the resolver's rules, asked at one height and used at another | `Preflight` |
| Fill verification | `verifyfill.ts`, `client.ts`, `admission.ts`, `holdcount.ts`, `fillclosed.ts` | none | replay one lane from proven events, size the burial, bind the terms, count one's own holds | which events prove a hold; a verdict that outlives its chain | `FillSpv`, `ClientLane` |
| Light client | `light/src/index.ts`, `lwma.ts`, `bind.ts` | verified headers with work, the trusted marks; the consumer's file | sync, seed, reorg, inclusion, save, restore | concurrent calls, awaits between two reads, windows cut short at a seed, restarts | `HeaderRules`, `LightClient` |
| Tip routing | `light/src/route.ts` | none | is a backend's claim plausible, did its tip do work | numbers that are none | `RouteChecks` |
| RPC client | `client/src/index.ts` | none kept | request with retries, verify inputs, submit, `waitForTx` | two reads of a chain that moves; a timed-out broadcast | `RpcClient`, `SendFlow` |
| Transaction builder | `tx/src/index.ts` | none | select coins, verify, exclude, retry, assemble | values a node reports and values it proves | `CoinSelection`, `SendFlow` |
| Consensus codec | `codec/src` | none | encode and read transactions and headers, compact bits, merkle branches, emission | a second spelling of the same thing; digits lost | `TxCodec`, `HeaderCodec`, `ChainParams` |
| Crypto | `crypto/src` | none | author of a transaction, script parsing | txids leave signatures out | `TxCodec` (the attribution) |
| Record codec | `cairnx/src/records.ts`, `codec/src/canonical.ts` | none | parse a record from a uri | a form one language calls canonical and another does not | `RecordCodec` |
| Sign-in | `siwc/src` | none | build, parse, verify a sign-in message | lines that look like labels; comparisons with no number | `SignIn` |
| Market-maker helpers | `cairnx/src/mm/` | none | size a bid, price an order and its inverse, totals | rounding on two sides of a trade | `Quotes` |
| Primary name, payment sums | `primary.ts`, `paidto.ts` | none | a display order; the sum of outputs | nothing that several steps reach | not modelled, see 10 |
| Vectors, conformance scripts | `vectors`, `src/conformance`, `src/scripts` | none | fixtures and harnesses | no behaviour of their own | not modelled |

How they meet: the RPC client reads blocks from a node; the light client checks their
headers and binds a block's body to one, with the codec's hashes; Proposes and Attests
become `ChainEvent`s, their uris records, and the resolver replays them; a client asks
the preflight over a service's output, or proves the events of one lane itself and
replays those (`verifyFillSpv`), before it builds, signs and broadcasts a payment, which
is an event of a later block. Within the resolver, market and name records share the
`locked` flag of a name and the `offerLock` of an offer, and most of the difficult rules
are there: a displacement of a name has to end its listings, a hold has to survive
everything, a lease has to outlive a listing.

For each component, what makes it correct:

- *tokens*: nothing created or lost, no negative balance (`Conserved`, `LockIntegrity`);
- *fills*: the rounding never oversells and leaves no unsellable rest
  (`PartialFillExact`), a bid is done only by its bidder (`BidDoneSound`, proved only);
- *cancels and expiry*: a fill of the same block wins, since nothing but the flush cancels,
  and no contest for a name withdraws a listing (`FillBeatsCancel`), everything ends (`OffersEnd`), a cancel within its own block (`CancelsResolve`);
- *holds*: what a holder may still pay for it will get (`HoldPromise`), nobody takes a
  live hold (`HoldNeverDisplaced`), and a listing as a whole keeps one small contract
  (`KeepsContract`);
- *names*: the contest closes before money moves (`FrozenReservation`,
  `WinnerCanFinalize`), an owner keeps a settled or bought name (`SettledNameKept`,
  `BoughtNameImmune`), a lapsed one costs its premium (`PremiumPaid`), a sale and the
  record agree (`NameLockSymmetry`);
- *preflight*: the client's copy of the rules and the resolver decide alike
  (`PreflightAgrees`), a checked finalize lands (`FinalizeCheckHolds`);
- *the feed*: fed twice or out of order, it replays alike (`DuplicatesIgnored`);
- *fill verification*: a fill a client verified is delivered on whatever shallow branch
  it is mined (`FillSafe`), and the heights and fees a client plans with are the
  resolver's (`SelectorsAgree`);
- *light client*: no header a node would refuse (`SoundChain`), only more work displaces
  (`OnlyHeavierReplaces`), pins bind (`PinnedPrefixFrozen`), a proof is about one branch
  (`ProofIsOfOneChain`), a restart brings back what was saved (`RestoreRebuilds`), and
  from any file only real headers (`RestoreIsReal`), polling
  reaches the tip (`CatchesUp`);
- *payment*: no coin burned (`NothingBurned`), no broadcast repeated (`SentOnce`),
  confirmations counted on one chain (`ConfirmedOnOneChain`), and every wait ends
  (`WaitEnds`);
- *codecs*: one reading of bytes (`TxOneReading`), of records (`ReadsAlike`), of who
  signed (`ProvenAuthor`), exact numbers (`ChainNumbersExact`);
- *routing, sign-in, quotes*: a missing number never opens a check (`RouteFailsClosed`,
  `SignInFresh`); what one side sizes the other accepts (`QuotesFair`).

`PROJECT.json` lists the hazards of the code, each at its line, with the properties that
would catch it.

## 2. Modules

```
CairnXTypes            constants, gates, epochs, fees, the claim era arithmetic
  ResolveContext       the state of a replay, shared helpers, flush, sweep, blocks
    TokenRecords   MarketRecords   NameRecords   AttestEvents    one per source file
      Preflight        what a client computes from an offer or a reservation
      Resolver         ProposeEvent \/ AttestStep \/ ReplayLoop, Spec, TypeOK
        ResolverProperties   invariants, action and liveness properties, refinement
          MCResolver         values and snapshots for TLC
          ResolverProofs     types, offers, holds and bids
            NameProofs         names, their contests, sales and leases
              ContractProofs     promises of a hold, the contract, cancels
                LedgerProofs     conservation of tokens, exact locks   (+ SumProofs)
SumProofs              sums over finite sets, for the proofs
SaleContract           abstract specification of a listing

OpenLaneRules          MarketRecords and Preflight, as rules of a state given as a value
  LaneReplay           resolve() as a function of a feed, over open lanes
    FillSpv            verifyFillSpv and what surrounds it   (+ ClientSelectors, ChainParams)
      ClientLane       a chain that carries two lanes, and its buyers
        ClientCalls    the pure functions, called with bounded inputs
          ClientProperties
            ClientProofs     the selectors and the routing checks
            MCClient
HeaderCodec  TxCodec   headers, targets, merkle; transactions, attribution
RouteChecks  SignIn  RecordCodec  Quotes      instanced by ClientCalls

HeaderRules            one header: PoW, links, time, difficulty, pins, work
  LightClient          the client object, its calls, its loops, the stored file
    LightClientProperties    the full node as reference, properties, fairness
      MCLightClient          a header tree for TLC
      LightClientProofs      types, most work, pins, soundness, inclusion, restarts

RpcClient  CoinSelection     one request with its attempts; selection and assembly
  SendFlow             one payment from the coin list to its confirmations, and a node
    SendFlowProperties
      SendFlowProofs         broadcasts, requests, confirmations, what is spent   (+ SumProofs)
      MCSendFlow
```

## 3. The resolver

| Model | Code |
|---|---|
| `height`, `phase`, `pos` | `curHeight` of the loop, and where it is in the block: the sort of `resolve.ts` puts the proposals of a block before its attests, each by position; `"flush"` is the moment the deferred cancels of an earlier block run |
| `tokens`, `avail`, `locked`, `feesPaid` | `tokens`, `balances` (`Bal.available`, `Bal.locked`), the fees a record's payment to the treasury covers |
| `offers`, `offerLock` | the same; `delivered`, `paid`, the claim fields and `buyer` are fields of the code's offer |
| `bids`, `fclaims`, `pendingCancels` | the same maps |
| `commits`, `names`, `recaptures` | the same; a commit hash is its preimage `<<name, address, salt>>` |

A map is total here and holds `NoOffer`, `NoName` … where the code has no entry. The
indices `openOffers`, `openBids`, `pendingNames` of the context are derived from the
status field (`setOfferStatus` and `putName` keep them so) and are not separate state.

Every record and attest is one action named after its handler; the guard is the
conjunction of the handler's checks. A rejected record changes nothing but the event log,
and is a stuttering step. The dispatch is `TokenRecord`, `MarketRecord`, `NameRecord` and
`AttestEvent`. `FlushCancel` is one deferred cancel, `ExpireOffer`, `ExpireBid`,
`DropReservation` and `DropRecapture` one iteration of the four loops of `sweepExpired`,
`NextBlock` the move to the next block. Flush and sweep are loops over independent
entries, so a step per entry is enough as long as no event comes between: `Settled` is
that guard. (The code sweeps before every event; an offer that its checks admit is never
stale in its own block, which `SelectorsAgree` checks.)

`Preflight` has no state: its operators read the offers and reservations the resolver
holds, as a client reads them from a service. They repeat the formulas of
`preflight.ts` and share none with the resolver's handlers, since the code keeps two
copies as well. `PreflightAgrees` compares the two at every block start: the verdict and
the outputs the client computes, against whether `FillAttest` can take that fill
(`ENABLED`).

Abstractions:

- A txid is a member of a small set. Anchors are compared by height, position and
  txid, so the txid of an anchor is a number (`AnchorIds`).
- Positions only matter by their order: `MaxPos` per block and kind, at most `MaxGap`
  apart. `MaxGap = 1` gives no gaps; `Registration` uses 2 so that ties and gaps occur.
- What an attest's own outputs pay is a function from addresses to sums (`PaidTo`);
  what a Propose pays the treasury is a number (`Payments`).
- Every activation height is a constant; a `.cfg` places the ones a run is about inside
  its blocks. `GateOrderAssumption` states the order the production constants keep wherever
  one rule relies on another, `GateDistanceAssumption` the distances: a reveal window from
  the embargo of V13 to the end of listings by displacement (V14), and a lease and an
  offer's term around V15 and V21.
- An fclaim whose epoch has passed cannot be attested on the chain. The model lets it be
  attested, which admits more behaviours than the node does.
- The lease a name registered before V15 is given on reading is stored at creation.
- The feed of the state machine never repeats a txid. From V29 the resolver guarantees it
  itself, which `LaneReplay` models; below V29 it is a promise of whoever feeds it.

## 4. The light client

A header is an element of a tree (`PrevOf`, `TimeOf`, `BitsOf`), which stands for its
bytes and its hash; `PowOk` are those whose hash meets their bits. `HeaderRules` computes
on them what the code computes: the LWMA target of a window (`lwma.ts`), the median time,
the spacing and drift rules, the pins, work that saturates.

| Model | Code |
|---|---|
| `chain`, `baseHeight` | `headers`, with `chainwork` and `trusted`, and `baseHeight` |
| `calls` | the locals an async call keeps across an `await`: `sync`, `syncFromCheckpoint`, `verifyTxInclusion` |
| `task` | the loop that holds the event loop: rows left, the branch verified so far and its window |
| `file`, `clock` | what the consumer stored (`toSnapshot`, `toRecords`), and `Date.now()` |

Between two awaits JavaScript runs to completion, so a loop over served headers is a
sequence of steps during which nothing else is enabled (`Quiet` guards all other actions).
An `await` is the gap between two actions of the same caller, where any other call, reorg
or save may run. Served headers are any run of the tree: a source may serve a branch, a
false difficulty, a header ahead of its time. `Restart` drops the object and every call;
`Boot` and `BootRow` are the three restore functions. The first file need not be the
client's: it is none, or any of `Stored`, of which only the shape is known
(`StoredAssumption`); a file of an earlier release with other pins, of another client, or
a damaged one. `PinnedPrefixFrozen` and `RestoreIsReal` speak of boots from these too,
`RestoreRebuilds` of the files that the client saved itself.

`PinnedPrefixFrozen` compares what is held with the tree and not with the state before,
so that it reaches across a restart: at and below a held pin there is one line, the one
that ends in the pin, whichever way the headers came in. `RestoreIsReal` is what the
containment rule of `prepareRestore` is for: the headers that a restore spares the time
and difficulty rules lie below a pin, so an honest pin leaves no room for a false header
under a trusted mark.

The reference for `SoundChain` is a node: `NodeValid` is recursive along the line from
genesis, with full windows everywhere. The client has neither genesis nor full windows
above a seed, and the windows of a reorg are slid by hand: the property says that this
makes no difference, given a seed a node accepts (`SeedsHonest`).

## 5. The payment path

`SendFlow` is one payment as `examples/quickstart.mjs` makes it: list, select, verify
every input's source, sign, broadcast, await. `RpcClient` is the attempt loop of `req`:
an attempt comes back as an answer, as a refusal, or as an outage, which a read retries
and a broadcast does not. The node is external: it serves any of `Listings` and any body
as a source, may take a broadcast after the client gave up, mines, and reorganizes to a
branch of any length. A txid commits to a body, so a source proves the one coin it is the
body of and no other (`provesInput`).

Outside: the deprecated builders that trust reported values, signatures, the byte caps.

## 6. What a client relies on

`Resolver` explores which events come; to compare *two replays* (the chain's, and the
part of it a client proved) a feed has to be a value. `LaneReplay` is `resolve` as a
function: it orders the events, drops the repeated ones from V29 on, and folds `apply`
(flush, sweep, handler) over them, with the closing sweep at the tip plus one. It covers
open lanes: offers for CSD, fclaims, fills and cancels. Its rules are not written a
second time: `Rules(s)` is `OpenLaneRules`, an instance of the resolver's modules whose
variables are the fields of the replay state `s` (`fclaimGranted`, `openFillAdmitted`,
`fillNeeds`, `StaleOffers`, `cancelFrozen` ... are the very operators of
`MarketRecords`, `AttestEvents` and `ResolveContext`). Balances are left out: a seller is
taken to own what it offers.

| Model | Code |
|---|---|
| `feed`, `tip` | the chain's events of two lanes, block by block; external |
| `resolve`, `applied`, `swept` | `resolve.ts` |
| `holdIsMine`, `paysExactly`, `verifyFillSpv` | `verifyfill.ts`: what must be proven, how deep it must lie, the replay of the lane, the payment |
| `requiredClaimDepth`, `blockReward` | `client.ts`, `codec/src/params.ts` |
| `bindOfferTerms`, `bindProvenOffer`, `provenOfferRefusal` | the terms a service shows against those proven |
| `countOtherHoldsAtGrant` | `holdcount.ts`: the caller's own other holds, the one thing a lane cannot show |
| `call` | one call of a pure function, with its arguments; made before the lane moves |

`FillSafe` is the property the fill verification is for. Over every history of two
lanes it asks, at every tip and for every fclaim: when the verdict is good, with a lane
from which any one event may be missing, the fill lands and is delivered in full
wherever it is mined up to `FILL_TIP_MARGIN` later and on whatever reorganization
shallower than the required depth, sized from terms a service may have changed in any
field that binding lets through. It excludes only histories in which another holder's
fclaim was denied by the cap for holds elsewhere, which a lane cannot show;
`CompleteWindowDecides` is the claim without this exclusion, and fails (see 8).

The pure functions are compared with what their callers assume, not with themselves:
`SelectorsAgree` asks the resolver's sweep and grant ladder whether a client's turned-
around heights are right, `TxOneReading` feeds the reader near misses of encodings,
`ReadsAlike` reads with a reader of another language, `QuotesFair` prices at the site and
accepts at the maker.

Abstractions:

- A byte has `BYTE` (4) values, a `u32` and a hash one digit, a target five; hashing is
  injective, so a txid is its bytes, a merkle node its two children, tagged.
- A text of a sign-in is a sequence of tokens, among which the labels, a line feed and a
  lone surrogate stand for themselves. A time is none when its text has no zone.
- A value in a record is a member of a class: a canonical amount, a number of 22 digits
  that two languages spell differently, a lone surrogate, a text too long, and so on; keys
  carry their rank in UTF-16 and in UTF-8 order.
- A key belongs to one address, a signature names its key and digest.
- A configured number of the route is an integer or none: fractions are left out.
- Fixed-point scales of a quote are 10 instead of 10^12 and 10^6.

## 7. Runs

Every run explores its state space completely. In the resolver runs `A` sells, `B` buys,
`TRS` is the treasury, which also acts as a third participant; unless stated otherwise an
epoch is two blocks, all gates are in the past, fees are 1 and positions go up to 2.

| Run | Question | Bounds, and why they are enough |
|---|---|---|
| `LedgerProgress` | from the first record of all on: is anything created or lost, is a live hold ever taken, and does every offer and every accepted cancel end? | V11, V18, V20 to V27, V28 and V29 at heights 2, 3, 3, 4 and 5 of 6: one token of supply 2 (a mint can overshoot, a transfer too), one offer through legacy claims with windows 1 and 2 and the first fclaim; one event of each kind per block; no names |
| `MarketSwaps` | locks, rounding, the order of fill and cancel; does the preflight decide as the resolver? | a 3-for-2 partial offer (its shares round), a quote on a bid, a token swap; 2 offer ids, 1 fclaim, 3 blocks, each an epoch, so that an offer can be partly filled, cancelled and expired |
| `Registration` | who wins a name, and when is it safe to pay? | three claimants, two positions, two txids: every rank of the anchor order decides somewhere; V25 at 2, V26 at 4 and V27 to V29 at 5 of 7 blocks, each an epoch: a name registered at once is displaced in the next era or lapses and is reclaimed, and commit, reveal, freeze, the whole finalize window and its deadline fit; a finalize grace of 3 blocks and a client's margin of 1, so that there are tips at which the client's check says yes, and tips too early and too late for it |
| `NameSale` | lock, lease and contract of a name on sale, and the premium of a lapsed one | one name, two offers (one may be a quote), one fclaim, a rival's reveal; 9 blocks of one epoch each; starts a block after the registration or in the last block of an older one's grace, so that both the sale and the recapture are within reach; a premium of 8 over 3 epochs and a base fee of 1, payments of 1 and 3: the earliest recapture is two epochs past the grace and still costs 3, two epochs later the base fee is enough |
| `LightInclusion` | two inclusion checks whose awaits syncs and reorgs run between | a tree of 13 headers with forks at three heights, one of equal and one of more work, one header ahead of its time; pages of one or two headers; a window of two |
| `LightRestore` | seeds, pins, reorgs, save and restart, and files found there | seeds with one header of context (less than a window) and two, at and above the pin; forks below and above the pin, one with a false difficulty; both file formats; a clock that is set back; six files found: a fork below the pin and rows without links in place of the pinned line, a false header above the pin within the first window and beyond it, marked as trusted or as records |
| `LightPolling` | do polling clients reach the tip? | two callers, a source that fails or serves a header ahead of its time |
| `SendFlow` | the payment path | four lists (honest, under-reported, a coin twice, over-reported), five orders, two rounds, one retry, two inputs, one reorganization in four blocks, two depths |
| `Client` | is what a client signs on true? | a partial 3-for-5 offer (its shares round, its burial is deeper) and a whole one; two buyers, two fclaims, one fill, one cancel, three tips, V28 and V29 in the first two blocks, reorganizations below the required depth; the pure functions over products of boundary values; about 21 000 states, most of them one call each |
| `LightSeedRefused` | expected to fail, see 8 | |
| `WaitStale` | expected to fail, see 8 | |
| `CapUnseen` | expected to fail, see 8 | two whole offers, three buyers, four fclaims, four tips |

Two resolver runs start from a snapshot (`MarketInit`, `LeaseInit`): states that the
records named in their comments leave behind, so that the depth is spent on the question.
`LedgerProgress` and `Registration` start from the empty state.

`CHECK_DEADLOCK FALSE` in the resolver, client and payment runs: a replay ends at the tip
(`MaxHeight`), a call when it has returned and a payment in its last stage, and there
they may stop.

Symmetry over ids, buyers, claimants or callers is used only in runs without liveness; ids are never
compared except for equality.

### Fairness

- Resolver (`Fairness`): `WF(ReplayLoop)`, that is flush, sweep and the move to the next
  block. `resolve` is one synchronous loop that awaits nothing. Nothing is assumed of the
  participants: no record has to come.
- Light client (`Polling`): the loops run on; a consumer syncs again after a sync that threw
  (the options comment of `light/src/index.ts` 127 to 133, "incremental callers re-poll");
  a source that is asked over and over answers honestly now and then. The last is strong
  fairness of an honest answer: without it no client can reach the tip.
- Payment (`Running`): a request is sent and settles, since every attempt has a timeout;
  timers fire, so `PollAgain` and `Deadline` are fair. Nothing is assumed of the node.
- `Client` has no liveness: every call is synchronous.

### Refinement

`SaleContract` says in a page what a listing promises from V28 on: an open listing is
sold only to the live holder, a quote only to its taker; a hold is never replaced while
it lives and is bounded; a held listing is neither withdrawn nor expires; a firm quote
is never withdrawn. `ResolverProperties!Contract` maps it onto the resolver, with
`EraOffer`: an offer published before V28 is none to the contract, so that the gates may
lie anywhere. `NameSale` checks it (`KeepsContract`) where displacements, cancels, expiry
and holds of a name meet, and `ReplayKeepsContract` proves it (see 9). What the mapping
hides is what the contract is silent on: prices, locks, records, routing.

## 8. What was found

Three places where the code does not do what its comments say; `PROJECT.json` quotes them.

- `LightSeedRefused`. A comment says a tampered seed "still fails closed inside
  seedTrusted". The last check of `seedTrusted`, that the run ends in the checkpoint
  (`light/src/index.ts` 279), comes after every header was pushed. It throws, and the
  client is left holding the refused run as its trusted chain; `syncFromCheckpoint` then
  refuses to seed it again, since it is no longer fresh. A consumer that drops the object
  on a throw never sees it.
- `WaitStale`. `waitForTx` is documented to "never resolve on a stale sighting". It reads
  `/tx` and then, after another await, `/tip`. A reorganization between the two drops the
  transaction and raises the tip, and the call resolves with the height of the old branch.
  `ConfirmedOnOneChain` states what does hold: without a reorganization between these two
  reads the answer is exact.

- `CapUnseen`. The doc of `verifyFillSpv` says that a window that holds the offer's history
  refuses a doomed fill. The replay is of one lane and cannot see the cap of other
  holders: a third party's fclaim, denied on the chain because that buyer holds elsewhere,
  replays as granted. A second buyer's later claim, granted on the chain, then replays as
  denied; when the hold that never was has ended, the caller's claim replays as granted
  and is denied on the chain. The window is complete, the verdict is safe, the fill is not
  delivered. The known limits in the same file name the two ingredients separately and
  call each harmless or outside the window; together they are neither. `FillSafe` holds
  once these histories are excluded.

Also worth knowing, though no document claims otherwise: an endorsement asked at the tip,
not at the next height, is one block optimistic about a hold. In the last block of a hold
`fillEndorsement` endorses at the tip a fill that can only be mined after it.
`PreflightAgrees` exempts exactly this case and no other.

And the comment of `claimWindowOf` (`types.ts` 341 to 356) says that the grant height derived
from an fclaim's deadline is never earlier than the real grant. That is so for a claim
mined in the first block after the tip it was sized at. Mined some blocks later, the
grant is later by as many, and the derived height may be earlier than it by no more than
that: `SelectorsAgree` states the bound relative to the tip that was asked.

## 9. Proofs

All theorems hold for every value of the constants that satisfies the named assumptions
(`SetsAssumption`, `FiniteAssumption`, `ParametersAssumption`, `GatesAssumption`, `GateOrderAssumption`,
`GateDistanceAssumption`, `BoundsAssumption`, `TokenInputsAssumption`,
`OfferTermsAssumption`, `PaidToAssumption`, `NameInputsAssumption` for the resolver; those of
`HeaderRules` and `ClientAssumption` for the light client; `RetriesAssumption`,
`SelectionAssumption` and `FlowAssumption` for the payment; `SelectorAssumption`,
`LaneAssumption`, `SelectAssumption`, `CodecAssumption` and `InputsAssumption` for the client's functions). TLC evaluates each of them in
the runs. The types, the listings and the bids need no order of the gates; the names and
what is built on them need the order and the distances of `types.ts`.

`ResolverProofs` proves `TypeCorrectness == Spec => []TypeOK`. `TypeOK` is not inductive. A
partial fill stores `paid + x` and `floor(give * paid / want)`, which are naturals only
because no more than the price is taken (`paid <= want` for offers with a `min`); a mint
adds `supply - minted`, a natural only because `minted <= supply`; releasing or delivering
a give needs the seller and the asset to exist, which they do because an offer that exists
has terms that `parseRecord` let through. `Types` adds these three facts and is inductive
(`InitTypes`, `StepTypes`, `TypesInvariant`); `StepTypes` has one lemma per handler. The
arithmetic lemmas (`NatProduct`, `NatQuotient`, `TradeFeeNat`, `RegFeeNat`, `PremiumNat`)
say that no fee leaves the naturals, the decaying premium included.

It goes on to three more properties (two of them checked by runs too), from one lemma:
`StepMoves` says that a step moves each offer in one of six ways (it rests, is
published, claimed, sold, partly sold, or ended), with what that does to its lock.

- `HoldIsExclusive == Spec => HoldNeverDisplaced`. Only `Claimed` touches the claim
  fields of an existing offer, and both grant ladders check `~claimHeld` at the block
  they are applied in. Needed beside the types: an offer that does not exist is
  `NoOffer` (`Blank`), so publishing one does not overwrite a claim.
- `PartialFillIsExact == Spec => []PartialFillExact`. `PartialBooks` is the inductive
  invariant: `delivered` is the rounded share of the *total* paid, not a sum of rounded
  shares. `FloorShare` is the arithmetic.
- `BidDoneIsSound == Spec => []BidDoneSound`. `BidMoves` says that only `markBidDone`
  makes a bid done; that the filled offer stays filled, with its buyer, is `StepMoves`.

`NameProofs` proves what the runs check of names, from one invariant. `NamesOk` says of each
name, in three parts, what its record, its reserved recapture and its listings may look
like (`NamesInvariant == Spec => []NamesOk`):

- `RecordOk`: a reservation is of V25 or later, unlocked, and opened by a commit of its owner
  at its anchor; a finalized record has a lease. `RecaptureOk`: a reserved recapture was
  opened by such a commit too, and stands beside a record whose lease has lapsed.
- `ListingOk`: a listing is of its owner's locked, finalized name, within the lease, and was
  made when the name was out of reach of an earlier anchor: it had been bought, or it was
  older than the reveal window of the day (`embargo`), or the offer is from before V13. And
  a locked name has exactly one.

None of the properties is inductive alone. That a displacement ends the right listing needs
that there is at most one, that a fill delivers to a buyer needs the lock and the owner to
agree, that a lapsed record is not for sale needs the lease to outlive the listing
(`LeaseOutlives`), across the change of the expiry rule at V21. Here the distances of the
gates are used. `NamesStep` has one lemma per record and one per way a listing begins, ends
or is delivered (`Enlists`, `Delists`, `Delivers`). The action properties follow from one
description of a step, `RecaptureMoves` and `RecordMoves`: a record is kept, dropped, sold,
contested, reclaimed, finalized or handed on.

- `LocksMatchListings` (`NameLockSymmetry`), `WinnersCanFinalize` (`WinnerCanFinalize`),
- `BoughtNamesAreImmune` (`BoughtNameImmune`), `SettledNamesAreKept` (`SettledNameKept`):
  an anchor that beats the record would have to be as old as the record, and a reveal
  window that has passed lets none be (`TooLate`),
- `PremiumIsPaid` (`PremiumPaid`): a lapsed record moves on only by `Reclaimed` or `Finalized`,
- `ReservationsFreeze` (`FrozenReservation`).

`ContractProofs` goes on to holds and listings.

- `HoldsArePromises == Spec => []HoldPromise`. `HoldOk` ties a granted fclaim to the claim
  fields of its offer until its last block has passed; it is kept because no other grant,
  cancel, expiry or displacement touches a held offer (`HoldSurvives`), the last by the sweep's own condition: the hold
  ends within the offer's term. That the give is still in place at the end is
  `PartialBooks`, `WholeBooks` or `NamesOk`, by the kind of the offer.
- `ReplayKeepsContract == Spec => KeepsContract`, the refinement. Its initial and next state
  are simulated step by step: `StepSales` sorts the steps by what they do to a listing
  (`SaleStep`), and each kind is a step of `SaleContract` (`PublishedLists`, `GrantHolds`,
  `SoldSells`, `EndedEnds`) or leaves it alone. The invariant it rests on is `SalesOk`: a claim on
  an offer of V28 or later is an fclaim's, up to the end of an epoch within the term; with
  `PendingOk` (no cancel of a firm quote waits) and `NamesOk` (from V28 on no name record ends a
  listing, as `NameRecordSales` shows).
- `FillsBeatCancels == Spec => FillBeatsCancel`. From V14 an open offer is cancelled only by the
  flush, and the flush cancels only on behalf of an earlier block (`PendingOk`). The hard
  part is that no name record cancels one: `WinnerUnlisted` shows that a name that can
  still be taken has no listing. The distance of V13 and V14
  is needed here: a listing made before the embargo could be younger than a reveal.

`LedgerProofs` proves the two sums of the ledger, `TokensAreConserved` (`Conserved`) and
`LocksAreExact` (`LockIntegrity`). They need finitely many addresses and offer ids
(`FiniteAssumption`: a feed is a finite list), for a sum over an infinite set has no value. The
inductive invariant `Books` has four parts. `Balanced`: the available and the locked balances of
a ticker, summed separately, add up to what was minted. `Solvent`: no available balance is
negative. `Exact`: a locked balance is the sum, over *all* offers, of what each owes for that
ticker and seller (`Owed`, zero unless the offer is open); written this way a step changes one
summand and never the set. `Unissued`: nothing of an undeployed ticker is minted, so a deploy
starts from zero. A fill needs more than the books: that what it takes out of the lock is
there, which `WholeBooks` (a whole offer locks its give) and `PartialBooks` (a partial one
what is not delivered yet) give as `LocksNat`. There is one lemma for each way a
balance moves (`OneCredit`, `MovedAcross`, `MovedWithin`), for what it does to the lock of an
offer (`LockMoves`, `LocksStay`), and one per kind of step (`...Books`).

`SumProofs` has the lemmas on sums that these proofs need: an element may be split off,
one summand changed, two sums added (`SumSplit`, `SumAdd`, `SumChange`, `SumPlus`, `SumPart`). The sum
of the community modules is a fold, a recursive function on the subsets of its set. That
it exists and satisfies its equation is `FoldDef`, by the smallest set on which no such
function would exist; no induction theorem is used, only that a nonempty set of naturals has
a least element.

`LightClientProofs` proves `ClientTypes`, `MaxWork` and `PinsAnchor` (`PinnedPrefixFrozen`). The inductive invariant
`IInv` adds to the types what a call or a loop relies on across steps: a seed fetches the
span it asked for (`SeedSpans`), a loop has rows or a branch (`Looping`), neighbours in
the chain are linked (`Linked`), every pinned height held is held by its pin (`Pinned`), and
the branch being verified hangs linked on its ancestor, which is still held (`Branch`).
`MaxWork` needs `Branch` only for the branch to be non-empty when it is decided.
`PinsAnchor` is the deeper one: `Pinned` puts the pin into the chain, and a run of linked
headers is the end of the line of its last one (`LineEnds`, by the least height at which
it is not, `LeastNat`), so the prefix is the line of the pin. Nothing is assumed of a file
that is found but its shape: each row of it passes the links and the pins again.

`HonestSeedsStaySound` proves `SoundChain` against the full node, for every tree of headers.
`SoundChain` itself is not inductive: a reorg that drops a false seed entry would leave
a chain whose seeds are all honest with nothing known of what stood on the false one. `Sound` is
the form that is: each entry is good (`Good`: a node accepts it, at this height) if the seed entries
*up to it* are. It holds of every prefix, so a cut keeps it, and `SoundExtends` lets it grow by a
verified header. `SoundInv` says it of the chain and, while a reorg runs, of `candidate`, the
chain that the reorg would leave, whose last headers are what the reorg's own sliding
window holds (`Tops`). The core is `ChecksAreANodes`: the client passes a window of what it holds, the node
everything since genesis, and `mandated` says the same of both, for a window that is not refused as
too short is either full or starts at genesis (`WholeWindow`), and a run of linked entries
is the end of the line of its last header (`LineEnds`). `Line` and `NodeValid` are
recursive along a line of headers. That they exist and satisfy their equations is
`AlongExists`, again by a least element where they would not.

This needs two facts of hashes, in `HeaderAssumption`: nothing precedes genesis, and every
set of headers has one whose predecessor is not in it. The second says that the `prev` fields, which are
hashes of what they point to, form no circle and no endless descent. TLC evaluates it on
all sets of headers of its trees.

`ProofsAreOfOneChain` proves `ProofIsOfOneChain`. `OneLineInv` says of the hash and the tip
which a call has captured that the one lies on the line of the other, as deep as the
confirmations will say. It holds at the capture because both are read in one turn
(`CapturedOneLine`, from `Linked`), and afterwards because they are of the call and
not of the chain: a sync or a reorg under the call cannot part them.

`RestartsRebuild` proves `RestoreRebuilds`. The window the live client judged a header by was
that of a chain which has since been cut, saved in part, and is now rebuilt from another
base. `RestoreInv` carries what survives: the work of an entry is that of the entry
below it and its own, and an entry is marked trusted unless it has a whole window below it or the chain
starts at genesis (`Steady`, of the chain and of `candidate`); a file the client saved is linked, honours the pins
and, as a snapshot, is steady (`FileInv`); and what a boot has read so far is the
first rows of the file (`BootInv`). So whenever a restore applies the difficulty and time
rules, the window is whole, and a node's rules by the whole line say the same of it (`WindowServes`,
the converse of `ChecksAreANodes`). `FileHonest`, the property's hypothesis, is of the file
alone: its headers are valid, *at their own heights*, and the clock is not behind them. The heights are
needed: TLC finds that a client seeded with genuine headers under false heights saves a
snapshot that it then refuses, since height 0 must hold genesis.

`RestoresAreReal` proves `RestoreIsReal`, for any file. `RealInv` names, for a boot under way,
the pin it rests on (`Covers`): the anchor of a record file, or the pin that the
containment rule has found at the top of the trusted prefix or above it. Above that pin no
mark spares a row its check (`BootBeyond`), so such a row is one a node accepts
(`ChecksAreANodes`); once the pin is read, so is all that is below it, since the line of a
header a node accepts has only such headers (`GoodBelow`). A boot that ends before its pin
leaves nothing. With the older rule, a pin anywhere in the file, TLC finds a false header
just above the pin under a trusted mark (the mutant `anchoredSomewhere`).

`SendFlowProofs` proves the three safety properties of a payment, `BroadcastOnce`,
`ConfirmationsExact` and `NothingIsBurned` (`NothingBurned`). `IInv` pairs the stage of the build with the request that is
out (`OneRequest`): this is what makes a late answer, a timeout or a retry reach the stage
that asked. `Broadcasts` counts a submit and its fate as one attempt, since only a GET is
retried. `Budget` bounds the source requests made so far by the rounds, the inputs checked
and the attempts of the one under way; a round never has more than `MAX_TX_INPUTS` inputs
because `take` stops at its least sufficient prefix (`TakeBounded`), and `PaidFor` is the
arithmetic. `OneChain` keeps the sighting equal to the height at which the chain has the
transaction as long as no reorganization came between the two reads.
`Paid` is the invariant of the money: the inputs are different coins, and the total is the sum
(`SumAdd`) of what the sources commit to for those verified so far, all of them by the time
it is signed. That they are different is the longest part: a list may name a coin twice, and
`largestFirst` picks the entry of each place by its rank. `EveryRank` shows that there is exactly one for
each place, for the ranks are distinct (`FewerAbove`) and as many as the places, so that a selection
is a prefix of the sorted pool (`TakeIs`) without repetition (`SelectionDistinct`).

`ClientProofs` proves two contracts of pure functions. A call is recorded in a state and asked about
there, so the invariant (`CallInv`) only says that the recorded input is one of those that
may be asked; what is proved is the contract, for every set of inputs.

- `SelectorsAreTheRules == ClientSpec => []SelectorsAgree`. The client computes heights, the
  sweep compares epochs; `GoneFrom` says that they agree, through the cap of the first era and the
  two gates that change it, from `Division` (a height is below a multiple of the epoch
  exactly when its quotient is below the multiplier). `AskedEpoch` shows that the epoch a client asks for
  satisfies the grant ladder in the next block, both ends of it, and that it outlives the window;
  it needs that a window and its grace fit in the epochs an fclaim may reach ahead
  (`SelectorAssumption`: 45 blocks, 60 in the code). `FeeEnough` needs that fees only
  rise and that the fee gates are further apart than the margin.
- `RoutingFailsClosed == ClientSpec => []RouteFailsClosed`. `SaneAlike` shows that a number that
  is none, zero or negative counts as its default wherever it is read; `EasedWork` turns the
  bound on targets into the bound on work, through two rounded quotients and the cap.
  `CodecAssumption` states that the powers of the byte are positive, a fact of
  arithmetic that the provers do not have.

The proofs avoid an `EXCEPT` that uses `@` twice along one chain, as do the modules:
`addBal` moves one balance at a time, so a transfer to oneself and a fee paid to the
payee add up as they do in the code.

Only model-checked:

- `FillSafe`, `DuplicatesIgnored` and the contracts of the other pure functions
  (`TxOneReading`, `ProvenAuthor`, `ChainNumbersExact`, `SignInFresh`, `ReadsAlike`, `QuotesFair`):
  what a fold over a feed, a text, a ladder or an era computes is induction over data;
- `PreflightAgrees` and `FinalizeCheckHolds` (`ENABLED`), and every liveness property.

## 10. Not modelled, and why

- The event log, the materialized output and `canonicalState` of `resolve` (104 to 175):
  derived from the state, without influence on it.
- `primary.ts` and `paidto.ts`: a display order and a sum, each one expression; the sums
  enter the models as `PaidTo` and `pays`.
- `mm/buyers.ts` and the spot price for display (`expScaled`, `sunriseCurve`): no decision
  depends on them.
- `encodeRecord` and the other record builders: what they build, `parseRecord` reads.
- `verifyLinkedRecords`: one stateless link check over a finished file.
- The deprecated builders of `tx`, which trust the values a node reports, and the byte caps.
- The curve, key and address primitives and SHA-256: axiomatic.
- Name and quote lanes of `verifyFillSpv`: the lanes of `Client` are open offers of a token
  for CSD, partial and whole. A name lane adds the events of the name, and a quote the bid it answers.
- Vectors, conformance and differential scripts: fixtures, and harnesses of the above.
- The L0 node: external. Which attests it accepts is over-approximated.

## 11. Plan

1. `NameRegistry`: an abstract registry (free, contested, frozen, owned, lapsed) that the
   resolver implements from V26 on.
2. The composition of the light client with the fill verification: a lane proven by
   inclusion checks while the chain below it is synced and reorganized. `FillSafe` now
   quantifies over the reorganizations instead.
