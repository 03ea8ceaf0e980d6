----------------------------- MODULE NameRecords -----------------------------
(***************************************************************************)
(* The name records: commit-reveal registration, the sealed reservation    *)
(* and the sealed recapture of a lapsed name with their finalize,          *)
(* transfer, set, profile and lease renewal (resolve/names.ts).            *)
(***************************************************************************)
EXTENDS ResolveContext

CONSTANTS NameTargets,   \* addresses an nset may point a name at
          ZERO_ADDR      \* the nset sentinel that clears the target

ASSUME NameInputsAssumption ==
  NameTargets \subseteq Addrs \cup {ZERO_ADDR}

inGrace(n, ep) == ep > paidThrough(n) /\ ~lapsed(n, ep)

\* Does anchor a strictly precede anchor b?  The lowest wins.
earlierAnchor(a, b) ==
  \/ a.effHeight < b.effHeight
  \/ a.effHeight = b.effHeight /\ a.pos < b.pos
  \/ a.effHeight = b.effHeight /\ a.pos = b.pos /\ a.id < b.id

NameFrame == UNCHANGED <<tokenVars, offerLock, bids, fclaims, pendingCancels>>

-----------------------------------------------------------------------------
\* Mutant of applyNcommit: a repeated commit moves to its latest height.
applyNcommitLatest(key) ==
  /\ height >= V11_HEIGHT
  /\ commits' = [commits EXCEPT ![key] = height]
  /\ UNCHANGED <<names, recaptures, offers, feesPaid>> /\ NameFrame

\* A commit hash is its preimage here; the earliest height it is seen at stays.
applyNcommit(key) ==
  /\ height >= V11_HEIGHT
  /\ commits' = IF commits[key] = 0 \/ height < commits[key]
                  THEN [commits EXCEPT ![key] = height] ELSE commits
  /\ UNCHANGED <<names, recaptures, offers, feesPaid>> /\ NameFrame

\* Mutant of RevealWindow: it is not coupled to the freeze.
RevealWindowUncoupled == COMMIT_MAX_BLOCKS

RevealWindow == IF height >= V25_HEIGHT \/ height >= V26_HEIGHT
                  THEN REG_COMMIT_MAX_BLOCKS ELSE COMMIT_MAX_BLOCKS

\* A reveal with a salt needs a commit of its own in the window; a claim
\* without one is anchored where it stands.
RevealValid(n, who, salt) ==
  salt # None =>
    LET cH == commits[<<n, who, salt>>]
    IN cH # 0 /\ cH < height /\ height - cH <= RevealWindow

\* The anchor a claim competes with: its commit height, its position, its txid.
Anchor(n, who, salt, txid) ==
  [effHeight |-> IF salt = None THEN height ELSE commits[<<n, who, salt>>],
   pos |-> pos', id |-> txid]

\* A reservation past its finalize window no longer counts as a record.
curActive(n) ==
  IF names[n].pending /\ height > names[n].finalizeBy THEN NoName ELSE names[n]

lapsedNow(n) ==
  /\ curActive(n).owner # None /\ ~curActive(n).pending
  /\ height >= V15_HEIGHT /\ lapsed(curActive(n), epochOf(height))

\* Mutant of winsName: a bought name has no immunity.
winsNameBought(anchor, n) ==
  curActive(n).owner = None \/ earlierAnchor(anchor, curActive(n))

\* Neither a bought name nor an earlier anchor can be displaced.
winsName(anchor, n) ==
  \/ curActive(n).owner = None
  \/ ~curActive(n).viaFill /\ earlierAnchor(anchor, curActive(n))

finalizeDeadline(anchor) ==
  anchor.effHeight + REG_COMMIT_MAX_BLOCKS + REG_FINALIZE_GRACE_BLOCKS

\* names, offers: a new record for n, and with it the end of the listings the
\* displaced holder made.
takeName(n, who, anchor, rec) ==
  /\ names' = [names EXCEPT ![n] =
       [rec EXCEPT !.owner = who, !.effHeight = anchor.effHeight,
                   !.pos = anchor.pos, !.id = anchor.id]]
  /\ IF curActive(n).owner # None THEN voidOpenNameOffers(n) ELSE UNCHANGED offers

\* The live reservations, and the live recaptures, of who on other names.
pendingCount(n, who) ==
  Cardinality({m \in Names \ {n} : names[m].pending /\ names[m].owner = who
                                   /\ height <= names[m].finalizeBy})

recaptureCount(n, who) ==
  Cardinality({m \in Names \ {n} : recaptures[m].owner = who
                                   /\ height <= recaptures[m].finalizeBy})

\* Mutant of lapsedClaimFee: the decay starts with the grace, not after it.
lapsedClaimFeeFromLease(n) ==
  expiredClaimFee(n, epochOf(height) - paidThrough(names[n]), height)

\* The decaying premium on the lapsed name n, priced at the height it is paid.
lapsedClaimFee(n) ==
  expiredClaimFee(n, epochOf(height) - (paidThrough(names[n]) + NAME_GRACE_EPOCHS),
                  height)

\* V26: a payment-free reservation beside the lapsed record, which stays.
reserveRecapture(n, who, salt, txid) ==
  LET anchor == Anchor(n, who, salt, txid)
      cr == recaptures[n]
      free == cr.owner = None \/ height > cr.finalizeBy
  IN /\ height >= V26_HEIGHT
     /\ salt # None /\ RevealValid(n, who, salt)
     /\ lapsedNow(n)
     /\ free \/ earlierAnchor(anchor, cr)
     /\ recaptureCount(n, who) < MAX_PENDING_REG
     /\ recaptures' = [recaptures EXCEPT ![n] =
          [owner |-> who, effHeight |-> anchor.effHeight, pos |-> anchor.pos,
           id |-> anchor.id, finalizeBy |-> finalizeDeadline(anchor)]]
     /\ UNCHANGED <<commits, names, offers, feesPaid>> /\ NameFrame

\* Before V26 the lapsed name is taken on the spot, for the decaying premium.
reclaimLapsed(n, who, salt, txid, feeToTreasury) ==
  LET ep == epochOf(height)
      fee == lapsedClaimFee(n)
  IN /\ height >= V11_HEIGHT /\ height < V26_HEIGHT
     /\ RevealValid(n, who, salt)
     /\ lapsedNow(n)
     /\ feeToTreasury >= fee
     /\ takeName(n, who, Anchor(n, who, salt, txid),
          [NoName EXCEPT !.viaFill = TRUE, !.paidThrough = ep + NAME_TERM_EPOCHS])
     /\ feesPaid' = feesPaid + fee
     /\ UNCHANGED <<commits, recaptures>> /\ NameFrame

\* V25: a payment-free, displaceable reservation; the fee moves to nfinalize.
reserveName(n, who, salt, txid) ==
  LET anchor == Anchor(n, who, salt, txid)
  IN /\ height >= V25_HEIGHT
     /\ salt # None /\ RevealValid(n, who, salt)
     /\ ~lapsedNow(n)
     /\ winsName(anchor, n)
     /\ pendingCount(n, who) < MAX_PENDING_REG
     /\ takeName(n, who, anchor,
          [NoName EXCEPT !.pending = TRUE, !.finalizeBy = finalizeDeadline(anchor)])
     /\ UNCHANGED <<commits, recaptures, feesPaid>> /\ NameFrame

\* Before V25 the winner of the anchor contest pays and owns at once.
registerName(n, who, salt, txid, feeToTreasury) ==
  LET anchor == Anchor(n, who, salt, txid)
      since == IF height >= V15_HEIGHT THEN epochOf(height) ELSE epochOf(V15_HEIGHT)
  IN /\ height >= V11_HEIGHT /\ height < V25_HEIGHT
     /\ RevealValid(n, who, salt)
     /\ ~lapsedNow(n)
     /\ feeToTreasury >= nameRegFee(n, height)
     /\ winsName(anchor, n)
     /\ takeName(n, who, anchor, [NoName EXCEPT !.paidThrough = since + NAME_TERM_EPOCHS])
     /\ feesPaid' = feesPaid + nameRegFee(n, height)
     /\ UNCHANGED <<commits, recaptures>> /\ NameFrame

applyName(n, who, salt, txid, feeToTreasury) ==
  \/ reserveRecapture(n, who, salt, txid)
  \/ reclaimLapsed(n, who, salt, txid, feeToTreasury)
  \/ reserveName(n, who, salt, txid)
  \/ registerName(n, who, salt, txid, feeToTreasury)

-----------------------------------------------------------------------------
\* r, a reservation, is past the contest and before its deadline, and the
\* finalize reveals the salt of the reservation's own commit.
finalizable(n, who, salt, r) ==
  /\ r.owner = who
  /\ commits[<<n, who, salt>>] # 0 /\ commits[<<n, who, salt>>] = r.effHeight
  /\ height > r.effHeight + REG_COMMIT_MAX_BLOCKS
  /\ height <= r.finalizeBy

ownsReservation(n, who) == names[n].pending /\ names[n].owner = who

finalizeRegistration(n, who, salt, feeToTreasury) ==
  /\ height >= V25_HEIGHT
  /\ ownsReservation(n, who)
  /\ finalizable(n, who, salt, names[n])
  /\ feeToTreasury >= nameRegFee(n, height)
  /\ names' = [names EXCEPT ![n] =
                 [@ EXCEPT !.pending = FALSE, !.finalizeBy = 0,
                           !.paidThrough = epochOf(height) + NAME_TERM_EPOCHS]]
  /\ feesPaid' = feesPaid + nameRegFee(n, height)
  /\ UNCHANGED <<commits, recaptures, offers>> /\ NameFrame

\* The premium is priced at the finalize height on the lapsed record's basis.
\* If the name is no longer lapsed the reservation is dropped instead.
finalizeRecapture(n, who, salt, feeToTreasury) ==
  LET r == recaptures[n]
      ep == epochOf(height)
      fee == lapsedClaimFee(n)
  IN /\ height >= V26_HEIGHT
     /\ ~ownsReservation(n, who)
     /\ finalizable(n, who, salt, r)
     /\ recaptures' = [recaptures EXCEPT ![n] = NoRecapture]
     /\ IF nameExists(n) /\ ~names[n].pending /\ lapsed(names[n], ep)
          THEN /\ feeToTreasury >= fee
               /\ voidOpenNameOffers(n)
               /\ names' = [names EXCEPT ![n] =
                    [NoName EXCEPT !.owner = who, !.effHeight = r.effHeight,
                       !.pos = r.pos, !.id = r.id,
                       !.paidThrough = ep + NAME_TERM_EPOCHS]]
               /\ feesPaid' = feesPaid + fee
          ELSE UNCHANGED <<names, offers, feesPaid>>
     /\ UNCHANGED commits /\ NameFrame

applyNfinalize(n, who, salt, feeToTreasury) ==
  \/ finalizeRegistration(n, who, salt, feeToTreasury)
  \/ finalizeRecapture(n, who, salt, feeToTreasury)

-----------------------------------------------------------------------------
\* who owns n: it is neither a reservation nor, from V15, lapsed.
holdsName(n, who) ==
  /\ names[n].owner = who
  /\ ~names[n].pending
  /\ height >= V15_HEIGHT => ~lapsed(names[n], epochOf(height))

OnlyNames == UNCHANGED <<commits, recaptures, offers, feesPaid>> /\ NameFrame

applyNxfer(n, who, to) ==
  /\ holdsName(n, who)
  /\ ~names[n].locked
  /\ names' = [names EXCEPT ![n] =
                 [@ EXCEPT !.owner = to, !.addr = None, !.profile = None]]
  /\ OnlyNames

applyNset(n, who, target) ==
  /\ holdsName(n, who)
  /\ names' = [names EXCEPT ![n].addr =
                 IF height >= V23_HEIGHT /\ target = ZERO_ADDR THEN None ELSE target]
  /\ OnlyNames

\* An empty profile clears it.
applyNprofile(n, who, p) ==
  /\ height >= V19_HEIGHT
  /\ holdsName(n, who)
  /\ names' = [names EXCEPT ![n].profile = p]
  /\ OnlyNames

\* Anybody may renew a live lease; in its grace only the owner.
applyNrenew(n, who, feeToTreasury) ==
  /\ height >= V15_HEIGHT
  /\ nameExists(n) /\ ~names[n].pending
  /\ ~lapsed(names[n], epochOf(height))
  /\ inGrace(names[n], epochOf(height)) => who = names[n].owner
  /\ feeToTreasury >= nameRegFee(n, height)
  /\ names' = [names EXCEPT ![n].paidThrough = @ + NAME_TERM_EPOCHS]
  /\ feesPaid' = feesPaid + nameRegFee(n, height)
  /\ UNCHANGED <<commits, recaptures, offers>> /\ NameFrame

NameRecord(who) ==
  \/ \E key \in CommitKeys : applyNcommit(key)
  \/ \E n \in Names :
       \/ \E salt \in Salts \cup {None}, txid \in AnchorIds, fee \in Payments :
            applyName(n, who, salt, txid, fee)
       \/ \E salt \in Salts, fee \in Payments : applyNfinalize(n, who, salt, fee)
       \/ \E to \in Addrs : applyNxfer(n, who, to)
       \/ \E target \in NameTargets : applyNset(n, who, target)
       \/ \E p \in Contents \cup {None} : applyNprofile(n, who, p)
       \/ \E fee \in Payments : applyNrenew(n, who, fee)
=============================================================================
