------------------------------ MODULE Preflight ------------------------------
(***************************************************************************)
(* What a client computes from the records a resolver serves before it     *)
(* signs a payment: whether a fill will deliver, which outputs it needs    *)
(* and which txid it attests, and whether a registration fee is safe to    *)
(* send (preflight.ts).  The code computes all of it a second time, apart  *)
(* from the resolver, and so do the definitions here.  tip is the height   *)
(* the client asks at.                                                     *)
(***************************************************************************)
EXTENDS AttestEvents

CONSTANT FINALIZE_TIP_MARGIN

ASSUME MarginAssumption == FINALIZE_TIP_MARGIN \in Nat

noFill(pay) == [got |-> 0, pay |-> pay, fee |-> 0, rebate |-> 0]

\* What paying pay for offer o gives: got = 0 is "not deliverable".
previewFill(o, pay) ==
  LET want == o.terms.want.amount
      give == o.terms.give
      left == want - o.paid
      x    == Smaller(pay, left)
      resting == \/ o.terms.taker # None /\ o.terms.bid # None
                 \/ o.terms.taker = None /\ o.height >= V17_HEIGHT
  IN IF o.status # "open" \/ isTokenWant(o.terms.want) THEN noFill(0)
     ELSE IF o.terms.min # 0 /\ ~isNameGive(give)
       THEN IF pay < Smaller(left, o.terms.min) THEN noFill(0)
            ELSE [got |-> (give.amount * (o.paid + x)) \div want - o.delivered,
                  pay |-> x, fee |-> tradeFee(o, x), rebate |-> 0]
     ELSE IF pay < want THEN noFill(pay)
     ELSE [got    |-> IF isNameGive(give) THEN 1 ELSE give.amount,
           pay    |-> want, fee |-> tradeFee(o, want),
           rebate |-> IF o.height >= V16_HEIGHT /\ resting
                        THEN makerRebate(want) ELSE 0]

\* Mutant of requiredFillOutputs: legs that fall on one address replace each
\* other instead of adding up.
requiredFillOutputsUnmerged(o, pay) ==
  LET p == previewFill(o, pay)
  IN [a \in Addrs |-> IF a = o.seller /\ p.rebate # 0 THEN p.rebate
                      ELSE IF a = TREASURY_ADDR THEN p.fee
                      ELSE IF a = paytoOf(o) THEN p.pay ELSE 0]

\* The outputs such a fill must carry, summed per address.
requiredFillOutputs(o, pay) ==
  LET p == previewFill(o, pay)
  IN [a \in Addrs |-> (IF a = paytoOf(o) THEN p.pay ELSE 0)
                        + (IF a = TREASURY_ADDR THEN p.fee ELSE 0)
                        + (IF a = o.seller THEN p.rebate ELSE 0)]

isOpenClaimLane(o, tip) ==
  tip >= V13_HEIGHT /\ o.terms.taker = None /\ ~isTokenWant(o.terms.want)

hasLiveClaim(o, me, tip) ==
  /\ tip >= V17_HEIGHT
  /\ o.claimedBy = me
  /\ tip < o.claimUntilHeight + claimGraceOf(o.claimUntilHeight, o.claimTxid)

\* The txid a fill attests: that of the fclaim while its hold is live.
fillTargetId(id, o, tip) ==
  IF tip >= V28_HEIGHT /\ o.claimTxid # None /\ tip < o.claimUntilHeight
    THEN o.claimTxid ELSE id

\* The first verdict, kept as published: it knows no target, and a token-priced
\* fill is safe.
fillIsSafe(o, me, pay, tip) ==
  /\ o.status = "open" /\ o.terms.taker \in {None, me}
  /\ isOpenClaimLane(o, tip) => hasLiveClaim(o, me, tip)
  /\ isTokenWant(o.terms.want) \/ previewFill(o, pay).got > 0

\* A token-priced offer is neither refused nor endorsed: the record does not
\* show the buyer's balance.
fillEndorsement(id, o, me, pay, tip, target) ==
  IF \/ o.status # "open"
     \/ o.terms.taker \notin {None, me}
     \/ isOpenClaimLane(o, tip) /\ ~hasLiveClaim(o, me, tip)
     \/ target # fillTargetId(id, o, tip)
    THEN "refused"
  ELSE IF isTokenWant(o.terms.want) THEN "not-endorsable"
  ELSE IF previewFill(o, pay).got = 0 THEN "refused" ELSE "endorsed"

-----------------------------------------------------------------------------
\* Mutant of finalizeWinnerCheck: safe up to the deadline itself.
finalizeWinnerCheckLate(r, me, commitHeight, tip) ==
  /\ r.owner = me /\ r.pending
  /\ r.effHeight = commitHeight
  /\ tip > r.effHeight + REG_COMMIT_MAX_BLOCKS + FINALIZE_TIP_MARGIN
  /\ tip <= r.effHeight + REG_COMMIT_MAX_BLOCKS + REG_FINALIZE_GRACE_BLOCKS

\* The window is derived from the commit the client made itself; the margin on
\* both sides is for the blocks between signing and mining.
finalizeWinnerCheck(r, me, commitHeight, tip) ==
  /\ r.owner = me /\ r.pending
  /\ r.effHeight = commitHeight
  /\ tip > r.effHeight + REG_COMMIT_MAX_BLOCKS + FINALIZE_TIP_MARGIN
  /\ tip <= r.effHeight + REG_COMMIT_MAX_BLOCKS + REG_FINALIZE_GRACE_BLOCKS
              - FINALIZE_TIP_MARGIN

-----------------------------------------------------------------------------
fclaimHoldEnd(E) == (E + 1) * EPOCH_LEN - 1
=============================================================================
