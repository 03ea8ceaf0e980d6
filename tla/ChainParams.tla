----------------------------- MODULE ChainParams -----------------------------
(***************************************************************************)
(* The emission schedule of the chain (codec/src/params.ts).               *)
(***************************************************************************)
EXTENDS Integers, FiniteSetsExt

CONSTANTS INITIAL_REWARD, HALVING_INTERVAL, MAX_HALVINGS

ASSUME EmissionAssumption ==
  /\ INITIAL_REWARD \in Nat /\ MAX_HALVINGS \in Nat
  /\ HALVING_INTERVAL \in Nat \ {0}

rewardOfEra(era) == INITIAL_REWARD \div 2 ^ era

blockReward(h) ==
  LET halvings == h \div HALVING_INTERVAL
  IN IF halvings >= MAX_HALVINGS THEN 0 ELSE rewardOfEra(halvings)

\* What the blocks 0 .. h, genesis included, have paid: era by era.
emittedSupplyBase(h) ==
  LET blocks == h + 1
      inEra(era) == LET rest == blocks - era * HALVING_INTERVAL
                    IN IF rest <= 0 THEN 0
                       ELSE IF rest < HALVING_INTERVAL THEN rest ELSE HALVING_INTERVAL
  IN MapThenSumSet(LAMBDA era : rewardOfEra(era) * inEra(era), 0 .. MAX_HALVINGS - 1)

maxSupplyBase ==
  MapThenSumSet(LAMBDA era : rewardOfEra(era) * HALVING_INTERVAL, 0 .. MAX_HALVINGS - 1)
=============================================================================
