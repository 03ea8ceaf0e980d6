----------------------------- MODULE HeaderCodec -----------------------------
(***************************************************************************)
(* codec/src/header.ts: compact difficulty bits, proof of work, and the    *)
(* merkle tree of a block.  A byte has BYTE values and a target            *)
(* TARGET_BYTES bytes (256 and 32 in the code).                            *)
(***************************************************************************)
EXTENDS Integers, Sequences, SequencesExt, FiniteSetsExt

CONSTANTS BYTE, TARGET_BYTES, POW_LIMIT_BITS, MAX_WORK

SIGN_BIT == BYTE ^ 3 \div 2
TARGET_END == BYTE ^ TARGET_BYTES

\* 0 stands for every bits word that encodes no target.
bitsToTarget(bits) ==
  LET exp  == bits \div BYTE ^ 3
      mant == bits % BYTE ^ 3
      t    == IF exp <= 3 THEN mant \div BYTE ^ (3 - exp) ELSE mant * BYTE ^ (exp - 3)
  IN IF exp = 0 \/ mant >= SIGN_BIT \/ exp > TARGET_BYTES \/ t >= TARGET_END THEN 0 ELSE t

minBytes(x) == Min({k \in 0 .. TARGET_BYTES : x < BYTE ^ k})

mantissa(x) ==
  LET e == minBytes(x)
  IN IF e <= 3 THEN x * BYTE ^ (3 - e) ELSE x \div BYTE ^ (e - 3)

\* Mutant of targetToBits: a mantissa may have its sign bit set.
targetToBitsSigned(x) == IF x = 0 THEN 0 ELSE minBytes(x) * BYTE ^ 3 + mantissa(x)

targetToBits(x) ==
  IF x = 0 THEN 0
  ELSE IF mantissa(x) >= SIGN_BIT
    THEN (minBytes(x) + 1) * BYTE ^ 3 + mantissa(x) \div BYTE
  ELSE minBytes(x) * BYTE ^ 3 + mantissa(x)

POW_LIMIT_TARGET == bitsToTarget(POW_LIMIT_BITS)

withinPowLimit(bits) == bitsToTarget(bits) \in 1 .. POW_LIMIT_TARGET

powOk(hash, bits) == withinPowLimit(bits) /\ hash <= bitsToTarget(bits)

workForBits(bits) ==
  IF withinPowLimit(bits)
    THEN Min({MAX_WORK, TARGET_END \div (bitsToTarget(bits) + 1)}) ELSE 0

-----------------------------------------------------------------------------
(* The merkle tree.  A hash of two nodes is the pair; a txid is [leaf |-> x]. *)

pairUp(layer) ==
  [i \in 1 .. (Len(layer) + 1) \div 2 |->
     [l |-> layer[2 * i - 1], r |-> layer[Min({2 * i, Len(layer)})]]]

\* The layers of the tree, from the txids up.
layers(txids) ==
  LET layer[k \in Nat] == IF k = 0 THEN txids ELSE pairUp(layer[k - 1]) IN layer

\* How many pairings leave one node.
depth(n) == Min({k \in 0 .. n : n <= 2 ^ k})

merkleRoot(txids) ==
  IF txids = <<>> THEN [leaf |-> <<>>] ELSE layers(txids)[depth(Len(txids))][1]

\* The sibling of each node on the way up: the last of an odd layer is its own.
merkleBranch(txids, p) ==
  [k \in 1 .. depth(Len(txids)) |->
     LET layer == layers(txids)[k - 1]
         at    == p \div 2 ^ (k - 1)
         sib   == IF at % 2 = 1 THEN at - 1 ELSE at + 1
     IN layer[Min({sib + 1, Len(layer)})]]

verifyMerkleProof(txid, p, branch, root) ==
  LET up(n, sib) == [h |-> IF n.at % 2 = 1 THEN [l |-> sib, r |-> n.h] ELSE [l |-> n.h, r |-> sib],
                     at |-> n.at \div 2]
  IN FoldLeft(up, [h |-> txid, at |-> p], branch).h = root
=============================================================================
