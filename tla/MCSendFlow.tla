---------------------------- MODULE MCSendFlow ----------------------------
(***************************************************************************)
(* Coins, the lists a node serves of them, and orders, for the runs.       *)
(***************************************************************************)
EXTENDS SendFlowProperties

CONSTANTS w, x, y, z

Values == [c \in Coins |-> IF c = x THEN 9 ELSE IF c = y THEN 3
                         ELSE IF c = z THEN 4 ELSE 5]

Listed(c, v, n, mined) ==
  [coin |-> c, value |-> v, confirmations |-> n, coinbase |-> mined]

\* Honest; under-reported, which would burn; one coin twice, in two spellings;
\* a fresh coin and a coinbase coin; over-reported beyond what adds exactly.
Lists ==
  {<<Listed(x, 9, 1, FALSE), Listed(y, 3, 1, FALSE), Listed(z, 4, 1, TRUE)>>,
   <<Listed(x, 2, 1, FALSE), Listed(z, 3, 1, FALSE), Listed(y, 2, 1, FALSE),
     Listed(w, 3, 1, FALSE)>>,
   <<Listed(y, 3, 1, FALSE), Listed(y, 2, 1, FALSE), Listed(z, 4, 0, FALSE)>>,
   <<Listed(x, 11, 1, FALSE), Listed(z, 4, 1, FALSE), Listed(y, 0, 1, FALSE)>>}

Order(kind, sum, n, fee, cap) ==
  [kind |-> kind, sumOut |-> sum, numOuts |-> n, fee |-> fee, maxFee |-> cap]

\* A payment; one for which two coins are needed and change may not fit; a
\* record; a weight above every cap; a fee the caller capped.
SomeOrders ==
  {Order("send", 3, 1, 1, NoMaxFee), Order("send", 4, 2, 1, NoMaxFee),
   Order("propose", 0, 0, 2, NoMaxFee), Order("attest", 1, 1, 3, NoMaxFee),
   Order("send", 3, 1, 2, 1)}
=============================================================================
