--------------------------- MODULE CoinSelection ---------------------------
(***************************************************************************)
(* The pure half of the transaction builder (tx/src/index.ts): which coins *)
(* of a served list pay for an order, and when a selection may be signed.  *)
(*                                                                         *)
(* A served list may name a coin twice, in two spellings of its outpoint,  *)
(* and with any value: here an entry names the coin, and spellings are the *)
(* only thing left out.                                                    *)
(***************************************************************************)
EXTENDS Integers, Sequences, FiniteSetsExt

CONSTANTS
  Coins,              \* the outpoints of the chain
  NoMaxFee,           \* the caller passes no maxFee
  MAX_SAFE_INTEGER,   \* 2^53 - 1
  MAX_TX_INPUTS, MAX_TX_OUTPUTS,
  MIN_FEE_PROPOSE, MIN_FEE_ATTEST,
  MAX_FEE_BACKSTOP,   \* what feeCap never falls below
  MAX_FEE_DIVISOR     \* 10: the cap is a tenth of the inputs

ASSUME SelectionAssumption ==
  /\ NoMaxFee \notin Int
  /\ {MAX_SAFE_INTEGER, MAX_TX_INPUTS, MAX_TX_OUTPUTS, MIN_FEE_PROPOSE,
      MIN_FEE_ATTEST, MAX_FEE_BACKSTOP} \subseteq Nat
  /\ MAX_FEE_DIVISOR \in Nat \ {0}

isSafe(v) == v \in 0..MAX_SAFE_INTEGER

-----------------------------------------------------------------------------
(* Selection, by the values the list reports.                              *)

usable(u, exclude) ==
  /\ u.confirmations >= 1 /\ u.value > 0 /\ isSafe(u.value)
  /\ u.coin \notin exclude

\* The entries that count: the first usable one of each coin.
confirmed(utxos, exclude) ==
  {i \in DOMAIN utxos :
     /\ usable(utxos[i], exclude)
     /\ \A j \in 1..(i - 1) :
          usable(utxos[j], exclude) => utxos[j].coin # utxos[i].coin}

\* A stable sort by descending value: i comes before j.
outranks(utxos, i, j) ==
  \/ utxos[i].value > utxos[j].value
  \/ utxos[i].value = utxos[j].value /\ i < j

largestFirst(utxos, pool) ==
  [k \in 1..Cardinality(pool) |->
     CHOOSE i \in pool : Cardinality({j \in pool : outranks(utxos, j, i)}) = k - 1]

reported(utxos, entries) == MapThenSumSet(LAMBDA i : utxos[i].value, entries)

\* The shortest run of the largest coins that reaches need, or <<>> for null.
take(utxos, pool, need) ==
  LET order == largestFirst(utxos, pool)
      sum(k) == reported(utxos, {order[j] : j \in 1..k})
      enough == {k \in DOMAIN order : sum(k) >= need}
  IN IF /\ enough # {}
        /\ Min(enough) <= MAX_TX_INPUTS /\ isSafe(sum(Min(enough)))
       THEN [k \in 1..Min(enough) |-> utxos[order[k]].coin]
       ELSE <<>>

\* Coinbase coins are only turned to when the others do not suffice.
selectInputs(utxos, need, exclude) ==
  LET all == confirmed(utxos, exclude)
      plain == take(utxos, {i \in all : ~utxos[i].coinbase}, need)
  IN IF plain # <<>> THEN plain ELSE take(utxos, all, need)

-----------------------------------------------------------------------------
(* The order, and what may be signed for it.                               *)

\* What the builders check before they select: sumOut of numOuts valid outputs.
validOrder(o) ==
  /\ o.kind = "send" => o.numOuts > 0
  /\ o.kind = "propose" => o.fee >= MIN_FEE_PROPOSE
  /\ o.kind = "attest" => o.fee >= MIN_FEE_ATTEST
  /\ isSafe(o.fee) /\ isSafe(o.sumOut)

need(o) == o.sumOut + o.fee

feeCap(inTotal) ==
  LET tenth == inTotal \div MAX_FEE_DIVISOR
  IN IF tenth > MAX_FEE_BACKSTOP THEN tenth ELSE MAX_FEE_BACKSTOP

\* The fee of an attest is its weight: it is its own cap.
feeAllowed(o, total) ==
  IF o.maxFee # NoMaxFee THEN o.fee <= o.maxFee
  ELSE o.kind = "attest" \/ o.fee <= feeCap(total)

\* What assemble refuses.  The feerate floor is one unit for up to a megabyte.
signable(o, total) ==
  LET change == total - need(o)
  IN /\ isSafe(total) /\ change >= 0
     /\ feeAllowed(o, total)
     /\ o.numOuts + (IF change > 0 THEN 1 ELSE 0) <= MAX_TX_OUTPUTS
     /\ o.fee >= 1
=============================================================================
