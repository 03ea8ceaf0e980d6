------------------------------ MODULE SendFlow ------------------------------
(***************************************************************************)
(* One payment through one CsdClient, as examples/quickstart.mjs does it:  *)
(* list the coins, build and sign with every input value verified          *)
(* (buildSendVerified, buildProposeVerified, buildAttestVerified over      *)
(* verifyInputValues), broadcast (submitOrThrow) and await the             *)
(* confirmations (waitForTx), against a node that may serve anything while *)
(* the payment is built, and whose chain reorganizes while it is awaited.  *)
(***************************************************************************)
EXTENDS RpcClient, CoinSelection

CONSTANTS
  ValueOf,            \* coin -> the value its source transaction commits to
  Orders,             \* [kind, sumOut, numOuts, fee, maxFee]
  Listings,           \* coin lists a node may serve
  MAX_SELECT_ROUNDS,  \* 3 in the code
  Depths,             \* confirmations a caller may ask for
  MaxTip, MaxReorgs   \* bounds of the node's chain

ASSUME FlowAssumption ==
  /\ ValueOf \in [Coins -> Int]
  /\ Orders \subseteq [kind : {"send", "propose", "attest"}, sumOut : Nat,
                       numOuts : Nat, fee : Nat, maxFee : Nat \cup {NoMaxFee}]
  /\ Listings \subseteq Seq([coin : Coins, value : Int, confirmations : Int,
                             coinbase : BOOLEAN])
  /\ Depths \subseteq Nat \ {0} /\ MAX_SELECT_ROUNDS \in Nat \ {0}
  /\ MaxTip \in Nat /\ MaxReorgs \in Nat

VARIABLES
  stage,      \* where the payment is
  order,
  utxos,      \* the list it selects from
  exclude,    \* coins a round of verification named bad
  round,
  inputs,     \* the selection
  checked,    \* how many of its inputs are verified
  total,      \* and what they are worth
  want,       \* the confirmations waited for
  sighting,   \* the height of the last /tx answer that had one
  late,       \* the deadline of the wait has passed
  depth,      \* the confirmations it resolved with
  node,       \* the node's chain and mempool
  seen        \* history of the properties

buildVars == <<order, utxos, exclude, round, inputs, checked, total>>
waitVars == <<want, sighting, late, depth>>
vars == <<call, stage, buildVars, waitVars, node, seen>>

Init ==
  /\ call = NoCall /\ stage = "idle" /\ order \in Orders
  /\ utxos = <<>> /\ exclude = {} /\ round = 0
  /\ inputs = <<>> /\ checked = 0 /\ total = 0
  /\ want = 1 /\ sighting = 0 /\ late = FALSE /\ depth = 0
  /\ node = [tip |-> 1, minedAt |-> 0, pooled |-> FALSE, wire |-> 0,
             taken |-> FALSE, accepted |-> FALSE]
  /\ seen = [gets |-> 0, broadcasts |-> 0, reorgs |-> 0, reorged |-> FALSE]

change == total - need(order)

-----------------------------------------------------------------------------
(* Requests.  The node may take a broadcast after the client gave up on    *)
(* it, or never.                                                           *)

Send ==
  /\ SendAttempt
  /\ seen' = [seen EXCEPT
       !.gets = IF stage = "verifying" THEN seen.gets + 1 ELSE seen.gets,
       !.broadcasts = IF call.path = "submit" THEN seen.broadcasts + 1
                                              ELSE seen.broadcasts]
  /\ node' = IF call.path = "submit" THEN [node EXCEPT !.wire = node.wire + 1]
                                     ELSE node
  /\ UNCHANGED <<stage, buildVars, waitVars>>

SendAgain == Retry /\ UNCHANGED <<stage, buildVars, waitVars, node, seen>>

-----------------------------------------------------------------------------
(* Building.                                                               *)

ListCoins ==
  /\ stage = "idle" /\ stage' = "listing" /\ ask("utxos")
  /\ UNCHANGED <<buildVars, waitVars, node, seen>>

Refuse == stage' = "refused" /\ call' = NoCall

\* Select by the reported values, and ask for the source of the first input.
SelectRound(list, bad, r) ==
  /\ inputs' = selectInputs(list, need(order), bad)
  /\ exclude' = bad /\ round' = r /\ checked' = 0 /\ total' = 0
  /\ IF inputs' = <<>> THEN Refuse ELSE stage' = "verifying" /\ ask("tx")

CoinsListed(list) ==
  /\ AnswerDue("utxos") /\ utxos' = list
  /\ IF validOrder(order) THEN SelectRound(list, {}, 0)
     ELSE Refuse /\ UNCHANGED <<exclude, round, inputs, checked, total>>
  /\ UNCHANGED <<order, waitVars, node, seen>>

ListThrew(outcome) ==
  /\ Throws("utxos", outcome) /\ Refuse
  /\ UNCHANGED <<buildVars, waitVars, node, seen>>

\* The verifier names an input: it is left out of the next round, or the last
\* round ends the build.
lastRound == round >= MAX_SELECT_ROUNDS - 1

BadInput(coin) ==
  IF lastRound
    THEN Refuse /\ UNCHANGED <<exclude, round, inputs, checked, total>>
    ELSE SelectRound(utxos, exclude \cup {coin}, round + 1)

\* Mutant of provesInput: the txid of the body is not recomputed.
provesAnything(body, coin) == body \in Coins

\* The recomputed txid commits to the body, hence to the value of the output.
provesInput(body, coin) == body = coin

inputValue(body) == IF body \in Coins THEN ValueOf[body] ELSE 0

admissible(body, coin) ==
  LET v == inputValue(body)
  IN provesInput(body, coin) /\ v > 0 /\ isSafe(v) /\ isSafe(total + v)

\* One verified input: the next one, or the assembly and the signature.
GoodInput(v) ==
  /\ checked' = checked + 1 /\ total' = total + v
  /\ IF checked' < Len(inputs) THEN ask("tx") /\ UNCHANGED stage
     ELSE IF signable(order, total') THEN stage' = "signed" /\ call' = NoCall
     ELSE Refuse
  /\ UNCHANGED <<exclude, round, inputs>>

SourceServed(body) ==
  /\ stage = "verifying" /\ AnswerDue("tx")
  /\ LET coin == inputs[checked + 1]
     IN IF admissible(body, coin) THEN GoodInput(inputValue(body))
                                  ELSE BadInput(coin)
  /\ UNCHANGED <<order, utxos, waitVars, node, seen>>

SourceThrew(outcome) ==
  /\ stage = "verifying" /\ Throws("tx", outcome)
  /\ BadInput(inputs[checked + 1])
  /\ UNCHANGED <<order, utxos, waitVars, node, seen>>

-----------------------------------------------------------------------------
(* Broadcasting.                                                           *)

Submit ==
  /\ stage = "signed" /\ stage' = "submitting" /\ ask("submit")
  /\ UNCHANGED <<buildVars, waitVars, node, seen>>

\* submitOrThrow throws on ok:false.
SubmitAnswered ==
  /\ AnswerDue("submit") /\ node.taken
  /\ stage' = IF node.accepted THEN "sent" ELSE "rejected"
  /\ call' = NoCall
  /\ UNCHANGED <<buildVars, waitVars, node, seen>>

\* The caller knows the txid, and not whether the node has the transaction.
SubmitThrew(outcome) ==
  /\ Throws("submit", outcome) /\ stage' = "unsure" /\ call' = NoCall
  /\ UNCHANGED <<buildVars, waitVars, node, seen>>

-----------------------------------------------------------------------------
(* waitForTx.                                                              *)

WaitForTx(n) ==
  /\ stage \in {"sent", "unsure"} /\ stage' = "waiting" /\ ask("tx")
  /\ want' = n /\ UNCHANGED <<sighting, late, depth, buildVars, node, seen>>

\* Mutant of Pause: the deadline is not looked at.
PauseAlways == stage' = "sleeping" /\ call' = NoCall

\* The end of one round of the loop: the deadline is looked at, then it sleeps.
Pause ==
  /\ stage' = (IF late THEN "timedOut" ELSE "sleeping")
  /\ call' = NoCall

\* Mutant of TxAnswered: a sighting outlives the answer that it is gone.
TxAnsweredSticky ==
  /\ stage = "waiting" /\ AnswerDue("tx")
  /\ IF node.minedAt # 0 \/ sighting # 0
       THEN /\ sighting' = IF node.minedAt # 0 THEN node.minedAt ELSE sighting
            /\ stage' = "counting" /\ ask("tip")
       ELSE Pause /\ UNCHANGED sighting
  /\ seen' = [seen EXCEPT !.reorged = FALSE]
  /\ UNCHANGED <<buildVars, want, late, depth, node>>

\* The answer of /tx; seen.reorged starts anew with it.
TxAnswered ==
  /\ stage = "waiting" /\ AnswerDue("tx")
  /\ IF node.minedAt # 0
       THEN sighting' = node.minedAt /\ stage' = "counting" /\ ask("tip")
       ELSE Pause /\ UNCHANGED sighting
  /\ seen' = [seen EXCEPT !.reorged = FALSE]
  /\ UNCHANGED <<buildVars, want, late, depth, node>>

\* The answer of /tip: the depth of the sighting under the tip it names.
TipAnswered ==
  /\ stage = "counting" /\ AnswerDue("tip")
  /\ LET conf == node.tip - sighting + 1
     IN IF conf >= want THEN stage' = "confirmed" /\ depth' = conf /\ call' = NoCall
                        ELSE Pause /\ UNCHANGED depth
  /\ UNCHANGED <<buildVars, want, sighting, late, node, seen>>

\* A failed read is as good as none.
WaitThrew(outcome) ==
  /\ \/ stage = "waiting" /\ Throws("tx", outcome)
     \/ stage = "counting" /\ Throws("tip", outcome)
  /\ Pause
  /\ UNCHANGED <<buildVars, waitVars, node, seen>>

PollAgain ==
  /\ stage = "sleeping" /\ stage' = "waiting" /\ ask("tx")
  /\ UNCHANGED <<buildVars, waitVars, node, seen>>

Waiting == stage \in {"waiting", "counting", "sleeping"}

Deadline ==
  /\ Waiting /\ ~late /\ late' = TRUE
  /\ UNCHANGED <<call, stage, buildVars, want, sighting, depth, node, seen>>

-----------------------------------------------------------------------------
(* The node: its mempool takes a broadcast or rejects it, its chain grows, *)
(* and gives way to a heavier branch of any length.                        *)

TakeBroadcast ==
  /\ node.wire > 0
  /\ \E ok \in BOOLEAN :
       node' = [node EXCEPT !.wire = node.wire - 1, !.taken = TRUE,
                            !.accepted = ok,
                            !.pooled = node.pooled \/ (ok /\ node.minedAt = 0)]
  /\ UNCHANGED <<call, stage, buildVars, waitVars, seen>>

LoseBroadcast ==
  /\ node.wire > 0 /\ node' = [node EXCEPT !.wire = node.wire - 1]
  /\ UNCHANGED <<call, stage, buildVars, waitVars, seen>>

Mine ==
  /\ node.tip < MaxTip
  /\ \/ node' = [node EXCEPT !.tip = node.tip + 1]
     \/ /\ node.pooled
        /\ node' = [node EXCEPT !.tip = node.tip + 1, !.pooled = FALSE,
                                !.minedAt = node.tip + 1]
  /\ UNCHANGED <<call, stage, buildVars, waitVars, seen>>

\* Blocks above fork give way to others up to tip.
Reorg(fork, tip) ==
  /\ seen.reorgs < MaxReorgs /\ fork < node.tip /\ fork < tip
  /\ IF node.minedAt > fork \/ node.pooled
       THEN \E at \in {0} \cup (fork + 1)..tip :
              node' = [node EXCEPT !.tip = tip, !.minedAt = at, !.pooled = at = 0]
       ELSE node' = [node EXCEPT !.tip = tip]
  /\ seen' = [seen EXCEPT !.reorgs = seen.reorgs + 1, !.reorged = TRUE]
  /\ UNCHANGED <<call, stage, buildVars, waitVars>>

-----------------------------------------------------------------------------

Unreadable == "unreadable"   \* no body, or one the codec refuses

Outcomes == {"outage", "refusal"}

Settle ==
  \/ \E list \in Listings : CoinsListed(list)
  \/ \E body \in Coins \cup {Unreadable} : SourceServed(body)
  \/ \E outcome \in Outcomes : \/ ListThrew(outcome) \/ SourceThrew(outcome)
                               \/ SubmitThrew(outcome) \/ WaitThrew(outcome)
  \/ SubmitAnswered \/ TxAnswered \/ TipAnswered

Next ==
  \/ ListCoins \/ Submit \/ \E n \in Depths : WaitForTx(n)
  \/ Send \/ SendAgain \/ Settle
  \/ PollAgain \/ Deadline
  \/ TakeBroadcast \/ LoseBroadcast \/ Mine
  \/ \E fork \in 1..MaxTip, tip \in 1..MaxTip : Reorg(fork, tip)

Spec == Init /\ [][Next]_vars
=============================================================================
