------------------------- MODULE SendFlowProperties -------------------------
(***************************************************************************)
(* What makes a payment through the RPC client correct.                    *)
(***************************************************************************)
EXTENDS SendFlow

SumsTo(S) == MapThenSumSet(LAMBDA c : ValueOf[c], S)

\* Nothing is burned: whatever list and whatever sources a node serves, what
\* is signed spends coins that, at the values their sources commit to, are worth
\* exactly the outputs, the fee the caller named and the change it gets back;
\* no coin is spent twice, and the sums stay within what JavaScript adds
\* exactly.
Signed == stage \notin {"idle", "listing", "verifying", "refused"}

NothingBurned ==
  Signed =>
    LET spent == {inputs[i] : i \in DOMAIN inputs}
    IN /\ Cardinality(spent) = Len(inputs)
       /\ SumsTo(spent) = order.sumOut + order.fee + change
       /\ change >= 0 /\ isSafe(total)

\* A broadcast is sent at most once, whatever its fate: no timeout and no error
\* of the server is answered by sending it again.  And the nested loops of
\* rounds, inputs and retries bound what a node that fails, lies or stalls can
\* make one build ask for.
SentOnce ==
  /\ seen.broadcasts <= 1
  /\ seen.gets <= MAX_SELECT_ROUNDS * MAX_TX_INPUTS * (Retries + 1)

\* waitForTx resolves on what one chain said: unless that chain reorganized
\* between the /tx and the /tip it resolved on, the transaction is in the chain
\* at the height it saw, exactly as deep as it reports.  No sighting of an
\* earlier poll survives.
ConfirmedOnOneChain ==
  [][stage # "confirmed" /\ stage' = "confirmed" /\ ~seen.reorged =>
       /\ node.minedAt = sighting
       /\ depth' = node.tip - node.minedAt + 1]_vars

\* Requests are sent, come back or time out; timers fire and deadlines pass.
Running ==
  /\ WF_vars(Send) /\ WF_vars(Settle) /\ WF_vars(PollAgain) /\ WF_vars(Deadline)

FairSpec == Spec /\ Running

\* A wait ends, resolved or rejected, also for a transaction that never gets
\* in, that a reorganization dropped, or whose node no longer answers.
WaitEnds == Waiting ~> ~Waiting

-----------------------------------------------------------------------------
(* What the documentation says, and the code does not keep.                *)

\* "A tx that drops OUT of the chain mid-wait (reorg) keeps polling until it
\* re-confirms or times out - never resolves on a stale sighting."
NeverOnStaleSighting ==
  [][stage # "confirmed" /\ stage' = "confirmed" => node.minedAt = sighting]_vars
=============================================================================
