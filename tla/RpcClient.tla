----------------------------- MODULE RpcClient -----------------------------
(***************************************************************************)
(* CsdClient.req (client/src/index.ts): one request at a time, with its    *)
(* attempts.  An attempt that was sent comes back as an answer, as a       *)
(* refusal (a 4xx, which is final) or as an outage: a network failure, a   *)
(* timeout, a 5xx, a body over the byte ceiling or one that is no JSON.    *)
(***************************************************************************)
EXTENDS Naturals

CONSTANT Retries   \* the option retries

ASSUME RetriesAssumption == Retries \in Nat

VARIABLE call

NoCall == [path |-> "none", attempt |-> 0, sent |-> FALSE]

\* Mutant of maxRetries: a broadcast has the retries of a read.
maxRetriesAll(path) == Retries

\* A broadcast is never sent again.
maxRetries(path) == IF path = "submit" THEN 0 ELSE Retries

ask(path) == call' = [path |-> path, attempt |-> 0, sent |-> FALSE]

\* The fetch of one attempt, after the backoff if it is not the first.
SendAttempt ==
  /\ call.path # "none" /\ ~call.sent
  /\ call' = [call EXCEPT !.sent = TRUE]

AnswerDue(path) == call.path = path /\ call.sent

\* An outage that may be tried again.
Retry ==
  /\ call.sent /\ call.attempt < maxRetries(call.path)
  /\ call' = [call EXCEPT !.attempt = call.attempt + 1, !.sent = FALSE]

\* What the caller sees as a throw.
Throws(path, outcome) ==
  /\ AnswerDue(path)
  /\ outcome = "refusal" \/ call.attempt >= maxRetries(path)
=============================================================================
