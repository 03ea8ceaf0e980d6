---------------------------- MODULE SaleContract ----------------------------
(***************************************************************************)
(* What the listings promise their sellers and their buyers from V28 on,   *)
(* with nothing of how the resolver keeps the promise: no prices, locks,   *)
(* records or txids.  A listing is in one of three lanes.  In the open     *)
(* lane it is bought through an exclusive, bounded hold; in the quote lane *)
(* only by the taker it names, and it is firm; in the swap lane by whoever *)
(* comes first, since a swap pays and delivers in one step.                *)
(***************************************************************************)
EXTENDS Integers

CONSTANTS Listings, Buyers, Nobody, MaxHold

VARIABLES block,    \* the block being replayed
          status, lane, taker,
          holder,   \* who was last granted the hold of the listing
          until,    \* the first block that hold no longer covers
          buyer

vars == <<block, status, lane, taker, holder, until, buyer>>

Held(l) == holder[l] # Nobody /\ block < until[l]

Init ==
  /\ block \in Nat
  /\ status = [l \in Listings |-> "none"]
  /\ lane = [l \in Listings |-> "swap"]
  /\ taker = [l \in Listings |-> Nobody]
  /\ holder = [l \in Listings |-> Nobody]
  /\ until = [l \in Listings |-> 0]
  /\ buyer = [l \in Listings |-> Nobody]

\* Time passes.
Tick ==
  /\ block' > block
  /\ UNCHANGED <<status, lane, taker, holder, until, buyer>>

List(l) ==
  /\ status[l] = "none"
  /\ status' = [status EXCEPT ![l] = "open"]
  /\ \E ln \in {"open", "quote", "swap"}, t \in Buyers \cup {Nobody} :
       /\ (ln = "quote") <=> (t # Nobody)
       /\ lane' = [lane EXCEPT ![l] = ln]
       /\ taker' = [taker EXCEPT ![l] = t]
  /\ UNCHANGED <<block, holder, until, buyer>>

\* Nobody's hold is live, and the new one is short.
Hold(l) ==
  /\ status[l] = "open" /\ lane[l] = "open" /\ ~Held(l)
  /\ \E who \in Buyers : holder' = [holder EXCEPT ![l] = who]
  /\ \E end \in block + 1 .. block + MaxHold : until' = [until EXCEPT ![l] = end]
  /\ UNCHANGED <<block, status, lane, taker, buyer>>

Sell(l) ==
  /\ status[l] = "open"
  /\ status' = [status EXCEPT ![l] = "filled"]
  /\ \E who \in Buyers :
       /\ lane[l] = "open"  => Held(l) /\ who = holder[l]
       /\ lane[l] = "quote" => who = taker[l]
       /\ buyer' = [buyer EXCEPT ![l] = who]
  /\ UNCHANGED <<block, lane, taker, holder, until>>

\* A firm quote and a held listing stay.
Withdraw(l) ==
  /\ status[l] = "open" /\ lane[l] # "quote" /\ ~Held(l)
  /\ status' = [status EXCEPT ![l] = "cancelled"]
  /\ UNCHANGED <<block, lane, taker, holder, until, buyer>>

Expire(l) ==
  /\ status[l] = "open" /\ ~Held(l)
  /\ status' = [status EXCEPT ![l] = "expired"]
  /\ UNCHANGED <<block, lane, taker, holder, until, buyer>>

Next ==
  \/ Tick
  \/ \E l \in Listings : List(l) \/ Hold(l) \/ Sell(l) \/ Withdraw(l) \/ Expire(l)

Spec == Init /\ [][Next]_vars
=============================================================================
