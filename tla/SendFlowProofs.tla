--------------------------- MODULE SendFlowProofs ---------------------------
(***************************************************************************)
(* Theorems about a payment: a broadcast goes out once and a build is      *)
(* bounded, nothing of what is signed is burned, and a wait resolves on    *)
(* what one chain said, for every number of retries, rounds, inputs and    *)
(* coins, and whatever the node does.                                      *)
(***************************************************************************)
EXTENDS SendFlowProperties, SumProofs, TLAPS

-----------------------------------------------------------------------------
(* The inductive invariant.                                                *)

Stages == {"idle", "listing", "verifying", "refused", "signed", "submitting",
           "sent", "rejected", "unsure", "waiting", "counting", "sleeping",
           "timedOut", "confirmed"}

Paths == {"none", "utxos", "tx", "submit", "tip"}

CallTypes == [path : Paths, attempt : Nat, sent : BOOLEAN]
NodeTypes == [tip : Nat, minedAt : Nat, pooled : BOOLEAN, wire : Nat,
              taken : BOOLEAN, accepted : BOOLEAN]
SeenTypes == [gets : Nat, broadcasts : Nat, reorgs : Nat, reorged : BOOLEAN]

Types ==
  /\ call \in CallTypes
  /\ stage \in Stages /\ order \in Orders
  /\ utxos = <<>> \/ utxos \in Listings
  /\ round \in 0 .. MAX_SELECT_ROUNDS - 1 /\ checked \in Nat
  /\ sighting \in Nat /\ want \in Nat
  /\ node \in NodeTypes /\ seen \in SeenTypes

\* The request a stage waits for.
PathOf(s) ==
  IF s = "listing" THEN "utxos"
  ELSE IF s \in {"verifying", "waiting"} THEN "tx"
  ELSE IF s = "submitting" THEN "submit"
  ELSE IF s = "counting" THEN "tip" ELSE "none"

OneRequest == call.path = PathOf(stage)

\* The attempts a request has made so far, the one under way included.
made == call.attempt + (IF call.sent THEN 1 ELSE 0)

Unsent == {"idle", "listing", "verifying", "refused", "signed"}

Broadcasts ==
  /\ stage \in Unsent => seen.broadcasts = 0
  /\ stage = "submitting" => call.attempt = 0 /\ seen.broadcasts = made
  /\ seen.broadcasts <= 1

\* What one round of verification may ask for, at most.
perInput == Retries + 1
perRound == MAX_TX_INPUTS * perInput

Budget ==
  /\ stage \in {"idle", "listing"} => seen.gets = 0
  /\ stage = "verifying" =>
       /\ Len(inputs) \in Nat /\ checked < Len(inputs) /\ Len(inputs) <= MAX_TX_INPUTS
       /\ call.attempt <= Retries
       /\ seen.gets <= round * perRound + checked * perInput + made
  /\ seen.gets <= MAX_SELECT_ROUNDS * perRound

\* The chain and the sighting.
OneChain ==
  /\ node.pooled => node.minedAt = 0
  /\ stage = "counting" => sighting # 0
  /\ stage = "counting" /\ ~seen.reorged => sighting = node.minedAt

\* A list of coins, none twice.
Distinct(s) ==
  /\ s \in Seq(Coins) /\ Len(s) \in Nat
  /\ \A i, j \in 1..Len(s) : s[i] = s[j] => i = j

firstOf(s, k) == {s[j] : j \in 1..k}

\* The inputs verified so far, all of them once it is signed, are worth the total.
Paid ==
  stage = "verifying" \/ Signed =>
    /\ Distinct(inputs) /\ checked \in 0..Len(inputs)
    /\ isSafe(total) /\ total = SumOf(ValueOf, firstOf(inputs, checked))
    /\ Signed => checked = Len(inputs) /\ change >= 0

IInv == Types /\ OneRequest /\ Broadcasts /\ Budget /\ OneChain /\ Paid

-----------------------------------------------------------------------------
(* Facts about the operators.                                              *)

LEMMA PoolFinite ==
  ASSUME NEW n \in Nat, NEW pool \in SUBSET (1..n)
  PROVE  IsFiniteSet(pool) /\ Cardinality(pool) \in Nat
  <1>1. IsFiniteSet(1..n)
    BY FS_Interval
  <1>2. IsFiniteSet(pool)
    BY <1>1, FS_Subset
  <1> QED BY <1>2, FS_CardinalityType

\* The first m coins of a pool, the largest first.
Largest(list, pool, m) == [k \in 1..m |-> list[largestFirst(list, pool)[k]].coin]

\* What take returns: a prefix of the pool, the largest coins first, or null.
LEMMA TakeIs ==
  ASSUME NEW list, NEW n \in Nat, DOMAIN list = 1..n,
         NEW pool \in SUBSET DOMAIN list, NEW sum
  PROVE  \/ take(list, pool, sum) = <<>>
         \/ \E m \in 1..Cardinality(pool) :
              m <= MAX_TX_INPUTS /\ take(list, pool, sum) = Largest(list, pool, m)
  <1> DEFINE ord == largestFirst(list, pool)
             worth(k) == reported(list, {ord[j] : j \in 1..k})
             enough == {k \in DOMAIN ord : worth(k) >= sum}
             t == take(list, pool, sum)
  <1>1. Cardinality(pool) \in Nat
    BY PoolFinite
  <1>2. DOMAIN ord = 1..Cardinality(pool)
    BY DEF largestFirst
  <1>3. t = IF enough # {} /\ Min(enough) <= MAX_TX_INPUTS /\ isSafe(worth(Min(enough)))
              THEN Largest(list, pool, Min(enough)) ELSE <<>>
    BY DEF take, Largest
  <1>4. enough # {} => Min(enough) \in 1..Cardinality(pool)
    <2> SUFFICES ASSUME enough # {} PROVE Min(enough) \in 1..Cardinality(pool)
      OBVIOUS
    <2>1. enough \in SUBSET (1..Cardinality(pool))
      BY <1>2
    <2> HIDE DEF enough
    <2>2. enough \in SUBSET Nat
      BY <1>1, <2>1
    <2>3. \E m \in enough : \A k \in enough : m <= k
      BY <2>2, LeastNatural
    <2>4. Min(enough) \in enough
      BY <2>3 DEF Min
    <2> QED BY <2>1, <2>4, Zenon
  <1> HIDE DEF enough, t, worth, ord
  <1>5. t = <<>> \/ \E m \in 1..Cardinality(pool) :
          m <= MAX_TX_INPUTS /\ t = Largest(list, pool, m)
    BY <1>3, <1>4
  <1> QED BY <1>5 DEF t

\* A selection has no more inputs than a transaction may have.
LEMMA TakeBounded ==
  ASSUME NEW list, NEW n \in Nat, DOMAIN list = 1..n,
         NEW pool \in SUBSET DOMAIN list, NEW sum
  PROVE  /\ Len(take(list, pool, sum)) \in Nat
         /\ Len(take(list, pool, sum)) <= MAX_TX_INPUTS
         /\ take(list, pool, sum) # <<>> => Len(take(list, pool, sum)) > 0
  <1> DEFINE t == take(list, pool, sum)
  <1>1. t = <<>> \/ \E m \in 1..Cardinality(pool) :
          m <= MAX_TX_INPUTS /\ t = Largest(list, pool, m)
    BY TakeIs
  <1>2. Cardinality(pool) \in Nat
    BY PoolFinite
  <1> HIDE DEF t
  <1>3. Len(t) \in Nat /\ Len(t) <= MAX_TX_INPUTS /\ (t # <<>> => Len(t) > 0)
    <2>1. CASE t = <<>>
      BY <2>1, SelectionAssumption
    <2>2. CASE t # <<>>
      <3>1. PICK m \in 1..Cardinality(pool) : m <= MAX_TX_INPUTS /\ t = Largest(list, pool, m)
        BY <1>1, <2>2
      <3>2. m \in Nat /\ m > 0
        BY <1>2
      <3>3. Len(t) = m
        BY <3>1, <3>2 DEF Largest
      <3> QED BY <3>1, <3>2, <3>3
    <2> QED BY <2>1, <2>2
  <1> QED BY <1>3 DEF t

LEMMA SelectionBounded ==
  ASSUME NEW list, list = <<>> \/ list \in Listings, NEW sum, NEW bad
  PROVE  /\ Len(selectInputs(list, sum, bad)) \in Nat
         /\ Len(selectInputs(list, sum, bad)) <= MAX_TX_INPUTS
         /\ selectInputs(list, sum, bad) # <<>> => Len(selectInputs(list, sum, bad)) > 0
  <1>1. Len(list) \in Nat /\ DOMAIN list = 1..Len(list)
    BY FlowAssumption
  <1>2. confirmed(list, bad) \in SUBSET DOMAIN list
    BY DEF confirmed
  <1> QED BY <1>1, <1>2, TakeBounded DEF selectInputs

-----------------------------------------------------------------------------
(* A selection names a coin once.                                          *)

\* The entries of a pool that come before i.
Above(list, pool, i) == {j \in pool : outranks(list, j, i)}

LEMMA OutranksTotal ==
  ASSUME NEW list, NEW n \in Nat, \A i \in 1..n : list[i].value \in Int,
         NEW i \in 1..n, NEW j \in 1..n
  PROVE  /\ ~outranks(list, i, i)
         /\ i # j => outranks(list, i, j) \/ outranks(list, j, i)
         /\ \A k \in 1..n : outranks(list, i, j) /\ outranks(list, j, k) => outranks(list, i, k)
  BY DEF outranks

\* What comes before another entry has fewer before it.
LEMMA FewerAbove ==
  ASSUME NEW list, NEW n \in Nat, \A i \in 1..n : list[i].value \in Int,
         NEW pool \in SUBSET (1..n), NEW i \in pool, NEW j \in pool, outranks(list, i, j)
  PROVE  Cardinality(Above(list, pool, i)) < Cardinality(Above(list, pool, j))
  <1> DEFINE a == Above(list, pool, i)
             b == Above(list, pool, j)
  <1>1. IsFiniteSet(pool)
    BY PoolFinite
  <1>2. a \in SUBSET pool /\ b \in SUBSET pool
    BY DEF Above
  <1>3. i \notin a
    BY OutranksTotal DEF Above
  <1>4. a \cup {i} \in SUBSET b
    <2>1. \A k \in a : outranks(list, k, j)
      <3> SUFFICES ASSUME NEW k \in a PROVE outranks(list, k, j)
        OBVIOUS
      <3>1. k \in 1..n /\ outranks(list, k, i)
        BY DEF Above
      <3> QED BY <3>1, OutranksTotal
    <2> QED BY <2>1 DEF Above
  <1> HIDE DEF a, b
  <1>5. IsFiniteSet(a) /\ IsFiniteSet(b)
    BY <1>1, <1>2, FS_Subset
  <1>6. Cardinality(a \cup {i}) = Cardinality(a) + 1
    BY <1>3, <1>5, FS_AddElement
  <1>7. Cardinality(a \cup {i}) <= Cardinality(b)
    BY <1>4, <1>5, FS_Subset
  <1>8. Cardinality(a) \in Nat /\ Cardinality(b) \in Nat
    BY <1>5, FS_CardinalityType
  <1> QED BY <1>6, <1>7, <1>8 DEF a, b

\* Each place of the sorted pool is some entry's: ranks are distinct, and there
\* are as many of them as places.
LEMMA EveryRank ==
  ASSUME NEW list, NEW n \in Nat, \A i \in 1..n : list[i].value \in Int,
         NEW pool \in SUBSET (1..n), NEW k \in 1..Cardinality(pool)
  PROVE  \E i \in pool : Cardinality(Above(list, pool, i)) = k - 1
  <1> DEFINE m == Cardinality(pool)
             rank == [i \in pool |-> Cardinality(Above(list, pool, i))]
  <1>1. IsFiniteSet(pool) /\ m \in Nat
    BY PoolFinite
  <1>2. \A i \in pool : Cardinality(Above(list, pool, i)) \in 0..(m - 1)
    <2> SUFFICES ASSUME NEW i \in pool
                 PROVE  Cardinality(Above(list, pool, i)) \in 0..(m - 1)
      OBVIOUS
    <2>1. Above(list, pool, i) \in SUBSET (pool \ {i})
      BY OutranksTotal DEF Above
    <2>2. IsFiniteSet(pool \ {i}) /\ Cardinality(pool \ {i}) = m - 1
      BY <1>1, FS_RemoveElement
    <2>3. /\ IsFiniteSet(Above(list, pool, i))
          /\ Cardinality(Above(list, pool, i)) <= m - 1
      BY <2>1, <2>2, FS_Subset
    <2>4. Cardinality(Above(list, pool, i)) \in Nat
      BY <2>3, FS_CardinalityType
    <2> QED BY <1>1, <2>3, <2>4
  <1>3. \A i, j \in pool : i # j => rank[i] # rank[j]
    <2> SUFFICES ASSUME NEW i \in pool, NEW j \in pool, i # j PROVE rank[i] # rank[j]
      OBVIOUS
    <2>1. outranks(list, i, j) \/ outranks(list, j, i)
      BY OutranksTotal
    <2>2. Cardinality(Above(list, pool, i)) # Cardinality(Above(list, pool, j))
      <3>1. /\ Cardinality(Above(list, pool, i)) \in Int
            /\ Cardinality(Above(list, pool, j)) \in Int
        BY <1>1, <1>2
      <3>2. CASE outranks(list, i, j)
        <4>1. Cardinality(Above(list, pool, i)) < Cardinality(Above(list, pool, j))
          BY <3>2, FewerAbove
        <4> QED BY <3>1, <4>1
      <3>3. CASE outranks(list, j, i)
        <4>1. Cardinality(Above(list, pool, j)) < Cardinality(Above(list, pool, i))
          BY <3>3, FewerAbove
        <4> QED BY <3>1, <4>1
      <3> QED BY <2>1, <3>2, <3>3
    <2> QED BY <2>2
  <1>4. rank \in [pool -> 0..(m - 1)]
    BY <1>2
  <1>5. rank \in Injection(pool, 0..(m - 1))
    BY <1>3, <1>4 DEF Injection, IsInjective
  <1>6. IsFiniteSet(0..(m - 1)) /\ Cardinality(0..(m - 1)) = m
    <2>1. m - 1 \in Int /\ 0 \in Int
      BY <1>1
    <2>2. /\ IsFiniteSet(0..(m - 1))
          /\ Cardinality(0..(m - 1)) = IF 0 > m - 1 THEN 0 ELSE (m - 1) - 0 + 1
      BY <2>1, FS_Interval
    <2> QED BY <1>1, <2>2
  <1>7. \A i \in pool : rank[i] = Cardinality(Above(list, pool, i))
    OBVIOUS
  <1> HIDE DEF rank
  <1>8. rank \in Surjection(pool, 0..(m - 1))
    BY <1>5, <1>6, FS_Injection
  <1>9. \E i \in pool : rank[i] = k - 1
    <2>1. k - 1 \in 0..(m - 1)
      BY <1>1
    <2> QED BY <1>8, <2>1 DEF Surjection
  <1> QED BY <1>7, <1>9

LEMMA SortedPool ==
  ASSUME NEW list, NEW n \in Nat, \A i \in 1..n : list[i].value \in Int,
         NEW pool \in SUBSET (1..n)
  PROVE  LET ord == largestFirst(list, pool)
         IN /\ \A k \in 1..Cardinality(pool) : ord[k] \in pool
            /\ \A k, l \in 1..Cardinality(pool) : ord[k] = ord[l] => k = l
  <1> DEFINE m == Cardinality(pool)
             ord == largestFirst(list, pool)
             At(i, k) == Cardinality(Above(list, pool, i)) = k - 1
  <1>1. m \in Nat
    BY PoolFinite
  <1>2. \A k \in 1..m : ord[k] = CHOOSE i \in pool : At(i, k)
    BY DEF largestFirst, Above
  <1>3. \A k \in 1..m : \E i \in pool : At(i, k)
    BY EveryRank
  <1> HIDE DEF ord, At
  <1>4. \A k \in 1..m : ord[k] \in pool /\ At(ord[k], k)
    BY <1>2, <1>3
  <1>5. \A k, l \in 1..m : ord[k] = ord[l] => k = l
    <2> SUFFICES ASSUME NEW k \in 1..m, NEW l \in 1..m, ord[k] = ord[l] PROVE k = l
      OBVIOUS
    <2>1. At(ord[k], k) /\ At(ord[k], l)
      BY <1>4
    <2>2. k - 1 = l - 1
      BY <2>1 DEF At
    <2> QED BY <1>1, <2>2
  <1> QED BY <1>4, <1>5 DEF ord

LEMMA TakeDistinct ==
  ASSUME NEW list, NEW n \in Nat, DOMAIN list = 1..n,
         \A i \in 1..n : list[i].value \in Int /\ list[i].coin \in Coins,
         NEW pool \in SUBSET (1..n),
         \A i, j \in pool : list[i].coin = list[j].coin => i = j, NEW sum
  PROVE  Distinct(take(list, pool, sum))
  <1> DEFINE t == take(list, pool, sum)
             ord == largestFirst(list, pool)
             p == Cardinality(pool)
  <1>1. t = <<>> \/ \E m \in 1..p : t = Largest(list, pool, m)
    <2>1. pool \in SUBSET DOMAIN list
      OBVIOUS
    <2> QED BY <2>1, TakeIs
  <1>2. /\ \A k \in 1..p : ord[k] \in pool
        /\ \A k, l \in 1..p : ord[k] = ord[l] => k = l
    BY SortedPool
  <1>3. p \in Nat
    BY PoolFinite
  <1> HIDE DEF t, ord, p
  <1>4. CASE t = <<>>
    BY <1>4 DEF Distinct, t
  <1>5. CASE t # <<>>
    <2>1. PICK m \in 1..p : t = [k \in 1..m |-> list[ord[k]].coin]
      BY <1>1, <1>5 DEF Largest, ord
    <2>2. m \in Nat /\ 1..m \subseteq 1..p
      BY <1>3
    <2>3. \A k \in 1..m : list[ord[k]].coin \in Coins
      BY <1>2, <2>2
    <2>4. t \in Seq(Coins) /\ Len(t) = m
      BY <2>1, <2>2, <2>3
    <2>5. \A k, l \in 1..m : t[k] = t[l] => k = l
      <3> SUFFICES ASSUME NEW k \in 1..m, NEW l \in 1..m, t[k] = t[l] PROVE k = l
        OBVIOUS
      <3>1. list[ord[k]].coin = list[ord[l]].coin
        BY <2>1
      <3>2. ord[k] \in pool /\ ord[l] \in pool
        BY <1>2, <2>2
      <3>3. ord[k] = ord[l]
        BY <3>1, <3>2
      <3> QED BY <1>2, <2>2, <3>3
    <2>6. Distinct(t)
      BY <2>2, <2>4, <2>5 DEF Distinct
    <2> QED BY <2>6 DEF t
  <1> QED BY <1>4, <1>5

\* Whatever a list names twice, the selection names once.
LEMMA SelectionDistinct ==
  ASSUME NEW list, list = <<>> \/ list \in Listings, NEW sum, NEW bad
  PROVE  Distinct(selectInputs(list, sum, bad))
  <1> DEFINE n == Len(list)
             all == confirmed(list, bad)
             plain == {i \in all : ~list[i].coinbase}
  <1>1. /\ n \in Nat /\ DOMAIN list = 1..n
        /\ \A i \in 1..n : list[i].value \in Int /\ list[i].coin \in Coins
    <2> DEFINE E == [coin : Coins, value : Int, confirmations : Int, coinbase : BOOLEAN]
    <2>1. Listings \subseteq Seq(E)
      BY FlowAssumption
    <2>2. \A entry \in E : entry.value \in Int /\ entry.coin \in Coins
      OBVIOUS
    <2> HIDE DEF E
    <2>3. list \in Seq(E)
      <3>1. CASE list = <<>>
        BY <3>1
      <3>2. CASE list \in Listings
        BY <2>1, <3>2
      <3> QED BY <3>1, <3>2
    <2> QED BY <2>2, <2>3
  <1>2. all \in SUBSET (1..n)
    BY <1>1 DEF confirmed
  <1>3. \A i, j \in all : list[i].coin = list[j].coin => i = j
    <2> SUFFICES ASSUME NEW i \in all, NEW j \in all, list[i].coin = list[j].coin, i < j
                 PROVE  FALSE
      BY <1>1, <1>2
    <2>1. usable(list[i], bad) /\ i \in 1..(j - 1)
      BY <1>1, <1>2 DEF confirmed
    <2> QED BY <2>1 DEF confirmed
  <1> HIDE DEF n, all
  <1>4. Distinct(take(list, all, sum))
    BY <1>1, <1>2, <1>3, TakeDistinct
  <1>5. plain \in SUBSET (1..n) /\ (\A i, j \in plain : list[i].coin = list[j].coin => i = j)
    BY <1>2, <1>3
  <1> HIDE DEF plain
  <1>6. Distinct(take(list, plain, sum))
    BY <1>1, <1>5, TakeDistinct
  <1> QED BY <1>4, <1>6 DEF selectInputs, all, plain

LEMMA AskTypes ==
  ASSUME NEW p \in Paths, ask(p)
  PROVE  call' \in CallTypes
  BY DEF ask, CallTypes

LEMMA NoCallTypes == NoCall \in CallTypes
  BY DEF NoCall, CallTypes, Paths

\* The next round asks for a source, or the build is refused.
LEMMA SelectTypes ==
  ASSUME NEW list, NEW bad, NEW r \in 0 .. MAX_SELECT_ROUNDS - 1, SelectRound(list, bad, r)
  PROVE  /\ call' \in CallTypes /\ stage' \in Stages
         /\ round' \in 0 .. MAX_SELECT_ROUNDS - 1 /\ checked' \in Nat
  <1>1. CASE inputs' = <<>>
    BY <1>1, NoCallTypes DEF SelectRound, Refuse, Stages
  <1>2. CASE inputs' # <<>>
    BY <1>2, AskTypes DEF SelectRound, Stages, Paths
  <1> QED BY <1>1, <1>2

LEMMA BadInputTypes ==
  ASSUME Types, NEW coin, BadInput(coin)
  PROVE  /\ call' \in CallTypes /\ stage' \in Stages
         /\ round' \in 0 .. MAX_SELECT_ROUNDS - 1 /\ checked' \in Nat
  <1>1. CASE lastRound
    BY <1>1, NoCallTypes DEF BadInput, Refuse, Stages, Types
  <1>2. CASE ~lastRound
    <2>1. SelectRound(utxos, exclude \cup {coin}, round + 1)
      BY <1>2 DEF BadInput
    <2>2. round + 1 \in 0 .. MAX_SELECT_ROUNDS - 1
      BY <1>2, FlowAssumption DEF lastRound, Types
    <2> QED BY <2>1, <2>2, SelectTypes
  <1> QED BY <1>1, <1>2

LEMMA Products ==
  ASSUME NEW a \in Nat, NEW b \in Nat, NEW c \in Nat, a <= b
  PROVE  a * c \in Nat /\ (a + 1) * c \in Nat /\ (a + 1) * c = a * c + c /\ a * c <= b * c
  OBVIOUS

\* What the attempts on one more input come to stays within the round, and the
\* round within the build.
LEMMA PaidFor ==
  ASSUME Types, Budget, stage = "verifying",
         NEW g \in Nat, NEW k \in Nat, k <= Retries,
         g <= round * perRound + checked * perInput + k + 1
  PROVE  /\ g <= round * perRound + (checked + 1) * perInput
         /\ g <= (round + 1) * perRound
         /\ g <= MAX_SELECT_ROUNDS * perRound
  <1>1. /\ perInput \in Nat /\ perInput = Retries + 1 /\ MAX_TX_INPUTS \in Nat
        /\ round \in Nat /\ checked \in Nat /\ checked + 1 <= MAX_TX_INPUTS
        /\ round + 1 <= MAX_SELECT_ROUNDS /\ MAX_SELECT_ROUNDS \in Nat
        /\ Retries \in Nat
    BY RetriesAssumption, SelectionAssumption, FlowAssumption DEF perInput, Types, Budget
  <1>2. perRound \in Nat /\ perRound = MAX_TX_INPUTS * perInput
    BY <1>1 DEF perRound
  <1>3. /\ checked * perInput \in Nat
        /\ (checked + 1) * perInput = checked * perInput + perInput
        /\ (checked + 1) * perInput \in Nat
    BY <1>1, Products
  <1>4. (checked + 1) * perInput <= perRound
    <2>1. checked + 1 \in Nat
      BY <1>1
    <2> QED BY <1>1, <1>2, <2>1, Products
  <1>5. /\ round * perRound \in Nat /\ (round + 1) * perRound \in Nat
        /\ (round + 1) * perRound = round * perRound + perRound
    BY <1>1, <1>2, Products
  <1>6. (round + 1) * perRound <= MAX_SELECT_ROUNDS * perRound /\ MAX_SELECT_ROUNDS * perRound \in Nat
    <2>1. round + 1 \in Nat
      BY <1>1
    <2> QED BY <1>1, <1>2, <2>1, Products
  <1>7. \A x, y \in Nat : g <= x + y + k + 1 => g <= x + (y + (Retries + 1))
    BY <1>1
  <1>8. g <= round * perRound + (checked + 1) * perInput
    BY <1>1, <1>3, <1>5, <1>7
  <1>9. \A x, y, z \in Nat : g <= x + y /\ y <= z => g <= x + z
    OBVIOUS
  <1>10. g <= (round + 1) * perRound
    BY <1>2, <1>3, <1>4, <1>5, <1>8, <1>9
  <1>11. \A x, y \in Nat : g <= x /\ x <= y => g <= y
    OBVIOUS
  <1>12. g <= MAX_SELECT_ROUNDS * perRound
    BY <1>5, <1>6, <1>10, <1>11
  <1> QED BY <1>8, <1>10, <1>12

\* A round that starts within its budget is within it.
LEMMA SelectBudget ==
  ASSUME Types, utxos' = <<>> \/ utxos' \in Listings, NEW sum, NEW bad,
         NEW r \in 0 .. MAX_SELECT_ROUNDS - 1,
         inputs' = selectInputs(utxos', sum, bad), round' = r, checked' = 0,
         IF inputs' = <<>> THEN Refuse ELSE stage' = "verifying" /\ ask("tx"),
         seen'.gets \in Nat, seen'.gets <= r * perRound,
         seen'.gets <= MAX_SELECT_ROUNDS * perRound
  PROVE  Budget'
  <1>1. CASE inputs' = <<>>
    BY <1>1 DEF Budget, Refuse
  <1>2. CASE inputs' # <<>>
    <2>1. /\ Len(inputs') \in Nat /\ Len(inputs') <= MAX_TX_INPUTS /\ Len(inputs') > 0
      BY <1>2, SelectionBounded
    <2>2. stage' = "verifying" /\ call' = [path |-> "tx", attempt |-> 0, sent |-> FALSE]
      BY <1>2 DEF ask
    <2>3. made' = 0
      BY <2>2 DEF made
    <2>4. checked' * perInput = 0 /\ r * perRound \in Int
      <3>1. perInput \in Nat /\ perRound \in Nat
        BY RetriesAssumption, SelectionAssumption DEF perInput, perRound
      <3> QED BY <3>1
    <2>5. seen'.gets <= round' * perRound + checked' * perInput + made'
      BY <2>3, <2>4
    <2> QED BY <2>1, <2>2, <2>5, RetriesAssumption DEF Budget
  <1> QED BY <1>1, <1>2

\* A round that ends has asked no more than its share.
LEMMA BadInputBudget ==
  ASSUME Types, Budget, stage = "verifying", NEW coin, BadInput(coin),
         UNCHANGED <<utxos, seen>>, call.sent, call.attempt <= Retries
  PROVE  Budget'
  <1>1. seen.gets <= (round + 1) * perRound
    <2>1. seen.gets \in Nat /\ call.attempt \in Nat
      BY DEF Types, SeenTypes, CallTypes
    <2>2. made = call.attempt + 1
      BY DEF made
    <2>3. seen.gets <= round * perRound + checked * perInput + made
      BY DEF Budget
    <2>4. round * perRound + checked * perInput \in Int
      BY RetriesAssumption, SelectionAssumption DEF perRound, perInput, Types
    <2>5. seen.gets <= round * perRound + checked * perInput + call.attempt + 1
      BY <2>1, <2>2, <2>3, <2>4
    <2> QED BY <2>1, <2>5, PaidFor
  <1>2. CASE lastRound
    BY <1>2 DEF BadInput, Refuse, Budget
  <1>3. CASE ~lastRound
    <2>1. SelectRound(utxos, exclude \cup {coin}, round + 1)
      BY <1>3 DEF BadInput
    <2>2. round + 1 \in 0 .. MAX_SELECT_ROUNDS - 1
      BY <1>3, FlowAssumption DEF lastRound, Types
    <2>3. seen.gets \in Nat /\ seen.gets <= MAX_SELECT_ROUNDS * perRound
      BY DEF Types, SeenTypes, Budget
    <2> QED BY <1>1, <2>1, <2>2, <2>3, SelectBudget DEF SelectRound, Types
  <1> QED BY <1>2, <1>3

-----------------------------------------------------------------------------
(* Steps.                                                                  *)

LEMMA StepTypes ==
  ASSUME Types, [Next]_vars
  PROVE  Types'
  <1> USE DEF buildVars, waitVars, Stages, Paths
  <1>1. CASE ListCoins
    BY <1>1, AskTypes DEF ListCoins, Types
  <1>2. CASE Submit
    BY <1>2, AskTypes DEF Submit, Types
  <1>3. CASE \E n \in Depths : WaitForTx(n)
    BY <1>3, AskTypes, FlowAssumption DEF WaitForTx, Types
  <1>4. CASE Send
    <2>1. call' \in CallTypes
      BY <1>4 DEF Send, SendAttempt, Types, CallTypes
    <2>2. seen' \in SeenTypes
      <3> DEFINE g == IF stage = "verifying" THEN seen.gets + 1 ELSE seen.gets
                 b == IF call.path = "submit" THEN seen.broadcasts + 1 ELSE seen.broadcasts
      <3>1. g \in Nat /\ b \in Nat
        BY DEF Types, SeenTypes
      <3>2. seen' = [seen EXCEPT !.gets = g, !.broadcasts = b]
        BY <1>4 DEF Send
      <3> HIDE DEF g, b
      <3> QED BY <3>1, <3>2 DEF Types, SeenTypes
    <2>3. node' \in NodeTypes
      BY <1>4 DEF Send, Types, NodeTypes
    <2> QED BY <1>4, <2>1, <2>2, <2>3 DEF Send, Types, buildVars, waitVars
  <1>5. CASE SendAgain
    <2>1. call' \in CallTypes
      <3>1. call' = [call EXCEPT !.attempt = call.attempt + 1, !.sent = FALSE]
        BY <1>5 DEF SendAgain, Retry
      <3>2. call \in CallTypes /\ call.attempt + 1 \in Nat
        BY DEF Types, CallTypes
      <3> QED BY <3>1, <3>2 DEF CallTypes
    <2> QED BY <1>5, <2>1 DEF SendAgain, Types, buildVars, waitVars
  <1>6. CASE \E list \in Listings : CoinsListed(list)
    <2> PICK list \in Listings : CoinsListed(list)
      BY <1>6
    <2>1. /\ call' \in CallTypes /\ stage' \in Stages
          /\ round' \in 0 .. MAX_SELECT_ROUNDS - 1 /\ checked' \in Nat
      <3>1. CASE validOrder(order)
        BY <3>1, SelectTypes, FlowAssumption DEF CoinsListed
      <3>2. CASE ~validOrder(order)
        BY <3>2, NoCallTypes DEF CoinsListed, Refuse, Stages, Types
      <3> QED BY <3>1, <3>2
    <2> QED BY <2>1 DEF CoinsListed, Types, waitVars
  <1>7. CASE \E body \in Coins \cup {Unreadable} : SourceServed(body)
    <2> PICK body : SourceServed(body)
      BY <1>7
    <2> DEFINE coin == inputs[checked + 1]
    <2>1. /\ call' \in CallTypes /\ stage' \in Stages
          /\ round' \in 0 .. MAX_SELECT_ROUNDS - 1 /\ checked' \in Nat
      <3>1. CASE admissible(body, coin)
        <4> GoodInput(inputValue(body))
          BY <3>1 DEF SourceServed
        <4> QED BY AskTypes, NoCallTypes DEF GoodInput, Refuse, Stages, Types, Paths
      <3>2. CASE ~admissible(body, coin)
        BY <3>2, BadInputTypes DEF SourceServed
      <3> QED BY <3>1, <3>2
    <2> QED BY <2>1 DEF SourceServed, Types, waitVars
  <1>8. CASE \E outcome \in Outcomes : ListThrew(outcome)
    BY <1>8, NoCallTypes DEF ListThrew, Types, Refuse
  <1>9. CASE \E outcome \in Outcomes : SourceThrew(outcome)
    <2>1. BadInput(inputs[checked + 1])
      BY <1>9 DEF SourceThrew
    <2>2. /\ call' \in CallTypes /\ stage' \in Stages
          /\ round' \in 0 .. MAX_SELECT_ROUNDS - 1 /\ checked' \in Nat
      BY <2>1, BadInputTypes
    <2> QED BY <1>9, <2>2 DEF SourceThrew, Types, waitVars
  <1>10. CASE \E outcome \in Outcomes : SubmitThrew(outcome)
    BY <1>10, NoCallTypes DEF SubmitThrew, Types
  <1>11. CASE \E outcome \in Outcomes : WaitThrew(outcome)
    BY <1>11, NoCallTypes DEF WaitThrew, Types, Pause
  <1>12. CASE SubmitAnswered
    BY <1>12, NoCallTypes DEF SubmitAnswered, Types
  <1>13. CASE TxAnswered
    <2>1. call' \in CallTypes /\ stage' \in Stages /\ sighting' \in Nat
      <3>1. CASE node.minedAt # 0
        BY <1>13, <3>1, AskTypes DEF TxAnswered, Types, NodeTypes, Paths, Stages
      <3>2. CASE node.minedAt = 0
        BY <1>13, <3>2, NoCallTypes DEF TxAnswered, Pause, Types, Stages
      <3> QED BY <3>1, <3>2
    <2>2. seen' \in SeenTypes
      BY <1>13 DEF TxAnswered, Types, SeenTypes
    <2> QED BY <1>13, <2>1, <2>2 DEF TxAnswered, Types, buildVars
  <1>14. CASE TipAnswered
    <2>1. call' \in CallTypes /\ stage' \in Stages
      BY <1>14, NoCallTypes DEF TipAnswered, Pause, Stages
    <2> QED BY <1>14, <2>1 DEF TipAnswered, Types, buildVars
  <1>15. CASE PollAgain
    BY <1>15, AskTypes DEF PollAgain, Types
  <1>16. CASE Deadline
    BY <1>16 DEF Deadline, Types
  <1>17. CASE TakeBroadcast
    <2>1. PICK ok \in BOOLEAN :
            node' = [node EXCEPT !.wire = node.wire - 1, !.taken = TRUE, !.accepted = ok,
                                 !.pooled = node.pooled \/ (ok /\ node.minedAt = 0)]
      BY <1>17 DEF TakeBroadcast
    <2> DEFINE p == node.pooled \/ (ok /\ node.minedAt = 0)
    <2>2. p \in BOOLEAN
      OBVIOUS
    <2>3. node.wire - 1 \in Nat
      BY <1>17 DEF TakeBroadcast, Types, NodeTypes
    <2>4. node' = [node EXCEPT !.wire = node.wire - 1, !.taken = TRUE, !.accepted = ok,
                               !.pooled = p]
      BY <2>1
    <2> HIDE DEF p
    <2>5. node' \in NodeTypes
      BY <2>2, <2>3, <2>4 DEF Types, NodeTypes
    <2> QED BY <1>17, <2>5 DEF TakeBroadcast, Types, buildVars, waitVars
  <1>18. CASE LoseBroadcast
    <2>1. node' \in NodeTypes
      BY <1>18 DEF LoseBroadcast, Types, NodeTypes
    <2> QED BY <1>18, <2>1 DEF LoseBroadcast, Types, buildVars, waitVars
  <1>19. CASE Mine
    <2>1. node \in NodeTypes /\ node.tip + 1 \in Nat
      BY DEF Types, NodeTypes
    <2>2. node' \in NodeTypes
      <3>1. CASE node' = [node EXCEPT !.tip = node.tip + 1]
        BY <2>1, <3>1 DEF NodeTypes
      <3>2. CASE node' = [node EXCEPT !.tip = node.tip + 1, !.pooled = FALSE,
                                      !.minedAt = node.tip + 1]
        BY <2>1, <3>2 DEF NodeTypes
      <3> QED BY <1>19, <3>1, <3>2 DEF Mine
    <2> QED BY <1>19, <2>2 DEF Mine, Types, buildVars, waitVars
  <1>20. CASE \E fork \in 1..MaxTip, tip \in 1..MaxTip : Reorg(fork, tip)
    <2> PICK fork \in 1..MaxTip, tip \in 1..MaxTip : Reorg(fork, tip)
      BY <1>20
    <2>1. fork \in Nat /\ tip \in Nat
      BY FlowAssumption
    <2>2. node' \in NodeTypes
      <3>1. CASE node.minedAt > fork \/ node.pooled
        <4>1. PICK at \in {0} \cup (fork + 1)..tip :
                node' = [node EXCEPT !.tip = tip, !.minedAt = at, !.pooled = at = 0]
          BY <3>1 DEF Reorg
        <4> DEFINE p == at = 0
        <4>2. at \in Nat /\ p \in BOOLEAN
          BY <2>1
        <4>3. node' = [node EXCEPT !.tip = tip, !.minedAt = at, !.pooled = p]
          BY <4>1
        <4> HIDE DEF p
        <4> QED BY <2>1, <4>2, <4>3 DEF Types, NodeTypes
      <3>2. CASE ~(node.minedAt > fork \/ node.pooled)
        BY <2>1, <3>2 DEF Reorg, Types, NodeTypes
      <3> QED BY <3>1, <3>2
    <2>3. seen' \in SeenTypes
      <3>1. seen' = [seen EXCEPT !.reorgs = seen.reorgs + 1, !.reorged = TRUE]
        BY DEF Reorg
      <3>2. seen \in SeenTypes /\ seen.reorgs + 1 \in Nat
        BY DEF Types, SeenTypes
      <3> QED BY <3>1, <3>2 DEF SeenTypes
    <2> QED BY <2>2, <2>3 DEF Reorg, Types, buildVars, waitVars
  <1>21. CASE UNCHANGED vars
    BY <1>21 DEF vars, buildVars, waitVars, Types
  <1> QED
    BY <1>1, <1>2, <1>3, <1>4, <1>5, <1>6, <1>7, <1>8, <1>9, <1>10, <1>11,
       <1>12, <1>13, <1>14, <1>15, <1>16, <1>17, <1>18, <1>19, <1>20,
       <1>21
    DEF Next, Settle

\* A stage asks for its own path, and a stage that asks for nothing has no call.
LEMMA StepRequest ==
  ASSUME Types, OneRequest, [Next]_vars
  PROVE  OneRequest'
  <1> USE DEF ask, Refuse, NoCall, Pause, AnswerDue, Throws, SendAttempt, Retry,
             buildVars, waitVars, Types, CallTypes,
             OneRequest, PathOf, Paths, Stages
  <1>1. CASE ListCoins
    BY <1>1 DEF ListCoins
  <1>2. CASE Submit
    BY <1>2 DEF Submit
  <1>3. CASE \E n \in Depths : WaitForTx(n)
    BY <1>3 DEF WaitForTx
  <1>4. CASE Send
    BY <1>4 DEF Send
  <1>5. CASE SendAgain
    BY <1>5 DEF SendAgain
  <1>6. CASE \E list \in Listings : CoinsListed(list)
    BY <1>6 DEF CoinsListed, SelectRound
  <1>7. CASE \E body \in Coins \cup {Unreadable} : SourceServed(body)
    BY <1>7 DEF SourceServed, SelectRound, BadInput, GoodInput
  <1>8. CASE \E outcome \in Outcomes : ListThrew(outcome)
    BY <1>8 DEF ListThrew
  <1>9. CASE \E outcome \in Outcomes : SourceThrew(outcome)
    BY <1>9 DEF SourceThrew, SelectRound, BadInput
  <1>10. CASE \E outcome \in Outcomes : SubmitThrew(outcome)
    BY <1>10 DEF SubmitThrew
  <1>11. CASE \E outcome \in Outcomes : WaitThrew(outcome)
    BY <1>11 DEF WaitThrew
  <1>12. CASE SubmitAnswered
    BY <1>12 DEF SubmitAnswered
  <1>13. CASE TxAnswered
    BY <1>13 DEF TxAnswered
  <1>14. CASE TipAnswered
    BY <1>14 DEF TipAnswered
  <1>15. CASE PollAgain
    BY <1>15 DEF PollAgain
  <1>16. CASE Deadline
    BY <1>16 DEF Deadline
  <1>17. CASE TakeBroadcast
    BY <1>17 DEF TakeBroadcast
  <1>18. CASE LoseBroadcast
    BY <1>18 DEF LoseBroadcast
  <1>19. CASE Mine
    BY <1>19 DEF Mine
  <1>20. CASE \E fork \in 1..MaxTip, tip \in 1..MaxTip : Reorg(fork, tip)
    <2>1. UNCHANGED <<call, stage>>
      BY <1>20 DEF Reorg
    <2> QED BY <2>1
  <1>21. CASE UNCHANGED vars
    BY <1>21 DEF vars, buildVars, waitVars
  <1> QED
    BY <1>1, <1>2, <1>3, <1>4, <1>5, <1>6, <1>7, <1>8, <1>9, <1>10, <1>11,
       <1>12, <1>13, <1>14, <1>15, <1>16, <1>17, <1>18, <1>19, <1>20,
       <1>21
    DEF Next, Settle

\* The sighting is the height the chain has, until it reorganizes.
LEMMA StepOneChain ==
  ASSUME Types, OneChain, [Next]_vars
  PROVE  OneChain'
  <1> USE DEF ask, Refuse, NoCall, Pause, AnswerDue, Throws, SendAttempt, Retry,
             buildVars, waitVars,
             Types, CallTypes, NodeTypes, SeenTypes, OneChain, Stages
  <1>1. CASE ListCoins
    BY <1>1 DEF ListCoins
  <1>2. CASE Submit
    BY <1>2 DEF Submit
  <1>3. CASE \E n \in Depths : WaitForTx(n)
    BY <1>3 DEF WaitForTx
  <1>4. CASE Send
    BY <1>4 DEF Send
  <1>5. CASE SendAgain
    BY <1>5 DEF SendAgain
  <1>6. CASE \E list \in Listings : CoinsListed(list)
    BY <1>6 DEF CoinsListed, SelectRound
  <1>7. CASE \E body \in Coins \cup {Unreadable} : SourceServed(body)
    BY <1>7 DEF SourceServed, SelectRound, BadInput, GoodInput
  <1>8. CASE \E outcome \in Outcomes : ListThrew(outcome)
    BY <1>8 DEF ListThrew
  <1>9. CASE \E outcome \in Outcomes : SourceThrew(outcome)
    BY <1>9 DEF SourceThrew, SelectRound, BadInput
  <1>10. CASE \E outcome \in Outcomes : SubmitThrew(outcome)
    BY <1>10 DEF SubmitThrew
  <1>11. CASE \E outcome \in Outcomes : WaitThrew(outcome)
    BY <1>11 DEF WaitThrew
  <1>12. CASE SubmitAnswered
    BY <1>12 DEF SubmitAnswered
  <1>13. CASE TxAnswered
    BY <1>13 DEF TxAnswered
  <1>14. CASE TipAnswered
    BY <1>14 DEF TipAnswered
  <1>15. CASE PollAgain
    BY <1>15 DEF PollAgain
  <1>16. CASE Deadline
    BY <1>16 DEF Deadline
  <1>17. CASE TakeBroadcast
    BY <1>17 DEF TakeBroadcast
  <1>18. CASE LoseBroadcast
    BY <1>18 DEF LoseBroadcast
  <1>19. CASE Mine
    BY <1>19 DEF Mine
  <1>20. CASE \E fork \in 1..MaxTip, tip \in 1..MaxTip : Reorg(fork, tip)
    <2>1. seen'.reorged /\ stage' = stage /\ sighting' = sighting
      BY <1>20 DEF Reorg
    <2>2. node'.pooled => node'.minedAt = 0
      <3>1. PICK fork \in 1..MaxTip, tip \in 1..MaxTip : Reorg(fork, tip)
        BY <1>20
      <3>2. CASE node.minedAt > fork \/ node.pooled
        <4>1. PICK at : node' = [node EXCEPT !.tip = tip, !.minedAt = at, !.pooled = at = 0]
          BY <3>1, <3>2 DEF Reorg
        <4> QED BY <4>1
      <3>3. CASE ~(node.minedAt > fork \/ node.pooled)
        <4>1. node' = [node EXCEPT !.tip = tip]
          BY <3>1, <3>3 DEF Reorg
        <4> QED BY <4>1
      <3> QED BY <3>2, <3>3
    <2> QED BY <2>1, <2>2
  <1>21. CASE UNCHANGED vars
    BY <1>21 DEF vars, buildVars, waitVars
  <1> QED
    BY <1>1, <1>2, <1>3, <1>4, <1>5, <1>6, <1>7, <1>8, <1>9, <1>10, <1>11,
       <1>12, <1>13, <1>14, <1>15, <1>16, <1>17, <1>18, <1>19, <1>20,
       <1>21
    DEF Next, Settle

\* A broadcast has one attempt, and only Submit makes one.
LEMMA StepBroadcasts ==
  ASSUME Types, OneRequest, Broadcasts, [Next]_vars
  PROVE  Broadcasts'
  <1> USE DEF ask, Refuse, NoCall, Pause, AnswerDue, Throws, SendAttempt, Retry,
             buildVars, waitVars,
             Types, CallTypes, SeenTypes, Paths, Stages, OneRequest, PathOf,
             Broadcasts, Unsent, made, maxRetries
  <1>1. CASE ListCoins
    BY <1>1 DEF ListCoins
  <1>2. CASE Submit
    BY <1>2 DEF Submit
  <1>3. CASE \E n \in Depths : WaitForTx(n)
    BY <1>3 DEF WaitForTx
  <1>4. CASE Send
    BY <1>4 DEF Send
  <1>5. CASE SendAgain
    BY <1>5 DEF SendAgain
  <1>6. CASE \E list \in Listings : CoinsListed(list)
    BY <1>6 DEF CoinsListed, SelectRound
  <1>7. CASE \E body \in Coins \cup {Unreadable} : SourceServed(body)
    BY <1>7 DEF SourceServed, SelectRound, BadInput, GoodInput
  <1>8. CASE \E outcome \in Outcomes : ListThrew(outcome)
    BY <1>8 DEF ListThrew
  <1>9. CASE \E outcome \in Outcomes : SourceThrew(outcome)
    BY <1>9 DEF SourceThrew, SelectRound, BadInput
  <1>10. CASE \E outcome \in Outcomes : SubmitThrew(outcome)
    BY <1>10 DEF SubmitThrew
  <1>11. CASE \E outcome \in Outcomes : WaitThrew(outcome)
    BY <1>11 DEF WaitThrew
  <1>12. CASE SubmitAnswered
    BY <1>12 DEF SubmitAnswered
  <1>13. CASE TxAnswered
    BY <1>13 DEF TxAnswered
  <1>14. CASE TipAnswered
    BY <1>14 DEF TipAnswered
  <1>15. CASE PollAgain
    BY <1>15 DEF PollAgain
  <1>16. CASE Deadline
    BY <1>16 DEF Deadline
  <1>17. CASE TakeBroadcast
    BY <1>17 DEF TakeBroadcast
  <1>18. CASE LoseBroadcast
    BY <1>18 DEF LoseBroadcast
  <1>19. CASE Mine
    BY <1>19 DEF Mine
  <1>20. CASE \E fork \in 1..MaxTip, tip \in 1..MaxTip : Reorg(fork, tip)
    BY <1>20 DEF Reorg
  <1>21. CASE UNCHANGED vars
    BY <1>21 DEF vars, buildVars, waitVars
  <1> QED
    BY <1>1, <1>2, <1>3, <1>4, <1>5, <1>6, <1>7, <1>8, <1>9, <1>10, <1>11,
       <1>12, <1>13, <1>14, <1>15, <1>16, <1>17, <1>18, <1>19, <1>20,
       <1>21
    DEF Next, Settle

\* Every attempt of a build is paid for by a round, an input and a retry.
LEMMA StepBudget ==
  ASSUME Types, OneRequest, Budget, [Next]_vars
  PROVE  Budget'
  <1> USE DEF ask, Refuse, NoCall, Pause, AnswerDue, Throws, buildVars, waitVars
  <1>1. CASE ListCoins
    BY <1>1 DEF ListCoins, Budget, Types, SeenTypes
  <1>2. CASE Submit
    BY <1>2 DEF Submit, Budget, Types, SeenTypes
  <1>3. CASE \E n \in Depths : WaitForTx(n)
    BY <1>3 DEF WaitForTx, Budget, Types, SeenTypes
  <1>4. CASE Send
    <2>1. CASE stage = "verifying"
      <3>1. /\ seen.gets \in Nat /\ seen'.gets = seen.gets + 1
            /\ call.attempt \in Nat /\ made = call.attempt /\ made' = call.attempt + 1
            /\ call'.attempt = call.attempt /\ stage' = stage
        BY <1>4, <2>1 DEF Send, SendAttempt, Types, SeenTypes, CallTypes, made
      <3>2. UNCHANGED <<round, checked, inputs>>
        BY <1>4 DEF Send, buildVars
      <3>3. /\ call.attempt <= Retries
            /\ seen.gets <= round * perRound + checked * perInput + made
            /\ Len(inputs) \in Nat /\ checked < Len(inputs) /\ Len(inputs) <= MAX_TX_INPUTS
        BY <2>1 DEF Budget
      <3>4. seen'.gets <= round * perRound + checked * perInput + call.attempt + 1
        <4>1. round * perRound + checked * perInput \in Int
          BY RetriesAssumption, SelectionAssumption DEF perRound, perInput, Types
        <4> QED BY <3>1, <3>3, <4>1
      <3>5. seen'.gets <= MAX_SELECT_ROUNDS * perRound
        <4>1. seen'.gets \in Nat
          BY <3>1
        <4> QED BY <2>1, <3>1, <3>3, <3>4, <4>1, PaidFor
      <3>6. round * perRound + checked * perInput \in Int
        BY RetriesAssumption, SelectionAssumption DEF perRound, perInput, Types
      <3>7. seen'.gets <= round' * perRound + checked' * perInput + made'
        BY <3>1, <3>2, <3>4, <3>6
      <3> QED BY <2>1, <3>1, <3>2, <3>3, <3>5, <3>7 DEF Budget
    <2>2. CASE stage # "verifying"
      <3>1. seen'.gets = seen.gets /\ stage' = stage
        BY <1>4, <2>2 DEF Send, Types, SeenTypes
      <3> QED BY <2>2, <3>1 DEF Budget
    <2> QED BY <2>1, <2>2
  <1>5. CASE SendAgain
    <2>1. /\ call' = [call EXCEPT !.attempt = call.attempt + 1, !.sent = FALSE]
          /\ call.sent /\ call.attempt < maxRetries(call.path)
          /\ call.attempt \in Nat
          /\ UNCHANGED <<stage, inputs, round, checked, seen>>
      BY <1>5 DEF SendAgain, Retry, buildVars, Types, CallTypes
    <2>2. call'.attempt = call.attempt + 1 /\ made' = made
      BY <2>1 DEF made, Types, CallTypes
    <2>3. stage = "verifying" => call.attempt + 1 <= Retries
      <3> SUFFICES ASSUME stage = "verifying" PROVE call.attempt < Retries
        BY <2>1, RetriesAssumption
      <3> call.path = "tx"
        BY DEF OneRequest, PathOf
      <3> QED BY <2>1 DEF maxRetries
    <2> QED BY <2>1, <2>2, <2>3 DEF Budget
  <1>6. CASE \E list \in Listings : CoinsListed(list)
    <2> PICK list \in Listings : CoinsListed(list)
      BY <1>6
    <2>1. stage = "listing" /\ seen' = seen /\ utxos' = list
      BY DEF CoinsListed, AnswerDue, OneRequest, PathOf, Types, Stages
    <2>2. seen.gets = 0
      BY <2>1 DEF Budget
    <2>3. CASE validOrder(order)
      <3>1. SelectRound(list, {}, 0) /\ 0 \in 0 .. MAX_SELECT_ROUNDS - 1
        BY <2>3, FlowAssumption DEF CoinsListed
      <3>2. 0 <= 0 * perRound /\ seen'.gets <= MAX_SELECT_ROUNDS * perRound
        <4>1. perRound \in Nat
          BY RetriesAssumption, SelectionAssumption DEF perInput, perRound
        <4>2. 0 * perRound = 0
          BY <4>1
        <4> QED BY <2>1, <4>2 DEF Budget
      <3> QED BY <2>1, <2>2, <3>1, <3>2, SelectBudget DEF SelectRound
    <2>4. CASE ~validOrder(order)
      BY <2>1, <2>4 DEF CoinsListed, Refuse, Budget
    <2> QED BY <2>3, <2>4
  <1>7. CASE \E body \in Coins \cup {Unreadable} : SourceServed(body)
    <2> PICK body : SourceServed(body)
      BY <1>7
    <2> DEFINE coin == inputs[checked + 1]
    <2>1. /\ stage = "verifying" /\ call.sent /\ UNCHANGED <<utxos, seen>>
          /\ call.attempt \in Nat
      BY DEF SourceServed, AnswerDue, Types, CallTypes
    <2>2. call.attempt <= Retries
      BY <2>1 DEF Budget
    <2>3. CASE admissible(body, coin)
      <3>1. /\ checked' = checked + 1 /\ UNCHANGED <<round, inputs>>
            /\ IF checked' < Len(inputs) THEN ask("tx") /\ stage' = stage
               ELSE stage' \in {"signed", "refused"}
        BY <2>3 DEF SourceServed, GoodInput, Refuse
      <3>2. seen'.gets <= MAX_SELECT_ROUNDS * perRound
        BY <2>1 DEF Budget
      <3>3. CASE checked' < Len(inputs)
        <4>1. /\ call' = [path |-> "tx", attempt |-> 0, sent |-> FALSE] /\ stage' = "verifying"
          BY <2>1, <3>1, <3>3 DEF ask
        <4>2. call'.attempt = 0 /\ made' = 0
          BY <4>1 DEF made
        <4>3. seen.gets <= round * perRound + checked * perInput + call.attempt + 1
          <5>1. made = call.attempt + 1
            BY <2>1 DEF made
          <5>2. seen.gets <= round * perRound + checked * perInput + made
            BY <2>1 DEF Budget
          <5>3. round * perRound + checked * perInput \in Int
            BY RetriesAssumption, SelectionAssumption DEF perRound, perInput, Types
          <5> QED BY <2>1, <5>1, <5>2, <5>3
        <4>4. seen.gets \in Nat
          BY DEF Types, SeenTypes
        <4>5. seen.gets <= round * perRound + (checked + 1) * perInput
          BY <2>1, <2>2, <4>3, <4>4, PaidFor
        <4>6. round * perRound + (checked + 1) * perInput \in Int
          BY RetriesAssumption, SelectionAssumption DEF perRound, perInput, Types
        <4>7. seen'.gets <= round' * perRound + checked' * perInput + made'
          BY <2>1, <3>1, <4>2, <4>5, <4>6
        <4>8. Len(inputs') \in Nat /\ checked' < Len(inputs') /\ Len(inputs') <= MAX_TX_INPUTS
          BY <2>1, <3>1, <3>3 DEF Budget
        <4> QED BY <3>2, <4>1, <4>2, <4>7, <4>8, RetriesAssumption DEF Budget
      <3>4. CASE ~(checked' < Len(inputs))
        BY <3>1, <3>2, <3>4 DEF Budget
      <3> QED BY <3>3, <3>4
    <2>4. CASE ~admissible(body, coin)
      BY <2>1, <2>2, <2>4, BadInputBudget DEF SourceServed
    <2> QED BY <2>3, <2>4
  <1>8. CASE \E outcome \in Outcomes : ListThrew(outcome)
    BY <1>8 DEF ListThrew, Budget, Types, SeenTypes
  <1>9. CASE \E outcome \in Outcomes : SourceThrew(outcome)
    <2>1. /\ stage = "verifying" /\ call.sent /\ UNCHANGED <<utxos, seen>>
          /\ BadInput(inputs[checked + 1])
      BY <1>9 DEF SourceThrew, Throws, AnswerDue
    <2>2. call.attempt <= Retries
      BY <2>1 DEF Budget
    <2> QED BY <2>1, <2>2, BadInputBudget
  <1>10. CASE \E outcome \in Outcomes : SubmitThrew(outcome)
    BY <1>10 DEF SubmitThrew, Budget, Types, SeenTypes
  <1>11. CASE \E outcome \in Outcomes : WaitThrew(outcome)
    BY <1>11 DEF WaitThrew, Budget, Types, SeenTypes
  <1>12. CASE SubmitAnswered
    BY <1>12 DEF SubmitAnswered, Budget, Types, SeenTypes
  <1>13. CASE TxAnswered
    BY <1>13 DEF TxAnswered, Budget, Types, SeenTypes
  <1>14. CASE TipAnswered
    BY <1>14 DEF TipAnswered, Budget, Types, SeenTypes
  <1>15. CASE PollAgain
    BY <1>15 DEF PollAgain, Budget, Types, SeenTypes
  <1>16. CASE Deadline
    BY <1>16 DEF Deadline, Budget, Types, SeenTypes, made
  <1>17. CASE TakeBroadcast
    BY <1>17 DEF TakeBroadcast, Budget, Types, SeenTypes, made
  <1>18. CASE LoseBroadcast
    BY <1>18 DEF LoseBroadcast, Budget, Types, SeenTypes, made
  <1>19. CASE Mine
    BY <1>19 DEF Mine, Budget, Types, SeenTypes, made
  <1>20. CASE \E fork \in 1..MaxTip, tip \in 1..MaxTip : Reorg(fork, tip)
    BY <1>20 DEF Reorg, Budget, Types, SeenTypes, made
  <1>21. CASE UNCHANGED vars
    BY <1>21 DEF vars, buildVars, waitVars, Budget, Types, SeenTypes, made
  <1> QED
    BY <1>1, <1>2, <1>3, <1>4, <1>5, <1>6, <1>7, <1>8, <1>9, <1>10, <1>11,
       <1>12, <1>13, <1>14, <1>15, <1>16, <1>17, <1>18, <1>19, <1>20,
       <1>21
    DEF Next, Settle

-----------------------------------------------------------------------------
(* What is verified adds up.                                               *)

LEMMA FirstOfDistinct ==
  ASSUME NEW s, Distinct(s), NEW k \in 0..Len(s)
  PROVE  /\ IsFiniteSet(firstOf(s, k)) /\ Cardinality(firstOf(s, k)) = k
         /\ firstOf(s, k) \subseteq Coins
  <1> DEFINE f == [j \in 1..k |-> s[j]]
             T == firstOf(s, k)
  <1>1. s \in Seq(Coins) /\ Len(s) \in Nat /\ (\A i, j \in 1..Len(s) : s[i] = s[j] => i = j)
    BY DEF Distinct
  <1>2. k \in Nat /\ 1..k \subseteq 1..Len(s)
    BY <1>1
  <1>3. T \subseteq Coins
    BY <1>1, <1>2 DEF firstOf
  <1>4. f \in [1..k -> T] /\ (\A t \in T : \E j \in 1..k : f[j] = t)
    BY DEF firstOf
  <1>5. \A i, j \in 1..k : f[i] = f[j] => i = j
    BY <1>1, <1>2
  <1> HIDE DEF f, T
  <1>6. f \in Surjection(1..k, T) /\ f \in Injection(1..k, T)
    BY <1>4, <1>5 DEF Surjection, Injection, IsInjective
  <1>7. IsFiniteSet(1..k) /\ Cardinality(1..k) = k
    <2>1. 1 \in Int /\ k \in Int
      BY <1>2
    <2>2. IsFiniteSet(1..k) /\ Cardinality(1..k) = IF 1 > k THEN 0 ELSE k - 1 + 1
      BY <2>1, FS_Interval
    <2> QED BY <1>2, <2>2
  <1>8. IsFiniteSet(T) /\ Cardinality(T) = k
    BY <1>6, <1>7, FS_Surjection
  <1> QED BY <1>3, <1>8 DEF T

\* A round starts with nothing verified, on coins no two of which are one.
LEMMA RoundPaid ==
  ASSUME NEW list, list = <<>> \/ list \in Listings, NEW bad, NEW r, SelectRound(list, bad, r)
  PROVE  Paid'
  <1>1. CASE inputs' = <<>>
    BY <1>1 DEF SelectRound, Refuse, Paid, Signed
  <1>2. CASE inputs' # <<>>
    <2>1. /\ inputs' = selectInputs(list, need(order), bad)
          /\ checked' = 0 /\ total' = 0 /\ stage' = "verifying"
      BY <1>2 DEF SelectRound
    <2>2. Distinct(inputs')
      BY <2>1, SelectionDistinct
    <2>3. firstOf(inputs', 0) = {}
      BY DEF firstOf
    <2>4. SumOf(ValueOf, firstOf(inputs', checked')) = 0
      BY <2>1, <2>3, SumEmpty
    <2>5. checked' \in 0..Len(inputs') /\ isSafe(total')
      BY <2>1, <2>2, SelectionAssumption DEF Distinct, isSafe
    <2> QED BY <2>1, <2>2, <2>4, <2>5 DEF Paid, Signed
  <1> QED BY <1>1, <1>2

LEMMA BadInputPaid ==
  ASSUME Types, NEW coin, BadInput(coin) PROVE Paid'
  <1>1. CASE lastRound
    BY <1>1 DEF BadInput, Refuse, Paid, Signed
  <1>2. CASE ~lastRound
    BY <1>2, RoundPaid DEF BadInput, Types
  <1> QED BY <1>1, <1>2

\* A verified input is a coin not counted before, at the value its source commits to.
LEMMA GoodInputPaid ==
  ASSUME Types, Budget, Paid, stage = "verifying", order' = order,
         NEW body, admissible(body, inputs[checked + 1]), GoodInput(inputValue(body))
  PROVE  Paid'
  <1> DEFINE coin == inputs[checked + 1]
             old == firstOf(inputs, checked)
             v == ValueOf[coin]
  <1>1. /\ Distinct(inputs) /\ checked \in Nat /\ checked < Len(inputs)
        /\ isSafe(total) /\ total = SumOf(ValueOf, old)
    BY DEF Paid, Budget, Types
  <1>2. /\ inputs \in Seq(Coins) /\ Len(inputs) \in Nat
        /\ \A i, j \in 1..Len(inputs) : inputs[i] = inputs[j] => i = j
    BY <1>1 DEF Distinct
  <1>3. checked + 1 \in 1..Len(inputs) /\ checked \in 0..Len(inputs)
    BY <1>1, <1>2
  <1>4. coin \in Coins
    BY <1>2, <1>3
  <1>5. body = coin /\ inputValue(body) = v /\ isSafe(total + v)
    BY <1>4 DEF admissible, provesInput, inputValue
  <1>6. /\ checked' = checked + 1 /\ total' = total + v /\ inputs' = inputs
        /\ checked' < Len(inputs) => stage' = "verifying"
        /\ ~(checked' < Len(inputs)) =>
             stage' = "refused" \/ (stage' = "signed" /\ signable(order, total'))
    BY <1>5 DEF GoodInput, Refuse
  <1>7. firstOf(inputs, checked + 1) = old \cup {coin} /\ coin \notin old
    <2>1. 1..(checked + 1) = 1..checked \cup {checked + 1}
      BY <1>1
    <2>2. firstOf(inputs, checked + 1) = old \cup {coin}
      BY <2>1 DEF firstOf
    <2>3. ASSUME NEW j \in 1..checked PROVE inputs[j] # coin
      <3>1. j \in 1..Len(inputs) /\ j # checked + 1
        BY <1>1, <1>2
      <3> QED BY <1>2, <1>3, <3>1
    <2> QED BY <2>2, <2>3 DEF firstOf
  <1>8. IsFiniteSet(old) /\ old \subseteq Coins
    BY <1>1, <1>3, FirstOfDistinct
  <1>9. \A y \in old \cup {coin} : ValueOf[y] \in Int
    BY <1>4, <1>8, FlowAssumption
  <1> HIDE DEF coin, old
  <1>10. SumOf(ValueOf, old \cup {coin}) = SumOf(ValueOf, old) + ValueOf[coin]
    BY <1>7, <1>8, <1>9, SumAdd
  <1>11. total' = SumOf(ValueOf, firstOf(inputs', checked'))
    BY <1>1, <1>6, <1>7, <1>10
  <1>12. /\ Distinct(inputs') /\ checked' \in 0..Len(inputs') /\ isSafe(total')
    <2>1. isSafe(total')
      BY <1>5, <1>6
    <2>2. checked' \in 0..Len(inputs')
      BY <1>3, <1>6
    <2> QED BY <1>1, <1>6, <2>1, <2>2
  <1>13. Signed' => checked' = Len(inputs') /\ change' >= 0
    <2> SUFFICES ASSUME Signed' PROVE checked' = Len(inputs') /\ change' >= 0
      OBVIOUS
    <2>1. stage' # "verifying" /\ stage' # "refused"
      BY DEF Signed
    <2>2. ~(checked' < Len(inputs)) /\ signable(order, total')
      BY <1>6, <2>1
    <2>3. checked' = Len(inputs')
      BY <1>2, <1>3, <1>6, <2>2
    <2>4. change' >= 0
      BY <2>2 DEF signable, change
    <2> QED BY <2>3, <2>4
  <1> QED BY <1>11, <1>12, <1>13 DEF Paid

\* A step that builds nothing.
LEMMA PaidStays ==
  ASSUME Paid, UNCHANGED <<order, inputs, checked, total>>,
         stage' = "verifying" => stage = "verifying", Signed' => Signed
  PROVE  Paid'
  BY DEF Paid, change

LEMMA StepPaid ==
  ASSUME Types, OneRequest, Budget, Paid, [Next]_vars
  PROVE  Paid'
  <1> USE DEF buildVars
  <1>1. CASE ListCoins
    BY <1>1, PaidStays DEF ListCoins, Signed
  <1>2. CASE Submit
    BY <1>2, PaidStays DEF Submit, Signed
  <1>3. CASE \E n \in Depths : WaitForTx(n)
    BY <1>3, PaidStays DEF WaitForTx, Signed
  <1>4. CASE Send
    BY <1>4, PaidStays DEF Send, Signed
  <1>5. CASE SendAgain
    BY <1>5, PaidStays DEF SendAgain, Signed
  <1>6. CASE \E list \in Listings : CoinsListed(list)
    <2> PICK list \in Listings : CoinsListed(list)
      BY <1>6
    <2>1. CASE validOrder(order)
      BY <2>1, RoundPaid DEF CoinsListed
    <2>2. CASE ~validOrder(order)
      BY <2>2 DEF CoinsListed, Refuse, Paid, Signed
    <2> QED BY <2>1, <2>2
  <1>7. CASE \E body \in Coins \cup {Unreadable} : SourceServed(body)
    <2> PICK body : SourceServed(body)
      BY <1>7
    <2>1. CASE admissible(body, inputs[checked + 1])
      BY <2>1, GoodInputPaid DEF SourceServed
    <2>2. CASE ~admissible(body, inputs[checked + 1])
      BY <2>2, BadInputPaid DEF SourceServed
    <2> QED BY <2>1, <2>2
  <1>8. CASE \E outcome \in Outcomes : ListThrew(outcome)
    BY <1>8 DEF ListThrew, Refuse, Paid, Signed
  <1>9. CASE \E outcome \in Outcomes : SourceThrew(outcome)
    BY <1>9, BadInputPaid DEF SourceThrew
  <1>10. CASE \E outcome \in Outcomes : SubmitThrew(outcome)
    <2>1. stage = "submitting"
      BY <1>10 DEF SubmitThrew, Throws, AnswerDue, OneRequest, PathOf
    <2> QED BY <1>10, <2>1, PaidStays DEF SubmitThrew, Signed
  <1>11. CASE \E outcome \in Outcomes : WaitThrew(outcome)
    BY <1>11, PaidStays DEF WaitThrew, Pause, Signed
  <1>12. CASE SubmitAnswered
    <2>1. stage = "submitting"
      BY <1>12 DEF SubmitAnswered, AnswerDue, OneRequest, PathOf
    <2> QED BY <1>12, <2>1, PaidStays DEF SubmitAnswered, Signed
  <1>13. CASE TxAnswered
    BY <1>13, PaidStays DEF TxAnswered, Pause, Signed
  <1>14. CASE TipAnswered
    BY <1>14, PaidStays DEF TipAnswered, Pause, Signed
  <1>15. CASE PollAgain
    BY <1>15, PaidStays DEF PollAgain, Signed
  <1>16. CASE Deadline
    BY <1>16, PaidStays DEF Deadline, Signed
  <1>17. CASE TakeBroadcast
    BY <1>17, PaidStays DEF TakeBroadcast, Signed
  <1>18. CASE LoseBroadcast
    BY <1>18, PaidStays DEF LoseBroadcast, Signed
  <1>19. CASE Mine
    BY <1>19, PaidStays DEF Mine, Signed
  <1>20. CASE \E fork \in 1..MaxTip, tip \in 1..MaxTip : Reorg(fork, tip)
    BY <1>20, PaidStays DEF Reorg, Signed
  <1>21. CASE UNCHANGED vars
    BY <1>21, PaidStays DEF vars, Signed
  <1> QED
    BY <1>1, <1>2, <1>3, <1>4, <1>5, <1>6, <1>7, <1>8, <1>9, <1>10, <1>11,
       <1>12, <1>13, <1>14, <1>15, <1>16, <1>17, <1>18, <1>19, <1>20,
       <1>21
    DEF Next, Settle

-----------------------------------------------------------------------------
(* The theorems.                                                           *)

LEMMA InitIInv == Init => IInv
  <1> SUFFICES ASSUME Init PROVE IInv
    OBVIOUS
  <1>1. Types
    BY NoCallTypes, FlowAssumption DEF Init, Types, Stages, NodeTypes, SeenTypes
  <1>2. OneRequest
    BY DEF Init, OneRequest, PathOf, NoCall
  <1>3. Broadcasts
    BY DEF Init, Broadcasts
  <1>4. Budget
    <2>1. MAX_SELECT_ROUNDS * perRound \in Nat
      BY SelectionAssumption, FlowAssumption, RetriesAssumption DEF perRound, perInput
    <2> QED BY <2>1 DEF Init, Budget
  <1>5. OneChain
    BY DEF Init, OneChain
  <1>6. Paid
    BY DEF Init, Paid, Signed
  <1> QED BY <1>1, <1>2, <1>3, <1>4, <1>5, <1>6 DEF IInv

LEMMA StepIInv == IInv /\ [Next]_vars => IInv'
  BY StepTypes, StepRequest, StepBroadcasts, StepBudget, StepOneChain, StepPaid DEF IInv

LEMMA Invariance == Spec => []IInv
  BY InitIInv, StepIInv, PTL DEF Spec

\* A broadcast goes out at most once, and a build asks at most so often, for
\* every number of retries, rounds and inputs (req, buildSendVerified).
THEOREM BroadcastOnce == Spec => []SentOnce
  <1>1. IInv => SentOnce
    <2> SUFFICES ASSUME IInv PROVE SentOnce
      OBVIOUS
    <2>1. seen.broadcasts <= 1 /\ seen.gets <= MAX_SELECT_ROUNDS * perRound
      BY DEF IInv, Broadcasts, Budget
    <2>2. MAX_SELECT_ROUNDS * perRound = MAX_SELECT_ROUNDS * MAX_TX_INPUTS * (Retries + 1)
      BY SelectionAssumption, FlowAssumption, RetriesAssumption DEF perRound, perInput
    <2> QED BY <2>1, <2>2 DEF SentOnce
  <1> QED BY <1>1, Invariance, PTL

\* waitForTx resolves only on the height at which the chain has the
\* transaction, with its exact depth, unless the chain reorganized between the
\* two reads of the last poll.
THEOREM ConfirmationsExact == Spec => ConfirmedOnOneChain
  <1> DEFINE A == stage # "confirmed" /\ stage' = "confirmed" /\ ~seen.reorged =>
                    /\ node.minedAt = sighting
                    /\ depth' = node.tip - node.minedAt + 1
  <1>1. IInv /\ [Next]_vars => [A]_vars
    <2> SUFFICES ASSUME IInv, [Next]_vars, stage # "confirmed", stage' = "confirmed", ~seen.reorged
                 PROVE  node.minedAt = sighting /\ depth' = node.tip - node.minedAt + 1
      OBVIOUS
    <2>1. TipAnswered
      BY DEF Next, Settle, ListCoins, Submit, WaitForTx, Send, SendAgain, CoinsListed,
             SelectRound, Refuse, SourceServed, GoodInput, BadInput, SourceThrew, ListThrew,
             SubmitThrew, SubmitAnswered, WaitThrew, TxAnswered, Pause, PollAgain, Deadline,
             TakeBroadcast, LoseBroadcast, Mine, Reorg, vars
    <2>2. stage = "counting" /\ depth' = node.tip - sighting + 1
      BY <2>1 DEF TipAnswered, Pause
    <2>3. sighting = node.minedAt
      BY <2>2 DEF IInv, OneChain
    <2> QED BY <2>2, <2>3
  <1> QED BY <1>1, Invariance, PTL DEF Spec, ConfirmedOnOneChain

\* Whatever list and whatever sources a node serves, what is signed spends
\* different coins, worth at the values their sources commit to exactly the
\* outputs, the fee and the change (selectInputs, verifyInputValues, assemble).
THEOREM NothingIsBurned == Spec => []NothingBurned
  <1>1. IInv => NothingBurned
    <2> SUFFICES ASSUME IInv, Signed PROVE
             LET spent == {inputs[i] : i \in DOMAIN inputs}
             IN /\ Cardinality(spent) = Len(inputs)
                /\ SumsTo(spent) = order.sumOut + order.fee + change
                /\ change >= 0 /\ isSafe(total)
      BY DEF NothingBurned
    <2> DEFINE spent == {inputs[i] : i \in DOMAIN inputs}
    <2>1. /\ Distinct(inputs) /\ checked = Len(inputs) /\ change >= 0 /\ isSafe(total)
          /\ total = SumOf(ValueOf, firstOf(inputs, checked))
      BY DEF IInv, Paid
    <2>2. Len(inputs) \in Nat /\ DOMAIN inputs = 1..Len(inputs)
      BY <2>1 DEF Distinct
    <2>3. spent = firstOf(inputs, Len(inputs))
      BY <2>2 DEF firstOf
    <2>4. Cardinality(spent) = Len(inputs)
      BY <2>1, <2>2, <2>3, FirstOfDistinct
    <2>5. SumsTo(spent) = total
      <3>1. SumsTo(spent) = SumOf(ValueOf, spent)
        BY DEF SumsTo, SumOf
      <3> QED BY <2>1, <2>3, <3>1
    <2>6. total = order.sumOut + order.fee + change
      <3>1. total \in Int /\ order.sumOut \in Int /\ order.fee \in Int
        BY <2>1, SelectionAssumption, FlowAssumption DEF isSafe, IInv, Types
      <3> QED BY <3>1 DEF change, need
    <2> QED BY <2>1, <2>4, <2>5, <2>6
  <1> QED BY <1>1, Invariance, PTL
=============================================================================
