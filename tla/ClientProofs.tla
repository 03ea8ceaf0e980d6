---------------------------- MODULE ClientProofs ----------------------------
(***************************************************************************)
(* What the client's selectors and the routing checks promise, for every   *)
(* setting of the convention's parameters and every bounded set of inputs. *)
(***************************************************************************)
EXTENDS ClientProperties, FiniteSetTheorems, TLAPS

\* A recorded call has one of the inputs it is asked about.
CallInv ==
  /\ call.fn = "select" => /\ call.expires \in Expiries
                           /\ call.anchor \in ACTIVATION_HEIGHT .. MaxHeight
  /\ call.fn = "route" => call.o \in Contenders
  /\ call.fn = "tip" => call.h \in Tips

LEMMA CallInvHolds == ClientSpec => []CallInv
  <1>1. ClientInit => CallInv
    BY DEF ClientInit, NoCall, CallInv
  <1>2. CallInv /\ [ClientNext]_clientVars => CallInv'
    <2> SUFFICES ASSUME CallInv, [ClientNext]_clientVars PROVE CallInv'
      OBVIOUS
    <2>1. CASE UNCHANGED call
      BY <2>1 DEF CallInv
    <2>2. CASE Select
      BY <2>2 DEF Select, Called, CallInv
    <2>3. CASE Route
      BY <2>3 DEF Route, Called, CallInv
    <2>4. CASE Tip
      BY <2>4 DEF Tip, Called, CallInv
    <2>5. CASE Encode \/ EncodeHeader \/ Attribute \/ Compact
      BY <2>5 DEF Encode, EncodeHeader, Attribute, Compact, Called, CallInv
    <2>6. CASE Sign \/ Verify \/ Parse \/ Size \/ Price
      BY <2>6 DEF Sign, Verify, Parse, Size, Price, Called, CallInv
    <2> QED BY <2>1, <2>2, <2>3, <2>4, <2>5, <2>6 DEF ClientNext, clientVars
  <1> QED BY <1>1, <1>2, PTL DEF ClientSpec

-----------------------------------------------------------------------------
(* Least and greatest of two, and division.                                *)

LEMMA MinOfTwo ==
  ASSUME NEW a \in Int, NEW b \in Int
  PROVE  /\ Min({a, b}) \in {a, b} /\ Min({a, b}) \in Int
         /\ Min({a, b}) <= a /\ Min({a, b}) <= b
  <1>1. \E x \in {a, b} : \A y \in {a, b} : x <= y
    OBVIOUS
  <1> QED BY <1>1 DEF Min

LEMMA MinOfOne == \A a \in Int : Min({a}) = a
  BY DEF Min

LEMMA MaxOfTwo ==
  ASSUME NEW a \in Int, NEW b \in Int
  PROVE  /\ Max({a, b}) \in {a, b} /\ a <= Max({a, b}) /\ b <= Max({a, b})
  <1>1. \E x \in {a, b} : \A y \in {a, b} : x >= y
    OBVIOUS
  <1> QED BY <1>1 DEF Max

LEMMA Products ==
  ASSUME NEW a \in Nat, NEW b \in Nat
  PROVE  a * b \in Nat
  OBVIOUS

\* A number is less than the next multiple after its quotient, and no quotient
\* reaches a bound whose multiple the number stays below.
LEMMA Division ==
  ASSUME NEW n \in Nat, NEW L \in Nat \ {0}
  PROVE  /\ n \div L \in Nat /\ n % L \in 0 .. L - 1
         /\ n = (n \div L) * L + (n % L)
         /\ n < (n \div L + 1) * L
         /\ \A k \in Nat : n < k * L <=> n \div L < k
  <1> DEFINE q == n \div L
             r == n % L
  <1>1. q \in Nat /\ r \in Nat /\ r < L /\ n = q * L + r
    OBVIOUS
  <1> HIDE DEF q, r
  <1>2. n < (q + 1) * L
    BY <1>1
  <1>3. ASSUME NEW k \in Nat, q < k PROVE n < k * L
    <2>1. PICK d \in Nat : k = q + 1 + d
      BY <1>1, <1>3, k - q - 1 \in Nat
    <2>2. k * L = (q + 1) * L + d * L
      BY <1>1, <2>1
    <2>3. d * L \in Nat /\ (q + 1) * L \in Nat
      BY <1>1, <2>1, Products
    <2> QED BY <1>2, <2>2, <2>3
  <1>4. ASSUME NEW k \in Nat, ~(q < k) PROVE ~(n < k * L)
    <2>1. PICK d \in Nat : q = k + d
      BY <1>1, <1>4, q - k \in Nat
    <2>2. q * L = k * L + d * L
      BY <2>1
    <2>3. d * L \in Nat /\ k * L \in Nat
      BY <2>1, Products
    <2> QED BY <1>1, <2>2, <2>3
  <1>5. \A k \in Nat : n < k * L <=> q < k
    BY <1>3, <1>4
  <1>6. /\ q \in Nat /\ r \in 0 .. L - 1
        /\ n = q * L + r
        /\ n < (q + 1) * L
        /\ \A k \in Nat : n < k * L <=> q < k
    BY <1>1, <1>2, <1>5
  <1> QED BY <1>6 DEF q, r
-----------------------------------------------------------------------------
(* Routing.                                                                *)

\* The checks read the codec of the module they extend: the same one.
LEMMA SameCodec ==
  /\ \A b : R!bitsToTarget(b) = H!bitsToTarget(b)
  /\ R!POW_LIMIT_TARGET = H!POW_LIMIT_TARGET
  /\ \A x : H!Min(x) = Min(x) /\ R!Min(x) = Min(x) /\ R!Max(x) = Max(x)
  BY DEF Min, H!Min, R!Min, Max, R!Max, R!bitsToTarget, H!bitsToTarget, R!POW_LIMIT_TARGET, H!POW_LIMIT_TARGET,
         R!SIGN_BIT, H!SIGN_BIT, R!TARGET_END, H!TARGET_END

LEMMA TargetNat ==
  ASSUME NEW bits \in Nat
  PROVE  H!bitsToTarget(bits) \in Nat
  <1> DEFINE byte3 == BYTE ^ 3
             e == bits \div byte3
             m == bits % byte3
  <1>1. byte3 \in Nat \ {0}
    BY CodecAssumption
  <1>2. e \in Nat /\ m \in Nat
    <2> HIDE DEF byte3
    <2> QED BY <1>1, Division
  <1>3. CASE e > TARGET_BYTES
    BY <1>3 DEF H!bitsToTarget
  <1>4. CASE e <= 3
    <2> DEFINE p == BYTE ^ (3 - e)
    <2>1. p \in Nat \ {0}
      <3>1. 3 - e \in 0 .. TARGET_BYTES
        BY <1>2, <1>4, CodecAssumption
      <3> HIDE DEF e
      <3> QED BY <3>1, CodecAssumption
    <2>2. m \div p \in Nat
      <3> HIDE DEF m, p
      <3> QED BY <1>2, <2>1, Division
    <2> QED BY <1>4, <2>2 DEF H!bitsToTarget
  <1>5. CASE e > 3 /\ e <= TARGET_BYTES
    <2> DEFINE p == BYTE ^ (e - 3)
    <2>1. p \in Nat
      <3>1. e - 3 \in 0 .. TARGET_BYTES
        BY <1>2, <1>5, CodecAssumption
      <3> HIDE DEF e
      <3> QED BY <3>1, CodecAssumption
    <2>2. m * p \in Nat
      <3> HIDE DEF m, p
      <3> QED BY <1>2, <2>1, Products
    <2>3. ~(e <= 3)
      <3> HIDE DEF e
      <3> QED BY <1>2, <1>5
    <2> QED BY <2>2, <2>3 DEF H!bitsToTarget
  <1> QED
    <2> HIDE DEF e
    <2> QED BY <1>2, <1>3, <1>4, <1>5, CodecAssumption

LEMMA CodecTypes ==
  H!TARGET_END \in Nat \ {0} /\ H!POW_LIMIT_TARGET \in Nat
  BY TargetNat, CodecAssumption DEF H!TARGET_END, H!POW_LIMIT_TARGET

\* A target that is at most ease times as easy stands for at least the ease-th
\* part of the work.
LEMMA EasedQuotient ==
  ASSUME NEW N \in Nat, NEW te \in Nat, NEW tc \in Nat, NEW ease \in Nat \ {0},
         tc <= te * ease
  PROVE  (N \div (tc + 1) + 1) * ease > N \div (te + 1)
  <1> DEFINE q == N \div (tc + 1)
             k == (q + 1) * ease
  <1>1. q \in Nat /\ N < (q + 1) * (tc + 1)
    BY Division, tc + 1 \in Nat \ {0}
  <1>2. k \in Nat
    <2> HIDE DEF q
    <2> QED BY <1>1, Products
  <1>3. tc + 1 <= (te + 1) * ease
    <2>1. (te + 1) * ease = te * ease + ease
      OBVIOUS
    <2> QED BY <2>1, Products
  <1>4. (q + 1) * (tc + 1) <= k * (te + 1)
    <2> HIDE DEF q
    <2> DEFINE a == tc + 1
               b == (te + 1) * ease
               s == q + 1
    <2>1. a \in Nat /\ b \in Nat /\ s \in Nat /\ a <= b
      BY <1>1, <1>3, Products
    <2>2. k * (te + 1) = s * b
      BY <1>1
    <2> HIDE DEF a, b, s
    <2>3. PICK d \in Nat : b = a + d
      BY <2>1, b - a \in Nat
    <2>4. s * b = s * a + s * d /\ s * d \in Nat /\ s * a \in Nat
      BY <2>1, <2>3, Products
    <2>5. s * a <= s * b
      BY <2>4
    <2> QED BY <2>2, <2>5 DEF a, s
  <1>5. N < k * (te + 1)
    <2>1. (q + 1) * (tc + 1) \in Nat /\ k * (te + 1) \in Nat
      <3> HIDE DEF q
      <3> QED BY <1>1, <1>2, Products
    <2> HIDE DEF q, k
    <2> QED BY <1>1, <1>4, <2>1
  <1>6. N \div (te + 1) < k
    <2> HIDE DEF k
    <2> QED BY <1>2, <1>5, Division, te + 1 \in Nat \ {0}
  <1>7. N \div (te + 1) \in Nat
    BY Division, te + 1 \in Nat \ {0}
  <1> QED BY <1>2, <1>6, <1>7

\* The work a target stands for, between the share and the cap.
LEMMA EasedWork ==
  ASSUME NEW bc \in Nat, NEW be \in Nat, NEW ease \in Nat \ {0},
         H!withinPowLimit(be), H!withinPowLimit(bc),
         H!bitsToTarget(bc) <= H!bitsToTarget(be) * ease
  PROVE  (H!workForBits(bc) + 1) * ease > H!workForBits(be)
  <1> DEFINE tc == H!bitsToTarget(bc)
             te == H!bitsToTarget(be)
             qc == H!TARGET_END \div (tc + 1)
             qe == H!TARGET_END \div (te + 1)
             wc == H!workForBits(bc)
             we == H!workForBits(be)
  <1>1. tc \in Nat /\ te \in Nat
    BY TargetNat
  <1>2. (qc + 1) * ease > qe
    BY <1>1, EasedQuotient, CodecTypes
  <1>3. qc \in Nat /\ qe \in Nat
    <2> HIDE DEF tc, te
    <2> QED BY <1>1, Division, CodecTypes, tc + 1 \in Nat \ {0}, te + 1 \in Nat \ {0}
  <1>4. wc = Min({MAX_WORK, qc}) /\ we = Min({MAX_WORK, qe})
    BY SameCodec DEF H!workForBits
  <1> HIDE DEF qc, qe, wc, we
  <1>5. wc \in {MAX_WORK, qc} /\ we <= MAX_WORK /\ we <= qe /\ we \in Nat /\ wc \in Nat
    <2>1. MAX_WORK \in Int /\ qc \in Int /\ qe \in Int
      BY <1>3, CodecAssumption
    <2>2. Min({MAX_WORK, qc}) \in {MAX_WORK, qc}
      BY <2>1, MinOfTwo
    <2>3. LET m == Min({MAX_WORK, qe}) IN m \in {MAX_WORK, qe} /\ m <= MAX_WORK /\ m <= qe
      BY <2>1, MinOfTwo
    <2> QED BY <1>3, <1>4, <2>2, <2>3, CodecAssumption
  <1>6. CASE wc = MAX_WORK
    <2>1. PICK d \in Nat : ease = 1 + d
      BY ease - 1 \in Nat
    <2>2. (wc + 1) * ease = wc + 1 + (wc + 1) * d /\ (wc + 1) * d \in Nat
      BY <1>5, <2>1, Products
    <2>3. (wc + 1) * ease > we
      BY <1>5, <1>6, <2>2
    <2> QED BY <2>3 DEF wc, we
  <1>7. CASE wc = qc
    <2>1. (qc + 1) * ease \in Nat
      BY <1>3, Products
    <2>2. (wc + 1) * ease > we
      BY <1>2, <1>3, <1>5, <1>7, <2>1
    <2> QED BY <2>2 DEF wc, we
  <1> QED BY <1>5, <1>6, <1>7

\* A configured number counts as its default unless it is positive, and asking
\* again changes nothing.
LEMMA PositiveNumber ==
  ASSUME NEW x \in Number, NEW dflt \in Int
  PROVE  LET y == R!positive(x, dflt)
         IN /\ y \in Int
            /\ y = IF bad(x) THEN dflt ELSE x
            /\ R!positive(y, dflt) = y
  BY InputsAssumption DEF R!positive, R!isNum, bad, Number

\* What a sane configuration says of a contender.
LEMMA SaneFields ==
  ASSUME NEW o \in Contenders
  PROVE  LET s == Sane(o)
         IN /\ \A k \in {"enabled", "claimedHeight", "contenderBits", "localHeight",
                         "localTime", "nowSecs", "expectedLocalBits"} : s[k] = o[k]
            /\ s.maxAhead = R!positive(o.maxAhead, 0)
            /\ s.maxEase = R!positive(o.maxEase, 1)
            /\ s.blockSecs = R!positive(o.blockSecs, TARGET_BLOCK_SECS)
            /\ s.anchorFloor = R!positive(o.anchorFloor, 0)
  <1>1. /\ o.maxAhead \in Number /\ o.maxEase \in Number
        /\ o.blockSecs \in Number /\ o.anchorFloor \in Number
    BY InputsAssumption
  <1>2. DOMAIN o = {"enabled", "claimedHeight", "contenderBits", "localHeight",
                    "anchorFloor", "localTime", "nowSecs", "blockSecs",
                    "expectedLocalBits", "maxAhead", "maxEase"}
    BY InputsAssumption
  <1>3. DOMAIN Config = {"maxAhead", "maxEase", "blockSecs", "anchorFloor"}
    BY DEF Config
  <1>4. /\ Config.maxAhead = 0 /\ Config.maxEase = 1
        /\ Config.blockSecs = TARGET_BLOCK_SECS /\ Config.anchorFloor = 0
    BY DEF Config
  <1>5. \A k \in {"enabled", "claimedHeight", "contenderBits", "localHeight",
                  "localTime", "nowSecs", "expectedLocalBits"} : Sane(o)[k] = o[k]
    BY <1>2, <1>3 DEF Sane
  <1>6. \A k \in {"maxAhead", "maxEase", "blockSecs", "anchorFloor"} :
          Sane(o)[k] = IF bad(o[k]) THEN Config[k] ELSE o[k]
    BY <1>2, <1>3 DEF Sane
  <1> QED BY <1>1, <1>4, <1>5, <1>6, PositiveNumber, InputsAssumption

LEMMA SaneAlike ==
  ASSUME NEW o \in Contenders
  PROVE  R!contenderPlausible(Sane(o)) <=> R!contenderPlausible(o)
  <1> DEFINE s == Sane(o)
  <1>1. /\ s.enabled = o.enabled /\ s.claimedHeight = o.claimedHeight
        /\ s.contenderBits = o.contenderBits /\ s.localHeight = o.localHeight
        /\ s.localTime = o.localTime /\ s.nowSecs = o.nowSecs
        /\ s.expectedLocalBits = o.expectedLocalBits
    BY SaneFields
  <1>2. /\ R!positive(s.maxAhead, 0) = R!positive(o.maxAhead, 0)
        /\ R!positive(s.maxEase, 1) = R!positive(o.maxEase, 1)
        /\ R!positive(s.blockSecs, TARGET_BLOCK_SECS) = R!positive(o.blockSecs, TARGET_BLOCK_SECS)
        /\ R!positive(s.anchorFloor, 0) = R!positive(o.anchorFloor, 0)
    <2>1. /\ o.maxAhead \in Number /\ o.maxEase \in Number
          /\ o.blockSecs \in Number /\ o.anchorFloor \in Number
      BY InputsAssumption
    <2> QED BY <2>1, SaneFields, PositiveNumber, InputsAssumption
  <1> HIDE DEF s
  <1>3. R!staleBlocks(s) = R!staleBlocks(o) /\ (R!hasAnchor(s) <=> R!hasAnchor(o))
    BY <1>1, <1>2 DEF R!staleBlocks, R!hasAnchor
  <1>4. R!contenderPlausible(s) <=> R!contenderPlausible(o)
    BY <1>1, <1>2, <1>3 DEF R!contenderPlausible
  <1> QED BY <1>4 DEF s

\* A contender that passes, of an anchored client, did its share of the work.
LEMMA PlausibleShare ==
  ASSUME NEW o \in Contenders, R!contenderPlausible(o),
         o.enabled, o.localHeight # NaN, o.localHeight >= Sane(o).anchorFloor
  PROVE  /\ o.claimedHeight # NaN /\ o.contenderBits # NaN
         /\ \/ o.expectedLocalBits = NaN
            \/ ~H!withinPowLimit(o.expectedLocalBits)
            \/ (H!workForBits(o.contenderBits) + 1) * Max({1, Sane(o).maxEase})
                 > H!workForBits(o.expectedLocalBits)
  <1> DEFINE bc == o.contenderBits
             be == o.expectedLocalBits
             ease == Max({1, Sane(o).maxEase})
  <1>1. /\ bc \in Nat \cup {NaN} /\ be \in Nat \cup {NaN}
        /\ o.maxEase \in Number
    BY InputsAssumption
  <1>2. Sane(o).maxEase = R!positive(o.maxEase, 1) /\ Sane(o).maxEase \in Int
    BY <1>1, SaneFields, PositiveNumber
  <1>3. ease \in Nat \ {0}
    <2> DEFINE x == Sane(o).maxEase
    <2>1. x \in Int
      BY <1>2
    <2> HIDE DEF x
    <2>2. Max({1, x}) \in {1, x} /\ 1 <= Max({1, x})
      BY <2>1, MaxOfTwo
    <2>3. Max({1, x}) \in Nat \ {0}
      BY <2>1, <2>2
    <2> QED BY <2>3 DEF x
  <1>4. R!hasAnchor(o)
    BY SaneFields DEF R!hasAnchor, R!isNum
  <1>5. ease = R!Max({1, R!positive(o.maxEase, 1)})
    BY <1>2, SameCodec
  <1> HIDE DEF ease
  <1>6. /\ o.claimedHeight # NaN /\ bc # NaN /\ H!bitsToTarget(bc) > 0
        /\ LET expected == IF be # NaN THEN H!bitsToTarget(be) ELSE 0
           IN expected > 0 =>
                H!bitsToTarget(bc) <= Min({expected * ease, H!POW_LIMIT_TARGET})
    BY <1>4, <1>5, SameCodec DEF R!contenderPlausible, R!isNum
  <1>7. ASSUME be # NaN, H!withinPowLimit(be)
        PROVE  (H!workForBits(bc) + 1) * ease > H!workForBits(be)
    <2> DEFINE tc == H!bitsToTarget(bc)
               te == H!bitsToTarget(be)
               eased == te * ease
    <2>1. bc \in Nat /\ be \in Nat
      BY <1>1, <1>6, <1>7
    <2>2. tc \in Nat /\ te \in Nat /\ tc > 0 /\ te > 0
      BY <1>6, <1>7, <2>1, TargetNat, CodecTypes DEF H!withinPowLimit
    <2>3. eased \in Nat
      BY <1>3, <2>2, Products
    <2>4. tc <= Min({eased, H!POW_LIMIT_TARGET})
      BY <1>6, <1>7, <2>2
    <2> HIDE DEF tc, te, eased
    <2>5. tc <= eased /\ tc <= H!POW_LIMIT_TARGET
      <3> DEFINE limit == H!POW_LIMIT_TARGET
      <3>1. limit \in Int /\ eased \in Int
        BY <2>3, CodecTypes
      <3> HIDE DEF limit
      <3>2. LET m == Min({eased, limit}) IN m \in Int /\ m <= eased /\ m <= limit
        BY <3>1, MinOfTwo
      <3>3. tc <= Min({eased, limit})
        BY <2>4 DEF limit
      <3>4. tc <= eased /\ tc <= limit
        BY <2>2, <3>1, <3>2, <3>3
      <3> QED BY <3>4 DEF limit
    <2>6. H!withinPowLimit(bc)
      BY <2>2, <2>5, CodecTypes DEF H!withinPowLimit, tc
    <2>7. H!bitsToTarget(bc) <= H!bitsToTarget(be) * ease
      BY <2>5 DEF tc, te, eased
    <2> QED BY <1>3, <1>7, <2>1, <2>6, <2>7, EasedWork
  <1>8. \/ be = NaN \/ ~H!withinPowLimit(be)
        \/ (H!workForBits(bc) + 1) * ease > H!workForBits(be)
    BY <1>7
  <1> QED BY <1>6, <1>8 DEF ease

\* A tip whose header hash is the claimed one is below the limit of all targets.
LEMMA TipWithinLimit ==
  ASSUME NEW t \in Tips, R!tipHeaderPowOk(t.header, t.claimed)
  PROVE  t.claimed <= H!POW_LIMIT_TARGET
  <1>1. t.claimed \in Nat /\ t.header.bits \in Nat \cup {NaN}
    BY InputsAssumption
  <1>2. /\ t.header.bits # NaN
        /\ t.claimed <= H!bitsToTarget(t.header.bits)
        /\ H!bitsToTarget(t.header.bits) \in 1 .. H!POW_LIMIT_TARGET
    BY SameCodec DEF R!tipHeaderPowOk, R!isNum, R!powOk, R!withinPowLimit, R!headerHash
  <1> QED BY <1>1, <1>2, CodecTypes

\* Whatever a backend claims and however the routing is configured, a contender
\* the documented defaults refuse is refused, nothing unreadable passes an
\* anchored client, and the tip that wins did its share of the expected work.
THEOREM RoutingFailsClosed == ClientSpec => []RouteFailsClosed
  <1>1. CallInv => RouteFailsClosed
    <2> SUFFICES ASSUME CallInv PROVE RouteFailsClosed
      OBVIOUS
    <2>1. ASSUME call.fn = "route", R!contenderPlausible(call.o)
          PROVE  LET o == call.o
                     ease == Max({1, Sane(o).maxEase})
                 IN /\ R!contenderPlausible(Sane(o))
                    /\ o.enabled /\ o.localHeight # NaN /\ o.localHeight >= Sane(o).anchorFloor =>
                         /\ o.claimedHeight # NaN /\ o.contenderBits # NaN
                         /\ \/ o.expectedLocalBits = NaN
                            \/ ~H!withinPowLimit(o.expectedLocalBits)
                            \/ (H!workForBits(o.contenderBits) + 1) * ease
                                 > H!workForBits(o.expectedLocalBits)
      <3>1. call.o \in Contenders
        BY <2>1 DEF CallInv
      <3> QED BY <2>1, <3>1, SaneAlike, PlausibleShare
    <2>2. ASSUME call.fn = "tip", R!tipHeaderPowOk(call.h.header, call.h.claimed)
          PROVE  call.h.claimed <= H!POW_LIMIT_TARGET
      BY <2>2, TipWithinLimit DEF CallInv
    <2> QED BY <2>1, <2>2 DEF RouteFailsClosed
  <1> QED BY <1>1, CallInvHolds, PTL

-----------------------------------------------------------------------------
(* The selectors: the offer asked about, and when the sweep takes it.      *)

LEMMA FirstOffer == OfferOrder[1] \in OfferIds
  <1> DEFINE n == Cardinality(OfferIds)
  <1>1. n \in Nat /\ ExistsBijection(1 .. n, OfferIds)
    BY FiniteAssumption, FS_CardinalityType
  <1>2. n # 0
    BY FiniteAssumption, FS_EmptySet, LaneAssumption
  <1>3. PICK f \in [1 .. n -> OfferIds] : \A i \in OfferIds : \E k \in 1 .. n : f[k] = i
    BY <1>1 DEF ExistsBijection, Bijection, Surjection
  <1>4. Range(f) = OfferIds
    BY <1>3 DEF Range
  <1>5. OfferOrder \in [1 .. n -> OfferIds]
    BY <1>4 DEF OfferOrder
  <1>6. 1 \in 1 .. n
    BY <1>1, <1>2
  <1> QED BY <1>5, <1>6

LEMMA RestingFields ==
  ASSUME NEW E, NEW anchor
  PROVE  LET o == Resting(E, anchor)
         IN /\ o.status = "open" /\ o.height = anchor /\ o.expiresEpoch = E
            /\ o.claimedBy = None /\ o.claimTxid = None
            /\ o.terms.taker = None /\ o.terms.want.asset = CSD
  BY DEF Resting, Rules!NoOffer, Rules!NoTerms

LEMMA KnowingFields ==
  ASSUME NEW o, NEW h
  PROVE  /\ Knowing(o, h).height = h
         /\ Knowing(o, h).offers[OfferOrder[1]] = o
         /\ \A i \in OfferIds : i # OfferOrder[1] =>
              Knowing(o, h).offers[i].claimedBy = None
  BY FirstOffer DEF Knowing, Start, Rules!NoOffer

gone(E, anchor, h) == OfferOrder[1] \in Rules(Knowing(Resting(E, anchor), h))!StaleOffers

\* The epoch the sweep reads as the offer's last, seen from height h.
LastEpoch(E, anchor, h) ==
  IF anchor < V22_HEIGHT /\ h >= V21_HEIGHT
    THEN Smaller(E, epochOf(anchor) + MAX_OFFER_EPOCHS) ELSE E

LEMMA GoneEpoch ==
  ASSUME NEW E, NEW anchor, NEW h
  PROVE  /\ gone(E, anchor, h) <=> epochOf(h) > LastEpoch(E, anchor, h)
         /\ Rules(Knowing(Resting(E, anchor), h))!effExpiry(Resting(E, anchor), h)
              = LastEpoch(E, anchor, h)
  <1> DEFINE o == Resting(E, anchor)
             s == Knowing(o, h)
  <1>1. o.status = "open" /\ o.height = anchor /\ o.expiresEpoch = E
    BY RestingFields
  <1>2. s.height = h /\ s.offers[OfferOrder[1]] = o
    BY KnowingFields
  <1> HIDE DEF o, s
  <1>3. Rules(s)!effExpiry(o, h) = LastEpoch(E, anchor, h)
    BY <1>1 DEF Rules!effExpiry, LastEpoch, Rules!Smaller, Smaller, Rules!epochOf, epochOf
  <1>4. OfferOrder[1] \in Rules(s)!StaleOffers <=> epochOf(h) > LastEpoch(E, anchor, h)
    BY <1>1, <1>2, <1>3, FirstOffer DEF Rules!StaleOffers, Rules!Stale, Rules!epochOf, epochOf
  <1> QED BY <1>3, <1>4 DEF gone, o, s

\* A height is past an epoch from the first block of the next.
LEMMA PastEpoch ==
  ASSUME NEW h \in Nat, NEW E \in Nat
  PROVE  /\ epochOf(h) \in Nat /\ (E + 1) * EPOCH_LEN \in Nat
         /\ epochOf(h) > E <=> h >= (E + 1) * EPOCH_LEN
  <1>1. EPOCH_LEN \in Nat \ {0} /\ E + 1 \in Nat
    BY ParametersAssumption
  <1>2. epochOf(h) \in Nat /\ (h < (E + 1) * EPOCH_LEN <=> epochOf(h) < E + 1)
    BY <1>1, Division DEF epochOf
  <1>3. (E + 1) * EPOCH_LEN \in Nat
    BY <1>1, Products
  <1> QED BY <1>2, <1>3

LEMMA GoneFrom ==
  ASSUME NEW E \in Nat, NEW anchor \in Nat, NEW h \in Nat
  PROVE  /\ offerExpiryHeightOf(E, anchor) \in Nat
         /\ gone(E, anchor, h) <=> h >= offerExpiryHeightOf(E, anchor)
  <1> DEFINE last == epochOf(anchor) + MAX_OFFER_EPOCHS
             raw == (E + 1) * EPOCH_LEN
             capped == (last + 1) * EPOCH_LEN
  <1>1. last \in Nat
    BY PastEpoch, ParametersAssumption
  <1>2. /\ raw \in Nat /\ (epochOf(h) > E <=> h >= raw)
        /\ epochOf(h) \in Nat
    BY PastEpoch
  <1>3. capped \in Nat /\ (epochOf(h) > last <=> h >= capped)
    <2> HIDE DEF last
    <2> QED BY <1>1, PastEpoch
  <1>4. V21_HEIGHT \in Nat /\ V22_HEIGHT \in Nat
    BY GatesAssumption
  <1>5. offerExpiryHeightOf(E, anchor) =
          IF anchor >= V22_HEIGHT THEN raw
          ELSE Smaller(raw, IF capped < V21_HEIGHT THEN V21_HEIGHT ELSE capped)
    BY DEF offerExpiryHeightOf
  <1>6. LastEpoch(E, anchor, h) =
          IF anchor < V22_HEIGHT /\ h >= V21_HEIGHT THEN Smaller(E, last) ELSE E
    BY DEF LastEpoch
  <1> HIDE DEF last, raw, capped
  <1> QED BY <1>1, <1>2, <1>3, <1>4, <1>5, <1>6, GoneEpoch DEF Smaller

-----------------------------------------------------------------------------
(* The selectors: admission, holds, windows and fees.                      *)

\* What the client's admission says of an offer's expiry.
LEMMA Admission ==
  ASSUME NEW e, e.height \in Nat, e.rec.expires \in Nat, ~provenOfferRefusal(e)
  PROVE  /\ epochOf(e.height) <= e.rec.expires
         /\ e.height >= V21_HEIGHT /\ e.height < V22_HEIGHT =>
              e.rec.expires - epochOf(e.height) <= MAX_OFFER_EPOCHS
  <1> DEFINE s == [Start EXCEPT !.height = e.height]
  <1>1. s.height = e.height
    BY DEF Start
  <1>2. Rules(s)!offerEnvelopeOk(e.rec.terms, e.who, e.rec.expires)
    BY DEF provenOfferRefusal
  <1> HIDE DEF s
  <1> QED BY <1>1, <1>2 DEF Rules!offerEnvelopeOk, Rules!epochOf, epochOf

LEMMA AdmittedLives ==
  ASSUME NEW E \in Nat, NEW anchor \in Nat,
         epochOf(anchor) <= E,
         anchor >= V21_HEIGHT /\ anchor < V22_HEIGHT => E - epochOf(anchor) <= MAX_OFFER_EPOCHS
  PROVE  /\ ~gone(E, anchor, anchor)
         /\ anchor >= V21_HEIGHT => offerExpiryHeightOf(E, anchor) = (E + 1) * EPOCH_LEN
  <1> DEFINE last == epochOf(anchor) + MAX_OFFER_EPOCHS
             raw == (E + 1) * EPOCH_LEN
             capped == (last + 1) * EPOCH_LEN
  <1>1. /\ epochOf(anchor) \in Nat /\ last \in Nat /\ MAX_OFFER_EPOCHS \in Nat
        /\ V21_HEIGHT \in Nat /\ V22_HEIGHT \in Nat
    BY PastEpoch, ParametersAssumption, GatesAssumption
  <1>2. ~gone(E, anchor, anchor)
    BY <1>1, GoneEpoch DEF LastEpoch, Smaller
  <1>3. ASSUME anchor >= V21_HEIGHT, anchor < V22_HEIGHT PROVE raw <= capped
    <2>0. last - E \in Nat /\ last = E + (last - E)
      BY <1>1, <1>3
    <2>1. PICK d \in Nat : last = E + d
      BY <2>0
    <2>2. capped = raw + d * EPOCH_LEN
      <3>1. (E + d + 1) * EPOCH_LEN = (E + 1) * EPOCH_LEN + d * EPOCH_LEN
        BY <2>1, ParametersAssumption
      <3> HIDE DEF last
      <3> QED BY <2>1, <3>1
    <2>3. raw \in Nat /\ d * EPOCH_LEN \in Nat
      BY <2>1, PastEpoch, Products, ParametersAssumption
    <2> HIDE DEF raw, capped
    <2> QED BY <2>2, <2>3
  <1>4. raw \in Nat /\ capped \in Nat
    <2> HIDE DEF last
    <2> QED BY <1>1, PastEpoch
  <1>5. offerExpiryHeightOf(E, anchor) =
          IF anchor >= V22_HEIGHT THEN raw
          ELSE Smaller(raw, IF capped < V21_HEIGHT THEN V21_HEIGHT ELSE capped)
    BY DEF offerExpiryHeightOf
  <1> HIDE DEF raw, capped
  <1>6. anchor >= V21_HEIGHT => offerExpiryHeightOf(E, anchor) = raw
    BY <1>1, <1>3, <1>4, <1>5 DEF Smaller
  <1> QED BY <1>2, <1>6 DEF raw

\* The epoch a hold is asked to end in lies between the next block's and the
\* furthest an fclaim may reach, and outlives the window unless the offer ends it.
LEMMA AskedEpoch ==
  ASSUME NEW t \in Nat, NEW E \in Nat, epochOf(t + 1) <= E
  PROVE  LET ask == fclaimEpochFor(t, E)
         IN /\ ask \in Nat /\ ask <= E
            /\ epochOf(t + 1) <= ask /\ ask <= epochOf(t + 1) + FCLAIM_MAX_EPOCH_AHEAD
            /\ ask < E => (ask + 1) * EPOCH_LEN - FCLAIM_WINDOW_MIN >= t
  <1> DEFINE hold == CLAIM_WINDOW_BLOCKS_V20 + CLAIM_FILL_GRACE_BLOCKS
             end  == t + hold
             next == t + 1
             ahead == FCLAIM_MAX_EPOCH_AHEAD
             ask == fclaimEpochFor(t, E)
  <1>1. hold \in Nat \ {0} /\ hold <= ahead * EPOCH_LEN /\ ahead \in Nat
        /\ EPOCH_LEN \in Nat \ {0}
    BY SelectorAssumption, ParametersAssumption
  <1>2. ask = Smaller(epochOf(end), E)
    <2>1. t + CLAIM_WINDOW_BLOCKS_V20 + CLAIM_FILL_GRACE_BLOCKS = end
      BY ParametersAssumption
    <2> QED BY <2>1 DEF fclaimEpochFor
  <1>3. FCLAIM_WINDOW_MIN = hold + 1
    BY DEF FCLAIM_WINDOW_MIN
  <1> HIDE DEF hold, ahead, ask
  <1>4. end \in Nat /\ next \in Nat /\ next <= end /\ end < next + ahead * EPOCH_LEN
    BY <1>1, Products
  <1> HIDE DEF end, next
  <1>5. epochOf(end) \in Nat /\ epochOf(next) \in Nat
    BY <1>4, PastEpoch
  <1>6. epochOf(next) <= epochOf(end)
    <2>1. next < (epochOf(end) + 1) * EPOCH_LEN
      BY <1>4, <1>5, PastEpoch
    <2> QED BY <1>4, <1>5, <2>1, PastEpoch
  <1>7. epochOf(end) <= epochOf(next) + ahead
    <2> DEFINE e == epochOf(next)
               last == e + ahead
    <2>1. next < (e + 1) * EPOCH_LEN
      BY <1>4, <1>5, PastEpoch
    <2>2. (last + 1) * EPOCH_LEN = (e + 1) * EPOCH_LEN + ahead * EPOCH_LEN
      BY <1>1, <1>5
    <2>3. (e + 1) * EPOCH_LEN \in Nat /\ ahead * EPOCH_LEN \in Nat
      BY <1>1, <1>5, Products
    <2>4. end < (last + 1) * EPOCH_LEN
      <3> HIDE DEF e, last
      <3> QED BY <1>4, <2>1, <2>2, <2>3
    <2>5. last \in Nat
      BY <1>1, <1>5
    <2> HIDE DEF last
    <2>6. epochOf(end) <= last
      BY <1>4, <1>5, <2>4, <2>5, PastEpoch
    <2> QED BY <2>6 DEF last
  <1>8. ask \in Nat /\ ask <= E /\ epochOf(next) <= ask /\ ask <= epochOf(next) + ahead
    BY <1>1, <1>2, <1>5, <1>6, <1>7 DEF Smaller, next
  <1>9. ASSUME ask < E PROVE (ask + 1) * EPOCH_LEN - FCLAIM_WINDOW_MIN >= t
    <2>1. ask = epochOf(end)
      BY <1>2, <1>5, <1>9 DEF Smaller
    <2> DEFINE over == (ask + 1) * EPOCH_LEN
    <2>2. over \in Nat /\ (epochOf(end) > ask <=> end >= over)
      BY <1>4, <1>8, PastEpoch
    <2> HIDE DEF over
    <2>3. over - FCLAIM_WINDOW_MIN >= t
      BY <1>1, <1>3, <1>4, <1>5, <2>1, <2>2 DEF end
    <2> QED BY <2>3 DEF over
  <1> QED BY <1>8, <1>9 DEF ask, next, ahead

\* The hold a client asks for at a tip is granted in the next block.
LEMMA AskGranted ==
  ASSUME NEW E \in 0 .. MAX_SAFE_INTEGER, NEW anchor \in Nat, NEW t \in Nat,
         anchor >= V22_HEIGHT, ~gone(E, anchor, t + 1), NEW who \in Addrs
  PROVE  Rules(Knowing(Resting(E, anchor), t + 1))!fclaimGranted(OfferOrder[1], who,
                                                                 fclaimEpochFor(t, E))
  <1> DEFINE o == Resting(E, anchor)
             s == Knowing(o, t + 1)
             ask == fclaimEpochFor(t, E)
  <1>1. /\ o.status = "open" /\ o.height = anchor /\ o.claimedBy = None
        /\ o.terms.taker = None /\ o.terms.want.asset = CSD
    BY RestingFields
  <1>2. /\ s.height = t + 1 /\ s.offers[OfferOrder[1]] = o
        /\ \A i \in OfferIds : i # OfferOrder[1] => s.offers[i].claimedBy = None
    BY KnowingFields
  <1>3. LastEpoch(E, anchor, t + 1) = E
    BY GatesAssumption DEF LastEpoch
  <1>4. epochOf(t + 1) <= E
    BY <1>3, GoneEpoch, PastEpoch, ParametersAssumption
  <1>5. /\ ask \in Nat /\ ask <= E /\ epochOf(t + 1) <= ask
        /\ ask <= epochOf(t + 1) + FCLAIM_MAX_EPOCH_AHEAD
    BY <1>4, AskedEpoch
  <1>6. Rules(s)!effExpiry(o, t + 1) = E
    BY <1>3, GoneEpoch
  <1>7. who # None
    BY SetsAssumption
  <1> HIDE DEF o, s, ask
  <1>8. Rules(s)!liveHoldCount(who) = 0
    <2>1. \A i \in OfferIds : s.offers[i].claimedBy # who
      BY <1>1, <1>2, <1>7
    <2>2. {i \in OfferIds : /\ s.offers[i].claimedBy = who
                            /\ Rules(s)!claimHeld(s.offers[i], s.height)
                            /\ s.height < V29_HEIGHT \/ Rules(s)!Open(i)} = {}
      BY <2>1
    <2>3. Rules(s)!Cardinality({}) = 0
      BY FS_EmptySet DEF Rules!Cardinality, Cardinality
    <2> QED BY <2>2, <2>3 DEF Rules!liveHoldCount
  <1>9. Rules(s)!claimAvailable(o, who)
    BY <1>1, <1>7 DEF Rules!claimAvailable, Rules!claimHeld
  <1> QED
    <2>1. ask <= MAX_SAFE_INTEGER
      BY <1>5, ParametersAssumption
    <2>2. 0 < MAX_ACTIVE_CLAIMS
      BY SelectorAssumption, ParametersAssumption
    <2>3. Rules(s)!epochOf(t + 1) = epochOf(t + 1)
      BY DEF Rules!epochOf, epochOf
    <2>4. Rules(s)!fclaimGranted(OfferOrder[1], who, ask)
      BY <1>1, <1>2, <1>5, <1>6, <1>8, <1>9, <2>1, <2>2, <2>3
         DEF Rules!fclaimGranted, Rules!Open, Rules!isTokenWant
    <2> QED BY <2>4 DEF o, s, ask

\* A window read back from the deadline it gave is the window of that height.
LEMMA WindowReadBack ==
  ASSUME NEW t \in Nat
  PROVE  claimWindowOf(t + claimWindowAt(t), None) = claimWindowAt(t)
  BY SelectorAssumption, ParametersAssumption, GatesAssumption
     DEF claimWindowOf, claimWindowAt

\* A fee priced at one tip is enough through the margin.
LEMMA FeeEnough ==
  ASSUME NEW n \in Names, NEW t \in Nat, NEW d \in 0 .. FEE_GATE_MARGIN_BLOCKS
  PROVE  nameRegFee(n, buildFeeHeight(t)) >= nameRegFee(n, t + d)
  <1> DEFINE m == FEE_GATE_MARGIN_BLOCKS
             gates == {g \in {V18_HEIGHT, V24_HEIGHT} : t < g /\ t >= g - m}
             fee(k) == NAME_FEE[k][n]
  <1>1. /\ m \in Nat /\ V18_HEIGHT \in Nat /\ V24_HEIGHT \in Nat
        /\ V18_HEIGHT + m <= V24_HEIGHT
    BY SelectorAssumption, GatesAssumption
  <1>2. /\ fee("ens") \in Nat /\ fee("V18") \in Nat /\ fee("V24") \in Nat
        /\ fee("ens") <= fee("V18") /\ fee("V18") <= fee("V24")
    BY SelectorAssumption, ParametersAssumption DEF FeeRegimes
  <1>3. buildFeeHeight(t) = IF gates = {} THEN t ELSE Min(gates)
    BY DEF buildFeeHeight
  <1>4. \A h : nameRegFee(n, h) = IF h >= V24_HEIGHT THEN fee("V24")
                                  ELSE IF h >= V18_HEIGHT THEN fee("V18") ELSE fee("ens")
    BY DEF nameRegFee
  <1>0. \A g : g \in gates <=> g \in {V18_HEIGHT, V24_HEIGHT} /\ t < g /\ t >= g - m
    OBVIOUS
  <1> HIDE DEF fee, gates, m
  <1>5. CASE gates = {}
    <2>1. buildFeeHeight(t) = t
      BY <1>3, <1>5
    <2>2. t >= V18_HEIGHT \/ t < V18_HEIGHT - m
      BY <1>1, <1>5, <1>0
    <2>3. t >= V24_HEIGHT \/ t < V24_HEIGHT - m
      BY <1>1, <1>5, <1>0
    <2> QED BY <1>1, <1>2, <1>4, <2>1, <2>2, <2>3 DEF m
  <1>6. CASE V18_HEIGHT \in gates
    <2>1. gates = {V18_HEIGHT}
      BY <1>1, <1>6, <1>0
    <2>2. Min(gates) = V18_HEIGHT
      BY <1>1, <2>1, MinOfOne
    <2>3. buildFeeHeight(t) = V18_HEIGHT /\ t + d < V24_HEIGHT
      BY <1>1, <1>3, <1>6, <1>0, <2>2 DEF m
    <2> QED BY <1>1, <1>2, <1>4, <2>3
  <1>7. CASE gates = {V24_HEIGHT}
    <2>1. Min(gates) = V24_HEIGHT
      BY <1>1, <1>7, MinOfOne
    <2>2. buildFeeHeight(t) = V24_HEIGHT
      BY <1>3, <1>7, <2>1
    <2> QED BY <1>1, <1>2, <1>4, <2>2
  <1> QED BY <1>5, <1>6, <1>7, <1>0

LEMMA FillInTime ==
  ASSUME NEW E \in Nat, NEW anchor \in Nat, NEW t \in Nat,
         ~offerFillTooLate(offerExpiryHeightOf(E, anchor), t),
         NEW d \in 0 .. FILL_TIP_MARGIN
  PROVE  ~gone(E, anchor, t + d)
  <1>1. t + d \in Nat /\ FILL_TIP_MARGIN \in Nat
    BY SelectorAssumption
  <1>2. offerExpiryHeightOf(E, anchor) \in Nat
    BY GoneFrom
  <1>3. t + d < offerExpiryHeightOf(E, anchor)
    BY <1>1, <1>2 DEF offerFillTooLate
  <1> QED BY <1>1, <1>2, <1>3, GoneFrom

\* The window of a stored hold is never so short that its grant seems older than
\* the tip it was asked at.
LEMMA StoredWindow ==
  ASSUME NEW E \in Nat, NEW anchor \in Nat, NEW t \in Nat, anchor >= V22_HEIGHT,
         ~gone(E, anchor, t + 1), fclaimEpochFor(t, E) < E, NEW f \in FclaimIds
  PROVE  LET ask == fclaimEpochFor(t, E)
         IN (ask + 1) * EPOCH_LEN - claimWindowOf((ask + 1) * EPOCH_LEN, f) >= t
  <1>1. LastEpoch(E, anchor, t + 1) = E
    BY GatesAssumption DEF LastEpoch
  <1>2. epochOf(t + 1) <= E
    BY <1>1, GoneEpoch, PastEpoch
  <1>3. \A u : claimWindowOf(u, f) = FCLAIM_WINDOW_MIN
    BY SetsAssumption DEF claimWindowOf
  <1> QED BY <1>2, <1>3, AskedEpoch

\* For every anchor, expiry, tip and setting of the gates the client's selectors
\* and the resolver's rules agree: an admitted offer outlives its block, an offer
\* expires at the height the client computes, a fill that is not too late is
\* minable through the margin, the hold a client asks for is granted in the next
\* block, and a fee priced at one tip is enough through the margin.
THEOREM SelectorsAreTheRules == ClientSpec => []SelectorsAgree
  <1>1. CallInv => SelectorsAgree
    <2> SUFFICES ASSUME CallInv, call.fn = "select" PROVE SelectorsAgree
      BY DEF SelectorsAgree
    <2> DEFINE E == call.expires
               anchor == call.anchor
               o == Resting(E, anchor)
               proven == [height |-> anchor, who |-> CHOOSE a \in Addrs \ {TREASURY_ADDR} : TRUE,
                          rec |-> [expires |-> E, terms |-> o.terms]]
    <2>1. E \in Nat /\ E \in 0 .. MAX_SAFE_INTEGER /\ anchor \in Nat
      <3>1. call.expires \in Expiries /\ call.anchor \in ACTIVATION_HEIGHT .. MaxHeight
        BY DEF CallInv
      <3>2. ACTIVATION_HEIGHT \in Nat /\ MAX_SAFE_INTEGER \in Nat
        BY GatesAssumption, ParametersAssumption
      <3>3. call.expires \in 0 .. MAX_SAFE_INTEGER
        BY <3>1, SelectAssumption
      <3>4. call.expires \in Nat /\ call.anchor \in Nat
        BY <3>1, <3>2, <3>3, SelectAssumption
      <3> QED BY <3>3, <3>4
    <2> HIDE DEF E, anchor
    <2>2. ASSUME ~provenOfferRefusal(proven)
          PROVE  /\ ~gone(E, anchor, anchor)
                 /\ anchor >= V21_HEIGHT =>
                      offerExpiryHeightOf(E, anchor) = (E + 1) * EPOCH_LEN
      <3>1. proven.height = anchor /\ proven.rec.expires = E
        OBVIOUS
      <3> HIDE DEF proven
      <3> QED BY <2>1, <2>2, <3>1, Admission, AdmittedLives
    <2>3. ASSUME NEW t \in anchor .. 3 * MaxHeight
          PROVE  LET ask == fclaimEpochFor(t, E)
                 IN /\ (t >= offerExpiryHeightOf(E, anchor)) <=> gone(E, anchor, t)
                    /\ offerFillTooLate(offerExpiryHeightOf(E, anchor), t)
                         \/ \A d \in 0 .. FILL_TIP_MARGIN : ~gone(E, anchor, t + d)
                    /\ anchor >= V22_HEIGHT /\ ~gone(E, anchor, t + 1) =>
                         /\ \A who \in Buyers :
                              Rules(Knowing(o, t + 1))!fclaimGranted(OfferOrder[1], who, ask)
                         /\ ask < E => \A f \in FclaimIds :
                              (ask + 1) * EPOCH_LEN
                                - claimWindowOf((ask + 1) * EPOCH_LEN, f) >= t
                    /\ claimWindowOf(t + claimWindowAt(t), None) = claimWindowAt(t)
                    /\ \A n \in Names, d \in 0 .. FEE_GATE_MARGIN_BLOCKS :
                         nameRegFee(n, buildFeeHeight(t)) >= nameRegFee(n, t + d)
      <3>1. t \in Nat
        BY <2>1, SelectAssumption
      <3>2. (t >= offerExpiryHeightOf(E, anchor)) <=> gone(E, anchor, t)
        BY <2>1, <3>1, GoneFrom
      <3>3. offerFillTooLate(offerExpiryHeightOf(E, anchor), t)
              \/ \A d \in 0 .. FILL_TIP_MARGIN : ~gone(E, anchor, t + d)
        BY <2>1, <3>1, FillInTime
      <3>4. ASSUME anchor >= V22_HEIGHT, ~gone(E, anchor, t + 1), NEW who \in Buyers
            PROVE  Rules(Knowing(o, t + 1))!fclaimGranted(OfferOrder[1], who,
                                                          fclaimEpochFor(t, E))
        BY <2>1, <3>1, <3>4, AskGranted, LaneAssumption
      <3>5. ASSUME anchor >= V22_HEIGHT, ~gone(E, anchor, t + 1), fclaimEpochFor(t, E) < E,
                   NEW f \in FclaimIds
            PROVE  LET ask == fclaimEpochFor(t, E)
                   IN (ask + 1) * EPOCH_LEN - claimWindowOf((ask + 1) * EPOCH_LEN, f) >= t
        BY <2>1, <3>1, <3>5, StoredWindow
      <3> HIDE DEF o
      <3> QED BY <3>1, <3>2, <3>3, <3>4, <3>5, WindowReadBack, FeeEnough
    <2> QED BY <2>2, <2>3 DEF SelectorsAgree, gone, E, anchor
  <1> QED BY <1>1, CallInvHolds, PTL
=============================================================================
