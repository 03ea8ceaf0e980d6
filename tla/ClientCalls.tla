---------------------------- MODULE ClientCalls ----------------------------
(***************************************************************************)
(* The client's pure functions, called on inputs from bounded sets.  A     *)
(* call is made before the lane has moved; what it returns is asked of     *)
(* call by the properties.                                                 *)
(***************************************************************************)
EXTENDS ClientLane

CONSTANTS NaN, BYTE, TARGET_BYTES, POW_LIMIT_BITS, MAX_WORK,
          W32, W64, W256, W160, MAX_TX_BYTES, MAX_TX_INPUTS, MAX_TX_OUTPUTS, NoAddr,
          TARGET_BLOCK_SECS,
          TimeOf, AddressOf, KeyOf, Nonces, HOUR, DEFAULT_FUTURE_SKEW,
          AmountOf, ShortTexts, SafeIntegers, SmallIntegers, LoneSurrogate,
          HugeAsJs, HugeAsDigits, Utf16Rank, Utf8Rank, ProfileKeys, PROFILE_MAX_KEYS,
          TIME_SCALE, EXP_SCALE, MAX_EPOCHS, BPS

CONSTANTS Txs, Headers,               \* transactions and block headers
          Bodies, Blocks,             \* signed transactions and their blocks
          Words,                      \* compact difficulty words and targets
          Contenders, Tips,           \* what an RPC backend claims
          Messages, SignIns,          \* fields of a message; one signed and its checker
          Uris,                       \* anchored objects
          Spends, Orders,             \* what a buyer spends, what it orders
          CoinOwner                   \* coin -> the owner of its output

\* Powers of the byte are positive: a fact of arithmetic the provers lack.
ASSUME CodecAssumption ==
  /\ BYTE \in Nat \ {0} /\ TARGET_BYTES \in Nat /\ TARGET_BYTES >= 3
  /\ MAX_WORK \in Nat /\ POW_LIMIT_BITS \in Nat
  /\ \A k \in 0 .. TARGET_BYTES : BYTE ^ k \in Nat \ {0}

Number == Int \cup {NaN}

\* The expiry of a record that is not refused is a safe integer.
ASSUME SelectAssumption == Expiries \subseteq 0 .. MAX_SAFE_INTEGER /\ MaxHeight \in Nat

\* A number that a backend serves or a service configures may be none.
ASSUME InputsAssumption ==
  /\ NaN \notin Int /\ TARGET_BLOCK_SECS \in Nat
  /\ Contenders \subseteq
       [enabled : BOOLEAN, claimedHeight : Number, contenderBits : Nat \cup {NaN},
        localHeight : Number, anchorFloor : Number, localTime : Number, nowSecs : Number,
        blockSecs : Number, expectedLocalBits : Nat \cup {NaN}, maxAhead : Number,
        maxEase : Number]
  /\ Tips \subseteq [header : [nonce : Nat, bits : Nat \cup {NaN}], claimed : Nat]

H == INSTANCE HeaderCodec
T == INSTANCE TxCodec
R == INSTANCE RouteChecks
S == INSTANCE SignIn
U == INSTANCE RecordCodec
Q == INSTANCE Quotes

VARIABLE call

clientVars == <<feed, tip, call>>
NoCall == [fn |-> "none"]

ClientInit == LaneInit /\ call = NoCall

MayCall == call = NoCall /\ tip = BaseHeight /\ Len(feed) = Cardinality(OfferIds)
Called(c) == call' = c /\ UNCHANGED laneVars

Select == MayCall /\ \E E \in Expiries, h \in ACTIVATION_HEIGHT .. MaxHeight :
                       Called([fn |-> "select", expires |-> E, anchor |-> h])
Encode == MayCall /\ \E tx \in Txs : Called([fn |-> "encode", tx |-> tx])
EncodeHeader == MayCall /\ \E h \in Headers : Called([fn |-> "header", h |-> h])
Attribute == MayCall /\ \E block \in Blocks, body \in Bodies, p \in 0 .. 3 :
               Called([fn |-> "attribute", block |-> block, body |-> body, at |-> p])
Compact == MayCall /\ \E x \in Words : Called([fn |-> "compact", x |-> x])
Route == MayCall /\ \E o \in Contenders : Called([fn |-> "route", o |-> o])
Tip == MayCall /\ \E h \in Tips : Called([fn |-> "tip", h |-> h])
Sign == MayCall /\ \E f \in Messages : Called([fn |-> "sign", f |-> f])
Verify == MayCall /\ \E x \in SignIns : Called([fn |-> "verify", f |-> x.f, e |-> x.e])
Parse == MayCall /\ \E u \in Uris : Called([fn |-> "parse", u |-> u])
Size == MayCall /\ \E x \in Spends : Called([fn |-> "size", x |-> x])
Price == MayCall /\ \E x \in Orders : Called([fn |-> "price", x |-> x])

ClientNext ==
  \/ call = NoCall /\ LaneNext /\ UNCHANGED call
  \/ Select \/ Encode \/ EncodeHeader \/ Attribute \/ Compact \/ Route \/ Tip
  \/ Sign \/ Verify \/ Parse \/ Size \/ Price

ClientSpec == ClientInit /\ [][ClientNext]_clientVars
=============================================================================
