---------------------------- MODULE RecordCodec ----------------------------
(***************************************************************************)
(* Reading a record from an anchored uri (cairnx/src/records.ts).  An      *)
(* object is [order, val]: its keys as the uri spells them and the value   *)
(* of each, an object for the keys of Nested and else a text, a member of  *)
(* one of the classes below.  A reader written in another language differs *)
(* in how it sorts keys, spells a large number and encodes a lone          *)
(* surrogate; the schema is shared.                                        *)
(***************************************************************************)
EXTENDS Integers, Sequences, SequencesExt

CONSTANTS AmountOf,         \* the text of an amount -> its number
          ShortTexts,       \* within the length a memo may have
          SafeIntegers, SmallIntegers,   \* of a ts and of a decimals
          LoneSurrogate,    \* texts that hold an unpaired surrogate
          HugeAsJs, HugeAsDigits,   \* a number above 2^53, in either spelling
          Utf16Rank, Utf8Rank,      \* the two orders of the keys
          ProfileKeys, PROFILE_MAX_KEYS

Nested == {"give", "want", "p"}
keysOf(o) == Range(o.order)
has(o, k) == k \in keysOf(o)
needs(o, k, values) == has(o, k) /\ o.val[k] \in values
may(o, k, values) == has(o, k) => o.val[k] \in values

TickerTexts == {"TOK", "USD"}
ClaimableNames == {"alice"}
Addresses == {"0xaddr"}
Hashes == {"0xhash"}
SaltTexts == {"0xsalt"}
\* What parseAmount takes, with and without zero.
AmountsOrZero == DOMAIN AmountOf
Amounts == {a \in AmountsOrZero : AmountOf[a] > 0}

objectsOf(r) == {r} \cup {r.val[k] : k \in keysOf(r) \cap Nested}

textsOf(r) ==
  UNION {keysOf(o) \cup {o.val[k] : k \in keysOf(o) \ Nested} : o \in objectsOf(r)}

isWellFormedDeep(r) == textsOf(r) \cap LoneSurrogate = {}

\* The keys of every object are in this order.
sortedBy(rank, r) ==
  \A o \in objectsOf(r) : \A i \in 1 .. Len(o.order) - 1 :
    rank[o.order[i]] < rank[o.order[i + 1]]

\* Mutant of onlyKeys: keys that are not read are not looked at.
onlyKeysRead(r, allowed) == TRUE

onlyKeys(r, allowed) == keysOf(r) \subseteq allowed \cup {"v", "t"}

note(r) == may(r, "memo", ShortTexts) /\ may(r, "ts", SafeIntegers)

\* An object that is exactly a token amount, or exactly a name.
tokenLeg(o) == keysOf(o) = {"amount", "ticker"} /\ needs(o, "ticker", TickerTexts) /\ needs(o, "amount", Amounts)
nameLeg(o)  == keysOf(o) = {"name"} /\ needs(o, "name", ClaimableNames)
csdLeg(o)   == keysOf(o) = {"value"} /\ needs(o, "value", Amounts)

offerOk(r) ==
  LET g == r.val["give"]
      w == r.val["want"]
      priced == keysOf(w) \ {"payto"}
  IN /\ onlyKeys(r, {"give", "want", "min", "bid", "taker", "memo", "ts"})
     /\ has(r, "give") /\ has(r, "want") /\ (tokenLeg(g) \/ nameLeg(g))
     /\ \/ priced = {"value"} /\ needs(w, "value", AmountsOrZero)
        \/ /\ priced = {"amount", "ticker"} /\ needs(w, "ticker", TickerTexts)
           /\ needs(w, "amount", AmountsOrZero)
           /\ tokenLeg(g) => w.val["ticker"] # g.val["ticker"]
           /\ ~has(r, "min")
     /\ may(w, "payto", Addresses)
     /\ has(r, "min") => /\ tokenLeg(g) /\ needs(r, "min", Amounts)
                         /\ AmountOf[r.val["min"]] <= AmountOf[w.val["value"]]
     /\ may(r, "bid", Hashes) /\ may(r, "taker", Addresses) /\ note(r)

recordOk(r) ==
  LET t == r.val["t"]
  IN CASE t = "deploy" ->
            /\ onlyKeys(r, {"ticker", "name", "decimals", "supply", "mint", "mintLimit"})
            /\ needs(r, "ticker", TickerTexts) /\ may(r, "name", ShortTexts)
            /\ needs(r, "decimals", SmallIntegers) /\ needs(r, "supply", Amounts)
            /\ \/ needs(r, "mint", {"open"}) /\ needs(r, "mintLimit", Amounts)
               \/ needs(r, "mint", {"issuer"}) /\ ~has(r, "mintLimit")
       [] t = "mint" -> /\ onlyKeys(r, {"ticker", "amount"})
                        /\ needs(r, "ticker", TickerTexts) /\ may(r, "amount", Amounts)
       [] t = "transfer" ->
            /\ onlyKeys(r, {"ticker", "to", "amount", "memo", "ts"})
            /\ needs(r, "ticker", TickerTexts) /\ needs(r, "to", Addresses)
            /\ needs(r, "amount", Amounts) /\ note(r)
       [] t = "offer" -> offerOk(r)
       [] t = "ocancel" -> /\ ~(has(r, "ticker") /\ has(r, "name"))
                           /\ may(r, "ticker", TickerTexts) /\ may(r, "name", ClaimableNames)
                           /\ keysOf(r) \subseteq {"v", "t", "ticker", "name"}
       [] t = "bid" ->
            /\ onlyKeys(r, {"want", "give", "memo", "ts"}) /\ has(r, "want") /\ has(r, "give")
            /\ (tokenLeg(r.val["want"]) \/ nameLeg(r.val["want"]))
            /\ csdLeg(r.val["give"]) /\ note(r)
       [] t = "ncommit" -> needs(r, "commit", Hashes) /\ Len(r.order) = 3
       [] t = "name" -> /\ onlyKeys(r, {"name", "salt"})
                        /\ needs(r, "name", ClaimableNames) /\ may(r, "salt", SaltTexts)
       [] t = "nfinalize" -> /\ onlyKeys(r, {"name", "salt"})
                             /\ needs(r, "name", ClaimableNames) /\ needs(r, "salt", SaltTexts)
       [] t = "nxfer" -> /\ needs(r, "name", ClaimableNames) /\ needs(r, "to", Addresses)
                         /\ Len(r.order) = 4
       [] t = "nset" -> /\ needs(r, "name", ClaimableNames) /\ needs(r, "addr", Addresses)
                        /\ Len(r.order) = 4
       [] t = "nrenew" -> needs(r, "name", ClaimableNames) /\ Len(r.order) = 3
       [] t = "nprofile" ->
            /\ onlyKeys(r, {"name", "p"}) /\ needs(r, "name", ClaimableNames) /\ has(r, "p")
            /\ LET p == r.val["p"]
               IN /\ Len(p.order) <= PROFILE_MAX_KEYS /\ keysOf(p) \subseteq ProfileKeys
                  /\ \A k \in keysOf(p) : p.val[k] \in ShortTexts
       [] t = "tmeta" -> /\ needs(r, "ticker", TickerTexts) /\ needs(r, "hash", Hashes)
                         /\ Len(r.order) = 4
       [] t = "fclaim" -> onlyKeys(r, {"offer"}) /\ needs(r, "offer", Hashes)
       [] OTHER -> FALSE

\* uri = canonicalJson(JSON.parse(uri)), in JavaScript.
isCanonical(r) == sortedBy(Utf16Rank, r) /\ textsOf(r) \cap HugeAsDigits = {}

parseRecord(r) ==
  isCanonical(r) /\ isWellFormedDeep(r) /\ needs(r, "v", {"1"}) /\ has(r, "t") /\ recordOk(r)
=============================================================================
