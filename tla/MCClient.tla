------------------------------ MODULE MCClient ------------------------------
(***************************************************************************)
(* Values for the constants of the client's checks.                        *)
(***************************************************************************)
EXTENDS ClientProperties

CONSTANTS A, B, C, D, TRS, TOK, USD, alice, o1, o2, f1, f2, f3, f4, x1, x2, y1

LaneSymmetry == Permutations(FclaimIds) \cup Permutations(FillIds) \cup Permutations(Buyers)

Sale(n, price, min) ==
  [give |-> [asset |-> TOK, amount |-> n], want |-> [asset |-> CSD, amount |-> price],
   payto |-> None, taker |-> None, min |-> min, bid |-> None]

\* A partial offer whose shares round, worth a deeper wait, and a whole one.
Lanes ==
  [i \in OfferIds |-> [seller |-> A, expires |-> 4,
     terms |-> IF i = o1 THEN Sale(3, 5, 1) ELSE Sale(1, 2, 0)]]

\* Two whole-price offers: the second is only there to be held.
Wholes == [i \in OfferIds |-> [seller |-> A, expires |-> 5, terms |-> Sale(1, 1, 0)]]

Pays(x, fee) == [a \in Addrs |-> IF a = A THEN x ELSE IF a = TRS THEN fee ELSE 0]
LanePays == {Pays(2, 1), Pays(7, 1)}
NameFees == [ens |-> [n \in Names |-> 1], V18 |-> [n \in Names |-> 2],
             V24 |-> [n \in Names |-> 10]]
NoTerms == {}

-----------------------------------------------------------------------------
(* Transactions: one digit per field, four values per digit.               *)

In(txid, vout, script) == [prevTxid |-> txid, vout |-> vout, scriptSig |-> script]
Out(value, to) == [value |-> value, scriptPubkey |-> to]
Tx(ins, outs, lock, app) ==
  [version |-> 1, inputs |-> ins, outputs |-> outs, locktime |-> lock, app |-> app]

\* Coinbase inputs, two inputs, and a value above its width among them.
ClientTxs ==
  {Tx(ins, outs, lock, app) :
     ins  \in {<<>>, <<In(<<1>>, 0, <<>>)>>, <<In(<<0>>, 3, <<2>>)>>,
               <<In(<<1>>, 1, <<1, 2>>), In(<<2>>, 0, <<>>)>>},
     outs \in {<<>>, <<Out(1, <<2>>)>>, <<Out(3, <<0>>), Out(4, <<1>>)>>},
     lock \in {0, 3},
     app  \in {[type |-> "None"],
               [type |-> "Propose", domain |-> <<1>>, payloadHash |-> <<3>>,
                uri |-> <<1, 2>>, expiresEpoch |-> 2],
               [type |-> "Attest", proposalId |-> <<1>>, score |-> 3, confidence |-> 0]}}

\* A time above its width among them.
ClientHeaders ==
  {[version |-> 1, prev |-> <<p>>, merkle |-> <<m>>, time |-> t, bits |-> b, nonce |-> n] :
     p \in {0, 3}, m \in {1}, t \in {0, 3, 4}, b \in 0 .. 3, n \in {2}}

Coins == [c \in 0 .. 1 |-> IF c = 0 THEN "k0" ELSE "k1"]
Spending(coin, value, script) ==
  Tx(<<In(<<1>>, coin, script)>>, <<Out(value, <<2>>)>>, 0, [type |-> "None"])
\* A spend signed by a key over the spend of some value.
SignedBy(coin, value, key, over, shape) ==
  Spending(coin, value, [shape |-> shape, pub |-> key,
    sig |-> T!signDigest(T!sighash(Spending(coin, over, <<>>)), key)])
Honest(coin, value) == SignedBy(coin, value, Coins[coin], value, "exact")

ClientBodies == {SignedBy(c, v, k, w, shape) :
  c \in 0 .. 1, v \in 1 .. 2, w \in 1 .. 2, k \in {"k0", "k1"}, shape \in {"exact", "trailing", "short"}}
ClientBlocks == {<<Honest(0, 1)>>, <<Honest(1, 2), Honest(0, 1)>>,
                 <<Honest(0, 1), Honest(1, 1), Honest(0, 2)>>,
                 <<Honest(1, 1), Honest(0, 2), Honest(1, 2), Honest(0, 1)>>}

-----------------------------------------------------------------------------
(* Backends.  328 encodes the target 128, 272 the target 64.               *)

ClientContenders ==
  {[enabled |-> on, claimedHeight |-> ch, contenderBits |-> cb, localHeight |-> lh,
    anchorFloor |-> af, localTime |-> lt, nowSecs |-> 8, blockSecs |-> bs,
    expectedLocalBits |-> eb, maxAhead |-> ma, maxEase |-> me] :
     on \in {TRUE}, ch \in {NaN, 5, 9}, cb \in {NaN, 0, 272, 328}, lh \in {NaN, 4},
     af \in {NaN, -1, 5}, lt \in {NaN, 0}, bs \in {NaN, -1, 2}, eb \in {NaN, 272},
     ma \in {-1, 2}, me \in {0, 2}}
ClientWords == 0 .. 511
ClientTips == {[header |-> [nonce |-> n, bits |-> b], claimed |-> c] :
                 n \in {0, 100, 300}, b \in {NaN, 0, 328, 400}, c \in {0, 100, 300}}

-----------------------------------------------------------------------------
(* Sign-ins.                                                               *)

Times == <<"t0">> :> 0 @@ <<"t10">> :> 10 @@ <<"t12">> :> 12 @@ <<"t20">> :> 20
Accounts == <<"0xab">> :> "ab" @@ <<"0xAB">> :> "ab" @@ <<"0xcd">> :> "cd"
NonceTexts == {<<"n1">>}
Keys == [ab |-> "k1", cd |-> "k2"]

Message(domain, account, statement, iat, exp, nbf, request, resources) ==
  [domain |-> domain, account |-> account, statement |-> statement, uri |-> <<"u">>,
   version |-> <<"1">>, chainId |-> <<"csd">>, nonce |-> <<"n1">>, issuedAt |-> iat,
   expirationTime |-> exp, notBefore |-> nbf, requestId |-> request, resources |-> resources]

\* Values that look like labels, like lines and like nothing.
ClientMessages ==
  {Message(<<"rp">>, a, st, <<"t10">>, exp, nbf, rq, rs) :
     a \in {<<"0xAB">>, <<"bad">>},
     st \in {None, <<>>, <<"hello">>, <<"URI: ", "u">>, <<"a", "LF", "b">>},
     exp \in {None, <<"t20">>}, nbf \in {None, <<"Request ID: ", "x">>},
     rq \in {None, <<"x">>, <<"Resources:">>},
     rs \in {None, <<>>, <<<<"- ", "x">>, <<"y">>>>, <<<<>>>>}}

ClientSignIns ==
  {[f |-> Message(<<"rp">>, a, None, iat, exp, nbf, None, None),
    e |-> [domain |-> d, chainId |-> <<"csd">>, nonce |-> <<"n1">>, key |-> "k1",
           now |-> now, skew |-> skew, futureSkew |-> ahead]] :
     a \in {<<"0xAB">>, <<"0xcd">>}, d \in {<<"rp">>, <<"other">>},
     iat \in {<<"zoneless">>, <<"t0">>, <<"t10">>}, exp \in {None, <<"zoneless">>, <<"t20">>},
     nbf \in {None, <<"t12">>}, now \in {NaN, 9, 10, 22}, skew \in {NaN, 0, 3},
     ahead \in {None, NaN, 0}}

-----------------------------------------------------------------------------
(* Anchored objects: good ones, and each with one value changed, one key   *)
(* dropped or decoy keys added, sorted in either order.                    *)

AsciiKeys == <<"addr", "amount", "bid", "commit", "decimals", "decoy", "display", "give",
               "hash", "memo", "min", "mint", "mintLimit", "name", "offer", "p", "payto",
               "salt", "supply", "t", "taker", "ticker", "to", "ts", "url", "v", "value", "want">>
Utf16Order == AsciiKeys \o <<"astral", "private use">>
Utf8Order  == AsciiKeys \o <<"private use", "astral">>
RankIn(keys) == [k \in Range(keys) |-> CHOOSE i \in DOMAIN keys : keys[i] = k]
ByUtf16 == RankIn(Utf16Order)
ByUtf8  == RankIn(Utf8Order)
Object(val, keys) ==
  [val |-> val, order |-> SelectSeq(keys, LAMBDA k : k \in DOMAIN val)]

Numbers == "0" :> 0 @@ "1" :> 1 @@ "2" :> 2
Short == {"0", "1", "2", "text", "lone", "TOK", "USD", "alice", "0xaddr", "0xhash", "0xsalt"}
Texts == Short \cup {"long", "int", "1e21", "10 to 21 in digits", "open", "issuer"}

TokenLeg(t, n) == Object([ticker |-> t, amount |-> n], Utf16Order)
CsdLeg == {Object([value |-> "1"], Utf16Order), Object([value |-> "0", payto |-> "0xaddr"], Utf16Order),
           Object([value |-> "1", decoy |-> "text"], Utf16Order)}
NameLeg == Object([name |-> "alice"], Utf16Order)
Profiles(keys) == {Object([k \in ks |-> "text"], keys) :
                     ks \in {{}, {"url"}, {"display", "url"}, {"astral", "private use"}}}

Good(keys) ==
  {[v |-> "1", t |-> "deploy", ticker |-> "TOK", decimals |-> "int", supply |-> "2",
    mint |-> "open", mintLimit |-> "1", name |-> "text"],
   [v |-> "1", t |-> "deploy", ticker |-> "TOK", decimals |-> "int", supply |-> "2", mint |-> "issuer"],
   [v |-> "1", t |-> "mint", ticker |-> "TOK", amount |-> "1"],
   [v |-> "1", t |-> "transfer", ticker |-> "TOK", to |-> "0xaddr", amount |-> "1",
    memo |-> "text", ts |-> "int"],
   [v |-> "1", t |-> "ocancel", ticker |-> "TOK"], [v |-> "1", t |-> "ocancel"],
   [v |-> "1", t |-> "ncommit", commit |-> "0xhash"],
   [v |-> "1", t |-> "name", name |-> "alice", salt |-> "0xsalt"],
   [v |-> "1", t |-> "nfinalize", name |-> "alice", salt |-> "0xsalt"],
   [v |-> "1", t |-> "nxfer", name |-> "alice", to |-> "0xaddr"],
   [v |-> "1", t |-> "nset", name |-> "alice", addr |-> "0xaddr"],
   [v |-> "1", t |-> "nrenew", name |-> "alice"],
   [v |-> "1", t |-> "tmeta", ticker |-> "TOK", hash |-> "0xhash"],
   [v |-> "1", t |-> "fclaim", offer |-> "0xhash"]}
  \cup {[v |-> "1", t |-> "nprofile", name |-> "alice", p |-> p] : p \in Profiles(keys)}
  \cup {[v |-> "1", t |-> "bid", want |-> w, give |-> g, memo |-> "text", ts |-> "int"] :
          w \in {TokenLeg("TOK", "1"), NameLeg}, g \in CsdLeg}
  \cup {[v |-> "1", t |-> "offer", give |-> g, want |-> w, min |-> "1", bid |-> "0xhash",
         taker |-> "0xaddr", memo |-> "text", ts |-> "int"] :
          g \in {TokenLeg("TOK", "1"), NameLeg}, w \in CsdLeg \cup {TokenLeg("USD", "0")}}

Without1(r, k) == [l \in DOMAIN r \ {k} |-> r[l]]
Decoyed(r, ks) == [l \in DOMAIN r \cup ks |-> IF l \in DOMAIN r THEN r[l] ELSE "text"]
Variants(r) ==
  {r} \cup {Without1(r, k) : k \in DOMAIN r}
    \cup {[r EXCEPT ![k] = x] : k \in DOMAIN r \ {"give", "want", "p", "t"}, x \in Texts}
    \cup {Decoyed(r, ks) : ks \in {{"decoy"}, {"astral"}, {"astral", "private use"}}}
ClientUris == UNION {{Object(r, keys) : r \in UNION {Variants(g) : g \in Good(keys)}} :
                       keys \in {Utf16Order, Utf8Order}}
Lone == {"lone"}
Ints == {"int"}
ProfileNames == {"display", "url"}
AsJs == {"1e21"}
AsDigits == {"10 to 21 in digits"}

-----------------------------------------------------------------------------
(* A buyer's spends on ladders of two and three rungs, and orders on       *)
(* curves that are flat, capped and neither.                               *)

Rung(size, price) == [size |-> size, pricePerUnit |-> price]
ClientSpends ==
  {[csd |-> c, unit |-> u, levels |-> ls] : c \in 1 .. 30, u \in {1, 10},
     ls \in {<<Rung(1, 3), Rung(3, 4)>>, <<Rung(2, 2), Rung(0, 3), Rung(3, 3), Rung(9, 7)>>}}
ClientOrders ==
  {[p0 |-> 2, rateBps |-> 1, kScaled |-> k, E |-> e, capMult |-> cap, U |-> u,
    marginBps |-> m, floorPerToken |-> fl, room |-> 5, q |-> q, epochs |-> ep] :
     k \in {0, 10, 22}, e \in {0, 3}, cap \in {1, 3}, u \in {2}, m \in {0, 3},
     fl \in {0, 3}, q \in {0, 2}, ep \in {0, 2}}
=============================================================================
