------------------------------- MODULE TxCodec -------------------------------
(***************************************************************************)
(* The consensus encoding of a transaction (codec/src/tx.ts, bytes.ts) and *)
(* who authored one (crypto/src/index.ts).  A byte is a digit of HeaderCodec *)
(* and the widths are scaled down; hashing is injective, so a hash is what *)
(* it hashes.                                                              *)
(***************************************************************************)
EXTENDS HeaderCodec

CONSTANTS W32, W64,        \* bytes of a u32 and of a u64 (4 and 8)
          W256, W160,      \* bytes of a Hash32 and of a Hash20 (32 and 20)
          MAX_TX_BYTES, MAX_TX_INPUTS, MAX_TX_OUTPUTS, NoAddr

U32(x) == [n |-> x, w |-> W32]
U64(x) == [n |-> x, w |-> W64]
Raw(b) == [raw |-> b]
Vec(b) == <<U64(Len(b)), Raw(b)>>

\* What u32, u64 and hbFixed do not refuse.
inRange(f) == IF "raw" \in DOMAIN f THEN TRUE ELSE f.n \in 0 .. BYTE ^ f.w - 1

\* Little endian.
bytesOf(f) ==
  IF "raw" \in DOMAIN f THEN f.raw
  ELSE [i \in 1 .. f.w |-> (f.n \div BYTE ^ (i - 1)) % BYTE]

concatBytes(fs) == FlattenSeq([i \in DOMAIN fs |-> bytesOf(fs[i])])

\* The frozen order of the fields.
serializeApp(a) ==
  CASE a.type = "None"    -> <<U32(0)>>
    [] a.type = "Propose" -> <<U32(1)>> \o Vec(a.domain) \o <<Raw(a.payloadHash)>> \o Vec(a.uri)
                               \o <<U64(a.expiresEpoch)>>
    [] a.type = "Attest"  -> <<U32(2), Raw(a.proposalId), U32(a.score), U32(a.confidence)>>

txFields(tx) ==
  <<U32(tx.version), U64(Len(tx.inputs))>>
    \o FlattenSeq([i \in DOMAIN tx.inputs |->
         <<Raw(tx.inputs[i].prevTxid), U32(tx.inputs[i].vout)>> \o Vec(tx.inputs[i].scriptSig)])
    \o <<U64(Len(tx.outputs))>>
    \o FlattenSeq([i \in DOMAIN tx.outputs |->
         <<U64(tx.outputs[i].value), Raw(tx.outputs[i].scriptPubkey)>>])
    \o <<U32(tx.locktime)>> \o serializeApp(tx.app)

encodable(tx) == \A f \in Range(txFields(tx)) : inRange(f)

serialize(tx) == concatBytes(txFields(tx))

headerFields(h) ==
  <<U32(h.version), Raw(h.prev), Raw(h.merkle), U64(h.time), U32(h.bits), U32(h.nonce)>>

HEADER_BYTES == 3 * W32 + W64 + 2 * W256

serializeHeader(h) == concatBytes(headerFields(h))

isCoinbaseInput(i) ==
  i.prevTxid = [k \in 1 .. W256 |-> 0] /\ i.vout = BYTE ^ W32 - 1

strippedTx(tx) ==
  [tx EXCEPT !.inputs = [i \in DOMAIN tx.inputs |->
     IF isCoinbaseInput(tx.inputs[i]) THEN tx.inputs[i]
     ELSE [tx.inputs[i] EXCEPT !.scriptSig = <<>>]]]

txidOf(tx)  == [leaf |-> serialize(strippedTx(tx))]
sighash(tx) == [signed |-> serialize(strippedTx(tx))]

-----------------------------------------------------------------------------
(* The reader: what is left, the fields read, and whether it has thrown.   *)

readInt(r, w) ==
  IF ~r.ok \/ Len(r.left) < w THEN [r EXCEPT !.ok = FALSE]
  ELSE LET value == MapThenSumSet(LAMBDA i : r.left[i] * BYTE ^ (i - 1), 1 .. w)
       IN [ok |-> TRUE, left |-> SubSeq(r.left, w + 1, Len(r.left)),
           out |-> Append(r.out, [n |-> value, w |-> w])]

readRaw(r, n) ==
  IF ~r.ok \/ Len(r.left) < n THEN [r EXCEPT !.ok = FALSE]
  ELSE [ok |-> TRUE, left |-> SubSeq(r.left, n + 1, Len(r.left)),
        out |-> Append(r.out, Raw(SubSeq(r.left, 1, n)))]

lastInt(r) == IF r.ok THEN Last(r.out).n ELSE 0

readVec(r) == LET c == readInt(r, W64) IN readRaw(c, lastInt(c))

\* A count above its cap throws before its elements are read.
readCount(r, cap) ==
  LET c == readInt(r, W64) IN [c EXCEPT !.ok = @ /\ lastInt(c) <= cap]

counted(r) == IF r.ok THEN [k \in 1 .. lastInt(r) |-> k] ELSE <<>>

readInputs(r) ==
  LET c == readCount(r, MAX_TX_INPUTS)
  IN FoldLeft(LAMBDA s, k : readVec(readInt(readRaw(s, W256), W32)), c, counted(c))

readOutputs(r) ==
  LET c == readCount(r, MAX_TX_OUTPUTS)
  IN FoldLeft(LAMBDA s, k : readRaw(readInt(s, W64), W160), c, counted(c))

readApp(r) ==
  LET t == readInt(r, W32)
  IN CASE ~t.ok -> t
       [] t.ok /\ lastInt(t) = 0 -> t
       [] t.ok /\ lastInt(t) = 1 -> readInt(readVec(readRaw(readVec(t), W256)), W64)
       [] t.ok /\ lastInt(t) = 2 -> readInt(readInt(readRaw(t, W256), W32), W32)
       [] OTHER -> [t EXCEPT !.ok = FALSE]

readTx(bytes) ==
  LET r == readInt([ok |-> Len(bytes) <= MAX_TX_BYTES, left |-> bytes, out |-> <<>>], W32)
  IN readApp(readInt(readOutputs(readInputs(r)), W32))

\* A header record has exactly its length.
deserializeHeader(rec) ==
  LET r0 == readInt([ok |-> Len(rec) = HEADER_BYTES, left |-> rec, out |-> <<>>], W32)
  IN readInt(readInt(readInt(readRaw(readRaw(r0, W256), W256), W64), W32), W32)

\* Mutant of deserialize: bytes may follow the transaction.
deserializeLoose(bytes) == readTx(bytes)

\* The fields of the transaction the bytes encode, ok when nothing is thrown.
deserialize(bytes) ==
  LET r == readTx(bytes) IN [r EXCEPT !.ok = @ /\ r.left = <<>>]

-----------------------------------------------------------------------------
(* Signatures.  A key is its address's; a script is                        *)
(* [shape, sig |-> [key, digest], pub], its shape "exact", "trailing" when *)
(* bytes follow, or "short".                                               *)

addrFromPub(pub) == pub

signDigest(digest, key) == [key |-> key, digest |-> digest]
verifyDigest(sig, pub, digest) == sig = signDigest(digest, pub)

parseScriptSig(s) == s.shape \in {"exact", "trailing"}

\* The scanner's reading, of transactions the node has validated.
signerAddrFromScriptSig(s) == IF parseScriptSig(s) THEN addrFromPub(s.pub) ELSE NoAddr

\* The strict reading: nothing follows, and the signature verifies.
recoverSigner(s, digest) ==
  IF s.shape = "exact" /\ verifyDigest(s.sig, s.pub, digest) THEN addrFromPub(s.pub) ELSE NoAddr

\* Mutant of authorOf: whoever signed is the author.
authorOfSigner(tx, prevoutOwner) == recoverSigner(tx.inputs[1].scriptSig, sighash(tx))

\* The owner of the coin the first input spends, when it signed.
authorOf(tx, prevoutOwner) ==
  IF tx.inputs # <<>> /\ prevoutOwner # NoAddr
     /\ recoverSigner(tx.inputs[1].scriptSig, sighash(tx)) = prevoutOwner
    THEN prevoutOwner ELSE NoAddr
=============================================================================
