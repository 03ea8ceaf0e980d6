------------------------------- MODULE SignIn -------------------------------
(***************************************************************************)
(* Sign in with CSD (siwc/src/index.ts): the message a wallet signs, the   *)
(* strict reading of it, and what a relying party checks.  A text is a     *)
(* sequence of tokens; a label, a line feed and an unpaired surrogate are  *)
(* tokens.  A time is NaN when its text has no zone or is no date.         *)
(***************************************************************************)
EXTENDS Integers, Sequences, SequencesExt, FiniteSetsExt

CONSTANTS NaN, None,
          TimeOf,      \* text of a date with a zone -> its time
          AddressOf,   \* text of an address, in any case -> the address
          KeyOf,       \* address -> its public key
          Nonces,      \* texts of eight letters or digits, or more
          HOUR, DEFAULT_FUTURE_SKEW

LF == "LF"
Header == " wants you to sign in with your Compute Substrate account:"

hasLF(v) == LF \in Range(v)
hasLoneSurrogate(v) == "lone surrogate" \in Range(v)
assertField(v) == v # <<>> /\ ~hasLF(v) /\ ~hasLoneSurrogate(v)
isValidAddr(v) == v \in DOMAIN AddressOf
parseTime(v) == IF v \in DOMAIN TimeOf THEN TimeOf[v] ELSE NaN

Optional == <<"expirationTime", "notBefore", "requestId">>
Label == [uri |-> "URI: ", version |-> "Version: ", chainId |-> "Chain ID: ",
          nonce |-> "Nonce: ", issuedAt |-> "Issued At: ",
          expirationTime |-> "Expiration Time: ", notBefore |-> "Not Before: ",
          requestId |-> "Request ID: "]
Required == <<"uri", "version", "chainId", "nonce", "issuedAt">>

-----------------------------------------------------------------------------
(* Building a message.                                                     *)

buildable(f) ==
  /\ \A k \in {"domain"} \cup Range(Required) : assertField(f[k])
  /\ isValidAddr(f.account) /\ f.version = <<"1">> /\ f.nonce \in Nonces
  /\ \A k \in {"statement"} \cup Range(Optional) : f[k] # None => assertField(f[k])
  /\ f.resources # None => \A r \in Range(f.resources) : assertField(r)

\* An empty statement is omitted.
withStatement(f) == [f EXCEPT !.statement = IF @ = <<>> THEN None ELSE @]

joinLines(lines) ==
  FoldLeft(LAMBDA m, line : m \o <<LF>> \o line, Head(lines), Tail(lines))

buildSiwcMessage(fields) ==
  LET f == withStatement(fields)
      labelled(keys) == [i \in DOMAIN keys |-> <<Label[keys[i]]>> \o f[keys[i]]]
      given(k) == f[k] # None
  IN joinLines(<<Append(f.domain, Header), f.account, <<>>>>
       \o (IF f.statement = None THEN <<>> ELSE <<f.statement>>) \o <<<<>>>>
       \o labelled(Required) \o labelled(SelectSeq(Optional, given))
       \o (IF f.resources = None THEN <<>>
           ELSE <<<<"Resources:">>>> \o [i \in DOMAIN f.resources |-> <<"- ">> \o f.resources[i]]))

-----------------------------------------------------------------------------
(* Reading one: None unless building its fields gives it back.             *)

splitLines(message) ==
  FoldLeft(LAMBDA ls, t : IF t = LF THEN Append(ls, <<>>)
                          ELSE [ls EXCEPT ![Len(ls)] = Append(@, t)], <<<<>>>>, message)

startsWith(line, label) == line # <<>> /\ Head(line) = label

\* r: the lines left, the fields read and whether a required one was missing.
take(r, k) ==
  IF r.left # <<>> /\ startsWith(Head(r.left), Label[k])
    THEN [r EXCEPT !.left = Tail(@), !.f[k] = Tail(Head(r.left))]
    ELSE [r EXCEPT !.ok = FALSE]

opt(r, k) == LET t == take(r, k) IN IF t.ok THEN t ELSE r

takeResources(r) ==
  IF r.left = <<>> \/ Head(r.left) # <<"Resources:">> THEN [r EXCEPT !.ok = @ /\ r.left = <<>>]
  ELSE LET rows == Tail(r.left)
       IN [r EXCEPT !.ok = @ /\ \A i \in DOMAIN rows : startsWith(rows[i], "- "),
                    !.f.resources = [i \in DOMAIN rows |-> IF rows[i] = <<>> THEN <<>> ELSE Tail(rows[i])]]

\* The lines after the account and, between empty lines, the statement.
shaped(lines) ==
  /\ Len(lines) >= 5
  /\ lines[1] # <<>> /\ Last(lines[1]) = Header /\ lines[3] = <<>>
  /\ lines[4] = <<>> \/ lines[5] = <<>>

begun(lines) ==
  LET plain == lines[4] = <<>>
  IN [ok |-> TRUE, left |-> SubSeq(lines, IF plain THEN 5 ELSE 6, Len(lines)),
      f |-> [domain |-> Front(lines[1]), account |-> lines[2],
             statement |-> IF plain THEN None ELSE lines[4], uri |-> None,
             version |-> None, chainId |-> None, nonce |-> None, issuedAt |-> None,
             expirationTime |-> None, notBefore |-> None, requestId |-> None,
             resources |-> None]]

fieldsOf(lines) == takeResources(FoldLeft(opt, FoldLeft(take, begun(lines), Required), Optional))

spells(f, message) == buildable(f) /\ buildSiwcMessage(f) = message

readAs(r, message) == IF r.ok /\ spells(r.f, message) THEN r.f ELSE None

parsedLines(lines, message) == IF shaped(lines) THEN readAs(fieldsOf(lines), message) ELSE None

parseSiwcMessage(message) == parsedLines(splitLines(message), message)

-----------------------------------------------------------------------------
(* Signing and verifying.  A digest is tagged: it is no transaction's.     *)

siwcDigest(message) == <<"CSD-SIWC-v1", message>>
signDigest(digest, key) == [key |-> key, digest |-> digest]

\* JavaScript numbers: a comparison with NaN is false.
gt(a, b) == a # NaN /\ b # NaN /\ a > b
plus(a, b) == IF a = NaN \/ b = NaN THEN NaN ELSE a + b

futureSkewOf(e) ==
  IF e.futureSkew # None THEN e.futureSkew
  ELSE IF e.skew = NaN THEN NaN ELSE Max({e.skew, DEFAULT_FUTURE_SKEW})

\* Mutant of clockOk: only the clock itself is looked at.
clockOkNow(e) == e.now # NaN

clockOk(e) == e.now # NaN /\ e.skew # NaN /\ futureSkewOf(e) # NaN

\* iat <= now + futureSkew, now - iat <= an hour + skew, now < exp + skew and
\* nbf <= now + skew, each as the comparison that refuses.
inTime(f, e) ==
  LET iat == parseTime(f.issuedAt)
      exp == parseTime(f.expirationTime)
      nbf == parseTime(f.notBefore)
  IN /\ iat # NaN /\ ~gt(iat, plus(e.now, futureSkewOf(e)))
     /\ ~gt(e.now, plus(iat, plus(HOUR, e.skew)))
     /\ f.expirationTime # None /\ exp # NaN
     /\ ~gt(plus(e.now, 1), plus(exp, e.skew))
     /\ f.notBefore # None => nbf # NaN /\ ~gt(nbf, plus(e.now, e.skew))

\* The address signed in, or None.
addressIn(f, message, sig, pub, e) ==
  IF /\ f # None
     /\ f.domain = e.domain /\ f.chainId = e.chainId /\ f.nonce = e.nonce
     /\ clockOk(e) /\ inTime(f, e)
     /\ sig = signDigest(siwcDigest(message), pub)
     /\ KeyOf[AddressOf[f.account]] = pub
    THEN AddressOf[f.account] ELSE None

verifySiwc(message, sig, pub, e) == addressIn(parseSiwcMessage(message), message, sig, pub, e)
=============================================================================
