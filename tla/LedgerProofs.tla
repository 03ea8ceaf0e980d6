---------------------------- MODULE LedgerProofs ----------------------------
(***************************************************************************)
(* The token ledger for every feed: no step creates or loses a token, and  *)
(* a seller's locked balance is what its open offers still owe.            *)
(***************************************************************************)
EXTENDS ContractProofs, SumProofs

Balances == [Tickers -> [Addrs -> Int]]

\* What offer i keeps locked of ticker t for seller a.
Owed(i, t, a) ==
  IF Open(i) /\ offers[i].seller = a /\ offers[i].terms.give.asset = t
    THEN offerLock[i] ELSE 0

Minted(t) == tokens[t].minted
Held(t)   == SumOf(avail[t], Addrs) + SumOf(locked[t], Addrs)
Owes(t, a) == SumOf([i \in OfferIds |-> Owed(i, t, a)], OfferIds)

\* The invariant: the books balance, nobody has spent what was not there, and
\* nothing of a ticker exists before its deploy.
Balanced == \A t \in Tickers : Held(t) = Minted(t)
Solvent  == \A t \in Tickers, a \in Addrs : avail[t][a] >= 0
Exact    == \A t \in Tickers, a \in Addrs : locked[t][a] = Owes(t, a)
Unissued == \A t \in Tickers : ~tokenExists(t) => tokens[t].minted = 0

\* Nothing an open token offer owes is negative.
LocksNat == \A i \in OfferIds : Open(i) /\ ~isNameGive(offers[i].terms.give)
                                  => offerLock[i] >= 0

-----------------------------------------------------------------------------
(* One credit.                                                             *)

\* A credit changes one entry, and the total of its ticker by as much (addBal).
LEMMA OneCredit ==
  ASSUME NEW m \in Balances, NEW t \in Tickers, NEW a \in Addrs, NEW x \in Int
  PROVE  /\ addBal(m, t, a, x) \in Balances
         /\ \A u \in Tickers, b \in Addrs :
              addBal(m, t, a, x)[u][b] = m[u][b] + (IF u = t /\ b = a THEN x ELSE 0)
         /\ \A u \in Tickers :
              SumOf(addBal(m, t, a, x)[u], Addrs) =
                SumOf(m[u], Addrs) + (IF u = t THEN x ELSE 0)
  <1> DEFINE n == addBal(m, t, a, x)
  <1>1. n \in Balances
    BY DEF addBal, Balances
  <1>2. \A u \in Tickers, b \in Addrs :
          n[u][b] = m[u][b] + (IF u = t /\ b = a THEN x ELSE 0)
    BY DEF addBal, Balances
  <1>3. \A u \in Tickers, b \in Addrs : m[u][b] \in Int /\ n[u][b] \in Int
    BY <1>1 DEF Balances
  <1> HIDE DEF n
  <1>4. ASSUME NEW u \in Tickers
        PROVE  SumOf(n[u], Addrs) = SumOf(m[u], Addrs) + (IF u = t THEN x ELSE 0)
    <2>1. SumOf(m[u], Addrs) \in Int
      BY <1>3, FiniteAssumption, SumInt
    <2>2. CASE u = t
      <3>1. \A b \in Addrs \ {a} : m[u][b] = n[u][b]
        BY <1>2, <1>3
      <3>2. SumOf(n[u], Addrs) = SumOf(m[u], Addrs) + n[u][a] - m[u][a]
        <4> DEFINE F == m[u]
                   G == n[u]
        <4>1. \A b \in Addrs : F[b] \in Int /\ G[b] \in Int
          BY <1>3
        <4>2. \A b \in Addrs \ {a} : F[b] = G[b]
          BY <3>1
        <4> HIDE DEF F, G
        <4>3. SumOf(G, Addrs) = SumOf(F, Addrs) + G[a] - F[a]
          BY <4>1, <4>2, FiniteAssumption, SumChange
        <4> QED BY <4>3 DEF F, G
      <3>3. n[u][a] = m[u][a] + x
        BY <1>2, <2>2
      <3> QED BY <1>3, <2>1, <2>2, <3>2, <3>3
    <2>3. CASE u # t
      <3>1. \A b \in Addrs : n[u][b] = m[u][b]
        BY <1>2, <1>3, <2>3
      <3>2. SumOf(n[u], Addrs) = SumOf(m[u], Addrs)
        BY <3>1, FiniteAssumption, SumSame
      <3> QED BY <2>1, <2>3, <3>2
    <2> QED BY <2>2, <2>3
  <1> QED BY <1>1, <1>2, <1>4 DEF n

\* n is m with x more at one address of one ticker.
Credits(n, m, t, a, x) ==
  /\ n \in Balances
  /\ \A u \in Tickers, b \in Addrs :
       n[u][b] = m[u][b] + (IF u = t /\ b = a THEN x ELSE 0)
  /\ \A u \in Tickers :
       SumOf(n[u], Addrs) = SumOf(m[u], Addrs) + (IF u = t THEN x ELSE 0)

\* What addBal returns, by name.
LEMMA NewCredit ==
  ASSUME NEW m \in Balances, NEW t \in Tickers, NEW a \in Addrs, NEW x \in Int,
         NEW n, n = addBal(m, t, a, x)
  PROVE  Credits(n, m, t, a, x)
  <1>1. n \in Balances
    BY OneCredit
  <1>2. \A u \in Tickers, b \in Addrs :
          n[u][b] = m[u][b] + (IF u = t /\ b = a THEN x ELSE 0)
    BY OneCredit
  <1>3. \A u \in Tickers :
          SumOf(n[u], Addrs) = SumOf(m[u], Addrs) + (IF u = t THEN x ELSE 0)
    BY OneCredit
  <1> QED BY <1>1, <1>2, <1>3 DEF Credits

\* The totals are integers.
LEMMA TotalInt ==
  ASSUME NEW m \in Balances, NEW t \in Tickers
  PROVE  SumOf(m[t], Addrs) \in Int
  BY FiniteAssumption, SumInt DEF Balances

-----------------------------------------------------------------------------
(* One lock.                                                               *)

\* The locks are integers.
LEMMA OwedInt ==
  ASSUME Types, NEW i \in OfferIds, NEW t, NEW a
  PROVE  Owed(i, t, a) \in Int
  BY DEF Owed, Types, OfferTypes

\* While no lock changes, the locked balances stay exact.
LEMMA LocksStay ==
  ASSUME Types, Exact, locked' = locked,
         \A i \in OfferIds, t \in Tickers, a \in Addrs : Owed(i, t, a)' = Owed(i, t, a)
  PROVE  Exact'
  <1> SUFFICES ASSUME NEW t \in Tickers, NEW a \in Addrs
               PROVE  locked'[t][a] = Owes(t, a)'
    BY DEF Exact
  <1> DEFINE F == [i \in OfferIds |-> Owed(i, t, a)]
             G == [i \in OfferIds |-> Owed(i, t, a)']
  <1>1. Owes(t, a) = SumOf(F, OfferIds) /\ Owes(t, a)' = SumOf(G, OfferIds)
    BY DEF Owes
  <1>2. \A i \in OfferIds : F[i] = G[i]
    OBVIOUS
  <1> HIDE DEF F, G
  <1>3. SumOf(F, OfferIds) = SumOf(G, OfferIds)
    BY <1>2, FiniteAssumption, SumSame
  <1> QED BY <1>1, <1>3 DEF Exact

\* When one offer's lock changes and the balance with it, they stay exact.
LEMMA LockMoves ==
  ASSUME Types, Types', Exact, NEW id \in OfferIds, NEW s \in Addrs, NEW g \in Tickers,
         NEW x \in Int, locked' = addBal(locked, g, s, x),
         \A i \in OfferIds \ {id}, t \in Tickers, a \in Addrs : Owed(i, t, a)' = Owed(i, t, a),
         \A t \in Tickers, a \in Addrs :
           Owed(id, t, a)' = Owed(id, t, a) + (IF t = g /\ a = s THEN x ELSE 0)
  PROVE  Exact'
  <1> SUFFICES ASSUME NEW t \in Tickers, NEW a \in Addrs
               PROVE  locked'[t][a] = Owes(t, a)'
    BY DEF Exact
  <1> DEFINE F == [i \in OfferIds |-> Owed(i, t, a)]
             G == [i \in OfferIds |-> Owed(i, t, a)']
             d == IF t = g /\ a = s THEN x ELSE 0
  <1>1. Owes(t, a) = SumOf(F, OfferIds) /\ Owes(t, a)' = SumOf(G, OfferIds)
    BY DEF Owes
  <1>2. \A i \in OfferIds : F[i] \in Int
    BY OwedInt
  <1>3. \A i \in OfferIds : Owed(i, t, a)' \in Int
    BY DEF Owed, Types, OfferTypes
  <1>4. \A i \in OfferIds : G[i] \in Int
    BY <1>3
  <1>5. \A i \in OfferIds \ {id} : F[i] = G[i]
    OBVIOUS
  <1>6. G[id] = F[id] + d
    OBVIOUS
  <1>7. d \in Int
    OBVIOUS
  <1>8. locked'[t][a] = locked[t][a] + d
    <2>1. locked \in Balances
      BY DEF Types, LedgerTypes, Balances
    <2> QED BY <2>1, OneCredit
  <1>9. locked[t][a] = Owes(t, a)
    BY DEF Exact
  <1> HIDE DEF F, G, d
  <1>10. SumOf(G, OfferIds) = SumOf(F, OfferIds) + G[id] - F[id]
    BY <1>2, <1>4, <1>5, FiniteAssumption, SumChange
  <1>11. SumOf(F, OfferIds) \in Int
    BY <1>2, FiniteAssumption, SumInt
  <1>12. SumOf(G, OfferIds) = SumOf(F, OfferIds) + d
    BY <1>2, <1>6, <1>7, <1>10, <1>11
  <1>13. locked'[t][a] = SumOf(G, OfferIds)
    BY <1>1, <1>8, <1>9, <1>12
  <1> QED BY <1>1, <1>13

-----------------------------------------------------------------------------
(* One move of a balance, between or within the columns.                   *)

Books == Balanced /\ Solvent /\ Exact /\ Unissued

\* m, what avail was or has become by transfers within the column.
SameTotals(m) == \A t \in Tickers : SumOf(m[t], Addrs) = SumOf(avail[t], Addrs)
NoDebt(m)     == \A t \in Tickers, a \in Addrs : m[t][a] >= 0

\* What leaves the locked column reaches the free one, or the reverse.
LEMMA MovedAcross ==
  ASSUME Types, Balanced, NEW m \in Balances, SameTotals(m), NoDebt(m),
         NEW g \in Tickers, NEW s \in Addrs, NEW b \in Addrs, NEW y \in Int,
         m[g][b] + y >= 0, avail' = addBal(m, g, b, y), locked' = addBal(locked, g, s, -y),
         \A t \in Tickers : tokens'[t].minted = tokens[t].minted
  PROVE  Balanced' /\ Solvent'
  <1>1. avail \in Balances /\ locked \in Balances /\ -y \in Int
    BY DEF Types, LedgerTypes, Balances
  <1>2. /\ \A t \in Tickers, a \in Addrs :
             avail'[t][a] = m[t][a] + (IF t = g /\ a = b THEN y ELSE 0)
        /\ \A t \in Tickers :
             SumOf(avail'[t], Addrs) = SumOf(m[t], Addrs) + (IF t = g THEN y ELSE 0)
    <2>1. Credits(avail', m, g, b, y)
      BY NewCredit
    <2> QED BY <2>1 DEF Credits
  <1>3. \A t \in Tickers :
          SumOf(locked'[t], Addrs) = SumOf(locked[t], Addrs) + (IF t = g THEN -y ELSE 0)
    <2>1. PICK z \in Int : z = -y
      OBVIOUS
    <2>2. locked \in Balances
      BY <1>1
    <2>3. \A t \in Tickers :
            SumOf(addBal(locked, g, s, z)[t], Addrs) =
              SumOf(locked[t], Addrs) + (IF t = g THEN z ELSE 0)
      BY <2>2, OneCredit
    <2> QED BY <2>1, <2>3
  <1>4. Balanced'
    <2> SUFFICES ASSUME NEW t \in Tickers
                 PROVE  SumOf(avail'[t], Addrs) + SumOf(locked'[t], Addrs) = tokens'[t].minted
      BY DEF Balanced, Held, Minted
    <2>1. SumOf(avail[t], Addrs) + SumOf(locked[t], Addrs) = tokens[t].minted
      BY DEF Balanced, Held, Minted
    <2>2. SumOf(avail[t], Addrs) \in Int /\ SumOf(locked[t], Addrs) \in Int
      BY <1>1, TotalInt
    <2>3. SumOf(avail'[t], Addrs) = SumOf(avail[t], Addrs) + (IF t = g THEN y ELSE 0)
      BY <1>2 DEF SameTotals
    <2> QED BY <1>3, <2>1, <2>2, <2>3
  <1>5. Solvent'
    <2> SUFFICES ASSUME NEW t \in Tickers, NEW a \in Addrs PROVE avail'[t][a] >= 0
      BY DEF Solvent
    <2>1. m[t][a] \in Int /\ m[t][a] >= 0
      BY DEF NoDebt, Balances
    <2> QED BY <1>2, <2>1
  <1> QED BY <1>4, <1>5

\* A transfer keeps the totals, whoever pays whom; only the payer can lack it.
LEMMA MovedWithin ==
  ASSUME NEW m \in Balances, SameTotals(m), NEW n \in Balances,
         NEW t \in Tickers, NEW a \in Addrs, NEW b \in Addrs, NEW x \in Nat,
         NoDebt(m), m[t][a] >= x, n = addBal(addBal(m, t, a, -x), t, b, x), avail \in Balances
  PROVE  SameTotals(n) /\ NoDebt(n)
  <1> DEFINE p == addBal(m, t, a, -x)
  <1>1. /\ p \in Balances
        /\ \A u \in Tickers, c \in Addrs : p[u][c] = m[u][c] + (IF u = t /\ c = a THEN -x ELSE 0)
        /\ \A u \in Tickers : SumOf(p[u], Addrs) = SumOf(m[u], Addrs) + (IF u = t THEN -x ELSE 0)
    BY OneCredit
  <1>2. n = addBal(p, t, b, x)
    OBVIOUS
  <1> HIDE DEF p
  <1>3. /\ \A u \in Tickers, c \in Addrs : n[u][c] = p[u][c] + (IF u = t /\ c = b THEN x ELSE 0)
        /\ \A u \in Tickers : SumOf(n[u], Addrs) = SumOf(p[u], Addrs) + (IF u = t THEN x ELSE 0)
    BY <1>1, <1>2, OneCredit
  <1>4. ASSUME NEW u \in Tickers PROVE SumOf(n[u], Addrs) = SumOf(avail[u], Addrs)
    <2>1. SumOf(m[u], Addrs) \in Int
      BY TotalInt
    <2> QED BY <1>1, <1>3, <2>1 DEF SameTotals
  <1>5. ASSUME NEW u \in Tickers, NEW c \in Addrs PROVE n[u][c] >= 0
    <2>1. m[u][c] \in Int /\ m[u][c] >= 0
      BY DEF NoDebt, Balances
    <2> QED BY <1>1, <1>3, <2>1
  <1> QED BY <1>4, <1>5 DEF SameTotals, NoDebt

-----------------------------------------------------------------------------
(* Token records.                                                          *)

\* A record that touches no offer and no locked balance leaves the locks exact.
LEMMA OffersRest ==
  ASSUME Types, Exact, UNCHANGED <<locked, offers, offerLock>>
  PROVE  Exact'
  <1>1. \A i \in OfferIds, t \in Tickers, a \in Addrs : Owed(i, t, a)' = Owed(i, t, a)
    BY DEF Owed, Open
  <1> QED BY <1>1, LocksStay

\* A mint credits what it adds to minted; a transfer credits what it debits.
LEMMA TokenBooks ==
  ASSUME Types, Books, NEW who \in Addrs, TokenRecord(who)
  PROVE  Books'
  <1>1. avail \in Balances /\ locked \in Balances
    BY DEF Types, LedgerTypes, Balances
  <1>2. UNCHANGED <<locked, offers, offerLock>>
    BY DEF TokenRecord, applyDeploy, applyMint, applyTransfer, applyTmeta, TokenFrame, marketVars
  <1>3. Exact'
    BY <1>2, OffersRest DEF Books
  <1>4. CASE \E t \in Tickers, s \in Supplies, m \in MintLimits, fee \in Payments :
               applyDeploy(t, who, s, m, fee)
    <2> PICK t \in Tickers, s \in Supplies, m \in MintLimits, fee \in Payments :
             applyDeploy(t, who, s, m, fee)
      BY <1>4
    <2>1. UNCHANGED <<avail, locked>>
      BY DEF applyDeploy
    <2>2. /\ tokens[t].minted = 0 /\ tokens'[t].minted = 0 /\ tokens'[t].deployer = who
          /\ \A u \in Tickers \ {t} : tokens'[u] = tokens[u]
      BY DEF applyDeploy, NoToken, Types, LedgerTypes, Books, Unissued
    <2>3. Balanced' /\ Solvent' /\ Unissued'
      BY <2>1, <2>2, SetsAssumption
      DEF Books, Balanced, Solvent, Unissued, Held, Minted, tokenExists
    <2> QED BY <1>3, <2>3 DEF Books
  <1>5. CASE \E t \in Tickers, req \in Amounts \cup {0} : applyMint(t, who, req)
    <2> PICK t \in Tickers, req \in Amounts \cup {0} : applyMint(t, who, req)
      BY <1>5
    <2> DEFINE credit == mintCredit(tokens[t], req)
    <2>1. tokens[t] \in TokenRec /\ req \in Nat /\ tokens[t].minted < tokens[t].supply
      BY TokenInputsAssumption DEF Types, LedgerTypes, applyMint
    <2>2. credit \in Nat
      BY <2>1 DEF mintCredit, Smaller, TokenRec
    <2>3. tokens' = [tokens EXCEPT ![t].minted = @ + credit] /\ avail' = addBal(avail, t, who, credit)
      BY DEF applyMint
    <2> HIDE DEF credit
    <2>4. \A u \in Tickers :
            /\ tokens'[u].minted = tokens[u].minted + (IF u = t THEN credit ELSE 0)
            /\ tokens'[u].deployer = tokens[u].deployer
      BY <2>2, <2>3 DEF Types, LedgerTypes, TokenRec
    <2>8. Unissued'
      <3>1. tokenExists(t)
        BY DEF applyMint
      <3> QED BY <2>1, <2>4, <3>1 DEF Books, Unissued, tokenExists, Types, LedgerTypes, TokenRec
    <2>5. /\ \A u \in Tickers, c \in Addrs :
               avail'[u][c] = avail[u][c] + (IF u = t /\ c = who THEN credit ELSE 0)
          /\ \A u \in Tickers : SumOf(avail'[u], Addrs) =
                                  SumOf(avail[u], Addrs) + (IF u = t THEN credit ELSE 0)
      BY <1>1, <2>2, <2>3, OneCredit
    <2>6. Solvent'
      <3> SUFFICES ASSUME NEW u \in Tickers, NEW c \in Addrs PROVE avail'[u][c] >= 0
        BY DEF Solvent
      <3>1. avail[u][c] \in Int /\ avail[u][c] >= 0
        BY <1>1 DEF Books, Solvent, Balances
      <3> QED BY <2>2, <2>5, <3>1
    <2>7. Balanced'
      <3> SUFFICES ASSUME NEW u \in Tickers
                   PROVE  SumOf(avail'[u], Addrs) + SumOf(locked[u], Addrs) = tokens'[u].minted
        BY <1>2 DEF Balanced, Held, Minted
      <3>1. SumOf(avail[u], Addrs) + SumOf(locked[u], Addrs) = tokens[u].minted
        BY DEF Books, Balanced, Held, Minted
      <3>2. SumOf(avail[u], Addrs) \in Int /\ SumOf(locked[u], Addrs) \in Int
        BY <1>1, TotalInt
      <3> QED BY <2>2, <2>4, <2>5, <3>1, <3>2
    <2> QED BY <1>3, <2>6, <2>7, <2>8 DEF Books
  <1>6. CASE \E t \in Tickers, to \in Addrs, a \in Amounts : applyTransfer(t, who, to, a)
    <2> PICK t \in Tickers, to \in Addrs, x \in Amounts : applyTransfer(t, who, to, x)
      BY <1>6
    <2>1. x \in Nat /\ avail[t][who] >= x /\ tokens' = tokens
          /\ avail' = addBal(addBal(avail, t, who, -x), t, to, x)
      BY TokenInputsAssumption DEF applyTransfer
    <2>2. avail' \in Balances
      <3>1. -x \in Int /\ x \in Int
        BY <2>1
      <3>2. addBal(avail, t, who, -x) \in Balances
        BY <1>1, <3>1, OneCredit
      <3> QED BY <2>1, <3>1, <3>2, OneCredit
    <2>3. SameTotals(avail) /\ NoDebt(avail)
      BY DEF Books, Solvent, SameTotals, NoDebt
    <2>4. SameTotals(avail') /\ NoDebt(avail')
      BY <1>1, <2>1, <2>2, <2>3, MovedWithin
    <2>5. Balanced' /\ Solvent' /\ Unissued'
      BY <1>2, <2>1, <2>4
      DEF SameTotals, NoDebt, Books, Balanced, Solvent, Unissued, Held, Minted, tokenExists
    <2> QED BY <1>3, <2>5 DEF Books
  <1>7. CASE \E t \in Tickers, hash \in Contents : applyTmeta(t, who, hash)
    <2> PICK t \in Tickers, hash \in Contents : applyTmeta(t, who, hash)
      BY <1>7
    <2>1. /\ UNCHANGED <<avail, locked>>
          /\ \A u \in Tickers : /\ tokens'[u].minted = tokens[u].minted
                                /\ tokens'[u].deployer = tokens[u].deployer
      BY DEF applyTmeta, Types, LedgerTypes, TokenRec
    <2>2. Balanced' /\ Solvent' /\ Unissued'
      BY <2>1 DEF Books, Balanced, Solvent, Unissued, Held, Minted, tokenExists
    <2> QED BY <1>3, <2>2 DEF Books
  <1> QED BY <1>4, <1>5, <1>6, <1>7 DEF TokenRecord

-----------------------------------------------------------------------------
(* Publishing and ending an offer.                                         *)

\* While tokens and balances rest, only the locks are to be looked at.
LEMMA BalancesRest ==
  ASSUME Types, Books, UNCHANGED <<tokens, avail, locked>>,
         \A i \in OfferIds, t \in Tickers, a \in Addrs : Owed(i, t, a)' = Owed(i, t, a)
  PROVE  Books'
  <1>1. Exact'
    BY LocksStay DEF Books
  <1> QED BY <1>1 DEF Books, Balanced, Solvent, Unissued, Held, Minted, tokenExists

\* An offer that gives a name locks no token.
LEMMA NameOwesNone ==
  ASSUME NEW i, offers[i].terms.give.asset \in Names, NEW t \in Tickers, NEW a
  PROVE  Owed(i, t, a) = 0
  BY SetsAssumption DEF Owed

\* A published offer locks its give, and takes it from what its seller has.
LEMMA OfferBooks ==
  ASSUME Types, Types', Books, NEW id \in OfferIds, NEW who \in Addrs, NEW x \in OfferTerms,
         NEW E, applyOffer(id, who, x, E)
  PROVE  Books'
  <1> DEFINE g == x.give
             new == [NoOffer EXCEPT !.status = "open", !.seller = who, !.terms = x,
                                    !.expiresEpoch = E, !.height = height]
  <1>1. /\ offers[id].status = "none" /\ tokens' = tokens /\ lockGive(id, x.give, who, E)
        /\ offers' = [offers EXCEPT ![id] = new]
    BY DEF applyOffer
  <1>2. new.status = "open" /\ new.seller = who /\ new.terms = x
    BY DEF NoOffer
  <1> HIDE DEF new
  <1>3. /\ offers'[id] = new /\ \A i \in OfferIds \ {id} : offers'[i] = offers[i]
        /\ offers \in [OfferIds -> OfferRec] /\ offerLock \in [OfferIds -> Int]
    BY <1>1 DEF Types, OfferTypes
  <1>4. \A t \in Tickers, a \in Addrs : Owed(id, t, a) = 0
    BY <1>1 DEF Owed, Open
  <1>5. CASE isNameGive(g)
    <2>1. UNCHANGED <<avail, locked, offerLock>>
      BY <1>1, <1>5 DEF lockGive
    <2>2. \A t \in Tickers, a \in Addrs : Owed(id, t, a)' = 0
      BY <1>2, <1>3, <1>5, SetsAssumption DEF Owed, isNameGive
    <2>3. \A i \in OfferIds \ {id}, t \in Tickers, a \in Addrs : Owed(i, t, a)' = Owed(i, t, a)
      BY <1>3, <2>1 DEF Owed, Open
    <2>4. \A i \in OfferIds, t \in Tickers, a \in Addrs : Owed(i, t, a)' = Owed(i, t, a)
      BY <1>4, <2>2, <2>3
    <2> QED BY <1>1, <2>1, <2>4, BalancesRest
  <1>6. CASE ~isNameGive(g)
    <2>1. /\ avail[g.asset][who] >= g.amount
          /\ avail' = addBal(avail, g.asset, who, -g.amount)
          /\ locked' = addBal(locked, g.asset, who, g.amount)
          /\ offerLock' = [offerLock EXCEPT ![id] = g.amount]
      BY <1>1, <1>6 DEF lockGive
    <2>2. g.asset \in Tickers /\ g.amount \in Nat
      BY <1>6, OfferTermsAssumption DEF OfferShape, isNameGive
    <2> DEFINE q == g.asset
               n == g.amount
    <2>3. \A i \in OfferIds \ {id}, t \in Tickers, a \in Addrs : Owed(i, t, a)' = Owed(i, t, a)
      BY <1>3, <2>1 DEF Owed, Open
    <2>4. \A t \in Tickers, a \in Addrs :
            Owed(id, t, a)' = Owed(id, t, a) + (IF t = q /\ a = who THEN n ELSE 0)
      BY <1>2, <1>3, <1>4, <2>1, <2>2 DEF Owed, Open
    <2>5. q \in Tickers /\ n \in Int /\ -n \in Int /\ -(-n) = n
      BY <2>2
    <2>6. Exact'
      BY <2>1, <2>3, <2>4, <2>5, LockMoves DEF Books
    <2>7. SameTotals(avail) /\ NoDebt(avail) /\ avail \in Balances
      BY DEF Books, Solvent, SameTotals, NoDebt, Types, LedgerTypes, Balances
    <2>8. avail[q][who] + (-n) >= 0
      BY <2>1, <2>2, <2>7 DEF Balances
    <2>9. avail' = addBal(avail, q, who, -n) /\ locked' = addBal(locked, q, who, -(-n))
      BY <2>1, <2>5
    <2>10. \A t \in Tickers : tokens'[t].minted = tokens[t].minted
      BY <1>1
    <2> HIDE DEF q, n
    <2>11. PICK y \in Int : y = -n
      BY <2>5
    <2>12. Balanced' /\ Solvent'
      BY <2>5, <2>7, <2>8, <2>9, <2>10, <2>11, MovedAcross DEF Books
    <2> QED BY <1>1, <2>6, <2>12 DEF Books, Unissued, tokenExists
  <1> QED BY <1>5, <1>6

\* Offer id ends, what it still keeps locked goes to b, and it owes nothing more.
\* m is avail once the buyer has paid.
LEMMA EndBooks ==
  ASSUME Types, Types', Books, LocksNat, NEW id \in OfferIds, Open(id), NEW b \in Addrs,
         NEW m \in Balances, SameTotals(m), NoDebt(m),
         offers'[id].status # "open", tokens' = tokens,
         \A i \in OfferIds \ {id} : offers'[i] = offers[i] /\ offerLock'[i] = offerLock[i],
         isNameGive(offers[id].terms.give) => avail' = m /\ locked' = locked,
         ~isNameGive(offers[id].terms.give) =>
           /\ locked' = addBal(locked, offers[id].terms.give.asset, offers[id].seller, -offerLock[id])
           /\ avail' = addBal(m, offers[id].terms.give.asset, b, offerLock[id])
  PROVE  Books'
  <1> DEFINE o == offers[id]
             g == o.terms.give
             n == offerLock[id]
  <1>1. o.status = "open" /\ n \in Int /\ locked \in Balances
    BY DEF Types, OfferTypes, LedgerTypes, Balances, Open
  <1>2. /\ o.seller \in Addrs
        /\ ~isNameGive(g) => g.asset \in Tickers
        /\ isNameGive(g) => g.asset \in Names
    BY <1>1, OfferParts DEF Types
  <1>3. \A i \in OfferIds \ {id}, t \in Tickers, a \in Addrs : Owed(i, t, a)' = Owed(i, t, a)
    BY DEF Owed, Open
  <1>4. \A t \in Tickers, a \in Addrs : Owed(id, t, a)' = 0
    BY DEF Owed, Open
  <1>5. CASE isNameGive(g)
    <2>1. \A t \in Tickers, a \in Addrs : Owed(id, t, a) = 0
      BY <1>2, <1>5, NameOwesNone
    <2>2. \A i \in OfferIds, t \in Tickers, a \in Addrs : Owed(i, t, a)' = Owed(i, t, a)
      BY <1>3, <1>4, <2>1
    <2>3. avail' = m /\ locked' = locked
      BY <1>5
    <2>4. Exact'
      BY <2>2, <2>3, LocksStay DEF Books
    <2>5. Balanced' /\ Solvent'
      BY <2>3 DEF Books, Balanced, Solvent, Held, Minted, SameTotals, NoDebt
    <2> QED BY <2>4, <2>5 DEF Books, Unissued, tokenExists
  <1>6. CASE ~isNameGive(g)
    <2> DEFINE q == g.asset
               s == o.seller
    <2>1. locked' = addBal(locked, q, s, -n) /\ avail' = addBal(m, q, b, n)
      BY <1>6
    <2>2. q \in Tickers /\ s \in Addrs /\ n >= 0
      BY <1>1, <1>2, <1>6 DEF LocksNat
    <2>3. \A t \in Tickers, a \in Addrs :
            Owed(id, t, a) = IF t = q /\ a = s THEN n ELSE 0
      BY <1>1 DEF Owed, Open
    <2>4. \A t \in Tickers : tokens'[t].minted = tokens[t].minted
      OBVIOUS
    <2>5. m[q][b] + n >= 0
      BY <1>1, <2>2 DEF NoDebt, Balances
    <2> HIDE DEF q, s, n
    <2>6. PICK z \in Int : z = -n
      BY <1>1
    <2>7. \A t \in Tickers, a \in Addrs :
            Owed(id, t, a)' = Owed(id, t, a) + (IF t = q /\ a = s THEN z ELSE 0)
      BY <1>1, <1>4, <2>3, <2>6
    <2>8. Exact'
      BY <1>3, <2>1, <2>2, <2>6, <2>7, LockMoves DEF Books
    <2>9. Balanced' /\ Solvent'
      BY <1>1, <2>1, <2>2, <2>4, <2>5, MovedAcross DEF Books
    <2> QED BY <2>8, <2>9 DEF Books, Unissued, tokenExists
  <1> QED BY <1>5, <1>6

\* Before anything is paid.
LEMMA Unpaid ==
  ASSUME Types, Books
  PROVE  avail \in Balances /\ SameTotals(avail) /\ NoDebt(avail)
  BY DEF Books, Solvent, SameTotals, NoDebt, Types, LedgerTypes, Balances

\* A flushed cancel and the expiry return to the seller what is still locked.
LEMMA ReleaseBooks ==
  ASSUME Types, Types', Books, LocksNat, NEW id \in OfferIds, Open(id), releaseGive(id),
         NEW st, st # "open", setOfferStatus(id, st), UNCHANGED <<tokens, offerLock>>
  PROVE  Books'
  <1>1. /\ offers'[id].status = st
        /\ \A i \in OfferIds \ {id} : offers'[i] = offers[i] /\ offerLock'[i] = offerLock[i]
        /\ offers[id].status = "open"
    BY DEF Types, OfferTypes, OfferRec, setOfferStatus, Open
  <1>2. offers[id].seller \in Addrs
    BY <1>1, OfferParts DEF Types
  <1>3. /\ isNameGive(offers[id].terms.give) => avail' = avail /\ locked' = locked
        /\ ~isNameGive(offers[id].terms.give) =>
             /\ locked' = addBal(locked, offers[id].terms.give.asset, offers[id].seller, -offerLock[id])
             /\ avail' = addBal(avail, offers[id].terms.give.asset, offers[id].seller, offerLock[id])
    BY DEF releaseGive
  <1> QED BY <1>1, <1>2, <1>3, Unpaid, EndBooks

-----------------------------------------------------------------------------
(* Fills.                                                                  *)

\* The in-kind payment: what the taker is debited, fee included, is credited to
\* the payee and the treasury, whichever of the three are one address.
LEMMA PaidInKind ==
  ASSUME Types, Books, NEW w \in Tickers, NEW who \in Addrs, NEW b \in Addrs, NEW c \in Addrs,
         NEW p \in Nat, NEW f \in Nat, avail[w][who] >= p + f, NEW m,
         m = addBal(addBal(addBal(avail, w, who, -(p + f)), w, b, p), w, c, f)
  PROVE  m \in Balances /\ SameTotals(m) /\ NoDebt(m)
  <1>1. avail \in Balances /\ NoDebt(avail)
    BY Unpaid
  <1>2. PICK d \in Int : d = -(p + f)
    OBVIOUS
  <1> DEFINE m1 == addBal(avail, w, who, d)
             m2 == addBal(m1, w, b, p)
  <1>3. m = addBal(m2, w, c, f)
    BY <1>2
  <1>4. /\ m1 \in Balances
        /\ \A u \in Tickers, e \in Addrs :
             m1[u][e] = avail[u][e] + (IF u = w /\ e = who THEN d ELSE 0)
        /\ \A u \in Tickers :
             SumOf(m1[u], Addrs) = SumOf(avail[u], Addrs) + (IF u = w THEN d ELSE 0)
    BY <1>1, OneCredit
  <1> HIDE DEF m1
  <1>5. /\ m2 \in Balances
        /\ \A u \in Tickers, e \in Addrs :
             m2[u][e] = m1[u][e] + (IF u = w /\ e = b THEN p ELSE 0)
        /\ \A u \in Tickers :
             SumOf(m2[u], Addrs) = SumOf(m1[u], Addrs) + (IF u = w THEN p ELSE 0)
    <2>1. m1 \in Balances /\ p \in Int
      BY <1>4
    <2>2. Credits(m2, m1, w, b, p)
      BY <2>1, NewCredit
    <2> HIDE DEF m2
    <2> QED BY <2>2 DEF Credits
  <1> HIDE DEF m2
  <1>6. /\ m \in Balances
        /\ \A u \in Tickers, e \in Addrs :
             m[u][e] = m2[u][e] + (IF u = w /\ e = c THEN f ELSE 0)
        /\ \A u \in Tickers :
             SumOf(m[u], Addrs) = SumOf(m2[u], Addrs) + (IF u = w THEN f ELSE 0)
    <2>1. m2 \in Balances /\ f \in Int
      BY <1>5
    <2>2. Credits(m, m2, w, c, f)
      BY <1>3, <2>1, NewCredit
    <2> QED BY <2>2 DEF Credits
  <1>7. ASSUME NEW u \in Tickers PROVE SumOf(m[u], Addrs) = SumOf(avail[u], Addrs)
    <2>1. SumOf(avail[u], Addrs) \in Int
      BY <1>1, TotalInt
    <2> QED BY <1>2, <1>4, <1>5, <1>6, <2>1
  <1>8. ASSUME NEW u \in Tickers, NEW e \in Addrs PROVE m[u][e] >= 0
    <2>1. avail[u][e] \in Int /\ avail[u][e] >= 0
      BY <1>1 DEF NoDebt, Balances
    <2> QED BY <1>2, <1>4, <1>5, <1>6, <2>1
  <1> QED BY <1>6, <1>7, <1>8 DEF SameTotals, NoDebt

\* A filled offer, and the others.
LEMMA FilledOffers ==
  ASSUME Types, NEW id \in OfferIds, NEW who, markFilled(id, who)
  PROVE  /\ offers'[id].status = "filled"
         /\ \A i \in OfferIds \ {id} : offers'[i] = offers[i]
  BY DEF markFilled, Types, OfferTypes, OfferRec

\* The swap for tokens.
LEMMA TokenFillBooks ==
  ASSUME Types, Types', Books, LocksNat, NEW id \in OfferIds, NEW who \in Addrs, NEW txid,
         applyTokenFill(id, who, txid)
  PROVE  Books'
  <1> DEFINE o == offers[id]
             w == o.terms.want
             g == o.terms.give
             fee == tradeFee(o, w.amount)
             paid == addBal(addBal(addBal(avail, w.asset, who, -(w.amount + fee)),
                                   w.asset, paytoOf(o), w.amount),
                            w.asset, TREASURY_ADDR, fee)
  <1>1. o.status = "open" /\ Open(id) /\ isTokenWant(w) /\ markFilled(id, who)
        /\ tokens' = tokens /\ avail[w.asset][who] >= w.amount + fee
    BY DEF applyTokenFill, OpenToFiller, Open
  <1>2. w.asset \in Tickers /\ paytoOf(o) \in Addrs /\ w.amount \in Nat /\ fee \in Nat
    BY <1>1, OfferParts, TradeFeeNat DEF Types, OfferShape
  <1>3. /\ isNameGive(g) => avail' = paid /\ locked' = locked /\ offerLock' = offerLock
        /\ ~isNameGive(g) =>
             /\ locked' = addBal(locked, g.asset, o.seller, -offerLock[id])
             /\ avail' = addBal(paid, g.asset, who, offerLock[id])
             /\ offerLock' = [offerLock EXCEPT ![id] = 0]
    BY DEF applyTokenFill
  <1>4. paid \in Balances /\ SameTotals(paid) /\ NoDebt(paid)
    <2> HIDE DEF fee, o, w
    <2> QED BY <1>1, <1>2, PaidInKind, SetsAssumption
  <1> HIDE DEF paid
  <1>5. \A i \in OfferIds \ {id} : offerLock'[i] = offerLock[i]
    BY <1>3 DEF Types, OfferTypes
  <1>6. offers'[id].status = "filled" /\ \A i \in OfferIds \ {id} : offers'[i] = offers[i]
    BY <1>1, FilledOffers
  <1> QED BY <1>1, <1>3, <1>4, <1>5, <1>6, EndBooks

\* The whole fill in the native coin.
LEMMA FillBooks ==
  ASSUME Types, Types', Books, LocksNat, NEW id \in OfferIds, NEW who \in Addrs, NEW target,
         NEW pt, NEW txid, applyFill(id, who, target, pt, txid)
  PROVE  Books'
  <1>1. Open(id) /\ markFilled(id, who) /\ tokens' = tokens /\ deliverGive(id, who, txid)
    BY DEF applyFill, OpenToFiller
  <1>2. /\ isNameGive(offers[id].terms.give) =>
             avail' = avail /\ locked' = locked /\ offerLock' = offerLock
        /\ ~isNameGive(offers[id].terms.give) =>
             /\ locked' = addBal(locked, offers[id].terms.give.asset, offers[id].seller, -offerLock[id])
             /\ avail' = addBal(avail, offers[id].terms.give.asset, who, offerLock[id])
             /\ offerLock' = [offerLock EXCEPT ![id] = 0]
    BY <1>1 DEF deliverGive
  <1>3. \A i \in OfferIds \ {id} : offerLock'[i] = offerLock[i]
    BY <1>2 DEF Types, OfferTypes
  <1>4. offers'[id].status = "filled" /\ \A i \in OfferIds \ {id} : offers'[i] = offers[i]
    BY <1>1, FilledOffers
  <1> QED BY <1>1, <1>2, <1>3, <1>4, Unpaid, EndBooks

\* A larger number has no smaller quotient.
LEMMA FloorGrows ==
  ASSUME NEW a \in Nat, NEW b \in Nat, a <= b, NEW w \in Nat \ {0}
  PROVE  a \div w <= b \div w
  OBVIOUS

\* The share a payment buys is never negative, and the last one is the rest.
LEMMA ShareGrows ==
  ASSUME NEW g \in Nat, NEW w \in Nat \ {0}, NEW p \in Nat, NEW x \in Nat
  PROVE  /\ (g * (p + x)) \div w \in Nat /\ (g * p) \div w \in Nat
         /\ (g * (p + x)) \div w - (g * p) \div w >= 0
         /\ p + x = w => (g * (p + x)) \div w = g
  <1>1. g * p \in Nat /\ g * x \in Nat /\ g * (p + x) \in Nat /\ g * (p + x) = g * p + g * x
    BY NatProduct
  <1>2. (g * p) \div w \in Nat /\ (g * (p + x)) \div w \in Nat
    BY <1>1, NatQuotient
  <1>3. (g * p) \div w <= (g * (p + x)) \div w
    <2>1. g * p <= g * (p + x)
      BY <1>1
    <2> QED BY <1>1, <2>1, FloorGrows
  <1>4. p + x = w => (g * (p + x)) \div w = g
    BY FloorShare
  <1> QED BY <1>2, <1>3, <1>4

\* A part of an offer is sold: the share paid for leaves the lock for the buyer,
\* and with the last payment all that is left does.
LEMMA PartialFillBooks ==
  ASSUME Types, Types', Books, LocksNat, PartialBooks, NEW id \in OfferIds, NEW who \in Addrs,
         NEW target, NEW pt \in PaidTo, applyPartialFill(id, who, target, pt)
  PROVE  Books'
  <1> DEFINE o == offers[id]
             give == o.terms.give.amount
             want == o.terms.want.amount
             x == Smaller(pt[paytoOf(o)], want - o.paid)
             newPaid == o.paid + x
             newDelivered == deliveredAfter(o, newPaid)
             out == newDelivered - o.delivered
             t == o.terms.give.asset
             s == o.seller
             part == [o EXCEPT !.paid = newPaid, !.delivered = newDelivered]
             full == [part EXCEPT !.status = "filled", !.buyer = who]
  <1>1. o.status = "open" /\ o.terms.min # 0 /\ Open(id) /\ tokens' = tokens
    BY DEF applyPartialFill, OpenToFiller, Open
  <1>2. o \in OfferRec /\ OfferShape(o.terms) /\ s \in Addrs /\ paytoOf(o) \in Addrs
    BY <1>1, OfferParts DEF Types
  <1>3. /\ t \in Tickers /\ want \in Nat \ {0} /\ give \in Nat /\ o.paid \in Nat
        /\ o.delivered \in Nat /\ o.paid <= want
    BY <1>1, <1>2 DEF OfferShape, OfferRec, Types, OfferTypes
  <1>4. x \in Nat
    BY <1>2, <1>3, PaidToAssumption DEF Smaller
  <1>5. o.delivered = (give * o.paid) \div want /\ offerLock[id] = give - o.delivered
    BY <1>1 DEF PartialBooks, deliveredAfter
  <1>6. newDelivered = (give * newPaid) \div want
    BY DEF deliveredAfter
  <1>7. out \in Int /\ out >= 0 /\ (newPaid = want => out = offerLock[id])
    <2> HIDE DEF o, give, want, x, newDelivered
    <2>1. /\ (give * newPaid) \div want \in Nat /\ (give * o.paid) \div want \in Nat
          /\ (give * newPaid) \div want - (give * o.paid) \div want >= 0
          /\ newPaid = want => (give * newPaid) \div want = give
      BY <1>3, <1>4, ShareGrows
    <2> QED BY <1>3, <1>5, <1>6, <2>1
  <1>8. locked' = addBal(locked, t, s, -out) /\ avail' = addBal(avail, t, who, out)
    BY DEF applyPartialFill
  <1>9. \/ /\ newPaid = want /\ offers' = [offers EXCEPT ![id] = full]
           /\ offerLock' = [offerLock EXCEPT ![id] = 0]
        \/ /\ offers' = [offers EXCEPT ![id] = part]
           /\ offerLock' = [offerLock EXCEPT ![id] = @ - out]
    BY DEF applyPartialFill
  <1>10. part.status = "open" /\ part.seller = s /\ part.terms = o.terms /\ full.status = "filled"
    BY <1>1, <1>2 DEF OfferRec
  <1>11. ~isNameGive(o.terms.give)
    BY <1>3, SetsAssumption DEF isNameGive
  <1> HIDE DEF x, newPaid, newDelivered, part, full
  <1>12. offers \in [OfferIds -> OfferRec] /\ offerLock \in [OfferIds -> Int]
    BY DEF Types, OfferTypes
  <1>13. \A i \in OfferIds \ {id} : offers'[i] = offers[i] /\ offerLock'[i] = offerLock[i]
    BY <1>9, <1>12
  <1>14. CASE newPaid = want /\ offers' = [offers EXCEPT ![id] = full]
    <2>1. offers'[id].status = "filled"
      BY <1>10, <1>12, <1>14
    <2>2. out = offerLock[id]
      BY <1>7, <1>14
    <2> HIDE DEF out
    <2> QED BY <1>1, <1>8, <1>11, <1>13, <2>1, <2>2, Unpaid, EndBooks
  <1>15. CASE offers' = [offers EXCEPT ![id] = part] /\ offerLock' = [offerLock EXCEPT ![id] = @ - out]
    <2>1. offers'[id] = part /\ offerLock'[id] = offerLock[id] - out
      BY <1>12, <1>15
    <2> HIDE DEF out
    <2>2. PICK z \in Int : z = -out
      BY <1>7
    <2>3. \A i \in OfferIds \ {id}, u \in Tickers, a \in Addrs : Owed(i, u, a)' = Owed(i, u, a)
      BY <1>13 DEF Owed, Open
    <2>4. \A u \in Tickers, a \in Addrs :
            Owed(id, u, a)' = Owed(id, u, a) + (IF u = t /\ a = s THEN z ELSE 0)
      BY <1>1, <1>7, <1>10, <1>12, <2>1, <2>2 DEF Owed, Open
    <2>5. avail \in Balances /\ SameTotals(avail) /\ NoDebt(avail)
      BY Unpaid
    <2>6. avail[t][who] + out >= 0
      BY <1>3, <1>7, <2>5 DEF NoDebt, Balances
    <2>7. \A u \in Tickers : tokens'[u].minted = tokens[u].minted
      BY <1>1
    <2> HIDE DEF o, t, s
    <2>8. Exact'
      BY <1>2, <1>3, <1>8, <2>2, <2>3, <2>4, LockMoves DEF Books
    <2>9. Balanced' /\ Solvent'
      BY <1>2, <1>3, <1>7, <1>8, <2>5, <2>6, <2>7, MovedAcross DEF Books
    <2> QED BY <1>1, <2>8, <2>9 DEF Books, Unissued, tokenExists
  <1> QED BY <1>9, <1>14, <1>15

-----------------------------------------------------------------------------
(* The rest, and the theorems.                                             *)

\* A market record other than an offer, and an attest other than a fill, moves
\* no balance, and neither ends nor changes what an offer owes.
LEMMA MarketBooks ==
  ASSUME Types, Types', Books, NEW who \in Addrs, MarketRecord(who)
  PROVE  Books'
  <1>1. CASE \E id \in OfferIds, x \in OfferTerms, E \in Expiries : applyOffer(id, who, x, E)
    BY <1>1, OfferBooks
  <1>2. CASE \/ \E b \in BidIds, E \in Expiries : applyBid(b, who, E)
             \/ \E filter \in Tickers \cup Names \cup {None} : applyOcancel(who, filter)
    <2>1. UNCHANGED <<tokens, avail, locked, offers, offerLock>>
      BY <1>2 DEF applyBid, applyOcancel, tokenVars
    <2>2. \A i \in OfferIds, t \in Tickers, a \in Addrs : Owed(i, t, a)' = Owed(i, t, a)
      BY <2>1 DEF Owed, Open
    <2> QED BY <2>1, <2>2, BalancesRest
  <1>3. CASE \E f \in FclaimIds, id \in OfferIds, E \in Expiries : applyFclaim(f, who, id, E)
    <2> PICK f \in FclaimIds, id \in OfferIds, E \in Expiries : applyFclaim(f, who, id, E)
      BY <1>3
    <2>1. UNCHANGED <<tokens, avail, locked, offerLock>>
      BY DEF applyFclaim, tokenVars
    <2>2. \A i \in OfferIds : /\ offers'[i].status = offers[i].status
                              /\ offers'[i].seller = offers[i].seller
                              /\ offers'[i].terms = offers[i].terms
      BY DEF applyFclaim, Types, OfferTypes, OfferRec
    <2>3. \A i \in OfferIds, t \in Tickers, a \in Addrs : Owed(i, t, a)' = Owed(i, t, a)
      BY <2>1, <2>2 DEF Owed, Open
    <2> QED BY <2>1, <2>3, BalancesRest
  <1> QED BY <1>1, <1>2, <1>3 DEF MarketRecord

LEMMA AttestBooks ==
  ASSUME Types, Types', Books, LocksNat, PartialBooks, NEW who \in Addrs, AttestEvent(who)
  PROVE  Books'
  <1>1. CASE \E target \in OfferIds \cup FclaimIds, pt \in PaidTo, txid \in AnchorIds :
               FillAttest(target, who, pt, txid)
    <2> PICK target \in OfferIds \cup FclaimIds, pt \in PaidTo, txid \in AnchorIds,
             id \in OfferIds :
               \/ applyTokenFill(id, who, txid)
               \/ applyPartialFill(id, who, target, pt)
               \/ applyFill(id, who, target, pt, txid)
      BY <1>1 DEF FillAttest, routedOffers
    <2> QED BY TokenFillBooks, PartialFillBooks, FillBooks
  <1>2. CASE \/ \E id \in OfferIds : applyCancel(id, who)
             \/ \E b \in BidIds : cancelBid(b, who)
    <2>1. UNCHANGED <<tokens, avail, locked, offers, offerLock>>
      BY <1>2 DEF applyCancel, cancelBid, tokenVars
    <2>2. \A i \in OfferIds, t \in Tickers, a \in Addrs : Owed(i, t, a)' = Owed(i, t, a)
      BY <2>1 DEF Owed, Open
    <2> QED BY <2>1, <2>2, BalancesRest
  <1>3. CASE \E id \in OfferIds : applyLegacyClaim(id, who)
    <2> PICK id \in OfferIds : applyLegacyClaim(id, who)
      BY <1>3
    <2>1. UNCHANGED <<tokens, avail, locked, offerLock>>
      BY DEF applyLegacyClaim, tokenVars
    <2>2. \A i \in OfferIds : /\ offers'[i].status = offers[i].status
                              /\ offers'[i].seller = offers[i].seller
                              /\ offers'[i].terms = offers[i].terms
      BY DEF applyLegacyClaim, Types, OfferTypes, OfferRec
    <2>3. \A i \in OfferIds, t \in Tickers, a \in Addrs : Owed(i, t, a)' = Owed(i, t, a)
      BY <2>1, <2>2 DEF Owed, Open
    <2> QED BY <2>1, <2>3, BalancesRest
  <1> QED BY <1>1, <1>2, <1>3 DEF AttestEvent

\* A name record ends only listings that give a name, which lock no token.
LEMMA NameBooks ==
  ASSUME Types, Types', Books, NEW who \in Addrs, NameRecord(who)
  PROVE  Books'
  <1>1. /\ UNCHANGED <<tokens, avail, locked, offerLock>>
        /\ offers' = offers \/ \E n \in Names : voidOpenNameOffers(n)
    BY NameRecordFrame DEF NameFrame, tokenVars
  <1>2. \A i \in OfferIds :
          \/ offers'[i] = offers[i]
          \/ /\ offers[i].terms.give.asset \in Names
             /\ offers'[i].terms.give.asset \in Names
    <2>1. \A i \in OfferIds : offers[i] \in OfferRec
      BY DEF Types, OfferTypes
    <2> QED BY <1>1, <2>1 DEF voidOpenNameOffers, openNameOffers, OfferRec
  <1>3. \A i \in OfferIds, t \in Tickers, a \in Addrs : Owed(i, t, a)' = Owed(i, t, a)
    BY <1>1, <1>2, SetsAssumption DEF Owed, Open
  <1> QED BY <1>1, <1>3, BalancesRest

LEMMA ReplayBooks ==
  ASSUME Types, Types', Books, LocksNat, ReplayLoop
  PROVE  Books'
  <1>1. CASE \E c \in pendingCancels : FlushCancel(c)
    <2> PICK c \in pendingCancels : FlushCancel(c)
      BY <1>1
    <2>1. c.offer \in OfferIds /\ UNCHANGED <<tokens, offerLock>>
      BY DEF FlushCancel, Types, MarketTypes
    <2>2. CASE UNCHANGED <<offers, avail, locked, names>>
      <3>1. \A i \in OfferIds, t \in Tickers, a \in Addrs : Owed(i, t, a)' = Owed(i, t, a)
        BY <2>1, <2>2 DEF Owed, Open
      <3> QED BY <2>1, <2>2, <3>1, BalancesRest
    <2>3. CASE /\ Open(c.offer) /\ releaseGive(c.offer)
               /\ setOfferStatus(c.offer, "cancelled")
      BY <2>1, <2>3, ReleaseBooks
    <2> QED BY <2>2, <2>3 DEF FlushCancel
  <1>2. CASE \E id \in OfferIds : ExpireOffer(id)
    <2> PICK id \in OfferIds : ExpireOffer(id)
      BY <1>2
    <2>1. /\ Open(id) /\ releaseGive(id) /\ setOfferStatus(id, "expired")
          /\ UNCHANGED <<tokens, offerLock>>
      BY DEF ExpireOffer, StaleOffers, Stale, Open
    <2> QED BY <2>1, ReleaseBooks
  <1>3. CASE \/ NextBlock
             \/ \E b \in BidIds : ExpireBid(b)
             \/ \E n \in Names : DropReservation(n)
             \/ \E n \in Names : DropRecapture(n)
    <2>1. UNCHANGED <<tokens, avail, locked, offers, offerLock>>
      BY <1>3 DEF NextBlock, ExpireBid, DropReservation, DropRecapture, tokenVars, marketVars
    <2>2. \A i \in OfferIds, t \in Tickers, a \in Addrs : Owed(i, t, a)' = Owed(i, t, a)
      BY <2>1 DEF Owed, Open
    <2> QED BY <2>1, <2>2, BalancesRest
  <1> QED BY <1>1, <1>2, <1>3 DEF ReplayLoop

\* What the books of whole and of partial offers say of the locks.
LEMMA LocksAreNat == Types /\ WholeBooks /\ PartialBooks => LocksNat
  <1> SUFFICES ASSUME Types, WholeBooks, PartialBooks, NEW i \in OfferIds, Open(i),
                      ~isNameGive(offers[i].terms.give)
               PROVE  offerLock[i] >= 0
    BY DEF LocksNat
  <1> DEFINE o == offers[i]
             give == o.terms.give.amount
             want == o.terms.want.amount
  <1>1. o.status = "open" /\ o \in OfferRec /\ OfferShape(o.terms)
    BY OfferParts DEF Types, Open
  <1>2. give \in Nat \ {0} /\ want \in Nat /\ o.paid \in Nat /\ o.terms.min \in Nat
    BY <1>1 DEF OfferShape, OfferRec
  <1>3. CASE o.terms.min = 0
    BY <1>2, <1>3 DEF WholeBooks
  <1>4. CASE o.terms.min # 0
    <2>1. offerLock[i] = give - ((give * o.paid) \div want) /\ o.paid < want
      BY <1>4 DEF PartialBooks, deliveredAfter
    <2> HIDE DEF o, give, want
    <2>2. give - ((give * o.paid) \div want) > 0
      BY <1>2, <2>1, RestIsLeft
    <2>3. offerLock[i] \in Int
      BY DEF Types, OfferTypes
    <2> QED BY <2>1, <2>2, <2>3
  <1> QED BY <1>3, <1>4

LEMMA StepBooks ==
  ASSUME Types, Types', WholeBooks, PartialBooks, Books, [Next]_vars
  PROVE  Books'
  <1>1. LocksNat
    BY LocksAreNat
  <1>2. CASE ReplayLoop
    BY <1>1, <1>2, ReplayBooks
  <1>3. CASE ProposeEvent
    BY <1>3, TokenBooks, MarketBooks, NameBooks DEF ProposeEvent
  <1>4. CASE AttestStep
    BY <1>1, <1>4, AttestBooks DEF AttestStep
  <1>5. CASE UNCHANGED vars
    <2>1. UNCHANGED <<tokens, avail, locked, offers, offerLock>>
      BY <1>5 DEF vars, tokenVars, marketVars
    <2>2. \A i \in OfferIds, t \in Tickers, a \in Addrs : Owed(i, t, a)' = Owed(i, t, a)
      BY <2>1 DEF Owed, Open
    <2> QED BY <2>1, <2>2, BalancesRest
  <1> QED BY <1>2, <1>3, <1>4, <1>5 DEF Next

\* Nothing is minted, held or owed before the first record.
LEMMA InitBooks == Init => Books
  <1> SUFFICES ASSUME Init PROVE Books
    OBVIOUS
  <1>1. \A t \in Tickers : /\ \A a \in Addrs : avail[t][a] = 0 /\ locked[t][a] = 0
                           /\ tokens[t].minted = 0
    BY DEF Init, NoToken
  <1>2. \A i \in OfferIds : ~Open(i)
    BY DEF Init, NoOffer, Open
  <1>3. ASSUME NEW t \in Tickers PROVE Held(t) = Minted(t)
    <2>1. SumOf(avail[t], Addrs) = 0 /\ SumOf(locked[t], Addrs) = 0
      BY <1>1, FiniteAssumption, SumZero
    <2> QED BY <1>1, <2>1 DEF Held, Minted
  <1>4. ASSUME NEW t \in Tickers, NEW a \in Addrs PROVE locked[t][a] = Owes(t, a)
    <2> DEFINE F == [i \in OfferIds |-> Owed(i, t, a)]
    <2>1. \A i \in OfferIds : F[i] = 0
      BY <1>2 DEF Owed
    <2> HIDE DEF F
    <2>2. SumOf(F, OfferIds) = 0
      BY <2>1, FiniteAssumption, SumZero
    <2> QED BY <1>1, <2>2 DEF Owes, F
  <1> QED BY <1>1, <1>3, <1>4 DEF Books, Balanced, Solvent, Exact, Unissued

LEMMA BooksInvariant == Spec => []Books
  <1>1. Types /\ Types' /\ WholeBooks /\ PartialBooks /\ Books /\ [Next]_vars => Books'
    BY StepBooks
  <1> QED BY <1>1, InitBooks, TypesInvariant, WholeBooksInvariant, PartialBooksInvariant, PTL DEF Spec

\* For any number of tickers, holders and offers: nothing is created or lost, by
\* no mint, transfer, sale, part of a sale, cancel or expiry, in whatever order.
THEOREM TokensAreConserved == Spec => []Conserved
  <1>1. Types /\ Books => Conserved
    <2> SUFFICES ASSUME Types, Books, NEW t \in Tickers
                 PROVE  /\ MapThenSumSet(LAMBDA a : avail[t][a] + locked[t][a], Addrs)
                             = tokens[t].minted
                        /\ tokens[t].minted <= tokens[t].supply
      BY DEF Conserved
    <2> DEFINE H == [a \in Addrs |-> avail[t][a] + locked[t][a]]
               A == avail[t]
               L == locked[t]
    <2>1. MapThenSumSet(LAMBDA a : avail[t][a] + locked[t][a], Addrs) = SumOf(H, Addrs)
      BY SumIsFold DEF MapThenSumSet, MapThenFoldSet, Fold, Unfolded, first
    <2>2. \A a \in Addrs : A[a] \in Int /\ L[a] \in Int /\ H[a] = A[a] + L[a]
      BY DEF Types, LedgerTypes
    <2>3. SumOf(A, Addrs) + SumOf(L, Addrs) = tokens[t].minted
      BY DEF Books, Balanced, Held, Minted
    <2> HIDE DEF H, A, L
    <2>4. SumOf(H, Addrs) = SumOf(A, Addrs) + SumOf(L, Addrs)
      BY <2>2, FiniteAssumption, SumPlus
    <2>5. tokens[t].minted <= tokens[t].supply
      BY DEF Types, LedgerTypes
    <2> QED BY <2>1, <2>3, <2>4, <2>5
  <1> QED BY <1>1, TypesInvariant, BooksInvariant, PTL

\* And no balance is negative, and what a seller has locked is what its open
\* offers owe: every way an offer ends releases its lock exactly once.
THEOREM LocksAreExact == Spec => []LockIntegrity
  <1>1. Types /\ Books => LockIntegrity
    <2> SUFFICES ASSUME Types, Books, NEW t \in Tickers, NEW a \in Addrs
                 PROVE  /\ avail[t][a] >= 0
                        /\ locked[t][a] = MapThenSumSet(LAMBDA i : offerLock[i],
                             {i \in OfferIds : /\ Open(i) /\ offers[i].seller = a
                                               /\ offers[i].terms.give.asset = t})
      BY DEF LockIntegrity
    <2> DEFINE P == {i \in OfferIds : /\ Open(i) /\ offers[i].seller = a
                                      /\ offers[i].terms.give.asset = t}
               G == [i \in OfferIds |-> Owed(i, t, a)]
    <2>1. /\ P \in SUBSET OfferIds
          /\ \A i \in P : offerLock[i] \in Int /\ G[i] = offerLock[i]
          /\ \A i \in OfferIds \ P : G[i] = 0
      BY DEF Owed, Types, OfferTypes
    <2>2. locked[t][a] = SumOf(G, OfferIds) /\ avail[t][a] >= 0
      BY DEF Books, Exact, Owes, Solvent
    <2> HIDE DEF P, G
    <2>3. SumOf(offerLock, P) = SumOf(G, OfferIds)
      BY <2>1, FiniteAssumption, SumPart
    <2>4. SumOf(offerLock, P) = MapThenSumSet(LAMBDA i : offerLock[i], P)
      BY DEF SumOf
    <2> QED BY <2>2, <2>3, <2>4 DEF P
  <1> QED BY <1>1, TypesInvariant, BooksInvariant, PTL
=============================================================================
