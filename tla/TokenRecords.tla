---------------------------- MODULE TokenRecords ----------------------------
(***************************************************************************)
(* The token records: deploy, mint, transfer and the issuer's metadata     *)
(* pointer (resolve/tokens.ts).                                            *)
(***************************************************************************)
EXTENDS ResolveContext

CONSTANTS Supplies,     \* supplies a deploy may declare
          MintLimits,   \* per-mint limits of an open mint; 0 = issuer mint
          Amounts       \* amounts a mint or a transfer may name

ASSUME TokenInputsAssumption ==
  /\ Supplies \subseteq Nat \ {0} /\ Amounts \subseteq Nat \ {0}
  /\ MintLimits \subseteq Nat

\* The parts of the state no token record touches.
TokenFrame == UNCHANGED <<marketVars, nameVars>>

tokenExists(t) == tokens[t].deployer # None

applyDeploy(t, who, supply, mintLimit, feeToTreasury) ==
  /\ ~tokenExists(t)
  /\ height >= V11_HEIGHT => feeToTreasury >= DEPLOY_FEE
  /\ tokens' = [tokens EXCEPT ![t] = [NoToken EXCEPT !.deployer = who,
                  !.supply = supply, !.mintLimit = mintLimit]]
  /\ feesPaid' = feesPaid + IF height >= V11_HEIGHT THEN DEPLOY_FEE ELSE 0
  /\ UNCHANGED <<avail, locked>> /\ TokenFrame

\* Mutant of mintCredit: the last mint is not cut to the remaining supply.
mintCreditUncut(tok, req) ==
  IF tok.mintLimit = 0 THEN req
  ELSE IF req = 0 THEN tok.mintLimit ELSE Smaller(req, tok.mintLimit)

\* What a mint asking for req (0: no amount named) is credited.
mintCredit(tok, req) ==
  Smaller(tok.supply - tok.minted,
          IF tok.mintLimit = 0 THEN req
          ELSE IF req = 0 THEN tok.mintLimit ELSE Smaller(req, tok.mintLimit))

applyMint(t, who, req) ==
  LET tok == tokens[t]
      credit == mintCredit(tok, req)
  IN /\ tokenExists(t)
     /\ tok.minted < tok.supply
     /\ tok.mintLimit = 0 => who = tok.deployer /\ req # 0
     /\ tokens' = [tokens EXCEPT ![t].minted = @ + credit]
     /\ avail' = addBal(avail, t, who, credit)
     /\ UNCHANGED <<locked, feesPaid>> /\ TokenFrame

applyTransfer(t, who, to, amount) ==
  /\ tokenExists(t)
  /\ avail[t][who] >= amount
  /\ avail' = addBal(addBal(avail, t, who, -amount), t, to, amount)
  /\ UNCHANGED <<tokens, locked, feesPaid>> /\ TokenFrame

applyTmeta(t, who, hash) ==
  /\ height >= V15_HEIGHT
  /\ tokenExists(t)
  /\ who = tokens[t].deployer
  /\ tokens' = [tokens EXCEPT ![t].tmeta = hash]
  /\ UNCHANGED <<avail, locked, feesPaid>> /\ TokenFrame

TokenRecord(who) ==
  \/ \E t \in Tickers, s \in Supplies, m \in MintLimits, fee \in Payments :
        applyDeploy(t, who, s, m, fee)
  \/ \E t \in Tickers, req \in Amounts \cup {0} : applyMint(t, who, req)
  \/ \E t \in Tickers, to \in Addrs, a \in Amounts : applyTransfer(t, who, to, a)
  \/ \E t \in Tickers, hash \in Contents : applyTmeta(t, who, hash)
=============================================================================
