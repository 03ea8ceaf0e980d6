-------------------------- MODULE LightClientProofs --------------------------
(***************************************************************************)
(* Theorems about the light client: its types, that only more work         *)
(* displaces a header, that a pin fixes all below it, that a node accepts  *)
(* all the client holds, that a proof of inclusion is of one chain, that a *)
(* restart rebuilds what was saved, and brings in nothing false.           *)
(***************************************************************************)
EXTENDS LightClientProperties, SequenceTheorems, WellFoundedInduction, TLAPS

-----------------------------------------------------------------------------
(* The inductive invariant.                                                *)

Entries == [hash : Headers, work : 0..MAX_U128, trusted : BOOLEAN]
Hashes == Headers \cup {NoHash}

Calls == [op : Ops, height : Nat, to : Nat, tip : Int, hash : Hashes, tipHash : Hashes]

Tasks == [kind : {"none", "sync", "seed", "reorg", "boot"},
          caller : Callers \cup {Nobody}, rows : Seq(Headers), anc : Nat,
          window : Seq(Headers), verified : Seq(Entries)]

Files == [format : {"none", "snapshot", "records"}, base : 0..MaxHeight,
          rows : Seq(Entries)]

Types ==
  /\ chain \in Seq(Entries) /\ baseHeight \in 0..MaxHeight
  /\ calls \in [Callers -> Calls] /\ clock \in Clocks
  /\ task \in Tasks /\ file \in Files

\* A seed starts no higher than the checkpoint it is for.
SeedSpans == \A c \in Callers : calls[c].op = "seed" => calls[c].height <= MaxHeight

\* A loop has something left to do, on a chain that is there.
Looping ==
  /\ task.kind \in {"sync", "seed"} => task.rows # <<>> /\ task.caller \in Callers
  /\ task.kind = "sync" => Syncing(task.caller)
  /\ task.kind = "reorg" => /\ holds(task.anc)
                            /\ task.rows # <<>> \/ task.verified # <<>>
  /\ task.kind = "boot" => Len(chain) < Len(file.rows) /\ baseHeight = file.base
  /\ file.format # "none" => file.rows # <<>>

linked(s) == \A i \in 2..Len(s) : PrevOf[s[i].hash] = s[i - 1].hash

Linked == linked(chain)
Pinned == \A i \in 1..Len(chain) : pinCheckpoint(baseHeight + i - 1, chain[i].hash)

\* What a reorg has verified so far hangs on its ancestor and honours the pins.
Branch ==
  task.kind = "reorg" =>
    /\ linked(task.verified)
    /\ task.verified # <<>> => PrevOf[task.verified[1].hash] = hashAt(task.anc)
    /\ \A i \in 1..Len(task.verified) :
         pinCheckpoint(task.anc + i, task.verified[i].hash)

\* The chain the reorg under way would adopt.
candidate == SubSeq(chain, 1, task.anc - baseHeight + 1) \o task.verified

IInv == Types /\ SeedSpans /\ Looping /\ Linked /\ Pinned /\ Branch

-----------------------------------------------------------------------------
(* How a step moves the chain.                                             *)

Rests == chain' = chain /\ baseHeight' = baseHeight
Empties == chain' = <<>>

\* One header more, linked to the last and honouring its pin.
Grows ==
  /\ baseHeight' = baseHeight
  /\ \E h \in PowOk, trusted \in BOOLEAN :
       /\ Append1(h, trusted)
       /\ pinCheckpoint(nextHeight, h)
       /\ chain # <<>> => PrevOf[h] = LastOf(chain).hash

\* A heavier branch in place of what was above its ancestor.
Regrows ==
  /\ baseHeight' = baseHeight
  /\ task.kind = "reorg" /\ task.rows = <<>>
  /\ outweighs(LastOf(task.verified).work)
  /\ chain' = candidate

Moves == Rests \/ Empties \/ Grows \/ Regrows

-----------------------------------------------------------------------------
(* Facts about the operators.                                              *)

LEMMA LeastNat ==
  ASSUME NEW T \in SUBSET Nat, T # {}
  PROVE  \E m \in T : \A n \in T : m <= n
  <1> DEFINE R == OpToRel(<, Nat)
  <1>1. IsWellFoundedOn(R, Nat)
    BY NatLessThanWellFounded
  <1>2. PICK m \in T : \A n \in T : ~(<<n, m>> \in R)
    BY <1>1, WFMin
  <1>3. \A n \in T : ~(n < m)
    BY <1>2 DEF OpToRel
  <1> QED BY <1>3

\* Cumulative work stays in its width.
LEMMA WorkInWidth ==
  ASSUME NEW w \in 0..MAX_U128, NEW h \in PowOk
  PROVE  satAddWork(w, h) \in 0..MAX_U128
  <1>1. BitsOf[h] \in 1..POW_LIMIT /\ MAX_U128 \in Nat /\ POW_LIMIT \in Nat
    BY HeaderAssumption
  <1>2. WorkOf[BitsOf[h]] \in Nat
    BY <1>1, HeaderAssumption
  <1> QED BY <1>1, <1>2 DEF satAddWork, AtMost

LEMMA ChainArithmetic ==
  ASSUME Types
  PROVE  /\ Len(chain) \in Nat /\ nextHeight \in Nat /\ tipHeight \in Int
         /\ chain # <<>> <=> Len(chain) > 0
         /\ chainwork \in 0..MAX_U128
         /\ \A height \in Int : hashAt(height) \in Hashes
         /\ chain # <<>> => /\ holds(tipHeight) /\ at(tipHeight) = LastOf(chain)
                            /\ LastOf(chain) \in Entries
         /\ \A height \in Int : holds(height) =>
              height - baseHeight + 1 \in 1..Len(chain) /\ at(height) \in Entries
  <1>1. Len(chain) \in Nat /\ baseHeight \in Nat /\ MAX_U128 \in Nat
    BY HeaderAssumption, LenProperties, ClientAssumption DEF Types
  <1>2. chain # <<>> <=> Len(chain) > 0
    BY EmptySeq, <1>1 DEF Types
  <1>3. \A height \in Int : holds(height) =>
          height - baseHeight + 1 \in 1..Len(chain) /\ at(height) \in Entries
    BY <1>1, ElementOfSeq DEF holds, nextHeight, at, Types
  <1>4. chain # <<>> => /\ holds(tipHeight) /\ at(tipHeight) = LastOf(chain)
                        /\ LastOf(chain) \in Entries
    BY <1>1, <1>2, ElementOfSeq DEF holds, nextHeight, tipHeight, at, LastOf, Types
  <1>5. nextHeight \in Nat /\ tipHeight \in Int
    BY <1>1 DEF nextHeight, tipHeight
  <1>6. \A height \in Int : hashAt(height) \in Hashes
    BY <1>3 DEF hashAt, Hashes, Entries
  <1>7. chainwork \in 0..MAX_U128
    BY <1>1, <1>3, <1>5 DEF chainwork, workAt, Entries
  <1> QED BY <1>1, <1>2, <1>3, <1>4, <1>5, <1>6, <1>7

\* What is verified is linked, hashes below its target and honours the pins.
LEMMA Verified ==
  ASSUME NEW height \in Nat, NEW h, NEW window, NEW parent, NEW now,
         verifyOne(height, h, window, parent, now)
  PROVE  /\ h \in PowOk /\ pinCheckpoint(height, h)
         /\ height # 0 => PrevOf[h] = parent
  BY DEF verifyOne

LEMMA Ingested ==
  ASSUME Types, NEW h, ingestable(nextHeight, h)
  PROVE  /\ h \in PowOk /\ pinCheckpoint(nextHeight, h)
         /\ chain # <<>> => PrevOf[h] = LastOf(chain).hash
  <1>1. /\ h \in PowOk /\ pinCheckpoint(nextHeight, h)
        /\ nextHeight # 0 => PrevOf[h] = hashAt(tipHeight)
    BY ChainArithmetic, Verified DEF ingestable, tipHeight
  <1>2. chain # <<>> => nextHeight # 0 /\ hashAt(tipHeight) = LastOf(chain).hash
    BY ChainArithmetic DEF nextHeight, hashAt, Types
  <1> QED BY <1>1, <1>2

LEMMA Seeded ==
  ASSUME NEW height, NEW h, seedable(height, h)
  PROVE  /\ h \in PowOk /\ pinCheckpoint(height, h)
         /\ chain # <<>> => PrevOf[h] = LastOf(chain).hash
  BY DEF seedable

LEMMA Booted ==
  ASSUME Types, bootable
  PROVE  /\ storedRow.hash \in PowOk /\ pinCheckpoint(nextHeight, storedRow.hash)
         /\ chain # <<>> => PrevOf[storedRow.hash] = LastOf(chain).hash
  <1>1. CASE restorable(nextHeight, storedRow)
    BY <1>1 DEF restorable
  <1>2. CASE seedable(nextHeight, storedRow.hash)
    BY <1>2, Seeded
  <1>3. CASE ingestable(nextHeight, storedRow.hash)
    BY <1>3, Ingested
  <1> QED BY <1>1, <1>2, <1>3 DEF bootable

\* The row a boot is at is one of the file.
LEMMA StoredRow ==
  ASSUME Types, Looping, task.kind = "boot"
  PROVE  storedRow \in Entries
  <1>1. Len(chain) + 1 \in 1..Len(file.rows) /\ file.rows \in Seq(Entries)
    BY ChainArithmetic, LenProperties DEF Looping, Types, Files
  <1> QED BY <1>1, ElementOfSeq DEF storedRow

\* The header a loop is at is one of the headers there are.
LEMMA NextRow ==
  ASSUME Types, task.rows # <<>>
  PROVE  /\ Head(task.rows) \in Headers /\ Tail(task.rows) \in Seq(Headers)
         /\ Len(task.rows) # 1 => Tail(task.rows) # <<>>
  <1>1. task.rows \in Seq(Headers)
    BY DEF Types, Tasks
  <1>2. /\ Head(task.rows) \in Headers /\ Tail(task.rows) \in Seq(Headers)
        /\ Len(Tail(task.rows)) = Len(task.rows) - 1 /\ Len(task.rows) \in Nat
    BY <1>1, HeadTailProperties, LenProperties
  <1>3. ASSUME Tail(task.rows) = <<>> PROVE Len(task.rows) = 1
    <2>1. Len(Tail(task.rows)) = 0
      BY <1>3, EmptySeq, Zenon
    <2> QED BY <1>2, <2>1
  <1> QED BY <1>2, <1>3

\* Every step moves the chain in one of four ways.
LEMMA StepMoves ==
  ASSUME IInv, [Next]_vars
  PROVE  Moves
  <1> USE DEF IInv
  <1>1. CASE UNCHANGED vars
    BY <1>1 DEF vars, Moves, Rests
  <1>2. CASE UNCHANGED clientVars
    BY <1>2 DEF clientVars, Moves, Rests
  <1>3. CASE SyncRow
    <2>1. CASE ingestable(calls[task.caller].height, Head(task.rows))
      <3>1. calls[task.caller].height = nextHeight
        BY <2>1 DEF ingestable
      <3>2. Grows
        BY <1>3, <2>1, <3>1, Ingested DEF SyncRow, Grows
      <3> QED BY <3>2 DEF Moves
    <2>2. CASE ~ingestable(calls[task.caller].height, Head(task.rows))
      BY <1>3, <2>2 DEF SyncRow, SyncThrows, Moves, Rests
    <2> QED BY <2>1, <2>2
  <1>4. CASE SeedRow
    <2>1. CASE seedable(nextHeight, Head(task.rows))
      <3>1. Grows
        BY <1>4, <2>1, Seeded DEF SeedRow, Grows
      <3> QED BY <3>1 DEF Moves
    <2>2. CASE ~seedable(nextHeight, Head(task.rows))
      BY <1>4, <2>2 DEF SeedRow, Moves, Rests
    <2> QED BY <2>1, <2>2
  <1>5. CASE BootRow
    <2>1. CASE bootable
      <3>1. storedRow.trusted \in BOOLEAN
        BY <1>5, StoredRow DEF BootRow, Entries
      <3>2. (storedRow.trusted \/ seeding) \in BOOLEAN
        BY <3>1
      <3>3. Append1(storedRow.hash, storedRow.trusted \/ seeding)
             /\ baseHeight' = baseHeight
        BY <1>5, <2>1 DEF BootRow
      <3>4. Grows
        BY <2>1, <3>2, <3>3, Booted DEF Grows
      <3> QED BY <3>4 DEF Moves
    <2>2. CASE ~bootable
      BY <1>5, <2>2 DEF BootRow, Fresh, clientVars, Moves, Rests, Empties
    <2> QED BY <2>1, <2>2
  <1>6. CASE ReorgDecide
    <2>1. CASE outweighs(LastOf(task.verified).work)
      <3>1. Regrows
        BY <1>6, <2>1 DEF ReorgDecide, Regrows, candidate
      <3> QED BY <3>1 DEF Moves
    <2>2. CASE ~outweighs(LastOf(task.verified).work)
      BY <1>6, <2>2 DEF ReorgDecide, Moves, Rests
    <2> QED BY <2>1, <2>2
  <1>7. CASE chain' = <<>>
    BY <1>7 DEF Moves, Empties
  <1>8. Next => \/ UNCHANGED clientVars \/ chain' = <<>>
                \/ SyncRow \/ SeedRow \/ BootRow \/ ReorgDecide
    BY DEF Next, SyncCall, SyncAnswer, SeedAnswer, SeedCall, SyncFails, SeedFails,
           TxCall, TxAnswer, TxSynced, TxEnds, TxBlock, ReorgCall, ReorgRow,
           SaveSnapshot, SaveRecords, Restart, Boot, Fresh, Tick, clientVars
  <1> QED BY <1>1, <1>2, <1>3, <1>4, <1>5, <1>6, <1>7, <1>8

-----------------------------------------------------------------------------
(* What the moves keep.                                                    *)

\* A grown chain is the old one and its new entry.
LEMMA Grown ==
  ASSUME Types, NEW h \in PowOk, NEW trusted \in BOOLEAN, Append1(h, trusted)
  PROVE  /\ chain' \in Seq(Entries) /\ Len(chain') = Len(chain) + 1
         /\ \A i \in 1..Len(chain) : chain'[i] = chain[i]
         /\ chain'[Len(chain) + 1].hash = h
  <1> DEFINE e == Entry(h, satAddWork(chainwork, h), trusted)
  <1>1. e \in Entries /\ e.hash = h
    BY ChainArithmetic, WorkInWidth, HeaderAssumption DEF Entry, Entries
  <1> HIDE DEF e
  <1>2. chain' = Append(chain, e)
    BY DEF Append1, e
  <1> QED BY <1>1, <1>2, AppendProperties DEF Types

\* The chain a reorg would adopt is the old one up to the ancestor and what is
\* verified above it, linked.
LEMMA CandidateIs ==
  ASSUME IInv, task.kind = "reorg"
  PROVE  LET k == task.anc - baseHeight + 1
             n == Len(task.verified)
         IN /\ k \in 1..Len(chain) /\ n \in Nat
            /\ chain[k].hash = hashAt(task.anc)
            /\ candidate \in Seq(Entries) /\ Len(candidate) = k + n
            /\ \A i \in 1..k : candidate[i] = chain[i]
            /\ \A i \in (k + 1)..(k + n) : candidate[i] = task.verified[i - k]
            /\ linked(candidate)
  <1> DEFINE k == task.anc - baseHeight + 1
             n == Len(task.verified)
             below == SubSeq(chain, 1, k)
  <1>1. /\ task.verified \in Seq(Entries) /\ task.anc \in Nat /\ baseHeight \in Nat
        /\ chain \in Seq(Entries) /\ holds(task.anc)
    BY ClientAssumption DEF IInv, Types, Tasks, Looping
  <1>2. n \in Nat /\ Len(chain) \in Nat /\ k \in Int
    BY <1>1, LenProperties
  <1>3. k \in 1..Len(chain) /\ chain[k].hash = hashAt(task.anc)
    BY <1>1, <1>2 DEF holds, nextHeight, hashAt, at
  <1>4. \A i \in 1..k : chain[i] \in Entries
    BY <1>1, <1>3, ElementOfSeq
  <1>5. /\ below \in Seq(Entries) /\ Len(below) = k
        /\ \A i \in 1..k : below[i] = chain[i]
    BY <1>2, <1>3, <1>4, SubSeqProperties
  <1>6. candidate = below \o task.verified
    BY DEF candidate
  <1> HIDE DEF below
  <1>7. /\ candidate \in Seq(Entries) /\ Len(candidate) = k + n
        /\ \A i \in 1..(k + n) :
             candidate[i] = IF i <= k THEN below[i] ELSE task.verified[i - k]
    <2>1. /\ candidate \in Seq(Entries) /\ Len(candidate) = Len(below) + n
          /\ \A i \in 1..(Len(below) + n) :
               candidate[i] = IF i <= Len(below) THEN below[i]
                              ELSE task.verified[i - Len(below)]
      BY <1>1, <1>5, <1>6, ConcatProperties, Zenon
    <2>2. Len(below) = k
      BY <1>5
    <2> QED BY <2>1, <2>2, Zenon
  <1> HIDE DEF k, n
  <1>8. ASSUME NEW i \in 1..k PROVE candidate[i] = chain[i]
    <2>1. i \in 1..(k + n) /\ i <= k
      BY <1>2, <1>3
    <2> QED BY <1>5, <1>7, <2>1
  <1>9. ASSUME NEW i \in (k + 1)..(k + n) PROVE candidate[i] = task.verified[i - k]
    <2>1. i \in 1..(k + n) /\ ~(i <= k)
      BY <1>2, <1>3
    <2> QED BY <1>7, <2>1
  <1>10. linked(candidate)
    <2>0. /\ linked(task.verified)
          /\ task.verified # <<>> => PrevOf[task.verified[1].hash] = hashAt(task.anc)
      BY DEF IInv, Branch
    <2> SUFFICES ASSUME NEW i \in 2..(k + n)
                 PROVE  PrevOf[candidate[i].hash] = candidate[i - 1].hash
      BY <1>7 DEF linked
    <2>1. CASE i <= k
      <3>1. i \in 2..Len(chain) /\ i \in 1..k /\ i - 1 \in 1..k
        BY <1>2, <1>3, <2>1
      <3> QED BY <1>8, <3>1 DEF IInv, Linked, linked
    <2>2. CASE i = k + 1
      <3>1. /\ i \in (k + 1)..(k + n) /\ i - k = 1 /\ i - 1 = k /\ k \in 1..k /\ n # 0
        BY <1>2, <1>3, <2>2
      <3>2. task.verified # <<>>
        BY <1>1, <3>1, EmptySeq DEF n
      <3> QED BY <1>3, <1>8, <1>9, <2>0, <3>1, <3>2
    <2>3. CASE i > k + 1
      <3>1. /\ i \in (k + 1)..(k + n) /\ i - 1 \in (k + 1)..(k + n)
            /\ (i - 1) - k = (i - k) - 1 /\ i - k \in 2..n
        BY <1>2, <1>3, <2>3
      <3> QED BY <1>9, <2>0, <3>1 DEF linked, n
    <2> QED BY <1>2, <1>3, <2>1, <2>2, <2>3
  <1> QED BY <1>2, <1>3, <1>7, <1>8, <1>9, <1>10 DEF k, n

\* A regrown chain ends in what was verified.
LEMMA Regrown ==
  ASSUME IInv, Regrows
  PROVE  LET k == task.anc - baseHeight + 1
             n == Len(task.verified)
         IN /\ k \in 1..Len(chain) /\ n \in Nat \ {0} /\ Len(chain') = k + n
            /\ chain'[k + n] = LastOf(task.verified)
  <1> DEFINE k == task.anc - baseHeight + 1
             n == Len(task.verified)
  <1>1. /\ chain' = candidate /\ task.kind = "reorg"
        /\ task.verified # <<>> /\ task.verified \in Seq(Entries)
    BY DEF Regrows, IInv, Types, Tasks, Looping
  <1>2. /\ k \in 1..Len(chain) /\ n \in Nat /\ Len(candidate) = k + n
        /\ \A i \in (k + 1)..(k + n) : candidate[i] = task.verified[i - k]
    BY <1>1, CandidateIs
  <1>3. n # 0
    BY <1>1, EmptySeq
  <1> HIDE DEF k, n
  <1>4. k \in Nat
    BY <1>2
  <1>5. k + n \in (k + 1)..(k + n) /\ (k + n) - k = n
    BY <1>2, <1>3, <1>4
  <1>6. candidate[k + n] = LastOf(task.verified)
    BY <1>2, <1>5 DEF LastOf, n
  <1> QED BY <1>1, <1>2, <1>3, <1>6 DEF k, n

LEMMA MovesKeepChain ==
  ASSUME IInv, Moves
  PROVE  chain' \in Seq(Entries) /\ Linked' /\ Pinned'
  <1>0. /\ chain \in Seq(Entries) /\ Len(chain) \in Nat /\ baseHeight \in Nat
    BY ClientAssumption, LenProperties DEF IInv, Types
  <1>1. CASE Rests
    BY <1>1 DEF Rests, IInv, Types, Linked, Pinned, linked
  <1>2. CASE Empties
    BY <1>2, EmptySeq DEF Empties, Linked, Pinned, linked
  <1>3. CASE Grows
    <2>1. PICK h \in PowOk, trusted \in BOOLEAN :
            /\ Append1(h, trusted)
            /\ pinCheckpoint(nextHeight, h)
            /\ chain # <<>> => PrevOf[h] = LastOf(chain).hash
      BY <1>3 DEF Grows
    <2>2. /\ chain' \in Seq(Entries) /\ Len(chain') = Len(chain) + 1
          /\ \A i \in 1..Len(chain) : chain'[i] = chain[i]
          /\ chain'[Len(chain) + 1].hash = h
      BY <2>1, Grown DEF IInv
    <2>3. Linked'
      <3> SUFFICES ASSUME NEW i \in 2..Len(chain')
                   PROVE  PrevOf[chain'[i].hash] = chain'[i - 1].hash
        BY DEF Linked, linked
      <3>1. CASE i <= Len(chain)
        <4>1. i \in 2..Len(chain) /\ i \in 1..Len(chain) /\ i - 1 \in 1..Len(chain)
          BY <1>0, <2>2, <3>1
        <4> QED BY <2>2, <4>1 DEF IInv, Linked, linked
      <3>2. CASE i = Len(chain) + 1
        <4>1. chain # <<>> /\ i - 1 = Len(chain) /\ Len(chain) \in 1..Len(chain)
          BY <1>0, <2>2, <3>2, EmptySeq
        <4> QED BY <2>1, <2>2, <3>2, <4>1 DEF LastOf
      <3> QED BY <1>0, <2>2, <3>1, <3>2
    <2>4. Pinned'
      <3> SUFFICES ASSUME NEW i \in 1..Len(chain')
                   PROVE  pinCheckpoint(baseHeight + i - 1, chain'[i].hash)
        BY <1>3 DEF Pinned, Grows, pinCheckpoint
      <3>1. CASE i <= Len(chain)
        BY <1>0, <2>2, <3>1 DEF IInv, Pinned
      <3>2. CASE i = Len(chain) + 1
        <4>1. baseHeight + i - 1 = nextHeight
          BY <1>0, <3>2 DEF nextHeight
        <4> QED BY <2>1, <2>2, <3>2, <4>1
      <3> QED BY <1>0, <2>2, <3>1, <3>2
    <2> QED BY <2>2, <2>3, <2>4
  <1>4. CASE Regrows
    <2> DEFINE k == task.anc - baseHeight + 1
               n == Len(task.verified)
    <2>1. /\ k \in 1..Len(chain) /\ n \in Nat
          /\ candidate \in Seq(Entries) /\ Len(candidate) = k + n
          /\ \A i \in 1..k : candidate[i] = chain[i]
          /\ \A i \in (k + 1)..(k + n) : candidate[i] = task.verified[i - k]
          /\ linked(candidate)
      BY <1>4, CandidateIs DEF Regrows
    <2>2. /\ chain' = candidate /\ task.anc \in Nat
          /\ \A i \in 1..n : pinCheckpoint(task.anc + i, task.verified[i].hash)
      BY <1>4 DEF IInv, Types, Tasks, Branch, Regrows
    <2>3. task.anc = baseHeight + k - 1
      BY <1>0, <2>2
    <2> HIDE DEF k, n
    <2>4. Linked'
      BY <2>1, <2>2 DEF Linked, linked
    <2>5. Pinned'
      <3> SUFFICES ASSUME NEW i \in 1..(k + n)
                   PROVE  pinCheckpoint(baseHeight + i - 1, chain'[i].hash)
        BY <1>4, <2>1, <2>2 DEF Pinned, Regrows, pinCheckpoint
      <3>1. CASE i <= k
        <4>1. i \in 1..Len(chain) /\ i \in 1..k
          BY <1>0, <2>1, <3>1
        <4> QED BY <2>1, <2>2, <4>1 DEF IInv, Pinned
      <3>2. CASE i > k
        <4>1. /\ i \in (k + 1)..(k + n) /\ i - k \in 1..n
              /\ baseHeight + i - 1 = task.anc + (i - k)
          BY <1>0, <2>1, <2>2, <2>3, <3>2
        <4> QED BY <2>1, <2>2, <4>1
      <3> QED BY <2>1, <3>1, <3>2
    <2> QED BY <2>1, <2>2, <2>4, <2>5
  <1> QED BY <1>1, <1>2, <1>3, <1>4 DEF Moves

-----------------------------------------------------------------------------
(* Calls and loops.                                                        *)

CallsOK == calls \in [Callers -> Calls] /\ SeedSpans

\* A call that starts, or gives up, keeps the calls well formed.
LEMMA SetCall ==
  ASSUME CallsOK, NEW c \in Callers, NEW call \in Calls,
         call.op = "seed" => call.height <= MaxHeight,
         calls' = [calls EXCEPT ![c] = call]
  PROVE  CallsOK'
  BY DEF CallsOK, SeedSpans

LEMMA IdleCall == Idle \in Calls /\ Idle.op # "seed"
  BY DEF Idle, Calls, Ops, Hashes

LEMMA SyncCalls ==
  ASSUME IInv, NEW c \in Callers,
         \/ \E to \in SyncTargets : SyncCall(c, to)
         \/ SyncFails(c) \/ SeedFails(c) \/ TxEnds(c) \/ TxCall(c)
         \/ \E p \in SeedPoints : SeedCall(c, p)
  PROVE  CallsOK'
  <1>0. CallsOK /\ nextHeight \in Nat
    BY ChainArithmetic DEF IInv, Types, CallsOK
  <1>1. CASE SyncFails(c) \/ SeedFails(c) \/ TxEnds(c)
    BY <1>0, <1>1, IdleCall, SetCall DEF SyncFails, SeedFails, TxEnds, EndCall
  <1>2. CASE TxCall(c)
    <2>1. [Idle EXCEPT !.op = "tx"] \in Calls /\ [Idle EXCEPT !.op = "tx"].op # "seed"
      BY DEF Idle, Calls, Ops, Hashes
    <2> QED BY <1>0, <1>2, <2>1, SetCall DEF TxCall
  <1>3. CASE \E to \in SyncTargets : SyncCall(c, to)
    <2> PICK to \in SyncTargets : SyncCall(c, to)
      BY <1>3
    <2> DEFINE call == [Idle EXCEPT !.op = "sync", !.height = nextHeight, !.to = to]
    <2>1. to \in Nat
      BY ClientAssumption
    <2>2. call \in Calls /\ call.op # "seed"
      BY <1>0, <2>1, IdleCall DEF Calls, Ops
    <2> QED BY <1>0, <2>2, SetCall DEF SyncCall
  <1>4. CASE \E p \in SeedPoints : SeedCall(c, p)
    <2> PICK p \in SeedPoints : SeedCall(c, p)
      BY <1>4
    <2> DEFINE start == AtLeast(0, p.height - AtMost(p.context, LWMA_WINDOW))
               call == [Idle EXCEPT !.op = "seed", !.to = p.height, !.height = start]
    <2>1. p.height \in 0..MaxHeight /\ p.context \in Nat /\ LWMA_WINDOW \in Nat
          /\ MaxHeight \in Nat
      BY ClientAssumption, HeaderAssumption
    <2>2. start \in Nat /\ start <= MaxHeight
      BY <2>1 DEF AtLeast, AtMost
    <2> HIDE DEF start
    <2>3. p.height \in Nat /\ "seed" \in Ops
      BY <2>1 DEF Ops
    <2>4. call \in Calls
      BY <2>2, <2>3, IdleCall DEF Calls
    <2>5. call.height = start
      BY IdleCall DEF Calls
    <2> HIDE DEF call
    <2>6. calls' = [calls EXCEPT ![c] = call]
      BY DEF SeedCall, call, start
    <2> QED BY <1>0, <2>2, <2>4, <2>5, <2>6, SetCall
  <1> QED BY <1>1, <1>2, <1>3, <1>4

\* The state of an inclusion check after it read the header and the tip.
LEMMA CapturedCall ==
  ASSUME IInv, NEW call \in Calls, NEW height \in Nat
  PROVE  Captured(call, height) \in Calls /\ Captured(call, height).op # "seed"
  <1>1. hashAt(height) \in Hashes /\ hashAt(tipHeight) \in Hashes /\ tipHeight \in Int
    BY ChainArithmetic DEF IInv
  <1> QED BY <1>1 DEF Captured, Calls, Ops

LEMMA TxCalls ==
  ASSUME IInv, NEW c \in Callers,
         \/ \E height \in TxHeights : TxAnswer(c, height)
         \/ TxSynced(c)
         \/ \E body \in Headers : TxBlock(c, body)
  PROVE  CallsOK'
  <1>0. /\ CallsOK /\ nextHeight \in Nat /\ tipHeight \in Int
        /\ calls[c] \in Calls
    BY ChainArithmetic DEF IInv, Types, CallsOK
  <1>1. CASE \E height \in TxHeights : TxAnswer(c, height)
    <2> PICK height \in TxHeights : TxAnswer(c, height)
      BY <1>1
    <2> DEFINE wait == [calls[c] EXCEPT !.op = "txSync", !.height = nextHeight,
                                        !.to = height, !.tip = tipHeight]
               call == IF height > tipHeight THEN wait ELSE Captured(calls[c], height)
    <2>1. height \in Nat
      BY ClientAssumption
    <2>2. wait \in Calls /\ wait.op # "seed"
      BY <1>0, <2>1 DEF Calls, Ops
    <2>3. call \in Calls /\ call.op # "seed"
      BY <1>0, <2>1, <2>2, CapturedCall
    <2>4. calls' = [calls EXCEPT ![c] = call]
      BY <1>0 DEF TxAnswer, CallsOK
    <2> HIDE DEF call
    <2> QED BY <1>0, <2>3, <2>4, SetCall
  <1>2. CASE TxSynced(c)
    <2> DEFINE call == IF holds(calls[c].to) THEN Captured(calls[c], calls[c].to) ELSE Idle
    <2>1. calls[c].to \in Nat
      BY <1>0 DEF Calls
    <2>2. call \in Calls /\ call.op # "seed"
      BY <1>0, <2>1, CapturedCall, IdleCall
    <2>3. calls' = [calls EXCEPT ![c] = call]
      BY <1>0, <1>2 DEF TxSynced, CallsOK
    <2> HIDE DEF call
    <2> QED BY <1>0, <2>2, <2>3, SetCall
  <1>3. CASE \E body \in Headers : TxBlock(c, body)
    <2> PICK body \in Headers : TxBlock(c, body)
      BY <1>3
    <2> DEFINE proof == [calls[c] EXCEPT !.op = "proven", !.hash = body]
               call == IF bound(calls[c], body) THEN proof ELSE Idle
    <2>1. proof \in Calls /\ proof.op # "seed"
      BY <1>0 DEF Calls, Ops, Hashes
    <2>2. call \in Calls /\ call.op # "seed"
      BY <2>1, IdleCall
    <2>3. calls' = [calls EXCEPT ![c] = call]
      BY <1>0 DEF TxBlock, CallsOK
    <2> HIDE DEF call
    <2> QED BY <1>0, <2>2, <2>3, SetCall
  <1> QED BY <1>1, <1>2, <1>3

LEMMA RowCalls ==
  ASSUME IInv, SyncRow \/ SeedRow
  PROVE  CallsOK'
  <1> DEFINE c == task.caller
  <1>0. CallsOK
    BY DEF IInv, Types, CallsOK
  <1>1. task.kind \in {"sync", "seed"} /\ c \in Callers /\ calls[c] \in Calls
    BY DEF IInv, Looping, SyncRow, SeedRow, Types
  <1>2. CASE UNCHANGED calls
    BY <1>0, <1>2 DEF CallsOK, SeedSpans
  <1>3. CASE EndCall(c)
    BY <1>0, <1>1, <1>3, IdleCall, SetCall DEF EndCall
  <1>4. CASE SyncRow /\ ingestable(calls[c].height, Head(task.rows))
    <2> DEFINE next == [calls[c] EXCEPT !.height = calls[c].height + 1]
               synced == [calls[c] EXCEPT !.op = "txSynced"]
               done == IF calls[c].op = "sync" THEN Idle ELSE synced
    <2>1. synced \in Calls /\ synced.op # "seed"
      BY <1>1 DEF Calls, Ops
    <2>2. done \in Calls /\ done.op # "seed"
      BY <2>1, IdleCall
    <2>3. next \in Calls /\ next.op # "seed"
      BY <1>1, <1>4 DEF Calls, IInv, Looping, SyncRow, Syncing
    <2>4. \/ calls' = [calls EXCEPT ![c] = done]
          \/ calls' = [calls EXCEPT ![c] = next]
      BY <1>0, <1>1, <1>4 DEF SyncRow, CallsOK
    <2> HIDE DEF done, next
    <2> QED BY <1>0, <1>1, <2>2, <2>3, <2>4, SetCall
  <1> QED BY <1>2, <1>3, <1>4 DEF SyncRow, SyncThrows, SeedRow

LEMMA NoTaskType == NoTask \in Tasks /\ NoTask.kind = "none"
  BY EmptySeq DEF NoTask, Tasks

\* Headers served are a run, and never an empty one.
LEMMA ServedRows ==
  ASSUME NEW rows \in Served
  PROVE  rows \in Seq(Headers) /\ rows # <<>>
  BY ClientAssumption

LEMMA LastNType ==
  ASSUME NEW s \in Seq(Headers), NEW n \in Nat
  PROVE  LastN(s, n) \in Seq(Headers)
  <1> DEFINE m == AtLeast(1, Len(s) - n + 1)
  <1>1. Len(s) \in Nat
    BY LenProperties
  <1>2. m \in Int /\ m >= 1
    BY <1>1 DEF AtLeast
  <1> HIDE DEF m
  <1>3. \A i \in m..Len(s) : s[i] \in Headers
    BY <1>1, <1>2, ElementOfSeq
  <1>4. SubSeq(s, m, Len(s)) \in Seq(Headers)
    BY <1>1, <1>2, <1>3, SubSeqProperties
  <1> QED BY <1>4 DEF LastN, m

LEMMA WindowType ==
  ASSUME IInv, NEW height \in Nat, height <= nextHeight
  PROVE  windowBefore(height) \in Seq(Headers)
  <1> DEFINE m == AtLeast(1, height - baseHeight - LWMA_WINDOW + 1)
             n == height - baseHeight
             w == SubSeq(chain, m, n)
  <1>1. /\ Len(chain) \in Nat /\ baseHeight \in Nat /\ LWMA_WINDOW \in Nat
        /\ chain \in Seq(Entries)
    BY ClientAssumption, HeaderAssumption, LenProperties DEF IInv, Types
  <1>2. m \in Int /\ m >= 1 /\ n \in Int /\ n <= Len(chain)
    BY <1>1 DEF AtLeast, nextHeight
  <1> HIDE DEF m, n
  <1>3. \A i \in m..n : chain[i] \in Entries
    BY <1>1, <1>2, ElementOfSeq
  <1>4. w \in Seq(Entries)
    BY <1>2, <1>3, SubSeqProperties
  <1> HIDE DEF w
  <1>5. /\ Len(w) \in Nat /\ DOMAIN w = 1..Len(w)
        /\ \A i \in 1..Len(w) : w[i] \in Entries
    BY <1>4, LenProperties, ElementOfSeq
  <1>6. hashes(w) \in [1..Len(w) -> Headers]
    BY <1>5 DEF hashes, Entries
  <1>7. hashes(w) \in Seq(Headers)
    BY <1>5, <1>6, SeqDef
  <1> QED BY <1>7 DEF windowBefore, w, m, n

TaskOK == task \in Tasks /\ Looping /\ Branch

LEMMA QuietTask ==
  ASSUME IInv, EndTask, UNCHANGED file
  PROVE  TaskOK'
  BY NoTaskType DEF IInv, EndTask, TaskOK, Looping, Branch

LEMMA AnswerTask ==
  ASSUME IInv, NEW c \in Callers, NEW rows \in Served,
         SyncAnswer(c, rows) \/ SeedAnswer(c, rows)
  PROVE  TaskOK'
  <1> DEFINE k == IF Syncing(c) THEN "sync" ELSE "seed"
  <1>1. task' = [NoTask EXCEPT !.kind = k, !.caller = c, !.rows = rows]
    BY DEF SyncAnswer, SeedAnswer, Syncing
  <1>2. k \in {"sync", "seed"} /\ (k = "sync" => Syncing(c))
    OBVIOUS
  <1>3. calls' = calls /\ file' = file
    BY DEF SyncAnswer, SeedAnswer, clientVars
  <1> HIDE DEF k
  <1>4. task' \in Tasks /\ task'.kind = k /\ task'.caller = c /\ task'.rows = rows
    BY <1>1, <1>2, NoTaskType, ServedRows DEF Tasks
  <1> QED BY <1>2, <1>3, <1>4, ServedRows DEF TaskOK, IInv, Looping, Branch, Syncing

LEMMA RowTask ==
  ASSUME IInv, SyncRow \/ SeedRow
  PROVE  TaskOK'
  <1>0. file' = file
    BY DEF SyncRow, SeedRow
  <1>1. CASE EndTask
    BY <1>0, <1>1, QuietTask
  <1>2. CASE task' = [task EXCEPT !.rows = Tail(task.rows)] /\ Len(task.rows) # 1
             /\ (task.kind = "sync" => calls'[task.caller].op = calls[task.caller].op)
    <2>1. /\ task \in Tasks /\ task.kind \in {"sync", "seed"} /\ task.rows # <<>>
          /\ Looping
      BY DEF IInv, Types, Looping, SyncRow, SeedRow
    <2>2. Tail(task.rows) \in Seq(Headers) /\ Tail(task.rows) # <<>>
      BY <1>2, <2>1, NextRow DEF IInv
    <2>3. /\ task' \in Tasks /\ task'.kind = task.kind /\ task'.caller = task.caller
          /\ task'.rows = Tail(task.rows)
      BY <1>2, <2>1, <2>2 DEF Tasks
    <2> QED BY <1>0, <1>2, <2>1, <2>2, <2>3 DEF TaskOK, Looping, Branch, Syncing
  <1>3. CASE SyncRow /\ Len(task.rows) # 1 /\ ~EndTask
    <2>1. /\ calls \in [Callers -> Calls] /\ task.caller \in Callers
          /\ calls[task.caller] \in Calls
      BY <1>3 DEF IInv, Types, Looping, SyncRow
    <2>2. /\ task' = [task EXCEPT !.rows = Tail(task.rows)]
          /\ calls' = [calls EXCEPT ![task.caller].height = calls[task.caller].height + 1]
      BY <1>3 DEF SyncRow, SyncThrows
    <2>3. calls'[task.caller].op = calls[task.caller].op
      BY <2>1, <2>2 DEF Calls
    <2> QED BY <1>2, <1>3, <2>2, <2>3
  <1>4. CASE SyncRow /\ Len(task.rows) = 1
    BY <1>1, <1>4 DEF SyncRow, SyncThrows, EndTask
  <1>5. CASE SeedRow
    <2>1. \/ EndTask
          \/ task' = [task EXCEPT !.rows = Tail(task.rows)] /\ Len(task.rows) > 1
      BY <1>5 DEF SeedRow
    <2>2. task.kind = "seed" /\ task.rows \in Seq(Headers)
      BY <1>5 DEF SeedRow, IInv, Types, Tasks
    <2>3. Len(task.rows) \in Nat
      BY <2>2, LenProperties
    <2>4. Len(task.rows) > 1 => Len(task.rows) # 1
      <3>1. \A n \in Nat : n > 1 => n # 1
        OBVIOUS
      <3> QED BY <2>3, <3>1, Zenon
    <2> QED BY <1>1, <1>2, <2>1, <2>2, <2>4
  <1> QED BY <1>1, <1>3, <1>4, <1>5

LEMMA ReorgCallTask ==
  ASSUME IInv, NEW anc \in 0..MaxHeight, NEW rows \in Served, ReorgCall(anc, rows)
  PROVE  TaskOK'
  <1>1. holds(anc) /\ anc \in Nat /\ anc + 1 <= nextHeight /\ anc + 1 \in Nat
    BY ChainArithmetic, ClientAssumption DEF ReorgCall, holds, IInv
  <1>2. windowBefore(anc + 1) \in Seq(Headers)
    BY <1>1, WindowType
  <1>3. /\ task' \in Tasks /\ task'.kind = "reorg" /\ task'.anc = anc
        /\ task'.rows = rows /\ task'.verified = <<>>
    BY <1>1, <1>2, NoTaskType, ServedRows DEF ReorgCall, NoTask, Tasks
  <1>4. Len(<<>>) = 0
    BY EmptySeq, Zenon
  <1>5. linked(task'.verified) /\ 1..Len(task'.verified) = {}
    BY <1>3, <1>4 DEF linked
  <1>6. UNCHANGED <<chain, baseHeight, calls, file>>
    BY DEF ReorgCall, clientVars
  <1>7. Looping'
    BY <1>1, <1>3, <1>6, ServedRows DEF IInv, Looping, holds, nextHeight
  <1>8. Branch'
    BY <1>3, <1>5 DEF Branch
  <1> QED BY <1>3, <1>7, <1>8 DEF TaskOK

LEMMA ReorgRowTask ==
  ASSUME IInv, ReorgRow
  PROVE  TaskOK'
  <1> DEFINE h == Head(task.rows)
             n == Len(task.verified)
             e == Entry(h, satAddWork(altParent.work, h), FALSE)
  <1>1. CASE EndTask
    BY <1>1, QuietTask DEF ReorgRow
  <1>2. CASE ~EndTask
    <2>1. /\ task \in Tasks /\ task.kind = "reorg" /\ task.rows # <<>>
          /\ holds(task.anc) /\ task.anc \in Nat /\ task.verified \in Seq(Entries)
          /\ task.window \in Seq(Headers)
      BY DEF ReorgRow, IInv, Types, Looping, Tasks
    <2>2. /\ task' = [task EXCEPT !.rows = Tail(task.rows),
                        !.window = slide(task.window, h),
                        !.verified = Append(task.verified, e)]
          /\ verifyOne(task.anc + n + 1, h, task.window, altParent.hash, clock)
          /\ UNCHANGED <<chain, baseHeight, calls, file>>
      BY <1>2 DEF ReorgRow, clientVars
    <2>3. h \in Headers /\ Tail(task.rows) \in Seq(Headers) /\ n \in Nat
      BY <2>1, NextRow, LenProperties DEF IInv
    <2>4. task.anc + n + 1 \in Nat /\ task.anc + n + 1 # 0
      BY <2>1, <2>3
    <2>5. /\ h \in PowOk /\ PrevOf[h] = altParent.hash
          /\ pinCheckpoint(task.anc + n + 1, h)
      BY <2>2, <2>4, Verified
    <2>6. /\ n = 0 <=> task.verified = <<>>
          /\ task.verified # <<>> => /\ n \in 1..n
                                     /\ LastOf(task.verified) = task.verified[n]
                                     /\ task.verified[n] \in Entries
      BY <2>1, <2>3, EmptySeq, ElementOfSeq DEF LastOf
    <2>7. altParent \in Entries
      BY <2>1, <2>6, ChainArithmetic DEF altParent, IInv
    <2>8. /\ task.verified = <<>> => altParent.hash = hashAt(task.anc)
          /\ task.verified # <<>> => altParent.hash = task.verified[n].hash
      BY <2>1, <2>6 DEF altParent, hashAt
    <2>9. e \in Entries /\ e.hash = h
      BY <2>3, <2>5, <2>7, WorkInWidth DEF Entry, Entries
    <2>10. slide(task.window, h) \in Seq(Headers)
      <3>1. Append(task.window, h) \in Seq(Headers) /\ LWMA_WINDOW \in Nat
        BY <2>1, <2>3, AppendProperties, HeaderAssumption
      <3> QED BY <3>1, LastNType DEF slide
    <2> HIDE DEF e, h
    <2> DEFINE v == Append(task.verified, e)
    <2>11. /\ v \in Seq(Entries) /\ v # <<>> /\ Len(v) = n + 1
           /\ \A i \in 1..n : v[i] = task.verified[i]
           /\ v[n + 1] = e
      BY <2>1, <2>9, AppendProperties
    <2> HIDE DEF v, n
    <2>12. /\ task' \in Tasks /\ task'.kind = "reorg" /\ task'.anc = task.anc
           /\ task'.verified = v
      BY <2>1, <2>2, <2>3, <2>10, <2>11 DEF Tasks, v
    <2>13. Looping'
      BY <2>1, <2>2, <2>11, <2>12 DEF IInv, Looping, holds, nextHeight
    <2>14. linked(v)
      <3> SUFFICES ASSUME NEW i \in 2..(n + 1)
                   PROVE  PrevOf[v[i].hash] = v[i - 1].hash
        BY <2>11 DEF linked
      <3>1. CASE i <= n
        <4>1. i \in 2..n /\ i \in 1..n /\ i - 1 \in 1..n
          BY <2>3, <3>1
        <4> QED BY <2>1, <2>11, <4>1 DEF IInv, Branch, linked, n
      <3>2. CASE i = n + 1
        <4>1. i - 1 = n /\ n \in 1..n /\ task.verified # <<>>
          BY <2>3, <2>6, <3>2
        <4> QED BY <2>5, <2>8, <2>9, <2>11, <3>2, <4>1
      <3> QED BY <2>3, <3>1, <3>2
    <2>15. PrevOf[v[1].hash] = hashAt(task.anc)
      <3>1. CASE n = 0
        BY <2>5, <2>6, <2>8, <2>9, <2>11, <3>1
      <3>2. CASE n # 0
        <4>1. 1 \in 1..n
          BY <2>3, <3>2
        <4> QED BY <2>1, <2>6, <2>11, <3>2, <4>1 DEF IInv, Branch
      <3> QED BY <3>1, <3>2
    <2>16. ASSUME NEW i \in 1..(n + 1) PROVE pinCheckpoint(task.anc + i, v[i].hash)
      <3>1. CASE i <= n
        <4>1. i \in 1..n
          BY <2>3, <3>1
        <4> QED BY <2>1, <2>11, <4>1 DEF IInv, Branch, n
      <3>2. CASE i = n + 1
        <4>1. task.anc \in Int /\ n \in Int
          BY <2>1, <2>3
        <4>2. task.anc + i = task.anc + n + 1
          BY ONLY <3>2, <4>1
        <4> QED BY <2>5, <2>9, <2>11, <3>2, <4>2
      <3> QED BY <2>3, <3>1, <3>2
    <2>17. hashAt(task.anc)' = hashAt(task.anc)
      BY <2>2, <2>12 DEF hashAt, holds, nextHeight, at
    <2>18. Branch'
      BY <2>2, <2>11, <2>12, <2>14, <2>15, <2>16, <2>17 DEF Branch, pinCheckpoint
    <2> QED BY <2>12, <2>13, <2>18 DEF TaskOK
  <1> QED BY <1>1, <1>2

LEMMA BootTask ==
  ASSUME IInv, BootRow \/ \E anc \in 0..MaxHeight : Boot(anc)
  PROVE  TaskOK'
  <1>0. Len(file.rows) \in Nat /\ file.base \in Nat /\ Len(chain) \in Nat
    BY ChainArithmetic, LenProperties, ClientAssumption DEF IInv, Types, Files
  <1>1. CASE EndTask
    BY <1>1, QuietTask DEF BootRow, Boot
  <1>2. CASE BootRow /\ ~EndTask
    <2>1. /\ bootable /\ task' = task /\ UNCHANGED <<baseHeight, calls, file>>
          /\ task.kind = "boot" /\ nextHeight # fileLast
      BY <1>2 DEF BootRow, EndTask
    <2>2. /\ Append1(storedRow.hash, storedRow.trusted \/ seeding)
          /\ storedRow.hash \in PowOk /\ (storedRow.trusted \/ seeding) \in BOOLEAN
      <3>1. storedRow.trusted \in BOOLEAN
        BY <2>1, StoredRow DEF IInv, Entries
      <3> QED BY <1>2, <2>1, <3>1, Booted DEF BootRow, IInv
    <2>3. Len(chain') = Len(chain) + 1
      BY <2>2, Grown DEF IInv
    <2>4. Len(chain) < Len(file.rows) /\ baseHeight = file.base
      BY <2>1 DEF IInv, Looping
    <2>5. Len(chain') < Len(file.rows)
      BY <1>0, <2>1, <2>3, <2>4 DEF nextHeight, fileLast
    <2>6. Looping'
      BY <2>1, <2>4, <2>5 DEF IInv, Looping
    <2> QED BY <2>1, <2>6 DEF TaskOK, IInv, Types, Branch
  <1>3. CASE \E anc \in 0..MaxHeight : Boot(anc)
    <2> PICK anc \in 0..MaxHeight : Boot(anc)
      BY <1>3
    <2>1. anc \in Nat
      BY ClientAssumption
    <2>2. /\ task' = [NoTask EXCEPT !.kind = "boot", !.anc = anc]
          /\ chain' = chain /\ chain = <<>> /\ baseHeight' = file.base
          /\ UNCHANGED <<calls, file>> /\ file.format # "none"
      BY DEF Boot
    <2>3. task' \in Tasks /\ task'.kind = "boot"
      BY <2>1, <2>2, NoTaskType DEF Tasks
    <2>4. Len(chain') = 0 /\ Len(file.rows) > 0
      BY <2>2, EmptySeq DEF IInv, Types, Looping, Files
    <2>5. Looping'
      BY <2>2, <2>3, <2>4 DEF IInv, Looping
    <2> QED BY <2>3, <2>5 DEF TaskOK, Branch
  <1> QED BY <1>1, <1>2, <1>3

\* What is saved is well formed.
LEMMA SavedFile ==
  ASSUME IInv, SaveSnapshot \/ \E from \in 0..MaxHeight : SaveRecords(from)
  PROVE  file' \in Files /\ file'.rows # <<>>
  <1>1. CASE SaveSnapshot
    BY <1>1 DEF SaveSnapshot, IInv, Types, Files
  <1>2. CASE \E from \in 0..MaxHeight : SaveRecords(from)
    <2> PICK from \in 0..MaxHeight : SaveRecords(from)
      BY <1>2
    <2> DEFINE n == nextHeight - from
               rows == [i \in 1..n |-> Entry(hashAt(from + i - 1), 0, FALSE)]
    <2>1. /\ from \in Nat /\ baseHeight \in Nat /\ MAX_U128 \in Nat
          /\ nextHeight \in Nat /\ holds(from)
      <3>1. holds(from) /\ nextHeight \in Nat
        BY ChainArithmetic DEF SaveRecords, IInv
      <3>2. from \in Nat /\ baseHeight \in Nat /\ MAX_U128 \in Nat
        BY ClientAssumption, HeaderAssumption DEF IInv, Types
      <3> QED BY <3>1, <3>2
    <2>2. n \in Nat /\ n > 0
      BY <2>1 DEF holds
    <2>3. ASSUME NEW i \in 1..n PROVE Entry(hashAt(from + i - 1), 0, FALSE) \in Entries
      <3>1. from + i - 1 \in Int /\ holds(from + i - 1)
        BY <2>1, <2>2 DEF holds
      <3>2. hashAt(from + i - 1) \in Headers
        BY <3>1, ChainArithmetic DEF IInv, hashAt, Entries
      <3> QED BY <2>1, <3>2 DEF Entry, Entries
    <2> HIDE DEF n
    <2>4. rows \in [1..n -> Entries]
      BY <2>3
    <2>5. rows \in Seq(Entries)
      BY <2>2, <2>4, SeqDef
    <2>6. rows # <<>>
      <3>1. DOMAIN rows = 1..n /\ 1 \in 1..n
        BY <2>2
      <3> HIDE DEF rows
      <3>2. DOMAIN rows = 1..Len(rows)
        BY <2>5, LenProperties
      <3>3. Len(<<>>) = 0
        BY EmptySeq, Zenon
      <3>4. rows = <<>> => 1..Len(rows) = {}
        BY <3>3
      <3> QED BY <3>1, <3>2, <3>4
    <2> HIDE DEF rows
    <2>7. file' = [format |-> "records", base |-> from, rows |-> rows]
      BY DEF SaveRecords, rows, n
    <2> QED BY <2>5, <2>6, <2>7 DEF Files
  <1> QED BY <1>1, <1>2

LEMMA SaveTask ==
  ASSUME IInv, SaveSnapshot \/ \E from \in 0..MaxHeight : SaveRecords(from)
  PROVE  TaskOK'
  <1>1. /\ task = NoTask /\ task' = task /\ UNCHANGED <<chain, baseHeight, calls>>
        /\ file'.rows # <<>>
    BY SavedFile DEF SaveSnapshot, SaveRecords, Quiet, clientVars
  <1> QED BY <1>1, NoTaskType DEF TaskOK, Looping, Branch

\* An action that runs between two loops starts none.
LEMMA QuietStep ==
  ASSUME IInv, Quiet, UNCHANGED <<task, file>>
  PROVE  TaskOK'
  BY NoTaskType DEF IInv, Quiet, TaskOK, Looping, Branch

-----------------------------------------------------------------------------
(* The invariant.                                                          *)

LEMMA InitIInv == Init => IInv
  <1> SUFFICES ASSUME Init PROVE IInv
    OBVIOUS
  <1>1. <<>> \in Seq(Entries) /\ Len(<<>>) = 0
    BY EmptySeq
  <1>0. file \in Files /\ (file.format # "none" => file.rows # <<>>)
    <2>1. CASE file = NoFile
      BY <1>1, <2>1, ClientAssumption DEF NoFile, Files
    <2>2. CASE file \in Stored
      <3>1. file \in [format : {"snapshot", "records"}, base : 0..MaxHeight,
                     rows : Seq(Entries) \ {<<>>}]
        BY <2>2, StoredAssumption DEF Entries
      <3> QED BY <3>1 DEF Files
    <2> QED BY <2>1, <2>2 DEF Init
  <1>2. Types /\ SeedSpans
    BY <1>0, <1>1, IdleCall, NoTaskType, ClientAssumption DEF Init, Types, SeedSpans
  <1>3. Looping /\ Branch
    BY <1>0, NoTaskType DEF Init, Looping, Branch
  <1>4. Linked /\ Pinned
    BY <1>1 DEF Init, Linked, Pinned, linked
  <1> QED BY <1>2, <1>3, <1>4 DEF IInv

Base == baseHeight \in 0..MaxHeight /\ clock \in Clocks /\ file \in Files

LEMMA StepBase ==
  ASSUME IInv, Next
  PROVE  Base'
  <1>0. Base /\ 0 \in 0..MaxHeight
    BY ClientAssumption DEF IInv, Types, Base
  <1>1. CASE UNCHANGED <<baseHeight, clock, file>>
    BY <1>0, <1>1 DEF Base
  <1>2. CASE \E c \in Callers, rows \in Served : SeedAnswer(c, rows)
    <2> PICK c \in Callers, rows \in Served : SeedAnswer(c, rows)
      BY <1>2
    <2>1. calls[c].height \in Nat /\ calls[c].height <= MaxHeight
      BY DEF SeedAnswer, IInv, Types, SeedSpans, Calls
    <2>2. calls[c].height \in 0..MaxHeight
      BY <2>1, ClientAssumption
    <2> QED BY <1>0, <2>2 DEF SeedAnswer, Base
  <1>3. CASE Restart \/ BootRow
    BY <1>0, <1>3 DEF Restart, BootRow, Fresh, clientVars, Base
  <1>4. CASE \E anc \in 0..MaxHeight : Boot(anc)
    BY <1>0, <1>4 DEF Boot, Base, Files
  <1>5. CASE SaveSnapshot \/ \E from \in 0..MaxHeight : SaveRecords(from)
    BY <1>0, <1>5, SavedFile DEF SaveSnapshot, SaveRecords, clientVars, Base
  <1>6. CASE Tick
    BY <1>0, <1>6 DEF Tick, clientVars, Base
  <1>7. \/ UNCHANGED <<baseHeight, clock, file>>
        \/ \E c \in Callers, rows \in Served : SeedAnswer(c, rows)
        \/ Restart \/ BootRow \/ (\E anc \in 0..MaxHeight : Boot(anc))
        \/ SaveSnapshot \/ (\E from \in 0..MaxHeight : SaveRecords(from)) \/ Tick
    BY DEF Next, SyncCall, SyncAnswer, SeedCall, SyncFails, SeedFails, SyncRow,
           SeedRow, TxCall, TxAnswer, TxSynced, TxEnds, TxBlock, ReorgCall, ReorgRow,
           ReorgDecide, clientVars
  <1> QED BY <1>1, <1>2, <1>3, <1>4, <1>5, <1>6, <1>7

LEMMA StepCalls ==
  ASSUME IInv, Next
  PROVE  CallsOK'
  <1>1. CASE UNCHANGED calls
    BY <1>1 DEF IInv, Types, CallsOK, SeedSpans
  <1>2. CASE Restart
    BY <1>2, IdleCall DEF Restart, CallsOK, SeedSpans
  <1> QED
    BY <1>1, <1>2, SyncCalls, TxCalls, RowCalls
    DEF Next, SyncAnswer, SeedAnswer, ReorgCall, ReorgRow, ReorgDecide, SaveSnapshot,
        SaveRecords, Boot, BootRow, Tick

LEMMA StepTask ==
  ASSUME IInv, Next
  PROVE  TaskOK'
  <1>1. CASE EndTask /\ UNCHANGED file
    BY <1>1, QuietTask
  <1>2. CASE Quiet /\ UNCHANGED <<task, file>>
    BY <1>2, QuietStep
  <1>3. Next => \/ EndTask /\ UNCHANGED file
                \/ Quiet /\ UNCHANGED <<task, file>>
                \/ \E c \in Callers, rows \in Served :
                     SyncAnswer(c, rows) \/ SeedAnswer(c, rows)
                \/ SyncRow \/ SeedRow \/ ReorgRow \/ BootRow
                \/ \E anc \in 0..MaxHeight, rows \in Served : ReorgCall(anc, rows)
                \/ \E anc \in 0..MaxHeight : Boot(anc)
                \/ SaveSnapshot \/ \E from \in 0..MaxHeight : SaveRecords(from)
    BY DEF Next, SyncCall, SeedCall, SyncFails, SeedFails, TxCall, TxAnswer, TxSynced,
           TxEnds, TxBlock, ReorgDecide, Restart, Tick
  <1> QED BY <1>1, <1>2, <1>3, AnswerTask, RowTask, ReorgCallTask, ReorgRowTask,
             BootTask, SaveTask

LEMMA StepIInv == IInv /\ [Next]_vars => IInv'
  <1> SUFFICES ASSUME IInv, [Next]_vars PROVE IInv'
    OBVIOUS
  <1>1. CASE UNCHANGED vars
    BY <1>1 DEF vars, IInv, Types, SeedSpans, Looping, Linked, Pinned, Branch, linked,
                pinCheckpoint, holds, nextHeight, hashAt, at, Syncing
  <1>2. CASE Next
    <2>1. chain' \in Seq(Entries) /\ Linked' /\ Pinned'
      BY StepMoves, MovesKeepChain
    <2>2. Base' /\ CallsOK' /\ TaskOK'
      BY <1>2, StepBase, StepCalls, StepTask
    <2> QED BY <2>1, <2>2 DEF IInv, Types, Base, CallsOK, TaskOK
  <1> QED BY <1>1, <1>2

LEMMA Invariance == Spec => []IInv
  BY InitIInv, StepIInv, PTL DEF Spec

-----------------------------------------------------------------------------
(* Lines of headers, and what a node makes of them.                        *)

\* A set of headers with the headers before them.
closed(D) == \A h \in D : PrevOf[h] \in D \cup {NoHash}

\* f is defined on D by recursion along the prev fields.
Along(f, D, base, step) ==
  f = [h \in D |-> IF PrevOf[h] = NoHash THEN base[h] ELSE step[<<h, f[PrevOf[h]]>>]]

\* No line of headers goes down for ever, or round.
LEMMA LeastHeader ==
  ASSUME NEW S \in SUBSET Headers, S # {}
  PROVE  \E h \in S : PrevOf[h] \notin S
  BY HeaderAssumption

\* Two such functions agree where both are defined.
LEMMA AlongUnique ==
  ASSUME NEW base, NEW step, NEW f, NEW g,
         NEW D \in SUBSET Headers, NEW E \in SUBSET Headers, closed(D), closed(E),
         Along(f, D, base, step), Along(g, E, base, step)
  PROVE  \A h \in D \cap E : f[h] = g[h]
  <1> DEFINE S == {h \in D \cap E : f[h] # g[h]}
  <1> SUFFICES ASSUME S # {} PROVE FALSE
    OBVIOUS
  <1>1. PICK h \in S : PrevOf[h] \notin S
    <2>1. S \in SUBSET Headers
      OBVIOUS
    <2> HIDE DEF S
    <2> QED BY <2>1, LeastHeader
  <1>2. h \in D /\ h \in E /\ f[h] # g[h]
    OBVIOUS
  <1>3. PrevOf[h] # NoHash => PrevOf[h] \in D /\ PrevOf[h] \in E
    BY <1>2 DEF closed
  <1>4. PrevOf[h] # NoHash => f[PrevOf[h]] = g[PrevOf[h]]
    BY <1>1, <1>3
  <1> HIDE DEF S
  <1>5. f[h] = IF PrevOf[h] = NoHash THEN base[h] ELSE step[<<h, f[PrevOf[h]]>>]
    BY <1>2 DEF Along
  <1>6. g[h] = IF PrevOf[h] = NoHash THEN base[h] ELSE step[<<h, g[PrevOf[h]]>>]
    BY <1>2 DEF Along
  <1> QED BY <1>2, <1>4, <1>5, <1>6

\* There is one: else there would be a least header that none of the closed sets
\* with such a function has, and it could be added to theirs.
LEMMA AlongExists ==
  ASSUME NEW base, NEW step
  PROVE  \E f : Along(f, Headers, base, step)
  <1> DEFINE Covers(D) == closed(D) /\ \E f : Along(f, D, base, step)
             All == {h \in Headers : \E D \in SUBSET Headers : h \in D /\ Covers(D)}
             dom(h) == CHOOSE D \in SUBSET Headers : h \in D /\ Covers(D)
             fun(h) == CHOOSE f : Along(f, dom(h), base, step)
             F == [h \in All |-> fun(h)[h]]
  <1>1. ASSUME NEW h \in All
        PROVE  /\ dom(h) \in SUBSET Headers /\ h \in dom(h) /\ closed(dom(h))
               /\ Along(fun(h), dom(h), base, step)
               /\ dom(h) \subseteq All
    <2>1. dom(h) \in SUBSET Headers /\ h \in dom(h) /\ Covers(dom(h))
      OBVIOUS
    <2>2. Along(fun(h), dom(h), base, step)
      <3>1. \E f : Along(f, dom(h), base, step)
        BY <2>1
      <3> HIDE DEF dom
      <3> QED BY <3>1
    <2>3. dom(h) \subseteq All
      <3> HIDE DEF dom
      <3> QED BY <2>1
    <2> HIDE DEF dom, All, fun
    <2> QED BY <2>1, <2>2, <2>3
  <1>2. All \in SUBSET Headers
    OBVIOUS
  <1>3. \A h \in All : F[h] = fun(h)[h]
    OBVIOUS
  <1>3a. F = [h \in All |-> F[h]]
    OBVIOUS
  <1>4. ASSUME NEW D \in SUBSET Headers, NEW h \in D, Covers(D) PROVE h \in All
    BY <1>4
  <1> HIDE DEF All, dom, fun, F
  <1>5. closed(All)
    <2> SUFFICES ASSUME NEW h \in All, PrevOf[h] # NoHash PROVE PrevOf[h] \in All
      BY DEF closed
    <2>1. h \in dom(h) /\ closed(dom(h)) /\ dom(h) \subseteq All
      BY <1>1
    <2> QED BY <2>1 DEF closed
  <1>6. ASSUME NEW h \in All
        PROVE  F[h] = IF PrevOf[h] = NoHash THEN base[h] ELSE step[<<h, F[PrevOf[h]]>>]
    <2>1. fun(h)[h] = IF PrevOf[h] = NoHash THEN base[h]
                      ELSE step[<<h, fun(h)[PrevOf[h]]>>]
      <3>1. h \in dom(h) /\ Along(fun(h), dom(h), base, step)
        BY <1>1
      <3> QED BY <3>1 DEF Along
    <2>2. ASSUME PrevOf[h] # NoHash PROVE fun(h)[PrevOf[h]] = F[PrevOf[h]]
      <3> DEFINE p == PrevOf[h]
      <3>1. p \in All /\ p \in dom(h)
        <4>1. h \in dom(h) /\ closed(dom(h)) /\ dom(h) \subseteq All
          BY <1>1
        <4> QED BY <2>2, <4>1 DEF closed
      <3> HIDE DEF p
      <3>2. /\ dom(h) \in SUBSET Headers /\ closed(dom(h))
            /\ Along(fun(h), dom(h), base, step)
        BY <1>1
      <3>3. /\ dom(p) \in SUBSET Headers /\ closed(dom(p)) /\ p \in dom(p)
            /\ Along(fun(p), dom(p), base, step)
        BY <1>1, <3>1
      <3>4. fun(h)[p] = fun(p)[p]
        BY <3>1, <3>2, <3>3, AlongUnique
      <3> QED BY <1>3, <3>1, <3>4 DEF p
    <2> QED BY <1>3, <2>1, <2>2
  <1>7. Along(F, All, base, step)
    BY <1>3a, <1>6 DEF Along
  <1>8. All = Headers
    <2> SUFFICES ASSUME Headers \ All # {} PROVE FALSE
      BY <1>2
    <2>1. PICK h \in Headers \ All : PrevOf[h] \notin Headers \ All
      BY LeastHeader
    <2> DEFINE D == All \cup {h}
               v == IF PrevOf[h] = NoHash THEN base[h] ELSE step[<<h, F[PrevOf[h]]>>]
               G == [x \in D |-> IF x = h THEN v ELSE F[x]]
    <2>2. PrevOf[h] # NoHash => PrevOf[h] \in All
      BY <2>1, HeaderAssumption
    <2>3. D \in SUBSET Headers /\ closed(D) /\ h \in D
      BY <1>2, <1>5, <2>2 DEF closed
    <2>4. \A x \in All : x # h /\ G[x] = F[x]
      OBVIOUS
    <2>5. G[h] = v
      OBVIOUS
    <2>6. ASSUME NEW x \in D
          PROVE  G[x] = IF PrevOf[x] = NoHash THEN base[x] ELSE step[<<x, G[PrevOf[x]]>>]
      <3>1. CASE x = h
        <4> HIDE DEF G
        <4> QED BY <2>2, <2>4, <2>5, <3>1
      <3>2. CASE x # h
        <4>1. x \in All /\ (PrevOf[x] # NoHash => PrevOf[x] \in All)
          BY <1>5, <3>2 DEF closed
        <4> HIDE DEF G
        <4> QED BY <1>6, <2>4, <4>1
      <3> QED BY <3>1, <3>2
    <2>7. G = [x \in D |-> G[x]]
      OBVIOUS
    <2> HIDE DEF G, D
    <2>8. Along(G, D, base, step)
      BY <2>6, <2>7 DEF Along
    <2>9. h \in All
      BY <1>4, <2>3, <2>8
    <2> QED BY <2>9
  <1> QED BY <1>7, <1>8

\* Its values are of the type that base and step keep to.
LEMMA AlongTyped ==
  ASSUME NEW R, NEW base \in [Headers -> R], NEW step \in [Headers \X R -> R],
         NEW f, Along(f, Headers, base, step), NEW h \in Headers
  PROVE  f[h] \in R
  <1> DEFINE S == {x \in Headers : f[x] \notin R}
  <1> SUFFICES ASSUME S # {} PROVE FALSE
    OBVIOUS
  <1>1. PICK x \in S : PrevOf[x] \notin S
    <2>1. S \in SUBSET Headers
      OBVIOUS
    <2> HIDE DEF S
    <2> QED BY <2>1, LeastHeader
  <1>2. x \in Headers /\ f[x] \notin R
    OBVIOUS
  <1>3. PrevOf[x] # NoHash => PrevOf[x] \in Headers /\ f[PrevOf[x]] \in R
    BY <1>1, <1>2, HeaderAssumption
  <1> HIDE DEF S
  <1>4. f[x] = IF PrevOf[x] = NoHash THEN base[x] ELSE step[<<x, f[PrevOf[x]]>>]
    BY <1>2 DEF Along
  <1>5. PrevOf[x] # NoHash => <<x, f[PrevOf[x]]>> \in Headers \X R
    BY <1>2, <1>3
  <1> QED BY <1>2, <1>4, <1>5

\* Line is what its equation says.
LEMMA LineDef ==
  ASSUME NEW h \in Headers
  PROVE  /\ Line[h] \in Seq(Headers)
         /\ Line[h] = IF PrevOf[h] = NoHash THEN <<h>> ELSE Append(Line[PrevOf[h]], h)
  <1> DEFINE base == [x \in Headers |-> <<x>>]
             step == [p \in Headers \X Seq(Headers) |-> Append(p[2], p[1])]
  <1>1. PICK f : Along(f, Headers, base, step)
    <2> HIDE DEF base, step
    <2> QED BY AlongExists
  <1>2. \A x \in Headers : f[x] = IF PrevOf[x] = NoHash THEN base[x]
                                  ELSE step[<<x, f[PrevOf[x]]>>]
    <2> HIDE DEF base, step
    <2> QED BY <1>1 DEF Along
  <1>2a. f = [x \in Headers |-> f[x]]
    <2> HIDE DEF base, step
    <2> QED BY <1>1 DEF Along
  <1>3. \A x \in Headers : f[x] \in Seq(Headers)
    <2>1. base \in [Headers -> Seq(Headers)]
      OBVIOUS
    <2>2. \A p \in Headers \X Seq(Headers) : Append(p[2], p[1]) \in Seq(Headers)
      BY AppendProperties
    <2>3. step \in [Headers \X Seq(Headers) -> Seq(Headers)]
      BY <2>2
    <2> HIDE DEF base, step
    <2> QED BY <1>1, <2>1, <2>3, AlongTyped
  <1>4. ASSUME NEW x \in Headers
        PROVE  f[x] = IF PrevOf[x] = NoHash THEN <<x>> ELSE Append(f[PrevOf[x]], x)
    <2>1. CASE PrevOf[x] = NoHash
      BY <1>2, <2>1
    <2>2. CASE PrevOf[x] # NoHash
      <3> DEFINE l == f[PrevOf[x]]
      <3>1. f[x] = step[<<x, l>>] /\ l \in Seq(Headers)
        <4>1. PrevOf[x] \in Headers
          BY <2>2, HeaderAssumption
        <4> HIDE DEF step, base
        <4> QED BY <1>2, <1>3, <2>2, <4>1
      <3> HIDE DEF l
      <3>2. f[x] = Append(l, x)
        BY <3>1
      <3> QED BY <2>2, <3>2 DEF l
    <2> QED BY <2>1, <2>2
  <1> HIDE DEF base, step
  <1> DEFINE Is(g) == g = [x \in Headers |-> IF PrevOf[x] = NoHash THEN <<x>>
                                             ELSE Append(g[PrevOf[x]], x)]
  <1>5. Is(f)
    BY <1>2a, <1>4
  <1>6. Is(Line)
    <2>1. Line = CHOOSE g : Is(g)
      BY DEF Line
    <2> HIDE DEF Is
    <2> QED BY <1>5, <2>1
  <1>7. Line[h] = f[h]
    <2> DEFINE S == {x \in Headers : Line[x] # f[x]}
    <2> SUFFICES ASSUME S # {} PROVE FALSE
      OBVIOUS
    <2>1. PICK x \in S : PrevOf[x] \notin S
      <3>1. S \in SUBSET Headers
        OBVIOUS
      <3> HIDE DEF S
      <3> QED BY <3>1, LeastHeader
    <2>2. x \in Headers /\ Line[x] # f[x]
      OBVIOUS
    <2>3. PrevOf[x] # NoHash => Line[PrevOf[x]] = f[PrevOf[x]]
      BY <2>1, <2>2, HeaderAssumption
    <2> HIDE DEF S
    <2>4. Line[x] = IF PrevOf[x] = NoHash THEN <<x>> ELSE Append(Line[PrevOf[x]], x)
      BY <1>6, <2>2
    <2> QED BY <1>4, <2>2, <2>3, <2>4
  <1> HIDE DEF Line
  <1> QED BY <1>3, <1>6, <1>7

\* The line of a header is that of its prev and the header itself.
LEMMA LineOf ==
  ASSUME NEW h \in Headers
  PROVE  /\ Line[h] \in Seq(Headers) /\ Len(Line[h]) \in Nat \ {0}
         /\ PrevOf[h] = NoHash => Len(Line[h]) = 1
         /\ PrevOf[h] # NoHash =>
              /\ PrevOf[h] \in Headers /\ Len(Line[h]) = Len(Line[PrevOf[h]]) + 1
              /\ Front(Line[h]) = Line[PrevOf[h]]
         /\ Line[h][Len(Line[h])] = h
  <1>1. CASE PrevOf[h] = NoHash
    <2> DEFINE l == Line[h]
    <2>1. l = <<h>> /\ l \in Seq(Headers)
      BY <1>1, LineDef
    <2> HIDE DEF l
    <2> QED BY <1>1, <2>1 DEF l
  <1>2. CASE PrevOf[h] # NoHash
    <2> DEFINE p == PrevOf[h]
               l == Line[h]
               k == Line[p]
    <2>1. p \in Headers
      BY <1>2, HeaderAssumption
    <2>2. l = Append(k, h) /\ k \in Seq(Headers) /\ l \in Seq(Headers)
      BY <1>2, <2>1, LineDef
    <2> HIDE DEF l, k, p
    <2>3. Len(l) = Len(k) + 1 /\ Len(k) \in Nat /\ l[Len(l)] = h
          /\ \A i \in 1..Len(k) : l[i] = k[i]
      BY <2>2, AppendProperties, LenProperties
    <2>4. Front(l) = k
      <3>1. Front(l) = SubSeq(l, 1, Len(k))
        BY <2>3 DEF Front
      <3>2. \A i \in 1..Len(k) : l[i] \in Headers
        BY <2>2, <2>3, ElementOfSeq
      <3>3. /\ SubSeq(l, 1, Len(k)) \in Seq(Headers)
            /\ Len(SubSeq(l, 1, Len(k))) = Len(k)
            /\ \A i \in 1..Len(k) : SubSeq(l, 1, Len(k))[i] = l[i]
        BY <2>3, <3>2, SubSeqProperties
      <3> QED BY <2>2, <2>3, <3>1, <3>3, SeqEqual
    <2> QED BY <1>2, <2>1, <2>2, <2>3, <2>4 DEF l, k, p
  <1> QED BY <1>1, <1>2

\* What a node requires of a header above genesis.
NodeRules(h) ==
  mandated(Len(Line[h]) - 1, h, Front(Line[h]), PrevOf[h], TimeOf[h])

\* A node accepts genesis, and what satisfies the rules on what it accepted.
LEMMA NodeValidIs ==
  ASSUME NEW h \in Headers
  PROVE  NodeValid[h] <=> /\ h \in PowOk
                          /\ IF PrevOf[h] = NoHash THEN h = GENESIS
                             ELSE NodeValid[PrevOf[h]] /\ NodeRules(h)
  <1> DEFINE base == [x \in Headers |-> x \in PowOk /\ x = GENESIS]
             step == [p \in Headers \X BOOLEAN |-> p[1] \in PowOk /\ p[2] /\ NodeRules(p[1])]
  <1>1. PICK f : Along(f, Headers, base, step)
    <2> HIDE DEF base, step
    <2> QED BY AlongExists
  <1>2. \A x \in Headers : f[x] \in BOOLEAN
    <2>1. base \in [Headers -> BOOLEAN] /\ step \in [Headers \X BOOLEAN -> BOOLEAN]
      BY DEF NodeRules, mandated
    <2> HIDE DEF base, step
    <2> QED BY <1>1, <2>1, AlongTyped
  <1> DEFINE Body(g, x) == LET line == Line[x]
                           IN /\ x \in PowOk
                              /\ IF PrevOf[x] = NoHash THEN x = GENESIS
                                 ELSE /\ g[PrevOf[x]]
                                      /\ mandated(Len(line) - 1, x, Front(line), PrevOf[x], TimeOf[x])
             Is(g) == g = [x \in Headers |-> Body(g, x)]
  <1>3. Is(f)
    <2>1. f = [x \in Headers |-> IF PrevOf[x] = NoHash THEN base[x]
                                 ELSE step[<<x, f[PrevOf[x]]>>]]
      <3> HIDE DEF base, step
      <3> QED BY <1>1 DEF Along
    <2>2. ASSUME NEW x \in Headers
          PROVE  (IF PrevOf[x] = NoHash THEN base[x] ELSE step[<<x, f[PrevOf[x]]>>])
                   = Body(f, x)
      <3>1. CASE PrevOf[x] = NoHash
        <4>1. base[x] = (x \in PowOk /\ x = GENESIS)
          OBVIOUS
        <4>2. Body(f, x) = (x \in PowOk /\ x = GENESIS)
          BY <3>1
        <4> HIDE DEF base, Body
        <4> QED BY <3>1, <4>1, <4>2
      <3>2. CASE PrevOf[x] # NoHash
        <4>1. PrevOf[x] \in Headers
          BY <3>2, HeaderAssumption
        <4> DEFINE v == f[PrevOf[x]]
        <4>2. v \in BOOLEAN
          BY <1>2, <4>1
        <4>3. Body(f, x) = (x \in PowOk /\ v /\ NodeRules(x))
          BY <3>2 DEF NodeRules
        <4> HIDE DEF v
        <4>4. step[<<x, v>>] = (x \in PowOk /\ v /\ NodeRules(x))
          BY <4>2
        <4> HIDE DEF base, step, Body
        <4> QED BY <3>2, <4>3, <4>4 DEF v
      <3> QED BY <3>1, <3>2
    <2> HIDE DEF base, step, Body
    <2> QED BY <2>1, <2>2
  <1>4. Is(NodeValid)
    <2>1. NodeValid = CHOOSE g : Is(g)
      BY DEF NodeValid
    <2> HIDE DEF Is
    <2> QED BY <1>3, <2>1
  <1> HIDE DEF base, step
  <1>5. NodeValid[h] = Body(NodeValid, h)
    <2> HIDE DEF Body
    <2> QED BY <1>4
  <1> HIDE DEF NodeValid
  <1> QED BY <1>5 DEF NodeRules

LEMMA NodeValidDef ==
  ASSUME NEW h \in Headers
  PROVE  /\ h \in PowOk /\ h = GENESIS => NodeValid[h]
         /\ PrevOf[h] # NoHash /\ h \in PowOk /\ NodeValid[PrevOf[h]] /\ NodeRules(h)
              => NodeValid[h]
  <1>1. h = GENESIS => PrevOf[h] = NoHash
    BY HeaderAssumption
  <1> QED BY <1>1, NodeValidIs

-----------------------------------------------------------------------------
(* Windows.                                                                *)

\* The last k of a sequence.
LEMMA LastNIs ==
  ASSUME NEW X, NEW s \in Seq(X), NEW k \in Nat
  PROVE  /\ LastN(s, k) \in Seq(X) /\ Len(LastN(s, k)) = AtMost(k, Len(s))
         /\ \A i \in 1..AtMost(k, Len(s)) :
              LastN(s, k)[i] = s[Len(s) - AtMost(k, Len(s)) + i]
  <1> DEFINE n == Len(s)
             m == AtLeast(1, n - k + 1)
  <1>1. n \in Nat /\ m \in Int /\ m >= 1
    BY LenProperties DEF AtLeast
  <1>2. \A i \in m..n : s[i] \in X
    BY <1>1, ElementOfSeq
  <1>3. /\ (IF m <= n THEN n - m + 1 ELSE 0) = AtMost(k, n)
        /\ \A i \in 1..AtMost(k, n) : i \in 1..(n - m + 1)
                                      /\ m + i - 1 = n - AtMost(k, n) + i
    <2> HIDE DEF n
    <2>1. CASE k <= n
      <3>1. AtMost(k, n) = k /\ m = n - k + 1
        BY <1>1, <2>1 DEF AtLeast, AtMost
      <3> HIDE DEF m
      <3> QED BY <1>1, <2>1, <3>1
    <2>2. CASE k > n
      <3>1. AtMost(k, n) = n /\ m = 1
        BY <1>1, <2>2 DEF AtLeast, AtMost
      <3> HIDE DEF m
      <3> QED BY <1>1, <2>2, <3>1
    <2> QED BY <1>1, <2>1, <2>2
  <1>4. LastN(s, k) = SubSeq(s, m, n)
    BY DEF LastN
  <1> HIDE DEF m, n
  <1>5. /\ SubSeq(s, m, n) \in Seq(X)
        /\ Len(SubSeq(s, m, n)) = IF m <= n THEN n - m + 1 ELSE 0
        /\ \A i \in 1..(n - m + 1) : SubSeq(s, m, n)[i] = s[m + i - 1]
    BY <1>1, <1>2, SubSeqProperties
  <1> QED BY <1>3, <1>4, <1>5 DEF n

\* A window of the window.
LEMMA LastNTwice ==
  ASSUME NEW X, NEW s \in Seq(X), NEW n \in Nat, NEW k \in Nat, k <= n
  PROVE  LastN(LastN(s, n), k) = LastN(s, k)
  <1> DEFINE t == LastN(s, n)
             u == LastN(t, k)
             v == LastN(s, k)
             p == Len(s)
  <1>1. p \in Nat
    BY LenProperties
  <1>2. /\ t \in Seq(X) /\ Len(t) = AtMost(n, p)
        /\ \A i \in 1..AtMost(n, p) : t[i] = s[p - AtMost(n, p) + i]
    BY LastNIs
  <1>3. /\ v \in Seq(X) /\ Len(v) = AtMost(k, p)
        /\ \A i \in 1..AtMost(k, p) : v[i] = s[p - AtMost(k, p) + i]
    BY LastNIs
  <1> HIDE DEF t, v
  <1>4. /\ u \in Seq(X) /\ Len(u) = AtMost(k, Len(t))
        /\ \A i \in 1..AtMost(k, Len(t)) : u[i] = t[Len(t) - AtMost(k, Len(t)) + i]
    BY <1>2, LastNIs
  <1> HIDE DEF u, p
  <1>5. AtMost(k, Len(t)) = AtMost(k, p)
    BY <1>1, <1>2 DEF AtMost
  <1>6. ASSUME NEW i \in 1..AtMost(k, p) PROVE u[i] = v[i]
    <2> DEFINE j == AtMost(n, p) - AtMost(k, p) + i
    <2>1. j \in 1..AtMost(n, p) /\ p - AtMost(n, p) + j = p - AtMost(k, p) + i
      BY <1>1 DEF AtMost
    <2> HIDE DEF j
    <2>2. t[j] = v[i]
      BY <1>2, <1>3, <2>1
    <2> QED BY <1>2, <1>4, <1>5, <2>2 DEF j
  <1>7. u = v
    BY <1>3, <1>4, <1>5, <1>6, SeqEqual
  <1> QED BY <1>7 DEF t, u, v

\* The sliding window is the window of the longer sequence.
LEMMA LastNSlides ==
  ASSUME NEW X, NEW s \in Seq(X), NEW n \in Nat \ {0}, NEW x \in X
  PROVE  LastN(Append(LastN(s, n), x), n) = LastN(Append(s, x), n)
  <1> DEFINE t == LastN(s, n)
             a == Append(t, x)
             b == Append(s, x)
             u == LastN(a, n)
             v == LastN(b, n)
             p == Len(s)
             q == AtMost(n, p)
  <1>1. p \in Nat /\ q \in Nat /\ q <= p /\ (q = p \/ q = n)
    BY LenProperties DEF AtMost
  <1>2. t \in Seq(X) /\ Len(t) = q /\ \A i \in 1..q : t[i] = s[p - q + i]
    BY LastNIs
  <1> HIDE DEF t
  <1>3. /\ a \in Seq(X) /\ Len(a) = q + 1 /\ a[q + 1] = x
        /\ \A i \in 1..q : a[i] = t[i]
    BY <1>2, AppendProperties
  <1>4. /\ b \in Seq(X) /\ Len(b) = p + 1 /\ b[p + 1] = x
        /\ \A i \in 1..p : b[i] = s[i]
    BY AppendProperties
  <1> HIDE DEF a, b
  <1>5. /\ u \in Seq(X) /\ Len(u) = AtMost(n, q + 1)
        /\ \A i \in 1..AtMost(n, q + 1) : u[i] = a[(q + 1) - AtMost(n, q + 1) + i]
    BY <1>3, LastNIs
  <1>6. /\ v \in Seq(X) /\ Len(v) = AtMost(n, p + 1)
        /\ \A i \in 1..AtMost(n, p + 1) : v[i] = b[(p + 1) - AtMost(n, p + 1) + i]
    <2>1. /\ v \in Seq(X) /\ Len(v) = AtMost(n, Len(b))
          /\ \A i \in 1..AtMost(n, Len(b)) : v[i] = b[Len(b) - AtMost(n, Len(b)) + i]
      BY <1>4, LastNIs
    <2>2. Len(b) = p + 1
      BY <1>4
    <2> HIDE DEF v, p
    <2> QED BY <2>1, <2>2
  <1>7. AtMost(n, p + 1) = AtMost(n, q + 1)
    BY <1>1 DEF AtMost
  <1> HIDE DEF u, v, p, q
  <1>8. ASSUME NEW i \in 1..AtMost(n, q + 1) PROVE u[i] = v[i]
    <2> DEFINE r == AtMost(n, q + 1)
               j == (q + 1) - r + i
               k == (p + 1) - r + i
    <2>1. r \in Nat /\ r <= q + 1 /\ i \in 1..r /\ j \in 1..(q + 1) /\ k = p - q + j
      BY <1>1 DEF AtMost
    <2>2. u[i] = a[j] /\ v[i] = b[k]
      BY <1>5, <1>6, <1>7
    <2> HIDE DEF j, k, r
    <2>3. CASE j = q + 1
      <3>1. k = p + 1
        BY <1>1, <2>1, <2>3
      <3> QED BY <1>3, <1>4, <2>2, <2>3, <3>1
    <2>4. CASE j # q + 1
      <3>1. j \in 1..q /\ k \in 1..p
        BY <1>1, <2>1, <2>4
      <3>2. a[j] = t[j] /\ t[j] = s[p - q + j] /\ b[k] = s[k]
        BY <1>2, <1>3, <1>4, <3>1 DEF p, q
      <3> QED BY <2>1, <2>2, <3>2
    <2> QED BY <2>3, <2>4
  <1>9. u = v
    BY <1>5, <1>6, <1>7, <1>8, SeqEqual
  <1> QED BY <1>9 DEF u, v, a, b, t

\* The hashes of entries.
LEMMA HashesAre ==
  ASSUME NEW s \in Seq(Entries)
  PROVE  /\ hashes(s) \in Seq(Headers) /\ Len(hashes(s)) = Len(s)
         /\ \A i \in 1..Len(s) : hashes(s)[i] = s[i].hash /\ s[i].hash \in Headers
  <1>1. /\ Len(s) \in Nat /\ DOMAIN s = 1..Len(s)
        /\ \A i \in 1..Len(s) : s[i] \in Entries
    BY LenProperties, ElementOfSeq
  <1>2. \A i \in 1..Len(s) : s[i].hash \in Headers
    BY <1>1 DEF Entries
  <1>3. hashes(s) \in [1..Len(s) -> Headers]
    BY <1>1, <1>2 DEF hashes
  <1>4. \A i \in 1..Len(s) : hashes(s)[i] = s[i].hash
    BY <1>1 DEF hashes
  <1> HIDE DEF hashes
  <1>5. hashes(s) \in Seq(Headers)
    BY <1>1, <1>3, SeqDef
  <1>6. DOMAIN hashes(s) = 1..Len(s) /\ DOMAIN hashes(s) = 1..Len(hashes(s))
        /\ Len(hashes(s)) \in Nat
    BY <1>3, <1>5, LenProperties
  <1>7. Len(hashes(s)) = Len(s)
    BY <1>1, <1>6
  <1> QED BY <1>2, <1>4, <1>5, <1>7

\* One entry more is one hash more.
LEMMA HashesAppend ==
  ASSUME NEW s \in Seq(Entries), NEW e \in Entries
  PROVE  hashes(Append(s, e)) = Append(hashes(s), e.hash)
  <1> DEFINE t == Append(s, e)
             a == hashes(t)
             b == Append(hashes(s), e.hash)
  <1>1. Len(s) \in Nat /\ e.hash \in Headers
    BY LenProperties DEF Entries
  <1>2. /\ t \in Seq(Entries) /\ Len(t) = Len(s) + 1 /\ t[Len(s) + 1] = e
        /\ \A i \in 1..Len(s) : t[i] = s[i]
    BY AppendProperties
  <1> HIDE DEF t
  <1>3. a \in Seq(Headers) /\ Len(a) = Len(t) /\ \A i \in 1..Len(t) : a[i] = t[i].hash
    BY <1>2, HashesAre
  <1>4. /\ hashes(s) \in Seq(Headers) /\ Len(hashes(s)) = Len(s)
        /\ \A i \in 1..Len(s) : hashes(s)[i] = s[i].hash
    BY HashesAre
  <1>5. /\ b \in Seq(Headers) /\ Len(b) = Len(s) + 1 /\ b[Len(s) + 1] = e.hash
        /\ \A i \in 1..Len(s) : b[i] = hashes(s)[i]
    <2> DEFINE l == hashes(s)
    <2>1. l \in Seq(Headers) /\ Len(l) = Len(s)
      BY <1>4
    <2> HIDE DEF l
    <2>2. /\ Append(l, e.hash) \in Seq(Headers) /\ Len(Append(l, e.hash)) = Len(l) + 1
          /\ Append(l, e.hash)[Len(l) + 1] = e.hash
          /\ \A i \in 1..Len(l) : Append(l, e.hash)[i] = l[i]
      BY <1>1, <2>1, AppendProperties
    <2> QED BY <2>1, <2>2 DEF l
  <1> HIDE DEF a, b
  <1>6. ASSUME NEW i \in 1..Len(a) PROVE a[i] = b[i]
    <2>1. CASE i = Len(s) + 1
      BY <1>1, <1>2, <1>3, <1>5, <2>1
    <2>2. CASE i # Len(s) + 1
      <3>1. i \in 1..Len(s) /\ i \in 1..Len(t)
        BY <1>1, <1>2, <1>3, <2>2
      <3> QED BY <1>2, <1>3, <1>4, <1>5, <3>1
    <2> QED BY <2>1, <2>2
  <1>7. Len(a) = Len(b)
    BY <1>2, <1>3, <1>5
  <1>8. a = b
    BY <1>3, <1>5, <1>6, <1>7, SeqEqual
  <1> QED BY <1>8 DEF a, b, t


\* The window on top of a run of entries.
Tops(s) == LastN(hashes(s), LWMA_WINDOW)

\* A run of linked entries is the end of the line of its last header.
LEMMA LineEnds ==
  ASSUME NEW s \in Seq(Entries), linked(s), NEW n \in 1..Len(s)
  PROVE  LET l == Line[s[n].hash]
         IN /\ l \in Seq(Headers) /\ Len(l) \in Nat /\ n <= Len(l)
            /\ \A j \in 1..n : l[Len(l) - n + j] = s[j].hash
  <1> DEFINE l(i) == Line[s[i].hash]
             Ends(i) == /\ i <= Len(l(i))
                        /\ \A j \in 1..i : l(i)[Len(l(i)) - i + j] = s[j].hash
             T == {i \in 1..Len(s) : ~Ends(i)}
  <1>0. Len(s) \in Nat /\ \A i \in 1..Len(s) : s[i].hash \in Headers
    BY LenProperties, HashesAre
  <1>1. \A i \in 1..Len(s) : l(i) \in Seq(Headers) /\ Len(l(i)) \in Nat \ {0}
                             /\ l(i)[Len(l(i))] = s[i].hash
    BY <1>0, LineOf
  <1>2. ASSUME T # {} PROVE FALSE
    <2>1. PICK i \in T : \A k \in T : i <= k
      <3>1. T \in SUBSET Nat
        BY <1>0
      <3> HIDE DEF T
      <3> QED BY <1>2, <3>1, LeastNat
    <2>2. i \in 1..Len(s) /\ ~Ends(i)
      OBVIOUS
    <2>3. ASSUME i > 1 PROVE i - 1 \in 1..Len(s) /\ Ends(i - 1)
      <3>1. i - 1 \in 1..Len(s) /\ ~(i <= i - 1)
        BY <1>0, <2>2, <2>3
      <3>2. i - 1 \notin T
        <4> HIDE DEF T
        <4> QED BY <2>1, <3>1
      <3> QED BY <3>1, <3>2
    <2> HIDE DEF T
    <2>4. CASE i = 1
      <3> DEFINE k == l(1)
      <3>1. Len(k) \in Nat \ {0} /\ k[Len(k)] = s[1].hash
        BY <1>1, <2>2, <2>4
      <3> HIDE DEF k
      <3>2. 1 <= Len(k) /\ \A j \in 1..1 : k[Len(k) - 1 + j] = s[j].hash
        <4>1. \A j \in 1..1 : j = 1 /\ Len(k) - 1 + j = Len(k)
          BY <3>1
        <4> QED BY <3>1, <4>1
      <3> QED BY <2>2, <2>4, <3>2 DEF k
    <2>5. CASE i > 1
      <3> DEFINE a == l(i)
                 b == l(i - 1)
                 h == s[i].hash
      <3>1. /\ i - 1 \in 1..Len(s) /\ i - 1 <= Len(b)
            /\ \A j \in 1..(i - 1) : b[Len(b) - (i - 1) + j] = s[j].hash
        BY <2>3, <2>5
      <3>2. PrevOf[h] = s[i - 1].hash /\ h \in Headers
        BY <1>0, <2>2, <2>5 DEF linked
      <3>3. PrevOf[h] # NoHash
        BY <1>0, <3>1, <3>2, HeaderAssumption
      <3>4. a = Append(b, h)
        BY <3>2, <3>3, LineDef
      <3>5. b \in Seq(Headers) /\ Len(b) \in Nat
        BY <1>1, <3>1
      <3>6. Ends(i) <=> i <= Len(a) /\ \A j \in 1..i : a[Len(a) - i + j] = s[j].hash
        OBVIOUS
      <3> HIDE DEF a, b, Ends
      <3>7. /\ Len(a) = Len(b) + 1 /\ a[Len(b) + 1] = h
            /\ \A j \in 1..Len(b) : a[j] = b[j]
        BY <3>2, <3>4, <3>5, AppendProperties
      <3>8. ASSUME NEW j \in 1..i PROVE a[Len(a) - i + j] = s[j].hash
        <4>1. CASE j = i
          <5>1. Len(a) - i + j = Len(b) + 1
            BY <2>2, <3>5, <3>7, <4>1
          <5> QED BY <3>7, <4>1, <5>1
        <4>2. CASE j # i
          <5>1. /\ j \in 1..(i - 1) /\ Len(a) - i + j = Len(b) - (i - 1) + j
                /\ Len(b) - (i - 1) + j \in 1..Len(b)
            BY <2>2, <3>1, <3>5, <3>7, <4>2
          <5> QED BY <3>1, <3>7, <5>1
        <4> QED BY <4>1, <4>2
      <3>9. i <= Len(a)
        BY <2>2, <3>1, <3>5, <3>7
      <3> QED BY <2>2, <3>6, <3>8, <3>9
    <2> QED BY <2>2, <2>4, <2>5, <1>0
  <1>3. Ends(n)
    BY <1>2
  <1> QED BY <1>1, <1>3

\* The lesser of two numbers.
LEMMA LesserOf ==
  ASSUME NEW a \in Nat, NEW b \in Nat
  PROVE  /\ AtMost(a, b) \in Nat /\ AtMost(a, b) <= a /\ AtMost(a, b) <= b
         /\ (AtMost(a, b) = a \/ AtMost(a, b) = b)
  BY DEF AtMost

\* The window on top of a run is of its last entries.
LEMMA TopsAre ==
  ASSUME NEW s \in Seq(Entries)
  PROVE  LET k == AtMost(LWMA_WINDOW, Len(s))
         IN /\ Tops(s) \in Seq(Headers) /\ Len(Tops(s)) = k
            /\ \A i \in 1..k : Tops(s)[i] = s[Len(s) - k + i].hash
  <1> DEFINE a == hashes(s)
             n == Len(s)
             k == AtMost(LWMA_WINDOW, n)
             t == Tops(s)
  <1>1. a \in Seq(Headers) /\ Len(a) = n /\ n \in Nat /\ \A i \in 1..n : a[i] = s[i].hash
    BY HashesAre, LenProperties
  <1>2. LWMA_WINDOW \in Nat
    BY HeaderAssumption
  <1>3. \A i \in 1..k : n - k + i \in 1..n
    <2>1. k \in Nat /\ k <= n
      BY <1>1, <1>2, LesserOf
    <2> HIDE DEF k, n
    <2> QED BY <1>1, <2>1 DEF n
  <1>4. t = LastN(a, LWMA_WINDOW)
    BY DEF Tops
  <1> HIDE DEF a, t
  <1>5. /\ t \in Seq(Headers) /\ Len(t) = AtMost(LWMA_WINDOW, Len(a))
        /\ \A i \in 1..AtMost(LWMA_WINDOW, Len(a)) :
             t[i] = a[Len(a) - AtMost(LWMA_WINDOW, Len(a)) + i]
    <2> DEFINE u == LastN(a, LWMA_WINDOW)
    <2>1. /\ u \in Seq(Headers) /\ Len(u) = AtMost(LWMA_WINDOW, Len(a))
          /\ \A i \in 1..AtMost(LWMA_WINDOW, Len(a)) :
               u[i] = a[Len(a) - AtMost(LWMA_WINDOW, Len(a)) + i]
      BY <1>1, <1>2, LastNIs
    <2> QED BY <1>4, <2>1
  <1>6. AtMost(LWMA_WINDOW, Len(a)) = k
    BY <1>1
  <1> HIDE DEF k, n
  <1>7. /\ t \in Seq(Headers) /\ Len(t) = k
        /\ \A i \in 1..k : t[i] = s[n - k + i].hash
    BY <1>1, <1>3, <1>5, <1>6
  <1> QED BY <1>7 DEF t, k, n

\* Where the run is long enough, its window is that of the whole line.
LEMMA TopsOfLine ==
  ASSUME NEW s \in Seq(Entries), linked(s), s # <<>>,
         NEW l, l = Line[s[Len(s)].hash],
         AtMost(LWMA_WINDOW, Len(l)) = AtMost(LWMA_WINDOW, Len(s))
  PROVE  Tops(s) = LastN(l, LWMA_WINDOW)
  <1> DEFINE n == Len(s)
             m == Len(l)
             k == AtMost(LWMA_WINDOW, n)
             t == Tops(s)
             w == LastN(l, LWMA_WINDOW)
  <1>1. n \in Nat /\ n \in 1..n /\ LWMA_WINDOW \in Nat
    BY LenProperties, EmptySeq, HeaderAssumption
  <1>2. /\ l \in Seq(Headers) /\ m \in Nat /\ n <= m
        /\ \A j \in 1..n : l[m - n + j] = s[j].hash
    BY <1>1, LineEnds
  <1>3. /\ t \in Seq(Headers) /\ Len(t) = k
        /\ \A i \in 1..k : t[i] = s[n - k + i].hash
    BY TopsAre
  <1>4. /\ w \in Seq(Headers) /\ Len(w) = AtMost(LWMA_WINDOW, m)
        /\ \A i \in 1..AtMost(LWMA_WINDOW, m) : w[i] = l[m - AtMost(LWMA_WINDOW, m) + i]
    BY <1>1, <1>2, LastNIs
  <1> HIDE DEF w, t
  <1>5. AtMost(LWMA_WINDOW, m) = k
    OBVIOUS
  <1>6. \A i \in 1..k : n - k + i \in 1..n /\ m - n + (n - k + i) = m - k + i
    <2>1. k \in Nat /\ k <= n
      BY <1>1, LesserOf
    <2> HIDE DEF k, m, n
    <2> QED BY <1>1, <1>2, <2>1
  <1> HIDE DEF k, m, n
  <1>7. \A i \in 1..k : t[i] = w[i]
    <2> SUFFICES ASSUME NEW i \in 1..k PROVE t[i] = w[i]
      OBVIOUS
    <2>1. n - k + i \in 1..n /\ m - n + (n - k + i) = m - k + i
      BY <1>6
    <2>2. t[i] = s[n - k + i].hash
      BY <1>3
    <2>3. w[i] = l[m - k + i]
      BY <1>4, <1>5
    <2>4. l[m - n + (n - k + i)] = s[n - k + i].hash
      BY <1>2, <2>1
    <2> QED BY <2>1, <2>2, <2>3, <2>4
  <1>8. t = w
    BY <1>3, <1>4, <1>5, <1>7, SeqEqual
  <1> QED BY <1>8 DEF t, w

-----------------------------------------------------------------------------
(* What is verified by a window is what a node verifies by everything.     *)

\* The last of the last is the last.
LEMMA LastOfLastN ==
  ASSUME NEW l \in Seq(Headers), Len(l) # 0
  PROVE  /\ Len(LastN(l, LWMA_WINDOW)) = AtMost(LWMA_WINDOW, Len(l))
         /\ LastOf(LastN(l, LWMA_WINDOW)) = LastOf(l)
  <1> DEFINE w == LastN(l, LWMA_WINDOW)
             k == AtMost(LWMA_WINDOW, Len(l))
  <1>1. Len(l) \in Nat \ {0} /\ LWMA_WINDOW \in Nat \ {0, 1}
    BY LenProperties, HeaderAssumption
  <1>2. Len(w) = k /\ \A i \in 1..k : w[i] = l[Len(l) - k + i]
    BY <1>1, LastNIs
  <1>3. k \in 1..k /\ Len(l) - k + k = Len(l)
    BY <1>1 DEF AtMost
  <1> HIDE DEF w, k
  <1>4. LastOf(w) = LastOf(l)
    BY <1>2, <1>3 DEF LastOf
  <1> QED BY <1>2, <1>4 DEF w, k

\* The whole line serves for the window that is its end.
LEMMA WholeWindow ==
  ASSUME NEW l \in Seq(Headers), Len(l) # 0, NEW h \in Headers, NEW parent, NEW now,
         mandated(Len(l), h, LastN(l, LWMA_WINDOW), parent, now)
  PROVE  mandated(Len(l), h, l, parent, TimeOf[h])
  <1> DEFINE w == LastN(l, LWMA_WINDOW)
             need == windowNeed(Len(l))
  <1>1. /\ Len(l) \in Nat \ {0} /\ LWMA_WINDOW \in Nat \ {0, 1}
        /\ MTP_WINDOW \in Nat /\ MTP_WINDOW <= LWMA_WINDOW
        /\ TimeOf[h] \in Nat /\ MAX_FUTURE_DRIFT_SECS \in Nat
    BY LenProperties, HeaderAssumption
  <1>2. need \in Nat /\ need <= LWMA_WINDOW /\ need <= Len(l)
    BY <1>1 DEF windowNeed, AtMost
  <1>3. LastN(w, MTP_WINDOW) = LastN(l, MTP_WINDOW) /\ LastN(w, need) = LastN(l, need)
    BY <1>1, <1>2, LastNTwice
  <1>4. medianTime(w) = medianTime(l)
    <2> HIDE DEF w, need
    <2> QED BY <1>3, Zenon DEF medianTime
  <1>5. LastOf(w) = LastOf(l)
    BY <1>1, LastOfLastN
  <1>6. expectedBitsFromWindow(w, Len(l)) = expectedBitsFromWindow(l, Len(l))
    <2> HIDE DEF w
    <2> QED BY <1>3, <1>5, Zenon DEF expectedBitsFromWindow, need
  <1>7. TimeOf[h] <= TimeOf[h] + MAX_FUTURE_DRIFT_SECS
    BY <1>1
  <1>8. checkTimeRules(h, w, parent, now) /\ BitsOf[h] = expectedBitsFromWindow(w, Len(l))
    BY DEF mandated
  <1>9. checkTimeRules(h, l, parent, TimeOf[h])
    <2> HIDE DEF w
    <2> QED BY <1>4, <1>7, <1>8 DEF checkTimeRules
  <1>10. BitsOf[h] = expectedBitsFromWindow(l, Len(l))
    BY <1>6, <1>8
  <1>11. Len(l) >= windowNeed(Len(l))
    BY <1>1, <1>2
  <1> QED BY <1>9, <1>10, <1>11 DEF mandated

\* A node accepts h as the n-th header of its chain.
Good(h, n) == NodeValid[h] /\ Len(Line[h]) = n

\* Every entry whose seed, below and up to it, is good is good itself.
Sound(s, base) ==
  \A i \in 1..Len(s) :
    (\A j \in 1..i : s[j].trusted => Good(s[j].hash, base + j)) => Good(s[i].hash, base + i)

\* What the client has verified h by, on top of a run of entries.
Checks(s, base, h) ==
  /\ h \in PowOk
  /\ IF base + Len(s) = 0 THEN h = GENESIS
     ELSE /\ s # <<>> /\ PrevOf[h] = s[Len(s)].hash
          /\ \E now : mandated(base + Len(s), h, Tops(s), s[Len(s)].hash, now)

\* A header the client verifies by the window it holds is one a node accepts,
\* which holds every header since genesis.
LEMMA ChecksAreANodes ==
  ASSUME NEW s \in Seq(Entries), linked(s), NEW base \in Nat, NEW h \in Headers,
         Checks(s, base, h), s # <<>> => Good(s[Len(s)].hash, base + Len(s))
  PROVE  Good(h, base + Len(s) + 1)
  <1> DEFINE n == Len(s)
  <1>0. n \in Nat /\ (n = 0 <=> s = <<>>)
    BY LenProperties, EmptySeq
  <1>1. CASE base + n = 0
    <2>1. h = GENESIS /\ h \in PowOk
      BY <1>1 DEF Checks
    <2>2. NodeValid[h] /\ Len(Line[h]) = 1
      BY <2>1, NodeValidDef, LineOf, HeaderAssumption
    <2> QED BY <1>0, <1>1, <2>2 DEF Good
  <1>2. CASE base + n # 0
    <2> DEFINE p == s[n].hash
               l == Line[p]
    <2>1. /\ h \in PowOk /\ s # <<>> /\ PrevOf[h] = p
          /\ \E now : mandated(base + n, h, Tops(s), p, now)
      BY <1>2 DEF Checks
    <2>2. n \in 1..n /\ p \in Headers /\ NodeValid[p] /\ Len(l) = base + n
      BY <1>0, <2>1, HashesAre DEF Good
    <2>3. /\ l \in Seq(Headers) /\ n <= Len(l)
          /\ \A j \in 1..n : l[Len(l) - n + j] = s[j].hash
      BY <2>2, LineEnds
    <2> DEFINE w == LastN(l, LWMA_WINDOW)
               t == Tops(s)
               k == AtMost(LWMA_WINDOW, n)
               m == Len(l)
    <2>4. Len(t) = k
      BY TopsAre
    <2>6. m \in Nat \ {0} /\ n <= m /\ m = base + n
      BY <1>0, <2>2, <2>3
    <2> HIDE DEF w, t, l, p
    <2>7. k >= windowNeed(m)
      <3>1. \E now : mandated(m, h, t, p, now)
        <4> HIDE DEF m
        <4> QED BY <2>1, <2>6 DEF t
      <3>2. Len(t) >= windowNeed(m)
        BY <3>1 DEF mandated
      <3> QED BY <2>4, <3>2
    <2>7a. LWMA_WINDOW \in Nat /\ LWMA_WINDOW > 1 /\ n \in Nat \ {0}
      <3>1. LWMA_WINDOW \in Nat /\ LWMA_WINDOW > 1
        BY HeaderAssumption
      <3> QED BY <1>0, <2>1, <3>1
    <2> HIDE DEF k, m, n
    <2>8. AtMost(LWMA_WINDOW, m) = k
      <3>1. m >= 2 => k >= AtMost(LWMA_WINDOW, m)
        BY <2>6, <2>7 DEF windowNeed
      <3>2. /\ k \in Nat /\ k <= LWMA_WINDOW /\ k <= n
            /\ (k = LWMA_WINDOW \/ k = n)
        BY <2>7a, LesserOf DEF k
      <3>3. /\ AtMost(LWMA_WINDOW, m) \in Nat /\ AtMost(LWMA_WINDOW, m) <= LWMA_WINDOW
            /\ AtMost(LWMA_WINDOW, m) <= m
            /\ (AtMost(LWMA_WINDOW, m) = LWMA_WINDOW \/ AtMost(LWMA_WINDOW, m) = m)
        BY <2>6, <2>7a, LesserOf
      <3> QED BY <2>6, <2>7a, <3>1, <3>2, <3>3
    <2>9. AtMost(LWMA_WINDOW, Len(l)) = AtMost(LWMA_WINDOW, Len(s)) /\ l = Line[s[Len(s)].hash]
      BY <2>8 DEF k, m, n, l, p
    <2>11. t = w
      BY <2>1, <2>9, TopsOfLine DEF t, w
    <2>12. mandated(m, h, l, p, TimeOf[h])
      <3>1. \E now : mandated(m, h, w, p, now)
        BY <2>1, <2>6, <2>11 DEF t
      <3> QED BY <2>3, <2>6, <3>1, WholeWindow DEF w, m
    <2>13. PrevOf[h] # NoHash
      BY <2>1, <2>2, HeaderAssumption
    <2>14. Len(Line[h]) = m + 1 /\ Front(Line[h]) = l
      BY <2>1, <2>13, LineOf DEF l, m
    <2>15. NodeRules(h)
      BY <2>1, <2>6, <2>12, <2>14 DEF NodeRules
    <2>16. NodeValid[h]
      BY <2>1, <2>2, <2>13, <2>15, NodeValidDef
    <2>17. base + Len(s) + 1 = m + 1
      BY <2>6 DEF n
    <2> HIDE DEF l, m
    <2> QED BY <2>14, <2>16, <2>17 DEF Good
  <1> QED BY <1>1, <1>2

\* One entry more: trusted, or verified on top of the rest.
LEMMA SoundExtends ==
  ASSUME NEW s \in Seq(Entries), linked(s), NEW base \in Nat, Sound(s, base),
         NEW e \in Entries, e.trusted \/ Checks(s, base, e.hash)
  PROVE  Sound(Append(s, e), base)
  <1> DEFINE t == Append(s, e)
             n == Len(s)
  <1>1. /\ t \in Seq(Entries) /\ Len(t) = n + 1 /\ n \in Nat /\ t[n + 1] = e
        /\ \A i \in 1..n : t[i] = s[i]
    BY AppendProperties, LenProperties
  <1> HIDE DEF t
  <1> SUFFICES ASSUME NEW i \in 1..(n + 1),
                      \A j \in 1..i : t[j].trusted => Good(t[j].hash, base + j)
               PROVE  Good(t[i].hash, base + i)
    BY <1>1 DEF Sound, t
  <1>2. CASE i <= n
    <2>1. i \in 1..n /\ t[i] = s[i]
      BY <1>1, <1>2
    <2>2. \A j \in 1..i : t[j] = s[j]
      BY <1>1, <1>2
    <2>3. \A j \in 1..i : s[j].trusted => Good(s[j].hash, base + j)
      BY <2>2
    <2>4. Good(s[i].hash, base + i)
      BY <2>1, <2>3, Zenon DEF Sound
    <2> QED BY <2>1, <2>4
  <1>3. CASE i = n + 1
    <2>1. \A j \in 1..n : t[j] = s[j] /\ j \in 1..i
      BY <1>1, <1>3
    <2>2. CASE e.trusted
      <3>1. i \in 1..i
        BY <1>1, <1>3
      <3> QED BY <1>1, <1>3, <2>2, <3>1
    <2>3. CASE Checks(s, base, e.hash)
      <3>1. s # <<>> => Good(s[n].hash, base + n)
        <4> SUFFICES ASSUME s # <<>> PROVE Good(s[n].hash, base + n)
          OBVIOUS
        <4>1. n \in 1..n
          BY <1>1, EmptySeq
        <4> QED BY <2>1, <4>1 DEF Sound
      <3>2. e.hash \in Headers /\ base + n + 1 = base + (n + 1)
        BY <1>1 DEF Entries
      <3>3. Good(e.hash, base + n + 1)
        BY <2>3, <3>1, <3>2, ChecksAreANodes
      <3> QED BY <1>1, <1>3, <3>2, <3>3
    <2> QED BY <2>2, <2>3
  <1> QED BY <1>1, <1>2, <1>3

-----------------------------------------------------------------------------
(* Every step keeps the chain sound.                                       *)

\* What the client holds, and what it is about to adopt, is sound; a reorg's
\* sliding window is the one on top of the chain it would adopt.
SoundInv ==
  /\ Sound(chain, baseHeight)
  /\ task.kind = "reorg" => /\ Sound(candidate, baseHeight)
                            /\ task.window = Tops(candidate)

\* A run of one's own entries.
LEMMA Below ==
  ASSUME NEW s \in Seq(Entries), NEW n \in Int, NEW m \in Int, m >= 1, n <= Len(s)
  PROVE  /\ SubSeq(s, m, n) \in Seq(Entries)
         /\ Len(SubSeq(s, m, n)) = IF m <= n THEN n - m + 1 ELSE 0
         /\ \A i \in 1..(n - m + 1) : SubSeq(s, m, n)[i] = s[m + i - 1]
  <1>1. Len(s) \in Nat
    BY LenProperties
  <1>2. \A i \in m..n : s[i] \in Entries
    BY <1>1, ElementOfSeq
  <1> QED BY <1>2, SubSeqProperties

\* The window below a height.
LEMMA WindowIs ==
  ASSUME Types, NEW height \in Nat, height >= baseHeight, height <= nextHeight
  PROVE  windowBefore(height) = Tops(SubSeq(chain, 1, height - baseHeight))
  <1> DEFINE n == height - baseHeight
             m == AtLeast(1, n - LWMA_WINDOW + 1)
             u == SubSeq(chain, 1, n)
             v == SubSeq(chain, m, n)
             w == SubSeq(hashes(u), m, n)
  <1>1. /\ chain \in Seq(Entries) /\ Len(chain) \in Nat /\ baseHeight \in Nat
        /\ LWMA_WINDOW \in Nat /\ LWMA_WINDOW > 0
    BY ClientAssumption, HeaderAssumption, LenProperties DEF Types
  <1>2. n \in Nat /\ n <= Len(chain) /\ m \in Int /\ m >= 1 /\ m <= n + 1
    BY <1>1 DEF nextHeight, AtLeast
  <1>3. windowBefore(height) = hashes(v)
    BY DEF windowBefore
  <1>4. Len(hashes(u)) = n => Tops(u) = w
    <2> HIDE DEF u, n
    <2> QED BY DEF Tops, LastN
  <1> HIDE DEF n, m
  <1>5. u \in Seq(Entries) /\ Len(u) = n /\ \A i \in 1..n : u[i] = chain[i]
    <2>1. /\ u \in Seq(Entries) /\ Len(u) = IF 1 <= n THEN n - 1 + 1 ELSE 0
          /\ \A i \in 1..(n - 1 + 1) : u[i] = chain[1 + i - 1]
      BY <1>1, <1>2, Below
    <2> HIDE DEF u
    <2> QED BY <1>2, <2>1
  <1>6. /\ v \in Seq(Entries) /\ Len(v) = n - m + 1
        /\ \A i \in 1..(n - m + 1) : v[i] = chain[m + i - 1]
    <2>1. /\ v \in Seq(Entries) /\ Len(v) = IF m <= n THEN n - m + 1 ELSE 0
          /\ \A i \in 1..(n - m + 1) : v[i] = chain[m + i - 1]
      BY <1>1, <1>2, Below
    <2> HIDE DEF v
    <2> QED BY <1>2, <2>1
  <1> HIDE DEF u, v
  <1>7. /\ hashes(u) \in Seq(Headers) /\ Len(hashes(u)) = n
        /\ \A i \in 1..n : hashes(u)[i] = u[i].hash /\ u[i].hash \in Headers
    BY <1>5, HashesAre
  <1>8. /\ hashes(v) \in Seq(Headers) /\ Len(hashes(v)) = n - m + 1
        /\ \A i \in 1..(n - m + 1) : hashes(v)[i] = v[i].hash
    BY <1>6, HashesAre
  <1>9. /\ w \in Seq(Headers) /\ Len(w) = n - m + 1
        /\ \A i \in 1..(n - m + 1) : w[i] = hashes(u)[m + i - 1]
    <2>1. \A i \in m..n : hashes(u)[i] \in Headers
      BY <1>2, <1>7
    <2>2. /\ w \in Seq(Headers) /\ Len(w) = IF m <= n THEN n - m + 1 ELSE 0
          /\ \A i \in 1..(n - m + 1) : w[i] = hashes(u)[m + i - 1]
      BY <1>2, <2>1, SubSeqProperties
    <2> HIDE DEF w
    <2> QED BY <1>2, <2>2
  <1> HIDE DEF w
  <1>10. ASSUME NEW i \in 1..(n - m + 1) PROVE hashes(v)[i] = w[i]
    <2>1. m + i - 1 \in 1..n
      BY <1>2
    <2> QED BY <1>5, <1>6, <1>7, <1>8, <1>9, <2>1
  <1>11. hashes(v) = w
    BY <1>8, <1>9, <1>10, SeqEqual
  <1> QED BY <1>3, <1>4, <1>7, <1>11 DEF u, n

\* The whole chain below its next height.
LEMMA WindowOnTop ==
  ASSUME Types
  PROVE  windowBefore(nextHeight) = Tops(chain)
  <1> DEFINE n == nextHeight - baseHeight
             u == SubSeq(chain, 1, n)
  <1>1. chain \in Seq(Entries) /\ Len(chain) \in Nat /\ baseHeight \in Nat
    BY ClientAssumption, LenProperties DEF Types
  <1>2. /\ n = Len(chain) /\ nextHeight \in Nat /\ nextHeight >= baseHeight
        /\ nextHeight <= nextHeight
    BY <1>1 DEF nextHeight
  <1>3. windowBefore(nextHeight) = Tops(u)
    BY <1>2, WindowIs
  <1> HIDE DEF n
  <1>4. /\ u \in Seq(Entries) /\ Len(u) = IF 1 <= n THEN n - 1 + 1 ELSE 0
        /\ \A i \in 1..(n - 1 + 1) : u[i] = chain[1 + i - 1]
    BY <1>1, <1>2, Below
  <1> HIDE DEF u
  <1>5. Len(u) = Len(chain) /\ \A i \in 1..Len(u) : u[i] = chain[i]
    BY <1>1, <1>2, <1>4
  <1>6. u = chain
    BY <1>1, <1>4, <1>5, SeqEqual
  <1> QED BY <1>3, <1>6

\* Nothing is mandated on top of an empty window.
LEMMA NoWindow ==
  ASSUME NEW height \in Nat, NEW h, NEW parent, NEW now,
         mandated(height, h, Tops(<<>>), parent, now)
  PROVE  FALSE
  <1>1. <<>> \in Seq(Entries) /\ Len(<<>>) = 0
    BY EmptySeq
  <1> DEFINE a == hashes(<<>>)
             w == LastN(a, LWMA_WINDOW)
  <1>2. a \in Seq(Headers) /\ Len(a) = 0
    <2>1. \A e \in Seq(Entries) : hashes(e) \in Seq(Headers) /\ Len(hashes(e)) = Len(e)
      BY HashesAre
    <2> HIDE DEF a
    <2> QED BY <1>1, <2>1 DEF a
  <1> HIDE DEF a
  <1>3. LWMA_WINDOW \in Nat /\ LWMA_WINDOW > 1
    BY HeaderAssumption
  <1>4. Len(w) = 0
    <2>1. Len(w) = AtMost(LWMA_WINDOW, Len(a))
      BY <1>2, <1>3, LastNIs
    <2> HIDE DEF w
    <2> QED BY <1>2, <1>3, <2>1 DEF AtMost
  <1>5. Len(w) >= windowNeed(height)
    BY DEF mandated, Tops, w, a
  <1>6. windowNeed(height) >= 1
    BY <1>3 DEF windowNeed, AtMost
  <1>7. windowNeed(height) \in Nat
    BY <1>3 DEF windowNeed, AtMost
  <1> HIDE DEF w
  <1> QED BY <1>4, <1>5, <1>6, <1>7

\* A header that is ingested was checked on top of the chain.
LEMMA IngestChecks ==
  ASSUME Types, NEW h, ingestable(nextHeight, h)
  PROVE  Checks(chain, baseHeight, h)
  <1>1. /\ verifyOne(nextHeight, h, windowBefore(nextHeight), hashAt(nextHeight - 1), clock)
        /\ nextHeight = baseHeight + Len(chain) /\ nextHeight - 1 = tipHeight
    BY DEF ingestable, nextHeight, tipHeight
  <1>2. nextHeight \in Nat
    BY ChainArithmetic
  <1>3. CASE nextHeight = 0
    BY <1>1, <1>3 DEF verifyOne, Checks
  <1>4. CASE nextHeight # 0
    <2>1. /\ h \in PowOk /\ hashAt(tipHeight) # NoHash /\ PrevOf[h] = hashAt(tipHeight)
          /\ mandated(nextHeight, h, Tops(chain), hashAt(tipHeight), clock)
      BY <1>1, <1>4, WindowOnTop DEF verifyOne
    <2>2. holds(tipHeight)
      BY <2>1 DEF hashAt
    <2>3. chain # <<>> /\ hashAt(tipHeight) = chain[Len(chain)].hash
      BY <2>2, ChainArithmetic DEF hashAt, LastOf, holds, nextHeight, tipHeight, Types
    <2> QED BY <1>1, <1>4, <2>1, <2>3 DEF Checks
  <1> QED BY <1>3, <1>4

\* A stored row is trusted, is taken as a seed, or was checked again.
LEMMA BootChecks ==
  ASSUME Types, bootable
  PROVE  \/ storedRow.trusted \/ seeding
         \/ Checks(chain, baseHeight, storedRow.hash)
  <1> DEFINE row == storedRow
             h == row.hash
  <1>1. CASE restorable(nextHeight, row) /\ ~row.trusted
    <2>0. nextHeight \in Nat /\ nextHeight = baseHeight + Len(chain)
          /\ nextHeight - 1 = tipHeight
      BY ChainArithmetic DEF nextHeight, tipHeight
    <2>1. /\ h \in PowOk /\ (nextHeight = 0 => h = GENESIS)
          /\ chain # <<>> => PrevOf[h] = LastOf(chain).hash
          /\ nextHeight # 0 =>
               mandated(nextHeight, h, Tops(chain), hashAt(tipHeight), clock)
      BY <1>1, <2>0, WindowOnTop DEF restorable
    <2> HIDE DEF h, row
    <2>2. CASE nextHeight = 0
      BY <2>0, <2>1, <2>2 DEF Checks, h, row
    <2>3. CASE nextHeight # 0
      <3>1. chain # <<>>
        BY <2>0, <2>1, <2>3, NoWindow
      <3>2. hashAt(tipHeight) = chain[Len(chain)].hash /\ LastOf(chain) = chain[Len(chain)]
        BY <3>1, ChainArithmetic DEF hashAt, LastOf
      <3> QED BY <2>0, <2>1, <2>3, <3>1, <3>2 DEF Checks, h, row
    <2> QED BY <2>2, <2>3
  <1>2. CASE ingestable(nextHeight, h)
    BY <1>2, IngestChecks
  <1> QED BY <1>1, <1>2 DEF bootable

\* The chain with one entry more is sound.
LEMMA GrownSound ==
  ASSUME IInv, Sound(chain, baseHeight), NEW h \in PowOk, NEW trusted \in BOOLEAN,
         Append1(h, trusted), trusted \/ Checks(chain, baseHeight, h),
         baseHeight' = baseHeight
  PROVE  Sound(chain, baseHeight)'
  <1> DEFINE e == Entry(h, satAddWork(chainwork, h), trusted)
  <1>1. e \in Entries /\ e.hash = h /\ e.trusted = trusted
    BY ChainArithmetic, WorkInWidth, HeaderAssumption DEF Entry, Entries, IInv
  <1>2. chain' = Append(chain, e)
    BY DEF Append1
  <1> HIDE DEF e
  <1>3. chain \in Seq(Entries) /\ linked(chain) /\ baseHeight \in Nat
    BY ClientAssumption DEF IInv, Types, Linked
  <1>4. Sound(Append(chain, e), baseHeight)
    BY <1>1, <1>3, SoundExtends
  <1> QED BY <1>2, <1>4

\* A reorg's branch stands on the chain as far as its ancestor.
BranchStarts ==
  /\ Len(candidate') \in 1..Len(chain)
  /\ \A i \in 1..Len(candidate') : candidate'[i] = chain[i]
  /\ task'.window = Tops(candidate')
  /\ UNCHANGED <<chain, baseHeight>>

LEMMA ReorgCallStarts ==
  ASSUME IInv, NEW anc \in 0..MaxHeight, NEW rows \in Served, ReorgCall(anc, rows)
  PROVE  BranchStarts
  <1> DEFINE n == anc - baseHeight + 1
             u == SubSeq(chain, 1, n)
  <1>1. /\ chain \in Seq(Entries) /\ Len(chain) \in Nat /\ baseHeight \in Nat
        /\ anc \in Nat /\ holds(anc)
    BY ClientAssumption, LenProperties DEF IInv, Types, ReorgCall
  <1>2. n \in 1..Len(chain) /\ (anc + 1) - baseHeight = n
    BY <1>1 DEF holds, nextHeight
  <1>3. /\ task'.kind = "reorg" /\ task'.anc = anc /\ task'.verified = <<>>
        /\ task'.window = windowBefore(anc + 1)
        /\ chain' = chain /\ baseHeight' = baseHeight
    BY DEF ReorgCall, NoTask, clientVars
  <1>4. /\ u \in Seq(Entries) /\ Len(u) = n /\ \A i \in 1..n : u[i] = chain[i]
    <2> HIDE DEF n
    <2>1. /\ u \in Seq(Entries) /\ Len(u) = IF 1 <= n THEN n - 1 + 1 ELSE 0
          /\ \A i \in 1..(n - 1 + 1) : u[i] = chain[1 + i - 1]
      BY <1>1, <1>2, Below
    <2> HIDE DEF u
    <2> QED BY <1>2, <2>1
  <1>5. windowBefore(anc + 1) = Tops(u)
    <2>1. anc + 1 \in Nat /\ anc + 1 >= baseHeight /\ anc + 1 <= nextHeight
      BY <1>1 DEF holds, nextHeight
    <2>2. windowBefore(anc + 1) = Tops(SubSeq(chain, 1, (anc + 1) - baseHeight))
      BY <2>1, WindowIs DEF IInv
    <2> QED BY <1>2, <2>2
  <1>6. candidate' = u
    <2>1. candidate' = u \o <<>>
      BY <1>3 DEF candidate
    <2> HIDE DEF u
    <2> QED BY <1>4, <2>1, ConcatEmptySeq
  <1> HIDE DEF u, n
  <1> QED BY <1>2, <1>3, <1>4, <1>5, <1>6 DEF BranchStarts

LEMMA ReorgCallSound ==
  ASSUME IInv, SoundInv, NEW anc \in 0..MaxHeight, NEW rows \in Served,
         ReorgCall(anc, rows)
  PROVE  SoundInv'
  <1> DEFINE u == candidate'
  <1>1. /\ Len(u) \in 1..Len(chain) /\ \A i \in 1..Len(u) : u[i] = chain[i]
        /\ task'.window = Tops(u) /\ chain' = chain /\ baseHeight' = baseHeight
    BY ReorgCallStarts DEF BranchStarts
  <1>2. Len(chain) \in Nat
    BY LenProperties DEF IInv, Types
  <1> HIDE DEF u
  <1>3. Sound(u, baseHeight)
    <2> SUFFICES ASSUME NEW i \in 1..Len(u),
                        \A j \in 1..i : u[j].trusted => Good(u[j].hash, baseHeight + j)
                 PROVE  Good(u[i].hash, baseHeight + i)
      BY DEF Sound
    <2>1. i \in 1..Len(chain) /\ \A j \in 1..i : u[j] = chain[j]
      BY <1>1, <1>2
    <2>2. u[i] = chain[i]
      BY <1>1
    <2> QED BY <2>1, <2>2 DEF SoundInv, Sound
  <1> QED BY <1>1, <1>3 DEF SoundInv, Sound, u

\* The branch has e more, checked on top of the chain the reorg would adopt.
BranchGrows(e) ==
  /\ e \in Entries /\ ~e.trusted
  /\ candidate \in Seq(Entries) /\ candidate # <<>> /\ linked(candidate)
  /\ e.work = satAddWork(LastOf(candidate).work, e.hash)
  /\ Checks(candidate, baseHeight, e.hash)
  /\ candidate' = Append(candidate, e)
  /\ task'.kind = "reorg" /\ task'.window = slide(task.window, e.hash)
  /\ UNCHANGED <<chain, baseHeight>>

LEMMA ReorgRowGrows ==
  ASSUME IInv, task.window = Tops(candidate), ReorgRow, ~EndTask
  PROVE  \E e \in Entries : BranchGrows(e)
  <1> DEFINE h == Head(task.rows)
             n == Len(task.verified)
             k == task.anc - baseHeight + 1
             e == Entry(h, satAddWork(altParent.work, h), FALSE)
  <1>1. /\ task \in Tasks /\ task.kind = "reorg" /\ task.rows # <<>>
        /\ task.anc \in Nat /\ task.verified \in Seq(Entries) /\ holds(task.anc)
        /\ baseHeight \in Nat /\ Len(chain) \in Nat
    BY ClientAssumption, LenProperties DEF ReorgRow, IInv, Types, Looping, Tasks
  <1>2. /\ task' = [task EXCEPT !.rows = Tail(task.rows),
                      !.window = slide(task.window, h),
                      !.verified = Append(task.verified, e)]
        /\ verifyOne(task.anc + n + 1, h, task.window, altParent.hash, clock)
        /\ UNCHANGED <<chain, baseHeight>>
    BY DEF ReorgRow, clientVars
  <1>3. h \in Headers /\ n \in Nat
    BY <1>1, NextRow, LenProperties DEF IInv
  <1>4. /\ k \in 1..Len(chain) /\ chain[k].hash = hashAt(task.anc)
        /\ candidate \in Seq(Entries) /\ Len(candidate) = k + n
        /\ \A i \in 1..k : candidate[i] = chain[i]
        /\ \A i \in (k + 1)..(k + n) : candidate[i] = task.verified[i - k]
        /\ linked(candidate)
    BY <1>1, CandidateIs
  <1>6. task.anc + n + 1 = baseHeight + Len(candidate) /\ task.anc + n + 1 \in Nat \ {0}
    <2> DEFINE a == task.anc
               b == baseHeight
               l == Len(candidate)
    <2>1. /\ a \in Nat /\ b \in Nat /\ n \in Nat
          /\ k \in Int /\ k = a - b + 1 /\ l = k + n
      BY <1>1, <1>3, <1>4
    <2> HIDE DEF k, n, a, b, l
    <2>2. a + n + 1 = b + l /\ a + n + 1 \in Nat \ {0}
      BY <2>1
    <2> QED BY <2>2 DEF a, b, l
  <1>7. /\ n = 0 <=> task.verified = <<>>
        /\ task.verified # <<>> => /\ n \in 1..n /\ task.verified[n] \in Entries
                                   /\ LastOf(task.verified) = task.verified[n]
    BY <1>1, <1>3, EmptySeq, ElementOfSeq DEF LastOf
  <1>8. altParent \in Entries /\ altParent = candidate[k + n]
    <2>1. CASE task.verified = <<>>
      <3>1. k + n = k /\ k \in 1..k
        BY <1>4, <1>7, <2>1
      <3>2. altParent = at(task.anc) /\ at(task.anc) \in Entries
        BY <1>1, <2>1, ChainArithmetic DEF altParent, IInv
      <3>3. at(task.anc) = chain[k]
        BY DEF at
      <3> HIDE DEF k, n
      <3> QED BY <1>4, <3>1, <3>2, <3>3
    <2>2. CASE task.verified # <<>>
      <3>1. altParent = task.verified[n] /\ altParent \in Entries
        BY <1>7, <2>2 DEF altParent
      <3>2. k \in Nat /\ n \in Nat \ {0}
        BY <1>3, <1>4, <1>7, <2>2
      <3> HIDE DEF k, n
      <3>3. k + n \in (k + 1)..(k + n) /\ (k + n) - k = n
        BY <3>2
      <3> QED BY <1>4, <3>1, <3>3
    <2> QED BY <2>1, <2>2
  <1>9. candidate # <<>>
    <2>1. Len(candidate) # 0
      BY <1>3, <1>4
    <2>2. Len(<<>>) = 0
      BY EmptySeq, Zenon
    <2> HIDE DEF k, n
    <2> QED BY <2>1, <2>2
  <1> HIDE DEF h, k, n
  <1>10. h \in PowOk
    BY <1>2 DEF verifyOne
  <1>11. Checks(candidate, baseHeight, h)
    <2>1. /\ PrevOf[h] = altParent.hash
          /\ mandated(task.anc + n + 1, h, task.window, altParent.hash, clock)
      BY <1>2, <1>6 DEF verifyOne
    <2>2. altParent.hash = candidate[Len(candidate)].hash
      BY <1>4, <1>8
    <2> QED BY <1>6, <1>9, <1>10, <2>1, <2>2 DEF Checks
  <1>12. /\ e \in Entries /\ e.hash = h /\ ~e.trusted
         /\ e.work = satAddWork(altParent.work, h)
    BY <1>3, <1>8, <1>10, WorkInWidth DEF Entry, Entries
  <1> HIDE DEF e
  <1>13. altParent = LastOf(candidate)
    BY <1>4, <1>8 DEF LastOf
  <1>14. /\ task'.kind = "reorg" /\ task'.anc = task.anc
         /\ task'.verified = Append(task.verified, e)
         /\ task'.window = slide(task.window, h)
    BY <1>1, <1>2 DEF Tasks
  <1>15. candidate' = Append(candidate, e)
    <2> DEFINE below == SubSeq(chain, 1, k)
    <2>1. below \in Seq(Entries)
      <3>1. chain \in Seq(Entries) /\ k \in Int /\ 1 \in Int /\ k <= Len(chain)
        BY <1>1, <1>4 DEF IInv, Types
      <3> QED BY <3>1, Below
    <2>2. candidate = below \o task.verified
      BY DEF candidate, k
    <2>3. candidate' = below \o Append(task.verified, e)
      BY <1>2, <1>14 DEF candidate, k
    <2> HIDE DEF below
    <2>4. below \o Append(task.verified, e) = Append(below \o task.verified, e)
      <3> DEFINE v == task.verified
                 a == below \o v
                 b == Append(v, e)
                 x == below \o b
                 y == Append(a, e)
                 p == Len(below)
                 q == Len(v)
      <3>1. v \in Seq(Entries) /\ p \in Nat /\ q \in Nat
        BY <1>1, <2>1, LenProperties
      <3> HIDE DEF v
      <3>2. /\ a \in Seq(Entries) /\ Len(a) = p + q
            /\ \A i \in 1..(p + q) : a[i] = IF i <= p THEN below[i] ELSE v[i - p]
        BY <2>1, <3>1, ConcatProperties
      <3>3. /\ b \in Seq(Entries) /\ Len(b) = q + 1 /\ b[q + 1] = e
            /\ \A i \in 1..q : b[i] = v[i]
        BY <1>12, <3>1, AppendProperties
      <3> HIDE DEF a, b
      <3>4. /\ x \in Seq(Entries) /\ Len(x) = p + Len(b)
            /\ \A i \in 1..(p + Len(b)) : x[i] = IF i <= p THEN below[i] ELSE b[i - p]
        BY <2>1, <3>3, ConcatProperties
      <3>5. /\ y \in Seq(Entries) /\ Len(y) = Len(a) + 1 /\ y[Len(a) + 1] = e
            /\ \A i \in 1..Len(a) : y[i] = a[i]
        BY <1>12, <3>2, AppendProperties
      <3> HIDE DEF x, y, p, q
      <3>6. ASSUME NEW i \in 1..(p + q + 1) PROVE x[i] = y[i]
        <4>1. CASE i = p + q + 1
          <5>1. i - p = q + 1 /\ ~(i <= p) /\ i \in 1..(p + Len(b)) /\ i = Len(a) + 1
            BY <3>1, <3>2, <3>3, <4>1
          <5> QED BY <3>3, <3>4, <3>5, <5>1
        <4>2. CASE i # p + q + 1
          <5>1. i \in 1..(p + q) /\ i \in 1..(p + Len(b)) /\ i \in 1..Len(a)
            BY <3>1, <3>2, <3>3, <4>2
          <5>2. ~(i <= p) => i - p \in 1..q
            BY <3>1, <5>1
          <5> QED BY <3>2, <3>3, <3>4, <3>5, <5>1, <5>2
        <4> QED BY <4>1, <4>2
      <3>7. Len(x) = p + q + 1 /\ Len(y) = p + q + 1
        BY <3>1, <3>2, <3>3, <3>4, <3>5
      <3>8. x = y
        BY <3>4, <3>5, <3>6, <3>7, SeqEqual
      <3> QED BY <3>8 DEF x, y, a, b, v
    <2> QED BY <2>2, <2>3, <2>4
  <1> QED BY <1>2, <1>4, <1>9, <1>11, <1>12, <1>13, <1>14, <1>15 DEF BranchGrows

\* Then the window has slid on with it, and the whole is still sound.
LEMMA ReorgRowSound ==
  ASSUME IInv, SoundInv, ReorgRow, ~EndTask
  PROVE  SoundInv'
  <1>1. Sound(candidate, baseHeight) /\ task.window = Tops(candidate)
    BY DEF SoundInv, ReorgRow
  <1>2. PICK e \in Entries : BranchGrows(e)
    BY <1>1, ReorgRowGrows
  <1>3. /\ candidate \in Seq(Entries) /\ linked(candidate) /\ baseHeight \in Nat
        /\ Checks(candidate, baseHeight, e.hash) /\ candidate' = Append(candidate, e)
        /\ task'.window = slide(task.window, e.hash)
        /\ UNCHANGED <<chain, baseHeight>>
    BY <1>2, ClientAssumption DEF BranchGrows, IInv, Types
  <1>4. Sound(Append(candidate, e), baseHeight)
    BY <1>1, <1>3, SoundExtends
  <1>5. slide(task.window, e.hash) = Tops(Append(candidate, e))
    <2> DEFINE s == hashes(candidate)
    <2>1. s \in Seq(Headers) /\ LWMA_WINDOW \in Nat \ {0} /\ e.hash \in Headers
      BY <1>3, HashesAre, HeaderAssumption DEF Entries
    <2>2. hashes(Append(candidate, e)) = Append(s, e.hash)
      BY <1>3, HashesAppend
    <2>3. task.window = LastN(s, LWMA_WINDOW)
      BY <1>1 DEF Tops
    <2> HIDE DEF s
    <2>4. LastN(Append(LastN(s, LWMA_WINDOW), e.hash), LWMA_WINDOW)
            = LastN(Append(s, e.hash), LWMA_WINDOW)
      BY <2>1, LastNSlides
    <2> QED BY <2>2, <2>3, <2>4 DEF slide, Tops
  <1>6. Sound(chain, baseHeight)'
    BY <1>1, <1>3 DEF SoundInv, Sound
  <1> QED BY <1>3, <1>4, <1>5, <1>6 DEF SoundInv

\* One header more, taken on trust or checked on top of the chain.
Takes(h, trusted) ==
  /\ Append1(h, trusted) /\ baseHeight' = baseHeight
  /\ trusted \/ Checks(chain, baseHeight, h)

LEMMA StepTakes ==
  ASSUME IInv, [Next]_vars
  PROVE  \/ Rests \/ Empties \/ Regrows
         \/ \E h \in PowOk, trusted \in BOOLEAN : Takes(h, trusted)
  <1>4. CASE SyncRow /\ ingestable(calls[task.caller].height, Head(task.rows))
    <2> DEFINE h == Head(task.rows)
    <2>1. ingestable(nextHeight, h) /\ Append1(h, FALSE) /\ baseHeight' = baseHeight
      BY <1>4 DEF SyncRow, ingestable
    <2>2. h \in PowOk /\ Checks(chain, baseHeight, h)
      BY <2>1, Ingested, IngestChecks DEF IInv
    <2> HIDE DEF h
    <2>3. Takes(h, FALSE)
      BY <2>1, <2>2 DEF Takes
    <2> QED BY <2>2, <2>3
  <1>5. CASE SeedRow /\ seedable(nextHeight, Head(task.rows))
    <2> DEFINE h == Head(task.rows)
    <2>1. h \in PowOk /\ Append1(h, TRUE) /\ baseHeight' = baseHeight
      BY <1>5 DEF SeedRow, seedable
    <2> HIDE DEF h
    <2>2. Takes(h, TRUE)
      BY <2>1 DEF Takes
    <2> QED BY <2>1, <2>2
  <1>6. CASE BootRow /\ bootable
    <2> DEFINE h == storedRow.hash
               t == storedRow.trusted \/ seeding
    <2>1. Append1(h, t) /\ baseHeight' = baseHeight
      BY <1>6 DEF BootRow
    <2>2. h \in PowOk /\ storedRow.trusted \in BOOLEAN
      BY <1>6, Booted, StoredRow DEF IInv, BootRow, Entries
    <2>3. t \in BOOLEAN
      BY <2>2
    <2>4. t \/ Checks(chain, baseHeight, h)
      BY <1>6, BootChecks DEF IInv
    <2> HIDE DEF h, t
    <2>5. Takes(h, t)
      BY <2>1, <2>4 DEF Takes
    <2> QED BY <2>2, <2>3, <2>5
  <1>7. CASE SyncRow /\ ~ingestable(calls[task.caller].height, Head(task.rows))
    BY <1>7 DEF SyncRow, SyncThrows, Rests
  <1>8. CASE SeedRow /\ ~seedable(nextHeight, Head(task.rows))
    BY <1>8 DEF SeedRow, Rests
  <1>9. CASE BootRow /\ ~bootable
    BY <1>9 DEF BootRow, Fresh, clientVars, Rests, Empties
  <1>10. CASE ~SyncRow /\ ~SeedRow /\ ~BootRow
    <2>1. [Next]_vars => \/ UNCHANGED clientVars \/ SyncRow \/ SeedRow \/ BootRow
                         \/ ReorgDecide \/ Empties
                         \/ \E c \in Callers, rows \in Served : SeedAnswer(c, rows)
                         \/ \E anc \in 0..MaxHeight : Boot(anc)
      BY DEF Next, vars, SyncCall, SyncAnswer, SeedCall, SyncFails, SeedFails, TxCall,
             TxAnswer, TxSynced, TxEnds, TxBlock, ReorgCall, ReorgRow, SaveSnapshot,
             SaveRecords, Restart, Fresh, Empties, Tick, clientVars
    <2>2. CASE UNCHANGED clientVars
      BY <2>2 DEF clientVars, Rests
    <2>3. CASE ReorgDecide
      BY <2>3 DEF ReorgDecide, Rests, Regrows, candidate
    <2>4. CASE \/ \E c \in Callers, rows \in Served : SeedAnswer(c, rows)
               \/ \E anc \in 0..MaxHeight : Boot(anc)
      BY <2>4 DEF SeedAnswer, Boot, Empties
    <2> QED BY <1>10, <2>1, <2>2, <2>3, <2>4
  <1> QED BY <1>4, <1>5, <1>6, <1>7, <1>8, <1>9, <1>10

\* What a step does to the chain leaves it sound.
LEMMA StepSoundChain ==
  ASSUME IInv, SoundInv, [Next]_vars
  PROVE  Sound(chain, baseHeight)'
  <1>0. Sound(chain, baseHeight)
    BY DEF SoundInv
  <1>1. CASE Rests
    BY <1>0, <1>1 DEF Rests, Sound
  <1>2. CASE Empties
    <2>1. Len(chain') = 0
      BY <1>2, EmptySeq, Zenon DEF Empties
    <2> QED BY <2>1 DEF Sound
  <1>3. CASE Regrows
    <2>1. chain' = candidate /\ baseHeight' = baseHeight /\ task.kind = "reorg"
      BY <1>3 DEF Regrows
    <2> QED BY <2>1 DEF SoundInv
  <1>4. ASSUME NEW h \in PowOk, NEW trusted \in BOOLEAN, Takes(h, trusted)
        PROVE  Sound(chain, baseHeight)'
    BY <1>0, <1>4, GrownSound DEF Takes
  <1> QED BY <1>1, <1>2, <1>3, <1>4, StepTakes

\* And what it does to a reorg under way.
LEMMA StepReorgs ==
  ASSUME IInv, [Next]_vars
  PROVE  \/ task'.kind # "reorg"
         \/ UNCHANGED <<chain, baseHeight, task>>
         \/ \E anc \in 0..MaxHeight, rows \in Served : ReorgCall(anc, rows)
         \/ ReorgRow /\ ~EndTask
  <1>1. EndTask => task'.kind # "reorg"
    BY NoTaskType DEF EndTask
  <1>2. CASE SyncRow \/ SeedRow \/ BootRow
    <2>1. task \in Tasks /\ task.kind # "reorg"
      BY <1>2 DEF IInv, Types, SyncRow, SeedRow, BootRow
    <2>2. \/ EndTask \/ task' = task
          \/ task' = [task EXCEPT !.rows = Tail(task.rows)]
      BY <1>2 DEF SyncRow, SyncThrows, SeedRow, BootRow, EndTask
    <2>3. CASE task' = [task EXCEPT !.rows = Tail(task.rows)]
      BY <2>1, <2>3 DEF Tasks
    <2> QED BY <1>1, <2>1, <2>2, <2>3
  <1>3. CASE \/ \E c \in Callers, rows \in Served : SyncAnswer(c, rows) \/ SeedAnswer(c, rows)
             \/ \E anc \in 0..MaxHeight : Boot(anc)
    BY <1>3 DEF SyncAnswer, SeedAnswer, Boot, NoTask
  <1>4. \/ UNCHANGED <<chain, baseHeight, task>> \/ EndTask
        \/ (\E anc \in 0..MaxHeight, rows \in Served : ReorgCall(anc, rows))
        \/ (ReorgRow /\ ~EndTask) \/ SyncRow \/ SeedRow \/ BootRow
        \/ (\E c \in Callers, rows \in Served : SyncAnswer(c, rows) \/ SeedAnswer(c, rows))
        \/ (\E anc \in 0..MaxHeight : Boot(anc))
    BY DEF Next, vars, SyncCall, SeedCall, SyncFails, SeedFails, TxCall, TxAnswer,
           TxSynced, TxEnds, TxBlock, ReorgDecide, SaveSnapshot, SaveRecords, Restart,
           Tick, clientVars
  <1> QED BY <1>1, <1>2, <1>3, <1>4

LEMMA StepSound == IInv /\ SoundInv /\ [Next]_vars => SoundInv'
  <1> SUFFICES ASSUME IInv, SoundInv, [Next]_vars PROVE SoundInv'
    OBVIOUS
  <1>1. Sound(chain, baseHeight)'
    BY StepSoundChain
  <1>2. CASE task'.kind # "reorg"
    BY <1>1, <1>2 DEF SoundInv
  <1>3. CASE UNCHANGED <<chain, baseHeight, task>>
    BY <1>3 DEF SoundInv, Sound, candidate
  <1>4. CASE \E anc \in 0..MaxHeight, rows \in Served : ReorgCall(anc, rows)
    BY <1>4, ReorgCallSound
  <1>5. CASE ReorgRow /\ ~EndTask
    BY <1>5, ReorgRowSound
  <1> QED BY <1>2, <1>3, <1>4, <1>5, StepReorgs

LEMMA InitSound == Init => SoundInv
  <1> SUFFICES ASSUME Init PROVE SoundInv
    OBVIOUS
  <1>1. Len(chain) = 0
    BY EmptySeq, Zenon DEF Init
  <1>2. Sound(chain, baseHeight)
    BY <1>1 DEF Sound
  <1> QED BY <1>2, NoTaskType DEF Init, SoundInv

LEMMA SoundInvariance == Spec => []SoundInv
  BY InitSound, StepSound, Invariance, PTL DEF Spec

-----------------------------------------------------------------------------
(* Inclusion checks.                                                       *)

\* What a check has captured, and a proof reports, is of one line of headers.
OneLine(call) ==
  LET line == Line[call.tipHash]
      depth == confirmations(call)
  IN depth \in 1..Len(line) /\ line[Len(line) - depth + 1] = call.hash

OneLineInv == \A c \in Callers : calls[c].op \in {"txBlock", "proven"} => OneLine(calls[c])

\* A captured header lies below the captured tip: both were read in one turn.
LEMMA CapturedOneLine ==
  ASSUME IInv, NEW call \in Calls, NEW height \in Nat, holds(height)
  PROVE  OneLine(Captured(call, height))
  <1> DEFINE n == Len(chain)
             j == height - baseHeight + 1
             l == Line[chain[n].hash]
             got == Captured(call, height)
  <1>1. /\ chain \in Seq(Entries) /\ n \in Nat /\ baseHeight \in Nat /\ linked(chain)
    BY ClientAssumption, LenProperties DEF IInv, Types, Linked
  <1>2. j \in 1..n /\ n \in 1..n
    BY <1>1 DEF holds, nextHeight
  <1>3. /\ Len(l) \in Nat /\ n <= Len(l)
        /\ \A i \in 1..n : l[Len(l) - n + i] = chain[i].hash
    BY <1>1, <1>2, LineEnds
  <1>4. tipHeight = baseHeight + n - 1 /\ holds(tipHeight)
    BY <1>1, <1>2 DEF tipHeight, nextHeight, holds
  <1>5. hashAt(height) = chain[j].hash
    BY DEF hashAt, at
  <1>6. hashAt(tipHeight) = chain[n].hash
    <2>1. tipHeight - baseHeight + 1 = n
      BY <1>1, <1>4
    <2> QED BY <1>4, <2>1 DEF hashAt, at
  <1>7. /\ got.height = height /\ got.hash = hashAt(height)
        /\ got.tip = tipHeight /\ got.tipHash = hashAt(tipHeight)
    BY DEF Captured, Calls
  <1> DEFINE d == tipHeight - height + 1
  <1>8. d \in 1..Len(l) /\ Len(l) - d + 1 = Len(l) - n + j
    <2> HIDE DEF l, n
    <2> QED BY <1>1, <1>2, <1>3, <1>4
  <1>9. confirmations(got) = d /\ Line[got.tipHash] = l
    BY <1>6, <1>7 DEF confirmations
  <1>10. l[Len(l) - d + 1] = got.hash
    BY <1>2, <1>3, <1>5, <1>7, <1>8
  <1> HIDE DEF got, d, l
  <1> QED BY <1>8, <1>9, <1>10 DEF OneLine, got

\* No other step makes a capture or a proof, or changes one that is there.
LEMMA StepOneLine == IInv /\ OneLineInv /\ [Next]_vars => OneLineInv'
  <1> SUFFICES ASSUME IInv, OneLineInv, [Next]_vars,
                      NEW c \in Callers, calls'[c].op \in {"txBlock", "proven"}
               PROVE  OneLine(calls'[c])
    BY DEF OneLineInv, OneLine, confirmations
  <1>0. calls \in [Callers -> Calls] /\ calls[c] \in Calls
    BY DEF IInv, Types
  <1>1. CASE calls'[c] = calls[c]
    BY <1>1 DEF OneLineInv
  <1>2. CASE \E height \in TxHeights : TxAnswer(c, height)
    <2> PICK height \in TxHeights : TxAnswer(c, height)
      BY <1>2
    <2> DEFINE wait == [calls[c] EXCEPT !.op = "txSync", !.height = nextHeight,
                                        !.to = height, !.tip = tipHeight]
    <2>1. height \in Nat /\ height >= baseHeight /\ baseHeight \in Nat
      BY ClientAssumption DEF TxAnswer, IInv, Types
    <2>2. calls'[c] = IF height > tipHeight THEN wait ELSE Captured(calls[c], height)
      BY <1>0 DEF TxAnswer
    <2>3. wait.op = "txSync"
      BY <1>0 DEF Calls
    <2> HIDE DEF wait
    <2>4. ~(height > tipHeight)
      BY <2>2, <2>3
    <2>5. holds(height)
      <3>1. nextHeight \in Nat /\ tipHeight = nextHeight - 1
        BY ChainArithmetic DEF IInv, tipHeight
      <3> QED BY <2>1, <2>4, <3>1 DEF holds
    <2> QED BY <1>0, <2>1, <2>2, <2>4, <2>5, CapturedOneLine
  <1>3. CASE TxSynced(c)
    <2>1. calls'[c] = IF holds(calls[c].to) THEN Captured(calls[c], calls[c].to) ELSE Idle
      BY <1>0, <1>3 DEF TxSynced
    <2>2. calls[c].to \in Nat /\ Idle.op = "idle"
      BY <1>0 DEF Calls, Idle
    <2>3. holds(calls[c].to)
      BY <2>1, <2>2
    <2> QED BY <1>0, <2>1, <2>2, <2>3, CapturedOneLine
  <1>4. CASE \E body \in Headers : TxBlock(c, body)
    <2> PICK body \in Headers : TxBlock(c, body)
      BY <1>4
    <2> DEFINE proof == [calls[c] EXCEPT !.op = "proven", !.hash = body]
    <2>1. calls'[c] = (IF bound(calls[c], body) THEN proof ELSE Idle)
          /\ calls[c].op = "txBlock"
      BY <1>0 DEF TxBlock
    <2>2. Idle.op = "idle"
      BY DEF Idle
    <2>3. body = calls[c].hash /\ calls'[c] = proof
      BY <2>1, <2>2 DEF bound
    <2>4. /\ proof.hash = calls[c].hash /\ proof.tip = calls[c].tip
          /\ proof.height = calls[c].height /\ proof.tipHash = calls[c].tipHash
      BY <1>0, <2>3 DEF Calls
    <2>5. OneLine(calls[c])
      BY <2>1 DEF OneLineInv
    <2> HIDE DEF proof
    <2> QED BY <2>3, <2>4, <2>5 DEF OneLine, confirmations
  <1>5. CASE calls' = [calls EXCEPT ![c] = Idle] \/ calls' = [b \in Callers |-> Idle]
    <2>1. calls'[c].op = "idle"
      BY <1>0, <1>5 DEF Idle
    <2> QED BY <2>1
  <1>6. CASE \/ \E to \in SyncTargets : SyncCall(c, to)
             \/ \E p \in SeedPoints : SeedCall(c, p)
             \/ TxCall(c)
    <2>1. calls'[c].op \in {"sync", "seed", "tx"}
      BY <1>0, <1>6 DEF SyncCall, SeedCall, TxCall, Idle
    <2> QED BY <2>1
  <1>7. CASE SyncRow /\ task.caller = c
    <2>1. calls[c].op \in {"sync", "txSync"}
      BY <1>7 DEF IInv, Looping, SyncRow, Syncing
    <2> DEFINE synced == [calls[c] EXCEPT !.op = "txSynced"]
               next == [calls[c] EXCEPT !.height = calls[c].height + 1]
    <2>2. synced.op = "txSynced" /\ next.op = calls[c].op
      BY <1>0 DEF Calls
    <2>3. calls'[c] \in {Idle, synced, next}
      BY <1>0, <1>7 DEF SyncRow, SyncThrows, EndCall
    <2> HIDE DEF synced, next
    <2>4. Idle.op = "idle"
      BY DEF Idle
    <2> QED BY <2>1, <2>2, <2>3, <2>4
  <1>8. CASE SyncRow /\ task.caller # c
    <2>1. calls'[c] = calls[c]
      BY <1>0, <1>8 DEF SyncRow, SyncThrows, EndCall
    <2> QED BY <1>1, <2>1
  <1>9. CASE SeedRow
    <2>1. calls'[c] = calls[c] \/ calls' = [calls EXCEPT ![c] = Idle]
      BY <1>0, <1>9 DEF SeedRow, EndCall
    <2> QED BY <1>1, <1>5, <2>1
  <1>10. CASE Restart
    BY <1>5, <1>10 DEF Restart
  <1>11. CASE SyncFails(c) \/ SeedFails(c) \/ TxEnds(c)
    BY <1>5, <1>11 DEF SyncFails, SeedFails, TxEnds, EndCall
  <1>12. CASE \E b \in Callers \ {c} :
                \/ \E to \in SyncTargets : SyncCall(b, to)
                \/ \E p \in SeedPoints : SeedCall(b, p)
                \/ SyncFails(b) \/ SeedFails(b) \/ TxEnds(b) \/ TxCall(b) \/ TxSynced(b)
                \/ \E height \in TxHeights : TxAnswer(b, height)
                \/ \E body \in Headers : TxBlock(b, body)
    <2>1. calls'[c] = calls[c]
      BY <1>0, <1>12 DEF SyncCall, SeedCall, SyncFails, SeedFails, TxEnds, TxCall,
                         TxSynced, TxAnswer, TxBlock, EndCall
    <2> QED BY <1>1, <2>1
  <1>13. CASE UNCHANGED calls
    BY <1>1, <1>13
  <1>14. CASE Next
    <2>1. \/ UNCHANGED calls \/ SyncRow \/ SeedRow \/ Restart
          \/ \E b \in Callers :
                \/ \E to \in SyncTargets : SyncCall(b, to)
                \/ \E p \in SeedPoints : SeedCall(b, p)
                \/ SyncFails(b) \/ SeedFails(b) \/ TxEnds(b) \/ TxCall(b) \/ TxSynced(b)
                \/ \E height \in TxHeights : TxAnswer(b, height)
                \/ \E body \in Headers : TxBlock(b, body)
      BY <1>14 DEF Next, SyncAnswer, SeedAnswer, ReorgCall, ReorgRow, ReorgDecide,
                   SaveSnapshot, SaveRecords, Boot, BootRow, Tick
    <2> QED BY <1>2, <1>3, <1>4, <1>6, <1>7, <1>8, <1>9, <1>10, <1>11, <1>12, <1>13, <2>1
  <1> QED BY <1>13, <1>14 DEF vars

LEMMA InitOneLine == Init => OneLineInv
  BY DEF Init, OneLineInv, Idle

-----------------------------------------------------------------------------
(* Restarts.                                                               *)

\* The work of every entry adds to that of the one below it.
worked(s) ==
  \A i \in 1..Len(s) :
    s[i].work = satAddWork(IF i = 1 THEN 0 ELSE s[i - 1].work, s[i].hash)

\* What is not trusted has a whole window below it.
windowed(s, base) == \A i \in 1..Len(s) : s[i].trusted \/ base = 0 \/ i > LWMA_WINDOW

Steady(s, base) == worked(s) /\ windowed(s, base)

SteadyInv ==
  /\ Steady(chain, baseHeight)
  /\ task.kind = "reorg" => Steady(candidate, baseHeight)

\* A window that serves above a base is whole.
LEMMA ChecksAreWhole ==
  ASSUME NEW s \in Seq(Entries), NEW base \in Nat, NEW h, Checks(s, base, h)
  PROVE  base = 0 \/ Len(s) >= LWMA_WINDOW
  <1> DEFINE n == Len(s)
             k == AtMost(LWMA_WINDOW, n)
  <1>1. n \in Nat /\ LWMA_WINDOW \in Nat \ {0, 1}
    BY LenProperties, HeaderAssumption
  <1>2. CASE base + n = 0
    BY <1>1, <1>2
  <1>3. CASE base + n # 0
    <2>1. Len(Tops(s)) = k
      BY TopsAre
    <2>2. \E now : mandated(base + n, h, Tops(s), s[n].hash, now)
      BY <1>3 DEF Checks
    <2>3. k >= windowNeed(base + n)
      BY <2>1, <2>2 DEF mandated
    <2>4. k \in Nat /\ k <= n /\ k <= LWMA_WINDOW
      BY <1>1, LesserOf
    <2> HIDE DEF k, n
    <2>5. CASE base + n < 2
      BY <1>1, <1>3, <2>3, <2>4, <2>5 DEF windowNeed
    <2>6. CASE ~(base + n < 2)
      <3>1. k >= AtMost(LWMA_WINDOW, base + n)
        BY <2>3, <2>6 DEF windowNeed
      <3>2. AtMost(LWMA_WINDOW, base + n) = LWMA_WINDOW
              \/ AtMost(LWMA_WINDOW, base + n) = base + n
        BY DEF AtMost
      <3>3. CASE AtMost(LWMA_WINDOW, base + n) = LWMA_WINDOW
        <4>1. n >= LWMA_WINDOW
          BY <1>1, <2>4, <3>1, <3>3
        <4> QED BY <4>1 DEF n
      <3>4. CASE AtMost(LWMA_WINDOW, base + n) = base + n
        BY <1>1, <2>4, <3>1, <3>4
      <3> QED BY <3>2, <3>3, <3>4
    <2> QED BY <1>1, <2>5, <2>6 DEF n
  <1> QED BY <1>2, <1>3

\* One entry more, trusted or checked, with the work of the rest and its own.
LEMMA SteadyExtends ==
  ASSUME NEW s \in Seq(Entries), NEW base \in Nat, Steady(s, base), NEW e \in Entries,
         e.work = satAddWork(IF s = <<>> THEN 0 ELSE LastOf(s).work, e.hash),
         e.trusted \/ Checks(s, base, e.hash)
  PROVE  Steady(Append(s, e), base)
  <1> DEFINE t == Append(s, e)
             n == Len(s)
  <1>1. /\ t \in Seq(Entries) /\ Len(t) = n + 1 /\ n \in Nat /\ t[n + 1] = e
        /\ \A i \in 1..n : t[i] = s[i]
        /\ s = <<>> <=> n = 0
    BY AppendProperties, LenProperties, EmptySeq
  <1> HIDE DEF t
  <1>2. LastOf(s) = s[n]
    BY DEF LastOf
  <1>3. e.trusted \/ base = 0 \/ n >= LWMA_WINDOW
    BY ChecksAreWhole
  <1>4. LWMA_WINDOW \in Nat
    BY HeaderAssumption
  <1>5. worked(s) /\ windowed(s, base)
    BY DEF Steady
  <1> HIDE DEF n
  <1>6. ASSUME NEW i \in 1..(n + 1)
        PROVE  /\ t[i].work = satAddWork(IF i = 1 THEN 0 ELSE t[i - 1].work, t[i].hash)
               /\ t[i].trusted \/ base = 0 \/ i > LWMA_WINDOW
    <2>1. CASE i = n + 1
      <3>1. t[i] = e
        BY <1>1, <2>1
      <3>2. e.trusted \/ base = 0 \/ i > LWMA_WINDOW
        BY <1>1, <1>3, <1>4, <2>1
      <3>3. CASE n = 0
        BY <1>1, <2>1, <3>1, <3>2, <3>3
      <3>4. CASE n # 0
        <4>1. i # 1 /\ i - 1 = n /\ n \in 1..n
          BY <1>1, <2>1, <3>4
        <4>2. t[i - 1] = s[n]
          BY <1>1, <4>1
        <4>3. e.work = satAddWork(s[n].work, e.hash)
          BY <1>1, <1>2, <3>4
        <4> QED BY <3>1, <3>2, <4>1, <4>2, <4>3
      <3> QED BY <3>3, <3>4
    <2>2. CASE i # n + 1
      <3>1. i \in 1..n /\ (i # 1 => i - 1 \in 1..n)
        BY <1>1, <2>2
      <3>2. t[i] = s[i] /\ (i # 1 => t[i - 1] = s[i - 1])
        BY <1>1, <3>1
      <3>3. /\ s[i].work = satAddWork(IF i = 1 THEN 0 ELSE s[i - 1].work, s[i].hash)
            /\ s[i].trusted \/ base = 0 \/ i > LWMA_WINDOW
        BY <1>5, <3>1 DEF worked, windowed, n
      <3> QED BY <3>2, <3>3
    <2> QED BY <2>1, <2>2
  <1>7. worked(t) /\ windowed(t, base)
    BY <1>1, <1>6 DEF worked, windowed
  <1> QED BY <1>7 DEF Steady, t

\* What a step does to the chain leaves its work and its windows.
LEMMA StepSteadyChain ==
  ASSUME IInv, SteadyInv, [Next]_vars
  PROVE  Steady(chain, baseHeight)'
  <1>0. Steady(chain, baseHeight)
    BY DEF SteadyInv
  <1>1. CASE Rests
    BY <1>0, <1>1 DEF Rests, Steady, worked, windowed
  <1>2. CASE Empties
    <2>1. Len(chain') = 0
      BY <1>2, EmptySeq, Zenon DEF Empties
    <2> QED BY <2>1 DEF Steady, worked, windowed
  <1>3. CASE Regrows
    <2>1. chain' = candidate /\ baseHeight' = baseHeight /\ task.kind = "reorg"
      BY <1>3 DEF Regrows
    <2> QED BY <2>1 DEF SteadyInv
  <1>4. ASSUME NEW h \in PowOk, NEW trusted \in BOOLEAN, Takes(h, trusted)
        PROVE  Steady(chain, baseHeight)'
    <2> DEFINE e == Entry(h, satAddWork(chainwork, h), trusted)
    <2>1. /\ e \in Entries /\ e.hash = h /\ e.trusted = trusted
          /\ e.work = satAddWork(chainwork, h)
      BY ChainArithmetic, WorkInWidth, HeaderAssumption DEF Entry, Entries, IInv
    <2>2. chain' = Append(chain, e) /\ baseHeight' = baseHeight
      BY <1>4 DEF Takes, Append1
    <2>3. trusted \/ Checks(chain, baseHeight, h)
      BY <1>4 DEF Takes
    <2> HIDE DEF e
    <2>4. chain \in Seq(Entries) /\ baseHeight \in Nat
      BY ClientAssumption DEF IInv, Types
    <2>5. chainwork = IF chain = <<>> THEN 0 ELSE LastOf(chain).work
      <3>1. CASE chain = <<>>
        <4>1. Len(chain) = 0
          BY <3>1, EmptySeq, Zenon
        <4>2. ~holds(tipHeight)
          BY <2>4, <4>1 DEF holds, tipHeight, nextHeight
        <4> QED BY <3>1, <4>2 DEF chainwork, workAt
      <3>2. CASE chain # <<>>
        BY <3>2, ChainArithmetic DEF IInv, chainwork, workAt
      <3> QED BY <3>1, <3>2
    <2>6. Steady(Append(chain, e), baseHeight)
      BY <1>0, <2>1, <2>3, <2>4, <2>5, SteadyExtends
    <2> QED BY <2>2, <2>6
  <1> QED BY <1>1, <1>2, <1>3, <1>4, StepTakes

LEMMA StepSteady == IInv /\ SoundInv /\ SteadyInv /\ [Next]_vars => SteadyInv'
  <1> SUFFICES ASSUME IInv, SoundInv, SteadyInv, [Next]_vars PROVE SteadyInv'
    OBVIOUS
  <1>1. Steady(chain, baseHeight)'
    BY StepSteadyChain
  <1>2. CASE task'.kind # "reorg"
    BY <1>1, <1>2 DEF SteadyInv
  <1>3. CASE UNCHANGED <<chain, baseHeight, task>>
    BY <1>3 DEF SteadyInv, Steady, worked, windowed, candidate
  <1>4. CASE \E anc \in 0..MaxHeight, rows \in Served : ReorgCall(anc, rows)
    <2> DEFINE u == candidate'
    <2>1. /\ Len(u) \in 1..Len(chain) /\ \A i \in 1..Len(u) : u[i] = chain[i]
          /\ chain' = chain /\ baseHeight' = baseHeight
      BY <1>4, ReorgCallStarts DEF BranchStarts
    <2>2. Len(chain) \in Nat
      BY LenProperties DEF IInv, Types
    <2> HIDE DEF u
    <2>3. worked(chain) /\ windowed(chain, baseHeight)
      BY DEF SteadyInv, Steady
    <2>4. ASSUME NEW i \in 1..Len(u)
          PROVE  /\ u[i].work = satAddWork(IF i = 1 THEN 0 ELSE u[i - 1].work, u[i].hash)
                 /\ u[i].trusted \/ baseHeight = 0 \/ i > LWMA_WINDOW
      <3>1. i \in 1..Len(chain) /\ (i # 1 => i - 1 \in 1..Len(u))
        BY <2>1, <2>2
      <3>2. u[i] = chain[i] /\ (i # 1 => u[i - 1] = chain[i - 1])
        BY <2>1, <3>1
      <3> QED BY <2>3, <3>1, <3>2 DEF worked, windowed
    <2>5. Steady(u, baseHeight)
      BY <2>4 DEF Steady, worked, windowed
    <2> QED BY <1>1, <2>1, <2>5 DEF SteadyInv, u
  <1>5. CASE ReorgRow /\ ~EndTask
    <2>1. task.window = Tops(candidate) /\ task.kind = "reorg"
      BY <1>5 DEF SoundInv, ReorgRow
    <2>2. PICK e \in Entries : BranchGrows(e)
      BY <1>5, <2>1, ReorgRowGrows
    <2>3. /\ candidate \in Seq(Entries) /\ candidate # <<>> /\ baseHeight \in Nat
          /\ e.work = satAddWork(LastOf(candidate).work, e.hash)
          /\ Checks(candidate, baseHeight, e.hash) /\ candidate' = Append(candidate, e)
          /\ UNCHANGED <<chain, baseHeight>>
      BY <2>2, ClientAssumption DEF BranchGrows, IInv, Types
    <2>4. Steady(candidate, baseHeight)
      BY <2>1 DEF SteadyInv
    <2>5. Steady(Append(candidate, e), baseHeight)
      BY <2>3, <2>4, SteadyExtends
    <2> QED BY <1>1, <2>3, <2>5 DEF SteadyInv
  <1> QED BY <1>2, <1>3, <1>4, <1>5, StepReorgs

\* A file that was not found there is a part of a chain the client had; a boot
\* reads the file in order.
FileInv ==
  file.format # "none" /\ file \notin Stored =>
    /\ linked(file.rows)
    /\ \A i \in 1..Len(file.rows) : pinCheckpoint(file.base + i - 1, file.rows[i].hash)
    /\ file.format = "snapshot" => Steady(file.rows, file.base)

BootInv ==
  task.kind = "boot" =>
    /\ file.format # "none"
    /\ file.format = "records" => task.anc \in anchors
    /\ \A i \in 1..Len(chain) : chain[i].hash = file.rows[i].hash
    /\ file.format = "snapshot" /\ file \notin Stored =>
         \A i \in 1..Len(chain) : chain[i] = file.rows[i]

RestoreInv == SteadyInv /\ FileInv /\ BootInv

LEMMA StepFile == IInv /\ SteadyInv /\ FileInv /\ [Next]_vars => FileInv'
  <1> SUFFICES ASSUME IInv, SteadyInv, FileInv, [Next]_vars PROVE FileInv'
    OBVIOUS
  <1>1. CASE file' = file
    BY <1>1 DEF FileInv, Steady, worked, windowed, linked
  <1>2. CASE SaveSnapshot
    <2>1. file'.rows = chain /\ file'.base = baseHeight
      BY <1>2 DEF SaveSnapshot
    <2>2. /\ linked(chain) /\ Steady(chain, baseHeight)
          /\ \A i \in 1..Len(chain) : pinCheckpoint(baseHeight + i - 1, chain[i].hash)
      BY DEF IInv, Linked, Pinned, SteadyInv
    <2> QED BY <2>1, <2>2 DEF FileInv
  <1>3. CASE \E from \in 0..MaxHeight : SaveRecords(from)
    <2> PICK from \in 0..MaxHeight : SaveRecords(from)
      BY <1>3
    <2> DEFINE n == nextHeight - from
               d == from - baseHeight
               rows == [i \in 1..n |-> Entry(hashAt(from + i - 1), 0, FALSE)]
    <2>1. /\ from \in Nat /\ baseHeight \in Nat /\ Len(chain) \in Nat
          /\ nextHeight = baseHeight + Len(chain) /\ holds(from)
      BY ClientAssumption, LenProperties DEF IInv, Types, SaveRecords, nextHeight
    <2>2. d \in Nat /\ n \in Nat /\ d + n = Len(chain) /\ from = baseHeight + d
      BY <2>1 DEF holds
    <2>3. file' = [format |-> "records", base |-> from, rows |-> rows]
      BY DEF SaveRecords
    <2>4. ASSUME NEW i \in 1..n PROVE rows[i].hash = chain[d + i].hash
      <3>1. from + i - 1 - baseHeight + 1 = d + i /\ holds(from + i - 1)
        BY <2>1, <2>2 DEF holds
      <3>2. rows[i] = Entry(hashAt(from + i - 1), 0, FALSE)
        OBVIOUS
      <3> HIDE DEF rows, n, d
      <3>3. \A j, k : holds(j) /\ j - baseHeight + 1 = k => hashAt(j) = chain[k].hash
        BY DEF hashAt, at
      <3>4. hashAt(from + i - 1) = chain[d + i].hash
        BY <2>1, <2>2, <3>1, <3>3
      <3>5. rows[i] = Entry(chain[d + i].hash, 0, FALSE)
        BY <3>2, <3>4
      <3> QED BY <3>5 DEF Entry
    <2>5. Len(rows) = n
      <3>1. DOMAIN rows = 1..n
        OBVIOUS
      <3>2. file' \in Files
        BY SavedFile
      <3>3. rows \in Seq(Entries)
        BY <2>3, <3>2 DEF Files
      <3> HIDE DEF rows, n
      <3>4. DOMAIN rows = 1..Len(rows) /\ Len(rows) \in Nat
        BY <3>3, LenProperties
      <3> QED BY <2>2, <3>1, <3>4
    <2> HIDE DEF rows, n, d
    <2>6. linked(rows)
      <3> SUFFICES ASSUME NEW i \in 2..n PROVE PrevOf[rows[i].hash] = rows[i - 1].hash
        BY <2>5 DEF linked
      <3>1. /\ i \in 1..n /\ i - 1 \in 1..n /\ d + (i - 1) = (d + i) - 1
            /\ d + i \in 2..Len(chain)
        BY <2>1, <2>2
      <3> QED BY <2>4, <3>1 DEF IInv, Linked, linked
    <2>7. \A i \in 1..n : pinCheckpoint(from + i - 1, rows[i].hash)
      <3> SUFFICES ASSUME NEW i \in 1..n PROVE pinCheckpoint(from + i - 1, rows[i].hash)
        OBVIOUS
      <3>1. d + i \in 1..Len(chain) /\ from + i - 1 = baseHeight + (d + i) - 1
        BY <2>1, <2>2
      <3> QED BY <2>4, <3>1 DEF IInv, Pinned
    <2> QED BY <2>3, <2>5, <2>6, <2>7 DEF FileInv
  <1>4. file' = file \/ SaveSnapshot \/ \E from \in 0..MaxHeight : SaveRecords(from)
    BY DEF Next, vars, SyncCall, SyncAnswer, SeedCall, SeedAnswer, SyncFails, SeedFails,
           TxCall, TxAnswer, TxSynced, TxEnds, TxBlock, SyncRow, SeedRow, ReorgCall,
           ReorgRow, ReorgDecide, Restart, Boot, BootRow, Tick
  <1> QED BY <1>1, <1>2, <1>3, <1>4

\* A boot goes on with the row it is at.
LEMMA StepBoots ==
  ASSUME IInv, [Next]_vars
  PROVE  \/ task'.kind # "boot"
         \/ UNCHANGED <<chain, task, file>>
         \/ \E anc \in 0..MaxHeight : Boot(anc)
         \/ BootRow /\ bootable /\ task' = task
  <1>1. EndTask => task'.kind # "boot"
    BY NoTaskType DEF EndTask
  <1>2. CASE SyncRow \/ SeedRow
    <2>1. task \in Tasks /\ task.kind # "boot"
      BY <1>2 DEF IInv, Types, SyncRow, SeedRow
    <2>2. \/ EndTask \/ task' = [task EXCEPT !.rows = Tail(task.rows)] \/ task' = task
      BY <1>2 DEF SyncRow, SyncThrows, SeedRow, EndTask
    <2>3. CASE task' = [task EXCEPT !.rows = Tail(task.rows)]
      BY <2>1, <2>3 DEF Tasks
    <2> QED BY <1>1, <2>1, <2>2, <2>3
  <1>3. CASE ReorgRow
    <2>1. task \in Tasks /\ task.kind = "reorg"
      BY <1>3 DEF IInv, Types, ReorgRow
    <2>2. EndTask \/ \E r, w, v : task' = [task EXCEPT !.rows = r, !.window = w, !.verified = v]
      BY <1>3 DEF ReorgRow
    <2>3. CASE \E r, w, v : task' = [task EXCEPT !.rows = r, !.window = w, !.verified = v]
      BY <2>1, <2>3 DEF Tasks
    <2> QED BY <1>1, <2>2, <2>3
  <1>4. CASE \/ \E c \in Callers, rows \in Served : SyncAnswer(c, rows) \/ SeedAnswer(c, rows)
             \/ \E anc \in 0..MaxHeight, rows \in Served : ReorgCall(anc, rows)
    BY <1>4 DEF SyncAnswer, SeedAnswer, ReorgCall, NoTask
  <1>5. CASE BootRow
    BY <1>1, <1>5 DEF BootRow, EndTask
  <1>6. CASE Quiet /\ task' = task
    BY <1>6, NoTaskType DEF Quiet
  <1>7. \/ UNCHANGED <<chain, task, file>> \/ EndTask \/ (Quiet /\ task' = task)
        \/ SyncRow \/ SeedRow \/ ReorgRow \/ BootRow
        \/ (\E c \in Callers, rows \in Served : SyncAnswer(c, rows) \/ SeedAnswer(c, rows))
        \/ (\E anc \in 0..MaxHeight, rows \in Served : ReorgCall(anc, rows))
        \/ (\E anc \in 0..MaxHeight : Boot(anc))
    BY DEF Next, vars, SyncCall, SeedCall, SyncFails, SeedFails, TxCall, TxAnswer,
           TxSynced, TxEnds, TxBlock, ReorgDecide, SaveSnapshot, SaveRecords, Restart,
           Tick, clientVars
  <1> QED BY <1>1, <1>2, <1>3, <1>4, <1>5, <1>6, <1>7

LEMMA StepBoot == IInv /\ FileInv /\ BootInv /\ [Next]_vars => BootInv'
  <1> SUFFICES ASSUME IInv, FileInv, BootInv, [Next]_vars, task'.kind = "boot" PROVE BootInv'
    BY DEF BootInv
  <1>1. CASE UNCHANGED <<chain, task, file>>
    BY <1>1 DEF BootInv, anchors, fileLast
  <1>2. CASE \E anc \in 0..MaxHeight : Boot(anc)
    <2> PICK anc \in 0..MaxHeight : Boot(anc)
      BY <1>2
    <2>1. /\ chain' = <<>> /\ file' = file /\ task'.anc = anc /\ file.format # "none"
          /\ file.format = "records" => anc \in anchors
      BY DEF Boot, NoTask
    <2>2. Len(chain') = 0
      BY <2>1, EmptySeq, Zenon
    <2>3. anchors' = anchors
      BY <2>1 DEF anchors, fileLast
    <2> QED BY <2>1, <2>2, <2>3 DEF BootInv
  <1>3. CASE BootRow /\ bootable /\ task' = task
    <2> DEFINE n == Len(chain)
               h == storedRow.hash
               t == storedRow.trusted \/ seeding
               e == Entry(h, satAddWork(chainwork, h), t)
    <2>1. /\ Append1(h, t) /\ file' = file /\ task' = task /\ task.kind = "boot"
          /\ n < Len(file.rows)
      BY <1>3 DEF BootRow, IInv, Looping
    <2>2. h \in PowOk /\ storedRow \in Entries
      BY <1>3, <2>1, Booted, StoredRow DEF IInv
    <2>3. t \in BOOLEAN
      BY <2>2 DEF Entries
    <2>4. e \in Entries /\ e.hash = h /\ e.work = satAddWork(chainwork, h) /\ e.trusted = t
      BY <2>2, <2>3, ChainArithmetic, WorkInWidth, HeaderAssumption DEF Entry, Entries, IInv
    <2>5. chain' = Append(chain, e)
      BY <2>1 DEF Append1
    <2>6. storedRow = file.rows[n + 1]
      BY DEF storedRow
    <2> HIDE DEF e
    <2>7. chain \in Seq(Entries) /\ n \in Nat
      BY LenProperties DEF IInv, Types
    <2>8. /\ Len(chain') = n + 1 /\ chain'[n + 1] = e
          /\ \A i \in 1..n : chain'[i] = chain[i]
      BY <2>4, <2>5, <2>7, AppendProperties
    <2>9. file.format = "snapshot" /\ file \notin Stored => e = storedRow
      <3> SUFFICES ASSUME file.format = "snapshot", file \notin Stored PROVE e = storedRow
        OBVIOUS
      <3>1. t = storedRow.trusted
        BY <2>2 DEF seeding, Entries
      <3>2. /\ \A i \in 1..n : chain[i] = file.rows[i]
            /\ worked(file.rows)
        BY <2>1 DEF BootInv, FileInv, Steady
      <3>3. Len(file.rows) \in Nat
        BY LenProperties DEF IInv, Types, Files
      <3>4. n + 1 \in 1..Len(file.rows)
        BY <2>1, <2>7, <3>3
      <3>5. storedRow.work = satAddWork(IF n + 1 = 1 THEN 0 ELSE file.rows[n + 1 - 1].work, h)
        BY <2>6, <3>2, <3>4 DEF worked
      <3>6. chainwork = IF n + 1 = 1 THEN 0 ELSE file.rows[n + 1 - 1].work
        <4>1. CASE n = 0
          <5>1. ~holds(tipHeight)
            <6>1. baseHeight \in Nat
              BY ClientAssumption DEF IInv, Types
            <6> QED BY <4>1, <6>1 DEF holds, tipHeight, nextHeight
          <5> QED BY <4>1, <5>1 DEF chainwork, workAt
        <4>2. CASE n # 0
          <5>1. n \in 1..n /\ n + 1 - 1 = n /\ n + 1 # 1
            BY <2>7, <4>2
          <5>2. chain # <<>>
            BY <2>7, <4>2, EmptySeq
          <5>3. chainwork = LastOf(chain).work
            BY <5>2, ChainArithmetic DEF IInv, chainwork, workAt
          <5> QED BY <3>2, <5>1, <5>3 DEF LastOf
        <4> QED BY <4>1, <4>2
      <3>7. e.work = storedRow.work
        BY <2>4, <3>5, <3>6
      <3> HIDE DEF t, h, n
      <3> QED BY <2>2, <2>4, <3>1, <3>7 DEF Entries, h
    <2>10. ASSUME NEW i \in 1..Len(chain')
           PROVE  /\ chain'[i].hash = file.rows[i].hash
                  /\ file.format = "snapshot" /\ file \notin Stored =>
                       chain'[i] = file.rows[i]
      <3>1. CASE i = n + 1
        BY <2>4, <2>6, <2>8, <2>9, <3>1
      <3>2. CASE i # n + 1
        <4>1. i \in 1..n
          BY <2>7, <2>8, <3>2
        <4> QED BY <2>1, <2>8, <4>1 DEF BootInv
      <3> QED BY <3>1, <3>2
    <2>11. anchors' = anchors
      BY <2>1 DEF anchors, fileLast
    <2> HIDE DEF n, h, t
    <2> QED BY <2>1, <2>10, <2>11 DEF BootInv
  <1> QED BY <1>1, <1>2, <1>3, StepBoots

LEMMA InitRestore == Init => RestoreInv
  <1> SUFFICES ASSUME Init PROVE RestoreInv
    OBVIOUS
  <1>1. Len(chain) = 0
    BY EmptySeq, Zenon DEF Init
  <1>2. Steady(chain, baseHeight)
    BY <1>1 DEF Steady, worked, windowed
  <1>3. FileInv
    BY DEF Init, FileInv, NoFile
  <1> QED BY <1>2, <1>3, NoTaskType DEF Init, RestoreInv, SteadyInv, BootInv

LEMMA RestoreInvariance == Spec => []RestoreInv
  <1>1. IInv /\ SoundInv /\ RestoreInv /\ [Next]_vars => RestoreInv'
    BY StepSteady, StepFile, StepBoot DEF RestoreInv
  <1> QED BY <1>1, InitRestore, Invariance, SoundInvariance, PTL DEF Spec

\* What a node mandates by the whole line the client does by its window, as long
\* as the wall clock is not behind.
LEMMA WindowServes ==
  ASSUME NEW l \in Seq(Headers), Len(l) # 0, NEW h \in Headers, NEW parent,
         mandated(Len(l), h, l, parent, TimeOf[h]),
         NEW now \in Nat, TimeOf[h] <= now + MAX_FUTURE_DRIFT_SECS
  PROVE  mandated(Len(l), h, LastN(l, LWMA_WINDOW), parent, now)
  <1> DEFINE w == LastN(l, LWMA_WINDOW)
             need == windowNeed(Len(l))
  <1>1. /\ Len(l) \in Nat \ {0} /\ LWMA_WINDOW \in Nat \ {0, 1}
        /\ MTP_WINDOW \in Nat /\ MTP_WINDOW <= LWMA_WINDOW
    BY LenProperties, HeaderAssumption
  <1>2. need \in Nat /\ need <= LWMA_WINDOW /\ need <= Len(l)
    BY <1>1 DEF windowNeed, AtMost
  <1>3. LastN(w, MTP_WINDOW) = LastN(l, MTP_WINDOW) /\ LastN(w, need) = LastN(l, need)
    BY <1>1, <1>2, LastNTwice
  <1>4. Len(w) = AtMost(LWMA_WINDOW, Len(l)) /\ LastOf(w) = LastOf(l)
    BY <1>1, LastOfLastN
  <1>5. medianTime(w) = medianTime(l)
    <2> HIDE DEF w, need
    <2> QED BY <1>3, Zenon DEF medianTime
  <1>6. expectedBitsFromWindow(w, Len(l)) = expectedBitsFromWindow(l, Len(l))
    <2> HIDE DEF w
    <2> QED BY <1>3, <1>4, Zenon DEF expectedBitsFromWindow, need
  <1>7. checkTimeRules(h, l, parent, TimeOf[h]) /\ BitsOf[h] = expectedBitsFromWindow(l, Len(l))
    BY DEF mandated
  <1>8. Len(w) >= windowNeed(Len(l))
    <2> HIDE DEF w
    <2> QED BY <1>1, <1>2, <1>4 DEF AtMost
  <1> HIDE DEF w, need
  <1>9. checkTimeRules(h, w, parent, now)
    BY <1>5, <1>7 DEF checkTimeRules
  <1>10. BitsOf[h] = expectedBitsFromWindow(w, Len(l))
    BY <1>6, <1>7
  <1> QED BY <1>8, <1>9, <1>10 DEF mandated, w

\* What a node accepts on top of a chain of its own, the client finds mandated.
LEMMA HonestMandated ==
  ASSUME IInv, chain # <<>>, NEW h \in Headers, Good(h, baseHeight + Len(chain) + 1),
         PrevOf[h] = LastOf(chain).hash, baseHeight = 0 \/ Len(chain) >= LWMA_WINDOW,
         TimeOf[h] <= clock + MAX_FUTURE_DRIFT_SECS
  PROVE  mandated(nextHeight, h, windowBefore(nextHeight), hashAt(nextHeight - 1), clock)
  <1> DEFINE p == LastOf(chain).hash
             l == Line[p]
             n == Len(chain)
             w == LastN(l, LWMA_WINDOW)
  <1>1. /\ chain \in Seq(Entries) /\ n \in Nat /\ baseHeight \in Nat /\ clock \in Nat
        /\ nextHeight = baseHeight + n /\ LWMA_WINDOW \in Nat
    BY ClientAssumption, HeaderAssumption, LenProperties DEF IInv, Types, nextHeight
  <1>2. /\ p \in Headers /\ p = chain[n].hash /\ hashAt(nextHeight - 1) = p
    BY ChainArithmetic DEF IInv, hashAt, tipHeight, LastOf, Entries
  <1> HIDE DEF p
  <1>3. PrevOf[h] = p /\ p # NoHash /\ NodeValid[h] /\ Len(Line[h]) = nextHeight + 1
    BY <1>1, <1>2, HeaderAssumption DEF Good, p
  <1>4. NodeRules(h)
    BY <1>3, NodeValidIs
  <1>5. /\ l \in Seq(Headers) /\ Len(l) \in Nat \ {0} /\ Front(Line[h]) = l
        /\ Len(Line[h]) = Len(l) + 1
    BY <1>2, <1>3, LineOf
  <1> HIDE DEF l
  <1>6. Len(l) = nextHeight
    BY <1>1, <1>3, <1>5
  <1>7. mandated(Len(l), h, l, p, TimeOf[h])
    <2>1. Len(Line[h]) - 1 = Len(l)
      BY <1>5
    <2> QED BY <1>3, <1>4, <1>5, <2>1 DEF NodeRules
  <1>8. mandated(Len(l), h, w, p, clock)
    BY <1>1, <1>5, <1>7, WindowServes
  <1>9. Tops(chain) = w
    <2>1. AtMost(LWMA_WINDOW, Len(l)) = AtMost(LWMA_WINDOW, n)
      BY <1>1, <1>6 DEF AtMost
    <2>2. linked(chain) /\ l = Line[chain[n].hash]
      BY <1>2 DEF IInv, Linked, l
    <2> QED BY <1>1, <2>1, <2>2, TopsOfLine
  <1> HIDE DEF w
  <1>10. windowBefore(nextHeight) = w
    BY <1>9, WindowOnTop DEF IInv
  <1> QED BY <1>2, <1>6, <1>8, <1>10

\* The row a boot is at, in a file of valid headers: what it is and hangs on.
LEMMA HonestRow ==
  ASSUME IInv, RestoreInv, task.kind = "boot", FileHonest
  PROVE  LET n == Len(chain)
             h == storedRow.hash
         IN /\ n \in Nat /\ n + 1 \in 1..Len(file.rows) /\ storedRow \in Entries
            /\ baseHeight = file.base /\ nextHeight = file.base + n
            /\ h \in PowOk /\ pinCheckpoint(nextHeight, h)
            /\ Good(h, baseHeight + n + 1)
            /\ nextHeight = 0 => h = GENESIS
            /\ chain # <<>> => PrevOf[h] = LastOf(chain).hash
            /\ TimeOf[h] <= clock + MAX_FUTURE_DRIFT_SECS
  <1> DEFINE n == Len(chain)
             h == storedRow.hash
  <1>1. /\ n \in Nat /\ Len(file.rows) \in Nat /\ n < Len(file.rows)
        /\ file.rows \in Seq(Entries) /\ baseHeight = file.base /\ file.base \in Nat
    BY LenProperties, ClientAssumption DEF IInv, Types, Files, Looping
  <1>2. /\ n + 1 \in 1..Len(file.rows) /\ nextHeight = file.base + n
        /\ file.base + (n + 1) - 1 = nextHeight /\ DOMAIN file.rows = 1..Len(file.rows)
    BY <1>1, LenProperties DEF nextHeight
  <1>3. storedRow \in Entries /\ h \in Headers /\ storedRow = file.rows[n + 1]
    BY StoredRow DEF IInv, Entries, storedRow
  <1> HIDE DEF n, h
  <1>4. NodeValid[h] /\ Len(Line[h]) = file.base + (n + 1)
        /\ TimeOf[h] <= clock + MAX_FUTURE_DRIFT_SECS
    BY <1>2, <1>3 DEF FileHonest, h
  <1>5. Good(h, baseHeight + n + 1)
    BY <1>1, <1>4 DEF Good
  <1>6. h \in PowOk /\ (PrevOf[h] = NoHash => h = GENESIS)
    BY <1>3, <1>4, NodeValidIs
  <1>7. nextHeight = 0 => h = GENESIS
    <2> SUFFICES ASSUME nextHeight = 0, PrevOf[h] # NoHash PROVE FALSE
      BY <1>6
    <2> DEFINE a == Len(Line[h])
               b == Len(Line[PrevOf[h]])
    <2>1. a = 1
      BY <1>1, <1>2, <1>4
    <2>2. PrevOf[h] \in Headers /\ a = b + 1
      BY <1>3, LineOf
    <2>3. b \in Nat \ {0}
      BY <2>2, LineOf
    <2> HIDE DEF a, b
    <2> QED BY <2>1, <2>2, <2>3
  <1>8. /\ linked(file.rows)
        /\ \A i \in 1..Len(file.rows) : pinCheckpoint(file.base + i - 1, file.rows[i].hash)
        /\ \A i \in 1..n : chain[i].hash = file.rows[i].hash
    BY DEF RestoreInv, FileInv, BootInv, FileHonest, n
  <1>9. pinCheckpoint(nextHeight, h)
    <2>1. pinCheckpoint(file.base + (n + 1) - 1, file.rows[n + 1].hash)
      BY <1>2, <1>8
    <2> QED BY <1>2, <1>3, <2>1 DEF h
  <1>10. chain # <<>> => PrevOf[h] = LastOf(chain).hash
    <2> SUFFICES ASSUME chain # <<>> PROVE PrevOf[h] = LastOf(chain).hash
      OBVIOUS
    <2>1. n > 0
      BY ChainArithmetic DEF IInv, n
    <2>2. n + 1 \in 2..Len(file.rows) /\ n + 1 - 1 = n /\ n \in 1..n
      BY <1>1, <1>2, <2>1
    <2>3. PrevOf[file.rows[n + 1].hash] = file.rows[n].hash
      BY <1>8, <2>2 DEF linked
    <2> QED BY <1>3, <1>8, <2>2, <2>3 DEF LastOf, h, n
  <1> QED BY <1>1, <1>2, <1>3, <1>4, <1>5, <1>6, <1>7, <1>9, <1>10 DEF n, h

\* A file of valid headers is never refused.
LEMMA HonestBoots ==
  ASSUME IInv, RestoreInv, task.kind = "boot", FileHonest
  PROVE  bootable
  <1> DEFINE n == Len(chain)
             h == storedRow.hash
  <1>1. /\ n \in Nat /\ n + 1 \in 1..Len(file.rows) /\ storedRow \in Entries
        /\ baseHeight = file.base /\ nextHeight = file.base + n
        /\ h \in PowOk /\ pinCheckpoint(nextHeight, h)
        /\ Good(h, baseHeight + n + 1)
        /\ nextHeight = 0 => h = GENESIS
        /\ chain # <<>> => PrevOf[h] = LastOf(chain).hash
        /\ TimeOf[h] <= clock + MAX_FUTURE_DRIFT_SECS
    BY HonestRow
  <1>2. /\ h \in Headers /\ file.base \in Nat /\ LWMA_WINDOW \in Nat \ {0, 1}
        /\ n > 0 <=> chain # <<>>
    <2>1. h \in Headers /\ LWMA_WINDOW \in Nat \ {0, 1}
      BY <1>1, HeaderAssumption
    <2>2. file.base \in Nat
      BY ClientAssumption DEF IInv, Types, Files
    <2>3. n > 0 <=> chain # <<>>
      BY ChainArithmetic DEF IInv
    <2> QED BY <2>1, <2>2, <2>3
  <1> HIDE DEF n, h
  <1>3. ASSUME nextHeight # 0, baseHeight = 0 \/ n >= LWMA_WINDOW
        PROVE  /\ chain # <<>>
               /\ mandated(nextHeight, h, windowBefore(nextHeight),
                           hashAt(nextHeight - 1), clock)
    <2>1. chain # <<>>
      BY <1>1, <1>2, <1>3
    <2> QED BY <1>1, <1>2, <1>3, <2>1, HonestMandated DEF n
  <1>4. CASE file.format = "snapshot"
    <2>1. windowed(file.rows, file.base)
      BY <1>4 DEF RestoreInv, FileInv, FileHonest, Steady
    <2>2. storedRow.trusted \/ file.base = 0 \/ n + 1 > LWMA_WINDOW
      BY <1>1, <2>1 DEF windowed, storedRow, n
    <2>3. (nextHeight > 0 /\ (~storedRow.trusted \/ fullWindowAvailable(nextHeight))) =>
             mandated(nextHeight, h, windowBefore(nextHeight), hashAt(nextHeight - 1), clock)
      <3> SUFFICES ASSUME nextHeight > 0, ~storedRow.trusted \/ fullWindowAvailable(nextHeight)
                   PROVE  baseHeight = 0 \/ n >= LWMA_WINDOW
        BY <1>1, <1>2, <1>3
      <3>1. CASE fullWindowAvailable(nextHeight)
        BY <1>1, <1>2, <3>1 DEF fullWindowAvailable
      <3>2. CASE ~storedRow.trusted
        BY <1>1, <1>2, <2>2, <3>2
      <3> QED BY <3>1, <3>2
    <2>4. restorable(nextHeight, storedRow)
      BY <1>1, <2>3 DEF restorable, h
    <2> QED BY <1>4, <2>4 DEF bootable
  <1>5. CASE file.format # "snapshot" /\ seeding
    <2>1. seedable(nextHeight, storedRow.hash)
      BY <1>1 DEF seedable, h
    <2> QED BY <1>5, <2>1 DEF bootable
  <1>6. CASE file.format # "snapshot" /\ ~seeding
    <2>1. file.format = "records" /\ task.anc \in anchors
      BY <1>6 DEF RestoreInv, BootInv, IInv, Types, Files
    <2>2. /\ task.anc \in Nat /\ ~(nextHeight <= task.anc)
          /\ task.anc - file.base + 1 \in {LWMA_WINDOW, LWMA_WINDOW + 1}
      BY <1>6, <2>1, HeaderAssumption DEF seeding, anchors
    <2>3. n >= LWMA_WINDOW /\ nextHeight # 0
      BY <1>1, <1>2, <2>2
    <2>4. /\ chain # <<>>
          /\ mandated(nextHeight, h, windowBefore(nextHeight), hashAt(nextHeight - 1), clock)
      BY <1>3, <2>3
    <2>5. hashAt(nextHeight - 1) = LastOf(chain).hash /\ LastOf(chain).hash # NoHash
      BY <2>4, ChainArithmetic, HeaderAssumption DEF IInv, hashAt, tipHeight, Entries
    <2>6. verifyOne(nextHeight, h, windowBefore(nextHeight), hashAt(nextHeight - 1), clock)
      BY <1>1, <2>3, <2>4, <2>5 DEF verifyOne
    <2>7. ingestable(nextHeight, storedRow.hash)
      BY <2>6 DEF ingestable, h
    <2> QED BY <1>6, <2>7 DEF bootable
  <1> QED BY <1>4, <1>5, <1>6

-----------------------------------------------------------------------------
(* What a boot ends in.                                                    *)

\* Below a header a node accepts, linked headers are such headers too.
LEMMA GoodBelow ==
  ASSUME NEW s \in Seq(Entries), linked(s), NEW base \in Nat, NEW n \in 1..Len(s),
         Good(s[n].hash, base + n)
  PROVE  \A i \in 1..n : Good(s[i].hash, base + i)
  <1> DEFINE T == {d \in 0..(n - 1) : ~Good(s[n - d].hash, base + (n - d))}
  <1>0. Len(s) \in Nat /\ \A i \in 1..Len(s) : s[i].hash \in Headers
    BY LenProperties, HashesAre
  <1>1. SUFFICES T = {}
    <2> SUFFICES ASSUME NEW i \in 1..n, ~Good(s[i].hash, base + i) PROVE n - i \in T
      BY <1>1
    <2>1. n - i \in 0..(n - 1) /\ n - (n - i) = i
      BY <1>0
    <2> QED BY <2>1
  <1>2. SUFFICES ASSUME T # {} PROVE FALSE
    OBVIOUS
  <1>3. PICK m \in T : \A d \in T : m <= d
    <2>1. T \in SUBSET Nat
      OBVIOUS
    <2> HIDE DEF T
    <2> QED BY <1>2, <2>1, LeastNat
  <1>4. m \in 0..(n - 1) /\ ~Good(s[n - m].hash, base + (n - m))
    OBVIOUS
  <1>5. m # 0
    BY <1>0, <1>4
  <1>6. m \in Nat /\ m - 1 \in 0..(n - 1)
    BY <1>0, <1>4, <1>5
  <1>7. Good(s[n - (m - 1)].hash, base + (n - (m - 1)))
    <2>1. m - 1 \in T => m <= m - 1
      <3> HIDE DEF T
      <3> QED BY <1>3
    <2> QED BY <1>6, <2>1
  <1> HIDE DEF T
  <1> DEFINE k == n - (m - 1)
  <1>8. k \in 2..Len(s) /\ k - 1 = n - m /\ n - m \in 1..Len(s)
    BY <1>0, <1>4, <1>6
  <1> HIDE DEF k
  <1> DEFINE p == s[n - m].hash
             h == s[k].hash
  <1>9. PrevOf[h] = p /\ p \in Headers /\ h \in Headers /\ k \in Nat
    BY <1>0, <1>8 DEF linked
  <1>10. NodeValid[h] /\ Len(Line[h]) = base + k
    BY <1>7 DEF Good, k
  <1> HIDE DEF p, h
  <1>11. PrevOf[h] # NoHash
    BY <1>9, HeaderAssumption
  <1>12. NodeValid[p]
    BY <1>9, <1>10, <1>11, NodeValidIs
  <1>13. Len(Line[p]) = base + (n - m)
    <2> DEFINE a == Len(Line[h])
               b == Len(Line[p])
    <2>1. a = b + 1
      BY <1>9, <1>11, LineOf
    <2>2. b \in Nat
      BY <1>9, LineOf
    <2>3. a = base + k
      BY <1>10
    <2> HIDE DEF a, b
    <2>4. b = base + (n - m)
      BY <1>0, <1>6, <1>8, <2>1, <2>2, <2>3
    <2> QED BY <2>4 DEF b
  <1> QED BY <1>4, <1>12, <1>13 DEF Good, p

\* The pin a boot rests on: what is spared a check is not above it.
Covers(cp) ==
  /\ file.base <= cp /\ cp <= fileLast
  /\ file.format = "snapshot" => file.base + LWMA_WINDOW - 1 <= cp
  /\ file.format = "records" => cp = task.anc

\* Once that pin is read, a node accepts all that was.
RealFrom(cp) ==
  holds(cp) => \A i \in 1..Len(chain) : Good(chain[i].hash, baseHeight + i)

RealInv ==
  PinsHonest /\ task.kind = "boot" =>
    \E cp \in DOMAIN Checkpoints : Covers(cp) /\ RealFrom(cp)

\* What is known while a boot runs.
LEMMA Booting ==
  ASSUME IInv, BootInv, task.kind = "boot"
  PROVE  /\ Types /\ file \in Files /\ baseHeight = file.base
         /\ file.base \in Nat /\ Len(chain) \in Nat
         /\ file.format \in {"snapshot", "records"}
  <1>1. Types /\ file \in Files /\ baseHeight = file.base
    BY DEF IInv, Types, Looping
  <1>2. file.base \in Nat /\ Len(chain) \in Nat
    BY <1>1, LenProperties, ClientAssumption DEF Files, Types
  <1>3. file.format \in {"snapshot", "records"}
    BY <1>1 DEF Files, BootInv
  <1> QED BY <1>1, <1>2, <1>3

LEMMA SomeWindow == LWMA_WINDOW \in Nat /\ LWMA_WINDOW > 1
  BY HeaderAssumption

LEMMA PinsAreHeights == \A cp \in DOMAIN Checkpoints : cp \in Nat
  BY HeaderAssumption

\* Above the pin a row is checked, whatever its mark says.
LEMMA BootBeyond ==
  ASSUME IInv, BootInv, task.kind = "boot", bootable, NEW cp \in Nat, Covers(cp),
         cp < nextHeight
  PROVE  Checks(chain, baseHeight, storedRow.hash)
  <1> DEFINE row == storedRow
             h == row.hash
  <1>0. /\ nextHeight \in Nat /\ nextHeight = baseHeight + Len(chain)
        /\ nextHeight - 1 = tipHeight /\ baseHeight = file.base /\ Types
        /\ baseHeight \in Nat /\ LWMA_WINDOW \in Nat /\ Len(chain) \in Nat
        /\ file.format \in {"snapshot", "records"}
    BY Booting, SomeWindow DEF nextHeight, tipHeight
  <1>1. CASE file.format = "snapshot"
    <2>0. fullWindowAvailable(nextHeight) /\ restorable(nextHeight, row)
      BY <1>0, <1>1 DEF Covers, fullWindowAvailable, bootable
    <2>1. /\ h \in PowOk /\ (nextHeight = 0 => h = GENESIS)
          /\ chain # <<>> => PrevOf[h] = LastOf(chain).hash
          /\ nextHeight # 0 =>
               mandated(nextHeight, h, Tops(chain), hashAt(tipHeight), clock)
      BY <1>0, <2>0, WindowOnTop DEF restorable
    <2> HIDE DEF h, row
    <2>2. CASE nextHeight = 0
      BY <1>0, <2>1, <2>2 DEF Checks, h, row
    <2>3. CASE nextHeight # 0
      <3>1. chain # <<>>
        BY <1>0, <2>1, <2>3, NoWindow
      <3>2. hashAt(tipHeight) = chain[Len(chain)].hash /\ LastOf(chain) = chain[Len(chain)]
        BY <1>0, <3>1, ChainArithmetic DEF hashAt, LastOf
      <3> QED BY <1>0, <2>1, <2>3, <3>1, <3>2 DEF Checks, h, row
    <2> QED BY <2>2, <2>3
  <1>2. CASE file.format = "records"
    <2>1. ~seeding
      BY <1>0, <1>2 DEF seeding, Covers
    <2> QED BY <1>0, <1>2, <2>1, IngestChecks DEF bootable
  <1> QED BY <1>0, <1>1, <1>2

\* One row more.
LEMMA BootRowReal ==
  ASSUME IInv, BootInv, PinsHonest, BootRow, bootable,
         NEW cp \in DOMAIN Checkpoints, Covers(cp), RealFrom(cp)
  PROVE  RealFrom(cp)'
  <1> DEFINE n == Len(chain)
             h == storedRow.hash
             t == storedRow.trusted \/ seeding
  <1>1. /\ chain \in Seq(Entries) /\ n \in Nat /\ baseHeight \in Nat /\ cp \in Nat
        /\ baseHeight = file.base /\ Types /\ task.kind = "boot"
    BY LenProperties, ClientAssumption, HeaderAssumption DEF IInv, Types, Looping, BootRow
  <1>2. /\ h \in PowOk /\ storedRow \in Entries
        /\ Append1(h, t) /\ baseHeight' = baseHeight
    BY <1>1, Booted, StoredRow DEF IInv, BootRow
  <1>3. t \in BOOLEAN /\ h \in Headers
    BY <1>2 DEF Entries
  <1>4. /\ chain' \in Seq(Entries) /\ Len(chain') = n + 1
        /\ \A i \in 1..n : chain'[i] = chain[i]
        /\ chain'[n + 1].hash = h
    BY <1>1, <1>2, <1>3, Grown
  <1>5. Linked' /\ Pinned'
    <2>1. [Next]_vars
      BY DEF Next
    <2> QED BY <2>1, StepMoves, MovesKeepChain
  <1> SUFFICES ASSUME holds(cp)', NEW i \in 1..(n + 1)
               PROVE  Good(chain'[i].hash, baseHeight + i)
    BY <1>2, <1>4 DEF RealFrom
  <1>6. baseHeight <= cp /\ cp < baseHeight + n + 1 /\ nextHeight = baseHeight + n
    BY <1>1, <1>2, <1>4 DEF holds, nextHeight
  <1>7. CASE cp = baseHeight + n
    <2>1. n + 1 \in 1..Len(chain') /\ baseHeight' + (n + 1) - 1 = cp
      BY <1>1, <1>2, <1>4, <1>7
    <2>2. pinCheckpoint(cp, chain'[n + 1].hash)
      BY <1>5, <2>1 DEF Pinned
    <2>3. chain'[n + 1].hash = Checkpoints[cp] /\ cp + 1 = baseHeight + (n + 1)
      BY <1>1, <1>7, <2>2 DEF pinCheckpoint
    <2>4. Good(chain'[n + 1].hash, baseHeight + (n + 1))
      BY <2>3 DEF PinsHonest, Good
    <2>5. linked(chain')
      BY <1>5 DEF Linked, linked
    <2>6. \A j \in 1..(n + 1) : Good(chain'[j].hash, baseHeight + j)
      BY <1>1, <1>4, <2>1, <2>4, <2>5, GoodBelow
    <2> QED BY <2>6
  <1>8. CASE cp # baseHeight + n
    <2>1. holds(cp) /\ cp < nextHeight
      BY <1>1, <1>6, <1>8 DEF holds, nextHeight
    <2>2. \A j \in 1..n : Good(chain[j].hash, baseHeight + j)
      BY <2>1 DEF RealFrom
    <2>3. Checks(chain, baseHeight, h)
      BY <1>1, <2>1, BootBeyond
    <2>4. chain # <<>> => Good(chain[n].hash, baseHeight + n)
      <3> SUFFICES ASSUME chain # <<>> PROVE Good(chain[n].hash, baseHeight + n)
        OBVIOUS
      <3>1. n \in 1..n
        BY <1>1, ChainArithmetic
      <3> QED BY <2>2, <3>1
    <2>5. linked(chain)
      BY DEF IInv, Linked
    <2>6. Good(h, baseHeight + n + 1)
      BY <1>1, <1>3, <2>3, <2>4, <2>5, ChecksAreANodes
    <2>7. CASE i = n + 1
      <3>1. baseHeight + n + 1 = baseHeight + (n + 1)
        BY <1>1
      <3> QED BY <1>4, <2>6, <2>7, <3>1
    <2>8. CASE i # n + 1
      <3>1. i \in 1..n
        BY <1>1, <2>8
      <3> QED BY <1>4, <2>2, <3>1
    <2> QED BY <2>7, <2>8
  <1> QED BY <1>7, <1>8

LEMMA StepReal == IInv /\ BootInv /\ RealInv /\ [Next]_vars => RealInv'
  <1> SUFFICES ASSUME IInv, BootInv, RealInv, [Next]_vars, PinsHonest, task'.kind = "boot"
               PROVE  \E cp \in DOMAIN Checkpoints : Covers(cp)' /\ RealFrom(cp)'
    BY DEF RealInv
  <1>0. baseHeight' = file'.base
    BY StepIInv DEF IInv, Looping
  <1>1. CASE UNCHANGED <<chain, task, file>>
    <2>1. baseHeight' = baseHeight /\ task.kind = "boot"
      BY <1>0, <1>1 DEF IInv, Looping
    <2>2. PICK cp \in DOMAIN Checkpoints : Covers(cp) /\ RealFrom(cp)
      BY <2>1 DEF RealInv
    <2>3. Covers(cp)' /\ RealFrom(cp)'
      BY <1>1, <2>1, <2>2 DEF Covers, RealFrom, fileLast, holds, nextHeight
    <2> QED BY <2>3
  <1>2. CASE \E anc \in 0..MaxHeight : Boot(anc)
    <2> PICK anc \in 0..MaxHeight : Boot(anc)
      BY <1>2
    <2>1. /\ chain' = <<>> /\ file' = file /\ task'.anc = anc
          /\ \/ file.format = "snapshot" /\ anchored
             \/ file.format = "records" /\ anc \in anchors
      BY DEF Boot, NoTask
    <2>2. /\ file.base \in Nat /\ LWMA_WINDOW \in Nat /\ LWMA_WINDOW > 1
          /\ DOMAIN Checkpoints # {} /\ \A cp \in DOMAIN Checkpoints : cp \in Nat
      <3>1. file.base \in Nat
        BY ClientAssumption DEF IInv, Types, Files
      <3> QED BY <3>1, SomeWindow, PinsAreHeights DEF PinsHonest
    <2>3. \E cp \in DOMAIN Checkpoints : Covers(cp)'
      <3>1. CASE file.format = "snapshot" /\ anchored
        <4>1. PICK cp \in DOMAIN Checkpoints :
                file.base + LWMA_WINDOW - 1 <= cp /\ cp <= fileLast
          BY <2>2, <3>1 DEF anchored
        <4>2. file.base <= cp
          BY <2>2, <4>1
        <4>3. Covers(cp)'
          BY <2>1, <3>1, <4>1, <4>2 DEF Covers, fileLast
        <4> QED BY <4>3
      <3>2. CASE file.format = "records" /\ anc \in anchors
        <4>1. /\ anc \in DOMAIN Checkpoints /\ anc <= fileLast
              /\ anc - file.base + 1 \in {LWMA_WINDOW, LWMA_WINDOW + 1}
          BY <3>2 DEF anchors
        <4>2. file.base <= anc
          BY <2>2, <4>1
        <4>3. Covers(anc)'
          BY <2>1, <3>2, <4>1, <4>2 DEF Covers, fileLast
        <4> QED BY <4>1, <4>3
      <3> QED BY <2>1, <3>1, <3>2
    <2>4. Len(chain') = 0
      BY <2>1, EmptySeq, Zenon
    <2>5. \A cp \in DOMAIN Checkpoints : RealFrom(cp)'
      BY <2>4 DEF RealFrom
    <2> QED BY <2>3, <2>5
  <1>3. CASE BootRow /\ bootable /\ task' = task
    <2>1. task.kind = "boot" /\ file' = file
      BY <1>3 DEF BootRow
    <2>2. PICK cp \in DOMAIN Checkpoints : Covers(cp) /\ RealFrom(cp)
      BY <2>1 DEF RealInv
    <2>3. RealFrom(cp)'
      BY <1>3, <2>2, BootRowReal
    <2>4. Covers(cp)'
      BY <1>3, <2>1, <2>2 DEF Covers, fileLast
    <2> QED BY <2>3, <2>4
  <1> QED BY <1>1, <1>2, <1>3, StepBoots

LEMMA RealInvariance == Spec => []RealInv
  <1>1. Init => RealInv
    BY NoTaskType DEF Init, RealInv
  <1>2. IInv /\ RestoreInv /\ RealInv /\ [Next]_vars => RealInv'
    BY StepReal DEF RestoreInv
  <1> QED BY <1>1, <1>2, Invariance, RestoreInvariance, PTL DEF Spec

\* A boot ends with a row, or a restart empties the chain.
LEMMA BootEnds ==
  ASSUME IInv, [Next]_vars, task.kind = "boot", task'.kind # "boot"
  PROVE  BootRow \/ chain' = <<>>
  <1>1. ~Quiet
    BY NoTaskType DEF Quiet
  <1>2. task' # task
    OBVIOUS
  <1>3. CASE Restart
    BY <1>3 DEF Restart, Fresh
  <1> QED
    BY <1>1, <1>2, <1>3
    DEF Next, vars, SyncCall, SyncAnswer, SeedCall, SeedAnswer, SyncFails, SeedFails,
        TxCall, TxAnswer, TxSynced, TxEnds, TxBlock, SyncRow, SeedRow, ReorgCall,
        ReorgRow, ReorgDecide, SaveSnapshot, SaveRecords, Boot, Tick

-----------------------------------------------------------------------------
(* The theorems.                                                           *)

\* The client's state stays well formed, whatever is served: in particular
\* cumulative work never leaves its width, and every loop over headers has one
\* to go on with.
THEOREM ClientTypes == Spec => []TypeOK
  <1>1. IInv => TypeOK
    <2> SUFFICES ASSUME IInv PROVE TypeOK
      OBVIOUS
    <2>1. Types
      BY DEF IInv
    <2>2. ASSUME NEW s \in Seq(Entries), NEW i \in DOMAIN s PROVE IsEntry(s[i])
      <3>1. s[i] \in Entries
        BY <2>2, LenProperties, ElementOfSeq
      <3> QED BY <3>1 DEF IsEntry, Entries
    <2>3. file.rows \in Seq(Entries) /\ chain \in Seq(Entries)
      BY <2>1 DEF Types, Files
    <2>4. \A c \in Callers : calls[c] \in Calls
      BY <2>1 DEF Types
    <2>5. task.kind \in {"none", "sync", "seed", "reorg", "boot"}
          /\ task.caller \in Callers \cup {Nobody} /\ task.anc \in Nat
      BY <2>1 DEF Types, Tasks
    <2>6. /\ file.format \in {"none", "snapshot", "records"} /\ file.base \in Nat
          /\ baseHeight \in 0..MaxHeight /\ clock \in Clocks
      BY <2>1, ClientAssumption DEF Types, Files
    <2> QED BY <2>2, <2>3, <2>4, <2>5, <2>6 DEF TypeOK, Calls, Hashes
  <1> QED BY <1>1, Invariance, PTL

\* The max-work rule holds for every header tree, every source and any number
\* of callers: the chain is only ever extended, or replaced by one of strictly
\* more work.
THEOREM MaxWork == Spec => OnlyHeavierReplaces
  <1>1. IInv /\ [Next]_vars =>
          [chain # <<>> /\ chain' # <<>> =>
             IsPrefix(chain, chain') \/ chainwork' > chainwork]_vars
    <2> SUFFICES ASSUME IInv, [Next]_vars, chain # <<>>, chain' # <<>>
                 PROVE  IsPrefix(chain, chain') \/ chainwork' > chainwork
      OBVIOUS
    <2>0. chain \in Seq(Entries) /\ Len(chain) \in Nat /\ baseHeight \in Nat
      BY LenProperties, ClientAssumption DEF IInv, Types
    <2>1. CASE Rests
      BY <2>0, <2>1 DEF Rests, IsPrefix
    <2>2. CASE Grows
      <3>1. /\ Len(chain') = Len(chain) + 1 /\ chain' \in Seq(Entries)
            /\ \A i \in 1..Len(chain) : chain'[i] = chain[i]
        BY <2>2, Grown DEF Grows, IInv
      <3> DEFINE s == SubSeq(chain, 1, Len(chain))
                 t == SubSeq(chain', 1, Len(chain))
      <3>2. /\ \A i \in 1..Len(chain) : chain[i] \in Entries
            /\ \A i \in 1..Len(chain) : chain'[i] \in Entries
        BY <2>0, <3>1, ElementOfSeq
      <3>3. /\ s \in Seq(Entries) /\ Len(s) = Len(chain)
            /\ \A i \in 1..Len(chain) : s[i] = chain[i]
        BY <2>0, <3>2, SubSeqProperties
      <3>4. /\ t \in Seq(Entries) /\ Len(t) = Len(chain)
            /\ \A i \in 1..Len(chain) : t[i] = chain'[i]
        BY <2>0, <3>2, SubSeqProperties
      <3> HIDE DEF s, t
      <3>5. s = t
        BY <3>1, <3>3, <3>4, SeqEqual
      <3>6. Len(chain) <= Len(chain')
        BY <2>0, <3>1
      <3> QED BY <3>5, <3>6 DEF IsPrefix, s, t
    <2>3. CASE Regrows
      <3> DEFINE k == task.anc - baseHeight + 1
                 n == Len(task.verified)
      <3>1. /\ k \in 1..Len(chain) /\ n \in Nat \ {0} /\ Len(chain') = k + n
            /\ chain'[k + n] = LastOf(task.verified)
        BY <2>3, Regrown
      <3>2. baseHeight' = baseHeight /\ LastOf(task.verified).work > chainwork
        BY <2>3 DEF Regrows, outweighs
      <3> HIDE DEF k, n
      <3>3. chainwork' = chain'[k + n].work
        BY <2>0, <3>1, <3>2 DEF chainwork, workAt, holds, nextHeight, tipHeight, at
      <3> QED BY <3>1, <3>2, <3>3
    <2> QED BY <2>1, <2>2, <2>3, StepMoves DEF Moves, Empties
  <1> QED BY <1>1, Invariance, PTL DEF Spec, OnlyHeavierReplaces

\* The pins are the trust anchor they are meant to be, for any header tree, any
\* set of pins and any file found: what is held at or below a pin is the line that
\* ends in it. A run of linked headers is the end of the line of its last one.
THEOREM PinsAnchor == Spec => []PinnedPrefixFrozen
  <1>1. IInv => PinnedPrefixFrozen
    <2> DEFINE line(cp) == Line[Checkpoints[cp]]
    <2> SUFFICES ASSUME IInv, NEW cp \in DOMAIN Checkpoints, holds(cp),
                        NEW h \in baseHeight .. cp
                 PROVE  /\ cp - h < Len(line(cp))
                        /\ hashAt(h) = line(cp)[Len(line(cp)) - (cp - h)]
      BY DEF PinnedPrefixFrozen
    <2> DEFINE n == cp - baseHeight + 1
               j == h - baseHeight + 1
               l == Line[chain[n].hash]
    <2>1. /\ chain \in Seq(Entries) /\ Len(chain) \in Nat /\ baseHeight \in Nat
          /\ cp \in Nat /\ h \in Nat
      BY LenProperties, ClientAssumption, HeaderAssumption DEF IInv, Types
    <2>2. /\ n \in 1..Len(chain) /\ j \in 1..n /\ n - j = cp - h
          /\ baseHeight + n - 1 = cp /\ holds(h)
      BY <2>1 DEF holds, nextHeight
    <2>3. hashAt(h) = chain[j].hash
      BY <2>2 DEF hashAt, at
    <2> HIDE DEF n, j
    <2>4. chain[n].hash = Checkpoints[cp]
      BY <2>2 DEF IInv, Pinned, pinCheckpoint
    <2>5. linked(chain)
      BY DEF IInv, Linked
    <2>6. /\ Len(l) \in Nat /\ n <= Len(l)
          /\ \A i \in 1..n : l[Len(l) - n + i] = chain[i].hash
      BY <2>1, <2>2, <2>5, LineEnds
    <2>7. l = line(cp)
      BY <2>4
    <2> HIDE DEF l, line
    <2>8. cp - h < Len(l) /\ Len(l) - n + j = Len(l) - (cp - h)
      BY <2>1, <2>2, <2>6
    <2>9. l[Len(l) - (cp - h)] = chain[j].hash
      BY <2>2, <2>6, <2>8
    <2> QED BY <2>3, <2>7, <2>8, <2>9
  <1> QED BY <1>1, Invariance, PTL

\* No fork a node would refuse is held: on an honest seed every header is one that
\* a node with all headers since genesis accepts at that height, although the client
\* judges it by the few headers it holds, and a reorg by a window of its own.
THEOREM HonestSeedsStaySound == Spec => []SoundChain
  <1>1. IInv /\ SoundInv => SoundChain
    <2> SUFFICES ASSUME IInv, SoundInv, SeedsHonest, NEW i \in DOMAIN chain
                 PROVE  /\ NodeValid[chain[i].hash]
                        /\ Len(Line[chain[i].hash]) = baseHeight + i
                        /\ i > 1 => PrevOf[chain[i].hash] = chain[i - 1].hash
      BY DEF SoundChain
    <2>1. DOMAIN chain = 1..Len(chain) /\ Len(chain) \in Nat
      BY LenProperties DEF IInv, Types
    <2>2. \A j \in 1..i : chain[j].trusted => Good(chain[j].hash, baseHeight + j)
      BY <2>1 DEF SeedsHonest, Good
    <2>3. Good(chain[i].hash, baseHeight + i)
      BY <2>1, <2>2 DEF SoundInv, Sound
    <2>4. i > 1 => PrevOf[chain[i].hash] = chain[i - 1].hash
      BY <2>1 DEF IInv, Linked, linked
    <2> QED BY <2>3, <2>4 DEF Good
  <1> QED BY <1>1, Invariance, SoundInvariance, PTL

\* A proof of inclusion reports a depth on the very line its block lies on, whatever
\* syncs and reorgs ran between the awaits of the check.
THEOREM ProofsAreOfOneChain == Spec => []ProofIsOfOneChain
  <1>1. OneLineInv => ProofIsOfOneChain
    BY DEF OneLineInv, OneLine, ProofIsOfOneChain
  <1> QED BY <1>1, InitOneLine, StepOneLine, Invariance, PTL DEF Spec

\* A boot from any file whatsoever ends, on pins a node accepts, in a chain of
\* headers it accepts, or in none: what a mark spares a check is not above a pin
\* the boot reads before it ends, and a pin fixes all that is below it.
THEOREM RestoresAreReal == Spec => RestoreIsReal
  <1>1. IInv /\ RestoreInv /\ RealInv /\ [Next]_vars =>
          [PinsHonest /\ task.kind = "boot" /\ task'.kind # "boot" =>
             \A i \in DOMAIN chain' :
               /\ NodeValid[chain'[i].hash]
               /\ Len(Line[chain'[i].hash]) = baseHeight' + i]_vars
    <2> SUFFICES ASSUME IInv, RestoreInv, RealInv, [Next]_vars, PinsHonest,
                        task.kind = "boot", task'.kind # "boot",
                        NEW i \in DOMAIN chain'
                 PROVE  Good(chain'[i].hash, baseHeight' + i)
      BY DEF Good
    <2>0. PICK cp \in DOMAIN Checkpoints : Covers(cp) /\ RealFrom(cp)
      BY DEF RealInv
    <2>1. /\ chain' \in Seq(Entries) /\ DOMAIN chain' = 1..Len(chain')
          /\ Len(chain') \in Nat /\ Len(chain) \in Nat /\ cp \in Nat /\ baseHeight \in Nat
          /\ BootInv /\ baseHeight = file.base /\ file.format \in {"snapshot", "records"}
      <3>1. chain' \in Seq(Entries)
        BY StepMoves, MovesKeepChain
      <3>2. DOMAIN chain' = 1..Len(chain') /\ Len(chain') \in Nat
        BY <3>1, LenProperties
      <3>3. BootInv
        BY DEF RestoreInv
      <3> QED BY <3>1, <3>2, <3>3, Booting, PinsAreHeights
    <2>2. chain' = <<>> => FALSE
      <3>1. chain' = <<>> => Len(chain') = 0
        BY EmptySeq, Zenon
      <3> QED BY <2>1, <3>1
    <2>3. BootRow
      BY <2>2, BootEnds
    <2>4. CASE bootable
      <3>1. nextHeight = fileLast /\ baseHeight' = baseHeight /\ Len(chain') = Len(chain) + 1
        <4>1. /\ Append1(storedRow.hash, storedRow.trusted \/ seeding)
              /\ baseHeight' = baseHeight /\ nextHeight = fileLast
          BY <2>3, <2>4 DEF BootRow
        <4>2. /\ storedRow.hash \in PowOk /\ storedRow \in Entries
          BY <2>4, Booted, StoredRow DEF IInv
        <4>3. (storedRow.trusted \/ seeding) \in BOOLEAN
          BY <4>2 DEF Entries
        <4> QED BY <4>1, <4>2, <4>3, Grown DEF IInv
      <3>2. holds(cp)'
        BY <2>0, <2>1, <3>1 DEF Covers, holds, nextHeight
      <3>3. RealFrom(cp)'
        BY <2>0, <2>1, <2>3, <2>4, BootRowReal
      <3> QED BY <2>1, <3>2, <3>3 DEF RealFrom
    <2>5. CASE ~bootable
      <3>1. ~seeding /\ file.format = "records" /\ UNCHANGED clientVars
        BY <2>1, <2>2, <2>3, <2>5 DEF BootRow, Fresh
      <3>2. nextHeight > cp
        BY <2>0, <2>1, <3>1 DEF seeding, Covers, nextHeight
      <3>3. holds(cp)
        BY <2>0, <2>1, <3>2 DEF Covers, holds
      <3> QED BY <2>0, <2>1, <3>1, <3>3 DEF RealFrom, clientVars
    <2> QED BY <2>4, <2>5
  <1> QED BY <1>1, Invariance, RestoreInvariance, RealInvariance, PTL
      DEF Spec, RestoreIsReal

\* What was saved is what a restart brings back, for any header tree, any seeds
\* and any file the client wrote itself: no honest header of it is refused, and the rows
\* already read are the chain, with the marks and the work of a snapshot.
THEOREM RestartsRebuild == Spec => []RestoreRebuilds
  <1>1. IInv /\ RestoreInv => RestoreRebuilds
    <2> SUFFICES ASSUME IInv, RestoreInv, task.kind = "boot", FileHonest
                 PROVE  /\ bootable
                        /\ \A i \in DOMAIN chain : chain[i].hash = file.rows[i].hash
                        /\ file.format = "snapshot" => IsPrefix(chain, file.rows)
      BY DEF RestoreRebuilds
    <2>1. bootable
      BY HonestBoots
    <2> DEFINE n == Len(chain)
               rows == file.rows
    <2>2. /\ n \in Nat /\ Len(rows) \in Nat /\ n < Len(rows) /\ DOMAIN chain = 1..n
          /\ chain \in Seq(Entries) /\ rows \in Seq(Entries)
      BY LenProperties DEF IInv, Types, Files, Looping
    <2>3. \A i \in DOMAIN chain : chain[i].hash = rows[i].hash
      BY <2>2 DEF RestoreInv, BootInv
    <2>4. ASSUME file.format = "snapshot" PROVE IsPrefix(chain, rows)
      <3> DEFINE s == SubSeq(chain, 1, n)
                 t == SubSeq(rows, 1, n)
      <3>1. \A i \in 1..n : chain[i] = rows[i]
        BY <2>4 DEF RestoreInv, BootInv, FileHonest
      <3>2. \A i \in 1..n : chain[i] \in Entries /\ rows[i] \in Entries
        BY <2>2, ElementOfSeq
      <3>3. s \in Seq(Entries) /\ Len(s) = n /\ \A i \in 1..n : s[i] = chain[i]
        BY <2>2, <3>2, SubSeqProperties
      <3>4. t \in Seq(Entries) /\ Len(t) = n /\ \A i \in 1..n : t[i] = rows[i]
        BY <2>2, <3>2, SubSeqProperties
      <3> HIDE DEF s, t
      <3>5. s = t
        BY <3>1, <3>3, <3>4, SeqEqual
      <3>6. n <= Len(rows)
        BY <2>2
      <3> QED BY <3>5, <3>6 DEF IsPrefix, s, t
    <2> QED BY <2>1, <2>3, <2>4
  <1> QED BY <1>1, Invariance, RestoreInvariance, PTL
=============================================================================
