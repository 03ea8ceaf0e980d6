----------------------- MODULE LightClientProperties -----------------------
(***************************************************************************)
(* What makes the light client correct.                                    *)
(***************************************************************************)
EXTENDS LightClient, SequencesExt

CONSTANT HonestTip   \* the tip of the chain an honest source serves

\* The line of headers from genesis to h, by the prev fields.
Line[h \in Headers] ==
  IF PrevOf[h] = NoHash THEN <<h>> ELSE Append(Line[PrevOf[h]], h)

\* The reference: h is valid to a node, which holds every header from genesis.
\* The wall clock is left out: it decides when a header is accepted.
NodeValid[h \in Headers] ==
  LET line == Line[h]
  IN /\ h \in PowOk
     /\ IF PrevOf[h] = NoHash THEN h = GENESIS
        ELSE /\ NodeValid[PrevOf[h]]
             /\ mandated(Len(line) - 1, h, Front(line), PrevOf[h], TimeOf[h])

IsEntry(e) == e.hash \in Headers /\ e.work \in 0..MAX_U128 /\ e.trusted \in BOOLEAN

\* The client's state is well formed: chains of entries, calls and tasks of the
\* kinds the code has.
TypeOK ==
  /\ \A i \in DOMAIN chain : IsEntry(chain[i])
  /\ baseHeight \in 0..MaxHeight /\ clock \in Clocks
  /\ \A c \in Callers :
       /\ calls[c].op \in Ops /\ calls[c].height \in Nat /\ calls[c].to \in Nat
       /\ calls[c].tip \in Int
       /\ {calls[c].hash, calls[c].tipHash} \subseteq Headers \cup {NoHash}
  /\ task.kind \in {"none", "sync", "seed", "reorg", "boot"}
  /\ task.caller \in Callers \cup {Nobody} /\ task.anc \in Nat
  /\ file.format \in {"none", "snapshot", "records"} /\ file.base \in Nat
  /\ \A i \in DOMAIN file.rows : IsEntry(file.rows[i])

\* No fork a node would refuse is ever held.  The client derives each rule from
\* the window it happens to hold, of a chain that starts at a seed and is cut
\* and regrown by tryReorg (whose own sliding window must agree with the one
\* sync uses); on an honest seed, every header it holds is one a node that
\* holds everything since genesis accepts, at the same height, linked.
SeedsHonest ==
  \A i \in DOMAIN chain : chain[i].trusted =>
    NodeValid[chain[i].hash] /\ Len(Line[chain[i].hash]) = baseHeight + i

SoundChain ==
  SeedsHonest => \A i \in DOMAIN chain :
    /\ NodeValid[chain[i].hash] /\ Len(Line[chain[i].hash]) = baseHeight + i
    /\ i > 1 => PrevOf[chain[i].hash] = chain[i - 1].hash

\* Max-work rule: a header once held is dropped (syncs, reorgs and proofs of
\* several callers interleaving) only for a branch of strictly more work.
OnlyHeavierReplaces ==
  [][chain # <<>> /\ chain' # <<>> =>
       IsPrefix(chain, chain') \/ chainwork' > chainwork]_vars

\* The pins anchor the client: what it holds at or below a pinned height it holds
\* is the line that ends in the pin, whether it was synced, seeded, adopted in a
\* reorg, or restored from a snapshot or records that any client may have left.
\* There is one such line: no restart, no other source and no other file brings
\* back another header below a pin than was held there before.
PinnedPrefixFrozen ==
  \A cp \in DOMAIN Checkpoints : holds(cp) =>
    LET line == Line[Checkpoints[cp]]
    IN \A h \in baseHeight .. cp :
         /\ cp - h < Len(line)
         /\ hashAt(h) = line[Len(line) - (cp - h)]

\* A proof of inclusion is about one chain: the block it binds lies on the very
\* branch its confirmations are counted on, and is at least one deep, although
\* syncs and reorgs run between the moments the call reads the height, the
\* header, the tip and the block.
ProofIsOfOneChain ==
  \A c \in Callers : calls[c].op = "proven" =>
    LET line == Line[calls[c].tipHash]
        depth == confirmations(calls[c])
    IN /\ depth \in 1..Len(line)
       /\ line[Len(line) - depth + 1] = calls[c].hash

\* A restore spares the trusted headers of a file the time and difficulty rules
\* only below a pin.  So if the pins are headers a node accepts, a boot from any
\* file whatsoever ends in a chain of such headers, or in an empty one: an
\* untrue header cannot come in under a trusted mark.
PinsHonest ==
  /\ DOMAIN Checkpoints # {}
  /\ \A cp \in DOMAIN Checkpoints :
       NodeValid[Checkpoints[cp]] /\ Len(Line[Checkpoints[cp]]) = cp + 1

RestoreIsReal ==
  [][PinsHonest /\ task.kind = "boot" /\ task'.kind # "boot" =>
       \A i \in DOMAIN chain' :
         /\ NodeValid[chain'[i].hash]
         /\ Len(Line[chain'[i].hash]) = baseHeight' + i]_vars

\* What was saved is what a restart brings back: a boot from its own file of valid
\* headers, at their own heights, meets no refusal (a clock set back behind a
\* stored header aside), and rebuilds the headers, the marks and the work the
\* live client had.
FileHonest ==
  /\ file \notin Stored
  /\ \A i \in DOMAIN file.rows :
       /\ NodeValid[file.rows[i].hash]
       /\ Len(Line[file.rows[i].hash]) = file.base + i
       /\ TimeOf[file.rows[i].hash] <= clock + MAX_FUTURE_DRIFT_SECS

RestoreRebuilds ==
  task.kind = "boot" /\ FileHonest =>
    /\ bootable
    /\ \A i \in DOMAIN chain : chain[i].hash = file.rows[i].hash
    /\ file.format = "snapshot" => IsPrefix(chain, file.rows)

-----------------------------------------------------------------------------
(* Progress.  A consumer polls: it syncs again after a sync that threw.  A *)
(* source may fail or serve anything, but not for ever: now and then it    *)
(* answers a waiting sync with the honest chain.  Loops run on.            *)

honestHeight == Len(Line[HonestTip]) - 1

HonestAnswer(c) ==
  \E rows \in Served :
    /\ calls[c].height + Len(rows) <= honestHeight + 1
    /\ rows = SubSeq(Line[HonestTip], calls[c].height + 1,
                     calls[c].height + Len(rows))
    /\ SyncAnswer(c, rows)

Polling ==
  /\ WF_vars(SyncRow) /\ WF_vars(SeedRow) /\ WF_vars(BootRow)
  /\ WF_vars(ReorgRow) /\ WF_vars(ReorgDecide)
  /\ \A c \in Callers : /\ SF_vars(SyncCall(c, honestHeight))
                        /\ SF_vars(HonestAnswer(c))

PollingSpec == Spec /\ Polling

\* Polling heals: out-of-order throws of one caller over another and failed or
\* false pages do not keep the client from the honest tip, and whatever other
\* callers ingest under it a sync returns or throws: it never waits for a
\* height that is already taken.
CatchesUp ==
  /\ <>[](tipHeight >= honestHeight)
  /\ \A c \in Callers : calls[c].op = "sync" ~> calls[c].op # "sync"

-----------------------------------------------------------------------------
(* What the documentation says, and the code does not keep.                *)

\* "a tampered seed still fails closed inside seedTrusted": a refused seed is
\* not left behind as a trusted chain that ends elsewhere than at a checkpoint.
SeedIsAnchored ==
  Quiet =>
    \A i \in DOMAIN chain :
      chain[i].trusted /\ (i = Len(chain) \/ ~chain[i + 1].trusted) =>
        \E p \in SeedPoints : p.hash = chain[i].hash
=============================================================================
