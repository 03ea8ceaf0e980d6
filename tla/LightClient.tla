---------------------------- MODULE LightClient ----------------------------
(***************************************************************************)
(* One LightClient object (light/src/index.ts) in a JavaScript process:    *)
(* its verified header chain, the async calls in flight on it, and the     *)
(* file a long-lived consumer keeps across restarts.                       *)
(*                                                                         *)
(* An async call only gives way at an await.  Between two awaits it runs   *)
(* to completion: the loops over served headers are written one header a   *)
(* step, with `task' naming the loop that holds the event loop, and no     *)
(* other action is enabled until it ends.  What the node, the indexer or a *)
(* peer serves is any run of headers in Served: nothing here is trusted.   *)
(***************************************************************************)
EXTENDS HeaderRules

CONSTANTS
  Callers,          \* async call sites sharing the client
  Nobody,           \* not a caller
  Served,           \* runs of headers a source may answer with
  SyncTargets,      \* heights sync may be asked for
  SeedPoints,       \* [height, hash, context] of a syncFromCheckpoint
  TxHeights,        \* heights a node may say a transaction is at
  MAX_SYNC_GAP,     \* 256 in the code
  Formats,          \* file formats the consumer uses: "snapshot", "records"
  Stored,           \* files not saved by this client that may be there at first
  Clocks,           \* wall-clock readings; the clock may be set back
  MaxHeight         \* bound on the heights anything is asked for

ASSUME ClientAssumption ==
  /\ Nobody \notin Callers
  /\ Served \subseteq Seq(Headers) \ {<<>>}
  /\ SyncTargets \cup TxHeights \subseteq 0..MaxHeight
  /\ \A p \in SeedPoints : /\ p.height \in 0..MaxHeight
                           /\ p.hash \in Headers /\ p.context \in Nat
  /\ MAX_SYNC_GAP \in Nat /\ MaxHeight \in Nat
  /\ Formats \subseteq {"snapshot", "records"}
  /\ Clocks \subseteq Nat /\ Clocks # {}

\* Of a file that was found there nothing is known but its shape.
ASSUME StoredAssumption ==
  Stored \subseteq
    [format : {"snapshot", "records"}, base : 0..MaxHeight,
     rows : Seq([hash : Headers, work : 0..MAX_U128, trusted : BOOLEAN]) \ {<<>>}]

VARIABLES
  chain,       \* verified headers; chain[i] is at baseHeight + i - 1
  baseHeight,
  calls,       \* caller -> its call and the locals it holds across an await
  task,        \* the loop that holds the event loop
  file,        \* the stored chain
  clock

clientVars == <<chain, baseHeight>>
vars == <<chain, baseHeight, calls, task, file, clock>>

-----------------------------------------------------------------------------

Ops == {"idle", "sync", "seed", "tx", "txSync", "txSynced", "txBlock", "proven"}

\* height: the next height of a sync, the start of a seed, or a transaction's
\* height; to: the last height a sync or a seed is for.  tip and hash are the
\* tip height and the header an inclusion check captured; tipHash is the tip it
\* then stood on, kept for the properties.
Idle == [op |-> "idle", height |-> 0, to |-> 0, tip |-> 0, hash |-> NoHash,
         tipHash |-> NoHash]

NoTask == [kind |-> "none", caller |-> Nobody, rows |-> <<>>, anc |-> 0,
           window |-> <<>>, verified |-> <<>>]

NoFile == [format |-> "none", base |-> 0, rows |-> <<>>]

Entry(hash, work, trusted) == [hash |-> hash, work |-> work, trusted |-> trusted]

hashes(entries) == [i \in DOMAIN entries |-> entries[i].hash]

nextHeight == baseHeight + Len(chain)
tipHeight == nextHeight - 1
holds(height) == height >= baseHeight /\ height < nextHeight
at(height) == chain[height - baseHeight + 1]
hashAt(height) == IF holds(height) THEN at(height).hash ELSE NoHash
workAt(height) == IF holds(height) THEN at(height).work ELSE 0
chainwork == workAt(tipHeight)

\* The LWMA_WINDOW headers below height, fewer near the base.
windowBefore(height) ==
  hashes(SubSeq(chain, AtLeast(1, height - baseHeight - LWMA_WINDOW + 1),
                       height - baseHeight))

Quiet == task = NoTask
EndTask == task' = NoTask
EndCall(c) == calls' = [calls EXCEPT ![c] = Idle]

Init ==
  /\ chain = <<>> /\ baseHeight = 0
  /\ calls = [c \in Callers |-> Idle]
  /\ task = NoTask /\ file \in Stored \cup {NoFile}
  /\ clock \in Clocks

-----------------------------------------------------------------------------
(* sync and ingest: fetch from the tip up, one batch (or one header) per   *)
(* await, ingesting what came.                                             *)

\* Mutant of SyncCall: it starts from the tip again.
SyncCallAtTip(c, to) ==
  /\ Quiet /\ calls[c] = Idle
  /\ nextHeight <= to
  /\ calls' = [calls EXCEPT ![c] =
       [Idle EXCEPT !.op = "sync", !.height = AtLeast(0, tipHeight), !.to = to]]
  /\ UNCHANGED <<clientVars, task, file, clock>>

SyncCall(c, to) ==
  /\ Quiet /\ calls[c] = Idle
  /\ nextHeight <= to
  /\ calls' = [calls EXCEPT ![c] =
       [Idle EXCEPT !.op = "sync", !.height = nextHeight, !.to = to]]
  /\ UNCHANGED <<clientVars, task, file, clock>>

Syncing(c) == calls[c].op \in {"sync", "txSync"}

SyncAnswer(c, rows) ==
  /\ Quiet /\ Syncing(c)
  /\ Len(rows) <= calls[c].to - calls[c].height + 1
  /\ task' = [NoTask EXCEPT !.kind = "sync", !.caller = c, !.rows = rows]
  /\ UNCHANGED <<clientVars, calls, file, clock>>

\* The source fails or returns an empty page: sync throws.
SyncFails(c) ==
  /\ Quiet /\ Syncing(c)
  /\ EndCall(c)
  /\ UNCHANGED <<clientVars, task, file, clock>>

ingestable(height, h) ==
  /\ height = nextHeight
  /\ verifyOne(height, h, windowBefore(height), hashAt(height - 1), clock)

\* ingest: the verified header is appended with its cumulative work.
Append1(h, trusted) ==
  chain' = Append(chain, Entry(h, satAddWork(chainwork, h), trusted))

SyncThrows(c) == EndTask /\ EndCall(c) /\ UNCHANGED chain

\* ingest of the next served header; the first that is refused throws out of
\* the sync, the headers before it stay.
SyncRow ==
  LET c == task.caller
      height == calls[c].height
      done == [calls EXCEPT ![c] =
                 IF calls[c].op = "sync" THEN Idle ELSE [@ EXCEPT !.op = "txSynced"]]
  IN /\ task.kind = "sync"
     /\ IF ingestable(height, Head(task.rows))
        THEN /\ Append1(Head(task.rows), FALSE)
             /\ task' = IF Len(task.rows) = 1 THEN NoTask
                        ELSE [task EXCEPT !.rows = Tail(@)]
             /\ calls' = IF Len(task.rows) = 1 /\ height = calls[c].to THEN done
                         ELSE [calls EXCEPT ![c].height = @ + 1]
        ELSE SyncThrows(c)
     /\ UNCHANGED <<baseHeight, file, clock>>

-----------------------------------------------------------------------------
(* syncFromCheckpoint: fetch the run ending at the checkpoint, then        *)
(* seedTrusted.  The fetch falls back from the batch source to the other   *)
(* one; either way it either fails or yields the whole run.                *)

SeedCall(c, p) ==
  /\ Quiet /\ calls[c] = Idle
  /\ calls' = [calls EXCEPT ![c] =
       [Idle EXCEPT !.op = "seed", !.to = p.height,
          !.height = AtLeast(0, p.height - AtMost(p.context, LWMA_WINDOW))]]
  /\ UNCHANGED <<clientVars, task, file, clock>>

\* seedTrusted, up to its loop.
SeedAnswer(c, rows) ==
  /\ Quiet /\ calls[c].op = "seed"
  /\ Len(rows) = calls[c].to - calls[c].height + 1
  /\ chain = <<>>
  /\ baseHeight' = calls[c].height
  /\ task' = [NoTask EXCEPT !.kind = "seed", !.caller = c, !.rows = rows]
  /\ UNCHANGED <<chain, calls, file, clock>>

\* The fetch fails, or seedTrusted refuses a client that is not fresh.
SeedFails(c) ==
  /\ Quiet /\ calls[c].op = "seed"
  /\ EndCall(c)
  /\ UNCHANGED <<clientVars, task, file, clock>>

\* The seed's own checks: links, PoW and pins, neither time nor difficulty.
seedable(height, h) ==
  /\ chain # <<>> => PrevOf[h] = LastOf(chain).hash
  /\ h \in PowOk
  /\ pinCheckpoint(height, h)

\* A refusal throws and leaves what was pushed; so does a last header that
\* is not the checkpoint.
SeedRow ==
  /\ task.kind = "seed"
  /\ IF seedable(nextHeight, Head(task.rows))
     THEN Append1(Head(task.rows), TRUE) ELSE chain' = chain
  /\ IF seedable(nextHeight, Head(task.rows)) /\ Len(task.rows) > 1
     THEN task' = [task EXCEPT !.rows = Tail(@)] /\ UNCHANGED calls
     ELSE EndTask /\ EndCall(task.caller)
  /\ UNCHANGED <<baseHeight, file, clock>>

-----------------------------------------------------------------------------
(* tryReorg: verify a competing branch above an ancestor we hold, then     *)
(* adopt it if it has more work than our tip.                              *)

ReorgCall(anc, rows) ==
  /\ Quiet /\ holds(anc)
  /\ task' = [NoTask EXCEPT !.kind = "reorg", !.rows = rows, !.anc = anc,
                            !.window = windowBefore(anc + 1)]
  /\ UNCHANGED <<clientVars, calls, file, clock>>

altParent == IF task.verified = <<>> THEN at(task.anc) ELSE LastOf(task.verified)

\* Mutant of slide: the branch is checked against the window below it.
slideNot(window, h) == window

slide(window, h) == LastN(Append(window, h), LWMA_WINDOW)

\* One header of the branch: pushed on the window and on what is verified, or
\* the branch is refused.
ReorgRow ==
  LET h == Head(task.rows)
  IN /\ task.kind = "reorg" /\ task.rows # <<>>
     /\ IF verifyOne(task.anc + Len(task.verified) + 1, h, task.window,
                     altParent.hash, clock)
        THEN task' = [task EXCEPT
               !.rows = Tail(task.rows),
               !.window = slide(task.window, h),
               !.verified = Append(task.verified,
                              Entry(h, satAddWork(altParent.work, h), FALSE))]
        ELSE EndTask
     /\ UNCHANGED <<clientVars, calls, file, clock>>

\* Mutant of outweighs: a branch of equal work is adopted too.
outweighsOrTies(work) == work >= chainwork

outweighs(work) == work > chainwork

ReorgDecide ==
  /\ task.kind = "reorg" /\ task.rows = <<>>
  /\ chain' = IF outweighs(LastOf(task.verified).work)
              THEN SubSeq(chain, 1, task.anc - baseHeight + 1) \o task.verified
              ELSE chain
  /\ EndTask
  /\ UNCHANGED <<baseHeight, calls, file, clock>>

-----------------------------------------------------------------------------
(* verifyTxInclusion: ask the node for the height, sync to it when it is   *)
(* near above the tip, capture the verified header and the tip, ask for    *)
(* the block, and bind its body to the captured header.                    *)

TxCall(c) ==
  /\ Quiet /\ calls[c] = Idle
  /\ calls' = [calls EXCEPT ![c] = [Idle EXCEPT !.op = "tx"]]
  /\ UNCHANGED <<clientVars, task, file, clock>>

\* Mutant of Captured: after its own sync the call keeps the tip it saw before.
CapturedUnderOldTip(call, height) ==
  [call EXCEPT !.op = "txBlock", !.height = height, !.hash = hashAt(height),
               !.tip = IF call.op = "txSynced" THEN @ ELSE tipHeight,
               !.tipHash = hashAt(tipHeight)]

Captured(call, height) ==
  [call EXCEPT !.op = "txBlock", !.height = height, !.hash = hashAt(height),
               !.tip = tipHeight, !.tipHash = hashAt(tipHeight)]

\* The node's answer to /tx.
TxAnswer(c, height) ==
  /\ Quiet /\ calls[c].op = "tx"
  /\ height >= baseHeight /\ height - tipHeight <= MAX_SYNC_GAP
  /\ calls' = [calls EXCEPT ![c] =
       IF height > tipHeight
       THEN [@ EXCEPT !.op = "txSync", !.height = nextHeight, !.to = height,
                      !.tip = tipHeight]
       ELSE Captured(@, height)]
  /\ UNCHANGED <<clientVars, task, file, clock>>

\* The call resumes after its sync, a turn later: the chain may have moved.
TxSynced(c) ==
  /\ Quiet /\ calls[c].op = "txSynced"
  /\ calls' = [calls EXCEPT ![c] =
       IF holds(@.to) THEN Captured(@, @.to) ELSE Idle]
  /\ UNCHANGED <<clientVars, task, file, clock>>

\* bindBlockTxs: a body hashes to the merkle root of one header only.
bound(call, body) == body = call.hash

\* The confirmations a verdict reports.
confirmations(call) == call.tip - call.height + 1

\* The served block: body is the header whose merkle root it hashes to.
TxBlock(c, body) ==
  /\ Quiet /\ calls[c].op = "txBlock"
  /\ calls' = [calls EXCEPT ![c] =
       IF bound(@, body) THEN [@ EXCEPT !.op = "proven", !.hash = body] ELSE Idle]
  /\ UNCHANGED <<clientVars, task, file, clock>>

\* Not in a block, beyond reach, an error, a block without the transaction: the
\* call ends without a proof.  A proof is read by the consumer.
TxEnds(c) ==
  /\ Quiet /\ calls[c].op \in {"tx", "txBlock", "proven"}
  /\ EndCall(c)
  /\ UNCHANGED <<clientVars, task, file, clock>>

-----------------------------------------------------------------------------
(* The stored chain.  A restart loses the object and every call; a boot    *)
(* builds a new one from the file, re-verifying header by header, and is   *)
(* seen only when it is done (the partial client stays in the promise).    *)
(* The first file may be anyone's: of an earlier release, which had other  *)
(* pins, of another client, or damaged.                                    *)

\* toSnapshot: the whole chain.  Its work is written and never read back.
SaveSnapshot ==
  /\ Quiet /\ chain # <<>>
  /\ file' = [format |-> "snapshot", base |-> baseHeight, rows |-> chain]
  /\ UNCHANGED <<clientVars, calls, task, clock>>

\* toRecords: the headers from a height up, without work or trusted marks.
SaveRecords(from) ==
  /\ Quiet /\ holds(from)
  /\ file' = [format |-> "records", base |-> from,
              rows |-> [i \in 1..(nextHeight - from) |->
                          Entry(hashAt(from + i - 1), 0, FALSE)]]
  /\ UNCHANGED <<clientVars, calls, task, clock>>

Fresh == chain' = <<>> /\ baseHeight' = 0

Restart ==
  /\ calls' = [c \in Callers |-> Idle]
  /\ EndTask /\ Fresh
  /\ UNCHANGED <<file, clock>>

fileLast == file.base + Len(file.rows) - 1

\* Mutant of anchored: a pin anywhere in the file is enough.
anchoredSomewhere ==
  \/ DOMAIN Checkpoints = {}
  \/ \E cp \in DOMAIN Checkpoints : file.base <= cp /\ cp <= fileLast

\* prepareRestore: with pins configured, one must cover the trusted prefix.
anchored ==
  \/ DOMAIN Checkpoints = {}
  \/ \E cp \in DOMAIN Checkpoints :
       file.base + LWMA_WINDOW - 1 <= cp /\ cp <= fileLast

\* fromRecords: the seed up to a pinned anchor is one window, or one header more.
anchors ==
  {cp \in DOMAIN Checkpoints :
     /\ cp - file.base + 1 \in {LWMA_WINDOW, LWMA_WINDOW + 1}
     /\ cp <= fileLast}

\* anc is the anchor height of a records restore.
Boot(anc) ==
  /\ Quiet /\ chain = <<>> /\ \A c \in Callers : calls[c] = Idle
  /\ \/ file.format = "snapshot" /\ anchored /\ anc = 0
     \/ file.format = "records" /\ anc \in anchors
  /\ baseHeight' = file.base
  /\ task' = [NoTask EXCEPT !.kind = "boot", !.anc = anc]
  /\ UNCHANGED <<chain, calls, file, clock>>

\* Mutant of fullWindowAvailable: one header too early.
fullWindowEarly(height) ==
  baseHeight = 0 \/ height - baseHeight >= LWMA_WINDOW - 1

fullWindowAvailable(height) ==
  baseHeight = 0 \/ height - baseHeight >= LWMA_WINDOW

\* Mutant of restorable: a stored header is not held to the pins.
restorableUnpinned(height, row) ==
  /\ height = 0 => row.hash = GENESIS
  /\ chain # <<>> => PrevOf[row.hash] = LastOf(chain).hash
  /\ (height > 0 /\ (~row.trusted \/ fullWindowAvailable(height))) =>
       mandated(height, row.hash, windowBefore(height), hashAt(height - 1), clock)
  /\ row.hash \in PowOk

\* restoreOne: only a trusted header whose window is cut short is spared the
\* time and difficulty rules.
restorable(height, row) ==
  /\ height = 0 => row.hash = GENESIS
  /\ chain # <<>> => PrevOf[row.hash] = LastOf(chain).hash
  /\ (height > 0 /\ (~row.trusted \/ fullWindowAvailable(height))) =>
       mandated(height, row.hash, windowBefore(height), hashAt(height - 1), clock)
  /\ row.hash \in PowOk
  /\ pinCheckpoint(height, row.hash)

storedRow == file.rows[Len(chain) + 1]

\* Records up to the anchor are a seed, those above it are ingested.
seeding == file.format = "records" /\ nextHeight <= task.anc

bootable ==
  IF file.format = "snapshot" THEN restorable(nextHeight, storedRow)
  ELSE IF seeding THEN seedable(nextHeight, storedRow.hash)
  ELSE ingestable(nextHeight, storedRow.hash)

\* A snapshot, or a seed, is refused whole; records above the anchor are kept
\* up to the first that fails.
BootRow ==
  LET row == storedRow
  IN /\ task.kind = "boot"
     /\ IF bootable THEN /\ Append1(row.hash, row.trusted \/ seeding)
                   /\ baseHeight' = baseHeight
                   /\ task' = IF nextHeight = fileLast THEN NoTask ELSE task
        ELSE /\ EndTask
             /\ IF file.format = "snapshot" \/ seeding THEN Fresh ELSE UNCHANGED clientVars
     /\ UNCHANGED <<calls, file, clock>>

Tick ==
  /\ Quiet
  /\ clock' \in Clocks \ {clock}
  /\ UNCHANGED <<clientVars, calls, task, file>>

-----------------------------------------------------------------------------

Next ==
  \/ \E c \in Callers :
       \/ \E to \in SyncTargets : SyncCall(c, to)
       \/ \E rows \in Served : SyncAnswer(c, rows) \/ SeedAnswer(c, rows)
       \/ \E p \in SeedPoints : SeedCall(c, p)
       \/ SyncFails(c) \/ SeedFails(c)
       \/ TxHeights # {} /\ TxCall(c)
       \/ \E height \in TxHeights : TxAnswer(c, height)
       \/ TxSynced(c) \/ TxEnds(c)
       \/ \E body \in Headers : TxBlock(c, body)
  \/ SyncRow \/ SeedRow
  \/ \E anc \in 0..MaxHeight, rows \in Served : ReorgCall(anc, rows)
  \/ ReorgRow \/ ReorgDecide
  \/ "snapshot" \in Formats /\ SaveSnapshot
  \/ "records" \in Formats /\ \E from \in 0..MaxHeight : SaveRecords(from)
  \/ Formats # {} /\ Restart
  \/ \E anc \in 0..MaxHeight : Boot(anc)
  \/ BootRow
  \/ Tick

Spec == Init /\ [][Next]_vars
=============================================================================
