--------------------------- MODULE MCLightClient ---------------------------
(***************************************************************************)
(* A small header tree and the sets of inputs for the runs.  Headers are   *)
(* numbers; 1 is genesis.                                                  *)
(*                                                                         *)
(*   height   0    1    2    3    4    5                                   *)
(*            1 -- 2 -- 3 -- 4 -- 5 -- 6      one header every 4 s         *)
(*                 |    |         `--- 10     5 s ahead of its time        *)
(*                 |    |--- 13               as late as 3 is: false       *)
(*                 |    `--- 7 -- 8           fast: 8 is worth four of 6   *)
(*                 |          `-- 9           8 with the difficulty of 5   *)
(*                 `-- 11 -- 12               forks below the checkpoint   *)
(***************************************************************************)
EXTENDS LightClientProperties

CONSTANTS c1, c2

Tree == 1..13

Prev == <<NoHash, 1, 2, 3, 4, 5, 3, 7, 7, 5, 2, 11, 3>>
Time == <<0, 4, 8, 12, 16, 20, 9, 10, 10, 25, 5, 6, 8>>
Bits == <<16, 16, 16, 16, 16, 16, 16, 4, 16, 16, 16, 4, 16>>

\* Work falls as the target grows; a target above 8 loses its lowest bit.
Work == [t \in 0..16 |-> IF t = 0 THEN 0 ELSE 32 \div t]
Rounded == [t \in 0..16 |-> IF t <= 8 THEN t ELSE t - (t % 2)]

NoPins == [h \in {} |-> 0]
Pin2 == [h \in {2} |-> 3]

Runs(n) ==
  {r \in UNION {[1..k -> Tree] : k \in 1..n} :
     \A i \in 2..Len(r) : Prev[r[i]] = r[i - 1]}
SeedRuns == Runs(2) \cup {<<1, 2, 3>>, <<2, 3, 4>>, <<2, 11, 12>>}
\* A page of one header, or of several where a fork or a pin lies between.
RestoreRuns ==
  {<<4>>, <<5>>, <<2, 3>>, <<2, 3, 4>>, <<7, 8>>, <<7, 9>>, <<11, 12>>}
MixedRuns ==
  {<<n>> : n \in 1..6} \cup {<<7>>, <<10>>, <<7, 8>>, <<2, 3>>, <<4, 5>>}

\* The honest chain in pages of one or two, and a header ahead of its time.
HonestRuns == {r \in Runs(2) : \A i \in DOMAIN r : r[i] \in 1..6 \cup {10}}

\* Seeds: one window of context below the checkpoint, or a header less.
Point(h, hash, n) == [height |-> h, hash |-> hash, context |-> n]
AtPin == {Point(2, 3, 2), Point(2, 3, 1)}
AboveBase == {Point(2, 3, 1), Point(2, 3, 2), Point(3, 4, 2)}

\* Files found: a fork and a run without links from below the pin, a false header
\* above it within and beyond the first window, all marked as trusted; and the
\* fork and the false header as records.
StoredRows(hs, mark) == [i \in DOMAIN hs |-> Entry(hs[i], 0, mark)]
Snapshot(base, hs) ==
  [format |-> "snapshot", base |-> base, rows |-> StoredRows(hs, TRUE)]
Records(base, hs) ==
  [format |-> "records", base |-> base, rows |-> StoredRows(hs, FALSE)]
FoundFiles ==
  {Snapshot(1, <<2, 11>>), Snapshot(1, <<5, 3>>), Snapshot(2, <<3, 13>>),
   Snapshot(1, <<2, 3, 13>>), Records(1, <<2, 11, 12>>), Records(1, <<2, 3, 13>>)}

CallersSwap == Permutations(Callers)
=============================================================================
