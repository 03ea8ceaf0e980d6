---------------------------- MODULE HeaderRules ----------------------------
(***************************************************************************)
(* The consensus rules a header is verified by (light/src/lwma.ts and      *)
(* verifyOne, checkTimeRules of light/src/index.ts).  A header is named by *)
(* its hash; its compact difficulty bits are represented by the target     *)
(* they decode to.                                                         *)
(***************************************************************************)
EXTENDS Integers, Sequences, FiniteSetsExt

CONSTANTS
  Headers,      \* every header anybody can serve
  NoHash,       \* the prev field of genesis
  GENESIS,      \* the header GENESIS_HASH names
  PrevOf,       \* header -> the hash in its prev field
  TimeOf,       \* header -> its time
  BitsOf,       \* header -> its target
  PowOk,        \* the headers whose hash meets their own target
  WorkOf,       \* target -> the work of a header that meets it
  Compact,      \* target -> the largest target compact bits can write below it
  MAX_U128,     \* where cumulative work saturates
  POW_LIMIT, TARGET_BLOCK_SECS, LWMA_SOLVETIME_MAX_FACTOR, LWMA_WINDOW,
  MTP_WINDOW, MIN_BLOCK_SPACING_SECS, MAX_FUTURE_DRIFT_SECS,
  Checkpoints   \* pinned height -> header

\* A hash is of what came before: no line of prev fields is endless or a circle.
ASSUME HeaderAssumption ==
  /\ GENESIS \in Headers /\ NoHash \notin Headers
  /\ PrevOf \in [Headers -> Headers \cup {NoHash}] /\ PrevOf[GENESIS] = NoHash
  /\ \A S \in SUBSET Headers : S # {} => \E h \in S : PrevOf[h] \notin S
  /\ TimeOf \in [Headers -> Nat]
  /\ BitsOf \in [Headers -> Nat]
  /\ PowOk \subseteq Headers
  /\ \A h \in PowOk : BitsOf[h] \in 1..POW_LIMIT
  /\ POW_LIMIT \in Nat \ {0}
  /\ WorkOf \in [0..POW_LIMIT -> Nat]
  /\ \A t \in 1..POW_LIMIT : WorkOf[t] > 0
  /\ Compact \in [0..POW_LIMIT -> 0..POW_LIMIT]
  /\ MAX_U128 \in Nat
  /\ {TARGET_BLOCK_SECS, LWMA_SOLVETIME_MAX_FACTOR} \subseteq Nat \ {0}
  /\ LWMA_WINDOW \in Nat \ {0, 1} /\ MTP_WINDOW \in 1..LWMA_WINDOW
  /\ {MIN_BLOCK_SPACING_SECS, MAX_FUTURE_DRIFT_SECS} \subseteq Nat
  /\ DOMAIN Checkpoints \subseteq Nat
  /\ \A h \in DOMAIN Checkpoints : Checkpoints[h] \in Headers

AtMost(a, b) == IF a <= b THEN a ELSE b
AtLeast(a, b) == IF a >= b THEN a ELSE b

LastOf(s) == s[Len(s)]
LastN(s, n) == SubSeq(s, AtLeast(1, Len(s) - n + 1), Len(s))

\* Mutant of satAddWork: cumulative work does not saturate.
addWork(work, h) == work + WorkOf[BitsOf[h]]

satAddWork(work, h) == AtMost(MAX_U128, work + WorkOf[BitsOf[h]])

-----------------------------------------------------------------------------
(* The difficulty a window of at least two headers mandates.               *)

\* The time a header of w took, clamped from one second to the maximum.
solvetime(w, i) ==
  AtMost(LWMA_SOLVETIME_MAX_FACTOR * TARGET_BLOCK_SECS,
         AtLeast(1, TimeOf[w[i]] - TimeOf[w[i - 1]]))

lwma(w) ==
  LET m == Len(w)
      avgSolvetime == MapThenSumSet(LAMBDA i : (i - 1) * solvetime(w, i), 2..m)
                        \div MapThenSumSet(LAMBDA i : i - 1, 2..m)
      avgTarget == MapThenSumSet(LAMBDA i : BitsOf[w[i]], 1..m) \div m
      next == AtMost(POW_LIMIT, (avgTarget * avgSolvetime) \div TARGET_BLOCK_SECS)
  IN IF next = 0 THEN POW_LIMIT ELSE Compact[next]

\* How many headers below height the difficulty is derived from; a window
\* that holds fewer is refused ("short window").
windowNeed(height) == IF height < 2 THEN 1 ELSE AtMost(LWMA_WINDOW, height)

expectedBitsFromWindow(window, height) ==
  IF height < 2 THEN BitsOf[LastOf(window)]
  ELSE lwma(LastN(window, windowNeed(height)))

-----------------------------------------------------------------------------
(* Time: a minimum spacing, above the median of the last headers, and not  *)
(* ahead of the wall clock by more than the drift.                         *)

medianTime(window) ==
  LET recent == LastN(window, MTP_WINDOW)
      below(t) == {i \in DOMAIN recent : TimeOf[recent[i]] < t}
      upTo(t) == {i \in DOMAIN recent : TimeOf[recent[i]] <= t}
      mid == Len(recent) \div 2
  IN CHOOSE t \in {TimeOf[recent[i]] : i \in DOMAIN recent} :
       Cardinality(below(t)) <= mid /\ mid < Cardinality(upTo(t))

checkTimeRules(h, window, parent, clock) ==
  /\ TimeOf[h] >= TimeOf[parent] + MIN_BLOCK_SPACING_SECS
  /\ TimeOf[h] > medianTime(window)
  /\ TimeOf[h] <= clock + MAX_FUTURE_DRIFT_SECS

\* The rules of one height, given the headers below it.
mandated(height, h, window, parent, clock) ==
  /\ Len(window) >= windowNeed(height)
  /\ checkTimeRules(h, window, parent, clock)
  /\ BitsOf[h] = expectedBitsFromWindow(window, height)

pinCheckpoint(height, h) ==
  height \in DOMAIN Checkpoints => h = Checkpoints[height]

\* window is the run of headers below height and parent the hash of the last
\* of them, NoHash when none is held.  INITIAL_BITS is the target of GENESIS.
verifyOne(height, h, window, parent, clock) ==
  /\ IF height = 0 THEN h = GENESIS
     ELSE /\ parent # NoHash
          /\ PrevOf[h] = parent
          /\ mandated(height, h, window, parent, clock)
  /\ h \in PowOk
  /\ pinCheckpoint(height, h)
=============================================================================
