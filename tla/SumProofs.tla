----------------------------- MODULE SumProofs -----------------------------
(***************************************************************************)
(* Sums over finite sets.  MapThenSumSet is a fold, a function defined by  *)
(* recursion on the subsets of the set; these lemmas say what a sum does   *)
(* when an element is added or one summand changes, which is all that the  *)
(* proofs about ledgers and payments need.                                 *)
(***************************************************************************)
EXTENDS Integers, FiniteSetsExt, FiniteSetTheorems, WellFoundedInduction, TLAPS

SumOf(F, S) == MapThenSumSet(LAMBDA x : F[x], S)

\* The fold behind the sum, and the element it takes first.
first(s) == CHOOSE x \in s : TRUE
Unfolded(F, g, s) == IF s = {} THEN 0 ELSE F[first(s)] + g[s \ {first(s)}]
Fold(F, U) == CHOOSE g : g = [s \in SUBSET U |-> Unfolded(F, g, s)]

\* A nonempty set of naturals has a least element.
LEMMA LeastNatural ==
  ASSUME NEW T \in SUBSET Nat, T # {}
  PROVE  \E m \in T : \A n \in T : m <= n
  <1> DEFINE R == OpToRel(<, Nat)
  <1>1. IsWellFoundedOn(R, Nat)
    BY NatLessThanWellFounded
  <1>2. PICK m \in T : \A n \in T : ~(<<n, m>> \in R)
    BY <1>1, WFMin
  <1>3. \A n \in T : ~(n < m)
    BY <1>2 DEF OpToRel
  <1> QED BY <1>3

\* Of any collection of subsets one has no member that can be taken from it.
LEMMA SmallestSet ==
  ASSUME NEW U, IsFiniteSet(U), NEW B \in SUBSET (SUBSET U), B # {}
  PROVE  \E s \in B : \A x \in s : s \ {x} \notin B
  <1> DEFINE sizes == {Cardinality(s) : s \in B}
  <1>1. \A s \in B : IsFiniteSet(s) /\ Cardinality(s) \in Nat
    BY FS_Subset, FS_CardinalityType
  <1>2. sizes \in SUBSET Nat /\ sizes # {}
    BY <1>1
  <1>3. PICK m \in sizes : \A n \in sizes : m <= n
    BY <1>2, LeastNatural
  <1>4. PICK s \in B : Cardinality(s) = m
    BY <1>3
  <1>5. ASSUME NEW x \in s, s \ {x} \in B PROVE FALSE
    <2>1. Cardinality(s \ {x}) = Cardinality(s) - 1
      BY <1>1, FS_RemoveElement
    <2>2. Cardinality(s) <= Cardinality(s \ {x})
      BY <1>3, <1>4, <1>5
    <2> QED BY <1>1, <2>1, <2>2
  <1> QED BY <1>4, <1>5

\* The fold is a function that computes what it is defined by.
LEMMA FoldDef ==
  ASSUME NEW F, NEW U, IsFiniteSet(U), NEW s \in SUBSET U
  PROVE  Fold(F, U)[s] = Unfolded(F, Fold(F, U), s)
  <1> DEFINE Small(n) == {r \in SUBSET U : Cardinality(r) <= n}
             Is(g, n) == g = [r \in Small(n) |-> Unfolded(F, g, r)]
             T == {n \in Nat : ~\E g : Is(g, n)}
  <1>1. \A r \in SUBSET U : IsFiniteSet(r) /\ Cardinality(r) \in Nat /\ Cardinality(r) <= Cardinality(U)
    BY FS_Subset, FS_CardinalityType
  <1>2. T = {}
    <2>1. SUFFICES ASSUME T # {} PROVE FALSE
      OBVIOUS
    <2>2. PICK m \in T : \A n \in T : m <= n
      <3>1. T \in SUBSET Nat
        OBVIOUS
      <3> HIDE DEF T
      <3> QED BY <2>1, <3>1, LeastNatural
    <2>3. m \in Nat /\ ~\E g : Is(g, m)
      OBVIOUS
    <2>4. m # 0
      <3> DEFINE g == [r \in Small(0) |-> 0]
      <3>1. Small(0) = {{}}
        BY <1>1, FS_EmptySet
      <3>2. Is(g, 0)
        BY <3>1 DEF Unfolded
      <3> QED BY <2>3, <3>2
    <2> HIDE DEF T
    <2>5. m - 1 \in Nat /\ m - 1 \notin T
      BY <2>2, <2>3, <2>4
    <2>6. PICK g : Is(g, m - 1)
      BY <2>5 DEF T
    <2> DEFINE h == [r \in Small(m) |-> Unfolded(F, g, r)]
    <2>7. ASSUME NEW r \in Small(m), r # {}
          PROVE  r \ {first(r)} \in Small(m - 1)
      <3>1. first(r) \in r
        BY <2>7 DEF first
      <3>2. Cardinality(r \ {first(r)}) = Cardinality(r) - 1
        BY <1>1, <3>1, FS_RemoveElement
      <3> QED BY <1>1, <2>3, <3>2
    <2>8. \A r \in Small(m - 1) : r \in Small(m) /\ h[r] = g[r]
      <3>1. \A r \in Small(m - 1) : r \in Small(m)
        BY <1>1, <2>3
      <3>2. \A r \in Small(m - 1) : g[r] = Unfolded(F, g, r)
        BY <2>6
      <3> QED BY <3>1, <3>2
    <2>9. \A r \in Small(m) : Unfolded(F, h, r) = Unfolded(F, g, r)
      BY <2>7, <2>8 DEF Unfolded
    <2>10. Is(h, m)
      BY <2>9
    <2> QED BY <2>3, <2>10
  <1>3. \E g : g = [r \in SUBSET U |-> Unfolded(F, g, r)]
    <2>1. Cardinality(U) \in Nat /\ Small(Cardinality(U)) = SUBSET U
      BY <1>1, FS_CardinalityType
    <2>2. PICK g : Is(g, Cardinality(U))
      BY <1>2, <2>1
    <2> QED BY <2>1, <2>2
  <1>4. Fold(F, U) = [r \in SUBSET U |-> Unfolded(F, Fold(F, U), r)]
    BY <1>3 DEF Fold
  <1> QED BY <1>4

\* A sum is the fold over the whole set.
LEMMA SumIsFold ==
  ASSUME NEW F, NEW S PROVE SumOf(F, S) = Fold(F, S)[S]
  BY DEF SumOf, MapThenSumSet, MapThenFoldSet, Fold, Unfolded, first

\* Two folds agree on the sets on which their functions do.
LEMMA FoldsAgree ==
  ASSUME NEW F, NEW G, NEW U, NEW V, IsFiniteSet(U), IsFiniteSet(V),
         NEW W \in SUBSET (U \cap V), \A x \in W : F[x] = G[x]
  PROVE  Fold(F, U)[W] = Fold(G, V)[W]
  <1> DEFINE B == {s \in SUBSET W : Fold(F, U)[s] # Fold(G, V)[s]}
  <1> SUFFICES ASSUME B # {} PROVE FALSE
    OBVIOUS
  <1>1. IsFiniteSet(W)
    BY FS_Subset
  <1>2. PICK s \in B : \A x \in s : s \ {x} \notin B
    <2>1. B \in SUBSET (SUBSET W)
      OBVIOUS
    <2> HIDE DEF B
    <2> QED BY <1>1, <2>1, SmallestSet
  <1>3. s \in SUBSET W /\ s \in SUBSET U /\ s \in SUBSET V
    OBVIOUS
  <1>4. /\ Fold(F, U)[s] = Unfolded(F, Fold(F, U), s)
        /\ Fold(G, V)[s] = Unfolded(G, Fold(G, V), s)
    BY <1>3, FoldDef
  <1>5. ASSUME s # {} PROVE FALSE
    <2>1. first(s) \in s
      BY <1>5 DEF first
    <2>2. Fold(F, U)[s \ {first(s)}] = Fold(G, V)[s \ {first(s)}]
      BY <1>2, <1>3, <2>1
    <2> QED BY <1>2, <1>3, <1>4, <1>5, <2>1, <2>2 DEF Unfolded
  <1> QED BY <1>2, <1>4, <1>5 DEF Unfolded

\* The sum of integers is an integer.
LEMMA FoldInt ==
  ASSUME NEW U, NEW F, IsFiniteSet(U), \A x \in U : F[x] \in Int, NEW s \in SUBSET U
  PROVE  Fold(F, U)[s] \in Int
  <1> DEFINE B == {r \in SUBSET U : Fold(F, U)[r] \notin Int}
  <1> SUFFICES ASSUME B # {} PROVE FALSE
    OBVIOUS
  <1>1. PICK r \in B : \A x \in r : r \ {x} \notin B
    <2>1. B \in SUBSET (SUBSET U)
      OBVIOUS
    <2> HIDE DEF B
    <2> QED BY <2>1, SmallestSet
  <1>2. Fold(F, U)[r] = Unfolded(F, Fold(F, U), r)
    BY FoldDef
  <1>3. r # {} => first(r) \in r
    BY DEF first
  <1>4. Fold(F, U)[r] \notin Int /\ r \in SUBSET U
    OBVIOUS
  <1>5. \A x \in r : Fold(F, U)[r \ {x}] \in Int
    BY <1>1
  <1> HIDE DEF B
  <1>6. CASE r = {}
    BY <1>2, <1>4, <1>6 DEF Unfolded
  <1>7. CASE r # {}
    <2>1. first(r) \in r /\ F[first(r)] \in Int /\ Fold(F, U)[r \ {first(r)}] \in Int
      BY <1>3, <1>4, <1>5, <1>7
    <2> QED BY <1>2, <1>4, <1>7, <2>1 DEF Unfolded
  <1> QED BY <1>6, <1>7

\* Any element may be taken first.
LEMMA FoldTakes ==
  ASSUME NEW U, NEW F, IsFiniteSet(U), \A x \in U : F[x] \in Int, NEW s \in SUBSET U
  PROVE  \A x \in s : Fold(F, U)[s] = F[x] + Fold(F, U)[s \ {x}]
  <1> DEFINE f == Fold(F, U)
             Good(r) == \A x \in r : f[r] = F[x] + f[r \ {x}]
             B == {r \in SUBSET U : ~Good(r)}
  <1>0. B = {} => Good(s)
    OBVIOUS
  <1> SUFFICES ASSUME B # {} PROVE FALSE
    BY <1>0
  <1>1. PICK r \in B : \A x \in r : r \ {x} \notin B
    <2>1. B \in SUBSET (SUBSET U)
      OBVIOUS
    <2> HIDE DEF B
    <2> QED BY <2>1, SmallestSet
  <1>2. r \in SUBSET U /\ ~Good(r) /\ \A x \in r : Good(r \ {x})
    BY <1>1
  <1> HIDE DEF B
  <1>3. \A q \in SUBSET U : f[q] = Unfolded(F, f, q) /\ f[q] \in Int
    BY FoldDef, FoldInt
  <1> HIDE DEF f
  <1>4. r # {}
    BY <1>2
  <1> DEFINE y == first(r)
  <1>5. y \in r
    BY <1>4 DEF first
  <1>6. f[r] = F[y] + f[r \ {y}]
    BY <1>2, <1>3, <1>4 DEF Unfolded
  <1> HIDE DEF y
  <1>7. ASSUME NEW x \in r PROVE f[r] = F[x] + f[r \ {x}]
    <2>1. CASE x = y
      BY <1>6, <2>1
    <2>2. CASE x # y
      <3>1. f[r \ {y}] = F[x] + f[(r \ {y}) \ {x}]
        BY <1>2, <1>5, <2>2
      <3>2. f[r \ {x}] = F[y] + f[(r \ {y}) \ {x}]
        <4>1. (r \ {y}) \ {x} = (r \ {x}) \ {y}
          OBVIOUS
        <4> QED BY <1>2, <1>5, <2>2, <4>1
      <3>3. f[(r \ {y}) \ {x}] \in Int /\ F[x] \in Int /\ F[y] \in Int
        BY <1>2, <1>3, <1>5
      <3> HIDE DEF Good
      <3> QED BY <1>6, <3>1, <3>2, <3>3
    <2> QED BY <2>1, <2>2
  <1> QED BY <1>2, <1>7

-----------------------------------------------------------------------------
(* What the proofs use.                                                    *)

\* Nothing adds up to zero.
LEMMA SumEmpty ==
  ASSUME NEW F PROVE SumOf(F, {}) = 0
  BY SumIsFold, FoldDef, FS_EmptySet DEF Unfolded

\* The sum of integers is an integer.
LEMMA SumInt ==
  ASSUME NEW S, IsFiniteSet(S), NEW F, \A x \in S : F[x] \in Int
  PROVE  SumOf(F, S) \in Int
  BY SumIsFold, FoldInt

\* A sum depends on the summands alone.
LEMMA SumSame ==
  ASSUME NEW S, IsFiniteSet(S), NEW F, NEW G, \A x \in S : F[x] = G[x]
  PROVE  SumOf(F, S) = SumOf(G, S)
  BY SumIsFold, FoldsAgree

\* Any element may be split off.
LEMMA SumSplit ==
  ASSUME NEW S, IsFiniteSet(S), NEW F, \A x \in S : F[x] \in Int, NEW x \in S
  PROVE  SumOf(F, S) = F[x] + SumOf(F, S \ {x})
  <1>1. IsFiniteSet(S \ {x}) /\ S \ {x} \in SUBSET (S \cap (S \ {x}))
    BY FS_RemoveElement
  <1>2. Fold(F, S)[S \ {x}] = Fold(F, S \ {x})[S \ {x}]
    BY <1>1, FoldsAgree
  <1>3. Fold(F, S)[S] = F[x] + Fold(F, S)[S \ {x}]
    BY FoldTakes
  <1> QED BY <1>2, <1>3, SumIsFold

\* A new element adds its summand.
LEMMA SumAdd ==
  ASSUME NEW S, IsFiniteSet(S), NEW F, NEW x, x \notin S, \A y \in S \cup {x} : F[y] \in Int
  PROVE  SumOf(F, S \cup {x}) = SumOf(F, S) + F[x]
  <1>1. IsFiniteSet(S \cup {x}) /\ (S \cup {x}) \ {x} = S
    BY FS_AddElement
  <1>2. SumOf(F, S \cup {x}) = F[x] + SumOf(F, S)
    <2> DEFINE T == S \cup {x}
    <2>1. IsFiniteSet(T) /\ x \in T /\ T \ {x} = S /\ \A y \in T : F[y] \in Int
      BY <1>1
    <2> HIDE DEF T
    <2>2. SumOf(F, T) = F[x] + SumOf(F, T \ {x})
      BY <2>1, SumSplit
    <2> QED BY <2>1, <2>2 DEF T
  <1>3. SumOf(F, S) \in Int /\ F[x] \in Int
    BY SumInt
  <1> QED BY <1>1, <1>2, <1>3

\* When one summand changes the sum changes by the difference.
LEMMA SumChange ==
  ASSUME NEW S, IsFiniteSet(S), NEW F, NEW G, NEW x \in S,
         \A y \in S : F[y] \in Int /\ G[y] \in Int,
         \A y \in S \ {x} : F[y] = G[y]
  PROVE  SumOf(G, S) = SumOf(F, S) + G[x] - F[x]
  <1>1. IsFiniteSet(S \ {x})
    BY FS_RemoveElement
  <1>2. SumOf(F, S) = F[x] + SumOf(F, S \ {x}) /\ SumOf(G, S) = G[x] + SumOf(G, S \ {x})
    BY SumSplit
  <1>3. SumOf(F, S \ {x}) = SumOf(G, S \ {x})
    BY <1>1, SumSame
  <1>4. SumOf(F, S \ {x}) \in Int /\ F[x] \in Int /\ G[x] \in Int
    BY <1>1, SumInt
  <1> QED BY <1>2, <1>3, <1>4

\* Zeros add up to zero.
LEMMA SumZero ==
  ASSUME NEW S, IsFiniteSet(S), NEW F, \A x \in S : F[x] = 0
  PROVE  SumOf(F, S) = 0
  <1> DEFINE B == {r \in SUBSET S : SumOf(F, r) # 0}
  <1> SUFFICES ASSUME B # {} PROVE FALSE
    OBVIOUS
  <1>1. PICK r \in B : \A x \in r : r \ {x} \notin B
    <2>1. B \in SUBSET (SUBSET S)
      OBVIOUS
    <2> HIDE DEF B
    <2> QED BY <2>1, SmallestSet
  <1>2. IsFiniteSet(r) /\ r \in SUBSET S
    BY FS_Subset
  <1>3. \A x \in r : SumOf(F, r \ {x}) = 0
    BY <1>1
  <1>4. \A x \in r : SumOf(F, r) = F[x] + SumOf(F, r \ {x})
    BY <1>2, SumSplit
  <1>5. CASE r = {}
    BY <1>5, SumEmpty
  <1>6. CASE r # {}
    <2> PICK x \in r : TRUE
      BY <1>6
    <2>1. SumOf(F, r) = F[x] + SumOf(F, r \ {x}) /\ SumOf(F, r \ {x}) = 0 /\ F[x] = 0
      BY <1>2, <1>3, <1>4
    <2> QED BY <2>1
  <1>7. SumOf(F, r) # 0
    OBVIOUS
  <1> HIDE DEF B
  <1> QED BY <1>5, <1>6, <1>7

\* Sums add up summand by summand.
LEMMA SumPlus ==
  ASSUME NEW S, IsFiniteSet(S), NEW F, NEW G, NEW H,
         \A x \in S : F[x] \in Int /\ G[x] \in Int /\ H[x] = F[x] + G[x]
  PROVE  SumOf(H, S) = SumOf(F, S) + SumOf(G, S)
  <1> DEFINE B == {r \in SUBSET S : SumOf(H, r) # SumOf(F, r) + SumOf(G, r)}
  <1> SUFFICES ASSUME B # {} PROVE FALSE
    OBVIOUS
  <1>1. PICK r \in B : \A x \in r : r \ {x} \notin B
    <2>1. B \in SUBSET (SUBSET S)
      OBVIOUS
    <2> HIDE DEF B
    <2> QED BY <2>1, SmallestSet
  <1>2. IsFiniteSet(r) /\ r \in SUBSET S /\ \A x \in r : IsFiniteSet(r \ {x})
    BY FS_Subset
  <1>3. \A x \in r : SumOf(H, r \ {x}) = SumOf(F, r \ {x}) + SumOf(G, r \ {x})
    BY <1>1
  <1>4. \A x \in r : H[x] \in Int
    BY <1>2
  <1>5. \A x \in r : /\ SumOf(F, r) = F[x] + SumOf(F, r \ {x})
                     /\ SumOf(G, r) = G[x] + SumOf(G, r \ {x})
                     /\ SumOf(H, r) = H[x] + SumOf(H, r \ {x})
    BY <1>2, <1>4, SumSplit
  <1>6. \A x \in r : SumOf(F, r \ {x}) \in Int /\ SumOf(G, r \ {x}) \in Int
    BY <1>2, SumInt
  <1>7. SumOf(H, r) # SumOf(F, r) + SumOf(G, r)
    OBVIOUS
  <1> HIDE DEF B
  <1>8. CASE r = {}
    BY <1>7, <1>8, SumEmpty
  <1>9. CASE r # {}
    <2> PICK x \in r : TRUE
      BY <1>9
    <2>1. F[x] \in Int /\ G[x] \in Int /\ H[x] = F[x] + G[x]
      BY <1>2
    <2>2. /\ SumOf(F, r) = F[x] + SumOf(F, r \ {x})
          /\ SumOf(G, r) = G[x] + SumOf(G, r \ {x})
          /\ SumOf(H, r) = H[x] + (SumOf(F, r \ {x}) + SumOf(G, r \ {x}))
          /\ SumOf(F, r \ {x}) \in Int /\ SumOf(G, r \ {x}) \in Int
      BY <1>3, <1>5, <1>6
    <2> QED BY <1>7, <2>1, <2>2
  <1> QED BY <1>8, <1>9

\* A sum over a part is the sum over the whole of what is zero outside the part.
LEMMA SumPart ==
  ASSUME NEW S, IsFiniteSet(S), NEW P \in SUBSET S, NEW F, NEW G,
         \A x \in P : F[x] \in Int /\ G[x] = F[x], \A x \in S \ P : G[x] = 0
  PROVE  SumOf(F, P) = SumOf(G, S)
  <1> DEFINE B == {r \in SUBSET S : SumOf(F, r \cap P) # SumOf(G, r)}
  <1>0. B = {} => SumOf(F, P) = SumOf(G, S)
    <2>1. S \cap P = P
      OBVIOUS
    <2> QED BY <2>1
  <1> SUFFICES ASSUME B # {} PROVE FALSE
    BY <1>0
  <1>1. PICK r \in B : \A x \in r : r \ {x} \notin B
    <2>1. B \in SUBSET (SUBSET S)
      OBVIOUS
    <2> HIDE DEF B
    <2> QED BY <2>1, SmallestSet
  <1>2. IsFiniteSet(r) /\ r \in SUBSET S /\ IsFiniteSet(r \cap P)
    BY FS_Subset
  <1>3. \A x \in r : SumOf(F, (r \ {x}) \cap P) = SumOf(G, r \ {x})
    BY <1>1
  <1>4. \A x \in r : G[x] \in Int
    BY <1>2
  <1>5. \A x \in r : SumOf(G, r) = G[x] + SumOf(G, r \ {x})
    BY <1>2, <1>4, SumSplit
  <1>6. SumOf(F, r \cap P) # SumOf(G, r)
    OBVIOUS
  <1> HIDE DEF B
  <1>7. CASE r = {}
    <2>1. r \cap P = {}
      BY <1>7
    <2> QED BY <1>6, <1>7, <2>1, SumEmpty
  <1>8. CASE r # {}
    <2> PICK x \in r : TRUE
      BY <1>8
    <2>1. SumOf(G, r \ {x}) \in Int
      <3>1. IsFiniteSet(r \ {x})
        BY <1>2, FS_RemoveElement
      <3> QED BY <1>4, <3>1, SumInt
    <2>2. CASE x \in P
      <3> DEFINE T == r \cap P
      <3>1. /\ IsFiniteSet(T) /\ x \in T /\ \A y \in T : F[y] \in Int
            /\ (r \ {x}) \cap P = T \ {x}
        BY <1>2, <2>2
      <3>2. SumOf(F, T) # SumOf(G, r)
        BY <1>6
      <3> HIDE DEF T
      <3>3. SumOf(F, T) = F[x] + SumOf(F, T \ {x})
        BY <3>1, SumSplit
      <3>4. SumOf(F, T \ {x}) = SumOf(G, r \ {x})
        BY <1>3, <3>1
      <3> QED BY <1>5, <2>2, <3>2, <3>3, <3>4
    <2>3. CASE x \notin P
      <3>1. (r \ {x}) \cap P = r \cap P
        BY <2>3
      <3>2. SumOf(F, r \cap P) = SumOf(G, r \ {x})
        BY <1>3, <3>1
      <3>3. G[x] = 0
        BY <1>2, <2>3
      <3> QED BY <1>5, <1>6, <2>1, <3>2, <3>3
    <2> QED BY <2>2, <2>3
  <1> QED BY <1>7, <1>8
=============================================================================
