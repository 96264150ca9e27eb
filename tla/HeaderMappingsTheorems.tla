----------------------- MODULE HeaderMappingsTheorems -----------------------
(***************************************************************************)
(* What the operators of HeaderMappings compute, for devices, blocks and   *)
(* mappings of any size: the mapping of a set of blocks, its               *)
(* normalisation and compact form, the binary search and the reads.        *)
(*                                                                         *)
(* Induction is on sets of natural numbers (LeastElement, Induction), and  *)
(* each recursive function is first shown to exist.                        *)
(***************************************************************************)
EXTENDS HeaderMappings, TLAPS, FiniteSetTheorems, SequenceTheorems, WellFoundedInduction

-----------------------------------------------------------------------------
(* Induction.                                                              *)

\* A set of natural numbers that is not empty has a least element.
LEMMA LeastElement ==
  ASSUME NEW T \in SUBSET Nat, T # {}
  PROVE  \E x \in T : \A y \in T : x <= y
<1> DEFINE R == OpToRel(<, Nat)
<1>1. IsWellFoundedOn(R, Nat)
  BY NatLessThanWellFounded
<1>2. \A x, y \in Nat : <<x, y>> \in R <=> x < y
  BY DEF OpToRel
<1> HIDE DEF R
<1>3. PICK x \in T : \A y \in T : ~(<<y, x>> \in R)
  BY <1>1, WFMin
<1>4. \A y \in T : ~(y < x)
  BY <1>2, <1>3, Zenon
<1> QED
  BY <1>4

\* A set of natural numbers that contains 0 and with n also n + 1 contains all.
LEMMA Induction ==
  ASSUME NEW T \in SUBSET Nat, 0 \in T, \A n \in T : n + 1 \in T
  PROVE  \A n \in Nat : n \in T
<1> SUFFICES ASSUME Nat \ T # {} PROVE FALSE
  OBVIOUS
<1>1. PICK x \in Nat \ T : \A y \in Nat \ T : x <= y
  BY LeastElement, Nat \ T \in SUBSET Nat
<1>2. x - 1 \in Nat /\ x - 1 \notin Nat \ T
  BY <1>1
<1> QED
  BY <1>1, <1>2

-----------------------------------------------------------------------------
(* Ascending.                                                              *)

Rank(S, x) == Cardinality({y \in S : y <= x})

\* The numbers of a finite set have different ranks, larger ones larger ranks.
LEMMA RankIncreases ==
  ASSUME NEW S \in SUBSET Nat, IsFiniteSet(S)
  PROVE  /\ Cardinality(S) \in Nat
         /\ \A x \in S : Rank(S, x) \in 1..Cardinality(S)
         /\ \A x, y \in S : x < y => Rank(S, x) < Rank(S, y)
<1> DEFINE Upto(x) == {z \in S : z <= x}
<1>1. ASSUME NEW x \in S
      PROVE  /\ IsFiniteSet(Upto(x)) /\ Cardinality(Upto(x)) \in Nat
             /\ Cardinality(Upto(x)) <= Cardinality(S) /\ Cardinality(Upto(x)) # 0
  <2>1. Upto(x) \in SUBSET S /\ x \in Upto(x)
    OBVIOUS
  <2> QED
    BY <2>1, FS_Subset, FS_CardinalityType, FS_EmptySet
<1>2. Cardinality(S) \in Nat
  BY FS_CardinalityType
<1>3. ASSUME NEW x \in S, NEW y \in S, x < y PROVE Cardinality(Upto(x)) < Cardinality(Upto(y))
  <2>0. x \in Nat /\ y \in Nat /\ \A z \in S : z \in Nat
    OBVIOUS
  <2>1. y \in Upto(y) /\ y \notin Upto(x) /\ \A z \in Upto(x) : z \in Upto(y)
    BY <1>3, <2>0
  <2>2. Cardinality(Upto(x)) <= Cardinality(Upto(y)) /\ Cardinality(Upto(x)) # Cardinality(Upto(y))
    BY <1>1, <2>1, Upto(x) \in SUBSET Upto(y), FS_Subset
  <2> QED
    BY <1>1, <2>2
<1> QED
  BY <1>1, <1>2, <1>3 DEF Rank

\* Ascending(S) has at each place the element of that rank.
LEMMA AscendingRanks ==
  ASSUME NEW S \in SUBSET Nat, IsFiniteSet(S)
  PROVE  /\ Ascending(S) \in Seq(S) /\ Len(Ascending(S)) = Cardinality(S)
         /\ \A x \in S : Ascending(S)[Rank(S, x)] = x
         /\ \A k \in 1..Cardinality(S) : Rank(S, Ascending(S)[k]) = k
         /\ \A j, k \in 1..Cardinality(S) : j < k => Ascending(S)[j] < Ascending(S)[k]
<1> DEFINE C == Cardinality(S)
           f == [x \in S |-> Rank(S, x)]
<1>1. /\ C \in Nat /\ \A x \in S : Rank(S, x) \in 1..C
      /\ \A x, y \in S : x < y => Rank(S, x) < Rank(S, y)
  BY RankIncreases
<1>2. \A x, y \in S : Rank(S, x) = Rank(S, y) => x = y
  BY <1>1
<1>3. f \in Injection(S, 1..C)
  BY <1>1, <1>2 DEF Injection, IsInjective
<1>4. IsFiniteSet(1..C) /\ Cardinality(1..C) = C
  BY <1>1, FS_Interval
<1>5. f \in Surjection(S, 1..C)
  BY <1>3, <1>4, FS_Injection
<1>6. \A k \in 1..C : \E x \in S : Rank(S, x) = k
  BY <1>5 DEF Surjection
<1>7. \A k \in 1..C : Ascending(S)[k] \in S /\ Rank(S, Ascending(S)[k]) = k
  BY <1>6 DEF Ascending, Rank
<1>8. Ascending(S) \in Seq(S) /\ Len(Ascending(S)) = C
  <2>1. Ascending(S) \in [1..C -> S]
    BY <1>7 DEF Ascending
  <2> QED
    BY <1>1, <2>1
<1>9. \A x \in S : Ascending(S)[Rank(S, x)] = x
  BY <1>1, <1>2, <1>7
<1>10. ASSUME NEW j \in 1..C, NEW k \in 1..C, j < k PROVE Ascending(S)[j] < Ascending(S)[k]
  <2> DEFINE x == Ascending(S)[j]
             y == Ascending(S)[k]
  <2>1. x \in S /\ y \in S /\ Rank(S, x) = j /\ Rank(S, y) = k
    BY <1>7
  <2> HIDE DEF x, y
  <2>2. ~(y < x) /\ x # y /\ x \in Nat /\ y \in Nat
    BY <1>1, <1>10, <2>1
  <2> QED
    BY <2>2 DEF x, y
<1> QED
  BY <1>7, <1>8, <1>9, <1>10

-----------------------------------------------------------------------------
(* The pages of blocks.                                                    *)

\* Block x has the pages from x * r on, r of them.
LEMMA BlockOfPage ==
  ASSUME NEW r \in Nat \ {0}, NEW p \in Nat, NEW x \in Nat
  PROVE  p \div r = x <=> x * r <= p /\ p < x * r + r
<1>1. p \div r \in Nat /\ (p \div r) * r <= p /\ p < (p \div r) * r + r
  OBVIOUS
<1> DEFINE q == p \div r
<1> HIDE DEF q
<1>2. ASSUME NEW y \in Nat, NEW z \in Nat, y < z PROVE y * r + r <= z * r
  <2>1. z = y + 1 + (z - y - 1) /\ z - y - 1 \in Nat
    BY <1>2
  <2> QED
    BY <2>1
<1>3. q \in Nat /\ q * r <= p /\ p < q * r + r
  BY <1>1 DEF q
<1>4. q = x <=> x * r <= p /\ p < x * r + r
  BY <1>2, <1>3
<1> QED
  BY <1>4 DEF q

\* Larger blocks are behind.
LEMMA BlocksInOrder ==
  ASSUME NEW r \in Nat \ {0}, NEW x \in Nat, NEW y \in Nat, x < y
  PROVE  x * r + r <= y * r
<1>1. y = x + 1 + (y - x - 1) /\ y - x - 1 \in Nat
  OBVIOUS
<1> QED
  BY <1>1

\* A device of N blocks of r pages. A set of its blocks has r times as many pages.
LEMMA PagesCounted ==
  ASSUME NEW r \in Nat \ {0}, NEW N \in Nat, Size = N * r, NEW S \in SUBSET (0..(N - 1))
  PROVE  /\ IsFiniteSet(S) /\ Cardinality(S) \in Nat
         /\ IsFiniteSet(PagesOf(S, r)) /\ Cardinality(PagesOf(S, r)) = Cardinality(S) * r
<1> USE MappingsAssumption
<1> DEFINE T == {n \in Nat : \A A \in SUBSET (0..(n - 1)) : n <= N =>
                   /\ IsFiniteSet(A) /\ Cardinality(A) \in Nat
                   /\ IsFiniteSet(PagesOf(A, r))
                   /\ Cardinality(PagesOf(A, r)) = Cardinality(A) * r}
<1>1. 0 \in T
  <2>1. ASSUME NEW A \in SUBSET (0..(0 - 1)) PROVE A = {}
    OBVIOUS
  <2>2. PagesOf({}, r) = {}
    BY DEF PagesOf
  <2>3. Cardinality({}) * r = 0
    BY FS_EmptySet
  <2>4. Cardinality({}) \in Nat /\ IsFiniteSet({})
    BY FS_EmptySet
  <2>5. ASSUME NEW A \in SUBSET (0..(0 - 1))
        PROVE  /\ IsFiniteSet(A) /\ Cardinality(A) \in Nat
               /\ IsFiniteSet(PagesOf(A, r)) /\ Cardinality(PagesOf(A, r)) = Cardinality(A) * r
    <3>1. A = {}
      BY <2>1
    <3>2. Cardinality(PagesOf({}, r)) = Cardinality({}) * r
      BY <2>2, <2>3, FS_EmptySet
    <3> QED
      BY <2>2, <2>4, <3>1, <3>2, Zenon
  <2> QED
    BY <2>5
<1>2. ASSUME NEW n \in T PROVE n + 1 \in T
  <2> SUFFICES ASSUME NEW A \in SUBSET (0..n), n + 1 <= N
               PROVE  /\ IsFiniteSet(A) /\ Cardinality(A) \in Nat
                      /\ IsFiniteSet(PagesOf(A, r))
                      /\ Cardinality(PagesOf(A, r)) = Cardinality(A) * r
    BY (n + 1) - 1 = n
  <2> DEFINE B == A \ {n}
             Q == (n * r)..(n * r + r - 1)
  <2>1. B \in SUBSET (0..(n - 1)) /\ n <= N /\ n \in Nat
    OBVIOUS
  <2>2. /\ IsFiniteSet(B) /\ Cardinality(B) \in Nat
        /\ IsFiniteSet(PagesOf(B, r)) /\ Cardinality(PagesOf(B, r)) = Cardinality(B) * r
    BY <2>1
  <2>3. CASE n \notin A
    BY <2>2, <2>3, B = A
  <2>4. CASE n \in A
    <3>1. A = B \cup {n} /\ n \notin B
      BY <2>4
    <3>2. IsFiniteSet(A) /\ Cardinality(A) = Cardinality(B) + 1
      <4> HIDE DEF B
      <4> QED
        BY <2>2, <3>1, FS_AddElement
    <3>3. n * r \in Nat /\ n * r + r <= Size
      <4>1. n * r + r <= N * r
        BY <2>1, BlocksInOrder
      <4> QED
        BY <4>1
    <3>4. \A p \in Pages : p \div r = n <=> p \in Q
      BY <2>1, <3>3, BlockOfPage DEF Pages
    <3>5. PagesOf(A, r) = PagesOf(B, r) \cup Q
      BY <3>1, <3>3, <3>4 DEF PagesOf, Pages
    <3>6. PagesOf(B, r) \cap Q = {}
      BY <3>1, <3>4 DEF PagesOf
    <3>7. IsFiniteSet(Q) /\ Cardinality(Q) = r
      BY <3>3, FS_Interval
    <3> HIDE DEF B, Q
    <3>8. IsFiniteSet(PagesOf(A, r)) /\ Cardinality(PagesOf(A, r)) = Cardinality(B) * r + r
      <4>1. Cardinality(PagesOf(B, r) \cap Q) = 0
        BY <3>6, FS_EmptySet
      <4>2. /\ IsFiniteSet(PagesOf(B, r) \cup Q)
            /\ Cardinality(PagesOf(B, r) \cup Q) =
                 Cardinality(PagesOf(B, r)) + Cardinality(Q) - Cardinality(PagesOf(B, r) \cap Q)
        BY <2>2, <3>7, FS_Union, Zenon
      <4> QED
        BY <2>2, <3>5, <3>7, <4>1, <4>2
    <3> QED
      BY <2>2, <3>2, <3>8
  <2> QED
    BY <2>3, <2>4
<1> HIDE DEF T
<1>3. N \in T
  <2>1. T \in SUBSET Nat
    BY DEF T
  <2> QED
    BY <1>1, <1>2, <2>1, Induction
<1> QED
  BY <1>3 DEF T

-----------------------------------------------------------------------------
(* CreateMapping.                                                          *)

\* RunLength(S, s) is the length of the range of S that starts at s.
LEMMA RunEnds ==
  ASSUME NEW N \in Nat, N <= Size, NEW S \in SUBSET (0..(N - 1)), NEW s \in S
  PROVE  /\ RunLength(S, s) \in 1..Size
         /\ s..(s + RunLength(S, s) - 1) \subseteq S
         /\ s + RunLength(S, s) \notin S
<1> USE MappingsAssumption
<1> DEFINE T == {n \in Nat \ {0} : s + n \notin S}
<1>1. s \in 0..(N - 1) /\ N - s \in T
  OBVIOUS
<1>2. PICK n \in T : \A m \in T : n <= m
  <2>1. T \in SUBSET Nat /\ T # {}
    BY <1>1
  <2> HIDE DEF T
  <2> QED
    BY <2>1, LeastElement
<1>3. n \in 1..Size /\ s + n \notin S
  BY <1>1, <1>2
<1>4. ASSUME NEW y \in s..(s + n - 1) PROVE y \in S
  <2>1. y - s \in Nat /\ y - s < n /\ s + (y - s) = y
    BY <1>1, <1>3
  <2>2. CASE y = s
    BY <2>2
  <2>3. CASE y # s
    BY <1>2, <2>1, <2>3
  <2> QED
    BY <2>2, <2>3
<1> QED
  BY <1>3, <1>4 DEF RunLength

\* The pages from the first one of block a on are those of the blocks from a on.
LEMMA PagesFrom ==
  ASSUME NEW r \in Nat \ {0}, NEW a \in Nat, NEW p \in Nat
  PROVE  /\ a * r \in Nat /\ p \div r \in Nat
         /\ a * r <= p <=> a <= p \div r
         /\ p < a * r <=> p \div r < a
<1> DEFINE x == p \div r
<1>1. x \in Nat
  OBVIOUS
<1>2. x * r <= p /\ p < x * r + r /\ x * r \in Nat /\ a * r \in Nat
  BY <1>1, BlockOfPage
<1> HIDE DEF x
<1>3. (a <= x => a * r <= x * r) /\ (x < a => x * r + r <= a * r)
  BY <1>1, BlocksInOrder
<1>4. /\ a * r \in Nat /\ x \in Nat
      /\ a * r <= p <=> a <= x
      /\ p < a * r <=> x < a
  BY <1>1, <1>2, <1>3
<1> QED
  BY <1>4 DEF x

\* The blocks of S before s.
Preceding(S, s) == Cardinality({t \in S : t < s})

\* CreateMapping of a set of blocks: entries in order that cover the pages of the
\* blocks and no others, each page at its place in the packed storage.
THEOREM CreateMappingPacks ==
  ASSUME NEW r \in Nat \ {0}, NEW N \in Nat, Size = N * r, NEW S \in SUBSET (0..(N - 1)),
         NEW id \in Nat
  PROVE  LET ms == CreateMapping(id, S, r) IN
         /\ ms \in Seq(Entry) /\ Ordered(ms) /\ OnDevice(ms)
         /\ \A p \in Pages : p \in PagesOf(S, r) => Mapped(ms, p)
         /\ \A i \in DOMAIN ms :
              /\ ms[i].build = id
              /\ \A p \in Pages : Covers(ms[i], p) =>
                   /\ p \in PagesOf(S, r)
                   /\ ms[i].storage + (p - ms[i].off) + 1 = Rank(PagesOf(S, r), p)
<1> USE MappingsAssumption
<1> DEFINE ms == CreateMapping(id, S, r)
           A == {s \in S : s - 1 \notin S}
           starts == Ascending(A)
           C == Cardinality(A)
           Packed(s) == Preceding(S, s)
           Run(s) == RunLength(S, s)
<1>1. N <= Size /\ S \in SUBSET Nat
  <2>1. N = 0 \/ N * r >= N
    OBVIOUS
  <2> QED
    BY <2>1
<1>2. IsFiniteSet(A) /\ A \in SUBSET Nat /\ C \in Nat
  <2>1. A \in SUBSET (0..(N - 1)) /\ A \in SUBSET Nat
    BY <1>1
  <2> HIDE DEF A
  <2> QED
    BY <2>1, PagesCounted
<1>3. /\ starts \in Seq(A) /\ Len(starts) = C /\ DOMAIN starts = 1..C
      /\ \A x \in A : Rank(A, x) \in 1..C /\ starts[Rank(A, x)] = x
      /\ \A j, k \in 1..C : j < k => starts[j] < starts[k]
  <2> HIDE DEF A
  <2>1. /\ starts \in Seq(A) /\ Len(starts) = C
        /\ \A x \in A : starts[Rank(A, x)] = x
        /\ \A j, k \in 1..C : j < k => starts[j] < starts[k]
    BY <1>2, AscendingRanks
  <2>2. \A x \in A : Rank(A, x) \in 1..C
    BY <1>2, RankIncreases
  <2> QED
    BY <2>1, <2>2
<1>4. ASSUME NEW s \in A
      PROVE  /\ s \in S /\ s \in Nat /\ s - 1 \notin S
             /\ Run(s) \in 1..Size /\ s..(s + Run(s) - 1) \subseteq S /\ s + Run(s) \notin S
             /\ Packed(s) \in Nat
  <2>1. s \in S /\ s \in Nat /\ s - 1 \notin S
    BY <1>1
  <2>2. {t \in S : t < s} \in SUBSET (0..(N - 1))
    OBVIOUS
  <2> QED
    BY <1>1, <2>1, <2>2, RunEnds, PagesCounted, ZenonT(30) DEF Preceding
<1> HIDE DEF A, C, starts, Packed, Run
<1>5. ASSUME NEW s \in A
      PROVE  /\ s * r \in Nat /\ Run(s) * r \in Nat \ {0} /\ Packed(s) * r \in Nat
             /\ s * r + Run(s) * r <= Size
  <2>1. s + Run(s) <= N /\ s + Run(s) \in Nat /\ Run(s) \in Nat \ {0}
    <3>1. s + Run(s) - 1 \in S
      BY <1>4
    <3> QED
      BY <1>4, <3>1
  <2>2. (s + Run(s)) * r = s * r + Run(s) * r
    BY <1>4, <2>1
  <2>3. (s + Run(s)) * r <= N * r
    <3> DEFINE e == s + Run(s)
    <3> HIDE DEF e
    <3>1. e = N \/ e * r + r <= N * r
      BY <2>1, BlocksInOrder DEF e
    <3>2. e * r <= N * r
      BY <2>1, <3>1 DEF e
    <3> QED
      BY <3>2 DEF e
  <2> QED
    BY <1>4, <2>1, <2>2, <2>3
<1>6. \A s, t \in A : s < t => s * r + Run(s) * r <= t * r
  <2> SUFFICES ASSUME NEW s \in A, NEW t \in A, s < t PROVE s * r + Run(s) * r <= t * r
    OBVIOUS
  <2>1. s + Run(s) <= t
    <3>1. ~(t - 1 \in s..(s + Run(s) - 1))
      BY <1>4
    <3> QED
      BY <1>4, <3>1
  <2>2. (s + Run(s)) * r = s * r + Run(s) * r
    BY <1>4
  <2>3. (s + Run(s)) * r <= t * r
    <3> DEFINE e == s + Run(s)
    <3>1. e \in Nat
      BY <1>4
    <3> HIDE DEF e
    <3>2. e = t \/ e * r + r <= t * r
      BY <1>4, <2>1, <3>1, BlocksInOrder DEF e
    <3>3. e * r <= t * r
      BY <1>4, <3>1, <3>2
    <3> QED
      BY <3>3 DEF e
  <2> QED
    BY <2>2, <2>3
<1>7. /\ DOMAIN ms = 1..C
      /\ \A k \in 1..C : /\ starts[k] \in A
                         /\ ms[k] = [off |-> starts[k] * r, len |-> Run(starts[k]) * r,
                                     build |-> id, storage |-> Packed(starts[k]) * r]
  <2>1. ms = [k \in DOMAIN starts |-> [off |-> starts[k] * r, len |-> Run(starts[k]) * r,
                                       build |-> id, storage |-> Packed(starts[k]) * r]]
    BY DEF CreateMapping, starts, A, Packed, Preceding, Run
  <2>2. \A k \in 1..C : starts[k] \in A
    BY <1>3
  <2> HIDE DEF ms
  <2> QED
    BY <1>3, <2>1, <2>2
<1> HIDE DEF ms
<1>8. \A k \in 1..C : ms[k] \in Entry
  BY <1>5, <1>7 DEF Entry
<1>9. ms \in Seq(Entry)
  <2>1. ms = [k \in 1..C |-> ms[k]]
    BY <1>7 DEF ms, CreateMapping
  <2> QED
    BY <1>2, <1>8, <2>1, SMTT(30)
<1>10. Ordered(ms)
  <2> SUFFICES ASSUME NEW i \in 1..C, NEW j \in 1..C, i < j PROVE End(ms[i]) <= ms[j].off
    BY <1>7 DEF Ordered
  <2>1. starts[i] \in A /\ starts[j] \in A /\ starts[i] < starts[j]
    BY <1>3, <1>7
  <2>2. starts[i] * r + Run(starts[i]) * r <= starts[j] * r
    BY <1>6, <2>1
  <2> QED
    BY <1>7, <2>2 DEF End
<1>11. OnDevice(ms)
  BY <1>5, <1>7 DEF OnDevice, End
<1>12. ASSUME NEW p \in PagesOf(S, r) PROVE Mapped(ms, p)
  <2> DEFINE x == p \div r
  <2>1. p \in Pages /\ p \in Nat /\ x \in S /\ x \in Nat
    BY <1>1 DEF PagesOf, Pages
  <2> DEFINE T == {n \in Nat : n <= x /\ n..x \subseteq S}
  <2>2. T \in SUBSET Nat /\ x \in T
    BY <2>1
  <2>3. PICK s \in T : \A m \in T : s <= m
    <3> HIDE DEF T
    <3> QED
      BY <2>2, LeastElement
  <2>4. s \in A
    <3>1. s \in Nat /\ s \in S
      BY <2>1, <2>3
    <3>2. ~(s - 1 \in S)
      <4> SUFFICES ASSUME s - 1 \in S PROVE FALSE
        OBVIOUS
      <4>1. s - 1 \in Nat /\ s - 1 <= x
        BY <1>1, <2>1, <2>3
      <4>2. (s - 1)..x \subseteq S
        BY <2>1, <2>3, <4>1
      <4> QED
        BY <2>3, <4>1, <4>2
    <3> QED
      BY <3>1, <3>2 DEF A
  <2>5. s <= x /\ x < s + Run(s) /\ s \in Nat /\ Run(s) \in Nat
    <3>1. ~(s + Run(s) \in s..x)
      BY <1>4, <2>3, <2>4
    <3> QED
      BY <1>4, <2>1, <2>3, <2>4, <3>1
  <2>6. s * r <= p /\ p < s * r + Run(s) * r
    <3> HIDE DEF T
    <3>1. s * r <= p
      BY <2>1, <2>5, PagesFrom
    <3>2. p < (s + Run(s)) * r
      BY <2>1, <2>5, PagesFrom
    <3>3. (s + Run(s)) * r = s * r + Run(s) * r
      BY <2>5
    <3> QED
      BY <3>1, <3>2, <3>3
  <2> QED
    BY <1>3, <1>7, <2>4, <2>6 DEF Mapped, Covers, End
<1>13. ASSUME NEW s \in A, NEW p \in Pages, s * r <= p, p < s * r + Run(s) * r
       PROVE  /\ p \in PagesOf(S, r)
              /\ Rank(PagesOf(S, r), p) = Packed(s) * r + (p - s * r) + 1
  <2> DEFINE x == p \div r
             Q == PagesOf(S, r)
             B == {t \in S : t < s}
             J == (s * r)..p
  <2>1. /\ s \in Nat /\ p \in Nat /\ s * r \in Nat /\ s + Run(s) \in Nat /\ Run(s) \in Nat
        /\ s * r <= p /\ p < s * r + Run(s) * r
        /\ s \in S /\ s..(s + Run(s) - 1) \subseteq S
    BY <1>4, <1>5, <1>13 DEF Pages
  <2>2. (s + Run(s)) * r = s * r + Run(s) * r
    BY <2>1
  <2>3. s <= x /\ x < s + Run(s) /\ x \in Nat
    BY <2>1, <2>2, PagesFrom
  <2>4. x \in S
    BY <2>1, <2>3
  <2>5. p \in Q
    BY <2>4 DEF PagesOf
  <2>6. ASSUME NEW q \in Pages
        PROVE  q \in Nat /\ q \div r \in Nat /\ (s * r <= q <=> s <= q \div r)
    <3>1. q \in Nat /\ s \in Nat
      BY <2>1 DEF Pages
    <3> QED
      BY <3>1, PagesFrom
  <2>7. ASSUME NEW q \in Pages, q <= p PROVE q \div r < s + Run(s)
    <3>1. q \in Nat /\ q < (s + Run(s)) * r
      BY <2>1, <2>2, <2>6, <2>7
    <3> QED
      BY <2>1, <3>1, PagesFrom
  <2>8. {q \in Q : q <= p} = PagesOf(B, r) \cup J
    <3>1. ASSUME NEW q \in Q, q <= p PROVE q \in PagesOf(B, r) \cup J
      BY <2>1, <2>6, <3>1 DEF PagesOf
    <3>2. ASSUME NEW q \in PagesOf(B, r) PROVE q \in Q /\ q <= p
      BY <2>1, <2>6, <3>2, SMTT(30) DEF PagesOf
    <3>3. ASSUME NEW q \in J PROVE q \in Q /\ q <= p
      <4>1. q \in Pages /\ q <= p
        BY <2>1, <3>3 DEF Pages
      <4>2. q \div r \in s..(s + Run(s) - 1)
        BY <2>1, <2>6, <2>7, <3>3, <4>1
      <4>3. q \div r \in S
        BY <2>1, <4>2
      <4> QED
        BY <4>1, <4>3 DEF PagesOf
    <3> QED
      BY <3>1, <3>2, <3>3
  <2>9. PagesOf(B, r) \cap J = {}
    BY <2>1, <2>6 DEF PagesOf
  <2>10. /\ IsFiniteSet(PagesOf(B, r)) /\ Cardinality(PagesOf(B, r)) = Cardinality(B) * r
         /\ Cardinality(B) \in Nat
    <3>1. B \in SUBSET (0..(N - 1))
      OBVIOUS
    <3> HIDE DEF B
    <3> QED
      BY <3>1, PagesCounted
  <2>11. IsFiniteSet(J) /\ Cardinality(J) = p - s * r + 1
    BY <2>1, FS_Interval
  <2>12. Cardinality({q \in Q : q <= p}) = Cardinality(B) * r + (p - s * r + 1)
    <3> HIDE DEF B, J, Q
    <3>1. Cardinality(PagesOf(B, r) \cap J) = 0
      BY <2>9, FS_EmptySet
    <3>2. Cardinality(PagesOf(B, r) \cup J) =
             Cardinality(PagesOf(B, r)) + Cardinality(J) - Cardinality(PagesOf(B, r) \cap J)
      BY <2>10, <2>11, FS_Union, Zenon
    <3>3. Cardinality(PagesOf(B, r)) \in Nat /\ Cardinality(J) \in Nat
      BY <2>10, <2>11, FS_CardinalityType
    <3>4. Cardinality(PagesOf(B, r) \cup J) = Cardinality(PagesOf(B, r)) + Cardinality(J)
      BY <3>1, <3>2, <3>3
    <3> QED
      BY <2>8, <2>10, <2>11, <3>4, Zenon
  <2> QED
    BY <2>1, <2>5, <2>10, <2>12 DEF Rank, Packed, Preceding
<1>14. ASSUME NEW i \in DOMAIN ms
       PROVE  /\ ms[i].build = id
              /\ \A p \in Pages : Covers(ms[i], p) =>
                   /\ p \in PagesOf(S, r)
                   /\ ms[i].storage + (p - ms[i].off) + 1 = Rank(PagesOf(S, r), p)
  <2> DEFINE s == starts[i]
  <2>1. s \in A /\ ms[i] = [off |-> s * r, len |-> Run(s) * r,
                            build |-> id, storage |-> Packed(s) * r]
    BY <1>7
  <2> HIDE DEF s
  <2> SUFFICES ASSUME NEW p \in Pages, Covers(ms[i], p)
               PROVE  /\ p \in PagesOf(S, r)
                      /\ ms[i].storage + (p - ms[i].off) + 1 = Rank(PagesOf(S, r), p)
    BY <2>1
  <2>2. s * r <= p /\ p < s * r + Run(s) * r
    BY <2>1 DEF Covers, End
  <2>3. /\ p \in PagesOf(S, r)
        /\ Rank(PagesOf(S, r), p) = Packed(s) * r + (p - s * r) + 1
    BY <1>13, <2>1, <2>2
  <2> QED
    BY <2>1, <2>3
<1> QED
  BY <1>9, <1>10, <1>11, <1>12, <1>14 DEF ms

-----------------------------------------------------------------------------
(* Sequences of entries.                                                   *)

\* The fields of an entry are numbers, and it is not empty.
LEMMA EntryFields ==
  ASSUME NEW m \in Entry
  PROVE  /\ m.off \in Nat /\ m.len \in Nat \ {0} /\ m.build \in Nat /\ m.storage \in Nat
         /\ End(m) = m.off + m.len /\ End(m) \in Nat /\ m.off < End(m)
  BY DEF Entry, End

\* An entry behind the others keeps a sequence in order, and if it begins where
\* they end without gaps.
LEMMA AppendEntry ==
  ASSUME NEW ms \in Seq(Entry), NEW m \in Entry
  PROVE  /\ Append(ms, m) \in Seq(Entry) /\ Append(ms, m) # <<>>
         /\ Len(Append(ms, m)) = Len(ms) + 1
         /\ \A i \in DOMAIN ms : Append(ms, m)[i] = ms[i]
         /\ Append(ms, m)[Len(ms) + 1] = m
         /\ DOMAIN Append(ms, m) = DOMAIN ms \cup {Len(ms) + 1}
         /\ \A i \in DOMAIN ms : i \in 1..Len(ms) /\ ms[i] \in Entry
  OBVIOUS

LEMMA AppendOrdered ==
  ASSUME NEW ms \in Seq(Entry), NEW m \in Entry, Ordered(ms),
         \A i \in DOMAIN ms : End(ms[i]) <= m.off
  PROVE  Ordered(Append(ms, m))
  BY AppendEntry DEF Ordered

LEMMA AppendContiguous ==
  ASSUME NEW ms \in Seq(Entry), NEW m \in Entry, Contiguous(ms),
         ms # <<>> => m.off = End(ms[Len(ms)])
  PROVE  Contiguous(Append(ms, m))
<1> SUFFICES ASSUME NEW i \in DOMAIN Append(ms, m), i > 1
             PROVE  Append(ms, m)[i].off = End(Append(ms, m)[i - 1])
  BY DEF Contiguous
<1>1. CASE i \in DOMAIN ms
  <2>1. i - 1 \in DOMAIN ms
    BY <1>1
  <2> QED
    BY <1>1, <2>1, AppendEntry DEF Contiguous
<1>2. CASE i = Len(ms) + 1
  <2>1. i - 1 = Len(ms) /\ Len(ms) \in DOMAIN ms /\ ms # <<>>
    BY <1>2
  <2> QED
    BY <1>2, <2>1, AppendEntry
<1> QED
  BY <1>1, <1>2, AppendEntry

LEMMA AppendRight ==
  ASSUME NEW ms \in Seq(Entry), NEW m \in Entry, Right(ms),
         \A p \in Pages : Covers(m, p) => Has(m, p)
  PROVE  Right(Append(ms, m))
  BY AppendEntry DEF Right

\* Each entry of a sequence in order ends where the last one does, or before.
LEMMA EndsInOrder ==
  ASSUME NEW ms \in Seq(Entry), Ordered(ms)
  PROVE  \A i \in DOMAIN ms : End(ms[i]) <= End(ms[Len(ms)])
<1> SUFFICES ASSUME NEW i \in DOMAIN ms PROVE End(ms[i]) <= End(ms[Len(ms)])
  OBVIOUS
<1>1. i \in 1..Len(ms) /\ Len(ms) \in DOMAIN ms /\ ms[i] \in Entry /\ ms[Len(ms)] \in Entry
  OBVIOUS
<1>2. CASE i = Len(ms)
  BY <1>1, <1>2, EntryFields
<1>3. CASE i < Len(ms)
  <2>1. End(ms[i]) <= ms[Len(ms)].off
    BY <1>1, <1>3 DEF Ordered
  <2> QED
    BY <1>1, <2>1, EntryFields
<1> QED
  BY <1>1, <1>2, <1>3

-----------------------------------------------------------------------------
(* NormalizeMappings.                                                      *)

\* A longer entry.
LEMMA Lengthened ==
  ASSUME NEW m \in Entry, NEW k \in Nat
  PROVE  LET e == [m EXCEPT !.len = @ + k] IN
         /\ e \in Entry /\ e.off = m.off /\ e.len = m.len + k
         /\ e.build = m.build /\ e.storage = m.storage
  BY DEF Entry

\* An iteration of the loop keeps the entries before it right and without gaps.
LEMMA JoinKeeps ==
  ASSUME NEW joined \in Seq(Entry), joined # <<>>, NEW m \in Entry,
         Ordered(joined), Contiguous(joined), Right(joined),
         m.off = End(joined[Len(joined)]),
         \A p \in Pages : Covers(m, p) => Has(m, p)
  PROVE  LET js == Join(joined, m) IN
         /\ js \in Seq(Entry) /\ js # <<>> /\ js[1].off = joined[1].off
         /\ Ordered(js) /\ Contiguous(js) /\ Right(js)
         /\ End(js[Len(js)]) = End(m)
<1> DEFINE js == Join(joined, m)
           n == Len(joined)
           current == joined[n]
<1>1. /\ n \in Nat \ {0} /\ Len(joined) = n /\ DOMAIN joined = 1..n
      /\ \A i \in 1..n : joined[i] \in Entry
  OBVIOUS
<1> HIDE DEF n
<1>2. CASE js = Append(joined, m)
  <2>1. Ordered(Append(joined, m))
    BY EndsInOrder, AppendOrdered
  <2>2. Contiguous(Append(joined, m)) /\ Right(Append(joined, m))
    BY AppendContiguous, AppendRight
  <2> QED
    BY <1>1, <1>2, <2>1, <2>2, AppendEntry
<1>3. CASE /\ js = Front(joined) \o <<[current EXCEPT !.len = @ + m.len]>>
           /\ m.build = current.build
           /\ m.build = Nil \/ m.storage = current.storage + current.len
  <2> DEFINE e == [current EXCEPT !.len = @ + m.len]
  <2>1. /\ e \in Entry /\ e.off = current.off /\ e.len = current.len + m.len
        /\ e.build = current.build /\ e.storage = current.storage
    BY <1>1, Lengthened, EntryFields
  <2> HIDE DEF e
  <2>2. End(e) = End(m) /\ End(current) = m.off
    BY <1>1, <2>1, EntryFields, SMTT(30)
  <2>3. /\ Front(joined) \in Seq(Entry) /\ Len(Front(joined)) = n - 1
        /\ \A i \in 1..(n - 1) : Front(joined)[i] = joined[i]
    BY <1>1 DEF Front
  <2>4. /\ js \in Seq(Entry) /\ Len(js) = n /\ DOMAIN js = 1..n
        /\ \A i \in 1..(n - 1) : js[i] = joined[i]
        /\ js[n] = e
    <3>1. js = Front(joined) \o <<e>>
      BY <1>3 DEF e
    <3> HIDE DEF js
    <3>2. js = Append(Front(joined), e)
      BY <2>1, <2>3, <3>1
    <3> QED
      BY <1>1, <2>1, <2>3, <3>2
  <2> HIDE DEF js
  <2>5. \A i \in 1..n : js[i].off = joined[i].off
    BY <1>1, <2>1, <2>4
  <2>6. Ordered(js)
    <3> SUFFICES ASSUME NEW i \in 1..n, NEW j \in 1..n, i < j PROVE End(js[i]) <= js[j].off
      BY <2>4 DEF Ordered
    <3>1. i \in 1..(n - 1) /\ js[i] = joined[i]
      BY <1>1, <2>4
    <3> QED
      BY <1>1, <2>5, <3>1 DEF Ordered
  <2>7. Contiguous(js)
    <3> SUFFICES ASSUME NEW i \in 1..n, i > 1 PROVE js[i].off = End(js[i - 1])
      BY <2>4 DEF Contiguous
    <3>1. i - 1 \in 1..(n - 1) /\ js[i - 1] = joined[i - 1]
      BY <1>1, <2>4
    <3> QED
      BY <1>1, <2>5, <3>1 DEF Contiguous
  <2>8. ASSUME NEW p \in Pages, Covers(e, p) PROVE Has(e, p)
    <3> USE MappingsAssumption
    <3>1. p \in Nat
      BY DEF Pages
    <3>2. CASE Covers(current, p)
      BY <1>1, <2>1, <3>2 DEF Right, Has
    <3>3. CASE ~Covers(current, p)
      <4>1. Covers(m, p)
        BY <1>1, <2>1, <2>2, <2>8, <3>1, <3>3, EntryFields, SMTT(30) DEF Covers
      <4>2. m.build # Nil => m.storage + (p - m.off) + 1 = e.storage + (p - e.off) + 1
        <5>1. /\ m.off = current.off + current.len /\ m.off \in Nat
              /\ current.off \in Nat /\ current.len \in Nat /\ current.storage \in Nat
          BY <1>1, <2>2, EntryFields
        <5>2. m.build # Nil => m.storage = current.storage + current.len
          BY <1>3
        <5> HIDE DEF current
        <5> QED
          BY <2>1, <3>1, <5>1, <5>2
      <4> QED
        BY <1>3, <2>1, <4>1, <4>2 DEF Has
    <3> QED
      BY <3>2, <3>3
  <2>9. Right(js)
    <3> SUFFICES ASSUME NEW i \in 1..n, NEW p \in Pages, Covers(js[i], p) PROVE Has(js[i], p)
      BY <2>4 DEF Right
    <3>1. CASE i = n
      BY <2>4, <2>8, <3>1
    <3>2. CASE i # n
      <4>1. i \in 1..(n - 1)
        BY <1>1, <3>2
      <4> QED
        BY <1>1, <2>4, <4>1 DEF Right
    <3> QED
      BY <3>1, <3>2
  <2> QED
    BY <1>1, <2>2, <2>4, <2>5, <2>6, <2>7, <2>9 DEF js
<1> QED
  BY <1>2, <1>3 DEF Join, Last, n

\* The recursive function of NormalizeMappings exists.
LEMMA JoinedExists ==
  ASSUME NEW ms \in Seq(Entry), ms # <<>>
  PROVE  \E f : /\ \A i \in DOMAIN ms :
                     f[i] = IF i = 1 THEN <<ms[1]>> ELSE Join(f[i - 1], ms[i])
                /\ NormalizeMappings(ms) = f[Len(ms)]
<1> DEFINE Body(f, i) == IF i = 1 THEN <<ms[1]>> ELSE Join(f[i - 1], ms[i])
           T == {n \in Nat : \E f : \A i \in 1..n : f[i] = Body(f, i)}
<1>1. 0 \in T
  OBVIOUS
<1>2. ASSUME NEW n \in T PROVE n + 1 \in T
  <2>1. PICK f : \A i \in 1..n : f[i] = Body(f, i)
    OBVIOUS
  <2> DEFINE g == [i \in 1..(n + 1) |-> Body(f, i)]
  <2>2. \A i \in 1..n : g[i] = f[i]
    BY <2>1
  <2>3. \A i \in 1..(n + 1) : g[i] = Body(f, i)
    OBVIOUS
  <2> HIDE DEF g
  <2>4. \A i \in 1..(n + 1) : i = 1 \/ i - 1 \in 1..n
    OBVIOUS
  <2>5. \A i \in 1..(n + 1) : Body(g, i) = Body(f, i)
    BY <2>2, <2>4
  <2> QED
    BY <2>3, <2>5
<1> HIDE DEF T
<1>3. T \in SUBSET Nat
  BY DEF T
<1>4. Len(ms) \in T
  BY <1>1, <1>2, <1>3, Induction
<1>5. PICK f : \A i \in 1..Len(ms) : f[i] = Body(f, i)
  BY <1>4 DEF T
<1> DEFINE g == [i \in DOMAIN ms |-> Body(f, i)]
<1>6. g = [i \in DOMAIN ms |-> Body(g, i)]
  <2>1. \A i \in DOMAIN ms : g[i] = f[i]
    BY <1>5
  <2> HIDE DEF g
  <2>2. \A i \in DOMAIN ms : i = 1 \/ i - 1 \in DOMAIN ms
    OBVIOUS
  <2>3. \A i \in DOMAIN ms : Body(g, i) = Body(f, i)
    BY <2>1, <2>2
  <2> QED
    BY <2>3 DEF g
<1> DEFINE Joined[i \in DOMAIN ms] == IF i = 1 THEN <<ms[1]>> ELSE Join(Joined[i - 1], ms[i])
<1> HIDE DEF g
<1>7. Joined = [i \in DOMAIN ms |-> Body(Joined, i)]
  BY <1>6, Zenon
<1>8. NormalizeMappings(ms) = Joined[Len(ms)]
  BY DEF NormalizeMappings
<1> HIDE DEF Joined
<1>9. \A i \in DOMAIN ms : Joined[i] = Body(Joined, i)
  BY <1>7
<1> QED
  BY <1>8, <1>9

\* The result of NormalizeMappings (mapping.go) tiles the device and is right, as its input.
THEOREM NormalizeKeeps ==
  ASSUME NEW ms \in Seq(Entry), Whole(ms), Right(ms)
  PROVE  /\ NormalizeMappings(ms) \in Seq(Entry)
         /\ Whole(NormalizeMappings(ms)) /\ Right(NormalizeMappings(ms))
<1>1. ms # <<>> /\ Len(ms) \in Nat \ {0} /\ DOMAIN ms = 1..Len(ms)
  BY DEF Whole
<1>2. PICK f : /\ \A i \in DOMAIN ms :
                    f[i] = IF i = 1 THEN <<ms[1]>> ELSE Join(f[i - 1], ms[i])
               /\ NormalizeMappings(ms) = f[Len(ms)]
  BY <1>1, JoinedExists
<1> DEFINE P(i) == /\ f[i] \in Seq(Entry) /\ f[i] # <<>> /\ f[i][1].off = ms[1].off
                   /\ Ordered(f[i]) /\ Contiguous(f[i]) /\ Right(f[i])
                   /\ End(f[i][Len(f[i])]) = End(ms[i])
           T == {n \in Nat : n + 1 \in DOMAIN ms => P(n + 1)}
<1>3. P(1)
  <2>1. f[1] = <<ms[1]>> /\ ms[1] \in Entry
    BY <1>1, <1>2
  <2>2. /\ f[1] \in Seq(Entry) /\ f[1] # <<>> /\ Len(f[1]) = 1 /\ DOMAIN f[1] = {1}
        /\ f[1][1] = ms[1]
    BY <2>1
  <2> QED
    BY <1>1, <2>2 DEF Ordered, Contiguous, Right
<1>4. ASSUME NEW i \in DOMAIN ms, i > 1, P(i - 1) PROVE P(i)
  <2>1. i - 1 \in DOMAIN ms /\ f[i] = Join(f[i - 1], ms[i]) /\ ms[i] \in Entry
    BY <1>1, <1>2, <1>4
  <2>2. ms[i].off = End(f[i - 1][Len(f[i - 1])])
    BY <1>4 DEF Whole, Contiguous
  <2>3. \A p \in Pages : Covers(ms[i], p) => Has(ms[i], p)
    BY DEF Right
  <2> QED
    BY <1>4, <2>1, <2>2, <2>3, JoinKeeps
<1> HIDE DEF P
<1>5. 0 \in T
  BY <1>3
<1>6. ASSUME NEW n \in T PROVE n + 1 \in T
  <2> SUFFICES ASSUME n + 2 \in DOMAIN ms PROVE P(n + 2)
    BY (n + 1) + 1 = n + 2
  <2>1. n + 1 \in DOMAIN ms /\ (n + 2) - 1 = n + 1 /\ n + 2 > 1
    BY <1>1
  <2> QED
    BY <1>4, <2>1
<1> HIDE DEF T
<1>7. T \in SUBSET Nat
  BY DEF T
<1>8. Len(ms) - 1 \in T
  BY <1>1, <1>5, <1>6, <1>7, Induction
<1>9. P(Len(ms))
  BY <1>1, <1>8 DEF T
<1> QED
  BY <1>2, <1>9 DEF P, Whole

-----------------------------------------------------------------------------
(* NewMapping.                                                             *)

\* An entry is the record of its fields.
LEMMA EntryRecord ==
  ASSUME NEW m \in Entry
  PROVE  m = [off |-> m.off, len |-> m.len, storage |-> m.storage, build |-> m.build]
  BY DEF Entry

\* The compact form (NewMapping, Slice) stands for the entries it was made of, and Validate
\* passes when they tile the device (compact.go).
THEOREM NewMappingKeeps ==
  ASSUME NEW ms \in Seq(Entry)
  PROVE  /\ NewMapping(ms).offsets \in Seq(Nat)
         /\ Slice(NewMapping(ms)) = ms
         /\ Whole(ms) => Validate(NewMapping(ms))
<1> DEFINE h == NewMapping(ms)
           new == {i \in DOMAIN ms : ms[i].build # Nil
                                     /\ \A j \in 1..(i - 1) : ms[j].build # ms[i].build}
           order == Ascending(new)
           builds == [k \in DOMAIN order |-> ms[order[k]].build]
           Idx(m) == IF m.build = Nil THEN 0
                     ELSE CHOOSE k \in DOMAIN builds : builds[k] = m.build
           n == Len(ms)
<1>1. n \in Nat /\ DOMAIN ms = 1..n /\ \A i \in 1..n : ms[i] \in Entry
  OBVIOUS
<1>2. IsFiniteSet(new) /\ new \in SUBSET Nat /\ new \in SUBSET (1..n)
  <2>1. new \in SUBSET (1..n) /\ new \in SUBSET Nat
    BY <1>1
  <2>2. IsFiniteSet(1..n)
    BY <1>1, FS_Interval
  <2> HIDE DEF new, n
  <2> QED
    BY <2>1, <2>2, FS_Subset
<1>3. /\ DOMAIN order = 1..Cardinality(new)
      /\ \A x \in new : Rank(new, x) \in 1..Cardinality(new) /\ order[Rank(new, x)] = x
  <2> HIDE DEF new
  <2>1. order \in Seq(new) /\ Len(order) = Cardinality(new)
    BY <1>2, AscendingRanks
  <2>2. \A x \in new : Rank(new, x) \in 1..Cardinality(new) /\ order[Rank(new, x)] = x
    BY <1>2, AscendingRanks, RankIncreases
  <2> QED
    BY <2>1, <2>2
<1>4. ASSUME NEW i \in 1..n, ms[i].build # Nil
      PROVE  \E k \in DOMAIN builds : builds[k] = ms[i].build
  <2> DEFINE T == {j \in 1..n : ms[j].build = ms[i].build}
  <2>1. T \in SUBSET Nat /\ i \in T
    OBVIOUS
  <2>2. PICK j \in T : \A k \in T : j <= k
    <3> HIDE DEF T
    <3> QED
      BY <2>1, LeastElement
  <2>3. j \in new /\ ms[j].build = ms[i].build
    <3>1. j \in 1..n /\ ms[j].build = ms[i].build
      BY <2>2
    <3>2. ASSUME NEW k \in 1..(j - 1), ms[k].build = ms[j].build PROVE FALSE
      <4>1. k \in T /\ k < j
        BY <1>1, <3>1, <3>2
      <4> QED
        BY <2>2, <3>1, <4>1
    <3> QED
      BY <1>1, <1>4, <3>1, <3>2
  <2> HIDE DEF T, new, order
  <2>4. Rank(new, j) \in DOMAIN order /\ order[Rank(new, j)] = j
    BY <1>3, <2>3
  <2> QED
    BY <2>3, <2>4
<1>5. /\ h.offsets = [i \in DOMAIN ms |-> ms[i].off]
      /\ h.lengths = [i \in DOMAIN ms |-> ms[i].len]
      /\ h.storage = [i \in DOMAIN ms |-> ms[i].storage]
      /\ h.buildIdx = [i \in DOMAIN ms |-> Idx(ms[i])]
      /\ h.builds = builds
  BY DEF NewMapping
<1> HIDE DEF h, new, order, n
<1>6. ASSUME NEW i \in 1..n
      PROVE  /\ ms[i].build = Nil => Idx(ms[i]) = 0
             /\ ms[i].build # Nil => Idx(ms[i]) \in DOMAIN builds /\ builds[Idx(ms[i])] = ms[i].build
  BY <1>4
<1>7. DOMAIN builds = 1..Cardinality(new)
  BY <1>3
<1> HIDE DEF builds, Idx
<1>8. ASSUME NEW i \in 1..n PROVE At(h, i) = ms[i]
  <2>1. /\ h.offsets[i] = ms[i].off /\ h.lengths[i] = ms[i].len
        /\ h.storage[i] = ms[i].storage /\ h.buildIdx[i] = Idx(ms[i])
    BY <1>1, <1>5
  <2>2. (IF h.buildIdx[i] = 0 THEN Nil ELSE h.builds[h.buildIdx[i]]) = ms[i].build
    <3>1. CASE ms[i].build = Nil
      BY <1>6, <2>1, <3>1
    <3>2. CASE ms[i].build # Nil
      <4>1. Idx(ms[i]) # 0
        BY <1>6, <1>7, <3>2
      <4> QED
        BY <1>5, <1>6, <2>1, <3>2, <4>1
    <3> QED
      BY <3>1, <3>2
  <2>3. ms[i] = [off |-> ms[i].off, len |-> ms[i].len, storage |-> ms[i].storage,
                 build |-> ms[i].build]
    BY <1>1, EntryRecord
  <2> QED
    BY <2>1, <2>2, <2>3 DEF At
<1>9. Slice(h) = ms
  <2>1. DOMAIN h.offsets = 1..n
    BY <1>1, <1>5
  <2>2. Slice(h) = [i \in 1..n |-> ms[i]]
    BY <1>8, <2>1 DEF Slice
  <2> QED
    BY <1>1, <2>2
<1>10. h.offsets \in Seq(Nat) /\ Len(h.offsets) = n
  <2>1. \A i \in 1..n : ms[i].off \in Nat
    BY <1>1, EntryFields
  <2>2. h.offsets = [i \in 1..n |-> ms[i].off]
    BY <1>1, <1>5
  <2> QED
    BY <1>1, <2>1, <2>2
<1>11. ASSUME Whole(ms) PROVE Validate(h)
  <2>1. n # 0 /\ ms[1].off = 0 /\ End(ms[n]) = Size
    BY <1>1, <1>11 DEF Whole, n
  <2>2. \A i \in 1..n : h.offsets[i] = ms[i].off /\ h.lengths[i] = ms[i].len
    BY <1>1, <1>5
  <2>3. ASSUME NEW i \in 1..(n - 1) PROVE ms[i + 1].off = ms[i].off + ms[i].len
    <3>1. i + 1 \in DOMAIN ms /\ i + 1 > 1 /\ (i + 1) - 1 = i
      BY <1>1
    <3> QED
      BY <1>11, <3>1 DEF Whole, Contiguous, End
  <2>4. \A i \in 1..(n - 1) : h.offsets[i + 1] = h.offsets[i] + h.lengths[i]
    BY <1>1, <2>2, <2>3
  <2> QED
    BY <1>1, <1>10, <2>1, <2>2, <2>4 DEF Validate, End
<1> QED
  BY <1>9, <1>10, <1>11 DEF h

-----------------------------------------------------------------------------
(* SearchOffset.                                                           *)

\* An iteration of the binary search, by a function that does the others.
SearchStep(h, p, f, range) ==
    LET lo == range[1] hi == range[2] mid == (lo + hi) \div 2 IN
    IF lo >= hi THEN lo
    ELSE IF h.offsets[mid + 1] > p THEN f[<<lo, mid>>] ELSE f[<<mid + 1, hi>>]

\* The ranges of places in a sequence of n.
Ranges(n) == (0..n) \X (0..n)

\* Both halves of a range that is not empty are shorter.
LEMMA SearchHalves ==
  ASSUME NEW h, NEW p, NEW n \in Nat, NEW x \in Ranges(n), NEW f, NEW g,
         \A y \in Ranges(n) : y[2] - y[1] < x[2] - x[1] => g[y] = f[y]
  PROVE  SearchStep(h, p, g, x) = SearchStep(h, p, f, x)
<1> DEFINE lo == x[1]
           hi == x[2]
           mid == (lo + hi) \div 2
<1>1. lo \in 0..n /\ hi \in 0..n
  BY DEF Ranges
<1>2. CASE lo >= hi
  BY <1>2 DEF SearchStep
<1>3. CASE lo < hi
  <2>1. mid \in 0..n /\ mid + 1 \in 0..n /\ mid - lo < hi - lo /\ hi - (mid + 1) < hi - lo
    BY <1>1, <1>3
  <2> HIDE DEF mid
  <2>2. /\ <<lo, mid>> \in Ranges(n) /\ <<lo, mid>>[1] = lo /\ <<lo, mid>>[2] = mid
        /\ <<mid + 1, hi>> \in Ranges(n)
        /\ <<mid + 1, hi>>[1] = mid + 1 /\ <<mid + 1, hi>>[2] = hi
    BY <1>1, <2>1 DEF Ranges
  <2>3. g[<<lo, mid>>] = f[<<lo, mid>>] /\ g[<<mid + 1, hi>>] = f[<<mid + 1, hi>>]
    BY <2>1, <2>2
  <2> QED
    BY <2>3 DEF SearchStep, mid
<1> QED
  BY <1>1, <1>2, <1>3

\* The recursive function of SearchOffset exists.
LEMMA SearchExists ==
  ASSUME NEW h, h.offsets \in Seq(Nat), NEW p \in Nat
  PROVE  LET n == Len(h.offsets) IN
         \E f : /\ \A x \in Ranges(n) : f[x] = SearchStep(h, p, f, x)
                /\ SearchOffset(h, p) = f[<<0, n>>]
<1> DEFINE n == Len(h.offsets)
           R == Ranges(n)
           Body(f, x) == SearchStep(h, p, f, x)
           T == {w \in Nat : \E f : \A x \in R : x[2] - x[1] < w => f[x] = Body(f, x)}
<1>1. n \in Nat
  OBVIOUS
<1>2. ASSUME NEW x \in R PROVE x[1] \in 0..n /\ x[2] \in 0..n
  BY DEF Ranges
<1> HIDE DEF n, R
<1>3. 0 \in T
  <2> DEFINE f == [x \in R |-> x[1]]
  <2>1. \A x \in R : x[2] - x[1] < 0 => f[x] = Body(f, x)
    BY <1>1, <1>2 DEF SearchStep
  <2> HIDE DEF f
  <2> QED
    BY <2>1
<1>4. ASSUME NEW w \in T PROVE w + 1 \in T
  <2>1. PICK f : \A x \in R : x[2] - x[1] < w => f[x] = Body(f, x)
    OBVIOUS
  <2> DEFINE g == [x \in R |-> Body(f, x)]
  <2>2. \A x \in R : g[x] = Body(f, x)
    OBVIOUS
  <2> HIDE DEF g
  <2>3. ASSUME NEW x \in R, x[2] - x[1] < w + 1
        PROVE  Body(g, x) = Body(f, x)
    <3>1. \A y \in R : y[2] - y[1] < x[2] - x[1] => y[2] - y[1] < w
      BY <1>1, <1>2, <2>3
    <3>2. \A y \in R : y[2] - y[1] < x[2] - x[1] => g[y] = f[y]
      BY <2>1, <2>2, <3>1
    <3> QED
      BY <1>1, <3>2, SearchHalves DEF R
  <2> QED
    BY <2>2, <2>3
<1> HIDE DEF T
<1>5. T \in SUBSET Nat
  BY DEF T
<1>6. n + 1 \in T
  BY <1>1, <1>3, <1>4, <1>5, Induction
<1>7. PICK f : \A x \in R : x[2] - x[1] < n + 1 => f[x] = Body(f, x)
  BY <1>6 DEF T
<1>8. \A x \in R : f[x] = Body(f, x)
  BY <1>1, <1>2, <1>7
<1> DEFINE g == [x \in R |-> Body(f, x)]
<1>9. g = [x \in R |-> Body(g, x)]
  <2>1. \A x \in R : g[x] = f[x]
    BY <1>8
  <2> HIDE DEF g
  <2>2. \A x \in R : Body(g, x) = Body(f, x)
    BY <1>1, <2>1, SearchHalves DEF R
  <2> QED
    BY <2>2 DEF g
<1> DEFINE Search[range \in (0..n) \X (0..n)] ==
             LET lo == range[1] hi == range[2] mid == (lo + hi) \div 2 IN
             IF lo >= hi THEN lo
             ELSE IF h.offsets[mid + 1] > p THEN Search[<<lo, mid>>] ELSE Search[<<mid + 1, hi>>]
<1> HIDE DEF g
<1>10. Search = [x \in R |-> Body(Search, x)]
  BY <1>9, Zenon DEF R, Ranges, SearchStep
<1>11. SearchOffset(h, p) = Search[<<0, n>>]
  BY DEF SearchOffset, n
<1> HIDE DEF Search
<1>12. \A x \in R : Search[x] = Body(Search, x)
  BY <1>10
<1> QED
  BY <1>11, <1>12 DEF n, R

\* The binary search of SearchOffset (compact.go) counts the offsets up to a page.
THEOREM SearchFinds ==
  ASSUME NEW h, h.offsets \in Seq(Nat), NEW p \in Nat,
         \A i, j \in DOMAIN h.offsets : i <= j => h.offsets[i] <= h.offsets[j]
  PROVE  LET n == Len(h.offsets) k == SearchOffset(h, p) IN
         /\ k \in 0..n
         /\ \A i \in 1..k : h.offsets[i] <= p
         /\ \A i \in (k + 1)..n : h.offsets[i] > p
<1> DEFINE n == Len(h.offsets)
           R == Ranges(n)
           Found(k) == /\ k \in 0..n
                       /\ \A i \in 1..k : h.offsets[i] <= p
                       /\ \A i \in (k + 1)..n : h.offsets[i] > p
           Around(x) == /\ x[1] <= x[2]
                        /\ \A i \in 1..x[1] : h.offsets[i] <= p
                        /\ \A i \in (x[2] + 1)..n : h.offsets[i] > p
<1>1. /\ n \in Nat /\ DOMAIN h.offsets = 1..n /\ \A i \in 1..n : h.offsets[i] \in Nat
      /\ \A i, j \in 1..n : i <= j => h.offsets[i] <= h.offsets[j]
  OBVIOUS
<1>2. PICK f : /\ \A x \in R : f[x] = SearchStep(h, p, f, x)
               /\ SearchOffset(h, p) = f[<<0, n>>]
  BY SearchExists
<1> DEFINE T == {w \in Nat : \A x \in R : x[2] - x[1] <= w /\ Around(x) => Found(f[x])}
<1>3. ASSUME NEW x \in R PROVE x[1] \in 0..n /\ x[2] \in 0..n
  BY DEF Ranges
<1> HIDE DEF n, R
<1>4. ASSUME NEW x \in R, Around(x), x[2] - x[1] <= 0 PROVE Found(f[x])
  <2>1. x[1] = x[2] /\ x[1] >= x[2]
    BY <1>1, <1>3, <1>4
  <2>2. f[x] = x[1]
    BY <1>2, <1>3, <2>1 DEF SearchStep
  <2> QED
    BY <1>3, <1>4, <2>1, <2>2
<1>5. ASSUME NEW w \in Nat, NEW x \in R, Around(x), x[2] - x[1] <= w + 1,
             \A y \in R : y[2] - y[1] <= w /\ Around(y) => Found(f[y])
      PROVE  Found(f[x])
  <2> DEFINE lo == x[1]
             hi == x[2]
             mid == (lo + hi) \div 2
  <2>1. lo \in 0..n /\ hi \in 0..n
    BY <1>3
  <2>2. CASE lo >= hi
    BY <1>4, <1>5, <2>1, <2>2
  <2>3. CASE lo < hi
    <3>0. hi - lo <= w + 1 /\ n \in Nat
      BY <1>1, <1>5
    <3>1. /\ mid \in 0..n /\ mid + 1 \in 1..n /\ mid - lo <= w /\ hi - (mid + 1) <= w
          /\ lo <= mid /\ mid + 1 <= hi
      <4> HIDE DEF lo, hi
      <4> QED
        BY <2>1, <2>3, <3>0
    <3>2. f[x] = IF h.offsets[mid + 1] > p THEN f[<<lo, mid>>] ELSE f[<<mid + 1, hi>>]
      BY <1>2, <2>1, <2>3 DEF SearchStep
    <3> HIDE DEF mid
    <3>3. /\ <<lo, mid>> \in R /\ <<lo, mid>>[1] = lo /\ <<lo, mid>>[2] = mid
          /\ <<mid + 1, hi>> \in R
          /\ <<mid + 1, hi>>[1] = mid + 1 /\ <<mid + 1, hi>>[2] = hi
      BY <1>1, <2>1, <3>1, SMTT(30) DEF R, Ranges
    <3>4. CASE h.offsets[mid + 1] > p
      <4>1. \A i \in (mid + 1)..n : h.offsets[i] > p
        BY <1>1, <3>1, <3>4
      <4>2. Around(<<lo, mid>>)
        BY <1>5, <3>1, <3>3, <4>1
      <4>3. Found(f[<<lo, mid>>])
        BY <1>5, <3>1, <3>3, <4>2
      <4> QED
        BY <3>2, <3>4, <4>3
    <3>5. CASE ~(h.offsets[mid + 1] > p)
      <4>1. \A i \in 1..(mid + 1) : h.offsets[i] <= p
        BY <1>1, <3>1, <3>5
      <4>2. Around(<<mid + 1, hi>>)
        BY <1>5, <3>1, <3>3, <4>1
      <4>3. Found(f[<<mid + 1, hi>>])
        BY <1>5, <3>1, <3>3, <4>2
      <4> QED
        BY <3>2, <3>5, <4>3
    <3> QED
      BY <3>4, <3>5
  <2> QED
    BY <2>1, <2>2, <2>3
<1> HIDE DEF Around, Found
<1>6. 0 \in T
  BY <1>4
<1>7. ASSUME NEW w \in T PROVE w + 1 \in T
  BY <1>5
<1> HIDE DEF T
<1>8. T \in SUBSET Nat
  BY DEF T
<1>9. n \in T
  BY <1>1, <1>6, <1>7, <1>8, Induction
<1>10. <<0, n>> \in R /\ <<0, n>>[1] = 0 /\ <<0, n>>[2] = n
  BY <1>1 DEF R, Ranges
<1>11. Around(<<0, n>>)
  BY <1>1, <1>10 DEF Around
<1>12. Found(f[<<0, n>>])
  BY <1>1, <1>9, <1>10, <1>11 DEF T
<1> QED
  BY <1>2, <1>12 DEF Found, n

\* The entries that a compact mapping stands for, and the order of its offsets.
LEMMA OffsetsInOrder ==
  ASSUME NEW h, h.offsets \in Seq(Nat), Slice(h) \in Seq(Entry), Whole(Slice(h))
  PROVE  LET ms == Slice(h) n == Len(h.offsets) IN
         /\ n \in Nat /\ DOMAIN h.offsets = 1..n /\ DOMAIN ms = 1..n /\ Len(ms) = n
         /\ \A i \in 1..n : /\ ms[i] \in Entry /\ ms[i] = At(h, i)
                            /\ ms[i].off = h.offsets[i] /\ End(ms[i]) <= Size
         /\ \A i, j \in 1..n : i <= j => h.offsets[i] <= h.offsets[j]
<1> DEFINE ms == Slice(h)
           n == Len(h.offsets)
<1>1. n \in Nat /\ DOMAIN h.offsets = 1..n /\ DOMAIN ms = 1..n /\ Len(ms) = n
  BY DEF Slice
<1>2. ASSUME NEW i \in 1..n
      PROVE  ms[i] \in Entry /\ ms[i] = At(h, i) /\ ms[i].off = h.offsets[i] /\ End(ms[i]) <= Size
  <2>1. ms[i] \in Entry
    BY <1>1
  <2>2. ms[i] = At(h, i)
    BY <1>1 DEF Slice
  <2>3. At(h, i).off = h.offsets[i]
    BY DEF At
  <2>4. End(ms[i]) <= Size
    BY <1>1, EndsInOrder DEF Whole
  <2> QED
    BY <2>1, <2>2, <2>3, <2>4
<1>3. Ordered(ms)
  BY DEF Whole
<1> HIDE DEF ms
<1>4. ASSUME NEW i \in 1..n, NEW j \in 1..n, i <= j PROVE h.offsets[i] <= h.offsets[j]
  <2>1. CASE i = j
    BY <1>2, <2>1, EntryFields
  <2>2. CASE i < j
    <3>1. End(ms[i]) <= ms[j].off
      BY <1>1, <1>3, <2>2 DEF Ordered
    <3>2. /\ ms[i].off = h.offsets[i] /\ ms[j].off = h.offsets[j]
          /\ ms[i] \in Entry /\ ms[j] \in Entry
      BY <1>2
    <3> QED
      BY <3>1, <3>2, EntryFields
  <2> QED
    BY <1>1, <1>4, <2>1, <2>2
<1> QED
  BY <1>1, <1>2, <1>4 DEF ms

\* GetShiftedMapping (header.go) finds the entry that covers a page, shifted to the page.
THEOREM LookupFinds ==
  ASSUME NEW h, h.offsets \in Seq(Nat), Slice(h) \in Seq(Entry), Whole(Slice(h)),
         NEW p \in Pages
  PROVE  \E i \in DOMAIN Slice(h) : LET m == Slice(h)[i] IN
           /\ Covers(m, p)
           /\ GetShiftedMapping(h, p) =
                [off |-> m.storage + (p - m.off), len |-> m.len - (p - m.off), build |-> m.build]
<1> USE MappingsAssumption
<1> DEFINE ms == Slice(h)
           n == Len(h.offsets)
           k == SearchOffset(h, p)
<1>1. n \in Nat /\ DOMAIN h.offsets = 1..n /\ DOMAIN ms = 1..n /\ Len(ms) = n
  BY OffsetsInOrder
<1>2. \A i \in 1..n : ms[i] \in Entry /\ ms[i] = At(h, i) /\ ms[i].off = h.offsets[i]
  BY OffsetsInOrder
<1>3. n # 0 /\ ms[1].off = 0 /\ End(ms[n]) = Size
  BY <1>1 DEF Whole
<1>4. Contiguous(ms) /\ p \in Nat /\ p < Size
  BY DEF Whole, Pages
<1> HIDE DEF ms
<1>5. \A i, j \in 1..n : i <= j => h.offsets[i] <= h.offsets[j]
  BY OffsetsInOrder
<1>6. /\ k \in 0..n
      /\ \A i \in 1..k : h.offsets[i] <= p
      /\ \A i \in (k + 1)..n : h.offsets[i] > p
  BY <1>1, <1>4, <1>5, SearchFinds
<1> HIDE DEF n, k
<1>7. k \in 1..n
  <2>1. 1 \in 1..n /\ ~(h.offsets[1] > p)
    BY <1>1, <1>2, <1>3, <1>4
  <2> QED
    BY <1>1, <1>6, <2>1
<1>8. ms[k].off <= p /\ p < End(ms[k])
  <2>1. ms[k].off <= p
    BY <1>2, <1>6, <1>7
  <2>2. CASE k = n
    BY <1>3, <1>4, <2>1, <2>2
  <2>3. CASE k # n
    <3>1. k + 1 \in 1..n /\ k + 1 > 1 /\ (k + 1) - 1 = k /\ h.offsets[k + 1] > p
      BY <1>1, <1>6, <1>7, <2>3
    <3>2. ms[k + 1].off = End(ms[k])
      BY <1>1, <1>4, <3>1 DEF Contiguous
    <3> QED
      BY <1>2, <1>4, <1>7, <2>1, <3>1, <3>2, EntryFields
  <2> QED
    BY <2>2, <2>3
<1>9. Covers(ms[k], p) /\ k # 0 /\ ~(p >= End(At(h, k)))
  BY <1>1, <1>2, <1>4, <1>7, <1>8, EntryFields DEF Covers
<1>10. GetShiftedMapping(h, p) = [off |-> ms[k].storage + (p - ms[k].off),
                                  len |-> ms[k].len - (p - ms[k].off), build |-> ms[k].build]
  BY <1>2, <1>7, <1>9 DEF GetShiftedMapping, k
<1> QED
  BY <1>1, <1>7, <1>9, <1>10 DEF ms

-----------------------------------------------------------------------------
(* ReadAt.                                                                 *)

\* A segment of a read and what follows it.
ReadSegment(source, length, rest) ==
    CASE length = 0 -> <<>>
      [] length > 0 /\ source.build = Nil -> [k \in 1..length |-> Zero] \o rest
      [] OTHER ->
           IF source.off + length > Len(file[source.build]) THEN <<>>
           ELSE SubSeq(file[source.build], source.off + 1, source.off + length) \o rest

\* The read from page o on, by a function that reads from later ones on.
ReadStep(h, p, n, Rest, o) ==
    LET source == GetShiftedMapping(h, o)
        left == p + n - o
        length == IF source.len < left THEN source.len ELSE left
    IN  ReadSegment(source, length, Rest[o + length])

\* The device's pages from o on, before e.
Device(o, e) == [k \in 1..(e - o) |-> memory[o + k - 1]]

\* The first pages and the others are all.
LEMMA DeviceSplits ==
  ASSUME NEW o \in Nat, NEW e \in Nat, NEW n \in Nat, o + n <= e, NEW s \in Seq(Content),
         Len(s) = n, \A k \in 1..n : s[k] = memory[o + k - 1],
         memory \in [Pages -> Content], e <= Size
  PROVE  s \o Device(o + n, e) = Device(o, e)
<1> DEFINE t == Device(o + n, e)
<1> USE MappingsAssumption
<1>1. \A i \in 0..(e - 1) : memory[i] \in Content
  BY DEF Pages
<1>2. /\ t \in Seq(Content) /\ Len(t) = e - (o + n)
      /\ \A k \in 1..(e - (o + n)) : t[k] = memory[(o + n) + k - 1]
  <2>1. \A k \in 1..(e - (o + n)) : memory[(o + n) + k - 1] \in Content
    BY <1>1
  <2> QED
    BY <2>1 DEF Device
<1>3. /\ Device(o, e) \in Seq(Content) /\ Len(Device(o, e)) = e - o
      /\ \A k \in 1..(e - o) : Device(o, e)[k] = memory[o + k - 1]
  <2>1. \A k \in 1..(e - o) : memory[o + k - 1] \in Content
    BY <1>1
  <2> QED
    BY <2>1 DEF Device
<1> HIDE DEF t
<1>4. /\ s \o t \in Seq(Content) /\ Len(s \o t) = e - o
      /\ \A k \in 1..(e - o) : (s \o t)[k] = IF k <= n THEN s[k] ELSE t[k - n]
  <2>1. Len(s) + Len(t) = e - o
    BY <1>2
  <2> QED
    BY <1>2, <2>1, ConcatProperties
<1>5. \A k \in 1..(e - o) : (s \o t)[k] = memory[o + k - 1]
  <2> SUFFICES ASSUME NEW k \in 1..(e - o) PROVE (s \o t)[k] = memory[o + k - 1]
    OBVIOUS
  <2>1. CASE k <= n
    BY <1>4, <2>1
  <2>2. CASE ~(k <= n)
    <3>1. k - n \in 1..(e - (o + n)) /\ (o + n) + (k - n) - 1 = o + k - 1
      BY <2>2
    <3>2. t[k - n] = memory[o + k - 1]
      BY <1>2, <3>1
    <3> QED
      BY <1>4, <2>2, <3>2
  <2> QED
    BY <2>1, <2>2
<1>6. /\ Len(s \o t) = Len(Device(o, e))
      /\ \A k \in 1..Len(s \o t) : (s \o t)[k] = Device(o, e)[k]
  BY <1>3, <1>4, <1>5
<1>7. s \o t = Device(o, e)
  BY <1>3, <1>4, <1>6, SeqEqual
<1> QED
  BY <1>7 DEF t

\* At the end of the device there is nothing to read.
LEMMA LookupAtEnd ==
  ASSUME NEW h, h.offsets \in Seq(Nat), Slice(h) \in Seq(Entry), Whole(Slice(h))
  PROVE  GetShiftedMapping(h, Size) = NoSource
<1> USE MappingsAssumption
<1> DEFINE ms == Slice(h)
           n == Len(h.offsets)
           k == SearchOffset(h, Size)
<1>1. n \in Nat /\ DOMAIN h.offsets = 1..n
  BY OffsetsInOrder
<1>2. \A i \in 1..n : ms[i] \in Entry /\ ms[i] = At(h, i) /\ End(ms[i]) <= Size
  BY OffsetsInOrder
<1>3. \A i, j \in 1..n : i <= j => h.offsets[i] <= h.offsets[j]
  BY OffsetsInOrder
<1> HIDE DEF ms
<1>4. k \in 0..n
  BY <1>1, <1>3, SearchFinds
<1> HIDE DEF n, k
<1>5. k = 0 \/ Size >= End(At(h, k))
  <2>1. CASE k \in 1..n
    <3>1. ms[k] \in Entry /\ ms[k] = At(h, k) /\ End(ms[k]) <= Size
      BY <1>2, <2>1
    <3> QED
      BY <3>1, EntryFields
  <2> QED
    BY <1>1, <1>4, <2>1
<1> QED
  BY <1>5 DEF GetShiftedMapping, k

\* A part of a sequence.
LEMMA SubSeqOf ==
  ASSUME NEW s \in Seq(Content), NEW a \in Nat, NEW n \in Nat, a + n <= Len(s)
  PROVE  LET t == SubSeq(s, a + 1, a + n) IN
         /\ t \in Seq(Content) /\ Len(t) = n
         /\ \A k \in 1..n : t[k] = s[a + k]
<1> DEFINE t == SubSeq(s, a + 1, a + n)
<1>1. \A i \in (a + 1)..(a + n) : s[i] \in Content
  OBVIOUS
<1>2. /\ t \in Seq(Content)
      /\ Len(t) = IF a + 1 <= a + n THEN (a + n) - (a + 1) + 1 ELSE 0
      /\ \A k \in 1..((a + n) - (a + 1) + 1) : t[k] = s[(a + 1) + k - 1]
  BY <1>1, SubSeqProperties
<1> HIDE DEF t
<1>3. Len(t) = n /\ (a + n) - (a + 1) + 1 = n /\ \A k \in 1..n : (a + 1) + k - 1 = a + k
  BY <1>2
<1> QED
  BY <1>2, <1>3 DEF t

\* A segment that the rest of the read follows.
LEMMA ReadStepRight ==
  ASSUME NEW h, h.offsets \in Seq(Nat), Slice(h) \in Seq(Entry), Whole(Slice(h)),
         Right(Slice(h)), memory \in [Pages -> Content], file \in Seq(Seq(Content)),
         NEW p \in Pages, NEW n \in 1..(Size - p), NEW o \in p..(p + n), NEW Rest,
         \A q \in p..(p + n) : q > o => Rest[q] = Device(q, p + n)
  PROVE  ReadStep(h, p, n, Rest, o) = Device(o, p + n)
<1> DEFINE source == GetShiftedMapping(h, o)
           left == p + n - o
           length == IF source.len < left THEN source.len ELSE left
           e == p + n
<1>1. /\ p \in Nat /\ n \in Nat /\ o \in Nat /\ e \in Nat /\ o <= e /\ e <= Size /\ left = e - o
      /\ Size \in Nat
  BY MappingsAssumption DEF Pages
<1>0. ReadStep(h, p, n, Rest, o) = ReadSegment(source, length, Rest[o + length])
  BY DEF ReadStep
<1>2. CASE o = e
  <2>1. source.len \in Nat
    <3>1. CASE o = Size
      BY <3>1, LookupAtEnd DEF NoSource
    <3>2. CASE o # Size
      <4>1. o \in Pages
        BY <1>1, <3>2 DEF Pages
      <4>2. PICK i \in DOMAIN Slice(h) : LET m == Slice(h)[i] IN
              /\ Covers(m, o)
              /\ source = [off |-> m.storage + (o - m.off), len |-> m.len - (o - m.off),
                           build |-> m.build]
        BY <4>1, LookupFinds
      <4>3. Slice(h)[i] \in Entry
        OBVIOUS
      <4> QED
        BY <1>1, <4>2, <4>3, EntryFields, SMTT(30) DEF Covers
    <3> QED
      BY <3>1, <3>2
  <2>2. left = 0
    BY <1>1, <1>2
  <2> HIDE DEF source, left
  <2>3. length = 0
    BY <2>1, <2>2
  <2> HIDE DEF length
  <2>4. ReadStep(h, p, n, Rest, o) = <<>>
    BY <1>0, <2>3 DEF ReadSegment
  <2>5. Device(o, e) = <<>>
    BY <1>1, <1>2 DEF Device
  <2> QED
    BY <2>4, <2>5
<1>3. CASE o < e
  <2>1. o \in Pages
    BY <1>1, <1>3 DEF Pages
  <2>2. PICK i \in DOMAIN Slice(h) : LET m == Slice(h)[i] IN
          /\ Covers(m, o)
          /\ source = [off |-> m.storage + (o - m.off), len |-> m.len - (o - m.off),
                       build |-> m.build]
    BY <2>1, LookupFinds
  <2> DEFINE m == Slice(h)[i]
             b == m.build
  <2>3. m \in Entry /\ \A q \in Pages : Covers(m, q) => Has(m, q)
    BY DEF Right
  <2>4. /\ Covers(m, o) /\ source.build = b
        /\ source.off = m.storage + (o - m.off) /\ source.len = m.len - (o - m.off)
    BY <2>2
  <2> HIDE DEF source, left, m
  <2>5. /\ m.off \in Nat /\ m.len \in Nat /\ m.storage \in Nat /\ End(m) = m.off + m.len
        /\ m.off <= o /\ o < m.off + m.len
    BY <2>3, <2>4, EntryFields DEF Covers
  <2>6. /\ length \in Nat \ {0} /\ length <= source.len /\ length <= left
        /\ source.off \in Nat
    <3>1. left \in Nat \ {0}
      BY <1>1, <1>3
    <3>2. source.len \in Nat \ {0} /\ source.off \in Nat
      BY <1>1, <2>4, <2>5, SMTT(30)
    <3> QED
      BY <3>1, <3>2
  <2> HIDE DEF length, e
  <2>7. ASSUME NEW k \in 1..length
        PROVE  o + k - 1 \in Pages /\ Has(m, o + k - 1)
    <3>1. o + k - 1 \in Pages
      BY <1>1, <2>6 DEF Pages
    <3>2. Covers(m, o + k - 1)
      BY <1>1, <2>4, <2>5, <2>6, SMTT(30) DEF Covers
    <3> QED
      BY <2>3, <3>1, <3>2
  <2>8. o + length \in p..e /\ o + length > o /\ o + length <= e
    BY <1>1, <2>6
  <2>9. Rest[o + length] = Device(o + length, e)
    BY <2>8 DEF e
  <2>10. CASE b = Nil
    <3> DEFINE s == [k \in 1..length |-> Zero]
    <3>1. s \in Seq(Content) /\ Len(s) = length
      BY <2>6 DEF Content
    <3>2. \A k \in 1..length : s[k] = memory[o + k - 1]
      BY <2>7, <2>10 DEF Has
    <3>3. ReadStep(h, p, n, Rest, o) = s \o Rest[o + length]
      <4>1. length # 0 /\ length > 0 /\ source.build = Nil
        BY <2>4, <2>6, <2>10
      <4>2. ReadSegment(source, length, Rest[o + length]) = s \o Rest[o + length]
        BY <4>1, Zenon DEF ReadSegment
      <4> QED
        BY <1>0, <4>2
    <3> HIDE DEF s
    <3>4. s \o Device(o + length, e) = Device(o, e)
      BY <1>1, <2>6, <2>8, <3>1, <3>2, DeviceSplits, ZenonT(30)
    <3> QED
      BY <2>9, <3>3, <3>4 DEF e
  <2>11. CASE b # Nil
    <3> DEFINE s == SubSeq(file[b], source.off + 1, source.off + length)
    <3>1. ASSUME NEW k \in 1..length
          PROVE  /\ source.off + k \in DOMAIN file[b]
                 /\ file[b][source.off + k] = memory[o + k - 1]
                 /\ b \in DOMAIN file
      <4>1. m.storage + ((o + k - 1) - m.off) + 1 = source.off + k
        <5>1. /\ source.off = m.storage + (o - m.off) /\ k \in Nat /\ o \in Nat
              /\ m.storage \in Nat /\ m.off \in Nat
          BY <1>1, <2>4, <2>5, <2>6
        <5> QED
          BY <5>1
      <4> QED
        BY <2>7, <2>11, <4>1 DEF Has
    <3>2. 1 \in 1..length /\ length \in 1..length
      BY <2>6
    <3>3. file[b] \in Seq(Content)
      BY <3>1, <3>2
    <3>4. source.off + length <= Len(file[b]) /\ Len(file[b]) \in Nat
      BY <3>1, <3>2, <3>3
    <3>5. ReadStep(h, p, n, Rest, o) = s \o Rest[o + length]
      <4>1. length # 0 /\ ~(source.build = Nil) /\ ~(source.off + length > Len(file[source.build]))
        BY <2>4, <2>6, <2>11, <3>4
      <4> QED
        BY <1>0, <2>4, <4>1 DEF ReadSegment
    <3>6. /\ s \in Seq(Content) /\ Len(s) = length
          /\ \A k \in 1..length : s[k] = file[b][source.off + k]
      BY <2>6, <3>3, <3>4, SubSeqOf
    <3>7. \A k \in 1..length : s[k] = memory[o + k - 1]
      BY <3>1, <3>6
    <3> HIDE DEF s
    <3>8. s \o Device(o + length, e) = Device(o, e)
      BY <1>1, <2>6, <2>8, <3>6, <3>7, DeviceSplits
    <3> QED
      BY <2>9, <3>5, <3>8 DEF e
  <2> QED
    BY <2>10, <2>11
<1> QED
  BY <1>1, <1>2, <1>3

\* A read (File.ReadAt, planRead) through a compact mapping that tiles the device and is
\* right returns what the device holds, whatever its length and the entries it crosses.
THEOREM ReadsTheDevice ==
  ASSUME NEW h, h.offsets \in Seq(Nat), Slice(h) \in Seq(Entry), Whole(Slice(h)),
         Right(Slice(h)), memory \in [Pages -> Content], file \in Seq(Seq(Content)),
         NEW p \in Pages, NEW n \in 1..(Size - p)
  PROVE  ReadAt(h, p, n) = Device(p, p + n)
<1> DEFINE D == p..(p + n)
           Body(Rest, o) == ReadStep(h, p, n, Rest, o)
           g == [o \in D |-> Device(o, p + n)]
<1>1. /\ p \in Nat /\ n \in Nat
  BY MappingsAssumption DEF Pages
<1>2. g = [o \in D |-> Body(g, o)]
  <2>1. \A o \in D : g[o] = Device(o, p + n)
    OBVIOUS
  <2> HIDE DEF g
  <2>2. \A o \in D : Body(g, o) = Device(o, p + n)
    BY <2>1, ReadStepRight
  <2> HIDE DEF D, Body
  <2> QED
    BY <2>2 DEF g
<1> DEFINE Rest[o \in D] ==
             LET source == GetShiftedMapping(h, o)
                 left == p + n - o
                 length == IF source.len < left THEN source.len ELSE left
             IN  CASE length = 0 -> <<>>
                   [] length > 0 /\ source.build = Nil ->
                        [k \in 1..length |-> Zero] \o Rest[o + length]
                   [] OTHER ->
                        IF source.off + length > Len(file[source.build]) THEN <<>>
                        ELSE SubSeq(file[source.build], source.off + 1, source.off + length)
                               \o Rest[o + length]
<1> HIDE DEF g
<1>3. Rest = [o \in D |-> Body(Rest, o)]
  BY <1>2, Zenon DEF ReadStep, ReadSegment
<1>4. ReadAt(h, p, n) = Rest[p]
  BY DEF ReadAt
<1> HIDE DEF Rest
<1>5. \A o \in D : Rest[o] = Body(Rest, o)
  <2> HIDE DEF D, Body
  <2> QED
    BY <1>3
<1> DEFINE T == {w \in Nat : \A o \in D : p + n - o <= w => Rest[o] = Device(o, p + n)}
<1>6. 0 \in T
  <2> SUFFICES ASSUME NEW o \in D, p + n - o <= 0 PROVE Rest[o] = Device(o, p + n)
    OBVIOUS
  <2>1. \A q \in D : ~(q > o)
    BY <1>1
  <2>2. Body(Rest, o) = Device(o, p + n)
    BY <2>1, ReadStepRight
  <2> QED
    BY <1>5, <2>2
<1>7. ASSUME NEW w \in T PROVE w + 1 \in T
  <2> SUFFICES ASSUME NEW o \in D, p + n - o <= w + 1 PROVE Rest[o] = Device(o, p + n)
    OBVIOUS
  <2>1. \A q \in D : q > o => p + n - q <= w
    BY <1>1
  <2>2. \A q \in D : q > o => Rest[q] = Device(q, p + n)
    BY <2>1
  <2>3. Body(Rest, o) = Device(o, p + n)
    BY <2>2, ReadStepRight
  <2> QED
    BY <1>5, <2>3
<1> HIDE DEF T
<1>8. T \in SUBSET Nat
  BY DEF T
<1>9. n \in T
  BY <1>1, <1>6, <1>7, <1>8, Induction
<1>10. p \in D /\ p + n - p <= n
  BY <1>1
<1>11. Rest[p] = Device(p, p + n)
  BY <1>9, <1>10 DEF T
<1> QED
  BY <1>4, <1>11
=============================================================================
