--------------------------- MODULE RdsBitsProofs ----------------------------
(***************************************************************************)
(* Theorems about the steps before block synchronisation.  RdsBlockCode:   *)
(* small errors are noticed in every block of every word of data, and      *)
(* bursts repaired in all but C'.  RdsClock: after a window without a      *)
(* fault and with a one in it the bits are decoded as they were sent, for  *)
(* windows of any even length and any number of faults before.             *)
(***************************************************************************)
EXTENDS RdsBlockCode, RdsClock, FiniteSetTheorems, WellFoundedInduction, TLAPS

-----------------------------------------------------------------------------
(***************************************************************************)
(* The block code.  It is linear: parities add up, so the syndrome of a    *)
(* sum is the sum of the syndromes.                                        *)
(***************************************************************************)
Odd(S) == Cardinality(S) % 2 = 1

LEMMA ParitiesAddUp ==
    ASSUME NEW S, NEW T, IsFiniteSet(S), IsFiniteSet(T)
    PROVE  Odd(SymDiff(S, T)) <=> (Odd(S) <=> ~Odd(T))
<1>1. /\ IsFiniteSet(S \ T) /\ Cardinality(S \ T) = Cardinality(S) - Cardinality(S \cap T)
      /\ IsFiniteSet(T \ S) /\ Cardinality(T \ S) = Cardinality(T) - Cardinality(T \cap S)
  BY FS_Difference
<1>2. Cardinality((S \ T) \cup (T \ S))
        = Cardinality(S \ T) + Cardinality(T \ S) - Cardinality((S \ T) \cap (T \ S))
  BY <1>1, FS_Union
<1>3. (S \ T) \cap (T \ S) = {} /\ S \cap T = T \cap S
  OBVIOUS
<1>4. IsFiniteSet(S \cap T)
  BY FS_Intersection
<1>5. Cardinality({}) = 0 /\ Cardinality(S) \in Nat /\ Cardinality(T) \in Nat
      /\ Cardinality(S \cap T) \in Nat
  BY <1>4, FS_EmptySet, FS_CardinalityType
<1>6. Cardinality(SymDiff(S, T)) = Cardinality(S) + Cardinality(T) - 2 * Cardinality(S \cap T)
  <2>1. Cardinality(SymDiff(S, T)) = Cardinality(S \ T) + Cardinality(T \ S) - 0
    BY <1>2, <1>3, <1>5 DEF SymDiff
  <2>2. Cardinality(T \ S) = Cardinality(T) - Cardinality(S \cap T)
    BY <1>1, <1>3
  <2>3. \A s, t, c \in Nat : (s - c) + (t - c) - 0 = s + t - 2 * c
    OBVIOUS
  <2>. QED  BY <1>1, <1>5, <2>1, <2>2, <2>3
<1>7. \A s, t, c \in Nat : (s + t - 2 * c) % 2 = 1 <=> (s % 2 = 1 <=> ~(t % 2 = 1))
  OBVIOUS
<1>. QED  BY <1>5, <1>6, <1>7 DEF Odd

\* The contribution of one bit to the syndrome.
Row(k) == parity_check_matrix[26 - k]

LEMMA WordsAreFinite ==
    ASSUME NEW w \in SUBSET Bits
    PROVE  IsFiniteSet(w)
<1>1. PICK last \in Int : last = 25
  OBVIOUS
<1>2. IsFiniteSet(0..last)
  BY FS_Interval
<1>3. Bits = 0..last
  BY <1>1 DEF Bits
<1>. QED  BY <1>2, <1>3, FS_Subset

LEMMA SyndromeByRows ==
    ASSUME NEW w
    PROVE  rds_calculate_syndrome(w) = {b \in CheckBits : Odd({k \in w : b \in Row(k)})}
BY DEF rds_calculate_syndrome, Odd, Row

LEMMA SyndromesAddUp ==
    ASSUME NEW u \in SUBSET Bits, NEW v \in SUBSET Bits
    PROVE  /\ SymDiff(u, v) \in SUBSET Bits
           /\ rds_calculate_syndrome(SymDiff(u, v))
                = SymDiff(rds_calculate_syndrome(u), rds_calculate_syndrome(v))
<1>1. SymDiff(u, v) \in SUBSET Bits
  BY DEF SymDiff
<1>. DEFINE part(w, b) == {k \in w : b \in Row(k)}
<1>2. ASSUME NEW b
      PROVE  Odd(part(SymDiff(u, v), b)) <=> (Odd(part(u, b)) <=> ~Odd(part(v, b)))
  <2>1. part(u, b) \in SUBSET Bits /\ part(v, b) \in SUBSET Bits
    OBVIOUS
  <2>2. part(SymDiff(u, v), b) = SymDiff(part(u, b), part(v, b))
    BY DEF SymDiff
  <2>. HIDE DEF part
  <2>3. Odd(SymDiff(part(u, b), part(v, b))) <=> (Odd(part(u, b)) <=> ~Odd(part(v, b)))
    BY <2>1, WordsAreFinite, ParitiesAddUp
  <2>. QED  BY <2>2, <2>3
<1>3. \A w : rds_calculate_syndrome(w) = {b \in CheckBits : Odd(part(w, b))}
  BY SyndromeByRows
<1>. HIDE DEF part
<1>4. rds_calculate_syndrome(SymDiff(u, v))
        = SymDiff(rds_calculate_syndrome(u), rds_calculate_syndrome(v))
  <2>1. ASSUME NEW b
        PROVE  b \in rds_calculate_syndrome(SymDiff(u, v))
                 <=> b \in SymDiff(rds_calculate_syndrome(u), rds_calculate_syndrome(v))
    BY <1>2, <1>3 DEF SymDiff
  <2>. QED  BY <2>1
<1>. QED  BY <1>1, <1>4

\* A tautology of sums.
LEMMA DisjointUnionIsSum ==
    ASSUME NEW u, NEW v, u \cap v = {}
    PROVE  u \cup v = SymDiff(u, v)
BY DEF SymDiff

LEMMA Rows ==
    /\ Row(0) = {9, 8, 4, 3, 1, 0} /\ Row(1) = {9, 8, 7, 3, 2, 1, 0}
    /\ Row(2) = {9, 7, 5, 2, 1, 0} /\ Row(3) = {7, 6, 5, 4, 2, 1, 0}
    /\ Row(4) = {8, 7, 6, 5, 3, 2, 1} /\ Row(5) = {9, 8, 7, 6, 4, 3, 2} /\ Row(6) = {9, 0}
    /\ Row(7) = {8, 7, 5, 4, 3, 1, 0} /\ Row(8) = {9, 8, 6, 5, 4, 2, 1}
    /\ Row(9) = {9, 8, 6, 4, 2, 0} /\ Row(10) = {9, 8, 4, 1, 0}
    /\ Row(11) = {9, 8, 7, 4, 3, 2, 1, 0} /\ Row(12) = {9, 7, 2, 1, 0}
    /\ Row(13) = {7, 5, 4, 2, 1, 0} /\ Row(14) = {8, 6, 5, 3, 2, 1}
    /\ Row(15) = {9, 7, 6, 4, 3, 2} /\ Row(16) = {0} /\ Row(17) = {1} /\ Row(18) = {2}
    /\ Row(19) = {3} /\ Row(20) = {4} /\ Row(21) = {5} /\ Row(22) = {6} /\ Row(23) = {7}
    /\ Row(24) = {8} /\ Row(25) = {9}
BY DEF Row, parity_check_matrix

LEMMA RowsAreSyndromes ==
    ASSUME NEW k \in Bits
    PROVE  Row(k) \in SUBSET CheckBits /\ rds_calculate_syndrome({k}) = Row(k)
<1>1. k \in 0..25
  BY DEF Bits
<1>2. Row(k) \in SUBSET CheckBits
  BY <1>1, Rows DEF CheckBits
<1>3. ASSUME NEW b PROVE Odd({j \in {k} : b \in Row(j)}) <=> b \in Row(k)
  <2>1. {j \in {k} : b \in Row(j)} = IF b \in Row(k) THEN {k} ELSE {}
    OBVIOUS
  <2>2. Cardinality({k}) = 1 /\ Cardinality({}) = 0
    BY FS_Singleton, FS_EmptySet
  <2>3. Odd({k}) /\ ~Odd({})
    BY <2>2 DEF Odd
  <2>. QED  BY <2>1, <2>3
<1>4. rds_calculate_syndrome({k}) = {b \in CheckBits : Odd({j \in {k} : b \in Row(j)})}
  BY SyndromeByRows
<1>. QED  BY <1>2, <1>3, <1>4

\* The syndromes of words of two bits, and with one bit more.
LEMMA TwoBits ==
    ASSUME NEW j \in Bits, NEW k \in Bits, j # k
    PROVE  rds_calculate_syndrome({j, k}) = SymDiff(Row(j), Row(k))
<1>1. {j, k} = SymDiff({j}, {k}) /\ {j} \in SUBSET Bits /\ {k} \in SUBSET Bits
  BY DEF SymDiff
<1>. QED  BY <1>1, RowsAreSyndromes, SyndromesAddUp

LEMMA OneMoreBit ==
    ASSUME NEW w \in SUBSET Bits, NEW k \in Bits, k \notin w
    PROVE  rds_calculate_syndrome(w \cup {k}) = SymDiff(rds_calculate_syndrome(w), Row(k))
<1>1. w \cup {k} = SymDiff(w, {k}) /\ {k} \in SUBSET Bits
  BY DEF SymDiff
<1>. QED  BY <1>1, RowsAreSyndromes, SyndromesAddUp

\* The tables of offset words and of their syndromes fit together.
LEMMA OffsetSyndromesFit ==
    ASSUME NEW o \in Offsets
    PROVE  /\ OffsetWord[o] \in SUBSET Bits
           /\ rds_calculate_syndrome(OffsetWord[o]) = OffsetSyndrome[o]
<1>1. rds_calculate_syndrome({7, 6, 5, 4, 3, 2}) = {9, 8, 7, 6, 4, 3}
  <2>1. rds_calculate_syndrome({7, 6, 5}) = {6, 5, 2, 1}
    <3>1. rds_calculate_syndrome({7, 6}) = {9, 8, 7, 5, 4, 3, 1}
      BY TwoBits, Rows DEF Bits, SymDiff
    <3>2. {7, 6, 5} = {7, 6} \cup {5} /\ {7, 6} \in SUBSET Bits /\ 5 \in Bits
      BY DEF Bits
    <3>. QED  BY <3>1, <3>2, OneMoreBit, Rows DEF SymDiff
  <2>2. rds_calculate_syndrome({4, 3, 2}) = {9, 8, 7, 5, 4, 3, 2, 1}
    <3>1. rds_calculate_syndrome({4, 3}) = {8, 4, 3, 0}
      BY TwoBits, Rows DEF Bits, SymDiff
    <3>2. {4, 3, 2} = {4, 3} \cup {2} /\ {4, 3} \in SUBSET Bits /\ 2 \in Bits
      BY DEF Bits
    <3>. QED  BY <3>1, <3>2, OneMoreBit, Rows DEF SymDiff
  <2>3. {7, 6, 5, 4, 3, 2} = SymDiff({7, 6, 5}, {4, 3, 2})
    BY DEF SymDiff
  <2>4. {7, 6, 5} \in SUBSET Bits /\ {4, 3, 2} \in SUBSET Bits
    BY DEF Bits
  <2>. QED  BY <2>1, <2>2, <2>3, <2>4, SyndromesAddUp DEF SymDiff
<1>2. rds_calculate_syndrome({8, 7, 4, 3}) = {9, 8, 7, 6, 4, 2}
  <2>1. rds_calculate_syndrome({8, 7}) = {9, 7, 6, 3, 2, 0}
    BY TwoBits, Rows DEF Bits, SymDiff
  <2>2. rds_calculate_syndrome({4, 3}) = {8, 4, 3, 0}
    BY TwoBits, Rows DEF Bits, SymDiff
  <2>3. {8, 7, 4, 3} = SymDiff({8, 7}, {4, 3})
    BY DEF SymDiff
  <2>4. {8, 7} \in SUBSET Bits /\ {4, 3} \in SUBSET Bits
    BY DEF Bits
  <2>. QED  BY <2>1, <2>2, <2>3, <2>4, SyndromesAddUp DEF SymDiff
<1>3. rds_calculate_syndrome({8, 6, 5, 3}) = {9, 6, 4, 3, 2}
  <2>1. rds_calculate_syndrome({8, 6}) = {8, 6, 5, 4, 2, 1, 0}
    BY TwoBits, Rows DEF Bits, SymDiff
  <2>2. rds_calculate_syndrome({5, 3}) = {9, 8, 5, 3, 1, 0}
    BY TwoBits, Rows DEF Bits, SymDiff
  <2>3. {8, 6, 5, 3} = SymDiff({8, 6}, {5, 3})
    BY DEF SymDiff
  <2>4. {8, 6} \in SUBSET Bits /\ {5, 3} \in SUBSET Bits
    BY DEF Bits
  <2>. QED  BY <2>1, <2>2, <2>3, <2>4, SyndromesAddUp DEF SymDiff
<1>4. rds_calculate_syndrome({9, 8, 6, 4}) = {9, 8, 7, 6, 3, 2}
  <2>1. rds_calculate_syndrome({9, 8}) = {5, 1, 0}
    BY TwoBits, Rows DEF Bits, SymDiff
  <2>2. rds_calculate_syndrome({6, 4}) = {9, 8, 7, 6, 5, 3, 2, 1, 0}
    BY TwoBits, Rows DEF Bits, SymDiff
  <2>3. {9, 8, 6, 4} = SymDiff({9, 8}, {6, 4})
    BY DEF SymDiff
  <2>4. {9, 8} \in SUBSET Bits /\ {6, 4} \in SUBSET Bits
    BY DEF Bits
  <2>. QED  BY <2>1, <2>2, <2>3, <2>4, SyndromesAddUp DEF SymDiff
<1>5. rds_calculate_syndrome({8, 7, 5, 4, 2}) = {9, 6, 4, 3}
  <2>1. rds_calculate_syndrome({8, 7, 5}) = {8, 4, 0}
    <3>1. rds_calculate_syndrome({8, 7}) = {9, 7, 6, 3, 2, 0}
      BY TwoBits, Rows DEF Bits, SymDiff
    <3>2. {8, 7, 5} = {8, 7} \cup {5} /\ {8, 7} \in SUBSET Bits /\ 5 \in Bits
      BY DEF Bits
    <3>. QED  BY <3>1, <3>2, OneMoreBit, Rows DEF SymDiff
  <2>2. rds_calculate_syndrome({4, 2}) = {9, 8, 6, 3, 0}
    BY TwoBits, Rows DEF Bits, SymDiff
  <2>3. {8, 7, 5, 4, 2} = SymDiff({8, 7, 5}, {4, 2})
    BY DEF SymDiff
  <2>4. {8, 7, 5} \in SUBSET Bits /\ {4, 2} \in SUBSET Bits
    BY DEF Bits
  <2>. QED  BY <2>1, <2>2, <2>3, <2>4, SyndromesAddUp DEF SymDiff
<1>6. OffsetWord[o] \in SUBSET Bits
  BY DEF Offsets, OffsetWord, Bits
<1>. QED  BY <1>1, <1>2, <1>3, <1>4, <1>5, <1>6 DEF Offsets, OffsetWord, OffsetSyndrome


-----------------------------------------------------------------------------
(***************************************************************************)
(* Every data bit has check bits.  The row of a bit is the row before it,  *)
(* shifted, as in a cyclic code; so the word of a data bit is the word of  *)
(* the one before, shifted, with the generator added if it had bit 9.      *)
(***************************************************************************)
Generator == {8, 7, 5, 4, 3, 0}

Times(s) == {b \in CheckBits : IF 9 \in s /\ b \in Generator THEN b - 1 \notin s
                                                          ELSE b - 1 \in s}

Shifted(w) == {k + 1 : k \in w}

LEMMA RowsAreShifted ==
    ASSUME NEW k \in 0..24
    PROVE  Row(k + 1) = Times(Row(k))
BY Rows DEF Times, Generator, CheckBits

\* A bit of the syndrome, for any name of a bit.
LEMMA InSyndrome ==
    ASSUME NEW w \in SUBSET Bits, NEW b
    PROVE  b \in rds_calculate_syndrome(w) <=> Odd({k \in w : b \in Row(k)})
<1>1. CASE b \in CheckBits
  BY <1>1, SyndromeByRows
<1>2. CASE b \notin CheckBits
  <2>1. {k \in w : b \in Row(k)} = {}
    BY <1>2, RowsAreSyndromes
  <2>2. ~Odd({})
    BY FS_EmptySet DEF Odd
  <2>. QED  BY <1>2, <2>1, <2>2, SyndromeByRows
<1>. QED  BY <1>1, <1>2

LEMMA ShiftedIsAsLong ==
    ASSUME NEW S \in SUBSET Bits
    PROVE  Cardinality(Shifted(S)) = Cardinality(S)
<1>. DEFINE next == [k \in S |-> k + 1]
            T == Shifted(S)
<1>1. \A k \in S : k \in Int
  BY DEF Bits
<1>2. next \in [S -> T] /\ \A j, k \in S : next[j] = next[k] => j = k
  BY <1>1 DEF Shifted
<1>3. \A j \in T : \E k \in S : next[k] = j
  BY DEF Shifted
<1>. HIDE DEF next, T
<1>4. next \in Bijection(S, T)
  BY <1>2, <1>3 DEF Bijection, Injection, Surjection, IsInjective
<1>5. ExistsBijection(S, T) /\ IsFiniteSet(S)
  BY <1>4, WordsAreFinite DEF ExistsBijection
<1>6. Cardinality(S) = Cardinality(T)
  BY <1>5, FS_Bijection
<1>. QED  BY <1>6 DEF T

LEMMA ShiftedSyndrome ==
    ASSUME NEW w \in SUBSET (0..24)
    PROVE  /\ w \in SUBSET Bits /\ Shifted(w) \in SUBSET Bits
           /\ rds_calculate_syndrome(Shifted(w)) = Times(rds_calculate_syndrome(w))
<1>1. w \in SUBSET Bits /\ Shifted(w) \in SUBSET Bits
  BY DEF Shifted, Bits
<1>. DEFINE part(b) == {k \in w : b \in Row(k)}
            ones(b) == {k \in w : b \in Row(k + 1)}
<1>2. ASSUME NEW b
      PROVE  b \in rds_calculate_syndrome(Shifted(w)) <=> Odd(ones(b))
  <2>1. {j \in Shifted(w) : b \in Row(j)} = Shifted(ones(b))
    BY DEF Shifted
  <2>2. ones(b) \in SUBSET Bits
    BY <1>1
  <2>. HIDE DEF ones
  <2>3. Cardinality(Shifted(ones(b))) = Cardinality(ones(b))
    BY <2>2, ShiftedIsAsLong
  <2>. QED  BY <2>1, <2>3, <1>1, InSyndrome DEF Odd
<1>3. ASSUME NEW b
      PROVE  b \in rds_calculate_syndrome(w) <=> Odd(part(b))
  BY <1>1, InSyndrome
<1>4. ASSUME NEW b \in CheckBits
      PROVE  b \in rds_calculate_syndrome(Shifted(w)) <=> b \in Times(rds_calculate_syndrome(w))
  <2>1. ASSUME NEW k \in w
        PROVE  b \in Row(k + 1) <=> IF 9 \in Row(k) /\ b \in Generator THEN b - 1 \notin Row(k)
                                                                    ELSE b - 1 \in Row(k)
    <3>1. k \in 0..24
      OBVIOUS
    <3>. QED  BY <3>1, RowsAreShifted DEF Times
  <2>2. CASE b \in Generator
    <3>1. ones(b) = SymDiff(part(9), part(b - 1))
      BY <2>1, <2>2 DEF SymDiff
    <3>2. part(9) \in SUBSET Bits /\ part(b - 1) \in SUBSET Bits
      BY <1>1
    <3>. HIDE DEF ones, part
    <3>3. Odd(ones(b)) <=> (Odd(part(9)) <=> ~Odd(part(b - 1)))
      BY <3>1, <3>2, WordsAreFinite, ParitiesAddUp
    <3>. QED  BY <1>2, <1>3, <2>2, <3>3 DEF Times
  <2>3. CASE b \notin Generator
    <3>1. ones(b) = part(b - 1)
      BY <2>1, <2>3
    <3>. HIDE DEF ones, part
    <3>. QED  BY <1>2, <1>3, <2>3, <3>1 DEF Times
  <2>. QED  BY <2>2, <2>3
<1>5. rds_calculate_syndrome(Shifted(w)) \in SUBSET CheckBits
      /\ Times(rds_calculate_syndrome(w)) \in SUBSET CheckBits
  BY DEF rds_calculate_syndrome, Times
<1>. QED  BY <1>1, <1>4, <1>5

LEMMA GeneratorIsAWord ==
    /\ Generator \cup {10} \in SUBSET Bits
    /\ rds_calculate_syndrome(Generator \cup {10}) = {}
<1>1. /\ {8, 7} \in SUBSET Bits /\ {8, 7, 5} \in SUBSET Bits /\ 5 \in Bits /\ 0 \in Bits
      /\ {4, 3} \in SUBSET Bits /\ {4, 3, 0} \in SUBSET Bits /\ 10 \in Bits
      /\ Generator \in SUBSET Bits /\ Generator \cup {10} \in SUBSET Bits
  BY DEF Bits, Generator
<1>2. rds_calculate_syndrome({8, 7}) = {9, 7, 6, 3, 2, 0}
  BY TwoBits, Rows DEF Bits, SymDiff
<1>3. rds_calculate_syndrome({8, 7, 5}) = {8, 4, 0}
  <2>1. {8, 7, 5} = {8, 7} \cup {5} /\ 5 \notin {8, 7}
    OBVIOUS
  <2>. QED  BY <1>1, <1>2, <2>1, OneMoreBit, Rows DEF SymDiff
<1>4. rds_calculate_syndrome({4, 3}) = {8, 4, 3, 0}
  BY TwoBits, Rows DEF Bits, SymDiff
<1>5. rds_calculate_syndrome({4, 3, 0}) = {9, 1}
  <2>1. {4, 3, 0} = {4, 3} \cup {0} /\ 0 \notin {4, 3}
    OBVIOUS
  <2>. QED  BY <1>1, <1>4, <2>1, OneMoreBit, Rows DEF SymDiff
<1>6. rds_calculate_syndrome(Generator) = {9, 8, 4, 1, 0}
  <2>1. Generator = SymDiff({8, 7, 5}, {4, 3, 0})
    BY DEF SymDiff, Generator
  <2>. QED  BY <1>1, <1>3, <1>5, <2>1, SyndromesAddUp DEF SymDiff
<1>7. 10 \notin Generator
  BY DEF Generator
<1>8. rds_calculate_syndrome(Generator \cup {10})
        = SymDiff(rds_calculate_syndrome(Generator), Row(10))
  BY <1>1, <1>7, OneMoreBit
<1>. QED  BY <1>1, <1>6, <1>8, Rows DEF SymDiff

\* What is true of some numbers is true of a least one: the least counterexample.
LEMMA LeastExists ==
    ASSUME NEW S \in SUBSET Nat, S # {}
    PROVE  Min(S) \in S /\ \A y \in S : Min(S) <= y
<1>. DEFINE Below == OpToRel(<, Nat)
<1>1. IsWellFoundedOn(Below, Nat)
  BY NatLessThanWellFounded
<1>2. \A x, y \in Nat : <<y, x>> \in Below <=> y < x
  BY DEF OpToRel
<1>. HIDE DEF Below
<1>3. PICK x \in S : \A y \in S : ~(<<y, x>> \in Below)
  BY <1>1, WFMin
<1>4. \A y \in S : ~(y < x)
  BY <1>2, <1>3, Zenon
<1>5. \A y \in S : x <= y
  BY <1>4
<1>. QED
  BY <1>3, <1>5 DEF Min

LEMMA CheckBitsExist ==
    ASSUME NEW k \in 0..15
    PROVE  \E c \in SUBSET CheckBits : rds_calculate_syndrome(c \cup {k + 10}) = {}
<1>. DEFINE Has(n) == \E c \in SUBSET CheckBits : rds_calculate_syndrome(c \cup {n + 10}) = {}
            lacking == {n \in 0..15 : ~Has(n)}
<1>. SUFFICES ASSUME lacking # {} PROVE FALSE
  OBVIOUS
<1>1. PICK m \in 0..15 : ~Has(m) /\ \A n \in lacking : m <= n
  <2>1. lacking \in SUBSET Nat /\ lacking \in SUBSET (0..15)
    OBVIOUS
  <2>2. Min(lacking) \in lacking /\ \A n \in lacking : Min(lacking) <= n
    <3>. HIDE DEF lacking
    <3>. QED  BY <2>1, LeastExists
  <2>. QED  BY <2>1, <2>2
<1>2. Generator \in SUBSET CheckBits
  BY DEF Generator, CheckBits
<1>3. Has(0)
  <2>1. 0 + 10 = 10
    OBVIOUS
  <2>2. rds_calculate_syndrome(Generator \cup {0 + 10}) = {}
    BY <2>1, GeneratorIsAWord, Zenon
  <2>. QED  BY <1>2, <2>2
<1>4. m - 1 \in 0..15 /\ m > 0 /\ Has(m - 1)
  <2>1. m - 1 \in 0..15 /\ m > 0
    <3>. HIDE DEF Has
    <3>1. m # 0
      BY <1>1, <1>3
    <3>. QED  BY <3>1
  <2>2. ~(m <= m - 1)
    OBVIOUS
  <2>. QED  BY <1>1, <2>1, <2>2
<1>5. PICK c \in SUBSET CheckBits : rds_calculate_syndrome(c \cup {(m - 1) + 10}) = {}
  BY <1>4
<1>. DEFINE w == c \cup {(m - 1) + 10}
<1>6. w \in SUBSET (0..24)
  BY <1>4 DEF CheckBits
<1>7. Shifted(w) \in SUBSET Bits /\ rds_calculate_syndrome(Shifted(w)) = {}
  <2>1. Times({}) = {}
    BY DEF Times
  <2>. HIDE DEF w
  <2>2. Shifted(w) \in SUBSET Bits
        /\ rds_calculate_syndrome(Shifted(w)) = Times(rds_calculate_syndrome(w))
    BY <1>6, ShiftedSyndrome
  <2>. QED  BY <1>5, <2>1, <2>2 DEF w
<1>8. Shifted(w) = Shifted(c) \cup {m + 10}
  <2>1. \A x : Shifted(c \cup {x}) = Shifted(c) \cup {x + 1}
    BY DEF Shifted
  <2>2. ((m - 1) + 10) + 1 = m + 10
    OBVIOUS
  <2>. QED  BY <2>1, <2>2
<1>. HIDE DEF w
<1>9. CASE 9 \notin c
  <2>1. Shifted(c) \in SUBSET CheckBits
    BY <1>9 DEF Shifted, CheckBits
  <2>. QED  BY <1>1, <1>7, <1>8, <2>1
<1>10. CASE 9 \in c
  <2>. DEFINE d == SymDiff(Shifted(c \ {9}), Generator)
  <2>1. Shifted(c \ {9}) \in SUBSET CheckBits
    BY DEF Shifted, CheckBits
  <2>2. d \in SUBSET CheckBits
    BY <1>2, <2>1 DEF SymDiff
  <2>3. Shifted(c) = Shifted(c \ {9}) \cup {10}
    BY <1>10 DEF Shifted
  <2>4. m + 10 # 10 /\ m + 10 \notin Generator /\ m + 10 \notin CheckBits /\ 10 \notin CheckBits
    BY <1>4 DEF Generator, CheckBits
  <2>5. SymDiff(Shifted(w), Generator \cup {10}) = d \cup {m + 10}
    BY <1>2, <1>8, <2>1, <2>3, <2>4 DEF SymDiff
  <2>6. rds_calculate_syndrome(d \cup {m + 10}) = {}
    <3>1. SymDiff({}, {}) = {}
      BY DEF SymDiff
    <3>. QED  BY <1>7, <2>5, <3>1, SyndromesAddUp, GeneratorIsAWord
  <2>. QED  BY <1>1, <2>2, <2>6
<1>. QED  BY <1>9, <1>10

LEMMA CheckOfBitFits ==
    ASSUME NEW k \in 0..15
    PROVE  /\ CheckOfBit[k] \in SUBSET CheckBits
           /\ rds_calculate_syndrome(CheckOfBit[k] \cup {k + 10}) = {}
BY CheckBitsExist DEF CheckOfBit

-----------------------------------------------------------------------------
(***************************************************************************)
(* The words of data are sums of the words of single bits.                 *)
(***************************************************************************)

Shift10(data) == {k + 10 : k \in data}

CodeWord(data) == Shift10(data) \cup CheckOf(data)

LEMMA CodeWordIsAWord ==
    ASSUME NEW data \in SUBSET (0..15)
    PROVE  /\ data \in SUBSET Bits /\ CodeWord(data) \in SUBSET Bits
           /\ CheckOf(data) \in SUBSET CheckBits /\ Shift10(data) \in SUBSET (10..25)
<1>1. data \in SUBSET Bits /\ Shift10(data) \in SUBSET (10..25)
  BY DEF Bits, Shift10
<1>2. CheckOf(data) \in SUBSET CheckBits
  BY DEF CheckOf
<1>3. CodeWord(data) \in SUBSET Bits
  BY <1>1, <1>2 DEF CodeWord, Bits, CheckBits
<1>. QED  BY <1>1, <1>2, <1>3

LEMMA CodeWordOfOneMore ==
    ASSUME NEW data \in SUBSET (0..15), NEW k \in 0..15, k \notin data
    PROVE  CodeWord(data \cup {k}) = SymDiff(CodeWord(data), CheckOfBit[k] \cup {k + 10})
<1>. DEFINE ones(d, b) == {j \in d : b \in CheckOfBit[j]}
<1>1. \A d : CheckOf(d) = {b \in CheckBits : Odd(ones(d, b))}
  BY DEF CheckOf, Odd
<1>2. ASSUME NEW b
      PROVE  Odd(ones(data \cup {k}, b)) <=> (Odd(ones(data, b)) <=> b \notin CheckOfBit[k])
  <2>1. CASE b \notin CheckOfBit[k]
    <3>1. ones(data \cup {k}, b) = ones(data, b)
      BY <2>1
    <3>. QED  BY <2>1, <3>1
  <2>2. CASE b \in CheckOfBit[k]
    <3>1. ones(data \cup {k}, b) = SymDiff(ones(data, b), {k})
      BY <2>2 DEF SymDiff
    <3>2. ones(data, b) \in SUBSET Bits /\ {k} \in SUBSET Bits
      BY CodeWordIsAWord DEF Bits
    <3>3. Odd({k})
      BY FS_Singleton DEF Odd
    <3>. HIDE DEF ones
    <3>4. Odd(SymDiff(ones(data, b), {k})) <=> (Odd(ones(data, b)) <=> ~Odd({k}))
      BY <3>2, WordsAreFinite, ParitiesAddUp
    <3>. QED  BY <2>2, <3>1, <3>3, <3>4
  <2>. QED  BY <2>1, <2>2
<1>. HIDE DEF ones
<1>3. CheckOf(data \cup {k}) = SymDiff(CheckOf(data), CheckOfBit[k])
  <2>1. CheckOfBit[k] \in SUBSET CheckBits
    BY CheckOfBitFits
  <2>2. ASSUME NEW b \in CheckBits
        PROVE  b \in CheckOf(data \cup {k}) <=> (b \in CheckOf(data) <=> b \notin CheckOfBit[k])
    BY <1>1, <1>2
  <2>3. CheckOf(data \cup {k}) \in SUBSET CheckBits /\ CheckOf(data) \in SUBSET CheckBits
    BY <1>1
  <2>. QED  BY <2>1, <2>2, <2>3 DEF SymDiff
<1>4. Shift10(data \cup {k}) = Shift10(data) \cup {k + 10} /\ k + 10 \notin Shift10(data)
  BY DEF Shift10
<1>5. k + 10 \notin CheckBits /\ Shift10(data) \cap CheckBits = {}
  BY CodeWordIsAWord DEF CheckBits
<1>6. CheckOf(data) \in SUBSET CheckBits /\ CheckOfBit[k] \in SUBSET CheckBits
  BY CodeWordIsAWord, CheckOfBitFits
<1>. QED  BY <1>3, <1>4, <1>5, <1>6 DEF CodeWord, SymDiff

LEMMA CodeWordsHaveNoSyndrome ==
    ASSUME NEW data \in SUBSET (0..15)
    PROVE  rds_calculate_syndrome(CodeWord(data)) = {}
<1>. DEFINE Bad(d) == rds_calculate_syndrome(CodeWord(d)) # {}
            sizes == {Cardinality(d) : d \in {e \in SUBSET (0..15) : Bad(e)}}
<1>. SUFFICES ASSUME Bad(data) PROVE FALSE
  OBVIOUS
<1>1. \A d \in SUBSET (0..15) : IsFiniteSet(d) /\ Cardinality(d) \in Nat
  BY CodeWordIsAWord, WordsAreFinite, FS_CardinalityType
<1>2. PICK d \in SUBSET (0..15) :
          Bad(d) /\ \A e \in SUBSET (0..15) : Bad(e) => Cardinality(d) <= Cardinality(e)
  <2>1. sizes \in SUBSET Nat /\ sizes # {}
    BY <1>1
  <2>2. Min(sizes) \in sizes /\ \A n \in sizes : Min(sizes) <= n
    <3>. HIDE DEF sizes
    <3>. QED  BY <2>1, LeastExists
  <2>3. \A e \in SUBSET (0..15) : Bad(e) => Cardinality(e) \in sizes
    OBVIOUS
  <2>4. \A n \in sizes : \E e \in SUBSET (0..15) : Bad(e) /\ Cardinality(e) = n
    OBVIOUS
  <2>. HIDE DEF sizes, Bad
  <2>. QED  BY <2>2, <2>3, <2>4
<1>3. ~Bad({})
  <2>1. CodeWord({}) = {}
    <3>1. CheckOf({}) = {}
      <4>1. \A b : {k \in {} : b \in CheckOfBit[k]} = {}
        OBVIOUS
      <4>. QED  BY <4>1, FS_EmptySet DEF CheckOf
    <3>. QED  BY <3>1 DEF CodeWord, Shift10
  <2>2. \A b : ~(b \in rds_calculate_syndrome({}))
    <3>1. \A b : {k \in {} : b \in Row(k)} = {}
      OBVIOUS
    <3>2. ~Odd({})
      BY FS_EmptySet DEF Odd
    <3>. QED  BY <3>1, <3>2, SyndromeByRows
  <2>. QED  BY <2>1, <2>2
<1>4. PICK k \in d : TRUE
  BY <1>2, <1>3
<1>. DEFINE e == d \ {k}
<1>5. e \in SUBSET (0..15) /\ k \in 0..15 /\ k \notin e /\ d = e \cup {k}
  BY <1>4
<1>6. Cardinality(e) = Cardinality(d) - 1
  BY <1>1, <1>4, FS_RemoveElement
<1>. HIDE DEF e
<1>7. ~Bad(e)
  BY <1>1, <1>2, <1>5, <1>6
<1>8. CodeWord(d) = SymDiff(CodeWord(e), CheckOfBit[k] \cup {k + 10})
  BY <1>5, CodeWordOfOneMore
<1>9. CodeWord(e) \in SUBSET Bits /\ CheckOfBit[k] \cup {k + 10} \in SUBSET Bits
      /\ rds_calculate_syndrome(CheckOfBit[k] \cup {k + 10}) = {}
  <2>1. CodeWord(e) \in SUBSET Bits
    BY <1>5, CodeWordIsAWord
  <2>2. /\ CheckOfBit[k] \in SUBSET CheckBits
        /\ rds_calculate_syndrome(CheckOfBit[k] \cup {k + 10}) = {}
    BY <1>5, CheckOfBitFits
  <2>3. k + 10 \in Bits /\ CheckBits \subseteq Bits
    BY <1>5 DEF Bits, CheckBits
  <2>. QED  BY <2>1, <2>2, <2>3
<1>10. SymDiff({}, {}) = {}
  BY DEF SymDiff
<1>. QED  BY <1>2, <1>7, <1>8, <1>9, <1>10, SyndromesAddUp

\* What is transmitted has the syndrome of its offset, whatever the data.
LEMMA TransmittedFits ==
    ASSUME NEW data \in SUBSET (0..15), NEW o \in Offsets
    PROVE  /\ Transmitted(data, o) \in SUBSET Bits
           /\ rds_calculate_syndrome(Transmitted(data, o)) = OffsetSyndrome[o]
<1>1. Transmitted(data, o) = SymDiff(CodeWord(data), OffsetWord[o])
  BY DEF Transmitted, CodeWord, Shift10
<1>2. CodeWord(data) \in SUBSET Bits /\ OffsetWord[o] \in SUBSET Bits
  BY CodeWordIsAWord, OffsetSyndromesFit
<1>3. SymDiff({}, OffsetSyndrome[o]) = OffsetSyndrome[o]
  BY DEF SymDiff
<1>. QED  BY <1>1, <1>2, <1>3, SyndromesAddUp, CodeWordsHaveNoSyndrome, OffsetSyndromesFit

-----------------------------------------------------------------------------
(***************************************************************************)
(* No two bursts have the same syndrome, and none has an empty one: their  *)
(* syndromes, read as numbers, are all different.                          *)
(***************************************************************************)
Weight(s, b, weight) == IF b \in s THEN weight ELSE 0

Value(s) ==
    Weight(s, 9, 512) + Weight(s, 8, 256) + Weight(s, 7, 128) + Weight(s, 6, 64)
      + Weight(s, 5, 32) + Weight(s, 4, 16) + Weight(s, 3, 8) + Weight(s, 2, 4)
      + Weight(s, 1, 2) + Weight(s, 0, 1)

\* Of the 26 bits, then of the 25 pairs of neighbours, in the order of Bursts.
BurstValue ==
    <<795, 911, 679, 247, 494, 988, 513, 443, 886, 853, 787, 927, 647,
      183, 366, 732, 1, 2, 4, 8, 16, 32, 64, 128, 256, 512, 148, 296,
      592, 281, 562, 477, 954, 717, 35, 70, 140, 280, 560, 473, 946,
      733, 3, 6, 12, 24, 48, 96, 192, 384, 768>>

LEMMA RowValues ==
    ASSUME NEW k \in Bits
    PROVE  Value(Row(k)) = BurstValue[k + 1]
BY Rows DEF Value, Weight, BurstValue, Bits

LEMMA PairValues ==
    ASSUME NEW k \in 0..24
    PROVE  Value(SymDiff(Row(k), Row(k + 1))) = BurstValue[k + 27]
BY Rows DEF Value, Weight, BurstValue, SymDiff

LEMMA ValuesDiffer ==
    ASSUME NEW m \in 1..51, NEW n \in 1..51, BurstValue[m] = BurstValue[n]
    PROVE  m = n /\ BurstValue[n] # 0
BY DEF BurstValue

\* The burst at place n of the table: place 52 is the last bit again.
LEMMA BurstsAtPlaces ==
    ASSUME NEW n \in 1..52
    PROVE  /\ Bursts[n] \in SUBSET Bits
           /\ n <= 26 => Bursts[n] = {n - 1} /\ n - 1 \in Bits
           /\ n > 26 /\ n < 52 =>
                Bursts[n] = {n - 27, (n - 27) + 1} /\ n - 27 \in 0..24
           /\ n = 52 => Bursts[n] = {25}
<1>1. Bursts[n] = IF n <= 26 THEN {n - 1} ELSE {n - 27, n - 26} \cap Bits
  BY DEF Bursts
<1>2. n - 26 = (n - 27) + 1
  OBVIOUS
<1>3. CASE n <= 26
  BY <1>1, <1>3 DEF Bits
<1>4. CASE n > 26 /\ n < 52
  <2>. DEFINE k == n - 27
  <2>1. k \in 0..24
    BY <1>4
  <2>2. Bursts[n] = {k, k + 1} \cap Bits
    BY <1>1, <1>2, <1>4
  <2>. HIDE DEF k
  <2>3. Bursts[n] = {k, k + 1} /\ Bursts[n] \in SUBSET Bits
    <3>1. k \in Bits /\ k + 1 \in Bits
      BY <2>1 DEF Bits
    <3>. QED  BY <2>2, <3>1
  <2>4. ~(n <= 26) /\ n # 52
    BY <1>4
  <2>. QED  BY <2>1, <2>3, <2>4 DEF k
<1>5. CASE n = 52
  BY <1>1, <1>5 DEF Bits
<1>. QED  BY <1>3, <1>4, <1>5

LEMMA BurstSyndromeValues ==
    ASSUME NEW n \in 1..51
    PROVE  Value(rds_calculate_syndrome(Bursts[n])) = BurstValue[n]
<1>1. n \in 1..52
  OBVIOUS
<1>2. CASE n <= 26
  <2>1. Bursts[n] = {n - 1} /\ n - 1 \in Bits /\ (n - 1) + 1 = n
    BY <1>1, <1>2, BurstsAtPlaces
  <2>. DEFINE k == n - 1
  <2>2. k \in Bits /\ k + 1 = n /\ Bursts[n] = {k}
    BY <2>1
  <2>. HIDE DEF k
  <2>. QED  BY <2>2, RowsAreSyndromes, RowValues
<1>3. CASE n > 26
  <2>. DEFINE k == n - 27
  <2>1. k \in 0..24 /\ k + 27 = n /\ Bursts[n] = {k, k + 1}
    BY <1>1, <1>3, BurstsAtPlaces
  <2>. HIDE DEF k
  <2>2. k \in Bits /\ k + 1 \in Bits /\ k # k + 1
    BY <2>1 DEF Bits
  <2>3. rds_calculate_syndrome({k, k + 1}) = SymDiff(Row(k), Row(k + 1))
    BY <2>2, TwoBits
  <2>. QED  BY <2>1, <2>3, PairValues
<1>. QED  BY <1>2, <1>3

\* The syndrome of a burst is that of no other, and not empty.
LEMMA BurstsAreTold ==
    ASSUME NEW m \in 1..52, NEW n \in 1..52,
           rds_calculate_syndrome(Bursts[m]) = rds_calculate_syndrome(Bursts[n])
    PROVE  Bursts[m] = Bursts[n] /\ rds_calculate_syndrome(Bursts[n]) # {}
<1>. DEFINE place(i) == IF i = 52 THEN 26 ELSE i
<1>1. \A i \in 1..52 : place(i) \in 1..51 /\ Bursts[place(i)] = Bursts[i]
  <2>1. Bursts[52] = {25} /\ Bursts[26] = {26 - 1}
    <3>1. \A i \in 1..52 : (i = 52 => Bursts[i] = {25}) /\ (i <= 26 => Bursts[i] = {i - 1})
      BY BurstsAtPlaces
    <3>2. 52 \in 1..52 /\ 26 \in 1..52 /\ 26 <= 26
      OBVIOUS
    <3>. QED  BY <3>1, <3>2
  <2>2. 26 - 1 = 25
    OBVIOUS
  <2>. QED  BY <2>1, <2>2
<1>2. BurstValue[place(m)] = BurstValue[place(n)]
  BY <1>1, BurstSyndromeValues
<1>. HIDE DEF place
<1>3. place(m) = place(n) /\ BurstValue[place(n)] # 0
  BY <1>1, <1>2, ValuesDiffer
<1>4. Value({}) = 0
  BY DEF Value, Weight
<1>. QED  BY <1>1, <1>3, <1>4, BurstSyndromeValues

\* Every burst is in the table, a single bit in its first half only.
LEMMA BurstsAreInTable ==
    ASSUME NEW e \in Burst
    PROVE  /\ e \in SUBSET Bits
           /\ \E n \in 1..52 : Bursts[n] = e /\ (Cardinality(e) = 1 => n <= 26)
           /\ Cardinality(e) \in {1, 2}
           /\ \A n \in 1..52 : Bursts[n] = e /\ n <= 26 => Cardinality(e) = 1
<1>1. ASSUME NEW k \in Bits, e = {k}
      PROVE  \E n \in 1..52 : Bursts[n] = e /\ n <= 26
  <2>. DEFINE n == k + 1
  <2>1. n \in 1..52 /\ n <= 26 /\ n - 1 = k
    BY DEF Bits
  <2>. HIDE DEF n
  <2>. QED  BY <1>1, <2>1, BurstsAtPlaces
<1>2. ASSUME NEW k \in 0..24, e = {k, k + 1}
      PROVE  \E n \in 1..52 : Bursts[n] = e
  <2>. DEFINE n == k + 27
  <2>1. n \in 1..52 /\ n > 26 /\ n < 52 /\ n - 27 = k
    OBVIOUS
  <2>. HIDE DEF n
  <2>. QED  BY <1>2, <2>1, BurstsAtPlaces
<1>3. \A x : Cardinality({x}) = 1
  BY FS_Singleton
<1>4. ASSUME NEW k \in 0..24 PROVE Cardinality({k, k + 1}) = 2
  <2>1. {k, k + 1} = {k} \cup {k + 1} /\ k + 1 \notin {k}
    OBVIOUS
  <2>2. IsFiniteSet({k})
    BY FS_Singleton
  <2>3. Cardinality({k} \cup {k + 1}) = Cardinality({k}) + 1
    BY <2>1, <2>2, FS_AddElement
  <2>4. 1 + 1 = 2
    OBVIOUS
  <2>5. Cardinality({k}) = 1
    BY <1>3
  <2>. QED  BY <2>1, <2>3, <2>4, <2>5
<1>5. e \in SUBSET Bits
  BY DEF Burst, Bits
<1>6. \A n \in 1..52 : Bursts[n] = e /\ n <= 26 => Cardinality(e) = 1
  BY <1>3, BurstsAtPlaces
<1>7. (\E k \in Bits : e = {k}) \/ (\E k \in 0..24 : e = {k, k + 1})
  BY DEF Burst
<1>8. CASE \E k \in Bits : e = {k}
  BY <1>1, <1>3, <1>5, <1>6, <1>8
<1>9. CASE \E k \in 0..24 : e = {k, k + 1}
  <2>1. Cardinality(e) = 2 /\ \E n \in 1..52 : Bursts[n] = e
    BY <1>2, <1>4, <1>9
  <2>2. Cardinality(e) # 1
    BY <2>1
  <2>. QED  BY <1>5, <1>6, <2>1, <2>2
<1>. QED  BY <1>7, <1>8, <1>9

-----------------------------------------------------------------------------
(***************************************************************************)
(* One block, from the register to where it is taken or given up.          *)
(***************************************************************************)
BlockIsSent ==
    /\ sent \in SUBSET Bits /\ error \in SUBSET Bits
    /\ sent_offset \in Offsets /\ expected_offset \in Offsets
    /\ rds_calculate_syndrome(sent) = OffsetSyndrome[sent_offset]
    /\ stage \in {"received", "burst", "soft", "taken", "lost"}
    /\ stage = "received" => corrected_bits = raw_block
    /\ stage \in {"received", "burst", "soft"} =>
          expected_offset # "C2" /\ sent_offset \in Sendable(expected_offset)

\* A block taken as it is differs from the one sent by nothing the syndrome shows, unless
\* a C was taken for a C' or a C' for a C.
NoticedOK ==
    /\ stage \in {"burst", "soft"} => had_errors
    /\ stage = "taken" /\ ~had_errors =>
          \/ sent_offset = expected_offset /\ rds_calculate_syndrome(error) = {}
          \/ rds_calculate_syndrome(error) = {8, 7, 4}

RepairOK ==
    /\ error = {} /\ stage # "received" =>
          stage = "taken" /\ ~had_errors /\ corrected_bits = sent /\ expected_offset = sent_offset
    /\ error \in Burst /\ sent_offset # "C2" /\ stage \notin {"received", "burst"} =>
          /\ stage = "taken" /\ corrected_bits = sent
          /\ corrected_bit_count = Cardinality(error)

BlockInvariant == BlockIsSent /\ NoticedOK /\ RepairOK

LEMMA SumsCancel ==
    /\ \A s, t, u : SymDiff(s, t) = SymDiff(s, u) => t = u
    /\ \A s, t : SymDiff(s, t) = s => t = {}
    /\ \A s, t : SymDiff(SymDiff(s, t), t) = s
    /\ \A s, t : SymDiff(s, t) = SymDiff(t, s)
    /\ \A s : SymDiff(s, {}) = s
<1>1. \A s, t, x : x \in SymDiff(s, t) <=> (x \in s <=> x \notin t)
  BY DEF SymDiff
<1>2. ASSUME NEW s, NEW t, NEW u, SymDiff(s, t) = SymDiff(s, u) PROVE t = u
  <2>1. \A x : x \in t <=> x \in u
    BY <1>1, <1>2
  <2>. QED  BY <2>1
<1>3. ASSUME NEW s PROVE SymDiff(s, {}) = s
  BY DEF SymDiff
<1>4. ASSUME NEW s, NEW t, SymDiff(s, t) = s PROVE t = {}
  BY <1>2, <1>3, <1>4
<1>5. ASSUME NEW s, NEW t PROVE SymDiff(SymDiff(s, t), t) = s
  BY DEF SymDiff
<1>6. ASSUME NEW s, NEW t PROVE SymDiff(s, t) = SymDiff(t, s)
  BY DEF SymDiff
<1>. QED  BY <1>2, <1>3, <1>4, <1>5, <1>6

\* The values of the rows with the difference of the syndromes of C and C' added.
SwitchedValue ==
    <<651, 543, 823, 359, 126, 588, 913, 43, 742, 709, 643, 527, 791,
      295, 254, 844, 401, 402, 404, 408, 384, 432, 464, 272, 144, 912>>

LEMMA SwitchedValues ==
    ASSUME NEW k \in Bits
    PROVE  Value(SymDiff(Row(k), {8, 7, 4})) = SwitchedValue[k + 1]
BY Rows DEF Value, Weight, SwitchedValue, SymDiff, Bits

LEMMA SwitchedValuesDiffer ==
    ASSUME NEW m \in 1..26, NEW n \in 1..26
    PROVE  SwitchedValue[m] # BurstValue[n]
BY DEF SwitchedValue, BurstValue

\* What two rows add up to.
LEMMA PairsOfRows ==
    ASSUME NEW j \in Bits, NEW k \in Bits
    PROVE  /\ SymDiff(Row(j), Row(k)) = {} => j = k
           /\ SymDiff(Row(j), Row(k)) # {8, 7, 4}
<1>1. j + 1 \in 1..26 /\ k + 1 \in 1..26 /\ j + 1 \in 1..51 /\ k + 1 \in 1..51
  BY DEF Bits
<1>2. ASSUME SymDiff(Row(j), Row(k)) = {} PROVE j = k
  <2>1. Row(j) = Row(k)
    BY <1>2 DEF SymDiff
  <2>2. BurstValue[j + 1] = BurstValue[k + 1]
    BY <2>1, RowValues
  <2>3. j + 1 = k + 1
    BY <1>1, <2>2, ValuesDiffer
  <2>. QED  BY <2>3 DEF Bits
<1>3. ASSUME SymDiff(Row(j), Row(k)) = {8, 7, 4} PROVE FALSE
  <2>1. SymDiff(Row(j), {8, 7, 4}) = Row(k)
    BY <1>3, SumsCancel
  <2>2. SwitchedValue[j + 1] = BurstValue[k + 1]
    BY <2>1, RowValues, SwitchedValues
  <2>. QED  BY <1>1, <2>2, SwitchedValuesDiffer
<1>. QED  BY <1>2, <1>3

\* A small error has a syndrome, and not the one that makes a C' of a C.
LEMMA SmallErrorsAreSeen ==
    ASSUME NEW e \in SUBSET Bits, Cardinality(e) <= 2
    PROVE  /\ rds_calculate_syndrome(e) = {} => e = {}
           /\ rds_calculate_syndrome(e) # {8, 7, 4}
<1>1. \A k \in Bits : Row(k) # {} /\ Row(k) # {8, 7, 4}
  BY Rows DEF Bits
<1>2. IsFiniteSet(e) /\ Cardinality(e) \in Nat
  BY WordsAreFinite, FS_CardinalityType
<1>3. CASE e = {}
  <2>1. \A b : {k \in {} : b \in Row(k)} = {}
    OBVIOUS
  <2>2. ~Odd({})
    <3>1. Cardinality({}) = 0
      BY FS_EmptySet
    <3>. QED  BY <3>1 DEF Odd
  <2>3. rds_calculate_syndrome({}) = {}
    BY <2>1, <2>2, SyndromeByRows
  <2>. QED  BY <1>3, <2>3
<1>4. CASE e # {}
  <2>1. PICK j \in e : TRUE
    BY <1>4
  <2>2. IsFiniteSet(e \ {j}) /\ Cardinality(e \ {j}) = Cardinality(e) - 1
    BY <1>2, <2>1, FS_RemoveElement
  <2>3. CASE e \ {j} = {}
    <3>1. e = {j} /\ j \in Bits
      BY <2>1, <2>3
    <3>. QED  BY <3>1, <1>1, RowsAreSyndromes
  <2>4. CASE e \ {j} # {}
    <3>1. PICK k \in e \ {j} : TRUE
      BY <2>4
    <3>2. /\ IsFiniteSet((e \ {j}) \ {k})
          /\ Cardinality((e \ {j}) \ {k}) = Cardinality(e \ {j}) - 1
      BY <2>2, <3>1, FS_RemoveElement
    <3>3. Cardinality((e \ {j}) \ {k}) \in Nat
      BY <3>2, FS_CardinalityType
    <3>4. Cardinality((e \ {j}) \ {k}) = 0
      BY <1>2, <2>2, <3>2, <3>3
    <3>5. (e \ {j}) \ {k} = {}
      BY <3>2, <3>4, FS_EmptySet
    <3>6. e = {j, k} /\ j # k /\ j \in Bits /\ k \in Bits
      BY <2>1, <3>1, <3>5
    <3>7. rds_calculate_syndrome(e) = SymDiff(Row(j), Row(k))
      BY <3>6, TwoBits
    <3>. QED  BY <3>6, <3>7, PairsOfRows
  <2>. QED  BY <2>3, <2>4
<1>. QED  BY <1>3, <1>4

LEMMA RawSyndrome ==
    ASSUME BlockIsSent
    PROVE  /\ raw_block \in SUBSET Bits
           /\ rds_calculate_syndrome(raw_block)
                = SymDiff(OffsetSyndrome[sent_offset], rds_calculate_syndrome(error))
BY SyndromesAddUp DEF raw_block, BlockIsSent

\* The table finds the error, and nothing else.
LEMMA BurstIsFound ==
    ASSUME BlockIsSent, error \in Burst, sent_offset = expected_offset
    PROVE  rds_correct_burst_errors(raw_block, expected_offset)
             = [corrected_bits |-> sent, corrected_bit_count |-> Cardinality(error),
                succeeded |-> TRUE]
<1>. DEFINE found == {n \in DOMAIN Bursts :
                        BurstSyndromes[expected_offset][n] = rds_calculate_syndrome(raw_block)}
<1>1. DOMAIN Bursts = 1..52 /\ expected_offset \in Offsets
  BY DEF Bursts, BlockIsSent
<1>2. ASSUME NEW n \in 1..52
      PROVE  BurstSyndromes[expected_offset][n] = rds_calculate_syndrome(raw_block)
               <=> Bursts[n] = error
  <2>1. BurstSyndromes[expected_offset][n]
          = rds_calculate_syndrome(SymDiff(Bursts[n], OffsetWord[expected_offset]))
    BY <1>1 DEF BurstSyndromes
  <2>2. rds_calculate_syndrome(SymDiff(Bursts[n], OffsetWord[expected_offset]))
          = SymDiff(rds_calculate_syndrome(Bursts[n]), OffsetSyndrome[expected_offset])
    BY <1>1, BurstsAtPlaces, OffsetSyndromesFit, SyndromesAddUp
  <2>3. rds_calculate_syndrome(raw_block)
          = SymDiff(OffsetSyndrome[expected_offset], rds_calculate_syndrome(error))
    BY RawSyndrome
  <2>4. BurstSyndromes[expected_offset][n] = rds_calculate_syndrome(raw_block)
          <=> rds_calculate_syndrome(Bursts[n]) = rds_calculate_syndrome(error)
    BY <2>1, <2>2, <2>3, SumsCancel
  <2>5. PICK m \in 1..52 : Bursts[m] = error
    BY BurstsAreInTable
  <2>. QED  BY <2>4, <2>5, BurstsAreTold
<1>3. found \in SUBSET Nat /\ found = {n \in 1..52 : Bursts[n] = error}
  BY <1>1, <1>2
<1>4. PICK n \in found : Cardinality(error) = 1 => n <= 26
  BY <1>3, BurstsAreInTable
<1>. DEFINE first == Min(found)
<1>5. first \in found /\ \A m \in found : first <= m
  <2>. HIDE DEF found
  <2>. QED  BY <1>3, <1>4, LeastExists
<1>6. rds_correct_burst_errors(raw_block, expected_offset)
        = Success(raw_block, Bursts[first], IF first <= 26 THEN 1 ELSE 2)
  BY <1>4 DEF rds_correct_burst_errors
<1>. HIDE DEF found, first
<1>7. first \in 1..52 /\ n \in 1..52 /\ first <= n /\ Bursts[first] = error
  BY <1>3, <1>4, <1>5
<1>8. (IF first <= 26 THEN 1 ELSE 2) = Cardinality(error)
  <2>1. Cardinality(error) \in {1, 2} /\ (first <= 26 => Cardinality(error) = 1)
    BY <1>7, BurstsAreInTable
  <2>2. Cardinality(error) = 1 => first <= 26
    BY <1>4, <1>7
  <2>. QED  BY <2>1, <2>2
<1>9. SymDiff(raw_block, error) = sent
  BY SumsCancel DEF raw_block
<1>. QED  BY <1>6, <1>7, <1>8, <1>9 DEF Success

LEMMA OffsetsAreTold ==
    ASSUME NEW o \in Offsets, NEW p \in Offsets, OffsetSyndrome[o] = OffsetSyndrome[p]
    PROVE  o = p
<1>1. \A b : b \in OffsetSyndrome[o] <=> b \in OffsetSyndrome[p]
  OBVIOUS
<1>. QED  BY <1>1 DEF Offsets, OffsetSyndrome

\* A block recognised as one of a kind has that kind's syndrome, and the other way round.
LEMMA OffsetForIsKind ==
    ASSUME NEW syndrome
    PROVE  /\ OffsetFor(syndrome) \in Offsets => OffsetSyndrome[OffsetFor(syndrome)] = syndrome
           /\ \A o \in Offsets : syndrome = OffsetSyndrome[o] => OffsetFor(syndrome) = o
<1>1. "invalid" \notin Offsets
  BY DEF Offsets
<1>2. ASSUME \E o \in Offsets : OffsetSyndrome[o] = syndrome
      PROVE  OffsetFor(syndrome) \in Offsets /\ OffsetSyndrome[OffsetFor(syndrome)] = syndrome
  BY <1>2 DEF OffsetFor
<1>3. ASSUME ~\E o \in Offsets : OffsetSyndrome[o] = syndrome
      PROVE  OffsetFor(syndrome) = "invalid"
  BY <1>3 DEF OffsetFor
<1>4. ASSUME NEW o \in Offsets, syndrome = OffsetSyndrome[o] PROVE OffsetFor(syndrome) = o
  BY <1>2, <1>4, OffsetsAreTold
<1>. QED  BY <1>1, <1>2, <1>3, <1>4

LEMMA BlockInit == Init => BlockInvariant
<1>. SUFFICES ASSUME Init PROVE BlockInvariant
  OBVIOUS
<1>1. sent_offset \in Offsets /\ expected_offset \in Offsets /\ expected_offset # "C2"
  BY DEF Init, Sendable, Offsets
<1>2. PICK data \in Datas : sent = Transmitted(data, sent_offset)
  BY DEF Init
<1>3. data \in SUBSET (0..15) /\ error \in SUBSET Bits
  BY WordsAssumption DEF Init
<1>4. BlockIsSent
  BY <1>1, <1>2, <1>3, TransmittedFits DEF Init, BlockIsSent
<1>. QED  BY <1>4 DEF Init, BlockInvariant, NoticedOK, RepairOK

\* What may follow from a syndrome that RecogniseBlock takes.
LEMMA RecognisedAsExpected ==
    ASSUME BlockIsSent, RecogniseBlock, ~had_errors'
    PROVE  /\ expected_offset' \in Offsets
           /\ \/ sent_offset = expected_offset' /\ rds_calculate_syndrome(error) = {}
              \/ rds_calculate_syndrome(error) = {8, 7, 4}
<1>. DEFINE offset == OffsetFor(rds_calculate_syndrome(raw_block))
<1>1. /\ expected_offset' = ExpectedAfter(offset) /\ offset = expected_offset'
      /\ expected_offset \in Offsets /\ sent_offset \in Offsets
      /\ expected_offset # "C2" /\ sent_offset \in Sendable(expected_offset)
  BY DEF RecogniseBlock, BlockIsSent
<1>. HIDE DEF offset
<1>2. expected_offset' \in Offsets
  BY <1>1 DEF ExpectedAfter, Offsets
<1>3. OffsetSyndrome[expected_offset'] = rds_calculate_syndrome(raw_block)
  BY <1>1, <1>2, OffsetForIsKind DEF offset
<1>4. SymDiff(OffsetSyndrome[sent_offset], rds_calculate_syndrome(error))
        = OffsetSyndrome[expected_offset']
  BY <1>3, RawSyndrome
<1>5. CASE sent_offset = expected_offset'
  BY <1>2, <1>4, <1>5, SumsCancel
<1>6. CASE sent_offset # expected_offset'
  <2>1. sent_offset \in {"C", "C2"} /\ expected_offset' \in {"C", "C2"}
    BY <1>1, <1>6 DEF ExpectedAfter, Sendable
  <2>2. SymDiff(OffsetSyndrome[sent_offset], {8, 7, 4}) = OffsetSyndrome[expected_offset']
    <3>1. SymDiff({9, 6, 4, 3, 2}, {8, 7, 4}) = {9, 8, 7, 6, 3, 2}
      BY DEF SymDiff
    <3>2. SymDiff({9, 8, 7, 6, 3, 2}, {8, 7, 4}) = {9, 6, 4, 3, 2}
      BY DEF SymDiff
    <3>3. OffsetSyndrome["C"] = {9, 6, 4, 3, 2} /\ OffsetSyndrome["C2"] = {9, 8, 7, 6, 3, 2}
      BY DEF OffsetSyndrome
    <3>. QED  BY <1>6, <2>1, <3>1, <3>2, <3>3
  <2>. QED  BY <1>2, <1>4, <2>2, SumsCancel
<1>. QED  BY <1>2, <1>5, <1>6

\* A block that arrived as it was sent is recognised.
LEMMA CleanIsRecognised ==
    ASSUME BlockIsSent, RecogniseBlock, error = {}
    PROVE  ~had_errors' /\ expected_offset' = sent_offset /\ raw_block = sent
<1>1. raw_block = sent
  BY SumsCancel DEF raw_block
<1>2. OffsetFor(rds_calculate_syndrome(raw_block)) = sent_offset
  BY <1>1, OffsetForIsKind DEF BlockIsSent
<1>3. ExpectedAfter(sent_offset) = sent_offset
  BY DEF BlockIsSent, RecogniseBlock, ExpectedAfter, Sendable
<1>. QED  BY <1>1, <1>2, <1>3 DEF RecogniseBlock

\* Of a block other than C' a small error is told from none.
LEMMA BurstIsNoticed ==
    ASSUME BlockIsSent, RecogniseBlock, error \in Burst
    PROVE  had_errors'
<1>1. Cardinality(error) \in {1, 2} /\ error \in SUBSET Bits
  BY BurstsAreInTable
<1>2. error # {} /\ Cardinality(error) <= 2
  BY <1>1 DEF Burst
<1>3. rds_calculate_syndrome(error) # {} /\ rds_calculate_syndrome(error) # {8, 7, 4}
  BY <1>1, <1>2, SmallErrorsAreSeen
<1>. QED  BY <1>3, RecognisedAsExpected

LEMMA BlockNext == BlockInvariant /\ [Next]_vars => BlockInvariant'
<1>. SUFFICES ASSUME BlockInvariant, [Next]_vars PROVE BlockInvariant'
  OBVIOUS
<1>1. BlockIsSent /\ NoticedOK /\ RepairOK
  BY DEF BlockInvariant
<1>2. CASE RecogniseBlock
  <2>1. /\ UNCHANGED <<sent, sent_offset, error, corrected_bits>> /\ stage = "received"
        /\ had_errors' \in BOOLEAN /\ stage' = IF had_errors' THEN "burst" ELSE "taken"
    BY <1>2 DEF RecogniseBlock, blockVars
  <2>2. ASSUME had_errors' PROVE expected_offset' = expected_offset
    BY <1>2, <2>2 DEF RecogniseBlock, ExpectedAfter
  <2>3. BlockIsSent'
    <3>1. CASE had_errors'
      BY <1>1, <2>1, <2>2, <3>1 DEF BlockIsSent, Sendable
    <3>2. CASE ~had_errors'
      BY <1>1, <1>2, <2>1, <3>2, RecognisedAsExpected DEF BlockIsSent
    <3>. QED  BY <3>1, <3>2
  <2>4. NoticedOK'
    BY <1>1, <1>2, <2>1, RecognisedAsExpected DEF NoticedOK
  <2>5. ASSUME error = {}
        PROVE  stage' = "taken" /\ ~had_errors' /\ corrected_bits' = sent
               /\ expected_offset' = sent_offset
    BY <1>1, <1>2, <2>1, <2>5, CleanIsRecognised DEF BlockIsSent
  <2>6. ASSUME error \in Burst PROVE stage' = "burst"
    BY <1>1, <1>2, <2>1, <2>6, BurstIsNoticed
  <2>7. RepairOK'
    BY <2>1, <2>5, <2>6 DEF RepairOK
  <2>. QED  BY <2>3, <2>4, <2>7 DEF BlockInvariant
<1>3. ASSUME NEW correction, NEW otherwise \in {"soft", "lost"}, Take(correction, otherwise),
             stage \in {"burst", "soft"}, had_errors,
             error \in Burst /\ sent_offset # "C2" =>
                 /\ correction.succeeded
                 /\ correction.corrected_bits = sent
                 /\ correction.corrected_bit_count = Cardinality(error)
      PROVE  BlockInvariant'
  <2>1. /\ UNCHANGED <<sent, sent_offset, error, expected_offset, had_errors>>
        /\ stage' = IF correction.succeeded THEN "taken" ELSE otherwise
    BY <1>3 DEF Take, blockVars
  <2>2. BlockIsSent'
    BY <1>1, <1>3, <2>1 DEF BlockIsSent, Sendable
  <2>3. NoticedOK'
    BY <1>3, <2>1 DEF NoticedOK
  <2>4. error # {}
    BY <1>1, <1>3 DEF RepairOK
  <2>5. RepairOK'
    BY <1>3, <2>1, <2>4 DEF RepairOK, Take
  <2>. QED  BY <2>2, <2>3, <2>5 DEF BlockInvariant
<1>4. CASE CorrectBurst
  <2>. DEFINE correction == rds_correct_burst_errors(raw_block, expected_offset)
  <2>1. Take(correction, "soft") /\ stage = "burst" /\ had_errors
    BY <1>1, <1>4 DEF CorrectBurst, NoticedOK
  <2>2. ASSUME error \in Burst, sent_offset # "C2"
        PROVE  /\ correction.succeeded /\ correction.corrected_bits = sent
               /\ correction.corrected_bit_count = Cardinality(error)
    <3>1. sent_offset = expected_offset
      BY <1>1, <2>1, <2>2 DEF BlockIsSent, Sendable
    <3>. QED  BY <1>1, <2>2, <3>1, BurstIsFound
  <2>. HIDE DEF correction
  <2>. QED  BY <1>3, <2>1, <2>2
<1>5. CASE CorrectSoft
  <2>. DEFINE correction == rds_correct_soft_errors(raw_block, expected_offset, weak)
  <2>1. Take(correction, "lost") /\ stage = "soft" /\ had_errors
    BY <1>1, <1>5 DEF CorrectSoft, NoticedOK
  <2>2. ~(error \in Burst /\ sent_offset # "C2")
    BY <1>1, <2>1 DEF RepairOK
  <2>. HIDE DEF correction
  <2>. QED  BY <1>3, <2>1, <2>2
<1>6. CASE UNCHANGED vars
  BY <1>1, <1>6 DEF vars, blockVars, raw_block, Sendable, BlockInvariant, BlockIsSent, NoticedOK, RepairOK
<1>. QED  BY <1>2, <1>4, <1>5, <1>6 DEF Next

\* A block that rds_find_block_in_register takes without correction is as it was sent, and
\* of the kind that was sent, C' and C told apart, or has more than two wrong bits: for
\* every word of data and every error.
THEOREM SmallErrorsAreNoticed == Spec => []ErrorsAreNoticed
<1>1. BlockInvariant => ErrorsAreNoticed
  BY SmallErrorsAreSeen DEF BlockInvariant, BlockIsSent, NoticedOK, ErrorsAreNoticed
<1>. QED  BY <1>1, BlockInit, BlockNext, PTL DEF Spec

\* Every block without an error is taken as it is; of any kind but C', one with a wrong
\* bit or two wrong neighbours is put right by rds_correct_burst_errors and not taken for
\* something else: for every word of data, wherever they are.
THEOREM BurstsAreRepaired == Spec => []BurstIsRepaired
<1>1. BlockInvariant => BurstIsRepaired
  BY DEF BlockInvariant, RepairOK, BurstIsRepaired
<1>. QED  BY <1>1, BlockInit, BlockNext, PTL DEF Spec

-----------------------------------------------------------------------------
(***************************************************************************)
(* The clock.  The half of a window that is all ones wins.                 *)
(***************************************************************************)
Window == 0..(HistoryLength - 1)

\* The places of the window that are of one half.
Half(start) == {i \in Window : i % 2 = start}

LEMMA HalvesAreFinite ==
    ASSUME NEW start
    PROVE  IsFiniteSet(Half(start))
<1>1. IsFiniteSet(Window)
  BY ClockAssumption, FS_Interval DEF Window
<1>. QED  BY <1>1, FS_Subset DEF Half

\* Every place has a neighbour, with which it makes a pair.
LEMMA HalvesAreAsLong ==
    Cardinality(Half(0)) = Cardinality(Half(1))
<1>. DEFINE next == [i \in Half(0) |-> i + 1]
<1>1. HistoryLength \in Nat \ {0} /\ HistoryLength % 2 = 0
  BY ClockAssumption
<1>2. \A i \in Half(0) : i + 1 \in Half(1)
  <2>. SUFFICES ASSUME NEW i \in Half(0) PROVE i + 1 \in Half(1)
    OBVIOUS
  <2>1. i \in 0..(HistoryLength - 1) /\ i % 2 = 0
    BY DEF Half, Window
  <2>2. i + 1 < HistoryLength /\ (i + 1) % 2 = 1
    BY <1>1, <2>1
  <2>. QED  BY <1>1, <2>1, <2>2 DEF Half, Window
<1>3. \A j \in Half(1) : j - 1 \in Half(0) /\ (j - 1) + 1 = j
  <2>. SUFFICES ASSUME NEW j \in Half(1) PROVE j - 1 \in Half(0) /\ (j - 1) + 1 = j
    OBVIOUS
  <2>1. j \in 0..(HistoryLength - 1) /\ j % 2 = 1
    BY DEF Half, Window
  <2>2. j - 1 >= 0 /\ (j - 1) % 2 = 0
    BY <1>1, <2>1
  <2>. QED  BY <1>1, <2>1, <2>2 DEF Half, Window
<1>4. \A i, j \in Half(0) : i + 1 = j + 1 => i = j
  BY DEF Half, Window
<1>5. next \in [Half(0) -> Half(1)]
  BY <1>2
<1>6. \A i, j \in Half(0) : next[i] = next[j] => i = j
  BY <1>4
<1>7. \A j \in Half(1) : \E i \in Half(0) : next[i] = j
  BY <1>3
<1>. HIDE DEF next
<1>8. next \in Bijection(Half(0), Half(1))
  BY <1>5, <1>6, <1>7 DEF Bijection, Injection, Surjection, IsInjective
<1>. DEFINE S == Half(0)
            T == Half(1)
<1>9. ExistsBijection(S, T) /\ IsFiniteSet(S)
  BY <1>8, HalvesAreFinite DEF ExistsBijection
<1>. HIDE DEF S, T
<1>10. Cardinality(S) = Cardinality(T)
  BY <1>9, FS_Bijection
<1>. QED  BY <1>10 DEF S, T

\* A half that is all ones is as strong as it can be, and stronger than one that is not.
LEMMA FullHalfIsStronger ==
    ASSUME NEW of, NEW a \in {0, 1}, NEW b \in {0, 1}, a # b,
           \A i \in Half(a) : of[i] = 1
    PROVE  /\ Sum(of, a) \in Nat /\ Sum(of, b) \in Nat
           /\ Sum(of, b) <= Sum(of, a)
           /\ (\E i \in Half(b) : of[i] = 0) => Sum(of, b) < Sum(of, a)
           /\ (\A i \in Half(b) : of[i] = 1) => Sum(of, b) = Sum(of, a)
<1>. DEFINE ones(start) == {i \in Window : i % 2 = start /\ of[i] = 1}
<1>1. Sum(of, a) = Cardinality(ones(a)) /\ Sum(of, b) = Cardinality(ones(b))
  BY DEF Sum, Window
<1>2. ones(a) = Half(a)
  BY DEF Half
<1>3. ones(b) \subseteq Half(b)
  BY DEF Half
<1>4. IsFiniteSet(Half(a)) /\ IsFiniteSet(Half(b)) /\ Cardinality(Half(a)) = Cardinality(Half(b))
  BY HalvesAreFinite, HalvesAreAsLong
<1>5. (\E i \in Half(b) : of[i] = 0) => ones(b) # Half(b)
  OBVIOUS
<1>6. (\A i \in Half(b) : of[i] = 1) => ones(b) = Half(b)
  BY DEF Half
<1>. HIDE DEF ones
<1>7. /\ IsFiniteSet(ones(b)) /\ Cardinality(ones(b)) <= Cardinality(Half(b))
      /\ Cardinality(ones(b)) = Cardinality(Half(b)) => ones(b) = Half(b)
  BY <1>3, <1>4, FS_Subset
<1>8. Cardinality(ones(b)) \in Nat /\ Cardinality(Half(a)) \in Nat /\ Cardinality(Half(b)) \in Nat
  BY <1>4, <1>7, FS_CardinalityType
<1>. QED  BY <1>1, <1>2, <1>4, <1>5, <1>6, <1>7, <1>8

-----------------------------------------------------------------------------
(***************************************************************************)
(* The invariant.  Of a window without a fault so far: the symbol before   *)
(* is the one sent last, the differences within a bit are of amplitude 1,  *)
(* and one across two bits is 0 exactly if the second bit is a one.  Once  *)
(* such a window is full, the polarity is that of the bits, and from the   *)
(* first bit that was decoded since the bit before is known.               *)
(***************************************************************************)
Flipped(symbol) == IF inverted THEN -symbol ELSE symbol

\* The symbol sent last.
LastSent == IF half = 2 THEN level ELSE -level

\* The next difference is within a bit exactly if half = 2; so place i is within one.
IsWithin(i) == (i % 2 = biphase_clock % 2) <=> half = 2

\* The level of the last bit that was sent with both its symbols.
LevelBefore == IF half = 2 /\ bit = 1 THEN -level ELSE level

NumbersOK ==
    /\ level \in {1, -1} /\ half \in {1, 2} /\ bit \in {0, 1}
    /\ prev_symbol \in {-1, 0, 1}
    /\ biphase_clock \in Window /\ biphase_clock_polarity \in {0, 1}
    /\ DOMAIN biphase_clock_history = Window
    /\ steady \in 0..2

FlagsOK ==
    /\ inverted \in BOOLEAN /\ have_prev_symbol \in BOOLEAN
    /\ prev_biphase_bit \in BOOLEAN /\ have_prev_biphase_bit \in BOOLEAN
    /\ clean \in BOOLEAN /\ seen \in BOOLEAN /\ settled \in BOOLEAN

FirstSymbolOK ==
    IF have_prev_symbol THEN prev_symbol # 0 ELSE biphase_clock = 0 /\ ~seen /\ ~settled

ClockTypeOK == NumbersOK /\ FlagsOK /\ FirstSymbolOK

WindowIsClean ==
    clean =>
        /\ have_prev_symbol => prev_symbol = Flipped(LastSent)
        /\ \A i \in Window : i < biphase_clock =>
              IF IsWithin(i) THEN biphase_clock_history[i] = 1
              ELSE biphase_clock_history[i] \in {0, 1}
        /\ seen <=> \E i \in Window : /\ i < biphase_clock /\ ~IsWithin(i)
                                     /\ biphase_clock_history[i] = 0

\* The demodulator takes a difference for a bit exactly if it is within one.
PolarityIsRight == biphase_clock % 2 = biphase_clock_polarity <=> half = 2

BitsAreKnown ==
    /\ settled => clean /\ PolarityIsRight
    /\ steady > 0 => /\ settled /\ have_prev_biphase_bit
                     /\ prev_biphase_bit <=> Flipped(-LevelBefore) = 1
    /\ steady = 2 => AsSent

ClockInvariant == ClockTypeOK /\ WindowIsClean /\ BitsAreKnown

LEMMA InitClock == ClockInit => ClockInvariant
<1>. SUFFICES ASSUME ClockInit PROVE ClockInvariant
  OBVIOUS
<1>1. 0 \in Window
  BY ClockAssumption DEF Window
<1>2. ClockTypeOK
  <2>1. NumbersOK
    BY <1>1 DEF ClockInit, NumbersOK, Empty, Window
  <2>2. FlagsOK /\ FirstSymbolOK
    BY Zenon DEF ClockInit, FlagsOK, FirstSymbolOK
  <2>. QED  BY <2>1, <2>2 DEF ClockTypeOK
<1>3. \A i \in Window : ~(i < 0)
  BY DEF Window
<1>4. WindowIsClean
  BY <1>3 DEF ClockInit, WindowIsClean
<1>5. BitsAreKnown
  BY DEF ClockInit, BitsAreKnown
<1>. QED  BY <1>2, <1>4, <1>5 DEF ClockInvariant

\* What the demodulator makes of any symbol.
LEMMA ProcessKeepsType ==
    ASSUME ClockTypeOK, NEW symbol \in {1, -1}, rds_demod_process_symbol_sample(symbol)
    PROVE  /\ have_prev_symbol' = TRUE /\ prev_symbol' = symbol
           /\ biphase_clock' \in Window /\ biphase_clock_polarity' \in {0, 1}
           /\ DOMAIN biphase_clock_history' = Window
           /\ prev_biphase_bit' \in BOOLEAN /\ have_prev_biphase_bit' \in BOOLEAN
<1>. DEFINE difference == (symbol - prev_symbol) \div 2
            amplitudes == [biphase_clock_history EXCEPT ![biphase_clock] = Abs(difference)]
<1>1. DOMAIN amplitudes = Window /\ DOMAIN Empty = Window
  BY DEF ClockTypeOK, NumbersOK, Empty, Window
<1>2. PolarityAfter(amplitudes) \in {0, 1}
  BY DEF PolarityAfter, ClockTypeOK, NumbersOK
<1>3. 0 \in Window /\ (biphase_clock + 1 # HistoryLength => biphase_clock + 1 \in Window)
  BY ClockAssumption DEF ClockTypeOK, NumbersOK, Window
<1>. HIDE DEF amplitudes
<1>4. CASE ~have_prev_symbol
  BY <1>4 DEF rds_demod_process_symbol_sample, ClockTypeOK, NumbersOK, FlagsOK
<1>5. CASE have_prev_symbol
  <2>1. /\ have_prev_symbol' = TRUE /\ prev_symbol' = symbol
        /\ biphase_clock' = IF biphase_clock + 1 = HistoryLength THEN 0 ELSE biphase_clock + 1
        /\ biphase_clock_history' = IF biphase_clock + 1 = HistoryLength THEN Empty ELSE amplitudes
        /\ biphase_clock_polarity' = IF biphase_clock + 1 = HistoryLength
                                     THEN PolarityAfter(amplitudes) ELSE biphase_clock_polarity
    BY <1>5 DEF rds_demod_process_symbol_sample, amplitudes
  <2>2. prev_biphase_bit' \in BOOLEAN /\ have_prev_biphase_bit' \in BOOLEAN
    <3>1. /\ prev_biphase_bit' = IF biphase_clock % 2 = biphase_clock_polarity
                                  THEN difference >= 0 ELSE prev_biphase_bit
          /\ have_prev_biphase_bit'
                = (biphase_clock % 2 = biphase_clock_polarity \/ have_prev_biphase_bit)
      BY <1>5 DEF rds_demod_process_symbol_sample
    <3>2. (difference >= 0) \in BOOLEAN /\ prev_biphase_bit \in BOOLEAN
      BY DEF ClockTypeOK, FlagsOK
    <3>. HIDE DEF difference
    <3>. QED  BY <3>1, <3>2, Zenon
  <2>. QED  BY <1>1, <1>2, <1>3, <2>1, <2>2 DEF ClockTypeOK, NumbersOK
<1>. QED  BY <1>4, <1>5 DEF ClockTypeOK, FlagsOK

LEMMA SendKeepsType ==
    ASSUME ClockTypeOK, NEW b \in {0, 1}, SendSymbol(b), inverted' \in BOOLEAN
    PROVE  /\ level' \in {1, -1} /\ half' \in {1, 2} /\ bit' \in {0, 1}
           /\ half' # half
           /\ SymbolSent \in {1, -1} /\ Flip(SymbolSent) \in {1, -1}
           /\ -Flip(SymbolSent) \in {1, -1}
BY DEF ClockTypeOK, NumbersOK, SendSymbol, SymbolSent, Flip

\* Whatever faults do, what they leave is not relied upon.
LEMMA FaultStep ==
    ASSUME ClockInvariant, Invert \/ ReceiveWrong \/ MissSymbol \/ RepeatSymbol
    PROVE  ClockInvariant'
<1>1. ClockTypeOK
  BY DEF ClockInvariant
<1>2. ASSUME NEW symbol \in {1, -1}, rds_demod_process_symbol_sample(symbol),
             FollowWindow(TRUE, FALSE),
             level' \in {1, -1}, half' \in {1, 2}, bit' \in {0, 1}, inverted' \in BOOLEAN
      PROVE  ClockInvariant'
  <2>1. /\ have_prev_symbol' = TRUE /\ prev_symbol' = symbol
        /\ biphase_clock' \in Window /\ biphase_clock_polarity' \in {0, 1}
        /\ DOMAIN biphase_clock_history' = Window
        /\ prev_biphase_bit' \in BOOLEAN /\ have_prev_biphase_bit' \in BOOLEAN
    BY <1>1, <1>2, ProcessKeepsType
  <2>2. /\ clean' = FALSE /\ settled' = FALSE /\ steady' = 0 /\ seen' \in BOOLEAN
    BY <1>1, <1>2 DEF FollowWindow, ClockTypeOK, FlagsOK
  <2>3. ClockTypeOK'
    <3>1. NumbersOK'
      BY <1>2, <2>1, <2>2 DEF NumbersOK
    <3>2. FlagsOK'
      BY <1>2, <2>1, <2>2, Zenon DEF FlagsOK
    <3>3. FirstSymbolOK'
      BY <2>1 DEF FirstSymbolOK
    <3>. QED  BY <3>1, <3>2, <3>3 DEF ClockTypeOK
  <2>4. WindowIsClean' /\ BitsAreKnown'
    BY <2>2 DEF WindowIsClean, BitsAreKnown
  <2>. QED  BY <2>3, <2>4 DEF ClockInvariant
<1>3. CASE Invert
  <2>1. inverted' \in BOOLEAN
    BY <1>1, <1>3 DEF Invert, ClockTypeOK, FlagsOK
  <2>. QED  BY <1>1, <1>2, <1>3, <2>1, SendKeepsType DEF Invert
<1>4. CASE ReceiveWrong
  <2>1. inverted' \in BOOLEAN
    BY <1>1, <1>4 DEF ReceiveWrong, ClockTypeOK, FlagsOK
  <2>. QED  BY <1>1, <1>2, <1>4, <2>1, SendKeepsType DEF ReceiveWrong
<1>5. CASE MissSymbol
  <2>1. inverted' \in BOOLEAN
    BY <1>1, <1>5 DEF MissSymbol, ClockTypeOK, FlagsOK
  <2>2. level' \in {1, -1} /\ half' \in {1, 2} /\ bit' \in {0, 1}
    BY <1>1, <1>5, <2>1, SendKeepsType DEF MissSymbol
  <2>3. clean' = FALSE /\ settled' = FALSE /\ steady' = 0
    BY <1>5 DEF MissSymbol
  <2>4. ClockTypeOK'
    <3>1. UNCHANGED <<phaseVars, seen>>
      BY <1>5 DEF MissSymbol
    <3>2. NumbersOK'
      BY <1>1, <2>2, <2>3, <3>1 DEF phaseVars, ClockTypeOK, NumbersOK
    <3>3. FlagsOK'
      BY <1>1, <2>1, <2>3, <3>1, Zenon DEF phaseVars, ClockTypeOK, FlagsOK
    <3>4. FirstSymbolOK'
      BY <1>1, <2>3, <3>1, Zenon DEF phaseVars, ClockTypeOK, FirstSymbolOK
    <3>. QED  BY <3>2, <3>3, <3>4 DEF ClockTypeOK
  <2>5. WindowIsClean' /\ BitsAreKnown'
    BY <2>3 DEF WindowIsClean, BitsAreKnown
  <2>. QED  BY <2>4, <2>5 DEF ClockInvariant
<1>6. CASE RepeatSymbol
  <2>1. prev_symbol \in {1, -1}
    BY <1>1, <1>6 DEF RepeatSymbol, ClockTypeOK, NumbersOK, FirstSymbolOK
  <2>2. /\ rds_demod_process_symbol_sample(prev_symbol) /\ FollowWindow(TRUE, FALSE)
        /\ level' \in {1, -1} /\ half' \in {1, 2} /\ bit' \in {0, 1} /\ inverted' \in BOOLEAN
    BY <1>1, <1>6 DEF RepeatSymbol, transmitterVars, ClockTypeOK, NumbersOK, FlagsOK
  <2>. QED  BY <1>2, <2>1, <2>2
<1>. QED  BY <1>3, <1>4, <1>5, <1>6

\* The difference of a symbol and the one before, both as they were sent, tells whether a
\* bit is within them; and it keeps the places of the bits where they are.
LEMMA SymbolsAsSent ==
    ASSUME ClockInvariant, NEW b \in {0, 1}, Receive(b)
    PROVE  /\ Flip(SymbolSent) = Flipped(LastSent)'
           /\ clean /\ have_prev_symbol =>
                LET difference == (Flip(SymbolSent) - prev_symbol) \div 2
                IN  /\ half = 2 => Abs(difference) = 1 /\ (difference >= 0 <=> Flipped(-level) = 1)
                    /\ half = 1 => Abs(difference) = 1 - b
<1>1. /\ level \in {1, -1} /\ half \in {1, 2} /\ inverted \in BOOLEAN
      /\ inverted' = inverted /\ SendSymbol(b)
  BY DEF ClockInvariant, ClockTypeOK, NumbersOK, FlagsOK, Receive, channelVars
<1>2. SymbolSent = LastSent'
  BY <1>1 DEF SendSymbol, SymbolSent, LastSent
<1>3. Flip(SymbolSent) = Flipped(LastSent)'
  BY <1>1, <1>2 DEF Flip, Flipped
<1>4. SymbolSent = IF half = 2 THEN -level ELSE IF b = 1 THEN -level ELSE level
  BY <1>1 DEF SendSymbol, SymbolSent
<1>5. ASSUME clean, have_prev_symbol
      PROVE  prev_symbol = Flipped(IF half = 2 THEN level ELSE -level)
  BY <1>5 DEF ClockInvariant, WindowIsClean, LastSent
<1>6. Flip(SymbolSent) = IF inverted THEN -SymbolSent ELSE SymbolSent
  BY <1>1 DEF Flip
<1>. QED  BY <1>1, <1>3, <1>4, <1>5, <1>6 DEF Flipped, Abs

\* The two halves change places with every symbol, and with the end of the window.
LEMMA PlacesKeepTheirHalf ==
    ASSUME ClockInvariant, NEW b \in {0, 1}, Receive(b), have_prev_symbol
    PROVE  /\ half' # half /\ half' \in {1, 2}
           /\ biphase_clock' % 2 = 1 - (biphase_clock % 2)
           /\ \A i \in Window : IsWithin(i)' <=> IsWithin(i)
<1>1. /\ half \in {1, 2} /\ biphase_clock \in Window /\ HistoryLength \in Nat \ {0}
      /\ HistoryLength % 2 = 0 /\ SendSymbol(b)
  BY ClockAssumption DEF ClockInvariant, ClockTypeOK, NumbersOK, Receive
<1>2. half' # half /\ half' \in {1, 2}
  BY <1>1 DEF SendSymbol
<1>3. biphase_clock' = IF biphase_clock + 1 = HistoryLength THEN 0 ELSE biphase_clock + 1
  BY DEF Receive, rds_demod_process_symbol_sample
<1>4. biphase_clock' % 2 = 1 - (biphase_clock % 2)
  BY <1>1, <1>3 DEF Window
<1>5. \A i \in Window : i % 2 \in {0, 1}
  BY <1>1 DEF Window
<1>6. biphase_clock % 2 \in {0, 1}
  BY <1>1, <1>5
<1>7. \A i \in Window : IsWithin(i)' <=> IsWithin(i)
  <2>. TAKE i \in Window
  <2>. DEFINE place == i % 2
              clock == biphase_clock % 2
  <2>1. place \in {0, 1} /\ clock \in {0, 1} /\ biphase_clock' % 2 = 1 - clock
    BY <1>4, <1>5, <1>6
  <2>. HIDE DEF place, clock
  <2>2. (place = 1 - clock <=> half' = 2) <=> (place = clock <=> half = 2)
    BY <1>1, <1>2, <2>1
  <2>. QED  BY <2>1, <2>2 DEF IsWithin, place, clock
<1>. QED  BY <1>2, <1>4, <1>7

\* The window with the amplitude of the difference to a symbol.
WindowWith(symbol) ==
    [biphase_clock_history EXCEPT ![biphase_clock] = Abs((symbol - prev_symbol) \div 2)]

\* What is known of the window when it ends with the first symbol of a bit b, or the
\* second of any.
IsCleanWith(of, b) ==
    /\ \A i \in Window : i < biphase_clock + 1 =>
          IF IsWithin(i) THEN of[i] = 1 ELSE of[i] \in {0, 1}
    /\ seen \/ (half = 1 /\ b = 1)
          <=> \E i \in Window : i < biphase_clock + 1 /\ ~IsWithin(i) /\ of[i] = 0

\* The parity of the places that are within bits.
BitHalf == IF half = 2 THEN biphase_clock % 2 ELSE 1 - (biphase_clock % 2)

LEMMA BitHalfIsWithin ==
    ASSUME ClockTypeOK
    PROVE  /\ BitHalf \in {0, 1}
           /\ \A i \in Window : IsWithin(i) <=> i % 2 = BitHalf
<1>1. half \in {1, 2} /\ \A i \in Window : i % 2 \in {0, 1}
  BY ClockAssumption DEF ClockTypeOK, NumbersOK, Window
<1>2. biphase_clock % 2 \in {0, 1}
  BY <1>1 DEF ClockTypeOK, NumbersOK
<1>3. BitHalf \in {0, 1}
  BY <1>2 DEF BitHalf
<1>4. ASSUME NEW i \in Window PROVE IsWithin(i) <=> i % 2 = BitHalf
  <2>. DEFINE place == i % 2
              clock == biphase_clock % 2
  <2>1. place \in {0, 1} /\ clock \in {0, 1}
    BY <1>1, <1>2
  <2>2. /\ IsWithin(i) <=> (place = clock <=> half = 2)
        /\ BitHalf = IF half = 2 THEN clock ELSE 1 - clock
    BY DEF IsWithin, BitHalf
  <2>. HIDE DEF place, clock
  <2>3. IsWithin(i) <=> place = BitHalf
    BY <1>1, <2>1, <2>2
  <2>. QED  BY <2>3 DEF place
<1>. QED  BY <1>3, <1>4

\* A full window without a fault: with a one in it the bits' half wins, and without one
\* the polarity stays as it is.
LEMMA PolarityOfCleanWindow ==
    ASSUME ClockTypeOK, NEW of,
           \A i \in Window : IF IsWithin(i) THEN of[i] = 1 ELSE of[i] \in {0, 1}
    PROVE  /\ (\E i \in Window : ~IsWithin(i) /\ of[i] = 0) => PolarityAfter(of) = BitHalf
           /\ biphase_clock_polarity = BitHalf => PolarityAfter(of) = BitHalf
<1>. DEFINE other == 1 - BitHalf
<1>1. BitHalf \in {0, 1} /\ other \in {0, 1} /\ BitHalf # other
  BY BitHalfIsWithin
<1>2. \A i \in Half(BitHalf) : of[i] = 1
  BY BitHalfIsWithin DEF Half
<1>3. ASSUME NEW i \in Window, ~IsWithin(i) PROVE i \in Half(other)
  <2>1. i % 2 # BitHalf /\ i % 2 \in {0, 1}
    BY <1>3, BitHalfIsWithin, ClockAssumption DEF Window
  <2>. QED  BY <1>1, <2>1 DEF Half
<1>. HIDE DEF other
<1>4. /\ Sum(of, BitHalf) \in Nat /\ Sum(of, other) \in Nat
      /\ Sum(of, other) <= Sum(of, BitHalf)
      /\ (\E i \in Half(other) : of[i] = 0) => Sum(of, other) < Sum(of, BitHalf)
  BY <1>1, <1>2, FullHalfIsStronger
<1>5. (\E i \in Window : ~IsWithin(i) /\ of[i] = 0) => Sum(of, other) < Sum(of, BitHalf)
  BY <1>3, <1>4
<1>6. biphase_clock_polarity \in {0, 1}
  BY DEF ClockTypeOK, NumbersOK
<1>7. CASE BitHalf = 0 /\ other = 1
  BY <1>4, <1>5, <1>6, <1>7 DEF PolarityAfter
<1>8. CASE BitHalf = 1 /\ other = 0
  BY <1>4, <1>5, <1>6, <1>8 DEF PolarityAfter
<1>. QED  BY <1>1, <1>7, <1>8

LEMMA WindowStaysClean ==
    ASSUME ClockInvariant, NEW b \in {0, 1}, Receive(b), have_prev_symbol, clean
    PROVE  IsCleanWith(WindowWith(Flip(SymbolSent)), b)
<1>. DEFINE amplitude == Abs((Flip(SymbolSent) - prev_symbol) \div 2)
            of == WindowWith(Flip(SymbolSent))
<1>1. half \in {1, 2} /\ biphase_clock \in Window /\ DOMAIN biphase_clock_history = Window
  BY DEF ClockInvariant, ClockTypeOK, NumbersOK
<1>2. amplitude = IF half = 2 THEN 1 ELSE 1 - b
  BY <1>1, SymbolsAsSent
<1>3. of[biphase_clock] = amplitude /\ \A i \in Window : i # biphase_clock => of[i] = biphase_clock_history[i]
  BY <1>1 DEF WindowWith
<1>4. \A i \in Window : i < biphase_clock + 1 <=> i < biphase_clock \/ i = biphase_clock
  BY <1>1, ClockAssumption DEF Window
<1>5. ~(biphase_clock < biphase_clock)
  BY <1>1 DEF Window
<1>6. IsWithin(biphase_clock) <=> half = 2
  BY DEF IsWithin
<1>7. /\ \A i \in Window : i < biphase_clock =>
            IF IsWithin(i) THEN biphase_clock_history[i] = 1
            ELSE biphase_clock_history[i] \in {0, 1}
      /\ seen <=> \E i \in Window : /\ i < biphase_clock /\ ~IsWithin(i)
                                    /\ biphase_clock_history[i] = 0
  BY DEF ClockInvariant, WindowIsClean
<1>. HIDE DEF amplitude, of
<1>8. amplitude \in {0, 1} /\ (half = 2 => amplitude = 1) /\ (amplitude = 0 <=> half = 1 /\ b = 1)
  BY <1>1, <1>2
<1>9. ASSUME NEW i \in Window, i < biphase_clock + 1
      PROVE  IF IsWithin(i) THEN of[i] = 1 ELSE of[i] \in {0, 1}
  <2>1. CASE i = biphase_clock
    BY <2>1, <1>3, <1>6, <1>8
  <2>2. CASE i # biphase_clock
    BY <2>2, <1>3, <1>4, <1>7, <1>9
  <2>. QED  BY <2>1, <2>2
<1>10. ASSUME seen \/ (half = 1 /\ b = 1)
       PROVE  \E i \in Window : i < biphase_clock + 1 /\ ~IsWithin(i) /\ of[i] = 0
  <2>1. CASE seen
    <3>1. PICK i \in Window : i < biphase_clock /\ ~IsWithin(i) /\ biphase_clock_history[i] = 0
      BY <2>1, <1>7
    <3>2. i # biphase_clock
      BY <3>1, <1>5
    <3>. QED  BY <3>1, <3>2, <1>3, <1>4
  <2>2. CASE half = 1 /\ b = 1
    BY <2>2, <1>1, <1>3, <1>4, <1>6, <1>8
  <2>. QED  BY <1>10, <2>1, <2>2
<1>11. ASSUME NEW i \in Window, i < biphase_clock + 1, ~IsWithin(i), of[i] = 0
       PROVE  seen \/ (half = 1 /\ b = 1)
  <2>1. CASE i = biphase_clock
    BY <2>1, <1>3, <1>8, <1>11
  <2>2. CASE i # biphase_clock
    BY <2>2, <1>3, <1>4, <1>7, <1>11
  <2>. QED  BY <2>1, <2>2
<1>12. IsCleanWith(of, b)
  BY <1>9, <1>10, <1>11 DEF IsCleanWith
<1>. QED  BY <1>12 DEF of

LEMMA WindowStep ==
    ASSUME ClockInvariant, NEW b \in {0, 1}, Receive(b), have_prev_symbol
    PROVE  /\ seen' \in BOOLEAN /\ settled' \in BOOLEAN /\ clean' \in BOOLEAN
           /\ WindowIsClean'
           /\ settled' => clean' /\ PolarityIsRight'
<1>. DEFINE of == WindowWith(Flip(SymbolSent))
            full == biphase_clock + 1 = HistoryLength
            one == half = 1 /\ b = 1
<1>1. /\ biphase_clock \in Window /\ half \in {1, 2} /\ biphase_clock_polarity \in {0, 1}
      /\ clean \in BOOLEAN /\ seen \in BOOLEAN /\ settled \in BOOLEAN
      /\ ClockTypeOK /\ WindowIsClean /\ (settled => clean /\ PolarityIsRight)
  BY DEF ClockInvariant, ClockTypeOK, NumbersOK, FlagsOK, BitsAreKnown
<1>2. /\ clean' = (full \/ clean)
      /\ seen' = (~full /\ (seen \/ one))
      /\ settled' = (settled \/ (full /\ clean /\ (seen \/ one)))
  <2>1. FollowWindow(FALSE, have_prev_symbol /\ half = 1 /\ b = 1)
    BY DEF Receive
  <2>2. /\ clean' = IF full THEN TRUE ELSE clean
        /\ seen' = IF full THEN FALSE ELSE seen \/ one
        /\ settled' = (settled \/ (full /\ clean /\ (seen \/ one)))
    BY <2>1, <1>1 DEF FollowWindow
  <2>. QED  BY <2>2, <1>1
<1>3. /\ prev_symbol' = Flip(SymbolSent)
      /\ biphase_clock' = IF full THEN 0 ELSE biphase_clock + 1
      /\ biphase_clock_history' = IF full THEN Empty ELSE of
      /\ biphase_clock_polarity' = IF full THEN PolarityAfter(of) ELSE biphase_clock_polarity
  BY DEF Receive, rds_demod_process_symbol_sample, WindowWith
<1>4. /\ half' # half /\ half' \in {1, 2}
      /\ biphase_clock' % 2 = 1 - (biphase_clock % 2)
      /\ \A i \in Window : IsWithin(i)' <=> IsWithin(i)
  BY PlacesKeepTheirHalf
<1>5. prev_symbol' = Flipped(LastSent)'
  BY <1>3, SymbolsAsSent
<1>6. clean => IsCleanWith(of, b)
  BY WindowStaysClean
<1>7. biphase_clock % 2 \in {0, 1}
  BY <1>1, ClockAssumption DEF Window
<1>8. (biphase_clock' % 2 = BitHalf) <=> half' = 2
  <2>. DEFINE clock == biphase_clock % 2
  <2>1. biphase_clock' % 2 = 1 - clock /\ clock \in {0, 1} /\ BitHalf = IF half = 2 THEN clock ELSE 1 - clock
    BY <1>4, <1>7 DEF BitHalf
  <2>. HIDE DEF clock
  <2>. QED  BY <2>1, <1>1, <1>4
<1>9. PolarityIsRight <=> biphase_clock_polarity = BitHalf
  <2>. DEFINE clock == biphase_clock % 2
  <2>1. clock \in {0, 1} /\ BitHalf = (IF half = 2 THEN clock ELSE 1 - clock)
        /\ (PolarityIsRight <=> (clock = biphase_clock_polarity <=> half = 2))
    BY <1>7 DEF BitHalf, PolarityIsRight
  <2>. HIDE DEF clock
  <2>. QED  BY <2>1, <1>1
<1>. HIDE DEF of
<1>10. CASE ~full
  <2>1. /\ clean' = clean /\ seen' = (seen \/ one) /\ settled' = settled
        /\ biphase_clock' = biphase_clock + 1 /\ biphase_clock_history' = of
        /\ biphase_clock_polarity' = biphase_clock_polarity
    BY <1>1, <1>2, <1>3, <1>10
  <2>. HIDE DEF full
  <2>2. ASSUME clean
        PROVE  /\ \A i \in Window : i < biphase_clock' =>
                    IF IsWithin(i)' THEN biphase_clock_history'[i] = 1
                    ELSE biphase_clock_history'[i] \in {0, 1}
               /\ seen' <=> \E i \in Window : /\ i < biphase_clock' /\ ~IsWithin(i)'
                                              /\ biphase_clock_history'[i] = 0
    BY <2>1, <2>2, <1>4, <1>6 DEF IsCleanWith
  <2>3. WindowIsClean'
    BY <2>1, <2>2, <1>5 DEF WindowIsClean, Window
  <2>4. settled' => clean' /\ PolarityIsRight'
    BY <2>1, <1>1, <1>8, <1>9 DEF PolarityIsRight
  <2>. QED  BY <2>1, <2>3, <2>4, <1>1
<1>11. CASE full
  <2>1. /\ clean' = TRUE /\ seen' = FALSE /\ (settled' <=> settled \/ (clean /\ (seen \/ one)))
        /\ settled' \in BOOLEAN
        /\ biphase_clock' = 0 /\ biphase_clock_polarity' = PolarityAfter(of)
    BY <1>1, <1>2, <1>3, <1>11
  <2>2. \A i \in Window : ~(i < 0) /\ i < biphase_clock + 1
    BY <1>11, ClockAssumption DEF Window
  <2>. HIDE DEF full
  <2>3. WindowIsClean'
    BY <2>1, <2>2, <1>5 DEF WindowIsClean, Window
  <2>4. ASSUME settled' PROVE PolarityAfter(of) = BitHalf
    <3>1. IsCleanWith(of, b)
      BY <2>1, <2>4, <1>1, <1>6
    <3>2. \A i \in Window : IF IsWithin(i) THEN of[i] = 1 ELSE of[i] \in {0, 1}
      BY <3>1, <2>2 DEF IsCleanWith
    <3>3. seen \/ one => \E i \in Window : ~IsWithin(i) /\ of[i] = 0
      BY <3>1 DEF IsCleanWith
    <3>4. settled => biphase_clock_polarity = BitHalf
      BY <1>1, <1>9
    <3>. HIDE DEF one
    <3>. QED  BY <3>2, <3>3, <3>4, <2>1, <2>4, <1>1, PolarityOfCleanWindow
  <2>5. settled' => clean' /\ PolarityIsRight'
    BY <2>1, <2>4, <1>8 DEF PolarityIsRight
  <2>. QED  BY <2>1, <2>3, <2>5
<1>. QED  BY <1>10, <1>11

\* The bits within the differences that the demodulator takes are the transmitter's.
LEMMA BitsStep ==
    ASSUME ClockInvariant, NEW b \in {0, 1}, Receive(b), have_prev_symbol
    PROVE  /\ steady' \in 0..2
           /\ steady' > 0 => /\ settled' /\ have_prev_biphase_bit'
                             /\ prev_biphase_bit' <=> Flipped(-LevelBefore)' = 1
           /\ steady' = 2 => AsSent'
<1>. DEFINE difference == (Flip(SymbolSent) - prev_symbol) \div 2
            biphase_bit == difference >= 0
            isBit == biphase_clock % 2 = biphase_clock_polarity
<1>1. /\ level \in {1, -1} /\ half \in {1, 2} /\ bit \in {0, 1} /\ steady \in 0..2
      /\ settled \in BOOLEAN /\ inverted \in BOOLEAN /\ clean \in BOOLEAN
      /\ prev_biphase_bit \in BOOLEAN /\ have_prev_biphase_bit \in BOOLEAN
      /\ inverted' = inverted /\ SendSymbol(b)
  BY DEF ClockInvariant, ClockTypeOK, NumbersOK, FlagsOK, Receive, channelVars
<1>2. /\ settled => clean /\ (isBit <=> half = 2)
      /\ steady > 0 => /\ settled /\ have_prev_biphase_bit
                       /\ prev_biphase_bit <=> Flipped(-LevelBefore) = 1
      /\ steady = 2 => AsSent
  BY DEF ClockInvariant, BitsAreKnown, PolarityIsRight
<1>3. /\ settled => settled'
      /\ steady' = IF ~settled THEN 0
                   ELSE IF decoded' # None /\ steady < 2 THEN steady + 1 ELSE steady
  <2>1. FollowWindow(FALSE, have_prev_symbol /\ half = 1 /\ b = 1)
    BY DEF Receive
  <2>. QED  BY <2>1 DEF FollowWindow
<1>4. /\ decoded' = IF isBit /\ have_prev_biphase_bit THEN DecodedBit(biphase_bit) ELSE None
      /\ prev_biphase_bit' = IF isBit THEN biphase_bit ELSE prev_biphase_bit
      /\ have_prev_biphase_bit' = (isBit \/ have_prev_biphase_bit)
  BY DEF Receive, rds_demod_process_symbol_sample
<1>5. settled /\ half = 2 => (biphase_bit <=> Flipped(-level) = 1)
  BY <1>2, SymbolsAsSent
<1>6. biphase_bit \in BOOLEAN /\ isBit \in BOOLEAN
  OBVIOUS
<1>. HIDE DEF difference, biphase_bit, isBit
<1>7. steady' \in 0..2 /\ (steady' > 0 => settled /\ settled')
  BY <1>1, <1>3
<1>8. steady' > 0 => (steady > 0 \/ decoded' # None)
  BY <1>1, <1>3
<1>9. steady' = 2 => steady > 0
  BY <1>1, <1>3
<1>10. CASE settled /\ half = 2
  <2>1. isBit /\ prev_biphase_bit' = biphase_bit /\ have_prev_biphase_bit' = TRUE
    BY <1>2, <1>4, <1>6, <1>10
  <2>2. /\ half' = 1 /\ level' = level /\ bit' = bit
    BY <1>1, <1>10 DEF SendSymbol
  <2>3. Flipped(-LevelBefore)' = Flipped(-level)
    BY <2>2, <1>1 DEF Flipped, LevelBefore
  <2>4. prev_biphase_bit' <=> Flipped(-LevelBefore)' = 1
    BY <2>1, <2>3, <1>5, <1>10
  <2>5. ASSUME steady' = 2 PROVE AsSent'
    <3>1. have_prev_biphase_bit /\ (prev_biphase_bit <=> Flipped(-LevelBefore) = 1)
      BY <2>5, <1>2, <1>9
    <3>2. decoded' = DecodedBit(biphase_bit)
      BY <2>1, <3>1, <1>4
    <3>3. LevelBefore = IF bit = 1 THEN -level ELSE level
      BY <1>10 DEF LevelBefore
    <3>4. Flipped(-LevelBefore) = 1 <=> (Flipped(-level) = 1 <=> bit = 0)
      BY <3>3, <1>1 DEF Flipped
    <3>5. biphase_bit # prev_biphase_bit <=> bit = 1
      BY <3>1, <3>4, <1>1, <1>5, <1>6, <1>10
    <3>6. decoded' = bit
      BY <3>2, <3>5, <1>1 DEF DecodedBit
    <3>. QED  BY <3>6, <2>2 DEF AsSent
  <2>. QED  BY <2>1, <2>4, <2>5, <1>7
<1>11. CASE settled /\ half = 1
  <2>1. ~isBit /\ decoded' = None /\ prev_biphase_bit' = prev_biphase_bit
        /\ have_prev_biphase_bit' = have_prev_biphase_bit
    BY <1>1, <1>2, <1>4, <1>6, <1>11
  <2>2. half' = 2 /\ bit' = b /\ level' = IF b = 1 THEN -level ELSE level
    BY <1>1, <1>11 DEF SendSymbol
  <2>3. LevelBefore' = level /\ LevelBefore = level
    BY <2>2, <1>1, <1>11 DEF LevelBefore
  <2>4. Flipped(-LevelBefore)' = Flipped(-LevelBefore)
    BY <2>3, <1>1 DEF Flipped
  <2>5. steady' > 0 => steady > 0
    BY <2>1, <1>8
  <2>6. AsSent'
    BY <2>1, <2>2 DEF AsSent
  <2>. QED  BY <2>1, <2>4, <2>5, <2>6, <1>2, <1>7
<1>12. CASE ~settled
  BY <1>3, <1>12
<1>. QED  BY <1>1, <1>10, <1>11, <1>12

LEMMA ReceiveStep ==
    ASSUME ClockInvariant, NEW b \in {0, 1}, Receive(b)
    PROVE  ClockInvariant'
<1>1. /\ ClockTypeOK /\ SendSymbol(b) /\ inverted' = inverted /\ inverted' \in BOOLEAN
      /\ rds_demod_process_symbol_sample(Flip(SymbolSent))
      /\ FollowWindow(FALSE, have_prev_symbol /\ half = 1 /\ b = 1)
  BY DEF ClockInvariant, ClockTypeOK, FlagsOK, Receive, channelVars
<1>2. /\ level' \in {1, -1} /\ half' \in {1, 2} /\ bit' \in {0, 1}
      /\ Flip(SymbolSent) \in {1, -1}
  BY <1>1, SendKeepsType
<1>3. /\ have_prev_symbol' = TRUE /\ prev_symbol' = Flip(SymbolSent)
      /\ biphase_clock' \in Window /\ biphase_clock_polarity' \in {0, 1}
      /\ DOMAIN biphase_clock_history' = Window
      /\ prev_biphase_bit' \in BOOLEAN /\ have_prev_biphase_bit' \in BOOLEAN
  BY <1>1, <1>2, ProcessKeepsType
<1>4. /\ seen' \in BOOLEAN /\ settled' \in BOOLEAN /\ clean' \in BOOLEAN
      /\ steady' \in 0..2 /\ WindowIsClean' /\ BitsAreKnown'
  <2>1. CASE have_prev_symbol
    <3>1. /\ seen' \in BOOLEAN /\ settled' \in BOOLEAN /\ clean' \in BOOLEAN
          /\ WindowIsClean' /\ (settled' => clean' /\ PolarityIsRight')
      BY <2>1, WindowStep
    <3>2. /\ steady' \in 0..2
          /\ steady' > 0 => /\ settled' /\ have_prev_biphase_bit'
                            /\ prev_biphase_bit' <=> Flipped(-LevelBefore)' = 1
          /\ steady' = 2 => AsSent'
      BY <2>1, BitsStep
    <3>. QED  BY <3>1, <3>2 DEF BitsAreKnown
  <2>2. CASE ~have_prev_symbol
    <3>1. biphase_clock = 0 /\ ~seen /\ ~settled /\ clean \in BOOLEAN
      BY <2>2, <1>1 DEF ClockTypeOK, FirstSymbolOK, FlagsOK
    <3>2. biphase_clock' = 0
      BY <3>1, <2>2, <1>1 DEF rds_demod_process_symbol_sample
    <3>3. seen' = FALSE /\ settled' = FALSE /\ steady' = 0 /\ clean' = clean
      BY <3>1, <2>2, <1>1 DEF FollowWindow
    <3>4. prev_symbol' = Flipped(LastSent)'
      BY <1>3, SymbolsAsSent
    <3>5. \A i \in Window : ~(i < 0)
      BY DEF Window
    <3>6. WindowIsClean'
      BY <3>2, <3>3, <3>4, <3>5 DEF WindowIsClean, Window
    <3>7. BitsAreKnown'
      BY <3>3 DEF BitsAreKnown
    <3>8. seen' \in BOOLEAN /\ settled' \in BOOLEAN /\ clean' \in BOOLEAN
      BY <3>1, <3>3, Zenon
    <3>9. steady' \in 0..2
      BY <3>3
    <3>. QED  BY <3>6, <3>7, <3>8, <3>9
  <2>. QED  BY <2>1, <2>2
<1>5. NumbersOK'
  BY <1>2, <1>3, <1>4 DEF NumbersOK
<1>6. FlagsOK'
  BY <1>1, <1>3, <1>4, Zenon DEF FlagsOK
<1>7. FirstSymbolOK'
  BY <1>2, <1>3 DEF FirstSymbolOK
<1>. QED  BY <1>4, <1>5, <1>6, <1>7 DEF ClockInvariant, ClockTypeOK

LEMMA NextClock == ClockInvariant /\ [ClockNext]_clockVars => ClockInvariant'
<1>. SUFFICES ASSUME ClockInvariant, [ClockNext]_clockVars PROVE ClockInvariant'
  OBVIOUS
<1>1. CASE ReceiveZero \/ ReceiveOne
  BY <1>1, ReceiveStep DEF ReceiveZero, ReceiveOne
<1>2. CASE Invert \/ ReceiveWrong \/ MissSymbol \/ RepeatSymbol
  BY <1>2, FaultStep
<1>3. CASE UNCHANGED clockVars
  BY <1>3 DEF clockVars, transmitterVars, channelVars, phaseVars, windowVars, ClockInvariant,
     ClockTypeOK, NumbersOK, FlagsOK, FirstSymbolOK, WindowIsClean, BitsAreKnown, PolarityIsRight,
     IsWithin, Flipped, LastSent, LevelBefore, AsSent
<1>. QED  BY <1>1, <1>2, <1>3 DEF ClockNext

\* Once a window with a one in it came through rds_demod_process_symbol_sample without a
\* fault, every bit from the second on is decoded as it was sent and none is left out,
\* whichever way the carrier is locked, until the channel's next fault; for windows of
\* every even length and any number of faults.
THEOREM DecodesWhatWasSent == ClockSpec => []BitsAreAsSent
<1>1. ClockInvariant => BitsAreAsSent
  BY DEF ClockInvariant, BitsAreKnown, BitsAreAsSent
<1>. QED  BY <1>1, InitClock, NextClock, PTL DEF ClockSpec
=============================================================================
