-------------------------- MODULE AllocationProofs --------------------------
(* Proofs about CIDRClaim, for any claims, blocks and sizes, about the CNI    *)
(* server, for any templates, and about the controllers that make claims.     *)
EXTENDS MCAllocation, FiniteSetTheorems, WellFoundedInduction, TLAPS

-----------------------------------------------------------------------------
(* Powers of two *)

(* A non-empty set of numbers has a least element.                                        *)
LEMMA LeastOf ==
    ASSUME NEW T, T \subseteq Nat, T # {}
    PROVE  \E m \in T : \A n \in T : m <= n
<1>1. \E m \in T : \A n \in T : ~ (<<n, m>> \in OpToRel(<, Nat))
  BY NatLessThanWellFounded, WFMin
<1>2. PICK m \in T : \A n \in T : ~ (<<n, m>> \in OpToRel(<, Nat))
  BY <1>1
<1>3. ASSUME NEW n \in T, n < m PROVE FALSE
  <2>1. <<n, m>> \in Nat \X Nat /\ <<n, m>>[1] < <<n, m>>[2]
    BY <1>3
  <2> QED
    BY <1>2, <2>1 DEF OpToRel
<1>4. ASSUME NEW n \in T PROVE m <= n
  <2>1. m \in Nat /\ n \in Nat
    OBVIOUS
  <2> QED
    BY <1>3, <2>1
<1> QED
  BY <1>4

(* The powers of two: 2^n is the number of subsets of n elements, and there are twice as  *)
(* many of n + 1.                                                                         *)
LEMMA PowerZero == 2^0 = 1
<1>1. SUBSET {} = {{}}
  OBVIOUS
<1>2. Cardinality(SUBSET {}) = 2^0
  BY FS_EmptySet, FS_SUBSET
<1>3. Cardinality({{}}) = 1
  BY FS_Singleton
<1> QED
  BY <1>1, <1>2, <1>3

LEMMA PowerNext ==
    ASSUME NEW n \in Nat
    PROVE  2^n \in Nat /\ 2^(n + 1) = 2^n + 2^n
<1> DEFINE old == SUBSET (1..n)
           with(X) == X \cup {n + 1}
           new == {with(X) : X \in old}
<1>1. IsFiniteSet(1..n) /\ Cardinality(1..n) = n
  BY FS_Interval
<1>2. IsFiniteSet(1..(n + 1)) /\ Cardinality(1..(n + 1)) = n + 1
  BY FS_Interval
<1>3. IsFiniteSet(old) /\ Cardinality(old) = 2^n
  BY <1>1, FS_SUBSET
<1>4. Cardinality(SUBSET (1..(n + 1))) = 2^(n + 1)
  BY <1>2, FS_SUBSET
<1>5. IsFiniteSet(new) /\ Cardinality(new) = Cardinality(old)
  <2> DEFINE f == [X \in old |-> with(X)]
  <2>1. ASSUME NEW X \in old, NEW Y \in old, with(X) = with(Y) PROVE X = Y
    <3>1. n + 1 \notin X /\ n + 1 \notin Y
      OBVIOUS
    <3> QED
      BY <2>1, <3>1
  <2>2. f \in Bijection(old, new)
    <3>1. f \in [old -> new] /\ \A Y \in new : \E X \in old : f[X] = Y
      OBVIOUS
    <3>2. \A X, Y \in old : f[X] = f[Y] => X = Y
      BY <2>1
    <3> QED
      BY <3>1, <3>2 DEF Bijection, Injection, Surjection, IsInjective
  <2>3. ExistsBijection(old, new)
    BY <2>2 DEF ExistsBijection
  <2> HIDE DEF old, new
  <2> QED
    BY <1>3, <2>3, FS_Bijection
<1>6. SUBSET (1..(n + 1)) = old \cup new
  <2>1. ASSUME NEW X \in SUBSET (1..(n + 1)) PROVE X \in old \cup new
    <3>1. CASE n + 1 \in X
      <4>1. X \ {n + 1} \in old /\ X = with(X \ {n + 1})
        BY <3>1
      <4> QED
        BY <4>1
    <3>2. CASE n + 1 \notin X
      BY <3>2
    <3> QED
      BY <3>1, <3>2
  <2>2. ASSUME NEW X \in old PROVE X \subseteq 1..(n + 1) /\ with(X) \subseteq 1..(n + 1)
    <3>1. 1..n \subseteq 1..(n + 1) /\ n + 1 \in 1..(n + 1)
      OBVIOUS
    <3> QED
      BY <3>1
  <2>3. ASSUME NEW Y \in new PROVE Y \in SUBSET (1..(n + 1))
    <3>1. PICK X \in old : Y = with(X)
      OBVIOUS
    <3> QED
      BY <2>2, <3>1
  <2>4. old \subseteq SUBSET (1..(n + 1))
    BY <2>2
  <2> HIDE DEF old, new
  <2> QED
    BY <2>1, <2>3, <2>4
<1>7. old \cap new = {}
  OBVIOUS
<1>8. Cardinality(old \cup new) = Cardinality(old) + Cardinality(old)
  <2>1. Cardinality(old \cap new) = 0
    BY <1>7, FS_EmptySet
  <2>2. Cardinality(old) \in Nat
    BY <1>3, FS_CardinalityType
  <2>3. Cardinality(old \cup new) = Cardinality(old) + Cardinality(new) - Cardinality(old \cap new)
    <3> HIDE DEF old, new
    <3> QED
      BY <1>3, <1>5, FS_Union
  <2> HIDE DEF old, new
  <2> QED
    BY <1>5, <2>1, <2>2, <2>3
<1>9. Cardinality(old) \in Nat
  BY <1>3, FS_CardinalityType
<1> HIDE DEF old, new
<1> QED
  BY <1>3, <1>4, <1>6, <1>8, <1>9

(* What holds of 0 and passes from every number to the next holds up to any bound.        *)
LEMMA Upwards ==
    ASSUME NEW T, NEW N \in Nat, 0 \in T, \A n \in 1..N : n - 1 \in T => n \in T
    PROVE  \A n \in 0..N : n \in T
<1> DEFINE B == {n \in 0..N : n \notin T}
<1>1. SUFFICES ASSUME B # {} PROVE FALSE
  OBVIOUS
<1>2. PICK m \in B : \A n \in B : m <= n
  <2>1. B \subseteq Nat
    OBVIOUS
  <2> HIDE DEF B
  <2> QED
    BY <1>1, <2>1, LeastOf
<1>3. m \in 1..N /\ m - 1 \in 0..N /\ m - 1 \notin B
  BY <1>2
<1> QED
  BY <1>2, <1>3

(* A product grows with its first factor.                                                 *)
LEMMA TimesGrows ==
    ASSUME NEW i \in Nat, NEW j \in Nat, i <= j, NEW s \in Nat
    PROVE  i * s <= j * s /\ (i + 1) * s = i * s + s /\ i * s \in Nat
<1>1. PICK d \in Nat : j = i + d
  <2>1. j - i \in Nat /\ j = i + (j - i)
    OBVIOUS
  <2> QED
    BY <2>1
<1>2. j * s = i * s + d * s /\ d * s \in Nat /\ i * s \in Nat
  BY <1>1
<1> QED
  BY <1>2

(* A larger power of two is a multiple of a smaller one.                                  *)
LEMMA PowersDivide ==
    ASSUME NEW a \in Nat, NEW b \in Nat, a <= b
    PROVE  \E m \in Nat : m >= 1 /\ 2^b = m * 2^a
<1> DEFINE T == {d \in Nat : \E m \in Nat : m >= 1 /\ 2^(a + d) = m * 2^a}
<1>1. 0 \in T
  BY PowerNext
<1>2. ASSUME NEW d \in 1..(b - a), d - 1 \in T PROVE d \in T
  <2>1. PICK m \in Nat : m >= 1 /\ 2^(a + (d - 1)) = m * 2^a
    BY <1>2
  <2>2. a + (d - 1) \in Nat /\ a + d = (a + (d - 1)) + 1
    OBVIOUS
  <2>3. 2^(a + d) = 2^(a + (d - 1)) + 2^(a + (d - 1))
    BY <2>2, PowerNext
  <2>4. 2^a \in Nat
    BY PowerNext
  <2>5. m * 2^a + m * 2^a = (m + m) * 2^a /\ m + m \in Nat /\ m + m >= 1
    <3> DEFINE s == 2^a
    <3>1. s \in Nat
      BY <2>4
    <3> HIDE DEF s
    <3> QED
      BY <2>1, <3>1
  <2>6. 2^(a + d) = (m + m) * 2^a
    BY <2>1, <2>3, <2>5
  <2>7. d \in Nat
    OBVIOUS
  <2> QED
    BY <2>5, <2>6, <2>7
<1>3. b - a \in Nat /\ b = a + (b - a)
  OBVIOUS
<1>4. b - a \in T
  <2> HIDE DEF T
  <2>1. \A d \in 0..(b - a) : d \in T
    BY <1>1, <1>2, <1>3, Upwards
  <2> QED
    BY <1>3, <2>1
<1> QED
  BY <1>3, <1>4

(* Powers of two are positive and grow.                                                   *)
LEMMA PowersGrow ==
    ASSUME NEW a \in Nat, NEW b \in Nat
    PROVE  2^a \in Nat /\ 2^a >= 1 /\ (2^a <= 2^b => a <= b)
<1>1. ASSUME NEW n \in Nat PROVE 2^n \in Nat /\ 2^n >= 1
  <2>1. PICK m \in Nat : m >= 1 /\ 2^n = m * 2^0
    <3>1. 0 \in Nat /\ 0 <= n
      OBVIOUS
    <3> QED
      BY <3>1, PowersDivide
  <2>2. 2^n = m * 1
    BY <2>1, PowerZero
  <2> QED
    BY <2>1, <2>2
<1>2. ASSUME b < a PROVE 2^b < 2^a
  <2>1. PICK m \in Nat : m >= 1 /\ 2^a = m * 2^(b + 1)
    <3>1. b + 1 \in Nat /\ b + 1 <= a
      BY <1>2
    <3> QED
      BY <3>1, PowersDivide
  <2>2. 2^(b + 1) = 2^b + 2^b /\ 2^b \in Nat /\ 2^b >= 1 /\ 2^(b + 1) \in Nat
    BY <1>1, PowerNext
  <2> DEFINE s == 2^(b + 1)
  <2>3. s \in Nat /\ 1 \in Nat /\ 1 <= m
    BY <2>1, <2>2
  <2>4. 1 * s <= m * s
    <3> HIDE DEF s
    <3> QED
      BY <2>1, <2>3, TimesGrows
  <2> QED
    BY <2>1, <2>2, <2>4
<1> QED
  BY <1>1, <1>2

-----------------------------------------------------------------------------
(* Blocks of addresses *)

(* A number without remainder is a multiple.                                              *)
LEMMA NoRemainder ==
    ASSUME NEW b \in Nat, NEW s \in Nat, s >= 1, b % s = 0
    PROVE  \E j \in Nat : b = j * s
<1>1. b \div s \in Nat /\ b = (b \div s) * s
  <2>1. b \div s \in Nat
    OBVIOUS
  <2>2. b = s * (b \div s)
    OBVIOUS
  <2> QED
    BY <2>1, <2>2
<1> QED
  BY <1>1

(* A prefix block starts at a multiple of its size.                                       *)
LEMMA BlockIsAligned ==
    ASSUME NEW p \in Prefix
    PROVE  /\ p.base \in Nat /\ p.bits \in 0..AddrBits
           /\ 2^p.bits \in Nat /\ 2^p.bits >= 1
           /\ \E j \in Nat : p.base = j * 2^p.bits
<1>1. /\ p.base \in 0..(2^AddrBits - 1) /\ p.bits \in 0..AddrBits
      /\ p.base % 2^p.bits = 0
  BY DEF Prefix
<1>2. 2^AddrBits \in Nat /\ p.base \in Nat
  BY <1>1, PowersGrow, AddrBitsAssumption
<1> DEFINE s == 2^p.bits
<1>3. s \in Nat /\ s >= 1
  <2>1. p.bits \in Nat
    BY <1>1
  <2> QED
    BY <2>1, PowersGrow
<1>4. \E j \in Nat : p.base = j * s
  <2>1. p.base % s = 0
    BY <1>1
  <2> HIDE DEF s
  <2> QED
    BY <1>2, <1>3, <2>1, NoRemainder
<1> QED
  BY <1>1, <1>2, <1>3, <1>4

(* Two prefix blocks are nested or disjoint.                                              *)
LEMMA NestedOrDisjoint ==
    ASSUME NEW p \in Prefix, NEW q \in Prefix, p.bits <= q.bits
    PROVE  \/ Addrs(p) \subseteq Addrs(q)
           \/ p.base + 2^p.bits <= q.base
           \/ q.base + 2^q.bits <= p.base
<1> DEFINE s == 2^p.bits
           t == 2^q.bits
<1>1. s \in Nat /\ t \in Nat /\ p.base \in Nat /\ q.base \in Nat
  BY BlockIsAligned
<1>2. PICK i \in Nat : p.base = i * s
  BY BlockIsAligned
<1>3. PICK j \in Nat : q.base = j * t
  BY BlockIsAligned
<1>4. PICK m \in Nat : m >= 1 /\ t = m * s
  <2>1. p.bits \in Nat /\ q.bits \in Nat
    BY BlockIsAligned
  <2> QED
    BY <2>1, PowersDivide
<1>5. Addrs(p) = p.base .. (p.base + s - 1) /\ Addrs(q) = q.base .. (q.base + t - 1)
  BY DEF Addrs
<1> SUFFICES \/ Addrs(p) \subseteq Addrs(q)
             \/ p.base + s <= q.base
             \/ q.base + t <= p.base
  OBVIOUS
<1> HIDE DEF s, t
<1> DEFINE u == j * m
<1>6. u \in Nat /\ q.base = u * s /\ q.base + t = (u + m) * s
  <2>1. u \in Nat
    OBVIOUS
  <2>2. j * (m * s) = (j * m) * s
    BY <1>1
  <2>3. (j * m) * s + m * s = ((j * m) + m) * s
    BY <1>1, <2>1
  <2> QED
    BY <1>3, <1>4, <2>1, <2>2, <2>3
<1> HIDE DEF u
<1>7. CASE i < u
  <2>1. i + 1 \in Nat /\ i + 1 <= u
    BY <1>6, <1>7
  <2>2. (i + 1) * s <= u * s
    BY <1>1, <1>6, <2>1, TimesGrows
  <2>3. (i + 1) * s = i * s + s
    BY <1>1
  <2> QED
    BY <1>2, <1>6, <2>2, <2>3
<1>8. CASE u + m <= i
  <2>1. (u + m) * s <= i * s
    <3>1. u + m \in Nat
      BY <1>6
    <3> QED
      BY <1>1, <1>8, <3>1, TimesGrows
  <2> QED
    BY <1>2, <1>6, <2>1
<1>9. CASE u <= i /\ i < u + m
  <2>1. u * s <= i * s
    BY <1>1, <1>6, <1>9, TimesGrows
  <2>2. (i + 1) * s <= (u + m) * s
    <3>1. i + 1 \in Nat /\ u + m \in Nat /\ i + 1 <= u + m
      BY <1>6, <1>9
    <3> QED
      BY <1>1, <3>1, TimesGrows
  <2>3. (i + 1) * s = i * s + s
    BY <1>1
  <2>4. q.base <= p.base /\ p.base + s <= q.base + t
    BY <1>2, <1>6, <2>1, <2>2, <2>3
  <2> QED
    BY <1>1, <1>5, <2>4
<1> QED
  BY <1>6, <1>7, <1>8, <1>9

(* A block within another is no larger, and the same if it is as large.                   *)
LEMMA WithinIsSmaller ==
    ASSUME NEW p \in Prefix, NEW q \in Prefix, Addrs(p) \subseteq Addrs(q)
    PROVE  /\ p.bits <= q.bits
           /\ q.bits <= p.bits => p = q
           /\ q.base <= p.base /\ p.base + 2^p.bits <= q.base + 2^q.bits
<1> DEFINE s == 2^p.bits
           t == 2^q.bits
<1>1. /\ s \in Nat /\ s >= 1 /\ t \in Nat /\ p.base \in Nat /\ q.base \in Nat
      /\ p.bits \in Nat /\ q.bits \in Nat
  BY BlockIsAligned, AddrBitsAssumption
<1>2. q.base <= p.base /\ p.base + s <= q.base + t
  <2>1. p.base .. (p.base + s - 1) \subseteq q.base .. (q.base + t - 1)
    BY DEF Addrs
  <2> HIDE DEF s, t
  <2>2. p.base \in p.base .. (p.base + s - 1) /\ p.base + s - 1 \in p.base .. (p.base + s - 1)
    BY <1>1
  <2> QED
    BY <1>1, <2>1, <2>2
<1>3. s <= t
  <2> HIDE DEF s, t
  <2> QED
    BY <1>1, <1>2
<1>4. p.bits <= q.bits
  BY <1>1, <1>3, PowersGrow
<1>5. ASSUME q.bits <= p.bits PROVE p = q
  <2>1. p.bits = q.bits
    BY <1>1, <1>4, <1>5
  <2>2. s = t
    BY <2>1
  <2>3. p.base = q.base
    <3> HIDE DEF s, t
    <3> QED
      BY <1>1, <1>2, <2>2
  <2>4. p = [base |-> p.base, bits |-> p.bits] /\ q = [base |-> q.base, bits |-> q.bits]
    BY DEF Prefix
  <2> QED
    BY <2>1, <2>3, <2>4
<1> QED
  BY <1>2, <1>4, <1>5

(* The first of a set of blocks.                                                          *)
LEMMA FirstIsLowest ==
    ASSUME NEW S, S \subseteq Prefix, S # {}
    PROVE  First(S) \in S /\ \A q \in S : First(S).base <= q.base
<1> DEFINE T == {p.base : p \in S}
<1>1. T \subseteq Nat /\ T # {}
  BY BlockIsAligned
<1>2. \E m \in T : \A n \in T : m <= n
  <2> HIDE DEF T
  <2> QED
    BY <1>1, LeastOf
<1>3. \E p \in S : \A q \in S : p.base <= q.base
  BY <1>2
<1> QED
  BY <1>3 DEF First

(* A block of free addresses is part of a largest one, one that merging returns.          *)
LEMMA InLargest ==
    ASSUME NEW A, NEW p \in Prefix, Addrs(p) \subseteq A
    PROVE  \E q \in MergeToPrefixBlocks(A) : Addrs(p) \subseteq Addrs(q)
<1> DEFINE over == {q \in Prefix : Addrs(q) \subseteq A /\ Addrs(p) \subseteq Addrs(q)}
           T == {AddrBits - q.bits : q \in over}
<1>1. T \subseteq Nat /\ T # {}
  <2>1. ASSUME NEW q \in over PROVE AddrBits - q.bits \in Nat
    <3>1. q.bits \in 0..AddrBits
      BY BlockIsAligned
    <3> QED
      BY <3>1, AddrBitsAssumption
  <2> QED
    BY <2>1
<1>2. \E m \in T : \A n \in T : m <= n
  <2> HIDE DEF T
  <2> QED
    BY <1>1, LeastOf
<1>3. PICK q \in over : \A r \in over : AddrBits - q.bits <= AddrBits - r.bits
  BY <1>2
<1>4. ASSUME NEW r \in Prefix, Addrs(r) \subseteq A, Addrs(q) \subseteq Addrs(r)
      PROVE  r = q
  <2>1. r \in over
    BY <1>3, <1>4
  <2>2. r.bits \in 0..AddrBits /\ q.bits \in 0..AddrBits
    BY BlockIsAligned
  <2>3. r.bits <= q.bits
    BY <1>3, <2>1, <2>2, AddrBitsAssumption
  <2> QED
    BY <1>4, <2>3, WithinIsSmaller
<1> QED
  BY <1>3, <1>4 DEF MergeToPrefixBlocks

(* The blocks that merging returns.                                                       *)
LEMMA LargestAreApart ==
    ASSUME NEW A, NEW p \in MergeToPrefixBlocks(A), NEW q \in MergeToPrefixBlocks(A), p # q
    PROVE  \/ p.base + 2^p.bits <= q.base
           \/ q.base + 2^q.bits <= p.base
<1>1. /\ p \in Prefix /\ q \in Prefix /\ Addrs(p) \subseteq A /\ Addrs(q) \subseteq A
      /\ ~ Addrs(p) \subseteq Addrs(q) /\ ~ Addrs(q) \subseteq Addrs(p)
  BY DEF MergeToPrefixBlocks
<1>2. p.bits \in Nat /\ q.bits \in Nat
  BY <1>1, BlockIsAligned, AddrBitsAssumption
<1>3. CASE p.bits <= q.bits
  BY <1>1, <1>3, NestedOrDisjoint
<1>4. CASE q.bits <= p.bits
  BY <1>1, <1>4, NestedOrDisjoint
<1> QED
  BY <1>2, <1>3, <1>4

(* Blocks that are apart share no address, and every block has one.                       *)
LEMMA ApartIsDisjoint ==
    ASSUME NEW p \in Prefix, NEW q \in Prefix,
           p.base + 2^p.bits <= q.base \/ q.base + 2^q.bits <= p.base
    PROVE  Disjoint(p, q)
<1> DEFINE s == 2^p.bits
           t == 2^q.bits
<1>1. s \in Nat /\ t \in Nat /\ p.base \in Nat /\ q.base \in Nat
  BY BlockIsAligned
<1>2. Addrs(p) = p.base .. (p.base + s - 1) /\ Addrs(q) = q.base .. (q.base + t - 1)
  BY DEF Addrs
<1>3. p.base + s <= q.base \/ q.base + t <= p.base
  OBVIOUS
<1> HIDE DEF s, t
<1> QED
  BY <1>1, <1>2, <1>3 DEF Disjoint

LEMMA BlockHasItsBase ==
    ASSUME NEW p \in Prefix
    PROVE  p.base \in Addrs(p)
<1> DEFINE s == 2^p.bits
<1>1. s \in Nat /\ s >= 1 /\ p.base \in Nat
  BY BlockIsAligned
<1>2. Addrs(p) = p.base .. (p.base + s - 1)
  BY DEF Addrs
<1> HIDE DEF s
<1> QED
  BY <1>1, <1>2

(* Every address of a block is a block of its own.                                        *)
LEMMA OneAddress ==
    ASSUME NEW p \in Prefix, NEW x \in Addrs(p)
    PROVE  [base |-> x, bits |-> 0] \in Prefix /\ Addrs([base |-> x, bits |-> 0]) = {x}
<1> DEFINE s == 2^p.bits
           all == 2^AddrBits
           one == [base |-> x, bits |-> 0]
<1>1. s \in Nat /\ s >= 1 /\ p.base \in Nat /\ p.bits \in 0..AddrBits /\ all \in Nat
  BY BlockIsAligned, PowersGrow, AddrBitsAssumption
<1>2. PICK j \in Nat : p.base = j * s
  BY BlockIsAligned
<1>3. PICK m \in Nat : all = m * s
  <2>1. p.bits \in Nat /\ p.bits <= AddrBits
    BY <1>1, AddrBitsAssumption
  <2> QED
    BY <2>1, PowersDivide, AddrBitsAssumption
<1>4. x \in p.base .. (p.base + s - 1) /\ p.base \in 0..(all - 1)
  BY DEF Addrs, Prefix
<1>5. x \in 0..(all - 1)
  <2> HIDE DEF s, all
  <2>1. CASE j + 1 <= m
    <3>1. (j + 1) * s <= m * s /\ (j + 1) * s = j * s + s
      BY <1>1, <2>1, TimesGrows
    <3> QED
      BY <1>1, <1>2, <1>3, <1>4, <3>1
  <2>2. CASE m <= j
    <3>1. m * s <= j * s
      BY <1>1, <2>2, TimesGrows
    <3> QED
      BY <1>1, <1>2, <1>3, <1>4, <3>1
  <2> QED
    BY <2>1, <2>2
<1>6. one \in [base : 0..(2^AddrBits - 1), bits : 0..AddrBits]
  BY <1>5, AddrBitsAssumption
<1>7. x \in Int /\ x % 1 = 0
  BY <1>1, <1>5
<1>8. one.base = x /\ one.bits = 0
  OBVIOUS
<1>9. one \in Prefix
  BY <1>6, <1>7, <1>8, PowerZero DEF Prefix
<1>10. Addrs(one) = x .. (x + 1 - 1)
  BY <1>8, PowerZero DEF Addrs
<1> QED
  BY <1>7, <1>9, <1>10

-----------------------------------------------------------------------------
(* The allocator *)

(* FreeBlocks returns the free addresses, each once, in blocks no two of which merge.     *)
LEMMA FreeBlocksAreExact ==
    ASSUME base \in Prefix
    PROVE  FreeBlocksExact
<1> DEFINE free == FreeBlocks(base, used)
<1>1. free = MergeToPrefixBlocks(FreeAddrs)
  BY DEF FreeBlocks, FreeAddrs
<1>2. free \subseteq Prefix /\ \A p \in free : Addrs(p) \subseteq FreeAddrs
  BY <1>1 DEF MergeToPrefixBlocks
<1> HIDE DEF free
<1>3. UNION {Addrs(p) : p \in free} = FreeAddrs
  <2>1. ASSUME NEW x \in FreeAddrs PROVE \E p \in free : x \in Addrs(p)
    <3> DEFINE one == [base |-> x, bits |-> 0]
    <3>1. one \in Prefix /\ Addrs(one) = {x}
      BY OneAddress DEF FreeAddrs
    <3> HIDE DEF one
    <3>2. Addrs(one) \subseteq FreeAddrs
      BY <3>1
    <3>3. \E q \in MergeToPrefixBlocks(FreeAddrs) : Addrs(one) \subseteq Addrs(q)
      BY <3>1, <3>2, InLargest
    <3> QED
      BY <1>1, <3>1, <3>3
  <2> QED
    BY <1>2, <2>1
<1>4. ASSUME NEW p \in free, NEW q \in free, p # q PROVE Disjoint(p, q)
  BY <1>1, <1>2, <1>4, LargestAreApart, ApartIsDisjoint
<1>5. ASSUME NEW p \in free, NEW q \in free, p # q,
             NEW r \in Prefix, Addrs(r) = Addrs(p) \cup Addrs(q)
      PROVE  FALSE
  <2>1. Addrs(r) \subseteq FreeAddrs /\ Addrs(p) \subseteq Addrs(r)
    BY <1>2, <1>5
  <2>2. r = p
    BY <1>1, <2>1 DEF MergeToPrefixBlocks
  <2>3. q.base \in Addrs(q) /\ q.base \in Addrs(p)
    BY <1>2, <1>5, <2>2, BlockHasItsBase
  <2> QED
    BY <1>4, <1>5, <2>3 DEF Disjoint
<1> QED
  BY <1>3, <1>4, <1>5 DEF FreeBlocksExact, free

(* FindSubBlock finds the lowest block of the size among all that are free.               *)
LEMMA FindSubBlockIsLowest == FindSubBlockLowest
<1> SUFFICES ASSUME NEW k \in 0..AddrBits
             PROVE  LET candidates == {p \in Prefix : p.bits = k /\ Addrs(p) \subseteq FreeAddrs}
                        found == FindSubBlock(FreeBlocks(base, used), k)
                    IN  IF candidates = {} THEN found = NoPrefix
                        ELSE found \in candidates /\ \A p \in candidates : found.base <= p.base
  BY DEF FindSubBlockLowest
<1> DEFINE candidates == {p \in Prefix : p.bits = k /\ Addrs(p) \subseteq FreeAddrs}
           free == FreeBlocks(base, used)
           found == FindSubBlock(free, k)
           fit == {b \in free : SubBlocks(b, k) # {}}
<1>1. free = MergeToPrefixBlocks(FreeAddrs)
  BY DEF FreeBlocks, FreeAddrs
<1>2. free \subseteq Prefix /\ \A p \in free : Addrs(p) \subseteq FreeAddrs
  BY <1>1 DEF MergeToPrefixBlocks
<1>3. found = IF fit = {} THEN NoPrefix ELSE First(SubBlocks(First(fit), k))
  BY DEF FindSubBlock
<1>4. ASSUME NEW b \in free, NEW p \in SubBlocks(b, k) PROVE p \in candidates
  BY <1>2, <1>4 DEF SubBlocks
<1>5. ASSUME NEW p \in candidates PROVE \E b \in fit : p \in SubBlocks(b, k)
  <2>1. \E b \in MergeToPrefixBlocks(FreeAddrs) : Addrs(p) \subseteq Addrs(b)
    BY <1>5, InLargest
  <2>2. PICK b \in free : Addrs(p) \subseteq Addrs(b)
    BY <1>1, <2>1
  <2> QED
    BY <1>5, <2>2 DEF SubBlocks
<1> HIDE DEF free, found
<1>6. CASE candidates = {}
  <2>1. fit = {}
    BY <1>4, <1>6
  <2> QED
    BY <1>3, <1>6, <2>1 DEF found, free
<1>7. CASE candidates # {}
  <2>1. fit # {} /\ fit \subseteq Prefix /\ fit \subseteq free
    BY <1>2, <1>5, <1>7
  <2> DEFINE b == First(fit)
             inB == SubBlocks(b, k)
  <2>2. b \in fit /\ \A q \in fit : b.base <= q.base
    <3> HIDE DEF fit
    <3> QED
      BY <2>1, FirstIsLowest
  <2>3. found = First(inB) /\ inB # {} /\ inB \subseteq Prefix
    BY <1>3, <2>1, <2>2 DEF SubBlocks
  <2> HIDE DEF b, fit, candidates
  <2>4. found \in inB /\ \A p \in inB : found.base <= p.base
    <3> HIDE DEF inB
    <3> QED
      BY <2>3, FirstIsLowest
  <2>5. found \in candidates
    BY <1>4, <2>1, <2>2, <2>4
  <2>6. ASSUME NEW p \in candidates PROVE found.base <= p.base
    <3>1. PICK q \in fit : p \in SubBlocks(q, k)
      BY <1>5
    <3>2. CASE q = b
      BY <2>4, <3>1, <3>2
    <3>3. CASE q # b
      <4>1. /\ b.base + 2^b.bits <= q.base \/ q.base + 2^q.bits <= b.base
            /\ b.base <= q.base
        BY <1>1, <2>1, <2>2, <3>3, LargestAreApart
      <4>2. /\ q.base <= p.base
            /\ found.base + 2^found.bits <= b.base + 2^b.bits
        BY <2>1, <2>2, <2>4, <3>1, WithinIsSmaller DEF SubBlocks
      <4>3. /\ 2^q.bits \in Nat /\ 2^q.bits >= 1 /\ 2^b.bits \in Nat
            /\ 2^found.bits \in Nat /\ 2^found.bits >= 1
            /\ q.base \in Nat /\ b.base \in Nat /\ p.base \in Nat /\ found.base \in Nat
        BY <2>1, <2>2, <2>5, BlockIsAligned DEF candidates
      <4> QED
        BY <4>1, <4>2, <4>3
    <3> QED
      BY <3>2, <3>3
  <2> QED
    BY <1>7, <2>5, <2>6 DEF found, free, candidates
<1> QED
  BY <1>6, <1>7 DEF found, free

(* FreeBlocks returns prefix blocks of a block that touch no block in use.    *)
LEMMA FreeBlocksAreFree ==
    ASSUME NEW block, NEW taken, NEW p \in FreeBlocks(block, taken)
    PROVE  /\ p \in Prefix
           /\ Addrs(p) \subseteq Addrs(block)
           /\ \A u \in taken : Addrs(p) \cap Addrs(u) = {}
BY DEF FreeBlocks, MergeToPrefixBlocks

(* FindSubBlock returns part of one of the blocks it is given.                *)
LEMMA FindSubBlockIsInside ==
    ASSUME NEW S, S \subseteq Prefix, NEW k, FindSubBlock(S, k) # NoPrefix
    PROVE  \E p \in S : FindSubBlock(S, k) \in SubBlocks(p, k)
<1> DEFINE fit == {b \in S : SubBlocks(b, k) # {}}
<1>1. fit # {} /\ FindSubBlock(S, k) = First(SubBlocks(First(fit), k))
  BY DEF FindSubBlock
<1>2. First(fit) \in fit
  BY <1>1, FirstIsLowest
<1>3. First(SubBlocks(First(fit), k)) \in SubBlocks(First(fit), k)
  BY <1>2, FirstIsLowest DEF SubBlocks
<1> QED
  BY <1>1, <1>2, <1>3

(* What allocate finds for a claim lies in the block, touches no address another    *)
(* claim holds there, and is not the block's network address.                       *)
LEMMA AllocateFromIsFree ==
    ASSUME NEW objs, NEW c, NEW b \in Blocks, NEW k, HasRoom(objs, c, b, k)
    PROVE  /\ AllocateFrom(objs, c, b, k) \in Prefix
           /\ Addrs(AllocateFrom(objs, c, b, k)) \subseteq Addrs(BlockCIDR[b])
           /\ \A u \in Used(objs, c, b) : Disjoint(AllocateFrom(objs, c, b, k), u)
           /\ AllocateFrom(objs, c, b, k) # NetworkAddress(b)
<1> DEFINE kept == IF k = 0 THEN {NetworkAddress(b)} ELSE {}
           inUse == Used(objs, c, b) \cup kept
           free == FreeBlocks(BlockCIDR[b], inUse)
           r == FindSubBlock(free, k)
<1>1. AllocateFrom(objs, c, b, k) = r /\ r # NoPrefix
  BY DEF HasRoom, AllocateFrom
<1>2. free \subseteq Prefix
  BY FreeBlocksAreFree
<1>3. PICK p \in free : r \in SubBlocks(p, k)
  BY <1>1, <1>2, FindSubBlockIsInside
<1>4. r \in Prefix /\ r.bits = k /\ Addrs(r) \subseteq Addrs(p)
  BY <1>3 DEF SubBlocks
<1>5. Addrs(p) \subseteq Addrs(BlockCIDR[b]) /\ \A u \in inUse : Addrs(p) \cap Addrs(u) = {}
  BY <1>3, FreeBlocksAreFree
<1>6. r # NetworkAddress(b)
  <2> HIDE DEF r, free
  <2>1. CASE k = 0
    <3>1. Addrs(r) \cap Addrs(NetworkAddress(b)) = {}
      BY <1>4, <1>5, <2>1
    <3>2. r.base \in Addrs(r)
      BY <1>4, BlockHasItsBase
    <3> QED
      BY <3>1, <3>2
  <2>2. CASE k # 0
    BY <1>4, <2>2 DEF NetworkAddress
  <2> QED
    BY <2>1, <2>2
<1> QED
  BY <1>1, <1>4, <1>5, <1>6 DEF Disjoint

-----------------------------------------------------------------------------
(* Type correctness *)

(* The constant values of the model have their types.                          *)
LEMMA ConstantTypes ==
    /\ NoStatus \in Status
    /\ Absent \in Object
    /\ Idle \in Worker
    /\ Idle.pc = "idle"
<1>1. NoStatus \in Status
  BY AddrBitsAssumption DEF NoStatus, Status, States
<1>2. Absent \in Object
  BY <1>1, AddrBitsAssumption DEF Absent, Object
<1>3. Idle \in Worker
  BY <1>1, <1>2, CIDRClaimAssumption DEF Idle, Worker
<1> QED
  BY <1>1, <1>2, <1>3 DEF Idle

(* A write to the API server keeps the types of the claims and the events.     *)
LEMMA StoreTypes ==
    ASSUME TypeOK, NEW c \in Claims, NEW o \in Object, Store(c, o)
    PROVE  /\ api' \in [Claims -> Object]
           /\ watch' \in Seq(Events)
<1>1. Event(c, o) \in Events
  BY DEF Event, Events
<1>2. api' \in [Claims -> Object]
  BY DEF TypeOK, Store
<1>3. watch' = watch \/ watch' = Append(watch, Event(c, o))
  BY DEF Store
<1>4. watch \in Seq(Events)
  BY DEF TypeOK
<1> QED
  BY <1>1, <1>2, <1>3, <1>4

(* The status a reconcile writes when it keeps the allocation.                 *)
LEMMA KeepType ==
    ASSUME NEW o \in Object, NEW st \in States
    PROVE  /\ Keep(o, st) \in Status
           /\ Keep(o, st).cidr = o.status.cidr
           /\ Keep(o, st).block = o.status.block
BY DEF Keep, Object, Status

(* A merge patch of statuses is a status.                                      *)
LEMMA MergeType ==
    ASSUME NEW cur \in Status, NEW old \in Status, NEW new \in Status
    PROVE  MergePatch(cur, old, new) \in Status
BY DEF MergePatch, MergeField, Status

(* Users write claims of the right type.                                       *)
LEMMA UserTypes ==
    ASSUME TypeOK, UserNext
    PROVE  TypeOK'
<1> USE DEF TypeOK
<1>1. ASSUME NEW c \in Claims, NEW k \in SizeBits, NEW s \in Selectors, CreateClaim(c, k, s)
      PROVE  TypeOK'
  <2> DEFINE o == [gen |-> 1, sizeBit |-> k, selector |-> s, status |-> NoStatus]
  <2>1. o \in Object
    BY ConstantTypes, CIDRClaimAssumption DEF Object
  <2>2. Store(c, o)
    BY <1>1 DEF CreateClaim
  <2> HIDE DEF o
  <2>3. /\ api' \in [Claims -> Object]
        /\ watch' \in Seq(Events)
    BY <2>1, <2>2, StoreTypes
  <2> QED
    BY <1>1, <2>3 DEF CreateClaim
<1>2. ASSUME NEW c \in Claims, NEW k \in SizeBits, NEW s \in Selectors, UpdateSpec(c, k, s)
      PROVE  TypeOK'
  <2> DEFINE o == [gen |-> api[c].gen + 1, sizeBit |-> k, selector |-> s,
                   status |-> api[c].status]
  <2>1. api[c] \in Object /\ k \in 0..AddrBits /\ s \in (SUBSET Blocks) \cup {InvalidSelector}
    BY CIDRClaimAssumption
  <2>2. o \in Object
    BY <2>1 DEF Object
  <2>3. Store(c, o)
    BY <1>2 DEF UpdateSpec
  <2> HIDE DEF o
  <2>4. /\ api' \in [Claims -> Object]
        /\ watch' \in Seq(Events)
    BY <2>2, <2>3, StoreTypes
  <2> QED
    BY <1>2, <2>4 DEF UpdateSpec
<1>3. ASSUME NEW c \in Claims, DeleteClaim(c) PROVE TypeOK'
  <2>1. /\ api' \in [Claims -> Object]
        /\ watch' \in Seq(Events)
    BY <1>3, ConstantTypes, StoreTypes DEF DeleteClaim
  <2> QED
    BY <1>3, <2>1 DEF DeleteClaim
<1>4. ASSUME NEW b \in Blocks, ToggleBlock(b) PROVE TypeOK'
  BY <1>4 DEF ToggleBlock
<1>5. CASE Restart
  BY <1>5, ConstantTypes DEF Restart
<1> QED
  BY <1>1, <1>2, <1>3, <1>4, <1>5 DEF UserNext

(* The reconciler and the informers keep the types.                            *)
LEMMA ControllerTypes ==
    ASSUME TypeOK, ControllerNext
    PROVE  TypeOK'
<1> USE DEF TypeOK, informer
<1>1. CASE DeliverClaim
  <2>1. Head(watch) \in Events
    BY <1>1 DEF DeliverClaim
  <2>2. Tail(watch) \in Seq(Events)
    BY <1>1 DEF DeliverClaim
  <2>3. cache' \in [Claims -> Object]
    BY <1>1, <2>1 DEF DeliverClaim, Events
  <2> QED
    BY <1>1, <2>1, <2>2, <2>3 DEF DeliverClaim, Events
<1>2. CASE DeliverBlock
  BY <1>2 DEF DeliverBlock
<1>3. ASSUME NEW c \in Claims, TimerFires(c) PROVE TypeOK'
  BY <1>3 DEF TimerFires
<1>4. ASSUME NEW c \in Claims, GetDone(c) PROVE TypeOK'
  BY <1>4 DEF GetDone
<1>5. ASSUME NEW c \in Claims, GetInvalid(c) PROVE TypeOK'
  <2>1. Keep(cache[c], "bindingError") \in Status
    BY KeepType DEF States
  <2>2. worker' \in Worker
    BY <1>5, <2>1, ConstantTypes DEF GetInvalid, Worker
  <2> QED
    BY <1>5, <2>2 DEF GetInvalid
<1>6. ASSUME NEW c \in Claims, GetClaim(c) PROVE TypeOK'
  <2>1. worker' \in Worker
    BY <1>6, ConstantTypes DEF GetClaim, Worker
  <2> QED
    BY <1>6, <2>1 DEF GetClaim
<1>7. CASE ListBlocks
  <2>1. Keep(worker.obj, "ready") \in Status
    BY KeepType DEF States, Worker
  <2>2. worker' \in Worker
    BY <1>7, <2>1 DEF ListBlocks, Worker
  <2> QED
    BY <1>7, <2>2 DEF ListBlocks
<1>8. ASSUME NEW b \in Blocks, Allocate(b) PROVE TypeOK'
  <2> DEFINE c == worker.claim
             k == worker.obj.sizeBit
  <2>1. AllocateFrom(cache, c, b, k) \in Prefix
    BY <1>8, AllocateFromIsFree DEF Allocate
  <2>2. worker' \in Worker
    BY <1>8, <2>1 DEF Allocate, Worker, Object, Status, States
  <2> QED
    BY <1>8, <2>2 DEF Allocate
<1>9. CASE AllocateFails
  <2>1. Keep(worker.obj, "bindingError") \in Status
    BY KeepType DEF States, Worker
  <2>2. worker' \in Worker
    BY <1>9, <2>1 DEF AllocateFails, Worker
  <2> QED
    BY <1>9, <2>2 DEF AllocateFails
<1>10. ASSUME ApplyPatch
       PROVE  /\ api' \in [Claims -> Object]
              /\ watch' \in Seq(Events)
  <2> DEFINE c == worker.claim
             new == MergePatch(api[c].status, worker.obj.status, worker.status)
  <2>1. c \in Claims /\ new \in Status
    BY MergeType DEF Worker, Object
  <2>2. [api[c] EXCEPT !.status = new] \in Object
    BY <2>1 DEF Object
  <2>3. Store(c, [api[c] EXCEPT !.status = new])
    BY <1>10 DEF ApplyPatch
  <2> QED
    BY <2>1, <2>2, <2>3, StoreTypes
<1>11. CASE Patch
  BY <1>10, <1>11, ConstantTypes DEF Patch, Worker
<1>12. CASE PatchAnswerLost
  BY <1>10, <1>12, ConstantTypes DEF PatchAnswerLost, Worker
<1>13. CASE PatchFails
  BY <1>13, ConstantTypes DEF PatchFails, Worker
<1> QED
  BY <1>1, <1>2, <1>3, <1>4, <1>5, <1>6, <1>7, <1>8, <1>9, <1>11, <1>12, <1>13
  DEF ControllerNext, Get

(* Every variable of the control plane keeps its type.                         *)
THEOREM TypeCorrect == Spec => []TypeOK
<1>1. Init => TypeOK
  BY ConstantTypes DEF Init, TypeOK
<1>2. TypeOK /\ [Next]_vars => TypeOK'
  BY UserTypes, ControllerTypes DEF Next, vars, TypeOK
<1> QED
  BY <1>1, <1>2, PTL DEF Spec

-----------------------------------------------------------------------------
(* No overlap, when reads are fresh *)

(* The informer's copy, with the events on their way applied, is what the API   *)
(* server stores.                                                               *)
LastEvent(c, i) ==
    /\ watch[i].claim = c
    /\ \A j \in (i + 1)..Len(watch) : watch[j].claim # c

Sync ==
    \A c \in Claims :
        \/ /\ \A i \in 1..Len(watch) : watch[i].claim # c
           /\ cache[c] = api[c]
        \/ \E i \in 1..Len(watch) : LastEvent(c, i) /\ watch[i].obj = api[c]

(* While a claim is reconciled its status is the one that was read, unless the  *)
(* claim was deleted, or deleted and created again: nobody else writes it.      *)
Seen ==
    worker.pc # "idle" =>
        api[worker.claim].status \in {worker.obj.status, NoStatus}

(* What the reconcile is about to write keeps the allocation it read, or is     *)
(* free in the block it names.                                                  *)
Keeps ==
    /\ worker.status.block = worker.obj.status.block
    /\ worker.status.cidr = worker.obj.status.cidr

Allocates ==
    /\ worker.status.block \in Blocks
    /\ worker.status.cidr \in Prefix
    /\ Addrs(worker.status.cidr) \subseteq Addrs(BlockCIDR[worker.status.block])
    /\ worker.status.cidr # NetworkAddress(worker.status.block)
    /\ \A d \in Claims \ {worker.claim} : Recorded(api[d]) =>
           Disjoint(worker.status.cidr, api[d].status.cidr)

Proposal == worker.pc = "patch" => Keeps \/ Allocates

Inv == Sync /\ Seen /\ Proposal /\ RecordedInBlock /\ NetworkAddressKept /\ NoOverlap

(* A read that is not behind sees what the API server stores.                  *)
LEMMA FreshRead ==
    ASSUME TypeOK, Sync, MaxLag = 0, Len(watch) <= MaxLag, NEW c \in Claims
    PROVE  cache[c] = api[c]
<1>1. Len(watch) = 0
  BY DEF TypeOK
<1> QED
  BY <1>1 DEF Sync

(* A write appends the event that carries it.                                  *)
LEMMA StoreKeepsSync ==
    ASSUME TypeOK, Sync, NEW c \in Claims, NEW o \in Object, Store(c, o), cache' = cache
    PROVE  Sync'
<1>1. CASE o = api[c]
  <2>1. api' = api /\ watch' = watch
    BY <1>1 DEF Store, TypeOK
  <2> QED
    BY <2>1 DEF Sync, LastEvent
<1>2. CASE o # api[c]
  <2>1. /\ watch' = Append(watch, Event(c, o))
        /\ watch \in Seq(Events) /\ Event(c, o) \in Events
    BY <1>2 DEF Store, TypeOK, Event, Events
  <2>2. /\ Len(watch') = Len(watch) + 1 /\ Len(watch) \in Nat
        /\ watch'[Len(watch) + 1] = Event(c, o)
        /\ \A i \in 1..Len(watch) : watch'[i] = watch[i]
    BY <2>1
  <2>3. api' = [api EXCEPT ![c] = o] /\ api'[c] = o
    BY DEF Store, TypeOK
  <2>4. \E i \in 1..Len(watch') : LastEvent(c, i)' /\ watch'[i].obj = api'[c]
    <3> PICK m \in Nat : m = Len(watch) + 1
      BY <2>2
    <3>1. LastEvent(c, m)' /\ watch'[m].obj = api'[c] /\ m \in 1..Len(watch')
      BY <2>2, <2>3 DEF LastEvent, Event
    <3> QED
      BY <3>1
  <2>5. ASSUME NEW d \in Claims, d # c
        PROVE  \/ /\ \A i \in 1..Len(watch') : watch'[i].claim # d
                  /\ cache'[d] = api'[d]
               \/ \E i \in 1..Len(watch') : LastEvent(d, i)' /\ watch'[i].obj = api'[d]
    <3>1. api'[d] = api[d] /\ watch'[Len(watch) + 1].claim # d
      BY <2>2, <2>3, <2>5 DEF Event, TypeOK
    <3>2. CASE /\ \A i \in 1..Len(watch) : watch[i].claim # d
               /\ cache[d] = api[d]
      BY <2>2, <3>1, <3>2
    <3>3. ASSUME NEW i \in 1..Len(watch), LastEvent(d, i), watch[i].obj = api[d]
          PROVE  LastEvent(d, i)' /\ watch'[i].obj = api'[d] /\ i \in 1..Len(watch')
      BY <2>2, <3>1, <3>3 DEF LastEvent
    <3> QED
      BY <3>2, <3>3 DEF Sync
  <2> QED
    BY <2>4, <2>5 DEF Sync
<1> QED
  BY <1>1, <1>2

(* Delivering the oldest event moves it from the stream into the copy.         *)
LEMMA DeliverKeepsSync ==
    ASSUME TypeOK, Sync, DeliverClaim
    PROVE  Sync'
<1> DEFINE e == Head(watch)
           n == Len(watch)
<1>1. /\ watch \in Seq(Events) /\ watch # <<>>
      /\ n \in Nat /\ n >= 1
      /\ e = watch[1] /\ watch' = Tail(watch)
      /\ api' = api
  BY DEF DeliverClaim, TypeOK
<1>2. Len(watch') = n - 1 /\ \A i \in 1..(n - 1) : watch'[i] = watch[i + 1]
  BY <1>1
<1>3. \A c \in Claims : cache'[c] = IF c = e.claim THEN e.obj ELSE cache[c]
  BY DEF DeliverClaim, TypeOK
<1>4. ASSUME NEW c \in Claims
      PROVE  \/ /\ \A i \in 1..Len(watch') : watch'[i].claim # c
                /\ cache'[c] = api'[c]
             \/ \E i \in 1..Len(watch') : LastEvent(c, i)' /\ watch'[i].obj = api'[c]
  <2> HIDE DEF e
  <2>1. CASE /\ \A i \in 1..n : watch[i].claim # c
             /\ cache[c] = api[c]
    <3>1. c # e.claim
      BY <1>1, <2>1
    <3>2. \A i \in 1..(n - 1) : watch'[i].claim # c
      BY <1>1, <1>2, <2>1
    <3> QED
      BY <1>1, <1>2, <1>3, <2>1, <3>1, <3>2
  <2>2. ASSUME NEW i \in 1..n, LastEvent(c, i), watch[i].obj = api[c], i = 1
        PROVE  /\ \A j \in 1..Len(watch') : watch'[j].claim # c
               /\ cache'[c] = api'[c]
    <3>1. c = e.claim /\ e.obj = api[c]
      BY <1>1, <2>2 DEF LastEvent
    <3>2. \A j \in 2..n : watch[j].claim # c
      BY <1>1, <2>2 DEF LastEvent
    <3>3. \A j \in 1..(n - 1) : watch'[j].claim # c
      BY <1>1, <1>2, <3>2
    <3> QED
      BY <1>1, <1>2, <1>3, <3>1, <3>3
  <2>3. ASSUME NEW i \in 1..n, LastEvent(c, i), watch[i].obj = api[c], i # 1
        PROVE  \E j \in 1..Len(watch') : LastEvent(c, j)' /\ watch'[j].obj = api'[c]
    <3>1. i - 1 \in 1..(n - 1) /\ watch'[i - 1] = watch[i]
      BY <1>1, <1>2, <2>3
    <3>2. \A j \in ((i - 1) + 1)..Len(watch') : watch'[j].claim # c
      <4> TAKE j \in ((i - 1) + 1)..Len(watch')
      <4>1. j \in 1..(n - 1) /\ j + 1 \in (i + 1)..n
        BY <1>1, <1>2
      <4> QED
        BY <1>2, <2>3, <4>1 DEF LastEvent
    <3>3. LastEvent(c, i - 1)' /\ watch'[i - 1].obj = api'[c]
      BY <1>1, <2>3, <3>1, <3>2 DEF LastEvent
    <3> QED
      BY <1>2, <3>1, <3>3
  <2> QED
    BY <2>1, <2>2, <2>3 DEF Sync
<1> QED
  BY <1>4 DEF Sync

(* A step that gives no claim a status, and leaves the worker alone, cannot      *)
(* disturb the rest of the invariant: users only ever take statuses away.        *)
LEMMA TakingAwayIsSafe ==
    ASSUME TypeOK, Inv, worker' = worker,
           \A c \in Claims : api'[c].status \in {api[c].status, NoStatus}
    PROVE  (Seen /\ Proposal /\ RecordedInBlock /\ NetworkAddressKept /\ NoOverlap)'
<1>1. \A c \in Claims : Recorded(api'[c]) =>
          Recorded(api[c]) /\ api'[c].status = api[c].status
  <2> SUFFICES ASSUME NEW c \in Claims, Recorded(api'[c])
               PROVE  Recorded(api[c]) /\ api'[c].status = api[c].status
    OBVIOUS
  <2>1. NoStatus.block = NoBlock
    BY DEF NoStatus
  <2>2. api'[c].status # NoStatus
    BY <2>1 DEF Recorded
  <2> QED
    BY <2>2 DEF Recorded
<1>2. worker.claim \in Claims
  BY DEF TypeOK, Worker
<1>3. Seen'
  BY <1>2 DEF Inv, Seen
<1>4. Proposal'
  <2>1. Keeps => Keeps'
    BY DEF Keeps
  <2>2. Allocates => Allocates'
    BY <1>1 DEF Allocates
  <2> QED
    BY <2>1, <2>2 DEF Inv, Proposal
<1>5. RecordedInBlock'
  BY <1>1 DEF Inv, RecordedInBlock
<1>6. NetworkAddressKept'
  BY <1>1 DEF Inv, NetworkAddressKept
<1>7. NoOverlap'
  BY <1>1 DEF Inv, NoOverlap
<1> QED
  BY <1>3, <1>4, <1>5, <1>6, <1>7

(* A step of the worker before its patch.                                        *)
LEMMA ReadingIsSafe ==
    ASSUME Inv, api' = api, watch' = watch, cache' = cache, Seen', Proposal'
    PROVE  Inv'
BY DEF Inv, Sync, LastEvent, RecordedInBlock, NetworkAddressKept, NoOverlap

(* What users and other clients do to claims and blocks keeps the invariant.     *)
LEMMA UsersKeepInv ==
    ASSUME TypeOK, Inv, UserNext
    PROVE  Inv'
<1>1. ASSUME NEW c \in Claims, NEW o \in Object, Store(c, o), worker' = worker,
             cache' = cache, o.status \in {api[c].status, NoStatus}
      PROVE  Inv'
  <2>1. \A d \in Claims : api'[d].status \in {api[d].status, NoStatus}
    BY <1>1 DEF Store, TypeOK
  <2> QED
    BY <1>1, <2>1, StoreKeepsSync, TakingAwayIsSafe DEF Inv
<1>2. ASSUME NEW c \in Claims, NEW k \in SizeBits, NEW s \in Selectors, CreateClaim(c, k, s)
      PROVE  Inv'
  <2> DEFINE o == [gen |-> 1, sizeBit |-> k, selector |-> s, status |-> NoStatus]
  <2>1. o \in Object /\ o.status = NoStatus
    BY ConstantTypes, CIDRClaimAssumption DEF Object
  <2>2. Store(c, o) /\ worker' = worker /\ cache' = cache
    BY <1>2 DEF CreateClaim
  <2> HIDE DEF o
  <2> QED
    BY <1>1, <2>1, <2>2
<1>3. ASSUME NEW c \in Claims, NEW k \in SizeBits, NEW s \in Selectors, UpdateSpec(c, k, s)
      PROVE  Inv'
  <2> DEFINE o == [gen |-> api[c].gen + 1, sizeBit |-> k, selector |-> s,
                   status |-> api[c].status]
  <2>1. api[c] \in Object /\ k \in 0..AddrBits /\ s \in (SUBSET Blocks) \cup {InvalidSelector}
    BY CIDRClaimAssumption DEF TypeOK
  <2>2. o \in Object /\ o.status = api[c].status
    BY <2>1 DEF Object
  <2>3. Store(c, o) /\ worker' = worker /\ cache' = cache
    BY <1>3 DEF UpdateSpec
  <2> HIDE DEF o
  <2> QED
    BY <1>1, <2>2, <2>3
<1>4. ASSUME NEW c \in Claims, DeleteClaim(c) PROVE Inv'
  <2>1. Absent \in Object /\ Absent.status = NoStatus
    BY ConstantTypes DEF Absent
  <2>2. Store(c, Absent) /\ worker' = worker /\ cache' = cache
    BY <1>4 DEF DeleteClaim
  <2> QED
    BY <1>1, <2>1, <2>2
<1>5. ASSUME NEW b \in Blocks, ToggleBlock(b) PROVE Inv'
  <2>1. api' = api /\ watch' = watch /\ cache' = cache /\ worker' = worker
    BY <1>5 DEF ToggleBlock
  <2> QED
    BY <2>1, TakingAwayIsSafe, ReadingIsSafe
<1>6. CASE Restart
  <2>1. api' = api /\ cache' = api /\ Len(watch') = 0 /\ worker'.pc = "idle"
    BY <1>6, ConstantTypes DEF Restart
  <2>2. Sync'
    BY <2>1 DEF Sync
  <2>3. (Seen /\ Proposal)'
    BY <2>1 DEF Seen, Proposal
  <2> QED
    BY <2>1, <2>2, <2>3 DEF Inv, RecordedInBlock, NetworkAddressKept, NoOverlap
<1> QED
  BY <1>2, <1>3, <1>4, <1>5, <1>6 DEF UserNext

(* The patch: only the claim under reconciliation changes, and it ends up with   *)
(* the allocation it had, with the one proposed, or with none.                   *)
LEMMA PatchKeepsInv ==
    ASSUME TypeOK, Inv, ApplyPatch, worker'.pc = "idle", cache' = cache
    PROVE  Inv'
<1> DEFINE c == worker.claim
           cur == api[c].status
           old == worker.obj.status
           new == worker.status
           st == MergePatch(cur, old, new)
           o == [api[c] EXCEPT !.status = st]
<1>1. /\ c \in Claims /\ api[c] \in Object
      /\ cur \in Status /\ old \in Status /\ new \in Status
  BY DEF TypeOK, Worker, Object
<1>2. st \in Status
  BY <1>1, MergeType
<1>3. o \in Object /\ o.status = st
  BY <1>1, <1>2 DEF Object
<1>4. Store(c, o) /\ Exists(api[c]) /\ worker.pc = "patch"
  BY DEF ApplyPatch
<1>5. api' = [api EXCEPT ![c] = o]
  BY <1>4 DEF Store
<1>6. /\ api'[c].status = st
      /\ \A d \in Claims : d # c => api'[d] = api[d]
  BY <1>1, <1>3, <1>5 DEF TypeOK
<1>7. /\ st.block = MergeField(cur.block, old.block, new.block)
      /\ st.cidr = MergeField(cur.cidr, old.cidr, new.cidr)
  BY DEF MergePatch
<1>8. Sync'
  <2> HIDE DEF o
  <2> QED
    BY <1>1, <1>3, <1>4, StoreKeepsSync DEF Inv
<1>9. (Seen /\ Proposal)'
  BY DEF Seen, Proposal
<1>10. cur = old \/ cur = NoStatus
  BY <1>4 DEF Inv, Seen
<1> HIDE DEF st, o, c, cur, old, new
<1>11. CASE Keeps
  <2>1. st.block = cur.block /\ st.cidr = cur.cidr
    BY <1>7, <1>11 DEF Keeps, MergeField, old, new
  <2>2. \A d \in Claims : /\ Recorded(api'[d]) => Recorded(api[d])
                          /\ api'[d].status.cidr = api[d].status.cidr
                          /\ api'[d].status.block = api[d].status.block
    BY <1>6, <2>1 DEF Recorded, cur
  <2>3. RecordedInBlock'
    BY <2>2 DEF Inv, RecordedInBlock
  <2>4. NoOverlap'
    BY <2>2 DEF Inv, NoOverlap
  <2>5. NetworkAddressKept'
    BY <2>2 DEF Inv, NetworkAddressKept
  <2> QED
    BY <1>8, <1>9, <2>3, <2>4, <2>5 DEF Inv
<1>12. CASE Allocates
  <2>1. Recorded(api'[c]) => st.block = new.block /\ st.cidr = new.cidr
    <3>1. CASE cur = old
      BY <1>7, <3>1 DEF MergeField
    <3>2. CASE cur = NoStatus
      <4>1. cur.block = NoBlock /\ cur.cidr = NoPrefix
        BY <3>2 DEF NoStatus
      <4> QED
        BY <1>6, <1>7, <4>1 DEF Recorded, MergeField
    <3> QED
      BY <1>10, <3>1, <3>2
  <2>2. /\ new.block \in Blocks
        /\ Addrs(new.cidr) \subseteq Addrs(BlockCIDR[new.block])
        /\ new.cidr # NetworkAddress(new.block)
        /\ \A d \in Claims \ {c} : Recorded(api[d]) =>
               Disjoint(new.cidr, api[d].status.cidr)
    BY <1>12 DEF Allocates, new, c
  <2>3. RecordedInBlock'
    BY <1>6, <2>1, <2>2 DEF Inv, RecordedInBlock
  <2>4. NoOverlap'
    <3> SUFFICES ASSUME NEW d \in Claims, NEW e \in Claims, d # e,
                        Recorded(api'[d]), Recorded(api'[e])
                 PROVE  Disjoint(api'[d].status.cidr, api'[e].status.cidr)
      BY DEF NoOverlap
    <3>1. CASE d = c
      BY <1>6, <2>1, <2>2, <3>1
    <3>2. CASE e = c
      BY <1>6, <2>1, <2>2, <3>2 DEF Disjoint
    <3>3. CASE d # c /\ e # c
      BY <1>6, <3>3 DEF Inv, NoOverlap
    <3> QED
      BY <3>1, <3>2, <3>3
  <2>5. NetworkAddressKept'
    BY <1>6, <2>1, <2>2 DEF Inv, NetworkAddressKept
  <2> QED
    BY <1>8, <1>9, <2>3, <2>4, <2>5 DEF Inv
<1> QED
  BY <1>4, <1>11, <1>12 DEF Inv, Proposal

(* The allocation is free: the List of claims shows what the API server stores,  *)
(* and claims of other blocks are elsewhere because blocks are disjoint.         *)
LEMMA AllocateProposes ==
    ASSUME TypeOK, Inv, MaxLag = 0, NEW b \in Blocks, Allocate(b)
    PROVE  Allocates'
<1> DEFINE c == worker.claim
           k == worker.obj.sizeBit
           r == AllocateFrom(cache, c, b, k)
<1>1. HasRoom(cache, c, b, k) /\ Len(watch) <= MaxLag /\ api' = api
  BY DEF Allocate
<1>2. /\ r \in Prefix
      /\ Addrs(r) \subseteq Addrs(BlockCIDR[b])
      /\ \A u \in Used(cache, c, b) : Disjoint(r, u)
      /\ r # NetworkAddress(b)
  BY <1>1, AllocateFromIsFree
<1>3. worker'.status.block = b /\ worker'.status.cidr = r /\ worker'.claim = c
  BY DEF Allocate, TypeOK, Worker
<1> HIDE DEF r, c, k
<1>4. ASSUME NEW d \in Claims \ {c}, Recorded(api[d])
      PROVE  Disjoint(r, api[d].status.cidr)
  <2>1. cache[d] = api[d]
    BY <1>1, FreshRead DEF Inv
  <2>2. CASE api[d].status.block = b
    BY <1>2, <1>4, <2>1, <2>2 DEF Used
  <2>3. CASE api[d].status.block # b
    <3>1. api[d].status.block \in Blocks
      BY <1>4 DEF TypeOK, Object, Status, Recorded
    <3>2. Disjoint(BlockCIDR[b], BlockCIDR[api[d].status.block])
      BY <2>3, <3>1, CIDRClaimAssumption
    <3>3. Addrs(api[d].status.cidr) \subseteq Addrs(BlockCIDR[api[d].status.block])
      BY <1>4 DEF Inv, RecordedInBlock
    <3> QED
      BY <1>2, <3>2, <3>3 DEF Disjoint
  <2> QED
    BY <2>2, <2>3
<1> QED
  BY <1>1, <1>2, <1>3, <1>4 DEF Allocates

(* Every step of the reconciler and of the informers keeps the invariant.        *)
LEMMA ControllerKeepsInv ==
    ASSUME TypeOK, Inv, MaxLag = 0, ControllerNext
    PROVE  Inv'
<1> USE DEF informer
<1>1. ASSUME api' = api, watch' = watch, cache' = cache, worker' = worker PROVE Inv'
  BY <1>1, TakingAwayIsSafe, ReadingIsSafe
<1>2. CASE DeliverClaim
  <2>1. api' = api /\ worker' = worker
    BY <1>2 DEF DeliverClaim
  <2> QED
    BY <1>2, <2>1, DeliverKeepsSync, TakingAwayIsSafe DEF Inv
<1>3. CASE DeliverBlock
  BY <1>1, <1>3 DEF DeliverBlock
<1>4. ASSUME NEW c \in Claims, TimerFires(c) PROVE Inv'
  BY <1>1, <1>4 DEF TimerFires
<1>5. ASSUME NEW c \in Claims, GetDone(c) PROVE Inv'
  BY <1>1, <1>5 DEF GetDone
<1>6. ASSUME NEW c \in Claims, GetInvalid(c) PROVE Inv'
  <2>1. cache[c] = api[c] /\ cache[c] \in Object
    BY <1>6, FreshRead DEF GetInvalid, Inv, TypeOK
  <2>2. /\ worker'.claim = c /\ worker'.obj = cache[c]
        /\ worker'.status = Keep(cache[c], "bindingError")
    BY <1>6, ConstantTypes DEF GetInvalid, Worker
  <2>3. api' = api /\ watch' = watch /\ cache' = cache
    BY <1>6 DEF GetInvalid
  <2>4. Seen'
    BY <2>1, <2>2, <2>3 DEF Seen
  <2>5. Proposal'
    BY <2>1, <2>2, KeepType DEF Proposal, Keeps, States
  <2> QED
    BY <2>3, <2>4, <2>5, ReadingIsSafe
<1>7. ASSUME NEW c \in Claims, GetClaim(c) PROVE Inv'
  <2>1. cache[c] = api[c]
    BY <1>7, FreshRead DEF GetClaim, Inv
  <2>2. worker'.claim = c /\ worker'.obj = cache[c] /\ worker'.pc = "blocks"
    BY <1>7, ConstantTypes DEF GetClaim, Worker
  <2>3. api' = api /\ watch' = watch /\ cache' = cache
    BY <1>7 DEF GetClaim
  <2>4. Seen' /\ Proposal'
    BY <2>1, <2>2, <2>3 DEF Seen, Proposal
  <2> QED
    BY <2>3, <2>4, ReadingIsSafe
<1>8. ASSUME worker.pc # "idle", worker'.claim = worker.claim, worker'.obj = worker.obj,
             api' = api, watch' = watch, cache' = cache, Proposal'
      PROVE  Inv'
  <2>1. Seen'
    BY <1>8 DEF Inv, Seen
  <2> QED
    BY <1>8, <2>1, ReadingIsSafe
<1>9. CASE ListBlocks
  <2>1. /\ worker.pc # "idle" /\ worker.obj \in Object
        /\ worker'.claim = worker.claim /\ worker'.obj = worker.obj
        /\ worker'.pc = "patch" => worker'.status = Keep(worker.obj, "ready")
        /\ api' = api /\ watch' = watch /\ cache' = cache
    BY <1>9 DEF ListBlocks, TypeOK, Worker
  <2>2. Proposal'
    BY <2>1, KeepType DEF Proposal, Keeps, States
  <2> QED
    BY <1>8, <2>1, <2>2
<1>10. ASSUME NEW b \in Blocks, Allocate(b) PROVE Inv'
  <2>1. /\ worker.pc # "idle"
        /\ worker'.claim = worker.claim /\ worker'.obj = worker.obj
        /\ api' = api /\ watch' = watch /\ cache' = cache
    BY <1>10 DEF Allocate, TypeOK, Worker
  <2>2. Proposal'
    BY <1>10, AllocateProposes DEF Proposal
  <2> QED
    BY <1>8, <2>1, <2>2
<1>11. CASE AllocateFails
  <2>1. /\ worker.pc # "idle" /\ worker.obj \in Object
        /\ worker'.claim = worker.claim /\ worker'.obj = worker.obj
        /\ worker'.status = Keep(worker.obj, "bindingError")
        /\ api' = api /\ watch' = watch /\ cache' = cache
    BY <1>11 DEF AllocateFails, TypeOK, Worker
  <2>2. Proposal'
    BY <2>1, KeepType DEF Proposal, Keeps, States
  <2> QED
    BY <1>8, <2>1, <2>2
<1>12. CASE Patch
  BY <1>12, PatchKeepsInv, ConstantTypes DEF Patch
<1>13. CASE PatchAnswerLost
  BY <1>13, PatchKeepsInv, ConstantTypes DEF PatchAnswerLost
<1>14. CASE PatchFails
  <2>1. /\ worker'.pc = "idle"
        /\ api' = api /\ watch' = watch /\ cache' = cache
    BY <1>14, ConstantTypes DEF PatchFails
  <2>2. Seen' /\ Proposal'
    BY <2>1 DEF Seen, Proposal
  <2> QED
    BY <2>1, <2>2, ReadingIsSafe
<1> QED
  BY <1>2, <1>3, <1>4, <1>5, <1>6, <1>7, <1>9, <1>10, <1>11, <1>12, <1>13, <1>14
  DEF ControllerNext, Get

(* Inv holds in every reachable state of a controller whose reads are fresh.     *)
THEOREM Invariance == ASSUME MaxLag = 0 PROVE Spec => []Inv
<1>1. Init => Inv
  <2> SUFFICES ASSUME Init PROVE Inv
    OBVIOUS
  <2>1. \A c \in Claims : api[c] = Absent /\ cache[c] = api[c] /\ ~Recorded(Absent)
    BY DEF Init, Recorded, Absent, NoStatus
  <2>2. Sync
    BY <2>1 DEF Init, Sync
  <2>3. Seen /\ Proposal
    BY ConstantTypes DEF Init, Seen, Proposal
  <2> QED
    BY <2>1, <2>2, <2>3 DEF Inv, RecordedInBlock, NetworkAddressKept, NoOverlap
<1>2. TypeOK /\ Inv /\ [Next]_vars => Inv'
  <2> SUFFICES ASSUME TypeOK, Inv, [Next]_vars PROVE Inv'
    OBVIOUS
  <2>1. CASE UNCHANGED vars
    BY <2>1, TakingAwayIsSafe, ReadingIsSafe DEF vars
  <2> QED
    BY <2>1, UsersKeepInv, ControllerKeepsInv DEF Next
<1> QED
  BY <1>1, <1>2, TypeCorrect, PTL DEF Spec

(* With fresh reads no address is ever given to two claims: through users        *)
(* deleting and creating claims under a reconcile, refused and lost patches,     *)
(* retries and restarts.                                                         *)
THEOREM NoOverlapWhenFresh == ASSUME MaxLag = 0 PROVE Spec => []NoOverlap
<1>1. Inv => NoOverlap
  BY DEF Inv
<1> QED
  BY <1>1, Invariance, PTL

(* With fresh reads a claim's CIDR always lies in the block its status names.    *)
THEOREM InBlockWhenFresh == ASSUME MaxLag = 0 PROVE Spec => []RecordedInBlock
<1>1. Inv => RecordedInBlock
  BY DEF Inv
<1> QED
  BY <1>1, Invariance, PTL

(* What is in use of a base block changes as it likes, the base does not.        *)
InputInv == turn = "input" => base \in Prefix

(* The address arithmetic is exact and first fit, for every base and whatever is *)
(* in use, and with fresh reads no claim holds the network address of its block, *)
(* through everything users and the API server do (ipaddrutil.go, and            *)
(* cidrclaim_controller.go's allocate).                                          *)
THEOREM FirstFitHolds == ASSUME MaxLag = 0 PROVE MCSpec => []FirstFit
<1>1. MCInit => Init /\ InputInv
  BY DEF MCInit, InputInv, Bases
<1>2. InputInv /\ [MCNext]_<<turn, vars, inputVars, cniVars>> => [Next]_vars /\ InputInv'
  <2> SUFFICES ASSUME InputInv, [MCNext]_<<turn, vars, inputVars, cniVars>>
               PROVE  [Next]_vars /\ InputInv'
    OBVIOUS
  <2>1. [Next]_vars
    BY DEF MCNext
  <2>2. turn' = turn /\ base' = base
    BY DEF MCNext, ChangeInput, inputVars
  <2> QED
    BY <2>1, <2>2 DEF InputInv
<1>3. InputInv /\ Inv => FirstFit
  BY FreeBlocksAreExact, FindSubBlockIsLowest DEF InputInv, Inv, FirstFit
<1> QED
  BY <1>1, <1>2, <1>3, Invariance, PTL DEF MCSpec, Spec

-----------------------------------------------------------------------------
(* The pool of addresses *)

(* A step writes at most one claim of the API server.                            *)
LEMMA OneClaimMoves ==
    ASSUME TypeOK, [Next]_vars
    PROVE  \E c \in Claims : api' = [api EXCEPT ![c] = api'[c]]
<1>1. \A c \in Claims : \A o : Store(c, o) => api' = [api EXCEPT ![c] = api'[c]]
  BY DEF Store, TypeOK
<1>2. CASE api' = api
  BY <1>2, CIDRClaimAssumption DEF TypeOK
<1>3. CASE UserNext
  BY <1>1, <1>2, <1>3
  DEF UserNext, CreateClaim, UpdateSpec, DeleteClaim, ToggleBlock, Restart
<1>4. CASE Patch \/ PatchAnswerLost
  <2>1. worker.claim \in Claims
    BY DEF TypeOK, Worker
  <2> QED
    BY <1>1, <1>4, <2>1 DEF Patch, PatchAnswerLost, ApplyPatch
<1>5. CASE ControllerNext /\ ~(Patch \/ PatchAnswerLost)
  <2>1. api' = api
    BY <1>5 DEF ControllerNext, Get, DeliverClaim, DeliverBlock, TimerFires, GetDone,
                GetInvalid, GetClaim, ListBlocks, Allocate, AllocateFails, PatchFails
  <2> QED
    BY <1>2, <2>1
<1>6. CASE UNCHANGED vars
  BY <1>2, <1>6 DEF vars
<1> QED
  BY <1>3, <1>4, <1>5, <1>6 DEF Next

(* A write of one claim that leaves no address with two claims is a step of the  *)
(* pool.                                                                         *)
LEMMA WriteIsPoolStep ==
    ASSUME TypeOK, TypeOK', NoOverlap', NEW c \in Claims,
           api' = [api EXCEPT ![c] = api'[c]]
    PROVE  Pool!Next
<1> DEFINE range == Addrs(api'[c].status.cidr)
<1>1. \A d \in Claims \ {c} : api'[d] = api[d]
  BY DEF TypeOK
<1>2. Held' = [Held EXCEPT ![c] = Held'[c]]
  BY <1>1 DEF Held
<1>3. CASE ~Recorded(api'[c])
  <2>1. Held'[c] = {}
    BY <1>3 DEF Held
  <2> QED
    BY <1>2, <2>1 DEF Pool!Next, Pool!Release
<1>4. CASE Recorded(api'[c])
  <2>1. Held'[c] = range
    BY <1>4 DEF Held
  <2>2. range \in Ranges
    <3>1. api'[c].status.cidr \in Prefix
      BY <1>4 DEF TypeOK, Object, Status, Recorded
    <3> QED
      BY <3>1 DEF Ranges
  <2>3. \A d \in Claims \ {c} : Held[d] \cap range = {}
    <3> SUFFICES ASSUME NEW d \in Claims \ {c} PROVE Held[d] \cap range = {}
      OBVIOUS
    <3>1. CASE ~Recorded(api[d])
      BY <3>1 DEF Held
    <3>2. CASE Recorded(api[d])
      BY <1>1, <1>4, <3>2 DEF Held, NoOverlap, Disjoint
    <3> QED
      BY <3>1, <3>2
  <2>4. Pool!Acquire(c, range)
    BY <1>2, <2>1, <2>3 DEF Pool!Acquire
  <2> QED
    BY <2>2, <2>4 DEF Pool!Next
<1> QED
  BY <1>3, <1>4

(* With fresh reads the controller implements the pool of addresses: whatever it *)
(* reads, patches and loses, and whatever users do meanwhile, each step hands one *)
(* claim a range nobody else has an address of, or takes it back.                *)
THEOREM ImplementsPoolWhenFresh == ASSUME MaxLag = 0 PROVE Spec => ImplementsPool
<1>1. Init => Pool!Init
  <2> SUFFICES ASSUME Init PROVE Pool!Init
    OBVIOUS
  <2>1. \A c \in Claims : ~Recorded(api[c])
    BY DEF Init, Recorded, Absent, NoStatus
  <2> QED
    BY <2>1 DEF Pool!Init, Held
<1>2. TypeOK /\ TypeOK' /\ NoOverlap' /\ [Next]_vars => [Pool!Next]_Held
  BY OneClaimMoves, WriteIsPoolStep
<1> QED
  BY <1>1, <1>2, TypeCorrect, NoOverlapWhenFresh, PTL DEF Spec, ImplementsPool, Pool!Spec

-----------------------------------------------------------------------------
(* No claim is forgotten, however far reads are behind *)

InEvents(c) == \E i \in 1..Len(watch) : watch[i].claim = c

(* A reconcile works on what the API server stores, or the claim comes again.   *)
ObjIsKnown ==
    worker.pc # "idle" =>
        \/ worker.claim \in queue \/ InEvents(worker.claim)
        \/ worker.obj = api[worker.claim]

(* What it is about to write leaves the claim done, if it does not ask to be    *)
(* called again.                                                                *)
Finishes(o, st) ==
    /\ st.observed = o.gen
    /\ \/ st.state = "ready"
       \/ st.state = "bindingError" /\ o.selector = InvalidSelector

PatchFinishes ==
    worker.pc = "patch" => worker.requeue \/ Finishes(worker.obj, worker.status)

NoneLost == Sync /\ ObjIsKnown /\ PatchFinishes /\ NoneForgotten

(* A write that changes a claim leaves an event, and takes none away.           *)
LEMMA StoreIsSeen ==
    ASSUME TypeOK, NEW c \in Claims, NEW o \in Object, Store(c, o)
    PROVE  /\ \A d \in Claims : InEvents(d) => InEvents(d)'
           /\ \A d \in Claims : api'[d] = api[d] \/ InEvents(d)'
<1>1. CASE o = api[c]
  <2>1. api' = api /\ watch' = watch
    BY <1>1 DEF Store, TypeOK
  <2> QED
    BY <2>1 DEF InEvents
<1>2. CASE o # api[c]
  <2>1. /\ watch' = Append(watch, Event(c, o))
        /\ watch \in Seq(Events) /\ Event(c, o) \in Events
    BY <1>2 DEF Store, TypeOK, Event, Events
  <2>2. /\ Len(watch') = Len(watch) + 1 /\ Len(watch) \in Nat
        /\ watch'[Len(watch) + 1] = Event(c, o)
        /\ \A i \in 1..Len(watch) : watch'[i] = watch[i]
    BY <2>1
  <2>3. \A d \in Claims : d # c => api'[d] = api[d]
    BY DEF Store, TypeOK
  <2>4. \A d \in Claims : InEvents(d) => InEvents(d)'
    BY <2>2 DEF InEvents
  <2>5. InEvents(c)'
    BY <2>2 DEF InEvents, Event
  <2> QED
    BY <2>3, <2>4, <2>5
<1> QED
  BY <1>1, <1>2

(* An event that is delivered queues its claim.                                 *)
LEMMA DeliveredIsQueued ==
    ASSUME TypeOK, DeliverClaim, NEW c \in Claims, InEvents(c)
    PROVE  InEvents(c)' \/ c \in queue'
<1>1. /\ watch \in Seq(Events) /\ watch # <<>>
      /\ Len(watch) \in Nat /\ Head(watch) = watch[1] /\ watch' = Tail(watch)
  BY DEF DeliverClaim, TypeOK
<1>2. /\ Len(watch') = Len(watch) - 1
      /\ \A i \in 1..(Len(watch) - 1) : watch'[i] = watch[i + 1]
  BY <1>1
<1>3. PICK i \in 1..Len(watch) : watch[i].claim = c
  BY DEF InEvents
<1>4. CASE i = 1
  BY <1>1, <1>3, <1>4 DEF DeliverClaim
<1>5. CASE i # 1
  <2>1. i - 1 \in 1..Len(watch') /\ watch'[i - 1] = watch[i]
    BY <1>1, <1>2, <1>5
  <2> QED
    BY <1>3, <2>1 DEF InEvents
<1> QED
  BY <1>4, <1>5

(* A claim without an event is known as it is stored.                           *)
LEMMA KnownUnlessInEvents ==
    ASSUME Sync, NEW c \in Claims
    PROVE  InEvents(c) \/ cache[c] = api[c]
BY DEF Sync, InEvents, LastEvent

(* A step that leaves the queue and the work under way as they are, or adds to   *)
(* them.                                                                        *)
Adds ==
    /\ \A c \in Claims : c \in queue => c \in queue'
    /\ \A c \in Claims : c \in timers => c \in timers' \/ c \in queue'
    /\ \A c \in Claims : InEvents(c) => InEvents(c)' \/ c \in queue'
    /\ \A c \in Claims : api'[c] = api[c] \/ InEvents(c)'

LEMMA AddingLosesNone ==
    ASSUME TypeOK, NoneLost, Adds,
           worker'.claim = worker.claim, worker'.obj = worker.obj,
           worker'.pc = "idle" <=> worker.pc = "idle"
    PROVE  ObjIsKnown' /\ NoneForgotten'
<1>1. worker.claim \in Claims
  BY DEF TypeOK, Worker
<1>2. ObjIsKnown'
  BY <1>1 DEF NoneLost, ObjIsKnown, Adds
<1>3. ASSUME NEW c \in Claims PROVE Due(c)' \/ Done(api[c])'
  <2>1. Due(c) => Due(c)'
    BY DEF Due, Adds, InEvents
  <2>2. Done(api[c]) => Due(c)' \/ Done(api[c])'
    BY DEF Due, Adds, InEvents
  <2> QED
    BY <2>1, <2>2 DEF NoneLost, NoneForgotten
<1> QED
  BY <1>2, <1>3 DEF NoneForgotten

(* The worker takes a claim off the queue.                                      *)
LEMMA TakingLosesNone ==
    ASSUME TypeOK, NoneLost, NEW c \in Claims, worker.pc = "idle",
           queue' = queue \ {c}, timers' = timers, api' = api, watch' = watch,
           \/ worker' = worker /\ Done(cache[c])
           \/ worker'.pc # "idle" /\ worker'.claim = c /\ worker'.obj = cache[c]
    PROVE  ObjIsKnown' /\ NoneForgotten'
<1>1. InEvents(c) \/ cache[c] = api[c]
  BY KnownUnlessInEvents DEF NoneLost
<1>2. \A d \in Claims : InEvents(d)' <=> InEvents(d)
  BY DEF InEvents
<1>3. ObjIsKnown'
  BY <1>1, <1>2 DEF ObjIsKnown
<1>4. ASSUME NEW d \in Claims, d # c PROVE Due(d)' \/ Done(api[d])'
  <2>1. Due(d) => Due(d)'
    BY <1>4 DEF Due
  <2> QED
    BY <2>1 DEF NoneLost, NoneForgotten
<1>5. Due(c)' \/ Done(api[c])'
  BY <1>1, <1>2 DEF Due, InEvents
<1> QED
  BY <1>3, <1>4, <1>5 DEF NoneForgotten

(* The reconcile ends: the claim is queued, or its status was written.           *)
LEMMA EndingLosesNone ==
    ASSUME TypeOK, NoneLost, worker.pc = "patch", worker'.pc = "idle", Adds,
           \/ worker.claim \in queue'
           \/ ApplyPatch /\ (worker.requeue => worker.claim \in timers')
    PROVE  ObjIsKnown' /\ NoneForgotten'
<1> PICK c \in Claims : c = worker.claim
  BY DEF TypeOK, Worker
<1>1. /\ api[c] \in Object /\ api[c].status \in Status
      /\ worker.status \in Status /\ worker.obj.status \in Status
  BY DEF TypeOK, Worker, Object
<1>2. ObjIsKnown'
  BY DEF ObjIsKnown
<1>3. ASSUME NEW d \in Claims, d # c PROVE Due(d)' \/ Done(api[d])'
  <2>1. Due(d) => Due(d)'
    BY <1>3 DEF Due, Adds, InEvents
  <2>2. Done(api[d]) => Due(d)' \/ Done(api[d])'
    BY DEF Due, Adds, InEvents
  <2> QED
    BY <2>1, <2>2 DEF NoneLost, NoneForgotten
<1>4. ASSUME ApplyPatch, ~Due(c)', ~worker.requeue PROVE Done(api[c])'
  <2>1. c \notin queue /\ ~InEvents(c) /\ ~InEvents(c)'
    BY <1>1, <1>4 DEF Due, Adds, InEvents
  <2>2. worker.obj = api[c] /\ api'[c] = api[c]
    BY <1>1, <2>1 DEF NoneLost, ObjIsKnown, Adds
  <2> DEFINE cur == api[c].status
             new == MergePatch(cur, worker.obj.status, worker.status)
  <2>3. api'[c] = [api[c] EXCEPT !.status = new]
    BY <1>4 DEF ApplyPatch, Store, TypeOK
  <2> HIDE DEF new
  <2>4. cur = new /\ cur = worker.obj.status
    BY <1>1, <2>2, <2>3 DEF Object
  <2>5. cur.state = worker.status.state /\ cur.observed = worker.status.observed
    BY <2>4 DEF MergePatch, MergeField, new
  <2>6. Finishes(worker.obj, worker.status)
    BY <1>4 DEF NoneLost, PatchFinishes
  <2> QED
    BY <2>2, <2>5, <2>6 DEF Done, Settled, Finishes
<1>5. Due(c)' \/ Done(api[c])'
  BY <1>4 DEF Due
<1> QED
  BY <1>2, <1>3, <1>5 DEF NoneForgotten

LEMMA UsersLoseNone ==
    ASSUME TypeOK, NoneLost, UserNext
    PROVE  NoneLost'
<1>1. ASSUME NEW c \in Claims, NEW o \in Object, Store(c, o),
             cache' = cache, queue' = queue, timers' = timers, worker' = worker
      PROVE  NoneLost'
  <2>1. Sync'
    BY <1>1, StoreKeepsSync DEF NoneLost
  <2>2. Adds
    BY <1>1, StoreIsSeen DEF Adds
  <2>3. ObjIsKnown' /\ NoneForgotten'
    BY <1>1, <2>2, AddingLosesNone
  <2> QED
    BY <1>1, <2>1, <2>3 DEF NoneLost, PatchFinishes
<1>2. ASSUME NEW c \in Claims, NEW k \in SizeBits, NEW s \in Selectors, CreateClaim(c, k, s)
      PROVE  NoneLost'
  <2>1. [gen |-> 1, sizeBit |-> k, selector |-> s, status |-> NoStatus] \in Object
    BY ConstantTypes, CIDRClaimAssumption DEF Object
  <2> QED
    BY <1>1, <1>2, <2>1 DEF CreateClaim
<1>3. ASSUME NEW c \in Claims, NEW k \in SizeBits, NEW s \in Selectors, UpdateSpec(c, k, s)
      PROVE  NoneLost'
  <2>1. api[c] \in Object /\ k \in 0..AddrBits /\ s \in (SUBSET Blocks) \cup {InvalidSelector}
    BY CIDRClaimAssumption DEF TypeOK
  <2>2. [gen |-> api[c].gen + 1, sizeBit |-> k, selector |-> s, status |-> api[c].status]
            \in Object
    BY <2>1 DEF Object
  <2> QED
    BY <1>1, <1>3, <2>2 DEF UpdateSpec
<1>4. ASSUME NEW c \in Claims, DeleteClaim(c) PROVE NoneLost'
  BY <1>1, <1>4, ConstantTypes DEF DeleteClaim
<1>5. ASSUME NEW b \in Blocks, ToggleBlock(b) PROVE NoneLost'
  BY <1>5 DEF ToggleBlock, NoneLost, Sync, LastEvent, ObjIsKnown, PatchFinishes,
              NoneForgotten, Due, InEvents
<1>6. CASE Restart
  <2>1. /\ cache' = api /\ api' = api /\ watch' = <<>> /\ worker'.pc = "idle"
        /\ queue' = {c \in Claims : Exists(api[c])}
    BY <1>6, ConstantTypes DEF Restart
  <2>2. Sync'
    BY <2>1 DEF Sync
  <2>3. NoneForgotten'
    BY <2>1 DEF NoneForgotten, Due, Done
  <2> QED
    BY <2>1, <2>2, <2>3 DEF NoneLost, ObjIsKnown, PatchFinishes
<1> QED
  BY <1>2, <1>3, <1>4, <1>5, <1>6 DEF UserNext

LEMMA ControllerLosesNone ==
    ASSUME TypeOK, NoneLost, ControllerNext
    PROVE  NoneLost'
<1> USE DEF informer
<1>1. ASSUME api' = api, watch' = watch, cache' = cache PROVE Sync'
  BY <1>1 DEF NoneLost, Sync, LastEvent
<1>2. ASSUME api' = api, watch' = watch,
             \A c \in Claims : c \in queue => c \in queue',
             \A c \in Claims : c \in timers => c \in timers' \/ c \in queue'
      PROVE  Adds
  BY <1>2 DEF Adds, InEvents
<1>3. CASE DeliverClaim
  <2>1. api' = api /\ worker' = worker /\ timers' = timers /\ queue \subseteq queue'
    BY <1>3 DEF DeliverClaim
  <2>2. Sync'
    BY <1>3, DeliverKeepsSync DEF NoneLost
  <2>3. Adds
    BY <1>3, <2>1, DeliveredIsQueued DEF Adds
  <2>4. ObjIsKnown' /\ NoneForgotten'
    BY <2>1, <2>3, AddingLosesNone
  <2> QED
    BY <2>1, <2>2, <2>4 DEF NoneLost, PatchFinishes
<1>4. CASE DeliverBlock
  BY <1>4 DEF DeliverBlock, NoneLost, Sync, LastEvent, ObjIsKnown, PatchFinishes,
              NoneForgotten, Due, InEvents
<1>5. ASSUME NEW c \in Claims, TimerFires(c) PROVE NoneLost'
  <2>1. Adds /\ Sync' /\ worker' = worker
    BY <1>1, <1>2, <1>5 DEF TimerFires
  <2>2. ObjIsKnown' /\ NoneForgotten'
    BY <2>1, AddingLosesNone
  <2> QED
    BY <2>1, <2>2 DEF NoneLost, PatchFinishes
<1>6. ASSUME NEW c \in Claims, GetDone(c) PROVE NoneLost'
  <2>1. Done(cache[c]) /\ Sync'
    BY <1>1, <1>6 DEF GetDone, Done
  <2>2. ObjIsKnown' /\ NoneForgotten'
    BY <1>6, <2>1, TakingLosesNone DEF GetDone
  <2> QED
    BY <1>6, <2>1, <2>2 DEF GetDone, NoneLost, PatchFinishes
<1>7. ASSUME NEW c \in Claims, GetInvalid(c) PROVE NoneLost'
  <2>1. /\ worker'.pc = "patch" /\ worker'.claim = c /\ worker'.obj = cache[c]
        /\ worker'.status = Keep(cache[c], "bindingError")
        /\ cache[c] \in Object /\ cache[c].selector = InvalidSelector
    BY <1>7, ConstantTypes DEF GetInvalid, Worker, TypeOK
  <2>2. Sync'
    BY <1>1, <1>7 DEF GetInvalid
  <2>3. ObjIsKnown' /\ NoneForgotten'
    BY <1>7, <2>1, TakingLosesNone DEF GetInvalid
  <2>4. PatchFinishes'
    BY <2>1 DEF PatchFinishes, Finishes, Keep, Object, Status
  <2> QED
    BY <2>2, <2>3, <2>4 DEF NoneLost
<1>8. ASSUME NEW c \in Claims, GetClaim(c) PROVE NoneLost'
  <2>1. worker'.pc = "blocks" /\ worker'.claim = c /\ worker'.obj = cache[c]
    BY <1>8, ConstantTypes DEF GetClaim, Worker
  <2>2. Sync'
    BY <1>1, <1>8 DEF GetClaim
  <2>3. ObjIsKnown' /\ NoneForgotten'
    BY <1>8, <2>1, TakingLosesNone DEF GetClaim
  <2> QED
    BY <2>1, <2>2, <2>3 DEF NoneLost, PatchFinishes
<1>9. ASSUME worker.pc # "idle", worker'.pc # "idle",
             worker'.claim = worker.claim, worker'.obj = worker.obj,
             api' = api, watch' = watch, cache' = cache, queue' = queue, timers' = timers,
             PatchFinishes'
      PROVE  NoneLost'
  <2>1. Adds /\ Sync'
    BY <1>1, <1>2, <1>9
  <2>2. ObjIsKnown' /\ NoneForgotten'
    BY <1>9, <2>1, AddingLosesNone
  <2> QED
    BY <1>9, <2>1, <2>2 DEF NoneLost
<1>10. CASE ListBlocks
  <2>1. /\ worker.pc # "idle" /\ worker'.pc # "idle" /\ worker.obj \in Object
        /\ worker'.claim = worker.claim /\ worker'.obj = worker.obj
        /\ worker'.pc = "patch" => worker'.status = Keep(worker.obj, "ready")
    BY <1>10 DEF ListBlocks, TypeOK, Worker
  <2>2. /\ Keep(worker.obj, "ready").state = "ready"
        /\ Keep(worker.obj, "ready").observed = worker.obj.gen
    BY <2>1 DEF Keep, Object, Status
  <2>3. PatchFinishes'
    BY <2>1, <2>2 DEF PatchFinishes, Finishes
  <2> QED
    BY <1>9, <1>10, <2>1, <2>3 DEF ListBlocks
<1>11. ASSUME NEW b \in Blocks, Allocate(b) PROVE NoneLost'
  <2>1. /\ worker.pc # "idle" /\ worker'.pc # "idle"
        /\ worker'.claim = worker.claim /\ worker'.obj = worker.obj
        /\ worker'.status.state = "ready" /\ worker'.status.observed = worker.obj.gen
    BY <1>11 DEF Allocate, TypeOK, Worker
  <2>2. PatchFinishes'
    BY <2>1 DEF PatchFinishes, Finishes
  <2> QED
    BY <1>9, <1>11, <2>1, <2>2 DEF Allocate
<1>12. CASE AllocateFails
  <2>1. /\ worker.pc # "idle" /\ worker'.pc # "idle" /\ worker'.requeue
        /\ worker'.claim = worker.claim /\ worker'.obj = worker.obj
    BY <1>12 DEF AllocateFails, TypeOK, Worker
  <2>2. PatchFinishes'
    BY <2>1 DEF PatchFinishes
  <2> QED
    BY <1>9, <1>12, <2>1, <2>2 DEF AllocateFails
<1>13. ASSUME ApplyPatch, cache' = cache, worker' = Idle
       PROVE  /\ Sync' /\ PatchFinishes' /\ worker.pc = "patch" /\ worker'.pc = "idle"
              /\ \A d \in Claims : InEvents(d) => InEvents(d)'
              /\ \A d \in Claims : api'[d] = api[d] \/ InEvents(d)'
  <2> DEFINE c == worker.claim
             new == MergePatch(api[c].status, worker.obj.status, worker.status)
  <2>1. c \in Claims /\ api[c] \in Object /\ new \in Status
    BY MergeType DEF TypeOK, Worker, Object
  <2>2. [api[c] EXCEPT !.status = new] \in Object
    BY <2>1 DEF Object
  <2>3. Store(c, [api[c] EXCEPT !.status = new])
    BY <1>13 DEF ApplyPatch
  <2> HIDE DEF new
  <2>4. Sync'
    BY <1>13, <2>1, <2>2, <2>3, StoreKeepsSync DEF NoneLost
  <2>5. /\ \A d \in Claims : InEvents(d) => InEvents(d)'
        /\ \A d \in Claims : api'[d] = api[d] \/ InEvents(d)'
    BY <2>1, <2>2, <2>3, StoreIsSeen
  <2>6. worker.pc = "patch" /\ worker'.pc = "idle"
    BY <1>13, ConstantTypes DEF ApplyPatch
  <2> QED
    BY <2>4, <2>5, <2>6 DEF PatchFinishes
<1>14. CASE Patch
  <2>1. /\ Sync' /\ PatchFinishes' /\ worker.pc = "patch" /\ worker'.pc = "idle"
        /\ \A d \in Claims : InEvents(d) => InEvents(d)'
        /\ \A d \in Claims : api'[d] = api[d] \/ InEvents(d)'
    BY <1>13, <1>14 DEF Patch
  <2>2. Adds
    BY <1>14, <2>1 DEF Patch, Adds
  <2>3. ApplyPatch /\ (worker.requeue => worker.claim \in timers')
    BY <1>14 DEF Patch
  <2>4. ObjIsKnown' /\ NoneForgotten'
    BY <2>1, <2>2, <2>3, EndingLosesNone
  <2> QED
    BY <2>1, <2>4 DEF NoneLost
<1>15. CASE PatchAnswerLost
  <2>1. /\ Sync' /\ PatchFinishes' /\ worker.pc = "patch" /\ worker'.pc = "idle"
        /\ \A d \in Claims : InEvents(d) => InEvents(d)'
        /\ \A d \in Claims : api'[d] = api[d] \/ InEvents(d)'
    BY <1>13, <1>15 DEF PatchAnswerLost
  <2>2. Adds /\ worker.claim \in queue'
    BY <1>15, <2>1 DEF PatchAnswerLost, Adds
  <2>3. ObjIsKnown' /\ NoneForgotten'
    BY <2>1, <2>2, EndingLosesNone
  <2> QED
    BY <2>1, <2>3 DEF NoneLost
<1>16. CASE PatchFails
  <2>1. Sync' /\ worker.pc = "patch" /\ worker'.pc = "idle" /\ worker.claim \in queue'
    BY <1>1, <1>16, ConstantTypes DEF PatchFails
  <2>2. Adds
    BY <1>2, <1>16 DEF PatchFails
  <2>3. ObjIsKnown' /\ NoneForgotten'
    BY <2>1, <2>2, EndingLosesNone
  <2> QED
    BY <2>1, <2>3 DEF NoneLost, PatchFinishes
<1> QED
  BY <1>3, <1>4, <1>5, <1>6, <1>7, <1>8, <1>10, <1>11, <1>12, <1>14, <1>15, <1>16
  DEF ControllerNext, Get

(* No claim is forgotten by the reconciler: it is gone, ready or refused for its *)
(* selector, or it is queued, waits for its timer, is being reconciled or has an *)
(* event on its way. For any lag of the copies: a reconcile that works on an old *)
(* copy of a claim has the event that makes it old still to come, and a patch    *)
(* that makes no event left the claim as it found it.                            *)
THEOREM NoClaimForgotten == Spec => []NoneForgotten
<1>1. Init => NoneLost
  <2> SUFFICES ASSUME Init PROVE NoneLost
    OBVIOUS
  <2>1. \A c \in Claims : api[c] = Absent /\ cache[c] = api[c] /\ ~Exists(api[c])
    BY DEF Init, Absent, Exists
  <2>2. Sync /\ NoneForgotten
    BY <2>1 DEF Init, Sync, NoneForgotten, Done
  <2> QED
    BY <2>2, ConstantTypes DEF Init, NoneLost, ObjIsKnown, PatchFinishes
<1>2. TypeOK /\ NoneLost /\ [Next]_vars => NoneLost'
  <2> SUFFICES ASSUME TypeOK, NoneLost, [Next]_vars PROVE NoneLost'
    OBVIOUS
  <2>1. CASE UNCHANGED vars
    BY <2>1 DEF vars, NoneLost, Sync, LastEvent, ObjIsKnown, PatchFinishes, NoneForgotten,
                Due, InEvents
  <2> QED
    BY <2>1, UsersLoseNone, ControllerLosesNone DEF Next
<1>3. NoneLost => NoneForgotten
  BY DEF NoneLost
<1> QED
  BY <1>1, <1>2, <1>3, TypeCorrect, PTL DEF Spec

-----------------------------------------------------------------------------
(* The CNI server *)

(* A call that has an answer has returned; a try of GetExtraPodCIDRs that has read the   *)
(* pod misses exactly the templates it has to cover, so the misses of an earlier try and  *)
(* the claims it found play no part.                                                      *)
Answered == answer = "ok" => ~running
TryIsFresh == podRead => running /\ method = "extra" /\ templateNames = wanted
ReplyInv == Answered /\ TryIsFresh /\ CNI!ReplyIsReady /\ CNI!ExtraComplete

(* A try that covers what is missed from a list without a pending claim.                  *)
LEMMA SeenIsReady ==
    ASSUME NEW seen, CNI!Seen(seen)
    PROVE  \A t \in seen : claims[t] = "ready"
BY DEF CNI!Seen

(* A try of either method, which may answer the call.                                     *)
LEMMA TryKeepsReply ==
    ASSUME ReplyInv, NEW seen, CNI!TryPod(seen) \/ CNI!TryExtra(seen)
    PROVE  ReplyInv'
<1>1. running /\ answer # "ok" /\ UNCHANGED <<method, wanted>> /\ list' = claims
  BY DEF CNI!TryPod, CNI!TryExtra, ReplyInv, Answered
<1>2. CASE UNCHANGED <<running, answer>>
  <2>1. CNI!ReplyIsReady' /\ CNI!ExtraComplete'
    BY <1>1, <1>2 DEF CNI!ReplyIsReady, CNI!ExtraComplete
  <2>2. Answered'
    BY <1>1, <1>2 DEF Answered
  <2>3. CASE CNI!TryPod(seen)
    <3>1. method = "pod" /\ UNCHANGED podRead
      BY <2>3 DEF CNI!TryPod
    <3> QED
      BY <2>1, <2>2, <3>1 DEF ReplyInv, TryIsFresh
  <2>4. CASE CNI!TryExtra(seen)
    BY <2>1, <2>2, <2>4 DEF CNI!TryExtra, ReplyInv, TryIsFresh
  <2> QED
    BY <2>3, <2>4
<1>3. CASE CNI!NothingPending /\ templateNames' = {} /\ ~running' /\ answer' = "ok"
  <2>1. CNI!ReplyIsReady'
    BY <1>1, <1>3 DEF CNI!ReplyIsReady, CNI!NothingPending
  <2>2. CASE CNI!TryPod(seen)
    <3>1. method = "pod" /\ UNCHANGED podRead
      BY <2>2 DEF CNI!TryPod
    <3> QED
      BY <1>1, <1>3, <2>1, <3>1 DEF ReplyInv, Answered, TryIsFresh, CNI!ExtraComplete
  <2>3. CASE CNI!TryExtra(seen)
    <3>1. templateNames = wanted /\ templateNames \subseteq seen /\ ~podRead'
      BY <1>3, <2>3 DEF CNI!TryExtra, ReplyInv, TryIsFresh
    <3>2. \A t \in wanted : claims[t] = "ready"
      BY <2>3, <3>1, SeenIsReady DEF CNI!TryExtra
    <3> QED
      BY <1>1, <1>3, <2>1, <3>1, <3>2 DEF ReplyInv, Answered, TryIsFresh, CNI!ExtraComplete
  <2> QED
    BY <2>2, <2>3
<1> QED
  BY <1>2, <1>3 DEF CNI!TryPod, CNI!TryExtra

LEMMA ReplyInvKept == ReplyInv /\ [CNI!Next]_(CNI!vars) => ReplyInv'
<1> SUFFICES ASSUME ReplyInv, [CNI!Next]_(CNI!vars) PROVE ReplyInv'
  OBVIOUS
<1> USE DEF ReplyInv, Answered, TryIsFresh, CNI!ReplyIsReady, CNI!ExtraComplete
<1>1. CASE UNCHANGED <<method, running, podRead, templateNames, list, answer, wanted>>
  BY <1>1
<1>2. CASE CNI!GetPodCIDRs \/ CNI!GetExtraPodCIDRs
  BY <1>2 DEF CNI!GetPodCIDRs, CNI!GetExtraPodCIDRs
<1>3. CASE CNI!ReadPod
  BY <1>3 DEF CNI!ReadPod
<1>4. CASE CNI!GiveUp
  BY <1>4 DEF CNI!GiveUp
<1>5. ASSUME NEW seen, CNI!TryPod(seen) \/ CNI!TryExtra(seen)
      PROVE  ReplyInv'
  BY <1>5, TryKeepsReply
<1> QED
  BY <1>1, <1>2, <1>3, <1>4, <1>5
  DEF CNI!Next, CNI!vars, CNI!EditClaim, CNI!EditPod

(* Every claim in a reply is ready, and a reply to GetExtraPodCIDRs covers the templates  *)
(* that the pod named when this try read it, for any templates and any number of edits    *)
(* and tries (cniserver.go:113-170, 172-239).                                             *)
THEOREM RepliesReady == CNI!Spec => []RepliesSound
<1>1. CNI!Init => ReplyInv
  BY DEF CNI!Init, ReplyInv, Answered, TryIsFresh, CNI!ReplyIsReady, CNI!ExtraComplete
<1>2. ReplyInv => RepliesSound
  BY DEF ReplyInv, RepliesSound
<1> QED
  BY <1>1, <1>2, ReplyInvKept, PTL DEF CNI!Spec
-----------------------------------------------------------------------------
(* Who makes the claims *)

(* A cache that a watch keeps: its events are the objects after each write, and *)
(* the last of them is what is stored.                                          *)
IsSynced(events, known, stored) ==
    IF events = <<>> THEN known = stored ELSE events[Len(events)] = stored

(* An event will show object x different from what is known of it.              *)
Shows(events, known, x) == \E i \in 1..Len(events) : events[i][x] # known[x]

(* A write leaves an event of each object that it changes, and takes none away.  *)
LEMMA AppendShows ==
    ASSUME NEW S, NEW events \in Seq(S), NEW f \in S, NEW known, NEW stored,
           IsSynced(events, known, stored)
    PROVE  /\ IsSynced(Append(events, f), known, f) /\ Append(events, f) \in Seq(S)
           /\ \A x : \/ ~Shows(events, known, x) /\ f[x] = stored[x]
                    \/ Shows(Append(events, f), known, x)
<1> DEFINE n == Len(events)
           more == Append(events, f)
<1>1. /\ n \in Nat /\ Len(more) = n + 1 /\ more[n + 1] = f /\ more # <<>> /\ more \in Seq(S)
      /\ \A i \in 1..n : more[i] = events[i]
  OBVIOUS
<1>2. IsSynced(more, known, f)
  BY <1>1 DEF IsSynced
<1>3. ASSUME NEW x, Shows(events, known, x) PROVE Shows(more, known, x)
  <2>1. PICK i \in 1..n : events[i][x] # known[x]
    BY <1>3 DEF Shows
  <2>2. i \in 1..Len(more) /\ more[i] = events[i]
    BY <1>1
  <2> QED
    BY <2>1, <2>2 DEF Shows
<1>4. ASSUME NEW x, f[x] # stored[x], ~Shows(events, known, x) PROVE Shows(more, known, x)
  <2>1. stored[x] = known[x]
    <3>1. CASE events = <<>>
      BY <3>1 DEF IsSynced
    <3>2. CASE events # <<>>
      <4>1. n \in 1..n
        BY <1>1, <3>2
      <4> QED
        BY <1>4, <3>2, <4>1 DEF IsSynced, Shows
    <3> QED
      BY <3>1, <3>2
  <2>2. n + 1 \in 1..Len(more) /\ more[n + 1][x] # known[x]
    BY <1>1, <1>4, <2>1
  <2> QED
    BY <2>2 DEF Shows
<1> QED
  BY <1>1, <1>2, <1>3, <1>4

(* An event that is delivered shows what it changes, or a later one does.        *)
LEMMA TailShows ==
    ASSUME NEW S, NEW events \in Seq(S), events # <<>>, NEW known, NEW stored,
           IsSynced(events, known, stored)
    PROVE  /\ IsSynced(Tail(events), Head(events), stored)
           /\ Head(events) \in S /\ Tail(events) \in Seq(S)
           /\ \A x : \/ ~Shows(events, known, x)
                    \/ Shows(Tail(events), Head(events), x)
                    \/ Head(events)[x] # known[x]
<1> DEFINE n == Len(events)
           rest == Tail(events)
<1>1. /\ n \in Nat \ {0} /\ Head(events) = events[1] /\ events[1] \in S
      /\ Len(rest) = n - 1 /\ rest \in Seq(S)
      /\ \A i \in 1..(n - 1) : rest[i] = events[i + 1]
      /\ events[n] = stored
  BY DEF IsSynced
<1>2. IsSynced(rest, events[1], stored)
  <2>1. CASE n = 1
    <3>1. rest = <<>>
      <4>1. Len(rest) = 0 /\ rest \in Seq(S)
        BY <1>1, <2>1
      <4> HIDE DEF rest
      <4> QED
        BY <4>1
    <3> QED
      BY <1>1, <2>1, <3>1 DEF IsSynced
  <2>2. CASE n # 1
    <3>1. n - 1 \in 1..(n - 1) /\ (n - 1) + 1 = n /\ n - 1 # 0
      <4> HIDE DEF n
      <4> QED
        BY <1>1, <2>2
    <3>2. rest[n - 1] = stored
      BY <1>1, <3>1
    <3>3. rest[Len(rest)] = stored /\ rest # <<>>
      BY <1>1, <3>1, <3>2
    <3> QED
      BY <3>3 DEF IsSynced
  <2> QED
    BY <2>1, <2>2
<1>3. ASSUME NEW x, Shows(events, known, x), events[1][x] = known[x]
      PROVE  Shows(rest, events[1], x)
  <2>1. PICK i \in 1..n : events[i][x] # known[x]
    BY <1>3 DEF Shows
  <2>2. i # 1
    BY <1>3, <2>1
  <2>3. i - 1 \in 1..Len(rest) /\ rest[i - 1] = events[i]
    BY <1>1, <2>2
  <2> QED
    BY <1>3, <2>1, <2>3 DEF Shows
<1> QED
  BY <1>1, <1>2, <1>3

(* What no event shows is known as it is stored.                                *)
LEMMA KnownUnlessShown ==
    ASSUME NEW S, NEW events \in Seq(S), NEW known, NEW stored,
           IsSynced(events, known, stored), NEW x, ~Shows(events, known, x)
    PROVE  known[x] = stored[x]
<1>1. CASE events = <<>>
  BY <1>1 DEF IsSynced
<1>2. CASE events # <<>>
  <2>1. Len(events) \in 1..Len(events)
    BY <1>2
  <2> QED
    BY <1>2, <2>1 DEF IsSynced, Shows
<1> QED
  BY <1>1, <1>2

(* CIDRClaimer and ExtraPodCIDRSync, one at a time: the claims of a node, and   *)
(* those of its pods.                                                          *)
CONSTANTS TemplateNames, Specs, None, MaxFaults, Pods, Long

VARIABLES names, node, tmpl, claim, pendingNode, pendingTmpl, pendingClaim,
          cacheNode, cacheTmpl, cacheClaim, requests, pc, req, selfNode, spec, read, stale,
          changes, faults

Node == INSTANCE CIDRClaimer WITH queue <- requests, edits <- changes

NodeClaims == [Templates -> Node!ClaimObjects \cup {None}]
NodeTemplates == [Templates -> Specs \cup {None}]

NodeTypes ==
    /\ names \in SUBSET Templates /\ requests \in SUBSET Templates
    /\ node \in Nat /\ cacheNode \in Nat /\ selfNode \in Nat /\ pendingNode \in Seq(Nat)
    /\ tmpl \in NodeTemplates /\ cacheTmpl \in NodeTemplates
    /\ pendingTmpl \in Seq(NodeTemplates)
    /\ claim \in NodeClaims /\ cacheClaim \in NodeClaims /\ pendingClaim \in Seq(NodeClaims)
    /\ pc \in {"idle", "delete", "node", "template", "get", "write"}
    /\ read \in Node!ClaimObjects \cup {None}
    /\ pc # "idle" => req \in Templates
    /\ pc \in {"get", "write"} => spec \in Specs

(* The cache is behind by the events under way.                                 *)
NodeSync == IsSynced(pendingClaim, cacheClaim, claim)

(* The agent's configuration stays while a Reconcile is under way.              *)
Decided ==
    /\ pc = "delete" => req \notin names
    /\ pc \in {"node", "template", "get", "write"} => req \in names

NodeInv == NodeTypes /\ NodeSync /\ Decided /\ Node!NoneForgotten

(* A write that changes a claim leaves an event, and takes none away.           *)
LEMMA NodeWriteIsSeen ==
    ASSUME NodeTypes, NodeSync, NEW f \in NodeClaims, Node!Write(f), cacheClaim' = cacheClaim
    PROVE  /\ NodeSync'
           /\ claim' \in NodeClaims /\ pendingClaim' \in Seq(NodeClaims)
           /\ \A t \in Templates : Node!InEvents(t) => Node!InEvents(t)'
           /\ \A t \in Templates : claim'[t] = claim[t] \/ Node!InEvents(t)'
<1>1. /\ claim' = f /\ pendingClaim' = Append(pendingClaim, f)
      /\ pendingClaim \in Seq(NodeClaims)
  BY DEF Node!Write, NodeTypes
<1>2. /\ IsSynced(pendingClaim', cacheClaim, f) /\ pendingClaim' \in Seq(NodeClaims)
      /\ \A t \in Templates : \/ ~Shows(pendingClaim, cacheClaim, t) /\ f[t] = claim[t]
                              \/ Shows(pendingClaim', cacheClaim, t)
  BY <1>1, AppendShows DEF NodeSync
<1> QED
  BY <1>1, <1>2 DEF NodeSync, Node!InEvents, Shows

(* An event that is delivered makes requests of the templates it changes.       *)
LEMMA NodeDeliveryIsSeen ==
    ASSUME NodeTypes, NodeSync, Node!DeliverClaim
    PROVE  /\ NodeSync'
           /\ cacheClaim' \in NodeClaims /\ pendingClaim' \in Seq(NodeClaims)
           /\ \A t \in Templates :
                  Node!InEvents(t) => Node!InEvents(t)' \/ t \in requests'
<1>1. /\ pendingClaim \in Seq(NodeClaims) /\ pendingClaim # <<>> /\ claim' = claim
      /\ cacheClaim' = Head(pendingClaim) /\ pendingClaim' = Tail(pendingClaim)
      /\ \A t \in Templates : cacheClaim'[t] # cacheClaim[t] => t \in requests'
  BY DEF Node!DeliverClaim, NodeTypes
<1>2. /\ IsSynced(pendingClaim', cacheClaim', claim)
      /\ cacheClaim' \in NodeClaims /\ pendingClaim' \in Seq(NodeClaims)
      /\ \A t \in Templates : \/ ~Shows(pendingClaim, cacheClaim, t)
                              \/ Shows(pendingClaim', cacheClaim', t)
                              \/ cacheClaim'[t] # cacheClaim[t]
  BY <1>1, TailShows DEF NodeSync
<1> QED
  BY <1>1, <1>2 DEF NodeSync, Node!InEvents, Shows

(* A claim without an event is known as it is stored.                           *)
LEMMA NodeKnown ==
    ASSUME NodeTypes, NodeSync, NEW t \in Templates
    PROVE  Node!InEvents(t) \/ cacheClaim[t] = claim[t]
BY KnownUnlessShown DEF NodeTypes, NodeSync, Node!InEvents, Shows

(* What a step has to leave of what was due.                                    *)
LEMMA NodeStepForgetsNone ==
    ASSUME Node!NoneForgotten, names' = names,
           \A t \in Templates : t \in requests => Node!Due(t)',
           \A t \in Templates : Node!InEvents(t) => Node!InEvents(t)' \/ t \in requests',
           \A t \in Templates : claim'[t] = claim[t] \/ Node!InEvents(t)',
           \A t \in Templates : pc # "idle" /\ req = t =>
               Node!Due(t)' \/ (claim'[t] # None <=> t \in names)
    PROVE  Node!NoneForgotten'
<1> SUFFICES ASSUME NEW t \in Templates
             PROVE  Node!Due(t)' \/ (claim'[t] # None <=> t \in names)
  BY DEF Node!NoneForgotten
<1>1. CASE t \in requests \/ (pc # "idle" /\ req = t)
  BY <1>1
<1>2. CASE Node!InEvents(t)
  BY <1>2 DEF Node!Due
<1>3. CASE claim[t] # None <=> t \in names
  BY <1>3 DEF Node!Due
<1> QED
  BY <1>1, <1>2, <1>3 DEF Node!NoneForgotten, Node!Due

(* The steps of others, and of the caches.                                      *)
NodeOthersNext ==
    \/ \E u \in 0..(MaxEdits + 1) : Node!EditNode(u)
    \/ \E t \in Templates, s \in Specs \cup {None} : Node!EditTemplate(t, s)
    \/ \E t \in Templates : Node!DeleteClaim(t) \/ Node!Collect(t) \/ Node!Bind(t)
    \/ Node!DeliverNode \/ Node!DeliverTemplate \/ Node!DeliverClaim
    \/ \E ns \in TemplateNames : Node!Restart(ns)

LEMMA OthersKeepNode ==
    ASSUME Node!Assumption, NodeInv, NodeOthersNext
    PROVE  NodeInv'
<1> USE DEF Node!others, Node!store, Node!caches, Node!local
<1>1. ASSUME names' = names, requests' = requests, pc' = pc, req' = req, claim' = claim,
             cacheClaim' = cacheClaim, pendingClaim' = pendingClaim
      PROVE  NodeSync' /\ Decided' /\ Node!NoneForgotten'
  BY <1>1 DEF NodeInv, NodeSync, Decided, Node!NoneForgotten, Node!Due, Node!InEvents
<1>2. ASSUME NEW f \in NodeClaims, Node!Write(f),
             UNCHANGED <<names, node, tmpl, pendingNode, pendingTmpl, cacheNode, cacheTmpl,
                         cacheClaim, requests, pc, req, selfNode, spec, read>>
      PROVE  NodeInv'
  <2>1. /\ NodeSync'
        /\ claim' \in NodeClaims /\ pendingClaim' \in Seq(NodeClaims)
        /\ \A t \in Templates : Node!InEvents(t) => Node!InEvents(t)'
        /\ \A t \in Templates : claim'[t] = claim[t] \/ Node!InEvents(t)'
    BY <1>2, NodeWriteIsSeen DEF NodeInv
  <2>2. Node!NoneForgotten'
    BY <1>2, <2>1, NodeStepForgetsNone DEF NodeInv, Node!Due
  <2>3. NodeTypes'
    BY <1>2, <2>1 DEF NodeInv, NodeTypes
  <2> QED
    BY <1>2, <2>1, <2>2, <2>3 DEF NodeInv, Decided
<1>3. ASSUME NEW u \in 0..(MaxEdits + 1), Node!EditNode(u) PROVE NodeInv'
  <2>1. u \in Nat
    BY DEF Node!Assumption
  <2>2. NodeTypes'
    BY <1>3, <2>1 DEF Node!EditNode, NodeInv, NodeTypes
  <2> QED
    BY <1>1, <1>3, <2>2 DEF Node!EditNode, NodeInv
<1>4. ASSUME NEW t \in Templates, NEW s \in Specs \cup {None}, Node!EditTemplate(t, s)
      PROVE  NodeInv'
  <2>1. tmpl' \in NodeTemplates
    BY <1>4 DEF Node!EditTemplate, NodeInv, NodeTypes, NodeTemplates
  <2>2. pendingTmpl' \in Seq(NodeTemplates)
    BY <1>4, <2>1 DEF Node!EditTemplate, NodeInv, NodeTypes
  <2>3. NodeTypes'
    BY <1>4, <2>1, <2>2 DEF Node!EditTemplate, NodeInv, NodeTypes
  <2> QED
    BY <1>1, <1>4, <2>3 DEF Node!EditTemplate, NodeInv
<1>5. ASSUME NEW t \in Templates, Node!DeleteClaim(t) \/ Node!Collect(t) PROVE NodeInv'
  <2>1. [claim EXCEPT ![t] = None] \in NodeClaims
    BY DEF NodeInv, NodeTypes, NodeClaims
  <2> QED
    BY <1>2, <1>5, <2>1 DEF Node!DeleteClaim, Node!Collect
<1>6. ASSUME NEW t \in Templates, Node!Bind(t) PROVE NodeInv'
  <2>1. claim[t] \in Node!ClaimObjects /\ claim \in NodeClaims
    BY <1>6 DEF Node!Bind, NodeInv, NodeTypes, NodeClaims
  <2>2. [claim EXCEPT ![t].bound = TRUE] \in NodeClaims
    BY <2>1 DEF NodeClaims, Node!ClaimObjects
  <2> QED
    BY <1>2, <1>6, <2>2 DEF Node!Bind
<1>7. CASE Node!DeliverNode
  <2>1. Head(pendingNode) \in Nat /\ Tail(pendingNode) \in Seq(Nat)
    BY <1>7 DEF Node!DeliverNode, NodeInv, NodeTypes
  <2>2. NodeTypes'
    BY <1>7, <2>1 DEF Node!DeliverNode, NodeInv, NodeTypes
  <2> QED
    BY <1>1, <1>7, <2>2 DEF Node!DeliverNode, NodeInv
<1>8. CASE Node!DeliverTemplate
  <2>1. Head(pendingTmpl) \in NodeTemplates /\ Tail(pendingTmpl) \in Seq(NodeTemplates)
    BY <1>8 DEF Node!DeliverTemplate, NodeInv, NodeTypes
  <2>2. NodeTypes'
    BY <1>8, <2>1 DEF Node!DeliverTemplate, NodeInv, NodeTypes
  <2> QED
    BY <1>1, <1>8, <2>2 DEF Node!DeliverTemplate, NodeInv
<1>9. CASE Node!DeliverClaim
  <2>1. /\ NodeSync'
        /\ cacheClaim' \in NodeClaims /\ pendingClaim' \in Seq(NodeClaims)
        /\ \A t \in Templates :
               Node!InEvents(t) => Node!InEvents(t)' \/ t \in requests'
    BY <1>9, NodeDeliveryIsSeen DEF NodeInv
  <2>2. /\ names' = names /\ claim' = claim /\ pc' = pc /\ req' = req
        /\ requests \subseteq requests' /\ requests' \in SUBSET Templates
    BY <1>9 DEF Node!DeliverClaim, NodeInv, NodeTypes
  <2>3. Node!NoneForgotten'
    BY <2>1, <2>2, NodeStepForgetsNone DEF NodeInv, Node!Due
  <2>4. NodeTypes'
    BY <1>9, <2>1, <2>2 DEF Node!DeliverClaim, NodeInv, NodeTypes
  <2> QED
    BY <2>1, <2>2, <2>3, <2>4 DEF NodeInv, Decided
<1>10. ASSUME NEW ns \in TemplateNames, Node!Restart(ns) PROVE NodeInv'
  <2>1. /\ names' = ns /\ cacheClaim' = claim /\ claim' = claim /\ pendingClaim' = <<>>
        /\ requests' = ns \cup {t \in Templates : claim[t] # None} /\ pc' = "idle"
    BY <1>10 DEF Node!Restart
  <2>2. NodeSync' /\ Decided'
    BY <2>1 DEF NodeSync, IsSynced, Decided
  <2>3. Node!NoneForgotten'
    BY <2>1 DEF Node!NoneForgotten, Node!Due
  <2>4. NodeTypes'
    BY <1>10, <2>1 DEF Node!Restart, Node!Assumption, NodeInv, NodeTypes
  <2> QED
    BY <2>2, <2>3, <2>4 DEF NodeInv
<1> QED
  BY <1>3, <1>4, <1>5, <1>6, <1>7, <1>8, <1>9, <1>10 DEF NodeOthersNext

(* The steps of Reconcile.                                                      *)
ClaimerNext ==
    \/ \E t \in Templates : Node!Start(t)
    \/ Node!deleteUnusedClaims \/ Node!GetSelfNode \/ Node!GetTemplate \/ Node!GetClaim
    \/ Node!Upsert \/ Node!UpsertRefused \/ Node!UpsertFails

LEMMA ClaimerKeepsNode ==
    ASSUME Node!Assumption, NodeInv, ClaimerNext
    PROVE  NodeInv'
<1> USE DEF Node!others, Node!store, Node!caches, Node!local
<1>1. ASSUME UNCHANGED <<names, node, tmpl, pendingNode, pendingTmpl, claim, pendingClaim,
                         cacheNode, cacheTmpl, cacheClaim>>
      PROVE  /\ NodeSync'
             /\ \A t \in Templates : Node!InEvents(t) => Node!InEvents(t)'
             /\ \A t \in Templates : claim'[t] = claim[t]
  BY <1>1 DEF NodeInv, NodeSync, Node!InEvents
<1>2. ASSUME NEW t \in Templates, Node!Start(t) PROVE NodeInv'
  <2>1. /\ requests' = requests \ {t} /\ req' = t /\ pc = "idle"
        /\ pc' = IF t \in names THEN "node" ELSE "delete"
        /\ UNCHANGED <<names, node, tmpl, pendingNode, pendingTmpl, claim, pendingClaim,
                       cacheNode, cacheTmpl, cacheClaim, selfNode, spec, read>>
    BY <1>2 DEF Node!Start
  <2>2. \A s \in Templates : s \in requests => Node!Due(s)'
    BY <2>1 DEF Node!Due
  <2>3. Node!NoneForgotten'
    BY <1>1, <2>1, <2>2, NodeStepForgetsNone DEF NodeInv
  <2>4. NodeTypes' /\ Decided'
    BY <2>1 DEF NodeInv, NodeTypes, Decided
  <2> QED
    BY <1>1, <2>1, <2>3, <2>4 DEF NodeInv
<1>3. ASSUME Node!Return, req \in Templates, requests' \in SUBSET Templates, requests \subseteq requests',
             claim' \in NodeClaims, pendingClaim' \in Seq(NodeClaims), NodeSync',
             UNCHANGED <<names, node, tmpl, pendingNode, pendingTmpl,
                         cacheNode, cacheTmpl, cacheClaim>>,
             \A t \in Templates : Node!InEvents(t) => Node!InEvents(t)',
             \A t \in Templates : claim'[t] = claim[t] \/ Node!InEvents(t)',
             \/ req \in requests' \/ (claim'[req] # None <=> req \in names)
             \/ \E i \in 1..Len(pendingClaim') : pendingClaim'[i][req] # cacheClaim'[req]
      PROVE  NodeInv'
  <2>1. \A t \in Templates : req = t => Node!Due(t)' \/ (claim'[t] # None <=> t \in names)
    BY <1>3 DEF Node!Due, Node!InEvents
  <2>2. Node!NoneForgotten'
    BY <1>3, <2>1, NodeStepForgetsNone DEF NodeInv, Node!Due
  <2>3. NodeTypes' /\ Decided'
    BY <1>3 DEF NodeInv, NodeTypes, Decided, Node!Return
  <2> QED
    BY <1>3, <2>2, <2>3 DEF NodeInv
<1>4. ASSUME pc # "idle", req' = req, requests' = requests, pc' \in {"template", "get", "write"},
             pc \in {"node", "template", "get"},
             UNCHANGED <<names, node, tmpl, pendingNode, pendingTmpl, claim, pendingClaim,
                         cacheNode, cacheTmpl, cacheClaim>>,
             NodeTypes'
      PROVE  NodeInv'
  <2>1. \A t \in Templates : (t \in requests => Node!Due(t)') /\ (req = t => Node!Due(t)')
    BY <1>4 DEF Node!Due
  <2>2. Node!NoneForgotten'
    BY <1>1, <1>4, <2>1, NodeStepForgetsNone DEF NodeInv
  <2>3. Decided'
    BY <1>4 DEF NodeInv, Decided
  <2> QED
    BY <1>1, <1>4, <2>2, <2>3 DEF NodeInv
<1>5. CASE Node!deleteUnusedClaims
  <2>1. /\ req \in Templates /\ req \notin names /\ Node!Return
        /\ UNCHANGED <<names, node, tmpl, pendingNode, pendingTmpl, requests,
                       cacheNode, cacheTmpl, cacheClaim>>
    BY <1>5 DEF Node!deleteUnusedClaims, NodeInv, NodeTypes, Decided
  <2>2. CASE claim[req] = None
    <3>1. claim' = claim /\ pendingClaim' = pendingClaim
      BY <1>5, <2>2 DEF Node!deleteUnusedClaims
    <3> QED
      BY <1>1, <1>3, <2>1, <2>2, <3>1 DEF NodeInv, NodeTypes
  <2>3. CASE claim[req] # None
    <3> DEFINE f == [claim EXCEPT ![req] = None]
    <3>1. Node!Write(f) /\ f \in NodeClaims
      BY <1>5, <2>1, <2>3 DEF Node!deleteUnusedClaims, NodeInv, NodeTypes, NodeClaims
    <3>2. claim'[req] = None
      BY <2>1, <3>1 DEF Node!Write, NodeInv, NodeTypes, NodeClaims
    <3> HIDE DEF f
    <3>3. /\ NodeSync'
          /\ claim' \in NodeClaims /\ pendingClaim' \in Seq(NodeClaims)
          /\ \A t \in Templates : Node!InEvents(t) => Node!InEvents(t)'
          /\ \A t \in Templates : claim'[t] = claim[t] \/ Node!InEvents(t)'
      BY <2>1, <3>1, NodeWriteIsSeen DEF NodeInv
    <3> QED
      BY <1>3, <2>1, <3>2, <3>3 DEF NodeInv, NodeTypes
  <2> QED
    BY <2>2, <2>3
<1>6. CASE Node!GetSelfNode
  <2>1. NodeTypes'
    BY <1>6 DEF Node!GetSelfNode, NodeInv, NodeTypes
  <2> QED
    BY <1>4, <1>6, <2>1 DEF Node!GetSelfNode
<1>7. CASE Node!GetTemplate
  <2>1. /\ req \in Templates /\ pc = "template"
        /\ UNCHANGED <<names, node, tmpl, pendingNode, pendingTmpl, claim, pendingClaim,
                       cacheNode, cacheTmpl, cacheClaim>>
    BY <1>7 DEF Node!GetTemplate, NodeInv, NodeTypes
  <2>2. CASE cacheTmpl[req] = None
    <3>1. Node!Return /\ requests' = requests \cup {req}
      BY <1>7, <2>2 DEF Node!GetTemplate
    <3> QED
      BY <1>1, <1>3, <2>1, <3>1 DEF NodeInv, NodeTypes
  <2>3. CASE cacheTmpl[req] # None
    <3>1. /\ spec' = cacheTmpl[req] /\ pc' = "get"
          /\ UNCHANGED <<requests, req, selfNode, read>>
      BY <1>7, <2>3 DEF Node!GetTemplate
    <3>2. spec' \in Specs
      BY <2>1, <2>3, <3>1 DEF NodeInv, NodeTypes, NodeTemplates
    <3>3. NodeTypes'
      BY <2>1, <3>1, <3>2 DEF NodeInv, NodeTypes
    <3> QED
      BY <1>4, <2>1, <3>1, <3>3
  <2> QED
    BY <2>2, <2>3
<1>8. CASE Node!GetClaim
  <2>1. /\ req \in Templates /\ pc = "get" /\ req \in names
        /\ UNCHANGED <<names, node, tmpl, pendingNode, pendingTmpl, claim, pendingClaim,
                       cacheNode, cacheTmpl, cacheClaim, requests>>
    BY <1>8 DEF Node!GetClaim, NodeInv, NodeTypes, Decided
  <2>2. CASE cacheClaim[req] # None /\ Node!Return
    <3>1. \/ claim'[req] # None
          \/ \E i \in 1..Len(pendingClaim') : pendingClaim'[i][req] # cacheClaim'[req]
      BY <2>1, <2>2, NodeKnown DEF NodeInv, Node!InEvents
    <3> QED
      BY <1>1, <1>3, <2>1, <2>2, <3>1 DEF NodeInv, NodeTypes
  <2>3. CASE read' = cacheClaim[req] /\ pc' = "write" /\ UNCHANGED <<req, selfNode, spec>>
    <3>1. NodeTypes'
      BY <2>1, <2>3 DEF NodeInv, NodeTypes, NodeClaims
    <3> QED
      BY <1>4, <2>1, <2>3, <3>1
  <2> QED
    BY <1>8, <2>2, <2>3 DEF Node!GetClaim
<1>9. ASSUME pc = "write" PROVE Node!Mutated(read) \in Node!ClaimObjects
  <2>1. /\ spec \in Specs /\ selfNode \in Nat /\ read \in Node!ClaimObjects \cup {None}
    BY <1>9 DEF NodeInv, NodeTypes
  <2>2. CASE read = None
    BY <2>1, <2>2 DEF Node!Mutated, Node!ClaimObjects
  <2>3. CASE read # None
    BY <2>1, <2>3 DEF Node!Mutated, Node!ClaimObjects
  <2> QED
    BY <2>2, <2>3
<1>10. ASSUME pc = "write", Node!Write([claim EXCEPT ![req] = Node!Mutated(read)]),
              Node!Return, requests' \in SUBSET Templates, requests \subseteq requests',
              UNCHANGED <<names, node, tmpl, pendingNode, pendingTmpl,
                          cacheNode, cacheTmpl, cacheClaim>>
       PROVE  NodeInv'
  <2> DEFINE f == [claim EXCEPT ![req] = Node!Mutated(read)]
  <2>1. /\ req \in Templates /\ req \in names
    BY <1>10 DEF NodeInv, NodeTypes, Decided
  <2>2. f \in NodeClaims
    BY <1>9, <1>10, <2>1 DEF NodeInv, NodeTypes, NodeClaims
  <2>3. claim'[req] # None
    BY <1>9, <1>10, <2>1 DEF Node!Write, Node!Assumption, NodeInv, NodeTypes, NodeClaims
  <2>4. Node!Write(f)
    BY <1>10
  <2> HIDE DEF f
  <2>5. /\ NodeSync'
        /\ claim' \in NodeClaims /\ pendingClaim' \in Seq(NodeClaims)
        /\ \A t \in Templates : Node!InEvents(t) => Node!InEvents(t)'
        /\ \A t \in Templates : claim'[t] = claim[t] \/ Node!InEvents(t)'
    BY <1>10, <2>2, <2>4, NodeWriteIsSeen DEF NodeInv
  <2> QED
    BY <1>3, <1>10, <2>1, <2>3, <2>5
<1>11. ASSUME pc = "write", requests' = requests \cup {req}, Node!Return,
              UNCHANGED <<names, node, tmpl, pendingNode, pendingTmpl, claim, pendingClaim,
                          cacheNode, cacheTmpl, cacheClaim>>
       PROVE  NodeInv'
  <2>1. req \in Templates
    BY <1>11 DEF NodeInv, NodeTypes
  <2> QED
    BY <1>1, <1>3, <1>11, <2>1 DEF NodeInv, NodeTypes
<1>12. CASE Node!Upsert
  BY <1>10, <1>12 DEF Node!Upsert, NodeInv, NodeTypes
<1>13. CASE Node!UpsertRefused
  BY <1>11, <1>13 DEF Node!UpsertRefused
<1>14. CASE Node!UpsertFails
  <2>1. req \in Templates
    BY <1>14 DEF Node!UpsertFails, NodeInv, NodeTypes
  <2>2. CASE claim' = claim /\ pendingClaim' = pendingClaim
    BY <1>11, <1>14, <2>2 DEF Node!UpsertFails
  <2>3. CASE Node!Write([claim EXCEPT ![req] = Node!Mutated(read)])
    BY <1>10, <1>14, <2>1, <2>3 DEF Node!UpsertFails, NodeInv, NodeTypes
  <2> QED
    BY <1>14, <2>2, <2>3 DEF Node!UpsertFails
<1> QED
  BY <1>2, <1>5, <1>6, <1>7, <1>8, <1>12, <1>13, <1>14 DEF ClaimerNext

(* No template is forgotten: unless the claim of a template is about to be looked *)
(* at, there is one if the agent's configuration names the template, and none if *)
(* it does not. A Reconcile that leaves a claim alone because of what its cache   *)
(* shows, while the claim is being deleted by somebody, by the garbage collector *)
(* or before a restart, has the event that shows it still to come.               *)
THEOREM NoTemplateForgotten == ASSUME Node!Assumption PROVE Node!Spec => []Node!NoneForgotten
<1>1. Node!Init => NodeInv
  <2> SUFFICES ASSUME Node!Init PROVE NodeInv
    OBVIOUS
  <2>1. NodeTypes
    BY DEF Node!Init, Node!Assumption, NodeTypes, NodeClaims, NodeTemplates
  <2>2. NodeSync /\ Decided /\ Node!NoneForgotten
    BY DEF Node!Init, NodeSync, IsSynced, Decided, Node!NoneForgotten, Node!Due
  <2> QED
    BY <2>1, <2>2 DEF NodeInv
<1>2. NodeInv /\ [Node!Next]_(Node!vars) => NodeInv'
  <2> SUFFICES ASSUME NodeInv, [Node!Next]_(Node!vars) PROVE NodeInv'
    OBVIOUS
  <2>1. CASE UNCHANGED Node!vars
    BY <2>1 DEF Node!vars, Node!others, Node!store, Node!caches, Node!local, NodeInv,
                NodeTypes, NodeSync, Decided, Node!NoneForgotten, Node!Due, Node!InEvents
  <2>2. CASE Node!Next
    <3>1. NodeOthersNext \/ ClaimerNext
      BY <2>2 DEF Node!Next, NodeOthersNext, ClaimerNext
    <3> QED
      BY <3>1, OthersKeepNode, ClaimerKeepsNode
  <2> QED
    BY <2>1, <2>2
<1>3. NodeInv => Node!NoneForgotten
  BY DEF NodeInv
<1> QED
  BY <1>1, <1>2, <1>3, PTL DEF Node!Spec

(* The same of the claims that the agent makes for its pods.                     *)
VARIABLES templates, pod, pendingPod, cachePod, todo

Pod == INSTANCE ExtraPodCIDRSync WITH queue <- requests, edits <- changes

Annotations == [Pods -> (SUBSET Templates) \cup {None}]

PodClaims == [Pod!ClaimNames -> Pod!Labels \cup {None}]

PodTypes ==
    /\ pod \in Annotations /\ cachePod \in Annotations /\ pendingPod \in Seq(Annotations)
    /\ claim \in PodClaims /\ cacheClaim \in PodClaims /\ pendingClaim \in Seq(PodClaims)
    /\ pc # "idle" => req \in Pods
    /\ pc = "delete" => todo = {}
    /\ pc \in {"get", "write"} => tmpl \in Templates

PodSync ==
    /\ IsSynced(pendingPod, cachePod, pod)
    /\ IsSynced(pendingClaim, cacheClaim, claim)

(* A request for pod p is queued, or an event will make one.                    *)
Coming(p) == p \in requests \/ Pod!InPodEvents(p) \/ Pod!InClaimEvents(p)

(* Reconcile has still to see to template t of pod p.                           *)
InWork(p, t) ==
    /\ pc # "idle" /\ req = p
    /\ t \in todo \/ (pc \in {"get", "write"} /\ t = tmpl)

Served(p) == pod[p] = None \/ \A t \in pod[p] : Pod!Claimed(p, t) \/ InWork(p, t)

PodInv == PodTypes /\ PodSync /\ \A p \in Pods : Coming(p) \/ Served(p)

(* What a cache shows of object x and its events will show.                      *)
Shown(events, known, x) == {known[x]} \cup {events[i][x] : i \in 1..Len(events)}

LEMMA LastIsShown ==
    ASSUME NEW S, NEW events \in Seq(S), NEW known, NEW stored,
           IsSynced(events, known, stored), NEW x
    PROVE  stored[x] \in Shown(events, known, x)
<1>1. CASE events = <<>>
  BY <1>1 DEF IsSynced, Shown
<1>2. CASE events # <<>>
  <2>1. Len(events) \in 1..Len(events)
    BY <1>2
  <2> QED
    BY <1>2, <2>1 DEF IsSynced, Shown
<1> QED
  BY <1>1, <1>2

LEMMA AppendShown ==
    ASSUME NEW S, NEW events \in Seq(S), NEW f \in S, NEW known, NEW x
    PROVE  Shown(Append(events, f), known, x) = Shown(events, known, x) \cup {f[x]}
<1> DEFINE n == Len(events)
           more == Append(events, f)
<1>1. /\ n \in Nat /\ Len(more) = n + 1 /\ more[n + 1] = f
      /\ \A i \in 1..n : more[i] = events[i]
  OBVIOUS
<1>2. 1..Len(more) = (1..n) \cup {n + 1}
  <2> HIDE DEF n, more
  <2> QED
    BY <1>1
<1> HIDE DEF n, more
<1> QED
  BY <1>1, <1>2 DEF Shown, n, more

LEMMA TailShown ==
    ASSUME NEW S, NEW events \in Seq(S), events # <<>>, NEW known, NEW x
    PROVE  Shown(events, known, x) = {known[x]} \cup Shown(Tail(events), Head(events), x)
<1> DEFINE n == Len(events)
           rest == Tail(events)
<1>1. /\ n \in Nat \ {0} /\ Head(events) = events[1] /\ Len(rest) = n - 1
      /\ \A i \in 1..(n - 1) : rest[i] = events[i + 1]
  OBVIOUS
<1>2. {events[i][x] : i \in 1..n} = {events[1][x]} \cup {rest[i][x] : i \in 1..(n - 1)}
  <2> HIDE DEF n, rest
  <2>1. ASSUME NEW i \in 1..n PROVE i = 1 \/ (i - 1 \in 1..(n - 1) /\ (i - 1) + 1 = i)
    BY <1>1
  <2>2. ASSUME NEW i \in 1..(n - 1) PROVE i + 1 \in 1..n
    BY <1>1
  <2>3. 1 \in 1..n
    BY <1>1
  <2>4. ASSUME NEW i \in 1..n
        PROVE  events[i][x] \in {events[1][x]} \cup {rest[j][x] : j \in 1..(n - 1)}
    <3>1. CASE i = 1
      BY <3>1
    <3>2. CASE i - 1 \in 1..(n - 1) /\ (i - 1) + 1 = i
      <4>1. rest[i - 1] = events[i]
        BY <1>1, <3>2
      <4> QED
        BY <3>2, <4>1
    <3> QED
      BY <2>1, <3>1, <3>2
  <2>5. ASSUME NEW i \in 1..(n - 1) PROVE rest[i][x] \in {events[j][x] : j \in 1..n}
    BY <1>1, <2>2
  <2> QED
    BY <2>3, <2>4, <2>5
<1> QED
  BY <1>1, <1>2 DEF Shown

LEMMA VersionsAreShown ==
    ASSUME NEW n PROVE Pod!Versions(n) = Shown(pendingClaim, cacheClaim, n)
BY DEF Pod!Versions, Shown

LEMMA StoredIsShown ==
    ASSUME PodInv, NEW n PROVE claim[n] \in Pod!Versions(n)
BY LastIsShown, VersionsAreShown DEF PodInv, PodTypes, PodSync

LEMMA VersionsStay ==
    ASSUME UNCHANGED <<pendingClaim, cacheClaim>>
    PROVE  \A p \in Pods : Pod!InClaimEvents(p) => Pod!InClaimEvents(p)'
<1>1. \A n \in Pod!ClaimNames : Pod!Versions(n)' = Pod!Versions(n)
  BY DEF Pod!Versions
<1> QED
  BY <1>1 DEF Pod!InClaimEvents

LEMMA NamesAreClaims == \A p \in Pods, t \in Templates : Pod!claimName(p, t) \in Pod!ClaimNames
BY DEF Pod!ClaimNames

(* A claim that a write takes from a pod leaves an event for the pod.            *)
LEMMA PodWriteSettles ==
    ASSUME Pod!Assumption, PodInv, NEW f \in PodClaims, Pod!Write(f),
           UNCHANGED <<pod, pendingPod, cachePod, cacheClaim>>
    PROVE  /\ PodSync' /\ claim' \in PodClaims /\ pendingClaim' \in Seq(PodClaims)
           /\ \A p \in Pods : Pod!InClaimEvents(p) => Pod!InClaimEvents(p)'
           /\ \A p \in Pods, t \in Templates :
                  Pod!Claimed(p, t) => Pod!Claimed(p, t)' \/ Pod!InClaimEvents(p)'
<1>1. /\ claim' = f /\ pendingClaim' = Append(pendingClaim, f)
      /\ pendingClaim \in Seq(PodClaims)
  BY DEF Pod!Write, PodInv, PodTypes
<1>2. IsSynced(pendingClaim', cacheClaim, f) /\ pendingClaim' \in Seq(PodClaims)
  BY <1>1, AppendShows DEF PodInv, PodSync
<1>3. \A n \in Pod!ClaimNames : Pod!Versions(n)' = Pod!Versions(n) \cup {f[n]}
  <2> SUFFICES ASSUME NEW n \in Pod!ClaimNames
               PROVE  Pod!Versions(n)' = Pod!Versions(n) \cup {f[n]}
    OBVIOUS
  <2>1. Pod!Versions(n)' = Shown(Append(pendingClaim, f), cacheClaim, n)
    BY <1>1 DEF Pod!Versions, Shown
  <2> QED
    BY <1>1, <2>1, AppendShown, VersionsAreShown
<1>4. \A p \in Pods : Pod!InClaimEvents(p) => Pod!InClaimEvents(p)'
  BY <1>3 DEF Pod!InClaimEvents
<1>5. ASSUME NEW p \in Pods, NEW t \in Templates, Pod!Claimed(p, t), ~Pod!Claimed(p, t)'
      PROVE  Pod!InClaimEvents(p)'
  <2>1. PICK n \in Pod!ClaimNames : claim[n] = [pod |-> p, tmpl |-> t]
    BY <1>5 DEF Pod!Claimed
  <2>2. f[n] # claim[n]
    BY <1>1, <1>5, <2>1 DEF Pod!Claimed
  <2>3. claim[n] # None /\ claim[n].pod = p
    BY <2>1 DEF Pod!Assumption, Pod!Labels
  <2>4. claim[n] \in Pod!Versions(n)' /\ f[n] \in Pod!Versions(n)'
    BY <1>3, StoredIsShown
  <2> QED
    BY <2>2, <2>3, <2>4 DEF Pod!InClaimEvents
<1> QED
  BY <1>1, <1>2, <1>4, <1>5 DEF PodInv, PodSync

(* An event that is delivered makes a request of the pod it is about.            *)
LEMMA ClaimDeliverySettles ==
    ASSUME PodInv, Pod!DeliverClaim
    PROVE  /\ PodSync' /\ cacheClaim' \in PodClaims /\ pendingClaim' \in Seq(PodClaims)
           /\ \A p \in Pods : Coming(p) => Coming(p)'
<1>1. /\ pendingClaim \in Seq(PodClaims) /\ pendingClaim # <<>>
      /\ cacheClaim' = Head(pendingClaim) /\ pendingClaim' = Tail(pendingClaim)
      /\ UNCHANGED <<claim, pod, pendingPod, cachePod>> /\ requests \subseteq requests'
  BY DEF Pod!DeliverClaim, Pod!pods, PodInv, PodTypes
<1>2. /\ IsSynced(pendingClaim', cacheClaim', claim)
      /\ cacheClaim' \in PodClaims /\ pendingClaim' \in Seq(PodClaims)
  BY <1>1, TailShows DEF PodInv, PodSync
<1>3. ASSUME NEW p \in Pods, Pod!InClaimEvents(p) PROVE Coming(p)'
  <2>1. PICK n \in Pod!ClaimNames : \E c, d \in Pod!Versions(n) : c # d /\ c # None /\ c.pod = p
    BY <1>3 DEF Pod!InClaimEvents
  <2>2. PICK c \in Pod!Versions(n), d \in Pod!Versions(n) : c # d /\ c # None /\ c.pod = p
    BY <2>1
  <2>3. Pod!Versions(n) = {cacheClaim[n]} \cup Pod!Versions(n)'
    <3>1. Pod!Versions(n)' = Shown(Tail(pendingClaim), Head(pendingClaim), n)
      BY <1>1 DEF Pod!Versions, Shown
    <3> QED
      BY <1>1, <3>1, TailShown, VersionsAreShown
  <2>4. cacheClaim'[n] \in Pod!Versions(n)'
    BY DEF Pod!Versions
  <2>5. CASE cacheClaim'[n] # cacheClaim[n] /\ c \in {cacheClaim[n], cacheClaim'[n]}
    <3>1. Pod!PodsOf(cacheClaim, n) \cup Pod!PodsOf(cacheClaim', n) \subseteq requests'
      BY <2>5 DEF Pod!DeliverClaim
    <3> QED
      BY <2>2, <2>5, <3>1 DEF Pod!PodsOf, Coming
  <2>6. CASE c \in Pod!Versions(n)' /\ c # cacheClaim'[n]
    BY <2>2, <2>4, <2>6 DEF Pod!InClaimEvents, Coming
  <2>7. CASE c = cacheClaim'[n] /\ cacheClaim'[n] = cacheClaim[n]
    BY <2>2, <2>3, <2>4, <2>7 DEF Pod!InClaimEvents, Coming
  <2> QED
    BY <2>2, <2>3, <2>5, <2>6, <2>7
<1> QED
  BY <1>1, <1>2, <1>3 DEF PodInv, PodSync, Coming, Pod!InPodEvents

LEMMA PodDeliverySettles ==
    ASSUME PodInv, Pod!DeliverPod
    PROVE  /\ PodSync' /\ cachePod' \in Annotations /\ pendingPod' \in Seq(Annotations)
           /\ \A p \in Pods : Coming(p) => Coming(p)' \/ pod[p] \in {None, {}}
<1>1. /\ pendingPod \in Seq(Annotations) /\ pendingPod # <<>>
      /\ cachePod' = Head(pendingPod) /\ pendingPod' = Tail(pendingPod)
      /\ UNCHANGED <<pod, claim, pendingClaim, cacheClaim>> /\ requests \subseteq requests'
      /\ \A p \in Pods : \/ cachePod'[p] = cachePod[p] \/ p \in requests'
                         \/ cachePod'[p] \in {None, {}}
  BY DEF Pod!DeliverPod, Pod!Annotated, Pod!store, PodInv, PodTypes
<1>2. /\ IsSynced(pendingPod', cachePod', pod)
      /\ cachePod' \in Annotations /\ pendingPod' \in Seq(Annotations)
      /\ \A p \in Pods : \/ ~Shows(pendingPod, cachePod, p)
                         \/ Shows(pendingPod', cachePod', p)
                         \/ cachePod'[p] # cachePod[p]
  BY <1>1, TailShows DEF PodInv, PodSync
<1>3. ASSUME NEW p \in Pods, Pod!InPodEvents(p), ~Coming(p)' PROVE pod[p] \in {None, {}}
  <2>1. p \notin requests' /\ ~Shows(pendingPod', cachePod', p)
    BY <1>3 DEF Coming, Pod!InPodEvents, Shows
  <2>2. cachePod'[p] \in {None, {}}
    BY <1>1, <1>2, <1>3, <2>1 DEF Pod!InPodEvents, Shows
  <2>3. cachePod'[p] = pod[p]
    BY <1>2, <2>1, KnownUnlessShown
  <2> QED
    BY <2>2, <2>3
<1> QED
  BY <1>1, <1>2, <1>3, VersionsStay DEF PodInv, PodSync, Coming

(* What a step has to leave of what was coming, claimed or in work.              *)
LEMMA PodStepServes ==
    ASSUME PodInv, pod' = pod,
           \A p \in Pods : Coming(p) => Coming(p)' \/ Served(p)',
           \A p \in Pods, t \in Templates :
               Pod!Claimed(p, t) => Pod!Claimed(p, t)' \/ Coming(p)',
           \A p \in Pods, t \in Templates :
               InWork(p, t) => InWork(p, t)' \/ Pod!Claimed(p, t)' \/ Coming(p)'
    PROVE  \A p \in Pods : Coming(p)' \/ Served(p)'
<1> SUFFICES ASSUME NEW p \in Pods, ~Coming(p), ~Coming(p)', Served(p), pod[p] # None
             PROVE  \A t \in pod[p] : Pod!Claimed(p, t)' \/ InWork(p, t)'
  BY DEF PodInv, Served
<1>1. \A t \in pod[p] : t \in Templates
  <2>1. pod[p] \in (SUBSET Templates) \cup {None}
    BY DEF PodInv, PodTypes, Annotations
  <2> QED
    BY <2>1
<1> QED
  BY <1>1 DEF Served

(* A write that a step makes, and leaves everything else that matters alone.     *)
LEMMA PodWriteKeeps ==
    ASSUME Pod!Assumption, PodInv, NEW f \in PodClaims, Pod!Write(f),
           UNCHANGED <<pod, pendingPod, cachePod, cacheClaim>>, requests \subseteq requests',
           \A p \in Pods, t \in Templates :
               InWork(p, t) => InWork(p, t)' \/ Pod!Claimed(p, t)' \/ Coming(p)',
           pc' # "idle" => req' \in Pods, pc' = "delete" => todo' = {},
           pc' \in {"get", "write"} => tmpl' \in Templates
    PROVE  PodInv'
<1>1. /\ PodSync' /\ claim' \in PodClaims /\ pendingClaim' \in Seq(PodClaims)
      /\ \A p \in Pods : Pod!InClaimEvents(p) => Pod!InClaimEvents(p)'
      /\ \A p \in Pods, t \in Templates :
             Pod!Claimed(p, t) => Pod!Claimed(p, t)' \/ Pod!InClaimEvents(p)'
  BY PodWriteSettles
<1>2. \A p \in Pods : Coming(p) => Coming(p)'
  BY <1>1 DEF Coming, Pod!InPodEvents
<1>3. \A p \in Pods : Coming(p)' \/ Served(p)'
  BY <1>1, <1>2, PodStepServes DEF Coming
<1> QED
  BY <1>1, <1>3 DEF PodInv, PodTypes

(* A step that leaves the store, the caches and their events alone.              *)
LEMMA PodWorkKeeps ==
    ASSUME PodInv, UNCHANGED <<pod, pendingPod, cachePod, claim, pendingClaim, cacheClaim>>,
           \A p \in Pods : p \in requests => Coming(p)' \/ Served(p)',
           \A p \in Pods, t \in Templates :
               InWork(p, t) => InWork(p, t)' \/ Pod!Claimed(p, t) \/ Coming(p)',
           pc' # "idle" => req' \in Pods, pc' = "delete" => todo' = {},
           pc' \in {"get", "write"} => tmpl' \in Templates
    PROVE  PodInv'
<1>1. /\ PodSync'
      /\ \A p \in Pods, t \in Templates : Pod!Claimed(p, t)' <=> Pod!Claimed(p, t)
  BY DEF PodInv, PodSync, IsSynced, Pod!Claimed
<1>2. \A p \in Pods : Coming(p) => Coming(p)' \/ Served(p)'
  BY VersionsStay DEF Coming, Pod!InPodEvents
<1>3. \A p \in Pods : Coming(p)' \/ Served(p)'
  BY <1>1, <1>2, PodStepServes
<1> QED
  BY <1>1, <1>3 DEF PodInv, PodTypes

(* The steps of others, and of the caches.                                      *)
PodOthersNext ==
    \/ \E t \in Templates : Pod!AddTemplate(t)
    \/ \E p \in Pods, a \in (SUBSET Templates) \cup {None} : Pod!EditPod(p, a)
    \/ \E n \in Pod!ClaimNames : Pod!DeleteClaim(n)
    \/ Pod!DeliverPod \/ Pod!DeliverClaim \/ Pod!Resync

LEMMA OthersKeepPods ==
    ASSUME Pod!Assumption, PodInv, PodOthersNext
    PROVE  PodInv'
<1> USE DEF Pod!store, Pod!pods, Pod!caches, Pod!local
<1>1. ASSUME UNCHANGED <<pod, pendingPod, cachePod, claim, pendingClaim, cacheClaim,
                         pc, req, todo, tmpl>>, requests \subseteq requests'
      PROVE  PodInv'
  BY <1>1, PodWorkKeeps DEF PodInv, PodTypes, InWork, Coming
<1>2. CASE \E t \in Templates : Pod!AddTemplate(t)
  BY <1>1, <1>2 DEF Pod!AddTemplate
<1>3. CASE Pod!Resync
  BY <1>1, <1>3 DEF Pod!Resync
<1>4. ASSUME NEW p \in Pods, NEW a \in (SUBSET Templates) \cup {None}, Pod!EditPod(p, a)
      PROVE  PodInv'
  <2>1. /\ pod' \in Annotations /\ pendingPod \in Seq(Annotations)
        /\ pendingPod' = Append(pendingPod, pod')
        /\ UNCHANGED <<claim, pendingClaim, cachePod, cacheClaim, requests, pc, req, todo, tmpl>>
    BY <1>4 DEF Pod!EditPod, PodInv, PodTypes, Annotations
  <2>2. /\ IsSynced(pendingPod', cachePod, pod') /\ pendingPod' \in Seq(Annotations)
        /\ \A q \in Pods : \/ ~Shows(pendingPod, cachePod, q) /\ pod'[q] = pod[q]
                           \/ Shows(pendingPod', cachePod, q)
    BY <2>1, AppendShows DEF PodInv, PodSync
  <2>3. ASSUME NEW q \in Pods, ~Coming(q)' PROVE Served(q)'
    <3>1. ~Shows(pendingPod, cachePod, q) /\ pod'[q] = pod[q]
      BY <2>1, <2>2, <2>3 DEF Coming, Pod!InPodEvents, Shows
    <3>2. ~Coming(q)
      BY <2>1, <2>3, <3>1, VersionsStay DEF Coming, Pod!InPodEvents, Shows
    <3> QED
      BY <2>1, <3>1, <3>2 DEF PodInv, Served, Pod!Claimed, InWork
  <2>4. PodSync' /\ PodTypes'
    BY <2>1, <2>2 DEF PodInv, PodSync, IsSynced, PodTypes
  <2> QED
    BY <2>3, <2>4 DEF PodInv
<1>5. ASSUME NEW n \in Pod!ClaimNames, Pod!DeleteClaim(n) PROVE PodInv'
  <2>1. [claim EXCEPT ![n] = None] \in PodClaims
    BY DEF PodInv, PodTypes, PodClaims
  <2> QED
    BY <1>5, <2>1, PodWriteKeeps DEF Pod!DeleteClaim, PodInv, PodTypes, InWork
<1>6. CASE Pod!DeliverPod
  <2>1. UNCHANGED <<pod, claim, pendingClaim, cacheClaim, pc, req, todo, tmpl>>
    BY <1>6 DEF Pod!DeliverPod
  <2>2. /\ PodSync' /\ cachePod' \in Annotations /\ pendingPod' \in Seq(Annotations)
        /\ \A p \in Pods : Coming(p) => Coming(p)' \/ pod[p] \in {None, {}}
    BY <1>6, PodDeliverySettles
  <2>3. \A p \in Pods : Coming(p)' \/ Served(p)'
    BY <2>1, <2>2 DEF PodInv, Served, Pod!Claimed, InWork
  <2> QED
    BY <2>1, <2>2, <2>3 DEF PodInv, PodTypes
<1>7. CASE Pod!DeliverClaim
  <2>1. UNCHANGED <<pod, pendingPod, cachePod, claim, pc, req, todo, tmpl>>
    BY <1>7 DEF Pod!DeliverClaim
  <2>2. /\ PodSync' /\ cacheClaim' \in PodClaims /\ pendingClaim' \in Seq(PodClaims)
        /\ \A p \in Pods : Coming(p) => Coming(p)'
    BY <1>7, ClaimDeliverySettles
  <2>3. \A p \in Pods : Coming(p)' \/ Served(p)'
    BY <2>1, <2>2 DEF PodInv, Served, Pod!Claimed, InWork
  <2> QED
    BY <2>1, <2>2, <2>3 DEF PodInv, PodTypes
<1> QED
  BY <1>2, <1>3, <1>4, <1>5, <1>6, <1>7 DEF PodOthersNext

(* The steps of Reconcile.                                                      *)
SyncNext ==
    \/ \E p \in Pods : Pod!GetPod(p)
    \/ \E t \in Templates : Pod!GetTemplate(t)
    \/ Pod!deleteCIDRClaim \/ Pod!Done \/ Pod!GetClaim
    \/ Pod!Upsert \/ Pod!UpsertRefused \/ Pod!UpsertFails

LEMMA SyncKeepsPods ==
    ASSUME Pod!Assumption, PodInv, SyncNext
    PROVE  PodInv'
<1> USE DEF Pod!store, Pod!pods, Pod!caches
<1>1. ASSUME NEW p \in Pods, Pod!GetPod(p) PROVE PodInv'
  <2>1. /\ UNCHANGED <<pod, pendingPod, cachePod, claim, pendingClaim, cacheClaim, tmpl>>
        /\ requests' = requests \ {p} /\ pc = "idle" /\ req' = p
        /\ IF cachePod[p] = None THEN pc' = "delete" /\ todo' = {}
           ELSE pc' = "next" /\ todo' = cachePod[p]
    BY <1>1 DEF Pod!GetPod
  <2>2. Coming(p)' \/ cachePod[p] = pod[p]
    <3>1. Shows(pendingPod, cachePod, p) \/ cachePod[p] = pod[p]
      BY KnownUnlessShown DEF PodInv, PodTypes, PodSync
    <3> QED
      BY <2>1, <3>1 DEF Coming, Pod!InPodEvents, Shows
  <2>3. Coming(p)' \/ Served(p)'
    BY <2>1, <2>2 DEF Served, InWork
  <2>4. \A q \in Pods : q \in requests => Coming(q)' \/ Served(q)'
    BY <2>1, <2>3 DEF Coming
  <2> QED
    BY <2>1, <2>4, PodWorkKeeps DEF InWork
<1>2. ASSUME NEW t \in Templates, Pod!GetTemplate(t) PROVE PodInv'
  <2>1. /\ UNCHANGED <<pod, pendingPod, cachePod, claim, pendingClaim, cacheClaim>>
        /\ pc = "next" /\ req \in Pods /\ requests \subseteq requests'
    BY <1>2 DEF Pod!GetTemplate, PodInv, PodTypes
  <2>2. CASE tmpl' = t /\ todo' = todo \ {t} /\ pc' = "get" /\ req' = req
    BY <2>1, <2>2, PodWorkKeeps DEF InWork, Coming
  <2>3. CASE Pod!Return /\ requests' = requests \cup {req}
    BY <2>1, <2>3, PodWorkKeeps DEF Pod!Return, InWork, Coming
  <2> QED
    BY <1>2, <2>2, <2>3 DEF Pod!GetTemplate
<1>3. CASE Pod!deleteCIDRClaim
  <2> DEFINE mine == {n \in Pod!ClaimNames : claim[n] # None /\ claim[n].pod = req}
             f == [n \in Pod!ClaimNames |-> IF n \in mine THEN None ELSE claim[n]]
  <2>1. /\ UNCHANGED <<pod, pendingPod, cachePod, cacheClaim, requests>>
        /\ pc = "delete" /\ todo = {} /\ Pod!Return
        /\ (claim' = claim /\ pendingClaim' = pendingClaim) \/ Pod!Write(f)
    BY <1>3 DEF Pod!deleteCIDRClaim, PodInv, PodTypes
  <2>2. f \in PodClaims
    BY DEF PodInv, PodTypes, PodClaims
  <2> HIDE DEF f
  <2>3. CASE claim' = claim /\ pendingClaim' = pendingClaim
    BY <2>1, <2>3, PodWorkKeeps DEF Pod!Return, InWork, Coming
  <2>4. CASE Pod!Write(f)
    BY <2>1, <2>2, <2>4, PodWriteKeeps DEF Pod!Return, InWork
  <2> QED
    BY <2>1, <2>3, <2>4
<1>4. CASE Pod!Done
  BY <1>4, PodWorkKeeps DEF Pod!Done, Pod!Return, InWork, Coming
<1>5. CASE Pod!GetClaim
  <2> DEFINE n == Pod!claimName(req, tmpl)
  <2>1. /\ UNCHANGED <<pod, pendingPod, cachePod, claim, pendingClaim, cacheClaim, requests>>
        /\ pc = "get" /\ req \in Pods /\ tmpl \in Templates /\ req' = req /\ todo' = todo
    BY <1>5 DEF Pod!GetClaim, PodInv, PodTypes
  <2>2. n \in Pod!ClaimNames
    BY <2>1, NamesAreClaims
  <2>3. CASE cacheClaim[n] = [pod |-> req, tmpl |-> tmpl] /\ pc' = "next"
    <3>1. Pod!InClaimEvents(req) \/ claim[n] = [pod |-> req, tmpl |-> tmpl]
      <4> HIDE DEF n
      <4>1. claim[n] \in Pod!Versions(n) /\ cacheClaim[n] \in Pod!Versions(n)
        BY StoredIsShown DEF Pod!Versions
      <4>2. cacheClaim[n] # None /\ cacheClaim[n].pod = req
        BY <2>1, <2>3 DEF Pod!Assumption, Pod!Labels
      <4> QED
        BY <2>2, <2>3, <4>1, <4>2 DEF Pod!InClaimEvents
    <3>2. Coming(req)' \/ Pod!Claimed(req, tmpl)
      <4>1. CASE Pod!InClaimEvents(req)
        BY <2>1, <4>1, VersionsStay DEF Coming
      <4>2. CASE claim[n] = [pod |-> req, tmpl |-> tmpl]
        BY <2>2, <4>2 DEF Pod!Claimed
      <4> QED
        BY <3>1, <4>1, <4>2
    <3> QED
      BY <2>1, <2>3, <3>2, PodWorkKeeps DEF InWork, Coming
  <2>4. CASE pc' = "write" /\ tmpl' = tmpl
    BY <2>1, <2>4, PodWorkKeeps DEF InWork, Coming
  <2> QED
    BY <1>5, <2>3, <2>4 DEF Pod!GetClaim
<1> DEFINE f == [claim EXCEPT ![Pod!claimName(req, tmpl)] = [pod |-> req, tmpl |-> tmpl]]
<1>6. ASSUME pc = "write", Pod!Write(f)
      PROVE  /\ f \in PodClaims
             /\ \A p \in Pods, t \in Templates :
                    p = req /\ t = tmpl => Pod!Claimed(p, t)'
  <2>1. req \in Pods /\ tmpl \in Templates /\ claim \in PodClaims
    BY <1>6 DEF PodInv, PodTypes
  <2>2. Pod!claimName(req, tmpl) \in Pod!ClaimNames
    BY <2>1, NamesAreClaims
  <2>3. f \in PodClaims
    BY <2>1, <2>2 DEF PodClaims, Pod!Labels
  <2>4. claim'[Pod!claimName(req, tmpl)] = [pod |-> req, tmpl |-> tmpl]
    BY <1>6, <2>1, <2>2 DEF Pod!Write, PodClaims
  <2>5. ASSUME NEW p \in Pods, NEW t \in Templates, p = req, t = tmpl
        PROVE  Pod!Claimed(p, t)'
    BY <2>2, <2>4, <2>5 DEF Pod!Claimed
  <2> QED
    BY <2>3, <2>5
<1>7. CASE Pod!Upsert
  <2>1. /\ UNCHANGED <<pod, pendingPod, cachePod, cacheClaim, requests, req, todo>>
        /\ pc = "write" /\ pc' = "next" /\ Pod!Write(f)
    BY <1>7 DEF Pod!Upsert, Pod!WriteClaim
  <2>2. /\ f \in PodClaims /\ req \in Pods
        /\ \A p \in Pods, t \in Templates : p = req /\ t = tmpl => Pod!Claimed(p, t)'
    BY <1>6, <2>1 DEF PodInv, PodTypes
  <2> HIDE DEF f
  <2> QED
    BY <2>1, <2>2, PodWriteKeeps DEF InWork
<1>8. ASSUME pc = "write", Pod!Return, requests' = requests \cup {req},
             UNCHANGED <<pod, pendingPod, cachePod, cacheClaim>>,
             (claim' = claim /\ pendingClaim' = pendingClaim) \/ Pod!Write(f)
      PROVE  PodInv'
  <2>1. CASE claim' = claim /\ pendingClaim' = pendingClaim
    BY <1>8, <2>1, PodWorkKeeps DEF Pod!Return, InWork, Coming
  <2>2. CASE Pod!Write(f)
    <3>1. f \in PodClaims
      BY <1>6, <1>8, <2>2
    <3> HIDE DEF f
    <3> QED
      BY <1>8, <2>2, <3>1, PodWriteKeeps DEF Pod!Return, InWork, Coming
  <2> QED
    BY <1>8, <2>1, <2>2
<1>9. CASE Pod!UpsertRefused
  BY <1>8, <1>9 DEF Pod!UpsertRefused
<1>10. CASE Pod!UpsertFails
  BY <1>8, <1>10 DEF Pod!UpsertFails, Pod!WriteClaim
<1> QED
  BY <1>1, <1>2, <1>3, <1>4, <1>5, <1>7, <1>9, <1>10 DEF SyncNext

(* No pod is forgotten: unless a request for it is queued, under way or still to *)
(* come from an event, a pod that runs has every claim that its annotation names. *)
(* A Reconcile works through the templates it read at its start, one after the   *)
(* other, while the pod is edited and claims it has seen to are deleted; and the *)
(* claims of long names, which overwrite each other also between two pods, leave *)
(* an event for the pod that loses one.                                          *)
THEOREM NoPodForgotten == ASSUME Pod!Assumption PROVE Pod!Spec => []Pod!NoneForgotten
<1>1. Pod!Init => PodInv
  <2> SUFFICES ASSUME Pod!Init PROVE PodInv
    OBVIOUS
  <2>1. /\ pod = [p \in Pods |-> None] /\ claim = [n \in Pod!ClaimNames |-> None]
        /\ cachePod = pod /\ cacheClaim = claim /\ pc = "idle"
        /\ pendingPod = <<>> /\ pendingClaim = <<>>
    BY DEF Pod!Init
  <2>2. pod \in Annotations /\ claim \in PodClaims
    BY <2>1 DEF Annotations, PodClaims
  <2>3. PodTypes /\ PodSync
    BY <2>1, <2>2 DEF PodTypes, PodSync, IsSynced
  <2>4. \A p \in Pods : Served(p)
    BY <2>1 DEF Served
  <2> QED
    BY <2>3, <2>4 DEF PodInv
<1>2. ASSUME PodInv, [Pod!Next]_(Pod!vars) PROVE PodInv'
  <2>1. CASE UNCHANGED Pod!vars
    <3>1. UNCHANGED <<pod, pendingPod, cachePod, claim, pendingClaim, cacheClaim,
                      requests, pc, req, todo, tmpl>>
      BY <2>1 DEF Pod!vars, Pod!store, Pod!pods, Pod!caches, Pod!local
    <3> QED
      BY <1>2, <3>1, PodWorkKeeps DEF PodInv, PodTypes, InWork, Coming
  <2>2. CASE Pod!Next
    <3>1. PodOthersNext \/ SyncNext
      BY <2>2 DEF Pod!Next, PodOthersNext, SyncNext
    <3> QED
      BY <1>2, <3>1, OthersKeepPods, SyncKeepsPods
  <2> QED
    BY <1>2, <2>1, <2>2
<1>3. PodInv => Pod!NoneForgotten
  BY DEF PodInv, Pod!NoneForgotten, Pod!Due, Coming, Served, InWork
<1> QED
  BY <1>1, <1>2, <1>3, PTL DEF Pod!Spec

=============================================================================
