--------------------------- MODULE InductionProofs ---------------------------
(***************************************************************************)
(* Induction and primitive recursion over the natural numbers, stated with *)
(* sets and functions in place of operators so that the other proofs can   *)
(* cite them.  They rest on the theorem that strict inclusion of finite    *)
(* sets is well founded.                                                   *)
(***************************************************************************)
EXTENDS Integers, FiniteSets, FiniteSetTheorems, WellFoundedInduction, TLAPS

(* Every non-empty set of natural numbers has a least element: the initial segments
   below them are finite sets, ordered by strict inclusion.                 *)
LEMMA LeastNatural ==
    ASSUME NEW S \in SUBSET Nat, S # {}
    PROVE  \E m \in S : \A n \in S : m <= n
<1> DEFINE Initial(n) == 0 .. (n - 1)
           T == {Initial(n) : n \in S}
<1>1. \A n \in Nat : Initial(n) \in FiniteSubsetsOf(Nat)
    <2> TAKE n \in Nat
    <2>1. IsFiniteSet(0 .. (n - 1))
        BY FS_Interval
    <2> QED
        BY <2>1 DEF FiniteSubsetsOf
<1>2. T \subseteq FiniteSubsetsOf(Nat) /\ T # {}
    BY <1>1
<1>3. PICK t \in T : \A u \in T : ~ (<<u, t>> \in StrictSubsetOrdering(Nat))
    <2> HIDE DEF T
    <2> QED
        BY <1>2, WFMin, FS_StrictSubsetOrderingWellFounded
<1>4. PICK m \in S : t = Initial(m)
    BY <1>3
<1>5. ASSUME NEW n \in S, n < m PROVE FALSE
    <2>1. Initial(n) \in SUBSET Nat /\ t \in SUBSET Nat /\ Initial(n) \in T
        BY <1>4
    <2>2. Initial(n) \subseteq t
        BY <1>4, <1>5
    <2>3. n \in t /\ n \notin Initial(n)
        BY <1>4, <1>5
    <2>4. <<Initial(n), t>> \in StrictSubsetOrdering(Nat)
        BY <2>1, <2>2, <2>3 DEF StrictSubsetOrdering
    <2> QED
        BY <1>3, <2>1, <2>4
<1> QED
    BY <1>5

(* Induction, for a set: loops that count up, as the mip loop of Image::generateMipmaps
   (image.cpp:164-210) and the search of Device::findQueueFamilies (device.cpp:318-335).  *)
LEMMA NaturalInduction ==
    ASSUME NEW S, 0 \in S, \A n \in Nat : n \in S => n + 1 \in S
    PROVE  Nat \subseteq S
<1> SUFFICES ASSUME Nat \ S # {} PROVE FALSE
    OBVIOUS
<1>1. PICK m \in Nat \ S : \A n \in Nat \ S : m <= n
    BY LeastNatural
<1>2. m - 1 \in Nat /\ m - 1 \in S
    BY <1>1
<1> QED
    BY <1>1, <1>2

-----------------------------------------------------------------------------
(* f is the function with the value base at 0 and step[<<n, f[n]>>] at n + 1. *)
Recurs(f, X, base, step) ==
    f \in [Nat -> X] /\ f[0] = base /\ \A n \in Nat : f[n + 1] = step[<<n, f[n]>>]

(* Whatever base and step are, such a function exists; recursive functions of the models
   that are defined by CHOOSE are thereby what their equations say.         *)
LEMMA PrimitiveRecursion ==
    ASSUME NEW X, NEW base \in X, NEW step \in [Nat \X X -> X]
    PROVE  \E f : Recurs(f, X, base, step)
<1> DEFINE Solves(g, n) == /\ g \in [0 .. n -> X] /\ g[0] = base
                           /\ \A k \in 0 .. (n - 1) : g[k + 1] = step[<<k, g[k]>>]
           Solvable == {n \in Nat : \E g \in [0 .. n -> X] : Solves(g, n)}
<1>1. 0 \in Solvable
    <2>1. Solves([k \in 0 .. 0 |-> base], 0)
        OBVIOUS
    <2> QED
        BY <2>1
<1>2. ASSUME NEW n \in Nat, n \in Solvable PROVE n + 1 \in Solvable
    <2>1. PICK g \in [0 .. n -> X] : Solves(g, n)
        BY <1>2
    <2> DEFINE h == [k \in 0 .. (n + 1) |-> IF k = n + 1 THEN step[<<n, g[n]>>] ELSE g[k]]
    <2>2. h \in [0 .. (n + 1) -> X]
        BY <2>1
    <2>3. ASSUME NEW k \in 0 .. n PROVE h[k + 1] = step[<<k, h[k]>>]
        <3>1. CASE k = n
            <4>1. h[n + 1] = step[<<n, g[n]>>] /\ h[n] = g[n]
                OBVIOUS
            <4> HIDE DEF h
            <4> QED
                BY <3>1, <4>1
        <3>2. CASE k \in 0 .. (n - 1)
            <4>1. g[k + 1] = step[<<k, g[k]>>]
                BY <2>1, <3>2
            <4>2. h[k + 1] = g[k + 1] /\ h[k] = g[k]
                BY <3>2
            <4> QED
                BY <4>1, <4>2
        <3> QED
            BY <3>1, <3>2
    <2>4. h[0] = base
        BY <2>1
    <2>5. Solves(h, n + 1)
        <3> HIDE DEF h
        <3>1. \A k \in 0 .. ((n + 1) - 1) : h[k + 1] = step[<<k, h[k]>>]
            <4>1. (n + 1) - 1 = n
                OBVIOUS
            <4> QED
                BY <2>3, <4>1
        <3> QED
            BY <2>2, <2>4, <3>1
    <2> HIDE DEF h
    <2> HIDE DEF Solves
    <2>6. \E e \in [0 .. (n + 1) -> X] : Solves(e, n + 1)
        BY <2>2, <2>5
    <2> QED
        BY <2>6
<1>3. \A n \in Nat : \E g : Solves(g, n)
    <2>1. Nat \subseteq Solvable
        <3> HIDE DEF Solvable
        <3> QED
            BY <1>1, <1>2, NaturalInduction
    <2> QED
        BY <2>1
<1>4. ASSUME NEW n \in Nat, NEW m \in Nat, n <= m, NEW g, NEW h, Solves(g, n), Solves(h, m)
      PROVE  g[n] = h[n]
    <2> DEFINE Agree == {k \in Nat : k <= n => g[k] = h[k]}
    <2>1. 0 \in Agree
        BY <1>4
    <2>2. ASSUME NEW k \in Nat, k \in Agree PROVE k + 1 \in Agree
        <3> SUFFICES ASSUME k + 1 <= n PROVE g[k + 1] = h[k + 1]
            OBVIOUS
        <3>1. k \in 0 .. (n - 1) /\ k \in 0 .. (m - 1)
            BY <1>4
        <3>2. g[k + 1] = step[<<k, g[k]>>] /\ h[k + 1] = step[<<k, h[k]>>]
            BY <1>4, <3>1
        <3> QED
            BY <2>2, <3>1, <3>2
    <2>3. Nat \subseteq Agree
        <3> HIDE DEF Agree
        <3> QED
            BY <2>1, <2>2, NaturalInduction
    <2> QED
        BY <2>3
<1> DEFINE Solution(n) == CHOOSE g : Solves(g, n)
           f == [n \in Nat |-> Solution(n)[n]]
<1>5. \A n \in Nat : Solves(Solution(n), n)
    BY <1>3
<1> HIDE DEF Solution
<1>6. f \in [Nat -> X] /\ f[0] = base
    BY <1>5
<1>7. ASSUME NEW n \in Nat PROVE f[n + 1] = step[<<n, f[n]>>]
    <2>1. Solution(n)[n] = Solution(n + 1)[n]
        <3> HIDE DEF Solves
        <3>1. n + 1 \in Nat /\ n <= n + 1
            OBVIOUS
        <3> QED
            BY <1>4, <1>5, <3>1
    <2>2. Solution(n + 1)[n + 1] = step[<<n, Solution(n + 1)[n]>>]
        BY <1>5
    <2> QED
        BY <2>1, <2>2
<1> QED
    BY <1>6, <1>7 DEF Recurs

-----------------------------------------------------------------------------
(* Powers of two *)

(* One more element doubles the number of subsets, the step from 2^n to 2^(n+1).  *)
LEMMA SubsetsDouble ==
    ASSUME NEW S, IsFiniteSet(S), NEW x, x \notin S
    PROVE  /\ IsFiniteSet(SUBSET (S \cup {x}))
           /\ Cardinality(SUBSET (S \cup {x})) = 2 * Cardinality(SUBSET S)
<1> DEFINE With == {T \cup {x} : T \in SUBSET S}
           add == [T \in SUBSET S |-> T \cup {x}]
<1>1. IsFiniteSet(SUBSET S) /\ Cardinality(SUBSET S) \in Nat
    BY FS_SUBSET, FS_CardinalityType
<1>2. add \in Bijection(SUBSET S, With)
    <2>1. add \in [SUBSET S -> With]
        OBVIOUS
    <2>2. ASSUME NEW T \in SUBSET S, NEW U \in SUBSET S, add[T] = add[U] PROVE T = U
        <3>1. T = add[T] \ {x} /\ U = add[U] \ {x}
            OBVIOUS
        <3> QED
            BY <2>2, <3>1
    <2>3. \A V \in With : \E T \in SUBSET S : add[T] = V
        OBVIOUS
    <2> HIDE DEF add, With
    <2> QED
        BY <2>1, <2>2, <2>3 DEF Bijection, Injection, Surjection, IsInjective
<1>3. ExistsBijection(SUBSET S, With)
    BY <1>2 DEF ExistsBijection
<1>4. IsFiniteSet(With) /\ Cardinality(With) = Cardinality(SUBSET S)
    <2> HIDE DEF With
    <2> QED
        BY <1>1, <1>3, FS_Bijection
<1>5. SUBSET (S \cup {x}) = (SUBSET S) \cup With /\ (SUBSET S) \cap With = {}
    <2>1. \A T \in SUBSET (S \cup {x}) : x \in T => T \in With
        <3> TAKE T \in SUBSET (S \cup {x})
        <3> HAVE x \in T
        <3>1. T \ {x} \in SUBSET S /\ T = (T \ {x}) \cup {x}
            OBVIOUS
        <3> QED
            BY <3>1
    <2>2. \A T \in With : x \in T /\ T \in SUBSET (S \cup {x})
        OBVIOUS
    <2> HIDE DEF With
    <2> QED
        BY <2>1, <2>2
<1>6. Cardinality((SUBSET S) \cap With) = 0
    BY <1>5, FS_EmptySet
<1>7. /\ IsFiniteSet((SUBSET S) \cup With)
      /\ Cardinality((SUBSET S) \cup With)
            = Cardinality(SUBSET S) + Cardinality(With) - Cardinality((SUBSET S) \cap With)
    <2> HIDE DEF With
    <2> QED
        BY <1>1, <1>4, FS_Union
<1> HIDE DEF With
<1>8. Cardinality((SUBSET S) \cup With) = 2 * Cardinality(SUBSET S)
    BY <1>1, <1>4, <1>6, <1>7
<1> QED
    BY <1>5, <1>7, <1>8

(* The powers of two are positive and double: the extents of mip levels are halved once
   per level (image.cpp:208-209).                                           *)
LEMMA PowerOfTwo ==
    /\ 2 ^ 0 = 1
    /\ \A n \in Nat : 2 ^ n \in Nat \ {0} /\ 2 ^ (n + 1) = 2 * 2 ^ n
<1>1. ASSUME NEW n \in Nat PROVE IsFiniteSet(1 .. n) /\ Cardinality(1 .. n) = n
    <2>1. IsFiniteSet(1 .. n) /\ Cardinality(1 .. n) = IF 1 > n THEN 0 ELSE n - 1 + 1
        BY FS_Interval
    <2> QED
        BY <2>1
<1>2. ASSUME NEW n \in Nat PROVE Cardinality(SUBSET (1 .. n)) = 2 ^ n
    <2>1. Cardinality(SUBSET (1 .. n)) = 2 ^ Cardinality(1 .. n)
        BY <1>1, FS_SUBSET
    <2> QED
        BY <1>1, <2>1
<1>3. 2 ^ 0 = 1
    <2>1. SUBSET (1 .. 0) = {{}}
        OBVIOUS
    <2> QED
        BY <1>2, <2>1, FS_Singleton
<1>4. ASSUME NEW n \in Nat PROVE 2 ^ (n + 1) = 2 * 2 ^ n
    <2>1. 1 .. (n + 1) = (1 .. n) \cup {n + 1} /\ n + 1 \notin 1 .. n
        OBVIOUS
    <2>2. Cardinality(SUBSET ((1 .. n) \cup {n + 1})) = 2 * Cardinality(SUBSET (1 .. n))
        BY <1>1, <2>1, SubsetsDouble
    <2> QED
        BY <1>2, <2>1, <2>2
<1>5. ASSUME NEW n \in Nat PROVE 2 ^ n \in Nat \ {0}
    <2>1. IsFiniteSet(SUBSET (1 .. n)) /\ {} \in SUBSET (1 .. n)
        BY <1>1, FS_SUBSET
    <2>2. Cardinality(SUBSET (1 .. n)) \in Nat /\ Cardinality(SUBSET (1 .. n)) # 0
        BY <2>1, FS_CardinalityType, FS_EmptySet
    <2> QED
        BY <1>2, <2>2
<1> QED
    BY <1>3, <1>4, <1>5

(* A greater exponent gives no smaller power.                               *)
LEMMA PowersGrow == \A m, n \in Nat : m <= n => 2 ^ m <= 2 ^ n
<1> TAKE m \in Nat
<1> DEFINE S == {d \in Nat : 2 ^ m <= 2 ^ (m + d)}
<1>1. 0 \in S
    BY PowerOfTwo
<1>2. ASSUME NEW d \in Nat, d \in S PROVE d + 1 \in S
    <2>1. 2 ^ ((m + d) + 1) = 2 * 2 ^ (m + d) /\ 2 ^ (m + d) \in Nat /\ 2 ^ m \in Nat
        BY PowerOfTwo
    <2>2. (m + d) + 1 = m + (d + 1)
        OBVIOUS
    <2>3. 2 ^ m <= 2 ^ ((m + d) + 1)
        BY <1>2, <2>1
    <2> QED
        BY <2>2, <2>3
<1>3. Nat \subseteq S
    <2> HIDE DEF S
    <2> QED
        BY <1>1, <1>2, NaturalInduction
<1> TAKE n \in Nat
<1> HAVE m <= n
<1>4. n - m \in S /\ m + (n - m) = n
    BY <1>3
<1> QED
    BY <1>4

-----------------------------------------------------------------------------
(* Quotients *)

(* Integer division as the code uses it (mipWidth / 2).                     *)
LEMMA Quotient ==
    ASSUME NEW a \in Nat, NEW b \in Nat \ {0}
    PROVE  a \div b \in Nat /\ (a \div b) * b <= a /\ a < (a \div b) * b + b
OBVIOUS

(* A quotient is the only number with its bounds.                           *)
LEMMA QuotientUnique ==
    ASSUME NEW a \in Nat, NEW b \in Nat \ {0}, NEW q \in Nat, q * b <= a, a < q * b + b
    PROVE  a \div b = q
OBVIOUS

(* A product grows with its factor; provers need this stated for variables. *)
LEMMA ProductMonotonic ==
    ASSUME NEW a \in Nat, NEW b \in Nat, NEW p \in Nat, a <= b
    PROVE  a * p <= b * p
OBVIOUS

(* Twice a number times p is the number times 2p.                           *)
LEMMA TwiceProduct ==
    ASSUME NEW h \in Nat, NEW p \in Nat
    PROVE  (2 * h) * p = h * (2 * p) /\ (2 * h + 1) * p = h * (2 * p) + p
OBVIOUS

(* Halving a quotient doubles the divisor: halving level by level reaches what dividing by
   a power of two gives (image.cpp:208-209).                                *)
LEMMA HalfOfQuotient ==
    ASSUME NEW a \in Nat, NEW p \in Nat \ {0}
    PROVE  (a \div p) \div 2 = a \div (2 * p)
<1> DEFINE q == a \div p
           h == q \div 2
<1>1. q \in Nat /\ q * p <= a /\ a < q * p + p
    BY Quotient
<1>2. h \in Nat /\ 2 * h <= q /\ q <= 2 * h + 1
    BY <1>1
<1> HIDE DEF q, h
<1>3. (2 * h) * p <= q * p /\ q * p <= (2 * h + 1) * p
    BY <1>1, <1>2, ProductMonotonic
<1>4. h * (2 * p) <= a /\ a < h * (2 * p) + 2 * p
    <2>1. h * (2 * p) \in Nat /\ q * p \in Nat
        BY <1>1, <1>2
    <2> QED
        BY <1>1, <1>2, <1>3, <2>1, TwiceProduct
<1>5. a \div (2 * p) = h
    BY <1>2, <1>4, QuotientUnique
<1> QED
    BY <1>5 DEF q, h
=============================================================================
