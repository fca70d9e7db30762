--------------------------- MODULE LifetimesProofs ---------------------------
(***************************************************************************)
(* Proofs about Lifetimes for every number of frames in flight, models and *)
(* textures: that no sequence of failures, recreations and toggles         *)
(* destroys a handle that was given away, or twice, or after its device.   *)
(***************************************************************************)
EXTENDS Lifetimes, InductionProofs

-----------------------------------------------------------------------------
(* Lists                                                                   *)

List(s) == s \in Seq(ToSet(s))

(* A list has positions 1 to its length. *)
LEMMA ListShape ==
    ASSUME NEW s, List(s)
    PROVE  /\ Len(s) \in Nat /\ DOMAIN s = 1 .. Len(s)
           /\ ToSet(s) = {s[k] : k \in 1 .. Len(s)}
           /\ Len(s) = 0 => s = <<>>
BY DEF List, ToSet

(* A sequence over any set is a list. *)
LEMMA SeqList == ASSUME NEW X, NEW s \in Seq(X) PROVE List(s) /\ ToSet(s) \subseteq X
<1>1. Len(s) \in Nat /\ s \in [1 .. Len(s) -> X]
    OBVIOUS
<1>2. ToSet(s) = {s[k] : k \in 1 .. Len(s)}
    BY <1>1 DEF ToSet
<1>3. s \in [1 .. Len(s) -> ToSet(s)]
    BY <1>1, <1>2
<1> QED
    BY <1>1, <1>2, <1>3 DEF List

(* Short lists, as the constructors and destructors are made of. *)
LEMMA ListOf0 == List(<<>>) /\ ToSet(<<>>) = {} /\ Len(<<>>) = 0
BY DEF List, ToSet

(* One call. *)
LEMMA ListOf1 == ASSUME NEW a PROVE List(<<a>>) /\ ToSet(<<a>>) = {a}
<1>1. <<a>> \in Seq({a})
    OBVIOUS
<1>2. ToSet(<<a>>) = {a}
    BY DEF ToSet
<1> QED
    BY <1>1, <1>2 DEF List

(* Two. *)
LEMMA ListOf2 == ASSUME NEW a, NEW b PROVE List(<<a, b>>) /\ ToSet(<<a, b>>) = {a, b}
<1>1. <<a, b>> \in Seq({a, b})
    OBVIOUS
<1>2. ToSet(<<a, b>>) = {a, b}
    BY DEF ToSet
<1> QED
    BY <1>1, <1>2 DEF List

(* Three. *)
LEMMA ListOf3 == ASSUME NEW a, NEW b, NEW c PROVE List(<<a, b, c>>) /\ ToSet(<<a, b, c>>) = {a, b, c}
<1>1. <<a, b, c>> \in Seq({a, b, c})
    OBVIOUS
<1>2. ToSet(<<a, b, c>>) = {a, b, c}
    BY DEF ToSet
<1> QED
    BY <1>1, <1>2 DEF List

(* Four: the device's (device.cpp:45-52). *)
LEMMA ListOf4 ==
    ASSUME NEW a, NEW b, NEW c, NEW d
    PROVE  List(<<a, b, c, d>>) /\ ToSet(<<a, b, c, d>>) = {a, b, c, d}
<1>1. <<a, b, c, d>> \in Seq({a, b, c, d})
    OBVIOUS
<1>2. ToSet(<<a, b, c, d>>) = {a, b, c, d}
    BY DEF ToSet
<1> QED
    BY <1>1, <1>2 DEF List

(* The elements of a concatenation, and where they are. *)
LEMMA CatShape ==
    ASSUME NEW s, NEW t, List(s), List(t)
    PROVE  /\ List(s \o t)
           /\ ToSet(s \o t) = ToSet(s) \cup ToSet(t)
           /\ Len(s \o t) = Len(s) + Len(t)
           /\ \A k \in 1 .. Len(s) : (s \o t)[k] = s[k]
           /\ \A k \in 1 .. Len(t) : (s \o t)[Len(s) + k] = t[k]
<1> DEFINE X == ToSet(s) \cup ToSet(t)
           u == s \o t
<1>1. s \in Seq(X) /\ t \in Seq(X)
    BY DEF List
<1>2. /\ u \in Seq(X) /\ Len(u) = Len(s) + Len(t)
      /\ \A k \in 1 .. Len(s) : u[k] = s[k]
      /\ \A k \in 1 .. Len(t) : u[Len(s) + k] = t[k]
    <2> HIDE DEF X
    <2> QED
        BY <1>1
<1>3. Len(s) \in Nat /\ Len(t) \in Nat
    BY <1>1
<1> HIDE DEF u
<1>4. List(u) /\ ToSet(u) \subseteq X
    BY <1>2, SeqList
<1>5. /\ ToSet(u) = {u[k] : k \in 1 .. Len(u)}
      /\ ToSet(s) = {s[k] : k \in 1 .. Len(s)}
      /\ ToSet(t) = {t[k] : k \in 1 .. Len(t)}
    BY <1>4, ListShape
<1>6. \A k \in 1 .. Len(s) : k \in 1 .. Len(u)
    BY <1>2, <1>3
<1>7. \A k \in 1 .. Len(t) : Len(s) + k \in 1 .. Len(u)
    BY <1>2, <1>3
<1>8. ToSet(s) \subseteq ToSet(u)
    BY <1>2, <1>5, <1>6
<1>9. ToSet(t) \subseteq ToSet(u)
    BY <1>2, <1>5, <1>7
<1> QED
    BY <1>2, <1>4, <1>8, <1>9 DEF u

(* What a call that is taken leaves of the list. *)
LEMMA TailShape ==
    ASSUME NEW s, List(s), s # <<>>
    PROVE  /\ List(Tail(s)) /\ Len(s) \in Nat \ {0}
           /\ Head(s) = s[1]
           /\ Len(Tail(s)) = Len(s) - 1
           /\ \A k \in 1 .. (Len(s) - 1) : Tail(s)[k] = s[k + 1]
           /\ ToSet(s) = {Head(s)} \cup ToSet(Tail(s))
<1>1. /\ s \in Seq(ToSet(s)) /\ Len(s) \in Nat \ {0}
      /\ Tail(s) \in Seq(ToSet(s)) /\ Head(s) = s[1] /\ Len(Tail(s)) = Len(s) - 1
      /\ \A k \in 1 .. (Len(s) - 1) : Tail(s)[k] = s[k + 1]
    BY DEF List
<1>2. List(Tail(s))
    BY <1>1, SeqList
<1>3. /\ ToSet(s) = {s[k] : k \in 1 .. Len(s)}
      /\ ToSet(Tail(s)) = {Tail(s)[k] : k \in 1 .. (Len(s) - 1)}
    BY <1>1, <1>2, ListShape
<1>4. ASSUME NEW k \in 1 .. Len(s) PROVE k = 1 \/ (k - 1 \in 1 .. (Len(s) - 1) /\ (k - 1) + 1 = k)
    BY <1>1
<1>5. ASSUME NEW k \in 1 .. (Len(s) - 1) PROVE k + 1 \in 1 .. Len(s)
    BY <1>1
<1>6. ToSet(s) \subseteq {Head(s)} \cup ToSet(Tail(s))
    BY <1>1, <1>3, <1>4
<1>7. ToSet(Tail(s)) \subseteq ToSet(s)
    BY <1>1, <1>3, <1>5
<1>8. Head(s) \in ToSet(s)
    BY <1>1, <1>3
<1> QED
    BY <1>1, <1>2, <1>6, <1>7, <1>8

(* A list that is there on a condition. *)
LEMMA IfShape ==
    ASSUME NEW c \in BOOLEAN, NEW s, List(s)
    PROVE  List(If(c, s)) /\ ToSet(If(c, s)) = (IF c THEN ToSet(s) ELSE {})
BY ListOf0 DEF If

(* The calls for the handles of a list. *)
LEMMA CallsShape ==
    ASSUME NEW s, List(s)
    PROVE  /\ List(Create(s)) /\ ToSet(Create(s)) = {<<"create", h>> : h \in ToSet(s)}
           /\ List(Destroy(s)) /\ ToSet(Destroy(s)) = {<<"destroy", h>> : h \in ToSet(s)}
           /\ Len(Create(s)) = Len(s) /\ \A k \in 1 .. Len(s) : Create(s)[k] = <<"create", s[k]>>
           /\ Len(Destroy(s)) = Len(s) /\ \A k \in 1 .. Len(s) : Destroy(s)[k] = <<"destroy", s[k]>>
<1>1. Len(s) \in Nat /\ DOMAIN s = 1 .. Len(s) /\ ToSet(s) = {s[k] : k \in 1 .. Len(s)}
    BY ListShape
<1>2. ASSUME NEW w
      PROVE  LET t == [k \in DOMAIN s |-> <<w, s[k]>>]
             IN  /\ List(t) /\ Len(t) = Len(s) /\ ToSet(t) = {<<w, h>> : h \in ToSet(s)}
                 /\ \A k \in 1 .. Len(s) : t[k] = <<w, s[k]>>
    <2> DEFINE t == [k \in DOMAIN s |-> <<w, s[k]>>]
               X == {<<w, h>> : h \in ToSet(s)}
    <2>1. t \in Seq(X) /\ Len(t) = Len(s) /\ \A k \in 1 .. Len(s) : t[k] = <<w, s[k]>>
        BY <1>1
    <2>2. List(t)
        <3> HIDE DEF t, X
        <3> QED
            BY <2>1, SeqList
    <2>3. ToSet(t) = {t[k] : k \in 1 .. Len(s)}
        BY <1>1 DEF ToSet
    <2>4. ToSet(t) = X
        BY <1>1, <2>3
    <2> QED
        BY <2>1, <2>2, <2>4
<1> QED
    BY <1>2 DEF Create, Destroy

-----------------------------------------------------------------------------
(* Lists one after the other                                               *)

(* n lists. *)
Lists(seqs, n) ==
    /\ n \in Nat /\ seqs \in Seq(Seq(UNION {ToSet(seqs[k]) : k \in 1 .. n}))
    /\ Len(seqs) = n

(* upTo[k] is the first k lists in one. *)
Joined(seqs, n, upTo) ==
    /\ upTo[0] = <<>>
    /\ \A k \in Nat : k < n => upTo[k + 1] = upTo[k] \o seqs[k + 1]
    /\ FlattenSeq(seqs) = upTo[n]

(* The calls for several objects are those for one after the other: the loops over
   uniform buffers, models and textures (application.cpp:36-44, 270-311).  *)
LEMMA JoinSteps ==
    ASSUME NEW n, NEW seqs, Lists(seqs, n)
    PROVE  \E upTo : Joined(seqs, n, upTo)
<1> DEFINE U == UNION {ToSet(seqs[k]) : k \in 1 .. n}
           S == Seq(U)
           step == [p \in Nat \X S |-> IF p[1] < n THEN p[2] \o seqs[p[1] + 1] ELSE p[2]]
           Body(g) == [i \in 1 .. n |-> IF i = 1 THEN seqs[i] ELSE g[i - 1] \o seqs[i]]
           flatten == CHOOSE g : g = Body(g)
           upTo == [k \in Nat |-> IF k = 0 THEN <<>> ELSE flatten[k]]
<1>1. n \in Nat /\ Len(seqs) = n /\ seqs \in Seq(S)
    BY DEF Lists
<1>2. ASSUME NEW k \in 1 .. n PROVE seqs[k] \in S
    BY <1>1
<1>3. step \in [Nat \X S -> S]
    <2>1. ASSUME NEW p \in Nat \X S, p[1] < n PROVE p[2] \o seqs[p[1] + 1] \in S
        <3>1. p[1] + 1 \in 1 .. n /\ p[2] \in S
            BY <1>1, <2>1
        <3>2. seqs[p[1] + 1] \in S
            BY <1>2, <3>1
        <3> HIDE DEF U
        <3> QED
            BY <3>1, <3>2
    <2> HIDE DEF S
    <2> QED
        BY <2>1
<1>4. <<>> \in S
    OBVIOUS
<1>5. \E f : Recurs(f, S, <<>>, step)
    <2> HIDE DEF S, step
    <2> QED
        BY <1>3, <1>4, PrimitiveRecursion
<1>6. PICK f : /\ f \in [Nat -> S] /\ f[0] = <<>>
               /\ \A k \in Nat : f[k + 1] = step[<<k, f[k]>>]
    <2> HIDE DEF S, step
    <2> QED
        BY <1>5 DEF Recurs
<1>7. ASSUME NEW k \in Nat, k < n PROVE f[k + 1] = f[k] \o seqs[k + 1]
    <2>1. <<k, f[k]>> \in Nat \X S
        BY <1>6
    <2> HIDE DEF S
    <2> QED
        BY <1>6, <1>7, <2>1
<1>8. ASSUME NEW s \in S PROVE <<>> \o s = s
    <2> HIDE DEF U
    <2> QED
        OBVIOUS
<1>9. [i \in 1 .. n |-> f[i]] = Body([i \in 1 .. n |-> f[i]])
    <2> SUFFICES ASSUME NEW i \in 1 .. n
                 PROVE  f[i] = IF i = 1 THEN seqs[i] ELSE [k \in 1 .. n |-> f[k]][i - 1] \o seqs[i]
        OBVIOUS
    <2>1. i - 1 \in Nat /\ i - 1 < n /\ (i - 1) + 1 = i
        BY <1>1
    <2>2. f[i] = f[i - 1] \o seqs[i]
        BY <1>7, <2>1
    <2>3. CASE i = 1
        <3>1. f[i - 1] = <<>> /\ seqs[i] \in S
            BY <1>2, <1>6, <2>3
        <3>2. f[i] = seqs[i]
            <4> HIDE DEF S
            <4> QED
                BY <1>8, <2>2, <3>1
        <3> QED
            BY <2>3, <3>2
    <2>4. CASE i # 1
        <3>1. i - 1 \in 1 .. n
            BY <1>1, <2>4
        <3> QED
            BY <2>2, <2>4, <3>1
    <2> QED
        BY <2>3, <2>4
<1>10. flatten = Body(flatten)
    <2> HIDE DEF Body
    <2> QED
        BY <1>9
<1>11. ASSUME n # 0 PROVE FlattenSeq(seqs) = flatten[n]
    BY <1>1, <1>11 DEF FlattenSeq
<1>12. n = 0 => FlattenSeq(seqs) = <<>>
    BY <1>1 DEF FlattenSeq
<1> HIDE DEF flatten
<1>13. ASSUME NEW k \in 1 .. n PROVE flatten[k] = IF k = 1 THEN seqs[k] ELSE flatten[k - 1] \o seqs[k]
    BY <1>10
<1>14. FlattenSeq(seqs) = upTo[n]
    BY <1>1, <1>11, <1>12
<1>15. ASSUME NEW k \in Nat, k < n PROVE upTo[k + 1] = upTo[k] \o seqs[k + 1]
    <2>1. k + 1 \in 1 .. n /\ (k + 1) - 1 = k /\ k + 1 # 0
        BY <1>1, <1>15
    <2>2. upTo[k + 1] = IF k + 1 = 1 THEN seqs[k + 1] ELSE flatten[k] \o seqs[k + 1]
        BY <1>13, <2>1
    <2>3. CASE k = 0
        <3>1. upTo[k] = <<>> /\ seqs[k + 1] \in S
            BY <1>2, <2>1, <2>3
        <3> QED
            BY <1>8, <2>2, <2>3, <3>1
    <2>4. CASE k # 0
        <3>1. k + 1 # 1 /\ k + 1 \in Nat
            BY <2>4
        <3>2. upTo[k] = flatten[k]
            BY <2>4
        <3> HIDE DEF upTo
        <3> QED
            BY <2>2, <3>1, <3>2
    <2> QED
        BY <2>3, <2>4
<1>16. upTo[0] = <<>>
    OBVIOUS
<1> HIDE DEF upTo
<1>17. Joined(seqs, n, upTo)
    BY <1>14, <1>15, <1>16 DEF Joined
<1> QED
    BY <1>17

(* The elements of the lists, and no others, are in their order. *)
LEMMA JoinElements ==
    ASSUME NEW n, NEW seqs, Lists(seqs, n)
    PROVE  /\ List(FlattenSeq(seqs))
           /\ ToSet(FlattenSeq(seqs)) = UNION {ToSet(seqs[k]) : k \in 1 .. n}
<1>1. PICK upTo : Joined(seqs, n, upTo)
    BY JoinSteps
<1>n. n \in Nat
    BY DEF Lists
<1>j. \A k \in Nat : k < n => upTo[k + 1] = upTo[k] \o seqs[k + 1]
    BY <1>1 DEF Joined
<1>2. ASSUME NEW k \in 1 .. n PROVE List(seqs[k])
    <2> DEFINE U == UNION {ToSet(seqs[j]) : j \in 1 .. n}
    <2>1. seqs \in Seq(Seq(U)) /\ Len(seqs) = n
        BY DEF Lists
    <2>2. seqs[k] \in Seq(U)
        <3> HIDE DEF U
        <3> QED
            BY <1>n, <2>1
    <2> HIDE DEF U
    <2> QED
        BY <2>2, SeqList
<1> DEFINE D(k) == List(upTo[k]) /\ ToSet(upTo[k]) = UNION {ToSet(seqs[j]) : j \in 1 .. k}
           S == {k \in Nat : k <= n => D(k)}
<1>3. D(0)
    BY <1>1, ListOf0 DEF Joined
<1>4. ASSUME NEW k \in Nat, k < n, D(k) PROVE D(k + 1)
    <2>0. k + 1 \in 1 .. n /\ k < n
        BY <1>n, <1>4
    <2>1. k + 1 \in 1 .. n /\ upTo[k + 1] = upTo[k] \o seqs[k + 1]
        BY <1>j, <2>0
    <2>2. List(upTo[k + 1]) /\ ToSet(upTo[k + 1]) = ToSet(upTo[k]) \cup ToSet(seqs[k + 1])
        BY <1>2, <1>4, <2>1, CatShape
    <2>3. \A j : j \in 1 .. (k + 1) <=> j \in 1 .. k \/ j = k + 1
        OBVIOUS
    <2>4. UNION {ToSet(seqs[j]) : j \in 1 .. (k + 1)} = (UNION {ToSet(seqs[j]) : j \in 1 .. k}) \cup ToSet(seqs[k + 1])
        BY <2>3
    <2> QED
        BY <1>4, <2>2, <2>4
<1>5. 0 \in S
    BY <1>3
<1>6. ASSUME NEW k \in Nat, k \in S PROVE k + 1 \in S
    <2> HIDE DEF D
    <2> QED
        BY <1>n, <1>4, <1>6
<1> HIDE DEF S
<1>7. Nat \subseteq S
    BY <1>5, <1>6, NaturalInduction
<1>8. D(n)
    BY <1>7, <1>n DEF S
<1> QED
    BY <1>1, <1>8 DEF Joined

-----------------------------------------------------------------------------
(* Order                                                                   *)

(* The elements have strictly growing ranks. *)
Sorted(s, rank) == \A j, k \in 1 .. Len(s) : j < k => rank[s[j]] < rank[s[k]]

Ranks(s, rank) == \A x \in ToSet(s) : rank[x] \in Nat

(* One sorted list after another. *)
LEMMA CatSorted ==
    ASSUME NEW s, NEW t, NEW rank, List(s), List(t), Sorted(s, rank), Sorted(t, rank),
           \A x \in ToSet(s), y \in ToSet(t) : rank[x] < rank[y]
    PROVE  Sorted(s \o t, rank)
<1> DEFINE u == s \o t
<1>1. /\ Len(s) \in Nat /\ Len(t) \in Nat /\ Len(u) = Len(s) + Len(t)
      /\ \A k \in 1 .. Len(s) : u[k] = s[k] /\ s[k] \in ToSet(s)
      /\ \A k \in 1 .. Len(t) : u[Len(s) + k] = t[k] /\ t[k] \in ToSet(t)
    BY CatShape, ListShape
<1> HIDE DEF u
<1> SUFFICES ASSUME NEW j \in 1 .. Len(u), NEW k \in 1 .. Len(u), j < k
             PROVE  rank[u[j]] < rank[u[k]]
    BY DEF Sorted, u
<1>2. ASSUME NEW i \in 1 .. Len(u)
      PROVE  i \in 1 .. Len(s) \/ (i - Len(s) \in 1 .. Len(t) /\ Len(s) + (i - Len(s)) = i)
    BY <1>1
<1>3. CASE k \in 1 .. Len(s)
    <2>1. j \in 1 .. Len(s)
        BY <1>1, <1>3
    <2> QED
        BY <1>1, <1>3, <2>1 DEF Sorted
<1>4. CASE k \notin 1 .. Len(s)
    <2>1. k - Len(s) \in 1 .. Len(t) /\ u[k] = t[k - Len(s)] /\ t[k - Len(s)] \in ToSet(t)
        BY <1>1, <1>2, <1>4
    <2>2. CASE j \in 1 .. Len(s)
        BY <1>1, <2>1, <2>2
    <2>3. CASE j \notin 1 .. Len(s)
        <3>1. j - Len(s) \in 1 .. Len(t) /\ u[j] = t[j - Len(s)]
            BY <1>1, <1>2, <2>3
        <3>2. j - Len(s) < k - Len(s)
            BY <1>1
        <3> QED
            BY <2>1, <3>1, <3>2 DEF Sorted
    <2> QED
        BY <2>2, <2>3
<1> QED
    BY <1>3, <1>4

(* Lists whose ranks follow each other. *)
LEMMA JoinSorted ==
    ASSUME NEW n, NEW seqs, NEW rank, Lists(seqs, n),
           \A k \in 1 .. n : Sorted(seqs[k], rank),
           \A j, k \in 1 .. n : j < k =>
              \A x \in ToSet(seqs[j]), y \in ToSet(seqs[k]) : rank[x] < rank[y]
    PROVE  Sorted(FlattenSeq(seqs), rank)
<1>1. PICK upTo : Joined(seqs, n, upTo)
    BY JoinSteps
<1>n. n \in Nat
    BY DEF Lists
<1>j. \A k \in Nat : k < n => upTo[k + 1] = upTo[k] \o seqs[k + 1]
    BY <1>1 DEF Joined
<1>2. ASSUME NEW k \in 1 .. n PROVE List(seqs[k])
    <2> DEFINE U == UNION {ToSet(seqs[j]) : j \in 1 .. n}
    <2>1. seqs \in Seq(Seq(U)) /\ Len(seqs) = n
        BY DEF Lists
    <2>2. seqs[k] \in Seq(U)
        <3> HIDE DEF U
        <3> QED
            BY <1>n, <2>1
    <2> HIDE DEF U
    <2> QED
        BY <2>2, SeqList
<1> DEFINE D(k) == /\ List(upTo[k]) /\ Sorted(upTo[k], rank)
                   /\ ToSet(upTo[k]) = UNION {ToSet(seqs[j]) : j \in 1 .. k}
           S == {k \in Nat : k <= n => D(k)}
<1>3. D(0)
    BY <1>1, ListOf0 DEF Joined, Sorted
<1>4. ASSUME NEW k \in Nat, k < n, D(k) PROVE D(k + 1)
    <2>0. k + 1 \in 1 .. n /\ k < n
        BY <1>n, <1>4
    <2>1. k + 1 \in 1 .. n /\ upTo[k + 1] = upTo[k] \o seqs[k + 1]
        BY <1>j, <2>0
    <2>2. List(upTo[k + 1]) /\ ToSet(upTo[k + 1]) = ToSet(upTo[k]) \cup ToSet(seqs[k + 1])
        BY <1>2, <1>4, <2>1, CatShape
    <2>3. \A j : j \in 1 .. (k + 1) <=> j \in 1 .. k \/ j = k + 1
        OBVIOUS
    <2>4. UNION {ToSet(seqs[j]) : j \in 1 .. (k + 1)} = (UNION {ToSet(seqs[j]) : j \in 1 .. k}) \cup ToSet(seqs[k + 1])
        BY <2>3
    <2>5. ASSUME NEW x \in ToSet(upTo[k]), NEW y \in ToSet(seqs[k + 1]) PROVE rank[x] < rank[y]
        <3>1. PICK j \in 1 .. k : x \in ToSet(seqs[j])
            BY <1>4
        <3>2. j \in 1 .. n /\ j < k + 1
            BY <1>n, <1>4
        <3> QED
            BY <2>1, <3>1, <3>2
    <2>6. List(seqs[k + 1]) /\ Sorted(seqs[k + 1], rank)
        BY <1>2, <2>1
    <2>7. Sorted(upTo[k + 1], rank)
        BY <1>4, <2>1, <2>5, <2>6, CatSorted
    <2> QED
        BY <1>4, <2>2, <2>4, <2>7
<1>5. 0 \in S
    BY <1>3
<1>6. ASSUME NEW k \in Nat, k \in S PROVE k + 1 \in S
    <2> HIDE DEF D
    <2> QED
        BY <1>n, <1>4, <1>6
<1> HIDE DEF S
<1>7. Nat \subseteq S
    BY <1>5, <1>6, NaturalInduction
<1>8. D(n)
    BY <1>7, <1>n DEF S
<1> QED
    BY <1>1, <1>8 DEF Joined

-----------------------------------------------------------------------------
(* Handles                                                                 *)

ImageSet(owner, part) ==
    {<<owner, "image", part>>, <<owner, "memory", part>>, <<owner, "view", part>>}

ChainSet(c) ==
    {SwapchainKHR(c), <<c, "view", "swapchain">>, <<c, "renderPass", "renderPass">>,
     <<c, "framebuffer", "framebuffer">>, <<c, "sync", "sync">>}
    \cup ImageSet(c, "color") \cup ImageSet(c, "depth")

DeviceSet == {DeviceHandles[1], DeviceHandles[2], Device, DeviceHandles[4]}
PoolSet == {GlobalPool} \cup {Pool(n) : n \in 1 .. FrameCount}

BufferSet(owner, part) == {<<owner, "buffer", part>>, <<owner, "memory", part>>}

EntityOf(e) ==
    IF e[1] = "model" THEN BufferSet(e, "vertex") \cup BufferSet(e, "index")
    ELSE ImageSet(e, "texture") \cup {<<e, "sampler", "sampler">>}

EntitySet == UNION {EntityOf(e) : e \in ToSet(Loaded)}

(* What lives from the constructor of Application to its destructor. *)
AppSet == {WindowHandle, CommandBuffers} \cup DeviceSet \cup PoolSet \cup EntitySet

UboSet == UNION {BufferSet(<<"ubo", k>>, "uniform") : k \in 1 .. FrameCount}

PipeSet(name) ==
    {<<System(name), "shaderModule", "vert">>, <<System(name), "shaderModule", "frag">>,
     GraphicsPipeline(name)}

SystemSet(name) == {Layout(name)} \cup PipeSet(name)

ImGuiSet == {ImGuiPool, ImGuiBackend}

RunSet ==
    UboSet \cup {SetLayout, OwnSetLayout} \cup SystemSet("simple") \cup SystemSet("billboard")
    \cup SystemSet("texture") \cup ImGuiSet

(* Lists of lists, from their members. *)
LEMMA MakeLists ==
    ASSUME NEW n \in Nat, NEW seqs, seqs = [k \in 1 .. n |-> seqs[k]],
           \A k \in 1 .. n : List(seqs[k])
    PROVE  Lists(seqs, n)
<1> DEFINE U == UNION {ToSet(seqs[k]) : k \in 1 .. n}
           S == Seq(U)
<1>1. ASSUME NEW k \in 1 .. n PROVE seqs[k] \in S
    <2> DEFINE T == ToSet(seqs[k])
    <2>1. seqs[k] \in Seq(T) /\ T \subseteq U
        BY DEF List
    <2> HIDE DEF T, U
    <2> QED
        BY <2>1
<1> HIDE DEF S
<1>2. seqs \in Seq(S) /\ Len(seqs) = n
    BY <1>1
<1> QED
    BY <1>2 DEF Lists, S

(* The objects of an Image (image.cpp:33-65). *)
LEMMA ImageElements ==
    ASSUME NEW owner, NEW part
    PROVE  List(ImageOf(owner, part)) /\ ToSet(ImageOf(owner, part)) = ImageSet(owner, part)
BY ListOf3 DEF ImageOf, ImageSet

(* The objects of a Buffer (buffer.cpp:25-39). *)
LEMMA BufferElements ==
    ASSUME NEW owner, NEW part
    PROVE  List(BufferOf(owner, part)) /\ ToSet(BufferOf(owner, part)) = BufferSet(owner, part)
BY ListOf2 DEF BufferOf, BufferSet

(* The objects of a swap chain (swapchain.cpp:42-50). *)
LEMMA ChainElements ==
    ASSUME NEW c
    PROVE  List(ChainHandles(c)) /\ ToSet(ChainHandles(c)) = ChainSet(c)
<1> DEFINE a == <<SwapchainKHR(c), <<c, "view", "swapchain">>, <<c, "renderPass", "renderPass">> >>
           b == ImageOf(c, "color")
           d == ImageOf(c, "depth")
           e == << <<c, "framebuffer", "framebuffer">>, <<c, "sync", "sync">> >>
<1>1. List(a) /\ ToSet(a) = {SwapchainKHR(c), <<c, "view", "swapchain">>, <<c, "renderPass", "renderPass">>}
    BY ListOf3
<1>2. List(b) /\ ToSet(b) = ImageSet(c, "color") /\ List(d) /\ ToSet(d) = ImageSet(c, "depth")
    BY ImageElements
<1>3. List(e) /\ ToSet(e) = {<<c, "framebuffer", "framebuffer">>, <<c, "sync", "sync">>}
    BY ListOf2
<1>4. ChainHandles(c) = a \o b \o d \o e
    BY DEF ChainHandles
<1> HIDE DEF a, b, d, e
<1>5. List(a \o b) /\ ToSet(a \o b) = ToSet(a) \cup ToSet(b)
    BY <1>1, <1>2, CatShape
<1>6. List(a \o b \o d) /\ ToSet(a \o b \o d) = ToSet(a \o b) \cup ToSet(d)
    BY <1>2, <1>5, CatShape
<1>7. List(a \o b \o d \o e) /\ ToSet(a \o b \o d \o e) = ToSet(a \o b \o d) \cup ToSet(e)
    BY <1>3, <1>6, CatShape
<1> QED
    BY <1>1, <1>2, <1>3, <1>4, <1>5, <1>6, <1>7 DEF ChainSet

(* The objects of a model or a texture. *)
LEMMA EntityElements ==
    ASSUME NEW e
    PROVE  List(EntityHandles(e)) /\ ToSet(EntityHandles(e)) = EntityOf(e)
<1>1. CASE e[1] = "model"
    <2>1. /\ List(BufferOf(e, "vertex")) /\ ToSet(BufferOf(e, "vertex")) = BufferSet(e, "vertex")
          /\ List(BufferOf(e, "index")) /\ ToSet(BufferOf(e, "index")) = BufferSet(e, "index")
        BY BufferElements
    <2>2. EntityHandles(e) = BufferOf(e, "vertex") \o BufferOf(e, "index")
        BY <1>1 DEF EntityHandles
    <2>3. EntityOf(e) = BufferSet(e, "vertex") \cup BufferSet(e, "index")
        BY <1>1 DEF EntityOf
    <2> QED
        BY <2>1, <2>2, <2>3, CatShape
<1>2. CASE e[1] # "model"
    <2> DEFINE s == << <<e, "sampler", "sampler">> >>
    <2>1. /\ List(ImageOf(e, "texture")) /\ ToSet(ImageOf(e, "texture")) = ImageSet(e, "texture")
          /\ List(s) /\ ToSet(s) = {<<e, "sampler", "sampler">>}
        BY ImageElements, ListOf1
    <2>2. EntityHandles(e) = ImageOf(e, "texture") \o s
        BY <1>2 DEF EntityHandles
    <2>3. EntityOf(e) = ImageSet(e, "texture") \cup {<<e, "sampler", "sampler">>}
        BY <1>2 DEF EntityOf
    <2> HIDE DEF s
    <2> QED
        BY <2>1, <2>2, <2>3, CatShape
<1> QED
    BY <1>1, <1>2

(* The models and textures loadEntities makes (application.cpp:270-311). *)
LEMMA LoadedElements ==
    /\ List(Loaded)
    /\ ToSet(Loaded) = {<<"model", k>> : k \in 1 .. ModelCount} \cup {<<"texture", k>> : k \in 1 .. TextureCount}
<1> DEFINE m == Numbered("model", ModelCount)
           t == Numbered("texture", TextureCount)
<1>1. ASSUME NEW kind, NEW n \in Nat
      PROVE  List(Numbered(kind, n)) /\ ToSet(Numbered(kind, n)) = {<<kind, k>> : k \in 1 .. n}
    <2> DEFINE X == {<<kind, k>> : k \in 1 .. n}
               s == [k \in 1 .. n |-> <<kind, k>>]
    <2>1. s \in Seq(X)
        OBVIOUS
    <2>2. List(s)
        <3> HIDE DEF s, X
        <3> QED
            BY <2>1, SeqList
    <2>3. ToSet(s) = X
        BY DEF ToSet
    <2> QED
        BY <2>2, <2>3 DEF Numbered
<1>2. ModelCount \in Nat /\ TextureCount \in Nat
    BY LifetimesAssumption
<1>3. List(m) /\ ToSet(m) = {<<"model", k>> : k \in 1 .. ModelCount}
    BY <1>1, <1>2
<1>4. List(t) /\ ToSet(t) = {<<"texture", k>> : k \in 1 .. TextureCount}
    BY <1>1, <1>2
<1> HIDE DEF m, t
<1>5. List(m \o t) /\ ToSet(m \o t) = ToSet(m) \cup ToSet(t)
    BY <1>3, <1>4, CatShape
<1> QED
    BY <1>3, <1>4, <1>5 DEF Loaded, m, t

(* The descriptor pools (application.cpp:5-17). *)
LEMMA PoolElements == List(Pools) /\ ToSet(Pools) = PoolSet
<1> DEFINE s == [n \in 1 .. FrameCount |-> Pool(n)]
           X == {Pool(n) : n \in 1 .. FrameCount}
<1>1. s \in Seq(X)
    BY LifetimesAssumption
<1>2. List(s)
    <2> HIDE DEF s, X
    <2> QED
        BY <1>1, SeqList
<1>3. ToSet(s) = X
    BY DEF ToSet
<1>4. List(<<GlobalPool>>) /\ ToSet(<<GlobalPool>>) = {GlobalPool}
    BY ListOf1
<1> HIDE DEF s
<1>5. List(<<GlobalPool>> \o s) /\ ToSet(<<GlobalPool>> \o s) = ToSet(<<GlobalPool>>) \cup ToSet(s)
    BY <1>2, <1>4, CatShape
<1> QED
    BY <1>3, <1>4, <1>5 DEF Pools, PoolSet, s

(* What the constructor of Application makes. *)
LEMMA ApplicationElements ==
    List(ApplicationHandles) /\ ToSet(ApplicationHandles) = AppSet \cup ChainSet(Chain(0))
<1> DEFINE a == <<WindowHandle>>
           b == DeviceHandles
           c == ChainHandles(Chain(0))
           d == <<CommandBuffers>>
           e == Pools
           seqs == [k \in DOMAIN Loaded |-> EntityHandles(Loaded[k])]
           f == FlattenSeq(seqs)
           n == Len(Loaded)
<1>1. List(a) /\ ToSet(a) = {WindowHandle} /\ List(d) /\ ToSet(d) = {CommandBuffers}
    BY ListOf1
<1>2. List(b) /\ ToSet(b) = DeviceSet
    BY ListOf4 DEF DeviceHandles, DeviceSet
<1>3. List(c) /\ ToSet(c) = ChainSet(Chain(0)) /\ List(e) /\ ToSet(e) = PoolSet
    BY ChainElements, PoolElements
<1>4. List(f) /\ ToSet(f) = EntitySet
    <2>1. n \in Nat /\ DOMAIN Loaded = 1 .. n /\ ToSet(Loaded) = {Loaded[k] : k \in 1 .. n}
        BY LoadedElements, ListShape
    <2>2. seqs = [k \in 1 .. n |-> seqs[k]] /\ \A k \in 1 .. n : List(seqs[k]) /\ ToSet(seqs[k]) = EntityOf(Loaded[k])
        BY <2>1, EntityElements
    <2> HIDE DEF seqs, n
    <2>3. Lists(seqs, n)
        BY <2>1, <2>2, MakeLists
    <2>4. List(f) /\ ToSet(f) = UNION {ToSet(seqs[k]) : k \in 1 .. n}
        BY <2>3, JoinElements
    <2> QED
        BY <2>1, <2>2, <2>4 DEF EntitySet
<1>5. ApplicationHandles = a \o b \o c \o d \o e \o f
    BY DEF ApplicationHandles, InOrder
<1> HIDE DEF a, b, c, d, e, f
<1>6. List(a \o b) /\ ToSet(a \o b) = ToSet(a) \cup ToSet(b)
    BY <1>1, <1>2, CatShape
<1>7. List(a \o b \o c) /\ ToSet(a \o b \o c) = ToSet(a \o b) \cup ToSet(c)
    BY <1>3, <1>6, CatShape
<1>8. List(a \o b \o c \o d) /\ ToSet(a \o b \o c \o d) = ToSet(a \o b \o c) \cup ToSet(d)
    BY <1>1, <1>7, CatShape
<1>9. List(a \o b \o c \o d \o e) /\ ToSet(a \o b \o c \o d \o e) = ToSet(a \o b \o c \o d) \cup ToSet(e)
    BY <1>3, <1>8, CatShape
<1>10. List(a \o b \o c \o d \o e \o f) /\ ToSet(a \o b \o c \o d \o e \o f) = ToSet(a \o b \o c \o d \o e) \cup ToSet(f)
    BY <1>4, <1>9, CatShape
<1> QED
    BY <1>1, <1>2, <1>3, <1>4, <1>5, <1>6, <1>7, <1>8, <1>9, <1>10 DEF AppSet

(* The order in which run makes its objects: by owner, and within an owner. *)
Place(owner) ==
    CASE owner[1] = "ubo" -> owner[2]
      [] owner = SetLayout[1] -> FrameCount + 1
      [] owner = System("simple") -> FrameCount + 2
      [] owner = System("billboard") -> FrameCount + 3
      [] owner = System("texture") -> FrameCount + 4
      [] owner = ImGuiPool[1] -> FrameCount + 5
      [] owner = ImGuiBackend[1] -> FrameCount + 6

Part(h) ==
    CASE h[2] = "buffer" -> 1
      [] h[2] = "memory" -> 2
      [] h[2] = "pipelineLayout" -> 3
      [] h[2] = "shaderModule" /\ h[3] = "vert" -> 4
      [] h[2] = "shaderModule" /\ h[3] = "frag" -> 5
      [] h[2] = "pipeline" -> 6
      [] h[2] \in {"setLayout", "descriptorPool", "imgui"} -> 0

RunRank == [h \in RunSet |-> 8 * Place(h[1]) + Part(h)]

Ubo(k) == <<"ubo", k>>

(* The ranks of a uniform buffer (application.cpp:36-44). *)
LEMMA UboRank ==
    ASSUME NEW k \in 1 .. FrameCount
    PROVE  /\ RunRank[<<Ubo(k), "buffer", "uniform">>] = 8 * k + 1
           /\ RunRank[<<Ubo(k), "memory", "uniform">>] = 8 * k + 2
<1>1. Place(Ubo(k)) = k
    BY DEF Place, Ubo, SetLayout, System, ImGuiPool, ImGuiBackend
<1>2. /\ <<Ubo(k), "buffer", "uniform">> \in RunSet
      /\ <<Ubo(k), "memory", "uniform">> \in RunSet
    BY DEF RunSet, UboSet, BufferSet, Ubo
<1>3. Part(<<Ubo(k), "buffer", "uniform">>) = 1 /\ Part(<<Ubo(k), "memory", "uniform">>) = 2
    BY DEF Part
<1> HIDE DEF Place, Part
<1> QED
    BY <1>1, <1>2, <1>3 DEF RunRank

(* The ranks of a render system: its layout, its shaders, its pipeline
   (rendersystem.hpp:36-39, 82-97).                                               *)
LEMMA SystemRank ==
    ASSUME NEW name \in {"simple", "billboard", "texture"}, NEW n \in Nat, Place(System(name)) = n
    PROVE  /\ RunRank[Layout(name)] = 8 * n + 3
           /\ RunRank[<<System(name), "shaderModule", "vert">>] = 8 * n + 4
           /\ RunRank[<<System(name), "shaderModule", "frag">>] = 8 * n + 5
           /\ RunRank[GraphicsPipeline(name)] = 8 * n + 6
<1>1. SystemSet(name) \subseteq RunSet
    BY DEF RunSet
<1>2. /\ Part(Layout(name)) = 3
      /\ Part(<<System(name), "shaderModule", "vert">>) = 4
      /\ Part(<<System(name), "shaderModule", "frag">>) = 5
      /\ Part(GraphicsPipeline(name)) = 6
    BY DEF Part, Layout, GraphicsPipeline
<1>3. Layout(name)[1] = System(name) /\ GraphicsPipeline(name)[1] = System(name)
    BY DEF Layout, GraphicsPipeline
<1> HIDE DEF Place, Part
<1>4. RunRank[Layout(name)] = 8 * n + 3
    BY <1>1, <1>2, <1>3 DEF RunRank, SystemSet
<1>5. RunRank[<<System(name), "shaderModule", "vert">>] = 8 * n + 4
    BY <1>1, <1>2, <1>3 DEF RunRank, SystemSet, PipeSet
<1>6. RunRank[<<System(name), "shaderModule", "frag">>] = 8 * n + 5
    BY <1>1, <1>2, <1>3 DEF RunRank, SystemSet, PipeSet
<1>7. RunRank[GraphicsPipeline(name)] = 8 * n + 6
    BY <1>1, <1>2, <1>3 DEF RunRank, SystemSet, PipeSet
<1> QED
    BY <1>4, <1>5, <1>6, <1>7

(* Where run makes what is neither a uniform buffer nor a system's (application.cpp:47-79). *)
LEMMA Places ==
    /\ Place(SetLayout[1]) = FrameCount + 1
    /\ Place(System("simple")) = FrameCount + 2
    /\ Place(System("billboard")) = FrameCount + 3
    /\ Place(System("texture")) = FrameCount + 4
    /\ Place(ImGuiPool[1]) = FrameCount + 5
    /\ Place(ImGuiBackend[1]) = FrameCount + 6
BY DEF Place, SetLayout, System, ImGuiPool, ImGuiBackend

(* And their ranks. *)
LEMMA OtherRanks ==
    /\ RunRank[SetLayout] = 8 * (FrameCount + 1)
    /\ RunRank[OwnSetLayout] = 8 * (FrameCount + 4)
    /\ RunRank[ImGuiPool] = 8 * (FrameCount + 5)
    /\ RunRank[ImGuiBackend] = 8 * (FrameCount + 6)
<1>1. {SetLayout, OwnSetLayout, ImGuiPool, ImGuiBackend} \subseteq RunSet
    BY DEF RunSet, ImGuiSet
<1>2. Part(SetLayout) = 0 /\ Part(OwnSetLayout) = 0 /\ Part(ImGuiPool) = 0 /\ Part(ImGuiBackend) = 0
    BY DEF Part, SetLayout, OwnSetLayout, ImGuiPool, ImGuiBackend
<1>3. OwnSetLayout[1] = System("texture")
    BY DEF OwnSetLayout
<1> HIDE DEF Place, Part
<1> QED
    BY <1>1, <1>2, <1>3, Places, LifetimesAssumption DEF RunRank

(* Short lists in order. *)
LEMMA SortedOf1 == ASSUME NEW rank, NEW a PROVE Sorted(<<a>>, rank)
BY DEF Sorted

(* Two. *)
LEMMA SortedOf2 == ASSUME NEW rank, NEW a, NEW b, rank[a] < rank[b] PROVE Sorted(<<a, b>>, rank)
BY DEF Sorted

(* Three. *)
LEMMA SortedOf3 ==
    ASSUME NEW rank, NEW a, NEW b, NEW c, rank[a] < rank[b], rank[b] < rank[c], rank[a] < rank[c]
    PROVE  Sorted(<<a, b, c>>, rank)
BY DEF Sorted

(* The objects of a render system, in order (rendersystem.hpp:36-39, 82-97). *)
LEMMA SystemElements ==
    ASSUME NEW name \in {"simple", "billboard", "texture"}
    PROVE  /\ List(SystemHandles(name)) /\ ToSet(SystemHandles(name)) = SystemSet(name)
           /\ List(PipelineHandles(name)) /\ ToSet(PipelineHandles(name)) = PipeSet(name)
           /\ Sorted(SystemHandles(name), RunRank)
           /\ \A h \in SystemSet(name) :
                 RunRank[h] \in 8 * Place(System(name)) + 3 .. 8 * Place(System(name)) + 6
<1> DEFINE a == <<Layout(name)>>
           b == PipelineHandles(name)
           v == <<System(name), "shaderModule", "vert">>
           f == <<System(name), "shaderModule", "frag">>
           p == GraphicsPipeline(name)
           n == Place(System(name))
<1>0. n \in Nat
    BY Places, LifetimesAssumption
<1>1. /\ RunRank[Layout(name)] = 8 * n + 3
      /\ RunRank[v] = 8 * n + 4 /\ RunRank[f] = 8 * n + 5 /\ RunRank[p] = 8 * n + 6
    <2> HIDE DEF n
    <2> QED
        BY <1>0, SystemRank DEF n
<1>2. List(a) /\ ToSet(a) = {Layout(name)} /\ Sorted(a, RunRank)
    BY ListOf1, SortedOf1
<1>3. List(b) /\ ToSet(b) = {v, f, p}
    BY ListOf3 DEF PipelineHandles
<1>4. b = <<v, f, p>>
    BY DEF PipelineHandles
<1> HIDE DEF a, b, v, f, p, n
<1>5. Sorted(b, RunRank)
    BY <1>0, <1>1, <1>4, SortedOf3
<1>6. List(a \o b) /\ ToSet(a \o b) = ToSet(a) \cup ToSet(b)
    BY <1>2, <1>3, CatShape
<1>7. \A x \in ToSet(a), y \in ToSet(b) : RunRank[x] < RunRank[y]
    BY <1>0, <1>1, <1>2, <1>3
<1>8. Sorted(a \o b, RunRank)
    BY <1>2, <1>3, <1>5, <1>7, CatSorted
<1>9. SystemHandles(name) = a \o b
    BY DEF SystemHandles, a, b
<1>10. SystemSet(name) = ToSet(a) \cup ToSet(b) /\ ToSet(b) = PipeSet(name)
    BY <1>2, <1>3 DEF SystemSet, PipeSet, v, f, p
<1>11. \A h \in SystemSet(name) : RunRank[h] \in 8 * n + 3 .. 8 * n + 6
    BY <1>0, <1>1, <1>2, <1>3, <1>10
<1> QED
    BY <1>3, <1>6, <1>8, <1>9, <1>10, <1>11 DEF b, n

(* The uniform buffers of run. *)
LEMMA UboElements ==
    LET s == InOrder(UniformBuffers, LAMBDA u : BufferOf(u, "uniform"))
    IN  /\ List(s) /\ ToSet(s) = UboSet /\ Sorted(s, RunRank)
        /\ \A h \in UboSet : RunRank[h] \in 0 .. 8 * FrameCount + 2
<1> DEFINE n == FrameCount
           seqs == [k \in DOMAIN UniformBuffers |-> BufferOf(UniformBuffers[k], "uniform")]
           s == FlattenSeq(seqs)
<1>1. n \in Nat
    BY LifetimesAssumption
<1>2. DOMAIN UniformBuffers = 1 .. n /\ \A k \in 1 .. n : UniformBuffers[k] = Ubo(k)
    BY DEF UniformBuffers, Numbered, Ubo
<1>3. /\ seqs = [k \in 1 .. n |-> seqs[k]]
      /\ \A k \in 1 .. n : /\ List(seqs[k]) /\ ToSet(seqs[k]) = BufferSet(Ubo(k), "uniform")
                           /\ seqs[k] = << <<Ubo(k), "buffer", "uniform">>, <<Ubo(k), "memory", "uniform">> >>
    BY <1>2, BufferElements DEF BufferOf
<1> HIDE DEF seqs
<1>4. Lists(seqs, n)
    BY <1>1, <1>3, MakeLists
<1>5. ASSUME NEW k \in 1 .. n PROVE Sorted(seqs[k], RunRank)
    <2> DEFINE b == <<Ubo(k), "buffer", "uniform">>
               m == <<Ubo(k), "memory", "uniform">>
    <2>1. RunRank[b] = 8 * k + 1 /\ RunRank[m] = 8 * k + 2 /\ seqs[k] = <<b, m>>
        BY <1>3, UboRank
    <2> HIDE DEF b, m
    <2>2. RunRank[b] < RunRank[m]
        BY <1>1, <2>1
    <2> QED
        BY <2>1, <2>2, SortedOf2
<1>6. ASSUME NEW j \in 1 .. n, NEW k \in 1 .. n, j < k,
             NEW x \in ToSet(seqs[j]), NEW y \in ToSet(seqs[k])
      PROVE  RunRank[x] < RunRank[y]
    <2>1. RunRank[x] \in {8 * j + 1, 8 * j + 2}
        BY <1>3, UboRank DEF BufferSet
    <2>2. RunRank[y] \in {8 * k + 1, 8 * k + 2}
        BY <1>3, UboRank DEF BufferSet
    <2> QED
        BY <1>1, <1>6, <2>1, <2>2
<1>7. Sorted(s, RunRank)
    BY <1>4, <1>5, <1>6, JoinSorted
<1>8. List(s) /\ ToSet(s) = UNION {ToSet(seqs[k]) : k \in 1 .. n}
    BY <1>4, JoinElements
<1>9. ToSet(s) = UboSet
    BY <1>3, <1>8 DEF UboSet, Ubo
<1>10. ASSUME NEW h \in UboSet PROVE RunRank[h] \in 0 .. 8 * FrameCount + 2
    <2>1. PICK k \in 1 .. n : h \in BufferSet(Ubo(k), "uniform")
        BY DEF UboSet, Ubo
    <2>2. RunRank[h] \in {8 * k + 1, 8 * k + 2}
        BY <2>1, UboRank DEF BufferSet
    <2> QED
        BY <1>1, <2>2
<1> QED
    BY <1>7, <1>8, <1>9, <1>10 DEF InOrder, seqs

(* What run makes before its loop, in an order that keeps the handles of an owner
   together (application.cpp:35-79).                                       *)
LEMMA RunElements ==
    List(RunHandles) /\ ToSet(RunHandles) = RunSet /\ Sorted(RunHandles, RunRank)
<1> DEFINE F == FrameCount
           a == InOrder(UniformBuffers, LAMBDA u : BufferOf(u, "uniform"))
           b == <<SetLayout>>
           c == SystemHandles("simple")
           d == SystemHandles("billboard")
           e == <<OwnSetLayout>>
           f == SystemHandles("texture")
           g == <<ImGuiPool, ImGuiBackend>>
<1>0. F \in Nat
    BY LifetimesAssumption
<1>1. List(a) /\ ToSet(a) = UboSet /\ Sorted(a, RunRank) /\ \A h \in ToSet(a) : RunRank[h] \in 0 .. 8 * F + 2
    BY UboElements
<1>2. List(b) /\ ToSet(b) = {SetLayout} /\ Sorted(b, RunRank) /\ \A h \in ToSet(b) : RunRank[h] = 8 * F + 8
    BY <1>0, ListOf1, SortedOf1, OtherRanks
<1>3. /\ List(c) /\ ToSet(c) = SystemSet("simple") /\ Sorted(c, RunRank)
      /\ \A h \in ToSet(c) : RunRank[h] \in 8 * F + 19 .. 8 * F + 22
    BY <1>0, SystemElements, Places
<1>4. /\ List(d) /\ ToSet(d) = SystemSet("billboard") /\ Sorted(d, RunRank)
      /\ \A h \in ToSet(d) : RunRank[h] \in 8 * F + 27 .. 8 * F + 30
    BY <1>0, SystemElements, Places
<1>5. List(e) /\ ToSet(e) = {OwnSetLayout} /\ Sorted(e, RunRank) /\ \A h \in ToSet(e) : RunRank[h] = 8 * F + 32
    BY <1>0, ListOf1, SortedOf1, OtherRanks
<1>6. /\ List(f) /\ ToSet(f) = SystemSet("texture") /\ Sorted(f, RunRank)
      /\ \A h \in ToSet(f) : RunRank[h] \in 8 * F + 35 .. 8 * F + 38
    BY <1>0, SystemElements, Places
<1>7. /\ List(g) /\ ToSet(g) = ImGuiSet /\ Sorted(g, RunRank)
      /\ \A h \in ToSet(g) : RunRank[h] \in {8 * F + 40, 8 * F + 48}
    BY <1>0, ListOf2, SortedOf2, OtherRanks DEF ImGuiSet
<1>8. RunHandles = a \o b \o c \o d \o e \o f \o g
    BY DEF RunHandles
<1> HIDE DEF a, b, c, d, e, f, g, F
<1>9. /\ List(a \o b) /\ ToSet(a \o b) = ToSet(a) \cup ToSet(b) /\ Sorted(a \o b, RunRank)
      /\ \A h \in ToSet(a \o b) : RunRank[h] \in 0 .. 8 * F + 8
    <2>1. \A x \in ToSet(a), y \in ToSet(b) : RunRank[x] < RunRank[y]
        BY <1>0, <1>1, <1>2
    <2> QED
        BY <1>0, <1>1, <1>2, <2>1, CatShape, CatSorted
<1> DEFINE ab == a \o b
<1> HIDE DEF ab
<1>10. /\ List(ab \o c) /\ ToSet(ab \o c) = ToSet(ab) \cup ToSet(c) /\ Sorted(ab \o c, RunRank)
       /\ \A h \in ToSet(ab \o c) : RunRank[h] \in 0 .. 8 * F + 22
    <2>1. \A x \in ToSet(ab), y \in ToSet(c) : RunRank[x] < RunRank[y]
        BY <1>0, <1>3, <1>9 DEF ab
    <2> QED
        BY <1>0, <1>3, <1>9, <2>1, CatShape, CatSorted DEF ab
<1> DEFINE abc == ab \o c
<1> HIDE DEF abc
<1>11. /\ List(abc \o d) /\ ToSet(abc \o d) = ToSet(abc) \cup ToSet(d) /\ Sorted(abc \o d, RunRank)
       /\ \A h \in ToSet(abc \o d) : RunRank[h] \in 0 .. 8 * F + 30
    <2>1. \A x \in ToSet(abc), y \in ToSet(d) : RunRank[x] < RunRank[y]
        BY <1>0, <1>4, <1>10 DEF abc
    <2> QED
        BY <1>0, <1>4, <1>10, <2>1, CatShape, CatSorted DEF abc
<1> DEFINE abcd == abc \o d
<1> HIDE DEF abcd
<1>12. /\ List(abcd \o e) /\ ToSet(abcd \o e) = ToSet(abcd) \cup ToSet(e) /\ Sorted(abcd \o e, RunRank)
       /\ \A h \in ToSet(abcd \o e) : RunRank[h] \in 0 .. 8 * F + 32
    <2>1. \A x \in ToSet(abcd), y \in ToSet(e) : RunRank[x] < RunRank[y]
        BY <1>0, <1>5, <1>11 DEF abcd
    <2> QED
        BY <1>0, <1>5, <1>11, <2>1, CatShape, CatSorted DEF abcd
<1> DEFINE abcde == abcd \o e
<1> HIDE DEF abcde
<1>13. /\ List(abcde \o f) /\ ToSet(abcde \o f) = ToSet(abcde) \cup ToSet(f) /\ Sorted(abcde \o f, RunRank)
       /\ \A h \in ToSet(abcde \o f) : RunRank[h] \in 0 .. 8 * F + 38
    <2>1. \A x \in ToSet(abcde), y \in ToSet(f) : RunRank[x] < RunRank[y]
        BY <1>0, <1>6, <1>12 DEF abcde
    <2> QED
        BY <1>0, <1>6, <1>12, <2>1, CatShape, CatSorted DEF abcde
<1> DEFINE abcdef == abcde \o f
<1> HIDE DEF abcdef
<1>14. /\ List(abcdef \o g) /\ ToSet(abcdef \o g) = ToSet(abcdef) \cup ToSet(g) /\ Sorted(abcdef \o g, RunRank)
    <2>1. \A x \in ToSet(abcdef), y \in ToSet(g) : RunRank[x] < RunRank[y]
        BY <1>0, <1>7, <1>13 DEF abcdef
    <2> QED
        BY <1>0, <1>7, <1>13, <2>1, CatShape, CatSorted DEF abcdef
<1>15. RunHandles = abcdef \o g
    BY <1>8 DEF abcdef, abcde, abcd, abc, ab
<1>16. ToSet(RunHandles) = UboSet \cup {SetLayout} \cup SystemSet("simple") \cup SystemSet("billboard")
                           \cup {OwnSetLayout} \cup SystemSet("texture") \cup ImGuiSet
    BY <1>1, <1>2, <1>3, <1>4, <1>5, <1>6, <1>7, <1>9, <1>10, <1>11, <1>12, <1>13, <1>14, <1>15
       DEF abcdef, abcde, abcd, abc, ab
<1>17. ToSet(RunHandles) = RunSet
    BY <1>16 DEF RunSet
<1> QED
    BY <1>14, <1>15, <1>17

-----------------------------------------------------------------------------
(* The inductive invariant                                                 *)

Chains == {Chain(0), Chain(1)}

(* What F5 rebuilds. *)
Rebuilt == PipeSet("simple") \cup PipeSet("texture")

Base == AppSet \cup RunSet

(* A null swap chain is not in Handles; a call on it is the end. *)
Calls == {"create", "destroy"} \X (Handles \cup ChainSet(Null))

Makes(h) == <<"create", h>> \in ToSet(todo)
Breaks(h) == <<"destroy", h>> \in ToSet(todo)

(* The calls to make are creations, or destructions, of certain handles. *)
OnlyMakes(S) == \A c \in ToSet(todo) : \E h \in S : c = <<"create", h>>
OnlyBreaks(S) == \A c \in ToSet(todo) : \E h \in S : c = <<"destroy", h>>

AllIn(S, values) == \A h \in S : status[h] \in values
AllLive(S) == AllIn(S, {"live"})

OfFailed(h) == h[1] = failed[1]

(* What is live will be destroyed, except for S and what a failed constructor leaked. *)
OthersGo(S) == \A h \in Handles : status[h] = "live" => Breaks(h) \/ OfFailed(h) \/ h \in S

(* The calls in s are the last of all those that are ranked. *)
LastOf(s, rank) ==
    /\ Sorted(s, rank)
    /\ \A c \in DOMAIN rank, d \in ToSet(s) : c \notin ToSet(s) => rank[c] < rank[d]

CreateRank == [c \in {<<"create", h>> : h \in RunSet} |-> RunRank[c[2]]]

(* Both pipelines: destroyed, then made, part by part. *)
ToggleRank ==
    [c \in {"create", "destroy"} \X Rebuilt |->
        (IF c[2][1] = System("simple") THEN 0 ELSE 6)
        + (IF c[1] = "destroy" THEN 0 ELSE 3)
        + (IF c[2][2] = "pipeline" THEN 3 ELSE IF c[2][3] = "frag" THEN 2 ELSE 1)]

LifeTypes ==
    /\ pc \in Phases \cup Ends
    /\ status \in [Handles -> {"none", "live", "dead", "recycled"}]
    /\ {chain, old} \subseteq Chains \cup {Null}
    /\ entities \subseteq ToSet(Loaded)
    /\ failed \in Handles \cup {NoHandle}
    /\ twice \cup stray \subseteq Handles
    /\ List(todo) /\ ToSet(todo) \subseteq Calls
    /\ pc \in Ends => todo = <<>>

Constructing ==
    /\ chain = Null /\ old = Null /\ failed = NoHandle
    /\ OnlyMakes(AppSet \cup ChainSet(Chain(0)))
    /\ AllIn(AppSet \cup ChainSet(Chain(0)), {"none", "live"})
    /\ \A h \in AppSet \cup ChainSet(Chain(0)) : ~Makes(h) => status[h] = "live"
    /\ AllIn(RunSet \cup ChainSet(Chain(1)), {"none"})

Entering ==
    /\ chain = Chain(0) /\ old = Null /\ failed = NoHandle /\ entities = ToSet(Loaded)
    /\ OnlyMakes(RunSet)
    /\ AllLive(AppSet \cup ChainSet(Chain(0)))
    /\ AllIn(ChainSet(Chain(1)), {"none"})
    /\ \A h \in RunSet : status[h] = IF Makes(h) THEN "none" ELSE "live"
    /\ LastOf(todo, CreateRank)

Looping ==
    /\ chain \in Chains /\ old = Null /\ failed = NoHandle /\ entities = ToSet(Loaded)
    /\ OnlyBreaks(ChainSet(Other(chain)))
    /\ AllLive(Base \cup ChainSet(chain))
    /\ OthersGo(Base \cup ChainSet(chain))

Toggling ==
    /\ chain \in Chains /\ old = Null /\ failed = NoHandle /\ entities = ToSet(Loaded)
    /\ ToSet(todo) \subseteq {"create", "destroy"} \X Rebuilt
    /\ AllLive((Base \cup ChainSet(chain)) \ Rebuilt)
    /\ AllIn(ChainSet(Other(chain)), {"none", "dead"})
    /\ \A h \in Rebuilt : Breaks(h) \/ ~Makes(h) => status[h] = "live"
    /\ \A h \in Rebuilt : Makes(h) /\ ~Breaks(h) => status[h] \in {"dead", "recycled"}
    /\ LastOf(todo, ToggleRank)

Recreating ==
    /\ chain = Null /\ old \in Chains /\ failed = NoHandle /\ entities = ToSet(Loaded)
    /\ OnlyMakes(ChainSet(Other(old)))
    /\ AllLive(Base \cup ChainSet(old))
    /\ AllIn(ChainSet(Other(old)), {"none", "live"})
    /\ \A h \in ChainSet(Other(old)) : ~Makes(h) => status[h] = "live"

Doomed == ((RunSet \ ImGuiSet) \cup ChainSet(Chain(0)) \cup ChainSet(Chain(1))) \ ChainSet(chain)

Leaving ==
    /\ old = Null /\ entities = ToSet(Loaded)
    /\ OnlyBreaks(Doomed)
    /\ AllLive(AppSet)
    /\ AllIn(ImGuiSet, {"none", "live"})
    /\ chain # Null => AllLive(ChainSet(chain))
    /\ OthersGo(AppSet \cup ImGuiSet \cup ChainSet(chain))

(* Everything made from the device has its call before the device has. *)
DeviceLast ==
    \A j \in 1 .. Len(todo) : todo[j] = <<"destroy", Device>> =>
        \A h \in Handles \ (HeldLonger \cup {WindowHandle, DeviceHandles[1], DeviceHandles[2], Device}) :
            status[h] = "live" /\ ~OfFailed(h) => \E i \in 1 .. (j - 1) : todo[i] = <<"destroy", h>>

Destroying ==
    /\ old = Null /\ entities = ToSet(Loaded)
    /\ OnlyBreaks((AppSet \ (EntitySet \cup {WindowHandle})) \cup ImGuiSet \cup ChainSet(chain))
    /\ AllLive(EntitySet \cup {WindowHandle})
    /\ chain = Null => Breaks(<<Null, "view", "swapchain">>)
    /\ OthersGo(EntitySet \cup {WindowHandle})
    /\ DeviceLast

StillOwned == UNION {EntityOf(e) : e \in entities}

DestroyingEntities ==
    /\ chain \in Chains /\ old = Null
    /\ OnlyBreaks(DeviceSet \cup (EntitySet \ StillOwned))
    /\ AllLive(StillOwned \cup {WindowHandle})
    /\ AllIn(DeviceSet, {"none", "dead"})
    /\ OthersGo(StillOwned \cup {WindowHandle})

DestroyingMembers ==
    /\ chain \in Chains /\ old = Null
    /\ OnlyBreaks({WindowHandle} \cup DeviceSet \cup ChainSet(chain))
    /\ AllIn(DeviceSet, {"none", "dead"})
    /\ OthersGo({})

Exited == OthersGo({})

PhaseInv ==
    /\ pc = "construct" => Constructing
    /\ pc = "enter" => Entering
    /\ pc = "loop" => Looping
    /\ pc = "toggle" => Toggling
    /\ pc = "recreate" => Recreating
    /\ pc = "leave" => Leaving
    /\ pc = "destroy" => Destroying
    /\ pc = "entities" => DestroyingEntities
    /\ pc = "members" => DestroyingMembers
    /\ pc = "exited" => Exited

(* Only the pipelines that F5 rebuilds can have been given away. *)
RecycledOK == \A h \in Handles : status[h] = "recycled" => h \in Rebuilt

(* Only an object of run, or of a swap chain that was to replace another, fails without
   ending the program at once.                                             *)
FailedOK ==
    pc # "terminated" /\ failed # NoHandle =>
        failed \in RunSet \/ (failed[1] \in Chains /\ chain = Null)

ChainOK == chain = Null => pc \in {"construct", "recreate"} \/ failed # NoHandle

(* An object that has one owner. *)
Single(h) == h \in Handles \ Repeated

Once(calls) ==
    \A j, k \in 1 .. Len(calls) :
        calls[j] = calls[k] /\ calls[j][1] = "destroy" /\ Single(calls[j][2]) => j = k

(* No call destroys what was given away, and none destroys an object with one owner
   that is destroyed already or will be before.                            *)
CallsOK ==
    /\ \A h \in Handles : Breaks(h) => status[h] # "recycled"
    /\ \A h \in Handles : Breaks(h) /\ Single(h) => status[h] # "dead"
    /\ Once(todo)

LifeInv ==
    /\ LifeTypes /\ PhaseInv /\ RecycledOK /\ FailedOK /\ ChainOK /\ CallsOK
    /\ NoStrayCalls /\ DestroyedOnce /\ ReleasedBeforeDevice

-----------------------------------------------------------------------------
(* What belongs to whom                                                    *)

AppKinds == {"application", "renderer", "globalPool", "framePool", "model", "texture"}
RunKinds == {"ubo", "globalSetLayout", "system", "imguiPool", "imgui"}

(* The owners of what Application makes (application.hpp:66-74). *)
LEMMA AppOwners == \A h \in AppSet : h[1][1] \in AppKinds
<1>1. \A h \in {WindowHandle, CommandBuffers} \cup DeviceSet \cup PoolSet : h[1][1] \in AppKinds
    BY DEF WindowHandle, CommandBuffers, DeviceSet, DeviceHandles, Device, PoolSet, GlobalPool, Pool, App, AppKinds
<1>2. ASSUME NEW h \in EntitySet PROVE h[1][1] \in AppKinds
    <2>1. PICK e \in ToSet(Loaded) : h \in EntityOf(e)
        BY DEF EntitySet
    <2>2. e[1] \in {"model", "texture"}
        BY LoadedElements
    <2>3. h[1] = e
        BY <2>1 DEF EntityOf, BufferSet, ImageSet
    <2> QED
        BY <2>2, <2>3 DEF AppKinds
<1> QED
    BY <1>1, <1>2 DEF AppSet

(* The owners of what run makes (application.cpp:35-79). *)
LEMMA RunOwners == \A h \in RunSet : h[1][1] \in RunKinds
<1>1. \A h \in UboSet : h[1][1] \in RunKinds
    BY DEF UboSet, BufferSet, RunKinds
<1>2. \A name, h : h \in SystemSet(name) => h[1][1] \in RunKinds
    BY DEF SystemSet, PipeSet, Layout, GraphicsPipeline, System, RunKinds
<1>3. \A h \in {SetLayout, OwnSetLayout} \cup ImGuiSet : h[1][1] \in RunKinds
    BY DEF SetLayout, OwnSetLayout, ImGuiSet, ImGuiPool, ImGuiBackend, System, RunKinds
<1> QED
    BY <1>1, <1>2, <1>3 DEF RunSet

(* The owner of what a swap chain makes (swapchain.cpp:42-50). *)
LEMMA ChainOwner == \A c : \A h \in ChainSet(c) : h[1] = c
BY DEF ChainSet, ImageSet, SwapchainKHR

(* The two swap chains and the null one are not each other. *)
LEMMA ChainsDistinct ==
    /\ Chain(0) # Chain(1) /\ Chain(0) # Null /\ Chain(1) # Null
    /\ \A g : Chain(g)[1] = "swapChain"
    /\ \A c \in Chains : Other(c) \in Chains /\ Other(c) # c /\ Other(Other(c)) = c /\ c[1] = "swapChain"
    /\ \A c, d \in Chains : d = c \/ d = Other(c)
BY DEF Chain, Null, Chains, Other

(* All handles, by who makes them. *)
LEMMA HandlesAre == Handles = Base \cup ChainSet(Chain(0)) \cup ChainSet(Chain(1))
<1>1. List(ApplicationHandles \o RunHandles)
      /\ ToSet(ApplicationHandles \o RunHandles) = ToSet(ApplicationHandles) \cup ToSet(RunHandles)
    BY ApplicationElements, RunElements, CatShape
<1>2. ToSet(ApplicationHandles \o RunHandles \o ChainHandles(Chain(1)))
        = ToSet(ApplicationHandles \o RunHandles) \cup ToSet(ChainHandles(Chain(1)))
    BY <1>1, ChainElements, CatShape
<1>3. ToSet(ChainHandles(Chain(1))) = ChainSet(Chain(1))
    BY ChainElements
<1> HIDE DEF Handles
<1> QED
    BY <1>1, <1>2, <1>3, ApplicationElements, RunElements DEF Handles, Base

(* Nobody makes what another makes. *)
LEMMA Apart ==
    /\ AppSet \cap RunSet = {}
    /\ \A g : AppSet \cap ChainSet(Chain(g)) = {} /\ RunSet \cap ChainSet(Chain(g)) = {}
    /\ \A c \in Chains : /\ Base \cap ChainSet(c) = {} /\ ChainSet(c) \cap ChainSet(Other(c)) = {}
                         /\ ChainSet(c) \subseteq Handles
                         /\ Handles = Base \cup ChainSet(c) \cup ChainSet(Other(c))
    /\ ChainSet(Null) \cap Handles = {}
    /\ NoHandle \notin Handles
<1>1. AppSet \cap RunSet = {}
    BY AppOwners, RunOwners DEF AppKinds, RunKinds
<1>2. \A h \in Base : h[1][1] # "swapChain" /\ h[1][1] # "none"
    BY AppOwners, RunOwners DEF Base, AppKinds, RunKinds
<1>3. \A g : \A h \in ChainSet(Chain(g)) : h[1] = Chain(g) /\ h[1][1] = "swapChain"
    BY ChainOwner, ChainsDistinct
<1>4. \A g : Base \cap ChainSet(Chain(g)) = {}
    BY <1>2, <1>3
<1>5. \A c \in Chains : \E g : c = Chain(g)
    BY DEF Chains
<1>6. \A c \in Chains : /\ Base \cap ChainSet(c) = {} /\ ChainSet(c) \cap ChainSet(Other(c)) = {}
                         /\ ChainSet(c) \subseteq Handles
                         /\ Handles = Base \cup ChainSet(c) \cup ChainSet(Other(c))
    <2> TAKE c \in Chains
    <2>1. Base \cap ChainSet(c) = {}
        BY <1>4, <1>5
    <2>2. ChainSet(c) \cap ChainSet(Other(c)) = {}
        BY ChainOwner, ChainsDistinct
    <2>3. {c, Other(c)} = {Chain(0), Chain(1)}
        BY DEF Chains, Other, Chain
    <2>4. Handles = Base \cup ChainSet(c) \cup ChainSet(Other(c))
        BY <2>3, HandlesAre
    <2> QED
        BY <2>1, <2>2, <2>4
<1>7. \A h \in Handles : h[1][1] # "none" /\ h[1] # Null
    <2>1. \A h \in Base : h[1] # Null
        BY <1>2, ChainsDistinct DEF Null
    <2>2. \A h \in ChainSet(Chain(0)) \cup ChainSet(Chain(1)) : h[1] # Null /\ h[1][1] # "none"
        BY ChainOwner, ChainsDistinct
    <2> QED
        BY <1>2, <2>1, <2>2, HandlesAre
<1>8. \A h \in ChainSet(Null) : h[1] = Null
    BY ChainOwner
<1>9. NoHandle[1][1] = "none"
    BY DEF NoHandle
<1>10. ChainSet(Null) \cap Handles = {}
    BY <1>7, <1>8
<1>11. NoHandle \notin Handles
    BY <1>7, <1>9
<1>12. \A g : AppSet \cap ChainSet(Chain(g)) = {} /\ RunSet \cap ChainSet(Chain(g)) = {}
    BY <1>4 DEF Base
<1> QED
    BY <1>1, <1>6, <1>10, <1>11, <1>12

(* Parts of the sets. *)
LEMMA Parts ==
    /\ Rebuilt \subseteq RunSet /\ ImGuiSet \subseteq RunSet /\ Rebuilt \cap ImGuiSet = {}
    /\ EntitySet \cup DeviceSet \cup PoolSet \cup {WindowHandle, CommandBuffers} \subseteq AppSet
    /\ Device \in DeviceSet
    /\ Base \subseteq Handles
<1>1. Rebuilt \subseteq RunSet
    BY DEF Rebuilt, RunSet, SystemSet
<1>2. \A h \in Rebuilt : h[1][1] = "system"
    BY DEF Rebuilt, PipeSet, GraphicsPipeline, System
<1>3. \A h \in ImGuiSet : h[1][1] # "system"
    BY DEF ImGuiSet, ImGuiPool, ImGuiBackend
<1>4. ImGuiSet \subseteq RunSet
    BY DEF RunSet
<1>5. Rebuilt \cap ImGuiSet = {}
    BY <1>2, <1>3
<1>6. EntitySet \cup DeviceSet \cup PoolSet \cup {WindowHandle, CommandBuffers} \subseteq AppSet
    BY DEF AppSet
<1>7. Device \in DeviceSet
    BY DEF DeviceSet
<1> QED
    BY <1>1, <1>4, <1>5, <1>6, <1>7, HandlesAre

(* Nothing of Application or a swap chain has the type of anything F5 rebuilds, so that
   a rebuilt object cannot be given their value.                           *)
LEMMA OtherTypes ==
    \A h \in Rebuilt :
        /\ h[2] \in {"shaderModule", "pipeline"}
        /\ \A c \in Chains : \A k \in ChainSet(c) : k[2] # h[2]
<1>1. \A h \in Rebuilt : h[2] \in {"shaderModule", "pipeline"}
    BY DEF Rebuilt, PipeSet, GraphicsPipeline
<1>2. \A c : \A k \in ChainSet(c) : k[2] \notin {"shaderModule", "pipeline"}
    BY DEF ChainSet, ImageSet, SwapchainKHR
<1> QED
    BY <1>1, <1>2

(* What a null swap chain would have is neither. *)
LEMMA NullTypes == \A h \in ChainSet(Null) : h[2] # "pipelineLayout"
BY DEF ChainSet, ImageSet, SwapchainKHR

(* What goes after the device: the entities and ImGui (application.cpp:20-33). *)
LEMMA HeldLongerIs == HeldLonger = EntitySet \cup {ImGuiBackend}
<1>1. /\ DOMAIN Loaded = 1 .. Len(Loaded) /\ ToSet(Loaded) = {Loaded[k] : k \in 1 .. Len(Loaded)}
    BY LoadedElements, ListShape
<1>2. \A k \in DOMAIN Loaded : ToSet(EntityHandles(Loaded[k])) = EntityOf(Loaded[k])
    BY EntityElements
<1>3. UNION {ToSet(EntityHandles(Loaded[k])) : k \in DOMAIN Loaded} = EntitySet
    BY <1>1, <1>2 DEF EntitySet
<1> QED
    BY <1>3 DEF HeldLonger

-----------------------------------------------------------------------------
(* Once                                                                    *)

(* The same for the handles of calls. *)
OnceIn(s) == \A j, k \in 1 .. Len(s) : s[j] = s[k] /\ Single(s[j]) => j = k

(* Short lists have nothing twice. *)
LEMMA OnceShort == OnceIn(<<>>) /\ \A a : OnceIn(<<a>>)
BY DEF OnceIn

(* A list that is there on a condition has nothing twice. *)
LEMMA OnceIf == ASSUME NEW c \in BOOLEAN, NEW s, OnceIn(s) PROVE OnceIn(If(c, s))
BY OnceShort DEF If

(* Objects that may be destroyed again do not count. *)
LEMMA OnceNone == ASSUME NEW s, List(s), \A h \in ToSet(s) : ~Single(h) PROVE OnceIn(s)
BY ListShape DEF OnceIn

(* In an order nothing comes twice. *)
LEMMA OnceSorted ==
    ASSUME NEW s, List(s), NEW rank, Sorted(s, rank), \A x \in ToSet(s) : rank[x] \in Nat
    PROVE  \A j, k \in 1 .. Len(s) : s[j] = s[k] => j = k
<1>1. Len(s) \in Nat /\ \A k \in 1 .. Len(s) : s[k] \in ToSet(s)
    BY ListShape
<1> SUFFICES ASSUME NEW j \in 1 .. Len(s), NEW k \in 1 .. Len(s), s[j] = s[k], j # k PROVE FALSE
    OBVIOUS
<1>2. j < k \/ k < j
    BY <1>1
<1>3. rank[s[j]] < rank[s[k]] \/ rank[s[k]] < rank[s[j]]
    BY <1>2 DEF Sorted
<1>4. rank[s[j]] \in Nat
    BY <1>1
<1> QED
    BY <1>3, <1>4

(* One list after another. *)
LEMMA OnceCat ==
    ASSUME NEW s, NEW t, List(s), List(t), OnceIn(s), OnceIn(t),
           \A h \in ToSet(s) \cap ToSet(t) : ~Single(h)
    PROVE  OnceIn(s \o t)
<1> DEFINE u == s \o t
<1>1. /\ Len(s) \in Nat /\ Len(t) \in Nat /\ Len(u) = Len(s) + Len(t)
      /\ \A k \in 1 .. Len(s) : u[k] = s[k] /\ s[k] \in ToSet(s)
      /\ \A k \in 1 .. Len(t) : u[Len(s) + k] = t[k] /\ t[k] \in ToSet(t)
    BY CatShape, ListShape
<1> HIDE DEF u
<1> SUFFICES ASSUME NEW j \in 1 .. Len(u), NEW k \in 1 .. Len(u), u[j] = u[k], Single(u[j])
             PROVE  j = k
    BY DEF OnceIn, u
<1>2. ASSUME NEW i \in 1 .. Len(u)
      PROVE  i \in 1 .. Len(s) \/ (i - Len(s) \in 1 .. Len(t) /\ Len(s) + (i - Len(s)) = i)
    BY <1>1
<1> HIDE DEF Single
<1>3. CASE j \in 1 .. Len(s) /\ k \in 1 .. Len(s)
    BY <1>1, <1>3 DEF OnceIn
<1>4. CASE j \in 1 .. Len(s) /\ k \notin 1 .. Len(s)
    <2>1. k - Len(s) \in 1 .. Len(t) /\ u[k] = t[k - Len(s)]
        BY <1>1, <1>2, <1>4
    <2> QED
        BY <1>1, <1>4, <2>1
<1>5. CASE j \notin 1 .. Len(s) /\ k \in 1 .. Len(s)
    <2>1. j - Len(s) \in 1 .. Len(t) /\ u[j] = t[j - Len(s)]
        BY <1>1, <1>2, <1>5
    <2> QED
        BY <1>1, <1>5, <2>1
<1>6. CASE j \notin 1 .. Len(s) /\ k \notin 1 .. Len(s)
    <2>1. j - Len(s) \in 1 .. Len(t) /\ u[j] = t[j - Len(s)]
        BY <1>1, <1>2, <1>6
    <2>2. k - Len(s) \in 1 .. Len(t) /\ u[k] = t[k - Len(s)]
        BY <1>1, <1>2, <1>6
    <2>3. j - Len(s) = k - Len(s)
        BY <2>1, <2>2 DEF OnceIn
    <2> QED
        BY <1>1, <2>3
<1> QED
    BY <1>3, <1>4, <1>5, <1>6

(* The calls for such a list. *)
LEMMA OnceCalls == ASSUME NEW s, List(s), OnceIn(s) PROVE Once(Destroy(s))
<1>1. Len(Destroy(s)) = Len(s) /\ \A k \in 1 .. Len(s) : Destroy(s)[k] = <<"destroy", s[k]>>
    BY CallsShape
<1> HIDE DEF Single
<1> QED
    BY <1>1 DEF Once, OnceIn

(* Creations do not count. *)
LEMMA OnceMakes == ASSUME NEW s, List(s), \A c \in ToSet(s) : c[1] = "create" PROVE Once(s)
<1>1. \A k \in 1 .. Len(s) : s[k] \in ToSet(s)
    BY ListShape
<1> QED
    BY <1>1 DEF Once

(* What was destroyed once will not be again. *)
LEMMA OnceTail ==
    ASSUME NEW s, List(s), s # <<>>, Once(s)
    PROVE  Once(Tail(s)) /\ (Head(s)[1] = "destroy" /\ Single(Head(s)[2]) => Head(s) \notin ToSet(Tail(s)))
<1>1. /\ List(Tail(s)) /\ Len(s) \in Nat \ {0} /\ Head(s) = s[1] /\ Len(Tail(s)) = Len(s) - 1
      /\ \A k \in 1 .. (Len(s) - 1) : Tail(s)[k] = s[k + 1]
    BY TailShape
<1>2. ToSet(Tail(s)) = {Tail(s)[k] : k \in 1 .. (Len(s) - 1)}
    BY <1>1, ListShape
<1>3. \A k \in 1 .. (Len(s) - 1) : k + 1 \in 1 .. Len(s) /\ k + 1 # 1 /\ 1 \in 1 .. Len(s)
    BY <1>1
<1> HIDE DEF Single
<1>4. ASSUME NEW j \in 1 .. Len(Tail(s)), NEW k \in 1 .. Len(Tail(s)),
             Tail(s)[j] = Tail(s)[k], Tail(s)[j][1] = "destroy", Single(Tail(s)[j][2])
      PROVE  j = k
    <2>1. j \in 1 .. (Len(s) - 1) /\ k \in 1 .. (Len(s) - 1)
        BY <1>1
    <2>2. s[j + 1] = s[k + 1] /\ s[j + 1][1] = "destroy" /\ Single(s[j + 1][2])
        BY <1>1, <1>4, <2>1
    <2>3. j + 1 = k + 1
        BY <1>3, <2>1, <2>2 DEF Once
    <2> QED
        BY <2>1, <2>3
<1>5. ASSUME Head(s)[1] = "destroy", Single(Head(s)[2]), Head(s) \in ToSet(Tail(s)) PROVE FALSE
    <2>1. PICK k \in 1 .. (Len(s) - 1) : s[1] = s[k + 1]
        BY <1>1, <1>2, <1>5
    <2> QED
        BY <1>1, <1>3, <1>5, <2>1 DEF Once
<1> QED
    BY <1>4, <1>5 DEF Once

(* What del() and a destructor both release (swapchain.cpp:15-40). *)
LEMMA NotSingle ==
    /\ \A h \in DeviceSet : ~Single(h)
    /\ \A c \in Chains \cup {Null} : \A h \in ChainSet(c) : h # SwapchainKHR(c) => ~Single(h)
    /\ \A e : ~Single(<<e, "view", "texture">>)
<1>1. ToSet(DeviceHandles) = DeviceSet
    BY ListOf4 DEF DeviceHandles, DeviceSet
<1>2. \A c : \A h \in ChainSet(c) : h # SwapchainKHR(c) => h[2] # "swapchain"
    BY DEF ChainSet, SwapchainKHR, ImageSet
<1>3. \A h \in ChainSet(Null) : h \notin Handles
    BY Apart
<1> HIDE DEF Handles, ChainSet
<1>4. \A h \in DeviceSet : h \in Repeated
    BY <1>1 DEF Repeated
<1>5. \A c \in Chains : \A h \in ChainSet(c) : h # SwapchainKHR(c) /\ h \in Handles => h \in Repeated
    BY <1>2, ChainOwner DEF Repeated, Chains
<1>6. \A e : <<e, "view", "texture">> \in Handles => <<e, "view", "texture">> \in Repeated
    BY DEF Repeated
<1> QED
    BY <1>3, <1>4, <1>5, <1>6 DEF Single

-----------------------------------------------------------------------------
(* What the destructors destroy                                            *)

(* A call to destroy k would be right. *)
Callable(k) == k \in Handles => status[k] # "recycled" /\ (Single(k) => status[k] # "dead")

(* A list of handles of S which can be destroyed one after the other. *)
Proper(s, S) == List(s) /\ ToSet(s) \subseteq S /\ OnceIn(s) /\ \A k \in ToSet(s) : Callable(k)

(* Nothing to destroy, or one object. *)
LEMMA ProperShort ==
    /\ \A S : Proper(<<>>, S)
    /\ \A a : Callable(a) => Proper(<<a>>, {a}) /\ ToSet(<<a>>) = {a}
<1> HIDE DEF Callable
<1> QED
    BY ListOf0, ListOf1, OnceShort DEF Proper

(* Two objects. *)
LEMMA ProperTwo ==
    ASSUME NEW a, NEW b, a # b, Callable(a), Callable(b)
    PROVE  Proper(<<a, b>>, {a, b}) /\ ToSet(<<a, b>>) = {a, b}
<1>1. OnceIn(<<a, b>>)
    BY DEF OnceIn
<1> HIDE DEF Callable
<1> QED
    BY <1>1, ListOf2 DEF Proper

(* Three objects. *)
LEMMA ProperThree ==
    ASSUME NEW a, NEW b, NEW c, a # b, b # c, a # c, Callable(a), Callable(b), Callable(c)
    PROVE  Proper(<<a, b, c>>, {a, b, c}) /\ ToSet(<<a, b, c>>) = {a, b, c}
<1>1. OnceIn(<<a, b, c>>)
    BY DEF OnceIn
<1> HIDE DEF Callable
<1> QED
    BY <1>1, ListOf3 DEF Proper

(* One list of calls after another; what both destroy may be destroyed again. *)
LEMMA ProperCat ==
    ASSUME NEW s, NEW t, NEW S, NEW T, Proper(s, S), Proper(t, T), \A h \in S \cap T : ~Single(h)
    PROVE  Proper(s \o t, S \cup T) /\ ToSet(s \o t) = ToSet(s) \cup ToSet(t)
<1> HIDE DEF Callable, Single
<1>1. List(s \o t) /\ ToSet(s \o t) = ToSet(s) \cup ToSet(t)
    BY CatShape DEF Proper
<1>2. OnceIn(s \o t)
    BY OnceCat DEF Proper
<1> QED
    BY <1>1, <1>2 DEF Proper

(* A list of calls on a condition. *)
LEMMA ProperIf ==
    ASSUME NEW c \in BOOLEAN, NEW s, NEW S, c => Proper(s, S)
    PROVE  Proper(If(c, s), S) /\ ToSet(If(c, s)) = IF c THEN ToSet(s) ELSE {}
<1> HIDE DEF Callable
<1>1. Proper(<<>>, S) /\ ToSet(<<>>) = {}
    BY ProperShort, ListOf0
<1> QED
    BY <1>1 DEF If

(* The calls are also handles of a larger set. *)
LEMMA ProperWider == ASSUME NEW s, NEW S, NEW T, Proper(s, S), S \subseteq T PROVE Proper(s, T)
BY DEF Proper

(* Image::del destroys what there is of an image (image.cpp:27-31). *)
LEMMA ImageDelShape ==
    ASSUME NEW owner, NEW part, \A k \in ImageSet(owner, part) : Callable(k)
    PROVE  /\ Proper(ImageDel(owner, part), ImageSet(owner, part))
           /\ \A k \in ImageSet(owner, part) : Live(k) => k \in ToSet(ImageDel(owner, part))
<1> DEFINE v == <<owner, "view", part>>
           i == <<owner, "image", part>>
           m == <<owner, "memory", part>>
           a == If(Assigned(v), <<v>>)
           b == <<i, m>>
<1>1. Callable(v) /\ Callable(i) /\ Callable(m) /\ i # m /\ v # i /\ v # m
    BY DEF ImageSet
<1>2. ImageSet(owner, part) = {v, i, m} /\ ImageDel(owner, part) = a \o b
    BY DEF ImageSet, ImageDel
<1>3. Assigned(v) \in BOOLEAN /\ (Live(v) => Assigned(v))
    BY DEF Assigned, Live
<1> HIDE DEF v, i, m, Callable, Assigned, Live
<1>4. Proper(<<v>>, {v}) /\ ToSet(<<v>>) = {v}
    BY <1>1, ProperShort
<1>5. Proper(a, {v}) /\ ToSet(a) = IF Assigned(v) THEN {v} ELSE {}
    BY <1>3, <1>4, ProperIf
<1>6. Proper(b, {i, m}) /\ ToSet(b) = {i, m}
    BY <1>1, ProperTwo
<1>7. {v} \cap {i, m} = {}
    BY <1>1
<1> HIDE DEF a, b
<1>8. Proper(a \o b, {v} \cup {i, m}) /\ ToSet(a \o b) = ToSet(a) \cup ToSet(b)
    BY <1>5, <1>6, <1>7, ProperCat
<1>9. {v} \cup {i, m} = ImageSet(owner, part)
    BY <1>2
<1>10. \A k \in {v, i, m} : Live(k) => k \in ToSet(a) \cup ToSet(b)
    BY <1>3, <1>5, <1>6
<1> QED
    BY <1>2, <1>8, <1>9, <1>10

(* ~Image does no more than Image::del (image.hpp:27). *)
LEMMA ImageGoneShape ==
    ASSUME NEW owner, NEW part, \A k \in ImageSet(owner, part) : Callable(k)
    PROVE  Proper(ImageGone(owner, part), ImageSet(owner, part))
<1>1. Assigned(<<owner, "memory", part>>) \in BOOLEAN
    BY DEF Assigned
<1> HIDE DEF Callable, Assigned
<1> QED
    BY <1>1, ImageDelShape, ProperIf DEF ImageGone

(* SwapChain::del and the destructors of its members destroy all there is of a swap
   chain, and the KHR object once (swapchain.cpp:15-40).                   *)
LEMMA ChainShape ==
    ASSUME NEW c \in Chains \cup {Null}, \A k \in ChainSet(c) \cap Handles : status[k] # "recycled"
    PROVE  /\ Proper(ChainDel(c), ChainSet(c)) /\ Proper(ChainGone(c), ChainSet(c))
           /\ Proper(ImagesGone(c), ChainSet(c) \ {SwapchainKHR(c)})
           /\ \A k \in ChainSet(c) : Live(k) => k \in ToSet(ChainDel(c)) /\ k \in ToSet(ChainGone(c))
           /\ <<c, "view", "swapchain">> \in ToSet(ChainDel(c))
           /\ SwapchainKHR(c) \in ToSet(ChainDel(c)) \cup ToSet(ChainGone(c)) => Live(SwapchainKHR(c))
<1> DEFINE v == <<c, "view", "swapchain">>
           w == SwapchainKHR(c)
           f == <<c, "framebuffer", "framebuffer">>
           r == <<c, "renderPass", "renderPass">>
           y == <<c, "sync", "sync">>
           C == ImageSet(c, "color")
           D == ImageSet(c, "depth")
           id == ImageDel(c, "color")
           jd == ImageDel(c, "depth")
           ig == ImageGone(c, "depth")
           jg == ImageGone(c, "color")
           u == If(Live(w), <<w>>)
           z == <<f, r, y>>
<1>1. ChainSet(c) = {v, w, f, r, y} \cup C \cup D
    BY DEF ChainSet
<1>2. \A k \in {v, f, r, y} \cup C \cup D : k # w
    BY DEF ImageSet, SwapchainKHR
<1>3. f # r /\ r # y /\ f # y
    OBVIOUS
<1>4. ChainDel(c) = <<v>> \o id \o jd \o u \o z
    BY DEF ChainDel
<1>5. ChainGone(c) = ChainDel(c) \o (ig \o jg) /\ ImagesGone(c) = ig \o jg
    BY DEF ChainGone, ImagesGone
<1> HIDE DEF v, w, f, r, y, C, D, id, jd, ig, jg, Single, ChainDel, ChainGone, ImagesGone
<1>6. \A k \in {v, f, r, y} \cup C \cup D : ~Single(k)
    BY <1>1, <1>2, NotSingle DEF w
<1>7. \A k \in {v, f, r, y} \cup C \cup D : Callable(k)
    BY <1>1, <1>6 DEF Callable
<1>8. Live(w) \in BOOLEAN /\ (Live(w) => Callable(w))
    BY <1>1 DEF Live, Callable
<1> HIDE DEF Callable, Live
<1>9. Proper(<<v>>, {v}) /\ ToSet(<<v>>) = {v}
    BY <1>7, ProperShort
<1>10. Proper(id, C) /\ \A k \in C : Live(k) => k \in ToSet(id)
    BY <1>7, ImageDelShape DEF C, id
<1>11. Proper(jd, D) /\ \A k \in D : Live(k) => k \in ToSet(jd)
    BY <1>7, ImageDelShape DEF D, jd
<1>12. Proper(ig, D)
    BY <1>7, ImageGoneShape DEF D, ig
<1>13. Proper(jg, C)
    BY <1>7, ImageGoneShape DEF C, jg
<1>14. Live(w) => Proper(<<w>>, {w})
    BY <1>8, ProperShort
<1>15. Proper(u, {w}) /\ ToSet(u) = IF Live(w) THEN ToSet(<<w>>) ELSE {}
    BY <1>8, <1>14, ProperIf
<1>16. Proper(z, {f, r, y}) /\ ToSet(z) = {f, r, y}
    BY <1>3, <1>7, ProperThree
<1> HIDE DEF u, z
<1>17. Proper(<<v>> \o id, {v} \cup C) /\ ToSet(<<v>> \o id) = {v} \cup ToSet(id)
    BY <1>6, <1>9, <1>10, ProperCat
<1>18. /\ Proper(<<v>> \o id \o jd, {v} \cup C \cup D)
       /\ ToSet(<<v>> \o id \o jd) = {v} \cup ToSet(id) \cup ToSet(jd)
    BY <1>6, <1>11, <1>17, ProperCat
<1>19. ({v} \cup C \cup D) \cap {w} = {}
    BY <1>2
<1>20. /\ Proper(<<v>> \o id \o jd \o u, {v} \cup C \cup D \cup {w})
       /\ ToSet(<<v>> \o id \o jd \o u) = {v} \cup ToSet(id) \cup ToSet(jd) \cup ToSet(u)
    BY <1>15, <1>18, <1>19, ProperCat
<1>21. \A k \in ({v} \cup C \cup D \cup {w}) \cap {f, r, y} : ~Single(k)
    BY <1>6
<1>22. /\ Proper(ChainDel(c), {v} \cup C \cup D \cup {w} \cup {f, r, y})
       /\ ToSet(ChainDel(c)) = {v} \cup ToSet(id) \cup ToSet(jd) \cup ToSet(u) \cup {f, r, y}
    <2> DEFINE p == <<v>> \o id \o jd \o u
               P == {v} \cup C \cup D \cup {w}
               F == {f, r, y}
    <2>1. Proper(p, P) /\ Proper(z, F) /\ (\A k \in P \cap F : ~Single(k)) /\ ChainDel(c) = p \o z
        BY <1>4, <1>16, <1>20, <1>21 DEF z
    <2>2. Proper(p \o z, P \cup F) /\ ToSet(p \o z) = ToSet(p) \cup ToSet(z)
        <3> HIDE DEF p, P, F
        <3> QED
            BY <2>1, ProperCat
    <2> QED
        BY <1>16, <1>20, <2>1, <2>2
<1>23. {v} \cup C \cup D \cup {w} \cup {f, r, y} = ChainSet(c)
    BY <1>1
<1>24. Proper(ig \o jg, D \cup C)
    BY <1>6, <1>12, <1>13, ProperCat
<1>25. D \cup C \subseteq ChainSet(c) \ {w} /\ \A k \in ChainSet(c) \cap (D \cup C) : ~Single(k)
    BY <1>1, <1>2, <1>6
<1>26. Proper(ig \o jg, ChainSet(c) \ {w})
    BY <1>24, <1>25, ProperWider
<1>27. Proper(ChainDel(c), ChainSet(c))
    BY <1>22, <1>23
<1>28. /\ Proper(ChainDel(c) \o (ig \o jg), ChainSet(c) \cup (D \cup C))
       /\ ToSet(ChainDel(c) \o (ig \o jg)) = ToSet(ChainDel(c)) \cup ToSet(ig \o jg)
    BY <1>24, <1>25, <1>27, ProperCat
<1>29. Proper(ChainGone(c), ChainSet(c))
    BY <1>5, <1>25, <1>28, ProperWider
<1>30. ToSet(<<w>>) = {w}
    BY ListOf1
<1>31. \A k \in ChainSet(c) : Live(k) => k \in ToSet(ChainDel(c))
    BY <1>1, <1>10, <1>11, <1>15, <1>22, <1>30
<1>32. w \in ToSet(ChainDel(c)) \cup ToSet(ChainGone(c)) => Live(w)
    <2>1. w \notin {v, f, r, y} \cup C \cup D
        BY <1>2
    <2>2. ToSet(id) \subseteq C /\ ToSet(jd) \subseteq D /\ ToSet(ig \o jg) \subseteq D \cup C
        BY <1>10, <1>11, <1>24 DEF Proper
    <2>3. ToSet(ChainGone(c)) = ToSet(ChainDel(c)) \cup ToSet(ig \o jg)
        BY <1>5, <1>28
    <2> QED
        BY <1>15, <1>22, <2>1, <2>2, <2>3
<1> QED
    BY <1>5, <1>22, <1>26, <1>27, <1>28, <1>29, <1>31, <1>32 DEF v, w

(* What each object of run must be like for its destructor: in place or never made,
   except for a pipeline under reconstruction; and whole, except for the failed one. *)
Orderly(h) ==
    /\ AllIn(RunSet \ Rebuilt, {"none", "live"})
    /\ \A name \in {"simple", "texture"} :
          status[GraphicsPipeline(name)] = "live" => AllIn(PipeSet(name), {"none", "live"})
    /\ \A k, l \in RunSet : k[1] = l[1] /\ k[1] # h[1] /\ status[k] = "live" => status[l] = "live"

(* ~RenderSystem destroys its layout and its pipeline (rendersystem.hpp:29-31). *)
LEMMA SystemGoneShape ==
    ASSUME NEW name \in {"simple", "billboard", "texture"}, NEW h, Orderly(h)
    PROVE  /\ Proper(SystemGone(name, h), SystemSet(name))
           /\ \A k \in SystemSet(name) : Live(k) /\ k[1] # h[1] => k \in ToSet(SystemGone(name, h))
<1> DEFINE y == Layout(name)
           g == GraphicsPipeline(name)
           v == <<System(name), "shaderModule", "vert">>
           f == <<System(name), "shaderModule", "frag">>
           p == PipelineGone(name)
           s == <<y>> \o p
           c == Assigned(y) \/ h[1] = System(name)
<1>1. SystemSet(name) = {y, v, f, g} /\ PipeSet(name) = {v, f, g} /\ PipelineHandles(name) = <<v, f, g>>
    BY DEF SystemSet, PipeSet, PipelineHandles
<1>2. SystemSet(name) \subseteq RunSet /\ RunSet \subseteq Handles
    BY HandlesAre DEF RunSet, Base
<1>3. v # f /\ f # g /\ v # g /\ y \notin {v, f, g}
    BY DEF Layout, GraphicsPipeline
<1>4. y \notin Rebuilt /\ (name = "billboard" => {v, f, g} \cap Rebuilt = {})
    BY DEF Rebuilt, PipeSet, Layout, GraphicsPipeline, System
<1>5. y[1] = System(name) /\ v[1] = System(name) /\ f[1] = System(name) /\ g[1] = System(name)
    BY DEF Layout, GraphicsPipeline
<1>6. SystemGone(name, h) = If(c, s) /\ p = If(Live(g), PipelineHandles(name))
    BY DEF SystemGone, PipelineGone
<1> HIDE DEF y, v, f, g, p, Handles, RunSet, Rebuilt
<1>7. status[y] \in {"none", "live"}
    BY <1>1, <1>2, <1>4 DEF Orderly, AllIn
<1>8. status[g] = "live" => \A k \in {v, f, g} : status[k] \in {"none", "live"}
    <2>1. CASE name = "billboard"
        BY <1>1, <1>2, <1>4, <2>1 DEF Orderly, AllIn
    <2>2. CASE name # "billboard"
        BY <1>1, <2>2 DEF Orderly, AllIn, g
    <2> QED
        BY <2>1, <2>2
<1>9. Callable(y) /\ (Live(g) => Callable(v) /\ Callable(f) /\ Callable(g))
    BY <1>7, <1>8 DEF Callable, Live
<1>10. Live(g) \in BOOLEAN /\ c \in BOOLEAN
    BY DEF Live, Assigned
<1>11. \A k \in {y, v, f, g} : Live(k) /\ k[1] # h[1] => Assigned(y) /\ Live(g)
    <2> SUFFICES ASSUME NEW k \in {y, v, f, g}, Live(k), k[1] # h[1] PROVE Assigned(y) /\ Live(g)
        OBVIOUS
    <2>1. k \in RunSet /\ y \in RunSet /\ g \in RunSet /\ k[1] = y[1] /\ k[1] = g[1] /\ status[k] = "live"
        BY <1>1, <1>2, <1>5 DEF Live
    <2>2. status[y] = "live" /\ status[g] = "live"
        BY <2>1 DEF Orderly
    <2> QED
        BY <1>2, <2>1, <2>2 DEF Assigned, Live
<1> HIDE DEF Callable, Live, Assigned
<1>12. Live(g) => Proper(<<v, f, g>>, {v, f, g}) /\ ToSet(<<v, f, g>>) = {v, f, g}
    BY <1>3, <1>9, ProperThree
<1>13. Proper(p, {v, f, g}) /\ ToSet(p) = IF Live(g) THEN {v, f, g} ELSE {}
    BY <1>1, <1>6, <1>10, <1>12, ProperIf
<1>14. Proper(<<y>>, {y}) /\ ToSet(<<y>>) = {y}
    BY <1>9, ProperShort
<1>15. {y} \cap {v, f, g} = {}
    BY <1>3
<1>16. Proper(s, {y} \cup {v, f, g}) /\ ToSet(s) = {y} \cup ToSet(p)
    BY <1>13, <1>14, <1>15, ProperCat
<1> HIDE DEF s
<1>17. Proper(If(c, s), {y} \cup {v, f, g}) /\ ToSet(If(c, s)) = IF c THEN ToSet(s) ELSE {}
    <2> HIDE DEF c
    <2> QED
        BY <1>10, <1>16, ProperIf
<1>18. {y} \cup {v, f, g} = SystemSet(name)
    BY <1>1
<1>19. \A k \in {y, v, f, g} : Live(k) /\ k[1] # h[1] => k \in ToSet(If(c, s))
    BY <1>11, <1>13, <1>16, <1>17
<1> QED
    BY <1>1, <1>6, <1>17, <1>18, <1>19

(* The uniform buffers (buffer.cpp:41-45). *)
UbosGone == InOrder(UniformBuffers, LAMBDA u : BufferGone(u, "uniform"))

(* Those of them that are there go (buffer.cpp:41-45, application.cpp:36-44). *)
LEMMA UboGoneShape ==
    ASSUME NEW h, Orderly(h)
    PROVE  /\ Proper(UbosGone, UboSet)
           /\ \A k \in UboSet : Live(k) /\ k[1] # h[1] => k \in ToSet(UbosGone)
<1> DEFINE n == FrameCount
           B(k) == <<Ubo(k), "buffer", "uniform">>
           M(k) == <<Ubo(k), "memory", "uniform">>
           seqs == [k \in DOMAIN UniformBuffers |-> BufferGone(UniformBuffers[k], "uniform")]
           s == FlattenSeq(seqs)
<1>1. n \in Nat
    BY LifetimesAssumption
<1>2. DOMAIN UniformBuffers = 1 .. n /\ \A k \in 1 .. n : UniformBuffers[k] = Ubo(k)
    BY DEF UniformBuffers, Numbered, Ubo
<1>3. UboSet = UNION {{B(k), M(k)} : k \in 1 .. n} /\ UboSet \subseteq RunSet /\ RunSet \subseteq Handles
    BY HandlesAre DEF UboSet, BufferSet, Ubo, RunSet, Base
<1>4. /\ seqs = [k \in 1 .. n |-> seqs[k]]
      /\ \A k \in 1 .. n : seqs[k] = If(Live(M(k)), <<B(k), M(k)>>)
    BY <1>2 DEF BufferGone, BufferOf
<1>5. UboSet \cap Rebuilt = {}
    BY DEF UboSet, BufferSet, Rebuilt, PipeSet, GraphicsPipeline, System
<1>6. \A k \in 1 .. n : B(k)[1] = M(k)[1]
    OBVIOUS
<1> HIDE DEF seqs, B, M, UboSet, Handles, RunSet, Rebuilt
<1>7. ASSUME NEW k \in 1 .. n
      PROVE  /\ List(seqs[k]) /\ ToSet(seqs[k]) = (IF Live(M(k)) THEN {B(k), M(k)} ELSE {})
             /\ Sorted(seqs[k], RunRank)
    <2>1. RunRank[B(k)] = 8 * k + 1 /\ RunRank[M(k)] = 8 * k + 2
        BY UboRank DEF B, M
    <2>2. RunRank[B(k)] < RunRank[M(k)]
        BY <1>1, <2>1
    <2>3. Sorted(<<B(k), M(k)>>, RunRank) /\ Sorted(<<>>, RunRank)
        BY <2>2, SortedOf2 DEF Sorted
    <2>4. List(<<B(k), M(k)>>) /\ ToSet(<<B(k), M(k)>>) = {B(k), M(k)}
        BY ListOf2
    <2>5. Live(M(k)) \in BOOLEAN
        BY DEF Live
    <2> HIDE DEF Live
    <2> QED
        BY <1>4, <2>3, <2>4, <2>5, IfShape DEF If
<1>8. Lists(seqs, n)
    BY <1>1, <1>4, <1>7, MakeLists
<1>9. ASSUME NEW j \in 1 .. n, NEW k \in 1 .. n, j < k,
             NEW x \in ToSet(seqs[j]), NEW y \in ToSet(seqs[k])
      PROVE  RunRank[x] < RunRank[y]
    <2>1. RunRank[x] \in {8 * j + 1, 8 * j + 2}
        BY <1>7, UboRank DEF B, M
    <2>2. RunRank[y] \in {8 * k + 1, 8 * k + 2}
        BY <1>7, UboRank DEF B, M
    <2> QED
        BY <1>1, <1>9, <2>1, <2>2
<1>10. Sorted(s, RunRank)
    BY <1>7, <1>8, <1>9, JoinSorted
<1>11. List(s) /\ ToSet(s) = UNION {ToSet(seqs[k]) : k \in 1 .. n}
    BY <1>8, JoinElements
<1> HIDE DEF s
<1>12. ASSUME NEW x \in ToSet(s)
       PROVE  x \in UboSet /\ RunRank[x] \in Nat
    <2>1. PICK k \in 1 .. n : x \in ToSet(seqs[k])
        BY <1>11
    <2>2. x \in {B(k), M(k)}
        BY <1>7, <2>1
    <2>3. RunRank[x] \in {8 * k + 1, 8 * k + 2}
        BY <2>2, UboRank DEF B, M
    <2> QED
        BY <1>1, <1>3, <2>2, <2>3
<1>13. OnceIn(s)
    BY <1>10, <1>11, <1>12, OnceSorted DEF OnceIn
<1>14. \A x \in UboSet : Callable(x)
    BY <1>3, <1>5 DEF Orderly, AllIn, Callable
<1>15. Proper(s, UboSet)
    BY <1>11, <1>12, <1>13, <1>14 DEF Proper
<1>16. ASSUME NEW x \in UboSet, Live(x), x[1] # h[1] PROVE x \in ToSet(s)
    <2>1. PICK k \in 1 .. n : x \in {B(k), M(k)}
        BY <1>3
    <2>2. x \in RunSet /\ M(k) \in RunSet /\ x[1] = M(k)[1] /\ status[x] = "live"
        BY <1>3, <1>6, <1>16, <2>1 DEF Live
    <2>3. status[M(k)] = "live"
        BY <1>16, <2>2 DEF Orderly
    <2>4. Live(M(k))
        BY <1>3, <2>2, <2>3 DEF Live
    <2>5. ToSet(seqs[k]) = {B(k), M(k)}
        BY <1>7, <2>4
    <2> QED
        BY <1>11, <2>1, <2>5
<1> QED
    BY <1>15, <1>16 DEF UbosGone, InOrder, seqs, s

(* The objects of run have different owners, except for the set layout of the texture
   system.                                                                 *)
LEMMA RunParts ==
    /\ {OwnSetLayout} \cap SystemSet("texture") = {}
    /\ ({OwnSetLayout} \cup SystemSet("texture")) \cap SystemSet("billboard") = {}
    /\ ({OwnSetLayout} \cup SystemSet("texture") \cup SystemSet("billboard")) \cap SystemSet("simple") = {}
    /\ SetLayout \notin {OwnSetLayout} \cup SystemSet("texture") \cup SystemSet("billboard") \cup SystemSet("simple")
    /\ ({OwnSetLayout} \cup SystemSet("texture") \cup SystemSet("billboard") \cup SystemSet("simple")
        \cup {SetLayout}) \cap UboSet = {}
    /\ {OwnSetLayout} \cup SystemSet("texture") \cup SystemSet("billboard") \cup SystemSet("simple")
       \cup {SetLayout} \cup UboSet = RunSet \ ImGuiSet
<1>1. \A name : \A k \in SystemSet(name) : k[1] = System(name) /\ k[2] # "setLayout"
    BY DEF SystemSet, PipeSet, Layout, GraphicsPipeline
<1>2. OwnSetLayout[1] = System("texture") /\ OwnSetLayout[2] = "setLayout"
    BY DEF OwnSetLayout
<1>3. SetLayout[1][1] = "globalSetLayout" /\ \A name : System(name)[1] = "system" /\ System(name)[2] = name
    BY DEF SetLayout, System
<1>4. \A k \in UboSet : k[1][1] = "ubo"
    BY DEF UboSet, BufferSet
<1>5. \A k \in ImGuiSet : k[1][1] \in {"imgui", "imguiPool"}
    BY DEF ImGuiSet, ImGuiPool, ImGuiBackend
<1> HIDE DEF SystemSet, UboSet, ImGuiSet, System
<1>6. {OwnSetLayout} \cup SystemSet("texture") \cup SystemSet("billboard") \cup SystemSet("simple")
       \cup {SetLayout} \cup UboSet = RunSet \ ImGuiSet
    BY <1>1, <1>2, <1>3, <1>4, <1>5 DEF RunSet
<1> QED
    BY <1>1, <1>2, <1>3, <1>4, <1>6

(* The locals of run, in reverse: nothing that was given away, nothing twice, and all
   that is live but the leftovers of a constructor that failed (application.cpp:35-79). *)
LEMMA RunGoneShape ==
    ASSUME NEW h, Orderly(h)
    PROVE  /\ Proper(RunGone(h), RunSet \ ImGuiSet)
           /\ \A k \in RunSet \ ImGuiSet : Live(k) /\ k[1] # h[1] => k \in ToSet(RunGone(h))
<1> DEFINE a == If(Live(OwnSetLayout), <<OwnSetLayout>>)
           b == SystemGone("texture", h)
           c == SystemGone("billboard", h)
           d == SystemGone("simple", h)
           e == If(Live(SetLayout), <<SetLayout>>)
           f == UbosGone
           A == {OwnSetLayout}
           B == SystemSet("texture")
           C == SystemSet("billboard")
           D == SystemSet("simple")
           E == {SetLayout}
           F == UboSet
<1>1. RunGone(h) = a \o b \o c \o d \o e \o f
    BY DEF RunGone, UbosGone
<1>2. ASSUME NEW x, Live(x) PROVE Callable(x)
    BY <1>2 DEF Live, Callable
<1>3. \A x : Live(x) \in BOOLEAN
    BY DEF Live
<1> HIDE DEF Live, Callable
<1>4. Proper(a, A) /\ ToSet(a) = IF Live(OwnSetLayout) THEN A ELSE {}
    <2>1. Live(OwnSetLayout) => Proper(<<OwnSetLayout>>, A) /\ ToSet(<<OwnSetLayout>>) = A
        BY <1>2, ProperShort
    <2> QED
        BY <1>3, <2>1, ProperIf
<1>5. Proper(e, E) /\ ToSet(e) = IF Live(SetLayout) THEN E ELSE {}
    <2>1. Live(SetLayout) => Proper(<<SetLayout>>, E) /\ ToSet(<<SetLayout>>) = E
        BY <1>2, ProperShort
    <2> QED
        BY <1>3, <2>1, ProperIf
<1>6. /\ Proper(b, B) /\ \A k \in B : Live(k) /\ k[1] # h[1] => k \in ToSet(b)
      /\ Proper(c, C) /\ \A k \in C : Live(k) /\ k[1] # h[1] => k \in ToSet(c)
      /\ Proper(d, D) /\ \A k \in D : Live(k) /\ k[1] # h[1] => k \in ToSet(d)
    BY SystemGoneShape
<1>7. Proper(f, F) /\ \A k \in F : Live(k) /\ k[1] # h[1] => k \in ToSet(f)
    BY UboGoneShape
<1>8. /\ A \cap B = {} /\ (A \cup B) \cap C = {} /\ (A \cup B \cup C) \cap D = {}
      /\ (A \cup B \cup C \cup D) \cap E = {} /\ (A \cup B \cup C \cup D \cup E) \cap F = {}
      /\ A \cup B \cup C \cup D \cup E \cup F = RunSet \ ImGuiSet
    BY RunParts
<1>9. /\ \A k \in A : Live(k) => k \in ToSet(a)
      /\ \A k \in E : Live(k) => k \in ToSet(e)
    BY <1>4, <1>5
<1> HIDE DEF a, b, c, d, e, f, A, B, C, D, E, F, Single
<1>10. Proper(a \o b, A \cup B) /\ ToSet(a \o b) = ToSet(a) \cup ToSet(b)
    BY <1>4, <1>6, <1>8, ProperCat
<1> DEFINE ab == a \o b
           AB == A \cup B
<1> HIDE DEF ab, AB
<1>11. Proper(ab \o c, AB \cup C) /\ ToSet(ab \o c) = ToSet(ab) \cup ToSet(c)
    BY <1>6, <1>8, <1>10, ProperCat DEF ab, AB
<1> DEFINE abc == ab \o c
           ABC == AB \cup C
<1> HIDE DEF abc, ABC
<1>12. Proper(abc \o d, ABC \cup D) /\ ToSet(abc \o d) = ToSet(abc) \cup ToSet(d)
    BY <1>6, <1>8, <1>11, ProperCat DEF abc, ABC, AB
<1> DEFINE abcd == abc \o d
           ABCD == ABC \cup D
<1> HIDE DEF abcd, ABCD
<1>13. Proper(abcd \o e, ABCD \cup E) /\ ToSet(abcd \o e) = ToSet(abcd) \cup ToSet(e)
    BY <1>5, <1>8, <1>12, ProperCat DEF abcd, ABCD, ABC, AB
<1> DEFINE abcde == abcd \o e
           ABCDE == ABCD \cup E
<1> HIDE DEF abcde, ABCDE
<1>14. Proper(abcde \o f, ABCDE \cup F) /\ ToSet(abcde \o f) = ToSet(abcde) \cup ToSet(f)
    <2>1. ABCDE \cap F = {}
        BY <1>8 DEF ABCDE, ABCD, ABC, AB
    <2>2. Proper(abcde, ABCDE)
        BY <1>13 DEF abcde, ABCDE
    <2>3. Proper(f, F)
        BY <1>7
    <2> QED
        BY <2>1, <2>2, <2>3, ProperCat
<1>15. RunGone(h) = abcde \o f
    BY <1>1 DEF abcde, abcd, abc, ab
<1>16. ABCDE \cup F = RunSet \ ImGuiSet
    BY <1>8 DEF ABCDE, ABCD, ABC, AB
<1>17. ToSet(RunGone(h)) = ToSet(a) \cup ToSet(b) \cup ToSet(c) \cup ToSet(d) \cup ToSet(e) \cup ToSet(f)
    BY <1>10, <1>11, <1>12, <1>13, <1>14, <1>15 DEF abcde, abcd, abc, ab
<1>18. ASSUME NEW k \in RunSet \ ImGuiSet, Live(k), k[1] # h[1] PROVE k \in ToSet(RunGone(h))
    <2>1. k \in A \cup B \cup C \cup D \cup E \cup F
        BY <1>8
    <2> QED
        BY <1>6, <1>7, <1>9, <1>17, <1>18, <2>1
<1> QED
    BY <1>14, <1>15, <1>16, <1>18

-----------------------------------------------------------------------------
(* A call that destroys                                                    *)

(* The call is made, and the object was there. *)
Taken(h) ==
    /\ h \in Handles /\ todo # <<>> /\ Head(todo) = <<"destroy", h>> /\ todo' = Tail(todo)
    /\ status' = [status EXCEPT ![h] = IF @ = "live" THEN "dead" ELSE @]
    /\ twice' = IF status[h] = "dead" THEN twice \cup {h} ELSE twice
    /\ stray' = IF status[h] = "recycled" THEN stray \cup {h} ELSE stray
    /\ UNCHANGED <<pc, chain, old, entities, failed>>

(* It was not, and anything may happen. *)
Lost ==
    /\ todo # <<>> /\ Head(todo)[1] = "destroy" /\ pc' = "undefined" /\ todo' = <<>>
    /\ UNCHANGED <<status, chain, old, entities, failed, twice, stray>>

(* A call to destroy is one or the other (main.cpp:8-16). *)
LEMMA TakenOrLost == ASSUME LifeTypes, DestroyNext PROVE Lost \/ \E h : Taken(h)
<1> DEFINE c == Head(todo)
           h == c[2]
<1>1. todo # <<>> /\ c[1] = "destroy" /\ c \in Calls
    BY TailShape DEF LifeTypes, DestroyNext
<1>2. h \in Handles \cup ChainSet(Null) /\ c = <<"destroy", h>>
    BY <1>1 DEF Calls
<1>3. CASE /\ Assigned(h) \/ h[2] = "pipelineLayout"
           /\ status' = [status EXCEPT ![h] = IF @ = "live" THEN "dead" ELSE @]
           /\ twice' = IF status[h] = "dead" THEN twice \cup {h} ELSE twice
           /\ stray' = IF status[h] = "recycled" THEN stray \cup {h} ELSE stray
           /\ todo' = Tail(todo)
           /\ UNCHANGED pc
    <2>1. h \in Handles
        <3>1. Assigned(h) => h \in Handles
            BY DEF Assigned
        <3> HIDE DEF Assigned, Handles
        <3> QED
            BY <1>2, <1>3, <3>1, NullTypes
    <2>2. UNCHANGED <<chain, old, entities, failed>>
        BY DEF DestroyNext
    <2> HIDE DEF Handles
    <2>3. Taken(h)
        BY <1>1, <1>2, <1>3, <2>1, <2>2 DEF Taken
    <2> QED
        BY <2>3
<1>4. CASE /\ pc' = "undefined" /\ todo' = <<>>
           /\ UNCHANGED <<status, twice, stray>>
    BY <1>1, <1>4 DEF Lost, DestroyNext
<1> QED
    BY <1>3, <1>4 DEF DestroyNext

(* After undefined behaviour the program does nothing more (main.cpp:8-16). *)
LEMMA LostKeeps == LifeInv /\ Lost => LifeInv'
<1> SUFFICES ASSUME LifeInv, Lost PROVE LifeInv'
    OBVIOUS
<1>0. Head(todo) \in ToSet(todo) /\ Head(todo)[1] = "destroy"
    BY TailShape DEF LifeInv, LifeTypes, Lost
<1>1. LifeTypes'
    BY ListOf0 DEF LifeInv, LifeTypes, Lost, Ends
<1>2. PhaseInv'
    BY DEF PhaseInv, Lost
<1>3. RecycledOK' /\ FailedOK' /\ CallsOK'
    <2>1. RecycledOK'
        BY DEF LifeInv, RecycledOK, Lost
    <2>2. FailedOK'
        <3>1. pc # "terminated"
            BY DEF LifeInv, LifeTypes, Lost, Ends
        <3> QED
            BY <3>1 DEF LifeInv, FailedOK, Lost
    <2>3. CallsOK'
        BY ListOf0 DEF Lost, CallsOK, Breaks, Once
    <2> QED
        BY <2>1, <2>2, <2>3
<1>4. ChainOK'
    <2>1. pc \notin {"construct", "recreate"}
        BY <1>0 DEF LifeInv, PhaseInv, Constructing, Recreating, OnlyMakes
    <2> QED
        BY <2>1 DEF LifeInv, ChainOK, Lost
<1>5. NoStrayCalls' /\ DestroyedOnce' /\ ReleasedBeforeDevice'
    BY DEF LifeInv, NoStrayCalls, DestroyedOnce, ReleasedBeforeDevice, Lost, Live
<1> QED
    BY <1>1, <1>2, <1>3, <1>4, <1>5 DEF LifeInv

(* What is left of the calls, and of what is live, after one was made. *)
Fewer(h) ==
    /\ List(todo') /\ ToSet(todo') \subseteq ToSet(todo)
    /\ ToSet(todo) = {<<"destroy", h>>} \cup ToSet(todo')
    /\ status' \in [Handles -> {"none", "live", "dead", "recycled"}]
    /\ \A k \in Handles : k # h => status'[k] = status[k]
    /\ status'[h] = IF status[h] = "live" THEN "dead" ELSE status[h]
    /\ h \in Handles

(* A call that was made is not made again. *)
LEMMA TakenFewer == ASSUME LifeTypes, NEW h, Taken(h) PROVE Fewer(h)
<1>1. /\ List(todo') /\ ToSet(todo) = {<<"destroy", h>>} \cup ToSet(todo')
    BY TailShape DEF LifeTypes, Taken
<1>2. status \in [Handles -> {"none", "live", "dead", "recycled"}]
    BY DEF LifeTypes
<1> HIDE DEF Handles
<1>3. /\ status' \in [Handles -> {"none", "live", "dead", "recycled"}]
      /\ \A k \in Handles : k # h => status'[k] = status[k]
      /\ status'[h] = IF status[h] = "live" THEN "dead" ELSE status[h]
      /\ h \in Handles
    BY <1>2 DEF Taken
<1> QED
    BY <1>1, <1>3 DEF Fewer

(* All that does not depend on the phase. *)
Kept == LifeTypes /\ RecycledOK /\ FailedOK /\ ChainOK /\ CallsOK /\ NoStrayCalls /\ DestroyedOnce

(* What a call that destroys keeps in every phase. *)
LEMMA TakenKeeps == ASSUME LifeInv, NEW h, Taken(h) PROVE Kept'
<1> USE DEF LifeInv
<1>f. Fewer(h)
    BY TakenFewer
<1>1. Breaks(h) /\ h \in Handles
    BY <1>f DEF Fewer, Breaks
<1>2. status[h] # "recycled" /\ (status[h] = "dead" => h \in Repeated)
    BY <1>1 DEF CallsOK, Single
<1>3. NoStrayCalls' /\ DestroyedOnce'
    BY <1>2 DEF Taken, NoStrayCalls, DestroyedOnce
<1>4. twice' \cup stray' \subseteq Handles
    BY <1>1 DEF Taken, LifeTypes
<1> HIDE DEF Handles
<1>5. LifeTypes'
    <2>1. todo # <<>>
        BY DEF Taken
    <2> QED
        BY <1>4, <1>f, <2>1 DEF LifeTypes, Taken, Fewer
<1>6. RecycledOK'
    BY <1>f, <1>2 DEF RecycledOK, Fewer
<1>7. FailedOK' /\ ChainOK'
    BY DEF FailedOK, ChainOK, Taken
<1>8. CallsOK'
    <2>1. Once(Tail(todo)) /\ (Single(h) => Head(todo) \notin ToSet(Tail(todo)))
        BY OnceTail DEF Taken, LifeTypes, CallsOK
    <2>2. Once(todo') /\ (Single(h) => <<"destroy", h>> \notin ToSet(todo'))
        BY <2>1 DEF Taken
    <2>3. \A k \in Handles : <<"destroy", k>> \in ToSet(todo') => Breaks(k)
        BY <1>f DEF Fewer, Breaks
    <2> HIDE DEF Single
    <2>4. ASSUME NEW k \in Handles, Breaks(k)' PROVE status'[k] # "recycled" /\ (Single(k) => status'[k] # "dead")
        <3>1. Breaks(k)
            BY <2>3, <2>4 DEF Breaks
        <3>2. CASE k = h
            BY <1>2, <1>f, <2>2, <2>4, <3>2 DEF Fewer, Breaks
        <3>3. CASE k # h
            BY <1>f, <3>1, <3>3 DEF Fewer, CallsOK
        <3> QED
            BY <3>2, <3>3
    <2>5. \A k : Single(k)' <=> Single(k)
        BY DEF Single
    <2> QED
        BY <2>2, <2>4, <2>5 DEF CallsOK, Once
<1> QED
    BY <1>3, <1>5, <1>6, <1>7, <1>8 DEF Kept

(* What was live is destroyed by the call made or by one that is left. *)
LEMMA TakenOthers ==
    ASSUME NEW h, Fewer(h), failed' = failed, NEW k \in Handles, status'[k] = "live",
           Breaks(k) \/ OfFailed(k)
    PROVE  status[k] = "live" /\ (Breaks(k)' \/ OfFailed(k)')
<1>1. k # h /\ status[k] = "live"
    BY DEF Fewer
<1>2. Breaks(k) => Breaks(k)'
    BY <1>1 DEF Fewer, Breaks
<1>3. OfFailed(k) => OfFailed(k)'
    BY DEF OfFailed
<1> QED
    BY <1>1, <1>2, <1>3

(* In the loop, only of the old swap chain (renderer.cpp:112-116). *)
LEMMA TakenLoop == ASSUME LifeInv, NEW h, Taken(h), pc = "loop" PROVE Looping'
<1>0. Looping /\ LifeTypes
    BY DEF LifeInv, PhaseInv
<1>f. Fewer(h) /\ UNCHANGED <<chain, old, entities, failed>>
    BY <1>0, TakenFewer DEF Taken
<1>1. h \in ChainSet(Other(chain)) /\ h \notin Base \cup ChainSet(chain)
    <2>1. Breaks(h)
        BY <1>f DEF Fewer, Breaks
    <2>2. h \in ChainSet(Other(chain))
        BY <1>0, <2>1 DEF Looping, OnlyBreaks, Breaks
    <2> QED
        BY <1>0, <2>2, Apart, ChainsDistinct DEF Looping
<1>2. Base \cup ChainSet(chain) \subseteq Handles
    BY <1>0, Apart DEF Looping
<1> HIDE DEF Handles, Base, ChainSet, Other, Chains
<1>3. OnlyBreaks(ChainSet(Other(chain)))'
    BY <1>0, <1>f DEF Looping, OnlyBreaks, Fewer
<1>4. AllLive(Base \cup ChainSet(chain))'
    BY <1>0, <1>1, <1>2, <1>f DEF Looping, AllLive, AllIn, Fewer
<1>5. OthersGo(Base \cup ChainSet(chain))'
    <2> SUFFICES ASSUME NEW k \in Handles, status'[k] = "live", k \notin Base \cup ChainSet(chain)
                 PROVE  Breaks(k)' \/ OfFailed(k)'
        BY <1>f DEF OthersGo
    <2>1. status[k] = "live"
        BY <1>f DEF Fewer
    <2>2. Breaks(k) \/ OfFailed(k)
        BY <1>0, <2>1 DEF Looping, OthersGo
    <2> QED
        BY <1>f, <2>2, TakenOthers
<1> QED
    BY <1>0, <1>f, <1>3, <1>4, <1>5 DEF Looping

(* On the way out of run (application.cpp:35-79). *)
LEMMA TakenLeave == ASSUME LifeInv, NEW h, Taken(h), pc = "leave" PROVE Leaving'
<1> DEFINE S == AppSet \cup ImGuiSet \cup ChainSet(chain)
<1>0. Leaving /\ LifeTypes
    BY DEF LifeInv, PhaseInv
<1>f. Fewer(h) /\ UNCHANGED <<chain, old, entities, failed>>
    BY <1>0, TakenFewer DEF Taken
<1>1. h \in Doomed
    <2>1. Breaks(h)
        BY <1>f DEF Fewer, Breaks
    <2> QED
        BY <1>0, <2>1 DEF Leaving, OnlyBreaks, Breaks
<1>2. h \notin S
    <2>1. ImGuiSet \subseteq RunSet
        BY Parts
    <2>2. AppSet \cap RunSet = {} /\ \A g : AppSet \cap ChainSet(Chain(g)) = {} /\ RunSet \cap ChainSet(Chain(g)) = {}
        BY Apart
    <2> HIDE DEF Handles, ChainSet, AppSet, RunSet, ImGuiSet
    <2> QED
        BY <1>1, <2>1, <2>2 DEF Doomed
<1>3. AppSet \cup ImGuiSet \subseteq Handles /\ (chain # Null => ChainSet(chain) \subseteq Handles)
    BY <1>0, Apart, Parts DEF LifeTypes, Base
<1>d. Doomed' = Doomed
    BY <1>f DEF Doomed
<1> HIDE DEF Handles, ChainSet, Chains, AppSet, ImGuiSet, Doomed
<1>4. OnlyBreaks(Doomed)'
    BY <1>0, <1>d, <1>f DEF Leaving, OnlyBreaks, Fewer
<1>5. AllLive(AppSet)' /\ AllIn(ImGuiSet, {"none", "live"})' /\ (chain' # Null => AllLive(ChainSet(chain))')
    BY <1>0, <1>2, <1>3, <1>f DEF Leaving, AllLive, AllIn, Fewer
<1>6. OthersGo(S)'
    <2> SUFFICES ASSUME NEW k \in Handles, status'[k] = "live", k \notin S
                 PROVE  Breaks(k)' \/ OfFailed(k)'
        BY <1>f DEF OthersGo
    <2>1. status[k] = "live"
        BY <1>f DEF Fewer
    <2>2. Breaks(k) \/ OfFailed(k)
        BY <1>0, <2>1 DEF Leaving, OthersGo
    <2> QED
        BY <1>f, <2>2, TakenOthers
<1> QED
    BY <1>0, <1>f, <1>4, <1>5, <1>6 DEF Leaving

(* Of the two members that own a device's objects, the list of calls before the device. *)
LEMMA TakenLast ==
    ASSUME NEW h, Taken(h), List(todo), status \in [Handles -> {"none", "live", "dead", "recycled"}], DeviceLast
    PROVE  DeviceLast'
<1>f. /\ h \in Handles /\ todo # <<>> /\ failed' = failed
      /\ todo' = Tail(todo)
      /\ status' = [status EXCEPT ![h] = IF @ = "live" THEN "dead" ELSE @]
    BY DEF Taken
<1>1. /\ Len(todo) \in Nat \ {0} /\ todo[1] = <<"destroy", h>>
      /\ Len(todo') = Len(todo) - 1
      /\ \A k \in 1 .. (Len(todo) - 1) : todo'[k] = todo[k + 1]
    BY TailShape DEF Taken
<1> DEFINE X == Handles \ (HeldLonger \cup {WindowHandle, DeviceHandles[1], DeviceHandles[2], Device})
<1>2. X \subseteq Handles
    OBVIOUS
<1>3. DeviceLast <=> \A j \in 1 .. Len(todo) : todo[j] = <<"destroy", Device>> =>
          \A k \in X : status[k] = "live" /\ ~OfFailed(k) => \E i \in 1 .. (j - 1) : todo[i] = <<"destroy", k>>
    BY DEF DeviceLast
<1>4. DeviceLast' <=> \A j \in 1 .. Len(todo') : todo'[j] = <<"destroy", Device>> =>
          \A k \in X : status'[k] = "live" /\ ~OfFailed(k)' => \E i \in 1 .. (j - 1) : todo'[i] = <<"destroy", k>>
    BY DEF DeviceLast
<1> HIDE DEF X, Handles, Device, DeviceLast
<1> SUFFICES ASSUME NEW j \in 1 .. Len(todo'), todo'[j] = <<"destroy", Device>>,
                    NEW k \in X, status'[k] = "live", ~OfFailed(k)'
             PROVE  \E i \in 1 .. (j - 1) : todo'[i] = <<"destroy", k>>
    BY <1>4
<1>5. k # h /\ status[k] = "live" /\ ~OfFailed(k)
    BY <1>2, <1>f DEF OfFailed
<1>6. j + 1 \in 1 .. Len(todo) /\ todo[j + 1] = <<"destroy", Device>>
    BY <1>1
<1>7. PICK i \in 1 .. ((j + 1) - 1) : todo[i] = <<"destroy", k>>
    BY <1>3, <1>5, <1>6
<1>8. i # 1
    BY <1>1, <1>5, <1>7
<1>9. i - 1 \in 1 .. (j - 1) /\ i - 1 \in 1 .. (Len(todo) - 1) /\ (i - 1) + 1 = i
    BY <1>1, <1>7, <1>8
<1>10. todo'[i - 1] = <<"destroy", k>>
    BY <1>1, <1>7, <1>9
<1> QED
    BY <1>9, <1>10

(* In ~Application (application.cpp:20-33). *)
LEMMA TakenDestroy == ASSUME LifeInv, NEW h, Taken(h), pc = "destroy" PROVE Destroying'
<1> DEFINE S == EntitySet \cup {WindowHandle}
           D == (AppSet \ (EntitySet \cup {WindowHandle})) \cup ImGuiSet \cup ChainSet(chain)
<1>0. Destroying /\ LifeTypes
    BY DEF LifeInv, PhaseInv
<1>f. Fewer(h) /\ UNCHANGED <<chain, old, entities, failed>>
    BY <1>0, TakenFewer DEF Taken
<1>1. h \in D /\ h \in Handles
    <2>1. Breaks(h)
        BY <1>f DEF Fewer, Breaks
    <2> QED
        BY <1>0, <1>f, <2>1 DEF Destroying, OnlyBreaks, Breaks, Fewer
<1>2. h \notin S /\ S \subseteq Handles
    <2>1. S \subseteq AppSet /\ AppSet \subseteq Handles /\ ImGuiSet \subseteq RunSet
        BY Parts DEF Base
    <2>2. AppSet \cap RunSet = {} /\ AppSet \cap ChainSet(Chain(0)) = {} /\ AppSet \cap ChainSet(Chain(1)) = {}
        BY Apart
    <2>3. chain \in {Chain(0), Chain(1), Null}
        BY <1>0 DEF LifeTypes, Chains
    <2>4. ChainSet(Null) \cap Handles = {}
        BY Apart
    <2> HIDE DEF Handles, ChainSet, AppSet, RunSet, ImGuiSet, EntitySet
    <2> QED
        BY <1>1, <2>1, <2>2, <2>3, <2>4
<1>3. chain = Null => <<Null, "view", "swapchain">> # h
    BY <1>1, Apart DEF ChainSet
<1>l. DeviceLast'
    BY <1>0, TakenLast DEF LifeTypes, Destroying
<1> HIDE DEF Handles, ChainSet, Chains, AppSet, ImGuiSet, EntitySet
<1>4. OnlyBreaks(D)'
    BY <1>0, <1>f DEF Destroying, OnlyBreaks, Fewer
<1>5. AllLive(S)'
    BY <1>0, <1>2, <1>f DEF Destroying, AllLive, AllIn, Fewer
<1>6. chain' = Null => Breaks(<<Null, "view", "swapchain">>)'
    BY <1>0, <1>3, <1>f DEF Destroying, Fewer, Breaks
<1>7. OthersGo(S)'
    <2> SUFFICES ASSUME NEW k \in Handles, status'[k] = "live", k \notin S
                 PROVE  Breaks(k)' \/ OfFailed(k)'
        BY <1>f DEF OthersGo
    <2>1. status[k] = "live"
        BY <1>f DEF Fewer
    <2>2. Breaks(k) \/ OfFailed(k)
        BY <1>0, <2>1 DEF Destroying, OthersGo
    <2> QED
        BY <1>f, <2>2, TakenOthers
<1> QED
    BY <1>0, <1>f, <1>l, <1>4, <1>5, <1>6, <1>7 DEF Destroying

(* The parts of what Application makes have nothing in common. *)
LEMMA AppParts ==
    /\ WindowHandle \notin DeviceSet \cup EntitySet \cup PoolSet \cup {CommandBuffers}
    /\ DeviceSet \cap (EntitySet \cup PoolSet \cup {CommandBuffers}) = {}
    /\ EntitySet \cap (PoolSet \cup {CommandBuffers}) = {}
    /\ CommandBuffers \notin PoolSet
    /\ \A e \in ToSet(Loaded) : EntityOf(e) \subseteq EntitySet
    /\ \A e, f \in ToSet(Loaded) : e # f => EntityOf(e) \cap EntityOf(f) = {}
<1>1. WindowHandle[1][1] = "application" /\ WindowHandle[2] = "window" /\ CommandBuffers[1][1] = "renderer"
    BY DEF WindowHandle, App, CommandBuffers
<1>2. \A h \in DeviceSet : h[1][1] = "application" /\ h[2] # "window"
    BY DEF DeviceSet, DeviceHandles, Device, App
<1>3. \A h \in PoolSet : h[1][1] \in {"globalPool", "framePool"}
    BY DEF PoolSet, GlobalPool, Pool
<1>4. \A e : \A h \in EntityOf(e) : h[1] = e
    BY DEF EntityOf, BufferSet, ImageSet
<1>5. \A e \in ToSet(Loaded) : e[1] \in {"model", "texture"}
    BY LoadedElements
<1> HIDE DEF DeviceSet, PoolSet, EntityOf, WindowHandle, CommandBuffers
<1>6. \A h \in EntitySet : h[1][1] \in {"model", "texture"}
    BY <1>4, <1>5 DEF EntitySet
<1>7. \A e \in ToSet(Loaded) : EntityOf(e) \subseteq EntitySet
    BY DEF EntitySet
<1>8. \A e, f \in ToSet(Loaded) : e # f => EntityOf(e) \cap EntityOf(f) = {}
    BY <1>4
<1> HIDE DEF EntitySet
<1> QED
    BY <1>1, <1>2, <1>3, <1>6, <1>7, <1>8

(* The handles of Application are not those of a swap chain, ImGui's not of Application. *)
LEMMA AppApart ==
    ASSUME NEW c \in Chains \cup {Null}
    PROVE  /\ AppSet \cap ChainSet(c) = {} /\ ImGuiSet \cap ChainSet(c) = {} /\ RunSet \cap ChainSet(c) = {}
           /\ AppSet \cap ImGuiSet = {}
<1>1. ImGuiSet \subseteq RunSet /\ AppSet \cup RunSet \subseteq Handles
    BY Parts DEF Base
<1>2. c = Chain(0) \/ c = Chain(1) \/ c = Null
    BY DEF Chains
<1> HIDE DEF ChainSet, AppSet, RunSet, ImGuiSet, Handles
<1> QED
    BY <1>1, <1>2, Apart

(* In the destructor of the entity map (application.hpp:71). *)
LEMMA TakenEntities == ASSUME LifeInv, NEW h, Taken(h), pc = "entities" PROVE DestroyingEntities'
<1> DEFINE S == StillOwned \cup {WindowHandle}
           D == DeviceSet \cup (EntitySet \ StillOwned)
<1>0. DestroyingEntities /\ LifeTypes
    BY DEF LifeInv, PhaseInv
<1>f. Fewer(h) /\ UNCHANGED <<chain, old, entities, failed>>
    BY <1>0, TakenFewer DEF Taken
<1>1. h \in D /\ h \in Handles
    <2>1. Breaks(h)
        BY <1>f DEF Fewer, Breaks
    <2> QED
        BY <1>0, <1>f, <2>1 DEF DestroyingEntities, OnlyBreaks, Breaks, Fewer
<1>o. StillOwned \subseteq EntitySet /\ StillOwned' = StillOwned
    BY <1>0, <1>f DEF StillOwned, EntitySet, LifeTypes
<1>2. h \notin S /\ S \subseteq Handles /\ DeviceSet \subseteq Handles
    <2>1. EntitySet \cup DeviceSet \cup {WindowHandle} \subseteq AppSet /\ AppSet \subseteq Handles
        BY Parts DEF Base
    <2> HIDE DEF Handles, AppSet, EntitySet, DeviceSet, StillOwned, WindowHandle
    <2> QED
        BY <1>1, <1>o, <2>1, AppParts
<1> HIDE DEF Handles, ChainSet, Chains, StillOwned, DeviceSet, EntitySet, WindowHandle
<1>4. OnlyBreaks(D)'
    BY <1>0, <1>f, <1>o DEF DestroyingEntities, OnlyBreaks, Fewer
<1>5. AllLive(S)'
    BY <1>0, <1>2, <1>f, <1>o DEF DestroyingEntities, AllLive, AllIn, Fewer
<1>6. AllIn(DeviceSet, {"none", "dead"})'
    BY <1>0, <1>2, <1>f DEF DestroyingEntities, AllIn, Fewer
<1>7. OthersGo(S)'
    <2> SUFFICES ASSUME NEW k \in Handles, status'[k] = "live", k \notin S
                 PROVE  Breaks(k)' \/ OfFailed(k)'
        BY <1>o DEF OthersGo
    <2>1. status[k] = "live"
        BY <1>f DEF Fewer
    <2>2. Breaks(k) \/ OfFailed(k)
        BY <1>0, <2>1 DEF DestroyingEntities, OthersGo
    <2> QED
        BY <1>f, <2>2, TakenOthers
<1> QED
    BY <1>0, <1>f, <1>4, <1>5, <1>6, <1>7 DEF DestroyingEntities

(* In the destructors of the other members (application.hpp:66-70). *)
LEMMA TakenMembers == ASSUME LifeInv, NEW h, Taken(h), pc = "members" PROVE DestroyingMembers'
<1> DEFINE D == {WindowHandle} \cup DeviceSet \cup ChainSet(chain)
<1>0. DestroyingMembers /\ LifeTypes
    BY DEF LifeInv, PhaseInv
<1>f. Fewer(h) /\ UNCHANGED <<chain, old, entities, failed>>
    BY <1>0, TakenFewer DEF Taken
<1>2. DeviceSet \subseteq Handles
    BY Parts DEF Base
<1> HIDE DEF Handles, ChainSet, Chains, DeviceSet, WindowHandle
<1>4. OnlyBreaks(D)'
    BY <1>0, <1>f DEF DestroyingMembers, OnlyBreaks, Fewer
<1>6. AllIn(DeviceSet, {"none", "dead"})'
    BY <1>0, <1>2, <1>f DEF DestroyingMembers, AllIn, Fewer
<1>7. OthersGo({})'
    <2> SUFFICES ASSUME NEW k \in Handles, status'[k] = "live"
                 PROVE  Breaks(k)' \/ OfFailed(k)'
        BY DEF OthersGo
    <2>1. status[k] = "live"
        BY <1>f DEF Fewer
    <2>2. Breaks(k) \/ OfFailed(k)
        BY <1>0, <2>1 DEF DestroyingMembers, OthersGo
    <2> QED
        BY <1>f, <2>2, TakenOthers
<1> QED
    BY <1>0, <1>f, <1>4, <1>6, <1>7 DEF DestroyingMembers

(* After the first of the last calls come the others. *)
LEMMA LastTail ==
    ASSUME NEW s, List(s), s # <<>>, NEW rank, LastOf(s, rank), \A c \in ToSet(s) : rank[c] \in Nat
    PROVE  /\ LastOf(Tail(s), rank) /\ Head(s) \notin ToSet(Tail(s))
           /\ \A d \in ToSet(Tail(s)) : rank[Head(s)] < rank[d]
<1>1. /\ List(Tail(s)) /\ Len(s) \in Nat \ {0} /\ Head(s) = s[1] /\ Len(Tail(s)) = Len(s) - 1
      /\ \A k \in 1 .. (Len(s) - 1) : Tail(s)[k] = s[k + 1]
      /\ ToSet(s) = {Head(s)} \cup ToSet(Tail(s))
    BY TailShape
<1>2. ToSet(Tail(s)) = {Tail(s)[k] : k \in 1 .. (Len(s) - 1)}
    BY <1>1, ListShape
<1>3. \A k \in 1 .. (Len(s) - 1) : k + 1 \in 1 .. Len(s) /\ 1 \in 1 .. Len(s) /\ 1 < k + 1
    BY <1>1
<1>4. ASSUME NEW d \in ToSet(Tail(s)) PROVE rank[Head(s)] < rank[d]
    <2>1. PICK k \in 1 .. (Len(s) - 1) : d = s[k + 1]
        BY <1>1, <1>2
    <2>2. rank[s[1]] < rank[s[k + 1]]
        BY <1>3, <2>1 DEF LastOf, Sorted
    <2> QED
        BY <1>1, <2>1, <2>2
<1>5. Sorted(Tail(s), rank)
    <2> SUFFICES ASSUME NEW j \in 1 .. (Len(s) - 1), NEW k \in 1 .. (Len(s) - 1), j < k
                 PROVE  rank[Tail(s)[j]] < rank[Tail(s)[k]]
        BY <1>1 DEF Sorted
    <2>1. j + 1 \in 1 .. Len(s) /\ k + 1 \in 1 .. Len(s) /\ j + 1 < k + 1
        BY <1>1
    <2>2. rank[s[j + 1]] < rank[s[k + 1]]
        BY <2>1 DEF LastOf, Sorted
    <2> QED
        BY <1>1, <2>2
<1>6. Head(s) \notin ToSet(Tail(s))
    <2>1. rank[Head(s)] \in Nat
        BY <1>1
    <2>2. ~ (rank[Head(s)] < rank[Head(s)])
        BY <2>1
    <2> QED
        BY <1>4, <2>2
<1>7. ASSUME NEW c \in DOMAIN rank, NEW d \in ToSet(Tail(s)), c \notin ToSet(Tail(s)) PROVE rank[c] < rank[d]
    <2>1. CASE c = Head(s)
        BY <1>4, <2>1
    <2>2. CASE c # Head(s)
        BY <1>1, <1>7, <2>2 DEF LastOf
    <2> QED
        BY <2>1, <2>2
<1> QED
    BY <1>4, <1>5, <1>6, <1>7 DEF LastOf

(* createPipeline: first the simple system's, then the texture system's; a pipeline is
   destroyed before it is made, with its shaders (rendersystem.hpp:82-97). *)
LEMMA ToggleRanks ==
    /\ DOMAIN ToggleRank = {"create", "destroy"} \X Rebuilt
    /\ \A w \in {"create", "destroy"}, k \in Rebuilt : ToggleRank[<<w, k>>] \in Nat
    /\ \A k \in Rebuilt : ToggleRank[<<"destroy", k>>] < ToggleRank[<<"create", k>>]
    /\ \A w, x \in {"create", "destroy"}, k, l \in Rebuilt :
          k[1] = System("simple") /\ l[1] = System("texture") => ToggleRank[<<w, k>>] < ToggleRank[<<x, l>>]
    /\ \A name \in {"simple", "texture"} : \A k \in PipeSet(name) :
          /\ ToggleRank[<<"destroy", GraphicsPipeline(name)>>] < ToggleRank[<<"create", k>>]
          /\ k # GraphicsPipeline(name) => ToggleRank[<<"create", k>>] < ToggleRank[<<"create", GraphicsPipeline(name)>>]
<1> DEFINE o(k) == IF k[1] = System("simple") THEN 0 ELSE 6
           w(x) == IF x = "destroy" THEN 0 ELSE 3
           p(k) == IF k[2] = "pipeline" THEN 3 ELSE IF k[3] = "frag" THEN 2 ELSE 1
<1>1. \A x \in {"create", "destroy"}, k \in Rebuilt : ToggleRank[<<x, k>>] = o(k) + w(x) + p(k)
    BY DEF ToggleRank
<1>2. System("simple") # System("texture") /\ \A k \in Rebuilt : k[1] \in {System("simple"), System("texture")}
    BY DEF Rebuilt, PipeSet, GraphicsPipeline, System
<1>3. \A k \in Rebuilt : p(k) \in 1 .. 3
    OBVIOUS
<1>4. DOMAIN ToggleRank = {"create", "destroy"} \X Rebuilt
    BY DEF ToggleRank
<1>5. \A x \in {"create", "destroy"} : w(x) \in {0, 3}
    OBVIOUS
<1>6. \A k \in Rebuilt : o(k) \in {0, 6} /\ (k[1] = System("simple") => o(k) = 0) /\ (k[1] = System("texture") => o(k) = 6)
    BY <1>2
<1>7. w("destroy") = 0 /\ w("create") = 3
    OBVIOUS
<1>8. \A name \in {"simple", "texture"} : \A k \in PipeSet(name) :
          /\ k \in Rebuilt /\ GraphicsPipeline(name) \in Rebuilt /\ o(k) = o(GraphicsPipeline(name))
          /\ p(GraphicsPipeline(name)) = 3 /\ (k # GraphicsPipeline(name) => p(k) < 3)
    BY DEF Rebuilt, PipeSet, GraphicsPipeline, System
<1> HIDE DEF o, w, p, Rebuilt, PipeSet, ToggleRank, GraphicsPipeline, System
<1>9. \A x \in {"create", "destroy"}, k \in Rebuilt : ToggleRank[<<x, k>>] \in Nat
    BY <1>1, <1>3, <1>5, <1>6
<1>10. \A k \in Rebuilt : ToggleRank[<<"destroy", k>>] < ToggleRank[<<"create", k>>]
    <2> TAKE k \in Rebuilt
    <2>1. /\ ToggleRank[<<"destroy", k>>] = o(k) + 0 + p(k)
          /\ ToggleRank[<<"create", k>>] = o(k) + 3 + p(k)
        BY <1>1, <1>7
    <2>2. o(k) \in {0, 6} /\ p(k) \in 1 .. 3
        BY <1>3, <1>6
    <2> QED
        BY <2>1, <2>2
<1>11. \A x, y \in {"create", "destroy"}, k, l \in Rebuilt :
          k[1] = System("simple") /\ l[1] = System("texture") => ToggleRank[<<x, k>>] < ToggleRank[<<y, l>>]
    BY <1>1, <1>3, <1>5, <1>6
<1>12. \A name \in {"simple", "texture"} : \A k \in PipeSet(name) :
          /\ ToggleRank[<<"destroy", GraphicsPipeline(name)>>] < ToggleRank[<<"create", k>>]
          /\ k # GraphicsPipeline(name) => ToggleRank[<<"create", k>>] < ToggleRank[<<"create", GraphicsPipeline(name)>>]
    <2> TAKE name \in {"simple", "texture"}
    <2> TAKE k \in PipeSet(name)
    <2>1. /\ ToggleRank[<<"destroy", GraphicsPipeline(name)>>] = o(k) + 0 + 3
          /\ ToggleRank[<<"create", GraphicsPipeline(name)>>] = o(k) + 3 + 3
          /\ ToggleRank[<<"create", k>>] = o(k) + 3 + p(k)
        BY <1>1, <1>7, <1>8
    <2>2. o(k) \in {0, 6} /\ p(k) \in 1 .. 3 /\ (k # GraphicsPipeline(name) => p(k) < 3)
        BY <1>3, <1>6, <1>8
    <2> QED
        BY <2>1, <2>2
<1> QED
    BY <1>4, <1>9, <1>10, <1>11, <1>12

(* The next call of a toggle, and what follows it. *)
LEMMA ToggleNext ==
    ASSUME LifeTypes, Toggling, todo # <<>>, todo' = Tail(todo)
    PROVE  /\ LastOf(todo, ToggleRank)'
           /\ Head(todo) \notin ToSet(todo') /\ ToSet(todo) = {Head(todo)} \cup ToSet(todo')
           /\ Head(todo) \in {"create", "destroy"} \X Rebuilt
           /\ \A c \in {"create", "destroy"} \X Rebuilt :
                 ToggleRank[Head(todo)] < ToggleRank[c] => c \in ToSet(todo)
           /\ \A c \in ToSet(todo') : ToggleRank[Head(todo)] < ToggleRank[c]
<1>1. List(todo) /\ ToSet(todo) \subseteq {"create", "destroy"} \X Rebuilt /\ LastOf(todo, ToggleRank)
    BY DEF LifeTypes, Toggling
<1>2. ToSet(todo) = {Head(todo)} \cup ToSet(Tail(todo))
    BY <1>1, TailShape
<1>3. \A c \in {"create", "destroy"} \X Rebuilt : ToggleRank[c] \in Nat
    <2> TAKE c \in {"create", "destroy"} \X Rebuilt
    <2>1. c = <<c[1], c[2]>> /\ c[1] \in {"create", "destroy"} /\ c[2] \in Rebuilt
        OBVIOUS
    <2> QED
        BY <2>1, ToggleRanks
<1>4. /\ LastOf(Tail(todo), ToggleRank) /\ Head(todo) \notin ToSet(Tail(todo))
      /\ \A d \in ToSet(Tail(todo)) : ToggleRank[Head(todo)] < ToggleRank[d]
    BY <1>1, <1>3, LastTail
<1>5. LastOf(todo, ToggleRank)'
    <2>1. ToggleRank' = ToggleRank
        BY DEF ToggleRank
    <2> QED
        BY <1>4, <2>1 DEF LastOf, Sorted
<1>6. ASSUME NEW c \in {"create", "destroy"} \X Rebuilt, ToggleRank[Head(todo)] < ToggleRank[c], c \notin ToSet(todo)
      PROVE  FALSE
    <2>1. ToggleRank[c] < ToggleRank[Head(todo)]
        BY <1>1, <1>2, <1>6, ToggleRanks DEF LastOf
    <2>2. ToggleRank[c] \in Nat /\ ToggleRank[Head(todo)] \in Nat
        BY <1>1, <1>2, <1>3
    <2> QED
        BY <1>6, <2>1, <2>2
<1> QED
    BY <1>1, <1>2, <1>4, <1>5, <1>6

(* A pipeline that is destroyed has its reconstruction ahead. *)
LEMMA TakenToggle == ASSUME LifeInv, NEW h, Taken(h), pc = "toggle" PROVE Toggling'
<1> DEFINE S == (Base \cup ChainSet(chain)) \ Rebuilt
           O == ChainSet(Other(chain))
<1>0. Toggling /\ LifeTypes
    BY DEF LifeInv, PhaseInv
<1>f. Fewer(h) /\ UNCHANGED <<chain, old, entities, failed>>
    BY <1>0, TakenFewer DEF Taken
<1>t. todo # <<>> /\ todo' = Tail(todo) /\ Head(todo) = <<"destroy", h>>
    BY DEF Taken
<1>1. /\ LastOf(todo, ToggleRank)' /\ <<"destroy", h>> \notin ToSet(todo')
      /\ h \in Rebuilt
      /\ \A c \in {"create", "destroy"} \X Rebuilt :
            ToggleRank[<<"destroy", h>>] < ToggleRank[c] => c \in ToSet(todo)
    <2> HIDE DEF LifeTypes, Toggling, Rebuilt, LastOf
    <2> QED
        BY <1>0, <1>t, ToggleNext
<1>2. <<"create", h>> \in ToSet(todo')
    <2>1. <<"create", h>> \in ToSet(todo)
        <3> HIDE DEF Rebuilt
        <3> QED
            BY <1>1, ToggleRanks
    <2> QED
        BY <1>f, <2>1 DEF Fewer
<1>3. S \subseteq Handles /\ h \notin S /\ O \subseteq Handles /\ h \notin O /\ Rebuilt \subseteq Handles
    <2>1. h \in Base /\ Rebuilt \subseteq Base
        BY <1>1, Parts DEF Base
    <2>2. chain \in Chains /\ Other(chain) \in Chains
        BY <1>0, ChainsDistinct DEF Toggling
    <2>3. /\ Base \subseteq Handles /\ ChainSet(chain) \subseteq Handles /\ O \subseteq Handles
          /\ Base \cap O = {}
        <3> HIDE DEF Base, Handles, ChainSet, Chains
        <3> QED
            BY <2>2, Apart, Parts
    <2> HIDE DEF Handles, Base, ChainSet, Rebuilt
    <2> QED
        BY <1>1, <2>1, <2>3
<1>4. (S = (Base \cup ChainSet(chain)) \ Rebuilt)' /\ S' = S /\ O' = O
    BY <1>f
<1> HIDE DEF Handles, Base, ChainSet, Rebuilt, Chains
<1>5. AllLive(S)' /\ AllIn(O, {"none", "dead"})'
    <2> HIDE DEF S, O
    <2>1. AllLive(S) /\ AllIn(O, {"none", "dead"})
        BY <1>0 DEF Toggling, S, O
    <2> QED
        BY <1>3, <1>4, <1>f, <2>1 DEF AllLive, AllIn, Fewer
<1>6. ToSet(todo') \subseteq {"create", "destroy"} \X Rebuilt
    BY <1>0, <1>f DEF Toggling, Fewer
<1>7. ASSUME NEW k \in Rebuilt
      PROVE  /\ Breaks(k)' \/ ~Makes(k)' => status'[k] = "live"
             /\ Makes(k)' /\ ~Breaks(k)' => status'[k] \in {"dead", "recycled"}
    <2>1. CASE k = h
        <3>1. ~Breaks(h)' /\ Makes(h)'
            BY <1>1, <1>2 DEF Breaks, Makes
        <3>2. status[h] = "live"
            BY <1>0, <1>1, <1>f DEF Toggling, Breaks, Fewer
        <3> QED
            BY <1>f, <2>1, <3>1, <3>2 DEF Fewer
    <2>2. CASE k # h
        <3>1. (Breaks(k)' <=> Breaks(k)) /\ (Makes(k)' <=> Makes(k))
            BY <1>f, <2>2 DEF Fewer, Breaks, Makes
        <3>2. status'[k] = status[k]
            BY <1>3, <1>f, <2>2 DEF Fewer
        <3> QED
            BY <1>0, <3>1, <3>2 DEF Toggling
    <2> QED
        BY <2>1, <2>2
<1> QED
    BY <1>0, <1>1, <1>4, <1>5, <1>6, <1>7, <1>f DEF Toggling

(* When the device is destroyed, only in ~Application for the first time, nothing is
   left of it (application.cpp:20-33).                                     *)
LEMMA TakenRelease == ASSUME LifeInv, NEW h, Taken(h) PROVE ReleasedBeforeDevice'
<1>0. LifeTypes /\ PhaseInv /\ ReleasedBeforeDevice
    BY DEF LifeInv
<1>f. Fewer(h) /\ UNCHANGED <<pc, chain, old, entities, failed>>
    BY <1>0, TakenFewer DEF Taken
<1> DEFINE X == Handles \ (HeldLonger \cup {WindowHandle, DeviceHandles[1], DeviceHandles[2], Device})
<1>d. Device \notin HeldLonger /\ Device \in Handles
    <2>1. Device \in DeviceSet /\ Device \in Handles
        BY Parts DEF Base
    <2>2. DeviceSet \cap EntitySet = {} /\ Device # ImGuiBackend
        BY AppParts DEF Device, App, ImGuiBackend
    <2> QED
        BY <2>1, <2>2, HeldLongerIs
<1>1. ReleasedBeforeDevice <=>
          (status[Device] \in {"dead", "recycled"} => \A k \in X : status[k] = "live" => OfFailed(k))
    <2> HIDE DEF Handles, HeldLonger, Device, WindowHandle, DeviceHandles
    <2> QED
        BY <1>d DEF ReleasedBeforeDevice, Live, OfFailed
<1>2. X \subseteq Handles /\ Device \in Handles /\ Device \notin X
    BY Parts DEF Base
<1> SUFFICES ASSUME status'[Device] \in {"dead", "recycled"}, NEW k \in X, status'[k] = "live"
             PROVE  OfFailed(k)
    <2>1. ReleasedBeforeDevice' <=>
              (status'[Device] \in {"dead", "recycled"} => \A k \in X : status'[k] = "live" => OfFailed(k)')
        <3> HIDE DEF Handles, HeldLonger, Device, WindowHandle, DeviceHandles
        <3> QED
            BY <1>d DEF ReleasedBeforeDevice, Live, OfFailed
    <2> HIDE DEF X, Device
    <2> QED
        BY <1>f, <2>1 DEF OfFailed
<1> HIDE DEF X, Handles, Device
<1>3. k # h /\ status[k] = "live"
    BY <1>2, <1>f DEF Fewer
<1>4. CASE status[Device] \in {"dead", "recycled"}
    BY <1>0, <1>1, <1>3, <1>4
<1>5. CASE status[Device] \notin {"dead", "recycled"}
    <2>1. h = Device /\ status[Device] = "live"
        BY <1>2, <1>5, <1>f DEF Fewer
    <2>2. Breaks(Device) /\ todo # <<>>
        BY <1>f, <2>1 DEF Fewer, Breaks, Taken
    <2>3. Device \in DeviceSet /\ Device \in AppSet
        BY Parts
    <2>4. pc = "destroy"
        <3>1. pc \notin {"construct", "enter", "recreate"}
            BY <1>0, <2>2 DEF PhaseInv, Constructing, Entering, Recreating, OnlyMakes, Breaks
        <3>2. pc \notin {"entities", "members"}
            BY <1>0, <2>1, <2>3 DEF PhaseInv, DestroyingEntities, DestroyingMembers, AllIn
        <3>3. pc # "loop"
            <4> SUFFICES ASSUME Looping PROVE FALSE
                BY <1>0 DEF PhaseInv
            <4>1. Device \in ChainSet(Other(chain)) /\ Other(chain) \in Chains
                BY <2>2, ChainsDistinct DEF Looping, OnlyBreaks, Breaks
            <4> HIDE DEF ChainSet, AppSet, Chains
            <4> QED
                BY <2>3, <4>1, AppApart
        <3>4. pc # "toggle"
            <4> SUFFICES ASSUME Toggling PROVE FALSE
                BY <1>0 DEF PhaseInv
            <4>1. Device \in Rebuilt
                BY <2>2 DEF Toggling, Breaks
            <4> HIDE DEF Rebuilt, AppSet, RunSet
            <4> QED
                BY <2>3, <4>1, Parts, Apart
        <3>5. pc # "leave"
            <4> SUFFICES ASSUME Leaving PROVE FALSE
                BY <1>0 DEF PhaseInv
            <4>1. Device \in Doomed
                BY <2>2 DEF Leaving, OnlyBreaks, Breaks
            <4> HIDE DEF ChainSet, AppSet, RunSet
            <4> QED
                BY <2>3, <4>1, Apart DEF Doomed
        <3>6. pc \notin Ends
            BY <1>0, <2>2 DEF LifeTypes
        <3> QED
            BY <1>0, <3>1, <3>2, <3>3, <3>4, <3>5, <3>6 DEF LifeTypes, Phases
    <2>5. DeviceLast
        BY <1>0, <2>4 DEF PhaseInv, Destroying
    <2>6. Len(todo) \in Nat \ {0} /\ todo[1] = <<"destroy", Device>>
        BY <1>0, <2>1, <2>2, TailShape DEF Taken, LifeTypes
    <2>7. 1 \in 1 .. Len(todo) /\ 1 .. (1 - 1) = {}
        BY <2>6
    <2> QED
        BY <1>3, <2>5, <2>6, <2>7 DEF DeviceLast, X
<1> QED
    BY <1>4, <1>5

(* Every call that destroys keeps the invariant (main.cpp:8-16). *)
LEMMA DestroyStep == LifeInv /\ DestroyNext => LifeInv'
<1> SUFFICES ASSUME LifeInv, DestroyNext PROVE LifeInv'
    OBVIOUS
<1>1. Lost \/ \E h : Taken(h)
    BY TakenOrLost DEF LifeInv
<1>2. CASE \E h : Taken(h)
    <2>1. PICK h : Taken(h)
        BY <1>2
    <2>2. pc' = pc /\ todo # <<>> /\ LifeTypes /\ PhaseInv /\ Head(todo) = <<"destroy", h>>
        BY <2>1 DEF Taken, LifeInv
    <2>3. Head(todo) \in ToSet(todo)
        BY <2>2, TailShape DEF LifeTypes
    <2>4. pc \notin {"construct", "enter", "recreate"} /\ pc \notin Ends
        BY <2>2, <2>3 DEF PhaseInv, Constructing, Entering, Recreating, OnlyMakes, LifeTypes
    <2>5. Kept' /\ ReleasedBeforeDevice'
        BY <2>1, TakenKeeps, TakenRelease
    <2>6. /\ pc = "loop" => Looping'
          /\ pc = "toggle" => Toggling'
          /\ pc = "leave" => Leaving'
          /\ pc = "destroy" => Destroying'
          /\ pc = "entities" => DestroyingEntities'
          /\ pc = "members" => DestroyingMembers'
        BY <2>1, TakenLoop, TakenToggle, TakenLeave, TakenDestroy, TakenEntities, TakenMembers
    <2>7. PhaseInv'
        BY <2>2, <2>4, <2>6 DEF PhaseInv, Ends
    <2> QED
        BY <2>5, <2>7 DEF LifeInv, Kept
<1> QED
    BY <1>1, <1>2, LostKeeps

-----------------------------------------------------------------------------
(* A call that creates                                                     *)

(* Every object of run has its place, and only objects of one owner share it. *)
LEMMA RunPlace ==
    /\ \A h \in RunSet : /\ Place(h[1]) \in Nat /\ Part(h) \in 0 .. 6
                         /\ RunRank[h] = 8 * Place(h[1]) + Part(h) /\ RunRank[h] \in Nat
    /\ \A h, k \in RunSet : Place(h[1]) = Place(k[1]) => h[1] = k[1]
<1> DEFINE Owners == {SetLayout[1], System("simple"), System("billboard"), System("texture"),
                      ImGuiPool[1], ImGuiBackend[1]}
           n == FrameCount
<1>0. n \in Nat
    BY LifetimesAssumption
<1>1. \A h \in RunSet : (\E k \in 1 .. n : h[1] = Ubo(k)) \/ h[1] \in Owners
    <2>1. \A h \in UboSet : \E k \in 1 .. n : h[1] = Ubo(k)
        BY DEF UboSet, BufferSet, Ubo
    <2>2. \A name : \A h \in SystemSet(name) : h[1] = System(name)
        BY DEF SystemSet, PipeSet, Layout, GraphicsPipeline
    <2>3. OwnSetLayout[1] = System("texture")
        BY DEF OwnSetLayout
    <2>4. \A h \in ImGuiSet : h[1] \in {ImGuiPool[1], ImGuiBackend[1]}
        BY DEF ImGuiSet
    <2> HIDE DEF UboSet, SystemSet, ImGuiSet, OwnSetLayout, SetLayout, ImGuiPool, ImGuiBackend, System, Ubo
    <2> QED
        BY <2>1, <2>2, <2>3, <2>4 DEF RunSet
<1>2. \A k \in 1 .. n : Place(Ubo(k)) = k
    BY DEF Place, Ubo, SetLayout, System, ImGuiPool, ImGuiBackend
<1>3. \A h \in RunSet : Part(h) \in 0 .. 6
    <2>1. \A h \in RunSet : \/ h[2] \in {"buffer", "memory", "pipelineLayout", "pipeline",
                                        "setLayout", "descriptorPool", "imgui"}
                            \/ h[2] = "shaderModule" /\ h[3] \in {"vert", "frag"}
        <3>1. \A h \in UboSet : h[2] \in {"buffer", "memory"}
            BY DEF UboSet, BufferSet
        <3>2. \A name : \A h \in SystemSet(name) :
                  h[2] \in {"pipelineLayout", "pipeline"} \/ (h[2] = "shaderModule" /\ h[3] \in {"vert", "frag"})
            BY DEF SystemSet, PipeSet, Layout, GraphicsPipeline
        <3>3. \A h \in {SetLayout, OwnSetLayout} \cup ImGuiSet : h[2] \in {"setLayout", "descriptorPool", "imgui"}
            BY DEF SetLayout, OwnSetLayout, ImGuiSet, ImGuiPool, ImGuiBackend
        <3> HIDE DEF UboSet, SystemSet, ImGuiSet, OwnSetLayout, SetLayout
        <3> QED
            BY <3>1, <3>2, <3>3 DEF RunSet
    <2> QED
        BY <2>1 DEF Part
<1> HIDE DEF Place, Part, RunSet, SetLayout, System, ImGuiPool, ImGuiBackend, Ubo
<1>4. \A h \in RunSet : Place(h[1]) \in Nat
    BY <1>0, <1>1, <1>2, Places
<1>5. \A h \in RunSet : RunRank[h] = 8 * Place(h[1]) + Part(h)
    BY DEF RunRank
<1>6. \A h \in RunSet : RunRank[h] \in Nat
    BY <1>3, <1>4, <1>5
<1>7. \A h, k \in RunSet : Place(h[1]) = Place(k[1]) => h[1] = k[1]
    BY <1>0, <1>1, <1>2, Places
<1> QED
    BY <1>3, <1>4, <1>5, <1>6, <1>7

(* The call is made and the object is there; it may have the value of one that was. *)
Made(h) ==
    /\ h \in Handles /\ List(todo') /\ ToSet(todo') \subseteq ToSet(todo)
    /\ todo # <<>> /\ Head(todo) = <<"create", h>> /\ todo' = Tail(todo)
    /\ ToSet(todo) = {<<"create", h>>} \cup ToSet(todo')
    /\ status' \in [Handles -> {"none", "live", "dead", "recycled"}]
    /\ status'[h] = "live"
    /\ \A k \in Handles : k # h =>
          status'[k] = IF k[2] = h[2] /\ status[k] = "dead" THEN "recycled" ELSE status[k]
    /\ UNCHANGED <<pc, chain, old, entities, failed, twice, stray>>

Creating == {"construct", "enter", "toggle", "recreate"}

(* Objects are made in certain phases only; when a swap chain is made, the one it refers
   to is alive (swapchain.cpp:147).                                        *)
LEMMA CreateMakes ==
    ASSUME LifeInv, CreateNext
    PROVE  pc \in Creating /\ \E h : Made(h)
<1> DEFINE c == Head(todo)
           h == c[2]
           read == IF h = SwapchainKHR(h[1]) /\ old # Null THEN {SwapchainKHR(old)} ELSE {}
<1>0. LifeTypes /\ PhaseInv
    BY DEF LifeInv
<1>1. /\ todo # <<>> /\ c[1] = "create" /\ c \in Calls /\ c \in ToSet(todo)
      /\ List(todo') /\ ToSet(todo) = {c} \cup ToSet(todo') /\ todo' = Tail(todo)
    BY <1>0, TailShape DEF LifeTypes, CreateNext
<1>2. h \in Handles \cup ChainSet(Null) /\ c = <<"create", h>>
    BY <1>1 DEF Calls
<1>3. pc \in Creating
    <2>1. pc \notin {"loop", "leave", "destroy", "entities", "members"} /\ pc \notin Ends
        BY <1>0, <1>1 DEF PhaseInv, Looping, Leaving, Destroying, DestroyingEntities, DestroyingMembers,
                          OnlyBreaks, LifeTypes
    <2> QED
        BY <1>0, <2>1 DEF LifeTypes, Phases, Creating
<1>4. h \in Handles
    <2>1. pc = "construct" => h \in AppSet \cup ChainSet(Chain(0))
        BY <1>0, <1>1, <1>2 DEF PhaseInv, Constructing, OnlyMakes
    <2>2. pc = "enter" => h \in RunSet
        BY <1>0, <1>1, <1>2 DEF PhaseInv, Entering, OnlyMakes
    <2>3. pc = "toggle" => h \in Rebuilt
        BY <1>0, <1>1, <1>2 DEF PhaseInv, Toggling
    <2>4. pc = "recreate" => h \in ChainSet(Other(old)) /\ Other(old) \in Chains
        BY <1>0, <1>1, <1>2, ChainsDistinct DEF PhaseInv, Recreating, OnlyMakes
    <2> HIDE DEF Handles, ChainSet, Rebuilt, RunSet, AppSet, Chains
    <2> QED
        BY <1>3, <2>1, <2>2, <2>3, <2>4, Parts, Apart, HandlesAre DEF Creating, Base
<1>5. \A k \in read : Live(k)
    <2>1. CASE pc = "recreate"
        <3>1. old \in Chains /\ AllLive(ChainSet(old))
            BY <1>0, <2>1 DEF PhaseInv, Recreating, AllLive, AllIn
        <3>2. SwapchainKHR(old) \in ChainSet(old) /\ ChainSet(old) \subseteq Handles
            BY <3>1, Apart DEF ChainSet
        <3> QED
            BY <3>1, <3>2 DEF AllLive, AllIn, Live
    <2>2. CASE pc # "recreate"
        BY <1>0, <1>3, <2>2 DEF PhaseInv, Constructing, Entering, Toggling, Creating
    <2> QED
        BY <2>1, <2>2
<1>6. stray' = stray
    <2>1. stray' = stray \cup {k \in read : ~Live(k)}
        BY DEF CreateNext
    <2> HIDE DEF read
    <2> QED
        BY <1>5, <2>1
<1>7. status' = [k \in Handles |->
                  IF k = h THEN "live"
                  ELSE IF k[2] = h[2] /\ status[k] = "dead" THEN "recycled"
                  ELSE status[k]]
    BY DEF CreateNext
<1>8. UNCHANGED <<pc, chain, old, entities, failed, twice>>
    BY DEF CreateNext
<1>9. status \in [Handles -> {"none", "live", "dead", "recycled"}]
    BY <1>0 DEF LifeTypes
<1> HIDE DEF Handles, c, h, read
<1>10. Made(h)
    BY <1>1, <1>2, <1>4, <1>6, <1>7, <1>8, <1>9 DEF Made, c
<1> QED
    BY <1>3, <1>10

(* What a creation keeps, if it gives nothing away that is not rebuilt and all that is
   to be destroyed is alive.                                               *)
LEMMA MadeKeeps ==
    ASSUME LifeInv, NEW h, Made(h), status[Device] \in {"none", "live"},
           \A k \in Handles : status[k] = "dead" /\ k[2] = h[2] => k \in Rebuilt,
           \A k \in Handles : Breaks(k)' => k # h /\ status[k] = "live"
    PROVE  Kept' /\ ReleasedBeforeDevice'
<1> USE DEF LifeInv
<1>1. LifeTypes'
    BY DEF LifeTypes, Made
<1>2. RecycledOK'
    BY DEF RecycledOK, Made
<1>3. FailedOK' /\ ChainOK' /\ NoStrayCalls' /\ DestroyedOnce'
    BY DEF FailedOK, ChainOK, NoStrayCalls, DestroyedOnce, Made
<1>4. CallsOK'
    <2>1. \A k \in Handles : Breaks(k)' => status'[k] = "live"
        BY DEF Made
    <2>2. Once(Tail(todo))
        BY OnceTail DEF Made, LifeTypes, CallsOK
    <2>3. Once(todo)'
        BY <2>2 DEF Made, Once, Single
    <2> QED
        BY <2>1, <2>3 DEF CallsOK
<1>5. ReleasedBeforeDevice'
    <2>1. Device \in Handles
        BY Parts DEF Base
    <2>2. status'[Device] \notin {"dead", "recycled"}
        BY <2>1 DEF Made
    <2> QED
        BY <2>2 DEF ReleasedBeforeDevice
<1> QED
    BY <1>1, <1>2, <1>3, <1>4, <1>5 DEF Kept

(* The constructor of Application makes one object after the other
   (application.cpp:4-19, 270-311).                                       *)
LEMMA MakeConstruct ==
    ASSUME LifeInv, NEW h, Made(h), pc = "construct"
    PROVE  Constructing' /\ Kept' /\ ReleasedBeforeDevice'
<1> DEFINE A == AppSet \cup ChainSet(Chain(0))
           B == RunSet \cup ChainSet(Chain(1))
<1>0. Constructing
    BY DEF LifeInv, PhaseInv
<1>1. A \subseteq Handles /\ B \subseteq Handles /\ A \cap B = {} /\ Handles = A \cup B /\ Device \in A
    <2>1. Chain(1) = Other(Chain(0)) /\ Chain(0) \in Chains
        BY DEF Other, Chains
    <2>2. Handles = AppSet \cup RunSet \cup ChainSet(Chain(0)) \cup ChainSet(Chain(1))
        BY HandlesAre DEF Base
    <2> HIDE DEF Handles, AppSet, RunSet, ChainSet, Chains
    <2> QED
        BY <2>1, <2>2, Apart, Parts
<1>2. h \in A
    BY <1>0 DEF Constructing, OnlyMakes, Made
<1>3. AllIn(A, {"none", "live"}) /\ AllIn(B, {"none"}) /\ OnlyMakes(A) /\ \A k \in A : ~Makes(k) => status[k] = "live"
    BY <1>0 DEF Constructing
<1> HIDE DEF A, B, Handles
<1>4. AllIn(A, {"none", "live"})' /\ AllIn(B, {"none"})'
    BY <1>1, <1>2, <1>3 DEF AllIn, Made
<1>5. OnlyMakes(A)'
    BY <1>3 DEF OnlyMakes, Made
<1>6. ASSUME NEW k \in A, ~Makes(k)' PROVE status'[k] = "live"
    <2>1. CASE k = h
        BY <2>1 DEF Made
    <2>2. CASE k # h
        <3>1. ~Makes(k)
            BY <1>6, <2>2 DEF Makes, Made
        <3> QED
            BY <1>1, <1>3, <2>2, <3>1 DEF Made
    <2> QED
        BY <2>1, <2>2
<1>7. Constructing'
    BY <1>0, <1>4, <1>5, <1>6 DEF Constructing, Made, A, B
<1>8. \A k \in Handles : status[k] # "dead" /\ ~Breaks(k)'
    BY <1>1, <1>3 DEF AllIn, OnlyMakes, Breaks, Made
<1>9. status[Device] \in {"none", "live"}
    BY <1>1, <1>3 DEF AllIn
<1> QED
    BY <1>7, <1>8, <1>9, MadeKeeps

(* run makes its locals in order (application.cpp:35-79). *)
LEMMA MakeEnter ==
    ASSUME LifeInv, NEW h, Made(h), pc = "enter"
    PROVE  Entering' /\ Kept' /\ ReleasedBeforeDevice'
<1> DEFINE A == AppSet \cup ChainSet(Chain(0))
           C == ChainSet(Chain(1))
<1>0. Entering /\ LifeTypes
    BY DEF LifeInv, PhaseInv
<1>1. /\ A \subseteq Handles /\ C \subseteq Handles /\ RunSet \subseteq Handles
      /\ A \cap RunSet = {} /\ C \cap RunSet = {}
      /\ Handles = A \cup C \cup RunSet /\ Device \in A
    <2>1. Handles = AppSet \cup RunSet \cup ChainSet(Chain(0)) \cup ChainSet(Chain(1))
        BY HandlesAre DEF Base
    <2> HIDE DEF Handles, AppSet, RunSet, ChainSet
    <2> QED
        BY <2>1, Apart, Parts
<1>2. h \in RunSet
    BY <1>0 DEF Entering, OnlyMakes, Made
<1>3. /\ AllLive(A) /\ AllIn(C, {"none"}) /\ OnlyMakes(RunSet) /\ LastOf(todo, CreateRank)
      /\ \A k \in RunSet : status[k] = IF Makes(k) THEN "none" ELSE "live"
    BY <1>0 DEF Entering
<1>4. ASSUME NEW c \in ToSet(todo) PROVE CreateRank[c] \in Nat
    <2>1. PICK k \in RunSet : c = <<"create", k>>
        BY <1>3 DEF OnlyMakes
    <2>2. CreateRank[c] = RunRank[k]
        <3> HIDE DEF RunSet, RunRank
        <3> QED
            BY <2>1 DEF CreateRank
    <2> QED
        BY <2>2, RunPlace
<1>5. LastOf(Tail(todo), CreateRank) /\ Head(todo) \notin ToSet(Tail(todo))
    BY <1>0, <1>3, <1>4, LastTail DEF Made, LifeTypes
<1>6. LastOf(todo, CreateRank)' /\ <<"create", h>> \notin ToSet(todo')
    <2>1. CreateRank' = CreateRank
        BY DEF CreateRank, RunRank
    <2> QED
        BY <1>5, <2>1 DEF LastOf, Sorted, Made
<1> HIDE DEF A, C, RunSet, Handles
<1>7. AllLive(A)' /\ AllIn(C, {"none"})'
    BY <1>1, <1>2, <1>3 DEF AllLive, AllIn, Made
<1>8. OnlyMakes(RunSet)'
    BY <1>3 DEF OnlyMakes, Made
<1>9. ASSUME NEW k \in RunSet PROVE status'[k] = IF Makes(k)' THEN "none" ELSE "live"
    <2>1. CASE k = h
        BY <1>6, <2>1 DEF Made, Makes
    <2>2. CASE k # h
        <3>1. Makes(k)' <=> Makes(k)
            BY <2>2 DEF Makes, Made
        <3>2. status[k] \in {"none", "live"} /\ k \in Handles
            BY <1>1, <1>3
        <3> QED
            BY <1>3, <2>2, <3>1, <3>2 DEF Made
    <2> QED
        BY <2>1, <2>2
<1>10. Entering'
    BY <1>0, <1>6, <1>7, <1>8, <1>9 DEF Entering, Made, A, C
<1>11. \A k \in Handles : status[k] # "dead"
    BY <1>1, <1>3 DEF AllLive, AllIn
<1>12. \A k \in Handles : ~Breaks(k)'
    BY <1>3 DEF OnlyMakes, Breaks, Made
<1>13. status[Device] \in {"none", "live"}
    BY <1>1, <1>3 DEF AllLive, AllIn
<1> QED
    BY <1>10, <1>11, <1>12, <1>13, MadeKeeps

(* A new swap chain is made while the old one is alive (swapchain.cpp:42-50). *)
LEMMA MakeRecreate ==
    ASSUME LifeInv, NEW h, Made(h), pc = "recreate"
    PROVE  Recreating' /\ Kept' /\ ReleasedBeforeDevice'
<1> DEFINE A == Base \cup ChainSet(old)
           O == ChainSet(Other(old))
<1>0. Recreating /\ LifeTypes
    BY DEF LifeInv, PhaseInv
<1>1. /\ A \subseteq Handles /\ O \subseteq Handles /\ A \cap O = {} /\ Handles = A \cup O /\ Device \in A
    <2>1. old \in Chains /\ Other(old) \in Chains
        BY <1>0, ChainsDistinct DEF Recreating
    <2>2. Device \in Base
        BY Parts DEF Base
    <2> HIDE DEF Handles, Base, ChainSet, Chains
    <2> QED
        BY <2>1, <2>2, Apart
<1>2. h \in O
    BY <1>0 DEF Recreating, OnlyMakes, Made
<1>3. AllLive(A) /\ AllIn(O, {"none", "live"}) /\ OnlyMakes(O) /\ \A k \in O : ~Makes(k) => status[k] = "live"
    BY <1>0 DEF Recreating
<1>4. old' = old
    BY DEF Made
<1> HIDE DEF A, O, Handles
<1>5. AllLive(A)' /\ AllIn(O, {"none", "live"})'
    <2>1. A' = A /\ O' = O
        BY <1>4 DEF A, O
    <2> QED
        BY <1>1, <1>2, <1>3, <2>1 DEF AllLive, AllIn, Made
<1>6. OnlyMakes(O)'
    <2>1. O' = O
        BY <1>4 DEF O
    <2> QED
        BY <1>3, <2>1 DEF OnlyMakes, Made
<1>7. ASSUME NEW k \in O, ~Makes(k)' PROVE status'[k] = "live"
    <2>1. CASE k = h
        BY <2>1 DEF Made
    <2>2. CASE k # h
        <3>1. ~Makes(k)
            BY <1>7, <2>2 DEF Makes, Made
        <3> QED
            BY <1>1, <1>3, <2>2, <3>1 DEF Made
    <2> QED
        BY <2>1, <2>2
<1>8. Recreating'
    BY <1>0, <1>4, <1>5, <1>6, <1>7 DEF Recreating, Made, A, O
<1>9. \A k \in Handles : status[k] # "dead"
    BY <1>1, <1>3 DEF AllLive, AllIn
<1>10. \A k \in Handles : ~Breaks(k)'
    BY <1>3 DEF OnlyMakes, Breaks, Made
<1>11. status[Device] \in {"none", "live"}
    BY <1>1, <1>3 DEF AllLive, AllIn
<1> QED
    BY <1>8, <1>9, <1>10, <1>11, MadeKeeps

(* The only objects that can be given away are pipelines and shaders. *)
LEMMA MakeToggle ==
    ASSUME LifeInv, NEW h, Made(h), pc = "toggle"
    PROVE  Toggling' /\ Kept' /\ ReleasedBeforeDevice'
<1> DEFINE S == (Base \cup ChainSet(chain)) \ Rebuilt
           O == ChainSet(Other(chain))
<1>0. Toggling /\ LifeTypes
    BY DEF LifeInv, PhaseInv
<1>t. todo # <<>> /\ todo' = Tail(todo) /\ Head(todo) = <<"create", h>>
    BY DEF Made
<1>1. /\ LastOf(todo, ToggleRank)' /\ <<"create", h>> \notin ToSet(todo')
      /\ h \in Rebuilt
      /\ \A c \in ToSet(todo') : ToggleRank[<<"create", h>>] < ToggleRank[c]
    <2> HIDE DEF LifeTypes, Toggling, Rebuilt, LastOf
    <2> QED
        BY <1>0, <1>t, ToggleNext
<1>2. <<"destroy", h>> \notin ToSet(todo') /\ <<"destroy", h>> \notin ToSet(todo)
    <2>1. ToggleRank[<<"destroy", h>>] < ToggleRank[<<"create", h>>]
          /\ ToggleRank[<<"destroy", h>>] \in Nat /\ ToggleRank[<<"create", h>>] \in Nat
        <3> HIDE DEF Rebuilt
        <3> QED
            BY <1>1, ToggleRanks
    <2>2. ~ (ToggleRank[<<"create", h>>] < ToggleRank[<<"destroy", h>>])
        BY <2>1
    <2>3. <<"destroy", h>> \notin ToSet(todo')
        BY <1>1, <2>2
    <2> QED
        BY <2>3 DEF Made
<1>3. /\ S \subseteq Handles /\ h \notin S /\ O \subseteq Handles /\ h \notin O /\ Rebuilt \subseteq Handles
      /\ Handles = S \cup O \cup Rebuilt /\ Device \in S
    <2>1. h \in Base /\ Rebuilt \subseteq Base /\ Device \in Base /\ Device \notin Rebuilt
        <3>1. Device \in AppSet /\ Rebuilt \subseteq RunSet
            BY Parts
        <3> HIDE DEF Rebuilt, AppSet, RunSet
        <3> QED
            BY <1>1, <3>1, Apart DEF Base
    <2>2. chain \in Chains
        BY <1>0 DEF Toggling
    <2>3. /\ Base \subseteq Handles /\ ChainSet(chain) \subseteq Handles /\ O \subseteq Handles
          /\ Base \cap O = {} /\ Handles = Base \cup ChainSet(chain) \cup O
        <3>1. Other(chain) \in Chains
            BY <2>2, ChainsDistinct
        <3> HIDE DEF Base, Handles, ChainSet, Chains
        <3> QED
            BY <2>2, <3>1, Apart, Parts
    <2> HIDE DEF Handles, Base, ChainSet, Rebuilt, Device
    <2> QED
        BY <1>1, <2>1, <2>3
<1>4. S' = S /\ O' = O
    BY DEF Made
<1>5. \A k \in O : k[2] # h[2]
    <2>1. Other(chain) \in Chains
        BY <1>0, ChainsDistinct DEF Toggling
    <2> HIDE DEF Rebuilt, ChainSet, Chains
    <2> QED
        BY <1>1, <2>1, OtherTypes
<1>6. /\ AllLive(S) /\ AllIn(O, {"none", "dead"})
      /\ ToSet(todo) \subseteq {"create", "destroy"} \X Rebuilt
      /\ \A k \in Rebuilt : Breaks(k) \/ ~Makes(k) => status[k] = "live"
      /\ \A k \in Rebuilt : Makes(k) /\ ~Breaks(k) => status[k] \in {"dead", "recycled"}
    BY <1>0 DEF Toggling
<1> HIDE DEF Handles, Base, ChainSet, Rebuilt, Chains, S, O, Device
<1>7. AllLive(S)' /\ AllIn(O, {"none", "dead"})'
    BY <1>3, <1>4, <1>5, <1>6 DEF AllLive, AllIn, Made
<1>8. ToSet(todo') \subseteq {"create", "destroy"} \X Rebuilt
    BY <1>6 DEF Made
<1>9. ASSUME NEW k \in Rebuilt
      PROVE  /\ Breaks(k)' \/ ~Makes(k)' => status'[k] = "live"
             /\ Makes(k)' /\ ~Breaks(k)' => status'[k] \in {"dead", "recycled"}
    <2>1. CASE k = h
        BY <1>1, <2>1 DEF Made, Makes
    <2>2. CASE k # h
        <3>1. (Breaks(k)' <=> Breaks(k)) /\ (Makes(k)' <=> Makes(k))
            BY <2>2 DEF Made, Breaks, Makes
        <3>2. /\ status[k] = "live" => status'[k] = "live"
              /\ status[k] \in {"dead", "recycled"} => status'[k] \in {"dead", "recycled"}
            BY <1>3, <2>2 DEF Made
        <3> QED
            BY <1>6, <3>1, <3>2
    <2> QED
        BY <2>1, <2>2
<1>10. Toggling'
    BY <1>0, <1>1, <1>7, <1>8, <1>9 DEF Toggling, Made, S, O
<1>11. \A k \in Handles : status[k] = "dead" /\ k[2] = h[2] => k \in Rebuilt
    BY <1>3, <1>5, <1>6 DEF AllLive, AllIn
<1>12. ASSUME NEW k \in Handles, Breaks(k)' PROVE k # h /\ status[k] = "live"
    <2>1. Breaks(k) /\ k # h
        BY <1>2, <1>12 DEF Breaks, Made
    <2>2. k \in Rebuilt
        BY <1>6, <2>1 DEF Breaks
    <2> QED
        BY <1>6, <2>1, <2>2
<1>13. status[Device] \in {"none", "live"}
    BY <1>3, <1>6 DEF AllLive, AllIn
<1> QED
    BY <1>10, <1>11, <1>12, <1>13, MadeKeeps

(* Every call that creates keeps the invariant. *)
LEMMA CreateStep == LifeInv /\ CreateNext => LifeInv'
<1> SUFFICES ASSUME LifeInv, CreateNext PROVE LifeInv'
    OBVIOUS
<1>1. pc \in Creating /\ \E h : Made(h)
    BY CreateMakes
<1>2. PICK h : Made(h)
    BY <1>1
<1>3. pc' = pc
    BY <1>2 DEF Made
<1>4. Kept' /\ ReleasedBeforeDevice'
    BY <1>1, <1>2, MakeConstruct, MakeEnter, MakeRecreate, MakeToggle DEF Creating
<1>5. PhaseInv'
    BY <1>1, <1>2, <1>3, MakeConstruct, MakeEnter, MakeRecreate, MakeToggle DEF Creating, PhaseInv
<1> QED
    BY <1>4, <1>5 DEF LifeInv, Kept

-----------------------------------------------------------------------------
(* From phase to phase                                                     *)

(* New calls that destroy. *)
LEMMA DestroyCalls ==
    ASSUME NEW s, NEW S, Proper(s, S), S \subseteq Handles \cup ChainSet(Null),
           todo' = Destroy(s), status' = status
    PROVE  /\ List(todo') /\ ToSet(todo') \subseteq Calls /\ CallsOK'
           /\ ToSet(todo') = {<<"destroy", k>> : k \in ToSet(s)} /\ ToSet(s) \subseteq S
           /\ \A k : (Breaks(k)' <=> k \in ToSet(s)) /\ ~Makes(k)'
<1> HIDE DEF Handles, ChainSet, Single
<1>1. /\ List(s) /\ ToSet(s) \subseteq S /\ OnceIn(s) /\ \A k \in ToSet(s) : Callable(k)
    BY DEF Proper
<1>2. List(todo') /\ ToSet(todo') = {<<"destroy", k>> : k \in ToSet(s)}
    BY <1>1, CallsShape
<1>3. ToSet(todo') \subseteq Calls
    BY <1>1, <1>2 DEF Calls
<1>4. \A k : (Breaks(k)' <=> k \in ToSet(s)) /\ ~Makes(k)'
    BY <1>2 DEF Breaks, Makes
<1>5. Once(Destroy(s))
    BY <1>1, OnceCalls
<1>6. Once(todo)'
    BY <1>5 DEF Once, Single
<1>7. CallsOK'
    <2>1. \A k \in Handles : Breaks(k)' => Callable(k)
        BY <1>1, <1>4
    <2>2. \A k : Single(k)' <=> Single(k)
        BY DEF Single
    <2> QED
        BY <1>6, <2>1, <2>2 DEF CallsOK, Callable
<1> QED
    BY <1>1, <1>2, <1>3, <1>4, <1>7

(* New calls that create. *)
LEMMA CreateCalls ==
    ASSUME NEW s, List(s), ToSet(s) \subseteq Handles, todo' = Create(s)
    PROVE  /\ List(todo') /\ ToSet(todo') \subseteq Calls /\ CallsOK'
           /\ ToSet(todo') = {<<"create", k>> : k \in ToSet(s)}
           /\ \A k : (Makes(k)' <=> k \in ToSet(s)) /\ ~Breaks(k)'
<1> HIDE DEF Handles, Single
<1>2. List(todo') /\ ToSet(todo') = {<<"create", k>> : k \in ToSet(s)}
    BY CallsShape
<1>3. ToSet(todo') \subseteq Calls
    BY <1>2 DEF Calls
<1>4. \A k : (Makes(k)' <=> k \in ToSet(s)) /\ ~Breaks(k)'
    BY <1>2 DEF Breaks, Makes
<1>5. Once(todo')
    BY <1>2, OnceMakes
<1>6. Once(todo)'
    BY <1>5 DEF Once, Single
<1>7. CallsOK'
    BY <1>4, <1>6 DEF CallsOK
<1> QED
    BY <1>2, <1>3, <1>4, <1>7

(* No calls. *)
LEMMA NoCalls ==
    ASSUME todo' = <<>>
    PROVE  /\ List(todo') /\ ToSet(todo') \subseteq Calls /\ CallsOK' /\ ToSet(todo') = {}
           /\ \A k : ~Breaks(k)' /\ ~Makes(k)'
BY ListOf0 DEF CallsOK, Breaks, Makes, Once

(* When the calls of a phase have been made none is left. *)
LEMMA NothingToDo ==
    ASSUME todo = <<>>
    PROVE  ToSet(todo) = {} /\ \A k : ~Breaks(k) /\ ~Makes(k)
BY ListOf0 DEF Breaks, Makes

(* What a change of phase keeps that leaves the objects alone. *)
LEMMA PhaseKeeps ==
    ASSUME LifeInv, pc' \in Phases \cup Ends, pc' \in Ends => todo' = <<>>,
           List(todo'), ToSet(todo') \subseteq Calls, CallsOK',
           {chain', old'} \subseteq Chains \cup {Null}, entities' \subseteq ToSet(Loaded),
           chain' = Null => pc' \in {"construct", "recreate"} \/ failed # NoHandle,
           chain' = chain \/ failed = NoHandle, pc \notin Ends,
           UNCHANGED <<status, failed, twice, stray>>
    PROVE  Kept' /\ ReleasedBeforeDevice'
<1> USE DEF LifeInv
<1>1. LifeTypes'
    BY DEF LifeTypes
<1>2. RecycledOK'
    BY DEF RecycledOK
<1>3. FailedOK'
    BY DEF FailedOK, Ends
<1>4. ChainOK'
    BY DEF ChainOK
<1>5. NoStrayCalls' /\ DestroyedOnce' /\ ReleasedBeforeDevice'
    BY DEF NoStrayCalls, DestroyedOnce, ReleasedBeforeDevice, Live
<1> QED
    BY <1>1, <1>2, <1>3, <1>4, <1>5 DEF Kept

(* The program starts in order (main.cpp:8-9). *)
LEMMA LifeInitially == Init => LifeInv
<1> SUFFICES ASSUME Init PROVE LifeInv
    OBVIOUS
<1> DEFINE A == AppSet \cup ChainSet(Chain(0))
           s == ApplicationHandles
<1>1. List(s) /\ ToSet(s) = A
    BY ApplicationElements
<1>2. A \subseteq Handles /\ RunSet \cup ChainSet(Chain(1)) \subseteq Handles /\ Device \in Handles
    BY Parts, HandlesAre DEF Base
<1>3. /\ pc = "construct" /\ todo = Create(s) /\ status = [h \in Handles |-> "none"]
      /\ chain = Null /\ old = Null /\ entities = {} /\ failed = NoHandle /\ twice = {} /\ stray = {}
    BY DEF Init
<1> HIDE DEF A, s, Handles
<1>4. List(todo) /\ ToSet(todo) = {<<"create", k>> : k \in A}
    BY <1>1, <1>3, CallsShape
<1>5. Once(todo)
    BY <1>4, OnceMakes
<1>6. \A k : (Makes(k) <=> k \in A) /\ ~Breaks(k)
    BY <1>4 DEF Makes, Breaks
<1>7. LifeTypes
    BY <1>2, <1>3, <1>4 DEF LifeTypes, Phases, Ends, Calls
<1>8. Constructing
    BY <1>2, <1>3, <1>4, <1>6 DEF Constructing, OnlyMakes, AllIn, A
<1>9. RecycledOK /\ FailedOK /\ ChainOK /\ CallsOK /\ NoStrayCalls /\ DestroyedOnce
    BY <1>3, <1>5, <1>6 DEF RecycledOK, FailedOK, ChainOK, CallsOK, NoStrayCalls, DestroyedOnce
<1>10. ReleasedBeforeDevice
    BY <1>2, <1>3 DEF ReleasedBeforeDevice
<1> QED
    BY <1>3, <1>7, <1>8, <1>9, <1>10 DEF LifeInv, PhaseInv

(* The application is constructed, main calls run (main.cpp:9-12). *)
LEMMA EnterRunStep == LifeInv /\ EnterRun => LifeInv'
<1> SUFFICES ASSUME LifeInv, EnterRun PROVE LifeInv'
    OBVIOUS
<1> DEFINE A == AppSet \cup ChainSet(Chain(0))
           s == RunHandles
<1>0. /\ pc = "construct" /\ todo = <<>> /\ pc' = "enter" /\ todo' = Create(s)
      /\ chain' = Chain(0) /\ entities' = ToSet(Loaded) /\ UNCHANGED <<status, old, failed, twice, stray>>
    BY DEF EnterRun, Becomes
<1>1. LifeTypes /\ Constructing
    BY <1>0 DEF LifeInv, PhaseInv
<1>2. List(s) /\ ToSet(s) = RunSet /\ Sorted(s, RunRank) /\ RunSet \subseteq Handles
    BY RunElements, Parts DEF Base
<1>3. AllLive(A) /\ AllIn(RunSet \cup ChainSet(Chain(1)), {"none"})
    BY <1>0, <1>1, NothingToDo DEF Constructing, AllLive, AllIn
<1> HIDE DEF A, s, RunSet, Handles, Chains
<1>4. /\ List(todo') /\ ToSet(todo') \subseteq Calls /\ CallsOK'
      /\ ToSet(todo') = {<<"create", k>> : k \in RunSet}
      /\ \A k : (Makes(k)' <=> k \in RunSet) /\ ~Breaks(k)'
    BY <1>0, <1>2, CreateCalls
<1>5. LastOf(todo', CreateRank)
    <2>1. Len(todo') = Len(s) /\ \A k \in 1 .. Len(s) : todo'[k] = <<"create", s[k]>> /\ s[k] \in RunSet
        BY <1>0, <1>2, CallsShape, ListShape
    <2>2. \A k \in 1 .. Len(s) : CreateRank[todo'[k]] = RunRank[s[k]]
        <3> TAKE k \in 1 .. Len(s)
        <3>1. todo'[k] = <<"create", s[k]>> /\ s[k] \in RunSet
            BY <2>1
        <3>2. CreateRank[<<"create", s[k]>>] = RunRank[s[k]]
            <4> DEFINE x == s[k]
            <4> HIDE DEF x, RunRank
            <4>1. x \in RunSet
                BY <3>1 DEF x
            <4>2. CreateRank[<<"create", x>>] = RunRank[x]
                BY <4>1 DEF CreateRank
            <4> QED
                BY <4>2 DEF x
        <3> QED
            BY <3>1, <3>2
    <2>3. Sorted(todo', CreateRank)
        BY <1>2, <2>1, <2>2 DEF Sorted
    <2>4. DOMAIN CreateRank = ToSet(todo')
        BY <1>4 DEF CreateRank
    <2> QED
        BY <2>3, <2>4 DEF LastOf
<1>6. LastOf(todo, CreateRank)'
    BY <1>5 DEF LastOf, Sorted, CreateRank, RunRank
<1>7. Entering'
    BY <1>0, <1>1, <1>3, <1>4, <1>6 DEF Constructing, Entering, OnlyMakes, AllLive, AllIn, A
<1>8. Kept' /\ ReleasedBeforeDevice'
    <2>1. failed = NoHandle /\ Chain(0) # Null /\ Chain(0) \in Chains /\ old = Null
        BY <1>1, ChainsDistinct DEF Constructing, Chains
    <2> QED
        BY <1>0, <1>4, <2>1, PhaseKeeps DEF Phases, Ends
<1> QED
    BY <1>0, <1>7, <1>8 DEF LifeInv, Kept, PhaseInv

(* run reaches its loop (application.cpp:85). *)
LEMMA EnterLoopStep == LifeInv /\ EnterLoop => LifeInv'
<1> SUFFICES ASSUME LifeInv, EnterLoop PROVE LifeInv'
    OBVIOUS
<1>0. /\ pc = "enter" /\ todo = <<>> /\ pc' = "loop" /\ todo' = <<>>
      /\ UNCHANGED <<status, chain, old, entities, failed, twice, stray>>
    BY DEF EnterLoop, Becomes
<1>1. LifeTypes /\ Entering
    BY <1>0 DEF LifeInv, PhaseInv
<1>2. AllLive(Base \cup ChainSet(Chain(0))) /\ AllIn(ChainSet(Chain(1)), {"none"})
    BY <1>0, <1>1, NothingToDo DEF Entering, AllLive, AllIn, Base
<1>3. Chain(0) \in Chains /\ Chain(0) # Null
    BY ChainsDistinct DEF Chains
<1> HIDE DEF Base, ChainSet, Handles, Chains
<1>4. List(todo') /\ ToSet(todo') \subseteq Calls /\ CallsOK' /\ ToSet(todo') = {}
    BY <1>0, NoCalls
<1>5. OthersGo(Base \cup ChainSet(chain))'
    <2>1. \A h \in Handles : status[h] = "live" => h \in Base \cup ChainSet(Chain(0))
        BY <1>2, HandlesAre DEF AllIn
    <2> QED
        BY <1>0, <1>1, <2>1 DEF OthersGo, Entering
<1>6. Looping'
    BY <1>0, <1>1, <1>2, <1>3, <1>4, <1>5 DEF Looping, Entering, OnlyBreaks, AllLive, AllIn
<1>7. Kept' /\ ReleasedBeforeDevice'
    BY <1>0, <1>1, <1>3, <1>4, PhaseKeeps DEF Phases, Ends, Entering, LifeTypes
<1> QED
    BY <1>0, <1>6, <1>7 DEF LifeInv, Kept, PhaseInv

(* No object is one of a constructor that failed, if none did. *)
LEMMA NoneFailed == failed = NoHandle => \A h \in Handles : ~OfFailed(h)
<1>1. \A h \in Handles : h[1][1] # "none"
    <2>1. \A h \in Base : h[1][1] # "none"
        BY AppOwners, RunOwners DEF Base, AppKinds, RunKinds
    <2>2. \A h \in ChainSet(Chain(0)) \cup ChainSet(Chain(1)) : h[1][1] # "none"
        BY ChainOwner, ChainsDistinct
    <2> QED
        BY <2>1, <2>2, HandlesAre
<1>2. NoHandle[1][1] = "none"
    BY DEF NoHandle
<1> HIDE DEF Handles
<1> QED
    BY <1>1, <1>2 DEF OfFailed

(* The calls that rebuild one pipeline (rendersystem.hpp:82-97). *)
LEMMA RebuildShape ==
    ASSUME NEW name \in {"simple", "texture"}, Live(GraphicsPipeline(name))
    PROVE  /\ List(CreatePipeline(name))
           /\ ToSet(CreatePipeline(name)) = {"create", "destroy"} \X PipeSet(name)
           /\ Sorted(CreatePipeline(name), ToggleRank)
<1> DEFINE v == <<System(name), "shaderModule", "vert">>
           f == <<System(name), "shaderModule", "frag">>
           g == GraphicsPipeline(name)
           p == PipelineHandles(name)
           d == Destroy(p)
           c == Create(p)
           o == IF System(name) = System("simple") THEN 0 ELSE 6
<1>1. CreatePipeline(name) = d \o c
    BY DEF CreatePipeline, PipelineGone, If
<1>2. List(p) /\ ToSet(p) = PipeSet(name)
    BY SystemElements
<1>3. p = <<v, f, g>> /\ PipeSet(name) = {v, f, g} /\ PipeSet(name) \subseteq Rebuilt
    BY DEF PipelineHandles, PipeSet, Rebuilt
<1>4. /\ \A x \in {"create", "destroy"} : ToggleRank[<<x, v>>] = o + (IF x = "destroy" THEN 0 ELSE 3) + 1
      /\ \A x \in {"create", "destroy"} : ToggleRank[<<x, f>>] = o + (IF x = "destroy" THEN 0 ELSE 3) + 2
      /\ \A x \in {"create", "destroy"} : ToggleRank[<<x, g>>] = o + (IF x = "destroy" THEN 0 ELSE 3) + 3
    <2>1. v \in Rebuilt /\ f \in Rebuilt /\ g \in Rebuilt
        BY <1>3
    <2>2. v[1] = System(name) /\ f[1] = System(name) /\ g[1] = System(name)
        BY DEF GraphicsPipeline
    <2>3. v[2] # "pipeline" /\ v[3] = "vert" /\ f[2] # "pipeline" /\ f[3] = "frag" /\ g[2] = "pipeline"
        BY DEF GraphicsPipeline
    <2> HIDE DEF v, f, g, Rebuilt, System
    <2> QED
        BY <2>1, <2>2, <2>3 DEF ToggleRank
<1>5. o \in {0, 6}
    OBVIOUS
<1>6. d = << <<"destroy", v>>, <<"destroy", f>>, <<"destroy", g>> >>
      /\ c = << <<"create", v>>, <<"create", f>>, <<"create", g>> >>
    BY <1>3 DEF Destroy, Create
<1> HIDE DEF v, f, g, o, p, d, c, ToggleRank
<1>7. /\ ToggleRank[<<"destroy", v>>] = o + 1 /\ ToggleRank[<<"destroy", f>>] = o + 2 /\ ToggleRank[<<"destroy", g>>] = o + 3
      /\ ToggleRank[<<"create", v>>] = o + 4 /\ ToggleRank[<<"create", f>>] = o + 5 /\ ToggleRank[<<"create", g>>] = o + 6
    BY <1>4, <1>5
<1>8. Sorted(d, ToggleRank) /\ Sorted(c, ToggleRank)
    <2>1. /\ ToggleRank[<<"destroy", v>>] < ToggleRank[<<"destroy", f>>]
          /\ ToggleRank[<<"destroy", f>>] < ToggleRank[<<"destroy", g>>]
          /\ ToggleRank[<<"destroy", v>>] < ToggleRank[<<"destroy", g>>]
          /\ ToggleRank[<<"create", v>>] < ToggleRank[<<"create", f>>]
          /\ ToggleRank[<<"create", f>>] < ToggleRank[<<"create", g>>]
          /\ ToggleRank[<<"create", v>>] < ToggleRank[<<"create", g>>]
        BY <1>5, <1>7
    <2> QED
        BY <1>6, <2>1, SortedOf3
<1>9. /\ List(d) /\ ToSet(d) = {<<"destroy", h>> : h \in PipeSet(name)}
      /\ List(c) /\ ToSet(c) = {<<"create", h>> : h \in PipeSet(name)}
    BY <1>2, CallsShape DEF d, c
<1>10. \A x \in ToSet(d), y \in ToSet(c) : ToggleRank[x] < ToggleRank[y]
    <2>1. /\ \A x \in ToSet(d) : ToggleRank[x] \in {o + 1, o + 2, o + 3}
          /\ \A y \in ToSet(c) : ToggleRank[y] \in {o + 4, o + 5, o + 6}
        BY <1>3, <1>7, <1>9
    <2> QED
        BY <1>5, <2>1
<1>11. Sorted(d \o c, ToggleRank)
    BY <1>8, <1>9, <1>10, CatSorted
<1>12. List(d \o c) /\ ToSet(d \o c) = ToSet(d) \cup ToSet(c)
    BY <1>9, CatShape
<1>13. ToSet(d \o c) = {"create", "destroy"} \X PipeSet(name)
    BY <1>9, <1>12
<1> QED
    BY <1>1, <1>11, <1>12, <1>13

(* F5: all the calls to come, in order (application.cpp:115-118). *)
LEMMA ToggleWireframeStep == LifeInv /\ ToggleWireframe => LifeInv'
<1> SUFFICES ASSUME LifeInv, ToggleWireframe PROVE LifeInv'
    OBVIOUS
<1> DEFINE s == CreatePipeline("simple")
           t == CreatePipeline("texture")
           S == (Base \cup ChainSet(chain)) \ Rebuilt
           O == ChainSet(Other(chain))
<1>0. /\ pc = "loop" /\ todo = <<>> /\ pc' = "toggle" /\ todo' = s \o t
      /\ UNCHANGED <<status, chain, old, entities, failed, twice, stray>>
    BY DEF ToggleWireframe, Becomes
<1>1. LifeTypes /\ Looping
    BY <1>0 DEF LifeInv, PhaseInv
<1>2. /\ AllLive(Base \cup ChainSet(chain)) /\ OthersGo(Base \cup ChainSet(chain))
      /\ chain \in Chains /\ old = Null /\ failed = NoHandle /\ entities = ToSet(Loaded)
    BY <1>1 DEF Looping
<1>3. Rebuilt \subseteq Base /\ Base \subseteq Handles
    BY Parts DEF Base
<1>4. GraphicsPipeline("simple") \in Rebuilt /\ GraphicsPipeline("texture") \in Rebuilt
    BY DEF Rebuilt, PipeSet
<1>5. Live(GraphicsPipeline("simple")) /\ Live(GraphicsPipeline("texture"))
    <2> HIDE DEF Handles, Base, ChainSet, Rebuilt, GraphicsPipeline
    <2> QED
        BY <1>2, <1>3, <1>4 DEF AllLive, AllIn, Live
<1>6. /\ List(s) /\ ToSet(s) = {"create", "destroy"} \X PipeSet("simple") /\ Sorted(s, ToggleRank)
      /\ List(t) /\ ToSet(t) = {"create", "destroy"} \X PipeSet("texture") /\ Sorted(t, ToggleRank)
    BY <1>5, RebuildShape
<1> HIDE DEF s, t
<1>7. \A x \in ToSet(s), y \in ToSet(t) : ToggleRank[x] < ToggleRank[y]
    <2> TAKE x \in ToSet(s), y \in ToSet(t)
    <2>1. /\ x = <<x[1], x[2]>> /\ x[1] \in {"create", "destroy"} /\ x[2] \in PipeSet("simple")
          /\ y = <<y[1], y[2]>> /\ y[1] \in {"create", "destroy"} /\ y[2] \in PipeSet("texture")
        BY <1>6
    <2>2. x[2] \in Rebuilt /\ y[2] \in Rebuilt /\ x[2][1] = System("simple") /\ y[2][1] = System("texture")
        BY <2>1 DEF Rebuilt, PipeSet, GraphicsPipeline
    <2> HIDE DEF Rebuilt
    <2> QED
        BY <2>1, <2>2, ToggleRanks
<1>8. Sorted(todo', ToggleRank)
    BY <1>0, <1>6, <1>7, CatSorted
<1>9. List(todo') /\ ToSet(todo') = {"create", "destroy"} \X Rebuilt
    <2>1. List(s \o t) /\ ToSet(s \o t) = ToSet(s) \cup ToSet(t)
        BY <1>6, CatShape
    <2> QED
        BY <1>0, <1>6, <2>1 DEF Rebuilt
<1> HIDE DEF Handles, Base, Rebuilt, ChainSet, Chains
<1>10. LastOf(todo', ToggleRank) /\ LastOf(todo, ToggleRank)'
    <2>1. LastOf(todo', ToggleRank)
        BY <1>8, <1>9, ToggleRanks DEF LastOf
    <2> QED
        BY <2>1 DEF LastOf, Sorted, ToggleRank
<1>11. \A k \in Rebuilt : Breaks(k)' /\ Makes(k)' /\ status'[k] = "live"
    BY <1>0, <1>2, <1>3, <1>9 DEF Breaks, Makes, AllLive, AllIn
<1>12. Once(todo)'
    <2>1. \A x \in ToSet(todo') : ToggleRank[x] \in Nat
        <3> TAKE x \in ToSet(todo')
        <3>1. x = <<x[1], x[2]>> /\ x[1] \in {"create", "destroy"} /\ x[2] \in Rebuilt
            BY <1>9
        <3> QED
            BY <3>1, ToggleRanks
    <2>2. \A j, k \in 1 .. Len(todo') : todo'[j] = todo'[k] => j = k
        BY <1>8, <1>9, <2>1, OnceSorted
    <2> QED
        BY <2>2 DEF Once
<1>13. CallsOK'
    <2>1. \A k \in Handles : Breaks(k)' => k \in Rebuilt
        BY <1>9 DEF Breaks
    <2> QED
        BY <1>11, <1>12, <2>1 DEF CallsOK
<1>14. AllLive(S)' /\ AllIn(O, {"none", "dead"})'
    <2>1. AllLive(S)'
        BY <1>0, <1>2 DEF AllLive, AllIn
    <2>2. O \subseteq Handles /\ O \cap (Base \cup ChainSet(chain)) = {}
        BY <1>2, Apart, ChainsDistinct
    <2>3. \A k \in O : status[k] # "live"
        BY <1>0, <1>2, <2>2, NothingToDo, NoneFailed DEF OthersGo
    <2>4. \A k \in O : status[k] # "recycled"
        BY <1>3, <2>2 DEF LifeInv, RecycledOK
    <2>5. \A k \in O : status[k] \in {"none", "dead"}
        BY <1>1, <2>2, <2>3, <2>4 DEF LifeTypes
    <2>6. O' = O
        BY <1>0
    <2> QED
        BY <1>0, <2>1, <2>5, <2>6 DEF AllIn
<1>15. Toggling'
    BY <1>0, <1>2, <1>9, <1>10, <1>11, <1>14 DEF Toggling
<1>16. ToSet(todo') \subseteq Calls
    BY <1>3, <1>9 DEF Calls
<1>17. Kept' /\ ReleasedBeforeDevice'
    <2>1. chain # Null
        BY <1>2, ChainsDistinct DEF Chains
    <2> QED
        BY <1>0, <1>1, <1>9, <1>13, <1>16, <2>1, PhaseKeeps DEF Phases, Ends, LifeTypes
<1> QED
    BY <1>0, <1>15, <1>17 DEF LifeInv, Kept, PhaseInv

(* The pipelines are there again. *)
LEMMA ToggledStep == LifeInv /\ Toggled => LifeInv'
<1> SUFFICES ASSUME LifeInv, Toggled PROVE LifeInv'
    OBVIOUS
<1>0. /\ pc = "toggle" /\ todo = <<>> /\ pc' = "loop" /\ todo' = <<>>
      /\ UNCHANGED <<status, chain, old, entities, failed, twice, stray>>
    BY DEF Toggled, Becomes
<1>1. LifeTypes /\ Toggling
    BY <1>0 DEF LifeInv, PhaseInv
<1>2. /\ chain \in Chains /\ chain # Null
      /\ AllLive(Base \cup ChainSet(chain)) /\ AllIn(ChainSet(Other(chain)), {"none", "dead"})
    <2>1. \A k \in Rebuilt : status[k] = "live"
        BY <1>0, <1>1, NothingToDo DEF Toggling
    <2>2. chain \in Chains /\ AllLive((Base \cup ChainSet(chain)) \ Rebuilt) /\ AllIn(ChainSet(Other(chain)), {"none", "dead"})
        BY <1>1 DEF Toggling
    <2> HIDE DEF Base, Rebuilt, ChainSet
    <2> QED
        BY <2>1, <2>2, ChainsDistinct DEF AllLive, AllIn, Chains
<1> HIDE DEF Base, ChainSet, Handles, Chains
<1>4. List(todo') /\ ToSet(todo') \subseteq Calls /\ CallsOK' /\ ToSet(todo') = {}
    BY <1>0, NoCalls
<1>5. OthersGo(Base \cup ChainSet(chain))'
    <2>1. \A h \in Handles : status[h] = "live" => h \in Base \cup ChainSet(chain)
        BY <1>2, Apart DEF AllIn
    <2> QED
        BY <1>0, <2>1 DEF OthersGo
<1>6. Looping'
    BY <1>0, <1>1, <1>2, <1>4, <1>5 DEF Looping, Toggling, OnlyBreaks, AllLive, AllIn
<1>7. Kept' /\ ReleasedBeforeDevice'
    BY <1>0, <1>1, <1>2, <1>4, PhaseKeeps DEF Phases, Ends, LifeTypes
<1> QED
    BY <1>0, <1>6, <1>7 DEF LifeInv, Kept, PhaseInv

(* The locals of run are whole when nothing failed and nothing is under way. *)
LEMMA OrderlyRun == ASSUME AllLive(RunSet), NEW h PROVE Orderly(h)
<1>1. \A name \in {"simple", "texture"} : PipeSet(name) \subseteq RunSet
    BY DEF RunSet, SystemSet
<1> HIDE DEF RunSet
<1> QED
    BY <1>1 DEF Orderly, AllLive, AllIn

(* recreateSwapChain: the members of the new swap chain start unassigned
   (renderer.cpp:112-113).                                                 *)
LEMMA RecreateSwapChainStep == LifeInv /\ RecreateSwapChain => LifeInv'
<1> SUFFICES ASSUME LifeInv, RecreateSwapChain PROVE LifeInv'
    OBVIOUS
<1> DEFINE A == Base \cup ChainSet(chain)
           n == Other(chain)
           s == ChainHandles(n)
<1>0. /\ pc = "loop" /\ todo = <<>> /\ pc' = "recreate" /\ todo' = Create(s)
      /\ old' = chain /\ chain' = Null
      /\ status' = [h \in Handles |-> IF h[1] = n THEN "none" ELSE status[h]]
      /\ UNCHANGED <<entities, failed, twice, stray>>
    BY DEF RecreateSwapChain, Becomes
<1>1. LifeTypes /\ Looping
    BY <1>0 DEF LifeInv, PhaseInv
<1>2. /\ chain \in Chains /\ n \in Chains /\ n # chain /\ failed = NoHandle /\ entities = ToSet(Loaded)
      /\ AllLive(A)
    BY <1>1, ChainsDistinct DEF Looping
<1>3. List(s) /\ ToSet(s) = ChainSet(n)
    BY ChainElements
<1>4. /\ A \subseteq Handles /\ ChainSet(n) \subseteq Handles /\ Handles = A \cup ChainSet(n)
      /\ Device \in A /\ Rebuilt \subseteq A
    <2>1. Device \in Base /\ Rebuilt \subseteq Base
        BY Parts DEF Base
    <2> HIDE DEF Handles, ChainSet, Chains, Base, Device, Rebuilt
    <2> QED
        BY <1>2, <2>1, Apart
<1>5. /\ \A h \in A : h[1] # n
      /\ \A h \in ChainSet(n) : h[1] = n
    <2>1. \A h \in Base : h[1][1] # "swapChain"
        BY AppOwners, RunOwners DEF Base, AppKinds, RunKinds
    <2> HIDE DEF ChainSet, Chains, Base
    <2> QED
        BY <1>2, <2>1, ChainOwner, ChainsDistinct
<1> HIDE DEF A, n, s, Handles, ChainSet, Chains, Device, Rebuilt
<1>6. /\ \A h \in A : status'[h] = "live"
      /\ \A h \in ChainSet(n) : status'[h] = "none"
      /\ status' \in [Handles -> {"none", "live", "dead", "recycled"}]
    <2>1. status \in [Handles -> {"none", "live", "dead", "recycled"}]
        BY <1>1 DEF LifeTypes
    <2> QED
        BY <1>0, <1>2, <1>4, <1>5, <2>1 DEF AllLive, AllIn
<1>7. /\ List(todo') /\ ToSet(todo') \subseteq Calls /\ CallsOK'
      /\ ToSet(todo') = {<<"create", k>> : k \in ChainSet(n)}
      /\ \A k : (Makes(k)' <=> k \in ChainSet(n)) /\ ~Breaks(k)'
    BY <1>0, <1>3, <1>4, CreateCalls
<1>8. Recreating'
    BY <1>0, <1>2, <1>6, <1>7 DEF Recreating, OnlyMakes, AllLive, AllIn, A, n
<1>9. LifeTypes'
    BY <1>0, <1>1, <1>2, <1>6, <1>7 DEF LifeTypes, Phases, Ends
<1>10. RecycledOK' /\ FailedOK' /\ ChainOK'
    BY <1>0, <1>2, <1>4, <1>6 DEF RecycledOK, FailedOK, ChainOK
<1>11. NoStrayCalls' /\ DestroyedOnce'
    BY <1>0 DEF LifeInv, NoStrayCalls, DestroyedOnce
<1>12. ReleasedBeforeDevice'
    BY <1>4, <1>6 DEF ReleasedBeforeDevice
<1> QED
    BY <1>0, <1>7, <1>8, <1>9, <1>10, <1>11, <1>12 DEF LifeInv, PhaseInv

(* The new swap chain is complete: the old one goes, and all of run with it when the
   formats have changed (renderer.cpp:112-116).                            *)
LEMMA RecreatedStep == LifeInv /\ Recreated => LifeInv'
<1> SUFFICES ASSUME LifeInv, Recreated PROVE LifeInv'
    OBVIOUS
<1> DEFINE A == Base \cup ChainSet(old)
           n == Other(old)
           s == ChainGone(old)
           t == RunGone(NoHandle)
           R == RunSet \ ImGuiSet
<1>0. /\ pc = "recreate" /\ todo = <<>>
      /\ \/ pc' = "loop" /\ todo' = Destroy(s)
         \/ pc' = "leave" /\ todo' = Destroy(s \o t)
      /\ chain' = n /\ old' = Null
      /\ UNCHANGED <<status, entities, failed, twice, stray>>
    BY DEF Recreated, Becomes
<1>1. LifeTypes /\ Recreating
    BY <1>0 DEF LifeInv, PhaseInv
<1>2. /\ old \in Chains /\ n \in Chains /\ n # old /\ Other(n) = old /\ n # Null
      /\ failed = NoHandle /\ entities = ToSet(Loaded)
      /\ AllLive(A) /\ AllLive(ChainSet(n))
    <2>1. old \in Chains /\ failed = NoHandle /\ entities = ToSet(Loaded) /\ AllLive(A) /\ AllLive(ChainSet(n))
        BY <1>0, <1>1, NothingToDo DEF Recreating, AllLive, AllIn
    <2> QED
        BY <2>1, ChainsDistinct DEF Chains
<1>3. /\ A \subseteq Handles /\ ChainSet(n) \subseteq Handles /\ Handles = A \cup ChainSet(n)
      /\ ChainSet(old) \cap ChainSet(n) = {} /\ Base \cap ChainSet(n) = {} /\ Base \cap ChainSet(old) = {}
      /\ R \subseteq Base /\ AppSet \cup RunSet = Base /\ AppSet \cap R = {}
    <2> HIDE DEF Handles, ChainSet, Chains, AppSet, RunSet, ImGuiSet
    <2> QED
        BY <1>2, Apart DEF Base
<1>4. Proper(s, ChainSet(old)) /\ \A k \in ChainSet(old) : Live(k) => k \in ToSet(s)
    <2>1. \A k \in ChainSet(old) \cap Handles : status[k] # "recycled"
        BY <1>2 DEF AllLive, AllIn
    <2> HIDE DEF ChainSet, Chains, Handles
    <2> QED
        BY <1>2, <2>1, ChainShape
<1>5. Proper(t, R) /\ \A k \in R : Live(k) /\ k[1] # NoHandle[1] => k \in ToSet(t)
    <2>1. AllLive(RunSet)
        BY <1>2 DEF AllLive, AllIn, Base
    <2> HIDE DEF RunSet, ImGuiSet, NoHandle
    <2> QED
        BY <2>1, OrderlyRun, RunGoneShape
<1>6. Proper(s \o t, ChainSet(old) \cup R) /\ ToSet(s \o t) = ToSet(s) \cup ToSet(t)
    <2>1. ChainSet(old) \cap R = {}
        BY <1>3
    <2> HIDE DEF s, t, R, ChainSet
    <2> QED
        BY <1>4, <1>5, <2>1, ProperCat
<1>7. \A h \in Handles : ~OfFailed(h) /\ h[1] # NoHandle[1]
    BY <1>2, NoneFailed DEF OfFailed
<1> HIDE DEF n, s, t, Handles, ChainSet, Chains, AppSet, RunSet, ImGuiSet, NoHandle
<1>8. CASE pc' = "loop" /\ todo' = Destroy(s)
    <2>1. /\ List(todo') /\ ToSet(todo') \subseteq Calls /\ CallsOK'
          /\ ToSet(todo') = {<<"destroy", k>> : k \in ToSet(s)} /\ ToSet(s) \subseteq ChainSet(old)
          /\ \A k : (Breaks(k)' <=> k \in ToSet(s)) /\ ~Makes(k)'
        BY <1>0, <1>3, <1>4, <1>8, DestroyCalls
    <2>2. OnlyBreaks(ChainSet(Other(chain)))'
        BY <1>0, <1>2, <2>1 DEF OnlyBreaks
    <2>3. AllLive(Base \cup ChainSet(chain))'
        BY <1>0, <1>2 DEF AllLive, AllIn
    <2>4. OthersGo(Base \cup ChainSet(chain))'
        BY <1>0, <1>3, <1>4, <2>1 DEF OthersGo, Live
    <2>5. Looping'
        BY <1>0, <1>2, <2>2, <2>3, <2>4 DEF Looping
    <2>6. Kept' /\ ReleasedBeforeDevice'
        BY <1>0, <1>1, <1>2, <1>8, <2>1, PhaseKeeps DEF Phases, Ends, LifeTypes
    <2> QED
        BY <1>8, <2>5, <2>6 DEF LifeInv, Kept, PhaseInv
<1>9. CASE pc' = "leave" /\ todo' = Destroy(s \o t)
    <2> DEFINE u == s \o t
    <2>0. Proper(u, ChainSet(old) \cup R) /\ todo' = Destroy(u) /\ ToSet(u) = ToSet(s) \cup ToSet(t)
        BY <1>6, <1>9
    <2> HIDE DEF u, R
    <2>1. /\ List(todo') /\ ToSet(todo') \subseteq Calls /\ CallsOK'
          /\ ToSet(todo') = {<<"destroy", k>> : k \in ToSet(u)} /\ ToSet(u) \subseteq ChainSet(old) \cup R
          /\ \A k : (Breaks(k)' <=> k \in ToSet(u)) /\ ~Makes(k)'
        BY <1>0, <1>3, <2>0, DestroyCalls
    <2>2. OnlyBreaks(Doomed)'
        <3>1. ChainSet(old) \cup R \subseteq Doomed'
            <4>1. old \in {Chain(0), Chain(1)}
                BY <1>2 DEF Chains
            <4>2. Doomed' = (R \cup ChainSet(Chain(0)) \cup ChainSet(Chain(1))) \ ChainSet(n)
                BY <1>0 DEF Doomed, R
            <4> QED
                BY <1>3, <4>1, <4>2
        <3> QED
            BY <2>1, <3>1 DEF OnlyBreaks
    <2>3. AllLive(AppSet)' /\ AllIn(ImGuiSet, {"none", "live"})' /\ AllLive(ChainSet(chain))'
        <3>1. AppSet \subseteq A /\ ImGuiSet \subseteq A
            BY <1>3, Parts
        <3> QED
            BY <1>0, <1>2, <3>1 DEF AllLive, AllIn
    <2>4. OthersGo(AppSet \cup ImGuiSet \cup ChainSet(chain))'
        <3> SUFFICES ASSUME NEW k \in Handles, status[k] = "live", k \notin AppSet \cup ImGuiSet \cup ChainSet(n)
                     PROVE  Breaks(k)'
            BY <1>0 DEF OthersGo
        <3>1. k \in R \/ k \in ChainSet(old)
            BY <1>3 DEF R
        <3>2. Live(k) /\ k[1] # NoHandle[1]
            BY <1>7 DEF Live
        <3> QED
            BY <1>4, <1>5, <2>0, <2>1, <3>1, <3>2
    <2>5. Leaving'
        BY <1>0, <1>2, <2>2, <2>3, <2>4 DEF Leaving
    <2>6. Kept' /\ ReleasedBeforeDevice'
        BY <1>0, <1>1, <1>2, <1>9, <2>1, PhaseKeeps DEF Phases, Ends, LifeTypes
    <2> QED
        BY <1>9, <2>5, <2>6 DEF LifeInv, Kept, PhaseInv
<1> QED
    BY <1>0, <1>8, <1>9

(* run returns, or a frame throws (application.cpp:162, main.cpp:13). *)
LEMMA LeaveRunStep == LifeInv /\ LeaveRun => LifeInv'
<1> SUFFICES ASSUME LifeInv, LeaveRun PROVE LifeInv'
    OBVIOUS
<1> DEFINE A == Base \cup ChainSet(chain)
           t == RunGone(NoHandle)
           R == RunSet \ ImGuiSet
<1>0. /\ pc = "loop" /\ todo = <<>> /\ pc' = "leave" /\ todo' = Destroy(t)
      /\ UNCHANGED <<status, chain, old, entities, failed, twice, stray>>
    BY DEF LeaveRun, Becomes
<1>1. LifeTypes /\ Looping
    BY <1>0 DEF LifeInv, PhaseInv
<1>2. /\ chain \in Chains /\ chain # Null /\ old = Null /\ failed = NoHandle /\ entities = ToSet(Loaded)
      /\ AllLive(A) /\ OthersGo(A)
    BY <1>1, ChainsDistinct DEF Looping, Chains
<1>3. /\ A \subseteq Handles /\ Base \cap ChainSet(chain) = {}
      /\ R \subseteq Base /\ AppSet \cup RunSet = Base /\ R \subseteq Doomed
    <2>1. A \subseteq Handles /\ Base \cap ChainSet(chain) = {}
        BY <1>2, Apart
    <2> HIDE DEF Handles, ChainSet, Chains, AppSet, RunSet, ImGuiSet
    <2> QED
        BY <2>1 DEF Base, Doomed
<1>5. Proper(t, R) /\ \A k \in R : Live(k) /\ k[1] # NoHandle[1] => k \in ToSet(t)
    <2>1. AllLive(RunSet)
        BY <1>2 DEF AllLive, AllIn, Base
    <2> HIDE DEF RunSet, ImGuiSet, NoHandle
    <2> QED
        BY <2>1, OrderlyRun, RunGoneShape
<1>7. \A h \in Handles : ~OfFailed(h) /\ h[1] # NoHandle[1]
    BY <1>2, NoneFailed DEF OfFailed
<1> HIDE DEF t, Handles, ChainSet, Chains, AppSet, RunSet, ImGuiSet, NoHandle
<1>8. Doomed' = Doomed
    BY <1>0 DEF Doomed
<1> HIDE DEF R, Doomed
<1>9. /\ List(todo') /\ ToSet(todo') \subseteq Calls /\ CallsOK'
      /\ ToSet(todo') = {<<"destroy", k>> : k \in ToSet(t)} /\ ToSet(t) \subseteq R
      /\ \A k : (Breaks(k)' <=> k \in ToSet(t)) /\ ~Makes(k)'
    BY <1>0, <1>3, <1>5, DestroyCalls
<1>10. OnlyBreaks(Doomed)'
    BY <1>3, <1>8, <1>9 DEF OnlyBreaks
<1>11. AllLive(AppSet)' /\ AllIn(ImGuiSet, {"none", "live"})' /\ AllLive(ChainSet(chain))'
    <2>1. AppSet \subseteq A /\ ImGuiSet \subseteq A
        BY <1>3, Parts
    <2> QED
        BY <1>0, <1>2, <2>1 DEF AllLive, AllIn
<1>12. OthersGo(AppSet \cup ImGuiSet \cup ChainSet(chain))'
    <2> SUFFICES ASSUME NEW k \in Handles, status[k] = "live", k \notin AppSet \cup ImGuiSet \cup ChainSet(chain)
                 PROVE  Breaks(k)'
        BY <1>0 DEF OthersGo
    <2>1. k \in A
        BY <1>0, <1>2, <1>7, NothingToDo DEF OthersGo
    <2>2. k \in R
        BY <1>3, <2>1 DEF R
    <2>3. Live(k) /\ k[1] # NoHandle[1]
        BY <1>7 DEF Live
    <2> QED
        BY <1>5, <1>9, <2>2, <2>3
<1>13. Leaving'
    BY <1>0, <1>2, <1>10, <1>11, <1>12 DEF Leaving
<1>14. Kept' /\ ReleasedBeforeDevice'
    BY <1>0, <1>1, <1>2, <1>9, PhaseKeeps DEF Phases, Ends, LifeTypes
<1> QED
    BY <1>0, <1>13, <1>14 DEF LifeInv, Kept, PhaseInv

-----------------------------------------------------------------------------
(* A creation that fails                                                   *)

(* In the constructors of run, whoever is not failing is whole, or not begun. *)
LEMMA OrderlyEnter ==
    ASSUME LifeTypes, Entering, todo # <<>>, NEW h, Head(todo) = <<"create", h>>
    PROVE  Orderly(h) /\ h \in RunSet
<1>1. /\ List(todo) /\ Sorted(todo, CreateRank)
      /\ \A c \in DOMAIN CreateRank, d \in ToSet(todo) : c \notin ToSet(todo) => CreateRank[c] < CreateRank[d]
      /\ \A k \in RunSet : status[k] = IF Makes(k) THEN "none" ELSE "live"
      /\ OnlyMakes(RunSet)
    BY DEF LifeTypes, Entering, LastOf
<1>2. /\ Len(todo) \in Nat \ {0} /\ Head(todo) = todo[1] /\ Head(todo) \in ToSet(todo)
      /\ ToSet(todo) = {todo[j] : j \in 1 .. Len(todo)}
    BY <1>1, TailShape, ListShape
<1>3. h \in RunSet
    BY <1>1, <1>2 DEF OnlyMakes
<1>4. \A k \in RunSet : <<"create", k>> \in DOMAIN CreateRank /\ CreateRank[<<"create", k>>] = RunRank[k]
    <2> TAKE k \in RunSet
    <2> HIDE DEF RunSet, RunRank
    <2> QED
        BY DEF CreateRank
<1> HIDE DEF RunSet, RunRank, CreateRank, Place, Part, Makes
<1>5. ASSUME NEW k \in RunSet, ~Makes(k) PROVE RunRank[k] < RunRank[h]
    BY <1>1, <1>2, <1>3, <1>4, <1>5 DEF Makes
<1>6. ASSUME NEW l \in RunSet, Makes(l) PROVE RunRank[h] <= RunRank[l]
    <2>1. PICK j \in 1 .. Len(todo) : todo[j] = <<"create", l>>
        BY <1>2, <1>6 DEF Makes
    <2>2. CASE j = 1
        BY <1>2, <1>3, <2>1, <2>2, RunPlace
    <2>3. CASE j # 1
        <3>1. 1 \in 1 .. Len(todo) /\ 1 < j
            BY <1>2, <2>3
        <3>2. CreateRank[todo[1]] < CreateRank[todo[j]]
            BY <1>1, <3>1 DEF Sorted
        <3>3. RunRank[h] < RunRank[l]
            BY <1>2, <1>3, <1>4, <2>1, <3>2
        <3> QED
            BY <1>3, <3>3, RunPlace
    <2> QED
        BY <2>2, <2>3
<1>7. ASSUME NEW k \in RunSet, NEW l \in RunSet, k[1] = l[1], k[1] # h[1], status[k] = "live", status[l] # "live"
      PROVE  FALSE
    <2>1. ~Makes(k) /\ Makes(l)
        BY <1>1, <1>7
    <2>2. RunRank[k] < RunRank[h] /\ RunRank[h] <= RunRank[l]
        BY <1>5, <1>6, <2>1
    <2> DEFINE p == Place(k[1])
               q == Place(h[1])
    <2>3. /\ p \in Nat /\ q \in Nat /\ Part(k) \in 0 .. 6 /\ Part(l) \in 0 .. 6 /\ Part(h) \in 0 .. 6
          /\ RunRank[k] = 8 * p + Part(k) /\ RunRank[l] = 8 * p + Part(l) /\ RunRank[h] = 8 * q + Part(h)
        BY <1>3, <1>7, RunPlace
    <2>4. p # q
        BY <1>3, <1>7, RunPlace
    <2> HIDE DEF p, q
    <2> QED
        BY <2>2, <2>3, <2>4
<1>8. \A k \in RunSet : status[k] \in {"none", "live"}
    BY <1>1
<1>9. \A name \in {"simple", "texture"} : PipeSet(name) \subseteq RunSet
    BY DEF RunSet, SystemSet
<1> QED
    BY <1>3, <1>7, <1>8, <1>9 DEF Orderly, AllIn

(* Between the creation of h and the end, no pipeline is half destroyed. *)
LEMMA ToggleApart ==
    ASSUME NEW name \in {"simple", "texture"}, NEW k \in PipeSet(name), NEW h \in Rebuilt,
           ToggleRank[<<"destroy", k>>] < ToggleRank[<<"create", h>>],
           ToggleRank[<<"create", h>>] < ToggleRank[<<"destroy", GraphicsPipeline(name)>>]
    PROVE  FALSE
<1> DEFINE o(x) == IF x[1] = System("simple") THEN 0 ELSE 6
           p(x) == IF x[2] = "pipeline" THEN 3 ELSE IF x[3] = "frag" THEN 2 ELSE 1
           g == GraphicsPipeline(name)
<1>1. k \in Rebuilt /\ g \in Rebuilt /\ k[1] = g[1] /\ g[2] = "pipeline"
    BY DEF Rebuilt, PipeSet, GraphicsPipeline
<1>2. /\ ToggleRank[<<"destroy", k>>] = o(k) + 0 + p(k)
      /\ ToggleRank[<<"create", h>>] = o(h) + 3 + p(h)
      /\ ToggleRank[<<"destroy", g>>] = o(g) + 0 + p(g)
    BY <1>1 DEF ToggleRank
<1>3. o(k) = o(g) /\ p(g) = 3 /\ p(k) \in 1 .. 3 /\ p(h) \in 1 .. 3 /\ o(k) \in {0, 6} /\ o(h) \in {0, 6}
    BY <1>1
<1> HIDE DEF o, p
<1> QED
    BY <1>2, <1>3

(* When a pipeline fails, the other one is whole. *)
LEMMA OrderlyToggle ==
    ASSUME LifeTypes, Toggling, todo # <<>>, NEW h, Head(todo) = <<"create", h>>
    PROVE  Orderly(h) /\ h \in Rebuilt
<1> DEFINE T == ToSet(todo)
           r == ToggleRank
<1>1. /\ List(todo) /\ T \subseteq {"create", "destroy"} \X Rebuilt
      /\ AllLive((Base \cup ChainSet(chain)) \ Rebuilt)
      /\ \A k \in Rebuilt : Breaks(k) \/ ~Makes(k) => status[k] = "live"
      /\ \A k \in Rebuilt : Makes(k) /\ ~Breaks(k) => status[k] \in {"dead", "recycled"}
    BY DEF LifeTypes, Toggling
<1>2. /\ <<"create", h>> \in T /\ h \in Rebuilt
      /\ \A x \in {"create", "destroy"}, k \in Rebuilt :
            /\ r[<<"create", h>>] < r[<<x, k>>] => <<x, k>> \in T
            /\ <<x, k>> \in T => <<x, k>> = <<"create", h>> \/ r[<<"create", h>>] < r[<<x, k>>]
            /\ <<x, k>> \notin T => r[<<x, k>>] < r[<<"create", h>>]
    <2>1. /\ Head(todo) \in T /\ T = {Head(todo)} \cup ToSet(Tail(todo))
        BY <1>1, TailShape
    <2>2. LastOf(todo, r) /\ LastOf(Tail(todo), r) /\ \A d \in ToSet(Tail(todo)) : r[Head(todo)] < r[d]
        <3>1. \A c \in {"create", "destroy"} \X Rebuilt : r[c] \in Nat
            <4> TAKE c \in {"create", "destroy"} \X Rebuilt
            <4>1. c = <<c[1], c[2]>> /\ c[1] \in {"create", "destroy"} /\ c[2] \in Rebuilt
                OBVIOUS
            <4> QED
                BY <4>1, ToggleRanks
        <3>2. LastOf(todo, r)
            BY DEF Toggling
        <3> HIDE DEF r
        <3> QED
            BY <1>1, <3>1, <3>2, LastTail
    <2>3. h \in Rebuilt
        <3> HIDE DEF Rebuilt
        <3> QED
            BY <1>1, <2>1
    <2>4. DOMAIN r = {"create", "destroy"} \X Rebuilt
        BY ToggleRanks
    <2> HIDE DEF r, T, Rebuilt
    <2>5. ASSUME NEW x \in {"create", "destroy"}, NEW k \in Rebuilt
          PROVE  /\ <<x, k>> \in T => <<x, k>> = <<"create", h>> \/ r[<<"create", h>>] < r[<<x, k>>]
                 /\ <<x, k>> \notin T => r[<<x, k>>] < r[<<"create", h>>]
        BY <2>1, <2>2, <2>4 DEF LastOf, T
    <2>6. ASSUME NEW x \in {"create", "destroy"}, NEW k \in Rebuilt, r[<<"create", h>>] < r[<<x, k>>], <<x, k>> \notin T
          PROVE  FALSE
        <3>1. r[<<x, k>>] < r[<<"create", h>>]
            BY <2>5, <2>6
        <3>2. r[<<x, k>>] \in Nat /\ r[<<"create", h>>] \in Nat
            BY <2>3, ToggleRanks DEF r
        <3> QED
            BY <2>6, <3>1, <3>2
    <2> QED
        BY <2>1, <2>3, <2>5, <2>6
<1>3. \A name \in {"simple", "texture"} : \A k \in PipeSet(name) : k[1] = System(name) /\ k \in Rebuilt
    BY DEF PipeSet, GraphicsPipeline, Rebuilt
<1>4. Rebuilt \subseteq RunSet /\ RunSet \subseteq Base
    BY Parts DEF Base
<1>5. AllIn(RunSet \ Rebuilt, {"none", "live"}) /\ \A k \in RunSet \ Rebuilt : status[k] = "live"
    BY <1>1, <1>4 DEF AllLive, AllIn
<1>6. ASSUME NEW name \in {"simple", "texture"}, status[GraphicsPipeline(name)] = "live",
             NEW k \in PipeSet(name), status[k] # "live"
      PROVE  FALSE
    <2> DEFINE g == GraphicsPipeline(name)
    <2>1. g \in PipeSet(name) /\ g \in Rebuilt /\ k \in Rebuilt /\ k # g
        BY <1>3, <1>6 DEF PipeSet
    <2>2. Makes(k) /\ ~Breaks(k) /\ (~Makes(g) \/ Breaks(g))
        <3> HIDE DEF g, Rebuilt, PipeSet
        <3> QED
            BY <1>1, <1>6, <2>1 DEF g
    <2>3. /\ r[<<"create", k>>] < r[<<"create", g>>]
          /\ r[<<"create", k>>] \in Nat /\ r[<<"create", g>>] \in Nat /\ r[<<"create", h>>] \in Nat
        <3> HIDE DEF Rebuilt, PipeSet
        <3> QED
            BY <1>2, <2>1, ToggleRanks
    <2> HIDE DEF r, T, Rebuilt, PipeSet, g
    <2>4. CASE ~Makes(g)
        <3>1. <<"create", g>> \notin T /\ <<"create", k>> \in T
            BY <2>2, <2>4 DEF Makes, T
        <3>2. r[<<"create", g>>] < r[<<"create", h>>]
            BY <1>2, <2>1, <3>1
        <3>3. r[<<"create", h>>] <= r[<<"create", k>>]
            BY <1>2, <2>1, <2>3, <3>1
        <3> QED
            BY <2>3, <3>2, <3>3
    <2>5. CASE Breaks(g)
        <3>1. <<"destroy", g>> \in T /\ <<"destroy", k>> \notin T
            BY <2>2, <2>5 DEF Breaks, T
        <3>2. r[<<"destroy", k>>] < r[<<"create", h>>] /\ r[<<"create", h>>] < r[<<"destroy", g>>]
            BY <1>2, <2>1, <3>1
        <3> QED
            BY <1>2, <3>2, ToggleApart DEF r, g
    <2> QED
        BY <2>2, <2>4, <2>5
<1>7. ASSUME NEW k \in RunSet, NEW l \in RunSet, k[1] = l[1], k[1] # h[1], status[k] = "live", status[l] # "live"
      PROVE  FALSE
    <2>1. l \in Rebuilt /\ Makes(l) /\ ~Breaks(l) /\ l[1] # h[1]
        BY <1>1, <1>5, <1>7
    <2>2. \/ l[1] = System("simple") /\ h[1] = System("texture")
          \/ l[1] = System("texture") /\ h[1] = System("simple")
        BY <1>2, <1>3, <2>1 DEF Rebuilt
    <2> HIDE DEF r, T, Rebuilt, System
    <2>3. CASE l[1] = System("simple") /\ h[1] = System("texture")
        <3>1. r[<<"create", l>>] < r[<<"create", h>>] /\ r[<<"create", l>>] \in Nat /\ r[<<"create", h>>] \in Nat
            BY <1>2, <2>1, <2>3, ToggleRanks DEF r
        <3>2. <<"create", l>> \in T /\ l # h
            BY <2>1 DEF Makes, T
        <3> QED
            BY <1>2, <2>1, <3>1, <3>2
    <2>4. CASE l[1] = System("texture") /\ h[1] = System("simple")
        <3>1. r[<<"create", h>>] < r[<<"destroy", l>>]
            BY <1>2, <2>1, <2>4, ToggleRanks DEF r
        <3>2. <<"destroy", l>> \in T
            BY <1>2, <2>1, <3>1
        <3> QED
            BY <2>1, <3>2 DEF Breaks, T
    <2> QED
        BY <2>2, <2>3, <2>4
<1> QED
    BY <1>2, <1>5, <1>6, <1>7 DEF Orderly, AllIn

(* What a failed creation keeps. *)
LEMMA FailKeeps ==
    ASSUME LifeInv, NEW h \in Handles, failed' = h, pc' \in {"leave", "terminated"},
           List(todo'), ToSet(todo') \subseteq Calls, CallsOK', pc' = "terminated" => todo' = <<>>,
           status[Device] \in {"none", "live"}, old' = Null,
           pc' = "leave" => h \in RunSet \/ (h[1] \in Chains /\ chain = Null),
           UNCHANGED <<status, chain, entities, twice, stray>>
    PROVE  Kept' /\ ReleasedBeforeDevice'
<1> USE DEF LifeInv
<1>1. LifeTypes'
    BY DEF LifeTypes, Phases, Ends
<1>2. RecycledOK'
    BY DEF RecycledOK
<1>3. FailedOK'
    BY DEF FailedOK
<1>4. ChainOK'
    BY Apart DEF ChainOK
<1>5. NoStrayCalls' /\ DestroyedOnce' /\ ReleasedBeforeDevice'
    BY DEF NoStrayCalls, DestroyedOnce, ReleasedBeforeDevice
<1> QED
    BY <1>1, <1>2, <1>3, <1>4, <1>5 DEF Kept

(* An object of run fails: the locals of run go (application.cpp:35-79, main.cpp:13). *)
LEMMA RunFails ==
    ASSUME LifeInv, NEW h \in RunSet, failed' = h, pc' = "leave", todo' = Destroy(<<>> \o RunGone(h)),
           old' = Null, UNCHANGED <<status, chain, entities, twice, stray>>,
           Orderly(h), chain \in Chains, entities = ToSet(Loaded),
           AllLive(AppSet \cup ChainSet(chain)), AllIn(ImGuiSet, {"none", "live"}),
           \A k \in ChainSet(Other(chain)) : status[k] # "live"
    PROVE  LifeInv'
<1> DEFINE t == RunGone(h)
           u == <<>> \o t
           R == RunSet \ ImGuiSet
<1>1. /\ h \in Handles /\ R \subseteq Handles /\ R \subseteq Doomed /\ Doomed' = Doomed
      /\ Handles = AppSet \cup RunSet \cup ChainSet(chain) \cup ChainSet(Other(chain))
      /\ Device \in AppSet
    <2>1. /\ AppSet \cap RunSet = {} /\ Base \cap ChainSet(chain) = {} /\ Base \subseteq Handles
          /\ Handles = Base \cup ChainSet(chain) \cup ChainSet(Other(chain)) /\ Device \in AppSet
        BY Apart, Parts
    <2>2. Doomed' = Doomed
        BY DEF Doomed
    <2> HIDE DEF Handles, AppSet, RunSet, ImGuiSet, ChainSet, Chains
    <2>3. R \subseteq Doomed
        BY <2>1 DEF Doomed, Base
    <2> QED
        BY <2>1, <2>2, <2>3 DEF Base
<1>2. Proper(t, R) /\ \A k \in R : Live(k) /\ k[1] # h[1] => k \in ToSet(t)
    BY RunGoneShape
<1>3. Proper(u, R) /\ ToSet(u) = ToSet(t)
    <2>1. Proper(<<>>, {}) /\ {} \cup R = R /\ ToSet(<<>>) = {} /\ {} \cap R = {}
        BY ProperShort, ListOf0
    <2> HIDE DEF t, R
    <2>2. Proper(<<>> \o t, {} \cup R) /\ ToSet(<<>> \o t) = ToSet(<<>>) \cup ToSet(t)
        BY <1>2, <2>1, ProperCat
    <2> QED
        BY <2>1, <2>2
<1>4. todo' = Destroy(u)
    OBVIOUS
<1> HIDE DEF t, u, Handles, AppSet, RunSet, ImGuiSet, ChainSet, Chains, Doomed
<1>5. /\ List(todo') /\ ToSet(todo') \subseteq Calls /\ CallsOK'
      /\ ToSet(todo') = {<<"destroy", k>> : k \in ToSet(u)} /\ ToSet(u) \subseteq R
      /\ \A k : (Breaks(k)' <=> k \in ToSet(u)) /\ ~Makes(k)'
    <2> HIDE DEF R
    <2> QED
        BY <1>1, <1>3, <1>4, DestroyCalls
<1>6. OnlyBreaks(Doomed)'
    BY <1>1, <1>5 DEF OnlyBreaks
<1>7. AllLive(AppSet)' /\ AllIn(ImGuiSet, {"none", "live"})' /\ AllLive(ChainSet(chain))'
    BY DEF AllLive, AllIn
<1>8. OthersGo(AppSet \cup ImGuiSet \cup ChainSet(chain))'
    <2> SUFFICES ASSUME NEW k \in Handles, status[k] = "live", k \notin AppSet \cup ImGuiSet \cup ChainSet(chain),
                        ~OfFailed(k)'
                 PROVE  Breaks(k)'
        BY DEF OthersGo
    <2>1. k \in R
        BY <1>1
    <2>2. Live(k) /\ k[1] # h[1]
        BY DEF Live, OfFailed
    <2> QED
        BY <1>2, <1>3, <1>5, <2>1, <2>2
<1>9. Leaving'
    BY <1>6, <1>7, <1>8 DEF Leaving
<1>10. Kept' /\ ReleasedBeforeDevice'
    <2>1. status[Device] = "live"
        BY <1>1 DEF AllLive, AllIn
    <2> QED
        BY <1>1, <1>5, <2>1, FailKeeps
<1> QED
    BY <1>9, <1>10 DEF LifeInv, Kept, PhaseInv

(* A new swap chain fails: what it has is lost, the old one goes, the locals of run go
   (swapchain.cpp:42-50, renderer.cpp:103-117).                             *)
LEMMA ChainFails ==
    ASSUME LifeInv, Recreating, NEW h \in ChainSet(Other(old)), failed' = h, pc' = "leave",
           todo' = Destroy((ImagesGone(h[1]) \o ChainGone(old)) \o RunGone(h)),
           old' = Null, UNCHANGED <<status, chain, entities, twice, stray>>
    PROVE  LifeInv'
<1> DEFINE n == Other(old)
           r == ImagesGone(h[1])
           s == ChainGone(old)
           t == RunGone(h)
           u == (r \o s) \o t
           R == RunSet \ ImGuiSet
           D == ChainSet(n) \cup ChainSet(old) \cup R
<1>0. /\ chain = Null /\ old \in Chains /\ n \in Chains /\ n # old /\ failed = NoHandle /\ entities = ToSet(Loaded)
      /\ AllLive(Base \cup ChainSet(old)) /\ AllIn(ChainSet(n), {"none", "live"})
    BY ChainsDistinct DEF Recreating
<1>1. /\ h \in Handles /\ D \subseteq Handles /\ h[1] = n
      /\ AppSet \cup RunSet = Base /\ Base \subseteq Handles
      /\ Handles = AppSet \cup RunSet \cup ChainSet(old) \cup ChainSet(n)
      /\ Device \in AppSet
      /\ ChainSet(n) \cap ChainSet(old) = {} /\ (ChainSet(n) \cup ChainSet(old)) \cap R = {}
      /\ ChainSet(Null) \cap Handles = {}
    <2>1. Device \in AppSet /\ h[1] = n
        BY Parts, ChainOwner
    <2> HIDE DEF Handles, AppSet, RunSet, ImGuiSet, ChainSet, Chains
    <2>2. /\ Base \cap ChainSet(old) = {} /\ Base \cap ChainSet(n) = {} /\ ChainSet(old) \cap ChainSet(n) = {}
          /\ Handles = Base \cup ChainSet(old) \cup ChainSet(n) /\ ChainSet(Null) \cap Handles = {}
        BY <1>0, Apart
    <2> QED
        BY <2>1, <2>2 DEF Base
<1>2. Proper(t, R) /\ \A k \in R : Live(k) /\ k[1] # h[1] => k \in ToSet(t)
    <2>1. AllLive(RunSet)
        BY <1>0 DEF AllLive, AllIn, Base
    <2> HIDE DEF RunSet, ImGuiSet
    <2> QED
        BY <2>1, OrderlyRun, RunGoneShape
<1>3. Proper(s, ChainSet(old)) /\ (\A k \in ChainSet(old) : Live(k) => k \in ToSet(s)) /\ Proper(r, ChainSet(n))
    <2>1. /\ \A k \in ChainSet(old) \cap Handles : status[k] # "recycled"
          /\ \A k \in ChainSet(n) \cap Handles : status[k] # "recycled"
        BY <1>0 DEF AllLive, AllIn
    <2> HIDE DEF ChainSet, Chains, Handles
    <2>2. Proper(ImagesGone(n), ChainSet(n) \ {SwapchainKHR(n)})
        BY <1>0, <2>1, ChainShape
    <2>3. Proper(r, ChainSet(n))
        BY <1>1, <2>2, ProperWider
    <2> QED
        BY <1>0, <2>1, <2>3, ChainShape
<1> HIDE DEF n, r, s, t, ChainSet, Chains, Handles, AppSet, RunSet, ImGuiSet
<1>4. Proper(r \o s, ChainSet(n) \cup ChainSet(old)) /\ ToSet(r \o s) = ToSet(r) \cup ToSet(s)
    BY <1>1, <1>3, ProperCat
<1>5. Proper(u, D) /\ ToSet(u) = ToSet(r) \cup ToSet(s) \cup ToSet(t)
    <2> DEFINE v == r \o s
               V == ChainSet(n) \cup ChainSet(old)
    <2> HIDE DEF v, V, R
    <2>1. Proper(v \o t, V \cup R) /\ ToSet(v \o t) = ToSet(v) \cup ToSet(t)
        BY <1>1, <1>2, <1>4, ProperCat DEF v, V
    <2> QED
        BY <1>4, <2>1 DEF v, V
<1>6. todo' = Destroy(u)
    BY DEF r, s, t
<1> HIDE DEF u
<1>7. /\ List(todo') /\ ToSet(todo') \subseteq Calls /\ CallsOK'
      /\ ToSet(todo') = {<<"destroy", k>> : k \in ToSet(u)} /\ ToSet(u) \subseteq D
      /\ \A k : (Breaks(k)' <=> k \in ToSet(u)) /\ ~Makes(k)'
    <2> HIDE DEF D
    <2> QED
        BY <1>1, <1>5, <1>6, DestroyCalls
<1>8. OnlyBreaks(Doomed)'
    <2>1. Doomed' = (R \cup ChainSet(Chain(0)) \cup ChainSet(Chain(1))) \ ChainSet(Null)
        BY <1>0 DEF Doomed
    <2>2. old \in {Chain(0), Chain(1)} /\ n \in {Chain(0), Chain(1)}
        BY <1>0 DEF Chains
    <2>3. D \subseteq Doomed'
        BY <1>1, <2>1, <2>2
    <2> QED
        BY <1>7, <2>3 DEF OnlyBreaks
<1>9. AllLive(AppSet)' /\ AllIn(ImGuiSet, {"none", "live"})'
    <2>1. AppSet \subseteq Base /\ ImGuiSet \subseteq Base
        BY <1>1, Parts
    <2> QED
        BY <1>0, <2>1 DEF AllLive, AllIn
<1>10. OthersGo(AppSet \cup ImGuiSet \cup ChainSet(chain))'
    <2> SUFFICES ASSUME NEW k \in Handles, status[k] = "live", k \notin AppSet \cup ImGuiSet, ~OfFailed(k)'
                 PROVE  Breaks(k)'
        BY DEF OthersGo
    <2>1. Live(k) /\ k[1] # h[1]
        BY DEF Live, OfFailed
    <2>2. k \notin ChainSet(n)
        BY <1>1, <2>1, ChainOwner
    <2>3. k \in R \/ k \in ChainSet(old)
        BY <1>1, <2>2
    <2> QED
        BY <1>2, <1>3, <1>5, <1>7, <2>1, <2>3
<1>11. Leaving'
    BY <1>0, <1>8, <1>9, <1>10 DEF Leaving
<1>12. Kept' /\ ReleasedBeforeDevice'
    <2>1. status[Device] = "live" /\ h[1] \in Chains
        BY <1>0, <1>1 DEF AllLive, AllIn
    <2> QED
        BY <1>0, <1>1, <1>7, <2>1, FailKeeps
<1> QED
    BY <1>11, <1>12 DEF LifeInv, Kept, PhaseInv

(* Whatever fails, the invariant stays. *)
LEMMA CreateFailsStep == LifeInv /\ CreateFails => LifeInv'
<1> SUFFICES ASSUME LifeInv, CreateFails PROVE LifeInv'
    OBVIOUS
<1> DEFINE h == Head(todo)[2]
<1>0. LifeTypes /\ PhaseInv
    BY DEF LifeInv
<1>1. /\ todo # <<>> /\ Head(todo)[1] = "create" /\ failed' = h /\ old' = Null
      /\ UNCHANGED <<status, chain, entities, twice, stray>>
    BY DEF CreateFails
<1>2. Head(todo) \in ToSet(todo) /\ Head(todo) = <<"create", h>>
    BY <1>0, <1>1, TailShape DEF LifeTypes, Calls
<1>3. pc \in Creating
    <2>1. pc \notin {"loop", "leave", "destroy", "entities", "members"} /\ pc \notin Ends
        BY <1>0, <1>1, <1>2 DEF PhaseInv, Looping, Leaving, Destroying, DestroyingEntities, DestroyingMembers,
                          OnlyBreaks, LifeTypes
    <2> QED
        BY <1>0, <2>1 DEF LifeTypes, Phases, Creating
<1>4. CASE pc = "construct"
    <2>1. pc' = "terminated" /\ todo' = <<>>
        BY <1>4 DEF CreateFails
    <2>2. Constructing
        BY <1>0, <1>4 DEF PhaseInv
    <2>3. h \in AppSet \cup ChainSet(Chain(0))
        BY <1>2, <2>2 DEF Constructing, OnlyMakes
    <2>4. status[Device] \in {"none", "live"}
        BY <2>2, Parts DEF Constructing, AllIn
    <2>5. h \in Handles
        <3> HIDE DEF Handles, h, AppSet, ChainSet
        <3> QED
            BY <2>3, HandlesAre DEF Base
    <2>6. List(todo') /\ ToSet(todo') \subseteq Calls /\ CallsOK'
        BY <2>1, NoCalls
    <2> HIDE DEF h, Handles
    <2>7. Kept' /\ ReleasedBeforeDevice'
        BY <1>1, <2>1, <2>4, <2>5, <2>6, FailKeeps
    <2> QED
        BY <2>1, <2>7 DEF LifeInv, Kept, PhaseInv
<1>5. CASE pc # "construct"
    <2>1. pc' = "leave" /\ todo' = Destroy(Unwound(failed'))
        BY <1>5 DEF CreateFails
    <2>2. todo' = Destroy((IF pc = "recreate" THEN ImagesGone(h[1]) \o ChainGone(old) ELSE <<>>) \o RunGone(h))
        BY <1>1, <2>1 DEF Unwound
    <2>3. CASE pc = "enter"
        <3>1. Entering
            BY <1>0, <2>3 DEF PhaseInv
        <3>2. Orderly(h) /\ h \in RunSet
            <4> HIDE DEF h, Entering, LifeTypes
            <4> QED
                BY <1>0, <1>1, <1>2, <3>1, OrderlyEnter
        <3>3. todo' = Destroy(<<>> \o RunGone(h))
            BY <2>2, <2>3
        <3>4. /\ chain = Chain(0) /\ chain \in Chains /\ Other(chain) = Chain(1) /\ entities = ToSet(Loaded)
              /\ AllLive(AppSet \cup ChainSet(chain)) /\ \A k \in ChainSet(Other(chain)) : status[k] # "live"
            BY <3>1 DEF Entering, AllLive, AllIn, Other, Chains
        <3>5. AllIn(ImGuiSet, {"none", "live"})
            BY <3>1, Parts DEF Entering, AllIn
        <3> HIDE DEF h, RunSet, Chains, ChainSet, AppSet, ImGuiSet
        <3> QED
            BY <1>1, <2>1, <3>2, <3>3, <3>4, <3>5, RunFails
    <2>4. CASE pc = "toggle"
        <3>1. Toggling
            BY <1>0, <2>4 DEF PhaseInv
        <3>2. Orderly(h) /\ h \in Rebuilt
            <4> HIDE DEF h, Toggling, LifeTypes
            <4> QED
                BY <1>0, <1>1, <1>2, <3>1, OrderlyToggle
        <3>3. todo' = Destroy(<<>> \o RunGone(h))
            BY <2>2, <2>4
        <3>4. /\ chain \in Chains /\ entities = ToSet(Loaded) /\ AllLive((Base \cup ChainSet(chain)) \ Rebuilt)
              /\ \A k \in ChainSet(Other(chain)) : status[k] # "live"
            BY <3>1 DEF Toggling, AllIn
        <3>5. /\ AppSet \cap Rebuilt = {} /\ ChainSet(chain) \cap Rebuilt = {} /\ ImGuiSet \cap Rebuilt = {}
              /\ AppSet \cup ImGuiSet \subseteq Base /\ h \in RunSet
            <4>1. /\ Rebuilt \subseteq RunSet /\ Rebuilt \cap ImGuiSet = {} /\ ImGuiSet \subseteq RunSet
                  /\ AppSet \cap RunSet = {} /\ Base \cap ChainSet(chain) = {}
                BY <3>4, Apart, Parts
            <4> HIDE DEF h, Rebuilt, RunSet, ChainSet, AppSet, ImGuiSet
            <4> QED
                BY <3>2, <4>1 DEF Base
        <3> HIDE DEF h, RunSet, Chains, ChainSet, AppSet, ImGuiSet, Rebuilt, Base
        <3>6. AllLive(AppSet \cup ChainSet(chain)) /\ AllIn(ImGuiSet, {"none", "live"})
            BY <3>4, <3>5 DEF AllLive, AllIn
        <3> QED
            BY <1>1, <2>1, <3>2, <3>3, <3>4, <3>5, <3>6, RunFails
    <2>5. CASE pc = "recreate"
        <3>1. Recreating
            BY <1>0, <2>5 DEF PhaseInv
        <3>2. h \in ChainSet(Other(old))
            BY <1>2, <3>1 DEF Recreating, OnlyMakes
        <3>3. todo' = Destroy((ImagesGone(h[1]) \o ChainGone(old)) \o RunGone(h))
            BY <2>2, <2>5
        <3> HIDE DEF h, Recreating, ChainSet
        <3> QED
            BY <1>1, <2>1, <3>1, <3>2, <3>3, ChainFails
    <2> QED
        BY <1>3, <1>5, <2>3, <2>4, <2>5 DEF Creating
<1> QED
    BY <1>4, <1>5

-----------------------------------------------------------------------------
(* The end of the application                                              *)

(* Device::del (device.cpp:45-52). *)
LEMMA DeviceDelShape ==
    ASSUME \A k \in DeviceSet : status[k] # "recycled"
    PROVE  Proper(DeviceDel, DeviceSet) /\ ToSet(DeviceDel) = DeviceSet
<1>1. List(DeviceDel) /\ ToSet(DeviceDel) = DeviceSet
    BY ListOf4 DEF DeviceDel, DeviceSet, DeviceHandles
<1>2. \A k \in DeviceSet : ~Single(k)
    BY NotSingle
<1> HIDE DEF DeviceDel, DeviceSet, Single
<1> QED
    BY <1>1, <1>2, OnceNone DEF Proper, Callable

(* The descriptor pools go (application.cpp:24-25). *)
LEMMA PoolsGone ==
    ASSUME AllLive(PoolSet)
    PROVE  Proper(Pools, PoolSet) /\ ToSet(Pools) = PoolSet
<1> DEFINE s == [n \in 1 .. FrameCount |-> Pool(n)]
           X == {Pool(n) : n \in 1 .. FrameCount}
<1>1. s \in Seq(X) /\ Len(s) = FrameCount /\ \A n \in 1 .. FrameCount : s[n] = Pool(n)
    BY LifetimesAssumption
<1>2. \A m, n \in 1 .. FrameCount : Pool(m) = Pool(n) => m = n
    BY DEF Pool
<1>3. GlobalPool \notin X
    BY DEF GlobalPool, Pool
<1>4. PoolSet = {GlobalPool} \cup X /\ Pools = <<GlobalPool>> \o s
    BY DEF PoolSet, Pools
<1>5. ToSet(s) = X
    BY DEF ToSet
<1>6. \A k \in PoolSet : Callable(k)
    BY DEF AllLive, AllIn, Callable
<1> HIDE DEF s, X, Callable, Single
<1>7. List(s) /\ ToSet(s) \subseteq X
    BY <1>1, SeqList
<1>8. OnceIn(s)
    BY <1>1, <1>2 DEF OnceIn
<1>9. Proper(s, X)
    BY <1>4, <1>6, <1>7, <1>8 DEF Proper
<1>10. Proper(<<GlobalPool>>, {GlobalPool}) /\ ToSet(<<GlobalPool>>) = {GlobalPool}
    BY <1>4, <1>6, ProperShort
<1>11. {GlobalPool} \cap X = {}
    BY <1>3
<1>12. Proper(<<GlobalPool>> \o s, {GlobalPool} \cup X) /\ ToSet(<<GlobalPool>> \o s) = ToSet(<<GlobalPool>>) \cup ToSet(s)
    BY <1>9, <1>10, <1>11, ProperCat
<1> QED
    BY <1>4, <1>5, <1>10, <1>12

(* ~Application: the pools, ImGui's pool, the command buffers and the swap chain before
   the device, and ImGui's backend after it (application.cpp:20-33).       *)
LEMMA ApplicationGoneShape ==
    ASSUME chain \in Chains \cup {Null}, AllLive(AppSet), AllIn(ImGuiSet, {"none", "live"}),
           \A k \in ChainSet(chain) \cap Handles : status[k] # "recycled"
    PROVE  \E p :
              LET s == (p \o DeviceDel) \o <<ImGuiBackend>>
                  P == PoolSet \cup {ImGuiPool, CommandBuffers} \cup ChainSet(chain)
              IN  /\ ApplicationGone = s
                  /\ Proper(s, (AppSet \ (EntitySet \cup {WindowHandle})) \cup ImGuiSet \cup ChainSet(chain))
                  /\ List(p) /\ ToSet(p) \subseteq P /\ \A k \in P : Live(k) => k \in ToSet(p)
                  /\ <<chain, "view", "swapchain">> \in ToSet(p)
                  /\ ToSet(s) = ToSet(p) \cup DeviceSet \cup {ImGuiBackend}
<1> DEFINE a == Pools
           b == QueueFlush
           c == <<CommandBuffers>>
           d == ChainDel(chain)
           e == DeviceDel
           f == <<ImGuiBackend>>
           ab == a \o b
           abc == ab \o c
           p == abc \o d
           q == p \o e
           s == q \o f
           C == ChainSet(chain)
           P == PoolSet \cup {ImGuiPool, CommandBuffers} \cup C
           W == (AppSet \ (EntitySet \cup {WindowHandle})) \cup ImGuiSet \cup C
<1>1. ApplicationGone = s
    BY DEF ApplicationGone
<1>2. /\ PoolSet \subseteq AppSet /\ DeviceSet \subseteq AppSet /\ CommandBuffers \in AppSet
      /\ ImGuiPool \in ImGuiSet /\ ImGuiBackend \in ImGuiSet /\ ImGuiSet = {ImGuiPool, ImGuiBackend}
      /\ ImGuiPool # ImGuiBackend
    BY DEF AppSet, ImGuiSet, ImGuiPool, ImGuiBackend
<1>3. Proper(a, PoolSet) /\ ToSet(a) = PoolSet
    BY <1>2, PoolsGone DEF AllLive, AllIn
<1>4. Proper(e, DeviceSet) /\ ToSet(e) = DeviceSet
    <2>1. \A k \in DeviceSet : status[k] # "recycled"
        BY <1>2 DEF AllLive, AllIn
    <2> QED
        BY <2>1, DeviceDelShape
<1>5. Proper(d, C) /\ (\A k \in C : Live(k) => k \in ToSet(d)) /\ <<chain, "view", "swapchain">> \in ToSet(d)
    <2> HIDE DEF ChainSet, Chains, Handles
    <2> QED
        BY ChainShape
<1>6. Callable(CommandBuffers) /\ Callable(ImGuiBackend) /\ (Live(ImGuiPool) => Callable(ImGuiPool))
    BY <1>2 DEF AllLive, AllIn, Callable, Live
<1>7. Live(ImGuiPool) \in BOOLEAN
    BY DEF Live
<1>8. /\ PoolSet \cap {ImGuiPool} = {} /\ (PoolSet \cup {ImGuiPool}) \cap {CommandBuffers} = {}
      /\ (PoolSet \cup {ImGuiPool} \cup {CommandBuffers}) \cap C = {}
      /\ (PoolSet \cup {ImGuiPool} \cup {CommandBuffers} \cup C) \cap DeviceSet = {}
      /\ (PoolSet \cup {ImGuiPool} \cup {CommandBuffers} \cup C \cup DeviceSet) \cap {ImGuiBackend} = {}
      /\ PoolSet \cup {ImGuiPool} \cup {CommandBuffers} \cup C \cup DeviceSet \cup {ImGuiBackend} \subseteq W
    <2>1. AppSet \cap C = {} /\ ImGuiSet \cap C = {} /\ AppSet \cap ImGuiSet = {}
        BY AppApart
    <2> HIDE DEF C, PoolSet, DeviceSet, AppSet, ImGuiSet, ImGuiPool, ImGuiBackend, CommandBuffers, EntitySet, WindowHandle
    <2> QED
        BY <1>2, <2>1, AppParts
<1>9. Proper(b, {ImGuiPool}) /\ ToSet(b) = IF Live(ImGuiPool) THEN {ImGuiPool} ELSE {}
    <2>1. Live(ImGuiPool) => Proper(<<ImGuiPool>>, {ImGuiPool}) /\ ToSet(<<ImGuiPool>>) = {ImGuiPool}
        BY <1>6, ProperShort
    <2> HIDE DEF Live
    <2> QED
        BY <1>7, <2>1, ProperIf DEF QueueFlush
<1>10. Proper(c, {CommandBuffers}) /\ ToSet(c) = {CommandBuffers} /\ Proper(f, {ImGuiBackend}) /\ ToSet(f) = {ImGuiBackend}
    BY <1>6, ProperShort
<1> HIDE DEF a, b, c, d, e, f, C, PoolSet, DeviceSet, ImGuiPool, ImGuiBackend, CommandBuffers, Single, Live
<1>11. Proper(ab, PoolSet \cup {ImGuiPool}) /\ ToSet(ab) = ToSet(a) \cup ToSet(b)
    BY <1>3, <1>8, <1>9, ProperCat
<1> HIDE DEF ab
<1>12. Proper(abc, PoolSet \cup {ImGuiPool} \cup {CommandBuffers}) /\ ToSet(abc) = ToSet(ab) \cup ToSet(c)
    BY <1>8, <1>10, <1>11, ProperCat
<1> HIDE DEF abc
<1>13. Proper(p, PoolSet \cup {ImGuiPool} \cup {CommandBuffers} \cup C) /\ ToSet(p) = ToSet(abc) \cup ToSet(d)
    BY <1>5, <1>8, <1>12, ProperCat
<1> HIDE DEF p
<1>14. Proper(q, PoolSet \cup {ImGuiPool} \cup {CommandBuffers} \cup C \cup DeviceSet) /\ ToSet(q) = ToSet(p) \cup ToSet(e)
    BY <1>4, <1>8, <1>13, ProperCat
<1> HIDE DEF q
<1>15. /\ Proper(s, PoolSet \cup {ImGuiPool} \cup {CommandBuffers} \cup C \cup DeviceSet \cup {ImGuiBackend})
       /\ ToSet(s) = ToSet(q) \cup ToSet(f)
    BY <1>8, <1>10, <1>14, ProperCat
<1> HIDE DEF s, W
<1>16. Proper(s, W)
    BY <1>8, <1>15, ProperWider
<1>17. ToSet(s) = ToSet(p) \cup DeviceSet \cup {ImGuiBackend}
    BY <1>4, <1>10, <1>14, <1>15
<1>18. List(p) /\ ToSet(p) \subseteq P
    BY <1>13 DEF Proper
<1>19. \A k \in P : Live(k) => k \in ToSet(p)
    BY <1>3, <1>5, <1>9, <1>10, <1>11, <1>12, <1>13
<1>20. <<chain, "view", "swapchain">> \in ToSet(p)
    BY <1>5, <1>13
<1>21. s = (p \o DeviceDel) \o <<ImGuiBackend>>
    BY DEF s, q, e, f
<1> HIDE DEF P
<1> QED
    BY <1>1, <1>16, <1>17, <1>18, <1>19, <1>20, <1>21 DEF W, P, C

(* ~Application is called for the application when main ends (main.cpp:9). *)
LEMMA DestroyApplicationStep == LifeInv /\ DestroyApplication => LifeInv'
<1> SUFFICES ASSUME LifeInv, DestroyApplication PROVE LifeInv'
    OBVIOUS
<1> DEFINE C == ChainSet(chain)
           P == PoolSet \cup {ImGuiPool, CommandBuffers} \cup C
           W == (AppSet \ (EntitySet \cup {WindowHandle})) \cup ImGuiSet \cup C
           S == EntitySet \cup {WindowHandle}
           D(p) == (p \o DeviceDel) \o <<ImGuiBackend>>
<1>0. /\ pc = "leave" /\ todo = <<>> /\ pc' = "destroy" /\ todo' = Destroy(ApplicationGone)
      /\ UNCHANGED <<status, chain, old, entities, failed, twice, stray>>
    BY DEF DestroyApplication, Becomes
<1>1. LifeTypes /\ Leaving /\ RecycledOK
    BY <1>0 DEF LifeInv, PhaseInv
<1>2. /\ chain \in Chains \cup {Null} /\ old = Null /\ entities = ToSet(Loaded)
      /\ AllLive(AppSet) /\ AllIn(ImGuiSet, {"none", "live"}) /\ OthersGo(AppSet \cup ImGuiSet \cup C)
    BY <1>1 DEF Leaving, LifeTypes
<1>3. /\ \A k \in Handles : status[k] = "live" => OfFailed(k) \/ k \in AppSet \cup ImGuiSet \cup C
    BY <1>0, <1>2, NothingToDo DEF OthersGo
<1>4. /\ AppSet \cap C = {} /\ ImGuiSet \cap C = {} /\ AppSet \cap ImGuiSet = {} /\ C \cap Rebuilt = {}
      /\ AppSet \cup ImGuiSet \subseteq Handles
    <2>1. AppSet \cap C = {} /\ ImGuiSet \cap C = {} /\ AppSet \cap ImGuiSet = {} /\ RunSet \cap C = {}
        BY <1>2, AppApart
    <2> HIDE DEF C, AppSet, RunSet, ImGuiSet, Rebuilt, Handles
    <2> QED
        BY <2>1, Parts DEF Base
<1>5. \A k \in C \cap Handles : status[k] # "recycled"
    BY <1>1, <1>4 DEF RecycledOK
<1>6. PICK p : /\ ApplicationGone = D(p) /\ Proper(D(p), W)
               /\ List(p) /\ ToSet(p) \subseteq P /\ \A k \in P : Live(k) => k \in ToSet(p)
               /\ <<chain, "view", "swapchain">> \in ToSet(p)
               /\ ToSet(D(p)) = ToSet(p) \cup DeviceSet \cup {ImGuiBackend}
    <2> HIDE DEF Chains, AppSet, ImGuiSet, ChainSet, Handles, EntitySet
    <2> QED
        BY <1>2, <1>5, ApplicationGoneShape
<1> DEFINE s == D(p)
<1>7. /\ DeviceSet \cap P = {} /\ S \subseteq AppSet /\ S \cap DeviceSet = {}
      /\ AppSet = S \cup DeviceSet \cup PoolSet \cup {CommandBuffers}
      /\ ImGuiSet = {ImGuiPool, ImGuiBackend} /\ W \subseteq Handles \cup ChainSet(Null)
      /\ DeviceSet \subseteq Handles /\ Device \in DeviceSet /\ ImGuiBackend \notin DeviceSet
    <2>1. C \subseteq Handles \cup ChainSet(Null)
        <3>1. C = ChainSet(Null) \/ C \subseteq Handles
            BY <1>2, Apart
        <3> HIDE DEF C, Handles, ChainSet
        <3> QED
            BY <3>1
    <2>2. AppSet = S \cup DeviceSet \cup PoolSet \cup {CommandBuffers}
        BY DEF AppSet
    <2>3. ImGuiSet = {ImGuiPool, ImGuiBackend} /\ Device \in DeviceSet
        BY Parts DEF ImGuiSet
    <2> HIDE DEF C, Handles, ChainSet, DeviceSet, PoolSet, EntitySet, WindowHandle, CommandBuffers, ImGuiPool, ImGuiBackend, AppSet, Device, ImGuiSet
    <2> QED
        BY <1>4, <2>1, <2>2, <2>3, AppParts
<1>8. Proper(s, W) /\ todo' = Destroy(s)
    BY <1>0, <1>6
<1> HIDE DEF s, W, C, Handles, ChainSet, Chains
<1>9. /\ List(todo') /\ ToSet(todo') \subseteq Calls /\ CallsOK'
      /\ ToSet(todo') = {<<"destroy", k>> : k \in ToSet(s)} /\ ToSet(s) \subseteq W
      /\ \A k : (Breaks(k)' <=> k \in ToSet(s)) /\ ~Makes(k)'
    BY <1>0, <1>7, <1>8, DestroyCalls
<1>10. W' = W
    BY <1>0 DEF W, C
<1>11. OnlyBreaks(W)'
    BY <1>9, <1>10 DEF OnlyBreaks
<1>12. AllLive(S)'
    BY <1>0, <1>2, <1>7 DEF AllLive, AllIn
<1>13. chain' = Null => Breaks(<<Null, "view", "swapchain">>)'
    BY <1>0, <1>6, <1>9 DEF s
<1>14. OthersGo(S)'
    <2> SUFFICES ASSUME NEW k \in Handles, status[k] = "live", k \notin S, ~OfFailed(k) PROVE Breaks(k)'
        BY <1>0 DEF OthersGo, OfFailed
    <2>1. k \in P \cup DeviceSet \cup {ImGuiBackend}
        <3>1. k \in AppSet \cup ImGuiSet \cup C
            BY <1>3
        <3> HIDE DEF S, DeviceSet, PoolSet, AppSet, ImGuiSet, ImGuiPool, ImGuiBackend, CommandBuffers
        <3> QED
            BY <1>7, <3>1
    <2>2. k \in ToSet(s)
        BY <1>6, <2>1 DEF Live, s
    <2> QED
        BY <1>9, <2>2
<1>15. DeviceLast'
    <2> DEFINE n == Len(p)
               X == Handles \ (HeldLonger \cup {WindowHandle, DeviceHandles[1], DeviceHandles[2], Device})
               q == p \o DeviceDel
    <2>1. List(DeviceDel) /\ Len(DeviceDel) = 4 /\ DeviceDel[1] = DeviceHandles[4] /\ DeviceDel[1] # Device
        <3>1. DeviceDel = <<DeviceHandles[4], DeviceHandles[3], DeviceHandles[2], DeviceHandles[1]>>
            BY DEF DeviceDel
        <3> QED
            BY <3>1, ListOf4 DEF DeviceHandles, Device
    <2>2. /\ List(q) /\ Len(q) = n + 4 /\ n \in Nat
          /\ \A i \in 1 .. n : q[i] = p[i] /\ p[i] \in ToSet(p)
          /\ q[n + 1] = DeviceHandles[4]
          /\ ToSet(p) = {p[i] : i \in 1 .. n}
        <3>1. /\ List(q) /\ Len(q) = n + Len(DeviceDel) /\ n \in Nat
              /\ \A i \in 1 .. n : q[i] = p[i] /\ p[i] \in ToSet(p)
              /\ \A i \in 1 .. Len(DeviceDel) : q[n + i] = DeviceDel[i]
              /\ ToSet(p) = {p[i] : i \in 1 .. n}
            <4>1. List(p) /\ List(DeviceDel)
                BY <1>6, <2>1
            <4>2. Len(p) \in Nat /\ DOMAIN p = 1 .. Len(p) /\ ToSet(p) = {p[i] : i \in 1 .. Len(p)}
                BY <4>1, ListShape
            <4> HIDE DEF DeviceDel
            <4>3. /\ List(p \o DeviceDel) /\ Len(p \o DeviceDel) = Len(p) + Len(DeviceDel)
                  /\ \A i \in 1 .. Len(p) : (p \o DeviceDel)[i] = p[i]
                  /\ \A i \in 1 .. Len(DeviceDel) : (p \o DeviceDel)[Len(p) + i] = DeviceDel[i]
                BY <4>1, CatShape
            <4>4. \A i \in 1 .. Len(p) : p[i] \in ToSet(p)
                BY <4>2
            <4> QED
                BY <4>2, <4>3, <4>4
        <3>2. 1 \in 1 .. Len(DeviceDel)
            BY <2>1
        <3> QED
            BY <2>1, <3>1, <3>2
    <2>3. /\ Len(s) = n + 5
          /\ \A i \in 1 .. (n + 4) : s[i] = q[i]
        <3>1. List(<<ImGuiBackend>>) /\ Len(<<ImGuiBackend>>) = 1
            BY ListOf1
        <3>2. s = q \o <<ImGuiBackend>>
            BY DEF s
        <3> HIDE DEF q
        <3>3. Len(s) = Len(q) + 1 /\ \A i \in 1 .. Len(q) : s[i] = q[i]
            BY <2>2, <3>1, <3>2, CatShape
        <3> QED
            BY <2>2, <3>3
    <2>4. Len(todo') = n + 5 /\ \A i \in 1 .. (n + 5) : todo'[i] = <<"destroy", s[i]>>
        <3>1. List(s)
            BY <1>8 DEF Proper
        <3> QED
            BY <1>8, <2>3, <3>1, CallsShape
    <2> HIDE DEF q, n, DeviceDel, P
    <2> SUFFICES ASSUME NEW j \in 1 .. Len(todo'), todo'[j] = <<"destroy", Device>>,
                        NEW k \in X, status[k] = "live", ~OfFailed(k)
                 PROVE  \E i \in 1 .. (j - 1) : todo'[i] = <<"destroy", k>>
        <3>1. X' = X /\ status' = status
            BY <1>0
        <3> HIDE DEF X, Device
        <3>2. DeviceLast' <=> \A i \in 1 .. Len(todo') : todo'[i] = <<"destroy", Device>> =>
                 \A h \in X : status'[h] = "live" /\ ~OfFailed(h)' => \E m \in 1 .. (i - 1) : todo'[m] = <<"destroy", h>>
            BY DEF DeviceLast, X
        <3>3. \A h : OfFailed(h)' <=> OfFailed(h)
            BY <1>0 DEF OfFailed
        <3> QED
            BY <1>0, <3>2, <3>3
    <2>5. s[j] = Device /\ j \in 1 .. (n + 5)
        BY <2>4
    <2>6. j \notin 1 .. n
        <3> SUFFICES ASSUME j \in 1 .. n PROVE FALSE
            OBVIOUS
        <3>1. s[j] \in ToSet(p)
            BY <2>2, <2>3
        <3> HIDE DEF Device, DeviceSet
        <3> QED
            BY <1>6, <1>7, <2>5, <3>1
    <2>7. j # n + 1
        <3>1. s[n + 1] = DeviceHandles[4]
            BY <2>2, <2>3
        <3> QED
            BY <2>1, <2>5, <3>1
    <2>8. n + 1 \in 1 .. (j - 1) /\ \A i \in 1 .. n : i \in 1 .. (j - 1) /\ i \in 1 .. (n + 5) /\ i \in 1 .. (n + 4)
        BY <2>2, <2>5, <2>6, <2>7
    <2>9. k \in P \/ k = DeviceHandles[4]
        <3>1. k \in AppSet \cup ImGuiSet \cup C
            BY <1>3
        <3>2. HeldLonger = EntitySet \cup {ImGuiBackend}
            BY HeldLongerIs
        <3>3. DeviceSet = {DeviceHandles[1], DeviceHandles[2], Device, DeviceHandles[4]}
            BY DEF DeviceSet
        <3> HIDE DEF DeviceSet, PoolSet, AppSet, ImGuiSet, ImGuiPool, ImGuiBackend, CommandBuffers, Device, DeviceHandles, HeldLonger
        <3> QED
            BY <1>7, <3>1, <3>2, <3>3 DEF P
    <2>10. CASE k \in P
        <3>1. k \in ToSet(p)
            BY <1>6, <2>10 DEF Live, P
        <3>2. PICK i \in 1 .. n : p[i] = k
            BY <2>2, <3>1
        <3>3. todo'[i] = <<"destroy", k>>
            BY <2>2, <2>3, <2>4, <2>8, <3>2
        <3> QED
            BY <2>8, <3>3
    <2>11. CASE k = DeviceHandles[4]
        <3>1. n + 1 \in 1 .. (n + 5) /\ n + 1 \in 1 .. (n + 4)
            BY <2>2
        <3>2. todo'[n + 1] = <<"destroy", k>>
            BY <2>2, <2>3, <2>4, <2>11, <3>1
        <3> QED
            BY <2>8, <3>2
    <2> QED
        BY <2>9, <2>10, <2>11
<1>16. Destroying'
    BY <1>0, <1>2, <1>11, <1>12, <1>13, <1>14, <1>15 DEF Destroying, W, C
<1>17. Kept' /\ ReleasedBeforeDevice'
    <2>1. chain = Null => failed # NoHandle
        BY <1>0 DEF LifeInv, ChainOK
    <2> QED
        BY <1>0, <1>1, <1>2, <1>9, <2>1, PhaseKeeps DEF Phases, Ends, LifeTypes
<1> QED
    BY <1>0, <1>16, <1>17 DEF LifeInv, Kept, PhaseInv

(* Nothing of Application is left behind by a failure, unless the program ends with it. *)
LEMMA AppNotFailed ==
    ASSUME FailedOK, pc # "terminated", NEW h \in AppSet
    PROVE  ~OfFailed(h)
<1>1. h[1][1] \in AppKinds /\ h \in Handles
    BY AppOwners, Parts DEF Base
<1>2. CASE failed = NoHandle
    BY <1>1, <1>2, NoneFailed
<1>3. CASE failed # NoHandle
    <2>1. failed[1][1] \in RunKinds \/ failed[1] \in Chains
        BY <1>3, RunOwners DEF FailedOK
    <2>2. failed[1][1] \in RunKinds \cup {"swapChain"}
        BY <2>1, ChainsDistinct
    <2> QED
        BY <1>1, <2>2 DEF OfFailed, AppKinds, RunKinds
<1> QED
    BY <1>2, <1>3

(* The body of ~Application is done; it has not returned with a null swap chain, and
   the device is gone (application.cpp:20-33).                             *)
LEMMA DestroyMembersStep == LifeInv /\ DestroyMembers => LifeInv'
<1> SUFFICES ASSUME LifeInv, DestroyMembers PROVE LifeInv'
    OBVIOUS
<1>0. /\ pc = "destroy" /\ todo = <<>> /\ pc' = "entities" /\ todo' = <<>>
      /\ UNCHANGED <<status, chain, old, entities, failed, twice, stray>>
    BY DEF DestroyMembers, Becomes
<1>1. LifeTypes /\ Destroying /\ RecycledOK /\ FailedOK
    BY <1>0 DEF LifeInv, PhaseInv
<1>2. chain \in Chains /\ chain # Null
    <2>1. chain # Null
        BY <1>0, <1>1, NothingToDo DEF Destroying
    <2> QED
        BY <1>1, <2>1 DEF LifeTypes
<1>3. StillOwned = EntitySet /\ StillOwned' = EntitySet
    BY <1>0, <1>1 DEF StillOwned, EntitySet, Destroying
<1>4. OthersGo(EntitySet \cup {WindowHandle}) /\ AllLive(EntitySet \cup {WindowHandle})
    BY <1>1 DEF Destroying
<1>5. /\ DeviceSet \subseteq Handles /\ DeviceSet \subseteq AppSet /\ DeviceSet \cap Rebuilt = {}
      /\ DeviceSet \cap (EntitySet \cup {WindowHandle}) = {}
    <2>1. DeviceSet \subseteq AppSet /\ AppSet \subseteq Handles /\ Rebuilt \subseteq RunSet /\ AppSet \cap RunSet = {}
        BY Parts, Apart DEF Base
    <2> HIDE DEF DeviceSet, Handles, AppSet, Rebuilt, RunSet, EntitySet, WindowHandle
    <2> QED
        BY <2>1, AppParts
<1> HIDE DEF Handles, ChainSet, Chains, StillOwned, DeviceSet, EntitySet, WindowHandle, AppSet, Rebuilt
<1>6. AllIn(DeviceSet, {"none", "dead"})
    <2> SUFFICES ASSUME NEW k \in DeviceSet PROVE status[k] \in {"none", "dead"}
        BY DEF AllIn
    <2>1. status[k] # "recycled" /\ status[k] \in {"none", "live", "dead", "recycled"}
        BY <1>1, <1>5 DEF RecycledOK, LifeTypes
    <2>2. ~OfFailed(k)
        BY <1>0, <1>1, <1>5, AppNotFailed
    <2>3. status[k] # "live"
        BY <1>0, <1>4, <1>5, <2>2, NothingToDo DEF OthersGo
    <2> QED
        BY <2>1, <2>3
<1>7. List(todo') /\ ToSet(todo') \subseteq Calls /\ CallsOK' /\ ToSet(todo') = {}
    BY <1>0, NoCalls
<1>8. OthersGo(StillOwned \cup {WindowHandle})'
    <2> SUFFICES ASSUME NEW k \in Handles, status[k] = "live", k \notin EntitySet \cup {WindowHandle} PROVE OfFailed(k)'
        BY <1>0, <1>3 DEF OthersGo
    <2>1. OfFailed(k)
        BY <1>0, <1>4, NothingToDo DEF OthersGo
    <2> QED
        BY <1>0, <2>1 DEF OfFailed
<1>9. DestroyingEntities'
    BY <1>0, <1>1, <1>2, <1>3, <1>4, <1>6, <1>7, <1>8 DEF DestroyingEntities, Destroying, OnlyBreaks, AllLive, AllIn
<1>10. Kept' /\ ReleasedBeforeDevice'
    BY <1>0, <1>1, <1>2, <1>7, PhaseKeeps DEF Phases, Ends, LifeTypes
<1> QED
    BY <1>0, <1>9, <1>10 DEF LifeInv, Kept, PhaseInv

(* A Model takes the device with it once more, a Texture destroys its view twice
   (model.hpp:65, texture.cpp:10-13, image.cpp:27-31).                              *)
LEMMA EntityGoneShape ==
    ASSUME NEW e \in ToSet(Loaded), AllLive(EntityOf(e)), AllIn(DeviceSet, {"none", "dead"})
    PROVE  /\ Proper(EntityGone(e), EntityOf(e) \cup DeviceSet)
           /\ EntityOf(e) \subseteq ToSet(EntityGone(e))
<1>1. \A k \in EntityOf(e) : Callable(k) /\ (k \in Handles => Live(k))
    BY DEF AllLive, AllIn, Callable, Live
<1>2. EntityOf(e) \subseteq Handles /\ DeviceSet \cap EntityOf(e) = {}
    <2>1. EntityOf(e) \subseteq EntitySet /\ DeviceSet \cap EntitySet = {}
        BY AppParts
    <2>2. EntitySet \subseteq Handles
        BY Parts DEF Base
    <2> QED
        BY <2>1, <2>2
<1>3. CASE e[1] = "model"
    <2> DEFINE a == BufferOf(e, "index")
               b == BufferOf(e, "vertex")
               c == DeviceDel
               A == BufferSet(e, "index")
               B == BufferSet(e, "vertex")
    <2>1. EntityOf(e) = B \cup A /\ EntityGone(e) = (a \o b) \o c
        BY <1>3 DEF EntityOf, EntityGone
    <2>2. A \cap B = {}
        BY DEF BufferSet
    <2>3. ASSUME NEW part \in {"index", "vertex"}
          PROVE  Proper(BufferOf(e, part), BufferSet(e, part)) /\ ToSet(BufferOf(e, part)) = BufferSet(e, part)
        <3> DEFINE x == <<e, "buffer", part>>
                   y == <<e, "memory", part>>
        <3>1. x # y /\ BufferSet(e, part) = {x, y} /\ BufferOf(e, part) = <<x, y>>
            BY DEF BufferSet, BufferOf
        <3>2. x \in EntityOf(e) /\ y \in EntityOf(e)
            BY <2>1, <3>1
        <3> HIDE DEF x, y
        <3>3. Callable(x) /\ Callable(y)
            BY <1>1, <3>2
        <3> HIDE DEF Callable, Single
        <3>4. Proper(<<x, y>>, {x, y}) /\ ToSet(<<x, y>>) = {x, y}
            <4> HIDE DEF a, b, c, A, B
            <4> QED
                BY <3>1, <3>3, ProperTwo
        <3> QED
            BY <3>1, <3>4
    <2>4. Proper(c, DeviceSet)
        <3>1. \A k \in DeviceSet : status[k] # "recycled"
            BY DEF AllIn
        <3> QED
            BY <3>1, DeviceDelShape
    <2>5. Proper(a, A) /\ ToSet(a) = A /\ Proper(b, B) /\ ToSet(b) = B
        BY <2>3
    <2> HIDE DEF a, b, c, A, B, DeviceSet, EntityOf
    <2>6. Proper(a \o b, A \cup B) /\ ToSet(a \o b) = ToSet(a) \cup ToSet(b)
        BY <2>2, <2>5, ProperCat
    <2> DEFINE ab == a \o b
               AB == A \cup B
    <2>7. AB \cap DeviceSet = {} /\ AB \cup DeviceSet = EntityOf(e) \cup DeviceSet
        BY <1>2, <2>1
    <2> HIDE DEF ab, AB
    <2>8. Proper(ab \o c, AB \cup DeviceSet) /\ ToSet(ab \o c) = ToSet(ab) \cup ToSet(c)
        BY <2>4, <2>6, <2>7, ProperCat DEF ab, AB
    <2> QED
        BY <2>1, <2>5, <2>6, <2>7, <2>8 DEF ab
<1>4. CASE e[1] # "model"
    <2> DEFINE x == <<e, "sampler", "sampler">>
               v == <<e, "view", "texture">>
               a == <<x, v>>
               b == ImageDel(e, "texture")
               I == ImageSet(e, "texture")
    <2>1. EntityOf(e) = I \cup {x} /\ EntityGone(e) = a \o b
        BY <1>4 DEF EntityOf, EntityGone
    <2>2. v \in I /\ x \notin I /\ x # v
        BY DEF ImageSet
    <2>3. ~Single(v)
        BY NotSingle
    <2>4. Callable(x) /\ Callable(v) /\ \A k \in I : Callable(k) /\ Live(k)
        BY <1>1, <1>2, <2>1, <2>2
    <2> HIDE DEF x, v, I, Callable, Single, Live, EntityOf, DeviceSet
    <2>5. Proper(a, {x, v}) /\ ToSet(a) = {x, v}
        BY <2>2, <2>4, ProperTwo
    <2>6. Proper(b, I) /\ \A k \in I : Live(k) => k \in ToSet(b)
        BY <2>4, ImageDelShape DEF I
    <2> HIDE DEF a, b
    <2>7. \A k \in {x, v} \cap I : ~Single(k)
        BY <2>2, <2>3
    <2>8. Proper(a \o b, {x, v} \cup I) /\ ToSet(a \o b) = ToSet(a) \cup ToSet(b)
        BY <2>5, <2>6, <2>7, ProperCat
    <2>9. {x, v} \cup I \subseteq EntityOf(e) \cup DeviceSet
        BY <2>1, <2>2
    <2>10. Proper(a \o b, EntityOf(e) \cup DeviceSet)
        BY <2>8, <2>9, ProperWider
    <2> QED
        BY <2>1, <2>4, <2>5, <2>6, <2>8, <2>10
<1> QED
    BY <1>3, <1>4

(* The entities go in any order. *)
LEMMA DestroyEntityStep == ASSUME LifeInv, NEW e \in entities, DestroyEntity(e) PROVE LifeInv'
<1> DEFINE s == EntityGone(e)
           E == EntityOf(e)
           Owned == StillOwned
           O == UNION {EntityOf(f) : f \in entities \ {e}}
<1>0. /\ pc = "entities" /\ todo = <<>> /\ pc' = "entities" /\ todo' = Destroy(s)
      /\ entities' = entities \ {e} /\ UNCHANGED <<status, chain, old, failed, twice, stray>>
    BY DEF DestroyEntity, Becomes
<1>1. LifeTypes /\ DestroyingEntities
    BY <1>0 DEF LifeInv, PhaseInv
<1>2. /\ chain \in Chains /\ old = Null /\ chain # Null
      /\ AllLive(Owned \cup {WindowHandle}) /\ AllIn(DeviceSet, {"none", "dead"})
      /\ OthersGo(Owned \cup {WindowHandle})
    BY <1>1, ChainsDistinct DEF DestroyingEntities, Chains
<1>3. /\ entities \subseteq ToSet(Loaded) /\ Owned = E \cup O /\ E \cap O = {} /\ E \subseteq EntitySet
      /\ StillOwned' = O
    <2>1. entities \subseteq ToSet(Loaded)
        BY <1>1 DEF LifeTypes
    <2>2. E \subseteq EntitySet /\ \A f \in entities : e # f => E \cap EntityOf(f) = {}
        BY <2>1, AppParts
    <2>3. StillOwned' = O
        BY <1>0 DEF StillOwned
    <2> HIDE DEF E
    <2>4. Owned = E \cup O
        BY DEF StillOwned, E
    <2> QED
        BY <2>1, <2>2, <2>3, <2>4
<1>4. EntitySet \subseteq Handles /\ DeviceSet \subseteq Handles
    BY Parts DEF Base
<1>5. Proper(s, E \cup DeviceSet) /\ E \subseteq ToSet(s)
    <2>1. AllLive(EntityOf(e))
        BY <1>2, <1>3 DEF AllLive, AllIn
    <2> HIDE DEF EntityOf, DeviceSet
    <2> QED
        BY <1>2, <1>3, <2>1, EntityGoneShape
<1> HIDE DEF s, E, O, Owned, Handles, ChainSet, Chains, DeviceSet, EntitySet, WindowHandle
<1>6. /\ List(todo') /\ ToSet(todo') \subseteq Calls /\ CallsOK'
      /\ ToSet(todo') = {<<"destroy", k>> : k \in ToSet(s)} /\ ToSet(s) \subseteq E \cup DeviceSet
      /\ \A k : (Breaks(k)' <=> k \in ToSet(s)) /\ ~Makes(k)'
    BY <1>0, <1>3, <1>4, <1>5, DestroyCalls
<1>7. OnlyBreaks(DeviceSet \cup (EntitySet \ StillOwned))'
    <2>1. DeviceSet' = DeviceSet /\ EntitySet' = EntitySet
        BY DEF DeviceSet, EntitySet
    <2> QED
        BY <1>3, <1>6, <2>1 DEF OnlyBreaks
<1>8. AllLive(StillOwned \cup {WindowHandle})'
    BY <1>0, <1>2, <1>3 DEF AllLive, AllIn
<1>9. AllIn(DeviceSet, {"none", "dead"})'
    BY <1>0, <1>2 DEF AllIn
<1>10. OthersGo(StillOwned \cup {WindowHandle})'
    <2> SUFFICES ASSUME NEW k \in Handles, status[k] = "live", k \notin O \cup {WindowHandle}, ~OfFailed(k)
                 PROVE  Breaks(k)'
        BY <1>0, <1>3 DEF OthersGo, OfFailed
    <2>1. k \in Owned \cup {WindowHandle}
        BY <1>0, <1>2, NothingToDo DEF OthersGo
    <2> QED
        BY <1>3, <1>5, <1>6, <2>1
<1>11. DestroyingEntities'
    BY <1>0, <1>2, <1>7, <1>8, <1>9, <1>10 DEF DestroyingEntities
<1>12. Kept' /\ ReleasedBeforeDevice'
    BY <1>0, <1>1, <1>2, <1>3, <1>6, PhaseKeeps DEF Phases, Ends, LifeTypes
<1> QED
    BY <1>0, <1>11, <1>12 DEF LifeInv, Kept, PhaseInv

(* Of the swap chain the application ends with, the KHR object is not destroyed again
   (swapchain.cpp:24-27).                                                  *)
LEMMA ChainEnded ==
    ASSUME FailedOK, pc # "terminated", chain \in Chains,
           OthersGo({WindowHandle}), todo = <<>>
    PROVE  ~Live(SwapchainKHR(chain))
<1> DEFINE w == SwapchainKHR(chain)
<1> SUFFICES ASSUME Live(w) PROVE FALSE
    OBVIOUS
<1>1. w \in Handles /\ status[w] = "live"
    BY DEF Live
<1>2. w[1] = chain /\ chain[1] = "swapChain" /\ w # WindowHandle /\ chain # Null
    <2>1. chain[1] = "swapChain" /\ chain # Null
        BY ChainsDistinct DEF Chains
    <2>2. w[1] = chain
        BY DEF SwapchainKHR
    <2>3. WindowHandle[1][1] = "application"
        BY DEF WindowHandle, App
    <2> HIDE DEF w, WindowHandle
    <2> QED
        BY <2>1, <2>2, <2>3
<1> HIDE DEF w, WindowHandle, Handles, Chains, RunSet
<1>3. OfFailed(w)
    BY <1>1, <1>2, NothingToDo DEF OthersGo
<1>4. failed # NoHandle
    BY <1>1, <1>3, NoneFailed
<1>5. failed \in RunSet
    BY <1>2, <1>4 DEF FailedOK
<1> QED
    BY <1>2, <1>3, <1>5, RunOwners DEF OfFailed, RunKinds

(* ~Renderer, ~Device and ~Window (renderer.hpp:17, application.hpp:66-70): none of the
   objects destroyed again has one owner.                                  *)
LEMMA MembersGoneShape ==
    ASSUME chain \in Chains, ~Live(SwapchainKHR(chain)), AllLive({WindowHandle}),
           AllIn(DeviceSet, {"none", "dead"}),
           \A k \in ChainSet(chain) \cap Handles : status[k] # "recycled"
    PROVE  Proper(MembersGone, {WindowHandle} \cup DeviceSet \cup ChainSet(chain)) /\ WindowHandle \in ToSet(MembersGone)
<1> DEFINE C == ChainSet(chain) \ {SwapchainKHR(chain)}
           a == ChainDel(chain)
           b == ChainGone(chain)
           c == DeviceDel
           d == <<WindowHandle>>
<1>1. /\ Proper(a, ChainSet(chain)) /\ Proper(b, ChainSet(chain))
      /\ SwapchainKHR(chain) \notin ToSet(a) \cup ToSet(b)
    <2>1. chain \in Chains \cup {Null}
        OBVIOUS
    <2> HIDE DEF Chains, ChainSet, Handles
    <2> QED
        BY <2>1, ChainShape
<1>2. \A k \in C : ~Single(k)
    BY NotSingle
<1>3. \A k \in DeviceSet : status[k] # "recycled"
    BY DEF AllIn
<1>4. Proper(c, DeviceSet)
    BY <1>3, DeviceDelShape
<1>5. Callable(WindowHandle)
    BY DEF AllLive, AllIn, Callable
<1>6. WindowHandle \notin ChainSet(chain) /\ WindowHandle \notin DeviceSet
    <2>1. chain \in Chains \cup {Null} /\ WindowHandle \in AppSet
        BY DEF AppSet
    <2> HIDE DEF Chains, ChainSet, AppSet, DeviceSet, WindowHandle
    <2> QED
        BY <2>1, AppApart, AppParts
<1>7. \A k \in DeviceSet : ~Single(k)
    BY NotSingle
<1>8. MembersGone = ((a \o b) \o c) \o d
    BY DEF MembersGone
<1> HIDE DEF a, b, c, d, Callable, Single, Live, ChainSet, DeviceSet, WindowHandle, Chains, MembersGone
<1>9. Proper(a, C) /\ Proper(b, C)
    BY <1>1 DEF Proper
<1> HIDE DEF C
<1>10. Proper(a \o b, C \cup C)
    BY <1>2, <1>9, ProperCat
<1>11. C \cup C = C
    OBVIOUS
<1>12. Proper(a \o b, C)
    BY <1>10, <1>11
<1>13. Proper((a \o b) \o c, C \cup DeviceSet)
    <2> DEFINE ab == a \o b
    <2>1. Proper(ab, C)
        BY <1>12
    <2> HIDE DEF ab
    <2>2. Proper(ab \o c, C \cup DeviceSet)
        BY <1>2, <1>4, <2>1, ProperCat
    <2> QED
        BY <2>2 DEF ab
<1>14. Proper(d, {WindowHandle}) /\ ToSet(d) = {WindowHandle}
    BY <1>5, ProperShort DEF d
<1>15. /\ Proper(((a \o b) \o c) \o d, (C \cup DeviceSet) \cup {WindowHandle})
       /\ WindowHandle \in ToSet(((a \o b) \o c) \o d)
    <2> DEFINE abc == (a \o b) \o c
    <2>1. Proper(abc, C \cup DeviceSet)
        BY <1>13
    <2>2. \A k \in (C \cup DeviceSet) \cap {WindowHandle} : ~Single(k)
        BY <1>2, <1>7
    <2> HIDE DEF abc
    <2>3. Proper(abc \o d, (C \cup DeviceSet) \cup {WindowHandle}) /\ ToSet(abc \o d) = ToSet(abc) \cup ToSet(d)
        BY <1>14, <2>1, <2>2, ProperCat
    <2> QED
        BY <1>14, <2>3 DEF abc
<1>16. (C \cup DeviceSet) \cup {WindowHandle} \subseteq {WindowHandle} \cup DeviceSet \cup ChainSet(chain)
    BY DEF C
<1> QED
    BY <1>8, <1>15, <1>16, ProperWider

(* The rest of the application goes when no entity is left (application.hpp:66-70). *)
LEMMA DestroyRendererStep == LifeInv /\ DestroyRenderer => LifeInv'
<1> SUFFICES ASSUME LifeInv, DestroyRenderer PROVE LifeInv'
    OBVIOUS
<1> DEFINE C == ChainSet(chain)
           W == {WindowHandle} \cup DeviceSet \cup C
           s == MembersGone
<1>0. /\ pc = "entities" /\ todo = <<>> /\ pc' = "members" /\ todo' = Destroy(s) /\ entities = {}
      /\ UNCHANGED <<status, chain, old, entities, failed, twice, stray>>
    BY DEF DestroyRenderer, Becomes
<1>1. LifeTypes /\ DestroyingEntities /\ RecycledOK /\ FailedOK
    BY <1>0 DEF LifeInv, PhaseInv
<1>2. StillOwned = {}
    BY <1>0 DEF StillOwned
<1>3. /\ chain \in Chains /\ old = Null /\ chain # Null
      /\ AllLive({WindowHandle}) /\ AllIn(DeviceSet, {"none", "dead"}) /\ OthersGo({WindowHandle})
    BY <1>1, <1>2, ChainsDistinct DEF DestroyingEntities, Chains
<1>4. C \subseteq Handles /\ C \cap Rebuilt = {} /\ WindowHandle \in Handles /\ DeviceSet \subseteq Handles
    <2>1. RunSet \cap C = {} /\ C \subseteq Handles
        BY <1>3, AppApart, Apart
    <2>2. WindowHandle \in AppSet /\ DeviceSet \subseteq AppSet
        BY Parts
    <2> HIDE DEF C, AppSet, RunSet, Rebuilt, Handles, WindowHandle, DeviceSet
    <2> QED
        BY <2>1, <2>2, Parts DEF Base
<1>5. \A k \in ChainSet(chain) \cap Handles : status[k] # "recycled"
    BY <1>1, <1>4 DEF RecycledOK
<1> HIDE DEF Handles, ChainSet, Chains, DeviceSet, WindowHandle, C
<1>6. ~Live(SwapchainKHR(chain))
    BY <1>0, <1>1, <1>3, ChainEnded
<1>7. Proper(s, W) /\ WindowHandle \in ToSet(s)
    BY <1>3, <1>5, <1>6, MembersGoneShape DEF C
<1>8. W \subseteq Handles \cup ChainSet(Null) /\ W' = W
    BY <1>0, <1>4 DEF C, WindowHandle, DeviceSet, ChainSet
<1> HIDE DEF s, W
<1>9. /\ List(todo') /\ ToSet(todo') \subseteq Calls /\ CallsOK'
      /\ ToSet(todo') = {<<"destroy", k>> : k \in ToSet(s)} /\ ToSet(s) \subseteq W
      /\ \A k : (Breaks(k)' <=> k \in ToSet(s)) /\ ~Makes(k)'
    BY <1>0, <1>7, <1>8, DestroyCalls
<1>10. OnlyBreaks({WindowHandle} \cup DeviceSet \cup ChainSet(chain))'
    BY <1>8, <1>9 DEF OnlyBreaks, W, C
<1>11. AllIn(DeviceSet, {"none", "dead"})'
    BY <1>0, <1>3 DEF AllIn
<1>12. OthersGo({})'
    <2> SUFFICES ASSUME NEW k \in Handles, status[k] = "live", ~OfFailed(k) PROVE Breaks(k)'
        BY <1>0 DEF OthersGo, OfFailed
    <2>1. k = WindowHandle
        BY <1>0, <1>3, NothingToDo DEF OthersGo
    <2> QED
        BY <1>7, <1>9, <2>1
<1>13. DestroyingMembers'
    BY <1>0, <1>3, <1>10, <1>11, <1>12 DEF DestroyingMembers
<1>14. Kept' /\ ReleasedBeforeDevice'
    BY <1>0, <1>1, <1>3, <1>9, PhaseKeeps DEF Phases, Ends, LifeTypes
<1> QED
    BY <1>0, <1>13, <1>14 DEF LifeInv, Kept, PhaseInv

(* main returns (main.cpp:16). *)
LEMMA ExitStep == LifeInv /\ Exit => LifeInv'
<1> SUFFICES ASSUME LifeInv, Exit PROVE LifeInv'
    OBVIOUS
<1>0. /\ pc = "members" /\ todo = <<>> /\ pc' = "exited" /\ todo' = <<>>
      /\ UNCHANGED <<status, chain, old, entities, failed, twice, stray>>
    BY DEF Exit, Becomes
<1>1. LifeTypes /\ DestroyingMembers
    BY <1>0 DEF LifeInv, PhaseInv
<1>2. chain \in Chains /\ chain # Null /\ OthersGo({})
    BY <1>1, ChainsDistinct DEF DestroyingMembers, Chains
<1>3. List(todo') /\ ToSet(todo') \subseteq Calls /\ CallsOK'
    BY <1>0, NoCalls
<1>4. Exited'
    <2> SUFFICES ASSUME NEW k \in Handles, status[k] = "live" PROVE OfFailed(k)
        BY <1>0 DEF Exited, OthersGo, OfFailed
    <2> QED
        BY <1>0, <1>2, NothingToDo DEF OthersGo
<1>5. Kept' /\ ReleasedBeforeDevice'
    BY <1>0, <1>1, <1>2, <1>3, PhaseKeeps DEF Phases, Ends, LifeTypes
<1> QED
    BY <1>0, <1>4, <1>5 DEF LifeInv, Kept, PhaseInv

(* Nothing happens. *)
LEMMA NothingHappens == ASSUME LifeInv, UNCHANGED vars PROVE LifeInv'
<1> USE DEF vars
<1>1. LifeTypes' /\ RecycledOK' /\ FailedOK' /\ ChainOK' /\ CallsOK'
    BY DEF LifeInv, LifeTypes, RecycledOK, FailedOK, ChainOK, CallsOK, Breaks, Once, Single
<1>2. NoStrayCalls' /\ DestroyedOnce' /\ ReleasedBeforeDevice'
    BY DEF LifeInv, NoStrayCalls, DestroyedOnce, ReleasedBeforeDevice, Live
<1>3. /\ LifeTypes /\ PhaseInv
      /\ \A S : (OnlyMakes(S) <=> OnlyMakes(S)') /\ (OnlyBreaks(S) <=> OnlyBreaks(S)')
      /\ \A S : (AllLive(S) <=> AllLive(S)') /\ (OthersGo(S) <=> OthersGo(S)')
      /\ \A S, values : AllIn(S, values) <=> AllIn(S, values)'
      /\ \A h : (Makes(h) <=> Makes(h)') /\ (Breaks(h) <=> Breaks(h)') /\ (OfFailed(h) <=> OfFailed(h)')
    BY DEF LifeInv, OnlyMakes, OnlyBreaks, AllIn, AllLive, OthersGo, OfFailed, Makes, Breaks
<1>4. (pc = "construct" => Constructing)' /\ (pc = "enter" => Entering)'
    BY <1>3 DEF PhaseInv, Constructing, Entering
<1>5. (pc = "loop" => Looping)'
    BY <1>3 DEF PhaseInv, Looping
<1>6. (pc = "toggle" => Toggling)' /\ (pc = "recreate" => Recreating)'
    BY <1>3 DEF PhaseInv, Toggling, Recreating
<1>7. (pc = "leave" => Leaving)'
    BY <1>3 DEF PhaseInv, Leaving, Doomed
<1>8. (pc = "destroy" => Destroying)'
    BY <1>3 DEF PhaseInv, Destroying, DeviceLast
<1>9. (pc = "entities" => DestroyingEntities)'
    BY <1>3 DEF PhaseInv, DestroyingEntities, StillOwned
<1>10. (pc = "members" => DestroyingMembers)' /\ (pc = "exited" => Exited)'
    BY <1>3 DEF PhaseInv, DestroyingMembers, Exited
<1>11. PhaseInv'
    BY <1>4, <1>5, <1>6, <1>7, <1>8, <1>9, <1>10 DEF PhaseInv
<1> QED
    BY <1>1, <1>2, <1>11 DEF LifeInv

(* One step of the program, whichever. *)
LEMMA LifeNext == LifeInv /\ [Next]_vars => LifeInv'
<1> SUFFICES ASSUME LifeInv, [Next]_vars PROVE LifeInv'
    OBVIOUS
<1>1. CASE CreateNext
    BY <1>1, CreateStep
<1>2. CASE CreateFails
    BY <1>2, CreateFailsStep
<1>3. CASE DestroyNext
    BY <1>3, DestroyStep
<1>4. CASE EnterRun
    BY <1>4, EnterRunStep
<1>5. CASE EnterLoop
    BY <1>5, EnterLoopStep
<1>6. CASE ToggleWireframe
    BY <1>6, ToggleWireframeStep
<1>7. CASE Toggled
    BY <1>7, ToggledStep
<1>8. CASE RecreateSwapChain
    BY <1>8, RecreateSwapChainStep
<1>9. CASE Recreated
    BY <1>9, RecreatedStep
<1>10. CASE LeaveRun
    BY <1>10, LeaveRunStep
<1>11. CASE DestroyApplication
    BY <1>11, DestroyApplicationStep
<1>12. CASE DestroyMembers
    BY <1>12, DestroyMembersStep
<1>13. CASE \E e \in entities : DestroyEntity(e)
    BY <1>13, DestroyEntityStep
<1>14. CASE DestroyRenderer
    BY <1>14, DestroyRendererStep
<1>15. CASE Exit
    BY <1>15, ExitStep
<1>16. CASE Ended
    BY <1>16, NothingHappens DEF Ended
<1>17. CASE UNCHANGED vars
    BY <1>17, NothingHappens
<1> QED
    BY <1>1, <1>2, <1>3, <1>4, <1>5, <1>6, <1>7, <1>8, <1>9, <1>10, <1>11, <1>12, <1>13, <1>14, <1>15, <1>16, <1>17 DEF Next

-----------------------------------------------------------------------------
(* What follows for every run of the program                               *)

(* The inductive invariant: in each phase, what is alive, what is still to be created and
   destroyed and in which order, and that none of those calls meets an object that was
   given away or is gone (main.cpp:8-16, application.cpp:4-163).          *)
THEOREM LifeInvHolds == Spec => []LifeInv
BY LifeInitially, LifeNext, PTL DEF Spec

(* The types, and that the swap chain is null only while one is made or after that
   failed (renderer.cpp:103-117, application.cpp:20-33).                   *)
THEOREM LifetimesTypesHold == Spec => []LifetimesTypeOK
<1>1. LifeInv => LifetimesTypeOK
    <2> SUFFICES ASSUME LifeInv PROVE LifetimesTypeOK
        OBVIOUS
    <2>1. LifeTypes /\ ChainOK
        BY DEF LifeInv
    <2>2. ASSUME NEW k \in DOMAIN todo PROVE todo[k][1] \in {"create", "destroy"}
        <3>1. todo[k] \in ToSet(todo)
            BY DEF ToSet
        <3>2. todo[k] \in Calls
            BY <2>1, <3>1 DEF LifeTypes
        <3> QED
            BY <3>2 DEF Calls
    <2> QED
        BY <2>1, <2>2 DEF LifeTypes, ChainOK, LifetimesTypeOK, Chains
<1> QED
    BY <1>1, LifeInvHolds, PTL

(* What a frame uses is what lives from phase to phase. *)
LEMMA FrameHandlesAre == ASSUME chain \in Chains PROVE FrameHandles = Base \cup ChainSet(chain)
<1>1. OfChain(Chain(0)) = ChainSet(Chain(0)) /\ OfChain(chain) = ChainSet(chain)
    BY ChainElements DEF OfChain
<1>2. /\ ToSet(ApplicationHandles) = AppSet \cup ChainSet(Chain(0)) /\ ToSet(RunHandles) = RunSet
      /\ AppSet \cap ChainSet(Chain(0)) = {}
    BY ApplicationElements, RunElements, Apart
<1> HIDE DEF AppSet, RunSet, ChainSet, ApplicationHandles, RunHandles, OfChain
<1> QED
    BY <1>1, <1>2 DEF FrameHandles, Base

(* After any recreations and toggles, whenever a frame may begin all it uses exists and
   nothing else does (application.cpp:82-162, swapchain.cpp:13, renderer.cpp:112-116,
   rendersystem.hpp:84).                                                   *)
THEOREM FrameHandlesLiveHolds == Spec => []FrameHandlesLive
<1>1. LifeInv => FrameHandlesLive
    <2> SUFFICES ASSUME LifeInv, pc = "loop", todo = <<>>
                 PROVE  chain # Null /\ \A h \in Handles : Live(h) <=> h \in FrameHandles
        BY DEF FrameHandlesLive, Idle
    <2>1. Looping
        BY DEF LifeInv, PhaseInv
    <2>2. chain \in Chains /\ chain # Null
        BY <2>1, ChainsDistinct DEF Looping, Chains
    <2>3. FrameHandles = Base \cup ChainSet(chain)
        BY <2>2, FrameHandlesAre
    <2> SUFFICES ASSUME NEW h \in Handles PROVE status[h] = "live" <=> h \in Base \cup ChainSet(chain)
        BY <2>2, <2>3 DEF Live
    <2>4. h \in Base \cup ChainSet(chain) => status[h] = "live"
        BY <2>1 DEF Looping, AllLive, AllIn
    <2>5. ~OfFailed(h)
        BY <2>1, NoneFailed DEF Looping
    <2>6. status[h] = "live" => h \in Base \cup ChainSet(chain)
        BY <2>1, <2>5, NothingToDo DEF Looping, OthersGo
    <2> QED
        BY <2>4, <2>6
<1> QED
    BY <1>1, LifeInvHolds, PTL

(* No handle is destroyed, or handed to the creation of a swap chain, after its value may
   have been given to another object (swapchain.cpp:15-40, 147, image.cpp:27-31).  *)
THEOREM NoStrayCallsHolds == Spec => []NoStrayCalls
<1>1. LifeInv => NoStrayCalls
    BY DEF LifeInv
<1> QED
    BY <1>1, LifeInvHolds, PTL

(* When the device is destroyed, only what the entities and ImGui hold and what a failed
   constructor leaked is left of it (application.cpp:20-33).               *)
THEOREM ReleasedBeforeDeviceHolds == Spec => []ReleasedBeforeDevice
<1>1. LifeInv => ReleasedBeforeDevice
    BY DEF LifeInv
<1> QED
    BY <1>1, LifeInvHolds, PTL

(* Only what del() and a destructor both release is destroyed twice, on every way out
   (swapchain.cpp:24-27, application.cpp:24-30).                           *)
THEOREM DestroyedOnceHolds == Spec => []DestroyedOnce
<1>1. LifeInv => DestroyedOnce
    BY DEF LifeInv
<1> QED
    BY <1>1, LifeInvHolds, PTL

(* A program that exits has destroyed everything but the members of an object whose
   constructor failed (main.cpp:8-16).                                     *)
THEOREM CleanExitHolds == Spec => []CleanExit
<1>1. LifeInv => CleanExit
    <2> SUFFICES ASSUME LifeInv, pc = "exited", NEW h \in Handles, status[h] = "live" PROVE h[1] = failed[1]
        BY DEF CleanExit, Live
    <2>1. OthersGo({}) /\ todo = <<>>
        BY DEF LifeInv, PhaseInv, Exited, LifeTypes, Ends
    <2> QED
        BY <2>1, NothingToDo DEF OthersGo, OfFailed
<1> QED
    BY <1>1, LifeInvHolds, PTL
=============================================================================
