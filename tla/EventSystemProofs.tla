--------------------------- MODULE EventSystemProofs ---------------------------
(***************************************************************************)
(* Proofs about the dispatch of an event, for any callbacks, priorities    *)
(* and threads: callbacks are called in the order of their priorities, and *)
(* a dispatch sees one list from its first callback to its last.           *)
(***************************************************************************)
EXTENDS EventSystem, SequenceTheorems, WellFoundedInduction, TLAPS

(* Induction, for sets of natural numbers.                                 *)
LEMMA InductiveSet ==
  ASSUME NEW S, S \subseteq Nat, 0 \in S, \A n \in S : n + 1 \in S
  PROVE  S = Nat
<1> SUFFICES ASSUME Nat \ S # {} PROVE FALSE
  OBVIOUS
<1>1. IsWellFoundedOn(OpToRel(<, Nat), Nat)
  BY NatLessThanWellFounded
<1>2. PICK x \in Nat \ S : \A y \in Nat \ S : <<y, x>> \notin OpToRel(<, Nat)
  BY <1>1, WFMin
<1>3. x # 0 /\ x - 1 \in Nat /\ x - 1 < x
  OBVIOUS
<1>4. x - 1 \in S
  BY <1>2, <1>3 DEF OpToRel
<1>5. QED
  BY <1>3, <1>4

LEMMA LeastOf ==
  ASSUME NEW I, I \subseteq Nat, I # {}
  PROVE  Min(I) \in I /\ \A j \in I : Min(I) <= j
<1>1. IsWellFoundedOn(OpToRel(<, Nat), Nat)
  BY NatLessThanWellFounded
<1>2. PICK x \in I : \A y \in I : <<y, x>> \notin OpToRel(<, Nat)
  BY <1>1, WFMin
<1>3. ASSUME NEW y \in I PROVE x <= y
  <2>1. ~(y < x)
    BY <1>2 DEF OpToRel
  <2>2. QED
    BY <2>1
<1>4. QED
  BY <1>3 DEF Min

------------------------------------------------------------------------------
(* What the operations of a list make of a sequence.                       *)

Ordered(s) == \A i, j \in DOMAIN s : i < j => Priority[s[i]] <= Priority[s[j]]

Kept(s, matching, n, f) ==
  f = [i \in 0..n |-> IF i = 0 THEN <<>>
                      ELSE IF s[i] \in matching THEN f[i - 1] ELSE Append(f[i - 1], s[i])]

LEMMA KeptExists ==
  ASSUME NEW s \in Seq(Function), NEW matching
  PROVE  \A n \in Nat : \E f : Kept(s, matching, n, f)
<1> DEFINE S == {n \in Nat : \E f : Kept(s, matching, n, f)}
<1>1. 0 \in S
  <2>1. Kept(s, matching, 0, [i \in 0..0 |-> <<>>])
    BY DEF Kept
  <2>2. QED
    BY <2>1
<1>2. ASSUME NEW n \in S PROVE n + 1 \in S
  <2>1. n \in Nat
    OBVIOUS
  <2>2. PICK f : Kept(s, matching, n, f)
    OBVIOUS
  <2> DEFINE g == [i \in 0..(n + 1) |->
                     IF i <= n THEN f[i]
                     ELSE IF s[i] \in matching THEN f[n] ELSE Append(f[n], s[i])]
  <2>3. \A i \in 0..n : g[i] = f[i]
    BY <2>1
  <2>4. \A i \in 0..(n + 1) : g[i] = IF i = 0 THEN <<>>
                      ELSE IF s[i] \in matching THEN g[i - 1] ELSE Append(g[i - 1], s[i])
    <3>1. ASSUME NEW i \in 0..n
          PROVE  g[i] = IF i = 0 THEN <<>>
                        ELSE IF s[i] \in matching THEN g[i - 1] ELSE Append(g[i - 1], s[i])
      <4>1. i # 0 => i - 1 \in 0..n
        BY <2>1
      <4>2. f[i] = IF i = 0 THEN <<>>
                   ELSE IF s[i] \in matching THEN f[i - 1] ELSE Append(f[i - 1], s[i])
        BY <2>2 DEF Kept
      <4>3. QED
        BY <2>3, <4>1, <4>2
    <3>2. g[n + 1] = IF s[n + 1] \in matching THEN g[n] ELSE Append(g[n], s[n + 1])
      BY <2>1, <2>3
    <3>3. \A i \in 0..(n + 1) : i \in 0..n \/ (i = n + 1 /\ i # 0 /\ i - 1 = n)
      BY <2>1
    <3> HIDE DEF g
    <3>4. QED
      BY <3>1, <3>2, <3>3
  <2>5. Kept(s, matching, n + 1, g)
    BY <2>4 DEF Kept
  <2>6. QED
    BY <2>1, <2>5
<1>3. S = Nat
  BY <1>1, <1>2, InductiveSet
<1>4. QED
  BY <1>3

(* What is kept of the first i values is in order, and of these values.    *)
KeptGood(s, i, t) ==
  /\ t \in Seq(Function)
  /\ Ordered(t)
  /\ \A k \in DOMAIN t : \E j \in 1..i : t[k] = s[j]

LEMMA KeptAppend ==
  ASSUME EventAssumption, NEW s \in Seq(Function), Ordered(s), NEW i \in Nat, i + 1 \in 1..Len(s),
         NEW t, KeptGood(s, i, t)
  PROVE  KeptGood(s, i + 1, Append(t, s[i + 1]))
<1> DEFINE u == Append(t, s[i + 1])
<1>1. t \in Seq(Function) /\ Len(t) \in Nat /\ DOMAIN t = 1..Len(t) /\ s[i + 1] \in Function
  BY DEF KeptGood
<1>2. /\ u \in Seq(Function) /\ DOMAIN u = 1..(Len(t) + 1)
      /\ \A k \in 1..Len(t) : u[k] = t[k]
      /\ u[Len(t) + 1] = s[i + 1]
  BY <1>1
<1> HIDE DEF u
<1>3. \A k \in DOMAIN t : \E j \in 1..i : t[k] = s[j]
  BY DEF KeptGood
<1>4. ASSUME NEW k \in DOMAIN u PROVE \E j \in 1..(i + 1) : u[k] = s[j]
  <2>1. CASE k \in 1..Len(t)
    <3>1. PICK j \in 1..i : t[k] = s[j]
      BY <1>1, <1>3, <2>1
    <3>2. j \in 1..(i + 1)
      OBVIOUS
    <3>a. u[k] = t[k]
      BY <1>2, <2>1
    <3>3. QED
      BY <3>1, <3>2, <3>a
  <2>2. CASE k = Len(t) + 1
    BY <1>2, <2>2
  <2>3. QED
    BY <1>1, <1>2, <2>1, <2>2
<1>5. \A k \in 1..Len(t) : Priority[t[k]] <= Priority[s[i + 1]]
  <2> SUFFICES ASSUME NEW k \in 1..Len(t) PROVE Priority[t[k]] <= Priority[s[i + 1]]
    OBVIOUS
  <2>1. PICK j \in 1..i : t[k] = s[j]
    BY <1>1, <1>3
  <2>2. j \in DOMAIN s /\ i + 1 \in DOMAIN s /\ j < i + 1
    OBVIOUS
  <2>3. QED
    BY <2>1, <2>2 DEF Ordered
<1>6. \A j, k \in 1..Len(t) : j < k => Priority[t[j]] <= Priority[t[k]]
  BY <1>1 DEF KeptGood, Ordered
<1>7. Ordered(u)
  <2> SUFFICES ASSUME NEW j \in DOMAIN u, NEW k \in DOMAIN u, j < k
               PROVE  Priority[u[j]] <= Priority[u[k]]
    BY DEF Ordered
  <2>0. j \in 1..(Len(t) + 1) /\ k \in 1..(Len(t) + 1)
    BY <1>2
  <2>1. j \in 1..Len(t) /\ (k \in 1..Len(t) \/ k = Len(t) + 1)
    <3> HIDE <1>1, <1>2
    <3>1. Len(t) \in Nat
      BY <1>1
    <3>2. QED
      BY <2>0, <3>1
  <2>2. QED
    BY <1>2, <1>5, <1>6, <2>1
<1>8. QED
  BY <1>2, <1>4, <1>7 DEF KeptGood, u

LEMMA KeptIsGood ==
  ASSUME EventAssumption, NEW s \in Seq(Function), Ordered(s), NEW matching,
         NEW f, Kept(s, matching, Len(s), f)
  PROVE  KeptGood(s, Len(s), f[Len(s)])
<1> DEFINE S == {i \in Nat : i <= Len(s) => KeptGood(s, i, f[i])}
<1>1. Len(s) \in Nat
  OBVIOUS
<1>2. \A i \in 0..Len(s) : f[i] = IF i = 0 THEN <<>>
          ELSE IF s[i] \in matching THEN f[i - 1] ELSE Append(f[i - 1], s[i])
  BY <1>1 DEF Kept
<1>3. 0 \in S
  <2>1. f[0] = <<>>
    BY <1>1, <1>2
  <2>2. KeptGood(s, 0, <<>>)
    BY DEF KeptGood, Ordered
  <2>3. QED
    BY <2>1, <2>2
<1>4. ASSUME NEW i \in S PROVE i + 1 \in S
  <2> SUFFICES ASSUME i + 1 <= Len(s) PROVE KeptGood(s, i + 1, f[i + 1])
    OBVIOUS
  <2>1. i \in Nat /\ i + 1 \in 1..Len(s) /\ KeptGood(s, i, f[i])
    BY <1>1
  <2>2. CASE s[i + 1] \in matching
    <3>1. f[i + 1] = f[i]
      BY <1>1, <1>2, <2>1, <2>2
    <3>2. QED
      BY <2>1, <3>1 DEF KeptGood
  <2>3. CASE s[i + 1] \notin matching
    <3>1. f[i + 1] = Append(f[i], s[i + 1])
      <4>1. i + 1 \in 0..Len(s) /\ i + 1 # 0 /\ (i + 1) - 1 = i
        BY <1>1, <2>1
      <4>2. QED
        BY <1>2, <2>3, <4>1
    <3>2. QED
      BY <2>1, <3>1, KeptAppend
  <2>4. QED
    BY <2>2, <2>3
<1>5. S = Nat
  <2> HIDE DEF S
  <2>1. S \subseteq Nat
    BY DEF S
  <2>2. QED
    BY <1>3, <1>4, <2>1, InductiveSet
<1>6. QED
  BY <1>1, <1>5

LEMMA WithoutOrdered ==
  ASSUME EventAssumption, NEW s \in Seq(Function), Ordered(s), NEW matching
  PROVE  LET t == Callbacks!Without(s, matching) IN t \in Seq(Function) /\ Ordered(t)
<1> DEFINE kept == CHOOSE f : Kept(s, matching, Len(s), f)
<1>1. Callbacks!Without(s, matching) = kept[Len(s)]
  BY DEF Callbacks!Without, Kept
<1>2. Kept(s, matching, Len(s), kept)
  <2>1. Len(s) \in Nat
    OBVIOUS
  <2>2. \E f : Kept(s, matching, Len(s), f)
    BY <2>1, KeptExists
  <2>3. QED
    BY <2>1, <2>2
<1> HIDE DEF kept
<1>3. KeptGood(s, Len(s), kept[Len(s)])
  BY <1>2, KeptIsGood
<1>4. QED
  BY <1>1, <1>3 DEF KeptGood

LEMMA Inserted ==
  ASSUME NEW s \in Seq(Function), NEW k \in 1..(Len(s) + 1), NEW v \in Function
  PROVE  LET t == InsertAt(s, k, v) IN
         /\ t \in Seq(Function) /\ Len(t) = Len(s) + 1 /\ DOMAIN t = 1..(Len(s) + 1)
         /\ \A j \in 1..(k - 1) : t[j] = s[j]
         /\ t[k] = v
         /\ \A j \in (k + 1)..(Len(s) + 1) : t[j] = s[j - 1]
<1> DEFINE a == SubSeq(s, 1, k - 1)
           b == SubSeq(s, k, Len(s))
           t == (a \o <<v>>) \o b
<1>0. Len(s) \in Nat /\ k \in Nat
  OBVIOUS
<1>1. a \in Seq(Function) /\ Len(a) = k - 1 /\ \A j \in 1..(k - 1) : a[j] = s[j]
  BY <1>0, SubSeqProperties
<1>2. b \in Seq(Function) /\ Len(b) = Len(s) + 1 - k
      /\ \A j \in 1..(Len(s) + 1 - k) : b[j] = s[k + j - 1]
  BY <1>0, SubSeqProperties
<1> HIDE DEF a, b
<1>3. <<v>> \in Seq(Function) /\ Len(<<v>>) = 1 /\ <<v>>[1] = v
  OBVIOUS
<1> DEFINE c == a \o <<v>>
<1>4. c \in Seq(Function) /\ Len(c) = k /\ c[k] = v /\ \A j \in 1..(k - 1) : c[j] = a[j]
  BY <1>0, <1>1, <1>3, ConcatProperties
<1> HIDE DEF c
<1>5. /\ c \o b \in Seq(Function) /\ Len(c \o b) = Len(s) + 1
      /\ \A j \in 1..(Len(s) + 1) : (c \o b)[j] = IF j <= k THEN c[j] ELSE b[j - k]
  BY <1>0, <1>2, <1>4, ConcatProperties
<1>6. \A j \in (k + 1)..(Len(s) + 1) : j - k \in 1..(Len(s) + 1 - k) /\ k + (j - k) - 1 = j - 1
  BY <1>0
<1>7. InsertAt(s, k, v) = c \o b
  BY DEF InsertAt, a, b, c
<1> DEFINE w == c \o b
<1> HIDE DEF w
<1>8. /\ w \in Seq(Function) /\ Len(w) = Len(s) + 1 /\ DOMAIN w = 1..(Len(s) + 1)
      /\ \A j \in 1..(k - 1) : w[j] = s[j]
      /\ w[k] = v
      /\ \A j \in (k + 1)..(Len(s) + 1) : w[j] = s[j - 1]
  <2>1. w \in Seq(Function) /\ Len(w) = Len(s) + 1 /\ DOMAIN w = 1..(Len(s) + 1)
    BY <1>5, LenProperties DEF w
  <2>2. \A j \in 1..(k - 1) : w[j] = s[j]
    BY <1>0, <1>1, <1>4, <1>5 DEF w
  <2>3. w[k] = v
    BY <1>0, <1>4, <1>5 DEF w
  <2>4. ASSUME NEW j \in (k + 1)..(Len(s) + 1) PROVE w[j] = s[j - 1]
    <3>1. j \in 1..(Len(s) + 1) /\ ~(j <= k)
      BY <1>0
    <3>2. w[j] = b[j - k]
      BY <1>5, <3>1 DEF w
    <3>3. QED
      BY <1>0, <1>2, <1>6, <3>2
  <2>5. QED
    BY <2>1, <2>2, <2>3, <2>4
<1>9. QED
  BY <1>7, <1>8 DEF w

(* CD_ListSortedPush keeps a list in order.                                *)
LEMMA SortedOrdered ==
  ASSUME EventAssumption, NEW s \in Seq(Function), Ordered(s), NEW v \in Function
  PROVE  LET t == Callbacks!Sorted(s, v) IN t \in Seq(Function) /\ Ordered(t)
<1> DEFINE I == {i \in 1..Len(s) : Priority[s[i]] >= Priority[v]}
           k == IF I # {} THEN Min(I) ELSE Len(s) + 1
           t == InsertAt(s, k, v)
<1>0. Len(s) \in Nat /\ DOMAIN s = 1..Len(s) /\ I \subseteq Nat
      /\ \A i \in 1..Len(s) : s[i] \in Function
  OBVIOUS
<1>1. I # {} => Min(I) \in I /\ \A j \in I : Min(I) <= j
  <2> HIDE DEF I
  <2>1. QED
    BY <1>0, LeastOf
<1>a. /\ I = {} => k = Len(s) + 1
      /\ I # {} => k \in I /\ \A j \in I : k <= j
  <2> HIDE DEF I
  <2>1. QED
    BY <1>1
<1>b. \A i \in 1..Len(s) : Priority[s[i]] \in Int
  BY <1>0 DEF EventAssumption
<1>c. Priority[v] \in Int
  BY DEF EventAssumption
<1>d. \A i \in 1..Len(s) : i \in I <=> Priority[s[i]] >= Priority[v]
  OBVIOUS
<1>e. k \in 1..Len(s) \/ k = Len(s) + 1
  BY <1>a
<1>2. /\ k \in 1..(Len(s) + 1)
      /\ \A j \in 1..(k - 1) : Priority[s[j]] < Priority[v]
      /\ k <= Len(s) => Priority[s[k]] >= Priority[v]
  <2> HIDE DEF k, I
  <2>1. \A j \in 1..(k - 1) : j \in 1..Len(s) /\ ~(k <= j)
    BY <1>0, <1>e
  <2>2. ASSUME NEW j \in 1..(k - 1) PROVE ~(j \in I)
    <3>1. j \in 1..Len(s) /\ ~(k <= j)
      BY <2>1
    <3>2. QED
      BY <1>a, <3>1
  <2>3. ASSUME NEW j \in 1..(k - 1) PROVE Priority[s[j]] < Priority[v]
    <3>1. j \in 1..Len(s)
      BY <2>1
    <3>2. ~(Priority[s[j]] >= Priority[v])
      BY <1>d, <2>2, <3>1
    <3>3. QED
      BY <1>b, <1>c, <3>1, <3>2
  <2>4. k <= Len(s) => Priority[s[k]] >= Priority[v]
    BY <1>0, <1>a, <1>d, <1>e
  <2>5. QED
    BY <1>0, <1>e, <2>3, <2>4
<1>3. Callbacks!Sorted(s, v) = t
  <2> DEFINE found == IF I # {} THEN Min(I) ELSE 0
  <2>1. Callbacks!Sorted(s, v) = InsertAt(s, IF found = 0 THEN Len(s) + 1 ELSE found, v)
    BY DEF Callbacks!Sorted, Callbacks!SelectInSeq, Callbacks!InsertAt, Callbacks!Min, InsertAt, Min
  <2>2. I # {} => Min(I) # 0
    BY <1>1
  <2>3. (IF found = 0 THEN Len(s) + 1 ELSE found) = k
    BY <2>2
  <2>4. QED
    BY <2>1, <2>3
<1> HIDE DEF k, I
<1>4. /\ t \in Seq(Function) /\ DOMAIN t = 1..(Len(s) + 1)
      /\ \A j \in 1..(k - 1) : t[j] = s[j]
      /\ t[k] = v
      /\ \A j \in (k + 1)..(Len(s) + 1) : t[j] = s[j - 1]
  BY <1>2, Inserted
<1> HIDE DEF t
<1>5. Ordered(t)
  <2> SUFFICES ASSUME NEW i \in 1..(Len(s) + 1), NEW j \in 1..(Len(s) + 1), i < j
               PROVE  Priority[t[i]] <= Priority[t[j]]
    BY <1>4 DEF Ordered
  <2>0. \A m, n \in 1..Len(s) : m <= n => Priority[s[m]] <= Priority[s[n]]
    <3> SUFFICES ASSUME NEW m \in 1..Len(s), NEW n \in 1..Len(s), m <= n
                 PROVE  Priority[s[m]] <= Priority[s[n]]
      OBVIOUS
    <3>1. CASE m = n
      <4>1. Priority[s[m]] \in Int
        BY <1>b
      <4>2. QED
        BY <3>1, <4>1
    <3>2. CASE m # n
      <4>1. m \in DOMAIN s /\ n \in DOMAIN s
        BY <1>0
      <4>2. m < n
        BY <3>2
      <4>3. QED
        BY <4>1, <4>2 DEF Ordered
    <3>3. QED
      BY <3>1, <3>2
  <2>a. Priority[v] \in Int /\ \A m \in 1..Len(s) : Priority[s[m]] \in Int
    BY <1>0 DEF EventAssumption
  <2>1. CASE j < k
    <3>1. i \in 1..(k - 1) /\ j \in 1..(k - 1) /\ i \in 1..Len(s) /\ j \in 1..Len(s) /\ i <= j
      BY <1>0, <1>2, <2>1
    <3>2. QED
      BY <1>4, <2>0, <3>1
  <2>2. CASE j = k
    <3>1. i \in 1..(k - 1) /\ i \in 1..Len(s)
      BY <1>0, <1>2, <2>2
    <3>2. t[i] = s[i] /\ t[j] = v
      BY <1>4, <2>2, <3>1
    <3>3. Priority[s[i]] < Priority[v] /\ Priority[s[i]] \in Int
      BY <1>2, <2>a, <3>1
    <3>4. QED
      BY <2>a, <3>2, <3>3
  <2>3. CASE j > k /\ i < k
    <3>1. i \in 1..(k - 1) /\ j \in (k + 1)..(Len(s) + 1) /\ i \in 1..Len(s)
          /\ j - 1 \in 1..Len(s) /\ i <= j - 1
      BY <1>0, <1>2, <2>3
    <3>2. t[i] = s[i] /\ t[j] = s[j - 1]
      BY <1>4, <3>1
    <3>3. QED
      BY <2>0, <3>1, <3>2
  <2>4. CASE j > k /\ i = k
    <3>1. j \in (k + 1)..(Len(s) + 1) /\ j - 1 \in 1..Len(s) /\ k \in 1..Len(s) /\ k <= j - 1 /\ k <= Len(s)
      BY <1>0, <1>2, <2>4
    <3>2. t[i] = v /\ t[j] = s[j - 1] /\ Priority[s[k]] <= Priority[s[j - 1]]
      BY <1>4, <2>0, <2>4, <3>1
    <3>3. Priority[s[k]] \in Int /\ Priority[s[j - 1]] \in Int /\ Priority[s[k]] >= Priority[v]
      BY <1>2, <2>a, <3>1
    <3>4. QED
      BY <2>a, <3>2, <3>3
  <2>5. CASE j > k /\ i > k
    <3>1. i \in (k + 1)..(Len(s) + 1) /\ j \in (k + 1)..(Len(s) + 1)
          /\ i - 1 \in 1..Len(s) /\ j - 1 \in 1..Len(s) /\ i - 1 <= j - 1
      BY <1>0, <1>2, <2>5
    <3>2. QED
      BY <1>4, <2>0, <3>1
  <2>6. QED
    BY <1>0, <1>2, <2>1, <2>2, <2>3, <2>4, <2>5
<1>6. QED
  BY <1>3, <1>4, <1>5

(* The first callbacks of a list in order, and the next one.               *)
LEMMA PrefixGrows ==
  ASSUME NEW s \in Seq(Function), NEW n \in Nat, n < Len(s)
  PROVE  /\ Len(SubSeq(s, 1, n)) = n
         /\ Append(SubSeq(s, 1, n), s[n + 1]) = SubSeq(s, 1, n + 1)
         /\ Len(SubSeq(s, 1, n + 1)) = n + 1
         /\ SubSeq(s, 1, n + 1) \in Seq(Function)
         /\ n + 1 = Len(s) => SubSeq(s, 1, n + 1) = s
<1> DEFINE a == SubSeq(s, 1, n)
           b == SubSeq(s, 1, n + 1)
<1>0. Len(s) \in Nat
  OBVIOUS
<1>1. a \in Seq(Function) /\ Len(a) = n /\ \A i \in 1..n : a[i] = s[i]
  BY <1>0, SubSeqProperties
<1>2. b \in Seq(Function) /\ Len(b) = n + 1 /\ \A i \in 1..(n + 1) : b[i] = s[i]
  BY <1>0, SubSeqProperties
<1>3. s[n + 1] \in Function
  BY <1>0
<1> DEFINE c == Append(a, s[n + 1])
<1> HIDE DEF a, b
<1>4. c \in Seq(Function) /\ Len(c) = n + 1 /\ c[n + 1] = s[n + 1]
      /\ \A i \in 1..n : c[i] = a[i]
  BY <1>1, <1>3, AppendProperties
<1> HIDE DEF c
<1>5. c = b
  <2>1. \A i \in 1..(n + 1) : c[i] = b[i]
    BY <1>1, <1>2, <1>4
  <2>2. QED
    BY <1>2, <1>4, <2>1, SeqEqual
<1>6. n + 1 = Len(s) => b = s
  BY <1>2, SeqEqual
<1>7. QED
  BY <1>1, <1>2, <1>5, <1>6 DEF a, b, c

LEMMA PrefixOrdered ==
  ASSUME NEW s \in Seq(Function), Ordered(s), NEW n \in 0..Len(s)
  PROVE  Ordered(SubSeq(s, 1, n))
<1>1. Len(s) \in Nat /\ DOMAIN s = 1..Len(s)
  OBVIOUS
<1>2. /\ SubSeq(s, 1, n) \in Seq(Function)
      /\ Len(SubSeq(s, 1, n)) = n /\ \A i \in 1..n : SubSeq(s, 1, n)[i] = s[i]
  BY <1>1, SubSeqProperties
<1>3. DOMAIN SubSeq(s, 1, n) = 1..n
  BY <1>2
<1>4. QED
  BY <1>1, <1>2, <1>3 DEF Ordered

------------------------------------------------------------------------------
(* The invariant.                                                          *)

TypesInv ==
    /\ callbacks \in Seq(Function)
    /\ func \in Function
    /\ at \in [Thread -> {"idle", "get", "start", "call"}]
    /\ called \in [Thread -> Seq(Function)]
    /\ interrupted \in [Thread -> BOOLEAN]

OrderInv ==
    /\ Ordered(callbacks)
    /\ \A t \in Thread : Ordered(called[t])

(* A thread that dispatches was not interrupted; one that calls has called the
   first callbacks of the list, and there are more.                        *)
DispatchInv ==
    \A t \in Thread :
        /\ at[t] # "idle" => ~interrupted[t]
        /\ at[t] \in {"get", "start"} => called[t] = <<>>
        /\ at[t] = "call" =>
               /\ Len(called[t]) < Len(callbacks)
               /\ called[t] = SubSeq(callbacks, 1, Len(called[t]))

DispatchIInv == TypesInv /\ OrderInv /\ DispatchInv

LEMMA InvInit ==
  ASSUME Init
  PROVE  DispatchIInv
<1>1. TypesInv
  BY DEF Init, TypesInv
<1>2. OrderInv
  BY DEF Init, OrderInv, Ordered
<1>3. DispatchInv
  BY DEF Init, DispatchInv
<1>4. QED
  BY <1>1, <1>2, <1>3 DEF DispatchIInv

(* A change of the list, which no dispatch is reading.                     *)
LEMMA ListChanges ==
  ASSUME DispatchIInv, WriteLocked, func' \in Function, UNCHANGED dispatch,
         callbacks' \in Seq(Function), Ordered(callbacks')
  PROVE  DispatchIInv'
<1>1. TypesInv'
  BY DEF DispatchIInv, TypesInv, dispatch
<1>2. OrderInv'
  BY DEF DispatchIInv, OrderInv, Ordered, dispatch
<1>3. \A t \in Thread : at[t] # "call"
  BY DEF WriteLocked, Readers
<1>4. DispatchInv'
  BY <1>3 DEF DispatchIInv, DispatchInv, dispatch
<1>5. QED
  BY <1>1, <1>2, <1>4 DEF DispatchIInv

LEMMA RegisterPushSafe ==
  ASSUME EventAssumption, DispatchIInv, RegisterPush
  PROVE  DispatchIInv'
<1>1. /\ callbacks \in Seq(Function) /\ Ordered(callbacks) /\ func \in Function
      /\ WriteLocked /\ func' = func /\ UNCHANGED dispatch
      /\ callbacks' = Callbacks!Sorted(callbacks, func)
  BY DEF DispatchIInv, TypesInv, OrderInv, RegisterPush, Push, Callbacks!SortedPush
<1>2. callbacks' \in Seq(Function) /\ Ordered(callbacks')
  BY <1>1, SortedOrdered
<1>3. QED
  BY <1>1, <1>2, ListChanges

LEMMA UnregisterDeleteSafe ==
  ASSUME EventAssumption, DispatchIInv, UnregisterDelete
  PROVE  DispatchIInv'
<1>1. /\ callbacks \in Seq(Function) /\ Ordered(callbacks) /\ func \in Function
      /\ WriteLocked /\ func' = func /\ UNCHANGED dispatch
      /\ callbacks' = Callbacks!Without(callbacks, {func})
  BY DEF DispatchIInv, TypesInv, OrderInv, UnregisterDelete, Callbacks!DeleteAll
<1>2. callbacks' \in Seq(Function) /\ Ordered(callbacks')
  BY <1>1, WithoutOrdered
<1>3. QED
  BY <1>1, <1>2, ListChanges

(* A step that touches neither the list nor the dispatches.                *)
LEMMA OtherSafe ==
  ASSUME DispatchIInv, func' \in Function, UNCHANGED <<callbacks, at, called, interrupted>>
  PROVE  DispatchIInv'
<1>1. TypesInv'
  BY DEF DispatchIInv, TypesInv
<1>2. OrderInv'
  BY DEF DispatchIInv, OrderInv, Ordered
<1>3. DispatchInv'
  BY DEF DispatchIInv, DispatchInv
<1>4. QED
  BY <1>1, <1>2, <1>3 DEF DispatchIInv

LEMMA DispatchSafe ==
  ASSUME DispatchIInv, NEW t \in Thread, Dispatch(t)
  PROVE  DispatchIInv'
<1>1. /\ UNCHANGED <<callbacks, func>>
      /\ at' = [at EXCEPT ![t] = "get"]
      /\ called' = [called EXCEPT ![t] = <<>>]
      /\ interrupted' = [interrupted EXCEPT ![t] = FALSE]
  BY DEF Dispatch, Goto, main
<1>2. TypesInv'
  BY <1>1 DEF DispatchIInv, TypesInv
<1>3. OrderInv'
  BY <1>1 DEF DispatchIInv, TypesInv, OrderInv, Ordered
<1>4. DispatchInv'
  BY <1>1 DEF DispatchIInv, TypesInv, DispatchInv
<1>5. QED
  BY <1>2, <1>3, <1>4 DEF DispatchIInv

LEMMA GetListSafe ==
  ASSUME DispatchIInv, NEW t \in Thread, GetList(t)
  PROVE  DispatchIInv'
<1>1. /\ UNCHANGED <<callbacks, func, called, interrupted>>
      /\ at[t] = "get"
      /\ \E to \in {"idle", "start"} : at' = [at EXCEPT ![t] = to]
  BY DEF GetList, Goto, main
<1>2. TypesInv'
  BY <1>1 DEF DispatchIInv, TypesInv
<1>3. OrderInv'
  BY <1>1 DEF DispatchIInv, OrderInv, Ordered
<1>4. DispatchInv'
  BY <1>1 DEF DispatchIInv, TypesInv, DispatchInv
<1>5. QED
  BY <1>2, <1>3, <1>4 DEF DispatchIInv

LEMMA StartIteratingSafe ==
  ASSUME DispatchIInv, NEW t \in Thread, StartIterating(t)
  PROVE  DispatchIInv'
<1>1. /\ UNCHANGED <<callbacks, func, called, interrupted>>
      /\ at[t] = "start"
      /\ at' = [at EXCEPT ![t] = IF callbacks = <<>> THEN "idle" ELSE "call"]
  BY DEF StartIterating, Goto, main
<1>2. TypesInv'
  BY <1>1 DEF DispatchIInv, TypesInv
<1>3. OrderInv'
  BY <1>1 DEF DispatchIInv, OrderInv, Ordered
<1>4. callbacks # <<>> =>
          /\ Len(called[t]) < Len(callbacks)
          /\ called[t] = SubSeq(callbacks, 1, Len(called[t]))
  <2>1. called[t] = <<>> /\ Len(called[t]) = 0
    BY <1>1 DEF DispatchIInv, DispatchInv
  <2>2. callbacks # <<>> => 0 < Len(callbacks)
    BY EmptySeq DEF DispatchIInv, TypesInv
  <2>3. SubSeq(callbacks, 1, 0) = <<>>
    BY SubSeqEmpty DEF DispatchIInv, TypesInv
  <2>4. QED
    BY <2>1, <2>2, <2>3
<1>5. DispatchInv'
  BY <1>1, <1>4 DEF DispatchIInv, TypesInv, DispatchInv
<1>6. QED
  BY <1>2, <1>3, <1>5 DEF DispatchIInv

(* A callback is called: what has been called is still the list up to here. *)
LEMMA CallSafe ==
  ASSUME DispatchIInv, NEW t \in Thread, NEW go \in BOOLEAN, Call(t, go)
  PROVE  /\ DispatchIInv'
         /\ at'[t] = "idle" => interrupted'[t] \/ called'[t] = callbacks
<1> DEFINE n == Len(called[t])
<1>1. /\ UNCHANGED <<callbacks, func>>
      /\ at[t] = "call"
      /\ at' = [at EXCEPT ![t] = IF n + 1 < Len(callbacks) /\ go THEN "call" ELSE "idle"]
      /\ called' = [called EXCEPT ![t] = Append(called[t], callbacks[n + 1])]
      /\ interrupted' = [interrupted EXCEPT ![t] = ~go]
  BY DEF Call, Goto, Continues, main
<1>2. /\ callbacks \in Seq(Function) /\ Ordered(callbacks)
      /\ called \in [Thread -> Seq(Function)] /\ at \in [Thread -> {"idle", "get", "start", "call"}]
      /\ interrupted \in [Thread -> BOOLEAN]
      /\ n \in Nat /\ n < Len(callbacks) /\ Len(callbacks) \in Nat
      /\ called[t] = SubSeq(callbacks, 1, n)
  BY <1>1 DEF DispatchIInv, TypesInv, OrderInv, DispatchInv
<1> DEFINE u == Append(called[t], callbacks[n + 1])
<1>3. /\ u = SubSeq(callbacks, 1, n + 1) /\ Len(u) = n + 1 /\ u \in Seq(Function)
      /\ n + 1 = Len(callbacks) => u = callbacks
  <2> DEFINE s == callbacks
  <2>1. Append(SubSeq(s, 1, n), s[n + 1]) = SubSeq(s, 1, n + 1)
    BY <1>2, PrefixGrows
  <2>2. Len(SubSeq(s, 1, n + 1)) = n + 1 /\ SubSeq(s, 1, n + 1) \in Seq(Function)
        /\ (n + 1 = Len(s) => SubSeq(s, 1, n + 1) = s)
    BY <1>2, PrefixGrows
  <2>3. QED
    BY <1>2, <2>1, <2>2
<1>4. Ordered(u)
  BY <1>2, <1>3, PrefixOrdered
<1> HIDE DEF u, n
<1>5. called'[t] = u /\ \A r \in Thread \ {t} : called'[r] = called[r]
  BY <1>1, <1>2 DEF n, u
<1>6. TypesInv'
  BY <1>1, <1>2, <1>3 DEF DispatchIInv, TypesInv, n, u
<1>7. OrderInv'
  <2>1. Ordered(callbacks')
    BY <1>1, <1>2 DEF Ordered
  <2>2. ASSUME NEW r \in Thread PROVE Ordered(called'[r])
    <3>1. r # t => Ordered(called[r])
      BY DEF DispatchIInv, OrderInv
    <3>2. QED
      BY <1>4, <1>5, <3>1
  <2>3. QED
    BY <2>1, <2>2 DEF OrderInv, Ordered
<1>8. /\ at'[t] \in {"call", "idle"}
      /\ at'[t] = "call" => n + 1 < Len(callbacks) /\ go
      /\ interrupted'[t] = ~go
      /\ at'[t] = "idle" => n + 1 = Len(callbacks) \/ ~go
  BY <1>1, <1>2
<1>9. DispatchInv'
  <2> SUFFICES ASSUME NEW r \in Thread
               PROVE  /\ at'[r] # "idle" => ~interrupted'[r]
                      /\ at'[r] \in {"get", "start"} => called'[r] = <<>>
                      /\ at'[r] = "call" =>
                             /\ Len(called'[r]) < Len(callbacks')
                             /\ called'[r] = SubSeq(callbacks', 1, Len(called'[r]))
    BY DEF DispatchInv
  <2>1. CASE r = t
    BY <1>1, <1>3, <1>5, <1>8, <2>1
  <2>2. CASE r # t
    <3>1. at'[r] = at[r] /\ interrupted'[r] = interrupted[r] /\ called'[r] = called[r]
      BY <1>1, <1>2, <1>5, <2>2
    <3>2. QED
      BY <1>1, <3>1 DEF DispatchIInv, DispatchInv
  <2>3. QED
    BY <2>1, <2>2
<1>10. at'[t] = "idle" => interrupted'[t] \/ called'[t] = callbacks
  BY <1>3, <1>5, <1>8
<1>11. QED
  BY <1>6, <1>7, <1>9, <1>10 DEF DispatchIInv

LEMMA InvNext ==
  ASSUME EventAssumption, DispatchIInv, [Next]_vars
  PROVE  DispatchIInv'
<1>0. func \in Function
  BY DEF DispatchIInv, TypesInv
<1>1. CASE \E f \in Function : Register(f) \/ Unregister(f)
  BY <1>1, OtherSafe DEF Register, Unregister, dispatch
<1>2. CASE MainStep
  <2>1. CASE RegisterPush
    BY <2>1, RegisterPushSafe
  <2>2. CASE UnregisterDelete
    BY <2>2, UnregisterDeleteSafe
  <2>3. CASE UnregisterCheck \/ UnregisterDestroy
    BY <1>0, <2>3, OtherSafe DEF UnregisterCheck, UnregisterDestroy, dispatch
  <2>4. QED
    BY <1>2, <2>1, <2>2, <2>3 DEF MainStep
<1>3. CASE \E t \in Thread : Dispatch(t) \/ DispatchStep(t)
  <2>1. PICK t \in Thread : Dispatch(t) \/ DispatchStep(t)
    BY <1>3
  <2>2. CASE Dispatch(t)
    BY <2>2, DispatchSafe
  <2>3. CASE GetList(t)
    BY <2>3, GetListSafe
  <2>4. CASE StartIterating(t)
    BY <2>4, StartIteratingSafe
  <2>5. CASE \E go \in BOOLEAN : Call(t, go)
    BY <2>5, CallSafe
  <2>6. QED
    BY <2>1, <2>2, <2>3, <2>4, <2>5 DEF DispatchStep
<1>4. CASE UNCHANGED vars
  BY <1>0, <1>4, OtherSafe DEF vars, main, dispatch
<1>5. QED
  BY <1>1, <1>2, <1>3, <1>4 DEF Next

LEMMA InvHolds == Spec => []DispatchIInv
<1> USE EventAssumption
<1>1. Init => DispatchIInv
  BY InvInit
<1>2. DispatchIInv /\ [Next]_vars => DispatchIInv'
  BY InvNext
<1>3. QED
  BY <1>1, <1>2, PTL DEF Spec

------------------------------------------------------------------------------
(* The theorems.                                                           *)

\* For any callbacks, priorities and threads, a dispatch calls the callbacks in the
\* order of their priorities (Event.h:164), whatever was registered and unregistered.
THEOREM CalledInOrder == Spec => []InPriorityOrder
<1>1. DispatchIInv => InPriorityOrder
  BY DEF DispatchIInv, OrderInv, Ordered, InPriorityOrder
<1>2. QED
  BY <1>1, InvHolds, PTL

\* What a dispatch has called is the list up to here and none of it returned false: it
\* sees one list from its first callback to its last (Event.h:82-91).
THEOREM OneListIsSeen == Spec => []SeesOneList
<1>1. DispatchIInv => SeesOneList
  BY DEF DispatchIInv, DispatchInv, SeesOneList, Readers
<1>2. QED
  BY <1>1, InvHolds, PTL

\* A dispatch that ends has called every callback that is registered, unless one of them
\* has stopped it (Event.h:75-92).
THEOREM AllAreCalled == Spec => CallsAll
<1> DEFINE Ends == \A t \in Thread : at[t] = "call" /\ at'[t] = "idle" =>
                       interrupted'[t] \/ called'[t] = callbacks
<1>1. DispatchIInv /\ [Next]_vars => [Ends]_vars
  <2> SUFFICES ASSUME DispatchIInv, Next, NEW t \in Thread, at[t] = "call", at'[t] = "idle"
               PROVE  interrupted'[t] \/ called'[t] = callbacks
    OBVIOUS
  <2>0. at \in [Thread -> {"idle", "get", "start", "call"}]
    BY DEF DispatchIInv, TypesInv
  <2>1. \A f \in Function : ~Register(f) /\ ~Unregister(f)
    BY DEF Register, Unregister, dispatch
  <2>2. ~MainStep
    BY DEF MainStep, RegisterPush, UnregisterDelete, UnregisterCheck, UnregisterDestroy, dispatch
  <2>3. PICK r \in Thread : Dispatch(r) \/ DispatchStep(r)
    BY <2>1, <2>2 DEF Next
  <2>4. r = t
    BY <2>0, <2>3 DEF Dispatch, DispatchStep, GetList, StartIterating, Call, Goto
  <2>5. PICK go \in BOOLEAN : Call(t, go)
    BY <2>3, <2>4 DEF Dispatch, DispatchStep, GetList, StartIterating, Goto
  <2>6. QED
    BY <2>5, CallSafe
<1>2. QED
  BY <1>1, InvHolds, PTL DEF Spec, CallsAll

==============================================================================
