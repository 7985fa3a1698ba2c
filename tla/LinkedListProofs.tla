---------------------------- MODULE LinkedListProofs ----------------------------
(***************************************************************************)
(* Proofs about CDList, for any items, values, ranks and uses: the items   *)
(* that can be reached from the head are allocated ones, and a list whose  *)
(* uses never mix pushes at the end with the calls that leave the tail     *)
(* behind is the sequence ListSpec promises.                               *)
(***************************************************************************)
EXTENDS LinkedList, SequenceTheorems, FiniteSetTheorems, WellFoundedInduction, TLAPS

(* Induction, for sets of natural numbers.                                 *)
LEMMA InductiveSet ==
  ASSUME NEW S, S \subseteq Nat, 0 \in S, \A n \in S : n + 1 \in S
  PROVE  S = Nat
<1> SUFFICES ASSUME Nat \ S # {} PROVE FALSE
  OBVIOUS
<1>1. IsWellFoundedOn(OpToRel(<, Nat), Nat)
  BY NatLessThanWellFounded
<1>2. PICK x \in Nat \ S : \A y \in Nat \ S : <<y, x>> \notin OpToRel(<, Nat)
  BY <1>1, WFMin
<1>3. x # 0 /\ x - 1 \in Nat /\ x - 1 < x
  OBVIOUS
<1>4. x - 1 \in S
  BY <1>2, <1>3 DEF OpToRel
<1>5. QED
  BY <1>3, <1>4

LEMMA LeastOf ==
  ASSUME NEW I, I \subseteq Nat, I # {}
  PROVE  Min(I) \in I /\ \A j \in I : Min(I) <= j
<1>1. IsWellFoundedOn(OpToRel(<, Nat), Nat)
  BY NatLessThanWellFounded
<1>2. PICK x \in I : \A y \in I : <<y, x>> \notin OpToRel(<, Nat)
  BY <1>1, WFMin
<1>3. ASSUME NEW y \in I PROVE x <= y
  <2>1. ~(y < x)
    BY <1>2 DEF OpToRel
  <2>2. QED
    BY <2>1
<1>4. QED
  BY <1>3 DEF Min

(* The position SelectInSeq returns, I being those that pass its test.     *)
LEMMA Selected ==
  ASSUME NEW n \in Nat, NEW I, I \subseteq 1..n
  PROVE  LET k == IF I # {} THEN Min(I) ELSE 0 IN
         /\ k \in 0..n
         /\ k = 0 <=> I = {}
         /\ k # 0 => k \in I /\ \A j \in I : k <= j
<1>1. CASE I = {}
  BY <1>1
<1>2. CASE I # {}
  <2>1. I \subseteq Nat
    OBVIOUS
  <2>2. Min(I) \in I /\ \A j \in I : Min(I) <= j
    BY <1>2, <2>1, LeastOf
  <2>3. Min(I) \in 1..n
    BY <2>2
  <2> DEFINE k == Min(I)
  <2> HIDE DEF k
  <2>4. k \in 1..n /\ k \in I /\ \A j \in I : k <= j
    BY <2>2, <2>3 DEF k
  <2>5. k \in 0..n /\ k # 0
    BY <2>4
  <2>6. QED
    BY <1>2, <2>4, <2>5 DEF k
<1>3. QED
  BY <1>1, <1>2

(* A function defined along 1..n by steps that stay in a set.              *)
Walks(f, D, a, n, step) ==
  /\ f \in [0..n -> D]
  /\ f[0] = a
  /\ \A i \in 1..n : f[i] = step[<<f[i - 1], i>>]

LEMMA Recursion ==
  ASSUME NEW D, NEW a \in D, NEW n \in Nat, NEW step \in [D \X (1..n) -> D]
  PROVE  \E f : Walks(f, D, a, n, step)
<1> DEFINE Good(m, f) == f[0] = a /\ \A i \in 1..m : f[i] = step[<<f[i - 1], i>>]
           S == {m \in Nat : m <= n => \E f \in [0..m -> D] : Good(m, f)}
<1>1. 0 \in S
  <2>1. [i \in 0..0 |-> a] \in [0..0 -> D] /\ Good(0, [i \in 0..0 |-> a])
    OBVIOUS
  <2>2. QED
    BY <2>1
<1>2. ASSUME NEW m \in S PROVE m + 1 \in S
  <2> SUFFICES ASSUME m + 1 <= n PROVE \E f \in [0..(m + 1) -> D] : Good(m + 1, f)
    OBVIOUS
  <2>1. m \in Nat /\ m <= n /\ m + 1 \in 1..n
    OBVIOUS
  <2>2. PICK f \in [0..m -> D] : Good(m, f)
    BY <2>1
  <2> DEFINE last == step[<<f[m], m + 1>>]
             g == [i \in 0..(m + 1) |-> IF i <= m THEN f[i] ELSE last]
  <2>3. last \in D
    <3>1. f[m] \in D
      BY <2>1
    <3>2. <<f[m], m + 1>> \in D \X (1..n)
      BY <2>1, <3>1
    <3>3. QED
      BY <3>2
  <2> HIDE DEF last
  <2>4. g \in [0..(m + 1) -> D]
    BY <2>1, <2>3
  <2>5. (\A i \in 0..m : g[i] = f[i]) /\ g[m + 1] = last
    BY <2>1
  <2> HIDE DEF g
  <2>6. ASSUME NEW i \in 1..(m + 1) PROVE g[i] = step[<<g[i - 1], i>>]
    <3>1. CASE i \in 1..m
      <4>1. i \in 0..m /\ i - 1 \in 0..m
        BY <2>1, <3>1
      <4>2. f[i] = step[<<f[i - 1], i>>]
        BY <2>2, <3>1
      <4>3. QED
        BY <2>5, <4>1, <4>2
    <3>2. CASE i = m + 1
      <4>1. i - 1 = m /\ m \in 0..m
        BY <2>1, <3>2
      <4>2. QED
        BY <2>5, <3>2, <4>1 DEF last
    <3>3. QED
      BY <2>1, <3>1, <3>2
  <2>7. g[0] = a
    BY <2>1, <2>2, <2>5
  <2>8. QED
    BY <2>4, <2>6, <2>7
<1>3. S = Nat
  <2> HIDE DEF S
  <2>1. S \subseteq Nat
    BY DEF S
  <2>2. QED
    BY <1>1, <1>2, <2>1, InductiveSet
<1>4. n \in S
  BY <1>3
<1>5. QED
  BY <1>4 DEF Walks

(* Two functions that take the same steps are the same.                    *)
StepAlike(n, f, g) ==
  /\ f[0] = g[0]
  /\ \A i \in 1..n : f[i - 1] = g[i - 1] => f[i] = g[i]

LEMMA Agree ==
  ASSUME NEW n \in Nat, NEW f, NEW g, StepAlike(n, f, g)
  PROVE  \A i \in 0..n : f[i] = g[i]
<1> DEFINE S == {i \in Nat : i <= n => f[i] = g[i]}
<1>1. 0 \in S
  BY DEF StepAlike
<1>2. ASSUME NEW i \in S PROVE i + 1 \in S
  <2> SUFFICES ASSUME i + 1 <= n PROVE f[i + 1] = g[i + 1]
    OBVIOUS
  <2>1. i \in Nat /\ i + 1 \in 1..n /\ (i + 1) - 1 = i /\ f[i] = g[i]
    OBVIOUS
  <2>2. QED
    BY <2>1 DEF StepAlike
<1>3. S = Nat
  <2> HIDE DEF S
  <2>1. S \subseteq Nat
    BY DEF S
  <2>2. QED
    BY <1>1, <1>2, <2>1, InductiveSet
<1>4. ASSUME NEW i \in 0..n PROVE f[i] = g[i]
  <2>1. i \in S /\ i <= n
    BY <1>3
  <2>2. QED
    BY <2>1
<1>5. QED
  BY <1>4

LEMMA Inserted ==
  ASSUME NEW S, NEW s \in Seq(S), NEW k \in 1..(Len(s) + 1), NEW v \in S
  PROVE  LET t == InsertAt(s, k, v) IN
         /\ t \in Seq(S) /\ Len(t) = Len(s) + 1
         /\ \A j \in 1..(k - 1) : t[j] = s[j]
         /\ t[k] = v
         /\ \A j \in (k + 1)..(Len(s) + 1) : t[j] = s[j - 1]
<1> DEFINE a == SubSeq(s, 1, k - 1)
           b == SubSeq(s, k, Len(s))
<1>0. Len(s) \in Nat /\ k \in Nat
  OBVIOUS
<1>1. a \in Seq(S) /\ Len(a) = k - 1 /\ \A j \in 1..(k - 1) : a[j] = s[j]
  BY <1>0, SubSeqProperties
<1>2. b \in Seq(S) /\ Len(b) = Len(s) + 1 - k
      /\ \A j \in 1..(Len(s) + 1 - k) : b[j] = s[k + j - 1]
  BY <1>0, SubSeqProperties
<1> HIDE DEF a, b
<1>3. <<v>> \in Seq(S) /\ Len(<<v>>) = 1 /\ <<v>>[1] = v
  OBVIOUS
<1> DEFINE c == a \o <<v>>
<1>4. c \in Seq(S) /\ Len(c) = k /\ c[k] = v /\ \A j \in 1..(k - 1) : c[j] = a[j]
  BY <1>0, <1>1, <1>3, ConcatProperties
<1> HIDE DEF c
<1>5. /\ c \o b \in Seq(S) /\ Len(c \o b) = Len(s) + 1
      /\ \A j \in 1..(Len(s) + 1) : (c \o b)[j] = IF j <= k THEN c[j] ELSE b[j - k]
  <2>1. /\ c \o b \in Seq(S) /\ Len(c \o b) = Len(c) + Len(b)
        /\ \A j \in 1..(Len(c) + Len(b)) : (c \o b)[j] = IF j <= Len(c) THEN c[j] ELSE b[j - Len(c)]
    BY <1>2, <1>4, ConcatProperties
  <2>2. Len(c) + Len(b) = Len(s) + 1 /\ Len(c) = k
    BY <1>0, <1>2, <1>4
  <2>3. QED
    BY <2>1, <2>2
<1>7. InsertAt(s, k, v) = c \o b
  BY DEF InsertAt, a, b, c
<1> DEFINE w == c \o b
<1> HIDE DEF w
<1>8. \A j \in 1..(k - 1) : w[j] = s[j]
  BY <1>0, <1>1, <1>4, <1>5 DEF w
<1>9. w[k] = v
  BY <1>0, <1>4, <1>5 DEF w
<1>10. ASSUME NEW j \in (k + 1)..(Len(s) + 1) PROVE w[j] = s[j - 1]
  <2>1. j \in 1..(Len(s) + 1) /\ ~(j <= k)
    BY <1>0
  <2>2. w[j] = b[j - k]
    BY <1>5, <2>1 DEF w
  <2>3. j - k \in 1..(Len(s) + 1 - k) /\ k + (j - k) - 1 = j - 1
    BY <1>0
  <2>4. QED
    BY <1>2, <2>2, <2>3
<1>11. QED
  BY <1>5, <1>7, <1>8, <1>9, <1>10 DEF w

LEMMA Removed ==
  ASSUME NEW S, NEW s \in Seq(S), NEW k \in 1..Len(s)
  PROVE  LET t == RemoveAt(s, k) IN
         /\ t \in Seq(S) /\ Len(t) = Len(s) - 1
         /\ \A j \in 1..(Len(s) - 1) : t[j] = IF j < k THEN s[j] ELSE s[j + 1]
<1> DEFINE a == SubSeq(s, 1, k - 1)
           b == SubSeq(s, k + 1, Len(s))
<1>0. Len(s) \in Nat /\ k \in Nat
  OBVIOUS
<1>1. a \in Seq(S) /\ Len(a) = k - 1 /\ \A j \in 1..(k - 1) : a[j] = s[j]
  BY <1>0, SubSeqProperties
<1>2. b \in Seq(S) /\ Len(b) = Len(s) - k
      /\ \A j \in 1..(Len(s) - k) : b[j] = s[k + j]
  <2>1. \A i \in (k + 1)..Len(s) : s[i] \in S
    BY <1>0
  <2>2. /\ b \in Seq(S) /\ Len(b) = IF k + 1 <= Len(s) THEN Len(s) - (k + 1) + 1 ELSE 0
        /\ \A j \in 1..(Len(s) - (k + 1) + 1) : b[j] = s[(k + 1) + j - 1]
    BY <1>0, <2>1, SubSeqProperties
  <2> HIDE DEF b
  <2>3. ASSUME NEW j \in 1..(Len(s) - k) PROVE b[j] = s[k + j]
    <3>1. j \in 1..(Len(s) - (k + 1) + 1) /\ (k + 1) + j - 1 = k + j
      BY <1>0
    <3>2. QED
      BY <2>2, <3>1
  <2>4. QED
    BY <1>0, <2>2, <2>3
<1> HIDE DEF a, b
<1>3. /\ a \o b \in Seq(S) /\ Len(a \o b) = Len(s) - 1
      /\ \A j \in 1..(Len(s) - 1) : (a \o b)[j] = IF j <= k - 1 THEN a[j] ELSE b[j - (k - 1)]
  <2>1. /\ a \o b \in Seq(S) /\ Len(a \o b) = Len(a) + Len(b)
        /\ \A j \in 1..(Len(a) + Len(b)) : (a \o b)[j] = IF j <= Len(a) THEN a[j] ELSE b[j - Len(a)]
    BY <1>1, <1>2, ConcatProperties
  <2>2. Len(a) + Len(b) = Len(s) - 1 /\ Len(a) = k - 1
    BY <1>0, <1>1, <1>2
  <2>3. QED
    BY <2>1, <2>2
<1>4. RemoveAt(s, k) = a \o b
  BY DEF RemoveAt, a, b
<1> DEFINE w == a \o b
<1> HIDE DEF w
<1>5. ASSUME NEW j \in 1..(Len(s) - 1) PROVE w[j] = IF j < k THEN s[j] ELSE s[j + 1]
  <2>1. CASE j < k
    BY <1>0, <1>1, <1>3, <2>1 DEF w
  <2>2. CASE ~(j < k)
    <3>1. ~(j <= k - 1) /\ j - (k - 1) \in 1..(Len(s) - k) /\ k + (j - (k - 1)) = j + 1
      BY <1>0, <2>2
    <3>2. w[j] = b[j - (k - 1)]
      BY <1>3, <3>1 DEF w
    <3>3. QED
      BY <1>2, <2>2, <3>1, <3>2
  <2>3. QED
    BY <2>1, <2>2
<1>6. QED
  BY <1>3, <1>4, <1>5 DEF w

------------------------------------------------------------------------------
(* The items from the first on, as the pointers give them.                 *)

NoRepeats(s) == \A i, j \in 1..Len(s) : s[i] = s[j] => i = j

IsChain(c, first, links) ==
  /\ c \in Seq(Node)
  /\ NoRepeats(c)
  /\ first = FirstOf(c)
  /\ \A i \in 1..Len(c) : links[c[i]] = IF i < Len(c) THEN c[i + 1] ELSE Null

LEMMA FirstIs ==
  ASSUME NEW c \in Seq(Node)
  PROVE  FirstOf(c) = IF Len(c) = 0 THEN Null ELSE c[1]
  BY DEF FirstOf

(* As many items as the sequence has places.                               *)
LEMMA AsManyItems ==
  ASSUME NodeAssumption, NEW c \in Seq(Node), NoRepeats(c)
  PROVE  /\ ToSet(c) \subseteq Node
         /\ Cardinality(ToSet(c)) = Len(c)
         /\ Cardinality(Node) \in Nat
         /\ Len(c) <= Cardinality(Node)
<1>1. Len(c) \in Nat /\ DOMAIN c = 1..Len(c) /\ c \in [1..Len(c) -> Node]
  OBVIOUS
<1>2. ToSet(c) \subseteq Node
  BY <1>1 DEF ToSet
<1>3. IsFiniteSet(1..Len(c)) /\ Cardinality(1..Len(c)) = Len(c)
  <2>1. IsFiniteSet(1..Len(c)) /\ Cardinality(1..Len(c)) = IF 1 > Len(c) THEN 0 ELSE Len(c) - 1 + 1
    BY <1>1, FS_Interval
  <2>2. QED
    BY <1>1, <2>1
<1>4. c \in Bijection(1..Len(c), ToSet(c))
  <2>1. c \in [1..Len(c) -> ToSet(c)]
    BY <1>1 DEF ToSet
  <2>2. \A t \in ToSet(c) : \E i \in 1..Len(c) : c[i] = t
    BY <1>1 DEF ToSet
  <2>3. QED
    BY <2>1, <2>2 DEF Bijection, Injection, IsInjective, Surjection, NoRepeats
<1>5. Cardinality(ToSet(c)) = Len(c)
  BY <1>3, <1>4, FS_Bijection DEF ExistsBijection
<1>6. IsFiniteSet(Node) /\ Cardinality(Node) \in Nat
  BY FS_CardinalityType DEF NodeAssumption
<1>7. Cardinality(ToSet(c)) <= Cardinality(Node)
  BY <1>2, <1>6, FS_Subset
<1>8. QED
  BY <1>2, <1>5, <1>6, <1>7

(* Following the pointers of a chain gives the chain.                      *)
LEMMA FollowingIs ==
  ASSUME NodeAssumption, NEW c, NEW first, NEW links, IsChain(c, first, links)
  PROVE  Following(first, links) = c
<1> DEFINE N == Cardinality(Node)
           Reads(f) == f = [i \in 0..N |-> IF i = 0 THEN first
                                           ELSE IF f[i - 1] = Null THEN Null ELSE links[f[i - 1]]]
           at == CHOOSE f : Reads(f)
           place == [i \in 0..N |-> IF i < Len(c) THEN c[i + 1] ELSE Null]
<1>1. c \in Seq(Node) /\ Len(c) \in Nat /\ N \in Nat /\ Len(c) <= N /\ Null \notin Node
      /\ \A i \in 1..Len(c) : c[i] \in Node
  BY AsManyItems DEF IsChain, NodeAssumption
<1>2. first = IF Len(c) = 0 THEN Null ELSE c[1]
  BY <1>1, FirstIs DEF IsChain
<1>3. \A i \in 1..Len(c) : links[c[i]] = IF i < Len(c) THEN c[i + 1] ELSE Null
  BY DEF IsChain
<1> HIDE DEF N
<1>4. \A i \in 0..N : place[i] = IF i < Len(c) THEN c[i + 1] ELSE Null
  OBVIOUS
<1>5. ASSUME NEW i \in 0..N
      PROVE  place[i] = IF i = 0 THEN first
                        ELSE IF place[i - 1] = Null THEN Null ELSE links[place[i - 1]]
  <2> HIDE DEF place
  <2>1. CASE i = 0
    <3>1. 0 \in 0..N /\ (0 < Len(c) <=> Len(c) # 0) /\ 0 + 1 = 1
      BY <1>1
    <3>2. QED
      BY <1>2, <1>4, <2>1, <3>1
  <2>2. CASE i # 0
    <3>1. i - 1 \in 0..N /\ (i - 1) + 1 = i /\ i \in Nat
      BY <1>1, <2>2
    <3>2. place[i - 1] = IF i - 1 < Len(c) THEN c[i] ELSE Null
      BY <1>4, <3>1
    <3>3. CASE i <= Len(c)
      <4>1. i \in 1..Len(c) /\ i - 1 < Len(c)
        BY <1>1, <2>2, <3>3
      <4>2. place[i - 1] = c[i] /\ c[i] # Null
        BY <1>1, <3>2, <4>1
      <4>3. links[c[i]] = IF i < Len(c) THEN c[i + 1] ELSE Null
        BY <1>3, <4>1
      <4>4. QED
        BY <1>4, <2>2, <4>2, <4>3
    <3>4. CASE ~(i <= Len(c))
      <4>1. ~(i - 1 < Len(c)) /\ ~(i < Len(c))
        BY <1>1, <3>1, <3>4
      <4>2. QED
        BY <1>4, <2>2, <3>2, <4>1
    <3>5. QED
      BY <3>3, <3>4
  <2>3. QED
    BY <2>1, <2>2
<1>6. Reads(place)
  <2>1. place = [i \in 0..N |-> place[i]]
    OBVIOUS
  <2> HIDE DEF place
  <2>2. QED
    BY <1>5, <2>1
<1> HIDE DEF place
<1>7. Reads(at)
  BY <1>6
<1> HIDE DEF at
<1>8. \A i \in 0..N : at[i] = place[i]
  <2>1. \A i \in 0..N : at[i] = IF i = 0 THEN first
                               ELSE IF at[i - 1] = Null THEN Null ELSE links[at[i - 1]]
    BY <1>7
  <2> HIDE DEF Reads
  <2>2. at[0] = place[0]
    BY <1>1, <1>5, <2>1
  <2>3. ASSUME NEW i \in 1..N, at[i - 1] = place[i - 1] PROVE at[i] = place[i]
    <3>1. i \in 0..N /\ i # 0
      BY <1>1
    <3>2. QED
      BY <1>5, <2>1, <2>3, <3>1
  <2>4. StepAlike(N, at, place)
    BY <2>2, <2>3 DEF StepAlike
  <2>5. QED
    BY <1>1, <2>4, Agree
<1> DEFINE size == Cardinality({i \in 0..(N - 1) : at[i] # Null})
<1>9. {i \in 0..(N - 1) : at[i] # Null} = 0..(Len(c) - 1)
  <2>1. ASSUME NEW i \in 0..(N - 1) PROVE at[i] # Null <=> i \in 0..(Len(c) - 1)
    <3>1. i \in 0..N /\ i \in Nat
      BY <1>1
    <3>2. at[i] = IF i < Len(c) THEN c[i + 1] ELSE Null
      BY <1>4, <1>8, <3>1
    <3>3. CASE i < Len(c)
      <4>1. i + 1 \in 1..Len(c) /\ i \in 0..(Len(c) - 1)
        BY <1>1, <3>1, <3>3
      <4>2. QED
        BY <1>1, <3>2, <3>3, <4>1
    <3>4. CASE ~(i < Len(c))
      <4>1. i \notin 0..(Len(c) - 1)
        BY <1>1, <3>1, <3>4
      <4>2. QED
        BY <3>2, <3>4, <4>1
    <3>5. QED
      BY <3>3, <3>4
  <2>2. 0..(Len(c) - 1) \subseteq 0..(N - 1)
    BY <1>1
  <2>3. QED
    BY <2>1, <2>2
<1>10. size = Len(c)
  <2> DEFINE last == Len(c) - 1
  <2>1. last \in Int
    BY <1>1
  <2>2. size = Cardinality(0..last)
    BY <1>9
  <2> HIDE DEF last, size
  <2>3. Cardinality(0..last) = IF 0 > last THEN 0 ELSE last - 0 + 1
    BY <2>1, FS_Interval
  <2>4. QED
    BY <1>1, <2>2, <2>3 DEF last
<1>11. Following(first, links) = [i \in 1..size |-> at[i - 1]]
  BY DEF Following, at, Reads, N
<1> HIDE DEF size
<1>12. ASSUME NEW i \in 1..Len(c) PROVE at[i - 1] = c[i]
  <2>1. i - 1 \in 0..N /\ i - 1 < Len(c) /\ (i - 1) + 1 = i
    BY <1>1
  <2>2. QED
    BY <1>4, <1>8, <2>1
<1>13. [i \in 1..Len(c) |-> at[i - 1]] = [i \in 1..Len(c) |-> c[i]]
  BY <1>12
<1>14. c = [i \in 1..Len(c) |-> c[i]]
  BY <1>1
<1>15. QED
  BY <1>10, <1>11, <1>13, <1>14

(* Linking the items of a sequence makes a chain of them.                  *)
LEMMA LinkedIs ==
  ASSUME NEW c \in Seq(Node), NoRepeats(c)
  PROVE  IsChain(c, FirstOf(c), Linked(c)) /\ Linked(c) = [n \in Node |-> Linked(c)[n]]
<1>1. Len(c) \in Nat /\ \A i \in 1..Len(c) : c[i] \in Node
  OBVIOUS
<1>2. ASSUME NEW i \in 1..Len(c)
      PROVE  Linked(c)[c[i]] = IF i < Len(c) THEN c[i + 1] ELSE Null
  <2> DEFINE I == {j \in 1..Len(c) : c[j] = c[i]}
             k == IF I # {} THEN Min(I) ELSE 0
  <2>1. Linked(c)[c[i]] = IF k \in 1..(Len(c) - 1) THEN c[k + 1] ELSE Null
    BY <1>1 DEF Linked, SelectInSeq
  <2>2. I = {i}
    BY DEF NoRepeats
  <2>3. k = i
    <3> HIDE DEF I
    <3>1. I \subseteq 1..Len(c)
      BY DEF I
    <3>2. (k = 0 <=> I = {}) /\ (k # 0 => k \in I)
      BY <1>1, <3>1, Selected
    <3>3. QED
      BY <2>2, <3>2
  <2> HIDE DEF k
  <2>4. i \in 1..(Len(c) - 1) <=> i < Len(c)
    BY <1>1
  <2>5. QED
    BY <2>1, <2>3, <2>4
<1>3. Linked(c) = [n \in Node |-> Linked(c)[n]]
  BY DEF Linked
<1>4. QED
  BY <1>2, <1>3 DEF IsChain

(* A chain depends on the links of its items alone.                        *)
LEMMA ChainKept ==
  ASSUME NEW c, NEW first, NEW links, IsChain(c, first, links),
         NEW links2, \A n \in ToSet(c) : links2[n] = links[n]
  PROVE  IsChain(c, first, links2)
<1>1. \A i \in 1..Len(c) : c[i] \in ToSet(c)
  BY DEF IsChain, ToSet
<1>2. QED
  BY <1>1 DEF IsChain

------------------------------------------------------------------------------
(* Sequences of items and the values they stand for: what the operations   *)
(* make of the one they make of the other.                                 *)

ValuesBy(val, s) == [i \in DOMAIN s |-> val[s[i]]]
Held(val) == {val[n] : n \in Node}

LEMMA ValuesAre ==
  ASSUME NEW val, NEW s \in Seq(Node)
  PROVE  /\ ValuesBy(val, s) \in Seq(Held(val))
         /\ Len(ValuesBy(val, s)) = Len(s)
         /\ \A i \in 1..Len(s) : ValuesBy(val, s)[i] = val[s[i]]
<1> DEFINE t == [i \in 1..Len(s) |-> val[s[i]]]
<1>1. Len(s) \in Nat /\ DOMAIN s = 1..Len(s) /\ \A i \in 1..Len(s) : s[i] \in Node
  OBVIOUS
<1>2. ValuesBy(val, s) = t
  BY <1>1 DEF ValuesBy
<1>3. \A i \in 1..Len(s) : val[s[i]] \in Held(val)
  BY <1>1 DEF Held
<1>4. t \in Seq(Held(val)) /\ Len(t) = Len(s) /\ \A i \in 1..Len(s) : t[i] = val[s[i]]
  BY <1>1, <1>3
<1>5. QED
  BY <1>2, <1>4

(* A sequence with these values is what stands for the items.              *)
LEMMA ValuesEqual ==
  ASSUME NEW val, NEW s \in Seq(Node), NEW S, NEW t \in Seq(S), Len(t) = Len(s),
         \A i \in 1..Len(s) : t[i] = val[s[i]]
  PROVE  ValuesBy(val, s) = t
<1>1. Len(s) \in Nat /\ DOMAIN s = 1..Len(s) /\ DOMAIN t = 1..Len(s)
  OBVIOUS
<1>2. t = [i \in 1..Len(s) |-> t[i]]
  BY <1>1
<1>3. QED
  BY <1>1, <1>2 DEF ValuesBy

SameValues(val, val2, T) == \A n \in T : val2[n] = val[n]

LEMMA ValuesOfSame ==
  ASSUME NEW val, NEW val2, NEW s \in Seq(Node), SameValues(val, val2, ToSet(s))
  PROVE  ValuesBy(val2, s) = ValuesBy(val, s)
  BY DEF ValuesBy, ToSet, SameValues

LEMMA Placed ==
  ASSUME NEW c \in Seq(Node), NoRepeats(c), NEW k \in 1..(Len(c) + 1), NEW n \in Node \ ToSet(c),
         NEW val, NEW val2, SameValues(val, val2, ToSet(c))
  PROVE  LET t == InsertAt(c, k, n) IN
         /\ t \in Seq(Node) /\ Len(t) = Len(c) + 1 /\ NoRepeats(t)
         /\ ToSet(t) = ToSet(c) \cup {n}
         /\ ValuesBy(val2, t) = InsertAt(ValuesBy(val, c), k, val2[n])
<1> DEFINE t == InsertAt(c, k, n)
<1>0. Len(c) \in Nat /\ k \in Nat /\ DOMAIN c = 1..Len(c)
  OBVIOUS
<1>1. /\ t \in Seq(Node) /\ Len(t) = Len(c) + 1
      /\ \A j \in 1..(k - 1) : t[j] = c[j]
      /\ t[k] = n
      /\ \A j \in (k + 1)..(Len(c) + 1) : t[j] = c[j - 1]
  <2>1. n \in Node
    OBVIOUS
  <2>2. QED
    BY <2>1, Inserted
<1> HIDE DEF t
<1>2. DOMAIN t = 1..(Len(c) + 1)
  BY <1>1
<1>3. \A j \in 1..Len(c) : c[j] \in ToSet(c) /\ c[j] # n
  BY <1>0 DEF ToSet
<1>4. ASSUME NEW j \in 1..(Len(c) + 1)
      PROVE  \/ j < k /\ j \in 1..(k - 1) /\ j \in 1..Len(c)
             \/ j = k
             \/ j > k /\ j \in (k + 1)..(Len(c) + 1) /\ j - 1 \in 1..Len(c)
  BY <1>0
<1>5. NoRepeats(t)
  <2> SUFFICES ASSUME NEW i \in 1..(Len(c) + 1), NEW j \in 1..(Len(c) + 1), t[i] = t[j]
               PROVE  i = j
    BY <1>1 DEF NoRepeats
  <2>0. \A p, q \in 1..Len(c) : c[p] = c[q] => p = q
    BY DEF NoRepeats
  <2>1. i = k <=> j = k
    BY <1>1, <1>3, <1>4
  <2>2. CASE i < k
    <3>1. i \in 1..(k - 1) /\ i \in 1..Len(c) /\ t[i] = c[i] /\ j # k
      BY <1>0, <1>1, <2>1, <2>2
    <3>2. CASE j < k
      <4>1. j \in 1..Len(c) /\ t[j] = c[j]
        BY <1>0, <1>1, <3>2
      <4>2. QED
        BY <2>0, <3>1, <4>1
    <3>3. CASE j > k
      <4>1. j - 1 \in 1..Len(c) /\ t[j] = c[j - 1]
        BY <1>0, <1>1, <1>4, <3>3
      <4>2. i = j - 1
        BY <2>0, <3>1, <4>1
      <4>3. QED
        BY <1>0, <2>2, <3>3, <4>2
    <3>4. QED
      BY <1>0, <3>1, <3>2, <3>3
  <2>3. CASE i > k
    <3>1. i - 1 \in 1..Len(c) /\ t[i] = c[i - 1] /\ j # k
      BY <1>0, <1>1, <1>4, <2>1, <2>3
    <3>2. CASE j < k
      <4>1. j \in 1..Len(c) /\ t[j] = c[j]
        BY <1>0, <1>1, <3>2
      <4>2. j = i - 1
        BY <2>0, <3>1, <4>1
      <4>3. QED
        BY <1>0, <2>3, <3>2, <4>2
    <3>3. CASE j > k
      <4>1. j - 1 \in 1..Len(c) /\ t[j] = c[j - 1]
        BY <1>0, <1>1, <1>4, <3>3
      <4>2. i - 1 = j - 1
        BY <2>0, <3>1, <4>1
      <4>3. QED
        BY <4>2
    <3>4. QED
      BY <1>0, <3>1, <3>2, <3>3
  <2>4. QED
    BY <1>0, <2>1, <2>2, <2>3
<1>6. ToSet(t) = ToSet(c) \cup {n}
  <2>1. ASSUME NEW j \in 1..(Len(c) + 1) PROVE t[j] \in ToSet(c) \cup {n}
    BY <1>1, <1>3, <1>4
  <2>2. ASSUME NEW j \in 1..Len(c) PROVE \E i \in 1..(Len(c) + 1) : t[i] = c[j]
    <3>1. CASE j < k
      <4>1. j \in 1..(k - 1) /\ j \in 1..(Len(c) + 1)
        BY <1>0, <3>1
      <4>2. QED
        BY <1>1, <4>1
    <3>2. CASE ~(j < k)
      <4>1. j + 1 \in (k + 1)..(Len(c) + 1) /\ j + 1 \in 1..(Len(c) + 1) /\ (j + 1) - 1 = j
        BY <1>0, <3>2
      <4>2. t[j + 1] = c[j]
        BY <1>1, <4>1
      <4>3. QED
        BY <4>1, <4>2
    <3>3. QED
      BY <3>1, <3>2
  <2>3. k \in 1..(Len(c) + 1)
    OBVIOUS
  <2>4. ToSet(t) = {t[j] : j \in 1..(Len(c) + 1)} /\ ToSet(c) = {c[j] : j \in 1..Len(c)}
    BY <1>0, <1>2 DEF ToSet
  <2>5. t[k] = n
    BY <1>1
  <2> HIDE <1>1, <1>0, <1>2, <1>3, <1>4, <1>5
  <2>6. QED
    BY <2>1, <2>2, <2>3, <2>4, <2>5
<1>7. ValuesBy(val2, t) = InsertAt(ValuesBy(val, c), k, val2[n])
  <2> DEFINE S == Held(val) \cup {val2[n]}
             u == ValuesBy(val, c)
             w == InsertAt(u, k, val2[n])
  <2>1. u \in Seq(S) /\ Len(u) = Len(c) /\ \A i \in 1..Len(c) : u[i] = val[c[i]]
    <3>1. u \in Seq(Held(val)) /\ Len(u) = Len(c) /\ \A i \in 1..Len(c) : u[i] = val[c[i]]
      BY ValuesAre
    <3> HIDE DEF u
    <3>2. QED
      BY <3>1, SeqMonotonic
  <2> HIDE DEF u
  <2>2. val2[n] \in S
    OBVIOUS
  <2> HIDE DEF S
  <2>3. /\ w \in Seq(S) /\ Len(w) = Len(c) + 1
        /\ \A j \in 1..(k - 1) : w[j] = u[j]
        /\ w[k] = val2[n]
        /\ \A j \in (k + 1)..(Len(c) + 1) : w[j] = u[j - 1]
    BY <2>1, <2>2, Inserted
  <2> HIDE DEF w
  <2>4. ASSUME NEW j \in 1..(Len(c) + 1) PROVE w[j] = val2[t[j]]
    <3>1. CASE j < k
      <4>1. j \in 1..(k - 1) /\ j \in 1..Len(c)
        BY <1>4, <3>1
      <4>2. w[j] = val[c[j]] /\ t[j] = c[j]
        BY <1>1, <2>1, <2>3, <4>1
      <4>3. QED
        BY <1>3, <4>1, <4>2 DEF SameValues
    <3>2. CASE j = k
      BY <1>1, <2>3, <3>2
    <3>3. CASE j > k
      <4>1. j \in (k + 1)..(Len(c) + 1) /\ j - 1 \in 1..Len(c)
        BY <1>0, <1>4, <3>3
      <4>2. w[j] = val[c[j - 1]] /\ t[j] = c[j - 1]
        BY <1>1, <2>1, <2>3, <4>1
      <4>3. QED
        BY <1>3, <4>1, <4>2 DEF SameValues
    <3>4. QED
      BY <1>0, <3>1, <3>2, <3>3
  <2>5. ValuesBy(val2, t) = w
    BY <1>1, <2>3, <2>4, ValuesEqual
  <2>6. QED
    BY <2>5 DEF w, u
<1>8. QED
  BY <1>1, <1>5, <1>6, <1>7 DEF t

(* cd_ListInsertSorted puts the item where its value belongs.              *)
SortedBy(val, s, v, n) ==
  LET i == SelectInSeq(ValuesBy(val, s), LAMBDA x : Rank[x] >= Rank[v]) IN
  InsertAt(s, IF i = 0 THEN Len(s) + 1 ELSE i, n)

(* Where a value belongs.                                                  *)
PlaceOf(s, v) ==
  LET I == {i \in 1..Len(s) : Rank[s[i]] >= Rank[v]} IN
  IF I # {} THEN Min(I) ELSE Len(s) + 1

LEMMA PlaceIs ==
  ASSUME NEW S, NEW s \in Seq(S), NEW v
  PROVE  /\ PlaceOf(s, v) \in 1..(Len(s) + 1)
         /\ Sequence!Sorted(s, v) = InsertAt(s, PlaceOf(s, v), v)
<1> DEFINE I == {i \in 1..Len(s) : Rank[s[i]] >= Rank[v]}
           k == IF I # {} THEN Min(I) ELSE 0
<1>1. Len(s) \in Nat
  OBVIOUS
<1>2. k \in 0..Len(s) /\ (k = 0 <=> I = {})
  <2>1. I \subseteq 1..Len(s)
    OBVIOUS
  <2> HIDE DEF I
  <2>2. QED
    BY <1>1, <2>1, Selected
<1>3. Sequence!Sorted(s, v) = InsertAt(s, IF k = 0 THEN Len(s) + 1 ELSE k, v)
  BY DEF Sequence!Sorted, Sequence!SelectInSeq, Sequence!InsertAt, Sequence!Min, InsertAt, Min
<1>4. PlaceOf(s, v) = IF k = 0 THEN Len(s) + 1 ELSE k
  <2>1. PlaceOf(s, v) = IF I # {} THEN k ELSE Len(s) + 1
    BY DEF PlaceOf
  <2> HIDE DEF I, k
  <2>2. QED
    BY <1>2, <2>1
<1> HIDE DEF I, k
<1>5. (IF k = 0 THEN Len(s) + 1 ELSE k) \in 1..(Len(s) + 1)
  BY <1>1, <1>2
<1>6. QED
  BY <1>3, <1>4, <1>5

LEMMA SortedByIs ==
  ASSUME NEW val, NEW s \in Seq(Node), NEW v, NEW n
  PROVE  /\ PlaceOf(ValuesBy(val, s), v) \in 1..(Len(s) + 1)
         /\ SortedBy(val, s, v, n) = InsertAt(s, PlaceOf(ValuesBy(val, s), v), n)
<1> DEFINE u == ValuesBy(val, s)
           I == {i \in 1..Len(u) : Rank[u[i]] >= Rank[v]}
           k == IF I # {} THEN Min(I) ELSE 0
<1>1. u \in Seq(Held(val)) /\ Len(u) = Len(s) /\ Len(u) \in Nat
  <2>1. u \in Seq(Held(val)) /\ Len(u) = Len(s)
    BY ValuesAre
  <2> HIDE DEF u
  <2>2. QED
    BY <2>1
<1>2. k \in 0..Len(u) /\ (k = 0 <=> I = {})
  <2>1. I \subseteq 1..Len(u)
    OBVIOUS
  <2> HIDE DEF I
  <2>2. QED
    BY <1>1, <2>1, Selected
<1>3. SortedBy(val, s, v, n) = InsertAt(s, IF k = 0 THEN Len(s) + 1 ELSE k, n)
  BY DEF SortedBy, SelectInSeq
<1>4. PlaceOf(u, v) = IF I # {} THEN k ELSE Len(u) + 1
  BY DEF PlaceOf
<1> HIDE DEF I, k
<1>5. PlaceOf(u, v) = IF k = 0 THEN Len(s) + 1 ELSE k
  BY <1>1, <1>2, <1>4
<1> HIDE DEF u
<1>6. PlaceOf(u, v) \in 1..(Len(s) + 1)
  BY <1>1, PlaceIs
<1>7. QED
  BY <1>3, <1>5, <1>6 DEF u

LEMMA SortedItems ==
  ASSUME NEW c \in Seq(Node), NoRepeats(c), NEW n \in Node \ ToSet(c),
         NEW val, NEW val2, SameValues(val, val2, ToSet(c))
  PROVE  LET t == SortedBy(val, c, val2[n], n) IN
         /\ t \in Seq(Node) /\ Len(t) = Len(c) + 1 /\ NoRepeats(t)
         /\ ToSet(t) = ToSet(c) \cup {n}
         /\ ValuesBy(val2, t) = Sequence!Sorted(ValuesBy(val, c), val2[n])
<1> DEFINE k == PlaceOf(ValuesBy(val, c), val2[n])
           t == InsertAt(c, k, n)
<1>1. k \in 1..(Len(c) + 1) /\ SortedBy(val, c, val2[n], n) = t
  BY SortedByIs
<1>2. Sequence!Sorted(ValuesBy(val, c), val2[n]) = InsertAt(ValuesBy(val, c), k, val2[n])
  <2>1. ValuesBy(val, c) \in Seq(Held(val))
    BY ValuesAre
  <2>2. QED
    BY <2>1, PlaceIs
<1> HIDE DEF k
<1>3. /\ t \in Seq(Node) /\ Len(t) = Len(c) + 1 /\ NoRepeats(t)
      /\ ToSet(t) = ToSet(c) \cup {n}
      /\ ValuesBy(val2, t) = InsertAt(ValuesBy(val, c), k, val2[n])
  BY <1>1, Placed
<1>4. QED
  BY <1>1, <1>2, <1>3

(* An item pushed behind the k-th cuts off those behind it.                *)
LEMMA PushedItems ==
  ASSUME NEW c \in Seq(Node), NoRepeats(c), NEW k \in 0..Len(c), NEW n \in Node \ ToSet(c),
         NEW val, NEW val2, SameValues(val, val2, ToSet(c))
  PROVE  LET t == Append(SubSeq(c, 1, k), n) IN
         /\ t \in Seq(Node) /\ Len(t) = k + 1 /\ NoRepeats(t)
         /\ \A j \in 1..k : t[j] = c[j]
         /\ t[k + 1] = n
         /\ ToSet(t) \subseteq ToSet(c) \cup {n}
         /\ k = Len(c) => /\ ToSet(t) = ToSet(c) \cup {n}
                          /\ ValuesBy(val2, t) = Append(ValuesBy(val, c), val2[n])
<1> DEFINE a == SubSeq(c, 1, k)
           t == Append(a, n)
<1>0. Len(c) \in Nat /\ k \in Nat /\ DOMAIN c = 1..Len(c)
  OBVIOUS
<1>1. a \in Seq(Node) /\ Len(a) = k /\ \A j \in 1..k : a[j] = c[j]
  BY <1>0, SubSeqProperties
<1> HIDE DEF a
<1>2. /\ t \in Seq(Node) /\ Len(t) = k + 1
      /\ \A j \in 1..k : t[j] = c[j]
      /\ t[k + 1] = n
  BY <1>1
<1> HIDE DEF t
<1>3. \A j \in 1..Len(c) : c[j] \in ToSet(c) /\ c[j] # n
  BY <1>0 DEF ToSet
<1>4. \A j \in 1..k : j \in 1..Len(c)
  BY <1>0
<1>5. ASSUME NEW j \in 1..(k + 1) PROVE j \in 1..k \/ j = k + 1
  BY <1>0
<1>6. NoRepeats(t)
  <2> SUFFICES ASSUME NEW i \in 1..(k + 1), NEW j \in 1..(k + 1), t[i] = t[j] PROVE i = j
    BY <1>2 DEF NoRepeats
  <2>0. \A p, q \in 1..Len(c) : c[p] = c[q] => p = q
    BY DEF NoRepeats
  <2> HIDE <1>0, <1>1
  <2>1. CASE i \in 1..k /\ j \in 1..k
    BY <1>2, <1>4, <2>0, <2>1
  <2>2. CASE i = k + 1 /\ j \in 1..k
    BY <1>2, <1>3, <1>4, <2>2
  <2>3. CASE j = k + 1 /\ i \in 1..k
    BY <1>2, <1>3, <1>4, <2>3
  <2>4. QED
    BY <1>5, <2>1, <2>2, <2>3
<1>7. ToSet(t) = {t[j] : j \in 1..(k + 1)} /\ ToSet(c) = {c[j] : j \in 1..Len(c)}
  <2>1. DOMAIN t = 1..(k + 1)
    BY <1>2
  <2>2. QED
    BY <1>0, <2>1 DEF ToSet
<1>8. \A j \in 1..(k + 1) : t[j] \in ToSet(c) \cup {n}
  BY <1>2, <1>3, <1>4, <1>5
<1>9. ASSUME k = Len(c) PROVE ToSet(t) = ToSet(c) \cup {n}
  <2>1. k + 1 \in 1..(k + 1) /\ \A j \in 1..Len(c) : j \in 1..k /\ j \in 1..(k + 1)
    BY <1>0, <1>9
  <2>2. QED
    BY <1>2, <1>7, <1>8, <2>1
<1>10. ASSUME k = Len(c) PROVE ValuesBy(val2, t) = Append(ValuesBy(val, c), val2[n])
  <2> DEFINE S == Held(val) \cup {val2[n]}
             u == ValuesBy(val, c)
             w == Append(u, val2[n])
  <2>1. u \in Seq(S) /\ Len(u) = Len(c) /\ \A i \in 1..Len(c) : u[i] = val[c[i]]
    <3>1. u \in Seq(Held(val)) /\ Len(u) = Len(c) /\ \A i \in 1..Len(c) : u[i] = val[c[i]]
      BY ValuesAre
    <3> HIDE DEF u
    <3>2. QED
      BY <3>1, SeqMonotonic
  <2> HIDE DEF u
  <2>2. val2[n] \in S
    OBVIOUS
  <2> HIDE DEF S
  <2>3. /\ w \in Seq(S) /\ Len(w) = k + 1
        /\ \A j \in 1..k : w[j] = u[j]
        /\ w[k + 1] = val2[n]
    BY <1>10, <2>1, <2>2, AppendProperties
  <2> HIDE DEF w
  <2>4. ASSUME NEW j \in 1..(k + 1) PROVE w[j] = val2[t[j]]
    <3>1. CASE j \in 1..k
      BY <1>2, <1>3, <1>4, <2>1, <2>3, <3>1 DEF SameValues
    <3>2. CASE j = k + 1
      BY <1>2, <2>3, <3>2
    <3>3. QED
      BY <1>5, <3>1, <3>2
  <2>5. ValuesBy(val2, t) = w
    BY <1>2, <2>3, <2>4, ValuesEqual
  <2>6. QED
    BY <2>5 DEF w, u
<1>11. ToSet(t) \subseteq ToSet(c) \cup {n}
  BY <1>7, <1>8
<1>12. QED
  BY <1>2, <1>6, <1>9, <1>10, <1>11 DEF t, a

LEMMA RemovedItems ==
  ASSUME NEW c \in Seq(Node), NoRepeats(c), NEW k \in 1..Len(c),
         NEW val, NEW val2, SameValues(val, val2, ToSet(c) \ {c[k]})
  PROVE  LET t == RemoveAt(c, k) IN
         /\ t \in Seq(Node) /\ Len(t) = Len(c) - 1 /\ NoRepeats(t)
         /\ ToSet(t) = ToSet(c) \ {c[k]}
         /\ ValuesBy(val2, t) = RemoveAt(ValuesBy(val, c), k)
<1> DEFINE t == RemoveAt(c, k)
<1>0. Len(c) \in Nat /\ k \in Nat /\ DOMAIN c = 1..Len(c)
  OBVIOUS
<1>1. /\ t \in Seq(Node) /\ Len(t) = Len(c) - 1
      /\ \A j \in 1..(Len(c) - 1) : t[j] = IF j < k THEN c[j] ELSE c[j + 1]
  BY Removed
<1> HIDE DEF t
<1>2. DOMAIN t = 1..(Len(c) - 1)
  <2>1. DOMAIN t = 1..Len(t)
    BY <1>1
  <2>2. QED
    BY <1>1, <2>1
<1>3. ASSUME NEW j \in 1..(Len(c) - 1)
      PROVE  /\ j < k => j \in 1..Len(c) /\ t[j] = c[j]
             /\ ~(j < k) => j + 1 \in 1..Len(c) /\ t[j] = c[j + 1]
  BY <1>0, <1>1
<1>4. \A p, q \in 1..Len(c) : c[p] = c[q] => p = q
  BY DEF NoRepeats
<1>5. NoRepeats(t)
  <2> SUFFICES ASSUME NEW i \in 1..(Len(c) - 1), NEW j \in 1..(Len(c) - 1), t[i] = t[j] PROVE i = j
    BY <1>1 DEF NoRepeats
  <2>1. CASE i < k /\ j < k
    BY <1>3, <1>4, <2>1
  <2>2. CASE ~(i < k) /\ ~(j < k)
    <3>1. i + 1 = j + 1
      BY <1>3, <1>4, <2>2
    <3>2. QED
      BY <3>1
  <2>3. CASE i < k /\ ~(j < k)
    <3>1. i = j + 1
      BY <1>3, <1>4, <2>3
    <3>2. QED
      BY <1>0, <2>3, <3>1
  <2>4. CASE ~(i < k) /\ j < k
    <3>1. i + 1 = j
      BY <1>3, <1>4, <2>4
    <3>2. QED
      BY <1>0, <2>4, <3>1
  <2>5. QED
    BY <2>1, <2>2, <2>3, <2>4
<1>6. \A j \in 1..(Len(c) - 1) : t[j] \in ToSet(c) \ {c[k]}
  <2> SUFFICES ASSUME NEW j \in 1..(Len(c) - 1) PROVE t[j] \in ToSet(c) \ {c[k]}
    OBVIOUS
  <2>1. CASE j < k
    <3>1. j \in 1..Len(c) /\ t[j] = c[j] /\ j # k
      BY <1>0, <1>3, <2>1
    <3>2. QED
      BY <1>0, <1>4, <3>1 DEF ToSet
  <2>2. CASE ~(j < k)
    <3>1. j + 1 \in 1..Len(c) /\ t[j] = c[j + 1] /\ j + 1 # k
      BY <1>0, <1>3, <2>2
    <3>2. QED
      BY <1>0, <1>4, <3>1 DEF ToSet
  <2>3. QED
    BY <2>1, <2>2
<1>7. ToSet(t) = ToSet(c) \ {c[k]}
  <2>1. ASSUME NEW j \in 1..Len(c), c[j] # c[k] PROVE \E i \in 1..(Len(c) - 1) : t[i] = c[j]
    <3>1. CASE j < k
      <4>1. j \in 1..(Len(c) - 1)
        BY <1>0, <3>1
      <4>2. QED
        BY <1>3, <3>1, <4>1
    <3>2. CASE j > k
      <4>1. j - 1 \in 1..(Len(c) - 1) /\ ~(j - 1 < k) /\ (j - 1) + 1 = j
        BY <1>0, <3>2
      <4>2. t[j - 1] = c[j]
        BY <1>3, <4>1
      <4>3. QED
        BY <4>1, <4>2
    <3>3. j # k
      BY <2>1
    <3>4. QED
      BY <1>0, <3>1, <3>2, <3>3
  <2>2. ToSet(t) = {t[j] : j \in 1..(Len(c) - 1)} /\ ToSet(c) = {c[j] : j \in 1..Len(c)}
    BY <1>0, <1>2 DEF ToSet
  <2> HIDE <1>0, <1>1, <1>2, <1>3, <1>4, <1>5
  <2>3. ToSet(t) \subseteq ToSet(c) \ {c[k]}
    BY <1>6, <2>2
  <2>4. ASSUME NEW m \in ToSet(c) \ {c[k]} PROVE m \in ToSet(t)
    <3>1. PICK j \in 1..Len(c) : m = c[j]
      BY <2>2
    <3>2. PICK i \in 1..(Len(c) - 1) : t[i] = c[j]
      BY <2>1, <3>1
    <3>3. QED
      BY <2>2, <3>1, <3>2
  <2>5. QED
    BY <2>3, <2>4
<1>8. ValuesBy(val2, t) = RemoveAt(ValuesBy(val, c), k)
  <2> DEFINE u == ValuesBy(val, c)
             w == RemoveAt(u, k)
  <2>1. u \in Seq(Held(val)) /\ Len(u) = Len(c) /\ \A i \in 1..Len(c) : u[i] = val[c[i]]
    BY ValuesAre
  <2> HIDE DEF u
  <2>2. /\ w \in Seq(Held(val)) /\ Len(w) = Len(c) - 1
        /\ \A j \in 1..(Len(c) - 1) : w[j] = IF j < k THEN u[j] ELSE u[j + 1]
    BY <2>1, Removed
  <2> HIDE DEF w
  <2>3. ASSUME NEW j \in 1..(Len(c) - 1) PROVE w[j] = val2[t[j]]
    <3>1. val2[t[j]] = val[t[j]]
      BY <1>6 DEF SameValues
    <3>2. CASE j < k
      BY <1>3, <2>1, <2>2, <3>1, <3>2
    <3>3. CASE ~(j < k)
      BY <1>3, <2>1, <2>2, <3>1, <3>3
    <3>4. QED
      BY <3>2, <3>3
  <2>4. ValuesBy(val2, t) = w
    BY <1>1, <2>2, <2>3, ValuesEqual
  <2>5. QED
    BY <2>4 DEF w, u
<1>9. QED
  BY <1>1, <1>5, <1>7, <1>8 DEF t

LEMMA TailIs ==
  ASSUME NEW S, NEW s \in Seq(S), s # <<>>
  PROVE  1 \in 1..Len(s) /\ Tail(s) = RemoveAt(s, 1)
<1>1. Len(s) \in Nat /\ Len(s) # 0 /\ 1 \in 1..Len(s)
  OBVIOUS
<1>2. /\ Tail(s) \in Seq(S) /\ Len(Tail(s)) = Len(s) - 1
      /\ \A j \in 1..(Len(s) - 1) : Tail(s)[j] = s[j + 1]
  BY <1>1, HeadTailProperties
<1> DEFINE t == RemoveAt(s, 1)
<1>3. /\ t \in Seq(S) /\ Len(t) = Len(s) - 1
      /\ \A j \in 1..(Len(s) - 1) : t[j] = IF j < 1 THEN s[j] ELSE s[j + 1]
  BY <1>1, Removed
<1> HIDE DEF t
<1>4. \A j \in 1..(Len(s) - 1) : t[j] = s[j + 1]
  BY <1>1, <1>3
<1>5. Tail(s) = t
  BY <1>2, <1>3, <1>4, SeqEqual
<1>6. QED
  BY <1>1, <1>5 DEF t

LEMMA TailItems ==
  ASSUME NEW c \in Seq(Node), NoRepeats(c), c # <<>>,
         NEW val, NEW val2, SameValues(val, val2, ToSet(c) \ {c[1]})
  PROVE  /\ Tail(c) \in Seq(Node) /\ Len(Tail(c)) = Len(c) - 1 /\ NoRepeats(Tail(c))
         /\ ToSet(Tail(c)) = ToSet(c) \ {c[1]}
         /\ ValuesBy(val2, Tail(c)) = Tail(ValuesBy(val, c))
<1>1. 1 \in 1..Len(c) /\ Tail(c) = RemoveAt(c, 1)
  BY TailIs
<1> DEFINE u == ValuesBy(val, c)
<1>2. u \in Seq(Held(val)) /\ Len(u) = Len(c)
  BY ValuesAre
<1> HIDE DEF u
<1>3. u # <<>>
  BY <1>1, <1>2
<1>4. Tail(u) = RemoveAt(u, 1)
  BY <1>2, <1>3, TailIs
<1>5. LET t == RemoveAt(c, 1) IN
      /\ t \in Seq(Node) /\ Len(t) = Len(c) - 1 /\ NoRepeats(t)
      /\ ToSet(t) = ToSet(c) \ {c[1]}
      /\ ValuesBy(val2, t) = RemoveAt(u, 1)
  BY <1>1, RemovedItems DEF u
<1>6. QED
  BY <1>1, <1>4, <1>5 DEF u

LEMMA AppendedItems ==
  ASSUME NEW c \in Seq(Node), NoRepeats(c), NEW n \in Node \ ToSet(c), NEW val
  PROVE  LET t == Append(c, n) IN
         /\ t \in Seq(Node) /\ Len(t) = Len(c) + 1 /\ NoRepeats(t)
         /\ ToSet(t) = ToSet(c) \cup {n}
         /\ ValuesBy(val, t) = Append(ValuesBy(val, c), val[n])
<1>1. Len(c) \in 0..Len(c) /\ SubSeq(c, 1, Len(c)) = c
  <2>1. Len(c) \in Nat
    OBVIOUS
  <2>2. QED
    BY <2>1, SubSeqFull
<1>2. LET t == Append(SubSeq(c, 1, Len(c)), n) IN
      /\ t \in Seq(Node) /\ Len(t) = Len(c) + 1 /\ NoRepeats(t)
      /\ ToSet(t) = ToSet(c) \cup {n}
      /\ ValuesBy(val, t) = Append(ValuesBy(val, c), val[n])
  <2>1. SameValues(val, val, ToSet(c))
    BY DEF SameValues
  <2> DEFINE k == Len(c)
  <2>2. k \in 0..Len(c) /\ k = Len(c)
    BY <1>1
  <2> HIDE DEF k
  <2>3. LET t == Append(SubSeq(c, 1, k), n) IN
        /\ t \in Seq(Node) /\ Len(t) = k + 1 /\ NoRepeats(t)
        /\ ToSet(t) = ToSet(c) \cup {n}
        /\ ValuesBy(val, t) = Append(ValuesBy(val, c), val[n])
    BY <2>1, <2>2, PushedItems
  <2>4. QED
    BY <2>3 DEF k
<1>3. QED
  BY <1>1, <1>2

Keeps(f, S, s, M) ==
  /\ f \in [0..Len(s) -> Seq(S)]
  /\ Sequence!Without(s, M) = f[Len(s)]
  /\ f[0] = <<>>
  /\ \A i \in 1..Len(s) : f[i] = IF s[i] \in M THEN f[i - 1] ELSE Append(f[i - 1], s[i])

LEMMA WithoutIs ==
  ASSUME NEW S, NEW s \in Seq(S), NEW M
  PROVE  \E f : Keeps(f, S, s, M)
<1> DEFINE n == Len(s)
           step == [x \in Seq(S) \X (1..n) |->
                      IF s[x[2]] \in M THEN x[1] ELSE Append(x[1], s[x[2]])]
           Is(f) == f = [i \in 0..n |-> IF i = 0 THEN <<>>
                                        ELSE IF s[i] \in M THEN f[i - 1] ELSE Append(f[i - 1], s[i])]
           kept == CHOOSE f : Is(f)
<1>1. n \in Nat /\ \A i \in 1..n : s[i] \in S
  OBVIOUS
<1> HIDE DEF n
<1>2. step \in [Seq(S) \X (1..n) -> Seq(S)]
  <2> SUFFICES ASSUME NEW x \in Seq(S) \X (1..n)
               PROVE  (IF s[x[2]] \in M THEN x[1] ELSE Append(x[1], s[x[2]])) \in Seq(S)
    OBVIOUS
  <2>1. x[1] \in Seq(S) /\ s[x[2]] \in S
    BY <1>1
  <2>2. QED
    BY <2>1, AppendProperties
<1>3. <<>> \in Seq(S)
  OBVIOUS
<1>4. \A t \in Seq(S), i \in 1..n :
        step[<<t, i>>] = IF s[i] \in M THEN t ELSE Append(t, s[i])
  OBVIOUS
<1> HIDE DEF step
<1>5. PICK f : Walks(f, Seq(S), <<>>, n, step)
  BY <1>1, <1>2, <1>3, Recursion
<1>a. f \in [0..n -> Seq(S)] /\ f[0] = <<>> /\ \A i \in 1..n : f[i] = step[<<f[i - 1], i>>]
  BY <1>5 DEF Walks
<1>6. ASSUME NEW i \in 1..n
      PROVE  f[i] = IF s[i] \in M THEN f[i - 1] ELSE Append(f[i - 1], s[i])
  <2>1. i - 1 \in 0..n
    BY <1>1
  <2>2. f[i - 1] \in Seq(S)
    BY <1>a, <2>1
  <2>3. QED
    BY <1>4, <1>a, <2>2
<1>7. Is(f)
  <2>1. f = [i \in 0..n |-> f[i]]
    BY <1>a
  <2>2. \A i \in 0..n : i = 0 \/ i \in 1..n
    BY <1>1
  <2>3. \A i \in 0..n : f[i] = IF i = 0 THEN <<>>
                                ELSE IF s[i] \in M THEN f[i - 1] ELSE Append(f[i - 1], s[i])
    BY <1>a, <1>6, <2>2
  <2>4. QED
    BY <2>1, <2>3
<1>8. Is(kept)
  BY <1>7
<1> HIDE DEF kept
<1>9. ASSUME NEW i \in 0..n
      PROVE  kept[i] = IF i = 0 THEN <<>>
                       ELSE IF s[i] \in M THEN kept[i - 1] ELSE Append(kept[i - 1], s[i])
  BY <1>8
<1>10. kept = [i \in 0..n |-> kept[i]]
  BY <1>8
<1> HIDE DEF Is
<1>11. \A i \in 0..n : kept[i] = f[i]
  <2>1. kept[0] = f[0]
    <3>1. 0 \in 0..n
      BY <1>1
    <3>2. QED
      BY <1>a, <1>9, <3>1
  <2>2. ASSUME NEW i \in 1..n, kept[i - 1] = f[i - 1] PROVE kept[i] = f[i]
    <3>1. i \in 0..n /\ i # 0
      BY <1>1
    <3>2. QED
      BY <1>6, <1>9, <2>2, <3>1
  <2>3. StepAlike(n, kept, f)
    BY <2>1, <2>2 DEF StepAlike
  <2>4. QED
    BY <1>1, <2>3, Agree
<1>12. Sequence!Without(s, M) = kept[n]
  BY DEF Sequence!Without, kept, Is, n
<1>13. Sequence!Without(s, M) = f[n]
  BY <1>1, <1>11, <1>12
<1>14. QED
  BY <1>a, <1>6, <1>13 DEF n, Keeps

(* What CD_ListDeleteAll leaves of a list.                                 *)
Matching(val, c, matching) == {n \in ToSet(c) : val[n] \in matching}

LEMMA WithoutItems ==
  ASSUME NEW c \in Seq(Node), NoRepeats(c), NEW val, NEW matching
  PROVE  LET t == Sequence!Without(c, Matching(val, c, matching)) IN
         /\ t \in Seq(Node) /\ NoRepeats(t)
         /\ ToSet(t) = ToSet(c) \ Matching(val, c, matching)
         /\ ValuesBy(val, t) = Sequence!Without(ValuesBy(val, c), matching)
<1> DEFINE N == Len(c)
           u == ValuesBy(val, c)
           M == Matching(val, c, matching)
<1>m. M = {n \in ToSet(c) : val[n] \in matching}
  BY DEF Matching
<1> HIDE DEF M
<1>1. N \in Nat /\ DOMAIN c = 1..N /\ \A i \in 1..N : c[i] \in Node /\ c[i] \in ToSet(c)
  <2>1. N \in Nat /\ DOMAIN c = 1..N /\ \A i \in 1..N : c[i] \in Node
    OBVIOUS
  <2>2. QED
    BY <2>1 DEF ToSet
<1>2. u \in Seq(Held(val)) /\ Len(u) = N /\ \A i \in 1..N : u[i] = val[c[i]]
  BY ValuesAre
<1> HIDE DEF u
<1>a. PICK f : Keeps(f, Node, c, M)
  BY WithoutIs
<1>b. PICK g : Keeps(g, Held(val), u, matching)
  BY <1>2, WithoutIs
<1>3. /\ f \in [0..N -> Seq(Node)]
      /\ Sequence!Without(c, M) = f[N]
      /\ f[0] = <<>>
      /\ \A i \in 1..N : f[i] = IF c[i] \in M THEN f[i - 1] ELSE Append(f[i - 1], c[i])
  BY <1>a DEF Keeps
<1> HIDE DEF N
<1>4. /\ Sequence!Without(u, matching) = g[N]
      /\ g[0] = <<>>
      /\ \A i \in 1..N : g[i] = IF u[i] \in matching THEN g[i - 1] ELSE Append(g[i - 1], u[i])
  BY <1>2, <1>b DEF Keeps
<1> DEFINE Good(i) == /\ NoRepeats(f[i])
                      /\ ToSet(f[i]) = {c[j] : j \in 1..i} \ M
                      /\ ValuesBy(val, f[i]) = g[i]
           S == {i \in Nat : i <= N => Good(i)}
<1>5. 0 \in S
  <2>1. NoRepeats(<<>>) /\ ToSet(<<>>) = {} /\ ValuesBy(val, <<>>) = <<>>
    BY DEF NoRepeats, ToSet, ValuesBy
  <2>2. {c[j] : j \in 1..0} = {}
    OBVIOUS
  <2>3. Good(0)
    BY <1>3, <1>4, <2>1, <2>2
  <2>4. QED
    BY <2>3
<1>6. ASSUME NEW i \in S PROVE i + 1 \in S
  <2> SUFFICES ASSUME i + 1 <= N PROVE Good(i + 1)
    OBVIOUS
  <2>1. i \in Nat /\ i \in 0..N /\ i + 1 \in 1..N /\ (i + 1) - 1 = i
    BY <1>1
  <2>2. Good(i)
    <3> HIDE DEF Good
    <3>1. i \in S /\ i <= N
      BY <1>1, <2>1
    <3>2. QED
      BY <3>1
  <2> DEFINE n == c[i + 1]
             p == f[i]
  <2>3. n \in Node /\ n \in ToSet(c) /\ p \in Seq(Node) /\ u[i + 1] = val[n]
    BY <1>1, <1>2, <1>3, <2>1
  <2>4. /\ f[i + 1] = IF n \in M THEN p ELSE Append(p, n)
        /\ g[i + 1] = IF u[i + 1] \in matching THEN g[i] ELSE Append(g[i], u[i + 1])
    BY <1>3, <1>4, <2>1
  <2>5. n \in M <=> u[i + 1] \in matching
    BY <1>m, <2>3
  <2>6. {c[j] : j \in 1..(i + 1)} = {c[j] : j \in 1..i} \cup {n}
    <3>1. 1..(i + 1) = 1..i \cup {i + 1}
      BY <2>1
    <3>2. QED
      BY <3>1
  <2>7. n \notin {c[j] : j \in 1..i}
    <3>1. \A j \in 1..i : j \in 1..N /\ j # i + 1
      BY <1>1, <2>1
    <3>2. QED
      BY <2>1, <3>1 DEF NoRepeats, N
  <2>8. CASE n \in M
    <3>1. f[i + 1] = p /\ g[i + 1] = g[i]
      BY <2>4, <2>5, <2>8
    <3>2. {c[j] : j \in 1..(i + 1)} \ M = {c[j] : j \in 1..i} \ M
      BY <2>6, <2>8
    <3>3. QED
      BY <2>2, <3>1, <3>2
  <2>9. CASE n \notin M
    <3>1. f[i + 1] = Append(p, n) /\ g[i + 1] = Append(g[i], val[n])
      BY <2>3, <2>4, <2>5, <2>9
    <3>2. n \notin ToSet(p) /\ NoRepeats(p)
      BY <2>2, <2>7
    <3>3. {c[j] : j \in 1..(i + 1)} \ M = ({c[j] : j \in 1..i} \ M) \cup {n}
      BY <2>6, <2>9
    <3> HIDE DEF n, p
    <3>4. /\ NoRepeats(Append(p, n))
          /\ ToSet(Append(p, n)) = ToSet(p) \cup {n}
          /\ ValuesBy(val, Append(p, n)) = Append(ValuesBy(val, p), val[n])
      BY <2>3, <3>2, AppendedItems
    <3>5. ToSet(p) = {c[j] : j \in 1..i} \ M /\ ValuesBy(val, p) = g[i]
      BY <2>2 DEF p
    <3>6. QED
      BY <3>1, <3>3, <3>4, <3>5
  <2>10. QED
    BY <2>8, <2>9
<1>7. S = Nat
  <2> HIDE DEF S
  <2>1. S \subseteq Nat
    BY DEF S
  <2>2. QED
    BY <1>5, <1>6, <2>1, InductiveSet
<1>8. Good(N)
  <2> HIDE DEF Good
  <2>1. N \in S /\ N <= N
    BY <1>1, <1>7
  <2>2. QED
    BY <2>1
<1>9. f[N] \in Seq(Node) /\ ToSet(c) = {c[j] : j \in 1..N}
  <2>1. N \in 0..N
    BY <1>1
  <2>2. QED
    BY <1>1, <1>3, <2>1 DEF ToSet
<1>10. QED
  BY <1>3, <1>4, <1>8, <1>9 DEF u, M

LEMMA AppendedSet ==
  ASSUME NEW S, NEW t \in Seq(S), NEW e \in S
  PROVE  Append(t, e) \in Seq(S) /\ ToSet(Append(t, e)) = ToSet(t) \cup {e}
<1> DEFINE u == Append(t, e)
<1>1. Len(t) \in Nat /\ DOMAIN t = 1..Len(t)
  OBVIOUS
<1>2. /\ u \in Seq(S) /\ Len(u) = Len(t) + 1
      /\ \A i \in 1..Len(t) : u[i] = t[i]
      /\ u[Len(t) + 1] = e
  BY AppendProperties
<1> HIDE DEF u
<1>3. DOMAIN u = 1..(Len(t) + 1)
  BY <1>2
<1>4. 1..(Len(t) + 1) = 1..Len(t) \cup {Len(t) + 1}
  BY <1>1
<1>5. ToSet(u) = {u[i] : i \in 1..Len(t) \cup {Len(t) + 1}} /\ ToSet(t) = {t[i] : i \in 1..Len(t)}
  BY <1>1, <1>3, <1>4 DEF ToSet
<1>6. ToSet(u) \subseteq ToSet(t) \cup {e}
  BY <1>2, <1>5
<1>7. ToSet(t) \subseteq ToSet(u)
  <2> SUFFICES ASSUME NEW i \in 1..Len(t) PROVE t[i] \in ToSet(u)
    BY <1>5
  <2>1. u[i] \in ToSet(u) /\ u[i] = t[i]
    BY <1>2, <1>5
  <2>2. QED
    BY <2>1
<1>8. e \in ToSet(u)
  BY <1>2, <1>5
<1>9. QED
  BY <1>2, <1>6, <1>7, <1>8 DEF u

(* CD_ListClear returns the values of the list, all of them and no other.   *)
LEMMA DistinctItems ==
  ASSUME NEW S, NEW s \in Seq(S)
  PROVE  ToSet(Distinct(s)) = ToSet(s)
<1> DEFINE n == Len(s)
           step == [x \in Seq(S) \X (1..n) |->
                      IF Contains(x[1], s[x[2]]) THEN x[1] ELSE Append(x[1], s[x[2]])]
           Is(f) == f = [i \in 0..n |-> IF i = 0 THEN <<>>
                          ELSE IF Contains(f[i - 1], s[i]) THEN f[i - 1] ELSE Append(f[i - 1], s[i])]
           found == CHOOSE f : Is(f)
<1>1. n \in Nat /\ DOMAIN s = 1..n /\ \A i \in 1..n : s[i] \in S
  OBVIOUS
<1>d. Distinct(s) = found[n]
  BY DEF Distinct
<1> HIDE DEF n
<1>2. step \in [Seq(S) \X (1..n) -> Seq(S)]
  <2> SUFFICES ASSUME NEW x \in Seq(S) \X (1..n)
               PROVE  (IF Contains(x[1], s[x[2]]) THEN x[1] ELSE Append(x[1], s[x[2]])) \in Seq(S)
    OBVIOUS
  <2>1. x[1] \in Seq(S) /\ s[x[2]] \in S
    BY <1>1
  <2>2. QED
    BY <2>1, AppendProperties
<1>3. <<>> \in Seq(S)
  OBVIOUS
<1>4. \A t \in Seq(S), i \in 1..n :
        step[<<t, i>>] = IF Contains(t, s[i]) THEN t ELSE Append(t, s[i])
  OBVIOUS
<1> HIDE DEF step
<1>5. PICK f : Walks(f, Seq(S), <<>>, n, step)
  BY <1>1, <1>2, <1>3, Recursion
<1>6. f \in [0..n -> Seq(S)] /\ f[0] = <<>> /\ \A i \in 1..n : f[i] = step[<<f[i - 1], i>>]
  BY <1>5 DEF Walks
<1>7. ASSUME NEW i \in 1..n
      PROVE  f[i] = IF Contains(f[i - 1], s[i]) THEN f[i - 1] ELSE Append(f[i - 1], s[i])
  <2>1. i - 1 \in 0..n
    BY <1>1
  <2>2. f[i - 1] \in Seq(S)
    BY <1>6, <2>1
  <2>3. QED
    BY <1>4, <1>6, <2>2
<1>8. Is(f)
  <2>1. f = [i \in 0..n |-> f[i]]
    BY <1>6
  <2>2. \A i \in 0..n : i = 0 \/ i \in 1..n
    BY <1>1
  <2>3. \A i \in 0..n : f[i] = IF i = 0 THEN <<>>
            ELSE IF Contains(f[i - 1], s[i]) THEN f[i - 1] ELSE Append(f[i - 1], s[i])
    BY <1>6, <1>7, <2>2
  <2>4. QED
    BY <2>1, <2>3
<1>9. Is(found)
  BY <1>8
<1> HIDE DEF found
<1>10. ASSUME NEW i \in 0..n
       PROVE  found[i] = IF i = 0 THEN <<>>
                ELSE IF Contains(found[i - 1], s[i]) THEN found[i - 1] ELSE Append(found[i - 1], s[i])
  BY <1>9
<1> HIDE DEF Is
<1> DEFINE Good(i) == found[i] \in Seq(S) /\ ToSet(found[i]) = {s[j] : j \in 1..i}
           A == {i \in Nat : i <= n => Good(i)}
<1>11. 0 \in A
  <2>1. 0 \in 0..n /\ ToSet(<<>>) = {} /\ {s[j] : j \in 1..0} = {}
    BY <1>1 DEF ToSet
  <2>2. QED
    BY <1>3, <1>10, <2>1
<1>12. ASSUME NEW i \in A PROVE i + 1 \in A
  <2> SUFFICES ASSUME i + 1 <= n PROVE Good(i + 1)
    OBVIOUS
  <2>1. i \in Nat /\ i <= n /\ i + 1 \in 1..n /\ i + 1 \in 0..n /\ i + 1 # 0 /\ (i + 1) - 1 = i
    BY <1>1
  <2>2. Good(i)
    <3> HIDE DEF Good
    <3>1. QED
      BY <2>1
  <2> DEFINE t == found[i]
             e == s[i + 1]
  <2>3. found[i + 1] = IF Contains(t, e) THEN t ELSE Append(t, e)
    BY <1>10, <2>1
  <2>4. {s[j] : j \in 1..(i + 1)} = {s[j] : j \in 1..i} \cup {e}
    <3>1. 1..(i + 1) = 1..i \cup {i + 1}
      BY <2>1
    <3>2. QED
      BY <3>1
  <2>5. t \in Seq(S) /\ ToSet(t) = {s[j] : j \in 1..i} /\ e \in S
    BY <1>1, <2>1, <2>2
  <2> HIDE DEF t, e
  <2>6. CASE Contains(t, e)
    <3>1. e \in ToSet(t)
      BY <2>5, <2>6 DEF Contains, ToSet
    <3>2. QED
      BY <2>3, <2>4, <2>5, <2>6, <3>1
  <2>7. CASE ~Contains(t, e)
    <3>1. Append(t, e) \in Seq(S) /\ ToSet(Append(t, e)) = ToSet(t) \cup {e}
      BY <2>5, AppendedSet
    <3>2. QED
      BY <2>3, <2>4, <2>5, <2>7, <3>1
  <2>8. QED
    BY <2>6, <2>7
<1>13. A = Nat
  <2> HIDE DEF A
  <2>1. A \subseteq Nat
    BY DEF A
  <2>2. QED
    BY <1>11, <1>12, <2>1, InductiveSet
<1>14. Good(n)
  <2> HIDE DEF Good
  <2>1. n \in A /\ n <= n
    BY <1>1, <1>13
  <2>2. QED
    BY <2>1
<1>15. QED
  BY <1>1, <1>14, <1>d DEF ToSet

(* cd_ListSortInsert, one item after the other.                            *)
PlacesItems(p, val, s) ==
  /\ p[0] = <<>>
  /\ \A i \in 1..Len(s) : p[i] = SortedBy(val, p[i - 1], val[s[i]], s[i])

PlacesValues(p, u) ==
  /\ p[0] = <<>>
  /\ \A i \in 1..Len(u) : p[i] = Sequence!Sorted(p[i - 1], u[i])

ResortedBy(val, s) ==
  LET placed[i \in 0..Len(s)] ==
        IF i = 0 THEN <<>> ELSE SortedBy(val, placed[i - 1], val[s[i]], s[i])
  IN  placed[Len(s)]

LEMMA ResortedByIs ==
  ASSUME NEW s \in Seq(Node), NEW val
  PROVE  \E p : PlacesItems(p, val, s) /\ ResortedBy(val, s) = p[Len(s)]
<1> DEFINE n == Len(s)
           step == [x \in Seq(Node) \X (1..n) |-> SortedBy(val, x[1], val[s[x[2]]], s[x[2]])]
           Is(f) == f = [i \in 0..n |-> IF i = 0 THEN <<>>
                                        ELSE SortedBy(val, f[i - 1], val[s[i]], s[i])]
           placed == CHOOSE f : Is(f)
<1>1. n \in Nat /\ \A i \in 1..n : s[i] \in Node
  OBVIOUS
<1>d. ResortedBy(val, s) = placed[n]
  BY DEF ResortedBy
<1>i. PlacesItems(placed, val, s) <=> /\ placed[0] = <<>>
                                      /\ \A i \in 1..n : placed[i] = SortedBy(val, placed[i - 1], val[s[i]], s[i])
  BY DEF PlacesItems
<1> HIDE DEF n
<1>2. ASSUME NEW t \in Seq(Node), NEW i \in 1..n
      PROVE  SortedBy(val, t, val[s[i]], s[i]) \in Seq(Node)
  <2> DEFINE k == PlaceOf(ValuesBy(val, t), val[s[i]])
  <2>1. k \in 1..(Len(t) + 1) /\ SortedBy(val, t, val[s[i]], s[i]) = InsertAt(t, k, s[i])
    BY SortedByIs
  <2> HIDE DEF k
  <2>2. s[i] \in Node
    BY <1>1
  <2>3. QED
    BY <2>1, <2>2, Inserted
<1>3. step \in [Seq(Node) \X (1..n) -> Seq(Node)]
  <2> SUFFICES ASSUME NEW x \in Seq(Node) \X (1..n)
               PROVE  SortedBy(val, x[1], val[s[x[2]]], s[x[2]]) \in Seq(Node)
    OBVIOUS
  <2>1. x[1] \in Seq(Node) /\ x[2] \in 1..n
    OBVIOUS
  <2>2. QED
    BY <1>2, <2>1
<1>4. \A t \in Seq(Node), i \in 1..n : step[<<t, i>>] = SortedBy(val, t, val[s[i]], s[i])
  OBVIOUS
<1>5. <<>> \in Seq(Node)
  OBVIOUS
<1> HIDE DEF step
<1>6. PICK f : Walks(f, Seq(Node), <<>>, n, step)
  BY <1>1, <1>3, <1>5, Recursion
<1>7. f \in [0..n -> Seq(Node)] /\ f[0] = <<>> /\ \A i \in 1..n : f[i] = step[<<f[i - 1], i>>]
  BY <1>6 DEF Walks
<1>8. ASSUME NEW i \in 1..n PROVE f[i] = SortedBy(val, f[i - 1], val[s[i]], s[i])
  <2>1. i - 1 \in 0..n
    BY <1>1
  <2>2. f[i - 1] \in Seq(Node)
    BY <1>7, <2>1
  <2>3. QED
    BY <1>4, <1>7, <2>2
<1>9. Is(f)
  <2>1. f = [i \in 0..n |-> f[i]]
    BY <1>7
  <2>2. \A i \in 0..n : i = 0 \/ i \in 1..n
    BY <1>1
  <2>3. \A i \in 0..n : f[i] = IF i = 0 THEN <<>> ELSE SortedBy(val, f[i - 1], val[s[i]], s[i])
    BY <1>7, <1>8, <2>2
  <2>4. QED
    BY <2>1, <2>3
<1>10. Is(placed)
  BY <1>9
<1> HIDE DEF placed
<1>11. \A i \in 0..n : placed[i] = IF i = 0 THEN <<>> ELSE SortedBy(val, placed[i - 1], val[s[i]], s[i])
  BY <1>10
<1> HIDE DEF Is
<1>12. 0 \in 0..n /\ \A i \in 1..n : i \in 0..n /\ i # 0
  BY <1>1
<1>13. placed[0] = <<>>
  BY <1>11, <1>12
<1>14. \A i \in 1..n : placed[i] = SortedBy(val, placed[i - 1], val[s[i]], s[i])
  BY <1>11, <1>12
<1>15. PlacesItems(placed, val, s)
  BY <1>13, <1>14, <1>i
<1>16. QED
  BY <1>15, <1>d DEF n

LEMMA ResortedIs ==
  ASSUME NEW S, NEW u \in Seq(S)
  PROVE  \E p : PlacesValues(p, u) /\ Sequence!Resorted(u) = p[Len(u)]
<1> DEFINE n == Len(u)
           step == [x \in Seq(S) \X (1..n) |-> Sequence!Sorted(x[1], u[x[2]])]
           Is(f) == f = [i \in 0..n |-> IF i = 0 THEN <<>> ELSE Sequence!Sorted(f[i - 1], u[i])]
           placed == CHOOSE f : Is(f)
<1>1. n \in Nat /\ \A i \in 1..n : u[i] \in S
  OBVIOUS
<1>d. Sequence!Resorted(u) = placed[n]
  BY DEF Sequence!Resorted
<1>i. PlacesValues(placed, u) <=> /\ placed[0] = <<>>
                                  /\ \A i \in 1..n : placed[i] = Sequence!Sorted(placed[i - 1], u[i])
  BY DEF PlacesValues
<1> HIDE DEF n
<1>2. ASSUME NEW t \in Seq(S), NEW i \in 1..n PROVE Sequence!Sorted(t, u[i]) \in Seq(S)
  <2> DEFINE k == PlaceOf(t, u[i])
  <2>1. k \in 1..(Len(t) + 1) /\ Sequence!Sorted(t, u[i]) = InsertAt(t, k, u[i])
    BY PlaceIs
  <2> HIDE DEF k
  <2>2. u[i] \in S
    BY <1>1
  <2>3. QED
    BY <2>1, <2>2, Inserted
<1>3. step \in [Seq(S) \X (1..n) -> Seq(S)]
  <2> SUFFICES ASSUME NEW x \in Seq(S) \X (1..n) PROVE Sequence!Sorted(x[1], u[x[2]]) \in Seq(S)
    OBVIOUS
  <2>1. x[1] \in Seq(S) /\ x[2] \in 1..n
    OBVIOUS
  <2>2. QED
    BY <1>2, <2>1
<1>4. \A t \in Seq(S), i \in 1..n : step[<<t, i>>] = Sequence!Sorted(t, u[i])
  OBVIOUS
<1>5. <<>> \in Seq(S)
  OBVIOUS
<1> HIDE DEF step
<1>6. PICK f : Walks(f, Seq(S), <<>>, n, step)
  BY <1>1, <1>3, <1>5, Recursion
<1>7. f \in [0..n -> Seq(S)] /\ f[0] = <<>> /\ \A i \in 1..n : f[i] = step[<<f[i - 1], i>>]
  BY <1>6 DEF Walks
<1>8. ASSUME NEW i \in 1..n PROVE f[i] = Sequence!Sorted(f[i - 1], u[i])
  <2>1. i - 1 \in 0..n
    BY <1>1
  <2>2. f[i - 1] \in Seq(S)
    BY <1>7, <2>1
  <2>3. QED
    BY <1>4, <1>7, <2>2
<1>9. Is(f)
  <2>1. f = [i \in 0..n |-> f[i]]
    BY <1>7
  <2>2. \A i \in 0..n : i = 0 \/ i \in 1..n
    BY <1>1
  <2>3. \A i \in 0..n : f[i] = IF i = 0 THEN <<>> ELSE Sequence!Sorted(f[i - 1], u[i])
    BY <1>7, <1>8, <2>2
  <2>4. QED
    BY <2>1, <2>3
<1>10. Is(placed)
  BY <1>9
<1> HIDE DEF placed
<1>11. \A i \in 0..n : placed[i] = IF i = 0 THEN <<>> ELSE Sequence!Sorted(placed[i - 1], u[i])
  BY <1>10
<1> HIDE DEF Is
<1>12. 0 \in 0..n /\ \A i \in 1..n : i \in 0..n /\ i # 0
  BY <1>1
<1>13. placed[0] = <<>>
  BY <1>11, <1>12
<1>14. \A i \in 1..n : placed[i] = Sequence!Sorted(placed[i - 1], u[i])
  BY <1>11, <1>12
<1>15. PlacesValues(placed, u)
  BY <1>13, <1>14, <1>i
<1>16. QED
  BY <1>15, <1>d DEF n

(* CD_ListSort keeps the items, and orders their values.                   *)
LEMMA ResortedItems ==
  ASSUME NEW c \in Seq(Node), NoRepeats(c), NEW val
  PROVE  LET t == ResortedBy(val, c) IN
         /\ t \in Seq(Node) /\ NoRepeats(t) /\ Len(t) = Len(c)
         /\ ToSet(t) = ToSet(c)
         /\ ValuesBy(val, t) = Sequence!Resorted(ValuesBy(val, c))
<1> DEFINE n == Len(c)
           u == ValuesBy(val, c)
<1>1. n \in Nat /\ DOMAIN c = 1..n /\ \A i \in 1..n : c[i] \in Node
  OBVIOUS
<1>2. u \in Seq(Held(val)) /\ Len(u) = n /\ \A i \in 1..n : u[i] = val[c[i]]
  BY ValuesAre
<1> HIDE DEF u
<1>3. PICK p : PlacesItems(p, val, c) /\ ResortedBy(val, c) = p[Len(c)]
  BY ResortedByIs
<1>4. PICK q : PlacesValues(q, u) /\ Sequence!Resorted(u) = q[Len(u)]
  BY <1>2, ResortedIs
<1>5. p[0] = <<>> /\ \A i \in 1..n : p[i] = SortedBy(val, p[i - 1], val[c[i]], c[i])
  BY <1>3 DEF PlacesItems
<1>6. q[0] = <<>> /\ \A i \in 1..n : q[i] = Sequence!Sorted(q[i - 1], u[i])
  BY <1>2, <1>4 DEF PlacesValues
<1>d. ResortedBy(val, c) = p[n] /\ Sequence!Resorted(u) = q[n]
  BY <1>2, <1>3, <1>4
<1>r. \A i, j \in 1..n : c[i] = c[j] => i = j
  BY DEF NoRepeats
<1> HIDE DEF n
<1> DEFINE Good(i) == /\ p[i] \in Seq(Node)
                      /\ NoRepeats(p[i])
                      /\ Len(p[i]) = i
                      /\ ToSet(p[i]) = {c[j] : j \in 1..i}
                      /\ ValuesBy(val, p[i]) = q[i]
           A == {i \in Nat : i <= n => Good(i)}
<1>7. 0 \in A
  <2>1. NoRepeats(<<>>) /\ ToSet(<<>>) = {} /\ ValuesBy(val, <<>>) = <<>>
    BY DEF NoRepeats, ToSet, ValuesBy
  <2>2. {c[j] : j \in 1..0} = {} /\ <<>> \in Seq(Node) /\ Len(<<>>) = 0
    OBVIOUS
  <2>3. Good(0)
    BY <1>5, <1>6, <2>1, <2>2
  <2>4. QED
    BY <2>3
<1>8. ASSUME NEW i \in A PROVE i + 1 \in A
  <2> SUFFICES ASSUME i + 1 <= n PROVE Good(i + 1)
    OBVIOUS
  <2>1. i \in Nat /\ i <= n /\ i + 1 \in 1..n /\ (i + 1) - 1 = i
    BY <1>1
  <2>2. Good(i)
    <3> HIDE DEF Good
    <3>1. QED
      BY <2>1
  <2> DEFINE m == c[i + 1]
             s == p[i]
  <2>3. p[i + 1] = SortedBy(val, s, val[m], m) /\ q[i + 1] = Sequence!Sorted(q[i], val[m])
    BY <1>2, <1>5, <1>6, <2>1
  <2>4. {c[j] : j \in 1..(i + 1)} = {c[j] : j \in 1..i} \cup {m}
    <3>1. 1..(i + 1) = 1..i \cup {i + 1}
      BY <2>1
    <3>2. QED
      BY <3>1
  <2>5. m \notin {c[j] : j \in 1..i}
    <3>1. \A j \in 1..i : j \in 1..n /\ j # i + 1
      BY <1>1, <2>1
    <3>2. QED
      BY <1>r, <2>1, <3>1
  <2>6. s \in Seq(Node) /\ NoRepeats(s) /\ Len(s) = i /\ ToSet(s) = {c[j] : j \in 1..i}
        /\ ValuesBy(val, s) = q[i]
    BY <2>2
  <2>7. m \in Node
    BY <1>1, <2>1
  <2> HIDE DEF m, s
  <2>8. m \in Node \ ToSet(s) /\ SameValues(val, val, ToSet(s))
    BY <2>5, <2>6, <2>7 DEF SameValues
  <2> DEFINE t == SortedBy(val, s, val[m], m)
  <2>9. /\ t \in Seq(Node) /\ Len(t) = Len(s) + 1 /\ NoRepeats(t)
        /\ ToSet(t) = ToSet(s) \cup {m}
        /\ ValuesBy(val, t) = Sequence!Sorted(ValuesBy(val, s), val[m])
    <3>1. s \in Seq(Node) /\ NoRepeats(s)
      BY <2>6
    <3> HIDE <1>1, <1>2, <1>5, <1>6, <1>7, <1>r
    <3>2. QED
      BY <2>8, <3>1, SortedItems
  <2> HIDE DEF t
  <2>10. QED
    BY <2>3, <2>4, <2>6, <2>9 DEF t
<1>9. A = Nat
  <2> HIDE DEF A
  <2>1. A \subseteq Nat
    BY DEF A
  <2>2. QED
    BY <1>7, <1>8, <2>1, InductiveSet
<1>10. Good(n)
  <2> HIDE DEF Good
  <2>1. n \in A /\ n <= n
    BY <1>1, <1>9
  <2>2. QED
    BY <2>1
<1>11. ToSet(c) = {c[j] : j \in 1..n}
  BY <1>1 DEF ToSet
<1>12. QED
  BY <1>10, <1>11, <1>d DEF u, n

------------------------------------------------------------------------------
(* The inductive invariant: the pointers from the head make a chain of     *)
(* allocated items. Whoever only pushes at the end and takes from the      *)
(* front keeps the tail at the last item; whoever never pushes at the end  *)
(* may leave the tail anywhere, for nothing reads it.                      *)

ListInv ==
  /\ next = [n \in Node |-> next[n]]
  /\ value = [n \in Node |-> value[n]]
  /\ live \subseteq Node
  /\ IsChain(Chain, head, next)
  /\ ToSet(Chain) \subseteq live
  /\ ~changed => length = Len(Chain)
  /\ Queue \/ Ordered => live = ToSet(Chain) /\ ~freedWrite
  /\ Queue /\ Chain # <<>> => tail = Chain[Len(Chain)]

LEMMA ListInitially ==
  ASSUME NodeAssumption, Init
  PROVE  ListInv /\ Sequence!Init
<1>1. IsChain(<<>>, head, next)
  BY DEF IsChain, NoRepeats, FirstOf, Init
<1>2. Chain = <<>>
  BY <1>1, FollowingIs DEF Chain
<1>3. ToSet(<<>>) = {}
  BY DEF ToSet
<1>4. ListInv
  BY <1>1, <1>2, <1>3 DEF ListInv, Init
<1>5. Items = <<>>
  BY <1>2 DEF Items, Values
<1>6. QED
  BY <1>4, <1>5 DEF Init, Sequence!Init

(* What is known of the items before a step.                               *)
LEMMA Before ==
  ASSUME NodeAssumption, ListInv
  PROVE  /\ Chain \in Seq(Node) /\ NoRepeats(Chain) /\ Len(Chain) \in Nat
         /\ head = IF Len(Chain) = 0 THEN Null ELSE Chain[1]
         /\ head = Null <=> Chain = <<>>
         /\ Items = ValuesBy(value, Chain)
<1> DEFINE c == Chain
<1>1. c \in Seq(Node) /\ NoRepeats(c) /\ head = FirstOf(c)
  BY DEF ListInv, IsChain
<1>2. Items = ValuesBy(value, c)
  BY DEF Items, Values, ValuesBy
<1> HIDE DEF c
<1>3. Len(c) \in Nat /\ (Len(c) = 0 <=> c = <<>>) /\ (Len(c) # 0 => c[1] \in Node)
  BY <1>1
<1>4. head = IF Len(c) = 0 THEN Null ELSE c[1]
  BY <1>1, FirstIs
<1>5. head = Null <=> c = <<>>
  BY <1>3, <1>4 DEF NodeAssumption
<1>6. QED
  BY <1>1, <1>2, <1>3, <1>4, <1>5 DEF c

(* What a step has to leave for the invariant to hold after it.            *)
LEMMA After ==
  ASSUME NodeAssumption, NEW d, IsChain(d, head', next'),
         next' = [n \in Node |-> next'[n]], value' = [n \in Node |-> value'[n]],
         live' \subseteq Node, ToSet(d) \subseteq live',
         ~changed' => length' = Len(d),
         Queue \/ Ordered => live' = ToSet(d) /\ ~freedWrite',
         Queue /\ d # <<>> => tail' = d[Len(d)],
         UNCHANGED operations
  PROVE  ListInv' /\ Items' = ValuesBy(value', d)
<1>1. Chain' = d
  BY FollowingIs DEF Chain
<1>2. (Queue' <=> Queue) /\ (Ordered' <=> Ordered)
  BY DEF Queue, Ordered
<1>3. Items' = ValuesBy(value', d)
  BY <1>1 DEF Items, Values, ValuesBy
<1> HIDE DEF Chain
<1>4. ListInv'
  BY <1>1, <1>2 DEF ListInv
<1>5. QED
  BY <1>3, <1>4

LEMMA KeepLeaves ==
  ASSUME NodeAssumption, ListInv, NEW rest \in Seq(Node), NoRepeats(rest),
         ToSet(rest) \subseteq ToSet(Chain), Keep(rest)
  PROVE  /\ IsChain(rest, head', next')
         /\ next' = [n \in Node |-> next'[n]] /\ value' = [n \in Node |-> value'[n]]
         /\ live' \subseteq Node /\ ToSet(rest) \subseteq live'
         /\ Queue \/ Ordered => live' = ToSet(rest)
         /\ SameValues(value, value', ToSet(rest))
         /\ tail' = tail
<1>1. PICK c : c = Chain
  OBVIOUS
<1> DEFINE gone == ToSet(c) \ ToSet(rest)
<1>2. /\ head' = FirstOf(rest)
      /\ next' = Linked(rest)
      /\ live' = live \ gone
      /\ value' = [n \in Node |-> IF n \in gone THEN Unset ELSE value[n]]
      /\ tail' = tail
  BY <1>1 DEF Keep
<1>3. /\ ToSet(rest) \subseteq ToSet(c) /\ ToSet(c) \subseteq live /\ live \subseteq Node
      /\ Queue \/ Ordered => live = ToSet(c)
  BY <1>1 DEF ListInv
<1>4. IsChain(rest, FirstOf(rest), Linked(rest)) /\ Linked(rest) = [n \in Node |-> Linked(rest)[n]]
  BY LinkedIs
<1>5. ToSet(rest) \cap gone = {}
  OBVIOUS
<1>6. value' = [n \in Node |-> value'[n]]
  BY <1>2
<1>7. SameValues(value, value', ToSet(rest))
  BY <1>2, <1>3, <1>5 DEF SameValues
<1>8. live' \subseteq Node /\ ToSet(rest) \subseteq live' /\ (Queue \/ Ordered => live' = ToSet(rest))
  BY <1>2, <1>3, <1>5
<1>9. IsChain(rest, head', next') /\ next' = [n \in Node |-> next'[n]]
  BY <1>2, <1>4
<1>10. QED
  BY <1>2, <1>6, <1>7, <1>8, <1>9

(* CD_ListPush                                                             *)
LEMMA PushStep ==
  ASSUME NodeAssumption, ListInv, NEW v, Push(v), UNCHANGED operations
  PROVE  /\ "push" \in operations => ListInv'
         /\ "push" \in operations /\ (Queue \/ Ordered) => Sequence!Push(v)
<1>1. PICK c : c = Chain
  OBVIOUS
<1>2. /\ c \in Seq(Node) /\ NoRepeats(c) /\ Len(c) \in Nat
      /\ head = (IF Len(c) = 0 THEN Null ELSE c[1]) /\ (head = Null <=> c = <<>>)
      /\ Items = ValuesBy(value, c)
  BY <1>1, Before
<1>3. /\ next = [m \in Node |-> next[m]] /\ value = [m \in Node |-> value[m]]
      /\ live \subseteq Node /\ ToSet(c) \subseteq live /\ IsChain(c, head, next)
      /\ Queue \/ Ordered => live = ToSet(c) /\ ~freedWrite
      /\ Queue /\ c # <<>> => tail = c[Len(c)]
  BY <1>1 DEF ListInv
<1>4. PICK n \in Node \ live :
        /\ live' = live \cup {n}
        /\ value' = [value EXCEPT ![n] = v]
        /\ tail' = n
        /\ changed' = TRUE /\ UNCHANGED result
        /\ \/ /\ head = Null
              /\ head' = n
              /\ next' = [next EXCEPT ![n] = Null]
              /\ UNCHANGED freedWrite
           \/ /\ head # Null
              /\ tail \in live'
              /\ next' = [next EXCEPT ![n] = Null, ![tail] = n]
              /\ UNCHANGED <<head, freedWrite>>
           \/ /\ head # Null
              /\ tail \notin live'
              /\ next' = [next EXCEPT ![n] = Null]
              /\ freedWrite' = TRUE
              /\ UNCHANGED head
  BY DEF Push, HeadIsThere, Mark
<1>5. "push" \in operations => ~Ordered
  BY DEF Ordered
<1>6. n \in Node /\ n \notin ToSet(c) /\ \A i \in 1..Len(c) : c[i] \in ToSet(c) /\ c[i] \in Node
  BY <1>2, <1>3 DEF ToSet
<1>7. /\ value' = [m \in Node |-> value'[m]] /\ live' \subseteq Node
      /\ SameValues(value, value', ToSet(c)) /\ value'[n] = v
  BY <1>3, <1>4, <1>6 DEF SameValues
<1> DEFINE Done(d) == /\ IsChain(d, head', next')
                      /\ next' = [m \in Node |-> next'[m]]
                      /\ ToSet(d) \subseteq live'
                      /\ Queue => /\ live' = ToSet(d) /\ ~freedWrite'
                                  /\ d # <<>> => tail' = d[Len(d)]
                                  /\ ValuesBy(value', d) = Append(ValuesBy(value, c), v)
<1>8. ASSUME NEW k \in 0..Len(c), c # <<>> => k # 0, k = 0 => head' = n, k # 0 => head' = head,
             next' = [next EXCEPT ![n] = Null, ![IF k = 0 THEN n ELSE c[k]] = IF k = 0 THEN Null ELSE n],
             Queue => k = Len(c) /\ ~freedWrite'
      PROVE  Done(Append(SubSeq(c, 1, k), n))
  <2> DEFINE d == Append(SubSeq(c, 1, k), n)
  <2>1. /\ d \in Seq(Node) /\ Len(d) = k + 1 /\ NoRepeats(d)
        /\ \A j \in 1..k : d[j] = c[j]
        /\ d[k + 1] = n
        /\ ToSet(d) \subseteq ToSet(c) \cup {n}
        /\ k = Len(c) => /\ ToSet(d) = ToSet(c) \cup {n}
                         /\ ValuesBy(value', d) = Append(ValuesBy(value, c), value'[n])
    <3>1. n \in Node \ ToSet(c)
      BY <1>6
    <3>2. QED
      BY <1>2, <1>7, <3>1, PushedItems
  <2> HIDE DEF d
  <2>2. k \in Nat /\ (\A j \in 1..k : j \in 1..Len(c)) /\ k + 1 # 0
    BY <1>2
  <2>3. head' = FirstOf(d)
    <3>1. FirstOf(d) = d[1]
      BY <2>1, <2>2, FirstIs
    <3>2. CASE k = 0
      BY <1>8, <2>1, <3>1, <3>2
    <3>3. CASE k # 0
      <4>1. 1 \in 1..k /\ Len(c) # 0
        BY <2>2, <3>3
      <4>2. d[1] = c[1] /\ head = c[1]
        BY <1>2, <2>1, <4>1
      <4>3. QED
        BY <1>8, <3>1, <3>3, <4>2
    <3>4. QED
      BY <3>2, <3>3
  <2>4. next' = [m \in Node |-> next'[m]]
    BY <1>3, <1>8
  <2>5. ASSUME NEW m \in Node
        PROVE  next'[m] = IF k # 0 /\ m = c[k] THEN n ELSE IF m = n THEN Null ELSE next[m]
    <3>1. k # 0 => k \in 1..Len(c) /\ c[k] \in Node /\ c[k] # n
      BY <1>6, <2>2
    <3>2. CASE k = 0
      BY <1>3, <1>8, <3>2
    <3>3. CASE k # 0
      <4>1. next' = [next EXCEPT ![n] = Null, ![c[k]] = n]
        BY <1>8, <3>3
      <4>2. QED
        BY <1>3, <3>1, <3>3, <4>1
    <3>4. QED
      BY <3>2, <3>3
  <2>6. ASSUME NEW i \in 1..(k + 1) PROVE next'[d[i]] = IF i < k + 1 THEN d[i + 1] ELSE Null
    <3>1. CASE i = k + 1
      <4>1. d[i] = n /\ ~(i < k + 1)
        BY <2>1, <2>2, <3>1
      <4>2. k # 0 => n # c[k]
        BY <1>6, <2>2
      <4>3. QED
        BY <1>6, <2>5, <4>1, <4>2
    <3>2. CASE i = k
      <4>1. k # 0 /\ i \in 1..k /\ i < k + 1 /\ i + 1 = k + 1
        BY <2>2, <3>2
      <4>2. d[i] = c[k] /\ d[i + 1] = n /\ c[k] \in Node
        BY <1>6, <2>1, <2>2, <3>2, <4>1
      <4>3. QED
        BY <2>5, <4>1, <4>2
    <3>3. CASE i < k
      <4>1. i \in 1..k /\ i + 1 \in 1..k /\ i \in 1..Len(c) /\ k \in 1..Len(c) /\ i # k
            /\ i < k + 1 /\ i < Len(c)
        BY <2>2, <3>3
      <4>2. d[i] = c[i] /\ d[i + 1] = c[i + 1] /\ c[i] \in Node /\ c[i] # n
        BY <1>6, <2>1, <4>1
      <4>3. c[i] # c[k]
        BY <1>2, <4>1 DEF NoRepeats
      <4>4. next[c[i]] = c[i + 1]
        BY <1>3, <4>1 DEF IsChain
      <4>5. QED
        BY <2>5, <4>1, <4>2, <4>3, <4>4
    <3>4. QED
      BY <2>2, <3>1, <3>2, <3>3
  <2>7. IsChain(d, head', next')
    BY <2>1, <2>3, <2>6 DEF IsChain
  <2>8. ToSet(d) \subseteq live'
    BY <1>3, <1>4, <2>1
  <2>9. ASSUME Queue
        PROVE  /\ live' = ToSet(d) /\ ~freedWrite' /\ tail' = d[Len(d)]
               /\ ValuesBy(value', d) = Append(ValuesBy(value, c), v)
    <3>1. k = Len(c) /\ ~freedWrite'
      BY <1>8, <2>9
    <3>2. live = ToSet(c)
      BY <1>3, <2>9
    <3>3. QED
      BY <1>4, <1>7, <2>1, <3>1, <3>2
  <2>10. QED
    BY <2>4, <2>7, <2>8, <2>9 DEF d
<1>9. ASSUME ~Queue, UNCHANGED head, \A m \in ToSet(c) : next'[m] = next[m],
             next' = [m \in Node |-> next'[m]]
      PROVE  Done(c)
  <2>1. IsChain(c, head', next')
    BY <1>3, <1>9, ChainKept
  <2>2. QED
    BY <1>3, <1>4, <1>9, <2>1
<1>10. ASSUME "push" \in operations PROVE \E d : Done(d)
  <2> HIDE DEF Done
  <2>1. CASE head = Null
    <3>1. c = <<>> /\ Len(c) = 0 /\ 0 \in 0..Len(c)
      BY <1>2, <2>1
    <3>2. head' = n /\ next' = [next EXCEPT ![n] = Null] /\ freedWrite' = freedWrite
      BY <1>4, <2>1
    <3>3. [next EXCEPT ![n] = Null, ![n] = Null] = [next EXCEPT ![n] = Null]
      BY <1>3
    <3>4. Queue => ~freedWrite'
      BY <1>3, <3>2
    <3>5. QED
      BY <1>8, <3>1, <3>2, <3>3, <3>4
  <2>2. CASE head # Null /\ tail \in live' /\ tail \in ToSet(c)
    <3>1. c # <<>> /\ Len(c) \in 1..Len(c) /\ DOMAIN c = 1..Len(c)
      BY <1>2, <2>2
    <3>2. PICK k \in 1..Len(c) : tail = c[k] /\ (Queue => k = Len(c))
      <4>1. PICK j \in 1..Len(c) : tail = c[j]
        BY <2>2, <3>1 DEF ToSet
      <4>2. CASE Queue
        BY <1>3, <3>1, <4>2
      <4>3. CASE ~Queue
        BY <4>1, <4>3
      <4>4. QED
        BY <4>2, <4>3
    <3>3. next' = [next EXCEPT ![n] = Null, ![c[k]] = n] /\ UNCHANGED <<head, freedWrite>>
      BY <1>4, <2>2, <3>2
    <3>4. k \in 0..Len(c) /\ k # 0
      BY <1>2
    <3>5. Queue => ~freedWrite'
      BY <1>3, <3>3
    <3>6. QED
      BY <1>8, <3>2, <3>3, <3>4, <3>5
  <2>3. CASE head # Null /\ ~(tail \in live' /\ tail \in ToSet(c))
    <3>1. UNCHANGED head /\ \/ next' = [next EXCEPT ![n] = Null]
                            \/ next' = [next EXCEPT ![n] = Null, ![tail] = n]
                               /\ tail \notin ToSet(c)
      BY <1>4, <2>3
    <3>2. next' = [m \in Node |-> next'[m]]
      BY <1>3, <3>1
    <3>3. \A m \in ToSet(c) : next'[m] = next[m]
      <4>1. \A m \in ToSet(c) : m \in Node /\ m # n
        BY <1>3, <1>6
      <4>2. QED
        BY <1>3, <3>1, <4>1
    <3>4. ~Queue
      <4>1. c # <<>> /\ Len(c) \in 1..Len(c)
        BY <1>2, <2>3
      <4>2. c[Len(c)] \in ToSet(c) /\ ToSet(c) \subseteq live'
        BY <1>3, <1>4, <1>6, <4>1
      <4>3. QED
        BY <1>3, <2>3, <4>1, <4>2
    <3>5. QED
      BY <1>9, <3>1, <3>2, <3>3, <3>4
  <2>4. QED
    BY <2>1, <2>2, <2>3
<1>11. ASSUME "push" \in operations
       PROVE  ListInv' /\ (Queue \/ Ordered => Sequence!Push(v))
  <2>1. PICK d : Done(d)
    BY <1>10, <1>11
  <2>2. ListInv' /\ Items' = ValuesBy(value', d)
    BY <1>4, <1>5, <1>7, <1>11, <2>1, After
  <2>3. Queue => Items' = Append(Items, v)
    BY <1>2, <2>1, <2>2
  <2>4. QED
    BY <1>4, <1>5, <1>11, <2>2, <2>3 DEF Sequence!Push
<1>12. QED
  BY <1>11

(* CD_ListSortedPush                                                       *)
LEMMA SortedPushStep ==
  ASSUME NodeAssumption, ListInv, NEW v, SortedPush(v), UNCHANGED operations,
         "sortedpush" \in operations
  PROVE  ListInv' /\ Sequence!SortedPush(v)
<1>1. PICK c : c = Chain
  OBVIOUS
<1>2. /\ c \in Seq(Node) /\ NoRepeats(c)
      /\ head = Null <=> c = <<>>
      /\ Items = ValuesBy(value, c)
  BY <1>1, Before
<1>3. /\ value = [m \in Node |-> value[m]] /\ live \subseteq Node /\ ToSet(c) \subseteq live
      /\ Queue \/ Ordered => live = ToSet(c) /\ ~freedWrite
  BY <1>1 DEF ListInv
<1>4. ~Queue
  BY DEF Queue
<1>5. PICK n \in Node \ live :
        LET d == SortedBy(value, c, v, n) IN
        /\ live' = live \cup {n}
        /\ value' = [value EXCEPT ![n] = v]
        /\ next' = Linked(d)
        /\ head' = Head(d)
        /\ changed' = TRUE /\ UNCHANGED <<result, freedWrite>>
  BY <1>1 DEF SortedPush, Insert, Sorted, SortedBy, Values, ValuesBy, Mark, faults
<1> DEFINE d == SortedBy(value, c, v, n)
<1>6. n \in Node \ ToSet(c) /\ value' = [m \in Node |-> value'[m]] /\ value'[n] = v
      /\ SameValues(value, value', ToSet(c))
  BY <1>3, <1>5 DEF SameValues
<1>7. /\ d \in Seq(Node) /\ Len(d) = Len(c) + 1 /\ NoRepeats(d)
      /\ ToSet(d) = ToSet(c) \cup {n}
      /\ ValuesBy(value', d) = Sequence!Sorted(ValuesBy(value, c), v)
  BY <1>2, <1>6, SortedItems
<1>8. live' = live \cup {n} /\ next' = Linked(d) /\ head' = Head(d) /\ changed' = TRUE
      /\ UNCHANGED <<result, freedWrite>>
  BY <1>5
<1> HIDE DEF d
<1>9. head' = FirstOf(d)
  <2>1. Len(c) \in Nat /\ Len(<<>>) = 0
    BY <1>2
  <2>2. d # <<>>
    BY <1>7, <2>1
  <2>3. QED
    BY <1>8, <2>2 DEF FirstOf
<1>10. IsChain(d, head', next') /\ next' = [m \in Node |-> next'[m]]
  BY <1>7, <1>8, <1>9, LinkedIs
<1>11. /\ live' \subseteq Node /\ ToSet(d) \subseteq live'
       /\ Queue \/ Ordered => live' = ToSet(d) /\ ~freedWrite'
  BY <1>3, <1>6, <1>7, <1>8
<1>12. ListInv' /\ Items' = ValuesBy(value', d)
  BY <1>4, <1>6, <1>8, <1>10, <1>11, After
<1>13. QED
  BY <1>2, <1>7, <1>8, <1>12 DEF Sequence!SortedPush

(* What the calls that take items away have in common: rest is left.       *)
LEMMA KeepStep ==
  ASSUME NodeAssumption, ListInv, NEW rest \in Seq(Node), NoRepeats(rest),
         ToSet(rest) \subseteq ToSet(Chain), Keep(rest),
         ~changed' => length' = Len(rest),
         Queue /\ rest # <<>> => tail = rest[Len(rest)],
         UNCHANGED <<freedWrite, operations>>
  PROVE  ListInv' /\ Items' = ValuesBy(value', rest)
<1>1. /\ IsChain(rest, head', next')
      /\ next' = [n \in Node |-> next'[n]] /\ value' = [n \in Node |-> value'[n]]
      /\ live' \subseteq Node /\ ToSet(rest) \subseteq live'
      /\ Queue \/ Ordered => live' = ToSet(rest)
      /\ tail' = tail
  BY KeepLeaves
<1>2. Queue \/ Ordered => ~freedWrite'
  BY DEF ListInv
<1>3. QED
  BY <1>1, <1>2, After

(* CD_ListShift                                                            *)
LEMMA ShiftStep ==
  ASSUME NodeAssumption, ListInv, Shift, UNCHANGED operations
  PROVE  ListInv' /\ Sequence!Shift
<1>1. PICK c : c = Chain
  OBVIOUS
<1>2. /\ c \in Seq(Node) /\ NoRepeats(c) /\ Len(c) \in Nat
      /\ head = (IF Len(c) = 0 THEN Null ELSE c[1]) /\ (head = Null <=> c = <<>>)
      /\ Items = ValuesBy(value, c)
  BY <1>1, Before
<1> DEFINE rest == IF c = <<>> THEN <<>> ELSE Tail(c)
           u == ValuesBy(value, c)
<1>3. Keep(rest) /\ changed' = TRUE /\ UNCHANGED freedWrite
      /\ result' = IF c = <<>> THEN <<>> ELSE <<value[head]>>
  BY <1>1, <1>2 DEF Shift, Keep, Mark, faults
<1>u. u \in Seq(Held(value)) /\ Len(u) = Len(c) /\ \A i \in 1..Len(c) : u[i] = value[c[i]]
  BY <1>2, ValuesAre
<1>4. CASE c = <<>>
  <2>1. rest = <<>> /\ <<>> \in Seq(Node) /\ NoRepeats(<<>>) /\ ToSet(<<>>) = {}
    BY <1>4 DEF NoRepeats, ToSet
  <2> HIDE DEF rest
  <2>2. ListInv' /\ Items' = ValuesBy(value', rest)
    BY <1>3, <2>1, KeepStep
  <2>3. ValuesBy(value', <<>>) = <<>> /\ ValuesBy(value, <<>>) = <<>>
    BY DEF ValuesBy
  <2>4. QED
    BY <1>2, <1>3, <1>4, <2>1, <2>2, <2>3 DEF Sequence!Shift
<1>5. CASE c # <<>>
  <2>1. rest = Tail(c) /\ Len(c) # 0 /\ c[1] = head /\ 1 \in 1..Len(c)
    BY <1>2, <1>5
  <2>2. SameValues(value, value, ToSet(c) \ {c[1]})
    BY DEF SameValues
  <2>3. /\ rest \in Seq(Node) /\ Len(rest) = Len(c) - 1 /\ NoRepeats(rest)
        /\ ToSet(rest) = ToSet(c) \ {c[1]}
        /\ ValuesBy(value, rest) = Tail(u)
    BY <1>2, <1>5, <2>1, <2>2, TailItems
  <2>4. \A i \in 1..(Len(c) - 1) : rest[i] = c[i + 1]
    BY <1>2, <1>5, <2>1, HeadTailProperties
  <2> HIDE DEF rest, u
  <2>5. Queue /\ rest # <<>> => tail = rest[Len(rest)]
    <3> SUFFICES ASSUME Queue, rest # <<>> PROVE tail = rest[Len(rest)]
      OBVIOUS
    <3>1. Len(rest) \in 1..(Len(c) - 1) /\ Len(rest) + 1 = Len(c)
      <4>1. Len(rest) \in Nat /\ Len(rest) # 0
        BY <2>3
      <4>2. QED
        BY <1>2, <2>3, <4>1
    <3>2. tail = c[Len(c)]
      BY <1>1, <1>5 DEF ListInv
    <3>3. QED
      BY <2>4, <3>1, <3>2
  <2>6. ToSet(rest) \subseteq ToSet(Chain)
    BY <1>1, <2>3
  <2>7. ListInv' /\ Items' = ValuesBy(value', rest)
    BY <1>3, <2>3, <2>5, <2>6, KeepStep
  <2>8. SameValues(value, value', ToSet(rest))
    BY <1>3, <2>3, <2>6, KeepLeaves
  <2>9. Items' = Tail(u)
    BY <2>3, <2>7, <2>8, ValuesOfSame
  <2>10. u # <<>> /\ Head(u) = value[head]
    BY <1>u, <2>1
  <2>11. QED
    BY <1>2, <1>3, <1>5, <2>7, <2>9, <2>10 DEF Sequence!Shift, u
<1>6. QED
  BY <1>4, <1>5

(* The position of the first of the items that match.                      *)
Found(val, c, matching) ==
  LET I == {i \in 1..Len(ValuesBy(val, c)) : ValuesBy(val, c)[i] \in matching} IN
  IF I # {} THEN Min(I) ELSE 0

LEMMA FoundItems ==
  ASSUME NEW val, NEW c \in Seq(Node), NEW matching
  PROVE  /\ Found(val, c, matching) \in 0..Len(c)
         /\ Found(val, c, matching) = 0 <=> Matching(val, c, matching) = {}
<1> DEFINE u == ValuesBy(val, c)
           I == {i \in 1..Len(u) : u[i] \in matching}
           k == IF I # {} THEN Min(I) ELSE 0
<1>1. Len(c) \in Nat /\ Len(u) = Len(c) /\ \A i \in 1..Len(c) : u[i] = val[c[i]]
  BY ValuesAre
<1>2. I \subseteq 1..Len(c)
  BY <1>1
<1>3. I = {} <=> {n \in ToSet(c) : val[n] \in matching} = {}
  <2> HIDE DEF u
  <2>1. \A i \in 1..Len(c) : i \in I <=> val[c[i]] \in matching
    BY <1>1
  <2>2. ToSet(c) = {c[i] : i \in 1..Len(c)}
    BY DEF ToSet
  <2> HIDE DEF I
  <2>3. QED
    BY <1>2, <2>1, <2>2
<1> HIDE DEF I
<1>4. k \in 0..Len(c) /\ (k = 0 <=> I = {})
  BY <1>1, <1>2, Selected
<1>5. Found(val, c, matching) = k
  BY DEF Found, I
<1>6. QED
  BY <1>3, <1>4, <1>5 DEF Matching

(* CD_ListDelete                                                           *)
LEMMA DeleteFirstStep ==
  ASSUME NodeAssumption, ListInv, NEW matching, DeleteFirst(matching), UNCHANGED operations,
         "delete" \in operations
  PROVE  ListInv' /\ Sequence!DeleteFirst(matching)
<1>1. PICK c : c = Chain
  OBVIOUS
<1>2. /\ c \in Seq(Node) /\ NoRepeats(c) /\ Len(c) \in Nat
      /\ Items = ValuesBy(value, c)
  BY <1>1, Before
<1>3. ~Queue
  BY DEF Queue
<1> DEFINE u == ValuesBy(value, c)
           k == Found(value, c, matching)
           rest == IF k = 0 THEN c ELSE RemoveAt(c, k)
<1>4. k \in 0..Len(c)
  BY <1>2, FoundItems
<1>5. /\ Keep(rest)
      /\ result' = IF k = 0 THEN <<>> ELSE <<u[k]>>
      /\ changed' = (changed \/ k # 0)
      /\ UNCHANGED <<length, freedWrite>>
  BY <1>1, <1>2 DEF DeleteFirst, SelectInSeq, Keep, faults, Found
<1>6. Sequence!DeleteFirst(matching) <=>
        /\ Items' = IF k = 0 THEN u ELSE RemoveAt(u, k)
        /\ result' = IF k = 0 THEN <<>> ELSE <<u[k]>>
  BY <1>2 DEF Sequence!DeleteFirst, Sequence!SelectInSeq, Sequence!Min, Min, Sequence!RemoveAt, RemoveAt, Found
<1> HIDE DEF k
<1>7. ~changed => length = Len(c)
  BY <1>1 DEF ListInv
<1>8. /\ rest \in Seq(Node) /\ NoRepeats(rest) /\ ToSet(rest) \subseteq ToSet(c)
      /\ k = 0 => Len(rest) = Len(c)
      /\ ValuesBy(value, rest) = IF k = 0 THEN u ELSE RemoveAt(u, k)
  <2>1. CASE k = 0
    BY <1>2, <2>1
  <2>2. CASE k # 0
    <3>1. k \in 1..Len(c) /\ SameValues(value, value, ToSet(c) \ {c[k]})
      BY <1>4, <2>2 DEF SameValues
    <3>2. LET t == RemoveAt(c, k) IN
          /\ t \in Seq(Node) /\ NoRepeats(t) /\ ToSet(t) = ToSet(c) \ {c[k]}
          /\ ValuesBy(value, t) = RemoveAt(ValuesBy(value, c), k)
      BY <1>2, <3>1, RemovedItems
    <3>3. QED
      BY <2>2, <3>2
  <2>3. QED
    BY <2>1, <2>2
<1> HIDE DEF rest, u
<1>9. ~changed' => length' = Len(rest)
  BY <1>5, <1>7, <1>8
<1>10. ListInv' /\ Items' = ValuesBy(value', rest)
  BY <1>1, <1>3, <1>5, <1>8, <1>9, KeepStep
<1>11. SameValues(value, value', ToSet(rest))
  BY <1>1, <1>5, <1>8, KeepLeaves
<1>12. ValuesBy(value', rest) = ValuesBy(value, rest)
  BY <1>8, <1>11, ValuesOfSame
<1>13. QED
  BY <1>5, <1>6, <1>8, <1>10, <1>12

(* CD_ListDeleteAll                                                        *)
LEMMA DeleteAllStep ==
  ASSUME NodeAssumption, ListInv, NEW matching, DeleteAll(matching), UNCHANGED operations,
         "deleteall" \in operations
  PROVE  ListInv' /\ Sequence!DeleteAll(matching)
<1>1. PICK c : c = Chain
  OBVIOUS
<1>2. /\ c \in Seq(Node) /\ NoRepeats(c) /\ Len(c) \in Nat
      /\ Items = ValuesBy(value, c)
  BY <1>1, Before
<1>3. ~Queue
  BY DEF Queue
<1> DEFINE u == ValuesBy(value, c)
           k == Found(value, c, matching)
           M == Matching(value, c, matching)
           rest == Sequence!Without(c, M)
<1>4. k = 0 <=> M = {}
  BY <1>2, FoundItems
<1>5. /\ Keep(rest)
      /\ result' = IF k = 0 THEN <<>> ELSE <<u[k]>>
      /\ changed' = (changed \/ k # 0)
      /\ UNCHANGED <<length, freedWrite>>
  BY <1>1, <1>2 DEF DeleteAll, SelectInSeq, Keep, faults, Found, Matching
<1>6. Sequence!DeleteAll(matching) <=>
        /\ Items' = Sequence!Without(u, matching)
        /\ result' = IF k = 0 THEN <<>> ELSE <<u[k]>>
  BY <1>2 DEF Sequence!DeleteAll, Sequence!SelectInSeq, Sequence!Min, Min, Found
<1> HIDE DEF k
<1>7. ~changed => length = Len(c)
  BY <1>1 DEF ListInv
<1>8. /\ rest \in Seq(Node) /\ NoRepeats(rest)
      /\ ToSet(rest) = ToSet(c) \ M
      /\ ValuesBy(value, rest) = Sequence!Without(u, matching)
  BY <1>2, WithoutItems
<1> HIDE DEF rest, u, M
<1>9. ~changed' => length' = Len(rest)
  <2> SUFFICES ASSUME ~changed' PROVE length' = Len(rest)
    OBVIOUS
  <2>1. M = {} /\ length' = Len(c)
    BY <1>4, <1>5, <1>7
  <2>2. ToSet(rest) = ToSet(c)
    BY <1>8, <2>1
  <2>3. Cardinality(ToSet(rest)) = Len(rest) /\ Cardinality(ToSet(c)) = Len(c)
    BY <1>2, <1>8, AsManyItems
  <2>4. QED
    BY <2>1, <2>2, <2>3
<1>10. ToSet(rest) \subseteq ToSet(Chain)
  BY <1>1, <1>8
<1>11. ListInv' /\ Items' = ValuesBy(value', rest)
  BY <1>3, <1>5, <1>8, <1>9, <1>10, KeepStep
<1>12. SameValues(value, value', ToSet(rest))
  BY <1>5, <1>8, <1>10, KeepLeaves
<1>13. ValuesBy(value', rest) = ValuesBy(value, rest)
  BY <1>8, <1>12, ValuesOfSame
<1>14. QED
  BY <1>5, <1>6, <1>8, <1>11, <1>13

(* CD_ListLength, and CD_ListClear before it locks the list                *)
LEMMA MeasureStep ==
  ASSUME NodeAssumption, ListInv, length' = Measured, UNCHANGED <<heap, result, freedWrite, operations>>
  PROVE  ListInv' /\ UNCHANGED Sequence!vars
<1>1. Chain' = Chain /\ Items' = Items /\ (Queue' <=> Queue) /\ (Ordered' <=> Ordered)
  BY DEF heap, Chain, Items, Values, Queue, Ordered
<1>2. length' = Len(Chain)
  BY DEF Measured, ListInv
<1>3. UNCHANGED Sequence!vars
  BY <1>1 DEF Sequence!vars
<1> HIDE DEF Chain
<1>4. ListInv'
  BY <1>1, <1>2 DEF ListInv, heap
<1>5. QED
  BY <1>3, <1>4

(* CD_ListClear                                                            *)
LEMMA ClearStep ==
  ASSUME NodeAssumption, ListInv, ClearTake, UNCHANGED operations
  PROVE  ListInv' /\ Sequence!Clear
<1>1. PICK c : c = Chain
  OBVIOUS
<1>2. /\ c \in Seq(Node) /\ (head = Null <=> c = <<>>) /\ Items = ValuesBy(value, c)
      /\ ~changed => length = Len(c)
  BY <1>1, Before DEF ListInv
<1>3. /\ Keep(<<>>)
      /\ result' = Distinct(ValuesBy(value, c))
      /\ changed' = (changed \/ head # Null)
      /\ UNCHANGED <<length, freedWrite>>
  BY <1>2 DEF ClearTake, Keep
<1>4. <<>> \in Seq(Node) /\ NoRepeats(<<>>) /\ ToSet(<<>>) = {} /\ Len(<<>>) = 0
  BY DEF NoRepeats, ToSet
<1>5. ~changed' => length' = Len(<<>>)
  BY <1>2, <1>3
<1>6. ListInv' /\ Items' = ValuesBy(value', <<>>)
  BY <1>3, <1>4, <1>5, KeepStep
<1>7. ValuesBy(value', <<>>) = <<>>
  BY DEF ValuesBy
<1>8. ToSet(result') = ToSet(Items)
  <2>1. ValuesBy(value, c) \in Seq(Held(value))
    BY <1>2, ValuesAre
  <2>2. QED
    BY <1>2, <1>3, <2>1, DistinctItems
<1>9. QED
  BY <1>6, <1>7, <1>8 DEF Sequence!Clear, Sequence!ToSet, ToSet

(* CD_ListSort                                                             *)
LEMMA SortStep ==
  ASSUME NodeAssumption, ListInv, SortInsert, UNCHANGED operations, "sort" \in operations
  PROVE  ListInv' /\ Sequence!Sort
<1>1. PICK c : c = Chain
  OBVIOUS
<1>2. /\ c \in Seq(Node) /\ NoRepeats(c) /\ Items = ValuesBy(value, c)
      /\ head = Null <=> c = <<>>
  BY <1>1, Before
<1>3. /\ value = [m \in Node |-> value[m]] /\ live \subseteq Node /\ ToSet(c) \subseteq live
      /\ Queue \/ Ordered => live = ToSet(c) /\ ~freedWrite
      /\ ~changed => length = Len(c)
  BY <1>1 DEF ListInv
<1>4. ~Queue
  BY DEF Queue
<1> DEFINE d == ResortedBy(value, c)
<1>5. /\ head' = FirstOf(d) /\ next' = Linked(d)
      /\ changed' = (changed \/ head # Null)
      /\ UNCHANGED <<value, live, length, result, freedWrite>>
  <2>1. Resorted(c) = d
    BY DEF Resorted, ResortedBy, Sorted, SortedBy, Values, ValuesBy
  <2> HIDE DEF d
  <2>2. /\ head' = FirstOf(Resorted(c)) /\ next' = Linked(Resorted(c))
        /\ changed' = (changed \/ head # Null)
        /\ UNCHANGED <<value, live, length, result, freedWrite>>
    BY <1>1 DEF SortInsert, faults
  <2>3. QED
    BY <2>1, <2>2
<1>6. /\ d \in Seq(Node) /\ NoRepeats(d) /\ Len(d) = Len(c)
      /\ ToSet(d) = ToSet(c)
      /\ ValuesBy(value, d) = Sequence!Resorted(ValuesBy(value, c))
  BY <1>2, ResortedItems
<1> HIDE DEF d
<1>7. IsChain(d, head', next') /\ next' = [m \in Node |-> next'[m]]
  BY <1>5, <1>6, LinkedIs
<1>8. ListInv' /\ Items' = ValuesBy(value', d)
  BY <1>3, <1>4, <1>5, <1>6, <1>7, After
<1>9. QED
  BY <1>2, <1>5, <1>6, <1>8 DEF Sequence!Sort

LEMMA ListStep ==
  ASSUME NodeAssumption, ListInv, [Next]_vars
  PROVE  ListInv' /\ [Queue \/ Ordered => Sequence!Next]_(Sequence!vars)
<1>1. CASE UNCHANGED vars
  <2>1. /\ length' = length
        /\ UNCHANGED <<heap, result, freedWrite, operations, changed>>
    BY <1>1 DEF vars, heap, faults
  <2>2. Chain' = Chain /\ Items' = Items /\ (Queue' <=> Queue) /\ (Ordered' <=> Ordered)
    BY <2>1 DEF heap, Chain, Items, Values, Queue, Ordered
  <2> HIDE DEF Chain
  <2>3. ListInv'
    BY <2>1, <2>2 DEF ListInv, heap
  <2>4. QED
    BY <2>1, <2>2, <2>3 DEF Sequence!vars
<1>2. CASE Next
  <2>0. UNCHANGED operations
    BY <1>2 DEF Next
  <2>1. ASSUME NEW v \in Value, "push" \in operations, Push(v)
        PROVE  ListInv' /\ (Queue \/ Ordered => Sequence!Next)
    BY <2>0, <2>1, PushStep DEF Sequence!Next
  <2>2. ASSUME NEW v \in Value, "sortedpush" \in operations, SortedPush(v)
        PROVE  ListInv' /\ Sequence!Next
    BY <2>0, <2>2, SortedPushStep DEF Sequence!Next
  <2>3. ASSUME NEW matching \in SUBSET Value, "delete" \in operations, DeleteFirst(matching)
        PROVE  ListInv' /\ Sequence!Next
    BY <2>0, <2>3, DeleteFirstStep DEF Sequence!Next
  <2>4. ASSUME NEW matching \in SUBSET Value, "deleteall" \in operations, DeleteAll(matching)
        PROVE  ListInv' /\ Sequence!Next
    BY <2>0, <2>4, DeleteAllStep DEF Sequence!Next
  <2>5. ASSUME Shift PROVE ListInv' /\ Sequence!Next
    BY <2>0, <2>5, ShiftStep DEF Sequence!Next
  <2>6. ASSUME ClearTake PROVE ListInv' /\ Sequence!Next
    BY <2>0, <2>6, ClearStep DEF Sequence!Next
  <2>7. ASSUME "sort" \in operations, SortInsert PROVE ListInv' /\ Sequence!Next
    BY <2>0, <2>7, SortStep DEF Sequence!Next
  <2>8. ASSUME ClearMeasure \/ Length PROVE ListInv' /\ UNCHANGED Sequence!vars
    <3>1. length' = Measured /\ UNCHANGED <<heap, result, freedWrite, operations>>
      BY <2>0, <2>8 DEF ClearMeasure, Length, faults
    <3>2. QED
      BY <3>1, MeasureStep
  <2>9. QED
    BY <1>2, <2>1, <2>2, <2>3, <2>4, <2>5, <2>6, <2>7, <2>8 DEF Next, Operation
<1>3. QED
  BY <1>1, <1>2

------------------------------------------------------------------------------
(* Theorems                                                                *)

(* The inductive invariant holds of every list, whatever calls are made on *)
(* it.                                                                     *)
THEOREM ListInvariant == Spec => []ListInv
<1>1. Init => ListInv
  BY ListInitially, NodeAssumption
<1>2. ListInv /\ [Next]_vars => ListInv'
  BY ListStep, NodeAssumption
<1>3. QED
  BY <1>1, <1>2, PTL DEF Spec

LEMMA ListInvIsSound ==
  ASSUME NodeAssumption, ListInv
  PROVE  LinksAreSound
<1>1. /\ ToSet(Chain) \subseteq live
      /\ ~changed => length = Len(Chain)
      /\ Queue \/ Ordered => live = ToSet(Chain) /\ ~freedWrite
      /\ Chain \in Seq(Node) /\ NoRepeats(Chain)
  BY DEF ListInv, IsChain
<1>2. Cardinality(ToSet(Chain)) = Len(Chain)
  BY <1>1, AsManyItems
<1>3. QED
  BY <1>1, <1>2 DEF LinksAreSound

(* No freed item can be reached from the head, whatever the calls. On a    *)
(* list used as a queue or kept in order every item that was allocated can *)
(* be reached and no push writes to a freed one, although the tail pointer *)
(* dangles (List.c:119-170, 313-341).                                      *)
THEOREM LinksStaySound == Spec => []LinksAreSound
<1>1. ListInv => LinksAreSound
  BY ListInvIsSound, NodeAssumption
<1>2. QED
  BY <1>1, ListInvariant, PTL

(* Such a list implements the sequence its callers take it for.            *)
THEOREM ListRefines == Spec => ImplementsList
<1>1. Init => Sequence!Init
  BY ListInitially, NodeAssumption
<1>2. ListInv /\ [Next]_vars => [Queue \/ Ordered => Sequence!Next]_(Sequence!vars)
  BY ListStep, NodeAssumption
<1>3. QED
  BY <1>1, <1>2, ListInvariant, PTL DEF Spec, ImplementsList
==============================================================================
