-------------------------- MODULE PacketFramingProofs --------------------------
(***************************************************************************)
(* Proofs about how packets are found in a stream of bytes: that their     *)
(* three layouts agree, for every type not in Apart and every length; and  *)
(* what follows from it, however the bytes arrive.                         *)
(***************************************************************************)
EXTENDS PacketFraming, FiniteSetTheorems, SequenceTheorems, WellFoundedInduction, TLAPS

(* Induction, for sets of natural numbers.                                 *)
LEMMA LeastOf ==
  ASSUME NEW I, I \subseteq Nat, I # {}
  PROVE  Min(I) \in I /\ \A j \in I : Min(I) <= j
<1>1. IsWellFoundedOn(OpToRel(<, Nat), Nat)
  BY NatLessThanWellFounded
<1>2. PICK x \in I : \A y \in I : <<y, x>> \notin OpToRel(<, Nat)
  BY <1>1, WFMin
<1>3. ASSUME NEW y \in I PROVE x <= y
  <2>1. ~(y < x)
    BY <1>2 DEF OpToRel
  <2>2. QED
    BY <2>1
<1>4. QED
  BY <1>3 DEF Min

LEMMA InductiveSet ==
  ASSUME NEW S, S \subseteq Nat, 0 \in S, \A n \in S : n + 1 \in S
  PROVE  S = Nat
<1> SUFFICES ASSUME Nat \ S # {} PROVE FALSE
  OBVIOUS
<1> DEFINE x == Min(Nat \ S)
<1>1. x \in Nat \ S /\ \A j \in Nat \ S : x <= j
  BY LeastOf
<1> HIDE DEF x
<1>2. x # 0 /\ x - 1 \in Nat /\ ~(x <= x - 1)
  BY <1>1
<1>3. x - 1 \in S
  BY <1>1, <1>2
<1>4. QED
  BY <1>1, <1>2, <1>3

------------------------------------------------------------------------------
(* The sum of a sequence.                                                  *)

Sums(s, n, f) == f = [k \in 0..n |-> IF k = 0 THEN 0 ELSE f[k - 1] + s[k]]

LEMMA SumsExist == ASSUME NEW s PROVE \A n \in Nat : \E f : Sums(s, n, f)
<1> DEFINE S == {n \in Nat : \E f : Sums(s, n, f)}
<1>1. 0 \in S
  <2>1. Sums(s, 0, [k \in 0..0 |-> 0])
    BY DEF Sums
  <2>2. QED
    BY <2>1
<1>2. ASSUME NEW n \in S PROVE n + 1 \in S
  <2>1. n \in Nat
    OBVIOUS
  <2>2. PICK f : Sums(s, n, f)
    OBVIOUS
  <2> DEFINE g == [k \in 0..(n + 1) |-> IF k <= n THEN f[k] ELSE f[n] + s[k]]
  <2>3. \A k \in 0..n : g[k] = f[k]
    BY <2>1
  <2>4. \A k \in 0..(n + 1) : g[k] = IF k = 0 THEN 0 ELSE g[k - 1] + s[k]
    <3>1. ASSUME NEW k \in 0..n PROVE g[k] = IF k = 0 THEN 0 ELSE g[k - 1] + s[k]
      <4>1. k # 0 => k - 1 \in 0..n
        BY <2>1
      <4>2. f[k] = IF k = 0 THEN 0 ELSE f[k - 1] + s[k]
        BY <2>2 DEF Sums
      <4>3. QED
        BY <2>3, <4>1, <4>2
    <3>2. g[n + 1] = g[n] + s[n + 1] /\ n + 1 # 0 /\ (n + 1) - 1 = n
      BY <2>1, <2>3
    <3>3. \A k \in 0..(n + 1) : k \in 0..n \/ k = n + 1
      BY <2>1
    <3> HIDE DEF g
    <3>4. QED
      BY <3>1, <3>2, <3>3
  <2>5. g = [k \in 0..(n + 1) |-> g[k]]
    OBVIOUS
  <2> HIDE DEF g
  <2>6. g = [k \in 0..(n + 1) |-> IF k = 0 THEN 0 ELSE g[k - 1] + s[k]]
    BY <2>4, <2>5
  <2>7. QED
    BY <2>1, <2>6 DEF Sums
<1>3. S = Nat
  <2> HIDE DEF S
  <2>1. S \subseteq Nat
    BY DEF S
  <2>2. QED
    BY <1>1, <1>2, <2>1, InductiveSet
<1>4. QED
  BY <1>3

(* A function that adds up the members of a sequence ends with their total. *)
AddsUp(s, f) ==
  /\ f[0] = 0
  /\ \A k \in 1..Len(s) : f[k] = f[k - 1] + s[k]

LEMMA TotalAddsUp ==
  ASSUME NEW s, Len(s) \in Nat
  PROVE  \E f : AddsUp(s, f) /\ Total(s) = f[Len(s)]
<1> DEFINE sum == CHOOSE f : Sums(s, Len(s), f)
<1>1. Total(s) = sum[Len(s)]
  BY DEF Total, Sums
<1>2. Sums(s, Len(s), sum)
  BY SumsExist
<1> HIDE DEF sum
<1>3. AddsUp(s, sum)
  BY <1>2 DEF Sums, AddsUp
<1>4. QED
  BY <1>1, <1>3

LEMMA TotalIs ==
  ASSUME NEW s, Len(s) \in Nat, NEW f, AddsUp(s, f)
  PROVE  Total(s) = f[Len(s)]
<1>1. PICK g : AddsUp(s, g) /\ Total(s) = g[Len(s)]
  BY TotalAddsUp
<1> DEFINE S == {n \in Nat : n <= Len(s) => f[n] = g[n]}
<1>2. 0 \in S
  BY <1>1 DEF AddsUp
<1>3. ASSUME NEW n \in S PROVE n + 1 \in S
  <2>1. ASSUME n + 1 <= Len(s) PROVE f[n + 1] = g[n + 1]
    <3>1. n + 1 \in 1..Len(s) /\ (n + 1) - 1 = n /\ f[n] = g[n]
      BY <2>1
    <3>2. QED
      BY <1>1, <3>1 DEF AddsUp
  <2>2. QED
    BY <2>1
<1>4. S = Nat
  <2> HIDE DEF S
  <2>1. S \subseteq Nat
    BY DEF S
  <2>2. QED
    BY <1>2, <1>3, <2>1, InductiveSet
<1>5. Len(s) \in S
  BY <1>4
<1>6. QED
  BY <1>1, <1>5

(* The sums of the first members.                                          *)
LEMMA SumsGrow ==
  ASSUME NEW s, Len(s) \in Nat, \A k \in 1..Len(s) : s[k] \in Nat,
         NEW f, AddsUp(s, f)
  PROVE  \A k \in 0..Len(s) : f[k] \in Nat /\ f[k] <= f[Len(s)]
<1> DEFINE S == {n \in Nat : n <= Len(s) => f[n] \in Nat}
           T == {n \in Nat : n <= Len(s) => f[Len(s) - n] <= f[Len(s)]}
<1>1. \A k \in 1..Len(s) : f[k] = f[k - 1] + s[k]
  BY DEF AddsUp
<1>2. S = Nat
  <2>1. 0 \in S
    BY DEF AddsUp
  <2>2. ASSUME NEW n \in S PROVE n + 1 \in S
    <3>1. ASSUME n + 1 <= Len(s) PROVE f[n + 1] \in Nat
      <4>1. n + 1 \in 1..Len(s) /\ (n + 1) - 1 = n /\ f[n] \in Nat
        BY <3>1
      <4>2. QED
        BY <1>1, <4>1
    <3>2. QED
      BY <3>1
  <2>3. S \subseteq Nat
    OBVIOUS
  <2> HIDE DEF S
  <2>4. QED
    BY <2>1, <2>2, <2>3, InductiveSet
<1>3. \A k \in 0..Len(s) : f[k] \in Nat
  BY <1>2
<1>4. T = Nat
  <2>1. 0 \in T
    BY <1>3
  <2>2. ASSUME NEW n \in T PROVE n + 1 \in T
    <3>1. ASSUME n + 1 <= Len(s) PROVE f[Len(s) - (n + 1)] <= f[Len(s)]
      <4> DEFINE k == Len(s) - n
      <4>1. k \in 1..Len(s) /\ k \in 0..Len(s) /\ k - 1 \in 0..Len(s) /\ Len(s) \in 0..Len(s)
            /\ Len(s) - (n + 1) = k - 1
        BY <3>1
      <4>2. f[k] <= f[Len(s)]
        BY <3>1
      <4> HIDE DEF k
      <4>3. f[k] = f[k - 1] + s[k] /\ s[k] \in Nat /\ f[k - 1] \in Nat /\ f[k] \in Nat
            /\ f[Len(s)] \in Nat
        BY <1>1, <1>3, <4>1
      <4>4. QED
        BY <4>1, <4>2, <4>3
    <3>2. QED
      BY <3>1
  <2>3. T \subseteq Nat
    OBVIOUS
  <2> HIDE DEF T
  <2>4. QED
    BY <2>1, <2>2, <2>3, InductiveSet
<1>5. ASSUME NEW k \in 0..Len(s) PROVE f[k] <= f[Len(s)]
  <2>1. Len(s) - k \in T /\ Len(s) - k <= Len(s) /\ Len(s) - (Len(s) - k) = k
    <3>1. Len(s) - k \in Nat
      OBVIOUS
    <3> HIDE DEF T
    <3>2. QED
      BY <1>4, <3>1
  <2>2. QED
    BY <2>1
<1>6. QED
  BY <1>3, <1>5

LEMMA PartialSums ==
  ASSUME NEW s, Len(s) \in Nat, NEW f, AddsUp(s, f), NEW k \in 0..Len(s)
  PROVE  UpTo(s, k) = f[k]
<1> DEFINE part == [j \in 1..k |-> s[j]]
<1>1. Len(part) = k /\ k \in Nat /\ \A j \in 1..k : part[j] = s[j] /\ j \in 1..Len(s)
  OBVIOUS
<1> HIDE DEF part
<1>2. AddsUp(part, f)
  BY <1>1 DEF AddsUp
<1>3. Total(part) = f[k]
  BY <1>1, <1>2, TotalIs
<1>4. QED
  BY <1>3 DEF UpTo, part

LEMMA UpToAll ==
  ASSUME NEW s, Len(s) \in Nat, \A k \in 1..Len(s) : s[k] \in Nat
  PROVE  /\ Total(s) \in Nat
         /\ UpTo(s, Len(s)) = Total(s)
         /\ \A k \in 0..Len(s) : UpTo(s, k) \in Nat /\ UpTo(s, k) <= Total(s)
<1>1. PICK f : AddsUp(s, f) /\ Total(s) = f[Len(s)]
  BY TotalAddsUp
<1>2. \A k \in 0..Len(s) : f[k] \in Nat /\ f[k] <= f[Len(s)]
  BY <1>1, SumsGrow
<1>3. \A k \in 0..Len(s) : UpTo(s, k) = f[k]
  BY <1>1, PartialSums
<1>4. Len(s) \in 0..Len(s)
  OBVIOUS
<1>5. QED
  BY <1>1, <1>2, <1>3, <1>4

LEMMA TotalOfNone == Total(<<>>) = 0
<1>1. AddsUp(<<>>, [k \in {0} |-> 0])
  BY DEF AddsUp
<1>2. QED
  BY <1>1, TotalIs

LEMMA TotalIsNat ==
  ASSUME NEW s \in Seq(Nat)
  PROVE  Total(s) \in Nat
<1>1. PICK f : AddsUp(s, f) /\ Total(s) = f[Len(s)]
  BY TotalAddsUp
<1> DEFINE S == {n \in Nat : n <= Len(s) => f[n] \in Nat}
<1>2. 0 \in S
  BY <1>1 DEF AddsUp
<1>3. ASSUME NEW n \in S PROVE n + 1 \in S
  <2>1. ASSUME n + 1 <= Len(s) PROVE f[n + 1] \in Nat
    <3>1. n + 1 \in 1..Len(s) /\ (n + 1) - 1 = n /\ f[n] \in Nat
      BY <2>1
    <3>2. QED
      BY <1>1, <3>1 DEF AddsUp
  <2>2. QED
    BY <2>1
<1>4. S = Nat
  <2> HIDE DEF S
  <2>1. S \subseteq Nat
    BY DEF S
  <2>2. QED
    BY <1>2, <1>3, <2>1, InductiveSet
<1>5. Len(s) \in S
  BY <1>4
<1>6. QED
  BY <1>1, <1>5

LEMMA TotalOfAppend ==
  ASSUME NEW s \in Seq(Nat), NEW x \in Nat
  PROVE  Total(Append(s, x)) = Total(s) + x
<1>1. PICK f : AddsUp(s, f) /\ Total(s) = f[Len(s)]
  BY TotalAddsUp
<1> DEFINE t == Append(s, x)
           g == [k \in 0..Len(t) |-> IF k = Len(t) THEN f[Len(s)] + x ELSE f[k]]
<1>2. /\ Len(t) = Len(s) + 1 /\ Len(s) \in Nat
      /\ t[Len(t)] = x /\ \A k \in 1..Len(s) : t[k] = s[k]
  OBVIOUS
<1>3. g[Len(t)] = f[Len(s)] + x /\ \A k \in 0..Len(s) : g[k] = f[k]
  BY <1>2
<1>4. AddsUp(t, g)
  <2>1. ASSUME NEW k \in 1..Len(t) PROVE g[k] = g[k - 1] + t[k]
    <3> HIDE DEF g, t
    <3>1. CASE k = Len(t)
      <4>1. k - 1 = Len(s) /\ Len(s) \in 0..Len(s)
        BY <1>2, <3>1
      <4>2. QED
        BY <1>2, <1>3, <3>1, <4>1
    <3>2. CASE k # Len(t)
      <4>1. k \in 1..Len(s) /\ k - 1 \in 0..Len(s) /\ k \in 0..Len(s)
        BY <1>2, <3>2
      <4>2. QED
        BY <1>1, <1>2, <1>3, <4>1 DEF AddsUp
    <3>3. QED
      BY <3>1, <3>2
  <2>2. g[0] = 0
    <3>1. f[0] = 0 /\ 0 \in 0..Len(s)
      BY <1>1, <1>2 DEF AddsUp
    <3> HIDE DEF g
    <3>2. QED
      BY <1>3, <3>1
  <2>3. QED
    BY <2>1, <2>2 DEF AddsUp
<1> HIDE DEF t, g
<1>5. Total(t) = g[Len(t)]
  BY <1>2, <1>4, TotalIs
<1>6. QED
  BY <1>1, <1>3, <1>5 DEF t

LEMMA TotalOfTail ==
  ASSUME NEW s \in Seq(Nat), s # <<>>
  PROVE  Total(s) = Head(s) + Total(Tail(s))
<1>1. PICK f : AddsUp(s, f) /\ Total(s) = f[Len(s)]
  BY TotalAddsUp
<1> DEFINE t == Tail(s)
           g == [k \in 0..Len(t) |-> f[k + 1] - s[1]]
<1>2. /\ Len(s) = Len(t) + 1 /\ Len(t) \in Nat
      /\ \A k \in 1..Len(t) : t[k] = s[k + 1]
      /\ Head(s) = s[1] /\ s[1] \in Nat
  OBVIOUS
<1>3. f[1] = s[1]
  <2>1. 1 \in 1..Len(s) /\ 1 - 1 = 0
    BY <1>2
  <2>2. QED
    BY <1>1, <1>2, <2>1 DEF AddsUp
<1> DEFINE S == {n \in Nat : n <= Len(s) => f[n] \in Nat}
<1>4. 0 \in S
  BY <1>1 DEF AddsUp
<1>5. ASSUME NEW n \in S PROVE n + 1 \in S
  <2>1. ASSUME n + 1 <= Len(s) PROVE f[n + 1] \in Nat
    <3>1. n + 1 \in 1..Len(s) /\ (n + 1) - 1 = n /\ f[n] \in Nat
      BY <2>1
    <3>2. QED
      BY <1>1, <3>1 DEF AddsUp
  <2>2. QED
    BY <2>1
<1>6. S = Nat
  <2> HIDE DEF S
  <2>1. S \subseteq Nat
    BY DEF S
  <2>2. QED
    BY <1>4, <1>5, <2>1, InductiveSet
<1>7. \A k \in 0..Len(t) : g[k] = f[k + 1] - s[1] /\ f[k + 1] \in Nat
  <2>1. \A k \in 0..Len(t) : k + 1 \in Nat /\ k + 1 <= Len(s)
    BY <1>2
  <2>2. \A k \in Nat : k <= Len(s) => f[k] \in Nat
    BY <1>6
  <2> HIDE DEF t, S
  <2>3. QED
    BY <2>1, <2>2
<1>8. AddsUp(t, g)
  <2>1. ASSUME NEW k \in 1..Len(t) PROVE g[k] = g[k - 1] + t[k]
    <3> HIDE DEF g, t, S
    <3>1. k \in 0..Len(t) /\ k - 1 \in 0..Len(t) /\ (k - 1) + 1 = k
          /\ k + 1 \in 1..Len(s) /\ (k + 1) - 1 = k /\ s[k + 1] \in Nat
      BY <1>2
    <3>2. f[k + 1] = f[k] + s[k + 1]
      BY <1>1, <3>1 DEF AddsUp
    <3>3. g[k] = f[k + 1] - s[1] /\ g[k - 1] = f[k] - s[1] /\ f[k] \in Nat /\ t[k] = s[k + 1]
      BY <1>2, <1>7, <3>1
    <3>4. QED
      BY <1>2, <3>1, <3>2, <3>3
  <2>2. g[0] = 0
    <3> HIDE DEF g, t, S
    <3>1. 0 \in 0..Len(t) /\ 0 + 1 = 1
      BY <1>2
    <3>2. QED
      BY <1>2, <1>3, <1>7, <3>1
  <2>3. QED
    BY <2>1, <2>2 DEF AddsUp
<1> HIDE DEF g, S, t
<1>9. Total(t) = g[Len(t)]
  BY <1>2, <1>8, TotalIs
<1>10. g[Len(t)] = f[Len(s)] - s[1] /\ f[Len(s)] \in Nat
  BY <1>2, <1>7
<1>11. QED
  BY <1>1, <1>2, <1>9, <1>10 DEF t

------------------------------------------------------------------------------
(* The layouts agree on a packet: no check asks for more bytes than the    *)
(* packet has; and unless it is malformed the last one asks for all of     *)
(* them, they are what is read, and the counts are looked for in their     *)
(* places.                                                                 *)
Agrees(p) ==
  /\ WireSize[p] \in Nat \ {0}
  /\ ChecksOf[p] \subseteq 1..WireSize[p]
  /\ ~Malformed(p) => /\ WireSize[p] \in ChecksOf[p]
                      /\ ReadSize[p] = WireSize[p]
                      /\ Readable(p) /\ InFrame[p]

LayoutsAgree == \A p \in Packets : Agrees(p)

Sizes(packets) == [k \in DOMAIN packets |-> WireSize[packets[k]]]

LEMMA SizesAreNat ==
  ASSUME LayoutsAgree, NEW packets \in Seq(Packets)
  PROVE  Sizes(packets) \in Seq(Nat) /\ Len(Sizes(packets)) = Len(packets)
<1>1. \A k \in 1..Len(packets) : WireSize[packets[k]] \in Nat
  BY DEF LayoutsAgree, Agrees
<1>2. Len(packets) \in Nat /\ DOMAIN packets = 1..Len(packets)
  OBVIOUS
<1>3. Sizes(packets) \in [1..Len(packets) -> Nat]
  BY <1>1, <1>2 DEF Sizes
<1>4. QED
  BY <1>2, <1>3

Bytes(packets) == Total(Sizes(packets))

LEMMA BytesOfNone == Bytes(<<>>) = 0
<1>1. Sizes(<<>>) = <<>>
  BY DEF Sizes
<1>2. QED
  BY <1>1, TotalOfNone DEF Bytes

LEMMA BytesAreNat ==
  ASSUME LayoutsAgree, NEW packets \in Seq(Packets)
  PROVE  Bytes(packets) \in Nat
BY SizesAreNat, TotalIsNat DEF Bytes

LEMMA BytesOfAppend ==
  ASSUME LayoutsAgree, NEW packets \in Seq(Packets), NEW p \in Packets
  PROVE  Bytes(Append(packets, p)) = Bytes(packets) + WireSize[p]
<1>1. WireSize[p] \in Nat
  BY DEF LayoutsAgree, Agrees
<1>2. Sizes(packets) \in Seq(Nat) /\ Len(Sizes(packets)) = Len(packets)
  BY SizesAreNat
<1>3. Append(packets, p) \in Seq(Packets) /\ Len(Append(packets, p)) = Len(packets) + 1
  OBVIOUS
<1>4. /\ Sizes(Append(packets, p)) \in Seq(Nat)
      /\ Len(Sizes(Append(packets, p))) = Len(packets) + 1
  BY <1>3, SizesAreNat
<1>5. Sizes(Append(packets, p)) = Append(Sizes(packets), WireSize[p])
  <2>1. \A k \in 1..(Len(packets) + 1) :
          Sizes(Append(packets, p))[k] = Append(Sizes(packets), WireSize[p])[k]
    BY <1>2 DEF Sizes
  <2>2. /\ Append(Sizes(packets), WireSize[p]) \in Seq(Nat)
        /\ Len(Append(Sizes(packets), WireSize[p])) = Len(packets) + 1
    BY <1>1, <1>2
  <2>3. QED
    BY <1>4, <2>1, <2>2
<1>6. QED
  BY <1>1, <1>2, <1>5, TotalOfAppend DEF Bytes

LEMMA BytesOfTail ==
  ASSUME LayoutsAgree, NEW packets \in Seq(Packets), packets # <<>>
  PROVE  Bytes(packets) = WireSize[Head(packets)] + Bytes(Tail(packets))
<1>1. Sizes(packets) \in Seq(Nat) /\ Len(Sizes(packets)) = Len(packets)
  BY SizesAreNat
<1>2. Tail(packets) \in Seq(Packets) /\ Len(Tail(packets)) = Len(packets) - 1
      /\ Len(packets) \in Nat \ {0}
  OBVIOUS
<1>3. /\ Sizes(Tail(packets)) \in Seq(Nat)
      /\ Len(Sizes(Tail(packets))) = Len(packets) - 1
  BY <1>2, SizesAreNat
<1>4. /\ Sizes(packets) # <<>>
      /\ Tail(Sizes(packets)) \in Seq(Nat)
      /\ Len(Tail(Sizes(packets))) = Len(packets) - 1
      /\ Head(Sizes(packets)) = WireSize[Head(packets)]
  BY <1>1, <1>2 DEF Sizes
<1>5. \A k \in 1..(Len(packets) - 1) :
        Sizes(Tail(packets))[k] = Tail(Sizes(packets))[k]
  <2>1. ASSUME NEW k \in 1..(Len(packets) - 1)
        PROVE  Sizes(Tail(packets))[k] = Tail(Sizes(packets))[k]
    <3>1. /\ k \in DOMAIN Tail(packets) /\ Tail(packets)[k] = packets[k + 1]
          /\ k + 1 \in DOMAIN packets
      BY <1>2
    <3>2. Tail(Sizes(packets))[k] = Sizes(packets)[k + 1]
      BY <1>1, <1>2, <1>4
    <3>3. QED
      BY <3>1, <3>2 DEF Sizes
  <2>2. QED
    BY <2>1
<1>6. Sizes(Tail(packets)) = Tail(Sizes(packets))
  BY <1>3, <1>4, <1>5, SeqEqual
<1>7. QED
  BY <1>1, <1>4, <1>6, TotalOfTail DEF Bytes

------------------------------------------------------------------------------
(* Taking packets out.                                                     *)

(* What is in the buffer is a part of what was written, from its begin.    *)
BytesInv ==
  /\ wire \in Seq(Packets)
  /\ input \in Nat /\ input <= Bytes(wire)
  /\ ~lost

(* An empty wire has no bytes.                                             *)
LEMMA BytesOnWire ==
  ASSUME LayoutsAgree, BytesInv, NEW length \in Nat, length <= Bytes(wire), length > 0
  PROVE  wire # <<>> /\ Head(wire) \in Packets
<1>1. wire # <<>>
  BY BytesOfNone DEF BytesInv
<1>2. QED
  BY <1>1 DEF BytesInv

(* A packet that is parsed is there as a whole, and goes as a whole.       *)
LEMMA ParsesWhole ==
  ASSUME LayoutsAgree, NEW p \in Packets, NEW length \in Nat,
         Enough(p, length), ~Malformed(p)
  PROVE  /\ WireSize[p] \in Nat /\ WireSize[p] <= length
         /\ Taken(p, length) = WireSize[p]
         /\ ReadSize[p] = WireSize[p] /\ Readable(p) /\ InFrame[p]
<1>1. Agrees(p)
  BY DEF LayoutsAgree
<1>2. WireSize[p] \in Nat /\ WireSize[p] <= length
  BY <1>1 DEF Agrees, Enough
<1>3. ReadSize[p] = WireSize[p]
  BY <1>1 DEF Agrees
<1> DEFINE I == {length, WireSize[p]}
<1>4. Min(I) \in I /\ \A j \in I : Min(I) <= j
  BY <1>2, LeastOf
<1>5. Min(I) = WireSize[p]
  BY <1>2, <1>4
<1>6. Taken(p, length) = Min(I)
  BY <1>3 DEF Taken
<1>7. QED
  BY <1>1, <1>2, <1>3, <1>5, <1>6 DEF Agrees

LEMMA CallbackKeepsBytes ==
  ASSUME LayoutsAgree, BytesInv, NEW length \in Nat, length <= Bytes(wire),
         ReadCallback(length)
  PROVE  BytesInv'
<1>1. CASE input' = length /\ UNCHANGED <<wire, lost>>
  BY <1>1 DEF BytesInv
<1>2. CASE status = "Idle" /\ length # 0 /\ Enough(Head(wire), length)
           /\ ~Malformed(Head(wire)) /\ Parse(length)
  <2> DEFINE p == Head(wire)
  <2>1. length > 0
    BY <1>2
  <2>2. wire # <<>> /\ p \in Packets
    BY <2>1, BytesOnWire
  <2>3. /\ WireSize[p] \in Nat /\ WireSize[p] <= length
        /\ Taken(p, length) = WireSize[p]
        /\ ReadSize[p] = WireSize[p] /\ InFrame[p]
    BY <1>2, <2>2, ParsesWhole
  <2>4. Bytes(wire) = WireSize[p] + Bytes(Tail(wire))
    BY <2>2, BytesOfTail DEF BytesInv
  <2>5. Tail(wire) \in Seq(Packets)
    BY <2>2 DEF BytesInv
  <2>6. Bytes(Tail(wire)) \in Nat
    BY <2>5, BytesAreNat
  <2>7. /\ input' = length - Taken(p, length) /\ wire' = Tail(wire)
        /\ lost' = (ReadSize[p] # WireSize[p] \/ length < WireSize[p] \/ ~InFrame[p])
    BY <1>2 DEF Parse
  <2> HIDE DEF p
  <2>8. ~lost'
    <3>1. ~(length < WireSize[p])
      BY <2>3
    <3>2. QED
      BY <2>3, <2>7, <3>1, Zenon
  <2>9. input' \in Nat /\ input' <= Bytes(wire')
    BY <2>3, <2>4, <2>6, <2>7
  <2>10. QED
    BY <2>5, <2>7, <2>8, <2>9 DEF BytesInv
<1>3. QED
  BY <1>1, <1>2 DEF ReadCallback, Await, Kick, reader

LEMMA StillToCome ==
  OnTheWay = Bytes(wire) - input
BY DEF OnTheWay, Bytes, Sizes

LEMMA BytesStep ==
  ASSUME LayoutsAgree, BytesInv, [Next]_vars
  PROVE  BytesInv'
<1>0. Bytes(wire) \in Nat
  BY BytesAreNat DEF BytesInv
<1>1. ASSUME NEW p \in Packets, WritePacket(p) PROVE BytesInv'
  <2>1. Bytes(wire') = Bytes(wire) + WireSize[p] /\ WireSize[p] \in Nat
    BY <1>1, BytesOfAppend DEF BytesInv, WritePacket, LayoutsAgree, Agrees
  <2>2. wire' \in Seq(Packets) /\ input' = input /\ ~lost'
    BY <1>1 DEF BytesInv, WritePacket
  <2>3. QED
    BY <1>0, <2>1, <2>2 DEF BytesInv
<1>2. ASSUME NEW n \in {1, OnTheWay}, Arrive(n) PROVE BytesInv'
  <2>1. input + n \in Nat /\ input + n <= Bytes(wire)
    BY <1>0, <1>2, StillToCome DEF Arrive, BytesInv
  <2>2. CASE input' = input + n /\ UNCHANGED reader
    BY <2>1, <2>2 DEF BytesInv, reader
  <2>3. CASE ReadCallback(input + n)
    BY <2>1, <2>3, CallbackKeepsBytes
  <2>4. QED
    BY <1>2, <2>2, <2>3 DEF Arrive
<1>3. ASSUME NEW w \in Worker, Reread(w) PROVE BytesInv'
  BY <1>3, CallbackKeepsBytes DEF Reread, BytesInv
<1>4. CASE UNCHANGED <<wire, input, lost>>
  BY <1>4 DEF BytesInv
<1>5. QED
  BY <1>1, <1>2, <1>3, <1>4 DEF Next, vars, reader, TakeJob, Processed, Peek

LEMMA BytesHold ==
  ASSUME LayoutsAgree
  PROVE  Spec => []BytesInv
<1>1. Init => BytesInv
  <2>1. Init => wire = <<>> /\ input = 0 /\ ~lost
    BY DEF Init
  <2>2. QED
    BY <2>1, BytesOfNone DEF BytesInv
<1>2. BytesInv /\ [Next]_vars => BytesInv'
  BY BytesStep
<1>3. QED
  BY <1>1, <1>2, PTL DEF Spec

LEMMA StaysInStep ==
  ASSUME LayoutsAgree
  PROVE  Spec => []InStep
<1>1. BytesInv => InStep
  BY DEF BytesInv, InStep
<1>2. QED
  BY <1>1, BytesHold, PTL

------------------------------------------------------------------------------
(* Noticing packets.                                                       *)

(* With one worker: a job and its worker hold the client's status; what a  *)
(* callback left behind was looked at and is not a whole packet; the       *)
(* watermark is 0 between packets and never above the packet in the buffer.*)
OneJobInv ==
  /\ status \in {"Idle", "Process", "Kicked"}
  /\ low \in Nat
  /\ pc \in [Worker -> {"free", "process", "peek", "reread"}]
  /\ status = "Idle" => ~job /\ \A w \in Worker : pc[w] # "process"
  /\ job => \A w \in Worker : pc[w] # "process"
  /\ chain # "Request" => ~job /\ \A w \in Worker : pc[w] = "free"

WatermarkInv ==
  /\ status = "Process" => low = 0
  /\ status = "Idle" /\ low > 0 =>
       input > 0 /\ wire # <<>> /\ low <= WireSize[Head(wire)]
  /\ status = "Idle" => \A w \in Worker : pc[w] = "reread" => input > 0

LookedAtInv ==
  status = "Idle" /\ wire # <<>> /\ chain = "Request" =>
    \/ input < WireSize[Head(wire)]
    \/ \E w \in Worker : pc[w] \in {"peek", "reread"}

NoticedInv == OneJobInv /\ WatermarkInv /\ LookedAtInv

LEMMA OneWorker ==
  ASSUME Cardinality(Worker) = 1
  PROVE  \A v, w \in Worker : v = w
<1>1. IsFiniteSet(Worker)
  BY FramingAssumption
<1>2. QED
  BY <1>1, FS_Singleton

(* A look that finds too few bytes waits for a byte of the packet.         *)
LEMMA AwaitsThePacket ==
  ASSUME LayoutsAgree, NEW p \in Packets, NEW length \in Nat, ~Enough(p, length)
  PROVE  /\ Awaited(p, length) \in Nat
         /\ length < Awaited(p, length) /\ Awaited(p, length) <= WireSize[p]
         /\ WireSize[p] \in Nat
<1> DEFINE I == {c \in ChecksOf[p] : c > length}
<1>1. ChecksOf[p] \subseteq 1..WireSize[p] /\ WireSize[p] \in Nat
  BY DEF LayoutsAgree, Agrees
<1>2. I \subseteq Nat /\ I # {}
  BY <1>1 DEF Enough
<1>3. Min(I) \in I
  BY <1>2, LeastOf
<1>4. Awaited(p, length) = Min(I)
  BY DEF Awaited
<1>5. QED
  BY <1>1, <1>3, <1>4

(* What a look at a client that is idle comes to.                          *)
LEMMA LooksOnce ==
  ASSUME LayoutsAgree, BytesInv, NEW length \in Nat \ {0}, length <= Bytes(wire),
         status = "Idle", ReadCallback(length)
  PROVE  /\ wire # <<>>
         /\ \/ /\ input' = length /\ UNCHANGED <<wire, status, job>>
               /\ low' \in Nat /\ low' <= WireSize[Head(wire)]
               /\ length < WireSize[Head(wire)]
            \/ input' = length /\ status' = "Kicked" /\ UNCHANGED <<wire, job, low>>
            \/ /\ low' = 0
               /\ IF chain = "Request" THEN status' = "Process" /\ job' = TRUE
                                       ELSE UNCHANGED <<status, job>>
<1> DEFINE p == Head(wire)
<1>1. wire # <<>> /\ p \in Packets
  BY BytesOnWire
<1>2. CASE ~Enough(p, length)
  <2>1. Await(length)
    BY <1>2 DEF ReadCallback
  <2>2. low' = Awaited(p, length)
    BY <2>1 DEF Await
  <2>3. /\ Awaited(p, length) \in Nat /\ length < Awaited(p, length)
        /\ Awaited(p, length) <= WireSize[p] /\ WireSize[p] \in Nat
    BY <1>1, <1>2, AwaitsThePacket
  <2>4. length < WireSize[p]
    BY <2>3
  <2>5. QED
    BY <1>1, <2>1, <2>2, <2>3, <2>4 DEF Await
<1>3. CASE Enough(p, length) /\ Malformed(p)
  BY <1>1, <1>3 DEF ReadCallback, Kick
<1>4. CASE Enough(p, length) /\ ~Malformed(p)
  <2>1. Parse(length)
    BY <1>4 DEF ReadCallback
  <2>2. Readable(p)
    BY <1>1, <1>4, ParsesWhole
  <2>3. QED
    BY <1>1, <2>1, <2>2 DEF Parse, ReadInAny
<1>5. QED
  BY <1>2, <1>3, <1>4

LEMMA NoticedWrite ==
  ASSUME LayoutsAgree, BytesInv, NoticedInv, NEW p \in Packets, WritePacket(p)
  PROVE  NoticedInv'
<1>1. /\ UNCHANGED <<chain, input, low, status, job, pc>>
      /\ wire' = Append(wire, p) /\ wire \in Seq(Packets)
  BY DEF WritePacket, BytesInv
<1>2. wire' # <<>> /\ (wire # <<>> => Head(wire') = Head(wire))
  BY <1>1
<1>3. wire = <<>> => input = 0 /\ Head(wire') = p
  BY <1>1, BytesOfNone DEF BytesInv
<1>4. WireSize[p] \in Nat \ {0}
  BY DEF LayoutsAgree, Agrees
<1>5. OneJobInv'
  BY <1>1 DEF NoticedInv, OneJobInv
<1>6. WatermarkInv'
  BY <1>1, <1>2 DEF NoticedInv, WatermarkInv
<1>7. LookedAtInv'
  BY <1>1, <1>2, <1>3, <1>4 DEF NoticedInv, LookedAtInv
<1>8. QED
  BY <1>5, <1>6, <1>7 DEF NoticedInv

LEMMA NoticedArrive ==
  ASSUME LayoutsAgree, BytesInv, NoticedInv, NEW n \in {1, OnTheWay}, Arrive(n)
  PROVE  NoticedInv'
<1>0. UNCHANGED <<chain, pc>> /\ n \in Nat \ {0} /\ input \in Nat /\ Bytes(wire) \in Nat
  BY BytesAreNat, StillToCome DEF Arrive, BytesInv, connection
<1> DEFINE length == input + n
<1>1. length \in Nat \ {0} /\ length <= Bytes(wire)
  BY <1>0, StillToCome DEF Arrive, BytesInv
<1>2. wire # <<>> /\ Head(wire) \in Packets
  BY <1>1, BytesOnWire
<1>3. WireSize[Head(wire)] \in Nat
  BY <1>2 DEF LayoutsAgree, Agrees
<1>4. CASE input' = length /\ UNCHANGED reader /\ (status # "Idle" \/ length < low)
  <2>1. UNCHANGED <<wire, low, status, job>> /\ input' = length /\ low \in Nat
    BY <1>4 DEF reader, NoticedInv, OneJobInv
  <2>2. status = "Idle" => length < WireSize[Head(wire)] /\ low > 0
    BY <1>1, <1>3, <1>4, <2>1 DEF NoticedInv, WatermarkInv
  <2> HIDE DEF length
  <2>3. OneJobInv'
    BY <1>0, <2>1 DEF NoticedInv, OneJobInv
  <2>4. WatermarkInv'
    BY <1>0, <1>1, <2>1 DEF NoticedInv, WatermarkInv
  <2>5. LookedAtInv'
    BY <1>0, <2>1, <2>2 DEF LookedAtInv
  <2>6. QED
    BY <2>3, <2>4, <2>5 DEF NoticedInv
<1>5. CASE status = "Idle" /\ ReadCallback(length)
  <2> HIDE DEF length
  <2>1. CASE /\ input' = length /\ UNCHANGED <<wire, status, job>>
             /\ low' \in Nat /\ low' <= WireSize[Head(wire)]
             /\ length < WireSize[Head(wire)]
    <3>1. OneJobInv'
      BY <1>0, <2>1 DEF NoticedInv, OneJobInv
    <3>2. WatermarkInv'
      BY <1>0, <1>1, <1>2, <1>5, <2>1 DEF NoticedInv, WatermarkInv
    <3>3. LookedAtInv'
      BY <1>0, <2>1 DEF LookedAtInv
    <3>4. QED
      BY <3>1, <3>2, <3>3 DEF NoticedInv
  <2>2. CASE input' = length /\ status' = "Kicked" /\ UNCHANGED <<wire, job, low>>
    BY <1>0, <2>2 DEF NoticedInv, OneJobInv, WatermarkInv, LookedAtInv
  <2>3. CASE chain = "Request" /\ low' = 0 /\ status' = "Process" /\ job' = TRUE
    BY <1>0, <1>5, <2>3 DEF NoticedInv, OneJobInv, WatermarkInv, LookedAtInv
  <2>4. CASE chain # "Request" /\ low' = 0 /\ UNCHANGED <<status, job>>
    BY <1>0, <1>5, <2>4 DEF NoticedInv, OneJobInv, WatermarkInv, LookedAtInv
  <2>5. QED
    BY <1>1, <1>5, <2>1, <2>2, <2>3, <2>4, LooksOnce
<1>6. CASE length >= low /\ ReadCallback(length)
  <2>1. status # "Idle" => input' = length /\ UNCHANGED reader
    BY <1>6 DEF ReadCallback
  <2> HIDE DEF length
  <2>2. QED
    BY <1>4, <1>5, <1>6, <2>1
<1>7. CASE ~(length >= low) /\ input' = length /\ UNCHANGED reader
  <2>1. length < low
    BY <1>1, <1>7 DEF NoticedInv, OneJobInv
  <2>2. QED
    BY <1>4, <1>7, <2>1
<1>8. QED
  BY <1>6, <1>7 DEF Arrive

LEMMA NoticedReread ==
  ASSUME LayoutsAgree, BytesInv, NoticedInv, Cardinality(Worker) = 1,
         NEW w \in Worker, Reread(w)
  PROVE  NoticedInv'
<1>0. /\ chain' = chain /\ pc[w] = "reread" /\ pc' = [pc EXCEPT ![w] = "free"]
      /\ \A v \in Worker : v = w
      /\ input \in Nat /\ input <= Bytes(wire)
  BY OneWorker DEF Reread, Goto, connection, BytesInv
<1>a. /\ \A v \in Worker : pc'[v] = "free"
      /\ pc' \in [Worker -> {"free", "process", "peek", "reread"}]
  BY <1>0 DEF NoticedInv, OneJobInv
<1>1. CASE status # "Idle"
  <2>1. UNCHANGED <<wire, low, status, job, input>>
    BY <1>1 DEF Reread, ReadCallback, reader
  <2>2. QED
    BY <1>0, <1>a, <1>1, <2>1 DEF NoticedInv, OneJobInv, WatermarkInv, LookedAtInv
<1>2. CASE status = "Idle"
  <2>1. input > 0 /\ ReadCallback(input)
    BY <1>0, <1>2 DEF NoticedInv, WatermarkInv, Reread
  <2>2. wire # <<>> /\ WireSize[Head(wire)] \in Nat
    BY <1>0, <2>1, BytesOnWire DEF LayoutsAgree, Agrees
  <2>3. CASE /\ input' = input /\ UNCHANGED <<wire, status, job>>
             /\ low' \in Nat /\ low' <= WireSize[Head(wire)]
             /\ input < WireSize[Head(wire)]
    BY <1>0, <1>a, <1>2, <2>1, <2>2, <2>3
       DEF NoticedInv, OneJobInv, WatermarkInv, LookedAtInv
  <2>4. CASE input' = input /\ status' = "Kicked" /\ UNCHANGED <<wire, job, low>>
    BY <1>0, <1>a, <2>4 DEF NoticedInv, OneJobInv, WatermarkInv, LookedAtInv
  <2>5. CASE chain = "Request" /\ low' = 0 /\ status' = "Process" /\ job' = TRUE
    BY <1>0, <1>a, <2>5 DEF NoticedInv, OneJobInv, WatermarkInv, LookedAtInv
  <2>6. CASE chain # "Request"
    BY <1>0, <2>6 DEF NoticedInv, OneJobInv
  <2>7. input \in Nat \ {0} /\ input <= Bytes(wire)
    BY <1>0, <2>1
  <2>8. QED
    BY <1>2, <2>1, <2>3, <2>4, <2>5, <2>6, <2>7, LooksOnce
<1>3. QED
  BY <1>1, <1>2

LEMMA NoticedStep ==
  ASSUME LayoutsAgree, BytesInv, NoticedInv, Cardinality(Worker) = 1, [Next]_vars
  PROVE  NoticedInv'
<1> USE DEF NoticedInv, OneJobInv, WatermarkInv, LookedAtInv
<1>1. ASSUME NEW w \in Worker, TakeJob(w) PROVE NoticedInv'
  <2>1. /\ UNCHANGED <<chain, wire, input, low, status>>
        /\ job /\ ~job' /\ pc' = [pc EXCEPT ![w] = "process"]
    BY <1>1 DEF TakeJob, Goto, connection
  <2>2. status # "Idle" /\ chain = "Request"
    BY <2>1
  <2>3. QED
    BY <2>1, <2>2
<1>2. ASSUME NEW w \in Worker, Processed(w) PROVE NoticedInv'
  <2>1. /\ UNCHANGED <<chain, wire, input, low, job>>
        /\ pc[w] = "process" /\ pc' = [pc EXCEPT ![w] = "peek"]
        /\ status' = IF status = "Process" THEN "Idle" ELSE status
        /\ \A v \in Worker : v = w
    BY <1>2, OneWorker DEF Processed, Goto, connection
  <2>2. status # "Idle" /\ ~job /\ chain = "Request" /\ pc'[w] = "peek"
        /\ pc' \in [Worker -> {"free", "process", "peek", "reread"}]
    BY <2>1
  <2>3. QED
    BY <2>1, <2>2
<1>3. ASSUME NEW w \in Worker, Peek(w) PROVE NoticedInv'
  <2>1. /\ UNCHANGED <<chain, wire, input, low, status, job>>
        /\ pc[w] = "peek"
        /\ pc' = [pc EXCEPT ![w] = IF input > 0 THEN "reread" ELSE "free"]
        /\ \A v \in Worker : v = w
        /\ input \in Nat
    BY <1>3, OneWorker DEF Peek, Goto, connection, reader, BytesInv
  <2>2. chain = "Request"
    BY <2>1
  <2>3. CASE input > 0
    BY <2>1, <2>2, <2>3
  <2>4. CASE input = 0
    <3>1. wire # <<>> => WireSize[Head(wire)] \in Nat \ {0}
      BY DEF BytesInv, LayoutsAgree, Agrees
    <3>2. QED
      BY <2>1, <2>2, <2>4, <3>1
  <2>5. QED
    BY <2>1, <2>3, <2>4
<1>4. CASE UNCHANGED vars
  BY <1>4 DEF vars, connection, reader
<1>5. QED
  BY <1>1, <1>2, <1>3, <1>4, NoticedWrite, NoticedArrive, NoticedReread DEF Next

LEMMA IsNoticed ==
  ASSUME LayoutsAgree
  PROVE  Spec => []Noticed
<1> DEFINE One == Cardinality(Worker) = 1
           Inv == One => NoticedInv
<1>1. Init => Inv
  <2> SUFFICES ASSUME Init PROVE NoticedInv
    OBVIOUS
  <2>1. OneJobInv
    BY DEF Init, OneJobInv
  <2>2. WatermarkInv
    BY DEF Init, WatermarkInv
  <2>3. LookedAtInv
    BY DEF Init, LookedAtInv
  <2>4. QED
    BY <2>1, <2>2, <2>3 DEF NoticedInv
<1>2. BytesInv /\ Inv /\ [Next]_vars => Inv'
  BY NoticedStep
<1>3. BytesInv /\ Inv => Noticed
  <2> SUFFICES ASSUME BytesInv, NoticedInv, status = "Idle", wire # <<>>
               PROVE  /\ input > 0 => low <= WireSize[Head(wire)]
                      /\ chain = "Request" =>
                             \/ input < WireSize[Head(wire)]
                             \/ \E w \in Worker : pc[w] \in {"peek", "reread"}
    BY DEF Noticed
  <2>1. WireSize[Head(wire)] \in Nat
    BY DEF BytesInv, LayoutsAgree, Agrees
  <2>2. low <= WireSize[Head(wire)]
    BY <2>1 DEF NoticedInv, OneJobInv, WatermarkInv
  <2>3. QED
    BY <2>2 DEF NoticedInv, LookedAtInv
<1>4. QED
  BY <1>1, <1>2, <1>3, BytesHold, PTL DEF Spec

------------------------------------------------------------------------------
(* The sizes of formats.                                                   *)

FieldSize(format, parts, k) ==
  IF format[k] \in DOMAIN Width THEN Width[format[k]]
                                ELSE Size(format[k], parts[PartOf(format, k)])

Fits(format, parts, n) ==
  /\ Len(format) = n /\ DOMAIN format = 1..n
  /\ \A k \in 1..n : FieldSize(format, parts, k) \in Nat

LEMMA FieldsAddUp ==
  ASSUME NEW format, NEW parts, NEW n \in Nat, Fits(format, parts, n)
  PROVE  \E f : /\ f[0] = 0
                /\ \A k \in 1..n : /\ f[k] = f[k - 1] + FieldSize(format, parts, k)
                                   /\ FieldSize(format, parts, k) \in Nat
                /\ FormatSize(format, parts) = f[n]
<1> DEFINE s == [k \in DOMAIN format |-> FieldSize(format, parts, k)]
<1>1. FormatSize(format, parts) = Total(s)
  BY DEF FormatSize, FieldSize
<1>2. Len(s) = n /\ \A k \in 1..n : s[k] = FieldSize(format, parts, k)
  BY DEF Fits
<1>3. PICK f : AddsUp(s, f) /\ Total(s) = f[Len(s)]
  BY <1>2, TotalAddsUp
<1>4. QED
  BY <1>1, <1>2, <1>3 DEF AddsUp, Fits

(* One with fixed fields only.                                             *)
IsFixed(format, n) == format \in Seq(DOMAIN Width) /\ Len(format) = n

LEMMA FixedFits ==
  ASSUME NEW format, NEW n \in Nat, IsFixed(format, n), NEW parts
  PROVE  /\ Fits(format, parts, n)
         /\ \A k \in 1..n : FieldSize(format, parts, k) = Width[format[k]]
<1>1. \A x \in DOMAIN Width : Width[x] \in Nat
  BY DEF Width
<1>2. \A k \in 1..n : format[k] \in DOMAIN Width
  BY DEF IsFixed
<1>3. \A k \in 1..n : FieldSize(format, parts, k) = Width[format[k]]
  BY <1>2 DEF FieldSize
<1>4. DOMAIN format = 1..n /\ Len(format) = n
  BY DEF IsFixed
<1>5. QED
  BY <1>1, <1>2, <1>3, <1>4 DEF Fits

LEMMA Fixed0 ==
  ASSUME NEW format, NEW parts, IsFixed(format, 0)
  PROVE  FormatSize(format, parts) =
         0
BY FixedFits, FieldsAddUp

LEMMA Fixed1 ==
  ASSUME NEW format, NEW parts, IsFixed(format, 1)
  PROVE  FormatSize(format, parts) =
         Width[format[1]]
BY FixedFits, FieldsAddUp

LEMMA Fixed2 ==
  ASSUME NEW format, NEW parts, IsFixed(format, 2)
  PROVE  FormatSize(format, parts) =
         Width[format[1]] + Width[format[2]]
BY FixedFits, FieldsAddUp

LEMMA Fixed3 ==
  ASSUME NEW format, NEW parts, IsFixed(format, 3)
  PROVE  FormatSize(format, parts) =
         Width[format[1]] + Width[format[2]] + Width[format[3]]
BY FixedFits, FieldsAddUp

LEMMA Fixed4 ==
  ASSUME NEW format, NEW parts, IsFixed(format, 4)
  PROVE  FormatSize(format, parts) =
         Width[format[1]] + Width[format[2]] + Width[format[3]] + Width[format[4]]
BY FixedFits, FieldsAddUp

LEMMA Fixed5 ==
  ASSUME NEW format, NEW parts, IsFixed(format, 5)
  PROVE  FormatSize(format, parts) =
         Width[format[1]] + Width[format[2]] + Width[format[3]] + Width[format[4]] + Width[format[5]]
<1>1. /\ Fits(format, parts, 5)
      /\ \A k \in 1..5 : FieldSize(format, parts, k) = Width[format[k]]
  BY FixedFits
<1>2. PICK f : /\ f[0] = 0
               /\ \A k \in 1..5 : /\ f[k] = f[k - 1] + FieldSize(format, parts, k)
                                  /\ FieldSize(format, parts, k) \in Nat
               /\ FormatSize(format, parts) = f[5]
  BY <1>1, FieldsAddUp
<1>3. QED
  BY <1>1, <1>2

LEMMA Fixed6 ==
  ASSUME NEW format, NEW parts, IsFixed(format, 6)
  PROVE  FormatSize(format, parts) =
         Width[format[1]] + Width[format[2]] + Width[format[3]] + Width[format[4]] + Width[format[5]] +
         Width[format[6]]
<1>1. /\ Fits(format, parts, 6)
      /\ \A k \in 1..6 : FieldSize(format, parts, k) = Width[format[k]]
  BY FixedFits
<1>2. PICK f : /\ f[0] = 0
               /\ \A k \in 1..6 : /\ f[k] = f[k - 1] + FieldSize(format, parts, k)
                                  /\ FieldSize(format, parts, k) \in Nat
               /\ FormatSize(format, parts) = f[6]
  BY <1>1, FieldsAddUp
<1>3. QED
  BY <1>1, <1>2

LEMMA Fixed7 ==
  ASSUME NEW format, NEW parts, IsFixed(format, 7)
  PROVE  FormatSize(format, parts) =
         Width[format[1]] + Width[format[2]] + Width[format[3]] + Width[format[4]] + Width[format[5]] +
         Width[format[6]] + Width[format[7]]
BY FixedFits, FieldsAddUp

LEMMA Fixed10 ==
  ASSUME NEW format, NEW parts, IsFixed(format, 10)
  PROVE  FormatSize(format, parts) =
         Width[format[1]] + Width[format[2]] + Width[format[3]] + Width[format[4]] + Width[format[5]] +
         Width[format[6]] + Width[format[7]] + Width[format[8]] + Width[format[9]] + Width[format[10]]
<1>1. /\ Fits(format, parts, 10)
      /\ \A k \in 1..10 : FieldSize(format, parts, k) = Width[format[k]]
  BY FixedFits
<1>2. PICK f : /\ f[0] = 0
               /\ \A k \in 1..10 : /\ f[k] = f[k - 1] + FieldSize(format, parts, k)
                                  /\ FieldSize(format, parts, k) \in Nat
               /\ FormatSize(format, parts) = f[10]
  BY <1>1, FieldsAddUp
<1>3. QED
  BY <1>1, <1>2

------------------------------------------------------------------------------
(* The tables, part by part.                                               *)

LEMMA CasesRequestPlayer ==
  ASSUME NEW type \in DOMAIN WriteRequestPlayer
  PROVE  /\ Write["Request"][type] = WriteRequestPlayer[type]
         /\ type \in DOMAIN ReadRequestPlayer =>
              type \in DOMAIN Read["Request"] /\ Read["Request"][type] = ReadRequestPlayer[type]
BY DEF Write, Read, ++

LEMMA CasesRequestAction ==
  ASSUME NEW type \in DOMAIN WriteRequestAction
  PROVE  /\ Write["Request"][type] = WriteRequestAction[type]
         /\ type \in DOMAIN ReadRequestAction =>
              type \in DOMAIN Read["Request"] /\ Read["Request"][type] = ReadRequestAction[type]
<1>1. /\ type \notin DOMAIN WriteRequestPlayer
      /\ type \notin DOMAIN ReadRequestPlayer
  BY DEF WriteRequestPlayer, WriteRequestAction, ReadRequestPlayer, ReadRequestAction
<1>2. QED
  BY <1>1 DEF Write, Read, ++

LEMMA CasesRequestWindow ==
  ASSUME NEW type \in DOMAIN WriteRequestWindow
  PROVE  /\ Write["Request"][type] = WriteRequestWindow[type]
         /\ type \in DOMAIN ReadRequestWindow =>
              type \in DOMAIN Read["Request"] /\ Read["Request"][type] = ReadRequestWindow[type]
<1>1. /\ type \notin DOMAIN WriteRequestPlayer \cup DOMAIN WriteRequestAction
      /\ type \notin DOMAIN ReadRequestPlayer \cup DOMAIN ReadRequestAction
  BY DEF WriteRequestPlayer, WriteRequestAction, WriteRequestWindow, ReadRequestPlayer,
         ReadRequestAction, ReadRequestWindow
<1>2. QED
  BY <1>1 DEF Write, Read, ++

LEMMA CasesResponsePlayer ==
  ASSUME NEW type \in DOMAIN WriteResponsePlayer
  PROVE  /\ Write["Response"][type] = WriteResponsePlayer[type]
         /\ type \in DOMAIN ReadResponsePlayer =>
              type \in DOMAIN Read["Response"] /\ Read["Response"][type] = ReadResponsePlayer[type]
BY DEF Write, Read, ++

LEMMA CasesResponseSpawn ==
  ASSUME NEW type \in DOMAIN WriteResponseSpawn
  PROVE  /\ Write["Response"][type] = WriteResponseSpawn[type]
         /\ type \in DOMAIN ReadResponseSpawn =>
              type \in DOMAIN Read["Response"] /\ Read["Response"][type] = ReadResponseSpawn[type]
<1>1. /\ type \notin DOMAIN WriteResponsePlayer
      /\ type \notin DOMAIN ReadResponsePlayer
  BY DEF WriteResponsePlayer, WriteResponseSpawn, ReadResponsePlayer, ReadResponseSpawn
<1>2. QED
  BY <1>1 DEF Write, Read, ++

LEMMA CasesResponseEntity ==
  ASSUME NEW type \in DOMAIN WriteResponseEntity
  PROVE  /\ Write["Response"][type] = WriteResponseEntity[type]
         /\ type \in DOMAIN ReadResponseEntity =>
              type \in DOMAIN Read["Response"] /\ Read["Response"][type] = ReadResponseEntity[type]
<1>1. /\ type \notin DOMAIN WriteResponsePlayer \cup DOMAIN WriteResponseSpawn
      /\ type \notin DOMAIN ReadResponsePlayer \cup DOMAIN ReadResponseSpawn
  BY DEF WriteResponsePlayer, WriteResponseSpawn, WriteResponseEntity,
         ReadResponsePlayer, ReadResponseSpawn, ReadResponseEntity
<1>2. QED
  BY <1>1 DEF Write, Read, ++

LEMMA CasesResponseWorld ==
  ASSUME NEW type \in DOMAIN WriteResponseWorld
  PROVE  /\ Write["Response"][type] = WriteResponseWorld[type]
         /\ type \in DOMAIN ReadResponseWorld =>
              type \in DOMAIN Read["Response"] /\ Read["Response"][type] = ReadResponseWorld[type]
<1>1. /\ type \notin DOMAIN WriteResponsePlayer \cup DOMAIN WriteResponseSpawn \cup DOMAIN
                    WriteResponseEntity
      /\ type \notin DOMAIN ReadResponsePlayer \cup DOMAIN ReadResponseSpawn \cup DOMAIN
                    ReadResponseEntity
  BY DEF WriteResponsePlayer, WriteResponseSpawn, WriteResponseEntity,
         WriteResponseWorld, ReadResponsePlayer, ReadResponseSpawn, ReadResponseEntity,
         ReadResponseWorld
<1>2. QED
  BY <1>1 DEF Write, Read, ++

LEMMA CasesResponseWindow ==
  ASSUME NEW type \in DOMAIN WriteResponseWindow
  PROVE  /\ Write["Response"][type] = WriteResponseWindow[type]
         /\ type \in DOMAIN ReadResponseWindow =>
              type \in DOMAIN Read["Response"] /\ Read["Response"][type] = ReadResponseWindow[type]
<1>1. /\ type \notin DOMAIN WriteResponsePlayer \cup DOMAIN WriteResponseSpawn \cup DOMAIN
                    WriteResponseEntity \cup DOMAIN WriteResponseWorld
      /\ type \notin DOMAIN ReadResponsePlayer \cup DOMAIN ReadResponseSpawn \cup DOMAIN
                    ReadResponseEntity \cup DOMAIN ReadResponseWorld
  BY DEF WriteResponsePlayer, WriteResponseSpawn, WriteResponseEntity,
         WriteResponseWorld, WriteResponseWindow, ReadResponsePlayer, ReadResponseSpawn,
         ReadResponseEntity, ReadResponseWorld, ReadResponseWindow
<1>2. QED
  BY <1>1 DEF Write, Read, ++

LEMMA LengthOf ==
  /\ \A type \in DOMAIN MinLengthPlayer : MinLength[type] = MinLengthPlayer[type]
  /\ \A type \in DOMAIN MinLengthWorld : MinLength[type] = MinLengthWorld[type]
<1>1. DOMAIN MinLengthWorld \cap DOMAIN MinLengthPlayer = {}
  BY DEF MinLengthPlayer, MinLengthWorld
<1>2. QED
  BY <1>1 DEF MinLength, ++

------------------------------------------------------------------------------
(* Packets without fields of variable size.                                *)

LEMMA FixedAgrees ==
  ASSUME NEW p \in Packets, p.type \notin DOMAIN Offset, NEW n \in Nat,
         p.type \in DOMAIN Read[p.chain],
         FormatSize(Write[p.chain][p.type], p.parts) = n,
         FormatSize(Read[p.chain][p.type], p.parts) = n,
         MinLength[p.type] = 1 + n
  PROVE  Agrees(p)
<1>1. p.type \notin {"UpdateSign", "SpawnMob", "EntityMetadata", "WindowItems"}
  BY DEF Offset
<1>2. Checks(p) = {MinLength[p.type]}
  BY <1>1 DEF Checks
<1>3. WireSize[p] = 1 + n /\ ReadSize[p] = 1 + n /\ Readable(p)
  BY DEF WireSize, ReadSize, Readable
<1>4. InFrame[p]
  BY DEF InFrame, LooksRight
<1>5. QED
  BY <1>2, <1>3, <1>4 DEF Agrees, ChecksOf

LEMMA FixedRequestPlayer ==
  ASSUME NEW p \in Packets, p.chain = "Request",
         p.type \in DOMAIN WriteRequestPlayer \ (Apart["Request"] \cup DOMAIN Offset)
  PROVE  Agrees(p)
<1> USE CasesRequestPlayer, LengthOf
<1>1. CASE p.type = "KeepAlive"
  <2>1. /\ Write[p.chain][p.type] = <<"i">>
        /\ p.type \in DOMAIN Read[p.chain] /\ Read[p.chain][p.type] = <<"i">>
        /\ MinLength[p.type] = 5
    BY <1>1 DEF WriteRequestPlayer, ReadRequestPlayer, MinLengthPlayer
  <2>2. IsFixed(<<"i">>, 1)
    BY DEF IsFixed, Width
  <2>3. QED
    BY <2>1, <2>2, Fixed1, FixedAgrees DEF Width
<1>2. CASE p.type = "UseEntity"
  <2>1. /\ Write[p.chain][p.type] = <<"i", "i", "b">>
        /\ p.type \in DOMAIN Read[p.chain] /\ Read[p.chain][p.type] = <<"i", "i", "b">>
        /\ MinLength[p.type] = 10
    BY <1>2 DEF WriteRequestPlayer, ReadRequestPlayer, MinLengthPlayer
  <2>2. IsFixed(<<"i", "i", "b">>, 3)
    BY DEF IsFixed, Width
  <2>3. QED
    BY <2>1, <2>2, Fixed3, FixedAgrees DEF Width
<1>3. CASE p.type = "Respawn"
  <2>1. /\ Write[p.chain][p.type] = <<"b", "b", "b", "s", "l">>
        /\ p.type \in DOMAIN Read[p.chain] /\ Read[p.chain][p.type] = <<"b", "b", "b", "s", "l">>
        /\ MinLength[p.type] = 14
    BY <1>3 DEF WriteRequestPlayer, ReadRequestPlayer, MinLengthPlayer
  <2>2. IsFixed(<<"b", "b", "b", "s", "l">>, 5)
    BY DEF IsFixed, Width
  <2>3. QED
    BY <2>1, <2>2, Fixed5, FixedAgrees DEF Width
<1>4. CASE p.type = "OnGround"
  <2>1. /\ Write[p.chain][p.type] = <<"B">>
        /\ p.type \in DOMAIN Read[p.chain] /\ Read[p.chain][p.type] = <<"B">>
        /\ MinLength[p.type] = 2
    BY <1>4 DEF WriteRequestPlayer, ReadRequestPlayer, MinLengthPlayer
  <2>2. IsFixed(<<"B">>, 1)
    BY DEF IsFixed, Width
  <2>3. QED
    BY <2>1, <2>2, Fixed1, FixedAgrees DEF Width
<1>5. CASE p.type = "PlayerPosition"
  <2>1. /\ Write[p.chain][p.type] = <<"d", "d", "d", "d", "b">>
        /\ p.type \in DOMAIN Read[p.chain] /\ Read[p.chain][p.type] = <<"d", "d", "d", "d", "b">>
        /\ MinLength[p.type] = 34
    BY <1>5 DEF WriteRequestPlayer, ReadRequestPlayer, MinLengthPlayer
  <2>2. IsFixed(<<"d", "d", "d", "d", "b">>, 5)
    BY DEF IsFixed, Width
  <2>3. QED
    BY <2>1, <2>2, Fixed5, FixedAgrees DEF Width
<1>6. CASE p.type = "PlayerLook"
  <2>1. /\ Write[p.chain][p.type] = <<"f", "f", "b">>
        /\ p.type \in DOMAIN Read[p.chain] /\ Read[p.chain][p.type] = <<"f", "f", "b">>
        /\ MinLength[p.type] = 10
    BY <1>6 DEF WriteRequestPlayer, ReadRequestPlayer, MinLengthPlayer
  <2>2. IsFixed(<<"f", "f", "b">>, 3)
    BY DEF IsFixed, Width
  <2>3. QED
    BY <2>1, <2>2, Fixed3, FixedAgrees DEF Width
<1>7. CASE p.type = "PlayerMoveLook"
  <2>1. /\ Write[p.chain][p.type] = <<"d", "d", "d", "d", "f", "f", "b">>
        /\ p.type \in DOMAIN Read[p.chain] /\ Read[p.chain][p.type] = <<"d", "d", "d", "d", "f", "f", "b">>
        /\ MinLength[p.type] = 42
    BY <1>7 DEF WriteRequestPlayer, ReadRequestPlayer, MinLengthPlayer
  <2>2. IsFixed(<<"d", "d", "d", "d", "f", "f", "b">>, 7)
    BY DEF IsFixed, Width
  <2>3. QED
    BY <2>1, <2>2, Fixed7, FixedAgrees DEF Width
<1>8. QED
  BY <1>1, <1>2, <1>3, <1>4, <1>5, <1>6, <1>7 DEF WriteRequestPlayer, Offset, Apart

LEMMA FixedRequestAction ==
  ASSUME NEW p \in Packets, p.chain = "Request",
         p.type \in DOMAIN WriteRequestAction \ (Apart["Request"] \cup DOMAIN Offset)
  PROVE  Agrees(p)
<1> USE CasesRequestAction, LengthOf
<1>1. CASE p.type = "PlayerDigging"
  <2>1. /\ Write[p.chain][p.type] = <<"b", "i", "b", "i", "b">>
        /\ p.type \in DOMAIN Read[p.chain] /\ Read[p.chain][p.type] = <<"b", "i", "b", "i", "b">>
        /\ MinLength[p.type] = 12
    BY <1>1 DEF WriteRequestAction, ReadRequestAction, MinLengthPlayer
  <2>2. IsFixed(<<"b", "i", "b", "i", "b">>, 5)
    BY DEF IsFixed, Width
  <2>3. QED
    BY <2>1, <2>2, Fixed5, FixedAgrees DEF Width
<1>2. CASE p.type = "HoldChange"
  <2>1. /\ Write[p.chain][p.type] = <<"s">>
        /\ p.type \in DOMAIN Read[p.chain] /\ Read[p.chain][p.type] = <<"s">>
        /\ MinLength[p.type] = 3
    BY <1>2 DEF WriteRequestAction, ReadRequestAction, MinLengthPlayer
  <2>2. IsFixed(<<"s">>, 1)
    BY DEF IsFixed, Width
  <2>3. QED
    BY <2>1, <2>2, Fixed1, FixedAgrees DEF Width
<1>3. CASE p.type \in {"Animation", "EntityAction", "RemoveEntityEffect"}
  <2>1. /\ Write[p.chain][p.type] = <<"i", "b">>
        /\ p.type \in DOMAIN Read[p.chain] /\ Read[p.chain][p.type] = <<"i", "b">>
        /\ MinLength[p.type] = 6
    BY <1>3 DEF WriteRequestAction, ReadRequestAction, MinLengthPlayer
  <2>2. IsFixed(<<"i", "b">>, 2)
    BY DEF IsFixed, Width
  <2>3. QED
    BY <2>1, <2>2, Fixed2, FixedAgrees DEF Width
<1>4. CASE p.type = "StanceUpdate"
  <2>1. /\ Write[p.chain][p.type] = <<"f", "f", "f", "f", "B", "B">>
        /\ p.type \in DOMAIN Read[p.chain] /\ Read[p.chain][p.type] = <<"f", "f", "f", "f", "B", "B">>
        /\ MinLength[p.type] = 19
    BY <1>4 DEF WriteRequestAction, ReadRequestAction, MinLengthPlayer
  <2>2. IsFixed(<<"f", "f", "f", "f", "B", "B">>, 6)
    BY DEF IsFixed, Width
  <2>3. QED
    BY <2>1, <2>2, Fixed6, FixedAgrees DEF Width
<1>5. CASE p.type = "EntityEffect"
  <2>1. /\ Write[p.chain][p.type] = <<"i", "b", "b", "s">>
        /\ p.type \in DOMAIN Read[p.chain] /\ Read[p.chain][p.type] = <<"i", "b", "b", "s">>
        /\ MinLength[p.type] = 9
    BY <1>5 DEF WriteRequestAction, ReadRequestAction, MinLengthPlayer
  <2>2. IsFixed(<<"i", "b", "b", "s">>, 4)
    BY DEF IsFixed, Width
  <2>3. QED
    BY <2>1, <2>2, Fixed4, FixedAgrees DEF Width
<1>6. QED
  BY <1>1, <1>2, <1>3, <1>4, <1>5 DEF WriteRequestAction, Offset, Apart

LEMMA FixedRequestWindow ==
  ASSUME NEW p \in Packets, p.chain = "Request",
         p.type \in DOMAIN WriteRequestWindow \ (Apart["Request"] \cup DOMAIN Offset)
  PROVE  Agrees(p)
<1> USE CasesRequestWindow, LengthOf
<1>1. CASE p.type = "CloseWindow"
  <2>1. /\ Write[p.chain][p.type] = <<"b">>
        /\ p.type \in DOMAIN Read[p.chain] /\ Read[p.chain][p.type] = <<"b">>
        /\ MinLength[p.type] = 2
    BY <1>1 DEF WriteRequestWindow, ReadRequestWindow, MinLengthWorld
  <2>2. IsFixed(<<"b">>, 1)
    BY DEF IsFixed, Width
  <2>3. QED
    BY <2>1, <2>2, Fixed1, FixedAgrees DEF Width
<1>2. CASE p.type = "Transaction"
  <2>1. /\ Write[p.chain][p.type] = <<"b", "s", "B">>
        /\ p.type \in DOMAIN Read[p.chain] /\ Read[p.chain][p.type] = <<"b", "s", "B">>
        /\ MinLength[p.type] = 5
    BY <1>2 DEF WriteRequestWindow, ReadRequestWindow, MinLengthWorld
  <2>2. IsFixed(<<"b", "s", "B">>, 3)
    BY DEF IsFixed, Width
  <2>3. QED
    BY <2>1, <2>2, Fixed3, FixedAgrees DEF Width
<1>3. CASE p.type = "CreativeInventoryAction"
  <2>1. /\ Write[p.chain][p.type] = <<"s", "s", "s", "s">>
        /\ p.type \in DOMAIN Read[p.chain] /\ Read[p.chain][p.type] = <<"s", "s", "s", "s">>
        /\ MinLength[p.type] = 9
    BY <1>3 DEF WriteRequestWindow, ReadRequestWindow, MinLengthWorld
  <2>2. IsFixed(<<"s", "s", "s", "s">>, 4)
    BY DEF IsFixed, Width
  <2>3. QED
    BY <2>1, <2>2, Fixed4, FixedAgrees DEF Width
<1>4. CASE p.type = "ListPing"
  <2>1. /\ Write[p.chain][p.type] = <<>>
        /\ p.type \in DOMAIN Read[p.chain] /\ Read[p.chain][p.type] = <<>>
        /\ MinLength[p.type] = 1
    BY <1>4 DEF WriteRequestWindow, ReadRequestWindow, MinLengthWorld
  <2>2. IsFixed(<<>>, 0)
    BY DEF IsFixed, Width
  <2>3. QED
    BY <2>1, <2>2, Fixed0, FixedAgrees DEF Width
<1>5. QED
  BY <1>1, <1>2, <1>3, <1>4 DEF WriteRequestWindow, Offset, Apart

LEMMA FixedResponsePlayer ==
  ASSUME NEW p \in Packets, p.chain = "Response",
         p.type \in DOMAIN WriteResponsePlayer \ (Apart["Response"] \cup DOMAIN Offset)
  PROVE  Agrees(p)
<1> USE CasesResponsePlayer, LengthOf
<1>1. CASE p.type = "KeepAlive"
  <2>1. /\ Write[p.chain][p.type] = <<"i">>
        /\ p.type \in DOMAIN Read[p.chain] /\ Read[p.chain][p.type] = <<"i">>
        /\ MinLength[p.type] = 5
    BY <1>1 DEF WriteResponsePlayer, ReadResponsePlayer, MinLengthPlayer
  <2>2. IsFixed(<<"i">>, 1)
    BY DEF IsFixed, Width
  <2>3. QED
    BY <2>1, <2>2, Fixed1, FixedAgrees DEF Width
<1>2. CASE p.type = "TimeUpdate"
  <2>1. /\ Write[p.chain][p.type] = <<"l">>
        /\ p.type \in DOMAIN Read[p.chain] /\ Read[p.chain][p.type] = <<"l">>
        /\ MinLength[p.type] = 9
    BY <1>2 DEF WriteResponsePlayer, ReadResponsePlayer, MinLengthPlayer
  <2>2. IsFixed(<<"l">>, 1)
    BY DEF IsFixed, Width
  <2>3. QED
    BY <2>1, <2>2, Fixed1, FixedAgrees DEF Width
<1>3. CASE p.type = "EntityEquipment"
  <2>1. /\ Write[p.chain][p.type] = <<"i", "s", "s", "s">>
        /\ p.type \in DOMAIN Read[p.chain] /\ Read[p.chain][p.type] = <<"i", "s", "s", "s">>
        /\ MinLength[p.type] = 11
    BY <1>3 DEF WriteResponsePlayer, ReadResponsePlayer, MinLengthPlayer
  <2>2. IsFixed(<<"i", "s", "s", "s">>, 4)
    BY DEF IsFixed, Width
  <2>3. QED
    BY <2>1, <2>2, Fixed4, FixedAgrees DEF Width
<1>4. CASE p.type = "SpawnPosition"
  <2>1. /\ Write[p.chain][p.type] = <<"i", "i", "i">>
        /\ p.type \in DOMAIN Read[p.chain] /\ Read[p.chain][p.type] = <<"i", "i", "i">>
        /\ MinLength[p.type] = 13
    BY <1>4 DEF WriteResponsePlayer, ReadResponsePlayer, MinLengthPlayer
  <2>2. IsFixed(<<"i", "i", "i">>, 3)
    BY DEF IsFixed, Width
  <2>3. QED
    BY <2>1, <2>2, Fixed3, FixedAgrees DEF Width
<1>5. CASE p.type = "UpdateHealth"
  <2>1. /\ Write[p.chain][p.type] = <<"s", "s", "f">>
        /\ p.type \in DOMAIN Read[p.chain] /\ Read[p.chain][p.type] = <<"s", "s", "f">>
        /\ MinLength[p.type] = 9
    BY <1>5 DEF WriteResponsePlayer, ReadResponsePlayer, MinLengthPlayer
  <2>2. IsFixed(<<"s", "s", "f">>, 3)
    BY DEF IsFixed, Width
  <2>3. QED
    BY <2>1, <2>2, Fixed3, FixedAgrees DEF Width
<1>6. CASE p.type = "Respawn"
  <2>1. /\ Write[p.chain][p.type] = <<"b", "b", "b", "s", "l">>
        /\ p.type \in DOMAIN Read[p.chain] /\ Read[p.chain][p.type] = <<"b", "b", "b", "s", "l">>
        /\ MinLength[p.type] = 14
    BY <1>6 DEF WriteResponsePlayer, ReadResponsePlayer, MinLengthPlayer
  <2>2. IsFixed(<<"b", "b", "b", "s", "l">>, 5)
    BY DEF IsFixed, Width
  <2>3. QED
    BY <2>1, <2>2, Fixed5, FixedAgrees DEF Width
<1>7. CASE p.type = "PlayerMoveLook"
  <2>1. /\ Write[p.chain][p.type] = <<"d", "d", "d", "d", "f", "f", "B">>
        /\ p.type \in DOMAIN Read[p.chain] /\ Read[p.chain][p.type] = <<"d", "d", "d", "d", "f", "f", "b">>
        /\ MinLength[p.type] = 42
    BY <1>7 DEF WriteResponsePlayer, ReadResponsePlayer, MinLengthPlayer
  <2>2. IsFixed(<<"d", "d", "d", "d", "f", "f", "B">>, 7) /\ IsFixed(<<"d", "d", "d", "d", "f", "f", "b">>, 7)
    BY DEF IsFixed, Width
  <2>3. QED
    BY <2>1, <2>2, Fixed7, FixedAgrees DEF Width
<1>8. CASE p.type = "UseBed"
  <2>1. /\ Write[p.chain][p.type] = <<"i", "b", "i", "b", "i">>
        /\ p.type \in DOMAIN Read[p.chain] /\ Read[p.chain][p.type] = <<"i", "b", "i", "b", "i">>
        /\ MinLength[p.type] = 15
    BY <1>8 DEF WriteResponsePlayer, ReadResponsePlayer, MinLengthPlayer
  <2>2. IsFixed(<<"i", "b", "i", "b", "i">>, 5)
    BY DEF IsFixed, Width
  <2>3. QED
    BY <2>1, <2>2, Fixed5, FixedAgrees DEF Width
<1>9. CASE p.type = "Animation"
  <2>1. /\ Write[p.chain][p.type] = <<"i", "b">>
        /\ p.type \in DOMAIN Read[p.chain] /\ Read[p.chain][p.type] = <<"i", "b">>
        /\ MinLength[p.type] = 6
    BY <1>9 DEF WriteResponsePlayer, ReadResponsePlayer, MinLengthPlayer
  <2>2. IsFixed(<<"i", "b">>, 2)
    BY DEF IsFixed, Width
  <2>3. QED
    BY <2>1, <2>2, Fixed2, FixedAgrees DEF Width
<1>10. QED
  BY <1>1, <1>2, <1>3, <1>4, <1>5, <1>6, <1>7, <1>8, <1>9 DEF WriteResponsePlayer, Offset, Apart

LEMMA FixedResponseSpawn ==
  ASSUME NEW p \in Packets, p.chain = "Response",
         p.type \in DOMAIN WriteResponseSpawn \ (Apart["Response"] \cup DOMAIN Offset)
  PROVE  Agrees(p)
<1> USE CasesResponseSpawn, LengthOf
<1>1. CASE p.type = "PickupSpawn"
  <2>1. /\ Write[p.chain][p.type] = <<"i", "s", "b", "s", "i", "i", "i", "b", "b", "b">>
        /\ p.type \in DOMAIN Read[p.chain] /\ Read[p.chain][p.type] = <<"i", "s", "b", "s", "i", "i", "i", "b", "b", "b">>
        /\ MinLength[p.type] = 25
    BY <1>1 DEF WriteResponseSpawn, ReadResponseSpawn, MinLengthPlayer
  <2>2. IsFixed(<<"i", "s", "b", "s", "i", "i", "i", "b", "b", "b">>, 10)
    BY DEF IsFixed, Width
  <2>3. QED
    BY <2>1, <2>2, Fixed10, FixedAgrees DEF Width
<1>2. CASE p.type = "CollectItem"
  <2>1. /\ Write[p.chain][p.type] = <<"i", "i">>
        /\ p.type \in DOMAIN Read[p.chain] /\ Read[p.chain][p.type] = <<"i", "i">>
        /\ MinLength[p.type] = 9
    BY <1>2 DEF WriteResponseSpawn, ReadResponseSpawn, MinLengthPlayer
  <2>2. IsFixed(<<"i", "i">>, 2)
    BY DEF IsFixed, Width
  <2>3. QED
    BY <2>1, <2>2, Fixed2, FixedAgrees DEF Width
<1>3. CASE p.type = "ExperienceOrb"
  <2>1. /\ Write[p.chain][p.type] = <<"i", "i", "i", "i", "s">>
        /\ p.type \in DOMAIN Read[p.chain] /\ Read[p.chain][p.type] = <<"i", "i", "i", "i", "s">>
        /\ MinLength[p.type] = 19
    BY <1>3 DEF WriteResponseSpawn, ReadResponseSpawn, MinLengthPlayer
  <2>2. IsFixed(<<"i", "i", "i", "i", "s">>, 5)
    BY DEF IsFixed, Width
  <2>3. QED
    BY <2>1, <2>2, Fixed5, FixedAgrees DEF Width
<1>4. CASE p.type = "StanceUpdate"
  <2>1. /\ Write[p.chain][p.type] = <<"f", "f", "f", "f", "B", "B">>
        /\ p.type \in DOMAIN Read[p.chain] /\ Read[p.chain][p.type] = <<"f", "f", "f", "f", "B", "B">>
        /\ MinLength[p.type] = 19
    BY <1>4 DEF WriteResponseSpawn, ReadResponseSpawn, MinLengthPlayer
  <2>2. IsFixed(<<"f", "f", "f", "f", "B", "B">>, 6)
    BY DEF IsFixed, Width
  <2>3. QED
    BY <2>1, <2>2, Fixed6, FixedAgrees DEF Width
<1>5. QED
  BY <1>1, <1>2, <1>3, <1>4 DEF WriteResponseSpawn, Offset, Apart

LEMMA FixedResponseEntity ==
  ASSUME NEW p \in Packets, p.chain = "Response",
         p.type \in DOMAIN WriteResponseEntity \ (Apart["Response"] \cup DOMAIN Offset)
  PROVE  Agrees(p)
<1> USE CasesResponseEntity, LengthOf
<1>1. CASE p.type \in {"EntityDestroy", "EntityCreate"}
  <2>1. /\ Write[p.chain][p.type] = <<"i">>
        /\ p.type \in DOMAIN Read[p.chain] /\ Read[p.chain][p.type] = <<"i">>
        /\ MinLength[p.type] = 5
    BY <1>1 DEF WriteResponseEntity, ReadResponseEntity, MinLengthPlayer
  <2>2. IsFixed(<<"i">>, 1)
    BY DEF IsFixed, Width
  <2>3. QED
    BY <2>1, <2>2, Fixed1, FixedAgrees DEF Width
<1>2. CASE p.type = "EntityVelocity"
  <2>1. /\ Write[p.chain][p.type] = <<"i", "s", "s", "s">>
        /\ p.type \in DOMAIN Read[p.chain] /\ Read[p.chain][p.type] = <<"i", "s", "s", "s">>
        /\ MinLength[p.type] = 11
    BY <1>2 DEF WriteResponseEntity, ReadResponseEntity, MinLengthPlayer
  <2>2. IsFixed(<<"i", "s", "s", "s">>, 4)
    BY DEF IsFixed, Width
  <2>3. QED
    BY <2>1, <2>2, Fixed4, FixedAgrees DEF Width
<1>3. CASE p.type = "EntityRelativeMove"
  <2>1. /\ Write[p.chain][p.type] = <<"i", "b", "b", "b">>
        /\ p.type \in DOMAIN Read[p.chain] /\ Read[p.chain][p.type] = <<"i", "b", "b", "b">>
        /\ MinLength[p.type] = 8
    BY <1>3 DEF WriteResponseEntity, ReadResponseEntity, MinLengthPlayer
  <2>2. IsFixed(<<"i", "b", "b", "b">>, 4)
    BY DEF IsFixed, Width
  <2>3. QED
    BY <2>1, <2>2, Fixed4, FixedAgrees DEF Width
<1>4. CASE p.type = "EntityLook"
  <2>1. /\ Write[p.chain][p.type] = <<"i", "b", "b">>
        /\ p.type \in DOMAIN Read[p.chain] /\ Read[p.chain][p.type] = <<"i", "b", "b">>
        /\ MinLength[p.type] = 7
    BY <1>4 DEF WriteResponseEntity, ReadResponseEntity, MinLengthPlayer
  <2>2. IsFixed(<<"i", "b", "b">>, 3)
    BY DEF IsFixed, Width
  <2>3. QED
    BY <2>1, <2>2, Fixed3, FixedAgrees DEF Width
<1>5. CASE p.type = "EntityLookMove"
  <2>1. /\ Write[p.chain][p.type] = <<"i", "b", "b", "b", "b", "b">>
        /\ p.type \in DOMAIN Read[p.chain] /\ Read[p.chain][p.type] = <<"i", "b", "b", "b", "b", "b">>
        /\ MinLength[p.type] = 10
    BY <1>5 DEF WriteResponseEntity, ReadResponseEntity, MinLengthPlayer
  <2>2. IsFixed(<<"i", "b", "b", "b", "b", "b">>, 6)
    BY DEF IsFixed, Width
  <2>3. QED
    BY <2>1, <2>2, Fixed6, FixedAgrees DEF Width
<1>6. CASE p.type = "EntityTeleport"
  <2>1. /\ Write[p.chain][p.type] = <<"i", "i", "i", "i", "b", "b">>
        /\ p.type \in DOMAIN Read[p.chain] /\ Read[p.chain][p.type] = <<"i", "i", "i", "i", "b", "b">>
        /\ MinLength[p.type] = 19
    BY <1>6 DEF WriteResponseEntity, ReadResponseEntity, MinLengthPlayer
  <2>2. IsFixed(<<"i", "i", "i", "i", "b", "b">>, 6)
    BY DEF IsFixed, Width
  <2>3. QED
    BY <2>1, <2>2, Fixed6, FixedAgrees DEF Width
<1>7. CASE p.type \in {"EntityStatus", "RemoveEntityEffect"}
  <2>1. /\ Write[p.chain][p.type] = <<"i", "b">>
        /\ p.type \in DOMAIN Read[p.chain] /\ Read[p.chain][p.type] = <<"i", "b">>
        /\ MinLength[p.type] = 6
    BY <1>7 DEF WriteResponseEntity, ReadResponseEntity, MinLengthPlayer
  <2>2. IsFixed(<<"i", "b">>, 2)
    BY DEF IsFixed, Width
  <2>3. QED
    BY <2>1, <2>2, Fixed2, FixedAgrees DEF Width
<1>8. CASE p.type = "EntityAttach"
  <2>1. /\ Write[p.chain][p.type] = <<"i", "i">>
        /\ p.type \in DOMAIN Read[p.chain] /\ Read[p.chain][p.type] = <<"i", "i">>
        /\ MinLength[p.type] = 9
    BY <1>8 DEF WriteResponseEntity, ReadResponseEntity, MinLengthPlayer
  <2>2. IsFixed(<<"i", "i">>, 2)
    BY DEF IsFixed, Width
  <2>3. QED
    BY <2>1, <2>2, Fixed2, FixedAgrees DEF Width
<1>9. CASE p.type = "EntityEffect"
  <2>1. /\ Write[p.chain][p.type] = <<"i", "b", "b", "s">>
        /\ p.type \in DOMAIN Read[p.chain] /\ Read[p.chain][p.type] = <<"i", "b", "b", "s">>
        /\ MinLength[p.type] = 9
    BY <1>9 DEF WriteResponseEntity, ReadResponseEntity, MinLengthPlayer
  <2>2. IsFixed(<<"i", "b", "b", "s">>, 4)
    BY DEF IsFixed, Width
  <2>3. QED
    BY <2>1, <2>2, Fixed4, FixedAgrees DEF Width
<1>10. CASE p.type = "Experience"
  <2>1. /\ Write[p.chain][p.type] = <<"b", "b", "s">>
        /\ p.type \in DOMAIN Read[p.chain] /\ Read[p.chain][p.type] = <<"b", "b", "s">>
        /\ MinLength[p.type] = 5
    BY <1>10 DEF WriteResponseEntity, ReadResponseEntity, MinLengthPlayer
  <2>2. IsFixed(<<"b", "b", "s">>, 3)
    BY DEF IsFixed, Width
  <2>3. QED
    BY <2>1, <2>2, Fixed3, FixedAgrees DEF Width
<1>11. QED
  BY <1>1, <1>2, <1>3, <1>4, <1>5, <1>6, <1>7, <1>8, <1>9, <1>10 DEF WriteResponseEntity, Offset, Apart

LEMMA FixedResponseWorld ==
  ASSUME NEW p \in Packets, p.chain = "Response",
         p.type \in DOMAIN WriteResponseWorld \ (Apart["Response"] \cup DOMAIN Offset)
  PROVE  Agrees(p)
<1> USE CasesResponseWorld, LengthOf
<1>1. CASE p.type = "PreChunk"
  <2>1. /\ Write[p.chain][p.type] = <<"i", "i", "B">>
        /\ p.type \in DOMAIN Read[p.chain] /\ Read[p.chain][p.type] = <<"i", "i", "b">>
        /\ MinLength[p.type] = 10
    BY <1>1 DEF WriteResponseWorld, ReadResponseWorld, MinLengthWorld
  <2>2. IsFixed(<<"i", "i", "B">>, 3) /\ IsFixed(<<"i", "i", "b">>, 3)
    BY DEF IsFixed, Width
  <2>3. QED
    BY <2>1, <2>2, Fixed3, FixedAgrees DEF Width
<1>2. CASE p.type = "BlockChange"
  <2>1. /\ Write[p.chain][p.type] = <<"i", "b", "i", "b", "b">>
        /\ p.type \in DOMAIN Read[p.chain] /\ Read[p.chain][p.type] = <<"i", "b", "i", "b", "b">>
        /\ MinLength[p.type] = 12
    BY <1>2 DEF WriteResponseWorld, ReadResponseWorld, MinLengthWorld
  <2>2. IsFixed(<<"i", "b", "i", "b", "b">>, 5)
    BY DEF IsFixed, Width
  <2>3. QED
    BY <2>1, <2>2, Fixed5, FixedAgrees DEF Width
<1>3. CASE p.type = "PlayNoteBlock"
  <2>1. /\ Write[p.chain][p.type] = <<"i", "s", "i", "b", "b">>
        /\ p.type \in DOMAIN Read[p.chain] /\ Read[p.chain][p.type] = <<"i", "s", "i", "b", "b">>
        /\ MinLength[p.type] = 13
    BY <1>3 DEF WriteResponseWorld, ReadResponseWorld, MinLengthWorld
  <2>2. IsFixed(<<"i", "s", "i", "b", "b">>, 5)
    BY DEF IsFixed, Width
  <2>3. QED
    BY <2>1, <2>2, Fixed5, FixedAgrees DEF Width
<1>4. CASE p.type = "SoundEffect"
  <2>1. /\ Write[p.chain][p.type] = <<"i", "i", "b", "i", "i">>
        /\ p.type \in DOMAIN Read[p.chain] /\ Read[p.chain][p.type] = <<"i", "i", "b", "i", "i">>
        /\ MinLength[p.type] = 18
    BY <1>4 DEF WriteResponseWorld, ReadResponseWorld, MinLengthWorld
  <2>2. IsFixed(<<"i", "i", "b", "i", "i">>, 5)
    BY DEF IsFixed, Width
  <2>3. QED
    BY <2>1, <2>2, Fixed5, FixedAgrees DEF Width
<1>5. CASE p.type = "State"
  <2>1. /\ Write[p.chain][p.type] = <<"b", "b">>
        /\ p.type \in DOMAIN Read[p.chain] /\ Read[p.chain][p.type] = <<"b", "b">>
        /\ MinLength[p.type] = 3
    BY <1>5 DEF WriteResponseWorld, ReadResponseWorld, MinLengthWorld
  <2>2. IsFixed(<<"b", "b">>, 2)
    BY DEF IsFixed, Width
  <2>3. QED
    BY <2>1, <2>2, Fixed2, FixedAgrees DEF Width
<1>6. QED
  BY <1>1, <1>2, <1>3, <1>4, <1>5 DEF WriteResponseWorld, Offset, Apart

LEMMA FixedResponseWindow ==
  ASSUME NEW p \in Packets, p.chain = "Response",
         p.type \in DOMAIN WriteResponseWindow \ (Apart["Response"] \cup DOMAIN Offset)
  PROVE  Agrees(p)
<1> USE CasesResponseWindow, LengthOf
<1>1. CASE p.type = "CloseWindow"
  <2>1. /\ Write[p.chain][p.type] = <<"b">>
        /\ p.type \in DOMAIN Read[p.chain] /\ Read[p.chain][p.type] = <<"b">>
        /\ MinLength[p.type] = 2
    BY <1>1 DEF WriteResponseWindow, ReadResponseWindow, MinLengthWorld
  <2>2. IsFixed(<<"b">>, 1)
    BY DEF IsFixed, Width
  <2>3. QED
    BY <2>1, <2>2, Fixed1, FixedAgrees DEF Width
<1>2. CASE p.type = "Transaction"
  <2>1. /\ Write[p.chain][p.type] = <<"b", "s", "B">>
        /\ p.type \in DOMAIN Read[p.chain] /\ Read[p.chain][p.type] = <<"b", "s", "B">>
        /\ MinLength[p.type] = 5
    BY <1>2 DEF WriteResponseWindow, ReadResponseWindow, MinLengthWorld
  <2>2. IsFixed(<<"b", "s", "B">>, 3)
    BY DEF IsFixed, Width
  <2>3. QED
    BY <2>1, <2>2, Fixed3, FixedAgrees DEF Width
<1>3. CASE p.type = "CreativeInventoryAction"
  <2>1. /\ Write[p.chain][p.type] = <<"s", "s", "s", "s">>
        /\ p.type \in DOMAIN Read[p.chain] /\ Read[p.chain][p.type] = <<"s", "s", "s", "s">>
        /\ MinLength[p.type] = 9
    BY <1>3 DEF WriteResponseWindow, ReadResponseWindow, MinLengthWorld
  <2>2. IsFixed(<<"s", "s", "s", "s">>, 4)
    BY DEF IsFixed, Width
  <2>3. QED
    BY <2>1, <2>2, Fixed4, FixedAgrees DEF Width
<1>4. QED
  BY <1>1, <1>2, <1>3 DEF WriteResponseWindow, Offset, Apart

------------------------------------------------------------------------------
(* Packets with one field of variable size.                                *)

Letter == DOMAIN Width \cup {"U", "M", "stack", "extra", "bytes", "offsets", "slots"}

HasCount(format, n, i) ==
  /\ format \in Seq(Letter) /\ Len(format) = n /\ i \in 1..n
  /\ \A k \in 1..n : format[k] \in DOMAIN Width <=> k # i

LEMMA TheFirstPart ==
  ASSUME NEW format, NEW n \in Nat, NEW i, HasCount(format, n, i)
  PROVE  PartOf(format, i) = 1
<1>1. {j \in 1..i : format[j] \notin DOMAIN Width} = {i}
  BY DEF HasCount
<1>2. QED
  BY <1>1, FS_Singleton DEF PartOf

LEMMA CountFits ==
  ASSUME NEW format, NEW n \in Nat, NEW i, HasCount(format, n, i), NEW parts,
         Size(format[i], parts[1]) \in Nat
  PROVE  /\ Fits(format, parts, n)
         /\ FieldSize(format, parts, i) = Size(format[i], parts[1])
         /\ \A k \in 1..n : k # i => FieldSize(format, parts, k) = Width[format[k]]
<1>1. \A x \in DOMAIN Width : Width[x] \in Nat
  BY DEF Width
<1>2. FieldSize(format, parts, i) = Size(format[i], parts[1])
  BY TheFirstPart DEF HasCount, FieldSize
<1>3. ASSUME NEW k \in 1..n, k # i
      PROVE  /\ FieldSize(format, parts, k) = Width[format[k]]
             /\ format[k] \in DOMAIN Width
  BY <1>3 DEF HasCount, FieldSize
<1>4. DOMAIN format = 1..n /\ Len(format) = n
  BY DEF HasCount
<1>5. \A k \in 1..n : FieldSize(format, parts, k) \in Nat
  BY <1>1, <1>2, <1>3
<1>6. QED
  BY <1>2, <1>3, <1>4, <1>5 DEF Fits

PrefixSize(format, i, size) ==
  /\ size \in Nat
  /\ \A fixed : IsFixed(fixed, i - 1) /\ (\A k \in 1..(i - 1) : fixed[k] = format[k])
                  => FormatSize(fixed, <<>>) = size

(* The length is looked for in its place.                                  *)
LEMMA LooksInPlace ==
  ASSUME NEW p, NEW format, NEW n \in Nat, NEW i, HasCount(format, n, i),
         Write[p.chain][p.type] = format,
         NEW size, PrefixSize(format, i, size),
         Offset[p.type] = 1 + size - CountBefore[format[i]]
  PROVE  LooksRight(p)
<1> DEFINE I == {k \in DOMAIN format : format[k] \notin DOMAIN Width}
           fixed == SubSeq(format, 1, i - 1)
<1>1. I = {i} /\ i \in Nat
  BY DEF HasCount
<1>2. Min(I) = i
  <2> HIDE DEF I
  <2>1. I \subseteq Nat /\ I # {}
    BY <1>1
  <2>2. Min(I) \in I
    BY <2>1, LeastOf
  <2>3. QED
    BY <1>1, <2>2
<1>3. /\ fixed \in Seq(Letter) /\ Len(fixed) = i - 1
      /\ \A k \in 1..(i - 1) : fixed[k] = format[k] /\ format[k] \in DOMAIN Width
  BY DEF HasCount
<1> HIDE DEF fixed
<1>4. fixed \in Seq(DOMAIN Width)
  <2>1. fixed \in [1..(i - 1) -> DOMAIN Width]
    BY <1>3
  <2>2. i - 1 \in Nat
    BY DEF HasCount
  <2>3. QED
    BY <2>1, <2>2
<1>5. FormatSize(fixed, <<>>) = size
  BY <1>3, <1>4 DEF IsFixed, PrefixSize
<1>6. QED
  BY <1>2, <1>5 DEF LooksRight, fixed

(* The length, or whether the field is there, prolongs the packet.         *)
LEMMA CountAgrees ==
  ASSUME NEW p \in Packets,
         p.type \in DOMAIN Offset
                      \ {"UpdateSign", "SpawnMob", "EntityMetadata", "WindowItems"},
         p.type \in DOMAIN Read[p.chain],
         NEW factor \in Nat, Factor(p.type) = factor, p.parts[1] \in Nat,
         MinLength[p.type] \in Nat \ {0},
         FormatSize(Write[p.chain][p.type], p.parts)
           = MinLength[p.type] - 1 + factor * p.parts[1],
         FormatSize(Read[p.chain][p.type], p.parts)
           = MinLength[p.type] - 1 + factor * p.parts[1],
         LooksRight(p)
  PROVE  Agrees(p)
<1> DEFINE least == MinLength[p.type]
           sum == factor * p.parts[1]
<1>1. sum \in Nat /\ least \in Nat \ {0}
  OBVIOUS
<1>2. Checks(p) = {least, least + sum}
  BY DEF Checks
<1>3. WireSize[p] = 1 + (least - 1 + sum) /\ ReadSize[p] = 1 + (least - 1 + sum)
  BY DEF WireSize, ReadSize, Readable
<1>4. InFrame[p] /\ Readable(p)
  BY DEF InFrame, Readable
<1> HIDE DEF least, sum
<1>5. WireSize[p] = least + sum /\ ReadSize[p] = least + sum
  BY <1>1, <1>3
<1>6. QED
  BY <1>1, <1>2, <1>4, <1>5 DEF Agrees, ChecksOf

(* Counted types.                                                          *)

LEMMA SumOf1 ==
  ASSUME NEW format, NEW parts, Fits(format, parts, 1)
  PROVE  FormatSize(format, parts) =
         FieldSize(format, parts, 1)
<1>1. PICK f : /\ f[0] = 0
               /\ \A k \in 1..1 : /\ f[k] = f[k - 1] + FieldSize(format, parts, k)
                                 /\ FieldSize(format, parts, k) \in Nat
               /\ FormatSize(format, parts) = f[1]
  BY FieldsAddUp
<1>2. QED
  BY <1>1

LEMMA SumOf2 ==
  ASSUME NEW format, NEW parts, Fits(format, parts, 2)
  PROVE  FormatSize(format, parts) =
         FieldSize(format, parts, 1) + FieldSize(format, parts, 2)
<1>1. PICK f : /\ f[0] = 0
               /\ \A k \in 1..2 : /\ f[k] = f[k - 1] + FieldSize(format, parts, k)
                                  /\ FieldSize(format, parts, k) \in Nat
               /\ FormatSize(format, parts) = f[2]
  BY FieldsAddUp
<1>2. QED
  BY <1>1

LEMMA SumOf3 ==
  ASSUME NEW format, NEW parts, Fits(format, parts, 3)
  PROVE  FormatSize(format, parts) =
         FieldSize(format, parts, 1) + FieldSize(format, parts, 2) +
         FieldSize(format, parts, 3)
<1>1. PICK f : /\ f[0] = 0
               /\ \A k \in 1..3 : /\ f[k] = f[k - 1] + FieldSize(format, parts, k)
                                 /\ FieldSize(format, parts, k) \in Nat
               /\ FormatSize(format, parts) = f[3]
  BY FieldsAddUp
<1>2. QED
  BY <1>1

LEMMA SumOf4 ==
  ASSUME NEW format, NEW parts, Fits(format, parts, 4)
  PROVE  FormatSize(format, parts) =
         FieldSize(format, parts, 1) + FieldSize(format, parts, 2) +
         FieldSize(format, parts, 3) + FieldSize(format, parts, 4)
<1>1. PICK f : /\ f[0] = 0
               /\ \A k \in 1..4 : /\ f[k] = f[k - 1] + FieldSize(format, parts, k)
                                 /\ FieldSize(format, parts, k) \in Nat
               /\ FormatSize(format, parts) = f[4]
  BY FieldsAddUp
<1>2. QED
  BY <1>1

LEMMA SumOf6 ==
  ASSUME NEW format, NEW parts, Fits(format, parts, 6)
  PROVE  FormatSize(format, parts) =
         FieldSize(format, parts, 1) + FieldSize(format, parts, 2) +
         FieldSize(format, parts, 3) + FieldSize(format, parts, 4) +
         FieldSize(format, parts, 5) + FieldSize(format, parts, 6)
<1>1. PICK f : /\ f[0] = 0
               /\ \A k \in 1..6 : /\ f[k] = f[k - 1] + FieldSize(format, parts, k)
                                 /\ FieldSize(format, parts, k) \in Nat
               /\ FormatSize(format, parts) = f[6]
  BY FieldsAddUp
<1>2. QED
  BY <1>1

LEMMA SumOf7 ==
  ASSUME NEW format, NEW parts, Fits(format, parts, 7)
  PROVE  FormatSize(format, parts) =
         FieldSize(format, parts, 1) + FieldSize(format, parts, 2) +
         FieldSize(format, parts, 3) + FieldSize(format, parts, 4) +
         FieldSize(format, parts, 5) + FieldSize(format, parts, 6) +
         FieldSize(format, parts, 7)
<1>1. PICK f : /\ f[0] = 0
               /\ \A k \in 1..7 : /\ f[k] = f[k - 1] + FieldSize(format, parts, k)
                                 /\ FieldSize(format, parts, k) \in Nat
               /\ FormatSize(format, parts) = f[7]
  BY FieldsAddUp
<1>2. QED
  BY <1>1

LEMMA SumOf8 ==
  ASSUME NEW format, NEW parts, Fits(format, parts, 8)
  PROVE  FormatSize(format, parts) =
         FieldSize(format, parts, 1) + FieldSize(format, parts, 2) +
         FieldSize(format, parts, 3) + FieldSize(format, parts, 4) +
         FieldSize(format, parts, 5) + FieldSize(format, parts, 6) +
         FieldSize(format, parts, 7) + FieldSize(format, parts, 8)
<1>1. PICK f : /\ f[0] = 0
               /\ \A k \in 1..8 : /\ f[k] = f[k - 1] + FieldSize(format, parts, k)
                                 /\ FieldSize(format, parts, k) \in Nat
               /\ FormatSize(format, parts) = f[8]
  BY FieldsAddUp
<1>2. QED
  BY <1>1

LEMMA StringRequests ==
  ASSUME NEW p \in Packets, IsWritten(p), p.chain = "Request", p.type \in {"Handshake", "Chat"}
  PROVE  Agrees(p)
<1> DEFINE format == <<"U">>
<1>1. /\ Write[p.chain][p.type] = format
      /\ p.type \in DOMAIN Read[p.chain] /\ Read[p.chain][p.type] = format
  BY CasesRequestPlayer DEF WriteRequestPlayer, ReadRequestPlayer
<1>2. /\ MinLength[p.type] = 3 /\ Offset[p.type] = 1 /\ Factor(p.type) = 2
      /\ p.type \in DOMAIN Offset
                    \ {"UpdateSign", "SpawnMob", "EntityMetadata", "WindowItems"}
  BY LengthOf DEF MinLengthPlayer, Offset, Factor, StringFactor
<1>3. HasCount(format, 1, 1)
  BY DEF HasCount, Letter, Width
<1>4. p.parts[1] \in Nat
  BY <1>1, <1>3, TheFirstPart DEF IsWritten, ValuesOf, Width
<1>5. Size("U", p.parts[1]) = 2 + 2 * p.parts[1] /\ Size("U", p.parts[1]) \in Nat
  BY <1>4 DEF Size, StringSize
<1>6. /\ FormatSize(format, p.parts) = 3 - 1 + 2 * p.parts[1]
      /\ FormatSize(format, p.parts) = 3 - 1 + 2 * p.parts[1]
  BY <1>3, <1>4, <1>5, CountFits, SumOf1 DEF Width
<1>7. PrefixSize(format, 1, 0)
  BY Fixed0 DEF PrefixSize, Width
<1>8. LooksRight(p)
  <2>1. Offset[p.type] = 1 + 0 - CountBefore["U"]
    BY <1>2 DEF CountBefore
  <2>2. QED
    BY <1>1, <1>3, <1>7, <2>1, LooksInPlace
<1>9. QED
  BY <1>1, <1>2, <1>4, <1>6, <1>8, CountAgrees

LEMMA PlacementAgrees ==
  ASSUME NEW p \in Packets, IsWritten(p), p.chain = "Request", p.type = "PlayerBlockPlacement"
  PROVE  Agrees(p)
<1> DEFINE format == <<"i", "b", "i", "b", "s", "stack">>
<1>1. /\ Write[p.chain][p.type] = format
      /\ p.type \in DOMAIN Read[p.chain] /\ Read[p.chain][p.type] = format
  BY CasesRequestAction DEF WriteRequestAction, ReadRequestAction
<1>2. /\ MinLength[p.type] = 13 /\ Offset[p.type] = 11 /\ Factor(p.type) = 3
      /\ p.type \in DOMAIN Offset
                    \ {"UpdateSign", "SpawnMob", "EntityMetadata", "WindowItems"}
  BY LengthOf DEF MinLengthPlayer, Offset, Factor, StringFactor
<1>3. HasCount(format, 6, 6)
  BY DEF HasCount, Letter, Width
<1>4. p.parts[1] \in {0, 1}
  BY <1>1, <1>3, TheFirstPart DEF IsWritten, ValuesOf, Width
<1>5. Size("stack", p.parts[1]) = 3 * p.parts[1] /\ Size("stack", p.parts[1]) \in Nat
  BY <1>4 DEF Size, StringSize
<1>6. /\ FormatSize(format, p.parts) = 13 - 1 + 3 * p.parts[1]
      /\ FormatSize(format, p.parts) = 13 - 1 + 3 * p.parts[1]
  BY <1>3, <1>4, <1>5, CountFits, SumOf6 DEF Width
<1>7. PrefixSize(format, 6, 12)
  BY Fixed5 DEF PrefixSize, Width
<1>8. LooksRight(p)
  <2>1. Offset[p.type] = 1 + 12 - CountBefore["stack"]
    BY <1>2 DEF CountBefore
  <2>2. QED
    BY <1>1, <1>3, <1>7, <2>1, LooksInPlace
<1>9. QED
  BY <1>1, <1>2, <1>4, <1>6, <1>8, CountAgrees

LEMMA ClickAgrees ==
  ASSUME NEW p \in Packets, IsWritten(p), p.chain = "Request", p.type = "WindowClick"
  PROVE  Agrees(p)
<1> DEFINE format == <<"b", "s", "B", "s", "B", "s", "stack">>
<1>1. /\ Write[p.chain][p.type] = format
      /\ p.type \in DOMAIN Read[p.chain] /\ Read[p.chain][p.type] = format
  BY CasesRequestWindow DEF WriteRequestWindow, ReadRequestWindow
<1>2. /\ MinLength[p.type] = 10 /\ Offset[p.type] = 8 /\ Factor(p.type) = 3
      /\ p.type \in DOMAIN Offset
                    \ {"UpdateSign", "SpawnMob", "EntityMetadata", "WindowItems"}
  BY LengthOf DEF MinLengthWorld, Offset, Factor, StringFactor
<1>3. HasCount(format, 7, 7)
  BY DEF HasCount, Letter, Width
<1>4. p.parts[1] \in {0, 1}
  BY <1>1, <1>3, TheFirstPart DEF IsWritten, ValuesOf, Width
<1>5. Size("stack", p.parts[1]) = 3 * p.parts[1] /\ Size("stack", p.parts[1]) \in Nat
  BY <1>4 DEF Size, StringSize
<1>6. /\ FormatSize(format, p.parts) = 10 - 1 + 3 * p.parts[1]
      /\ FormatSize(format, p.parts) = 10 - 1 + 3 * p.parts[1]
  BY <1>3, <1>4, <1>5, CountFits, SumOf7 DEF Width
<1>7. PrefixSize(format, 7, 9)
  BY Fixed6 DEF PrefixSize, Width
<1>8. LooksRight(p)
  <2>1. Offset[p.type] = 1 + 9 - CountBefore["stack"]
    BY <1>2 DEF CountBefore
  <2>2. QED
    BY <1>1, <1>3, <1>7, <2>1, LooksInPlace
<1>9. QED
  BY <1>1, <1>2, <1>4, <1>6, <1>8, CountAgrees

LEMMA GoodbyeRequest ==
  ASSUME NEW p \in Packets, IsWritten(p), p.chain = "Request", p.type = "Disconnect"
  PROVE  Agrees(p)
<1> DEFINE format == <<"U">>
<1>1. /\ Write[p.chain][p.type] = format
      /\ p.type \in DOMAIN Read[p.chain] /\ Read[p.chain][p.type] = format
  BY CasesRequestWindow DEF WriteRequestWindow, ReadRequestWindow
<1>2. /\ MinLength[p.type] = 3 /\ Offset[p.type] = 1 /\ Factor(p.type) = 2
      /\ p.type \in DOMAIN Offset
                    \ {"UpdateSign", "SpawnMob", "EntityMetadata", "WindowItems"}
  BY LengthOf DEF MinLengthWorld, Offset, Factor, StringFactor
<1>3. HasCount(format, 1, 1)
  BY DEF HasCount, Letter, Width
<1>4. p.parts[1] \in Nat
  BY <1>1, <1>3, TheFirstPart DEF IsWritten, ValuesOf, Width
<1>5. Size("U", p.parts[1]) = 2 + 2 * p.parts[1] /\ Size("U", p.parts[1]) \in Nat
  BY <1>4 DEF Size, StringSize
<1>6. /\ FormatSize(format, p.parts) = 3 - 1 + 2 * p.parts[1]
      /\ FormatSize(format, p.parts) = 3 - 1 + 2 * p.parts[1]
  BY <1>3, <1>4, <1>5, CountFits, SumOf1 DEF Width
<1>7. PrefixSize(format, 1, 0)
  BY Fixed0 DEF PrefixSize, Width
<1>8. LooksRight(p)
  <2>1. Offset[p.type] = 1 + 0 - CountBefore["U"]
    BY <1>2 DEF CountBefore
  <2>2. QED
    BY <1>1, <1>3, <1>7, <2>1, LooksInPlace
<1>9. QED
  BY <1>1, <1>2, <1>4, <1>6, <1>8, CountAgrees

LEMMA StringResponses ==
  ASSUME NEW p \in Packets, IsWritten(p), p.chain = "Response", p.type \in {"Handshake", "Chat"}
  PROVE  Agrees(p)
<1> DEFINE format == <<"U">>
<1>1. /\ Write[p.chain][p.type] = format
      /\ p.type \in DOMAIN Read[p.chain] /\ Read[p.chain][p.type] = format
  BY CasesResponsePlayer DEF WriteResponsePlayer, ReadResponsePlayer
<1>2. /\ MinLength[p.type] = 3 /\ Offset[p.type] = 1 /\ Factor(p.type) = 2
      /\ p.type \in DOMAIN Offset
                    \ {"UpdateSign", "SpawnMob", "EntityMetadata", "WindowItems"}
  BY LengthOf DEF MinLengthPlayer, Offset, Factor, StringFactor
<1>3. HasCount(format, 1, 1)
  BY DEF HasCount, Letter, Width
<1>4. p.parts[1] \in Nat
  BY <1>1, <1>3, TheFirstPart DEF IsWritten, ValuesOf, Width
<1>5. Size("U", p.parts[1]) = 2 + 2 * p.parts[1] /\ Size("U", p.parts[1]) \in Nat
  BY <1>4 DEF Size, StringSize
<1>6. /\ FormatSize(format, p.parts) = 3 - 1 + 2 * p.parts[1]
      /\ FormatSize(format, p.parts) = 3 - 1 + 2 * p.parts[1]
  BY <1>3, <1>4, <1>5, CountFits, SumOf1 DEF Width
<1>7. PrefixSize(format, 1, 0)
  BY Fixed0 DEF PrefixSize, Width
<1>8. LooksRight(p)
  <2>1. Offset[p.type] = 1 + 0 - CountBefore["U"]
    BY <1>2 DEF CountBefore
  <2>2. QED
    BY <1>1, <1>3, <1>7, <2>1, LooksInPlace
<1>9. QED
  BY <1>1, <1>2, <1>4, <1>6, <1>8, CountAgrees

LEMMA NamedAgrees ==
  ASSUME NEW p \in Packets, IsWritten(p), p.chain = "Response", p.type = "NamedEntitySpawn"
  PROVE  Agrees(p)
<1> DEFINE format == <<"i", "U", "i", "i", "i", "b", "b", "s">>
<1>1. /\ Write[p.chain][p.type] = format
      /\ p.type \in DOMAIN Read[p.chain] /\ Read[p.chain][p.type] = format
  BY CasesResponseSpawn DEF WriteResponseSpawn, ReadResponseSpawn
<1>2. /\ MinLength[p.type] = 23 /\ Offset[p.type] = 5 /\ Factor(p.type) = 2
      /\ p.type \in DOMAIN Offset
                    \ {"UpdateSign", "SpawnMob", "EntityMetadata", "WindowItems"}
  BY LengthOf DEF MinLengthPlayer, Offset, Factor, StringFactor
<1>3. HasCount(format, 8, 2)
  BY DEF HasCount, Letter, Width
<1>4. p.parts[1] \in Nat
  BY <1>1, <1>3, TheFirstPart DEF IsWritten, ValuesOf, Width
<1>5. Size("U", p.parts[1]) = 2 + 2 * p.parts[1] /\ Size("U", p.parts[1]) \in Nat
  BY <1>4 DEF Size, StringSize
<1>6. /\ FormatSize(format, p.parts) = 23 - 1 + 2 * p.parts[1]
      /\ FormatSize(format, p.parts) = 23 - 1 + 2 * p.parts[1]
  BY <1>3, <1>4, <1>5, CountFits, SumOf8 DEF Width
<1>7. PrefixSize(format, 2, 4)
  BY Fixed1 DEF PrefixSize, Width
<1>8. LooksRight(p)
  <2>1. Offset[p.type] = 1 + 4 - CountBefore["U"]
    BY <1>2 DEF CountBefore
  <2>2. QED
    BY <1>1, <1>3, <1>7, <2>1, LooksInPlace
<1>9. QED
  BY <1>1, <1>2, <1>4, <1>6, <1>8, CountAgrees

LEMMA ObjectAgrees ==
  ASSUME NEW p \in Packets, IsWritten(p), p.chain = "Response", p.type = "SpawnObject"
  PROVE  Agrees(p)
<1> DEFINE format == <<"i", "b", "i", "i", "i", "i", "extra">>
<1>1. /\ Write[p.chain][p.type] = format
      /\ p.type \in DOMAIN Read[p.chain] /\ Read[p.chain][p.type] = format
  BY CasesResponseSpawn DEF WriteResponseSpawn, ReadResponseSpawn
<1>2. /\ MinLength[p.type] = 22 /\ Offset[p.type] = 18 /\ Factor(p.type) = 6
      /\ p.type \in DOMAIN Offset
                    \ {"UpdateSign", "SpawnMob", "EntityMetadata", "WindowItems"}
  BY LengthOf DEF MinLengthPlayer, Offset, Factor, StringFactor
<1>3. HasCount(format, 7, 7)
  BY DEF HasCount, Letter, Width
<1>4. p.parts[1] \in {0, 1}
  BY <1>1, <1>3, TheFirstPart DEF IsWritten, ValuesOf, Width
<1>5. Size("extra", p.parts[1]) = 6 * p.parts[1] /\ Size("extra", p.parts[1]) \in Nat
  BY <1>4 DEF Size, StringSize
<1>6. /\ FormatSize(format, p.parts) = 22 - 1 + 6 * p.parts[1]
      /\ FormatSize(format, p.parts) = 22 - 1 + 6 * p.parts[1]
  BY <1>3, <1>4, <1>5, CountFits, SumOf7 DEF Width
<1>7. PrefixSize(format, 7, 21)
  BY Fixed6 DEF PrefixSize, Width
<1>8. LooksRight(p)
  <2>1. Offset[p.type] = 1 + 21 - CountBefore["extra"]
    BY <1>2 DEF CountBefore
  <2>2. QED
    BY <1>1, <1>3, <1>7, <2>1, LooksInPlace
<1>9. QED
  BY <1>1, <1>2, <1>4, <1>6, <1>8, CountAgrees

LEMMA ChunkAgrees ==
  ASSUME NEW p \in Packets, IsWritten(p), p.chain = "Response", p.type = "MapChunk"
  PROVE  Agrees(p)
<1> DEFINE format == <<"i", "s", "i", "b", "b", "b", "i", "bytes">>
<1>1. /\ Write[p.chain][p.type] = format
      /\ p.type \in DOMAIN Read[p.chain] /\ Read[p.chain][p.type] = format
  BY CasesResponseWorld DEF WriteResponseWorld, ReadResponseWorld
<1>2. /\ MinLength[p.type] = 18 /\ Offset[p.type] = 14 /\ Factor(p.type) = 1
      /\ p.type \in DOMAIN Offset
                    \ {"UpdateSign", "SpawnMob", "EntityMetadata", "WindowItems"}
  BY LengthOf DEF MinLengthWorld, Offset, Factor, StringFactor
<1>3. HasCount(format, 8, 8)
  BY DEF HasCount, Letter, Width
<1>4. p.parts[1] \in Nat
  BY <1>1, <1>3, TheFirstPart DEF IsWritten, ValuesOf, Width
<1>5. Size("bytes", p.parts[1]) = p.parts[1] /\ Size("bytes", p.parts[1]) \in Nat
  BY <1>4 DEF Size, StringSize
<1>6. /\ FormatSize(format, p.parts) = 18 - 1 + 1 * p.parts[1]
      /\ FormatSize(format, p.parts) = 18 - 1 + 1 * p.parts[1]
  BY <1>3, <1>4, <1>5, CountFits, SumOf8 DEF Width
<1>7. PrefixSize(format, 8, 17)
  BY Fixed7 DEF PrefixSize, Width
<1>8. LooksRight(p)
  <2>1. Offset[p.type] = 1 + 17 - CountBefore["bytes"]
    BY <1>2 DEF CountBefore
  <2>2. QED
    BY <1>1, <1>3, <1>7, <2>1, LooksInPlace
<1>9. QED
  BY <1>1, <1>2, <1>4, <1>6, <1>8, CountAgrees

LEMMA ExplosionAgrees ==
  ASSUME NEW p \in Packets, IsWritten(p), p.chain = "Response", p.type = "Explosion"
  PROVE  Agrees(p)
<1> DEFINE format == <<"d", "d", "d", "f", "i", "offsets">>
<1>1. /\ Write[p.chain][p.type] = format
      /\ p.type \in DOMAIN Read[p.chain] /\ Read[p.chain][p.type] = format
  BY CasesResponseWorld DEF WriteResponseWorld, ReadResponseWorld
<1>2. /\ MinLength[p.type] = 33 /\ Offset[p.type] = 29 /\ Factor(p.type) = 3
      /\ p.type \in DOMAIN Offset
                    \ {"UpdateSign", "SpawnMob", "EntityMetadata", "WindowItems"}
  BY LengthOf DEF MinLengthWorld, Offset, Factor, StringFactor
<1>3. HasCount(format, 6, 6)
  BY DEF HasCount, Letter, Width
<1>4. p.parts[1] \in Nat
  BY <1>1, <1>3, TheFirstPart DEF IsWritten, ValuesOf, Width
<1>5. Size("offsets", p.parts[1]) = 3 * p.parts[1] /\ Size("offsets", p.parts[1]) \in Nat
  BY <1>4 DEF Size, StringSize
<1>6. /\ FormatSize(format, p.parts) = 33 - 1 + 3 * p.parts[1]
      /\ FormatSize(format, p.parts) = 33 - 1 + 3 * p.parts[1]
  BY <1>3, <1>4, <1>5, CountFits, SumOf6 DEF Width
<1>7. PrefixSize(format, 6, 32)
  BY Fixed5 DEF PrefixSize, Width
<1>8. LooksRight(p)
  <2>1. Offset[p.type] = 1 + 32 - CountBefore["offsets"]
    BY <1>2 DEF CountBefore
  <2>2. QED
    BY <1>1, <1>3, <1>7, <2>1, LooksInPlace
<1>9. QED
  BY <1>1, <1>2, <1>4, <1>6, <1>8, CountAgrees

LEMMA SlotAgrees ==
  ASSUME NEW p \in Packets, IsWritten(p), p.chain = "Response", p.type = "SetSlot"
  PROVE  Agrees(p)
<1> DEFINE format == <<"b", "s", "s", "stack">>
<1>1. /\ Write[p.chain][p.type] = format
      /\ p.type \in DOMAIN Read[p.chain] /\ Read[p.chain][p.type] = format
  BY CasesResponseWindow DEF WriteResponseWindow, ReadResponseWindow
<1>2. /\ MinLength[p.type] = 6 /\ Offset[p.type] = 4 /\ Factor(p.type) = 3
      /\ p.type \in DOMAIN Offset
                    \ {"UpdateSign", "SpawnMob", "EntityMetadata", "WindowItems"}
  BY LengthOf DEF MinLengthWorld, Offset, Factor, StringFactor
<1>3. HasCount(format, 4, 4)
  BY DEF HasCount, Letter, Width
<1>4. p.parts[1] \in {0, 1}
  BY <1>1, <1>3, TheFirstPart DEF IsWritten, ValuesOf, Width
<1>5. Size("stack", p.parts[1]) = 3 * p.parts[1] /\ Size("stack", p.parts[1]) \in Nat
  BY <1>4 DEF Size, StringSize
<1>6. /\ FormatSize(format, p.parts) = 6 - 1 + 3 * p.parts[1]
      /\ FormatSize(format, p.parts) = 6 - 1 + 3 * p.parts[1]
  BY <1>3, <1>4, <1>5, CountFits, SumOf4 DEF Width
<1>7. PrefixSize(format, 4, 5)
  BY Fixed3 DEF PrefixSize, Width
<1>8. LooksRight(p)
  <2>1. Offset[p.type] = 1 + 5 - CountBefore["stack"]
    BY <1>2 DEF CountBefore
  <2>2. QED
    BY <1>1, <1>3, <1>7, <2>1, LooksInPlace
<1>9. QED
  BY <1>1, <1>2, <1>4, <1>6, <1>8, CountAgrees

LEMMA ListItemAgrees ==
  ASSUME NEW p \in Packets, IsWritten(p), p.chain = "Response", p.type = "PlayerListItem"
  PROVE  Agrees(p)
<1> DEFINE format == <<"U", "b", "s">>
           read == <<"U", "B", "s">>
<1>1. /\ Write[p.chain][p.type] = format
      /\ p.type \in DOMAIN Read[p.chain] /\ Read[p.chain][p.type] = read
  BY CasesResponseWindow DEF WriteResponseWindow, ReadResponseWindow
<1>2. /\ MinLength[p.type] = 6 /\ Offset[p.type] = 1 /\ Factor(p.type) = 2
      /\ p.type \in DOMAIN Offset
                    \ {"UpdateSign", "SpawnMob", "EntityMetadata", "WindowItems"}
  BY LengthOf DEF MinLengthWorld, Offset, Factor, StringFactor
<1>3. HasCount(format, 3, 1) /\ HasCount(read, 3, 1)
  BY DEF HasCount, Letter, Width
<1>4. p.parts[1] \in Nat
  BY <1>1, <1>3, TheFirstPart DEF IsWritten, ValuesOf, Width
<1>5. Size("U", p.parts[1]) = 2 + 2 * p.parts[1] /\ Size("U", p.parts[1]) \in Nat
  BY <1>4 DEF Size, StringSize
<1>6. /\ FormatSize(format, p.parts) = 6 - 1 + 2 * p.parts[1]
      /\ FormatSize(read, p.parts) = 6 - 1 + 2 * p.parts[1]
  BY <1>3, <1>4, <1>5, CountFits, SumOf3 DEF Width
<1>7. PrefixSize(format, 1, 0)
  BY Fixed0 DEF PrefixSize, Width
<1>8. LooksRight(p)
  <2>1. Offset[p.type] = 1 + 0 - CountBefore["U"]
    BY <1>2 DEF CountBefore
  <2>2. QED
    BY <1>1, <1>3, <1>7, <2>1, LooksInPlace
<1>9. QED
  BY <1>1, <1>2, <1>4, <1>6, <1>8, CountAgrees

LEMMA GoodbyeResponse ==
  ASSUME NEW p \in Packets, IsWritten(p), p.chain = "Response", p.type = "Disconnect"
  PROVE  Agrees(p)
<1> DEFINE format == <<"U">>
<1>1. /\ Write[p.chain][p.type] = format
      /\ p.type \in DOMAIN Read[p.chain] /\ Read[p.chain][p.type] = format
  BY CasesResponseWindow DEF WriteResponseWindow, ReadResponseWindow
<1>2. /\ MinLength[p.type] = 3 /\ Offset[p.type] = 1 /\ Factor(p.type) = 2
      /\ p.type \in DOMAIN Offset
                    \ {"UpdateSign", "SpawnMob", "EntityMetadata", "WindowItems"}
  BY LengthOf DEF MinLengthWorld, Offset, Factor, StringFactor
<1>3. HasCount(format, 1, 1)
  BY DEF HasCount, Letter, Width
<1>4. p.parts[1] \in Nat
  BY <1>1, <1>3, TheFirstPart DEF IsWritten, ValuesOf, Width
<1>5. Size("U", p.parts[1]) = 2 + 2 * p.parts[1] /\ Size("U", p.parts[1]) \in Nat
  BY <1>4 DEF Size, StringSize
<1>6. /\ FormatSize(format, p.parts) = 3 - 1 + 2 * p.parts[1]
      /\ FormatSize(format, p.parts) = 3 - 1 + 2 * p.parts[1]
  BY <1>3, <1>4, <1>5, CountFits, SumOf1 DEF Width
<1>7. PrefixSize(format, 1, 0)
  BY Fixed0 DEF PrefixSize, Width
<1>8. LooksRight(p)
  <2>1. Offset[p.type] = 1 + 0 - CountBefore["U"]
    BY <1>2 DEF CountBefore
  <2>2. QED
    BY <1>1, <1>3, <1>7, <2>1, LooksInPlace
<1>9. QED
  BY <1>1, <1>2, <1>4, <1>6, <1>8, CountAgrees

(* Fields of several parts.                                                *)

(* Metadata goes up to an entry of a kind that does not exist.             *)
LEMMA MetadataSizes ==
  ASSUME NEW v \in Seq(Entry)
  PROVE  /\ DOMAIN v = 1..Len(v) /\ Len(v) \in Nat
         /\ \A k \in DOMAIN v : /\ EntrySize(v[k]) \in Nat
                                /\ CountedSize(v[k]) = EntrySize(v[k])
                                /\ v[k].kind # "string"
<1>1. DOMAIN v = 1..Len(v) /\ Len(v) \in Nat
  OBVIOUS
<1>2. \A e \in Entry : CountedSize(e) = EntrySize(e) /\ EntrySize(e) \in Nat
  BY DEF Entry, CountedSize, EntrySize
<1>3. \A e \in Entry : e.kind # "string"
  BY DEF Entry
<1>4. \A k \in DOMAIN v : v[k] \in Entry
  OBVIOUS
<1>5. QED
  BY <1>1, <1>2, <1>3, <1>4

LEMMA MetadataAgrees ==
  ASSUME NEW p \in Packets, p.type \in {"SpawnMob", "EntityMetadata"},
         p.type \in DOMAIN Read[p.chain],
         p.parts[1] \in Seq(Entry),
         MinLength[p.type] \in Nat \ {0},
         FormatSize(Write[p.chain][p.type], p.parts)
           = MinLength[p.type] - 2 + Size("M", p.parts[1]),
         FormatSize(Read[p.chain][p.type], p.parts)
           = MinLength[p.type] - 2 + Size("M", p.parts[1]),
         LooksRight(p)
  PROVE  Agrees(p)
<1> DEFINE v == p.parts[1]
           sizes == [k \in DOMAIN v |-> EntrySize(v[k])]
           least == MinLength[p.type]
           known == {k \in DOMAIN v : v[k].kind # "unknown"}
<1>a. v \in Seq(Entry)
  OBVIOUS
<1>b. ChecksOf[p] = {least} \cup {least + sum : sum \in
        {UpTo([n \in DOMAIN v |-> CountedSize(v[n])], k) : k \in known}
        \cup {UpTo([n \in DOMAIN v |-> CountedSize(v[n])], k - 1) + 2 :
                k \in {j \in DOMAIN v : v[j].kind = "string"}}}
  <2>1. CASE p.type = "SpawnMob"
    BY <2>1 DEF ChecksOf, Checks
  <2>2. CASE p.type = "EntityMetadata"
    BY <2>2 DEF ChecksOf, Checks
  <2>3. QED
    BY <2>1, <2>2
<1>3. Size("M", v) = Total(sizes) + 1
  BY DEF Size
<1>5. Malformed(p) <=> \E k \in DOMAIN v : v[k].kind = "unknown"
  BY DEF Malformed
<1>6. /\ WireSize[p] = 1 + (least - 2 + (Total(sizes) + 1))
      /\ ReadSize[p] = 1 + (least - 2 + (Total(sizes) + 1))
  BY <1>3 DEF WireSize, ReadSize, Readable
<1> HIDE DEF v
<1>0. /\ DOMAIN v = 1..Len(v) /\ Len(v) \in Nat
      /\ \A k \in DOMAIN v : /\ EntrySize(v[k]) \in Nat
                             /\ CountedSize(v[k]) = EntrySize(v[k])
                             /\ v[k].kind # "string"
  BY <1>a, MetadataSizes
<1>1. /\ sizes = [k \in DOMAIN v |-> CountedSize(v[k])]
      /\ Len(sizes) = Len(v) /\ \A k \in 1..Len(sizes) : sizes[k] \in Nat
      /\ DOMAIN v = 1..Len(v) /\ Len(v) \in Nat
  BY <1>0
<1>2. \A k \in DOMAIN v : v[k].kind # "string"
  BY <1>0
<1>4. ChecksOf[p] = {least} \cup {least + sum : sum \in {UpTo(sizes, k) : k \in known}}
  <2>1. {j \in DOMAIN v : v[j].kind = "string"} = {}
    BY <1>2
  <2> DEFINE counted == [k \in DOMAIN v |-> CountedSize(v[k])]
  <2>2. counted = sizes
    BY <1>1
  <2> HIDE DEF known, sizes, least, counted
  <2>3. ChecksOf[p] = {least} \cup {least + sum : sum \in
                         {UpTo(counted, k) : k \in known}
                         \cup {UpTo(counted, k - 1) + 2 : k \in {}}}
    BY <1>b, <2>1 DEF counted
  <2>4. QED
    BY <2>2, <2>3
<1>7. InFrame[p] /\ Readable(p)
  BY DEF InFrame, Readable
<1> HIDE DEF sizes, least
<1>8. /\ Total(sizes) \in Nat /\ UpTo(sizes, Len(sizes)) = Total(sizes)
      /\ \A k \in 0..Len(sizes) : UpTo(sizes, k) \in Nat /\ UpTo(sizes, k) <= Total(sizes)
  BY <1>1, UpToAll
<1>9. least \in Nat \ {0}
  BY DEF least
<1>10. WireSize[p] = least + Total(sizes) /\ ReadSize[p] = least + Total(sizes)
  BY <1>6, <1>8, <1>9
<1>11. ChecksOf[p] \subseteq 1..WireSize[p]
  <2>1. ASSUME NEW k \in known PROVE least + UpTo(sizes, k) \in 1..WireSize[p]
    <3>1. k \in 0..Len(sizes)
      BY <1>1
    <3>2. QED
      BY <1>8, <1>9, <1>10, <3>1
  <2>2. least \in 1..WireSize[p]
    BY <1>8, <1>9, <1>10
  <2> HIDE DEF known
  <2>3. QED
    BY <1>4, <2>1, <2>2
<1>12. ASSUME ~Malformed(p) PROVE WireSize[p] \in ChecksOf[p]
  <2>1. CASE Len(v) = 0
    <3>1. sizes = <<>>
      BY <1>1, <2>1 DEF sizes
    <3>2. QED
      BY <1>4, <1>9, <1>10, <3>1, TotalOfNone
  <2>2. CASE Len(v) # 0
    <3>1. Len(v) \in known
      BY <1>1, <1>5, <1>12, <2>2
    <3> HIDE DEF known
    <3>2. QED
      BY <1>1, <1>4, <1>8, <1>10, <3>1
  <2>3. QED
    BY <2>1, <2>2
<1>13. WireSize[p] \in Nat \ {0}
  BY <1>8, <1>9, <1>10
<1>14. QED
  BY <1>7, <1>10, <1>11, <1>12, <1>13 DEF Agrees

LEMMA MetadataRequest ==
  ASSUME NEW p \in Packets, IsWritten(p), p.chain = "Request", p.type = "EntityMetadata"
  PROVE  Agrees(p)
<1> DEFINE format == <<"i", "M">>
<1>1. /\ Write[p.chain][p.type] = format
      /\ p.type \in DOMAIN Read[p.chain] /\ Read[p.chain][p.type] = format
  BY CasesRequestAction DEF WriteRequestAction, ReadRequestAction
<1>2. MinLength[p.type] = 6 /\ Offset[p.type] = 5
  BY LengthOf DEF MinLengthPlayer, Offset
<1>3. HasCount(format, 2, 2)
  BY DEF HasCount, Letter, Width
<1>4. p.parts[1] \in Seq(Entry)
  BY <1>1, <1>3, TheFirstPart DEF IsWritten, ValuesOf, Width
<1>5. Size("M", p.parts[1]) \in Nat
  <2> DEFINE sizes == [k \in DOMAIN p.parts[1] |-> EntrySize(p.parts[1][k])]
  <2>1. Size("M", p.parts[1]) = Total(sizes) + 1
    BY DEF Size
  <2>2. Len(sizes) \in Nat /\ \A k \in 1..Len(sizes) : sizes[k] \in Nat
    BY <1>4, MetadataSizes
  <2>3. Total(sizes) \in Nat
    BY <2>2, UpToAll
  <2>4. QED
    BY <2>1, <2>3
<1>6. FormatSize(format, p.parts) = 4 + Size("M", p.parts[1])
  BY <1>3, <1>5, CountFits, SumOf2 DEF Width
<1>7. PrefixSize(format, 2, 4)
  BY Fixed1 DEF PrefixSize, Width
<1>8. LooksRight(p)
  <2>1. Offset[p.type] = 1 + 4 - CountBefore["M"]
    BY <1>2 DEF CountBefore
  <2>2. QED
    BY <1>1, <1>3, <1>7, <2>1, LooksInPlace
<1>9. QED
  <2>1. MinLength[p.type] - 2 = 4 /\ MinLength[p.type] \in Nat \ {0}
    BY <1>2
  <2>2. /\ FormatSize(Write[p.chain][p.type], p.parts)
             = MinLength[p.type] - 2 + Size("M", p.parts[1])
        /\ FormatSize(Read[p.chain][p.type], p.parts)
             = MinLength[p.type] - 2 + Size("M", p.parts[1])
    BY <1>1, <1>6, <2>1
  <2>3. p.type \in {"SpawnMob", "EntityMetadata"} /\ p.type \in DOMAIN Read[p.chain]
    BY <1>1
  <2>4. QED
    BY <1>4, <1>8, <2>1, <2>2, <2>3, MetadataAgrees

LEMMA MetadataResponse ==
  ASSUME NEW p \in Packets, IsWritten(p), p.chain = "Response", p.type = "EntityMetadata"
  PROVE  Agrees(p)
<1> DEFINE format == <<"i", "M">>
<1>1. /\ Write[p.chain][p.type] = format
      /\ p.type \in DOMAIN Read[p.chain] /\ Read[p.chain][p.type] = format
  BY CasesResponseEntity DEF WriteResponseEntity, ReadResponseEntity
<1>2. MinLength[p.type] = 6 /\ Offset[p.type] = 5
  BY LengthOf DEF MinLengthPlayer, Offset
<1>3. HasCount(format, 2, 2)
  BY DEF HasCount, Letter, Width
<1>4. p.parts[1] \in Seq(Entry)
  BY <1>1, <1>3, TheFirstPart DEF IsWritten, ValuesOf, Width
<1>5. Size("M", p.parts[1]) \in Nat
  <2> DEFINE sizes == [k \in DOMAIN p.parts[1] |-> EntrySize(p.parts[1][k])]
  <2>1. Size("M", p.parts[1]) = Total(sizes) + 1
    BY DEF Size
  <2>2. Len(sizes) \in Nat /\ \A k \in 1..Len(sizes) : sizes[k] \in Nat
    BY <1>4, MetadataSizes
  <2>3. Total(sizes) \in Nat
    BY <2>2, UpToAll
  <2>4. QED
    BY <2>1, <2>3
<1>6. FormatSize(format, p.parts) = 4 + Size("M", p.parts[1])
  BY <1>3, <1>5, CountFits, SumOf2 DEF Width
<1>7. PrefixSize(format, 2, 4)
  BY Fixed1 DEF PrefixSize, Width
<1>8. LooksRight(p)
  <2>1. Offset[p.type] = 1 + 4 - CountBefore["M"]
    BY <1>2 DEF CountBefore
  <2>2. QED
    BY <1>1, <1>3, <1>7, <2>1, LooksInPlace
<1>9. QED
  <2>1. MinLength[p.type] - 2 = 4 /\ MinLength[p.type] \in Nat \ {0}
    BY <1>2
  <2>2. /\ FormatSize(Write[p.chain][p.type], p.parts)
             = MinLength[p.type] - 2 + Size("M", p.parts[1])
        /\ FormatSize(Read[p.chain][p.type], p.parts)
             = MinLength[p.type] - 2 + Size("M", p.parts[1])
    BY <1>1, <1>6, <2>1
  <2>3. p.type \in {"SpawnMob", "EntityMetadata"} /\ p.type \in DOMAIN Read[p.chain]
    BY <1>1
  <2>4. QED
    BY <1>4, <1>8, <2>1, <2>2, <2>3, MetadataAgrees

LEMMA MobAgrees ==
  ASSUME NEW p \in Packets, IsWritten(p), p.chain = "Response", p.type = "SpawnMob"
  PROVE  Agrees(p)
<1> DEFINE format == <<"i", "b", "i", "i", "i", "b", "b", "M">>
<1>1. /\ Write[p.chain][p.type] = format
      /\ p.type \in DOMAIN Read[p.chain] /\ Read[p.chain][p.type] = format
  BY CasesResponseSpawn DEF WriteResponseSpawn, ReadResponseSpawn
<1>2. MinLength[p.type] = 21 /\ Offset[p.type] = 20
  BY LengthOf DEF MinLengthPlayer, Offset
<1>3. HasCount(format, 8, 8)
  BY DEF HasCount, Letter, Width
<1>4. p.parts[1] \in Seq(Entry)
  BY <1>1, <1>3, TheFirstPart DEF IsWritten, ValuesOf, Width
<1>5. Size("M", p.parts[1]) \in Nat
  <2> DEFINE sizes == [k \in DOMAIN p.parts[1] |-> EntrySize(p.parts[1][k])]
  <2>1. Size("M", p.parts[1]) = Total(sizes) + 1
    BY DEF Size
  <2>2. Len(sizes) \in Nat /\ \A k \in 1..Len(sizes) : sizes[k] \in Nat
    BY <1>4, MetadataSizes
  <2>3. Total(sizes) \in Nat
    BY <2>2, UpToAll
  <2>4. QED
    BY <2>1, <2>3
<1>6. FormatSize(format, p.parts) = 19 + Size("M", p.parts[1])
  BY <1>3, <1>5, CountFits, SumOf8 DEF Width
<1>7. PrefixSize(format, 8, 19)
  BY Fixed7 DEF PrefixSize, Width
<1>8. LooksRight(p)
  <2>1. Offset[p.type] = 1 + 19 - CountBefore["M"]
    BY <1>2 DEF CountBefore
  <2>2. QED
    BY <1>1, <1>3, <1>7, <2>1, LooksInPlace
<1>9. QED
  <2>1. MinLength[p.type] - 2 = 19 /\ MinLength[p.type] \in Nat \ {0}
    BY <1>2
  <2>2. /\ FormatSize(Write[p.chain][p.type], p.parts)
             = MinLength[p.type] - 2 + Size("M", p.parts[1])
        /\ FormatSize(Read[p.chain][p.type], p.parts)
             = MinLength[p.type] - 2 + Size("M", p.parts[1])
    BY <1>1, <1>6, <2>1
  <2>3. p.type \in {"SpawnMob", "EntityMetadata"} /\ p.type \in DOMAIN Read[p.chain]
    BY <1>1
  <2>4. QED
    BY <1>4, <1>8, <2>1, <2>2, <2>3, MetadataAgrees

(* Stacks of a window: two bytes each, three more behind an item.          *)
LEMMA StacksAddUp ==
  ASSUME NEW v \in Seq({0, 1})
  PROVE  /\ DOMAIN v = 1..Len(v) /\ Len(v) \in Nat /\ Total(v) \in Nat
         /\ \A k \in 0..Len(v) : UpTo(v, k) \in Nat /\ UpTo(v, k) <= Total(v)
         /\ Size("slots", v) = 2 * Len(v) + 3 * Total(v)
<1>1. DOMAIN v = 1..Len(v) /\ Len(v) \in Nat /\ \A k \in 1..Len(v) : v[k] \in Nat
  OBVIOUS
<1>2. /\ Total(v) \in Nat
      /\ \A k \in 0..Len(v) : UpTo(v, k) \in Nat /\ UpTo(v, k) <= Total(v)
  BY <1>1, UpToAll
<1> DEFINE sizes == [k \in DOMAIN v |-> 2 + 3 * v[k]]
<1>3. Len(sizes) = Len(v) /\ \A k \in 1..Len(v) : sizes[k] = 2 + 3 * v[k]
  BY <1>1
<1>4. PICK f : AddsUp(v, f) /\ Total(v) = f[Len(v)]
  BY <1>1, TotalAddsUp
<1>5. \A k \in 0..Len(v) : f[k] \in Nat
  BY <1>1, <1>4, SumsGrow
<1> DEFINE g == [k \in 0..Len(v) |-> 2 * k + 3 * f[k]]
<1>6. AddsUp(sizes, g)
  <2>1. ASSUME NEW k \in 1..Len(v) PROVE g[k] = g[k - 1] + sizes[k]
    <3>1. /\ k \in 0..Len(v) /\ k - 1 \in 0..Len(v) /\ v[k] \in Nat
          /\ f[k] = f[k - 1] + v[k] /\ f[k - 1] \in Nat
      BY <1>1, <1>4, <1>5 DEF AddsUp
    <3>2. g[k] = 2 * k + 3 * f[k] /\ g[k - 1] = 2 * (k - 1) + 3 * f[k - 1]
      BY <3>1
    <3> HIDE DEF g
    <3>3. QED
      BY <1>3, <3>1, <3>2
  <2>2. g[0] = 0
    BY <1>1, <1>4 DEF AddsUp
  <2>3. QED
    BY <1>3, <2>1, <2>2 DEF AddsUp
<1>7. Total(sizes) = g[Len(v)]
  BY <1>1, <1>3, <1>6, TotalIs
<1>8. Size("slots", v) = Total(sizes)
  BY DEF Size
<1>9. g[Len(v)] = 2 * Len(v) + 3 * Total(v)
  BY <1>1, <1>4
<1>10. QED
  BY <1>1, <1>2, <1>7, <1>8, <1>9

LEMMA WindowItemsAgrees ==
  ASSUME NEW p \in Packets, IsWritten(p), p.chain = "Response", p.type = "WindowItems"
  PROVE  Agrees(p)
<1> DEFINE format == <<"b", "s", "slots">>
           v == p.parts[1]
<1>1. /\ Write[p.chain][p.type] = format
      /\ p.type \in DOMAIN Read[p.chain] /\ Read[p.chain][p.type] = format
  BY CasesResponseWindow DEF WriteResponseWindow, ReadResponseWindow
<1>2. MinLength[p.type] = 4 /\ Offset[p.type] = 2
  BY LengthOf DEF MinLengthWorld, Offset
<1>3. HasCount(format, 3, 3)
  BY DEF HasCount, Letter, Width
<1>4. v \in Seq({0, 1})
  BY <1>1, <1>3, TheFirstPart DEF IsWritten, ValuesOf, Width
<1>5. ChecksOf[p] = {4} \cup {4 + sum : sum \in
        {2 * k + 3 * UpTo(v, k - 1) : k \in DOMAIN v} \cup {2 * Len(v) + 3 * Total(v)}}
  BY <1>2 DEF ChecksOf, Checks
<1>6. /\ WireSize[p] = 1 + FormatSize(format, p.parts)
      /\ ReadSize[p] = 1 + FormatSize(format, p.parts)
      /\ Readable(p)
  BY <1>1 DEF WireSize, ReadSize, Readable
<1>7. ~Malformed(p)
  BY DEF Malformed
<1> HIDE DEF v
<1>8. /\ DOMAIN v = 1..Len(v) /\ Len(v) \in Nat /\ Total(v) \in Nat
      /\ \A k \in 0..Len(v) : UpTo(v, k) \in Nat /\ UpTo(v, k) <= Total(v)
      /\ Size("slots", v) = 2 * Len(v) + 3 * Total(v)
  BY <1>4, StacksAddUp
<1>9. FormatSize(format, p.parts) = 3 + 2 * Len(v) + 3 * Total(v)
  <2>1. Size("slots", p.parts[1]) = 2 * Len(v) + 3 * Total(v)
        /\ Size("slots", p.parts[1]) \in Nat
    BY <1>8 DEF v
  <2>2. /\ Fits(format, p.parts, 3)
        /\ FieldSize(format, p.parts, 3) = Size("slots", p.parts[1])
        /\ FieldSize(format, p.parts, 1) = 1 /\ FieldSize(format, p.parts, 2) = 2
    BY <1>3, <2>1, CountFits DEF Width
  <2> HIDE DEF format
  <2>3. FormatSize(format, p.parts) = 1 + 2 + Size("slots", p.parts[1])
    BY <2>2, SumOf3
  <2>4. QED
    BY <1>8, <2>1, <2>3
<1>10. PrefixSize(format, 3, 3)
  BY Fixed2 DEF PrefixSize, Width
<1>11. LooksRight(p)
  <2>1. Offset[p.type] = 1 + 3 - CountBefore["slots"]
    BY <1>2 DEF CountBefore
  <2>2. QED
    BY <1>1, <1>3, <1>10, <2>1, LooksInPlace
<1>12. InFrame[p]
  BY <1>11 DEF InFrame
<1> HIDE DEF format
<1>13. WireSize[p] = 4 + 2 * Len(v) + 3 * Total(v) /\ ReadSize[p] = WireSize[p]
  BY <1>6, <1>8, <1>9
<1>14. ASSUME NEW k \in DOMAIN v
       PROVE  4 + (2 * k + 3 * UpTo(v, k - 1)) \in 1..WireSize[p]
  <2>1. k \in 1..Len(v) /\ k - 1 \in 0..Len(v)
    BY <1>8
  <2>2. UpTo(v, k - 1) \in Nat /\ UpTo(v, k - 1) <= Total(v)
    BY <1>8, <2>1
  <2>3. \A a, b, c, d \in Nat :
          a <= b /\ c <= d => 4 + (2 * a + 3 * c) \in 1..(4 + 2 * b + 3 * d)
    OBVIOUS
  <2>4. k \in Nat /\ k <= Len(v) /\ Len(v) \in Nat /\ Total(v) \in Nat
    BY <1>8, <2>1
  <2>5. QED
    BY <1>13, <2>2, <2>3, <2>4
<1>15. WireSize[p] \in ChecksOf[p] /\ WireSize[p] \in Nat \ {0}
  <2>1. WireSize[p] = 4 + (2 * Len(v) + 3 * Total(v))
    BY <1>8, <1>13
  <2>2. QED
    BY <1>5, <1>8, <2>1
<1>16. ChecksOf[p] \subseteq 1..WireSize[p]
  <2>1. 4 \in 1..WireSize[p] /\ 4 + (2 * Len(v) + 3 * Total(v)) \in 1..WireSize[p]
    BY <1>8, <1>13
  <2>2. QED
    BY <1>5, <1>14, <2>1
<1>17. QED
  BY <1>6, <1>7, <1>12, <1>13, <1>15, <1>16 DEF Agrees

(* The four lines of a sign.                                               *)
SignFormat == <<"i", "s", "i", "U", "U", "U", "U">>

LEMMA SignParts ==
  \A k \in 4..7 : PartOf(SignFormat, k) = k - 3 /\ SignFormat[k] = "U"
<1>1. ASSUME NEW k \in 4..7
      PROVE  {j \in 1..k : SignFormat[j] \notin DOMAIN Width} = 4..k
  BY DEF SignFormat, Width
<1>2. \A k \in 4..7 : Cardinality(4..k) = k - 3
  BY FS_Interval
<1>3. \A k \in 4..7 : SignFormat[k] = "U"
  BY DEF SignFormat
<1>4. QED
  BY <1>1, <1>2, <1>3 DEF PartOf

LEMMA SignSize ==
  ASSUME NEW v, \A k \in 1..4 : v[k] \in Nat
  PROVE  /\ FormatSize(SignFormat, v) = 18 + 2 * (v[1] + v[2] + v[3] + v[4])
         /\ UpTo(v, 1) = v[1] /\ UpTo(v, 2) = v[1] + v[2]
         /\ UpTo(v, 3) = v[1] + v[2] + v[3] /\ UpTo(v, 4) = v[1] + v[2] + v[3] + v[4]
<1>1. \A k \in 4..7 : FieldSize(SignFormat, v, k) = 2 + 2 * v[k - 3]
  <2>1. "U" \notin DOMAIN Width /\ \A n : Size("U", n) = 2 + 2 * n
    BY DEF Width, Size, StringSize
  <2>2. QED
    BY <2>1, SignParts DEF FieldSize
<1>2. /\ FieldSize(SignFormat, v, 1) = 4 /\ FieldSize(SignFormat, v, 2) = 2
      /\ FieldSize(SignFormat, v, 3) = 4
  BY DEF FieldSize, SignFormat, Width
<1>3. /\ FieldSize(SignFormat, v, 4) = 2 + 2 * v[1]
      /\ FieldSize(SignFormat, v, 5) = 2 + 2 * v[2]
      /\ FieldSize(SignFormat, v, 6) = 2 + 2 * v[3]
      /\ FieldSize(SignFormat, v, 7) = 2 + 2 * v[4]
  BY <1>1
<1>4. Fits(SignFormat, v, 7)
  <2>1. \A k \in 1..7 : k \in {1, 2, 3, 4, 5, 6, 7}
    OBVIOUS
  <2>2. \A k \in 1..7 : FieldSize(SignFormat, v, k) \in Nat
    BY <1>2, <1>3, <2>1
  <2>3. Len(SignFormat) = 7 /\ DOMAIN SignFormat = 1..7
    BY DEF SignFormat
  <2>4. QED
    BY <2>2, <2>3 DEF Fits
<1>5. FormatSize(SignFormat, v) = 18 + 2 * (v[1] + v[2] + v[3] + v[4])
  BY <1>2, <1>3, <1>4, SumOf7
<1> DEFINE s == [j \in 1..4 |-> v[j]]
           f == [j \in 0..4 |-> IF j = 0 THEN 0 ELSE IF j = 1 THEN v[1]
                                ELSE IF j = 2 THEN v[1] + v[2]
                                ELSE IF j = 3 THEN v[1] + v[2] + v[3]
                                ELSE v[1] + v[2] + v[3] + v[4]]
<1>6. /\ Len(s) = 4 /\ s[1] = v[1] /\ s[2] = v[2] /\ s[3] = v[3] /\ s[4] = v[4]
      /\ f[0] = 0 /\ f[1] = v[1] /\ f[2] = v[1] + v[2]
      /\ f[3] = v[1] + v[2] + v[3] /\ f[4] = v[1] + v[2] + v[3] + v[4]
  OBVIOUS
<1> HIDE DEF f
<1>7. AddsUp(s, f)
  <2> HIDE DEF s
  <2>1. \A k \in 1..4 : k \in {1, 2, 3, 4}
    OBVIOUS
  <2>2. QED
    BY <1>6, <2>1 DEF AddsUp
<1>8. \A k \in 1..4 : UpTo(s, k) = f[k]
  <2> HIDE DEF s
  <2>1. Len(s) \in Nat /\ \A k \in 1..4 : k \in 0..Len(s)
    BY <1>6
  <2>2. QED
    BY <1>7, <2>1, PartialSums
<1>9. \A k \in 1..4 : UpTo(v, k) = UpTo(s, k)
  <2>1. ASSUME NEW k \in 1..4 PROVE [j \in 1..k |-> v[j]] = [j \in 1..k |-> s[j]]
    OBVIOUS
  <2>2. QED
    BY <2>1 DEF UpTo
<1>10. QED
  BY <1>5, <1>6, <1>8, <1>9

LEMMA SignAgrees ==
  ASSUME NEW p \in Packets, IsWritten(p), p.type = "UpdateSign"
  PROVE  Agrees(p)
<1> DEFINE v == p.parts
<1>1. /\ Write[p.chain][p.type] = SignFormat
      /\ p.type \in DOMAIN Read[p.chain] /\ Read[p.chain][p.type] = SignFormat
  <2>1. CASE p.chain = "Request"
    BY <2>1, CasesRequestWindow DEF SignFormat, WriteRequestWindow, ReadRequestWindow
  <2>2. CASE p.chain = "Response"
    BY <2>2, CasesResponseWindow DEF SignFormat, WriteResponseWindow, ReadResponseWindow
  <2>3. QED
    BY <2>1, <2>2 DEF IsWritten
<1>2. MinLength[p.type] = 19 /\ Offset[p.type] = 11
  BY LengthOf DEF MinLengthWorld, Offset
<1>3. \A k \in 1..4 : v[k] \in Nat
  <2>1. ASSUME NEW k \in 4..7 PROVE v[k - 3] \in Nat
    <3>1. k \in DOMAIN SignFormat /\ "U" \notin DOMAIN Width /\ ValuesOf("U") = Nat
      BY DEF SignFormat, Width, ValuesOf
    <3>2. QED
      BY <1>1, <3>1, SignParts DEF IsWritten
  <2>2. \A k \in 1..4 : k + 3 \in 4..7 /\ (k + 3) - 3 = k
    OBVIOUS
  <2>3. QED
    BY <2>1, <2>2
<1>4. ChecksOf[p] = {19} \cup {19 + sum : sum \in {2 * UpTo(v, k) : k \in 1..4}}
  BY <1>2 DEF ChecksOf, Checks
<1>5. /\ WireSize[p] = 1 + FormatSize(SignFormat, v)
      /\ ReadSize[p] = 1 + FormatSize(SignFormat, v)
      /\ Readable(p)
  BY <1>1 DEF WireSize, ReadSize, Readable
<1>6. ~Malformed(p)
  BY DEF Malformed
<1> HIDE DEF v
<1>7. /\ FormatSize(SignFormat, v) = 18 + 2 * (v[1] + v[2] + v[3] + v[4])
      /\ UpTo(v, 1) = v[1] /\ UpTo(v, 2) = v[1] + v[2]
      /\ UpTo(v, 3) = v[1] + v[2] + v[3] /\ UpTo(v, 4) = v[1] + v[2] + v[3] + v[4]
  BY <1>3, SignSize
<1>8. v[1] \in Nat /\ v[2] \in Nat /\ v[3] \in Nat /\ v[4] \in Nat
  BY <1>3
<1>9. /\ WireSize[p] = 19 + 2 * UpTo(v, 4) /\ ReadSize[p] = WireSize[p]
      /\ WireSize[p] \in Nat \ {0}
  BY <1>5, <1>7, <1>8
<1>10. \A k \in 1..4 : UpTo(v, k) \in Nat /\ UpTo(v, k) <= UpTo(v, 4)
  <2>1. \A k \in 1..4 : k \in {1, 2, 3, 4}
    OBVIOUS
  <2>2. QED
    BY <1>7, <1>8, <2>1
<1>11. ChecksOf[p] \subseteq 1..WireSize[p] /\ WireSize[p] \in ChecksOf[p]
  BY <1>4, <1>9, <1>10
<1>12. InFrame[p]
  <2> DEFINE I == {k \in DOMAIN SignFormat : SignFormat[k] \notin DOMAIN Width}
             fixed == SubSeq(SignFormat, 1, 3)
  <2>1. I = 4..7
    BY DEF SignFormat, Width
  <2>2. Min(I) = 4
    <3>1. I \subseteq Nat /\ I # {}
      BY <2>1
    <3>2. Min(I) \in I /\ \A j \in I : Min(I) <= j
      BY <3>1, LeastOf
    <3> HIDE DEF I
    <3>3. QED
      BY <2>1, <3>2
  <2>3. /\ fixed \in Seq(Letter) /\ Len(fixed) = 3
        /\ \A k \in 1..3 : fixed[k] = SignFormat[k]
    <3>2. \A k \in 1..3 : SignFormat[k] \in Letter
      <4>1. \A k \in 1..3 : k \in {1, 2, 3}
        OBVIOUS
      <4>2. SignFormat[1] = "i" /\ SignFormat[2] = "s" /\ SignFormat[3] = "i"
        BY DEF SignFormat
      <4>3. "i" \in Letter /\ "s" \in Letter
        BY DEF Letter, Width
      <4>4. QED
        BY <4>1, <4>2, <4>3
    <3> HIDE DEF fixed
    <3>a. fixed = SubSeq(SignFormat, 1, 3)
      BY DEF fixed
    <3>3. /\ fixed \in Seq(Letter) /\ Len(fixed) = 3
          /\ \A k \in 1..3 : fixed[k] = SignFormat[1 + k - 1]
      BY <3>2, <3>a, SubSeqProperties
    <3>4. QED
      BY <3>3
  <2>6. SignFormat[4] = "U" /\ CountBefore["U"] = 0 /\ 4 - 1 = 3
    BY DEF SignFormat, CountBefore
  <2> HIDE DEF I, fixed
  <2>4. fixed[1] = "i" /\ fixed[2] = "s" /\ fixed[3] = "i"
    BY <2>3 DEF SignFormat
  <2>5. IsFixed(fixed, 3)
    <3>1. \A k \in 1..3 : k \in {1, 2, 3}
      OBVIOUS
    <3>2. \A k \in 1..3 : fixed[k] \in DOMAIN Width
      BY <2>4, <3>1 DEF Width
    <3>3. fixed \in [1..3 -> DOMAIN Width]
      BY <2>3, <3>2
    <3>4. fixed \in Seq(DOMAIN Width)
      <4> HIDE DEF fixed
      <4>1. \A n \in Nat : [1..n -> DOMAIN Width] \subseteq Seq(DOMAIN Width)
        BY SeqDef
      <4>2. 3 \in Nat
        OBVIOUS
      <4>3. QED
        BY <3>3, <4>1, <4>2
    <3>5. QED
      BY <2>3, <3>4 DEF IsFixed
  <2>7. FormatSize(fixed, <<>>) = 10
    BY <2>4, <2>5, Fixed3 DEF Width
  <2>8. LooksRight(p)
    BY <1>1, <1>2, <2>2, <2>6, <2>7 DEF LooksRight, I, fixed
  <2>9. QED
    BY <2>8 DEF InFrame
<1>13. QED
  BY <1>5, <1>6, <1>9, <1>11, <1>12 DEF Agrees

------------------------------------------------------------------------------
(* Every packet.                                                           *)

LEMMA RequestsAgree ==
  ASSUME NEW p \in Packets, IsWritten(p), p.chain = "Request"
  PROVE  Agrees(p)
<1>0. p.type \notin Apart["Request"]
  BY DEF IsWritten
<1>1. CASE p.type \in DOMAIN WriteRequestPlayer
  BY <1>0, <1>1, FixedRequestPlayer, StringRequests
     DEF WriteRequestPlayer, Apart, Offset
<1>2. CASE p.type \in DOMAIN WriteRequestAction
  BY <1>0, <1>2, FixedRequestAction, PlacementAgrees, MetadataRequest
     DEF WriteRequestAction, Apart, Offset
<1>3. CASE p.type \in DOMAIN WriteRequestWindow
  BY <1>0, <1>3, FixedRequestWindow, ClickAgrees, GoodbyeRequest, SignAgrees
     DEF WriteRequestWindow, Apart, Offset
<1>4. p.type \in DOMAIN Write["Request"]
  BY DEF IsWritten
<1>5. DOMAIN Write["Request"] =
          DOMAIN WriteRequestPlayer \cup DOMAIN WriteRequestAction \cup DOMAIN WriteRequestWindow
  BY DEF Write, ++
<1>6. QED
  BY <1>1, <1>2, <1>3, <1>4, <1>5

LEMMA ResponsesAgree ==
  ASSUME NEW p \in Packets, IsWritten(p), p.chain = "Response"
  PROVE  Agrees(p)
<1>0. p.type \notin Apart["Response"]
  BY DEF IsWritten
<1>1. CASE p.type \in DOMAIN WriteResponsePlayer
  BY <1>0, <1>1, FixedResponsePlayer, StringResponses
     DEF WriteResponsePlayer, Apart, Offset
<1>2. CASE p.type \in DOMAIN WriteResponseSpawn
  BY <1>0, <1>2, FixedResponseSpawn, NamedAgrees, ObjectAgrees, MobAgrees
     DEF WriteResponseSpawn, Apart, Offset
<1>3. CASE p.type \in DOMAIN WriteResponseEntity
  BY <1>0, <1>3, FixedResponseEntity, MetadataResponse
     DEF WriteResponseEntity, Apart, Offset
<1>4. CASE p.type \in DOMAIN WriteResponseWorld
  BY <1>0, <1>4, FixedResponseWorld, ChunkAgrees, ExplosionAgrees
     DEF WriteResponseWorld, Apart, Offset
<1>5. CASE p.type \in DOMAIN WriteResponseWindow
  BY <1>0, <1>5, FixedResponseWindow, SlotAgrees, WindowItemsAgrees, SignAgrees,
     ListItemAgrees, GoodbyeResponse DEF WriteResponseWindow, Apart, Offset
<1>6. p.type \in DOMAIN Write["Response"]
  BY DEF IsWritten
<1>7. DOMAIN Write["Response"] =
          DOMAIN WriteResponsePlayer \cup DOMAIN WriteResponseSpawn \cup DOMAIN WriteResponseEntity
              \cup DOMAIN WriteResponseWorld \cup DOMAIN WriteResponseWindow
  BY DEF Write, ++
<1>8. QED
  BY <1>1, <1>2, <1>3, <1>4, <1>5, <1>6, <1>7

(* What SV_PacketToBuffer writes is what SV_PacketFromBuffers reads and     *)
(* what SV_PacketParsable waits for (Packet.c, PacketLength.c), for every  *)
(* type that is not in Apart and every length of its strings, arrays and   *)
(* metadata.                                                               *)
THEOREM LayoutsDoAgree == LayoutsAgree
BY FramingAssumption, RequestsAgree, ResponsesAgree DEF LayoutsAgree, IsWritten

(* A packet is taken out when all of its bytes are there and none of the   *)
(* next one's (PacketLength.h:32), for any packets of these types, however *)
(* their bytes arrive, and any number of workers.                          *)
THEOREM PacketsStayInStep == Spec => []InStep
BY LayoutsDoAgree, StaysInStep

(* With one worker a whole packet in the buffer of an idle client is about *)
(* to be looked at, and no watermark is above the packet that is awaited   *)
(* (Server.c:188, Worker.c:169, PacketLength.c:292), for any packets of    *)
(* these types and however their bytes arrive.                             *)
THEOREM PacketsAreNoticed == Spec => []Noticed
BY LayoutsDoAgree, IsNoticed

------------------------------------------------------------------------------
(* What is handed on.                                                      *)

(* The packets of a connection are of its direction.                       *)
ChainInv == \A k \in DOMAIN wire : wire[k].chain = chain

LEMMA ChainStep ==
  ASSUME LayoutsAgree, BytesInv, ChainInv, [Next]_vars
  PROVE  ChainInv'
<1>1. wire \in Seq(Packets)
  BY DEF BytesInv
<1>2. ASSUME NEW p \in Packets, WritePacket(p) PROVE ChainInv'
  BY <1>1, <1>2 DEF WritePacket, ChainInv
<1>3. ASSUME NEW length \in Nat, ReadCallback(length), length <= Bytes(wire),
             UNCHANGED chain
      PROVE  ChainInv'
  <2>1. CASE UNCHANGED wire
    BY <1>3, <2>1 DEF ChainInv
  <2>2. CASE length > 0 /\ wire' = Tail(wire)
    <3>1. wire # <<>>
      BY <1>3, <2>2, BytesOnWire
    <3>2. QED
      BY <1>1, <1>3, <2>2, <3>1 DEF ChainInv
  <2>3. QED
    BY <1>3, <2>1, <2>2 DEF ReadCallback, Await, Kick, Parse, reader
<1>4. ASSUME NEW n \in {1, OnTheWay}, Arrive(n) PROVE ChainInv'
  <2>1. UNCHANGED chain
    BY <1>4 DEF Arrive, connection
  <2>2. CASE UNCHANGED wire
    BY <2>1, <2>2 DEF ChainInv
  <2>3. CASE ReadCallback(input + n)
    <3>1. input + n \in Nat /\ input + n <= Bytes(wire)
      BY <1>1, <1>4, BytesAreNat, StillToCome DEF Arrive, BytesInv
    <3>2. QED
      BY <1>3, <2>1, <2>3, <3>1
  <2>4. QED
    BY <1>4, <2>2, <2>3 DEF Arrive, reader
<1>5. ASSUME NEW w \in Worker, Reread(w) PROVE ChainInv'
  BY <1>3, <1>5 DEF Reread, connection, BytesInv
<1>6. CASE UNCHANGED <<wire, chain>>
  BY <1>6 DEF ChainInv
<1>7. QED
  BY <1>2, <1>4, <1>5, <1>6
     DEF Next, vars, reader, connection, TakeJob, Processed, Peek

LEMMA ChainsHold == Spec => []ChainInv
<1>1. Init => ChainInv
  <2>1. Init => wire = <<>>
    BY DEF Init
  <2>2. QED
    BY <2>1 DEF ChainInv
<1>2. BytesInv /\ ChainInv /\ [Next]_vars => ChainInv'
  BY LayoutsDoAgree, ChainStep
<1>3. QED
  BY <1>1, <1>2, LayoutsDoAgree, BytesHold, PTL DEF Spec

(* What is handed on is unchanged or comes from the oldest packet.         *)
LEMMA HandsOnTheOldest ==
  ASSUME BytesInv, ChainInv, [Next]_vars
  PROVE  \/ UNCHANGED <<chain, handed>>
         \/ \E p \in Packets :
              /\ p.chain = chain /\ chain' = chain /\ WireSize[p] \in Nat
              /\ kept' = IF Keeps[p] THEN kept \cup {p.type} ELSE kept
              /\ torn' = IF Readable(p) /\ Torn[p] THEN p.type ELSE "none"
              /\ \E size \in Relayed[p] :
                   stretched' = IF Readable(p) /\ size > WireSize[p] THEN p.type
                                                                     ELSE "none"
<1>1. ASSUME NEW length \in Nat, ReadCallback(length), length <= Bytes(wire)
      PROVE  \/ UNCHANGED handed
             \/ length > 0 /\ Parse(length)
  BY <1>1 DEF ReadCallback, Await, Kick, reader
<1>2. ASSUME NEW length \in Nat, length > 0, length <= Bytes(wire), Parse(length)
      PROVE  \E p \in Packets :
              /\ p.chain = chain /\ WireSize[p] \in Nat
              /\ kept' = IF Keeps[p] THEN kept \cup {p.type} ELSE kept
              /\ torn' = IF Readable(p) /\ Torn[p] THEN p.type ELSE "none"
              /\ \E size \in Relayed[p] :
                   stretched' = IF Readable(p) /\ size > WireSize[p] THEN p.type
                                                                     ELSE "none"
  <2>1. wire # <<>> /\ Head(wire) \in Packets
    BY <1>2, LayoutsDoAgree, BytesOnWire
  <2>2. Head(wire).chain = chain /\ WireSize[Head(wire)] \in Nat
    BY <2>1, LayoutsDoAgree DEF BytesInv, ChainInv, LayoutsAgree, Agrees
  <2>3. QED
    BY <1>2, <2>1, <2>2 DEF Parse
<1>3. ASSUME NEW n \in {1, OnTheWay}, Arrive(n)
      PROVE  /\ chain' = chain
             /\ \/ UNCHANGED handed
                \/ \E length \in Nat : length > 0 /\ length <= Bytes(wire) /\ Parse(length)
  <2>1. input + n \in Nat /\ input + n <= Bytes(wire)
    BY <1>3, BytesAreNat, LayoutsDoAgree, StillToCome DEF Arrive, BytesInv
  <2>2. QED
    BY <1>1, <1>3, <2>1 DEF Arrive, connection, reader
<1>4. ASSUME NEW w \in Worker, Reread(w)
      PROVE  /\ chain' = chain
             /\ \/ UNCHANGED handed
                \/ \E length \in Nat : length > 0 /\ length <= Bytes(wire) /\ Parse(length)
  BY <1>1, <1>4 DEF Reread, connection, BytesInv
<1>5. ASSUME UNCHANGED vars \/ (\E p \in Packets : WritePacket(p))
             \/ \E w \in Worker : TakeJob(w) \/ Processed(w) \/ Peek(w)
      PROVE  UNCHANGED <<chain, handed>>
  BY <1>5 DEF vars, reader, connection, WritePacket, TakeJob, Processed, Peek
<1>6. QED
  <2>1. CASE \E n \in {1, OnTheWay} : Arrive(n)
    BY <1>2, <1>3, <2>1
  <2>2. CASE \E w \in Worker : Reread(w)
    BY <1>2, <1>4, <2>2
  <2>3. QED
    BY <1>5, <2>1, <2>2 DEF Next

(* Members get what was read.                                              *)

LEMMA RequestsAreStored ==
  ASSUME NEW type \in DOMAIN Write["Request"] \ Apart["Request"],
         type \notin {"PlayerBlockPlacement", "Animation", "EntityAction", "EntityEffect",
                      "RemoveEntityEffect", "UpdateSign"}
  PROVE  StoredExactly("Request", type)
<1> USE DEF StoredExactly, Assigned, AssignedDigging, MemberWidth, StoreWidth, Width
<1>1. CASE type \in DOMAIN WriteRequestPlayer
  <2>1. /\ Structs["Request"][type] = RequestStructs[type]
        /\ Read["Request"][type] = ReadRequestPlayer[type]
    BY <1>1, CasesRequestPlayer
       DEF Structs, ++, RequestStructs, WriteRequestPlayer, ReadRequestPlayer
  <2>2. CASE type \in {"KeepAlive", "Login", "Handshake", "Chat", "UseEntity"}
    BY <2>1, <2>2 DEF RequestStructs, ReadRequestPlayer
  <2>3. CASE type \in {"Respawn", "OnGround", "PlayerPosition", "PlayerLook", "PlayerMoveLook"}
    BY <2>1, <2>3 DEF RequestStructs, ReadRequestPlayer
  <2>4. QED
    BY <1>1, <2>2, <2>3 DEF WriteRequestPlayer
<1>2. CASE type \in DOMAIN WriteRequestAction
  <2>1. type \notin DOMAIN RequestStructs
    BY <1>2 DEF RequestStructs, WriteRequestAction
  <2>2. /\ Structs["Request"][type] = RequestActionStructs[type]
        /\ Read["Request"][type] = ReadRequestAction[type]
    BY <1>2, <2>1, CasesRequestAction
       DEF Structs, ++, RequestActionStructs, WriteRequestAction, ReadRequestAction
  <2>3. QED
    BY <1>2, <2>2 DEF RequestActionStructs, WriteRequestAction, ReadRequestAction
<1>3. CASE type \in DOMAIN WriteRequestWindow
  <2>1. type \notin DOMAIN RequestStructs \cup DOMAIN RequestActionStructs
    BY <1>3 DEF RequestStructs, RequestActionStructs, WriteRequestWindow
  <2>2. /\ Structs["Request"][type] = RequestWindowStructs[type]
        /\ Read["Request"][type] = ReadRequestWindow[type]
    BY <1>3, <2>1, CasesRequestWindow
       DEF Structs, ++, RequestWindowStructs, WriteRequestWindow, ReadRequestWindow
  <2>3. CASE type = "ListPing"
    <3>1. RequestWindowStructs[type] = <<>>
      BY <2>3 DEF RequestWindowStructs
    <3>2. QED
      BY <2>2, <3>1
  <2>4. CASE type # "ListPing"
    BY <1>3, <2>2, <2>4 DEF RequestWindowStructs, WriteRequestWindow, ReadRequestWindow
  <2>5. QED
    BY <2>3, <2>4
<1>4. QED
  BY <1>1, <1>2, <1>3 DEF Write, ++

LEMMA ResponsesAreStored ==
  ASSUME NEW type \in DOMAIN Write["Response"] \ Apart["Response"],
         type \notin {"Animation", "SpawnObject", "SpawnMob", "EntityStatus",
                      "EntityEffect", "RemoveEntityEffect", "SetSlot", "WindowItems",
                      "UpdateSign"}
  PROVE  StoredExactly("Response", type)
<1> USE DEF StoredExactly, Assigned, AssignedDigging, MemberWidth, StoreWidth, Width, Apart
<1>1. CASE type \in DOMAIN WriteResponsePlayer
  <2>1. /\ Structs["Response"][type] = ResponsePlayerStructs[type]
        /\ Read["Response"][type] = ReadResponsePlayer[type]
    BY <1>1, CasesResponsePlayer
       DEF Structs, ++, ResponsePlayerStructs, WriteResponsePlayer, ReadResponsePlayer
  <2>2. CASE type \in {"KeepAlive", "Login", "Handshake", "Chat"}
    BY <2>1, <2>2 DEF ResponsePlayerStructs, ReadResponsePlayer
  <2>3. CASE type \in {"TimeUpdate", "EntityEquipment", "SpawnPosition", "UpdateHealth"}
    BY <2>1, <2>3 DEF ResponsePlayerStructs, ReadResponsePlayer
  <2>4. CASE type \in {"Respawn", "UseBed"}
    BY <2>1, <2>4 DEF ResponsePlayerStructs, ReadResponsePlayer
  <2>5. CASE type = "PlayerMoveLook"
    BY <2>1, <2>5 DEF ResponsePlayerStructs, ReadResponsePlayer
  <2>6. QED
    BY <1>1, <2>2, <2>3, <2>4, <2>5 DEF WriteResponsePlayer
<1>2. CASE type \in DOMAIN WriteResponseSpawn
  <2>1. type \notin DOMAIN ResponsePlayerStructs
    BY <1>2 DEF ResponsePlayerStructs,
       WriteResponseSpawn
  <2>2. /\ Structs["Response"][type] = ResponseSpawnStructs[type]
        /\ Read["Response"][type] = ReadResponseSpawn[type]
    BY <1>2, <2>1, CasesResponseSpawn
       DEF Structs, ++, ResponseSpawnStructs, WriteResponseSpawn, ReadResponseSpawn
  <2>3. QED
    BY <1>2, <2>2 DEF ResponseSpawnStructs, WriteResponseSpawn, ReadResponseSpawn
<1>3. CASE type \in DOMAIN WriteResponseEntity
  <2>1. type \notin DOMAIN ResponsePlayerStructs \cup DOMAIN ResponseSpawnStructs
    BY <1>3 DEF ResponsePlayerStructs, ResponseSpawnStructs,
       WriteResponseEntity
  <2>2. /\ Structs["Response"][type] = ResponseEntityStructs[type]
        /\ Read["Response"][type] = ReadResponseEntity[type]
    BY <1>3, <2>1, CasesResponseEntity
       DEF Structs, ++, ResponseEntityStructs, WriteResponseEntity, ReadResponseEntity
  <2>3. QED
    BY <1>3, <2>2 DEF ResponseEntityStructs, WriteResponseEntity, ReadResponseEntity
<1>4. CASE type \in DOMAIN WriteResponseWorld
  <2>1. type \notin DOMAIN ResponsePlayerStructs \cup DOMAIN ResponseSpawnStructs
                   \cup DOMAIN ResponseEntityStructs
    BY <1>4 DEF ResponsePlayerStructs, ResponseSpawnStructs, ResponseEntityStructs,
       WriteResponseWorld
  <2>2. /\ Structs["Response"][type] = ResponseWorldStructs[type]
        /\ Read["Response"][type] = ReadResponseWorld[type]
    BY <1>4, <2>1, CasesResponseWorld
       DEF Structs, ++, ResponseWorldStructs, WriteResponseWorld, ReadResponseWorld
  <2>3. QED
    BY <1>4, <2>2 DEF ResponseWorldStructs, WriteResponseWorld, ReadResponseWorld
<1>5. CASE type \in DOMAIN WriteResponseWindow
  <2>1. type \notin DOMAIN ResponsePlayerStructs \cup DOMAIN ResponseSpawnStructs
                   \cup DOMAIN ResponseEntityStructs \cup DOMAIN ResponseWorldStructs
    BY <1>5 DEF ResponsePlayerStructs, ResponseSpawnStructs, ResponseEntityStructs, ResponseWorldStructs,
       WriteResponseWindow
  <2>2. /\ Structs["Response"][type] = ResponseWindowStructs[type]
        /\ Read["Response"][type] = ReadResponseWindow[type]
    BY <1>5, <2>1, CasesResponseWindow
       DEF Structs, ++, ResponseWindowStructs, WriteResponseWindow, ReadResponseWindow
  <2>3. QED
    BY <1>5, <2>2 DEF ResponseWindowStructs, WriteResponseWindow, ReadResponseWindow
<1>6. QED
  BY <1>1, <1>2, <1>3, <1>4, <1>5 DEF Write, ++

(* The structure a handler gets holds what was on the wire (Packet.h:928,  *)
(* Buffer.c:215, Packet.c:408), for every packet but those of the types it *)
(* names, however the bytes arrive.                                        *)
THEOREM StructuresHoldPackets == Spec => []StructsHoldThePacket
<1>1. ASSUME NEW p \in Packets, Torn[p]
      PROVE  p.type \in {"PlayerBlockPlacement", "Animation", "EntityAction", "EntityEffect",
                         "RemoveEntityEffect", "UpdateSign", "SpawnObject", "SpawnMob",
                         "EntityStatus", "SetSlot", "WindowItems"}
  <2>1. /\ p.chain \in {"Request", "Response"}
        /\ p.type \in DOMAIN Write[p.chain] \ Apart[p.chain]
    BY FramingAssumption DEF IsWritten
  <2>2. ~StoredExactly(p.chain, p.type) \/ ~NothingUnset(p)
    BY <1>1 DEF Torn
  <2>3. ~NothingUnset(p) => p.type \in {"SetSlot", "SpawnObject", "WindowItems"}
    BY DEF NothingUnset
  <2>4. QED
    BY <2>1, <2>2, <2>3, RequestsAreStored, ResponsesAreStored
<1>2. Init => StructsHoldThePacket
  BY DEF Init, StructsHoldThePacket
<1>3. BytesInv /\ ChainInv /\ StructsHoldThePacket /\ [Next]_vars => StructsHoldThePacket'
  BY <1>1, HandsOnTheOldest DEF StructsHoldThePacket, handed
<1>4. QED
  BY <1>2, <1>3, ChainsHold, LayoutsDoAgree, BytesHold, PTL DEF Spec

(* The proxy passes packets on as long as they came (Packet.c:1209, 2133), *)
(* but for windows, however the bytes arrive.                              *)
THEOREM PacketsAreRelayedInStep == Spec => []RelayedInStep
<1>1. ASSUME NEW p \in Packets, WireSize[p] \in Nat, NEW size \in Relayed[p],
             size > WireSize[p]
      PROVE  p.type = "WindowItems"
  <2>1. SUFFICES ASSUME p.type # "WindowItems" PROVE size = WireSize[p]
    BY <1>1
  <2>2. ReadBack(p) = {p.parts}
    BY <2>1 DEF ReadBack
  <2>3. CASE p.chain = "Response" /\ p.type # "Disconnect"
    <3>1. Relayed[p] = {1 + FormatSize(Write[p.chain][p.type], parts) : parts \in {p.parts}}
      BY <2>2, <2>3 DEF Relayed
    <3>2. QED
      BY <3>1 DEF WireSize
  <2>4. CASE ~(p.chain = "Response" /\ p.type # "Disconnect")
    BY <2>4 DEF Relayed
  <2>5. QED
    BY <2>3, <2>4
<1>2. Init => RelayedInStep
  BY DEF Init, RelayedInStep
<1>3. BytesInv /\ ChainInv /\ RelayedInStep /\ [Next]_vars => RelayedInStep'
  BY <1>1, HandsOnTheOldest DEF RelayedInStep, handed
<1>4. QED
  BY <1>2, <1>3, ChainsHold, LayoutsDoAgree, BytesHold, PTL DEF Spec

(* What reading allocates is what the proxy frees.                         *)

Held == {"U", "S", "M", "bytes", "text", "offsets", "slots"}

HoldsNone(format) ==
  /\ Len(format) \in Nat /\ DOMAIN format = 1..Len(format)
  /\ \A k \in DOMAIN format : format[k] \notin Held \cup {"blocks"}

HoldsOne(format) ==
  /\ Len(format) \in Nat /\ DOMAIN format = 1..Len(format)
  /\ \E i \in DOMAIN format :
       /\ format[i] \in Held
       /\ \A k \in DOMAIN format \ {i} : format[k] \notin Held \cup {"blocks"}

LEMMA AllocatedIs ==
  ASSUME NEW p, NEW format, Read[p.chain][p.type] = format
  PROVE  /\ HoldsNone(format) => Allocated(p) = 0
         /\ HoldsOne(format) => Allocated(p) = 1
<1> DEFINE s == [k \in DOMAIN format |->
                   IF format[k] \in Held THEN 1 ELSE IF format[k] = "blocks" THEN 3 ELSE 0]
<1>1. Allocated(p) = Total(s)
  BY DEF Allocated, Held
<1>2. ASSUME HoldsNone(format) PROVE Total(s) = 0
  <2> DEFINE f == [k \in 0..Len(format) |-> 0]
  <2>1. Len(s) = Len(format) /\ Len(s) \in Nat
    BY <1>2 DEF HoldsNone
  <2>2. AddsUp(s, f)
    BY <1>2, <2>1 DEF HoldsNone, AddsUp
  <2>3. f[Len(s)] = 0
    BY <2>1
  <2> HIDE DEF s, f
  <2>4. QED
    BY <2>1, <2>2, <2>3, TotalIs
<1>3. ASSUME HoldsOne(format) PROVE Total(s) = 1
  <2>1. PICK i \in DOMAIN format :
          /\ format[i] \in Held
          /\ \A k \in DOMAIN format \ {i} : format[k] \notin Held \cup {"blocks"}
    BY <1>3 DEF HoldsOne
  <2> DEFINE f == [k \in 0..Len(format) |-> IF k < i THEN 0 ELSE 1]
  <2>2. Len(s) = Len(format) /\ Len(s) \in Nat /\ i \in 1..Len(s)
    BY <1>3 DEF HoldsOne
  <2>3. \A k \in 1..Len(s) : s[k] = IF k = i THEN 1 ELSE 0
    BY <1>3, <2>1, <2>2 DEF HoldsOne
  <2>4. AddsUp(s, f)
    <3> HIDE DEF s
    <3>1. QED
      BY <2>2, <2>3 DEF AddsUp
  <2>5. f[Len(s)] = 1
    BY <2>2
  <2> HIDE DEF s, f
  <2>6. QED
    BY <2>2, <2>4, <2>5, TotalIs
<1>4. QED
  BY <1>1, <1>2, <1>3

LEMMA ResponsesAreFreed ==
  ASSUME NEW type \in DOMAIN Write["Response"] \ Apart["Response"],
         type \notin {"UpdateSign", "PlayerListItem"}
  PROVE  LET format == Read["Response"][type] IN
         IF type \in DOMAIN FreedOf THEN HoldsOne(format) /\ FreedOf[type] = 1
                                    ELSE HoldsNone(format)
<1> USE DEF HoldsOne, HoldsNone, Held, FreedOf, Apart
<1>1. CASE type \in DOMAIN WriteResponsePlayer
  <2>1. Read["Response"][type] = ReadResponsePlayer[type]
    BY <1>1, CasesResponsePlayer DEF WriteResponsePlayer, ReadResponsePlayer
  <2>2. CASE type \notin DOMAIN FreedOf
    <3> DEFINE format == ReadResponsePlayer[type]
    <3>1. \A k \in DOMAIN format : format[k] \notin Held \cup {"blocks"}
      BY <1>1, <2>2 DEF WriteResponsePlayer, ReadResponsePlayer
    <3>2. Len(format) \in Nat /\ DOMAIN format = 1..Len(format)
      BY <1>1, <2>2 DEF WriteResponsePlayer, ReadResponsePlayer
    <3> HIDE DEF format
    <3>3. HoldsNone(format)
      BY <3>1, <3>2
    <3>4. QED
      BY <2>1, <2>2, <3>3 DEF format
  <2>3. CASE type = "Handshake"
    <3> DEFINE format == <<"U">>
    <3>1. Read["Response"][type] = format
      BY <2>1, <2>3 DEF ReadResponsePlayer
    <3>2. /\ 1 \in DOMAIN format /\ format[1] \in Held
          /\ \A k \in DOMAIN format \ {1} : format[k] \notin Held \cup {"blocks"}
          /\ Len(format) \in Nat /\ DOMAIN format = 1..Len(format)
      OBVIOUS
    <3> HIDE DEF format
    <3>3. QED
      BY <2>3, <3>1, <3>2
  <2>4. CASE type = "Chat"
    <3> DEFINE format == <<"U">>
    <3>1. Read["Response"][type] = format
      BY <2>1, <2>4 DEF ReadResponsePlayer
    <3>2. /\ 1 \in DOMAIN format /\ format[1] \in Held
          /\ \A k \in DOMAIN format \ {1} : format[k] \notin Held \cup {"blocks"}
          /\ Len(format) \in Nat /\ DOMAIN format = 1..Len(format)
      OBVIOUS
    <3> HIDE DEF format
    <3>3. QED
      BY <2>4, <3>1, <3>2
  <2>5. QED
    BY <1>1, <2>2, <2>3, <2>4 DEF WriteResponsePlayer
<1>2. CASE type \in DOMAIN WriteResponseSpawn
  <2>1. Read["Response"][type] = ReadResponseSpawn[type]
    BY <1>2, CasesResponseSpawn DEF WriteResponseSpawn, ReadResponseSpawn
  <2>2. CASE type \notin DOMAIN FreedOf
    <3> DEFINE format == ReadResponseSpawn[type]
    <3>1. \A k \in DOMAIN format : format[k] \notin Held \cup {"blocks"}
      BY <1>2, <2>2 DEF WriteResponseSpawn, ReadResponseSpawn
    <3>2. Len(format) \in Nat /\ DOMAIN format = 1..Len(format)
      BY <1>2, <2>2 DEF WriteResponseSpawn, ReadResponseSpawn
    <3> HIDE DEF format
    <3>3. HoldsNone(format)
      BY <3>1, <3>2
    <3>4. QED
      BY <2>1, <2>2, <3>3 DEF format
  <2>3. CASE type = "NamedEntitySpawn"
    <3> DEFINE format == <<"i", "U", "i", "i", "i", "b", "b", "s">>
    <3>1. Read["Response"][type] = format
      BY <2>1, <2>3 DEF ReadResponseSpawn
    <3>2. /\ 2 \in DOMAIN format /\ format[2] \in Held
          /\ \A k \in DOMAIN format \ {2} : format[k] \notin Held \cup {"blocks"}
          /\ Len(format) \in Nat /\ DOMAIN format = 1..Len(format)
      OBVIOUS
    <3> HIDE DEF format
    <3>3. QED
      BY <2>3, <3>1, <3>2
  <2>4. CASE type = "SpawnMob"
    <3> DEFINE format == <<"i", "b", "i", "i", "i", "b", "b", "M">>
    <3>1. Read["Response"][type] = format
      BY <2>1, <2>4 DEF ReadResponseSpawn
    <3>2. /\ 8 \in DOMAIN format /\ format[8] \in Held
          /\ \A k \in DOMAIN format \ {8} : format[k] \notin Held \cup {"blocks"}
          /\ Len(format) \in Nat /\ DOMAIN format = 1..Len(format)
      OBVIOUS
    <3> HIDE DEF format
    <3>3. QED
      BY <2>4, <3>1, <3>2
  <2>5. QED
    BY <1>2, <2>2, <2>3, <2>4 DEF WriteResponseSpawn
<1>3. CASE type \in DOMAIN WriteResponseEntity
  <2>1. Read["Response"][type] = ReadResponseEntity[type]
    BY <1>3, CasesResponseEntity DEF WriteResponseEntity, ReadResponseEntity
  <2>2. CASE type \notin DOMAIN FreedOf
    <3> DEFINE format == ReadResponseEntity[type]
    <3>1. \A k \in DOMAIN format : format[k] \notin Held \cup {"blocks"}
      BY <1>3, <2>2 DEF WriteResponseEntity, ReadResponseEntity
    <3>2. Len(format) \in Nat /\ DOMAIN format = 1..Len(format)
      BY <1>3, <2>2 DEF WriteResponseEntity, ReadResponseEntity
    <3> HIDE DEF format
    <3>3. HoldsNone(format)
      BY <3>1, <3>2
    <3>4. QED
      BY <2>1, <2>2, <3>3 DEF format
  <2>3. CASE type = "EntityMetadata"
    <3> DEFINE format == <<"i", "M">>
    <3>1. Read["Response"][type] = format
      BY <2>1, <2>3 DEF ReadResponseEntity
    <3>2. /\ 2 \in DOMAIN format /\ format[2] \in Held
          /\ \A k \in DOMAIN format \ {2} : format[k] \notin Held \cup {"blocks"}
          /\ Len(format) \in Nat /\ DOMAIN format = 1..Len(format)
      OBVIOUS
    <3> HIDE DEF format
    <3>3. QED
      BY <2>3, <3>1, <3>2
  <2>4. QED
    BY <1>3, <2>2, <2>3 DEF WriteResponseEntity
<1>4. CASE type \in DOMAIN WriteResponseWorld
  <2>1. Read["Response"][type] = ReadResponseWorld[type]
    BY <1>4, CasesResponseWorld DEF WriteResponseWorld, ReadResponseWorld
  <2>2. CASE type \notin DOMAIN FreedOf
    <3> DEFINE format == ReadResponseWorld[type]
    <3>1. \A k \in DOMAIN format : format[k] \notin Held \cup {"blocks"}
      BY <1>4, <2>2 DEF WriteResponseWorld, ReadResponseWorld
    <3>2. Len(format) \in Nat /\ DOMAIN format = 1..Len(format)
      BY <1>4, <2>2 DEF WriteResponseWorld, ReadResponseWorld
    <3> HIDE DEF format
    <3>3. HoldsNone(format)
      BY <3>1, <3>2
    <3>4. QED
      BY <2>1, <2>2, <3>3 DEF format
  <2>3. CASE type = "MapChunk"
    <3> DEFINE format == <<"i", "s", "i", "b", "b", "b", "i", "bytes">>
    <3>1. Read["Response"][type] = format
      BY <2>1, <2>3 DEF ReadResponseWorld
    <3>2. /\ 8 \in DOMAIN format /\ format[8] \in Held
          /\ \A k \in DOMAIN format \ {8} : format[k] \notin Held \cup {"blocks"}
          /\ Len(format) \in Nat /\ DOMAIN format = 1..Len(format)
      OBVIOUS
    <3> HIDE DEF format
    <3>3. QED
      BY <2>3, <3>1, <3>2
  <2>4. CASE type = "Explosion"
    <3> DEFINE format == <<"d", "d", "d", "f", "i", "offsets">>
    <3>1. Read["Response"][type] = format
      BY <2>1, <2>4 DEF ReadResponseWorld
    <3>2. /\ 6 \in DOMAIN format /\ format[6] \in Held
          /\ \A k \in DOMAIN format \ {6} : format[k] \notin Held \cup {"blocks"}
          /\ Len(format) \in Nat /\ DOMAIN format = 1..Len(format)
      OBVIOUS
    <3> HIDE DEF format
    <3>3. QED
      BY <2>4, <3>1, <3>2
  <2>5. QED
    BY <1>4, <2>2, <2>3, <2>4 DEF WriteResponseWorld
<1>5. CASE type \in DOMAIN WriteResponseWindow
  <2>1. Read["Response"][type] = ReadResponseWindow[type]
    BY <1>5, CasesResponseWindow DEF WriteResponseWindow, ReadResponseWindow
  <2>2. CASE type \notin DOMAIN FreedOf
    <3> DEFINE format == ReadResponseWindow[type]
    <3>1. \A k \in DOMAIN format : format[k] \notin Held \cup {"blocks"}
      BY <1>5, <2>2 DEF WriteResponseWindow, ReadResponseWindow
    <3>2. Len(format) \in Nat /\ DOMAIN format = 1..Len(format)
      BY <1>5, <2>2 DEF WriteResponseWindow, ReadResponseWindow
    <3> HIDE DEF format
    <3>3. HoldsNone(format)
      BY <3>1, <3>2
    <3>4. QED
      BY <2>1, <2>2, <3>3 DEF format
  <2>3. CASE type = "WindowItems"
    <3> DEFINE format == <<"b", "s", "slots">>
    <3>1. Read["Response"][type] = format
      BY <2>1, <2>3 DEF ReadResponseWindow
    <3>2. /\ 3 \in DOMAIN format /\ format[3] \in Held
          /\ \A k \in DOMAIN format \ {3} : format[k] \notin Held \cup {"blocks"}
          /\ Len(format) \in Nat /\ DOMAIN format = 1..Len(format)
      OBVIOUS
    <3> HIDE DEF format
    <3>3. QED
      BY <2>3, <3>1, <3>2
  <2>4. CASE type = "Disconnect"
    <3> DEFINE format == <<"U">>
    <3>1. Read["Response"][type] = format
      BY <2>1, <2>4 DEF ReadResponseWindow
    <3>2. /\ 1 \in DOMAIN format /\ format[1] \in Held
          /\ \A k \in DOMAIN format \ {1} : format[k] \notin Held \cup {"blocks"}
          /\ Len(format) \in Nat /\ DOMAIN format = 1..Len(format)
      OBVIOUS
    <3> HIDE DEF format
    <3>3. QED
      BY <2>4, <3>1, <3>2
  <2>5. QED
    BY <1>5, <2>2, <2>3, <2>4 DEF WriteResponseWindow
<1>6. QED
  BY <1>1, <1>2, <1>3, <1>4, <1>5 DEF Write, ++

(* SV_DestroyPacketData frees what SV_GetPacketDataFromBuffer allocated    *)
(* for every packet the proxy forwards, but for the two types it has no    *)
(* case for (Packet.c), however the bytes arrive.                          *)
THEOREM ForwardedIsFreed == Spec => []AllFreed
<1>1. ASSUME NEW p \in Packets, p.chain = "Response", Keeps[p]
      PROVE  p.type \in {"UpdateSign", "PlayerListItem"}
  <2>1. p.type \in DOMAIN Write["Response"] \ Apart["Response"]
    BY <1>1, FramingAssumption DEF IsWritten
  <2>2. Allocated(p) # Freed(p)
    BY <1>1 DEF Keeps
  <2>3. QED
    BY <1>1, <2>1, <2>2, ResponsesAreFreed, AllocatedIs DEF Freed
<1>2. Init => AllFreed
  BY DEF Init, AllFreed
<1>3. BytesInv /\ ChainInv /\ AllFreed /\ [Next]_vars => AllFreed'
  BY <1>1, HandsOnTheOldest DEF AllFreed, handed
<1>4. QED
  BY <1>2, <1>3, ChainsHold, LayoutsDoAgree, BytesHold, PTL DEF Spec
=============================================================================
