------------------------------ MODULE SetAlgebra ------------------------------
(***************************************************************************)
(* The chained set of src/Set.c as the base plugin uses it, of coordinates *)
(* of chunks (SV_CompareChunkPosition). buckets is a function from indices *)
(* to chains. CD_CloneSet and the algebra store the cell of a value at the *)
(* operand's index and chain it behind the result's, which is the same     *)
(* index only if both have the same size: a function whose domain grows    *)
(* past 0..size-1 is an array written past its end.                        *)
(***************************************************************************)
EXTENDS Integers, Sequences, SequencesExt, FiniteSetsExt

CONSTANT Primes     \* the sizes a set may have: 509, 1021, 2053, ...

ASSUME PrimesAssumption ==
    /\ Primes \in Seq(Nat \ {0})
    /\ \A i, j \in 1..Len(Primes) : i < j => Primes[i] < Primes[j]

------------------------------------------------------------------------------
(* SV_HashChunkPosition: a C remainder, read back as an unsigned int *)

CRemainder(a, n) == IF a >= 0 THEN a % n ELSE -((-a) % n)

\* 2^32 modulo n, for an n whose square is an integer of TLC's.
Wrapped(n) == LET half == 65536 % n IN (half * half) % n

ChunkBuckets == 401

Bucket(size, at) ==
    LET hash == CRemainder((at[1] * 31 * 31 + at[2]) * 31, ChunkBuckets)
    IN  IF hash >= 0 THEN hash % size ELSE (Wrapped(size) + hash) % size

------------------------------------------------------------------------------
CreateSetWith(hint) ==
    LET i == Min({j \in 2..Len(Primes) : Primes[j] >= hint})
    IN  [size |-> Primes[i - 1], length |-> 0, buckets |-> [b \in 0..(Primes[i - 1] - 1) |-> <<>>]]

\* The cells in the order a loop over the buckets meets them, with their index.
Cells(s) ==
    FlattenSeq([b \in 1..s.size |->
        [i \in 1..Len(s.buckets[b - 1]) |-> [index |-> b - 1, value |-> s.buckets[b - 1][i]]]])

SetToArray(s) == [i \in 1..Len(Cells(s)) |-> Cells(s)[i].value]
At(s) == {c.value : c \in Range(Cells(s))}

SetHas(s, v) == v \in Range(s.buckets[Bucket(s.size, v)])

SetPut(s, v) ==
    IF SetHas(s, v)
    THEN s
    ELSE [s EXCEPT !.buckets[Bucket(s.size, v)] = <<v>> \o @, !.length = @ + 1]

SetDelete(s, v) ==
    IF SetHas(s, v)
    THEN [s EXCEPT !.buckets[Bucket(s.size, v)] = RemoveAt(@, SelectInSeq(@, LAMBDA w : w = v)),
                   !.length = @ - 1]
    ELSE s

------------------------------------------------------------------------------
(* CD_CloneSet and the algebra *)

\* The value of a cell of an operand, stored in the result. The variant forgets
\* the chain it joins.
CopiedAlone(result, c) ==
    [result EXCEPT
        !.buckets = [b \in DOMAIN @ \cup {c.index} |-> IF b = c.index THEN <<c.value>> ELSE @[b]],
        !.length = @ + 1]

Copied(result, c) ==
    LET chain == <<c.value>> \o result.buckets[Bucket(result.size, c.value)] IN
    [result EXCEPT
        !.buckets = [b \in DOMAIN @ \cup {c.index} |-> IF b = c.index THEN chain ELSE @[b]],
        !.length = @ + 1]

\* The values of s that are chosen are added to the result.
AddTo(result, s, chosen) ==
    LET cells == Cells(s)
        added[i \in 0..Len(cells)] ==
            IF i = 0 THEN result
            ELSE IF cells[i].value \in chosen THEN Copied(added[i - 1], cells[i]) ELSE added[i - 1]
    IN  added[Len(cells)]

CloneSet(s, hint) == AddTo(CreateSetWith(hint), s, At(s))

\* The values that are wanted are put into a set, one after the other.
PutAll(s, values, wanted) ==
    LET put[i \in 0..Len(values)] ==
            IF i = 0 THEN s
            ELSE IF values[i] \in wanted THEN SetPut(put[i - 1], values[i]) ELSE put[i - 1]
    IN  put[Len(values)]

Smaller(a, b) == IF a.size < b.size THEN a.size ELSE b.size
Larger(a, b) == IF a.size < b.size THEN b.size ELSE a.size

SetUnion(a, b) == PutAll(CloneSet(a, Larger(a, b)), SetToArray(b), At(b))

\* The shorter set is searched for in the longer.
SetIntersect(a, b) ==
    LET long  == IF a.length < b.length THEN b ELSE a
        short == IF a.length < b.length THEN a ELSE b
    IN  AddTo(CreateSetWith(Smaller(a, b)), short, {v \in At(short) : SetHas(long, v)})

\* The values of a that are not in b.
Missing(a, b) == {v \in At(a) : ~ SetHas(b, v)}

SetMinus(a, b) == AddTo(CreateSetWith(Smaller(a, b)), a, Missing(a, b))

\* First what is in b alone, then what is in a alone.
SetDifference(a, b) ==
    AddTo(AddTo(CreateSetWith(Smaller(a, b)), b, Missing(b, a)), a, Missing(a, b))

------------------------------------------------------------------------------
\* What a set promises (Set.h): its array is as long as it is big, every value
\* is found and has the length counted, and nothing lies outside.
IsSetOf(s, chunks) ==
    /\ DOMAIN s.buckets = 0..(s.size - 1)
    /\ At(s) = chunks
    /\ s.length = Cardinality(chunks)
    /\ Len(SetToArray(s)) = s.length
    /\ \A v \in At(s) : SetHas(s, v) /\ ~ SetHas(SetDelete(s, v), v)

\* Union, intersection, minus and difference give what Set.h:99-150 promises.
AlgebraOf(a, b) ==
    /\ IsSetOf(SetUnion(a, b), At(a) \cup At(b))
    /\ IsSetOf(SetIntersect(a, b), At(a) \cap At(b))
    /\ IsSetOf(SetMinus(a, b), At(a) \ At(b))
    /\ IsSetOf(SetDifference(a, b), (At(a) \ At(b)) \cup (At(b) \ At(a)))
    /\ IsSetOf(CloneSet(a, a.size), At(a))
==============================================================================
