--------------------------------- MODULE KHash ---------------------------------
(***************************************************************************)
(* The open addressing hash table of klib/khash.h, which CDHash and CDMap  *)
(* wrap, as operators on the structure: kh_get, kh_put, kh_resize, kh_del  *)
(* and kh_clear. The number of buckets is 0 or a power of two, a flag says *)
(* of every bucket whether it is empty, full or deleted, and a key is      *)
(* looked for in an order of its own that visits every bucket.             *)
(***************************************************************************)
EXTENDS Integers, Sequences, FiniteSets, FiniteSetsExt, Bitwise

CONSTANT HashOf     \* the hash value of every key, of which the low bits are kept

\* A table: the members of kh_cdHash_t. A bucket that is not full has no contents here;
\* the code leaves the old ones there, and looks at the flag first.
NoEntry == [key |-> "none", value |-> "none"]

kh_init == [n_buckets |-> 0, size |-> 0, n_occupied |-> 0, upper_bound |-> 0,
            flags |-> <<>>, entries |-> <<>>]

Buckets(h) == 0..(h.n_buckets - 1)

kh_exist(h, i) == h.flags[i] = "full"

\* 77 of 100 buckets, rounded.
UpperBound(n) == (77 * n + 50) \div 100

------------------------------------------------------------------------------
(* Probing *)

\* __ac_inc: odd, so that it reaches every bucket.
Mixed(hash) == shiftR(hash, 3) ^^ (8 * hash)
Inc == [key \in DOMAIN HashOf |-> Mixed(HashOf[key]) | 1]

\* The bucket that is looked at after k others.
Probe(key, n, k) == (HashOf[key] + k * Inc[key]) % n

\* The search stops at an empty bucket and at the key. The variant stops at a deleted one.
StopsAtDeleted(h, key, i) == h.flags[i] # "full" \/ h.entries[i].key = key
StopsAt(h, key, i) == h.flags[i] = "empty" \/ (kh_exist(h, i) /\ h.entries[i].key = key)

\* How many buckets are passed; all of them, when nothing stops it.
Passed(h, key) ==
    LET stops == {k \in Buckets(h) : StopsAt(h, key, Probe(key, h.n_buckets, k))} IN
    IF stops = {} THEN h.n_buckets ELSE Min(stops)

\* The bucket of the key, or the number of buckets.
kh_get(h, key) ==
    LET k == Passed(h, key)  i == Probe(key, h.n_buckets, k) IN
    IF h.n_buckets # 0 /\ k # h.n_buckets /\ kh_exist(h, i) THEN i ELSE h.n_buckets

------------------------------------------------------------------------------
(* Growing and cleaning *)

\* The power of two that is at least n, and at least 4.
RoundUp(n) == CHOOSE p \in {4, 8, 16, 32, 64} : p >= n /\ \A q \in {4, 8, 16, 32} : q < p => q < n

\* One entry goes to its place among n buckets; one of the old table that is in its way
\* goes on to its own place in turn.
RECURSIVE Settle(_, _, _)
Settle(h, n, entry) ==
    LET k == Min({k \in 0..(n - 1) : h.new[Probe(entry.key, n, k)] = "empty"})
        i == Probe(entry.key, n, k)
        placed == [h EXCEPT !.new[i] = "full", !.entries[i] = entry]
    IN  IF i \in DOMAIN h.flags /\ kh_exist(h, i)
        THEN Settle([placed EXCEPT !.flags[i] = "deleted"], n, h.entries[i])
        ELSE placed

RECURSIVE Rehash(_, _, _)
Rehash(h, n, j) ==
    IF j \notin DOMAIN h.flags THEN h
    ELSE IF ~kh_exist(h, j) THEN Rehash(h, n, j + 1)
    ELSE Rehash(Settle([h EXCEPT !.flags[j] = "deleted"], n, h.entries[j]), n, j + 1)

\* The new flags replace the old ones, so that no bucket counts as deleted. Nothing in the
\* repository asks for fewer buckets than the table has.
kh_resize(h, new_n_buckets) ==
    LET n == RoundUp(new_n_buckets) IN
    IF h.size >= UpperBound(n) THEN h
    ELSE LET wide == [h EXCEPT !.entries =
                        [i \in 0..(n - 1) |-> IF i \in DOMAIN @ THEN @[i] ELSE NoEntry]]
             start == [new |-> [i \in 0..(n - 1) |-> "empty"], flags |-> wide.flags,
                       entries |-> wide.entries]
             done == Rehash(start, n, 0)
         IN  [n_buckets |-> n, size |-> h.size, n_occupied |-> h.size,
              upper_bound |-> UpperBound(n), flags |-> done.new,
              entries |-> [i \in 0..(n - 1) |->
                             IF done.new[i] = "full" THEN done.entries[i] ELSE NoEntry]]

RoomFor(h) ==
    IF h.n_occupied < h.upper_bound THEN h
    ELSE IF h.n_buckets > 2 * h.size THEN kh_resize(h, h.n_buckets - 1)
    ELSE kh_resize(h, h.n_buckets + 1)

\* A key that is not there goes to the last deleted bucket that was passed, or to the
\* empty one behind them.
PutBucket(h, key) ==
    LET last == Passed(h, key)
        deleted == {k \in 0..(last - 1) : h.flags[Probe(key, h.n_buckets, k)] = "deleted"}
        stop == Probe(key, h.n_buckets, last)
    IN  IF deleted # {} /\ (last = h.n_buckets \/ h.flags[stop] = "empty")
        THEN Probe(key, h.n_buckets, Max(deleted))
        ELSE IF last = h.n_buckets THEN last ELSE stop

\* kh_put, and the assignment to kh_value that follows it
kh_put(old, key, value) ==
    LET h == RoomFor(old)  x == PutBucket(h, key)  flag == h.flags[x] IN
    [h EXCEPT !.entries[x] = [key |-> key, value |-> value],
              !.flags[x] = "full",
              !.size = IF flag = "full" THEN @ ELSE @ + 1,
              !.n_occupied = IF flag = "empty" THEN @ + 1 ELSE @]

kh_value_set(h, i, value) == [h EXCEPT !.entries[i].value = value]

CountDown(h, x) == IF x # h.n_buckets /\ kh_exist(h, x) THEN h.size - 1 ELSE h.size

kh_del(h, x) ==
    IF x = h.n_buckets \/ ~kh_exist(h, x) THEN [h EXCEPT !.size = CountDown(h, x)]
    ELSE [h EXCEPT !.flags[x] = "deleted", !.entries[x] = NoEntry, !.size = CountDown(h, x)]

kh_clear(h) ==
    [h EXCEPT !.flags = [i \in DOMAIN @ |-> "empty"],
              !.entries = [i \in DOMAIN @ |-> NoEntry], !.size = 0, !.n_occupied = 0]

------------------------------------------------------------------------------
(* What a table stands for *)

FullBuckets(h) == {i \in Buckets(h) : kh_exist(h, i)}

Contents(h) ==
    [key \in {h.entries[i].key : i \in FullBuckets(h)} |->
        h.entries[CHOOSE i \in FullBuckets(h) : h.entries[i].key = key].value]

\* The counts are right, a key is in one bucket at most, and a bucket is empty, so that
\* every search ends.
WellFormed(h) ==
    /\ h.size = Cardinality(FullBuckets(h))
    /\ h.n_occupied = Cardinality({i \in Buckets(h) : h.flags[i] # "empty"})
    /\ \A i, j \in FullBuckets(h) : h.entries[i].key = h.entries[j].key => i = j
    /\ h.n_buckets # 0 => \E i \in Buckets(h) : h.flags[i] = "empty"
==============================================================================
