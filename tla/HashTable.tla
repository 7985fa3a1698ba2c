------------------------------- MODULE HashTable -------------------------------
(***************************************************************************)
(* CDHash (Hash.c, Hash.h): a khash table behind a read-write lock, used   *)
(* by several threads. Every call holds the lock while it works, so it is  *)
(* one step; CD_HASH_FOREACH holds the read lock from its first iterator   *)
(* to its last and takes it again for every step; CD_HashClear looks at    *)
(* the length before it locks. Keys are copied when they come and freed    *)
(* when they go; callers see no copy but through an iterator.              *)
(***************************************************************************)
EXTENDS KHash, SequencesExt

CONSTANTS
    Key, Value,
    Thread,     \* those that loop over the table or clear it; the others make calls
    Starts      \* keys that may be in the table at first, in the order they came

VARIABLES
    raw,        \* the table
    pc,         \* where every thread is in CD_HASH_FOREACH or CD_HashClear
    it,         \* its iterator; -1 is the end
    seen,       \* what it has visited: keys, or Stray for a place behind the buckets
    room,       \* the size of the array CD_HashClear allocated
    result      \* what the latest call returned

vars == <<raw, pc, it, seen, room, result>>
iteration == <<pc, it, seen>>

End == -1
Stray == "stray"

\* What is read outside the array of the values.
Misread == -1

Filled(start) ==
    FoldLeft(LAMBDA h, key : kh_put(h, key, CHOOSE v \in Value : TRUE), kh_init, start)

Init ==
    /\ \E start \in Starts : raw = Filled(start)
    /\ pc = [t \in Thread |-> "idle"]
    /\ it = [t \in Thread |-> End]
    /\ seen = [t \in Thread |-> <<>>]
    /\ room = [t \in Thread |-> 0]
    /\ result = <<>>

\* Who is in a loop over the table holds the read lock. The variant gives it back before.
ReadersOfNothing == {}
Readers == {t \in Thread : pc[t] \in {"begin", "body", "done"}}

CanWrite == Readers = {}

At(key) ==
    LET i == kh_get(raw, key) IN IF i = raw.n_buckets THEN <<>> ELSE <<raw.entries[i].value>>

------------------------------------------------------------------------------
(* Calls *)

HashLength ==
    /\ result' = <<raw.size>>
    /\ UNCHANGED <<raw, iteration, room>>

HashHasKey(key) ==
    /\ result' = <<IF kh_get(raw, key) = raw.n_buckets THEN 0 ELSE 1>>
    /\ UNCHANGED <<raw, iteration, room>>

HashGet(key) ==
    /\ result' = At(key)
    /\ UNCHANGED <<raw, iteration, room>>

HashPut(key, value) ==
    /\ CanWrite
    /\ result' = At(key)
    /\ LET i == kh_get(raw, key) IN
       raw' = IF i # raw.n_buckets THEN kh_value_set(raw, i, value) ELSE kh_put(raw, key, value)
    /\ UNCHANGED <<iteration, room>>

\* kh_del gets the number of buckets for a key that is not there.
HashDelete(key) ==
    /\ CanWrite
    /\ result' = At(key)
    /\ raw' = kh_del(raw, kh_get(raw, key))
    /\ UNCHANGED <<iteration, room>>

\* CD_HashClear
ClearMeasure(t) ==
    /\ pc[t] = "idle"
    /\ room' = [room EXCEPT ![t] = raw.size + 1]
    /\ pc' = [pc EXCEPT ![t] = "clear"]
    /\ UNCHANGED <<raw, it, seen, result>>

ClearTake(t) ==
    /\ pc[t] = "clear" /\ CanWrite
    /\ result' = LET full == SelectSeq([k \in 1..raw.n_buckets |-> k - 1],
                                     LAMBDA i : kh_exist(raw, i)) IN
                 [k \in DOMAIN full |-> raw.entries[full[k]].value]
    /\ raw' = kh_clear(raw)
    /\ room' = [room EXCEPT ![t] = 0]
    /\ pc' = [pc EXCEPT ![t] = "idle"]
    /\ UNCHANGED <<it, seen>>

------------------------------------------------------------------------------
(* Iterators, from the last bucket to the first *)

HashNext(i) ==
    LET full == {j \in FullBuckets(raw) : j < i} IN IF full = {} THEN End ELSE Max(full)

\* The flag behind the last bucket is read: with fewer than 16 buckets it is in the same
\* word and says empty, from 16 on it is in the word behind the array.
HashBegin ==
    {HashNext(raw.n_buckets)} \cup IF raw.n_buckets < 16 THEN {} ELSE {raw.n_buckets}

HashPrevious(i) ==
    LET full == {j \in FullBuckets(raw) : j > i} IN
    IF full = {} THEN HashBegin ELSE {Min(full)}

\* Neither the first nor the last element is tested before its value is read. (A table
\* without buckets has no flags either: the code dies there, the model goes on.)
ValueAt(i) == IF i \in FullBuckets(raw) THEN raw.entries[i].value ELSE Misread

HashFirst ==
    /\ \E i \in HashBegin : result' = <<ValueAt(i)>>
    /\ UNCHANGED <<raw, iteration, room>>

HashLast ==
    /\ \E i \in HashPrevious(End) : result' = <<ValueAt(i)>>
    /\ UNCHANGED <<raw, iteration, room>>

\* CD_HASH_FOREACH: the length is looked at before the lock is taken.
ForeachLength(t) ==
    /\ pc[t] = "idle"
    /\ raw.size > 0
    /\ pc' = [pc EXCEPT ![t] = "start"]
    /\ UNCHANGED <<raw, it, seen, room, result>>

StartIterating(t) ==
    /\ pc[t] = "start"
    /\ pc' = [pc EXCEPT ![t] = "begin"]
    /\ UNCHANGED <<raw, it, seen, room, result>>

Move(t, i) ==
    /\ it' = [it EXCEPT ![t] = i]
    /\ pc' = [pc EXCEPT ![t] = IF i = End THEN "done" ELSE "body"]
    /\ UNCHANGED <<raw, room, result>>

ForeachBegin(t) ==
    /\ pc[t] = "begin"
    /\ \E i \in HashBegin : Move(t, i)
    /\ UNCHANGED seen

\* The body looks at the key and the value, and CD_HashNext goes on.
ForeachNext(t) ==
    /\ pc[t] = "body"
    /\ seen' = [seen EXCEPT ![t] =
                  Append(@, IF it[t] \in Buckets(raw) THEN raw.entries[it[t]].key ELSE Stray)]
    /\ Move(t, HashNext(it[t]))

\* CD_HASH_BREAK, and CD_HashStopIterating at the end, let go of the lock.
StopIterating(t) ==
    /\ pc[t] \in {"body", "done"}
    /\ pc' = [pc EXCEPT ![t] = "idle"]
    /\ it' = [it EXCEPT ![t] = End]
    /\ seen' = [seen EXCEPT ![t] = <<>>]
    /\ UNCHANGED <<raw, room, result>>

Next ==
    \/ HashLength \/ HashFirst \/ HashLast
    \/ \E key \in Key : HashHasKey(key) \/ HashGet(key) \/ HashDelete(key)
    \/ \E key \in Key, value \in Value : HashPut(key, value)
    \/ \E t \in Thread :
         \/ ClearMeasure(t) \/ ClearTake(t)
         \/ ForeachLength(t) \/ StartIterating(t) \/ ForeachBegin(t) \/ ForeachNext(t)
         \/ StopIterating(t)

Spec == Init /\ [][Next]_vars

------------------------------------------------------------------------------
(* Properties *)

\* A hash is the function from keys to values its callers take it for, through collisions,
\* deleted buckets, growing and cleaning (khash.h:171-271), and the table stays one: its
\* counts are right, no key is in it twice, and an empty bucket ends every search
\* (khash.h:158, 228). The first and the last element are the exception: of an empty hash
\* CD_HashFirst and CD_HashLast read outside the array, and from 16 buckets on the first
\* may be behind them as well (Hash.c:100, 295-305). They change nothing, and nothing in
\* the repository calls them.
Map == INSTANCE MapSpec WITH map <- Contents(raw)
ReadsOutside ==
    /\ raw.size = 0 \/ raw.n_buckets >= 16
    /\ result' = <<Misread>>
    /\ UNCHANGED raw
ImplementsMap == []WellFormed(raw) /\ [][Map!Next \/ ReadsOutside]_(Map!vars)

\* A loop over a hash that runs to its end has visited every entry once, whatever other
\* threads do meanwhile (Hash.h:211). From 16 buckets on, where the first iterator may be
\* behind them, it may visit that place too (Hash.c:100).
VisitsEachOnce ==
    \A t \in Thread : pc[t] = "done" =>
        LET visited == SelectSeq(seen[t], LAMBDA key : key # Stray) IN
        /\ ToSet(visited) = DOMAIN Contents(raw) /\ Len(visited) = raw.size
        /\ raw.n_buckets < 16 => visited = seen[t]

\* "it will refer to the first element" (Hash.h:84): the first iterator of a loop is at an
\* entry or at the end.
BeginIsAnElement == \A t \in Thread : it[t] = End \/ it[t] \in FullBuckets(raw)

\* "Clear" fills an array that was allocated for the length before (Hash.c:305).
ClearFits == \A t \in Thread : pc[t] = "clear" => raw.size < room[t]
==============================================================================
