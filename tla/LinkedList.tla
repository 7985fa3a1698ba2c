------------------------------ MODULE LinkedList ------------------------------
(***************************************************************************)
(* CDList of src/List.c: items on the heap, linked from head, with a tail  *)
(* pointer for the pushes and a cached length. Every operation runs with   *)
(* the list locked and is one action, but CD_ListClear, which measures the *)
(* list before it locks it. operations names the calls the users of one    *)
(* list make: the workers' queue and server->disconnecting only push at    *)
(* the end and take from the front; the callbacks of an event are pushed   *)
(* in order and removed; most other lists are pushed to and deleted from.  *)
(***************************************************************************)
EXTENDS Links

CONSTANTS
    Value,      \* the pointers callers put into the list
    Rank,       \* what their compare callback makes of a value: a number
    Uses        \* the sets of calls made on one list: of push, sortedpush, shift,
                \* delete, deleteall, clear and sort

VARIABLES
    operations, \* the calls made on this list
    head, tail,     \* pointers to items, Null, or dangling
    next, value,    \* the items' fields
    live,           \* the allocated items
    length, changed,\* the cached length and whether it is out of date
    room,           \* slots CD_ListClear allocated, 0 when it is not running
    result,         \* the values the latest call that removes values returned
    freedWrite,     \* a field of a freed item was written
    overrun         \* CD_ListClear wrote past the end of its array

heap == <<head, tail, next, value, live>>
faults == <<freedWrite, overrun>>
vars == <<operations, heap, length, changed, room, result, faults>>

\* What the model keeps of the fields of an item that is not allocated.
Unset == CHOOSE v \in Value : TRUE

Init ==
    /\ operations \in Uses
    /\ head = Null
    /\ tail = Null
    /\ next = [n \in Node |-> Null]
    /\ value = [n \in Node |-> Unset]
    /\ live = {}
    /\ length = 0
    /\ changed = FALSE
    /\ room = 0
    /\ result = <<>>
    /\ freedWrite = FALSE
    /\ overrun = FALSE

\* The items from the head on.
Chain == Following(head, next)

Values(s) == [i \in DOMAIN s |-> value[s[i]]]
Items == Values(Chain)

\* The sequence of values a list stands for.
Sequence == INSTANCE ListSpec WITH items <- Items

------------------------------------------------------------------------------
\* A changed list has its length counted anew when it is asked for.
Mark == changed' = TRUE /\ UNCHANGED length

\* CD_ListPush trusts the tail whenever there is a head; the variant, whenever there
\* is a tail, as if deletions kept it.
TailIsTrusted == tail # Null
HeadIsThere == head # Null

Push(v) ==
    \E n \in Node \ live :
        /\ live' = live \cup {n}
        /\ value' = [value EXCEPT ![n] = v]
        /\ tail' = n
        /\ Mark
        /\ UNCHANGED <<room, result, overrun>>
        /\ \/ /\ ~HeadIsThere
              /\ head' = n
              /\ next' = [next EXCEPT ![n] = Null]
              /\ UNCHANGED freedWrite
           \/ /\ HeadIsThere
              /\ tail \in live'
              /\ next' = [next EXCEPT ![n] = Null, ![tail] = n]
              /\ UNCHANGED <<head, freedWrite>>
           \/ /\ HeadIsThere
              /\ tail \notin live'
              /\ next' = [next EXCEPT ![n] = Null]
              /\ freedWrite' = TRUE
              /\ UNCHANGED head

\* cd_ListInsertSorted: before the first value that does not rank lower. The variant
\* keeps equal values in the order of their insertion.
SortedAfter(s, v, n) ==
    LET i == SelectInSeq(Values(s), LAMBDA x : Rank[x] > Rank[v]) IN
    InsertAt(s, IF i = 0 THEN Len(s) + 1 ELSE i, n)

Sorted(s, v, n) ==
    LET i == SelectInSeq(Values(s), LAMBDA x : Rank[x] >= Rank[v]) IN
    InsertAt(s, IF i = 0 THEN Len(s) + 1 ELSE i, n)

\* The tail moves only when the list was empty.
Insert(n, v) ==
    LET chain == Sorted(Chain, v, n)
    IN /\ live' = live \cup {n}
       /\ value' = [value EXCEPT ![n] = v]
       /\ next' = Linked(chain)
       /\ head' = Head(chain)
       /\ tail' = IF head = Null THEN n ELSE tail

SortedPush(v) ==
    /\ \E n \in Node \ live : Insert(n, v)
    /\ Mark
    /\ UNCHANGED <<room, result, faults>>

\* cd_ListDelete, once for each item but those of rest: neighbours are linked and the
\* item is freed, the tail is left alone.
Keep(rest) ==
    LET gone == ToSet(Chain) \ ToSet(rest) IN
    /\ head' = FirstOf(rest)
    /\ next' = Linked(rest)
    /\ live' = live \ gone
    /\ value' = [n \in Node |-> IF n \in gone THEN Unset ELSE value[n]]
    /\ UNCHANGED tail

\* CD_ListShift marks the length out of date even when there is nothing to take.
Shift ==
    /\ result' = IF head = Null THEN <<>> ELSE <<value[head]>>
    /\ Keep(IF head = Null THEN <<>> ELSE Tail(Chain))
    /\ Mark
    /\ UNCHANGED <<room, faults>>

\* CD_ListDelete and CD_ListDeleteIf
DeleteFirst(matching) ==
    LET i == SelectInSeq(Items, LAMBDA x : x \in matching) IN
    /\ result' = IF i = 0 THEN <<>> ELSE <<Items[i]>>
    /\ Keep(IF i = 0 THEN Chain ELSE RemoveAt(Chain, i))
    /\ changed' = (changed \/ i # 0)
    /\ UNCHANGED <<length, room, faults>>

\* CD_ListDeleteAll and CD_ListDeleteAllIf
DeleteAll(matching) ==
    LET i == SelectInSeq(Items, LAMBDA x : x \in matching) IN
    /\ result' = IF i = 0 THEN <<>> ELSE <<Items[i]>>
    /\ Keep(Sequence!Without(Chain, {n \in ToSet(Chain) : value[n] \in matching}))
    /\ changed' = (changed \/ i # 0)
    /\ UNCHANGED <<length, room, faults>>

\* CD_ListLength recounts when the list was changed.
Measured == IF changed THEN Len(Chain) ELSE length

Length ==
    /\ length' = Measured
    /\ changed' = FALSE
    /\ UNCHANGED <<heap, room, result, faults>>

\* CD_ListClear allocates its result by the length, plus one slot for the end,
ClearMeasure ==
    /\ room = 0
    /\ room' = Measured + 1
    /\ length' = Measured
    /\ changed' = FALSE
    /\ UNCHANGED <<heap, result, faults>>

\* then locks the list and fills it; equal values share a slot.
Distinct(s) ==
    LET found[i \in 0..Len(s)] ==
            IF i = 0 THEN <<>>
            ELSE IF Contains(found[i - 1], s[i]) THEN found[i - 1] ELSE Append(found[i - 1], s[i])
    IN  found[Len(s)]

ClearTake ==
    /\ room > 0
    /\ room' = 0
    /\ result' = Distinct(Items)
    /\ Keep(<<>>)
    /\ changed' = (changed \/ head # Null)
    /\ overrun' = (overrun \/ Len(result') + 1 > room)
    /\ UNCHANGED <<length, freedWrite>>

\* cd_ListSortInsert: copies are inserted in order and take their originals' place
\* here; the tail is the copy of the first.
Resorted(s) ==
    LET placed[i \in 0..Len(s)] ==
            IF i = 0 THEN <<>> ELSE Sorted(placed[i - 1], value[s[i]], s[i])
    IN  placed[Len(s)]

SortInsert ==
    LET ordered == Resorted(Chain) IN
    /\ head' = FirstOf(ordered)
    /\ next' = Linked(ordered)
    /\ tail' = head
    /\ changed' = (changed \/ head # Null)
    /\ UNCHANGED <<value, live, length, room, result, faults>>

Operation ==
    \/ \E v \in Value :
         \/ "push" \in operations /\ Push(v)
         \/ "sortedpush" \in operations /\ SortedPush(v)
    \/ \E matching \in SUBSET Value :
         \/ "delete" \in operations /\ DeleteFirst(matching)
         \/ "deleteall" \in operations /\ DeleteAll(matching)
    \/ "shift" \in operations /\ Shift
    \/ "clear" \in operations /\ (ClearMeasure \/ ClearTake)
    \/ "sort" \in operations /\ SortInsert
    \/ Length

Next == Operation /\ UNCHANGED operations

Spec == Init /\ [][Next]_vars

------------------------------------------------------------------------------
(* Properties *)

\* Two ways to use a list: push at its end and take from its front only, or never push
\* at its end.
Queue == operations \cap {"sortedpush", "delete", "deleteall", "sort"} = {}
Ordered == operations \cap {"push"} = {}

\* Whatever the calls, no freed item can be reached from the head (List.c:119-170).
\* On a list that is pushed to at its end and taken from at its front, or never pushed
\* to at its end, every allocated item can be reached, once, and no push writes through
\* the tail pointer to a freed item, although the tail dangles whenever the last one
\* was taken (List.c:313-341). A length that is not marked out of date is the number of
\* items, by whichever way they came and went (List.c:273-294).
LinksAreSound ==
    /\ ToSet(Chain) \subseteq live
    /\ ~changed => length = Len(Chain)
    /\ Queue \/ Ordered => live = ToSet(Chain) /\ Len(Chain) = Cardinality(live) /\ ~freedWrite

\* Such a list is the sequence its callers take it for.
ImplementsList == Sequence!Init /\ [][Queue \/ Ordered => Sequence!Next]_(Sequence!vars)

\* "Empty the List and return an array of the contained data" (List.h:207-211), of
\* CD_ListClear, which allocates the array before it locks the list.
ClearFits == ~overrun
==============================================================================
