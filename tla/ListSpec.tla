------------------------------- MODULE ListSpec -------------------------------
(***************************************************************************)
(* What the callers of src/include/craftd/List.h rely on: a CDList is a    *)
(* sequence of values, and each operation of it is atomic.                 *)
(***************************************************************************)
EXTENDS Integers, Sequences, SequencesExt

CONSTANTS
    Value,  \* the pointers callers put into the list
    Rank    \* what their compare callback makes of a value

VARIABLES
    items,  \* the values from the first to the last
    result  \* the values the latest call that removes values returned

Init == items = <<>> /\ result = <<>>

Push(v) ==
    /\ items' = Append(items, v)
    /\ UNCHANGED result

\* Before the first value that does not rank lower.
Sorted(s, v) ==
    LET i == SelectInSeq(s, LAMBDA x : Rank[x] >= Rank[v]) IN
    InsertAt(s, IF i = 0 THEN Len(s) + 1 ELSE i, v)

SortedPush(v) ==
    /\ items' = Sorted(items, v)
    /\ UNCHANGED result

Shift ==
    /\ items' = IF items = <<>> THEN <<>> ELSE Tail(items)
    /\ result' = IF items = <<>> THEN <<>> ELSE <<Head(items)>>

\* The first of the values that match, or all of them; the first is returned.
DeleteFirst(matching) ==
    LET i == SelectInSeq(items, LAMBDA x : x \in matching) IN
    /\ items' = IF i = 0 THEN items ELSE RemoveAt(items, i)
    /\ result' = IF i = 0 THEN <<>> ELSE <<items[i]>>

\* What is left of a sequence without them (a recursive function, which unlike
\* SelectSeq the provers can look into).
Without(s, matching) ==
    LET kept[i \in 0..Len(s)] ==
            IF i = 0 THEN <<>>
            ELSE IF s[i] \in matching THEN kept[i - 1] ELSE Append(kept[i - 1], s[i])
    IN  kept[Len(s)]

DeleteAll(matching) ==
    LET i == SelectInSeq(items, LAMBDA x : x \in matching) IN
    /\ items' = Without(items, matching)
    /\ result' = IF i = 0 THEN <<>> ELSE <<items[i]>>

Clear ==
    /\ items' = <<>>
    /\ ToSet(result') = ToSet(items)

Resorted(s) ==
    LET placed[i \in 0..Len(s)] == IF i = 0 THEN <<>> ELSE Sorted(placed[i - 1], s[i])
    IN  placed[Len(s)]

Sort ==
    /\ items' = Resorted(items)
    /\ UNCHANGED result

Next ==
    \/ \E v \in Value : Push(v) \/ SortedPush(v)
    \/ \E matching \in SUBSET Value : DeleteFirst(matching) \/ DeleteAll(matching)
    \/ Shift
    \/ Clear
    \/ Sort

vars == <<items, result>>

Spec == Init /\ [][Next]_vars
==============================================================================
