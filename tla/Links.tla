--------------------------------- MODULE Links ---------------------------------
(***************************************************************************)
(* Items on the heap that are linked from a first one: what src/List.c     *)
(* finds when it walks along the next pointers, and the pointers that make *)
(* a sequence of items. The prev pointers are left out: no caller walks    *)
(* backwards.                                                              *)
(***************************************************************************)
EXTENDS Integers, Sequences, FiniteSets, SequencesExt

CONSTANTS
    Node,       \* addresses malloc may return, a bound on the items alive
    Null

ASSUME NodeAssumption == IsFiniteSet(Node) /\ Null \notin Node

\* The items from the first on as they are linked, as many as can be told apart.
Following(first, links) ==
    LET at[i \in 0..Cardinality(Node)] ==
            IF i = 0 THEN first
            ELSE IF at[i - 1] = Null THEN Null ELSE links[at[i - 1]]
        size == Cardinality({i \in 0..(Cardinality(Node) - 1) : at[i] # Null})
    IN [i \in 1..size |-> at[i - 1]]

\* The links of the items of s, one after the other.
Linked(s) ==
    [n \in Node |-> LET i == SelectInSeq(s, LAMBDA m : m = n) IN
                    IF i \in 1..(Len(s) - 1) THEN s[i + 1] ELSE Null]

FirstOf(s) == IF s = <<>> THEN Null ELSE Head(s)
==============================================================================
