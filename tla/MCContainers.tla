----------------------------- MODULE MCContainers -----------------------------
(* The two containers most of the server is kept in, on few items: LinkedList with *)
(* the calls made on three kinds of lists, and HashTable. They share nothing: a    *)
(* behaviour uses the one or the other.                                            *)
EXTENDS LinkedList, TLC

CONSTANTS n1, n2, n3, Key, Content, Thread, Starts, HashOf

TheUses == {
    \* workers->jobs and server->disconnecting
    {"push", "shift", "clear"},
    \* the callbacks of an event, and a list that may be sorted again
    {"sortedpush", "deleteall", "clear", "sort"},
    \* server->clients, the players a player sees
    {"push", "delete", "deleteall"}}

\* Two values of one rank and one of the next.
TheRank == [v \in Value |-> IF v = 3 THEN 2 ELSE 1]

\* Keys that collide in tables of 4 and of 8 buckets; from the start five keys may be
\* there that nobody removes but by clearing, so that 16 buckets are reached.
TheHashOf ==
    [a |-> 0, b |-> 20, c |-> 24, f1 |-> 8, f2 |-> 2, f3 |-> 10, f4 |-> 3, f5 |-> 16]

TheStarts == {<<>>, <<"f1", "f2", "f3", "f4", "f5">>}

VARIABLES container, raw, pc, it, seen, slots, returned

Hash == INSTANCE HashTable WITH Value <- Content, room <- slots, result <- returned

hashVars == <<raw, pc, it, seen, slots, returned>>

InitContainers ==
    /\ container \in {"list", "hash"}
    /\ Init
    /\ Hash!Init
    /\ container = "hash" => operations = {"push", "shift", "clear"}
    /\ container = "list" => raw = Hash!kh_init

UseList == container = "list" /\ Next /\ UNCHANGED <<container, hashVars>>
UseHash == container = "hash" /\ Hash!Next /\ UNCHANGED <<container, vars>>

SpecContainers == InitContainers /\ [][UseList \/ UseHash]_<<container, vars, hashVars>>

Symmetry == Permutations(Node)

\* HashTable's properties, stated there (Hash.c).
VisitsEachOnce == Hash!VisitsEachOnce
ImplementsMap == Hash!ImplementsMap
==============================================================================
