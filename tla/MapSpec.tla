-------------------------------- MODULE MapSpec --------------------------------
(***************************************************************************)
(* What the callers of Hash.h and Map.h rely on: a CDHash is a function    *)
(* from some keys to values, and each call of it is atomic.                *)
(***************************************************************************)
EXTENDS Integers, FiniteSets, Sequences, Functions, TLC

CONSTANTS
    Key,
    Value

VARIABLES
    map,    \* the value of every key that is there
    result  \* what the latest call returned: nothing, a value or number, an array

Init == map = <<>> /\ result = <<>>

At(key) == IF key \in DOMAIN map THEN <<map[key]>> ELSE <<>>

Get(key) ==
    /\ result' = At(key)
    /\ UNCHANGED map

HasKey(key) ==
    /\ result' = <<IF key \in DOMAIN map THEN 1 ELSE 0>>
    /\ UNCHANGED map

Length ==
    /\ result' = <<Cardinality(DOMAIN map)>>
    /\ UNCHANGED map

Put(key, value) ==
    /\ result' = At(key)
    /\ map' = (key :> value) @@ map

Delete(key) ==
    /\ result' = At(key)
    /\ map' = Restrict(map, DOMAIN map \ {key})

\* The values, in no order.
Clear ==
    /\ Len(result') = Cardinality(DOMAIN map)
    /\ \A value \in Value :
         Cardinality({k \in DOMAIN result' : result'[k] = value})
           = Cardinality({key \in DOMAIN map : map[key] = value})
    /\ map' = <<>>

Pick ==
    /\ map # <<>>
    /\ \E key \in DOMAIN map : result' = <<map[key]>>
    /\ UNCHANGED map

Next ==
    \/ \E key \in Key : Get(key) \/ HasKey(key) \/ Delete(key)
    \/ \E key \in Key, value \in Value : Put(key, value)
    \/ Length
    \/ Clear
    \/ Pick

vars == <<map, result>>

Spec == Init /\ [][Next]_vars
==============================================================================
