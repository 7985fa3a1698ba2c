---------------------------- MODULE MCWorldPresence ----------------------------
(* WorldPresence with three players, two of whom want the same name. *)
EXTENDS WorldPresence, TLC

CONSTANTS p1, p2, p3, alice, bob, carol, here, there

\* Three players and one worker; two players and two workers.
MCOne == [workers |-> 1, players |-> {p1, p2, p3}]
MCTwo == [workers |-> 2, players |-> {p1, p2}]
MCServers == {MCOne, MCTwo}
MCParallel == {MCTwo}

MCWanted == [p \in Player |-> IF p = p3 THEN bob ELSE alice]
MCNear == {<<here, here>>, <<there, there>>}
==============================================================================
