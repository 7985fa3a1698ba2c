----------------------------- MODULE MCEventSystem -----------------------------
(* EventSystem with two callbacks of different priority, each registered any number of
   times. *)
EXTENDS EventSystem, TLC

CONSTANTS chat, admin, t1, t2

\* CD_EventRegister uses 0, the admin commands -10.
MCPriority == [f \in Function |-> IF f = chat THEN 0 ELSE -10]

Symmetry == Permutations(Thread)
==============================================================================
