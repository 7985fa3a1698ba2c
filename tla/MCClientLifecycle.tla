--------------------------- MODULE MCClientLifecycle -------------------------
(* Small instances of ClientLifecycle for TLC. *)
EXTENDS ClientLifecycle, TLC

CONSTANTS c1, c2, c3, w1, w2

\* Both clients come from one address.
MCIp == [c \in Client |-> "ip"]

Symmetry == Permutations(Client) \cup Permutations(Worker)
==============================================================================
