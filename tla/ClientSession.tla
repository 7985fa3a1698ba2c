---------------------------- MODULE ClientSession ----------------------------
(***************************************************************************)
(* What the server promises the plugins about one client, whatever the     *)
(* threads do: Client.connect comes first, the packets are handed to       *)
(* Client.process one at a time and in the order they were received,       *)
(* nothing is handed over once the client is disconnecting,                *)
(* Client.disconnect waits for the running handler, and the client's       *)
(* memory outlives both.  ClientLifecycle implements this specification.   *)
(***************************************************************************)
EXTENDS Naturals

CONSTANT Client

VARIABLES
    phase,      \* the client's stage of life
    busy,       \* a Client.process handler is running for the client
    delivered   \* number of packets handed to Client.process so far

vars == <<phase, busy, delivered>>

Phase == {"absent", "connecting", "open", "closing", "closed", "destroyed"}

TypeOK ==
    /\ phase \in [Client -> Phase]
    /\ busy \in [Client -> BOOLEAN]
    /\ delivered \in [Client -> Nat]

Init ==
    /\ phase = [c \in Client |-> "absent"]
    /\ busy = [c \in Client |-> FALSE]
    /\ delivered = [c \in Client |-> 0]

Move(c, from, to) ==
    /\ phase[c] \in from
    /\ phase' = [phase EXCEPT ![c] = to]

\* The socket is accepted.
Accept(c) == Move(c, {"absent"}, "connecting") /\ UNCHANGED <<busy, delivered>>

\* The Client.connect handlers have returned.
Connected(c) == Move(c, {"connecting"}, "open") /\ UNCHANGED <<busy, delivered>>

\* The next packet is handed to the Client.process handlers.
Begin(c) ==
    /\ phase[c] = "open"
    /\ ~busy[c]
    /\ busy' = [busy EXCEPT ![c] = TRUE]
    /\ delivered' = [delivered EXCEPT ![c] = @ + 1]
    /\ UNCHANGED phase

\* The Client.process handlers have returned.
End(c) ==
    /\ busy[c]
    /\ busy' = [busy EXCEPT ![c] = FALSE]
    /\ UNCHANGED <<phase, delivered>>

\* The client is kicked, or its connection fails.
Close(c) ==
    /\ Move(c, {"connecting", "open"}, "closing")
    /\ UNCHANGED <<busy, delivered>>

\* Client.disconnect is dispatched for the first time.
Announce(c) ==
    /\ ~busy[c]
    /\ Move(c, {"closing"}, "closed")
    /\ UNCHANGED <<busy, delivered>>

\* One clean-up frees the clients of the set D, all of them announced.
Destroy(D) ==
    /\ \A c \in D : phase[c] = "closed"
    /\ phase' = [c \in Client |-> IF c \in D THEN "destroyed" ELSE phase[c]]
    /\ UNCHANGED <<busy, delivered>>

Next ==
    \/ \E c \in Client :
         \/ Accept(c)
         \/ Connected(c)
         \/ Begin(c)
         \/ End(c)
         \/ Close(c)
         \/ Announce(c)
    \/ \E D \in SUBSET Client : Destroy(D)

Spec == Init /\ [][Next]_vars
==============================================================================
