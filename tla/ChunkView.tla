------------------------------- MODULE ChunkView ------------------------------
(***************************************************************************)
(* The chunks a player is shown (plugins/survival/base/callbacks.c): the   *)
(* set "Player.loadedChunks" and what the client has been told to hold.    *)
(* The handlers of one client do not overlap (ClientLifecycle) and no      *)
(* other thread touches these, so a handler is one action. A client        *)
(* confirms the position of the spawn before it moves.                     *)
(***************************************************************************)
EXTENDS SetAlgebra, Positions

CONSTANTS
    Radius,         \* 10
    ChunksHint,     \* 400
    Spawns,         \* block positions of a spawn
    Places,         \* precise positions a client may report
    Fragile,        \* chunks the generator may fail on
    None

ASSUME ViewAssumption ==
    /\ Radius \in Nat /\ Radius >= 2
    /\ ChunksHint \in Nat /\ Len(Primes) >= 2 /\ ChunksHint <= Primes[2]
    /\ Spawns \subseteq Int \X Int
    /\ Places \subseteq Int \X Int

VARIABLES
    session,        \* "handshake", "joined", "in", "kicked", "crashed" or "out"
    spawn,          \* world->spawnPosition
    position,       \* player->entity.position
    loadedChunks,   \* "Player.loadedChunks", None when there is no set
    shown,          \* chunks the client holds: announced by a PreChunk
    sent            \* those of them it has the blocks of

viewVars == <<session, spawn, position, loadedChunks, shown, sent>>

ViewInit ==
    /\ session = "handshake"
    /\ spawn \in Spawns
    /\ position = <<0, 0>>
    /\ loadedChunks = None
    /\ shown = {}
    /\ sent = {}

------------------------------------------------------------------------------
(* Player.prelogin and the Player.login it dispatches *)

Square(centre, r) == {<<centre[1] + i, centre[2] + j>> : i, j \in -r..r}

\* The order of the chunks around the spawn: ring by ring, each along its top,
\* right, bottom and left side.
Ring(c, r) ==
    [j \in 1..(2 * r + 1) |-> <<c[1] - r + j - 1, c[2] - r>>]
    \o [k \in 1..(2 * r) |-> <<c[1] + r, c[2] - r + k>>]
    \o [j \in 1..(2 * r) |-> <<c[1] + r - j, c[2] + r>>]
    \o [k \in 1..(2 * r - 1) |-> <<c[1] - r, c[2] + r - k>>]
Spiral(c) == <<c>> \o FlattenSeq([r \in 1..Radius |-> Ring(c, r)])

\* The chunks before the first whose generation fails, which ends the handler.
SentUntil(failing, chunks) ==
    Range(SelectSeq(chunks, LAMBDA c : \A i, j \in 1..Len(chunks) :
        chunks[j] = c /\ chunks[i] \in failing => j < i))

PlayerPreLogin ==
    /\ session = "handshake"
    /\ session' = "joined"
    /\ loadedChunks' = CreateSetWith(ChunksHint)
    /\ LET centre == BlockPositionToChunkPosition(spawn)
       IN  /\ shown' = Square(centre, Radius)
           /\ \E failing \in SUBSET Fragile : sent' = SentUntil(failing, Spiral(centre))
    /\ UNCHANGED <<spawn, position>>

------------------------------------------------------------------------------
(* cdsurvival_SendChunkRadius *)

\* The chunks the two loops come to, without the right and the lower rim; those that
\* are in the circle are put into the new set.
Around(area) ==
    LET width == 2 * Radius
    IN  [k \in 1..(width * width) |->
            <<area[1] - Radius + (k - 1) \div width, area[2] - Radius + ((k - 1) % width)>>]

Circle(area) ==
    {chunk \in Range(Around(area)) :
        (chunk[1] - area[1]) * (chunk[1] - area[1]) + (chunk[2] - area[2]) * (chunk[2] - area[2])
            <= Radius * Radius}

NewChunks(area) == PutAll(CreateSetWith(ChunksHint), Around(area), Circle(area))

\* What is no longer near is unloaded. The variant takes it from the new set.
ToRemoveOfNew(old, new) == SetMinus(new, old)
ToRemove(old, new) == SetMinus(old, new)
ToAdd(old, new) == SetMinus(new, old)

SendChunkRadius(area) ==
    LET new == NewChunks(area)
        gone == At(ToRemove(loadedChunks, new))
        come == At(ToAdd(loadedChunks, new))
    IN  /\ shown' = (shown \ gone) \cup come
        /\ \E failing \in SUBSET (Fragile \cap come) :
               sent' = (sent \ gone) \cup (come \ failing)
        /\ loadedChunks' = new

------------------------------------------------------------------------------
(* PlayerPosition and PlayerMoveLook, PlayerDigging, Player.logout *)

PlayerPosition(to) ==
    /\ \/ session = "joined" /\ to = BlockPositionToPrecisePosition(spawn)
       \/ session = "in"
    /\ session' = "in"
    /\ position' = to
    /\ LET newChunk == PrecisePositionToChunkPosition(to)
       IN  IF newChunk # PrecisePositionToChunkPosition(position)
           THEN SendChunkRadius(newChunk)
           ELSE UNCHANGED <<loadedChunks, shown, sent>>
    /\ UNCHANGED spawn

\* Digging too far off is a kick. SV_WorldGetChunk returns NULL when the chunk
\* cannot be had, which is not looked at; otherwise the others are told of air
\* and the chunk stays what it was.
PlayerDigging(block) ==
    /\ session = "in"
    /\ \/ /\ IsDistanceGreater(position, BlockPositionToPrecisePosition(block), 6)
          /\ session' = "kicked"
       \/ /\ ~ IsDistanceGreater(position, BlockPositionToPrecisePosition(block), 6)
          /\ BlockPositionToChunkPosition(block) \in Fragile
          /\ session' = "crashed"
    /\ UNCHANGED <<spawn, position, loadedChunks, shown, sent>>

PlayerLogout ==
    /\ session \in {"joined", "in", "kicked"}
    /\ session' = "out"
    /\ loadedChunks' = None
    /\ UNCHANGED <<spawn, position, shown, sent>>

ViewNext ==
    \/ PlayerPreLogin
    \/ \E to \in Places \cup {BlockPositionToPrecisePosition(spawn)} : PlayerPosition(to)
    \/ \E to \in Places : PlayerDigging(PrecisePositionToBlockPosition(to))
    \/ PlayerLogout

------------------------------------------------------------------------------
(* Properties *)

\* Where the client and the other players take him to be: the absolute position
\* is what they are sent.
StandsOn == AbsolutePositionToChunkPosition(PrecisePositionToAbsolutePosition(position))

\* The client always holds the chunk the player stands in, holds what the set
\* says and no more than that and the square it was sent at the login, and has
\* the blocks of all the generator gave (callbacks.c:165-199 and 722-805): what
\* is announced, unloaded and remembered over any sequence of moves agrees,
\* though the server rounds a position toward 0 and the client down.
ViewFollows ==
    session = "in" =>
        /\ At(loadedChunks) \subseteq shown
        /\ shown \subseteq At(loadedChunks) \cup Square(BlockPositionToChunkPosition(spawn), Radius)
        /\ StandsOn \in shown
        /\ At(loadedChunks) \ sent \subseteq Fragile

\* The set the player has and any circle he may come to are combined as Set.h
\* promises, for sets of one size, wherever the hash puts negative coordinates.
AlgebraIsRight ==
    session = "in" =>
        \A to \in Places :
            LET circle == NewChunks(PrecisePositionToChunkPosition(to))
            IN  AlgebraOf(loadedChunks, circle) /\ AlgebraOf(circle, loadedChunks)

\* The chunk the server reckons with is the one all its conversions give, and it
\* is at most one chunk from the one the client sees the player in, on the side
\* of 0 (minecraft.h:566-592).
ChunkOfPlayer ==
    LET chunk == PrecisePositionToChunkPosition(position)
    IN  /\ ConversionsAgree(position)
        /\ \A i \in 1..2 : /\ chunk[i] = StandsOn[i] \/ chunk[i] = StandsOn[i] + 1
                           /\ chunk[i] # StandsOn[i] => position[i] < 0
==============================================================================
