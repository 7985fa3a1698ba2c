----------------------------- MODULE WorldPresence -----------------------------
(***************************************************************************)
(* Who is in a world and who sees whom (src/protocols/survival/World.c and *)
(* the base plugin's callbacks.c): the handlers of Handshake, Login,       *)
(* PlayerPosition and Client.disconnect. The handlers of one client never  *)
(* overlap (ClientLifecycle); those of different clients run on different  *)
(* workers. Every handshake makes a new player and leaves the earlier one  *)
(* of its connection where he is: in the world, if he had logged in.       *)
(* A section that holds the lock of world->players or of a list of seen    *)
(* players is one action. The lists of seen players are taken as sets:     *)
(* repetitions do not matter to CD_ListContains and CD_ListDeleteAll.      *)
(***************************************************************************)
EXTENDS Integers, FiniteSets

CONSTANTS
    Player,     \* the SVPlayer objects, each made by a handshake
    Name,       \* usernames
    Wanted,     \* the name each player asks for
    Chunk,      \* chunk positions
    Spawn,      \* the chunk of a new player's position
    Near,       \* pairs of chunks within the radius of sight
    Setups,     \* servers: how many workers each has, and which players come
    None

ASSUME WorldAssumption ==
    /\ Wanted \in [Player -> Name]
    /\ Spawn \in Chunk
    /\ Near \subseteq Chunk \X Chunk
    /\ \A a \in Chunk : <<a, a>> \in Near
    /\ \A a, b \in Chunk : <<a, b>> \in Near => <<b, a>> \in Near
    /\ Setups \subseteq [workers : Nat, players : SUBSET Player]
    /\ None \notin Player \cup Name /\ \A list \in SUBSET Player : list # None

VARIABLES
    standard,   \* config game.protocol.standard
    server,     \* which of the servers this is: config workers
    players,    \* world->players, by name
    name,       \* player->username
    entityId,   \* player->entity.id, 0 before the login
    lastId,     \* world->lastGeneratedEntityId
    latest,     \* the "Client.player" of the client of each player
    position,   \* the chunk of player->entity.position
    seen,       \* its "Player.seenPlayers": a set, or None when there is no list
    pc,         \* where the handler of each client is
    target,     \* the chunk a PlayerPosition packet asks for
    todo,       \* the players an iteration has yet to visit
    other,      \* the player it visits
    crashed     \* a list that does not exist or a freed client was used, or an assertion failed

world == <<players, name, entityId, lastId>>
vars == <<standard, server, world, latest, position, seen, pc, target, todo, other, crashed>>

\* An iteration over world->players holds its read lock.
Iterating == {p \in Player : pc[p] \in {"visit", "meet", "greet", "part"}}

Init ==
    /\ standard \in BOOLEAN
    /\ server \in Setups
    /\ players = [n \in Name |-> None]
    /\ name = Wanted
    /\ entityId = [p \in Player |-> 0]
    /\ lastId = 0
    /\ latest = [p \in Player |-> p]
    /\ position = [p \in Player |-> Spawn]
    /\ seen = [p \in Player |-> None]
    /\ pc = [p \in Player |-> "out"]
    /\ target = [p \in Player |-> Spawn]
    /\ todo = [p \in Player |-> {}]
    /\ other = [p \in Player |-> None]
    /\ crashed = "no"

------------------------------------------------------------------------------
Busy == {p \in Player : pc[p] \notin {"out", "in", "removed", "freed", "kicked"}}
AWorkerIsFree == Cardinality(Busy) < server.workers

PlayersUnlocked == Iterating = {}

Goto(p, from, to) == pc[p] = from /\ pc' = [pc EXCEPT ![p] = to]
Listed == {players[n] : n \in Name} \ {None}
InSight(a, b) == <<a, b>> \in Near

\* The first number is 10 (FIXME in the code: a dummy).
NextId(i) == IF i = 0 THEN 10 ELSE i + 1

\* The connection of p serves him as long as no later handshake has replaced him; his
\* client is freed with the connection.
Served(p) == latest[p] = p
Freed(p) == pc[latest[p]] = "freed"

\* The thread writes to the clients of these players; one that was freed may go unnoticed.
Reach(group) ==
    IF \E q \in group : Freed(q) THEN crashed' \in {"no", "freed"} ELSE UNCHANGED crashed
SendTo(q) == Reach({q})

\* A player who appears comes with his position and what he wears; who goes is taken away.
SendNamedPlayerSpawn(q) == SendTo(q)
SendDestroyEntity(q) == SendTo(q)

\* Everyone found in the world is sent a packet; the iteration keeps them there.
WorldBroadcast == Reach(Listed)

\* The chat says who has joined and left.
Announce == WorldBroadcast

------------------------------------------------------------------------------
(* Handshake: a new player for the connection of p, whatever became of p *)

Fresh(q) == pc[q] = "out" /\ \A p \in Player : latest[p] = q <=> p = q

Handshake(p, q) ==
    /\ AWorkerIsFree
    /\ Served(p) /\ pc[p] \in {"out", "in"}
    /\ q \in server.players \ {p} /\ Fresh(q)
    /\ latest' = [x \in Player |-> IF latest[x] = p THEN q ELSE latest[x]]
    /\ UNCHANGED <<world, position, seen, pc, target, todo, other, crashed>>

------------------------------------------------------------------------------
(* Login: SV_WorldAddPlayer, Player.prelogin *)

\* The name is looked up. The variant does not look.
TakenNever(p) == FALSE
Taken(p) == players[name[p]] # None

\* A name that is taken ends the login, or is changed to one that is not.
Refused(p) == standard /\ Taken(p)

Rename(p) ==
    IF Taken(p) THEN \E n \in Name : players[n] = None /\ name' = [name EXCEPT ![p] = n]
                ELSE UNCHANGED name

Login(p) ==
    /\ AWorkerIsFree
    /\ p \in server.players /\ Served(p)
    /\ \/ Refused(p) /\ Goto(p, "out", "kicked") /\ UNCHANGED name
       \/ ~Refused(p) /\ Goto(p, "out", "add") /\ Rename(p)
    /\ UNCHANGED <<players, entityId, lastId, position, seen, target, todo, other,
                   crashed>>

\* A player who has his number may not log in again: assert(player->entity.id == 0).
LoginAgain(p) ==
    /\ AWorkerIsFree
    /\ Served(p) /\ pc[p] = "in"
    /\ entityId[p] # 0
    /\ crashed' = "assert"
    /\ UNCHANGED <<world, position, seen, pc, target, todo, other>>

\* SV_WorldGenerateEntityId reads the last number
GenerateEntityId(p) ==
    /\ Goto(p, "add", "number")
    /\ entityId' = [entityId EXCEPT ![p] = NextId(lastId)]
    /\ UNCHANGED <<players, name, lastId, position, seen, target, todo, other, crashed>>

\* and writes it, without a lock.
StoreEntityId(p) ==
    /\ Goto(p, "number", "put")
    /\ lastId' = entityId[p]
    /\ UNCHANGED <<players, name, entityId, position, seen, target, todo, other, crashed>>

PutPlayer(p) ==
    /\ Goto(p, "put", "prelogin")
    /\ PlayersUnlocked
    /\ players' = [players EXCEPT ![name[p]] = p]
    /\ UNCHANGED <<name, entityId, lastId, position, seen, target, todo, other, crashed>>

\* cdsurvival_CheckPlayersInRegion for a chunk, which iterates over world->players and
\* skips the player himself.
Others(p) == Listed \ {p}

CheckPlayersInRegion(p, chunk) ==
    /\ target' = [target EXCEPT ![p] = chunk]
    /\ todo' = [todo EXCEPT ![p] = Others(p)]

CreateSeenPlayers(p) == seen' = [seen EXCEPT ![p] = {}]

PreLogin(p) ==
    /\ Goto(p, "prelogin", "visit")
    /\ CreateSeenPlayers(p)
    /\ CheckPlayersInRegion(p, position[p])
    /\ Announce
    /\ UNCHANGED <<world, position, other>>

------------------------------------------------------------------------------
(* PlayerPosition and PlayerMoveLook, when the chunk changes *)

Move(p, chunk) ==
    /\ AWorkerIsFree
    /\ Served(p) /\ Goto(p, "in", "visit")
    /\ chunk # position[p]
    /\ CheckPlayersInRegion(p, chunk)
    /\ UNCHANGED <<world, position, seen, other, crashed>>

\* Another player has come into or gone out of sight, or there is nothing to do.
Visit(p, q) ==
    LET near == InSight(target[p], position[q]) IN
    /\ q \in todo[p]
    /\ todo' = [todo EXCEPT ![p] = @ \ {q}]
    /\ other' = [other EXCEPT ![p] = q]
    /\ Goto(p, "visit", IF near /\ q \notin seen[p] THEN "meet"
                        ELSE IF ~near /\ q \in seen[p] THEN "part" ELSE "visit")
    /\ UNCHANGED <<world, position, seen, target, crashed>>

Meet(p) ==
    /\ Goto(p, "meet", "greet")
    /\ seen' = [seen EXCEPT ![p] = @ \cup {other[p]}]
    /\ SendNamedPlayerSpawn(other[p])
    /\ UNCHANGED <<world, position, target, todo, other>>

\* The list of q is fetched and changed: it may not exist.
Enter(q, p) ==
    IF seen[q] = None
    THEN crashed' = "list" /\ UNCHANGED seen
    ELSE seen' = [seen EXCEPT ![q] = @ \cup {p}] /\ SendNamedPlayerSpawn(q)

\* The same for a deletion, which the variant forgets.
EraseNothing(q, p) == UNCHANGED <<seen, crashed>>
Erase(q, p) ==
    IF seen[q] = None
    THEN crashed' = "list" /\ UNCHANGED seen
    ELSE seen' = [seen EXCEPT ![q] = @ \ {p}] /\ SendDestroyEntity(q)

Greet(p) ==
    /\ Goto(p, "greet", "visit")
    /\ Enter(other[p], p)
    /\ UNCHANGED <<world, position, target, todo, other>>

\* The own list first, then that of the other player.
PartOwn(p) ==
    /\ pc[p] = "part"
    /\ other[p] \in seen[p]
    /\ seen' = [seen EXCEPT ![p] = @ \ {other[p]}]
    /\ UNCHANGED <<world, position, pc, target, todo, other, crashed>>

PartOther(p) ==
    /\ Goto(p, "part", "visit")
    /\ other[p] \notin seen[p]
    /\ Erase(other[p], p)
    /\ UNCHANGED <<world, position, target, todo, other>>

\* Everyone in sight is sent a packet.
Tell(p) == Reach(seen[p])

\* The iteration is over: behind a move, everyone in sight is told and the position
\* changes.
SendUpdatePos(p) ==
    /\ Goto(p, "visit", "in")
    /\ todo[p] = {}
    /\ position' = [position EXCEPT ![p] = target[p]]
    /\ IF target[p] # position[p] THEN Tell(p) ELSE UNCHANGED crashed
    /\ UNCHANGED <<world, seen, target, todo, other>>

\* A look, an animation or a move within a chunk.
Look(p) ==
    /\ AWorkerIsFree
    /\ Served(p) /\ pc[p] = "in"
    /\ Tell(p)
    /\ UNCHANGED <<world, position, seen, pc, target, todo, other>>

\* Chat: a line for everyone or for the one it names.
ChatCommand(p) ==
    /\ AWorkerIsFree
    /\ Served(p) /\ pc[p] = "in"
    /\ WorldBroadcast \/ \E q \in Listed : SendTo(q)
    /\ UNCHANGED <<world, position, seen, pc, target, todo, other>>

\* The interval of the base plugin, on the thread of the time loop.
TimeUpdate ==
    /\ WorldBroadcast
    /\ UNCHANGED <<world, position, seen, pc, target, todo, other>>

------------------------------------------------------------------------------
(* Client.disconnect: Player.logout, for the last player of the connection *)

Logout(p) ==
    /\ AWorkerIsFree
    /\ Served(p) /\ Goto(p, "in", "leave")
    /\ todo' = [todo EXCEPT ![p] = seen[p]]
    /\ seen' = [seen EXCEPT ![p] = None]
    /\ Announce
    /\ UNCHANGED <<world, position, target, other>>

Farewell(p, q) ==
    /\ pc[p] = "leave"
    /\ q \in todo[p]
    /\ todo' = [todo EXCEPT ![p] = @ \ {q}]
    /\ Erase(q, p)
    /\ UNCHANGED <<world, position, pc, target, other>>

\* SV_WorldRemovePlayer deletes by name; the variant leaves the player in the world.
DeleteNothing(p) == UNCHANGED players
Delete(p) == players' = [players EXCEPT ![name[p]] = None]

RemovePlayer(p) ==
    /\ Goto(p, "leave", "removed")
    /\ todo[p] = {}
    /\ PlayersUnlocked
    /\ Delete(p)
    /\ UNCHANGED <<name, entityId, lastId, position, seen, target, todo, other, crashed>>

\* The libevent thread frees the client; the player objects stay, of those who left
\* nothing else, of those a handshake has replaced also their places in the world. The last
\* one has logged out, or has never been in a world.
DestroyClient(p) ==
    /\ Served(p)
    /\ \E from \in {"out", "kicked", "removed"} : Goto(p, from, "freed")
    /\ UNCHANGED <<world, position, seen, target, todo, other, crashed>>

------------------------------------------------------------------------------
Handler(p) ==
    \/ GenerateEntityId(p) \/ StoreEntityId(p) \/ PutPlayer(p) \/ PreLogin(p)
    \/ Meet(p) \/ Greet(p) \/ PartOwn(p) \/ PartOther(p) \/ SendUpdatePos(p)
    \/ \E q \in Player : Visit(p, q) \/ Farewell(p, q)
    \/ RemovePlayer(p)

Step(p) ==
    \/ Login(p) \/ LoginAgain(p)
    \/ \E chunk \in Chunk : Move(p, chunk)
    \/ Look(p) \/ ChatCommand(p)
    \/ Logout(p) \/ DestroyClient(p)
    \/ Handler(p)

Next ==
    /\ crashed = "no"
    /\ UNCHANGED <<standard, server>>
    /\ \/ \E p, q \in Player : Handshake(p, q)
       \/ UNCHANGED latest /\ (TimeUpdate \/ \E p \in Player : Step(p))

Spec == Init /\ [][Next]_vars

------------------------------------------------------------------------------
(* Properties *)

\* In the world: put into world->players and not taken out again.
Present == {p \in Player : pc[p] \in {"prelogin", "in", "visit", "meet", "greet", "part",
                                      "leave"}}
Quiet == Busy = {}

\* With one worker the handlers follow one another; with more they interleave.
Serial == server.workers = 1

Found(p) == players[name[p]] = p

\* "Check to see if the player is already logged-in." (World.c:134): with one worker,
\* everyone in the world is found there under a name of his own, and his entity has a
\* number of its own, which the map of entities and the packets to the players go by
\* (World.c:166-172).
EveryoneIsFound ==
    Serial => \A p \in Present :
        Found(p) /\ \A q \in Present \ {p} : entityId[q] # entityId[p]

\* "The standard action is to reject the new login attempt if already logged-in"
\* (World.c:139): under the standard protocol nobody loses his place to a later login.
StandardRejects == standard => \A p \in Present : Found(p)

\* "Should send both players an update" (callbacks.c:422): with one worker, when no
\* handler runs, the players a player sees are those of the world within sight of his
\* position, and nobody sees himself, whatever moves, logins, logouts and handshakes of
\* either brought them there (callbacks.c:387-428), and also for a player whom a second
\* handshake has left in the world. Every list the handlers fetch and change on the way
\* exists (assert(self), List.c:316), and a freed client is used only when someone was left
\* behind by the connection that is gone.
SeesWhoIsNear ==
    Serial =>
        /\ crashed # "list"
        /\ crashed = "freed" => \E p \in Present : Freed(p) /\ ~Served(p)
        /\ Quiet => \A p \in Present :
               seen[p] = {q \in Present \ {p} : InSight(position[p], position[q])}

\* Whoever is found in the world has not logged out, however the handlers interleave: the
\* broadcasts of the time and the chat and the region checks send to the client of every
\* player found there. SV_WorldRemovePlayer comes before the job that has the client freed
\* (World.c:179-188, Worker.c:187), so a player there whose client was freed is one whom a
\* later handshake of his connection replaced in "Client.player" (callbacks.c:497), where
\* alone the disconnect looks (callbacks.c:915).
GhostsAreLeftBehind ==
    \A p \in Listed : p \in Present /\ (Freed(p) => ~Served(p))

==============================================================================
