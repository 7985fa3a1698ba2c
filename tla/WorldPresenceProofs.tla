-------------------------- MODULE WorldPresenceProofs --------------------------
(***************************************************************************)
(* Proofs about the players of a world, for any players, names, chunks and *)
(* sight: nobody is found there who has logged out, however many workers   *)
(* run, and a freed client is that of a connection whose later handshake   *)
(* left a player behind; with one worker everyone is found under a name    *)
(* and a number of his own, and sees exactly those who are near.           *)
(***************************************************************************)
EXTENDS WorldPresence, FiniteSetTheorems, TLAPS

(* Where the handler of a client may be. *)
Resting == {"out", "in", "removed", "freed", "kicked"}
Checking == {"visit", "meet", "greet", "part"}
Arriving == {"add", "number", "put"}
Outcomes == {"no", "list", "freed", "assert"}
Place == Resting \cup Checking \cup Arriving \cup {"prelogin", "leave"}

(* The types; a player has a list of seen players from Player.prelogin to  *)
(* the begin of Player.logout, whatever the handlers of others do.         *)
TypesInv ==
  /\ server \in Setups /\ standard \in BOOLEAN /\ crashed \in Outcomes
  /\ latest \in [Player -> Player]
  /\ players \in [Name -> Player \cup {None}]
  /\ name \in [Player -> Name]
  /\ entityId \in [Player -> Nat]
  /\ lastId \in Nat
  /\ position \in [Player -> Chunk]
  /\ target \in [Player -> Chunk]
  /\ seen \in [Player -> (SUBSET Player) \cup {None}]
  /\ todo \in [Player -> SUBSET Player]
  /\ other \in [Player -> Player \cup {None}]
  /\ pc \in [Player -> Place]
  /\ \A p \in Player : pc[p] \in {"in"} \cup Checking <=> seen[p] # None
  /\ \A p \in Player : pc[p] \in Checking \ {"visit"} => other[p] \in Player

LEMMA TypesInit == Init => TypesInv
<1> SUFFICES ASSUME Init PROVE TypesInv
  OBVIOUS
<1> USE DEF Init
<1>1. \A p \in Player : pc[p] = "out" /\ seen[p] = None
  OBVIOUS
<1>2. pc \in [Player -> Place]
  BY DEF Place, Resting
<1>3. name \in [Player -> Name] /\ position \in [Player -> Chunk] /\ target \in [Player -> Chunk]
  BY WorldAssumption
<1>4. QED
  BY <1>1, <1>2, <1>3 DEF TypesInv, Checking, Outcomes

LEMMA ListedType == TypesInv => Listed \subseteq Player
BY DEF TypesInv, Listed

(* A list that another handler changes stays a list, or does not appear.   *)
LEMMA ListKept ==
  ASSUME TypesInv, NEW p \in Player, NEW q \in Player, Enter(q, p) \/ Erase(q, p)
  PROVE  /\ seen' \in [Player -> (SUBSET Player) \cup {None}]
         /\ \A r \in Player : seen'[r] = None <=> seen[r] = None
         /\ crashed' \in Outcomes
<1>1. CASE seen[q] = None
  BY <1>1 DEF TypesInv, Enter, Erase, Outcomes
<1>2. CASE seen[q] # None
  <2>1. seen[q] \in SUBSET Player
    BY <1>2 DEF TypesInv
  <2>2. seen[q] \cup {p} \in SUBSET Player /\ seen[q] \ {p} \in SUBSET Player
    BY <2>1
  <2>3. crashed' \in Outcomes
    BY <1>2 DEF TypesInv, Enter, Erase, SendNamedPlayerSpawn, SendDestroyEntity, SendTo, Reach,
       Outcomes
  <2>4. CASE seen' = [seen EXCEPT ![q] = @ \cup {p}]
    BY <1>2, <2>1, <2>2, <2>3, <2>4, WorldAssumption DEF TypesInv
  <2>5. CASE seen' = [seen EXCEPT ![q] = @ \ {p}]
    BY <1>2, <2>1, <2>2, <2>3, <2>5, WorldAssumption DEF TypesInv
  <2>6. QED
    BY <1>2, <2>4, <2>5 DEF Enter, Erase
<1>3. QED
  BY <1>1, <1>2

LEMMA TypesStep == TypesInv /\ [Next]_vars => TypesInv'
<1> SUFFICES ASSUME TypesInv, [Next]_vars PROVE TypesInv'
  OBVIOUS
<1>0. CASE UNCHANGED vars
  BY <1>0 DEF TypesInv, vars, world
<1>1. ASSUME UNCHANGED <<standard, server, latest>>, TimeUpdate PROVE TypesInv'
  BY <1>1 DEF TypesInv, TimeUpdate, WorldBroadcast, Reach, Outcomes, world
<1>5. ASSUME UNCHANGED <<standard, server>>, NEW p \in Player, NEW q \in Player, Handshake(p, q)
      PROVE TypesInv'
  BY <1>5 DEF TypesInv, Handshake, world
<1>2. ASSUME UNCHANGED <<standard, server, latest>>, NEW p \in Player,
             \/ Login(p) \/ LoginAgain(p) \/ Look(p) \/ ChatCommand(p) \/ Logout(p) \/ DestroyClient(p)
             \/ \E chunk \in Chunk : Move(p, chunk)
      PROVE TypesInv'
  <2> USE <1>2 DEF TypesInv, Goto, Place, Resting, Checking, Arriving, world, WorldBroadcast, Announce,
         Reach, Outcomes
  <2>1. CASE Login(p)
    BY <2>1 DEF Login, Rename
  <2>8. CASE LoginAgain(p)
    BY <2>8 DEF LoginAgain
  <2>2. CASE Look(p)
    BY <2>2 DEF Look, Tell
  <2>3. CASE ChatCommand(p)
    BY <2>3 DEF ChatCommand, SendTo
  <2>4. CASE Logout(p)
    BY <2>4, WorldAssumption DEF Logout
  <2>5. CASE DestroyClient(p)
    BY <2>5 DEF DestroyClient
  <2>6. ASSUME NEW chunk \in Chunk, Move(p, chunk) PROVE TypesInv'
    BY <2>6, ListedType DEF Move, CheckPlayersInRegion, Others
  <2>7. QED
    BY <1>2, <2>1, <2>2, <2>3, <2>4, <2>5, <2>6, <2>8
<1>3. ASSUME UNCHANGED <<standard, server, latest>>, NEW p \in Player, Handler(p)
      PROVE TypesInv'
  <2> USE <1>3 DEF TypesInv, Goto, Place, Resting, Checking, Arriving, world, WorldBroadcast, Announce,
         Reach, Outcomes
  <2>1. CASE GenerateEntityId(p)
    BY <2>1 DEF GenerateEntityId, NextId
  <2>2. CASE StoreEntityId(p)
    BY <2>2 DEF StoreEntityId
  <2>3. CASE PutPlayer(p)
    BY <2>3 DEF PutPlayer
  <2>4. CASE PreLogin(p)
    BY <2>4, ListedType, WorldAssumption DEF PreLogin, CreateSeenPlayers, CheckPlayersInRegion, Others
  <2>5. CASE Meet(p)
    BY <2>5, WorldAssumption DEF Meet, SendNamedPlayerSpawn, SendTo
  <2>6. CASE Greet(p)
    BY <2>6, ListKept DEF Greet
  <2>7. CASE PartOwn(p)
    BY <2>7, WorldAssumption DEF PartOwn
  <2>8. CASE PartOther(p)
    BY <2>8, ListKept DEF PartOther
  <2>9. CASE SendUpdatePos(p)
    BY <2>9 DEF SendUpdatePos, Tell
  <2>10. ASSUME NEW q \in Player, Visit(p, q) PROVE TypesInv'
    BY <2>10 DEF Visit
  <2>11. ASSUME NEW q \in Player, Farewell(p, q) PROVE TypesInv'
    BY <2>11, ListKept DEF Farewell
  <2>12. CASE RemovePlayer(p)
    BY <2>12 DEF RemovePlayer, Delete
  <2>13. QED
    BY <1>3, <2>1, <2>2, <2>3, <2>4, <2>5, <2>6, <2>7, <2>8, <2>9, <2>10, <2>11,
       <2>12 DEF Handler
<1>4. QED
  BY <1>0, <1>1, <1>2, <1>3, <1>5 DEF Next, Step

LEMMA TypesHold == Spec => []TypesInv
<1>1. QED
  BY TypesInit, TypesStep, PTL DEF Spec

------------------------------------------------------------------------------

(* Who is found under a name has that name, and is in the world.           *)
NamesInv ==
  \A n \in Name : players[n] # None =>
      name[players[n]] = n /\ players[n] \in Present

LEMMA NamesStep == TypesInv /\ NamesInv /\ [Next]_vars => NamesInv'
<1> SUFFICES ASSUME TypesInv, NamesInv, [Next]_vars PROVE NamesInv'
  OBVIOUS
<1> USE DEF NamesInv, Present
<1>a. \A n \in Name : players[n] # None => players[n] \in Player
  BY DEF TypesInv
<1>1. CASE UNCHANGED <<players, name, pc>>
  BY <1>1
(* Who is listed keeps his name and stays in the world. *)
<1>2. ASSUME NEW p \in Player, UNCHANGED players,
             \A q \in Player \ {p} : name'[q] = name[q] /\ pc'[q] = pc[q],
             p \in Present => name'[p] = name[p] /\ p \in Present'
      PROVE NamesInv'
  BY <1>a, <1>2
<1>3. ASSUME NEW p \in Player,
             \/ Login(p) \/ LoginAgain(p) \/ Look(p) \/ ChatCommand(p) \/ Logout(p) \/ DestroyClient(p)
             \/ \E chunk \in Chunk : Move(p, chunk)
      PROVE NamesInv'
  BY <1>2, <1>3 DEF TypesInv, Login, Rename, LoginAgain, Look, ChatCommand, Logout, DestroyClient, Move,
     Goto, world
<1>4. ASSUME NEW p \in Player,
             \/ GenerateEntityId(p) \/ StoreEntityId(p) \/ PreLogin(p)
             \/ Meet(p) \/ Greet(p) \/ PartOwn(p) \/ PartOther(p) \/ SendUpdatePos(p)
             \/ \E q \in Player : Visit(p, q) \/ Farewell(p, q)
      PROVE NamesInv'
  BY <1>2, <1>4 DEF TypesInv, GenerateEntityId, StoreEntityId, PreLogin, Meet, Greet, PartOwn,
     PartOther, SendUpdatePos, Visit, Farewell, Goto, world
(* The name of p may have been another player's: who is then not found.    *)
<1>5. ASSUME NEW p \in Player, PutPlayer(p) PROVE NamesInv'
  BY <1>a, <1>5 DEF TypesInv, PutPlayer, Goto
(* p is found under his name only, which is taken out.                     *)
<1>6. ASSUME NEW p \in Player, RemovePlayer(p) PROVE NamesInv'
  BY <1>a, <1>6 DEF TypesInv, RemovePlayer, Delete, Goto
<1>7. QED
  BY <1>1, <1>3, <1>4, <1>5, <1>6 DEF Next, Step, Handshake, TimeUpdate, Handler, vars, world

(* SV_WorldRemovePlayer and the handlers around it: a player found in the  *)
(* world has not logged out, for any number of players and workers; and    *)
(* if his client was freed, a later handshake of his connection had put    *)
(* another in his place.                                                   *)
THEOREM WhoLogsOutIsGone == Spec => []GhostsAreLeftBehind
<1>1. Init => NamesInv
  BY DEF Init, NamesInv
<1>2. TypesInv /\ NamesInv => GhostsAreLeftBehind
  BY DEF TypesInv, NamesInv, GhostsAreLeftBehind, Listed, Present, Freed, Served
<1>3. QED
  BY <1>1, <1>2, TypesHold, NamesStep, PTL DEF Spec

------------------------------------------------------------------------------
(* One worker: who is not resting is the only one.                         *)
AloneInv == IsFiniteSet(Busy) /\ (Serial => \A p, q \in Busy : p = q)

(* The name of an arriving player is free; everyone present is under his.  *)
FoundInv ==
  /\ \A p \in Player : pc[p] \in Arriving => players[name[p]] = None
  /\ \A p \in Present : Found(p)

(* Numbers grow: that of an arriving player is above those of all present. *)
NumbersInv ==
  /\ \A p \in Present : entityId[p] <= lastId
  /\ \A p, q \in Present : p # q => entityId[p] # entityId[q]
  /\ \A p \in Player : pc[p] = "number" => entityId[p] = NextId(lastId)
  /\ \A p \in Player : pc[p] = "put" =>
       entityId[p] = lastId /\ \A q \in Present : entityId[q] < lastId

(* Lists are of players in the world; an iteration goes over players at    *)
(* rest.                                                                   *)
ListsInv ==
  /\ \A p \in Player : pc[p] \in {"in"} \cup Checking =>
       seen[p] \subseteq Present \ {p}
  /\ \A p \in Player : pc[p] \in Checking \cup {"leave"} =>
       \A q \in todo[p] : q # p /\ pc[q] = "in"

(* The player at hand, and what was found out about him.                   *)
OtherInv ==
  \A p \in Player : pc[p] \in Checking \ {"visit"} =>
      LET q == other[p]
          near == InSight(target[p], position[q])
      IN  /\ q # p /\ q \notin todo[p] /\ pc[q] = "in"
          /\ pc[p] = "meet" => near
          /\ pc[p] = "greet" => near /\ q \in seen[p]
          /\ pc[p] = "part" => ~near

(* The two lists of a pair of players, the second of whom is at rest:      *)
(* settled when both are; being settled during an iteration of the first,  *)
(* by the place he goes to, except for those it has yet to visit; and      *)
(* being undone when he leaves.                                            *)
Agreed(p, q, chunk) ==
  /\ q \in seen[p] <=> InSight(chunk, position[q])
  /\ p \in seen[q] <=> InSight(chunk, position[q])

Settled(p, q) == pc[p] = "in" => Agreed(p, q, position[p])
AtHand(p, q) == pc[p] # "visit" /\ q = other[p]
Settling(p, q) ==
  pc[p] \in Checking =>
    /\ q \in todo[p] => (q \in seen[p] <=> p \in seen[q])
    /\ q \notin todo[p] /\ ~AtHand(p, q) => Agreed(p, q, target[p])
Leaving(p, q) ==
  /\ pc[p] = "leave" => (p \in seen[q] => q \in todo[p])
  /\ pc[p] \notin {"in", "leave"} \cup Checking => p \notin seen[q]

SightInv ==
  \A p, q \in Player : p # q /\ pc[q] = "in" =>
      Settled(p, q) /\ Settling(p, q) /\ Leaving(p, q)

(* A freed client that was used is that of a player who is still there.    *)
HauntInv == crashed = "freed" => \E p \in Present : Freed(p)

SerialInv ==
  Serial => crashed # "list" /\ HauntInv /\ FoundInv /\ NumbersInv /\ ListsInv /\ OtherInv /\ SightInv

LEMMA FreeWorker ==
  ASSUME AloneInv, Serial, AWorkerIsFree
  PROVE  Busy = {}
<1>1. Cardinality(Busy) \in Nat
  BY FS_CardinalityType DEF AloneInv
<1>2. Cardinality(Busy) = 0
  BY <1>1 DEF Serial, AWorkerIsFree
<1>3. QED
  BY <1>2, FS_EmptySet DEF AloneInv

(* Every step moves one handler, which had a worker or got one.            *)
Moves(p) ==
  /\ \A q \in Player \ {p} : pc'[q] = pc[q]
  /\ p \in Busy \/ AWorkerIsFree \/ pc'[p] \in Resting

LEMMA OneMoves == TypesInv /\ [Next]_vars => UNCHANGED pc \/ \E p \in Player : Moves(p)
<1> SUFFICES ASSUME TypesInv, [Next]_vars, pc' # pc PROVE \E p \in Player : Moves(p)
  OBVIOUS
<1>1. TypesInv'
  BY TypesStep
<1>2. PICK p \in Player :
         \/ Login(p) \/ LoginAgain(p) \/ Look(p) \/ ChatCommand(p) \/ Logout(p)
         \/ DestroyClient(p)
         \/ \E chunk \in Chunk : Move(p, chunk)
         \/ Handler(p)
  BY DEF Next, Step, Handshake, TimeUpdate, vars
<1>3. \A q \in Player \ {p} : pc'[q] = pc[q]
  BY <1>2 DEF TypesInv, Login, LoginAgain, Look, ChatCommand, Logout, DestroyClient, Move, Handler,
     GenerateEntityId, StoreEntityId, PutPlayer, PreLogin, Meet, Greet, PartOwn, PartOther,
     SendUpdatePos, Visit, Farewell, RemovePlayer, Goto
<1>4. p \in Busy \/ AWorkerIsFree \/ pc'[p] \in Resting
  BY <1>2 DEF TypesInv, Login, LoginAgain, Look, ChatCommand, Logout, DestroyClient, Move, Handler,
     GenerateEntityId, StoreEntityId, PutPlayer, PreLogin, Meet, Greet, PartOwn, PartOther,
     SendUpdatePos, Visit, Farewell, RemovePlayer, Goto, Busy, Resting
<1>5. QED
  BY <1>3, <1>4 DEF Moves

LEMMA AloneStep == TypesInv /\ AloneInv /\ [Next]_vars => AloneInv'
<1> SUFFICES ASSUME TypesInv, AloneInv, [Next]_vars PROVE AloneInv'
  OBVIOUS
<1>0. TypesInv' /\ server' = server
  BY TypesStep DEF Next, vars
<1>1. CASE UNCHANGED pc
  BY <1>0, <1>1 DEF AloneInv, Busy, Serial
<1>2. ASSUME NEW p \in Player, Moves(p) PROVE AloneInv'
  <2>1. Busy' \subseteq Busy \cup {p}
    BY <1>2 DEF Moves, Busy
  <2>2. IsFiniteSet(Busy \cup {p})
    BY FS_AddElement DEF AloneInv
  <2>3. IsFiniteSet(Busy')
    BY <2>1, <2>2, FS_Subset
  <2>4. Serial' => p \in Busy \/ Busy = {} \/ p \notin Busy'
    BY <1>0, <1>2, FreeWorker DEF Moves, Serial, Busy, Resting
  <2>5. QED
    BY <1>0, <2>1, <2>3, <2>4 DEF AloneInv, Serial
<1>3. QED
  BY <1>1, <1>2, OneMoves

(* With one worker, whoever runs finds the others at rest.                 *)
LEMMA OthersRest ==
  ASSUME TypesInv, AloneInv, Serial, NEW p \in Player, p \in Busy \/ AWorkerIsFree
  PROVE  \A q \in Player \ {p} : pc[q] \in Resting
BY FreeWorker DEF TypesInv, AloneInv, Busy, Resting

(* A packet may reach a freed client; no list is missing for it.           *)
LEMMA NoListMissing ==
  ASSUME crashed = "no"
  PROVE  /\ WorldBroadcast => crashed' # "list"
         /\ \A q \in Player : SendTo(q) => crashed' # "list"
         /\ \A p \in Player : Tell(p) => crashed' # "list"
BY DEF WorldBroadcast, SendTo, Tell, Reach

(* The parts of the invariant that a step leaves alone.                    *)
LEMMA Unmoved ==
  ASSUME FoundInv, NumbersInv, ListsInv, OtherInv, SightInv,
         UNCHANGED <<players, name, entityId, lastId, position, seen, pc, target, todo, other>>
  PROVE  FoundInv' /\ NumbersInv' /\ ListsInv' /\ OtherInv' /\ SightInv'
BY DEF FoundInv, NumbersInv, ListsInv, OtherInv, SightInv, Present, Found, Settled, Settling,
   Leaving, Agreed, AtHand

(* The steps of a login up to the list of seen players.                    *)
LEMMA ArrivalStep ==
  ASSUME TypesInv, NamesInv, AloneInv, Serial, SerialInv, crashed = "no", NEW p \in Player,
         \/ Login(p) \/ GenerateEntityId(p) \/ StoreEntityId(p) \/ PutPlayer(p)
  PROVE  FoundInv' /\ NumbersInv' /\ ListsInv' /\ OtherInv' /\ SightInv' /\ crashed' # "list"
<1>0. \A q \in Player \ {p} : pc[q] \in Resting
  BY OthersRest DEF Busy, Resting, Login, GenerateEntityId, StoreEntityId, PutPlayer, Goto
<1>1. crashed' # "list" /\ UNCHANGED <<position, seen, target, todo, other>>
  BY DEF SerialInv, Login, GenerateEntityId, StoreEntityId, PutPlayer
<1>2. /\ \A q \in Player \ {p} : pc'[q] = pc[q]
      /\ pc[p] \in {"out"} \cup Arriving
      /\ pc'[p] \in {"kicked", "prelogin"} \cup Arriving
  BY DEF TypesInv, Arriving, Login, GenerateEntityId, StoreEntityId, PutPlayer, Goto
<1>a. Present \subseteq Present' /\ Present' \subseteq Player
  BY <1>2 DEF Present, Arriving
<1>b. \A q \in Player : pc'[q] \in {"in", "leave"} \cup Checking => q # p /\ pc'[q] = pc[q]
  BY <1>2 DEF Arriving, Checking
<1>c. \A q \in Player : pc[q] = "in" => pc'[q] = "in"
  BY <1>2 DEF Arriving
<1>3. ListsInv'
  <2>1. \A q \in Player : pc'[q] \in {"in"} \cup Checking => seen[q] \subseteq Present' \ {q}
    BY <1>a, <1>b DEF SerialInv, ListsInv
  <2>2. \A q \in Player : pc'[q] \in Checking \cup {"leave"} => \A r \in todo[q] : r # q /\ pc'[r] = "in"
    BY <1>b, <1>c DEF TypesInv, SerialInv, ListsInv
  <2>3. QED
    BY <1>1, <2>1, <2>2 DEF ListsInv
<1>4. OtherInv'
  BY <1>1, <1>b, <1>c DEF TypesInv, SerialInv, OtherInv
<1>5. SightInv'
  BY <1>1, <1>2 DEF SerialInv, SightInv, Checking, Present, Arriving, Settled, Settling,
     Leaving, Agreed, AtHand
<1>6. FoundInv' /\ NumbersInv'
  <2> USE <1>0, <1>2 DEF TypesInv, SerialInv, FoundInv, NumbersInv, Present, Found, Resting, Arriving, Goto
  <2>1. CASE Login(p)
    <3>1. NumbersInv'
      BY <2>1 DEF Login
    <3>2. UNCHANGED players /\ p \notin Present /\ p \notin Present'
      BY <2>1 DEF Login
    <3>3. \A q \in Player \ {p} : name'[q] = name[q]
      BY <2>1 DEF Login, Rename
    <3>4. pc'[p] \in Arriving => players[name'[p]] = None
      BY <2>1 DEF Login, Rename, Refused, Taken
    <3>5. QED
      BY <3>1, <3>2, <3>3, <3>4
  <2>2. CASE GenerateEntityId(p)
    BY <2>2 DEF GenerateEntityId, NextId
  <2>3. CASE StoreEntityId(p)
    BY <2>3 DEF StoreEntityId, NextId
  <2>4. CASE PutPlayer(p)
    <3>1. FoundInv'
      <4>1. /\ players' = [players EXCEPT ![name[p]] = p] /\ name' = name
            /\ players[name[p]] = None /\ pc'[p] = "prelogin" /\ name[p] \in Name
        BY <2>4 DEF PutPlayer
      <4>2. \A q \in Player : pc'[q] \notin Arriving
        BY <4>1
      <4>3. ASSUME NEW q \in Player \ {p}, q \in Present' PROVE players'[name[q]] = q
        <5>1. players[name[q]] = q /\ q # None
          BY <4>3, WorldAssumption
        <5>2. QED
          BY <4>1, <5>1
      <4>4. QED
        BY <4>1, <4>2, <4>3
    <3>2. NumbersInv'
      BY <2>4 DEF PutPlayer
    <3>3. QED
      BY <3>1, <3>2
  <2>5. QED
    BY <2>1, <2>2, <2>3, <2>4
<1>7. QED
  BY <1>1, <1>3, <1>4, <1>5, <1>6

(* A handler inside the world changes no names and numbers.                *)
LEMMA WorldUnmoved ==
  ASSUME FoundInv, NumbersInv, UNCHANGED world, NEW p \in Player,
         \A q \in Player \ {p} : pc'[q] = pc[q], p \in Present, p \in Present'
  PROVE  FoundInv' /\ NumbersInv'
<1>1. Present' = Present
  BY DEF Present
<1>2. \A q \in Player : pc'[q] \in Arriving => pc[q] \in Arriving /\ pc'[q] = pc[q]
  BY DEF Present, Arriving
<1>3. \A q \in Player : pc'[q] \in {"number", "put"} => pc'[q] = pc[q]
  BY DEF Present
<1>4. FoundInv'
  BY <1>1, <1>2 DEF FoundInv, Found, Present, world
<1>5. NumbersInv'
  BY <1>1, <1>3 DEF NumbersInv, Present, world
<1>6. QED
  BY <1>4, <1>5

(* Pairs without the one who runs.                                         *)
LEMMA PairsOfOthers ==
  ASSUME SightInv, NEW p \in Player,
         \A q \in Player \ {p} :
            /\ pc[q] \in Resting /\ pc'[q] = pc[q] /\ position'[q] = position[q]
            /\ \A r \in Player \ {p} : r \in seen'[q] <=> r \in seen[q],
         NEW q \in Player \ {p}, NEW r \in Player \ {p}, q # r, pc'[r] = "in"
  PROVE  (Settled(q, r) /\ Settling(q, r) /\ Leaving(q, r))'
<1>1. Settled(q, r) /\ Leaving(q, r)
  BY DEF SightInv
<1>2. QED
  BY <1>1 DEF Settled, Settling, Leaving, Agreed, Resting, Checking

(* The invariant after a step of p, from what concerns p.                  *)
LEMMA SightFromPairs ==
  ASSUME SightInv, NEW p \in Player,
         \A q \in Player \ {p} :
            /\ pc[q] \in Resting /\ pc'[q] = pc[q] /\ position'[q] = position[q]
            /\ \A r \in Player \ {p} : r \in seen'[q] <=> r \in seen[q],
         \A q \in Player \ {p} : pc[q] = "in" =>
            (Settled(p, q) /\ Settling(p, q) /\ Leaving(p, q))',
         \A q \in Player \ {p} : pc'[p] = "in" =>
            (Settled(q, p) /\ Settling(q, p) /\ Leaving(q, p))'
  PROVE  SightInv'
<1> SUFFICES ASSUME NEW q \in Player, NEW r \in Player, q # r, pc'[r] = "in"
             PROVE  (Settled(q, r) /\ Settling(q, r) /\ Leaving(q, r))'
  BY DEF SightInv
<1>1. CASE q = p
  BY <1>1
<1>2. CASE r = p
  BY <1>2
<1>3. CASE q # p /\ r # p
  BY <1>3, PairsOfOthers
<1>4. QED
  BY <1>1, <1>2, <1>3

LEMMA InSightSymmetric == \A a, b \in Chunk : InSight(a, b) <=> InSight(b, a)
BY WorldAssumption DEF InSight

(* An iteration begins: everyone else is at rest and yet to be visited.    *)
LEMMA BeginStep ==
  ASSUME TypesInv, NamesInv, AloneInv, Serial, SerialInv, crashed = "no", NEW p \in Player,
         PreLogin(p) \/ \E chunk \in Chunk : Move(p, chunk)
  PROVE  FoundInv' /\ NumbersInv' /\ ListsInv' /\ OtherInv' /\ SightInv' /\ crashed' # "list"
<1> USE DEF SerialInv
<1>0. \A q \in Player \ {p} : pc[q] \in Resting
  BY OthersRest DEF Busy, Resting, PreLogin, Move, Goto
<1>1. /\ \A q \in Player \ {p} : pc'[q] = pc[q] /\ seen'[q] = seen[q]
      /\ pc[p] \in {"prelogin", "in"} /\ pc'[p] = "visit"
      /\ position' = position /\ UNCHANGED world
  BY DEF TypesInv, PreLogin, Move, Goto, CreateSeenPlayers, world
<1>2. \A q \in Player \ {p} : q \in todo'[p] <=> pc[q] = "in"
  <2>1. todo'[p] = Listed \ {p}
    BY DEF TypesInv, PreLogin, Move, CheckPlayersInRegion, Others
  <2>2. \A q \in Player \ {p} : q \in Present <=> pc[q] = "in"
    BY <1>0 DEF Present, Resting
  <2>3. Listed \subseteq Present /\ Present \subseteq Listed
    BY WorldAssumption DEF TypesInv, NamesInv, FoundInv, Found, Listed, Present
  <2>4. QED
    BY <2>1, <2>2, <2>3
<1>3. todo'[p] \subseteq Player \ {p} /\ \A q \in Player \ {p} : todo'[q] = todo[q]
  BY ListedType DEF TypesInv, PreLogin, Move, CheckPlayersInRegion, Others
<1>4. \/ seen'[p] = seen[p] /\ pc[p] = "in"
      \/ seen'[p] = {} /\ pc[p] = "prelogin"
  BY DEF TypesInv, PreLogin, Move, Goto, CreateSeenPlayers
<1>5. crashed' # "list"
  BY NoListMissing DEF PreLogin, Move, Announce
<1>6. p \in Present /\ p \in Present' /\ Present' = Present
  BY <1>1 DEF Present
<1>7. FoundInv' /\ NumbersInv'
  BY <1>1, <1>6, WorldUnmoved
<1>8. ListsInv'
  <2>1. \A q \in Player : pc'[q] \in {"in"} \cup Checking => seen'[q] \subseteq Present' \ {q}
    BY <1>1, <1>4, <1>6 DEF ListsInv
  <2>2. \A q \in Player : pc'[q] \in Checking \cup {"leave"} => q = p
    BY <1>0, <1>1 DEF Checking, Resting
  <2>3. \A r \in todo'[p] : r # p /\ pc'[r] = "in"
    BY <1>1, <1>2, <1>3
  <2>4. QED
    BY <2>1, <2>2, <2>3 DEF ListsInv
<1>9. OtherInv'
  BY <1>0, <1>1 DEF OtherInv, Checking, Resting
<1>10. SightInv'
  <2>1. ASSUME NEW q \in Player \ {p}, pc[q] = "in"
        PROVE  (Settled(p, q) /\ Settling(p, q) /\ Leaving(p, q))'
    <3>1. q \in todo'[p]
      BY <1>2, <2>1
    <3>2. q \in seen'[p] <=> p \in seen[q]
      <4>1. CASE pc[p] = "in"
        BY <1>4, <2>1, <4>1 DEF SightInv, Settled, Agreed
      <4>2. CASE pc[p] = "prelogin"
        BY <1>4, <2>1, <4>2 DEF SightInv, Leaving, Checking
      <4>3. QED
        BY <1>1, <4>1, <4>2
    <3>3. QED
      BY <1>1, <3>1, <3>2 DEF Settled, Settling, Leaving, Checking
  <2>2. QED
    BY <1>0, <1>1, <2>1, SightFromPairs
<1>11. QED
  BY <1>5, <1>7, <1>8, <1>9, <1>10

(* The steps of an iteration before it ends: the player at hand is settled *)
(* behind Greet, PartOther, or at once.                                    *)
LEMMA IterationStep ==
  ASSUME TypesInv, NamesInv, AloneInv, Serial, SerialInv, crashed = "no", NEW p \in Player,
         \/ Meet(p) \/ Greet(p) \/ PartOwn(p) \/ PartOther(p)
         \/ \E q \in Player : Visit(p, q)
  PROVE  FoundInv' /\ NumbersInv' /\ ListsInv' /\ OtherInv' /\ SightInv' /\ crashed' # "list"
<1> USE DEF SerialInv
<1>0. /\ \A q \in Player \ {p} : pc[q] \in Resting
      /\ pc[p] \in Checking /\ pc'[p] \in Checking
      /\ \A q \in Player \ {p} : pc'[q] = pc[q] /\ todo'[q] = todo[q]
      /\ todo'[p] \subseteq todo[p]
      /\ UNCHANGED <<world, position, target>>
  <2>1. /\ pc[p] \in Checking /\ pc'[p] \in Checking
        /\ \A q \in Player \ {p} : pc'[q] = pc[q] /\ todo'[q] = todo[q]
        /\ todo'[p] \subseteq todo[p]
        /\ UNCHANGED <<world, position, target>>
    BY DEF TypesInv, Meet, Greet, PartOwn, PartOther, Visit, Goto, Checking, world
  <2>2. p \in Busy
    BY <2>1 DEF Busy, Checking
  <2>3. QED
    BY <2>1, <2>2, OthersRest
<1>1. Present' = Present /\ p \in Present /\ \A q \in Player : pc[q] = "in" => q \in Present
  BY <1>0 DEF Present, Checking
<1>2. FoundInv' /\ NumbersInv'
  BY <1>0, <1>1, WorldUnmoved
(* The lists that change are those of p and of the player at hand.         *)
<1>3. \A q \in Player \ {p} : \A r \in Player \ {p} : r \in seen'[q] <=> r \in seen[q]
  BY <1>0, WorldAssumption DEF TypesInv, OtherInv, Meet, Greet, PartOwn, PartOther, Visit, Enter, Erase, Checking
<1>4. pc[p] \in Checking \ {"visit"} =>
         other[p] \in Present /\ other[p] \in Player /\ other[p] # p /\ seen[other[p]] # None
  BY <1>1 DEF TypesInv, OtherInv
<1>5. crashed' # "list"
  <2>1. CASE Meet(p) \/ Greet(p) \/ PartOther(p)
    BY <1>4, <2>1, NoListMissing DEF Meet, Greet, PartOther, Enter, Erase, SendNamedPlayerSpawn,
       SendDestroyEntity, Goto, Checking
  <2>2. CASE PartOwn(p) \/ \E q \in Player : Visit(p, q)
    BY <2>2 DEF PartOwn, Visit
  <2>3. QED
    BY <2>1, <2>2
<1>6. ASSUME NEW q \in Player, seen[q] # None, NEW r \in seen'[q], r \notin seen[q]
      PROVE  pc[p] \in Checking \ {"visit"} /\ {q, r} = {p, other[p]}
  <2> USE <1>4, <1>6 DEF TypesInv, Goto, Checking
  <2>1. CASE Meet(p)
    BY <2>1 DEF Meet
  <2>2. CASE Greet(p)
    BY <2>2 DEF Greet, Enter
  <2>3. CASE PartOwn(p)
    BY <2>3 DEF PartOwn
  <2>4. CASE PartOther(p)
    BY <2>4 DEF PartOther, Erase
  <2>5. CASE \E s \in Player : Visit(p, s)
    BY <2>5 DEF Visit
  <2>6. QED
    BY <2>1, <2>2, <2>3, <2>4, <2>5
<1>7. ListsInv'
  <2>1. ASSUME NEW q \in Player, pc'[q] \in {"in"} \cup Checking
        PROVE  seen'[q] \subseteq Present' \ {q}
    <3>1. pc[q] \in {"in"} \cup Checking
      BY <1>0, <2>1
    <3>2. seen[q] \subseteq Present \ {q} /\ seen[q] # None
      BY <3>1 DEF ListsInv, TypesInv
    <3>3. QED
      BY <1>1, <1>4, <1>6, <3>2
  <2>2. \A q \in Player : pc'[q] \in Checking \cup {"leave"} => q = p
    BY <1>0 DEF Checking, Resting
  <2>3. \A r \in todo'[p] : r # p /\ pc'[r] = "in"
    BY <1>0 DEF ListsInv, TypesInv
  <2>4. QED
    BY <2>1, <2>2, <2>3 DEF ListsInv
<1>8. OtherInv'
  <2>1. \A q \in Player \ {p} : pc'[q] \notin Checking
    BY <1>0 DEF Resting, Checking
  <2>2. CASE Meet(p) \/ PartOwn(p)
    BY <1>0, <2>1, <2>2 DEF TypesInv, OtherInv, Meet, PartOwn, Goto, Checking
  <2>3. CASE Greet(p) \/ PartOther(p)
    BY <1>0, <2>1, <2>3 DEF TypesInv, OtherInv, Greet, PartOther, Goto, Checking
  <2>4. ASSUME NEW q \in Player, Visit(p, q) PROVE OtherInv'
    BY <1>0, <2>1, <2>4 DEF TypesInv, OtherInv, ListsInv, Visit, Goto, Checking
  <2>5. QED
    BY <2>2, <2>3, <2>4
<1>9. SightInv'
  <2>1. ASSUME NEW q \in Player \ {p}, pc[q] = "in"
        PROVE  (Settled(p, q) /\ Settling(p, q) /\ Leaving(p, q))'
    <3> USE <1>0, <2>1 DEF Agreed, AtHand, Checking
    <3>1. Settling(p, q)
      BY DEF SightInv
    <3>2. CASE Meet(p)
      BY <3>1, <3>2 DEF TypesInv, OtherInv, Settling, Settled, Leaving, Meet, Goto
    <3>3. CASE Greet(p)
      BY <3>1, <3>3 DEF TypesInv, OtherInv, Settling, Settled, Leaving, Greet, Enter, Goto
    <3>4. CASE PartOwn(p)
      BY <3>1, <3>4 DEF TypesInv, OtherInv, Settling, Settled, Leaving, PartOwn
    <3>5. CASE PartOther(p)
      BY <3>1, <3>5 DEF TypesInv, OtherInv, Settling, Settled, Leaving, PartOther, Erase, Goto
    <3>6. ASSUME NEW r \in Player, Visit(p, r)
          PROVE  (Settled(p, q) /\ Settling(p, q) /\ Leaving(p, q))'
      BY <3>1, <3>6 DEF TypesInv, OtherInv, Settling, Settled, Leaving, Visit, Goto
    <3>7. QED
      BY <3>2, <3>3, <3>4, <3>5, <3>6
  <2>2. pc'[p] # "in"
    BY <1>0 DEF Checking
  <2>3. \A q \in Player \ {p} : position'[q] = position[q]
    BY <1>0
  <2>4. QED
    BY <1>0, <1>3, <2>1, <2>2, <2>3, SightFromPairs
<1>10. QED
  BY <1>2, <1>5, <1>7, <1>8, <1>9

(* The iteration is over: nobody is left to visit, all pairs are settled,  *)
(* by the place that becomes the position of p.                            *)
LEMMA EndStep ==
  ASSUME TypesInv, NamesInv, AloneInv, Serial, SerialInv, crashed = "no", NEW p \in Player, SendUpdatePos(p)
  PROVE  FoundInv' /\ NumbersInv' /\ ListsInv' /\ OtherInv' /\ SightInv' /\ crashed' # "list"
<1> USE DEF SerialInv
<1>0. /\ pc[p] = "visit" /\ pc'[p] = "in" /\ todo[p] = {}
      /\ \A q \in Player \ {p} : pc'[q] = pc[q] /\ position'[q] = position[q]
      /\ position'[p] = target[p] /\ target[p] \in Chunk
      /\ UNCHANGED <<world, seen, target, todo, other>>
  BY DEF TypesInv, SendUpdatePos, Goto
<1>1. \A q \in Player \ {p} : pc[q] \in Resting
  BY <1>0, OthersRest DEF Busy
<1>2. crashed' # "list"
  BY <1>0, NoListMissing DEF SendUpdatePos, Checking
<1>3. Present' = Present /\ p \in Present
  BY <1>0 DEF Present
<1>4. FoundInv' /\ NumbersInv'
  BY <1>0, <1>3, WorldUnmoved
<1>5. ListsInv' /\ OtherInv'
  BY <1>0, <1>1, <1>3 DEF ListsInv, OtherInv, Checking, Resting
<1>6. ASSUME NEW q \in Player \ {p}, pc[q] = "in"
      PROVE  Agreed(p, q, target[p])
  BY <1>0, <1>6 DEF SightInv, Settling, AtHand, Checking
<1>7. SightInv'
  <2>1. ASSUME NEW q \in Player \ {p}, pc[q] = "in"
        PROVE  (Settled(p, q) /\ Settling(p, q) /\ Leaving(p, q))'
    BY <1>0, <1>6, <2>1 DEF Settled, Settling, Leaving, Agreed, Checking
  <2>2. ASSUME NEW q \in Player \ {p}
        PROVE  (Settled(q, p) /\ Settling(q, p) /\ Leaving(q, p))'
    <3>1. CASE pc[q] = "in"
      <4>1. InSight(target[p], position[q]) <=> InSight(position[q], target[p])
        BY <1>0, InSightSymmetric DEF TypesInv
      <4>2. QED
        BY <1>0, <1>6, <3>1, <4>1 DEF Settled, Settling, Leaving, Agreed, Checking
    <3>2. CASE pc[q] # "in"
      <4>1. q \notin seen[p]
        BY <1>0, <1>1, <3>2 DEF ListsInv, Present, Resting, Checking
      <4>2. QED
        BY <1>0, <1>1, <3>2, <4>1 DEF Settled, Settling, Leaving, Resting, Checking
    <3>3. QED
      BY <3>1, <3>2
  <2>3. QED
    BY <1>0, <1>1, <2>1, <2>2, SightFromPairs
<1>8. QED
  BY <1>2, <1>4, <1>5, <1>7

(* A logout takes the player out of the lists he is in: they are those of  *)
(* the players in his own.                                                 *)
LEMMA LogoutStep ==
  ASSUME TypesInv, NamesInv, AloneInv, Serial, SerialInv, crashed = "no", NEW p \in Player,
         Logout(p) \/ \E q \in Player : Farewell(p, q)
  PROVE  FoundInv' /\ NumbersInv' /\ ListsInv' /\ OtherInv' /\ SightInv' /\ crashed' # "list"
<1> USE DEF SerialInv
<1>0. /\ pc[p] \in {"in", "leave"} /\ pc'[p] = "leave"
      /\ \A q \in Player \ {p} : pc'[q] = pc[q] /\ todo'[q] = todo[q]
      /\ UNCHANGED <<world, position, target, other>>
  BY DEF TypesInv, Logout, Farewell, Goto
<1>1. \A q \in Player \ {p} : pc[q] \in Resting
  BY OthersRest DEF Logout, Farewell, Busy
<1>2. Present' = Present /\ p \in Present
  BY <1>0 DEF Present
<1>3. FoundInv' /\ NumbersInv'
  BY <1>0, <1>2, WorldUnmoved
<1>4. \A q \in Player \ {p} : seen'[q] = seen[q] \/ (pc[p] = "leave" /\ seen'[q] = seen[q] \ {p})
  <2>1. CASE Logout(p)
    BY <2>1 DEF TypesInv, Logout
  <2>2. ASSUME NEW r \in Player, Farewell(p, r), NEW q \in Player \ {p}
        PROVE  seen'[q] = seen[q] \/ (pc[p] = "leave" /\ seen'[q] = seen[q] \ {p})
    BY <2>2 DEF TypesInv, Farewell, Erase
  <2>3. QED
    BY <2>1, <2>2
<1>5. \A q \in todo'[p] : q \in Player /\ q # p /\ pc[q] = "in"
  <2>1. CASE Logout(p)
    <3>1. todo'[p] = seen[p] /\ pc[p] = "in"
      BY <2>1 DEF TypesInv, Logout, Goto
    <3>2. QED
      BY <1>1, <3>1 DEF TypesInv, ListsInv, Present, Resting
  <2>2. CASE \E q \in Player : Farewell(p, q)
    BY <2>2 DEF TypesInv, ListsInv, Farewell
  <2>3. QED
    BY <2>1, <2>2
<1>6. crashed' # "list"
  <2>1. CASE Logout(p)
    BY <2>1, NoListMissing DEF Logout, Announce
  <2>2. ASSUME NEW q \in Player, Farewell(p, q) PROVE crashed' # "list"
    <3>1. pc[q] = "in" /\ seen[q] # None
      BY <2>2 DEF TypesInv, ListsInv, Farewell
    <3>2. q \in Present
      BY <3>1 DEF Present
    <3>3. QED
      BY <2>2, <3>1, <3>2, NoListMissing DEF Farewell, Erase, SendDestroyEntity
  <2>3. QED
    BY <2>1, <2>2
<1>7. ListsInv'
  <2>1. ASSUME NEW q \in Player, pc'[q] \in {"in"} \cup Checking
        PROVE  seen'[q] \subseteq Present' \ {q}
    <3>1. q # p /\ pc[q] \in {"in"} \cup Checking
      BY <1>0, <2>1 DEF Checking
    <3>2. QED
      BY <1>2, <1>4, <3>1 DEF ListsInv
  <2>2. \A q \in Player : pc'[q] \in Checking \cup {"leave"} => q = p
    BY <1>0, <1>1 DEF Checking, Resting
  <2>3. QED
    BY <1>0, <1>5, <2>1, <2>2 DEF ListsInv
<1>8. OtherInv'
  BY <1>0, <1>1 DEF OtherInv, Checking, Resting
<1>9. SightInv'
  <2>1. ASSUME NEW q \in Player \ {p}, pc[q] = "in"
        PROVE  (Settled(p, q) /\ Settling(p, q) /\ Leaving(p, q))'
    <3>1. p \in seen'[q] => q \in todo'[p]
      <4>1. CASE Logout(p)
        BY <2>1, <4>1 DEF TypesInv, SightInv, Settled, Agreed, Logout, Goto
      <4>2. ASSUME NEW r \in Player, Farewell(p, r) PROVE p \in seen'[q] => q \in todo'[p]
        <5>1. pc[r] = "in" /\ seen[r] # None
          BY <4>2 DEF TypesInv, ListsInv, Farewell
        <5>2. QED
          BY <2>1, <4>2, <5>1 DEF TypesInv, SightInv, Leaving, Farewell, Erase
      <4>3. QED
        BY <4>1, <4>2
    <3>2. QED
      BY <1>0, <3>1 DEF Settled, Settling, Leaving, Checking
  <2>2. \A q \in Player \ {p} : \A r \in Player \ {p} : r \in seen'[q] <=> r \in seen[q]
    BY <1>4
  <2>3. QED
    BY <1>0, <1>1, <2>1, <2>2, SightFromPairs
<1>10. QED
  BY <1>3, <1>6, <1>7, <1>8, <1>9

(* He is taken out of the world when nobody has him in a list any more.    *)
LEMMA GoneStep ==
  ASSUME TypesInv, NamesInv, AloneInv, Serial, SerialInv, crashed = "no", NEW p \in Player,
         RemovePlayer(p) \/ DestroyClient(p)
  PROVE  FoundInv' /\ NumbersInv' /\ ListsInv' /\ OtherInv' /\ SightInv' /\ crashed' # "list"
<1> USE DEF SerialInv
<1>0. /\ \/ pc[p] = "leave" /\ pc'[p] = "removed"
         \/ pc[p] \in {"out", "kicked", "removed"} /\ pc'[p] = "freed"
      /\ \A q \in Player \ {p} : pc'[q] = pc[q]
      /\ UNCHANGED <<name, entityId, lastId, position, seen, target, todo, other, crashed>>
      /\ \A q \in Player \ {p} : pc[q] = "in" => p \notin seen[q]
  <2>1. CASE RemovePlayer(p)
    <3>1. pc[p] = "leave" /\ todo[p] = {}
      BY <2>1 DEF RemovePlayer, Goto
    <3>2. \A q \in Player \ {p} : pc[q] = "in" => p \notin seen[q]
      BY <3>1 DEF SightInv, Leaving
    <3>3. QED
      BY <2>1, <3>1, <3>2 DEF TypesInv, RemovePlayer, Goto
  <2>2. CASE DestroyClient(p)
    BY <2>2 DEF TypesInv, SightInv, Leaving, DestroyClient, Goto, world, Checking
  <2>3. QED
    BY <2>1, <2>2
<1>1. CASE pc[p] \in {"out", "kicked", "removed"}
  <2>1. Present' = Present /\ players' = players
    BY <1>0, <1>1 DEF RemovePlayer, DestroyClient, Goto, Present, world
  <2>2. \A q \in Player : pc'[q] # pc[q] => pc'[q] = "freed" /\ pc[q] \in {"out", "kicked", "removed"}
    BY <1>0, <1>1
  <2>3. FoundInv' /\ NumbersInv'
    BY <1>0, <2>1, <2>2 DEF FoundInv, Found, NumbersInv, Present, Arriving
  <2>4. ListsInv' /\ OtherInv'
    BY <1>0, <2>1, <2>2 DEF TypesInv, ListsInv, OtherInv, Checking
  <2>5. SightInv'
    BY <1>0, <2>2 DEF SightInv, Settled, Settling, Leaving, Agreed, AtHand, Checking
  <2>6. QED
    BY <1>0, <2>3, <2>4, <2>5
<1>2. CASE pc[p] = "leave"
  <2>0. RemovePlayer(p)
    BY <1>2 DEF DestroyClient, Goto
  <2>1. \A q \in Player \ {p} : pc[q] \in Resting
    BY <1>2, OthersRest DEF Busy
  <2>2. Present' = Present \ {p}
    BY <1>0, <1>2 DEF Present
  <2>3. \A q \in Player \ {p} : pc[q] \notin Arriving
    BY <2>1 DEF Resting, Arriving
  <2>4. FoundInv' /\ NumbersInv'
    <3>1. FoundInv'
      <4>1. \A q \in Player : pc'[q] \notin Arriving
        BY <1>0, <1>2, <2>3 DEF Arriving
      <4>2. ASSUME NEW q \in Present \ {p} PROVE players'[name[q]] = q
        <5>1. players[name[q]] = q /\ players[name[p]] = p
          BY <1>2 DEF FoundInv, Found, Present
        <5>2. q \in Player /\ players' = [players EXCEPT ![name[p]] = None]
          BY <2>0 DEF RemovePlayer, Delete, Present
        <5>3. QED
          BY <5>1, <5>2 DEF TypesInv
      <4>3. QED
        BY <1>0, <2>2, <4>1, <4>2 DEF FoundInv, Found
    <3>2. NumbersInv'
      BY <1>0, <1>2, <2>2 DEF NumbersInv
    <3>3. QED
      BY <3>1, <3>2
  <2>5. ListsInv' /\ OtherInv'
    <3>1. \A q \in Player : pc'[q] \notin Checking \cup {"leave"}
      BY <1>0, <1>2, <2>1 DEF Checking, Resting
    <3>2. QED
      BY <1>0, <1>2, <2>2, <3>1 DEF ListsInv, OtherInv, Checking
  <2>6. SightInv'
    <3>1. \A q \in Player \ {p} : pc[q] = "in" =>
              (Settled(p, q) /\ Settling(p, q) /\ Leaving(p, q))'
      BY <1>0, <1>2 DEF Settled, Settling, Leaving, Checking
    <3>2. pc'[p] # "in"
      BY <1>0, <1>2
    <3>3. QED
      BY <1>0, <2>1, <3>1, <3>2, SightFromPairs
  <2>7. QED
    BY <1>0, <2>4, <2>5, <2>6
<1>3. QED
  BY <1>0, <1>1, <1>2

SightIInv == TypesInv /\ NamesInv /\ AloneInv /\ SerialInv

LEMMA SightInit == Init => SightIInv
<1> SUFFICES ASSUME Init PROVE SightIInv
  OBVIOUS
<1>0. TypesInv
  BY TypesInit
<1>1. \A p \in Player : pc[p] = "out" /\ seen[p] = None
  BY DEF Init
<1>2. Busy = {} /\ Present = {}
  BY <1>1 DEF Busy, Present
<1>3. NamesInv /\ AloneInv
  BY <1>2, FS_EmptySet DEF Init, NamesInv, AloneInv
<1>4. FoundInv /\ NumbersInv /\ ListsInv /\ OtherInv /\ SightInv
  BY <1>1, <1>2 DEF FoundInv, NumbersInv, ListsInv, OtherInv, SightInv, Arriving, Checking
<1>5. QED
  BY <1>0, <1>3, <1>4 DEF Init, SightIInv, SerialInv, HauntInv

(* Whose freed client a step may have used: the players the step reaches   *)
(* are all in the world, before it and after it.                           *)
LEMMA ReachedOne ==
  ASSUME crashed = "no", crashed' = "freed", NEW group, Reach(group)
  PROVE  \E q \in group : Freed(q)
BY DEF Reach

LEMMA HauntStep ==
  ASSUME TypesInv, NamesInv, Serial, SerialInv, crashed = "no",
         TimeUpdate \/ \E p \in Player : Step(p), UNCHANGED latest
  PROVE  HauntInv'
<1> SUFFICES ASSUME crashed' = "freed" PROVE \E q \in Present' : Freed(q)'
  BY DEF HauntInv
<1> USE DEF SerialInv
<1>0. Listed \subseteq Present
  BY DEF NamesInv, Listed
<1>1. \E q \in Present : Freed(q) /\ q \in Present' /\ pc'[latest[q]] = "freed"
  <2>1. ASSUME UNCHANGED pc, NEW group, group \subseteq Present, Reach(group)
        PROVE  \E q \in Present : Freed(q) /\ q \in Present' /\ pc'[latest[q]] = "freed"
    BY <2>1, ReachedOne DEF Present, Freed
  <2>2. ASSUME NEW p \in Player, NEW to \in {"in", "visit", "leave"}, NEW from, Goto(p, from, to),
               from \in {"prelogin", "in"} \cup Checking,
               NEW group, group \subseteq Present, Reach(group)
        PROVE  \E q \in Present : Freed(q) /\ q \in Present' /\ pc'[latest[q]] = "freed"
    <3>1. PICK q \in group : Freed(q)
      BY <2>2, ReachedOne
    <3>2. \A r \in Player : pc'[r] = pc[r] \/ (r = p /\ pc[r] \in {"prelogin", "in"} \cup Checking
                                              /\ pc'[r] = to)
      BY <2>2 DEF TypesInv, Goto
    <3>3. q \in Present /\ q \in Player /\ latest[q] \in Player
      BY <2>2, <3>1 DEF Present, TypesInv
    <3>4. q \in Present'
      BY <2>2, <3>2, <3>3 DEF Present
    <3>5. pc'[latest[q]] = "freed"
      BY <3>1, <3>2, <3>3 DEF Freed, Checking
    <3>6. QED
      BY <3>1, <3>3, <3>4, <3>5
  <2>3. CASE TimeUpdate
    BY <1>0, <2>1, <2>3 DEF TimeUpdate, WorldBroadcast
  <2>4. ASSUME NEW p \in Player, Step(p)
        PROVE  \E q \in Present : Freed(q) /\ q \in Present' /\ pc'[latest[q]] = "freed"
    <3>1. pc[p] \in {"in"} \cup Checking => seen[p] \subseteq Present
      BY DEF ListsInv
    <3>2. pc[p] \in Checking \ {"visit"} => {other[p]} \subseteq Present
      BY DEF TypesInv, OtherInv, Present
    <3>3. \A q \in todo[p] : pc[p] = "leave" => {q} \subseteq Present
      BY DEF TypesInv, ListsInv, Present
    <3>4. CASE Look(p)
      BY <2>1, <3>1, <3>4 DEF Look, Tell
    <3>5. CASE ChatCommand(p)
      <4>1. CASE WorldBroadcast
        BY <1>0, <2>1, <3>5, <4>1 DEF ChatCommand, WorldBroadcast
      <4>2. ASSUME NEW q \in Listed, SendTo(q)
            PROVE  \E r \in Present : Freed(r) /\ r \in Present' /\ pc'[latest[r]] = "freed"
        <5>1. UNCHANGED pc /\ {q} \subseteq Present /\ Reach({q})
          BY <1>0, <3>5, <4>2 DEF ChatCommand, SendTo
        <5>2. QED
          BY <2>1, <5>1
      <4>3. QED
        BY <3>5, <4>1, <4>2 DEF ChatCommand
    <3>6. CASE PreLogin(p)
      BY <1>0, <2>2, <3>6 DEF PreLogin, Announce, WorldBroadcast
    <3>7. CASE Logout(p)
      BY <1>0, <2>2, <3>7 DEF Logout, Announce, WorldBroadcast
    <3>8. CASE SendUpdatePos(p)
      <4>1. Goto(p, "visit", "in") /\ Reach(seen[p]) /\ seen[p] \subseteq Present
        BY <3>1, <3>8 DEF SendUpdatePos, Tell, Goto, Checking
      <4>2. QED
        BY <2>2, <4>1 DEF Checking
    <3>9. CASE Meet(p)
      <4>1. Goto(p, "meet", "greet") /\ Reach({other[p]}) /\ {other[p]} \subseteq Present
        BY <3>2, <3>9 DEF Meet, SendNamedPlayerSpawn, SendTo, Goto, Checking
      <4>2. PICK q \in Present : q = other[p] /\ Freed(q)
        BY <4>1, ReachedOne
      <4>3. q \in Player /\ latest[q] \in Player /\ pc[latest[q]] = "freed"
        BY <4>2 DEF Present, TypesInv, Freed
      <4>4. q \in Present' /\ pc'[latest[q]] = "freed"
        BY <4>1, <4>3 DEF Goto, Present, TypesInv
      <4>5. QED
        BY <4>2, <4>4
    <3>10. CASE Greet(p) \/ PartOther(p)
      <4>1. /\ \E from \in Checking : Goto(p, from, "visit")
            /\ Reach({other[p]}) /\ {other[p]} \subseteq Present
        BY <3>2, <3>10 DEF Greet, PartOther, Enter, Erase, SendNamedPlayerSpawn,
           SendDestroyEntity, SendTo, Goto, Checking
      <4>2. QED
        BY <2>2, <4>1
    <3>11. ASSUME NEW q \in Player, Farewell(p, q)
           PROVE  \E r \in Present : Freed(r) /\ r \in Present' /\ pc'[latest[r]] = "freed"
      <4>1. UNCHANGED pc /\ {q} \subseteq Present /\ Reach({q})
        BY <3>3, <3>11 DEF Farewell, Erase, SendDestroyEntity, SendTo
      <4>2. QED
        BY <2>1, <4>1
    <3>12. \/ Look(p) \/ ChatCommand(p) \/ PreLogin(p) \/ Logout(p) \/ SendUpdatePos(p)
           \/ Meet(p) \/ Greet(p) \/ PartOther(p) \/ \E q \in Player : Farewell(p, q)
      BY <2>4 DEF Step, Handler, Login, LoginAgain, Move, DestroyClient, GenerateEntityId,
         StoreEntityId, PutPlayer, PartOwn, Visit, RemovePlayer
    <3>13. QED
      BY <3>4, <3>5, <3>6, <3>7, <3>8, <3>9, <3>10, <3>11, <3>12
  <2>5. QED
    BY <2>3, <2>4
<1>2. QED
  BY <1>1 DEF Freed

LEMMA SightStep == SightIInv /\ [Next]_vars => SightIInv'
<1> SUFFICES ASSUME SightIInv, [Next]_vars PROVE SightIInv'
  OBVIOUS
<1> USE DEF SightIInv
<1>1. TypesInv' /\ NamesInv' /\ AloneInv'
  BY TypesStep, NamesStep, AloneStep
<1>2. Serial' <=> Serial
  BY DEF Next, Serial, vars
<1>3. ASSUME Serial
      PROVE  /\ FoundInv' /\ NumbersInv' /\ ListsInv' /\ OtherInv' /\ SightInv'
             /\ crashed' # "list" /\ HauntInv'
  <2> USE <1>3
  <2>0. /\ crashed # "list" /\ HauntInv
        /\ FoundInv /\ NumbersInv /\ ListsInv /\ OtherInv /\ SightInv
    BY DEF SerialInv
  <2>1. CASE UNCHANGED vars
    BY <2>0, <2>1, Unmoved DEF vars, world, HauntInv, Present, Freed
  <2>2. ASSUME crashed = "no", NEW p \in Player, NEW q \in Player, Handshake(p, q)
        PROVE  /\ FoundInv' /\ NumbersInv' /\ ListsInv' /\ OtherInv' /\ SightInv'
               /\ crashed' # "list" /\ HauntInv'
    <3>1. UNCHANGED <<players, name, entityId, lastId, position, seen, pc, target, todo, other>>
      BY <2>2 DEF Handshake, world
    <3>2. crashed' = "no"
      BY <2>2 DEF Handshake
    <3>3. QED
      BY <2>0, <3>1, <3>2, Unmoved DEF HauntInv
  <2>3. ASSUME crashed = "no", UNCHANGED latest, TimeUpdate \/ \E p \in Player : Step(p)
        PROVE  /\ FoundInv' /\ NumbersInv' /\ ListsInv' /\ OtherInv' /\ SightInv'
               /\ crashed' # "list" /\ HauntInv'
    <3>0. HauntInv'
      BY <2>3, HauntStep
    <3>1. CASE \/ TimeUpdate
               \/ \E p \in Player : LoginAgain(p) \/ Look(p) \/ ChatCommand(p)
      <4>1. UNCHANGED <<players, name, entityId, lastId, position, seen, pc, target, todo, other>>
        BY <3>1 DEF TimeUpdate, LoginAgain, Look, ChatCommand, world
      <4>2. Listed \subseteq Player
        BY ListedType
      <4>3. crashed' # "list"
        BY <2>3, <3>1, <4>2, NoListMissing DEF TimeUpdate, LoginAgain, Look, ChatCommand
      <4>4. QED
        BY <2>0, <3>0, <4>1, <4>3, Unmoved
    <3>2. ASSUME NEW p \in Player,
                 \/ Login(p) \/ Logout(p) \/ DestroyClient(p) \/ Handler(p)
                 \/ \E chunk \in Chunk : Move(p, chunk)
          PROVE  FoundInv' /\ NumbersInv' /\ ListsInv' /\ OtherInv' /\ SightInv' /\ crashed' # "list"
      BY <1>1, <2>3, <3>2, ArrivalStep, BeginStep, IterationStep, EndStep, LogoutStep, GoneStep
         DEF Handler
    <3>3. QED
      BY <2>3, <3>0, <3>1, <3>2 DEF Step
  <2>4. QED
    BY <2>1, <2>2, <2>3 DEF Next
<1>4. QED
  BY <1>1, <1>2, <1>3 DEF SerialInv

LEMMA SightHolds == Spec => []SightIInv
BY SightInit, SightStep, PTL DEF Spec

(* SV_WorldAddPlayer, with one worker: everyone in the world is found      *)
(* there, and his entity's number is his alone.                            *)
THEOREM EveryPlayerIsFound == Spec => []EveryoneIsFound
<1>1. SightIInv => EveryoneIsFound
  BY DEF SightIInv, SerialInv, FoundInv, NumbersInv, EveryoneIsFound
<1>2. QED
  BY <1>1, SightHolds, PTL

(* cdsurvival_CheckPlayersInRegion and Player.logout, with one worker: the *)
(* lists of seen players are those of the players near, also of those left *)
(* behind by a second handshake; no list is missing on the way, and a      *)
(* freed client is used only if it is that of a player left behind.        *)
THEOREM SightIsMutual == Spec => []SeesWhoIsNear
<1>1. ASSUME SightIInv, Serial, Quiet, NEW p \in Present
      PROVE  seen[p] = {q \in Present \ {p} : InSight(position[p], position[q])}
  <2>1. \A q \in Present : q \in Player /\ pc[q] = "in"
    BY <1>1 DEF Quiet, Busy, Present
  <2>2. seen[p] \subseteq Present \ {p}
    BY <1>1, <2>1 DEF SightIInv, SerialInv, ListsInv
  <2>3. \A q \in Present \ {p} : q \in seen[p] <=> InSight(position[p], position[q])
    BY <1>1, <2>1 DEF SightIInv, SerialInv, SightInv, Settled, Agreed
  <2>4. QED
    BY <2>2, <2>3
<1>2. SightIInv => SeesWhoIsNear
  BY <1>1 DEF SightIInv, SerialInv, HauntInv, SeesWhoIsNear, Present, Freed, Served
<1>3. QED
  BY <1>2, SightHolds, PTL

==============================================================================
