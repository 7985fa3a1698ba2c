# craftd in TLA+

craftd is a Minecraft server in C. One thread runs libevent and accepts, reads and
frees clients; a second one runs timers; a pool of workers runs the event handlers
that plugins have registered. This directory models the parts in which those
threads meet, checks them with TLC on small instances and proves what matters most
of them with TLAPS for every size. Everything is translated from the C source
(paths below are relative to the repository); the header comments and tests are
used only to know what the code is supposed to do.

## 1. The system

| component | state | operations | talks to |
|---|---|---|---|
| Client life cycle (`Server.c`, `Worker.c`, `Client.c`, `Job.c`) | `client->status`, `client->jobs` (a byte), the input buffer, `server->clients`, `server->disconnecting` | accept, read callback, error callback, kick, the Connect, Process and Disconnect jobs, clean-up | worker pool by jobs, plugins by events |
| Worker pool (`Workers.c`, `Worker.c`) | `workers->jobs`, one mutex and condition, `working` and `stopped` of each worker | spawn, add a job, take a job, stop | every thread that adds a job |
| Hashes and maps (`Hash.c`, `Map.c`, `klib/khash.h`) | an open addressing table, a lock | put, get, delete, clear, loops | names, entities, events, timers, plugins |
| Sets (`Set.c`) | chained buckets, a prime number of them | put, delete, union, intersection, minus, difference | the chunks a player has |
| Event system (`Event.c`, `Event.h`) | a hash from names to lists of callbacks with priorities | register, unregister, dispatch | everything; a dispatch holds the list's read lock |
| Linked list (`List.c`) | items on the heap, head, tail, a cached length, a lock | push, sorted push, shift, delete, clear, sort, length | jobs, clients, callbacks, seen players |
| World and players (`World.c`, `Player.c`, base plugin's `callbacks.c`) | `world->players`, entity numbers, positions, `Player.seenPlayers` of each player | login, move, logout | runs inside Process and Disconnect jobs |
| Loaded chunks, inventory, clock (base plugin, `minecraft.h`, `World.c`) | `Player.loadedChunks`, slots, `world->time` | walk, dig, take, drop, tick | handlers of one client; the clock's timer |
| Chunk source and generators (nbt and mapgen plugins) | files, registered generators | create a world, give a chunk | events `World.*` and `Mapgen.*` |
| Time loop (`TimeLoop.c`) | a map from ids to timers, its own event base and thread | set and clear timeouts and intervals, run, stop | plugins' intervals, handlers' timeouts |
| Server start and stop (`craftd.c`, `Server.c`, base `main.c`) | the event bases, `running`, the list of worlds | run, stop, destroy | all threads |
| Packets (`PacketLength.c`, `Packet.c`, `Buffer.c`) | the input buffer and its low watermark | is there a whole packet, parse, encode, destroy | the read callbacks of server and proxy |
| Chat, proxy, httpd, scripting, logging, strings, configuration | small | handlers, wrappers | events |

What is hard here:

* **Interleavings.** The handlers of two clients run on two workers; those of one
  client are kept apart only by `client->status`. The locks are per object, so
  anything done in two calls (look up a name, then store it; measure a list, then
  empty it; fetch another player's list, then change it) can be interrupted.
* **Memory.** The libevent thread frees a client as soon as a worker has announced
  it; nothing counts references. Lists keep pointers to freed items.
* **Waiting.** A Disconnect job spins on a worker until the client's other jobs are
  gone; `CD_StopWorker` spins until a worker that may be asleep has ended.
* **Tables kept by hand.** What a packet of each type is written as, read as, measured
  as and freed as are four lists of cases; a stream has no marks between packets, so
  one byte of difference spoils every packet behind it.
* **Counters and numbers.** `client->jobs` is a byte that one path decrements without
  a matching increment; ids of timers start at the least integer; coordinates are
  truncated in one place and rounded down in another.
* **Order of teardown.** Worlds, plugins, the time loop's base and the threads that use
  them are ended in an order that leaves two races, and the stop of the workers can wait
  for ever.

`PROJECT.json` lists each hazard at its line, with the properties about it or the
reason why there is none yet.

## 2. Modules

| module | what it is |
|---|---|
| `ClientSession` | what the server promises plugins about one client (abstract) |
| `ClientLifecycle` | the threads and the clients; implements `ClientSession` |
| `ClientLifecycleProofs` | its invariants and the refinement, proved |
| `WorkerPool`, `WorkerPoolProofs` | the queue, the condition variable and the stop |
| `ListSpec` | a list as its callers see it: a sequence (abstract) |
| `Links` | items on the heap linked from a first one, as operators |
| `LinkedList`, `LinkedListProofs` | `CDList` on the heap; implements `ListSpec` for two kinds of use |
| `KHash` | the table of `klib/khash.h` as operators |
| `MapSpec` | a hash as its callers see it: a function (abstract) |
| `HashTable` | `CDHash` on a `KHash` with threads that loop and clear; implements `MapSpec` |
| `EventSystem`, `EventSystemProofs` | one event; its callbacks are a `ListSpec` |
| `WorldPresence`, `WorldPresenceProofs` | names, numbers and sight of the players |
| `PacketFormats` | the layouts in which packets are written and read |
| `PacketStructs` | what reading a packet stores to which member of its structure |
| `TimeLoop` | ids, timers and the loop's thread |
| `ServerRun`, `ServerRunProofs` | start and stop of the server around a `TimeLoop`; proofs of both |
| `SetAlgebra` | `CDSet` bucket by bucket |
| `Positions` | the coordinates and their conversions |
| `ChunkView` | the chunks a player has, with `SetAlgebra` and `Positions` |
| `Inventory` | slots, the hand and drops |
| `WorldClock` | the time of a world |
| `ChunkSource` | plugins loaded, worlds and chunks from files or generators |
| `ChunkColumn` | a column of a chunk through the stages of the classic generator |
| `BasePlugin`, `BasePluginProofs` | the last five beside each other; proofs about them |
| `PacketFraming`, `PacketFramingProofs` | how packets are found in a stream of bytes that arrives in parts |
| `MC...` | instances for TLC: values of constants, symmetry sets |

How they fit: `ClientLifecycle` keeps the pool's queue but not its condition
variable (a free worker may take a job at any time, which is every schedule the
pool can produce); `WorkerPool` shows what the pool adds to that, including that a
job may be stranded. `LinkedList` shows that the queue and `disconnecting` are
sequences and that `server->clients` is not a set; `ClientLifecycle` therefore
models the tail pointer of `server->clients` itself. `EventSystem` uses `ListSpec`
with the insertion order that the run `containers` checks against the heap.
`WorldPresence` takes from `ClientLifecycle` that the handlers of one client do not
overlap (`ProcessIsolated`) and that `Client.disconnect` comes after them.
`PacketFraming` is what `ClientLifecycle` takes as one step, reading a packet: there
"a packet is in the buffer" is given, here it is decided from bytes. `ServerRun`
EXTENDS `TimeLoop`: the main thread and a worker are its callers, and the proofs show
that their steps are steps of `TimeLoop`, so its theorems carry over. `ChunkView` takes
the sets from `SetAlgebra` cell by cell, since it is the algebra that decides which
chunks are announced. `MCContainers` runs `LinkedList` and `HashTable`, and
`BasePlugin` composes `ChunkView`, `Inventory`, `WorldClock`, `ChunkSource` and
`ChunkColumn`: the parts share no state, a behaviour is about one of them.

### ClientLifecycle

One action is one critical section of the client's status lock, or one step of a
thread between two of them. `io` is where the libevent thread is, `pc[w]` where
worker `w` is in `CD_RunWorker`.

| code | actions |
|---|---|
| `cd_Accept` | `Accept` (a socket over a limit is closed at once and leaves no trace; one of another address family, `Server.c:285`, cannot be: the listener is `PF_INET`) |
| libevent has data; `cd_ReadCallback` | `Receive`; `IoRead`, that is `ReadNothing`, `ReadPacket`, `ReadCaseless`, `ReadMalformed` or `SelfDeadlock` |
| libevent sees an error; `cd_ErrorCallback` | `Fail`, `ErrorCallback` |
| `CD_ServerKick` from a plugin | `HandlerKick`, `IoKick` |
| `CD_ServerCleanDisconnects` | `CleanDisconnects`, `ClearDisconnecting` |
| `CD_RunWorker`, `CD_ReadFromClient` | `NextJob`, `DropJob`, `StartJob`, `ConnectEnd`, `ProcessEnd`, `Reread`, `Drained`, `DisconnectEnd` |
| `CD_ServerFlush` | `ServerFlush` |

`input` is the buffer as the parser will find it: packets, bytes that cannot be one, and
type bytes for which the parser's switch has no case (`Kind`). A packet that was taken is
its number in the client's stream. A type without a case is taken, makes no job and leaves
the client idle; nothing reads what is behind it until more data come (`skipped`). A
malformed packet makes the read
callback call `CD_ServerKick` with the status lock held for writing
(`Server.c:199`); POSIX leaves open what the second lock does, so the model has
both outcomes: the call fails and the lock is later released twice (`lock` may then
be sound, read-only or dead), or the thread waits for itself (`SelfDeadlock`).
Access to a freed client keeps the old values or ends the process (`crashed`, after
which nothing happens). These accesses do occur (section 6).

### WorkerPool

`HasJobs`, `Wait` and `CheckWorking` are separate steps since the code looks at the
queue without the mutex and does not look again under it. `StopWorker`, `Broadcast`
and `Stopped` are `CD_StopWorker`; `FreeWorkers` is the second loop of `CD_StopWorkers`,
after which a thread that is not gone uses freed memory (`UseFreed`). The flag `stopped` is
TRUE before a thread's first step, so the stop of a worker whose thread has not begun comes
back at once (`early`). Signals wake one waiting worker, and waits may end without one.

### ListSpec and LinkedList

`Node` is the set of addresses `malloc` may return, so freed addresses come back.
`Chain` follows the pointers from the head (`Links`); `Keep` unlinks and frees what a
deletion does not leave. `operations` is the set of calls made
on one list, chosen from `Uses`: a queue (`workers->jobs`, `disconnecting`), an ordered list (an
event's callbacks), a bag (`server->clients`, seen players). `CD_ListClear`
measures before it locks and is two actions. `cd_ListDelete` never moves `tail`, so a
list is a sequence only when it is used as a `Queue` (pushed to at its end, taken from at
its front) or is `Ordered` (never pushed to at its end); a bag is not one.

### EventSystem

A dispatch reads the hash, then locks the list (`GetList`, `StartIterating`), calls
callbacks one at a time and leaves behind one that returned false (`Call`). The main
thread registers in two steps (`Register`, `RegisterPush`) and unregisters in
three, the last of which frees an empty list and leaves it in the hash.

### WorldPresence

A player is an `SVPlayer`, which a handshake makes; `latest[p]` is the `Client.player` of
the connection `p` was made for. A second `Handshake` replaces it: from then on the handlers
and the disconnect know the new player only (`Served`), and the one before stays where he
is. `pc[p]` is where the handler of player `p` is. Login is `Login`,
`GenerateEntityId`, `StoreEntityId`, `PutPlayer`, `PreLogin`; then as behind every
move to another chunk (`Move`) an iteration over `world->players` (`Visit`, `Meet`,
`Greet`, `PartOwn`, `PartOther`) and `SendUpdatePos`; `Look` is any packet that is
only sent on. `ChatCommand` and `TimeUpdate` send to everyone found in the world, from
a worker and from the time loop's thread. Logout is `Logout`, `Farewell`, `RemovePlayer`, then `DestroyClient`.
The iteration holds the hash's read lock, which `PutPlayer` and `RemovePlayer` wait
for. `server` says how many workers there are (at most so many handlers run) and who
comes; a run's `Setups` lists the servers it is about. A Login of a player who has his number
stops the server at an assertion (`LoginAgain`, `World.c:132`). The model begins behind the
first handshake of each connection: what a client sends before it is handled without a player
(section 6). Positions are chunks; sight is any
reflexive and symmetric relation on them, as `cdsurvival_CoordInRadius` is.

### PacketFormats and PacketFraming

A format is the sequence of letters of the calls to `SV_BufferAddFormat` and
`SV_BufferRemoveFormat`; `Write` and `Read` have one for each case of
`SV_PacketToBuffer` and `SV_GetPacketDataFromBuffer`, of both chains (Request: the
server reads clients; Response: the proxy reads a server). A packet is a record of
chain, type and `parts`, the counts, flags and kinds of metadata that decide about its
size; other values are left out. `MinLength`, `Offset` and `Factor` are
`SV_PacketParsable`: the least length of each type, where it looks for a count and by
how much the count prolongs the packet. `Checks` are the sums it compares with the
length of the input, `Awaited` the watermark it sets. `FramingAssumption` says what a
packet may be: of a type whose three tables agree (not in `Apart`, section 6), with a
value for each field of variable size (`IsWritten`).

| code | actions |
|---|---|
| a peer's `SV_PacketToBuffer`, or the proxy's forwarding | `WritePacket` |
| libevent: bytes arrive, the callback runs above the watermark | `Arrive` |
| `cd_ReadCallback`, `cdsurvivalproxy_ProxyReadCallback` | `ReadCallback`, which is `Await`, `Kick` or `Parse` |
| `CD_RunWorker` with a Process job | `TakeJob`, `Processed`, `Peek`, `Reread` |

Both read callbacks take one packet per call. The server's client is looked at again
by the worker; the proxy's is not until more bytes come, which is why `Noticed` is
about the server only. After something else than one packet was taken (`lost`), or a
kick, the model stops: what follows is no longer a stream of packets.

`PacketStructs` gives for every type the width of the member each letter is stored to;
`StructsHoldThePacket` and `RelayedInStep` say what a handler and the proxy's client get
of it, with the types that the code gets wrong named in the property (section 6).

### KHash, HashTable and MapSpec

`KHash` has `kh_put`, `kh_get`, `kh_del`, `kh_resize` and `kh_clear` on a record of the
table's members: flags per bucket, counts, the probing order (`Probe`), cleaning in
place. `HashTable` adds the lock: each call is one step, a loop (`CD_HASH_FOREACH`) holds
the read lock from `StartIterating` to `StopIterating` with steps of other readers in
between, `CD_HashClear` measures before it locks. The first iterator of a loop may be
behind the buckets (`Hash.c:100`); what the flag there reads is arbitrary. `CD_HashFirst`
and `CD_HashLast` read a value without a test, and what they read outside the array is
`Misread`.

### TimeLoop and ServerRun

A timer is added to the base before it is entered under its id (`AddTimer`,
`PutTimer`), and taken out of the map before it is deleted and freed (`TakeTimer`,
`FreeTimer`); `event_del` waits for a running callback (`MayDelete`, external). A
callback may come between any two of them (`Fire`, `Return`, external). Delays are left
out: a timer that is set may be due at once or later. Ids are integers that do not wrap: it
takes 2^32 timers to reach the first id again.

`ServerRun` follows three program counters: `main` from `CD_RunServer` to the exit, the
time loop's callbacks (`FireTimer`, `FindWorlds`, `UseWorlds`, `ReturnFromTimer`) and a
worker's handler. The stop of the workers is two steps: `TellWorkers`, and `StopWorkers` when
the worker has left its loop. It never does when it missed the broadcast (`MissBroadcast`,
which `WorkerPool` shows step by step) or runs the Disconnect job of a client whose counter
has underflowed (`WaitForCounter`, which `ClientLifecycle` shows). `crashed` is set where freed worlds (`Server.c:418`) or the freed base
(`Server.c:113`) may be used, and ends the run.

### SetAlgebra, Positions and ChunkView

A set is a function from bucket numbers to chains; a write past the last bucket would
show as a larger domain. What the algebra adds in a loop it adds by `PutAll` and `AddTo`,
recursive functions over the array of values. `SV_HashChunkPosition` is the C remainder, which is negative
for negative coordinates. `Positions` has the eleven conversions of `minecraft.h`, with
`>>` rounding down and casts truncating. `ChunkView` has login, move, digging and logout
of one player (the square its loops walk is `Around`, their test `Circle`); `loadedChunks` is the server's set, `shown` what the client was told to
hold, `sent` what came with blocks. The generator may fail on the chunks of `Fragile`.

### Inventory and WorldClock

`inventory` is the server's map of slots, `own` what the player's client shows, `inHand`
what the others see. A drop passes by the hold-change event, which numbers slots of the
bar from 0. `WorldClock` is `cdsurvival_TimeIncrease`: the time moves on by a rate of the
range it is in, in 16 bits, and comes back at the end of the day.

### ChunkSource and ChunkColumn

`LoadPlugin` registers the callbacks of one plugin after the other (a plugin that cannot
be opened is passed over); generators stand in the order opposite to their
registration. `CreateWorld` takes the level from its file or from `Mapgen.level`;
`GetChunk` copies the five arrays when all are sound and dispatches `Mapgen.chunk`
otherwise: `Call` asks the next generator as long as none has returned false
(`Event.h:142`), which the trivial one does and one of third parties (`other`) may; that one
may also fail or do nothing. `damaged` says what is wrong with each file, `memory` what the
chunk held before. `ChunkColumn` has one action per stage of
`cdclassic_GenerateChunk`; the noise digs and erodes any blocks, ores count as rock.

## 3. Runs

| run | question | instance |
|---|---|---|
| `client` | do all invariants of a client hold, is `ClientSession` implemented, does the wait of a Disconnect job end | 1 client, 2 workers, 2 items of input of any kind |
| `client_lost` (violation) | is every connected client on the list | 3 clients, 1 worker, no packets |
| `pool` | what the pool promises: who still uses a worker whose stop came back, who takes the jobs, who blocks a stop | 2 workers, 2 jobs |
| `pool_stop` (violation) | does `CD_StopWorker` return | the same |
| `containers` | what a `CDList` is for each of three kinds of use; what a `CDHash` is, its table well formed | 3 addresses, 3 values, two of one rank; 3 keys that collide and 5 that stay, up to 16 buckets, 1 looping thread |
| `events` | order, one list per dispatch, all of it called unless a callback returns false, registrations get the lock | 2 threads, 2 dispatches each, 2 functions, 3 registrations at a time |
| `world` | names, numbers and sight with one worker, with and without the standard protocol and with second handshakes; what two workers cannot break | 3 players, 2 of one name, 2 chunks; and 2 players of one name on 2 workers |
| `world_names` (violation) | does the standard protocol reject a second login of a name | 2 players of one name, 2 workers |
| `framing` | are packets taken out whole, none left behind a watermark, stored to the members of their structures, freed, and passed on by the proxy in their length | 2 packets in a row of any types in which the tables agree, fields of variable size empty and not, 1 worker |
| `server` | ids and silence of timers, live worlds, what can keep the shutdown from its end | 3 intervals, 1 timeout, main and 1 worker, first id -4 |
| `timeout_kept` (violation) | does a timeout that has fired delete itself | the same |
| `base` | chunks and blocks a player has, his inventory, the clock, whole chunks, lit ground | see below; a behaviour is about one part |

The bounds, and why they are enough to be of interest:

* *Clients.* The invariants of `ClientLifecycle` are about one client each; clients
  share only the queue and the lists, and the theorems hold for any number.
  `MaxPackets` bounds what was taken as packets and what waits in the buffer. Two let
  one wait while the other is handled, or behind a type without a case, which does not
  count once it is taken, so that these come again and again; two workers let a job of
  a client overlap another. Three clients are needed to lose one: one
  to stay, one to be deleted from the end, one to be pushed behind it.
* *Pool.* Two workers and two jobs give a sleeper, a busy worker, a job taken by
  the faster one, and a stop of one worker while the other runs.
* *Lists.* Three items have a first, a middle and a last; addresses are reused.
* *Events.* Two callbacks of different priority, up to three registered at a time
  (`MaxCallbacks`), so that equal and different neighbours occur, and two readers of
  two dispatches each (`MaxDispatches`).
* *World.* Two players meet and part from both sides; the third sees both, and
  takes the name that the second was given. Each may also be the second player of
  another's connection, or the third one's, so that a player left behind meets both those
  who come by connections of their own and the one who replaced him.
* *Hashes.* `TheHashOf` collides in tables of 4 and of 8 buckets; the five keys that may
  be there from the start bring the table to 16, where the word behind the flags begins.
* *Server.* Ids start at -4 so that the id the code skips, -1, and the 0 it does not skip
  are both passed. Each timer is one of the plugin's three, the loop's own or a
  handler's.
* *Base plugin.* Radius 2 (10 in the code), places on both sides of both axes and
  further apart than two circles, primes 5, 11, 23 for the sizes of sets; two spawns.
  Two stack counts and the slots 10, 36, 37: one outside and two inside the bar. The clock
  has a day of 40 in a width of 109, so that the width is no multiple of the day, and
  rates of 1 to 60 and a negative one. One chunk with any of its 32 states of damage and
  six orders of plugins, the distribution's among them. A column of 12 blocks with the
  levels of lava, caves and water in the order of the code, with every height and every
  set of dug and eroded blocks.
* *Packets.* Sizes are sums over fields, so an empty and a filled value of each
  variable field give both sides of every check. Two packets (`MaxPackets`) show what
  the watermark and the bytes left by the first do to the second. Bytes come one by
  one, so that every prefix is met, or all that were written.

`CHECK_DEADLOCK FALSE` is set where the system may really stop: all clients gone,
all workers stopped, the bounded inputs used up.

Each property of a passing run comes with a mutant in `PROJECT.json`: a variant of
one definition, written beside it, under which TLC finds the property violated.

### Fairness

`ClientLifecycle`: each thread that is inside a callback or a job goes on (weak
fairness of `IoRead`, `ErrorCallback`, `ClearDisconnecting` together and of `Run(w)`
for each worker); handlers return, as plugin handlers have no loops that wait.
`NextJob` has no fairness, since the pool may leave a job in the queue: `DrainEnds`
holds although no worker ever takes another job. `WorkerPool`: workers and the
stopping thread are scheduled; neither spurious wakeups nor new jobs are promised.
`EventSystem`: dispatches that have begun and registrations that have begun go on;
`Register` and `Dispatch` need not happen. Waiting for a read-write lock is weakly
fair only: `RegistrationEnds` rests on the bound of dispatches as far as writer
starvation goes, and shows that no way out of a dispatch leaves the lock held.
`ServerRun`: main, the callbacks of the time loop and a handler that has begun go on
(weak fairness of each); leaving the loop is strongly fair, since `event_base_loop` looks
at the request to exit in every round, however many timers are due; the signal need not
come. `WorldClock`: the timer is an interval of a loop that runs as long as the server
does (weak fairness of `Tick`).

## 4. Proofs

The theorems hold for every number of clients, workers, threads, packets, timers,
callbacks, players and items. They rest on what the modules assume of their constants,
by name, which TLC checks for each run: the limits are natural numbers, `Ip` is a function
on the clients and "none" is not a client (`ConstantsAssumption`, `NoneAssumption`); sight
is reflexive and symmetric, and a setup is a number of workers and a set of players
(`WorldAssumption`); priorities are integers (`EventAssumption`); what the modules of the
base plugin are given is of the types the code has (`InventoryAssumption`,
`ColumnAssumption`, `SourceAssumption`); the sizes of sets are increasing (`PrimesAssumption`),
the radius of the view is at least 2 and the hint for its set within the second size
(`ViewAssumption`; the code's are 10, 400 and 1021); there are finitely many addresses
and NULL is none of them (`NodeAssumption`); main and a handler are the
callers of the time loop and the plugin's intervals are timers (`RunAssumption`,
`TimerAssumption`); packets are of types whose layouts agree (`FramingAssumption`).

`ClientLifecycleProofs`. `OneProcessJob` is not inductive: that the queue has one
Process job of a client depends on the status that let it be queued, and the status
on the job counter and on which worker is where. The inductive invariant `IInv`
is the conjunction of

1. `WellFormed`: the types, that each thread holds the job its position says, and that
   what was taken and what waits keep the bound (`InputBounded`);
2. `JobsInv`: for each client at most one Process job, counted by `jobs`, with a
   status to match; at most one Connect job, never beside a Process job; Disconnect
   jobs for a disconnecting client only, and at least one until it is announced;
   no Process job once it is;
3. `MemoryInv`: clients in the list were accepted and are not freed; freed clients,
   those in `disconnecting` and those whose Disconnect job is past its dispatch are
   announced; the libevent thread runs callbacks of living clients only.

Each has a step lemma with one case per action; lemmas about a queue that grows at
its end or loses its head (`JobAdded`, `JobTaken`, `JobKept`, `JobLeft`) carry them.
From `IInv` follow `TypeCorrect`, `OnePacketAtATime`, `CountIsExact`,
`NoDisconnectForgotten`, `HandlersAreIsolated` and `TheListIsAlive`. Two more need an
invariant on top of it: `DrainNeedsNoWorker` (behind a Disconnect job there is no Process
job of the client in the queue) and `InputIsRead` (input that nothing precedes but packets
is about to be read).

Last, the refinement. `SessionImplemented` maps the position of every thread to
the phase of a client (`Phase`) and `handled` to `delivered`. It needs one more
invariant, `PacketsInv`: a packet that was parsed and not handed over is the last one
parsed and the number of packets handled plus one. Every action is then a step of
`ClientSession` or leaves it unchanged.

`WorkerPoolProofs`. `StopIsQuiet` needs `StopInv`: a worker whose stop has begun has
`working` cleared, `stopped` is set exactly before a thread's first step and after its
last, and a thread whose stop has returned is gone or had not begun (`early`) and is at one
of the places from which no branch leads back to a job; no thread is wild before the workers
are freed, and that is after the last stop.

`ServerRunProofs`, first part: the time loop by itself. `LoopInv` strengthens `IdsNameTimers` and `ClearedIsSilent`: the
types; every id given out is below the next one (`IdsAreNew`, which is why a skip of an
id does no harm); a thread that is putting or freeing a timer is the only one that does
so (`HandsOff`); what the map holds under an id is a timer of that id that was not cleared
(`MapInv`); the running timer is set (`RunsWhatIsSet`). From it follow
`LoopTypeCorrect`, `IdsAreSound` and `ClearSilences`, for any callers, timers and first
id.

Second part: the server. `Composition` shows that every step of the server is a step of the
loop or leaves it alone. It needs `DoneInv`, how many intervals are set at each place of
the main thread, so that what main sets and clears is a timer. `ServerIdsAreSound` and
`ServerClearSilences` are then those of the loop. `ListIsOfLiveWorlds` needs `WorldsInv`:
the list is there only while main serves. `UnloadSilences` needs `UnloadInv`: the
intervals have ids from the time they are set, main is between the two steps of a set or
clear of the next interval only, what was cleared is freed, and handlers end before the
plugin does. Its step lemma has one case per action and uses the invariant of the loop.

`WorldPresenceProofs`. `WhoLogsOutIsGone` needs `NamesInv`, who is found under a name has
it and is in the world, and holds for any number of workers. The other two are about one
worker. `AloneInv` says that then one handler runs at most (`Serial`), and `SerialInv` what
it may rely on: `FoundInv` and `NumbersInv` (the name of a player who arrives is free, his
number is above all others), `ListsInv` (lists of seen players are of players in the
world, an iteration is over players at rest), `OtherInv` (what was found out about the
player at hand is still so), and `SightInv`, about every pair of players, the second at
rest: their lists agree with each other and with the distance when both rest; while the
first moves, they do for those already visited, by the place he goes to; while he leaves,
those not yet told are still to be visited. `HauntInv` says that a freed client is used only
when there is a player whose client was freed. `SightIInv` is all of it; each step moves one
handler and is looked at per pair. From it follow `EveryPlayerIsFound` and `SightIsMutual`.

`LinkedListProofs`. `ListInv`: the items from the head on are a chain, each once, ended by
NULL, and allocated; for a `Queue` or an `Ordered` list all that is allocated is in the
chain and nothing freed was written; the tail of a `Queue` that is not empty is its last
item. `LinksAreSound` alone is not inductive: it does not say that the pointers make the
chain, nor where the tail is when the next push trusts it. `FollowingIs` gives a chain its
uniqueness: pointers that link a sequence without repetitions and end in NULL are followed
along just this sequence. So a step names the new chain and shows that its pointers link it, and lemmas
about sequences of items (`SortedItems`, `RemovedItems`, `AppendedItems`, `WithoutItems`,
`ResortedItems`) say that its values are those of `ListSpec`. There is a lemma per
operation; each gives the invariant and, for the two kinds of use, the step of `ListSpec`.
From it follow `LinksStaySound` and the refinement, `ListRefines`, for any number of
addresses, values, ranks and for all sets of calls.

`EventSystemProofs`. A sorted push keeps a list sorted (`Ordered`), by the least index at
which the new callback may stand. `DispatchIInv` adds that a dispatch which is calling has
called the first callbacks of the list and there are more (`DispatchInv`): nobody can
change the list meanwhile. `CalledInOrder`, `OneListIsSeen` and the action property of
`AllAreCalled` follow.

`BasePluginProofs`. `ClientsSeeTheirSlots` and `OthersSeeTheHand`: `CarryIInv`, the types
and that the held slot is one of the bar, with one lemma per handler of the inventory.
`ColumnsAreLit`: `ColumnIInv` says for each stage of the generator what is below and above
the height map (`Ground`), that no cave goes below the lava and that there is no water
before the flood. `NoMixedChunks`: `SourceIInv`; what the
first generators have made of a chunk is one they did not touch or have filled, by induction
over the order in which they are called (`Made`, `CallMade`), and it is filled, if the classic
one came first. `ChunksAgree` is arithmetic over all integers:
truncation, shifts and remainders of both signs, on top of `PlaceInv`. Sets: `GoodSet` says
that a set of a size has certain values, each once and in its bucket; that a C remainder read
as unsigned and reduced again is a bucket (`BucketIn`), and one lemma per operation
(`PutIs`, `DeletedIs`, `CopiedIs`, `ArrayIs`, `AddedIs`, `AllPut`, `MinusIs`), carry it
through the algebra. That sets without a size of their own do for the base plugin rests on
all of them being of the smallest size (`Small`, from `ViewAssumption`). `AlgebraIsRight`
follows, and `ViewFollows` from `ViewIInv`: up to the first move the player is at the origin
and his set empty while the square of the login is shown; from then on what is shown
is the set, but for that square; the chunk of his position and the three the client may
take for it are shown (`Near`); what was not sent is `Fragile`. That a move shows what is
`Near` is `NewIs`, for every radius from 2.

`PacketFramingProofs`. `LayoutsDoAgree` goes through the tables: for each of the types
outside `Apart`, with strings, arrays and metadata of any length, the packet is as long
when it is read as when it was written, the last check of `SV_PacketParsable` is that
length and no check is above it, and the count is looked for where it was written. Types
of fixed fields are sums of literals (`Fixed...`), those with one count go through
`CountAgrees`, and metadata, window items and signs, whose checks are sums of a growing
part (`UpTo`), have lemmas of their own. On it stand `BytesInv` (what is in the buffer is a
beginning of what was written), which gives `PacketsStayInStep`, and `NoticedInv` for
`PacketsAreNoticed`: `OneJobInv` (a job or its worker holds the status of the client),
`WatermarkInv` (the watermark is not above the packet in the buffer and is 0 between
packets) and `LookedAtInv` (what an idle client has in its buffer is not a whole packet,
unless its worker is about to look). `StructuresHoldPackets`, `PacketsAreRelayedInStep`
and `ForwardedIsFreed` add that the packets of a connection are of one direction
(`ChainInv`) and go through the members and the cases of the types.

Sums over sequences, least indices and the like need induction. It is done with sets: a
set of natural numbers that has 0 and, with a number, the next one, is all of them
(`InductiveSet`), which follows from the least element of a set (`LeastOf`) and that from
the library's theorem about well-founded relations. A recursive function is then known by
its first value and its steps (`Recursion`, and `LedThere` for what adds to a set). So what
`Total` adds up, `Following` walks along and `PutAll` puts is known for every sequence.

Only model-checked:

* liveness (`DrainEnds`, `AwakeWorkersDrain`, `OnlySleepersBlockStop`,
  `RegistrationEnds`, `ShutdownEnds`, `ClockRuns`): the prover handles neither fairness
  nor ENABLED;
* `HashTable` (`VisitsEachOnce`, `ImplementsMap`): `KHash` uses `Bitwise`, and its
  rehashing is written with RECURSIVE operators, neither of which a module with a theorem can use.

## 5. Not modelled

Vendored libraries, strings, logging, configuration, the HTTP stub and the scripting
engines: I/O, pure data, or sequential and done once at the start. The admin commands are
commented out of the build (`plugins/Makefile.am:24-28`) and refer to types that no
longer exist; `CD_KillWorkers` and `CD_KillWorkersAvoid` are called from there only.
Dynamic data are hashes per object, and their calls appear as atomic steps. The noise of
the generators is any choice; the format of the files is cNBT's. `CD_EventProvides`,
cloning and comparing lists, `CD_SetMap`, and the `prev` pointers change nothing a
property is about. In `nbt/main.c` the handlers that save are empty and the functions of
`Persistence.observe` and `watch` are never registered. What a client sends before its first
handshake is left out (see above). The locks of a broadcast (status, then buffer, under the hash's
read lock, `World.c:195-203`) against those of the libevent callbacks are not modelled:
three components and libevent's own lock take part at once.

## 6. What the code gets wrong

Each of these is a run that TLC ends with a counterexample, and a finding in
`PROJECT.json`:

* `pool_stop`: a worker looks at the queue, then the stop clears `working` and
  broadcasts, then the worker waits. `CD_StopWorker` spins for ever. The same window
  strands a job until the next signal (`AwakeWorkersDrain` says what is left).
* `client_lost`: the tail pointer of `server->clients` dangles once the last client
  of several is deleted; the next client is linked behind freed memory and is on no
  list. It counts for no limit, gets no KeepAlive and is never destroyed.
* `world_names`: two logins of one name on two workers both find it free.
* `timeout_kept`: a timeout that has fired stays in the map with its event, and is freed
  only when somebody clears it (`TimeLoop.c:118`); `TimeLoop.h:80` promises that it deletes
  itself.

More show in the models without a run of their own:

* Behind a type byte for which the parser has no case, the rest of the input of an idle
  client is not read until more data come (`Server.c:187`; `NoStrandedInput` makes the
  exception).
* `CD_StopWorker` of a worker whose thread has not begun comes back on the flag that
  `CD_CreateWorker` wrote, `CD_StopWorkers` frees the worker, and the thread, which is
  detached and cannot be joined, then runs through it (`Worker.c:38`, `Worker.c:69`;
  `QuietAfterStop` makes the exception and `UseFreed` is the step).
* A second Handshake on a connection replaces `Client.player` (`callbacks.c:497`), and the
  disconnect looks only there (`callbacks.c:915`): a player who had logged in before stays in
  `world->players`, and in the sight of others, with a client that is freed, and every
  broadcast then writes to it (`GhostsAreLeftBehind` and `SeesWhoIsNear` name the case). A
  second Login of a player stops the server at an assertion (`World.c:132`), one before any
  handshake reads through a null player.
* An item pushed between the measuring and the locking of `CD_ListClear` is written
  past the array (`ClearFits` of `LinkedList`, which TLC finds violated). A worker
  pushes to `disconnecting` while the libevent thread clears it. `CD_HashClear` is the
  same (`ClearFits` of `HashTable`).
* The emptied list of an event is freed and stays in the hash (`Event.c:229`), though
  `Event.h:173` promises to unregister a callback and no more (`EventStaysUsable`).
* The least length of a Login is 22, its fields without the name take 23
  (`PacketLength.h:45`). When the last byte comes later, the packet is read without it and
  that byte is taken for the type of the next packet (`Apart` in `PacketFraming`).
* `SeesWhoIsNear` of `WorldPresence` is about one worker, and fails with two: a handler
  decides by the other player's stored position and by its own list, both of which another
  handler is changing, so two moves at once leave one player in the other's list only; and
  a player is in `world->players` before his list of seen players exists
  (`callbacks.c:865`) and after it was deleted (`callbacks.c:882`), so that the other
  handler passes a null list on.
* The Connect job of a client that is already disconnecting is dropped with a
  decrement nobody incremented for (`Worker.c:128`), so `jobs` becomes 255 and the
  Disconnect job never ends (`JobsCounted` and `DrainEnds` name the case). The stop of the
  workers then does not end either (`ShutdownEnds`).
* A client may be used after it was freed: by `Reread`, `ConnectEnd`, `ServerFlush`
  and a second Disconnect job, behind a kick and an error in one life (`crashed`).
* `Noticed` of `PacketFraming` is about one worker too. With two, one sees input, the
  other one's packet empties the buffer, and the first looks at an empty buffer, which
  counts as a KeepAlive. The watermark becomes 5, and a whole packet of up to 4 bytes
  behind it is not noticed.
* Types whose tables disagree, which `PacketFraming` leaves out (`Apart`): every
  response Login as above; MultiBlockChange is counted with 5 bytes per block and has 4;
  the string of Painting is not counted; OpenWindow is written with a byte string and
  read with a wide one; the case of UpdateProgressBar falls through when it is read,
  that of Thunderbolt when it is written; ItemData is written in another layout than it
  is read; a response IncrementStatistic is written and never read, the request is read
  and never written.
* Metadata: a short-byte-short entry is counted with 4 bytes instead of 5; the length
  of a string is used in network byte order (`CountedSize`); and an entry is written
  with its type in the low bits and read with the type in the high ones. The runs use
  the other kinds.
* The type byte of a packet without a case is taken before the case is missed, and
  nobody is kicked (`Parse` with a type that is not `Readable`).
* Destroying an ItemData falls through to Disconnect; PlayerListItem and UpdateSign
  have no case (`AllFreed` says which types are complete). The server destroys none of
  the packets it reads (`Keeps`).
* Reading: enumerations read as one byte keep three bytes of `malloc`'s; the y of
  UpdateSign and the slot of SetSlot are stored as shorts to bytes; an empty slot of
  WindowItems leaves its item id unset, and the proxy writes such ids back with counts its
  client does not expect (`Packet.c:1209`, `Packet.c:2133`). These are the types named in
  `StructsHoldThePacket` and `RelayedInStep`.
* From 16 buckets on the first iterator of a hash may be behind the buckets
  (`Hash.c:100`), where the flag is read past its array (`BeginIsAnElement` of
  `HashTable`); `Hash.h:84` promises the first element. `CD_HashFirst` reads the value there,
  and `CD_HashFirst` and `CD_HashLast` of an empty hash read outside of the array as well
  (`Hash.c:295-305`; `ReadsOutside`). Nothing in the repository calls the two.
* `CD_CloneSet` and the set algebra write outside of the result when an operand has more
  buckets than it (`Set.c:50`, `Set.c:89`): `CD_CreateSet` without a hint has 2053, and the
  sets that are combined by the program happen to have 509.
* Timers: the id 0, which means failure, is given out, since the test skips -1
  (`TimeLoop.c:114`).
* Shutdown: the worlds are freed while handlers and intervals may use them
  (`Server.c:418`) and the time loop's base while its detached thread may be in it
  (`Server.c:113`); the base plugin never unregisters `Player.prelogin` and
  `Player.dropItem` (`main.c:258`); `CD_DestroyPlugins` uses itself after it was freed
  (`Plugins.c:60-62`); `CD_UnloadPlugin` of an unknown name destroys a null pointer;
  `event.listener` is not initialised when the bind fails.
* Chunks: a chunk whose generation failed counts as loaded and is never sent again; the
  coordinates of chunks that stay loaded leak on every move; positions are truncated
  toward 0 where clients round down (`minecraft.h:584`), so that the server is up to one
  chunk off at negative coordinates (`ChunkOfPlayer` bounds it); digging uses a chunk that
  may be null (`callbacks.c:591`).
* Inventory and clock: replaced and used up stacks leak; what is put into the held slot
  is not shown to others; `world->config.cache.rate` is never initialised; a time past the
  day is seen for a moment between the two calls of `SV_WorldSetTime` (`main.c:56-69`).
* The trivial generator's handler of `Mapgen.chunk` lacks the world among its parameters
  (`trivial/main.c:46`) and writes to an address that is a coordinate ("wild" in
  `ChunkSource`). It returns false, which ends the dispatch: a generator that does so and is
  called before the classic one leaves the chunk as it was, and nbt takes that for success
  (`nbt/main.c:113`; `ChunksAreWhole` says when). Without a generator a damaged chunk is answered with success and what
  memory held; without the nbt plugin every chunk is, and the spawn is not set.
* `CD_ServerCleanDisconnects` clears `disconnecting` after its loop (`Server.c:450`): a
  client announced in between is never destroyed (`ClearDisconnecting`).
* The chat's `tell` hands its argument to `SV_PlayerSendMessage`, which frees it, and goes
  on to use it (`chat/main.c:199-202`); the matches it is from are freed behind that.

## 7. Plan

Done, in this order: `ClientSession`, `ClientLifecycle`, `WorkerPool`, their proofs,
`LinkedList`, `EventSystem`, `WorldPresence`, `PacketFraming`; then `PacketStructs`,
`KHash`, `HashTable`, `TimeLoop` and `ServerRun` with their proofs, `SetAlgebra`,
`Positions`, `ChunkView`, `Inventory`, `WorldClock`, `ChunkSource`, `ChunkColumn`; then the
proofs of `WorldPresence`, `EventSystem`, `BasePlugin`, `PacketFraming` and `LinkedList`, and
of the sets and the chunks shown. To come:

1. `LockOrder`: status, buffer, hash and list locks of broadcasts, callbacks and the
   timer thread: who can wait for whom.
2. Proofs about `HashTable`, with the flags of `KHash` as sets of slots instead of bits and
   its rehashing as recursive functions.
3. Saving of worlds, once the code has any.
