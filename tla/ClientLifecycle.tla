--------------------------- MODULE ClientLifecycle ---------------------------
(***************************************************************************)
(* The life of the clients of a craftd server (src/Server.c, src/Worker.c, *)
(* src/Client.c): the libevent thread accepts sockets, reads packets, sees *)
(* errors and frees the disconnected clients; the workers take jobs from   *)
(* the shared queue and run the event handlers.                            *)
(*                                                                         *)
(* A section of the code that runs under a client's status lock is one     *)
(* action; between two such sections every other thread may run.           *)
(***************************************************************************)
EXTENDS Integers, Sequences, FiniteSets

CONSTANTS
    Client,         \* the CDClient objects, one per accepted socket
    Worker,         \* the worker threads
    MaxClients,     \* config game.clients.max, 0 when unlimited
    Simultaneous,   \* config game.clients.simultaneous, 0 when unlimited
    Ip,             \* the peer's address of each client
    MaxPackets      \* bound: packets taken and waiting of one client

ASSUME ConstantsAssumption ==
    /\ MaxClients \in Nat
    /\ Simultaneous \in Nat
    /\ MaxPackets \in Nat
    /\ DOMAIN Ip = Client

None == "none"
JobType == {"connect", "process", "disconnect"}
Job == [type : JobType, client : Client, packet : 0..MaxPackets]
NoJob == [type |-> None, client |-> None, packet |-> 0]

ASSUME NoneAssumption == None \notin Client

VARIABLES
    status,         \* client->status, "absent" before the accept
    jobs,           \* client->jobs, a uint8_t
    input,          \* the input buffer, as what the parser will find in it
    parsed,         \* packets taken from the input buffer
    watched,        \* directions libevent still reports errors for
    lock,           \* client->lock.status: sound or broken (see Broken)
    clients,        \* the clients in server->clients
    tail,           \* the client at its tail pointer, None when that was freed
    freed,          \* clients whose memory was freed
    disconnecting,  \* server->disconnecting
    queue,          \* workers->jobs
    pc,             \* where each worker is in CD_RunWorker
    job,            \* worker->job
    io,             \* where the libevent thread is, and for which client
    flush,          \* an event_base_loopexit is pending
    crashed,        \* the process died on freed memory
    handled,        \* history: packets handed to Client.process
    announced,      \* history: Client.disconnect was dispatched
    skipped         \* history: what was taken last was of a type without a case

buffer == <<input, parsed, watched, skipped>>
lists == <<clients, tail, freed, disconnecting>>
vars == <<status, jobs, buffer, lock, lists, queue, pc, job, io, flush, crashed,
          handled, announced>>

\* A packet; bytes that cannot be one (EILSEQ); a type byte that the parser's switch
\* has no case for, although the table of lengths has it.
Kind == {"packet", "malformed", "caseless"}

Status == {"absent", "connect", "idle", "process", "disconnect"}
PC == {"ready", "check", "connect", "process", "drain", "disconnect", "flush",
       "reread", "stuck"}

TypeOK ==
    /\ status \in [Client -> Status]
    /\ jobs \in [Client -> 0..255]
    /\ input \in [Client -> Seq(Kind)]
    /\ parsed \in [Client -> 0..MaxPackets]
    /\ watched \in [Client -> SUBSET {"read", "write"}]
    /\ lock \in [Client -> {"sound", "readonly", "dead"}]
    /\ clients \in SUBSET Client
    /\ tail \in Client \cup {None}
    /\ freed \in SUBSET Client
    /\ disconnecting \in Seq(Client)
    /\ queue \in Seq(Job)
    /\ pc \in [Worker -> PC]
    /\ job \in [Worker -> Job \cup {NoJob}]
    /\ io \in [at : {"loop", "read", "error", "clear", "stuck"},
               client : Client \cup {None}]
    /\ flush \in BOOLEAN
    /\ crashed \in BOOLEAN
    /\ handled \in [Client -> 0..MaxPackets]
    /\ announced \in [Client -> BOOLEAN]
    /\ skipped \in [Client -> BOOLEAN]

Init ==
    /\ status = [c \in Client |-> "absent"]
    /\ jobs = [c \in Client |-> 0]
    /\ input = [c \in Client |-> <<>>]
    /\ parsed = [c \in Client |-> 0]
    /\ watched = [c \in Client |-> {}]
    /\ lock = [c \in Client |-> "sound"]
    /\ clients = {}
    /\ tail = None
    /\ freed = {}
    /\ disconnecting = <<>>
    /\ queue = <<>>
    /\ pc = [w \in Worker |-> "ready"]
    /\ job = [w \in Worker |-> NoJob]
    /\ io = [at |-> "loop", client |-> None]
    /\ flush = FALSE
    /\ crashed = FALSE
    /\ handled = [c \in Client |-> 0]
    /\ announced = [c \in Client |-> FALSE]
    /\ skipped = [c \in Client |-> FALSE]

------------------------------------------------------------------------------
(* Shared parts of the handlers *)

NewJob(t, c, p) == [type |-> t, client |-> c, packet |-> p]
AddJobInFront(t, c, p) == queue' = <<NewJob(t, c, p)>> \o queue
AddJob(t, c, p) == queue' = Append(queue, NewJob(t, c, p))

CanRead(c) == lock[c] # "dead"
CanWrite(c) == lock[c] = "sound"

\* Accepted and not freed; libevent calls back for these, listed or not.
Alive(c) == status[c] # "absent" /\ c \notin freed

\* Freed memory still holds the old values, or the access kills the process.
Touch(c) == IF c \in freed THEN crashed' \in BOOLEAN ELSE UNCHANGED crashed

\* The counter is a uint8_t and wraps; the variants forget the width, or to count at all.
DecrementSigned(n) == n - 1
DecrementNot(n) == n
Decrement(n) == IF n = 0 THEN 255 ELSE n - 1
Increment(n) == IF n = 255 THEN 0 ELSE n + 1

Goto(w, from, to) == pc[w] = from /\ pc' = [pc EXCEPT ![w] = to]

Finish(w, from) ==
    /\ Goto(w, from, "ready")
    /\ job' = [job EXCEPT ![w] = NoJob]

\* A kick that relies on the closing socket for the Disconnect job.
ServerKickOnly(c) ==
    /\ status' = [status EXCEPT ![c] = "disconnect"]
    /\ UNCHANGED queue

\* CD_ServerKick, under the status lock it takes.
ServerKick(c) ==
    IF status[c] = "disconnect"
    THEN UNCHANGED <<status, queue>>
    ELSE /\ status' = [status EXCEPT ![c] = "disconnect"]
         /\ AddJob("disconnect", c, 0)

\* A read callback looks at the input of an idle client; the variant looks as long
\* as the client is connected.
MayParseAnytime(c) == status[c] \in {"idle", "process"} /\ input[c] # <<>>
MayParse(c) == status[c] = "idle" /\ input[c] # <<>>
Finds(c, kind) == MayParse(c) /\ Head(input[c]) = kind

Take(c) == input' = [input EXCEPT ![c] = Tail(@)]

\* cd_ReadCallback, under the status lock: there is nothing to do,
ReadNothing(c) ==
    /\ CanWrite(c)
    /\ ~MayParse(c)
    /\ UNCHANGED <<status, jobs, queue, input, parsed, skipped, lock>>

\* or a packet becomes a job,
ReadPacket(c) ==
    /\ CanWrite(c)
    /\ Finds(c, "packet")
    /\ status' = [status EXCEPT ![c] = "process"]
    /\ jobs' = [jobs EXCEPT ![c] = Increment(@)]
    /\ Take(c)
    /\ parsed' = [parsed EXCEPT ![c] = @ + 1]
    /\ AddJob("process", c, parsed[c] + 1)
    /\ skipped' = [skipped EXCEPT ![c] = FALSE]
    /\ UNCHANGED lock

\* or the parser takes a type byte and finds no case for it: it returns NULL, and
\* what follows the byte stays in the buffer,
ReadCaseless(c) ==
    /\ CanWrite(c)
    /\ Finds(c, "caseless")
    /\ Take(c)
    /\ skipped' = [skipped EXCEPT ![c] = TRUE]
    /\ UNCHANGED <<status, jobs, queue, parsed, lock>>

\* or the client is kicked. CD_ServerKick locks the lock its caller holds: the
\* call fails, the kick goes on, and the lock is released twice.
ReadMalformed(c) ==
    /\ CanWrite(c)
    /\ Finds(c, "malformed")
    /\ ServerKick(c)
    /\ \E l \in {"sound", "readonly", "dead"} : lock' = [lock EXCEPT ![c] = l]
    /\ UNCHANGED <<jobs, input, parsed, skipped>>

ReadCallback(c) ==
    ReadNothing(c) \/ ReadPacket(c) \/ ReadCaseless(c) \/ ReadMalformed(c)

\* The other outcome of that second lock: the thread waits for itself.
SelfDeadlock(c) ==
    /\ CanWrite(c)
    /\ Finds(c, "malformed")
    /\ lock' = [lock EXCEPT ![c] = "dead"]
    /\ UNCHANGED <<status, jobs, queue, input, parsed, skipped>>

------------------------------------------------------------------------------
(* The libevent thread *)

InLoop == io.at = "loop"
IoAt(at, c) == io' = [at |-> at, client |-> c]

\* A limit of 0 means none.
Below(n, limit) == limit > 0 => n < limit

SameIp(c) == {d \in clients : Ip[d] = Ip[c]}

\* CD_ListPush and CD_ListDelete on server->clients. A deletion of the last of
\* several items leaves the tail pointer dangling; a push behind it writes to freed
\* memory and its item cannot be reached from the head. (The variant leaves what is freed in the list.)
Listed(c) ==
    IF clients = {} \/ tail # None
    THEN clients' = clients \cup {c} /\ tail' = c /\ UNCHANGED crashed
    ELSE crashed' \in BOOLEAN /\ UNCHANGED <<clients, tail>>

UnlistedLate(D) == UNCHANGED <<clients, tail>>
Unlisted(D) ==
    /\ clients' = clients \ D
    /\ tail' = IF tail \in D THEN None ELSE tail

\* cd_Accept, for a socket within the limits (any other is closed at once). The
\* listener is a PF_INET socket, so no peer has another address family.
Accept(c) ==
    /\ InLoop
    /\ status[c] = "absent"
    /\ Below(Cardinality(clients), MaxClients)
    /\ Below(Cardinality(SameIp(c)), Simultaneous)
    /\ status' = [status EXCEPT ![c] = "connect"]
    /\ watched' = [watched EXCEPT ![c] = {"read", "write"}]
    /\ Listed(c)
    /\ AddJob("connect", c, 0)
    /\ UNCHANGED <<jobs, input, parsed, skipped, lock, freed, disconnecting, pc, job,
                   io, flush, handled, announced>>

\* Data arrive; libevent calls the read callback with the bufferevent locked.
Receive(c, items) ==
    /\ InLoop
    /\ Alive(c)
    /\ "read" \in watched[c]
    /\ items # <<>>
    /\ Len(input[c]) + Len(items) + parsed[c] <= MaxPackets
    /\ input' = [input EXCEPT ![c] = @ \o items]
    /\ IoAt("read", c)
    /\ UNCHANGED <<status, jobs, parsed, skipped, watched, lock, lists, queue, pc, job,
                   flush, crashed, handled, announced>>

IoRead ==
    /\ io.at = "read"
    /\ \/ ReadCallback(io.client) /\ IoAt("loop", None)
       \/ SelfDeadlock(io.client) /\ IoAt("stuck", None)
    /\ UNCHANGED <<watched, lists, pc, job, flush, crashed, handled, announced>>

\* End of file, error or timeout in one direction, which libevent disables.
Fail(c, direction) ==
    /\ InLoop
    /\ Alive(c)
    /\ direction \in watched[c]
    /\ watched' = [watched EXCEPT ![c] = @ \ {direction}]
    /\ IoAt("error", c)
    /\ UNCHANGED <<status, jobs, input, parsed, skipped, lock, lists, queue, pc, job,
                   flush, crashed, handled, announced>>

\* cd_ErrorCallback.
ErrorCallback ==
    /\ io.at = "error"
    /\ CanWrite(io.client)
    /\ status' = [status EXCEPT ![io.client] = "disconnect"]
    /\ AddJob("disconnect", io.client, 0)
    /\ IoAt("loop", None)
    /\ UNCHANGED <<jobs, buffer, lock, lists, pc, job, flush, crashed, handled,
                   announced>>

\* CD_ServerKick from a callback of the libevent thread (the proxy plugin).
IoKick(c) ==
    /\ InLoop
    /\ Alive(c)
    /\ CanWrite(c)
    /\ ServerKick(c)
    /\ UNCHANGED <<jobs, buffer, lock, lists, pc, job, io, flush, crashed, handled,
                   announced>>

Disconnected == {disconnecting[i] : i \in DOMAIN disconnecting} \cap clients

\* CD_ServerCleanDisconnects up to the end of its loop, which runs with the
\* list locked, after the event loop has exited.
CleanDisconnects ==
    /\ InLoop
    /\ flush
    /\ flush' = FALSE
    /\ Unlisted(Disconnected)
    /\ freed' = freed \cup Disconnected
    /\ IF disconnecting = <<>> THEN UNCHANGED io ELSE IoAt("clear", None)
    /\ UNCHANGED <<status, jobs, buffer, lock, disconnecting, queue, pc, job, crashed,
                   handled, announced>>

\* The CD_ListClear that follows, in a critical section of its own.
ClearDisconnecting ==
    /\ io.at = "clear"
    /\ disconnecting' = <<>>
    /\ IoAt("loop", None)
    /\ UNCHANGED <<status, jobs, buffer, lock, clients, tail, freed, queue, pc, job,
                   flush, crashed, handled, announced>>

------------------------------------------------------------------------------
(* The workers *)

NextJob(w) ==
    /\ queue # <<>>
    /\ Goto(w, "ready", "check")
    /\ job' = [job EXCEPT ![w] = Head(queue)]
    /\ queue' = Tail(queue)
    /\ UNCHANGED <<status, jobs, buffer, lock, lists, io, flush, crashed, handled,
                   announced>>

\* The first critical section: a job of a disconnected client is dropped.
DropJob(w) ==
    LET c == job[w].client IN
    /\ Finish(w, "check")
    /\ CanRead(c)
    /\ status[c] = "disconnect"
    /\ job[w].type # "disconnect"
    /\ jobs' = [jobs EXCEPT ![c] = Decrement(@)]
    /\ Touch(c)
    /\ UNCHANGED <<status, buffer, lock, lists, queue, io, flush, handled, announced>>

StartJob(w) ==
    LET c == job[w].client
        t == job[w].type
    IN
    /\ Goto(w, "check", IF t = "disconnect" THEN "drain" ELSE t)
    /\ CanRead(c)
    /\ status[c] = "disconnect" => t = "disconnect"
    /\ handled' = IF t = "process" THEN [handled EXCEPT ![c] = job[w].packet]
                                   ELSE handled
    /\ Touch(c)
    /\ UNCHANGED <<status, jobs, buffer, lock, lists, queue, job, io, flush, announced>>

\* A Client.process handler kicks its own client.
HandlerKick(w) ==
    LET c == job[w].client IN
    /\ pc[w] = "process"
    /\ CanWrite(c)
    /\ ServerKick(c)
    /\ Touch(c)
    /\ UNCHANGED <<jobs, buffer, lock, lists, pc, job, io, flush, handled, announced>>

\* The status after the handlers; the variant overwrites a disconnect.
BackToIdleAlways(c) == [status EXCEPT ![c] = "idle"]
BackToIdle(c) ==
    IF status[c] = "disconnect" THEN status ELSE [status EXCEPT ![c] = "idle"]

\* The handlers of Client.connect have returned.
ConnectEnd(w) ==
    LET c == job[w].client IN
    /\ Goto(w, "connect", "reread")
    /\ CanWrite(c)
    /\ status' = BackToIdle(c)
    /\ Touch(c)
    /\ UNCHANGED <<jobs, buffer, lock, lists, queue, job, io, flush, handled, announced>>

\* The handlers of Client.process and Client.processed have returned.
ProcessEnd(w) ==
    LET c == job[w].client IN
    /\ Goto(w, "process", "reread")
    /\ CanWrite(c)
    /\ status' = BackToIdle(c)
    /\ jobs' = [jobs EXCEPT ![c] = Decrement(@)]
    /\ Touch(c)
    /\ UNCHANGED <<buffer, lock, lists, queue, job, io, flush, handled, announced>>

\* The bufferevent is locked by the libevent thread while it runs a callback.
BuffersFree(c) == ~(io.at \in {"read", "error"} /\ io.client = c)

\* A worker that leaves the input to the next read callback.
RereadNot(w) ==
    /\ Finish(w, "reread")
    /\ UNCHANGED <<status, jobs, buffer, lock, lists, queue, io, flush, crashed,
                   handled, announced>>

\* The worker reads the input that came while the handlers ran
\* (CD_ReadFromClient), after it has left the critical section.
Reread(w) ==
    LET c == job[w].client IN
    /\ pc[w] = "reread"
    /\ BuffersFree(c)
    /\ Touch(c)
    /\ \/ /\ input[c] = <<>>
          /\ Finish(w, "reread")
          /\ UNCHANGED <<status, jobs, queue, input, parsed, skipped, lock>>
       \/ /\ input[c] # <<>>
          /\ ReadCallback(c)
          /\ Finish(w, "reread")
       \/ /\ SelfDeadlock(c)
          /\ Goto(w, "reread", "stuck")
          /\ UNCHANGED job
    /\ UNCHANGED <<watched, lists, io, flush, handled, announced>>

\* What the disconnect job waits for; the variant does not wait.
NoJobsAssumed(c) == TRUE
NoJobs(c) == jobs[c] < 1

\* The wait for the client's jobs is over: Client.disconnect is dispatched.
Drained(w) ==
    LET c == job[w].client IN
    /\ Goto(w, "drain", "disconnect")
    /\ CanRead(c)
    /\ NoJobs(c)
    /\ announced' = [announced EXCEPT ![c] = TRUE]
    /\ Touch(c)
    /\ UNCHANGED <<status, jobs, buffer, lock, lists, queue, job, io, flush, handled>>

DisconnectEnd(w) ==
    /\ Goto(w, "disconnect", "flush")
    /\ disconnecting' = Append(disconnecting, job[w].client)
    /\ UNCHANGED <<status, jobs, buffer, lock, clients, tail, freed, queue, job, io,
                   flush, crashed, handled, announced>>

\* CD_ServerFlush reads client->server after the client is on the list.
ServerFlush(w) ==
    /\ Finish(w, "flush")
    /\ flush' = TRUE
    /\ Touch(job[w].client)
    /\ UNCHANGED <<status, jobs, buffer, lock, lists, queue, io, handled, announced>>

------------------------------------------------------------------------------
IoStep ==
    \/ \E c \in Client :
         \/ Accept(c)
         \/ \E n \in 1..MaxPackets : \E items \in [1..n -> Kind] : Receive(c, items)
         \/ \E direction \in {"read", "write"} : Fail(c, direction)
         \/ IoKick(c)
    \/ IoRead
    \/ ErrorCallback
    \/ CleanDisconnects
    \/ ClearDisconnecting

\* A worker that holds a job.
Run(w) ==
    \/ DropJob(w)
    \/ StartJob(w)
    \/ ConnectEnd(w)
    \/ ProcessEnd(w)
    \/ Reread(w)
    \/ Drained(w)
    \/ DisconnectEnd(w)
    \/ ServerFlush(w)

Next ==
    /\ ~crashed
    /\ \/ IoStep
       \/ \E w \in Worker : NextJob(w) \/ Run(w) \/ HandlerKick(w)

Spec == Init /\ [][Next]_vars

\* Every thread that can run does; no worker is promised a job.
Fairness ==
    /\ WF_vars(~crashed /\ (IoRead \/ ErrorCallback \/ ClearDisconnecting))
    /\ \A w \in Worker : WF_vars(~crashed /\ Run(w))

FairSpec == Spec /\ Fairness

------------------------------------------------------------------------------
(* Properties *)

IsJob(j, t, c) == j.type = t /\ j.client = c

\* The jobs of kind t for c, in the queue and with the workers that have not yet
\* done what the job is for.
Stages(t) ==
    IF t = "disconnect" THEN {"check", "drain", "disconnect", "flush"} ELSE {"check", t}
Queued(t, c) == {i \in DOMAIN queue : IsJob(queue[i], t, c)}
Pending(t, c) == {w \in Worker : IsJob(job[w], t, c) /\ pc[w] \in Stages(t)}

AtMostOne(S) == \A x, y \in S : x = y
NoJobLeft(t, c) == Queued(t, c) = {} /\ Pending(t, c) = {}
OneJobAtMost(t, c) ==
    /\ AtMostOne(Queued(t, c))
    /\ AtMostOne(Pending(t, c))
    /\ Queued(t, c) = {} \/ Pending(t, c) = {}

\* A client has at most one packet between the read callback and the end of its
\* handlers, wherever the job is, and its status says whether there is one: a
\* client that waits for its connection or is idle has none, one in status
\* Process has one (Server.c:178-193, Worker.c:152-166).
OneProcessJob ==
    \A c \in Client :
        /\ OneJobAtMost("process", c)
        /\ status[c] = "process" => ~NoJobLeft("process", c)
        /\ status[c] \in {"absent", "connect", "idle"} => NoJobLeft("process", c)

\* The 8-bit counter the disconnect job waits on counts that packet exactly;
\* otherwise it is 0, or 255 once the Connect job of a client that was already
\* disconnecting was dropped, since that job was never counted
\* (Worker.c:124-131, Server.c:186).
JobsCounted ==
    \A c \in Client :
        IF NoJobLeft("process", c)
        THEN jobs[c] = 0 \/ (jobs[c] = 255 /\ status[c] = "disconnect")
        ELSE jobs[c] = 1

\* The wait in the disconnect job is for a handler that runs, never for a job
\* still in the queue, so it needs no other worker to become free
\* (Worker.c:173-185).
DrainWaitsForHandlers ==
    \A w \in Worker : \A c \in Client :
        pc[w] = "drain" /\ job[w].client = c => Queued("process", c) = {}

\* What is left in the input buffer of an idle client is about to be read: the
\* libevent thread is in its callback or a worker is about to reread, unless a
\* thread deadlocked on the client's status lock. The exception is the code's: once
\* the parser met a type without a case, the rest waits for the next data
\* (Server.c:178-187, Worker.c:149 and 170).
NoStrandedInput ==
    \A c \in Client :
        status[c] = "idle" /\ input[c] # <<>> /\ CanWrite(c) /\ ~skipped[c] =>
            \/ io = [at |-> "read", client |-> c]
            \/ \E w \in Worker : pc[w] = "reread" /\ job[w].client = c

\* A client in status Disconnect has a Disconnect job on its way until
\* Client.disconnect is dispatched; no order of kicks, errors and dropped jobs
\* forgets it (Server.c:218-236, 462-489).
DisconnectOnItsWay ==
    \A c \in Client :
        status[c] = "disconnect" =>
            announced[c] \/ ~NoJobLeft("disconnect", c)

\* While a Client.process handler runs, no other handler of that client does and
\* the client's memory is not freed.
ProcessIsolated ==
    \A w \in Worker :
        pc[w] = "process" =>
            /\ Alive(job[w].client)
            /\ \A v \in Worker \ {w} :
                 pc[v] \in {"connect", "process", "disconnect"} =>
                     job[v].client # job[w].client

\* Whoever walks the server's list meets only clients that are accepted and not yet
\* freed, however often a client was put on the disconnecting list: the comparison
\* of addresses, KeepAlive and the clean-up read them (Server.c:304-306, 442-448).
ListedAreAlive == \A c \in clients : Alive(c)

\* Every connected client is in the server's list, where the limits, KeepAlive and
\* CD_ServerCleanDisconnects look for it (Server.c:331, List.h:140-147).
EveryClientListed == \A c \in Client : Alive(c) => c \in clients

\* A worker that waits in its disconnect job gets on with it, unless the counter
\* underflowed, the status lock is dead or the process died (Worker.c:174-185).
DrainEnds ==
    \A w \in Worker : \A c \in Client :
        (pc[w] = "drain" /\ job[w].client = c)
            ~> (pc[w] # "drain" \/ jobs[c] = 255 \/ lock[c] = "dead" \/ crashed)

Phase(c) ==
    IF c \in freed THEN "destroyed"
    ELSE IF announced[c] THEN "closed"
    ELSE IF status[c] = "absent" THEN "absent"
    ELSE IF status[c] = "connect" THEN "connecting"
    ELSE IF status[c] = "disconnect" THEN "closing"
    ELSE "open"

phaseBar == [c \in Client |-> Phase(c)]
busyBar == [c \in Client |->
    \E w \in Worker : pc[w] = "process" /\ job[w].client = c]

Session == INSTANCE ClientSession
    WITH phase <- phaseBar, busy <- busyBar, delivered <- handled

\* The server keeps what ClientSession promises the plugins.
ImplementsSession == Session!Spec
==============================================================================
