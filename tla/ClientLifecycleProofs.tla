------------------------ MODULE ClientLifecycleProofs ------------------------
(***************************************************************************)
(* The safety of the clients' life cycle, for any number of clients,       *)
(* workers and packets, and that it implements ClientSession.              *)
(***************************************************************************)
EXTENDS ClientLifecycle, TLAPS

\* A worker holds a job of the right kind exactly while it works on one, and the
\* libevent thread has a client while it runs one of its callbacks.
IoHasClient == io.at \in {"read", "error"} => io.client \in Client

HoldsItsJob(w) ==
    /\ pc[w] = "ready" <=> job[w] = NoJob
    /\ pc[w] \in {"connect", "process"} => job[w].type = pc[w]
    /\ pc[w] \in {"drain", "disconnect", "flush"} => job[w].type = "disconnect"
    /\ pc[w] \in {"reread", "stuck"} => job[w].type \in {"connect", "process"}

\* The bound on what is received bounds what is parsed.
InputBounded ==
    \A c \in Client : Len(input[c]) + parsed[c] <= MaxPackets

Agreement ==
    /\ TypeOK
    /\ IoHasClient
    /\ \A w \in Worker : HoldsItsJob(w)

WellFormed ==
    /\ TypeOK
    /\ InputBounded
    /\ IoHasClient
    /\ \A w \in Worker : HoldsItsJob(w)

\* A worker that works has a job, one that is ready has none.
LEMMA JobOfWorker ==
  ASSUME WellFormed, NEW w \in Worker
  PROVE  /\ pc[w] # "ready" => job[w] \in Job /\ job[w].client \in Client
         /\ pc[w] = "ready" => job[w] = NoJob
  BY DEF WellFormed, HoldsItsJob, TypeOK, Job

\* The uint8_t arithmetic stays within a byte.
LEMMA Byte ==
  ASSUME NEW n \in 0..255
  PROVE  Decrement(n) \in 0..255 /\ Increment(n) \in 0..255
  BY DEF Decrement, Increment

\* A job made for a client is a job.
LEMMA NewJobType ==
  ASSUME NEW t \in JobType, NEW c \in Client, NEW p \in 0..MaxPackets
  PROVE  NewJob(t, c, p) \in Job /\ NewJob(t, c, p) # NoJob
  BY NoneAssumption DEF NewJob, Job, NoJob, JobType, None

\* A sequence extended by an element of its set stays one.
LEMMA AppendType ==
  ASSUME NEW S, NEW q \in Seq(S), NEW x \in S
  PROVE  Append(q, x) \in Seq(S)
  OBVIOUS

\* A kick keeps the types of what it changes.
LEMMA KickType ==
  ASSUME TypeOK, NEW c \in Client, ServerKick(c)
  PROVE  status' \in [Client -> Status] /\ queue' \in Seq(Job)
<1>1. 0 \in 0..MaxPackets /\ "disconnect" \in JobType
  BY ConstantsAssumption DEF JobType
<1>2. NewJob("disconnect", c, 0) \in Job
  BY <1>1, NewJobType
<1>3. status' \in [Client -> Status]
  BY DEF ServerKick, TypeOK, Status
<1>4. queue' \in Seq(Job)
  <2>1. queue \in Seq(Job)
    BY DEF TypeOK
  <2>2. QED
    BY <1>2, <2>1, AppendType DEF ServerKick, AddJob
<1>5. QED
  BY <1>3, <1>4

\* An idle client's input has room for one more packet number.
LEMMA RoomForPacket ==
  ASSUME WellFormed, NEW c \in Client, input[c] # <<>>
  PROVE  parsed[c] + 1 \in 0..MaxPackets
<1>1. input[c] \in Seq(Kind) /\ parsed[c] \in Nat
  BY DEF WellFormed, TypeOK
<1>2. Len(input[c]) \in Nat /\ Len(input[c]) > 0
  BY <1>1
<1>3. Len(input[c]) + parsed[c] <= MaxPackets
  BY DEF WellFormed, InputBounded
<1>4. QED
  BY <1>1, <1>2, <1>3, ConstantsAssumption

\* What is left of the input once its head is taken.
LEMMA TakeType ==
  ASSUME WellFormed, NEW c \in Client, input[c] # <<>>, Take(c)
  PROVE  /\ input' \in [Client -> Seq(Kind)]
         /\ Len(input'[c]) = Len(input[c]) - 1
         /\ \A d \in Client \ {c} : input'[d] = input[d]
<1>1. input \in [Client -> Seq(Kind)] /\ input[c] \in Seq(Kind)
  BY DEF WellFormed, TypeOK
<1>2. Tail(input[c]) \in Seq(Kind) /\ Len(Tail(input[c])) = Len(input[c]) - 1
  BY <1>1
<1>3. QED
  BY <1>1, <1>2 DEF Take

\* A read callback keeps the types too, in each of its outcomes.
LEMMA ReadType ==
  ASSUME WellFormed, NEW c \in Client, ReadCallback(c) \/ SelfDeadlock(c)
  PROVE  /\ status' \in [Client -> Status]
         /\ jobs' \in [Client -> 0..255]
         /\ input' \in [Client -> Seq(Kind)]
         /\ parsed' \in [Client -> 0..MaxPackets]
         /\ skipped' \in [Client -> BOOLEAN]
         /\ queue' \in Seq(Job)
         /\ lock' \in [Client -> {"sound", "readonly", "dead"}]
<1>0. TypeOK
  BY DEF WellFormed
<1>1. CASE SelfDeadlock(c)
  BY <1>0, <1>1 DEF SelfDeadlock, TypeOK
<1>2. CASE ReadNothing(c)
  BY <1>0, <1>2 DEF ReadNothing, TypeOK
<1>3. CASE ReadPacket(c)
  <2>1. /\ status' = [status EXCEPT ![c] = "process"]
        /\ jobs' = [jobs EXCEPT ![c] = Increment(@)]
        /\ parsed' = [parsed EXCEPT ![c] = @ + 1]
        /\ skipped' = [skipped EXCEPT ![c] = FALSE]
        /\ queue' = Append(queue, NewJob("process", c, parsed[c] + 1))
        /\ lock' = lock /\ Take(c) /\ input[c] # <<>>
    BY <1>3 DEF ReadPacket, AddJob, Finds, MayParse
  <2>2. parsed[c] + 1 \in 0..MaxPackets
    BY <2>1, RoomForPacket
  <2>3. NewJob("process", c, parsed[c] + 1) \in Job
    BY <2>2, NewJobType DEF JobType
  <2>4. Increment(jobs[c]) \in 0..255
    <3>1. jobs[c] \in 0..255
      BY <1>0 DEF TypeOK
    <3>2. QED
      BY <3>1, Byte
  <2>5. /\ status \in [Client -> Status] /\ jobs \in [Client -> 0..255]
        /\ parsed \in [Client -> 0..MaxPackets] /\ queue \in Seq(Job)
        /\ skipped \in [Client -> BOOLEAN]
        /\ lock \in [Client -> {"sound", "readonly", "dead"}]
    BY <1>0 DEF TypeOK
  <2>6. queue' \in Seq(Job)
    BY <2>1, <2>3, <2>5, AppendType
  <2>7. input' \in [Client -> Seq(Kind)]
    BY <2>1, TakeType
  <2>8. status' \in [Client -> Status] /\ skipped' \in [Client -> BOOLEAN]
    BY <2>1, <2>5 DEF Status
  <2>9. QED
    BY <2>1, <2>2, <2>4, <2>5, <2>6, <2>7, <2>8
<1>4. CASE ReadCaseless(c)
  <2>1. /\ UNCHANGED <<status, jobs, queue, parsed, lock>>
        /\ Take(c) /\ input[c] # <<>>
        /\ skipped' = [skipped EXCEPT ![c] = TRUE]
    BY <1>4 DEF ReadCaseless, Finds, MayParse
  <2>2. input' \in [Client -> Seq(Kind)]
    BY <2>1, TakeType
  <2>3. QED
    BY <1>0, <2>1, <2>2 DEF TypeOK
<1>5. CASE ReadMalformed(c)
  <2>1. /\ ServerKick(c)
        /\ \E l \in {"sound", "readonly", "dead"} :
               lock' = [lock EXCEPT ![c] = l]
        /\ jobs' = jobs /\ parsed' = parsed /\ input' = input /\ skipped' = skipped
    BY <1>5 DEF ReadMalformed
  <2>2. status' \in [Client -> Status] /\ queue' \in Seq(Job)
    BY <1>0, <2>1, KickType
  <2>3. lock' \in [Client -> {"sound", "readonly", "dead"}]
    BY <1>0, <2>1 DEF TypeOK
  <2>4. QED
    BY <1>0, <2>1, <2>2, <2>3 DEF TypeOK
<1>6. QED
  BY <1>1, <1>2, <1>3, <1>4, <1>5 DEF ReadCallback

\* A read callback that parses a packet takes it off the input.
LEMMA ReadBounded ==
  ASSUME WellFormed, NEW c \in Client, ReadCallback(c) \/ SelfDeadlock(c)
  PROVE  InputBounded'
<1>1. /\ parsed \in [Client -> 0..MaxPackets]
      /\ \A d \in Client : Len(input[d]) \in Nat
      /\ \A d \in Client : Len(input[d]) + parsed[d] <= MaxPackets
  BY DEF WellFormed, TypeOK, InputBounded
<1>2. CASE ReadPacket(c)
  <2>1. /\ parsed' = [parsed EXCEPT ![c] = parsed[c] + 1]
        /\ Take(c) /\ input[c] # <<>>
    BY <1>2 DEF ReadPacket, Finds, MayParse
  <2>2. /\ Len(input'[c]) = Len(input[c]) - 1
        /\ \A d \in Client \ {c} : input'[d] = input[d]
    BY <2>1, TakeType
  <2>3. QED
    BY <1>1, <2>1, <2>2, ConstantsAssumption DEF InputBounded
<1>3. CASE ReadCaseless(c)
  <2>1. parsed' = parsed /\ Take(c) /\ input[c] # <<>>
    BY <1>3 DEF ReadCaseless, Finds, MayParse
  <2>2. /\ Len(input'[c]) = Len(input[c]) - 1
        /\ \A d \in Client \ {c} : input'[d] = input[d]
    BY <2>1, TakeType
  <2>3. QED
    BY <1>1, <2>1, <2>2, ConstantsAssumption DEF InputBounded
<1>4. CASE UNCHANGED <<input, parsed>>
  BY <1>1, <1>4 DEF InputBounded
<1>5. QED
  BY <1>2, <1>3, <1>4 DEF ReadCallback, ReadNothing, ReadMalformed, SelfDeadlock

\* The types, and the agreement of each thread's position with what it holds, hold at
\* first
LEMMA WellFormedAtFirst == Init => WellFormed
<1>1. Init => TypeOK
  <2>1. 0 \in 0..MaxPackets
    BY ConstantsAssumption
  <2>2. ASSUME Init
        PROVE  /\ queue \in Seq(Job) /\ disconnecting \in Seq(Client)
               /\ pc \in [Worker -> PC] /\ job \in [Worker -> Job \cup {NoJob}]
               /\ io \in [at : {"loop", "read", "error", "clear", "stuck"},
                          client : Client \cup {None}]
    BY <2>2 DEF Init, PC
  <2>3. ASSUME Init
        PROVE  /\ input \in [Client -> Seq(Kind)]
               /\ parsed \in [Client -> 0..MaxPackets]
               /\ handled \in [Client -> 0..MaxPackets]
    BY <2>1, <2>3 DEF Init
  <2>4. ASSUME Init
        PROVE  /\ status \in [Client -> Status] /\ jobs \in [Client -> 0..255]
               /\ watched \in [Client -> SUBSET {"read", "write"}]
               /\ lock \in [Client -> {"sound", "readonly", "dead"}]
    BY <2>4 DEF Init, Status
  <2>5. ASSUME Init
        PROVE  /\ clients \in SUBSET Client /\ freed \in SUBSET Client
               /\ tail \in Client \cup {None}
               /\ flush \in BOOLEAN /\ crashed \in BOOLEAN
               /\ announced \in [Client -> BOOLEAN]
               /\ skipped \in [Client -> BOOLEAN]
    BY <2>5 DEF Init
  <2>6. QED
    BY <2>2, <2>3, <2>4, <2>5 DEF TypeOK
<1>2. Init => IoHasClient /\ \A w \in Worker : HoldsItsJob(w)
  BY DEF Init, IoHasClient, HoldsItsJob
<1>3. Init => InputBounded
  BY ConstantsAssumption DEF Init, InputBounded
<1>4. QED
  BY <1>1, <1>2, <1>3 DEF WellFormed

\* and every step keeps the types and that agreement.
LEMMA AgreementStep == WellFormed /\ [Next]_vars => Agreement'
<1> SUFFICES ASSUME WellFormed, [Next]_vars PROVE Agreement'
  OBVIOUS
<1>0. TypeOK /\ IoHasClient /\ \A w \in Worker : HoldsItsJob(w)
  BY DEF WellFormed
<1> USE <1>0 DEF Agreement, IoHasClient, HoldsItsJob
<1>1. ASSUME NEW c \in Client, Accept(c) PROVE Agreement'
  <2>1. NewJob("connect", c, 0) \in Job
    BY NewJobType, ConstantsAssumption DEF JobType
  <2>2. queue' \in Seq(Job)
    BY <1>1, <2>1 DEF Accept, TypeOK, AddJob
  <2>3. /\ clients' \in SUBSET Client /\ tail' \in Client \cup {None}
        /\ crashed' \in BOOLEAN
    BY <1>1 DEF Accept, Listed, TypeOK
  <2>4. QED
    BY <1>1, <2>2, <2>3 DEF Accept, TypeOK, InLoop, Status
<1>2. ASSUME NEW c \in Client, NEW items \in Seq(Kind), Receive(c, items)
      PROVE  Agreement'
  <2>1. input[c] \o items \in Seq(Kind)
    <3>1. input[c] \in Seq(Kind)
      BY DEF TypeOK
    <3>2. QED
      BY <3>1
  <2>2. input' \in [Client -> Seq(Kind)]
    BY <1>2, <2>1 DEF Receive, TypeOK
  <2>3. /\ io' = [at |-> "read", client |-> c]
        /\ UNCHANGED <<status, jobs, parsed, skipped, watched, lock, lists, queue, pc,
                       job, flush, crashed, handled, announced>>
    BY <1>2 DEF Receive, IoAt
  <2>4. TypeOK'
    BY <2>2, <2>3 DEF TypeOK, lists
  <2>5. QED
    BY <2>3, <2>4
<1>3. CASE IoRead
  <2>1. io.client \in Client
    BY <1>3 DEF IoRead
  <2>2. ReadCallback(io.client) \/ SelfDeadlock(io.client)
    BY <1>3 DEF IoRead
  <2>3. /\ status' \in [Client -> Status]
        /\ jobs' \in [Client -> 0..255]
        /\ input' \in [Client -> Seq(Kind)]
        /\ parsed' \in [Client -> 0..MaxPackets]
        /\ skipped' \in [Client -> BOOLEAN]
        /\ queue' \in Seq(Job)
        /\ lock' \in [Client -> {"sound", "readonly", "dead"}]
    BY <2>1, <2>2, ReadType
  <2>4. /\ IoAt("loop", None) \/ IoAt("stuck", None)
        /\ UNCHANGED <<watched, lists, pc, job, flush, crashed, handled, announced>>
    BY <1>3 DEF IoRead
  <2>5. io' \in [at : {"loop", "read", "error", "clear", "stuck"}, client : Client \cup {None}]
    BY <2>4 DEF IoAt
  <2>a. TypeOK'
    BY <2>3, <2>4, <2>5 DEF TypeOK, lists
  <2>6. QED
    BY <2>4, <2>a DEF IoAt
<1>4. ASSUME NEW c \in Client, NEW d \in {"read", "write"}, Fail(c, d)
      PROVE  Agreement'
  BY <1>4 DEF Fail, TypeOK, IoAt, InLoop, lists
<1>5. CASE ErrorCallback
  <2>1. io.client \in Client
    BY <1>5 DEF ErrorCallback
  <2>2. NewJob("disconnect", io.client, 0) \in Job
    BY <2>1, NewJobType, ConstantsAssumption DEF JobType
  <2>3. /\ status' = [status EXCEPT ![io.client] = "disconnect"]
        /\ queue' = Append(queue, NewJob("disconnect", io.client, 0))
        /\ io' = [at |-> "loop", client |-> None]
        /\ UNCHANGED <<jobs, buffer, lock, lists, pc, job, flush, crashed, handled, announced>>
    BY <1>5 DEF ErrorCallback, AddJob, IoAt
  <2>4. queue' \in Seq(Job)
    BY <2>2, <2>3, AppendType DEF TypeOK
  <2>5. status' \in [Client -> Status]
    BY <2>1, <2>3 DEF TypeOK, Status
  <2>6. TypeOK'
    BY <2>3, <2>4, <2>5 DEF TypeOK, lists, buffer
  <2>7. QED
    BY <2>3, <2>6
<1>6. ASSUME NEW c \in Client, IoKick(c) PROVE Agreement'
  BY <1>6, KickType DEF IoKick, TypeOK, lists, buffer
<1>7. CASE CleanDisconnects
  <2>1. Disconnected \subseteq Client
    BY DEF Disconnected, TypeOK
  <2>2. /\ clients' \in SUBSET Client /\ freed' \in SUBSET Client
        /\ tail' \in Client \cup {None}
    BY <1>7, <2>1 DEF CleanDisconnects, Unlisted, TypeOK
  <2>3. io' = io \/ IoAt("clear", None)
    BY <1>7 DEF CleanDisconnects
  <2>4. /\ flush' = FALSE
        /\ UNCHANGED <<status, jobs, buffer, lock, disconnecting, queue, pc, job,
                       crashed, handled, announced>>
    BY <1>7 DEF CleanDisconnects
  <2>5. TypeOK'
    <3>1. io' \in [at : {"loop", "read", "error", "clear", "stuck"},
                   client : Client \cup {None}]
      BY <2>3 DEF TypeOK, IoAt
    <3>2. QED
      BY <2>2, <2>4, <3>1 DEF TypeOK, buffer
  <2>6. QED
    BY <2>3, <2>4, <2>5 DEF IoAt
<1>8. CASE ClearDisconnecting
  <2>1. /\ disconnecting' = <<>>
        /\ io' = [at |-> "loop", client |-> None]
        /\ UNCHANGED <<status, jobs, buffer, lock, clients, tail, freed, queue, pc, job,
                       flush, crashed, handled, announced>>
    BY <1>8 DEF ClearDisconnecting, IoAt
  <2>a. /\ disconnecting' \in Seq(Client)
        /\ io' \in [at : {"loop", "read", "error", "clear", "stuck"}, client : Client \cup {None}]
    BY <2>1
  <2>2. TypeOK'
    BY <2>1, <2>a DEF TypeOK, buffer
  <2>3. QED
    BY <2>1, <2>2
<1>9. ASSUME NEW w \in Worker, NextJob(w) PROVE Agreement'
  <2>1. Head(queue) \in Job /\ Tail(queue) \in Seq(Job)
    BY <1>9 DEF NextJob, TypeOK
  <2>2. Head(queue) # NoJob
    BY <2>1 DEF Job, NoJob, JobType, None
  <2>3. /\ pc[w] = "ready" /\ pc' = [pc EXCEPT ![w] = "check"]
        /\ job' = [job EXCEPT ![w] = Head(queue)] /\ queue' = Tail(queue)
        /\ UNCHANGED <<status, jobs, buffer, lock, lists, io, flush, crashed, handled,
                       announced>>
    BY <1>9 DEF NextJob, Goto
  <2>4. TypeOK'
    BY <2>1, <2>3 DEF TypeOK, PC, lists, buffer
  <2>5. \A v \in Worker : HoldsItsJob(v)'
    BY <2>2, <2>3 DEF TypeOK
  <2>6. QED
    BY <2>3, <2>4, <2>5
<1>10. ASSUME NEW w \in Worker, DropJob(w) PROVE Agreement'
  <2>1. job[w].client \in Client
    BY <1>10, JobOfWorker DEF DropJob, Finish, Goto
  <2>2. Decrement(jobs[job[w].client]) \in 0..255
    <3>1. jobs[job[w].client] \in 0..255
      BY <2>1 DEF TypeOK
    <3>2. QED
      BY <3>1, Byte
  <2>3. jobs' \in [Client -> 0..255] /\ crashed' \in BOOLEAN
    BY <1>10, <2>1, <2>2 DEF DropJob, Touch, TypeOK
  <2>4. /\ Finish(w, "check")
        /\ UNCHANGED <<status, buffer, lock, lists, queue, io, flush, handled,
                       announced>>
    BY <1>10 DEF DropJob
  <2>5. pc' = [pc EXCEPT ![w] = "ready"] /\ job' = [job EXCEPT ![w] = NoJob]
    BY <2>4 DEF Finish, Goto
  <2>6. TypeOK'
    BY <2>3, <2>4, <2>5 DEF TypeOK, PC, lists, buffer
  <2>7. \A v \in Worker : HoldsItsJob(v)'
    BY <2>5 DEF TypeOK
  <2>8. QED
    BY <2>4, <2>6, <2>7
<1>11. ASSUME NEW w \in Worker, StartJob(w) PROVE Agreement'
  <2>1. job[w] \in Job /\ job[w].client \in Client
    BY <1>11, JobOfWorker DEF StartJob, Goto
  <2>2. job[w].packet \in 0..MaxPackets /\ job[w].type \in JobType
    BY <2>1 DEF Job
  <2>3. handled' \in [Client -> 0..MaxPackets] /\ crashed' \in BOOLEAN
    BY <1>11, <2>1, <2>2 DEF StartJob, Touch, TypeOK
  <2>4. /\ Goto(w, "check", IF job[w].type = "disconnect" THEN "drain"
                                                        ELSE job[w].type)
        /\ UNCHANGED <<status, jobs, buffer, lock, lists, queue, job, io, flush,
                       announced>>
    BY <1>11 DEF StartJob
  <2>5. LET to == IF job[w].type = "disconnect" THEN "drain" ELSE job[w].type IN
        pc[w] = "check" /\ to \in PC /\ pc' = [pc EXCEPT ![w] = to]
    BY <2>2, <2>4 DEF Goto, PC, JobType
  <2>6. TypeOK'
    BY <2>3, <2>4, <2>5 DEF TypeOK, lists, buffer
  <2>7. \A v \in Worker : HoldsItsJob(v)'
    BY <2>2, <2>4, <2>5 DEF TypeOK, JobType
  <2>8. QED
    BY <2>4, <2>6, <2>7
<1>12. ASSUME NEW w \in Worker, HandlerKick(w) PROVE Agreement'
  <2>1. job[w].client \in Client
    BY <1>12, JobOfWorker DEF HandlerKick
  <2>2. QED
    BY <1>12, <2>1, KickType DEF HandlerKick, Touch, TypeOK, lists, buffer
<1>13. ASSUME NEW w \in Worker, ConnectEnd(w) PROVE Agreement'
  <2>1. /\ pc[w] = "connect" /\ pc' = [pc EXCEPT ![w] = "reread"]
        /\ status' = BackToIdle(job[w].client)
        /\ UNCHANGED <<jobs, buffer, lock, lists, queue, job, io, flush, handled, announced>>
    BY <1>13 DEF ConnectEnd, Goto
  <2>2. status' \in [Client -> Status]
    BY <2>1 DEF BackToIdle, TypeOK, Status
  <2>3. crashed' \in BOOLEAN
    BY <1>13 DEF ConnectEnd, Touch, TypeOK
  <2>4. TypeOK'
    BY <2>1, <2>2, <2>3 DEF TypeOK, PC, lists, buffer
  <2>5. \A v \in Worker : HoldsItsJob(v)'
    BY <2>1 DEF TypeOK
  <2>6. QED
    BY <2>1, <2>4, <2>5
<1>14. ASSUME NEW w \in Worker, ProcessEnd(w) PROVE Agreement'
  <2>1. job[w].client \in Client
    BY <1>14, JobOfWorker DEF ProcessEnd, Goto
  <2>2. Decrement(jobs[job[w].client]) \in 0..255
    <3>1. jobs[job[w].client] \in 0..255
      BY <2>1 DEF TypeOK
    <3>2. QED
      BY <3>1, Byte
  <2>3. /\ pc[w] = "process" /\ pc' = [pc EXCEPT ![w] = "reread"]
        /\ status' = BackToIdle(job[w].client)
        /\ jobs' = [jobs EXCEPT ![job[w].client] = Decrement(@)]
        /\ UNCHANGED <<buffer, lock, lists, queue, job, io, flush, handled, announced>>
    BY <1>14 DEF ProcessEnd, Goto
  <2>4. status' \in [Client -> Status]
    BY <2>3 DEF BackToIdle, TypeOK, Status
  <2>5. jobs' \in [Client -> 0..255]
    BY <2>2, <2>3 DEF TypeOK
  <2>6. crashed' \in BOOLEAN
    BY <1>14 DEF ProcessEnd, Touch, TypeOK
  <2>7. TypeOK'
    BY <2>3, <2>4, <2>5, <2>6 DEF TypeOK, PC, lists, buffer
  <2>8. \A v \in Worker : HoldsItsJob(v)'
    BY <2>3 DEF TypeOK
  <2>9. QED
    BY <2>3, <2>7, <2>8
<1>15. ASSUME NEW w \in Worker, Reread(w) PROVE Agreement'
  <2>1. job[w].client \in Client
    BY <1>15, JobOfWorker DEF Reread
  <2>2. \/ UNCHANGED <<status, jobs, queue, input, parsed, skipped, lock>>
        \/ ReadCallback(job[w].client)
        \/ SelfDeadlock(job[w].client)
    BY <1>15 DEF Reread
  <2>3. /\ status' \in [Client -> Status]
        /\ jobs' \in [Client -> 0..255]
        /\ input' \in [Client -> Seq(Kind)]
        /\ parsed' \in [Client -> 0..MaxPackets]
        /\ skipped' \in [Client -> BOOLEAN]
        /\ queue' \in Seq(Job)
        /\ lock' \in [Client -> {"sound", "readonly", "dead"}]
    <3>1. CASE UNCHANGED <<status, jobs, queue, input, parsed, skipped, lock>>
      BY <3>1 DEF TypeOK
    <3>2. CASE ReadCallback(job[w].client) \/ SelfDeadlock(job[w].client)
      BY <2>1, <3>2, ReadType
    <3>3. QED
      BY <2>2, <3>1, <3>2
  <2>4. \/ Finish(w, "reread")
        \/ Goto(w, "reread", "stuck") /\ UNCHANGED job
    BY <1>15 DEF Reread
  <2>5. UNCHANGED <<watched, lists, io, flush, handled, announced>>
        /\ crashed' \in BOOLEAN
    BY <1>15 DEF Reread, Touch, TypeOK
  <2>6. pc' \in [Worker -> PC] /\ job' \in [Worker -> Job \cup {NoJob}]
    BY <2>4 DEF Finish, Goto, TypeOK, PC
  <2>7. TypeOK'
    BY <2>3, <2>5, <2>6 DEF TypeOK, lists
  <2>8. \A v \in Worker : HoldsItsJob(v)'
    <3>1. pc \in [Worker -> PC] /\ job \in [Worker -> Job \cup {NoJob}]
      BY DEF TypeOK
    <3>2. QED
      BY <2>4, <3>1 DEF Finish, Goto
  <2>9. QED
    BY <2>5, <2>7, <2>8
<1>16. ASSUME NEW w \in Worker, Drained(w) PROVE Agreement'
  <2>1. /\ pc[w] = "drain" /\ pc' = [pc EXCEPT ![w] = "disconnect"]
        /\ announced' = [announced EXCEPT ![job[w].client] = TRUE]
        /\ UNCHANGED <<status, jobs, buffer, lock, lists, queue, job, io, flush, handled>>
    BY <1>16 DEF Drained, Goto
  <2>2. crashed' \in BOOLEAN
    BY <1>16 DEF Drained, Touch, TypeOK
  <2>3. TypeOK'
    BY <2>1, <2>2 DEF TypeOK, PC, lists, buffer
  <2>4. \A v \in Worker : HoldsItsJob(v)'
    BY <2>1 DEF TypeOK
  <2>5. QED
    BY <2>1, <2>3, <2>4
<1>17. ASSUME NEW w \in Worker, DisconnectEnd(w) PROVE Agreement'
  <2>1. job[w].client \in Client
    BY <1>17, JobOfWorker DEF DisconnectEnd, Goto
  <2>2. disconnecting' \in Seq(Client)
    BY <1>17, <2>1 DEF DisconnectEnd, TypeOK
  <2>3. /\ pc[w] = "disconnect" /\ pc' = [pc EXCEPT ![w] = "flush"]
        /\ UNCHANGED <<status, jobs, buffer, lock, clients, tail, freed, queue, job, io,
                       flush, crashed, handled, announced>>
    BY <1>17 DEF DisconnectEnd, Goto
  <2>4. TypeOK'
    BY <2>2, <2>3 DEF TypeOK, PC, buffer
  <2>5. \A v \in Worker : HoldsItsJob(v)'
    BY <2>3 DEF TypeOK
  <2>6. QED
    BY <2>3, <2>4, <2>5
<1>18. ASSUME NEW w \in Worker, ServerFlush(w) PROVE Agreement'
  <2>1. /\ pc' = [pc EXCEPT ![w] = "ready"] /\ job' = [job EXCEPT ![w] = NoJob]
        /\ flush' = TRUE
        /\ UNCHANGED <<status, jobs, buffer, lock, lists, queue, io, handled, announced>>
    BY <1>18 DEF ServerFlush, Finish, Goto
  <2>2. crashed' \in BOOLEAN
    BY <1>18 DEF ServerFlush, Touch, TypeOK
  <2>3. TypeOK'
    BY <2>1, <2>2 DEF TypeOK, PC, lists, buffer
  <2>4. \A v \in Worker : HoldsItsJob(v)'
    BY <2>1 DEF TypeOK
  <2>5. QED
    BY <2>1, <2>3, <2>4
<1>19. CASE UNCHANGED vars
  BY <1>19 DEF vars, TypeOK, lists, buffer
<1>20. \A n \in 1..MaxPackets : [1..n -> Kind] \subseteq Seq(Kind)
  BY ConstantsAssumption
<1>21. QED
  BY <1>20, <1>1, <1>2, <1>3, <1>4, <1>5, <1>6, <1>7, <1>8, <1>9, <1>10, <1>11, <1>12,
     <1>13, <1>14, <1>15, <1>16, <1>17, <1>18, <1>19
  DEF Next, IoStep, Run

\* Nothing but a read callback and the arrival of data touches the input.
LEMMA InputStep ==
  ASSUME WellFormed, [Next]_vars
  PROVE  \/ UNCHANGED <<input, parsed, skipped>>
         \/ \E c \in Client : ReadCallback(c) \/ SelfDeadlock(c)
         \/ \E c \in Client, n \in 1..MaxPackets : \E items \in [1..n -> Kind] :
                Receive(c, items)
<1>1. CASE IoRead
  BY <1>1 DEF IoRead, WellFormed, IoHasClient
<1>2. ASSUME NEW w \in Worker, Reread(w)
      PROVE  \/ UNCHANGED <<input, parsed, skipped>>
             \/ \E c \in Client : ReadCallback(c) \/ SelfDeadlock(c)
  <2>1. job[w].client \in Client
    BY <1>2, JobOfWorker DEF Reread
  <2>2. QED
    BY <1>2, <2>1 DEF Reread
<1>3. QED
  BY <1>1, <1>2
  DEF Next, IoStep, Run, Accept, Fail, IoKick, ErrorCallback, CleanDisconnects,
      ClearDisconnecting, NextJob, HandlerKick, DropJob, StartJob, ConnectEnd,
      ProcessEnd, Drained, DisconnectEnd, ServerFlush, vars, buffer

LEMMA InputBoundedStep == WellFormed /\ [Next]_vars => InputBounded'
<1> SUFFICES ASSUME WellFormed, [Next]_vars PROVE InputBounded'
  OBVIOUS
<1>1. CASE UNCHANGED <<input, parsed>>
  BY <1>1 DEF WellFormed, InputBounded
<1>2. ASSUME NEW c \in Client, NEW n \in 1..MaxPackets, NEW items \in [1..n -> Kind],
             Receive(c, items)
      PROVE  InputBounded'
  <2>1. items \in Seq(Kind) /\ input[c] \in Seq(Kind) /\ Len(items) \in Nat
    BY ConstantsAssumption DEF WellFormed, TypeOK
  <2>2. Len(input[c] \o items) = Len(input[c]) + Len(items) /\ Len(input[c]) \in Nat
    BY <2>1
  <2>3. /\ Len(input[c]) + Len(items) + parsed[c] <= MaxPackets
        /\ input' = [input EXCEPT ![c] = input[c] \o items] /\ parsed' = parsed
    BY <1>2 DEF Receive
  <2>4. input \in [Client -> Seq(Kind)]
    BY DEF WellFormed, TypeOK
  <2>5. input'[c] = input[c] \o items /\ \A d \in Client \ {c} : input'[d] = input[d]
    BY <2>3, <2>4
  <2>6. Len(input'[c]) + parsed[c] <= MaxPackets
    BY <2>2, <2>3, <2>5
  <2>7. QED
    BY <2>3, <2>5, <2>6 DEF WellFormed, InputBounded
<1>3. QED
  BY <1>1, <1>2, InputStep, ReadBounded

\* So all of it is kept.
LEMMA WellFormedStep == WellFormed /\ [Next]_vars => WellFormed'
  BY AgreementStep, InputBoundedStep DEF WellFormed, Agreement

------------------------------------------------------------------------------
(* How a step moves the jobs of one kind of one client *)

Unmoved(t, c) ==
    /\ NoJobLeft(t, c)' <=> NoJobLeft(t, c)
    /\ OneJobAtMost(t, c) => OneJobAtMost(t, c)'

\* Adding a job touches no other kind or client; the first of its kind is the
\* only one.
LEMMA JobAdded ==
  ASSUME WellFormed, NEW j \in Job, queue' = Append(queue, j),
         NEW t, NEW c, Pending(t, c)' = Pending(t, c)
  PROVE  /\ ~IsJob(j, t, c) => Unmoved(t, c)
         /\ IsJob(j, t, c) => ~NoJobLeft(t, c)'
         /\ IsJob(j, t, c) /\ NoJobLeft(t, c) => OneJobAtMost(t, c)'
<1>1. queue \in Seq(Job)
  BY DEF WellFormed, TypeOK
<1>2. /\ DOMAIN queue' = 1..(Len(queue) + 1)
      /\ DOMAIN queue = 1..Len(queue)
      /\ Len(queue) \in Nat
      /\ \A i \in 1..Len(queue) : queue'[i] = queue[i]
      /\ queue'[Len(queue) + 1] = j
  BY <1>1
<1>3. CASE ~IsJob(j, t, c)
  <2>1. Queued(t, c)' = Queued(t, c)
    BY <1>2, <1>3 DEF Queued, IsJob
  <2>2. QED
    BY <1>3, <2>1 DEF Unmoved, NoJobLeft, OneJobAtMost, AtMostOne
<1>4. CASE IsJob(j, t, c)
  <2>1. Queued(t, c)' = Queued(t, c) \cup {Len(queue) + 1}
    BY <1>2, <1>4 DEF Queued, IsJob
  <2>2. QED
    BY <1>4, <2>1 DEF NoJobLeft, OneJobAtMost, AtMostOne
<1>5. QED
  BY <1>3, <1>4

\* Taking a job from the queue moves it to the worker and leaves every count of
\* jobs as it was.
LEMMA JobTaken ==
  ASSUME WellFormed, NEW w \in Worker, NextJob(w), NEW t \in JobType, NEW c
  PROVE  Unmoved(t, c)
<1>1. /\ queue \in Seq(Job) /\ queue # <<>> /\ queue' = Tail(queue)
      /\ pc \in [Worker -> PC] /\ job \in [Worker -> Job \cup {NoJob}]
      /\ pc[w] = "ready" /\ job[w] = NoJob
      /\ pc' = [pc EXCEPT ![w] = "check"]
      /\ job' = [job EXCEPT ![w] = queue[1]]
  BY DEF WellFormed, TypeOK, HoldsItsJob, NextJob, Goto
<1>2. /\ DOMAIN queue = 1..Len(queue) /\ Len(queue) \in Nat /\ Len(queue) > 0
      /\ DOMAIN queue' = 1..(Len(queue) - 1)
      /\ \A i \in 1..(Len(queue) - 1) : queue'[i] = queue[i + 1]
  BY <1>1
<1>3. "check" \in Stages(t) /\ "ready" \notin Stages(t)
  BY DEF Stages, JobType
<1>4. \A i : i \in Queued(t, c)' <=> i \in 1..(Len(queue) - 1) /\ i + 1 \in Queued(t, c)
  BY <1>2 DEF Queued, IsJob
<1>5. 1 \in Queued(t, c) <=> IsJob(queue[1], t, c)
  BY <1>2 DEF Queued, IsJob
<1>6. \A i \in Queued(t, c) : i \in 1..Len(queue)
  BY <1>2 DEF Queued
<1>7. CASE IsJob(queue[1], t, c)
  <2>1. Pending(t, c)' = Pending(t, c) \cup {w}
    BY <1>1, <1>3, <1>7 DEF Pending, IsJob
  <2>2. ASSUME OneJobAtMost(t, c)
        PROVE  Queued(t, c)' = {} /\ Pending(t, c)' = {w}
    <3>1. Pending(t, c) = {} /\ \A i \in Queued(t, c) : i = 1
      BY <1>5, <1>7, <2>2 DEF OneJobAtMost, AtMostOne
    <3>2. QED
      BY <1>2, <1>4, <2>1, <3>1
  <2>3. QED
    BY <1>5, <1>7, <2>1, <2>2 DEF Unmoved, NoJobLeft, OneJobAtMost, AtMostOne
<1>8. CASE ~IsJob(queue[1], t, c)
  <2>1. Pending(t, c)' = Pending(t, c)
    BY <1>1, <1>3, <1>8 DEF Pending, IsJob
  <2>2. \A i \in Queued(t, c) : i - 1 \in Queued(t, c)'
    BY <1>2, <1>4, <1>5, <1>6, <1>8
  <2>3. Queued(t, c) = {} <=> Queued(t, c)' = {}
    BY <1>4, <2>2
  <2>4. AtMostOne(Queued(t, c)) => AtMostOne(Queued(t, c)')
    BY <1>2, <1>4 DEF AtMostOne
  <2>5. QED
    BY <2>1, <2>3, <2>4 DEF Unmoved, NoJobLeft, OneJobAtMost, AtMostOne
<1>9. QED
  BY <1>7, <1>8

\* A worker that moves on within the stages of its job keeps it.
LEMMA JobKept ==
  ASSUME WellFormed, NEW w \in Worker, NEW to,
         pc' = [pc EXCEPT ![w] = to], UNCHANGED <<queue, job>>,
         NEW t, NEW c,
         IsJob(job[w], t, c) => (pc[w] \in Stages(t) <=> to \in Stages(t))
  PROVE  Unmoved(t, c)
<1>1. Queued(t, c)' = Queued(t, c)
  BY DEF Queued, IsJob
<1>2. Pending(t, c)' = Pending(t, c)
  BY DEF Pending, IsJob, WellFormed, TypeOK
<1>3. QED
  BY <1>1, <1>2 DEF Unmoved, NoJobLeft, OneJobAtMost, AtMostOne

\* A worker that leaves the stages of its job leaves none of that kind behind
\* when there was at most one, and touches no other kind or client.
LEMMA JobLeft ==
  ASSUME WellFormed, NEW w \in Worker, pc[w] # "ready", NEW to,
         pc' = [pc EXCEPT ![w] = to], UNCHANGED queue,
         pc[w] \in Stages(job[w].type), to \notin Stages(job[w].type),
         job' = job \/ job' = [job EXCEPT ![w] = NoJob],
         NEW t \in JobType, NEW c \in Client
  PROVE  /\ ~IsJob(job[w], t, c) => Unmoved(t, c)
         /\ IsJob(job[w], t, c) /\ OneJobAtMost(t, c) =>
                NoJobLeft(t, c)' /\ OneJobAtMost(t, c)'
<1>1. /\ pc \in [Worker -> PC] /\ job \in [Worker -> Job \cup {NoJob}]
      /\ ~IsJob(NoJob, t, c)
  BY NoneAssumption DEF WellFormed, TypeOK, NoJob, IsJob, None, JobType
<1>2. Queued(t, c)' = Queued(t, c)
  BY DEF Queued, IsJob
<1>3. CASE ~IsJob(job[w], t, c)
  <2>1. Pending(t, c)' = Pending(t, c)
    BY <1>1, <1>3 DEF Pending, IsJob
  <2>2. QED
    BY <1>2, <1>3, <2>1 DEF Unmoved, NoJobLeft, OneJobAtMost, AtMostOne
<1>4. CASE IsJob(job[w], t, c)
  <2>1. Pending(t, c)' = Pending(t, c) \ {w} /\ w \in Pending(t, c)
    BY <1>1, <1>4 DEF Pending, IsJob
  <2>2. QED
    BY <1>2, <1>4, <2>1 DEF NoJobLeft, OneJobAtMost, AtMostOne
<1>5. QED
  BY <1>3, <1>4

\* What leaves the queue and the workers' pending jobs alone moves no job.
LEMMA NothingMoved ==
  ASSUME UNCHANGED queue, NEW t, NEW c, Pending(t, c)' = Pending(t, c)
  PROVE  Unmoved(t, c)
  BY DEF Unmoved, NoJobLeft, OneJobAtMost, AtMostOne, Queued, IsJob

PendingKept == \A t \in JobType, c \in Client : Pending(t, c)' = Pending(t, c)

\* The workers' pending jobs stay the same when the workers do,
LEMMA PendingSame ==
  ASSUME UNCHANGED <<pc, job>>
  PROVE  PendingKept
  BY DEF PendingKept, Pending, IsJob

\* and when a worker ends the reading that follows its job.
LEMMA PendingAfterReread ==
  ASSUME WellFormed, NEW w \in Worker,
         Finish(w, "reread") \/ (Goto(w, "reread", "stuck") /\ UNCHANGED job)
  PROVE  PendingKept
<1>1. /\ pc \in [Worker -> PC] /\ job \in [Worker -> Job \cup {NoJob}]
      /\ pc[w] = "reread" /\ pc'[w] \in {"ready", "stuck"}
      /\ \A v \in Worker \ {w} : pc'[v] = pc[v] /\ job'[v] = job[v]
  BY DEF WellFormed, TypeOK, Finish, Goto
<1>2. \A t \in JobType : {"reread", "ready", "stuck"} \cap Stages(t) = {}
  BY DEF Stages, JobType
<1>3. QED
  BY <1>1, <1>2 DEF PendingKept, Pending, IsJob

------------------------------------------------------------------------------
(* The inductive invariant *)

\* What ties a client's status, its jobs count and its jobs together.  The parts
\* the properties do not name are what makes it inductive: there is one Connect
\* job, no packet is parsed before it is done, and the count underflows only
\* once, when that job is dropped.
JobsInv(c) ==
    /\ OneJobAtMost("process", c)
    /\ OneJobAtMost("connect", c)
    /\ status[c] = "process" => ~NoJobLeft("process", c)
    /\ status[c] \in {"absent", "connect", "idle"} => NoJobLeft("process", c)
    /\ status[c] \notin {"connect", "disconnect"} => NoJobLeft("connect", c)
    /\ NoJobLeft("process", c) \/ NoJobLeft("connect", c)
    /\ IF NoJobLeft("process", c)
       THEN \/ jobs[c] = 0
            \/ jobs[c] = 255 /\ status[c] = "disconnect" /\ NoJobLeft("connect", c)
       ELSE jobs[c] = 1
    /\ NoJobLeft("disconnect", c) \/ status[c] = "disconnect"
    /\ status[c] = "disconnect" => announced[c] \/ ~NoJobLeft("disconnect", c)
    /\ announced[c] => status[c] = "disconnect" /\ NoJobLeft("process", c)

\* A step that leaves a client and its jobs alone keeps its invariant.
LEMMA JobsInvUnmoved ==
  ASSUME NEW c \in Client, JobsInv(c), \A t \in JobType : Unmoved(t, c),
         status'[c] = status[c], jobs'[c] = jobs[c], announced'[c] = announced[c]
  PROVE  JobsInv(c)'
  BY DEF JobsInv, Unmoved, JobType

\* A kick, wherever it comes from.
LEMMA KickKeeps ==
  ASSUME WellFormed, NEW c \in Client, JobsInv(c), NEW d \in Client,
         ServerKick(d), PendingKept, UNCHANGED <<jobs, announced>>
  PROVE  JobsInv(c)'
<1>1. CASE status[d] = "disconnect"
  <2>1. UNCHANGED <<status, queue>>
    BY <1>1 DEF ServerKick
  <2>2. \A t \in JobType : Unmoved(t, c)
    BY <2>1, NothingMoved DEF PendingKept
  <2>3. QED
    BY <2>1, <2>2, JobsInvUnmoved
<1>2. CASE status[d] # "disconnect"
  <2> DEFINE j == NewJob("disconnect", d, 0)
  <2>1. j \in Job
    BY NewJobType, ConstantsAssumption DEF JobType
  <2>2. queue' = Append(queue, j) /\ status' = [status EXCEPT ![d] = "disconnect"]
    BY <1>2 DEF ServerKick, AddJob
  <2>3. \A t : IsJob(j, t, c) <=> t = "disconnect" /\ c = d
    BY DEF NewJob, IsJob
  <2> HIDE DEF j
  <2>4. \A t \in JobType : ~IsJob(j, t, c) => Unmoved(t, c)
    BY <2>1, <2>2, JobAdded DEF PendingKept
  <2>5. IsJob(j, "disconnect", c) => ~NoJobLeft("disconnect", c)'
    BY <2>1, <2>2, JobAdded DEF PendingKept, JobType
  <2>6. status \in [Client -> Status]
    BY DEF WellFormed, TypeOK
  <2>7. CASE c # d
    BY <2>2, <2>3, <2>4, <2>6, <2>7, JobsInvUnmoved
  <2>8. CASE c = d
    <3>1. /\ Unmoved("process", c) /\ Unmoved("connect", c)
          /\ ~NoJobLeft("disconnect", c)'
          /\ status'[c] = "disconnect" /\ status[c] # "disconnect"
          /\ jobs'[c] = jobs[c] /\ announced'[c] = announced[c]
      BY <1>2, <2>2, <2>3, <2>4, <2>5, <2>6, <2>8 DEF JobType
    <3>2. QED
      BY <3>1 DEF JobsInv, Unmoved
  <2>9. QED
    BY <2>7, <2>8
<1>3. QED
  BY <1>1, <1>2

\* A read callback, whoever calls it: a packet is only parsed when no other is
\* outstanding and no job of another kind is pending.
LEMMA ReadKeeps ==
  ASSUME WellFormed, NEW c \in Client, JobsInv(c), NEW d \in Client,
         ReadCallback(d) \/ SelfDeadlock(d), PendingKept, UNCHANGED announced
  PROVE  JobsInv(c)'
<1>1. CASE ReadNothing(d) \/ ReadCaseless(d) \/ SelfDeadlock(d)
  <2>1. UNCHANGED <<status, jobs, queue>>
    BY <1>1 DEF ReadNothing, ReadCaseless, SelfDeadlock
  <2>2. \A t \in JobType : Unmoved(t, c)
    BY <2>1, NothingMoved DEF PendingKept
  <2>3. QED
    BY <2>1, <2>2, JobsInvUnmoved
<1>2. CASE ReadMalformed(d)
  BY <1>2, KickKeeps DEF ReadMalformed
<1>3. CASE ReadPacket(d)
  <2> DEFINE j == NewJob("process", d, parsed[d] + 1)
  <2>1. j \in Job
    <3>1. parsed[d] + 1 \in 0..MaxPackets
      BY <1>3, RoomForPacket DEF ReadPacket, Finds, MayParse
    <3>2. QED
      BY <3>1, NewJobType DEF JobType
  <2>2. /\ queue' = Append(queue, j)
        /\ status[d] = "idle" /\ status' = [status EXCEPT ![d] = "process"]
        /\ jobs' = [jobs EXCEPT ![d] = Increment(jobs[d])]
    BY <1>3 DEF ReadPacket, Finds, MayParse, AddJob
  <2>3. \A t : IsJob(j, t, c) <=> t = "process" /\ c = d
    BY DEF NewJob, IsJob
  <2> HIDE DEF j
  <2>4. \A t \in JobType : ~IsJob(j, t, c) => Unmoved(t, c)
    BY <2>1, <2>2, JobAdded DEF PendingKept
  <2>5. IsJob(j, "process", c) => /\ ~NoJobLeft("process", c)'
                                  /\ NoJobLeft("process", c) => OneJobAtMost("process", c)'
    BY <2>1, <2>2, JobAdded DEF PendingKept, JobType
  <2>6. status \in [Client -> Status] /\ jobs \in [Client -> 0..255]
    BY DEF WellFormed, TypeOK
  <2>7. CASE c # d
    BY <2>2, <2>3, <2>4, <2>6, <2>7, JobsInvUnmoved
  <2>8. CASE c = d
    <3>1. /\ Unmoved("disconnect", c) /\ Unmoved("connect", c)
          /\ ~NoJobLeft("process", c)'
          /\ NoJobLeft("process", c) => OneJobAtMost("process", c)'
          /\ status'[c] = "process" /\ status[c] = "idle"
          /\ jobs'[c] = Increment(jobs[c]) /\ announced'[c] = announced[c]
      BY <2>2, <2>3, <2>4, <2>5, <2>6, <2>8 DEF JobType
    <3>2. jobs[c] = 0
      BY <3>1 DEF JobsInv
    <3>3. jobs'[c] = 1
      BY <3>1, <3>2 DEF Increment
    <3>4. QED
      BY <3>1, <3>3 DEF JobsInv, Unmoved
  <2>9. QED
    BY <2>7, <2>8
<1>4. QED
  BY <1>1, <1>2, <1>3 DEF ReadCallback

\* An error callback, which adds its Disconnect job whatever the status.
LEMMA ErrorKeeps ==
  ASSUME WellFormed, NEW c \in Client, JobsInv(c), ErrorCallback
  PROVE  JobsInv(c)'
<1> DEFINE d == io.client
           j == NewJob("disconnect", d, 0)
<1>1. d \in Client
  BY DEF ErrorCallback, WellFormed, IoHasClient
<1>2. /\ queue' = Append(queue, j) /\ UNCHANGED <<pc, job, jobs, announced>>
      /\ status' = [status EXCEPT ![d] = "disconnect"]
  BY DEF ErrorCallback, AddJob
<1>3. j \in Job /\ \A t : IsJob(j, t, c) <=> t = "disconnect" /\ c = d
  BY <1>1, NewJobType, ConstantsAssumption DEF JobType, NewJob, IsJob
<1> HIDE DEF d, j
<1>4. PendingKept
  BY <1>2, PendingSame
<1>5. \A t \in JobType : ~IsJob(j, t, c) => Unmoved(t, c)
  BY <1>2, <1>3, <1>4, JobAdded DEF PendingKept
<1>6. IsJob(j, "disconnect", c) => ~NoJobLeft("disconnect", c)'
  BY <1>2, <1>3, <1>4, JobAdded DEF PendingKept, JobType
<1>7. status \in [Client -> Status]
  BY DEF WellFormed, TypeOK
<1>8. CASE c # d
  BY <1>2, <1>3, <1>5, <1>7, <1>8, JobsInvUnmoved
<1>9. CASE c = d
  <2>1. /\ Unmoved("process", c) /\ Unmoved("connect", c)
        /\ ~NoJobLeft("disconnect", c)'
        /\ status'[c] = "disconnect"
        /\ jobs'[c] = jobs[c] /\ announced'[c] = announced[c]
    BY <1>2, <1>3, <1>5, <1>6, <1>7, <1>9 DEF JobType
  <2>2. QED
    BY <2>1 DEF JobsInv, Unmoved
<1>10. QED
  BY <1>8, <1>9

\* An accepted client gets its first and only Connect job.
LEMMA AcceptKeeps ==
  ASSUME WellFormed, NEW c \in Client, JobsInv(c), NEW d \in Client, Accept(d)
  PROVE  JobsInv(c)'
<1> DEFINE j == NewJob("connect", d, 0)
<1>1. /\ queue' = Append(queue, j) /\ UNCHANGED <<pc, job, jobs, announced>>
      /\ status[d] = "absent" /\ status' = [status EXCEPT ![d] = "connect"]
  BY DEF Accept, AddJob
<1>2. j \in Job /\ \A t : IsJob(j, t, c) <=> t = "connect" /\ c = d
  BY NewJobType, ConstantsAssumption DEF JobType, NewJob, IsJob
<1> HIDE DEF j
<1>3. PendingKept
  BY <1>1, PendingSame
<1>4. \A t \in JobType : ~IsJob(j, t, c) => Unmoved(t, c)
  BY <1>1, <1>2, <1>3, JobAdded DEF PendingKept
<1>5. IsJob(j, "connect", c) /\ NoJobLeft("connect", c) => OneJobAtMost("connect", c)'
  BY <1>1, <1>2, <1>3, JobAdded DEF PendingKept, JobType
<1>6. status \in [Client -> Status]
  BY DEF WellFormed, TypeOK
<1>7. CASE c # d
  BY <1>1, <1>2, <1>4, <1>6, <1>7, JobsInvUnmoved
<1>8. CASE c = d
  <2>1. /\ Unmoved("process", c) /\ Unmoved("disconnect", c)
        /\ NoJobLeft("connect", c) => OneJobAtMost("connect", c)'
        /\ status'[c] = "connect" /\ status[c] = "absent"
        /\ jobs'[c] = jobs[c] /\ announced'[c] = announced[c]
    BY <1>1, <1>2, <1>4, <1>5, <1>6, <1>8 DEF JobType
  <2>2. QED
    BY <2>1 DEF JobsInv, Unmoved
<1>9. QED
  BY <1>7, <1>8

------------------------------------------------------------------------------
(* The memory of the clients *)

\* What is listed or freed was accepted; only clients whose Client.disconnect was
\* dispatched are on their way to be freed.
MemoryInv ==
    /\ \A c \in clients \cup freed : status[c] # "absent"
    /\ clients \cap freed = {}
    /\ \A c \in freed : announced[c]
    /\ \A i \in DOMAIN disconnecting : announced[disconnecting[i]]
    /\ \A w \in Worker : pc[w] \in {"disconnect", "flush"} => announced[job[w].client]
    /\ io.at \in {"read", "error"} => Alive(io.client)

IInv ==
    /\ WellFormed
    /\ \A c \in Client : JobsInv(c)
    /\ MemoryInv

\* A worker at work on a client's job: what the client's status tells.
LEMMA WorkerSees ==
  ASSUME IInv, NEW w \in Worker, pc[w] # "ready"
  PROVE  LET c == job[w].client
             t == job[w].type
         IN  /\ c \in Client /\ t \in JobType /\ JobsInv(c)
             /\ pc[w] \in Stages(t) => w \in Pending(t, c) /\ ~NoJobLeft(t, c)
<1>1. job[w] \in Job
  BY JobOfWorker DEF IInv
<1>2. job[w].client \in Client /\ job[w].type \in JobType
  BY <1>1 DEF Job
<1>3. QED
  BY <1>2 DEF IInv, Pending, NoJobLeft, IsJob

\* Dropping the job of a disconnected client.
LEMMA DropKeeps ==
  ASSUME IInv, NEW c \in Client, NEW w \in Worker, DropJob(w)
  PROVE  JobsInv(c)'
<1> DEFINE d == job[w].client
           t == job[w].type
<1>1. /\ pc[w] = "check" /\ pc' = [pc EXCEPT ![w] = "ready"]
      /\ job' = [job EXCEPT ![w] = NoJob]
      /\ UNCHANGED <<queue, status, announced>>
      /\ status[d] = "disconnect" /\ t # "disconnect"
      /\ jobs' = [jobs EXCEPT ![d] = Decrement(jobs[d])]
  BY DEF DropJob, Finish, Goto
<1>2. /\ d \in Client /\ t \in {"connect", "process"} /\ JobsInv(d)
      /\ ~NoJobLeft(t, d)
  BY <1>1, WorkerSees DEF JobType, Stages
<1>3. /\ \A k \in JobType : ~IsJob(job[w], k, c) => Unmoved(k, c)
      /\ \A k \in JobType : IsJob(job[w], k, c) /\ OneJobAtMost(k, c) =>
                                NoJobLeft(k, c)' /\ OneJobAtMost(k, c)'
  <2>1. pc[w] # "ready" /\ pc[w] \in Stages(t) /\ "ready" \notin Stages(t)
    BY <1>1, <1>2 DEF Stages
  <2>2. QED
    BY <1>1, <2>1, JobLeft DEF IInv
<1>4. \A k : IsJob(job[w], k, c) <=> k = t /\ c = d
  BY DEF IsJob
<1>5. jobs \in [Client -> 0..255]
  BY DEF IInv, WellFormed, TypeOK
<1> HIDE DEF d, t
<1>6. JobsInv(c)
  BY DEF IInv
<1>7. CASE c # d
  BY <1>1, <1>3, <1>4, <1>5, <1>6, <1>7, JobsInvUnmoved
<1>8. CASE c = d /\ t = "process"
  <2>1. Unmoved("connect", c) /\ Unmoved("disconnect", c)
    BY <1>3, <1>4, <1>8 DEF JobType
  <2>2. NoJobLeft("process", c)' /\ OneJobAtMost("process", c)'
    BY <1>3, <1>4, <1>6, <1>8 DEF JobType, JobsInv
  <2>3. jobs[c] = 1 /\ jobs'[c] = 0
    BY <1>1, <1>2, <1>5, <1>6, <1>8 DEF JobsInv, Decrement
  <2>4. QED
    BY <1>1, <1>6, <1>8, <2>1, <2>2, <2>3 DEF JobsInv, Unmoved
<1>9. CASE c = d /\ t = "connect"
  <2>1. Unmoved("process", c) /\ Unmoved("disconnect", c)
    BY <1>3, <1>4, <1>9 DEF JobType
  <2>2. NoJobLeft("connect", c)' /\ OneJobAtMost("connect", c)'
    BY <1>3, <1>4, <1>6, <1>9 DEF JobType, JobsInv
  <2>3. NoJobLeft("process", c) /\ jobs[c] = 0 /\ jobs'[c] = 255
    BY <1>1, <1>2, <1>5, <1>6, <1>9 DEF JobsInv, Decrement
  <2>4. QED
    BY <1>1, <1>6, <1>9, <2>1, <2>2, <2>3 DEF JobsInv, Unmoved
<1>10. QED
  BY <1>2, <1>7, <1>8, <1>9

\* The end of the handlers of Client.connect: the client had no packet yet.
LEMMA ConnectEndKeeps ==
  ASSUME IInv, NEW c \in Client, NEW w \in Worker, ConnectEnd(w)
  PROVE  JobsInv(c)'
<1> DEFINE d == job[w].client
<1>1. /\ pc[w] = "connect" /\ pc' = [pc EXCEPT ![w] = "reread"]
      /\ UNCHANGED <<queue, job, jobs, announced>>
      /\ status' = BackToIdle(d)
  BY DEF ConnectEnd, Goto
<1>2. job[w].type = "connect"
  BY <1>1 DEF IInv, WellFormed, HoldsItsJob
<1>3. d \in Client /\ JobsInv(d) /\ ~NoJobLeft("connect", d)
  BY <1>1, <1>2, WorkerSees DEF Stages
<1>4. /\ \A k \in JobType : ~IsJob(job[w], k, c) => Unmoved(k, c)
      /\ \A k \in JobType : IsJob(job[w], k, c) /\ OneJobAtMost(k, c) =>
                                NoJobLeft(k, c)' /\ OneJobAtMost(k, c)'
  BY <1>1, <1>2, JobLeft DEF IInv, Stages
<1>5. \A k : IsJob(job[w], k, c) <=> k = "connect" /\ c = d
  BY <1>2 DEF IsJob
<1>6. JobsInv(c) /\ status \in [Client -> Status]
  BY DEF IInv, WellFormed, TypeOK
<1> HIDE DEF d
<1>7. CASE c # d
  BY <1>1, <1>4, <1>5, <1>6, <1>7, JobsInvUnmoved DEF BackToIdle
<1>8. CASE c = d
  <2>1. Unmoved("process", c) /\ Unmoved("disconnect", c)
    BY <1>4, <1>5, <1>8 DEF JobType
  <2>2. NoJobLeft("connect", c)' /\ OneJobAtMost("connect", c)'
    BY <1>4, <1>5, <1>6, <1>8 DEF JobType, JobsInv
  <2>3. IF status[c] = "disconnect" THEN status'[c] = "disconnect"
                                    ELSE status'[c] = "idle"
    BY <1>1, <1>6, <1>8 DEF BackToIdle
  <2>4. jobs'[c] = jobs[c] /\ announced'[c] = announced[c] /\ ~NoJobLeft("connect", c)
    BY <1>1, <1>3, <1>8
  <2>5. QED
    BY <1>6, <2>1, <2>2, <2>3, <2>4 DEF JobsInv, Unmoved
<1>9. QED
  BY <1>7, <1>8

\* The end of the handlers of Client.process, the one decrement that is counted.
LEMMA ProcessEndKeeps ==
  ASSUME IInv, NEW c \in Client, NEW w \in Worker, ProcessEnd(w)
  PROVE  JobsInv(c)'
<1> DEFINE d == job[w].client
<1>1. /\ pc[w] = "process" /\ pc' = [pc EXCEPT ![w] = "reread"]
      /\ UNCHANGED <<queue, job, announced>>
      /\ status' = BackToIdle(d)
      /\ jobs' = [jobs EXCEPT ![d] = Decrement(jobs[d])]
  BY DEF ProcessEnd, Goto
<1>2. job[w].type = "process"
  BY <1>1 DEF IInv, WellFormed, HoldsItsJob
<1>3. d \in Client /\ JobsInv(d) /\ ~NoJobLeft("process", d)
  BY <1>1, <1>2, WorkerSees DEF Stages
<1>4. /\ \A k \in JobType : ~IsJob(job[w], k, c) => Unmoved(k, c)
      /\ \A k \in JobType : IsJob(job[w], k, c) /\ OneJobAtMost(k, c) =>
                                NoJobLeft(k, c)' /\ OneJobAtMost(k, c)'
  BY <1>1, <1>2, JobLeft DEF IInv, Stages
<1>5. \A k : IsJob(job[w], k, c) <=> k = "process" /\ c = d
  BY <1>2 DEF IsJob
<1>6. JobsInv(c) /\ status \in [Client -> Status] /\ jobs \in [Client -> 0..255]
  BY DEF IInv, WellFormed, TypeOK
<1> HIDE DEF d
<1>7. CASE c # d
  BY <1>1, <1>4, <1>5, <1>6, <1>7, JobsInvUnmoved DEF BackToIdle
<1>8. CASE c = d
  <2>1. Unmoved("connect", c) /\ Unmoved("disconnect", c)
    BY <1>4, <1>5, <1>8 DEF JobType
  <2>2. NoJobLeft("process", c)' /\ OneJobAtMost("process", c)'
    BY <1>4, <1>5, <1>6, <1>8 DEF JobType, JobsInv
  <2>3. IF status[c] = "disconnect" THEN status'[c] = "disconnect"
                                    ELSE status'[c] = "idle"
    BY <1>1, <1>6, <1>8 DEF BackToIdle
  <2>4. jobs[c] = 1 /\ NoJobLeft("connect", c) /\ ~announced[c]
    BY <1>3, <1>6, <1>8 DEF JobsInv
  <2>5. jobs'[c] = 0 /\ announced'[c] = announced[c]
    BY <1>1, <1>6, <1>8, <2>4 DEF Decrement
  <2>6. QED
    BY <1>6, <2>1, <2>2, <2>3, <2>4, <2>5 DEF JobsInv, Unmoved
<1>9. QED
  BY <1>7, <1>8
\* A worker that only moves on to the next stage of its job.
LEMMA StagesKept ==
  ASSUME IInv, NEW c \in Client, NEW w \in Worker, StartJob(w) \/ DisconnectEnd(w)
  PROVE  JobsInv(c)'
<1>1. pc[w] # "ready"
  BY DEF StartJob, DisconnectEnd, Goto
<1>2. job[w].type \in JobType
  BY <1>1, WorkerSees
<1>3. DisconnectEnd(w) => job[w].type = "disconnect"
  BY DEF DisconnectEnd, Goto, IInv, WellFormed, HoldsItsJob
<1>4. PICK to : /\ pc' = [pc EXCEPT ![w] = to]
                /\ pc[w] \in Stages(job[w].type) <=> to \in Stages(job[w].type)
  <2>1. CASE StartJob(w)
    BY <1>2, <2>1 DEF StartJob, Goto, Stages, JobType
  <2>2. CASE DisconnectEnd(w)
    BY <1>3, <2>2 DEF DisconnectEnd, Goto, Stages
  <2>3. QED
    BY <2>1, <2>2
<1>5. UNCHANGED <<queue, job, status, jobs, announced>>
  BY DEF StartJob, DisconnectEnd
<1>6. \A t \in JobType : Unmoved(t, c)
  BY <1>4, <1>5, JobKept DEF IInv, IsJob
<1>7. QED
  BY <1>5, <1>6, JobsInvUnmoved DEF IInv

\* The wait for the client's jobs ends when the count is 0: no packet is left.
LEMMA DrainedKeeps ==
  ASSUME IInv, NEW c \in Client, NEW w \in Worker, Drained(w)
  PROVE  JobsInv(c)'
<1> DEFINE d == job[w].client
<1>1. /\ pc[w] = "drain" /\ pc' = [pc EXCEPT ![w] = "disconnect"]
      /\ UNCHANGED <<queue, job, status, jobs>>
      /\ jobs[d] < 1 /\ announced' = [announced EXCEPT ![d] = TRUE]
  BY DEF Drained, Goto, NoJobs
<1>2. job[w].type = "disconnect"
  BY <1>1 DEF IInv, WellFormed, HoldsItsJob
<1>3. d \in Client /\ JobsInv(d) /\ ~NoJobLeft("disconnect", d)
  BY <1>1, <1>2, WorkerSees DEF Stages
<1>4. \A t \in JobType : Unmoved(t, c)
  BY <1>1, <1>2, JobKept DEF IInv, IsJob, Stages
<1>5. JobsInv(c) /\ announced \in [Client -> BOOLEAN] /\ jobs \in [Client -> 0..255]
  BY DEF IInv, WellFormed, TypeOK
<1> HIDE DEF d
<1>6. CASE c # d
  BY <1>1, <1>4, <1>5, <1>6, JobsInvUnmoved
<1>7. CASE c = d
  <2>1. NoJobLeft("process", c) /\ status[c] = "disconnect"
    BY <1>1, <1>3, <1>5, <1>7 DEF JobsInv
  <2>2. announced'[c]
    BY <1>1, <1>5, <1>7
  <2>3. QED
    BY <1>1, <1>4, <1>5, <2>1, <2>2 DEF JobsInv, Unmoved, JobType
<1>8. QED
  BY <1>6, <1>7

\* The last stage of a Disconnect job, after its announcement.
LEMMA FlushKeeps ==
  ASSUME IInv, NEW c \in Client, NEW w \in Worker, ServerFlush(w)
  PROVE  JobsInv(c)'
<1> DEFINE d == job[w].client
<1>1. /\ pc[w] = "flush" /\ pc' = [pc EXCEPT ![w] = "ready"]
      /\ job' = [job EXCEPT ![w] = NoJob]
      /\ UNCHANGED <<queue, status, jobs, announced>>
  BY DEF ServerFlush, Finish, Goto
<1>2. job[w].type = "disconnect"
  BY <1>1 DEF IInv, WellFormed, HoldsItsJob
<1>3. d \in Client /\ JobsInv(d) /\ ~NoJobLeft("disconnect", d) /\ announced[d]
  BY <1>1, <1>2, WorkerSees DEF Stages, IInv, MemoryInv
<1>4. \A k \in JobType : ~IsJob(job[w], k, c) => Unmoved(k, c)
  BY <1>1, <1>2, JobLeft DEF IInv, Stages
<1>5. \A k : IsJob(job[w], k, c) <=> k = "disconnect" /\ c = d
  BY <1>2 DEF IsJob
<1>6. JobsInv(c)
  BY DEF IInv
<1> HIDE DEF d
<1>7. CASE c # d
  BY <1>1, <1>4, <1>5, <1>6, <1>7, JobsInvUnmoved
<1>8. CASE c = d
  <2>1. Unmoved("process", c) /\ Unmoved("connect", c)
    BY <1>4, <1>5 DEF JobType
  <2>2. QED
    BY <1>1, <1>3, <1>6, <1>8, <2>1 DEF JobsInv, Unmoved
<1>9. QED
  BY <1>7, <1>8

\* Every step keeps the jobs invariant of every client.
LEMMA JobsInvStep ==
  ASSUME IInv, [Next]_vars, NEW c \in Client
  PROVE  JobsInv(c)'
<1>1. JobsInv(c) /\ WellFormed
  BY DEF IInv
<1>2. ASSUME UNCHANGED <<queue, pc, job, status, jobs, announced>>
      PROVE  JobsInv(c)'
  <2>1. \A t \in JobType : Unmoved(t, c)
    BY <1>2, NothingMoved, PendingSame DEF PendingKept
  <2>2. QED
    BY <1>1, <1>2, <2>1, JobsInvUnmoved
<1>3. ASSUME NEW d \in Client, Accept(d) PROVE JobsInv(c)'
  BY <1>1, <1>3, AcceptKeeps
<1>4. ASSUME NEW d \in Client, NEW items, Receive(d, items)
      PROVE  JobsInv(c)'
  BY <1>2, <1>4 DEF Receive
<1>5. ASSUME NEW d \in Client, NEW e \in {"read", "write"}, Fail(d, e)
      PROVE  JobsInv(c)'
  BY <1>2, <1>5 DEF Fail
<1>6. ASSUME NEW d \in Client, IoKick(d) PROVE JobsInv(c)'
  BY <1>1, <1>6, KickKeeps, PendingSame DEF IoKick
<1>7. CASE IoRead
  <2>1. io.client \in Client
    BY <1>1, <1>7 DEF IoRead, WellFormed, IoHasClient
  <2>2. QED
    BY <1>1, <1>7, <2>1, ReadKeeps, PendingSame DEF IoRead
<1>8. CASE ErrorCallback
  BY <1>1, <1>8, ErrorKeeps
<1>9. CASE CleanDisconnects \/ ClearDisconnecting
  BY <1>2, <1>9 DEF CleanDisconnects, ClearDisconnecting
<1>10. ASSUME NEW w \in Worker, NextJob(w) PROVE JobsInv(c)'
  BY <1>1, <1>10, JobTaken, JobsInvUnmoved DEF NextJob
<1>11. ASSUME NEW w \in Worker, HandlerKick(w) PROVE JobsInv(c)'
  <2>1. job[w].client \in Client
    BY <1>1, <1>11, JobOfWorker DEF HandlerKick
  <2>2. QED
    BY <1>1, <1>11, <2>1, KickKeeps, PendingSame DEF HandlerKick
<1>12. ASSUME NEW w \in Worker, Reread(w) PROVE JobsInv(c)'
  <2>1. job[w].client \in Client
    BY <1>1, <1>12, JobOfWorker DEF Reread
  <2>2. PendingKept
    BY <1>1, <1>12, PendingAfterReread DEF Reread
  <2>3. ASSUME UNCHANGED <<status, jobs, queue>> PROVE JobsInv(c)'
    BY <1>1, <1>12, <2>2, <2>3, NothingMoved, JobsInvUnmoved DEF Reread, PendingKept
  <2>4. QED
    BY <1>1, <1>12, <2>1, <2>2, <2>3, ReadKeeps DEF Reread
<1>13. ASSUME NEW w \in Worker, Run(w) PROVE JobsInv(c)'
  BY <1>12, <1>13, DropKeeps, StagesKept, ConnectEndKeeps, ProcessEndKeeps,
     DrainedKeeps, FlushKeeps DEF Run
<1>14. CASE UNCHANGED vars
  BY <1>2, <1>14 DEF vars
<1>15. QED
  BY <1>3, <1>4, <1>5, <1>6, <1>7, <1>8, <1>9, <1>10, <1>11, <1>13, <1>14
  DEF Next, IoStep
\* No step takes a client back to before its accept, and only an accept takes one
\* out of there.
LEMMA AbsentKept ==
  ASSUME IInv, [Next]_vars, \A c \in Client : ~Accept(c), NEW c \in Client
  PROVE  status'[c] = "absent" <=> status[c] = "absent"
<1>1. status \in [Client -> Status]
  BY DEF IInv, WellFormed, TypeOK
<1>2. ASSUME UNCHANGED status PROVE status'[c] = "absent" <=> status[c] = "absent"
  BY <1>2
<1>3. ASSUME NEW d \in Client, ServerKick(d), status[d] # "absent"
      PROVE  status'[c] = "absent" <=> status[c] = "absent"
  BY <1>1, <1>3 DEF ServerKick
<1>4. ASSUME NEW d \in Client, ReadCallback(d) \/ SelfDeadlock(d)
      PROVE  status'[c] = "absent" <=> status[c] = "absent"
  BY <1>1, <1>3, <1>4
  DEF ReadCallback, ReadNothing, ReadPacket, ReadCaseless, ReadMalformed, SelfDeadlock,
      Finds, MayParse
<1>5. CASE IoRead
  <2>1. io.client \in Client
    BY <1>5 DEF IoRead, IInv, WellFormed, IoHasClient
  <2>2. QED
    BY <1>4, <1>5, <2>1 DEF IoRead
<1>6. CASE ErrorCallback
  <2>1. io.client \in Client
    BY <1>6 DEF ErrorCallback, IInv, WellFormed, IoHasClient
  <2>2. status[io.client] # "absent"
    BY <1>6 DEF ErrorCallback, IInv, MemoryInv, Alive
  <2>3. QED
    BY <1>1, <1>6, <2>1, <2>2 DEF ErrorCallback
<1>7. ASSUME NEW d \in Client, IoKick(d)
      PROVE  status'[c] = "absent" <=> status[c] = "absent"
  BY <1>3, <1>7 DEF IoKick, Alive
<1>8. ASSUME NEW w \in Worker, HandlerKick(w) \/ ConnectEnd(w) \/ ProcessEnd(w)
      PROVE  status'[c] = "absent" <=> status[c] = "absent"
  <2> DEFINE d == job[w].client
  <2>1. pc[w] \in {"connect", "process"}
    BY <1>8 DEF HandlerKick, ConnectEnd, ProcessEnd, Goto
  <2>2. job[w].type = pc[w]
    BY <2>1 DEF IInv, WellFormed, HoldsItsJob
  <2>3. d \in Client /\ JobsInv(d) /\ ~NoJobLeft(pc[w], d)
    BY <2>1, <2>2, WorkerSees DEF Stages
  <2>4. status[d] # "absent"
    BY <2>1, <2>3 DEF JobsInv
  <2>5. ASSUME status' = BackToIdle(d)
        PROVE  status'[c] = "absent" <=> status[c] = "absent"
    BY <1>1, <2>3, <2>4, <2>5 DEF BackToIdle
  <2>6. QED
    BY <1>3, <1>8, <2>3, <2>4, <2>5 DEF HandlerKick, ConnectEnd, ProcessEnd
<1>9. ASSUME NEW w \in Worker, Reread(w)
      PROVE  status'[c] = "absent" <=> status[c] = "absent"
  <2>1. job[w].client \in Client
    BY <1>9, JobOfWorker DEF Reread, IInv
  <2>2. QED
    BY <1>2, <1>4, <1>9, <2>1 DEF Reread
<1>10. QED
  BY <1>2, <1>5, <1>6, <1>7, <1>8, <1>9
  DEF Next, IoStep, Run, Receive, Fail, CleanDisconnects, ClearDisconnecting, NextJob,
      DropJob, StartJob, Drained, DisconnectEnd, ServerFlush, vars

\* Once dispatched, Client.disconnect stays dispatched.
LEMMA AnnouncedKept ==
  ASSUME IInv, [Next]_vars, NEW c \in Client, announced[c]
  PROVE  announced'[c]
<1>1. announced \in [Client -> BOOLEAN]
  BY DEF IInv, WellFormed, TypeOK
<1>2. QED
  BY <1>1
  DEF Next, IoStep, Run, Accept, Receive, Fail, IoKick, IoRead, ErrorCallback,
      CleanDisconnects, ClearDisconnecting, NextJob, HandlerKick, DropJob, StartJob,
      ConnectEnd, ProcessEnd, Reread, Drained, DisconnectEnd, ServerFlush, vars

\* What a step does to the server's lists.
LEMMA ListsStep ==
  ASSUME IInv, [Next]_vars
  PROVE  \/ UNCHANGED lists
         \/ \E c \in Client : Accept(c)
         \/ CleanDisconnects
         \/ ClearDisconnecting
         \/ \E w \in Worker : DisconnectEnd(w)
  BY DEF Next, IoStep, Run, Receive, Fail, IoKick, IoRead, ErrorCallback, NextJob,
         HandlerKick, DropJob, StartJob, ConnectEnd, ProcessEnd, Reread, Drained,
         ServerFlush, vars

\* Every step keeps the memory invariant.
LEMMA MemoryInvStep ==
  ASSUME IInv, [Next]_vars
  PROVE  MemoryInv'
<1> USE DEF lists
<1>1. TypeOK
  BY DEF IInv, WellFormed
<1>2. MemoryInv
  BY DEF IInv
<1>3. Disconnected \subseteq clients /\ Disconnected \subseteq Client
  BY <1>1 DEF Disconnected, TypeOK
<1>4. \A c \in Disconnected : announced[c]
  BY <1>2 DEF Disconnected, MemoryInv
<1>5. \A c \in clients' \cup freed' : status'[c] # "absent"
  <2>1. CASE \E c \in Client : Accept(c)
    BY <1>1, <1>2, <2>1 DEF Accept, Listed, MemoryInv, TypeOK
  <2>2. CASE \A c \in Client : ~Accept(c)
    <3>1. \A c \in Client : status'[c] = "absent" <=> status[c] = "absent"
      BY <2>2, AbsentKept
    <3>2. clients' \cup freed' = clients \cup freed
      BY <1>3, <2>2, ListsStep
      DEF CleanDisconnects, Unlisted, ClearDisconnecting, DisconnectEnd
    <3>3. clients \cup freed \subseteq Client
      BY <1>1 DEF TypeOK
    <3>4. QED
      BY <1>2, <3>1, <3>2, <3>3 DEF MemoryInv
  <2>3. QED
    BY <2>1, <2>2
<1>6. clients' \cap freed' = {}
  <2>1. ASSUME NEW c \in Client, Accept(c) PROVE clients' \cap freed' = {}
    <3>1. c \notin freed /\ clients' \subseteq clients \cup {c} /\ freed' = freed
      BY <1>2, <2>1 DEF Accept, Listed, MemoryInv
    <3>2. QED
      BY <1>2, <3>1 DEF MemoryInv
  <2>2. CASE CleanDisconnects
    <3>1. clients' = clients \ Disconnected /\ freed' = freed \cup Disconnected
      BY <2>2 DEF CleanDisconnects, Unlisted
    <3>2. QED
      BY <1>2, <3>1 DEF MemoryInv
  <2>3. QED
    BY <1>2, <2>1, <2>2, ListsStep DEF ClearDisconnecting, DisconnectEnd, MemoryInv
<1>7. \A c \in freed' : announced'[c]
  <2>1. freed' \subseteq freed \cup Disconnected
    BY ListsStep DEF Accept, CleanDisconnects, ClearDisconnecting, DisconnectEnd
  <2>2. freed \subseteq Client
    BY <1>1 DEF TypeOK
  <2>3. QED
    BY <1>2, <1>3, <1>4, <2>1, <2>2, AnnouncedKept DEF MemoryInv
<1>8. \A i \in DOMAIN disconnecting' : announced'[disconnecting'[i]]
  <2>1. /\ disconnecting \in Seq(Client)
        /\ \A i \in DOMAIN disconnecting : disconnecting[i] \in Client
    BY <1>1 DEF TypeOK
  <2>2. CASE disconnecting' = disconnecting
    BY <1>2, <2>1, <2>2, AnnouncedKept DEF MemoryInv
  <2>3. CASE ClearDisconnecting
    BY <2>3 DEF ClearDisconnecting
  <2>4. ASSUME NEW w \in Worker, DisconnectEnd(w)
        PROVE  \A i \in DOMAIN disconnecting' : announced'[disconnecting'[i]]
    <3>1. /\ pc[w] = "disconnect" /\ announced' = announced
          /\ disconnecting' = Append(disconnecting, job[w].client)
      BY <2>4 DEF DisconnectEnd, Goto
    <3>2. announced[job[w].client]
      BY <1>2, <3>1 DEF MemoryInv
    <3>3. QED
      BY <1>2, <2>1, <3>1, <3>2 DEF MemoryInv
  <2>5. QED
    BY <2>2, <2>3, <2>4, ListsStep DEF Accept, CleanDisconnects
<1>9. \A w \in Worker : pc'[w] \in {"disconnect", "flush"} => announced'[job'[w].client]
  <2> SUFFICES ASSUME NEW w \in Worker, pc'[w] \in {"disconnect", "flush"}
               PROVE  announced'[job'[w].client]
    OBVIOUS
  <2>1. /\ pc \in [Worker -> PC] /\ job \in [Worker -> Job \cup {NoJob}]
        /\ announced \in [Client -> BOOLEAN]
    BY <1>1 DEF TypeOK
  <2>2. CASE Drained(w)
    <3>1. job[w].client \in Client
      BY <2>2, JobOfWorker DEF IInv, Drained, Goto
    <3>2. QED
      BY <2>1, <2>2, <3>1 DEF Drained
  <2>3. CASE ~Drained(w)
    <3>1. pc[w] \in {"disconnect", "flush"} /\ job'[w] = job[w]
      <4>1. CASE UNCHANGED <<pc, job>>
        BY <4>1
      <4>2. ASSUME NEW v \in Worker, NextJob(v) 
              PROVE  pc[w] \in {"disconnect", "flush"} /\ job'[w] = job[w]
        BY <2>1, <4>2 DEF NextJob, Goto
      <4>3. ASSUME NEW v \in Worker, Run(v) 
              PROVE  pc[w] \in {"disconnect", "flush"} /\ job'[w] = job[w]
        <5>1. CASE StartJob(v)
          <6>1. job[v].type \in JobType
            BY <5>1, WorkerSees DEF StartJob, Goto
          <6>2. QED
            BY <2>1, <5>1, <6>1 DEF StartJob, Goto, JobType
        <5>2. CASE ~StartJob(v)
          BY <2>1, <2>3, <4>3, <5>2
          DEF Run, DropJob, ConnectEnd, ProcessEnd, Reread, Drained, DisconnectEnd,
              ServerFlush, Finish, Goto
        <5>3. QED
          BY <5>1, <5>2
      <4>4. QED
        BY <4>1, <4>2, <4>3
        DEF Next, IoStep, Accept, Receive, Fail, IoKick, IoRead, ErrorCallback,
            CleanDisconnects, ClearDisconnecting, HandlerKick, vars
    <3>2. job[w].client \in Client
      BY <3>1, JobOfWorker DEF IInv
    <3>3. QED
      BY <1>2, <3>1, <3>2, AnnouncedKept DEF MemoryInv
  <2>4. QED
    BY <2>2, <2>3
<1>10. io'.at \in {"read", "error"} => Alive(io.client)'
  <2> SUFFICES ASSUME io'.at \in {"read", "error"}
               PROVE  status'[io'.client] # "absent" /\ io'.client \notin freed'
    BY DEF Alive
  <2>1. CASE UNCHANGED io
    <3>1. /\ io.client \in Client /\ io.at \notin {"loop", "clear"}
          /\ status[io.client] # "absent" /\ io.client \notin freed
      BY <1>2, <2>1 DEF MemoryInv, Alive, IInv, WellFormed, IoHasClient
    <3>2. \A c \in Client : ~Accept(c)
      BY <3>1 DEF Accept, InLoop
    <3>3. freed' = freed
      BY <3>1, <3>2, ListsStep
      DEF CleanDisconnects, ClearDisconnecting, DisconnectEnd, InLoop
    <3>4. QED
      BY <2>1, <3>1, <3>2, <3>3, AbsentKept
  <2>2. CASE ~UNCHANGED io
    <3>1. \E c \in Client : /\ Alive(c) /\ io'.client = c
                            /\ UNCHANGED <<status, freed>>
      BY <2>2
      DEF Next, IoStep, Run, Accept, Receive, Fail, IoKick, IoRead, ErrorCallback,
          CleanDisconnects, ClearDisconnecting, NextJob, HandlerKick, DropJob, StartJob,
          ConnectEnd, ProcessEnd, Reread, Drained, DisconnectEnd, ServerFlush, IoAt,
          lists, vars
    <3>2. QED
      BY <3>1 DEF Alive
  <2>3. QED
    BY <2>1, <2>2
<1>11. QED
  BY <1>5, <1>6, <1>7, <1>8, <1>9, <1>10 DEF MemoryInv
\* The inductive invariant holds from the start and is kept by every step.
LEMMA IInvAlways == Spec => []IInv
<1>1. Init => IInv
  <2> SUFFICES ASSUME Init PROVE IInv
    OBVIOUS
  <2>1. \A t \in JobType, c \in Client : NoJobLeft(t, c) /\ OneJobAtMost(t, c)
    <3>1. \A t \in JobType, c \in Client : Queued(t, c) = {} /\ Pending(t, c) = {}
      BY DEF Init, Queued, Pending, Stages, JobType
    <3>2. QED
      BY <3>1 DEF NoJobLeft, OneJobAtMost, AtMostOne
  <2>2. \A c \in Client : JobsInv(c)
    BY <2>1 DEF JobsInv, Init, JobType
  <2>3. MemoryInv
    BY DEF Init, MemoryInv
  <2>4. WellFormed
    BY WellFormedAtFirst
  <2>5. QED
    BY <2>2, <2>3, <2>4 DEF IInv
<1>2. IInv /\ [Next]_vars => IInv'
  <2> SUFFICES ASSUME IInv, [Next]_vars PROVE IInv'
    OBVIOUS
  <2>1. WellFormed'
    BY WellFormedStep DEF IInv
  <2>2. \A c \in Client : JobsInv(c)'
    BY JobsInvStep
  <2>3. MemoryInv'
    BY MemoryInvStep
  <2>4. QED
    BY <2>1, <2>2, <2>3 DEF IInv
<1>3. QED
  BY <1>1, <1>2, PTL DEF Spec

\* The variables stay in their types; the count of jobs stays a byte.
THEOREM TypeCorrect == Spec => []TypeOK
<1>1. IInv => TypeOK
  BY DEF IInv, WellFormed
<1>2. QED
  BY <1>1, IInvAlways, PTL

\* A client never has two packets between the read callback and the end of their
\* handlers (Server.c:178-193, Worker.c:152-166).
THEOREM OnePacketAtATime == Spec => []OneProcessJob
<1>1. IInv => OneProcessJob
  BY DEF IInv, JobsInv, OneProcessJob
<1>2. QED
  BY <1>1, IInvAlways, PTL

\* The 8-bit count a disconnect job waits on is exact but for the Connect job
\* that was dropped without having been counted (Worker.c:124-131, 173-185).
THEOREM CountIsExact == Spec => []JobsCounted
<1>1. IInv => JobsCounted
  BY DEF IInv, JobsInv, JobsCounted
<1>2. QED
  BY <1>1, IInvAlways, PTL

\* Every client in status Disconnect is announced or has the job that will
\* announce it (Server.c:218-236, 462-489).
THEOREM NoDisconnectForgotten == Spec => []DisconnectOnItsWay
<1>1. IInv => DisconnectOnItsWay
  BY DEF IInv, JobsInv, DisconnectOnItsWay
<1>2. QED
  BY <1>1, IInvAlways, PTL

\* A packet's handler runs alone among its client's handlers and on memory that is
\* not freed (Worker.c:152-187, Server.c:438-452).
THEOREM HandlersAreIsolated == Spec => []ProcessIsolated
<1>1. IInv => ProcessIsolated
  <2> SUFFICES ASSUME IInv, NEW w \in Worker, pc[w] = "process"
               PROVE  /\ Alive(job[w].client)
                      /\ \A v \in Worker \ {w} :
                           pc[v] \in {"connect", "process", "disconnect"} =>
                               job[v].client # job[w].client
    BY DEF ProcessIsolated
  <2> DEFINE c == job[w].client
  <2>1. job[w].type = "process"
    BY DEF IInv, WellFormed, HoldsItsJob
  <2>2. c \in Client /\ JobsInv(c) /\ w \in Pending("process", c)
    BY <2>1, WorkerSees DEF Stages
  <2>3. ~NoJobLeft("process", c)
    BY <2>2 DEF NoJobLeft
  <2>4. status[c] # "absent" /\ ~announced[c] /\ NoJobLeft("connect", c)
    BY <2>2, <2>3 DEF JobsInv
  <2>5. Alive(c)
    BY <2>2, <2>4 DEF IInv, MemoryInv, Alive
  <2>6. ASSUME NEW v \in Worker \ {w},
               pc[v] \in {"connect", "process", "disconnect"}, job[v].client = c
        PROVE  FALSE
    <3>1. CASE pc[v] = "disconnect"
      BY <2>4, <2>6, <3>1 DEF IInv, MemoryInv
    <3>2. CASE pc[v] \in {"connect", "process"}
      <4>1. job[v].type = pc[v]
        BY <3>2 DEF IInv, WellFormed, HoldsItsJob
      <4>2. v \in Pending(pc[v], c)
        BY <2>6, <3>2, <4>1 DEF Pending, IsJob, Stages
      <4>3. QED
        BY <2>2, <2>4, <2>6, <3>2, <4>2
        DEF JobsInv, NoJobLeft, OneJobAtMost, AtMostOne
    <3>3. QED
      BY <2>6, <3>1, <3>2
  <2>7. QED
    BY <2>5, <2>6
<1>2. QED
  BY <1>1, IInvAlways, PTL
------------------------------------------------------------------------------
(* The queue is first in, first out *)

\* No packet of a client is behind its Disconnect job.
DrainInv(c) ==
    /\ Pending("disconnect", c) # {} => Queued("process", c) = {}
    /\ \A i \in Queued("disconnect", c) : \A k \in Queued("process", c) : k < i

\* A step that adds no job and starts none.
LEMMA DrainUnmoved ==
  ASSUME NEW c \in Client, DrainInv(c), UNCHANGED queue,
         Pending("disconnect", c)' \subseteq Pending("disconnect", c)
  PROVE  DrainInv(c)'
<1>1. \A t : Queued(t, c)' = Queued(t, c)
  BY DEF Queued, IsJob
<1>2. QED
  BY <1>1 DEF DrainInv

\* A step that adds a job, which is a packet only of an idle client.
LEMMA DrainAdded ==
  ASSUME IInv, NEW c \in Client, DrainInv(c), NEW j \in Job,
         queue' = Append(queue, j), UNCHANGED <<pc, job>> \/ PendingKept,
         IsJob(j, "process", c) => NoJobLeft("disconnect", c)
  PROVE  DrainInv(c)'
<1>1. PendingKept
  BY PendingSame
<1>2. Pending("disconnect", c)' = Pending("disconnect", c)
  BY <1>1 DEF PendingKept, JobType
<1>3. queue \in Seq(Job)
  BY DEF IInv, WellFormed, TypeOK
<1>4. /\ DOMAIN queue' = 1..(Len(queue) + 1)
      /\ DOMAIN queue = 1..Len(queue)
      /\ Len(queue) \in Nat
      /\ \A i \in 1..Len(queue) : queue'[i] = queue[i]
      /\ queue'[Len(queue) + 1] = j
  BY <1>3
<1>5. \A t : Queued(t, c)' = IF IsJob(j, t, c) THEN Queued(t, c) \cup {Len(queue) + 1}
                                               ELSE Queued(t, c)
  BY <1>4 DEF Queued, IsJob
<1>6. \A t : \A i \in Queued(t, c) : i < Len(queue) + 1
  BY <1>4 DEF Queued
<1>7. CASE IsJob(j, "process", c)
  <2>1. ~IsJob(j, "disconnect", c)
    BY <1>7 DEF IsJob
  <2>2. Queued("disconnect", c)' = {} /\ Pending("disconnect", c)' = {}
    BY <1>2, <1>5, <1>7, <2>1 DEF NoJobLeft
  <2>3. QED
    BY <2>2 DEF DrainInv
<1>8. CASE ~IsJob(j, "process", c)
  <2>1. Queued("process", c)' = Queued("process", c)
    BY <1>5, <1>8
  <2>2. \A i \in Queued("disconnect", c)' :
            i \in Queued("disconnect", c) \/ i = Len(queue) + 1
    BY <1>5
  <2>3. QED
    BY <1>2, <1>6, <2>1, <2>2 DEF DrainInv
<1>9. QED
  BY <1>7, <1>8

\* The head of the queue moves to a worker.
LEMMA DrainTaken ==
  ASSUME IInv, NEW c \in Client, DrainInv(c), NEW w \in Worker, NextJob(w)
  PROVE  DrainInv(c)'
<1>1. /\ queue \in Seq(Job) /\ queue # <<>> /\ queue' = Tail(queue)
      /\ pc \in [Worker -> PC] /\ job \in [Worker -> Job \cup {NoJob}]
      /\ pc' = [pc EXCEPT ![w] = "check"]
      /\ job' = [job EXCEPT ![w] = queue[1]]
  BY DEF IInv, WellFormed, TypeOK, NextJob, Goto
<1>2. /\ DOMAIN queue = 1..Len(queue) /\ Len(queue) \in Nat /\ Len(queue) > 0
      /\ DOMAIN queue' = 1..(Len(queue) - 1)
      /\ \A i \in 1..(Len(queue) - 1) : queue'[i] = queue[i + 1]
  BY <1>1
<1>3. \A t, i : i \in Queued(t, c)' => i \in Nat /\ i > 0 /\ i + 1 \in Queued(t, c)
  BY <1>2 DEF Queued, IsJob
<1>4. \A t : \A i \in Queued(t, c) : i \in Nat /\ i > 0
  BY <1>2 DEF Queued
<1>5. \A i \in Queued("disconnect", c)' : \A k \in Queued("process", c)' : k < i
  BY <1>3 DEF DrainInv
<1>6. CASE IsJob(queue[1], "disconnect", c)
  <2>1. 1 \in Queued("disconnect", c)
    BY <1>2, <1>6 DEF Queued
  <2>2. Queued("process", c) = {}
    BY <1>4, <2>1 DEF DrainInv
  <2>3. QED
    BY <1>3, <1>5, <2>2 DEF DrainInv
<1>7. CASE ~IsJob(queue[1], "disconnect", c)
  <2>1. Pending("disconnect", c)' \subseteq Pending("disconnect", c)
    BY <1>1, <1>7 DEF Pending, IsJob
  <2>2. QED
    BY <1>3, <1>5, <2>1 DEF DrainInv
<1>8. QED
  BY <1>6, <1>7

\* A kick and a read callback add a job, if any, that fits.
LEMMA DrainKick ==
  ASSUME IInv, NEW c \in Client, DrainInv(c), NEW d \in Client, ServerKick(d),
         PendingKept
  PROVE  DrainInv(c)'
<1>1. CASE UNCHANGED queue
  BY <1>1, DrainUnmoved DEF PendingKept, JobType
<1>2. CASE ~UNCHANGED queue
  <2> DEFINE j == NewJob("disconnect", d, 0)
  <2>1. j \in Job
    BY NewJobType, ConstantsAssumption DEF JobType
  <2>2. queue' = Append(queue, j)
    BY <1>2 DEF ServerKick, AddJob
  <2>3. ~IsJob(j, "process", c)
    BY DEF NewJob, IsJob
  <2> HIDE DEF j
  <2>4. QED
    BY <2>1, <2>2, <2>3, DrainAdded
<1>3. QED
  BY <1>1, <1>2

LEMMA DrainRead ==
  ASSUME IInv, NEW c \in Client, DrainInv(c), NEW d \in Client,
         ReadCallback(d) \/ SelfDeadlock(d), PendingKept
  PROVE  DrainInv(c)'
<1>1. CASE ReadNothing(d) \/ ReadCaseless(d) \/ SelfDeadlock(d)
  BY <1>1, DrainUnmoved
  DEF PendingKept, JobType, ReadNothing, ReadCaseless, SelfDeadlock
<1>2. CASE ReadMalformed(d)
  BY <1>2, DrainKick DEF ReadMalformed
<1>3. CASE ReadPacket(d)
  <2> DEFINE j == NewJob("process", d, parsed[d] + 1)
  <2>1. j \in Job
    <3>1. parsed[d] + 1 \in 0..MaxPackets
      BY <1>3, RoomForPacket DEF ReadPacket, Finds, MayParse, IInv
    <3>2. QED
      BY <3>1, NewJobType DEF JobType
  <2>2. queue' = Append(queue, j) /\ status[d] = "idle"
    BY <1>3 DEF ReadPacket, AddJob, Finds, MayParse
  <2>3. IsJob(j, "process", c) => c = d
    BY DEF NewJob, IsJob
  <2>4. c = d => NoJobLeft("disconnect", c)
    BY <2>2 DEF IInv, JobsInv
  <2> HIDE DEF j
  <2>5. QED
    BY <2>1, <2>2, <2>3, <2>4, DrainAdded
<1>4. QED
  BY <1>1, <1>2, <1>3 DEF ReadCallback

\* Every step keeps the order of a client's jobs.
LEMMA DrainStep ==
  ASSUME IInv, [Next]_vars, NEW c \in Client, DrainInv(c)
  PROVE  DrainInv(c)'
<1>1. /\ pc \in [Worker -> PC] /\ job \in [Worker -> Job \cup {NoJob}]
  BY DEF IInv, WellFormed, TypeOK
<1>2. ASSUME UNCHANGED <<queue, pc, job>> PROVE DrainInv(c)'
  BY <1>2, PendingSame, DrainUnmoved DEF PendingKept, JobType
<1>3. ASSUME NEW d \in Client, Accept(d) PROVE DrainInv(c)'
  <2> DEFINE j == NewJob("connect", d, 0)
  <2>1. j \in Job /\ ~IsJob(j, "process", c)
    BY NewJobType, ConstantsAssumption DEF JobType, NewJob, IsJob
  <2>2. queue' = Append(queue, j) /\ UNCHANGED <<pc, job>>
    BY <1>3 DEF Accept, AddJob
  <2> HIDE DEF j
  <2>3. QED
    BY <2>1, <2>2, DrainAdded
<1>4. CASE ErrorCallback
  <2> DEFINE j == NewJob("disconnect", io.client, 0)
  <2>1. io.client \in Client
    BY <1>4 DEF ErrorCallback, IInv, WellFormed, IoHasClient
  <2>2. j \in Job /\ ~IsJob(j, "process", c)
    BY <2>1, NewJobType, ConstantsAssumption DEF JobType, NewJob, IsJob
  <2>3. queue' = Append(queue, j) /\ UNCHANGED <<pc, job>>
    BY <1>4 DEF ErrorCallback, AddJob
  <2> HIDE DEF j
  <2>4. QED
    BY <2>2, <2>3, DrainAdded
<1>5. ASSUME NEW d \in Client, IoKick(d) PROVE DrainInv(c)'
  BY <1>5, DrainKick, PendingSame DEF IoKick
<1>6. CASE IoRead
  <2>1. io.client \in Client
    BY <1>6 DEF IoRead, IInv, WellFormed, IoHasClient
  <2>2. QED
    BY <1>6, <2>1, DrainRead, PendingSame DEF IoRead
<1>7. ASSUME NEW w \in Worker, HandlerKick(w) PROVE DrainInv(c)'
  <2>1. job[w].client \in Client
    BY <1>7, JobOfWorker DEF HandlerKick, IInv
  <2>2. QED
    BY <1>7, <2>1, DrainKick, PendingSame DEF HandlerKick
<1>8. ASSUME NEW w \in Worker, Reread(w) PROVE DrainInv(c)'
  <2>1. job[w].client \in Client
    BY <1>8, JobOfWorker DEF Reread, IInv
  <2>2. PendingKept
    BY <1>8, PendingAfterReread DEF Reread, IInv
  <2>3. CASE UNCHANGED queue
    BY <2>2, <2>3, DrainUnmoved DEF PendingKept, JobType
  <2>4. QED
    BY <1>8, <2>1, <2>2, <2>3, DrainRead DEF Reread
<1>9. ASSUME NEW w \in Worker, NEW to, UNCHANGED queue,
             pc' = [pc EXCEPT ![w] = to], job' = job \/ job' = [job EXCEPT ![w] = NoJob],
             to \in Stages("disconnect") => pc[w] \in Stages("disconnect")
      PROVE  DrainInv(c)'
  <2>1. ~IsJob(NoJob, "disconnect", c)
    BY DEF NoJob, IsJob, None
  <2>2. Pending("disconnect", c)' \subseteq Pending("disconnect", c)
    BY <1>1, <1>9, <2>1 DEF Pending, IsJob
  <2>3. QED
    BY <1>9, <2>2, DrainUnmoved
<1>10. ASSUME NEW w \in Worker, Run(w) PROVE DrainInv(c)'
  <2>1. CASE StartJob(w)
    BY <1>9, <2>1 DEF StartJob, Goto, Stages
  <2>2. CASE Drained(w) \/ DisconnectEnd(w)
    BY <1>9, <2>2 DEF Drained, DisconnectEnd, Goto, Stages
  <2>3. CASE DropJob(w) \/ ServerFlush(w)
    BY <1>9, <2>3 DEF DropJob, ServerFlush, Finish, Goto, Stages
  <2>4. CASE ConnectEnd(w) \/ ProcessEnd(w)
    BY <1>9, <2>4 DEF ConnectEnd, ProcessEnd, Goto, Stages
  <2>5. QED
    BY <1>8, <1>10, <2>1, <2>2, <2>3, <2>4 DEF Run
<1>11. QED
  BY <1>2, <1>3, <1>4, <1>5, <1>6, <1>7, <1>10, DrainTaken
  DEF Next, IoStep, Receive, Fail, CleanDisconnects, ClearDisconnecting, vars

\* The disconnect job never waits for a packet that is still in the queue, where no
\* worker might be free to take it (Worker.c:173-185).
THEOREM DrainNeedsNoWorker == Spec => []DrainWaitsForHandlers
<1> DEFINE Inv == \A c \in Client : DrainInv(c)
<1>1. Init => Inv
  BY DEF Init, DrainInv, Pending, Queued, Stages
<1>2. IInv /\ Inv /\ [Next]_vars => Inv'
  BY DrainStep
<1>3. IInv /\ Inv => DrainWaitsForHandlers
  <2> SUFFICES ASSUME IInv, Inv, NEW w \in Worker, NEW c \in Client,
                      pc[w] = "drain", job[w].client = c
               PROVE  Queued("process", c) = {}
    BY DEF DrainWaitsForHandlers
  <2>1. w \in Pending("disconnect", c)
    BY DEF IInv, WellFormed, HoldsItsJob, Pending, IsJob, Stages
  <2>2. QED
    BY <2>1 DEF DrainInv
<1>4. QED
  BY <1>1, <1>2, <1>3, IInvAlways, PTL DEF Spec
------------------------------------------------------------------------------
(* Input is not left behind *)

\* The input of an idle client that the code promises to read.
Waiting(c) == status[c] = "idle" /\ input[c] # <<>> /\ CanWrite(c) /\ ~skipped[c]

StrandedNot(c) ==
    Waiting(c) =>
        \/ io = [at |-> "read", client |-> c]
        \/ \E w \in Worker : pc[w] = "reread" /\ job[w].client = c

\* A read callback for a client leaves it without input it could parse, or at what
\* follows a type without a case.
LEMMA ReadLeavesNothing ==
  ASSUME WellFormed, NEW c \in Client, ReadCallback(c) \/ SelfDeadlock(c)
  PROVE  ~Waiting(c)'
<1>1. /\ status \in [Client -> Status] /\ skipped \in [Client -> BOOLEAN]
      /\ lock \in [Client -> {"sound", "readonly", "dead"}]
  BY DEF WellFormed, TypeOK
<1>2. CASE ReadNothing(c)
  BY <1>2 DEF ReadNothing, MayParse, Waiting
<1>3. CASE ReadPacket(c)
  BY <1>1, <1>3 DEF ReadPacket, Waiting
<1>4. CASE ReadMalformed(c)
  BY <1>1, <1>4 DEF ReadMalformed, ServerKick, Finds, MayParse, Waiting
<1>5. CASE ReadCaseless(c)
  BY <1>1, <1>5 DEF ReadCaseless, Waiting
<1>6. CASE SelfDeadlock(c)
  BY <1>1, <1>6 DEF SelfDeadlock, CanWrite, Waiting
<1>7. QED
  BY <1>2, <1>3, <1>4, <1>5, <1>6 DEF ReadCallback

\* A read callback for another client changes nothing of this one.
LEMMA ReadElsewhere ==
  ASSUME WellFormed, NEW c \in Client, NEW d \in Client \ {c},
         ReadCallback(d) \/ SelfDeadlock(d)
  PROVE  Waiting(c)' <=> Waiting(c)
<1>1. /\ status \in [Client -> Status] /\ input \in [Client -> Seq(Kind)]
      /\ skipped \in [Client -> BOOLEAN]
      /\ lock \in [Client -> {"sound", "readonly", "dead"}]
  BY DEF WellFormed, TypeOK
<1>2. /\ status'[c] = status[c] /\ input'[c] = input[c]
      /\ skipped'[c] = skipped[c] /\ lock'[c] = lock[c]
  BY <1>1
  DEF ReadCallback, ReadNothing, ReadPacket, ReadCaseless, ReadMalformed, SelfDeadlock,
      ServerKick, Take
<1>3. QED
  BY <1>2 DEF Waiting, CanWrite

\* Every step keeps it.
LEMMA StrandedStep ==
  ASSUME WellFormed, [Next]_vars, NEW c \in Client, StrandedNot(c)
  PROVE  StrandedNot(c)'
<1>1. /\ status \in [Client -> Status] /\ lock \in [Client -> {"sound", "readonly", "dead"}]
      /\ input \in [Client -> Seq(Kind)]
      /\ pc \in [Worker -> PC] /\ job \in [Worker -> Job \cup {NoJob}]
  BY DEF WellFormed, TypeOK
<1>2. ASSUME status'[c] # "idle" \/ status'[c] = status[c],
             UNCHANGED <<input, skipped, lock>>, UNCHANGED io \/ io.at # "read",
             \A w \in Worker : pc[w] = "reread" => pc'[w] = "reread" /\ job'[w] = job[w]
      PROVE  StrandedNot(c)'
  BY <1>2 DEF StrandedNot, Waiting, CanWrite
<1>3. ASSUME NEW d \in Client, Accept(d) PROVE StrandedNot(c)'
  BY <1>1, <1>2, <1>3 DEF Accept
<1>4. ASSUME NEW d \in Client, NEW items, Receive(d, items)
      PROVE  StrandedNot(c)'
  <2>1. /\ io' = [at |-> "read", client |-> d] /\ io.at # "read"
        /\ input' = [input EXCEPT ![d] = input[d] \o items]
        /\ UNCHANGED <<status, skipped, lock, pc, job>>
    BY <1>4 DEF Receive, IoAt, InLoop
  <2>2. QED
    BY <1>1, <2>1 DEF StrandedNot, Waiting, CanWrite
<1>5. ASSUME NEW d \in Client, NEW e \in {"read", "write"}, Fail(d, e)
      PROVE  StrandedNot(c)'
  BY <1>2, <1>5 DEF Fail, InLoop
<1>6. ASSUME NEW d \in Client, ServerKick(d), UNCHANGED <<input, skipped, lock, pc, job, io>>
      PROVE  StrandedNot(c)'
  BY <1>1, <1>2, <1>6 DEF ServerKick
<1>7. ASSUME NEW d \in Client, IoKick(d) PROVE StrandedNot(c)'
  BY <1>6, <1>7 DEF IoKick, buffer
<1>8. CASE IoRead
  <2>1. /\ io.client \in Client /\ UNCHANGED <<pc, job>>
        /\ ReadCallback(io.client) \/ SelfDeadlock(io.client)
    BY <1>8 DEF IoRead, WellFormed, IoHasClient
  <2>2. CASE io.client = c
    BY <2>1, <2>2, ReadLeavesNothing DEF StrandedNot
  <2>3. CASE io.client # c
    BY <2>1, <2>3, ReadElsewhere DEF StrandedNot
  <2>4. QED
    BY <2>2, <2>3
<1>9. CASE ErrorCallback
  <2>1. io.client \in Client
    BY <1>9 DEF ErrorCallback, WellFormed, IoHasClient
  <2>2. QED
    BY <1>1, <1>2, <1>9, <2>1 DEF ErrorCallback, buffer
<1>10. CASE CleanDisconnects \/ ClearDisconnecting
  BY <1>2, <1>10 DEF CleanDisconnects, ClearDisconnecting, InLoop, buffer
<1>11. ASSUME NEW w \in Worker, HandlerKick(w) PROVE StrandedNot(c)'
  <2>1. job[w].client \in Client
    BY <1>11, JobOfWorker DEF HandlerKick
  <2>2. QED
    BY <1>6, <1>11, <2>1 DEF HandlerKick, buffer
<1>12. ASSUME NEW w \in Worker,
              NextJob(w) \/ DropJob(w) \/ StartJob(w) \/ Drained(w) \/
              DisconnectEnd(w) \/ ServerFlush(w)
       PROVE  StrandedNot(c)'
  <2>1. \A v \in Worker : pc[v] = "reread" => pc'[v] = "reread" /\ job'[v] = job[v]
    BY <1>1, <1>12
    DEF NextJob, DropJob, StartJob, Drained, DisconnectEnd, ServerFlush, Finish, Goto
  <2>2. UNCHANGED <<status, input, skipped, lock, io>>
    BY <1>12
    DEF NextJob, DropJob, StartJob, Drained, DisconnectEnd, ServerFlush, buffer
  <2>3. QED
    BY <1>2, <2>1, <2>2
<1>13. ASSUME NEW w \in Worker, ConnectEnd(w) \/ ProcessEnd(w) PROVE StrandedNot(c)'
  <2>1. /\ pc[w] # "reread" /\ pc' = [pc EXCEPT ![w] = "reread"]
        /\ status' = BackToIdle(job[w].client)
        /\ UNCHANGED <<input, skipped, lock, io, job>>
    BY <1>13 DEF ConnectEnd, ProcessEnd, Goto, buffer
  <2>2. CASE job[w].client = c
    BY <1>1, <2>1, <2>2 DEF StrandedNot
  <2>3. CASE job[w].client # c
    BY <1>1, <1>2, <2>1, <2>3 DEF BackToIdle
  <2>4. QED
    BY <2>2, <2>3
<1>14. ASSUME NEW w \in Worker, Reread(w) PROVE StrandedNot(c)'
  <2> DEFINE d == job[w].client
  <2>1. d \in Client /\ pc[w] = "reread"
    BY <1>14, JobOfWorker DEF Reread
  <2>2. /\ UNCHANGED io
        /\ \A v \in Worker \ {w} : pc'[v] = pc[v] /\ job'[v] = job[v]
    BY <1>1, <1>14 DEF Reread, Finish, Goto
  <2>3. \/ input[d] = <<>> /\ UNCHANGED <<status, input, skipped, lock>>
        \/ ReadCallback(d) \/ SelfDeadlock(d)
    BY <1>14 DEF Reread
  <2> HIDE DEF d
  <2>4. CASE d = c
    BY <1>1, <2>1, <2>2, <2>3, <2>4, ReadLeavesNothing DEF StrandedNot, Waiting
  <2>5. CASE d # c
    <3>1. Waiting(c)' <=> Waiting(c)
      BY <2>1, <2>3, <2>5, ReadElsewhere DEF Waiting, CanWrite
    <3>2. \A v \in Worker : job[v].client = c => v # w
      BY <2>5 DEF d
    <3>3. QED
      BY <2>2, <3>1, <3>2 DEF StrandedNot
  <2>6. QED
    BY <2>4, <2>5
<1>15. CASE UNCHANGED vars
  BY <1>2, <1>15 DEF vars, buffer
<1>16. QED
  BY <1>3, <1>4, <1>5, <1>7, <1>8, <1>9, <1>10, <1>11, <1>12, <1>13, <1>14, <1>15
  DEF Next, IoStep, Run

\* Input of an idle client is about to be read by the libevent thread or a worker,
\* unless what precedes it was of a type without a case (Server.c:178-187,
\* Worker.c:149 and 170).
THEOREM InputIsRead == Spec => []NoStrandedInput
<1> DEFINE Inv == \A c \in Client : StrandedNot(c)
<1>1. Init => Inv
  BY DEF Init, StrandedNot, Waiting
<1>2. IInv /\ Inv /\ [Next]_vars => Inv'
  BY StrandedStep DEF IInv
<1>3. Inv => NoStrandedInput
  BY DEF StrandedNot, Waiting, NoStrandedInput
<1>4. QED
  BY <1>1, <1>2, <1>3, IInvAlways, PTL DEF Spec
------------------------------------------------------------------------------
(* Nobody meets a freed client in the server's list *)

\* The clients in the list are accepted and not freed, whatever the order of the
\* Disconnect jobs and the clean-ups (Server.c:304-306, 438-452).
THEOREM TheListIsAlive == Spec => []ListedAreAlive
<1>1. IInv => ListedAreAlive
  BY DEF IInv, MemoryInv, ListedAreAlive, Alive
<1>2. QED
  BY <1>1, IInvAlways, PTL

------------------------------------------------------------------------------
(* ClientLifecycle implements ClientSession: every step of the threads is  *)
(* a step of the session of one client, a clean-up of several, or none.    *)

(* The packets are handed over in order *)

\* The packets of jobs that no worker has started.
Unstarted(c) ==
    {queue[i].packet : i \in Queued("process", c)} \cup
    {job[w].packet : w \in {v \in Worker : pc[v] = "check" /\ IsJob(job[v], "process", c)}}

\* A packet not yet handed over is the last one parsed and the next one due.
PacketsInv(c) ==
    /\ \A p \in Unstarted(c) : p = parsed[c] /\ p = handled[c] + 1
    /\ Unstarted(c) = {} => status[c] = "disconnect" \/ handled[c] = parsed[c]

\* A step that parses nothing and hands nothing over.
LEMMA PacketsUnmoved ==
  ASSUME NEW c \in Client, PacketsInv(c),
         parsed'[c] = parsed[c], handled'[c] = handled[c],
         status[c] = "disconnect" => status'[c] = "disconnect",
         Unstarted(c)' \subseteq Unstarted(c),
         Unstarted(c)' = {} => Unstarted(c) = {} \/ status'[c] = "disconnect"
  PROVE  PacketsInv(c)'
  BY DEF PacketsInv

\* A job added to the queue.
LEMMA UnstartedAdded ==
  ASSUME IInv, NEW c \in Client, NEW j \in Job, queue' = Append(queue, j),
         UNCHANGED <<pc, job>> \/
             \E w \in Worker : Finish(w, "reread") \/
                               (Goto(w, "reread", "stuck") /\ UNCHANGED job)
  PROVE  Unstarted(c)' = IF IsJob(j, "process", c) THEN Unstarted(c) \cup {j.packet}
                                                  ELSE Unstarted(c)
<1>1. queue \in Seq(Job)
  BY DEF IInv, WellFormed, TypeOK
<1>2. /\ DOMAIN queue' = 1..(Len(queue) + 1)
      /\ DOMAIN queue = 1..Len(queue)
      /\ Len(queue) \in Nat
      /\ \A i \in 1..Len(queue) : queue'[i] = queue[i]
      /\ queue'[Len(queue) + 1] = j
  BY <1>1
<1>3. {queue'[i].packet : i \in Queued("process", c)'} =
          IF IsJob(j, "process", c)
          THEN {queue[i].packet : i \in Queued("process", c)} \cup {j.packet}
          ELSE {queue[i].packet : i \in Queued("process", c)}
  <2>1. Queued("process", c)' = IF IsJob(j, "process", c)
                                THEN Queued("process", c) \cup {Len(queue) + 1}
                                ELSE Queued("process", c)
    BY <1>2 DEF Queued, IsJob
  <2>2. \A i \in Queued("process", c) : queue'[i] = queue[i]
    BY <1>2 DEF Queued
  <2>3. CASE IsJob(j, "process", c)
    <3>1. Queued("process", c)' = Queued("process", c) \cup {Len(queue) + 1}
      BY <2>1, <2>3
    <3>2. queue'[Len(queue) + 1].packet = j.packet
      BY <1>2
    <3> DEFINE Q == Queued("process", c)
    <3> HIDE DEF Q
    <3>3. {queue'[i].packet : i \in Q \cup {Len(queue) + 1}} =
              {queue'[i].packet : i \in Q} \cup {queue'[Len(queue) + 1].packet}
      OBVIOUS
    <3>4. {queue'[i].packet : i \in Q} = {queue[i].packet : i \in Q}
      BY <2>2 DEF Q
    <3>5. QED
      BY <2>3, <3>1, <3>2, <3>3, <3>4 DEF Q
  <2>4. CASE ~IsJob(j, "process", c)
    <3>1. Queued("process", c)' = Queued("process", c)
      BY <2>1, <2>4
    <3>2. QED
      BY <2>2, <2>4, <3>1
  <2>5. QED
    BY <2>3, <2>4
<1>4. \A v \in Worker : /\ pc'[v] = "check" <=> pc[v] = "check"
                        /\ pc[v] = "check" => job'[v] = job[v]
  BY DEF IInv, WellFormed, TypeOK, Finish, Goto
<1>5. {v \in Worker : pc'[v] = "check" /\ IsJob(job'[v], "process", c)} =
      {v \in Worker : pc[v] = "check" /\ IsJob(job[v], "process", c)}
  BY <1>4
<1>6. QED
  BY <1>3, <1>4, <1>5 DEF Unstarted

\* The queue stays and the workers before their first critical section do.
LEMMA UnstartedSame ==
  ASSUME NEW c \in Client, UNCHANGED queue,
         \A v \in Worker : pc'[v] = "check" <=> pc[v] = "check",
         \A v \in Worker : pc[v] = "check" => job'[v] = job[v]
  PROVE  Unstarted(c)' = Unstarted(c)
<1>1. Queued("process", c)' = Queued("process", c)
  BY DEF Queued, IsJob
<1>2. {v \in Worker : pc'[v] = "check" /\ IsJob(job'[v], "process", c)} =
      {v \in Worker : pc[v] = "check" /\ IsJob(job[v], "process", c)}
  OBVIOUS
<1>3. QED
  BY <1>1, <1>2 DEF Unstarted

\* Taking a job from the queue.
LEMMA UnstartedTaken ==
  ASSUME IInv, NEW c \in Client, NEW w \in Worker, NextJob(w)
  PROVE  Unstarted(c)' = Unstarted(c)
<1>1. /\ queue \in Seq(Job) /\ queue # <<>> /\ queue' = Tail(queue)
      /\ pc \in [Worker -> PC] /\ job \in [Worker -> Job \cup {NoJob}]
      /\ pc[w] = "ready" /\ pc' = [pc EXCEPT ![w] = "check"]
      /\ job' = [job EXCEPT ![w] = queue[1]]
  BY DEF IInv, WellFormed, TypeOK, NextJob, Goto
<1>2. /\ DOMAIN queue = 1..Len(queue) /\ Len(queue) \in Nat /\ Len(queue) > 0
      /\ DOMAIN queue' = 1..(Len(queue) - 1)
      /\ \A i \in 1..(Len(queue) - 1) : queue'[i] = queue[i + 1]
  BY <1>1
<1> DEFINE Q == {queue[i].packet : i \in Queued("process", c)}
           R == {queue'[i].packet : i \in Queued("process", c)'}
           W == {v \in Worker : pc[v] = "check" /\ IsJob(job[v], "process", c)}
           V == {v \in Worker : pc'[v] = "check" /\ IsJob(job'[v], "process", c)}
           head == IsJob(queue[1], "process", c)
<1>3. R \subseteq Q
  <2>1. \A i \in Queued("process", c)' : /\ i + 1 \in Queued("process", c)
                                         /\ queue'[i] = queue[i + 1]
    BY <1>2 DEF Queued, IsJob
  <2>2. QED
    BY <2>1
<1>4. Q \subseteq R \cup {queue[1].packet} /\ (~head => Q \subseteq R)
  <2>1. \A i \in Queued("process", c) \ {1} : /\ i - 1 \in Queued("process", c)'
                                              /\ queue'[i - 1] = queue[i]
    BY <1>2 DEF Queued, IsJob
  <2>2. ~head => 1 \notin Queued("process", c)
    BY DEF Queued
  <2>3. QED
    BY <2>1, <2>2
<1>5. head => queue[1].packet \in Q
  BY <1>2 DEF Queued
<1>6. V = (IF head THEN W \cup {w} ELSE W) /\ w \notin W
  BY <1>1 DEF IsJob
<1>7. job'[w] = queue[1] /\ \A v \in W : job'[v] = job[v]
  BY <1>1, <1>6
<1>8. {job'[v].packet : v \in V} =
          {job[v].packet : v \in W} \cup (IF head THEN {queue[1].packet} ELSE {})
  BY <1>6, <1>7
<1>9. Unstarted(c) = Q \cup {job[v].packet : v \in W}
  BY DEF Unstarted
<1>10. Unstarted(c)' = R \cup {job'[v].packet : v \in V}
  BY DEF Unstarted
<1> HIDE DEF Q, R, W, V, head
<1>11. QED
  BY <1>3, <1>4, <1>5, <1>8, <1>9, <1>10
\* Every step keeps the packets in order.
LEMMA PacketsStep ==
  ASSUME IInv, [Next]_vars, NEW c \in Client, PacketsInv(c)
  PROVE  PacketsInv(c)'
<1>1. /\ pc \in [Worker -> PC] /\ job \in [Worker -> Job \cup {NoJob}]
      /\ status \in [Client -> Status] /\ JobsInv(c)
      /\ parsed \in [Client -> 0..MaxPackets] /\ handled \in [Client -> 0..MaxPackets]
  BY DEF IInv, WellFormed, TypeOK
<1>2. ASSUME UNCHANGED <<parsed, handled>>, Unstarted(c)' = Unstarted(c),
             status[c] = "disconnect" => status'[c] = "disconnect"
      PROVE  PacketsInv(c)'
  BY <1>2, PacketsUnmoved
<1>3. ASSUME UNCHANGED <<queue, pc, job, status, parsed, handled>> PROVE PacketsInv(c)'
  BY <1>2, <1>3, UnstartedSame
<1>4. ASSUME NEW d \in Client, Accept(d) PROVE PacketsInv(c)'
  <2> DEFINE j == NewJob("connect", d, 0)
  <2>1. j \in Job /\ ~IsJob(j, "process", c)
    BY NewJobType, ConstantsAssumption DEF JobType, NewJob, IsJob
  <2>2. /\ queue' = Append(queue, j) /\ UNCHANGED <<pc, job, parsed, handled>>
        /\ status[d] = "absent" /\ status' = [status EXCEPT ![d] = "connect"]
    BY <1>4 DEF Accept, AddJob, buffer
  <2> HIDE DEF j
  <2>3. QED
    BY <1>1, <1>2, <2>1, <2>2, UnstartedAdded
<1>5. ASSUME NEW d \in Client, queue' = Append(queue, NewJob("disconnect", d, 0)),
             UNCHANGED <<parsed, handled>>,
             status' = [status EXCEPT ![d] = "disconnect"],
             UNCHANGED <<pc, job>> \/
             \E w \in Worker : Finish(w, "reread") \/
                               (Goto(w, "reread", "stuck") /\ UNCHANGED job)
      PROVE  PacketsInv(c)'
  <2> DEFINE j == NewJob("disconnect", d, 0)
  <2>1. j \in Job /\ ~IsJob(j, "process", c)
    BY NewJobType, ConstantsAssumption DEF JobType, NewJob, IsJob
  <2>2. queue' = Append(queue, j)
    BY <1>5
  <2> HIDE DEF j
  <2>3. Unstarted(c)' = Unstarted(c)
    BY <1>5, <2>1, <2>2, UnstartedAdded
  <2>4. QED
    BY <1>1, <1>2, <1>5, <2>3
<1>6. CASE ErrorCallback
  <2>1. io.client \in Client
    BY <1>6 DEF ErrorCallback, IInv, WellFormed, IoHasClient
  <2>2. QED
    BY <1>5, <1>6, <2>1 DEF ErrorCallback, AddJob, buffer
<1>7. ASSUME NEW d \in Client, ServerKick(d), UNCHANGED <<parsed, handled>>,
             UNCHANGED <<pc, job>> \/
             \E w \in Worker : Finish(w, "reread") \/
                               (Goto(w, "reread", "stuck") /\ UNCHANGED job)
      PROVE  PacketsInv(c)'
  <2>1. CASE status[d] = "disconnect"
    <3>1. UNCHANGED <<status, queue>>
      BY <1>7, <2>1 DEF ServerKick
    <3>2. Unstarted(c)' = Unstarted(c)
      BY <1>1, <1>7, <3>1, UnstartedSame DEF Finish, Goto
    <3>3. QED
      BY <1>2, <1>7, <3>1, <3>2
  <2>2. CASE status[d] # "disconnect"
    BY <1>5, <1>7, <2>2 DEF ServerKick, AddJob
  <2>3. QED
    BY <2>1, <2>2
<1>8. ASSUME NEW d \in Client, ReadCallback(d) \/ SelfDeadlock(d), UNCHANGED handled,
             UNCHANGED <<pc, job>> \/
             \E w \in Worker : Finish(w, "reread") \/
                               (Goto(w, "reread", "stuck") /\ UNCHANGED job)
      PROVE  PacketsInv(c)'
  <2>1. CASE ReadNothing(d) \/ ReadCaseless(d) \/ SelfDeadlock(d)
    <3>1. UNCHANGED <<status, queue, parsed>>
      BY <2>1 DEF ReadNothing, ReadCaseless, SelfDeadlock
    <3>2. Unstarted(c)' = Unstarted(c)
      BY <1>1, <1>8, <3>1, UnstartedSame DEF Finish, Goto
    <3>3. QED
      BY <1>2, <1>8, <3>1, <3>2
  <2>2. CASE ReadMalformed(d)
    BY <1>7, <1>8, <2>2 DEF ReadMalformed
  <2>3. CASE ReadPacket(d)
    <3> DEFINE j == NewJob("process", d, parsed[d] + 1)
    <3>1. j \in Job /\ j.packet = parsed[d] + 1
      <4>1. parsed[d] + 1 \in 0..MaxPackets
        BY <2>3, RoomForPacket DEF ReadPacket, Finds, MayParse, IInv
      <4>2. QED
        BY <4>1, NewJobType DEF JobType, NewJob
    <3>2. /\ queue' = Append(queue, j) /\ status[d] = "idle"
          /\ status' = [status EXCEPT ![d] = "process"]
          /\ parsed' = [parsed EXCEPT ![d] = parsed[d] + 1]
      BY <2>3 DEF ReadPacket, AddJob, Finds, MayParse
    <3>3. IsJob(j, "process", c) <=> c = d
      BY DEF NewJob, IsJob
    <3> HIDE DEF j
    <3>4. Unstarted(c)' = IF c = d THEN Unstarted(c) \cup {j.packet} ELSE Unstarted(c)
      BY <1>8, <3>1, <3>2, <3>3, UnstartedAdded
    <3>5. CASE c # d
      BY <1>1, <1>8, <3>2, <3>4, <3>5, PacketsUnmoved
    <3>6. CASE c = d
      <4>1. Unstarted(c) = {}
        <5>1. NoJobLeft("process", c)
          BY <1>1, <3>2, <3>6 DEF JobsInv
        <5>2. QED
          BY <5>1 DEF NoJobLeft, Unstarted, Pending, Stages
      <4>2. handled[c] = parsed[c]
        BY <3>2, <3>6, <4>1 DEF PacketsInv
      <4>3. Unstarted(c)' = {parsed[c] + 1} /\ parsed'[c] = parsed[c] + 1 /\ handled'[c] = handled[c]
        BY <1>1, <1>8, <3>1, <3>2, <3>4, <3>6, <4>1
      <4>4. QED
        BY <4>2, <4>3 DEF PacketsInv
    <3>7. QED
      BY <3>5, <3>6
  <2>4. QED
    BY <1>8, <2>1, <2>2, <2>3 DEF ReadCallback
<1>9. ASSUME NEW d \in Client, IoKick(d) PROVE PacketsInv(c)'
  BY <1>7, <1>9 DEF IoKick, buffer
<1>10. CASE IoRead
  <2>1. io.client \in Client
    BY <1>10 DEF IoRead, IInv, WellFormed, IoHasClient
  <2>2. QED
    BY <1>8, <1>10, <2>1 DEF IoRead
<1>11. ASSUME NEW w \in Worker, HandlerKick(w) PROVE PacketsInv(c)'
  <2>1. job[w].client \in Client
    BY <1>11, JobOfWorker DEF HandlerKick, IInv
  <2>2. QED
    BY <1>7, <1>11, <2>1 DEF HandlerKick, buffer
<1>12. ASSUME NEW w \in Worker, NextJob(w) PROVE PacketsInv(c)'
  BY <1>2, <1>12, UnstartedTaken DEF NextJob, buffer
<1>13. ASSUME NEW w \in Worker, Reread(w) PROVE PacketsInv(c)'
  <2>1. job[w].client \in Client
    BY <1>13, JobOfWorker DEF Reread, IInv
  <2>2. Finish(w, "reread") \/ (Goto(w, "reread", "stuck") /\ UNCHANGED job)
    BY <1>13 DEF Reread
  <2>3. ASSUME UNCHANGED <<status, queue, parsed>> PROVE PacketsInv(c)'
    <3>1. Unstarted(c)' = Unstarted(c)
      BY <1>1, <2>2, <2>3, UnstartedSame DEF Finish, Goto
    <3>2. QED
      BY <1>2, <1>13, <2>3, <3>1 DEF Reread
  <2>4. QED
    BY <1>8, <1>13, <2>1, <2>2, <2>3 DEF Reread
<1>14. ASSUME NEW w \in Worker, DropJob(w) PROVE PacketsInv(c)'
  <2> DEFINE d == job[w].client
  <2>1. /\ pc[w] = "check" /\ pc' = [pc EXCEPT ![w] = "ready"] /\ status[d] = "disconnect"
        /\ job' = [job EXCEPT ![w] = NoJob]
        /\ UNCHANGED <<queue, status, parsed, handled>>
    BY <1>14 DEF DropJob, Finish, Goto, buffer
  <2>2. Queued("process", c)' = Queued("process", c)
    BY <2>1 DEF Queued, IsJob
  <2>3. Unstarted(c)' \subseteq Unstarted(c)
    BY <1>1, <2>1, <2>2 DEF Unstarted
  <2>4. CASE c = d
    BY <2>1, <2>3, <2>4, PacketsUnmoved
  <2>5. CASE c # d
    <3>1. {v \in Worker : pc'[v] = "check" /\ IsJob(job'[v], "process", c)} =
          {v \in Worker : pc[v] = "check" /\ IsJob(job[v], "process", c)}
      BY <1>1, <2>1, <2>5 DEF IsJob
    <3>2. \A v \in Worker : pc'[v] = "check" => job'[v] = job[v]
      BY <1>1, <2>1
    <3>3. Unstarted(c)' = Unstarted(c)
      BY <2>1, <2>2, <3>1, <3>2 DEF Unstarted
    <3>4. QED
      BY <1>2, <2>1, <3>3
  <2>6. QED
    BY <2>4, <2>5
<1>15. ASSUME NEW w \in Worker, StartJob(w) PROVE PacketsInv(c)'
  <2> DEFINE d == job[w].client
             t == job[w].type
  <2>1. /\ pc[w] = "check" /\ \E to : to # "check" /\ pc' = [pc EXCEPT ![w] = to]
        /\ UNCHANGED <<queue, job, status, parsed>>
        /\ handled' = IF t = "process" THEN [handled EXCEPT ![d] = job[w].packet]
                                       ELSE handled
    <3>1. t \in JobType
      BY <1>15, WorkerSees DEF StartJob, Goto
    <3>2. QED
      BY <1>15, <3>1 DEF StartJob, Goto, buffer, JobType
  <2>2. {v \in Worker : pc'[v] = "check" /\ IsJob(job'[v], "process", c)} =
        {v \in Worker : pc[v] = "check" /\ IsJob(job[v], "process", c)} \ {w}
    BY <1>1, <2>1
  <2>3. Queued("process", c)' = Queued("process", c)
    BY <2>1 DEF Queued, IsJob
  <2>4. CASE IsJob(job[w], "process", c)
    <3>1. w \in Pending("process", c) /\ job[w].packet \in Unstarted(c)
      BY <2>1, <2>4 DEF Pending, Stages, Unstarted
    <3>2. Queued("process", c) = {} /\ \A v \in Pending("process", c) : v = w
      BY <1>1, <3>1 DEF JobsInv, OneJobAtMost, AtMostOne
    <3>3. Unstarted(c)' = {}
      BY <2>2, <2>3, <3>2 DEF Unstarted, Pending, Stages
    <3>4. handled'[c] = job[w].packet /\ job[w].packet = parsed[c]
      BY <1>1, <2>1, <2>4, <3>1 DEF PacketsInv, IsJob
    <3>5. QED
      BY <2>1, <3>3, <3>4 DEF PacketsInv
  <2>5. CASE ~IsJob(job[w], "process", c)
    <3>1. handled'[c] = handled[c]
      BY <1>1, <2>1, <2>5 DEF IsJob
    <3>2. Unstarted(c)' = Unstarted(c)
      BY <2>1, <2>2, <2>3, <2>5 DEF Unstarted
    <3>3. QED
      BY <2>1, <3>1, <3>2, PacketsUnmoved
  <2>6. QED
    BY <2>4, <2>5
<1>16. ASSUME NEW w \in Worker,
              ConnectEnd(w) \/ ProcessEnd(w) \/ Drained(w) \/ DisconnectEnd(w) \/ ServerFlush(w)
       PROVE  PacketsInv(c)'
  <2>1. /\ UNCHANGED <<queue, parsed, handled>>
        /\ \E to : /\ pc' = [pc EXCEPT ![w] = to]
                   /\ to # "check" /\ pc[w] # "check"
        /\ job' = job \/ job' = [job EXCEPT ![w] = NoJob]
    BY <1>16 DEF ConnectEnd, ProcessEnd, Drained, DisconnectEnd, ServerFlush, Finish, Goto, buffer
  <2>2. Unstarted(c)' = Unstarted(c)
    BY <1>1, <2>1, UnstartedSame
  <2>3. status[c] = "disconnect" => status'[c] = "disconnect"
    BY <1>1, <1>16 DEF ConnectEnd, ProcessEnd, Drained, DisconnectEnd, ServerFlush, BackToIdle
  <2>4. QED
    BY <1>2, <2>1, <2>2, <2>3
<1>17. QED
  BY <1>3, <1>4, <1>6, <1>9, <1>10, <1>11, <1>12, <1>13, <1>14, <1>15, <1>16
  DEF Next, IoStep, Run, Receive, Fail, CleanDisconnects, ClearDisconnecting, vars, buffer
------------------------------------------------------------------------------
(* The refinement *)

\* A client at work is in the phase its status tells; the phases are apart.
LEMMA PhaseSame ==
  ASSUME NEW c \in Client, status'[c] = status[c], announced'[c] = announced[c],
         c \in freed' <=> c \in freed
  PROVE  Phase(c)' = Phase(c)
  BY DEF Phase

\* Two functions on the clients that agree everywhere are equal.
LEMMA MoveOf ==
  ASSUME NEW c \in Client, NEW to, Phase(c)' = to,
         \A d \in Client \ {c} : Phase(d)' = Phase(d)
  PROVE  phaseBar' = [phaseBar EXCEPT ![c] = to]
  BY DEF phaseBar

LEMMA PhasesSame ==
  ASSUME \A d \in Client : Phase(d)' = Phase(d)
  PROVE  phaseBar' = phaseBar
  BY DEF phaseBar

\* A client that one worker serves is busy while that worker runs its handlers.
LEMMA BusySame ==
  ASSUME \A w \in Worker : pc'[w] = "process" <=> pc[w] = "process",
         \A w \in Worker : pc[w] = "process" => job'[w] = job[w]
  PROVE  busyBar' = busyBar
  BY DEF busyBar

\* A step to status Disconnect closes a session that is connecting or open.
LEMMA CloseStep ==
  ASSUME IInv, NEW c \in Client, status[c] # "absent",
         status' = [status EXCEPT ![c] = "disconnect"],
         UNCHANGED <<announced, freed, handled>>, busyBar' = busyBar
  PROVE  [Session!Next]_(Session!vars)
<1>1. status \in [Client -> Status]
  BY DEF IInv, WellFormed, TypeOK
<1>2. \A d \in Client \ {c} : Phase(d)' = Phase(d)
  BY <1>1, PhaseSame
<1>3. CASE announced[c] \/ status[c] = "disconnect"
  <2>1. JobsInv(c) /\ (c \in freed => announced[c])
    BY DEF IInv, MemoryInv
  <2>2. Phase(c)' = Phase(c)
    BY <1>1, <1>3, <2>1 DEF Phase, JobsInv
  <2>3. phaseBar' = phaseBar
    BY <1>2, <2>2, PhasesSame
  <2>4. QED
    BY <2>3 DEF Session!vars
<1>4. CASE ~announced[c] /\ status[c] # "disconnect"
  <2>1. status[c] # "absent" /\ c \notin freed
    BY <1>4 DEF IInv, MemoryInv
  <2>2. Phase(c)' = "closing" /\ Phase(c) \in {"connecting", "open"}
    BY <1>1, <1>4, <2>1 DEF Phase
  <2>3. phaseBar' = [phaseBar EXCEPT ![c] = "closing"]
    BY <1>2, <2>2, MoveOf
  <2>4. phaseBar[c] \in {"connecting", "open"}
    BY <2>2 DEF phaseBar
  <2>5. Session!Close(c)
    BY <2>3, <2>4 DEF Session!Close, Session!Move
  <2>6. QED
    BY <2>5 DEF Session!Next
<1>5. QED
  BY <1>3, <1>4

\* A kick closes the session, or finds it closed.
LEMMA KickStep ==
  ASSUME IInv, NEW c \in Client, status[c] # "absent", ServerKick(c),
         UNCHANGED <<announced, freed, handled>>, busyBar' = busyBar
  PROVE  [Session!Next]_(Session!vars)
<1>1. CASE status[c] = "disconnect"
  <2>1. UNCHANGED status
    BY <1>1 DEF ServerKick
  <2>2. phaseBar' = phaseBar
    BY <2>1, PhaseSame, PhasesSame
  <2>3. QED
    BY <2>2 DEF Session!vars
<1>2. CASE status[c] # "disconnect"
  BY <1>2, CloseStep DEF ServerKick
<1>3. QED
  BY <1>1, <1>2

\* A read callback changes no phase, unless it kicks.
LEMMA ReadStep ==
  ASSUME IInv, NEW c \in Client, ReadCallback(c) \/ SelfDeadlock(c),
         UNCHANGED <<announced, freed, handled>>, busyBar' = busyBar
  PROVE  [Session!Next]_(Session!vars)
<1>1. status \in [Client -> Status]
  BY DEF IInv, WellFormed, TypeOK
<1>2. CASE UNCHANGED status
  <2>1. phaseBar' = phaseBar
    BY <1>2, PhaseSame, PhasesSame
  <2>2. QED
    BY <2>1 DEF Session!vars
<1>3. CASE ReadPacket(c)
  <2>1. status[c] = "idle" /\ status' = [status EXCEPT ![c] = "process"]
    BY <1>3 DEF ReadPacket, Finds, MayParse
  <2>2. \A d \in Client : Phase(d)' = Phase(d)
    BY <1>1, <2>1 DEF Phase
  <2>3. phaseBar' = phaseBar
    BY <2>2, PhasesSame
  <2>4. QED
    BY <2>3 DEF Session!vars
<1>4. CASE ReadMalformed(c)
  <2>1. status[c] = "idle" /\ ServerKick(c)
    BY <1>4 DEF ReadMalformed, Finds, MayParse
  <2>2. QED
    BY <2>1, KickStep
<1>5. QED
  BY <1>2, <1>3, <1>4 DEF ReadCallback, ReadNothing, ReadCaseless, SelfDeadlock

\* The status after the handlers: a connecting session is open, any other is as it
\* was.
LEMMA BackToIdlePhase ==
  ASSUME IInv, NEW c \in Client, status' = BackToIdle(c), status[c] # "absent",
         UNCHANGED <<announced, freed>>
  PROVE  /\ \A d \in Client \ {c} : Phase(d)' = Phase(d)
         /\ Phase(c) = "connecting" => Phase(c)' = "open"
         /\ Phase(c) # "connecting" => Phase(c)' = Phase(c)
<1>1. status \in [Client -> Status]
  BY DEF IInv, WellFormed, TypeOK
<1>2. \A d \in Client \ {c} : Phase(d)' = Phase(d)
  BY <1>1, PhaseSame DEF BackToIdle
<1>3. CASE status[c] = "disconnect"
  <2>1. Phase(c)' = Phase(c) /\ Phase(c) # "connecting"
    BY <1>3 DEF BackToIdle, Phase
  <2>2. QED
    BY <1>2, <2>1
<1>4. CASE status[c] # "disconnect"
  <2>1. status'[c] = "idle"
    BY <1>1, <1>4 DEF BackToIdle
  <2>2. /\ Phase(c) = "connecting" => Phase(c)' = "open"
        /\ Phase(c) # "connecting" => Phase(c)' = Phase(c)
    BY <1>4, <2>1 DEF Phase
  <2>3. QED
    BY <1>2, <2>2
<1>5. QED
  BY <1>3, <1>4

\* The steps of the libevent thread.
LEMMA IoRefines ==
  ASSUME IInv, IoStep
  PROVE  [Session!Next]_(Session!vars)
<1>1. TypeOK /\ MemoryInv
  BY DEF IInv, WellFormed
<1>2. UNCHANGED <<pc, job>> /\ UNCHANGED <<announced, handled>>
  BY DEF IoStep, Accept, Receive, Fail, IoKick, IoRead, ErrorCallback,
         CleanDisconnects, ClearDisconnecting
<1>3. busyBar' = busyBar
  BY <1>2, BusySame
<1>4. ASSUME UNCHANGED <<status, freed>> PROVE [Session!Next]_(Session!vars)
  <2>1. phaseBar' = phaseBar
    BY <1>2, <1>4, PhaseSame, PhasesSame
  <2>2. QED
    BY <1>2, <1>3, <2>1 DEF Session!vars
<1>5. ASSUME NEW c \in Client, Accept(c) PROVE [Session!Next]_(Session!vars)
  <2>1. /\ status[c] = "absent" /\ status' = [status EXCEPT ![c] = "connect"]
        /\ freed' = freed
    BY <1>5 DEF Accept
  <2>2. c \notin freed /\ ~announced[c]
    BY <1>1, <2>1 DEF IInv, MemoryInv, JobsInv
  <2>3. Phase(c) = "absent" /\ Phase(c)' = "connecting"
    BY <1>1, <1>2, <2>1, <2>2 DEF Phase, TypeOK
  <2>4. \A d \in Client \ {c} : Phase(d)' = Phase(d)
    BY <1>1, <1>2, <2>1, PhaseSame DEF TypeOK
  <2>5. phaseBar' = [phaseBar EXCEPT ![c] = "connecting"] /\ phaseBar[c] = "absent"
    BY <2>3, <2>4, MoveOf DEF phaseBar
  <2>6. Session!Accept(c)
    BY <1>2, <1>3, <2>5 DEF Session!Accept, Session!Move
  <2>7. QED
    BY <2>6 DEF Session!Next
<1>6. ASSUME NEW c \in Client, IoKick(c) PROVE [Session!Next]_(Session!vars)
  BY <1>2, <1>3, <1>6, KickStep DEF IoKick, Alive, lists
<1>7. CASE IoRead
  <2>1. io.client \in Client
    BY <1>7 DEF IoRead, IInv, WellFormed, IoHasClient
  <2>2. QED
    BY <1>2, <1>3, <1>7, <2>1, ReadStep DEF IoRead, lists
<1>8. CASE ErrorCallback
  <2>1. io.client \in Client /\ status[io.client] # "absent"
    BY <1>1, <1>8 DEF ErrorCallback, IInv, WellFormed, IoHasClient, MemoryInv, Alive
  <2>2. QED
    BY <1>2, <1>3, <1>8, <2>1, CloseStep DEF ErrorCallback, lists
<1>9. CASE CleanDisconnects
  <2>1. Disconnected \subseteq clients /\ Disconnected \subseteq Client
    BY <1>1 DEF Disconnected, TypeOK
  <2>2. \A c \in Disconnected : announced[c] /\ c \notin freed
    BY <1>1, <2>1 DEF Disconnected, MemoryInv
  <2>3. freed' = freed \cup Disconnected /\ UNCHANGED status
    BY <1>9 DEF CleanDisconnects
  <2>4. \A c \in Disconnected : Phase(c) = "closed" /\ Phase(c)' = "destroyed"
    BY <2>2, <2>3 DEF Phase
  <2>5. \A c \in Client \ Disconnected : Phase(c)' = Phase(c)
    BY <1>2, <2>3, PhaseSame
  <2>6. /\ \A c \in Disconnected : phaseBar[c] = "closed"
        /\ phaseBar' = [c \in Client |-> IF c \in Disconnected THEN "destroyed"
                                                               ELSE phaseBar[c]]
    BY <2>1, <2>4, <2>5 DEF phaseBar
  <2>7. Session!Destroy(Disconnected)
    BY <1>2, <1>3, <2>6 DEF Session!Destroy
  <2>8. QED
    BY <2>1, <2>7 DEF Session!Next
<1>10. QED
  BY <1>4, <1>5, <1>6, <1>7, <1>8, <1>9
  DEF IoStep, Receive, Fail, ClearDisconnecting, lists
\* A worker starts a packet's handlers: the session was open and not busy, and the
\* packet is the next one.
LEMMA BeginRefines ==
  ASSUME IInv, \A c \in Client : PacketsInv(c), NEW w \in Worker, StartJob(w),
         job[w].type = "process"
  PROVE  [Session!Next]_(Session!vars)
<1> DEFINE c == job[w].client
<1>1. /\ pc[w] = "check" /\ pc' = [pc EXCEPT ![w] = "process"]
      /\ status[c] # "disconnect"
      /\ handled' = [handled EXCEPT ![c] = job[w].packet]
      /\ UNCHANGED <<queue, job, status, announced, freed>>
  BY DEF StartJob, Goto, lists
<1>2. /\ pc \in [Worker -> PC] /\ job \in [Worker -> Job \cup {NoJob}]
      /\ handled \in [Client -> 0..MaxPackets]
  BY DEF IInv, WellFormed, TypeOK
<1>3. c \in Client /\ JobsInv(c) /\ w \in Pending("process", c)
      /\ ~NoJobLeft("process", c)
  BY <1>1, WorkerSees DEF Stages
<1>4. job[w].packet = handled[c] + 1
  <2>1. job[w].packet \in Unstarted(c)
    BY <1>1 DEF Unstarted, IsJob
  <2>2. QED
    BY <1>3, <2>1 DEF PacketsInv
<1>5. status[c] \in Status /\ status[c] \notin {"absent", "connect", "idle", "disconnect"}
  BY <1>1, <1>3 DEF JobsInv, IInv, WellFormed, TypeOK
<1>6. ~announced[c] /\ c \notin freed
  BY <1>3, <1>5 DEF JobsInv, IInv, MemoryInv
<1>7. phaseBar[c] = "open" /\ phaseBar' = phaseBar
  <2>1. Phase(c) = "open"
    BY <1>5, <1>6 DEF Phase
  <2>2. QED
    BY <1>1, <1>3, <2>1, PhaseSame, PhasesSame DEF phaseBar
<1>8. ~busyBar[c]
  <2>1. ASSUME NEW v \in Worker, pc[v] = "process", job[v].client = c PROVE FALSE
    <3>1. job[v].type = "process"
      BY <2>1 DEF IInv, WellFormed, HoldsItsJob
    <3>2. v \in Pending("process", c)
      BY <2>1, <3>1 DEF Pending, IsJob, Stages
    <3>3. QED
      BY <1>1, <1>3, <2>1, <3>2 DEF JobsInv, OneJobAtMost, AtMostOne
  <2>2. QED
    BY <1>3, <2>1 DEF busyBar
<1> HIDE DEF c
<1>9. busyBar' = [busyBar EXCEPT ![c] = TRUE]
  <2>1. \A d \in Client : (\E v \in Worker : pc'[v] = "process" /\ job'[v].client = d) <=>
                             \/ d = c
                             \/ \E v \in Worker : pc[v] = "process" /\ job[v].client = d
    BY <1>1, <1>2 DEF c
  <2>2. QED
    BY <2>1 DEF busyBar
<1>10. handled' = [handled EXCEPT ![c] = handled[c] + 1]
  BY <1>1, <1>4
<1>11. Session!Begin(c)
  BY <1>7, <1>8, <1>9, <1>10 DEF Session!Begin
<1>12. QED
  BY <1>3, <1>11 DEF Session!Next

\* The handlers of a packet have returned.
LEMMA EndRefines ==
  ASSUME IInv, NEW w \in Worker, ProcessEnd(w)
  PROVE  [Session!Next]_(Session!vars)
<1> DEFINE c == job[w].client
<1>1. /\ pc[w] = "process" /\ pc' = [pc EXCEPT ![w] = "reread"]
      /\ status' = BackToIdle(c)
      /\ UNCHANGED <<queue, job, handled, announced, freed>>
  BY DEF ProcessEnd, Goto, lists
<1>2. pc \in [Worker -> PC] /\ job[w].type = "process"
  BY <1>1 DEF IInv, WellFormed, HoldsItsJob, TypeOK
<1>3. c \in Client /\ JobsInv(c) /\ w \in Pending("process", c)
      /\ ~NoJobLeft("process", c)
  BY <1>1, <1>2, WorkerSees DEF Stages
<1>4. status[c] \notin {"absent", "connect"}
  BY <1>3 DEF JobsInv
<1>5. phaseBar' = phaseBar
  <2>1. Phase(c) # "connecting"
    BY <1>4 DEF Phase
  <2>2. QED
    BY <1>1, <1>3, <1>4, <2>1, BackToIdlePhase, PhasesSame
<1>6. \A v \in Worker : pc[v] = "process" /\ job[v].client = c => v = w
  <2> SUFFICES ASSUME NEW v \in Worker, pc[v] = "process", job[v].client = c
               PROVE  v = w
    OBVIOUS
  <2>1. job[v].type = "process"
    BY DEF IInv, WellFormed, HoldsItsJob
  <2>2. v \in Pending("process", c)
    BY <2>1 DEF Pending, IsJob, Stages
  <2>3. QED
    BY <1>3, <2>2 DEF JobsInv, OneJobAtMost, AtMostOne
<1>7. busyBar[c]
  BY <1>1, <1>3 DEF busyBar
<1> HIDE DEF c
<1>8. busyBar' = [busyBar EXCEPT ![c] = FALSE]
  <2>1. \A d \in Client : (\E v \in Worker : pc'[v] = "process" /\ job'[v].client = d) <=>
                             /\ d # c
                             /\ \E v \in Worker : pc[v] = "process" /\ job[v].client = d
    BY <1>1, <1>2, <1>6 DEF c
  <2>2. QED
    BY <2>1 DEF busyBar
<1>9. Session!End(c)
  BY <1>1, <1>5, <1>7, <1>8 DEF Session!End
<1>10. QED
  BY <1>3, <1>9 DEF Session!Next

\* The handlers of Client.connect have returned.
LEMMA ConnectedRefines ==
  ASSUME IInv, NEW w \in Worker, ConnectEnd(w)
  PROVE  [Session!Next]_(Session!vars)
<1> DEFINE c == job[w].client
<1>1. /\ pc[w] = "connect" /\ pc' = [pc EXCEPT ![w] = "reread"]
      /\ status' = BackToIdle(c)
      /\ UNCHANGED <<queue, job, handled, announced, freed>>
  BY DEF ConnectEnd, Goto, lists
<1>2. pc \in [Worker -> PC] /\ job[w].type = "connect"
  BY <1>1 DEF IInv, WellFormed, HoldsItsJob, TypeOK
<1>3. c \in Client /\ JobsInv(c) /\ ~NoJobLeft("connect", c)
  BY <1>1, <1>2, WorkerSees DEF Stages
<1>4. status[c] # "absent"
  BY <1>3 DEF JobsInv
<1>5. busyBar' = busyBar
  BY <1>1, <1>2, BusySame
<1> HIDE DEF c
<1>6. CASE Phase(c) = "connecting"
  <2>1. phaseBar' = [phaseBar EXCEPT ![c] = "open"] /\ phaseBar[c] = "connecting"
    BY <1>1, <1>3, <1>4, <1>6, BackToIdlePhase, MoveOf DEF phaseBar
  <2>2. Session!Connected(c)
    BY <1>1, <1>5, <2>1 DEF Session!Connected, Session!Move
  <2>3. QED
    BY <1>3, <2>2 DEF Session!Next
<1>7. CASE Phase(c) # "connecting"
  <2>1. phaseBar' = phaseBar
    BY <1>1, <1>3, <1>4, <1>7, BackToIdlePhase, PhasesSame
  <2>2. QED
    BY <1>1, <1>5, <2>1 DEF Session!vars
<1>8. QED
  BY <1>6, <1>7

\* Client.disconnect is dispatched, for the first time or again.
LEMMA AnnounceRefines ==
  ASSUME IInv, NEW w \in Worker, Drained(w)
  PROVE  [Session!Next]_(Session!vars)
<1>1. PICK c \in Client : c = job[w].client
  BY WorkerSees DEF Drained, Goto
<1>2. /\ pc[w] = "drain" /\ pc' = [pc EXCEPT ![w] = "disconnect"]
      /\ jobs[c] < 1 /\ announced' = [announced EXCEPT ![c] = TRUE]
      /\ UNCHANGED <<queue, job, status, handled, freed>>
  BY <1>1 DEF Drained, Goto, NoJobs, lists
<1>3. /\ pc \in [Worker -> PC] /\ announced \in [Client -> BOOLEAN]
      /\ job[w].type = "disconnect"
  BY <1>2 DEF IInv, WellFormed, HoldsItsJob, TypeOK
<1>4. JobsInv(c) /\ ~NoJobLeft("disconnect", c)
  BY <1>1, <1>2, <1>3, WorkerSees DEF Stages
<1>5. status[c] = "disconnect" /\ NoJobLeft("process", c)
  BY <1>2, <1>4 DEF JobsInv
<1>6. busyBar' = busyBar
  BY <1>2, <1>3, BusySame
<1>7. ~busyBar[c]
  <2>1. ASSUME NEW v \in Worker, pc[v] = "process", job[v].client = c PROVE FALSE
    <3>1. job[v].type = "process"
      BY <2>1 DEF IInv, WellFormed, HoldsItsJob
    <3>2. QED
      BY <1>5, <2>1, <3>1 DEF NoJobLeft, Pending, IsJob, Stages
  <2>2. QED
    BY <1>4, <2>1 DEF busyBar
<1>8. \A d \in Client \ {c} : Phase(d)' = Phase(d)
  BY <1>2, <1>3, PhaseSame
<1>9. CASE announced[c]
  <2>1. announced' = announced
    BY <1>2, <1>3, <1>9
  <2>2. phaseBar' = phaseBar
    BY <1>2, <2>1, PhaseSame, PhasesSame
  <2>3. QED
    BY <1>2, <1>6, <2>2 DEF Session!vars
<1>10. CASE ~announced[c]
  <2>1. c \notin freed
    BY <1>10 DEF IInv, MemoryInv
  <2>2. Phase(c) = "closing" /\ Phase(c)' = "closed"
    BY <1>2, <1>3, <1>4, <1>5, <1>10, <2>1 DEF Phase
  <2>3. phaseBar[c] = "closing" /\ phaseBar' = [phaseBar EXCEPT ![c] = "closed"]
    BY <1>4, <1>8, <2>2, MoveOf DEF phaseBar
  <2>4. Session!Announce(c)
    BY <1>2, <1>6, <1>7, <2>3 DEF Session!Announce, Session!Move
  <2>5. QED
    BY <1>4, <2>4 DEF Session!Next
<1>11. QED
  BY <1>9, <1>10

\* Every step of the server is a step of the sessions, or none.
LEMMA StepRefines ==
  ASSUME IInv, \A c \in Client : PacketsInv(c), [Next]_vars
  PROVE  [Session!Next]_(Session!vars)
<1>1. pc \in [Worker -> PC] /\ job \in [Worker -> Job \cup {NoJob}]
  BY DEF IInv, WellFormed, TypeOK
<1>2. ASSUME UNCHANGED <<status, announced, freed, handled>>,
             \A w \in Worker : pc'[w] = "process" <=> pc[w] = "process",
             \A w \in Worker : pc[w] = "process" => job'[w] = job[w]
      PROVE  [Session!Next]_(Session!vars)
  <2>1. phaseBar' = phaseBar /\ busyBar' = busyBar
    BY <1>2, PhaseSame, PhasesSame, BusySame
  <2>2. QED
    BY <1>2, <2>1 DEF Session!vars
<1>3. ASSUME NEW w \in Worker, HandlerKick(w) PROVE [Session!Next]_(Session!vars)
  <2> DEFINE c == job[w].client
  <2>1. pc[w] = "process" /\ job[w].type = "process"
    BY <1>3 DEF HandlerKick, IInv, WellFormed, HoldsItsJob
  <2>2. c \in Client /\ JobsInv(c) /\ ~NoJobLeft("process", c)
    BY <2>1, WorkerSees DEF Stages
  <2>3. status[c] # "absent"
    BY <2>2 DEF JobsInv
  <2>4. busyBar' = busyBar
    BY <1>3, BusySame DEF HandlerKick
  <2>5. QED
    BY <1>3, <2>2, <2>3, <2>4, KickStep DEF HandlerKick, lists
<1>4. ASSUME NEW w \in Worker, Reread(w) PROVE [Session!Next]_(Session!vars)
  <2>1. job[w].client \in Client
    BY <1>4, JobOfWorker DEF Reread, IInv
  <2>2. /\ \A v \in Worker : pc'[v] = "process" <=> pc[v] = "process"
        /\ \A v \in Worker : pc[v] = "process" => job'[v] = job[v]
        /\ UNCHANGED <<announced, freed, handled>>
    BY <1>1, <1>4 DEF Reread, Finish, Goto, lists
  <2>3. CASE UNCHANGED status
    BY <1>2, <2>2, <2>3
  <2>4. QED
    BY <1>4, <2>1, <2>2, <2>3, BusySame, ReadStep DEF Reread
<1>5. ASSUME NEW w \in Worker, NextJob(w) PROVE [Session!Next]_(Session!vars)
  BY <1>1, <1>2, <1>5 DEF NextJob, Goto, lists
<1>6. ASSUME NEW w \in Worker,
             DropJob(w) \/ DisconnectEnd(w) \/ ServerFlush(w)
      PROVE  [Session!Next]_(Session!vars)
  BY <1>1, <1>2, <1>6 DEF DropJob, DisconnectEnd, ServerFlush, Finish, Goto, lists
<1>7. ASSUME NEW w \in Worker, StartJob(w), job[w].type # "process"
      PROVE  [Session!Next]_(Session!vars)
  BY <1>1, <1>2, <1>7 DEF StartJob, Goto, lists
<1>8. CASE UNCHANGED vars
  BY <1>2, <1>8 DEF vars, lists
<1>9. QED
  BY <1>3, <1>4, <1>5, <1>6, <1>7, <1>8, IoRefines, BeginRefines, EndRefines,
     ConnectedRefines, AnnounceRefines
  DEF Next, Run

\* The server keeps what ClientSession promises the plugins: Client.connect first,
\* packets one at a time and in order, none after the disconnect, and
\* Client.disconnect before the memory goes (Worker.c:108-195, Server.c:438-489).
THEOREM SessionImplemented == Spec => ImplementsSession
<1> DEFINE Inv == \A c \in Client : PacketsInv(c)
<1>1. Init => Inv
  BY DEF Init, PacketsInv, Unstarted, Queued
<1>2. IInv /\ Inv /\ [Next]_vars => Inv'
  BY PacketsStep
<1>3. Init => Session!Init
  <2> SUFFICES ASSUME Init PROVE Session!Init
    OBVIOUS
  <2>1. \A c \in Client : Phase(c) = "absent"
    BY DEF Init, Phase
  <2>2. phaseBar = [c \in Client |-> "absent"]
    BY <2>1 DEF phaseBar
  <2>3. busyBar = [c \in Client |-> FALSE]
    BY DEF Init, busyBar
  <2>4. QED
    BY <2>2, <2>3 DEF Init, Session!Init
<1>4. IInv /\ Inv /\ [Next]_vars => [Session!Next]_(Session!vars)
  BY StepRefines
<1>5. QED
  BY <1>1, <1>2, <1>3, <1>4, IInvAlways, PTL DEF Spec, ImplementsSession, Session!Spec
==============================================================================
