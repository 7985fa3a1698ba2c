------------------------------ MODULE WorkerPool -----------------------------
(***************************************************************************)
(* The thread pool of src/Workers.c and src/Worker.c: threads that add     *)
(* jobs, workers that sleep on one condition variable while the queue is   *)
(* empty, and the thread that stops them one after the other.              *)
(*                                                                         *)
(* Every critical section of the pool's mutex either only adds a job and   *)
(* signals, only broadcasts, or ends in the wait that releases the mutex,  *)
(* so each is one action and the mutex itself is not a variable.  What a   *)
(* worker reads outside the mutex is a step of its own.                    *)
(***************************************************************************)
EXTENDS Naturals, Sequences, FiniteSets

CONSTANTS
    Worker,     \* the threads of CD_SpawnWorkers
    Task        \* the jobs' identities; a finished one may be added again

ASSUME TaskAssumption == Worker \cap Task = {}

Idle == "idle"
ASSUME IdleAssumption == Idle \notin Worker \cup Task

VARIABLES
    queue,      \* workers->jobs
    pc,         \* where each worker is in CD_RunWorker
    task,       \* worker->job
    working,    \* worker->working
    stopped,    \* worker->stopped
    stopping,   \* the worker CD_StopWorkers waits for, Idle when none
    stops,      \* workers CD_StopWorkers has still to stop; Worker before it runs
    freed,      \* CD_StopWorkers has freed the workers
    early       \* history: workers whose stop came back before their thread began

shutdown == <<stops, freed, early>>
vars == <<queue, pc, task, working, stopped, stopping, shutdown>>

\* A thread that is wild has used its worker after it was freed.
PC == {"created", "loop", "peek", "lock", "waiting", "awake", "take", "run", "end",
       "gone", "wild"}

TypeOK ==
    /\ queue \in Seq(Task)
    /\ pc \in [Worker -> PC]
    /\ task \in [Worker -> Task \cup {Idle}]
    /\ working \in [Worker -> BOOLEAN]
    /\ stopped \in [Worker -> BOOLEAN]
    /\ stopping \in Worker \cup {Idle}
    /\ stops \in SUBSET Worker
    /\ freed \in BOOLEAN
    /\ early \in SUBSET Worker

\* CD_CreateWorkers and CD_SpawnWorkers: the threads exist, none has run yet.
Init ==
    /\ queue = <<>>
    /\ pc = [w \in Worker |-> "created"]
    /\ task = [w \in Worker |-> Idle]
    /\ working = [w \in Worker |-> TRUE]
    /\ stopped = [w \in Worker |-> TRUE]
    /\ stopping = Idle
    /\ stops = Worker
    /\ freed = FALSE
    /\ early = {}

Goto(w, from, to) == pc[w] = from /\ pc' = [pc EXCEPT ![w] = to]

Waiting == {w \in Worker : pc[w] = "waiting"}
InQueue(t) == \E i \in DOMAIN queue : queue[i] = t
Running(t) == \E w \in Worker : task[w] = t

\* CD_AddJob: pthread_cond_signal wakes one of the threads that wait, if any.
AddJob(t) ==
    /\ ~InQueue(t) /\ ~Running(t)
    /\ queue' = Append(queue, t)
    /\ \/ Waiting = {} /\ UNCHANGED pc
       \/ \E w \in Waiting : Goto(w, "waiting", "awake")
    /\ UNCHANGED <<task, working, stopped, stopping, shutdown>>

------------------------------------------------------------------------------
(* CD_RunWorker *)

Start(w) ==
    /\ Goto(w, "created", "loop")
    /\ stopped' = [stopped EXCEPT ![w] = FALSE]
    /\ UNCHANGED <<queue, task, working, stopping, shutdown>>

\* while (self->working)
Loop(w) ==
    /\ Goto(w, "loop", IF working[w] THEN "peek" ELSE "end")
    /\ task' = [task EXCEPT ![w] = Idle]
    /\ UNCHANGED <<queue, working, stopped, stopping, shutdown>>

\* CD_HasJobs, read without the mutex.
HasJobs(w) ==
    /\ Goto(w, "peek", IF queue # <<>> THEN "awake" ELSE "lock")
    /\ UNCHANGED <<queue, task, working, stopped, stopping, shutdown>>

\* pthread_cond_wait; neither the queue nor working is looked at again.
Wait(w) ==
    /\ Goto(w, "lock", "waiting")
    /\ UNCHANGED <<queue, task, working, stopped, stopping, shutdown>>

\* A wait may return although nobody signalled.
SpuriousWakeup(w) ==
    /\ Goto(w, "waiting", "awake")
    /\ UNCHANGED <<queue, task, working, stopped, stopping, shutdown>>

CheckWorking(w) ==
    /\ Goto(w, "awake", IF working[w] THEN "take" ELSE "end")
    /\ UNCHANGED <<queue, task, working, stopped, stopping, shutdown>>

\* A worker that runs what CD_NextJob returned, NULL included.
NextJobUnchecked(w) ==
    /\ Goto(w, "take", "run")
    /\ task' = [task EXCEPT ![w] = IF queue = <<>> THEN "null" ELSE Head(queue)]
    /\ queue' = IF queue = <<>> THEN queue ELSE Tail(queue)
    /\ UNCHANGED <<working, stopped, stopping, shutdown>>

\* CD_NextJob: NULL when another worker was faster.
NextJob(w) ==
    /\ IF queue = <<>>
       THEN Goto(w, "take", "loop") /\ UNCHANGED <<queue, task>>
       ELSE /\ Goto(w, "take", "run")
            /\ task' = [task EXCEPT ![w] = Head(queue)]
            /\ queue' = Tail(queue)
    /\ UNCHANGED <<working, stopped, stopping, shutdown>>

\* A worker that waits for a signal after every job.
JobDoneSleep(w) ==
    /\ Goto(w, "run", "lock")
    /\ task' = [task EXCEPT ![w] = Idle]
    /\ UNCHANGED <<queue, working, stopped, stopping, shutdown>>

\* The job's handlers return.
JobDone(w) ==
    /\ Goto(w, "run", "loop")
    /\ task' = [task EXCEPT ![w] = Idle]
    /\ UNCHANGED <<queue, working, stopped, stopping, shutdown>>

\* A thread that ends without saying so.
EndSilently(w) ==
    /\ Goto(w, "end", "gone")
    /\ UNCHANGED <<queue, task, working, stopped, stopping, shutdown>>

End(w) ==
    /\ Goto(w, "end", "gone")
    /\ stopped' = [stopped EXCEPT ![w] = TRUE]
    /\ UNCHANGED <<queue, task, working, stopping, shutdown>>

------------------------------------------------------------------------------
(* CD_StopWorkers, called once when the server stops *)

\* CD_StopWorker before its wait: the flag, then the broadcast.
StopWorker(w) ==
    /\ stopping = Idle
    /\ w \in stops
    /\ stopping' = w
    /\ working' = [working EXCEPT ![w] = FALSE]
    /\ UNCHANGED <<queue, pc, task, stopped, shutdown>>

Broadcast ==
    /\ stopping \in stops
    /\ pc' = [w \in Worker |-> IF w \in Waiting THEN "awake" ELSE pc[w]]
    /\ stops' = stops \ {stopping}
    /\ UNCHANGED <<queue, task, working, stopped, stopping, freed, early>>

\* The worker whose stop comes back is early when its thread has not begun.
Returns ==
    /\ stopping' = Idle
    /\ early' = early \cup {w \in Worker : w = stopping /\ pc[w] = "created"}
    /\ UNCHANGED <<queue, pc, task, working, stopped, stops, freed>>

\* A stop that does not wait.
StoppedAtOnce ==
    /\ stopping \in Worker \ stops
    /\ Returns

\* The wait for self->stopped is over; CD_CreateWorker had written TRUE there.
Stopped ==
    /\ stopping \in Worker \ stops
    /\ stopped[stopping]
    /\ Returns

\* The second loop of CD_StopWorkers. The threads are detached, so the pthread_join
\* of CD_DestroyWorker waits for none of them.
FreeWorkers ==
    /\ stops = {}
    /\ stopping = Idle
    /\ ~freed
    /\ freed' = TRUE
    /\ UNCHANGED <<queue, pc, task, working, stopped, stopping, stops, early>>

\* Whatever a thread does next in CD_RunWorker, it reads or writes its worker.
UseFreed(w) ==
    /\ freed
    /\ pc[w] \notin {"gone", "wild"}
    /\ pc' = [pc EXCEPT ![w] = "wild"]
    /\ UNCHANGED <<queue, task, working, stopped, stopping, shutdown>>

------------------------------------------------------------------------------
Run(w) ==
    /\ ~freed
    /\ \/ Start(w) \/ Loop(w) \/ HasJobs(w) \/ Wait(w)
       \/ CheckWorking(w) \/ NextJob(w) \/ JobDone(w) \/ End(w)

Next ==
    \/ \E t \in Task : AddJob(t)
    \/ \E w \in Worker : Run(w) \/ (~freed /\ SpuriousWakeup(w)) \/ UseFreed(w)
    \/ \E w \in Worker : StopWorker(w)
    \/ Broadcast
    \/ Stopped
    \/ FreeWorkers

Spec == Init /\ [][Next]_vars

\* The threads are scheduled and the handlers return; no spurious wakeup and no
\* further job is promised.
Fairness ==
    /\ \A w \in Worker : WF_vars(Run(w))
    /\ WF_vars(Broadcast \/ Stopped)

FairSpec == Spec /\ Fairness

------------------------------------------------------------------------------
(* Properties *)

StopBegun == stopping # Idle \/ stops # Worker
StopReturned(w) == stopping # w /\ w \notin stops

\* Once CD_StopWorker has returned for a worker, its thread has used the worker for
\* the last time, so CD_StopWorkers may free it. The exception is the code's: the
\* stop of a thread that had not begun comes back on the flag CD_CreateWorker
\* wrote; that thread still runs through the freed worker, but takes and runs no job
\* before it is freed (Workers.c:81-96, Worker.c:38, 69, 204, 220).
QuietAfterStop ==
    \A w \in Worker : StopReturned(w) =>
        IF w \in early THEN pc[w] \in {"created", "loop", "end", "gone", "wild"}
        ELSE pc[w] = "gone"

\* A queued job is taken as long as one worker is neither asleep nor on its way
\* to sleep past its look at the queue: jobs are stranded by no other way
\* (Worker.c:75-98, Workers.c:204-214).
AwakeWorkersDrain ==
    \A t \in Task :
        (InQueue(t) /\ \E w \in Worker :
                          pc[w] \in {"created", "loop", "awake", "take", "run"})
            ~> (~InQueue(t) \/ StopBegun)

\* CD_StopWorker waits forever for a sleeping worker only: one that missed the
\* broadcast (Worker.c:207-227).
OnlySleepersBlockStop ==
    \A w \in Worker :
        stopping = w ~> (stopping # w \/ pc[w] = "waiting")

\* "Stop a worker" (Worker.h:65-67): the call comes back with the worker stopped.
StopReturns ==
    \A w \in Worker : stopping = w ~> stopping # w
==============================================================================
