--------------------------- MODULE WorkerPoolProofs --------------------------
(***************************************************************************)
(* The pool's types, and that a worker CD_StopWorker has returned for is   *)
(* quiet, for any number of workers and jobs.                              *)
(***************************************************************************)
EXTENDS WorkerPool, TLAPS

USE TaskAssumption, IdleAssumption

\* Every step keeps the variables in their types; a queue stays a sequence of
\* jobs because a job leaves it at its head and enters it at its end.
THEOREM TypeCorrect == Spec => []TypeOK
<1>1. Init => TypeOK
  <2> SUFFICES ASSUME Init PROVE TypeOK
    OBVIOUS
  <2>1. /\ queue \in Seq(Task) /\ pc \in [Worker -> PC]
        /\ task \in [Worker -> Task \cup {Idle}]
    BY DEF Init, PC
  <2>2. working \in [Worker -> BOOLEAN] /\ stopped \in [Worker -> BOOLEAN]
    BY DEF Init
  <2>3. /\ stopping \in Worker \cup {Idle} /\ stops \in SUBSET Worker
        /\ freed \in BOOLEAN /\ early \in SUBSET Worker
    BY DEF Init
  <2>4. QED
    BY <2>1, <2>2, <2>3 DEF TypeOK
<1>2. TypeOK /\ [Next]_vars => TypeOK'
  <2> SUFFICES ASSUME TypeOK, [Next]_vars PROVE TypeOK'
    OBVIOUS
  <2> USE DEF TypeOK, PC, Goto, shutdown
  <2>1. ASSUME NEW t \in Task, AddJob(t) PROVE TypeOK'
    BY <2>1 DEF AddJob, Waiting
  <2>2. ASSUME NEW w \in Worker, Start(w) PROVE TypeOK'
    BY <2>2 DEF Start
  <2>3. ASSUME NEW w \in Worker, Loop(w) PROVE TypeOK'
    BY <2>3 DEF Loop
  <2>4. ASSUME NEW w \in Worker, HasJobs(w) PROVE TypeOK'
    BY <2>4 DEF HasJobs
  <2>5. ASSUME NEW w \in Worker, Wait(w) \/ SpuriousWakeup(w) PROVE TypeOK'
    BY <2>5 DEF Wait, SpuriousWakeup
  <2>6. ASSUME NEW w \in Worker, CheckWorking(w) PROVE TypeOK'
    BY <2>6 DEF CheckWorking
  <2>7. ASSUME NEW w \in Worker, NextJob(w) PROVE TypeOK'
    <3>1. CASE queue = <<>>
      BY <2>7, <3>1 DEF NextJob
    <3>2. CASE queue # <<>>
      <4>1. Head(queue) \in Task /\ Tail(queue) \in Seq(Task)
        BY <3>2
      <4>2. /\ pc' = [pc EXCEPT ![w] = "run"]
            /\ task' = [task EXCEPT ![w] = Head(queue)]
            /\ queue' = Tail(queue)
            /\ UNCHANGED <<working, stopped, stopping, shutdown>>
        BY <2>7, <3>2 DEF NextJob
      <4>3. QED
        BY <4>1, <4>2
    <3>3. QED
      BY <3>1, <3>2
  <2>8. ASSUME NEW w \in Worker, JobDone(w) PROVE TypeOK'
    BY <2>8 DEF JobDone
  <2>9. ASSUME NEW w \in Worker, End(w) PROVE TypeOK'
    BY <2>9 DEF End
  <2>10. ASSUME NEW w \in Worker, StopWorker(w) PROVE TypeOK'
    BY <2>10 DEF StopWorker
  <2>11. CASE Broadcast
    BY <2>11 DEF Broadcast, Waiting
  <2>12. CASE Stopped
    BY <2>12 DEF Stopped, Returns
  <2>13. CASE FreeWorkers
    BY <2>13 DEF FreeWorkers
  <2>14. ASSUME NEW w \in Worker, UseFreed(w) PROVE TypeOK'
    BY <2>14 DEF UseFreed
  <2>15. CASE UNCHANGED vars
    BY <2>15 DEF vars
  <2>16. QED
    BY <2>1, <2>2, <2>3, <2>4, <2>5, <2>6, <2>7, <2>8, <2>9, <2>10, <2>11, <2>12,
       <2>13, <2>14, <2>15 DEF Next, Run
<1>3. QED
  BY <1>1, <1>2, PTL DEF Spec

\* Why a returned CD_StopWorker means a quiet worker: its working flag was
\* cleared first, the stopped flag is set exactly before the thread's first and
\* after its last step, and from there no branch leads back to a job. A thread is
\* wild only once the workers are freed, and then every stop has returned.
StopInv ==
    /\ TypeOK
    /\ freed => stops = {} /\ stopping = Idle
    /\ \A w \in Worker :
         /\ w \notin stops \/ stopping = w => ~working[w]
         /\ pc[w] # "wild" => (stopped[w] <=> pc[w] \in {"created", "gone"})
         /\ pc[w] = "wild" => freed
         /\ pc[w] = "created" /\ StopReturned(w) => w \in early
         /\ StopReturned(w) =>
                IF w \in early THEN pc[w] \in {"created", "loop", "end", "gone", "wild"}
                ELSE pc[w] = "gone"

\* CD_StopWorkers frees no worker a thread still uses, but for one that had not
\* begun when it was stopped.
THEOREM StopIsQuiet == Spec => []QuietAfterStop
<1>1. Init /\ TypeOK => StopInv
  BY DEF Init, StopInv, StopReturned
<1>2. StopInv /\ TypeOK' /\ [Next]_vars => StopInv'
  <2> SUFFICES ASSUME StopInv, TypeOK', [Next]_vars PROVE StopInv'
    OBVIOUS
  <2> USE DEF StopInv, TypeOK, PC, Goto, StopReturned, shutdown
  <2>1. ASSUME NEW t \in Task, AddJob(t) PROVE StopInv'
    BY <2>1 DEF AddJob, Waiting
  <2>2. ASSUME NEW w \in Worker, Run(w) \/ (~freed /\ SpuriousWakeup(w)) PROVE StopInv'
    BY <2>2 DEF Run, Start, Loop, HasJobs, Wait, SpuriousWakeup, CheckWorking,
                NextJob, JobDone, End
  <2>3. ASSUME NEW w \in Worker, StopWorker(w) PROVE StopInv'
    BY <2>3 DEF StopWorker
  <2>4. CASE Broadcast
    BY <2>4 DEF Broadcast, Waiting
  <2>5. CASE Stopped
    BY <2>5 DEF Stopped, Returns
  <2>6. CASE FreeWorkers
    BY <2>6 DEF FreeWorkers
  <2>7. ASSUME NEW w \in Worker, UseFreed(w) PROVE StopInv'
    BY <2>7 DEF UseFreed
  <2>8. CASE UNCHANGED vars
    BY <2>8 DEF vars
  <2>9. QED
    BY <2>1, <2>2, <2>3, <2>4, <2>5, <2>6, <2>7, <2>8 DEF Next
<1>3. StopInv => QuietAfterStop
  BY DEF StopInv, QuietAfterStop
<1>4. QED
  BY <1>1, <1>2, <1>3, TypeCorrect, PTL DEF Spec
==============================================================================
