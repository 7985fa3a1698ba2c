-------------------------- MODULE ServerRunProofs --------------------------
(***************************************************************************)
(* Proofs about the time loop, for any number of threads and timers and    *)
(* any first id, and about the life of the server: its threads use the     *)
(* time loop as TimeLoop specifies it, for any intervals of the plugin and *)
(* any number of timeouts, and what was unloaded stays silent.             *)
(***************************************************************************)
EXTENDS ServerRun, TLAPS

(***************************************************************************)
(* The time loop                                                           *)
(***************************************************************************)

(* The ids given out are below the next one and no two timers share one;   *)
(* a timer without an id is unset, or in the hands of the thread that set  *)
(* it; a timer is taken out of the map by one thread.                      *)
IdsAreNew ==
  /\ \A t \in DOMAIN idOf : idOf[t] < last
  /\ \A t, u \in DOMAIN idOf : idOf[t] = idOf[u] => t = u

HandsOff ==
  /\ \A c \in Caller :
       /\ doing[c].op = "put" => /\ doing[c].timer \in Timer \ DOMAIN idOf
                                 /\ event[doing[c].timer] \in {"armed", "fired"}
       /\ doing[c].op = "free" => /\ doing[c].timer \in DOMAIN idOf
                                  /\ event[doing[c].timer] \in {"armed", "fired"}
                                  /\ idOf[doing[c].timer] \notin DOMAIN callbacks
  /\ \A c, d \in Caller :
       doing[c].timer = doing[d].timer /\ doing[c].timer # NoTimer => c = d
  /\ \A t \in DOMAIN idOf : event[t] # "unset"

(* What runs was armed and has not been freed since. *)
RunsWhatIsSet == current # NoTimer => event[current] \in {"armed", "fired"}

(* The map holds the timers that were not cleared, those that have fired   *)
(* included, under their ids.                                              *)
MapInv ==
  /\ \A id \in DOMAIN callbacks :
       LET t == callbacks[id] IN ~Cleared(t) /\ t \in DOMAIN idOf /\ idOf[t] = id
  /\ \A t \in DOMAIN idOf :
       ~Cleared(t) => idOf[t] \in DOMAIN callbacks /\ callbacks[idOf[t]] = t

LoopInv ==
  LoopTypeOK /\ IdsAreNew /\ HandsOff /\ MapInv /\ RunsWhatIsSet

(* The id that PutTimer gives out is none that was given before. *)
LEMMA NewIdIsNew ==
  ASSUME NEW l \in Int PROVE NewId(l) \in Int /\ l <= NewId(l)
BY DEF NewId

LEMMA InitInv == LoopInit => LoopInv
<1> SUFFICES ASSUME LoopInit PROVE LoopInv
  OBVIOUS
<1> USE TimerAssumption
<1>1. NewId(FirstId) \in Int
  BY NewIdIsNew
<1>2. LoopTypeOK
  <2>1. /\ event \in [Timer -> {"unset", "armed", "fired", "freed"}]
        /\ doing \in [Caller -> {Idle}]
    BY DEF LoopInit
  <2>2. doing \in [Caller -> {Idle} \cup {Putting(t) : t \in Timer}
                                   \cup {Freeing(t) : t \in Timer}]
    BY <2>1
  <2>3. /\ last \in Int /\ current \in Timer \cup {NoTimer}
        /\ DOMAIN callbacks \subseteq Int
        /\ \A id \in DOMAIN callbacks : callbacks[id] \in Timer
        /\ DOMAIN idOf \subseteq Timer /\ \A t \in DOMAIN idOf : idOf[t] \in Int
        /\ loop = "unborn" /\ exitAsked = FALSE /\ base = TRUE
    BY <1>1 DEF LoopInit
  <2>4. QED
    BY <2>1, <2>2, <2>3 DEF LoopTypeOK
<1>3. IdsAreNew /\ HandsOff /\ RunsWhatIsSet
  BY <1>1 DEF LoopInit, IdsAreNew, HandsOff, RunsWhatIsSet, Idle
<1>4. MapInv
  BY <1>1 DEF LoopInit, MapInv, Cleared, Idle, Freeing
<1>5. QED
  BY <1>2, <1>3, <1>4 DEF LoopInv

LEMMA TypeStep == LoopTypeOK /\ [LoopNext]_loopVars => LoopTypeOK'
<1> SUFFICES ASSUME LoopTypeOK, [LoopNext]_loopVars PROVE LoopTypeOK'
  OBVIOUS
<1> USE TimerAssumption DEF LoopTypeOK
<1>1. ASSUME NEW c \in Caller, NEW t \in Timer, AddTimer(c, t) PROVE LoopTypeOK'
  BY <1>1 DEF AddTimer, Putting
<1>2. ASSUME NEW c \in Caller, PutTimer(c) PROVE LoopTypeOK'
  <2>1. doing[c].timer \in Timer
    BY <1>2 DEF PutTimer, Idle, Putting, Freeing
  <2>2. NewId(last) \in Int
    BY NewIdIsNew
  <2>3. QED
    BY <1>2, <2>1, <2>2 DEF PutTimer, Named, WithId
<1>3. ASSUME NEW c \in Caller, NEW id \in DOMAIN callbacks, TakeTimer(c, id)
      PROVE LoopTypeOK'
  BY <1>3 DEF TakeTimer, WithoutId, Freeing
<1>4. ASSUME NEW c \in Caller, FreeTimer(c) PROVE LoopTypeOK'
  BY <1>4 DEF FreeTimer
<1>5. ASSUME NEW t \in Timer, Fire(t) PROVE LoopTypeOK'
  BY <1>5 DEF Fire
<1>6. CASE Return
  BY <1>6 DEF Return
<1>7. CASE RunTimeLoop \/ EndTimeLoop \/ StopTimeLoop \/ DestroyTimeLoop
  BY <1>7 DEF RunTimeLoop, EndTimeLoop, StopTimeLoop, DestroyTimeLoop, AskToLeave
<1>8. CASE UNCHANGED loopVars
  BY <1>8 DEF loopVars
<1>9. QED
  BY <1>1, <1>2, <1>3, <1>4, <1>5, <1>6, <1>7, <1>8 DEF LoopNext

LEMMA InvStep == LoopInv /\ [LoopNext]_loopVars => LoopInv'
<1> SUFFICES ASSUME LoopInv, [LoopNext]_loopVars PROVE LoopInv'
  OBVIOUS
<1> USE TimerAssumption
<1>0. LoopTypeOK /\ LoopTypeOK'
  BY TypeStep DEF LoopInv
<1>a. /\ \A t \in Timer : Putting(t).op = "put" /\ Putting(t).timer = t
      /\ \A t \in Timer : Freeing(t).op = "free" /\ Freeing(t).timer = t
      /\ Idle.op = "idle" /\ Idle.timer = NoTimer
      /\ \A c \in Caller : doing[c] = Idle \/ doing[c].timer \in Timer
      /\ \A c \in Caller : doing[c].op = "free" => doing[c] = Freeing(doing[c].timer)
  BY <1>0 DEF LoopTypeOK, Putting, Freeing, Idle
<1>1. ASSUME NEW c \in Caller, NEW t \in Timer, AddTimer(c, t) PROVE LoopInv'
  <2>1. t \notin DOMAIN idOf /\ \A d \in Caller : doing[d].timer # t
    BY <1>0, <1>1, <1>a DEF AddTimer, LoopInv, HandsOff, LoopTypeOK, Idle, Putting, Freeing
  <2>2. IdsAreNew' /\ RunsWhatIsSet'
    BY <1>0, <1>1, <1>a DEF AddTimer, LoopInv, IdsAreNew, RunsWhatIsSet, LoopTypeOK
  <2>3. HandsOff'
    BY <1>0, <1>1, <1>a, <2>1 DEF AddTimer, LoopInv, HandsOff, LoopTypeOK, Idle, Putting
  <2>4. \A u \in Timer : u # t => (Cleared(u)' <=> Cleared(u))
    BY <1>0, <1>1, <1>a DEF AddTimer, Cleared, LoopTypeOK, Idle, Putting, Freeing
  <2>5. MapInv'
    BY <1>0, <1>1, <2>1, <2>4 DEF AddTimer, LoopInv, MapInv, LoopTypeOK
  <2>6. QED
    BY <1>0, <2>2, <2>3, <2>5 DEF LoopInv
<1>2. ASSUME NEW c \in Caller, PutTimer(c) PROVE LoopInv'
  <2> DEFINE t == doing[c].timer
             id == NewId(last)
  <2>1. t \in Timer \ DOMAIN idOf /\ event[t] \in {"armed", "fired"}
    BY <1>2 DEF PutTimer, LoopInv, HandsOff
  <2>2. /\ id \in Int /\ \A u \in DOMAIN idOf : idOf[u] # id /\ idOf[u] < id
        /\ id \notin DOMAIN callbacks
    BY <1>0, NewIdIsNew DEF LoopInv, IdsAreNew, MapInv, LoopTypeOK
  <2>3. /\ idOf' = [u \in DOMAIN idOf \cup {t} |-> IF u = t THEN id ELSE idOf[u]]
        /\ callbacks' = [i \in DOMAIN callbacks \cup {id} |->
                           IF i = id THEN t ELSE callbacks[i]]
        /\ last' = id + 1 /\ event' = event /\ current' = current
        /\ doing' = [doing EXCEPT ![c] = Idle]
    BY <1>2 DEF PutTimer, Named, WithId
  <2> HIDE DEF t, id
  <2>4. IdsAreNew'
    BY <1>0, <2>1, <2>2, <2>3 DEF LoopInv, IdsAreNew, LoopTypeOK
  <2>5. RunsWhatIsSet'
    BY <2>3 DEF LoopInv, RunsWhatIsSet
  <2>6. HandsOff'
    <3>1. \A d \in Caller : d # c => doing'[d] = doing[d] /\ doing[d].timer # t
      BY <1>0, <1>a, <2>1, <2>3 DEF LoopInv, HandsOff, LoopTypeOK, t
    <3>2. doing'[c] = Idle
      BY <1>0, <2>3 DEF LoopTypeOK
    <3>3. QED
      BY <1>0, <1>a, <2>1, <2>2, <2>3, <3>1, <3>2 DEF LoopInv, HandsOff, LoopTypeOK
  <2>7. \A u \in Timer : Cleared(u)' <=> Cleared(u)
    BY <1>0, <1>a, <1>2, <2>3 DEF PutTimer, Cleared, LoopTypeOK, Idle, Freeing
  <2>8. ~Cleared(t)
    BY <1>0, <1>a, <1>2, <2>1 DEF PutTimer, Cleared, LoopInv, HandsOff
  <2>9. MapInv'
    BY <1>0, <2>1, <2>2, <2>3, <2>7, <2>8 DEF LoopInv, MapInv, LoopTypeOK
  <2>10. QED
    BY <1>0, <2>4, <2>5, <2>6, <2>9 DEF LoopInv
<1>3. ASSUME NEW c \in Caller, NEW id \in DOMAIN callbacks, TakeTimer(c, id)
      PROVE LoopInv'
  <2> DEFINE t == callbacks[id]
  <2>1. t \in Timer /\ t \in DOMAIN idOf /\ idOf[t] = id /\ ~Cleared(t)
    BY <1>0 DEF LoopInv, MapInv, LoopTypeOK
  <2>2. event[t] \in {"armed", "fired"}
    BY <1>0, <2>1 DEF LoopInv, HandsOff, LoopTypeOK, Cleared
  <2>3. \A d \in Caller : doing[d].timer # t
    BY <1>0, <1>a, <2>1 DEF LoopInv, HandsOff, LoopTypeOK, Putting, Freeing, Idle
  <2>4. /\ callbacks' = [i \in DOMAIN callbacks \ {id} |-> callbacks[i]]
        /\ doing' = [doing EXCEPT ![c] = Freeing(t)] /\ doing[c] = Idle
        /\ event' = event /\ idOf' = idOf /\ last' = last /\ current' = current
    BY <1>3 DEF TakeTimer, WithoutId
  <2> HIDE DEF t
  <2>5. IdsAreNew' /\ RunsWhatIsSet'
    BY <2>4 DEF LoopInv, IdsAreNew, RunsWhatIsSet
  <2>6. HandsOff'
    BY <1>0, <1>a, <2>1, <2>2, <2>3, <2>4 DEF LoopInv, HandsOff, LoopTypeOK
  <2>7. \A u \in Timer : Cleared(u)' <=> Cleared(u) \/ u = t
    BY <1>0, <1>a, <2>1, <2>4 DEF Cleared, LoopTypeOK
  <2>8. MapInv'
    BY <1>0, <2>1, <2>4, <2>7 DEF LoopInv, MapInv, LoopTypeOK, t
  <2>9. QED
    BY <1>0, <2>5, <2>6, <2>8 DEF LoopInv
<1>4. ASSUME NEW c \in Caller, FreeTimer(c) PROVE LoopInv'
  <2> DEFINE t == doing[c].timer
  <2>1. /\ t \in Timer /\ t \in DOMAIN idOf /\ current # t
        /\ doing[c] = Freeing(t) /\ idOf[t] \notin DOMAIN callbacks
    BY <1>0, <1>4, <1>a DEF FreeTimer, MayDelete, LoopInv, HandsOff, LoopTypeOK
  <2>2. /\ event' = [event EXCEPT ![t] = "freed"]
        /\ doing' = [doing EXCEPT ![c] = Idle]
        /\ callbacks' = callbacks /\ idOf' = idOf /\ last' = last
        /\ current' = current
    BY <1>4 DEF FreeTimer
  <2>3. \A d \in Caller : d # c => doing[d].timer # t
    BY <1>a, <2>1 DEF LoopInv, HandsOff
  <2> HIDE DEF t
  <2>4. IdsAreNew' /\ RunsWhatIsSet'
    BY <1>0, <2>1, <2>2 DEF LoopInv, IdsAreNew, RunsWhatIsSet, LoopTypeOK
  <2>5. HandsOff'
    BY <1>0, <1>a, <2>1, <2>2, <2>3 DEF LoopInv, HandsOff, LoopTypeOK
  <2>6. \A u \in Timer : Cleared(u)' <=> Cleared(u)
    BY <1>0, <1>a, <2>1, <2>2, <2>3 DEF Cleared, LoopTypeOK
  <2>7. MapInv'
    BY <1>0, <2>2, <2>6 DEF LoopInv, MapInv, LoopTypeOK
  <2>8. QED
    BY <1>0, <2>4, <2>5, <2>7 DEF LoopInv
<1>5. ASSUME NEW t \in Timer, Fire(t) PROVE LoopInv'
  <2>1. /\ event[t] = "armed" /\ event'[t] \in {"armed", "fired"} /\ current' = t
        /\ \A u \in Timer : u # t => event'[u] = event[u]
        /\ \A u \in Timer : Cleared(u)' <=> Cleared(u)
    BY <1>0, <1>5 DEF Fire, Cleared, LoopTypeOK
  <2>2. IdsAreNew' /\ RunsWhatIsSet'
    BY <1>5, <2>1 DEF Fire, LoopInv, IdsAreNew, RunsWhatIsSet
  <2>3. HandsOff'
    BY <1>0, <1>5, <2>1 DEF Fire, LoopInv, HandsOff, LoopTypeOK
  <2>4. MapInv'
    BY <1>0, <1>5, <2>1 DEF Fire, LoopInv, MapInv, LoopTypeOK
  <2>5. QED
    BY <1>0, <2>2, <2>3, <2>4 DEF LoopInv
<1>6. CASE Return \/ RunTimeLoop \/ EndTimeLoop \/ StopTimeLoop \/ DestroyTimeLoop
           \/ UNCHANGED loopVars
  <2>1. /\ event' = event /\ idOf' = idOf /\ last' = last /\ doing' = doing
        /\ callbacks' = callbacks /\ (current' = current \/ current' = NoTimer)
    BY <1>6 DEF Return, RunTimeLoop, EndTimeLoop, StopTimeLoop, DestroyTimeLoop, loopVars
  <2>2. IdsAreNew' /\ RunsWhatIsSet' /\ HandsOff'
    BY <2>1 DEF LoopInv, IdsAreNew, RunsWhatIsSet, HandsOff
  <2>3. MapInv'
    BY <2>1 DEF LoopInv, MapInv, Cleared
  <2>4. QED
    BY <1>0, <2>2, <2>3 DEF LoopInv
<1>7. QED
  BY <1>1, <1>2, <1>3, <1>4, <1>5, <1>6 DEF LoopNext

LEMMA Invariant == LoopSpec => []LoopInv
BY InitInv, InvStep, PTL DEF LoopSpec

(* TimeLoop.c: the variables stay in their types. *)
THEOREM LoopTypeCorrect == LoopSpec => []LoopTypeOK
BY Invariant, PTL DEF LoopInv

(* CD_SetTimeout, CD_SetInterval and their clears: an id names one timer,  *)
(* which nobody frees twice, and never another.                            *)
THEOREM IdsAreSound == LoopSpec => []IdsNameTimers
<1>1. LoopInv => IdsNameTimers
  BY DEF LoopInv, MapInv, IdsAreNew, IdsNameTimers
<1>2. QED
  BY <1>1, Invariant, PTL

(* CD_ClearTimeout and CD_ClearInterval: a cleared timer is silent. *)
THEOREM ClearSilences == LoopSpec => []ClearedIsSilent
<1>1. LoopInv => ClearedIsSilent
  BY TimerAssumption DEF LoopInv, RunsWhatIsSet, ClearedIsSilent
<1>2. QED
  BY <1>1, Invariant, PTL

(***************************************************************************)
(* The server                                                              *)
(***************************************************************************)

LEMMA Threads == Main \in Caller /\ Handler \in Caller
BY RunAssumption

(* How many intervals are set, by what the main thread is about to do. *)
Running == {"register", "start", "serve", "destroyWorlds", "stopWorkers",
            "awaitWorkers"}

DoneInv ==
  /\ main \in {"bind", "runLoop"} => done = 0
  /\ main = "load" => done \in Nat /\ done < Len(Intervals)
  /\ main \in Running => done = Len(Intervals)
  /\ main = "destroy" /\ plugin = "loaded" => done = Len(Intervals)
  /\ main = "unload" => done \in Nat /\ 0 < done /\ done <= Len(Intervals)
  /\ main = "unregister" => done = 0
  /\ main \in {"bind", "runLoop", "load", "register"} => plugin = "absent"
  /\ plugin = "closed" => main \in {"freeLoop", "exit"}

LEMMA DoneStep == DoneInv /\ [Next]_vars => DoneInv'
<1> SUFFICES ASSUME DoneInv, [Next]_vars PROVE DoneInv'
  OBVIOUS
<1>0. Len(Intervals) \in Nat /\ Len(Intervals) > 0
  BY RunAssumption
<1> USE DEF DoneInv, Running, Goto
<1>1. CASE BindFails \/ SpawnWorkers \/ StartTimeLoop \/ Register \/ ServerStart
           \/ Signal \/ DestroyWorlds \/ TellWorkers \/ StopWorkers \/ AskTimeLoop
           \/ Unregister \/ FreeTimeLoop
  BY <1>0, <1>1 DEF BindFails, SpawnWorkers, StartTimeLoop, Register, ServerStart,
     Signal, DestroyWorlds, TellWorkers, StopWorkers, AskTimeLoop, Unregister, FreeTimeLoop
<1>2. CASE SetInterval
  BY <1>0, <1>2 DEF SetInterval
<1>3. CASE ClearInterval
  BY <1>0, <1>3 DEF ClearInterval
<1>4. CASE UNCHANGED <<main, done, plugin>>
  BY <1>4
<1>5. QED
  BY <1>1, <1>2, <1>3, <1>4
     DEF Next, MainStep, CallbackStep, HandlerStep, FindWorlds, UseWorlds,
     ReturnFromTimer, LeaveLoop, LoopInFreedBase, FireTimer, BeginHandler, MissBroadcast, WaitForCounter,
     HandlerUsesWorld, HandlerTimeout, EndHandler, serverVars, vars

(* What the server does to the time loop is a step of the time loop. *)
LEMMA StepIsLoopStep == DoneInv /\ [Next]_vars => [LoopNext]_loopVars
<1> SUFFICES ASSUME DoneInv, [Next]_vars PROVE [LoopNext]_loopVars
  OBVIOUS
<1> USE Threads
<1>1. CASE BindFails \/ SpawnWorkers \/ Register \/ ServerStart \/ DestroyWorlds
           \/ TellWorkers \/ StopWorkers \/ Unregister \/ Signal \/ FindWorlds \/ UseWorlds
           \/ LoopInFreedBase \/ BeginHandler \/ MissBroadcast \/ WaitForCounter
           \/ HandlerUsesWorld \/ EndHandler
  BY <1>1 DEF BindFails, SpawnWorkers, Register, ServerStart, DestroyWorlds,
     TellWorkers, StopWorkers, Unregister, Signal, FindWorlds, UseWorlds, LoopInFreedBase,
     BeginHandler, MissBroadcast, WaitForCounter, HandlerUsesWorld, EndHandler
<1>2. CASE StartTimeLoop \/ AskTimeLoop \/ FreeTimeLoop \/ LeaveLoop \/ ReturnFromTimer
  BY <1>2 DEF StartTimeLoop, AskTimeLoop, FreeTimeLoop, LeaveLoop,
     ReturnFromTimer, LoopNext
<1>3. CASE SetInterval
  <2>1. CASE PutTimer(Main)
    BY <2>1 DEF LoopNext
  <2>2. CASE main = "load" /\ AddTimer(Main, Intervals[done + 1])
    <3>1. Intervals[done + 1] \in Timer
      BY <2>2, RunAssumption DEF DoneInv
    <3>2. QED
      BY <2>2, <3>1 DEF LoopNext
  <2>3. QED
    BY <1>3, <2>1, <2>2 DEF SetInterval
<1>4. CASE ClearInterval
  BY <1>4 DEF ClearInterval, TakeTimer, LoopNext
<1>5. CASE HandlerTimeout
  BY <1>5, TimerAssumption DEF HandlerTimeout, TakeTimer, LoopNext
<1>6. ASSUME NEW t \in Timer, FireTimer(t) PROVE [LoopNext]_loopVars
  BY <1>6 DEF FireTimer, LoopNext
<1>7. CASE UNCHANGED vars
  BY <1>7 DEF vars
<1>8. QED
  BY <1>1, <1>2, <1>3, <1>4, <1>5, <1>6, <1>7
     DEF Next, MainStep, CallbackStep, HandlerStep
LEMMA Composition == Spec => LoopSpec /\ []DoneInv
<1>1. Init => LoopInit /\ DoneInv
  BY RunAssumption DEF Init, ServerInit, DoneInv, Running
<1>2. QED
  BY <1>1, DoneStep, StepIsLoopStep, PTL DEF Spec, LoopSpec

(* Server.c and main.c of the base plugin: ids name their timers while the *)
(* server starts, runs and stops.                                          *)
THEOREM ServerIdsAreSound == Spec => []IdsNameTimers
BY Composition, IdsAreSound, PTL

(* Server.c and main.c of the base plugin: no callback of a cleared        *)
(* interval, whatever the time loop's thread does while it is cleared.     *)
THEOREM ServerClearSilences == Spec => []ClearedIsSilent
BY Composition, ClearSilences, PTL

-----------------------------------------------------------------------------

(* The list of worlds is there while the main loop runs, and only then. *)
WorldsInv == worldList => main = "serve" /\ worlds = "live"

(* cdsurvival_ServerStart and cdsurvival_ServerStop: who finds the list of *)
(* worlds finds them alive.                                                *)
THEOREM ListIsOfLiveWorlds == Spec => []ListedWorldsLive
<1>1. Init => WorldsInv
  BY DEF Init, ServerInit, WorldsInv
<1>2. WorldsInv /\ [Next]_vars => WorldsInv'
  <2> SUFFICES ASSUME WorldsInv, [Next]_vars PROVE WorldsInv'
    OBVIOUS
  <2> USE DEF WorldsInv, Goto
  <2>1. CASE MainStep \/ Signal
    BY <2>1 DEF MainStep, BindFails, SpawnWorkers, StartTimeLoop, SetInterval,
       Register, ServerStart, Signal, Unlisted, DestroyWorlds, TellWorkers, StopWorkers,
       AskTimeLoop, ClearInterval, Unregister, FreeTimeLoop
  <2>2. CASE UNCHANGED <<main, worldList, worlds>>
    BY <2>2
  <2>3. QED
    BY <2>1, <2>2 DEF Next, CallbackStep, HandlerStep, FindWorlds, UseWorlds,
       ReturnFromTimer, LeaveLoop, LoopInFreedBase, FireTimer, BeginHandler, MissBroadcast, WaitForCounter,
       HandlerUsesWorld, HandlerTimeout, EndHandler, serverVars, vars
<1>3. WorldsInv => ListedWorldsLive
  BY DEF WorldsInv, ListedWorldsLive
<1>4. QED
  BY <1>1, <1>2, <1>3, PTL DEF Spec

-----------------------------------------------------------------------------

(* Which interval is next to be set, and next to be cleared. *)
NextSet == Intervals[done + 1]
NextCleared == Intervals[Len(Intervals) - done + 1]

(* The intervals have ids from the time they are set; the main thread is   *)
(* never between the two steps of a set or clear but of the next one; what *)
(* was cleared is freed; handlers end before the plugin does.              *)
HasAll == main \in Running \cup {"unload"} \/ (main = "destroy" /\ plugin = "loaded")

StillServing == {"serve", "destroyWorlds", "stopWorkers", "awaitWorkers"}

UnloadInv ==
  /\ main = "load" => \A i \in 1..done : Intervals[i] \in DOMAIN idOf
  /\ HasAll => \A i \in 1..Len(Intervals) : Intervals[i] \in DOMAIN idOf
  /\ main = "load" => doing[Main] \in {Idle, Putting(NextSet)}
  /\ main = "unload" => doing[Main] \in {Idle, Freeing(NextCleared)}
  /\ main \notin {"load", "unload"} => doing[Main] = Idle
  /\ main \in {"unload", "unregister"} =>
       \A i \in 1..(Len(Intervals) - done) : event[Intervals[i]] = "freed"
  /\ plugin = "closed" => \A i \in 1..Len(Intervals) : event[Intervals[i]] = "freed"
  /\ main \notin StillServing => handler = "idle"

(* Ids are kept and the freed stays freed, whoever takes a step. *)
LEMMA LoopKeeps ==
  ASSUME LoopTypeOK, [LoopNext]_loopVars
  PROVE  /\ \A t \in DOMAIN idOf : t \in DOMAIN idOf'
         /\ \A t \in Timer : event[t] = "freed" => event'[t] = "freed"
<1> USE DEF LoopTypeOK
<1>1. ASSUME NEW c \in Caller, NEW t \in Timer, AddTimer(c, t)
      PROVE  /\ DOMAIN idOf \subseteq DOMAIN idOf'
             /\ \A u \in Timer : event[u] = "freed" => event'[u] = "freed"
  BY <1>1 DEF AddTimer
<1>2. ASSUME NEW c \in Caller, PutTimer(c) \/ FreeTimer(c)
      PROVE  /\ DOMAIN idOf \subseteq DOMAIN idOf'
             /\ \A u \in Timer : event[u] = "freed" => event'[u] = "freed"
  BY <1>2 DEF PutTimer, Named, FreeTimer
<1>3. ASSUME NEW t \in Timer, Fire(t)
      PROVE  /\ DOMAIN idOf \subseteq DOMAIN idOf'
             /\ \A u \in Timer : event[u] = "freed" => event'[u] = "freed"
  BY <1>3 DEF Fire
<1>4. QED
  BY <1>1, <1>2, <1>3 DEF LoopNext, TakeTimer, RunTimeLoop, EndTimeLoop,
     StopTimeLoop, DestroyTimeLoop, Return, loopVars

(* The other threads leave the main thread's set or clear alone. *)
LEMMA HandlerKeeps ==
  ASSUME LoopTypeOK, HandlerTimeout PROVE doing'[Main] = doing[Main]
BY RunAssumption DEF LoopTypeOK, HandlerTimeout, AddTimer, PutTimer, TakeTimer, FreeTimer

LEMMA UnloadStep == LoopInv /\ DoneInv /\ UnloadInv /\ [Next]_vars => UnloadInv'
<1> SUFFICES ASSUME LoopInv, DoneInv, UnloadInv, [Next]_vars PROVE UnloadInv'
  OBVIOUS
<1>0. /\ Len(Intervals) \in Nat /\ Len(Intervals) > 0
      /\ \A i \in 1..Len(Intervals) : Intervals[i] \in Timer
      /\ Main \in Caller
  BY RunAssumption
<1>1. LoopTypeOK /\ LoopTypeOK'
  BY StepIsLoopStep, TypeStep DEF LoopInv
<1>2. /\ \A t \in DOMAIN idOf : t \in DOMAIN idOf'
      /\ \A t \in Timer : event[t] = "freed" => event'[t] = "freed"
  BY StepIsLoopStep, LoopKeeps, <1>1
<1>3. CASE BindFails \/ SpawnWorkers \/ StartTimeLoop \/ Register \/ ServerStart
           \/ Signal \/ DestroyWorlds \/ TellWorkers \/ StopWorkers \/ AskTimeLoop
           \/ Unregister \/ FreeTimeLoop
  <2>1. doing' = doing /\ idOf' = idOf /\ event' = event
    BY <1>3 DEF BindFails, SpawnWorkers, StartTimeLoop, Register, ServerStart,
       Signal, DestroyWorlds, TellWorkers, StopWorkers, AskTimeLoop, Unregister, FreeTimeLoop,
       RunTimeLoop, StopTimeLoop, DestroyTimeLoop, loopVars
  <2>2. main \notin {"load", "unload"} /\ (main' = "load" => done' = 0)
        /\ (main' = "unload" => done' = Len(Intervals))
    BY <1>3 DEF BindFails, SpawnWorkers, StartTimeLoop, Register, ServerStart,
       Signal, DestroyWorlds, TellWorkers, StopWorkers, AskTimeLoop, Unregister, FreeTimeLoop,
       Goto, DoneInv
  <2>3. HasAll' => HasAll
    BY <1>3 DEF BindFails, SpawnWorkers, StartTimeLoop, Register, ServerStart,
       Signal, DestroyWorlds, TellWorkers, StopWorkers, AskTimeLoop, Unregister, FreeTimeLoop,
       Goto, HasAll, Running, DoneInv
  <2>4. (main' = "unregister" => FALSE)
        /\ (plugin' = "closed" => plugin = "closed" \/ main = "unregister")
    BY <1>3 DEF BindFails, SpawnWorkers, StartTimeLoop, Register, ServerStart,
       Signal, DestroyWorlds, TellWorkers, StopWorkers, AskTimeLoop, Unregister, FreeTimeLoop, Goto
  <2>5. main' \notin StillServing => handler' = "idle"
    BY <1>3 DEF BindFails, SpawnWorkers, StartTimeLoop, Register, ServerStart,
       Signal, DestroyWorlds, TellWorkers, StopWorkers, AskTimeLoop, Unregister, FreeTimeLoop,
       Goto, AllStopped, StillServing, UnloadInv
  <2>6. QED
    BY <1>0, <2>1, <2>2, <2>3, <2>4, <2>5 DEF UnloadInv, DoneInv, StillServing
<1>4. CASE SetInterval
  <2>1. main = "load" /\ plugin' = plugin /\ handler' = handler /\ plugin = "absent"
    BY <1>4 DEF SetInterval, DoneInv
  <2>2. CASE AddTimer(Main, Intervals[done + 1]) /\ UNCHANGED <<main, done>>
    BY <1>0, <1>1, <2>1, <2>2 DEF AddTimer, UnloadInv, LoopTypeOK, HasAll, Running,
       NextSet
  <2>3. CASE PutTimer(Main) /\ done' = done + 1
             /\ main' = (IF done' = Len(Intervals) THEN "register" ELSE "load")
    <3>1. doing[Main] = Putting(NextSet)
      BY <2>1, <2>3 DEF PutTimer, UnloadInv, Idle
    <3>2. doing'[Main] = Idle /\ DOMAIN idOf' = DOMAIN idOf \cup {NextSet}
      BY <1>0, <1>1, <2>3, <3>1 DEF PutTimer, Named, Putting, LoopTypeOK
    <3>3. \A i \in 1..done' : Intervals[i] \in DOMAIN idOf'
      BY <1>2, <2>1, <2>3, <3>2 DEF UnloadInv, DoneInv, NextSet
    <3>4. QED
      BY <2>1, <2>3, <3>2, <3>3 DEF UnloadInv, HasAll, Running, StillServing
  <2>4. QED
    BY <1>4, <2>2, <2>3 DEF SetInterval
<1>5. CASE ClearInterval
  <2>1. main = "unload" /\ plugin' = plugin /\ handler' = handler
        /\ plugin # "closed" /\ done \in Nat /\ 0 < done /\ done <= Len(Intervals)
    BY <1>5 DEF ClearInterval, DoneInv
  <2>2. CASE TakeTimer(Main, idOf[NextCleared]) /\ UNCHANGED <<main, done>>
    <3>1. NextCleared \in DOMAIN idOf
      BY <1>0, <2>1 DEF UnloadInv, HasAll, NextCleared
    <3>2. callbacks[idOf[NextCleared]] = NextCleared
      BY <2>2, <3>1 DEF TakeTimer, LoopInv, MapInv, IdsAreNew
    <3>3. doing'[Main] = Freeing(NextCleared)
      BY <1>0, <1>1, <2>2, <3>2 DEF TakeTimer, LoopTypeOK
    <3>4. QED
      BY <1>2, <2>1, <2>2, <3>3 DEF TakeTimer, UnloadInv, HasAll, Running, NextCleared
  <2>3. CASE FreeTimer(Main) /\ done' = done - 1
             /\ main' = (IF done' = 0 THEN "unregister" ELSE "unload")
    <3>1. doing[Main] = Freeing(NextCleared)
      BY <2>1, <2>3 DEF FreeTimer, UnloadInv, Idle
    <3>2. doing'[Main] = Idle /\ idOf' = idOf /\ NextCleared \in Timer
          /\ event' = [event EXCEPT ![NextCleared] = "freed"]
      BY <1>0, <1>1, <2>1, <2>3, <3>1 DEF FreeTimer, Freeing, LoopTypeOK, NextCleared
    <3>3. \A i \in 1..(Len(Intervals) - done') : event'[Intervals[i]] = "freed"
      BY <1>0, <1>1, <2>1, <2>3, <3>2 DEF UnloadInv, NextCleared, LoopTypeOK
    <3>4. QED
      BY <2>1, <2>3, <3>2, <3>3 DEF UnloadInv, HasAll, Running, StillServing
  <2>4. QED
    BY <1>5, <2>2, <2>3 DEF ClearInterval, NextCleared
<1>6. ASSUME UNCHANGED <<main, done, plugin>>, doing'[Main] = doing[Main],
             main \notin StillServing => handler' = handler
      PROVE  UnloadInv'
  <2>1. NextSet' = NextSet /\ NextCleared' = NextCleared /\ (HasAll' <=> HasAll)
    BY <1>6 DEF NextSet, NextCleared, HasAll
  <2>2. \A n : (\A i \in 1..n : Intervals[i] \in DOMAIN idOf)
               => (\A i \in 1..n : Intervals[i] \in DOMAIN idOf')
    BY <1>2
  <2>3. /\ \A i \in 1..Len(Intervals) : event[Intervals[i]] = "freed"
                                        => event'[Intervals[i]] = "freed"
        /\ main \in {"unload", "unregister"} =>
             1..(Len(Intervals) - done) \subseteq 1..Len(Intervals)
    BY <1>0, <1>2 DEF DoneInv
  <2>4. QED
    BY <1>6, <2>1, <2>2, <2>3 DEF UnloadInv
<1>7. ASSUME CallbackStep \/ LeaveLoop \/ LoopInFreedBase \/ BeginHandler
             \/ MissBroadcast \/ WaitForCounter \/ HandlerStep \/ (\E t \in Timer : FireTimer(t))
      PROVE  UnloadInv'
  <2>1. UNCHANGED <<main, done, plugin>>
    BY <1>7 DEF CallbackStep, HandlerStep, FindWorlds, UseWorlds, ReturnFromTimer,
       LeaveLoop, LoopInFreedBase, FireTimer, BeginHandler, MissBroadcast, WaitForCounter, HandlerUsesWorld,
       HandlerTimeout, EndHandler, serverVars
  <2>2. doing'[Main] = doing[Main]
    BY <1>1, <1>7, HandlerKeeps DEF CallbackStep, HandlerStep, FindWorlds,
       UseWorlds, ReturnFromTimer, LeaveLoop, LoopInFreedBase, FireTimer, Fire,
       Return, EndTimeLoop, BeginHandler, MissBroadcast, WaitForCounter, HandlerUsesWorld, EndHandler, loopVars
  <2>3. main \notin StillServing => handler' = handler
    <3>1. main \notin StillServing => handler = "idle"
      BY DEF UnloadInv
    <3>2. QED
      BY <1>7, <3>1 DEF CallbackStep, HandlerStep, FindWorlds, UseWorlds,
         ReturnFromTimer, LeaveLoop, LoopInFreedBase, FireTimer, BeginHandler, MissBroadcast, WaitForCounter,
         Serving, StillServing, HandlerUsesWorld, HandlerTimeout, EndHandler, serverVars
  <2>4. QED
    BY <1>6, <2>1, <2>2, <2>3
<1>8. CASE UNCHANGED vars
  BY <1>6, <1>8 DEF vars, serverVars, loopVars
<1>9. QED
  BY <1>3, <1>4, <1>5, <1>7, <1>8 DEF Next, MainStep

(* CD_DestroyPlugin: after the base plugin was finalized and closed, no    *)
(* interval and no handler of it runs, or ever will.                       *)
THEOREM UnloadSilences == Spec => []UnloadedIsSilent
<1>1. Init => UnloadInv
  BY RunAssumption DEF Init, LoopInit, ServerInit, UnloadInv, HasAll, Running, StillServing
<1>2. LoopInv /\ DoneInv /\ UnloadInv => UnloadedIsSilent
  <2> SUFFICES ASSUME LoopInv, DoneInv, UnloadInv, plugin = "closed"
               PROVE  /\ current \notin PluginIntervals
                      /\ \A t \in PluginIntervals : event[t] = "freed"
                      /\ handler = "idle"
    BY DEF UnloadedIsSilent
  <2>1. \A t \in PluginIntervals : t \in Timer /\ event[t] = "freed"
    BY RunAssumption DEF UnloadInv, PluginIntervals
  <2>2. current \notin PluginIntervals
    BY <2>1, TimerAssumption DEF LoopInv, RunsWhatIsSet
  <2>3. handler = "idle"
    BY DEF UnloadInv, DoneInv, StillServing
  <2>4. QED
    BY <2>1, <2>2, <2>3
<1>3. QED
  BY <1>1, <1>2, UnloadStep, Composition, Invariant, PTL DEF Spec
=============================================================================
