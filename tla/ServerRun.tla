----------------------------- MODULE ServerRun -----------------------------
(***************************************************************************)
(* The life of the server (craftd.c, CD_RunServer, CD_StopServer and       *)
(* CD_DestroyServer of Server.c) with the base plugin it loads, on three   *)
(* threads: main, the thread of the time loop with the plugin's intervals, *)
(* and a worker that runs handlers.  Starting, the threads come before the *)
(* plugin and its worlds; stopping, the worlds go before the worker, and   *)
(* the plugin and the time loop's memory before the time loop's thread.    *)
(* A step that uses freed worlds or a freed base ends the run (crashed).   *)
(***************************************************************************)
EXTENDS TimeLoop, Sequences

CONSTANTS Main, Handler,        \* the callers of the time loop
          Intervals,            \* timeIncrease, timeUpdate, keepAlive
          WorldIntervals        \* those of them that read World.list

PluginIntervals == {Intervals[i] : i \in DOMAIN Intervals}

ASSUME RunAssumption ==
  /\ Caller = {Main, Handler} /\ Main # Handler
  /\ Intervals \in Seq(Timer) /\ Len(Intervals) > 0
  /\ PluginIntervals \subseteq Timer \ (Timeout \cup {KeepAlive})
  /\ WorldIntervals \subseteq PluginIntervals

VARIABLES
  main,       \* where the main thread is
  done,       \* the intervals that it has set, or cleared
  workers,    \* none, up or stopped
  plugin,     \* absent, loaded or closed (lt_dlclose)
  registered, \* the callbacks of the plugin in server->event.callbacks
  worldList,  \* server's dynamic has World.list
  worlds,     \* none, live or freed
  handler,    \* what the worker does: idle, inside a handler, or asleep or stuck for ever
  seen,       \* what the running callback found under World.list
  crashed

serverVars == <<main, done, workers, plugin, registered, worldList, worlds,
                handler, seen, crashed>>
vars == <<loopVars, serverVars>>

(* What CD_PluginInitialize registers and CD_PluginFinalize forgets. *)
Callbacks ==
  {"Server.start!", "Server.stop!", "Persistence.initialized",
   "Client.connect", "Client.process", "Client.processed", "Player.prelogin",
   "Player.login", "Player.logout", "Player.destroy", "Client.kick",
   "Client.disconnect", "Player.holdChange", "Player.inventoryCreative",
   "Player.dropItem"}
Forgotten == {"Player.prelogin", "Player.dropItem"}

ServerInit ==
  /\ main = "bind" /\ done = 0 /\ workers = "none" /\ plugin = "absent"
  /\ registered = {} /\ worldList = FALSE /\ worlds = "none"
  /\ handler = "idle" /\ seen = "unread" /\ crashed = FALSE

Init == LoopInit /\ ServerInit

Goto(from, to) == main = from /\ main' = to

-----------------------------------------------------------------------------
(* CD_RunServer *)

(* Any of the early returns: no thread was started, no plugin loaded. *)
BindFails ==
  /\ Goto("bind", "destroy")
  /\ UNCHANGED <<loopVars, done, workers, plugin, registered, worldList, worlds,
                 handler, seen, crashed>>

SpawnWorkers ==
  /\ Goto("bind", "runLoop") /\ workers' = "up"
  /\ UNCHANGED <<loopVars, done, plugin, registered, worldList, worlds, handler,
                 seen, crashed>>

StartTimeLoop ==
  /\ Goto("runLoop", "load") /\ RunTimeLoop
  /\ UNCHANGED <<done, workers, plugin, registered, worldList, worlds, handler,
                 seen, crashed>>

(* CD_LoadPlugin runs CD_PluginInitialize: three CD_SetInterval, each of   *)
(* which may fire before the next statement ...                            *)
SetInterval ==
  /\ main = "load"
  /\ \/ /\ AddTimer(Main, Intervals[done + 1])
        /\ UNCHANGED <<main, done>>
     \/ /\ PutTimer(Main)
        /\ done' = done + 1
        /\ main' = IF done' = Len(Intervals) THEN "register" ELSE "load"
  /\ UNCHANGED <<workers, plugin, registered, worldList, worlds, handler, seen,
                 crashed>>

(* ... and then the callbacks. *)
Register ==
  /\ Goto("register", "start")
  /\ plugin' = "loaded" /\ registered' = Callbacks
  /\ UNCHANGED <<loopVars, done, workers, worldList, worlds, handler, seen,
                 crashed>>

(* Server.start!: cdsurvival_ServerStart makes the worlds, then lists them. *)
ServerStart ==
  /\ Goto("start", "serve") /\ "Server.start!" \in registered
  /\ worlds' = "live" /\ worldList' = TRUE
  /\ UNCHANGED <<loopVars, done, workers, plugin, registered, handler, seen,
                 crashed>>

-----------------------------------------------------------------------------
(* CD_StopServer, in the signal handler of the main loop *)

(* Server.stop!: cdsurvival_ServerStop takes the list away (the variant    *)
(* does so after the worlds) ...                                           *)
UnlistedLate == worldList' = worldList
Unlisted == worldList' = FALSE
Signal ==
  /\ Goto("serve", "destroyWorlds") /\ "Server.stop!" \in registered
  /\ Unlisted
  /\ UNCHANGED <<loopVars, done, workers, plugin, registered, worlds, handler,
                 seen, crashed>>

(* ... and frees the worlds, whoever still uses them. *)
DestroyWorlds ==
  /\ Goto("destroyWorlds", "stopWorkers") /\ worlds' = "freed"
  /\ UNCHANGED <<loopVars, done, workers, plugin, registered, worldList, handler,
                 seen, crashed>>

(* CD_StopWorkers: the worker is told to take no more jobs and woken ...   *)
TellWorkers ==
  /\ Goto("stopWorkers", "awaitWorkers")
  /\ UNCHANGED <<loopVars, done, workers, plugin, registered, worldList, worlds,
                 handler, seen, crashed>>

(* ... and waited for until it has left its loop (the variant does not     *)
(* wait); CD_RunServer returns to main.                                    *)
AllStoppedAssumed == TRUE
AllStopped == handler = "idle" /\ doing[Handler] = Idle
StopWorkers ==
  /\ Goto("awaitWorkers", "destroy") /\ AllStopped /\ workers' = "stopped"
  /\ UNCHANGED <<loopVars, done, plugin, registered, worldList, worlds, handler,
                 seen, crashed>>

-----------------------------------------------------------------------------
(* CD_DestroyServer *)

(* The time loop's thread is asked to end; nobody waits for it. *)
AskTimeLoop ==
  /\ Goto("destroy", IF plugin = "loaded" THEN "unload" ELSE "freeLoop")
  /\ StopTimeLoop
  /\ UNCHANGED <<done, workers, plugin, registered, worldList, worlds, handler,
                 seen, crashed>>

(* CD_PluginFinalize: the intervals are cleared in the order they were set, *)
ClearInterval ==
  /\ main = "unload"
  /\ \/ /\ TakeTimer(Main, idOf[Intervals[Len(Intervals) - done + 1]])
        /\ UNCHANGED <<main, done>>
     \/ /\ FreeTimer(Main)
        /\ done' = done - 1
        /\ main' = IF done' = 0 THEN "unregister" ELSE "unload"
  /\ UNCHANGED <<workers, plugin, registered, worldList, worlds, handler, seen,
                 crashed>>

(* the callbacks unregistered but two, and the module is closed. *)
Unregister ==
  /\ Goto("unregister", "freeLoop")
  /\ registered' = registered \cap Forgotten /\ plugin' = "closed"
  /\ UNCHANGED <<loopVars, done, workers, worldList, worlds, handler, seen,
                 crashed>>

FreeTimeLoop ==
  /\ Goto("freeLoop", "exit") /\ DestroyTimeLoop
  /\ UNCHANGED <<done, workers, plugin, registered, worldList, worlds, handler,
                 seen, crashed>>

-----------------------------------------------------------------------------
(* The thread of the time loop *)

(* A callback starts; TimeIncrease and TimeUpdate have yet to look for the *)
(* worlds.                                                                 *)
FireTimer(t) ==
  /\ Fire(t) /\ seen' = "unread"
  /\ UNCHANGED <<main, done, workers, plugin, registered, worldList, worlds,
                 handler, crashed>>

(* CD_DynamicGet of World.list *)
FindWorlds ==
  /\ current \in WorldIntervals /\ seen = "unread"
  /\ seen' = IF worldList THEN "worlds" ELSE "nothing"
  /\ UNCHANGED <<loopVars, main, done, workers, plugin, registered, worldList,
                 worlds, handler, crashed>>

(* CD_LIST_FOREACH over what was found: no worlds, no iteration. *)
UseWorlds ==
  /\ current \in WorldIntervals /\ seen = "worlds"
  /\ seen' = "nothing" /\ crashed' = (worlds = "freed")
  /\ UNCHANGED <<loopVars, main, done, workers, plugin, registered, worldList,
                 worlds, handler>>

ReturnFromTimer ==
  /\ Return /\ (current \in WorldIntervals => seen = "nothing")
  /\ UNCHANGED serverVars

(* event_base_loop sees that it was asked to leave. *)
LeaveLoop == EndTimeLoop /\ UNCHANGED serverVars

(* The thread goes on in a base that CD_DestroyTimeLoop has freed. *)
LoopInFreedBase ==
  /\ ~base /\ loop = "looping" /\ main # "exit" /\ crashed' = TRUE
  /\ UNCHANGED <<loopVars, main, done, workers, plugin, registered, worldList,
                 worlds, handler, seen>>

-----------------------------------------------------------------------------
(* A worker: clients come while the main loop runs, their jobs may outlive it *)

Serving == workers = "up" /\ main \in {"serve", "destroyWorlds", "stopWorkers"}
Handling == handler \in {"busy", "used"}

BeginHandler ==
  /\ Serving /\ handler = "idle" /\ "Client.process" \in registered
  /\ handler' = "busy"
  /\ UNCHANGED <<loopVars, main, done, workers, plugin, registered, worldList,
                 worlds, seen, crashed>>

(* A handler of a client that has a player uses the player's world. *)
HandlerUsesWorld ==
  /\ handler = "busy" /\ handler' = "used" /\ crashed' = (worlds = "freed")
  /\ UNCHANGED <<loopVars, main, done, workers, plugin, registered, worldList,
                 worlds, seen>>

(* The API that plugins have: timeouts are set and cleared by handlers. *)
HandlerTimeout ==
  /\ Handling
  /\ \/ \E t \in Timeout : AddTimer(Handler, t)
     \/ PutTimer(Handler)
     \/ \E t \in Timeout \cap DOMAIN idOf : TakeTimer(Handler, idOf[t])
     \/ FreeTimer(Handler)
  /\ UNCHANGED serverVars

EndHandler ==
  /\ Handling /\ doing[Handler] = Idle /\ handler' = "idle"
  /\ UNCHANGED <<loopVars, main, done, workers, plugin, registered, worldList,
                 worlds, seen, crashed>>

(* The worker saw no jobs before it was told and waits after the broadcast *)
(* (module WorkerPool has the steps): nobody wakes it again.               *)
MissBroadcast ==
  /\ main = "awaitWorkers" /\ handler = "idle" /\ handler' = "asleep"
  /\ UNCHANGED <<loopVars, main, done, workers, plugin, registered, worldList,
                 worlds, seen, crashed>>

(* A job of a disconnect waits for the client's counter of jobs, which a   *)
(* dropped Connect job has taken below zero, to 255 (ClientLifecycle).     *)
WaitForCounter ==
  /\ Serving /\ handler = "idle" /\ handler' = "stuck"
  /\ UNCHANGED <<loopVars, main, done, workers, plugin, registered, worldList,
                 worlds, seen, crashed>>

MainStep ==
  \/ BindFails \/ SpawnWorkers \/ StartTimeLoop \/ SetInterval \/ Register
  \/ ServerStart \/ DestroyWorlds \/ TellWorkers \/ StopWorkers \/ AskTimeLoop
  \/ ClearInterval \/ Unregister \/ FreeTimeLoop
CallbackStep == FindWorlds \/ UseWorlds \/ ReturnFromTimer
HandlerStep == HandlerUsesWorld \/ HandlerTimeout \/ EndHandler

Next ==
  /\ ~crashed
  /\ \/ MainStep \/ Signal
     \/ CallbackStep \/ LeaveLoop \/ LoopInFreedBase
     \/ \E t \in Timer : FireTimer(t)
     \/ BeginHandler \/ HandlerStep \/ MissBroadcast \/ WaitForCounter

(* Threads run; event_base_loop looks for the request to leave in every    *)
(* round, however many timers are due.                                     *)
Spec ==
  /\ Init /\ [][Next]_vars
  /\ WF_vars(~crashed /\ MainStep)
  /\ WF_vars(~crashed /\ CallbackStep)
  /\ SF_vars(~crashed /\ LeaveLoop)
  /\ WF_vars(~crashed /\ HandlerStep)

-----------------------------------------------------------------------------

(* Once the plugin was closed its code is not entered: no interval of it   *)
(* runs or is due, and no handler of it is in progress (main.c:233-265,    *)
(* Plugin.c:98).                                                           *)
UnloadedIsSilent ==
  plugin = "closed" =>
    /\ current \notin PluginIntervals
    /\ \A t \in PluginIntervals : event[t] = "freed"
    /\ handler = "idle"

(* Who looks for World.list finds worlds that live (main.c:150-156): the   *)
(* list is taken out of the server before they are freed.                  *)
ListedWorldsLive == worldList => worlds = "live"

(* After the signal the server comes to its end, whatever callbacks of the *)
(* time loop and handlers run then, or CD_StopWorker spins for a worker    *)
(* that does not come back (Worker.c:220): one that missed the broadcast,  *)
(* or waits for a counter that never reaches zero (Worker.c:174-185); or   *)
(* the run has met freed worlds or a freed base, which end it too. Nothing *)
(* else keeps the main thread: not the timers it deletes while they run    *)
(* again and again, and not the handlers that set and clear timeouts.      *)
WorkerLost == main = "awaitWorkers" /\ handler \in {"asleep", "stuck"}
ShutdownEnds == main = "destroyWorlds" ~> (main = "exit" \/ WorkerLost \/ crashed)
=============================================================================
