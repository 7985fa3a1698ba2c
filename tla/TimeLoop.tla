------------------------------ MODULE TimeLoop ------------------------------
(***************************************************************************)
(* The time loop (TimeLoop.c): a second libevent base whose thread calls   *)
(* the timeouts and intervals that other threads set and clear.  A timer   *)
(* is set in two steps, it is added to the base and then put into the map  *)
(* of callbacks under a new id, and cleared in two steps, it is taken out  *)
(* of the map and then deleted and freed.  libevent waits in event_del for *)
(* a callback that the loop's thread is running.                           *)
(***************************************************************************)
EXTENDS Integers

CONSTANTS Caller,    \* threads that set and clear timers; the loop's is none
          Timer,     \* the events that are ever allocated
          Timeout,   \* those without EV_PERSIST
          KeepAlive, \* the interval CD_CreateTimeLoop sets
          FirstId,   \* INT_MIN in the program
          NoTimer

ASSUME TimerAssumption ==
  /\ Timeout \subseteq Timer
  /\ KeepAlive \in Timer \ Timeout
  /\ NoTimer \notin Timer
  /\ FirstId \in Int

VARIABLES
  last,       \* CDTimeLoop.last
  callbacks,  \* CDTimeLoop.callbacks: ids to events
  event,      \* what became of each event: unset, armed, fired or freed
  idOf,       \* the ids that were returned, by event
  current,    \* the event whose callback the loop's thread is in
  doing,      \* what each caller is in the middle of
  loop,       \* the loop's thread: unborn, looping or ended
  exitAsked,  \* event_base_loopexit was called
  base        \* event.base has not been freed

loopVars == <<last, callbacks, event, idOf, current, doing, loop, exitAsked,
              base>>

Idle == [op |-> "idle", timer |-> NoTimer]
Putting(t) == [op |-> "put", timer |-> t]
Freeing(t) == [op |-> "free", timer |-> t]

(* The id after l: -1 is passed over, and with it the next number returned *)
(* is 0 (the code skips where last + 1 = 0, not where last = 0).           *)
NewId(l) == IF l + 1 = 0 THEN l + 1 ELSE l


(* CD_MapDelete takes the id away; the variant only looks it up. *)
WithoutIdKept(id) == callbacks
WithoutId(id) == [i \in DOMAIN callbacks \ {id} |-> callbacks[i]]
Named(t, id) == [u \in DOMAIN idOf \cup {t} |-> IF u = t THEN id ELSE idOf[u]]
WithId(id, t) == [i \in DOMAIN callbacks \cup {id} |->
                    IF i = id THEN t ELSE callbacks[i]]

(* CD_CreateTimeLoop, with the interval that keeps the loop alive. *)
LoopInit ==
  /\ last = NewId(FirstId) + 1
  /\ callbacks = [i \in {NewId(FirstId)} |-> KeepAlive]
  /\ event = [t \in Timer |-> IF t = KeepAlive THEN "armed" ELSE "unset"]
  /\ idOf = [t \in {KeepAlive} |-> NewId(FirstId)]
  /\ current = NoTimer
  /\ doing = [c \in Caller |-> Idle]
  /\ loop = "unborn"
  /\ exitAsked = FALSE
  /\ base = TRUE

(* CD_SetTimeout and CD_SetInterval up to the spin lock: the event may     *)
(* fire from here.                                                         *)
AddTimer(c, t) ==
  /\ base /\ doing[c] = Idle /\ event[t] = "unset"
  /\ event' = [event EXCEPT ![t] = "armed"]
  /\ doing' = [doing EXCEPT ![c] = Putting(t)]
  /\ UNCHANGED <<last, callbacks, idOf, current, loop, exitAsked, base>>

(* The rest of them, under the spin lock. *)
PutTimer(c) ==
  /\ doing[c].op = "put"
  /\ LET t == doing[c].timer
         id == NewId(last)
     IN /\ callbacks' = WithId(id, t)
        /\ idOf' = Named(t, id)
        /\ last' = id + 1
  /\ doing' = [doing EXCEPT ![c] = Idle]
  /\ UNCHANGED <<event, current, loop, exitAsked, base>>

(* CD_MapDelete of CD_ClearTimeout and CD_ClearInterval. *)
TakeTimer(c, id) ==
  /\ doing[c] = Idle /\ id \in DOMAIN callbacks
  /\ callbacks' = WithoutId(id)
  /\ doing' = [doing EXCEPT ![c] = Freeing(callbacks[id])]
  /\ UNCHANGED <<last, event, idOf, current, loop, exitAsked, base>>

(* event_del of another thread returns when the callback has.              *)
MayDelete(t) == current # t

(* evtimer_del and event_free of the event that was taken out; the variant *)
(* frees the event without deleting it first.                              *)
FreeTimerUndeleted(c) ==
  /\ base /\ doing[c].op = "free"
  /\ event' = [event EXCEPT ![doing[c].timer] = "freed"]
  /\ doing' = [doing EXCEPT ![c] = Idle]
  /\ UNCHANGED <<last, callbacks, idOf, current, loop, exitAsked, base>>
FreeTimer(c) ==
  /\ base /\ doing[c].op = "free" /\ MayDelete(doing[c].timer)
  /\ event' = [event EXCEPT ![doing[c].timer] = "freed"]
  /\ doing' = [doing EXCEPT ![c] = Idle]
  /\ UNCHANGED <<last, callbacks, idOf, current, loop, exitAsked, base>>

(* The thread of the loop enters CD_RunTimeLoop. *)
RunTimeLoop ==
  /\ loop = "unborn" /\ loop' = "looping"
  /\ UNCHANGED <<last, callbacks, event, idOf, current, doing, exitAsked, base>>

(* A timer is due: libevent takes a timeout out of its heap and keeps an   *)
(* interval, and calls it.                                                 *)
Fire(t) ==
  /\ base /\ loop = "looping" /\ current = NoTimer /\ event[t] = "armed"
  /\ current' = t
  /\ event' = IF t \in Timeout THEN [event EXCEPT ![t] = "fired"] ELSE event
  /\ UNCHANGED <<last, callbacks, idOf, doing, loop, exitAsked, base>>

(* The callback returns. *)
Return ==
  /\ current # NoTimer /\ current' = NoTimer
  /\ UNCHANGED <<last, callbacks, event, idOf, doing, loop, exitAsked, base>>

(* CD_StopTimeLoop: the loop is told to leave when its callbacks are done; *)
(* the variant does not tell it.                                           *)
AskToLeaveNot == exitAsked' = exitAsked
AskToLeave == exitAsked' = TRUE
StopTimeLoop ==
  /\ base
  /\ AskToLeave
  /\ UNCHANGED <<last, callbacks, event, idOf, current, doing, loop, base>>

(* event_base_loop returns. *)
EndTimeLoop ==
  /\ base /\ loop = "looping" /\ exitAsked /\ current = NoTimer
  /\ loop' = "ended"
  /\ UNCHANGED <<last, callbacks, event, idOf, current, doing, exitAsked, base>>

(* CD_DestroyTimeLoop; the thread is detached and nobody waits for it. *)
DestroyTimeLoop ==
  /\ base /\ base' = FALSE /\ AskToLeave
  /\ UNCHANGED <<last, callbacks, event, idOf, current, doing, loop>>

LoopNext ==
  \/ \E c \in Caller : \/ \E t \in Timer : AddTimer(c, t)
                       \/ PutTimer(c)
                       \/ \E id \in DOMAIN callbacks : TakeTimer(c, id)
                       \/ FreeTimer(c)
  \/ RunTimeLoop \/ EndTimeLoop \/ StopTimeLoop \/ DestroyTimeLoop
  \/ \E t \in Timer : Fire(t)
  \/ Return

LoopSpec == LoopInit /\ [][LoopNext]_loopVars

-----------------------------------------------------------------------------

(* Types: ids are integers, and the map holds events of the loop. *)
LoopTypeOK ==
  /\ last \in Int
  /\ DOMAIN callbacks \subseteq Int
  /\ \A id \in DOMAIN callbacks : callbacks[id] \in Timer
  /\ event \in [Timer -> {"unset", "armed", "fired", "freed"}]
  /\ DOMAIN idOf \subseteq Timer
  /\ \A t \in DOMAIN idOf : idOf[t] \in Int
  /\ current \in Timer \cup {NoTimer}
  /\ doing \in [Caller -> {Idle} \cup {Putting(t) : t \in Timer}
                                 \cup {Freeing(t) : t \in Timer}]
  /\ loop \in {"unborn", "looping", "ended"}
  /\ exitAsked \in BOOLEAN /\ base \in BOOLEAN

Cleared(t) == event[t] = "freed" \/ \E c \in Caller : doing[c] = Freeing(t)

(* An id that was given out names its own timer as long as that one may    *)
(* fire, and never another: also not when the timer has fired or was       *)
(* cleared, so that an id which a thread kept cannot clear a later timer.  *)
(* What the map holds was not freed, so that no clear frees a timer twice  *)
(* (TimeLoop.c:118, 127). Among the ids is 0, which is also what a failure *)
(* returns (TimeLoop.c:110).                                               *)
IdsNameTimers ==
  /\ \A id \in DOMAIN callbacks :
       LET t == callbacks[id] IN ~Cleared(t) /\ t \in DOMAIN idOf /\ idOf[t] = id
  /\ \A t \in DOMAIN idOf :
       /\ event[t] = "armed" /\ ~Cleared(t) => idOf[t] \in DOMAIN callbacks
       /\ idOf[t] \in DOMAIN callbacks => callbacks[idOf[t]] = t

(* "Create an event that will run after the given seconds and delete       *)
(* itself after that" (TimeLoop.h:80): a timeout whose callback has        *)
(* returned is not in the map any more.                                    *)
FiredTimeoutsGo ==
  \A id \in DOMAIN callbacks :
    LET t == callbacks[id] IN event[t] = "fired" => current = t

(* The callback of a timer that was cleared is not running and never runs  *)
(* again, although it may have been due while it was cleared.              *)
ClearedIsSilent == \A t \in Timer : event[t] = "freed" => current # t
=============================================================================
