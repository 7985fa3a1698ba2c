------------------------------ MODULE EventSystem ------------------------------
(***************************************************************************)
(* The callbacks of one event (src/Event.c, the CD_EventDispatch macros of *)
(* Event.h): the main thread registers and unregisters callbacks while the *)
(* plugins come and go, the workers and the libevent threads dispatch. The *)
(* callbacks are a CDList in order of priority (ListSpec); a dispatch      *)
(* holds its read lock from the first callback to the last. Before and     *)
(* after it come the dispatches of two other events of the same form.      *)
(***************************************************************************)
EXTENDS Integers, Sequences, FiniteSets, SequencesExt

CONSTANTS
    Function,       \* callback functions
    Priority,       \* the priority each is registered with
    Thread,         \* the threads that dispatch the event
    MaxCallbacks,   \* bound: callbacks registered at one time
    MaxDispatches   \* bound: dispatches of each thread

ASSUME EventAssumption ==
    /\ Priority \in [Function -> Int]
    /\ MaxCallbacks \in Nat
    /\ MaxDispatches \in Nat

VARIABLES
    list,       \* what the hash holds for the event: "none", a "live" or "freed" list
    callbacks,  \* the functions of the list
    removed,    \* what CD_EventUnregister returned
    plugin,     \* what the main thread is about to do
    func,       \* and for which callback
    at,         \* where each thread is in CD_EventDispatch
    called,     \* the callbacks of its latest dispatch
    interrupted,\* whether one of them returned false
    dispatches, \* the dispatches it began
    crashed     \* a freed list was used

main == <<plugin, func>>
dispatch == <<at, called, interrupted, dispatches>>
vars == <<list, callbacks, removed, main, dispatch, crashed>>

\* The dispatches that hold the read lock; in the variant, the ones that were
\* interrupted too, as if they broke out of the loop as out of any C loop.
ReadersLeft == {t \in Thread : at[t] = "call" \/ interrupted[t]}
Readers == {t \in Thread : at[t] = "call"}

Init ==
    /\ list = "none"
    /\ callbacks = <<>>
    /\ removed = <<>>
    /\ plugin = "idle"
    /\ func \in Function
    /\ at = [t \in Thread |-> "idle"]
    /\ called = [t \in Thread |-> <<>>]
    /\ interrupted = [t \in Thread |-> FALSE]
    /\ dispatches = [t \in Thread |-> 0]
    /\ crashed = FALSE

Callbacks == INSTANCE ListSpec
    WITH Value <- Function, Rank <- Priority, items <- callbacks, result <- removed

\* A change of the list waits for its readers; in the variant, a removal only.
RemovalLocked == plugin = "push" \/ Readers = {}
WriteLocked == Readers = {}

\* Freed memory still holds the old list, or the access kills the process.
UseList == IF list = "freed" THEN crashed' \in BOOLEAN ELSE UNCHANGED crashed

------------------------------------------------------------------------------
(* The main thread: CD_PluginInitialize and CD_PluginFinalize of a plugin *)

\* The list is looked up, and created when there is none.
Created == IF list = "none" THEN "live" ELSE list

Register(f) ==
    /\ plugin = "idle"
    /\ Len(callbacks) < MaxCallbacks
    /\ list' = Created
    /\ plugin' = "push"
    /\ func' = f
    /\ UNCHANGED <<callbacks, removed, dispatch, crashed>>

\* CD_ListSortedPush; the variant appends.
PushLast == Callbacks!Push(func)
Push == Callbacks!SortedPush(func)

RegisterPush ==
    /\ plugin = "push"
    /\ WriteLocked
    /\ Push
    /\ UseList
    /\ plugin' = "idle"
    /\ UNCHANGED <<list, func, dispatch>>

Unregister(f) ==
    /\ plugin = "idle"
    /\ list # "none"
    /\ plugin' = "delete"
    /\ func' = f
    /\ UNCHANGED <<list, callbacks, removed, dispatch, crashed>>

UnregisterDelete ==
    /\ plugin = "delete"
    /\ WriteLocked
    /\ Callbacks!DeleteAll({func})
    /\ UseList
    /\ plugin' = "check"
    /\ UNCHANGED <<list, func, dispatch>>

\* CD_ListLength decides whether the list is destroyed,
UnregisterCheck ==
    /\ plugin = "check"
    /\ UseList
    /\ plugin' = IF callbacks = <<>> THEN "destroy" ELSE "idle"
    /\ UNCHANGED <<list, callbacks, removed, func, dispatch>>

\* which leaves the pointer to it in the hash.
UnregisterDestroy ==
    /\ plugin = "destroy"
    /\ WriteLocked
    /\ UseList
    /\ list' = "freed"
    /\ plugin' = "idle"
    /\ UNCHANGED <<callbacks, removed, func, dispatch>>

------------------------------------------------------------------------------
(* CD_EventDispatch *)

Goto(t, from, to) == at[t] = from /\ at' = [at EXCEPT ![t] = to]

Dispatch(t) ==
    /\ Goto(t, "idle", "get")
    /\ dispatches[t] < MaxDispatches
    /\ dispatches' = [dispatches EXCEPT ![t] = @ + 1]
    /\ called' = [called EXCEPT ![t] = <<>>]
    /\ interrupted' = [interrupted EXCEPT ![t] = FALSE]
    /\ UNCHANGED <<list, callbacks, removed, main, crashed>>

\* CD_HashGet
GetList(t) ==
    /\ Goto(t, "get", IF list = "none" THEN "idle" ELSE "start")
    /\ UNCHANGED <<list, callbacks, removed, main, called, interrupted, dispatches,
                   crashed>>

\* CD_LIST_FOREACH looks at the length and locks; an empty list is left at once.
StartIterating(t) ==
    /\ Goto(t, "start", IF callbacks = <<>> THEN "idle" ELSE "call")
    /\ UseList
    /\ UNCHANGED <<list, callbacks, removed, main, called, interrupted, dispatches>>

\* The loop ends behind the last callback and behind one that returned false. The
\* variants do not look at the result, or leave the last one out.
ContinuesAnyway(t, go) == Len(called[t]) + 1 < Len(callbacks)
ContinuesBeforeLast(t, go) == Len(called[t]) + 2 < Len(callbacks) /\ go
Continues(t, go) == Len(called[t]) + 1 < Len(callbacks) /\ go

Call(t, go) ==
    /\ Goto(t, "call", IF Continues(t, go) THEN "call" ELSE "idle")
    /\ called' = [called EXCEPT ![t] = Append(@, callbacks[Len(@) + 1])]
    /\ interrupted' = [interrupted EXCEPT ![t] = ~go]
    /\ UNCHANGED <<list, callbacks, removed, main, dispatches, crashed>>

------------------------------------------------------------------------------
MainStep == RegisterPush \/ UnregisterDelete \/ UnregisterCheck \/ UnregisterDestroy
DispatchStep(t) == GetList(t) \/ StartIterating(t) \/ \E go \in BOOLEAN : Call(t, go)

Next ==
    /\ ~crashed
    /\ \/ \E f \in Function : Register(f) \/ Unregister(f)
       \/ MainStep
       \/ \E t \in Thread : Dispatch(t) \/ DispatchStep(t)

Spec == Init /\ [][Next]_vars

\* Callbacks return, and every thread runs; nothing has to be registered or dispatched.
Fairness ==
    /\ WF_vars(~crashed /\ MainStep)
    /\ \A t \in Thread : WF_vars(~crashed /\ DispatchStep(t))

FairSpec == Spec /\ Fairness

------------------------------------------------------------------------------
(* Properties *)

\* "bigger means less important, smaller means more important" (Event.h:164): a
\* dispatch calls the callbacks in the order of their priorities, whatever was
\* registered and unregistered before and while it ran.
InPriorityOrder ==
    \A t \in Thread : \A i, j \in DOMAIN called[t] :
        i < j => Priority[called[t][i]] <= Priority[called[t][j]]

\* A dispatch sees the list as it was when it began: what it has called is the list
\* up to here, so no callback is skipped or called twice because another thread
\* registered or unregistered one in the meantime, and it goes on behind none that
\* returned false (Event.h:82-91).
SeesOneList ==
    \A t \in Readers :
        called[t] = SubSeq(callbacks, 1, Len(called[t])) /\ ~interrupted[t]

\* A dispatch that comes to its end has called every callback that is registered, unless
\* one of them has stopped it (Event.h:75-92).
CallsAll ==
    [][\A t \in Thread : at[t] = "call" /\ at'[t] = "idle" =>
           interrupted'[t] \/ called'[t] = callbacks]_vars

\* A registration that waits for the list gets it once the dispatches that run are
\* over: no way out of a dispatch leaves the list locked (Event.h:87-90).
RegistrationEnds == plugin \in {"push", "delete", "destroy"} ~> (plugin = "idle" \/ crashed)

\* "Unregister the event with the passed name, unregisters only the passed callback
\* or every callback" (Event.h:173): what is left of the event can still be used.
EventStaysUsable == ~crashed
==============================================================================
