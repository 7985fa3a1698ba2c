------------------------------- MODULE BasePlugin ------------------------------
(***************************************************************************)
(* The base plugin and the plugins that serve it: the session of one       *)
(* player, his inventory, the clock of a world, the plugins that give it   *)
(* chunks and a column of a generated chunk share no state. A behaviour    *)
(* runs one of them, the others rest.                                      *)
(***************************************************************************)
EXTENDS ChunkView, Inventory, WorldClock, ChunkSource, ChunkColumn

VARIABLE part

Init ==
    /\ part \in {"view", "inventory", "clock", "source", "column"}
    /\ InventoryInit
    /\ ClockInit
    /\ part # "clock" => time = 0 /\ rate = CHOOSE r \in Rates : TRUE
    /\ ViewInit
    /\ part # "view" => spawn = CHOOSE s \in Spawns : TRUE
    /\ ColumnInit
    /\ part # "column" => height = CHOOSE h \in Heights : TRUE
    /\ SourceInit
    /\ part # "source" => (toLoad = CHOOSE plugins \in Loads : TRUE) /\ level /\ damaged = [c \in Chunk |-> {}]

View == part = "view" /\ ViewNext /\ UNCHANGED <<part, inventoryVars, clockVars, sourceVars, columnVars>>
Carry == part = "inventory" /\ InventoryNext /\ UNCHANGED <<part, viewVars, clockVars, sourceVars, columnVars>>
Tick == part = "clock" /\ ClockNext /\ UNCHANGED <<part, viewVars, inventoryVars, sourceVars, columnVars>>
Source == part = "source" /\ SourceNext /\ UNCHANGED <<part, viewVars, inventoryVars, clockVars, columnVars>>
Column == part = "column" /\ ColumnNext /\ UNCHANGED <<part, viewVars, inventoryVars, clockVars, sourceVars>>

vars == <<part, viewVars, inventoryVars, clockVars, sourceVars, columnVars>>
Next == View \/ Carry \/ Tick \/ Source \/ Column

\* The timer is an interval of a loop that runs as long as the server does.
Spec == Init /\ [][Next]_vars /\ WF_vars(Tick)

\* DayAndNight, of the behaviours in which the clock runs (main.c:46-72).
ClockRuns == part = "clock" => DayAndNight
==============================================================================
