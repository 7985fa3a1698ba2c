------------------------------ MODULE ChunkSource ------------------------------
(***************************************************************************)
(* Where worlds and chunks come from: plugins that CD_LoadPlugins loads in *)
(* the order of the configuration and that answer World.create,            *)
(* World.chunk, Mapgen.level and Mapgen.chunk. The persistence plugin      *)
(* takes what was saved, if all of it is sound, and asks the generators    *)
(* otherwise. Callbacks of one priority stand in the order opposite to     *)
(* their registration (EventSystem), and a dispatch ends when one returns  *)
(* false. Handlers only read what is shared. Another generator than those  *)
(* of the repository fills all of a chunk or nothing, fails or not, and    *)
(* returns true or false.                                                  *)
(***************************************************************************)
EXTENDS Integers, Sequences, SequencesExt

CONSTANTS
    Loads,      \* values of server.plugins.load
    Chunk,
    NoWorld

ASSUME SourceAssumption == Loads \subseteq Seq({"nbt", "classic", "trivial", "other"})

VARIABLES
    toLoad,     \* plugins yet to load
    persistence,\* the callbacks of the nbt plugin are registered
    generators, \* the plugins registered for Mapgen.level and Mapgen.chunk
    level,      \* level.dat is there and has what is wanted
    damaged,    \* the arrays of a chunk's file that are missing or of a wrong size
    spawnFrom,      \* world->spawnPosition: NoWorld before the world, or where it is from
    answer,     \* the latest chunk: its status and where its arrays are from
    broken      \* a callback wrote somewhere else

sourceVars == <<toLoad, persistence, generators, level, damaged, spawnFrom, answer, broken>>

Arrays == {"heightMap", "blocks", "data", "blockLight", "skyLight"}

Whole(from) == [a \in Arrays |-> from]
NoAnswer == [chunk |-> NoWorld, status |-> "ok", arrays |-> Whole("unset")]

SourceInit ==
    /\ toLoad \in Loads
    /\ persistence = FALSE
    /\ generators = <<>>
    /\ level \in BOOLEAN
    /\ damaged \in [Chunk -> SUBSET Arrays]
    /\ spawnFrom = NoWorld
    /\ answer = NoAnswer
    /\ broken = FALSE

------------------------------------------------------------------------------
(* CD_LoadPlugins *)

\* A plugin registers its callbacks; one that cannot be opened is passed over.
Initialize(plugin) ==
    /\ persistence' = (persistence \/ plugin = "nbt")
    /\ generators' = IF plugin = "nbt" THEN generators ELSE <<plugin>> \o generators

LoadPlugin ==
    /\ toLoad # <<>>
    /\ toLoad' = Tail(toLoad)
    /\ \/ Initialize(Head(toLoad))
       \/ UNCHANGED <<persistence, generators>>
    /\ UNCHANGED <<level, damaged, spawnFrom, answer, broken>>

------------------------------------------------------------------------------
(* World.create *)

\* Mapgen.level: both generators set the spawn position and return true; another plugin
\* may return false before it or they did.
GenerateLevel ==
    {from \in {"generated", "unset"} :
        /\ from = "generated" => generators # <<>>
        /\ from = "unset" => generators = <<>> \/ Head(generators) = "other"}

CreateWorld ==
    /\ toLoad = <<>> /\ spawnFrom = NoWorld
    /\ spawnFrom' \in IF ~persistence THEN {"unset"} ELSE IF level THEN {"stored"} ELSE GenerateLevel
    /\ UNCHANGED <<toLoad, persistence, generators, level, damaged, answer, broken>>

------------------------------------------------------------------------------
(* World.chunk *)

\* Of the five arrays each must be there in its size. The variant looks at one.
ValidHeightMap(c) == "heightMap" \notin damaged[c]
ValidChunk(c) == damaged[c] = {}

\* Copied array by array, from whatever the file has.
Stored(c) == [a \in Arrays |-> IF a \in damaged[c] THEN "damaged" ELSE "stored"]

\* What a callback makes of the chunk, and what it returns: the classic generator clears the
\* chunk and fills it; the trivial one takes the parameters of Mapgen.chunk without its
\* first one, writes somewhere else and returns false.
Filled(result) == [result EXCEPT !.arrays = Whole("generated")]
WithStatus(result, status) == [result EXCEPT !.status = status]
Outcomes(generator, result) ==
    CASE generator = "classic" -> {Filled(result)} \X {TRUE}
      [] generator = "trivial" -> {WithStatus(result, "wild")} \X {FALSE}
      [] OTHER -> {result, Filled(result), WithStatus(result, "failed")} \X BOOLEAN

\* Mapgen.chunk: the next callback, if none has returned false yet.
Call(generator, state) == IF state[2] THEN Outcomes(generator, state[1]) ELSE {state}

GenerateChunk(result) ==
    LET after[i \in 0..Len(generators)] ==
            IF i = 0 THEN {<<result, TRUE>>}
            ELSE UNION {Call(generators[i], state) : state \in after[i - 1]}
    IN  {state[1] : state \in after[Len(generators)]}

\* memory is what the chunk held when it was allocated.
GetChunk(c, memory) ==
    LET fresh == [chunk |-> c, status |-> "ok", arrays |-> Whole(memory)]
    IN  /\ spawnFrom # NoWorld
        /\ \E result \in IF ~persistence THEN {fresh}
                         ELSE IF ValidChunk(c) THEN {[fresh EXCEPT !.arrays = Stored(c)]}
                         ELSE GenerateChunk(fresh) :
              /\ broken' = (result.status = "wild")
              /\ answer' = IF broken' THEN answer ELSE result
        /\ UNCHANGED <<toLoad, persistence, generators, level, damaged, spawnFrom>>

\* SV_WorldGetChunk clears the chunk it allocates, cdsurvival_SendChunk does not.
WorldGetChunk(c) == GetChunk(c, "zero")
SendChunk(c) == GetChunk(c, "unset")

SourceNext ==
    /\ ~broken
    /\ \/ LoadPlugin
       \/ CreateWorld
       \/ \E c \in Chunk : WorldGetChunk(c) \/ SendChunk(c)

------------------------------------------------------------------------------
(* Properties *)

\* With a persistence plugin, in whatever order and however often plugins were loaded (the
\* configuration of the distribution loads the generator twice), a chunk that players get
\* is from one source, its file exactly if nothing of that is damaged, and never some of
\* each (nbt/main.c:95-125, nbt/helpers.c:46-62). When the classic generator is the last
\* one loaded, which is called first, players are put at the saved spawn or the generated
\* one and get nothing of what memory held; a generator loaded after it can end the
\* dispatch and leave the chunk as it was, with no error.
ClassicFirst == generators # <<>> /\ Head(generators) = "classic"

ChunksAreWhole ==
    persistence =>
        /\ spawnFrom # NoWorld =>
               /\ spawnFrom = "stored" <=> level
               /\ ClassicFirst => spawnFrom # "unset"
        /\ answer.chunk # NoWorld /\ answer.status = "ok" =>
               \E from \in {"stored", "generated", "zero", "unset"} :
                   /\ answer.arrays = Whole(from)
                   /\ from = "stored" <=> damaged[answer.chunk] = {}
                   /\ ClassicFirst => from \in {"stored", "generated"}
==============================================================================
