------------------------------ MODULE ChunkColumn ------------------------------
(***************************************************************************)
(* One column of a chunk as the classic generator makes it                 *)
(* (mapgen/classic/helpers.c): its blocks from the bottom up and its entry *)
(* of the height map, through the stages of cdclassic_GenerateChunk. The   *)
(* noise decides what is dug and eroded: any blocks. Whatever is neither   *)
(* air nor water is rock here, lava and soil included.                     *)
(***************************************************************************)
EXTENDS Integers, FiniteSetsExt

CONSTANTS
    Top,        \* 128 blocks
    LavaTop,    \* 16: below, caves are filled with lava
    CaveTop,    \* 54
    Roof,       \* 4: what caves leave of the ground above CaveTop
    Water,      \* 64
    Soil,       \* 21
    Heights     \* of the height map the noise gives

ASSUME ColumnAssumption ==
    /\ {Top, LavaTop, CaveTop, Roof, Water, Soil} \subseteq Nat \ {0}
    /\ 2 <= LavaTop /\ LavaTop < CaveTop /\ CaveTop < Water /\ Water < Top
    /\ Heights \subseteq (LavaTop + 1)..(Top - 1)

VARIABLES
    stage,      \* the stage that comes next
    blocks,
    height,     \* chunk->heightMap
    lit         \* the blocks with full sky light

columnVars == <<stage, blocks, height, lit>>

ColumnInit ==
    /\ stage = "fill"
    /\ blocks = [y \in 0..(Top - 1) |-> "air"]
    /\ height \in Heights
    /\ lit = {}

------------------------------------------------------------------------------
Stage(from, to) == stage = from /\ stage' = to

With(b, ys, block) == [y \in DOMAIN b |-> IF y \in ys THEN block ELSE b[y]]

\* The height map follows the ground down through air. The variant does not follow.
LoweredNot(b, h) == h
Lowered(b, h) == Min({h} \cup {y \in 1..h : \A z \in y..h : b[z] = "air"})

GenerateFilledChunk ==
    /\ Stage("fill", "caves")
    /\ blocks' = With(blocks, 0..(height - 1), "rock")
    /\ UNCHANGED <<height, lit>>

DigCaves ==
    /\ Stage("caves", "erode")
    /\ \E deep \in SUBSET (0..(CaveTop - 1)), high \in SUBSET (CaveTop..(height - Roof - 1)) :
         blocks' = With(With(blocks, deep \cup high, "air"), deep \cap (0..(LavaTop - 1)), "rock")
    /\ height' = Lowered(blocks', height)
    /\ UNCHANGED lit

ErodeLandscape ==
    /\ Stage("erode", "minerals")
    /\ \E eroded \in SUBSET ((Water + 1)..(height - 1)) : blocks' = With(blocks, eroded, "air")
    /\ height' = Lowered(blocks', height)
    /\ UNCHANGED lit

\* Ore is rock; caves stay open.
AddMinerals ==
    /\ Stage("minerals", "sediments")
    /\ blocks' = With(blocks, {y \in 2..(height - 1) : blocks[y] # "air"}, "rock")
    /\ UNCHANGED <<height, lit>>

\* A layer is all sand under water; above it, the loop that puts a block of dirt
\* shortens the layer each time.
Layer ==
    LET sedimentHeight == (Top - height) \div Soil
    IN  IF height < Water THEN sedimentHeight ELSE (sedimentHeight + 1) \div 2

AddSediments ==
    /\ Stage("sediments", "flood")
    /\ blocks' = With(blocks, height..(height + Layer - 1), "rock")
    /\ height' = height + Layer
    /\ UNCHANGED lit

FloodWithWater ==
    /\ Stage("flood", "bedrock")
    /\ blocks' = With(blocks, {y \in 0..Water : \A z \in y..Water : blocks[z] = "air"}, "water")
    /\ UNCHANGED <<height, lit>>

BedrockGround ==
    /\ Stage("bedrock", "light")
    /\ blocks' = With(blocks, {0, 1}, "rock")
    /\ height' = Max({height, 2})
    /\ UNCHANGED lit

GenerateSkyLight ==
    /\ Stage("light", "done")
    /\ lit' = height..(Top - 1)
    /\ UNCHANGED <<blocks, height>>

ColumnNext ==
    \/ GenerateFilledChunk \/ DigCaves \/ ErodeLandscape \/ AddMinerals
    \/ AddSediments \/ FloodWithWater \/ BedrockGround \/ GenerateSkyLight

------------------------------------------------------------------------------
(* Properties *)

\* However caves and erosion eat at a column, in the end the height map says where the
\* sky begins: the light falls on everything above the topmost rock and on nothing else,
\* and water stands no higher than its level, above ground that holds it
\* (mapgen/classic/main.c:59-67, helpers.c:122-242).
GroundIsLit ==
    stage = "done" =>
        /\ blocks[height - 1] = "rock"
        /\ lit = {y \in DOMAIN blocks : \A z \in y..(Top - 1) : blocks[z] # "rock"}
        /\ \A y \in DOMAIN blocks : blocks[y] = "water" =>
               y <= Water /\ \E z \in 0..(y - 1) : blocks[z] = "rock"
==============================================================================
