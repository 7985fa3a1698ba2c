------------------------------ MODULE Positions -------------------------------
(***************************************************************************)
(* The coordinates of protocols/survival/minecraft.h and Region.c and the  *)
(* conversions between them. A block is 32 absolute units and a chunk 16   *)
(* blocks wide. A precise coordinate is a double, counted here in halves   *)
(* of a block; (SVInteger) truncates it toward 0, while >> rounds down.    *)
(* Positions are pairs <<x, z>>: no property depends on the height.        *)
(***************************************************************************)
EXTENDS Integers

Each(f(_), p) == <<f(p[1]), f(p[2])>>

\* a >> n of a signed integer
ShiftRight(a, n) == a \div 2^n
Truncated(a, n) == IF a >= 0 THEN a \div n ELSE -((-a) \div n)

ChunkPositionToBlockPosition(p)       == Each(LAMBDA c : c * 2^4, p)
ChunkPositionToAbsolutePosition(p)    == Each(LAMBDA c : c * 2^9, p)
ChunkPositionToPrecisePosition(p)     == Each(LAMBDA c : 2 * c * 2^4, p)
BlockPositionToChunkPosition(p)       == Each(LAMBDA b : ShiftRight(b, 4), p)
BlockPositionToAbsolutePosition(p)    == Each(LAMBDA b : b * 2^5, p)
BlockPositionToPrecisePosition(p)     == Each(LAMBDA b : 2 * b, p)
AbsolutePositionToChunkPosition(p)    == Each(LAMBDA a : ShiftRight(a, 9), p)
AbsolutePositionToBlockPosition(p)    == Each(LAMBDA a : ShiftRight(a, 5), p)

\* The block of a precise position. The variant leaves the chunk to a division.
PrecisePositionToBlockPosition(p)     == Each(LAMBDA h : Truncated(h, 2), p)
PrecisePositionToChunkByDivision(p)   == Each(LAMBDA h : Truncated(h, 2 * 2^4), p)
PrecisePositionToChunkPosition(p)     == Each(LAMBDA h : ShiftRight(Truncated(h, 2), 4), p)
PrecisePositionToAbsolutePosition(p)  == Each(LAMBDA h : h * 2^4, p)

\* SV_IsDistanceGreater: abs() takes the integer part of the difference.
Magnitude(h) == IF h >= 0 THEN h \div 2 ELSE (-h) \div 2
IsDistanceGreater(a, b, max) == \E i \in 1..2 : Magnitude(a[i] - b[i]) > max

------------------------------------------------------------------------------
\* The conversions that keep the place agree: a block is in one chunk whichever
\* way it is asked, and a chunk's corner is in the chunk.
ConversionsAgree(p) ==
    LET block == PrecisePositionToBlockPosition(p)
        chunk == BlockPositionToChunkPosition(block)
    IN  /\ PrecisePositionToChunkPosition(p) = chunk
        /\ AbsolutePositionToBlockPosition(BlockPositionToAbsolutePosition(block)) = block
        /\ AbsolutePositionToChunkPosition(BlockPositionToAbsolutePosition(block)) = chunk
        /\ PrecisePositionToBlockPosition(BlockPositionToPrecisePosition(block)) = block
        /\ BlockPositionToChunkPosition(ChunkPositionToBlockPosition(chunk)) = chunk
        /\ AbsolutePositionToChunkPosition(ChunkPositionToAbsolutePosition(chunk)) = chunk
        /\ PrecisePositionToChunkPosition(ChunkPositionToPrecisePosition(chunk)) = chunk
==============================================================================
