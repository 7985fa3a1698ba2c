----------------------------- MODULE PacketStructs -----------------------------
(***************************************************************************)
(* The members of the structures in Packet.h that the cases of             *)
(* SV_GetPacketDataFromBuffer store to, in the order of the letters of the *)
(* formats in PacketFormats. SV_BufferRemoveFormat stores as many bytes as *)
(* its letter has behind the pointer it is given, whatever the member      *)
(* there: an int is as wide as an enumeration, a byte is not.              *)
(*   e   an enumeration        p   a pointer (SVString, SVMetadata, arrays)*)
(* The members behind an item id or a flag are called as in PacketFormats. *)
(***************************************************************************)
EXTENDS PacketFormats

------------------------------------------------------------------------------
(* The structures of requests *)

RequestStructs ==
    [KeepAlive |-> <<"i">>,
     Login |-> <<"i", "p", "l", "i", "b", "b", "b", "b">>,
     Handshake |-> <<"p">>,
     Chat |-> <<"p">>,
     UseEntity |-> <<"i", "i", "b">>,
     Respawn |-> <<"b", "b", "b", "s", "l">>,
     OnGround |-> <<"b">>,
     PlayerPosition |-> <<"d", "d", "d", "d", "b">>,
     PlayerLook |-> <<"f", "f", "b">>,
     PlayerMoveLook |-> <<"d", "d", "d", "d", "f", "f", "b">>]

RequestActionStructs ==
    [PlayerDigging |-> <<"e", "i", "b", "i", "e">>,
     PlayerBlockPlacement |-> <<"i", "b", "i", "e", "s", "stack">>,
     HoldChange |-> <<"s">>,
     Animation |-> <<"i", "e">>,
     EntityAction |-> <<"i", "e">>,
     StanceUpdate |-> <<"f", "f", "f", "f", "b", "b">>,
     EntityMetadata |-> <<"i", "p">>,
     EntityEffect |-> <<"i", "e", "b", "s">>,
     RemoveEntityEffect |-> <<"i", "e">>]

RequestWindowStructs ==
    [CloseWindow |-> <<"b">>,
     WindowClick |-> <<"b", "s", "b", "s", "b", "s", "stack">>,
     Transaction |-> <<"b", "s", "b">>,
     CreativeInventoryAction |-> <<"s", "s", "s", "s">>,
     UpdateSign |-> <<"i", "b", "i", "p", "p", "p", "p">>,
     IncrementStatistic |-> <<"i", "b">>,
     ListPing |-> <<>>,
     Disconnect |-> <<"p">>]

------------------------------------------------------------------------------
(* The structures of responses *)

ResponsePlayerStructs ==
    [KeepAlive |-> <<"i">>,
     Login |-> <<"i", "p", "l", "i", "b", "b", "b", "b">>,
     Handshake |-> <<"p">>,
     Chat |-> <<"p">>,
     TimeUpdate |-> <<"l">>,
     EntityEquipment |-> <<"i", "s", "s", "s">>,
     SpawnPosition |-> <<"i", "b", "i">>,
     UpdateHealth |-> <<"s", "s", "f">>,
     Respawn |-> <<"b", "b", "b", "s", "l">>,
     PlayerMoveLook |-> <<"d", "d", "d", "d", "f", "f", "b">>,
     UseBed |-> <<"i", "b", "i", "b", "i">>,
     Animation |-> <<"i", "e">>]

ResponseSpawnStructs ==
    [NamedEntitySpawn |-> <<"i", "p", "i", "i", "i", "b", "b", "s">>,
     PickupSpawn |-> <<"i", "s", "b", "s", "i", "i", "i", "b", "b", "b">>,
     CollectItem |-> <<"i", "i">>,
     SpawnObject |-> <<"i", "e", "i", "i", "i", "i", "extra">>,
     SpawnMob |-> <<"i", "e", "i", "i", "i", "b", "b", "p">>,
     Painting |-> <<"i", "p", "i", "b", "i", "i">>,
     ExperienceOrb |-> <<"i", "i", "b", "i", "s">>,
     StanceUpdate |-> <<"f", "f", "f", "f", "b", "b">>]

ResponseEntityStructs ==
    [EntityVelocity |-> <<"i", "s", "s", "s">>,
     EntityDestroy |-> <<"i">>,
     EntityCreate |-> <<"i">>,
     EntityRelativeMove |-> <<"i", "b", "b", "b">>,
     EntityLook |-> <<"i", "b", "b">>,
     EntityLookMove |-> <<"i", "b", "b", "b", "b", "b">>,
     EntityTeleport |-> <<"i", "i", "i", "i", "b", "b">>,
     EntityStatus |-> <<"i", "e">>,
     EntityAttach |-> <<"i", "i">>,
     EntityMetadata |-> <<"i", "p">>,
     EntityEffect |-> <<"i", "e", "b", "s">>,
     RemoveEntityEffect |-> <<"i", "e">>,
     Experience |-> <<"b", "b", "s">>]

ResponseWorldStructs ==
    [PreChunk |-> <<"i", "i", "b">>,
     MapChunk |-> <<"i", "b", "i", "b", "b", "b", "i", "p">>,
     MultiBlockChange |-> <<"i", "i", "s", "p">>,
     BlockChange |-> <<"i", "b", "i", "b", "b">>,
     PlayNoteBlock |-> <<"i", "b", "i", "b", "b">>,
     Explosion |-> <<"d", "d", "d", "f", "i", "p">>,
     SoundEffect |-> <<"e", "i", "b", "i", "e">>,
     State |-> <<"b", "b">>,
     Thunderbolt |-> <<"i", "b", "i", "i", "i">>]

ResponseWindowStructs ==
    [OpenWindow |-> <<"b", "e", "p", "b">>,
     CloseWindow |-> <<"b">>,
     SetSlot |-> <<"b", "b", "s", "stack">>,
     WindowItems |-> <<"b", "s", "p">>,
     UpdateProgressBar |-> <<"b", "s", "s">>,
     Transaction |-> <<"b", "s", "b">>,
     CreativeInventoryAction |-> <<"s", "s", "s", "s">>,
     UpdateSign |-> <<"i", "b", "i", "p", "p", "p", "p">>,
     ItemData |-> <<"s", "s", "b", "p">>,
     PlayerListItem |-> <<"p", "b", "s">>,
     Disconnect |-> <<"p">>]

Structs ==
    [Request |-> RequestStructs ++ RequestActionStructs ++ RequestWindowStructs,
     Response |-> ResponsePlayerStructs ++ ResponseSpawnStructs ++ ResponseEntityStructs
                    ++ ResponseWorldStructs ++ ResponseWindowStructs]

------------------------------------------------------------------------------
(* What reading leaves in a structure *)

MemberWidth == [b |-> 1, s |-> 2, i |-> 4, l |-> 8, f |-> 4, d |-> 8, e |-> 4, p |-> 8]

StoreWidth(letter) == IF letter \in DOMAIN Width THEN Width[letter] ELSE MemberWidth["p"]

\* The members that are assigned a value, which converts it, instead of being stored to.
\* The variant takes the status and the face of a dig for bytes like those of an animation.
NoneAssigned(type) == {}
AssignedDigging(type) == IF type = "PlayerDigging" THEN {1, 5} ELSE {}

Assigned(type) ==
    AssignedDigging(type) \cup
    CASE type \in {"SpawnPosition", "MapChunk", "PlayNoteBlock"} -> {2}
      [] type = "ExperienceOrb" -> {3}
      [] type = "Painting" -> {4}
      [] OTHER -> {}

\* Every store has the width of its member.
StoredExactly(chain, type) ==
    \A k \in DOMAIN Structs[chain][type] \ Assigned(type) :
        LET member == Structs[chain][type][k] IN
        member \in DOMAIN MemberWidth => StoreWidth(Read[chain][type][k]) = MemberWidth[member]

\* No member is passed over. A request's item was zeroed before; the others come from
\* malloc as they are.
NothingUnset(p) ==
    CASE p.type \in {"SetSlot", "SpawnObject"} -> p.parts[1] = 1
      [] p.type = "WindowItems" -> \A k \in DOMAIN p.parts[1] : p.parts[1][k] = 1
      [] OTHER -> TRUE

\* What SV_PacketToBuffer may make of it: an empty slot's id was not stored, and any other
\* value than -1 makes it write an item. The variant does not store the id of a set slot
\* either.
ReadBackOfSlots(p) == IF p.type = "SetSlot" THEN {<<0>>, <<1>>} ELSE {p.parts}

ReadBack(p) ==
    IF p.type # "WindowItems" THEN {p.parts}
    ELSE {<<q>> : q \in {q \in [DOMAIN p.parts[1] -> {0, 1}] :
                           \A k \in DOMAIN q : p.parts[1][k] <= q[k]}}
==============================================================================
