----------------------------- MODULE PacketFormats -----------------------------
(***************************************************************************)
(* The layouts of the survival protocol's packets as the code has them     *)
(* three times: what SV_PacketToBuffer writes, what SV_PacketFromBuffers   *)
(* reads, and by how many bytes SV_PacketParsable knows that a packet is   *)
(* there. A format is the sequence of the letters of the calls to          *)
(* SV_BufferAddFormat and SV_BufferRemoveFormat; a field of variable size  *)
(* has a letter or a word:                                                 *)
(*   U, S     a string of UCS-2 characters, of bytes                       *)
(*   M        metadata                                                     *)
(*   stack    count and damage, only behind an item id that is not -1      *)
(*   extra    three shorts, only behind a flag that is positive            *)
(*   bytes, text, blocks, offsets   an array whose length stands before it *)
(*   slots    an array of item stacks                                      *)
(* Of the values only those are kept that decide about a size, in parts.   *)
(***************************************************************************)
EXTENDS Integers, Sequences, FiniteSets

\* The sizes in minecraft.h.
Width == [b |-> 1, B |-> 1, s |-> 2, i |-> 4, l |-> 8, f |-> 4, d |-> 8]

Total(seq) ==
    LET sum[k \in 0..Len(seq)] == IF k = 0 THEN 0 ELSE sum[k - 1] + seq[k]
    IN  sum[Len(seq)]

\* An entry of metadata has a kind and, for a string, a length.
EntrySize(e) ==
    1 + IF e.kind = "string" THEN 2 + e.length
        ELSE [byte |-> 1, short |-> 2, integer |-> 4, float |-> 4, sbs |-> 5, iii |-> 12,
              unknown |-> 0][e.kind]

StringSize(v) == 2 + 2 * v

Size(field, v) ==
    CASE field = "U" -> StringSize(v)
      [] field = "S" -> 2 + v
      [] field = "M" -> Total([k \in DOMAIN v |-> EntrySize(v[k])]) + 1
      [] field = "stack" -> 3 * v
      [] field = "extra" -> 6 * v
      [] field \in {"bytes", "text"} -> v
      [] field = "blocks" -> 4 * v
      [] field = "offsets" -> 3 * v
      [] field = "slots" -> Total([k \in DOMAIN v |-> 2 + 3 * v[k]])

\* Which part a field of variable size takes.
PartOf(format, k) == Cardinality({j \in 1..k : format[j] \notin DOMAIN Width})

FormatSize(format, parts) ==
    Total([k \in DOMAIN format |->
        IF format[k] \in DOMAIN Width THEN Width[format[k]]
                                      ELSE Size(format[k], parts[PartOf(format, k)])])

\* The cases of a switch, a part of them and the rest.
f ++ g == [x \in DOMAIN f \cup DOMAIN g |-> IF x \in DOMAIN f THEN f[x] ELSE g[x]]

------------------------------------------------------------------------------
(* SV_PacketToBuffer, SVRequest *)

WriteRequestPlayer ==
    [KeepAlive |-> <<"i">>,
     Login |-> <<"i", "U", "l", "i", "b", "b", "b", "b">>,
     Handshake |-> <<"U">>,
     Chat |-> <<"U">>,
     UseEntity |-> <<"i", "i", "b">>,
     Respawn |-> <<"b", "b", "b", "s", "l">>,
     OnGround |-> <<"B">>,
     PlayerPosition |-> <<"d", "d", "d", "d", "b">>,
     PlayerLook |-> <<"f", "f", "b">>,
     PlayerMoveLook |-> <<"d", "d", "d", "d", "f", "f", "b">>]

WriteRequestAction ==
    [PlayerDigging |-> <<"b", "i", "b", "i", "b">>,
     PlayerBlockPlacement |-> <<"i", "b", "i", "b", "s", "stack">>,
     HoldChange |-> <<"s">>,
     Animation |-> <<"i", "b">>,
     EntityAction |-> <<"i", "b">>,
     StanceUpdate |-> <<"f", "f", "f", "f", "B", "B">>,
     EntityMetadata |-> <<"i", "M">>,
     EntityEffect |-> <<"i", "b", "b", "s">>,
     RemoveEntityEffect |-> <<"i", "b">>]

WriteRequestWindow ==
    [CloseWindow |-> <<"b">>,
     WindowClick |-> <<"b", "s", "B", "s", "B", "s", "stack">>,
     Transaction |-> <<"b", "s", "B">>,
     CreativeInventoryAction |-> <<"s", "s", "s", "s">>,
     UpdateSign |-> <<"i", "s", "i", "U", "U", "U", "U">>,
     ListPing |-> <<>>,
     Disconnect |-> <<"U">>]

------------------------------------------------------------------------------
(* SV_PacketToBuffer, SVResponse *)

WriteResponsePlayer ==
    [KeepAlive |-> <<"i">>,
     Login |-> <<"i", "U", "l", "i", "b", "b", "b", "b">>,
     Handshake |-> <<"U">>,
     Chat |-> <<"U">>,
     TimeUpdate |-> <<"l">>,
     EntityEquipment |-> <<"i", "s", "s", "s">>,
     SpawnPosition |-> <<"i", "i", "i">>,
     UpdateHealth |-> <<"s", "s", "f">>,
     Respawn |-> <<"b", "b", "b", "s", "l">>,
     PlayerMoveLook |-> <<"d", "d", "d", "d", "f", "f", "B">>,
     UseBed |-> <<"i", "b", "i", "b", "i">>,
     Animation |-> <<"i", "b">>]

WriteResponseSpawn ==
    [NamedEntitySpawn |-> <<"i", "U", "i", "i", "i", "b", "b", "s">>,
     PickupSpawn |-> <<"i", "s", "b", "s", "i", "i", "i", "b", "b", "b">>,
     CollectItem |-> <<"i", "i">>,
     SpawnObject |-> <<"i", "b", "i", "i", "i", "i", "extra">>,
     SpawnMob |-> <<"i", "b", "i", "i", "i", "b", "b", "M">>,
     Painting |-> <<"i", "U", "i", "i", "i", "i">>,
     ExperienceOrb |-> <<"i", "i", "i", "i", "s">>,
     StanceUpdate |-> <<"f", "f", "f", "f", "B", "B">>]

WriteResponseEntity ==
    [EntityVelocity |-> <<"i", "s", "s", "s">>,
     EntityDestroy |-> <<"i">>,
     EntityCreate |-> <<"i">>,
     EntityRelativeMove |-> <<"i", "b", "b", "b">>,
     EntityLook |-> <<"i", "b", "b">>,
     EntityLookMove |-> <<"i", "b", "b", "b", "b", "b">>,
     EntityTeleport |-> <<"i", "i", "i", "i", "b", "b">>,
     EntityStatus |-> <<"i", "b">>,
     EntityAttach |-> <<"i", "i">>,
     EntityMetadata |-> <<"i", "M">>,
     EntityEffect |-> <<"i", "b", "b", "s">>,
     RemoveEntityEffect |-> <<"i", "b">>,
     Experience |-> <<"b", "b", "s">>]

\* The case of a thunderbolt has no break and goes on with that of a window.
WriteResponseWorld ==
    [PreChunk |-> <<"i", "i", "B">>,
     MapChunk |-> <<"i", "s", "i", "b", "b", "b", "i", "bytes">>,
     MultiBlockChange |-> <<"i", "i", "s", "blocks">>,
     BlockChange |-> <<"i", "b", "i", "b", "b">>,
     PlayNoteBlock |-> <<"i", "s", "i", "b", "b">>,
     Explosion |-> <<"d", "d", "d", "f", "i", "offsets">>,
     SoundEffect |-> <<"i", "i", "b", "i", "i">>,
     State |-> <<"b", "b">>,
     Thunderbolt |-> <<"i", "B", "i", "i", "i", "b", "b", "S", "b">>]

WriteResponseWindow ==
    [OpenWindow |-> <<"b", "b", "S", "b">>,
     CloseWindow |-> <<"b">>,
     SetSlot |-> <<"b", "s", "s", "stack">>,
     WindowItems |-> <<"b", "s", "slots">>,
     UpdateProgressBar |-> <<"b", "s", "s">>,
     Transaction |-> <<"b", "s", "B">>,
     CreativeInventoryAction |-> <<"s", "s", "s", "s">>,
     UpdateSign |-> <<"i", "s", "i", "U", "U", "U", "U">>,
     ItemData |-> <<"i", "s", "i", "U", "U", "U", "U", "text">>,
     IncrementStatistic |-> <<"i", "b">>,
     PlayerListItem |-> <<"U", "b", "s">>,
     Disconnect |-> <<"U">>]

Write == [Request |-> WriteRequestPlayer ++ WriteRequestAction ++ WriteRequestWindow,
          Response |-> WriteResponsePlayer ++ WriteResponseSpawn ++ WriteResponseEntity
                         ++ WriteResponseWorld ++ WriteResponseWindow]

------------------------------------------------------------------------------
(* SV_GetPacketDataFromBuffer, SVRequest *)

ReadRequestPlayer ==
    [KeepAlive |-> <<"i">>,
     Login |-> <<"i", "U", "l", "i", "b", "b", "b", "b">>,
     Handshake |-> <<"U">>,
     Chat |-> <<"U">>,
     UseEntity |-> <<"i", "i", "b">>,
     Respawn |-> <<"b", "b", "b", "s", "l">>,
     OnGround |-> <<"B">>,
     PlayerPosition |-> <<"d", "d", "d", "d", "b">>,
     PlayerLook |-> <<"f", "f", "b">>,
     PlayerMoveLook |-> <<"d", "d", "d", "d", "f", "f", "b">>]

ReadRequestAction ==
    [PlayerDigging |-> <<"b", "i", "b", "i", "b">>,
     PlayerBlockPlacement |-> <<"i", "b", "i", "b", "s", "stack">>,
     HoldChange |-> <<"s">>,
     Animation |-> <<"i", "b">>,
     EntityAction |-> <<"i", "b">>,
     StanceUpdate |-> <<"f", "f", "f", "f", "B", "B">>,
     EntityMetadata |-> <<"i", "M">>,
     EntityEffect |-> <<"i", "b", "b", "s">>,
     RemoveEntityEffect |-> <<"i", "b">>]

ReadRequestWindow ==
    [CloseWindow |-> <<"b">>,
     WindowClick |-> <<"b", "s", "B", "s", "B", "s", "stack">>,
     Transaction |-> <<"b", "s", "B">>,
     CreativeInventoryAction |-> <<"s", "s", "s", "s">>,
     UpdateSign |-> <<"i", "s", "i", "U", "U", "U", "U">>,
     IncrementStatistic |-> <<"i", "b">>,
     ListPing |-> <<>>,
     Disconnect |-> <<"U">>]

------------------------------------------------------------------------------
(* SV_GetPacketDataFromBuffer, SVResponse *)

ReadResponsePlayer ==
    [KeepAlive |-> <<"i">>,
     Login |-> <<"i", "U", "l", "i", "b", "b", "b", "b">>,
     Handshake |-> <<"U">>,
     Chat |-> <<"U">>,
     TimeUpdate |-> <<"l">>,
     EntityEquipment |-> <<"i", "s", "s", "s">>,
     SpawnPosition |-> <<"i", "i", "i">>,
     UpdateHealth |-> <<"s", "s", "f">>,
     Respawn |-> <<"b", "b", "b", "s", "l">>,
     PlayerMoveLook |-> <<"d", "d", "d", "d", "f", "f", "b">>,
     UseBed |-> <<"i", "b", "i", "b", "i">>,
     Animation |-> <<"i", "b">>]

ReadResponseSpawn ==
    [NamedEntitySpawn |-> <<"i", "U", "i", "i", "i", "b", "b", "s">>,
     PickupSpawn |-> <<"i", "s", "b", "s", "i", "i", "i", "b", "b", "b">>,
     CollectItem |-> <<"i", "i">>,
     SpawnObject |-> <<"i", "b", "i", "i", "i", "i", "extra">>,
     SpawnMob |-> <<"i", "b", "i", "i", "i", "b", "b", "M">>,
     Painting |-> <<"i", "U", "i", "i", "i", "i">>,
     ExperienceOrb |-> <<"i", "i", "i", "i", "s">>,
     StanceUpdate |-> <<"f", "f", "f", "f", "B", "B">>]

ReadResponseEntity ==
    [EntityVelocity |-> <<"i", "s", "s", "s">>,
     EntityDestroy |-> <<"i">>,
     EntityCreate |-> <<"i">>,
     EntityRelativeMove |-> <<"i", "b", "b", "b">>,
     EntityLook |-> <<"i", "b", "b">>,
     EntityLookMove |-> <<"i", "b", "b", "b", "b", "b">>,
     EntityTeleport |-> <<"i", "i", "i", "i", "b", "b">>,
     EntityStatus |-> <<"i", "b">>,
     EntityAttach |-> <<"i", "i">>,
     EntityMetadata |-> <<"i", "M">>,
     EntityEffect |-> <<"i", "b", "b", "s">>,
     RemoveEntityEffect |-> <<"i", "b">>,
     Experience |-> <<"b", "b", "s">>]

ReadResponseWorld ==
    [PreChunk |-> <<"i", "i", "b">>,
     MapChunk |-> <<"i", "s", "i", "b", "b", "b", "i", "bytes">>,
     MultiBlockChange |-> <<"i", "i", "s", "blocks">>,
     BlockChange |-> <<"i", "b", "i", "b", "b">>,
     PlayNoteBlock |-> <<"i", "s", "i", "b", "b">>,
     Explosion |-> <<"d", "d", "d", "f", "i", "offsets">>,
     SoundEffect |-> <<"i", "i", "b", "i", "i">>,
     State |-> <<"b", "b">>,
     Thunderbolt |-> <<"i", "B", "i", "i", "i">>]

\* The case of a progress bar has no return and goes on with that of a transaction.
ReadResponseWindow ==
    [OpenWindow |-> <<"b", "b", "U", "b">>,
     CloseWindow |-> <<"b">>,
     SetSlot |-> <<"b", "s", "s", "stack">>,
     WindowItems |-> <<"b", "s", "slots">>,
     UpdateProgressBar |-> <<"b", "s", "s", "b", "s", "B">>,
     Transaction |-> <<"b", "s", "B">>,
     CreativeInventoryAction |-> <<"s", "s", "s", "s">>,
     UpdateSign |-> <<"i", "s", "i", "U", "U", "U", "U">>,
     ItemData |-> <<"s", "s", "b", "text">>,
     PlayerListItem |-> <<"U", "B", "s">>,
     Disconnect |-> <<"U">>]

Read == [Request |-> ReadRequestPlayer ++ ReadRequestAction ++ ReadRequestWindow,
         Response |-> ReadResponsePlayer ++ ReadResponseSpawn ++ ReadResponseEntity
                        ++ ReadResponseWorld ++ ReadResponseWindow]
==============================================================================
