----------------------------- MODULE PacketFraming -----------------------------
(***************************************************************************)
(* How packets are found in a stream of bytes (PacketLength.c, Packet.c,   *)
(* cd_ReadCallback in Server.c, the proxy's read callback). A peer writes  *)
(* whole packets; their bytes arrive bit by bit; the read callback asks    *)
(* SV_PacketParsable, which either sets the low watermark of the buffer,   *)
(* below which libevent does not call again, or lets SV_PacketFromBuffers  *)
(* take the packet out. On a server the packet goes to a worker and the    *)
(* client is looked at again when it is done; the proxy handles it at once.*)
(***************************************************************************)
EXTENDS PacketStructs, FiniteSetsExt

CONSTANTS
    Packets,    \* the packets peers write: records of chain, type and parts
    Worker,     \* the workers of the server
    MaxPackets  \* bound: packets written on one connection

\* The types whose layouts disagree are left out.
Apart ==
    [Request |-> {"Login"},
     Response |-> {"Login", "Painting", "MultiBlockChange", "Thunderbolt", "OpenWindow",
                   "UpdateProgressBar", "ItemData", "IncrementStatistic"}]

\* And the kinds of metadata whose size is counted wrongly.
Entry == [kind : {"byte", "short", "integer", "float", "iii", "unknown"}, length : Nat]

\* The values of a field of variable size: its length, whether it is there, or its members.
ValuesOf(field) ==
    CASE field \in {"stack", "extra"} -> {0, 1}
      [] field = "M" -> Seq(Entry)
      [] field = "slots" -> Seq({0, 1})
      [] OTHER -> Nat

\* A packet has a value for each such field of its type.
IsWritten(p) ==
    /\ p.chain \in {"Request", "Response"}
    /\ p.type \in DOMAIN Write[p.chain] \ Apart[p.chain]
    /\ LET format == Write[p.chain][p.type] IN
       \A k \in DOMAIN format : format[k] \notin DOMAIN Width =>
           p.parts[PartOf(format, k)] \in ValuesOf(format[k])

ASSUME FramingAssumption ==
    /\ IsFiniteSet(Worker)
    /\ MaxPackets \in Nat
    /\ \A p \in Packets : IsWritten(p)

VARIABLES
    chain,      \* "Request": a server reads its client. "Response": a proxy its server
    written,    \* how many packets have been written
    wire,       \* the packets not taken out yet, the oldest first
    input,      \* how many of their bytes are in the input buffer
    low,        \* the low watermark of the input buffer
    status,     \* client->status
    job,        \* a Process job is queued
    pc,         \* what each worker does for this client
    kept,       \* types of packets that were handled and not wholly freed
    torn,       \* the last packet's type, if its structure is not what was on the wire
    stretched,  \* the last packet's type, if the proxy passed on more bytes than came
    lost        \* something else than a packet was taken out of the buffer

connection == <<chain, written>>
handed == <<kept, torn, stretched>>
reader == <<wire, low, status, job, handed, lost>>
vars == <<connection, reader, input, pc>>

------------------------------------------------------------------------------
(* SV_PacketParsable *)

\* SVPacketLength: the bytes a packet has at least.
MinLengthPlayer ==
    [KeepAlive |-> 5, Login |-> 22, Handshake |-> 3, Chat |-> 3, TimeUpdate |-> 9,
     EntityEquipment |-> 11, SpawnPosition |-> 13, UseEntity |-> 10, UpdateHealth |-> 9,
     Respawn |-> 14, OnGround |-> 2, PlayerPosition |-> 34, PlayerLook |-> 10,
     PlayerMoveLook |-> 42, PlayerDigging |-> 12, PlayerBlockPlacement |-> 13,
     HoldChange |-> 3, UseBed |-> 15, Animation |-> 6, EntityAction |-> 6,
     NamedEntitySpawn |-> 23, PickupSpawn |-> 25, CollectItem |-> 9, SpawnObject |-> 22,
     SpawnMob |-> 21, Painting |-> 23, ExperienceOrb |-> 19, StanceUpdate |-> 19,
     EntityVelocity |-> 11, EntityDestroy |-> 5, EntityCreate |-> 5,
     EntityRelativeMove |-> 8, EntityLook |-> 7, EntityLookMove |-> 10,
     EntityTeleport |-> 19, EntityStatus |-> 6, EntityAttach |-> 9,
     EntityMetadata |-> 6, EntityEffect |-> 9, RemoveEntityEffect |-> 6,
     Experience |-> 5]

MinLengthWorld ==
    [PreChunk |-> 10, MapChunk |-> 18, MultiBlockChange |-> 11, BlockChange |-> 12,
     PlayNoteBlock |-> 13, Explosion |-> 33, SoundEffect |-> 18, State |-> 3,
     Thunderbolt |-> 18, OpenWindow |-> 6, CloseWindow |-> 2, WindowClick |-> 10,
     SetSlot |-> 6, WindowItems |-> 4, UpdateProgressBar |-> 6, Transaction |-> 5,
     CreativeInventoryAction |-> 9, UpdateSign |-> 19, ItemData |-> 6,
     IncrementStatistic |-> 6, PlayerListItem |-> 6, ListPing |-> 1, Disconnect |-> 3]

MinLength == MinLengthPlayer ++ MinLengthWorld

\* Where it looks for the first count, id or flag that the size depends on.
Offset ==
    [Login |-> 5, Handshake |-> 1, Chat |-> 1, PlayerBlockPlacement |-> 11,
     NamedEntitySpawn |-> 5, SpawnObject |-> 18, SpawnMob |-> 20, EntityMetadata |-> 5,
     MapChunk |-> 14, MultiBlockChange |-> 9, Explosion |-> 29, OpenWindow |-> 3,
     WindowClick |-> 8, SetSlot |-> 4, WindowItems |-> 2, UpdateSign |-> 11,
     ItemData |-> 5, PlayerListItem |-> 1, Disconnect |-> 1]

\* By how much one unit of the count prolongs the packet. The variant takes characters
\* for bytes.
FactorOfBytes(type) == IF type = "Chat" THEN 1 ELSE 2
StringFactor(type) == 2

Factor(type) ==
    IF type \in {"Login", "Handshake", "Chat", "NamedEntitySpawn", "OpenWindow",
                 "PlayerListItem", "Disconnect"}
    THEN StringFactor(type)
    ELSE [PlayerBlockPlacement |-> 3, SpawnObject |-> 6, MapChunk |-> 1,
          MultiBlockChange |-> 5, Explosion |-> 3, WindowClick |-> 3, SetSlot |-> 3,
          ItemData |-> 1][type]

\* The length of a string of metadata is not converted to the byte order of the host,
\* and a short, a byte and a short count as four bytes.
CountedSize(e) ==
    CASE e.kind = "sbs" -> 5
      [] e.kind = "string" -> 3 + 256 * (e.length % 256) + e.length \div 256
      [] OTHER -> EntrySize(e)

UpTo(seq, k) == Total([j \in 1..k |-> seq[j]])

\* The sums against which the length of the input is checked, one after the other.
Checks(p) ==
    LET v == p.parts  type == p.type IN
    {MinLength[type]} \cup
    {MinLength[type] + sum : sum \in
        CASE type \in {"UpdateSign"} -> {2 * UpTo(v, k) : k \in 1..4}
          [] type \in {"SpawnMob", "EntityMetadata"} ->
               LET sizes == [j \in DOMAIN v[1] |-> CountedSize(v[1][j])] IN
               {UpTo(sizes, k) : k \in {j \in DOMAIN v[1] : v[1][j].kind # "unknown"}}
               \cup {UpTo(sizes, k - 1) + 2 : k \in {j \in DOMAIN v[1] : v[1][j].kind = "string"}}
          [] type = "WindowItems" ->
               {2 * k + 3 * UpTo(v[1], k - 1) : k \in DOMAIN v[1]}
               \cup {2 * Len(v[1]) + 3 * Total(v[1])}
          [] type \in DOMAIN Offset
                      \ {"UpdateSign", "SpawnMob", "EntityMetadata", "WindowItems"} ->
               {Factor(type) * v[1]}
          [] OTHER -> {}}

\* The input is long enough for every check; a kind of metadata that does not exist ends
\* the walk with EILSEQ.
ChecksOf == [p \in Packets |-> Checks(p)]
Enough(p, length) == \A c \in ChecksOf[p] : c <= length

Malformed(p) ==
    /\ p.type \in {"SpawnMob", "EntityMetadata"}
    /\ \E k \in DOMAIN p.parts[1] : p.parts[1][k].kind = "unknown"

\* CD_BufferReadIn gets the sum that was not reached. 
Awaited(p, length) == Min({c \in ChecksOf[p] : c > length})

------------------------------------------------------------------------------
(* What the peer wrote, and what SV_PacketFromBuffers takes *)

WireSize == [p \in Packets |-> 1 + FormatSize(Write[p.chain][p.type], p.parts)]

\* How far a count stands before the field whose size it gives.
CountBefore == [U |-> 0, S |-> 0, M |-> 0, stack |-> 2, extra |-> 4, bytes |-> 4,
                text |-> 1, blocks |-> 2, offsets |-> 4, slots |-> 2]

\* SV_PacketParsable looks where the peer wrote the count.
LooksRight(p) ==
    p.type \in DOMAIN Offset =>
        LET format == Write[p.chain][p.type]
            first == Min({k \in DOMAIN format : format[k] \notin DOMAIN Width})
        IN  Offset[p.type] = 1 + FormatSize(SubSeq(format, 1, first - 1), <<>>)
                               - CountBefore[format[first]]

\* A type without a case costs its first byte and yields no packet.
Readable(p) == p.type \in DOMAIN Read[p.chain]

ReadSize == [p \in Packets |->
    1 + IF Readable(p) THEN FormatSize(Read[p.chain][p.type], p.parts) ELSE 0]

InFrame == [p \in Packets |-> LooksRight(p)]

\* evbuffer_remove takes what there is.
Taken(p, length) == Min({length, ReadSize[p]})

------------------------------------------------------------------------------
(* SV_DestroyPacketData, SVResponse *)

\* The strings and arrays that reading a packet allocates.
Allocated(p) ==
    LET format == Read[p.chain][p.type] IN
    Total([k \in DOMAIN format |->
        IF format[k] \in {"U", "S", "M", "bytes", "text", "offsets", "slots"} THEN 1
        ELSE IF format[k] = "blocks" THEN 3 ELSE 0])

\* The case of item data has no break and goes on with that of a disconnect.
FreedOf ==
    [Login |-> 1, Handshake |-> 1, Chat |-> 1, NamedEntitySpawn |-> 1, SpawnMob |-> 1,
     Painting |-> 1, EntityMetadata |-> 1, MapChunk |-> 1, MultiBlockChange |-> 3,
     Explosion |-> 1, OpenWindow |-> 1, WindowItems |-> 1, ItemData |-> 2,
     Disconnect |-> 1]

\* Only the proxy destroys what it has read. The variant forgets the chunk's blocks.
FreedNoChunk(p) == IF p.type \in DOMAIN FreedOf \ {"MapChunk"} THEN FreedOf[p.type] ELSE 0
Freed(p) == IF p.type \in DOMAIN FreedOf THEN FreedOf[p.type] ELSE 0

Keeps == [p \in Packets |->
    Readable(p) /\ Allocated(p) # IF p.chain = "Response" THEN Freed(p) ELSE 0]

------------------------------------------------------------------------------
(* What is handed on *)

Torn == [p \in Packets |->
    Readable(p) /\ ~(StoredExactly(p.chain, p.type) /\ NothingUnset(p))]

\* The proxy sends what it read from the server to its client (SV_PacketToBuffer), but for
\* a disconnect.
Relayed == [p \in Packets |->
    IF p.chain = "Response" /\ p.type # "Disconnect"
    THEN {1 + FormatSize(Write[p.chain][p.type], parts) : parts \in ReadBack(p)}
    ELSE {WireSize[p]}]

------------------------------------------------------------------------------
Init ==
    /\ chain \in {p.chain : p \in Packets}
    /\ written = 0
    /\ wire = <<>>
    /\ input = 0
    /\ low = 0
    /\ status = "Idle"
    /\ job = FALSE
    /\ pc = [w \in Worker |-> "free"]
    /\ kept = {}
    /\ torn = "none"
    /\ stretched = "none"
    /\ lost = FALSE

OnTheWay == Total([k \in DOMAIN wire |-> WireSize[wire[k]]]) - input

WritePacket(p) ==
    /\ p.chain = chain
    /\ written < MaxPackets
    /\ written' = written + 1
    /\ wire' = Append(wire, p)
    /\ UNCHANGED <<chain, input, low, status, job, pc, handed, lost>>

\* After a packet the watermark is 0 again. The variant forgets that.
ReadInNothing == UNCHANGED low
ReadInAny == low' = 0

\* The read callback finds length bytes. An empty buffer counts as a packet of type 0.
Await(length) ==
    /\ input' = length
    /\ low' = IF length = 0 THEN MinLength["KeepAlive"] ELSE Awaited(Head(wire), length)
    /\ UNCHANGED <<wire, status, job, handed, lost>>

Kick(length) ==
    /\ input' = length
    /\ status' = "Kicked"
    /\ UNCHANGED <<wire, low, job, handed, lost>>

Parse(length) ==
    LET p == Head(wire) IN
    /\ input' = length - Taken(p, length)
    /\ wire' = Tail(wire)
    /\ lost' = (ReadSize[p] # WireSize[p] \/ length < WireSize[p] \/ ~InFrame[p])
    /\ kept' = IF Keeps[p] THEN kept \cup {p.type} ELSE kept
    /\ torn' = IF Readable(p) /\ Torn[p] THEN p.type ELSE "none"
    /\ \E size \in Relayed[p] :
         stretched' = IF Readable(p) /\ size > WireSize[p] THEN p.type ELSE "none"
    /\ IF ~Readable(p) THEN UNCHANGED <<low, status, job>>
       ELSE /\ ReadInAny
            /\ IF chain = "Request" THEN status' = "Process" /\ job' = TRUE
                                    ELSE UNCHANGED <<status, job>>

\* cd_ReadCallback and cdsurvivalproxy_ProxyReadCallback
ReadCallback(length) ==
    IF status # "Idle" THEN input' = length /\ UNCHANGED reader
    ELSE IF length = 0 \/ ~Enough(Head(wire), length) THEN Await(length)
    ELSE IF Malformed(Head(wire)) THEN Kick(length)
    ELSE Parse(length)

\* libevent calls when the watermark is reached.
Arrive(n) ==
    /\ n \in 1..OnTheWay
    /\ IF input + n >= low THEN ReadCallback(input + n)
                           ELSE input' = input + n /\ UNCHANGED reader
    /\ UNCHANGED <<connection, pc>>

------------------------------------------------------------------------------
(* CD_RunWorker with a Process job *)

Goto(w, from, to) == pc[w] = from /\ pc' = [pc EXCEPT ![w] = to]

TakeJob(w) ==
    /\ job
    /\ job' = FALSE
    /\ Goto(w, "free", "process")
    /\ UNCHANGED <<connection, wire, input, low, status, handed, lost>>

Processed(w) ==
    /\ Goto(w, "process", "peek")
    /\ status' = IF status = "Process" THEN "Idle" ELSE status
    /\ UNCHANGED <<connection, wire, input, low, job, handed, lost>>

\* The length is looked at without a lock.
Peek(w) ==
    /\ Goto(w, "peek", IF input > 0 THEN "reread" ELSE "free")
    /\ UNCHANGED <<connection, reader, input>>

Reread(w) ==
    /\ Goto(w, "reread", "free")
    /\ ReadCallback(input)
    /\ UNCHANGED connection

\* Bytes come one by one, or all that were written.
Next ==
    /\ ~lost /\ status # "Kicked"
    /\ \/ \E p \in Packets : WritePacket(p)
       \/ \E n \in {1, OnTheWay} : Arrive(n)
       \/ \E w \in Worker : TakeJob(w) \/ Processed(w) \/ Peek(w) \/ Reread(w)

Spec == Init /\ [][Next]_vars

------------------------------------------------------------------------------
(* Properties *)

\* "Check if the buffer has enough/right data to parse a Packet" (PacketLength.h:32):
\* a packet is taken out when all of its bytes are there and none of the next one's, so
\* that the next byte is again the type of a packet.
InStep == ~lost

\* A packet that is in the buffer of an idle client as a whole has been seen, or a worker
\* is about to look (Server.c:188, Worker.c:169): no watermark of an earlier look holds
\* it back, and a reader that waits for the rest of a packet waits for no byte behind it,
\* whatever part has arrived (PacketLength.c:292). It is about one worker; a second one
\* may look at a buffer the first emptied.
Noticed ==
    Cardinality(Worker) = 1 /\ status = "Idle" /\ wire # <<>> =>
        /\ input > 0 => low <= WireSize[Head(wire)]
        /\ chain = "Request" =>
               \/ input < WireSize[Head(wire)]
               \/ \E w \in Worker : pc[w] \in {"peek", "reread"}

\* SV_DestroyPacketData frees what SV_GetPacketDataFromBuffer allocated, as often as it
\* was allocated, for every packet the proxy forwards but two that it has no case for.
AllFreed == chain = "Response" => kept \subseteq {"UpdateSign", "PlayerListItem"}

\* "Create a Packet from a Buffers object" (Packet.h:928): the structure a handler gets
\* holds what was on the wire, every member stored to with its own width, neither a byte
\* of malloc's left in it nor one stored behind it (Buffer.c:215, Packet.c:408), for every
\* type but those in which an enumeration gets a byte, a byte a short, or an absent item
\* or flag leaves its members as they were.
StructsHoldThePacket ==
    torn \in {"none", "PlayerBlockPlacement", "Animation", "EntityAction", "EntityEffect",
              "RemoveEntityEffect", "UpdateSign", "SpawnObject", "SpawnMob", "EntityStatus",
              "SetSlot", "WindowItems"}

\* The proxy passes on packets as long as they came, so that its client stays in step with
\* it, but for windows with an empty slot (Packet.c:1209, 2133).
RelayedInStep == stretched \in {"none", "WindowItems"}
==============================================================================
