---------------------------- MODULE BlockServing ----------------------------
(***************************************************************************)
(* The Factorio client proxy of one player                                 *)
(* (factorio-cacher/src/proxy/client_proxy.rs): while transfer_world_data  *)
(* reconstructs the world file by file (WorldReconstructor, see WorldFile) *)
(* and sends it piece by piece over a channel, the proxy loop              *)
(* (proxy_client, ClientProxyState) answers the block requests of the game *)
(* client from what has arrived.  The world is rebuilt byte for byte.      *)
(***************************************************************************)
EXTENDS WorldFile

CONSTANTS
    Worlds,          \* the worlds: files, auxiliary data, and the heartbeat of
                     \* the Factorio server that announces them
    Multiplier,      \* world_estimate_multiplier, in percent
    RequestHeaders,  \* what the game client puts before the id in a block request
    OtherPackets,    \* its other packets
    Capacity,        \* capacity of the world data channel
    MaxFailures      \* bound: failing transfers, 0 or 1

\* The WorldReadyMessage of a world, with the world_info and the new_world_info
\* of transition_to_downloading_world, and what the game client reads in the
\* announcement that the server proxy sends on.
Message[w \in Worlds, world_info \in FactorioWorldMetadata] ==
    LET new_info == [world_info EXCEPT !.world_size = (@ * Multiplier) \div 100]
    IN  [files |-> w.files, aux_data |-> w.aux_data, new_info |-> new_info,
         announced |-> MapReady[FilterPacket[world_info, new_info, w.heartbeat]]]
WorldReady == {Message[w, MapReady[w.heartbeat]] : w \in Worlds}

ASSUME ServingAssumption ==
    /\ \A w \in Worlds :
        /\ ~Failed(MapReady[w.heartbeat])
        /\ MapReady[w.heartbeat].aux_size = Len(w.aux_data)
    /\ {BlockSize, Capacity} \subseteq Nat \ {0}

VARIABLES
    ready,       \* the message of this transfer
    transfer,    \* transfer_world_data: files sent, reconstructor, and how it ended
    channel,     \* world data sent and not yet received
    world_data,  \* what the proxy loop has received
    done,        \* world_data_done
    pending,     \* pending_requests
    idle,        \* last_block_request is over WORLD_DATA_TIMEOUT ago
    cleaned,     \* history: the local copy was given up
    out          \* the packets the last step sent to the game client

vars == <<ready, transfer, channel, world_data, done, pending, idle, cleaned, out>>

\* The game client asks for the blocks of the world it was announced.
TransferSize(info) == Aligned(info.world_size) + Aligned(info.aux_size)
Block == 0 .. TransferSize(ready.announced) \div BlockSize - 1
GamePacket == {header \o LE(b, 4) : header \in RequestHeaders, b \in Block} \cup OtherPackets

TypeOK ==
    /\ {ready.new_info, ready.announced} \subseteq FactorioWorldMetadata
    /\ transfer.sent \in 0 .. Len(ready.files) + 1
    /\ transfer.rec.crc \in U32
    /\ {transfer.ended, transfer.ok} \subseteq BOOLEAN
    /\ Len(channel) <= Capacity
    /\ world_data \in Seq(Byte)
    /\ pending \subseteq Block
    /\ \A p \in out : p \in Seq(Byte)
    /\ {done, idle, cleaned} \subseteq BOOLEAN

Init ==
    /\ ready \in WorldReady
    /\ transfer = [sent |-> 0, rec |-> NewReconstructor, ended |-> FALSE, ok |-> TRUE]
    /\ channel = <<>>
    /\ world_data = <<>>
    /\ done = FALSE
    /\ pending = {}
    /\ idle = FALSE
    /\ cleaned = FALSE
    /\ out = {}

-----------------------------------------------------------------------------
(* transfer_world_data.                                                    *)

\* finalize_world refuses a world that does not fit the estimated size.
Fits(rec) == TotalSize(rec) <= ready.new_info.world_size

\* The next file is reconstructed and sent, or the last piece, which ends the
\* transfer and closes the channel.
SendPiece ==
    /\ ~transfer.ended
    /\ Len(channel) < Capacity
    /\ LET i == transfer.sent + 1
       IN  IF i \in DOMAIN ready.files
           THEN LET file == ReconstructWorldFile(transfer.rec, ready.files[i])
                IN  /\ transfer' = [transfer EXCEPT !.sent = i, !.rec = file.rec]
                    /\ channel' = Append(channel, file.bytes)
           ELSE /\ Fits(transfer.rec)
                /\ transfer' = [transfer EXCEPT !.sent = i, !.ended = TRUE]
                /\ channel' = Append(channel, FinalizeWorld(transfer.rec, ready.aux_data, ready.new_info))
    /\ out' = {}
    /\ UNCHANGED <<ready, world_data, done, pending, idle, cleaned>>

\* The description or a chunk cannot be had, or the world does not fit the
\* estimated size: an error, and the channel is closed early.
FailTransfer ==
    /\ ~transfer.ended
    /\ MaxFailures > 0 \/ (transfer.sent = Len(ready.files) /\ ~Fits(transfer.rec))
    /\ transfer' = [transfer EXCEPT !.ended = TRUE, !.ok = FALSE]
    /\ out' = {}
    /\ UNCHANGED <<ready, channel, world_data, done, pending, idle, cleaned>>

-----------------------------------------------------------------------------
(* The proxy loop.                                                         *)

\* try_fulfill_block_request serves only whole blocks.
Fulfillable(b, data) == (b + 1) * BlockSize <= Len(data)

\* Mutant: blocks overlap by a byte.
PacketOverlapping(b, data) ==
    EncodeBlock(b, SubSeq(data, b * (BlockSize - 1) + 1, b * (BlockSize - 1) + BlockSize))

Packet(b, data) == EncodeBlock(b, SubSeq(data, b * BlockSize + 1, (b + 1) * BlockSize))

\* on_packet_from_client: a block request is answered or kept.  Any other packet,
\* and one that cannot be decoded, is forwarded to the server, and the local copy
\* given up when nobody asked for it for a while.
PacketFromClient(p) ==
    LET request == DecodeBlock[TransferBlockRequest, p]
    IN  IF Failed(request)
        THEN /\ IF world_data # <<>> /\ done /\ idle
                THEN world_data' = <<>> /\ cleaned' = TRUE
                ELSE UNCHANGED <<world_data, cleaned>>
             /\ out' = {}
             /\ UNCHANGED <<ready, transfer, channel, done, pending, idle>>
        ELSE /\ idle' = FALSE
             /\ IF Fulfillable(request.block_id, world_data)
                THEN out' = {Packet(request.block_id, world_data)} /\ UNCHANGED pending
                ELSE out' = {} /\ pending' = pending \cup {request.block_id}
             /\ UNCHANGED <<ready, transfer, channel, world_data, done, cleaned>>

\* Mutant: requests made before the data stay where they are.
StillPendingAll(data) == pending

\* The requests that on_new_world_data puts into pending_requests_swap.
StillPending(data) == {b \in pending : ~Fulfillable(b, data)}

\* on_new_world_data, with a piece.
NewWorldData ==
    /\ channel # <<>>
    /\ channel' = Tail(channel)
    /\ world_data' = world_data \o Head(channel)
    /\ out' = {Packet(b, world_data') : b \in {c \in pending : Fulfillable(c, world_data')}}
    /\ pending' = StillPending(world_data')
    /\ idle' = FALSE
    /\ UNCHANGED <<ready, transfer, done, cleaned>>

\* on_new_world_data, the channel being closed.
WorldDataDone ==
    /\ channel = <<>>
    /\ transfer.ended
    /\ ~done
    /\ done' = TRUE
    /\ idle' = FALSE
    /\ out' = {}
    /\ UNCHANGED <<ready, transfer, channel, world_data, pending, cleaned>>

\* WORLD_DATA_TIMEOUT passes without a block request.
Timeout ==
    /\ ~idle
    /\ idle' = TRUE
    /\ out' = {}
    /\ UNCHANGED <<ready, transfer, channel, world_data, done, pending, cleaned>>

Next ==
    \/ SendPiece
    \/ FailTransfer
    \/ \E p \in GamePacket : PacketFromClient(p)
    \/ NewWorldData
    \/ WorldDataDone
    \/ Timeout

Spec == Init /\ [][Next]_vars

\* The two tasks run; the game client need not ask.  The first conjunct is weak
\* fairness of transfer_world_data, with its ENABLED written out.
FairSpec ==
    /\ Spec
    /\ <>[](~transfer.ended /\ Len(channel) < Capacity) => []<><<transfer' # transfer>>_vars
    /\ WF_vars(NewWorldData)

-----------------------------------------------------------------------------
(* Properties.                                                             *)

\* The world of each message, put together without a proxy in between.
World == [m \in WorldReady |->
    LET rebuilt == FoldLeft(LAMBDA acc, file :
                                LET next == ReconstructWorldFile(acc.rec, file)
                                IN  [rec |-> next.rec, bytes |-> acc.bytes \o next.bytes],
                            [rec |-> NewReconstructor, bytes |-> <<>>], m.files)
    IN  IF TotalSize(rebuilt.rec) <= m.new_info.world_size
        THEN rebuilt.bytes \o FinalizeWorld(rebuilt.rec, m.aux_data, m.new_info)
        ELSE rebuilt.bytes]

\* What the game client makes of the packets it gets.
Received == {DecodeBlock[TransferBlock, p] : p \in out}

\* Every block sent to the game client, early or late, is a whole block that it
\* asked for, and that block of one and the same world (on_packet_from_client,
\* on_new_world_data, try_fulfill_block_request, the packet codecs).
BlocksRight ==
    \A a \in Received :
        /\ ~Failed(a)
        /\ a.block_id \in Block
        /\ Len(a.data) = BlockSize
        /\ a.data = SubSeq(World[ready], a.block_id * BlockSize + 1, (a.block_id + 1) * BlockSize)

\* A transfer that succeeds leaves exactly the world that the game client was
\* told of: an archive of the announced size that unpacks to the original files
\* though it was compressed anew and padded, auxiliary data from the next block
\* on, and over both the checksum of the original world (filter_packet,
\* reconstruct_world_file, finalize_world, ZipWriter, forge_crc; the asserts in
\* finalize_world).
WorldAsAnnounced ==
    done /\ transfer.ok /\ ~cleaned =>
        LET info == ready.announced
            archive == SubSeq(world_data, 1, info.world_size)
            aux == Aligned(info.world_size)
        IN  /\ Len(world_data) = TransferSize(info)
            /\ SubSeq(world_data, aux + 1, aux + info.aux_size) = ready.aux_data
            /\ Checksum(archive \o ready.aux_data) = info.world_crc
            /\ DeconstructWorld(archive) = ready.files

\* No request waits for data that is there: requests that came too early are
\* answered with the piece that completes their block (on_new_world_data).
NoneOverlooked ==
    /\ TypeOK
    /\ \A b \in pending : ~Fulfillable(b, world_data)

\* A request for a block, however its packet is fragmented, is answered at once
\* or kept, and unless the transfer fails or the copy is given up, one that is
\* kept is answered in the end, for the last block of the announced world too
\* (FactorioPacketHeader::decode, the channel between transfer_world_data and the
\* proxy loop, the alignment in finalize_world).
RequestsAnswered ==
    /\ [][\A header \in RequestHeaders, b \in Block :
              PacketFromClient(header \o LE(b, 4)) =>
                  b \in pending' \cup {a.block_id : a \in Received'}]_vars
    /\ [](transfer.ok /\ ~cleaned) =>
           \A b \in UNION {0 .. TransferSize(m.announced) \div BlockSize : m \in WorldReady} :
               b \in pending ~> (\E a \in Received : a.block_id = b)
=============================================================================
