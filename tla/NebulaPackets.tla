---------------------------- MODULE NebulaPackets ----------------------------
(***************************************************************************)
(* The packets the Nebula proxies deduplicate                              *)
(* (dsp-nebula-cacher/src/nebula_protocol).  The server proxy cuts the     *)
(* LZ4 frame out of a packet, unpacks it and chunks what is in it; the     *)
(* client proxy streams the chunks into a new frame                        *)
(* (lz4_frame_encoder.rs) that is not compressed, of a size it announces   *)
(* before it has seen the first chunk.                                     *)
(*                                                                         *)
(* Packets are byte strings.  Sizes stay below 256, so that the higher     *)
(* bytes of a number are zero, but for the flag of an LZ4 block.           *)
(***************************************************************************)
EXTENDS Dedup

CONSTANTS
    MAX_BLOCK_SIZE,
    Kinds           \* "global", "factory" and "dyson", or none for files

VARIABLES
    kind,      \* the kind of packet the data belongs to, or "file"
    packet,    \* NebulaPacket: its description, or <<>>
    step,      \* where reconstruct is
    todo,      \* the chunks reconstruct_data still yields
    encoder,   \* Lz4DeterministicFrameEncoder
    sink       \* fragments sent to out_sink

pvars == <<kind, packet, step, todo, encoder, sink>>
allvars == <<vars, pvars>>

U32(n) == <<n, 0, 0, 0>>
Number(bytes) == bytes[1]

-----------------------------------------------------------------------------
(* LZ4 frames: a header, blocks, an end mark and a checksum.               *)

FrameHeader == <<4, 34, 77, 24, 100, 64, 167>>

\* XxHash32 is any function of the content.
Checksum(s) == <<Len(s), FoldLeft(LAMBDA h, b : (2 * h + b) % 251, 7, s), 1, 1>>

\* A block with the flag in its size is stored as it is; otherwise it is a
\* token with the number of literals, and the literals.
StoredBlock(s) == <<Len(s), 0, 0, 128>> \o s
CompressedBlock(s) == U32(Len(s) + 1) \o <<16 * Len(s)>> \o s

\* The frames the games make, and what lz4_flex and the games read: the content
\* of a well-formed frame, and <<-1>> for anything else.
Compress(s) ==
    FrameHeader \o (IF s = <<>> THEN <<>> ELSE CompressedBlock(s)) \o U32(0) \o Checksum(s)

RECURSIVE ReadBlocks(_, _)
ReadBlocks(frame, read) ==
    IF Len(frame) < 4 THEN <<-1>>
    ELSE LET size == Number(frame)
             block == SubSeq(frame, 5, 4 + size)
             others == SubSeq(frame, 5 + size, Len(frame))
         IN  IF SubSeq(frame, 1, 4) = U32(0)
             THEN IF SubSeq(frame, 5, Len(frame)) = Checksum(read) THEN read ELSE <<-1>>
             ELSE IF Len(frame) < 4 + size \/ size = 0 THEN <<-1>>
             ELSE ReadBlocks(others, read \o (IF frame[4] = 128 THEN block ELSE Tail(block)))

Decompress(frame) ==
    IF Len(frame) < 7 THEN <<-1>>
    ELSE IF SubSeq(frame, 1, 7) # FrameHeader THEN <<-1>>
    ELSE ReadBlocks(SubSeq(frame, 8, Len(frame)), <<>>)

-----------------------------------------------------------------------------
(* lz4_frame_encoder.rs                                                    *)

NewEncoder == [pending_data |-> <<>>, buffer |-> FrameHeader, hashed |-> <<>>]

BuildBlock(e) ==
    LET block_size == Least(MAX_BLOCK_SIZE, Len(e.pending_data))
        block == SubSeq(e.pending_data, 1, block_size)
    IN  [pending_data |-> SubSeq(e.pending_data, block_size + 1, Len(e.pending_data)),
         buffer |-> e.buffer \o StoredBlock(block),
         hashed |-> e.hashed \o block]

RECURSIVE BuildBlocks(_)
BuildBlocks(e) == IF Len(e.pending_data) < MAX_BLOCK_SIZE THEN e ELSE BuildBlocks(BuildBlock(e))

\* add_data: the encoder afterwards, with a fragment in its buffer or not.
AddData(e, s) == BuildBlocks([e EXCEPT !.pending_data = @ \o s])
HasFragment(e, s) == Len(e.pending_data \o s) >= MAX_BLOCK_SIZE

\* finish
FinishFrame(e) ==
    LET f == IF e.pending_data # <<>> THEN BuildBlock(e) ELSE e
    IN  f.buffer \o U32(0) \o Checksum(f.hashed)

\* Mutant: an unfinished block is not counted.
FramedSizeWholeBlocks(n) == 7 + 4 * (n \div MAX_BLOCK_SIZE) + n + 8

\* framed_size: header, blocks, end mark and checksum.
FramedSize(n) == 7 + 4 * ((n + MAX_BLOCK_SIZE - 1) \div MAX_BLOCK_SIZE) + n + 8

-----------------------------------------------------------------------------
(* Packets: an id, a field, the length of the frame, the frame, and what   *)
(* follows it.                                                             *)

PacketId(k) == [i \in 1 .. 8 |-> IF k = "global" THEN 1 ELSE IF k = "factory" THEN 2 ELSE 3]
FieldSize(k) == IF k = "global" THEN 1 ELSE 4
HeaderSize(k) == 8 + FieldSize(k) + 4

\* NebulaPacketHeader::decode, of a packet of kind k.
DecodeHeader(k, s) ==
    [field |-> SubSeq(s, 9, 8 + FieldSize(k)),
     data_length |-> Number(SubSeq(s, 9 + FieldSize(k), HeaderSize(k)))]

\* try_split_to fails on a short packet.
CanSplit(s, n) == Len(s) >= n

\* The content of a packet: its field, its unpacked data, and what follows, be
\* it terrain data after its length, an event type, or nothing.
Parse(k, s) ==
    LET h == DecodeHeader(k, s)
        body == SubSeq(s, HeaderSize(k) + 1, Len(s))
        after == SubSeq(body, h.data_length + 1, Len(body))
    IN  IF ~CanSplit(body, h.data_length) THEN "too short"
        ELSE [field |-> h.field, data |-> Decompress(SubSeq(body, 1, h.data_length)),
              after |-> after]

\* What the game server sends.  The terrain of a planet is the data reversed.
After == [global |-> <<>>, factory |-> U32(Len(data)) \o Reverse(data), dyson |-> <<9, 8, 7, 6>>]
Original ==
    LET field == [i \in 1 .. FieldSize(kind) |-> 40 + i]
        frame == Compress(data)
    IN  PacketId(kind) \o field \o U32(Len(frame)) \o frame \o After[kind]

\* What reconstruct sends first, and right after the frame.
Header(p) == PacketId(kind) \o p.field \o U32(FramedSize(p.data_uncompressed_length))
Trailer(p) == CASE kind = "global" -> <<>>
                [] kind = "factory" -> << U32(p.terrain_data_length) >>
                [] kind = "dyson" -> << p.event_type >>

\* The chunks reconstruct_data yields.
Yields(list) ==
    LET gets == SelectSeq(ReconstructCalls(list), LAMBDA c : c.op = "get" /\ c.yield)
    IN  [i \in DOMAIN gets |-> Content(gets[i].keys[1])[2]]

-----------------------------------------------------------------------------
PacketInit ==
    /\ Init
    /\ kind \in Kinds \cup {"file"}
    /\ packet = <<>>
    /\ step = "deconstruct"
    /\ todo = <<>>
    /\ encoder = NewEncoder
    /\ sink = <<>>

\* deconstruct: the data is chunked (as TakeChunk did, without minimizing), the
\* rest of the packet follows.
Deconstruct ==
    /\ kind # "file"
    /\ rest = <<>>
    /\ step = "deconstruct"
    /\ LET p == Parse(kind, Original)
           t == Close([levels |-> tree_levels, chunks |-> chunks])
           terrain == ChunkData(SubSeq(p.after, 5, Len(p.after)), t.chunks)
           common == [field |-> p.field, data_uncompressed_length |-> Len(p.data),
                      data_chunk_list |-> Last(t.levels)]
       IN  IF kind = "factory"
           THEN /\ chunks' = terrain.chunks
                /\ packet' = [terrain_data_length |-> Number(p.after),
                              terrain_data_chunk_list |-> Last(terrain.levels)] @@ common
           ELSE /\ chunks' = t.chunks
                /\ packet' = [event_type |-> p.after] @@ common
    /\ step' = "header"
    /\ UNCHANGED <<data, rest, pieces, tree_levels, root, kind, todo, encoder, sink>>

\* reconstruct: the header with the size of the frame to come.
SendHeader ==
    /\ step = "header"
    /\ step' = "frame"
    /\ sink' = << Header(packet) >>
    /\ todo' = Yields(packet.data_chunk_list)
    /\ UNCHANGED <<vars, kind, packet, encoder>>

\* reconstruct_lz4_data: the next chunk, and a fragment if a block is full.
EncodeChunk ==
    /\ step = "frame"
    /\ todo # <<>>
    /\ LET e == AddData(encoder, Head(todo))
       IN  IF HasFragment(encoder, Head(todo))
           THEN /\ encoder' = [e EXCEPT !.buffer = <<>>]
                /\ sink' = Append(sink, e.buffer)
           ELSE encoder' = e /\ UNCHANGED sink
    /\ todo' = Tail(todo)
    /\ UNCHANGED <<vars, kind, packet, step>>

\* The end of the frame, and what follows it up to the terrain data.
EndFrame ==
    /\ step = "frame"
    /\ todo = <<>>
    /\ sink' = sink \o << FinishFrame(encoder) >> \o Trailer(packet)
    /\ IF kind = "factory"
       THEN /\ step' = "terrain"
            /\ todo' = Yields(packet.terrain_data_chunk_list)
       ELSE step' = "done" /\ UNCHANGED todo
    /\ UNCHANGED <<vars, kind, packet, encoder>>

\* The terrain data is sent chunk by chunk.
SendTerrain ==
    /\ step = "terrain"
    /\ IF todo = <<>>
       THEN step' = "done" /\ UNCHANGED <<todo, sink>>
       ELSE /\ sink' = Append(sink, Head(todo))
            /\ todo' = Tail(todo)
            /\ UNCHANGED step
    /\ UNCHANGED <<vars, kind, packet, encoder>>

PacketNext ==
    \/ TakeChunk /\ UNCHANGED pvars
    \/ kind = "file" /\ Finish /\ UNCHANGED pvars
    \/ Deconstruct
    \/ SendHeader
    \/ EncodeChunk
    \/ EndFrame
    \/ SendTerrain

PacketSpec == PacketInit /\ [][PacketNext]_allvars

-----------------------------------------------------------------------------
\* The packet a game client gets has the content of the original though its
\* frame has another size: read as the game reads it, by the length announced
\* before the first chunk, it has the same field, the same data under a valid
\* checksum, and after it the terrain data or event type, and no byte more
\* (deconstruct and reconstruct of the three packets, framed_size, add_data,
\* finish).  No fragment on the way is empty.
PacketRoundTrip ==
    /\ step = "done" => Parse(kind, FlattenSeq(sink)) = Parse(kind, Original)
    /\ \A i \in DOMAIN sink : sink[i] # <<>>
=============================================================================
