-------------------------- MODULE FactorioPackets --------------------------
(***************************************************************************)
(* The packets of Factorio that the proxies look into                      *)
(* (factorio_protocol.rs, the varints of common/src/utils.rs), as bytes,   *)
(* and the filter that rewrites the announced size of the world            *)
(* (filter_packet of server_proxy.rs).  A value that cannot be decoded is  *)
(* Error.                                                                  *)
(***************************************************************************)
EXTENDS Integers, SequencesExt

Byte == 0 .. 255
Error == [error |-> TRUE]
Failed(v) == "error" \in DOMAIN v

\* Integers, least significant byte first.
LE(n, width) == [i \in 1 .. width |-> (n \div 256 ^ (i - 1)) % 256]
Number(bytes) == FoldLeft(LAMBDA acc, b : 256 * acc + b, 0, Reverse(bytes))
From(s, i) == SubSeq(s, i, Len(s))

\* What the get methods of Buf return: a value, and what is left of the buffer.
Get[s \in Seq(Byte), width \in Nat] ==
    IF Len(s) < width THEN Error ELSE [value |-> SubSeq(s, 1, width), left |-> From(s, width + 1)]

\* try_get_factorio_varint16 and try_get_factorio_varint32: one byte, or 255
\* and the number in full.
GetVarint[s \in Seq(Byte), width \in Nat] ==
    IF s = <<>> THEN Error
    ELSE IF s[1] = 255 THEN Get[Tail(s), width] ELSE Get[s, 1]

\* try_advance
Skip[s \in Seq(Byte), n \in Nat] ==
    IF Len(s) < n THEN Error ELSE [value |-> <<>>, left |-> From(s, n + 1)]

-----------------------------------------------------------------------------
(* FactorioPacketHeader.                                                   *)

ServerToClientHeartbeat == 7
TransferBlockRequest == 12
TransferBlock == 13

Bit(flags, i) == (flags \div 2 ^ i) % 2 = 1

\* The confirm array.
SkipConfirms[s \in Seq(Byte)] ==
    IF Len(s) < 4 THEN Error ELSE Skip[From(s, 5), Number(SubSeq(s, 1, 4))]

\* The fragment id: -1 for a packet that is not fragmented, and -2 for a last
\* fragment without an id.
DecodeFragment[flags \in Byte, s \in Seq(Byte)] ==
    IF Len(s) < 2 THEN Error
    ELSE LET message_id == Number(SubSeq(s, 1, 2))
             fragment_id == IF Bit(flags, 6) THEN GetVarint[From(s, 3), 2] ELSE Get[From(s, 3), 0]
             msg == IF message_id >= 32768 THEN SkipConfirms[fragment_id.left] ELSE fragment_id
         IN  IF Failed(fragment_id) THEN Error
             ELSE IF Failed(msg) THEN Error
             ELSE [fragment |-> IF Bit(flags, 6) THEN Number(fragment_id.value) ELSE -2,
                   left |-> msg.left]

\* FactorioPacketHeader::decode
DecodeHeader[s \in Seq(Byte)] ==
    IF s = <<>> THEN Error
    ELSE LET fragment == IF Bit(s[1], 6) \/ Bit(s[1], 7) THEN DecodeFragment[s[1], Tail(s)]
                         ELSE [fragment |-> -1, left |-> Tail(s)]
         IN  IF Failed(fragment) THEN Error
             ELSE [packet_type |-> s[1] % 32, fragment |-> fragment.fragment, msg |-> fragment.left]

\* FactorioPacket::encode_full_packet, with the header of FactorioPacketHeader::encode.
EncodeFullPacket(packet_type, msg) == <<packet_type>> \o msg

\* TransferBlockPacket::encode
EncodeBlock(block_id, data) == EncodeFullPacket(TransferBlock, LE(block_id, 4) \o data)

\* A packet of that type, which begins with a block id:
\* TransferBlockRequestPacket::decode and TransferBlockPacket::decode.
DecodeBlock[type \in Byte, s \in Seq(Byte)] ==
    LET header == DecodeHeader[s]
        id == Get[header.msg, 4]
    IN  IF Failed(header) THEN Error
        ELSE IF header.packet_type # type \/ Failed(id) THEN Error
        ELSE [block_id |-> Number(id.value), data |-> id.left]

-----------------------------------------------------------------------------
(* ServerToClientHeartbeatPacket and FactorioWorldMetadata.                *)

FactorioWorldMetadata ==
    [world_size : Nat, no_idea1 : Seq(Byte), aux_size : Nat, no_idea2 : Seq(Byte), world_crc : Seq(Byte)]

EncodeInfo(info) ==
    LE(info.world_size, 4) \o info.no_idea1 \o LE(info.aux_size, 4) \o info.no_idea2 \o info.world_crc

DecodeInfo(s) ==
    [world_size |-> Number(SubSeq(s, 1, 4)), no_idea1 |-> SubSeq(s, 5, 8),
     aux_size |-> Number(SubSeq(s, 9, 12)), no_idea2 |-> SubSeq(s, 13, 16),
     world_crc |-> SubSeq(s, 17, 20)]

\* try_decode_map_ready, from the actions on: the first one must be
\* MAP_READY_FOR_DOWNLOAD.
DecodeActions[s \in Seq(Byte)] ==
    LET count == GetVarint[s, 4]
    IN  IF Failed(count) THEN Error
        ELSE IF Number(count.value) = 0 \/ Len(count.left) < 21 THEN Error
        ELSE IF Head(count.left) # 5 THEN Error
        ELSE DecodeInfo(Tail(count.left))

\* The world that a heartbeat announces, as on_packet_from_server looks for it:
\* flags that say HasSynchronizerActions only, a sequence number, the actions.
MapReady[s \in Seq(Byte)] ==
    LET header == DecodeHeader[s]
    IN  IF Failed(header) THEN Error
        ELSE IF header.packet_type # ServerToClientHeartbeat \/ header.fragment \notin {-1, 0}
        THEN Error
        ELSE IF Len(header.msg) < 5 THEN Error
        ELSE IF Head(header.msg) # 16 THEN Error
        ELSE DecodeActions[From(header.msg, 6)]

\* The places that Finder::find_iter yields: leftmost first, none overlapping
\* another.
FindIter(needle, s) ==
    FoldLeft(LAMBDA found, p :
                 IF /\ SubSeq(s, p + 1, p + Len(needle)) = needle
                    /\ \A q \in found : q + Len(needle) <= p
                 THEN found \cup {p} ELSE found,
             {}, [i \in 1 .. Len(s) - Len(needle) + 1 |-> i - 1])

\* filter_packet: every place that holds the old information gets the new one.
FilterPacket[old, new \in FactorioWorldMetadata, s \in Seq(Byte)] ==
    LET found == FindIter(EncodeInfo(old), s)
    IN  [i \in DOMAIN s |->
            IF \E p \in found : i - p \in 1 .. 20
            THEN EncodeInfo(new)[i - (CHOOSE p \in found : i - p \in 1 .. 20)]
            ELSE s[i]]
=============================================================================
