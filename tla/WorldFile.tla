----------------------------- MODULE WorldFile -----------------------------
(***************************************************************************)
(* The world file as bytes: the CRC that can be run backwards (rev_crc.rs),*)
(* the zip archive (zip_writer.rs), and taking a world apart and putting   *)
(* it together again (factorio_world.rs).  The chunks a file is cut into   *)
(* are the subject of Dedup: a file is its name and its contents here.     *)
(***************************************************************************)
EXTENDS FactorioPackets

CONSTANTS
    BlockSize,   \* TRANSFER_BLOCK_SIZE
    LevelNames   \* file names whose last part is level.dat and digits

-----------------------------------------------------------------------------
(* A u32 is its four bytes, the least significant first.                   *)

U32 == [1 .. 4 -> Byte]
Zeros(size) == [i \in 1 .. size |-> 0]
Aligned(size) == ((size + BlockSize - 1) \div BlockSize) * BlockSize

XorBits == [a \in 0 .. 15, b \in 0 .. 15 |->
    LET Differs(i) == IF Bit(a, i) # Bit(b, i) THEN 2 ^ i ELSE 0
    IN  Differs(0) + Differs(1) + Differs(2) + Differs(3)]

Xor[u, v \in U32] == [i \in 1 .. 4 |-> 16 * XorBits[u[i] \div 16, v[i] \div 16]
                                + XorBits[u[i] % 16, v[i] % 16]]
ShiftRight(u) == <<u[2], u[3], u[4], 0>>
ShiftLeft(u) == <<0, u[1], u[2], u[3]>>
AllOnes == <<255, 255, 255, 255>>   \* init and xorout of CRC_32_ISO_HDLC

\* The table of the crc crate: the remainder of each byte, bit by bit.
Table == [n \in Byte |->
    LET Halve(u) == [i \in 1 .. 4 |-> u[i] \div 2 + (IF i < 4 THEN 128 * (u[i + 1] % 2) ELSE 0)]
        bits[i \in 0 .. 8] ==
            IF i = 0 THEN LE(n, 4)
            ELSE LET u == bits[i - 1]
                 IN  IF u[1] % 2 = 1 THEN Xor[Halve(u), <<32, 131, 184, 237>>] ELSE Halve(u)
    IN  bits[8]]

\* crc::Digest::update (a half of the data at a time) and finalize.
Update[value \in U32, data \in Seq(Byte)] ==
    LET after[u \in U32, from \in 1 .. Len(data) + 1, to \in 0 .. Len(data)] ==
            LET half == (from + to) \div 2
            IN  CASE from > to -> u
                  [] from = to -> Xor[ShiftRight(u), Table[Xor[u, LE(data[from], 4)][1]]]
                  [] OTHER -> after[after[u, from, half], half + 1, to]
    IN  after[value, 1, Len(data)]
Finalize(value) == Xor[value, AllOnes]
Checksum(data) == Finalize(Update[AllOnes, data])

\* RevCRC::new: the top byte of a table entry tells which entry it is.
reverse_table == [top \in Byte |->
    LET n == CHOOSE n \in Byte : Table[n][4] = top
    IN  Xor[ShiftLeft(Table[n]), LE(n, 4)]]

\* RevDigest::update: the value before the data, from the value after it.
RevUpdate[value \in U32, data \in Seq(Byte)] ==
    LET before[u \in U32, from \in 1 .. Len(data) + 1, to \in 0 .. Len(data)] ==
            LET half == (from + to) \div 2
            IN  CASE from > to -> u
                  [] from = to -> Xor[Xor[ShiftLeft(u), reverse_table[u[4]]], LE(data[from], 4)]
                  [] OTHER -> before[before[u, half + 1, to], from, half]
    IN  before[value, 1, Len(data)]

\* forge_crc: the bytes that lead from one digest to the other.
ForgeCrc(before_digest, after_digest) == RevUpdate[after_digest, Xor[before_digest, AllOnes]]

-----------------------------------------------------------------------------
(* The codecs of miniz_oxide, at the level that stores data as it is: one  *)
(* stored block; with two bytes before it and a checksum after it in zlib  *)
(* format.                                                                 *)

Deflate(data) == <<1>> \o LE(Len(data), 2) \o LE(65535 - Len(data), 2) \o data
Inflate(data) == SubSeq(data, 6, Len(data))

Adler(data) ==
    LET sums[i \in 0 .. Len(data)] ==
            IF i = 0 THEN <<1, 0>>
            ELSE LET s == sums[i - 1]
                     low == (s[1] + data[i]) % 65521
                 IN  <<low, (s[2] + low) % 65521>>
    IN  Reverse(LE(sums[Len(data)][1], 2) \o LE(sums[Len(data)][2], 2))
CompressZlib(data) == <<120, 1>> \o Deflate(data) \o Adler(data)
DecompressZlib(data) == Inflate(SubSeq(data, 3, Len(data) - 4))

\* encode_factorio_file and decode_factorio_file.
EncodeFactorioFile(file) == IF file.name \in LevelNames THEN CompressZlib(file.data) ELSE file.data
DecodeFactorioFile(name, data) ==
    [name |-> name, data |-> IF name \in LevelNames THEN DecompressZlib(data) ELSE data]

-----------------------------------------------------------------------------
(* ZipWriter.                                                              *)

NewZip == [current_offset |-> 0, entries |-> <<>>]

\* The fields that a local header and a central directory entry share.
Described(entry) ==
    LE(45, 2) \o Zeros(2) \o LE(entry.compression_method, 2) \o Zeros(4)
        \o entry.data_crc \o LE(entry.compressed_size, 4) \o LE(entry.uncompressed_size, 4)
        \o LE(Len(entry.file_name), 2) \o Zeros(2)

\* encode_file: the entry, and the writer after it.
EncodeFile(zip, file_name, file_data, deflate) ==
    LET final_data == IF deflate THEN Deflate(file_data) ELSE file_data
        entry == [start_offset |-> zip.current_offset, file_name |-> file_name,
                  compressed_size |-> Len(final_data), uncompressed_size |-> Len(file_data),
                  compression_method |-> IF deflate THEN 8 ELSE 0,
                  data_crc |-> Checksum(file_data)]
        bytes == <<80, 75, 3, 4>> \o Described(entry) \o file_name \o final_data
    IN  [bytes |-> bytes,
         zip |-> [current_offset |-> zip.current_offset + Len(bytes),
                  entries |-> Append(zip.entries, entry)]]

\* encode_central_directory
EncodeCentralDirectory(zip) ==
    LET Encoded(entry) ==
            <<80, 75, 1, 2>> \o LE(45, 2) \o Described(entry) \o Zeros(10)
                \o LE(entry.start_offset, 4) \o entry.file_name
        directory == FoldLeft(LAMBDA acc, entry : acc \o Encoded(entry), <<>>, zip.entries)
        count == LE(Len(zip.entries), 2)
    IN  directory \o <<80, 75, 5, 6>> \o Zeros(4) \o count \o count
            \o LE(Len(directory), 4) \o LE(zip.current_offset, 4) \o Zeros(2)

\* central_directory_size
CentralDirectorySize(zip) ==
    FoldLeft(LAMBDA size, entry : size + 46 + Len(entry.file_name), 22, zip.entries)

-----------------------------------------------------------------------------
(* WorldReconstructor.                                                     *)

NewReconstructor == [zip |-> NewZip, crc |-> AllOnes]

\* reconstruct_world_file: the bytes, and the reconstructor after them.
ReconstructWorldFile(rec, file) ==
    LET encoded == EncodeFile(rec.zip, file.name, EncodeFactorioFile(file),
                              file.name \notin LevelNames)
    IN  [bytes |-> encoded.bytes,
         rec |-> [zip |-> encoded.zip, crc |-> Update[rec.crc, encoded.bytes]]]

\* total_size of finalize_world; the 4 bytes are the forged ones.
TotalSize(rec) == rec.zip.current_offset + CentralDirectorySize(rec.zip) + 4

\* Mutant: the directory is said to start where the forged bytes start.
AdvanceOffsetShort(zip, padding) == [zip EXCEPT !.current_offset = @ + padding]

\* zip_writer.advance_offset(output.len() + 4)
AdvanceOffset(zip, padding) == [zip EXCEPT !.current_offset = @ + padding + 4]

\* Mutant: the auxiliary data starts right after the world.
AlignedAuxAdjacent(aux_data, world_size) ==
    aux_data \o Zeros(Aligned(world_size + Len(aux_data)) - world_size - Len(aux_data))

\* From the next block on the auxiliary data, filled up to a whole block.
AlignedAux(aux_data, world_size) ==
    Zeros(Aligned(world_size) - world_size)
        \o aux_data \o Zeros(Aligned(Len(aux_data)) - Len(aux_data))

\* finalize_world, for a world that fits the size in new_info: padding up to
\* that size, forged bytes, central directory, auxiliary data.
FinalizeWorld(rec, aux_data, info) ==
    LET padding == Zeros(info.world_size - TotalSize(rec))
        footer == EncodeCentralDirectory(AdvanceOffset(rec.zip, Len(padding)))
        forward_crc == Finalize(Update[rec.crc, padding])
        reverse_crc == RevUpdate[RevUpdate[Xor[info.world_crc, AllOnes], aux_data], footer]
    IN  padding \o ForgeCrc(forward_crc, reverse_crc) \o footer
            \o AlignedAux(aux_data, info.world_size)

-----------------------------------------------------------------------------
(* Taking an archive apart.                                                *)

\* The w bytes of the archive from offset p on.
At(archive, p, w) == SubSeq(archive, p + 1, p + w)

\* zip::ZipArchive: the end record leads to the directory, whose entries lead
\* to the files.  Anything that is not where it should be is an error, <<>>.
ZipArchive(archive) ==
    LET end == Len(archive) - 22
        start == Number(At(archive, end + 16, 4))
        count == Number(At(archive, end + 10, 2))
        Following(p) == p + 46 + Number(At(archive, p + 28, 2))
        Signed(p) == At(archive, p, 4) = <<80, 75, 1, 2>>
        entry[i \in 1 .. count] ==
            IF i = 1 THEN start
            ELSE LET p == entry[i - 1] IN IF Signed(p) THEN Following(p) ELSE p
        File(p) ==
            LET offset == Number(At(archive, p + 42, 4))
                name == At(archive, p + 46, Number(At(archive, p + 28, 2)))
                stored == At(archive, offset + 30 + Len(name), Number(At(archive, p + 20, 4)))
                data == IF At(archive, p + 10, 2) = LE(8, 2) THEN Inflate(stored) ELSE stored
            IN  [name |-> name, data |-> data,
                 ok |-> /\ At(archive, offset, 4) = <<80, 75, 3, 4>>
                        /\ At(archive, offset + 26, 2) = LE(Len(name), 2)
                        /\ Checksum(data) = At(archive, p + 16, 4)
                        /\ LE(Len(data), 4) = At(archive, p + 24, 4)]
    IN  IF /\ At(archive, end, 4) = <<80, 75, 5, 6>>
           /\ \A i \in 1 .. count : Signed(entry[i])
           /\ Following(entry[count]) = end
           /\ \A i \in 1 .. count : File(entry[i]).ok
        THEN [i \in 1 .. count |-> File(entry[i])]
        ELSE <<>>

\* deconstruct_world
DeconstructWorld(world_data) ==
    LET zip == ZipArchive(world_data)
    IN  [i \in DOMAIN zip |-> DecodeFactorioFile(zip[i].name, zip[i].data)]
=============================================================================
