------------------------------- MODULE Chunks -------------------------------
(***************************************************************************)
(* Chunks, keys and chunk lists of common/src/dedup.rs.  A chunk of data   *)
(* is <<"raw", v>>; an encoded chunk list has another constructor, so that *)
(* the two never coincide.  blake3 is taken to be injective.               *)
(***************************************************************************)
EXTENDS Sequences

Raw(v) == <<"raw", v>>

\* ChunkKey(blake3::hash(..)), and the content a key stands for on the side
\* that made it.
Hash(d) == <<"blake3", d>>
Content(key) == key[2]

EmptyList(is_leaf) == [is_leaf |-> is_leaf, chunks |-> <<>>]

\* ChunkList::encode and ChunkList::decode.
Encode(list) == <<"list", list.is_leaf, list.chunks>>
Decode(d) == [is_leaf |-> d[2], chunks |-> d[3]]
=============================================================================
