------------------------------ MODULE ChunkTree ------------------------------
(***************************************************************************)
(* The calls on the chunk provider that walking trees of chunk lists makes *)
(* (prefetch_metadata_chunks and reconstruct_data of common/src/dedup.rs). *)
(***************************************************************************)
EXTENDS Chunks, SequencesExt

Prefetch(keys) == [op |-> "prefetch", keys |-> keys, yield |-> FALSE]
GetChunk(key, yield) == [op |-> "get", keys |-> <<key>>, yield |-> yield]

\* The calls prefetch_metadata_chunks makes: level by level, every list of
\* the level is prefetched and the children of inner lists are fetched.
RECURSIVE MetadataCalls(_)
MetadataCalls(lists) ==
    IF lists = <<>> THEN <<>>
    ELSE LET inner == SelectSeq(lists, LAMBDA l : ~l.is_leaf)
             children == FlattenSeq([i \in DOMAIN inner |-> inner[i].chunks])
             all == FlattenSeq([i \in DOMAIN lists |-> lists[i].chunks])
         IN  <<Prefetch(all)>>
             \o [i \in DOMAIN children |-> GetChunk(children[i], FALSE)]
             \o MetadataCalls([i \in DOMAIN children |-> Decode(Content(children[i]))])

\* The calls reconstruct_data makes; a chunk of a leaf is yielded.
RECURSIVE ReconstructCalls(_)
ReconstructCalls(list) ==
    <<Prefetch(list.chunks)>>
    \o FlattenSeq([i \in DOMAIN list.chunks |->
          <<GetChunk(list.chunks[i], list.is_leaf)>>
          \o IF list.is_leaf THEN <<>>
             ELSE ReconstructCalls(Decode(Content(list.chunks[i])))])
=============================================================================
