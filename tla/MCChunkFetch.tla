---------------------------- MODULE MCChunkFetch ----------------------------
(***************************************************************************)
(* Three tasks that rebuild files with common chunks.  One file is a tree of *)
(* two levels, as chunk_data and minimize_chunk_list make it, in which a   *)
(* chunk occurs twice; the others are single leaf lists.                   *)
(***************************************************************************)
EXTENDS ChunkFetch, ChunkTree

CONSTANTS t1, t2, t3

A == Raw("a")
B == Raw("b")
C == Raw("c")

Leaf(contents) == [is_leaf |-> TRUE, chunks |-> [i \in DOMAIN contents |-> Hash(contents[i])]]
Inner(lists) == [is_leaf |-> FALSE, chunks |-> [i \in DOMAIN lists |-> Hash(Encode(lists[i]))]]

List1 == Leaf(<<A, B, A, C>>)
File1 == Inner(<<List1>>)
File2 == Leaf(<<B, C>>)
File3 == Leaf(<<C, A>>)

Contents == {A, B, C, Encode(List1)}
Lengths == [d \in Contents |-> IF d = Encode(List1) THEN 2 ELSE 1]

\* transfer_world_data: the metadata of all files, then each file.
Calls(files) == MetadataCalls(files) \o FlattenSeq([i \in DOMAIN files |-> ReconstructCalls(files[i])])

Programs == (t1 :> Calls(<<File1>>)) @@ (t2 :> Calls(<<File2, File2>>))
            @@ (t3 :> Calls(<<File3>>))
Payloads == (t1 :> <<A, B, A, C>>) @@ (t2 :> <<B, C, B, C>>) @@ (t3 :> <<C, A>>)

\* Nothing, or two of the chunks, were loaded from the cache file.
LoadedFiles == {<<>>, <<B, A>>}
=============================================================================
