-------------------------------- MODULE Dedup --------------------------------
(***************************************************************************)
(* Splitting data into chunks and building the tree of chunk lists over    *)
(* them, on the cacher server: the Chunker with its rolling hash           *)
(* (common/src/chunker.rs), chunk_data and minimize_chunk_list             *)
(* (common/src/dedup.rs).                                                  *)
(*                                                                         *)
(* The constants of the code are parameters.  What is not one is the       *)
(* arithmetic: u32 wraps around, here at Modulus.                          *)
(***************************************************************************)
EXTENDS Integers, ChunkTree

CONSTANTS
    Inputs,                                     \* byte strings to be deduplicated
    MIN_CHUNK_SIZE, MAX_CHUNK_SIZE, CHUNK_MASK, \* chunker.rs; the mask plus one
    OFFSET, MULT, WINDOW_SIZE, Modulus,         \* RabinKarpHash
    MIN_CHUNKS_IN_LIST, MAX_CHUNKS_IN_LIST, MINIMIZE_THRESHOLD,
    Marked(_)                                   \* the first word of a key % AVG_CHUNKS_IN_LIST = 0

\* A list of one entry that may be split would be wrapped up for ever.
ASSUME DedupAssumption ==
    /\ 0 < MIN_CHUNK_SIZE /\ MIN_CHUNK_SIZE < MAX_CHUNK_SIZE
    /\ 1 < MIN_CHUNKS_IN_LIST /\ MIN_CHUNKS_IN_LIST <= MAX_CHUNKS_IN_LIST
    /\ 1 < MINIMIZE_THRESHOLD

VARIABLES
    data,         \* the input
    rest,         \* the chunker's data: what is not split yet
    pieces,       \* history: the chunks so far
    tree_levels,  \* the unfinished list of each level
    chunks,       \* contents inserted into the map of chunks
    root          \* the list returned, or <<>>

vars == <<data, rest, pieces, tree_levels, chunks, root>>

-----------------------------------------------------------------------------
(* chunker.rs                                                              *)

NewHash == [hash |-> 0, window |-> [i \in 0 .. WINDOW_SIZE - 1 |-> 0], window_pos |-> 0]

Power(n) == FoldLeft(LAMBDA p, i : (p * MULT) % Modulus, 1, [i \in 1 .. n |-> i])

\* Mutant: the byte that leaves the window is taken out one step too early.
WINDOW_MULT_OffByOne == Power(WINDOW_SIZE)

WINDOW_MULT == Power(WINDOW_SIZE + 1)

\* RabinKarpHash::update.
Update(h, byte) ==
    LET added == (byte + OFFSET) % Modulus
        removed == (h.window[h.window_pos] * WINDOW_MULT) % Modulus
    IN  [hash       |-> ((h.hash + added) * MULT - removed) % Modulus,
         window     |-> [h.window EXCEPT ![h.window_pos] = added],
         window_pos |-> (h.window_pos + 1) % WINDOW_SIZE]

Least(a, b) == IF a < b THEN a ELSE b

\* The loop of Chunker::next breaks.
Ends(hash, size) == hash % CHUNK_MASK = 0 \/ size >= MAX_CHUNK_SIZE

\* Chunker::next: the size of the next chunk of s.
RECURSIVE Extend(_, _, _)
Extend(s, size, h) ==
    IF size = Len(s) THEN size
    ELSE LET new == Update(h, s[size + 1])
         IN  IF Ends(new.hash, size + 1) THEN size + 1 ELSE Extend(s, size + 1, new)

ChunkSize(s) == Extend(s, Least(MIN_CHUNK_SIZE, Len(s)), NewHash)

-----------------------------------------------------------------------------
(* dedup.rs                                                                *)

Push(list, key) == [list EXCEPT !.chunks = Append(@, key)]

\* Mutant: a list is split only at a marked key.
IsSplitPointUnbounded(key, n) == n >= MIN_CHUNKS_IN_LIST /\ Marked(key)

IsSplitPoint(key, n) ==
    /\ n >= MIN_CHUNKS_IN_LIST
    /\ n >= MAX_CHUNKS_IN_LIST \/ Marked(key)

\* The encoded list of a level is appended to the level above.
Wrap(t, level) ==
    LET encoded == Encode(t.levels[level])
        grown == IF level < Len(t.levels) THEN t.levels ELSE Append(t.levels, EmptyList(FALSE))
    IN  [levels |-> [grown EXCEPT ![level + 1] = Push(@, Hash(encoded))],
         chunks |-> t.chunks \cup {encoded}]

\* The level starts again with an empty list.
Fresh(t, level) == [t EXCEPT !.levels[level] = EmptyList(@.is_leaf)]

\* The inner loop of chunk_data: levels are closed as long as the key that was
\* appended last is a split point.
RECURSIVE Climb(_, _, _)
Climb(t, level, key) ==
    IF ~IsSplitPoint(key, Len(t.levels[level].chunks)) THEN t
    ELSE Climb(Fresh(Wrap(t, level), level), level + 1, Hash(Encode(t.levels[level])))

\* An iteration of chunk_data's loop: the chunk goes into the lowest list.
AddChunk(t, chunk) ==
    Climb([levels |-> [t.levels EXCEPT ![1] = Push(@, Hash(chunk))],
           chunks |-> t.chunks \cup {chunk}], 1, Hash(chunk))

\* Mutant: the unfinished lists below the top are dropped.
CloseNothing(t) == t

\* The end of chunk_data: what is left of each level goes to the next.
Close(t) ==
    FoldLeft(LAMBDA u, level : IF u.levels[level].chunks = <<>> THEN u ELSE Wrap(u, level),
             t, [i \in 1 .. Len(t.levels) - 1 |-> i])

\* chunk_data in one go: the levels, the last of which is the root, and the
\* chunks.
RECURSIVE ChunkAll(_, _)
ChunkAll(s, t) ==
    IF s = <<>> THEN Close(t)
    ELSE LET size == ChunkSize(s)
         IN  ChunkAll(SubSeq(s, size + 1, Len(s)), AddChunk(t, Raw(SubSeq(s, 1, size))))
ChunkData(s, known) == ChunkAll(s, [levels |-> <<EmptyList(TRUE)>>, chunks |-> known])

\* minimize_chunk_list: a long root becomes a chunk of its own.
Minimize(list) ==
    IF Len(list.chunks) < MINIMIZE_THRESHOLD
    THEN [root |-> list, chunks |-> {}]
    ELSE [root |-> Push(EmptyList(FALSE), Hash(Encode(list))), chunks |-> {Encode(list)}]

Init ==
    /\ data \in Inputs
    /\ rest = data
    /\ pieces = <<>>
    /\ tree_levels = <<EmptyList(TRUE)>>
    /\ chunks = {}
    /\ root = <<>>

\* One chunk is split off.
TakeChunk ==
    /\ rest # <<>>
    /\ LET size == ChunkSize(rest)
           chunk == Raw(SubSeq(rest, 1, size))
           t == AddChunk([levels |-> tree_levels, chunks |-> chunks], chunk)
       IN  /\ rest' = SubSeq(rest, size + 1, Len(rest))
           /\ pieces' = Append(pieces, SubSeq(rest, 1, size))
           /\ tree_levels' = t.levels
           /\ chunks' = t.chunks
    /\ UNCHANGED <<data, root>>

\* The tree is finished and its root minimized (chunk_file).
Finish ==
    /\ rest = <<>>
    /\ root = <<>>
    /\ LET t == Close([levels |-> tree_levels, chunks |-> chunks])
           m == Minimize(Last(t.levels))
       IN  /\ tree_levels' = t.levels
           /\ root' = m.root
           /\ chunks' = t.chunks \cup m.chunks
    /\ UNCHANGED <<data, rest, pieces>>

Next == TakeChunk \/ Finish

Spec == Init /\ [][Next]_vars

-----------------------------------------------------------------------------
\* The lists of the map of chunks.
Lists == {Decode(c) : c \in {d \in chunks : d[1] = "list"}}

\* Walking the tree from the root the server sends, as reconstruct_data does,
\* needs only chunks the server has and yields exactly the input.
RoundTrip ==
    root # <<>> =>
        LET gets == SelectSeq(ReconstructCalls(root), LAMBDA c : c.op = "get")
            got == [i \in DOMAIN gets |-> Content(gets[i].keys[1])]
            yields == SelectSeq(gets, LAMBDA c : c.yield)
        IN  /\ ToSet(got) = chunks
            /\ FlattenSeq([i \in DOMAIN yields |-> Content(yields[i].keys[1])[2]]) = data

\* Every chunk but the last has a size between the two limits (Chunker::next),
\* no level holds a list that should have been closed (is_split_point,
\* chunk_data), no list made a chunk is empty or too long, and the list
\* returned is small (minimize_chunk_list).
SizesBounded ==
    /\ \A i \in DOMAIN pieces :
        /\ Len(pieces[i]) <= MAX_CHUNK_SIZE
        /\ Len(pieces[i]) > MIN_CHUNK_SIZE \/ (rest = <<>> /\ i = Len(pieces))
    /\ \A level \in DOMAIN tree_levels :
        root = <<>> => Len(tree_levels[level].chunks) < MAX_CHUNKS_IN_LIST
    /\ \A l \in Lists : Len(l.chunks) \in 1 .. MAX_CHUNKS_IN_LIST
    /\ root # <<>> => Len(root.chunks) < MINIMIZE_THRESHOLD

\* Content-defined boundaries: the hash after a byte depends on nothing but the
\* last WINDOW_SIZE bytes (RabinKarpHash::update).
HashIsOfWindow ==
    LET Rolled(s) == FoldLeft(Update, NewHash, s).hash
        InWindow(s) == SubSeq(s, Len(s) - Least(WINDOW_SIZE, Len(s)) + 1, Len(s))
    IN  Rolled(rest) = Rolled(InWindow(rest))
=============================================================================
