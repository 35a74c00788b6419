---------------------------- MODULE RawChunkCache ----------------------------
(***************************************************************************)
(* RawChunkCache of common/src/chunk_cache.rs: chunks in recency order,    *)
(* limited by the sum of their lengths.  A cache is a record; chunks is    *)
(* the LinkedHashMap from its front (least recently used) to its back.     *)
(***************************************************************************)
EXTENDS Chunks, Integers, Functions, FiniteSetsExt

CONSTANTS
    Data,        \* contents a chunk can have
    Size         \* length of each content

ASSUME SizeAssumption == Size \in [Data -> Nat \ {0}]

Key == {Hash(d) : d \in Data}

Entry == [key : Key, data : Data]

\* A loop over a sequence, from its first element to its last.
Iterate(op(_, _), init, s) ==
    MapThenFoldSet(LAMBDA e, acc : op(acc, e), init, LAMBDA i : s[i], Max, DOMAIN s)

Bytes(chunks) == Iterate(LAMBDA n, e : n + Size[e.data], 0, chunks)

Keys(cache) == {cache.chunks[i].key : i \in DOMAIN cache.chunks}

Has(cache, key) == key \in Keys(cache)

\* Where the map has the entry of key.
IndexOf(chunks, key) == CHOOSE i \in DOMAIN chunks : chunks[i].key = key

Lookup(cache, key) == cache.chunks[IndexOf(cache.chunks, key)].data

Cache == [chunks : Seq(Entry), total_size : Nat, max_size : Nat]

New(max) == [chunks |-> <<>>, total_size |-> 0, max_size |-> max]

\* The entries of the map other than that of key.
Without(cache, key) ==
    LET i == IndexOf(cache.chunks, key)
    IN  IF Has(cache, key)
        THEN SubSeq(cache.chunks, 1, i - 1) \o SubSeq(cache.chunks, i + 1, Len(cache.chunks))
        ELSE cache.chunks

\* The while loop of insert: pop_front until total_size is within max_size.
EvictLoop(cache) ==
    LET popped(n) == cache.total_size - Bytes(SubSeq(cache.chunks, 1, n))
        n == Min({i \in 0 .. Len(cache.chunks) : popped(i) <= cache.max_size})
    IN  [cache EXCEPT !.chunks = SubSeq(@, n + 1, Len(@)),
                      !.total_size = popped(n)]

\* RawChunkCache::insert.  A chunk already present is replaced and moves to
\* the back.
Insert(cache, key, data) ==
    LET old == IF Has(cache, key) THEN Size[Lookup(cache, key)] ELSE 0
    IN  EvictLoop([cache EXCEPT
            !.chunks = Append(Without(cache, key), [key |-> key, data |-> data]),
            !.total_size = @ + Size[data] - old])

\* RawChunkCache::get moves a chunk it finds to the back.
Get(cache, key) ==
    IF Has(cache, key)
    THEN [cache EXCEPT !.chunks =
            Append(Without(cache, key), [key |-> key, data |-> Lookup(cache, key)])]
    ELSE cache

-----------------------------------------------------------------------------
\* No key has two entries.
Distinct(chunks) ==
    \A i, j \in DOMAIN chunks : chunks[i].key = chunks[j].key => i = j

\* total_size is the sum of the lengths in the map and within max_size, and
\* no key is there twice: pop_front().unwrap() always finds a chunk.
AccountsRight(cache) ==
    /\ cache.total_size = Bytes(cache.chunks)
    /\ cache.total_size <= cache.max_size
    /\ Distinct(cache.chunks)

\* Every chunk is stored under the hash of its content.
ContentMatchesKeys(cache) ==
    \A i \in DOMAIN cache.chunks : cache.chunks[i].key = Hash(cache.chunks[i].data)

\* The most recent entries, any number of them.
Recent(chunks) == {SubSeq(chunks, n, Len(chunks)) : n \in 1 .. Len(chunks) + 1}

\* What recency order and limit leave of a sequence of insertions: the
\* longest suffix that fits into max.
LongestFit(chunks, max) ==
    CHOOSE s \in Recent(chunks) :
        /\ Bytes(s) <= max
        /\ \A r \in Recent(chunks) : Bytes(r) <= max => Len(r) <= Len(s)
=============================================================================
