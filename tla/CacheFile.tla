------------------------------ MODULE CacheFile ------------------------------
(***************************************************************************)
(* The chunk cache across restarts of the client: the writer task that     *)
(* saves it (ChunkCache::start_writer, try_save, write_chunk_cache), and   *)
(* loading it at startup (load_from_file, read_chunk_cache), in            *)
(* common/src/chunk_cache.rs.                                              *)
(*                                                                         *)
(* The transfer tasks appear through what they do to the cache: fulfill    *)
(* inserts a chunk, get_chunks_batched touches one, the end of a transfer  *)
(* marks the cache dirty, and a waiter that misses its chunk poisons the   *)
(* mutex for all of them and for the writer.  A file is written record by  *)
(* record, so that the process can stop between any two; a torn file       *)
(* cannot be read.                                                         *)
(***************************************************************************)
EXTENDS RawChunkCache

CONSTANTS
    Limits,      \* cache limits the client may be started with
    MaxCrashes,  \* bound: times the process stops
    MaxErrors,   \* bound: saves that fail
    MaxRot       \* bound: chunks of the file that change on disk

ASSUME LimitsAssumption == Limits \subseteq Nat

ASSUME BoundsAssumption == MaxCrashes \in Nat /\ MaxErrors \in Nat /\ MaxRot \in Nat

VARIABLES
    up,          \* the client runs
    inner,       \* raw_cache and needs_saving, and whether the mutex is poisoned
    writer,      \* where the writer task is, and the clone that it writes
    tmp, main,   \* the file next to cache_path, and the one at it
    count,       \* how often each fault has happened
    evicted,     \* history: keys that this process had cached and dropped again
    owed,        \* history: cached keys the last mark_dirty promised to save
    saved,       \* history: chunks of the last clone that reached cache_path
    failed       \* history: a save failed since the last mark_dirty

vars == <<up, inner, writer, tmp, main, count, evicted, owed, saved, failed>>

File == [state : {"absent", "torn", "complete"}, chunks : Seq(Entry)]
NoFile == [state |-> "absent", chunks |-> <<>>]
Asleep == [at |-> "sleep", clone |-> <<>>]
Dead == [at |-> "dead", clone |-> <<>>]

\* The cache of a process that has just started.
Fresh(cache) == [raw_cache |-> cache, needs_saving |-> FALSE, poisoned |-> FALSE]

KeysIn(chunks) == {chunks[i].key : i \in DOMAIN chunks}
Intact(e) == Hash(e.data) = e.key

TypeOK ==
    /\ up \in BOOLEAN
    /\ inner \in [raw_cache : Cache, needs_saving : BOOLEAN, poisoned : BOOLEAN]
    /\ writer \in [at : {"sleep", "create", "write", "rename", "dead"}, clone : Seq(Entry)]
    /\ tmp \in File
    /\ main \in File
    /\ count \in [crashes : 0 .. MaxCrashes, errors : 0 .. MaxErrors, rot : 0 .. MaxRot]
    /\ evicted \subseteq Key
    /\ owed \subseteq Key
    /\ saved \in Seq(Entry)
    /\ failed \in BOOLEAN

Init ==
    /\ up = TRUE
    /\ \E max \in Limits : inner = Fresh(New(max))
    /\ writer = Asleep
    /\ tmp = NoFile
    /\ main = NoFile
    /\ count = [crashes |-> 0, errors |-> 0, rot |-> 0]
    /\ evicted = {}
    /\ owed = {}
    /\ saved = <<>>
    /\ failed = FALSE

-----------------------------------------------------------------------------
(* The transfer tasks.  Each panics at a poisoned mutex and does nothing.  *)

\* fulfill inserts a chunk that was not in the cache.
Store(d) ==
    /\ up
    /\ ~inner.poisoned
    /\ ~Has(inner.raw_cache, Hash(d))
    /\ inner' = [inner EXCEPT !.raw_cache = Insert(@, Hash(d), d)]
    /\ evicted' = (evicted \cup Keys(inner.raw_cache) \cup {Hash(d)}) \ Keys(inner'.raw_cache)
    /\ owed' = owed \cap Keys(inner'.raw_cache)
    /\ UNCHANGED <<up, writer, tmp, main, count, saved, failed>>

\* get_chunks_batched finds a chunk.
Use(k) ==
    /\ up
    /\ ~inner.poisoned
    /\ Has(inner.raw_cache, k)
    /\ inner' = [inner EXCEPT !.raw_cache = Get(@, k)]
    /\ UNCHANGED <<up, writer, tmp, main, count, evicted, owed, saved, failed>>

\* Mutant: no flag is set while a save is under way.
FlaggedUnlessSaving == [inner EXCEPT !.needs_saving = @ \/ writer.at = "sleep"]

\* mark_dirty.
Flagged == [inner EXCEPT !.needs_saving = TRUE]

\* A transfer ends.
MarkDirty ==
    /\ up
    /\ ~inner.poisoned
    /\ inner' = Flagged
    /\ owed' = Keys(inner.raw_cache)
    /\ failed' = FALSE
    /\ UNCHANGED <<up, writer, tmp, main, count, evicted, saved>>

\* get_chunks_batched waited for a chunk that was evicted since, and panics
\* with the mutex locked.
Poison ==
    /\ up
    /\ ~inner.poisoned
    /\ evicted # {}
    /\ inner' = [inner EXCEPT !.poisoned = TRUE]
    /\ UNCHANGED <<up, writer, tmp, main, count, evicted, owed, saved, failed>>

-----------------------------------------------------------------------------
(* The writer task.                                                        *)

\* The locked part of try_save, after the interval: the flag is cleared and
\* the cache cloned.  (With the flag clear the writer goes back to sleep.)
\* lock().expect panics on a poisoned mutex, which ends the task for good.
TakeSnapshot ==
    /\ up
    /\ writer.at = "sleep"
    /\ \/ /\ ~inner.poisoned
          /\ inner.needs_saving
          /\ inner' = [inner EXCEPT !.needs_saving = FALSE]
          /\ writer' = [at |-> "create", clone |-> inner.raw_cache.chunks]
       \/ /\ inner.poisoned
          /\ writer' = Dead
          /\ UNCHANGED inner
    /\ UNCHANGED <<up, tmp, main, count, evicted, owed, saved, failed>>

\* write_chunk_cache: File::create truncates the temporary file.
CreateTemp ==
    /\ writer.at = "create"
    /\ tmp' = [state |-> "torn", chunks |-> <<>>]
    /\ writer' = [writer EXCEPT !.at = "write"]
    /\ UNCHANGED <<up, inner, main, count, evicted, owed, saved, failed>>

\* Mutant: the most recently used chunk is written first.
NthWrittenNewestFirst(n) == writer.clone[Len(writer.clone) + 1 - n]

\* The map is iterated front to back.
NthWritten(n) == writer.clone[n]

\* write_chunk_cache: the next chunk of the clone; after the last one the
\* encoder is finished and flushed.
WriteNext ==
    /\ writer.at = "write"
    /\ LET n == Len(tmp.chunks)
       IN  IF n < Len(writer.clone)
           THEN /\ tmp' = [tmp EXCEPT !.chunks = Append(@, NthWritten(n + 1))]
                /\ UNCHANGED writer
           ELSE /\ tmp' = [tmp EXCEPT !.state = "complete"]
                /\ writer' = [writer EXCEPT !.at = "rename"]
    /\ UNCHANGED <<up, inner, main, count, evicted, owed, saved, failed>>

\* Mutant: the file at cache_path is replaced before all of it is written.
RenameUnfinished ==
    /\ writer.at \in {"write", "rename"}
    /\ main' = tmp
    /\ tmp' = NoFile
    /\ saved' = writer.clone
    /\ writer' = Asleep
    /\ UNCHANGED <<up, inner, count, evicted, owed, failed>>

\* Mutant: the flag is cleared when the save is over.
RenameClearsFlag ==
    /\ writer.at = "rename"
    /\ main' = tmp
    /\ tmp' = NoFile
    /\ saved' = writer.clone
    /\ writer' = Asleep
    /\ inner' = [inner EXCEPT !.needs_saving = FALSE]
    /\ UNCHANGED <<up, count, evicted, owed, failed>>

\* std::fs::rename replaces the file at cache_path; the save is over.
Rename ==
    /\ writer.at = "rename"
    /\ main' = tmp
    /\ tmp' = NoFile
    /\ saved' = writer.clone
    /\ writer' = Asleep
    /\ UNCHANGED <<up, inner, count, evicted, owed, failed>>

\* Creating, writing, inspecting or renaming the file fails: start_writer
\* logs the error and sleeps again.
SaveFails ==
    /\ writer.at \notin {"sleep", "dead"}
    /\ count.errors < MaxErrors
    /\ count' = [count EXCEPT !.errors = @ + 1]
    /\ writer' = Asleep
    /\ failed' = TRUE
    /\ UNCHANGED <<up, inner, tmp, main, evicted, owed, saved>>

-----------------------------------------------------------------------------
(* The process and the disk.                                               *)

\* The process ends (ctrl-c, an error, a crash) without a last save.
Stop ==
    /\ up
    /\ count.crashes < MaxCrashes
    /\ count' = [count EXCEPT !.crashes = @ + 1]
    /\ up' = FALSE
    /\ inner' = Fresh(New(inner.raw_cache.max_size))
    /\ writer' = Asleep
    /\ evicted' = {}
    /\ owed' = {}
    /\ failed' = FALSE
    /\ UNCHANGED <<tmp, main, saved>>

\* Mutant: a chunk of the file is trusted.
LoadUnverified(file, max) ==
    Iterate(LAMBDA c, e : Insert(c, e.key, e.data), New(max), file.chunks)

\* read_chunk_cache: every chunk is inserted in the order of the file; one
\* that does not match its key is skipped.
Load(file, max) ==
    Iterate(LAMBDA c, e : IF Intact(e) THEN Insert(c, e.key, e.data) ELSE c,
             New(max), file.chunks)

\* load_from_file.  A file that is torn ends the start with an error.
Start ==
    /\ ~up
    /\ main.state # "torn"
    /\ \E max \in Limits : inner' = [inner EXCEPT !.raw_cache = Load(main, max)]
    /\ up' = TRUE
    /\ UNCHANGED <<writer, tmp, main, count, evicted, owed, saved, failed>>

\* The content of a chunk of the file changes on disk.
Rot ==
    /\ count.rot < MaxRot
    /\ \E i \in DOMAIN main.chunks : \E d \in Data \ {main.chunks[i].data} :
        main' = [main EXCEPT !.chunks[i].data = d]
    /\ count' = [count EXCEPT !.rot = @ + 1]
    /\ UNCHANGED <<up, inner, writer, tmp, evicted, owed, saved, failed>>

Save == CreateTemp \/ WriteNext \/ Rename

Next ==
    \/ \E d \in Data : Store(d)
    \/ \E k \in Key : Use(k)
    \/ MarkDirty
    \/ Poison
    \/ TakeSnapshot
    \/ Save
    \/ SaveFails
    \/ Stop
    \/ Start
    \/ Rot

Spec == Init /\ [][Next]_vars

\* The writer wakes up after each interval as long as it lives, and its
\* blocking task makes progress.
FairSpec == Spec /\ WF_vars(TakeSnapshot) /\ WF_vars(Save)

-----------------------------------------------------------------------------
\* Whenever the process stops, the file at cache_path is whole or absent, so
\* the next start never fails on it (try_save writes a temporary file and
\* renames it).
FileNeverTorn == main.state # "torn"

\* Once a transfer has marked the cache dirty, each of its chunks that stays
\* cached is on disk, or being written, or still flagged for the next save:
\* a mark_dirty during a save is not lost.  (Unless a save failed since.)
DirtyNotForgotten ==
    up /\ ~failed =>
        inner.needs_saving \/ owed \subseteq KeysIn(main.chunks) \cup KeysIn(writer.clone)

\* The entries with other keys than the lost ones, in their order.
Surviving(chunks, lost) ==
    LET kept[i \in 0 .. Len(chunks)] ==
            IF i = 0 THEN <<>>
            ELSE IF chunks[i].key \in lost THEN kept[i - 1]
            ELSE Append(kept[i - 1], chunks[i])
    IN  kept[Len(chunks)]

\* Keys of the chunks of the file that are damaged.
Lost(chunks) == {e.key : e \in {f \in Range(chunks) : ~Intact(f)}}

\* A start restores the chunks of the last completed save that are intact, in
\* their recency order; a smaller limit drops the least recently used ones
\* (write_chunk_cache and read_chunk_cache agree on the order).
RestoresRecency ==
    [][~up /\ up' =>
        inner'.raw_cache.chunks =
            LongestFit(Surviving(saved, Lost(main.chunks)), inner'.raw_cache.max_size)]_vars

\* Damaged files included, the cache holds every chunk under its own hash and
\* stays within its limit (insert, read_chunk_cache).
CacheSound ==
    /\ TypeOK
    /\ AccountsRight(inner.raw_cache)
    /\ ContentMatchesKeys(inner.raw_cache)

\* While the client runs and no save fails, every chunk of a finished transfer
\* reaches the file or leaves the cache; or a task poisoned the mutex first and
\* the writer died of it with the flag still set.  A save that was under way
\* by then is completed (start_writer, try_save).
DirtyReachesDisk ==
    [](up /\ count.errors = 0) =>
        \A k \in Key :
            k \in owed ~> \/ k \in KeysIn(main.chunks)
                          \/ k \notin owed
                          \/ writer.at = "dead" /\ inner.poisoned /\ inner.needs_saving
=============================================================================
