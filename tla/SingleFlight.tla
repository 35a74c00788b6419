---------------------------- MODULE SingleFlight ----------------------------
(***************************************************************************)
(* What the shared chunk cache of a Factory Cacher client promises to the  *)
(* transfer tasks that use it at the same time, whatever policy evicts     *)
(* chunks: a missing chunk is fetched by one task, every other task that   *)
(* needs it waits for that fetch.                                          *)
(*                                                                         *)
(* A task holds at most one batch (BatchChunkRequest).  The semaphore of a *)
(* batch is named by the task that holds it: a task opens a new batch only *)
(* after the semaphore of its last one was closed, and a closed semaphore  *)
(* is removed from waitOn of every waiter, so no two live semaphores of    *)
(* one task exist.                                                         *)
(***************************************************************************)
CONSTANTS
    Task,        \* transfer tasks (one per peer that downloads)
    Key          \* chunk keys

VARIABLES
    cached,      \* keys of raw_cache
    status,      \* what each task is doing
    batch,       \* keys a task is to fetch; kept when the fetch is given up
    waitKeys,    \* keys of pending_requests of a waiting task
    waitOn,      \* tasks whose open semaphores a waiting task awaits
    evicted,     \* history: every key that was ever evicted
    poisoned     \* a task panicked while it held the cache's mutex

vars == <<cached, status, batch, waitKeys, waitOn, evicted, poisoned>>

\* Keys of pending_chunks: being fetched, or left there by a failed fetch.
Pending == UNION {batch[t] : t \in Task}

TypeOK ==
    /\ cached \in SUBSET Key
    /\ status \in [Task -> {"idle", "fetching", "waiting", "gone"}]
    /\ batch \in [Task -> SUBSET Key]
    /\ waitKeys \in [Task -> SUBSET Key]
    /\ waitOn \in [Task -> SUBSET Task]
    /\ evicted \in SUBSET Key
    /\ poisoned \in BOOLEAN

\* load_from_file may have filled the cache before the first task starts.
Init ==
    /\ cached \in SUBSET Key
    /\ status = [t \in Task |-> "idle"]
    /\ batch = [t \in Task |-> {}]
    /\ waitKeys = [t \in Task |-> {}]
    /\ waitOn = [t \in Task |-> {}]
    /\ evicted = {}
    /\ poisoned = FALSE

-----------------------------------------------------------------------------
\* Mutant: the check that nobody else fetches the chunk is missing.
MissingCached(B) == B \cap cached = {}

\* Mutant: the lookup in raw_cache is missing.
MissingPending(B) == B \cap Pending = {}

\* Chunks that may go into a batch: not cached, fetched by nobody.
Missing(B) == B \cap (cached \cup Pending) = {}

\* get_chunks_batched returns a batch.
Claim(t, B) ==
    /\ ~poisoned
    /\ status[t] = "idle"
    /\ B # {}
    /\ Missing(B)
    /\ status' = [status EXCEPT ![t] = "fetching"]
    /\ batch' = [batch EXCEPT ![t] = B]
    /\ UNCHANGED <<cached, waitKeys, waitOn, evicted, poisoned>>

\* Mutant: a task that has a batch goes on to wait for another one.
MayJoinHolding(t) == status[t] \in {"idle", "fetching"}

MayJoin(t) == status[t] = "idle"

\* get_chunks_batched has no batch to return and starts to wait.
Join(t, W) ==
    /\ ~poisoned
    /\ MayJoin(t)
    /\ W # {}
    /\ W \subseteq Pending
    /\ status' = [status EXCEPT ![t] = "waiting"]
    /\ waitKeys' = [waitKeys EXCEPT ![t] = W]
    /\ waitOn' = [waitOn EXCEPT ![t] = {u \in Task : W \cap batch[u] # {}}]
    /\ UNCHANGED <<cached, batch, evicted, poisoned>>

\* Mutant: the chunks of the batch are not inserted.
InsertedNothing(t) == cached

\* What the cache holds once the batch is in, before anything is evicted.
Inserted(t) == cached \cup batch[t]

\* BatchChunkRequest::fulfill: the batch is inserted, which evicts some
\* chunks E (the new ones too when the cache is small), and its semaphore is
\* closed.
Fulfill(t, E) ==
    /\ ~poisoned
    /\ status[t] = "fetching"
    /\ E \subseteq Inserted(t)
    /\ cached' = Inserted(t) \ E
    /\ evicted' = evicted \cup E
    /\ batch' = [batch EXCEPT ![t] = {}]
    /\ waitOn' = [u \in Task |-> waitOn[u] \ {t}]
    /\ status' = [status EXCEPT ![t] = "idle"]
    /\ UNCHANGED <<waitKeys, poisoned>>

\* Mutant: giving up a batch takes its chunks out of pending_chunks, while
\* the waiters keep their semaphore.
AbandonReleasing(t) ==
    /\ status[t] = "fetching"
    /\ status' = [status EXCEPT ![t] = "gone"]
    /\ batch' = [batch EXCEPT ![t] = {}]
    /\ UNCHANGED <<cached, waitKeys, waitOn, evicted, poisoned>>

\* The fetch fails and the BatchChunkRequest is dropped: nothing takes its
\* keys out of pending_chunks and nothing closes its semaphore.
Abandon(t) ==
    /\ status[t] = "fetching"
    /\ status' = [status EXCEPT ![t] = "gone"]
    /\ UNCHANGED <<cached, batch, waitKeys, waitOn, evicted, poisoned>>

\* Mutant: the waiter does not wait for the semaphores of the batches.
AwakeEarly(t) == status[t] = "waiting"

\* Every semaphore the waiter awaits is closed.
Awake(t) == status[t] = "waiting" /\ waitOn[t] = {}

\* The waiter takes its chunks from the cache.  One that is not there panics
\* under the mutex.
Collect(t) ==
    /\ ~poisoned
    /\ Awake(t)
    /\ waitKeys' = [waitKeys EXCEPT ![t] = {}]
    /\ waitOn' = [waitOn EXCEPT ![t] = {}]
    /\ IF waitKeys[t] \subseteq cached
          THEN /\ status' = [status EXCEPT ![t] = "idle"]
               /\ UNCHANGED poisoned
          ELSE /\ status' = [status EXCEPT ![t] = "gone"]
               /\ poisoned' = TRUE
    /\ UNCHANGED <<cached, batch, evicted>>

\* The transfer ends while it holds no batch, because it is complete or
\* because its consumer went away.
Leave(t) ==
    /\ status[t] = "idle"
    /\ status' = [status EXCEPT ![t] = "gone"]
    /\ UNCHANGED <<cached, batch, waitKeys, waitOn, evicted, poisoned>>

\* lock().unwrap() on the poisoned mutex panics.
PanicOnPoison(t) ==
    /\ poisoned
    /\ status[t] # "gone"
    /\ waitOn[t] = {}
    /\ status' = [status EXCEPT ![t] = "gone"]
    /\ waitKeys' = [waitKeys EXCEPT ![t] = {}]
    /\ UNCHANGED <<cached, batch, waitOn, evicted, poisoned>>

Next ==
    \E t \in Task :
        \/ \E B \in SUBSET Key : Claim(t, B)
        \/ \E W \in SUBSET Key : Join(t, W)
        \/ \E E \in SUBSET Key : Fulfill(t, E)
        \/ Abandon(t)
        \/ Collect(t)
        \/ Leave(t)
        \/ PanicOnPoison(t)

Spec == Init /\ [][Next]_vars

-----------------------------------------------------------------------------
\* No chunk is being fetched by two tasks at once: pending_chunks maps every
\* key to the semaphore of one batch (get_chunks_batched, fulfill).
OneFetchPerChunk ==
    \A t, u \in Task : t # u => batch[t] \cap batch[u] = {}

\* A chunk that is being fetched is not in the cache, so fulfill never meets
\* the "Inserting chunk twice" branch of RawChunkCache::insert.
PendingNotCached == Pending \cap cached = {}

\* A task only ever waits for tasks that wait for nobody, never for itself,
\* and each of them still holds a chunk it needs: tasks that share the cache
\* cannot block each other in a cycle.
NoWaitCycle ==
    \A t \in Task : \A u \in waitOn[t] :
        /\ u # t
        /\ waitOn[u] = {}
        /\ batch[u] \cap waitKeys[t] # {}

\* Every chunk a task waits for is in the cache, was evicted at some time, or
\* is still to come from a batch whose semaphore the task awaits.
WaitedChunkAccounted ==
    \A t \in Task : \A k \in waitKeys[t] :
        \/ k \in cached \cup evicted
        \/ \E u \in waitOn[t] : k \in batch[u]

\* The panic "Waited on chunk, but chunk was not put in cache", and with it
\* the poisoned mutex, needs an eviction.
PanicNeedsEviction == poisoned => evicted # {}

\* A chunk leaves pending_chunks only by being put into the cache (where the
\* same insertion may evict it).
ReleasedOnlyByInsertion ==
    [][\A k \in Pending : k \notin Pending' => k \in cached' \cup evicted']_vars
=============================================================================
