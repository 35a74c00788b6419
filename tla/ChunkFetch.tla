----------------------------- MODULE ChunkFetch -----------------------------
(***************************************************************************)
(* Transfer tasks of a client that rebuild their data through the shared   *)
(* chunk cache: ChunkCache (common/src/chunk_cache.rs), the fetching chunk *)
(* provider of each task and the answering side of the server              *)
(* (common/src/protocol_utils.rs).                                         *)
(*                                                                         *)
(* A task runs a program: the calls prefetch and get_chunk that walking    *)
(* its trees makes (module ChunkTree).  The lock of the cache is held for  *)
(* one step each.  fulfill closes its semaphore after it unlocked; closing *)
(* only enables waiters, so it is the end of the same step.  As in         *)
(* SingleFlight, the semaphore of a batch is named by the batch's task.    *)
(***************************************************************************)
EXTENDS RawChunkCache

CONSTANTS
    Task,        \* transfer tasks, each with its own stream
    Program,     \* calls each task makes
    Payload,     \* contents each task is to yield, in order
    Loaded,      \* contents the cache file may hold at the start
    MaxSize,     \* max_size of the cache
    BatchSize,   \* batch_size (512 in fetch_chunk_batch)
    MaxFaults    \* bound: faults of streams, servers and consumers

\* A call on the provider: of prefetch with its keys, or of get_chunk with one
\* key, whose chunk is yielded if it belongs to a leaf.
Call ==
    [op : {"prefetch"}, keys : Seq(Key), yield : {FALSE}] \cup
    [op : {"get"}, keys : {<<k>> : k \in Key}, yield : BOOLEAN]

\* What has been yielded after one more call, when all goes well.
Yielding(out, call) == IF call.yield THEN Append(out, Content(call.keys[1])) ELSE out

\* The chunk of every get_chunk call is one of held or was named by a prefetch
\* before it.
Covered(calls, held) ==
    \A i \in DOMAIN calls :
        calls[i].op = "get" =>
            \/ calls[i].keys[1] \in held
            \/ \E j \in 1 .. i - 1 :
                    calls[j].op = "prefetch" /\ calls[i].keys[1] \in Range(calls[j].keys)

ASSUME BatchAssumption == BatchSize \in Nat \ {0}

ASSUME BoundsAssumption == MaxSize \in Nat /\ MaxFaults \in Nat

ASSUME LoadedAssumption == Loaded \subseteq Seq(Data)

\* prefetch_metadata_chunks and reconstruct_data prefetch a list before they
\* get its chunks, and the chunks of the leaves are the payload.
ASSUME ProgramAssumption ==
    \A t \in Task :
        /\ Program[t] \in Seq(Call)
        /\ Covered(Program[t], {})
        /\ Iterate(Yielding, <<>>, Program[t]) = Payload[t]

VARIABLES
    inner,       \* ChunkCacheInner, and whether its mutex is poisoned
    task,        \* each task with its ChunkFetcherProvider
    faults,
    evicted      \* history: keys that were ever evicted

vars == <<inner, task, faults, evicted>>

Maps(S, T) == UNION {[A -> T] : A \in SUBSET S}

\* The map f after the entries of g were inserted.
Extend(f, g) == [x \in DOMAIN f \cup DOMAIN g |-> IF x \in DOMAIN g THEN g[x] ELSE f[x]]

ChunkCacheInner ==
    [raw_cache : Cache, pending_chunks : Maps(Key, Task),
     needs_saving : BOOLEAN, poisoned : BOOLEAN]

\* requested and local are pending_chunks and local_cache of the provider,
\* batch is batch_keys, waiting is pending_requests with the semaphores
\* waitOn that are still open.
TaskState ==
    [pc : {"run", "fetching", "replied", "waiting", "done", "failed"},
     calls : Seq(Call), requested : Seq(Key), local : Maps(Key, Data),
     batch : Seq(Key), response : Seq(Data),
     waiting : Seq(Key), waitOn : SUBSET Task, out : Seq(Data)]

TypeOK ==
    /\ inner \in ChunkCacheInner
    /\ task \in [Task -> TaskState]
    /\ \A t \in Task : Len(task[t].batch) <= BatchSize
    /\ faults \in 0 .. MaxFaults
    /\ evicted \subseteq Key

\* insert for each key and content in turn.
InsertAll(cache, keys, data) ==
    Iterate(LAMBDA c, e : Insert(c, e.key, e.data), cache,
             [i \in DOMAIN keys |-> [key |-> keys[i], data |-> data[i]]])

Init ==
    /\ \E content \in Loaded :
        inner = [raw_cache |-> InsertAll(New(MaxSize),
                                    [i \in DOMAIN content |-> Hash(content[i])], content),
                 pending_chunks |-> <<>>, needs_saving |-> FALSE, poisoned |-> FALSE]
    /\ task = [t \in Task |->
                [pc |-> "run", calls |-> Program[t], requested |-> <<>>, local |-> <<>>,
                 batch |-> <<>>, response |-> <<>>, waiting |-> <<>>, waitOn |-> {}, out |-> <<>>]]
    /\ faults = 0
    /\ evicted = {}

-----------------------------------------------------------------------------
(* The provider's own steps.                                               *)

AtCall(t, op) ==
    task[t].pc = "run" /\ task[t].calls # <<>> /\ Head(task[t].calls).op = op

\* The key of the get_chunk call the task is in.
Wanted(t) == Head(task[t].calls).keys[1]

\* One key of prefetch.
Request(s, key) ==
    IF key \in DOMAIN s.local THEN s ELSE [s EXCEPT !.requested = Append(@, key)]

RequestAll(s, keys) == Iterate(Request, s, keys)

\* ChunkFetcherProvider::prefetch.
CallPrefetch(t) ==
    /\ AtCall(t, "prefetch")
    /\ task' = [task EXCEPT ![t] =
            [RequestAll(@, Head(@.calls).keys) EXCEPT !.calls = Tail(task[t].calls)]]
    /\ UNCHANGED <<inner, faults, evicted>>

\* Mutant: chunks of inner lists are yielded too.
YieldsAll(t) == <<task[t].local[Wanted(t)]>>

\* What reconstruct_data yields for the chunk it got.
Yields(t) == IF Head(task[t].calls).yield THEN <<task[t].local[Wanted(t)]>> ELSE <<>>

\* get_chunk finds the chunk in local_cache and returns it.
GetLocal(t) ==
    /\ AtCall(t, "get")
    /\ Wanted(t) \in DOMAIN task[t].local
    /\ task' = [task EXCEPT ![t].calls = Tail(@), ![t].out = @ \o Yields(t)]
    /\ UNCHANGED <<inner, faults, evicted>>

-----------------------------------------------------------------------------
(* get_chunks_batched, up to the await.                                    *)

\* get_chunk calls fetch_chunk_batch.
AtFetch(t) ==
    /\ AtCall(t, "get")
    /\ Wanted(t) \notin DOMAIN task[t].local
    /\ task[t].requested # <<>>

\* Mutant: a chunk found in the cache is dropped without being output.
FoundNotOutput(acc, key) == [acc EXCEPT !.raw_cache = Get(@, key)]

\* The chunk is in the cache.
Found(acc, key) ==
    [acc EXCEPT !.raw_cache = Get(@, key),
                !.local = Extend(@, [k \in {key} |-> Lookup(acc.raw_cache, key)])]

\* Mutant: chunks other tasks are fetching go into the batch too.
GoesIntoBatchPending(acc, key) == Len(acc.batch) < BatchSize

GoesIntoBatch(acc, key) ==
    key \notin acc.pending /\ Len(acc.batch) < BatchSize

\* One key of chunks_requested.retain.
Retain(acc, key) ==
    IF Has(acc.raw_cache, key) THEN Found(acc, key)
    ELSE IF GoesIntoBatch(acc, key)
    THEN [acc EXCEPT !.batch = IF key \in Range(@) THEN @ ELSE Append(@, key)]
    ELSE [acc EXCEPT !.keep = Append(@, key)]

RetainAll(acc, keys) == Iterate(Retain, acc, keys)

Scan(t) ==
    RetainAll([raw_cache |-> inner.raw_cache, pending |-> DOMAIN inner.pending_chunks,
               local |-> task[t].local, batch |-> <<>>, keep |-> <<>>],
              task[t].requested)

\* A batch was built: its keys become pending and it is returned.
StartBatch(t) ==
    /\ ~inner.poisoned
    /\ AtFetch(t)
    /\ LET scan == Scan(t)
       IN  /\ scan.batch # <<>>
           /\ inner' = [inner EXCEPT
                    !.raw_cache = scan.raw_cache,
                    !.pending_chunks = Extend(@, [k \in Range(scan.batch) |-> t])]
           /\ task' = [task EXCEPT
                    ![t].pc = "fetching", ![t].local = scan.local,
                    ![t].requested = scan.keep, ![t].batch = scan.batch]
    /\ UNCHANGED <<faults, evicted>>

\* There is no batch: either everything requested was in the cache and None
\* is returned at once, or what is left is being fetched by other tasks and
\* their semaphores are awaited.
NoBatch(t) ==
    /\ ~inner.poisoned
    /\ AtFetch(t)
    /\ LET scan == Scan(t)
       IN  /\ scan.batch = <<>>
           /\ inner' = [inner EXCEPT !.raw_cache = scan.raw_cache]
           /\ task' = [task EXCEPT
                    ![t].pc = IF scan.keep = <<>> THEN "run" ELSE "waiting",
                    ![t].local = scan.local,
                    ![t].requested = <<>>, ![t].waiting = scan.keep,
                    ![t].waitOn = {inner.pending_chunks[k] : k \in Range(scan.keep)}]
    /\ UNCHANGED <<faults, evicted>>

-----------------------------------------------------------------------------
(* The server's answer (provide_chunks_as_requested), the rest of          *)
(* fetch_chunk_batch, and what can go wrong in between.                    *)

\* The chunks of the batch, which the server finds among those of the data
\* it took apart.
Answer(t) == [i \in DOMAIN task[t].batch |-> Content(task[t].batch[i])]

\* Answers that do not match the request: too short, or one wrong chunk.
WrongAnswers(t) ==
    {SubSeq(Answer(t), 1, Len(Answer(t)) - 1)} \cup
    ({[Answer(t) EXCEPT ![i] = d] : i \in DOMAIN task[t].batch, d \in Data} \ {Answer(t)})

Provide(t) ==
    /\ task[t].pc = "fetching"
    /\ \/ /\ task' = [task EXCEPT ![t].pc = "replied", ![t].response = Answer(t)]
          /\ UNCHANGED faults
       \/ /\ faults < MaxFaults
          /\ \E wrong \in WrongAnswers(t) :
                task' = [task EXCEPT ![t].pc = "replied", ![t].response = wrong]
          /\ faults' = faults + 1
    /\ UNCHANGED <<inner, evicted>>

\* Mutant: the hash of a received chunk is not compared with its key.
AcceptUnverified(t) == Len(task[t].response) = Len(task[t].batch)

\* Every chunk hashes to its key, and fulfill's assert_eq! holds.
Accept(t) ==
    /\ Len(task[t].response) = Len(task[t].batch)
    /\ \A i \in DOMAIN task[t].batch : Hash(task[t].response[i]) = task[t].batch[i]

\* The chunks of an answer by their keys.
Received(keys, data) == [k \in Range(keys) |-> data[CHOOSE i \in DOMAIN keys : keys[i] = k]]

\* Mutant: the semaphore of the batch is not closed.
Unclosed(t, u) == task[u]

\* A task after the semaphore of t's batch was closed.
Closed(t, u) == [task[u] EXCEPT !.waitOn = @ \ {t}]

\* The answer is verified and copied to local_cache; fulfill inserts the
\* chunks, takes them out of pending_chunks and closes the semaphore.
Fulfill(t) ==
    /\ ~inner.poisoned
    /\ task[t].pc = "replied"
    /\ Accept(t)
    /\ LET keys == task[t].batch
           raw_cache == InsertAll(inner.raw_cache, keys, task[t].response)
       IN  /\ inner' = [inner EXCEPT
                    !.raw_cache = raw_cache,
                    !.pending_chunks = Restrict(@, DOMAIN @ \ Range(keys))]
           /\ task' = [u \in Task |->
                    IF u = t
                    THEN [task[t] EXCEPT !.pc = "run", !.local = Extend(@, Received(keys, task[t].response)),
                                         !.batch = <<>>, !.response = <<>>]
                    ELSE Closed(t, u)]
           /\ evicted' = evicted \cup ((Keys(inner.raw_cache) \cup Range(keys)) \ Keys(raw_cache))
    /\ UNCHANGED faults

\* A chunk with the wrong hash returns an error, an answer of the wrong
\* length panics in fulfill before the lock is taken: either way the task
\* ends and its batch is dropped.
Reject(t) ==
    /\ task[t].pc = "replied"
    /\ ~Accept(t)
    /\ task' = [task EXCEPT ![t].pc = "failed"]
    /\ UNCHANGED <<inner, faults, evicted>>

\* A stream fails while the task encodes, writes, reads or decodes; or the
\* consumer of the rebuilt data goes away while the task holds no batch.
Break(t) ==
    /\ task[t].pc \in {"run", "fetching", "replied"}
    /\ faults < MaxFaults
    /\ faults' = faults + 1
    /\ task' = [task EXCEPT ![t].pc = "failed"]
    /\ UNCHANGED <<inner, evicted>>

-----------------------------------------------------------------------------
(* get_chunks_batched after the await, and the end of the transfer.        *)

GetAll(cache, keys) == Iterate(Get, cache, keys)

Awake(t) == task[t].pc = "waiting" /\ task[t].waitOn = {}

\* expect("Waited on chunk, but chunk was not put in cache") fails for a
\* missing chunk and poisons the mutex.  (The order of the cache no longer
\* matters behind a poisoned mutex.)
Collect(t) ==
    /\ ~inner.poisoned
    /\ Awake(t)
    /\ LET keys == task[t].waiting
           raw_cache == inner.raw_cache
       IN  IF Range(keys) \subseteq Keys(raw_cache)
           THEN /\ inner' = [inner EXCEPT !.raw_cache = GetAll(@, keys)]
                /\ task' = [task EXCEPT
                        ![t].pc = "run", ![t].waiting = <<>>,
                        ![t].local = Extend(@, [k \in Range(keys) |-> Lookup(raw_cache, k)])]
           ELSE /\ inner' = [inner EXCEPT !.poisoned = TRUE]
                /\ task' = [task EXCEPT ![t].pc = "failed", ![t].waiting = <<>>]
    /\ UNCHANGED <<faults, evicted>>

\* Nothing is left to do but mark_dirty.
AtEnd(t) == task[t].pc = "run" /\ task[t].calls = <<>>

\* Every later lock().unwrap() panics.
PanicOnPoison(t) ==
    /\ inner.poisoned
    /\ AtFetch(t) \/ (task[t].pc = "replied" /\ Accept(t)) \/ Awake(t) \/ AtEnd(t)
    /\ task' = [task EXCEPT ![t].pc = "failed", ![t].waiting = <<>>]
    /\ UNCHANGED <<inner, faults, evicted>>

Finish(t) ==
    /\ ~inner.poisoned
    /\ AtEnd(t)
    /\ inner' = [inner EXCEPT !.needs_saving = TRUE]
    /\ task' = [task EXCEPT ![t].pc = "done"]
    /\ UNCHANGED <<faults, evicted>>

\* Steps a task takes by itself when it is scheduled.
Step(t) ==
    \/ CallPrefetch(t) \/ GetLocal(t)
    \/ StartBatch(t) \/ NoBatch(t)
    \/ Fulfill(t) \/ Reject(t)
    \/ Collect(t) \/ PanicOnPoison(t)
    \/ Finish(t)

Next == \E t \in Task : Step(t) \/ Provide(t) \/ Break(t)

Spec == Init /\ [][Next]_vars

\* Step(t) is enabled exactly here (TLC is slow at ENABLED Step(t)).
CanStep(t) == task[t].pc \in {"run", "replied"} \/ Awake(t)

\* The runtime schedules every task that can run, and the server answers
\* every request unless the stream breaks.
FairSpec ==
    /\ Spec
    /\ \A t \in Task :
        /\ []<>~CanStep(t) \/ []<><<Step(t)>>_vars
        /\ WF_vars(Provide(t))

-----------------------------------------------------------------------------
StartsWith(s, t) == Len(t) <= Len(s) /\ SubSeq(s, 1, Len(t)) = t

\* A task yields exactly the data it is to rebuild, in order, whatever the
\* other tasks fetch, share or evict, and has yielded all of it when it is
\* done (get_chunk, get_chunks_batched, fulfill).
YieldsPayload ==
    \A t \in Task :
        /\ StartsWith(Payload[t], task[t].out)
        /\ task[t].pc = "done" => task[t].out = Payload[t]

\* The shared cache is accounted for and within its limit, and it and every
\* provider hold each chunk under the hash of its content, even when a server
\* answers with the wrong chunks (insert, fetch_chunk_batch).
CacheIntegrity ==
    /\ TypeOK
    /\ AccountsRight(inner.raw_cache)
    /\ ContentMatchesKeys(inner.raw_cache)
    /\ \A t \in Task : \A k \in DOMAIN task[t].local : Hash(task[t].local[k]) = k

\* get_chunk never meets its panic "Chunk was requested without being
\* prefetched first": what a task needs and does not have is still requested.
NothingUnprefetched ==
    \A t \in Task :
        AtCall(t, "get") /\ Wanted(t) \notin DOMAIN task[t].local
            => Wanted(t) \in Range(task[t].requested)

\* What the abstract protocol sees of the tasks: what each is doing, and the
\* keys that pending_chunks maps to the semaphore of its batch.
StatusOf(pc) ==
    CASE pc = "run" -> "idle"
      [] pc \in {"fetching", "replied"} -> "fetching"
      [] pc = "waiting" -> "waiting"
      [] pc \in {"done", "failed"} -> "gone"

Status == [t \in Task |-> StatusOf(task[t].pc)]

Batch ==
    [t \in Task |-> {k \in DOMAIN inner.pending_chunks : inner.pending_chunks[k] = t}]

WaitKeys == [t \in Task |-> Range(task[t].waiting)]

WaitOn == [t \in Task |-> task[t].waitOn]

\* The tasks implement the abstract cache protocol, whose promises are proved
\* in SingleFlightProofs.
Abstract == INSTANCE SingleFlight WITH
    cached <- Keys(inner.raw_cache),
    poisoned <- inner.poisoned,
    status <- Status,
    batch <- Batch,
    waitKeys <- WaitKeys,
    waitOn <- WaitOn

\* get_chunks_batched and fulfill, with the LRU cache and the batches, take
\* only steps of the abstract protocol.
ImplementsSingleFlight == Abstract!Spec

\* Whatever fails, every transfer ends, unless it awaits a batch that a
\* failed task dropped.
EndsOrBehindFailure ==
    \A t \in Task : <>[](\/ task[t].pc \in {"done", "failed"}
                         \/ \E u \in task[t].waitOn : task[u].pc = "failed")

\* get_chunks_batched: "wait for those tasks to complete and place the final
\* chunks into chunks_out".  Every wait ends.
EveryWaitEnds == \A t \in Task : task[t].pc = "waiting" ~> task[t].pc # "waiting"

\* expect("Waited on chunk, but chunk was not put in cache"): a woken task
\* finds every chunk it waited for.
WokenFindsChunks ==
    \A t \in Task : Awake(t) => Range(task[t].waiting) \subseteq Keys(inner.raw_cache)
=============================================================================
