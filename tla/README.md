# Factory Cacher in TLA+

Factory Cacher puts a proxy next to a game server and one next to each player, and sends large downloads (Factorio
worlds, Dyson Sphere Program factories) between them as deduplicated chunks. This directory holds a model of its
concurrent and stateful parts, the configurations that TLC checks, and proofs that TLAPS checks.

## The system

| Part | State | Operations | Modelled by |
|---|---|---|---|
| Shared chunk cache, `common/src/chunk_cache.rs` | LRU map with a byte limit, `pending_chunks` with a semaphore per batch | `get_chunks_batched`, `fulfill`, `mark_dirty` | `SingleFlight` (what it promises), `RawChunkCache`, `ChunkFetch` (how it works) |
| Chunk protocol, `common/src/protocol_utils.rs` | `local_cache` and `pending_chunks` of each provider | `prefetch`, `get_chunk`, `fetch_chunk_batch`, `provide_chunks_as_requested` | `ChunkFetch` |
| Cache file, `chunk_cache.rs`, `lib.rs` | file and temporary file, dirty flag | `start_writer`, `try_save`, `load_from_file` | `CacheFile` |
| Chunker and trees, `common/src/chunker.rs`, `dedup.rs` | rolling hash, one open list per level | `Chunker::next`, `chunk_data`, `minimize_chunk_list`, `prefetch_metadata_chunks`, `reconstruct_data` | `Dedup` (building), `ChunkTree` (walking), `Chunks` (contents and hashes) |
| Factorio server proxy, `factorio-cacher/src/proxy/server_proxy.rs` | `ServerProxyState` | `on_packet_from_server`, `transfer_world_data` | `WorldDownload` |
| Factorio client proxy, `.../client_proxy.rs` | `ClientProxyState`, world data channel | `on_packet_from_client`, `on_new_world_data`, `transfer_world_data` | `BlockServing` |
| World files, `factorio_world.rs`, `zip_writer.rs`, `rev_crc.rs` | `WorldReconstructor`, `ZipWriter` | `deconstruct_world`, `reconstruct_world_file`, `finalize_world`, `forge_crc` | `WorldFile` |
| Factorio packets, `factorio_protocol.rs`, `common/src/utils.rs` | none | decoding and encoding, `filter_packet` | `FactorioPackets` |
| Factorio sessions, both Factorio proxies, `lan_discovery.rs`, `lib.rs` | maps of queues, peer ids, a task per peer and side, the QUIC connection | `run_client_proxy`, `proxy_client`, `run_server_proxy`, `proxy_server`, `lan_discovery_task` | `Peers` |
| Nebula proxies, `dsp-nebula-cacher/src/proxy` | pending dedup streams, collected packet, fragment being held back | `run_server_proxy`, `copy_with_dedup`, `dedup_packet`, `forward_deduped_fragments`, `reconstruct_packet` | `NebulaRelay` |
| Nebula packets, `dsp-nebula-cacher/src/nebula_protocol`, `lz4_frame_encoder.rs` | LZ4 frame encoder | `deconstruct`, `reconstruct`, `add_data`, `finish`, `framed_size` | `NebulaPackets` |

They meet like this. A Factorio session ties a game client's address to a task on each side (`Peers`). A server proxy captures a download (`WorldDownload`, or the collecting part of `NebulaRelay`) and
takes it apart (`WorldFile` or `NebulaPackets`, and `Dedup`). The client proxy walks the resulting trees (`ChunkTree`) with a provider that uses the cache
shared by all its transfers (`ChunkFetch`), and serves what it rebuilds piece by piece (`BlockServing`, or the
forwarding part of `NebulaRelay`). Finished transfers mark the cache dirty, and a writer task saves it (`CacheFile`).

What is hard about it: several transfers share one cache and wait for each other's fetches; an eviction may come between
a wake-up and the lock; a failing stream leaves state behind; a save races new transfers, failures and crashes; UDP loses,
repeats and reorders blocks; blocks are served from a world that is still being rebuilt, under a size that was announced
before; the two ends of a session time out on their own; dedup streams of many peers are matched by id. `PROJECT.json` lists these hazards with their lines and the properties about them.

## Modules

**SingleFlight** is the protocol of the shared cache as a set of small steps: a task *claims* missing chunks, *joins*
the wait for chunks that others fetch, *fulfills* or *abandons* its batch, and *collects* what it waited for. Eviction
is arbitrary. The semaphore of a batch is named by the task that holds the batch; this is exact, because a task opens a
new batch only after the old semaphore was closed.

**ChunkFetch** has the data structures of the code on top of `RawChunkCache`: one action per stretch of code between
locks and awaits. A task executes a *program*, the `prefetch` and `get_chunk` calls that `ChunkTree` derives from its
trees. `ImplementsSingleFlight` states that it refines `SingleFlight` (`INSTANCE ... WITH`: `batch[t]` is the set of
keys that `pending_chunks` maps to t's semaphore, `waitKeys` is `pending_requests`). The scan of `retain` is a fold over
the requested keys. Closing the semaphore follows the unlocking in `fulfill`; it only enables waiters and is part of the
same step.

**CacheFile** writes the file record by record so that a stop can come anywhere. A file is absent, torn or complete.
A transfer that misses a chunk it waited for panics under the mutex (`Poison`, possible once a chunk was evicted); from then
on every transfer panics at its next lock, and so does the writer, which is not restarted.
History variables `owed`, `saved` and `failed` record what the last `mark_dirty` promised, what the last completed save
contained, and whether a save failed since.

**WorldDownload** models the packets that matter: the map-ready heartbeat, other heartbeats with or without world
metadata, and blocks. An announcement that is not recognised, because another action comes first or it is in a later
fragment, is such an other heartbeat. Requests and blocks under way are sets; an element may be delivered, kept (a duplicate) or lost.
The two clocks (100 ms, 30 s) are the Boolean variables `stale` and `quiet`. World bytes are named by part and position,
so that `Assemble` (sort, join, cut at the padded offset) can be compared with the original. Sorting is by rank.

**FactorioPackets** and **WorldFile** are operators on byte strings, `BlockServing` is built on them. A u32 is four bytes,
so that the CRC has its full width within TLC's integers; its table is computed from the polynomial, and the functions
that run over a byte string split it in halves to keep the recursion shallow. The compressor stores what it is given:
what matters is that the archive is rebuilt with another length, and `ZipArchive`, written from the format and not from
`ZipWriter`, must find every file in it.

**BlockServing** rebuilds a world with them, piece by piece. `WorldReady` and `Message` take the
announcement through the server proxy: decoded from the heartbeat, multiplied, rewritten by `filter_packet`, and read
again by the game client. Decoders are functions on byte strings and not operators, which keeps TLC's coverage
statistics small. The channel is bounded; `PacketFromClient` and `NewWorldData` are arms of the proxy loop.

**Peers** has both loops, a task per peer on either side, and between them datagrams, which may be lost, reordered or
overtake the stream of their peer. A queue and its receiver are one: `ClientRuns` and `ServerRuns` say whether `try_send`
reaches anybody. Losing the connection stands for a time-out, for ctrl-c at either end and for the end of `run_server`
after another client's failed handshake. Packets carry only where they come from and whom they are meant for.

**NebulaRelay** has a server task, a client task and a reconstruction per peer, the streams between them, and the shared
map of pending dedup streams. A fragment may have any length, which stands for all ways in which chunks and LZ4 blocks
cut a packet. `Cancel` is `try_join!` dropping a direction at any await. The handshake of a game client has three steps
(`Connect`, `WriteId`, `WriteInfo`), since hyper drops `handle_request` at any await when the game client leaves (`Leave`): a
stream may be finished before its id was written to it, which ends the accept loop, or before the rest was. Streams are
accepted in the order in which they were opened, and the loop reads the id of one before it accepts the next. Once the
accept loop and all server tasks are gone, nothing holds the connection and the client tasks end (`Closed`, `Disconnected`).

**Dedup** is the chunker with a small window, base and modulus, and the tree builder. **NebulaPackets** extends it: the
same data is a file, or the LZ4 frame of one of the three packets, which is unpacked, chunked, and streamed into a new
frame. `Parse` is the game's reader; it goes by the announced length alone. Both use recursive operators and are only
model-checked.

Operators marked *Mutant* in a comment are deliberately wrong variants of the definition that follows them. Nothing uses them in
the model. Substituting one for its definition must make the property it is paired with in `PROJECT.json` fail.

## Runs

| Run | Shows | Bounds and why they are enough |
|---|---|---|
| `single_flight` | one fetch per chunk, pending chunks are not cached, no cyclic waits, every chunk waited for is accounted for, panics need evictions, chunks are released only by insertion | 3 tasks, 3 chunks: two batches and a waiter on both. Proved in general below |
| `chunk_fetch` | tasks yield their data, the cache is sound, nothing is used unprefetched, refinement of `SingleFlight`, every transfer ends or waits behind a failed task | 3 tasks with common chunks, a two-level tree with a repeated chunk, batches of 2, which its leaf list exceeds, a limit of 3 bytes for 5 bytes of chunks, empty or loaded cache, one fault of any kind |
| `chunk_fetch_leak` | **violated**: every wait ends | 2 tasks, one broken stream |
| `chunk_fetch_evict` | **violated**: a woken task finds its chunks | 3 tasks, no fault |
| `cache_file` | the file is never torn, `mark_dirty` is not lost to a save, recency survives a restart, damaged chunks are skipped, dirty chunks reach the disk unless the writer died | 2 chunks of sizes 1 and 2, limits 2 (evictions, hence a poisoned mutex) and 3 (a restart may shrink the cache), 2 stops, 1 failed save, 1 damaged chunk |
| `world_download` | blocks accounted for once, window full, world intact, the download ends | 3 world blocks (the last padded), 1 auxiliary block, window of 2; any loss, repetition and order |
| `world_download_late` | **violated**: no block of the original world reaches the game client | same |
| `block_serving` | served blocks are right, the finished world is what was announced (size, files, auxiliary data, checksum), no request is overlooked, requests are answered however they are fragmented | 3 files, one empty, one compressed by the game; announced size with padding, exact, and one byte too small; a world that fills its last block; plain and fragmented packets, with and without confirmations, and packets cut off; channel of 1; one failure |
| `nebula_relay` | messages whole and in order, frames valid, streams matched, senders awaited, why the accept loop ends, delivery, why a wait does not end | 2 peers; a fragmented small message, a collected one with a ping inside, a broken-off one, one in a single frame; 2 faults anywhere |
| `nebula_truncated` | **violated**: no truncated message is delivered | 1 peer, one fault |
| `dedup` | rebuilding yields the input, sizes and lists bounded, the rolling hash depends only on its window, Nebula packets keep their content in a frame of the announced size | all 0/1 inputs up to length 12, which reach three levels and minimization, no, partial and full LZ4 blocks of 4 bytes; as a file and as each kind of packet |
| `peers` | sessions are kept apart, one task per game client, a client is heard unless its session is half dead, everything winds down | 2 game clients, 2 server addresses, 2 ids (a client that returns uses the second, the third session finds none left), queues of 1, which overflow; one failing task or socket; any loss, order and time-out |

Deadlock is checked for `WorldDownload` and `BlockServing`, which never stop. `CacheFile` stops when the mutex is poisoned
and the writer dead. In the other models transfers and connections end. That they end properly is a liveness property there.

**Fairness.** `ChunkFetch`: a task that can run is scheduled (tokio) and a request is answered unless the stream breaks.
TLC is slow at `ENABLED` of these steps, so the condition is written with `CanStep`, which says when a task can step.
`CacheFile`: the writer wakes up after each interval as long as it lives, if only to panic, and its blocking task makes progress. `WorldDownload`: weak
fairness for heartbeats and time; strong fairness for serving and receiving each block, since a network that loses every
copy can finish nothing. The resend happens only when some other packet arrives, so the game server's regular heartbeats
are an assumption of `DownloadEnds`. `BlockServing` and `NebulaRelay`: tasks are scheduled and QUIC streams deliver; the
condition for `transfer_world_data` is written out, as evaluating `ENABLED` rebuilds the world. `Peers`: every arm of a
`select!` that stays ready is taken, for tokio polls the arms in random order; strong fairness for the delivery of a
peer's datagrams, since a network that loses all of them carries nothing. No time-out is assumed to happen, and that a
game client keeps sending is a premise of `HeardUnlessHalfDead`.
Failures, stops and bit rot are never fair.

## Proofs

Each theorem holds for all values of the constants: any sets of tasks, chunks and peers, any sizes, limits and scripts.
The method is the same throughout. An inductive invariant `IInv` is shown to hold initially and to survive every step,
with one lemma per action, and the properties follow from it. Each `IInv` held in TLC before it was proved.

| Module | Proves | Assumes of the constants |
|---|---|---|
| `FoldTheorems` | what a fold over a sequence satisfies | nothing |
| `RawChunkCacheProofs` | `insert` and `get` keep a cache sound | chunks have positive sizes |
| `ChunkFetchProofs` | `CacheIntegrity`, `NothingUnprefetched`, `YieldsPayload`, `ImplementsSingleFlight` | positive batch size; programs prefetch before they get, and yield the payload |
| `SingleFlightProofs` | all properties of `single_flight` and its type invariant | nothing |
| `CacheFileProofs` | `FileNeverTorn`, `DirtyNotForgotten`, `CacheSound`, `RestoresRecency` | positive sizes, natural limits |
| `WorldDownloadProofs` | `TypeOK`, `EveryBlockAccounted`, `WindowKeptFull`, `WorldIntact` | positive world size, block size and window |
| `PeersProofs` | `SessionsApart`, `OneSessionPerAddress` | queues hold at least one packet |
| `NebulaRelayProofs` | `AcceptLoopAlive`, `StreamsMatched`, `FramesValid`, `MessagesIntact` | the game server sends valid frames, and may break a large message off; a frame recognized as large has content |

**SingleFlight.** `IInv` joins the properties with `HoldingMatchesStatus`, which says what each status
implies about batches and waits: only fetching or gone tasks hold chunks, and only waiting tasks wait. `NoWaitCycle`
needs it, since a task that joins a wait is idle and so nobody waits for it. `WaitedChunkAccounted` needs that a waiter
awaits every holder of its chunks.

**Folds.** The loops of the code are folds (`FoldLeft`), which are defined by recursion over sets. `FoldTheorems` derives
the equations of a fold from its definition: the fold of the empty sequence, and of a sequence with one more element. The
induction is not over formulas but over a set of numbers (`Induction`, proved from the least element of a set of naturals
in `RawChunkCacheProofs`), which the provers can instantiate.

**RawChunkCache.** `Sound` says that keys are distinct, that contents match them, that the byte count is the sum of the
sizes, and that it is within the limit. Eviction needs the first and the third: the loop stops in time only because the
count is the sum of what can be removed (`EvictLoopStops`). Removing an entry from the middle takes its size off the sum
(`BytesRemoveAt`).

**ChunkFetch.** `Coherent` is about one task: what it has yielded so far, followed by what its remaining calls yield, is
its payload; its remaining calls get only keys that it has, has requested, is fetching or is waiting for, or prefetches
before. `Registered` ties tasks to the cache: `pending_chunks` maps just the keys of its batch to a task's semaphore. The
refinement rests on both: scanning with a new batch is a claim, scanning without one is a join, fulfilling, collecting
and failing are themselves, and everything else stutters. With it the theorems about `SingleFlight` hold of the code's
data structures. That a program has the properties it is assumed to have (`ProgramAssumption`) is evaluated by TLC on
the programs that `ChunkTree` makes of its trees.

**CacheFile.** `Writing` says that the temporary file is the beginning of the clone, and all of it at the rename;
`Promised` says where the keys of the last `mark_dirty` are once the flag is clear, the clone during a save and the file
otherwise. It needs that these keys are in the cache when the clone is taken. For `RestoresRecency`, `Mirrors` says that
the saved chunks have distinct keys that match their contents, and that the file has these keys in the same places, damaged
or not. Loading is then followed chunk by chunk (`Loaded`): the cache always holds the longest end of the surviving chunks
read so far that fits into the limit. One insertion keeps this (`InsertFits`), because a chunk that was evicted would not
fit after a further one either, and no key read later is already there.

**WorldDownload.** `TypeOK`, `EveryBlockAccounted` and `WindowKeptFull` are inductive together: the window argument needs
the finiteness that the types give. `WindowFilled` is the lemma about `request_next_blocks`, `BlockAppended` the one
about recording a block. `WorldIntact` follows from the account of the blocks: as each was received once, the rank of a
block among the received ones is its number (`BlocksSorted`), joining the blocks in that order yields all bytes sent
(`BlocksJoin`, where the position after each block is known in closed form), and rounding up to whole blocks leaves room
for the padding only (`BlockCounts`).

**Peers.** Ids from `next_peer_id` on are untouched (`Lifecycle`), an entry of `addr_to_queue` names a session of that
address and a running task is the one its address is mapped to (`MapSound`), and whatever is under way for an id belongs
to its address and its Factorio server (`OwnPackets`).

**NebulaRelay.** For the ids, `Matching` follows an id from its indicator over the reconstruction to its stream: all
along it is pending, for the peer that gave it out (`AllPending`), and in one place only (`OnWayOnce`), so that the first
stream with an id is the last. A peer's server task starts once (`StartsOnce`), and a stream that is finished empty belongs
to a game client that has left, which is all that can end the loop. For the frames, `Shaped` says that what
is still to be read, on the game server's web socket and on the stream, continues what both tasks are in the middle of:
a task that copies is between messages or inside a small one, a task that gathers is inside a large one, and the stream
carries an indicator only between messages. A message being forwarded is open just when its first fragment was written,
and there is then a fragment held back to close it. `Leads` describes such sequences by the states between frames.

For the contents, `AllIntact` adds up what is under way to a game client: what its web socket has received, the
packet being written to it (the bytes written, `last_bytes`, the fragments in the channel and what `reconstruct_packet` has
still to send), the frames on the stream, the packet being collected, and the frames of the game server still to be read.
In this order they make what the game server sends (`Whole`). The frame on the stream that stands for a whole packet is
the indicator, and it stands for the packet of the server task. That is right only because a task announces no second
packet before the first is forwarded (`OneAtATime`), and because the stream that a server task is handed is the one its
reconstruction waits on (`Awaited`), where the invariant for the ids comes in. A message that the game server breaks off
leaves no trace: a frame that starts a new message starts afresh (`AddsBinary`). What a game client has received is
therefore always a beginning of what was sent. `Received`, the meaning of a sequence of frames, is a recursive function;
`ReceivedIs` shows from its `CHOOSE` that there is such a function, by induction over a set of numbers.
A peer whose reconstruction failed is left out of the invariant from then on, as it is of the property.

Only model-checked:

- liveness, and whatever mentions `ENABLED`, which the prover cannot do;
- `SendersAwaited` of `NebulaRelay`;
- `Dedup`, `NebulaPackets` and `ChunkTree`, which are built from recursive operators over data;
- `WorldFile` and `BlockServing`, whose worlds are bytes: that an archive unpacks to its files, and that a forged checksum is
  the announced one, would need induction over these bytes.

## What the code does differently from what it says

1. **Leaked batches** (`chunk_fetch_leak`). An error in `fetch_chunk_batch` drops the batch, its chunks stay in
   `pending_chunks`, and every later transfer that needs one waits for ever.
2. **Eviction before wake-up** (`chunk_fetch_evict`). A waiter may find its chunk evicted. Its `expect` then panics under the
   mutex and poisons it. `PanicNeedsEviction` shows that nothing else can cause it.
3. **Late blocks** (`world_download_late`). A repeated block that arrives after the download is forwarded to the client.
4. **Truncated packets** (`nebula_truncated`). A reconstruction that fails half way delivers a truncated message as complete.

Other things the code does are built into properties as exceptions, each stated as narrowly as the code permits.

- A save that fails is not repeated until another transfer finishes, because the dirty flag is cleared first (`failed` in
  `DirtyNotForgotten`).
- The panic of item 2 also ends the writer, at its next `lock().expect`, while the client runs on; from then on nothing is
  saved (`DirtyReachesDisk`), though the client "periodically saves its chunk cache" (`src/README.md:133`).
- A session whose server task timed out stays half dead while its game client keeps sending (`HalfDead` in
  `HeardUnlessHalfDead`).
- A game client of Nebula that leaves between the opening of its stream and the writing of its id ends `run_server_proxy` for
  all peers of the connection (`AcceptLoopAlive`). Sessions that are open go on relaying, but a packet large enough to be
  deduplicated is never fetched: its server task waits for ever, as it does when the client task ends before it reads the
  indicator. `WaitEndsOrClientGone` names both cases and shows that there is no third. `SendersAwaited` shows that what such a
  task leaves in the shared map is one sender.

## Not modelled

Compression (zlib, zstd, the compressed LZ4 blocks the games make) and message encoding, which are libraries; the varint
that carries a peer id in a datagram; sizes near 4 GB, whose conversions end the transfer; loss of the
QUIC connection under the Nebula proxies by anything but the end of the server's tasks; power loss (the file is not synced); UPnP, QUIC set-up, logging and command line,
which are I/O without state of their own. blake3 is assumed injective, xxHash and fnv are replaced by small functions.

## Plan

A composition of `WorldDownload` and `BlockServing`: late blocks of the original world meeting served blocks at the game client.
