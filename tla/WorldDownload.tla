---------------------------- MODULE WorldDownload ----------------------------
(***************************************************************************)
(* The Factorio server proxy (ServerProxyState in                          *)
(* factorio-cacher/src/proxy/server_proxy.rs): it notices the map-ready    *)
(* heartbeat of the game server, downloads the world itself block by       *)
(* block, and hands it to the deduplicating transfer.                      *)
(*                                                                         *)
(* Between the proxy and the game server is UDP: requests and blocks are   *)
(* lost, duplicated and reordered.  A packet that cannot be decoded has    *)
(* the effect of a lost one.                                               *)
(***************************************************************************)
EXTENDS Integers, FiniteSets, SequencesExt

CONSTANTS
    WorldSize, AuxSize,  \* bytes, as the map-ready heartbeat announces them
    BlockSize,           \* TRANSFER_BLOCK_SIZE
    Limit                \* INFLIGHT_BLOCK_REQUEST_LIMIT

ASSUME SizeAssumption ==
    /\ WorldSize \in Nat \ {0}
    /\ AuxSize \in Nat
    /\ BlockSize \in Nat \ {0}
    /\ Limit \in Nat \ {0}

VARIABLES
    phase,         \* ServerProxyPhase
    queue,         \* block_request_queue
    inflight,      \* inflight_block_requests
    received,      \* block ids of received_blocks, in order of arrival
    stale,         \* last_block_time is over 100 ms ago
    filter,        \* packet_filter is Some
    quiet,         \* last_replace is over 30 s ago
    requests,      \* block requests under way to the game server
    blocks,        \* blocks under way to the proxy
    leaked,        \* history: blocks of the server's world sent to the game client
    world          \* world and aux data given to deconstruct_world

download == <<phase, queue, inflight, received, stale, world>>
filtering == <<filter, quiet>>
network == <<requests, blocks>>
vars == <<phase, queue, inflight, received, stale, filter, quiet, requests,
          blocks, leaked, world>>

BlockCount(size) == (size + BlockSize - 1) \div BlockSize
WorldBlocks == BlockCount(WorldSize)
Block == 0 .. WorldBlocks + BlockCount(AuxSize) - 1

NoWorld == [world |-> <<>>, aux |-> <<>>]

TypeOK ==
    /\ phase \in {"WaitingForWorld", "DownloadingWorld", "Done"}
    /\ queue \subseteq Block
    /\ inflight \subseteq Block
    /\ received \in Seq(Block)
    /\ stale \in BOOLEAN
    /\ filter \in BOOLEAN
    /\ quiet \in BOOLEAN
    /\ requests \subseteq Block
    /\ blocks \subseteq Block
    /\ leaked \subseteq Block

\* ServerProxyState::new.
Init ==
    /\ phase = "WaitingForWorld"
    /\ queue = {}
    /\ inflight = {}
    /\ received = <<>>
    /\ stale = FALSE
    /\ filter = FALSE
    /\ quiet = FALSE
    /\ requests = {}
    /\ blocks = {}
    /\ leaked = {}
    /\ world = NoWorld

-----------------------------------------------------------------------------
(* The game server's world: every part of it is sent in blocks of          *)
(* BlockSize bytes, the last block of the world padded.                    *)

Bytes(part, size) == [i \in 1 .. size |-> <<part, i>>]

BlockData(b) ==
    LET all == Bytes("world", WorldSize)
                   \o Bytes("pad", WorldBlocks * BlockSize - WorldSize)
                   \o Bytes("aux", AuxSize)
        end == (b + 1) * BlockSize
    IN  SubSeq(all, b * BlockSize + 1, IF end < Len(all) THEN end ELSE Len(all))

\* Mutant: the blocks are joined in the order they arrived in.
AssembleUnsorted(ids) ==
    LET data == FlattenSeq([i \in DOMAIN ids |-> BlockData(ids[i])])
        aux_data_offset == WorldBlocks * BlockSize
    IN  [world |-> SubSeq(data, 1, WorldSize),
         aux   |-> SubSeq(data, aux_data_offset + 1, aux_data_offset + AuxSize)]

\* sort_by_key is stable: a block comes after those with a lower id and those
\* with the same id before it.
Rank(ids, k) == Cardinality({j \in DOMAIN ids : ids[j] < ids[k] \/ (ids[j] = ids[k] /\ j <= k)})

Sorted(ids) == [i \in DOMAIN ids |-> ids[CHOOSE k \in DOMAIN ids : Rank(ids, k) = i]]

\* transfer_world_data: the received blocks are sorted and joined, and the two
\* parts cut out.
Assemble(ids) ==
    LET sorted == Sorted(ids)
        data == FlattenSeq([i \in DOMAIN ids |-> BlockData(sorted[i])])
        aux_data_offset == WorldBlocks * BlockSize
    IN  IF Len(data) < aux_data_offset + AuxSize
        THEN NoWorld
        ELSE [world |-> SubSeq(data, 1, WorldSize),
              aux   |-> SubSeq(data, aux_data_offset + 1, aux_data_offset + AuxSize)]

-----------------------------------------------------------------------------
(* Packets from the game server.                                           *)

\* Mutant: one request too many.
FillsWindowOffByOne(next, q, i) ==
    /\ Cardinality(next) <= Limit + 1 - Cardinality(i)
    /\ next # q => Cardinality(next) = Limit + 1 - Cardinality(i)

\* request_next_blocks stops when the window is full or the queue empty.
FillsWindow(next, q, i) ==
    /\ Cardinality(next) <= Limit - Cardinality(i)
    /\ next # q => Cardinality(next) = Limit - Cardinality(i)

\* request_next_blocks moves the lowest blocks of queue q into the window of
\* requests i.  out_packets holds the requests already made: resent.
RequestNext(q, i, resent) ==
    \E next \in SUBSET q :
        /\ FillsWindow(next, q, i)
        /\ \A b \in next, c \in q \ next : b < c
        /\ queue' = q \ next
        /\ inflight' = i \cup next
        /\ requests' = requests \cup resent \cup next

\* The end of on_packet_from_server for a heartbeat that carries world
\* metadata (info) or not: filter_packet replaces the metadata, and the filter
\* is dropped when there was nothing to replace for 30 s.
Forward(info) ==
    /\ filter' = (filter /\ (info \/ ~quiet))
    /\ quiet' = (quiet /\ ~info)

\* Mutant: one block past the end is queued.
AllBlocksInclusive == Block \cup {Cardinality(Block)}

\* The queue starts with every block of both parts.
AllBlocks == Block

\* The first map-ready heartbeat: transition_to_downloading_world.
MapReady ==
    /\ phase = "WaitingForWorld"
    /\ phase' = "DownloadingWorld"
    /\ filter' = TRUE
    /\ quiet' = FALSE
    /\ received' = <<>>
    /\ stale' = FALSE
    /\ RequestNext(AllBlocks, {}, {})
    /\ UNCHANGED <<blocks, leaked, world>>

\* Mutant: requests are not repeated.
ResentNothing == {}

\* The inflight requests are repeated.
Resent == inflight

\* Any other heartbeat, forwarded to the game client.  It may carry the
\* metadata and not be recognised (another action comes first, or it is in a
\* later fragment).  While downloading it is also the moment to notice that no
\* block came for 100 ms.
Heartbeat(info) ==
    /\ IF phase = "DownloadingWorld" /\ stale
       THEN RequestNext(queue, inflight, Resent) /\ stale' = FALSE
       ELSE UNCHANGED <<queue, inflight, requests, stale>>
    /\ Forward(info)
    /\ UNCHANGED <<phase, received, blocks, leaked, world>>

\* Mutant: a block is taken whether or not it was still missing.
WantedAlways(b) == TRUE

\* The block is removed from the inflight requests or, else, from the queue.
Wanted(b) == b \in inflight \/ b \in queue

\* A TransferBlock packet while downloading: it is recorded if it was missing.
\* Then the world is finalized, or the next blocks are requested.
TakeBlock(b) ==
    /\ received' = IF Wanted(b) THEN Append(received, b) ELSE received
    /\ stale' = (stale /\ ~Wanted(b))
    /\ LET i == inflight \ {b}
           q == IF b \in inflight THEN queue ELSE queue \ {b}
       IN  IF i = {} /\ q = {}
           THEN /\ phase' = "Done"
                /\ queue' = {}
                /\ inflight' = {}
                /\ world' = Assemble(received')
                /\ UNCHANGED requests
           ELSE /\ RequestNext(q, i, {})
                /\ UNCHANGED <<phase, world>>
    /\ UNCHANGED <<filtering, leaked>>

\* A TransferBlock packet in any other phase is forwarded like every packet.
PassBlock(b) ==
    /\ leaked' = leaked \cup {b}
    /\ filter' = (filter /\ ~quiet)
    /\ UNCHANGED <<download, requests, quiet>>

ReceiveBlock(b) ==
    /\ b \in blocks
    /\ blocks' \in {blocks, blocks \ {b}}
    /\ IF phase = "DownloadingWorld" THEN TakeBlock(b) ELSE PassBlock(b)

-----------------------------------------------------------------------------
(* The game server, the network and the clock.                             *)

\* The game server answers a request.
Serve(b) ==
    /\ b \in requests
    /\ blocks' = blocks \cup {b}
    /\ requests' \in {requests, requests \ {b}}
    /\ UNCHANGED <<download, filtering, leaked>>

Lose ==
    /\ \/ \E b \in requests : requests' = requests \ {b} /\ UNCHANGED blocks
       \/ \E b \in blocks : blocks' = blocks \ {b} /\ UNCHANGED requests
    /\ UNCHANGED <<download, filtering, leaked>>

\* 100 ms pass without a new block.
BlockTimeout ==
    /\ phase = "DownloadingWorld"
    /\ ~stale
    /\ stale' = TRUE
    /\ UNCHANGED <<phase, queue, inflight, received, world, filtering, network, leaked>>

\* 30 s pass without a packet to rewrite.
FilterTimeout ==
    /\ filter
    /\ ~quiet
    /\ quiet' = TRUE
    /\ UNCHANGED <<download, filter, network, leaked>>

Next ==
    \/ MapReady
    \/ \E info \in BOOLEAN : Heartbeat(info)
    \/ \E b \in Block : ReceiveBlock(b) \/ Serve(b)
    \/ Lose
    \/ BlockTimeout
    \/ FilterTimeout

Spec == Init /\ [][Next]_vars

\* The game server announces the map and keeps sending heartbeats, time
\* passes, and the network does not lose every copy of a packet.
FairSpec ==
    /\ Spec
    /\ WF_vars(MapReady)
    /\ WF_vars(Heartbeat(FALSE))
    /\ WF_vars(BlockTimeout)
    /\ \A b \in Block : SF_vars(Serve(b)) /\ SF_vars(ReceiveBlock(b))

-----------------------------------------------------------------------------
\* While downloading, every block of the world is in exactly one of the queue,
\* the window of requests and the received blocks, and none was received twice
\* (on_packet_from_server, request_next_blocks).
EveryBlockAccounted ==
    phase # "WaitingForWorld" =>
        /\ queue \cup inflight \cup ToSet(received) = Block
        /\ queue \cap inflight = {}
        /\ (queue \cup inflight) \cap ToSet(received) = {}
        /\ IsInjective(received)

\* The window of requests never exceeds INFLIGHT_BLOCK_REQUEST_LIMIT, and it
\* is full as long as blocks are queued: the download never idles with work
\* left (request_next_blocks).
WindowKeptFull ==
    /\ Cardinality(inflight) <= Limit
    /\ queue # {} => Cardinality(inflight) = Limit

\* Whatever the order the blocks came in and however often, the world handed
\* on is the game server's, world and auxiliary data cut at the right place
\* (transfer_world_data).
WorldIntact ==
    phase = "Done" => world = [world |-> Bytes("world", WorldSize),
                               aux   |-> Bytes("aux", AuxSize)]

\* Lost requests and lost blocks are made up for: the download ends, provided
\* heartbeats keep coming (the resend of on_packet_from_server).
DownloadEnds == <>(phase = "Done")

\* README: "As soon as the Cacher server detects that the game server is trying
\* to send a large chunk of data that could be deduplicated, it captures the
\* data".  No block of the original world reaches the game client.
BlocksCaptured == leaked = {}
=============================================================================
