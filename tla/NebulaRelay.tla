----------------------------- MODULE NebulaRelay -----------------------------
(***************************************************************************)
(* The Nebula proxies (dsp-nebula-cacher/src/proxy): web socket frames of  *)
(* the game server are relayed over a QUIC stream per peer; a large packet *)
(* is collected, announced by an indicator frame, and rebuilt by the       *)
(* client proxy over a second stream, which the indicator's id ties to the *)
(* waiting server task.                                                    *)
(*                                                                         *)
(* The direction from the game client to the game server only relays; it   *)
(* appears through Cancel, by which its failure ends a server task.        *)
(* Streams are reliable and ordered.  Payloads are sequences of pieces;    *)
(* chunks and LZ4 frames are left out.                                     *)
(***************************************************************************)
EXTENDS Integers, Sequences, Functions

CONSTANTS
    Peer,        \* web socket connections of game clients
    Piece,       \* what payloads are made of
    Script,      \* frames the game server sends to each peer
    Capacity,    \* capacity of the fragment channel
    MaxFaults    \* bound: connections, handshakes and reconstructions that fail

\* large: the frame starts a packet that NebulaPacketHeader::decode knows and
\* that exceeds MINIMUM_DEDUP_SIZE.
Frame(op, fin, data, large) == [op |-> op, fin |-> fin, data |-> data, large |-> large]

WsFrame == [op : {"binary", "continuation", "control"}, fin : BOOLEAN,
            data : Seq(Piece), large : BOOLEAN]

\* The frame of StartDedupIndicator::encode, which decode recognizes.
Indicator(id) == [op |-> "indicator", id |-> id]

StreamFrame == WsFrame \cup [op : {"indicator"}, id : Nat]

\* The frames s lead from state a to state b, each by a step in Steps.
Leads(Steps, States, s, a, b) ==
    \E w \in [0 .. Len(s) -> States] :
        /\ w[0] = a
        /\ w[Len(s)] = b
        /\ \A i \in 1 .. Len(s) : <<w[i - 1], s[i], w[i]>> \in Steps

\* What is under way on the game server's web socket: nothing, a message, or
\* one that copy_with_dedup has recognized as large.
Under == {"nothing", "message", "large"}

\* Frames follow one another as on any web socket, but a large message may be
\* broken off by the next one ("New WS message started before old was finished").
Follow(a, f, b) ==
    \/ f.op = "control" /\ b = a
    \/ /\ f.op = "binary"
       /\ a # "message"
       /\ b = IF f.fin THEN "nothing"
              ELSE IF f.large /\ a = "nothing" THEN "large" ELSE "message"
    \/ /\ f.op = "continuation"
       /\ a # "nothing"
       /\ b = IF f.fin THEN "nothing" ELSE a

Follows == {e \in Under \X WsFrame \X Under : Follow(e[1], e[2], e[3])}

ASSUME ScriptAssumption ==
    \A p \in Peer :
        /\ Script[p] \in Seq(WsFrame)
        /\ \E b \in Under : Leads(Follows, Under, Script[p], "nothing", b)
        /\ \A i \in DOMAIN Script[p] : Script[p][i].large => Script[p][i].data # <<>>

ASSUME BoundsAssumption == Capacity \in Nat \ {0} /\ MaxFaults \in Nat

VARIABLES
    incoming,    \* frames of the game server not yet read
    srv,         \* proxy_server of each peer: where it is, packet_data, whom it serves
    ws,          \* frames on the peer's stream, server proxy to client proxy
    cli,         \* handle_ws_connection of each peer, with last_bytes and first_frame
    rec,         \* reconstruct_packet of each peer, with what it has still to send
    fragments,   \* the channel from reconstruct_packet to the forwarding loop
    streams,     \* streams opened by the client proxy and not yet accepted, in order
    pending_dedup_streams,
    next_id,     \* NEXT_DEDUP_STREAM_ID
    accepting,   \* run_server_proxy has not returned
    game,        \* what each game client has received
    faults,
    spoiled      \* history: peers with a failed reconstruction

vars == <<incoming, srv, ws, cli, rec, fragments, streams, pending_dedup_streams,
          next_id, accepting, game, faults, spoiled>>
server == <<incoming, srv, pending_dedup_streams, next_id, accepting>>
client == <<cli, rec, fragments, game, spoiled>>

-----------------------------------------------------------------------------
(* The web socket of a game client puts messages together from frames.     *)

NoMessages == [got |-> <<>>, open |-> FALSE, data |-> <<>>, valid |-> TRUE]

Receive(g, f) ==
    IF f.op = "control" THEN g
    ELSE LET data == IF f.op = "binary" THEN f.data ELSE g.data \o f.data
         IN  [got   |-> IF f.fin THEN Append(g.got, data) ELSE g.got,
              open  |-> ~f.fin,
              data  |-> IF f.fin THEN <<>> ELSE data,
              valid |-> g.valid /\ (g.open <=> f.op = "continuation")]

\* What a web socket has received after each of the frames.
Received(frames) ==
    LET after[n \in 0 .. Len(frames)] ==
            IF n = 0 THEN NoMessages ELSE Receive(after[n - 1], frames[n])
    IN  after

\* The messages the game server sends in full.
Sent(p) == Received(Script[p])[Len(Script[p])].got

ServerTask ==
    [at : {"off", "greet", "copy", "gather", "gathered", "wait", "provide", "ended"},
     data : Seq(Piece), to : Peer]
ClientTask ==
    [at : {"off", "opened", "named", "copy", "forward", "ended", "silent", "left"},
     first_frame : BOOLEAN, last_bytes : Seq(Piece)]
Reconstruction ==
    [at : {"none", "open", "describe", "run", "done", "failed"}, id : Nat, todo : Seq(Piece)]
Messages == [got : Seq(Seq(Piece)), open : BOOLEAN, data : Seq(Piece), valid : BOOLEAN]

\* No id has been written to the stream yet; it was finished without one.
Blank == -1
Empty == -2

\* What is read from the first stream of a peer.
First == {0, Blank, Empty}

Stream == [id : Nat \cup First, peer : Peer]
PendingDedupStreamsMap(n) == UNION {[ids -> Peer] : ids \in SUBSET (1 .. n)}

TypeOK ==
    /\ incoming \in [Peer -> Seq(WsFrame)]
    /\ srv \in [Peer -> ServerTask]
    /\ ws \in [Peer -> Seq(StreamFrame)]
    /\ cli \in [Peer -> ClientTask]
    /\ rec \in [Peer -> Reconstruction]
    /\ fragments \in [Peer -> Seq(Seq(Piece))]
    /\ \A p \in Peer : Len(fragments[p]) <= Capacity
    /\ streams \in Seq(Stream)
    /\ next_id \in Nat
    /\ pending_dedup_streams \in PendingDedupStreamsMap(next_id)
    /\ accepting \in BOOLEAN
    /\ game \in [Peer -> Messages]
    /\ faults \in 0 .. MaxFaults
    /\ spoiled \subseteq Peer

Init ==
    /\ incoming = [p \in Peer |-> Script[p]]
    /\ srv = [p \in Peer |-> [at |-> "off", data |-> <<>>, to |-> p]]
    /\ ws = [p \in Peer |-> <<>>]
    /\ cli = [p \in Peer |-> [at |-> "off", first_frame |-> TRUE, last_bytes |-> <<>>]]
    /\ rec = [p \in Peer |-> [at |-> "none", id |-> 0, todo |-> <<>>]]
    /\ fragments = [p \in Peer |-> <<>>]
    /\ streams = <<>>
    /\ pending_dedup_streams = <<>>
    /\ next_id = 1
    /\ accepting = TRUE
    /\ game = [p \in Peer |-> NoMessages]
    /\ faults = 0
    /\ spoiled = {}

-----------------------------------------------------------------------------
(* run_server_proxy.                                                       *)

\* A server task that is about to read the next frame.
Copying(p) == [srv[p] EXCEPT !.at = "copy", !.data = <<>>]

\* Mutant: the stream is taken and the waiting task is not told.
HandedNowhere(q, peer) == srv[q]

\* tx.send gives the stream to the task that waits for it, if it still does.
HandedOver(q, peer) ==
    IF srv[q].at = "wait" THEN [srv[q] EXCEPT !.at = "provide", !.to = peer] ELSE srv[q]

\* Mutant: the sender is used and stays in the map.
LeftInMap(id) == pending_dedup_streams

\* remove of the map of pending streams.
Removed(id) == Restrict(pending_dedup_streams, DOMAIN pending_dedup_streams \ {id})

\* The next stream, in the order in which they were opened, once its id can be
\* read: 0 is a new peer, for which proxy_server starts; any other id must be
\* pending.  An unknown id, or the end of the stream before its id, ends the
\* loop with an error.
AcceptStream ==
    /\ accepting
    /\ streams # <<>>
    /\ Head(streams).id # Blank
    /\ streams' = Tail(streams)
    /\ LET s == Head(streams)
           known == DOMAIN pending_dedup_streams
           q == IF s.id \in known THEN pending_dedup_streams[s.id] ELSE s.peer
       IN  /\ srv' = [srv EXCEPT ![q] =
                IF s.id = 0 THEN [@ EXCEPT !.at = "greet"]
                ELSE IF s.id \in known THEN HandedOver(q, s.peer) ELSE @]
           /\ pending_dedup_streams' = Removed(s.id)
           /\ accepting' = (s.id \in known \cup {0})
    /\ UNCHANGED <<incoming, ws, next_id, client, faults>>

\* proxy_server reads InitialConnectionInfo and connects to the game server, or
\* ends with the stream of a game client that left before it was written.
Greet(p) ==
    /\ srv[p].at = "greet"
    /\ cli[p].at # "named"
    /\ srv' = [srv EXCEPT ![p] =
            IF cli[p].at = "left" THEN [@ EXCEPT !.at = "ended"] ELSE Copying(p)]
    /\ UNCHANGED <<incoming, pending_dedup_streams, next_id, accepting, ws, client, streams, faults>>

-----------------------------------------------------------------------------
(* copy_with_dedup and dedup_packet of the server proxy.                   *)

\* Writing to a stream whose reader is gone may fail, which ends the task.
WriteThen(p, frame, next) ==
    \/ /\ ws' = [ws EXCEPT ![p] = Append(@, frame)]
       /\ srv' = [srv EXCEPT ![p] = next]
    \/ /\ cli[p].at = "ended"
       /\ srv' = [srv EXCEPT ![p].at = "ended"]
       /\ UNCHANGED ws

ReadFrame(p) == incoming[p] # <<>> /\ incoming' = [incoming EXCEPT ![p] = Tail(@)]

CopyFrame(p) ==
    /\ srv[p].at = "copy"
    /\ ReadFrame(p)
    /\ LET frame == Head(incoming[p])
       IN  IF frame.op = "binary" /\ frame.large
           THEN /\ srv' = [srv EXCEPT ![p].at = IF frame.fin THEN "gathered" ELSE "gather",
                                      ![p].data = frame.data]
                /\ UNCHANGED ws
           ELSE WriteThen(p, frame, srv[p])
    /\ UNCHANGED <<pending_dedup_streams, next_id, accepting, client, streams, faults>>

\* Mutant: the payload of the final frame is left out.
GatheredWithoutLast(p, frame) == IF frame.fin THEN srv[p].data ELSE srv[p].data \o frame.data

\* packet_data.extend_from_slice.
Gathered(p, frame) == srv[p].data \o frame.data

\* A continuation frame is collected, a control frame is relayed at once; a
\* new message is relayed and what was collected is dropped.
GatherFrame(p) ==
    /\ srv[p].at = "gather"
    /\ ReadFrame(p)
    /\ LET frame == Head(incoming[p])
       IN  CASE frame.op = "continuation" ->
                  /\ srv' = [srv EXCEPT ![p].at = IF frame.fin THEN "gathered" ELSE "gather",
                                        ![p].data = Gathered(p, frame)]
                  /\ UNCHANGED ws
             [] frame.op = "binary" -> WriteThen(p, frame, Copying(p))
             [] frame.op = "control" -> WriteThen(p, frame, srv[p])
    /\ UNCHANGED <<pending_dedup_streams, next_id, accepting, client, streams, faults>>

\* Mutant: the id of the next packet is not advanced.
FollowingIdSame == next_id

\* fetch_add on NEXT_DEDUP_STREAM_ID.
FollowingId == next_id + 1

\* insert of the map of pending streams.
Register(id, p) ==
    [i \in DOMAIN pending_dedup_streams \cup {id} |->
        IF i = id THEN p ELSE pending_dedup_streams[i]]

\* The packet is taken apart, its id registered, and the indicator sent.
StartDedup(p) ==
    /\ srv[p].at = "gathered"
    /\ pending_dedup_streams' = Register(next_id, p)
    /\ next_id' = FollowingId
    /\ WriteThen(p, Indicator(next_id), [srv[p] EXCEPT !.at = "wait"])
    /\ UNCHANGED <<incoming, accepting, client, streams, faults>>

\* provide_chunks_as_requested ends with the client's stream.  When the client
\* gave up, an answer under way may fail to be written, which ends the task.
Provided(p) ==
    /\ srv[p].at = "provide"
    /\ \/ /\ rec[srv[p].to].at \in {"done", "failed"}
          /\ srv' = [srv EXCEPT ![p] = Copying(p)]
       \/ /\ rec[srv[p].to].at = "failed"
          /\ srv' = [srv EXCEPT ![p].at = "ended"]
    /\ UNCHANGED <<incoming, pending_dedup_streams, next_id, accepting, ws, client, streams, faults>>

\* The game server closes the connection.
ServerCloses(p) ==
    /\ srv[p].at \in {"copy", "gather"}
    /\ incoming[p] = <<>>
    /\ srv' = [srv EXCEPT ![p].at = "ended"]
    /\ UNCHANGED <<incoming, pending_dedup_streams, next_id, accepting, ws, client, streams, faults>>

\* Mutant: the task that ends takes its ids out of the map.
CancelUnregisters(p) ==
    /\ srv[p].at \notin {"off", "ended"}
    /\ faults < MaxFaults
    /\ faults' = faults + 1
    /\ srv' = [srv EXCEPT ![p].at = "ended"]
    /\ pending_dedup_streams' = Restrict(pending_dedup_streams,
            {id \in DOMAIN pending_dedup_streams : pending_dedup_streams[id] # p})
    /\ UNCHANGED <<incoming, next_id, accepting, ws, client, streams>>

\* The game server cannot be reached, the packet cannot be taken apart, or the
\* other direction fails and try_join drops this one wherever it is.
Cancel(p) ==
    /\ srv[p].at \notin {"off", "ended"}
    /\ faults < MaxFaults
    /\ faults' = faults + 1
    /\ srv' = [srv EXCEPT ![p].at = "ended"]
    /\ UNCHANGED <<incoming, pending_dedup_streams, next_id, accepting, ws, client, streams>>

-----------------------------------------------------------------------------
(* handle_request, copy_with_dedup and forward_deduped_fragments of the    *)
(* client proxy.                                                           *)

OpenStream(p, id) == streams' = Append(streams, [id |-> id, peer |-> p])

\* With the accept loop and all server tasks gone, nothing holds the connection.
Closed == ~accepting /\ \A p \in Peer : srv[p].at \in {"off", "ended"}

\* handle_request, in three steps, at each of which hyper drops it if the game
\* client leaves: a stream is opened,
Connect(p) ==
    /\ cli[p].at = "off"
    /\ ~Closed
    /\ OpenStream(p, Blank)
    /\ cli' = [cli EXCEPT ![p].at = "opened"]
    /\ UNCHANGED <<server, ws, rec, fragments, game, faults, spoiled>>

\* What is read from the first stream of p when it is not blank any more.
NameStream(p, id) ==
    \E i \in DOMAIN streams :
        /\ streams[i] = [id |-> Blank, peer |-> p]
        /\ streams' = [streams EXCEPT ![i].id = id]

\* 0 is written to it,
WriteId(p) ==
    /\ cli[p].at = "opened"
    /\ NameStream(p, 0)
    /\ cli' = [cli EXCEPT ![p].at = "named"]
    /\ UNCHANGED <<server, ws, rec, fragments, game, faults, spoiled>>

\* then InitialConnectionInfo, and handle_ws_connection takes over.
WriteInfo(p) ==
    /\ cli[p].at = "named"
    /\ cli' = [cli EXCEPT ![p].at = "copy"]
    /\ UNCHANGED <<server, ws, rec, fragments, streams, game, faults, spoiled>>

\* The game client leaves during the handshake.  Dropping the stream finishes it.
Leave(p) ==
    /\ \/ /\ cli[p].at = "opened"
          /\ NameStream(p, Empty)
          /\ cli' = [cli EXCEPT ![p].at = "silent"]
       \/ /\ cli[p].at = "named"
          /\ cli' = [cli EXCEPT ![p].at = "left"]
          /\ UNCHANGED streams
    /\ faults < MaxFaults
    /\ faults' = faults + 1
    /\ UNCHANGED <<server, ws, rec, fragments, game, spoiled>>

\* A frame is relayed; an indicator starts reconstruct_packet.
ClientFrame(p) ==
    /\ cli[p].at = "copy"
    /\ ws[p] # <<>>
    /\ ws' = [ws EXCEPT ![p] = Tail(@)]
    /\ LET frame == Head(ws[p])
       IN  IF frame.op = "indicator"
           THEN /\ cli' = [cli EXCEPT ![p] = [at |-> "forward", first_frame |-> TRUE,
                                              last_bytes |-> <<>>]]
                /\ rec' = [rec EXCEPT ![p] = [at |-> "open", id |-> frame.id, todo |-> <<>>]]
                /\ UNCHANGED game
           ELSE /\ game' = [game EXCEPT ![p] = Receive(@, frame)]
                /\ UNCHANGED <<cli, rec>>
    /\ UNCHANGED <<server, fragments, streams, faults, spoiled>>

\* Mutant: every fragment starts a message.
FragmentOpBinary(p) == "binary"

FragmentOp(p) == IF cli[p].first_frame THEN "binary" ELSE "continuation"

\* last_bytes is written, if there is any.
WriteLast(p, fin) ==
    game' = [game EXCEPT ![p] =
        IF cli[p].last_bytes = <<>> THEN @
        ELSE Receive(@, Frame(FragmentOp(p), fin, cli[p].last_bytes, FALSE))]

\* rx.recv returns a fragment: the one before it was not the last.
Forward(p) ==
    /\ cli[p].at = "forward"
    /\ fragments[p] # <<>>
    /\ WriteLast(p, FALSE)
    /\ cli' = [cli EXCEPT ![p].last_bytes = Head(fragments[p]),
                          ![p].first_frame = @ /\ cli[p].last_bytes = <<>>]
    /\ fragments' = [fragments EXCEPT ![p] = Tail(@)]
    /\ UNCHANGED <<server, ws, rec, streams, faults, spoiled>>

\* Mutant: the fragment held back is not written at the end.
FinishForgetsLast(p) == UNCHANGED game

\* The last fragment ends the message.
Finish(p) == WriteLast(p, TRUE)

\* rx.recv returns None: reconstruct_packet has ended, in either way.
ForwardEnds(p) ==
    /\ cli[p].at = "forward"
    /\ fragments[p] = <<>>
    /\ rec[p].at \in {"done", "failed"}
    /\ Finish(p)
    /\ cli' = [cli EXCEPT ![p].at = "copy", ![p].last_bytes = <<>>]
    /\ UNCHANGED <<server, ws, rec, fragments, streams, faults, spoiled>>

\* The server proxy finished its stream and all of it was read.
ClientCloses(p) ==
    /\ cli[p].at = "copy"
    /\ ws[p] = <<>>
    /\ srv[p].at = "ended"
    /\ cli' = [cli EXCEPT ![p].at = "ended"]
    /\ UNCHANGED <<server, ws, rec, fragments, streams, game, faults, spoiled>>

\* The connection is closed; what was not read is lost.
Disconnected(p) ==
    /\ Closed
    /\ cli[p].at \in {"opened", "named", "copy", "forward"}
    /\ cli' = [cli EXCEPT ![p].at = "ended"]
    /\ UNCHANGED <<server, ws, rec, fragments, streams, game, faults, spoiled>>

\* Writing to the game client fails, or the other direction does.
GameClientGone(p) ==
    /\ cli[p].at \in {"copy", "forward"}
    /\ faults < MaxFaults
    /\ faults' = faults + 1
    /\ cli' = [cli EXCEPT ![p].at = "ended"]
    /\ UNCHANGED <<server, ws, rec, fragments, streams, game, spoiled>>

-----------------------------------------------------------------------------
(* reconstruct_packet.                                                     *)

\* open_bi and write_u64 follow one another in a task of their own, which is
\* never dropped.
OpenDedup(p) ==
    /\ rec[p].at = "open"
    /\ OpenStream(p, rec[p].id)
    /\ rec' = [rec EXCEPT ![p].at = "describe"]
    /\ UNCHANGED <<server, ws, cli, fragments, game, faults, spoiled>>

\* The packet description arrives from the task that got the stream.
Describe(p) ==
    /\ rec[p].at = "describe"
    /\ \E q \in Peer :
        /\ srv[q].at = "provide"
        /\ srv[q].to = p
        /\ rec' = [rec EXCEPT ![p].at = "run", ![p].todo = srv[q].data]
    /\ UNCHANGED <<server, ws, cli, fragments, streams, game, faults, spoiled>>

\* outgoing_fragments.send does not have to wait.
HasRoom(p) == Len(fragments[p]) < Capacity

\* The next fragment, however long it is.
SendFragment(p) ==
    /\ rec[p].at = "run"
    /\ cli[p].at = "forward"
    /\ HasRoom(p)
    /\ \E n \in 1 .. Len(rec[p].todo) :
        /\ fragments' = [fragments EXCEPT ![p] = Append(@, SubSeq(rec[p].todo, 1, n))]
        /\ rec' = [rec EXCEPT ![p].todo = SubSeq(@, n + 1, Len(@))]
    /\ UNCHANGED <<server, ws, cli, streams, game, faults, spoiled>>

\* The packet is complete (mark_dirty), and the streams are dropped.
Reconstructed(p) ==
    /\ rec[p].at = "run"
    /\ rec[p].todo = <<>>
    /\ rec' = [rec EXCEPT ![p].at = "done"]
    /\ UNCHANGED <<server, ws, cli, fragments, streams, game, faults, spoiled>>

\* The server has dropped the dedup stream, the connection is closed, or nobody
\* takes the fragments.
Abandoned(p) ==
    \/ /\ rec[p].at \in {"describe", "run"}
       /\ [id |-> rec[p].id, peer |-> p] \notin Range(streams)
       /\ \A q \in Peer : ~(srv[q].at = "provide" /\ srv[q].to = p)
    \/ rec[p].at \in {"open", "describe"} /\ Closed
    \/ rec[p].at = "run" /\ rec[p].todo # <<>> /\ cli[p].at = "ended"

Failing(p) ==
    /\ rec' = [rec EXCEPT ![p].at = "failed"]
    /\ spoiled' = spoiled \cup {p}
    /\ UNCHANGED <<server, ws, cli, fragments, streams, game>>

Lost(p) == Abandoned(p) /\ Failing(p) /\ UNCHANGED faults

\* A chunk is wrong, a message cannot be decoded, or a stream fails.  (Opening
\* the stream fails only with the whole connection.)
ReconstructFails(p) ==
    /\ rec[p].at \in {"describe", "run"}
    /\ faults < MaxFaults
    /\ faults' = faults + 1
    /\ Failing(p)

-----------------------------------------------------------------------------
ServerStep(p) ==
    Greet(p) \/ CopyFrame(p) \/ GatherFrame(p) \/ StartDedup(p) \/ Provided(p) \/ ServerCloses(p)
ClientStep(p) ==
    \/ Connect(p) \/ WriteId(p) \/ WriteInfo(p)
    \/ ClientFrame(p) \/ Forward(p) \/ ForwardEnds(p) \/ ClientCloses(p) \/ Disconnected(p)
ReconstructStep(p) ==
    OpenDedup(p) \/ Describe(p) \/ SendFragment(p) \/ Reconstructed(p) \/ Lost(p)

Next ==
    \/ AcceptStream
    \/ \E p \in Peer :
        \/ ServerStep(p) \/ ClientStep(p) \/ ReconstructStep(p)
        \/ Cancel(p) \/ Leave(p) \/ GameClientGone(p) \/ ReconstructFails(p)

Spec == Init /\ [][Next]_vars

\* The runtime schedules every task that can go on; the streams deliver.
FairSpec ==
    /\ Spec
    /\ WF_vars(AcceptStream)
    /\ \A p \in Peer : WF_vars(ServerStep(p)) /\ WF_vars(ClientStep(p)) /\ WF_vars(ReconstructStep(p))

-----------------------------------------------------------------------------
\* A game client receives the messages of the game server whole and in order,
\* relayed and rebuilt ones alike, as long as none of its reconstructions
\* failed (copy_with_dedup, dedup_packet, forward_deduped_fragments).
MessagesIntact ==
    \A p \in Peer \ spoiled : \A i \in DOMAIN game[p].got :
        i \in DOMAIN Sent(p) /\ game[p].got[i] = Sent(p)[i]

\* Failed reconstructions included, what a game client receives are valid
\* frames: a message is never started inside another, and never continued
\* without being started (first_frame and last_bytes of
\* forward_deduped_fragments).
FramesValid == \A p \in Peer : game[p].valid

\* run_server_proxy never meets "Client sent dedup stream with unknown id",
\* which would end it for all peers, whichever task ends when: the id of a dedup
\* stream is pending until the stream is accepted.  The loop ends only because
\* a game client left before its first stream had an id.
AcceptLoopAlive ==
    /\ \A s \in Range(streams) : s.id \notin First => s.id \in DOMAIN pending_dedup_streams
    /\ accepting \/ \E p \in Peer : cli[p].at = "silent"

\* Every sender in the shared map was put there by a task that is waiting for
\* its stream, or that ended while it waited: none is left behind by a packet
\* that was served, and no task waits without one (dedup_packet, remove and
\* tx.send of run_server_proxy).
SendersAwaited ==
    /\ \A id \in DOMAIN pending_dedup_streams :
          srv[pending_dedup_streams[id]].at \in {"wait", "ended"}
    /\ \A i, j \in DOMAIN pending_dedup_streams :
          pending_dedup_streams[i] = pending_dedup_streams[j] => i = j
    /\ \A p \in Peer : srv[p].at = "wait" => p \in Range(pending_dedup_streams)

\* A dedup stream reaches the server task of the peer that opened it, though
\* all peers share the ids (NEXT_DEDUP_STREAM_ID, pending_dedup_streams).
StreamsMatched ==
    /\ TypeOK
    /\ \A p \in Peer : srv[p].at = "provide" => srv[p].to = p

\* While nothing fails, every message reaches its game client.
AllDelivered == [](faults = 0) => <>(\A p \in Peer : game[p].got = Sent(p))

\* A server task stops waiting for its dedup stream, whatever fails but for two
\* cases that leave it waiting at rx.await: the accept loop has ended, or the
\* client task ended before it read the indicator (dedup_packet).
WaitEndsOrClientGone ==
    \A p \in Peer :
        srv[p].at = "wait" ~>
            \/ srv[p].at # "wait"
            \/ ~accepting
            \/ cli[p].at = "ended" /\ \E i \in DOMAIN ws[p] : ws[p][i].op = "indicator"

\* README: "When the Cacher client finishes reconstructing the data blob, it'll
\* send to it on to the game client."  No part of a packet whose
\* reconstruction failed is received as a message.
MessagesWhole == \A p \in Peer : Range(game[p].got) \subseteq Range(Sent(p))
=============================================================================
