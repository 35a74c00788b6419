-------------------------------- MODULE Peers --------------------------------
(***************************************************************************)
(* The sessions of the Factorio proxies.  The client proxy                 *)
(* (run_client_proxy and proxy_client of client_proxy.rs) gives every game *)
(* client address a peer id and a task; the server proxy (run_server_proxy *)
(* and proxy_server of server_proxy.rs) gives every peer id a socket and a *)
(* task.  Packets travel between the two as QUIC datagrams that carry the  *)
(* peer id, over one connection that also carries one stream per peer.     *)
(*                                                                         *)
(* Datagrams are lost and reordered, and may overtake the stream that      *)
(* announces their peer.  Neither side tells the other that a task ended.  *)
(* The world download and the blocks served on the way are the subject of  *)
(* WorldDownload and BlockServing: the packets here are the others, which  *)
(* both sides pass on.                                                     *)
(***************************************************************************)
EXTENDS Integers, Sequences

CONSTANTS
    Addr,       \* addresses of game clients
    Site,       \* addresses a Factorio server may have
    None,       \* not a peer id
    MaxId,      \* the largest u32
    QueueSize,  \* UDP_QUEUE_SIZE
    MaxFaults   \* bound: tasks and sockets that fail

ASSUME PeersAssumption ==
    /\ MaxId \in Nat
    /\ QueueSize \in Nat \ {0}
    /\ MaxFaults \in Nat
    /\ None \notin Nat

VARIABLES
    link,          \* the QUIC connection is open
    proxying,      \* run_client_proxy runs
    serving,       \* run_server_proxy runs
    next_peer_id,
    addr_to_queue, \* the peer whose client_receive_queue the map holds
    client,        \* proxy_client of each peer
    streams,       \* peers whose stream is opened and not accepted
    server,        \* proxy_server of each peer
    cell,          \* factorio_address_cell
    up, down,      \* datagrams under way to the server and to the client proxy
    faults

loops == <<link, proxying, serving>>
maps == <<next_peer_id, addr_to_queue>>
vars == <<link, proxying, serving, next_peer_id, addr_to_queue, client, streams,
          server, cell, up, down, faults>>

Id == 0 .. MaxId - 1
GamePacket == [from : Addr]
FactorioPacket == [from : Site, to : Addr]  \* to: the game client it is meant for
Datagram(Packet) == [peer_id : Id, data : Packet]

\* A proxy_client task with its queues, a proxy_server task with its queue.
ClientTask == [at : {"none", "open", "run", "ended"}, addr : Addr \cup {None},
               from_client : Seq(GamePacket), from_server : Seq(FactorioPacket)]
ServerTask == [at : {"none", "run", "ended"}, site : Site \cup {None},
               queue : Seq(GamePacket)]

NoClient == [at |-> "none", addr |-> None, from_client |-> <<>>, from_server |-> <<>>]
NoServer == [at |-> "none", site |-> None, queue |-> <<>>]

\* id_to_queue has an entry for every id handed out, outgoing_queues one for
\* every stream accepted: neither map is ever cleaned up.
id_to_queue == 0 .. next_peer_id - 1
outgoing_queues == {id \in Id : server[id].at # "none"}

\* The receiver of a queue lives as long as its task.
ClientRuns(id) == client[id].at \in {"open", "run"}
ServerRuns(id) == server[id].at = "run"

TypeOK ==
    /\ {link, proxying, serving} \subseteq BOOLEAN
    /\ next_peer_id \in 0 .. MaxId
    /\ addr_to_queue \in [Addr -> Id \cup {None}]
    /\ client \in [Id -> ClientTask]
    /\ streams \subseteq Id
    /\ server \in [Id -> ServerTask]
    /\ cell \in Site
    /\ up \subseteq Datagram(GamePacket)
    /\ down \subseteq Datagram(FactorioPacket)
    /\ faults \in 0 .. MaxFaults

Init ==
    /\ link = TRUE
    /\ proxying = TRUE
    /\ serving = TRUE
    /\ next_peer_id = 0
    /\ addr_to_queue = [a \in Addr |-> None]
    /\ client = [id \in Id |-> NoClient]
    /\ streams = {}
    /\ server = [id \in Id |-> NoServer]
    /\ cell \in Site
    /\ up = {}
    /\ down = {}
    /\ faults = 0

\* The connection is closed, and what was under way is gone.
CloseLink ==
    /\ link' = FALSE
    /\ up' = {}
    /\ down' = {}
    /\ streams' = {}

-----------------------------------------------------------------------------
(* run_client_proxy.                                                       *)

\* try_send drops the packet when the queue is full.
TrySend(queue, packet) == IF Len(queue) < QueueSize THEN Append(queue, packet) ELSE queue

\* Mutants: a queue that is closed still counts as the peer's; a task whose
\* stream is not open yet does not count.
KnownThoughClosed(a) == addr_to_queue[a] # None
KnownOnceOpen(a) == addr_to_queue[a] # None /\ client[addr_to_queue[a]].at = "run"

\* addr_to_queue.get(..).filter(|s| !s.is_closed())
Known(a) == addr_to_queue[a] # None /\ ClientRuns(addr_to_queue[a])

\* A packet of a known peer.
FromGame(a) ==
    /\ proxying
    /\ Known(a)
    /\ client' = [client EXCEPT ![addr_to_queue[a]].from_client =
                      TrySend(@, [from |-> a])]
    /\ UNCHANGED <<loops, maps, streams, server, cell, up, down, faults>>

\* Mutant: the counter starts again at 0.
NextIdWrapping == (next_peer_id + 1) % MaxId

\* next_peer_id.checked_add(1)
NextId == next_peer_id + 1

\* The first packet of a peer: an id, a task, and entries in both maps.
NewPeer(a) ==
    /\ proxying
    /\ ~Known(a)
    /\ next_peer_id < MaxId
    /\ next_peer_id' = NextId
    /\ addr_to_queue' = [addr_to_queue EXCEPT ![a] = next_peer_id]
    /\ client' = [client EXCEPT ![next_peer_id] =
                      [at |-> "open", addr |-> a, from_server |-> <<>>,
                       from_client |-> <<[from |-> a]>>]]
    /\ UNCHANGED <<loops, streams, server, cell, up, down, faults>>

\* "Ran out of peer ids": run_client_proxy returns, and cli_wrapper closes the
\* endpoint.
RanOut(a) ==
    /\ proxying
    /\ ~Known(a)
    /\ next_peer_id = MaxId
    /\ proxying' = FALSE
    /\ CloseLink
    /\ UNCHANGED <<serving, maps, client, server, cell, faults>>

\* A datagram from the server proxy.
DeliverDown(d) ==
    /\ proxying
    /\ link
    /\ d \in down
    /\ down' = down \ {d}
    /\ client' = IF d.peer_id \in id_to_queue /\ ClientRuns(d.peer_id)
                 THEN [client EXCEPT ![d.peer_id].from_server = TrySend(@, d.data)]
                 ELSE client
    /\ UNCHANGED <<loops, maps, streams, server, cell, up, faults>>

-----------------------------------------------------------------------------
(* proxy_client.                                                           *)

\* The task returns and drops its receivers.
EndClient(id) ==
    client' = [client EXCEPT ![id].at = "ended", ![id].from_client = <<>>,
                             ![id].from_server = <<>>]

\* open_bi and write_u32_le.
OpenStream(id) ==
    /\ client[id].at = "open"
    /\ IF link
       THEN /\ client' = [client EXCEPT ![id].at = "run"]
            /\ streams' = streams \cup {id}
       ELSE EndClient(id) /\ UNCHANGED streams
    /\ UNCHANGED <<loops, maps, server, cell, up, down, faults>>

\* A packet of the game client goes to the server proxy; sending fails when the
\* connection is gone.
ClientToServer(id) ==
    /\ client[id].at = "run"
    /\ client[id].from_client # <<>>
    /\ IF link
       THEN /\ client' = [client EXCEPT ![id].from_client = Tail(@)]
            /\ up' = up \cup {[peer_id |-> id, data |-> Head(client[id].from_client)]}
       ELSE EndClient(id) /\ UNCHANGED up
    /\ UNCHANGED <<loops, maps, streams, server, cell, down, faults>>

\* A packet of the server goes to the game client.
ServerToClient(id) ==
    /\ client[id].at = "run"
    /\ client[id].from_server # <<>>
    /\ client' = [client EXCEPT ![id].from_server = Tail(@)]
    /\ UNCHANGED <<loops, maps, streams, server, cell, up, down, faults>>

\* UDP_PEER_IDLE_TIMEOUT passes without a packet.
ClientIdle(id) ==
    /\ client[id].at = "run"
    /\ client[id].from_client = <<>>
    /\ client[id].from_server = <<>>
    /\ EndClient(id)
    /\ UNCHANGED <<loops, maps, streams, server, cell, up, down, faults>>

\* The maps are gone and one of the queues is used up.
ClientQueueClosed(id) ==
    /\ ~proxying
    /\ client[id].at = "run"
    /\ client[id].from_client = <<>> \/ client[id].from_server = <<>>
    /\ EndClient(id)
    /\ UNCHANGED <<loops, maps, streams, server, cell, up, down, faults>>

\* Sending to the game client fails, or a packet is too large for a datagram.
ClientFails(id) ==
    /\ client[id].at = "run"
    /\ faults < MaxFaults
    /\ faults' = faults + 1
    /\ EndClient(id)
    /\ UNCHANGED <<loops, maps, streams, server, cell, up, down>>

-----------------------------------------------------------------------------
(* run_server_proxy, and lan_discovery_task that may change the address of *)
(* the Factorio server.                                                    *)

\* A datagram for a peer whose stream was not accepted yet is dropped, like
\* one for a peer whose task ended.
DeliverUp(d) ==
    /\ serving
    /\ link
    /\ d \in up
    /\ up' = up \ {d}
    /\ server' = IF d.peer_id \in outgoing_queues /\ ServerRuns(d.peer_id)
                 THEN [server EXCEPT ![d.peer_id].queue = TrySend(@, d.data)]
                 ELSE server
    /\ UNCHANGED <<loops, maps, client, streams, cell, down, faults>>

\* A stream is accepted: the peer gets a socket, a task and a queue.
Accept(id) ==
    /\ serving
    /\ link
    /\ id \in streams
    /\ streams' = streams \ {id}
    /\ server' = [server EXCEPT ![id] = [at |-> "run", site |-> cell, queue |-> <<>>]]
    /\ UNCHANGED <<loops, maps, client, cell, up, down, faults>>

\* UdpSocket::bind fails for a new peer and ends run_server_proxy for all.
BindFails(id) ==
    /\ serving
    /\ link
    /\ id \in streams
    /\ faults < MaxFaults
    /\ faults' = faults + 1
    /\ serving' = FALSE
    /\ streams' = streams \ {id}
    /\ UNCHANGED <<link, proxying, maps, client, server, cell, up, down>>

\* A LAN broadcast names another address.
Discover(site) ==
    /\ site # cell
    /\ cell' = site
    /\ UNCHANGED <<loops, maps, client, streams, server, up, down, faults>>

-----------------------------------------------------------------------------
(* proxy_server.                                                           *)

EndServer(id) == server' = [server EXCEPT ![id].at = "ended", ![id].queue = <<>>]

\* A packet of the game client goes to the Factorio server.
ToFactorio(id) ==
    /\ ServerRuns(id)
    /\ server[id].queue # <<>>
    /\ server' = [server EXCEPT ![id].queue = Tail(@)]
    /\ UNCHANGED <<loops, maps, client, streams, cell, up, down, faults>>

\* "Drop any packets that don't originate from the server"
FromOwnServer(id, site) == site = server[id].site

\* A packet arrives at the socket of the peer.
FromFactorio(id, site) ==
    /\ ServerRuns(id)
    /\ FromOwnServer(id, site)
    /\ IF link
       THEN /\ down' = down \cup {[peer_id |-> id,
                                      data |-> [from |-> site, to |-> client[id].addr]]}
            /\ UNCHANGED server
       ELSE EndServer(id) /\ UNCHANGED down
    /\ UNCHANGED <<loops, maps, client, streams, cell, up, faults>>

ServerIdle(id) ==
    /\ ServerRuns(id)
    /\ server[id].queue = <<>>
    /\ EndServer(id)
    /\ UNCHANGED <<loops, maps, client, streams, cell, up, down, faults>>

\* Mutant: the task does not notice that its queue was closed.
SeesClosedQueueNever(id) == FALSE

\* receive_queue_rx.recv() returns None: the map is gone.
SeesClosedQueue(id) == ~serving /\ server[id].queue = <<>>

ServerQueueClosed(id) ==
    /\ ServerRuns(id)
    /\ SeesClosedQueue(id)
    /\ EndServer(id)
    /\ UNCHANGED <<loops, maps, client, streams, cell, up, down, faults>>

\* The socket fails.
ServerFails(id) ==
    /\ ServerRuns(id)
    /\ faults < MaxFaults
    /\ faults' = faults + 1
    /\ EndServer(id)
    /\ UNCHANGED <<loops, maps, client, streams, cell, up, down>>

-----------------------------------------------------------------------------
(* The network and the two processes.                                      *)

Lose ==
    /\ \/ \E d \in up : up' = up \ {d} /\ UNCHANGED down
       \/ \E d \in down : down' = down \ {d} /\ UNCHANGED up
    /\ UNCHANGED <<loops, maps, client, streams, server, cell, faults>>

\* The connection times out, or one of the processes ends: ctrl-c at either
\* end, or a failed handshake of any other client, which ends run_server.
ConnectionLost ==
    /\ link
    /\ CloseLink
    /\ UNCHANGED <<proxying, serving, maps, client, server, cell, faults>>

\* The last handle of the connection is dropped with the last task.
ConnectionDropped ==
    /\ ~serving
    /\ \A id \in Id : ~ServerRuns(id)
    /\ ConnectionLost

\* read_datagram fails, and the loops return.
ClientLoopEnds ==
    /\ ~link
    /\ proxying
    /\ proxying' = FALSE
    /\ UNCHANGED <<link, serving, maps, client, streams, server, cell, up, down, faults>>

ServerLoopEnds ==
    /\ ~link
    /\ serving
    /\ serving' = FALSE
    /\ UNCHANGED <<link, proxying, maps, client, streams, server, cell, up, down, faults>>

Next ==
    \/ \E a \in Addr :
        FromGame(a) \/ NewPeer(a) \/ RanOut(a)
    \/ \E d \in down : DeliverDown(d)
    \/ \E d \in up : DeliverUp(d)
    \/ \E id \in Id :
        \/ OpenStream(id) \/ ClientToServer(id) \/ ServerToClient(id)
        \/ ClientIdle(id) \/ ClientQueueClosed(id) \/ ClientFails(id)
        \/ Accept(id) \/ BindFails(id)
        \/ ToFactorio(id) \/ ServerIdle(id) \/ ServerQueueClosed(id) \/ ServerFails(id)
        \/ \E site \in Site : FromFactorio(id, site)
    \/ \E site \in Site : Discover(site)
    \/ Lose
    \/ ConnectionLost
    \/ ClientLoopEnds
    \/ ServerLoopEnds

Spec == Init /\ [][Next]_vars

\* The tasks run on tokio, whose select! polls its branches in random order:
\* a branch that stays ready is taken.  A game client that sends again and
\* again has some datagram arrive.  No time-out, fault or packet is assumed.
Fairness ==
    /\ \A id \in Id :
        /\ WF_vars(OpenStream(id))
        /\ WF_vars(ClientToServer(id))
        /\ WF_vars(ServerToClient(id))
        /\ WF_vars(ClientQueueClosed(id))
        /\ WF_vars(Accept(id))
        /\ WF_vars(ToFactorio(id))
        /\ WF_vars(ServerQueueClosed(id))
        /\ SF_vars(\E d \in up : d.peer_id = id /\ DeliverUp(d))
    /\ WF_vars(ClientLoopEnds)
    /\ WF_vars(ServerLoopEnds)
    /\ WF_vars(ConnectionDropped)

FairSpec == Spec /\ Fairness

-----------------------------------------------------------------------------
(* Properties.                                                             *)

\* Whatever was lost, late or repeated, a Factorio server hears through a
\* peer's socket only the game client that got the peer's id, and a game
\* client hears only what its own session's Factorio server said to it, even
\* after LAN discovery moved the address new sessions use.
SessionsApart ==
    \A id \in Id :
        /\ \A i \in DOMAIN server[id].queue : server[id].queue[i].from = client[id].addr
        /\ \A i \in DOMAIN client[id].from_server :
            client[id].from_server[i] = [from |-> server[id].site, to |-> client[id].addr]

\* A game client has one task at most, and it is the one its packets are
\* queued for: no packet of a live session lands in another queue, and the
\* answers a game client gets are all of one session.
OneSessionPerAddress ==
    /\ TypeOK
    /\ \A id \in Id : ClientRuns(id) => addr_to_queue[client[id].addr] = id

\* The server proxy gave the peer up while the client proxy still serves it:
\* what the game client sends goes to a queue nobody reads, and nothing tells
\* the client proxy so.
HalfDead(a) == Known(a) /\ server[addr_to_queue[a]].at = "ended"

Heard(a) == \E id \in Id : client[id].addr = a /\ ToFactorio(id)

\* A game client that keeps sending is heard by a Factorio server again and
\* again, whatever sessions were timed out before, unless its session stays
\* half dead or one of the loops has ended.
HeardUnlessHalfDead ==
    \A a \in Addr :
        WF_vars(FromGame(a) \/ NewPeer(a) \/ RanOut(a))
        => \/ []<><<Heard(a)>>_vars
           \/ <>[]HalfDead(a)
           \/ <>[]~proxying
           \/ <>[]~serving

\* Whatever ends first - the connection, a loop that returns because a socket
\* could not be bound, or a client proxy that ran out of ids - every task of
\* the connection and both loops end.
WindsDown ==
    (~link \/ ~proxying \/ ~serving)
        ~> [](/\ ~link /\ ~proxying /\ ~serving
              /\ \A id \in Id : ~ClientRuns(id) /\ ~ServerRuns(id))
=============================================================================
