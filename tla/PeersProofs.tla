----------------------------- MODULE PeersProofs -----------------------------
(***************************************************************************)
(* The sessions of the Factorio proxies are kept apart, for any number of  *)
(* game clients, server addresses and peer ids and any size of the queues, *)
(* whatever datagrams are lost, late or reordered and whichever task ends. *)
(*                                                                         *)
(* The invariant follows a packet from queue to queue: a datagram, once    *)
(* sent, is of the game client its id was given to and of the Factorio     *)
(* server its socket is bound to, and neither changes afterwards, because  *)
(* an id is handed out once and a stream accepted once.                    *)
(***************************************************************************)
EXTENDS Peers, TLAPS

\* Every packet of a queue is p.
Only(queue, p) == \A i \in DOMAIN queue : queue[i] = p

\* What the packets of a session look like on their way.
FromGameOf(id) == [from |-> client[id].addr]
ToGameOf(id) == [from |-> server[id].site, to |-> client[id].addr]

\* A peer has its id before it has a stream, and its stream before a server
\* task; only then packets come back.
Lifecycle(id) ==
    /\ client[id].at = "none" <=> id >= next_peer_id
    /\ client[id].at # "none" => client[id].addr \in Addr
    /\ id \in streams => client[id].at \in {"run", "ended"} /\ server[id].at = "none"
    /\ server[id].at # "none" => client[id].at \in {"run", "ended"}
    /\ client[id].from_server # <<>> => server[id].at # "none"
    /\ server[id].queue # <<>> => server[id].at # "none"

\* All packets of the session, in queues and under way, are its own.
OwnPackets(id) ==
    /\ Only(client[id].from_client, FromGameOf(id))
    /\ Only(server[id].queue, FromGameOf(id))
    /\ Only(client[id].from_server, ToGameOf(id))
    /\ \A d \in up : d.peer_id = id =>
        client[id].at \in {"run", "ended"} /\ d.data = FromGameOf(id)
    /\ \A d \in down : d.peer_id = id =>
        server[id].at # "none" /\ d.data = ToGameOf(id)

\* The map holds, for each address, the last session of that address.
MapSound ==
    /\ \A a \in Addr : addr_to_queue[a] # None =>
        addr_to_queue[a] < next_peer_id /\ client[addr_to_queue[a]].addr = a
    /\ \A id \in Id : ClientRuns(id) => addr_to_queue[client[id].addr] = id

\* The inductive invariant.
IInv ==
    /\ TypeOK
    /\ MapSound
    /\ \A id \in Id : Lifecycle(id) /\ OwnPackets(id)

-----------------------------------------------------------------------------
(* Queues.                                                                 *)

\* try_send adds the packet or drops it, and leaves the queue of one kind.
LEMMA TrySendKeeps ==
    ASSUME NEW S, NEW queue \in Seq(S), NEW p \in S
    PROVE  /\ TrySend(queue, p) \in Seq(S)
           /\ Only(queue, p) => Only(TrySend(queue, p), p)
<1>1. Append(queue, p) \in Seq(S)
  OBVIOUS
<1>2. Only(queue, p) => Only(Append(queue, p), p)
  BY DEF Only
<1> QED
  BY <1>1, <1>2 DEF TrySend

\* recv takes the first packet.
LEMMA TailKeeps ==
    ASSUME NEW S, NEW queue \in Seq(S), queue # <<>>, NEW p
    PROVE  /\ Tail(queue) \in Seq(S)
           /\ Only(queue, p) => Only(Tail(queue), p) /\ Head(queue) = p
<1>1. Tail(queue) \in Seq(S)
  OBVIOUS
<1>2. ASSUME Only(queue, p) PROVE Only(Tail(queue), p) /\ Head(queue) = p
  <2>1. \A i \in 1 .. Len(queue) : queue[i] = p
    BY <1>2 DEF Only
  <2>2. DOMAIN Tail(queue) = 1 .. Len(queue) - 1 /\ Len(queue) >= 1 /\ Len(queue) \in Nat
    OBVIOUS
  <2>3. \A i \in 1 .. Len(queue) - 1 : Tail(queue)[i] = queue[i + 1]
    OBVIOUS
  <2> QED
    BY <2>1, <2>2, <2>3 DEF Only
<1> QED
  BY <1>1, <1>2

\* A dropped receiver has nothing left.
LEMMA EmptyKeeps == \A S, p : <<>> \in Seq(S) /\ Only(<<>>, p)
  BY DEF Only

-----------------------------------------------------------------------------
\* A step that leaves the session of id alone preserves what is known of it.
LEMMA OtherSession ==
    ASSUME NEW id \in Id, Lifecycle(id), OwnPackets(id),
           client'[id] = client[id],
           server'[id] = server[id],
           id >= next_peer_id' <=> id >= next_peer_id,
           id \in streams' => id \in streams,
           \A d \in up' : d.peer_id = id => d \in up,
           \A d \in down' : d.peer_id = id => d \in down
    PROVE  Lifecycle(id)' /\ OwnPackets(id)'
  BY DEF Lifecycle, OwnPackets, FromGameOf, ToGameOf

\* A step of one session only has to be looked at there.
LEMMA OneSession ==
    ASSUME IInv,
           NEW k \in Id, NEW c \in ClientTask, NEW s \in ServerTask,
           client' = [client EXCEPT ![k] = c],
           server' = [server EXCEPT ![k] = s],
           c.addr = client[k].addr,
           c.at \in {"open", "run"} => ClientRuns(k),
           UNCHANGED <<next_peer_id, addr_to_queue, cell>>,
           {link', proxying', serving'} \subseteq BOOLEAN,
           faults' \in 0 .. MaxFaults,
           streams' \subseteq streams \cup {k},
           \A d \in up' : d \in up \/ (d.peer_id = k /\ d \in Datagram(GamePacket)),
           \A d \in down' : d \in down \/ (d.peer_id = k /\ d \in Datagram(FactorioPacket)),
           Lifecycle(k)', OwnPackets(k)'
    PROVE  IInv'
<1>1. TypeOK'
  BY DEF IInv, TypeOK
<1>2. MapSound'
  BY DEF IInv, TypeOK, MapSound, ClientRuns
<1>3. ASSUME NEW id \in Id, id # k PROVE Lifecycle(id)' /\ OwnPackets(id)'
  BY <1>3, OtherSession DEF IInv, TypeOK
<1> QED
  BY <1>1, <1>2, <1>3 DEF IInv

\* ServerProxyState and ClientProxyState before the first packet.
LEMMA InitEstablishes == Init => IInv
<1> SUFFICES ASSUME Init PROVE IInv
  OBVIOUS
<1>1. TypeOK
  <2>1. NoClient \in ClientTask /\ NoServer \in ServerTask
    BY EmptyKeeps DEF NoClient, NoServer, ClientTask, ServerTask
  <2> QED
    BY <2>1, PeersAssumption DEF Init, TypeOK, Id
<1>2. MapSound
  BY DEF Init, MapSound, NoClient, ClientRuns
<1>3. ASSUME NEW id \in Id PROVE Lifecycle(id) /\ OwnPackets(id)
  BY EmptyKeeps, PeersAssumption DEF Init, Lifecycle, OwnPackets, NoClient, NoServer, Id
<1> QED
  BY <1>1, <1>2, <1>3 DEF IInv

\* A packet of a known game client.
LEMMA FromGamePreserves ==
    ASSUME NEW a \in Addr, IInv, FromGame(a) PROVE IInv'
<1>1. PICK k \in Id : k = addr_to_queue[a] /\ ClientRuns(k) /\ client[k].addr = a
  BY DEF IInv, TypeOK, MapSound, FromGame, Known
<1>2. PICK q \in Seq(GamePacket) :
        q = TrySend(client[k].from_client, [from |-> a]) /\ Only(q, [from |-> a])
  <2>1. [from |-> a] \in GamePacket /\ client[k].from_client \in Seq(GamePacket)
    BY <1>1 DEF IInv, TypeOK, GamePacket, ClientTask
  <2>2. Only(client[k].from_client, [from |-> a])
    BY <1>1 DEF IInv, OwnPackets, FromGameOf
  <2> QED
    BY <2>1, <2>2, TrySendKeeps
<1>3. PICK c \in ClientTask :
        /\ c.at = client[k].at /\ c.addr = client[k].addr
        /\ c.from_client = q /\ c.from_server = client[k].from_server
        /\ client' = [client EXCEPT ![k] = c]
  <2>1. client' = [client EXCEPT ![k] = [client[k] EXCEPT !.from_client = q]]
    BY <1>1, <1>2 DEF FromGame
  <2> QED
    BY <1>2, <2>1 DEF IInv, TypeOK, ClientTask
<1>4. /\ server' = [server EXCEPT ![k] = server[k]] /\ server[k] \in ServerTask
      /\ UNCHANGED <<link, proxying, serving, next_peer_id, addr_to_queue, streams, cell,
                     up, down, faults>>
      /\ client'[k] = c /\ server'[k] = server[k]
  BY <1>3 DEF FromGame, loops, maps, IInv, TypeOK
<1>5. Lifecycle(k)'
  BY <1>3, <1>4 DEF IInv, Lifecycle
<1>6. OwnPackets(k)'
  BY <1>1, <1>2, <1>3, <1>4 DEF IInv, OwnPackets, FromGameOf, ToGameOf
<1>7. {link', proxying', serving'} \subseteq BOOLEAN /\ faults' \in 0 .. MaxFaults
  BY <1>4 DEF IInv, TypeOK
<1> QED
  BY <1>1, <1>3, <1>4, <1>5, <1>6, <1>7, OneSession

\* A step that touches no task.
LEMMA NoSession ==
    ASSUME IInv,
           UNCHANGED <<next_peer_id, addr_to_queue, client, server>>,
           {link', proxying', serving'} \subseteq BOOLEAN,
           cell' \in Site,
           faults' \in 0 .. MaxFaults,
           streams' \subseteq streams,
           up' \subseteq up,
           down' \subseteq down
    PROVE  IInv'
<1>1. TypeOK'
  BY DEF IInv, TypeOK
<1>2. MapSound'
  BY DEF IInv, MapSound, ClientRuns
<1>3. ASSUME NEW id \in Id PROVE Lifecycle(id)' /\ OwnPackets(id)'
  BY OtherSession DEF IInv
<1> QED
  BY <1>1, <1>2, <1>3 DEF IInv

\* A new game client, or one whose last session ended: no other session of the
\* same address is alive, and nothing under way carries the new id.
LEMMA NewPeerPreserves ==
    ASSUME NEW a \in Addr, IInv, NewPeer(a) PROVE IInv'
<1>1. PICK k \in Id : k = next_peer_id
  BY PeersAssumption DEF IInv, TypeOK, NewPeer, Id
<1>2. PICK c \in ClientTask :
        /\ c.at = "open" /\ c.addr = a /\ c.from_server = <<>>
        /\ c.from_client = <<[from |-> a]>>
        /\ client' = [client EXCEPT ![k] = c]
  <2> DEFINE r == [at |-> "open", addr |-> a, from_server |-> <<>>,
                   from_client |-> <<[from |-> a]>>]
  <2>1. <<>> \in Seq(FactorioPacket) /\ <<[from |-> a]>> \in Seq(GamePacket)
    BY DEF GamePacket
  <2>2. r \in ClientTask
    BY <2>1 DEF ClientTask
  <2>3. client' = [client EXCEPT ![k] = r]
    BY <1>1 DEF NewPeer
  <2> QED
    BY <2>2, <2>3
<1>3. /\ next_peer_id' = k + 1
      /\ addr_to_queue' = [addr_to_queue EXCEPT ![a] = k]
      /\ UNCHANGED <<link, proxying, serving, streams, server, cell, up, down, faults>>
  BY <1>1 DEF NewPeer, NextId, loops
<1>4. client'[k] = c /\ server[k] \in ServerTask
  BY <1>2 DEF IInv, TypeOK
<1>5. client[k].at = "none" /\ server[k].at = "none" /\ k \notin streams
  BY <1>1 DEF IInv, TypeOK, Lifecycle, Id
<1>6. TypeOK'
  BY <1>1, <1>2, <1>3, PeersAssumption DEF IInv, TypeOK, NewPeer, Id
<1>7. MapSound'
  <2>1. ASSUME NEW b \in Addr, addr_to_queue'[b] # None
        PROVE  addr_to_queue'[b] < next_peer_id' /\ client'[addr_to_queue'[b]].addr = b
    <3>1. CASE b = a
      BY <1>1, <1>2, <1>3, <1>4, <3>1 DEF IInv, TypeOK, Id
    <3>2. CASE b # a
      <4>1. addr_to_queue'[b] = addr_to_queue[b] /\ addr_to_queue[b] \in Id
        BY <1>3, <2>1, <3>2 DEF IInv, TypeOK
      <4>2. addr_to_queue[b] < k /\ client[addr_to_queue[b]].addr = b
        BY <1>1, <2>1, <4>1 DEF IInv, MapSound
      <4> QED
        BY <1>1, <1>2, <1>3, <4>1, <4>2 DEF IInv, TypeOK, Id
    <3> QED
      BY <3>1, <3>2
  <2>2. ASSUME NEW id \in Id, ClientRuns(id)' PROVE addr_to_queue'[client'[id].addr] = id
    <3>1. CASE id = k
      BY <1>2, <1>3, <1>4, <3>1 DEF IInv, TypeOK
    <3>2. CASE id # k
      <4>1. client'[id] = client[id] /\ ClientRuns(id)
        BY <1>2, <2>2, <3>2 DEF IInv, TypeOK, ClientRuns
      <4>2. addr_to_queue[client[id].addr] = id /\ client[id].addr \in Addr
        BY <4>1 DEF IInv, MapSound, Lifecycle, ClientRuns
      <4>3. client[id].addr # a
        BY <4>1, <4>2, PeersAssumption DEF NewPeer, Known, Id
      <4> QED
        BY <1>3, <4>1, <4>2, <4>3 DEF IInv, TypeOK
    <3> QED
      BY <3>1, <3>2
  <2> QED
    BY <2>1, <2>2 DEF MapSound
<1>8. ASSUME NEW id \in Id PROVE Lifecycle(id)' /\ OwnPackets(id)'
  <2>1. CASE id # k
    <3>1. client'[id] = client[id] /\ (id >= next_peer_id' <=> id >= next_peer_id)
      BY <1>1, <1>2, <1>3, <2>1 DEF IInv, TypeOK, Id
    <3> QED
      BY <1>3, <3>1, OtherSession DEF IInv
  <2>2. CASE id = k
    <3>1. Lifecycle(k)'
      BY <1>1, <1>2, <1>3, <1>4, <1>5 DEF IInv, Lifecycle, Id
    <3>2. Only(c.from_client, [from |-> a]) /\ Only(c.from_server, ToGameOf(k)')
      BY <1>2 DEF Only
    <3>3. Only(server[k].queue, [from |-> a])
      BY <1>5 DEF IInv, Lifecycle, Only
    <3>4. \A d \in up \cup down : d.peer_id # k
      BY <1>5 DEF IInv, OwnPackets
    <3>5. OwnPackets(k)'
      BY <1>2, <1>3, <1>4, <3>2, <3>3, <3>4 DEF OwnPackets, FromGameOf
    <3> QED
      BY <2>2, <3>1, <3>5
  <2> QED
    BY <2>1, <2>2
<1> QED
  BY <1>6, <1>7, <1>8 DEF IInv

\* A datagram from the server proxy.
LEMMA DeliverDownPreserves ==
    ASSUME NEW d \in down, IInv, DeliverDown(d) PROVE IInv'
<1>1. /\ UNCHANGED <<link, proxying, serving, next_peer_id, addr_to_queue, streams, server,
                     cell, up, faults>>
      /\ down' = down \ {d}
  BY DEF DeliverDown, loops, maps
<1>2. {link', proxying', serving'} \subseteq BOOLEAN /\ faults' \in 0 .. MaxFaults /\ cell' \in Site
  BY <1>1 DEF IInv, TypeOK
<1>3. CASE client' = client
  BY <1>1, <1>2, <1>3, NoSession
<1>4. CASE client' # client
  <2>1. PICK k \in Id : k = d.peer_id /\ d.data \in FactorioPacket
    BY DEF IInv, TypeOK, Datagram
  <2>2. /\ ClientRuns(k)
        /\ client' = [client EXCEPT ![k].from_server = TrySend(@, d.data)]
    BY <1>4, <2>1 DEF DeliverDown
  <2>3. server[k].at # "none" /\ d.data = ToGameOf(k)
    BY <2>1 DEF IInv, OwnPackets
  <2>4. PICK q \in Seq(FactorioPacket) :
          q = TrySend(client[k].from_server, d.data) /\ Only(q, ToGameOf(k))
    <3>1. client[k].from_server \in Seq(FactorioPacket)
      BY DEF IInv, TypeOK, ClientTask
    <3>2. Only(client[k].from_server, d.data)
      BY <2>3 DEF IInv, OwnPackets
    <3> QED
      BY <2>1, <2>3, <3>1, <3>2, TrySendKeeps
  <2>5. PICK c \in ClientTask :
          /\ c.at = client[k].at /\ c.addr = client[k].addr
          /\ c.from_client = client[k].from_client /\ c.from_server = q
          /\ client' = [client EXCEPT ![k] = c]
    <3>1. client' = [client EXCEPT ![k] = [client[k] EXCEPT !.from_server = q]]
      BY <2>2, <2>4
    <3> QED
      BY <2>4, <3>1 DEF IInv, TypeOK, ClientTask
  <2>6. /\ server' = [server EXCEPT ![k] = server[k]] /\ server[k] \in ServerTask
        /\ client'[k] = c /\ server'[k] = server[k]
    BY <1>1, <2>5 DEF IInv, TypeOK
  <2>7. Lifecycle(k)'
    BY <1>1, <2>3, <2>5, <2>6 DEF IInv, Lifecycle
  <2>8. OwnPackets(k)'
    BY <1>1, <2>4, <2>5, <2>6 DEF IInv, OwnPackets, FromGameOf, ToGameOf
  <2> QED
    BY <1>1, <1>2, <2>2, <2>5, <2>6, <2>7, <2>8, OneSession
<1> QED
  BY <1>3, <1>4

-----------------------------------------------------------------------------
(* proxy_client.                                                           *)

\* The task returns.
LEMMA EndClientPreserves ==
    ASSUME IInv, NEW k \in Id, client[k].at \in {"open", "run"}, EndClient(k),
           UNCHANGED <<link, proxying, serving, next_peer_id, addr_to_queue, streams, server,
                       cell, up, down>>,
           faults' \in 0 .. MaxFaults
    PROVE  IInv'
<1>1. PICK c \in ClientTask :
        /\ c.at = "ended" /\ c.addr = client[k].addr
        /\ c.from_client = <<>> /\ c.from_server = <<>>
        /\ client' = [client EXCEPT ![k] = c]
  <2>1. client' = [client EXCEPT ![k] =
                    [client[k] EXCEPT !.at = "ended", !.from_client = <<>>, !.from_server = <<>>]]
    BY DEF EndClient, IInv, TypeOK
  <2> QED
    BY <2>1, EmptyKeeps DEF IInv, TypeOK, ClientTask
<1>2. /\ server' = [server EXCEPT ![k] = server[k]] /\ server[k] \in ServerTask
      /\ client'[k] = c /\ server'[k] = server[k]
      /\ {link', proxying', serving'} \subseteq BOOLEAN
  BY <1>1 DEF IInv, TypeOK
<1>3. Lifecycle(k)'
  BY <1>1, <1>2 DEF IInv, Lifecycle
<1>4. OwnPackets(k)'
  BY <1>1, <1>2, EmptyKeeps DEF IInv, OwnPackets, FromGameOf, ToGameOf
<1> QED
  BY <1>1, <1>2, <1>3, <1>4, OneSession

\* The stream of a new peer.
LEMMA OpenStreamPreserves ==
    ASSUME NEW k \in Id, IInv, OpenStream(k) PROVE IInv'
<1>1. /\ UNCHANGED <<link, proxying, serving, next_peer_id, addr_to_queue, server, cell,
                     up, down, faults>>
      /\ client[k].at = "open"
  BY DEF OpenStream, loops, maps
<1>2. /\ {link', proxying', serving'} \subseteq BOOLEAN /\ faults' \in 0 .. MaxFaults
      /\ k \notin streams /\ server[k].at = "none"
  BY <1>1 DEF IInv, TypeOK, Lifecycle
<1>3. CASE ~link
  BY <1>1, <1>2, <1>3, EndClientPreserves DEF OpenStream
<1>4. CASE link
  <2>1. PICK c \in ClientTask :
          /\ c.at = "run" /\ c.addr = client[k].addr
          /\ c.from_client = client[k].from_client /\ c.from_server = client[k].from_server
          /\ client' = [client EXCEPT ![k] = c]
    <3>1. client' = [client EXCEPT ![k] = [client[k] EXCEPT !.at = "run"]]
      BY <1>4 DEF OpenStream
    <3> QED
      BY <3>1 DEF IInv, TypeOK, ClientTask
  <2>2. /\ server' = [server EXCEPT ![k] = server[k]] /\ server[k] \in ServerTask
        /\ client'[k] = c /\ server'[k] = server[k]
        /\ streams' = streams \cup {k}
        /\ ClientRuns(k)
    BY <1>1, <1>4, <2>1 DEF IInv, TypeOK, OpenStream, ClientRuns
  <2>3. Lifecycle(k)'
    BY <1>1, <1>2, <2>1, <2>2 DEF IInv, Lifecycle
  <2>4. OwnPackets(k)'
    BY <1>1, <2>1, <2>2 DEF IInv, OwnPackets, FromGameOf, ToGameOf
  <2> QED
    BY <1>1, <1>2, <2>1, <2>2, <2>3, <2>4, OneSession
<1> QED
  BY <1>3, <1>4

\* A packet of the game client goes out under the id of its session.
LEMMA ClientToServerPreserves ==
    ASSUME NEW k \in Id, IInv, ClientToServer(k) PROVE IInv'
<1>1. /\ UNCHANGED <<link, proxying, serving, next_peer_id, addr_to_queue, streams, server,
                     cell, down, faults>>
      /\ client[k].at = "run" /\ client[k].from_client # <<>>
  BY DEF ClientToServer, loops, maps
<1>2. {link', proxying', serving'} \subseteq BOOLEAN /\ faults' \in 0 .. MaxFaults
  BY <1>1 DEF IInv, TypeOK
<1>3. CASE ~link
  BY <1>1, <1>2, <1>3, EndClientPreserves DEF ClientToServer
<1>4. CASE link
  <2>1. PICK q \in Seq(GamePacket) :
          /\ q = Tail(client[k].from_client) /\ Only(q, FromGameOf(k))
          /\ Head(client[k].from_client) = FromGameOf(k)
    <3>1. client[k].from_client \in Seq(GamePacket) /\ Only(client[k].from_client, FromGameOf(k))
      BY DEF IInv, TypeOK, ClientTask, OwnPackets
    <3> QED
      BY <1>1, <3>1, TailKeeps
  <2>2. PICK c \in ClientTask :
          /\ c.at = client[k].at /\ c.addr = client[k].addr
          /\ c.from_client = q /\ c.from_server = client[k].from_server
          /\ client' = [client EXCEPT ![k] = c]
    <3>1. client' = [client EXCEPT ![k] = [client[k] EXCEPT !.from_client = q]]
      BY <1>4, <2>1 DEF ClientToServer
    <3> QED
      BY <2>1, <3>1 DEF IInv, TypeOK, ClientTask
  <2>3. /\ server' = [server EXCEPT ![k] = server[k]] /\ server[k] \in ServerTask
        /\ client'[k] = c /\ server'[k] = server[k]
        /\ ClientRuns(k)
    BY <1>1, <2>2 DEF IInv, TypeOK, ClientRuns
  <2>4. PICK d \in Datagram(GamePacket) :
          d.peer_id = k /\ d.data = FromGameOf(k) /\ up' = up \cup {d}
    <3>1. up' = up \cup {[peer_id |-> k, data |-> FromGameOf(k)]}
      BY <1>4, <2>1 DEF ClientToServer
    <3>2. FromGameOf(k) \in GamePacket
      BY <1>1 DEF IInv, Lifecycle, FromGameOf, GamePacket
    <3> QED
      BY <3>1, <3>2 DEF Datagram
  <2>5. Lifecycle(k)'
    BY <1>1, <2>2, <2>3 DEF IInv, Lifecycle
  <2>6. OwnPackets(k)'
    <3>1. FromGameOf(k)' = FromGameOf(k) /\ ToGameOf(k)' = ToGameOf(k)
      BY <2>2, <2>3 DEF FromGameOf, ToGameOf
    <3> QED
      BY <1>1, <2>1, <2>2, <2>3, <2>4, <3>1 DEF IInv, OwnPackets
  <2>7. \A e \in up' : e \in up \/ (e.peer_id = k /\ e \in Datagram(GamePacket))
    BY <2>4
  <2> QED
    BY <1>1, <1>2, <2>2, <2>3, <2>5, <2>6, <2>7, OneSession
<1> QED
  BY <1>3, <1>4

\* A packet of the server goes to the game client.
LEMMA ServerToClientPreserves ==
    ASSUME NEW k \in Id, IInv, ServerToClient(k) PROVE IInv'
<1>1. /\ UNCHANGED <<link, proxying, serving, next_peer_id, addr_to_queue, streams, server,
                     cell, up, down, faults>>
      /\ client[k].at = "run" /\ client[k].from_server # <<>>
  BY DEF ServerToClient, loops, maps
<1>2. {link', proxying', serving'} \subseteq BOOLEAN /\ faults' \in 0 .. MaxFaults
  BY <1>1 DEF IInv, TypeOK
<1>3. PICK q \in Seq(FactorioPacket) :
        q = Tail(client[k].from_server) /\ Only(q, ToGameOf(k))
  <2>1. client[k].from_server \in Seq(FactorioPacket) /\ Only(client[k].from_server, ToGameOf(k))
    BY DEF IInv, TypeOK, ClientTask, OwnPackets
  <2> QED
    BY <1>1, <2>1, TailKeeps
<1>4. PICK c \in ClientTask :
        /\ c.at = client[k].at /\ c.addr = client[k].addr
        /\ c.from_client = client[k].from_client /\ c.from_server = q
        /\ client' = [client EXCEPT ![k] = c]
  <2>1. client' = [client EXCEPT ![k] = [client[k] EXCEPT !.from_server = q]]
    BY <1>3 DEF ServerToClient
  <2> QED
    BY <1>3, <2>1 DEF IInv, TypeOK, ClientTask
<1>5. /\ server' = [server EXCEPT ![k] = server[k]] /\ server[k] \in ServerTask
      /\ client'[k] = c /\ server'[k] = server[k]
      /\ ClientRuns(k)
  BY <1>1, <1>4 DEF IInv, TypeOK, ClientRuns
<1>6. Lifecycle(k)'
  BY <1>1, <1>4, <1>5 DEF IInv, Lifecycle
<1>7. OwnPackets(k)'
  <2>1. FromGameOf(k)' = FromGameOf(k) /\ ToGameOf(k)' = ToGameOf(k)
    BY <1>4, <1>5 DEF FromGameOf, ToGameOf
  <2>2. OwnPackets(k)
    BY DEF IInv
  <2> QED
    BY <1>1, <1>3, <1>4, <1>5, <2>1, <2>2 DEF OwnPackets
<1> QED
  BY <1>1, <1>2, <1>4, <1>5, <1>6, <1>7, OneSession

\* A task that times out, loses its queues or fails.
LEMMA ClientEndsPreserves ==
    ASSUME NEW k \in Id, IInv, ClientIdle(k) \/ ClientQueueClosed(k) \/ ClientFails(k)
    PROVE  IInv'
<1>1. /\ client[k].at = "run" /\ EndClient(k)
      /\ UNCHANGED <<link, proxying, serving, next_peer_id, addr_to_queue, streams, server,
                     cell, up, down>>
  BY DEF ClientIdle, ClientQueueClosed, ClientFails, loops, maps
<1>2. faults' \in 0 .. MaxFaults
  BY PeersAssumption DEF IInv, TypeOK, ClientIdle, ClientQueueClosed, ClientFails
<1> QED
  BY <1>1, <1>2, EndClientPreserves

-----------------------------------------------------------------------------
(* run_server_proxy and proxy_server.                                      *)

\* A server task whose queue or state changes, and what it sends.
LEMMA ServerTaskPreserves ==
    ASSUME IInv, NEW k \in Id, NEW s \in ServerTask, server[k].at = "run",
           server' = [server EXCEPT ![k] = s],
           s.at # "none", s.site = server[k].site, Only(s.queue, FromGameOf(k)),
           UNCHANGED <<link, proxying, serving, next_peer_id, addr_to_queue, client, streams,
                       cell>>,
           faults' \in 0 .. MaxFaults,
           up' \subseteq up,
           \A d \in down' : d \in down \/ (/\ d \in Datagram(FactorioPacket)
                                           /\ d.peer_id = k
                                           /\ d.data = ToGameOf(k))
    PROVE  IInv'
<1>1. /\ client' = [client EXCEPT ![k] = client[k]] /\ client[k] \in ClientTask
      /\ client'[k] = client[k] /\ server'[k] = s
      /\ {link', proxying', serving'} \subseteq BOOLEAN
  BY DEF IInv, TypeOK
<1>2. Lifecycle(k)'
  BY <1>1 DEF IInv, Lifecycle
<1>3. OwnPackets(k)'
  <2>1. FromGameOf(k)' = FromGameOf(k) /\ ToGameOf(k)' = ToGameOf(k)
    BY <1>1 DEF FromGameOf, ToGameOf
  <2> QED
    BY <1>1, <2>1 DEF IInv, OwnPackets
<1> QED
  BY <1>1, <1>2, <1>3, OneSession DEF ClientRuns

\* The task returns.
LEMMA EndServerPreserves ==
    ASSUME IInv, NEW k \in Id, server[k].at = "run", EndServer(k),
           UNCHANGED <<link, proxying, serving, next_peer_id, addr_to_queue, client, streams,
                       cell, up, down>>,
           faults' \in 0 .. MaxFaults
    PROVE  IInv'
<1>1. PICK s \in ServerTask :
        /\ s.at = "ended" /\ s.site = server[k].site /\ s.queue = <<>>
        /\ server' = [server EXCEPT ![k] = s]
  <2>1. server' = [server EXCEPT ![k] = [server[k] EXCEPT !.at = "ended", !.queue = <<>>]]
    BY DEF EndServer, IInv, TypeOK
  <2> QED
    BY <2>1, EmptyKeeps DEF IInv, TypeOK, ServerTask
<1> QED
  BY <1>1, EmptyKeeps, ServerTaskPreserves

\* A datagram from the client proxy.
LEMMA DeliverUpPreserves ==
    ASSUME NEW d \in up, IInv, DeliverUp(d) PROVE IInv'
<1>1. /\ UNCHANGED <<link, proxying, serving, next_peer_id, addr_to_queue, client, streams,
                     cell, down, faults>>
      /\ up' = up \ {d}
  BY DEF DeliverUp, loops, maps
<1>2. {link', proxying', serving'} \subseteq BOOLEAN /\ faults' \in 0 .. MaxFaults /\ cell' \in Site
  BY <1>1 DEF IInv, TypeOK
<1>3. CASE server' = server
  BY <1>1, <1>2, <1>3, NoSession
<1>4. CASE server' # server
  <2>1. PICK k \in Id : k = d.peer_id /\ d.data \in GamePacket /\ d.data = FromGameOf(k)
    BY DEF IInv, TypeOK, Datagram, OwnPackets
  <2>2. server[k].at = "run" /\ server' = [server EXCEPT ![k].queue = TrySend(@, d.data)]
    BY <1>4, <2>1 DEF DeliverUp, ServerRuns
  <2>3. PICK q \in Seq(GamePacket) :
          q = TrySend(server[k].queue, d.data) /\ Only(q, FromGameOf(k))
    <3>1. server[k].queue \in Seq(GamePacket) /\ Only(server[k].queue, d.data)
      BY <2>1 DEF IInv, TypeOK, ServerTask, OwnPackets
    <3> QED
      BY <2>1, <3>1, TrySendKeeps
  <2>4. PICK s \in ServerTask :
          /\ s.at = "run" /\ s.site = server[k].site /\ s.queue = q
          /\ server' = [server EXCEPT ![k] = s]
    <3>1. server' = [server EXCEPT ![k] = [server[k] EXCEPT !.queue = q]]
      BY <2>2, <2>3
    <3>2. server[k] \in ServerTask
      BY DEF IInv, TypeOK
    <3>3. PICK s : s = [server[k] EXCEPT !.queue = q]
      OBVIOUS
    <3>4. /\ s \in ServerTask
          /\ s.at = server[k].at /\ s.site = server[k].site /\ s.queue = q
      BY <3>2, <3>3 DEF ServerTask
    <3> QED
      BY <2>2, <3>1, <3>3, <3>4
  <2> QED
    BY <1>1, <1>2, <2>2, <2>3, <2>4, ServerTaskPreserves
<1> QED
  BY <1>3, <1>4

\* A stream is accepted: the session gets its Factorio server.  No packet of it
\* has come back before, so that its site may still be chosen.
LEMMA AcceptPreserves ==
    ASSUME NEW k \in Id, IInv, Accept(k) PROVE IInv'
<1>1. /\ UNCHANGED <<link, proxying, serving, next_peer_id, addr_to_queue, client, cell,
                     up, down, faults>>
      /\ k \in streams /\ streams' = streams \ {k}
  BY DEF Accept, loops, maps
<1>2. /\ {link', proxying', serving'} \subseteq BOOLEAN /\ faults' \in 0 .. MaxFaults
      /\ client[k].at \in {"run", "ended"} /\ server[k].at = "none"
      /\ client[k].from_server = <<>>
  BY <1>1 DEF IInv, TypeOK, Lifecycle
<1>3. PICK s \in ServerTask :
        /\ s.at = "run" /\ s.queue = <<>>
        /\ server' = [server EXCEPT ![k] = s]
  <2>1. [at |-> "run", site |-> cell, queue |-> <<>>] \in ServerTask
    BY EmptyKeeps DEF IInv, TypeOK, ServerTask
  <2> QED
    BY <2>1 DEF Accept
<1>4. /\ client' = [client EXCEPT ![k] = client[k]] /\ client[k] \in ClientTask
      /\ client'[k] = client[k] /\ server'[k] = s
  BY <1>1, <1>3 DEF IInv, TypeOK
<1>5. Lifecycle(k)'
  BY <1>1, <1>2, <1>3, <1>4 DEF IInv, Lifecycle
<1>6. OwnPackets(k)'
  <2>1. FromGameOf(k)' = FromGameOf(k)
    BY <1>4 DEF FromGameOf
  <2>2. \A d \in down : d.peer_id # k
    BY <1>2 DEF IInv, OwnPackets
  <2> QED
    BY <1>1, <1>2, <1>3, <1>4, <2>1, <2>2, EmptyKeeps DEF IInv, OwnPackets
<1> QED
  BY <1>1, <1>2, <1>3, <1>4, <1>5, <1>6, OneSession DEF ClientRuns

\* A packet of the game client goes to the Factorio server.
LEMMA ToFactorioPreserves ==
    ASSUME NEW k \in Id, IInv, ToFactorio(k) PROVE IInv'
<1>1. /\ UNCHANGED <<link, proxying, serving, next_peer_id, addr_to_queue, client, streams,
                     cell, up, down, faults>>
      /\ server[k].at = "run" /\ server[k].queue # <<>>
      /\ faults' \in 0 .. MaxFaults
  BY DEF ToFactorio, ServerRuns, loops, maps, IInv, TypeOK
<1>2. PICK q \in Seq(GamePacket) : q = Tail(server[k].queue) /\ Only(q, FromGameOf(k))
  <2>1. server[k].queue \in Seq(GamePacket) /\ Only(server[k].queue, FromGameOf(k))
    BY DEF IInv, TypeOK, ServerTask, OwnPackets
  <2> QED
    BY <1>1, <2>1, TailKeeps
<1>3. PICK s \in ServerTask :
        /\ s.at = "run" /\ s.site = server[k].site /\ s.queue = q
        /\ server' = [server EXCEPT ![k] = s]
  <2>1. server' = [server EXCEPT ![k] = [server[k] EXCEPT !.queue = q]]
    BY <1>2 DEF ToFactorio
  <2> QED
    BY <1>1, <1>2, <2>1 DEF IInv, TypeOK, ServerTask
<1> QED
  BY <1>1, <1>2, <1>3, ServerTaskPreserves

\* A packet of the session's own Factorio server; others were dropped.
LEMMA FromFactorioPreserves ==
    ASSUME NEW k \in Id, NEW site \in Site, IInv, FromFactorio(k, site) PROVE IInv'
<1>1. /\ UNCHANGED <<link, proxying, serving, next_peer_id, addr_to_queue, client, streams,
                     cell, up, faults>>
      /\ server[k].at = "run" /\ site = server[k].site
      /\ faults' \in 0 .. MaxFaults
  BY DEF FromFactorio, FromOwnServer, ServerRuns, loops, maps, IInv, TypeOK
<1>2. CASE ~link
  BY <1>1, <1>2, EndServerPreserves DEF FromFactorio
<1>3. CASE link
  <2>1. ToGameOf(k) \in FactorioPacket
    BY <1>1 DEF IInv, Lifecycle, ToGameOf, FactorioPacket
  <2>2. down' = down \cup {[peer_id |-> k, data |-> ToGameOf(k)]}
    BY <1>1, <1>3 DEF FromFactorio, ToGameOf
  <2>3. \A d \in down' : d \in down \/ (/\ d \in Datagram(FactorioPacket)
                                        /\ d.peer_id = k
                                        /\ d.data = ToGameOf(k))
    BY <2>1, <2>2 DEF Datagram
  <2>4. server' = [server EXCEPT ![k] = server[k]] /\ server[k] \in ServerTask
    BY <1>3 DEF FromFactorio, IInv, TypeOK
  <2>5. Only(server[k].queue, FromGameOf(k))
    BY DEF IInv, OwnPackets
  <2> QED
    BY <1>1, <2>3, <2>4, <2>5, ServerTaskPreserves
<1> QED
  BY <1>2, <1>3

\* A task that times out, loses its queue or fails.
LEMMA ServerEndsPreserves ==
    ASSUME NEW k \in Id, IInv, ServerIdle(k) \/ ServerQueueClosed(k) \/ ServerFails(k)
    PROVE  IInv'
<1>1. /\ server[k].at = "run" /\ EndServer(k)
      /\ UNCHANGED <<link, proxying, serving, next_peer_id, addr_to_queue, client, streams,
                     cell, up, down>>
  BY DEF ServerIdle, ServerQueueClosed, ServerFails, ServerRuns, loops, maps
<1>2. faults' \in 0 .. MaxFaults
  BY PeersAssumption DEF IInv, TypeOK, ServerIdle, ServerQueueClosed, ServerFails
<1> QED
  BY <1>1, <1>2, EndServerPreserves

\* The steps of the loops, of LAN discovery and of the network that touch no
\* task.
LEMMA OthersPreserve ==
    ASSUME IInv,
           \/ \E a \in Addr : RanOut(a)
           \/ \E id \in Id : BindFails(id)
           \/ \E site \in Site : Discover(site)
           \/ Lose
           \/ ConnectionLost
           \/ ClientLoopEnds
           \/ ServerLoopEnds
           \/ UNCHANGED vars
    PROVE  IInv'
<1> DEFINE Goal ==
        /\ UNCHANGED <<next_peer_id, addr_to_queue, client, server>>
        /\ {link', proxying', serving'} \subseteq BOOLEAN
        /\ cell' \in Site
        /\ faults' \in 0 .. MaxFaults
        /\ streams' \subseteq streams
        /\ up' \subseteq up
        /\ down' \subseteq down
<1> SUFFICES Goal
  BY NoSession
<1>1. CASE (\E a \in Addr : RanOut(a)) \/ ConnectionLost
  BY <1>1 DEF RanOut, ConnectionLost, CloseLink, maps, IInv, TypeOK
<1>2. CASE \E id \in Id : BindFails(id)
  <2>1. faults' \in 0 .. MaxFaults
    BY <1>2, PeersAssumption DEF BindFails, IInv, TypeOK
  <2> QED
    BY <1>2, <2>1 DEF BindFails, maps, IInv, TypeOK
<1>3. CASE (\E site \in Site : Discover(site)) \/ Lose
  BY <1>3 DEF Discover, Lose, loops, maps, IInv, TypeOK
<1>4. CASE ClientLoopEnds \/ ServerLoopEnds \/ UNCHANGED vars
  BY <1>4 DEF ClientLoopEnds, ServerLoopEnds, vars, loops, maps, IInv, TypeOK
<1> QED
  BY <1>1, <1>2, <1>3, <1>4

-----------------------------------------------------------------------------
\* The invariant holds in every state of every execution.
THEOREM InductiveInvariant == Spec => []IInv
<1>1. IInv /\ [Next]_vars => IInv'
  <2> SUFFICES ASSUME IInv, [Next]_vars PROVE IInv'
    OBVIOUS
  <2>1. CASE \E a \in Addr : FromGame(a) \/ NewPeer(a)
    BY <2>1, FromGamePreserves, NewPeerPreserves
  <2>2. CASE \E d \in down : DeliverDown(d)
    BY <2>2, DeliverDownPreserves
  <2>3. CASE \E d \in up : DeliverUp(d)
    BY <2>3, DeliverUpPreserves
  <2>4. CASE \E id \in Id : OpenStream(id) \/ ClientToServer(id) \/ ServerToClient(id)
    BY <2>4, OpenStreamPreserves, ClientToServerPreserves, ServerToClientPreserves
  <2>5. CASE \E id \in Id : ClientIdle(id) \/ ClientQueueClosed(id) \/ ClientFails(id)
    BY <2>5, ClientEndsPreserves
  <2>6. CASE \E id \in Id : Accept(id) \/ ToFactorio(id)
    BY <2>6, AcceptPreserves, ToFactorioPreserves
  <2>7. CASE \E id \in Id : ServerIdle(id) \/ ServerQueueClosed(id) \/ ServerFails(id)
    BY <2>7, ServerEndsPreserves
  <2>8. CASE \E id \in Id : \E site \in Site : FromFactorio(id, site)
    BY <2>8, FromFactorioPreserves
  <2>9. CASE \/ \E a \in Addr : RanOut(a)
             \/ \E id \in Id : BindFails(id)
             \/ \E site \in Site : Discover(site)
             \/ Lose
             \/ ConnectionLost
             \/ ClientLoopEnds
             \/ ServerLoopEnds
             \/ UNCHANGED vars
    BY <2>9, OthersPreserve
  <2> QED
    BY <2>1, <2>2, <2>3, <2>4, <2>5, <2>6, <2>7, <2>8, <2>9 DEF Next
<1> QED
  BY <1>1, InitEstablishes, PTL DEF Spec

\* However datagrams are lost, late or reordered, a Factorio server hears only
\* the game client of the session, and a game client hears only the Factorio
\* server of its session (run_client_proxy, run_server_proxy).
THEOREM SessionsKeptApart == Spec => []SessionsApart
<1>1. IInv => SessionsApart
  <2> SUFFICES ASSUME IInv, NEW id \in Id
               PROVE  /\ \A i \in DOMAIN server[id].queue :
                            server[id].queue[i].from = client[id].addr
                      /\ \A i \in DOMAIN client[id].from_server :
                            client[id].from_server[i] =
                                [from |-> server[id].site, to |-> client[id].addr]
    BY DEF SessionsApart
  <2>1. Only(server[id].queue, FromGameOf(id)) /\ Only(client[id].from_server, ToGameOf(id))
    BY DEF IInv, OwnPackets
  <2> QED
    BY <2>1 DEF Only, FromGameOf, ToGameOf
<1> QED
  BY <1>1, InductiveInvariant, PTL

\* A game client never has two tasks, and its packets are queued for the one it
\* has, however often its session was timed out (addr_to_queue).
THEOREM OneSessionEach == Spec => []OneSessionPerAddress
<1>1. IInv => OneSessionPerAddress
  BY DEF IInv, MapSound, OneSessionPerAddress
<1> QED
  BY <1>1, InductiveInvariant, PTL
=============================================================================
