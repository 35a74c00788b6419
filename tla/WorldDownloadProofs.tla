------------------------- MODULE WorldDownloadProofs -------------------------
(***************************************************************************)
(* The world download keeps account of every block and keeps its window of *)
(* requests full, for every world size, block size and limit, whatever the *)
(* network loses, repeats or reorders.                                     *)
(*                                                                         *)
(* The conjunction of the type invariant and the two properties is         *)
(* inductive.  The one fact with arithmetic in it is about                 *)
(* request_next_blocks and is proved once (WindowFilled).                  *)
(***************************************************************************)
EXTENDS WorldDownload, FiniteSetTheorems, SequenceTheorems, TLAPS

\* The set of blocks is finite, so that windows and queues can be counted.
LEMMA BlockFinite ==
    /\ IsFiniteSet(Block)
    /\ \A S \in SUBSET Block : IsFiniteSet(S) /\ Cardinality(S) \in Nat
<1>1. WorldBlocks + BlockCount(AuxSize) - 1 \in Int
  BY SizeAssumption DEF WorldBlocks, BlockCount
<1>2. IsFiniteSet(Block)
  BY <1>1, FS_Interval DEF Block
<1>3. ASSUME NEW S \in SUBSET Block PROVE IsFiniteSet(S) /\ Cardinality(S) \in Nat
  BY <1>2, FS_Subset, FS_CardinalityType
<1> QED
  BY <1>2, <1>3

\* request_next_blocks loses no block, requests none twice, respects the limit
\* and leaves blocks in the queue only behind a full window.
LEMMA WindowFilled ==
    ASSUME NEW q \in SUBSET Block, NEW i \in SUBSET Block, NEW r \in SUBSET Block,
           q \cap i = {},
           requests \subseteq Block,
           RequestNext(q, i, r)
    PROVE  /\ queue' \subseteq Block
           /\ inflight' \subseteq Block
           /\ requests' \subseteq Block
           /\ queue' \cup inflight' = q \cup i
           /\ queue' \cap inflight' = {}
           /\ WindowKeptFull'
<1>1. PICK next \in SUBSET q :
        /\ FillsWindow(next, q, i)
        /\ queue' = q \ next
        /\ inflight' = i \cup next
        /\ requests' = requests \cup r \cup next
  BY DEF RequestNext
<1>2. /\ IsFiniteSet(i) /\ Cardinality(i) \in Nat
      /\ IsFiniteSet(next) /\ Cardinality(next) \in Nat
  BY BlockFinite
<1>3. Cardinality(i \cup next) = Cardinality(i) + Cardinality(next)
  <2>1. i \cap next = {}
    OBVIOUS
  <2>2. Cardinality(i \cup next) =
            Cardinality(i) + Cardinality(next) - Cardinality(i \cap next)
    BY <1>2, FS_Union
  <2> QED
    BY <1>2, <2>1, <2>2, FS_EmptySet
<1>4. Cardinality(inflight') <= Limit
  BY <1>1, <1>2, <1>3, SizeAssumption DEF FillsWindow
<1>5. queue' # {} => Cardinality(inflight') = Limit
  BY <1>1, <1>2, <1>3, SizeAssumption DEF FillsWindow
<1>6. WindowKeptFull'
  BY <1>4, <1>5 DEF WindowKeptFull
<1> QED
  BY <1>1, <1>6

\* A block that was missing joins the received ones.
LEMMA BlockAppended ==
    ASSUME NEW s \in Seq(Block), NEW b \in Block, IsInjective(s), b \notin ToSet(s)
    PROVE  /\ Append(s, b) \in Seq(Block)
           /\ ToSet(Append(s, b)) = ToSet(s) \cup {b}
           /\ IsInjective(Append(s, b))
<1> DEFINE t == Append(s, b)
<1>1. t \in Seq(Block) /\ DOMAIN t = 1 .. Len(s) + 1 /\ DOMAIN s = 1 .. Len(s)
  OBVIOUS
<1>2. /\ \A k \in 1 .. Len(s) : t[k] = s[k]
      /\ t[Len(s) + 1] = b
      /\ Len(s) \in Nat
  OBVIOUS
<1>3. ToSet(t) = ToSet(s) \cup {b}
  <2>1. ToSet(t) \subseteq ToSet(s) \cup {b}
    BY <1>1, <1>2 DEF ToSet
  <2>2. ToSet(s) \subseteq ToSet(t)
    BY <1>1, <1>2 DEF ToSet
  <2>3. b \in ToSet(t)
    BY <1>1, <1>2 DEF ToSet
  <2> QED
    BY <2>1, <2>2, <2>3
<1>4. IsInjective(t)
  <2> SUFFICES ASSUME NEW j \in DOMAIN t, NEW k \in DOMAIN t, t[j] = t[k] PROVE j = k
    BY DEF IsInjective
  <2>1. \A n \in 1 .. Len(s) : t[n] # b
    BY <1>1, <1>2 DEF ToSet
  <2>2. CASE j = Len(s) + 1 \/ k = Len(s) + 1
    BY <1>1, <1>2, <2>1, <2>2
  <2>3. CASE j \in 1 .. Len(s) /\ k \in 1 .. Len(s)
    BY <1>1, <1>2, <2>3 DEF IsInjective
  <2> QED
    BY <1>1, <1>2, <2>2, <2>3
<1> QED
  BY <1>1, <1>3, <1>4

-----------------------------------------------------------------------------
\* The inductive invariant: the three properties together.
IInv == TypeOK /\ EveryBlockAccounted /\ WindowKeptFull

\* No block has been received yet.
LEMMA EmptySeqTyped == <<>> \in Seq(Block)
  OBVIOUS

\* ServerProxyState::new.
LEMMA InitEstablishes == Init => IInv
<1> SUFFICES ASSUME Init PROVE IInv
  OBVIOUS
<1>1. TypeOK /\ EveryBlockAccounted
  BY EmptySeqTyped DEF Init, TypeOK, EveryBlockAccounted
<1>2. WindowKeptFull
  BY FS_EmptySet, SizeAssumption DEF Init, WindowKeptFull
<1> QED
  BY <1>1, <1>2 DEF IInv

\* transition_to_downloading_world.
LEMMA MapReadyPreserves == IInv /\ MapReady => IInv'
<1> SUFFICES ASSUME IInv, MapReady PROVE IInv'
  OBVIOUS
<1> USE DEF IInv
<1>1. /\ queue' \subseteq Block /\ inflight' \subseteq Block /\ requests' \subseteq Block
      /\ queue' \cup inflight' = Block
      /\ queue' \cap inflight' = {}
      /\ WindowKeptFull'
  <2>1. RequestNext(Block, {}, {}) /\ requests \subseteq Block
    BY DEF TypeOK, MapReady, AllBlocks
  <2>2. Block \cap {} = {} /\ {} \subseteq Block /\ Block \cup {} = Block
    OBVIOUS
  <2> QED
    BY <2>1, <2>2, WindowFilled
<1>2. TypeOK'
  BY <1>1, EmptySeqTyped DEF TypeOK, MapReady
<1>3. received' = <<>> /\ ToSet(<<>>) = {} /\ IsInjective(<<>>)
  BY DEF MapReady, ToSet, IsInjective
<1>4. EveryBlockAccounted'
  BY <1>1, <1>3 DEF EveryBlockAccounted
<1> QED
  BY <1>1, <1>2, <1>4

\* A heartbeat resends, tops up the window, and is forwarded.
LEMMA HeartbeatPreserves ==
    ASSUME NEW info \in BOOLEAN, IInv, Heartbeat(info) PROVE IInv'
<1> USE DEF IInv
<1>1. CASE phase = "DownloadingWorld" /\ stale
  <2>1. RequestNext(queue, inflight, inflight) /\ stale' = FALSE
    BY <1>1 DEF Heartbeat, Resent
  <2>2. queue \cap inflight = {}
    BY <1>1 DEF EveryBlockAccounted
  <2>3. /\ queue' \subseteq Block /\ inflight' \subseteq Block /\ requests' \subseteq Block
        /\ queue' \cup inflight' = queue \cup inflight
        /\ queue' \cap inflight' = {}
        /\ WindowKeptFull'
    BY <2>1, <2>2, WindowFilled DEF TypeOK
  <2>4. TypeOK'
    BY <2>1, <2>3 DEF TypeOK, Heartbeat, Forward
  <2>5. EveryBlockAccounted'
    BY <1>1, <2>3 DEF EveryBlockAccounted, Heartbeat
  <2> QED
    BY <2>3, <2>4, <2>5
<1>2. CASE ~(phase = "DownloadingWorld" /\ stale)
  <2>1. UNCHANGED <<queue, inflight, requests, stale, phase, received, blocks, leaked>>
    BY <1>2 DEF Heartbeat
  <2>2. TypeOK'
    BY <2>1 DEF TypeOK, Heartbeat, Forward
  <2> QED
    BY <2>1, <2>2 DEF EveryBlockAccounted, WindowKeptFull
<1> QED
  BY <1>1, <1>2

\* A block that arrives while downloading.
LEMMA TakeBlockPreserves ==
    ASSUME NEW b \in Block, IInv, phase = "DownloadingWorld", TakeBlock(b),
           blocks' \subseteq Block
    PROVE  IInv'
<1> USE DEF IInv
<1> DEFINE i == inflight \ {b}
           q == IF b \in inflight THEN queue ELSE queue \ {b}
<1>1. /\ queue \cup inflight \cup ToSet(received) = Block
      /\ queue \cap inflight = {}
      /\ (queue \cup inflight) \cap ToSet(received) = {}
      /\ IsInjective(received)
  BY DEF EveryBlockAccounted
<1>2. /\ q \subseteq Block /\ i \subseteq Block /\ q \cap i = {}
      /\ q \cup i = (queue \cup inflight) \ {b}
  BY <1>1 DEF TypeOK
<1>3. /\ received' \in Seq(Block)
      /\ ToSet(received') = ToSet(received) \cup {b}
      /\ IsInjective(received')
  <2>1. CASE Wanted(b)
    <3>1. b \notin ToSet(received)
      BY <1>1, <2>1 DEF Wanted
    <3>2. received' = Append(received, b)
      BY <2>1 DEF TakeBlock
    <3> QED
      BY <1>1, <3>1, <3>2, BlockAppended DEF TypeOK
  <2>2. CASE ~Wanted(b)
    <3>1. b \in ToSet(received)
      BY <1>1, <2>2 DEF Wanted
    <3>2. received' = received
      BY <2>2 DEF TakeBlock
    <3> QED
      BY <1>1, <3>1, <3>2 DEF TypeOK
  <2> QED
    BY <2>1, <2>2
<1>4. /\ queue' \subseteq Block /\ inflight' \subseteq Block /\ requests' \subseteq Block
      /\ queue' \cup inflight' = q \cup i
      /\ queue' \cap inflight' = {}
      /\ WindowKeptFull'
      /\ phase' \in {"DownloadingWorld", "Done"}
  <2>1. CASE i = {} /\ q = {}
    <3>1. queue' = {} /\ inflight' = {} /\ requests' = requests /\ phase' = "Done"
      BY <2>1 DEF TakeBlock
    <3>2. WindowKeptFull'
      BY <3>1, FS_EmptySet, SizeAssumption DEF WindowKeptFull
    <3> QED
      BY <2>1, <3>1, <3>2 DEF TypeOK
  <2>2. CASE ~(i = {} /\ q = {})
    <3>1. RequestNext(q, i, {}) /\ phase' = phase
      BY <2>2 DEF TakeBlock
    <3>2. requests \subseteq Block /\ phase' = "DownloadingWorld"
      BY <3>1 DEF TypeOK
    <3> HIDE DEF q, i
    <3> QED
      BY <1>2, <3>1, <3>2, WindowFilled
  <2> QED
    BY <2>1, <2>2
<1>5. TypeOK'
  BY <1>3, <1>4 DEF TypeOK, TakeBlock, filtering
<1>6. EveryBlockAccounted'
  BY <1>1, <1>2, <1>3, <1>4 DEF EveryBlockAccounted
<1> QED
  BY <1>4, <1>5, <1>6

\* A block that arrives at any time.
LEMMA ReceiveBlockPreserves ==
    ASSUME NEW b \in Block, IInv, ReceiveBlock(b) PROVE IInv'
<1>1. blocks' \subseteq Block
  BY DEF IInv, TypeOK, ReceiveBlock
<1>2. CASE phase = "DownloadingWorld"
  BY <1>1, <1>2, TakeBlockPreserves DEF ReceiveBlock
<1>3. CASE phase # "DownloadingWorld"
  <2>1. PassBlock(b)
    BY <1>3 DEF ReceiveBlock
  <2> QED
    BY <1>1, <2>1 DEF IInv, PassBlock, download, TypeOK, EveryBlockAccounted, WindowKeptFull
<1> QED
  BY <1>2, <1>3

\* The game server, the network and the clock leave the account alone.
LEMMA EnvironmentPreserves ==
    ASSUME IInv, \/ \E b \in Block : Serve(b)
                 \/ Lose
                 \/ BlockTimeout
                 \/ FilterTimeout
                 \/ UNCHANGED vars
    PROVE  IInv'
<1>1. /\ UNCHANGED <<phase, queue, inflight, received, leaked>>
      /\ requests' \subseteq Block
      /\ blocks' \subseteq Block
      /\ stale' \in BOOLEAN
      /\ filter' \in BOOLEAN
      /\ quiet' \in BOOLEAN
  BY DEF IInv, TypeOK, Serve, Lose, BlockTimeout, FilterTimeout, vars, download,
         filtering, network
<1> QED
  BY <1>1 DEF IInv, TypeOK, EveryBlockAccounted, WindowKeptFull

\* The invariant holds in every state of every execution.
THEOREM InductiveInvariant == Spec => []IInv
<1>1. IInv /\ [Next]_vars => IInv'
  <2> SUFFICES ASSUME IInv, [Next]_vars PROVE IInv'
    OBVIOUS
  <2>1. CASE MapReady
    BY <2>1, MapReadyPreserves
  <2>2. CASE \E info \in BOOLEAN : Heartbeat(info)
    BY <2>2, HeartbeatPreserves
  <2>3. CASE \E b \in Block : ReceiveBlock(b)
    BY <2>3, ReceiveBlockPreserves
  <2>4. CASE \/ \E b \in Block : Serve(b)
             \/ Lose
             \/ BlockTimeout
             \/ FilterTimeout
             \/ UNCHANGED vars
    BY <2>4, EnvironmentPreserves
  <2> QED
    BY <2>1, <2>2, <2>3, <2>4 DEF Next
<1> QED
  BY <1>1, InitEstablishes, PTL DEF Spec

\* ServerProxyState keeps to its types.
THEOREM TypeCorrect == Spec => []TypeOK
<1>1. IInv => TypeOK
  BY DEF IInv
<1> QED
  BY <1>1, InductiveInvariant, PTL

\* No loss, repetition or reordering of packets makes the proxy lose a block
\* or take one twice (on_packet_from_server, request_next_blocks).
THEOREM BlocksAccounted == Spec => []EveryBlockAccounted
<1>1. IInv => EveryBlockAccounted
  BY DEF IInv
<1> QED
  BY <1>1, InductiveInvariant, PTL

\* The window of requests stays within its limit and full while blocks are
\* queued (request_next_blocks).
THEOREM WindowFull == Spec => []WindowKeptFull
<1>1. IInv => WindowKeptFull
  BY DEF IInv
<1> QED
  BY <1>1, InductiveInvariant, PTL

-----------------------------------------------------------------------------
(* The assembly of the world in transfer_world_data. *)

BlockTotal == WorldBlocks + BlockCount(AuxSize)

\* All bytes that the game server sends.
Sent ==
    Bytes("world", WorldSize) \o Bytes("pad", WorldBlocks * BlockSize - WorldSize)
        \o Bytes("aux", AuxSize)

Byte == {"world", "pad", "aux"} \X Nat

\* Where the first k blocks end.
Upto(k) == IF k * BlockSize < Len(Sent) THEN k * BlockSize ELSE Len(Sent)

\* A set of natural numbers has a least element.
LEMMA Least ==
    ASSUME NEW A \in SUBSET Nat, A # {}
    PROVE  \E x \in A : \A y \in A : x <= y
<1> DEFINE R == OpToRel(<, Nat)
<1>1. PICK x \in A : \A y \in A : ~(<<y, x>> \in R)
  <2>1. IsWellFoundedOn(R, Nat)
    BY NatLessThanWellFounded
  <2> HIDE DEF R
  <2> QED
    BY <2>1, WFMin
<1>2. \A y \in A : ~(y < x)
  BY <1>1 DEF OpToRel
<1> QED
  BY <1>2

\* The number of blocks: they cover both parts, and the last one is not empty.
LEMMA BlockCounts ==
    /\ WorldBlocks \in Nat \ {0} /\ BlockTotal \in Nat \ {0}
    /\ WorldSize <= WorldBlocks * BlockSize
    /\ WorldBlocks * BlockSize + AuxSize <= BlockTotal * BlockSize
    /\ (BlockTotal - 1) * BlockSize <= WorldBlocks * BlockSize + AuxSize
    /\ WorldBlocks * BlockSize \in Nat
    /\ Block = 0 .. BlockTotal - 1
<1>1. ASSUME NEW a \in Nat
      PROVE  /\ BlockCount(a) \in Nat
             /\ a <= BlockCount(a) * BlockSize
             /\ BlockCount(a) * BlockSize < a + BlockSize
             /\ a # 0 => BlockCount(a) # 0
  BY SizeAssumption DEF BlockCount
<1>2. PICK w \in Nat, x \in Nat :
        /\ w = BlockCount(WorldSize) /\ x = BlockCount(AuxSize)
        /\ WorldSize <= w * BlockSize /\ w # 0
        /\ AuxSize <= x * BlockSize /\ x * BlockSize < AuxSize + BlockSize
  BY <1>1, SizeAssumption
<1>3. /\ w * BlockSize \in Nat /\ x * BlockSize \in Nat
      /\ (w + x) * BlockSize = w * BlockSize + x * BlockSize
      /\ ((w + x) - 1) * BlockSize = w * BlockSize + x * BlockSize - BlockSize
  BY SizeAssumption
<1>4. WorldBlocks = w /\ BlockTotal = w + x
  BY <1>2 DEF WorldBlocks, BlockTotal
<1>5. Block = 0 .. BlockTotal - 1
  BY <1>2, SizeAssumption DEF Block, BlockTotal, WorldBlocks
<1>6. /\ w * BlockSize + AuxSize <= (w + x) * BlockSize
      /\ ((w + x) - 1) * BlockSize <= w * BlockSize + AuxSize
  <2>1. PICK y \in Nat, z \in Nat : y = w * BlockSize /\ z = x * BlockSize
    BY <1>3
  <2>2. y + AuxSize <= y + z /\ y + z - BlockSize <= y + AuxSize
    BY <1>2, <2>1, SizeAssumption
  <2> QED
    BY <1>3, <2>1, <2>2
<1>7. WorldBlocks \in Nat \ {0} /\ BlockTotal \in Nat \ {0}
  BY <1>2, <1>4
<1>8. /\ WorldSize <= WorldBlocks * BlockSize
      /\ WorldBlocks * BlockSize \in Nat
      /\ WorldBlocks * BlockSize + AuxSize <= BlockTotal * BlockSize
      /\ (BlockTotal - 1) * BlockSize <= WorldBlocks * BlockSize + AuxSize
  BY <1>2, <1>3, <1>4, <1>6, Zenon
<1> QED
  BY <1>5, <1>7, <1>8

\* The two parts, and what pads the first.
LEMMA SentIs ==
    /\ Sent \in Seq(Byte)
    /\ Len(Sent) = WorldBlocks * BlockSize + AuxSize
    /\ \A i \in 1 .. WorldSize : Sent[i] = <<"world", i>>
    /\ \A i \in 1 .. AuxSize : Sent[WorldBlocks * BlockSize + i] = <<"aux", i>>
<1>1. PICK n \in Nat, o \in Nat, m \in Nat :
        n = WorldSize /\ o = WorldBlocks * BlockSize - WorldSize /\ m = AuxSize
  BY BlockCounts, SizeAssumption
<1>2. ASSUME NEW part \in {"world", "pad", "aux"}, NEW size \in Nat
      PROVE  /\ Bytes(part, size) \in Seq(Byte)
             /\ Len(Bytes(part, size)) = size
             /\ \A i \in 1 .. size : Bytes(part, size)[i] = <<part, i>>
  BY DEF Bytes, Byte
<1> DEFINE u == Bytes("world", n)
           v == Bytes("pad", o)
           w == Bytes("aux", m)
<1>3. /\ u \in Seq(Byte) /\ v \in Seq(Byte) /\ w \in Seq(Byte)
      /\ Sent = (u \o v) \o w
      /\ Len(u) = n /\ Len(v) = o /\ Len(w) = m
      /\ \A i \in 1 .. n : u[i] = <<"world", i>>
      /\ \A i \in 1 .. m : w[i] = <<"aux", i>>
  BY <1>1, <1>2 DEF Sent
<1> HIDE DEF u, v, w
<1>4. ASSUME NEW s \in Seq(Byte), NEW t \in Seq(Byte)
      PROVE  /\ s \o t \in Seq(Byte)
             /\ Len(s \o t) = Len(s) + Len(t)
             /\ \A i \in 1 .. Len(s) : (s \o t)[i] = s[i]
             /\ \A i \in 1 .. Len(t) : (s \o t)[Len(s) + i] = t[i]
  <2>1. Len(s) \in Nat /\ Len(t) \in Nat
    OBVIOUS
  <2>2. /\ \A i \in 1 .. Len(s) : i \in 1 .. Len(s) + Len(t) /\ i <= Len(s)
        /\ \A i \in 1 .. Len(t) :
              /\ Len(s) + i \in 1 .. Len(s) + Len(t)
              /\ ~(Len(s) + i <= Len(s)) /\ Len(s) + i - Len(s) = i
    BY <2>1
  <2> QED
    BY <2>2, ConcatProperties
<1>5. /\ Sent \in Seq(Byte)
      /\ Len(Sent) = n + o + m
      /\ \A i \in 1 .. n : Sent[i] = u[i]
      /\ \A i \in 1 .. m : Sent[n + o + i] = w[i]
  <2> DEFINE uv == u \o v
  <2>1. /\ uv \in Seq(Byte) /\ Len(uv) = n + o /\ Sent = uv \o w
        /\ \A i \in 1 .. n : uv[i] = u[i]
    BY <1>3, <1>4
  <2> HIDE DEF uv
  <2>2. /\ uv \o w \in Seq(Byte) /\ Len(uv \o w) = Len(uv) + Len(w)
        /\ \A i \in 1 .. Len(uv) : (uv \o w)[i] = uv[i]
    BY <1>3, <1>4, <2>1
  <2>3. \A i \in 1 .. m : (uv \o w)[n + o + i] = w[i]
    <3>1. \A i \in 1 .. Len(w) : (uv \o w)[Len(uv) + i] = w[i]
      BY <1>3, <1>4, <2>1
    <3> QED
      BY <1>3, <2>1, <3>1
  <2>4. \A i \in 1 .. n : i \in 1 .. n + o
    OBVIOUS
  <2>5. \A i \in 1 .. n : (uv \o w)[i] = u[i]
    BY <2>1, <2>2, <2>4
  <2> QED
    BY <1>3, <2>1, <2>2, <2>3, <2>5
<1>6. n + o = WorldBlocks * BlockSize
  BY <1>1, BlockCounts, SizeAssumption
<1> QED
  BY <1>1, <1>3, <1>5, <1>6

\* A block is a stretch of the bytes sent, and ends where the next one starts.
LEMMA BlockIs ==
    ASSUME NEW k \in 1 .. BlockTotal
    PROVE  /\ BlockData(k - 1) = SubSeq(Sent, Upto(k - 1) + 1, Upto(k))
           /\ Upto(k - 1) \in 0 .. Len(Sent) /\ Upto(k) \in 0 .. Len(Sent)
           /\ Upto(k - 1) <= Upto(k)
<1>1. PICK n \in Nat : n = Len(Sent) /\ n = WorldBlocks * BlockSize + AuxSize
  BY SentIs
<1>2. /\ (k - 1) * BlockSize \in Nat /\ k * BlockSize \in Nat
      /\ (k - 1) * BlockSize <= k * BlockSize
  BY BlockCounts, SizeAssumption
<1>3. (k - 1) * BlockSize <= n
  <2>1. (k - 1) * BlockSize <= (BlockTotal - 1) * BlockSize
    BY BlockCounts, SizeAssumption
  <2>2. (BlockTotal - 1) * BlockSize \in Nat
    BY BlockCounts, SizeAssumption
  <2> QED
    BY <1>1, <1>2, <2>1, <2>2, BlockCounts
<1>4. Upto(k - 1) = (k - 1) * BlockSize
  BY <1>1, <1>2, <1>3 DEF Upto
<1>5. BlockData(k - 1) = SubSeq(Sent, (k - 1) * BlockSize + 1, Upto(k))
  <2>1. k \in Int /\ (k - 1) + 1 = k
    BY BlockCounts
  <2> QED
    BY <2>1 DEF BlockData, Sent, Upto
<1> QED
  BY <1>1, <1>2, <1>3, <1>4, <1>5 DEF Upto

\* Joining the blocks one after the other yields the bytes sent.
LEMMA BlocksJoin == FlattenSeq([k \in 1 .. BlockTotal |-> BlockData(k - 1)]) = Sent
<1> DEFINE n == BlockTotal
           seqs == [k \in 1 .. n |-> BlockData(k - 1)]
           Step(f) == [i \in 1 .. Len(seqs) |-> IF i = 1 THEN seqs[i] ELSE f[i - 1] \o seqs[i]]
           g == [k \in 1 .. n |-> SubSeq(Sent, 1, Upto(k))]
<1>1. n \in Nat \ {0} /\ Len(seqs) = n
  BY BlockCounts
<1>2. Upto(0) = 0 /\ Upto(n) = Len(Sent)
  BY BlockCounts, SentIs, SizeAssumption DEF Upto
<1>3. ASSUME NEW k \in 1 .. n
      PROVE  g[k] = IF k = 1 THEN seqs[k] ELSE g[k - 1] \o seqs[k]
  <2>1. /\ seqs[k] = SubSeq(Sent, Upto(k - 1) + 1, Upto(k))
        /\ Upto(k - 1) \in 0 .. Len(Sent) /\ Upto(k) \in 0 .. Len(Sent)
        /\ Upto(k - 1) <= Upto(k)
    BY BlockIs
  <2>2. CASE k = 1
    BY <1>2, <2>1, <2>2
  <2>3. CASE k # 1
    <3>1. k - 1 \in 1 .. n
      BY <1>1, <2>3
    <3>2. g[k - 1] = SubSeq(Sent, 1, Upto(k - 1)) /\ g[k] = SubSeq(Sent, 1, Upto(k))
      BY <3>1
    <3> HIDE DEF g, seqs
    <3>3. PICK a \in 0 .. Len(Sent), b \in 0 .. Len(Sent) :
            a = Upto(k - 1) /\ b = Upto(k) /\ a <= b
      BY <2>1
    <3>4. SubSeq(Sent, 1, a) \o SubSeq(Sent, a + 1, b) = SubSeq(Sent, 1, b)
      <4>1. Sent \in Seq(Byte) /\ Len(Sent) \in Nat
        BY SentIs
      <4>2. 1 \in 1 .. Len(Sent) + 1 /\ a \in 1 - 1 .. Len(Sent) /\ b \in a .. Len(Sent)
        BY <3>3, <4>1
      <4> QED
        BY <4>1, <4>2, ConcatAdjacentSubSeq
    <3> QED
      BY <2>1, <2>3, <3>2, <3>3, <3>4
  <2> QED
    BY <2>2, <2>3
<1>4. g = Step(g)
  BY <1>1, <1>3
<1>5. ASSUME NEW f, f = Step(f) PROVE f = g
  <2>1. /\ DOMAIN f = 1 .. n
        /\ \A k \in 1 .. n : f[k] = IF k = 1 THEN seqs[k] ELSE f[k - 1] \o seqs[k]
        /\ f = [k \in 1 .. n |-> f[k]]
    BY <1>1, <1>5
  <2> DEFINE wrong == {k \in 1 .. n : f[k] # g[k]}
  <2> HIDE DEF seqs
  <2>2. ASSUME wrong # {} PROVE FALSE
    <3>1. PICK k \in wrong : \A j \in wrong : k <= j
      <4>1. wrong \in SUBSET Nat
        BY <1>1
      <4> HIDE DEF wrong
      <4> QED
        BY <2>2, <4>1, Least
    <3>2. k \in 1 .. n /\ f[k] # g[k]
      BY <3>1
    <3>3. k # 1 => k - 1 \in 1 .. n /\ ~(k <= k - 1)
      BY <1>1, <3>2
    <3>4. k # 1 => f[k - 1] = g[k - 1]
      BY <3>1, <3>3
    <3> HIDE DEF g
    <3> QED
      BY <1>3, <2>1, <3>2, <3>4
  <2> QED
    BY <2>1, <2>2
<1>6. FlattenSeq(seqs) = g[n]
  <2>1. FlattenSeq(seqs) = (CHOOSE f : f = Step(f))[Len(seqs)]
    BY <1>1 DEF FlattenSeq
  <2>2. (CHOOSE f : f = Step(f)) = g
    <3> HIDE DEF Step, g
    <3> QED
      BY <1>4, <1>5
  <2> QED
    BY <1>1, <2>1, <2>2
<1>7. g[n] = SubSeq(Sent, 1, Len(Sent))
  BY <1>1, <1>2
<1> QED
  BY <1>6, <1>7, SentIs, SubSeqFull

\* Sorting brings the blocks into the order they were cut in, if each was
\* received once.
LEMMA BlocksSorted ==
    ASSUME NEW ids \in Seq(Block), IsInjective(ids), ToSet(ids) = Block
    PROVE  /\ DOMAIN ids = 1 .. BlockTotal
           /\ \A i \in 1 .. BlockTotal : Sorted(ids)[i] = i - 1
<1> DEFINE D == DOMAIN ids
<1>1. /\ BlockTotal \in Nat \ {0} /\ Block = 0 .. BlockTotal - 1
      /\ Len(ids) \in Nat /\ D = 1 .. Len(ids)
  BY BlockCounts
<1>2. /\ ids \in [D -> Block]
      /\ \A i, j \in D : ids[i] = ids[j] => i = j
      /\ \A b \in Block : \E i \in D : ids[i] = b
  BY DEF IsInjective, ToSet
<1>3. IsFiniteSet(D) /\ Cardinality(D) = Len(ids)
  <2>1. PICK n \in Nat : n = Len(ids) /\ D = 1 .. n
    BY <1>1
  <2>2. IsFiniteSet(1 .. n) /\ Cardinality(1 .. n) = IF 1 > n THEN 0 ELSE n - 1 + 1
    BY FS_Interval
  <2>3. Cardinality(1 .. n) = n
    BY <2>2
  <2> QED
    BY <2>1, <2>2, <2>3
<1>4. ASSUME NEW b \in Block
      PROVE  Cardinality({j \in D : ids[j] <= b}) = b + 1
  <2> DEFINE A == {j \in D : ids[j] <= b}
             f == [j \in A |-> ids[j]]
  <2>1. b \in Nat /\ 0 .. b \subseteq Block
    BY <1>1
  <2>2. f \in [A -> 0 .. b]
    BY <1>1, <1>2, <2>1
  <2>3. \A i, j \in A : f[i] = f[j] => i = j
    BY <1>2
  <2>4. \A c \in 0 .. b : \E i \in A : f[i] = c
    BY <1>2, <2>1
  <2>5. A \subseteq D
    OBVIOUS
  <2> HIDE DEF A, f
  <2>6. f \in Bijection(A, 0 .. b)
    BY <2>2, <2>3, <2>4 DEF Bijection, Injection, Surjection, IsInjective
  <2>7. IsFiniteSet(A)
    BY <1>3, <2>5, FS_Subset
  <2>8. Cardinality(0 .. b) = Cardinality(A)
    BY <2>6, <2>7, FS_Bijection DEF ExistsBijection
  <2>9. Cardinality(0 .. b) = IF 0 > b THEN 0 ELSE b - 0 + 1
    BY <2>1, FS_Interval
  <2> QED
    BY <2>1, <2>8, <2>9 DEF A
<1>5. ASSUME NEW k \in D PROVE Rank(ids, k) = ids[k] + 1
  <2>1. {j \in D : ids[j] < ids[k] \/ (ids[j] = ids[k] /\ j <= k)} = {j \in D : ids[j] <= ids[k]}
    <3>1. \A j \in D : ids[j] \in Int /\ (ids[j] = ids[k] => j = k) /\ j <= j
      BY <1>1, <1>2
    <3> HIDE DEF D
    <3>2. \A j \in D : (ids[j] < ids[k] \/ (ids[j] = ids[k] /\ j <= k)) <=> ids[j] <= ids[k]
      BY <3>1
    <3> QED
      BY <3>2
  <2>2. Rank(ids, k) = Cardinality({j \in D : ids[j] <= ids[k]})
    BY <2>1 DEF Rank
  <2> HIDE DEF D
  <2> QED
    BY <1>2, <1>4, <2>2
<1>6. D = 1 .. BlockTotal
  <2>1. BlockTotal - 1 \in Block /\ \A j \in D : ids[j] <= BlockTotal - 1
    BY <1>1, <1>2
  <2>2. {j \in D : ids[j] <= BlockTotal - 1} = D
    BY <2>1
  <2> HIDE DEF D
  <2>3. Cardinality(D) = (BlockTotal - 1) + 1
    BY <1>4, <2>1, <2>2
  <2> QED
    BY <1>1, <1>3, <2>3
<1>7. ASSUME NEW i \in D PROVE Sorted(ids)[i] = i - 1
  <2>1. i - 1 \in Block
    BY <1>1, <1>6
  <2>2. PICK k \in D : ids[k] = i - 1
    BY <1>2, <2>1
  <2>3. Rank(ids, k) = i
    BY <1>1, <1>5, <2>2
  <2>4. \A m \in D : Rank(ids, m) = i => ids[m] = i - 1
    BY <1>1, <1>2, <1>5
  <2> QED
    BY <2>3, <2>4 DEF Sorted
<1> QED
  BY <1>6, <1>7

\* transfer_world_data makes the game server's world of the blocks, if each was
\* received once.
LEMMA Assembled ==
    ASSUME NEW ids \in Seq(Block), IsInjective(ids), ToSet(ids) = Block
    PROVE  Assemble(ids) = [world |-> Bytes("world", WorldSize), aux |-> Bytes("aux", AuxSize)]
<1> DEFINE offset == WorldBlocks * BlockSize
           data == FlattenSeq([i \in DOMAIN ids |-> BlockData(Sorted(ids)[i])])
<1>1. data = Sent
  <2>1. [i \in DOMAIN ids |-> BlockData(Sorted(ids)[i])]
            = [i \in 1 .. BlockTotal |-> BlockData(i - 1)]
    BY BlocksSorted
  <2> QED
    BY <2>1, BlocksJoin
<1>2. /\ offset \in Nat /\ WorldSize <= offset /\ WorldSize \in Nat /\ AuxSize \in Nat
      /\ Len(Sent) = offset + AuxSize /\ Sent \in Seq(Byte)
  BY BlockCounts, SentIs, SizeAssumption
<1>3. SubSeq(Sent, 1, WorldSize) = Bytes("world", WorldSize)
  <2>1. \A i \in 1 .. WorldSize : Sent[i] = <<"world", i>>
    BY SentIs
  <2> QED
    BY <1>2, <2>1 DEF Bytes
<1>4. SubSeq(Sent, offset + 1, offset + AuxSize) = Bytes("aux", AuxSize)
  <2>1. \A i \in 1 .. AuxSize : Sent[offset + i] = <<"aux", i>>
    BY SentIs
  <2> HIDE DEF offset
  <2> QED
    BY <1>2, <2>1 DEF Bytes
<1>5. Assemble(ids) = IF Len(data) < offset + AuxSize THEN NoWorld
                      ELSE [world |-> SubSeq(data, 1, WorldSize),
                            aux |-> SubSeq(data, offset + 1, offset + AuxSize)]
  BY DEF Assemble
<1> HIDE DEF data, offset
<1>6. ~(Len(data) < offset + AuxSize)
  BY <1>1, <1>2
<1> QED
  BY <1>1, <1>3, <1>4, <1>5, <1>6

\* The world is assembled once, when the last block has come.
LEMMA WorldStaysIntact == WorldIntact /\ IInv' /\ [Next]_vars => WorldIntact'
<1> SUFFICES ASSUME WorldIntact, IInv', [Next]_vars, phase' = "Done"
             PROVE  world' = [world |-> Bytes("world", WorldSize), aux |-> Bytes("aux", AuxSize)]
  BY DEF WorldIntact
<1>1. ASSUME NEW b \in Block, phase = "DownloadingWorld", TakeBlock(b)
      PROVE  world' = [world |-> Bytes("world", WorldSize), aux |-> Bytes("aux", AuxSize)]
  <2>1. queue' = {} /\ inflight' = {} /\ world' = Assemble(received')
    BY <1>1 DEF TakeBlock
  <2>2. received' \in Seq(Block) /\ IsInjective(received') /\ ToSet(received') = Block
    BY <2>1 DEF IInv, TypeOK, EveryBlockAccounted
  <2> QED
    BY <2>1, <2>2, Assembled
<1>2. ASSUME phase' = phase, world' = world
      PROVE  world' = [world |-> Bytes("world", WorldSize), aux |-> Bytes("aux", AuxSize)]
  BY <1>2 DEF WorldIntact
<1>3. CASE MapReady
  BY <1>3 DEF MapReady
<1>4. CASE \E info \in BOOLEAN : Heartbeat(info)
  BY <1>2, <1>4 DEF Heartbeat
<1>5. ASSUME NEW b \in Block, ReceiveBlock(b)
      PROVE  world' = [world |-> Bytes("world", WorldSize), aux |-> Bytes("aux", AuxSize)]
  <2>1. CASE phase = "DownloadingWorld"
    BY <1>1, <1>5, <2>1 DEF ReceiveBlock
  <2>2. CASE phase # "DownloadingWorld"
    BY <1>2, <1>5, <2>2 DEF ReceiveBlock, PassBlock, download
  <2> QED
    BY <2>1, <2>2
<1>6. CASE \/ \E b \in Block : Serve(b)
           \/ Lose
           \/ BlockTimeout
           \/ FilterTimeout
           \/ UNCHANGED vars
  BY <1>2, <1>6 DEF Serve, Lose, BlockTimeout, FilterTimeout, vars, download
<1> QED
  BY <1>3, <1>4, <1>5, <1>6 DEF Next

\* Whatever order the blocks come in and however often, the world and the
\* auxiliary data handed to deconstruct_world are the game server's, for every
\* size of either and every block size (transfer_world_data).
THEOREM WorldAssembled == Spec => []WorldIntact
<1>1. Init => WorldIntact
  BY DEF Init, WorldIntact
<1> QED
  BY <1>1, WorldStaysIntact, InductiveInvariant, PTL DEF Spec
=============================================================================
