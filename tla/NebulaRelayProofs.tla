-------------------------- MODULE NebulaRelayProofs --------------------------
(***************************************************************************)
(* For every number of peers, every script of the game server, every       *)
(* capacity of the channel and every number of faults: the accept loop     *)
(* never meets an unknown id, every dedup stream reaches the task of the   *)
(* peer that opened it, and the game clients receive valid frames.  The    *)
(* messages of a game server reach its game client whole and in order,     *)
(* those that were copied frame by frame and those that went around the    *)
(* stream as a deduplicated packet.                                        *)
(*                                                                         *)
(* For the messages, the invariant AllIntact adds up what is under way to  *)
(* one game client: what its web socket has received, then the packet      *)
(* being written to it, then the frames on the stream, with each indicator *)
(* standing for the packet of the server task, then the packet being       *)
(* collected and the frames still to come.  In that order they make what   *)
(* the game server sent (Whole).  An indicator stands for one packet only  *)
(* because the next one is not announced before the last is forwarded      *)
(* (OneAtATime) and because the stream that carries its chunks is the one  *)
(* that reconstruct_packet waits on (Awaited).                             *)
(***************************************************************************)
EXTENDS NebulaRelay, TLAPS

\* The id is pending, for the task of peer p.
Pends(id, p) == id \in DOMAIN pending_dedup_streams /\ pending_dedup_streams[id] = p

IsIndicator(p, i) == i \in DOMAIN ws[p] /\ ws[p][i].op = "indicator"

\* An id on its way back to the server proxy, in an indicator, with
\* reconstruct_packet or on a stream, is pending.
AllPending ==
    /\ \A p \in Peer : \A i \in DOMAIN ws[p] : IsIndicator(p, i) => Pends(ws[p][i].id, p)
    /\ \A p \in Peer : rec[p].at = "open" => Pends(rec[p].id, p)
    /\ \A i \in DOMAIN streams : streams[i].id \notin First => Pends(streams[i].id, streams[i].peer)

\* Streams of one peer with the same id, or its first stream both.
Alike(s, t) == s.peer = t.peer /\ (s.id = t.id \/ (s.id \in First /\ t.id \in First))

\* It is on its way only once.
OnWayOnce ==
    /\ \A p \in Peer : \A i, j \in DOMAIN ws[p] :
          IsIndicator(p, i) /\ IsIndicator(p, j) /\ ws[p][i].id = ws[p][j].id => i = j
    /\ \A p \in Peer : \A i \in DOMAIN ws[p] :
          rec[p].at = "open" /\ IsIndicator(p, i) => ws[p][i].id # rec[p].id
    /\ \A p \in Peer : \A i \in DOMAIN streams : rec[p].at = "open" => streams[i].id # rec[p].id
    /\ \A p \in Peer : \A i \in DOMAIN ws[p], j \in DOMAIN streams :
          IsIndicator(p, i) => streams[j].id # ws[p][i].id
    /\ \A i, j \in DOMAIN streams : Alike(streams[i], streams[j]) => i = j

\* A peer has one server task, which its first stream starts.
StartsOnce ==
    /\ \A i \in DOMAIN streams : streams[i].id \in First =>
          srv[streams[i].peer].at = "off" /\ cli[streams[i].peer].at # "off"
    /\ \A i \in DOMAIN streams : streams[i].id = Empty => cli[streams[i].peer].at = "silent"
    /\ \A p \in Peer : cli[p].at = "off" => srv[p].at = "off"

\* The accept loop has ended only because a first stream had no id.
Accepting == accepting \/ \E p \in Peer : cli[p].at = "silent"

Matching ==
    /\ next_id >= 1 /\ DOMAIN pending_dedup_streams \subseteq 1 .. next_id - 1
    /\ Accepting
    /\ \A p \in Peer : srv[p].to = p
    /\ AllPending
    /\ OnWayOnce
    /\ StartsOnce

-----------------------------------------------------------------------------
\* On a peer's stream, a message is under way or none.
Carry == {"none", "message"}

Carrying(g) == IF g.open THEN "message" ELSE "none"

\* A frame on the stream, with what is under way before it (a) and after it (b).
Relays(a, f, b) ==
    \/ f.op = "control" /\ b = a
    \/ f.op = "indicator" /\ a = "none" /\ b = "none"
    \/ /\ f.op \in {"binary", "continuation"}
       /\ a = IF f.op = "continuation" THEN "message" ELSE "none"
       /\ b = IF f.fin THEN "none" ELSE "message"

Wire == {e \in Carry \X StreamFrame \X Carry : Relays(e[1], e[2], e[3])}

\* What is under way on the game server's web socket (x) and on the peer's
\* stream (b), by where the server task is.
Expected(at, x, b) ==
    CASE at = "copy" -> x # "large" /\ b = IF x = "message" THEN "message" ELSE "none"
      [] at = "gather" -> x = "large" /\ b = "none"
      [] at = "ended" -> TRUE
      [] OTHER -> x = "nothing" /\ b = "none"

\* While fragments are forwarded, the message under way is theirs.
Forwarded(c, g) ==
    c.at = "forward" => g.open = ~c.first_frame /\ (c.first_frame \/ c.last_bytes # <<>>)

\* What is under way at the game client once the fragments are forwarded.
Resumes(c, g) == IF c.at = "forward" THEN "none" ELSE Carrying(g)

\* The frames not yet read and the frames on the stream fit where the server
\* task and the client task are.
Fits(at, c, w, inc, g) ==
    c.at # "ended" =>
        \E x, y \in Under, b \in Carry :
            /\ Leads(Follows, Under, inc, x, y)
            /\ Leads(Wire, Carry, w, Resumes(c, g), b)
            /\ Expected(at, x, b)

Shape(at, c, w, inc, g, fr) ==
    /\ g.valid
    /\ \A i \in DOMAIN fr : fr[i] # <<>>
    /\ Forwarded(c, g)
    /\ Fits(at, c, w, inc, g)

Shaped(p) == Shape(srv[p].at, cli[p], ws[p], incoming[p], game[p], fragments[p])

IInv == TypeOK /\ Matching /\ \A p \in Peer : Shaped(p)

-----------------------------------------------------------------------------
(* Sequences of frames. *)

LEMMA Measured ==
    ASSUME NEW S, NEW t \in Seq(S)
    PROVE  Len(t) \in Nat /\ DOMAIN t = 1 .. Len(t)
OBVIOUS

LEMMA Appended ==
    ASSUME NEW S, NEW t \in Seq(S), NEW e \in S, NEW n \in Nat, n = Len(t)
    PROVE  /\ DOMAIN t = 1 .. n /\ DOMAIN Append(t, e) = 1 .. (n + 1)
           /\ Append(t, e)[n + 1] = e /\ \A i \in 1 .. n : Append(t, e)[i] = t[i]
OBVIOUS

LEMMA Parted ==
    ASSUME NEW S, NEW t \in Seq(S), t # <<>>
    PROVE  /\ Head(t) \in S /\ Head(t) = t[1] /\ 1 \in DOMAIN t
           /\ Tail(t) \in Seq(S)
           /\ \A i \in DOMAIN Tail(t) : i + 1 \in DOMAIN t /\ Tail(t)[i] = t[i + 1]
OBVIOUS

(* What there is before the first frame. *)
LEMMA NothingYet ==
    /\ DOMAIN <<>> = {}
    /\ \A S : <<>> \in [{} -> S]
    /\ NoMessages.valid /\ Carrying(NoMessages) = "none"
<1>1. DOMAIN <<>> = {} /\ \A S : <<>> \in [{} -> S]
      OBVIOUS
<1> QED BY <1>1 DEF NoMessages, Carrying

LEMMA LeadsNowhere ==
    ASSUME NEW R, NEW S, NEW a \in S
    PROVE  Leads(R, S, <<>>, a, a)
<1> DEFINE w == [i \in 0 .. 0 |-> a]
<1>1. w \in [0 .. 0 -> S] /\ w[0] = a
      OBVIOUS
<1>2. Len(<<>>) = 0 /\ 1 .. 0 = {}
      OBVIOUS
<1> HIDE DEF w
<1> QED BY <1>1, <1>2 DEF Leads

LEMMA LeadsNowhereElse ==
    ASSUME NEW R, NEW S, NEW a, NEW b, Leads(R, S, <<>>, a, b)
    PROVE  a = b
<1>1. Len(<<>>) = 0
      OBVIOUS
<1> QED BY <1>1 DEF Leads

(* The first frame is taken off. *)
LEMMA LeadsOn ==
    ASSUME NEW R, NEW S, NEW E, NEW s \in Seq(E), s # <<>>, NEW a, NEW b, Leads(R, S, s, a, b)
    PROVE  \E c \in S : <<a, Head(s), c>> \in R /\ Leads(R, S, Tail(s), c, b)
<1>1. PICK w \in [0 .. Len(s) -> S] :
          /\ w[0] = a
          /\ w[Len(s)] = b
          /\ \A i \in 1 .. Len(s) : <<w[i - 1], s[i], w[i]>> \in R
      BY DEF Leads
<1> DEFINE n == Len(s) - 1
           v == [i \in 0 .. n |-> w[i + 1]]
<1>2. Len(s) \in Nat /\ Len(s) >= 1 /\ Len(Tail(s)) = n /\ Head(s) = s[1]
      OBVIOUS
<1>3. \A i \in 1 .. n : Tail(s)[i] = s[i + 1]
      BY <1>2
<1>4. v \in [0 .. n -> S] /\ v[0] = w[1] /\ v[n] = b
      BY <1>1, <1>2
<1>5. ASSUME NEW i \in 1 .. n PROVE <<v[i - 1], Tail(s)[i], v[i]>> \in R
  <2>1. i + 1 \in 1 .. Len(s) /\ (i + 1) - 1 = i /\ i - 1 \in 0 .. n /\ i \in 0 .. n
        BY <1>2
  <2>2. v[i - 1] = w[i] /\ v[i] = w[i + 1]
        BY <2>1
  <2>3. <<w[(i + 1) - 1], s[i + 1], w[i + 1]>> \in R
        BY <1>1, <2>1
  <2> QED BY <1>3, <2>1, <2>2, <2>3
<1>6. <<a, Head(s), w[1]>> \in R /\ w[1] \in S
      BY <1>1, <1>2
<1> HIDE DEF v
<1>7. Leads(R, S, Tail(s), w[1], b)
      BY <1>2, <1>4, <1>5, ZenonT(60) DEF Leads
<1> QED BY <1>6, <1>7, ZenonT(60)

(* A frame is added. *)
LEMMA LeadsFurther ==
    ASSUME NEW R, NEW S, NEW E, NEW s \in Seq(E), NEW f \in E, NEW a, NEW b, NEW c \in S,
           Leads(R, S, s, a, b), <<b, f, c>> \in R
    PROVE  Leads(R, S, Append(s, f), a, c)
<1>1. PICK w \in [0 .. Len(s) -> S] :
          /\ w[0] = a
          /\ w[Len(s)] = b
          /\ \A i \in 1 .. Len(s) : <<w[i - 1], s[i], w[i]>> \in R
      BY DEF Leads
<1> DEFINE n == Len(s) + 1
           v == [i \in 0 .. n |-> IF i = n THEN c ELSE w[i]]
<1>2. Len(s) \in Nat /\ Len(Append(s, f)) = n /\ Append(s, f)[n] = f
      OBVIOUS
<1>3. v \in [0 .. n -> S] /\ v[0] = a /\ v[n] = c
      BY <1>1, <1>2
<1>4. ASSUME NEW i \in 1 .. n PROVE <<v[i - 1], Append(s, f)[i], v[i]>> \in R
  <2>1. CASE i = n
    <3>1. v[i - 1] = b
          BY <1>1, <1>2, <2>1
    <3> QED BY <1>2, <1>3, <2>1, <3>1, ZenonT(60)
  <2>2. CASE i # n
    <3>1. i \in 1 .. Len(s) /\ i - 1 \in 0 .. Len(s)
          BY <1>2, <2>2
    <3>2. v[i - 1] = w[i - 1] /\ v[i] = w[i] /\ Append(s, f)[i] = s[i]
          BY <1>2, <2>2, <3>1
    <3> QED BY <1>1, <3>1, <3>2
  <2> QED BY <2>1, <2>2, ZenonT(60)
<1> HIDE DEF v
<1> QED BY <1>2, <1>3, <1>4 DEF Leads

-----------------------------------------------------------------------------
(* Steps that do not touch the ids. *)

\* The indicators on the streams are those that were there, in their order.
NoNewIndicator ==
    \A p \in Peer : \E k \in 0 .. 1 : \A i \in DOMAIN ws'[p] :
        ws'[p][i].op = "indicator" => i + k \in DOMAIN ws[p] /\ ws[p][i + k] = ws'[p][i]

Quiet ==
    /\ UNCHANGED <<pending_dedup_streams, next_id, accepting, streams>>
    /\ \A p \in Peer : srv'[p].to = srv[p].to /\ (srv'[p].at = "off" <=> srv[p].at = "off")
    /\ \A p \in Peer : /\ cli'[p].at = "off" <=> cli[p].at = "off"
                       /\ cli[p].at = "silent" => cli'[p].at = "silent"
    /\ \A p \in Peer : rec'[p] = rec[p] \/ rec'[p].at # "open"
    /\ NoNewIndicator

LEMMA QuietMatches ==
    ASSUME TypeOK, TypeOK', Matching, Quiet
    PROVE  Matching'
<1>1. ASSUME NEW p \in Peer
      PROVE  \E k \in 0 .. 1 : \A i \in DOMAIN ws'[p] :
                /\ i \in Int
                /\ IsIndicator(p, i)' => IsIndicator(p, i + k) /\ ws[p][i + k] = ws'[p][i]
  <2>1. PICK k \in 0 .. 1 : \A i \in DOMAIN ws'[p] :
            ws'[p][i].op = "indicator" => i + k \in DOMAIN ws[p] /\ ws[p][i + k] = ws'[p][i]
        BY DEF Quiet, NoNewIndicator
  <2>2. ws'[p] \in Seq(StreamFrame)
        BY DEF TypeOK
  <2>3. \A i \in DOMAIN ws'[p] : i \in Int
        BY <2>2
  <2> QED BY <2>1, <2>3 DEF IsIndicator
<1>2. /\ pending_dedup_streams' = pending_dedup_streams /\ next_id' = next_id
      /\ accepting' = accepting /\ streams' = streams
      BY DEF Quiet
<1>3. ASSUME NEW p \in Peer PROVE rec'[p].at = "open" => rec'[p] = rec[p]
      BY DEF Quiet
<1>4. AllPending'
  <2>1. ASSUME NEW p \in Peer, NEW i \in DOMAIN ws'[p], IsIndicator(p, i)'
        PROVE  Pends(ws'[p][i].id, p)
    <3>1. PICK k \in 0 .. 1 : IsIndicator(p, i + k) /\ ws[p][i + k] = ws'[p][i]
          BY <1>1, <2>1
    <3>2. i + k \in DOMAIN ws[p]
          BY <3>1 DEF IsIndicator
    <3> QED BY <3>1, <3>2 DEF Matching, AllPending
  <2>2. ASSUME NEW p \in Peer, rec'[p].at = "open" PROVE Pends(rec'[p].id, p)
        BY <1>3, <2>2 DEF Matching, AllPending
  <2>3. \A i \in DOMAIN streams : streams[i].id \notin First => Pends(streams[i].id, streams[i].peer)
        BY DEF Matching, AllPending
  <2> QED BY <1>2, <2>1, <2>2, <2>3 DEF AllPending, Pends
<1>5. OnWayOnce'
  <2>1. ASSUME NEW p \in Peer, NEW i \in DOMAIN ws'[p], NEW j \in DOMAIN ws'[p],
               IsIndicator(p, i)', IsIndicator(p, j)', ws'[p][i].id = ws'[p][j].id
        PROVE  i = j
    <3>1. PICK k \in 0 .. 1 :
              /\ i \in Int /\ j \in Int
              /\ IsIndicator(p, i + k) /\ ws[p][i + k] = ws'[p][i]
              /\ IsIndicator(p, j + k) /\ ws[p][j + k] = ws'[p][j]
          BY <1>1, <2>1
    <3>2. i + k \in DOMAIN ws[p] /\ j + k \in DOMAIN ws[p]
          BY <3>1 DEF IsIndicator
    <3>3. i + k = j + k
          BY <2>1, <3>1, <3>2 DEF Matching, OnWayOnce
    <3> QED BY <3>1, <3>3
  <2>2. ASSUME NEW p \in Peer, NEW i \in DOMAIN ws'[p], IsIndicator(p, i)'
        PROVE  /\ rec'[p].at = "open" => ws'[p][i].id # rec'[p].id
               /\ \A j \in DOMAIN streams : streams[j].id # ws'[p][i].id
    <3>1. PICK k \in 0 .. 1 : IsIndicator(p, i + k) /\ ws[p][i + k] = ws'[p][i]
          BY <1>1, <2>2
    <3>2. i + k \in DOMAIN ws[p]
          BY <3>1 DEF IsIndicator
    <3> QED BY <1>3, <3>1, <3>2 DEF Matching, OnWayOnce
  <2>3. ASSUME NEW p \in Peer, NEW i \in DOMAIN streams, rec'[p].at = "open"
        PROVE  streams[i].id # rec'[p].id
        BY <1>3, <2>3 DEF Matching, OnWayOnce
  <2>4. \A i, j \in DOMAIN streams : Alike(streams[i], streams[j]) => i = j
        BY DEF Matching, OnWayOnce
  <2> QED BY <1>2, <2>1, <2>2, <2>3, <2>4 DEF OnWayOnce
<1>6. StartsOnce'
  <2>1. streams \in Seq(Stream)
        BY DEF TypeOK
  <2>2. \A i \in DOMAIN streams : streams[i] \in Stream
        BY <2>1
  <2>3. \A i \in DOMAIN streams : streams[i].peer \in Peer
        BY <2>2 DEF Stream
  <2> QED BY <1>2, <2>3 DEF Matching, StartsOnce, Quiet
<1>7. (\A p \in Peer : srv'[p].to = p) /\ Accepting'
      BY DEF Matching, Accepting, Quiet
<1> QED BY <1>2, <1>4, <1>5, <1>6, <1>7 DEF Matching

-----------------------------------------------------------------------------
(* The frames of one peer. *)

\* A server task that was at at and read f may be at next, having written f or
\* nothing.
Reads(at, f, next, writes) ==
    \A x, y \in Under, b \in Carry :
        Expected(at, x, b) /\ <<x, f, y>> \in Follows =>
            IF writes THEN \E d \in Carry : <<b, f, d>> \in Wire /\ Expected(next, y, d)
                      ELSE Expected(next, y, b)

LEMMA ReadsWell ==
    ASSUME NEW f \in WsFrame
    PROVE  /\ ~(f.op = "binary" /\ f.large) => Reads("copy", f, "copy", TRUE)
           /\ f.op = "binary" /\ f.large =>
                 Reads("copy", f, IF f.fin THEN "gathered" ELSE "gather", FALSE)
           /\ f.op = "continuation" =>
                 Reads("gather", f, IF f.fin THEN "gathered" ELSE "gather", FALSE)
           /\ f.op = "binary" => Reads("gather", f, "copy", TRUE)
           /\ f.op = "control" => Reads("gather", f, "gather", TRUE)
<1>1. f \in StreamFrame /\ f.fin \in BOOLEAN /\ f.large \in BOOLEAN
      /\ f.op \in {"binary", "continuation", "control"}
      BY DEF StreamFrame, WsFrame
<1>2. \A x, y : <<x, f, y>> \in Follows <=> x \in Under /\ y \in Under /\ Follow(x, f, y)
      BY DEF Follows
<1>3. \A b, d \in Carry : <<b, f, d>> \in Wire <=> Relays(b, f, d)
      BY <1>1 DEF Wire
<1>4. ASSUME ~(f.op = "binary" /\ f.large) PROVE Reads("copy", f, "copy", TRUE)
  <2> SUFFICES ASSUME NEW x \in Under, NEW y \in Under, NEW b \in Carry,
                      Expected("copy", x, b), <<x, f, y>> \in Follows
               PROVE  \E d \in Carry : <<b, f, d>> \in Wire /\ Expected("copy", y, d)
      BY ZenonT(60) DEF Reads
  <2>1. x # "large" /\ b = IF x = "message" THEN "message" ELSE "none"
        BY DEF Expected
  <2>2. y # "large"
        BY <1>1, <1>2, <1>4, <2>1 DEF Follow, Under
  <2> DEFINE d == IF y = "message" THEN "message" ELSE "none"
  <2>3. Relays(b, f, d)
        BY <1>1, <1>2, <1>4, <2>1 DEF Follow, Relays, Under
  <2>4. Expected("copy", y, d) /\ d \in Carry
        BY <2>2 DEF Expected, Carry
  <2> QED BY <1>3, <2>3, <2>4
<1>5. ASSUME f.op = "binary", f.large
      PROVE  Reads("copy", f, IF f.fin THEN "gathered" ELSE "gather", FALSE)
      BY <1>1, <1>2, <1>5 DEF Reads, Follow, Expected, Under
<1>6. ASSUME f.op = "continuation"
      PROVE  Reads("gather", f, IF f.fin THEN "gathered" ELSE "gather", FALSE)
      BY <1>1, <1>2, <1>6 DEF Reads, Follow, Expected, Under
<1>7. ASSUME f.op = "binary" PROVE Reads("gather", f, "copy", TRUE)
      BY <1>1, <1>2, <1>3, <1>7 DEF Reads, Follow, Relays, Expected, Under, Carry
<1>8. ASSUME f.op = "control" PROVE Reads("gather", f, "gather", TRUE)
      BY <1>1, <1>2, <1>3, <1>8 DEF Reads, Follow, Relays, Expected, Under, Carry
<1> QED BY <1>4, <1>5, <1>6, <1>7, <1>8, ZenonT(60)

LEMMA ShapeReads ==
    ASSUME NEW at, NEW next, NEW writes \in BOOLEAN, NEW c, NEW w \in Seq(StreamFrame),
           NEW inc \in Seq(WsFrame), inc # <<>>, NEW g, NEW fr,
           Shape(at, c, w, inc, g, fr), Reads(at, Head(inc), next, writes)
    PROVE  Shape(next, c, IF writes THEN Append(w, Head(inc)) ELSE w, Tail(inc), g, fr)
<1> DEFINE now == Resumes(c, g)
           v == IF writes THEN Append(w, Head(inc)) ELSE w
<1> SUFFICES ASSUME c.at # "ended" PROVE Fits(next, c, v, Tail(inc), g)
    BY DEF Shape, Fits
<1>1. PICK x \in Under, z \in Under, b \in Carry :
          Leads(Follows, Under, inc, x, z) /\ Leads(Wire, Carry, w, now, b) /\ Expected(at, x, b)
      BY DEF Shape, Fits
<1>2. PICK y \in Under : <<x, Head(inc), y>> \in Follows /\ Leads(Follows, Under, Tail(inc), y, z)
      BY <1>1, LeadsOn, ZenonT(60)
<1> HIDE DEF now
<1>3. \E d \in Carry : Leads(Wire, Carry, v, now, d) /\ Expected(next, y, d)
  <2>1. CASE writes
    <3>1. PICK d \in Carry : <<b, Head(inc), d>> \in Wire /\ Expected(next, y, d)
          BY <1>1, <1>2, <2>1, ZenonT(60) DEF Reads
    <3>2. Head(inc) \in StreamFrame
          BY DEF StreamFrame
    <3>3. Leads(Wire, Carry, Append(w, Head(inc)), now, d)
          BY <1>1, <3>1, <3>2, LeadsFurther
    <3> QED BY <2>1, <3>1, <3>3
  <2>2. CASE ~writes
        BY <1>1, <1>2, <2>2 DEF Reads
  <2> QED BY <2>1, <2>2
<1> HIDE DEF v
<1> QED BY <1>2, <1>3 DEF Fits, now

(* The server task goes on without a frame. *)
LEMMA ShapeGoesOn ==
    ASSUME NEW at, NEW next, NEW c, NEW w, NEW inc, NEW g, NEW fr,
           Shape(at, c, w, inc, g, fr),
           \A x \in Under, b \in Carry : Expected(at, x, b) => Expected(next, x, b)
    PROVE  Shape(next, c, w, inc, g, fr)
BY DEF Shape, Fits

(* The client task is gone: nothing the server writes matters. *)
LEMMA ShapeGone ==
    ASSUME NEW at, NEW next, NEW c, c.at = "ended", NEW w, NEW v, NEW inc, NEW more,
           NEW g, NEW fr, Shape(at, c, w, inc, g, fr)
    PROVE  Shape(next, c, v, more, g, fr)
BY DEF Shape, Fits, Forwarded

(* The indicator is sent between messages. *)
LEMMA ShapeAnnounces ==
    ASSUME NEW c, NEW w \in Seq(StreamFrame), NEW inc, NEW g, NEW fr, NEW id \in Nat,
           Shape("gathered", c, w, inc, g, fr)
    PROVE  Shape("wait", c, Append(w, Indicator(id)), inc, g, fr)
<1> DEFINE now == Resumes(c, g)
           v == Append(w, Indicator(id))
<1> SUFFICES ASSUME c.at # "ended" PROVE Fits("wait", c, v, inc, g)
    BY DEF Shape, Fits
<1>1. PICK x \in Under, z \in Under, b \in Carry :
          Leads(Follows, Under, inc, x, z) /\ Leads(Wire, Carry, w, now, b) /\ Expected("gathered", x, b)
      BY DEF Shape, Fits
<1>2. b = "none" /\ Expected("wait", x, "none")
      BY <1>1 DEF Expected
<1>3. Indicator(id) \in StreamFrame /\ <<"none", Indicator(id), "none">> \in Wire
  <2>1. Indicator(id) \in StreamFrame /\ Indicator(id).op = "indicator"
        BY DEF Indicator, StreamFrame
  <2> QED BY <2>1 DEF Wire, Relays, Carry
<1> HIDE DEF now
<1>4. Leads(Wire, Carry, v, now, "none")
      BY <1>1, <1>2, <1>3, LeadsFurther
<1> HIDE DEF v
<1> QED BY <1>1, <1>2, <1>4 DEF Fits, now

(* A frame reaches the game client. *)
LEMMA ReceiveFits ==
    ASSUME NEW g \in Messages, NEW f \in WsFrame, NEW b, g.valid, Relays(Carrying(g), f, b)
    PROVE  /\ Receive(g, f) \in Messages
           /\ Receive(g, f).valid
           /\ Carrying(Receive(g, f)) = b
<1>1. /\ f.op \in {"binary", "continuation", "control"} /\ f.fin \in BOOLEAN
      /\ f.data \in Seq(Piece)
      BY DEF WsFrame
<1>2. g.got \in Seq(Seq(Piece)) /\ g.open \in BOOLEAN /\ g.data \in Seq(Piece) /\ g.valid \in BOOLEAN
      BY DEF Messages
<1>3. CASE f.op = "control"
      BY <1>3 DEF Receive, Relays
<1>4. CASE f.op # "control"
  <2>1. PICK d \in Seq(Piece) : d = IF f.op = "binary" THEN f.data ELSE g.data \o f.data
    <3>1. g.data \o f.data \in Seq(Piece)
          BY <1>1, <1>2
    <3> QED BY <1>1, <3>1, ZenonT(60)
  <2>2. Receive(g, f) =
            [got   |-> IF f.fin THEN Append(g.got, d) ELSE g.got,
             open  |-> ~f.fin,
             data  |-> IF f.fin THEN <<>> ELSE d,
             valid |-> g.valid /\ (g.open <=> f.op = "continuation")]
        BY <1>4, <2>1 DEF Receive
  <2>3. Append(g.got, d) \in Seq(Seq(Piece)) /\ <<>> \in Seq(Piece)
        BY <1>2
  <2>4. b = (IF f.fin THEN "none" ELSE "message") /\ (g.open <=> f.op = "continuation")
        BY <1>1, <1>4 DEF Relays, Carrying
  <2>5. Receive(g, f).open = ~f.fin /\ Receive(g, f).valid
    <3>1. Receive(g, f).open = ~f.fin
          BY <2>2
    <3>2. Receive(g, f).valid = (g.valid /\ (g.open <=> f.op = "continuation"))
          BY <2>2
    <3> QED BY <2>4, <3>1, <3>2, ZenonT(60)
  <2>6. Receive(g, f) \in Messages
        BY <1>1, <1>2, <2>2, <2>3 DEF Messages
  <2> QED BY <2>4, <2>5, <2>6, ZenonT(60) DEF Carrying
<1> QED BY <1>3, <1>4

(* The client task reads a frame: it relays it, or it starts to forward. *)
LEMMA ShapeClientReads ==
    ASSUME NEW at, NEW c, c.at = "copy", NEW w \in Seq(StreamFrame), w # <<>>,
           NEW inc, NEW g \in Messages, NEW fr, Shape(at, c, w, inc, g, fr)
    PROVE  /\ Head(w).op = "indicator" =>
                 Shape(at, [at |-> "forward", first_frame |-> TRUE, last_bytes |-> <<>>],
                       Tail(w), inc, g, fr)
           /\ Head(w).op # "indicator" =>
                 /\ Receive(g, Head(w)) \in Messages
                 /\ Shape(at, c, Tail(w), inc, Receive(g, Head(w)), fr)
<1>1. PICK x \in Under, z \in Under, b \in Carry :
          Leads(Follows, Under, inc, x, z) /\ Leads(Wire, Carry, w, Carrying(g), b) /\ Expected(at, x, b)
      BY DEF Shape, Fits, Resumes
<1>2. PICK d \in Carry : <<Carrying(g), Head(w), d>> \in Wire /\ Leads(Wire, Carry, Tail(w), d, b)
      BY <1>1, LeadsOn, ZenonT(60)
<1>3. Relays(Carrying(g), Head(w), d) /\ Head(w) \in StreamFrame
      BY <1>2 DEF Wire
<1>4. ASSUME Head(w).op = "indicator"
      PROVE  Shape(at, [at |-> "forward", first_frame |-> TRUE, last_bytes |-> <<>>],
                   Tail(w), inc, g, fr)
  <2>1. PICK v : v = [at |-> "forward", first_frame |-> TRUE, last_bytes |-> <<>>]
        BY ZenonT(60)
  <2>2. v.at = "forward" /\ v.first_frame = TRUE
        BY <2>1
  <2>3. ~g.open /\ d = "none" /\ g.open \in BOOLEAN
        BY <1>3, <1>4 DEF Relays, Carrying, Messages
  <2>4. Forwarded(v, g)
        BY <2>2, <2>3 DEF Forwarded
  <2>5. Fits(at, v, Tail(w), inc, g)
    <3>1. Resumes(v, g) = d
          BY <2>2, <2>3 DEF Resumes
    <3> QED BY <1>1, <1>2, <3>1 DEF Fits
  <2> QED BY <2>1, <2>4, <2>5 DEF Shape
<1>5. ASSUME Head(w).op # "indicator"
      PROVE  Receive(g, Head(w)) \in Messages /\ Shape(at, c, Tail(w), inc, Receive(g, Head(w)), fr)
  <2>1. Head(w) \in WsFrame
        BY <1>3, <1>5 DEF StreamFrame
  <2>2. PICK h \in Messages : h = Receive(g, Head(w)) /\ h.valid /\ Carrying(h) = d
        BY <1>3, <2>1, ReceiveFits DEF Shape
  <2>3. Fits(at, c, Tail(w), inc, h)
    <3>1. Resumes(c, h) = d
          BY <2>2 DEF Resumes
    <3> QED BY <1>1, <1>2, <3>1 DEF Fits
  <2> QED BY <2>2, <2>3 DEF Shape, Forwarded
<1> QED BY <1>4, <1>5

-----------------------------------------------------------------------------
(* What one task does to its own peer. *)

ServerActs(p, s, w, inc) ==
    /\ srv' = [srv EXCEPT ![p] = s]
    /\ ws' = [ws EXCEPT ![p] = w]
    /\ incoming' = [incoming EXCEPT ![p] = inc]
    /\ faults' \in 0 .. MaxFaults
    /\ UNCHANGED <<pending_dedup_streams, next_id, accepting, client, streams>>

ClientActs(p, c, r, fr, g, w) ==
    /\ cli' = [cli EXCEPT ![p] = c]
    /\ rec' = [rec EXCEPT ![p] = r]
    /\ fragments' = [fragments EXCEPT ![p] = fr]
    /\ game' = [game EXCEPT ![p] = g]
    /\ ws' = [ws EXCEPT ![p] = w]
    /\ faults' \in 0 .. MaxFaults
    /\ spoiled' \subseteq Peer
    /\ UNCHANGED <<server, streams>>

\* The indicators of w are those of v, after its first k frames.
Shifted(v, w, k) ==
    \A i \in DOMAIN w : w[i].op = "indicator" => i + k \in DOMAIN v /\ v[i + k] = w[i]

LEMMA ServerActed ==
    ASSUME IInv, NEW p \in Peer, NEW s \in ServerTask, NEW w \in Seq(StreamFrame),
           NEW inc \in Seq(WsFrame), ServerActs(p, s, w, inc), s.to = p,
           s.at # "off", srv[p].at # "off", Shifted(ws[p], w, 0),
           Shape(s.at, cli[p], w, inc, game[p], fragments[p])
    PROVE  IInv'
<1>1. TypeOK'
  <2>1. srv' \in [Peer -> ServerTask] /\ ws' \in [Peer -> Seq(StreamFrame)]
        /\ incoming' \in [Peer -> Seq(WsFrame)]
        BY ZenonT(60) DEF ServerActs, IInv, TypeOK
  <2> QED BY <2>1, ZenonT(60) DEF ServerActs, client, IInv, TypeOK
<1>2. Quiet
  <2>1. srv \in [Peer -> ServerTask] /\ ws \in [Peer -> Seq(StreamFrame)] /\ \A q \in Peer : srv[q].to = q
        BY ZenonT(60) DEF IInv, TypeOK, Matching
  <2>2. \A q \in Peer : srv'[q].to = srv[q].to /\ (srv'[q].at = "off" <=> srv[q].at = "off")
        BY <2>1 DEF ServerActs
  <2>3. NoNewIndicator
    <3> SUFFICES ASSUME NEW q \in Peer PROVE Shifted(ws[q], ws'[q], 0)
        BY DEF NoNewIndicator, Shifted
    <3>1. CASE q = p
          BY <2>1, <3>1 DEF ServerActs
    <3>2. CASE q # p
      <4>1. ws'[q] = ws[q] /\ \A i \in DOMAIN ws[q] : i + 0 = i
            BY <2>1, <3>2 DEF ServerActs
      <4> QED BY <4>1 DEF Shifted
    <3> QED BY <3>1, <3>2
  <2> QED BY <2>2, <2>3 DEF Quiet, ServerActs, client
<1>3. Matching'
      BY <1>1, <1>2, QuietMatches DEF IInv
<1>4. ASSUME NEW q \in Peer PROVE Shaped(q)'
  <2>1. /\ srv'[q] = (IF q = p THEN s ELSE srv[q])
        /\ ws'[q] = (IF q = p THEN w ELSE ws[q])
        /\ incoming'[q] = (IF q = p THEN inc ELSE incoming[q])
        BY DEF ServerActs, IInv, TypeOK
  <2>2. cli' = cli /\ game' = game /\ fragments' = fragments
        BY DEF ServerActs, client
  <2>3. Shape(srv'[q].at, cli[q], ws'[q], incoming'[q], game[q], fragments[q])
        BY <2>1 DEF IInv, Shaped
  <2> QED BY <2>2, <2>3 DEF Shaped
<1> QED BY <1>1, <1>3, <1>4 DEF IInv

LEMMA ClientShaped ==
    ASSUME IInv, NEW p \in Peer, NEW c \in ClientTask, NEW r \in Reconstruction,
           NEW fr \in Seq(Seq(Piece)), NEW g \in Messages, NEW w \in Seq(StreamFrame),
           ClientActs(p, c, r, fr, g, w), Len(fr) <= Capacity,
           Shape(srv[p].at, c, w, incoming[p], g, fr)
    PROVE  TypeOK' /\ \A q \in Peer : Shaped(q)'
<1>1. TypeOK'
  <2>1. cli' \in [Peer -> ClientTask] /\ rec' \in [Peer -> Reconstruction]
        /\ game' \in [Peer -> Messages] /\ ws' \in [Peer -> Seq(StreamFrame)]
        BY DEF ClientActs, IInv, TypeOK
  <2>2. fragments' \in [Peer -> Seq(Seq(Piece))] /\ \A q \in Peer : Len(fragments'[q]) <= Capacity
        BY ZenonT(60) DEF ClientActs, IInv, TypeOK
  <2> QED BY <2>1, <2>2 DEF ClientActs, server, IInv, TypeOK
<1>2. ASSUME NEW q \in Peer PROVE Shaped(q)'
  <2>1. /\ cli'[q] = (IF q = p THEN c ELSE cli[q])
        /\ game'[q] = (IF q = p THEN g ELSE game[q])
        /\ fragments'[q] = (IF q = p THEN fr ELSE fragments[q])
        /\ ws'[q] = (IF q = p THEN w ELSE ws[q])
        BY ZenonT(60) DEF ClientActs, IInv, TypeOK
  <2>2. srv' = srv /\ incoming' = incoming
        BY ZenonT(60) DEF ClientActs, server
  <2>3. Shape(srv[q].at, cli'[q], ws'[q], incoming[q], game'[q], fragments'[q])
        BY <2>1 DEF IInv, Shaped
  <2> QED BY <2>2, <2>3 DEF Shaped
<1> QED BY <1>1, <1>2

LEMMA ClientActed ==
    ASSUME IInv, NEW p \in Peer, NEW c \in ClientTask, NEW r \in Reconstruction,
           NEW fr \in Seq(Seq(Piece)), NEW g \in Messages, NEW w \in Seq(StreamFrame),
           ClientActs(p, c, r, fr, g, w), Len(fr) <= Capacity,
           c.at = "off" <=> cli[p].at = "off", cli[p].at = "silent" => c.at = "silent",
           r = rec[p] \/ r.at # "open",
           NEW k \in 0 .. 1, Shifted(ws[p], w, k),
           Shape(srv[p].at, c, w, incoming[p], g, fr)
    PROVE  IInv'
<1>1. TypeOK' /\ \A q \in Peer : Shaped(q)'
      BY ClientShaped, ZenonT(60)
<1>2. Quiet
  <2>1. cli \in [Peer -> ClientTask] /\ ws \in [Peer -> Seq(StreamFrame)] /\ rec \in [Peer -> Reconstruction]
        BY ZenonT(60) DEF IInv, TypeOK
  <2>2. \A q \in Peer : /\ cli'[q].at = "off" <=> cli[q].at = "off"
                        /\ cli[q].at = "silent" => cli'[q].at = "silent"
                        /\ rec'[q] = rec[q] \/ rec'[q].at # "open"
        BY <2>1, ZenonT(60) DEF ClientActs
  <2>3. NoNewIndicator
    <3> SUFFICES ASSUME NEW q \in Peer PROVE \E j \in 0 .. 1 : Shifted(ws[q], ws'[q], j)
        BY ZenonT(60) DEF NoNewIndicator, Shifted
    <3>1. CASE q = p
          BY <2>1, <3>1, ZenonT(60) DEF ClientActs
    <3>2. CASE q # p
      <4>1. ws'[q] = ws[q] /\ \A i \in DOMAIN ws[q] : i + 0 = i
            BY <2>1, <3>2 DEF ClientActs
      <4> QED BY <4>1, SMTT(60) DEF Shifted
    <3> QED BY <3>1, <3>2, ZenonT(60)
  <2> QED BY <2>2, <2>3 DEF Quiet, ClientActs, server
<1>3. Matching'
      BY <1>1, <1>2, QuietMatches DEF IInv
<1> QED BY <1>1, <1>3, ZenonT(60) DEF IInv

LEMMA StreamPeers ==
    ASSUME IInv
    PROVE  \A i \in DOMAIN streams : streams[i] \in Stream /\ streams[i].peer \in Peer
<1>1. streams \in Seq(Stream)
      BY DEF IInv, TypeOK
<1>2. \A i \in DOMAIN streams : streams[i] \in Stream
      BY <1>1
<1> QED BY <1>2 DEF Stream

-----------------------------------------------------------------------------
(* copy_with_dedup and dedup_packet of the server proxy. *)

LEMMA PeerFacts ==
    ASSUME IInv, NEW p \in Peer
    PROVE  /\ srv[p] \in ServerTask /\ srv[p].to = p
           /\ cli[p] \in ClientTask /\ rec[p] \in Reconstruction
           /\ fragments[p] \in Seq(Seq(Piece)) /\ Len(fragments[p]) <= Capacity
           /\ game[p] \in Messages
           /\ ws[p] \in Seq(StreamFrame) /\ incoming[p] \in Seq(WsFrame)
           /\ Shape(srv[p].at, cli[p], ws[p], incoming[p], game[p], fragments[p])
           /\ faults \in 0 .. MaxFaults /\ spoiled \subseteq Peer
BY DEF IInv, TypeOK, Matching, Shaped

ServerAt == {"off", "greet", "copy", "gather", "gathered", "wait", "provide", "ended"}

(* A server task at another place. *)
LEMMA ServerMove ==
    ASSUME NEW o \in ServerTask, NEW at \in ServerAt
    PROVE  \E s \in ServerTask : /\ s = [o EXCEPT !.at = at]
                                 /\ s.at = at /\ s.data = o.data /\ s.to = o.to
<1>1. [o EXCEPT !.at = at] \in ServerTask
      BY DEF ServerTask, ServerAt
<1>2. /\ [o EXCEPT !.at = at].at = at
      /\ [o EXCEPT !.at = at].data = o.data
      /\ [o EXCEPT !.at = at].to = o.to
      BY DEF ServerTask
<1> QED BY <1>1, <1>2, ZenonT(60)

LEMMA CopyingIs ==
    ASSUME IInv, NEW p \in Peer
    PROVE  \E s \in ServerTask : s = Copying(p) /\ s.at = "copy" /\ s.data = <<>> /\ s.to = p
<1>1. PICK e \in Seq(Piece) : e = <<>>
  <2>1. <<>> \in Seq(Piece)
        OBVIOUS
  <2> QED BY <2>1, ZenonT(60)
<1>2. srv[p] \in ServerTask /\ srv[p].to = p /\ "copy" \in ServerAt
      BY PeerFacts DEF ServerAt
<1>3. PICK s : s = [srv[p] EXCEPT !.at = "copy", !.data = e]
      OBVIOUS
<1>4. s \in ServerTask
      BY <1>2, <1>3, ZenonT(60) DEF ServerTask, ServerAt
<1>5. s.at = "copy" /\ s.data = e /\ s.to = p
      BY <1>2, <1>3 DEF ServerTask
<1> QED BY <1>1, <1>3, <1>4, <1>5, ZenonT(60) DEF Copying

LEMMA SameIndicators ==
    ASSUME NEW v \in Seq(StreamFrame)
    PROVE  /\ Shifted(v, v, 0) /\ 0 \in 0 .. 1 /\ 1 \in 0 .. 1
           /\ \A f \in WsFrame : Shifted(v, Append(v, f), 0)
           /\ v # <<>> => Shifted(v, Tail(v), 1)
<1>1. \A i \in DOMAIN v : i + 0 = i
      OBVIOUS
<1>2. ASSUME NEW f \in WsFrame PROVE Shifted(v, Append(v, f), 0)
  <2>1. f.op # "indicator"
        BY DEF WsFrame
  <2> SUFFICES ASSUME NEW i \in DOMAIN Append(v, f), Append(v, f)[i].op = "indicator"
               PROVE  i + 0 \in DOMAIN v /\ v[i + 0] = Append(v, f)[i]
      BY DEF Shifted
  <2>2. f \in StreamFrame
        BY DEF StreamFrame
  <2>3. i \in 1 .. Len(v) + 1 /\ i + 0 = i
        BY <2>2
  <2>4. i # Len(v) + 1
        BY <2>1, <2>2
  <2> QED BY <2>2, <2>3, <2>4
<1>3. ASSUME v # <<>> PROVE Shifted(v, Tail(v), 1)
      BY <1>3, SMTT(60) DEF Shifted
<1> QED BY <1>1, <1>2, <1>3 DEF Shifted

(* Without reading or writing, the server task ends, or goes on to the first *)
(* or the next frame.                                                        *)
LEMMA ServerMoves ==
    ASSUME IInv, NEW p \in Peer, NEW s \in ServerTask, s.to = p, srv[p].at # "off",
           srv' = [srv EXCEPT ![p] = s], faults' \in 0 .. MaxFaults,
           UNCHANGED <<incoming, ws, pending_dedup_streams, next_id, accepting, client, streams>>,
           s.at = "ended" \/ (srv[p].at \in {"greet", "provide"} /\ s.at = "copy")
    PROVE  IInv'
<1>1. PICK w \in Seq(StreamFrame), inc \in Seq(WsFrame) : w = ws[p] /\ inc = incoming[p]
      BY PeerFacts
<1>2. ServerActs(p, s, w, inc)
      BY <1>1, ZenonT(60) DEF ServerActs, IInv, TypeOK
<1>3. Shape(srv[p].at, cli[p], w, inc, game[p], fragments[p])
      BY <1>1, PeerFacts
<1>4. \A x \in Under, b \in Carry : Expected(srv[p].at, x, b) => Expected(s.at, x, b)
      BY ZenonT(60) DEF Expected
<1>5. Shape(s.at, cli[p], w, inc, game[p], fragments[p])
      BY <1>3, <1>4, ShapeGoesOn, ZenonT(60)
<1>6. Shifted(ws[p], w, 0)
      BY <1>1, SameIndicators
<1> QED BY <1>2, <1>5, <1>6, ServerActed, ZenonT(60)

LEMMA ServerStopsPreserves ==
    ASSUME IInv, NEW p \in Peer, ServerCloses(p) \/ Cancel(p)
    PROVE  IInv'
<1>1. PICK s \in ServerTask : s = [srv[p] EXCEPT !.at = "ended"] /\ s.at = "ended" /\ s.to = p
  <2>1. srv[p] \in ServerTask /\ srv[p].to = p /\ <<>> \in Seq(Piece) /\ "ended" \in ServerAt
        BY PeerFacts, SMTT(60) DEF ServerAt
  <2> QED BY <2>1, ServerMove
<1>2. srv' = [srv EXCEPT ![p] = s] /\ srv[p].at # "off"
      BY <1>1 DEF ServerCloses, Cancel
<1>3. faults' \in 0 .. MaxFaults
      BY PeerFacts, BoundsAssumption DEF ServerCloses, Cancel
<1>4. UNCHANGED <<incoming, ws, pending_dedup_streams, next_id, accepting, client, streams>>
      BY DEF ServerCloses, Cancel
<1> QED BY <1>1, <1>2, <1>3, <1>4, ServerMoves, ZenonT(60)

LEMMA GreetPreserves ==
    ASSUME IInv, NEW p \in Peer, Greet(p)
    PROVE  IInv'
<1>1. srv[p] \in ServerTask /\ srv[p].to = p /\ "ended" \in ServerAt /\ faults \in 0 .. MaxFaults
      BY PeerFacts DEF ServerAt
<1>2. PICK s \in ServerTask :
          srv' = [srv EXCEPT ![p] = s] /\ s.to = p /\ s.at \in {"copy", "ended"}
  <2>1. CASE srv' = [srv EXCEPT ![p] = Copying(p)]
    <3>1. \E s \in ServerTask : s = Copying(p) /\ s.at = "copy" /\ s.data = <<>> /\ s.to = p
          BY CopyingIs
    <3> QED BY <2>1, <3>1, ZenonT(60)
  <2>2. CASE srv' = [srv EXCEPT ![p] = [srv[p] EXCEPT !.at = "ended"]]
    <3>1. \E s \in ServerTask : s = [srv[p] EXCEPT !.at = "ended"] /\ s.at = "ended" /\ s.to = p
          BY <1>1, ServerMove
    <3> QED BY <2>2, <3>1, ZenonT(60)
  <2> QED BY <2>1, <2>2 DEF Greet
<1>3. srv[p].at = "greet" /\ faults' = faults
      BY DEF Greet
<1>4. UNCHANGED <<incoming, ws, pending_dedup_streams, next_id, accepting, client, streams>>
      BY DEF Greet
<1> QED BY <1>1, <1>2, <1>3, <1>4, ServerMoves, ZenonT(60)

LEMMA ProvidedPreserves ==
    ASSUME IInv, NEW p \in Peer, Provided(p)
    PROVE  IInv'
<1>1. srv[p] \in ServerTask /\ srv[p].to = p /\ <<>> \in Seq(Piece) /\ "ended" \in ServerAt
      /\ "copy" \in ServerAt /\ faults \in 0 .. MaxFaults
      BY PeerFacts DEF ServerAt
<1>2. PICK s \in ServerTask :
          srv' = [srv EXCEPT ![p] = s] /\ s.to = p /\ s.at \in {"copy", "ended"}
  <2>1. CASE srv' = [srv EXCEPT ![p] = Copying(p)]
    <3>1. \E s \in ServerTask : s = Copying(p) /\ s.at = "copy" /\ s.data = <<>> /\ s.to = p
          BY CopyingIs
    <3> QED BY <2>1, <3>1, ZenonT(60)
  <2>2. CASE srv' = [srv EXCEPT ![p].at = "ended"]
    <3>1. \E s \in ServerTask : s = [srv[p] EXCEPT !.at = "ended"] /\ s.at = "ended" /\ s.to = p
          BY <1>1, ServerMove
    <3> QED BY <2>2, <3>1, ZenonT(60)
  <2> QED BY <2>1, <2>2 DEF Provided
<1>3. srv[p].at = "provide" /\ faults' = faults
      BY DEF Provided
<1>4. UNCHANGED <<incoming, ws, pending_dedup_streams, next_id, accepting, client, streams>>
      BY DEF Provided
<1> QED BY <1>1, <1>2, <1>3, <1>4, ServerMoves, ZenonT(60)

(* A frame is read: it is collected or relayed. *)
LEMMA ServerReads ==
    ASSUME IInv, NEW p \in Peer, incoming[p] # <<>>, NEW s \in ServerTask, s.to = p,
           s.at # "off", srv[p].at # "off", NEW writes \in BOOLEAN,
           Reads(srv[p].at, Head(incoming[p]), s.at, writes),
           ServerActs(p, s, IF writes THEN Append(ws[p], Head(incoming[p])) ELSE ws[p],
                      Tail(incoming[p]))
    PROVE  IInv'
<1>1. /\ ws[p] \in Seq(StreamFrame) /\ incoming[p] \in Seq(WsFrame)
      /\ Shape(srv[p].at, cli[p], ws[p], incoming[p], game[p], fragments[p])
      BY PeerFacts, ZenonT(60)
<1>2. Head(incoming[p]) \in WsFrame /\ Head(incoming[p]) \in StreamFrame
      /\ Tail(incoming[p]) \in Seq(WsFrame)
      BY <1>1, SMTT(60) DEF StreamFrame
<1>3. PICK w \in Seq(StreamFrame) : w = IF writes THEN Append(ws[p], Head(incoming[p])) ELSE ws[p]
  <2>1. Append(ws[p], Head(incoming[p])) \in Seq(StreamFrame)
        BY <1>1, <1>2
  <2> QED BY <1>1, <2>1, ZenonT(60)
<1>4. Shape(s.at, cli[p], w, Tail(incoming[p]), game[p], fragments[p])
      BY <1>1, <1>3, ShapeReads, ZenonT(60)
<1>5. Shifted(ws[p], w, 0)
      BY <1>1, <1>2, <1>3, SameIndicators
<1>6. ServerActs(p, s, w, Tail(incoming[p]))
      BY <1>3, ZenonT(60)
<1> QED BY <1>2, <1>4, <1>5, <1>6, ServerActed, ZenonT(60)

(* The stream's reader is gone and the task ends. *)
LEMMA ServerBreaks ==
    ASSUME IInv, NEW p \in Peer, cli[p].at = "ended", NEW inc \in Seq(WsFrame),
           NEW s \in ServerTask, s.to = p, s.at = "ended", srv[p].at # "off",
           ServerActs(p, s, ws[p], inc)
    PROVE  IInv'
<1>1. /\ ws[p] \in Seq(StreamFrame)
      /\ Shape(srv[p].at, cli[p], ws[p], incoming[p], game[p], fragments[p])
      BY PeerFacts, ZenonT(60)
<1>2. Shape(s.at, cli[p], ws[p], inc, game[p], fragments[p])
      BY <1>1, ShapeGone, SMTT(60)
<1>3. Shifted(ws[p], ws[p], 0)
      BY <1>1, SameIndicators
<1> QED BY <1>1, <1>2, <1>3, ServerActed, ZenonT(60)

(* Either way. *)
LEMMA ServerWrites ==
    ASSUME IInv, NEW p \in Peer, incoming[p] # <<>>, NEW s \in ServerTask, s.to = p,
           s.at # "off", srv[p].at # "off",
           Reads(srv[p].at, Head(incoming[p]), s.at, TRUE),
           WriteThen(p, Head(incoming[p]), s), ReadFrame(p),
           UNCHANGED <<pending_dedup_streams, next_id, accepting, client, streams, faults>>
    PROVE  IInv'
<1>1. /\ srv[p] \in ServerTask /\ srv[p].to = p /\ "ended" \in ServerAt
      /\ incoming[p] \in Seq(WsFrame) /\ faults \in 0 .. MaxFaults
      BY PeerFacts DEF ServerAt
<1>2. incoming' = [incoming EXCEPT ![p] = Tail(incoming[p])]
      BY ZenonT(60) DEF ReadFrame
<1>3. CASE /\ ws' = [ws EXCEPT ![p] = Append(@, Head(incoming[p]))]
           /\ srv' = [srv EXCEPT ![p] = s]
  <2>1. ServerActs(p, s, IF TRUE THEN Append(ws[p], Head(incoming[p])) ELSE ws[p], Tail(incoming[p]))
        BY <1>1, <1>2, <1>3 DEF ServerActs
  <2> QED BY <2>1, ServerReads, ZenonT(60)
<1>4. CASE cli[p].at = "ended" /\ srv' = [srv EXCEPT ![p].at = "ended"] /\ UNCHANGED ws
  <2>1. PICK e \in ServerTask : e = [srv[p] EXCEPT !.at = "ended"] /\ e.at = "ended" /\ e.to = p
        BY <1>1, ServerMove
  <2>2. ServerActs(p, e, ws[p], Tail(incoming[p]))
        BY <1>1, <1>2, <1>4, <2>1 DEF ServerActs, IInv, TypeOK
  <2>3. Tail(incoming[p]) \in Seq(WsFrame)
        BY <1>1
  <2> QED BY <1>4, <2>1, <2>2, <2>3, ServerBreaks, ZenonT(60)
<1> QED BY <1>3, <1>4, ZenonT(60) DEF WriteThen

LEMMA CopyFramePreserves ==
    ASSUME IInv, NEW p \in Peer, CopyFrame(p)
    PROVE  IInv'
<1>1. /\ srv[p] \in ServerTask /\ srv[p].to = p /\ srv[p].at = "copy"
      /\ incoming[p] \in Seq(WsFrame) /\ incoming[p] # <<>> /\ faults \in 0 .. MaxFaults
      BY PeerFacts DEF CopyFrame, ReadFrame
<1>2. PICK f \in WsFrame : f = Head(incoming[p])
      BY <1>1
<1>3. /\ incoming' = [incoming EXCEPT ![p] = Tail(incoming[p])]
      /\ UNCHANGED <<pending_dedup_streams, next_id, accepting, client, streams, faults>>
      BY DEF CopyFrame, ReadFrame
<1>4. CASE f.op = "binary" /\ f.large
  <2>1. PICK at \in ServerAt : at = IF f.fin THEN "gathered" ELSE "gather"
        BY DEF ServerAt
  <2>2. f.data \in Seq(Piece)
        BY DEF WsFrame
  <2>3. PICK s \in ServerTask : s = [srv[p] EXCEPT !.at = at, !.data = f.data] /\ s.at = at /\ s.to = p
    <3>1. PICK s : s = [srv[p] EXCEPT !.at = at, !.data = f.data]
          OBVIOUS
    <3>2. s \in ServerTask
          BY <1>1, <2>2, <3>1, ZenonT(60) DEF ServerTask, ServerAt
    <3>3. s.at = at /\ s.to = p
          BY <1>1, <3>1 DEF ServerTask
    <3> QED BY <3>1, <3>2, <3>3, ZenonT(60)
  <2>4. srv' = [srv EXCEPT ![p] = s] /\ ws' = ws
        BY <1>2, <1>4, <2>1, <2>3, ZenonT(60) DEF CopyFrame
  <2>5. ServerActs(p, s, IF FALSE THEN Append(ws[p], Head(incoming[p])) ELSE ws[p], Tail(incoming[p]))
        BY <1>1, <1>3, <2>4 DEF ServerActs, IInv, TypeOK
  <2>6. Reads(srv[p].at, Head(incoming[p]), s.at, FALSE)
        BY <1>1, <1>2, <1>4, <2>1, <2>3, ReadsWell, ZenonT(60)
  <2>7. s.at # "off" /\ srv[p].at # "off"
        BY <1>1, <2>1, <2>3
  <2> QED BY <1>1, <2>3, <2>5, <2>6, <2>7, ServerReads, ZenonT(60)
<1>5. CASE ~(f.op = "binary" /\ f.large)
  <2>1. WriteThen(p, Head(incoming[p]), srv[p]) /\ ReadFrame(p)
        BY <1>2, <1>5 DEF CopyFrame
  <2>2. Reads(srv[p].at, Head(incoming[p]), srv[p].at, TRUE)
        BY <1>1, <1>2, <1>5, ReadsWell, ZenonT(60)
  <2>3. srv[p].at # "off"
        BY <1>1
  <2> QED BY <1>1, <1>3, <2>1, <2>2, <2>3, ServerWrites, ZenonT(60)
<1> QED BY <1>4, <1>5

LEMMA GatherFramePreserves ==
    ASSUME IInv, NEW p \in Peer, GatherFrame(p)
    PROVE  IInv'
<1>1. /\ srv[p] \in ServerTask /\ srv[p].to = p /\ srv[p].at = "gather"
      /\ incoming[p] \in Seq(WsFrame) /\ incoming[p] # <<>> /\ faults \in 0 .. MaxFaults
      BY PeerFacts DEF GatherFrame, ReadFrame
<1>2. PICK f \in WsFrame : f = Head(incoming[p])
      BY <1>1
<1>3. /\ incoming' = [incoming EXCEPT ![p] = Tail(incoming[p])]
      /\ ReadFrame(p)
      /\ UNCHANGED <<pending_dedup_streams, next_id, accepting, client, streams, faults>>
      BY DEF GatherFrame, ReadFrame
<1>4. CASE f.op = "continuation"
  <2>1. PICK at \in ServerAt : at = IF f.fin THEN "gathered" ELSE "gather"
        BY DEF ServerAt
  <2>2. PICK d \in Seq(Piece) : d = Gathered(p, f)
    <3>1. srv[p].data \in Seq(Piece) /\ f.data \in Seq(Piece)
          BY <1>1 DEF ServerTask, WsFrame
    <3>2. srv[p].data \o f.data \in Seq(Piece)
          BY <3>1
    <3> QED BY <3>2, ZenonT(60) DEF Gathered
  <2>3. PICK s \in ServerTask : s = [srv[p] EXCEPT !.at = at, !.data = d] /\ s.at = at /\ s.to = p
    <3>1. PICK s : s = [srv[p] EXCEPT !.at = at, !.data = d]
          OBVIOUS
    <3>2. s \in ServerTask
          BY <1>1, <3>1, ZenonT(60) DEF ServerTask, ServerAt
    <3>3. s.at = at /\ s.to = p
          BY <1>1, <3>1 DEF ServerTask
    <3> QED BY <3>1, <3>2, <3>3, ZenonT(60)
  <2>4. srv' = [srv EXCEPT ![p] = s] /\ ws' = ws
        BY <1>2, <1>4, <2>1, <2>2, <2>3, ZenonT(60) DEF GatherFrame
  <2>5. ServerActs(p, s, IF FALSE THEN Append(ws[p], Head(incoming[p])) ELSE ws[p], Tail(incoming[p]))
        BY <1>1, <1>3, <2>4 DEF ServerActs, IInv, TypeOK
  <2>6. Reads(srv[p].at, Head(incoming[p]), s.at, FALSE)
        BY <1>1, <1>2, <1>4, <2>1, <2>3, ReadsWell, ZenonT(60)
  <2>7. s.at # "off" /\ srv[p].at # "off"
        BY <1>1, <2>1, <2>3
  <2> QED BY <1>1, <2>3, <2>5, <2>6, <2>7, ServerReads, ZenonT(60)
<1>5. CASE f.op = "binary"
  <2>1. PICK s \in ServerTask : s = Copying(p) /\ s.at = "copy" /\ s.to = p
        BY CopyingIs
  <2>2. WriteThen(p, Head(incoming[p]), s)
        BY <1>2, <1>5, <2>1, ZenonT(60) DEF GatherFrame
  <2>3. Reads(srv[p].at, Head(incoming[p]), s.at, TRUE)
        BY <1>1, <1>2, <1>5, <2>1, ReadsWell, ZenonT(60)
  <2>4. s.at # "off" /\ srv[p].at # "off"
        BY <1>1, <2>1
  <2> QED BY <1>1, <1>3, <2>1, <2>2, <2>3, <2>4, ServerWrites, ZenonT(60)
<1>6. CASE f.op = "control"
  <2>1. WriteThen(p, Head(incoming[p]), srv[p])
        BY <1>2, <1>6, ZenonT(60) DEF GatherFrame
  <2>2. Reads(srv[p].at, Head(incoming[p]), srv[p].at, TRUE)
        BY <1>1, <1>2, <1>6, ReadsWell, ZenonT(60)
  <2>3. srv[p].at # "off"
        BY <1>1
  <2> QED BY <1>1, <1>3, <2>1, <2>2, <2>3, ServerWrites, ZenonT(60)
<1>7. f.op \in {"binary", "continuation", "control"}
      BY DEF WsFrame
<1> QED BY <1>4, <1>5, <1>6, <1>7

-----------------------------------------------------------------------------
(* reconstruct_packet. *)

(* Only the state of the reconstruction changes, and it holds no id. *)
LEMMA ReconstructionMoves ==
    ASSUME IInv, NEW p \in Peer, NEW r \in Reconstruction, r.at # "open",
           rec' = [rec EXCEPT ![p] = r], faults' \in 0 .. MaxFaults, spoiled' \subseteq Peer,
           UNCHANGED <<server, ws, cli, fragments, streams, game>>
    PROVE  IInv'
<1>1. /\ cli[p] \in ClientTask /\ fragments[p] \in Seq(Seq(Piece)) /\ Len(fragments[p]) <= Capacity
      /\ game[p] \in Messages /\ ws[p] \in Seq(StreamFrame)
      /\ Shape(srv[p].at, cli[p], ws[p], incoming[p], game[p], fragments[p])
      BY PeerFacts
<1>2. ClientActs(p, cli[p], r, fragments[p], game[p], ws[p])
      BY ZenonT(60) DEF ClientActs, IInv, TypeOK
<1>3. Shifted(ws[p], ws[p], 0) /\ 0 \in 0 .. 1
      BY <1>1, SameIndicators, ZenonT(60)
<1> QED BY <1>1, <1>2, <1>3, ClientActed, ZenonT(60)

LEMMA ReconstructionPreserves ==
    ASSUME IInv, NEW p \in Peer,
           Describe(p) \/ Reconstructed(p) \/ Lost(p) \/ ReconstructFails(p)
    PROVE  IInv'
<1>1. rec[p] \in Reconstruction /\ faults \in 0 .. MaxFaults /\ spoiled \subseteq Peer
      /\ \A q \in Peer : srv[q] \in ServerTask
      BY PeerFacts DEF IInv, TypeOK
<1>2. PICK r \in Reconstruction : rec' = [rec EXCEPT ![p] = r] /\ r.at # "open"
  <2>1. CASE Describe(p)
    <3>1. PICK q \in Peer : rec' = [rec EXCEPT ![p].at = "run", ![p].todo = srv[q].data]
          BY <2>1, ZenonT(60) DEF Describe
    <3>2. PICK d \in Seq(Piece) : d = srv[q].data
          BY <1>1 DEF ServerTask
    <3>3. PICK r : r = [rec[p] EXCEPT !.at = "run", !.todo = d]
          OBVIOUS
    <3>4. r \in Reconstruction
          BY <1>1, <3>3, ZenonT(60) DEF Reconstruction
    <3>5. r.at = "run"
          BY <1>1, <3>3 DEF Reconstruction
    <3> QED BY <3>1, <3>2, <3>3, <3>4, <3>5, ZenonT(60)
  <2>2. ASSUME NEW at \in {"done", "failed"}, rec' = [rec EXCEPT ![p].at = at]
        PROVE  \E r \in Reconstruction : rec' = [rec EXCEPT ![p] = r] /\ r.at # "open"
    <3>1. PICK r : r = [rec[p] EXCEPT !.at = at]
          BY ZenonT(60)
    <3>2. r \in Reconstruction
          BY <1>1, <3>1 DEF Reconstruction
    <3>3. r.at = at
          BY <1>1, <3>1 DEF Reconstruction
    <3> QED BY <2>2, <3>1, <3>2, <3>3, ZenonT(60)
  <2>3. CASE Reconstructed(p)
        BY <2>2, <2>3, ZenonT(60) DEF Reconstructed
  <2>4. CASE Lost(p) \/ ReconstructFails(p)
        BY <2>2, <2>4 DEF Lost, ReconstructFails, Failing
  <2> QED BY <2>1, <2>3, <2>4
<1>3. faults' \in 0 .. MaxFaults
      BY <1>1, BoundsAssumption DEF Describe, Reconstructed, Lost, ReconstructFails
<1>4. spoiled' \subseteq Peer
      BY <1>1 DEF Describe, Reconstructed, Lost, ReconstructFails, Failing
<1>5. UNCHANGED <<server, ws, cli, fragments, streams, game>>
      BY DEF Describe, Reconstructed, Lost, ReconstructFails, Failing
<1> QED BY <1>2, <1>3, <1>4, <1>5, ReconstructionMoves, ZenonT(60)

LEMMA SendFragmentPreserves ==
    ASSUME IInv, NEW p \in Peer, SendFragment(p)
    PROVE  IInv'
<1>1. /\ cli[p] \in ClientTask /\ fragments[p] \in Seq(Seq(Piece)) /\ rec[p] \in Reconstruction
      /\ game[p] \in Messages /\ ws[p] \in Seq(StreamFrame)
      /\ Shape(srv[p].at, cli[p], ws[p], incoming[p], game[p], fragments[p])
      /\ faults \in 0 .. MaxFaults /\ spoiled \subseteq Peer
      BY PeerFacts
<1>2. PICK d \in Seq(Piece) : d = rec[p].todo
      BY <1>1 DEF Reconstruction
<1>3. PICK n \in 1 .. Len(d) :
          /\ fragments' = [fragments EXCEPT ![p] = Append(@, SubSeq(d, 1, n))]
          /\ rec' = [rec EXCEPT ![p].todo = SubSeq(d, n + 1, Len(d))]
      BY <1>2, ZenonT(60) DEF SendFragment
<1>4. /\ SubSeq(d, 1, n) \in Seq(Piece) /\ SubSeq(d, 1, n) # <<>>
      /\ SubSeq(d, n + 1, Len(d)) \in Seq(Piece)
  <2>1. Len(SubSeq(d, 1, n)) = n
        OBVIOUS
  <2>2. SubSeq(d, 1, n) # <<>>
        BY <2>1
  <2> QED BY <2>2
<1>5. PICK r : r = [rec[p] EXCEPT !.todo = SubSeq(d, n + 1, Len(d))]
      BY ZenonT(60)
<1>6. r \in Reconstruction
      BY <1>1, <1>4, <1>5, ZenonT(60) DEF Reconstruction
<1>7. r.at # "open"
      BY <1>1, <1>5, ZenonT(60) DEF Reconstruction, SendFragment
<1>8. PICK fr \in Seq(Seq(Piece)) : fr = Append(fragments[p], SubSeq(d, 1, n))
  <2>1. Append(fragments[p], SubSeq(d, 1, n)) \in Seq(Seq(Piece))
        BY <1>1, <1>4, SMTT(60)
  <2> QED BY <2>1, ZenonT(60)
<1>9. Len(fr) <= Capacity
      BY <1>1, <1>8, BoundsAssumption DEF SendFragment, HasRoom
<1>10. Shape(srv[p].at, cli[p], ws[p], incoming[p], game[p], fr)
  <2>1. \A i \in DOMAIN fragments[p] : fragments[p][i] # <<>>
        BY <1>1 DEF Shape
  <2>2. ASSUME NEW i \in DOMAIN fr PROVE fr[i] # <<>>
    <3>1. i \in 1 .. Len(fragments[p]) + 1
          BY <1>1, <1>4, <1>8
    <3>2. CASE i = Len(fragments[p]) + 1
      <4>1. PICK e \in Seq(Piece) : e = SubSeq(d, 1, n) /\ e # <<>>
            BY <1>4, ZenonT(60)
      <4>2. fr[i] = e
            BY <1>1, <1>8, <3>2, <4>1
      <4> QED BY <4>1, <4>2, ZenonT(60)
    <3>3. CASE i # Len(fragments[p]) + 1
      <4>1. i \in DOMAIN fragments[p] /\ fr[i] = fragments[p][i]
            BY <1>1, <1>4, <1>8, <3>1, <3>3
      <4> QED BY <2>1, <4>1, ZenonT(60)
    <3> QED BY <3>2, <3>3
  <2> QED BY <1>1, <2>2, ZenonT(60) DEF Shape
<1>11. ClientActs(p, cli[p], r, fr, game[p], ws[p])
      BY <1>1, <1>3, <1>5, <1>8, ZenonT(60) DEF ClientActs, IInv, TypeOK, SendFragment
<1>12. Shifted(ws[p], ws[p], 0) /\ 0 \in 0 .. 1
      BY <1>1, SameIndicators, ZenonT(60)
<1> QED BY <1>1, <1>6, <1>7, <1>9, <1>10, <1>11, <1>12, ClientActed, ZenonT(60)

-----------------------------------------------------------------------------
(* copy_with_dedup and forward_deduped_fragments of the client proxy. *)

LEMMA ClientEndsPreserves ==
    ASSUME IInv, NEW p \in Peer, ClientCloses(p) \/ Disconnected(p) \/ GameClientGone(p)
    PROVE  IInv'
<1>1. /\ cli[p] \in ClientTask /\ fragments[p] \in Seq(Seq(Piece)) /\ Len(fragments[p]) <= Capacity
      /\ game[p] \in Messages /\ ws[p] \in Seq(StreamFrame) /\ rec[p] \in Reconstruction
      /\ Shape(srv[p].at, cli[p], ws[p], incoming[p], game[p], fragments[p])
      /\ faults \in 0 .. MaxFaults /\ spoiled \subseteq Peer
      BY PeerFacts
<1>2. PICK c : c = [cli[p] EXCEPT !.at = "ended"]
      BY ZenonT(60)
<1>3. c \in ClientTask
      BY <1>1, <1>2, ZenonT(60) DEF ClientTask
<1>4. c.at = "ended" /\ cli[p].at \notin {"off", "silent"}
      BY <1>1, <1>2 DEF ClientTask, ClientCloses, Disconnected, GameClientGone
<1>5. faults' \in 0 .. MaxFaults
      BY <1>1, BoundsAssumption DEF ClientCloses, Disconnected, GameClientGone
<1>6. ClientActs(p, c, rec[p], fragments[p], game[p], ws[p])
  <2>1. cli' = [cli EXCEPT ![p] = c] /\ UNCHANGED <<server, ws, rec, fragments, streams, game, spoiled>>
        BY <1>2, ZenonT(60) DEF ClientCloses, Disconnected, GameClientGone
  <2> QED BY <1>1, <1>5, <2>1 DEF ClientActs, IInv, TypeOK
<1>7. Shape(srv[p].at, c, ws[p], incoming[p], game[p], fragments[p])
      BY <1>1, <1>4, ZenonT(60) DEF Shape, Forwarded, Fits
<1>8. Shifted(ws[p], ws[p], 0) /\ 0 \in 0 .. 1
      BY <1>1, SameIndicators, ZenonT(60)
<1> QED BY <1>1, <1>3, <1>4, <1>6, <1>7, <1>8, ClientActed, ZenonT(60)

(* What WriteLast leaves the game client with. *)
LEMMA LastWritten ==
    ASSUME IInv, NEW p \in Peer, cli[p].at = "forward", NEW fin \in BOOLEAN, WriteLast(p, fin)
    PROVE  \E g \in Messages :
              /\ game' = [game EXCEPT ![p] = g]
              /\ g.valid
              /\ cli[p].last_bytes = <<>> => g = game[p]
              /\ cli[p].last_bytes # <<>> => Carrying(g) = IF fin THEN "none" ELSE "message"
<1>1. /\ cli[p] \in ClientTask /\ game[p] \in Messages
      /\ Shape(srv[p].at, cli[p], ws[p], incoming[p], game[p], fragments[p])
      BY PeerFacts, ZenonT(60)
<1>2. game[p].valid /\ Forwarded(cli[p], game[p])
      BY <1>1 DEF Shape
<1>3. CASE cli[p].last_bytes = <<>>
  <2>1. game' = [game EXCEPT ![p] = game[p]]
        BY <1>3 DEF WriteLast
  <2> QED BY <1>1, <1>2, <1>3, <2>1, ZenonT(60)
<1>4. CASE cli[p].last_bytes # <<>>
  <2>1. PICK op : op = IF cli[p].first_frame THEN "binary" ELSE "continuation"
        OBVIOUS
  <2>2. PICK f : f = Frame(op, fin, cli[p].last_bytes, FALSE)
        BY ZenonT(60)
  <2>3. game' = [game EXCEPT ![p] = Receive(game[p], f)]
        BY <1>4, <2>1, <2>2 DEF WriteLast, FragmentOp
  <2>4. cli[p].first_frame \in BOOLEAN /\ cli[p].last_bytes \in Seq(Piece)
        BY <1>1, ZenonT(60) DEF ClientTask
  <2>5. f \in WsFrame
        BY <2>1, <2>2, <2>4, ZenonT(60) DEF Frame, WsFrame
  <2>6. f.op = op /\ f.fin = fin
        BY <2>2 DEF Frame
  <2>7. PICK b \in Carry : b = IF fin THEN "none" ELSE "message"
        BY DEF Carry
  <2>8. Relays(Carrying(game[p]), f, b)
        BY <1>2, <1>4, <2>1, <2>4, <2>6, <2>7, ZenonT(60) DEF Relays, Forwarded, Carrying
  <2>9. /\ Receive(game[p], f) \in Messages
        /\ Receive(game[p], f).valid
        /\ Carrying(Receive(game[p], f)) = b
        BY <1>1, <1>2, <2>5, <2>8, ReceiveFits
  <2> QED BY <1>4, <2>3, <2>7, <2>9, ZenonT(60)
<1> QED BY <1>3, <1>4, ZenonT(60)

LEMMA ForwardPreserves ==
    ASSUME IInv, NEW p \in Peer, Forward(p)
    PROVE  IInv'
<1>1. /\ cli[p] \in ClientTask /\ fragments[p] \in Seq(Seq(Piece)) /\ Len(fragments[p]) <= Capacity
      /\ game[p] \in Messages /\ ws[p] \in Seq(StreamFrame) /\ rec[p] \in Reconstruction
      /\ Shape(srv[p].at, cli[p], ws[p], incoming[p], game[p], fragments[p])
      /\ faults \in 0 .. MaxFaults /\ spoiled \subseteq Peer
      BY PeerFacts
<1>2. cli[p].at = "forward" /\ fragments[p] # <<>> /\ WriteLast(p, FALSE)
      BY ZenonT(60) DEF Forward
<1>3. PICK g \in Messages :
          /\ game' = [game EXCEPT ![p] = g]
          /\ g.valid
          /\ cli[p].last_bytes = <<>> => g = game[p]
          /\ cli[p].last_bytes # <<>> => Carrying(g) = "message"
      BY <1>2, LastWritten, ZenonT(60)
<1>4. PICK d \in Seq(Piece), fr \in Seq(Seq(Piece)) : d = Head(fragments[p]) /\ fr = Tail(fragments[p])
  <2>1. Head(fragments[p]) \in Seq(Piece) /\ Tail(fragments[p]) \in Seq(Seq(Piece))
        BY <1>1, <1>2, Parted, ZenonT(60)
  <2> QED BY <2>1, ZenonT(60)
<1>5. PICK first \in BOOLEAN : first = (cli[p].first_frame /\ cli[p].last_bytes = <<>>)
      BY ZenonT(60)
<1>6. PICK c : c = [cli[p] EXCEPT !.last_bytes = d, !.first_frame = first]
      OBVIOUS
<1>7. c \in ClientTask
      BY <1>1, <1>6, ZenonT(60) DEF ClientTask
<1>8. c.at = "forward" /\ c.last_bytes = d /\ c.first_frame = first
      BY <1>1, <1>2, <1>6, ZenonT(60) DEF ClientTask
<1>9. \A i \in DOMAIN fragments[p] : fragments[p][i] # <<>>
      BY <1>1 DEF Shape
<1>10. d # <<>> /\ \A i \in DOMAIN fr : fr[i] # <<>>
  <2>1. d = fragments[p][1] /\ 1 \in DOMAIN fragments[p]
        BY <1>1, <1>2, <1>4, Parted, ZenonT(60)
  <2>2. \A i \in DOMAIN fr : i + 1 \in DOMAIN fragments[p] /\ fr[i] = fragments[p][i + 1]
        BY <1>1, <1>2, <1>4, Parted, ZenonT(60)
  <2> QED BY <1>9, <2>1, <2>2, ZenonT(60)
<1>11. Forwarded(c, g)
  <2>1. Forwarded(cli[p], game[p]) /\ cli[p].first_frame \in BOOLEAN /\ game[p].open \in BOOLEAN
        /\ g.open \in BOOLEAN
        BY <1>1, ZenonT(60) DEF Shape, ClientTask, Messages
  <2>2. g.open = ~first
    <3>1. CASE cli[p].last_bytes = <<>>
          BY <1>2, <1>3, <1>5, <2>1, <3>1 DEF Forwarded
    <3>2. CASE cli[p].last_bytes # <<>>
          BY <1>3, <1>5, <2>1, <3>2, ZenonT(60) DEF Carrying
    <3> QED BY <3>1, <3>2, ZenonT(60)
  <2> QED BY <1>8, <1>10, <2>2 DEF Forwarded
<1>12. Fits(srv[p].at, c, ws[p], incoming[p], g)
  <2>1. Resumes(c, g) = Resumes(cli[p], game[p])
        BY <1>2, <1>8 DEF Resumes
  <2>2. Fits(srv[p].at, cli[p], ws[p], incoming[p], game[p])
        BY <1>1, ZenonT(60) DEF Shape
  <2> QED BY <1>2, <2>1, <2>2 DEF Fits
<1>13. Shape(srv[p].at, c, ws[p], incoming[p], g, fr)
      BY <1>3, <1>10, <1>11, <1>12, ZenonT(60) DEF Shape
<1>14. ClientActs(p, c, rec[p], fr, g, ws[p])
  <2>1. cli' = [cli EXCEPT ![p] = c]
        BY <1>4, <1>5, <1>6, ZenonT(60) DEF Forward
  <2>2. fragments' = [fragments EXCEPT ![p] = fr] /\ UNCHANGED <<server, ws, rec, streams, faults, spoiled>>
        BY <1>4, ZenonT(60) DEF Forward
  <2> QED BY <1>1, <1>3, <2>1, <2>2 DEF ClientActs, IInv, TypeOK
<1>15. Shifted(ws[p], ws[p], 0) /\ 0 \in 0 .. 1
      BY <1>1, SameIndicators, ZenonT(60)
<1>16. Len(fr) <= Capacity
      BY <1>1, <1>2, <1>4, BoundsAssumption
<1>17. (c.at = "off" <=> cli[p].at = "off") /\ cli[p].at # "silent"
      BY <1>2, <1>8, ZenonT(60)
<1> QED BY <1>1, <1>7, <1>13, <1>14, <1>15, <1>16, <1>17, ClientActed, ZenonT(60)

LEMMA ForwardEndsPreserves ==
    ASSUME IInv, NEW p \in Peer, ForwardEnds(p)
    PROVE  IInv'
<1>1. /\ cli[p] \in ClientTask /\ fragments[p] \in Seq(Seq(Piece)) /\ Len(fragments[p]) <= Capacity
      /\ game[p] \in Messages /\ ws[p] \in Seq(StreamFrame) /\ rec[p] \in Reconstruction
      /\ Shape(srv[p].at, cli[p], ws[p], incoming[p], game[p], fragments[p])
      /\ faults \in 0 .. MaxFaults /\ spoiled \subseteq Peer
      BY PeerFacts
<1>2. cli[p].at = "forward" /\ WriteLast(p, TRUE)
      BY ZenonT(60) DEF ForwardEnds, Finish
<1>3. PICK g \in Messages :
          /\ game' = [game EXCEPT ![p] = g]
          /\ g.valid
          /\ cli[p].last_bytes = <<>> => g = game[p]
          /\ cli[p].last_bytes # <<>> => Carrying(g) = "none"
      BY <1>2, LastWritten, ZenonT(60)
<1>4. PICK d \in Seq(Piece) : d = <<>>
  <2>1. <<>> \in Seq(Piece)
        OBVIOUS
  <2> QED BY <2>1, ZenonT(60)
<1>5. PICK c : c = [cli[p] EXCEPT !.at = "copy", !.last_bytes = d]
      OBVIOUS
<1>6. c \in ClientTask
      BY <1>1, <1>5, ZenonT(60) DEF ClientTask
<1>7. c.at = "copy"
      BY <1>1, <1>5 DEF ClientTask
<1>8. Carrying(g) = "none"
  <2>1. CASE cli[p].last_bytes = <<>>
    <3>1. game[p].open = ~cli[p].first_frame /\ cli[p].first_frame
          BY <1>1, <1>2, <2>1 DEF Shape, Forwarded
    <3> QED BY <1>3, <2>1, <3>1, ZenonT(60) DEF Carrying
  <2>2. CASE cli[p].last_bytes # <<>>
        BY <1>3, <2>2, ZenonT(60)
  <2> QED BY <2>1, <2>2
<1>9. Shape(srv[p].at, c, ws[p], incoming[p], g, fragments[p])
  <2>1. Resumes(c, g) = Resumes(cli[p], game[p])
        BY <1>2, <1>7, <1>8, ZenonT(60) DEF Resumes
  <2>2. Fits(srv[p].at, c, ws[p], incoming[p], g)
        BY <1>1, <1>2, <2>1, ZenonT(60) DEF Shape, Fits
  <2> QED BY <1>1, <1>3, <1>7, <2>2 DEF Shape, Forwarded
<1>10. ClientActs(p, c, rec[p], fragments[p], g, ws[p])
  <2>1. cli' = [cli EXCEPT ![p] = c] /\ UNCHANGED <<server, ws, rec, fragments, streams, faults, spoiled>>
        BY <1>4, <1>5, ZenonT(60) DEF ForwardEnds
  <2> QED BY <1>1, <1>3, <2>1 DEF ClientActs, IInv, TypeOK
<1>11. Shifted(ws[p], ws[p], 0) /\ 0 \in 0 .. 1
      BY <1>1, SameIndicators, ZenonT(60)
<1>12. (c.at = "off" <=> cli[p].at = "off") /\ cli[p].at # "silent"
      BY <1>2, <1>7
<1> QED BY <1>1, <1>6, <1>9, <1>10, <1>11, <1>12, ClientActed, ZenonT(60)

LEMMA ClientFramePreserves ==
    ASSUME IInv, NEW p \in Peer, ClientFrame(p)
    PROVE  IInv'
<1>1. /\ cli[p] \in ClientTask /\ fragments[p] \in Seq(Seq(Piece)) /\ Len(fragments[p]) <= Capacity
      /\ game[p] \in Messages /\ ws[p] \in Seq(StreamFrame) /\ rec[p] \in Reconstruction
      /\ Shape(srv[p].at, cli[p], ws[p], incoming[p], game[p], fragments[p])
      /\ faults \in 0 .. MaxFaults /\ spoiled \subseteq Peer
      BY PeerFacts
<1>2. cli[p].at = "copy" /\ ws[p] # <<>>
      BY DEF ClientFrame
<1>3. PICK f \in StreamFrame, w \in Seq(StreamFrame) : f = Head(ws[p]) /\ w = Tail(ws[p])
  <2>1. Head(ws[p]) \in StreamFrame /\ Tail(ws[p]) \in Seq(StreamFrame)
        BY <1>1, <1>2
  <2> QED BY <2>1, ZenonT(60)
<1>4. ws' = [ws EXCEPT ![p] = w] /\ UNCHANGED <<server, fragments, streams, faults, spoiled>>
      BY <1>3, ZenonT(60) DEF ClientFrame
<1>5. Shifted(ws[p], w, 1) /\ 1 \in 0 .. 1
      BY <1>1, <1>2, <1>3, SameIndicators, SMTT(60)
<1>6. CASE f.op # "indicator"
  <2>1. game' = [game EXCEPT ![p] = Receive(game[p], f)] /\ cli' = cli /\ rec' = rec
        BY <1>3, <1>6, ZenonT(60) DEF ClientFrame
  <2>2. Receive(game[p], f) \in Messages /\ Shape(srv[p].at, cli[p], w, incoming[p], Receive(game[p], f), fragments[p])
        BY <1>1, <1>2, <1>3, <1>6, ShapeClientReads, ZenonT(60)
  <2>3. PICK g \in Messages : g = Receive(game[p], f)
        BY <2>2, ZenonT(60)
  <2>4. ClientActs(p, cli[p], rec[p], fragments[p], g, w)
        BY <1>1, <1>4, <2>1, <2>3 DEF ClientActs, IInv, TypeOK
  <2> QED BY <1>1, <1>5, <2>2, <2>3, <2>4, ClientActed, ZenonT(60)
<1>7. CASE f.op = "indicator"
  <2>1. PICK c : c = [at |-> "forward", first_frame |-> TRUE, last_bytes |-> <<>>]
        BY ZenonT(60)
  <2>2. c \in ClientTask /\ c.at = "forward"
    <3>1. <<>> \in Seq(Piece)
          OBVIOUS
    <3> QED BY <2>1, <3>1 DEF ClientTask
  <2>3. f.id \in Nat
        BY <1>7 DEF StreamFrame, WsFrame
  <2>4. PICK r : r = [at |-> "open", id |-> f.id, todo |-> <<>>]
        BY ZenonT(60)
  <2>5. r \in Reconstruction /\ r.at = "open" /\ r.id = f.id
    <3>1. <<>> \in Seq(Piece)
          OBVIOUS
    <3> QED BY <2>3, <2>4, <3>1, ZenonT(60) DEF Reconstruction
  <2>6. cli' = [cli EXCEPT ![p] = c] /\ rec' = [rec EXCEPT ![p] = r] /\ game' = game
        BY <1>3, <1>7, <2>1, <2>4, ZenonT(60) DEF ClientFrame
  <2>7. Shape(srv[p].at, c, w, incoming[p], game[p], fragments[p])
        BY <1>1, <1>2, <1>3, <1>7, <2>1, ShapeClientReads
  <2>8. ClientActs(p, c, r, fragments[p], game[p], w)
        BY <1>1, <1>4, <2>6, ZenonT(60) DEF ClientActs, IInv, TypeOK
  <2>9. TypeOK' /\ \A q \in Peer : Shaped(q)'
        BY <1>1, <2>2, <2>5, <2>7, <2>8, ClientShaped, ZenonT(60)
  <2>10. Matching'
    <3>1. ASSUME NEW q \in Peer, NEW i \in DOMAIN ws'[q], IsIndicator(q, i)'
          PROVE  \E j \in DOMAIN ws[q] : /\ IsIndicator(q, j) /\ ws[q][j] = ws'[q][i]
                                         /\ j = (IF q = p THEN i + 1 ELSE i) /\ i \in Int
      <4>1. ws \in [Peer -> Seq(StreamFrame)]
            BY ZenonT(60) DEF IInv, TypeOK
      <4>2. CASE q = p
        <5>1. ws'[q] = w /\ i \in DOMAIN w /\ w[i].op = "indicator" /\ i \in Int
              BY <1>4, <3>1, <4>1, <4>2 DEF IsIndicator
        <5> QED BY <1>5, <4>2, <5>1, ZenonT(60) DEF Shifted, IsIndicator
      <4>3. CASE q # p
        <5>1. ws'[q] = ws[q] /\ i \in Int
              BY <1>4, <4>1, <4>3
        <5> QED BY <3>1, <4>3, <5>1 DEF IsIndicator
      <4> QED BY <4>2, <4>3
    <3>2. /\ rec'[p] = r
          /\ \A q \in Peer : q # p => rec'[q] = rec[q]
          BY <2>6, ZenonT(60) DEF IInv, TypeOK
    <3>3. IsIndicator(p, 1) /\ ws[p][1].id = r.id /\ 1 \in DOMAIN ws[p]
          BY <1>1, <1>2, <1>3, <1>7, <2>5, SMTT(60) DEF IsIndicator
    <3>4. Matching /\ AllPending /\ OnWayOnce /\ StartsOnce
          BY DEF IInv, Matching
    <3>5. /\ pending_dedup_streams' = pending_dedup_streams /\ next_id' = next_id
          /\ accepting' = accepting /\ streams' = streams /\ srv' = srv
          BY <1>4, ZenonT(60) DEF server
    <3>6. AllPending'
      <4>1. ASSUME NEW q \in Peer, NEW i \in DOMAIN ws'[q], IsIndicator(q, i)'
            PROVE  Pends(ws'[q][i].id, q)
            BY <3>1, <3>4, <4>1, SMTT(60) DEF AllPending
      <4>2. ASSUME NEW q \in Peer, rec'[q].at = "open" PROVE Pends(rec'[q].id, q)
            BY <3>2, <3>3, <3>4, <4>2, ZenonT(60) DEF AllPending
      <4>3. \A i \in DOMAIN streams : streams[i].id \notin First => Pends(streams[i].id, streams[i].peer)
            BY <3>4, ZenonT(60) DEF AllPending
      <4> QED BY <3>5, <4>1, <4>2, <4>3, ZenonT(60) DEF AllPending, Pends
    <3>7. OnWayOnce'
      <4>1. ASSUME NEW q \in Peer, NEW i \in DOMAIN ws'[q], NEW j \in DOMAIN ws'[q],
                   IsIndicator(q, i)', IsIndicator(q, j)', ws'[q][i].id = ws'[q][j].id
            PROVE  i = j
        <5>1. PICK a \in DOMAIN ws[q] : /\ IsIndicator(q, a) /\ ws[q][a] = ws'[q][i]
                                        /\ a = (IF q = p THEN i + 1 ELSE i) /\ i \in Int
              BY <3>1, <4>1, ZenonT(60)
        <5>2. PICK b \in DOMAIN ws[q] : /\ IsIndicator(q, b) /\ ws[q][b] = ws'[q][j]
                                        /\ b = (IF q = p THEN j + 1 ELSE j) /\ j \in Int
              BY <3>1, <4>1, ZenonT(60)
        <5>3. a = b
              BY <3>4, <4>1, <5>1, <5>2, ZenonT(60) DEF OnWayOnce
        <5> QED BY <5>1, <5>2, <5>3
      <4>2. ASSUME NEW q \in Peer, NEW i \in DOMAIN ws'[q], IsIndicator(q, i)'
            PROVE  /\ rec'[q].at = "open" => ws'[q][i].id # rec'[q].id
                   /\ \A j \in DOMAIN streams : streams[j].id # ws'[q][i].id
        <5>1. PICK a \in DOMAIN ws[q] : /\ IsIndicator(q, a) /\ ws[q][a] = ws'[q][i]
                                        /\ a = (IF q = p THEN i + 1 ELSE i) /\ i \in Int
              BY <3>1, <4>2, ZenonT(60)
        <5>2. \A j \in DOMAIN streams : streams[j].id # ws'[q][i].id
              BY <3>4, <5>1, SMTT(60) DEF OnWayOnce
        <5>3. CASE q # p
              BY <3>2, <3>4, <5>1, <5>2, <5>3, ZenonT(60) DEF OnWayOnce
        <5>4. CASE q = p
          <6>1. ws'[q] \in Seq(StreamFrame)
                BY <2>9, ZenonT(60) DEF TypeOK
          <6>2. a # 1
                BY <5>1, <5>4, <6>1
          <6>3. ws[p][a].id # r.id
                BY <3>3, <3>4, <5>1, <5>4, <6>2, ZenonT(60) DEF OnWayOnce
          <6> QED BY <3>2, <5>1, <5>2, <5>4, <6>3
        <5> QED BY <5>3, <5>4, ZenonT(60)
      <4>3. ASSUME NEW q \in Peer, NEW i \in DOMAIN streams, rec'[q].at = "open"
            PROVE  streams[i].id # rec'[q].id
            BY <3>2, <3>3, <3>4, <4>3 DEF OnWayOnce
      <4>4. \A i, j \in DOMAIN streams : Alike(streams[i], streams[j]) => i = j
            BY <3>4, ZenonT(60) DEF OnWayOnce
      <4> QED BY <3>5, <4>1, <4>2, <4>3, <4>4, ZenonT(60) DEF OnWayOnce
    <3>8. \A q \in Peer : /\ cli'[q].at = "off" => cli[q].at = "off"
                          /\ cli[q].at = "silent" => cli'[q].at = "silent"
          BY <1>2, <2>2, <2>6, ZenonT(60) DEF IInv, TypeOK
    <3>9. StartsOnce'
      <4>1. \A i \in DOMAIN streams : streams[i].peer \in Peer
            BY StreamPeers, ZenonT(60)
      <4> QED BY <3>4, <3>5, <3>8, <4>1, ZenonT(60) DEF StartsOnce
    <3>10. Accepting'
           BY <3>4, <3>5, <3>8, ZenonT(60) DEF Matching, Accepting
    <3> QED BY <3>4, <3>5, <3>6, <3>7, <3>9, <3>10, ZenonT(60) DEF Matching
  <2> QED BY <2>9, <2>10 DEF IInv
<1> QED BY <1>6, <1>7, ZenonT(60)

-----------------------------------------------------------------------------
(* A stream is opened, with an id that is on its way nowhere else. *)
LEMMA OpenedMatches ==
    ASSUME IInv, NEW p \in Peer, NEW id \in Nat \cup First, OpenStream(p, id),
           UNCHANGED <<pending_dedup_streams, next_id, accepting, srv, ws>>,
           id \notin First => Pends(id, p),
           id \in First => srv[p].at = "off" /\ cli'[p].at # "off",
           id # Empty,
           \A i \in DOMAIN streams : ~Alike(streams[i], [id |-> id, peer |-> p]),
           \A q \in Peer : \A i \in DOMAIN ws[q] : IsIndicator(q, i) => ws[q][i].id # id,
           \A q \in Peer : rec'[q].at = "open" => rec'[q] = rec[q] /\ rec[q].id # id,
           \A q \in Peer : /\ cli'[q].at = "off" => cli[q].at = "off"
                           /\ cli[q].at = "silent" => cli'[q].at = "silent"
    PROVE  Matching'
<1>1. PICK s \in Stream : s = [id |-> id, peer |-> p]
      BY ZenonT(60) DEF Stream
<1>2. s.id = id /\ s.peer = p
      BY <1>1, ZenonT(60)
<1>3. streams \in Seq(Stream) /\ streams' = Append(streams, s)
      BY <1>1, ZenonT(60) DEF OpenStream, IInv, TypeOK
<1>4. PICK n \in Nat : n = Len(streams)
      BY <1>3, Measured, ZenonT(60)
<1>5. /\ DOMAIN streams = 1 .. n /\ DOMAIN streams' = 1 .. (n + 1) /\ streams'[n + 1] = s
      /\ \A i \in 1 .. n : streams'[i] = streams[i]
  <2>1. /\ DOMAIN streams = 1 .. n /\ DOMAIN Append(streams, s) = 1 .. (n + 1)
        /\ Append(streams, s)[n + 1] = s /\ \A i \in 1 .. n : Append(streams, s)[i] = streams[i]
        BY <1>3, <1>4, Appended
  <2> QED BY <1>3, <2>1, ZenonT(60)
<1>6. \A i \in DOMAIN streams' : (i \in DOMAIN streams /\ streams'[i] = streams[i]) \/ (i = n + 1 /\ streams'[i] = s)
      BY <1>5
<1>7. Matching /\ AllPending /\ OnWayOnce /\ StartsOnce
      BY ZenonT(60) DEF IInv, Matching
<1>8. AllPending'
  <2>1. ASSUME NEW q \in Peer, NEW i \in DOMAIN ws[q], IsIndicator(q, i) PROVE Pends(ws[q][i].id, q)
        BY <1>7, <2>1, ZenonT(60) DEF AllPending
  <2>2. ASSUME NEW q \in Peer, rec'[q].at = "open" PROVE Pends(rec'[q].id, q)
        BY <1>7, <2>2, ZenonT(60) DEF AllPending
  <2>3. ASSUME NEW i \in DOMAIN streams', streams'[i].id \notin First
        PROVE  Pends(streams'[i].id, streams'[i].peer)
        BY <1>2, <1>6, <1>7, <2>3, ZenonT(60) DEF AllPending
  <2> QED BY <2>1, <2>2, <2>3, ZenonT(60) DEF AllPending, Pends, IsIndicator
<1>9. OnWayOnce'
  <2>1. ASSUME NEW q \in Peer, NEW i \in DOMAIN ws[q], NEW j \in DOMAIN ws[q],
               IsIndicator(q, i), IsIndicator(q, j), ws[q][i].id = ws[q][j].id
        PROVE  i = j
        BY <1>7, <2>1, ZenonT(60) DEF OnWayOnce
  <2>2. ASSUME NEW q \in Peer, NEW i \in DOMAIN ws[q], IsIndicator(q, i), rec'[q].at = "open"
        PROVE  ws[q][i].id # rec'[q].id
        BY <1>7, <2>2, ZenonT(60) DEF OnWayOnce
  <2>3. ASSUME NEW q \in Peer, NEW i \in DOMAIN streams', rec'[q].at = "open"
        PROVE  streams'[i].id # rec'[q].id
        BY <1>2, <1>6, <1>7, <2>3, SMTT(60) DEF OnWayOnce
  <2>4. ASSUME NEW q \in Peer, NEW i \in DOMAIN ws[q], NEW j \in DOMAIN streams', IsIndicator(q, i)
        PROVE  streams'[j].id # ws[q][i].id
        BY <1>2, <1>6, <1>7, <2>4, SMTT(60) DEF OnWayOnce
  <2>5. ASSUME NEW i \in DOMAIN streams', NEW j \in DOMAIN streams', Alike(streams'[i], streams'[j])
        PROVE  i = j
    <3>1. \A k \in DOMAIN streams : ~Alike(streams[k], s) /\ ~Alike(s, streams[k])
          BY <1>1, ZenonT(60) DEF Alike
    <3> QED BY <1>6, <1>7, <2>5, <3>1, ZenonT(60) DEF OnWayOnce
  <2> QED BY <2>1, <2>2, <2>3, <2>4, <2>5, ZenonT(60) DEF OnWayOnce, IsIndicator
<1>10. StartsOnce'
  <2>1. \A i \in DOMAIN streams : streams[i].peer \in Peer
        BY StreamPeers, ZenonT(60)
  <2>2. ASSUME NEW i \in DOMAIN streams', streams'[i].id \in First
        PROVE  srv[streams'[i].peer].at = "off" /\ cli'[streams'[i].peer].at # "off"
    <3>1. CASE i \in DOMAIN streams /\ streams'[i] = streams[i]
          BY <1>7, <2>1, <2>2, <3>1, ZenonT(60) DEF StartsOnce
    <3>2. CASE streams'[i] = s
          BY <1>2, <2>2, <3>2, ZenonT(60)
    <3> QED BY <1>6, <3>1, <3>2, ZenonT(60)
  <2>3. ASSUME NEW i \in DOMAIN streams', streams'[i].id = Empty
        PROVE  cli'[streams'[i].peer].at = "silent"
    <3>1. CASE i \in DOMAIN streams /\ streams'[i] = streams[i]
          BY <1>7, <2>1, <2>3, <3>1, ZenonT(60) DEF StartsOnce
    <3>2. CASE streams'[i] = s
          BY <1>2, <2>3, <3>2, ZenonT(60)
    <3> QED BY <1>6, <3>1, <3>2, ZenonT(60)
  <2>4. ASSUME NEW q \in Peer, cli'[q].at = "off" PROVE srv[q].at = "off"
        BY <1>7, <2>4, ZenonT(60) DEF StartsOnce
  <2> QED BY <2>2, <2>3, <2>4, ZenonT(60) DEF StartsOnce
<1>11. Accepting'
      BY <1>7, ZenonT(60) DEF Matching, Accepting
<1> QED BY <1>7, <1>8, <1>9, <1>10, <1>11, SMTT(60) DEF Matching

(* Ids that are on their way to different peers differ, and none is that of *)
(* a first stream.                                                          *)
LEMMA PendingIds ==
    ASSUME IInv, NEW p \in Peer, NEW id, Pends(id, p)
    PROVE  /\ id \in Nat /\ id \notin First
           /\ id < next_id
           /\ \A q \in Peer : Pends(id, q) => q = p
<1>1. id \in 1 .. next_id - 1 /\ next_id \in Nat
      BY DEF IInv, TypeOK, Matching, Pends
<1> QED BY <1>1 DEF Pends, First, Blank, Empty

LEMMA OpenDedupPreserves ==
    ASSUME IInv, NEW p \in Peer, OpenDedup(p)
    PROVE  IInv'
<1>1. rec[p] \in Reconstruction /\ rec[p].at = "open" /\ OpenStream(p, rec[p].id)
      /\ streams \in Seq(Stream) /\ rec \in [Peer -> Reconstruction]
      BY DEF OpenDedup, IInv, TypeOK
<1>2. PICK id \in Nat : id = rec[p].id
      BY <1>1 DEF Reconstruction
<1>3. UNCHANGED <<server, ws, cli, fragments, game, faults, spoiled>>
      BY DEF OpenDedup
<1>4. PICK r \in Reconstruction : r.at = "describe" /\ rec' = [rec EXCEPT ![p] = r]
  <2>1. PICK r : r = [rec[p] EXCEPT !.at = "describe"]
        BY ZenonT(60)
  <2>2. r \in Reconstruction
        BY <1>1, <2>1, ZenonT(60) DEF Reconstruction
  <2>3. r.at = "describe"
        BY <1>1, <2>1 DEF Reconstruction
  <2> QED BY <2>1, <2>2, <2>3, ZenonT(60) DEF OpenDedup
<1>5. AllPending /\ OnWayOnce
      BY ZenonT(60) DEF IInv, Matching
<1>6. Pends(id, p)
      BY <1>1, <1>2, <1>5 DEF AllPending
<1>7. id \notin First /\ \A q \in Peer : Pends(id, q) => q = p
      BY <1>6, PendingIds
<1>8. Matching'
  <2>1. ASSUME NEW i \in DOMAIN streams PROVE ~Alike(streams[i], [id |-> id, peer |-> p])
    <3>1. streams[i].id # id
          BY <1>1, <1>2, <1>5, SMTT(60) DEF OnWayOnce
    <3>2. [id |-> id, peer |-> p].id = id
          OBVIOUS
    <3> QED BY <1>7, <3>1, <3>2, ZenonT(60) DEF Alike
  <2>2. ASSUME NEW q \in Peer, NEW i \in DOMAIN ws[q], IsIndicator(q, i) PROVE ws[q][i].id # id
    <3>1. Pends(ws[q][i].id, q)
          BY <1>5, <2>2, ZenonT(60) DEF AllPending
    <3>2. q = p => ws[q][i].id # id
          BY <1>1, <1>2, <1>5, <2>2, ZenonT(60) DEF OnWayOnce
    <3> QED BY <1>7, <3>1, <3>2, ZenonT(60)
  <2>3. ASSUME NEW q \in Peer, rec'[q].at = "open" PROVE rec'[q] = rec[q] /\ rec[q].id # id
    <3>1. q # p /\ rec'[q] = rec[q]
          BY <1>1, <1>4, <2>3, ZenonT(60)
    <3>2. Pends(rec[q].id, q)
          BY <1>5, <2>3, <3>1 DEF AllPending
    <3> QED BY <1>7, <3>1, <3>2
  <2>4. UNCHANGED <<pending_dedup_streams, next_id, accepting, srv, ws, cli>>
        BY <1>3 DEF server
  <2>5. OpenStream(p, id)
        BY <1>1, <1>2, ZenonT(60)
  <2>6. id \in Nat \cup First /\ id # Empty /\ cli' = cli
        BY <1>3, <1>7, ZenonT(60) DEF First
  <2> QED BY <1>6, <1>7, <2>1, <2>2, <2>3, <2>4, <2>5, <2>6, OpenedMatches, ZenonT(60)
<1>9. TypeOK'
  <2>1. streams' \in Seq(Stream)
    <3>1. [id |-> id, peer |-> p] \in Stream
          BY DEF Stream
    <3> QED BY <1>1, <1>2, <3>1 DEF OpenStream
  <2>2. rec' \in [Peer -> Reconstruction]
        BY <1>1, <1>4, ZenonT(60)
  <2> QED BY <1>3, <2>1, <2>2 DEF server, IInv, TypeOK
<1>10. \A q \in Peer : Shaped(q)'
      BY <1>3 DEF IInv, Shaped, server
<1> QED BY <1>8, <1>9, <1>10 DEF IInv

LEMMA ConnectPreserves ==
    ASSUME IInv, NEW p \in Peer, Connect(p)
    PROVE  IInv'
<1>1. cli[p].at = "off" /\ OpenStream(p, Blank) /\ streams \in Seq(Stream)
      /\ cli \in [Peer -> ClientTask]
      BY DEF Connect, IInv, TypeOK
<1>2. UNCHANGED <<server, ws, rec, fragments, game, faults, spoiled>>
      BY DEF Connect
<1>3. PICK c \in ClientTask : c.at = "opened" /\ cli' = [cli EXCEPT ![p] = c]
  <2>1. PICK c : c = [cli[p] EXCEPT !.at = "opened"]
        BY ZenonT(60)
  <2>2. c \in ClientTask
        BY <1>1, <2>1, ZenonT(60) DEF ClientTask
  <2>3. c.at = "opened"
        BY <1>1, <2>1 DEF ClientTask
  <2> QED BY <2>1, <2>2, <2>3, ZenonT(60) DEF Connect
<1>4. AllPending /\ StartsOnce
      BY DEF IInv, Matching
<1>5. Matching'
  <2>1. Blank \in Nat \cup First /\ Blank \in First /\ Blank # Empty
        BY DEF First, Blank, Empty
  <2>2. ASSUME NEW i \in DOMAIN streams PROVE ~Alike(streams[i], [id |-> Blank, peer |-> p])
    <3>1. PICK s : s = [id |-> Blank, peer |-> p]
          BY ZenonT(60)
    <3>2. s.id = Blank /\ s.peer = p
          BY <3>1
    <3>3. ~Alike(streams[i], s)
          BY <1>1, <1>4, <2>1, <3>2, ZenonT(60) DEF Alike, StartsOnce
    <3> QED BY <3>1, <3>3, ZenonT(60)
  <2>3. ASSUME NEW q \in Peer, NEW i \in DOMAIN ws[q], IsIndicator(q, i) PROVE ws[q][i].id # Blank
    <3>1. Pends(ws[q][i].id, q)
          BY <1>4, <2>3, ZenonT(60) DEF AllPending
    <3> QED BY <2>1, <3>1, PendingIds, ZenonT(60)
  <2>4. ASSUME NEW q \in Peer, rec[q].at = "open" PROVE rec[q].id # Blank
    <3>1. Pends(rec[q].id, q)
          BY <1>4, <2>4 DEF AllPending
    <3> QED BY <2>1, <3>1, PendingIds, ZenonT(60)
  <2>5. \A q \in Peer : /\ cli'[q].at = "off" => cli[q].at = "off"
                        /\ cli[q].at = "silent" => cli'[q].at = "silent"
        BY <1>1, <1>3
  <2>6. UNCHANGED <<pending_dedup_streams, next_id, accepting, srv, ws, rec>>
        BY <1>2 DEF server
  <2>7. \A q \in Peer : rec'[q].at = "open" => rec'[q] = rec[q] /\ rec[q].id # Blank
        BY <2>4, <2>6
  <2>8. srv[p].at = "off" /\ cli'[p].at # "off"
        BY <1>1, <1>3, <1>4, ZenonT(60) DEF StartsOnce
  <2> QED BY <1>1, <2>1, <2>2, <2>3, <2>5, <2>6, <2>7, <2>8, OpenedMatches, ZenonT(60)
<1>6. TypeOK'
  <2>1. streams' \in Seq(Stream)
    <3>1. [id |-> Blank, peer |-> p] \in Stream
          BY DEF Stream, First
    <3> QED BY <1>1, <3>1 DEF OpenStream
  <2>2. cli' \in [Peer -> ClientTask]
        BY <1>1, <1>3
  <2> QED BY <1>2, <2>1, <2>2 DEF server, IInv, TypeOK
<1>7. ASSUME NEW q \in Peer PROVE Shaped(q)'
  <2>1. Shape(srv[q].at, cli[q], ws[q], incoming[q], game[q], fragments[q])
        BY ZenonT(60) DEF IInv, Shaped
  <2>2. CASE q = p
    <3>1. cli'[q] = c
          BY <1>1, <1>3, <2>2, ZenonT(60)
    <3>2. Shape(srv[q].at, c, ws[q], incoming[q], game[q], fragments[q])
          BY <1>1, <1>3, <2>1, <2>2, ZenonT(60) DEF Shape, Forwarded, Fits, Resumes
    <3> QED BY <1>2, <3>1, <3>2, ZenonT(60) DEF Shaped, server
  <2>3. CASE q # p
    <3>1. cli'[q] = cli[q]
          BY <1>1, <1>3, <2>3
    <3> QED BY <1>2, <2>1, <3>1 DEF Shaped, server
  <2> QED BY <2>2, <2>3, ZenonT(60)
<1> QED BY <1>5, <1>6, <1>7 DEF IInv

(* The first stream of a peer is given its id, or ends without one. *)
LEMMA NamedMatches ==
    ASSUME IInv, NEW p \in Peer, NEW id \in First, NameStream(p, id),
           UNCHANGED <<pending_dedup_streams, next_id, accepting, srv, ws, rec>>,
           NEW c \in ClientTask, cli' = [cli EXCEPT ![p] = c], c.at # "off",
           id = Empty => c.at = "silent", cli[p].at # "silent"
    PROVE  Matching' /\ streams' \in Seq(Stream)
<1>1. PICK i \in DOMAIN streams : /\ streams[i] = [id |-> Blank, peer |-> p]
                                  /\ streams' = [streams EXCEPT ![i].id = id]
      BY ZenonT(60) DEF NameStream
<1>2. PICK s \in Stream : s = [id |-> id, peer |-> p]
      BY DEF Stream
<1>3. s.id = id /\ s.peer = p /\ streams[i].id = Blank /\ streams[i].peer = p /\ Blank \in First
      BY <1>1, <1>2 DEF First
<1>4. streams' = [streams EXCEPT ![i] = s]
  <2>1. [[id |-> Blank, peer |-> p] EXCEPT !.id = id] = [id |-> id, peer |-> p]
        OBVIOUS
  <2> QED BY <1>1, <1>2, <2>1, ZenonT(60)
<1>5. streams \in Seq(Stream) /\ cli \in [Peer -> ClientTask]
      BY ZenonT(60) DEF IInv, TypeOK
<1>6. /\ DOMAIN streams' = DOMAIN streams /\ streams'[i] = s
      /\ \A j \in DOMAIN streams : j # i => streams'[j] = streams[j]
      BY <1>4, <1>5
<1>7. streams' \in Seq(Stream)
      BY <1>4, <1>5
<1>8. Matching /\ AllPending /\ OnWayOnce /\ StartsOnce
      BY ZenonT(60) DEF IInv, Matching
<1>9. \A q \in Peer : q # p => cli'[q] = cli[q]
      BY <1>5, ZenonT(60)
<1>10. cli'[p] = c
      BY <1>5, ZenonT(60)
<1>11. AllPending'
  <2>1. \A j \in DOMAIN streams' : streams'[j].id \notin First => Pends(streams'[j].id, streams'[j].peer)
        BY <1>3, <1>6, <1>8, ZenonT(60) DEF AllPending
  <2> QED BY <1>8, <2>1, ZenonT(60) DEF AllPending, Pends, IsIndicator
<1>12. OnWayOnce'
  <2>1. ASSUME NEW q \in Peer, NEW j \in DOMAIN streams', rec[q].at = "open"
        PROVE  streams'[j].id # rec[q].id
    <3>1. Pends(rec[q].id, q)
          BY <1>8, <2>1, ZenonT(60) DEF AllPending
    <3>2. rec[q].id \notin First
          BY <3>1, PendingIds, ZenonT(60)
    <3> QED BY <1>3, <1>6, <1>8, <2>1, <3>2, ZenonT(60) DEF OnWayOnce
  <2>2. ASSUME NEW q \in Peer, NEW k \in DOMAIN ws[q], NEW j \in DOMAIN streams', IsIndicator(q, k)
        PROVE  streams'[j].id # ws[q][k].id
    <3>1. Pends(ws[q][k].id, q)
          BY <1>8, <2>2, ZenonT(60) DEF AllPending
    <3>2. ws[q][k].id \notin First
          BY <3>1, PendingIds, ZenonT(60)
    <3>3. CASE j = i
          BY <1>3, <1>6, <3>2, <3>3, ZenonT(60)
    <3>4. CASE j # i
      <4>1. streams'[j] = streams[j] /\ j \in DOMAIN streams
            BY <1>6, <3>4, ZenonT(60)
      <4>2. streams[j].id # ws[q][k].id
            BY <1>8, <2>2, <4>1, ZenonT(60) DEF OnWayOnce
      <4> QED BY <4>1, <4>2, ZenonT(60)
    <3> QED BY <3>3, <3>4, ZenonT(60)
  <2>3. ASSUME NEW j \in DOMAIN streams', NEW k \in DOMAIN streams', Alike(streams'[j], streams'[k])
        PROVE  j = k
    <3>1. \A t : (Alike(s, t) => Alike(streams[i], t)) /\ (Alike(t, s) => Alike(t, streams[i]))
          BY <1>3, ZenonT(60) DEF Alike
    <3>2. Alike(streams[j], streams[k])
      <4>1. CASE j = i /\ k = i
            BY <1>3, <4>1, ZenonT(60) DEF Alike
      <4>2. CASE j = i /\ k # i
            BY <1>6, <2>3, <3>1, <4>2, ZenonT(60)
      <4>3. CASE j # i /\ k = i
            BY <1>6, <2>3, <3>1, <4>3, ZenonT(60)
      <4>4. CASE j # i /\ k # i
            BY <1>6, <2>3, <4>4, ZenonT(60)
      <4> QED BY <4>1, <4>2, <4>3, <4>4, ZenonT(60)
    <3> QED BY <1>6, <1>8, <3>2, ZenonT(60) DEF OnWayOnce
  <2> QED BY <1>8, <2>1, <2>2, <2>3, ZenonT(60) DEF OnWayOnce, IsIndicator
<1>13. StartsOnce'
  <2>1. \A j \in DOMAIN streams : streams[j].peer \in Peer
        BY StreamPeers, ZenonT(60)
  <2>2. \A q \in Peer : cli'[q].at = "off" => cli[q].at = "off"
        BY <1>9, <1>10, ZenonT(60)
  <2>3. ASSUME NEW j \in DOMAIN streams', streams'[j].id \in First
        PROVE  srv[streams'[j].peer].at = "off" /\ cli'[streams'[j].peer].at # "off"
    <3>1. PICK k \in DOMAIN streams : streams'[j].peer = streams[k].peer /\ streams[k].id \in First
          BY <1>3, <1>6, <2>3, ZenonT(60)
    <3>2. srv[streams[k].peer].at = "off" /\ cli[streams[k].peer].at # "off" /\ streams[k].peer \in Peer
          BY <1>8, <2>1, <3>1, ZenonT(60) DEF StartsOnce
    <3> QED BY <2>2, <3>1, <3>2, ZenonT(60)
  <2>4. ASSUME NEW j \in DOMAIN streams', streams'[j].id = Empty
        PROVE  cli'[streams'[j].peer].at = "silent"
    <3>1. CASE j = i
          BY <1>3, <1>6, <1>10, <2>4, <3>1, ZenonT(60)
    <3>2. CASE j # i
      <4>1. streams'[j] = streams[j] /\ j \in DOMAIN streams
            BY <1>6, <3>2, ZenonT(60)
      <4>2. cli[streams[j].peer].at = "silent" /\ streams[j].peer \in Peer
            BY <1>8, <2>1, <2>4, <4>1, ZenonT(60) DEF StartsOnce
      <4> QED BY <1>9, <4>1, <4>2, ZenonT(60)
    <3> QED BY <3>1, <3>2, ZenonT(60)
  <2> QED BY <1>8, <2>2, <2>3, <2>4, ZenonT(60) DEF StartsOnce
<1>14. Accepting'
      BY <1>8, <1>9, ZenonT(60) DEF Matching, Accepting
<1> QED BY <1>7, <1>8, <1>11, <1>12, <1>13, <1>14, SMTT(60) DEF Matching

(* The other steps of the handshake. *)
LEMMA HandshakePreserves ==
    ASSUME IInv, NEW p \in Peer, WriteId(p) \/ WriteInfo(p) \/ Leave(p)
    PROVE  IInv'
<1>1. /\ cli[p] \in ClientTask /\ fragments[p] \in Seq(Seq(Piece)) /\ Len(fragments[p]) <= Capacity
      /\ game[p] \in Messages /\ ws[p] \in Seq(StreamFrame) /\ rec[p] \in Reconstruction
      /\ Shape(srv[p].at, cli[p], ws[p], incoming[p], game[p], fragments[p])
      /\ faults \in 0 .. MaxFaults /\ spoiled \subseteq Peer
      BY PeerFacts
<1>2. PICK at \in {"named", "copy", "silent", "left"} :
          /\ cli' = [cli EXCEPT ![p].at = at]
          /\ \/ at = "named" /\ NameStream(p, 0)
             \/ at = "silent" /\ NameStream(p, Empty)
             \/ at \in {"copy", "left"} /\ streams' = streams
      BY ZenonT(60) DEF WriteId, WriteInfo, Leave
<1>3. PICK c : c = [cli[p] EXCEPT !.at = at]
      BY ZenonT(60)
<1>4. c \in ClientTask
      BY <1>1, <1>3, ZenonT(60) DEF ClientTask
<1>5. c.at = at
      BY <1>1, <1>3 DEF ClientTask
<1>6. cli' = [cli EXCEPT ![p] = c] /\ UNCHANGED <<server, ws, rec, fragments, game, spoiled>>
      BY <1>2, <1>3, ZenonT(60) DEF WriteId, WriteInfo, Leave
<1>7. cli[p].at \in {"opened", "named"} /\ faults' \in 0 .. MaxFaults
      BY <1>1, BoundsAssumption DEF WriteId, WriteInfo, Leave
<1>8. Shape(srv[p].at, c, ws[p], incoming[p], game[p], fragments[p])
      BY <1>1, <1>2, <1>5, <1>7, ZenonT(60) DEF Shape, Forwarded, Fits, Resumes
<1>9. CASE streams' = streams
  <2>1. ClientActs(p, c, rec[p], fragments[p], game[p], ws[p])
        BY <1>1, <1>6, <1>7, <1>9 DEF ClientActs, IInv, TypeOK
  <2>2. Shifted(ws[p], ws[p], 0) /\ 0 \in 0 .. 1
        BY <1>1, SameIndicators, ZenonT(60)
  <2>3. c.at # "off" /\ cli[p].at \notin {"off", "silent"}
        BY <1>2, <1>5, <1>7, ZenonT(60)
  <2> QED BY <1>1, <1>4, <1>8, <2>1, <2>2, <2>3, ClientActed, ZenonT(60)
<1>10. CASE NameStream(p, 0) \/ (at = "silent" /\ NameStream(p, Empty))
  <2>1. PICK id \in First : NameStream(p, id) /\ (id = Empty => c.at = "silent")
    <3>1. 0 \in First /\ Empty \in First /\ 0 # Empty
          BY DEF First, Empty
    <3> QED BY <1>5, <1>10, <3>1, ZenonT(60)
  <2>2. UNCHANGED <<pending_dedup_streams, next_id, accepting, srv, ws, rec>>
        BY <1>6, ZenonT(60) DEF server
  <2>3. c.at # "off" /\ cli[p].at # "silent"
        BY <1>2, <1>5, <1>7, ZenonT(60)
  <2>4. Matching' /\ streams' \in Seq(Stream)
        BY <1>4, <1>6, <2>1, <2>2, <2>3, NamedMatches, ZenonT(60)
  <2>5. cli \in [Peer -> ClientTask]
        BY ZenonT(60) DEF IInv, TypeOK
  <2>6. TypeOK'
    <3>1. cli' \in [Peer -> ClientTask]
          BY <1>4, <1>6, <2>5
    <3> QED BY <1>6, <1>7, <2>4, <3>1 DEF server, IInv, TypeOK
  <2>7. ASSUME NEW q \in Peer PROVE Shaped(q)'
    <3>1. cli'[q] = IF q = p THEN c ELSE cli[q]
          BY <1>6, <2>5
    <3>2. Shape(srv[q].at, cli[q], ws[q], incoming[q], game[q], fragments[q])
          BY ZenonT(60) DEF IInv, Shaped
    <3>3. Shape(srv[q].at, cli'[q], ws[q], incoming[q], game[q], fragments[q])
          BY <1>8, <3>1, <3>2
    <3> QED BY <1>6, <3>3 DEF Shaped, server
  <2> QED BY <2>4, <2>6, <2>7 DEF IInv
<1> QED BY <1>2, <1>9, <1>10, ZenonT(60)

-----------------------------------------------------------------------------
(* Registering an id. *)
LEMMA RegisterKeeps ==
    ASSUME IInv, NEW p \in Peer, pending_dedup_streams' = Register(next_id, p), next_id' = next_id + 1
    PROVE  /\ next_id \in Nat /\ next_id >= 1
           /\ pending_dedup_streams' \in PendingDedupStreamsMap(next_id')
           /\ DOMAIN pending_dedup_streams' \subseteq 1 .. next_id' - 1
           /\ next_id \in DOMAIN pending_dedup_streams' /\ pending_dedup_streams'[next_id] = p
           /\ \A id, q : Pends(id, q) => id # next_id /\ Pends(id, q)'
<1> DEFINE m == pending_dedup_streams
           ids == DOMAIN m \cup {next_id}
<1>1. next_id \in Nat /\ next_id >= 1 /\ DOMAIN m \subseteq 1 .. next_id - 1
      BY ZenonT(60) DEF IInv, TypeOK, Matching
<1>2. \A i \in DOMAIN m : m[i] \in Peer
  <2>1. m \in PendingDedupStreamsMap(next_id)
        BY Zenon DEF IInv, TypeOK
  <2>2. PICK S : m \in [S -> Peer]
        BY <2>1, Zenon DEF PendingDedupStreamsMap
  <2> QED BY <2>2, Zenon
<1>3. m' = [i \in ids |-> IF i = next_id THEN p ELSE m[i]]
      BY DEF Register
<1>4. m' \in [ids -> Peer] /\ DOMAIN m' = ids
      BY <1>2, <1>3
<1>5. ids \subseteq 1 .. next_id' - 1 /\ ids \subseteq 1 .. next_id'
      BY <1>1
<1>6. m' \in PendingDedupStreamsMap(next_id')
      BY <1>4, <1>5 DEF PendingDedupStreamsMap
<1>7. \A i \in DOMAIN m : i # next_id /\ m'[i] = m[i]
      BY <1>1, <1>3
<1>8. m'[next_id] = p
      BY <1>3
<1>9. ASSUME NEW id, NEW q, Pends(id, q) PROVE id # next_id /\ Pends(id, q)'
      BY <1>4, <1>7, <1>9, ZenonT(60) DEF Pends
<1> QED BY <1>1, <1>4, <1>5, <1>6, <1>8, <1>9

LEMMA RegisteredMatches ==
    ASSUME IInv, NEW p \in Peer, pending_dedup_streams' = Register(next_id, p), next_id' = next_id + 1,
           UNCHANGED <<accepting, streams, cli, rec>>,
           \A q \in Peer : srv'[q].to = q /\ (srv'[q].at = "off" <=> srv[q].at = "off"),
           NEW n, n \notin DOMAIN ws[p],
           \A q \in Peer : \A i \in DOMAIN ws'[q] : ws'[q][i].op = "indicator" =>
               \/ i \in DOMAIN ws[q] /\ ws'[q][i] = ws[q][i]
               \/ q = p /\ i = n /\ ws'[q][i].id = next_id
    PROVE  Matching'
<1>1. /\ next_id \in Nat /\ next_id >= 1
      /\ DOMAIN pending_dedup_streams' \subseteq 1 .. next_id' - 1
      /\ next_id \in DOMAIN pending_dedup_streams' /\ pending_dedup_streams'[next_id] = p
      /\ \A id, q : Pends(id, q) => id # next_id /\ Pends(id, q)'
      BY RegisterKeeps, ZenonT(60)
<1>2. Matching /\ AllPending /\ OnWayOnce /\ StartsOnce
      BY ZenonT(60) DEF IInv, Matching
<1>3. ASSUME NEW q \in Peer, NEW i \in DOMAIN ws'[q], IsIndicator(q, i)'
      PROVE  \/ IsIndicator(q, i) /\ ws'[q][i] = ws[q][i] /\ i \in DOMAIN ws[q] /\ ws[q][i].id # next_id
             \/ q = p /\ i = n /\ ws'[q][i].id = next_id
  <2>1. CASE i \in DOMAIN ws[q] /\ ws'[q][i] = ws[q][i]
    <3>1. IsIndicator(q, i)
          BY <1>3, <2>1, ZenonT(60) DEF IsIndicator
    <3>2. Pends(ws[q][i].id, q)
          BY <1>2, <2>1, <3>1, ZenonT(60) DEF AllPending
    <3> QED BY <1>1, <2>1, <3>1, <3>2, ZenonT(60)
  <2> QED BY <1>3, <2>1, ZenonT(60) DEF IsIndicator
<1>4. \A q \in Peer : rec[q].at = "open" => rec[q].id # next_id
      BY <1>1, <1>2, ZenonT(60) DEF AllPending
<1>5. \A i \in DOMAIN streams : streams[i].id # next_id
  <2> SUFFICES ASSUME NEW i \in DOMAIN streams, streams[i].id = next_id PROVE FALSE
      BY ZenonT(60)
  <2>1. next_id \notin First
        BY <1>1 DEF First, Blank, Empty
  <2>2. Pends(streams[i].id, streams[i].peer)
        BY <1>2, <2>1, ZenonT(60) DEF AllPending
  <2> QED BY <1>1, <2>2
<1>6. AllPending'
  <2>1. ASSUME NEW q \in Peer, NEW i \in DOMAIN ws'[q], IsIndicator(q, i)'
        PROVE  ws'[q][i].id \in DOMAIN pending_dedup_streams' /\ pending_dedup_streams'[ws'[q][i].id] = q
    <3>1. CASE IsIndicator(q, i) /\ ws'[q][i] = ws[q][i] /\ i \in DOMAIN ws[q]
      <4>1. Pends(ws[q][i].id, q)
            BY <1>2, <3>1, ZenonT(60) DEF AllPending
      <4>2. PICK id : id = ws[q][i].id
            OBVIOUS
      <4>3. Pends(id, q)'
            BY <1>1, <4>1, <4>2, Zenon
      <4> QED BY <3>1, <4>2, <4>3, Zenon DEF Pends
    <3> QED BY <1>1, <1>3, <2>1, <3>1, ZenonT(60)
  <2>2. ASSUME NEW q \in Peer, rec[q].at = "open"
        PROVE  rec[q].id \in DOMAIN pending_dedup_streams' /\ pending_dedup_streams'[rec[q].id] = q
    <3>1. Pends(rec[q].id, q)
          BY <1>2, <2>2, ZenonT(60) DEF AllPending
    <3> QED BY <1>1, <3>1, ZenonT(60) DEF Pends
  <2>3. ASSUME NEW i \in DOMAIN streams, streams[i].id \notin First
        PROVE  /\ streams[i].id \in DOMAIN pending_dedup_streams'
               /\ pending_dedup_streams'[streams[i].id] = streams[i].peer
    <3>1. Pends(streams[i].id, streams[i].peer)
          BY <1>2, <2>3, ZenonT(60) DEF AllPending
    <3> QED BY <1>1, <3>1, ZenonT(60) DEF Pends
  <2> QED BY <2>1, <2>2, <2>3, ZenonT(60) DEF AllPending, Pends
<1>7. OnWayOnce'
  <2>1. ASSUME NEW q \in Peer, NEW i \in DOMAIN ws'[q], NEW j \in DOMAIN ws'[q],
               IsIndicator(q, i)', IsIndicator(q, j)', ws'[q][i].id = ws'[q][j].id
        PROVE  i = j
    <3>1. CASE IsIndicator(q, i) /\ ws'[q][i] = ws[q][i] /\ i \in DOMAIN ws[q] /\ ws[q][i].id # next_id
      <4>1. IsIndicator(q, j) /\ ws'[q][j] = ws[q][j] /\ j \in DOMAIN ws[q]
            BY <1>3, <2>1, <3>1, Zenon
      <4> QED BY <1>2, <2>1, <3>1, <4>1, ZenonT(60) DEF OnWayOnce
    <3>2. CASE i = n /\ ws'[q][i].id = next_id
          BY <1>3, <2>1, <3>2, ZenonT(60)
    <3> QED BY <1>3, <2>1, <3>1, <3>2, Zenon
  <2>2. ASSUME NEW q \in Peer, NEW i \in DOMAIN ws'[q], IsIndicator(q, i)'
        PROVE  /\ rec[q].at = "open" => ws'[q][i].id # rec[q].id
               /\ \A j \in DOMAIN streams : streams[j].id # ws'[q][i].id
    <3>1. CASE IsIndicator(q, i) /\ ws'[q][i] = ws[q][i] /\ i \in DOMAIN ws[q]
      <4>1. rec[q].at = "open" => ws[q][i].id # rec[q].id
            BY <1>2, <3>1, Zenon DEF OnWayOnce
      <4>2. \A r \in Peer : \A k \in DOMAIN ws[r], j \in DOMAIN streams :
                IsIndicator(r, k) => streams[j].id # ws[r][k].id
            BY <1>2, Zenon DEF OnWayOnce
      <4> QED BY <3>1, <4>1, <4>2
    <3>2. CASE ws'[q][i].id = next_id
          BY <1>4, <1>5, <3>2, Zenon
    <3> QED BY <1>3, <2>2, <3>1, <3>2, Zenon
  <2>3. /\ \A q \in Peer : \A i \in DOMAIN streams : rec[q].at = "open" => streams[i].id # rec[q].id
        /\ \A i, j \in DOMAIN streams : Alike(streams[i], streams[j]) => i = j
        BY <1>2, ZenonT(60) DEF OnWayOnce
  <2>4. streams' = streams /\ rec' = rec
        BY ZenonT(60)
  <2>5. /\ \A q \in Peer : \A i \in DOMAIN ws'[q] :
               rec'[q].at = "open" /\ IsIndicator(q, i)' => ws'[q][i].id # rec'[q].id
        /\ \A q \in Peer : \A i \in DOMAIN ws'[q], j \in DOMAIN streams' :
               IsIndicator(q, i)' => streams'[j].id # ws'[q][i].id
        BY <2>2, <2>4
  <2>6. /\ \A q \in Peer : \A i \in DOMAIN streams' : rec'[q].at = "open" => streams'[i].id # rec'[q].id
        /\ \A i, j \in DOMAIN streams' : Alike(streams'[i], streams'[j]) => i = j
        BY <2>3, <2>4
  <2> QED BY <2>1, <2>5, <2>6, Zenon DEF OnWayOnce
<1>8. StartsOnce'
  <2>1. \A i \in DOMAIN streams : streams[i].peer \in Peer
        BY StreamPeers, ZenonT(60)
  <2> QED BY <1>2, <2>1, ZenonT(60) DEF StartsOnce
<1>9. next_id' >= 1
      BY <1>1, SMTT(60)
<1>10. Accepting'
      BY <1>2, ZenonT(60) DEF Matching, Accepting
<1> QED BY <1>1, <1>2, <1>6, <1>7, <1>8, <1>9, <1>10, ZenonT(60) DEF Matching

LEMMA StartDedupPreserves ==
    ASSUME IInv, NEW p \in Peer, StartDedup(p)
    PROVE  IInv'
<1>1. /\ srv[p] \in ServerTask /\ srv[p].to = p /\ srv[p].at = "gathered"
      /\ ws[p] \in Seq(StreamFrame)
      /\ Shape("gathered", cli[p], ws[p], incoming[p], game[p], fragments[p])
      BY PeerFacts DEF StartDedup
<1>2. /\ pending_dedup_streams' = Register(next_id, p) /\ next_id' = next_id + 1
      /\ UNCHANGED <<incoming, accepting, client, streams, faults>>
      BY DEF StartDedup, FollowingId
<1>3. next_id \in Nat /\ pending_dedup_streams' \in PendingDedupStreamsMap(next_id')
      BY <1>2, RegisterKeeps
<1>4. srv \in [Peer -> ServerTask] /\ ws \in [Peer -> Seq(StreamFrame)] /\ \A q \in Peer : srv[q].to = q
      BY DEF IInv, TypeOK, Matching
<1>5. PICK f \in StreamFrame : f = Indicator(next_id) /\ f.id = next_id
  <2>1. Indicator(next_id) \in StreamFrame /\ Indicator(next_id).id = next_id
        BY <1>3 DEF Indicator, StreamFrame
  <2> QED BY <2>1
<1>6. PICK s \in ServerTask, w \in Seq(StreamFrame) :
          /\ srv' = [srv EXCEPT ![p] = s] /\ ws' = [ws EXCEPT ![p] = w]
          /\ s.to = p /\ s.at # "off" /\ w \in {ws[p], Append(ws[p], f)}
          /\ Shape(s.at, cli[p], w, incoming[p], game[p], fragments[p])
  <2>1. CASE ws' = [ws EXCEPT ![p] = Append(@, Indicator(next_id))]
             /\ srv' = [srv EXCEPT ![p] = [srv[p] EXCEPT !.at = "wait"]]
    <3>1. PICK s \in ServerTask : s = [srv[p] EXCEPT !.at = "wait"] /\ s.at = "wait" /\ s.to = p
      <4>1. "wait" \in ServerAt
            BY DEF ServerAt
      <4> QED BY <1>1, <4>1, ServerMove
    <3>2. Shape("wait", cli[p], Append(ws[p], Indicator(next_id)), incoming[p], game[p], fragments[p])
          BY <1>1, <1>3, ShapeAnnounces, ZenonT(60)
    <3>3. Append(ws[p], f) \in Seq(StreamFrame)
          BY <1>1
    <3> QED BY <1>5, <2>1, <3>1, <3>2, <3>3, ZenonT(60)
  <2>2. CASE cli[p].at = "ended" /\ srv' = [srv EXCEPT ![p].at = "ended"] /\ ws' = ws
    <3>1. PICK s \in ServerTask : s = [srv[p] EXCEPT !.at = "ended"] /\ s.at = "ended" /\ s.to = p
      <4>1. "ended" \in ServerAt
            BY DEF ServerAt
      <4> QED BY <1>1, <4>1, ServerMove
    <3>2. Shape("ended", cli[p], ws[p], incoming[p], game[p], fragments[p])
          BY <1>1, <2>2, ShapeGone
    <3>3. ws' = [ws EXCEPT ![p] = ws[p]]
          BY <1>4, <2>2, ZenonT(60)
    <3> QED BY <1>1, <2>2, <3>1, <3>2, <3>3, ZenonT(60)
  <2> QED BY <2>1, <2>2 DEF StartDedup, WriteThen
<1>7. Matching'
  <2>1. \A q \in Peer : srv'[q].to = q /\ (srv'[q].at = "off" <=> srv[q].at = "off")
        BY <1>1, <1>4, <1>6, ZenonT(60)
  <2>2. PICK n \in Nat : n = Len(ws[p]) + 1 /\ n \notin DOMAIN ws[p]
    <3>1. Len(ws[p]) \in Nat /\ DOMAIN ws[p] = 1 .. Len(ws[p])
          BY <1>1
    <3> QED BY <3>1
  <2>3. ASSUME NEW q \in Peer, NEW i \in DOMAIN ws'[q]
        PROVE  \/ i \in DOMAIN ws[q] /\ ws'[q][i] = ws[q][i]
               \/ q = p /\ i = n /\ ws'[q][i].id = next_id
    <3>1. CASE q = p /\ w = Append(ws[p], f)
      <4>1. ws'[p] = Append(ws[p], f)
            BY <1>4, <1>6, <3>1, ZenonT(60)
      <4>2. i = n \/ (i \in DOMAIN ws[p] /\ ws'[p][i] = ws[p][i])
            BY <1>1, <2>2, <3>1, <4>1
      <4>3. ws'[p][n] = f
        <5>1. Append(ws[p], f)[n] = f
              BY <1>1, <2>2
        <5> QED BY <4>1, <5>1, ZenonT(60)
      <4> QED BY <1>5, <3>1, <4>2, <4>3, ZenonT(60)
    <3>2. CASE ~(q = p /\ w = Append(ws[p], f))
          BY <1>4, <1>6, <3>2
    <3> QED BY <3>1, <3>2, ZenonT(60)
  <2>4. UNCHANGED <<accepting, streams, cli, rec>>
        BY <1>2, ZenonT(60) DEF client
  <2> QED BY <1>2, <2>1, <2>2, <2>3, <2>4, RegisteredMatches, SMTT(60)
<1>8. TypeOK'
  <2>1. srv' \in [Peer -> ServerTask] /\ ws' \in [Peer -> Seq(StreamFrame)] /\ next_id' \in Nat
        BY <1>2, <1>3, <1>4, <1>6, SMTT(60)
  <2> QED BY <1>2, <1>3, <2>1, ZenonT(60) DEF client, IInv, TypeOK
<1>9. ASSUME NEW q \in Peer PROVE Shaped(q)'
  <2>1. Shape(srv[q].at, cli[q], ws[q], incoming[q], game[q], fragments[q])
        BY DEF IInv, Shaped
  <2>2. UNCHANGED <<incoming, cli, game, fragments>>
        BY <1>2 DEF client
  <2>3. CASE q = p
    <3>1. srv'[q] = s /\ ws'[q] = w
          BY <1>4, <1>6, <2>3, ZenonT(60)
    <3> QED BY <1>6, <2>2, <2>3, <3>1, ZenonT(60) DEF Shaped
  <2>4. CASE q # p
    <3>1. srv'[q] = srv[q] /\ ws'[q] = ws[q]
          BY <1>4, <1>6, <2>4, ZenonT(60)
    <3> QED BY <2>1, <2>2, <3>1, ZenonT(60) DEF Shaped
  <2> QED BY <2>3, <2>4, ZenonT(60)
<1> QED BY <1>7, <1>8, <1>9 DEF IInv

-----------------------------------------------------------------------------
(* The first stream, which AcceptStream takes. *)
LEMMA FirstStream ==
    ASSUME IInv, streams # <<>>
    PROVE  \E s \in Stream :
               /\ s = Head(streams) /\ s.peer \in Peer
               /\ s.id \notin First => Pends(s.id, s.peer)
               /\ s.id \in First => srv[s.peer].at = "off" /\ cli[s.peer].at # "off"
               /\ s.id = Empty => cli[s.peer].at = "silent"
               /\ \A p \in Peer : rec[p].at = "open" => rec[p].id # s.id
               /\ \A p \in Peer : \A i \in DOMAIN ws[p] : IsIndicator(p, i) => ws[p][i].id # s.id
               /\ \A i \in DOMAIN Tail(streams) :
                      /\ i \in Nat /\ i + 1 \in DOMAIN streams /\ Tail(streams)[i] = streams[i + 1]
                      /\ streams[i + 1] \in Stream
                      /\ ~Alike(streams[i + 1], s)
<1>1. streams \in Seq(Stream) /\ AllPending /\ OnWayOnce /\ StartsOnce
      BY DEF IInv, TypeOK, Matching
<1>2. 1 \in DOMAIN streams /\ Head(streams) = streams[1] /\ streams[1] \in Stream
      BY <1>1
<1>3. PICK s \in Stream : s = streams[1]
      BY <1>2
<1>4. s.peer \in Peer
      BY ZenonT(60) DEF Stream
<1>5. s.id \notin First => Pends(s.id, s.peer)
      BY <1>1, <1>2, <1>3, ZenonT(60) DEF AllPending
<1>6. /\ s.id \in First => srv[s.peer].at = "off" /\ cli[s.peer].at # "off"
      /\ s.id = Empty => cli[s.peer].at = "silent"
      BY <1>1, <1>2, <1>3, ZenonT(60) DEF StartsOnce
<1>7. /\ \A p \in Peer : rec[p].at = "open" => rec[p].id # s.id
      /\ \A p \in Peer : \A i \in DOMAIN ws[p] : IsIndicator(p, i) => ws[p][i].id # s.id
  <2>1. ASSUME NEW p \in Peer, rec[p].at = "open" PROVE rec[p].id # s.id
        BY <1>1, <1>2, <1>3, <2>1, ZenonT(60) DEF OnWayOnce
  <2>2. ASSUME NEW p \in Peer, NEW i \in DOMAIN ws[p], IsIndicator(p, i) PROVE ws[p][i].id # s.id
        BY <1>1, <1>2, <1>3, <2>2 DEF OnWayOnce
  <2> QED BY <2>1, <2>2, ZenonT(60)
<1>8. ASSUME NEW i \in DOMAIN Tail(streams)
      PROVE  /\ i \in Nat /\ i + 1 \in DOMAIN streams /\ Tail(streams)[i] = streams[i + 1]
             /\ streams[i + 1] \in Stream
             /\ ~Alike(streams[i + 1], s)
  <2>1. i \in Nat /\ i >= 1 /\ i + 1 \in DOMAIN streams /\ Tail(streams)[i] = streams[i + 1]
        BY <1>1
  <2>2. PICK u \in Stream : u = streams[i + 1]
        BY <1>1, <2>1
  <2>3. ~Alike(u, s)
    <3>1. i + 1 # 1
          BY <2>1
    <3> QED BY <1>1, <1>2, <1>3, <2>1, <2>2, <3>1, ZenonT(60) DEF OnWayOnce
  <2> QED BY <2>1, <2>2, <2>3
<1> QED BY <1>2, <1>3, <1>4, <1>5, <1>6, <1>7, <1>8

LEMMA AcceptedMatches ==
    ASSUME IInv, streams # <<>>, streams' = Tail(streams), UNCHANGED <<ws, cli, rec, next_id>>, Accepting',
           DOMAIN pending_dedup_streams' \subseteq DOMAIN pending_dedup_streams,
           \A id, p : Pends(id, p) /\ id # Head(streams).id =>
               id \in DOMAIN pending_dedup_streams' /\ pending_dedup_streams'[id] = p,
           \A p \in Peer : srv'[p].to = p,
           \A p \in Peer : srv[p].at = "off" =>
               srv'[p].at = "off" \/ (Head(streams).id \in First /\ p = Head(streams).peer)
    PROVE  Matching'
<1>1. PICK s \in Stream :
               /\ s = Head(streams) /\ s.peer \in Peer
               /\ s.id \notin First => Pends(s.id, s.peer)
               /\ s.id \in First => srv[s.peer].at = "off" /\ cli[s.peer].at # "off"
               /\ s.id = Empty => cli[s.peer].at = "silent"
               /\ \A p \in Peer : rec[p].at = "open" => rec[p].id # s.id
               /\ \A p \in Peer : \A i \in DOMAIN ws[p] : IsIndicator(p, i) => ws[p][i].id # s.id
               /\ \A i \in DOMAIN Tail(streams) :
                      /\ i \in Nat /\ i + 1 \in DOMAIN streams /\ Tail(streams)[i] = streams[i + 1]
                      /\ streams[i + 1] \in Stream
                      /\ ~Alike(streams[i + 1], s)
      BY FirstStream, ZenonT(60)
<1>2. Matching /\ AllPending /\ OnWayOnce /\ StartsOnce
      BY ZenonT(60) DEF IInv, Matching
<1>3. \A id, p : Pends(id, p) /\ id # s.id =>
          id \in DOMAIN pending_dedup_streams' /\ pending_dedup_streams'[id] = p
      BY <1>1, ZenonT(60)
<1>4. \A i \in DOMAIN streams' :
          /\ i \in Nat /\ i + 1 \in DOMAIN streams /\ streams'[i] = streams[i + 1]
          /\ streams[i + 1].peer \in Peer
          /\ ~Alike(streams[i + 1], s)
      BY <1>1, ZenonT(60) DEF Stream
<1>5. AllPending'
  <2>1. ASSUME NEW p \in Peer, NEW i \in DOMAIN ws[p], IsIndicator(p, i)
        PROVE  ws[p][i].id \in DOMAIN pending_dedup_streams' /\ pending_dedup_streams'[ws[p][i].id] = p
    <3>1. Pends(ws[p][i].id, p)
          BY <1>2, <2>1, ZenonT(60) DEF AllPending
    <3>2. ws[p][i].id # s.id
          BY <1>1, <2>1, Zenon
    <3> QED BY <1>3, <3>1, <3>2
  <2>2. ASSUME NEW p \in Peer, rec[p].at = "open"
        PROVE  rec[p].id \in DOMAIN pending_dedup_streams' /\ pending_dedup_streams'[rec[p].id] = p
    <3>1. Pends(rec[p].id, p)
          BY <1>2, <2>2, ZenonT(60) DEF AllPending
    <3>2. rec[p].id # s.id
          BY <1>1, <2>2, Zenon
    <3> QED BY <1>3, <3>1, <3>2
  <2>3. ASSUME NEW i \in DOMAIN streams', streams'[i].id \notin First
        PROVE  /\ streams'[i].id \in DOMAIN pending_dedup_streams'
               /\ pending_dedup_streams'[streams'[i].id] = streams'[i].peer
    <3>1. Pends(streams'[i].id, streams'[i].peer)
          BY <1>2, <1>4, <2>3 DEF AllPending
    <3>2. streams'[i].id # s.id
      <4> SUFFICES ASSUME streams'[i].id = s.id PROVE FALSE
          BY ZenonT(60)
      <4>1. Pends(s.id, s.peer) /\ Pends(s.id, streams'[i].peer) /\ streams'[i].peer # s.peer
            BY <1>1, <1>4, <2>3, <3>1, ZenonT(60) DEF Alike
      <4> QED BY <4>1, ZenonT(60) DEF Pends
    <3> QED BY <1>3, <3>1, <3>2, ZenonT(60)
  <2> QED BY <2>1, <2>2, <2>3, ZenonT(60) DEF AllPending, Pends, IsIndicator
<1>6. OnWayOnce'
  <2>1. /\ \A p \in Peer : \A i, j \in DOMAIN ws[p] :
              IsIndicator(p, i) /\ IsIndicator(p, j) /\ ws[p][i].id = ws[p][j].id => i = j
        /\ \A p \in Peer : \A i \in DOMAIN ws[p] :
              rec[p].at = "open" /\ IsIndicator(p, i) => ws[p][i].id # rec[p].id
        BY <1>2, ZenonT(60) DEF OnWayOnce
  <2>2. ASSUME NEW p \in Peer, NEW i \in DOMAIN streams', rec[p].at = "open"
        PROVE  streams'[i].id # rec[p].id
    <3>1. streams[i + 1].id # rec[p].id
          BY <1>2, <1>4, <2>2, Zenon DEF OnWayOnce
    <3> QED BY <1>4, <3>1, Zenon
  <2>3. ASSUME NEW p \in Peer, NEW i \in DOMAIN ws[p], NEW j \in DOMAIN streams', IsIndicator(p, i)
        PROVE  streams'[j].id # ws[p][i].id
    <3>1. \A r \in Peer : \A k \in DOMAIN ws[r], l \in DOMAIN streams :
              IsIndicator(r, k) => streams[l].id # ws[r][k].id
          BY <1>2, Zenon DEF OnWayOnce
    <3> QED BY <1>4, <2>3, <3>1
  <2>4. ASSUME NEW i \in DOMAIN streams', NEW j \in DOMAIN streams', Alike(streams'[i], streams'[j])
        PROVE  i = j
    <3>1. i + 1 = j + 1
          BY <1>2, <1>4, <2>4, SMTT(60) DEF OnWayOnce
    <3> QED BY <1>4, <3>1, SMTT(60)
  <2>5. ws' = ws /\ rec' = rec
        OBVIOUS
  <2>6. \A p, i : IsIndicator(p, i)' <=> IsIndicator(p, i)
        BY <2>5, Zenon DEF IsIndicator
  <2>7. /\ \A p \in Peer : \A i, j \in DOMAIN ws'[p] :
              IsIndicator(p, i)' /\ IsIndicator(p, j)' /\ ws'[p][i].id = ws'[p][j].id => i = j
        /\ \A p \in Peer : \A i \in DOMAIN ws'[p] :
              rec'[p].at = "open" /\ IsIndicator(p, i)' => ws'[p][i].id # rec'[p].id
        BY <2>1, <2>5, <2>6, Zenon
  <2>8. /\ \A p \in Peer : \A i \in DOMAIN streams' : rec'[p].at = "open" => streams'[i].id # rec'[p].id
        /\ \A p \in Peer : \A i \in DOMAIN ws'[p], j \in DOMAIN streams' :
              IsIndicator(p, i)' => streams'[j].id # ws'[p][i].id
    <3>1. /\ \A p \in Peer : \A i \in DOMAIN streams' : rec[p].at = "open" => streams'[i].id # rec[p].id
          /\ \A p \in Peer : \A i \in DOMAIN ws[p], j \in DOMAIN streams' :
                IsIndicator(p, i) => streams'[j].id # ws[p][i].id
          BY <2>2, <2>3
    <3> QED BY <2>5, <2>6, <3>1
  <2> QED BY <2>4, <2>7, <2>8, Zenon DEF OnWayOnce
<1>7. StartsOnce'
  <2>1. ASSUME NEW i \in DOMAIN streams', streams'[i].id \in First
        PROVE  srv'[streams'[i].peer].at = "off" /\ cli[streams'[i].peer].at # "off"
    <3>1. /\ srv[streams'[i].peer].at = "off" /\ cli[streams'[i].peer].at # "off"
          /\ streams'[i].peer \in Peer
      <4>1. PICK k \in DOMAIN streams : streams'[i] = streams[k] /\ streams[k].peer \in Peer
            BY <1>4, ZenonT(60)
      <4>2. srv[streams[k].peer].at = "off" /\ cli[streams[k].peer].at # "off"
            BY <1>2, <2>1, <4>1, ZenonT(60) DEF StartsOnce
      <4> QED BY <4>1, <4>2, ZenonT(60)
    <3>2. ~(s.id \in First /\ streams'[i].peer = s.peer)
          BY <1>4, <2>1, ZenonT(60) DEF Alike
    <3> QED BY <1>1, <3>1, <3>2, ZenonT(60)
  <2>2. ASSUME NEW i \in DOMAIN streams', streams'[i].id = Empty
        PROVE  cli[streams'[i].peer].at = "silent"
    <3>1. PICK k \in DOMAIN streams : streams'[i] = streams[k]
          BY <1>4, ZenonT(60)
    <3>2. cli[streams[k].peer].at = "silent"
          BY <1>2, <2>2, <3>1, ZenonT(60) DEF StartsOnce
    <3> QED BY <3>1, <3>2, ZenonT(60)
  <2>3. ASSUME NEW p \in Peer, cli[p].at = "off" PROVE srv'[p].at = "off"
        BY <1>1, <1>2, <2>3, ZenonT(60) DEF StartsOnce
  <2> QED BY <2>1, <2>2, <2>3, ZenonT(60) DEF StartsOnce
<1> QED BY <1>2, <1>5, <1>6, <1>7, ZenonT(60) DEF Matching

(* The server task that a stream starts, or to which it is handed over. *)
LEMMA AcceptStreamPreserves ==
    ASSUME IInv, AcceptStream
    PROVE  IInv'
<1>1. streams # <<>> /\ streams' = Tail(streams) /\ UNCHANGED <<incoming, ws, next_id, client, faults>>
      BY ZenonT(60) DEF AcceptStream
<1>2. PICK s \in Stream :
               /\ s = Head(streams) /\ s.peer \in Peer
               /\ s.id \notin First => Pends(s.id, s.peer)
               /\ s.id \in First => srv[s.peer].at = "off"
               /\ s.id = Empty => cli[s.peer].at = "silent"
      BY <1>1, FirstStream, ZenonT(60)
<1> DEFINE m == pending_dedup_streams
           q == s.peer
<1>3. srv \in [Peer -> ServerTask] /\ \A p \in Peer : srv[p].to = p
      BY ZenonT(60) DEF IInv, TypeOK, Matching
<1>4. DOMAIN m \subseteq 1 .. next_id - 1 /\ next_id \in Nat /\ \A i \in DOMAIN m : m[i] \in Peer
  <2>1. m \in PendingDedupStreamsMap(next_id) /\ next_id \in Nat /\ DOMAIN m \subseteq 1 .. next_id - 1
        BY ZenonT(60) DEF IInv, TypeOK, Matching
  <2> QED BY <2>1 DEF PendingDedupStreamsMap
<1>5. (\A i \in First : i \notin DOMAIN m) /\ 0 # Empty
      BY <1>4 DEF First, Blank, Empty
<1>6. /\ s.id \notin First => s.id \in DOMAIN m /\ m[s.id] = q
      /\ s.id \in First => s.id \in {0, Empty}
  <2>1. s.id # Blank
        BY <1>2, ZenonT(60) DEF AcceptStream
  <2> QED BY <1>2, <2>1, ZenonT(60) DEF Pends, First
<1>7. PICK t \in ServerTask :
          /\ srv' = [srv EXCEPT ![q] = t] /\ t.to = q
          /\ \/ srv[q].at = "off" /\ t.at = "greet" /\ s.id \in First
             \/ srv[q].at = "wait" /\ t.at = "provide"
             \/ t = srv[q]
  <2>1. CASE s.id = 0
    <3>1. "greet" \in ServerAt /\ 0 \in First
          BY DEF ServerAt, First
    <3>2. PICK t \in ServerTask : t = [srv[q] EXCEPT !.at = "greet"] /\ t.at = "greet" /\ t.to = q
      <4>1. srv[q] \in ServerTask /\ srv[q].to = q
            BY <1>2, <1>3
      <4> QED BY <3>1, <4>1, ServerMove
    <3>3. srv' = [srv EXCEPT ![q] = [srv[q] EXCEPT !.at = "greet"]]
          BY <1>2, <1>5, <2>1, <3>1, ZenonT(60) DEF AcceptStream
    <3> QED BY <1>2, <2>1, <3>1, <3>2, <3>3, ZenonT(60)
  <2>2. CASE s.id = Empty
    <3>1. s.id \in First /\ s.id # 0
          BY <1>5, <2>2, ZenonT(60) DEF First
    <3>2. srv' = [srv EXCEPT ![q] = srv[q]]
          BY <1>2, <1>5, <3>1, ZenonT(60) DEF AcceptStream
    <3> QED BY <1>2, <1>3, <3>2, ZenonT(60)
  <2>3. CASE s.id \notin First
    <3>1. srv' = [srv EXCEPT ![q] = HandedOver(q, q)]
      <4>1. s.id # 0
            BY <2>3, ZenonT(60) DEF First
      <4> QED BY <1>2, <1>6, <2>3, <4>1, ZenonT(60) DEF AcceptStream
    <3>2. CASE srv[q].at = "wait"
      <4>1. PICK t : t = [srv[q] EXCEPT !.at = "provide", !.to = q]
            OBVIOUS
      <4>2. t \in ServerTask
            BY <1>2, <1>3, <4>1, ZenonT(60) DEF ServerTask
      <4>3. t.at = "provide" /\ t.to = q
            BY <1>2, <1>3, <4>1 DEF ServerTask
      <4> QED BY <3>1, <3>2, <4>1, <4>2, <4>3, ZenonT(60) DEF HandedOver
    <3>3. CASE srv[q].at # "wait"
          BY <1>2, <1>3, <3>1, <3>3, ZenonT(60) DEF HandedOver
    <3> QED BY <3>2, <3>3
  <2> QED BY <1>6, <2>1, <2>2, <2>3, ZenonT(60)
<1>8. m' = [i \in DOMAIN m \ {s.id} |-> m[i]] /\ accepting' = (s.id \in DOMAIN m \cup {0})
      BY <1>2, ZenonT(60) DEF AcceptStream, Removed, Restrict
<1>9. Accepting'
  <2>1. cli' = cli
        BY <1>1, ZenonT(60) DEF client
  <2> QED BY <1>2, <1>6, <1>8, <2>1, ZenonT(60) DEF Accepting
<1>10. Matching'
  <2>1. DOMAIN m' \subseteq DOMAIN m
        BY <1>8
  <2>2. \A id, p : Pends(id, p) /\ id # s.id => id \in DOMAIN m' /\ m'[id] = p
        BY <1>8, ZenonT(60) DEF Pends
  <2>3. \A p \in Peer : srv'[p].to = p /\ (srv[p].at = "off" => srv'[p].at = "off" \/ (s.id \in First /\ p = s.peer))
        BY <1>2, <1>3, <1>7
  <2>4. UNCHANGED <<ws, cli, rec, next_id>>
        BY <1>1, ZenonT(60) DEF client
  <2> QED BY <1>1, <1>2, <1>9, <2>1, <2>2, <2>3, <2>4, AcceptedMatches
<1>11. TypeOK'
  <2>1. srv' \in [Peer -> ServerTask]
        BY <1>2, <1>3, <1>7
  <2>2. streams' \in Seq(Stream)
    <3>1. streams \in Seq(Stream)
          BY ZenonT(60) DEF IInv, TypeOK
    <3> QED BY <1>1, <3>1
  <2>3. m' \in PendingDedupStreamsMap(next_id)
    <3>1. m' \in [DOMAIN m \ {s.id} -> Peer] /\ DOMAIN m \ {s.id} \in SUBSET (1 .. next_id)
          BY <1>4, <1>8
    <3> QED BY <3>1 DEF PendingDedupStreamsMap
  <2>4. accepting' \in BOOLEAN
        BY <1>8
  <2> QED BY <1>1, <2>1, <2>2, <2>3, <2>4, ZenonT(60) DEF client, IInv, TypeOK
<1>12. ASSUME NEW p \in Peer PROVE Shaped(p)'
  <2>1. Shape(srv[p].at, cli[p], ws[p], incoming[p], game[p], fragments[p])
        BY DEF IInv, Shaped
  <2>2. UNCHANGED <<incoming, ws, cli, game, fragments>>
        BY <1>1 DEF client
  <2>3. \A x \in Under, b \in Carry : Expected(srv[p].at, x, b) => Expected(srv'[p].at, x, b)
        BY <1>3, <1>7, ZenonT(60) DEF Expected
  <2>4. Shape(srv'[p].at, cli[p], ws[p], incoming[p], game[p], fragments[p])
        BY <2>1, <2>3, ShapeGoesOn, ZenonT(60)
  <2> QED BY <2>2, <2>4, ZenonT(60) DEF Shaped
<1> QED BY <1>10, <1>11, <1>12, ZenonT(60) DEF IInv

-----------------------------------------------------------------------------
LEMMA InitEstablishes == Init => IInv
<1> SUFFICES ASSUME Init PROVE IInv
    OBVIOUS
<1>1. <<>> \in Seq(Piece) /\ <<>> \in Seq(StreamFrame) /\ <<>> \in Seq(Seq(Piece)) /\ <<>> \in Seq(Stream)
      OBVIOUS
<1>2. TypeOK
  <2>1. incoming \in [Peer -> Seq(WsFrame)]
        BY ScriptAssumption, ZenonT(60) DEF Init
  <2>2. srv \in [Peer -> ServerTask]
        BY <1>1, ZenonT(60) DEF Init, ServerTask
  <2>3. cli \in [Peer -> ClientTask] /\ rec \in [Peer -> Reconstruction]
        BY <1>1, ZenonT(60) DEF Init, ClientTask, Reconstruction
  <2>4. game \in [Peer -> Messages]
        BY <1>1, ZenonT(60) DEF Init, NoMessages, Messages
  <2>5. ws \in [Peer -> Seq(StreamFrame)] /\ streams \in Seq(Stream)
        BY <1>1, ZenonT(60) DEF Init
  <2>6. fragments \in [Peer -> Seq(Seq(Piece))] /\ \A p \in Peer : Len(fragments[p]) <= Capacity
        BY <1>1, BoundsAssumption, SMTT(60) DEF Init
  <2>7. pending_dedup_streams \in PendingDedupStreamsMap(next_id)
        BY NothingYet, ZenonT(60) DEF Init, PendingDedupStreamsMap
  <2>8. next_id \in Nat /\ accepting \in BOOLEAN /\ faults \in 0 .. MaxFaults /\ spoiled \subseteq Peer
        BY BoundsAssumption, SMTT(60) DEF Init
  <2> QED BY <2>1, <2>2, <2>3, <2>4, <2>5, <2>6, <2>7, <2>8, SMTT(60) DEF TypeOK
<1>3. Matching
  <2>1. DOMAIN pending_dedup_streams = {} /\ DOMAIN streams = {} /\ next_id = 1 /\ accepting
        BY NothingYet, ZenonT(60) DEF Init
  <2>2. \A p \in Peer : DOMAIN ws[p] = {} /\ rec[p].at = "none" /\ srv[p].at = "off" /\ srv[p].to = p
        BY DEF Init
  <2>3. AllPending /\ OnWayOnce /\ StartsOnce
        BY <2>1, <2>2, ZenonT(60) DEF AllPending, OnWayOnce, StartsOnce, IsIndicator
  <2> QED BY <2>1, <2>2, <2>3 DEF Matching, Accepting
<1>4. ASSUME NEW p \in Peer PROVE Shaped(p)
  <2>1. /\ srv[p].at = "off" /\ cli[p].at = "off" /\ ws[p] = <<>> /\ incoming[p] = Script[p]
        /\ game[p] = NoMessages /\ DOMAIN fragments[p] = {}
        BY SMTT(60) DEF Init
  <2>2. PICK y \in Under : Leads(Follows, Under, incoming[p], "nothing", y)
        BY <2>1, ScriptAssumption, ZenonT(60)
  <2>3. game[p].valid /\ Resumes(cli[p], game[p]) = "none"
        BY <2>1, NothingYet, ZenonT(60) DEF Resumes
  <2>4. Leads(Wire, Carry, ws[p], "none", "none")
        BY <2>1, LeadsNowhere DEF Carry
  <2>5. Expected(srv[p].at, "nothing", "none") /\ "nothing" \in Under /\ "none" \in Carry
        BY <2>1, ZenonT(60) DEF Expected, Under, Carry
  <2>6. Fits(srv[p].at, cli[p], ws[p], incoming[p], game[p])
        BY <2>2, <2>3, <2>4, <2>5, ZenonT(60) DEF Fits
  <2> QED BY <2>1, <2>3, <2>6, ZenonT(60) DEF Shaped, Shape, Forwarded
<1> QED BY <1>2, <1>3, <1>4 DEF IInv

LEMMA NextPreserves == IInv /\ [Next]_vars => IInv'
<1> SUFFICES ASSUME IInv, [Next]_vars PROVE IInv'
    BY ZenonT(60)
<1>1. CASE UNCHANGED vars
  <2>1. TypeOK'
        BY <1>1, Zenon DEF vars, IInv, TypeOK
  <2>2. AllPending'
        BY <1>1, Zenon DEF vars, IInv, Matching, AllPending, Pends, IsIndicator
  <2>3. OnWayOnce'
        BY <1>1, Zenon DEF vars, IInv, Matching, OnWayOnce, IsIndicator
  <2>4. StartsOnce'
        BY <1>1, Zenon DEF vars, IInv, Matching, StartsOnce
  <2>5. Matching'
        BY <1>1, <2>2, <2>3, <2>4, Zenon DEF vars, IInv, Matching, Accepting
  <2>6. \A p \in Peer : Shaped(p)'
        BY <1>1, Zenon DEF vars, IInv, Shaped
  <2> QED BY <2>1, <2>5, <2>6, Zenon DEF IInv
<1>2. CASE AcceptStream
      BY <1>2, AcceptStreamPreserves
<1>3. ASSUME NEW p \in Peer, ServerStep(p) \/ Cancel(p) PROVE IInv'
  <2>1. CASE CopyFrame(p)
        BY <2>1, CopyFramePreserves
  <2>2. CASE GatherFrame(p)
        BY <2>2, GatherFramePreserves
  <2>3. CASE StartDedup(p)
        BY <2>3, StartDedupPreserves
  <2>4. CASE Provided(p)
        BY <2>4, ProvidedPreserves
  <2>5. CASE ServerCloses(p) \/ Cancel(p)
        BY <2>5, ServerStopsPreserves
  <2>6. CASE Greet(p)
        BY <2>6, GreetPreserves
  <2> QED BY <1>3, <2>1, <2>2, <2>3, <2>4, <2>5, <2>6 DEF ServerStep
<1>4. ASSUME NEW p \in Peer, ClientStep(p) \/ Leave(p) \/ GameClientGone(p) PROVE IInv'
  <2>1. CASE Connect(p)
        BY <2>1, ConnectPreserves
  <2>2. CASE ClientFrame(p)
        BY <2>2, ClientFramePreserves
  <2>3. CASE Forward(p)
        BY <2>3, ForwardPreserves
  <2>4. CASE ForwardEnds(p)
        BY <2>4, ForwardEndsPreserves
  <2>5. CASE ClientCloses(p) \/ Disconnected(p) \/ GameClientGone(p)
        BY <2>5, ClientEndsPreserves
  <2>6. CASE WriteId(p) \/ WriteInfo(p) \/ Leave(p)
        BY <2>6, HandshakePreserves
  <2> QED BY <1>4, <2>1, <2>2, <2>3, <2>4, <2>5, <2>6 DEF ClientStep
<1>5. ASSUME NEW p \in Peer, ReconstructStep(p) \/ ReconstructFails(p) PROVE IInv'
  <2>1. CASE OpenDedup(p)
        BY <2>1, OpenDedupPreserves
  <2>2. CASE SendFragment(p)
        BY <2>2, SendFragmentPreserves
  <2>3. CASE Describe(p) \/ Reconstructed(p) \/ Lost(p) \/ ReconstructFails(p)
        BY <2>3, ReconstructionPreserves
  <2> QED BY <1>5, <2>1, <2>2, <2>3 DEF ReconstructStep
<1> QED BY <1>1, <1>2, <1>3, <1>4, <1>5 DEF Next

(* The ids, the streams and the frames keep fitting together, whatever the  *)
(* two proxies do and whatever fails.                                       *)
THEOREM InductiveInvariant == Spec => []IInv
<1> QED BY InitEstablishes, NextPreserves, PTL DEF Spec

(* run_server_proxy never ends with "Client sent dedup stream with unknown  *)
(* id": every id that comes back on a stream is still in                    *)
(* pending_dedup_streams, also when the task that registered it has ended.  *)
(* It ends only because a game client left before its stream had an id.     *)
THEOREM LoopStaysAlive == Spec => []AcceptLoopAlive
<1>1. ASSUME IInv PROVE AcceptLoopAlive
  <2>1. streams \in Seq(Stream) /\ AllPending /\ Accepting
        BY <1>1 DEF IInv, TypeOK, Matching
  <2>2. ASSUME NEW s \in Range(streams), s.id \notin First PROVE s.id \in DOMAIN pending_dedup_streams
    <3>1. PICK i \in DOMAIN streams : s = streams[i]
          BY <2>2, ZenonT(60) DEF Range
    <3> QED BY <2>1, <2>2, <3>1, ZenonT(60) DEF AllPending, Pends
  <2> QED BY <2>1, <2>2, ZenonT(60) DEF AcceptLoopAlive, Accepting
<1> QED BY <1>1, InductiveInvariant, PTL

(* run_server_proxy hands a dedup stream to the dedup_packet that announced *)
(* its id to the very peer that opened it, for any number of peers.         *)
THEOREM StreamsReachTheirTask == Spec => []StreamsMatched
<1>1. IInv => StreamsMatched
      BY ZenonT(60) DEF IInv, Matching, StreamsMatched
<1> QED BY <1>1, InductiveInvariant, PTL

(* What copy_with_dedup and forward_deduped_fragments write to a game       *)
(* client is a valid sequence of frames, failed reconstructions and         *)
(* interrupted packets included.                                            *)
THEOREM OnlyValidFrames == Spec => []FramesValid
<1>1. IInv => FramesValid
      BY DEF IInv, Shaped, Shape, FramesValid
<1> QED BY <1>1, InductiveInvariant, PTL

-----------------------------------------------------------------------------
(* Two sequences, one after the other. *)
LEMMA Concatenated ==
    ASSUME NEW E, NEW s \in Seq(E), NEW t \in Seq(E)
    PROVE  /\ s \o t \in Seq(E) /\ Len(s) \in Nat /\ Len(t) \in Nat
           /\ Len(s \o t) = Len(s) + Len(t)
           /\ \A i \in 1 .. Len(s) + Len(t) :
                  (s \o t)[i] = IF i <= Len(s) THEN s[i] ELSE t[i - Len(s)]
OBVIOUS

LEMMA NothingAdded ==
    ASSUME NEW E, NEW s \in Seq(E)
    PROVE  s \o <<>> = s /\ <<>> \o s = s
OBVIOUS

LEMMA SomethingAdded ==
    ASSUME NEW E, NEW s \in Seq(E), NEW t \in Seq(E), s # <<>>
    PROVE  s \o t # <<>>
OBVIOUS

LEMMA NothingIsSeq == \A E : <<>> \in Seq(E)
OBVIOUS

LEMMA HeadAndTail ==
    ASSUME NEW E, NEW s \in Seq(E), s # <<>>
    PROVE  Head(s) \in E /\ Tail(s) \in Seq(E)
OBVIOUS

\* What b is followed by, in two parts.
InTwo(b, s, n) ==
    \E x, y, c \in Seq(Piece) :
        /\ x = SubSeq(s, 1, n) /\ y = SubSeq(s, n + 1, Len(s))
        /\ c = b \o x /\ b \o s = c \o y

(* What is left of a packet is cut in two, a fragment and the rest of it. *)
LEMMA Splits ==
    ASSUME NEW b \in Seq(Piece), NEW s \in Seq(Piece), NEW n \in 1 .. Len(s)
    PROVE  InTwo(b, s, n)
<1> DEFINE x == SubSeq(s, 1, n)
           y == SubSeq(s, n + 1, Len(s))
           c == b \o x
           u == b \o s
           v == c \o y
<1>1. x \in Seq(Piece) /\ Len(x) = n /\ \A i \in 1 .. n : x[i] = s[i]
      OBVIOUS
<1>2. y \in Seq(Piece) /\ Len(y) = Len(s) - n /\ \A i \in 1 .. Len(s) - n : y[i] = s[n + i]
      OBVIOUS
<1>3. /\ Len(b) \in Nat /\ Len(s) \in Nat
      /\ u \in Seq(Piece) /\ Len(u) = Len(b) + Len(s)
      /\ \A i \in 1 .. Len(u) : u[i] = IF i <= Len(b) THEN b[i] ELSE s[i - Len(b)]
      BY Concatenated
<1> HIDE DEF x, y, u
<1>4. /\ c \in Seq(Piece) /\ Len(c) = Len(b) + n
      /\ \A i \in 1 .. Len(c) : c[i] = IF i <= Len(b) THEN b[i] ELSE x[i - Len(b)]
  <2>1. x \in Seq(Piece)
        BY <1>1, ZenonT(60)
  <2>2. /\ c \in Seq(Piece) /\ Len(c) = Len(b) + Len(x)
        /\ \A i \in 1 .. Len(b) + Len(x) : c[i] = IF i <= Len(b) THEN b[i] ELSE x[i - Len(b)]
        BY <2>1, Concatenated, ZenonT(60)
  <2> QED BY <1>1, <2>2, ZenonT(60)
<1> HIDE DEF c
<1>5. /\ v \in Seq(Piece) /\ Len(v) = Len(c) + Len(y)
      /\ \A i \in 1 .. Len(v) : v[i] = IF i <= Len(c) THEN c[i] ELSE y[i - Len(c)]
  <2>1. y \in Seq(Piece) /\ c \in Seq(Piece)
        BY <1>2, <1>4, ZenonT(60)
  <2>2. /\ v \in Seq(Piece) /\ Len(v) = Len(c) + Len(y)
        /\ \A i \in 1 .. Len(c) + Len(y) : v[i] = IF i <= Len(c) THEN c[i] ELSE y[i - Len(c)]
        BY <2>1, Concatenated, ZenonT(60)
  <2> QED BY <2>2, ZenonT(60)
<1> HIDE DEF v
<1>6. Len(u) = Len(v)
      BY <1>2, <1>3, <1>4, <1>5
<1>7. ASSUME NEW i \in 1 .. Len(u) PROVE u[i] = v[i]
  <2>1. CASE i <= Len(b)
        BY <1>3, <1>4, <1>5, <1>6, <2>1, SMTT(30)
  <2>2. CASE i > Len(b) /\ i <= Len(b) + n
    <3>1. i - Len(b) \in 1 .. n
          BY <1>3, <2>2
    <3> QED BY <1>1, <1>3, <1>4, <1>5, <1>6, <2>2, <3>1, SMTT(30)
  <2>3. CASE i > Len(b) + n
    <3>1. i - Len(c) \in 1 .. Len(s) - n /\ n + (i - Len(c)) = i - Len(b)
          BY <1>3, <1>4, <2>3
    <3>2. u[i] = s[i - Len(b)]
          BY <1>3, <2>3
    <3>3. v[i] = y[i - Len(c)]
          BY <1>3, <1>4, <1>5, <1>6, <2>3
    <3> QED BY <1>2, <3>1, <3>2, <3>3, ZenonT(60)
  <2> QED BY <1>3, <2>1, <2>2, <2>3
<1>8. u = v
      BY <1>3, <1>5, <1>6, <1>7
<1> QED BY <1>1, <1>2, <1>4, <1>8, ZenonT(60) DEF InTwo, x, y, c, u, v

-----------------------------------------------------------------------------
(* What arrives, against what was sent. *)

Begins(s, t) == \A i \in DOMAIN s : i \in DOMAIN t /\ s[i] = t[i]

\* The messages a receiver has, and what it has of the next one.
Content == [got : Seq(Seq(Piece)), data : Seq(Piece)]

ContentOf(g) == [got |-> g.got, data |-> g.data]

Joined(k, data, fin) ==
    [got |-> IF fin THEN Append(k.got, data) ELSE k.got, data |-> IF fin THEN <<>> ELSE data]

\* What a frame adds to it; an indicator adds the packet it stands for.
Adds(k, f, packet) ==
    IF f.op = "control" THEN k
    ELSE IF f.op = "indicator" THEN Joined(k, packet, TRUE)
    ELSE Joined(k, IF f.op = "binary" THEN f.data ELSE k.data \o f.data, f.fin)

\* Only what the game server sent.
Right(p) == {k \in Content : Begins(k.got, Sent(p))}

Delivers(p, packet) ==
    {e \in Right(p) \X StreamFrame \X Right(p) : e[3] = Adds(e[1], e[2], packet)}

(* What a web socket has received is added up frame by frame. *)
LEMMA ContentReceives ==
    ASSUME NEW g \in Messages, NEW f \in WsFrame, NEW packet
    PROVE  ContentOf(g) \in Content /\ ContentOf(Receive(g, f)) = Adds(ContentOf(g), f, packet)
<1>1. f.op \in {"binary", "continuation", "control"}
      BY DEF WsFrame
<1>2. ContentOf(g) \in Content /\ ContentOf(g).got = g.got /\ ContentOf(g).data = g.data
      BY DEF ContentOf, Content, Messages
<1>3. CASE f.op = "control"
      BY <1>2, <1>3, ZenonT(60) DEF Receive, Adds
<1>4. CASE f.op # "control"
  <2>1. PICK d : d = IF f.op = "binary" THEN f.data ELSE g.data \o f.data
        BY ZenonT(60)
  <2>2. PICK m : m = Receive(g, f)
        OBVIOUS
  <2>3. m = [got   |-> IF f.fin THEN Append(g.got, d) ELSE g.got,
             open  |-> ~f.fin,
             data  |-> IF f.fin THEN <<>> ELSE d,
             valid |-> g.valid /\ (g.open <=> f.op = "continuation")]
        BY <1>4, <2>1, <2>2, ZenonT(60) DEF Receive
  <2>4. m.got = (IF f.fin THEN Append(g.got, d) ELSE g.got) /\ m.data = (IF f.fin THEN <<>> ELSE d)
        BY <2>3
  <2>5. Adds(ContentOf(g), f, packet) = Joined(ContentOf(g), d, f.fin)
        BY <1>1, <1>2, <1>4, <2>1, ZenonT(60) DEF Adds
  <2> QED BY <1>2, <2>2, <2>4, <2>5 DEF Joined, ContentOf
<1> QED BY <1>2, <1>3, <1>4, ZenonT(60)

(* The packet matters only to an indicator. *)
LEMMA AddsPlain ==
    ASSUME NEW k, NEW f \in StreamFrame, f.op # "indicator", NEW d, NEW e
    PROVE  Adds(k, f, d) = Adds(k, f, e)
BY DEF Adds

(* A binary frame starts afresh. *)
LEMMA AddsBinary ==
    ASSUME NEW k, NEW h, k.got = h.got, NEW f, f.op = "binary", NEW d, NEW e
    PROVE  Adds(k, f, d) = Adds(h, f, e)
BY DEF Adds, Joined

-----------------------------------------------------------------------------
(* What is under way to one game client. *)

Joins == {e \in Seq(Piece) \X Seq(Piece) \X Seq(Piece) : e[3] = e[1] \o e[2]}

\* What the client task has forwarded of a packet or is about to.
Written(c, g) == (IF c.first_frame THEN <<>> ELSE g.data) \o c.last_bytes

\* What reconstruct_packet has still to hand over.
Rest(r, packet) == IF r.at \in {"open", "describe"} THEN packet ELSE r.todo

\* What the game client has once the packet being forwarded is complete.
Completes(packet, c, r, fr, g, a) ==
    IF c.at = "forward"
    THEN \E b \in Seq(Piece) :
            /\ Leads(Joins, Seq(Piece), fr, Written(c, g), b)
            /\ b \o Rest(r, packet) # <<>>
            /\ a = [got |-> Append(g.got, b \o Rest(r, packet)), data |-> <<>>]
    ELSE a = ContentOf(g)

\* And once it has all that is on the stream.
Flow(p, packet, w, c, r, fr, g, k) ==
    \E a \in Right(p) :
        /\ Completes(packet, c, r, fr, g, a)
        /\ Leads(Delivers(p, packet), Right(p), w, a, k)

\* That, and what a web socket would have received of the frames read so far.
Agrees(at, packet, k, h) ==
    CASE at = "gather" -> k.got = h.got /\ h.data = packet
      [] at = "gathered" -> h = Joined(k, packet, TRUE)
      [] at = "ended" -> TRUE
      [] OTHER -> k = h

Whole(p, inc, s, w, c, r, fr, g) ==
    \E k, h, e \in Right(p) :
        /\ Flow(p, s.data, w, c, r, fr, g, k)
        /\ Leads(Delivers(p, <<>>), Right(p), inc, h, e)
        /\ Agrees(s.at, s.data, k, h)

NoIndicator(w) == \A i \in DOMAIN w : w[i].op # "indicator"

\* One packet at a time: the server task waits while its indicator is on the
\* stream and while reconstruct_packet works.
OneAtATime(s, w, c, r, fr) ==
    /\ ~NoIndicator(w) => s.at \in {"wait", "ended"} /\ s.data # <<>> /\ r.at \in {"none", "done"}
    /\ \A i, j \in DOMAIN w : w[i].op = "indicator" /\ w[j].op = "indicator" => i = j
    /\ r.at = "open" => s.at \in {"wait", "ended"} /\ s.data # <<>>
    /\ r.at = "describe" => s.at \in {"wait", "provide", "ended"} /\ s.data # <<>>
    /\ r.at = "run" => s.at \in {"provide", "ended"}
    /\ r.at = "done" => r.todo = <<>>
    /\ r.at # "failed"
    /\ c.at \notin {"forward", "ended"} => fr = <<>> /\ r.at \in {"none", "done"}
    /\ c.at = "forward" => r.at # "none"
    /\ s.at \in {"gather", "gathered", "wait"} => s.data # <<>>

LargeFilled(inc) == \A i \in DOMAIN inc : inc[i].large => inc[i].data # <<>>

Intact(p, inc, s, w, c, r, fr, g) ==
    /\ Begins(g.got, Sent(p))
    /\ OneAtATime(s, w, c, r, fr)
    /\ LargeFilled(inc)
    /\ c.at # "ended" => Whole(p, inc, s, w, c, r, fr, g)

\* A dedup stream on its way belongs to the reconstruction that waits on it.
Awaited(p) ==
    \A i \in DOMAIN streams : streams[i].peer = p /\ streams[i].id \notin First =>
        /\ rec[p].at = "describe" /\ rec[p].id = streams[i].id
        /\ srv[p].at \in {"wait", "ended"}

IntactAt(p) == Intact(p, incoming[p], srv[p], ws[p], cli[p], rec[p], fragments[p], game[p])

AllIntact == \A p \in Peer \ spoiled : IntactAt(p) /\ Awaited(p)

-----------------------------------------------------------------------------
(* The frames of one peer, with their contents. *)

(* The next frame of the game server is the next thing to add. *)
LEMMA WholeReads ==
    ASSUME NEW p \in Peer, NEW inc \in Seq(WsFrame), inc # <<>>, NEW s, NEW w, NEW c, NEW r,
           NEW fr, NEW g, Whole(p, inc, s, w, c, r, fr, g)
    PROVE  \E k, h, j, e \in Right(p) :
               /\ Flow(p, s.data, w, c, r, fr, g, k)
               /\ Agrees(s.at, s.data, k, h)
               /\ j = Adds(h, Head(inc), <<>>)
               /\ Leads(Delivers(p, <<>>), Right(p), Tail(inc), j, e)
<1>1. PICK k \in Right(p), h \in Right(p), e \in Right(p) :
          /\ Flow(p, s.data, w, c, r, fr, g, k)
          /\ Leads(Delivers(p, <<>>), Right(p), inc, h, e)
          /\ Agrees(s.at, s.data, k, h)
      BY DEF Whole
<1>2. PICK j \in Right(p) :
          /\ <<h, Head(inc), j>> \in Delivers(p, <<>>)
          /\ Leads(Delivers(p, <<>>), Right(p), Tail(inc), j, e)
      BY <1>1, LeadsOn, ZenonT(60)
<1>3. j = Adds(h, Head(inc), <<>>)
      BY <1>2 DEF Delivers
<1> QED BY <1>1, <1>2, <1>3, ZenonT(60)

(* A frame written to the stream comes after all that is on it. *)
LEMMA FlowWrites ==
    ASSUME NEW p \in Peer, NEW d, NEW w \in Seq(StreamFrame), NEW c, NEW r, NEW fr, NEW g,
           NEW k \in Right(p), Flow(p, d, w, c, r, fr, g, k),
           NEW f \in StreamFrame, NEW j \in Right(p), j = Adds(k, f, d)
    PROVE  Flow(p, d, Append(w, f), c, r, fr, g, j)
<1>1. PICK a \in Right(p) :
          Completes(d, c, r, fr, g, a) /\ Leads(Delivers(p, d), Right(p), w, a, k)
      BY DEF Flow
<1>2. <<k, f, j>> \in Delivers(p, d)
      BY DEF Delivers
<1>3. Leads(Delivers(p, d), Right(p), Append(w, f), a, j)
      BY <1>1, <1>2, LeadsFurther, ZenonT(60)
<1> QED BY <1>1, <1>3 DEF Flow

(* While no indicator is under way, it does not matter what is collected. *)
LEMMA FlowRepacks ==
    ASSUME NEW p \in Peer, NEW d, NEW e, NEW w \in Seq(StreamFrame), NEW c, NEW r, NEW fr, NEW g,
           NEW k \in Right(p), Flow(p, d, w, c, r, fr, g, k),
           NoIndicator(w), r.at \notin {"open", "describe"}
    PROVE  Flow(p, e, w, c, r, fr, g, k)
<1>1. PICK a \in Right(p) :
          Completes(d, c, r, fr, g, a) /\ Leads(Delivers(p, d), Right(p), w, a, k)
      BY DEF Flow
<1>2. Completes(e, c, r, fr, g, a)
  <2>1. Rest(r, d) = Rest(r, e)
        BY DEF Rest
  <2> QED BY <1>1, <2>1, ZenonT(60) DEF Completes
<1>3. ASSUME NEW i \in 1 .. Len(w), NEW x, NEW y, <<x, w[i], y>> \in Delivers(p, d)
      PROVE  <<x, w[i], y>> \in Delivers(p, e)
  <2>1. w[i] \in StreamFrame /\ w[i].op # "indicator"
        BY DEF NoIndicator
  <2>2. Adds(x, w[i], d) = Adds(x, w[i], e)
        BY <2>1, AddsPlain, ZenonT(60)
  <2> QED BY <1>3, <2>2, ZenonT(60) DEF Delivers
<1>4. Leads(Delivers(p, e), Right(p), w, a, k)
      BY <1>1, <1>3 DEF Leads
<1> QED BY <1>1, <1>2, <1>4, ZenonT(60) DEF Flow

(* A large frame still to come has content. *)
LEMMA TailFilled ==
    ASSUME NEW inc \in Seq(WsFrame), inc # <<>>, LargeFilled(inc)
    PROVE  LargeFilled(Tail(inc)) /\ (Head(inc).large => Head(inc).data # <<>>)
BY DEF LargeFilled

(* A frame of the game server on the stream is no indicator. *)
LEMMA OneRelays ==
    ASSUME NEW s, NEW w \in Seq(StreamFrame), NEW c, NEW r, NEW fr, NEW f \in WsFrame,
           OneAtATime(s, w, c, r, fr)
    PROVE  OneAtATime(s, Append(w, f), c, r, fr)
<1>1. f \in StreamFrame /\ f.op # "indicator"
      BY DEF StreamFrame, WsFrame
<1>2. PICK v : v = Append(w, f)
      BY ZenonT(60)
<1>3. \A i \in DOMAIN v : v[i].op = "indicator" => i \in DOMAIN w /\ v[i] = w[i]
      BY <1>1, <1>2
<1>4. NoIndicator(w) => NoIndicator(v)
      BY <1>3 DEF NoIndicator
<1>5. \A i, j \in DOMAIN v : v[i].op = "indicator" /\ v[j].op = "indicator" => i = j
      BY <1>3 DEF OneAtATime
<1> QED BY <1>2, <1>4, <1>5, ZenonT(60) DEF OneAtATime

(* copy_with_dedup of the server proxy passes a frame on. *)
LEMMA IntactCopies ==
    ASSUME NEW p \in Peer, NEW inc \in Seq(WsFrame), inc # <<>>, NEW s, s.at = "copy",
           NEW w \in Seq(StreamFrame), NEW c, NEW r, NEW fr, NEW g,
           Intact(p, inc, s, w, c, r, fr, g)
    PROVE  Intact(p, Tail(inc), s, Append(w, Head(inc)), c, r, fr, g)
<1>1. PICK f \in WsFrame : f = Head(inc)
      BY HeadAndTail, ZenonT(60)
<1>2. f \in StreamFrame /\ f.op # "indicator"
      BY DEF StreamFrame, WsFrame
<1>3. OneAtATime(s, Append(w, f), c, r, fr) /\ LargeFilled(Tail(inc))
      BY OneRelays, TailFilled, ZenonT(60) DEF Intact
<1>4. ASSUME c.at # "ended" PROVE Whole(p, Tail(inc), s, Append(w, f), c, r, fr, g)
  <2>1. PICK k \in Right(p), h \in Right(p), j \in Right(p), e \in Right(p) :
            /\ Flow(p, s.data, w, c, r, fr, g, k)
            /\ Agrees(s.at, s.data, k, h)
            /\ j = Adds(h, f, <<>>)
            /\ Leads(Delivers(p, <<>>), Right(p), Tail(inc), j, e)
        BY <1>1, <1>4, WholeReads DEF Intact
  <2>2. k = h
        BY <2>1, ZenonT(60) DEF Agrees
  <2>3. j = Adds(k, f, s.data)
        BY <1>2, <2>1, <2>2, AddsPlain, ZenonT(60)
  <2>4. Flow(p, s.data, Append(w, f), c, r, fr, g, j)
        BY <1>2, <2>1, <2>3, FlowWrites, ZenonT(60)
  <2>5. Agrees(s.at, s.data, j, j)
        BY ZenonT(60) DEF Agrees
  <2> QED BY <2>1, <2>4, <2>5, ZenonT(60) DEF Whole
<1> QED BY <1>1, <1>3, <1>4 DEF Intact

(* Where the packet is all there or not yet. *)
Gathering(s, f) == s.at = IF f.fin THEN "gathered" ELSE "gather"

(* A large frame is kept back, as the first of a packet to deduplicate. *)
LEMMA IntactTakes ==
    ASSUME NEW p \in Peer, NEW inc \in Seq(WsFrame), inc # <<>>, NEW s, s.at = "copy",
           NEW w \in Seq(StreamFrame), NEW c, NEW r, NEW fr, NEW g,
           Intact(p, inc, s, w, c, r, fr, g), Head(inc).op = "binary", Head(inc).large,
           NEW t, Gathering(t, Head(inc)), t.data = Head(inc).data
    PROVE  Intact(p, Tail(inc), t, w, c, r, fr, g)
<1>1. PICK f \in WsFrame : f = Head(inc)
      BY HeadAndTail, ZenonT(60)
<1>2. LargeFilled(Tail(inc)) /\ f.data # <<>> /\ f.fin \in BOOLEAN
      BY <1>1, TailFilled, ZenonT(60) DEF Intact, WsFrame
<1>3. t.at \in {"gather", "gathered"} /\ t.data # <<>>
      BY <1>1, <1>2, ZenonT(60) DEF Gathering
<1>4. NoIndicator(w) /\ r.at \notin {"open", "describe", "run"}
      BY ZenonT(60) DEF Intact, OneAtATime
<1>5. OneAtATime(t, w, c, r, fr)
      BY <1>3, <1>4, ZenonT(60) DEF Intact, OneAtATime
<1>6. ASSUME c.at # "ended" PROVE Whole(p, Tail(inc), t, w, c, r, fr, g)
  <2>1. PICK k \in Right(p), h \in Right(p), j \in Right(p), e \in Right(p) :
            /\ Flow(p, s.data, w, c, r, fr, g, k)
            /\ Agrees(s.at, s.data, k, h)
            /\ j = Adds(h, f, <<>>)
            /\ Leads(Delivers(p, <<>>), Right(p), Tail(inc), j, e)
    <3>1. Whole(p, inc, s, w, c, r, fr, g)
          BY <1>6, ZenonT(60) DEF Intact
    <3>2. \E k, h, j, e \in Right(p) :
              /\ Flow(p, s.data, w, c, r, fr, g, k)
              /\ Agrees(s.at, s.data, k, h)
              /\ j = Adds(h, Head(inc), <<>>)
              /\ Leads(Delivers(p, <<>>), Right(p), Tail(inc), j, e)
          BY <3>1, WholeReads, ZenonT(60)
    <3> QED BY <1>1, <3>2, ZenonT(60)
  <2>2. k = h
        BY <2>1, ZenonT(60) DEF Agrees
  <2>3. Flow(p, t.data, w, c, r, fr, g, k)
        BY <1>4, <2>1, FlowRepacks, ZenonT(60)
  <2>4. j = Joined(h, f.data, f.fin)
        BY <1>1, <2>1, ZenonT(60) DEF Adds
  <2>5. Agrees(t.at, t.data, k, j)
        BY <1>1, <1>2, <2>2, <2>4, ZenonT(60) DEF Agrees, Joined, Gathering
  <2> QED BY <2>1, <2>3, <2>5, ZenonT(60) DEF Whole
<1> QED BY <1>2, <1>5, <1>6, ZenonT(60) DEF Intact

(* A continuation frame is added to the packet. *)
LEMMA IntactGathers ==
    ASSUME NEW p \in Peer, NEW inc \in Seq(WsFrame), inc # <<>>, NEW s \in ServerTask, s.at = "gather",
           NEW w \in Seq(StreamFrame), NEW c, NEW r, NEW fr, NEW g,
           Intact(p, inc, s, w, c, r, fr, g), Head(inc).op = "continuation",
           NEW t, Gathering(t, Head(inc)), t.data = s.data \o Head(inc).data
    PROVE  Intact(p, Tail(inc), t, w, c, r, fr, g)
<1>1. PICK f \in WsFrame : f = Head(inc)
      BY HeadAndTail, ZenonT(60)
<1>2. LargeFilled(Tail(inc)) /\ f.data \in Seq(Piece) /\ f.fin \in BOOLEAN /\ s.data \in Seq(Piece)
      BY <1>1, TailFilled, ZenonT(60) DEF Intact, WsFrame, ServerTask
<1>3. t.at \in {"gather", "gathered"} /\ t.data # <<>>
  <2>1. s.data # <<>>
        BY ZenonT(60) DEF Intact, OneAtATime
  <2>2. s.data \o f.data # <<>>
        BY <1>2, <2>1, SomethingAdded, ZenonT(60)
  <2> QED BY <1>1, <1>2, <2>2, ZenonT(60) DEF Gathering
<1>4. NoIndicator(w) /\ r.at \notin {"open", "describe", "run"}
      BY ZenonT(60) DEF Intact, OneAtATime
<1>5. OneAtATime(t, w, c, r, fr)
      BY <1>3, <1>4, ZenonT(60) DEF Intact, OneAtATime
<1>6. ASSUME c.at # "ended" PROVE Whole(p, Tail(inc), t, w, c, r, fr, g)
  <2>1. PICK k \in Right(p), h \in Right(p), j \in Right(p), e \in Right(p) :
            /\ Flow(p, s.data, w, c, r, fr, g, k)
            /\ Agrees(s.at, s.data, k, h)
            /\ j = Adds(h, f, <<>>)
            /\ Leads(Delivers(p, <<>>), Right(p), Tail(inc), j, e)
    <3>1. Whole(p, inc, s, w, c, r, fr, g)
          BY <1>6, ZenonT(60) DEF Intact
    <3>2. \E k, h, j, e \in Right(p) :
              /\ Flow(p, s.data, w, c, r, fr, g, k)
              /\ Agrees(s.at, s.data, k, h)
              /\ j = Adds(h, Head(inc), <<>>)
              /\ Leads(Delivers(p, <<>>), Right(p), Tail(inc), j, e)
          BY <3>1, WholeReads, ZenonT(60)
    <3> QED BY <1>1, <3>2, ZenonT(60)
  <2>2. k.got = h.got /\ h.data = s.data
        BY <2>1, ZenonT(60) DEF Agrees
  <2>3. Flow(p, t.data, w, c, r, fr, g, k)
        BY <1>4, <2>1, FlowRepacks, ZenonT(60)
  <2>4. j = Joined(h, t.data, f.fin)
        BY <1>1, <2>1, <2>2, ZenonT(60) DEF Adds
  <2>5. Agrees(t.at, t.data, k, j)
        BY <1>1, <1>2, <2>2, <2>4, ZenonT(60) DEF Agrees, Joined, Gathering
  <2> QED BY <2>1, <2>3, <2>5, ZenonT(60) DEF Whole
<1> QED BY <1>2, <1>5, <1>6, ZenonT(60) DEF Intact

(* A frame between the frames of a packet, or a message instead of the rest of it. *)
LEMMA IntactInterrupted ==
    ASSUME NEW p \in Peer, NEW inc \in Seq(WsFrame), inc # <<>>, NEW s, s.at = "gather",
           NEW w \in Seq(StreamFrame), NEW c, NEW r, NEW fr, NEW g,
           Intact(p, inc, s, w, c, r, fr, g), NEW t,
           \/ Head(inc).op = "control" /\ t = s
           \/ Head(inc).op = "binary" /\ t.at = "copy"
    PROVE  Intact(p, Tail(inc), t, Append(w, Head(inc)), c, r, fr, g)
<1>1. PICK f \in WsFrame : f = Head(inc)
      BY HeadAndTail, ZenonT(60)
<1>2. f \in StreamFrame /\ f.op # "indicator"
      BY ZenonT(60) DEF StreamFrame, WsFrame
<1>3. NoIndicator(w) /\ r.at \notin {"open", "describe", "run"}
      BY ZenonT(60) DEF Intact, OneAtATime
<1>4. OneAtATime(t, w, c, r, fr)
      BY <1>3, ZenonT(60) DEF Intact, OneAtATime
<1>5. OneAtATime(t, Append(w, f), c, r, fr) /\ LargeFilled(Tail(inc))
      BY <1>4, OneRelays, TailFilled DEF Intact
<1>6. ASSUME c.at # "ended" PROVE Whole(p, Tail(inc), t, Append(w, f), c, r, fr, g)
  <2>1. PICK k \in Right(p), h \in Right(p), j \in Right(p), e \in Right(p) :
            /\ Flow(p, s.data, w, c, r, fr, g, k)
            /\ Agrees(s.at, s.data, k, h)
            /\ j = Adds(h, f, <<>>)
            /\ Leads(Delivers(p, <<>>), Right(p), Tail(inc), j, e)
    <3>1. Whole(p, inc, s, w, c, r, fr, g)
          BY <1>6, ZenonT(60) DEF Intact
    <3>2. \E k, h, j, e \in Right(p) :
              /\ Flow(p, s.data, w, c, r, fr, g, k)
              /\ Agrees(s.at, s.data, k, h)
              /\ j = Adds(h, Head(inc), <<>>)
              /\ Leads(Delivers(p, <<>>), Right(p), Tail(inc), j, e)
          BY <3>1, WholeReads, ZenonT(60)
    <3> QED BY <1>1, <3>2, ZenonT(60)
  <2>2. k.got = h.got /\ h.data = s.data
        BY <2>1 DEF Agrees
  <2>3. Flow(p, t.data, w, c, r, fr, g, k)
        BY <1>3, <2>1, FlowRepacks, ZenonT(60)
  <2>4. CASE f.op = "control" /\ t = s
    <3>1. k = Adds(k, f, t.data) /\ j = h
          BY <2>1, <2>4, ZenonT(60) DEF Adds
    <3>2. Flow(p, t.data, Append(w, f), c, r, fr, g, k)
          BY <1>2, <2>3, <3>1, FlowWrites, ZenonT(60)
    <3> QED BY <2>1, <2>4, <3>1, <3>2, ZenonT(60) DEF Whole
  <2>5. CASE f.op = "binary" /\ t.at = "copy"
    <3>1. j = Adds(k, f, t.data)
      <4>1. Adds(h, f, <<>>) = Joined(h, f.data, f.fin) /\ Adds(k, f, t.data) = Joined(k, f.data, f.fin)
            BY <2>5, ZenonT(60) DEF Adds
      <4>2. Joined(h, f.data, f.fin) = Joined(k, f.data, f.fin)
            BY <2>2, ZenonT(60) DEF Joined
      <4> QED BY <2>1, <4>1, <4>2, ZenonT(60)
    <3>2. Flow(p, t.data, Append(w, f), c, r, fr, g, j)
          BY <1>2, <2>3, <3>1, FlowWrites, ZenonT(60)
    <3>3. Agrees(t.at, t.data, j, j)
          BY <2>5 DEF Agrees
    <3> QED BY <2>1, <3>2, <3>3, ZenonT(60) DEF Whole
  <2> QED BY <1>1, <2>4, <2>5, ZenonT(60)
<1> QED BY <1>1, <1>5, <1>6 DEF Intact

(* The server task ends. *)
LEMMA IntactStops ==
    ASSUME NEW p \in Peer, NEW inc, NEW s, NEW w, NEW c, NEW r, NEW fr, NEW g,
           Intact(p, inc, s, w, c, r, fr, g), NEW t, t.at = "ended", t.data = s.data
    PROVE  Intact(p, inc, t, w, c, r, fr, g)
<1>1. OneAtATime(t, w, c, r, fr)
      BY ZenonT(60) DEF Intact, OneAtATime
<1>2. ASSUME c.at # "ended" PROVE Whole(p, inc, t, w, c, r, fr, g)
      BY <1>2, ZenonT(60) DEF Intact, Whole, Agrees
<1> QED BY <1>1, <1>2, ZenonT(60) DEF Intact

(* It ends because the client task is gone, with the frame it has just read. *)
LEMMA IntactGone ==
    ASSUME NEW p \in Peer, NEW inc \in Seq(WsFrame), inc # <<>>, NEW s, NEW w, NEW c, c.at = "ended",
           NEW r, NEW fr, NEW g,
           Intact(p, inc, s, w, c, r, fr, g), NEW t, t.at = "ended", t.data = s.data
    PROVE  Intact(p, Tail(inc), t, w, c, r, fr, g)
<1>1. OneAtATime(t, w, c, r, fr) /\ LargeFilled(Tail(inc))
      BY TailFilled, ZenonT(60) DEF Intact, OneAtATime
<1> QED BY <1>1, ZenonT(60) DEF Intact

(* The indicator is sent. *)
LEMMA IntactAnnounces ==
    ASSUME NEW p \in Peer, NEW inc, NEW s, s.at = "gathered", NEW w \in Seq(StreamFrame),
           NEW c, NEW r \in Reconstruction, NEW fr, NEW g, Intact(p, inc, s, w, c, r, fr, g),
           NEW id \in Nat, NEW t, t.at = "wait", t.data = s.data
    PROVE  Intact(p, inc, t, Append(w, Indicator(id)), c, r, fr, g)
<1>1. PICK f \in StreamFrame : f = Indicator(id) /\ f.op = "indicator"
  <2>1. Indicator(id) \in StreamFrame /\ Indicator(id).op = "indicator"
        BY DEF Indicator, StreamFrame
  <2> QED BY <2>1, ZenonT(60)
<1>2. PICK v : v = Append(w, f)
      BY ZenonT(60)
<1>3. NoIndicator(w) /\ s.data # <<>> /\ r.at \in {"none", "done"}
      BY ZenonT(60) DEF Intact, OneAtATime, Reconstruction
<1>4. \A i \in DOMAIN v : v[i].op = "indicator" => i = Len(w) + 1
      BY <1>1, <1>2, <1>3 DEF NoIndicator
<1>5. OneAtATime(t, v, c, r, fr)
      BY <1>3, <1>4, ZenonT(60) DEF Intact, OneAtATime
<1>6. ASSUME c.at # "ended" PROVE Whole(p, inc, t, v, c, r, fr, g)
  <2>1. PICK k \in Right(p), h \in Right(p), e \in Right(p) :
            /\ Flow(p, s.data, w, c, r, fr, g, k)
            /\ Leads(Delivers(p, <<>>), Right(p), inc, h, e)
            /\ Agrees(s.at, s.data, k, h)
        BY <1>6, ZenonT(60) DEF Intact, Whole
  <2>2. h = Adds(k, f, t.data)
        BY <1>1, <2>1, ZenonT(60) DEF Agrees, Adds
  <2>3. Flow(p, t.data, v, c, r, fr, g, h)
        BY <1>1, <1>2, <2>1, <2>2, FlowWrites, ZenonT(60)
  <2>4. Agrees(t.at, t.data, h, h)
        BY DEF Agrees
  <2> QED BY <2>1, <2>3, <2>4, ZenonT(60) DEF Whole
<1> QED BY <1>1, <1>2, <1>5, <1>6, ZenonT(60) DEF Intact

\* The server task is not in the middle of a packet, and reads on.
Settled(s, r) == s.at \in {"off", "greet"} \/ (s.at = "provide" /\ r.at = "done")
Resumed(s) == s.at \in {"greet", "copy"}

(* The server task reads on, after a packet or when it starts. *)
LEMMA IntactResumes ==
    ASSUME NEW p \in Peer, NEW inc, NEW s, NEW w \in Seq(StreamFrame), NEW c, NEW r, NEW fr, NEW g,
           Intact(p, inc, s, w, c, r, fr, g),
           Settled(s, r), NEW t, Resumed(t)
    PROVE  Intact(p, inc, t, w, c, r, fr, g)
<1>1. NoIndicator(w) /\ r.at \notin {"open", "describe", "run"}
      BY ZenonT(60) DEF Intact, OneAtATime, Settled
<1>2. OneAtATime(t, w, c, r, fr)
      BY <1>1, ZenonT(60) DEF Intact, OneAtATime, Resumed
<1>3. ASSUME c.at # "ended" PROVE Whole(p, inc, t, w, c, r, fr, g)
  <2>1. PICK k \in Right(p), h \in Right(p), e \in Right(p) :
            /\ Flow(p, s.data, w, c, r, fr, g, k)
            /\ Leads(Delivers(p, <<>>), Right(p), inc, h, e)
            /\ Agrees(s.at, s.data, k, h)
        BY <1>3, ZenonT(60) DEF Intact, Whole
  <2>2. Flow(p, t.data, w, c, r, fr, g, k)
        BY <1>1, <2>1, FlowRepacks, ZenonT(60)
  <2>3. Agrees(t.at, t.data, k, h)
        BY <2>1, ZenonT(60) DEF Agrees, Settled, Resumed
  <2> QED BY <2>1, <2>2, <2>3, ZenonT(60) DEF Whole
<1> QED BY <1>2, <1>3, ZenonT(60) DEF Intact

(* The stream is handed to the server task that waits for it. *)
LEMMA IntactHanded ==
    ASSUME NEW p \in Peer, NEW inc, NEW s, s.at = "wait", NEW w, NEW c, NEW r, r.at = "describe",
           NEW fr, NEW g, Intact(p, inc, s, w, c, r, fr, g),
           NEW t, t.at = "provide", t.data = s.data
    PROVE  Intact(p, inc, t, w, c, r, fr, g)
<1>1. OneAtATime(t, w, c, r, fr)
      BY ZenonT(60) DEF Intact, OneAtATime
<1>2. ASSUME c.at # "ended" PROVE Whole(p, inc, t, w, c, r, fr, g)
      BY <1>2, ZenonT(60) DEF Intact, Whole, Agrees
<1> QED BY <1>1, <1>2, ZenonT(60) DEF Intact

-----------------------------------------------------------------------------
(* The client task and reconstruct_packet. *)

(* The client task goes on or ends; what is under way stays. *)
LEMMA IntactClientMoves ==
    ASSUME NEW p \in Peer, NEW inc, NEW s, NEW w, NEW c, NEW r, NEW fr, NEW g,
           Intact(p, inc, s, w, c, r, fr, g), NEW d,
           d.at = "ended" \/ (c.at \notin {"forward", "ended"} /\ d.at # "forward")
    PROVE  Intact(p, inc, s, w, d, r, fr, g)
<1>1. OneAtATime(s, w, d, r, fr)
      BY ZenonT(60) DEF Intact, OneAtATime
<1>2. ASSUME d.at # "ended" PROVE Whole(p, inc, s, w, d, r, fr, g)
      BY <1>2, ZenonT(60) DEF Intact, Whole, Flow, Completes
<1> QED BY <1>1, <1>2, ZenonT(60) DEF Intact

(* The first frame of the stream is taken off. *)
LEMMA OneRead ==
    ASSUME NEW s, NEW w \in Seq(StreamFrame), w # <<>>, NEW c, NEW r, NEW fr,
           OneAtATime(s, w, c, r, fr)
    PROVE  /\ OneAtATime(s, Tail(w), c, r, fr)
           /\ Head(w).op = "indicator" => ~NoIndicator(w) /\ NoIndicator(Tail(w))
<1>1. PICK v : v = Tail(w)
      BY ZenonT(60)
<1>2. \A i \in DOMAIN v : i \in Int /\ i + 1 \in DOMAIN w /\ v[i] = w[i + 1] /\ i + 1 # 1
      BY <1>1
<1>3. \A i, j \in DOMAIN v : v[i].op = "indicator" /\ v[j].op = "indicator" => i + 1 = j + 1
      BY <1>2, ZenonT(60) DEF OneAtATime
<1>4. \A i, j \in DOMAIN v : v[i].op = "indicator" /\ v[j].op = "indicator" => i = j
      BY <1>2, <1>3
<1>5. NoIndicator(w) => NoIndicator(v)
      BY <1>2, ZenonT(60) DEF NoIndicator
<1>6. OneAtATime(s, v, c, r, fr)
      BY <1>4, <1>5, ZenonT(60) DEF OneAtATime
<1>7. Head(w) = w[1] /\ 1 \in DOMAIN w
      OBVIOUS
<1>8. Head(w).op = "indicator" => ~NoIndicator(w) /\ NoIndicator(v)
      BY <1>2, <1>7, ZenonT(60) DEF NoIndicator, OneAtATime
<1> QED BY <1>1, <1>6, <1>8, ZenonT(60)

(* copy_with_dedup of the client proxy passes a frame on to the game client. *)
LEMMA IntactRelays ==
    ASSUME NEW p \in Peer, NEW inc, NEW s, NEW w \in Seq(StreamFrame), w # <<>>,
           NEW c, c.at = "copy", NEW r, NEW fr, NEW g \in Messages,
           Intact(p, inc, s, w, c, r, fr, g), Head(w).op # "indicator"
    PROVE  Intact(p, inc, s, Tail(w), c, r, fr, Receive(g, Head(w)))
<1>1. PICK f \in WsFrame : f = Head(w)
  <2>1. Head(w) \in StreamFrame
        OBVIOUS
  <2> QED BY <2>1 DEF StreamFrame
<1>2. PICK k \in Right(p), h \in Right(p), e \in Right(p), a \in Right(p) :
          /\ Completes(s.data, c, r, fr, g, a)
          /\ Leads(Delivers(p, s.data), Right(p), w, a, k)
          /\ Leads(Delivers(p, <<>>), Right(p), inc, h, e)
          /\ Agrees(s.at, s.data, k, h)
      BY ZenonT(60) DEF Intact, Whole, Flow
<1>3. PICK b \in Right(p) :
          <<a, f, b>> \in Delivers(p, s.data) /\ Leads(Delivers(p, s.data), Right(p), Tail(w), b, k)
      BY <1>1, <1>2, LeadsOn, ZenonT(60)
<1>4. a = ContentOf(g)
      BY <1>2, ZenonT(60) DEF Completes
<1>5. b = ContentOf(Receive(g, f))
  <2>1. b = Adds(a, f, s.data)
        BY <1>3 DEF Delivers
  <2> QED BY <1>4, <2>1, ContentReceives, ZenonT(60)
<1>6. Begins(Receive(g, f).got, Sent(p))
  <2>1. b.got = Receive(g, f).got
        BY <1>5, ZenonT(60) DEF ContentOf
  <2> QED BY <2>1, ZenonT(60) DEF Right
<1>7. Completes(s.data, c, r, fr, Receive(g, f), b)
      BY <1>5, ZenonT(60) DEF Completes
<1>8. Whole(p, inc, s, Tail(w), c, r, fr, Receive(g, f))
      BY <1>2, <1>3, <1>7, ZenonT(60) DEF Whole, Flow
<1>9. OneAtATime(s, Tail(w), c, r, fr)
      BY OneRead, ZenonT(60) DEF Intact
<1> QED BY <1>1, <1>6, <1>8, <1>9, ZenonT(60) DEF Intact

(* An indicator arrives: the packet it stands for is to be forwarded. *)
LEMMA IntactBegins ==
    ASSUME NEW p \in Peer, NEW inc, NEW s \in ServerTask, NEW w \in Seq(StreamFrame), w # <<>>,
           NEW c, c.at = "copy", NEW r, NEW fr, NEW g \in Messages,
           Intact(p, inc, s, w, c, r, fr, g), Head(w).op = "indicator",
           NEW d, d.at = "forward", d.first_frame = TRUE, d.last_bytes = <<>>,
           NEW q, q.at = "open"
    PROVE  Intact(p, inc, s, Tail(w), d, q, fr, g)
<1>1. PICK f \in StreamFrame : f = Head(w) /\ f.op = "indicator"
      OBVIOUS
<1>2. /\ s.at \in {"wait", "ended"} /\ s.data # <<>> /\ s.data \in Seq(Piece)
      /\ NoIndicator(Tail(w)) /\ fr = <<>>
  <2>1. OneAtATime(s, w, c, r, fr)
        BY DEF Intact
  <2>2. ~NoIndicator(w) /\ NoIndicator(Tail(w))
        BY <2>1, OneRead, ZenonT(60)
  <2> QED BY <2>1, <2>2, ZenonT(60) DEF OneAtATime, ServerTask
<1>3. OneAtATime(s, Tail(w), d, q, fr)
  <2>1. OneAtATime(s, Tail(w), c, r, fr)
        BY OneRead, ZenonT(60) DEF Intact
  <2> QED BY <1>2, <2>1, ZenonT(60) DEF OneAtATime
<1>4. PICK k \in Right(p), h \in Right(p), e \in Right(p), a \in Right(p) :
          /\ Completes(s.data, c, r, fr, g, a)
          /\ Leads(Delivers(p, s.data), Right(p), w, a, k)
          /\ Leads(Delivers(p, <<>>), Right(p), inc, h, e)
          /\ Agrees(s.at, s.data, k, h)
      BY ZenonT(60) DEF Intact, Whole, Flow
<1>5. PICK b \in Right(p) :
          <<a, f, b>> \in Delivers(p, s.data) /\ Leads(Delivers(p, s.data), Right(p), Tail(w), b, k)
      BY <1>1, <1>4, LeadsOn, ZenonT(60)
<1>6. b = [got |-> Append(g.got, s.data), data |-> <<>>]
  <2>1. a = ContentOf(g)
        BY <1>4 DEF Completes
  <2>2. a.got = g.got
        BY <2>1, ZenonT(60) DEF ContentOf
  <2>3. b = Joined(a, s.data, TRUE)
        BY <1>1, <1>5, ZenonT(60) DEF Delivers, Adds
  <2> QED BY <2>2, <2>3, ZenonT(60) DEF Joined
<1>7. Completes(s.data, d, q, fr, g, b)
  <2>1. <<>> \in Seq(Piece)
        BY NothingIsSeq, ZenonT(60)
  <2>2. <<>> \o <<>> = <<>> /\ <<>> \o s.data = s.data
        BY <1>2, <2>1, NothingAdded, ZenonT(60)
  <2>3. Written(d, g) = <<>> /\ Rest(q, s.data) = s.data
        BY <2>2, ZenonT(60) DEF Written, Rest
  <2>4. Leads(Joins, Seq(Piece), fr, Written(d, g), <<>>)
        BY <1>2, <2>1, <2>3, LeadsNowhere, ZenonT(60)
  <2>5. <<>> \o Rest(q, s.data) = s.data
        BY <2>2, <2>3, ZenonT(60)
  <2> QED BY <1>2, <1>6, <2>1, <2>4, <2>5, ZenonT(60) DEF Completes
<1>8. Whole(p, inc, s, Tail(w), d, q, fr, g)
      BY <1>4, <1>5, <1>7, ZenonT(60) DEF Whole, Flow
<1> QED BY <1>3, <1>8, ZenonT(60) DEF Intact

(* The frame of forward_deduped_fragments that carries last_bytes. *)
LEMMA LastJoins ==
    ASSUME NEW c \in ClientTask, NEW g \in Messages, NEW fin \in BOOLEAN,
           NEW op, op = IF c.first_frame THEN "binary" ELSE "continuation"
    PROVE  LET m == Receive(g, Frame(op, fin, c.last_bytes, FALSE))
           IN  /\ Written(c, g) \in Seq(Piece)
               /\ m.got = IF fin THEN Append(g.got, Written(c, g)) ELSE g.got
               /\ m.data = IF fin THEN <<>> ELSE Written(c, g)
<1>1. PICK f : f = Frame(op, fin, c.last_bytes, FALSE)
      BY ZenonT(60)
<1>2. f.op = op /\ f.fin = fin /\ f.data = c.last_bytes /\ op # "control"
      BY <1>1 DEF Frame
<1>3. c.last_bytes \in Seq(Piece) /\ g.data \in Seq(Piece)
      BY DEF ClientTask, Messages
<1>4. PICK d : d = IF op = "binary" THEN f.data ELSE g.data \o f.data
      BY ZenonT(60)
<1>5. d = Written(c, g) /\ Written(c, g) \in Seq(Piece)
  <2>1. <<>> \o c.last_bytes = c.last_bytes /\ g.data \o c.last_bytes \in Seq(Piece)
        BY <1>3
  <2>2. Written(c, g) = IF op = "binary" THEN <<>> \o c.last_bytes ELSE g.data \o c.last_bytes
        BY ZenonT(60) DEF Written
  <2> QED BY <1>2, <1>3, <1>4, <2>1, <2>2, ZenonT(60)
<1>6. PICK m : m = Receive(g, f)
      BY ZenonT(60)
<1>7. m = [got   |-> IF fin THEN Append(g.got, d) ELSE g.got,
           open  |-> ~fin,
           data  |-> IF fin THEN <<>> ELSE d,
           valid |-> g.valid /\ (g.open <=> f.op = "continuation")]
      BY <1>2, <1>4, <1>6, ZenonT(60) DEF Receive
<1>8. m.got = (IF fin THEN Append(g.got, d) ELSE g.got) /\ m.data = (IF fin THEN <<>> ELSE d)
      BY <1>7
<1> QED BY <1>1, <1>5, <1>6, <1>8, ZenonT(60)

(* What WriteLast makes of what the game client has. *)
Wrote(c, g, fin) ==
    IF c.last_bytes = <<>> THEN g
    ELSE Receive(g, Frame(IF c.first_frame THEN "binary" ELSE "continuation", fin,
                          c.last_bytes, FALSE))

(* A fragment is taken from the channel: it adds to what is to be forwarded. *)
LEMMA FragmentJoins ==
    ASSUME NEW c \in ClientTask, NEW g \in Messages, NEW b \in Seq(Piece),
           NEW d, d.last_bytes = b, d.first_frame = (c.first_frame /\ c.last_bytes = <<>>)
    PROVE  /\ Written(c, g) \in Seq(Piece)
           /\ Written(d, Wrote(c, g, FALSE)) = Written(c, g) \o b
           /\ Wrote(c, g, FALSE).got = g.got
<1>1. Written(c, g) \in Seq(Piece)
      BY LastJoins, ZenonT(60)
<1>2. CASE c.last_bytes = <<>>
  <2>1. PICK x \in Seq(Piece) : x = IF c.first_frame THEN <<>> ELSE g.data
    <3>1. <<>> \in Seq(Piece) /\ g.data \in Seq(Piece)
          BY DEF Messages
    <3> QED BY <3>1, ZenonT(60)
  <2>2. Written(c, g) = x /\ Wrote(c, g, FALSE) = g
    <3>1. x \o <<>> = x
          BY NothingAdded, ZenonT(60)
    <3> QED BY <1>2, <2>1, <3>1, ZenonT(60) DEF Written, Wrote
  <2>3. Written(d, g) = x \o b
        BY <1>2, <2>1, ZenonT(60) DEF Written
  <2> QED BY <1>1, <2>2, <2>3, ZenonT(60)
<1>3. CASE c.last_bytes # <<>>
  <2>1. PICK m : m = Wrote(c, g, FALSE)
        BY ZenonT(60)
  <2>2. m.got = g.got /\ m.data = Written(c, g)
    <3>1. PICK op : op = IF c.first_frame THEN "binary" ELSE "continuation"
          OBVIOUS
    <3>2. m = Receive(g, Frame(op, FALSE, c.last_bytes, FALSE))
          BY <1>3, <2>1, <3>1 DEF Wrote
    <3> QED BY <3>1, <3>2, LastJoins, ZenonT(60)
  <2>3. Written(d, m) = m.data \o b
        BY <1>3, ZenonT(60) DEF Written
  <2> QED BY <1>1, <2>1, <2>2, <2>3, ZenonT(60)
<1> QED BY <1>2, <1>3, ZenonT(60)

(* forward_deduped_fragments takes a fragment and writes the one before it. *)
LEMMA IntactForwards ==
    ASSUME NEW p \in Peer, NEW inc, NEW s, NEW w, NEW c \in ClientTask, c.at = "forward", NEW r,
           NEW fr \in Seq(Seq(Piece)), fr # <<>>, NEW g \in Messages,
           Intact(p, inc, s, w, c, r, fr, g),
           NEW d, d.at = "forward", d.last_bytes = Head(fr),
           d.first_frame = (c.first_frame /\ c.last_bytes = <<>>)
    PROVE  Intact(p, inc, s, w, d, r, Tail(fr), Wrote(c, g, FALSE))
<1>1. PICK m : m = Wrote(c, g, FALSE)
      BY ZenonT(60)
<1>2. m.got = g.got /\ Written(d, m) = Written(c, g) \o Head(fr)
  <2>1. Head(fr) \in Seq(Piece)
        BY HeadAndTail, ZenonT(60)
  <2> QED BY <1>1, <2>1, FragmentJoins, ZenonT(60)
<1>3. PICK k \in Right(p), h \in Right(p), e \in Right(p), a \in Right(p) :
          /\ Completes(s.data, c, r, fr, g, a)
          /\ Leads(Delivers(p, s.data), Right(p), w, a, k)
          /\ Leads(Delivers(p, <<>>), Right(p), inc, h, e)
          /\ Agrees(s.at, s.data, k, h)
      BY ZenonT(60) DEF Intact, Whole, Flow
<1>4. PICK b \in Seq(Piece) :
          /\ Leads(Joins, Seq(Piece), fr, Written(c, g), b)
          /\ b \o Rest(r, s.data) # <<>>
          /\ a = [got |-> Append(g.got, b \o Rest(r, s.data)), data |-> <<>>]
      BY <1>3, ZenonT(60) DEF Completes
<1>5. Leads(Joins, Seq(Piece), Tail(fr), Written(d, m), b)
  <2>1. PICK x \in Seq(Piece) :
            /\ <<Written(c, g), Head(fr), x>> \in Joins
            /\ Leads(Joins, Seq(Piece), Tail(fr), x, b)
        BY <1>4, LeadsOn, ZenonT(60)
  <2>2. x = Written(d, m)
        BY <1>2, <2>1, ZenonT(60) DEF Joins
  <2> QED BY <2>1, <2>2, ZenonT(60)
<1>6. Completes(s.data, d, r, Tail(fr), m, a)
      BY <1>2, <1>4, <1>5, ZenonT(60) DEF Completes
<1>7. Whole(p, inc, s, w, d, r, Tail(fr), m)
      BY <1>3, <1>6, ZenonT(60) DEF Whole, Flow
<1>8. OneAtATime(s, w, d, r, Tail(fr))
      BY ZenonT(60) DEF Intact, OneAtATime
<1> QED BY <1>1, <1>2, <1>7, <1>8, ZenonT(60) DEF Intact

(* The last fragment is written: the packet is complete. *)
LEMMA IntactFinishes ==
    ASSUME NEW p \in Peer, NEW inc, NEW s \in ServerTask, NEW w, NEW c \in ClientTask,
           c.at = "forward",
           NEW r, r.at = "done", NEW fr, fr = <<>>, NEW g \in Messages,
           c.first_frame \/ c.last_bytes # <<>>,
           Intact(p, inc, s, w, c, r, fr, g), NEW d, d.at = "copy"
    PROVE  Intact(p, inc, s, w, d, r, fr, Wrote(c, g, TRUE))
<1>1. PICK k \in Right(p), h \in Right(p), e \in Right(p), a \in Right(p) :
          /\ Completes(s.data, c, r, fr, g, a)
          /\ Leads(Delivers(p, s.data), Right(p), w, a, k)
          /\ Leads(Delivers(p, <<>>), Right(p), inc, h, e)
          /\ Agrees(s.at, s.data, k, h)
      BY ZenonT(60) DEF Intact, Whole, Flow
<1>2. r.todo = <<>>
      BY ZenonT(60) DEF Intact, OneAtATime
<1>3. /\ Written(c, g) \in Seq(Piece) /\ Written(c, g) # <<>>
      /\ a = [got |-> Append(g.got, Written(c, g)), data |-> <<>>]
  <2>1. PICK b \in Seq(Piece) :
            /\ Leads(Joins, Seq(Piece), fr, Written(c, g), b)
            /\ b \o Rest(r, s.data) # <<>>
            /\ a = [got |-> Append(g.got, b \o Rest(r, s.data)), data |-> <<>>]
        BY <1>1, ZenonT(60) DEF Completes
  <2>2. Written(c, g) = b
        BY <2>1, LeadsNowhereElse, ZenonT(60)
  <2>3. b \o Rest(r, s.data) = b
    <3>1. b \o <<>> = b
          BY NothingAdded, ZenonT(60)
    <3> QED BY <1>2, <3>1, ZenonT(60) DEF Rest
  <2> QED BY <2>1, <2>2, <2>3, ZenonT(60)
<1>4. c.last_bytes # <<>>
  <2>1. <<>> \o <<>> = <<>>
        OBVIOUS
  <2> QED BY <1>3, <2>1, ZenonT(60) DEF Written
<1>5. PICK m : m = Wrote(c, g, TRUE)
      BY ZenonT(60)
<1>6. m.got = Append(g.got, Written(c, g)) /\ m.data = <<>>
  <2>1. PICK op : op = IF c.first_frame THEN "binary" ELSE "continuation"
        BY ZenonT(60)
  <2>2. m = Receive(g, Frame(op, TRUE, c.last_bytes, FALSE))
        BY <1>4, <1>5, <2>1, ZenonT(60) DEF Wrote
  <2> QED BY <2>1, <2>2, LastJoins, ZenonT(60)
<1>7. a = ContentOf(m)
      BY <1>3, <1>6, ZenonT(60) DEF ContentOf
<1>8. Begins(m.got, Sent(p))
  <2>1. a.got = m.got
        BY <1>7, ZenonT(60) DEF ContentOf
  <2> QED BY <2>1, ZenonT(60) DEF Right
<1>9. Whole(p, inc, s, w, d, r, fr, m)
      BY <1>1, <1>7, ZenonT(60) DEF Whole, Flow, Completes
<1>10. OneAtATime(s, w, d, r, fr)
      BY ZenonT(60) DEF Intact, OneAtATime
<1> QED BY <1>5, <1>8, <1>9, <1>10, ZenonT(60) DEF Intact

(* reconstruct_packet opens its stream, is given the packet, or has sent all. *)
LEMMA IntactReconstructs ==
    ASSUME NEW p \in Peer, NEW inc, NEW s, NEW w, NEW c, NEW r, NEW fr, NEW g,
           Intact(p, inc, s, w, c, r, fr, g), NEW q,
           \/ r.at = "open" /\ q.at = "describe"
           \/ r.at = "describe" /\ q.at = "run" /\ s.at = "provide" /\ q.todo = s.data
           \/ r.at = "run" /\ r.todo = <<>> /\ q.at = "done" /\ q.todo = <<>>
    PROVE  Intact(p, inc, s, w, c, q, fr, g)
<1>1. OneAtATime(s, w, c, q, fr)
      BY ZenonT(60) DEF Intact, OneAtATime
<1>2. Rest(q, s.data) = Rest(r, s.data)
      BY ZenonT(60) DEF Rest
<1>3. ASSUME c.at # "ended" PROVE Whole(p, inc, s, w, c, q, fr, g)
  <2>1. PICK k \in Right(p), h \in Right(p), e \in Right(p), a \in Right(p) :
            /\ Completes(s.data, c, r, fr, g, a)
            /\ Leads(Delivers(p, s.data), Right(p), w, a, k)
            /\ Leads(Delivers(p, <<>>), Right(p), inc, h, e)
            /\ Agrees(s.at, s.data, k, h)
        BY <1>3, ZenonT(60) DEF Intact, Whole, Flow
  <2>2. Completes(s.data, c, q, fr, g, a)
        BY <1>2, <2>1, ZenonT(60) DEF Completes
  <2> QED BY <2>1, <2>2, ZenonT(60) DEF Whole, Flow
<1> QED BY <1>1, <1>3, ZenonT(60) DEF Intact

(* reconstruct_packet sends the next fragment of the packet. *)
LEMMA IntactSends ==
    ASSUME NEW p \in Peer, NEW inc, NEW s, NEW w, NEW c, c.at = "forward",
           NEW r \in Reconstruction, r.at = "run", NEW fr \in Seq(Seq(Piece)), NEW g,
           Intact(p, inc, s, w, c, r, fr, g), NEW n \in 1 .. Len(r.todo),
           NEW q, q.at = "run", q.todo = SubSeq(r.todo, n + 1, Len(r.todo))
    PROVE  Intact(p, inc, s, w, c, q, Append(fr, SubSeq(r.todo, 1, n)), g)
<1>1. PICK todo \in Seq(Piece) : todo = r.todo /\ n \in 1 .. Len(todo)
      BY DEF Reconstruction
<1>2. PICK y : y = SubSeq(todo, n + 1, Len(todo))
      BY ZenonT(60)
<1>3. PICK k \in Right(p), h \in Right(p), e \in Right(p), a \in Right(p) :
          /\ Completes(s.data, c, r, fr, g, a)
          /\ Leads(Delivers(p, s.data), Right(p), w, a, k)
          /\ Leads(Delivers(p, <<>>), Right(p), inc, h, e)
          /\ Agrees(s.at, s.data, k, h)
      BY ZenonT(60) DEF Intact, Whole, Flow
<1>4. Rest(r, s.data) = todo /\ Rest(q, s.data) = y
      BY <1>1, <1>2, ZenonT(60) DEF Rest
<1>5. PICK b \in Seq(Piece) :
          /\ Leads(Joins, Seq(Piece), fr, Written(c, g), b)
          /\ b \o todo # <<>>
          /\ a = [got |-> Append(g.got, b \o todo), data |-> <<>>]
      BY <1>3, <1>4, ZenonT(60) DEF Completes
<1>6. PICK x \in Seq(Piece), z \in Seq(Piece) :
          x = SubSeq(todo, 1, n) /\ z = b \o x /\ b \o todo = z \o y
  <2>1. n \in 1 .. Len(todo)
        BY <1>1, ZenonT(60)
  <2>2. InTwo(b, todo, n)
        BY <2>1, Splits, ZenonT(60)
  <2> QED BY <1>2, <2>2, ZenonT(60) DEF InTwo
<1>7. Leads(Joins, Seq(Piece), Append(fr, x), Written(c, g), z)
  <2>1. <<b, x, z>> \in Joins
        BY <1>6, ZenonT(60) DEF Joins
  <2> QED BY <1>5, <1>6, <2>1, LeadsFurther, ZenonT(60)
<1>8. Completes(s.data, c, q, Append(fr, x), g, a)
      BY <1>4, <1>5, <1>6, <1>7, ZenonT(60) DEF Completes
<1>9. Whole(p, inc, s, w, c, q, Append(fr, x), g)
      BY <1>3, <1>8, ZenonT(60) DEF Whole, Flow
<1>10. OneAtATime(s, w, c, q, Append(fr, x))
      BY ZenonT(60) DEF Intact, OneAtATime
<1> QED BY <1>1, <1>6, <1>9, <1>10, ZenonT(60) DEF Intact

-----------------------------------------------------------------------------
(* Steps of one peer, among the others. *)

ServerSteps(p, s, w, inc) ==
    /\ srv' = [srv EXCEPT ![p] = s] /\ ws' = [ws EXCEPT ![p] = w]
    /\ incoming' = [incoming EXCEPT ![p] = inc] /\ UNCHANGED client

(* A step of a server task leaves the other peers alone. *)
LEMMA ServerKeeps ==
    ASSUME IInv, AllIntact, NEW p \in Peer, NEW s, NEW w, NEW inc,
           ServerSteps(p, s, w, inc),
           \A i \in DOMAIN streams' : \E j \in DOMAIN streams : streams[j] = streams'[i],
           \A i \in DOMAIN streams' :
               streams'[i].peer = p /\ streams'[i].id \notin First /\ p \notin spoiled =>
                   s.at \in {"wait", "ended"},
           p \notin spoiled => Intact(p, inc, s, w, cli[p], rec[p], fragments[p], game[p])
    PROVE  AllIntact'
<1> SUFFICES ASSUME NEW q \in Peer, q \notin spoiled' PROVE IntactAt(q)' /\ Awaited(q)'
    BY ZenonT(60) DEF AllIntact
<1>1. /\ cli' = cli /\ rec' = rec /\ fragments' = fragments /\ game' = game
      /\ q \notin spoiled
      BY ZenonT(60) DEF ServerSteps, client
<1>2. /\ srv'[q] = (IF q = p THEN s ELSE srv[q])
      /\ ws'[q] = (IF q = p THEN w ELSE ws[q])
      /\ incoming'[q] = (IF q = p THEN inc ELSE incoming[q])
      BY ZenonT(60) DEF ServerSteps, IInv, TypeOK
<1>3. IntactAt(q) /\ Awaited(q)
      BY <1>1, ZenonT(60) DEF AllIntact
<1>4. Intact(q, incoming'[q], srv'[q], ws'[q], cli[q], rec[q], fragments[q], game[q])
      BY <1>1, <1>2, <1>3, ZenonT(60) DEF IntactAt
<1>5. Awaited(q)'
  <2> SUFFICES ASSUME NEW i \in DOMAIN streams', streams'[i].peer = q, streams'[i].id \notin First
               PROVE  /\ rec'[q].at = "describe" /\ rec'[q].id = streams'[i].id
                      /\ srv'[q].at \in {"wait", "ended"}
      BY ZenonT(60) DEF Awaited
  <2>1. PICK j \in DOMAIN streams : streams[j] = streams'[i]
        BY ZenonT(60)
  <2>2. rec[q].at = "describe" /\ rec[q].id = streams'[i].id /\ srv[q].at \in {"wait", "ended"}
        BY <1>3, <2>1, ZenonT(60) DEF Awaited
  <2> QED BY <1>1, <1>2, <2>2, ZenonT(60)
<1> QED BY <1>1, <1>4, <1>5, ZenonT(60) DEF IntactAt

(* No stream is opened or accepted. *)
LEMMA ServerKeepsOn ==
    ASSUME IInv, AllIntact, NEW p \in Peer, NEW s, NEW w, NEW inc,
           srv' = [srv EXCEPT ![p] = s], ws' = [ws EXCEPT ![p] = w],
           incoming' = [incoming EXCEPT ![p] = inc], UNCHANGED <<client, streams>>,
           srv[p].at \in {"wait", "ended"} => s.at \in {"wait", "ended"},
           p \notin spoiled => Intact(p, inc, s, w, cli[p], rec[p], fragments[p], game[p])
    PROVE  AllIntact'
<1>1. \A i \in DOMAIN streams' : \E j \in DOMAIN streams : streams[j] = streams'[i]
      BY ZenonT(60)
<1>2. ASSUME NEW i \in DOMAIN streams', streams'[i].peer = p, streams'[i].id \notin First, p \notin spoiled
      PROVE  s.at \in {"wait", "ended"}
      BY <1>2, ZenonT(60) DEF AllIntact, Awaited
<1>3. ServerSteps(p, s, w, inc)
      BY ZenonT(60) DEF ServerSteps
<1> QED BY <1>1, <1>2, <1>3, ServerKeeps, ZenonT(60)

ClientSteps(p, c, r, fr, g, w) ==
    /\ cli' = [cli EXCEPT ![p] = c] /\ rec' = [rec EXCEPT ![p] = r]
    /\ fragments' = [fragments EXCEPT ![p] = fr] /\ game' = [game EXCEPT ![p] = g]
    /\ ws' = [ws EXCEPT ![p] = w] /\ UNCHANGED server

(* A step on the client side leaves the other peers alone. *)
LEMMA ClientKeeps ==
    ASSUME IInv, AllIntact, NEW p \in Peer, NEW c, NEW r, NEW fr, NEW g, NEW w,
           ClientSteps(p, c, r, fr, g, w), spoiled \subseteq spoiled',
           \A i \in DOMAIN streams' :
               \/ \E j \in DOMAIN streams : streams[j] = streams'[i]
               \/ streams'[i].peer = p,
           p \notin spoiled' =>
               /\ Intact(p, incoming[p], srv[p], w, c, r, fr, g)
               /\ \A i \in DOMAIN streams' : streams'[i].peer = p /\ streams'[i].id \notin First =>
                      /\ r.at = "describe" /\ r.id = streams'[i].id
                      /\ srv[p].at \in {"wait", "ended"}
    PROVE  AllIntact'
<1> SUFFICES ASSUME NEW q \in Peer, q \notin spoiled' PROVE IntactAt(q)' /\ Awaited(q)'
    BY ZenonT(60) DEF AllIntact
<1>1. srv' = srv /\ incoming' = incoming /\ q \notin spoiled
      BY ZenonT(60) DEF ClientSteps, server
<1>2. /\ cli'[q] = (IF q = p THEN c ELSE cli[q])
      /\ rec'[q] = (IF q = p THEN r ELSE rec[q])
      /\ fragments'[q] = (IF q = p THEN fr ELSE fragments[q])
      /\ game'[q] = (IF q = p THEN g ELSE game[q])
      /\ ws'[q] = (IF q = p THEN w ELSE ws[q])
      BY ZenonT(60) DEF ClientSteps, IInv, TypeOK
<1>3. IntactAt(q) /\ Awaited(q)
      BY <1>1, ZenonT(60) DEF AllIntact
<1>4. Intact(q, incoming[q], srv[q], ws'[q], cli'[q], rec'[q], fragments'[q], game'[q])
      BY <1>1, <1>2, <1>3, ZenonT(60) DEF IntactAt
<1>5. Awaited(q)'
  <2> SUFFICES ASSUME NEW i \in DOMAIN streams', streams'[i].peer = q, streams'[i].id \notin First
               PROVE  /\ rec'[q].at = "describe" /\ rec'[q].id = streams'[i].id
                      /\ srv'[q].at \in {"wait", "ended"}
      BY ZenonT(60) DEF Awaited
  <2>1. CASE q = p
        BY <1>1, <1>2, <2>1, ZenonT(60)
  <2>2. CASE q # p
    <3>1. PICK j \in DOMAIN streams : streams[j] = streams'[i]
          BY <2>2, ZenonT(60)
    <3> QED BY <1>1, <1>2, <1>3, <2>2, <3>1, ZenonT(60) DEF Awaited
  <2> QED BY <2>1, <2>2, ZenonT(60)
<1> QED BY <1>1, <1>4, <1>5, ZenonT(60) DEF IntactAt

(* No stream is opened or accepted. *)
LEMMA ClientKeepsOn ==
    ASSUME IInv, AllIntact, NEW p \in Peer, NEW c, NEW r, NEW fr, NEW g, NEW w,
           cli' = [cli EXCEPT ![p] = c], rec' = [rec EXCEPT ![p] = r],
           fragments' = [fragments EXCEPT ![p] = fr], game' = [game EXCEPT ![p] = g],
           ws' = [ws EXCEPT ![p] = w], UNCHANGED <<server, streams>>, spoiled \subseteq spoiled',
           r = rec[p] \/ rec[p].at # "describe" \/ srv[p].at \notin {"wait", "ended"},
           p \notin spoiled' => Intact(p, incoming[p], srv[p], w, c, r, fr, g)
    PROVE  AllIntact'
<1>1. \A i \in DOMAIN streams' : \E j \in DOMAIN streams : streams[j] = streams'[i]
      BY ZenonT(60)
<1>2. ASSUME p \notin spoiled', NEW i \in DOMAIN streams', streams'[i].peer = p, streams'[i].id \notin First
      PROVE  r.at = "describe" /\ r.id = streams'[i].id /\ srv[p].at \in {"wait", "ended"}
  <2>1. Awaited(p)
        BY <1>2, ZenonT(60) DEF AllIntact
  <2>2. rec[p].at = "describe" /\ rec[p].id = streams'[i].id /\ srv[p].at \in {"wait", "ended"}
        BY <1>2, <2>1, ZenonT(60) DEF Awaited
  <2> QED BY <2>2, ZenonT(60)
<1>3. ClientSteps(p, c, r, fr, g, w)
      BY ZenonT(60) DEF ClientSteps
<1> QED BY <1>1, <1>2, <1>3, ClientKeeps, ZenonT(60)

-----------------------------------------------------------------------------
(* The steps of the server proxy. *)

(* What AllIntact says of one peer. *)
LEMMA WhatIsIntact ==
    ASSUME AllIntact, NEW p \in Peer, p \notin spoiled
    PROVE  /\ Intact(p, incoming[p], srv[p], ws[p], cli[p], rec[p], fragments[p], game[p])
           /\ Awaited(p)
BY DEF AllIntact, IntactAt

(* A frame is read and relayed, unless its reader is gone. *)
LEMMA WriteKeeps ==
    ASSUME IInv, AllIntact, NEW p \in Peer, srv[p].at \in {"copy", "gather"}, ReadFrame(p),
           NEW s, WriteThen(p, Head(incoming[p]), s), UNCHANGED <<client, streams>>,
           p \notin spoiled =>
               Intact(p, Tail(incoming[p]), s, Append(ws[p], Head(incoming[p])),
                      cli[p], rec[p], fragments[p], game[p])
    PROVE  AllIntact'
<1>1. /\ srv[p] \in ServerTask /\ incoming[p] \in Seq(WsFrame) /\ incoming[p] # <<>>
      /\ incoming' = [incoming EXCEPT ![p] = Tail(incoming[p])]
      BY PeerFacts, ZenonT(60) DEF ReadFrame
<1>2. CASE /\ ws' = [ws EXCEPT ![p] = Append(@, Head(incoming[p]))]
           /\ srv' = [srv EXCEPT ![p] = s]
  <2>1. ws' = [ws EXCEPT ![p] = Append(ws[p], Head(incoming[p]))]
        BY <1>2, ZenonT(60)
  <2> QED BY <1>1, <1>2, <2>1, ServerKeepsOn, ZenonT(60)
<1>3. CASE cli[p].at = "ended" /\ srv' = [srv EXCEPT ![p].at = "ended"] /\ UNCHANGED ws
  <2>1. PICK e \in ServerTask :
            e = [srv[p] EXCEPT !.at = "ended"] /\ e.at = "ended" /\ e.data = srv[p].data
    <3>1. srv[p] \in ServerTask /\ "ended" \in ServerAt
          BY <1>1, ZenonT(60) DEF ServerAt
    <3> QED BY <3>1, ServerMove
  <2>2. srv' = [srv EXCEPT ![p] = e] /\ ws' = [ws EXCEPT ![p] = ws[p]]
        BY <1>3, <2>1, ZenonT(60) DEF IInv, TypeOK
  <2>3. ASSUME p \notin spoiled
        PROVE  Intact(p, Tail(incoming[p]), e, ws[p], cli[p], rec[p], fragments[p], game[p])
        BY <1>1, <1>3, <2>1, <2>3, WhatIsIntact, IntactGone, ZenonT(60)
  <2> QED BY <1>1, <2>1, <2>2, <2>3, ServerKeepsOn, ZenonT(60)
<1> QED BY <1>2, <1>3, ZenonT(60) DEF WriteThen

(* The packet collected so far. *)
LEMMA CollectKeeps ==
    ASSUME IInv, AllIntact, NEW p \in Peer, srv[p].at \in {"copy", "gather"}, ReadFrame(p),
           UNCHANGED <<ws, client, streams>>, NEW s, srv' = [srv EXCEPT ![p] = s],
           p \notin spoiled =>
               Intact(p, Tail(incoming[p]), s, ws[p], cli[p], rec[p], fragments[p], game[p])
    PROVE  AllIntact'
<1>1. incoming' = [incoming EXCEPT ![p] = Tail(incoming[p])] /\ ws' = [ws EXCEPT ![p] = ws[p]]
      BY DEF ReadFrame, IInv, TypeOK
<1> QED BY <1>1, ServerKeepsOn, ZenonT(60)

(* copy_with_dedup of the server proxy reads a frame. *)
LEMMA CopyFrameKeeps ==
    ASSUME IInv, AllIntact, NEW p \in Peer, CopyFrame(p)
    PROVE  AllIntact'
<1>1. /\ srv[p] \in ServerTask /\ srv[p].at = "copy" /\ ws[p] \in Seq(StreamFrame)
      /\ incoming[p] \in Seq(WsFrame) /\ incoming[p] # <<>>
      /\ ReadFrame(p) /\ UNCHANGED <<client, streams>>
      BY PeerFacts, ZenonT(60) DEF CopyFrame, ReadFrame
<1>2. PICK f \in WsFrame : f = Head(incoming[p])
      BY <1>1, Parted, ZenonT(60)
<1>3. CASE f.op = "binary" /\ f.large
  <2>1. PICK at \in ServerAt : at = IF f.fin THEN "gathered" ELSE "gather"
        BY DEF ServerAt
  <2>2. PICK s : s = [srv[p] EXCEPT !.at = at, !.data = f.data]
        OBVIOUS
  <2>3. s.at = at /\ s.data = f.data
        BY <1>1, <2>2, ZenonT(60) DEF ServerTask
  <2>4. srv' = [srv EXCEPT ![p] = s] /\ ws' = ws
        BY <1>2, <1>3, <2>1, <2>2, ZenonT(60) DEF CopyFrame
  <2>5. Gathering(s, f)
        BY <2>1, <2>3, ZenonT(60) DEF Gathering
  <2>6. ASSUME p \notin spoiled
        PROVE  Intact(p, Tail(incoming[p]), s, ws[p], cli[p], rec[p], fragments[p], game[p])
        BY <1>1, <1>2, <1>3, <2>3, <2>5, <2>6, WhatIsIntact, IntactTakes, ZenonT(60)
  <2> QED BY <1>1, <2>4, <2>6, CollectKeeps, ZenonT(60)
<1>4. CASE ~(f.op = "binary" /\ f.large)
  <2>1. WriteThen(p, Head(incoming[p]), srv[p])
        BY <1>2, <1>4, ZenonT(60) DEF CopyFrame
  <2>2. ASSUME p \notin spoiled
        PROVE  Intact(p, Tail(incoming[p]), srv[p], Append(ws[p], Head(incoming[p])),
                      cli[p], rec[p], fragments[p], game[p])
        BY <1>1, <2>2, WhatIsIntact, IntactCopies, ZenonT(60)
  <2> QED BY <1>1, <2>1, <2>2, WriteKeeps, ZenonT(60)
<1> QED BY <1>3, <1>4, ZenonT(60)

(* dedup_packet reads a frame. *)
LEMMA GatherFrameKeeps ==
    ASSUME IInv, AllIntact, NEW p \in Peer, GatherFrame(p)
    PROVE  AllIntact'
<1>1. /\ srv[p] \in ServerTask /\ srv[p].at = "gather" /\ ws[p] \in Seq(StreamFrame)
      /\ incoming[p] \in Seq(WsFrame) /\ incoming[p] # <<>>
      /\ ReadFrame(p) /\ UNCHANGED <<client, streams>>
      BY PeerFacts, ZenonT(60) DEF GatherFrame, ReadFrame
<1>2. PICK f \in WsFrame : f = Head(incoming[p])
      BY <1>1, Parted, ZenonT(60)
<1>3. CASE f.op = "continuation"
  <2>1. PICK at \in ServerAt : at = IF f.fin THEN "gathered" ELSE "gather"
        BY DEF ServerAt
  <2>2. PICK d : d = srv[p].data \o f.data
        BY ZenonT(60)
  <2>3. PICK s : s = [srv[p] EXCEPT !.at = at, !.data = d]
        OBVIOUS
  <2>4. s.at = at /\ s.data = d
        BY <1>1, <2>3, ZenonT(60) DEF ServerTask
  <2>5. srv' = [srv EXCEPT ![p] = s] /\ ws' = ws
        BY <1>2, <1>3, <2>1, <2>2, <2>3, ZenonT(60) DEF GatherFrame, Gathered
  <2>6. Gathering(s, f)
        BY <2>1, <2>4, ZenonT(60) DEF Gathering
  <2>7. ASSUME p \notin spoiled
        PROVE  Intact(p, Tail(incoming[p]), s, ws[p], cli[p], rec[p], fragments[p], game[p])
        BY <1>1, <1>2, <1>3, <2>2, <2>4, <2>6, <2>7, WhatIsIntact, IntactGathers, ZenonT(60)
  <2> QED BY <1>1, <2>5, <2>7, CollectKeeps, ZenonT(60)
<1>4. CASE f.op \in {"binary", "control"}
  <2>1. PICK s : WriteThen(p, Head(incoming[p]), s) /\
                 (\/ f.op = "control" /\ s = srv[p]
                  \/ f.op = "binary" /\ s.at = "copy")
    <3>1. \E s \in ServerTask : s = Copying(p) /\ s.at = "copy"
          BY CopyingIs, ZenonT(60)
    <3> QED BY <1>2, <1>4, <3>1, ZenonT(60) DEF GatherFrame
  <2>2. ASSUME p \notin spoiled
        PROVE  Intact(p, Tail(incoming[p]), s, Append(ws[p], Head(incoming[p])),
                      cli[p], rec[p], fragments[p], game[p])
        BY <1>1, <1>2, <2>1, <2>2, WhatIsIntact, IntactInterrupted, ZenonT(60)
  <2> QED BY <1>1, <2>1, <2>2, WriteKeeps, ZenonT(60)
<1>5. f.op \in {"binary", "continuation", "control"}
      BY DEF WsFrame
<1> QED BY <1>3, <1>4, <1>5, ZenonT(60)

(* The packet is registered and announced. *)
LEMMA StartDedupKeeps ==
    ASSUME IInv, AllIntact, NEW p \in Peer, StartDedup(p)
    PROVE  AllIntact'
<1>1. /\ srv[p] \in ServerTask /\ srv[p].at = "gathered" /\ ws[p] \in Seq(StreamFrame)
      /\ rec[p] \in Reconstruction /\ next_id \in Nat
      /\ UNCHANGED <<client, streams>> /\ incoming' = [incoming EXCEPT ![p] = incoming[p]]
      BY PeerFacts, ZenonT(60) DEF StartDedup, IInv, TypeOK
<1>2. CASE /\ ws' = [ws EXCEPT ![p] = Append(@, Indicator(next_id))]
           /\ srv' = [srv EXCEPT ![p] = [srv[p] EXCEPT !.at = "wait"]]
  <2>1. PICK s \in ServerTask :
            s = [srv[p] EXCEPT !.at = "wait"] /\ s.at = "wait" /\ s.data = srv[p].data
    <3>1. srv[p] \in ServerTask /\ "wait" \in ServerAt
          BY <1>1, ZenonT(60) DEF ServerAt
    <3> QED BY <3>1, ServerMove, ZenonT(60)
  <2>2. srv' = [srv EXCEPT ![p] = s] /\ ws' = [ws EXCEPT ![p] = Append(ws[p], Indicator(next_id))]
        BY <1>2, <2>1, ZenonT(60)
  <2>3. ASSUME p \notin spoiled
        PROVE  Intact(p, incoming[p], s, Append(ws[p], Indicator(next_id)),
                      cli[p], rec[p], fragments[p], game[p])
        BY <1>1, <2>1, <2>3, WhatIsIntact, IntactAnnounces, ZenonT(60)
  <2> QED BY <1>1, <2>2, <2>3, ServerKeepsOn, ZenonT(60)
<1>3. CASE cli[p].at = "ended" /\ srv' = [srv EXCEPT ![p].at = "ended"] /\ UNCHANGED ws
  <2>1. PICK s \in ServerTask :
            s = [srv[p] EXCEPT !.at = "ended"] /\ s.at = "ended" /\ s.data = srv[p].data
    <3>1. srv[p] \in ServerTask /\ "ended" \in ServerAt
          BY <1>1, ZenonT(60) DEF ServerAt
    <3> QED BY <3>1, ServerMove, ZenonT(60)
  <2>2. srv' = [srv EXCEPT ![p] = s] /\ ws' = [ws EXCEPT ![p] = ws[p]]
        BY <1>3, <2>1, ZenonT(60) DEF IInv, TypeOK
  <2>3. ASSUME p \notin spoiled
        PROVE  Intact(p, incoming[p], s, ws[p], cli[p], rec[p], fragments[p], game[p])
        BY <2>1, <2>3, WhatIsIntact, IntactStops, ZenonT(60)
  <2> QED BY <1>1, <2>2, <2>3, ServerKeepsOn, ZenonT(60)
<1> QED BY <1>2, <1>3, ZenonT(60) DEF StartDedup, WriteThen

(* A server task ends. *)
LEMMA ServerStopsKeeps ==
    ASSUME IInv, AllIntact, NEW p \in Peer, srv' = [srv EXCEPT ![p].at = "ended"],
           UNCHANGED <<incoming, ws, client, streams>>
    PROVE  AllIntact'
<1>1. PICK s \in ServerTask :
          s = [srv[p] EXCEPT !.at = "ended"] /\ s.at = "ended" /\ s.data = srv[p].data
  <2>1. srv[p] \in ServerTask /\ "ended" \in ServerAt
        BY PeerFacts, ZenonT(60) DEF ServerAt
  <2> QED BY <2>1, ServerMove, ZenonT(60)
<1>2. ServerSteps(p, s, ws[p], incoming[p])
      BY <1>1, ZenonT(60) DEF ServerSteps, IInv, TypeOK
<1>3. ASSUME p \notin spoiled
      PROVE  Intact(p, incoming[p], s, ws[p], cli[p], rec[p], fragments[p], game[p])
      BY <1>1, <1>3, WhatIsIntact, IntactStops, ZenonT(60)
<1>4. /\ \A i \in DOMAIN streams' : \E j \in DOMAIN streams : streams[j] = streams'[i]
      /\ \A i \in DOMAIN streams' :
             streams'[i].peer = p /\ streams'[i].id \notin First /\ p \notin spoiled =>
                 s.at \in {"wait", "ended"}
      BY <1>1, ZenonT(60)
<1> QED BY <1>2, <1>3, <1>4, ServerKeeps, ZenonT(60)

(* provide_chunks_as_requested returns. *)
LEMMA ProvidedKeeps ==
    ASSUME IInv, AllIntact, NEW p \in Peer, Provided(p)
    PROVE  AllIntact'
<1>1. /\ srv[p].to = p /\ srv[p].at = "provide" /\ ws[p] \in Seq(StreamFrame)
      /\ UNCHANGED <<incoming, ws, client, streams>>
      BY PeerFacts DEF Provided
<1>2. CASE rec[p].at \in {"done", "failed"} /\ srv' = [srv EXCEPT ![p] = Copying(p)]
  <2>1. PICK s \in ServerTask : s = Copying(p) /\ s.at = "copy"
        BY CopyingIs, ZenonT(60)
  <2>2. /\ srv' = [srv EXCEPT ![p] = s] /\ ws' = [ws EXCEPT ![p] = ws[p]]
        /\ incoming' = [incoming EXCEPT ![p] = incoming[p]] /\ UNCHANGED <<client, streams>>
        BY <1>1, <1>2, <2>1, ZenonT(60) DEF IInv, TypeOK
  <2>3. ASSUME p \notin spoiled
        PROVE  Intact(p, incoming[p], s, ws[p], cli[p], rec[p], fragments[p], game[p])
    <3>1. Intact(p, incoming[p], srv[p], ws[p], cli[p], rec[p], fragments[p], game[p])
          BY <2>3, WhatIsIntact, ZenonT(60)
    <3>2. rec[p].at = "done"
          BY <1>2, <3>1, ZenonT(60) DEF Intact, OneAtATime
    <3>3. Settled(srv[p], rec[p])
          BY <1>1, <3>2, ZenonT(60) DEF Settled
    <3>4. Resumed(s)
          BY <2>1, ZenonT(60) DEF Resumed
    <3> QED BY <1>1, <3>1, <3>3, <3>4, IntactResumes, ZenonT(60)
  <2>4. srv[p].at \in {"wait", "ended"} => s.at \in {"wait", "ended"}
        BY <1>1, ZenonT(60)
  <2> QED BY <2>2, <2>3, <2>4, ServerKeepsOn, ZenonT(60)
<1>3. CASE srv' = [srv EXCEPT ![p].at = "ended"]
      BY <1>1, <1>3, ServerStopsKeeps, ZenonT(60)
<1> QED BY <1>1, <1>2, <1>3, ZenonT(60) DEF Provided

(* proxy_server reads InitialConnectionInfo. *)
LEMMA GreetKeeps ==
    ASSUME IInv, AllIntact, NEW p \in Peer, Greet(p)
    PROVE  AllIntact'
<1>1. /\ srv[p].at = "greet" /\ ws[p] \in Seq(StreamFrame)
      /\ UNCHANGED <<incoming, ws, client, streams>>
      BY PeerFacts DEF Greet
<1>2. CASE srv' = [srv EXCEPT ![p] = Copying(p)]
  <2>1. PICK s \in ServerTask : s = Copying(p) /\ s.at = "copy"
        BY CopyingIs, ZenonT(60)
  <2>2. /\ srv' = [srv EXCEPT ![p] = s] /\ ws' = [ws EXCEPT ![p] = ws[p]]
        /\ incoming' = [incoming EXCEPT ![p] = incoming[p]] /\ UNCHANGED <<client, streams>>
        BY <1>1, <1>2, <2>1, ZenonT(60) DEF IInv, TypeOK
  <2>3. ASSUME p \notin spoiled
        PROVE  Intact(p, incoming[p], s, ws[p], cli[p], rec[p], fragments[p], game[p])
    <3>1. Intact(p, incoming[p], srv[p], ws[p], cli[p], rec[p], fragments[p], game[p])
          BY <2>3, WhatIsIntact, ZenonT(60)
    <3>2. Settled(srv[p], rec[p])
          BY <1>1, ZenonT(60) DEF Settled
    <3>3. Resumed(s)
          BY <2>1, ZenonT(60) DEF Resumed
    <3> QED BY <1>1, <3>1, <3>2, <3>3, IntactResumes, ZenonT(60)
  <2>4. srv[p].at \in {"wait", "ended"} => s.at \in {"wait", "ended"}
        BY <1>1, ZenonT(60)
  <2> QED BY <2>2, <2>3, <2>4, ServerKeepsOn, ZenonT(60)
<1>3. CASE srv' = [srv EXCEPT ![p].at = "ended"]
      BY <1>1, <1>3, ServerStopsKeeps, ZenonT(60)
<1> QED BY <1>2, <1>3, ZenonT(60) DEF Greet

(* The stream accepted was the only one of its reconstruction. *)
LEMMA AcceptStreamKeeps ==
    ASSUME IInv, AllIntact, AcceptStream
    PROVE  AllIntact'
<1>1. /\ streams # <<>> /\ streams' = Tail(streams)
      /\ UNCHANGED <<incoming, ws>> /\ UNCHANGED client
      BY ZenonT(60) DEF AcceptStream
<1>2. PICK s \in Stream :
          /\ s = Head(streams) /\ s.peer \in Peer
          /\ s.id \notin First => Pends(s.id, s.peer)
          /\ s.id \in First => srv[s.peer].at = "off"
          /\ \A i \in DOMAIN Tail(streams) :
                 /\ i + 1 \in DOMAIN streams /\ Tail(streams)[i] = streams[i + 1]
                 /\ ~Alike(streams[i + 1], s)
      BY <1>1, FirstStream, ZenonT(60)
<1> DEFINE m == pending_dedup_streams
<1>3. PICK q \in Peer : q = s.peer
      BY <1>2, ZenonT(60)
<1>4. /\ \A i \in DOMAIN streams' : \E j \in DOMAIN streams : streams[j] = streams'[i]
      /\ \A i \in DOMAIN streams' : ~(streams'[i].id = s.id /\ streams'[i].peer = q)
      BY <1>1, <1>2, <1>3, ZenonT(60) DEF Alike
<1>5. /\ srv[q] \in ServerTask /\ srv[q].to = q /\ ws[q] \in Seq(StreamFrame)
      /\ ws' = [ws EXCEPT ![q] = ws[q]] /\ incoming' = [incoming EXCEPT ![q] = incoming[q]]
      BY <1>1, <1>2, PeerFacts, ZenonT(60) DEF IInv, TypeOK
<1>6. /\ \A i \in First : i \notin DOMAIN m
      /\ s.id \notin First => s.id # 0 /\ s.id \in DOMAIN m /\ m[s.id] = q
  <2>1. DOMAIN m \subseteq 1 .. next_id - 1
        BY ZenonT(60) DEF IInv, Matching
  <2>2. \A i \in First : i \notin DOMAIN m
        BY <2>1 DEF First, Blank, Empty
  <2> QED BY <1>2, <1>3, <2>2, ZenonT(60) DEF Pends, First
<1>7. ASSUME NEW i \in DOMAIN streams', streams'[i].peer = q, streams'[i].id \notin First, q \notin spoiled
      PROVE  rec[q].at = "describe" /\ rec[q].id = streams'[i].id /\ srv[q].at \in {"wait", "ended"}
  <2>1. PICK j \in DOMAIN streams : streams[j] = streams'[i]
        BY <1>4, ZenonT(60)
  <2>2. Awaited(q)
        BY <1>7, WhatIsIntact, ZenonT(60)
  <2> QED BY <1>7, <2>1, <2>2, ZenonT(60) DEF Awaited
<1>8. ASSUME s.id \notin First, q \notin spoiled
      PROVE  rec[q].at = "describe" /\ rec[q].id = s.id
  <2>1. 1 \in DOMAIN streams /\ streams[1] = s
    <3>1. streams \in Seq(Stream)
          BY ZenonT(60) DEF IInv, TypeOK
    <3> QED BY <1>1, <1>2, <3>1, Parted, ZenonT(60)
  <2>2. Awaited(q)
        BY <1>8, WhatIsIntact, ZenonT(60)
  <2> QED BY <1>2, <1>3, <1>8, <2>1, <2>2, ZenonT(60) DEF Awaited
<1>9. CASE s.id \in First
  <2>1. PICK t \in ServerTask : srv' = [srv EXCEPT ![q] = t] /\ (t = srv[q] \/ t.at = "greet")
    <3>1. CASE s.id = 0
      <4>1. "greet" \in ServerAt
            BY DEF ServerAt
      <4>2. PICK t \in ServerTask : t = [srv[q] EXCEPT !.at = "greet"] /\ t.at = "greet"
            BY <1>5, <4>1, ServerMove, ZenonT(60)
      <4> QED BY <1>2, <1>3, <1>6, <1>9, <3>1, <4>2, ZenonT(60) DEF AcceptStream
    <3>2. CASE s.id # 0
          BY <1>2, <1>3, <1>5, <1>6, <1>9, <3>2, ZenonT(60) DEF AcceptStream
    <3> QED BY <3>1, <3>2, ZenonT(60)
  <2>2. srv' = [srv EXCEPT ![q] = t]
        BY <2>1, ZenonT(60)
  <2>3. ASSUME q \notin spoiled
        PROVE  Intact(q, incoming[q], t, ws[q], cli[q], rec[q], fragments[q], game[q])
    <3>1. /\ Intact(q, incoming[q], srv[q], ws[q], cli[q], rec[q], fragments[q], game[q])
          /\ q \in Peer /\ ws[q] \in Seq(StreamFrame)
          BY <1>2, <1>3, <1>5, <2>3, WhatIsIntact, ZenonT(60)
    <3>2. CASE t = srv[q]
          BY <3>1, <3>2, ZenonT(60)
    <3>3. CASE t.at = "greet"
      <4>1. Settled(srv[q], rec[q])
            BY <1>2, <1>3, <1>5, <1>9, ZenonT(60) DEF Settled
      <4>2. Resumed(t)
            BY <3>3, ZenonT(60) DEF Resumed
      <4> QED BY <3>1, <4>1, <4>2, IntactResumes, ZenonT(60)
    <3> QED BY <2>1, <3>2, <3>3, ZenonT(60)
  <2>4. \A i \in DOMAIN streams' : ~(streams'[i].peer = q /\ streams'[i].id \notin First /\ q \notin spoiled)
        BY <1>2, <1>3, <1>7, <1>9, ZenonT(60)
  <2>5. \A i \in DOMAIN streams' :
            streams'[i].peer = q /\ streams'[i].id \notin First /\ q \notin spoiled =>
                t.at \in {"wait", "ended"}
        BY <2>4, ZenonT(60)
  <2>6. ServerSteps(q, t, ws[q], incoming[q])
        BY <1>1, <1>5, <2>2, ZenonT(60) DEF ServerSteps
  <2> QED BY <1>4, <2>3, <2>5, <2>6, ServerKeeps, ZenonT(60)
<1>10. CASE s.id \notin First
  <2>1. srv' = [srv EXCEPT ![q] = HandedOver(q, q)]
        BY <1>2, <1>3, <1>6, <1>10, ZenonT(60) DEF AcceptStream
  <2>2. \A i \in DOMAIN streams' : ~(streams'[i].peer = q /\ streams'[i].id \notin First /\ q \notin spoiled)
        BY <1>4, <1>7, <1>8, <1>10, ZenonT(60)
  <2>3. CASE srv[q].at = "wait"
    <3>1. PICK t : t = [srv[q] EXCEPT !.at = "provide", !.to = q]
          OBVIOUS
    <3>2. t.at = "provide" /\ t.data = srv[q].data
          BY <1>5, <3>1, ZenonT(60) DEF ServerTask
    <3>3. srv' = [srv EXCEPT ![q] = t]
          BY <2>1, <2>3, <3>1, ZenonT(60) DEF HandedOver
    <3>4. ASSUME q \notin spoiled
          PROVE  Intact(q, incoming[q], t, ws[q], cli[q], rec[q], fragments[q], game[q])
          BY <1>2, <1>3, <1>8, <1>10, <2>3, <3>2, <3>4, WhatIsIntact, IntactHanded, ZenonT(60)
    <3>5. \A i \in DOMAIN streams' :
              streams'[i].peer = q /\ streams'[i].id \notin First /\ q \notin spoiled =>
                  t.at \in {"wait", "ended"}
          BY <2>2, ZenonT(60)
    <3>6. ServerSteps(q, t, ws[q], incoming[q])
          BY <1>1, <1>5, <3>3, ZenonT(60) DEF ServerSteps
    <3> QED BY <1>4, <3>4, <3>5, <3>6, ServerKeeps, ZenonT(60)
  <2>4. CASE srv[q].at # "wait"
    <3>1. srv' = [srv EXCEPT ![q] = srv[q]]
          BY <2>1, <2>4, ZenonT(60) DEF HandedOver
    <3>2. ASSUME q \notin spoiled
          PROVE  Intact(q, incoming[q], srv[q], ws[q], cli[q], rec[q], fragments[q], game[q])
          BY <1>2, <1>3, <3>2, WhatIsIntact, ZenonT(60)
    <3>3. \A i \in DOMAIN streams' :
              streams'[i].peer = q /\ streams'[i].id \notin First /\ q \notin spoiled =>
                  srv[q].at \in {"wait", "ended"}
          BY <2>2, ZenonT(60)
    <3>4. ServerSteps(q, srv[q], ws[q], incoming[q])
          BY <1>1, <1>5, <3>1, ZenonT(60) DEF ServerSteps
    <3> QED BY <1>4, <3>2, <3>3, <3>4, ServerKeeps, ZenonT(60)
  <2> QED BY <2>3, <2>4, ZenonT(60)
<1> QED BY <1>9, <1>10, ZenonT(60)

-----------------------------------------------------------------------------
(* The steps of the client proxy. *)

(* A game client connects, or leaves during the handshake. *)
LEMMA HandshakeKeeps ==
    ASSUME IInv, AllIntact, NEW p \in Peer, Connect(p) \/ WriteId(p) \/ WriteInfo(p) \/ Leave(p)
    PROVE  AllIntact'
<1>1. /\ cli[p] \in ClientTask /\ cli[p].at \in {"off", "opened", "named"} /\ spoiled' = spoiled
      /\ UNCHANGED <<server, ws, rec, fragments, game>> /\ streams \in Seq(Stream)
      BY PeerFacts, ZenonT(60) DEF Connect, WriteId, WriteInfo, Leave, IInv, TypeOK
<1>2. PICK at \in {"opened", "named", "copy", "silent", "left"} : cli' = [cli EXCEPT ![p].at = at]
      BY ZenonT(60) DEF Connect, WriteId, WriteInfo, Leave
<1>3. PICK c : c = [cli[p] EXCEPT !.at = at] /\ c.at # "forward"
  <2>1. PICK c : c = [cli[p] EXCEPT !.at = at]
        BY ZenonT(60)
  <2>2. c.at = at
        BY <1>1, <2>1, ZenonT(60) DEF ClientTask
  <2> QED BY <1>2, <2>1, <2>2, ZenonT(60)
<1>4. /\ cli' = [cli EXCEPT ![p] = c] /\ rec' = [rec EXCEPT ![p] = rec[p]]
      /\ fragments' = [fragments EXCEPT ![p] = fragments[p]]
      /\ game' = [game EXCEPT ![p] = game[p]] /\ ws' = [ws EXCEPT ![p] = ws[p]]
      BY <1>1, <1>2, <1>3, ZenonT(60) DEF IInv, TypeOK
<1>5. \A i \in DOMAIN streams' :
          \/ i \in DOMAIN streams /\ streams[i] = streams'[i]
          \/ streams'[i].peer = p /\ streams'[i].id \in First
  <2>1. 0 \in First /\ Blank \in First /\ Empty \in First
        BY ZenonT(60) DEF First
  <2>2. CASE OpenStream(p, Blank)
    <3>1. PICK x \in Stream : x = [id |-> Blank, peer |-> p]
          BY <2>1, ZenonT(60) DEF Stream
    <3>2. x.peer = p /\ x.id \in First
          BY <2>1, <3>1, ZenonT(60)
    <3>3. streams' = Append(streams, x)
          BY <2>2, <3>1, ZenonT(60) DEF OpenStream
    <3> QED BY <1>1, <3>2, <3>3
  <2>3. ASSUME NEW id \in First, NameStream(p, id)
        PROVE  \A i \in DOMAIN streams' :
                   \/ i \in DOMAIN streams /\ streams[i] = streams'[i]
                   \/ streams'[i].peer = p /\ streams'[i].id \in First
    <3>1. PICK j \in DOMAIN streams : /\ streams[j] = [id |-> Blank, peer |-> p]
                                      /\ streams' = [streams EXCEPT ![j].id = id]
          BY <2>3, ZenonT(60) DEF NameStream
    <3>2. PICK x : x = [id |-> id, peer |-> p]
          BY ZenonT(60)
    <3>3. x.peer = p /\ x.id \in First
          BY <3>2, ZenonT(60)
    <3>4. streams' = [streams EXCEPT ![j] = x]
      <4>1. [[id |-> Blank, peer |-> p] EXCEPT !.id = id] = [id |-> id, peer |-> p]
            OBVIOUS
      <4> QED BY <3>1, <3>2, <4>1, ZenonT(60)
    <3> QED BY <1>1, <3>3, <3>4
  <2>4. CASE streams' = streams
        BY <2>4, ZenonT(60)
  <2> QED BY <2>1, <2>2, <2>3, <2>4, ZenonT(60) DEF Connect, WriteId, WriteInfo, Leave
<1>6. ASSUME p \notin spoiled'
      PROVE  /\ Intact(p, incoming[p], srv[p], ws[p], c, rec[p], fragments[p], game[p])
             /\ \A i \in DOMAIN streams' : streams'[i].peer = p /\ streams'[i].id \notin First =>
                    /\ rec[p].at = "describe" /\ rec[p].id = streams'[i].id
                    /\ srv[p].at \in {"wait", "ended"}
  <2>1. /\ Intact(p, incoming[p], srv[p], ws[p], cli[p], rec[p], fragments[p], game[p])
        /\ Awaited(p)
        BY <1>1, <1>6, WhatIsIntact, ZenonT(60)
  <2>2. Intact(p, incoming[p], srv[p], ws[p], c, rec[p], fragments[p], game[p])
    <3>1. c.at = "ended" \/ (cli[p].at \notin {"forward", "ended"} /\ c.at # "forward")
          BY <1>1, <1>3, ZenonT(60)
    <3> QED BY <2>1, <3>1, IntactClientMoves, ZenonT(60)
  <2> QED BY <1>5, <2>1, <2>2, ZenonT(60) DEF Awaited
<1>7. /\ spoiled \subseteq spoiled'
      /\ \A i \in DOMAIN streams' :
             \/ \E j \in DOMAIN streams : streams[j] = streams'[i]
             \/ streams'[i].peer = p
      BY <1>1, <1>5, ZenonT(60)
<1>8. ClientSteps(p, c, rec[p], fragments[p], game[p], ws[p])
      BY <1>1, <1>4, ZenonT(60) DEF ClientSteps
<1> QED BY <1>6, <1>7, <1>8, ClientKeeps, ZenonT(60)

(* copy_with_dedup of the client proxy reads a frame of the stream. *)
LEMMA ClientFrameKeeps ==
    ASSUME IInv, AllIntact, NEW p \in Peer, ClientFrame(p)
    PROVE  AllIntact'
<1>1. /\ cli[p].at = "copy" /\ ws[p] # <<>> /\ ws[p] \in Seq(StreamFrame)
      /\ game[p] \in Messages /\ srv[p] \in ServerTask
      /\ ws' = [ws EXCEPT ![p] = Tail(ws[p])]
      /\ UNCHANGED <<server, streams>> /\ spoiled' = spoiled
      /\ fragments' = [fragments EXCEPT ![p] = fragments[p]]
      BY PeerFacts, ZenonT(60) DEF ClientFrame, IInv, TypeOK
<1>2. CASE Head(ws[p]).op # "indicator"
  <2>1. /\ game' = [game EXCEPT ![p] = Receive(game[p], Head(ws[p]))]
        /\ cli' = [cli EXCEPT ![p] = cli[p]] /\ rec' = [rec EXCEPT ![p] = rec[p]]
        BY <1>2, ZenonT(60) DEF ClientFrame, IInv, TypeOK
  <2>2. ASSUME p \notin spoiled'
        PROVE  Intact(p, incoming[p], srv[p], Tail(ws[p]), cli[p], rec[p], fragments[p],
                      Receive(game[p], Head(ws[p])))
        BY <1>1, <1>2, <2>2, WhatIsIntact, IntactRelays, ZenonT(60)
  <2> QED BY <1>1, <2>1, <2>2, ClientKeepsOn, ZenonT(60)
<1>3. CASE Head(ws[p]).op = "indicator"
  <2>1. PICK c, r :
            /\ c = [at |-> "forward", first_frame |-> TRUE, last_bytes |-> <<>>]
            /\ r = [at |-> "open", id |-> Head(ws[p]).id, todo |-> <<>>]
        BY ZenonT(60)
  <2>2. c.at = "forward" /\ c.first_frame = TRUE /\ c.last_bytes = <<>> /\ r.at = "open"
        BY <2>1, ZenonT(60)
  <2>3. /\ cli' = [cli EXCEPT ![p] = c] /\ rec' = [rec EXCEPT ![p] = r]
        /\ game' = [game EXCEPT ![p] = game[p]]
        BY <1>3, <2>1, ZenonT(60) DEF ClientFrame, IInv, TypeOK
  <2>4. ASSUME p \notin spoiled'
        PROVE  Intact(p, incoming[p], srv[p], Tail(ws[p]), c, r, fragments[p], game[p])
        BY <1>1, <1>3, <2>2, <2>4, WhatIsIntact, IntactBegins, ZenonT(60)
  <2>5. ASSUME NEW i \in DOMAIN streams', streams'[i].peer = p, streams'[i].id \notin First, p \notin spoiled'
        PROVE  FALSE
    <3>1. /\ Intact(p, incoming[p], srv[p], ws[p], cli[p], rec[p], fragments[p], game[p])
          /\ Awaited(p)
          BY <1>1, <2>5, WhatIsIntact, ZenonT(60)
    <3>2. rec[p].at = "describe"
          BY <1>1, <2>5, <3>1, ZenonT(60) DEF Awaited
    <3> QED BY <1>1, <3>1, <3>2, ZenonT(60) DEF Intact, OneAtATime
  <2>6. \A i \in DOMAIN streams' : \E j \in DOMAIN streams : streams[j] = streams'[i]
        BY <1>1, ZenonT(60)
  <2>7. ClientSteps(p, c, r, fragments[p], game[p], Tail(ws[p])) /\ spoiled \subseteq spoiled'
        BY <1>1, <2>3, ZenonT(60) DEF ClientSteps
  <2> QED BY <2>4, <2>5, <2>6, <2>7, ClientKeeps, ZenonT(60)
<1> QED BY <1>2, <1>3, ZenonT(60)

(* A fragment is forwarded. *)
LEMMA ForwardKeeps ==
    ASSUME IInv, AllIntact, NEW p \in Peer, Forward(p)
    PROVE  AllIntact'
<1>1. /\ cli[p] \in ClientTask /\ cli[p].at = "forward" /\ game[p] \in Messages
      /\ fragments[p] \in Seq(Seq(Piece)) /\ fragments[p] # <<>>
      /\ fragments' = [fragments EXCEPT ![p] = Tail(fragments[p])]
      /\ UNCHANGED <<server, streams>> /\ spoiled' = spoiled
      /\ rec' = [rec EXCEPT ![p] = rec[p]] /\ ws' = [ws EXCEPT ![p] = ws[p]]
      BY PeerFacts, ZenonT(60) DEF Forward, IInv, TypeOK
<1>2. game' = [game EXCEPT ![p] = Wrote(cli[p], game[p], FALSE)]
      BY DEF Forward, WriteLast, FragmentOp, Wrote
<1>3. PICK d, first : /\ d = Head(fragments[p])
                      /\ first = (cli[p].first_frame /\ cli[p].last_bytes = <<>>)
      OBVIOUS
<1>4. PICK c : c = [cli[p] EXCEPT !.last_bytes = d, !.first_frame = first]
      OBVIOUS
<1>5. c.at = "forward" /\ c.last_bytes = d /\ c.first_frame = first
      BY <1>1, <1>4, ZenonT(60) DEF ClientTask
<1>6. cli' = [cli EXCEPT ![p] = c]
      BY <1>3, <1>4, ZenonT(60) DEF Forward
<1>7. ASSUME p \notin spoiled'
      PROVE  Intact(p, incoming[p], srv[p], ws[p], c, rec[p], Tail(fragments[p]),
                    Wrote(cli[p], game[p], FALSE))
      BY <1>1, <1>3, <1>5, <1>7, WhatIsIntact, IntactForwards, ZenonT(60)
<1> QED BY <1>1, <1>2, <1>6, <1>7, ClientKeepsOn, ZenonT(60)

(* The channel of fragments is closed and empty. *)
LEMMA ForwardEndsKeeps ==
    ASSUME IInv, AllIntact, NEW p \in Peer, ForwardEnds(p)
    PROVE  AllIntact'
<1>1. /\ cli[p] \in ClientTask /\ cli[p].at = "forward" /\ game[p] \in Messages
      /\ srv[p] \in ServerTask /\ fragments[p] = <<>> /\ rec[p].at \in {"done", "failed"}
      /\ UNCHANGED <<server, streams>> /\ spoiled' = spoiled
      /\ rec' = [rec EXCEPT ![p] = rec[p]] /\ ws' = [ws EXCEPT ![p] = ws[p]]
      /\ fragments' = [fragments EXCEPT ![p] = fragments[p]]
      BY PeerFacts, ZenonT(60) DEF ForwardEnds, IInv, TypeOK
<1>2. game' = [game EXCEPT ![p] = Wrote(cli[p], game[p], TRUE)]
      BY DEF ForwardEnds, Finish, WriteLast, FragmentOp, Wrote
<1>3. PICK c : c = [cli[p] EXCEPT !.at = "copy", !.last_bytes = <<>>]
      OBVIOUS
<1>4. c.at = "copy"
      BY <1>1, <1>3, ZenonT(60) DEF ClientTask
<1>5. cli' = [cli EXCEPT ![p] = c]
      BY <1>3, ZenonT(60) DEF ForwardEnds
<1>6. cli[p].first_frame \/ cli[p].last_bytes # <<>>
      BY <1>1, PeerFacts, ZenonT(60) DEF Shape, Forwarded
<1>7. ASSUME p \notin spoiled'
      PROVE  Intact(p, incoming[p], srv[p], ws[p], c, rec[p], fragments[p],
                    Wrote(cli[p], game[p], TRUE))
  <2>1. Intact(p, incoming[p], srv[p], ws[p], cli[p], rec[p], fragments[p], game[p])
        BY <1>1, <1>7, WhatIsIntact, ZenonT(60)
  <2>2. rec[p].at = "done"
        BY <1>1, <2>1, ZenonT(60) DEF Intact, OneAtATime
  <2> QED BY <1>1, <1>4, <1>6, <2>1, <2>2, IntactFinishes, ZenonT(60)
<1> QED BY <1>1, <1>2, <1>5, <1>7, ClientKeepsOn, ZenonT(60)

(* A client task ends. *)
LEMMA ClientEndsKeeps ==
    ASSUME IInv, AllIntact, NEW p \in Peer, ClientCloses(p) \/ Disconnected(p) \/ GameClientGone(p)
    PROVE  AllIntact'
<1>1. cli[p] \in ClientTask
      BY PeerFacts, ZenonT(60)
<1>2. PICK c : c = [cli[p] EXCEPT !.at = "ended"]
      BY ZenonT(60)
<1>3. c.at = "ended"
      BY <1>1, <1>2, ZenonT(60) DEF ClientTask
<1>4. cli' = [cli EXCEPT ![p] = c] /\ UNCHANGED <<server, ws, rec, fragments, streams, game, spoiled>>
      BY <1>2, ZenonT(60) DEF ClientCloses, Disconnected, GameClientGone
<1>5. /\ UNCHANGED <<server, streams>> /\ spoiled' = spoiled
      /\ rec' = [rec EXCEPT ![p] = rec[p]] /\ ws' = [ws EXCEPT ![p] = ws[p]]
      /\ fragments' = [fragments EXCEPT ![p] = fragments[p]] /\ game' = [game EXCEPT ![p] = game[p]]
      BY <1>4, ZenonT(60) DEF IInv, TypeOK
<1>6. ASSUME p \notin spoiled'
      PROVE  Intact(p, incoming[p], srv[p], ws[p], c, rec[p], fragments[p], game[p])
      BY <1>3, <1>5, <1>6, WhatIsIntact, IntactClientMoves, ZenonT(60)
<1>7. cli' = [cli EXCEPT ![p] = c] /\ spoiled \subseteq spoiled'
      BY <1>4, ZenonT(60)
<1> QED BY <1>5, <1>6, <1>7, ClientKeepsOn, ZenonT(60)

-----------------------------------------------------------------------------
(* The steps of reconstruct_packet. *)

(* It goes on by itself, or fails. *)
LEMMA ReconstructionKeeps ==
    ASSUME IInv, AllIntact, NEW p \in Peer, NEW r, rec' = [rec EXCEPT ![p] = r],
           UNCHANGED <<server, ws, cli, fragments, streams, game>>, spoiled \subseteq spoiled',
           rec[p].at # "describe" \/ srv[p].at \notin {"wait", "ended"} \/ p \in spoiled',
           p \notin spoiled' =>
               Intact(p, incoming[p], srv[p], ws[p], cli[p], r, fragments[p], game[p])
    PROVE  AllIntact'
<1>1. /\ UNCHANGED server /\ streams' = streams
      /\ cli' = [cli EXCEPT ![p] = cli[p]] /\ ws' = [ws EXCEPT ![p] = ws[p]]
      /\ fragments' = [fragments EXCEPT ![p] = fragments[p]] /\ game' = [game EXCEPT ![p] = game[p]]
      BY ZenonT(60) DEF IInv, TypeOK
<1>2. \A i \in DOMAIN streams' :
          \/ \E j \in DOMAIN streams : streams[j] = streams'[i]
          \/ streams'[i].peer = p
      BY <1>1, ZenonT(60)
<1>3. ASSUME p \notin spoiled', NEW i \in DOMAIN streams', streams'[i].peer = p, streams'[i].id \notin First
      PROVE  FALSE
  <2>1. Awaited(p)
        BY <1>3, WhatIsIntact, ZenonT(60)
  <2> QED BY <1>1, <1>3, <2>1, ZenonT(60) DEF Awaited
<1>4. p \notin spoiled' =>
          /\ Intact(p, incoming[p], srv[p], ws[p], cli[p], r, fragments[p], game[p])
          /\ \A i \in DOMAIN streams' : streams'[i].peer = p /\ streams'[i].id \notin First =>
                 /\ r.at = "describe" /\ r.id = streams'[i].id
                 /\ srv[p].at \in {"wait", "ended"}
      BY <1>3, ZenonT(60)
<1>5. ClientSteps(p, cli[p], r, fragments[p], game[p], ws[p])
      BY <1>1, ZenonT(60) DEF ClientSteps
<1> QED BY <1>2, <1>4, <1>5, ClientKeeps, ZenonT(60)

(* reconstruct_packet receives the description of the packet. *)
LEMMA DescribeKeeps ==
    ASSUME IInv, AllIntact, NEW p \in Peer, Describe(p)
    PROVE  AllIntact'
<1>1. /\ rec[p] \in Reconstruction /\ rec[p].at = "describe" /\ spoiled' = spoiled
      /\ UNCHANGED <<server, ws, cli, fragments, streams, game>>
      BY PeerFacts DEF Describe
<1>2. srv[p].at = "provide" /\ rec' = [rec EXCEPT ![p].at = "run", ![p].todo = srv[p].data]
  <2>1. PICK q \in Peer :
            /\ srv[q].at = "provide" /\ srv[q].to = p
            /\ rec' = [rec EXCEPT ![p].at = "run", ![p].todo = srv[q].data]
        BY ZenonT(60) DEF Describe
  <2>2. q = p
        BY <2>1, PeerFacts, ZenonT(60)
  <2> QED BY <2>1, <2>2, ZenonT(60)
<1>3. PICK d : d = srv[p].data
      OBVIOUS
<1>4. PICK r : r = [rec[p] EXCEPT !.at = "run", !.todo = d]
      OBVIOUS
<1>5. r.at = "run" /\ r.todo = d
      BY <1>1, <1>4, ZenonT(60) DEF Reconstruction
<1>6. rec' = [rec EXCEPT ![p] = r]
      BY <1>2, <1>3, <1>4, ZenonT(60)
<1>7. ASSUME p \notin spoiled'
      PROVE  Intact(p, incoming[p], srv[p], ws[p], cli[p], r, fragments[p], game[p])
      BY <1>1, <1>2, <1>3, <1>5, <1>7, WhatIsIntact, IntactReconstructs, ZenonT(60)
<1> QED BY <1>1, <1>2, <1>6, <1>7, ReconstructionKeeps, ZenonT(60)

(* reconstruct_packet has sent the whole packet. *)
LEMMA ReconstructedKeeps ==
    ASSUME IInv, AllIntact, NEW p \in Peer, Reconstructed(p)
    PROVE  AllIntact'
<1>1. /\ rec[p] \in Reconstruction /\ rec[p].at = "run" /\ rec[p].todo = <<>> /\ spoiled' = spoiled
      /\ UNCHANGED <<server, ws, cli, fragments, streams, game>>
      BY PeerFacts, ZenonT(60) DEF Reconstructed
<1>2. PICK r : r = [rec[p] EXCEPT !.at = "done"]
      BY ZenonT(60)
<1>3. r.at = "done" /\ r.todo = rec[p].todo
      BY <1>1, <1>2, ZenonT(60) DEF Reconstruction
<1>4. rec' = [rec EXCEPT ![p] = r]
      BY <1>2, ZenonT(60) DEF Reconstructed
<1>5. ASSUME p \notin spoiled'
      PROVE  Intact(p, incoming[p], srv[p], ws[p], cli[p], r, fragments[p], game[p])
      BY <1>1, <1>3, <1>5, WhatIsIntact, IntactReconstructs, ZenonT(60)
<1> QED BY <1>1, <1>4, <1>5, ReconstructionKeeps, ZenonT(60)

(* A peer whose reconstruction fails is spoiled. *)
LEMMA FailingKeeps ==
    ASSUME IInv, AllIntact, NEW p \in Peer, Failing(p)
    PROVE  AllIntact'
<1>1. PICK r : r = [rec[p] EXCEPT !.at = "failed"]
      BY ZenonT(60)
<1>2. /\ rec' = [rec EXCEPT ![p] = r] /\ p \in spoiled' /\ spoiled \subseteq spoiled'
      /\ UNCHANGED <<server, ws, cli, fragments, streams, game>>
      BY <1>1 DEF Failing
<1> QED BY <1>2, ReconstructionKeeps, ZenonT(60)

(* reconstruct_packet sends a fragment. *)
LEMMA SendFragmentKeeps ==
    ASSUME IInv, AllIntact, NEW p \in Peer, SendFragment(p)
    PROVE  AllIntact'
<1>1. /\ rec[p] \in Reconstruction /\ rec[p].at = "run" /\ cli[p].at = "forward"
      /\ fragments[p] \in Seq(Seq(Piece)) /\ UNCHANGED <<server, streams>> /\ spoiled' = spoiled
      /\ cli' = [cli EXCEPT ![p] = cli[p]] /\ ws' = [ws EXCEPT ![p] = ws[p]]
      /\ game' = [game EXCEPT ![p] = game[p]]
      BY PeerFacts, ZenonT(60) DEF SendFragment, IInv, TypeOK
<1>2. PICK todo : todo = rec[p].todo
      OBVIOUS
<1>3. PICK n \in 1 .. Len(todo) :
          /\ fragments' = [fragments EXCEPT ![p] = Append(@, SubSeq(todo, 1, n))]
          /\ rec' = [rec EXCEPT ![p].todo = SubSeq(todo, n + 1, Len(todo))]
      BY <1>2, ZenonT(60) DEF SendFragment
<1>4. PICK fr : fr = Append(fragments[p], SubSeq(todo, 1, n))
      BY ZenonT(60)
<1>5. PICK r : r = [rec[p] EXCEPT !.todo = SubSeq(todo, n + 1, Len(todo))]
      BY ZenonT(60)
<1>6. r.at = "run" /\ r.todo = SubSeq(todo, n + 1, Len(todo))
      BY <1>1, <1>5, ZenonT(60) DEF Reconstruction
<1>7. fragments' = [fragments EXCEPT ![p] = fr] /\ rec' = [rec EXCEPT ![p] = r]
      BY <1>3, <1>4, <1>5, ZenonT(60)
<1>8. ASSUME p \notin spoiled'
      PROVE  Intact(p, incoming[p], srv[p], ws[p], cli[p], r, fr, game[p])
      BY <1>1, <1>2, <1>4, <1>6, <1>8, WhatIsIntact, IntactSends, ZenonT(60)
<1> QED BY <1>1, <1>7, <1>8, ClientKeepsOn, ZenonT(60)

(* reconstruct_packet opens its stream. *)
LEMMA OpenDedupKeeps ==
    ASSUME IInv, AllIntact, NEW p \in Peer, OpenDedup(p)
    PROVE  AllIntact'
<1>1. /\ rec[p] \in Reconstruction /\ rec[p].at = "open" /\ rec[p].id \in Nat
      /\ UNCHANGED server /\ spoiled' = spoiled /\ streams \in Seq(Stream)
      /\ streams' = Append(streams, [id |-> rec[p].id, peer |-> p])
      /\ cli' = [cli EXCEPT ![p] = cli[p]] /\ ws' = [ws EXCEPT ![p] = ws[p]]
      /\ fragments' = [fragments EXCEPT ![p] = fragments[p]] /\ game' = [game EXCEPT ![p] = game[p]]
      BY PeerFacts, ZenonT(60) DEF OpenDedup, OpenStream, IInv, TypeOK, Reconstruction
<1>2. PICK r : r = [rec[p] EXCEPT !.at = "describe"]
      BY ZenonT(60)
<1>3. r.at = "describe" /\ r.id = rec[p].id
      BY <1>1, <1>2, ZenonT(60) DEF Reconstruction
<1>4. rec' = [rec EXCEPT ![p] = r]
      BY <1>2, ZenonT(60) DEF OpenDedup
<1>5. \A i \in DOMAIN streams' :
          \/ i \in DOMAIN streams /\ streams[i] = streams'[i]
          \/ streams'[i].peer = p /\ streams'[i].id = rec[p].id
  <2>1. PICK x \in Stream : x = [id |-> rec[p].id, peer |-> p] /\ x.peer = p /\ x.id = rec[p].id
    <3>1. [id |-> rec[p].id, peer |-> p] \in Stream
          BY <1>1, ZenonT(60) DEF Stream
    <3> QED BY <3>1, ZenonT(60)
  <2> QED BY <1>1, <2>1
<1>6. ASSUME p \notin spoiled'
      PROVE  /\ Intact(p, incoming[p], srv[p], ws[p], cli[p], r, fragments[p], game[p])
             /\ \A i \in DOMAIN streams' : streams'[i].peer = p /\ streams'[i].id \notin First =>
                    /\ r.at = "describe" /\ r.id = streams'[i].id
                    /\ srv[p].at \in {"wait", "ended"}
  <2>1. /\ Intact(p, incoming[p], srv[p], ws[p], cli[p], rec[p], fragments[p], game[p])
        /\ Awaited(p)
        BY <1>1, <1>6, WhatIsIntact, ZenonT(60)
  <2>2. Intact(p, incoming[p], srv[p], ws[p], cli[p], r, fragments[p], game[p])
        BY <1>1, <1>3, <2>1, IntactReconstructs, ZenonT(60)
  <2>3. srv[p].at \in {"wait", "ended"}
        BY <1>1, <2>1, ZenonT(60) DEF Intact, OneAtATime
  <2> QED BY <1>1, <1>3, <1>5, <2>1, <2>2, <2>3, ZenonT(60) DEF Awaited
<1>7. /\ spoiled \subseteq spoiled'
      /\ \A i \in DOMAIN streams' :
             \/ \E j \in DOMAIN streams : streams[j] = streams'[i]
             \/ streams'[i].peer = p
      BY <1>1, <1>5, ZenonT(60)
<1>8. ClientSteps(p, cli[p], r, fragments[p], game[p], ws[p])
      BY <1>1, <1>4, ZenonT(60) DEF ClientSteps
<1> QED BY <1>6, <1>7, <1>8, ClientKeeps, ZenonT(60)

-----------------------------------------------------------------------------
(* Every step keeps what is under way in order. *)
LEMMA NextKeeps == IInv /\ AllIntact /\ [Next]_vars => AllIntact'
<1> SUFFICES ASSUME IInv, AllIntact, [Next]_vars PROVE AllIntact'
    BY ZenonT(60)
<1>1. CASE UNCHANGED vars
  <2>1. /\ incoming' = incoming /\ srv' = srv /\ ws' = ws /\ cli' = cli /\ rec' = rec
        /\ fragments' = fragments /\ game' = game /\ streams' = streams /\ spoiled' = spoiled
        BY <1>1, ZenonT(60) DEF vars
  <2>2. \A p \in Peer : (IntactAt(p)' <=> IntactAt(p)) /\ (Awaited(p)' <=> Awaited(p))
        BY <2>1, ZenonT(60) DEF IntactAt, Awaited
  <2> QED BY <2>1, <2>2, ZenonT(60) DEF AllIntact
<1>2. CASE AcceptStream
      BY <1>2, AcceptStreamKeeps, ZenonT(60)
<1>3. ASSUME NEW p \in Peer, ServerStep(p) \/ Cancel(p)
      PROVE  AllIntact'
  <2>1. CASE ServerCloses(p) \/ Cancel(p)
        BY <2>1, ServerStopsKeeps, ZenonT(60) DEF ServerCloses, Cancel
  <2> QED BY <1>3, <2>1, GreetKeeps, CopyFrameKeeps, GatherFrameKeeps, StartDedupKeeps, ProvidedKeeps,
            ZenonT(60)
         DEF ServerStep
<1>4. ASSUME NEW p \in Peer, ClientStep(p) \/ Leave(p) \/ GameClientGone(p)
      PROVE  AllIntact'
      BY <1>4, HandshakeKeeps, ClientFrameKeeps, ForwardKeeps, ForwardEndsKeeps, ClientEndsKeeps, ZenonT(60)
         DEF ClientStep
<1>5. ASSUME NEW p \in Peer, ReconstructStep(p) \/ ReconstructFails(p)
      PROVE  AllIntact'
  <2>1. CASE Lost(p) \/ ReconstructFails(p)
        BY <2>1, FailingKeeps, ZenonT(60) DEF Lost, ReconstructFails
  <2> QED BY <1>5, <2>1, OpenDedupKeeps, DescribeKeeps, SendFragmentKeeps, ReconstructedKeeps, ZenonT(60)
         DEF ReconstructStep
<1> QED BY <1>1, <1>2, <1>3, <1>4, <1>5, ZenonT(60) DEF Next

-----------------------------------------------------------------------------
(* What the game server sends, frame by frame. *)

Order == INSTANCE WellFoundedInduction

(* A set of natural numbers has a least element. *)
LEMMA Least ==
    ASSUME NEW A \in SUBSET Nat, A # {}
    PROVE  \E x \in A : \A y \in A : x <= y
<1> DEFINE R == Order!OpToRel(<, Nat)
<1>1. \E x \in A : \A y \in A : ~(<<y, x>> \in R)
  <2>1. Order!IsWellFoundedOn(R, Nat)
        BY Order!NatLessThanWellFounded, ZenonT(60)
  <2> HIDE DEF R
  <2> QED BY <2>1, Order!WFMin, ZenonT(60)
<1>2. PICK x \in A : \A y \in A : ~(<<y, x>> \in R)
      BY <1>1, ZenonT(60)
<1>3. \A y \in A : ~(y < x)
      BY <1>2, ZenonT(60) DEF Order!OpToRel
<1> QED BY <1>3

(* Induction up to a bound, for a set. *)
LEMMA UpTo ==
    ASSUME NEW n \in Nat, NEW T, 0 \in T, \A i \in 0 .. n - 1 : i \in T => i + 1 \in T
    PROVE  0 .. n \subseteq T
<1> DEFINE U == (0 .. n) \ T
<1> SUFFICES ASSUME U # {} PROVE FALSE
    OBVIOUS
<1>1. U \in SUBSET Nat
      OBVIOUS
<1>2. PICK x \in U : \A y \in U : x <= y
      BY <1>1, Least, ZenonT(60)
<1>3. x # 0 /\ x - 1 \in 0 .. n - 1 /\ x - 1 \notin U
      BY <1>2
<1> QED BY <1>3

(* A frame is received, whatever came before. *)
LEMMA ReceiveTyped ==
    ASSUME NEW g \in Messages, NEW f \in WsFrame
    PROVE  Receive(g, f) \in Messages
<1>1. /\ f.op \in {"binary", "continuation", "control"} /\ f.fin \in BOOLEAN
      /\ f.data \in Seq(Piece)
      BY DEF WsFrame
<1>2. g.got \in Seq(Seq(Piece)) /\ g.open \in BOOLEAN /\ g.data \in Seq(Piece) /\ g.valid \in BOOLEAN
      BY DEF Messages
<1>3. PICK d \in Seq(Piece) : d = IF f.op = "binary" THEN f.data ELSE g.data \o f.data
  <2>1. g.data \o f.data \in Seq(Piece)
        BY <1>1, <1>2
  <2> QED BY <1>1, <2>1, ZenonT(60)
<1>4. Append(g.got, d) \in Seq(Seq(Piece)) /\ <<>> \in Seq(Piece)
      BY <1>2
<1>5. CASE f.op = "control"
      BY <1>5, ZenonT(60) DEF Receive
<1>6. CASE f.op # "control"
  <2>1. Receive(g, f) = [got   |-> IF f.fin THEN Append(g.got, d) ELSE g.got,
                         open  |-> ~f.fin,
                         data  |-> IF f.fin THEN <<>> ELSE d,
                         valid |-> g.valid /\ (g.open <=> f.op = "continuation")]
        BY <1>3, <1>6 DEF Receive
  <2> QED BY <1>1, <1>2, <1>4, <2>1 DEF Messages
<1> QED BY <1>5, <1>6

\* f lists what a web socket has received, after each of the first n frames of s.
Receives(f, s, n) ==
    /\ f \in [0 .. n -> Messages]
    /\ f[0] = NoMessages
    /\ \A i \in 1 .. n : f[i] = Receive(f[i - 1], s[i])

(* Received is such a list. *)
LEMMA ReceivedIs ==
    ASSUME NEW s \in Seq(WsFrame)
    PROVE  Receives(Received(s), s, Len(s))
<1> DEFINE n == Len(s)
           Body(f) == [i \in 0 .. n |-> IF i = 0 THEN NoMessages ELSE Receive(f[i - 1], s[i])]
           T == {k \in 0 .. n : \E f : Receives(f, s, k)}
<1>1. n \in Nat /\ \A i \in 1 .. n : s[i] \in WsFrame
      OBVIOUS
<1>2. NoMessages \in Messages
  <2>1. <<>> \in Seq(Piece) /\ <<>> \in Seq(Seq(Piece))
        OBVIOUS
  <2> QED BY <2>1 DEF NoMessages, Messages
<1>3. 0 \in T
  <2> DEFINE f == [i \in 0 .. 0 |-> NoMessages]
  <2>1. Receives(f, s, 0)
        BY <1>2 DEF Receives
  <2> QED BY <1>1, <2>1
<1>4. ASSUME NEW k \in 0 .. n - 1, k \in T PROVE k + 1 \in T
  <2>1. PICK f : Receives(f, s, k)
        BY <1>4
  <2> DEFINE h == [i \in 0 .. k + 1 |-> IF i = k + 1 THEN Receive(f[k], s[k + 1]) ELSE f[i]]
  <2>2. k \in 0 .. k /\ k + 1 \in 1 .. n
        BY <1>1
  <2>3. Receive(f[k], s[k + 1]) \in Messages
        BY <1>1, <2>1, <2>2, ReceiveTyped, ZenonT(60) DEF Receives
  <2>4. h \in [0 .. k + 1 -> Messages] /\ h[0] = NoMessages
        BY <2>1, <2>3 DEF Receives
  <2>5. ASSUME NEW i \in 1 .. k + 1 PROVE h[i] = Receive(h[i - 1], s[i])
    <3>1. CASE i = k + 1
          BY <3>1
    <3>2. CASE i # k + 1
      <4>1. i \in 1 .. k /\ i - 1 \in 0 .. k + 1 /\ i - 1 # k + 1
            BY <3>2
      <4>2. h[i] = f[i] /\ h[i - 1] = f[i - 1]
            BY <4>1
      <4> QED BY <2>1, <4>1, <4>2, ZenonT(60) DEF Receives
    <3> QED BY <3>1, <3>2
  <2> HIDE DEF h
  <2>6. Receives(h, s, k + 1)
        BY <2>4, <2>5 DEF Receives
  <2> QED BY <2>2, <2>6
<1> HIDE DEF T
<1>5. 0 .. n \subseteq T
      BY <1>1, <1>3, <1>4, UpTo, ZenonT(60)
<1>6. PICK f : Receives(f, s, n)
      BY <1>1, <1>5 DEF T
<1>7. f = Body(f)
      BY <1>1, <1>6 DEF Receives
<1>8. Received(s) = CHOOSE h : h = Body(h)
      BY DEF Received
<1>9. PICK h : h = Received(s) /\ h = Body(h)
      BY <1>7, <1>8, ZenonT(60)
<1>10. h[0] = NoMessages /\ \A i \in 1 .. n : h[i] = Receive(h[i - 1], s[i])
      BY <1>1, <1>9
<1>11. DOMAIN h = 0 .. n /\ h = [i \in 0 .. n |-> h[i]]
      BY <1>9
<1> DEFINE V == {i \in 0 .. n : h[i] \in Messages}
<1>12. 0 \in V
      BY <1>1, <1>2, <1>10
<1>13. ASSUME NEW i \in 0 .. n - 1, i \in V PROVE i + 1 \in V
  <2>1. i + 1 \in 1 .. n /\ (i + 1) - 1 = i
        BY <1>1
  <2>2. h[i + 1] = Receive(h[i], s[i + 1])
        BY <1>10, <2>1
  <2> QED BY <1>1, <1>13, <2>1, <2>2, ReceiveTyped
<1> HIDE DEF V
<1>14. 0 .. n \subseteq V
      BY <1>1, <1>12, <1>13, UpTo, ZenonT(60)
<1>15. h \in [0 .. n -> Messages]
      BY <1>11, <1>14 DEF V
<1> QED BY <1>9, <1>10, <1>15 DEF Receives

(* What begins with more begins with less. *)
LEMMA BeginsAppend ==
    ASSUME NEW E, NEW s \in Seq(E), NEW e \in E, NEW t, Begins(Append(s, e), t)
    PROVE  Begins(s, t)
BY DEF Begins

(* The messages received after some frames are the first of those received at the end. *)
LEMMA ReceivedGrows ==
    ASSUME NEW s \in Seq(WsFrame), NEW i \in 0 .. Len(s)
    PROVE  Begins(Received(s)[i].got, Received(s)[Len(s)].got)
<1> DEFINE n == Len(s)
           T == {j \in 0 .. n : Begins(Received(s)[n - j].got, Received(s)[n].got)}
<1>1. n \in Nat /\ \A j \in 1 .. n : s[j] \in WsFrame
      OBVIOUS
<1>2. PICK f : f = Received(s) /\ Receives(f, s, n)
      BY ReceivedIs
<1>3. 0 \in T
      BY <1>1 DEF Begins
<1>4. ASSUME NEW j \in 0 .. n - 1, j \in T PROVE j + 1 \in T
  <2>1. n - j \in 1 .. n /\ n - (j + 1) \in 0 .. n /\ (n - j) - 1 = n - (j + 1) /\ j + 1 \in 0 .. n
        BY <1>1
  <2>2. PICK g \in Messages : g = f[n - (j + 1)]
        BY <1>2, <2>1 DEF Receives
  <2>3. f[n - j] = Receive(g, s[n - j])
        BY <1>2, <2>1, <2>2, ZenonT(60) DEF Receives
  <2>4. PICK b \in WsFrame : b = s[n - j]
        BY <1>1, <2>1
  <2>5. Begins(Receive(g, b).got, f[n].got)
        BY <1>2, <1>4, <2>3, <2>4, ZenonT(60)
  <2>6. g.got \in Seq(Seq(Piece)) /\ g.data \in Seq(Piece) /\ b.data \in Seq(Piece)
        BY DEF Messages, WsFrame
  <2>7. \E d \in Seq(Piece) : Receive(g, b).got = g.got \/ Receive(g, b).got = Append(g.got, d)
    <3>1. PICK d \in Seq(Piece) : d = IF b.op = "binary" THEN b.data ELSE g.data \o b.data
      <4>1. g.data \o b.data \in Seq(Piece)
            BY <2>6
      <4> QED BY <2>6, <4>1, ZenonT(60)
    <3>2. b.op # "control" => Receive(g, b).got = IF b.fin THEN Append(g.got, d) ELSE g.got
          BY <3>1 DEF Receive
    <3>3. b.op = "control" => Receive(g, b).got = g.got
          BY DEF Receive
    <3> QED BY <3>2, <3>3, ZenonT(60)
  <2>8. Begins(g.got, f[n].got)
        BY <2>5, <2>6, <2>7, BeginsAppend, ZenonT(60)
  <2> QED BY <1>2, <2>1, <2>2, <2>8, ZenonT(60)
<1> HIDE DEF T
<1>5. 0 .. n \subseteq T
      BY <1>1, <1>3, <1>4, UpTo, ZenonT(60)
<1>6. n - i \in T /\ n - (n - i) = i
      BY <1>1, <1>5
<1> QED BY <1>6 DEF T

(* The frames of the game server, in their order, make what it sent. *)
LEMMA ScriptLeads ==
    ASSUME NEW p \in Peer
    PROVE  LET none == ContentOf(NoMessages)
           IN  /\ none \in Right(p)
               /\ \E e \in Right(p) : Leads(Delivers(p, <<>>), Right(p), Script[p], none, e)
<1> DEFINE s == Script[p]
           n == Len(s)
           f == Received(s)
           v == [i \in 0 .. n |-> ContentOf(f[i])]
<1>1. s \in Seq(WsFrame) /\ n \in Nat /\ Receives(f, s, n)
      BY ScriptAssumption, ReceivedIs
<1> HIDE DEF s, f
<1>2. ASSUME NEW i \in 0 .. n PROVE v[i] = ContentOf(f[i]) /\ v[i] \in Right(p)
  <2>1. PICK g \in Messages : g = f[i]
        BY <1>1, ZenonT(60) DEF Receives
  <2>2. ContentOf(g) \in Content /\ ContentOf(g).got = g.got
        BY <2>1, ZenonT(60) DEF ContentOf, Content, Messages
  <2>3. Begins(g.got, Sent(p))
        BY <1>1, <2>1, ReceivedGrows, ZenonT(60) DEF Sent, f, s
  <2> QED BY <2>1, <2>2, <2>3, ZenonT(60) DEF Right
<1>3. ASSUME NEW i \in 1 .. n PROVE <<v[i - 1], s[i], v[i]>> \in Delivers(p, <<>>)
  <2>1. i - 1 \in 0 .. n /\ i \in 0 .. n
        BY <1>1
  <2>2. PICK g \in Messages : g = f[i - 1]
        BY <1>1, <2>1, ZenonT(60) DEF Receives
  <2>3. PICK b \in WsFrame : b = s[i]
        BY <1>1
  <2>4. f[i] = Receive(g, b)
        BY <1>1, <2>2, <2>3, ZenonT(60) DEF Receives
  <2>5. v[i] = Adds(v[i - 1], b, <<>>)
        BY <1>2, <2>1, <2>2, <2>4, ContentReceives, ZenonT(60)
  <2>6. b \in StreamFrame
        BY ZenonT(60) DEF StreamFrame
  <2> QED BY <1>2, <2>1, <2>3, <2>5, <2>6, ZenonT(60) DEF Delivers
<1>4. v[0] = ContentOf(NoMessages) /\ 0 \in 0 .. n /\ n \in 0 .. n
      BY <1>1, <1>2 DEF Receives
<1>5. v \in [0 .. n -> Right(p)]
      BY <1>2, ZenonT(60)
<1> HIDE DEF v
<1>6. Leads(Delivers(p, <<>>), Right(p), s, v[0], v[n])
      BY <1>3, <1>5, ZenonT(60) DEF Leads
<1> QED BY <1>2, <1>4, <1>6, ZenonT(60) DEF s

-----------------------------------------------------------------------------
(* Before the first frame everything is still to come. *)
LEMMA InitIntact == Init => AllIntact
<1> SUFFICES ASSUME Init, NEW p \in Peer PROVE IntactAt(p) /\ Awaited(p)
    BY ZenonT(60) DEF AllIntact
<1>1. /\ incoming[p] = Script[p] /\ ws[p] = <<>> /\ fragments[p] = <<>> /\ game[p] = NoMessages
      /\ srv[p].at = "off" /\ srv[p].data = <<>>
      /\ cli[p].at = "off" /\ rec[p].at = "none" /\ streams = <<>>
      BY ZenonT(60) DEF Init
<1>2. PICK none \in Right(p), e \in Right(p) :
          none = ContentOf(NoMessages) /\ Leads(Delivers(p, <<>>), Right(p), Script[p], none, e)
      BY ScriptLeads, ZenonT(60)
<1>3. Flow(p, srv[p].data, ws[p], cli[p], rec[p], fragments[p], game[p], none)
  <2>1. Leads(Delivers(p, srv[p].data), Right(p), <<>>, none, none)
        BY LeadsNowhere, ZenonT(60)
  <2> QED BY <1>1, <1>2, <2>1, ZenonT(60) DEF Flow, Completes
<1>4. Whole(p, incoming[p], srv[p], ws[p], cli[p], rec[p], fragments[p], game[p])
      BY <1>1, <1>2, <1>3, ZenonT(60) DEF Whole, Agrees
<1>5. OneAtATime(srv[p], ws[p], cli[p], rec[p], fragments[p])
  <2>1. NoIndicator(<<>>)
        BY NothingYet, ZenonT(60) DEF NoIndicator
  <2> QED BY <1>1, <2>1, NothingYet, ZenonT(60) DEF OneAtATime
<1>6. LargeFilled(incoming[p]) /\ Begins(game[p].got, Sent(p))
  <2>1. game[p].got = <<>>
        BY <1>1 DEF NoMessages
  <2>2. Begins(<<>>, Sent(p))
        BY NothingYet, ZenonT(60) DEF Begins
  <2>3. LargeFilled(Script[p])
        BY ScriptAssumption DEF LargeFilled
  <2> QED BY <1>1, <2>1, <2>2, <2>3, ZenonT(60)
<1>7. Awaited(p)
      BY <1>1, NothingYet, ZenonT(60) DEF Awaited
<1>8. Intact(p, incoming[p], srv[p], ws[p], cli[p], rec[p], fragments[p], game[p])
      BY <1>4, <1>5, <1>6, ZenonT(60) DEF Intact
<1> QED BY <1>7, <1>8, ZenonT(60) DEF IntactAt

(* The game clients receive what the game server sent (MessagesIntact): the     *)
(* messages that copy_with_dedup relays and those that reconstruct_packet       *)
(* rebuilds and forward_deduped_fragments writes, each whole and in its place,  *)
(* for every game client none of whose reconstructions failed.                  *)
THEOREM MessagesArriveIntact == Spec => []MessagesIntact
<1>1. AllIntact => MessagesIntact
      BY ZenonT(60) DEF AllIntact, IntactAt, Intact, Begins, MessagesIntact
<1> QED BY <1>1, InitIntact, NextKeeps, InductiveInvariant, PTL DEF Spec
=============================================================================
