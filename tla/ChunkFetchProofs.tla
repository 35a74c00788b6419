-------------------------- MODULE ChunkFetchProofs --------------------------
(***************************************************************************)
(* For every number of tasks, every program of theirs, every size of cache *)
(* and batch and every number of faults: the shared cache and the local    *)
(* caches stay sound, no task asks for a chunk it did not prefetch, what   *)
(* it yields is its payload, and the tasks take only steps of SingleFlight.*)
(***************************************************************************)
EXTENDS ChunkFetch, RawChunkCacheProofs

\* Every chunk is under its own hash.
Honest(m) == \A k \in DOMAIN m : Hash(m[k]) = k

Locals == {m \in Maps(Key, Data) : Honest(m)}

\* Keys a task has, has yet to fetch, is fetching or is waiting for.
Held(s) == DOMAIN s.local \cup Range(s.requested) \cup Range(s.batch) \cup Range(s.waiting)

\* What holds of one task by itself.
Coherent(t, s) ==
    /\ Len(s.batch) <= BatchSize
    /\ Honest(s.local)
    /\ s.pc # "waiting" => s.waiting = <<>> /\ s.waitOn = {}
    /\ s.pc \in {"run", "waiting", "done"} => s.batch = <<>>
    /\ s.pc # "failed" => Covered(s.calls, Held(s))
    /\ s.pc = "done" => s.calls = <<>>
    /\ Iterate(Yielding, s.out, s.calls) = Payload[t]

\* pending_chunks maps just the keys of its batch to the semaphore of a task.
Registered ==
    \A t \in Task : task[t].pc # "failed" => Batch[t] = Range(task[t].batch)

IInv ==
    /\ TypeOK
    /\ inner.raw_cache \in Sound
    /\ \A t \in Task : Coherent(t, task[t])
    /\ Registered

-----------------------------------------------------------------------------
(* The loops of the model. *)

\* An accumulator of retain.
Acc ==
    {r \in [raw_cache : Sound, pending : SUBSET Key, local : Locals,
            batch : Seq(Key), keep : Seq(Key)] :
        Len(r.batch) <= BatchSize}

\* Entries whose key is the hash of the content.
Verified == {[key |-> Hash(d), data |-> d] : d \in Data}

InsertEntry(c, e) == Insert(c, e.key, e.data)

Retaining == INSTANCE FoldTheorems WITH Op <- Retain, S <- Acc, E <- Key
Inserting == INSTANCE FoldTheorems WITH Op <- InsertEntry, S <- Sound, E <- Verified
Getting == INSTANCE FoldTheorems WITH Op <- Get, S <- Sound, E <- Key
Requesting == INSTANCE FoldTheorems WITH Op <- Request, S <- TaskState, E <- Key
Walking == INSTANCE FoldTheorems WITH Op <- Yielding, S <- Seq(Data), E <- Call

(* What a key stands for. *)
LEMMA KeyContent ==
    /\ \A d \in Data : Hash(d) \in Key /\ Content(Hash(d)) = d
    /\ \A k \in Key : Content(k) \in Data /\ Hash(Content(k)) = k
BY DEF Key, Hash, Content

(* Inserting verified chunks keeps the cache sound and adds no other keys. *)
LEMMA InsertAllKeeps ==
    ASSUME NEW cache \in Sound, NEW s \in Seq(Verified)
    PROVE  /\ Iterate(InsertEntry, cache, s) \in Sound
           /\ Keys(Iterate(InsertEntry, cache, s)) \subseteq
                  Keys(cache) \cup {s[i].key : i \in DOMAIN s}
<1>1. Inserting!Closed
  <2> SUFFICES ASSUME NEW c \in Sound, NEW d \in Data PROVE Insert(c, Hash(d), d) \in Sound
      BY DEF Inserting!Closed, InsertEntry, Verified
  <2> QED BY InsertKeeps
<1>2. Inserting!Induction
      BY NatSetInduction DEF Inserting!Induction
<1> DEFINE F(q) == Inserting!Fold(cache, q)
           Named(q) == {q[i].key : i \in DOMAIN q}
           T == {q \in Seq(Verified) : Keys(F(q)) \subseteq Keys(cache) \cup Named(q)}
<1>3. \A q \in Seq(Verified) : F(q) \in Sound
      BY <1>1, <1>2, Inserting!FoldType, ZenonT(60)
<1>4. F(<<>>) = cache
      BY <1>1, <1>2, Inserting!FoldEmpty, ZenonT(60)
<1>5. \A q \in Seq(Verified), e \in Verified : F(Append(q, e)) = InsertEntry(F(q), e)
      BY <1>1, <1>2, Inserting!FoldAppend, ZenonT(60)
<1>6. F(s) = Iterate(InsertEntry, cache, s)
      BY DEF Inserting!Fold, Inserting!Last, Iterate, MapThenFoldSet, Max
<1> HIDE DEF F
<1>7. <<>> \in T
  <2>1. <<>> \in Seq(Verified)
        OBVIOUS
  <2> QED BY <1>4, <2>1, ZenonT(60)
<1>8. ASSUME NEW q \in Seq(Verified), NEW e \in Verified, q \in T PROVE Append(q, e) \in T
  <2>1. PICK d \in Data : e = [key |-> Hash(d), data |-> d]
        BY DEF Verified
  <2>2. Keys(F(Append(q, e))) \subseteq Keys(F(q)) \cup {e.key}
        BY <1>3, <1>5, <2>1, InsertKeeps, ZenonT(60) DEF InsertEntry
  <2>3. Named(q) \subseteq Named(Append(q, e)) /\ e.key \in Named(Append(q, e))
    <3> SUFFICES ASSUME NEW p, p = Append(q, e) PROVE Named(q) \subseteq Named(p) /\ e.key \in Named(p)
        BY ZenonT(60)
    <3>1. Len(q) \in Nat /\ DOMAIN q = 1..Len(q) /\ DOMAIN p = 1..(Len(q) + 1) /\ p[Len(q) + 1] = e
          OBVIOUS
    <3>2. \A i \in DOMAIN q : i \in DOMAIN p /\ p[i] = q[i]
          OBVIOUS
    <3>3. Len(q) + 1 \in DOMAIN p
          BY <3>1
    <3> QED BY <3>1, <3>2, <3>3, ZenonT(60)
  <2> HIDE DEF Named
  <2>4. Append(q, e) \in Seq(Verified)
        OBVIOUS
  <2> QED BY <1>8, <2>2, <2>3, <2>4, ZenonT(60)
<1> HIDE DEF T
<1>9. Seq(Verified) \subseteq T
      BY <1>7, <1>8, SeqSetInduction, ZenonT(60)
<1>10. Keys(F(s)) \subseteq Keys(cache) \cup Named(s)
      BY <1>9 DEF T
<1> QED BY <1>3, <1>6, <1>10, ZenonT(60)

(* Getting chunks keeps the cache sound and its keys. *)
LEMMA GetAllKeeps ==
    ASSUME NEW cache \in Sound, NEW s \in Seq(Key)
    PROVE  /\ GetAll(cache, s) \in Sound
           /\ Keys(GetAll(cache, s)) = Keys(cache)
<1>1. Getting!Closed
      BY GetKeeps, ZenonT(60) DEF Getting!Closed
<1>2. Getting!Induction
      BY NatSetInduction DEF Getting!Induction
<1> DEFINE F(q) == Getting!Fold(cache, q)
           T == {q \in Seq(Key) : Keys(F(q)) = Keys(cache)}
<1>3. \A q \in Seq(Key) : F(q) \in Sound
      BY <1>1, <1>2, Getting!FoldType, ZenonT(60)
<1>4. F(<<>>) = cache
      BY <1>1, <1>2, Getting!FoldEmpty, ZenonT(60)
<1>5. \A q \in Seq(Key), k \in Key : F(Append(q, k)) = Get(F(q), k)
      BY <1>1, <1>2, Getting!FoldAppend, ZenonT(60)
<1>6. F(s) = GetAll(cache, s)
      BY DEF Getting!Fold, Getting!Last, GetAll, Iterate, MapThenFoldSet, Max
<1> HIDE DEF F
<1>7. <<>> \in T
      BY <1>4
<1>8. ASSUME NEW q \in Seq(Key), NEW k \in Key, q \in T PROVE Append(q, k) \in T
  <2>1. Keys(Get(F(q), k)) = Keys(F(q))
        BY <1>3, GetKeeps, ZenonT(60)
  <2> QED BY <1>5, <1>8, <2>1
<1> HIDE DEF T
<1>9. Seq(Key) \subseteq T
      BY <1>7, <1>8, SeqSetInduction, ZenonT(60)
<1> QED BY <1>3, <1>6, <1>9 DEF T

(* The elements of a sequence. *)
LEMMA Elements ==
    ASSUME NEW D
    PROVE  /\ Range(<<>>) = {}
           /\ \A s \in Seq(D) : Range(s) \subseteq D
           /\ \A s \in Seq(D), e \in D : Range(Append(s, e)) = Range(s) \cup {e}
<1>1. Range(<<>>) = {}
      BY DEF Range
<1>2. \A s \in Seq(D) : Range(s) \subseteq D
      BY DEF Range
<1>3. ASSUME NEW s \in Seq(D), NEW e \in D PROVE Range(Append(s, e)) = Range(s) \cup {e}
  <2> SUFFICES ASSUME NEW p, p = Append(s, e) PROVE Range(p) = Range(s) \cup {e}
      BY ZenonT(60)
  <2>1. Len(s) \in Nat /\ DOMAIN s = 1..Len(s) /\ DOMAIN p = 1..(Len(s) + 1) /\ p[Len(s) + 1] = e
        OBVIOUS
  <2>2. \A i \in DOMAIN s : i \in DOMAIN p /\ p[i] = s[i]
        OBVIOUS
  <2>3. \A i \in DOMAIN p : i \in DOMAIN s \/ i = Len(s) + 1
        BY <2>1
  <2>4. Len(s) + 1 \in DOMAIN p
        BY <2>1
  <2> QED BY <2>1, <2>2, <2>3, <2>4, ZenonT(60) DEF Range
<1> QED BY <1>1, <1>2, <1>3, ZenonT(60)

(* A map extended by another one. *)
LEMMA ExtendKeeps ==
    ASSUME NEW f \in Locals, NEW g \in Locals
    PROVE  Extend(f, g) \in Locals /\ DOMAIN Extend(f, g) = DOMAIN f \cup DOMAIN g
<1>1. /\ DOMAIN f \subseteq Key /\ \A k \in DOMAIN f : f[k] \in Data /\ Hash(f[k]) = k
      /\ DOMAIN g \subseteq Key /\ \A k \in DOMAIN g : g[k] \in Data /\ Hash(g[k]) = k
      BY DEF Locals, Maps, Honest
<1>2. Extend(f, g) \in [DOMAIN f \cup DOMAIN g -> Data]
      BY <1>1 DEF Extend
<1>3. Extend(f, g) \in Maps(Key, Data)
      BY <1>1, <1>2, ZenonT(60) DEF Maps
<1>4. Honest(Extend(f, g))
      BY <1>1, ZenonT(60) DEF Honest, Extend
<1> QED BY <1>2, <1>3, <1>4, ZenonT(60) DEF Locals

(* What a sound cache finds under a key is the content of that key. *)
LEMMA LookupHonest ==
    ASSUME NEW cache \in Sound, NEW k, Has(cache, k)
    PROVE  Lookup(cache, k) \in Data /\ Hash(Lookup(cache, k)) = k
<1>1. cache \in Cache /\ cache.chunks \in Seq(Entry) /\ ContentMatchesKeys(cache)
      BY DEF Sound, Cache
<1>2. PICK i \in 1..Len(cache.chunks) : i = IndexOf(cache.chunks, k) /\ cache.chunks[i].key = k
      BY <1>1, IndexOfHas, ZenonT(60)
<1>3. cache.chunks[i] \in Entry /\ cache.chunks[i].key = Hash(cache.chunks[i].data)
      BY <1>1, <1>2 DEF ContentMatchesKeys
<1> QED BY <1>2, <1>3, ZenonT(60) DEF Lookup, Entry

LEMMA SoundKeys ==
    ASSUME NEW cache \in Sound
    PROVE  Keys(cache) \subseteq Key
<1>1. cache.chunks \in Seq(Entry)
      BY DEF Sound, Cache
<1>2. \A i \in DOMAIN cache.chunks : cache.chunks[i] \in Entry
      BY <1>1
<1> QED BY <1>2, ZenonT(60) DEF Keys, Entry

-----------------------------------------------------------------------------
(* chunks_requested.retain. *)

\* What one key does to the accumulator b.
Retained(b, k, r) ==
    /\ Keys(r.raw_cache) = Keys(b.raw_cache)
    /\ r.pending = b.pending
    /\ DOMAIN b.local \subseteq DOMAIN r.local
    /\ Range(b.batch) \subseteq Range(r.batch)
    /\ Range(b.keep) \subseteq Range(r.keep)
    /\ Range(r.batch) \subseteq Range(b.batch) \cup ({k} \ (Keys(b.raw_cache) \cup b.pending))
    /\ k \in DOMAIN r.local \cup Range(r.batch) \cup Range(r.keep)
    /\ r.batch = <<>> => b.batch = <<>> /\ Range(r.keep) \subseteq Range(b.keep) \cup b.pending

LEMMA RetainKeeps ==
    ASSUME NEW b \in Acc, NEW k \in Key
    PROVE  Retain(b, k) \in Acc /\ Retained(b, k, Retain(b, k))
<1>1. PICK c0 \in Sound, p0 \in SUBSET Key, m0 \in Locals, q0 \in Seq(Key), k0 \in Seq(Key) :
          /\ b = [raw_cache |-> c0, pending |-> p0, local |-> m0, batch |-> q0, keep |-> k0]
          /\ Len(q0) <= BatchSize
      BY DEF Acc
<1>2. b.raw_cache = c0 /\ b.pending = p0 /\ b.local = m0 /\ b.batch = q0 /\ b.keep = k0
      BY <1>1, ZenonT(60)
<1>3. CASE Has(c0, k)
  <2>1. PICK c \in Sound : c = Get(c0, k) /\ Keys(c) = Keys(c0)
        BY GetKeeps, ZenonT(60)
  <2>2. PICK d \in Data : d = Lookup(c0, k) /\ Hash(d) = k
        BY <1>3, LookupHonest, ZenonT(60)
  <2>3. PICK g \in Locals : g = [x \in {k} |-> d] /\ DOMAIN g = {k}
    <3>1. [x \in {k} |-> d] \in [{k} -> Data] /\ {k} \in SUBSET Key
          OBVIOUS
    <3>2. [x \in {k} |-> d] \in Maps(Key, Data)
          BY <3>1, ZenonT(60) DEF Maps
    <3>3. Honest([x \in {k} |-> d])
          BY <2>2 DEF Honest
    <3>4. [x \in {k} |-> d] \in Locals
          BY <3>2, <3>3 DEF Locals
    <3> QED BY <3>1, <3>4, ZenonT(60)
  <2>4. PICK m \in Locals : m = Extend(m0, g) /\ DOMAIN m = DOMAIN m0 \cup {k}
        BY <2>3, ExtendKeeps, ZenonT(60)
  <2>5. PICK r : r = [raw_cache |-> c, pending |-> p0, local |-> m, batch |-> q0, keep |-> k0]
        BY ZenonT(60)
  <2>6. Retain(b, k) = Found(b, k)
        BY <1>2, <1>3 DEF Retain
  <2>7. Found(b, k) = r
    <3>1. Get(b.raw_cache, k) = c /\ Lookup(b.raw_cache, k) = d
          BY <1>2, <2>1, <2>2, ZenonT(60)
    <3>2. [x \in {k} |-> Lookup(b.raw_cache, k)] = g
          BY <2>3, <3>1, ZenonT(60)
    <3>3. Extend(b.local, [x \in {k} |-> Lookup(b.raw_cache, k)]) = m
          BY <1>2, <2>4, <3>2, ZenonT(60)
    <3>4. Found(b, k) = [b EXCEPT !.raw_cache = c, !.local = m]
          BY <3>1, <3>3, ZenonT(60) DEF Found
    <3> QED BY <1>1, <2>5, <3>4, ZenonT(60)
  <2>8. r \in Acc
        BY <1>1, <2>5, ZenonT(60) DEF Acc
  <2>9. Retained(b, k, r)
        BY <1>2, <2>1, <2>4, <2>5, ZenonT(60) DEF Retained
  <2> QED BY <2>6, <2>7, <2>8, <2>9, ZenonT(60)
<1>4. CASE ~Has(c0, k) /\ k \notin p0 /\ Len(q0) < BatchSize
  <2>1. PICK q \in Seq(Key) :
            /\ q = (IF k \in Range(q0) THEN q0 ELSE Append(q0, k))
            /\ Range(q) = Range(q0) \cup {k}
            /\ Len(q) <= BatchSize
    <3>1. CASE k \in Range(q0)
          BY <1>1, <3>1, Elements
    <3>2. CASE k \notin Range(q0)
      <4>1. Append(q0, k) \in Seq(Key) /\ Len(Append(q0, k)) = Len(q0) + 1 /\ Len(q0) \in Nat
            OBVIOUS
      <4>2. Range(Append(q0, k)) = Range(q0) \cup {k}
            BY Elements
      <4>3. Len(q0) + 1 <= BatchSize
            BY <1>4, <4>1, BatchAssumption
      <4> QED BY <3>2, <4>1, <4>2, <4>3, ZenonT(60)
    <3> QED BY <3>1, <3>2, ZenonT(60)
  <2>2. PICK r : r = [raw_cache |-> c0, pending |-> p0, local |-> m0, batch |-> q, keep |-> k0]
        BY ZenonT(60)
  <2>3. Retain(b, k) = r
    <3>1. Retain(b, k) = [b EXCEPT !.batch = q]
          BY <1>2, <1>4, <2>1, ZenonT(60) DEF Retain, GoesIntoBatch
    <3> QED BY <1>1, <2>2, <3>1, ZenonT(60)
  <2>4. r \in Acc
        BY <2>1, <2>2, ZenonT(60) DEF Acc
  <2>5. k \notin Keys(c0) \cup p0
        BY <1>4, ZenonT(60) DEF Has
  <2>6. q # <<>>
        BY <2>1, Elements, ZenonT(60)
  <2>7. Retained(b, k, r)
        BY <1>2, <2>1, <2>2, <2>5, <2>6, ZenonT(60) DEF Retained
  <2> QED BY <2>3, <2>4, <2>7, ZenonT(60)
<1>5. CASE ~Has(c0, k) /\ ~(k \notin p0 /\ Len(q0) < BatchSize)
  <2>1. PICK q \in Seq(Key) : q = Append(k0, k) /\ Range(q) = Range(k0) \cup {k}
    <3>1. Append(k0, k) \in Seq(Key)
          OBVIOUS
    <3>2. Range(Append(k0, k)) = Range(k0) \cup {k}
          BY Elements
    <3> QED BY <3>1, <3>2, ZenonT(60)
  <2>2. PICK r : r = [raw_cache |-> c0, pending |-> p0, local |-> m0, batch |-> q0, keep |-> q]
        BY ZenonT(60)
  <2>3. Retain(b, k) = r
    <3>1. Retain(b, k) = [b EXCEPT !.keep = q]
          BY <1>2, <1>5, <2>1, ZenonT(60) DEF Retain, GoesIntoBatch
    <3> QED BY <1>1, <2>2, <3>1, ZenonT(60)
  <2>4. r \in Acc
        BY <1>1, <2>2, ZenonT(60) DEF Acc
  <2>5. q0 = <<>> => k \in p0
    <3>1. Len(<<>>) < BatchSize
          BY BatchAssumption
    <3> QED BY <1>5, <3>1, ZenonT(60)
  <2>6. Retained(b, k, r)
        BY <1>2, <2>1, <2>2, <2>5, ZenonT(60) DEF Retained
  <2> QED BY <2>3, <2>4, <2>6, ZenonT(60)
<1> QED BY <1>3, <1>4, <1>5, ZenonT(60)

\* What the loop over the keys s makes of the accumulator b.
Scanned(b, s, r) ==
    /\ Keys(r.raw_cache) = Keys(b.raw_cache)
    /\ r.pending = b.pending
    /\ DOMAIN b.local \subseteq DOMAIN r.local
    /\ Range(r.batch) \cap (Keys(b.raw_cache) \cup b.pending) = {}
    /\ Range(s) \subseteq DOMAIN r.local \cup Range(r.batch) \cup Range(r.keep)
    /\ r.batch = <<>> => Range(r.keep) \subseteq b.pending

LEMMA RetainAllKeeps ==
    ASSUME NEW b \in Acc, b.batch = <<>>, b.keep = <<>>, NEW s \in Seq(Key)
    PROVE  /\ RetainAll(b, s) \in Acc
           /\ Scanned(b, s, RetainAll(b, s))
<1>1. Retaining!Closed
      BY RetainKeeps, ZenonT(60) DEF Retaining!Closed
<1>2. Retaining!Induction
      BY NatSetInduction, ZenonT(60) DEF Retaining!Induction
<1> DEFINE F(q) == Retaining!Fold(b, q)
           T == {q \in Seq(Key) : Scanned(b, q, F(q))}
<1>3. \A q \in Seq(Key) : F(q) \in Acc
      BY <1>1, <1>2, Retaining!FoldType, ZenonT(60)
<1>4. F(<<>>) = b
      BY <1>1, <1>2, Retaining!FoldEmpty, ZenonT(60)
<1>5. \A q \in Seq(Key), k \in Key : F(Append(q, k)) = Retain(F(q), k)
      BY <1>1, <1>2, Retaining!FoldAppend, ZenonT(60)
<1>6. F(s) = RetainAll(b, s)
      BY DEF Retaining!Fold, Retaining!Last, RetainAll, Iterate, MapThenFoldSet, Max
<1> HIDE DEF F
<1>7. <<>> \in T
  <2>1. Range(<<>>) = {} /\ <<>> \in Seq(Key)
        BY Elements
  <2> QED BY <1>4, <2>1, ZenonT(60) DEF Scanned
<1>8. ASSUME NEW q \in Seq(Key), NEW k \in Key, q \in T PROVE Append(q, k) \in T
  <2>1. PICK x \in Acc : x = F(q)
        BY <1>3, ZenonT(60)
  <2>2. PICK y \in Acc : y = Retain(x, k) /\ Retained(x, k, y)
        BY RetainKeeps, ZenonT(60)
  <2>3. F(Append(q, k)) = y
        BY <1>5, <2>1, <2>2, ZenonT(60)
  <2>4. Scanned(b, q, x)
        BY <1>8, <2>1, ZenonT(60)
  <2>5. Range(Append(q, k)) = Range(q) \cup {k}
        BY Elements, ZenonT(60)
  <2>6. Scanned(b, Append(q, k), y)
        BY <2>2, <2>4, <2>5, ZenonT(60) DEF Scanned, Retained
  <2> QED BY <2>3, <2>6
<1> HIDE DEF T
<1>9. Seq(Key) \subseteq T
      BY <1>7, <1>8, SeqSetInduction, ZenonT(60)
<1>10. s \in T
      BY <1>9, ZenonT(60)
<1>11. Scanned(b, s, F(s))
      BY <1>10, ZenonT(60) DEF T
<1> QED BY <1>3, <1>6, <1>11, ZenonT(60)

-----------------------------------------------------------------------------
(* prefetch. *)

\* All of the keys are in the local cache or requested, and nothing else of
\* the task changed.
Prefetched(s, keys, r) ==
    \E q \in Seq(Key) :
        /\ r = [s EXCEPT !.requested = q]
        /\ Range(s.requested) \subseteq Range(q)
        /\ Range(keys) \subseteq DOMAIN s.local \cup Range(q)

LEMMA RequestAllKeeps ==
    ASSUME NEW s \in TaskState, NEW keys \in Seq(Key)
    PROVE  Prefetched(s, keys, RequestAll(s, keys))
<1>1. Requesting!Closed
  <2> SUFFICES ASSUME NEW x \in TaskState, NEW k \in Key PROVE Request(x, k) \in TaskState
      BY DEF Requesting!Closed
  <2>1. Append(x.requested, k) \in Seq(Key)
        BY DEF TaskState
  <2>2. [x EXCEPT !.requested = Append(x.requested, k)] \in TaskState
        BY <2>1, ZenonT(60) DEF TaskState
  <2> QED BY <2>2, ZenonT(60) DEF Request
<1>2. Requesting!Induction
      BY NatSetInduction DEF Requesting!Induction
<1> DEFINE F(q) == Requesting!Fold(s, q)
           T == {q \in Seq(Key) : Prefetched(s, q, F(q))}
<1>3. \A q \in Seq(Key) : F(q) \in TaskState
      BY <1>1, <1>2, Requesting!FoldType, ZenonT(60)
<1>4. F(<<>>) = s
      BY <1>1, <1>2, Requesting!FoldEmpty, ZenonT(60)
<1>5. \A q \in Seq(Key), k \in Key : F(Append(q, k)) = Request(F(q), k)
      BY <1>1, <1>2, Requesting!FoldAppend, ZenonT(60)
<1>6. F(keys) = RequestAll(s, keys)
      BY DEF Requesting!Fold, Requesting!Last, RequestAll, Iterate, MapThenFoldSet, Max
<1> HIDE DEF F
<1>7. <<>> \in T
  <2>1. Range(<<>>) = {} /\ <<>> \in Seq(Key)
        BY Elements
  <2>2. s = [s EXCEPT !.requested = s.requested] /\ s.requested \in Seq(Key)
        BY DEF TaskState
  <2> QED BY <1>4, <2>1, <2>2, ZenonT(60) DEF Prefetched
<1>8. ASSUME NEW q \in Seq(Key), NEW k \in Key, q \in T PROVE Append(q, k) \in T
  <2>1. PICK p \in Seq(Key) :
            /\ F(q) = [s EXCEPT !.requested = p]
            /\ Range(s.requested) \subseteq Range(p)
            /\ Range(q) \subseteq DOMAIN s.local \cup Range(p)
        BY <1>8, ZenonT(60) DEF Prefetched
  <2>2. F(q).local = s.local /\ F(q).requested = p
        BY <2>1, ZenonT(60) DEF TaskState
  <2>3. Range(Append(q, k)) = Range(q) \cup {k} /\ Append(q, k) \in Seq(Key)
        BY Elements
  <2>4. Prefetched(s, Append(q, k), Request(F(q), k))
    <3>1. CASE k \in DOMAIN s.local
      <4>1. Request(F(q), k) = F(q)
            BY <2>2, <3>1, ZenonT(60) DEF Request
      <4> QED BY <2>1, <2>3, <3>1, <4>1, ZenonT(60) DEF Prefetched
    <3>2. CASE k \notin DOMAIN s.local
      <4>1. PICK o \in Seq(Key) : o = Append(p, k) /\ Range(o) = Range(p) \cup {k}
        <5>1. Append(p, k) \in Seq(Key)
              OBVIOUS
        <5>2. Range(Append(p, k)) = Range(p) \cup {k}
              BY Elements
        <5> QED BY <5>1, <5>2, ZenonT(60)
      <4>2. Request(F(q), k) = [F(q) EXCEPT !.requested = o]
            BY <2>2, <3>2, <4>1, ZenonT(60) DEF Request
      <4>3. Request(F(q), k) = [s EXCEPT !.requested = o]
            BY <2>1, <4>2, ZenonT(60) DEF TaskState
      <4> QED BY <2>1, <2>3, <4>1, <4>3, ZenonT(60) DEF Prefetched
    <3> QED BY <3>1, <3>2, ZenonT(60)
  <2> QED BY <1>5, <2>3, <2>4, ZenonT(60)
<1> HIDE DEF T
<1>9. Seq(Key) \subseteq T
      BY <1>7, <1>8, SeqSetInduction, ZenonT(60)
<1>10. keys \in T
      BY <1>9
<1> QED BY <1>6, <1>10, ZenonT(60) DEF T

-----------------------------------------------------------------------------
(* What a walk yields. *)

LEMMA WalkReady == Walking!Closed /\ Walking!Induction
<1>1. ASSUME NEW out \in Seq(Data), NEW c \in Call PROVE Yielding(out, c) \in Seq(Data)
  <2>1. CASE c.yield
    <3>1. PICK k \in Key : c.keys = <<k>>
          BY <2>1, ZenonT(60) DEF Call
    <3>2. Content(k) \in Data
          BY KeyContent
    <3> QED BY <3>1, <3>2 DEF Yielding
  <2> QED BY <2>1, ZenonT(60) DEF Yielding
<1>2. Walking!Closed
      BY <1>1 DEF Walking!Closed
<1>3. Walking!Induction
      BY NatSetInduction, ZenonT(60) DEF Walking!Induction
<1> QED BY <1>2, <1>3, ZenonT(60)

LEMMA WalkIs ==
    ASSUME NEW out, NEW calls
    PROVE  Iterate(Yielding, out, calls) = Walking!Fold(out, calls)
BY ZenonT(60) DEF Walking!Fold, Walking!Last, Iterate, MapThenFoldSet, Max

(* The first call, and then the others. *)
LEMMA WalkHead ==
    ASSUME NEW out \in Seq(Data), NEW c \in Call, NEW calls \in Seq(Call)
    PROVE  Iterate(Yielding, out, <<c>> \o calls) = Iterate(Yielding, Yielding(out, c), calls)
<1>1. PICK o \in Seq(Data) : o = Yielding(out, c)
      BY WalkReady DEF Walking!Closed
<1> DEFINE F(b, q) == Walking!Fold(b, q)
           T == {q \in Seq(Call) : F(out, <<c>> \o q) = F(o, q)}
<1>2. \A b \in Seq(Data) : F(b, <<>>) = b
      BY WalkReady, Walking!FoldEmpty, ZenonT(60)
<1>3. \A b \in Seq(Data), q \in Seq(Call), e \in Call : F(b, Append(q, e)) = Yielding(F(b, q), e)
      BY WalkReady, Walking!FoldAppend, ZenonT(60)
<1> HIDE DEF F
<1>4. <<>> \in T
  <2>1. <<c>> \o <<>> = Append(<<>>, c) /\ <<>> \in Seq(Call)
        OBVIOUS
  <2>2. F(out, Append(<<>>, c)) = Yielding(F(out, <<>>), c)
        BY <1>3, <2>1, ZenonT(60)
  <2>3. F(out, <<c>> \o <<>>) = F(o, <<>>)
        BY <1>1, <1>2, <2>1, <2>2, ZenonT(60)
  <2> QED BY <2>1, <2>3, ZenonT(60)
<1>5. ASSUME NEW q \in Seq(Call), NEW e \in Call, q \in T PROVE Append(q, e) \in T
  <2>1. <<c>> \o Append(q, e) = Append(<<c>> \o q, e) /\ <<c>> \o q \in Seq(Call)
        OBVIOUS
  <2>2. F(out, <<c>> \o Append(q, e)) = Yielding(F(out, <<c>> \o q), e)
        BY <1>3, <2>1, ZenonT(60)
  <2>3. F(o, Append(q, e)) = Yielding(F(o, q), e)
        BY <1>3
  <2> QED BY <1>5, <2>2, <2>3
<1> HIDE DEF T
<1>6. Seq(Call) \subseteq T
      BY <1>4, <1>5, SeqSetInduction
<1>7. calls \in T
      BY <1>6
<1>8. F(out, <<c>> \o calls) = F(o, calls)
      BY <1>7 DEF T
<1> QED BY <1>1, <1>8, WalkIs, ZenonT(60) DEF F

LEMMA AppendConcat ==
    ASSUME NEW a \in Seq(Data), NEW b \in Seq(Data), NEW d \in Data
    PROVE  Append(a \o b, d) = a \o Append(b, d)
OBVIOUS

(* What was yielded before stays the beginning of what is yielded. *)
LEMMA WalkPrefix ==
    ASSUME NEW out \in Seq(Data), NEW calls \in Seq(Call)
    PROVE  /\ Iterate(Yielding, out, <<>>) = out
           /\ StartsWith(Iterate(Yielding, out, calls), out)
<1> DEFINE F(q) == Walking!Fold(out, q)
           T == {q \in Seq(Call) : \E r \in Seq(Data) : F(q) = out \o r}
<1>1. F(<<>>) = out
      BY WalkReady, Walking!FoldEmpty, ZenonT(60)
<1>2. \A q \in Seq(Call), e \in Call : F(Append(q, e)) = Yielding(F(q), e)
      BY WalkReady, Walking!FoldAppend, ZenonT(60)
<1> HIDE DEF F
<1>3. <<>> \in T
  <2>1. out = out \o <<>> /\ <<>> \in Seq(Data) /\ <<>> \in Seq(Call)
        OBVIOUS
  <2> QED BY <1>1, <2>1, ZenonT(60)
<1>4. ASSUME NEW q \in Seq(Call), NEW e \in Call, q \in T PROVE Append(q, e) \in T
  <2>1. PICK r \in Seq(Data) : F(q) = out \o r
        BY <1>4, ZenonT(60)
  <2>2. \E w \in Seq(Data) : Yielding(F(q), e) = out \o w
    <3>1. CASE e.yield
      <4>1. PICK k \in Key : e.keys = <<k>>
            BY <3>1, ZenonT(60) DEF Call
      <4>2. PICK d \in Data : d = Content(k)
            BY KeyContent
      <4>3. Yielding(F(q), e) = Append(out \o r, d)
            BY <2>1, <3>1, <4>1, <4>2 DEF Yielding
      <4>4. Append(out \o r, d) = out \o Append(r, d)
            BY AppendConcat
      <4>5. Append(r, d) \in Seq(Data)
            OBVIOUS
      <4> QED BY <4>3, <4>4, <4>5, ZenonT(60)
    <3> QED BY <2>1, <3>1, ZenonT(60) DEF Yielding
  <2>3. Append(q, e) \in Seq(Call)
        OBVIOUS
  <2>4. F(Append(q, e)) = Yielding(F(q), e)
        BY <1>2, ZenonT(60)
  <2> QED BY <2>2, <2>3, <2>4, ZenonT(60)
<1> HIDE DEF T
<1>5. Seq(Call) \subseteq T
      BY <1>3, <1>4, SeqSetInduction, ZenonT(60)
<1>6. calls \in T
      BY <1>5, ZenonT(60)
<1>7. PICK r \in Seq(Data) : F(calls) = out \o r
      BY <1>6, ZenonT(60) DEF T
<1>8. StartsWith(out \o r, out)
  <2> SUFFICES ASSUME NEW w, w = out \o r PROVE StartsWith(w, out)
      BY ZenonT(60)
  <2>1. Len(out) \in Nat /\ Len(r) \in Nat /\ w \in Seq(Data) /\ Len(w) = Len(out) + Len(r)
        OBVIOUS
  <2>2. SubSeq(w, 1, Len(out)) = out
        OBVIOUS
  <2> QED BY <2>1, <2>2 DEF StartsWith
<1> QED BY <1>1, <1>7, <1>8, WalkIs, ZenonT(60) DEF F

-----------------------------------------------------------------------------
(* What the actions have in common. *)

LEMMA CoveredMore ==
    ASSUME NEW calls, NEW H, NEW G, Covered(calls, H), H \subseteq G
    PROVE  Covered(calls, G)
BY DEF Covered

(* The first call of a program. *)
LEMMA FirstCall ==
    ASSUME NEW calls \in Seq(Call), calls # <<>>
    PROVE  /\ Head(calls) \in Call
           /\ Tail(calls) \in Seq(Call)
           /\ calls = <<Head(calls)>> \o Tail(calls)
OBVIOUS

(* After the first call the others are covered, by its keys too if it was a
   prefetch. *)
LEMMA CoveredTail ==
    ASSUME NEW calls \in Seq(Call), calls # <<>>, NEW H, NEW G,
           Covered(calls, H), H \subseteq G,
           Head(calls).op = "prefetch" => Range(Head(calls).keys) \subseteq G
    PROVE  Covered(Tail(calls), G)
<1>1. PICK n \in Nat : n = Len(Tail(calls)) /\ Len(calls) = n + 1
      OBVIOUS
<1>2. \A i \in 1..n : Tail(calls)[i] = calls[i + 1]
      BY <1>1
<1>3. DOMAIN Tail(calls) = 1..n /\ DOMAIN calls = 1..(n + 1)
      BY <1>1
<1> SUFFICES ASSUME NEW i \in 1..n, NEW c, c = calls[i + 1], c.op = "get", c.keys[1] \notin G
             PROVE  \E j \in 1 .. i - 1 :
                        Tail(calls)[j].op = "prefetch" /\ c.keys[1] \in Range(Tail(calls)[j].keys)
    BY <1>2, <1>3, ZenonT(60) DEF Covered
<1>4. i + 1 \in DOMAIN calls
      BY <1>3
<1>5. PICK j \in 1..(i + 1) - 1 : calls[j].op = "prefetch" /\ c.keys[1] \in Range(calls[j].keys)
      BY <1>4, ZenonT(60) DEF Covered
<1>6. j \in 1..n /\ j \in DOMAIN calls
      BY <1>3, <1>5
<1>7. j # 1
  <2> SUFFICES ASSUME j = 1 PROVE FALSE
      OBVIOUS
  <2>1. Head(calls) = calls[j]
        OBVIOUS
  <2> QED BY <1>5, <2>1, ZenonT(60)
<1>8. PICK m \in 1 .. i - 1 : m = j - 1 /\ m + 1 = j /\ m \in 1..n
      BY <1>5, <1>6, <1>7
<1>9. Tail(calls)[m] = calls[j]
      BY <1>2, <1>8, ZenonT(60)
<1> QED BY <1>5, <1>8, <1>9, ZenonT(60)

(* One task goes on, and the cache may change. *)
LEMMA OneTask ==
    ASSUME IInv, NEW t \in Task, NEW s \in TaskState, Coherent(t, s),
           task' = [task EXCEPT ![t] = s],
           inner' \in ChunkCacheInner, inner'.raw_cache \in Sound,
           faults' \in 0 .. MaxFaults, evicted' \subseteq Key,
           Registered'
    PROVE  IInv'
<1>1. task \in [Task -> TaskState]
      BY DEF IInv, TypeOK
<1>2. task' \in [Task -> TaskState]
      BY <1>1
<1>3. \A u \in Task : task'[u] = IF u = t THEN s ELSE task[u]
      BY <1>1, ZenonT(60)
<1>4. \A u \in Task : Coherent(u, task'[u])
      BY <1>3, ZenonT(60) DEF IInv
<1>5. TypeOK'
  <2>1. \A u \in Task : Len(task'[u].batch) <= BatchSize
        BY <1>4, ZenonT(60) DEF Coherent
  <2> QED BY <1>2, <2>1, ZenonT(60) DEF TypeOK
<1> QED BY <1>4, <1>5, ZenonT(60) DEF IInv

(* pending_chunks does not change. *)
LEMMA SameRegistration ==
    ASSUME IInv, NEW t \in Task, NEW s \in TaskState,
           task' = [task EXCEPT ![t] = s],
           inner'.pending_chunks = inner.pending_chunks,
           s.pc # "failed" => task[t].pc # "failed" /\ s.batch = task[t].batch
    PROVE  Registered'
<1>1. task \in [Task -> TaskState]
      BY DEF IInv, TypeOK
<1>2. \A u \in Task : task'[u] = IF u = t THEN s ELSE task[u]
      BY <1>1, ZenonT(60)
<1>3. Batch' = Batch
      BY DEF Batch
<1> QED BY <1>2, <1>3, ZenonT(60) DEF IInv, Registered

(* A task goes on by itself. *)
LEMMA TaskAlone ==
    ASSUME IInv, NEW t \in Task, NEW s \in TaskState, Coherent(t, s),
           task' = [task EXCEPT ![t] = s],
           s.pc # "failed" => task[t].pc # "failed" /\ s.batch = task[t].batch,
           inner' = inner, evicted' = evicted, faults' \in 0 .. MaxFaults
    PROVE  IInv'
<1>1. Registered'
      BY SameRegistration, ZenonT(60)
<1>2. /\ inner' \in ChunkCacheInner /\ inner'.raw_cache \in Sound
      /\ faults' \in 0 .. MaxFaults /\ evicted' \subseteq Key
      BY DEF IInv, TypeOK
<1> QED BY <1>1, <1>2, OneTask, ZenonT(60)

(* What the invariant says of one task. *)
LEMMA TaskFacts ==
    ASSUME IInv, NEW t \in Task
    PROVE  task[t] \in TaskState /\ Coherent(t, task[t])
BY DEF IInv, TypeOK

-----------------------------------------------------------------------------
(* The provider's own steps. *)

LEMMA CallPrefetchPreserves ==
    ASSUME IInv, NEW t \in Task, CallPrefetch(t)
    PROVE  IInv'
<1>1. PICK o \in TaskState : o = task[t] /\ Coherent(t, o)
      BY TaskFacts, ZenonT(60)
<1>2. o.pc = "run" /\ o.calls # <<>> /\ Head(o.calls).op = "prefetch" /\ o.calls \in Seq(Call)
      BY <1>1, ZenonT(60) DEF CallPrefetch, AtCall, TaskState
<1>3. /\ Head(o.calls) \in Call /\ Tail(o.calls) \in Seq(Call)
      /\ o.calls = <<Head(o.calls)>> \o Tail(o.calls)
      BY <1>2, FirstCall, ZenonT(60)
<1>4. Head(o.calls).keys \in Seq(Key) /\ Head(o.calls).yield = FALSE
      BY <1>2, <1>3, ZenonT(60) DEF Call
<1>5. PICK q \in Seq(Key) :
          /\ RequestAll(o, Head(o.calls).keys) = [o EXCEPT !.requested = q]
          /\ Range(o.requested) \subseteq Range(q)
          /\ Range(Head(o.calls).keys) \subseteq DOMAIN o.local \cup Range(q)
      BY <1>4, RequestAllKeeps, ZenonT(60) DEF Prefetched
<1>6. PICK s : s = [o EXCEPT !.requested = q, !.calls = Tail(o.calls)]
      OBVIOUS
<1>7. s \in TaskState
      BY <1>3, <1>6, ZenonT(60) DEF TaskState
<1>8. /\ s.pc = "run" /\ s.calls = Tail(o.calls) /\ s.requested = q /\ s.local = o.local
      /\ s.batch = o.batch /\ s.waiting = o.waiting /\ s.waitOn = o.waitOn /\ s.out = o.out
      BY <1>2, <1>6, ZenonT(60) DEF TaskState
<1>9. task' = [task EXCEPT ![t] = s]
  <2>1. task' = [task EXCEPT ![t] = [[o EXCEPT !.requested = q] EXCEPT !.calls = Tail(o.calls)]]
        BY <1>1, <1>5, ZenonT(60) DEF CallPrefetch
  <2>2. [[o EXCEPT !.requested = q] EXCEPT !.calls = Tail(o.calls)] = s
        BY <1>6, ZenonT(60) DEF TaskState
  <2> QED BY <2>1, <2>2, ZenonT(60)
<1>10. Covered(s.calls, Held(s))
  <2>1. Held(o) \subseteq Held(s) /\ Range(Head(o.calls).keys) \subseteq Held(s)
        BY <1>5, <1>8, ZenonT(60) DEF Held
  <2>2. Covered(o.calls, Held(o))
        BY <1>1, <1>2, ZenonT(60) DEF Coherent
  <2>3. Covered(Tail(o.calls), Held(s))
        BY <1>2, <2>1, <2>2, CoveredTail, ZenonT(60)
  <2> QED BY <1>8, <2>3, ZenonT(60)
<1>11. Iterate(Yielding, s.out, s.calls) = Payload[t]
  <2>1. o.out \in Seq(Data) /\ Yielding(o.out, Head(o.calls)) = o.out
        BY <1>4, ZenonT(60) DEF TaskState, Yielding
  <2>2. Iterate(Yielding, o.out, o.calls) = Iterate(Yielding, o.out, Tail(o.calls))
        BY <1>3, <2>1, WalkHead, ZenonT(60)
  <2>3. Iterate(Yielding, o.out, o.calls) = Payload[t]
        BY <1>1, ZenonT(60) DEF Coherent
  <2> QED BY <1>8, <2>2, <2>3, ZenonT(60)
<1>12. Coherent(t, s)
      BY <1>1, <1>2, <1>8, <1>10, <1>11, ZenonT(60) DEF Coherent
<1>13. inner' = inner /\ evicted' = evicted /\ faults' \in 0 .. MaxFaults
      BY ZenonT(60) DEF CallPrefetch, IInv, TypeOK
<1> QED BY <1>1, <1>2, <1>7, <1>8, <1>9, <1>12, <1>13, TaskAlone, ZenonT(60)

LEMMA GetLocalPreserves ==
    ASSUME IInv, NEW t \in Task, GetLocal(t)
    PROVE  IInv'
<1>1. PICK o \in TaskState : o = task[t] /\ Coherent(t, o)
      BY TaskFacts
<1>2. /\ o.pc = "run" /\ o.calls # <<>> /\ Head(o.calls).op = "get" /\ o.calls \in Seq(Call)
      /\ Head(o.calls).keys[1] \in DOMAIN o.local
      BY <1>1, ZenonT(60) DEF GetLocal, AtCall, Wanted, TaskState
<1>3. /\ Head(o.calls) \in Call /\ Tail(o.calls) \in Seq(Call)
      /\ o.calls = <<Head(o.calls)>> \o Tail(o.calls)
      BY <1>2, FirstCall, ZenonT(60)
<1>4. PICK k \in Key : Head(o.calls).keys = <<k>> /\ k \in DOMAIN o.local
  <2>1. PICK k \in Key : Head(o.calls).keys = <<k>>
        BY <1>2, <1>3, ZenonT(60) DEF Call
  <2> QED BY <1>2, <2>1
<1>5. PICK d \in Data : d = o.local[k] /\ Content(k) = d
  <2>1. o.local[k] \in Data
        BY <1>4 DEF TaskState, Maps
  <2>2. Hash(o.local[k]) = k
        BY <1>1, <1>4, ZenonT(60) DEF Coherent, Honest
  <2> QED BY <2>1, <2>2, KeyContent, ZenonT(60)
<1>6. PICK w \in Seq(Data) : w = o.out \o Yields(t) /\ w = Yielding(o.out, Head(o.calls))
  <2>1. o.out \in Seq(Data)
        BY ZenonT(60) DEF TaskState
  <2>2. CASE Head(o.calls).yield
    <3>1. Yields(t) = <<d>>
          BY <1>1, <1>4, <1>5, <2>2 DEF Yields, Wanted
    <3>2. Yielding(o.out, Head(o.calls)) = Append(o.out, d)
          BY <1>4, <1>5, <2>2 DEF Yielding
    <3>3. Append(o.out, d) = o.out \o <<d>> /\ Append(o.out, d) \in Seq(Data)
          BY <2>1, AppendAtEnd
    <3> QED BY <3>1, <3>2, <3>3, ZenonT(60)
  <2>3. CASE ~Head(o.calls).yield
    <3>1. Yields(t) = <<>>
          BY <1>1, <2>3, ZenonT(60) DEF Yields
    <3>2. o.out \o <<>> = o.out
          BY <2>1
    <3> QED BY <2>1, <2>3, <3>1, <3>2, ZenonT(60) DEF Yielding
  <2> QED BY <2>2, <2>3, ZenonT(60)
<1>7. PICK s : s = [o EXCEPT !.calls = Tail(o.calls), !.out = w]
      BY ZenonT(60)
<1>8. s \in TaskState
      BY <1>3, <1>7, ZenonT(60) DEF TaskState
<1>9. /\ s.pc = "run" /\ s.calls = Tail(o.calls) /\ s.requested = o.requested /\ s.local = o.local
      /\ s.batch = o.batch /\ s.waiting = o.waiting /\ s.waitOn = o.waitOn /\ s.out = w
      BY <1>2, <1>7, ZenonT(60) DEF TaskState
<1>10. task' = [task EXCEPT ![t] = s]
      BY <1>1, <1>6, <1>7, ZenonT(60) DEF GetLocal, IInv, TypeOK, TaskState
<1>11. Covered(s.calls, Held(s))
  <2>1. Held(o) = Held(s)
        BY <1>9, ZenonT(60) DEF Held
  <2>2. Covered(o.calls, Held(o))
        BY <1>1, <1>2, ZenonT(60) DEF Coherent
  <2>3. Covered(Tail(o.calls), Held(s))
        BY <1>2, <2>1, <2>2, CoveredTail, ZenonT(60)
  <2> QED BY <1>9, <2>3, ZenonT(60)
<1>12. Iterate(Yielding, s.out, s.calls) = Payload[t]
  <2>1. o.out \in Seq(Data)
        BY ZenonT(60) DEF TaskState
  <2>2. Iterate(Yielding, o.out, o.calls) = Iterate(Yielding, w, Tail(o.calls))
        BY <1>3, <1>6, <2>1, WalkHead, ZenonT(60)
  <2>3. Iterate(Yielding, o.out, o.calls) = Payload[t]
        BY <1>1 DEF Coherent
  <2> QED BY <1>9, <2>2, <2>3, ZenonT(60)
<1>13. Coherent(t, s)
      BY <1>1, <1>2, <1>9, <1>11, <1>12, ZenonT(60) DEF Coherent
<1>14. inner' = inner /\ evicted' = evicted /\ faults' \in 0 .. MaxFaults
      BY DEF GetLocal, IInv, TypeOK
<1> QED BY <1>1, <1>2, <1>8, <1>9, <1>10, <1>13, <1>14, TaskAlone, ZenonT(60)

-----------------------------------------------------------------------------
(* Answers, failures and the end of a transfer. *)

LEMMA FailedState ==
    ASSUME NEW o \in TaskState
    PROVE  \E s \in TaskState :
              /\ s = [o EXCEPT !.pc = "failed", !.waiting = <<>>]
              /\ s.pc = "failed" /\ s.waiting = <<>>
              /\ s.calls = o.calls /\ s.local = o.local /\ s.batch = o.batch
              /\ s.waitOn = o.waitOn /\ s.out = o.out
<1>1. PICK e \in Seq(Key) : e = <<>>
  <2>1. <<>> \in Seq(Key)
        OBVIOUS
  <2> QED BY <2>1, ZenonT(60)
<1> DEFINE s == [o EXCEPT !.pc = "failed", !.waiting = e]
<1>2. /\ s \in TaskState /\ s.pc = "failed" /\ s.waiting = e
      /\ s.calls = o.calls /\ s.local = o.local /\ s.batch = o.batch
      /\ s.waitOn = o.waitOn /\ s.out = o.out
      BY ZenonT(60) DEF TaskState
<1>3. s = [o EXCEPT !.pc = "failed", !.waiting = <<>>]
      BY <1>1
<1> HIDE DEF s
<1> QED BY <1>1, <1>2, <1>3, ZenonT(60)

\* The step of a task that fails.
Fails(t) ==
    \/ task' = [task EXCEPT ![t].pc = "failed", ![t].waiting = <<>>]
    \/ task[t].pc # "waiting" /\ task' = [task EXCEPT ![t].pc = "failed"]

(* A task that awaits nothing may fail at any time. *)
LEMMA FailurePreserves ==
    ASSUME IInv, NEW t \in Task, task[t].waitOn = {}, Fails(t),
           inner' \in ChunkCacheInner, inner'.raw_cache \in Sound,
           inner'.pending_chunks = inner.pending_chunks,
           evicted' = evicted, faults' \in 0 .. MaxFaults
    PROVE  IInv'
<1>1. PICK o \in TaskState : o = task[t] /\ Coherent(t, o)
      BY TaskFacts, ZenonT(60)
<1>2. PICK s \in TaskState :
          /\ s = [o EXCEPT !.pc = "failed", !.waiting = <<>>]
          /\ s.pc = "failed" /\ s.waiting = <<>>
          /\ s.calls = o.calls /\ s.local = o.local /\ s.batch = o.batch
          /\ s.waitOn = o.waitOn /\ s.out = o.out
      BY FailedState, ZenonT(60)
<1>3. task' = [task EXCEPT ![t] = s]
  <2>1. CASE task' = [task EXCEPT ![t].pc = "failed", ![t].waiting = <<>>]
        BY <1>1, <1>2, <2>1, ZenonT(60) DEF IInv, TypeOK, TaskState
  <2>2. CASE task[t].pc # "waiting" /\ task' = [task EXCEPT ![t].pc = "failed"]
    <3>1. o.waiting = <<>>
          BY <1>1, <2>2, ZenonT(60) DEF Coherent
    <3>2. [o EXCEPT !.pc = "failed"] = s
          BY <1>2, <3>1, ZenonT(60) DEF TaskState
    <3>3. task' = [task EXCEPT ![t] = [o EXCEPT !.pc = "failed"]]
          BY <1>1, <2>2, ZenonT(60) DEF IInv, TypeOK
    <3> QED BY <3>2, <3>3, ZenonT(60)
  <2> QED BY <2>1, <2>2, ZenonT(60) DEF Fails
<1>4. Coherent(t, s)
      BY <1>1, <1>2, ZenonT(60) DEF Coherent
<1>5. Registered'
      BY <1>2, <1>3, SameRegistration, ZenonT(60)
<1>6. evicted' \subseteq Key
      BY DEF IInv, TypeOK
<1> QED BY <1>3, <1>4, <1>5, <1>6, OneTask, ZenonT(60)

LEMMA ProvidePreserves ==
    ASSUME IInv, NEW t \in Task, Provide(t)
    PROVE  IInv'
<1>1. PICK o \in TaskState : o = task[t] /\ Coherent(t, o)
      BY TaskFacts
<1>2. o.pc = "fetching" /\ o.batch \in Seq(Key)
      BY <1>1, ZenonT(60) DEF Provide, TaskState
<1>3. Answer(t) \in Seq(Data)
  <2>1. \A i \in 1..Len(o.batch) : Content(o.batch[i]) \in Data
        BY <1>2, KeyContent
  <2>2. Answer(t) = [i \in 1..Len(o.batch) |-> Content(o.batch[i])]
        BY <1>1, <1>2 DEF Answer
  <2> QED BY <1>2, <2>1, <2>2
<1>4. WrongAnswers(t) \subseteq Seq(Data)
  <2>1. SubSeq(Answer(t), 1, Len(Answer(t)) - 1) \in Seq(Data)
        BY <1>3
  <2>2. \A i \in DOMAIN o.batch, d \in Data : [Answer(t) EXCEPT ![i] = d] \in Seq(Data)
    <3>1. DOMAIN o.batch = 1..Len(Answer(t))
          BY <1>1, <1>2, <1>3 DEF Answer
    <3> QED BY <1>3, <3>1, OneReplaced, ZenonT(60)
  <2> QED BY <1>1, <2>1, <2>2 DEF WrongAnswers
<1>5. PICK r \in Seq(Data) : task' = [task EXCEPT ![t].pc = "replied", ![t].response = r]
      BY <1>3, <1>4, ZenonT(60) DEF Provide
<1>6. PICK s : s = [o EXCEPT !.pc = "replied", !.response = r]
      OBVIOUS
<1>7. s \in TaskState
      BY <1>6, ZenonT(60) DEF TaskState
<1>8. /\ s.pc = "replied" /\ s.calls = o.calls /\ s.local = o.local /\ s.batch = o.batch
      /\ s.waiting = o.waiting /\ s.waitOn = o.waitOn /\ s.out = o.out /\ s.requested = o.requested
      BY <1>6, ZenonT(60) DEF TaskState
<1>9. task' = [task EXCEPT ![t] = s]
      BY <1>1, <1>5, <1>6, ZenonT(60) DEF IInv, TypeOK, TaskState
<1>10. Held(s) = Held(o)
      BY <1>8, ZenonT(60) DEF Held
<1>11. Coherent(t, s)
      BY <1>1, <1>2, <1>8, <1>10, ZenonT(60) DEF Coherent
<1>12. inner' = inner /\ evicted' = evicted /\ faults' \in 0 .. MaxFaults
  <2>1. faults \in 0 .. MaxFaults /\ (faults' = faults \/ (faults < MaxFaults /\ faults' = faults + 1))
        BY ZenonT(60) DEF Provide, IInv, TypeOK
  <2>2. faults' \in 0 .. MaxFaults
        BY <2>1, BoundsAssumption
  <2> QED BY <2>2, ZenonT(60) DEF Provide
<1> QED BY <1>1, <1>2, <1>7, <1>8, <1>9, <1>11, <1>12, TaskAlone, ZenonT(60)

LEMMA RejectPreserves ==
    ASSUME IInv, NEW t \in Task, Reject(t)
    PROVE  IInv'
<1>1. task[t].pc # "waiting" /\ task[t].waitOn = {}
      BY TaskFacts DEF Reject, Coherent
<1>2. task' = [task EXCEPT ![t].pc = "failed"] /\ inner' = inner /\ evicted' = evicted
      BY ZenonT(60) DEF Reject
<1>3. /\ inner' \in ChunkCacheInner /\ inner'.raw_cache \in Sound
      /\ inner'.pending_chunks = inner.pending_chunks /\ faults' \in 0 .. MaxFaults
      BY <1>2, ZenonT(60) DEF IInv, TypeOK, Reject
<1> QED BY <1>1, <1>2, <1>3, FailurePreserves, ZenonT(60) DEF Fails

LEMMA BreakPreserves ==
    ASSUME IInv, NEW t \in Task, Break(t)
    PROVE  IInv'
<1>1. task[t].pc # "waiting" /\ task[t].waitOn = {}
      BY TaskFacts, ZenonT(60) DEF Break, Coherent
<1>2. task' = [task EXCEPT ![t].pc = "failed"] /\ inner' = inner /\ evicted' = evicted
      BY ZenonT(60) DEF Break
<1>3. faults' \in 0 .. MaxFaults
  <2>1. faults \in 0 .. MaxFaults /\ faults < MaxFaults /\ faults' = faults + 1
        BY ZenonT(60) DEF Break, IInv, TypeOK
  <2> QED BY <2>1, BoundsAssumption
<1>4. /\ inner' \in ChunkCacheInner /\ inner'.raw_cache \in Sound
      /\ inner'.pending_chunks = inner.pending_chunks
      BY <1>2, ZenonT(60) DEF IInv, TypeOK
<1> QED BY <1>1, <1>2, <1>3, <1>4, FailurePreserves, ZenonT(60) DEF Fails

LEMMA PanicOnPoisonPreserves ==
    ASSUME IInv, NEW t \in Task, PanicOnPoison(t)
    PROVE  IInv'
<1>1. task[t].waitOn = {}
      BY TaskFacts, ZenonT(60) DEF PanicOnPoison, AtFetch, AtCall, Awake, AtEnd, Coherent
<1>2. /\ task' = [task EXCEPT ![t].pc = "failed", ![t].waiting = <<>>]
      /\ inner' = inner /\ evicted' = evicted
      BY ZenonT(60) DEF PanicOnPoison
<1>3. /\ inner' \in ChunkCacheInner /\ inner'.raw_cache \in Sound
      /\ inner'.pending_chunks = inner.pending_chunks /\ faults' \in 0 .. MaxFaults
      BY <1>2, ZenonT(60) DEF IInv, TypeOK, PanicOnPoison
<1> QED BY <1>1, <1>2, <1>3, FailurePreserves, ZenonT(60) DEF Fails

LEMMA FinishPreserves ==
    ASSUME IInv, NEW t \in Task, Finish(t)
    PROVE  IInv'
<1>1. PICK o \in TaskState : o = task[t] /\ Coherent(t, o)
      BY TaskFacts
<1>2. o.pc = "run" /\ o.calls = <<>>
      BY <1>1, ZenonT(60) DEF Finish, AtEnd
<1>3. PICK s : s = [o EXCEPT !.pc = "done"]
      BY ZenonT(60)
<1>4. s \in TaskState
      BY <1>3, ZenonT(60) DEF TaskState
<1>5. /\ s.pc = "done" /\ s.calls = o.calls /\ s.local = o.local /\ s.batch = o.batch
      /\ s.waiting = o.waiting /\ s.waitOn = o.waitOn /\ s.out = o.out /\ s.requested = o.requested
      BY <1>3, ZenonT(60) DEF TaskState
<1>6. task' = [task EXCEPT ![t] = s]
      BY <1>1, <1>3, ZenonT(60) DEF Finish, IInv, TypeOK
<1>7. Held(s) = Held(o)
      BY <1>5, ZenonT(60) DEF Held
<1>8. Coherent(t, s)
      BY <1>1, <1>2, <1>5, <1>7, ZenonT(60) DEF Coherent
<1>9. /\ inner' \in ChunkCacheInner
      /\ inner'.raw_cache = inner.raw_cache
      /\ inner'.pending_chunks = inner.pending_chunks
      BY ZenonT(60) DEF Finish, IInv, TypeOK, ChunkCacheInner
<1>10. Registered'
      BY <1>1, <1>2, <1>4, <1>5, <1>6, <1>9, SameRegistration, ZenonT(60)
<1>11. inner'.raw_cache \in Sound /\ evicted' \subseteq Key /\ faults' \in 0 .. MaxFaults
      BY <1>9, ZenonT(60) DEF Finish, IInv, TypeOK
<1> QED BY <1>4, <1>6, <1>8, <1>9, <1>10, <1>11, OneTask, ZenonT(60)

-----------------------------------------------------------------------------
(* get_chunks_batched up to the await. *)

\* What the keys that a task requests become.
ScanOf(t, r) ==
    /\ Keys(r.raw_cache) = Keys(inner.raw_cache)
    /\ DOMAIN task[t].local \subseteq DOMAIN r.local
    /\ Range(r.batch) \cap (Keys(inner.raw_cache) \cup DOMAIN inner.pending_chunks) = {}
    /\ Range(task[t].requested) \subseteq DOMAIN r.local \cup Range(r.batch) \cup Range(r.keep)
    /\ r.batch = <<>> => Range(r.keep) \subseteq DOMAIN inner.pending_chunks

LEMMA ScanKeeps ==
    ASSUME IInv, NEW t \in Task
    PROVE  Scan(t) \in Acc /\ ScanOf(t, Scan(t))
<1>1. PICK o \in TaskState : o = task[t] /\ Coherent(t, o)
      BY TaskFacts, ZenonT(60)
<1>2. PICK c \in Sound : c = inner.raw_cache
      BY ZenonT(60) DEF IInv
<1>3. PICK p \in SUBSET Key : p = DOMAIN inner.pending_chunks
      BY ZenonT(60) DEF IInv, TypeOK, ChunkCacheInner, Maps
<1>4. PICK m \in Locals : m = o.local
      BY <1>1, ZenonT(60) DEF TaskState, Coherent, Locals
<1>5. PICK q \in Seq(Key) : q = o.requested
      BY ZenonT(60) DEF TaskState
<1>6. PICK b \in Acc : b = [raw_cache |-> c, pending |-> p, local |-> m, batch |-> <<>>, keep |-> <<>>]
  <2>1. <<>> \in Seq(Key) /\ Len(<<>>) <= BatchSize
        BY BatchAssumption
  <2>2. [raw_cache |-> c, pending |-> p, local |-> m, batch |-> <<>>, keep |-> <<>>] \in Acc
        BY <2>1, ZenonT(60) DEF Acc
  <2> QED BY <2>2, ZenonT(60)
<1>7. b.batch = <<>> /\ b.keep = <<>> /\ b.raw_cache = c /\ b.pending = p /\ b.local = m
      BY <1>6, ZenonT(60)
<1>8. RetainAll(b, q) \in Acc /\ Scanned(b, q, RetainAll(b, q))
      BY <1>7, RetainAllKeeps, ZenonT(60)
<1>9. Scan(t) = RetainAll(b, q)
      BY <1>1, <1>2, <1>3, <1>4, <1>5, <1>6, ZenonT(60) DEF Scan
<1>10. ScanOf(t, RetainAll(b, q))
      BY <1>1, <1>2, <1>3, <1>4, <1>5, <1>7, <1>8, ZenonT(60) DEF ScanOf, Scanned
<1> QED BY <1>8, <1>9, <1>10, ZenonT(60)

LEMMA AccFields ==
    ASSUME NEW r \in Acc
    PROVE  /\ r.raw_cache \in Sound /\ r.raw_cache \in Cache /\ r.local \in Maps(Key, Data)
           /\ Honest(r.local) /\ r.batch \in Seq(Key) /\ r.keep \in Seq(Key)
           /\ Len(r.batch) <= BatchSize
BY ZenonT(60) DEF Acc, Locals, Sound

(* A batch enters pending_chunks. *)
LEMMA BatchEnters ==
    ASSUME IInv, NEW t \in Task, NEW B \in SUBSET Key, B \cap DOMAIN inner.pending_chunks = {},
           inner'.pending_chunks = Extend(inner.pending_chunks, [k \in B |-> t]),
           Batch[t] = {}
    PROVE  Batch' = [Batch EXCEPT ![t] = B] /\ inner'.pending_chunks \in Maps(Key, Task)
<1>1. PICK P : P = inner.pending_chunks
      OBVIOUS
<1>2. DOMAIN P \subseteq Key /\ \A k \in DOMAIN P : P[k] \in Task
      BY <1>1 DEF IInv, TypeOK, ChunkCacheInner, Maps
<1>3. PICK Q : Q = inner'.pending_chunks
      OBVIOUS
<1>4. Q = [k \in DOMAIN P \cup B |-> IF k \in B THEN t ELSE P[k]]
      BY <1>1, <1>3, ZenonT(60) DEF Extend
<1>5. Q \in Maps(Key, Task)
  <2>1. Q \in [DOMAIN P \cup B -> Task] /\ DOMAIN P \cup B \in SUBSET Key
        BY <1>2, <1>4, ZenonT(60)
  <2> QED BY <2>1, ZenonT(60) DEF Maps
<1>6. Batch = [u \in Task |-> {k \in DOMAIN P : P[k] = u}]
      BY <1>1, ZenonT(60) DEF Batch
<1>7. Batch' = [u \in Task |-> {k \in DOMAIN Q : Q[k] = u}]
      BY <1>3, ZenonT(60) DEF Batch
<1>8. ASSUME NEW u \in Task
      PROVE  {k \in DOMAIN Q : Q[k] = u} = IF u = t THEN B ELSE {k \in DOMAIN P : P[k] = u}
  <2>1. {k \in DOMAIN P : P[k] = t} = {}
        BY <1>6, ZenonT(60)
  <2> QED BY <1>1, <1>4, <2>1, ZenonT(60)
<1> QED BY <1>3, <1>5, <1>6, <1>7, <1>8, ZenonT(60)

LEMMA StartBatchPreserves ==
    ASSUME IInv, NEW t \in Task, StartBatch(t)
    PROVE  IInv'
<1>1. PICK o \in TaskState : o = task[t] /\ Coherent(t, o)
      BY TaskFacts
<1>2. o.pc = "run" /\ o.batch = <<>> /\ o.waiting = <<>> /\ o.waitOn = {}
      BY <1>1, ZenonT(60) DEF StartBatch, AtFetch, AtCall, Coherent
<1>3. PICK r \in Acc : r = Scan(t) /\ ScanOf(t, r)
      BY ScanKeeps, ZenonT(60)
<1>4. /\ inner' = [inner EXCEPT !.raw_cache = r.raw_cache,
                                !.pending_chunks = Extend(@, [k \in Range(r.batch) |-> t])]
      /\ task' = [task EXCEPT ![t].pc = "fetching", ![t].local = r.local,
                              ![t].requested = r.keep, ![t].batch = r.batch]
      BY <1>3, ZenonT(60) DEF StartBatch
<1>5. /\ inner'.raw_cache = r.raw_cache
      /\ inner'.pending_chunks = Extend(inner.pending_chunks, [k \in Range(r.batch) |-> t])
      BY <1>4, ZenonT(60) DEF IInv, TypeOK, ChunkCacheInner
<1>6. PICK B \in SUBSET Key : B = Range(r.batch)
      BY AccFields, Elements, ZenonT(60)
<1>7. Batch[t] = {}
      BY <1>1, <1>2, Elements, ZenonT(60) DEF IInv, Registered
<1>8. Batch' = [Batch EXCEPT ![t] = B] /\ inner'.pending_chunks \in Maps(Key, Task)
      BY <1>3, <1>5, <1>6, <1>7, BatchEnters, ZenonT(60) DEF ScanOf
<1>9. inner' \in ChunkCacheInner
  <2>1. inner'.raw_cache \in Cache
        BY <1>5, AccFields, ZenonT(60)
  <2>2. inner' = [raw_cache |-> inner'.raw_cache, pending_chunks |-> inner'.pending_chunks,
                  needs_saving |-> inner.needs_saving, poisoned |-> inner.poisoned]
        BY <1>4, ZenonT(60) DEF IInv, TypeOK, ChunkCacheInner
  <2>3. inner.needs_saving \in BOOLEAN /\ inner.poisoned \in BOOLEAN
        BY DEF IInv, TypeOK, ChunkCacheInner
  <2> QED BY <1>8, <2>1, <2>2, <2>3 DEF ChunkCacheInner
<1>10. PICK s : s = [o EXCEPT !.pc = "fetching", !.local = r.local, !.requested = r.keep, !.batch = r.batch]
      OBVIOUS
<1>11. s \in TaskState
      BY <1>10, AccFields, ZenonT(60) DEF TaskState
<1>12. /\ s.pc = "fetching" /\ s.calls = o.calls /\ s.requested = r.keep /\ s.local = r.local
       /\ s.batch = r.batch /\ s.waiting = o.waiting /\ s.waitOn = o.waitOn /\ s.out = o.out
      BY <1>10, ZenonT(60) DEF TaskState
<1>13. task' = [task EXCEPT ![t] = s]
      BY <1>1, <1>4, <1>10, ZenonT(60) DEF IInv, TypeOK, TaskState
<1>14. Covered(s.calls, Held(s))
  <2>1. Held(o) \subseteq Held(s)
        BY <1>1, <1>2, <1>3, <1>12, Elements, ZenonT(60) DEF Held, ScanOf
  <2>2. Covered(o.calls, Held(o))
        BY <1>1, <1>2, ZenonT(60) DEF Coherent
  <2> QED BY <1>12, <2>1, <2>2, CoveredMore, ZenonT(60)
<1>15. Coherent(t, s)
      BY <1>1, <1>2, <1>12, <1>14, AccFields, ZenonT(60) DEF Coherent
<1>16. Registered'
  <2>1. \A u \in Task : task'[u] = IF u = t THEN s ELSE task[u]
        BY <1>13, ZenonT(60) DEF IInv, TypeOK
  <2>2. \A u \in Task : Batch'[u] = IF u = t THEN B ELSE Batch[u]
        BY <1>8, ZenonT(60) DEF Batch
  <2> QED BY <1>6, <1>12, <2>1, <2>2, ZenonT(60) DEF IInv, Registered
<1>17. inner'.raw_cache \in Sound /\ evicted' \subseteq Key /\ faults' \in 0 .. MaxFaults
      BY <1>5, AccFields, ZenonT(60) DEF StartBatch, IInv, TypeOK
<1> QED BY <1>9, <1>11, <1>13, <1>15, <1>16, <1>17, OneTask, ZenonT(60)

LEMMA NoBatchPreserves ==
    ASSUME IInv, NEW t \in Task, NoBatch(t)
    PROVE  IInv'
<1>1. PICK o \in TaskState : o = task[t] /\ Coherent(t, o)
      BY TaskFacts
<1>2. o.pc = "run" /\ o.batch = <<>> /\ o.waiting = <<>> /\ o.waitOn = {}
      BY <1>1, ZenonT(60) DEF NoBatch, AtFetch, AtCall, Coherent
<1>3. PICK r \in Acc : r = Scan(t) /\ ScanOf(t, r)
      BY ScanKeeps, ZenonT(60)
<1>4. PICK W : W = {inner.pending_chunks[k] : k \in Range(r.keep)}
      BY ZenonT(60)
<1>5. PICK pc : pc = IF r.keep = <<>> THEN "run" ELSE "waiting"
      OBVIOUS
<1>6. /\ r.batch = <<>>
      /\ inner' = [inner EXCEPT !.raw_cache = r.raw_cache]
      /\ task' = [task EXCEPT ![t].pc = pc, ![t].local = r.local, ![t].requested = <<>>,
                              ![t].waiting = r.keep, ![t].waitOn = W]
      BY <1>3, <1>4, <1>5, ZenonT(60) DEF NoBatch
<1>7. W \in SUBSET Task
  <2>1. Range(r.keep) \subseteq DOMAIN inner.pending_chunks
        BY <1>3, <1>6, ZenonT(60) DEF ScanOf
  <2>2. \A k \in DOMAIN inner.pending_chunks : inner.pending_chunks[k] \in Task
        BY DEF IInv, TypeOK, ChunkCacheInner, Maps
  <2> QED BY <1>4, <2>1, <2>2, ZenonT(60)
<1>8. /\ inner' \in ChunkCacheInner /\ inner'.raw_cache = r.raw_cache
      /\ inner'.pending_chunks = inner.pending_chunks
      BY <1>6, AccFields, ZenonT(60) DEF IInv, TypeOK, ChunkCacheInner
<1>9. PICK e \in Seq(Key) : e = <<>>
  <2>1. <<>> \in Seq(Key)
        OBVIOUS
  <2> QED BY <2>1, ZenonT(60)
<1>10. PICK s : s = [o EXCEPT !.pc = pc, !.local = r.local, !.requested = e,
                              !.waiting = r.keep, !.waitOn = W]
      OBVIOUS
<1>11. s \in TaskState
      BY <1>5, <1>7, <1>10, AccFields, ZenonT(60) DEF TaskState
<1>12. /\ s.pc = pc /\ s.calls = o.calls /\ s.requested = <<>> /\ s.local = r.local
       /\ s.batch = o.batch /\ s.waiting = r.keep /\ s.waitOn = W /\ s.out = o.out
      BY <1>9, <1>10, ZenonT(60) DEF TaskState
<1>13. task' = [task EXCEPT ![t] = s]
      BY <1>1, <1>6, <1>9, <1>10, ZenonT(60) DEF IInv, TypeOK, TaskState
<1>14. Covered(s.calls, Held(s))
  <2>1. Held(o) \subseteq Held(s)
        BY <1>1, <1>2, <1>3, <1>6, <1>12, Elements, ZenonT(60) DEF Held, ScanOf
  <2>2. Covered(o.calls, Held(o))
        BY <1>1, <1>2, ZenonT(60) DEF Coherent
  <2> QED BY <1>12, <2>1, <2>2, CoveredMore, ZenonT(60)
<1>15. s.pc # "waiting" => s.waiting = <<>> /\ s.waitOn = {}
      BY <1>4, <1>5, <1>12, Elements
<1>16. Coherent(t, s)
      BY <1>1, <1>2, <1>5, <1>12, <1>14, <1>15, AccFields, ZenonT(60) DEF Coherent
<1>17. Registered'
      BY <1>1, <1>2, <1>8, <1>11, <1>12, <1>13, SameRegistration, ZenonT(60)
<1>18. inner'.raw_cache \in Sound /\ evicted' \subseteq Key /\ faults' \in 0 .. MaxFaults
      BY <1>8, AccFields, ZenonT(60) DEF NoBatch, IInv, TypeOK
<1> QED BY <1>8, <1>11, <1>13, <1>16, <1>17, <1>18, OneTask, ZenonT(60)

-----------------------------------------------------------------------------
(* fulfill, and get_chunks_batched after the await. *)

(* A batch leaves pending_chunks. *)
LEMMA BatchLeaves ==
    ASSUME IInv, NEW t \in Task,
           inner'.pending_chunks =
               Restrict(inner.pending_chunks, DOMAIN inner.pending_chunks \ Batch[t])
    PROVE  Batch' = [Batch EXCEPT ![t] = {}] /\ inner'.pending_chunks \in Maps(Key, Task)
<1>1. PICK P : P = inner.pending_chunks
      BY ZenonT(60)
<1>2. DOMAIN P \subseteq Key /\ \A k \in DOMAIN P : P[k] \in Task
      BY <1>1 DEF IInv, TypeOK, ChunkCacheInner, Maps
<1>3. PICK B : B = Batch[t]
      BY ZenonT(60)
<1>4. PICK Q : Q = inner'.pending_chunks
      BY ZenonT(60)
<1>5. Q = [k \in DOMAIN P \ B |-> P[k]]
      BY <1>1, <1>3, <1>4, ZenonT(60) DEF Restrict
<1>6. Q \in Maps(Key, Task)
  <2>1. Q \in [DOMAIN P \ B -> Task] /\ DOMAIN P \ B \in SUBSET Key
        BY <1>2, <1>5, ZenonT(60)
  <2> QED BY <2>1, ZenonT(60) DEF Maps
<1>7. Batch = [u \in Task |-> {k \in DOMAIN P : P[k] = u}]
      BY <1>1, ZenonT(60) DEF Batch
<1>8. Batch' = [u \in Task |-> {k \in DOMAIN Q : Q[k] = u}]
      BY <1>4, ZenonT(60) DEF Batch
<1>9. ASSUME NEW u \in Task
      PROVE  {k \in DOMAIN Q : Q[k] = u} = IF u = t THEN {} ELSE {k \in DOMAIN P : P[k] = u}
  <2>1. B = {k \in DOMAIN P : P[k] = t}
        BY <1>3, <1>7, ZenonT(60)
  <2> QED BY <1>5, <2>1, ZenonT(60)
<1> QED BY <1>4, <1>6, <1>7, <1>8, <1>9, ZenonT(60)

\* An answer that is accepted.
Verifies(keys, data) ==
    Len(data) = Len(keys) /\ \A i \in DOMAIN keys : Hash(data[i]) = keys[i]

\* Its chunks, as entries.
Entries(keys, data) == [i \in DOMAIN keys |-> [key |-> keys[i], data |-> data[i]]]

(* A verified answer keeps the cache sound. *)
LEMMA AnswerInserted ==
    ASSUME NEW cache \in Sound, NEW keys \in Seq(Key), NEW data \in Seq(Data),
           Verifies(keys, data)
    PROVE  /\ InsertAll(cache, keys, data) \in Sound
           /\ Keys(InsertAll(cache, keys, data)) \subseteq Keys(cache) \cup Range(keys)
<1>1. PICK n \in Nat : n = Len(keys) /\ DOMAIN keys = 1..n /\ DOMAIN data = 1..n
      BY DEF Verifies
<1>2. PICK s \in Seq(Verified) : s = Entries(keys, data)
  <2>1. \A i \in 1..n : [key |-> keys[i], data |-> data[i]] \in Verified
    <3>1. \A i \in 1..n : data[i] \in Data /\ keys[i] = Hash(data[i])
          BY <1>1 DEF Verifies
    <3> QED BY <3>1, ZenonT(60) DEF Verified
  <2>2. Entries(keys, data) = [i \in 1..n |-> [key |-> keys[i], data |-> data[i]]]
        BY <1>1, ZenonT(60) DEF Entries
  <2>3. [i \in 1..n |-> [key |-> keys[i], data |-> data[i]]] \in Seq(Verified)
        BY <1>1, <2>1
  <2> QED BY <2>2, <2>3, ZenonT(60)
<1>3. InsertAll(cache, keys, data) = Iterate(InsertEntry, cache, Entries(keys, data))
      BY ZenonT(60) DEF InsertAll, InsertEntry, Entries
<1>4. Iterate(InsertEntry, cache, Entries(keys, data)) = Iterate(InsertEntry, cache, s)
      BY <1>2, ZenonT(60)
<1>5. {s[i].key : i \in DOMAIN s} \subseteq Range(keys)
      BY <1>1, <1>2, ZenonT(60) DEF Entries, Range
<1> QED BY <1>3, <1>4, <1>5, InsertAllKeeps, ZenonT(60)

(* What it adds to the local cache. *)
LEMMA AnswerKept ==
    ASSUME NEW keys \in Seq(Key), NEW data \in Seq(Data), Verifies(keys, data)
    PROVE  Received(keys, data) \in Locals /\ DOMAIN Received(keys, data) = Range(keys)
<1> DEFINE at(k) == CHOOSE i \in DOMAIN keys : keys[i] = k
           got == [k \in Range(keys) |-> data[at(k)]]
<1>1. Range(keys) \in SUBSET Key
      BY Elements, ZenonT(60)
<1>2. ASSUME NEW k \in Range(keys) PROVE data[at(k)] \in Data /\ Hash(data[at(k)]) = k
  <2>1. \E i \in DOMAIN keys : keys[i] = k
        BY ZenonT(60) DEF Range
  <2>2. at(k) \in DOMAIN keys /\ keys[at(k)] = k
        BY <2>1, ZenonT(60)
  <2> HIDE DEF at
  <2>3. DOMAIN data = DOMAIN keys
        BY DEF Verifies
  <2> QED BY <2>2, <2>3 DEF Verifies
<1> HIDE DEF at
<1>3. got \in [Range(keys) -> Data]
      BY <1>2, ZenonT(60)
<1>4. got \in Maps(Key, Data)
      BY <1>1, <1>3, ZenonT(60) DEF Maps
<1>5. Honest(got)
      BY <1>2, ZenonT(60) DEF Honest
<1>6. got \in Locals /\ DOMAIN got = Range(keys)
      BY <1>3, <1>4, <1>5, ZenonT(60) DEF Locals
<1>7. Received(keys, data) = got
      BY ZenonT(60) DEF Received, at
<1> QED BY <1>6, <1>7, ZenonT(60)

(* What fulfill does to the cache. *)
LEMMA FulfillFacts ==
    ASSUME IInv, NEW t \in Task, Fulfill(t)
    PROVE  /\ Batch[t] = Range(task[t].batch)
           /\ inner'.raw_cache \in Sound
           /\ Keys(inner'.raw_cache) \subseteq Keys(inner.raw_cache) \cup Batch[t]
           /\ evicted' = evicted \cup ((Keys(inner.raw_cache) \cup Batch[t]) \ Keys(inner'.raw_cache))
           /\ Batch' = [Batch EXCEPT ![t] = {}]
           /\ inner' \in ChunkCacheInner
           /\ inner'.poisoned = inner.poisoned
<1>1. PICK o \in TaskState : o = task[t] /\ Coherent(t, o)
      BY TaskFacts
<1>2. o.pc = "replied" /\ Verifies(o.batch, o.response) /\ o.batch \in Seq(Key) /\ o.response \in Seq(Data)
      BY <1>1, ZenonT(60) DEF Fulfill, Accept, Verifies, TaskState
<1>3. Batch[t] = Range(o.batch)
      BY <1>1, <1>2, ZenonT(60) DEF IInv, Registered
<1>4. PICK c \in Sound : /\ c = InsertAll(inner.raw_cache, o.batch, o.response)
                         /\ Keys(c) \subseteq Keys(inner.raw_cache) \cup Range(o.batch)
      BY <1>2, AnswerInserted, ZenonT(60) DEF IInv
<1>5. inner' = [inner EXCEPT !.raw_cache = c,
                             !.pending_chunks = Restrict(@, DOMAIN @ \ Range(o.batch))]
      BY <1>1, <1>4, ZenonT(60) DEF Fulfill
<1>6. /\ inner'.raw_cache = c
      /\ inner'.pending_chunks =
             Restrict(inner.pending_chunks, DOMAIN inner.pending_chunks \ Range(o.batch))
      /\ inner'.poisoned = inner.poisoned
      BY <1>5, ZenonT(60) DEF IInv, TypeOK, ChunkCacheInner
<1>7. Batch' = [Batch EXCEPT ![t] = {}] /\ inner'.pending_chunks \in Maps(Key, Task)
      BY <1>3, <1>6, BatchLeaves, ZenonT(60)
<1>8. inner' \in ChunkCacheInner
  <2>1. inner'.raw_cache \in Cache
        BY <1>6, ZenonT(60) DEF Sound
  <2>2. inner' = [raw_cache |-> inner'.raw_cache, pending_chunks |-> inner'.pending_chunks,
                  needs_saving |-> inner.needs_saving, poisoned |-> inner.poisoned]
        BY <1>5, ZenonT(60) DEF IInv, TypeOK, ChunkCacheInner
  <2>3. inner.needs_saving \in BOOLEAN /\ inner.poisoned \in BOOLEAN
        BY DEF IInv, TypeOK, ChunkCacheInner
  <2> QED BY <1>7, <2>1, <2>2, <2>3 DEF ChunkCacheInner
<1>9. evicted' = evicted \cup ((Keys(inner.raw_cache) \cup Range(o.batch)) \ Keys(c))
      BY <1>1, <1>4, ZenonT(60) DEF Fulfill
<1> QED BY <1>1, <1>3, <1>4, <1>6, <1>7, <1>8, <1>9, ZenonT(60)

(* The semaphore of another batch is closed. *)
LEMMA ClosedCoherent ==
    ASSUME IInv, NEW t \in Task, NEW u \in Task
    PROVE  /\ Closed(t, u) \in TaskState /\ Coherent(u, Closed(t, u))
           /\ Closed(t, u).pc = task[u].pc /\ Closed(t, u).batch = task[u].batch
<1>1. PICK o \in TaskState : o = task[u] /\ Coherent(u, o)
      BY TaskFacts, ZenonT(60)
<1>2. PICK W \in SUBSET Task : W = o.waitOn \ {t}
      BY ZenonT(60) DEF TaskState
<1>3. PICK s : s = [o EXCEPT !.waitOn = W]
      BY ZenonT(60)
<1>4. Closed(t, u) = s
      BY <1>1, <1>2, <1>3, ZenonT(60) DEF Closed
<1>5. s \in TaskState
      BY <1>3, ZenonT(60) DEF TaskState
<1>6. /\ s.pc = o.pc /\ s.calls = o.calls /\ s.requested = o.requested /\ s.local = o.local
      /\ s.batch = o.batch /\ s.waiting = o.waiting /\ s.waitOn = W /\ s.out = o.out
      BY <1>3, ZenonT(60) DEF TaskState
<1>7. Held(s) = Held(o)
      BY <1>6, ZenonT(60) DEF Held
<1>8. Coherent(u, s)
      BY <1>1, <1>2, <1>6, <1>7, ZenonT(60) DEF Coherent
<1> QED BY <1>1, <1>4, <1>5, <1>6, <1>8, ZenonT(60)

LEMMA FulfillPreserves ==
    ASSUME IInv, NEW t \in Task, Fulfill(t)
    PROVE  IInv'
<1>1. PICK o \in TaskState : o = task[t] /\ Coherent(t, o)
      BY TaskFacts
<1>2. /\ o.pc = "replied" /\ o.waiting = <<>> /\ o.waitOn = {} /\ Verifies(o.batch, o.response)
      /\ o.batch \in Seq(Key) /\ o.response \in Seq(Data)
      BY <1>1, ZenonT(60) DEF Fulfill, Accept, Verifies, TaskState, Coherent
<1>3. PICK g \in Locals :
          /\ g = Received(o.batch, o.response)
          /\ DOMAIN g = Range(o.batch)
      BY <1>2, AnswerKept, ZenonT(60)
<1>4. PICK m \in Locals : m = Extend(o.local, g) /\ DOMAIN m = DOMAIN o.local \cup Range(o.batch)
  <2>1. o.local \in Locals
        BY <1>1, ZenonT(60) DEF TaskState, Coherent, Locals
  <2>2. Extend(o.local, g) \in Locals /\ DOMAIN Extend(o.local, g) = DOMAIN o.local \cup DOMAIN g
        BY <2>1, ExtendKeeps, ZenonT(60)
  <2> QED BY <1>3, <2>2, ZenonT(60)
<1>5. PICK e \in Seq(Key) : e = <<>>
  <2>1. <<>> \in Seq(Key)
        OBVIOUS
  <2> QED BY <2>1, ZenonT(60)
<1>6. PICK f \in Seq(Data) : f = <<>>
  <2>1. <<>> \in Seq(Data)
        OBVIOUS
  <2> QED BY <2>1, ZenonT(60)
<1>7. PICK s : s = [o EXCEPT !.pc = "run", !.local = m, !.batch = e, !.response = f]
      OBVIOUS
<1>8. s \in TaskState
  <2>1. m \in Maps(Key, Data)
        BY DEF Locals
  <2> QED BY <1>7, <2>1, ZenonT(60) DEF TaskState
<1>9. /\ s.pc = "run" /\ s.calls = o.calls /\ s.requested = o.requested /\ s.local = m
      /\ s.batch = e /\ s.waiting = o.waiting /\ s.waitOn = o.waitOn /\ s.out = o.out
      BY <1>7, ZenonT(60) DEF TaskState
<1>10. task' = [u \in Task |-> IF u = t THEN s ELSE Closed(t, u)]
  <2>1. [o EXCEPT !.pc = "run", !.local = Extend(@, g), !.batch = <<>>, !.response = <<>>] = s
        BY <1>4, <1>5, <1>6, <1>7, ZenonT(60)
  <2>2. task' = [u \in Task |->
                    IF u = t
                    THEN [o EXCEPT !.pc = "run", !.local = Extend(@, g), !.batch = <<>>, !.response = <<>>]
                    ELSE Closed(t, u)]
        BY <1>1, <1>3, ZenonT(60) DEF Fulfill
  <2> QED BY <2>1, <2>2, ZenonT(60)
<1>11. Coherent(t, s)
  <2>1. Held(s) = Held(o)
        BY <1>4, <1>5, <1>9, Elements, ZenonT(60) DEF Held
  <2>2. Len(e) <= BatchSize
        BY <1>5, BatchAssumption
  <2> QED BY <1>1, <1>2, <1>5, <1>9, <2>1, <2>2, ZenonT(60) DEF Coherent, Locals
<1>12. ASSUME NEW u \in Task, u # t
       PROVE  /\ Closed(t, u) \in TaskState /\ Coherent(u, Closed(t, u))
              /\ Closed(t, u).pc = task[u].pc /\ Closed(t, u).batch = task[u].batch
      BY ClosedCoherent, ZenonT(60)
<1>13. task' \in [Task -> TaskState] /\ \A u \in Task : Coherent(u, task'[u])
      BY <1>8, <1>10, <1>11, <1>12, ZenonT(60)
<1>14. Registered'
  <2>1. \A u \in Task : Batch'[u] = IF u = t THEN {} ELSE Batch[u]
    <3>1. DOMAIN Batch = Task
          BY DEF Batch
    <3> QED BY <3>1, FulfillFacts, ZenonT(60)
  <2>2. Range(s.batch) = {}
        BY <1>5, <1>9, Elements, ZenonT(60)
  <2> QED BY <1>10, <1>12, <2>1, <2>2, ZenonT(60) DEF IInv, Registered
<1>15. inner' \in ChunkCacheInner /\ inner'.raw_cache \in Sound
      BY FulfillFacts, ZenonT(60)
<1>16. evicted' \subseteq Key /\ faults' \in 0 .. MaxFaults
  <2>1. Keys(inner.raw_cache) \subseteq Key /\ Batch[t] \subseteq Key
    <3>1. Batch[t] \subseteq Key
          BY <1>1, <1>2, FulfillFacts, Elements
    <3> QED BY <3>1, SoundKeys, ZenonT(60) DEF IInv
  <2> QED BY <2>1, FulfillFacts, ZenonT(60) DEF Fulfill, IInv, TypeOK
<1>17. TypeOK'
  <2>1. \A u \in Task : Len(task'[u].batch) <= BatchSize
        BY <1>13, ZenonT(60) DEF Coherent
  <2> QED BY <1>13, <1>15, <1>16, <2>1, ZenonT(60) DEF TypeOK
<1> QED BY <1>13, <1>14, <1>15, <1>17, ZenonT(60) DEF IInv

(* What collecting the chunks adds to the local cache. *)
LEMMA CollectedHonest ==
    ASSUME NEW cache \in Sound, NEW keys \in Seq(Key), Range(keys) \subseteq Keys(cache)
    PROVE  [k \in Range(keys) |-> Lookup(cache, k)] \in Locals
<1>1. PICK K \in SUBSET Key : K = Range(keys)
      BY Elements, ZenonT(60)
<1>2. \A k \in K : Lookup(cache, k) \in Data /\ Hash(Lookup(cache, k)) = k
      BY <1>1, LookupHonest, ZenonT(60) DEF Has
<1>3. [k \in K |-> Lookup(cache, k)] \in [K -> Data]
      BY <1>2, ZenonT(60)
<1>4. [k \in K |-> Lookup(cache, k)] \in Maps(Key, Data)
      BY <1>3, ZenonT(60) DEF Maps
<1>5. Honest([k \in K |-> Lookup(cache, k)])
      BY <1>2, ZenonT(60) DEF Honest
<1> QED BY <1>1, <1>4, <1>5, ZenonT(60) DEF Locals

LEMMA CollectPreserves ==
    ASSUME IInv, NEW t \in Task, Collect(t)
    PROVE  IInv'
<1>1. PICK o \in TaskState : o = task[t] /\ Coherent(t, o)
      BY TaskFacts
<1>2. o.pc = "waiting" /\ o.waitOn = {} /\ o.batch = <<>> /\ o.waiting \in Seq(Key)
      BY <1>1, ZenonT(60) DEF Collect, Awake, TaskState, Coherent
<1>3. CASE Range(o.waiting) \subseteq Keys(inner.raw_cache)
  <2>1. PICK g \in Locals : /\ g = [k \in Range(o.waiting) |-> Lookup(inner.raw_cache, k)]
                            /\ DOMAIN g = Range(o.waiting)
    <3>1. [k \in Range(o.waiting) |-> Lookup(inner.raw_cache, k)] \in Locals
          BY <1>2, <1>3, CollectedHonest, ZenonT(60) DEF IInv
    <3> QED BY <3>1, ZenonT(60)
  <2>2. PICK m \in Locals : m = Extend(o.local, g) /\ DOMAIN m = DOMAIN o.local \cup Range(o.waiting)
    <3>1. o.local \in Locals
          BY <1>1, ZenonT(60) DEF TaskState, Coherent, Locals
    <3>2. Extend(o.local, g) \in Locals /\ DOMAIN Extend(o.local, g) = DOMAIN o.local \cup DOMAIN g
          BY <3>1, ExtendKeeps, ZenonT(60)
    <3> QED BY <2>1, <3>2, ZenonT(60)
  <2>3. PICK c \in Sound : c = GetAll(inner.raw_cache, o.waiting)
        BY <1>2, GetAllKeeps, ZenonT(60) DEF IInv
  <2>4. inner' = [inner EXCEPT !.raw_cache = c]
        BY <1>1, <1>3, <2>3, ZenonT(60) DEF Collect
  <2>5. PICK e \in Seq(Key) : e = <<>>
    <3>1. <<>> \in Seq(Key)
          OBVIOUS
    <3> QED BY <3>1, ZenonT(60)
  <2>6. task' = [task EXCEPT ![t].pc = "run", ![t].waiting = e, ![t].local = Extend(@, g)]
        BY <1>1, <1>3, <2>1, <2>5, ZenonT(60) DEF Collect
  <2>7. PICK s : s = [o EXCEPT !.pc = "run", !.waiting = e, !.local = m]
        BY ZenonT(60)
  <2>8. s \in TaskState
    <3>1. m \in Maps(Key, Data)
          BY DEF Locals
    <3> QED BY <2>7, <3>1, ZenonT(60) DEF TaskState
  <2>9. /\ s.pc = "run" /\ s.calls = o.calls /\ s.requested = o.requested /\ s.local = m
        /\ s.batch = o.batch /\ s.waiting = e /\ s.waitOn = o.waitOn /\ s.out = o.out
        BY <2>7, ZenonT(60) DEF TaskState
  <2>10. task' = [task EXCEPT ![t] = s]
        BY <1>1, <2>2, <2>6, <2>7, ZenonT(60) DEF IInv, TypeOK, TaskState
  <2>11. Held(s) = Held(o)
        BY <2>2, <2>5, <2>9, Elements, ZenonT(60) DEF Held
  <2>12. Coherent(t, s)
        BY <1>1, <1>2, <2>5, <2>9, <2>11, ZenonT(60) DEF Coherent, Locals
  <2>13. /\ inner' \in ChunkCacheInner /\ inner'.raw_cache = c
         /\ inner'.pending_chunks = inner.pending_chunks
        BY <2>4, ZenonT(60) DEF IInv, TypeOK, ChunkCacheInner, Sound
  <2>14. Registered'
        BY <1>1, <1>2, <2>8, <2>9, <2>10, <2>13, SameRegistration, ZenonT(60)
  <2>15. inner'.raw_cache \in Sound /\ evicted' \subseteq Key /\ faults' \in 0 .. MaxFaults
        BY <2>13, ZenonT(60) DEF Collect, IInv, TypeOK
  <2> QED BY <2>8, <2>10, <2>12, <2>13, <2>14, <2>15, OneTask, ZenonT(60)
<1>4. CASE ~(Range(o.waiting) \subseteq Keys(inner.raw_cache))
  <2>1. /\ inner' = [inner EXCEPT !.poisoned = TRUE]
        /\ task' = [task EXCEPT ![t].pc = "failed", ![t].waiting = <<>>]
        BY <1>1, <1>4, ZenonT(60) DEF Collect
  <2>2. /\ inner' \in ChunkCacheInner /\ inner'.raw_cache \in Sound
        /\ inner'.pending_chunks = inner.pending_chunks
        BY <2>1, ZenonT(60) DEF IInv, TypeOK, ChunkCacheInner
  <2>3. evicted' = evicted /\ faults' \in 0 .. MaxFaults
        BY DEF Collect, IInv, TypeOK
  <2> QED BY <1>1, <1>2, <2>1, <2>2, <2>3, FailurePreserves, ZenonT(60) DEF Fails
<1> QED BY <1>3, <1>4, ZenonT(60)

-----------------------------------------------------------------------------
LEMMA InitEstablishes == Init => IInv
<1> SUFFICES ASSUME Init PROVE IInv
    BY ZenonT(60)
<1>1. PICK content \in Loaded :
          inner = [raw_cache |-> InsertAll(New(MaxSize),
                                    [i \in DOMAIN content |-> Hash(content[i])], content),
                   pending_chunks |-> <<>>, needs_saving |-> FALSE, poisoned |-> FALSE]
      BY ZenonT(60) DEF Init
<1>2. PICK keys \in Seq(Key) : /\ keys = [i \in DOMAIN content |-> Hash(content[i])]
                               /\ Verifies(keys, content) /\ content \in Seq(Data)
  <2>1. content \in Seq(Data)
        BY LoadedAssumption
  <2>2. [i \in 1..Len(content) |-> Hash(content[i])] \in Seq(Key)
        BY <2>1, KeyContent
  <2>3. Verifies([i \in 1..Len(content) |-> Hash(content[i])], content)
        BY <2>1, <2>2 DEF Verifies
  <2> QED BY <2>1, <2>2, <2>3
<1>3. PICK c \in Sound : c = InsertAll(New(MaxSize), keys, content)
      BY <1>2, BoundsAssumption, NewSound, AnswerInserted, ZenonT(60)
<1>4. inner = [raw_cache |-> c, pending_chunks |-> <<>>, needs_saving |-> FALSE, poisoned |-> FALSE]
      BY <1>1, <1>2, <1>3, ZenonT(60)
<1>5. <<>> \in Maps(Key, Task) /\ <<>> \in Maps(Key, Data) /\ DOMAIN <<>> = {}
  <2>1. <<>> \in [{} -> Task] /\ <<>> \in [{} -> Data] /\ DOMAIN <<>> = {}
        OBVIOUS
  <2> QED BY <2>1, ZenonT(60) DEF Maps
<1>6. inner \in ChunkCacheInner /\ inner.raw_cache = c /\ inner.pending_chunks = <<>>
      BY <1>4, <1>5, ZenonT(60) DEF ChunkCacheInner, Sound
<1>7. ASSUME NEW t \in Task
      PROVE  /\ task[t] \in TaskState /\ Coherent(t, task[t])
             /\ task[t].batch = <<>>
  <2>1. PICK o : o = [pc |-> "run", calls |-> Program[t], requested |-> <<>>, local |-> <<>>,
                      batch |-> <<>>, response |-> <<>>, waiting |-> <<>>, waitOn |-> {}, out |-> <<>>]
        BY ZenonT(60)
  <2>2. task[t] = o
        BY <2>1, ZenonT(60) DEF Init
  <2>3. Program[t] \in Seq(Call)
        BY ProgramAssumption, ZenonT(60)
  <2>4. <<>> \in Seq(Key) /\ <<>> \in Seq(Data)
        OBVIOUS
  <2>5. o \in TaskState
        BY <1>5, <2>1, <2>3, <2>4, ZenonT(60) DEF TaskState
  <2>6. /\ o.pc = "run" /\ o.calls = Program[t] /\ o.requested = <<>> /\ o.local = <<>>
        /\ o.batch = <<>> /\ o.waiting = <<>> /\ o.waitOn = {} /\ o.out = <<>>
        BY <2>1, ZenonT(60)
  <2>7. Covered(Program[t], Held(o))
    <3>1. Covered(Program[t], {}) /\ {} \subseteq Held(o)
          BY ProgramAssumption, ZenonT(60)
    <3> QED BY <3>1, CoveredMore, ZenonT(60)
  <2>8. Iterate(Yielding, <<>>, Program[t]) = Payload[t]
        BY ProgramAssumption, ZenonT(60)
  <2>9. Iterate(Yielding, o.out, o.calls) = Payload[t]
        BY <2>6, <2>8, ZenonT(60)
  <2>10. Len(<<>>) <= BatchSize
        BY BatchAssumption
  <2>11. Coherent(t, o)
        BY <1>5, <2>6, <2>7, <2>9, <2>10, ZenonT(60) DEF Coherent, Honest
  <2> QED BY <2>2, <2>5, <2>6, <2>11, ZenonT(60)
<1>8. task \in [Task -> TaskState]
      BY <1>7, ZenonT(60) DEF Init
<1>9. TypeOK
  <2>1. faults \in 0 .. MaxFaults /\ evicted \subseteq Key
        BY BoundsAssumption DEF Init
  <2>2. \A t \in Task : Len(task[t].batch) <= BatchSize
        BY <1>7, ZenonT(60) DEF Coherent
  <2> QED BY <1>6, <1>8, <2>1, <2>2, ZenonT(60) DEF TypeOK
<1>10. Registered
  <2>1. Range(<<>>) = {}
        BY Elements, ZenonT(60)
  <2>2. \A t \in Task : Batch[t] = {}
        BY <1>5, <1>6, ZenonT(60) DEF Batch
  <2> QED BY <1>7, <2>1, <2>2, ZenonT(60) DEF Registered
<1> QED BY <1>6, <1>7, <1>9, <1>10, ZenonT(60) DEF IInv

LEMMA NextPreserves == IInv /\ [Next]_vars => IInv'
<1> SUFFICES ASSUME IInv, [Next]_vars PROVE IInv'
    BY ZenonT(60)
<1>1. CASE UNCHANGED vars
  <2>1. Batch' = Batch
        BY <1>1, ZenonT(60) DEF vars, Batch
  <2> QED BY <1>1, <2>1, ZenonT(60) DEF vars, IInv, TypeOK, Registered
<1>2. CASE Next
  <2>1. PICK t \in Task : Step(t) \/ Provide(t) \/ Break(t)
        BY <1>2, ZenonT(60) DEF Next
  <2>2. CASE CallPrefetch(t)
        BY <2>2, CallPrefetchPreserves, ZenonT(60)
  <2>3. CASE GetLocal(t)
        BY <2>3, GetLocalPreserves, ZenonT(60)
  <2>4. CASE StartBatch(t)
        BY <2>4, StartBatchPreserves, ZenonT(60)
  <2>5. CASE NoBatch(t)
        BY <2>5, NoBatchPreserves, ZenonT(60)
  <2>6. CASE Fulfill(t)
        BY <2>6, FulfillPreserves
  <2>7. CASE Reject(t)
        BY <2>7, RejectPreserves
  <2>8. CASE Collect(t)
        BY <2>8, CollectPreserves
  <2>9. CASE PanicOnPoison(t)
        BY <2>9, PanicOnPoisonPreserves
  <2>10. CASE Finish(t)
        BY <2>10, FinishPreserves
  <2>11. CASE Provide(t)
        BY <2>11, ProvidePreserves
  <2>12. CASE Break(t)
        BY <2>12, BreakPreserves
  <2> QED BY <2>1, <2>2, <2>3, <2>4, <2>5, <2>6, <2>7, <2>8, <2>9, <2>10, <2>11, <2>12, ZenonT(60) DEF Step
<1> QED BY <1>1, <1>2, ZenonT(60)

THEOREM InductiveInvariant == Spec => []IInv
BY InitEstablishes, NextPreserves, PTL DEF Spec

(* insert and fetch_chunk_batch: the shared cache is accounted for and within
   its limit, and no wrong chunk is ever in it or in a local cache, whatever the
   servers answer and whatever fails. *)
THEOREM NoWrongChunk == Spec => []CacheIntegrity
<1>1. IInv => CacheIntegrity
  <2> SUFFICES ASSUME IInv PROVE CacheIntegrity
      BY ZenonT(60)
  <2>1. AccountsRight(inner.raw_cache) /\ ContentMatchesKeys(inner.raw_cache)
        BY SoundMeans, ZenonT(60) DEF IInv
  <2> QED BY <2>1, ZenonT(60) DEF IInv, CacheIntegrity, Coherent, Honest
<1> QED BY <1>1, InductiveInvariant, PTL

(* get_chunk: the panic "Chunk was requested without being prefetched first" is
   not reached, since a chunk that a task prefetched stays requested, in a batch,
   awaited or in the local cache until it is got. *)
THEOREM PrefetchedFirst == Spec => []NothingUnprefetched
<1>1. IInv => NothingUnprefetched
  <2> SUFFICES ASSUME IInv, NEW t \in Task, AtCall(t, "get"), Wanted(t) \notin DOMAIN task[t].local
               PROVE  Wanted(t) \in Range(task[t].requested)
      BY ZenonT(60) DEF NothingUnprefetched
  <2>1. PICK o \in TaskState : o = task[t] /\ Coherent(t, o)
        BY TaskFacts, ZenonT(60)
  <2>2. /\ o.pc = "run" /\ o.calls # <<>> /\ Head(o.calls).op = "get" /\ o.calls \in Seq(Call)
        /\ o.requested \in Seq(Key) /\ Wanted(t) = Head(o.calls).keys[1]
        BY <2>1, ZenonT(60) DEF AtCall, Wanted, TaskState
  <2>3. Covered(o.calls, Held(o)) /\ o.batch = <<>> /\ o.waiting = <<>>
        BY <2>1, <2>2, ZenonT(60) DEF Coherent
  <2>4. 1 \in DOMAIN o.calls /\ o.calls[1] = Head(o.calls)
        BY <2>2
  <2>5. Wanted(t) \in Held(o)
    <3>1. 1 .. 1 - 1 = {}
          OBVIOUS
    <3> QED BY <2>2, <2>3, <2>4, <3>1, ZenonT(60) DEF Covered
  <2>6. Wanted(t) \in Range(o.requested)
        BY <2>1, <2>3, <2>5, Elements, ZenonT(60) DEF Held
  <2> QED BY <2>1, <2>6, ZenonT(60)
<1> QED BY <1>1, InductiveInvariant, PTL

(* get_chunk, get_chunks_batched and fulfill: what a task has yielded is at any
   time the beginning of its payload, and all of it once the task is done. *)
THEOREM PayloadYielded == Spec => []YieldsPayload
<1>1. IInv => YieldsPayload
  <2> SUFFICES ASSUME IInv, NEW t \in Task
               PROVE  /\ StartsWith(Payload[t], task[t].out)
                      /\ task[t].pc = "done" => task[t].out = Payload[t]
      BY ZenonT(60) DEF YieldsPayload
  <2>1. PICK o \in TaskState : o = task[t] /\ Coherent(t, o)
        BY TaskFacts, ZenonT(60)
  <2>2. o.out \in Seq(Data) /\ o.calls \in Seq(Call)
        BY ZenonT(60) DEF TaskState
  <2>3. Iterate(Yielding, o.out, o.calls) = Payload[t] /\ (o.pc = "done" => o.calls = <<>>)
        BY <2>1, ZenonT(60) DEF Coherent
  <2>4. StartsWith(Iterate(Yielding, o.out, o.calls), o.out) /\ Iterate(Yielding, o.out, <<>>) = o.out
        BY <2>2, WalkPrefix, ZenonT(60)
  <2>5. StartsWith(Payload[t], o.out)
        BY <2>3, <2>4, ZenonT(60)
  <2>6. ASSUME o.pc = "done" PROVE o.out = Payload[t]
    <3>1. o.calls = <<>>
          BY <2>3, <2>6, ZenonT(60)
    <3>2. Iterate(Yielding, o.out, o.calls) = Iterate(Yielding, o.out, <<>>)
          BY <3>1, ZenonT(60)
    <3> QED BY <2>3, <2>4, <3>2, ZenonT(60)
  <2> QED BY <2>1, <2>5, <2>6, ZenonT(60)
<1> QED BY <1>1, InductiveInvariant, PTL

-----------------------------------------------------------------------------
(* The abstract protocol. *)

(* How what it sees changes when one task goes on. *)
LEMMA StatusStep ==
    ASSUME IInv, NEW t \in Task, NEW s, task' = [task EXCEPT ![t] = s]
    PROVE  /\ Status' = [Status EXCEPT ![t] = StatusOf(s.pc)]
           /\ WaitKeys' = [WaitKeys EXCEPT ![t] = Range(s.waiting)]
           /\ WaitOn' = [WaitOn EXCEPT ![t] = s.waitOn]
<1>1. PICK T : T = task'
      BY ZenonT(60)
<1>2. \A u \in Task : T[u] = IF u = t THEN s ELSE task[u]
      BY <1>1, ZenonT(60) DEF IInv, TypeOK
<1>3. Status' = [Status EXCEPT ![t] = StatusOf(s.pc)]
  <2>1. Status = [u \in Task |-> StatusOf(task[u].pc)]
        BY ZenonT(60) DEF Status
  <2>2. Status' = [u \in Task |-> StatusOf(T[u].pc)]
        BY <1>1 DEF Status
  <2> QED BY <1>2, <2>1, <2>2, ZenonT(60)
<1>4. WaitKeys' = [WaitKeys EXCEPT ![t] = Range(s.waiting)]
  <2>1. WaitKeys = [u \in Task |-> Range(task[u].waiting)]
        BY ZenonT(60) DEF WaitKeys
  <2>2. WaitKeys' = [u \in Task |-> Range(T[u].waiting)]
        BY <1>1 DEF WaitKeys
  <2> QED BY <1>2, <2>1, <2>2, ZenonT(60)
<1>5. WaitOn' = [WaitOn EXCEPT ![t] = s.waitOn]
  <2>1. WaitOn = [u \in Task |-> task[u].waitOn]
        BY ZenonT(60) DEF WaitOn
  <2>2. WaitOn' = [u \in Task |-> T[u].waitOn]
        BY <1>1 DEF WaitOn
  <2> QED BY <1>2, <2>1, <2>2, ZenonT(60)
<1> QED BY <1>3, <1>4, <1>5, ZenonT(60)

LEMMA StatusOnly ==
    ASSUME IInv, NEW t \in Task, NEW s, task' = [task EXCEPT ![t] = s],
           s.waiting = task[t].waiting, s.waitOn = task[t].waitOn
    PROVE  /\ Status' = [Status EXCEPT ![t] = StatusOf(s.pc)]
           /\ WaitKeys' = WaitKeys
           /\ WaitOn' = WaitOn
<1>1. /\ Status' = [Status EXCEPT ![t] = StatusOf(s.pc)]
      /\ WaitKeys' = [WaitKeys EXCEPT ![t] = Range(s.waiting)]
      /\ WaitOn' = [WaitOn EXCEPT ![t] = s.waitOn]
      BY StatusStep, ZenonT(60)
<1>2. WaitKeys = [WaitKeys EXCEPT ![t] = Range(task[t].waiting)]
      BY DEF WaitKeys
<1>3. WaitOn = [WaitOn EXCEPT ![t] = task[t].waitOn]
      BY DEF WaitOn
<1> QED BY <1>1, <1>2, <1>3, ZenonT(60)

\* What a step leaves of the cache and of pending_chunks for the protocol.
CacheStutters ==
    /\ Keys(inner'.raw_cache) = Keys(inner.raw_cache)
    /\ inner'.poisoned = inner.poisoned
    /\ Batch' = Batch
    /\ evicted' = evicted

LEMMA Stutters ==
    ASSUME IInv, NEW t \in Task, NEW s, task' = [task EXCEPT ![t] = s],
           CacheStutters,
           StatusOf(s.pc) = StatusOf(task[t].pc),
           s.waiting = task[t].waiting, s.waitOn = task[t].waitOn
    PROVE  UNCHANGED Abstract!vars
<1>1. Status' = [Status EXCEPT ![t] = StatusOf(s.pc)] /\ WaitKeys' = WaitKeys /\ WaitOn' = WaitOn
      BY StatusOnly, ZenonT(60)
<1>2. Status' = Status
  <2>1. Status = [Status EXCEPT ![t] = StatusOf(task[t].pc)]
        BY ZenonT(60) DEF Status
  <2> QED BY <1>1, <2>1, ZenonT(60)
<1> QED BY <1>1, <1>2, ZenonT(60) DEF Abstract!vars, CacheStutters

LEMMA CallPrefetchStutters ==
    ASSUME IInv, NEW t \in Task, CallPrefetch(t)
    PROVE  UNCHANGED Abstract!vars
<1>1. PICK o \in TaskState : o = task[t]
      BY TaskFacts, ZenonT(60)
<1>2. /\ o.calls # <<>> /\ o.calls \in Seq(Call) /\ Head(o.calls).op = "prefetch"
      BY <1>1, ZenonT(60) DEF CallPrefetch, AtCall, TaskState
<1>3. Head(o.calls).keys \in Seq(Key)
      BY <1>2, FirstCall, ZenonT(60) DEF Call
<1>4. PICK q \in Seq(Key) : RequestAll(o, Head(o.calls).keys) = [o EXCEPT !.requested = q]
      BY <1>3, RequestAllKeeps, ZenonT(60) DEF Prefetched
<1>5. PICK s : s = [[o EXCEPT !.requested = q] EXCEPT !.calls = Tail(o.calls)]
      BY ZenonT(60)
<1>6. task' = [task EXCEPT ![t] = s]
      BY <1>1, <1>4, <1>5, ZenonT(60) DEF CallPrefetch
<1>7. s.pc = o.pc /\ s.waiting = o.waiting /\ s.waitOn = o.waitOn
      BY <1>5, ZenonT(60) DEF TaskState
<1>8. CacheStutters
      BY ZenonT(60) DEF CallPrefetch, CacheStutters, Batch
<1> QED BY <1>1, <1>6, <1>7, <1>8, Stutters, ZenonT(60)

LEMMA GetLocalStutters ==
    ASSUME IInv, NEW t \in Task, GetLocal(t)
    PROVE  UNCHANGED Abstract!vars
<1>1. PICK s : /\ task' = [task EXCEPT ![t] = s]
               /\ s.pc = task[t].pc /\ s.waiting = task[t].waiting /\ s.waitOn = task[t].waitOn
  <2>1. PICK o \in TaskState : o = task[t]
        BY TaskFacts, ZenonT(60)
  <2>2. PICK s : s = [o EXCEPT !.calls = Tail(o.calls), !.out = o.out \o Yields(t)]
        BY ZenonT(60)
  <2>3. task' = [task EXCEPT ![t] = s]
        BY <2>1, <2>2, ZenonT(60) DEF GetLocal, IInv, TypeOK, TaskState
  <2>4. s.pc = o.pc /\ s.waiting = o.waiting /\ s.waitOn = o.waitOn
        BY <2>2, ZenonT(60) DEF TaskState
  <2> QED BY <2>1, <2>3, <2>4, ZenonT(60)
<1>2. CacheStutters
      BY ZenonT(60) DEF GetLocal, CacheStutters, Batch
<1> QED BY <1>1, <1>2, Stutters, ZenonT(60)

LEMMA ProvideStutters ==
    ASSUME IInv, NEW t \in Task, Provide(t)
    PROVE  UNCHANGED Abstract!vars
<1>1. PICK o \in TaskState : o = task[t] /\ o.pc = "fetching"
      BY TaskFacts, ZenonT(60) DEF Provide
<1>2. PICK r : task' = [task EXCEPT ![t].pc = "replied", ![t].response = r]
      BY ZenonT(60) DEF Provide
<1>3. PICK s : s = [o EXCEPT !.pc = "replied", !.response = r]
      BY ZenonT(60)
<1>4. task' = [task EXCEPT ![t] = s]
      BY <1>1, <1>2, <1>3, ZenonT(60) DEF IInv, TypeOK, TaskState
<1>5. s.pc = "replied" /\ s.waiting = o.waiting /\ s.waitOn = o.waitOn
      BY <1>3, ZenonT(60) DEF TaskState
<1>6. StatusOf(s.pc) = StatusOf(o.pc)
      BY <1>1, <1>5, ZenonT(60) DEF StatusOf
<1>7. CacheStutters
      BY ZenonT(60) DEF Provide, CacheStutters, Batch
<1> QED BY <1>1, <1>4, <1>5, <1>6, <1>7, Stutters, ZenonT(60)

(* A batch is claimed. *)
LEMMA StartBatchClaims ==
    ASSUME IInv, NEW t \in Task, StartBatch(t)
    PROVE  Abstract!Next
<1>1. PICK o \in TaskState : o = task[t] /\ Coherent(t, o)
      BY TaskFacts
<1>2. o.pc = "run" /\ o.batch = <<>> /\ o.waiting = <<>> /\ o.waitOn = {} /\ ~inner.poisoned
      BY <1>1, ZenonT(60) DEF StartBatch, AtFetch, AtCall, Coherent
<1>3. PICK r \in Acc : r = Scan(t) /\ ScanOf(t, r)
      BY ScanKeeps
<1>4. /\ r.batch # <<>>
      /\ inner' = [inner EXCEPT !.raw_cache = r.raw_cache,
                                !.pending_chunks = Extend(@, [k \in Range(r.batch) |-> t])]
      /\ task' = [task EXCEPT ![t].pc = "fetching", ![t].local = r.local,
                              ![t].requested = r.keep, ![t].batch = r.batch]
      BY <1>3, ZenonT(60) DEF StartBatch
<1>5. /\ inner'.raw_cache = r.raw_cache /\ inner'.poisoned = inner.poisoned
      /\ inner'.pending_chunks = Extend(inner.pending_chunks, [k \in Range(r.batch) |-> t])
      BY <1>4, ZenonT(60) DEF IInv, TypeOK, ChunkCacheInner
<1>6. PICK B \in SUBSET Key : B = Range(r.batch) /\ B # {}
  <2>1. r.batch \in Seq(Key) /\ r.batch # <<>>
        BY <1>4, AccFields, ZenonT(60)
  <2>2. r.batch[1] \in Range(r.batch)
        BY <2>1 DEF Range
  <2>3. Range(r.batch) \in SUBSET Key
        BY <2>1, Elements, ZenonT(60)
  <2> QED BY <2>2, <2>3, ZenonT(60)
<1>7. Batch[t] = {}
      BY <1>1, <1>2, Elements, ZenonT(60) DEF IInv, Registered
<1>8. Batch' = [Batch EXCEPT ![t] = B]
      BY <1>3, <1>5, <1>6, <1>7, BatchEnters, ZenonT(60) DEF ScanOf
<1>9. PICK s : s = [o EXCEPT !.pc = "fetching", !.local = r.local, !.requested = r.keep, !.batch = r.batch]
      OBVIOUS
<1>10. task' = [task EXCEPT ![t] = s]
      BY <1>1, <1>4, <1>9, ZenonT(60) DEF IInv, TypeOK, TaskState
<1>11. s.pc = "fetching" /\ s.waiting = o.waiting /\ s.waitOn = o.waitOn
      BY <1>9, ZenonT(60) DEF TaskState
<1>12. /\ Status' = [Status EXCEPT ![t] = "fetching"]
       /\ WaitKeys' = WaitKeys
       /\ WaitOn' = WaitOn
  <2>1. Status' = [Status EXCEPT ![t] = StatusOf(s.pc)] /\ WaitKeys' = WaitKeys /\ WaitOn' = WaitOn
        BY <1>1, <1>10, <1>11, StatusOnly, ZenonT(60)
  <2>2. StatusOf(s.pc) = "fetching"
        BY <1>11, ZenonT(60) DEF StatusOf
  <2> QED BY <2>1, <2>2, ZenonT(60)
<1>13. Status[t] = "idle"
      BY <1>1, <1>2, ZenonT(60) DEF Status, StatusOf
<1>14. B \cap (Keys(inner.raw_cache) \cup Abstract!Pending) = {}
  <2>1. Abstract!Pending \subseteq DOMAIN inner.pending_chunks
        BY ZenonT(60) DEF Abstract!Pending, Batch
  <2> QED BY <1>3, <1>6, <2>1, ZenonT(60) DEF ScanOf
<1>15. Keys(inner'.raw_cache) = Keys(inner.raw_cache) /\ evicted' = evicted
      BY <1>3, <1>5, ZenonT(60) DEF ScanOf, StartBatch
<1>16. Abstract!Claim(t, B)
      BY <1>2, <1>5, <1>6, <1>8, <1>12, <1>13, <1>14, <1>15, ZenonT(60) DEF Abstract!Claim, Abstract!Missing
<1> QED BY <1>16, ZenonT(60) DEF Abstract!Next

(* A task waits, or goes on at once if nothing is left to wait for. *)
LEMMA NoBatchJoins ==
    ASSUME IInv, NEW t \in Task, NoBatch(t)
    PROVE  Abstract!Next \/ UNCHANGED Abstract!vars
<1>1. PICK o \in TaskState : o = task[t] /\ Coherent(t, o)
      BY TaskFacts
<1>2. o.pc = "run" /\ o.batch = <<>> /\ o.waiting = <<>> /\ o.waitOn = {} /\ ~inner.poisoned
      BY <1>1, ZenonT(60) DEF NoBatch, AtFetch, AtCall, Coherent
<1>3. PICK r \in Acc : r = Scan(t) /\ ScanOf(t, r)
      BY ScanKeeps
<1>4. PICK W : W = {inner.pending_chunks[k] : k \in Range(r.keep)}
      BY ZenonT(60)
<1>5. PICK pc : pc = IF r.keep = <<>> THEN "run" ELSE "waiting"
      OBVIOUS
<1>6. /\ r.batch = <<>>
      /\ inner' = [inner EXCEPT !.raw_cache = r.raw_cache]
      /\ task' = [task EXCEPT ![t].pc = pc, ![t].local = r.local, ![t].requested = <<>>,
                              ![t].waiting = r.keep, ![t].waitOn = W]
      BY <1>3, <1>4, <1>5 DEF NoBatch
<1>7. /\ inner'.raw_cache = r.raw_cache /\ inner'.poisoned = inner.poisoned
      /\ inner'.pending_chunks = inner.pending_chunks
      BY <1>6, ZenonT(60) DEF IInv, TypeOK, ChunkCacheInner
<1>8. CacheStutters
      BY <1>3, <1>7, ZenonT(60) DEF CacheStutters, ScanOf, NoBatch, Batch
<1>9. PICK s : s = [o EXCEPT !.pc = pc, !.local = r.local, !.requested = <<>>,
                             !.waiting = r.keep, !.waitOn = W]
      BY ZenonT(60)
<1>10. task' = [task EXCEPT ![t] = s]
      BY <1>1, <1>6, <1>9, ZenonT(60) DEF IInv, TypeOK, TaskState
<1>11. s.pc = pc /\ s.waiting = r.keep /\ s.waitOn = W
      BY <1>9, ZenonT(60) DEF TaskState
<1>12. CASE r.keep = <<>>
  <2>1. s.pc = o.pc /\ s.waiting = o.waiting /\ s.waitOn = o.waitOn
        BY <1>2, <1>4, <1>5, <1>11, <1>12, Elements, ZenonT(60)
  <2> QED BY <1>1, <1>8, <1>10, <2>1, Stutters, ZenonT(60)
<1>13. CASE r.keep # <<>>
  <2>1. PICK K \in SUBSET Key : K = Range(r.keep) /\ K # {}
    <3>1. r.keep \in Seq(Key)
          BY AccFields, ZenonT(60)
    <3>2. r.keep[1] \in Range(r.keep)
          BY <1>13, <3>1 DEF Range
    <3>3. Range(r.keep) \in SUBSET Key
          BY <3>1, Elements, ZenonT(60)
    <3> QED BY <3>2, <3>3, ZenonT(60)
  <2>2. /\ Status' = [Status EXCEPT ![t] = "waiting"]
        /\ WaitKeys' = [WaitKeys EXCEPT ![t] = K]
        /\ WaitOn' = [WaitOn EXCEPT ![t] = W]
    <3>1. /\ Status' = [Status EXCEPT ![t] = StatusOf(s.pc)]
          /\ WaitKeys' = [WaitKeys EXCEPT ![t] = Range(s.waiting)]
          /\ WaitOn' = [WaitOn EXCEPT ![t] = s.waitOn]
          BY <1>10, StatusStep, ZenonT(60)
    <3>2. StatusOf(s.pc) = "waiting"
          BY <1>5, <1>11, <1>13, ZenonT(60) DEF StatusOf
    <3> QED BY <1>11, <2>1, <3>1, <3>2, ZenonT(60)
  <2>3. K \subseteq DOMAIN inner.pending_chunks
        BY <1>3, <1>6, <2>1, ZenonT(60) DEF ScanOf
  <2>4. \A k \in DOMAIN inner.pending_chunks : inner.pending_chunks[k] \in Task
        BY DEF IInv, TypeOK, ChunkCacheInner, Maps
  <2>5. K \subseteq Abstract!Pending
        BY <2>3, <2>4 DEF Abstract!Pending, Batch
  <2>6. W = {u \in Task : K \cap Batch[u] # {}}
        BY <1>4, <2>1, <2>3, <2>4, ZenonT(60) DEF Batch
  <2>7. Status[t] = "idle"
        BY <1>1, <1>2, ZenonT(60) DEF Status, StatusOf
  <2>8. Abstract!Join(t, K)
        BY <1>2, <1>8, <2>1, <2>2, <2>5, <2>6, <2>7, ZenonT(60) DEF Abstract!Join, Abstract!MayJoin, CacheStutters
  <2> QED BY <2>8, ZenonT(60) DEF Abstract!Next
<1> QED BY <1>12, <1>13, ZenonT(60)

(* A batch is fulfilled, and the insertion evicts what it evicts. *)
LEMMA FulfillFulfills ==
    ASSUME IInv, NEW t \in Task, Fulfill(t)
    PROVE  Abstract!Next
<1>1. PICK o \in TaskState : o = task[t] /\ Coherent(t, o)
      BY TaskFacts
<1>2. o.pc = "replied" /\ o.waitOn = {} /\ ~inner.poisoned
      BY <1>1, ZenonT(60) DEF Fulfill, Coherent
<1>3. PICK s : s = [o EXCEPT !.pc = "run", !.local = Extend(@, Received(o.batch, o.response)),
                             !.batch = <<>>, !.response = <<>>]
      OBVIOUS
<1>4. s.pc = "run" /\ s.waiting = o.waiting /\ s.waitOn = o.waitOn
      BY <1>3, ZenonT(60) DEF TaskState
<1>5. task' = [u \in Task |-> IF u = t THEN s ELSE Closed(t, u)]
      BY <1>1, <1>3, ZenonT(60) DEF Fulfill
<1>6. ASSUME NEW u \in Task
      PROVE  /\ Closed(t, u).pc = task[u].pc /\ Closed(t, u).waiting = task[u].waiting
             /\ Closed(t, u).waitOn = task[u].waitOn \ {t}
  <2>1. task[u] \in TaskState
        BY TaskFacts, ZenonT(60)
  <2> QED BY <2>1, ZenonT(60) DEF Closed, TaskState
<1>7. PICK T : T = task'
      BY ZenonT(60)
<1>8. \A u \in Task :
          /\ T[u].pc = IF u = t THEN "run" ELSE task[u].pc
          /\ T[u].waiting = task[u].waiting
          /\ T[u].waitOn = task[u].waitOn \ {t}
      BY <1>1, <1>2, <1>4, <1>5, <1>6, <1>7, ZenonT(60)
<1>9. Status' = [Status EXCEPT ![t] = "idle"]
  <2>1. StatusOf("run") = "idle"
        BY ZenonT(60) DEF StatusOf
  <2>2. Status = [u \in Task |-> StatusOf(task[u].pc)]
        BY ZenonT(60) DEF Status
  <2>3. Status' = [u \in Task |-> StatusOf(T[u].pc)]
        BY <1>7, ZenonT(60) DEF Status
  <2> QED BY <1>8, <2>1, <2>2, <2>3, ZenonT(60)
<1>10. WaitKeys' = WaitKeys
  <2>1. WaitKeys = [u \in Task |-> Range(task[u].waiting)]
        BY ZenonT(60) DEF WaitKeys
  <2>2. WaitKeys' = [u \in Task |-> Range(T[u].waiting)]
        BY <1>7, ZenonT(60) DEF WaitKeys
  <2> QED BY <1>8, <2>1, <2>2, ZenonT(60)
<1>11. WaitOn' = [u \in Task |-> WaitOn[u] \ {t}]
  <2>1. WaitOn = [u \in Task |-> task[u].waitOn]
        BY ZenonT(60) DEF WaitOn
  <2>2. WaitOn' = [u \in Task |-> T[u].waitOn]
        BY <1>7, ZenonT(60) DEF WaitOn
  <2> QED BY <1>8, <2>1, <2>2, ZenonT(60)
<1>12. Status[t] = "fetching"
      BY <1>1, <1>2, ZenonT(60) DEF Status, StatusOf
<1>13. PICK E : E = (Keys(inner.raw_cache) \cup Batch[t]) \ Keys(inner'.raw_cache)
      BY ZenonT(60)
<1>14. E \in SUBSET Key
  <2>1. o.batch \in Seq(Key)
        BY ZenonT(60) DEF TaskState
  <2>2. Batch[t] \subseteq Key
        BY <1>1, <2>1, FulfillFacts, Elements
  <2>3. Keys(inner.raw_cache) \subseteq Key
        BY SoundKeys, ZenonT(60) DEF IInv
  <2> QED BY <1>13, <2>2, <2>3, ZenonT(60)
<1>15. Abstract!Fulfill(t, E)
  <2>1. Keys(inner'.raw_cache) = (Keys(inner.raw_cache) \cup Batch[t]) \ E
        BY <1>13, FulfillFacts, ZenonT(60)
  <2>2. /\ evicted' = evicted \cup E /\ inner'.poisoned = inner.poisoned
        /\ Batch' = [Batch EXCEPT ![t] = {}]
        BY <1>13, FulfillFacts, ZenonT(60)
  <2> QED BY <1>2, <1>9, <1>10, <1>11, <1>12, <1>13, <2>1, <2>2, ZenonT(60)
          DEF Abstract!Fulfill, Abstract!Inserted
<1> QED BY <1>14, <1>15, ZenonT(60) DEF Abstract!Next

(* A task fails: its batch stays registered, whoever awaits it goes on waiting. *)
LEMMA FailureLeaves ==
    ASSUME IInv, NEW t \in Task, task[t].pc \in {"run", "fetching", "replied"},
           task' = [task EXCEPT ![t].pc = "failed"], inner' = inner, evicted' = evicted
    PROVE  Abstract!Next
<1>1. PICK o \in TaskState : o = task[t]
      BY TaskFacts, ZenonT(60)
<1>2. PICK s : s = [o EXCEPT !.pc = "failed"]
      BY ZenonT(60)
<1>3. task' = [task EXCEPT ![t] = s]
      BY <1>1, <1>2, ZenonT(60) DEF IInv, TypeOK
<1>4. s.pc = "failed" /\ s.waiting = o.waiting /\ s.waitOn = o.waitOn
      BY <1>2, ZenonT(60) DEF TaskState
<1>5. /\ Status' = [Status EXCEPT ![t] = "gone"]
      /\ WaitKeys' = WaitKeys
      /\ WaitOn' = WaitOn
  <2>1. Status' = [Status EXCEPT ![t] = StatusOf(s.pc)] /\ WaitKeys' = WaitKeys /\ WaitOn' = WaitOn
        BY <1>1, <1>3, <1>4, StatusOnly, ZenonT(60)
  <2>2. StatusOf(s.pc) = "gone"
        BY <1>4, ZenonT(60) DEF StatusOf
  <2> QED BY <2>1, <2>2, ZenonT(60)
<1>6. Batch' = Batch
      BY DEF Batch
<1>7. CASE o.pc = "run"
  <2>1. Status[t] = "idle"
        BY <1>1, <1>7, ZenonT(60) DEF Status, StatusOf
  <2>2. Abstract!Leave(t)
        BY <1>5, <1>6, <2>1, ZenonT(60) DEF Abstract!Leave
  <2> QED BY <2>2, ZenonT(60) DEF Abstract!Next
<1>8. CASE o.pc \in {"fetching", "replied"}
  <2>1. Status[t] = "fetching"
        BY <1>1, <1>8, ZenonT(60) DEF Status, StatusOf
  <2>2. Abstract!Abandon(t)
        BY <1>5, <1>6, <2>1, ZenonT(60) DEF Abstract!Abandon
  <2> QED BY <2>2, ZenonT(60) DEF Abstract!Next
<1> QED BY <1>1, <1>7, <1>8, ZenonT(60)

LEMMA FinishLeaves ==
    ASSUME IInv, NEW t \in Task, Finish(t)
    PROVE  Abstract!Next
<1>1. PICK o \in TaskState : o = task[t] /\ o.pc = "run"
      BY TaskFacts, ZenonT(60) DEF Finish, AtEnd
<1>2. PICK s : s = [o EXCEPT !.pc = "done"]
      BY ZenonT(60)
<1>3. task' = [task EXCEPT ![t] = s]
      BY <1>1, <1>2, ZenonT(60) DEF Finish, IInv, TypeOK
<1>4. s.pc = "done" /\ s.waiting = o.waiting /\ s.waitOn = o.waitOn
      BY <1>2, ZenonT(60) DEF TaskState
<1>5. /\ Status' = [Status EXCEPT ![t] = "gone"]
      /\ WaitKeys' = WaitKeys
      /\ WaitOn' = WaitOn
  <2>1. Status' = [Status EXCEPT ![t] = StatusOf(s.pc)] /\ WaitKeys' = WaitKeys /\ WaitOn' = WaitOn
        BY <1>1, <1>3, <1>4, StatusOnly, ZenonT(60)
  <2>2. StatusOf(s.pc) = "gone"
        BY <1>4, ZenonT(60) DEF StatusOf
  <2> QED BY <2>1, <2>2, ZenonT(60)
<1>6. /\ inner'.raw_cache = inner.raw_cache /\ inner'.poisoned = inner.poisoned
      /\ inner'.pending_chunks = inner.pending_chunks
      BY ZenonT(60) DEF Finish, IInv, TypeOK, ChunkCacheInner
<1>7. Batch' = Batch
      BY <1>6, ZenonT(60) DEF Batch
<1>8. Status[t] = "idle"
      BY <1>1, ZenonT(60) DEF Status, StatusOf
<1>9. Abstract!Leave(t)
      BY <1>5, <1>6, <1>7, <1>8, ZenonT(60) DEF Abstract!Leave, Finish
<1> QED BY <1>9, ZenonT(60) DEF Abstract!Next

(* A woken task collects its chunks, or panics under the lock. *)
LEMMA CollectCollects ==
    ASSUME IInv, NEW t \in Task, Collect(t)
    PROVE  Abstract!Next
<1>1. PICK o \in TaskState : o = task[t] /\ o.pc = "waiting" /\ o.waitOn = {}
      BY TaskFacts, ZenonT(60) DEF Collect, Awake
<1>2. o.waiting \in Seq(Key) /\ ~inner.poisoned /\ evicted' = evicted
      BY ZenonT(60) DEF TaskState, Collect
<1>3. Status[t] = "waiting" /\ WaitOn[t] = {} /\ WaitKeys[t] = Range(o.waiting)
      BY <1>1, ZenonT(60) DEF Status, StatusOf, WaitOn, WaitKeys
<1>4. CASE Range(o.waiting) \subseteq Keys(inner.raw_cache)
  <2>1. PICK m : m = Extend(o.local, [k \in Range(o.waiting) |-> Lookup(inner.raw_cache, k)])
        BY ZenonT(60)
  <2>2. /\ inner' = [inner EXCEPT !.raw_cache = GetAll(inner.raw_cache, o.waiting)]
        /\ task' = [task EXCEPT ![t].pc = "run", ![t].waiting = <<>>,
                        ![t].local = Extend(@, [k \in Range(o.waiting) |-> Lookup(inner.raw_cache, k)])]
        BY <1>1, <1>4, ZenonT(60) DEF Collect
  <2>3. PICK s : s = [o EXCEPT !.pc = "run", !.waiting = <<>>, !.local = m]
        BY ZenonT(60)
  <2>4. task' = [task EXCEPT ![t] = s]
        BY <1>1, <2>1, <2>2, <2>3, ZenonT(60) DEF IInv, TypeOK, TaskState
  <2>5. s.pc = "run" /\ s.waiting = <<>> /\ s.waitOn = {}
        BY <1>1, <2>3, ZenonT(60) DEF TaskState
  <2>6. /\ Status' = [Status EXCEPT ![t] = "idle"]
        /\ WaitKeys' = [WaitKeys EXCEPT ![t] = {}]
        /\ WaitOn' = [WaitOn EXCEPT ![t] = {}]
    <3>1. /\ Status' = [Status EXCEPT ![t] = StatusOf(s.pc)]
          /\ WaitKeys' = [WaitKeys EXCEPT ![t] = Range(s.waiting)]
          /\ WaitOn' = [WaitOn EXCEPT ![t] = s.waitOn]
          BY <2>4, StatusStep, ZenonT(60)
    <3>2. StatusOf(s.pc) = "idle" /\ Range(s.waiting) = {}
          BY <2>5, Elements, ZenonT(60) DEF StatusOf
    <3> QED BY <2>5, <3>1, <3>2, ZenonT(60)
  <2>7. /\ inner'.raw_cache = GetAll(inner.raw_cache, o.waiting) /\ inner'.poisoned = inner.poisoned
        /\ inner'.pending_chunks = inner.pending_chunks
        BY <2>2, ZenonT(60) DEF IInv, TypeOK, ChunkCacheInner
  <2>8. Keys(inner'.raw_cache) = Keys(inner.raw_cache)
        BY <1>2, <2>7, GetAllKeeps, ZenonT(60) DEF IInv
  <2>9. Batch' = Batch
        BY <2>7, ZenonT(60) DEF Batch
  <2>10. Abstract!Collect(t)
        BY <1>2, <1>3, <1>4, <2>6, <2>7, <2>8, <2>9, ZenonT(60) DEF Abstract!Collect, Abstract!Awake
  <2> QED BY <2>10, ZenonT(60) DEF Abstract!Next
<1>5. CASE ~(Range(o.waiting) \subseteq Keys(inner.raw_cache))
  <2>1. /\ inner' = [inner EXCEPT !.poisoned = TRUE]
        /\ task' = [task EXCEPT ![t].pc = "failed", ![t].waiting = <<>>]
        BY <1>1, <1>5, ZenonT(60) DEF Collect
  <2>2. PICK s \in TaskState :
            /\ s = [o EXCEPT !.pc = "failed", !.waiting = <<>>]
            /\ s.pc = "failed" /\ s.waiting = <<>> /\ s.waitOn = o.waitOn
        BY FailedState, ZenonT(60)
  <2>3. task' = [task EXCEPT ![t] = s]
        BY <1>1, <2>1, <2>2, ZenonT(60) DEF IInv, TypeOK, TaskState
  <2>4. /\ Status' = [Status EXCEPT ![t] = "gone"]
        /\ WaitKeys' = [WaitKeys EXCEPT ![t] = {}]
        /\ WaitOn' = [WaitOn EXCEPT ![t] = {}]
    <3>1. /\ Status' = [Status EXCEPT ![t] = StatusOf(s.pc)]
          /\ WaitKeys' = [WaitKeys EXCEPT ![t] = Range(s.waiting)]
          /\ WaitOn' = [WaitOn EXCEPT ![t] = s.waitOn]
          BY <2>3, StatusStep, ZenonT(60)
    <3>2. StatusOf(s.pc) = "gone" /\ Range(s.waiting) = {}
          BY <2>2, Elements, ZenonT(60) DEF StatusOf
    <3> QED BY <1>1, <2>2, <3>1, <3>2, ZenonT(60)
  <2>5. /\ inner'.raw_cache = inner.raw_cache /\ inner'.poisoned = TRUE
        /\ inner'.pending_chunks = inner.pending_chunks
        BY <2>1, ZenonT(60) DEF IInv, TypeOK, ChunkCacheInner
  <2>6. Batch' = Batch
        BY <2>5, ZenonT(60) DEF Batch
  <2>7. Abstract!Collect(t)
        BY <1>2, <1>3, <1>5, <2>4, <2>5, <2>6, ZenonT(60) DEF Abstract!Collect, Abstract!Awake
  <2> QED BY <2>7, ZenonT(60) DEF Abstract!Next
<1> QED BY <1>4, <1>5, ZenonT(60)

LEMMA PanicPanics ==
    ASSUME IInv, NEW t \in Task, PanicOnPoison(t)
    PROVE  Abstract!Next
<1>1. PICK o \in TaskState : o = task[t] /\ Coherent(t, o)
      BY TaskFacts
<1>2. o.pc \in {"run", "replied", "waiting"} /\ o.waitOn = {}
      BY <1>1, ZenonT(60) DEF PanicOnPoison, AtFetch, AtCall, Awake, AtEnd, Coherent
<1>3. PICK s \in TaskState :
          /\ s = [o EXCEPT !.pc = "failed", !.waiting = <<>>]
          /\ s.pc = "failed" /\ s.waiting = <<>> /\ s.waitOn = o.waitOn
      BY FailedState, ZenonT(60)
<1>4. task' = [task EXCEPT ![t] = s]
      BY <1>1, <1>3, ZenonT(60) DEF PanicOnPoison, IInv, TypeOK, TaskState
<1>5. /\ Status' = [Status EXCEPT ![t] = "gone"]
      /\ WaitKeys' = [WaitKeys EXCEPT ![t] = {}]
      /\ WaitOn' = WaitOn
  <2>1. /\ Status' = [Status EXCEPT ![t] = StatusOf(s.pc)]
        /\ WaitKeys' = [WaitKeys EXCEPT ![t] = Range(s.waiting)]
        /\ WaitOn' = [WaitOn EXCEPT ![t] = s.waitOn]
        BY <1>4, StatusStep, ZenonT(60)
  <2>2. StatusOf(s.pc) = "gone" /\ Range(s.waiting) = {}
        BY <1>3, Elements DEF StatusOf
  <2>3. WaitOn = [WaitOn EXCEPT ![t] = o.waitOn]
        BY <1>1, ZenonT(60) DEF WaitOn
  <2> QED BY <1>3, <2>1, <2>2, <2>3, ZenonT(60)
<1>6. Status[t] # "gone" /\ WaitOn[t] = {}
      BY <1>1, <1>2, ZenonT(60) DEF Status, StatusOf, WaitOn
<1>7. Batch' = Batch /\ inner' = inner /\ evicted' = evicted /\ inner.poisoned
      BY ZenonT(60) DEF PanicOnPoison, Batch
<1>8. Abstract!PanicOnPoison(t)
      BY <1>5, <1>6, <1>7, ZenonT(60) DEF Abstract!PanicOnPoison
<1> QED BY <1>8, ZenonT(60) DEF Abstract!Next

LEMMA InitRefines == Init => Abstract!Init
<1> SUFFICES ASSUME Init PROVE Abstract!Init
    OBVIOUS
<1>1. IInv
      BY InitEstablishes, ZenonT(60)
<1>2. Keys(inner.raw_cache) \in SUBSET Key
      BY <1>1, SoundKeys, ZenonT(60) DEF IInv
<1>3. inner.pending_chunks = <<>> /\ inner.poisoned = FALSE
      BY DEF Init
<1>4. Batch = [t \in Task |-> {}]
  <2>1. DOMAIN <<>> = {}
        OBVIOUS
  <2> QED BY <1>3, <2>1, ZenonT(60) DEF Batch
<1>5. /\ Status = [t \in Task |-> "idle"]
      /\ WaitKeys = [t \in Task |-> {}]
      /\ WaitOn = [t \in Task |-> {}]
  <2>1. \A t \in Task : task[t].pc = "run" /\ task[t].waiting = <<>> /\ task[t].waitOn = {}
        BY ZenonT(60) DEF Init
  <2>2. StatusOf("run") = "idle" /\ Range(<<>>) = {}
        BY Elements, ZenonT(60) DEF StatusOf
  <2> QED BY <2>1, <2>2, ZenonT(60) DEF Status, WaitKeys, WaitOn
<1> QED BY <1>2, <1>3, <1>4, <1>5, ZenonT(60) DEF Abstract!Init, Init

LEMMA NextRefines == IInv /\ [Next]_vars => [Abstract!Next]_(Abstract!vars)
<1> SUFFICES ASSUME IInv, [Next]_vars PROVE Abstract!Next \/ UNCHANGED Abstract!vars
    BY ZenonT(60)
<1>1. CASE UNCHANGED vars
      BY <1>1, ZenonT(60) DEF vars, Abstract!vars, Status, Batch, WaitKeys, WaitOn
<1>2. CASE Next
  <2>1. PICK t \in Task : Step(t) \/ Provide(t) \/ Break(t)
        BY <1>2, ZenonT(60) DEF Next
  <2>2. CASE CallPrefetch(t)
        BY <2>2, CallPrefetchStutters, ZenonT(60)
  <2>3. CASE GetLocal(t)
        BY <2>3, GetLocalStutters, ZenonT(60)
  <2>4. CASE StartBatch(t)
        BY <2>4, StartBatchClaims, ZenonT(60)
  <2>5. CASE NoBatch(t)
        BY <2>5, NoBatchJoins, ZenonT(60)
  <2>6. CASE Fulfill(t)
        BY <2>6, FulfillFulfills, ZenonT(60)
  <2>7. CASE Reject(t)
        BY <2>7, FailureLeaves, ZenonT(60) DEF Reject
  <2>8. CASE Collect(t)
        BY <2>8, CollectCollects
  <2>9. CASE PanicOnPoison(t)
        BY <2>9, PanicPanics
  <2>10. CASE Finish(t)
        BY <2>10, FinishLeaves
  <2>11. CASE Provide(t)
        BY <2>11, ProvideStutters, ZenonT(60)
  <2>12. CASE Break(t)
        BY <2>12, FailureLeaves, ZenonT(60) DEF Break
  <2> QED BY <2>1, <2>2, <2>3, <2>4, <2>5, <2>6, <2>7, <2>8, <2>9, <2>10, <2>11, <2>12, ZenonT(60) DEF Step
<1> QED BY <1>1, <1>2, ZenonT(60)

(* get_chunks_batched and fulfill, with the LRU cache, the batches and the
   faults, take only steps of the abstract protocol: what SingleFlightProofs
   proves of it holds of the tasks too. *)
THEOREM Refinement == Spec => ImplementsSingleFlight
<1>1. Spec => Abstract!Spec
      BY InductiveInvariant, InitRefines, NextRefines, PTL DEF Spec, Abstract!Spec
<1> QED BY <1>1, ZenonT(60) DEF ImplementsSingleFlight
=============================================================================
