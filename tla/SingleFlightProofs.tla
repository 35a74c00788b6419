------------------------- MODULE SingleFlightProofs -------------------------
(***************************************************************************)
(* Proofs, for any set of tasks and of keys, of the promises SingleFlight  *)
(* makes.  IInv is the inductive invariant: the promises together with     *)
(* what a task may hold in each status.                                    *)
(***************************************************************************)
EXTENDS SingleFlight, TLAPS

\* A task holds a batch only while it fetches or after it gave up, and awaits
\* chunks only while it waits; in particular a waiting task holds no batch.
HoldingMatchesStatus ==
    \A t \in Task :
        /\ batch[t] # {} => status[t] \in {"fetching", "gone"}
        /\ waitKeys[t] # {} => status[t] = "waiting"
        /\ waitOn[t] # {} => status[t] = "waiting"

IInv ==
    /\ TypeOK
    /\ HoldingMatchesStatus
    /\ OneFetchPerChunk
    /\ PendingNotCached
    /\ NoWaitCycle
    /\ WaitedChunkAccounted
    /\ PanicNeedsEviction

-----------------------------------------------------------------------------
\* Claim: the keys of the new batch are neither cached nor pending, so the
\* batches stay disjoint from each other and from the cache
\* (get_chunks_batched returning a batch).
LEMMA ClaimPreserves ==
    ASSUME IInv, NEW t \in Task, NEW B \in SUBSET Key, Claim(t, B)
    PROVE  IInv'
<1> USE DEF IInv
<1>1. TypeOK'
  BY DEF TypeOK, Claim
<1>2. \A u \in Task : batch'[u] = IF u = t THEN B ELSE batch[u]
  BY DEF TypeOK, Claim
<1>3. \A u \in Task : status'[u] = IF u = t THEN "fetching" ELSE status[u]
  BY DEF TypeOK, Claim
<1>4. batch[t] = {} /\ waitKeys[t] = {} /\ waitOn[t] = {}
  BY DEF Claim, HoldingMatchesStatus
<1>5. HoldingMatchesStatus'
  BY <1>2, <1>3, <1>4 DEF HoldingMatchesStatus, Claim
<1>6. \A u \in Task : B \cap batch[u] = {}
  BY DEF Claim, Missing, Pending
<1>7. OneFetchPerChunk'
  BY <1>2, <1>6 DEF OneFetchPerChunk
<1>8. PendingNotCached'
  BY <1>2 DEF PendingNotCached, Pending, Claim, Missing
<1>9. NoWaitCycle'
  BY <1>2, <1>4 DEF NoWaitCycle, Claim, TypeOK
<1>10. WaitedChunkAccounted'
  BY <1>2, <1>4 DEF WaitedChunkAccounted, Claim, TypeOK
<1>11. PanicNeedsEviction'
  BY DEF PanicNeedsEviction, Claim
<1> QED
  BY <1>1, <1>5, <1>7, <1>8, <1>9, <1>10, <1>11

\* Join: a task that starts to wait awaits exactly the holders of the chunks
\* it needs, and those hold a batch, so they wait for nobody
\* (get_chunks_batched without a batch).
LEMMA JoinPreserves ==
    ASSUME IInv, NEW t \in Task, NEW W \in SUBSET Key, Join(t, W)
    PROVE  IInv'
<1> USE DEF IInv
<1>1. TypeOK'
  BY DEF TypeOK, Join
<1>2. \A u \in Task : waitKeys'[u] = IF u = t THEN W ELSE waitKeys[u]
  BY DEF TypeOK, Join
<1>3. \A u \in Task : waitOn'[u] = IF u = t THEN {v \in Task : W \cap batch[v] # {}}
                                           ELSE waitOn[u]
  BY DEF TypeOK, Join
<1>4. \A u \in Task : status'[u] = IF u = t THEN "waiting" ELSE status[u]
  BY DEF TypeOK, Join
<1>5. batch[t] = {} /\ batch' = batch
  BY DEF Join, MayJoin, HoldingMatchesStatus
<1>6. HoldingMatchesStatus'
  BY <1>2, <1>3, <1>4, <1>5 DEF HoldingMatchesStatus
<1>7. OneFetchPerChunk' /\ PendingNotCached' /\ PanicNeedsEviction'
  BY DEF OneFetchPerChunk, PendingNotCached, PanicNeedsEviction, Pending, Join
<1>8. \A v \in Task : batch[v] # {} => v # t /\ waitOn[v] = {}
  BY <1>5 DEF HoldingMatchesStatus
<1>9. \A u \in Task : u # t => t \notin waitOn[u]
  BY <1>5 DEF NoWaitCycle
<1>10. NoWaitCycle'
  <2> SUFFICES ASSUME NEW u \in Task, NEW v \in waitOn'[u]
               PROVE  v # u /\ waitOn'[v] = {} /\ batch'[v] \cap waitKeys'[u] # {}
    BY DEF NoWaitCycle
  <2>1. CASE u = t
    <3>1. v \in Task /\ W \cap batch[v] # {}
      BY <1>3, <2>1
    <3>2. v # t /\ waitOn[v] = {}
      BY <1>8, <3>1
    <3> QED
      BY <1>2, <1>3, <1>5, <2>1, <3>1, <3>2
  <2>2. CASE u # t
    <3>1. waitOn'[u] = waitOn[u] /\ waitKeys'[u] = waitKeys[u]
      BY <1>2, <1>3, <2>2
    <3>2. v \in Task /\ v # t
      BY <1>9, <2>2, <3>1 DEF TypeOK
    <3>3. v # u /\ waitOn[v] = {} /\ batch[v] \cap waitKeys[u] # {}
      BY <3>1 DEF NoWaitCycle
    <3> QED
      BY <1>3, <1>5, <3>1, <3>2, <3>3
  <2> QED
    BY <2>1, <2>2
<1>11. \A k \in W : \E v \in Task : W \cap batch[v] # {} /\ k \in batch[v]
  BY DEF Join, Pending
<1>12. WaitedChunkAccounted'
  <2> SUFFICES ASSUME NEW u \in Task, NEW k \in waitKeys'[u]
               PROVE  \/ k \in cached' \cup evicted'
                      \/ \E v \in waitOn'[u] : k \in batch'[v]
    BY DEF WaitedChunkAccounted
  <2>1. CASE u = t
    BY <1>2, <1>3, <1>5, <1>11, <2>1
  <2>2. CASE u # t
    BY <1>2, <1>3, <1>5, <2>2 DEF WaitedChunkAccounted, Join
  <2> QED
    BY <2>1, <2>2
<1> QED
  BY <1>1, <1>6, <1>7, <1>10, <1>12

\* Fulfill: the batch moves into the cache (or is evicted at once), and its
\* semaphore leaves every waiter (BatchChunkRequest::fulfill).
LEMMA FulfillPreserves ==
    ASSUME IInv, NEW t \in Task, NEW E \in SUBSET Key, Fulfill(t, E)
    PROVE  IInv'
<1> USE DEF IInv
<1>1. TypeOK'
  BY DEF TypeOK, Fulfill, Inserted
<1>2. \A u \in Task : batch'[u] = IF u = t THEN {} ELSE batch[u]
  BY DEF TypeOK, Fulfill, Inserted
<1>3. \A u \in Task : waitOn'[u] = waitOn[u] \ {t}
  BY DEF Fulfill, Inserted
<1>4. \A u \in Task : status'[u] = IF u = t THEN "idle" ELSE status[u]
  BY DEF TypeOK, Fulfill, Inserted
<1>5. waitKeys[t] = {} /\ waitOn[t] = {} /\ waitKeys' = waitKeys
  BY DEF Fulfill, Inserted, HoldingMatchesStatus
<1>6. HoldingMatchesStatus'
  BY <1>2, <1>3, <1>4, <1>5 DEF HoldingMatchesStatus
<1>7. OneFetchPerChunk'
  BY <1>2 DEF OneFetchPerChunk
<1>8. \A u \in Task : u # t => batch[u] \cap (cached \cup batch[t]) = {}
  BY DEF OneFetchPerChunk, PendingNotCached, Pending
<1>9. PendingNotCached'
  BY <1>2, <1>8 DEF PendingNotCached, Pending, Fulfill, Inserted
<1>10. NoWaitCycle'
  BY <1>2, <1>3, <1>5 DEF NoWaitCycle, TypeOK
<1>11. WaitedChunkAccounted'
  BY <1>2, <1>3, <1>5 DEF WaitedChunkAccounted, Fulfill, Inserted
<1>12. PanicNeedsEviction'
  BY DEF PanicNeedsEviction, Fulfill, Inserted
<1> QED
  BY <1>1, <1>6, <1>7, <1>9, <1>10, <1>11, <1>12

\* Abandon: only the status changes; the keys stay pending (a fetch that
\* fails drops its batch).
LEMMA AbandonPreserves ==
    ASSUME IInv, NEW t \in Task, Abandon(t)
    PROVE  IInv'
<1> USE DEF IInv
<1>1. TypeOK'
  BY DEF TypeOK, Abandon
<1>2. HoldingMatchesStatus'
  BY DEF HoldingMatchesStatus, Abandon, TypeOK
<1>3. OneFetchPerChunk' /\ PendingNotCached' /\ PanicNeedsEviction'
  BY DEF OneFetchPerChunk, PendingNotCached, PanicNeedsEviction, Pending, Abandon
<1>4. NoWaitCycle' /\ WaitedChunkAccounted'
  BY DEF NoWaitCycle, WaitedChunkAccounted, Abandon
<1> QED
  BY <1>1, <1>2, <1>3, <1>4

\* Collect: a missing chunk was evicted, because no semaphore is left to wait
\* for (the second half of get_chunks_batched).
LEMMA CollectPreserves ==
    ASSUME IInv, NEW t \in Task, Collect(t)
    PROVE  IInv'
<1> USE DEF IInv
<1>1. TypeOK'
  BY DEF TypeOK, Collect
<1>2. \A u \in Task : waitKeys'[u] = IF u = t THEN {} ELSE waitKeys[u]
  BY DEF TypeOK, Collect
<1>3. waitOn' = waitOn /\ batch' = batch /\ cached' = cached /\ evicted' = evicted
  <2>1. waitOn' = [waitOn EXCEPT ![t] = {}] /\ waitOn[t] = {}
    BY DEF Collect, Awake
  <2>2. waitOn' = waitOn
    BY <2>1 DEF TypeOK
  <2> QED
    BY <2>2 DEF Collect
<1>4. \A u \in Task : u # t => status'[u] = status[u]
  BY DEF TypeOK, Collect
<1>5. batch[t] = {} /\ waitOn[t] = {}
  BY DEF Collect, Awake, HoldingMatchesStatus
<1>6. HoldingMatchesStatus'
  BY <1>2, <1>3, <1>4, <1>5 DEF HoldingMatchesStatus
<1>7. OneFetchPerChunk' /\ PendingNotCached'
  BY <1>3 DEF OneFetchPerChunk, PendingNotCached, Pending
<1>8. NoWaitCycle'
  BY <1>2, <1>3, <1>5 DEF NoWaitCycle
<1>9. WaitedChunkAccounted'
  BY <1>2, <1>3 DEF WaitedChunkAccounted
<1>10. waitKeys[t] \subseteq cached \/ evicted # {}
  BY <1>5 DEF WaitedChunkAccounted, TypeOK
<1>11. PanicNeedsEviction'
  BY <1>3, <1>10 DEF PanicNeedsEviction, Collect
<1> QED
  BY <1>1, <1>6, <1>7, <1>8, <1>9, <1>11

\* Leave and PanicOnPoison: the task ends and keeps what it held (the end of
\* a transfer, and lock().unwrap() on the poisoned mutex).
LEMMA EndPreserves ==
    ASSUME IInv, NEW t \in Task, Leave(t) \/ PanicOnPoison(t)
    PROVE  IInv'
<1> USE DEF IInv
<1>1. TypeOK'
  BY DEF TypeOK, Leave, PanicOnPoison
<1>2. \A u \in Task : waitKeys'[u] = waitKeys[u] \/ (u = t /\ waitKeys'[u] = {})
  BY DEF TypeOK, Leave, PanicOnPoison
<1>3. \A u \in Task : status'[u] = IF u = t THEN "gone" ELSE status[u]
  BY DEF TypeOK, Leave, PanicOnPoison
<1>4. /\ waitOn' = waitOn /\ batch' = batch /\ cached' = cached
      /\ evicted' = evicted /\ poisoned' = poisoned
  BY DEF Leave, PanicOnPoison
<1>5. waitOn[t] = {} /\ waitKeys'[t] = {}
  BY DEF Leave, PanicOnPoison, HoldingMatchesStatus, TypeOK
<1>6. HoldingMatchesStatus'
  BY <1>2, <1>3, <1>4, <1>5 DEF HoldingMatchesStatus
<1>7. OneFetchPerChunk' /\ PendingNotCached' /\ PanicNeedsEviction'
  BY <1>4 DEF OneFetchPerChunk, PendingNotCached, PanicNeedsEviction, Pending
<1>8. NoWaitCycle'
  BY <1>2, <1>4, <1>5 DEF NoWaitCycle
<1>9. WaitedChunkAccounted'
  BY <1>2, <1>4 DEF WaitedChunkAccounted
<1> QED
  BY <1>1, <1>6, <1>7, <1>8, <1>9

-----------------------------------------------------------------------------
\* The inductive invariant holds in every reachable state of the cache
\* protocol of get_chunks_batched and fulfill.
THEOREM InductiveInvariant == Spec => []IInv
<1>1. Init => IInv
  <2> SUFFICES ASSUME Init PROVE IInv
    OBVIOUS
  <2>1. \A t \in Task : batch[t] = {} /\ waitKeys[t] = {} /\ waitOn[t] = {}
    BY DEF Init
  <2>2. TypeOK
    BY DEF Init, TypeOK
  <2>3. HoldingMatchesStatus /\ OneFetchPerChunk /\ NoWaitCycle /\ WaitedChunkAccounted
    BY <2>1 DEF HoldingMatchesStatus, OneFetchPerChunk, NoWaitCycle, WaitedChunkAccounted
  <2>4. PendingNotCached
    BY <2>1 DEF PendingNotCached, Pending
  <2>5. PanicNeedsEviction
    BY DEF Init, PanicNeedsEviction
  <2> QED
    BY <2>2, <2>3, <2>4, <2>5 DEF IInv
<1>2. IInv /\ [Next]_vars => IInv'
  <2> SUFFICES ASSUME IInv, [Next]_vars
               PROVE  IInv'
    OBVIOUS
  <2>1. CASE UNCHANGED vars
    BY <2>1 DEF vars, IInv, TypeOK, HoldingMatchesStatus, OneFetchPerChunk,
                PendingNotCached, Pending, NoWaitCycle, WaitedChunkAccounted,
                PanicNeedsEviction
  <2>2. CASE Next
    <3>1. PICK t \in Task :
            \/ \E B \in SUBSET Key : Claim(t, B)
            \/ \E W \in SUBSET Key : Join(t, W)
            \/ \E E \in SUBSET Key : Fulfill(t, E)
            \/ Abandon(t)
            \/ Collect(t)
            \/ Leave(t)
            \/ PanicOnPoison(t)
      BY <2>2 DEF Next
    <3> QED
      BY <3>1, ClaimPreserves, JoinPreserves, FulfillPreserves,
         AbandonPreserves, CollectPreserves, EndPreserves
  <2> QED
    BY <2>1, <2>2
<1> QED
  BY <1>1, <1>2, PTL DEF Spec

\* Type correctness of the cache protocol.
THEOREM TypeCorrect == Spec => []TypeOK
<1>1. IInv => TypeOK
  BY DEF IInv
<1> QED
  BY <1>1, InductiveInvariant, PTL

\* No chunk is fetched by two tasks at once, whatever the number of tasks
\* and chunks (pending_chunks under the mutex of get_chunks_batched).
THEOREM FetchedOnce == Spec => []OneFetchPerChunk
<1>1. IInv => OneFetchPerChunk
  BY DEF IInv
<1> QED
  BY <1>1, InductiveInvariant, PTL

\* fulfill never inserts a chunk that is already in the cache.
THEOREM NeverInsertedTwice == Spec => []PendingNotCached
<1>1. IInv => PendingNotCached
  BY DEF IInv
<1> QED
  BY <1>1, InductiveInvariant, PTL

\* Tasks that share the cache never wait for each other in a cycle: the
\* await of get_chunks_batched happens while no batch is held.
THEOREM NoDeadlockCycle == Spec => []NoWaitCycle
<1>1. IInv => NoWaitCycle
  BY DEF IInv
<1> QED
  BY <1>1, InductiveInvariant, PTL

\* A chunk that a woken task does not find was evicted after it was put in
\* the cache: the expect of get_chunks_batched fails for no other reason.
THEOREM WaitersAccounted == Spec => []WaitedChunkAccounted
<1>1. IInv => WaitedChunkAccounted
  BY DEF IInv
<1> QED
  BY <1>1, InductiveInvariant, PTL

\* While nothing was ever evicted, no task panics under the mutex of the
\* cache.
THEOREM NoEvictionNoPanic == Spec => []PanicNeedsEviction
<1>1. IInv => PanicNeedsEviction
  BY DEF IInv
<1> QED
  BY <1>1, InductiveInvariant, PTL

\* A chunk leaves pending_chunks only by its insertion in fulfill.
THEOREM ReleasedByInsertion == Spec => ReleasedOnlyByInsertion
<1> DEFINE Released == \A k \in Pending : k \notin Pending' => k \in cached' \cup evicted'
<1>1. IInv /\ [Next]_vars => [Released]_vars
  <2> SUFFICES ASSUME IInv, Next
               PROVE  Released
    BY DEF vars
  <2>1. PICK t \in Task :
            \/ \E B \in SUBSET Key : Claim(t, B)
            \/ \E W \in SUBSET Key : Join(t, W)
            \/ \E E \in SUBSET Key : Fulfill(t, E)
            \/ Abandon(t)
            \/ Collect(t)
            \/ Leave(t)
            \/ PanicOnPoison(t)
    BY DEF Next
  <2>2. CASE \E B \in SUBSET Key : Claim(t, B)
    <3>1. PICK B \in SUBSET Key : Claim(t, B)
      BY <2>2
    <3>2. batch[t] = {} /\ \A u \in Task : u # t => batch'[u] = batch[u]
      BY <3>1 DEF Claim, IInv, HoldingMatchesStatus, TypeOK
    <3> QED
      BY <3>2 DEF Pending
  <2>3. CASE \E E \in SUBSET Key : Fulfill(t, E)
    <3>1. PICK E \in SUBSET Key : Fulfill(t, E)
      BY <2>3
    <3>2. \A u \in Task : u # t => batch'[u] = batch[u]
      BY <3>1 DEF Fulfill, Inserted, IInv, TypeOK
    <3>3. batch[t] \subseteq cached' \cup evicted'
      BY <3>1 DEF Fulfill, Inserted
    <3> QED
      BY <3>2, <3>3 DEF Pending
  <2>4. CASE batch' = batch
    BY <2>4 DEF Pending
  <2> QED
    BY <2>1, <2>2, <2>3, <2>4 DEF Join, MayJoin, Abandon, Collect, Leave, PanicOnPoison
<1> QED
  BY <1>1, InductiveInvariant, PTL DEF Spec, ReleasedOnlyByInsertion
=============================================================================
