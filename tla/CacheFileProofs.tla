--------------------------- MODULE CacheFileProofs ---------------------------
(***************************************************************************)
(* For every set of contents, every limit and every number of crashes,     *)
(* failed saves and damaged chunks: the cache file is never torn, nothing  *)
(* that was marked dirty is forgotten, what a start loads is sound, and it *)
(* is what was saved last, in the same order, as far as it is intact and   *)
(* the limit allows.                                                       *)
(***************************************************************************)
EXTENDS CacheFile, RawChunkCacheProofs

-----------------------------------------------------------------------------
(* What the limit leaves.                                                  *)

\* c is the longest end of s that fits into max.
Fits(c, s, max) ==
    \E n \in 0 .. Len(s) :
        /\ c = SubSeq(s, n + 1, Len(s)) /\ Bytes(c) <= max
        /\ \A i \in 0 .. (n - 1) : Bytes(SubSeq(s, i + 1, Len(s))) > max

(* Ends of a sequence. *)
LEMMA Ends ==
    ASSUME NEW D, NEW s \in Seq(D), NEW n \in 0 .. Len(s)
    PROVE  /\ Len(s) \in Nat /\ SubSeq(s, n + 1, Len(s)) \in Seq(D)
           /\ Len(SubSeq(s, n + 1, Len(s))) = Len(s) - n
           /\ \A i \in 1 .. Len(s) - n : SubSeq(s, n + 1, Len(s))[i] = s[n + i]
OBVIOUS

LEMMA OneMore ==
    ASSUME NEW D, NEW s \in Seq(D), NEW e \in D
    PROVE  Append(s, e) \in Seq(D) /\ Len(Append(s, e)) = Len(s) + 1 /\ Len(s) \in Nat
OBVIOUS

LEMMA EqualSeqs ==
    ASSUME NEW D, NEW s \in Seq(D), NEW t \in Seq(D), Len(s) = Len(t),
           \A i \in 1 .. Len(s) : s[i] = t[i]
    PROVE  s = t
OBVIOUS

(* An end of an end. *)
LEMMA EndOfEnd ==
    ASSUME NEW D, NEW s \in Seq(D), NEW n \in 0 .. Len(s), NEW m \in 0 .. (Len(s) - n), NEW c,
           c = SubSeq(s, n + 1, Len(s))
    PROVE  SubSeq(c, m + 1, Len(c)) = SubSeq(s, n + m + 1, Len(s))
<1>1. Len(s) \in Nat /\ c \in Seq(D) /\ Len(c) = Len(s) - n /\ \A i \in 1 .. Len(s) - n : c[i] = s[n + i]
      BY Ends
<1>2. m \in 0 .. Len(c) /\ n + m \in 0 .. Len(s)
      BY <1>1
<1>3. PICK x : x = SubSeq(c, m + 1, Len(c))
      BY ZenonT(60)
<1>4. x \in Seq(D) /\ Len(x) = Len(c) - m /\ \A i \in 1 .. Len(c) - m : x[i] = c[m + i]
      BY <1>1, <1>2, <1>3, Ends, ZenonT(60)
<1>5. PICK y : y = SubSeq(s, (n + m) + 1, Len(s))
      BY ZenonT(60)
<1>6. y \in Seq(D) /\ Len(y) = Len(s) - (n + m) /\ \A i \in 1 .. Len(s) - (n + m) : y[i] = s[(n + m) + i]
      BY <1>2, <1>5, Ends, ZenonT(60)
<1>7. Len(x) = Len(y)
      BY <1>1, <1>4, <1>6
<1>8. ASSUME NEW i \in 1 .. Len(x) PROVE x[i] = y[i]
  <2>1. i \in 1 .. Len(c) - m /\ m + i \in 1 .. Len(s) - n /\ i \in 1 .. Len(s) - (n + m) /\ n + (m + i) = (n + m) + i
        BY <1>1, <1>4
  <2> QED BY <1>1, <1>4, <1>6, <2>1, ZenonT(60)
<1>9. x = y
      BY <1>4, <1>6, <1>7, <1>8, EqualSeqs, ZenonT(60)
<1> QED BY <1>3, <1>5, <1>9, ZenonT(60)

(* An end of a sequence with one more element. *)
LEMMA EndOfAppend ==
    ASSUME NEW D, NEW s \in Seq(D), NEW e \in D, NEW n \in 0 .. Len(s), NEW t, t = Append(s, e)
    PROVE  SubSeq(t, n + 1, Len(t)) = Append(SubSeq(s, n + 1, Len(s)), e)
<1>1. t \in Seq(D) /\ Len(t) = Len(s) + 1 /\ Len(s) \in Nat /\ t[Len(s) + 1] = e /\ \A i \in 1 .. Len(s) : t[i] = s[i]
      OBVIOUS
<1>2. n \in 0 .. Len(t)
      BY <1>1
<1>3. PICK x : x = SubSeq(t, n + 1, Len(t))
      BY ZenonT(60)
<1>4. x \in Seq(D) /\ Len(x) = Len(t) - n /\ \A i \in 1 .. Len(t) - n : x[i] = t[n + i]
      BY <1>1, <1>2, <1>3, Ends, ZenonT(60)
<1>5. PICK z : z = SubSeq(s, n + 1, Len(s))
      BY ZenonT(60)
<1>6. z \in Seq(D) /\ Len(z) = Len(s) - n /\ \A i \in 1 .. Len(s) - n : z[i] = s[n + i]
      BY <1>5, Ends, ZenonT(60)
<1>7. PICK y : y = Append(z, e)
      BY ZenonT(60)
<1>8. y \in Seq(D) /\ Len(y) = Len(z) + 1 /\ y[Len(z) + 1] = e /\ \A i \in 1 .. Len(z) : y[i] = z[i]
      BY <1>6, <1>7
<1>9. Len(x) = Len(y)
      BY <1>1, <1>4, <1>6, <1>8
<1>10. ASSUME NEW i \in 1 .. Len(x) PROVE x[i] = y[i]
  <2>1. CASE i = Len(t) - n
    <3>1. n + i = Len(s) + 1 /\ i = Len(z) + 1
          BY <1>1, <1>6, <2>1
    <3> QED BY <1>1, <1>4, <1>8, <3>1, ZenonT(60)
  <2>2. CASE i # Len(t) - n
    <3>1. i \in 1 .. Len(z) /\ i \in 1 .. Len(s) - n /\ n + i \in 1 .. Len(s)
          BY <1>1, <1>4, <1>6, <2>2
    <3> QED BY <1>1, <1>4, <1>6, <1>8, <3>1, ZenonT(60)
  <2> QED BY <2>1, <2>2, ZenonT(60)
<1>11. x = y
      BY <1>4, <1>8, <1>9, <1>10, EqualSeqs, ZenonT(60)
<1> QED BY <1>3, <1>5, <1>7, <1>11, ZenonT(60)

(* There is one longest end that fits. *)
LEMMA FitIsLongest ==
    ASSUME NEW s \in Seq(Entry), NEW max \in Nat, NEW c, Fits(c, s, max)
    PROVE  c = LongestFit(s, max)
<1>1. PICK n \in 0 .. Len(s) :
          /\ c = SubSeq(s, n + 1, Len(s)) /\ Bytes(c) <= max
          /\ \A i \in 0 .. (n - 1) : Bytes(SubSeq(s, i + 1, Len(s))) > max
      BY DEF Fits
<1> DEFINE End(m) == SubSeq(s, m + 1, Len(s))
<1>2. Len(s) \in Nat /\ \A m \in 0 .. Len(s) : End(m) \in Seq(Entry) /\ Len(End(m)) = Len(s) - m
      BY Ends
<1>3. ASSUME NEW x \in Recent(s) PROVE \E m \in 0 .. Len(s) : x = End(m)
  <2>1. PICK l \in 1 .. Len(s) + 1 : x = SubSeq(s, l, Len(s))
        BY DEF Recent
  <2>2. l - 1 \in 0 .. Len(s) /\ (l - 1) + 1 = l
        BY <1>2
  <2> QED BY <2>1, <2>2, ZenonT(60)
<1>4. ASSUME NEW m \in 0 .. Len(s) PROVE End(m) \in Recent(s)
  <2>1. m + 1 \in 1 .. Len(s) + 1
        BY <1>2
  <2> QED BY <2>1 DEF Recent
<1>5. ASSUME NEW m \in 0 .. Len(s), Bytes(End(m)) <= max PROVE n <= m
  <2> SUFFICES ASSUME m < n PROVE FALSE
      BY <1>2
  <2>1. m \in 0 .. (n - 1)
        BY <1>2
  <2>2. Bytes(End(m)) > max
        BY <1>1, <2>1
  <2>3. End(m) \in Seq(Entry)
        BY <1>2
  <2>4. Bytes(End(m)) \in Nat
        BY <2>3, BytesType, ZenonT(60)
  <2> QED BY <1>5, <2>2, <2>4
<1> DEFINE Longest(x) == Bytes(x) <= max /\ \A r \in Recent(s) : Bytes(r) <= max => Len(r) <= Len(x)
<1>6. c \in Recent(s) /\ Len(c) = Len(s) - n
      BY <1>1, <1>2, <1>4
<1>7. Longest(c)
  <2> SUFFICES ASSUME NEW r \in Recent(s), Bytes(r) <= max PROVE Len(r) <= Len(c)
      BY <1>1
  <2>1. PICK m \in 0 .. Len(s) : r = End(m)
        BY <1>3
  <2>2. n <= m
        BY <1>5, <2>1, ZenonT(60)
  <2>3. Len(r) = Len(s) - m
        BY <1>2, <2>1, ZenonT(60)
  <2> QED BY <1>2, <1>6, <2>2, <2>3
<1>8. ASSUME NEW x \in Recent(s), Longest(x) PROVE x = c
  <2>1. PICK m \in 0 .. Len(s) : x = End(m)
        BY <1>3
  <2>2. n <= m
        BY <1>5, <1>8, <2>1, ZenonT(60)
  <2>3. Len(x) = Len(s) - m
        BY <1>2, <2>1, ZenonT(60)
  <2>4. Len(c) <= Len(x)
        BY <1>1, <1>6, <1>8, ZenonT(60)
  <2>5. m = n
        BY <1>2, <1>6, <2>2, <2>3, <2>4
  <2> QED BY <1>1, <2>1, <2>5, ZenonT(60)
<1>9. LongestFit(s, max) = CHOOSE x \in Recent(s) : Longest(x)
      BY DEF LongestFit
<1> HIDE DEF Longest
<1> QED BY <1>6, <1>7, <1>8, <1>9, ZenonT(60)

(* insert of a chunk that is not there, seen from what was inserted so far. *)
LEMMA InsertFits ==
    ASSUME NEW cache \in Sound, NEW d \in Data, NEW s \in Seq(Entry), Lacks(cache.chunks, Hash(d)),
           Fits(cache.chunks, s, cache.max_size), NEW e, e = [key |-> Hash(d), data |-> d]
    PROVE  Fits(Insert(cache, Hash(d), d).chunks, Append(s, e), cache.max_size)
<1>1. /\ cache \in Cache /\ cache.chunks \in Seq(Entry) /\ cache.total_size \in Nat /\ cache.max_size \in Nat
      /\ cache.total_size = Bytes(cache.chunks)
      BY DEF Sound, Cache
<1>2. e \in Entry /\ e.data = d
      BY DEF Entry, Key
<1>3. ~Has(cache, Hash(d)) /\ Without(cache, Hash(d)) = cache.chunks
      BY DEF Has, Keys, Lacks, Without
<1>4. PICK a \in Seq(Entry) : a = Append(cache.chunks, e)
      BY <1>1, <1>2, OneMore, ZenonT(60)
<1>5. Bytes(a) = cache.total_size + Size[d] /\ Bytes(a) \in Nat /\ Size[d] \in Nat
      BY <1>1, <1>2, <1>4, BytesAppend, BytesType, ZenonT(60)
<1>6. PICK c \in Cache : c = [cache EXCEPT !.chunks = a, !.total_size = Bytes(a)]
      BY <1>1, <1>5, ZenonT(60) DEF Cache
<1>7. c.chunks = a /\ c.total_size = Bytes(a) /\ c.max_size = cache.max_size
      BY <1>1, <1>6 DEF Cache
<1>8. Insert(cache, Hash(d), d) = EvictLoop(c)
  <2>1. Insert(cache, Hash(d), d) =
            EvictLoop([cache EXCEPT !.chunks = Append(cache.chunks, e),
                                    !.total_size = cache.total_size + Size[d] - 0])
        BY <1>1, <1>3 DEF Insert, Cache
  <2>2. cache.total_size + Size[d] - 0 = Bytes(a)
        BY <1>1, <1>5
  <2> QED BY <1>4, <1>6, <2>1, <2>2, ZenonT(60)
<1>9. PICK m \in 0 .. Len(a), r \in Seq(Entry) :
          /\ r = SubSeq(a, m + 1, Len(a))
          /\ EvictLoop(c) = [c EXCEPT !.chunks = r, !.total_size = Bytes(r)]
          /\ Bytes(r) <= c.max_size
          /\ \A i \in 0 .. (m - 1) : Bytes(SubSeq(a, i + 1, Len(a))) > c.max_size
      BY <1>7, EvictLoopStops, ZenonT(60)
<1>10. Insert(cache, Hash(d), d).chunks = r
      BY <1>8, <1>9, ZenonT(60) DEF Cache
<1>11. PICK n \in 0 .. Len(s) :
          /\ cache.chunks = SubSeq(s, n + 1, Len(s))
          /\ \A i \in 0 .. (n - 1) : Bytes(SubSeq(s, i + 1, Len(s))) > cache.max_size
      BY DEF Fits
<1>12. PICK t \in Seq(Entry) : t = Append(s, e) /\ Len(t) = Len(s) + 1 /\ Len(s) \in Nat
      BY <1>2, OneMore, ZenonT(60)
<1>13. a = SubSeq(t, n + 1, Len(t)) /\ n \in 0 .. Len(t) /\ Len(a) = Len(t) - n
  <2>1. a = SubSeq(t, n + 1, Len(t))
        BY <1>2, <1>4, <1>11, <1>12, EndOfAppend, ZenonT(60)
  <2>2. n \in 0 .. Len(t)
        BY <1>12
  <2> QED BY <2>1, <2>2, Ends
<1>14. \A i \in 0 .. (Len(t) - n) : SubSeq(a, i + 1, Len(a)) = SubSeq(t, n + i + 1, Len(t))
      BY <1>13, EndOfEnd
<1>15. m \in 0 .. (Len(t) - n) /\ n + m \in 0 .. Len(t)
      BY <1>12, <1>13
<1>16. r = SubSeq(t, (n + m) + 1, Len(t))
      BY <1>9, <1>14, <1>15, ZenonT(60)
<1>17. ASSUME NEW i \in 0 .. ((n + m) - 1) PROVE Bytes(SubSeq(t, i + 1, Len(t))) > cache.max_size
  <2>1. CASE i < n
    <3>1. i \in 0 .. (n - 1) /\ i \in 0 .. Len(s)
          BY <1>12, <2>1
    <3>2. PICK z : z = SubSeq(s, i + 1, Len(s))
          BY ZenonT(60)
    <3>3. z \in Seq(Entry) /\ Bytes(z) > cache.max_size
          BY <1>11, <3>1, <3>2, Ends
    <3>4. SubSeq(t, i + 1, Len(t)) = Append(z, e)
          BY <1>2, <1>12, <3>1, <3>2, EndOfAppend, ZenonT(60)
    <3>5. Bytes(Append(z, e)) = Bytes(z) + Size[d] /\ Bytes(z) \in Nat
          BY <1>2, <3>3, BytesAppend, BytesType
    <3>6. Bytes(z) + Size[d] > cache.max_size
      <4>1. PICK x \in Nat, y \in Nat, l \in Nat : x = Bytes(z) /\ y = Size[d] /\ l = cache.max_size /\ x > l
            BY <1>1, <1>5, <3>3, <3>5, ZenonT(60)
      <4>2. x + y > l
            BY <4>1
      <4> QED BY <4>1, <4>2, ZenonT(60)
    <3> QED BY <3>4, <3>5, <3>6, ZenonT(60)
  <2>2. CASE i >= n
    <3>1. PICK j \in 0 .. (m - 1) : n + j = i /\ j \in 0 .. (Len(t) - n)
      <4>1. i - n \in 0 .. (m - 1) /\ n + (i - n) = i /\ i - n \in 0 .. (Len(t) - n)
            BY <1>12, <1>13, <1>15, <2>2
      <4> QED BY <4>1
    <3>2. Bytes(SubSeq(a, j + 1, Len(a))) > cache.max_size
          BY <1>7, <1>9, <3>1, ZenonT(60)
    <3> QED BY <1>14, <3>1, <3>2, ZenonT(60)
  <2> QED BY <1>12, <2>1, <2>2
<1>18. Bytes(r) <= cache.max_size
      BY <1>7, <1>9, ZenonT(60)
<1>19. Fits(r, t, cache.max_size)
      BY <1>15, <1>16, <1>17, <1>18, ZenonT(60) DEF Fits
<1> QED BY <1>10, <1>12, <1>19

(* Nothing fits into nothing. *)
LEMMA NothingFits ==
    ASSUME NEW max \in Nat
    PROVE  Fits(<<>>, <<>>, max)
<1>1. Len(<<>>) = 0 /\ SubSeq(<<>>, 0 + 1, 0) = <<>> /\ 0 \in 0 .. 0 /\ 0 .. (0 - 1) = {}
      OBVIOUS
<1>2. Bytes(<<>>) <= max
      BY BytesEmpty
<1> QED BY <1>1, <1>2 DEF Fits

(* What fits is part of what it was taken from. *)
LEMMA FitAmong ==
    ASSUME NEW s \in Seq(Entry), NEW max, NEW c, Fits(c, s, max)
    PROVE  \A i \in DOMAIN c : \E j \in 1 .. Len(s) : c[i] = s[j]
<1>1. PICK n \in 0 .. Len(s) : c = SubSeq(s, n + 1, Len(s))
      BY DEF Fits
<1>2. /\ Len(s) \in Nat /\ c \in Seq(Entry) /\ Len(c) = Len(s) - n
      /\ \A i \in 1 .. Len(s) - n : c[i] = s[n + i]
      BY <1>1, Ends
<1> SUFFICES ASSUME NEW i \in DOMAIN c PROVE \E j \in 1 .. Len(s) : c[i] = s[j]
    OBVIOUS
<1>3. i \in 1 .. Len(s) - n /\ n + i \in 1 .. Len(s)
      BY <1>2
<1> QED BY <1>2, <1>3, ZenonT(60)

-----------------------------------------------------------------------------
(* The cache file.                                                         *)

Inner == [raw_cache : Cache, needs_saving : BOOLEAN, poisoned : BOOLEAN]
Writer == [at : {"sleep", "create", "write", "rename", "dead"}, clone : Seq(Entry)]
Count == [crashes : 0 .. MaxCrashes, errors : 0 .. MaxErrors, rot : 0 .. MaxRot]

\* What the temporary file holds while the writer is in write_chunk_cache.
Writing ==
    /\ writer.at = "write" =>
          /\ Len(tmp.chunks) <= Len(writer.clone)
          /\ tmp.chunks = SubSeq(writer.clone, 1, Len(tmp.chunks))
    /\ writer.at = "rename" => tmp.state = "complete" /\ tmp.chunks = writer.clone

\* Where the keys of the last mark_dirty are once the flag is clear: in the
\* clone while a save is under way, in the file otherwise.
Promised ==
    up /\ ~failed /\ ~inner.needs_saving =>
        owed \subseteq IF writer.at \in {"sleep", "dead"} THEN KeysIn(main.chunks) ELSE KeysIn(writer.clone)

IInv ==
    /\ TypeOK
    /\ inner.raw_cache \in Sound
    /\ ~up => writer = Asleep /\ owed = {}
    /\ owed \subseteq Keys(inner.raw_cache)
    /\ main.state # "torn"
    /\ Writing
    /\ Promised

LoadStep(c, e) == IF Intact(e) THEN Insert(c, e.key, e.data) ELSE c

Loading == INSTANCE FoldTheorems WITH Op <- LoadStep, S <- Sound, E <- Entry

-----------------------------------------------------------------------------
LEMMA LoadingReady == Loading!Closed /\ Loading!Induction
<1>1. Loading!Closed
  <2> SUFFICES ASSUME NEW c \in Sound, NEW e \in Entry, Intact(e)
               PROVE  Insert(c, e.key, e.data) \in Sound
      BY DEF Loading!Closed, LoadStep
  <2>1. e.data \in Data /\ e.key = Hash(e.data)
        BY DEF Entry, Intact
  <2> QED BY <2>1, InsertKeeps, ZenonT(60)
<1>2. Loading!Induction
      BY NatSetInduction, ZenonT(60) DEF Loading!Induction
<1> QED BY <1>1, <1>2, ZenonT(60)

(* read_chunk_cache makes a sound cache of any file, damaged or not. *)
LEMMA LoadSound ==
    ASSUME NEW file \in File, NEW max \in Nat
    PROVE  Load(file, max) \in Sound
<1>1. file.chunks \in Seq(Entry)
      BY DEF File
<1>2. New(max) \in Sound
      BY NewSound, ZenonT(60)
<1>3. Loading!Fold(New(max), file.chunks) \in Sound
      BY <1>1, <1>2, LoadingReady, Loading!FoldType, ZenonT(60)
<1>4. Load(file, max) = Loading!Fold(New(max), file.chunks)
      BY ZenonT(60) DEF Load, LoadStep, Loading!Fold, Loading!Last, Iterate, MapThenFoldSet, Max
<1> QED BY <1>3, <1>4, ZenonT(60)

-----------------------------------------------------------------------------
(* The entries that survive, one by one.                                   *)

\* f lists what survives of the first entries of s.
Survivors(f, s, lost, n) ==
    /\ f \in [0 .. n -> Seq(Entry)]
    /\ f[0] = <<>>
    /\ \A i \in 1 .. n : f[i] = IF s[i].key \in lost THEN f[i - 1] ELSE Append(f[i - 1], s[i])

(* Surviving is the last of such a list. *)
LEMMA SurvivingIs ==
    ASSUME NEW s \in Seq(Entry), NEW lost
    PROVE  \E f : Survivors(f, s, lost, Len(s)) /\ Surviving(s, lost) = f[Len(s)]
<1> DEFINE n == Len(s)
           Body(f) == [i \in 0 .. n |-> IF i = 0 THEN <<>>
                                       ELSE IF s[i].key \in lost THEN f[i - 1]
                                       ELSE Append(f[i - 1], s[i])]
           T == {k \in 0 .. n : \E f : Survivors(f, s, lost, k)}
<1>1. n \in Nat /\ \A i \in 1 .. n : s[i] \in Entry
      OBVIOUS
<1>2. 0 \in T
  <2> DEFINE f == [i \in 0 .. 0 |-> <<>>]
  <2>1. f \in [0 .. 0 -> Seq(Entry)] /\ f[0] = <<>>
        OBVIOUS
  <2>2. Survivors(f, s, lost, 0)
        BY <2>1 DEF Survivors
  <2> QED BY <1>1, <2>2
<1>3. ASSUME NEW k \in 0 .. n - 1, k \in T PROVE k + 1 \in T
  <2>1. PICK f : Survivors(f, s, lost, k)
        BY <1>3, ZenonT(60)
  <2>2. k \in 0 .. k /\ k + 1 \in 1 .. n /\ k + 1 \in 0 .. n
        BY <1>1
  <2>3. PICK x \in Seq(Entry) : x = IF s[k + 1].key \in lost THEN f[k] ELSE Append(f[k], s[k + 1])
    <3>1. f[k] \in Seq(Entry) /\ s[k + 1] \in Entry
          BY <1>1, <2>1, <2>2, ZenonT(60) DEF Survivors
    <3> QED BY <3>1, OneMore, ZenonT(60)
  <2> DEFINE h == [i \in 0 .. k + 1 |-> IF i = k + 1 THEN x ELSE f[i]]
  <2>4. h \in [0 .. k + 1 -> Seq(Entry)] /\ h[0] = <<>>
    <3>1. ASSUME NEW i \in 0 .. k + 1, i # k + 1 PROVE f[i] \in Seq(Entry)
      <4>1. i \in 0 .. k
            BY <3>1
      <4> QED BY <2>1, <4>1, ZenonT(60) DEF Survivors
    <3>2. 0 \in 0 .. k + 1 /\ 0 # k + 1 /\ f[0] = <<>>
          BY <2>1 DEF Survivors
    <3> QED BY <3>1, <3>2, ZenonT(60)
  <2>5. ASSUME NEW i \in 1 .. k + 1
        PROVE  h[i] = IF s[i].key \in lost THEN h[i - 1] ELSE Append(h[i - 1], s[i])
    <3>1. CASE i = k + 1
      <4>1. h[k + 1] = x /\ h[k] = f[k] /\ i - 1 = k
            BY <3>1
      <4> QED BY <2>3, <3>1, <4>1, ZenonT(60)
    <3>2. CASE i # k + 1
      <4>1. i \in 1 .. k /\ i - 1 \in 0 .. k + 1 /\ i - 1 # k + 1
            BY <3>2
      <4>2. h[i] = f[i] /\ h[i - 1] = f[i - 1]
            BY <3>2, <4>1
      <4> QED BY <2>1, <4>1, <4>2, ZenonT(60) DEF Survivors
    <3> QED BY <3>1, <3>2, ZenonT(60)
  <2> HIDE DEF h
  <2>6. Survivors(h, s, lost, k + 1)
        BY <2>4, <2>5, ZenonT(60) DEF Survivors
  <2> QED BY <2>2, <2>6, ZenonT(60)
<1> HIDE DEF T
<1>4. 0 .. n \subseteq T
      BY <1>1, <1>2, <1>3, TotalReady, Total!UpToInduction, ZenonT(60)
<1>5. PICK f : Survivors(f, s, lost, n)
      BY <1>1, <1>4 DEF T
<1>6. f = Body(f)
  <2>1. f \in [0 .. n -> Seq(Entry)]
        BY <1>5, ZenonT(60) DEF Survivors
  <2>2. \A i \in 0 .. n : f[i] = Body(f)[i]
    <3>1. ASSUME NEW i \in 0 .. n, i # 0 PROVE f[i] = Body(f)[i]
      <4>1. i \in 1 .. n
            BY <3>1
      <4> QED BY <1>5, <3>1, <4>1, ZenonT(60) DEF Survivors
    <3>2. 0 \in 0 .. n /\ f[0] = Body(f)[0]
          BY <1>1, <1>5 DEF Survivors
    <3> QED BY <3>1, <3>2, ZenonT(60)
  <2> QED BY <2>1, <2>2, ZenonT(60)
<1>7. Surviving(s, lost) = (CHOOSE h : h = Body(h))[n]
      BY ZenonT(60) DEF Surviving
<1>8. PICK h : Surviving(s, lost) = h[n] /\ h = Body(h)
      BY <1>6, <1>7, ZenonT(60)
<1>9. h[0] = <<>> /\ \A i \in 1 .. n : h[i] = IF s[i].key \in lost THEN h[i - 1] ELSE Append(h[i - 1], s[i])
  <2>1. ASSUME NEW i \in 0 .. n PROVE h[i] = Body(h)[i]
        BY <1>8, ZenonT(60)
  <2>2. h[0] = <<>>
    <3>1. 0 \in 0 .. n
          BY <1>1
    <3>2. Body(h)[0] = <<>>
          BY <3>1, ZenonT(60)
    <3> QED BY <2>1, <3>1, <3>2, ZenonT(60)
  <2>3. ASSUME NEW i \in 1 .. n
        PROVE  h[i] = IF s[i].key \in lost THEN h[i - 1] ELSE Append(h[i - 1], s[i])
    <3>1. i \in 0 .. n /\ i # 0
          BY <1>1
    <3>2. Body(h)[i] = IF s[i].key \in lost THEN h[i - 1] ELSE Append(h[i - 1], s[i])
          BY <3>1, ZenonT(60)
    <3> QED BY <2>1, <3>1, <3>2, ZenonT(60)
  <2> QED BY <2>2, <2>3, ZenonT(60)
<1>10. DOMAIN h = 0 .. n /\ h = [i \in 0 .. n |-> h[i]]
      BY <1>8
<1> DEFINE V == {i \in 0 .. n : h[i] \in Seq(Entry)}
<1>11. 0 \in V
  <2>1. 0 \in 0 .. n /\ <<>> \in Seq(Entry)
        BY <1>1
  <2> QED BY <1>9, <2>1, ZenonT(60)
<1>12. ASSUME NEW i \in 0 .. n - 1, i \in V PROVE i + 1 \in V
  <2>1. i + 1 \in 1 .. n /\ (i + 1) - 1 = i /\ i + 1 \in 0 .. n
        BY <1>1
  <2>2. h[i + 1] = IF s[i + 1].key \in lost THEN h[i] ELSE Append(h[i], s[i + 1])
        BY <1>9, <2>1, ZenonT(60)
  <2>3. h[i + 1] \in Seq(Entry)
        BY <1>1, <1>12, <2>1, <2>2, OneMore, ZenonT(60)
  <2> QED BY <2>1, <2>3, ZenonT(60)
<1> HIDE DEF V
<1>13. 0 .. n \subseteq V
      BY <1>1, <1>11, <1>12, TotalReady, Total!UpToInduction, ZenonT(60)
<1>14. h \in [0 .. n -> Seq(Entry)]
      BY <1>10, <1>13, ZenonT(60) DEF V
<1> QED BY <1>8, <1>9, <1>14, ZenonT(60) DEF Survivors

-----------------------------------------------------------------------------
(* Loading, one chunk of the file after the other.                         *)

\* The file has the keys of s, in the same places.
SameKeys(t, s) == Len(t) = Len(s) /\ \A i \in 1 .. Len(s) : t[i].key = s[i].key

(* In a file with the keys of s, a key is lost if its chunk is damaged, and  *)
(* a chunk that is not damaged is that of s.                                 *)
LEMMA LostOrSame ==
    ASSUME NEW t \in Seq(Entry), NEW s \in Seq(Entry), Distinct(s), Matched(s), SameKeys(t, s),
           NEW i \in 1 .. Len(s)
    PROVE  /\ s[i].key \in Lost(t) <=> ~Intact(t[i])
           /\ Intact(t[i]) => t[i].data = s[i].data
           /\ t[i].key = s[i].key /\ s[i].key = Hash(s[i].data) /\ s[i] \in Entry /\ t[i] \in Entry
           /\ s[i] = [key |-> Hash(s[i].data), data |-> s[i].data] /\ s[i].data \in Data
<1>1. /\ Len(s) \in Nat /\ DOMAIN s = 1 .. Len(s) /\ DOMAIN t = 1 .. Len(s)
      /\ \A j \in 1 .. Len(s) : t[j] \in Entry /\ s[j] \in Entry
      BY DEF SameKeys
<1>2. \A j \in 1 .. Len(s) : t[j].key = s[j].key /\ s[j].key = Hash(s[j].data)
      BY <1>1, ZenonT(60) DEF SameKeys, Matched
<1>3. Range(t) = {t[j] : j \in 1 .. Len(s)}
      BY <1>1, ZenonT(60) DEF Range
<1>4. Lost(t) = {e.key : e \in {f \in {t[j] : j \in 1 .. Len(s)} : ~Intact(f)}}
      BY <1>3, ZenonT(60) DEF Lost
<1>5. ASSUME s[i].key \in Lost(t) PROVE ~Intact(t[i])
  <2>1. PICK j \in 1 .. Len(s) : ~Intact(t[j]) /\ s[i].key = t[j].key
        BY <1>4, <1>5, ZenonT(60)
  <2>2. s[i].key = s[j].key
        BY <1>2, <2>1, ZenonT(60)
  <2>3. i = j
        BY <1>1, <2>2, ZenonT(60) DEF Distinct
  <2> QED BY <2>1, <2>3, ZenonT(60)
<1>6. ASSUME ~Intact(t[i]) PROVE s[i].key \in Lost(t)
      BY <1>2, <1>4, <1>6, ZenonT(60)
<1>7. ASSUME Intact(t[i]) PROVE t[i].data = s[i].data
  <2>1. Hash(t[i].data) = Hash(s[i].data)
        BY <1>2, <1>7, ZenonT(60) DEF Intact
  <2> QED BY <2>1 DEF Hash
<1>8. s[i] = [key |-> s[i].key, data |-> s[i].data] /\ s[i].data \in Data
      BY <1>1, ZenonT(60) DEF Entry
<1> QED BY <1>1, <1>2, <1>5, <1>6, <1>7, <1>8, ZenonT(60)

\* What loading the first i chunks of a file has come to: cache c fits what
\* survives, r, and all of r is among the first i chunks of s.
Loaded(c, r, s, i, max) ==
    /\ c \in Sound /\ c.max_size = max /\ r \in Seq(Entry) /\ Fits(c.chunks, r, max)
    /\ \A j \in 1 .. Len(r) : \E k \in 1 .. i : r[j] = s[k]

(* The next chunk of the file is damaged. *)
LEMMA LoadedSkips ==
    ASSUME NEW s \in Seq(Entry), NEW i \in Nat, NEW c, NEW r, NEW max, Loaded(c, r, s, i, max)
    PROVE  Loaded(c, r, s, i + 1, max)
<1>1. \A k \in 1 .. i : k \in 1 .. i + 1
      OBVIOUS
<1> QED BY <1>1, ZenonT(60) DEF Loaded

(* The next chunk of the file is intact. *)
LEMMA LoadedInserts ==
    ASSUME NEW s \in Seq(Entry), Distinct(s), NEW i \in 0 .. Len(s) - 1, NEW c, NEW r, NEW max \in Nat,
           Loaded(c, r, s, i, max),
           NEW d \in Data, s[i + 1] = [key |-> Hash(d), data |-> d]
    PROVE  Loaded(Insert(c, Hash(d), d), Append(r, s[i + 1]), s, i + 1, max)
<1>1. /\ Len(s) \in Nat /\ i \in Nat /\ i + 1 \in 1 .. Len(s) /\ DOMAIN s = 1 .. Len(s) /\ s[i + 1] \in Entry
      /\ \A k \in 1 .. i : k \in 1 .. Len(s) /\ k \in 1 .. i + 1 /\ k # i + 1
      OBVIOUS
<1>2. /\ c \in Sound /\ c.max_size = max /\ r \in Seq(Entry) /\ Fits(c.chunks, r, max)
      /\ \A j \in 1 .. Len(r) : \E k \in 1 .. i : r[j] = s[k]
      BY DEF Loaded
<1>3. s[i + 1].key = Hash(d)
      OBVIOUS
<1>4. Lacks(c.chunks, Hash(d))
  <2> SUFFICES ASSUME NEW m \in DOMAIN c.chunks, c.chunks[m].key = Hash(d) PROVE FALSE
      BY ZenonT(60) DEF Lacks
  <2>1. PICK j \in 1 .. Len(r) : c.chunks[m] = r[j]
    <3>1. PICK x : x = c.chunks
          OBVIOUS
    <3>2. Fits(x, r, max) /\ m \in DOMAIN x /\ r \in Seq(Entry)
          BY <1>2, <3>1, ZenonT(60)
    <3>3. \A q \in DOMAIN x : \E j \in 1 .. Len(r) : x[q] = r[j]
          BY ONLY <3>2, FitAmong
    <3> QED BY <3>1, <3>2, <3>3, ZenonT(60)
  <2>2. PICK k \in 1 .. i : r[j] = s[k]
        BY <1>2, ZenonT(60)
  <2>3. s[k].key = s[i + 1].key
        BY <1>3, <2>1, <2>2, ZenonT(60)
  <2>4. k \in DOMAIN s /\ i + 1 \in DOMAIN s /\ k # i + 1
        BY <1>1, ZenonT(60)
  <2> QED BY <2>3, <2>4, ZenonT(60) DEF Distinct
<1>5. Insert(c, Hash(d), d) \in Sound /\ Insert(c, Hash(d), d).max_size = max
      BY <1>2, InsertKeeps, ZenonT(60)
<1>6. PICK e : e = s[i + 1] /\ e \in Entry /\ e = [key |-> Hash(d), data |-> d]
      BY <1>1, ZenonT(60)
<1>7. Fits(Insert(c, Hash(d), d).chunks, Append(r, e), max)
      BY <1>2, <1>4, <1>6, InsertFits, ZenonT(60)
<1>8. PICK x \in Seq(Entry) : /\ x = Append(r, e) /\ Len(x) = Len(r) + 1 /\ Len(r) \in Nat /\ x[Len(r) + 1] = e
                              /\ \A j \in 1 .. Len(r) : x[j] = r[j]
  <2>1. Append(r, e) \in Seq(Entry) /\ Len(Append(r, e)) = Len(r) + 1 /\ Len(r) \in Nat
        BY <1>2, <1>6, OneMore, ZenonT(60)
  <2>2. Append(r, e)[Len(r) + 1] = e /\ \A j \in 1 .. Len(r) : Append(r, e)[j] = r[j]
    <3>1. r \in Seq(Entry) /\ e \in Entry
          BY <1>2, <1>6, ZenonT(60)
    <3> QED BY <3>1
  <2> QED BY <2>1, <2>2, ZenonT(60)
<1>9. ASSUME NEW j \in 1 .. Len(x) PROVE \E k \in 1 .. i + 1 : x[j] = s[k]
  <2>1. CASE j = Len(r) + 1
    <3>1. i + 1 \in 1 .. i + 1
          BY <1>1
    <3> QED BY <1>6, <1>8, <2>1, <3>1, ZenonT(60)
  <2>2. CASE j # Len(r) + 1
    <3>1. j \in 1 .. Len(r)
          BY <1>8, <2>2
    <3>2. PICK k \in 1 .. i : r[j] = s[k]
          BY <1>2, <3>1, ZenonT(60)
    <3> QED BY <1>1, <1>8, <3>1, <3>2, ZenonT(60)
  <2> QED BY <2>1, <2>2, ZenonT(60)
<1>10. Loaded(Insert(c, Hash(d), d), x, s, i + 1, max)
      BY <1>5, <1>7, <1>8, <1>9, ZenonT(60) DEF Loaded
<1> QED BY <1>6, <1>8, <1>10, ZenonT(60)

(* read_chunk_cache keeps of the chunks that are not damaged, in the order in *)
(* which they were written, the most recently used ones the limit allows.     *)
LEMMA LoadRestores ==
    ASSUME NEW file \in File, NEW s \in Seq(Entry), Distinct(s), Matched(s), SameKeys(file.chunks, s),
           NEW max \in Nat
    PROVE  /\ Load(file, max).max_size = max
           /\ Load(file, max).chunks = LongestFit(Surviving(s, Lost(file.chunks)), max)
<1> DEFINE n == Len(s)
<1>1. PICK t \in Seq(Entry) : t = file.chunks
      BY DEF File
<1>2. n \in Nat /\ Len(t) = n /\ SameKeys(t, s)
      BY <1>1 DEF SameKeys
<1>3. PICK lost : lost = Lost(t)
      OBVIOUS
<1>4. New(max) \in Sound /\ New(max).max_size = max /\ New(max).chunks = <<>>
  <2>1. New(max).chunks = <<>>
        BY DEF New
  <2> QED BY <2>1, NewSound, ZenonT(60)
<1>5. PICK h : Loading!Trace(h, New(max), t) /\ Load(file, max) = h[n]
  <2>1. Load(file, max) = Loading!Fold(New(max), file.chunks)
        BY ZenonT(60) DEF Load, LoadStep, Loading!Fold, Loading!Last, Iterate, MapThenFoldSet, Max
  <2>2. \E h : Loading!Trace(h, New(max), t) /\ Loading!Fold(New(max), t) = h[Len(t)]
        BY <1>4, LoadingReady, Loading!FoldIsTrace, ZenonT(60)
  <2> QED BY <1>1, <1>2, <2>1, <2>2, ZenonT(60)
<1>6. h[0] = New(max) /\ \A i \in 1 .. n : h[i] = LoadStep(h[i - 1], t[i])
      BY <1>2, <1>5, ZenonT(60) DEF Loading!Trace
<1>7. PICK f : Survivors(f, s, lost, n) /\ Surviving(s, lost) = f[n]
      BY SurvivingIs, ZenonT(60)
<1>8. /\ f \in [0 .. n -> Seq(Entry)] /\ f[0] = <<>>
      /\ \A i \in 1 .. n : f[i] = IF s[i].key \in lost THEN f[i - 1] ELSE Append(f[i - 1], s[i])
      BY <1>7, ZenonT(60) DEF Survivors
<1> DEFINE W == {i \in 0 .. n : Loaded(h[i], f[i], s, i, max)}
<1>9. 0 \in W
  <2>1. 0 \in 0 .. n /\ <<>> \in Seq(Entry) /\ 1 .. Len(<<>>) = {}
        BY <1>2
  <2>2. Loaded(New(max), <<>>, s, 0, max)
        BY <1>4, <2>1, NothingFits, ZenonT(60) DEF Loaded
  <2> QED BY <1>6, <1>8, <2>1, <2>2, ZenonT(60)
<1>10. ASSUME NEW i \in 0 .. n - 1, i \in W PROVE i + 1 \in W
  <2>1. i \in Nat /\ i + 1 \in 1 .. n /\ i + 1 \in 0 .. n /\ (i + 1) - 1 = i
        BY <1>2
  <2>2. /\ h[i + 1] = LoadStep(h[i], t[i + 1])
        /\ f[i + 1] = IF s[i + 1].key \in lost THEN f[i] ELSE Append(f[i], s[i + 1])
        BY <1>6, <1>8, <2>1, ZenonT(60)
  <2>3. Loaded(h[i], f[i], s, i, max)
        BY <1>10, ZenonT(60)
  <2>4. /\ s[i + 1].key \in lost <=> ~Intact(t[i + 1])
        /\ Intact(t[i + 1]) => t[i + 1].data = s[i + 1].data
        /\ t[i + 1].key = s[i + 1].key /\ s[i + 1].key = Hash(s[i + 1].data)
        /\ s[i + 1] = [key |-> Hash(s[i + 1].data), data |-> s[i + 1].data] /\ s[i + 1].data \in Data
        BY <1>2, <1>3, <2>1, LostOrSame, ZenonT(60)
  <2>5. CASE Intact(t[i + 1])
    <3>1. h[i + 1] = Insert(h[i], Hash(s[i + 1].data), s[i + 1].data) /\ f[i + 1] = Append(f[i], s[i + 1])
          BY <2>2, <2>4, <2>5, ZenonT(60) DEF LoadStep
    <3>2. Loaded(Insert(h[i], Hash(s[i + 1].data), s[i + 1].data), Append(f[i], s[i + 1]), s, i + 1, max)
          BY <2>3, <2>4, LoadedInserts, ZenonT(60)
    <3> QED BY <2>1, <3>1, <3>2, ZenonT(60)
  <2>6. CASE ~Intact(t[i + 1])
    <3>1. h[i + 1] = h[i] /\ f[i + 1] = f[i]
          BY <2>2, <2>4, <2>6, ZenonT(60) DEF LoadStep
    <3>2. Loaded(h[i], f[i], s, i + 1, max)
          BY <2>1, <2>3, LoadedSkips, ZenonT(60)
    <3> QED BY <2>1, <3>1, <3>2, ZenonT(60)
  <2> QED BY <2>5, <2>6, ZenonT(60)
<1> HIDE DEF W
<1>11. 0 .. n \subseteq W
      BY <1>2, <1>9, <1>10, TotalReady, Total!UpToInduction, ZenonT(60)
<1>12. Loaded(h[n], f[n], s, n, max)
  <2>1. n \in 0 .. n
        BY <1>2
  <2> QED BY <1>11, <2>1, ZenonT(60) DEF W
<1>13. h[n].chunks = LongestFit(f[n], max) /\ h[n].max_size = max
      BY <1>12, FitIsLongest, ZenonT(60) DEF Loaded
<1> QED BY <1>1, <1>3, <1>5, <1>7, <1>13, ZenonT(60)

-----------------------------------------------------------------------------
(* The first state. *)
LEMMA InitEstablishes == Init => IInv
<1> SUFFICES ASSUME Init PROVE IInv
    OBVIOUS
<1>1. PICK max \in Limits : inner = [raw_cache |-> New(max), needs_saving |-> FALSE, poisoned |-> FALSE]
      BY ZenonT(60) DEF Init, Fresh
<1>2. New(max) \in Sound /\ New(max) \in Cache
      BY LimitsAssumption, NewSound, ZenonT(60) DEF Sound
<1>3. TypeOK
  <2>1. inner \in Inner
        BY <1>1, <1>2, ZenonT(60) DEF Inner
  <2>2. writer \in Writer /\ tmp \in File /\ main \in File /\ saved \in Seq(Entry)
        BY DEF Init, Writer, Asleep, NoFile, File
  <2>3. count \in Count
        BY BoundsAssumption DEF Init, Count
  <2> QED BY <2>1, <2>2, <2>3, ZenonT(60) DEF Init, TypeOK, Inner, Writer, Count
<1> QED BY <1>1, <1>2, <1>3, ZenonT(60) DEF Init, IInv, Asleep, NoFile, Writing, Promised

-----------------------------------------------------------------------------
(* The keys of a cache are keys. *)
LEMMA KeysAreKeys ==
    ASSUME NEW c \in Cache
    PROVE  Keys(c) \subseteq Key
<1>1. c.chunks \in Seq(Entry)
      BY DEF Cache
<1>2. \A i \in DOMAIN c.chunks : c.chunks[i] \in Entry
      BY <1>1
<1> QED BY <1>2, ZenonT(60) DEF Keys, Entry

(* The transfer tasks. *)
LEMMA StorePreserves ==
    ASSUME IInv, NEW d \in Data, Store(d)
    PROVE  IInv'
<1>1. PICK c \in Sound : c = Insert(inner.raw_cache, Hash(d), d)
      BY InsertKeeps, ZenonT(60) DEF IInv
<1>2. inner' = [raw_cache |-> c, needs_saving |-> inner.needs_saving, poisoned |-> inner.poisoned] /\ c \in Cache
      BY <1>1, ZenonT(60) DEF Store, IInv, TypeOK, Sound
<1>3. inner'.raw_cache = c /\ inner'.needs_saving = inner.needs_saving
      BY <1>2
<1>4. owed' = owed \cap Keys(c)
      BY <1>3 DEF Store
<1>5. TypeOK'
  <2>1. Keys(inner.raw_cache) \subseteq Key /\ Hash(d) \in Key
        BY KeysAreKeys, ZenonT(60) DEF IInv, TypeOK, Key
  <2>2. evicted' \subseteq Key
        BY <2>1, ZenonT(60) DEF IInv, TypeOK, Store
  <2>3. owed' \subseteq Key
        BY <1>4, ZenonT(60) DEF IInv, TypeOK
  <2>4. inner' \in Inner
        BY <1>2, ZenonT(60) DEF IInv, TypeOK, Inner
  <2> QED BY <2>2, <2>3, <2>4, ZenonT(60) DEF IInv, TypeOK, Store, Inner
<1>6. Writing'
      BY DEF IInv, Writing, Store
<1>7. Promised'
      BY <1>3, <1>4, ZenonT(60) DEF IInv, Promised, Store
<1> QED BY <1>3, <1>4, <1>5, <1>6, <1>7, ZenonT(60) DEF IInv, Store

LEMMA UsePreserves ==
    ASSUME IInv, NEW k \in Key, Use(k)
    PROVE  IInv'
<1>1. PICK c \in Sound : c = Get(inner.raw_cache, k) /\ Keys(c) = Keys(inner.raw_cache)
      BY GetKeeps, ZenonT(60) DEF IInv
<1>2. inner' = [raw_cache |-> c, needs_saving |-> inner.needs_saving, poisoned |-> inner.poisoned] /\ c \in Cache
      BY <1>1, ZenonT(60) DEF Use, IInv, TypeOK, Sound
<1>3. inner'.raw_cache = c /\ inner'.needs_saving = inner.needs_saving
      BY <1>2, ZenonT(60)
<1>4. TypeOK'
      BY <1>2 DEF IInv, TypeOK, Use
<1>5. Writing'
      BY DEF IInv, Writing, Use
<1>6. Promised'
      BY <1>3, ZenonT(60) DEF IInv, Promised, Use
<1> QED BY <1>1, <1>3, <1>4, <1>5, <1>6, ZenonT(60) DEF IInv, Use

LEMMA MarkDirtyPreserves ==
    ASSUME IInv, MarkDirty
    PROVE  IInv'
<1>1. inner' = [raw_cache |-> inner.raw_cache, needs_saving |-> TRUE, poisoned |-> inner.poisoned]
      BY ZenonT(60) DEF MarkDirty, Flagged, IInv, TypeOK
<1>2. inner'.raw_cache = inner.raw_cache /\ inner'.needs_saving = TRUE
      BY <1>1, ZenonT(60)
<1>3. Keys(inner.raw_cache) \subseteq Key
      BY KeysAreKeys, ZenonT(60) DEF IInv, TypeOK
<1>4. TypeOK'
  <2>1. inner' \in Inner
        BY <1>1, ZenonT(60) DEF IInv, TypeOK, Inner
  <2> QED BY <1>3, <2>1, ZenonT(60) DEF IInv, TypeOK, MarkDirty, Inner
<1>5. Writing'
      BY DEF IInv, Writing, MarkDirty
<1> QED BY <1>2, <1>4, <1>5, ZenonT(60) DEF IInv, Promised, MarkDirty

(* The panic leaves the cache and the flag as they are. *)
LEMMA PoisonPreserves ==
    ASSUME IInv, Poison
    PROVE  IInv'
<1>1. inner' = [raw_cache |-> inner.raw_cache, needs_saving |-> inner.needs_saving, poisoned |-> TRUE]
      BY ZenonT(60) DEF Poison, IInv, TypeOK
<1>2. inner'.raw_cache = inner.raw_cache /\ inner'.needs_saving = inner.needs_saving
      BY <1>1, ZenonT(60)
<1>3. TypeOK'
      BY <1>1, ZenonT(60) DEF IInv, TypeOK, Poison
<1>4. Writing'
      BY DEF IInv, Writing, Poison
<1>5. Promised'
      BY <1>2, ZenonT(60) DEF IInv, Promised, Poison
<1> QED BY <1>2, <1>3, <1>4, <1>5, ZenonT(60) DEF IInv, Poison

-----------------------------------------------------------------------------
(* The writer task. *)
LEMMA TakeSnapshotPreserves ==
    ASSUME IInv, TakeSnapshot
    PROVE  IInv'
<1>1. CASE ~inner.poisoned
  <2>1. inner' = [raw_cache |-> inner.raw_cache, needs_saving |-> FALSE, poisoned |-> inner.poisoned]
        BY <1>1, ZenonT(60) DEF TakeSnapshot, IInv, TypeOK
  <2>2. inner'.raw_cache = inner.raw_cache
        BY <2>1, ZenonT(60)
  <2>3. /\ writer' = [at |-> "create", clone |-> inner.raw_cache.chunks]
        /\ inner.raw_cache.chunks \in Seq(Entry)
        BY <1>1 DEF TakeSnapshot, IInv, TypeOK, Cache
  <2>4. TypeOK'
    <3>1. inner' \in Inner /\ writer' \in Writer
          BY <2>1, <2>3, ZenonT(60) DEF IInv, TypeOK, Inner, Writer
    <3> QED BY <3>1, ZenonT(60) DEF IInv, TypeOK, TakeSnapshot, Inner, Writer
  <2>5. Writing'
        BY <2>3, ZenonT(60) DEF Writing
  <2>6. Promised'
    <3>1. KeysIn(writer'.clone) = Keys(inner.raw_cache)
          BY <2>3, ZenonT(60) DEF KeysIn, Keys
    <3> QED BY <2>3, <3>1 DEF IInv, Promised, TakeSnapshot
  <2> QED BY <2>2, <2>3, <2>4, <2>5, <2>6, ZenonT(60) DEF IInv, TakeSnapshot
<1>2. CASE inner.poisoned
  <2>1. writer' = [at |-> "dead", clone |-> <<>>] /\ inner' = inner /\ writer.at = "sleep"
        BY <1>2, ZenonT(60) DEF TakeSnapshot, Dead
  <2>2. TypeOK'
    <3>1. writer' \in Writer
          BY <2>1 DEF Writer
    <3> QED BY <2>1, <3>1, ZenonT(60) DEF IInv, TypeOK, TakeSnapshot, Writer
  <2>3. Writing'
        BY <2>1 DEF Writing
  <2>4. Promised'
        BY <2>1 DEF IInv, Promised, TakeSnapshot
  <2> QED BY <2>1, <2>2, <2>3, <2>4, ZenonT(60) DEF IInv, TakeSnapshot
<1> QED BY <1>1, <1>2, ZenonT(60)

LEMMA CreateTempPreserves ==
    ASSUME IInv, CreateTemp
    PROVE  IInv'
<1>1. /\ tmp' = [state |-> "torn", chunks |-> <<>>]
      /\ writer' = [at |-> "write", clone |-> writer.clone]
      /\ writer.clone \in Seq(Entry)
      BY DEF CreateTemp, IInv, TypeOK
<1>2. TypeOK'
  <2>1. tmp' \in File /\ writer' \in Writer
        BY <1>1 DEF File, Writer
  <2> QED BY <2>1, ZenonT(60) DEF IInv, TypeOK, CreateTemp, Writer
<1>3. Writing'
      BY <1>1 DEF Writing
<1>4. Promised'
      BY <1>1 DEF IInv, Promised, CreateTemp
<1>5. up
      BY DEF IInv, CreateTemp, Asleep
<1> QED BY <1>2, <1>3, <1>4, <1>5, ZenonT(60) DEF IInv, CreateTemp

LEMMA WriteNextPreserves ==
    ASSUME IInv, WriteNext
    PROVE  IInv'
<1>1. /\ tmp.chunks \in Seq(Entry) /\ tmp \in File
      /\ writer.clone \in Seq(Entry) /\ writer.at = "write"
      /\ Len(tmp.chunks) <= Len(writer.clone)
      /\ tmp.chunks = SubSeq(writer.clone, 1, Len(tmp.chunks))
      BY DEF WriteNext, IInv, TypeOK, File, Writing
<1>2. up
      BY <1>1 DEF IInv, Asleep
<1>3. CASE Len(tmp.chunks) < Len(writer.clone)
  <2>1. PICK s \in Seq(Entry) : s = Append(tmp.chunks, writer.clone[Len(tmp.chunks) + 1])
    <3>1. Len(tmp.chunks) + 1 \in 1..Len(writer.clone)
          BY <1>1, <1>3
    <3>2. writer.clone[Len(tmp.chunks) + 1] \in Entry
          BY <1>1, <3>1
    <3>3. Append(tmp.chunks, writer.clone[Len(tmp.chunks) + 1]) \in Seq(Entry)
          BY <1>1, <3>2
    <3> QED BY <3>3, ZenonT(60)
  <2>2. tmp' = [state |-> tmp.state, chunks |-> s] /\ writer' = writer
        BY <1>1, <1>3, <2>1, ZenonT(60) DEF WriteNext, NthWritten, File
  <2>3. Len(s) <= Len(writer.clone) /\ s = SubSeq(writer.clone, 1, Len(s))
    <3>1. Len(s) = Len(tmp.chunks) + 1
          BY <1>1, <2>1
    <3>2. SubSeq(writer.clone, 1, Len(tmp.chunks) + 1) =
            Append(SubSeq(writer.clone, 1, Len(tmp.chunks)), writer.clone[Len(tmp.chunks) + 1])
      <4>1. /\ Len(tmp.chunks) + 1 \in 1..Len(writer.clone)
            /\ (Len(tmp.chunks) + 1) - 1 = Len(tmp.chunks)
            BY <1>1, <1>3
      <4> QED BY <1>1, <4>1, OneMoreEntry, ZenonT(60)
    <3>3. s = SubSeq(writer.clone, 1, Len(s))
          BY <1>1, <2>1, <3>1, <3>2, ZenonT(60)
    <3>4. Len(s) <= Len(writer.clone)
          BY <1>1, <1>3, <3>1
    <3> QED BY <3>3, <3>4
  <2>4. TypeOK'
        BY <1>1, <2>2, ZenonT(60) DEF IInv, TypeOK, WriteNext, File
  <2>5. Writing'
        BY <1>1, <2>2, <2>3, ZenonT(60) DEF Writing
  <2>6. Promised'
        BY <2>2, ZenonT(60) DEF IInv, Promised, WriteNext
  <2> QED BY <1>2, <2>2, <2>4, <2>5, <2>6, ZenonT(60) DEF IInv, WriteNext
<1>4. CASE ~(Len(tmp.chunks) < Len(writer.clone))
  <2>1. /\ tmp' = [state |-> "complete", chunks |-> tmp.chunks]
        /\ writer' = [at |-> "rename", clone |-> writer.clone]
        BY <1>1, <1>4, ZenonT(60) DEF WriteNext, IInv, TypeOK, File
  <2>2. tmp.chunks = writer.clone
    <3>1. Len(tmp.chunks) = Len(writer.clone)
          BY <1>1, <1>4
    <3>2. SubSeq(writer.clone, 1, Len(writer.clone)) = writer.clone
          BY <1>1, Whole, ZenonT(60)
    <3> QED BY <1>1, <3>1, <3>2, ZenonT(60)
  <2>3. TypeOK'
        BY <1>1, <2>1, ZenonT(60) DEF IInv, TypeOK, WriteNext, File
  <2>4. Writing'
        BY <2>1, <2>2, ZenonT(60) DEF Writing
  <2>5. Promised'
        BY <1>1, <2>1, ZenonT(60) DEF IInv, Promised, WriteNext
  <2> QED BY <1>2, <2>3, <2>4, <2>5, ZenonT(60) DEF IInv, WriteNext
<1> QED BY <1>3, <1>4, ZenonT(60)

LEMMA RenamePreserves ==
    ASSUME IInv, Rename
    PROVE  IInv'
<1>1. /\ main' = tmp /\ tmp.state = "complete" /\ tmp.chunks = writer.clone
      /\ writer.at = "rename" /\ writer' = Asleep /\ tmp' = NoFile
      BY ZenonT(60) DEF Rename, IInv, Writing
<1>2. TypeOK'
      BY <1>1 DEF IInv, TypeOK, Rename, Asleep, NoFile, File
<1>3. Writing'
      BY <1>1, ZenonT(60) DEF Writing, Asleep
<1>4. Promised'
      BY <1>1 DEF IInv, Promised, Rename, Asleep
<1> QED BY <1>1, <1>2, <1>3, <1>4, ZenonT(60) DEF IInv, Rename

LEMMA SaveFailsPreserves ==
    ASSUME IInv, SaveFails
    PROVE  IInv'
<1>1. TypeOK'
  <2>1. count' \in Count
        BY BoundsAssumption DEF IInv, TypeOK, SaveFails, Count
  <2>2. writer' \in Writer
        BY DEF SaveFails, Asleep, Writer
  <2> QED BY <2>1, <2>2, ZenonT(60) DEF IInv, TypeOK, SaveFails, Count, Writer
<1>2. Writing'
      BY DEF Writing, SaveFails, Asleep
<1> QED BY <1>1, <1>2, ZenonT(60) DEF IInv, Promised, SaveFails

-----------------------------------------------------------------------------
(* The process and the disk. *)
LEMMA StopPreserves ==
    ASSUME IInv, Stop
    PROVE  IInv'
<1>1. PICK max \in Nat : max = inner.raw_cache.max_size
      BY DEF IInv, TypeOK, Cache
<1>2. inner' = [raw_cache |-> New(max), needs_saving |-> FALSE, poisoned |-> FALSE]
      BY <1>1, ZenonT(60) DEF Stop, Fresh
<1>3. New(max) \in Sound /\ New(max) \in Cache
      BY NewSound, ZenonT(60) DEF Sound
<1>4. TypeOK'
  <2>1. count' \in Count
        BY BoundsAssumption DEF IInv, TypeOK, Stop, Count
  <2>2. inner' \in Inner /\ writer' \in Writer
        BY <1>2, <1>3 DEF Stop, Asleep, Inner, Writer
  <2> QED BY <2>1, <2>2, ZenonT(60) DEF IInv, TypeOK, Stop, Count, Inner, Writer
<1>5. Writing'
      BY DEF Writing, Stop, Asleep
<1> QED BY <1>2, <1>3, <1>4, <1>5 DEF IInv, Promised, Stop

LEMMA StartPreserves ==
    ASSUME IInv, Start
    PROVE  IInv'
<1>1. PICK max \in Limits : inner' = [inner EXCEPT !.raw_cache = Load(main, max)]
      BY ZenonT(60) DEF Start
<1>2. Load(main, max) \in Sound /\ Load(main, max) \in Cache
      BY LimitsAssumption, LoadSound, ZenonT(60) DEF IInv, TypeOK, Sound
<1>3. inner' = [raw_cache |-> Load(main, max), needs_saving |-> inner.needs_saving, poisoned |-> inner.poisoned]
      BY <1>1, ZenonT(60) DEF IInv, TypeOK
<1>4. inner'.raw_cache \in Sound
      BY <1>2, <1>3, ZenonT(60)
<1>5. TypeOK'
      BY <1>2, <1>3, ZenonT(60) DEF IInv, TypeOK, Start
<1>6. Writing'
      BY DEF IInv, Writing, Start
<1> QED BY <1>4, <1>5, <1>6, ZenonT(60) DEF IInv, Promised, Start

LEMMA RotPreserves ==
    ASSUME IInv, Rot
    PROVE  IInv'
<1>1. PICK i \in DOMAIN main.chunks, d \in Data : main' = [main EXCEPT !.chunks[i].data = d]
      BY ZenonT(60) DEF Rot
<1>2. main.chunks \in Seq(Entry) /\ main \in File
      BY DEF IInv, TypeOK, File
<1>3. PICK s : s = [main.chunks EXCEPT ![i].data = d]
      BY ZenonT(60)
<1>4. s \in Seq(Entry)
  <2>1. [main.chunks[i] EXCEPT !.data = d] \in Entry
    <3>1. main.chunks[i] \in Entry
          BY <1>2
    <3> QED BY <3>1, ZenonT(60) DEF Entry
  <2>2. s = [main.chunks EXCEPT ![i] = [main.chunks[i] EXCEPT !.data = d]]
        BY <1>3, ZenonT(60)
  <2>3. i \in 1..Len(main.chunks)
        BY <1>2
  <2> QED BY <1>2, <2>1, <2>2, <2>3, OneReplaced, ZenonT(60)
<1>5. main' = [state |-> main.state, chunks |-> s]
      BY <1>1, <1>2, <1>3, ZenonT(60) DEF File
<1>6. KeysIn(main'.chunks) = KeysIn(main.chunks)
  <2>1. DOMAIN s = DOMAIN main.chunks /\ \A j \in DOMAIN s : s[j].key = main.chunks[j].key
        BY <1>2, <1>3 DEF Entry
  <2> QED BY <1>5, <2>1, ZenonT(60) DEF KeysIn
<1>7. TypeOK'
  <2>1. count' \in Count
    <3>1. /\ count \in Count /\ count.rot < MaxRot
          /\ count' = [count EXCEPT !.rot = count.rot + 1]
          BY DEF IInv, TypeOK, Rot, Count
    <3>2. count.rot + 1 \in 0 .. MaxRot
          BY <3>1, BoundsAssumption DEF Count
    <3> QED BY <3>1, <3>2, ZenonT(60) DEF Count
  <2>2. main' \in File
        BY <1>2, <1>4, <1>5, ZenonT(60) DEF File
  <2> QED BY <2>1, <2>2, ZenonT(60) DEF IInv, TypeOK, Rot, Count
<1>8. Writing'
      BY ZenonT(60) DEF IInv, Writing, Rot
<1>9. Promised'
      BY <1>6, ZenonT(60) DEF IInv, Promised, Rot
<1> QED BY <1>5, <1>7, <1>8, <1>9, ZenonT(60) DEF IInv, Rot

-----------------------------------------------------------------------------
(* Every step of the client, the writer and the disk keeps the invariant. *)
THEOREM InductiveInvariant == Spec => []IInv
<1>1. IInv /\ [Next]_vars => IInv'
  <2> SUFFICES ASSUME IInv, [Next]_vars PROVE IInv'
      OBVIOUS
  <2>1. ASSUME NEW d \in Data, Store(d) PROVE IInv'
        BY <2>1, StorePreserves, ZenonT(60)
  <2>2. ASSUME NEW k \in Key, Use(k) PROVE IInv'
        BY <2>2, UsePreserves, ZenonT(60)
  <2>3. CASE MarkDirty
        BY <2>3, MarkDirtyPreserves, ZenonT(60)
  <2>4. CASE TakeSnapshot
        BY <2>4, TakeSnapshotPreserves, ZenonT(60)
  <2>5. CASE Save
        BY <2>5, CreateTempPreserves, WriteNextPreserves, RenamePreserves, ZenonT(60) DEF Save
  <2>6. CASE SaveFails
        BY <2>6, SaveFailsPreserves, ZenonT(60)
  <2>7. CASE Stop
        BY <2>7, StopPreserves, ZenonT(60)
  <2>8. CASE Start
        BY <2>8, StartPreserves, ZenonT(60)
  <2>9. CASE Rot
        BY <2>9, RotPreserves, ZenonT(60)
  <2>10. CASE UNCHANGED vars
        BY <2>10, ZenonT(60) DEF vars, IInv, TypeOK, Writing, Promised
  <2>11. CASE Poison
        BY <2>11, PoisonPreserves, ZenonT(60)
  <2> QED BY <2>1, <2>2, <2>3, <2>4, <2>5, <2>6, <2>7, <2>8, <2>9, <2>10, <2>11, ZenonT(60) DEF Next
<1> QED BY <1>1, InitEstablishes, PTL DEF Spec

(* Whenever the process stops, the file at cache_path is whole or absent: no *)
(* later start fails on it (try_save writes a temporary file, then renames). *)
THEOREM NeverTorn == Spec => []FileNeverTorn
<1>1. IInv => FileNeverTorn
      BY ZenonT(60) DEF IInv, FileNeverTorn
<1> QED BY <1>1, InductiveInvariant, PTL

(* A mark_dirty is never lost, whatever the writer is doing (mark_dirty,     *)
(* try_save).                                                                *)
THEOREM NothingForgotten == Spec => []DirtyNotForgotten
<1>1. IInv => DirtyNotForgotten
      BY ZenonT(60) DEF IInv, Promised, DirtyNotForgotten
<1> QED BY <1>1, InductiveInvariant, PTL

(* Damaged files included, the cache is accounted for, within its limit, and *)
(* holds every chunk under its own hash (insert, read_chunk_cache).          *)
THEOREM CacheStaysSound == Spec => []CacheSound
<1>1. IInv => CacheSound
  <2> SUFFICES ASSUME IInv PROVE CacheSound
      OBVIOUS
  <2>1. AccountsRight(inner.raw_cache) /\ ContentMatchesKeys(inner.raw_cache)
        BY SoundMeans DEF IInv
  <2> QED BY <2>1, ZenonT(60) DEF IInv, CacheSound
<1> QED BY <1>1, InductiveInvariant, PTL

-----------------------------------------------------------------------------
(* The saved chunks and the file.                                          *)

\* The clone and the chunks last saved are those of a cache; the file has the
\* saved keys in the saved order, whatever has become of its contents.
Mirrors ==
    /\ Distinct(writer.clone) /\ Matched(writer.clone)
    /\ Distinct(saved) /\ Matched(saved)
    /\ SameKeys(main.chunks, saved)

LEMMA NothingMirrors == Distinct(<<>>) /\ Matched(<<>>) /\ SameKeys(<<>>, <<>>)
BY DEF Distinct, Matched, SameKeys

LEMMA MirrorsInit == Init => Mirrors
<1> SUFFICES ASSUME Init PROVE Mirrors
    OBVIOUS
<1>1. writer.clone = <<>> /\ main.chunks = <<>> /\ saved = <<>>
      BY DEF Init, Asleep, NoFile
<1> QED BY <1>1, NothingMirrors, ZenonT(60) DEF Mirrors

(* What a cache holds is what the writer clones (try_save). *)
LEMMA MirrorsTakeSnapshot ==
    ASSUME IInv, Mirrors, TakeSnapshot
    PROVE  Mirrors'
<1>1. /\ writer'.clone = inner.raw_cache.chunks \/ writer'.clone = <<>>
      /\ saved' = saved /\ main' = main
      BY DEF TakeSnapshot, Dead
<1>2. Distinct(inner.raw_cache.chunks) /\ Matched(inner.raw_cache.chunks)
      BY DEF IInv, Sound, ContentMatchesKeys, Matched
<1>3. Distinct(writer'.clone) /\ Matched(writer'.clone)
      BY <1>1, <1>2, NothingMirrors, ZenonT(60)
<1> QED BY <1>1, <1>3, ZenonT(60) DEF Mirrors

(* The file that takes the place of the old one holds the whole clone. *)
LEMMA MirrorsRename ==
    ASSUME IInv, Mirrors, Rename
    PROVE  Mirrors'
<1>1. /\ writer'.clone = <<>> /\ saved' = writer.clone /\ main'.chunks = writer.clone
      /\ writer.clone \in Seq(Entry)
      BY DEF Rename, IInv, Writing, Asleep, TypeOK
<1>2. SameKeys(writer.clone, writer.clone)
      BY <1>1, ZenonT(60) DEF SameKeys
<1> QED BY <1>1, <1>2, NothingMirrors, ZenonT(60) DEF Mirrors

(* A chunk that changes on disk keeps its place and its key. *)
LEMMA MirrorsRot ==
    ASSUME IInv, Mirrors, Rot
    PROVE  Mirrors'
<1>1. PICK i \in DOMAIN main.chunks, d \in Data : main' = [main EXCEPT !.chunks[i].data = d]
      BY ZenonT(60) DEF Rot
<1>2. main.chunks \in Seq(Entry) /\ main \in File /\ writer' = writer /\ saved' = saved
      BY DEF IInv, TypeOK, File, Rot
<1>3. PICK s : s = [main.chunks EXCEPT ![i].data = d]
      BY ZenonT(60)
<1>4. main'.chunks = s
      BY <1>1, <1>2, <1>3, ZenonT(60) DEF File
<1>5. Len(s) = Len(main.chunks) /\ \A j \in 1 .. Len(main.chunks) : s[j].key = main.chunks[j].key
      BY <1>2, <1>3 DEF Entry
<1>6. SameKeys(s, saved)
      BY <1>5, ZenonT(60) DEF Mirrors, SameKeys
<1> QED BY <1>2, <1>4, <1>6, ZenonT(60) DEF Mirrors

LEMMA MirrorsStep ==
    ASSUME IInv, Mirrors, [Next]_vars
    PROVE  Mirrors'
<1>1. ASSUME writer'.clone = writer.clone, saved' = saved, main' = main PROVE Mirrors'
      BY <1>1, ZenonT(60) DEF Mirrors
<1>2. ASSUME writer' = Asleep, saved' = saved, main' = main PROVE Mirrors'
  <2>1. writer'.clone = <<>>
        BY <1>2 DEF Asleep
  <2> QED BY <1>2, <2>1, NothingMirrors, ZenonT(60) DEF Mirrors
<1>3. ASSUME NEW d \in Data, Store(d) PROVE Mirrors'
      BY <1>1, <1>3, ZenonT(60) DEF Store
<1>4. ASSUME NEW k \in Key, Use(k) PROVE Mirrors'
      BY <1>1, <1>4, ZenonT(60) DEF Use
<1>5. CASE MarkDirty
      BY <1>1, <1>5, ZenonT(60) DEF MarkDirty
<1>6. CASE TakeSnapshot
      BY <1>6, MirrorsTakeSnapshot, ZenonT(60)
<1>7. CASE CreateTemp
  <2>1. writer'.clone = writer.clone
        BY <1>7 DEF CreateTemp, IInv, TypeOK
  <2> QED BY <1>1, <1>7, <2>1, ZenonT(60) DEF CreateTemp
<1>8. CASE WriteNext
  <2>1. writer' = writer \/ writer' = [writer EXCEPT !.at = "rename"]
        BY <1>8, ZenonT(60) DEF WriteNext
  <2>2. writer'.clone = writer.clone
        BY <2>1, ZenonT(60) DEF IInv, TypeOK
  <2> QED BY <1>1, <1>8, <2>2, ZenonT(60) DEF WriteNext
<1>9. CASE Rename
      BY <1>9, MirrorsRename, ZenonT(60)
<1>10. CASE SaveFails
      BY <1>2, <1>10, ZenonT(60) DEF SaveFails
<1>11. CASE Stop
      BY <1>2, <1>11, ZenonT(60) DEF Stop
<1>12. CASE Start
      BY <1>1, <1>12, ZenonT(60) DEF Start
<1>13. CASE Rot
      BY <1>13, MirrorsRot, ZenonT(60)
<1>14. CASE UNCHANGED vars
      BY <1>1, <1>14, ZenonT(60) DEF vars
<1>15. CASE Poison
      BY <1>1, <1>15, ZenonT(60) DEF Poison
<1> QED BY <1>3, <1>4, <1>5, <1>6, <1>7, <1>8, <1>9, <1>10, <1>11, <1>12, <1>13, <1>14, <1>15, ZenonT(60) DEF Next, Save

(* A start restores the chunks of the last completed save that are intact, in *)
(* their recency order, and a smaller limit drops the least recently used     *)
(* ones (write_chunk_cache, read_chunk_cache).                                *)
THEOREM RecencyRestored == Spec => RestoresRecency
<1>1. IInv /\ Mirrors /\ [Next]_vars =>
        [~up /\ up' => inner'.raw_cache.chunks =
             LongestFit(Surviving(saved, Lost(main.chunks)), inner'.raw_cache.max_size)]_vars
  <2> SUFFICES ASSUME IInv, Mirrors, Next, ~up, up'
               PROVE  inner'.raw_cache.chunks =
                        LongestFit(Surviving(saved, Lost(main.chunks)), inner'.raw_cache.max_size)
      BY ZenonT(60) DEF vars
  <2>1. Start
    <3>1. writer.at = "sleep"
          BY DEF IInv, Asleep
    <3> QED BY <3>1, ZenonT(60) DEF Next, Store, Use, MarkDirty, Poison, TakeSnapshot, Save, CreateTemp, WriteNext, Rename,
                        SaveFails, Stop, Rot
  <2>2. PICK max \in Nat : inner' = [inner EXCEPT !.raw_cache = Load(main, max)]
        BY <2>1, LimitsAssumption, ZenonT(60) DEF Start
  <2>3. inner'.raw_cache = Load(main, max)
        BY <2>2 DEF IInv, TypeOK
  <2>4. main \in File /\ saved \in Seq(Entry)
        BY DEF IInv, TypeOK
  <2>5. /\ Load(main, max).max_size = max
        /\ Load(main, max).chunks = LongestFit(Surviving(saved, Lost(main.chunks)), max)
        BY <2>4, LoadRestores, ZenonT(60) DEF Mirrors
  <2> QED BY <2>3, <2>5, ZenonT(60)
<1>2. Mirrors /\ IInv /\ [Next]_vars => Mirrors'
      BY MirrorsStep, ZenonT(60)
<1> QED BY <1>1, <1>2, MirrorsInit, InductiveInvariant, PTL DEF Spec, RestoresRecency
=============================================================================
