------------------------- MODULE RawChunkCacheProofs -------------------------
(***************************************************************************)
(* What insert and get do to a cache, for every content, length and limit: *)
(* the sum of the lengths stays equal to total_size and within max_size,   *)
(* no key is there twice, and every chunk stays under its own hash.        *)
(***************************************************************************)
EXTENDS RawChunkCache, WellFoundedInduction, TLAPS

\* Every entry has its own hash.
Matched(chunks) == \A i \in DOMAIN chunks : chunks[i].key = Hash(chunks[i].data)

\* No entry has this key.
Lacks(chunks, key) == \A i \in DOMAIN chunks : chunks[i].key # key

\* A cache between two calls.
Sound ==
    {cache \in Cache :
        /\ Distinct(cache.chunks)
        /\ cache.total_size = Bytes(cache.chunks)
        /\ cache.total_size <= cache.max_size
        /\ ContentMatchesKeys(cache)}

\* Every entry of s is one of t.
Among(s, t) == \A i \in DOMAIN s : \E j \in DOMAIN t : s[i] = t[j]

\* The entries other than the i-th.
RemoveAt(s, i) == SubSeq(s, 1, i - 1) \o SubSeq(s, i + 1, Len(s))

AddSize(n, e) == n + Size[e.data]

Total == INSTANCE FoldTheorems WITH Op <- AddSize, S <- Nat, E <- Entry

-----------------------------------------------------------------------------
(* Induction, for sets. *)

(* A set of natural numbers has a least element. *)
LEMMA Least ==
    ASSUME NEW A \in SUBSET Nat, A # {}
    PROVE  \E x \in A : \A y \in A : x <= y
<1> DEFINE R == OpToRel(<, Nat)
<1>1. \E x \in A : \A y \in A : ~(<<y, x>> \in R)
  <2>1. IsWellFoundedOn(R, Nat)
        BY NatLessThanWellFounded
  <2> HIDE DEF R
  <2> QED BY <2>1, WFMin
<1>2. PICK x \in A : \A y \in A : ~(<<y, x>> \in R)
      BY <1>1
<1>3. \A y \in A : ~(y < x)
      BY <1>2 DEF OpToRel
<1> QED BY <1>3

(* Induction on the natural numbers, for a set. *)
LEMMA NatSetInduction ==
    ASSUME NEW T, 0 \in T, \A n \in Nat : n \in T => n + 1 \in T
    PROVE  Nat \subseteq T
<1> DEFINE U == Nat \ T
<1> SUFFICES ASSUME U # {} PROVE FALSE
    OBVIOUS
<1>1. PICK x \in U : \A y \in U : x <= y
  <2>1. U \in SUBSET Nat
        OBVIOUS
  <2> HIDE DEF U
  <2> QED BY <2>1, Least
<1>2. x # 0
      OBVIOUS
<1>3. x - 1 \in Nat /\ x - 1 < x /\ (x - 1) + 1 = x
      BY <1>2
<1>4. x - 1 \in T
      BY <1>1, <1>3
<1> QED BY <1>3, <1>4

(* Induction on the sequences over a set, by appending. *)
LEMMA SeqSetInduction ==
    ASSUME NEW D, NEW T, << >> \in T,
           \A s \in Seq(D), e \in D : s \in T => Append(s, e) \in T
    PROVE  Seq(D) \subseteq T
<1> DEFINE U == {n \in Nat : \A s \in Seq(D) : Len(s) = n => s \in T}
<1>1. 0 \in U
  <2> SUFFICES ASSUME NEW s \in Seq(D), Len(s) = 0 PROVE s \in T
      OBVIOUS
  <2>1. s = << >>
        OBVIOUS
  <2> QED BY <2>1
<1>2. \A n \in Nat : n \in U => n + 1 \in U
  <2> SUFFICES ASSUME NEW n \in Nat, n \in U, NEW s \in Seq(D), Len(s) = n + 1
               PROVE  s \in T
      OBVIOUS
  <2>1. SubSeq(s, 1, n) \in Seq(D) /\ Len(SubSeq(s, 1, n)) = n
        OBVIOUS
  <2>2. s[n + 1] \in D
        OBVIOUS
  <2>3. s = Append(SubSeq(s, 1, n), s[n + 1])
        OBVIOUS
  <2>4. SubSeq(s, 1, n) \in T
        BY <2>1
  <2> QED BY <2>1, <2>2, <2>3, <2>4
<1> HIDE DEF U
<1>3. Nat \subseteq U
      BY <1>1, <1>2, NatSetInduction
<1> QED BY <1>3 DEF U

-----------------------------------------------------------------------------
(* The sum of the lengths. *)
LEMMA BytesIsTotal ==
    ASSUME NEW s
    PROVE  Bytes(s) = Total!Fold(0, s)
BY DEF Bytes, AddSize, Total!Fold, Total!Last, Iterate, MapThenFoldSet, Max

LEMMA TotalReady == Total!Closed /\ Total!Induction
<1>1. Total!Closed
      BY SizeAssumption DEF Total!Closed, AddSize, Entry
<1>2. Total!Induction
      BY NatSetInduction DEF Total!Induction
<1> QED BY <1>1, <1>2

LEMMA BytesEmpty == Bytes(<<>>) = 0
<1>1. Total!Fold(0, <<>>) = 0
      BY TotalReady, Total!FoldEmpty
<1> QED BY <1>1, BytesIsTotal

LEMMA BytesType ==
    ASSUME NEW s \in Seq(Entry)
    PROVE  Bytes(s) \in Nat
<1>1. Total!Fold(0, s) \in Nat
      BY TotalReady, Total!FoldType
<1> QED BY <1>1, BytesIsTotal

LEMMA BytesAppend ==
    ASSUME NEW s \in Seq(Entry), NEW e \in Entry
    PROVE  /\ Bytes(Append(s, e)) = Bytes(s) + Size[e.data]
           /\ Size[e.data] \in Nat \ {0}
<1>1. Total!Fold(0, Append(s, e)) = AddSize(Total!Fold(0, s), e)
      BY TotalReady, Total!FoldAppend
<1>2. Bytes(Append(s, e)) = Total!Fold(0, Append(s, e)) /\ Bytes(s) = Total!Fold(0, s)
      BY BytesIsTotal
<1>3. Size[e.data] \in Nat \ {0}
      BY SizeAssumption DEF Entry
<1> QED BY <1>1, <1>2, <1>3 DEF AddSize

LEMMA BytesConcat ==
    ASSUME NEW s \in Seq(Entry)
    PROVE  \A t \in Seq(Entry) : Bytes(s \o t) = Bytes(s) + Bytes(t)
<1> DEFINE T == {t \in Seq(Entry) : Bytes(s \o t) = Bytes(s) + Bytes(t)}
<1>1. <<>> \in T
  <2>1. s \o <<>> = s
        OBVIOUS
  <2>2. Bytes(s) \in Nat
        BY BytesType
  <2> QED BY <2>1, <2>2, BytesEmpty
<1>2. \A t \in Seq(Entry), e \in Entry : t \in T => Append(t, e) \in T
  <2> SUFFICES ASSUME NEW t \in Seq(Entry), NEW e \in Entry, t \in T
               PROVE  Bytes(s \o Append(t, e)) = Bytes(s) + Bytes(Append(t, e))
      OBVIOUS
  <2>1. s \o Append(t, e) = Append(s \o t, e) /\ s \o t \in Seq(Entry)
        OBVIOUS
  <2>2. Bytes(Append(s \o t, e)) = Bytes(s \o t) + Size[e.data] /\ Size[e.data] \in Nat
        BY <2>1, BytesAppend
  <2>3. Bytes(Append(t, e)) = Bytes(t) + Size[e.data]
        BY BytesAppend
  <2>4. Bytes(s) \in Nat /\ Bytes(t) \in Nat
        BY BytesType
  <2> QED BY <2>1, <2>2, <2>3, <2>4
<1> HIDE DEF T
<1>3. Seq(Entry) \subseteq T
      BY <1>1, <1>2, SeqSetInduction
<1> QED BY <1>3 DEF T

(* Pieces of a sequence. *)

LEMMA Whole ==
    ASSUME NEW D, NEW s \in Seq(D)
    PROVE  SubSeq(s, 1, Len(s)) = s
OBVIOUS

LEMMA OneMoreEntry ==
    ASSUME NEW D, NEW s \in Seq(D), NEW i \in 1..Len(s)
    PROVE  SubSeq(s, 1, i) = Append(SubSeq(s, 1, i - 1), s[i])
OBVIOUS

LEMMA OneReplaced ==
    ASSUME NEW D, NEW s \in Seq(D), NEW i \in 1..Len(s), NEW e \in D
    PROVE  [s EXCEPT ![i] = e] \in Seq(D)
OBVIOUS

LEMMA AppendAtEnd ==
    ASSUME NEW D, NEW s \in Seq(D), NEW e \in D
    PROVE  Append(s, e) = s \o <<e>>
OBVIOUS

LEMMA RestLength ==
    ASSUME NEW D, NEW s \in Seq(D), NEW n \in 0..Len(s)
    PROVE  Len(SubSeq(s, n + 1, Len(s))) = Len(s) - n
<1>1. Len(s) \in Nat /\ n \in Nat /\ n <= Len(s)
      OBVIOUS
<1> QED BY <1>1

(* A sequence that begins as l does and goes on as r does. *)
LEMMA Joined ==
    ASSUME NEW D, NEW l \in Seq(D), NEW r \in Seq(D), NEW s \in Seq(D), NEW n \in Nat,
           n <= Len(s), Len(l) = n, Len(r) = Len(s) - n,
           \A i \in 1..n : l[i] = s[i],
           \A i \in 1..(Len(s) - n) : r[i] = s[n + i]
    PROVE  l \o r = s
<1>1. Len(s) \in Nat
      OBVIOUS
<1>2. PICK c \in Seq(D) :
        /\ c = l \o r /\ Len(c) = Len(l) + Len(r)
        /\ \A i \in 1..Len(c) : c[i] = IF i <= Len(l) THEN l[i] ELSE r[i - Len(l)]
  <2>1. /\ l \o r \in Seq(D) /\ Len(l \o r) = Len(l) + Len(r)
        /\ \A i \in 1..(Len(l) + Len(r)) :
              (l \o r)[i] = IF i <= Len(l) THEN l[i] ELSE r[i - Len(l)]
        OBVIOUS
  <2> QED BY <2>1
<1>3. Len(c) = Len(s)
      BY <1>1, <1>2
<1>4. ASSUME NEW i \in 1..Len(s) PROVE c[i] = s[i]
  <2>1. c[i] = IF i <= n THEN l[i] ELSE r[i - n]
        BY <1>2, <1>3
  <2>2. CASE i <= n
    <3>1. i \in 1..n
          BY <1>1, <2>2
    <3> QED BY <2>1, <2>2, <3>1
  <2>3. CASE ~(i <= n)
    <3>1. i - n \in 1..(Len(s) - n) /\ n + (i - n) = i
          BY <1>1, <2>3
    <3>2. r[i - n] = s[n + (i - n)]
          BY <3>1
    <3> QED BY <2>1, <2>3, <3>1, <3>2
  <2> QED BY <2>2, <2>3
<1>5. c = s
      BY <1>3, <1>4
<1> QED BY <1>2, <1>5

LEMMA TwoPieces ==
    ASSUME NEW D, NEW s \in Seq(D), NEW n \in 0..Len(s)
    PROVE  SubSeq(s, 1, n) \o SubSeq(s, n + 1, Len(s)) = s
<1>1. Len(s) \in Nat /\ n \in Nat /\ n <= Len(s)
      OBVIOUS
<1>2. PICK l \in Seq(D) :
        /\ l = SubSeq(s, 1, n) /\ Len(l) = n
        /\ \A i \in 1..n : l[i] = s[i]
  <2>1. SubSeq(s, 1, n) \in Seq(D) /\ Len(SubSeq(s, 1, n)) = n
        BY <1>1
  <2>2. \A i \in 1..n : SubSeq(s, 1, n)[i] = s[i]
        BY <1>1
  <2> QED BY <2>1, <2>2
<1>3. PICK r \in Seq(D) :
        /\ r = SubSeq(s, n + 1, Len(s)) /\ Len(r) = Len(s) - n
        /\ \A i \in 1..(Len(s) - n) : r[i] = s[n + i]
  <2>1. SubSeq(s, n + 1, Len(s)) \in Seq(D)
        BY <1>1
  <2>2. Len(SubSeq(s, n + 1, Len(s))) = Len(s) - n
        BY RestLength
  <2>3. \A i \in 1..(Len(s) - n) : SubSeq(s, n + 1, Len(s))[i] = s[n + i]
        BY <1>1
  <2> QED BY <2>1, <2>2, <2>3
<1>4. /\ Len(l) = n /\ \A i \in 1..n : l[i] = s[i]
      /\ Len(r) = Len(s) - n /\ \A i \in 1..(Len(s) - n) : r[i] = s[n + i]
      BY <1>2, <1>3
<1>5. l \o r = s
      BY <1>1, <1>4, Joined
<1> QED BY <1>2, <1>3, <1>5

(* A sequence is what is before an element, the element and what is after. *)
LEMMA SplitAt ==
    ASSUME NEW D, NEW s \in Seq(D), NEW i \in 1..Len(s)
    PROVE  /\ SubSeq(s, 1, i - 1) \in Seq(D)
           /\ SubSeq(s, i + 1, Len(s)) \in Seq(D)
           /\ Len(SubSeq(s, 1, i - 1)) = i - 1
           /\ Len(SubSeq(s, i + 1, Len(s))) = Len(s) - i
           /\ s[i] \in D
           /\ s = Append(SubSeq(s, 1, i - 1), s[i]) \o SubSeq(s, i + 1, Len(s))
<1>1. Len(s) \in Nat
      OBVIOUS
<1>2. /\ SubSeq(s, 1, i - 1) \in Seq(D)
      /\ Len(SubSeq(s, 1, i - 1)) = i - 1
      BY <1>1
<1>3. /\ SubSeq(s, i + 1, Len(s)) \in Seq(D)
      /\ Len(SubSeq(s, i + 1, Len(s))) = Len(s) - i
      BY <1>1
<1>4. s[i] \in D
      OBVIOUS
<1>5. SubSeq(s, 1, i) = Append(SubSeq(s, 1, i - 1), s[i])
      BY OneMoreEntry
<1>6. SubSeq(s, 1, i) \o SubSeq(s, i + 1, Len(s)) = s
  <2>1. i \in 0..Len(s)
        BY <1>1
  <2> QED BY <2>1, TwoPieces
<1> QED BY <1>2, <1>3, <1>4, <1>5, <1>6

(* Taking one entry out of the map takes its length out of the sum. *)
LEMMA BytesRemoveAt ==
    ASSUME NEW s \in Seq(Entry), NEW i \in 1..Len(s)
    PROVE  /\ RemoveAt(s, i) \in Seq(Entry)
           /\ Bytes(s) = Bytes(RemoveAt(s, i)) + Size[s[i].data]
<1>1. PICK l \in Seq(Entry) : l = SubSeq(s, 1, i - 1)
      BY SplitAt
<1>2. PICK r \in Seq(Entry) : r = SubSeq(s, i + 1, Len(s))
      BY SplitAt
<1>3. PICK e \in Entry : e = s[i]
      BY SplitAt
<1>4. s = Append(l, e) \o r
  <2>1. s = Append(SubSeq(s, 1, i - 1), s[i]) \o SubSeq(s, i + 1, Len(s))
        BY SplitAt
  <2> QED BY <1>1, <1>2, <1>3, <2>1
<1>5. RemoveAt(s, i) = l \o r /\ l \o r \in Seq(Entry)
      BY <1>1, <1>2 DEF RemoveAt
<1>6. Bytes(Append(l, e) \o r) = Bytes(Append(l, e)) + Bytes(r)
  <2>1. Append(l, e) \in Seq(Entry)
        OBVIOUS
  <2> QED BY <2>1, BytesConcat
<1>7. Bytes(Append(l, e)) = Bytes(l) + Size[e.data] /\ Size[e.data] \in Nat
      BY BytesAppend
<1>8. Bytes(l \o r) = Bytes(l) + Bytes(r)
      BY BytesConcat
<1>9. Bytes(l) \in Nat /\ Bytes(r) \in Nat
      BY BytesType
<1>10. Bytes(s) = (Bytes(l) + Size[e.data]) + Bytes(r)
      BY <1>4, <1>6, <1>7
<1>11. Bytes(RemoveAt(s, i)) = Bytes(l) + Bytes(r)
      BY <1>5, <1>8
<1>12. Bytes(s) = Bytes(RemoveAt(s, i)) + Size[e.data]
      BY <1>7, <1>9, <1>10, <1>11
<1> QED BY <1>3, <1>5, <1>12

(* The entries that are left. *)
LEMMA RemoveAtEntries ==
    ASSUME NEW s \in Seq(Entry), NEW i \in 1..Len(s)
    PROVE  /\ Len(RemoveAt(s, i)) = Len(s) - 1
           /\ \A j \in 1..(Len(s) - 1) :
                 RemoveAt(s, i)[j] = s[IF j < i THEN j ELSE j + 1]
<1>1. PICK l \in Seq(Entry) :
        /\ l = SubSeq(s, 1, i - 1)
        /\ Len(l) = i - 1
        /\ \A j \in 1..(i - 1) : l[j] = s[j]
  <2>1. Len(s) \in Nat
        OBVIOUS
  <2>2. \A j \in 1..(i - 1) : SubSeq(s, 1, i - 1)[j] = s[j]
        BY <2>1
  <2> QED BY <2>2, SplitAt
<1>2. PICK r \in Seq(Entry) :
        /\ r = SubSeq(s, i + 1, Len(s))
        /\ Len(r) = Len(s) - i
        /\ \A j \in 1..(Len(s) - i) : r[j] = s[i + j]
  <2>1. Len(s) \in Nat
        OBVIOUS
  <2>2. \A j \in 1..(Len(s) - i) : SubSeq(s, i + 1, Len(s))[j] = s[i + j]
        BY <2>1
  <2> QED BY <2>2, SplitAt
<1>3. RemoveAt(s, i) = l \o r
      BY <1>1, <1>2 DEF RemoveAt
<1>4. /\ Len(l \o r) = Len(l) + Len(r)
      /\ \A j \in 1..(Len(l) + Len(r)) :
            (l \o r)[j] = IF j <= Len(l) THEN l[j] ELSE r[j - Len(l)]
      OBVIOUS
<1>5. Len(l) + Len(r) = Len(s) - 1 /\ Len(s) \in Nat
  <2>1. Len(s) \in Nat
        OBVIOUS
  <2>2. Len(l) = i - 1 /\ Len(r) = Len(s) - i
        BY <1>1, <1>2
  <2>3. i \in Int
        BY <2>1
  <2> QED BY <2>1, <2>2, <2>3
<1>6. ASSUME NEW j \in 1..(Len(s) - 1)
      PROVE  (l \o r)[j] = s[IF j < i THEN j ELSE j + 1]
  <2>1. CASE j < i
        BY <1>1, <1>4, <1>5, <2>1
  <2>2. CASE j >= i
    <3>1. (l \o r)[j] = r[j - (i - 1)]
          BY <1>1, <1>4, <1>5, <2>2
    <3>2. j - (i - 1) \in 1..(Len(s) - i) /\ i + (j - (i - 1)) = j + 1 /\ ~(j < i)
          BY <1>5, <2>2
    <3> QED BY <1>2, <3>1, <3>2
  <2> QED BY <1>5, <2>1, <2>2
<1> QED BY <1>3, <1>4, <1>5, <1>6

-----------------------------------------------------------------------------
(* Where a key of the map is found. *)
LEMMA IndexOfHas ==
    ASSUME NEW cache \in Cache, NEW key, Has(cache, key)
    PROVE  /\ IndexOf(cache.chunks, key) \in 1..Len(cache.chunks)
           /\ cache.chunks[IndexOf(cache.chunks, key)].key = key
<1>1. \E i \in DOMAIN cache.chunks : cache.chunks[i].key = key
      BY DEF Has, Keys
<1>2. DOMAIN cache.chunks = 1..Len(cache.chunks)
      BY DEF Cache
<1> QED BY <1>1, <1>2 DEF IndexOf

(* Taking out the entry of a key: the other entries stay, with their sum. *)
LEMMA WithoutKeeps ==
    ASSUME NEW cache \in Cache, Distinct(cache.chunks), NEW key
    PROVE  /\ Without(cache, key) \in Seq(Entry)
           /\ Distinct(Without(cache, key))
           /\ Among(Without(cache, key), cache.chunks)
           /\ Lacks(Without(cache, key), key)
           /\ \A i \in DOMAIN cache.chunks : cache.chunks[i].key # key =>
                 \E j \in DOMAIN Without(cache, key) : Without(cache, key)[j] = cache.chunks[i]
           /\ Bytes(cache.chunks) =
                 Bytes(Without(cache, key)) +
                    (IF Has(cache, key) THEN Size[Lookup(cache, key)] ELSE 0)
<1>1. PICK s \in Seq(Entry) : s = cache.chunks
      BY DEF Cache
<1>2. DOMAIN s = 1..Len(s) /\ Len(s) \in Nat
      OBVIOUS
<1>3. CASE ~Has(cache, key)
  <2>1. Without(cache, key) = s
        BY <1>1, <1>3 DEF Without
  <2>2. Lacks(s, key)
        BY <1>1, <1>3 DEF Has, Keys, Lacks
  <2>3. Bytes(s) \in Nat
        BY BytesType
  <2> QED BY <1>1, <1>3, <2>1, <2>2, <2>3 DEF Among
<1>4. CASE Has(cache, key)
  <2>1. PICK i \in 1..Len(s) : i = IndexOf(s, key) /\ s[i].key = key
        BY <1>1, <1>4, IndexOfHas
  <2>2. PICK w \in Seq(Entry) : w = RemoveAt(s, i) /\ Bytes(s) = Bytes(w) + Size[s[i].data]
        BY BytesRemoveAt
  <2>3. Without(cache, key) = w
        BY <1>1, <1>4, <2>1, <2>2 DEF Without, RemoveAt
  <2>4. Lookup(cache, key) = s[i].data
        BY <1>1, <2>1 DEF Lookup
  <2>5. /\ Len(w) = Len(s) - 1
        /\ DOMAIN w = 1..(Len(s) - 1)
        /\ \A j \in 1..(Len(s) - 1) : w[j] = s[IF j < i THEN j ELSE j + 1]
    <3>1. /\ Len(w) = Len(s) - 1
          /\ \A j \in 1..(Len(s) - 1) : w[j] = s[IF j < i THEN j ELSE j + 1]
          BY <2>2, RemoveAtEntries
    <3>2. DOMAIN w = 1..Len(w)
          OBVIOUS
    <3> QED BY <3>1, <3>2
  <2>6. Distinct(s)
        BY <1>1
  <2>7. \A j \in DOMAIN w : (IF j < i THEN j ELSE j + 1) \in 1..Len(s)
        BY <1>2, <2>5
  <2>8. Among(w, s)
        BY <1>2, <2>5, <2>7 DEF Among
  <2>9. Lacks(w, key)
    <3> SUFFICES ASSUME NEW j \in DOMAIN w, w[j].key = key PROVE FALSE
        BY DEF Lacks
    <3>1. CASE j < i
          BY <1>2, <2>1, <2>5, <2>6, <2>7, <3>1 DEF Distinct
    <3>2. CASE ~(j < i)
      <4>1. w[j] = s[j + 1] /\ j + 1 \in 1..Len(s) /\ j + 1 # i
            BY <2>5, <2>7, <3>2
      <4> QED BY <1>2, <2>1, <2>6, <4>1 DEF Distinct
    <3> QED BY <3>1, <3>2
  <2>10. Distinct(w)
    <3> SUFFICES ASSUME NEW j \in DOMAIN w, NEW k \in DOMAIN w, w[j].key = w[k].key
                 PROVE  j = k
        BY DEF Distinct
    <3>1. (IF j < i THEN j ELSE j + 1) = (IF k < i THEN k ELSE k + 1)
          BY <1>2, <2>5, <2>6, <2>7 DEF Distinct
    <3> QED BY <2>5, <3>1
  <2>11. ASSUME NEW j \in DOMAIN s, s[j].key # key
         PROVE  \E k \in DOMAIN w : w[k] = s[j]
    <3>1. CASE j < i
      <4>1. j \in DOMAIN w /\ w[j] = s[j]
            BY <1>2, <2>5, <3>1
      <4> QED BY <4>1
    <3>2. CASE j > i
      <4>1. j - 1 \in DOMAIN w /\ w[j - 1] = s[j]
            BY <1>2, <2>5, <3>2
      <4> QED BY <4>1
    <3>3. j # i
          BY <2>1, <2>11
    <3> QED BY <1>2, <3>1, <3>2, <3>3
  <2> QED BY <1>1, <1>4, <2>2, <2>3, <2>4, <2>8, <2>9, <2>10, <2>11
<1> QED BY <1>3, <1>4

-----------------------------------------------------------------------------
(* What pop_front leaves adds up to what is left of total_size. *)
LEMMA BytesSuffix ==
    ASSUME NEW s \in Seq(Entry), NEW n \in 0..Len(s)
    PROVE  /\ SubSeq(s, 1, n) \in Seq(Entry)
           /\ SubSeq(s, n + 1, Len(s)) \in Seq(Entry)
           /\ Bytes(s) - Bytes(SubSeq(s, 1, n)) = Bytes(SubSeq(s, n + 1, Len(s)))
<1>1. Len(s) \in Nat
      OBVIOUS
<1>2. PICK l \in Seq(Entry) : l = SubSeq(s, 1, n)
  <2>1. SubSeq(s, 1, n) \in Seq(Entry)
        BY <1>1
  <2> QED BY <2>1
<1>3. PICK r \in Seq(Entry) : r = SubSeq(s, n + 1, Len(s))
  <2>1. SubSeq(s, n + 1, Len(s)) \in Seq(Entry)
        BY <1>1
  <2> QED BY <2>1
<1>4. s = l \o r
  <2>1. SubSeq(s, 1, n) \o SubSeq(s, n + 1, Len(s)) = s
        BY TwoPieces
  <2> QED BY <1>2, <1>3, <2>1
<1>5. Bytes(s) = Bytes(l) + Bytes(r)
      BY <1>4, BytesConcat
<1>6. Bytes(l) \in Nat /\ Bytes(r) \in Nat
      BY BytesType
<1> QED BY <1>2, <1>3, <1>5, <1>6

(* The loop of insert ends within the limit and pops no chunk more than that *)
(* takes.                                                                    *)
LEMMA EvictLoopStops ==
    ASSUME NEW cache \in Cache, cache.total_size = Bytes(cache.chunks)
    PROVE  \E n \in 0..Len(cache.chunks) : \E r \in Seq(Entry) :
              /\ r = SubSeq(cache.chunks, n + 1, Len(cache.chunks))
              /\ EvictLoop(cache) = [cache EXCEPT !.chunks = r, !.total_size = Bytes(r)]
              /\ Bytes(r) <= cache.max_size
              /\ \A i \in 0..(n - 1) :
                    Bytes(SubSeq(cache.chunks, i + 1, Len(cache.chunks))) > cache.max_size
<1> DEFINE s == cache.chunks
           Left(i) == cache.total_size - Bytes(SubSeq(s, 1, i))
           A == {i \in 0..Len(s) : Left(i) <= cache.max_size}
<1>1. s \in Seq(Entry) /\ Len(s) \in Nat /\ cache.max_size \in Nat
      BY DEF Cache
<1>2. \A i \in 0..Len(s) :
        /\ Left(i) = Bytes(SubSeq(s, i + 1, Len(s)))
        /\ Left(i) \in Nat
        /\ SubSeq(s, i + 1, Len(s)) \in Seq(Entry)
      BY <1>1, BytesSuffix, BytesType
<1>3. Left(Len(s)) = 0
  <2>1. SubSeq(s, 1, Len(s)) = s
        BY <1>1, Whole
  <2>2. Bytes(s) \in Nat
        BY <1>1, BytesType
  <2>3. Left(Len(s)) = Bytes(s) - Bytes(s)
        BY <2>1
  <2> QED BY <2>2, <2>3
<1>4. PICK n \in A : \A i \in A : n <= i
  <2>1. Len(s) \in A
        BY <1>1, <1>3
  <2>2. A \in SUBSET Nat
        BY <1>1
  <2> HIDE DEF A
  <2> QED BY <2>1, <2>2, Least
<1>5. Min(A) = n
  <2>1. A \in SUBSET Nat
        BY <1>1
  <2>2. Min(A) = CHOOSE x \in A : \A y \in A : x <= y
        BY Zenon DEF Min
  <2> HIDE DEF A
  <2>3. \A x \in A : (\A y \in A : x <= y) => x = n
    <3> SUFFICES ASSUME NEW x \in A, \A y \in A : x <= y PROVE x = n
        OBVIOUS
    <3>1. x <= n /\ n <= x /\ x \in Nat /\ n \in Nat
          BY <1>4, <2>1
    <3> QED BY <3>1
  <2> QED BY <1>4, <2>2, <2>3
<1>6. EvictLoop(cache) = [cache EXCEPT !.chunks = SubSeq(s, n + 1, Len(s)), !.total_size = Left(n)]
      BY <1>5 DEF EvictLoop
<1>7. \A i \in 0..(n - 1) : Left(i) > cache.max_size
  <2> SUFFICES ASSUME NEW i \in 0..(n - 1), ~(Left(i) > cache.max_size) PROVE FALSE
      OBVIOUS
  <2>1. i \in 0..Len(s) /\ i < n
        BY <1>1, <1>4
  <2>2. Left(i) <= cache.max_size
        BY <1>1, <1>2, <2>1
  <2>3. i \in A
        BY <2>1, <2>2
  <2> QED BY <1>1, <1>4, <2>1, <2>3
<1>8. \A i \in 0..(n - 1) : Bytes(SubSeq(s, i + 1, Len(s))) > cache.max_size
  <2>1. \A i \in 0..(n - 1) : i \in 0..Len(s)
        BY <1>1, <1>4
  <2> QED BY <1>2, <1>7, <2>1
<1> QED BY <1>2, <1>4, <1>6, <1>8

-----------------------------------------------------------------------------
(* The two operations on a sound cache. *)

(* An entry with its own hash at the back. *)
LEMMA AppendEntry ==
    ASSUME NEW s \in Seq(Entry), Distinct(s), NEW d \in Data,
           Matched(s),
           Lacks(s, Hash(d))
    PROVE  \E a \in Seq(Entry) :
              /\ a = Append(s, [key |-> Hash(d), data |-> d])
              /\ Distinct(a)
              /\ Matched(a)
              /\ Bytes(a) = Bytes(s) + Size[d]
<1>1. PICK e \in Entry : e = [key |-> Hash(d), data |-> d]
      BY DEF Entry, Key
<1>2. PICK a \in Seq(Entry) : a = Append(s, e)
  <2>1. Append(s, e) \in Seq(Entry)
        OBVIOUS
  <2> QED BY <2>1
<1>3. /\ Len(s) \in Nat
      /\ DOMAIN s = 1..Len(s)
      /\ DOMAIN a = 1..(Len(s) + 1)
      /\ \A i \in 1..Len(s) : a[i] = s[i]
      /\ a[Len(s) + 1] = e
      BY <1>2
<1>4. \A i \in DOMAIN a : i \in 1..Len(s) \/ i = Len(s) + 1
      BY <1>3
<1>5. Distinct(a)
  <2> SUFFICES ASSUME NEW i \in DOMAIN a, NEW j \in DOMAIN a, a[i].key = a[j].key
               PROVE  i = j
      BY DEF Distinct
  <2>1. CASE i \in 1..Len(s) /\ j \in 1..Len(s)
        BY <1>3, <2>1 DEF Distinct
  <2>2. CASE i \in 1..Len(s) /\ j = Len(s) + 1
        BY <1>1, <1>3, <2>2 DEF Lacks
  <2>3. CASE i = Len(s) + 1 /\ j \in 1..Len(s)
        BY <1>1, <1>3, <2>3 DEF Lacks
  <2> QED BY <1>4, <2>1, <2>2, <2>3
<1>6. Matched(a)
      BY <1>1, <1>3, <1>4 DEF Matched
<1>7. Bytes(a) = Bytes(s) + Size[d]
  <2>1. Bytes(a) = Bytes(s) + Size[e.data]
        BY <1>2, BytesAppend
  <2> QED BY <1>1, <2>1
<1> QED BY <1>1, <1>2, <1>5, <1>6, <1>7

(* What is left at the back of a map is as sound as the map. *)
LEMMA SuffixKeeps ==
    ASSUME NEW s \in Seq(Entry), NEW n \in 0..Len(s), Distinct(s),
           Matched(s),
           NEW r \in Seq(Entry), r = SubSeq(s, n + 1, Len(s))
    PROVE  /\ Distinct(r)
           /\ Matched(r)
           /\ Among(r, s)
<1>1. Len(s) \in Nat /\ DOMAIN s = 1..Len(s)
      OBVIOUS
<1>2. Len(r) = Len(s) - n /\ DOMAIN r = 1..(Len(s) - n)
  <2>1. Len(r) = Len(s) - n
    <3>1. Len(SubSeq(s, n + 1, Len(s))) = Len(s) - n
          BY RestLength
    <3> QED BY <3>1
  <2>2. DOMAIN r = 1..Len(r)
        OBVIOUS
  <2> QED BY <2>1, <2>2
<1>3. \A i \in 1..(Len(s) - n) : r[i] = s[n + i] /\ n + i \in 1..Len(s)
      BY <1>1
<1>4. Distinct(r)
  <2> SUFFICES ASSUME NEW i \in DOMAIN r, NEW j \in DOMAIN r, r[i].key = r[j].key
               PROVE  i = j
      BY DEF Distinct
  <2>1. r[i] = s[n + i] /\ n + i \in DOMAIN s /\ r[j] = s[n + j] /\ n + j \in DOMAIN s
        BY <1>1, <1>2, <1>3
  <2>2. n + i = n + j
        BY <2>1 DEF Distinct
  <2>3. n \in Int
        BY <1>1
  <2>4. i \in Int /\ j \in Int
        OBVIOUS
  <2> QED BY <2>2, <2>3, <2>4
<1>5. Among(r, s)
      BY <1>1, <1>2, <1>3 DEF Among
<1>6. Matched(r)
      BY <1>1, <1>2, <1>3 DEF Matched
<1> QED BY <1>4, <1>5, <1>6

(* RawChunkCache::insert: a chunk under its own hash leaves the cache sound, *)
(* adds no other key and keeps the limit.                                    *)
THEOREM InsertKeeps ==
    ASSUME NEW cache \in Sound, NEW d \in Data
    PROVE  /\ Insert(cache, Hash(d), d) \in Sound
           /\ Insert(cache, Hash(d), d).max_size = cache.max_size
           /\ Keys(Insert(cache, Hash(d), d)) \subseteq Keys(cache) \cup {Hash(d)}
<1> DEFINE key == Hash(d)
           old == IF Has(cache, key) THEN Size[Lookup(cache, key)] ELSE 0
<1>1. /\ cache \in Cache
      /\ cache.chunks \in Seq(Entry) /\ cache.total_size \in Nat /\ cache.max_size \in Nat
      /\ Distinct(cache.chunks)
      /\ cache.total_size = Bytes(cache.chunks)
      /\ Matched(cache.chunks)
      BY DEF Sound, Cache, ContentMatchesKeys, Matched
<1>2. PICK w \in Seq(Entry) :
        /\ w = Without(cache, key)
        /\ Distinct(w)
        /\ Among(w, cache.chunks)
        /\ Lacks(w, key)
        /\ Bytes(cache.chunks) = Bytes(w) + old
      BY <1>1, WithoutKeeps
<1>3. Matched(w)
      BY <1>1, <1>2 DEF Among, Matched
<1>4. PICK a \in Seq(Entry) :
        /\ a = Append(w, [key |-> key, data |-> d])
        /\ Distinct(a)
        /\ Matched(a)
        /\ Bytes(a) = Bytes(w) + Size[d]
      BY <1>2, <1>3, AppendEntry
<1>5. old \in Nat /\ Size[d] \in Nat
  <2>1. ASSUME Has(cache, key) PROVE Lookup(cache, key) \in Data
    <3>1. IndexOf(cache.chunks, key) \in 1..Len(cache.chunks)
          BY <1>1, <2>1, IndexOfHas
    <3>2. cache.chunks[IndexOf(cache.chunks, key)] \in Entry
          BY <1>1, <3>1
    <3> QED BY <3>2 DEF Lookup, Entry
  <2> QED BY <2>1, SizeAssumption
<1>6. Bytes(w) \in Nat /\ Bytes(a) \in Nat
      BY BytesType
<1>7. cache.total_size + Size[d] - old = Bytes(a)
      BY <1>1, <1>2, <1>4, <1>5, <1>6
<1>8. PICK c \in Cache : c = [cache EXCEPT !.chunks = a, !.total_size = Bytes(a)]
      BY <1>1, <1>6 DEF Cache
<1>9. c.chunks = a /\ c.total_size = Bytes(a) /\ c.max_size = cache.max_size
      BY <1>1, <1>8 DEF Cache
<1>10. Insert(cache, key, d) = EvictLoop(c)
  <2>1. Insert(cache, key, d) =
            EvictLoop([cache EXCEPT !.chunks = Append(Without(cache, key), [key |-> key, data |-> d]),
                                    !.total_size = cache.total_size + Size[d] - old])
        BY <1>1 DEF Insert, Cache
  <2> QED BY <2>1, <1>2, <1>4, <1>7, <1>8
<1>11. PICK n \in 0..Len(a), r \in Seq(Entry) :
        /\ r = SubSeq(a, n + 1, Len(a))
        /\ EvictLoop(c) = [c EXCEPT !.chunks = r, !.total_size = Bytes(r)]
        /\ Bytes(r) <= c.max_size
      BY <1>9, EvictLoopStops
<1>12. /\ Distinct(r)
       /\ Matched(r)
       /\ Among(r, a)
      BY <1>4, <1>11, SuffixKeeps
<1>13. Bytes(r) \in Nat
      BY BytesType
<1>14. PICK f \in Cache : f = [c EXCEPT !.chunks = r, !.total_size = Bytes(r)]
      BY <1>13 DEF Cache
<1>15. f.chunks = r /\ f.total_size = Bytes(r) /\ f.max_size = cache.max_size
      BY <1>9, <1>14 DEF Cache
<1>16. f \in Sound
      BY <1>9, <1>11, <1>12, <1>15 DEF Sound, ContentMatchesKeys, Matched
<1>17. Keys(f) \subseteq Keys(cache) \cup {key}
  <2> SUFFICES ASSUME NEW i \in DOMAIN r PROVE r[i].key \in Keys(cache) \cup {key}
      BY <1>15 DEF Keys
  <2>1. PICK j \in DOMAIN a : r[i] = a[j]
        BY <1>12 DEF Among
  <2>2. CASE j \in DOMAIN w
    <3>1. a[j] = w[j]
          BY <1>4, <2>2
    <3>2. PICK k \in DOMAIN cache.chunks : w[j] = cache.chunks[k]
          BY <1>2, <2>2 DEF Among
    <3> QED BY <2>1, <3>1, <3>2 DEF Keys
  <2>3. CASE j \notin DOMAIN w
    <3>1. a[j] = [key |-> key, data |-> d]
          BY <1>4, <2>3
    <3> QED BY <2>1, <3>1
  <2> QED BY <2>2, <2>3
<1>18. Insert(cache, key, d) = f
      BY <1>10, <1>11, <1>14
<1> QED BY <1>15, <1>16, <1>17, <1>18

(* RawChunkCache::get changes the recency order and nothing else. *)
THEOREM GetKeeps ==
    ASSUME NEW cache \in Sound, NEW key
    PROVE  /\ Get(cache, key) \in Sound
           /\ Get(cache, key).max_size = cache.max_size
           /\ Keys(Get(cache, key)) = Keys(cache)
<1>1. CASE ~Has(cache, key)
      BY <1>1 DEF Get
<1>2. CASE Has(cache, key)
  <2>1. /\ cache \in Cache
        /\ cache.chunks \in Seq(Entry) /\ cache.total_size \in Nat /\ cache.max_size \in Nat
        /\ Distinct(cache.chunks)
        /\ cache.total_size = Bytes(cache.chunks)
        /\ cache.total_size <= cache.max_size
        /\ Matched(cache.chunks)
        BY DEF Sound, Cache, ContentMatchesKeys, Matched
  <2>2. PICK d \in Data : d = Lookup(cache, key) /\ key = Hash(d)
    <3>1. /\ IndexOf(cache.chunks, key) \in 1..Len(cache.chunks)
          /\ cache.chunks[IndexOf(cache.chunks, key)].key = key
          BY <1>2, <2>1, IndexOfHas
    <3>2. /\ IndexOf(cache.chunks, key) \in DOMAIN cache.chunks
          /\ cache.chunks[IndexOf(cache.chunks, key)] \in Entry
          BY <2>1, <3>1
    <3> QED BY <2>1, <3>1, <3>2 DEF Lookup, Entry, Matched
  <2>3. PICK w \in Seq(Entry) :
          /\ w = Without(cache, key)
          /\ Distinct(w)
          /\ Among(w, cache.chunks)
          /\ Lacks(w, key)
          /\ \A i \in DOMAIN cache.chunks : cache.chunks[i].key # key =>
                \E j \in DOMAIN w : w[j] = cache.chunks[i]
          /\ Bytes(cache.chunks) = Bytes(w) + Size[d]
        BY <1>2, <2>1, <2>2, WithoutKeeps
  <2>4. Matched(w)
        BY <2>1, <2>3 DEF Among, Matched
  <2>5. PICK a \in Seq(Entry) :
          /\ a = Append(w, [key |-> key, data |-> d])
          /\ Distinct(a)
          /\ Matched(a)
          /\ Bytes(a) = Bytes(w) + Size[d]
        BY <2>2, <2>3, <2>4, AppendEntry
  <2>6. PICK f \in Cache : f = [cache EXCEPT !.chunks = a]
        BY <2>1 DEF Cache
  <2>7. f.chunks = a /\ f.total_size = cache.total_size /\ f.max_size = cache.max_size
        BY <2>1, <2>6 DEF Cache
  <2>8. f = Get(cache, key)
        BY <1>2, <2>2, <2>3, <2>5, <2>6 DEF Get
  <2>9. f \in Sound
        BY <2>1, <2>3, <2>5, <2>7 DEF Sound, ContentMatchesKeys, Matched
  <2>10. /\ Len(w) \in Nat /\ DOMAIN w = 1..Len(w) /\ DOMAIN a = 1..(Len(w) + 1)
         /\ \A i \in 1..Len(w) : a[i] = w[i]
         /\ a[Len(w) + 1].key = key
        BY <2>5
  <2>11. Keys(f) \subseteq Keys(cache)
    <3> SUFFICES ASSUME NEW i \in DOMAIN a PROVE a[i].key \in Keys(cache)
        BY <2>7 DEF Keys
    <3>1. CASE i \in DOMAIN w
      <4>1. PICK k \in DOMAIN cache.chunks : w[i] = cache.chunks[k]
            BY <2>3, <3>1 DEF Among
      <4> QED BY <2>10, <3>1, <4>1 DEF Keys
    <3>2. CASE i = Len(w) + 1
          BY <1>2, <2>10, <3>2 DEF Has
    <3> QED BY <2>10, <3>1, <3>2
  <2>12. Keys(cache) \subseteq Keys(f)
    <3> SUFFICES ASSUME NEW i \in DOMAIN cache.chunks
                 PROVE  \E j \in DOMAIN a : a[j].key = cache.chunks[i].key
        BY <2>7 DEF Keys
    <3>1. CASE cache.chunks[i].key = key
          BY <2>10, <3>1
    <3>2. CASE cache.chunks[i].key # key
      <4>1. PICK j \in DOMAIN w : w[j] = cache.chunks[i]
            BY <2>3, <3>2
      <4> QED BY <2>10, <4>1
    <3> QED BY <3>1, <3>2
  <2> QED BY <2>7, <2>8, <2>9, <2>11, <2>12
<1> QED BY <1>1, <1>2

(* RawChunkCache::new. *)
LEMMA NewSound ==
    ASSUME NEW max \in Nat
    PROVE  New(max) \in Sound /\ New(max).max_size = max /\ Keys(New(max)) = {}
<1>1. New(max) \in Cache
      BY DEF New, Cache
<1> QED BY <1>1, BytesEmpty DEF New, Sound, Distinct, ContentMatchesKeys, Keys

(* A sound cache is accounted for, within its limit and has no key twice. *)
LEMMA SoundMeans ==
    ASSUME NEW cache \in Sound
    PROVE  cache \in Cache /\ AccountsRight(cache) /\ ContentMatchesKeys(cache)
BY DEF Sound, AccountsRight
=============================================================================
