---------------------------- MODULE FoldTheorems ----------------------------
(***************************************************************************)
(* What FoldLeft of the community modules computes, for a step Op from     *)
(* accumulators in S and elements in E to accumulators in S.  FoldLeft is  *)
(* a CHOOSE over functions on sets of indices, which says nothing before   *)
(* such a function is shown to exist; the lemmas below show it, by         *)
(* induction on the length of the sequence, and derive the two equations   *)
(* by which the code's loops are reasoned about:                           *)
(*     Fold(b, << >>) = b     Fold(b, Append(s, e)) = Op(Fold(b, s), e)    *)
(* A module instantiates Op, S and E with the body of its loop.            *)
(***************************************************************************)
EXTENDS Integers, Sequences

CONSTANTS Op(_, _), S, E

Last(u) == CHOOSE x \in u : \A y \in u : x >= y

(* FoldLeft(Op, b, s), with its definition expanded. *)
Fold(b, s) ==
    LET iter == CHOOSE it : it =
            [u \in SUBSET (DOMAIN s) |->
                IF u = {} THEN b ELSE Op(it[u \ {Last(u)}], s[Last(u)])]
    IN  iter[DOMAIN s]

(* The body of the loop keeps the accumulator in S. *)
Closed == \A x \in S, e \in E : Op(x, e) \in S

(* Induction on the natural numbers, for a set: what the using module has to   *)
(* supply, so that instances of this module stay small.                       *)
Induction == \A T : 0 \in T /\ (\A n \in Nat : n \in T => n + 1 \in T) => Nat \subseteq T

(* f lists the accumulators of the loop over s, f[0] before the first element. *)
Trace(f, b, s) ==
    /\ f \in [0..Len(s) -> S]
    /\ f[0] = b
    /\ \A i \in 1..Len(s) : f[i] = Op(f[i - 1], s[i])

-----------------------------------------------------------------------------
(* Induction up to a bound, for a set. *)
LEMMA UpToInduction ==
    ASSUME Induction, NEW n \in Nat, NEW T, 0 \in T,
           \A i \in 0..(n - 1) : i \in T => i + 1 \in T
    PROVE  0..n \subseteq T
<1> DEFINE U == {i \in Nat : i <= n => i \in T}
<1>1. 0 \in U
      OBVIOUS
<1>2. \A i \in Nat : i \in U => i + 1 \in U
  <2> SUFFICES ASSUME NEW i \in Nat, i \in U, i + 1 <= n PROVE i + 1 \in T
      OBVIOUS
  <2>1. i \in 0..(n - 1) /\ i \in T
        OBVIOUS
  <2> QED BY <2>1
<1> HIDE DEF U
<1>3. Nat \subseteq U
      BY <1>1, <1>2 DEF Induction
<1> QED BY <1>3 DEF U

-----------------------------------------------------------------------------
(* The largest index of a set that holds n and nothing above n. *)
LEMMA LastIs ==
    ASSUME NEW A \in SUBSET Int, NEW n \in A, \A x \in A : x <= n
    PROVE  Last(A) = n
<1>1. \A y \in A : n >= y
      OBVIOUS
<1>2. \A x \in A : (\A y \in A : x >= y) => x = n
  <2> SUFFICES ASSUME NEW x \in A, \A y \in A : x >= y PROVE x = n
      OBVIOUS
  <2>1. x >= n /\ x <= n /\ x \in Int /\ n \in Int
        OBVIOUS
  <2> QED BY <2>1
<1>3. Last(A) = CHOOSE x \in A : \A y \in A : x >= y
      BY DEF Last
<1> QED BY <1>1, <1>2, <1>3

(* The function FoldLeft chooses, on the sets of indices up to k. *)
Folder(g, b, s, k) ==
    \A u \in SUBSET (1..k) :
        g[u] = IF u = {} THEN b ELSE Op(g[u \ {Last(u)}], s[Last(u)])

LEMMA FolderExists ==
    ASSUME Induction, Closed, NEW b \in S, NEW s \in Seq(E)
    PROVE  \E g \in [SUBSET (1..Len(s)) -> S] : Folder(g, b, s, Len(s))
<1> DEFINE T == {k \in Nat : \E g \in [SUBSET (1..k) -> S] : Folder(g, b, s, k)}
<1>1. 0 \in T
  <2> DEFINE g == [u \in SUBSET (1..0) |-> b]
  <2>1. g \in [SUBSET (1..0) -> S]
        OBVIOUS
  <2>2. Folder(g, b, s, 0)
        BY DEF Folder
  <2> QED BY <2>1, <2>2
<1>2. \A k \in 0..(Len(s) - 1) : k \in T => k + 1 \in T
  <2> SUFFICES ASSUME NEW k \in 0..(Len(s) - 1), k \in T PROVE k + 1 \in T
      OBVIOUS
  <2>1. PICK g \in [SUBSET (1..k) -> S] : Folder(g, b, s, k)
        OBVIOUS
  <2> DEFINE h == [u \in SUBSET (1..(k + 1)) |->
                      IF k + 1 \in u THEN Op(g[u \ {k + 1}], s[k + 1]) ELSE g[u]]
  <2>2. ASSUME NEW u \in SUBSET (1..(k + 1)), k + 1 \in u
        PROVE  /\ u \ {k + 1} \in SUBSET (1..k)
               /\ Last(u) = k + 1
               /\ u # {}
    <3>1. u \in SUBSET Int /\ \A x \in u : x <= k + 1
          OBVIOUS
    <3> QED BY <2>2, <3>1, LastIs
  <2>3. ASSUME NEW u \in SUBSET (1..(k + 1)), k + 1 \notin u
        PROVE  u \in SUBSET (1..k)
        BY <2>3
  <2>4. s[k + 1] \in E
        OBVIOUS
  <2>5. h \in [SUBSET (1..(k + 1)) -> S]
    <3> SUFFICES ASSUME NEW u \in SUBSET (1..(k + 1)) PROVE h[u] \in S
        OBVIOUS
    <3>1. CASE k + 1 \in u
      <4>1. g[u \ {k + 1}] \in S
            BY <2>2, <3>1
      <4> QED BY <4>1, <3>1, <2>4 DEF Closed
    <3>2. CASE k + 1 \notin u
          BY <2>3, <3>2
    <3> QED BY <3>1, <3>2
  <2>6. ASSUME NEW u \in SUBSET (1..k) PROVE h[u] = g[u]
    <3>1. u \in SUBSET (1..(k + 1)) /\ k + 1 \notin u
          OBVIOUS
    <3> QED BY <3>1
  <2>7. Folder(h, b, s, k + 1)
    <3> SUFFICES ASSUME NEW u \in SUBSET (1..(k + 1))
                 PROVE  h[u] = IF u = {} THEN b ELSE Op(h[u \ {Last(u)}], s[Last(u)])
        BY DEF Folder
    <3>1. CASE k + 1 \in u
      <4>1. h[u] = Op(g[u \ {k + 1}], s[k + 1])
            BY <3>1
      <4>2. h[u \ {k + 1}] = g[u \ {k + 1}]
            BY <2>2, <2>6, <3>1
      <4> HIDE DEF h
      <4> QED BY <4>1, <4>2, <2>2, <3>1
    <3>2. CASE k + 1 \notin u
      <4>1. u \in SUBSET (1..k)
            BY <2>3, <3>2
      <4>2. h[u] = g[u]
            BY <4>1, <2>6
      <4>3. h[u \ {Last(u)}] = g[u \ {Last(u)}]
        <5>1. u \ {Last(u)} \in SUBSET (1..k)
              BY <4>1
        <5> QED BY <5>1, <2>6
      <4> HIDE DEF h
      <4> QED BY <4>1, <4>2, <4>3, <2>1 DEF Folder
    <3> QED BY <3>1, <3>2
  <2> HIDE DEF h
  <2> QED BY <2>5, <2>7
<1> HIDE DEF T
<1>3. Len(s) \in Nat
      OBVIOUS
<1>4. 0..Len(s) \subseteq T
      BY <1>1, <1>2, <1>3, UpToInduction
<1>5. Len(s) \in T
      BY <1>3, <1>4
<1> QED BY <1>5 DEF T

(* FoldLeft yields the last accumulator of a trace of the loop. *)
LEMMA FoldIsTrace ==
    ASSUME Induction, Closed, NEW b \in S, NEW s \in Seq(E)
    PROVE  \E f : Trace(f, b, s) /\ Fold(b, s) = f[Len(s)]
<1> DEFINE n == Len(s)
           Body(g) == [u \in SUBSET (DOMAIN s) |->
                          IF u = {} THEN b ELSE Op(g[u \ {Last(u)}], s[Last(u)])]
           g == CHOOSE it : it = Body(it)
<1>1. n \in Nat /\ DOMAIN s = 1..n
      OBVIOUS
<1>2. g = Body(g)
  <2>1. PICK h \in [SUBSET (1..n) -> S] : Folder(h, b, s, n)
        BY FolderExists
  <2>2. h = Body(h)
        BY <1>1, <2>1 DEF Folder
  <2> QED BY <2>2
<1>3. Fold(b, s) = g[DOMAIN s]
      BY DEF Fold
<1> HIDE DEF g
<1>4. g[{}] = b
      BY <1>2
<1>5. ASSUME NEW i \in 1..n PROVE g[1..i] = Op(g[1..(i - 1)], s[i])
  <2>1. 1..i \in SUBSET (DOMAIN s) /\ 1..i # {}
    <3>1. 1..i \subseteq 1..n /\ i \in 1..i
          BY <1>1
    <3> QED BY <1>1, <3>1
  <2>2. Last(1..i) = i
    <3>1. 1..i \in SUBSET Int /\ i \in 1..i /\ \A x \in 1..i : x <= i
          OBVIOUS
    <3> QED BY <3>1, LastIs
  <2>3. (1..i) \ {i} = 1..(i - 1)
        BY <1>1
  <2>4. g[1..i] = Op(g[(1..i) \ {Last(1..i)}], s[Last(1..i)])
        BY <1>2, <2>1
  <2> QED BY <2>2, <2>3, <2>4
<1> DEFINE f == [i \in 0..n |-> g[1..i]]
<1>6. f[0] = b
  <2>1. 1..0 = {} /\ 0 \in 0..n
        BY <1>1
  <2> QED BY <2>1, <1>4
<1>7. ASSUME NEW i \in 1..n PROVE f[i] = Op(f[i - 1], s[i])
  <2>1. i \in 0..n /\ i - 1 \in 0..n
        BY <1>1
  <2> QED BY <2>1, <1>5
<1>8. f \in [0..n -> S]
  <2> DEFINE T == {i \in 0..n : f[i] \in S}
  <2>1. 0 \in T
        BY <1>1, <1>6
  <2>2. \A i \in 0..(n - 1) : i \in T => i + 1 \in T
    <3> SUFFICES ASSUME NEW i \in 0..(n - 1), i \in T PROVE i + 1 \in T
        OBVIOUS
    <3>1. i + 1 \in 1..n /\ (i + 1) - 1 = i /\ i + 1 \in 0..n
          BY <1>1
    <3>2. f[i + 1] = Op(f[i], s[i + 1])
          BY <1>7, <3>1
    <3>3. s[i + 1] \in E
          BY <3>1
    <3> HIDE DEF f
    <3>4. f[i] \in S
          OBVIOUS
    <3>5. f[i + 1] \in S
          BY <3>2, <3>3, <3>4 DEF Closed
    <3> QED BY <3>1, <3>5
  <2> HIDE DEF T
  <2>3. 0..n \subseteq T
        BY <1>1, <2>1, <2>2, UpToInduction
  <2> QED BY <2>3 DEF T
<1>9. Fold(b, s) = f[n]
      BY <1>1, <1>3
<1> HIDE DEF f
<1>10. Trace(f, b, s)
      BY <1>6, <1>7, <1>8 DEF Trace
<1> QED BY <1>9, <1>10

(* Appending an element leaves the accumulators before it. *)
LEMMA TraceUnique ==
    ASSUME Induction, NEW b, NEW s \in Seq(E), NEW e \in E, NEW f, NEW h,
           Trace(f, b, s), Trace(h, b, Append(s, e))
    PROVE  f[Len(s)] = h[Len(s)]
<1> DEFINE n == Len(s)
           T == {i \in 0..n : f[i] = h[i]}
<1>1. n \in Nat /\ Len(Append(s, e)) = n + 1
      OBVIOUS
<1>2. 0 \in T
      BY <1>1 DEF Trace
<1>3. \A i \in 0..(n - 1) : i \in T => i + 1 \in T
  <2> SUFFICES ASSUME NEW i \in 0..(n - 1), f[i] = h[i] PROVE i + 1 \in T
      OBVIOUS
  <2>1. i + 1 \in 1..n /\ i + 1 \in 1..(n + 1) /\ (i + 1) - 1 = i /\ i + 1 \in 0..n
        BY <1>1
  <2>2. f[i + 1] = Op(f[i], s[i + 1])
        BY <2>1 DEF Trace
  <2>3. h[i + 1] = Op(h[i], Append(s, e)[i + 1])
        BY <1>1, <2>1 DEF Trace
  <2>4. s[i + 1] = Append(s, e)[i + 1]
        BY <2>1
  <2> QED BY <2>1, <2>2, <2>3, <2>4
<1> HIDE DEF T
<1>4. 0..n \subseteq T
      BY <1>1, <1>2, <1>3, UpToInduction
<1> QED BY <1>1, <1>4 DEF T

(* The loop over no element leaves the accumulator it starts from. *)
THEOREM FoldEmpty ==
    ASSUME Induction, Closed
    PROVE  \A b \in S : Fold(b, << >>) = b
<1> SUFFICES ASSUME NEW b \in S PROVE Fold(b, << >>) = b
    OBVIOUS
<1>1. << >> \in Seq(E) /\ Len(<< >>) = 0
      OBVIOUS
<1>2. PICK f : Trace(f, b, << >>) /\ Fold(b, << >>) = f[Len(<< >>)]
      BY <1>1, FoldIsTrace
<1> QED BY <1>1, <1>2 DEF Trace

(* The loop stays in S. *)
THEOREM FoldType ==
    ASSUME Induction, Closed
    PROVE  \A b \in S, s \in Seq(E) : Fold(b, s) \in S
<1> SUFFICES ASSUME NEW b \in S, NEW s \in Seq(E) PROVE Fold(b, s) \in S
    OBVIOUS
<1>1. PICK f : Trace(f, b, s) /\ Fold(b, s) = f[Len(s)]
      BY FoldIsTrace
<1>2. Len(s) \in 0..Len(s)
      OBVIOUS
<1> QED BY <1>1, <1>2 DEF Trace

(* The loop over one more element makes one more step. *)
THEOREM FoldAppend ==
    ASSUME Induction, Closed
    PROVE  \A b \in S, s \in Seq(E), e \in E :
              Fold(b, Append(s, e)) = Op(Fold(b, s), e)
<1> SUFFICES ASSUME NEW b \in S, NEW s \in Seq(E), NEW e \in E,
                    NEW t, t = Append(s, e)
             PROVE  Fold(b, t) = Op(Fold(b, s), e)
    OBVIOUS
<1>1. /\ Len(s) \in Nat
      /\ t \in Seq(E)
      /\ Len(t) = Len(s) + 1
      /\ t[Len(s) + 1] = e
      OBVIOUS
<1>2. PICK f : Trace(f, b, s) /\ Fold(b, s) = f[Len(s)]
      BY FoldIsTrace
<1>3. PICK h : Trace(h, b, t) /\ Fold(b, t) = h[Len(t)]
      BY <1>1, FoldIsTrace
<1>4. f[Len(s)] = h[Len(s)]
      BY <1>2, <1>3, TraceUnique
<1>5. h[Len(s) + 1] = Op(h[Len(s)], t[Len(s) + 1])
  <2>1. Len(s) + 1 \in 1..Len(t) /\ (Len(s) + 1) - 1 = Len(s)
        BY <1>1
  <2> QED BY <1>3, <2>1 DEF Trace
<1> QED BY <1>1, <1>2, <1>3, <1>4, <1>5
=============================================================================
