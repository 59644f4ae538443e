------------------------ MODULE EmbeddingClientProofs ------------------------
(* Theorems about EmbeddingClient, for any callers, pictures, batch size,     *)
(* pool and number of tries.                                                  *)
EXTENDS EmbeddingClient, FiniteSetTheorems, SequenceTheorems, WellFoundedInduction, TLAPS

-----------------------------------------------------------------------------
(* Cutting a call into batches and joining their vectors                   *)

Count(n) == (n + MaxBatch - 1) \div MaxBatch

\* Where the k-th slice of n pictures ends.
EndOf(n, k) == IF k * MaxBatch <= n THEN k * MaxBatch ELSE n

\* No picture is left over, and no batch is empty.
LEMMA SlicesCover ==
  ASSUME NEW n \in Nat
  PROVE  /\ Count(n) \in Nat /\ (n = 0 => Count(n) = 0)
         /\ n > 0 => Count(n) > 0 /\ EndOf(n, Count(n)) = n
         /\ \A k \in 1 .. Count(n) : (k - 1) * MaxBatch \in Nat /\ k * MaxBatch \in Nat /\ (k - 1) * MaxBatch < n
<1> DEFINE m == Count(n)
<1>1. MaxBatch \in Nat \ {0}
  BY EmbeddingAssumption
<1> DEFINE x == n + MaxBatch - 1
<1>2. x \in Nat /\ m = x \div MaxBatch
  BY <1>1 DEF Count
<1> HIDE DEF x
<1>3. m \in Nat /\ MaxBatch * m <= x /\ x < MaxBatch * m + MaxBatch
  BY <1>1, <1>2
<1> HIDE DEF m
<1>4. MaxBatch * m \in Nat
  BY <1>1, <1>3
<1>5. MaxBatch * m <= n + MaxBatch - 1 /\ n - 1 < MaxBatch * m
  BY <1>1, <1>3, <1>4 DEF x
<1>6. n = 0 => m = 0
  <2> SUFFICES ASSUME n = 0, m > 0 PROVE FALSE
    BY <1>3
  <2>1. MaxBatch * m >= MaxBatch
    BY <1>1, <1>3
  <2> QED
    BY <1>1, <1>4, <1>5, <2>1
<1>7. n > 0 => m > 0
  <2> SUFFICES ASSUME n > 0, m = 0 PROVE FALSE
    BY <1>3
  <2>1. MaxBatch * m = 0
    BY <1>1
  <2> QED
    BY <1>5, <2>1
<1>8. m * MaxBatch = MaxBatch * m
  BY <1>1, <1>3
<1>9. n > 0 => EndOf(n, m) = n
  BY <1>1, <1>4, <1>5, <1>8 DEF EndOf
<1>10. ASSUME NEW k \in 1 .. m PROVE (k - 1) * MaxBatch \in Nat /\ k * MaxBatch \in Nat /\ (k - 1) * MaxBatch < n
  <2>1. k - 1 \in Nat /\ k \in Nat /\ m - k \in Nat
    BY <1>3
  <2>2. (k - 1) * MaxBatch \in Nat /\ k * MaxBatch \in Nat /\ (m - k) * MaxBatch \in Nat
    BY <1>1, <2>1
  <2>3. MaxBatch * m = (k - 1) * MaxBatch + MaxBatch + (m - k) * MaxBatch
    BY <1>1, <1>3, <2>1
  <2> QED
    BY <1>1, <1>4, <1>5, <2>2, <2>3
<1> QED
  BY <1>3, <1>6, <1>7, <1>9, <1>10 DEF m

\* A slice goes on where the ones before it end.
LEMMA SlicesJoin ==
  ASSUME NEW n \in Nat, NEW k \in 1 .. Count(n)
  PROVE  /\ Slice(n, k) \in Seq(Nat)
         /\ Slice(n, 1) = UpTo(EndOf(n, 1))
         /\ k > 1 => UpTo(EndOf(n, k - 1)) \o Slice(n, k) = UpTo(EndOf(n, k))
<1> DEFINE a == (k - 1) * MaxBatch
           b == EndOf(n, k)
<1>1. MaxBatch \in Nat \ {0} /\ Count(n) \in Nat /\ k \in Nat \ {0}
  BY EmbeddingAssumption, SlicesCover
<1>2. a \in Nat /\ a < n /\ k * MaxBatch \in Nat
  BY SlicesCover
<1>3. k * MaxBatch = a + MaxBatch
  BY <1>1
<1>4. b \in Nat /\ a < b /\ b <= n
  BY <1>1, <1>2, <1>3 DEF EndOf
<1>5. Slice(n, k) = SubSeq(UpTo(n), a + 1, b)
  BY DEF Slice, EndOf
<1>6. k > 1 => EndOf(n, k - 1) = a
  BY <1>1, <1>2 DEF EndOf
<1> HIDE DEF a, b
<1>7. \A i \in Nat : UpTo(i) \in Seq(Nat) /\ Len(UpTo(i)) = i /\ \A j \in 1 .. i : UpTo(i)[j] = j
  BY DEF UpTo
<1>8. /\ Slice(n, k) \in Seq(Nat) /\ Len(Slice(n, k)) = b - a
      /\ \A j \in 1 .. b - a : Slice(n, k)[j] = a + j
  <2>1. \A i \in a + 1 .. b : UpTo(n)[i] = i /\ UpTo(n)[i] \in Nat
    <3> SUFFICES ASSUME NEW i \in a + 1 .. b PROVE UpTo(n)[i] = i /\ i \in Nat
      OBVIOUS
    <3>1. i \in 1 .. n
      BY <1>2, <1>4
    <3> QED
      BY <3>1 DEF UpTo
  <2>2. a + 1 \in Int /\ b \in Int /\ b - (a + 1) + 1 = b - a /\ a + 1 <= b
    BY <1>2, <1>4
  <2>3. /\ SubSeq(UpTo(n), a + 1, b) \in Seq(Nat) /\ Len(SubSeq(UpTo(n), a + 1, b)) = b - a
        /\ \A j \in 1 .. b - a : SubSeq(UpTo(n), a + 1, b)[j] = UpTo(n)[a + 1 + j - 1]
    BY <2>1, <2>2, SubSeqProperties
  <2>4. \A j \in 1 .. b - a : a + 1 + j - 1 = a + j /\ a + j \in a + 1 .. b
    BY <1>2, <1>4
  <2> QED
    BY <1>5, <2>1, <2>3, <2>4
<1>9. Slice(n, 1) = UpTo(EndOf(n, 1))
  <2> DEFINE c == EndOf(n, 1)
  <2>1. 1 \in 1 .. Count(n)
    BY <1>1
  <2>2. n > 0
    BY <1>2
  <2>3. c \in 1 .. n
    BY <1>1, <2>2 DEF EndOf
  <2>4. Slice(n, 1) = SubSeq(UpTo(n), 1, c)
    BY <1>1 DEF Slice, EndOf
  <2> HIDE DEF c
  <2>5. SubSeq(UpTo(n), 1, c) \in Seq(Nat) /\ Len(SubSeq(UpTo(n), 1, c)) = c
        /\ \A j \in 1 .. c : SubSeq(UpTo(n), 1, c)[j] = j
    BY <1>7, <2>3
  <2>6. SubSeq(UpTo(n), 1, c) = UpTo(c)
    <3>1. UpTo(c) \in Seq(Nat) /\ Len(UpTo(c)) = c /\ \A j \in 1 .. c : UpTo(c)[j] = j
      BY <1>7, <2>3
    <3> QED
      BY <2>5, <3>1, SeqEqual
  <2> QED
    BY <2>4, <2>6 DEF c
<1>10. UpTo(a) \o Slice(n, k) = UpTo(b)
  <2> DEFINE s == UpTo(a) \o Slice(n, k)
  <2>1. UpTo(a) \in Seq(Nat) /\ Len(UpTo(a)) = a /\ \A j \in 1 .. a : UpTo(a)[j] = j
    BY <1>2, <1>7
  <2>2. s \in Seq(Nat) /\ Len(s) = b
    <3>1. s \in Seq(Nat) /\ Len(s) = Len(UpTo(a)) + Len(Slice(n, k))
      BY <1>8, <2>1, ConcatProperties
    <3>2. a + (b - a) = b
      BY <1>2, <1>4
    <3> QED
      BY <1>8, <2>1, <3>1, <3>2
  <2>3. ASSUME NEW j \in Nat, j \in 1 .. b PROVE s[j] = j
    <3>1. CASE j <= a
      BY <1>2, <1>8, <2>1, <2>3, <3>1
    <3>2. CASE j > a
      <4>1. s[j] = Slice(n, k)[j - a]
        <5>1. j \in 1 .. Len(UpTo(a)) + Len(Slice(n, k)) /\ ~(j <= Len(UpTo(a))) /\ j - Len(UpTo(a)) = j - a
          BY <1>2, <1>4, <1>8, <2>1, <2>3, <3>2
        <5> QED
          BY <1>8, <2>1, <5>1, ConcatProperties
      <4>2. j - a \in 1 .. b - a
        BY <1>2, <1>4, <2>3, <3>2
      <4> QED
        BY <1>2, <1>4, <1>8, <4>1, <4>2
    <3>3. j <= a \/ j > a
      BY <1>2
    <3> QED
      BY <3>1, <3>2, <3>3
  <2> HIDE DEF s
  <2>4. UpTo(b) \in Seq(Nat) /\ Len(UpTo(b)) = b /\ \A j \in 1 .. b : UpTo(b)[j] = j
    BY <1>4, <1>7
  <2>5. s = UpTo(b)
    <3>1. \A j \in 1 .. b : s[j] = UpTo(b)[j]
      BY <1>4, <2>3, <2>4
    <3> QED
      BY <2>2, <2>4, <3>1, SeqEqual
  <2> QED
    BY <2>5 DEF s
<1> QED
  BY <1>6, <1>8, <1>9, <1>10 DEF b

(* Of every inhabited set of numbers one is the least: what an induction   *)
(* over sequences needs.                                                   *)
LEMMA LeastNumber ==
  ASSUME NEW T \in SUBSET Nat, T # {}
  PROVE  \E n \in T : \A m \in T : n <= m
<1> DEFINE R == OpToRel(<, Nat)
<1>1. IsWellFoundedOn(R, Nat)
  BY NatLessThanWellFounded
<1>2. \A m, n \in Nat : m < n => <<m, n>> \in R
  BY DEF OpToRel
<1> HIDE DEF R
<1>3. PICK n \in T : \A m \in T : ~(<<m, n>> \in R)
  BY <1>1, WFMin
<1>4. ASSUME NEW m \in T PROVE n <= m
  <2>1. m \in Nat /\ n \in Nat /\ <<m, n>> \notin R
    BY <1>3
  <2>2. ~(m < n)
    BY <1>2, <2>1
  <2> QED
    BY <2>1, <2>2
<1> QED
  BY <1>4

\* g has the first i sequences of s, joined, at place i.
Joins(g, s, m) == \A i \in 1 .. m : g[i] = IF i = 1 THEN s[i] ELSE g[i - 1] \o s[i]

(* Whatever satisfies the recursion by which sequences are flattened is    *)
(* what it computes: such a function exists, and no two of them differ in  *)
(* a least place.                                                          *)
LEMMA Flattened ==
  ASSUME NEW m \in Nat \ {0}, NEW s, Len(s) = m, NEW g, Joins(g, s, m)
  PROVE  FlattenSeq(s) = g[m]
<1> USE DEF Joins
<1> DEFINE Solves(f) == f = [i \in 1 .. m |-> IF i = 1 THEN s[i] ELSE f[i - 1] \o s[i]]
           F == CHOOSE f : Solves(f)
<1>1. Solves(F)
  <2> DEFINE h == [i \in 1 .. m |-> g[i]]
  <2>1. \A i \in 1 .. m : h[i] = IF i = 1 THEN s[i] ELSE h[i - 1] \o s[i]
    <3> SUFFICES ASSUME NEW i \in 1 .. m PROVE h[i] = IF i = 1 THEN s[i] ELSE h[i - 1] \o s[i]
      OBVIOUS
    <3>1. i # 1 => i - 1 \in 1 .. m
      OBVIOUS
    <3>2. i # 1 => h[i - 1] = g[i - 1]
      BY <3>1
    <3>3. h[i] = g[i]
      OBVIOUS
    <3> HIDE DEF h
    <3> QED
      BY <3>2, <3>3
  <2>2. h = [i \in 1 .. m |-> h[i]]
    OBVIOUS
  <2> HIDE DEF h
  <2>3. Solves(h)
    BY <2>1, <2>2
  <2> HIDE DEF Solves
  <2> QED
    BY <2>3
<1>2. FlattenSeq(s) = F[m]
  BY DEF FlattenSeq
<1> HIDE DEF F
<1>3. F = [i \in 1 .. m |-> IF i = 1 THEN s[i] ELSE F[i - 1] \o s[i]]
  BY <1>1
<1> HIDE DEF Solves
<1>4. \A i \in 1 .. m : F[i] = g[i]
  <2> DEFINE T == {i \in 1 .. m : F[i] # g[i]}
  <2> SUFFICES ASSUME T # {} PROVE FALSE
    OBVIOUS
  <2>1. PICK i \in T : \A j \in T : i <= j
    <3>1. T \in SUBSET Nat
      OBVIOUS
    <3> HIDE DEF T
    <3> QED
      BY <3>1, LeastNumber
  <2>2. i \in 1 .. m /\ F[i] # g[i]
    BY <2>1
  <2>3. i # 1
    BY <1>3, <2>2
  <2>4. i - 1 \in 1 .. m /\ i - 1 < i
    BY <2>2, <2>3
  <2>5. F[i - 1] = g[i - 1]
    BY <2>1, <2>2, <2>4
  <2>6. F[i] = F[i - 1] \o s[i] /\ g[i] = g[i - 1] \o s[i]
    BY <1>3, <2>2, <2>3
  <2> QED
    BY <2>2, <2>5, <2>6
<1>5. m \in 1 .. m
  OBVIOUS
<1> QED
  BY <1>2, <1>4, <1>5

-----------------------------------------------------------------------------
(* Sorting an answer                                                       *)

\* In a permutation of 1, ..., n, what comes before a number are the smaller ones.
LEMMA RankInPermutation ==
  ASSUME NEW n \in Nat, NEW p \in [1 .. n -> 1 .. n], IsInjective(p), NEW a \in 1 .. n
  PROVE  Cardinality({b \in 1 .. n : p[b] < p[a]}) = p[a] - 1
<1> DEFINE S == {b \in 1 .. n : p[b] < p[a]}
           T == 1 .. p[a] - 1
           q == [b \in S |-> p[b]]
<1>1. IsFiniteSet(1 .. n)
  BY FS_Interval
<1>2. p \in Surjection(1 .. n, 1 .. n)
  <2>1. p \in Injection(1 .. n, 1 .. n)
    BY DEF Injection
  <2> QED
    BY <1>1, <2>1, FS_Injection
<1>3. \A i \in 1 .. n : \E b \in 1 .. n : p[b] = i
  BY <1>2 DEF Surjection
<1>4. q \in [S -> T]
  <2>1. \A b \in S : p[b] \in 1 .. n /\ p[b] < p[a] /\ p[a] \in 1 .. n
    OBVIOUS
  <2>2. \A b \in S : p[b] \in T
    BY <2>1
  <2> QED
    BY <2>2
<1>5. IsInjective(q)
  BY DEF IsInjective
<1>6. \A i \in T : \E b \in S : q[b] = i
  <2> SUFFICES ASSUME NEW i \in T PROVE \E b \in S : q[b] = i
    OBVIOUS
  <2>1. i \in 1 .. n /\ i < p[a]
    <3>1. p[a] \in 1 .. n
      OBVIOUS
    <3> QED
      BY <3>1
  <2>2. PICK b \in 1 .. n : p[b] = i
    BY <1>3, <2>1
  <2> QED
    BY <2>1, <2>2
<1> HIDE DEF q
<1>7. q \in Bijection(S, T)
  BY <1>4, <1>5, <1>6 DEF Bijection, Injection, Surjection
<1>8. IsFiniteSet(S)
  <2>1. S \in SUBSET (1 .. n)
    OBVIOUS
  <2> QED
    BY <1>1, <2>1, FS_Subset
<1>9. p[a] - 1 \in Nat
  <2>1. p[a] \in 1 .. n
    OBVIOUS
  <2> QED
    BY <2>1
<1>10. Cardinality(T) = p[a] - 1
  BY <1>9, FS_Interval
<1> HIDE DEF S, T
<1>11. Cardinality(T) = Cardinality(S)
  BY <1>7, <1>8, FS_Bijection DEF ExistsBijection
<1> QED
  BY <1>10, <1>11 DEF S

(* A good answer, sorted, has the batch's vectors in the batch's order:    *)
(* whether its rows are indexed, and in whichever order they arrive.       *)
LEMMA AnswersAreSorted ==
  ASSUME NEW pictures \in Seq(Nat), NEW rows \in Answers(pictures)
  PROVE  ByIndex(rows) = pictures
<1> DEFINE n == Len(pictures)
<1>1. n \in Nat /\ pictures = [i \in 1 .. n |-> pictures[i]]
  OBVIOUS
<1>2. \E p \in [1 .. n -> 1 .. n] :
         /\ IsInjective(p) /\ DOMAIN rows = 1 .. n
         /\ \A a \in 1 .. n : rows[a].vector = pictures[p[a]]
         /\ \A a, b \in 1 .. n : Before(rows, b, a) <=> p[b] < p[a]
  <2>1. CASE \E p \in [1 .. n -> 1 .. n] :
                IsInjective(p) /\ rows = [i \in 1 .. n |-> [index |-> p[i], vector |-> pictures[p[i]]]]
    <3>1. PICK p \in [1 .. n -> 1 .. n] :
             IsInjective(p) /\ rows = [i \in 1 .. n |-> [index |-> p[i], vector |-> pictures[p[i]]]]
      BY <2>1
    <3>2. ASSUME NEW a \in 1 .. n
          PROVE  rows[a].index = p[a] /\ rows[a].vector = pictures[p[a]] /\ p[a] \in Nat
      <4>1. rows[a] = [index |-> p[a], vector |-> pictures[p[a]]]
        BY <3>1, Zenon
      <4>2. p[a] \in 1 .. n
        BY <3>1, Zenon
      <4> QED
        BY <4>1, <4>2
    <3>3. \A a, b \in 1 .. n : p[a] = p[b] => a = b
      BY <3>1 DEF IsInjective
    <3>4. \A a, b \in 1 .. n : Before(rows, b, a) <=> p[b] < p[a]
      BY <3>2, <3>3 DEF Before
    <3>5. DOMAIN rows = 1 .. n
      BY <3>1
    <3> QED
      BY <3>1, <3>2, <3>4, <3>5
  <2>2. CASE rows = [i \in 1 .. n |-> [index |-> 0, vector |-> pictures[i]]]
    <3> DEFINE p == [i \in 1 .. n |-> i]
    <3>1. p \in [1 .. n -> 1 .. n] /\ IsInjective(p)
      <4>1. p \in [1 .. n -> 1 .. n] /\ \A a \in 1 .. n : p[a] = a
        OBVIOUS
      <4> HIDE DEF p
      <4> QED
        BY <4>1 DEF IsInjective
    <3>2. \A a \in 1 .. n : rows[a].index = 0 /\ rows[a].vector = pictures[p[a]] /\ p[a] = a
      BY <2>2
    <3>3. \A a, b \in 1 .. n : Before(rows, b, a) <=> p[b] < p[a]
      BY <3>2 DEF Before
    <3>4. DOMAIN rows = 1 .. n
      BY <2>2
    <3> HIDE DEF p
    <3> QED
      BY <3>1, <3>2, <3>3, <3>4
  <2> QED
    BY <2>1, <2>2 DEF Answers
<1>3. PICK p \in [1 .. n -> 1 .. n] :
         /\ IsInjective(p) /\ DOMAIN rows = 1 .. n
         /\ \A a \in 1 .. n : rows[a].vector = pictures[p[a]]
         /\ \A a, b \in 1 .. n : Before(rows, b, a) <=> p[b] < p[a]
  BY <1>2
<1> HIDE DEF n
<1> DEFINE Rank(a) == Cardinality({b \in DOMAIN rows : Before(rows, b, a)})
           At(i) == CHOOSE a \in DOMAIN rows : Rank(a) = i - 1
<1>4. \A a \in 1 .. n : Rank(a) = p[a] - 1
  <2> SUFFICES ASSUME NEW a \in 1 .. n PROVE Rank(a) = p[a] - 1
    OBVIOUS
  <2>1. {b \in DOMAIN rows : Before(rows, b, a)} = {b \in 1 .. n : p[b] < p[a]}
    BY <1>3
  <2> QED
    <3>1. Cardinality({b \in 1 .. n : p[b] < p[a]}) = p[a] - 1
      BY <1>1, <1>3, RankInPermutation
    <3> QED
      BY <2>1, <3>1
<1>5. \A i \in 1 .. n : \E a \in 1 .. n : p[a] = i
  <2>1. p \in Injection(1 .. n, 1 .. n)
    BY <1>3 DEF Injection
  <2>2. IsFiniteSet(1 .. n)
    BY <1>1, FS_Interval
  <2>3. p \in Surjection(1 .. n, 1 .. n)
    BY <2>1, <2>2, FS_Injection
  <2> QED
    BY <2>3 DEF Surjection
<1>6. ByIndex(rows) = [i \in DOMAIN rows |-> rows[At(i)].vector]
  BY DEF ByIndex
<1> HIDE DEF Rank
<1>7. ASSUME NEW i \in 1 .. n PROVE rows[At(i)].vector = pictures[i]
  <2>1. \E a \in DOMAIN rows : Rank(a) = i - 1
    BY <1>3, <1>4, <1>5
  <2> DEFINE c == At(i)
  <2>2. c \in DOMAIN rows /\ Rank(c) = i - 1
    BY <2>1
  <2> HIDE DEF c
  <2>3. c \in 1 .. n /\ p[c] \in 1 .. n /\ p[c] - 1 = i - 1
    BY <1>3, <1>4, <2>2
  <2>4. p[c] = i
    BY <1>1, <2>3
  <2>5. rows[c].vector = pictures[i]
    BY <1>3, <2>3, <2>4
  <2> QED
    BY <2>5 DEF c
<1> HIDE DEF At
<1> QED
  BY <1>1, <1>3, <1>6, <1>7

-----------------------------------------------------------------------------
(* The invariant                                                           *)

Stages == {"queued", "posted", "sleeping", "lost", "broken", "done", "cancelled"}
BatchRecords == [pictures : Seq(Nat), at : Stages, tries : Nat, vectors : Seq(Nat)]
CallRecords == [phase : {"idle", "running", "draining", "returned", "raised", "escaped"}, n : Nat, vectors : Seq(Nat)]

Typed ==
    /\ call \in [Callers -> CallRecords]
    /\ batch \in [Callers -> Seq(BatchRecords)]

(* A call's batches are its pictures, cut; a batch that is done has the    *)
(* vectors of its own pictures; none is on its way outside the call; and   *)
(* what a call returned follows its pictures.                              *)
CallInv(c) ==
    /\ call[c].phase = "idle" => batch[c] = <<>>
    /\ call[c].phase # "idle" =>
          /\ Len(batch[c]) = Count(call[c].n)
          /\ \A k \in DOMAIN batch[c] : batch[c][k].pictures = Slice(call[c].n, k)
    /\ \A k \in DOMAIN batch[c] :
          /\ batch[c][k].at = "done" => batch[c][k].vectors = batch[c][k].pictures
          /\ call[c].phase \notin {"running", "draining"} => batch[c][k].at \notin {"posted", "sleeping"}
    /\ call[c].phase = "returned" => call[c].vectors = UpTo(call[c].n)

ClientInv == Typed /\ \A c \in Callers : CallInv(c)

\* What a caller does leaves the others as they are.
LEMMA OthersKeep ==
  ASSUME ClientInv, NEW c \in Callers, NEW d \in Callers, d # c,
         call'[d] = call[d], batch'[d] = batch[d]
  PROVE  CallInv(d)'
BY DEF ClientInv, CallInv

\* A batch that goes on, within its call, keeps its pictures and is done only with their vectors.
LEMMA BatchGoesOn ==
  ASSUME ClientInv, NEW c \in Callers, NEW k \in DOMAIN batch[c], NEW b \in BatchRecords, Update(c, k, b),
         b.pictures = batch[c][k].pictures, b.at = "done" => b.vectors = b.pictures,
         call[c].phase \in {"running", "draining"}
  PROVE  ClientInv'
<1>1. call \in [Callers -> CallRecords] /\ batch \in [Callers -> Seq(BatchRecords)]
  BY DEF ClientInv, Typed
<1>2. call' = call /\ batch' = [batch EXCEPT ![c] = [batch[c] EXCEPT ![k] = b]]
  BY DEF Update
<1> DEFINE s == batch[c]  t == [s EXCEPT ![k] = b]
<1>3. s \in Seq(BatchRecords) /\ k \in 1 .. Len(s)
  BY <1>1
<1>4. t \in Seq(BatchRecords) /\ Len(t) = Len(s) /\ \A j \in 1 .. Len(s) : t[j] = IF j = k THEN b ELSE s[j]
  BY <1>3, ExceptSeq
<1>5. batch'[c] = t /\ \A d \in Callers \ {c} : batch'[d] = batch[d]
  BY <1>1, <1>2
<1>6. batch' \in [Callers -> Seq(BatchRecords)]
  BY <1>1, <1>2, <1>4
<1>7. DOMAIN s = 1 .. Len(s) /\ DOMAIN t = 1 .. Len(s)
  BY <1>3, <1>4
<1>8. CallInv(c)
  BY DEF ClientInv
<1> HIDE DEF t
<1>9. CallInv(c)'
  BY <1>2, <1>3, <1>4, <1>5, <1>7, <1>8 DEF CallInv
<1>10. \A d \in Callers \ {c} : CallInv(d)'
  BY <1>2, <1>5, OthersKeep
<1> QED
  BY <1>1, <1>2, <1>6, <1>9, <1>10 DEF ClientInv, Typed

\* Before any call there are no batches.
LEMMA ClientInit == Init => ClientInv
<1> SUFFICES ASSUME Init PROVE ClientInv
  OBVIOUS
<1>1. Typed
  BY DEF Init, Typed, CallRecords, NoCall
<1>2. \A c \in Callers : CallInv(c)
  BY DEF Init, CallInv, NoCall
<1> QED
  BY <1>1, <1>2 DEF ClientInv

\* A call that starts cuts its pictures into batches, all of them queued.
LEMMA StartInv == ASSUME ClientInv, NEW c \in Callers, Start(c) PROVE ClientInv'
<1>1. call \in [Callers -> CallRecords] /\ batch \in [Callers -> Seq(BatchRecords)]
  BY DEF ClientInv, Typed
<1>2. PICK n \in Sizes :
         /\ call' = [call EXCEPT ![c] = [phase |-> IF n = 0 THEN "returned" ELSE "running", n |-> n, vectors |-> <<>>]]
         /\ batch' = [batch EXCEPT ![c] = Batches(n)]
  BY DEF Start
<1>3. n \in Nat
  BY EmbeddingAssumption
<1>4. Count(n) \in Nat /\ (n = 0 => Count(n) = 0)
  BY <1>3, SlicesCover
<1> DEFINE s == Batches(n)
<1>5. s = [k \in 1 .. Count(n) |-> [pictures |-> Slice(n, k), at |-> "queued", tries |-> 0, vectors |-> <<>>]]
  BY DEF Batches, Count
<1>6. \A k \in 1 .. Count(n) : [pictures |-> Slice(n, k), at |-> "queued", tries |-> 0, vectors |-> <<>>] \in BatchRecords
  BY <1>3, SlicesJoin DEF BatchRecords, Stages
<1> HIDE DEF s
<1>7. s \in Seq(BatchRecords) /\ Len(s) = Count(n) /\ DOMAIN s = 1 .. Count(n)
  BY <1>4, <1>5, <1>6
<1>8. \A k \in DOMAIN s : s[k].pictures = Slice(n, k) /\ s[k].at = "queued"
  BY <1>5
<1>9. /\ call'[c] = [phase |-> IF n = 0 THEN "returned" ELSE "running", n |-> n, vectors |-> <<>>]
      /\ batch'[c] = s
      /\ \A d \in Callers \ {c} : call'[d] = call[d] /\ batch'[d] = batch[d]
  BY <1>1, <1>2 DEF s
<1>10. UpTo(0) = <<>>
  BY DEF UpTo
<1>11. CallInv(c)'
  BY <1>7, <1>8, <1>9, <1>10 DEF CallInv
<1>12. \A d \in Callers \ {c} : CallInv(d)'
  BY <1>9, OthersKeep
<1>13. Typed'
  BY <1>1, <1>2, <1>3, <1>7 DEF Typed, CallRecords, s
<1> QED
  BY <1>11, <1>12, <1>13 DEF ClientInv

\* A thread's step writes one batch: `done` comes with the vectors of that batch's pictures, in their order.
LEMMA BatchInv == ASSUME ClientInv, NEW c \in Callers, NEW k \in DOMAIN batch[c], Batch(c, k) PROVE ClientInv'
<1>1. batch[c] \in Seq(BatchRecords) /\ batch[c][k] \in BatchRecords /\ CallInv(c)
  BY DEF ClientInv, Typed
<1>2. batch[c][k].at \in {"posted", "sleeping"} => call[c].phase \in {"running", "draining"}
  BY <1>1 DEF CallInv
<1> DEFINE b == batch[c][k]
<1>3. /\ b \in BatchRecords /\ b.pictures \in Seq(Nat) /\ b.tries \in Nat
      /\ \A at \in Stages : [b EXCEPT !.at = at] \in BatchRecords /\ [b EXCEPT !.at = at].pictures = b.pictures
  BY <1>1 DEF BatchRecords
<1>4. ASSUME NEW at \in Stages \ {"done"}, Update(c, k, [b EXCEPT !.at = at]), call[c].phase \in {"running", "draining"}
      PROVE  ClientInv'
  <2>1. [b EXCEPT !.at = at].at # "done"
    BY <1>3 DEF BatchRecords
  <2> QED
    BY <1>3, <1>4, <2>1, BatchGoesOn
<1>5. ASSUME NEW m \in Nat, Update(c, k, [b EXCEPT !.at = "posted", !.tries = m]), call[c].phase \in {"running", "draining"}
      PROVE  ClientInv'
  <2>1. /\ [b EXCEPT !.at = "posted", !.tries = m] \in BatchRecords
        /\ [b EXCEPT !.at = "posted", !.tries = m].at # "done"
        /\ [b EXCEPT !.at = "posted", !.tries = m].pictures = b.pictures
    <3> DEFINE x == [b EXCEPT !.at = "posted"]
    <3>1. x \in BatchRecords /\ x.pictures = b.pictures
      BY <1>3 DEF Stages
    <3>2. x.at = "posted"
      BY <1>1 DEF BatchRecords
    <3>3. [b EXCEPT !.at = "posted", !.tries = m] = [x EXCEPT !.tries = m]
      OBVIOUS
    <3> HIDE DEF x
    <3>4. [x EXCEPT !.tries = m] \in BatchRecords
      BY <3>1 DEF BatchRecords
    <3>5. [x EXCEPT !.tries = m].pictures = x.pictures /\ [x EXCEPT !.tries = m].at = x.at
      BY <3>1 DEF BatchRecords
    <3> QED
      BY <3>1, <3>2, <3>3, <3>4, <3>5
  <2> QED
    BY <1>5, <2>1, BatchGoesOn
<1>6. CASE Pickup(c, k)
  BY <1>4, <1>5, <1>6 DEF Pickup, Stages
<1>7. CASE Wake(c, k)
  <2>1. b.at = "sleeping" /\ call[c].phase \in {"running", "draining"}
    BY <1>2, <1>7 DEF Wake
  <2>2. CASE b.tries < MaxTries
    <3>1. Update(c, k, [b EXCEPT !.at = "posted", !.tries = b.tries + 1])
      BY <1>7, <2>2 DEF Wake
    <3>2. b.tries + 1 \in Nat
      BY <1>3
    <3> QED
      BY <1>5, <2>1, <3>1, <3>2
  <2>3. CASE ~(b.tries < MaxTries)
    <3>1. Update(c, k, [b EXCEPT !.at = "lost"])
      BY <1>7, <2>3 DEF Wake
    <3> QED
      BY <1>4, <2>1, <3>1 DEF Stages
  <2> QED
    BY <2>2, <2>3
<1>8. CASE AnswerBusy(c, k) \/ AnswerLost(c, k) \/ AnswerBroken(c, k)
  BY <1>2, <1>4, <1>8 DEF AnswerBusy, AnswerLost, AnswerBroken, Stages
<1>9. CASE AnswerVectors(c, k)
  <2>1. PICK rows \in Answers(b.pictures) : Update(c, k, [b EXCEPT !.at = "done", !.vectors = ByIndex(rows)])
    BY <1>9 DEF AnswerVectors
  <2>2. ByIndex(rows) = b.pictures
    BY <1>3, <2>1, AnswersAreSorted
  <2>3. /\ [b EXCEPT !.at = "done", !.vectors = ByIndex(rows)] \in BatchRecords
        /\ [b EXCEPT !.at = "done", !.vectors = ByIndex(rows)].pictures = b.pictures
        /\ [b EXCEPT !.at = "done", !.vectors = ByIndex(rows)].vectors = b.pictures
    <3>1. "done" \in Stages /\ ByIndex(rows) \in Seq(Nat)
      BY <1>3, <2>2 DEF Stages
    <3> HIDE DEF b
    <3> QED
      BY <1>3, <2>2, <3>1 DEF BatchRecords
  <2> QED
    BY <1>2, <1>9, <2>1, <2>3, BatchGoesOn DEF AnswerVectors
<1> QED
  BY <1>6, <1>7, <1>8, <1>9 DEF Batch

\* The first failure cancels what is queued and leaves what is in flight to drain.
LEMMA AbandonInv == ASSUME ClientInv, NEW c \in Callers, Abandon(c) PROVE ClientInv'
<1>1. call \in [Callers -> CallRecords] /\ batch \in [Callers -> Seq(BatchRecords)] /\ CallInv(c)
  BY DEF ClientInv, Typed
<1> DEFINE s == batch[c]
           t == [k \in DOMAIN s |-> IF s[k].at = "queued" THEN [s[k] EXCEPT !.at = "cancelled"] ELSE s[k]]
<1>2. call[c].phase = "running" /\ call' = [call EXCEPT ![c].phase = "draining"] /\ batch' = [batch EXCEPT ![c] = t]
  BY DEF Abandon
<1>3. s \in Seq(BatchRecords) /\ DOMAIN s = 1 .. Len(s)
  BY <1>1
<1>4. ASSUME NEW k \in DOMAIN s
      PROVE  /\ t[k] \in BatchRecords /\ t[k].pictures = s[k].pictures /\ t[k].vectors = s[k].vectors
             /\ t[k].at = "done" => s[k].at = "done"
  <2>1. s[k] \in BatchRecords
    BY <1>3
  <2> DEFINE r == [s[k] EXCEPT !.at = "cancelled"]
  <2>2. r \in BatchRecords /\ r.pictures = s[k].pictures /\ r.vectors = s[k].vectors /\ r.at = "cancelled"
    BY <2>1 DEF BatchRecords, Stages
  <2>3. t[k] = r \/ t[k] = s[k]
    OBVIOUS
  <2> HIDE DEF r, t
  <2> QED
    BY <2>1, <2>2, <2>3
<1>5. DOMAIN t = DOMAIN s /\ t = [k \in DOMAIN s |-> t[k]]
  OBVIOUS
<1> HIDE DEF t
<1>6. t \in Seq(BatchRecords) /\ Len(t) = Len(s)
  BY <1>3, <1>4, <1>5
<1>7. /\ call'[c] = [call[c] EXCEPT !.phase = "draining"] /\ batch'[c] = t
      /\ \A d \in Callers \ {c} : call'[d] = call[d] /\ batch'[d] = batch[d]
  BY <1>1, <1>2
<1>8. call'[c].phase = "draining" /\ call'[c].n = call[c].n /\ call'[c] \in CallRecords
  BY <1>1, <1>7 DEF CallRecords
<1>9. CallInv(c)'
  BY <1>1, <1>2, <1>4, <1>5, <1>6, <1>7, <1>8 DEF CallInv
<1>10. \A d \in Callers \ {c} : CallInv(d)'
  BY <1>7, OthersKeep
<1>11. Typed'
  BY <1>1, <1>2, <1>6, <1>7, <1>8 DEF Typed
<1> QED
  BY <1>9, <1>10, <1>11 DEF ClientInv

\* A call raises only when nothing of it is in flight.
LEMMA RaiseInv == ASSUME ClientInv, NEW c \in Callers, Raise(c) PROVE ClientInv'
<1>1. call \in [Callers -> CallRecords] /\ batch \in [Callers -> Seq(BatchRecords)] /\ CallInv(c)
  BY DEF ClientInv, Typed
<1>2. PICK phase \in {"raised", "escaped"} : call' = [call EXCEPT ![c].phase = phase]
  BY DEF Raise
<1>3. batch' = batch /\ call[c].phase = "draining"
  BY DEF Raise
<1>4. \A k \in DOMAIN batch[c] : batch[c][k].at \notin {"posted", "sleeping"}
  BY DEF Raise, Busy
<1>5. /\ call'[c].phase = phase /\ call'[c].n = call[c].n /\ call'[c] \in CallRecords
      /\ \A d \in Callers \ {c} : call'[d] = call[d]
  BY <1>1, <1>2 DEF CallRecords
<1>6. CallInv(c)'
  BY <1>1, <1>3, <1>4, <1>5 DEF CallInv
<1>7. \A d \in Callers \ {c} : CallInv(d)'
  BY <1>3, <1>5, OthersKeep
<1>8. Typed'
  BY <1>1, <1>2, <1>3, <1>5 DEF Typed
<1> QED
  BY <1>6, <1>7, <1>8 DEF ClientInv

(* When every batch is done its vectors are its slice, and the slices      *)
(* joined in the batches' order are the call's pictures.                   *)
LEMMA SlicesFlatten ==
  ASSUME NEW n \in Nat, NEW s \in Seq(Seq(Nat)), Len(s) = Count(n), \A k \in DOMAIN s : s[k] = Slice(n, k)
  PROVE  FlattenSeq(s) = UpTo(n)
<1> DEFINE m == Count(n)
<1>1. m \in Nat /\ (n = 0 => m = 0) /\ (n > 0 => m > 0 /\ EndOf(n, m) = n)
  BY SlicesCover
<1>2. CASE n = 0
  <2>1. s = <<>>
    BY <1>1, <1>2
  <2>2. UpTo(n) = <<>>
    BY <1>2 DEF UpTo
  <2> QED
    BY <2>1, <2>2 DEF FlattenSeq
<1>3. CASE n > 0
  <2> DEFINE g == [k \in 1 .. m |-> UpTo(EndOf(n, k))]
  <2> HIDE DEF m
  <2>1. DOMAIN s = 1 .. m /\ m \in Nat \ {0}
    BY <1>1, <1>3 DEF m
  <2>2. \A k \in 1 .. m : g[k] = IF k = 1 THEN s[k] ELSE g[k - 1] \o s[k]
    <3> SUFFICES ASSUME NEW k \in 1 .. m PROVE g[k] = IF k = 1 THEN s[k] ELSE g[k - 1] \o s[k]
      OBVIOUS
    <3>1. /\ Slice(n, 1) = UpTo(EndOf(n, 1))
          /\ k > 1 => UpTo(EndOf(n, k - 1)) \o Slice(n, k) = UpTo(EndOf(n, k))
      BY SlicesJoin DEF m
    <3>2. s[k] = Slice(n, k) /\ g[k] = UpTo(EndOf(n, k))
      BY <2>1
    <3>3. CASE k = 1
      BY <3>1, <3>2, <3>3
    <3>4. CASE k # 1
      <4>1. k - 1 \in 1 .. m /\ k > 1
        BY <2>1, <3>4
      <4>2. g[k - 1] = UpTo(EndOf(n, k - 1))
        BY <4>1
      <4> HIDE DEF g
      <4> QED
        BY <3>1, <3>2, <3>4, <4>1, <4>2
    <3> QED
      BY <3>3, <3>4
  <2>3. g[m] = UpTo(EndOf(n, m))
    BY <2>1
  <2> HIDE DEF g
  <2>4. Len(s) = m
    BY DEF m
  <2> HIDE DEF Count
  <2>6. Joins(g, s, m)
    BY <2>2 DEF Joins
  <2>5. FlattenSeq(s) = g[m]
    <3>1. m \in Nat \ {0}
      BY <2>1
    <3> QED
      BY <2>4, <2>6, <3>1, Flattened
  <2> QED
    BY <1>1, <1>3, <2>3, <2>5 DEF m
<1> QED
  BY <1>2, <1>3

\* A call returns when all its batches are done: their vectors in a row follow the pictures.
LEMMA ReturnInv == ASSUME ClientInv, NEW c \in Callers, Return(c) PROVE ClientInv'
<1>1. call \in [Callers -> CallRecords] /\ batch \in [Callers -> Seq(BatchRecords)] /\ CallInv(c)
  BY DEF ClientInv, Typed
<1> DEFINE b == batch[c]
           s == [k \in DOMAIN b |-> b[k].vectors]
           n == call[c].n
<1>2. /\ call[c].phase = "running" /\ batch' = batch
      /\ \A k \in DOMAIN b : b[k].at = "done"
      /\ call' = [call EXCEPT ![c].phase = "returned", ![c].vectors = FlattenSeq(s)]
  BY DEF Return
<1>3. b \in Seq(BatchRecords) /\ DOMAIN b = 1 .. Len(b) /\ Len(b) = Count(n) /\ n \in Nat
  BY <1>1, <1>2 DEF CallInv, CallRecords
<1>4. \A k \in DOMAIN b : b[k] \in BatchRecords /\ b[k].vectors = b[k].pictures /\ b[k].pictures = Slice(n, k)
  BY <1>1, <1>2, <1>3 DEF CallInv
<1>5. \A k \in DOMAIN b : s[k] = Slice(n, k) /\ s[k] \in Seq(Nat)
  BY <1>4 DEF BatchRecords
<1>6. s \in Seq(Seq(Nat)) /\ Len(s) = Count(n) /\ DOMAIN s = DOMAIN b
  BY <1>3, <1>5
<1> HIDE DEF s
<1>7. FlattenSeq(s) = UpTo(n)
  BY <1>3, <1>5, <1>6, SlicesFlatten
<1>8. UpTo(n) \in Seq(Nat)
  BY <1>3 DEF UpTo
<1>9. call' = [call EXCEPT ![c].phase = "returned", ![c].vectors = UpTo(n)]
  BY <1>2, <1>7
<1>10. /\ call'[c] = [phase |-> "returned", n |-> n, vectors |-> UpTo(n)]
       /\ \A d \in Callers \ {c} : call'[d] = call[d]
  BY <1>1, <1>9 DEF CallRecords
<1>11. CallInv(c)'
  <2>1. call'[c].phase = "returned" /\ call'[c].n = n /\ call'[c].vectors = UpTo(n) /\ batch'[c] = b
    <3>1. batch'[c] = b
      BY <1>2
    <3> HIDE DEF b, n
    <3> QED
      BY <1>10, <3>1
  <2>2. \A k \in DOMAIN b : b[k].at = "done" /\ b[k].vectors = b[k].pictures /\ b[k].pictures = Slice(n, k)
    BY <1>2, <1>4
  <2> HIDE DEF b
  <2> QED
    BY <1>3, <2>1, <2>2 DEF CallInv
<1>12. \A d \in Callers \ {c} : CallInv(d)'
  BY <1>2, <1>10, OthersKeep
<1>13. Typed'
  <2>1. call'[c] \in CallRecords
    BY <1>3, <1>8, <1>10 DEF CallRecords
  <2> QED
    BY <1>1, <1>2, <1>9, <1>10, <2>1 DEF Typed
<1> QED
  BY <1>11, <1>12, <1>13 DEF ClientInv

\* A caller that goes on leaves no batch behind.
LEMMA ResumeInv == ASSUME ClientInv, NEW c \in Callers, Resume(c) PROVE ClientInv'
<1>1. call \in [Callers -> CallRecords] /\ batch \in [Callers -> Seq(BatchRecords)]
  BY DEF ClientInv, Typed
<1>2. call' = [call EXCEPT ![c] = NoCall] /\ batch' = [batch EXCEPT ![c] = <<>>]
  BY DEF Resume
<1>3. call'[c] = NoCall /\ batch'[c] = <<>> /\ \A d \in Callers \ {c} : call'[d] = call[d] /\ batch'[d] = batch[d]
  BY <1>1, <1>2
<1>4. NoCall \in CallRecords /\ NoCall.phase = "idle"
  BY DEF NoCall, CallRecords
<1>5. CallInv(c)'
  BY <1>3, <1>4 DEF CallInv
<1>6. \A d \in Callers \ {c} : CallInv(d)'
  BY <1>3, OthersKeep
<1>7. Typed'
  BY <1>1, <1>2, <1>4 DEF Typed
<1> QED
  BY <1>5, <1>6, <1>7 DEF ClientInv

\* Every step of every caller keeps the invariant.
LEMMA ClientNext == ClientInv /\ [Next]_vars => ClientInv'
<1> SUFFICES ASSUME ClientInv, [Next]_vars PROVE ClientInv'
  OBVIOUS
<1>1. ASSUME NEW c \in Callers, Start(c) PROVE ClientInv'
  BY <1>1, StartInv
<1>2. ASSUME NEW c \in Callers, NEW k \in DOMAIN batch[c], Batch(c, k) PROVE ClientInv'
  BY <1>2, BatchInv
<1>3. ASSUME NEW c \in Callers, Abandon(c) PROVE ClientInv'
  BY <1>3, AbandonInv
<1>4. ASSUME NEW c \in Callers, Raise(c) PROVE ClientInv'
  BY <1>4, RaiseInv
<1>5. ASSUME NEW c \in Callers, Return(c) PROVE ClientInv'
  BY <1>5, ReturnInv
<1>6. ASSUME NEW c \in Callers, Resume(c) PROVE ClientInv'
  BY <1>6, ResumeInv
<1>7. CASE UNCHANGED vars
  BY <1>7 DEF vars, ClientInv, Typed, CallInv
<1> QED
  BY <1>1, <1>2, <1>3, <1>4, <1>5, <1>6, <1>7 DEF Next, Work

-----------------------------------------------------------------------------
(* The theorems                                                            *)

(* embed_images returns one vector per picture, at the picture's place,    *)
(* however many pictures and batches there are, whichever batch ends       *)
(* first, and in whichever order the rows of an answer arrive.             *)
THEOREM VectorsFollow == Spec => []VectorsFollowPictures
<1>1. ClientInv => VectorsFollowPictures
  BY DEF ClientInv, CallInv, VectorsFollowPictures
<1> QED
  BY <1>1, ClientInit, ClientNext, PTL DEF Spec

(* An ended call has no request in flight and none waiting to be retried,  *)
(* however it ended: the pool is shut down before the exception leaves.    *)
THEOREM NothingRuns == Spec => []NothingLeftRunning
<1>1. ClientInv => NothingLeftRunning
  BY DEF ClientInv, CallInv, NothingLeftRunning, Busy
<1> QED
  BY <1>1, ClientInit, ClientNext, PTL DEF Spec

=============================================================================
