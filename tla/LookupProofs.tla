----------------------------- MODULE LookupProofs -----------------------------
(* Theorems about Lookup, for any catalog, providers, queries, limits,      *)
(* thresholds and evidence.                                                 *)
EXTENDS Lookup, FiniteSetTheorems, SequenceTheorems, TLAPS

-----------------------------------------------------------------------------
(* Sets in order                                                           *)

Distinct(f) == \A a, b \in DOMAIN f : a # b => f[a] # f[b]

\* R is a strict total order of S.
Orders(R, S) ==
    /\ R \in SUBSET (S \X S)
    /\ \A i \in S : <<i, i>> \notin R
    /\ \A i, j \in S : i # j => <<i, j>> \in R \/ <<j, i>> \in R
    /\ \A i, j, k \in S : <<i, j>> \in R /\ <<j, k>> \in R => <<i, k>> \in R

(* What is before an element in a strict total order has fewer elements    *)
(* than the set, and fewer than what is before any later element.          *)
LEMMA RanksGrow ==
  ASSUME NEW S, IsFiniteSet(S), NEW R, Orders(R, S), NEW i \in S
  PROVE  LET Before(x) == Cardinality({j \in S : <<j, x>> \in R}) IN
         /\ Before(i) \in Nat /\ Before(i) < Cardinality(S)
         /\ \A k \in S : <<i, k>> \in R => Before(i) < Before(k)
<1> USE DEF Orders
<1> DEFINE Below(x) == {j \in S : <<j, x>> \in R}
<1>1. \A x \in S : IsFiniteSet(Below(x)) /\ Cardinality(Below(x)) \in Nat
  <2> SUFFICES ASSUME NEW x \in S PROVE IsFiniteSet(Below(x)) /\ Cardinality(Below(x)) \in Nat
    OBVIOUS
  <2>1. Below(x) \in SUBSET S
    OBVIOUS
  <2> HIDE DEF Below
  <2>2. IsFiniteSet(Below(x))
    BY <2>1, FS_Subset
  <2> QED
    BY <2>2, FS_CardinalityType
<1>2. Cardinality(S) \in Nat
  BY FS_CardinalityType
<1>3. Cardinality(Below(i)) < Cardinality(S)
  <2>1. IsFiniteSet(S \ {i}) /\ Cardinality(S \ {i}) = Cardinality(S) - 1
    BY FS_RemoveElement
  <2>2. Below(i) \in SUBSET (S \ {i})
    OBVIOUS
  <2> HIDE DEF Below
  <2>3. Cardinality(Below(i)) <= Cardinality(S \ {i})
    BY <2>1, <2>2, FS_Subset
  <2> QED
    BY <1>1, <1>2, <2>1, <2>3
<1>4. ASSUME NEW k \in S, <<i, k>> \in R PROVE Cardinality(Below(i)) < Cardinality(Below(k))
  <2>1. i \notin Below(i) /\ Below(i) \cup {i} \in SUBSET Below(k)
    BY <1>4
  <2>2. IsFiniteSet(Below(i)) /\ IsFiniteSet(Below(k))
    BY <1>1
  <2> HIDE DEF Below
  <2>3. Cardinality(Below(i) \cup {i}) = Cardinality(Below(i)) + 1
    BY <2>1, <2>2, FS_AddElement
  <2>4. Cardinality(Below(i) \cup {i}) <= Cardinality(Below(k))
    BY <2>1, <2>2, FS_Subset
  <2> QED
    BY <1>1, <2>3, <2>4
<1> QED
  BY <1>1, <1>3, <1>4

(* Arranged puts each element of a finite set in one place, and earlier    *)
(* elements first.                                                         *)
LEMMA ArrangedInOrder ==
  ASSUME NEW S, IsFiniteSet(S), NEW R, Orders(R, S)
  PROVE  /\ Cardinality(S) \in Nat
         /\ Arranged(S, R) \in [1 .. Cardinality(S) -> S]
         /\ Distinct(Arranged(S, R))
         /\ \A i \in S : \E a \in 1 .. Cardinality(S) : Arranged(S, R)[a] = i
         /\ \A a, b \in 1 .. Cardinality(S) : a < b => <<Arranged(S, R)[a], Arranged(S, R)[b]>> \in R
<1> DEFINE n == Cardinality(S)
           Before(x) == Cardinality({j \in S : <<j, x>> \in R})
           f == [x \in S |-> Before(x) + 1]
           order == Arranged(S, R)
<1>1. n \in Nat
  BY FS_CardinalityType
<1>2. \A x \in S : Before(x) \in Nat /\ Before(x) < n
  BY RanksGrow
<1>3. \A x, y \in S : <<x, y>> \in R => Before(x) < Before(y)
  BY RanksGrow
<1>4. order = [k \in 1 .. n |-> CHOOSE i \in S : Before(i) = k - 1]
  BY DEF Arranged
<1> HIDE DEF Before, order, n
<1>5. \A x, y \in S : Before(x) = Before(y) => x = y
  <2> SUFFICES ASSUME NEW x \in S, NEW y \in S, Before(x) = Before(y), x # y PROVE FALSE
    OBVIOUS
  <2>1. Before(x) < Before(y) \/ Before(y) < Before(x)
    BY <1>3 DEF Orders
  <2>2. Before(x) \in Nat /\ Before(y) \in Nat
    BY <1>2
  <2> QED
    BY <2>1, <2>2
<1>6. f \in Injection(S, 1 .. n)
  <2>1. \A x \in S : Before(x) + 1 \in 1 .. n
    BY <1>1, <1>2
  <2>2. f \in [S -> 1 .. n]
    BY <2>1
  <2>3. IsInjective(f)
    <3>1. \A x, y \in S : f[x] = f[y] => x = y
      <4> SUFFICES ASSUME NEW x \in S, NEW y \in S, f[x] = f[y] PROVE x = y
        OBVIOUS
      <4>1. Before(x) + 1 = Before(y) + 1 /\ Before(x) \in Nat /\ Before(y) \in Nat
        BY <1>2
      <4> QED
        BY <1>5, <4>1
    <3>2. DOMAIN f = S
      OBVIOUS
    <3> HIDE DEF f
    <3> QED
      BY <3>1, <3>2 DEF IsInjective
  <2> QED
    BY <2>2, <2>3 DEF Injection
<1>7. f \in Surjection(S, 1 .. n)
  <2>1. IsFiniteSet(1 .. n) /\ Cardinality(1 .. n) = n
    BY <1>1, FS_Interval
  <2> HIDE DEF f
  <2> QED
    BY <1>6, <2>1, FS_Injection DEF n
<1>8. \A k \in 1 .. n : \E i \in S : Before(i) = k - 1
  <2> SUFFICES ASSUME NEW k \in 1 .. n PROVE \E i \in S : Before(i) = k - 1
    OBVIOUS
  <2>1. PICK i \in S : f[i] = k
    BY <1>7 DEF Surjection
  <2>2. Before(i) + 1 = k /\ Before(i) \in Nat
    BY <1>2, <2>1
  <2> QED
    BY <2>2
<1>9. \A k \in 1 .. n : order[k] \in S /\ Before(order[k]) = k - 1
  BY <1>4, <1>8
<1>10. order \in [1 .. n -> S]
  BY <1>4, <1>9
<1>11. ASSUME NEW a \in 1 .. n, NEW b \in 1 .. n, a # b PROVE order[a] # order[b]
  <2>1. Before(order[a]) = a - 1 /\ Before(order[b]) = b - 1
    BY <1>9
  <2>2. a - 1 # b - 1
    BY <1>1, <1>11
  <2> QED
    BY <2>1, <2>2
<1>12. ASSUME NEW i \in S PROVE \E a \in 1 .. n : order[a] = i
  <2> DEFINE a == Before(i) + 1
  <2>1. a \in 1 .. n /\ a - 1 = Before(i)
    BY <1>1, <1>2
  <2>2. Before(order[a]) = Before(i) /\ order[a] \in S
    BY <1>9, <2>1
  <2> QED
    BY <1>5, <2>1, <2>2
<1>13. ASSUME NEW a \in 1 .. n, NEW b \in 1 .. n, a < b PROVE <<order[a], order[b]>> \in R
  <2>1. order[a] \in S /\ order[b] \in S /\ Before(order[a]) = a - 1 /\ Before(order[b]) = b - 1
    BY <1>9
  <2>2. order[a] # order[b]
    BY <1>1, <1>11, <1>13
  <2>3. ~(<<order[b], order[a]>> \in R)
    <3> SUFFICES ASSUME <<order[b], order[a]>> \in R PROVE FALSE
      OBVIOUS
    <3>1. b - 1 < a - 1
      BY <1>3, <2>1
    <3> QED
      BY <1>1, <1>13, <3>1
  <2> QED
    BY <2>1, <2>2, <2>3 DEF Orders
<1>14. Distinct(order)
  BY <1>10, <1>11 DEF Distinct
<1> QED
  BY <1>1, <1>10, <1>12, <1>13, <1>14 DEF n, order

\* Picked takes each of the places once.
LEMMA PickedInOrder ==
  ASSUME NEW s, NEW m \in Nat, DOMAIN s = 1 .. m, NEW places \in SUBSET (1 .. m)
  PROVE  /\ Cardinality(places) \in Nat
         /\ \E order \in [1 .. Cardinality(places) -> places] :
               /\ Distinct(order) /\ \A i \in places : \E k \in 1 .. Cardinality(places) : order[k] = i
               /\ Picked(s, places) = [k \in 1 .. Cardinality(places) |-> s[order[k]]]
<1> DEFINE R == {p \in places \X places : p[1] < p[2]}
           order == Arranged(places, R)
<1>1. IsFiniteSet(places)
  <2>1. IsFiniteSet(1 .. m)
    BY FS_Interval
  <2> QED
    BY <2>1, FS_Subset
<1>2. places \in SUBSET Nat
  OBVIOUS
<1>3. \A i, j \in places : <<i, j>> \in R <=> i < j
  OBVIOUS
<1>4. Orders(R, places)
  <2>1. R \in SUBSET (places \X places)
    OBVIOUS
  <2> HIDE DEF R
  <2> QED
    BY <1>2, <1>3, <2>1 DEF Orders
<1> HIDE DEF R
<1>6. /\ Cardinality(places) \in Nat
      /\ order \in [1 .. Cardinality(places) -> places]
      /\ Distinct(order)
      /\ \A i \in places : \E a \in 1 .. Cardinality(places) : order[a] = i
  BY <1>1, <1>4, ArrangedInOrder
<1>7. Picked(s, places) = [k \in DOMAIN order |-> s[order[k]]]
  BY DEF Picked, R
<1> HIDE DEF order
<1>8. DOMAIN order = 1 .. Cardinality(places)
  BY <1>6
<1>9. Picked(s, places) = [k \in 1 .. Cardinality(places) |-> s[order[k]]]
  BY <1>7, <1>8
<1> QED
  BY <1>6, <1>9

\* A sequence of all of a finite set holds each element once.
LEMMA AllOnce ==
  ASSUME NEW S, IsFiniteSet(S), NEW s \in SetToSeqs(S)
  PROVE  /\ Cardinality(S) \in Nat /\ s \in [1 .. Cardinality(S) -> S] /\ Distinct(s)
         /\ \A x \in S : \E i \in 1 .. Cardinality(S) : s[i] = x
<1> DEFINE n == Cardinality(S)
<1>1. n \in Nat
  BY FS_CardinalityType
<1>2. s \in [1 .. n -> S] /\ \A i, j \in 1 .. n : i # j => s[i] # s[j]
  BY DEF SetToSeqs
<1> HIDE DEF n
<1>3. s \in Injection(1 .. n, S)
  BY <1>2 DEF Injection, IsInjective
<1>4. IsFiniteSet(1 .. n) /\ Cardinality(1 .. n) = n
  BY <1>1, FS_Interval
<1>5. s \in Surjection(1 .. n, S)
  BY <1>3, <1>4, FS_Injection DEF n
<1>6. \A x \in S : \E i \in 1 .. n : s[i] = x
  BY <1>5 DEF Surjection
<1>7. Distinct(s)
  BY <1>2 DEF Distinct
<1> QED
  BY <1>1, <1>2, <1>6, <1>7 DEF n

\* The first n of a sequence.
LEMMA CutIsPrefix ==
  ASSUME NEW T, NEW s \in Seq(T), NEW n \in Nat
  PROVE  /\ CutTo(s, n) \in Seq(T) /\ Len(CutTo(s, n)) = Smaller(n, Len(s))
         /\ Smaller(n, Len(s)) \in Nat /\ Smaller(n, Len(s)) <= n /\ Smaller(n, Len(s)) <= Len(s)
         /\ DOMAIN CutTo(s, n) = 1 .. Smaller(n, Len(s))
         /\ \A i \in 1 .. Smaller(n, Len(s)) : i \in DOMAIN s /\ CutTo(s, n)[i] = s[i]
<1> DEFINE m == Smaller(n, Len(s))
<1>1. m \in Nat /\ m <= n /\ m <= Len(s)
  BY DEF Smaller
<1>2. CutTo(s, n) = SubSeq(s, 1, m)
  BY DEF CutTo
<1> HIDE DEF m
<1>3. \A i \in 1 .. m : i \in DOMAIN s /\ s[i] \in T
  BY <1>1
<1>4. /\ SubSeq(s, 1, m) \in Seq(T) /\ Len(SubSeq(s, 1, m)) = m
      /\ \A i \in 1 .. m : SubSeq(s, 1, m)[i] = s[i]
  BY <1>1, <1>3
<1> QED
  BY <1>1, <1>2, <1>3, <1>4 DEF m

-----------------------------------------------------------------------------
(* What pairs are compared by                                              *)

(* A picture and its absence leave a pair a pair; only text identifies.    *)
LEMMA SeenIsAPair ==
  ASSUME NEW e \in Evidence, NEW seen \in {"none", "hash", "vector"}, query \in QueryRecords
  PROVE  /\ SeenWith(e.pair, seen) \in Comparisons
         /\ Identified(SeenWith(e.pair, seen)) => SeenWith(e.pair, seen).text
<1> DEFINE p == e.pair
           words == IF query.name # "none" THEN p ELSE IF query.text THEN WithoutName(p) ELSE WithoutText(p)
           s == SeenWith(p, seen)
<1>1. p \in Comparisons /\ p.text
  BY LookupAssumption
<1>2. WithoutText(p) \in Comparisons /\ WithoutText(p).gtin = "silent" /\ ~WithoutText(p).mpn
  <2>1. p \in Comparisons
    BY <1>1
  <2> HIDE DEF p
  <2>2. WithoutText(p) \in Comparisons
    <3>1. "silent" \in Sides /\ "silent" \in {"silent", "untrusted", "trusted"} /\ 0 \in 0 .. 100
      BY DEF Sides
    <3> QED
      BY <2>1, <3>1, ZenonT(60) DEF WithoutText, Comparisons
  <2>3. WithoutText(p).gtin = "silent" /\ ~WithoutText(p).mpn
    BY <2>1 DEF WithoutText, Comparisons
  <2> QED
    BY <2>2, <2>3
<1>7. WithoutName(p) \in Comparisons /\ WithoutName(p).text
  <2>1. p \in Comparisons /\ p.text
    BY <1>1
  <2> HIDE DEF p
  <2>2. WithoutName(p) \in Comparisons
    <3>1. 0 \in 0 .. 100
      OBVIOUS
    <3> QED
      BY <2>1, <3>1, ZenonT(60) DEF WithoutName, Comparisons
  <2>3. WithoutName(p).text
    BY <2>1 DEF WithoutName, Comparisons
  <2> QED
    BY <2>2, <2>3
<1> HIDE DEF p
<1>3. words \in Comparisons /\ (words.gtin # "silent" \/ words.mpn => words.text)
  BY <1>1, <1>2, <1>7
<1>4. s = CASE seen = "none" -> WithoutPicture(words)
            [] seen = "hash" -> [words EXCEPT !.cosine = None]
            [] seen = "vector" -> words
  BY DEF SeenWith
<1> HIDE DEF words, s
<1>5. s \in Comparisons /\ s.gtin = words.gtin /\ s.mpn = words.mpn /\ s.text = words.text
  <2>1. CASE seen = "none"
    <3>1. s = WithoutPicture(words)
      BY <1>4, <2>1
    <3>2. WithoutPicture(words) \in Comparisons
      BY <1>3, ZenonT(60) DEF Comparisons, WithoutPicture
    <3>3. /\ WithoutPicture(words).gtin = words.gtin /\ WithoutPicture(words).mpn = words.mpn
          /\ WithoutPicture(words).text = words.text
      BY <1>3 DEF Comparisons, WithoutPicture
    <3> QED
      BY <3>1, <3>2, <3>3
  <2>2. CASE seen = "hash"
    BY <1>3, <1>4, <2>2 DEF Comparisons
  <2>3. CASE seen = "vector"
    BY <1>3, <1>4, <2>3
  <2> QED
    BY <2>1, <2>2, <2>3
<1>6. Identified(s) => s.gtin # "silent" \/ s.mpn
  BY <1>5 DEF Identified, GtinCode, MpnCode, Comparisons, Sides
<1> QED
  BY <1>3, <1>5, <1>6 DEF s, p

\* The weight of a level's reason is an integer.
LEMMA WeightsAreIntegers ==
  ASSUME NEW p \in Comparisons
  PROVE  /\ WEIGHTS[GtinCode(p)] \in Int /\ WEIGHTS[MpnCode(p)] \in Int /\ WEIGHTS[SkuCode(p)] \in Int
         /\ WEIGHTS[TokensCode(p)] \in Int /\ WEIGHTS[BrandCode(p)] \in Int
         /\ WEIGHTS[WeightCode(p)] \in Int /\ WEIGHTS[DimensionsCode(p)] \in Int
         /\ \A a \in Variants : WEIGHTS[VariantCode(p, a)] \in Int
         /\ WEIGHTS[PhashCode(p)] \in Int /\ WEIGHTS[VectorCode(p)] \in Int
<1> USE DEF Comparisons, Sides
<1>1. GtinCode(p) \in {"silent", "gtin_exact_untrusted", "gtin_exact"}
  BY DEF GtinCode
<1>2. MpnCode(p) \in {"silent", "mpn_exact", "brand_mpn_exact", "mpn_exact_brand_conflict"}
  BY DEF MpnCode
<1>3. SkuCode(p) \in {"silent", "sku_exact"}
  BY DEF SkuCode
<1>4. TokensCode(p) \in {"silent", "name_tokens_weak", "name_tokens_strong"}
  BY DEF TokensCode
<1>5. BrandCode(p) \in {"silent", "brand_equal", "brand_conflict"}
  BY DEF BrandCode
<1>6. WeightCode(p) \in {"silent", "weight_match", "weight_conflict"}
  BY DEF WeightCode
<1>7. DimensionsCode(p) \in {"silent", "dimensions_match", "dimensions_conflict"}
  BY DEF DimensionsCode
<1>8. \A a \in Variants : VariantCode(p, a) \in {"silent", "variant_equal", "variant_conflict"}
  <2>1. p["color"] \in Sides /\ p["size"] \in Sides /\ p["pack"] \in Sides
    OBVIOUS
  <2> QED
    BY <2>1 DEF VariantCode, Variants
<1>9. PhashCode(p) \in {"silent", "image_near_exact", "image_near"}
  BY DEF PhashCode
<1>10. VectorCode(p) \in {"silent", "image_similar_strong", "image_similar"}
  BY DEF VectorCode
<1> QED
  BY <1>1, <1>2, <1>3, <1>4, <1>5, <1>6, <1>7, <1>8, <1>9, <1>10 DEF WEIGHTS

\* Linear stays between 0 and its top.
LEMMA LinearIsBounded ==
  /\ \A v \in -100 .. 100 : Linear(v, 35, 90, 25) \in 0 .. 25
  /\ \A v \in -100 .. 100 : Linear(v, 35, 90, 100) \in 0 .. 100
  /\ \A v \in -100 .. 100 : Linear(v, 60, 100, 100) \in 0 .. 100
  /\ \A v \in -100 .. 100 : Linear(v, 80, 100, 100) \in 0 .. 100
BY DEF Linear, Rounded, Smaller

(* Score, relevance and similarity are integers, relevance at most 100, and*)
(* 100 for what a text query identifies.                                   *)
LEMMA PairMeasures ==
  ASSUME NEW p \in Comparisons
  PROVE  /\ Score(p) \in Int /\ p.similarity \in Int
         /\ Relevance(p) \in Int /\ Relevance(p) <= 100
         /\ p.text /\ Identified(p) => Relevance(p) = 100
<1>1. /\ p.similarity \in -100 .. 100 /\ p.ratio \in -100 .. 100
      /\ p.cosine # None => p.cosine \in -100 .. 100
      /\ p.text \in BOOLEAN /\ p.pictured \in BOOLEAN
  BY DEF Comparisons
<1>2. TrigramPoints(p) \in Int
  <2>1. Linear(p.similarity, 35, 90, 25) \in 0 .. 25
    BY <1>1, LinearIsBounded, Zenon
  <2>2. TrigramPoints(p) = Linear(p.similarity, 35, 90, 25)
    BY Zenon DEF TrigramPoints
  <2> QED
    BY <2>1, <2>2
<1>3. Points(p) \in Int
  <2> DEFINE w(c) == WEIGHTS[c]
  <2>1. w(VariantCode(p, "color")) \in Int /\ w(VariantCode(p, "size")) \in Int /\ w(VariantCode(p, "pack")) \in Int
    BY WeightsAreIntegers DEF Variants
  <2>2. /\ w(GtinCode(p)) \in Int /\ w(MpnCode(p)) \in Int /\ w(SkuCode(p)) \in Int
        /\ w(TokensCode(p)) \in Int /\ w(BrandCode(p)) \in Int
        /\ w(WeightCode(p)) \in Int /\ w(DimensionsCode(p)) \in Int
        /\ w(PhashCode(p)) \in Int /\ w(VectorCode(p)) \in Int
    BY WeightsAreIntegers
  <2>3. Points(p) = w(GtinCode(p)) + w(MpnCode(p)) + w(SkuCode(p))
          + TrigramPoints(p) + w(TokensCode(p)) + w(BrandCode(p))
          + w(WeightCode(p)) + w(DimensionsCode(p))
          + w(VariantCode(p, "color")) + w(VariantCode(p, "size")) + w(VariantCode(p, "pack"))
          + (w(PhashCode(p)) + w(VectorCode(p)))
    <3>1. ImagePoints(p) = w(PhashCode(p)) + w(VectorCode(p))
      BY DEF ImagePoints
    <3> QED
      BY <3>1 DEF Points
  <2> HIDE DEF w
  <2> QED
    BY <1>2, <2>1, <2>2, <2>3
<1>4. Score(p) \in Int
  <2>1. Larger(Points(p), 0) \in Int
    BY <1>3 DEF Larger
  <2> QED
    BY <2>1 DEF Score, Smaller
<1>5. TextRelevance(p) \in 0 .. 100
  BY <1>1, LinearIsBounded DEF TextRelevance, Larger
<1>6. IdentifierRelevance(p) \in {0, 60, 80, 100} /\ (Identified(p) => IdentifierRelevance(p) = 100)
  BY DEF IdentifierRelevance
<1>7. ImageRelevance(p) \in 0 .. 100
  <2> DEFINE byCosine == IF p.cosine = None THEN 0 ELSE Linear(p.cosine, 80, 100, 100)
  <2>1. byCosine \in 0 .. 100
    <3>1. CASE p.cosine = None
      BY <3>1
    <3>2. CASE p.cosine # None
      <4>1. Linear(p.cosine, 80, 100, 100) \in 0 .. 100
        BY <1>1, <3>2, LinearIsBounded
      <4> QED
        BY <3>2, <4>1
    <3> QED
      BY <3>1, <3>2
  <2>2. ImageRelevance(p) \in {100, Larger(85, byCosine), byCosine}
    BY DEF ImageRelevance
  <2> HIDE DEF byCosine
  <2> QED
    BY <2>1, <2>2 DEF Larger
<1> DEFINE words == Larger(IdentifierRelevance(p), TextRelevance(p))
<1>8. words \in 0 .. 100 /\ (Identified(p) => words = 100)
  BY <1>5, <1>6 DEF Larger
<1>9. Relevance(p) = CASE ~p.pictured -> words
                       [] p.pictured /\ ~p.text -> ImageRelevance(p)
                       [] p.pictured /\ p.text /\ IdentifierRelevance(p) = 100 -> 100
                       [] OTHER -> Rounded(ImageRelevance(p) + words, 2)
  BY DEF Relevance
<1> HIDE DEF words
<1>10. Rounded(ImageRelevance(p) + words, 2) \in 0 .. 100
  <2>1. \A x \in 0 .. 200 : Rounded(x, 2) \in 0 .. 100
    BY DEF Rounded
  <2>2. ImageRelevance(p) + words \in 0 .. 200
    BY <1>7, <1>8
  <2> QED
    BY <2>1, <2>2
<1>11. Relevance(p) \in 0 .. 100
  BY <1>1, <1>7, <1>8, <1>9, <1>10
<1>12. p.text /\ Identified(p) => Relevance(p) = 100
  BY <1>1, <1>6, <1>8, <1>9
<1> QED
  BY <1>1, <1>4, <1>11, <1>12

(* Above orders pairs weakly: it is asymmetric, and what is not above      *)
(* another is not above what that one is not above.                        *)
LEMMA AboveIsWeak ==
  ASSUME NEW p \in Comparisons, NEW q \in Comparisons, NEW r \in Comparisons
  PROVE  /\ ~Above(p, p) /\ (Above(p, q) => ~Above(q, p))
         /\ Above(p, q) /\ Above(q, r) => Above(p, r)
         /\ ~Above(p, q) /\ ~Above(q, r) => ~Above(p, r)
<1>1. /\ Score(p) \in Int /\ Score(q) \in Int /\ Score(r) \in Int
      /\ Relevance(p) \in Int /\ Relevance(q) \in Int /\ Relevance(r) \in Int
      /\ p.similarity \in Int /\ q.similarity \in Int /\ r.similarity \in Int
  BY PairMeasures
<1> QED
  BY <1>1 DEF Above, AboveByScore, AboveByRelevance

-----------------------------------------------------------------------------
(* What a leg adds to the pool                                             *)

Rows == [item : Items, gen : Nat, evidence : Evidence]
LegNames == {"exact", "near_hash", "trigram", "near_vector", "words"}
Met == [row : Rows, leg : LegNames]

\* A row's pk.
Key(row) == [item |-> row.item, gen |-> row.gen]

KeysDiffer(p) == \A i, j \in 1 .. Len(p) : i # j => Key(p[i].row) # Key(p[j].row)

\* q is p and, each once, what was found of other keys.
Grows(p, q, leg, m, found) ==
    /\ q \in Seq(Met) /\ Len(p) \in Nat /\ Len(q) \in Nat /\ Len(p) <= Len(q)
    /\ \A i \in 1 .. Len(p) : q[i] = p[i]
    /\ \A i \in 1 .. Len(q) : i > Len(p) => q[i].leg = leg /\ \E a \in 1 .. m : q[i].row = found[a]
    /\ KeysDiffer(p) => KeysDiffer(q)
    /\ p = <<>> => Len(q) = m /\ \A a \in 1 .. m : \E i \in 1 .. Len(q) : q[i].row = found[a]

(* A leg leaves the pool's rows where they are and appends, each once, the *)
(* rows it found that the pool does not hold.                              *)
LEMMA PoolGrows ==
  ASSUME NEW p \in Seq(Met), NEW m \in Nat, NEW found \in [1 .. m -> Rows], NEW leg \in LegNames,
         \A a, b \in 1 .. m : a # b => Key(found[a]) # Key(found[b])
  PROVE  Grows(p, Appended(p, found, leg), leg, m, found)
<1> DEFINE places == {a \in 1 .. m : \A i \in 1 .. Len(p) : Key(p[i].row) # Key(found[a])}
           new == Picked(found, places)
           c == Cardinality(places)
           more == [i \in 1 .. c |-> [row |-> new[i], leg |-> leg]]
           q == p \o more
<1>1. places \in SUBSET (1 .. m)
  OBVIOUS
<1>2. /\ c \in Nat
      /\ \E order \in [1 .. c -> places] :
            /\ Distinct(order) /\ \A a \in places : \E k \in 1 .. c : order[k] = a
            /\ new = [k \in 1 .. c |-> found[order[k]]]
  <2>1. DOMAIN found = 1 .. m
    OBVIOUS
  <2> HIDE DEF places
  <2> QED
    BY <1>1, <2>1, PickedInOrder, ZenonT(60)
<1>3. Appended(p, found, leg) = q
  <2>1. places = {i \in DOMAIN found : [item |-> found[i].item, gen |-> found[i].gen] \notin
                     {[item |-> p[j].row.item, gen |-> p[j].row.gen] : j \in DOMAIN p}}
    <3>1. DOMAIN found = 1 .. m /\ DOMAIN p = 1 .. Len(p)
      OBVIOUS
    <3> QED
      BY <3>1, Zenon DEF Key
  <2>2. DOMAIN new = 1 .. c
    BY <1>2
  <2>3. Appended(p, found, leg) = p \o [i \in DOMAIN new |-> [row |-> new[i], leg |-> leg]]
    <3> HIDE DEF places
    <3> QED
      BY <2>1 DEF Appended
  <2> QED
    BY <2>2, <2>3
<1>4. ASSUME NEW a \in places, NEW i \in 1 .. Len(p) PROVE Key(p[i].row) # Key(found[a])
  BY <1>4
<1>5. p = <<>> => places = 1 .. m
  <2>1. p = <<>> => 1 .. Len(p) = {}
    OBVIOUS
  <2> QED
    BY <2>1
<1> HIDE DEF places
<1>6. PICK order \in [1 .. c -> places] :
            /\ Distinct(order) /\ \A a \in places : \E k \in 1 .. c : order[k] = a
            /\ new = [k \in 1 .. c |-> found[order[k]]]
  BY <1>2
<1> HIDE DEF new, c
<1>7. \A k \in 1 .. c : order[k] \in places /\ order[k] \in 1 .. m /\ new[k] = found[order[k]] /\ new[k] \in Rows
  BY <1>1, <1>6
<1>8. more \in Seq(Met) /\ Len(more) = c /\ \A k \in 1 .. c : more[k].row = found[order[k]] /\ more[k].leg = leg
  <2>1. \A k \in 1 .. c : [row |-> new[k], leg |-> leg] \in Met
    BY <1>7 DEF Met
  <2>2. more \in [1 .. c -> Met]
    BY <2>1
  <2>3. \A k \in 1 .. c : more[k] = [row |-> new[k], leg |-> leg]
    OBVIOUS
  <2> HIDE DEF more
  <2>4. Len(more) = c /\ more \in Seq(Met)
    BY <1>2, <2>2
  <2>5. ASSUME NEW k \in 1 .. c PROVE more[k].row = new[k] /\ more[k].leg = leg
    <3>1. more[k] = [row |-> new[k], leg |-> leg]
      BY <2>3, Zenon
    <3>2. [row |-> new[k], leg |-> leg].row = new[k] /\ [row |-> new[k], leg |-> leg].leg = leg
      OBVIOUS
    <3> QED
      BY <3>1, <3>2, Zenon
  <2> QED
    BY <1>7, <2>4, <2>5
<1> HIDE DEF more
<1>9. q \in Seq(Met) /\ Len(p) \in Nat /\ Len(q) = Len(p) + c
  <2>1. Len(p) \in Nat
    BY LenProperties
  <2>2. more \in Seq(Met) /\ Len(more) = c
    BY <1>8
  <2>3. q \in Seq(Met) /\ Len(q) = Len(p) + Len(more)
    BY ONLY p \in Seq(Met), <2>2, ConcatProperties, Zenon
  <2> QED
    BY <2>1, <2>2, <2>3
<1>10. /\ \A i \in 1 .. Len(p) : q[i] = p[i]
       /\ \A i \in 1 .. Len(q) : i > Len(p) => i - Len(p) \in 1 .. c /\ q[i] = more[i - Len(p)]
  <2>1. /\ Len(p \o more) = Len(p) + Len(more)
        /\ \A i \in 1 .. Len(p) + Len(more) :
              (p \o more)[i] = IF i <= Len(p) THEN p[i] ELSE more[i - Len(p)]
    BY <1>8, ConcatProperties
  <2> HIDE DEF q
  <2>2. ASSUME NEW i \in 1 .. Len(p) PROVE q[i] = p[i]
    <3>1. i \in 1 .. Len(p) + Len(more) /\ i <= Len(p)
      BY <1>2, <1>8, <1>9
    <3> QED
      BY <2>1, <3>1 DEF q
  <2>3. ASSUME NEW i \in 1 .. Len(q), i > Len(p)
        PROVE  i - Len(p) \in 1 .. c /\ q[i] = more[i - Len(p)]
    <3>1. i \in 1 .. Len(p) + Len(more) /\ ~(i <= Len(p)) /\ i - Len(p) \in 1 .. c
      BY <1>2, <1>8, <1>9, <2>3
    <3> QED
      BY <2>1, <3>1 DEF q
  <2> QED
    BY <2>2, <2>3
<1> HIDE DEF q
<1>12. \A i \in 1 .. Len(q) : i > Len(p) =>
          /\ q[i].leg = leg /\ i - Len(p) \in 1 .. c
          /\ order[i - Len(p)] \in places /\ order[i - Len(p)] \in 1 .. m
          /\ q[i].row = found[order[i - Len(p)]]
  <2> SUFFICES ASSUME NEW i \in 1 .. Len(q), i > Len(p)
               PROVE  /\ q[i].leg = leg /\ i - Len(p) \in 1 .. c
                      /\ order[i - Len(p)] \in places /\ order[i - Len(p)] \in 1 .. m
                      /\ q[i].row = found[order[i - Len(p)]]
    OBVIOUS
  <2>1. i - Len(p) \in 1 .. c /\ q[i] = more[i - Len(p)]
    BY <1>10
  <2> QED
    BY <1>7, <1>8, <2>1
<1>13. ASSUME KeysDiffer(p), NEW i \in 1 .. Len(q), NEW j \in 1 .. Len(q), i < j
       PROVE  Key(q[i].row) # Key(q[j].row)
  <2>1. CASE j <= Len(p)
    <3>1. i \in 1 .. Len(p) /\ j \in 1 .. Len(p) /\ i # j
      BY <1>9, <1>13, <2>1
    <3> QED
      BY <1>10, <1>13, <3>1 DEF KeysDiffer
  <2>2. CASE i <= Len(p) /\ j > Len(p)
    <3>1. i \in 1 .. Len(p)
      BY <1>9, <2>2
    <3>2. q[i] = p[i] /\ order[j - Len(p)] \in places /\ q[j].row = found[order[j - Len(p)]]
      BY <1>10, <1>12, <2>2, <3>1
    <3> QED
      BY <1>4, <3>1, <3>2
  <2>3. CASE i > Len(p)
    <3>0. j > Len(p)
      BY <1>9, <1>13, <2>3
    <3>1. /\ i - Len(p) \in 1 .. c /\ j - Len(p) \in 1 .. c /\ i - Len(p) # j - Len(p)
          /\ q[i].row = found[order[i - Len(p)]] /\ order[i - Len(p)] \in 1 .. m
          /\ q[j].row = found[order[j - Len(p)]] /\ order[j - Len(p)] \in 1 .. m
      BY <1>9, <1>12, <1>13, <2>3, <3>0
    <3>2. order[i - Len(p)] # order[j - Len(p)]
      BY <1>6, <3>1 DEF Distinct
    <3> QED
      BY <3>1, <3>2
  <2> QED
    BY <1>9, <2>1, <2>2, <2>3
<1>14. KeysDiffer(p) => KeysDiffer(q)
  <2> SUFFICES ASSUME KeysDiffer(p), NEW i \in 1 .. Len(q), NEW j \in 1 .. Len(q), i # j
               PROVE  Key(q[i].row) # Key(q[j].row)
    BY DEF KeysDiffer
  <2>1. i < j \/ j < i
    BY <1>9, <1>2
  <2> QED
    BY <1>13, <2>1
<1>15. ASSUME p = <<>> PROVE Len(q) = m /\ \A a \in 1 .. m : \E i \in 1 .. Len(q) : q[i].row = found[a]
  <2>1. places = 1 .. m /\ Len(p) = 0
    BY <1>5, <1>15
  <2>2. c = m
    BY <2>1, FS_Interval DEF c
  <2>3. Len(q) = m
    BY <1>9, <2>1, <2>2
  <2>4. ASSUME NEW a \in 1 .. m PROVE \E i \in 1 .. Len(q) : q[i].row = found[a]
    <3>1. PICK k \in 1 .. c : order[k] = a
      BY <1>6, <2>1
    <3>2. k \in 1 .. Len(q) /\ k > Len(p) /\ k - Len(p) = k
      BY <2>1, <2>2, <2>3
    <3> QED
      BY <1>12, <3>1, <3>2
  <2> QED
    BY <2>3, <2>4
<1>16. \A i \in 1 .. Len(q) : i > Len(p) => q[i].leg = leg /\ \E a \in 1 .. m : q[i].row = found[a]
  BY <1>12
<1>17. Len(q) \in Nat /\ Len(p) <= Len(q)
  BY <1>2, <1>9
<1> QED
  BY <1>3, <1>9, <1>10, <1>14, <1>15, <1>16, <1>17 DEF Grows

\* The first n of all rows of a finite set, in whatever order.
LEMMA CutFinds ==
  ASSUME NEW S, IsFiniteSet(S), NEW s \in SetToSeqs(S), NEW n \in Nat
  PROVE  \E m \in Nat : CutTo(s, n) \in [1 .. m -> S] /\ Distinct(CutTo(s, n))
<1>1. Cardinality(S) \in Nat /\ s \in [1 .. Cardinality(S) -> S] /\ Distinct(s)
  BY AllOnce
<1> DEFINE c == Cardinality(S)
<1>2. s \in Seq(S) /\ Len(s) = c /\ DOMAIN s = 1 .. c
  <2> HIDE DEF c
  <2>1. c \in Nat /\ s \in [1 .. c -> S]
    BY <1>1 DEF c
  <2> QED
    BY <2>1
<1> DEFINE m == Smaller(n, Len(s))
           t == CutTo(s, n)
<1>3. /\ t \in Seq(S) /\ Len(t) = m /\ m \in Nat /\ DOMAIN t = 1 .. m
      /\ \A i \in 1 .. m : i \in DOMAIN s /\ t[i] = s[i]
  BY <1>2, CutIsPrefix
<1> HIDE DEF m, t, c
<1>4. t \in [1 .. m -> S]
  BY <1>3
<1>5. Distinct(t)
  BY <1>1, <1>3 DEF Distinct
<1> QED
  BY <1>3, <1>4, <1>5 DEF t

(* Every leg finds rows of the query's kinds, each once; the exact leg all *)
(* that share an identifier with the query, or as many as the pool takes.  *)
LEMMA LegsFind ==
  ASSUME IsFiniteSet(table), Blocking
  PROVE  \E leg \in LegNames, m \in Nat : \E found \in [1 .. m -> Base] :
            /\ Distinct(found)
            /\ phase = "blocking" /\ legs # <<>> /\ Head(legs) = leg
            /\ pool' = Appended(pool, found, leg) /\ legs' = Tail(legs)
            /\ UNCHANGED <<catalog, query, phase, image, warnings, scored, display, answer, audit>>
            /\ leg = "exact" =>
                  /\ \A a \in 1 .. m : ExactHit(Seen(found[a]))
                  /\ m < PoolLimit => \A r \in Base : ExactHit(Seen(r)) => \E a \in 1 .. m : found[a] = r
<1> DEFINE Runs(leg, m, found) ==
              /\ phase = "blocking" /\ legs # <<>> /\ Head(legs) = leg
              /\ pool' = Appended(pool, found, leg) /\ legs' = Tail(legs)
              /\ UNCHANGED <<catalog, query, phase, image, warnings, scored, display, answer, audit>>
<1>0. IsFiniteSet(Base) /\ \A S \in SUBSET Base : IsFiniteSet(S)
  <2>1. Base \in SUBSET table
    BY DEF Base
  <2> QED
    BY <2>1, FS_Subset
<1>1. PoolLimit \in Nat /\ TrigramLimit \in Nat /\ ImageTopK \in Nat /\ WordLimit \in Nat
  BY LookupAssumption
<1>2. ASSUME NEW leg \in LegNames, leg # "exact", NEW S \in SUBSET Base, NEW n \in Nat, NEW s \in SetToSeqs(S),
             Runs(leg, 0, CutTo(s, n))
      PROVE  \E m \in Nat : \E found \in [1 .. m -> Base] : Distinct(found) /\ Runs(leg, m, found)
  <2>1. PICK m \in Nat : CutTo(s, n) \in [1 .. m -> S] /\ Distinct(CutTo(s, n))
    BY <1>0, CutFinds
  <2>2. CutTo(s, n) \in [1 .. m -> Base]
    BY <2>1
  <2> QED
    BY <1>2, <2>1, <2>2
<1>3. CASE Exact
  <2> DEFINE hits == {r \in Base : ExactHit(Seen(r))}
  <2>0. PICK c \in SUBSET hits : \E s \in SetToSeqs(c) :
           /\ Cardinality(c) = Smaller(PoolLimit, Cardinality(hits))
           /\ Runs("exact", 0, s)
    BY <1>3 DEF Exact, Run, Orderings
  <2>1. PICK found \in SetToSeqs(c) :
           /\ Cardinality(c) = Smaller(PoolLimit, Cardinality(hits))
           /\ Runs("exact", 0, found)
    BY <2>0
  <2> DEFINE m == Cardinality(c)
  <2>2. hits \in SUBSET Base /\ c \in SUBSET Base
    OBVIOUS
  <2>3. IsFiniteSet(hits) /\ IsFiniteSet(c)
    BY <1>0, <2>2
  <2>4. \A r \in c : r \in Base /\ ExactHit(Seen(r))
    OBVIOUS
  <2>5. \A r \in Base : ExactHit(Seen(r)) => r \in hits
    OBVIOUS
  <2> HIDE DEF hits
  <2>6. m \in Nat /\ found \in [1 .. m -> c] /\ Distinct(found) /\ \A r \in c : \E a \in 1 .. m : found[a] = r
    BY <2>3, AllOnce
  <2>7. m < PoolLimit => c = hits
    <3>1. Cardinality(hits) \in Nat /\ (Cardinality(c) = Cardinality(hits) => c = hits)
      BY <2>3, FS_Subset, FS_CardinalityType
    <3>2. m < PoolLimit => Cardinality(c) = Cardinality(hits)
      BY <1>1, <2>1, <3>1 DEF Smaller
    <3> QED
      BY <3>1, <3>2
  <2> HIDE DEF m
  <2>8. found \in [1 .. m -> Base] /\ \A a \in 1 .. m : ExactHit(Seen(found[a]))
    BY <2>4, <2>6
  <2>9. m < PoolLimit => \A r \in Base : ExactHit(Seen(r)) => \E a \in 1 .. m : found[a] = r
    BY <2>5, <2>6, <2>7
  <2>10. "exact" \in LegNames
    BY DEF LegNames
  <2> QED
    BY <2>1, <2>6, <2>8, <2>9, <2>10
<1>4. CASE NearHash
  <2> DEFINE S == {r \in Base : Seen(r).distance # None /\ Seen(r).distance <= 10}
  <2>1. PICK s \in SetToSeqs(S) : Runs("near_hash", 0, CutTo(s, ImageTopK))
    BY <1>4 DEF NearHash, Run, Tops, Orderings
  <2>2. S \in SUBSET Base /\ "near_hash" \in LegNames
    BY DEF LegNames
  <2> HIDE DEF S
  <2>3. \E m \in Nat : \E found \in [1 .. m -> Base] : Distinct(found) /\ Runs("near_hash", m, found)
    BY <1>1, <1>2, <2>1, <2>2
  <2> QED
    BY <2>2, <2>3
<1>5. CASE Trigram
  <2> DEFINE S == {r \in Base : query.name \in {"word", "phrase"} /\ r.evidence.alike /\ Seen(r).similarity >= 35}
  <2>1. PICK s \in SetToSeqs(S) : Runs("trigram", 0, CutTo(s, TrigramLimit))
    BY <1>5 DEF Trigram, Run, Tops, Orderings
  <2>2. S \in SUBSET Base /\ "trigram" \in LegNames
    BY DEF LegNames
  <2> HIDE DEF S
  <2>3. \E m \in Nat : \E found \in [1 .. m -> Base] : Distinct(found) /\ Runs("trigram", m, found)
    BY <1>1, <1>2, <2>1, <2>2
  <2> QED
    BY <2>2, <2>3
<1>6. CASE NearVector
  <2>0. PICK S \in SUBSET {r \in Base : Seen(r).cosine # None} :
           \E s \in SetToSeqs(S) : Runs("near_vector", 0, CutTo(s, ImageTopK))
    BY <1>6 DEF NearVector, Run, Tops, Orderings
  <2>1. PICK s \in SetToSeqs(S) : Runs("near_vector", 0, CutTo(s, ImageTopK))
    BY <2>0
  <2>2. S \in SUBSET Base /\ "near_vector" \in LegNames
    BY DEF LegNames
  <2>3. \E m \in Nat : \E found \in [1 .. m -> Base] : Distinct(found) /\ Runs("near_vector", m, found)
    BY <1>1, <1>2, <2>1, <2>2
  <2> QED
    BY <2>2, <2>3
<1>7. CASE Words
  <2> DEFINE S == {r \in Base : query.name = "phrase" /\ r.evidence.words}
  <2>1. PICK s \in SetToSeqs(S) : Runs("words", 0, CutTo(s, WordLimit))
    BY <1>7 DEF Words, Run, Tops, Orderings
  <2>2. S \in SUBSET Base /\ "words" \in LegNames
    BY DEF LegNames
  <2> HIDE DEF S
  <2>3. \E m \in Nat : \E found \in [1 .. m -> Base] : Distinct(found) /\ Runs("words", m, found)
    BY <1>1, <1>2, <2>1, <2>2
  <2> QED
    BY <2>2, <2>3
<1> QED
  BY <1>3, <1>4, <1>5, <1>6, <1>7 DEF Blocking

-----------------------------------------------------------------------------
(* The ranking                                                             *)

Pairs == [row : Rows, pair : Comparisons]

(* Ranked permutes the pairs so that none comes before one above it.       *)
LEMMA RankedInOrder ==
  ASSUME NEW n \in Nat, NEW pairs \in [1 .. n -> Pairs]
  PROVE  /\ Ranked(pairs) \in [1 .. n -> Pairs]
         /\ \A a, b \in 1 .. n : a < b => ~Above(Ranked(pairs)[b].pair, Ranked(pairs)[a].pair)
         /\ \E order \in [1 .. n -> 1 .. n] :
               /\ Distinct(order)
               /\ \A i \in 1 .. n : \E a \in 1 .. n : order[a] = i
               /\ \A a \in 1 .. n : Ranked(pairs)[a] = pairs[order[a]]
<1> DEFINE D == 1 .. n
           up(i, j) == Above(pairs[i].pair, pairs[j].pair)
           precedes(i, j) == up(i, j) \/ (~up(j, i) /\ i < j)
           R == {p \in D \X D : precedes(p[1], p[2])}
           order == Arranged(D, R)
<1>1. \A i \in D : pairs[i] \in Pairs /\ pairs[i].pair \in Comparisons
  BY DEF Pairs
<1>2. \A i, j, k \in D :
         /\ ~up(i, i) /\ (up(i, j) => ~up(j, i))
         /\ up(i, j) /\ up(j, k) => up(i, k)
         /\ ~up(i, j) /\ ~up(j, k) => ~up(i, k)
  BY <1>1, AboveIsWeak
<1>3. Ranked(pairs) = [i \in D |-> pairs[order[i]]]
  BY DEF Ranked
<1> HIDE DEF up
<1>4. \A i \in D : ~precedes(i, i)
  BY <1>2
<1>5. ASSUME NEW i \in D, NEW j \in D, i # j PROVE precedes(i, j) \/ precedes(j, i)
  <2>1. i < j \/ j < i
    BY <1>5
  <2> QED
    BY <2>1
<1>6. ASSUME NEW i \in D, NEW j \in D, NEW k \in D, precedes(i, j), precedes(j, k) PROVE precedes(i, k)
  <2>1. /\ up(i, j) => ~up(j, i)
        /\ up(j, k) => ~up(k, j)
        /\ up(i, j) /\ up(j, k) => up(i, k)
        /\ ~up(k, j) /\ ~up(j, i) => ~up(k, i)
        /\ up(k, i) /\ up(i, j) => up(k, j)
        /\ up(j, k) /\ up(k, i) => up(j, i)
        /\ up(i, k) => ~up(k, i)
        /\ ~up(i, k) /\ ~up(k, j) => ~up(i, j)
        /\ ~up(j, i) /\ ~up(i, k) => ~up(j, k)
    BY <1>2
  <2>2. i < j /\ j < k => i < k
    OBVIOUS
  <2> QED
    BY <1>6, <2>1, <2>2
<1>7. \A i, j \in D : <<i, j>> \in R <=> precedes(i, j)
  OBVIOUS
<1>8. R \in SUBSET (D \X D)
  OBVIOUS
<1> HIDE DEF precedes, R
<1>9. Orders(R, D)
  BY <1>4, <1>5, <1>6, <1>7, <1>8 DEF Orders
<1>10. IsFiniteSet(D) /\ Cardinality(D) = n
  BY FS_Interval
<1> HIDE DEF D
<1>11. /\ order \in [1 .. n -> D] /\ Distinct(order)
       /\ \A i \in D : \E a \in 1 .. n : order[a] = i
       /\ \A a, b \in 1 .. n : a < b => <<order[a], order[b]>> \in R
  BY <1>9, <1>10, ArrangedInOrder
<1> HIDE DEF order
<1>12. \A a \in 1 .. n : order[a] \in D /\ Ranked(pairs)[a] = pairs[order[a]] /\ Ranked(pairs)[a] \in Pairs
  BY <1>1, <1>3, <1>11 DEF D
<1>13. Ranked(pairs) \in [1 .. n -> Pairs]
  BY <1>3, <1>12 DEF D
<1>14. ASSUME NEW a \in 1 .. n, NEW b \in 1 .. n, a < b
       PROVE  ~Above(Ranked(pairs)[b].pair, Ranked(pairs)[a].pair)
  <2>1. precedes(order[a], order[b])
    BY <1>7, <1>11, <1>12, <1>14
  <2>2. ~up(order[b], order[a])
    BY <1>2, <1>12, <2>1 DEF precedes
  <2> QED
    BY <1>12, <2>2 DEF up
<1> QED
  BY <1>11, <1>12, <1>13, <1>14 DEF D

-----------------------------------------------------------------------------
(* The catalog, and the types                                              *)

LegTails ==
    {LegOrder, <<"near_hash", "trigram", "near_vector", "words">>,
     <<"trigram", "near_vector", "words">>, <<"near_vector", "words">>, <<"words">>, <<>>}

Typed ==
    /\ query \in QueryRecords /\ phase \in Phases /\ image \in {"none", "hash", "vector"}
    /\ generation \in [Items -> Nat]
    /\ legs \in LegTails /\ pool \in Seq(Met) /\ scored \in Seq(Pairs)

\* An item has one row at most, of its last generation.
OneRowEach ==
    /\ table \in SUBSET Rows /\ IsFiniteSet(table)
    /\ \A r \in table : r.gen = generation[r.item]
    /\ \A r, s \in table : r.item = s.item => r = s

\* A leg, with what LegsFind says of it.
LegRun(leg, m, found) ==
    /\ Distinct(found)
    /\ phase = "blocking" /\ legs # <<>> /\ Head(legs) = leg
    /\ pool' = Appended(pool, found, leg) /\ legs' = Tail(legs)
    /\ UNCHANGED <<catalog, query, phase, image, warnings, scored, display, answer, audit>>
    /\ leg = "exact" =>
          /\ \A a \in 1 .. m : ExactHit(Seen(found[a]))
          /\ m < PoolLimit => \A r \in Base : ExactHit(Seen(r)) => \E a \in 1 .. m : found[a] = r

\* The picture is settled: every action of Picture but the refusal.
Settled ==
    \E seen \in {"none", "hash", "vector"}, warned \in {{}, ImageUnavailable} :
        /\ warned = {} => seen = IF query.picture THEN "vector" ELSE "none"
        /\ Block(seen, warned)

(* The steps the invariants are checked against.                           *)
LEMMA Steps ==
  ASSUME IsFiniteSet(table), query \in QueryRecords, Next
  PROVE  \/ Receive \/ Settled \/ PictureRefused \/ ScorePairs \/ Answer
         \/ \E leg \in LegNames, m \in Nat : \E found \in [1 .. m -> Base] : LegRun(leg, m, found)
         \/ \E k \in Kinds : AskBasics(k) \/ AskUrls(k) \/ BatchRaises(k)
         \/ \E i \in Items : AskSingle(i) \/ RefreshRow(i) \/ DeleteRow(i) \/ ChangeService(i)
<1>1. CASE Picture
  <2>1. query.picture \in BOOLEAN
    BY DEF QueryRecords
  <2>2. ImageUnavailable # {}
    BY DEF ImageUnavailable
  <2>3. CASE WithoutPictureGiven
    BY <2>1, <2>3 DEF WithoutPictureGiven, Settled
  <2>4. CASE PictureUnavailable
    BY <2>2, <2>4 DEF PictureUnavailable, Settled
  <2>5. CASE PictureHashed
    BY <2>2, <2>5 DEF PictureHashed, Settled
  <2>6. CASE PictureEmbedded
    BY <2>6 DEF PictureEmbedded, Settled
  <2> QED
    BY <1>1, <2>3, <2>4, <2>5, <2>6 DEF Picture
<1>2. CASE Blocking
  BY <1>2, LegsFind DEF LegRun
<1> QED
  BY <1>1, <1>2 DEF Next, Display

(* What a leg found are rows of the table with keys of their own.          *)
LEMMA LegGrows ==
  ASSUME Typed, OneRowEach, NEW leg \in LegNames, NEW m \in Nat, NEW found \in [1 .. m -> Base],
         LegRun(leg, m, found)
  PROVE  Grows(pool, pool', leg, m, found)
<1>1. \A a \in 1 .. m : found[a] \in table /\ found[a] \in Rows
  BY DEF Base, OneRowEach
<1>2. found \in [1 .. m -> Rows]
  BY <1>1
<1>3. \A a, b \in 1 .. m : a # b => Key(found[a]) # Key(found[b])
  <2> SUFFICES ASSUME NEW a \in 1 .. m, NEW b \in 1 .. m, a # b, Key(found[a]) = Key(found[b]) PROVE FALSE
    OBVIOUS
  <2>1. found[a] # found[b]
    BY DEF LegRun, Distinct
  <2>2. found[a].item = found[b].item
    BY DEF Key
  <2> QED
    BY <1>1, <2>1, <2>2 DEF OneRowEach
<1>4. pool \in Seq(Met) /\ pool' = Appended(pool, found, leg)
  BY DEF Typed, LegRun
<1> QED
  BY <1>2, <1>3, <1>4, PoolGrows

(* scored is the first of the pool as the query sees them, ranked.         *)
Ordered ==
    /\ scored \in Seq(Pairs) /\ Len(scored) \in Nat /\ Len(pool) \in Nat
    /\ Len(scored) = Smaller(PoolLimit, Len(pool))
    /\ \A a, b \in 1 .. Len(scored) : a < b => ~Above(scored[b].pair, scored[a].pair)
    /\ \A a \in 1 .. Len(scored) : scored[a].pair = Seen(scored[a].row)
    /\ \E order \in [1 .. Len(scored) -> 1 .. Len(scored)] :
          /\ Distinct(order)
          /\ \A i \in 1 .. Len(scored) : \E a \in 1 .. Len(scored) : order[a] = i
          /\ \A a \in 1 .. Len(scored) : scored[a].row = pool[order[a]].row

\* Scoring the pool gives its pairs, best first, each row of the pool once.
LEMMA ScoringOrders ==
  ASSUME Typed, ScorePairs
  PROVE  Ordered'
<1> DEFINE n == Smaller(PoolLimit, Len(pool))
           pairs == [i \in 1 .. n |-> [row |-> pool[i].row, pair |-> Seen(pool[i].row)]]
<1>1. /\ pool \in Seq(Met) /\ Len(pool) \in Nat /\ PoolLimit \in Nat /\ query \in QueryRecords
      /\ image \in {"none", "hash", "vector"}
  BY LookupAssumption DEF Typed
<1>2. /\ n \in Nat /\ DOMAIN Candidates = 1 .. n
      /\ \A i \in 1 .. n : i \in DOMAIN pool /\ Candidates[i] = pool[i]
  BY <1>1, CutIsPrefix DEF Candidates
<1>3. scored' = Ranked(pairs)
  <2>1. scored' = Ranked([i \in DOMAIN Candidates |-> [row |-> Candidates[i].row, pair |-> Seen(Candidates[i].row)]])
    BY DEF ScorePairs
  <2>2. [i \in DOMAIN Candidates |-> [row |-> Candidates[i].row, pair |-> Seen(Candidates[i].row)]] = pairs
    <3> HIDE DEF n
    <3> QED
      BY <1>2
  <2> QED
    BY <2>1, <2>2
<1> HIDE DEF n
<1>4. \A i \in 1 .. n : pairs[i] \in Pairs /\ pairs[i].row = pool[i].row /\ pairs[i].pair = Seen(pairs[i].row)
  <2> SUFFICES ASSUME NEW i \in 1 .. n
               PROVE  pairs[i] \in Pairs /\ pairs[i].row = pool[i].row /\ pairs[i].pair = Seen(pairs[i].row)
    OBVIOUS
  <2>1. pool[i] \in Met
    BY <1>1, <1>2
  <2>2. pool[i].row \in Rows /\ pool[i].row.evidence \in Evidence
    BY <2>1 DEF Met, Rows
  <2>3. Seen(pool[i].row) \in Comparisons
    BY <1>1, <2>2, SeenIsAPair DEF Seen
  <2>4. pairs[i] = [row |-> pool[i].row, pair |-> Seen(pool[i].row)]
    OBVIOUS
  <2> HIDE DEF pairs
  <2> QED
    BY <2>2, <2>3, <2>4 DEF Pairs
<1>5. pairs \in [1 .. n -> Pairs]
  BY <1>4
<1> HIDE DEF pairs
<1>6. /\ scored' \in [1 .. n -> Pairs]
      /\ \A a, b \in 1 .. n : a < b => ~Above(scored'[b].pair, scored'[a].pair)
      /\ \E order \in [1 .. n -> 1 .. n] :
            /\ Distinct(order)
            /\ \A i \in 1 .. n : \E a \in 1 .. n : order[a] = i
            /\ \A a \in 1 .. n : scored'[a] = pairs[order[a]]
  BY <1>2, <1>3, <1>5, RankedInOrder
<1>7. scored' \in Seq(Pairs) /\ Len(scored') = n
  BY <1>2, <1>6
<1>8. PICK order \in [1 .. n -> 1 .. n] :
            /\ Distinct(order)
            /\ \A i \in 1 .. n : \E a \in 1 .. n : order[a] = i
            /\ \A a \in 1 .. n : scored'[a] = pairs[order[a]]
  BY <1>6
<1>9. ASSUME NEW a \in 1 .. n
      PROVE  scored'[a].row = pool[order[a]].row /\ scored'[a].pair = Seen(scored'[a].row)
  <2>1. order[a] \in 1 .. n /\ scored'[a] = pairs[order[a]]
    BY <1>8
  <2>2. pairs[order[a]].row = pool[order[a]].row /\ pairs[order[a]].pair = Seen(pairs[order[a]].row)
    BY <1>4, <2>1
  <2> QED
    BY <2>1, <2>2
<1>10. pool' = pool /\ query' = query /\ image' = image
  BY DEF ScorePairs, blocking
<1>12. \A a, b \in 1 .. n : a < b =>
          ~(IF query'.mode = "search" THEN AboveByRelevance(scored'[b].pair, scored'[a].pair)
            ELSE AboveByScore(scored'[b].pair, scored'[a].pair))
  BY <1>6, <1>10 DEF Above
<1>13. \E r \in [1 .. n -> 1 .. n] :
            /\ Distinct(r) /\ \A i \in 1 .. n : \E a \in 1 .. n : r[a] = i
            /\ \A a \in 1 .. n : scored'[a].row = pool'[r[a]].row
  BY <1>8, <1>9, <1>10
<1>14. Smaller(PoolLimit, Len(pool')) = n /\ Len(pool') \in Nat
  BY <1>1, <1>10 DEF n
<1>15. Len(scored)' = n
  BY <1>7
<1>16. (\A a, b \in 1 .. Len(scored) : a < b => ~Above(scored[b].pair, scored[a].pair))'
  BY <1>12, <1>15 DEF Above
<1>17. (\A a \in 1 .. Len(scored) : scored[a].pair = Seen(scored[a].row))'
  BY <1>9, <1>10, <1>15 DEF Seen, SeenWith
<1>18. (Len(scored) = Smaller(PoolLimit, Len(pool)) /\ Len(scored) \in Nat /\ Len(pool) \in Nat /\ scored \in Seq(Pairs))'
  BY <1>2, <1>7, <1>14
<1>19. (\E r \in [1 .. Len(scored) -> 1 .. Len(scored)] :
            /\ Distinct(r) /\ \A i \in 1 .. Len(scored) : \E a \in 1 .. Len(scored) : r[a] = i
            /\ \A a \in 1 .. Len(scored) : scored[a].row = pool[r[a]].row)'
  BY <1>13, <1>15
<1> QED
  BY <1>16, <1>17, <1>18, <1>19 DEF Ordered

\* The rest of a run of legs.
LEMMA TailsRun ==
  ASSUME legs \in LegTails, legs # <<>>
  PROVE  /\ Tail(legs) \in LegTails /\ Head(legs) \in LegNames /\ Tail(legs) # LegOrder
         /\ Head(legs) = "words" <=> Tail(legs) = <<>>
         /\ legs = LegOrder <=> Head(legs) = "exact"
<1>1. CASE legs = <<"exact", "near_hash", "trigram", "near_vector", "words">>
  <2>1. Head(legs) = "exact" /\ Tail(legs) = <<"near_hash", "trigram", "near_vector", "words">>
    BY <1>1
  <2> QED
    BY <1>1, <2>1 DEF LegTails, LegOrder, LegNames
<1>2. CASE legs = <<"near_hash", "trigram", "near_vector", "words">>
  <2>1. Head(legs) = "near_hash" /\ Tail(legs) = <<"trigram", "near_vector", "words">>
    BY <1>2
  <2> QED
    BY <1>2, <2>1 DEF LegTails, LegOrder, LegNames
<1>3. CASE legs = <<"trigram", "near_vector", "words">>
  <2>1. Head(legs) = "trigram" /\ Tail(legs) = <<"near_vector", "words">>
    BY <1>3
  <2> QED
    BY <1>3, <2>1 DEF LegTails, LegOrder, LegNames
<1>4. CASE legs = <<"near_vector", "words">>
  <2>1. Head(legs) = "near_vector" /\ Tail(legs) = <<"words">>
    BY <1>4
  <2> QED
    BY <1>4, <2>1 DEF LegTails, LegOrder, LegNames
<1>5. CASE legs = <<"words">>
  <2>1. Head(legs) = "words" /\ Tail(legs) = <<>>
    BY <1>5
  <2> QED
    BY <1>5, <2>1 DEF LegTails, LegOrder, LegNames
<1> QED
  BY <1>1, <1>2, <1>3, <1>4, <1>5 DEF LegTails, LegOrder

(* Types, and the catalog's rows, hold through every step.                 *)
LEMMA TypedNext ==
  ASSUME Typed, OneRowEach, [Next]_vars
  PROVE  Typed' /\ OneRowEach'
<1> USE DEF Typed
<1>1. CASE UNCHANGED vars
  <2>1. OneRowEach'
    BY <1>1 DEF vars, catalog, OneRowEach
  <2> QED
    BY <1>1, <2>1 DEF vars, catalog, blocking
<1>2. CASE Next
  <2>0. \/ Receive \/ Settled \/ PictureRefused \/ ScorePairs \/ Answer
        \/ \E leg \in LegNames, m \in Nat : \E found \in [1 .. m -> Base] : LegRun(leg, m, found)
        \/ \E k \in Kinds : AskBasics(k) \/ AskUrls(k) \/ BatchRaises(k)
        \/ \E i \in Items : AskSingle(i) \/ RefreshRow(i) \/ DeleteRow(i) \/ ChangeService(i)
    BY <1>2, Steps DEF OneRowEach
  <2>1. CASE Receive
    <3>1. Typed'
      BY <2>1 DEF Receive, catalog, blocking, Phases
    <3> QED
      BY <2>1, <3>1 DEF Receive, catalog, OneRowEach
  <2>2. CASE Settled
    <3>1. PICK seen \in {"none", "hash", "vector"}, warned \in {{}, ImageUnavailable} : Block(seen, warned)
      BY <2>2 DEF Settled
    <3>2. Typed'
      BY <3>1 DEF Block, catalog, Phases, LegTails
    <3> QED
      BY <3>1, <3>2 DEF Block, catalog, OneRowEach
  <2>3. CASE PictureRefused
    <3>1. Typed'
      BY <2>3 DEF PictureRefused, catalog, blocking, Phases
    <3> QED
      BY <2>3, <3>1 DEF PictureRefused, catalog, OneRowEach
  <2>4. CASE ScorePairs
    <3>1. Ordered'
      BY <2>4, ScoringOrders
    <3>2. Typed'
      BY <2>4, <3>1 DEF ScorePairs, Ordered, catalog, blocking, Phases
    <3> QED
      BY <2>4, <3>2 DEF ScorePairs, catalog, OneRowEach
  <2>5. CASE Answer
    <3>1. Typed'
      BY <2>5 DEF Answer, catalog, blocking, Phases
    <3> QED
      BY <2>5, <3>1 DEF Answer, catalog, OneRowEach
  <2>6. ASSUME NEW leg \in LegNames, NEW m \in Nat, NEW found \in [1 .. m -> Base], LegRun(leg, m, found)
        PROVE  Typed' /\ OneRowEach'
    <3>1. pool' \in Seq(Met)
      BY <2>6, LegGrows DEF Grows
    <3>2. Typed'
      BY <2>6, <3>1, TailsRun DEF LegRun, catalog
    <3> QED
      BY <2>6, <3>2 DEF LegRun, catalog, OneRowEach
  <2>7. ASSUME NEW k \in Kinds, AskBasics(k) \/ AskUrls(k) \/ BatchRaises(k) PROVE Typed' /\ OneRowEach'
    <3>1. Displaying
      BY <2>7 DEF AskBasics, AskUrls, BatchRaises
    <3>2. Typed'
      BY <3>1 DEF Displaying, catalog, blocking
    <3> QED
      BY <3>1, <3>2 DEF Displaying, catalog, OneRowEach
  <2>8. ASSUME NEW i \in Items, AskSingle(i) PROVE Typed' /\ OneRowEach'
    <3>1. Displaying
      BY <2>8 DEF AskSingle
    <3>2. Typed'
      BY <3>1 DEF Displaying, catalog, blocking
    <3> QED
      BY <3>1, <3>2 DEF Displaying, catalog, OneRowEach
  <2>9. ASSUME NEW i \in Items, RefreshRow(i) PROVE Typed' /\ OneRowEach'
    <3>1. Typed'
      BY <2>9 DEF RefreshRow, Touch, blocking
    <3>2. PICK e \in Evidence :
             table' = {r \in table : r.item # i} \cup {[item |-> i, gen |-> generation[i], evidence |-> e]}
      BY <2>9 DEF RefreshRow
    <3> DEFINE kept == {r \in table : r.item # i}
               new == [item |-> i, gen |-> generation[i], evidence |-> e]
    <3>3. new \in Rows /\ new.item = i /\ new.gen = generation[i]
      BY DEF Rows
    <3>4. kept \in SUBSET table /\ \A r \in kept : r.item # i
      OBVIOUS
    <3>5. table' = kept \cup {new} /\ generation' = generation
      BY <2>9, <3>2 DEF RefreshRow
    <3> HIDE DEF kept, new
    <3>6. IsFiniteSet(kept)
      BY <3>4, FS_Subset DEF OneRowEach
    <3>7. IsFiniteSet(table')
      BY <3>5, <3>6, FS_AddElement
    <3>8. table' \in SUBSET Rows
      BY <3>3, <3>4, <3>5 DEF OneRowEach
    <3>9. \A r \in table' : r.gen = generation'[r.item]
      BY <3>3, <3>4, <3>5 DEF OneRowEach
    <3>10. \A r, s \in table' : r.item = s.item => r = s
      BY <3>3, <3>4, <3>5 DEF OneRowEach
    <3> QED
      BY <3>1, <3>7, <3>8, <3>9, <3>10 DEF OneRowEach
  <2>10. ASSUME NEW i \in Items, DeleteRow(i) PROVE Typed' /\ OneRowEach'
    <3>1. PICK row \in table : row.item = i /\ table' = table \ {row}
      BY <2>10 DEF DeleteRow
    <3>2. generation' = [generation EXCEPT ![i] = generation[i] + 1]
      BY <2>10 DEF DeleteRow
    <3>3. generation' \in [Items -> Nat]
      BY <3>2
    <3>4. Typed'
      BY <2>10, <3>3 DEF DeleteRow, Touch, blocking
    <3>5. table' \in SUBSET table
      BY <3>1
    <3>6. IsFiniteSet(table')
      BY <3>5, FS_Subset DEF OneRowEach
    <3>7. \A r \in table' : r \in table /\ r.item # i
      BY <3>1 DEF OneRowEach
    <3>8. \A r \in table' : r.gen = generation'[r.item]
      <4> SUFFICES ASSUME NEW r \in table' PROVE r.gen = generation'[r.item]
        OBVIOUS
      <4>1. r.item \in Items /\ r.gen = generation[r.item]
        BY <3>7 DEF OneRowEach, Rows
      <4> QED
        BY <3>2, <3>7, <4>1
    <3> QED
      BY <3>4, <3>5, <3>6, <3>8 DEF OneRowEach
  <2>11. ASSUME NEW i \in Items, ChangeService(i) PROVE Typed' /\ OneRowEach'
    <3>1. Typed'
      BY <2>11 DEF ChangeService, Touch, blocking
    <3> QED
      BY <2>11, <3>1 DEF ChangeService, OneRowEach
  <2> QED
    BY <2>0, <2>1, <2>2, <2>3, <2>4, <2>5, <2>6, <2>7, <2>8, <2>9, <2>10, <2>11
<1> QED
  BY <1>1, <1>2

-----------------------------------------------------------------------------
(* The pool                                                                *)

(* Legs run while blocking, from an empty pool; the word leg is the last;  *)
(* a pk is met once; what nobody touched is in the table as it was met.    *)
PoolOK ==
    /\ phase # "blocking" => legs = <<>>
    /\ phase \in {"idle", "picture"} \/ legs = LegOrder => pool = <<>>
    /\ \A i, j \in 1 .. Len(pool) :
          pool[i].leg = "words" => legs = <<>> /\ (i < j => pool[j].leg = "words")
    /\ KeysDiffer(pool)
    /\ \A i \in 1 .. Len(pool) :
          /\ pool[i].row.gen <= generation[pool[i].row.item]
          /\ pool[i].row.item \notin touched => pool[i].row \in Base

\* Legs grow the pool only in their order, and rows that change or go are touched.
LEMMA PoolNext ==
  ASSUME Typed, OneRowEach, PoolOK, [Next]_vars
  PROVE  PoolOK'
<1>0. Len(pool) \in Nat /\ Len(<<>>) = 0 /\ 1 .. 0 = {}
  BY DEF Typed
<1>1. ASSUME UNCHANGED <<catalog, query, legs, pool>>,
             phase # "blocking" => phase' # "blocking",
             phase' \in {"idle", "picture"} => phase \in {"idle", "picture"},
             phase' # "blocking" => phase # "blocking" \/ legs = <<>>
      PROVE  PoolOK'
  <2>1. Base' = Base
    BY <1>1 DEF catalog, Base, Scope
  <2> QED
    BY <1>1, <2>1 DEF PoolOK, KeysDiffer, catalog
<1>2. CASE UNCHANGED vars
  BY <1>1, <1>2 DEF vars, blocking
<1>3. CASE Next
  <2>0. \/ Receive \/ Settled \/ PictureRefused \/ ScorePairs \/ Answer
        \/ \E leg \in LegNames, m \in Nat : \E found \in [1 .. m -> Base] : LegRun(leg, m, found)
        \/ \E k \in Kinds : AskBasics(k) \/ AskUrls(k) \/ BatchRaises(k)
        \/ \E i \in Items : AskSingle(i) \/ RefreshRow(i) \/ DeleteRow(i) \/ ChangeService(i)
    BY <1>3, Steps DEF OneRowEach, Typed
  <2>1. CASE Receive
    BY <1>1, <2>1 DEF Receive, blocking
  <2>2. CASE Settled
    <3>1. PICK seen \in {"none", "hash", "vector"}, warned \in {{}, ImageUnavailable} : Block(seen, warned)
      BY <2>2 DEF Settled
    <3>2. pool = <<>> /\ pool' = <<>> /\ phase' = "blocking"
      BY <3>1 DEF Block, PoolOK
    <3>3. 1 .. Len(pool') = {}
      BY <1>0, <3>2
    <3> QED
      BY <3>2, <3>3 DEF PoolOK, KeysDiffer
  <2>3. CASE PictureRefused
    BY <1>1, <2>3 DEF PictureRefused, blocking
  <2>4. CASE ScorePairs
    BY <1>1, <2>4 DEF ScorePairs, blocking
  <2>5. CASE Answer
    BY <1>1, <2>5 DEF Answer, blocking, PoolOK
  <2>6. ASSUME NEW leg \in LegNames, NEW m \in Nat, NEW found \in [1 .. m -> Base], LegRun(leg, m, found)
        PROVE  PoolOK'
    <3>1. Grows(pool, pool', leg, m, found)
      BY <2>6, LegGrows
    <3>2. /\ phase = "blocking" /\ phase' = phase /\ legs # <<>> /\ leg = Head(legs) /\ legs' = Tail(legs)
          /\ legs' # LegOrder /\ (leg = "words" => legs' = <<>>) /\ legs \in LegTails
      BY <2>6, TailsRun DEF LegRun, Typed
    <3>3. Base' = Base /\ generation' = generation /\ touched' = touched
      BY <2>6 DEF LegRun, catalog, Base, Scope
    <3>4. \A i \in 1 .. Len(pool) : pool'[i] = pool[i] /\ pool[i].leg # "words"
      BY <3>1, <3>2 DEF Grows, PoolOK
    <3>5. ASSUME NEW i \in 1 .. Len(pool'), pool'[i].leg = "words", NEW j \in 1 .. Len(pool')
          PROVE  legs' = <<>> /\ (i < j => pool'[j].leg = "words")
      <4>1. i > Len(pool)
        <5> SUFFICES ASSUME ~(i > Len(pool)) PROVE FALSE
          OBVIOUS
        <5>1. i \in 1 .. Len(pool)
          BY <1>0, <3>1 DEF Grows
        <5> QED
          BY <3>4, <3>5, <5>1
      <4>2. pool'[i].leg = leg /\ (j > Len(pool) => pool'[j].leg = leg)
        BY <3>1, <4>1 DEF Grows
      <4>3. i < j => j > Len(pool)
        BY <1>0, <3>1, <4>1 DEF Grows
      <4> QED
        BY <3>2, <3>5, <4>2, <4>3
    <3>6. KeysDiffer(pool')
      BY <3>1 DEF Grows, PoolOK
    <3>7. ASSUME NEW i \in 1 .. Len(pool')
          PROVE  /\ pool'[i].row.gen <= generation[pool'[i].row.item]
                 /\ pool'[i].row.item \notin touched => pool'[i].row \in Base
      <4>1. CASE i > Len(pool)
        <5>1. PICK a \in 1 .. m : pool'[i].row = found[a]
          BY <3>1, <4>1 DEF Grows
        <5>2. found[a] \in Base /\ found[a] \in table
          BY DEF Base
        <5>3. found[a].gen = generation[found[a].item] /\ found[a].gen \in Nat
          BY <5>2 DEF OneRowEach, Rows
        <5> QED
          BY <5>1, <5>2, <5>3
      <4>2. CASE ~(i > Len(pool))
        <5>1. i \in 1 .. Len(pool)
          BY <1>0, <3>1, <4>2 DEF Grows
        <5> QED
          BY <3>4, <5>1 DEF PoolOK
      <4> QED
        BY <4>1, <4>2
    <3> QED
      BY <3>2, <3>3, <3>5, <3>6, <3>7 DEF PoolOK, KeysDiffer
  <2>7. ASSUME NEW k \in Kinds, AskBasics(k) \/ AskUrls(k) \/ BatchRaises(k) PROVE PoolOK'
    <3>1. Displaying
      BY <2>7 DEF AskBasics, AskUrls, BatchRaises
    <3> QED
      BY <1>1, <3>1 DEF Displaying, blocking
  <2>8. ASSUME NEW i \in Items, AskSingle(i) PROVE PoolOK'
    <3>1. Displaying
      BY <2>8 DEF AskSingle
    <3> QED
      BY <1>1, <3>1 DEF Displaying, blocking
  <2>9. ASSUME NEW i \in Items, Touch(i), phase' = phase, generation' \in [Items -> Nat],
               \A x \in Items : generation[x] <= generation'[x],
               \A r \in table : r.item # i => r \in table'
        PROVE  PoolOK'
    <3>1. /\ pool' = pool /\ legs' = legs /\ touched' = touched \cup {i} /\ Scope' = Scope
      BY <2>9 DEF Touch, blocking, Scope
    <3>2. ASSUME NEW a \in 1 .. Len(pool)
          PROVE  /\ pool[a].row.gen <= generation'[pool[a].row.item]
                 /\ pool[a].row.item \notin touched' => pool[a].row \in Base'
      <4>1. pool[a] \in Met /\ pool[a].row \in Rows /\ pool[a].row.item \in Items /\ pool[a].row.gen \in Nat
        <5>1. pool \in Seq(Met)
          BY DEF Typed
        <5>2. pool[a] \in Met
          BY <5>1, ElementOfSeq
        <5>3. pool[a].row \in Rows
          BY <5>2 DEF Met
        <5> QED
          BY <5>2, <5>3 DEF Rows
      <4>2. pool[a].row.gen <= generation[pool[a].row.item]
        BY DEF PoolOK
      <4>3. generation[pool[a].row.item] \in Nat /\ generation'[pool[a].row.item] \in Nat
        BY <2>9, <4>1 DEF Typed
      <4>4. generation[pool[a].row.item] <= generation'[pool[a].row.item]
        BY <2>9, <4>1
      <4>5. pool[a].row.gen <= generation'[pool[a].row.item]
        BY <4>1, <4>2, <4>3, <4>4
      <4>6. ASSUME pool[a].row.item \notin touched' PROVE pool[a].row \in Base'
        <5>1. pool[a].row.item # i /\ pool[a].row \in Base
          BY <3>1, <4>6 DEF PoolOK
        <5> QED
          BY <2>9, <3>1, <5>1 DEF Base
      <4> QED
        BY <4>5, <4>6
    <3> QED
      BY <2>9, <3>1, <3>2 DEF PoolOK, KeysDiffer
  <2>10. ASSUME NEW i \in Items, RefreshRow(i) PROVE PoolOK'
    <3>1. /\ Touch(i) /\ phase' = phase /\ generation' = generation
          /\ \A r \in table : r.item # i => r \in table'
      BY <2>10 DEF RefreshRow, Touch
    <3>2. \A x \in Items : generation[x] \in Nat
      BY DEF Typed
    <3> QED
      BY <2>9, <3>1, <3>2 DEF Typed
  <2>11. ASSUME NEW i \in Items, DeleteRow(i) PROVE PoolOK'
    <3>1. /\ Touch(i) /\ phase' = phase /\ generation' = [generation EXCEPT ![i] = generation[i] + 1]
          /\ \A r \in table : r.item # i => r \in table'
      BY <2>11 DEF DeleteRow, Touch
    <3>2. generation' \in [Items -> Nat] /\ \A x \in Items : generation[x] <= generation'[x]
      BY <3>1 DEF Typed
    <3> QED
      BY <2>9, <3>1, <3>2
  <2>12. ASSUME NEW i \in Items, ChangeService(i) PROVE PoolOK'
    <3>1. Touch(i) /\ phase' = phase /\ generation' = generation /\ table' = table
      BY <2>12 DEF ChangeService, Touch
    <3>2. \A x \in Items : generation[x] \in Nat
      BY DEF Typed
    <3> QED
      BY <2>9, <3>1, <3>2 DEF Typed
  <2> QED
    BY <2>0, <2>1, <2>2, <2>3, <2>4, <2>5, <2>6, <2>7, <2>8, <2>10, <2>11, <2>12
<1> QED
  BY <1>2, <1>3

\* A first table has a row of generation 0 for some items, and no pool yet.
LEMMA TypedInit == Init => Typed /\ OneRowEach /\ PoolOK
<1> SUFFICES ASSUME Init PROVE Typed /\ OneRowEach /\ PoolOK
  OBVIOUS
<1>0. PICK owned \in SUBSET Items : \E e \in [owned -> Evidence] :
         table = {[item |-> i, gen |-> 0, evidence |-> e[i]] : i \in owned}
  BY DEF Init
<1>1. PICK e \in [owned -> Evidence] : table = {[item |-> i, gen |-> 0, evidence |-> e[i]] : i \in owned}
  BY <1>0
<1> DEFINE row == [i \in owned |-> [item |-> i, gen |-> 0, evidence |-> e[i]]]
<1>2. IsFiniteSet(owned)
  BY LookupAssumption, FS_Subset
<1>3. row \in Surjection(owned, table)
  BY <1>1 DEF Surjection
<1> HIDE DEF row
<1>4. IsFiniteSet(table)
  BY <1>2, <1>3, FS_Surjection
<1>5. table \in SUBSET Rows /\ \A r \in table : r.gen = 0 /\ r.gen = generation[r.item]
  BY <1>1 DEF Init, Rows
<1>6. \A r, s \in table : r.item = s.item => r = s
  BY <1>1
<1>7. Typed
  BY LookupAssumption DEF Init, Typed, Phases, LegTails
<1>8. PoolOK
  BY DEF Init, PoolOK, KeysDiffer
<1> QED
  BY <1>4, <1>5, <1>6, <1>7, <1>8 DEF OneRowEach

-----------------------------------------------------------------------------
(* The answer                                                              *)

(* From scoring on the candidates are the pool's, ranked; the answer and   *)
(* its audit are the hits of the moment; a warning says what was left out. *)
AnswerOK ==
    /\ phase \in {"display", "answered"} => Ordered
    /\ phase = "answered" =>
          /\ answer = [hits |-> Hits, decision |-> Best(Verdicts(Hits))]
          /\ audit = IF query.log THEN LogOf(Hits) ELSE <<>>
    /\ phase # "answered" => audit = <<>>
    /\ phase # "idle" /\ warnings = {} => query.scope \subseteq Providers
    /\ phase \in {"blocking", "display", "answered"} /\ warnings = {} =>
          image = IF query.picture THEN "vector" ELSE "none"

\* Candidates stay in order while nothing they depend on moves.
LEMMA OrderStays ==
  ASSUME Ordered, UNCHANGED <<scored, pool, query, image>>
  PROVE  Ordered'
<1>1. (\A a \in 1 .. Len(scored) : scored[a].pair = Seen(scored[a].row))'
  BY DEF Ordered, Seen, SeenWith
<1>2. (\A a, b \in 1 .. Len(scored) : a < b => ~Above(scored[b].pair, scored[a].pair))'
  BY DEF Ordered, Above
<1>3. (/\ scored \in Seq(Pairs) /\ Len(scored) \in Nat /\ Len(pool) \in Nat
       /\ Len(scored) = Smaller(PoolLimit, Len(pool)))'
  BY DEF Ordered
<1>4. (\E order \in [1 .. Len(scored) -> 1 .. Len(scored)] :
          /\ Distinct(order)
          /\ \A i \in 1 .. Len(scored) : \E a \in 1 .. Len(scored) : order[a] = i
          /\ \A a \in 1 .. Len(scored) : scored[a].row = pool[order[a]].row)'
  <2> DEFINE Taken(s, p) ==
        \E order \in [1 .. Len(s) -> 1 .. Len(s)] :
            /\ Distinct(order)
            /\ \A i \in 1 .. Len(s) : \E a \in 1 .. Len(s) : order[a] = i
            /\ \A a \in 1 .. Len(s) : s[a].row = p[order[a]].row
  <2>1. Taken(scored, pool)
    BY DEF Ordered
  <2>2. scored' = scored /\ pool' = pool
    OBVIOUS
  <2> HIDE DEF Taken
  <2>3. Taken(scored', pool')
    BY <2>1, <2>2
  <2> QED
    BY <2>3 DEF Taken
<1> QED
  BY <1>1, <1>2, <1>3, <1>4 DEF Ordered

\* From the scores to the answer nothing is reordered, and the audit is written with the answer.
LEMMA AnswerNext ==
  ASSUME Typed, OneRowEach, PoolOK, AnswerOK, [Next]_vars
  PROVE  AnswerOK'
<1>1. CASE UNCHANGED vars
  <2>1. UNCHANGED <<scored, pool, query, image, phase, answer, audit, shown, warnings>>
    BY <1>1 DEF vars, display, blocking
  <2>2. Hits' = Hits
    BY <2>1 DEF Hits
  <2> QED
    BY <2>1, <2>2, OrderStays DEF AnswerOK
<1>2. CASE Next
  <2>0. \/ Receive \/ Settled \/ PictureRefused \/ ScorePairs \/ Answer
        \/ \E leg \in LegNames, m \in Nat : \E found \in [1 .. m -> Base] : LegRun(leg, m, found)
        \/ \E k \in Kinds : AskBasics(k) \/ AskUrls(k) \/ BatchRaises(k)
        \/ \E i \in Items : AskSingle(i) \/ RefreshRow(i) \/ DeleteRow(i) \/ ChangeService(i)
    BY <1>2, Steps DEF OneRowEach, Typed
  <2>1. CASE Receive
    <3>1. warnings' = {} => query.scope \subseteq Providers
      BY <2>1, Zenon DEF Receive
    <3>2. phase = "idle" /\ phase' = "picture" /\ query' = query /\ audit' = audit
      BY <2>1 DEF Receive
    <3> QED
      BY <3>1, <3>2 DEF AnswerOK
  <2>2. CASE Settled
    <3>1. PICK seen \in {"none", "hash", "vector"}, warned \in {{}, ImageUnavailable} :
             (warned = {} => seen = IF query.picture THEN "vector" ELSE "none") /\ Block(seen, warned)
      BY <2>2 DEF Settled
    <3>2. /\ phase = "picture" /\ phase' = "blocking" /\ query' = query /\ audit' = audit
          /\ image' = seen /\ warnings' = warnings \cup warned
      BY <3>1 DEF Block
    <3>3. warnings' = {} => warnings = {} /\ warned = {}
      BY <3>2
    <3> QED
      BY <3>1, <3>2, <3>3 DEF AnswerOK
  <2>3. CASE PictureRefused
    BY <2>3 DEF PictureRefused, AnswerOK
  <2>4. CASE ScorePairs
    <3>1. Ordered'
      BY <2>4, ScoringOrders
    <3> QED
      BY <2>4, <3>1 DEF ScorePairs, AnswerOK
  <2>5. CASE Answer
    <3>1. UNCHANGED <<scored, pool, query, image, shown, warnings>> /\ phase = "display" /\ phase' = "answered"
      BY <2>5 DEF Answer, display, blocking
    <3>2. Hits' = Hits
      BY <3>1 DEF Hits
    <3>3. Ordered'
      BY <3>1, OrderStays DEF AnswerOK
    <3>4. answer' = [hits |-> Hits', decision |-> Best(Verdicts(Hits'))]
      BY <2>5, <3>2 DEF Answer
    <3>5. audit' = IF query'.log THEN LogOf(Hits') ELSE <<>>
      BY <2>5, <3>1, <3>2 DEF Answer, AnswerOK
    <3> QED
      BY <3>1, <3>3, <3>4, <3>5 DEF AnswerOK
  <2>6. ASSUME NEW leg \in LegNames, NEW m \in Nat, NEW found \in [1 .. m -> Base], LegRun(leg, m, found)
        PROVE  AnswerOK'
    BY <2>6 DEF LegRun, AnswerOK
  <2>7. ASSUME Displaying PROVE AnswerOK'
    <3>1. UNCHANGED <<scored, pool, query, image, warnings, audit>> /\ phase = "display" /\ phase' = "display"
      BY <2>7 DEF Displaying, blocking
    <3> QED
      BY <3>1, OrderStays DEF AnswerOK
  <2>8. ASSUME NEW k \in Kinds, AskBasics(k) \/ AskUrls(k) \/ BatchRaises(k) PROVE AnswerOK'
    BY <2>7, <2>8 DEF AskBasics, AskUrls, BatchRaises
  <2>9. ASSUME NEW i \in Items, AskSingle(i) PROVE AnswerOK'
    BY <2>7, <2>9 DEF AskSingle
  <2>10. ASSUME NEW i \in Items, RefreshRow(i) \/ DeleteRow(i) \/ ChangeService(i) PROVE AnswerOK'
    <3>1. /\ UNCHANGED <<scored, pool, query, image, warnings, audit, phase>>
          /\ phase \in {"blocking", "display"}
      BY <2>10 DEF RefreshRow, DeleteRow, ChangeService, RowsAreRead, Touch, blocking
    <3> QED
      BY <3>1, OrderStays DEF AnswerOK
  <2> QED
    BY <2>0, <2>1, <2>2, <2>3, <2>4, <2>5, <2>6, <2>8, <2>9, <2>10
<1> QED
  BY <1>1, <1>2

\* The layers so far.
LookupInv == Typed /\ OneRowEach /\ PoolOK /\ AnswerOK

\* They hold in every state.
LEMMA LookupHolds == Spec => []LookupInv
<1>1. Init => LookupInv
  <2> SUFFICES ASSUME Init PROVE LookupInv
    OBVIOUS
  <2>1. AnswerOK
    BY DEF Init, AnswerOK
  <2> QED
    BY <2>1, TypedInit DEF LookupInv
<1>2. LookupInv /\ [Next]_vars => LookupInv'
  BY TypedNext, PoolNext, AnswerNext DEF LookupInv
<1> QED
  BY <1>1, <1>2, PTL DEF Spec

(* The hits are the candidates among the first query.limit whose items     *)
(* were displayed, each once.                                              *)
LEMMA HitsAreShown ==
  ASSUME Typed, Ordered
  PROVE  \E n \in Nat : \E order \in [1 .. n -> 1 .. Len(scored)] :
            /\ Distinct(order) /\ Hits = [k \in 1 .. n |-> scored[order[k]]]
            /\ \A k \in 1 .. n : order[k] <= query.limit /\ scored[order[k]].row.item \in shown
            /\ \A a \in 1 .. Len(scored) :
                  a <= query.limit /\ scored[a].row.item \in shown => \E k \in 1 .. n : order[k] = a
<1> DEFINE cut == CutTo(scored, query.limit)
           l == Smaller(query.limit, Len(scored))
           places == {i \in DOMAIN cut : cut[i].row.item \in shown}
           n == Cardinality(places)
<1>1. query.limit \in Nat /\ Len(scored) \in Nat /\ scored \in Seq(Pairs)
  BY DEF Typed, QueryRecords, Ordered
<1>2. /\ l \in Nat /\ l <= query.limit /\ l <= Len(scored) /\ DOMAIN cut = 1 .. l
      /\ \A i \in 1 .. l : cut[i] = scored[i]
  BY <1>1, CutIsPrefix
<1>3. \A a \in 1 .. Len(scored) : a <= query.limit => a \in 1 .. l
  BY <1>1 DEF Smaller
<1>4. Hits = Picked(cut, places)
  BY DEF Hits
<1> HIDE DEF cut, l
<1>5. places \in SUBSET (1 .. l) /\ \A a \in 1 .. l : a \in places <=> scored[a].row.item \in shown
  BY <1>2
<1> HIDE DEF places
<1>6. /\ n \in Nat
      /\ \E order \in [1 .. n -> places] :
            /\ Distinct(order) /\ \A i \in places : \E k \in 1 .. n : order[k] = i
            /\ Picked(cut, places) = [k \in 1 .. n |-> cut[order[k]]]
  BY <1>2, <1>5, PickedInOrder, ZenonT(60)
<1>7. PICK order \in [1 .. n -> places] :
            /\ Distinct(order) /\ \A i \in places : \E k \in 1 .. n : order[k] = i
            /\ Picked(cut, places) = [k \in 1 .. n |-> cut[order[k]]]
  BY <1>6
<1> HIDE DEF n
<1>8. \A k \in 1 .. n : /\ order[k] \in places /\ order[k] \in 1 .. l /\ order[k] \in 1 .. Len(scored)
                        /\ order[k] <= query.limit /\ scored[order[k]].row.item \in shown
                        /\ cut[order[k]] = scored[order[k]]
  <2> SUFFICES ASSUME NEW k \in 1 .. n
               PROVE  /\ order[k] \in places /\ order[k] \in 1 .. l /\ order[k] \in 1 .. Len(scored)
                      /\ order[k] <= query.limit /\ scored[order[k]].row.item \in shown
                      /\ cut[order[k]] = scored[order[k]]
    OBVIOUS
  <2>1. order[k] \in places /\ order[k] \in 1 .. l
    BY <1>5, <1>7
  <2>2. order[k] \in 1 .. Len(scored) /\ order[k] <= query.limit
    BY <1>1, <1>2, <2>1
  <2> QED
    BY <1>2, <1>5, <2>1, <2>2
<1>9. Hits = [k \in 1 .. n |-> scored[order[k]]]
  BY <1>4, <1>7, <1>8
<1>10. order \in [1 .. n -> 1 .. Len(scored)]
  BY <1>8
<1>11. \A a \in 1 .. Len(scored) :
          a <= query.limit /\ scored[a].row.item \in shown => \E k \in 1 .. n : order[k] = a
  BY <1>3, <1>5, <1>7
<1> QED
  BY <1>6, <1>7, <1>8, <1>9, <1>10, <1>11 DEF n

(* WordsDisplaceNothing: whatever the limits, no row found by its words    *)
(* alone takes the place of one another leg found.                         *)
THEOREM WordsComeLast == Spec => []WordsDisplaceNothing
<1>1. ASSUME LookupInv PROVE WordsDisplaceNothing
  <2> SUFFICES ASSUME NEW i \in DOMAIN pool, NEW j \in DOMAIN pool, i <= PoolLimit, j > PoolLimit,
                      pool[i].leg = "words"
               PROVE  pool[j].leg = "words"
    BY DEF WordsDisplaceNothing
  <2>1. pool \in Seq(Met) /\ PoolLimit \in Nat
    BY <1>1, LookupAssumption DEF LookupInv, Typed
  <2>2. i \in 1 .. Len(pool) /\ j \in 1 .. Len(pool) /\ i < j
    BY <2>1
  <2> QED
    BY <1>1, <2>2 DEF LookupInv, PoolOK
<1> QED
  BY <1>1, LookupHolds, PTL

(* AuditIsTheAnswer: a logged check leaves one row for every candidate     *)
(* shown, from which its verdict can be read; nothing else leaves any.     *)
THEOREM AuditsAgree == Spec => []AuditIsTheAnswer
<1>1. ASSUME LookupInv, Answered PROVE AuditIsTheAnswer
  <2>1. /\ answer.hits = Hits /\ answer.decision = Best(Verdicts(Hits))
        /\ audit = IF query.log THEN LogOf(Hits) ELSE <<>>
    BY <1>1 DEF LookupInv, AnswerOK, Answered
  <2>2. PICK n \in Nat : DOMAIN Hits = 1 .. n
    BY <1>1, HitsAreShown DEF LookupInv, AnswerOK, Answered
  <2> DEFINE hits == Hits
             log == LogOf(hits)
  <2>3. Len(hits) = n
    <3>1. hits \in Seq({hits[k] : k \in 1 .. n})
      <4>1. \E order : hits = [k \in 1 .. n |-> order[k]]
        <5>1. \E m \in Nat : \E order : hits = [k \in 1 .. m |-> scored[order[k]]]
          BY <1>1, HitsAreShown DEF LookupInv, AnswerOK, Answered
        <5>4. PICK m \in Nat : \E order : hits = [k \in 1 .. m |-> scored[order[k]]]
          BY <5>1
        <5>2. PICK order : hits = [k \in 1 .. m |-> scored[order[k]]]
          BY <5>4
        <5>3. 1 .. m = 1 .. n
          BY <2>2, <5>2
        <5> QED
          BY <5>2, <5>3
      <4> QED
        BY <4>1
    <3> QED
      BY <2>2, <3>1
  <2> HIDE DEF hits
  <2>4. log = [i \in 1 .. n |-> [item |-> hits[i].row.item, score |-> Score(hits[i].pair),
                                 decision |-> Decision(hits[i].pair, Threshold)]]
    BY <2>2 DEF LogOf, hits
  <2>5. /\ DOMAIN log = 1 .. n
        /\ \A i \in 1 .. n : /\ log[i].item = hits[i].row.item
                             /\ log[i].decision = Decision(hits[i].pair, Threshold)
    BY <2>4
  <2>6. Len(log) = n
    BY <2>4
  <2> HIDE DEF log
  <2>7. {log[i].decision : i \in DOMAIN log} = Verdicts(hits)
    BY <2>2, <2>5 DEF Verdicts, hits
  <2>8. CASE query.log
    <3>1. audit = log
      BY <2>1, <2>8 DEF log, hits
    <3>2. Len(audit) = Len(answer.hits)
      BY <2>1, <2>3, <2>6, <3>1 DEF hits
    <3>3. \A i \in DOMAIN audit : audit[i].item = answer.hits[i].row.item
      BY <2>1, <2>5, <3>1 DEF hits
    <3>4. Best({audit[i].decision : i \in DOMAIN audit}) = answer.decision
      BY <2>1, <2>7, <3>1 DEF hits
    <3> QED
      BY <2>8, <3>2, <3>3, <3>4 DEF AuditIsTheAnswer
  <2>9. CASE ~query.log
    BY <2>1, <2>9 DEF AuditIsTheAnswer
  <2> QED
    BY <2>8, <2>9
<1>2. LookupInv => AuditIsTheAnswer
  BY <1>1 DEF AuditIsTheAnswer
<1> QED
  BY <1>2, LookupHolds, PTL

(* NoWarningMeansWholeQuery: without a warning every kind asked for was    *)
(* searched and every hit judged with the query's picture in full.         *)
THEOREM WarningsAreComplete == Spec => []NoWarningMeansWholeQuery
<1>1. ASSUME LookupInv, Answered, warnings = {} PROVE NoWarningMeansWholeQuery
  <2>1. /\ query.scope \subseteq Providers /\ image = IF query.picture THEN "vector" ELSE "none"
        /\ answer.hits = Hits /\ Ordered
    BY <1>1 DEF LookupInv, AnswerOK, Answered
  <2>2. PICK n \in Nat : \E order \in [1 .. n -> 1 .. Len(scored)] : Hits = [k \in 1 .. n |-> scored[order[k]]]
    BY <1>1, <2>1, HitsAreShown DEF LookupInv
  <2>3. ASSUME NEW i \in DOMAIN Hits
        PROVE  Hits[i].pair = SeenWith(Hits[i].row.evidence.pair, image)
    <3>1. PICK a \in 1 .. Len(scored) : Hits[i] = scored[a]
      BY <2>2
    <3> QED
      BY <2>1, <3>1 DEF Ordered, Seen
  <2> QED
    BY <2>1, <2>3 DEF NoWarningMeansWholeQuery
<1>2. LookupInv => NoWarningMeansWholeQuery
  BY <1>1 DEF NoWarningMeansWholeQuery
<1> QED
  BY <1>2, LookupHolds, PTL

(* NothingBetterIsHidden: a candidate is missing because its item was not  *)
(* displayed, or because as many others as the limit rank as high.         *)
THEOREM TheBestAreAnswered == Spec => []NothingBetterIsHidden
<1>1. ASSUME LookupInv, Answered, NEW i \in DOMAIN scored,
             scored[i] \notin {answer.hits[j] : j \in DOMAIN answer.hits},
             scored[i].row.item \in shown
      PROVE  Cardinality({j \in DOMAIN scored : j # i /\ ~Above(scored[i].pair, scored[j].pair)}) >= query.limit
  <2> DEFINE high == {j \in DOMAIN scored : j # i /\ ~Above(scored[i].pair, scored[j].pair)}
  <2>1. answer.hits = Hits /\ Ordered /\ Typed
    BY <1>1 DEF LookupInv, AnswerOK, Answered
  <2>2. scored \in Seq(Pairs) /\ Len(scored) \in Nat /\ DOMAIN scored = 1 .. Len(scored)
    BY <2>1 DEF Ordered
  <2>3. query.limit \in Nat
    BY <2>1 DEF Typed, QueryRecords
  <2>4. i > query.limit
    <3> SUFFICES ASSUME i <= query.limit PROVE FALSE
      BY <2>2, <2>3
    <3>4. PICK n \in Nat : \E order : /\ Hits = [k \in 1 .. n |-> scored[order[k]]]
                                      /\ \E k \in 1 .. n : order[k] = i
      BY <1>1, <2>1, <2>2, HitsAreShown
    <3>1. PICK order : /\ Hits = [k \in 1 .. n |-> scored[order[k]]]
                       /\ \E k \in 1 .. n : order[k] = i
      BY <3>4
    <3>2. PICK k \in 1 .. n : order[k] = i
      BY <3>1
    <3>3. k \in DOMAIN Hits /\ Hits[k] = scored[i]
      BY <3>1, <3>2
    <3> QED
      BY <1>1, <2>1, <3>3
  <2>5. 1 .. query.limit \in SUBSET high
    <3> SUFFICES ASSUME NEW j \in 1 .. query.limit PROVE j \in high
      OBVIOUS
    <3>1. j \in 1 .. Len(scored) /\ i \in 1 .. Len(scored) /\ j < i
      BY <2>2, <2>3, <2>4
    <3>2. ~Above(scored[i].pair, scored[j].pair)
      BY <2>1, <3>1 DEF Ordered
    <3> QED
      BY <2>2, <3>1, <3>2
  <2>6. high \in SUBSET (1 .. Len(scored))
    BY <2>2
  <2> HIDE DEF high
  <2>7. IsFiniteSet(1 .. Len(scored))
    BY <2>2, FS_Interval
  <2>8. IsFiniteSet(high)
    BY <2>6, <2>7, FS_Subset
  <2>9. Cardinality(1 .. query.limit) <= Cardinality(high) /\ Cardinality(high) \in Nat
    BY <2>5, <2>8, FS_Subset, FS_CardinalityType
  <2>10. Cardinality(1 .. query.limit) = query.limit
    BY <2>3, FS_Interval
  <2>11. Cardinality(high) >= query.limit
    BY <2>3, <2>9, <2>10
  <2> QED
    BY <2>11 DEF high
<1>2. LookupInv => NothingBetterIsHidden
  BY <1>1 DEF NothingBetterIsHidden
<1> QED
  BY <1>2, LookupHolds, PTL

-----------------------------------------------------------------------------
(* Display data and the catalog                                            *)

(* What nobody touched is displayed exactly if it is served, from the first*)
(* provider call over the two of a batch to the answer.                    *)
DisplayOK ==
    /\ \A i \in shown : i \notin touched => i \in served
    /\ phase \in {"idle", "picture", "blocking"} => asking = NotAsking
    /\ asking.stage = "urls" => \A i \in Of(asking.kind) : i \notin touched /\ i \in served => i \in asking.known
    /\ phase \in {"display", "answered"} =>
          \A a \in 1 .. Len(scored) :
             LET i == scored[a].row.item IN
             a <= query.limit /\ i \notin pending /\ i \notin touched /\ i \in served => i \in shown
    /\ phase = "answered" => pending = {}

\* An item known from the first call and missing in the second was touched between them.
LEMMA DisplayNext ==
  ASSUME Typed, OneRowEach, DisplayOK, [Next]_vars
  PROVE  DisplayOK'
<1>1. ASSUME UNCHANGED <<scored, query, served, touched, pending, asking, shown>>,
             phase' \in {"idle", "picture", "blocking"} => phase \in {"idle", "picture", "blocking"},
             phase' \in {"display", "answered"} => phase \in {"display", "answered"},
             phase' = "answered" => phase = "answered" \/ pending = {}
      PROVE  DisplayOK'
  BY <1>1 DEF DisplayOK, Of
<1>2. CASE UNCHANGED vars
  BY <1>1, <1>2 DEF vars, catalog, display
<1>3. CASE Next
  <2>0. \/ Receive \/ Settled \/ PictureRefused \/ ScorePairs \/ Answer
        \/ \E leg \in LegNames, m \in Nat : \E found \in [1 .. m -> Base] : LegRun(leg, m, found)
        \/ \E k \in Kinds : AskBasics(k) \/ AskUrls(k) \/ BatchRaises(k)
        \/ \E i \in Items : AskSingle(i) \/ RefreshRow(i) \/ DeleteRow(i) \/ ChangeService(i)
    BY <1>3, Steps DEF OneRowEach, Typed
  <2>1. CASE Receive
    BY <1>1, <2>1 DEF Receive, catalog, display
  <2>2. CASE Settled
    BY <1>1, <2>2 DEF Settled, Block, catalog, display
  <2>3. CASE PictureRefused
    BY <1>1, <2>3 DEF PictureRefused, catalog, display
  <2>4. CASE ScorePairs
    <3>1. Ordered'
      BY <2>4, ScoringOrders
    <3>2. scored' \in Seq(Pairs) /\ Len(scored') \in Nat /\ query.limit \in Nat
      <4>1. scored' \in Seq(Pairs) /\ Len(scored') \in Nat
        BY <3>1, Zenon DEF Ordered
      <4> QED
        BY <4>1 DEF Typed, QueryRecords
    <3> DEFINE cut == CutTo(scored', query.limit)
               l == Smaller(query.limit, Len(scored'))
    <3>3. DOMAIN cut = 1 .. l /\ \A a \in 1 .. l : cut[a] = scored'[a]
      BY <3>2, CutIsPrefix
    <3>4. \A a \in 1 .. Len(scored') : a <= query.limit => a \in 1 .. l
      BY <3>2 DEF Smaller
    <3>5. pending' = {cut[i].row.item : i \in DOMAIN cut}
      BY <2>4 DEF ScorePairs
    <3> HIDE DEF cut, l
    <3>6. \A a \in 1 .. Len(scored') : a <= query.limit => scored'[a].row.item \in pending'
      BY <3>3, <3>4, <3>5
    <3>7. /\ asking' = NotAsking /\ shown' = shown /\ served' = served /\ touched' = touched
          /\ query' = query /\ phase' = "display"
      BY <2>4 DEF ScorePairs, catalog, DisplayOK
    <3>8. asking'.stage # "urls"
      BY <3>7 DEF NotAsking
    <3> QED
      BY <3>6, <3>7, <3>8 DEF DisplayOK
  <2>5. CASE Answer
    BY <1>1, <2>5 DEF Answer, catalog, display
  <2>6. ASSUME NEW leg \in LegNames, NEW m \in Nat, NEW found \in [1 .. m -> Base], LegRun(leg, m, found)
        PROVE  DisplayOK'
    BY <1>1, <2>6 DEF LegRun, catalog, display
  <2>7. ASSUME NEW k \in Kinds, AskBasics(k) PROVE DisplayOK'
    <3>1. /\ UNCHANGED <<scored, query, served, touched, pending, shown>> /\ phase = "display" /\ phase' = "display"
          /\ asking' = [stage |-> "urls", kind |-> k, known |-> Of(k) \cap served]
      BY <2>7 DEF AskBasics, Displaying, catalog
    <3>2. asking'.kind = k /\ asking'.known = Of(k) \cap served
      BY <3>1
    <3>3. Of(asking.kind)' = Of(k)
      BY <3>1, <3>2 DEF Of
    <3> QED
      BY <3>1, <3>2, <3>3 DEF DisplayOK
  <2>8. ASSUME NEW k \in Kinds, AskUrls(k) PROVE DisplayOK'
    <3>1. /\ UNCHANGED <<scored, query, served, touched>> /\ phase = "display" /\ phase' = "display"
          /\ asking.stage = "urls" /\ asking.kind = k
          /\ shown' = shown \cup (asking.known \cap served)
          /\ pending' = pending \ Of(k) /\ asking' = NotAsking
      BY <2>8 DEF AskUrls, Displaying, catalog
    <3>2. asking'.stage # "urls"
      BY <3>1 DEF NotAsking
    <3>3. \A i \in shown' : i \notin touched => i \in served
      BY <3>1 DEF DisplayOK
    <3>4. ASSUME NEW a \in 1 .. Len(scored), a <= query.limit, NEW i, i = scored[a].row.item,
                 i \notin pending', i \notin touched, i \in served
          PROVE  i \in shown'
      <4>1. CASE i \in pending
        <5>1. i \in Of(k)
          BY <3>1, <3>4, <4>1
        <5>2. i \in asking.known
          BY <3>1, <3>4, <5>1 DEF DisplayOK
        <5> QED
          BY <3>1, <3>4, <5>2
      <4>2. CASE i \notin pending
        <5>1. i \in shown
          BY <3>1, <3>4, <4>2 DEF DisplayOK
        <5> QED
          BY <3>1, <5>1
      <4> QED
        BY <4>1, <4>2
    <3> QED
      BY <3>1, <3>2, <3>3, <3>4 DEF DisplayOK
  <2>9. ASSUME NEW k \in Kinds, BatchRaises(k) PROVE DisplayOK'
    <3>1. /\ UNCHANGED <<scored, query, served, touched, pending, shown>> /\ phase = "display" /\ phase' = "display"
          /\ asking' = [stage |-> "single", kind |-> k, known |-> {}]
      BY <2>9 DEF BatchRaises, Displaying, catalog
    <3>2. asking'.stage # "urls"
      BY <3>1
    <3> QED
      BY <3>1, <3>2 DEF DisplayOK
  <2>10. ASSUME NEW x \in Items, AskSingle(x) PROVE DisplayOK'
    <3>1. /\ UNCHANGED <<scored, query, served, touched>> /\ phase = "display" /\ phase' = "display"
          /\ shown' = shown \cup ({x} \cap served) /\ pending' = pending \ {x}
          /\ asking' = IF Of(KindOf[x]) = {x} THEN NotAsking
                       ELSE [stage |-> "single", kind |-> KindOf[x], known |-> {}]
      BY <2>10 DEF AskSingle, Displaying, catalog
    <3>2. asking'.stage # "urls"
      BY <3>1 DEF NotAsking
    <3>3. \A i \in shown' : i \notin touched => i \in served
      BY <3>1 DEF DisplayOK
    <3>4. ASSUME NEW a \in 1 .. Len(scored), a <= query.limit, NEW i, i = scored[a].row.item,
                 i \notin pending', i \notin touched, i \in served
          PROVE  i \in shown'
      <4>1. CASE i \in pending
        BY <3>1, <3>4, <4>1
      <4>2. CASE i \notin pending
        <5>1. i \in shown
          BY <3>1, <3>4, <4>2 DEF DisplayOK
        <5> QED
          BY <3>1, <5>1
      <4> QED
        BY <4>1, <4>2
    <3> QED
      BY <3>1, <3>2, <3>3, <3>4 DEF DisplayOK
  <2>11. ASSUME NEW x \in Items, RefreshRow(x) \/ DeleteRow(x) PROVE DisplayOK'
    <3>1. /\ UNCHANGED <<scored, query, served, pending, asking, shown, phase>> /\ touched' = touched \cup {x}
          /\ phase = "blocking"
      BY <2>11 DEF RefreshRow, DeleteRow, Touch, RowsAreRead, display
    <3>2. asking'.stage # "urls"
      BY <3>1 DEF NotAsking, DisplayOK
    <3> QED
      BY <3>1, <3>2 DEF DisplayOK
  <2>12. ASSUME NEW x \in Items, ChangeService(x) PROVE DisplayOK'
    <3>1. /\ UNCHANGED <<scored, query, pending, asking, shown, phase>> /\ touched' = touched \cup {x}
          /\ phase = "display" /\ \A i : i # x => (i \in served' <=> i \in served)
      BY <2>12 DEF ChangeService, Touch, display
    <3>2. \A i : i \notin touched' => i # x /\ i \notin touched
      BY <3>1
    <3>3. Of(asking.kind)' = Of(asking.kind)
      BY <3>1 DEF Of
    <3>4. \A i \in shown' : i \notin touched' => i \in served'
      BY <3>1, <3>2 DEF DisplayOK
    <3>5. asking'.stage = "urls" =>
             \A i \in Of(asking.kind)' : i \notin touched' /\ i \in served' => i \in asking'.known
      BY <3>1, <3>2, <3>3 DEF DisplayOK
    <3>6. ASSUME NEW a \in 1 .. Len(scored), a <= query.limit, NEW i, i = scored[a].row.item,
                 i \notin pending, i \notin touched', i \in served'
          PROVE  i \in shown
      BY <3>1, <3>2, <3>6 DEF DisplayOK
    <3> QED
      BY <3>1, <3>4, <3>5, <3>6 DEF DisplayOK
  <2> QED
    BY <2>0, <2>1, <2>2, <2>3, <2>4, <2>5, <2>6, <2>7, <2>8, <2>9, <2>10, <2>11, <2>12
<1> QED
  BY <1>2, <1>3

(* After the exact leg the pool's first rows hold every row that shares an *)
(* identifier with the query and was not touched, or nothing but such rows.*)
ExactOK ==
    phase \in {"blocking", "display", "answered"} /\ legs # LegOrder =>
        \/ \A r \in Base : r.item \notin touched /\ ExactHit(Seen(r)) =>
              \E i \in 1 .. Len(pool) : i <= PoolLimit /\ pool[i].row = r
        \/ /\ PoolLimit <= Len(pool)
           /\ \A i \in 1 .. PoolLimit : ExactHit(Seen(pool[i].row))

\* Later legs add to the end of the pool, so its first rows stay.
LEMMA ExactNext ==
  ASSUME Typed, OneRowEach, PoolOK, ExactOK, [Next]_vars
  PROVE  ExactOK'
<1>0. Len(pool) \in Nat /\ PoolLimit \in Nat
  BY LookupAssumption DEF Typed
<1>1. ASSUME UNCHANGED <<query, image, legs, pool>>,
             phase' \in {"blocking", "display", "answered"} => phase \in {"blocking", "display", "answered"},
             \A r \in Base' : r.item \notin touched' => r.item \notin touched /\ r \in Base
      PROVE  ExactOK'
  <2>1. \A r : Seen(r)' = Seen(r)
    BY <1>1 DEF Seen, SeenWith
  <2> QED
    BY <1>1, <2>1 DEF ExactOK
<1>2. ASSUME UNCHANGED <<query, image, legs, pool, catalog>>,
             phase' \in {"blocking", "display", "answered"} => phase \in {"blocking", "display", "answered"}
      PROVE  ExactOK'
  <2>1. Base' = Base /\ touched' = touched
    BY <1>2 DEF Base, Scope, catalog
  <2> QED
    BY <1>1, <1>2, <2>1
<1>3. CASE UNCHANGED vars
  BY <1>2, <1>3 DEF vars, blocking
<1>4. CASE Next
  <2>0. \/ Receive \/ Settled \/ PictureRefused \/ ScorePairs \/ Answer
        \/ \E leg \in LegNames, m \in Nat : \E found \in [1 .. m -> Base] : LegRun(leg, m, found)
        \/ \E k \in Kinds : AskBasics(k) \/ AskUrls(k) \/ BatchRaises(k)
        \/ \E i \in Items : AskSingle(i) \/ RefreshRow(i) \/ DeleteRow(i) \/ ChangeService(i)
    BY <1>4, Steps DEF OneRowEach, Typed
  <2>1. CASE Receive
    BY <1>2, <2>1 DEF Receive, blocking
  <2>2. CASE Settled
    <3>1. PICK seen \in {"none", "hash", "vector"}, warned \in {{}, ImageUnavailable} : Block(seen, warned)
      BY <2>2 DEF Settled
    <3>2. CASE Scope = {}
      <4>1. Scope' = {}
        BY <3>1, <3>2 DEF Block, Scope
      <4>2. Base' = {}
        BY <4>1 DEF Base
      <4> QED
        BY <4>2 DEF ExactOK
    <3>3. CASE Scope # {}
      BY <3>1, <3>3 DEF Block, ExactOK
    <3> QED
      BY <3>2, <3>3
  <2>3. CASE PictureRefused
    BY <1>2, <2>3 DEF PictureRefused, blocking
  <2>4. CASE ScorePairs
    BY <1>2, <2>4 DEF ScorePairs, blocking
  <2>5. CASE Answer
    BY <1>2, <2>5 DEF Answer, blocking
  <2>6. ASSUME NEW leg \in LegNames, NEW m \in Nat, NEW found \in [1 .. m -> Base], LegRun(leg, m, found)
        PROVE  ExactOK'
    <3>1. Grows(pool, pool', leg, m, found)
      BY <2>6, LegGrows
    <3>2. /\ legs # <<>> /\ leg = Head(legs) /\ legs \in LegTails /\ phase = "blocking"
          /\ UNCHANGED <<query, image>>
      BY <2>6 DEF LegRun, Typed
    <3>3. Base' = Base /\ touched' = touched
      BY <2>6 DEF LegRun, catalog, Base, Scope
    <3>4. \A r : Seen(r)' = Seen(r)
      BY <3>2 DEF Seen, SeenWith
    <3>5. CASE legs = LegOrder
      <4>1. pool = <<>> /\ leg = "exact"
        BY <3>2, <3>5, TailsRun DEF PoolOK
      <4>2. Len(pool') = m /\ \A a \in 1 .. m : \E i \in 1 .. Len(pool') : pool'[i].row = found[a]
        BY <3>1, <4>1 DEF Grows
      <4>3. /\ \A a \in 1 .. m : ExactHit(Seen(found[a]))
            /\ m < PoolLimit => \A r \in Base : ExactHit(Seen(r)) => \E a \in 1 .. m : found[a] = r
        BY <2>6, <4>1 DEF LegRun
      <4>4. CASE m < PoolLimit
        <5>1. ASSUME NEW r \in Base, ExactHit(Seen(r))
              PROVE  \E i \in 1 .. Len(pool') : i <= PoolLimit /\ pool'[i].row = r
          <6>1. PICK a \in 1 .. m : found[a] = r
            BY <4>3, <4>4, <5>1
          <6>2. PICK i \in 1 .. Len(pool') : pool'[i].row = r
            BY <4>2, <6>1
          <6>3. i <= PoolLimit
            BY <1>0, <4>2, <4>4
          <6> QED
            BY <6>2, <6>3
        <5> QED
          BY <3>3, <3>4, <5>1 DEF ExactOK
      <4>5. CASE ~(m < PoolLimit)
        <5>1. PoolLimit <= Len(pool')
          BY <1>0, <4>2, <4>5
        <5>2. ASSUME NEW i \in 1 .. PoolLimit PROVE ExactHit(Seen(pool'[i].row))
          <6>1. i \in 1 .. Len(pool') /\ i > Len(pool)
            BY <1>0, <4>1, <4>2, <5>1
          <6>2. PICK a \in 1 .. m : pool'[i].row = found[a]
            BY <3>1, <6>1 DEF Grows
          <6> QED
            BY <4>3, <6>2
        <5>3. \A i \in 1 .. PoolLimit : ExactHit(Seen(pool[i].row)')
          BY <5>2, <3>2 DEF Seen, SeenWith
        <5> QED
          BY <5>1, <5>3 DEF ExactOK
      <4> QED
        BY <4>4, <4>5
    <3>6. CASE legs # LegOrder
      <4>1. /\ \A i \in 1 .. Len(pool) : pool'[i] = pool[i] /\ i \in 1 .. Len(pool')
            /\ Len(pool') \in Nat /\ Len(pool) <= Len(pool')
        BY <1>0, <3>1 DEF Grows
      <4>2. CASE \A r \in Base : r.item \notin touched /\ ExactHit(Seen(r)) =>
                    \E i \in 1 .. Len(pool) : i <= PoolLimit /\ pool[i].row = r
        <5>1. \A r \in Base' : r.item \notin touched' /\ ExactHit(Seen(r)') =>
                 \E i \in 1 .. Len(pool') : i <= PoolLimit /\ pool'[i].row = r
          BY <3>3, <3>4, <4>1, <4>2
        <5> QED
          BY <5>1 DEF ExactOK
      <4>3. CASE PoolLimit <= Len(pool) /\ \A i \in 1 .. PoolLimit : ExactHit(Seen(pool[i].row))
        <5>1. PoolLimit <= Len(pool')
          BY <1>0, <4>1, <4>3
        <5>2. ASSUME NEW i \in 1 .. PoolLimit PROVE ExactHit(Seen(pool'[i].row))
          <6>1. i \in 1 .. Len(pool)
            BY <1>0, <4>3
          <6> QED
            BY <4>1, <4>3, <6>1
        <5>3. \A i \in 1 .. PoolLimit : ExactHit(Seen(pool[i].row)')
          BY <5>2, <3>2 DEF Seen, SeenWith
        <5> QED
          BY <5>1, <5>3 DEF ExactOK
      <4> QED
        BY <3>2, <3>6, <4>2, <4>3 DEF ExactOK
    <3> QED
      BY <3>5, <3>6
  <2>7. ASSUME Displaying PROVE ExactOK'
    BY <1>2, <2>7 DEF Displaying, blocking
  <2>8. ASSUME NEW k \in Kinds, AskBasics(k) \/ AskUrls(k) \/ BatchRaises(k) PROVE ExactOK'
    BY <2>7, <2>8 DEF AskBasics, AskUrls, BatchRaises
  <2>9. ASSUME NEW i \in Items, AskSingle(i) PROVE ExactOK'
    BY <2>7, <2>9 DEF AskSingle
  <2>10. ASSUME NEW i \in Items, RefreshRow(i) \/ DeleteRow(i) \/ ChangeService(i) PROVE ExactOK'
    <3>1. UNCHANGED <<query, image, legs, pool, phase>> /\ touched' = touched \cup {i}
      BY <2>10 DEF RefreshRow, DeleteRow, ChangeService, Touch, blocking
    <3>2. \A r \in table' : r.item # i => r \in table
      <4>1. CASE RefreshRow(i)
        <5>1. PICK e \in Evidence :
                 table' = {r \in table : r.item # i} \cup {[item |-> i, gen |-> generation[i], evidence |-> e]}
          BY <4>1 DEF RefreshRow
        <5>2. \A r : r = [item |-> i, gen |-> generation[i], evidence |-> e] => r.item = i
          OBVIOUS
        <5> QED
          BY <5>1, <5>2
      <4>2. CASE DeleteRow(i)
        BY <4>2 DEF DeleteRow
      <4>3. CASE ChangeService(i)
        BY <4>3 DEF ChangeService
      <4> QED
        BY <2>10, <4>1, <4>2, <4>3
    <3>3. Scope' = Scope
      BY <3>1 DEF Scope
    <3>4. \A r \in Base' : r.item \notin touched' => r.item \notin touched /\ r \in Base
      BY <3>1, <3>2, <3>3 DEF Base
    <3> QED
      BY <1>1, <3>1, <3>4
  <2> QED
    BY <2>0, <2>1, <2>2, <2>3, <2>4, <2>5, <2>6, <2>8, <2>9, <2>10
<1> QED
  BY <1>3, <1>4

\* Every layer.
WholeInv == LookupInv /\ DisplayOK /\ ExactOK

\* They hold in every state.
LEMMA WholeHolds == Spec => []WholeInv
<1>1. Init => WholeInv
  <2> SUFFICES ASSUME Init PROVE WholeInv
    OBVIOUS
  <2>1. LookupInv
    BY TypedInit DEF LookupInv, Init, AnswerOK
  <2>2. DisplayOK /\ ExactOK
    BY DEF Init, DisplayOK, NotAsking, ExactOK
  <2> QED
    BY <2>1, <2>2 DEF WholeInv
<1>2. WholeInv /\ [Next]_vars => WholeInv'
  BY TypedNext, PoolNext, AnswerNext, DisplayNext, ExactNext DEF WholeInv, LookupInv
<1> QED
  BY <1>1, <1>2, PTL DEF Spec

(* AnswerIsCurrent: what nobody touched is answered as the catalog and its *)
(* provider have it now, and an item is named twice only if its row was    *)
(* deleted in between.                                                     *)
THEOREM AnswersAreCurrent == Spec => []AnswerIsCurrent
<1>1. ASSUME WholeInv, Answered, NEW x \in DOMAIN answer.hits
      PROVE  LET h == answer.hits[x] IN
             /\ h.row.item \notin touched =>
                   h.row.item \in served /\ h.row \in Base /\ h.pair = Seen(h.row)
             /\ \A y \in DOMAIN answer.hits \ {x} :
                   answer.hits[y].row.item = h.row.item => generation[h.row.item] > 0
  <2>1. answer.hits = Hits /\ Ordered /\ Typed /\ PoolOK /\ DisplayOK
    BY <1>1 DEF WholeInv, LookupInv, AnswerOK, Answered
  <2>0. PICK n \in Nat : \E order : /\ Distinct(order) /\ order \in [1 .. n -> 1 .. Len(scored)]
                                    /\ Hits = [k \in 1 .. n |-> scored[order[k]]]
                                    /\ \A k \in 1 .. n : scored[order[k]].row.item \in shown
    BY <2>1, HitsAreShown
  <2>2. PICK order : /\ Distinct(order) /\ order \in [1 .. n -> 1 .. Len(scored)]
                     /\ Hits = [k \in 1 .. n |-> scored[order[k]]]
                     /\ \A k \in 1 .. n : scored[order[k]].row.item \in shown
    BY <2>0
  <2>3. PICK met \in [1 .. Len(scored) -> 1 .. Len(scored)] :
           Distinct(met) /\ \A a \in 1 .. Len(scored) : scored[a].row = pool[met[a]].row
    BY <2>1 DEF Ordered
  <2>4. Len(scored) \in Nat /\ Len(pool) \in Nat /\ Len(scored) <= Len(pool)
    BY <2>1, LookupAssumption DEF Ordered, Smaller
  <2>5. ASSUME NEW k \in 1 .. n
        PROVE  /\ met[order[k]] \in 1 .. Len(pool) /\ Hits[k] = scored[order[k]]
               /\ Hits[k].row = pool[met[order[k]]].row /\ Hits[k].pair = Seen(Hits[k].row)
               /\ Hits[k].row.item \in shown
    <3>1. order[k] \in 1 .. Len(scored) /\ met[order[k]] \in 1 .. Len(pool)
      BY <2>2, <2>3, <2>4
    <3>2. scored[order[k]].pair = Seen(scored[order[k]].row) /\ scored[order[k]].row = pool[met[order[k]]].row
      BY <2>1, <2>3, <3>1 DEF Ordered
    <3> QED
      BY <2>2, <3>1, <3>2
  <2>6. DOMAIN Hits = 1 .. n /\ x \in 1 .. n
    BY <1>1, <2>1, <2>2
  <2> DEFINE i == met[order[x]]
             h == Hits[x]
  <2>7. i \in 1 .. Len(pool) /\ h.row = pool[i].row /\ h.pair = Seen(h.row) /\ h.row.item \in shown
    BY <2>5, <2>6
  <2>8. h.row.item \notin touched => h.row.item \in served /\ h.row \in Base
    <3> HIDE DEF i, h
    <3> QED
      BY <2>1, <2>7 DEF PoolOK, DisplayOK
  <2>9. ASSUME NEW y \in DOMAIN answer.hits \ {x}, answer.hits[y].row.item = h.row.item
        PROVE  generation[h.row.item] > 0
    <3> DEFINE j == met[order[y]]
    <3>1. y \in 1 .. n /\ y # x
      BY <2>1, <2>6
    <3>2. j \in 1 .. Len(pool) /\ Hits[y].row = pool[j].row
      BY <2>5, <3>1
    <3>3. order[x] # order[y] /\ order[x] \in 1 .. Len(scored) /\ order[y] \in 1 .. Len(scored)
      BY <2>2, <2>6, <3>1 DEF Distinct
    <3>4. i # j
      BY <2>3, <3>3 DEF Distinct
    <3>5. pool[i].row.item = pool[j].row.item /\ h.row.item = pool[i].row.item
      BY <2>1, <2>7, <2>9, <3>2
    <3> HIDE DEF i, j, h
    <3>6. Key(pool[i].row) # Key(pool[j].row)
      BY <2>1, <2>7, <3>2, <3>4 DEF PoolOK, KeysDiffer
    <3>7. pool[i].row.gen # pool[j].row.gen
      BY <3>5, <3>6 DEF Key
    <3>8. pool[i].row \in Rows /\ pool[j].row \in Rows
      <4>1. pool \in Seq(Met)
        BY <2>1 DEF Typed
      <4>2. pool[i] \in Met /\ pool[j] \in Met
        BY <2>7, <3>2, <4>1, ElementOfSeq
      <4> QED
        BY <4>2 DEF Met
    <3>9. /\ pool[i].row.gen \in Nat /\ pool[j].row.gen \in Nat /\ pool[i].row.item \in Items
          /\ generation[pool[i].row.item] \in Nat
      BY <2>1, <3>8 DEF Rows, Typed
    <3>10. /\ pool[i].row.gen <= generation[pool[i].row.item]
           /\ pool[j].row.gen <= generation[pool[i].row.item]
      BY <2>1, <2>7, <3>2, <3>5 DEF PoolOK
    <3> QED
      BY <3>5, <3>7, <3>9, <3>10
  <2> QED
    BY <2>1, <2>7, <2>8, <2>9
<1>2. WholeInv => AnswerIsCurrent
  BY <1>1 DEF AnswerIsCurrent
<1> QED
  BY <1>2, WholeHolds, PTL

\* An identified pair shares an identifier.
LEMMA IdentifiedIsExact ==
  ASSUME NEW p \in Comparisons, Identified(p)
  PROVE  ExactHit(p)
BY DEF Comparisons, Sides, Identified, GtinCode, MpnCode, ExactHit

(* IdentifiedItemIsFound: a search answers every served and untouched item *)
(* it identifies, if the rows sharing an identifier fit the pool and those *)
(* with full marks the answer.                                             *)
THEOREM IdentifiedItemsAreFound == Spec => []IdentifiedItemIsFound
<1>1. ASSUME WholeInv, Answered, query.mode = "search", NEW r \in Base,
             r.item \notin touched, r.item \in served, Identified(Seen(r)),
             Cardinality({i \in DOMAIN scored : ExactHit(scored[i].pair)}) < PoolLimit,
             Cardinality({i \in DOMAIN scored : Relevance(scored[i].pair) = 100}) <= query.limit
      PROVE  r \in HitRows
  <2>1. /\ answer.hits = Hits /\ Ordered /\ Typed /\ OneRowEach /\ PoolOK /\ DisplayOK /\ ExactOK
        /\ legs = <<>> /\ legs # LegOrder
    BY <1>1 DEF WholeInv, LookupInv, AnswerOK, PoolOK, Answered, LegOrder
  <2>2. /\ Len(scored) \in Nat /\ Len(pool) \in Nat /\ PoolLimit \in Nat /\ query.limit \in Nat
        /\ Len(scored) = Smaller(PoolLimit, Len(pool)) /\ scored \in Seq(Pairs)
        /\ DOMAIN scored = 1 .. Len(scored)
    <3>1. query.limit \in Nat /\ PoolLimit \in Nat
      <4>1. PoolLimit \in Nat
        BY LookupAssumption
      <4>2. query.limit \in Nat
        BY <2>1 DEF Typed, QueryRecords
      <4> QED
        BY <4>1, <4>2
    <3> QED
      BY <2>1, <3>1 DEF Ordered
  <2>3. /\ \A i \in 1 .. Len(pool) : i <= PoolLimit => i \in 1 .. Len(scored)
        /\ PoolLimit <= Len(pool) => Len(scored) = PoolLimit
    BY <2>2 DEF Smaller
  <2>4. PICK met \in [1 .. Len(scored) -> 1 .. Len(scored)] :
           /\ \A i \in 1 .. Len(scored) : \E a \in 1 .. Len(scored) : met[a] = i
           /\ \A a \in 1 .. Len(scored) : scored[a].row = pool[met[a]].row
    BY <2>1 DEF Ordered
  <2>5. Seen(r) \in Comparisons /\ (Identified(Seen(r)) => Seen(r).text)
    <3>1. r.evidence \in Evidence
      BY <2>1 DEF Base, OneRowEach, Rows
    <3> QED
      BY <2>1, <3>1, SeenIsAPair DEF Typed, Seen
  <2>6. ExactHit(Seen(r)) /\ Relevance(Seen(r)) = 100
    BY <1>1, <2>5, IdentifiedIsExact, PairMeasures
  <2>7. IsFiniteSet(1 .. Len(scored))
    BY <2>2, FS_Interval
  <2>8. ~(PoolLimit <= Len(pool) /\ \A i \in 1 .. PoolLimit : ExactHit(Seen(pool[i].row)))
    <3> SUFFICES ASSUME PoolLimit <= Len(pool), \A i \in 1 .. PoolLimit : ExactHit(Seen(pool[i].row))
                 PROVE  FALSE
      OBVIOUS
    <3>1. \A a \in 1 .. Len(scored) : ExactHit(scored[a].pair)
      <4> SUFFICES ASSUME NEW a \in 1 .. Len(scored) PROVE ExactHit(scored[a].pair)
        OBVIOUS
      <4>1. met[a] \in 1 .. PoolLimit /\ scored[a].row = pool[met[a]].row
        BY <2>3, <2>4
      <4>2. scored[a].pair = Seen(scored[a].row)
        BY <2>1 DEF Ordered
      <4> QED
        BY <4>1, <4>2
    <3>2. {i \in DOMAIN scored : ExactHit(scored[i].pair)} = 1 .. PoolLimit
      BY <2>2, <2>3, <3>1
    <3>3. Cardinality(1 .. PoolLimit) = PoolLimit
      BY <2>2, FS_Interval
    <3> DEFINE exact == {i \in DOMAIN scored : ExactHit(scored[i].pair)}
    <3>4. exact = 1 .. PoolLimit /\ Cardinality(exact) < PoolLimit
      BY <1>1, <3>2
    <3> HIDE DEF exact
    <3> QED
      BY <2>2, <3>3, <3>4
  <2>9. PICK i \in 1 .. Len(pool) : i <= PoolLimit /\ pool[i].row = r
    BY <1>1, <2>1, <2>6, <2>8 DEF ExactOK, Answered
  <2>10. PICK a \in 1 .. Len(scored) : scored[a].row = r /\ scored[a].pair = Seen(r)
    <3>1. PICK a \in 1 .. Len(scored) : met[a] = i
      BY <2>3, <2>4, <2>9
    <3>2. scored[a].pair = Seen(scored[a].row)
      BY <2>1 DEF Ordered
    <3> QED
      BY <2>4, <2>9, <3>1, <3>2
  <2>11. ASSUME NEW b \in 1 .. a PROVE b \in 1 .. Len(scored) /\ Relevance(scored[b].pair) = 100
    <3>1. b \in 1 .. Len(scored) /\ (b = a \/ b < a)
      BY <2>2
    <3>2. scored[b].pair \in Comparisons
      <4>1. scored[b] \in Pairs
        BY <2>2, <3>1, ElementOfSeq
      <4> QED
        BY <4>1 DEF Pairs
    <3>3. /\ Relevance(scored[b].pair) \in Int /\ Relevance(scored[b].pair) <= 100
      BY <3>2, PairMeasures
    <3>4. CASE b = a
      BY <2>6, <2>10, <3>1, <3>4
    <3>5. CASE b < a
      <4>1. ~Above(scored[a].pair, scored[b].pair)
        BY <2>1, <3>1, <3>5 DEF Ordered
      <4>2. ~(Relevance(scored[a].pair) > Relevance(scored[b].pair))
        BY <1>1, <4>1 DEF Above, AboveByRelevance
      <4> QED
        BY <2>6, <2>10, <3>1, <3>3, <4>2
    <3> QED
      BY <3>1, <3>4, <3>5
  <2>12. a <= query.limit
    <3> DEFINE full == {b \in DOMAIN scored : Relevance(scored[b].pair) = 100}
    <3>1. 1 .. a \in SUBSET full /\ full \in SUBSET (1 .. Len(scored)) /\ Cardinality(full) <= query.limit
      BY <1>1, <2>2, <2>11
    <3> HIDE DEF full
    <3>2. IsFiniteSet(full)
      BY <2>7, <3>1, FS_Subset
    <3>3. Cardinality(1 .. a) <= Cardinality(full) /\ Cardinality(full) \in Nat
      BY <3>1, <3>2, FS_Subset, FS_CardinalityType
    <3>4. Cardinality(1 .. a) = a
      BY <2>2, FS_Interval
    <3> QED
      BY <2>2, <3>1, <3>3, <3>4
  <2>13. scored[a].row.item \in shown
    BY <1>1, <2>1, <2>10, <2>12 DEF DisplayOK, Answered
  <2>20. PICK n \in Nat : \E order : /\ Hits = [k \in 1 .. n |-> scored[order[k]]]
                                     /\ \E k \in 1 .. n : order[k] = a
    BY <2>1, <2>12, <2>13, HitsAreShown
  <2>14. PICK order : /\ Hits = [k \in 1 .. n |-> scored[order[k]]]
                      /\ \E k \in 1 .. n : order[k] = a
    BY <2>20
  <2>15. PICK k \in 1 .. n : order[k] = a
    BY <2>14
  <2>16. k \in DOMAIN answer.hits /\ answer.hits[k].row = r
    BY <2>1, <2>10, <2>14, <2>15
  <2> QED
    BY <2>16 DEF HitRows
<1>2. WholeInv => IdentifiedItemIsFound
  BY <1>1 DEF IdentifiedItemIsFound
<1> QED
  BY <1>2, WholeHolds, PTL

=============================================================================
