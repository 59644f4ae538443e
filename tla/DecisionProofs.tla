--------------------------- MODULE DecisionProofs ----------------------------
(***************************************************************************)
(* Theorems about the verdict and its calibration: Scoring, for every      *)
(* threshold and every similarity, ratio, weight, distance and cosine, and *)
(* Evaluation, for every log, file of labelled pairs and answer.           *)
(***************************************************************************)
EXTENDS Scoring, Evaluation, FiniteSetTheorems, TLAPS

-----------------------------------------------------------------------------
(* The verdict: module Scoring                                             *)

\* What PairSpec keeps of a pair: its comparisons and their consistency.
PairOK == pair \in PairRecords /\ Consistent(pair)

(* Every revision of the query or the row leaves a well-formed pair.       *)
LEMMA PairsStayWellFormed == PairSpec => []PairOK
<1>1. PairInit => PairOK
  BY ScoringAssumption DEF PairInit, PairOK, Silence, PairRecords, Consistent, Sides
<1>2. PairOK /\ [PairNext]_pair => PairOK'
  <2> SUFFICES ASSUME PairOK, PairNext PROVE PairOK'
    BY DEF PairOK
  <2> USE DEF PairOK, Becomes, PairRecords
  <2>1. CASE EditIdentifier  BY <2>1, ZenonT(60) DEF EditIdentifier
  <2>2. CASE EditName  BY <2>2 DEF EditName
  <2>3. CASE EditBrand  BY <2>3 DEF EditBrand
  <2>4. CASE EditVariant
    <3>1. PICK a \in Variants, x \in Sides : Becomes([pair EXCEPT ![a] = x])
      BY <2>4 DEF EditVariant
    <3> QED  BY <3>1 DEF Variants
  <2>5. CASE EditPhysical  BY <2>5, ZenonT(60) DEF EditPhysical
  <2>6. CASE EditPicture  BY <2>6, ZenonT(60) DEF EditPicture
  <2>7. CASE EditText  BY <2>7 DEF EditText
  <2> QED  BY <2>1, <2>2, <2>3, <2>4, <2>5, <2>6, <2>7 DEF PairNext
<1> QED  BY <1>1, <1>2, PTL DEF PairSpec

-----------------------------------------------------------------------------
(* What the levels can contribute                                          *)

(* Every level of a pair yields one of the codes listed for it.            *)
LEMMA LevelCodes ==
  ASSUME NEW p \in PairRecords
  PROVE  /\ GtinCode(p) \in {"silent", "gtin_exact_untrusted", "gtin_exact"}
         /\ MpnCode(p) \in {"silent", "mpn_exact", "brand_mpn_exact", "mpn_exact_brand_conflict"}
         /\ SkuCode(p) \in {"silent", "sku_exact"}
         /\ TokensCode(p) \in {"silent", "name_tokens_weak", "name_tokens_strong"}
         /\ BrandCode(p) \in {"silent", "brand_equal", "brand_conflict"}
         /\ WeightCode(p) \in {"silent", "weight_match", "weight_conflict"}
         /\ DimensionsCode(p) \in {"silent", "dimensions_match", "dimensions_conflict"}
         /\ \A a \in Variants : VariantCode(p, a) \in {"silent", "variant_equal", "variant_conflict"}
         /\ PhashCode(p) \in {"silent", "image_near_exact", "image_near"}
         /\ VectorCode(p) \in {"silent", "image_similar_strong", "image_similar"}
<1> USE DEF PairRecords, Sides
<1>1. GtinCode(p) \in {"silent", "gtin_exact_untrusted", "gtin_exact"}  BY DEF GtinCode
<1>2. MpnCode(p) \in {"silent", "mpn_exact", "brand_mpn_exact", "mpn_exact_brand_conflict"}  BY DEF MpnCode
<1>3. SkuCode(p) \in {"silent", "sku_exact"}  BY DEF SkuCode
<1>4. TokensCode(p) \in {"silent", "name_tokens_weak", "name_tokens_strong"}
  BY ScoringAssumption DEF TokensCode
<1>5. BrandCode(p) \in {"silent", "brand_equal", "brand_conflict"}  BY DEF BrandCode
<1>6. WeightCode(p) \in {"silent", "weight_match", "weight_conflict"}  BY DEF WeightCode
<1>7. DimensionsCode(p) \in {"silent", "dimensions_match", "dimensions_conflict"}  BY DEF DimensionsCode
<1>8. ASSUME NEW a \in Variants
      PROVE  VariantCode(p, a) \in {"silent", "variant_equal", "variant_conflict"}
  <2>1. p[a] \in {"silent", "equal", "differs"}  BY DEF Variants
  <2> QED  BY <2>1 DEF VariantCode
<1>9. PhashCode(p) \in {"silent", "image_near_exact", "image_near"}
  BY ScoringAssumption DEF PhashCode
<1>10. VectorCode(p) \in {"silent", "image_similar_strong", "image_similar"}
  BY ScoringAssumption DEF VectorCode
<1> QED  BY <1>1, <1>2, <1>3, <1>4, <1>5, <1>6, <1>7, <1>8, <1>9, <1>10

(* The trigram reason is worth an integer.                                 *)
LEMMA TrigramIsInteger == ASSUME NEW p \in PairRecords PROVE TrigramPoints(p) \in Int
<1>1. p.similarity \in Similarities  BY DEF PairRecords
<1>2. Similarities \subseteq 0 .. 100  BY ScoringAssumption
<1>3. p.similarity \in 0 .. 100  BY <1>1, <1>2, Zenon
<1> QED  BY <1>3 DEF TrigramPoints, Linear, Rounded, Smaller

(* A picture earns between 0 and 20 points: both of its legs may fire.     *)
LEMMA PictureEarnsAtMostTwenty ==
  ASSUME NEW p \in PairRecords
  PROVE  ImagePoints(p) \in 0 .. 20
<1>1. WEIGHTS[PhashCode(p)] \in {0, 6, 10}  BY LevelCodes DEF WEIGHTS
<1>2. WEIGHTS[VectorCode(p)] \in {0, 5, 10}  BY LevelCodes DEF WEIGHTS
<1> QED  BY <1>1, <1>2 DEF ImagePoints

\* The evidence without the picture.
TextSum(p) ==
    WEIGHTS[GtinCode(p)] + WEIGHTS[MpnCode(p)] + WEIGHTS[SkuCode(p)]
      + TrigramPoints(p) + WEIGHTS[TokensCode(p)] + WEIGHTS[BrandCode(p)]
      + WEIGHTS[WeightCode(p)] + WEIGHTS[DimensionsCode(p)]
      + WEIGHTS[VariantCode(p, "color")] + WEIGHTS[VariantCode(p, "size")] + WEIGHTS[VariantCode(p, "pack")]

(* The sum is that of the text and the physicals plus the picture's; and   *)
(* without a positive reason the former is not positive.                   *)
LEMMA SumSplits ==
  ASSUME NEW p \in PairRecords
  PROVE  /\ TextSum(p) \in Int /\ Points(p) = TextSum(p) + ImagePoints(p)
         /\ ~Corroborated(p) => TextSum(p) <= 0
<1> DEFINE w(c) == WEIGHTS[c]
<1>1. /\ w(GtinCode(p)) \in Int /\ w(MpnCode(p)) \in Int /\ w(SkuCode(p)) \in Int
      /\ w(TokensCode(p)) \in Int /\ w(BrandCode(p)) \in Int
      /\ w(WeightCode(p)) \in Int /\ w(DimensionsCode(p)) \in Int
  BY LevelCodes DEF WEIGHTS
<1>2. \A a \in Variants : w(VariantCode(p, a)) \in Int
  BY LevelCodes DEF WEIGHTS
<1>3. /\ w(VariantCode(p, "color")) \in Int /\ w(VariantCode(p, "size")) \in Int
      /\ w(VariantCode(p, "pack")) \in Int
  BY <1>2 DEF Variants
<1>4. TrigramPoints(p) \in Int  BY TrigramIsInteger
<1>5. ImagePoints(p) \in Int  BY PictureEarnsAtMostTwenty
<1>6. ASSUME ~Corroborated(p)
      PROVE  /\ TrigramPoints(p) <= 0
             /\ w(GtinCode(p)) <= 0 /\ w(MpnCode(p)) <= 0 /\ w(SkuCode(p)) <= 0
             /\ w(TokensCode(p)) <= 0 /\ w(BrandCode(p)) <= 0
             /\ w(WeightCode(p)) <= 0 /\ w(DimensionsCode(p)) <= 0
             /\ w(VariantCode(p, "color")) <= 0 /\ w(VariantCode(p, "size")) <= 0
             /\ w(VariantCode(p, "pack")) <= 0
  <2>1. ~(TrigramPoints(p) > 0) /\ \A c \in Codes(p) : ~(w(c) > 0)
    BY <1>6 DEF Corroborated
  <2>2. /\ GtinCode(p) \in Codes(p) /\ MpnCode(p) \in Codes(p) /\ SkuCode(p) \in Codes(p)
        /\ TokensCode(p) \in Codes(p) /\ BrandCode(p) \in Codes(p)
        /\ WeightCode(p) \in Codes(p) /\ DimensionsCode(p) \in Codes(p)
        /\ VariantCode(p, "color") \in Codes(p) /\ VariantCode(p, "size") \in Codes(p)
        /\ VariantCode(p, "pack") \in Codes(p)
    BY DEF Codes, Variants
  <2> HIDE DEF w
  <2> QED  BY <2>1, <2>2, <1>1, <1>3, <1>4
<1> QED
  <2>1. Points(p) = w(GtinCode(p)) + w(MpnCode(p)) + w(SkuCode(p))
          + TrigramPoints(p) + w(TokensCode(p)) + w(BrandCode(p))
          + w(WeightCode(p)) + w(DimensionsCode(p))
          + w(VariantCode(p, "color")) + w(VariantCode(p, "size")) + w(VariantCode(p, "pack"))
          + ImagePoints(p)
    BY DEF Points
  <2>2. TextSum(p) = w(GtinCode(p)) + w(MpnCode(p)) + w(SkuCode(p))
          + TrigramPoints(p) + w(TokensCode(p)) + w(BrandCode(p))
          + w(WeightCode(p)) + w(DimensionsCode(p))
          + w(VariantCode(p, "color")) + w(VariantCode(p, "size")) + w(VariantCode(p, "pack"))
    BY DEF TextSum
  <2> HIDE DEF w
  <2> QED  BY <1>1, <1>3, <1>4, <1>5, <1>6, <2>1, <2>2

-----------------------------------------------------------------------------
(* A pair and the same pair without its picture                            *)

(* Taking the picture away changes none of the textual evidence.           *)
LEMMA TextIsUntouched ==
  ASSUME NEW p \in PairRecords
  PROVE  /\ WithoutPicture(p) \in PairRecords
         /\ TextSum(WithoutPicture(p)) = TextSum(p)
         /\ Identified(WithoutPicture(p)) = Identified(p)
         /\ BrandConflict(WithoutPicture(p)) = BrandConflict(p)
         /\ VariantConflict(WithoutPicture(p)) = VariantConflict(p)
         /\ ImagePoints(WithoutPicture(p)) = 0
<1> DEFINE q == WithoutPicture(p)
<1>1. q \in PairRecords  BY DEF WithoutPicture, PairRecords
<1>2. /\ q.gtin = p.gtin /\ q.mpn = p.mpn /\ q.sku = p.sku /\ q.brand = p.brand
      /\ q.similarity = p.similarity /\ q.ratio = p.ratio
      /\ q.weight = p.weight /\ q.rowWeight = p.rowWeight /\ q.dimensions = p.dimensions
      /\ q["color"] = p["color"] /\ q["size"] = p["size"] /\ q["pack"] = p["pack"]
      /\ q.distance = None /\ q.cosine = None
  BY DEF WithoutPicture, PairRecords
<1> HIDE DEF q
<1>3. /\ GtinCode(q) = GtinCode(p) /\ MpnCode(q) = MpnCode(p) /\ SkuCode(q) = SkuCode(p)
      /\ TokensCode(q) = TokensCode(p) /\ BrandCode(q) = BrandCode(p)
      /\ WeightCode(q) = WeightCode(p) /\ DimensionsCode(q) = DimensionsCode(p)
      /\ TrigramPoints(q) = TrigramPoints(p)
  BY <1>2 DEF GtinCode, MpnCode, SkuCode, TokensCode, BrandCode, WeightCode, DimensionsCode, TrigramPoints
<1>4. \A a \in Variants : q[a] = p[a] /\ VariantCode(q, a) = VariantCode(p, a)
  BY <1>2 DEF Variants, VariantCode
<1>5. TextSum(q) = TextSum(p)
  BY <1>3, <1>4 DEF TextSum, Variants
<1>6. VariantConflict(q) = VariantConflict(p)  BY <1>4 DEF VariantConflict
<1>7. Codes(q) = Codes(p)  BY <1>3, <1>4 DEF Codes
<1>8. DirtyData(q) = DirtyData(p)  BY <1>3, <1>6, <1>7 DEF DirtyData
<1>9. BrandConflict(q) = BrandConflict(p)  BY <1>2, <1>8 DEF BrandConflict
<1>10. ImagePoints(q) = 0  BY <1>2 DEF ImagePoints, PhashCode, VectorCode, WEIGHTS
<1>11. Identified(q) = Identified(p)  BY <1>3 DEF Identified
<1> QED  BY <1>1, <1>5, <1>6, <1>9, <1>10, <1>11 DEF q

-----------------------------------------------------------------------------
(* The theorems                                                            *)

(* PictureIsNoProof: whatever the thresholds a host configures, no pair is *)
(* decided as a match on its picture alone.                                *)
THEOREM PicturesProveNothing == PairSpec => []PictureIsNoProof
<1>1. ASSUME PairOK PROVE PictureIsNoProof
  <2> SUFFICES ASSUME NEW t \in Thresholds, Decision(pair, t) = "match", ~Corroborated(pair)
               PROVE  FALSE
    BY DEF PictureIsNoProof
  <2>0. pair \in PairRecords /\ t.match \in Nat \ {0}
    BY <1>1, ScoringAssumption DEF PairOK
  <2>1. ~Capped(pair) /\ (Score(pair) >= t.match \/ Identified(pair))
    BY DEF Decision
  <2>2. ~Identified(pair)
    <3>1. GtinCode(pair) \in Codes(pair) /\ MpnCode(pair) \in Codes(pair)  BY DEF Codes
    <3>2. WEIGHTS["gtin_exact"] > 0 /\ WEIGHTS["brand_mpn_exact"] > 0  BY DEF WEIGHTS
    <3> QED  BY <3>1, <3>2 DEF Identified, Corroborated
  <2>3. ~(ImagePoints(pair) > 0)  BY <2>1 DEF Capped, ImageOnly
  <2>4. Points(pair) \in Int /\ Points(pair) <= 0
    BY <2>0, <2>3, SumSplits, PictureEarnsAtMostTwenty
  <2>5. Score(pair) = 0  BY <2>4 DEF Score, Smaller, Larger
  <2> QED  BY <2>0, <2>1, <2>2, <2>5
<1> QED  BY <1>1, PairsStayWellFormed, PTL

(* PictureLiftsOneStep: where the two thresholds are 20 points apart or    *)
(* more (the default is 30), a picture never turns a no match into a match.*)
THEOREM PicturesLiftOneStep == PairSpec => []PictureLiftsOneStep
<1>1. ASSUME PairOK PROVE PictureLiftsOneStep
  <2> DEFINE q == WithoutPicture(pair)
  <2> SUFFICES ASSUME NEW t \in Thresholds, t.match - t.review >= 20
               PROVE  Rank(Decision(pair, t)) <= Rank(Decision(q, t)) + 1
    BY DEF PictureLiftsOneStep
  <2>0. pair \in PairRecords /\ q \in PairRecords  BY <1>1, TextIsUntouched DEF PairOK
  <2>1. /\ Decision(pair, t) \in {"match", "review", "no_match"}
        /\ Decision(q, t) \in {"match", "review", "no_match"}
    BY DEF Decision
  <2>2. ASSUME Decision(pair, t) = "match" PROVE Decision(q, t) # "no_match"
    <3>1. Score(pair) >= t.match \/ Identified(pair)  BY <2>2 DEF Decision
    <3>2. CASE Identified(pair)
      <4>1. Identified(q)  BY <3>2, <2>0, TextIsUntouched
      <4> QED  BY <4>1 DEF Decision
    <3>3. CASE Score(pair) >= t.match
      <4>1. /\ Points(pair) = TextSum(pair) + ImagePoints(pair) /\ TextSum(pair) \in Int
            /\ ImagePoints(pair) \in 0 .. 20
        BY <2>0, SumSplits, PictureEarnsAtMostTwenty
      <4>2. Points(q) = TextSum(pair)
        BY <2>0, <4>1, SumSplits, TextIsUntouched
      <4>3. t.match \in Nat \ {0} /\ t.review \in Nat  BY ScoringAssumption
      <4>4. Score(q) >= t.review
        BY <3>3, <4>1, <4>2, <4>3 DEF Score, Smaller, Larger
      <4> QED  BY <4>4 DEF Decision
    <3> QED  BY <3>1, <3>2, <3>3
  <2> HIDE DEF q
  <2> QED  BY <2>1, <2>2 DEF Rank
<1> QED  BY <1>1, PairsStayWellFormed, PTL

(* MatchOutvotesNoConflict: no sum of evidence makes a match of a pair in  *)
(* conflict.                                                               *)
THEOREM ConflictsAreNotOutvoted == PairSpec => []MatchOutvotesNoConflict
<1>1. ASSUME PairOK PROVE MatchOutvotesNoConflict
  <2> SUFFICES ASSUME NEW t \in Thresholds, Decision(pair, t) = "match"
               PROVE  /\ \A a \in Variants : pair[a] # "differs"
                      /\ pair.brand = "differs" =>
                            /\ pair.gtin = "trusted" /\ (pair.ratio >= 85 \/ pair.similarity >= 78)
                            /\ WeightCode(pair) # "weight_conflict" /\ pair.dimensions # "outside"
    BY DEF MatchOutvotesNoConflict
  <2>0. pair \in PairRecords  BY <1>1 DEF PairOK
  <2>1. ~Capped(pair)  BY DEF Decision
  <2>2. \A a \in Variants : pair[a] # "differs"  BY <2>1 DEF Capped, VariantConflict
  <2>3. ASSUME pair.brand = "differs"
        PROVE  /\ pair.gtin = "trusted" /\ (pair.ratio >= 85 \/ pair.similarity >= 78)
               /\ WeightCode(pair) # "weight_conflict" /\ pair.dimensions # "outside"
    <3>1. DirtyData(pair)  BY <2>1, <2>3 DEF Capped, BrandConflict
    <3>2. pair.gtin = "trusted"
      BY <3>1, <2>0 DEF DirtyData, GtinCode, PairRecords
    <3>3. WeightCode(pair) # "weight_conflict" /\ DimensionsCode(pair) # "dimensions_conflict"
      BY <3>1 DEF DirtyData, Codes
    <3>4. pair.dimensions # "outside"  BY <3>3 DEF DimensionsCode
    <3>5. pair.ratio \in Ratios /\ pair.similarity \in Similarities
      BY <2>0 DEF PairRecords
    <3>6. pair.ratio \in Int /\ pair.similarity \in Int
      <4>1. Ratios \subseteq 0 .. 100 /\ Similarities \subseteq 0 .. 100  BY ScoringAssumption
      <4>2. pair.ratio \in 0 .. 100 /\ pair.similarity \in 0 .. 100  BY <3>5, <4>1, Zenon
      <4> QED  BY <4>2
    <3>7. CASE TokensCode(pair) = "name_tokens_strong"
      BY <3>2, <3>3, <3>4, <3>6, <3>7 DEF TokensCode
    <3>8. CASE TrigramPoints(pair) >= 20
      <4>1. pair.similarity >= 78
        BY <3>6, <3>8 DEF TrigramPoints, Linear, Rounded, Smaller
      <4> QED  BY <4>1, <3>2, <3>3, <3>4
    <3> QED  BY <3>1, <3>7, <3>8 DEF DirtyData
  <2> QED  BY <2>2, <2>3
<1> QED  BY <1>1, PairsStayWellFormed, PTL

(* The words of a pair are worth between 0 and 100.                        *)
LEMMA TextRelevanceBounded ==
  ASSUME NEW p \in PairRecords
  PROVE  TextRelevance(p) \in 0 .. 100
<1>1. p.similarity \in Similarities /\ p.ratio \in Ratios  BY DEF PairRecords
<1>2. Similarities \subseteq 0 .. 100 /\ Ratios \subseteq 0 .. 100  BY ScoringAssumption
<1>3. p.similarity \in 0 .. 100 /\ p.ratio \in 0 .. 100  BY <1>1, <1>2, Zenon
<1>4. Linear(p.similarity, 35, 90, 100) \in 0 .. 100  BY <1>3 DEF Linear, Rounded, Smaller
<1>5. Linear(p.ratio, 60, 100, 100) \in 0 .. 100  BY <1>3 DEF Linear, Rounded, Smaller
<1> QED  BY <1>4, <1>5 DEF TextRelevance, Larger

(* IdentifierDecides: a trusted GTIN or a brand with its MPN is the whole  *)
(* answer, whatever the picture, the name and the conflicts say.           *)
THEOREM IdentifiersDecide == PairSpec => []IdentifierDecides
<1>1. ASSUME PairOK PROVE IdentifierDecides
  <2> SUFFICES ASSUME Identified(pair)
               PROVE  /\ \A t \in Thresholds : Decision(pair, t) # "no_match"
                      /\ Relevance(pair) = 100 /\ MatchKind(pair) = "exact"
    BY DEF IdentifierDecides
  <2>0. pair \in PairRecords /\ Consistent(pair)  BY <1>1 DEF PairOK
  <2>1. \A t \in Thresholds : Decision(pair, t) # "no_match"  BY DEF Decision
  <2>2. IdentifierRelevance(pair) = 100  BY DEF IdentifierRelevance
  <2>3. MatchKind(pair) = "exact"  BY <2>2 DEF MatchKind
  <2>4. pair.text  \* an identifier is text
    <3>1. pair.gtin = "trusted" \/ pair.mpn
      BY <2>0 DEF Identified, GtinCode, MpnCode, PairRecords
    <3> QED  BY <2>0, <3>1 DEF Consistent
  <2>5. CASE ~pair.pictured
    <3>1. Larger(IdentifierRelevance(pair), TextRelevance(pair)) = 100
      BY <2>0, <2>2, TextRelevanceBounded DEF Larger
    <3>2. Relevance(pair) = Larger(IdentifierRelevance(pair), TextRelevance(pair))
      BY <2>5 DEF Relevance
    <3> QED  BY <2>1, <2>3, <3>1, <3>2
  <2>6. CASE pair.pictured
    <3>1. Relevance(pair) = 100  BY <2>2, <2>4, <2>6 DEF Relevance
    <3> QED  BY <2>1, <2>3, <3>1
  <2> QED  BY <2>5, <2>6
<1> QED  BY <1>1, PairsStayWellFormed, PTL

-----------------------------------------------------------------------------
(* More evidence                                                           *)

\* Between two whole floors and ceilings Linear grows with its value.
LEMMA LinearGrows ==
  \A v, w \in 0 .. 100 : v <= w => Linear(v, 35, 90, 25) <= Linear(w, 35, 90, 25)
BY DEF Linear, Rounded, Smaller

(* Where one pair agrees more than another, every level is worth as much   *)
(* at least.                                                               *)
LEMMA LevelsGrow ==
  ASSUME NEW p \in PairRecords, NEW q \in PairRecords, AgreesMore(p, q)
  PROVE  /\ WEIGHTS[GtinCode(q)] >= WEIGHTS[GtinCode(p)] /\ WEIGHTS[MpnCode(q)] >= WEIGHTS[MpnCode(p)]
         /\ WEIGHTS[SkuCode(q)] >= WEIGHTS[SkuCode(p)] /\ TrigramPoints(q) >= TrigramPoints(p)
         /\ WEIGHTS[TokensCode(q)] >= WEIGHTS[TokensCode(p)] /\ WEIGHTS[BrandCode(q)] >= WEIGHTS[BrandCode(p)]
         /\ WEIGHTS[WeightCode(q)] >= WEIGHTS[WeightCode(p)]
         /\ WEIGHTS[DimensionsCode(q)] >= WEIGHTS[DimensionsCode(p)]
         /\ \A a \in Variants : WEIGHTS[VariantCode(q, a)] >= WEIGHTS[VariantCode(p, a)]
         /\ WEIGHTS[PhashCode(q)] >= WEIGHTS[PhashCode(p)] /\ WEIGHTS[VectorCode(q)] >= WEIGHTS[VectorCode(p)]
<1>1. /\ p.gtin \in {"silent", "untrusted", "trusted"} /\ p.mpn \in BOOLEAN /\ p.sku \in BOOLEAN
      /\ p.dimensions \in {"silent", "within", "outside"} /\ p.brand \in Sides
      /\ \A a \in Variants : p[a] \in Sides
  BY DEF PairRecords, Variants
<1>2. /\ q.gtin \in {"silent", "untrusted", "trusted"} /\ q.mpn \in BOOLEAN /\ q.sku \in BOOLEAN
      /\ q.dimensions \in {"silent", "within", "outside"} /\ q.brand \in Sides
      /\ \A a \in Variants : q[a] \in Sides
  BY DEF PairRecords, Variants
<1>3. /\ p.similarity \in 0 .. 100 /\ p.ratio \in 0 .. 100 /\ q.similarity \in 0 .. 100 /\ q.ratio \in 0 .. 100
      /\ p.similarity <= q.similarity /\ p.ratio <= q.ratio
  <2>1. /\ p.similarity \in Similarities /\ p.ratio \in Ratios
        /\ q.similarity \in Similarities /\ q.ratio \in Ratios
    BY DEF PairRecords
  <2>2. Similarities \subseteq 0 .. 100 /\ Ratios \subseteq 0 .. 100
    BY ScoringAssumption
  <2>3. p.similarity \in 0 .. 100 /\ p.ratio \in 0 .. 100 /\ q.similarity \in 0 .. 100 /\ q.ratio \in 0 .. 100
    BY <2>1, <2>2, Zenon
  <2> QED
    BY <2>3 DEF AgreesMore
<1>4. p.distance # None => /\ p.distance \in Int /\ q.distance # None /\ q.distance \in Int
                           /\ q.distance <= p.distance
  <2>1. p.distance \in Distances \cup {None} /\ q.distance \in Distances \cup {None}
    BY DEF PairRecords
  <2>2. \A x \in Distances : x \in Int
    BY ScoringAssumption
  <2> QED
    BY <2>1, <2>2 DEF AgreesMore
<1>5. p.cosine # None => /\ p.cosine \in Int /\ q.cosine # None /\ q.cosine \in Int
                         /\ q.cosine >= p.cosine
  <2>1. p.cosine \in Cosines \cup {None} /\ q.cosine \in Cosines \cup {None}
    BY DEF PairRecords
  <2>2. \A x \in Cosines : x \in Int
    BY ScoringAssumption
  <2> QED
    BY <2>1, <2>2 DEF AgreesMore
<1>6. WEIGHTS[GtinCode(q)] >= WEIGHTS[GtinCode(p)]
  <2>1. <<p.gtin, q.gtin>> \in Order("silent", "untrusted", "trusted")
    BY DEF AgreesMore
  <2> QED
    BY <1>1, <1>2, <2>1 DEF Order, GtinCode, WEIGHTS
<1>7. <<p.brand, q.brand>> \in Order("differs", "silent", "equal")
  BY DEF AgreesMore
<1>8. WEIGHTS[MpnCode(q)] >= WEIGHTS[MpnCode(p)]
  <2>1. p.mpn = q.mpn \/ (q.mpn /\ q.brand # "differs")
    BY DEF AgreesMore
  <2> QED
    BY <1>1, <1>2, <1>7, <2>1 DEF Order, MpnCode, WEIGHTS, Sides
<1>9. WEIGHTS[SkuCode(q)] >= WEIGHTS[SkuCode(p)]
  <2>1. p.sku => q.sku
    BY DEF AgreesMore
  <2> QED
    BY <1>1, <1>2, <2>1 DEF SkuCode, WEIGHTS
<1>10. TrigramPoints(q) >= TrigramPoints(p)
  <2>1. Linear(p.similarity, 35, 90, 25) <= Linear(q.similarity, 35, 90, 25)
    BY <1>3, LinearGrows
  <2> QED
    BY <2>1, TrigramIsInteger DEF TrigramPoints
<1>11. WEIGHTS[TokensCode(q)] >= WEIGHTS[TokensCode(p)]
  BY <1>3 DEF TokensCode, WEIGHTS
<1>12. WEIGHTS[BrandCode(q)] >= WEIGHTS[BrandCode(p)]
  BY <1>1, <1>2, <1>7 DEF Order, BrandCode, WEIGHTS, Sides
<1>13. WEIGHTS[WeightCode(q)] >= WEIGHTS[WeightCode(p)]
  <2>1. <<WeightCode(p), WeightCode(q)>> \in Order("weight_conflict", "silent", "weight_match")
    BY DEF AgreesMore
  <2> QED
    BY <2>1 DEF Order, WEIGHTS
<1>14. WEIGHTS[DimensionsCode(q)] >= WEIGHTS[DimensionsCode(p)]
  <2>1. <<p.dimensions, q.dimensions>> \in Order("outside", "silent", "within")
    BY DEF AgreesMore
  <2> QED
    BY <1>1, <1>2, <2>1 DEF Order, DimensionsCode, WEIGHTS
<1>15. ASSUME NEW a \in Variants PROVE WEIGHTS[VariantCode(q, a)] >= WEIGHTS[VariantCode(p, a)]
  <2>1. <<p[a], q[a]>> \in Order("differs", "silent", "equal")
    BY DEF AgreesMore
  <2> QED
    BY <1>1, <1>2, <2>1 DEF Order, VariantCode, WEIGHTS, Sides
<1>16. WEIGHTS[PhashCode(q)] >= WEIGHTS[PhashCode(p)]
  <2>1. CASE p.distance = None
    <3>1. WEIGHTS[PhashCode(p)] = 0
      BY <2>1 DEF PhashCode, WEIGHTS
    <3>2. WEIGHTS[PhashCode(q)] \in {0, 6, 10}
      BY LevelCodes DEF WEIGHTS
    <3> QED
      BY <3>1, <3>2
  <2>2. CASE p.distance # None
    BY <1>4, <2>2 DEF PhashCode, WEIGHTS
  <2> QED
    BY <2>1, <2>2
<1>17. WEIGHTS[VectorCode(q)] >= WEIGHTS[VectorCode(p)]
  <2>1. CASE p.cosine = None
    <3>1. WEIGHTS[VectorCode(p)] = 0
      BY <2>1 DEF VectorCode, WEIGHTS
    <3>2. WEIGHTS[VectorCode(q)] \in {0, 5, 10}
      BY LevelCodes DEF WEIGHTS
    <3> QED
      BY <3>1, <3>2
  <2>2. CASE p.cosine # None
    BY <1>5, <2>2 DEF VectorCode, WEIGHTS
  <2> QED
    BY <2>1, <2>2
<1> QED
  BY <1>6, <1>8, <1>9, <1>10, <1>11, <1>12, <1>13, <1>14, <1>15, <1>16, <1>17

(* So is the sum, and what corroborates the one corroborates the other.    *)
LEMMA EvidenceGrows ==
  ASSUME NEW p \in PairRecords, NEW q \in PairRecords, AgreesMore(p, q)
  PROVE  /\ Points(p) \in Int /\ Points(q) \in Int /\ Points(p) <= Points(q)
         /\ Corroborated(p) => Corroborated(q)
<1> DEFINE w(c) == WEIGHTS[c]
<1>1. /\ w(GtinCode(q)) >= w(GtinCode(p)) /\ w(MpnCode(q)) >= w(MpnCode(p))
      /\ w(SkuCode(q)) >= w(SkuCode(p)) /\ TrigramPoints(q) >= TrigramPoints(p)
      /\ w(TokensCode(q)) >= w(TokensCode(p)) /\ w(BrandCode(q)) >= w(BrandCode(p))
      /\ w(WeightCode(q)) >= w(WeightCode(p)) /\ w(DimensionsCode(q)) >= w(DimensionsCode(p))
      /\ w(PhashCode(q)) >= w(PhashCode(p)) /\ w(VectorCode(q)) >= w(VectorCode(p))
  BY LevelsGrow
<1>2. \A a \in Variants : w(VariantCode(q, a)) >= w(VariantCode(p, a))
  BY LevelsGrow
<1>3. /\ w(VariantCode(q, "color")) >= w(VariantCode(p, "color"))
      /\ w(VariantCode(q, "size")) >= w(VariantCode(p, "size"))
      /\ w(VariantCode(q, "pack")) >= w(VariantCode(p, "pack"))
  BY <1>2 DEF Variants
<1>4. ASSUME NEW x \in PairRecords
      PROVE  /\ w(GtinCode(x)) \in Int /\ w(MpnCode(x)) \in Int /\ w(SkuCode(x)) \in Int
             /\ w(TokensCode(x)) \in Int /\ w(BrandCode(x)) \in Int
             /\ w(WeightCode(x)) \in Int /\ w(DimensionsCode(x)) \in Int
             /\ w(PhashCode(x)) \in Int /\ w(VectorCode(x)) \in Int /\ TrigramPoints(x) \in Int
             /\ \A a \in Variants : w(VariantCode(x, a)) \in Int
  BY LevelCodes, TrigramIsInteger DEF WEIGHTS
<1>5. ASSUME NEW x \in PairRecords
      PROVE  /\ w(VariantCode(x, "color")) \in Int /\ w(VariantCode(x, "size")) \in Int
             /\ w(VariantCode(x, "pack")) \in Int
  BY <1>4 DEF Variants
<1>6. ASSUME NEW x \in PairRecords
      PROVE  Points(x) = w(GtinCode(x)) + w(MpnCode(x)) + w(SkuCode(x))
                 + TrigramPoints(x) + w(TokensCode(x)) + w(BrandCode(x))
                 + w(WeightCode(x)) + w(DimensionsCode(x))
                 + w(VariantCode(x, "color")) + w(VariantCode(x, "size")) + w(VariantCode(x, "pack"))
                 + (w(PhashCode(x)) + w(VectorCode(x)))
  <2>1. ImagePoints(x) = w(PhashCode(x)) + w(VectorCode(x))
    BY DEF ImagePoints
  <2> QED
    BY <2>1 DEF Points
<1>7. ASSUME Corroborated(p) PROVE Corroborated(q)
  <2>1. CASE TrigramPoints(p) > 0
    BY <1>1, <1>4, <2>1 DEF Corroborated
  <2>2. CASE \E c \in Codes(p) : w(c) > 0
    <3>1. PICK c \in Codes(p) : w(c) > 0
      BY <2>2
    <3>2. \/ c \in {GtinCode(p), MpnCode(p), SkuCode(p), TokensCode(p), BrandCode(p), WeightCode(p), DimensionsCode(p)}
          \/ \E a \in Variants : c = VariantCode(p, a)
      BY DEF Codes
    <3>3. /\ {GtinCode(q), MpnCode(q), SkuCode(q), TokensCode(q), BrandCode(q), WeightCode(q), DimensionsCode(q)}
                \subseteq Codes(q)
          /\ \A a \in Variants : VariantCode(q, a) \in Codes(q)
      BY DEF Codes
    <3>4. \E d \in Codes(q) : w(d) >= w(c) /\ w(d) \in Int /\ w(c) \in Int
      <4>1. CASE \E a \in Variants : c = VariantCode(p, a)
        BY <1>2, <1>4, <3>3, <4>1
      <4>2. CASE c \in {GtinCode(p), MpnCode(p), SkuCode(p), TokensCode(p), BrandCode(p), WeightCode(p), DimensionsCode(p)}
        <5> HIDE DEF w
        <5> QED
          BY <1>1, <1>4, <3>3, <4>2
      <4> QED
        BY <3>2, <4>1, <4>2
    <3>5. PICK d \in Codes(q) : w(d) >= w(c) /\ w(d) \in Int /\ w(c) \in Int
      BY <3>4
    <3>6. w(d) > 0
      <4> HIDE DEF w
      <4> QED
        BY <3>1, <3>5
    <3> QED
      BY <3>6 DEF Corroborated
  <2> QED
    BY <1>7, <2>1, <2>2 DEF Corroborated
<1>8. Points(p) \in Int /\ Points(q) \in Int /\ Points(p) <= Points(q)
  <2> HIDE DEF w
  <2> QED
    BY <1>1, <1>3, <1>4, <1>5, <1>6
<1> QED
  BY <1>7, <1>8

(* No cap is raised, but that of a picture nothing else corroborates.      *)
LEMMA CapsStay ==
  ASSUME NEW p \in PairRecords, NEW q \in PairRecords, AgreesMore(p, q)
  PROVE  /\ VariantConflict(q) => VariantConflict(p)
         /\ BrandConflict(q) => BrandConflict(p)
         /\ Identified(p) => Identified(q)
<1>1. /\ p.gtin \in {"silent", "untrusted", "trusted"} /\ q.gtin \in {"silent", "untrusted", "trusted"}
      /\ p.dimensions \in {"silent", "within", "outside"} /\ q.dimensions \in {"silent", "within", "outside"}
      /\ p.mpn \in BOOLEAN /\ q.mpn \in BOOLEAN /\ p.brand \in Sides /\ q.brand \in Sides
  BY DEF PairRecords
<1>2. /\ <<p.gtin, q.gtin>> \in Order("silent", "untrusted", "trusted")
      /\ <<p.brand, q.brand>> \in Order("differs", "silent", "equal")
      /\ p.mpn = q.mpn \/ (q.mpn /\ q.brand # "differs")
      /\ <<p.dimensions, q.dimensions>> \in Order("outside", "silent", "within")
      /\ <<WeightCode(p), WeightCode(q)>> \in Order("weight_conflict", "silent", "weight_match")
  BY DEF AgreesMore
<1>3. \A a \in Variants : q[a] = "differs" => p[a] = "differs"
  <2> SUFFICES ASSUME NEW a \in Variants, q[a] = "differs" PROVE p[a] = "differs"
    OBVIOUS
  <2>1. <<p[a], q[a]>> \in Order("differs", "silent", "equal")
    BY DEF AgreesMore
  <2> QED
    BY <2>1 DEF Order
<1>4. VariantConflict(q) => VariantConflict(p)
  BY <1>3 DEF VariantConflict
<1>5. Identified(p) => Identified(q)
  <2>1. GtinCode(p) = "gtin_exact" => GtinCode(q) = "gtin_exact"
    BY <1>1, <1>2 DEF Order, GtinCode
  <2>2. MpnCode(p) = "brand_mpn_exact" => MpnCode(q) = "brand_mpn_exact"
    BY <1>1, <1>2 DEF Order, MpnCode, Sides
  <2> QED
    BY <2>1, <2>2 DEF Identified
<1>6. DirtyData(p) => DirtyData(q)
  <2> SUFFICES ASSUME DirtyData(p) PROVE DirtyData(q)
    OBVIOUS
  <2>1. GtinCode(p) = "gtin_exact" /\ GtinCode(q) = "gtin_exact"
    BY <1>1, <1>2 DEF DirtyData, Order, GtinCode
  <2>2. ~VariantConflict(q)
    BY <1>4 DEF DirtyData
  <2>3. WeightCode(p) # "weight_conflict" /\ DimensionsCode(p) # "dimensions_conflict"
    BY DEF DirtyData, Codes
  <2>4. WeightCode(q) # "weight_conflict" /\ DimensionsCode(q) # "dimensions_conflict"
    BY <1>1, <1>2, <2>3 DEF Order, DimensionsCode
  <2>5. {"weight_conflict", "dimensions_conflict"} \cap Codes(q) = {}
    BY <2>4, LevelCodes DEF Codes
  <2>6. TokensCode(q) = "name_tokens_strong" \/ TrigramPoints(q) >= 20
    <3>1. CASE TokensCode(p) = "name_tokens_strong"
      <4>1. WEIGHTS[TokensCode(q)] >= 20
        BY <3>1, LevelsGrow DEF WEIGHTS
      <4> QED
        BY <4>1, LevelCodes DEF WEIGHTS
    <3>2. CASE TrigramPoints(p) >= 20
      BY <3>2, LevelsGrow, TrigramIsInteger
    <3> QED
      BY <3>1, <3>2 DEF DirtyData
  <2> QED
    BY <2>1, <2>2, <2>5, <2>6 DEF DirtyData
<1>7. BrandConflict(q) => BrandConflict(p)
  BY <1>2, <1>6 DEF BrandConflict, Order
<1> QED
  BY <1>4, <1>5, <1>7

(* AgreementNeverHurts: whatever the thresholds, a pair that agrees in more*)
(* scores no less and is decided no lower.                                 *)
THEOREM AgreementHelps == PairSpec => AgreementNeverHurts
<1>1. ASSUME NEW p \in PairRecords, NEW q \in PairRecords, AgreesMore(p, q)
      PROVE  /\ Score(q) >= Score(p)
             /\ \A t \in Thresholds : Rank(Decision(q, t)) >= Rank(Decision(p, t))
  <2>1. Points(p) \in Int /\ Points(q) \in Int /\ Points(p) <= Points(q)
    BY <1>1, EvidenceGrows
  <2>2. Score(q) >= Score(p) /\ Score(p) \in Int /\ Score(q) \in Int
    BY <2>1 DEF Score, Smaller, Larger
  <2>3. ASSUME NEW t \in Thresholds PROVE Rank(Decision(q, t)) >= Rank(Decision(p, t))
    <3>1. t.match \in Nat \ {0} /\ t.review \in Nat
      BY ScoringAssumption
    <3>2. Decision(p, t) \in {"match", "review", "no_match"} /\ Decision(q, t) \in {"match", "review", "no_match"}
      BY DEF Decision
    <3>3. Identified(p) => Identified(q)
      BY <1>1, CapsStay
    <3>4. /\ Score(p) >= t.match => Score(q) >= t.match
          /\ Score(p) >= t.review => Score(q) >= t.review
      BY <2>2, <3>1
    <3>5. ASSUME Decision(p, t) = "review" PROVE Decision(q, t) # "no_match"
      BY <3>3, <3>4, <3>5 DEF Decision
    <3>6. ASSUME Decision(p, t) = "match" PROVE Decision(q, t) = "match"
      <4>1. ~Capped(p) /\ (Score(p) >= t.match \/ Identified(p))
        BY <3>6 DEF Decision
      <4>2. Corroborated(p)
        <5> SUFFICES ASSUME ~Corroborated(p) PROVE FALSE
          OBVIOUS
        <5>1. ~Identified(p)
          <6>1. GtinCode(p) \in Codes(p) /\ MpnCode(p) \in Codes(p)  BY DEF Codes
          <6>2. WEIGHTS["gtin_exact"] > 0 /\ WEIGHTS["brand_mpn_exact"] > 0  BY DEF WEIGHTS
          <6> QED  BY <6>1, <6>2 DEF Identified, Corroborated
        <5>2. ~(ImagePoints(p) > 0)
          BY <4>1 DEF Capped, ImageOnly
        <5>3. Points(p) <= 0
          BY <5>2, SumSplits, PictureEarnsAtMostTwenty
        <5>4. Score(p) = 0
          BY <2>1, <5>3 DEF Score, Smaller, Larger
        <5> QED
          BY <3>1, <4>1, <5>1, <5>4
      <4>3. ~ImageOnly(q)
        BY <1>1, <4>2, EvidenceGrows DEF ImageOnly
      <4>4. ~BrandConflict(q) /\ ~VariantConflict(q)
        BY <1>1, <4>1, CapsStay DEF Capped
      <4> QED
        BY <3>3, <3>4, <4>1, <4>3, <4>4 DEF Decision, Capped
    <3> QED
      BY <3>2, <3>5, <3>6 DEF Rank
  <2> QED
    BY <2>2, <2>3
<1>2. PairOK /\ PairOK' /\ [PairNext]_pair =>
        [AgreesMore(pair, pair') =>
            /\ Score(pair') >= Score(pair)
            /\ \A t \in Thresholds : Rank(Decision(pair', t)) >= Rank(Decision(pair, t))]_pair
  BY <1>1 DEF PairOK
<1> QED
  BY <1>2, PairsStayWellFormed, PTL DEF PairSpec, AgreementNeverHurts

-----------------------------------------------------------------------------
(* Score and relevance                                                     *)

\* Where Linear yields next to nothing its value is at its floor.
LEMMA LinearFloors ==
  /\ \A v \in 0 .. 100 : Linear(v, 35, 90, 100) <= 1 => v <= 35 /\ Linear(v, 35, 90, 25) = 0
  /\ \A v \in 0 .. 100 : Linear(v, 60, 100, 100) <= 1 => v <= 60
  /\ \A v \in 0 .. 100 : Linear(v, 80, 100, 100) <= 1 => v <= 80
  /\ \A v \in 0 .. 100 : Linear(v, 80, 100, 100) \in Nat
BY DEF Linear, Rounded, Smaller

(* A pair that is hardly relevant for its words scores 45 points at most   *)
(* without the picture.                                                    *)
LEMMA WordsNeeded ==
  ASSUME NEW p \in PairRecords, IdentifierRelevance(p) <= 1, TextRelevance(p) <= 1
  PROVE  TextSum(p) <= 45
<1>1. p.similarity \in 0 .. 100 /\ p.ratio \in 0 .. 100
  <2>1. p.similarity \in Similarities /\ p.ratio \in Ratios
    BY DEF PairRecords
  <2>2. Similarities \subseteq 0 .. 100 /\ Ratios \subseteq 0 .. 100
    BY ScoringAssumption
  <2> QED
    BY <2>1, <2>2, Zenon
<1>2. Linear(p.similarity, 35, 90, 100) <= 1 /\ Linear(p.ratio, 60, 100, 100) <= 1
  <2>1. Linear(p.similarity, 35, 90, 100) \in Int /\ Linear(p.ratio, 60, 100, 100) \in Int
    BY <1>1 DEF Linear, Rounded, Smaller
  <2> QED
    BY <2>1 DEF TextRelevance, Larger
<1>3. p.ratio <= 60 /\ TrigramPoints(p) = 0
  BY <1>1, <1>2, LinearFloors DEF TrigramPoints
<1>4. /\ ~Identified(p) /\ MpnCode(p) # "mpn_exact" /\ ~p.sku /\ GtinCode(p) # "gtin_exact_untrusted"
  BY DEF IdentifierRelevance
<1>5. GtinCode(p) = "silent" /\ MpnCode(p) \in {"silent", "mpn_exact_brand_conflict"} /\ SkuCode(p) = "silent"
  BY <1>4, LevelCodes DEF Identified, SkuCode
<1>6. TokensCode(p) \in {"silent", "name_tokens_weak"}
  BY <1>1, <1>3 DEF TokensCode
<1> DEFINE w(c) == WEIGHTS[c]
<1>7. /\ w(GtinCode(p)) = 0 /\ w(MpnCode(p)) \in {0, -30} /\ w(SkuCode(p)) = 0
      /\ w(TokensCode(p)) \in {0, 10}
  BY <1>5, <1>6 DEF WEIGHTS
<1>8. /\ w(BrandCode(p)) \in {0, 10, -25} /\ w(WeightCode(p)) \in {0, 5, -15}
      /\ w(DimensionsCode(p)) \in {0, 5, -15}
  BY LevelCodes DEF WEIGHTS
<1>9. \A a \in Variants : w(VariantCode(p, a)) \in {0, 5, -40}
  BY LevelCodes DEF WEIGHTS
<1>10. /\ w(VariantCode(p, "color")) \in {0, 5, -40} /\ w(VariantCode(p, "size")) \in {0, 5, -40}
       /\ w(VariantCode(p, "pack")) \in {0, 5, -40}
  BY <1>9 DEF Variants
<1>11. TextSum(p) = w(GtinCode(p)) + w(MpnCode(p)) + w(SkuCode(p))
          + TrigramPoints(p) + w(TokensCode(p)) + w(BrandCode(p))
          + w(WeightCode(p)) + w(DimensionsCode(p))
          + w(VariantCode(p, "color")) + w(VariantCode(p, "size")) + w(VariantCode(p, "pack"))
  BY DEF TextSum
<1> HIDE DEF w
<1> QED
  BY <1>3, <1>7, <1>8, <1>10, <1>11

(* A picture that is hardly relevant earns 5 points at most.               *)
LEMMA PictureNeeded ==
  ASSUME NEW p \in PairRecords, ImageRelevance(p) <= 1
  PROVE  ImagePoints(p) <= 5
<1>1. p.cosine # None => p.cosine \in 0 .. 100
  <2>1. p.cosine \in Cosines \cup {None}
    BY DEF PairRecords
  <2>2. \A x \in Cosines : x \in 0 .. 100
    BY ScoringAssumption
  <2> QED
    BY <2>1, <2>2
<1>2. p.distance # None => p.distance \in 0 .. 64
  <2>1. p.distance \in Distances \cup {None}
    BY DEF PairRecords
  <2>2. \A x \in Distances : x \in 0 .. 64
    BY ScoringAssumption
  <2> QED
    BY <2>1, <2>2
<1> DEFINE byCosine == IF p.cosine = None THEN 0 ELSE Linear(p.cosine, 80, 100, 100)
<1>3. byCosine \in Nat /\ (byCosine <= 1 /\ p.cosine # None => p.cosine <= 80)
  <2>1. CASE p.cosine = None
    BY <2>1
  <2>2. CASE p.cosine # None
    <3>1. Linear(p.cosine, 80, 100, 100) \in Nat /\ (Linear(p.cosine, 80, 100, 100) <= 1 => p.cosine <= 80)
      BY <1>1, <2>2, LinearFloors
    <3> QED
      BY <2>2, <3>1
  <2> QED
    BY <2>1, <2>2
<1>4. ImageRelevance(p) = CASE SameFile(p) -> 100
                            [] ~SameFile(p) /\ p.distance # None /\ p.distance <= 10 -> Larger(85, byCosine)
                            [] OTHER -> byCosine
  BY DEF ImageRelevance
<1> HIDE DEF byCosine
<1>5. /\ ~SameFile(p) /\ ~(p.distance # None /\ p.distance <= 10) /\ byCosine <= 1
  <2>1. CASE SameFile(p)
    BY <1>4, <2>1
  <2>2. CASE ~SameFile(p) /\ p.distance # None /\ p.distance <= 10
    <3>1. ImageRelevance(p) = Larger(85, byCosine)
      BY <1>4, <2>2
    <3> QED
      BY <1>3, <3>1 DEF Larger
  <2>3. CASE ~SameFile(p) /\ ~(p.distance # None /\ p.distance <= 10)
    BY <1>4, <2>3
  <2> QED
    BY <2>1, <2>2, <2>3
<1>6. WEIGHTS[PhashCode(p)] = 0
  BY <1>2, <1>5 DEF PhashCode, WEIGHTS
<1>7. WEIGHTS[VectorCode(p)] \in {0, 5}
  BY <1>1, <1>3, <1>5 DEF VectorCode, WEIGHTS
<1> QED
  BY <1>6, <1>7 DEF ImagePoints

(* MatchesAreRelevant: where a match takes more than 50 points, no match   *)
(* is a neighbour nothing agreed on.                                       *)
THEOREM MatchesMatter == PairSpec => []MatchesAreRelevant
<1>1. ASSUME PairOK PROVE MatchesAreRelevant
  <2> SUFFICES ASSUME NEW t \in Thresholds, t.match > 50, Decision(pair, t) = "match", MatchKind(pair) = "none"
               PROVE  FALSE
    BY DEF MatchesAreRelevant
  <2>1. pair \in PairRecords /\ Consistent(pair) /\ t.match \in Nat
    BY <1>1, ScoringAssumption DEF PairOK
  <2>2. IdentifierRelevance(pair) # 100 /\ ~SameFile(pair) /\ ~(Relevance(pair) > 0)
    BY DEF MatchKind
  <2>3. ~Identified(pair) /\ IdentifierRelevance(pair) \in {0, 60, 80, 100}
    BY <2>2 DEF IdentifierRelevance
  <2>4. Score(pair) >= t.match
    BY <2>3 DEF Decision
  <2>5. /\ TextSum(pair) \in Int /\ Points(pair) = TextSum(pair) + ImagePoints(pair)
        /\ ImagePoints(pair) \in 0 .. 20
    BY <2>1, SumSplits, PictureEarnsAtMostTwenty
  <2>6. Points(pair) > 50
    BY <2>1, <2>4, <2>5 DEF Score, Smaller, Larger
  <2> DEFINE words == Larger(IdentifierRelevance(pair), TextRelevance(pair))
  <2>7. TextRelevance(pair) \in 0 .. 100
    BY <2>1, TextRelevanceBounded
  <2>8. words \in 0 .. 100 /\ (words <= 1 => IdentifierRelevance(pair) <= 1 /\ TextRelevance(pair) <= 1)
    BY <2>3, <2>7 DEF Larger
  <2>9. pair.text \in BOOLEAN /\ pair.pictured \in BOOLEAN
    BY <2>1 DEF PairRecords
  <2>10. Relevance(pair) = CASE ~pair.pictured -> words
                             [] pair.pictured /\ ~pair.text -> ImageRelevance(pair)
                             [] pair.pictured /\ pair.text /\ IdentifierRelevance(pair) = 100 -> 100
                             [] OTHER -> Rounded(ImageRelevance(pair) + words, 2)
    BY DEF Relevance
  <2> HIDE DEF words
  <2>11. ImageRelevance(pair) \in Nat
    <3> DEFINE byCosine == IF pair.cosine = None THEN 0 ELSE Linear(pair.cosine, 80, 100, 100)
    <3>1. byCosine \in Nat
      <4>1. pair.cosine # None => pair.cosine \in 0 .. 100
        <5>1. pair.cosine \in Cosines \cup {None}
          BY <2>1 DEF PairRecords
        <5>2. \A x \in Cosines : x \in 0 .. 100
          BY ScoringAssumption
        <5> QED
          BY <5>1, <5>2
      <4>2. CASE pair.cosine = None
        BY <4>2
      <4>3. CASE pair.cosine # None
        BY <4>1, <4>3, LinearFloors
      <4> QED
        BY <4>2, <4>3
    <3>2. ImageRelevance(pair) \in {100, Larger(85, byCosine), byCosine}
      BY DEF ImageRelevance
    <3> HIDE DEF byCosine
    <3> QED
      BY <3>1, <3>2 DEF Larger
  <2>12. CASE ~pair.pictured
    <3>1. words <= 1
      BY <2>2, <2>8, <2>10, <2>12
    <3>2. ImagePoints(pair) = 0
      BY <2>1, <2>12 DEF Consistent, ImagePoints, PhashCode, VectorCode, WEIGHTS
    <3> QED
      BY <2>1, <2>5, <2>6, <2>8, <3>1, <3>2, WordsNeeded
  <2>13. CASE pair.pictured /\ ~pair.text
    <3>1. ImageRelevance(pair) <= 1
      BY <2>2, <2>10, <2>11, <2>13
    <3>2. /\ pair.gtin = "silent" /\ ~pair.mpn /\ ~pair.sku /\ pair.similarity = 0 /\ pair.ratio = 0
      BY <2>1, <2>13 DEF Consistent
    <3>3. IdentifierRelevance(pair) <= 1
      BY <3>2 DEF IdentifierRelevance, Identified, GtinCode, MpnCode
    <3>4. TextRelevance(pair) <= 1
      BY <3>2 DEF TextRelevance, Linear, Rounded, Larger
    <3> QED
      BY <2>1, <2>5, <2>6, <3>1, <3>3, <3>4, WordsNeeded, PictureNeeded
  <2>14. CASE pair.pictured /\ pair.text
    <3>1. Relevance(pair) = Rounded(ImageRelevance(pair) + words, 2)
      BY <2>2, <2>10, <2>14
    <3>2. \A x \in Nat : ~(Rounded(x, 2) > 0) => x <= 1
      BY DEF Rounded
    <3>3. ImageRelevance(pair) + words \in Nat
      BY <2>8, <2>11
    <3>4. ImageRelevance(pair) + words <= 1
      BY <2>2, <3>1, <3>2, <3>3
    <3>5. ImageRelevance(pair) <= 1 /\ words <= 1
      BY <2>8, <2>11, <3>4
    <3> QED
      BY <2>1, <2>5, <2>6, <2>8, <3>5, WordsNeeded, PictureNeeded
  <2> QED
    BY <2>9, <2>12, <2>13, <2>14
<1> QED
  BY <1>1, PairsStayWellFormed, PTL

-----------------------------------------------------------------------------
(* The log and its calibration: module Evaluation                          *)

-----------------------------------------------------------------------------
(* The decision log                                                        *)

\* Whoever writes the log only adds to it, and no check() answers for a human.
LEMMA LogGrows ==
  ASSUME [Next]_vars
  PROVE  /\ log \subseteq log'
         /\ \A row \in log' \ log : row.human # Unanswered => row.source = "proposal" /\ row.human \in DecisionHuman
<1>1. CASE OtherCaller
  BY <1>1 DEF OtherCaller, Check, Logged
<1>2. CASE Human
  BY <1>2 DEF Human, Record, Answered
<1>3. CASE JudgeRow
  BY <1>3 DEF JudgeRow, Logged
<1> QED
  BY <1>1, <1>2, <1>3 DEF Next, Start, Skip, JudgeImage, Fail, Report, vars

(* A rejection stays one whoever checks, answers or calibrates later, and  *)
(* only a human's answer adds one: for any log, sources and candidates.    *)
THEOREM RejectionsStay == Spec => RejectionsAreDurable
<1>1. ASSUME [Next]_vars
      PROVE  /\ RejectedPairs(Subjects) \subseteq RejectedPairs(Subjects)'
             /\ RejectedPairs(Subjects)' # RejectedPairs(Subjects) =>
                   \E row \in log' \ log : row.source = "proposal" /\ row.human = "rejected"
  <2>1. RejectedPairs(Subjects) \subseteq RejectedPairs(Subjects)'
    BY <1>1, LogGrows DEF RejectedPairs
  <2>2. ASSUME NEW rejected \in RejectedPairs(Subjects)', rejected \notin RejectedPairs(Subjects)
        PROVE  \E row \in log' \ log : row.source = "proposal" /\ row.human = "rejected"
    <3>1. PICK row \in log' : row.subject \in Subjects /\ row.human = "rejected" /\ rejected = <<row.subject, row.ref>>
      BY <2>2 DEF RejectedPairs
    <3>2. row \notin log
      BY <2>2, <3>1 DEF RejectedPairs
    <3> QED
      BY <1>1, <3>1, <3>2, LogGrows DEF Unanswered
  <2> QED
    BY <2>1, <2>2
<1> QED
  BY <1>1, PTL DEF Spec, RejectionsAreDurable

(* A calibration that was not asked to log leaves the log alone, and what  *)
(* another one writes carries its own tag and no human's answer.           *)
THEOREM CalibrationsAreMarked == Spec => CalibrationIsMarked
<1>1. ASSUME [Next]_vars, next' # next
      PROVE  /\ ~asked.logDecisions => log' = log
             /\ \A row \in log' \ log : row.source = "lookup_eval" /\ row.human = Unanswered
  <2>1. CASE JudgeRow
    BY <2>1 DEF JudgeRow, Logged
  <2>2. CASE Skip \/ JudgeImage
    BY <2>2 DEF Skip, JudgeImage
  <2> QED
    BY <1>1, <2>1, <2>2 DEF Next, Start, Fail, Report, OtherCaller, Human, evalVars, vars
<1> QED
  BY <1>1, PTL DEF Spec, CalibrationIsMarked

-----------------------------------------------------------------------------
(* Types                                                                   *)

OutcomeRecords ==
    [label : LABELS, score : 0 .. 100, decision : DecisionAuto, retrieved : BOOLEAN,
     nameBlocked : BOOLEAN, imageBlocked : BOOLEAN \cup {Absent}]

(* What was judged is a record that never scores without having been       *)
(* retrieved, and the next line is one of the file or the first after it.  *)
Typed ==
    /\ phase \in {"idle", "running", "reported", "failed"}
    /\ asked \in [imageOnly : BOOLEAN, logDecisions : BOOLEAN]
    /\ DOMAIN file = 1 .. Len(file) /\ Len(file) \in Nat
    /\ next \in 1 .. Len(file) + 1
    /\ outcomes \in Seq(OutcomeRecords)
    /\ \A i \in Judged : ~outcomes[i].retrieved => outcomes[i].score = 0
    /\ skipReasons \in [Reasons -> Nat]
    /\ phase = "idle" => next = 1 /\ outcomes = <<>> /\ skipReasons = NoneSkipped
    /\ phase = "reported" => next = Len(file) + 1

\* What a judged line adds to the outcomes, with a full check() or with the image leg alone.
LEMMA Judgement ==
  ASSUME Typed, JudgeRow \/ JudgeImage
  PROVE  \E o \in OutcomeRecords :
            /\ outcomes' = Append(outcomes, o)
            /\ o.label = file[next].label /\ (~o.retrieved => o.score = 0)
<1>1. Pair.label \in LABELS
  BY DEF JudgeRow, JudgeImage, Judgeable, SkipReason
<1>2. ASSUME NEW found \in BOOLEAN, NEW hit \in [score : 0 .. 100, decision : DecisionAuto],
             NEW named \in BOOLEAN, NEW seen \in BOOLEAN \cup {Absent},
             outcomes' = Append(outcomes, Row(found, hit, named, seen)), ~found => hit.score = 0
      PROVE  \E o \in OutcomeRecords :
                /\ outcomes' = Append(outcomes, o)
                /\ o.label = file[next].label /\ (~o.retrieved => o.score = 0)
  <2>1. Row(found, hit, named, seen) \in OutcomeRecords
    BY <1>1, <1>2 DEF Row, OutcomeRecords
  <2>2. /\ Row(found, hit, named, seen).label = file[next].label
        /\ ~Row(found, hit, named, seen).retrieved => Row(found, hit, named, seen).score = 0
    BY <1>2 DEF Row, Pair
  <2> QED
    BY <1>2, <2>1, <2>2
<1>3. Nowhere \in [score : 0 .. 100, decision : DecisionAuto] /\ Nowhere.score = 0
  BY DEF Nowhere, DecisionAuto
<1>4. CASE JudgeImage
  <2>1. PICK seen \in BOOLEAN \cup {Absent} : outcomes' = Append(outcomes, Row(FALSE, Nowhere, FALSE, seen))
    BY <1>4 DEF JudgeImage
  <2> QED
    BY <1>2, <1>3, <2>1
<1>5. CASE JudgeRow
  <2>1. PICK shown \in UNION {[refs -> Hits] : refs \in SUBSET Searched(Pair.candidateKind)},
             named \in BOOLEAN, seen \in BOOLEAN \cup {Absent} :
           outcomes' = Append(outcomes, Outcome(shown, named, seen))
    BY <1>5 DEF JudgeRow
  <2> DEFINE found == Pair.ref \in DOMAIN shown
             hit == IF found THEN shown[Pair.ref] ELSE Nowhere
  <2>2. hit \in [score : 0 .. 100, decision : DecisionAuto]
    BY <1>3, EvaluationAssumption
  <2>3. found \in BOOLEAN /\ (~found => hit.score = 0)
    BY <1>3
  <2>4. outcomes' = Append(outcomes, Row(found, hit, named, seen))
    BY <2>1 DEF Outcome
  <2> HIDE DEF found, hit
  <2> QED
    BY <1>2, <2>2, <2>3, <2>4
<1> QED
  BY <1>4, <1>5

\* No file yet, nothing judged and nothing skipped.
LEMMA TypedInit == Init => Typed
<1> SUFFICES ASSUME Init PROVE Typed
  OBVIOUS
<1>1. Judged = {} /\ outcomes \in Seq(OutcomeRecords)
  BY DEF Init, Judged
<1>2. NoneSkipped \in [Reasons -> Nat] /\ DOMAIN file = 1 .. Len(file) /\ Len(file) = 0
  BY DEF Init, NoneSkipped
<1> QED
  BY <1>1, <1>2 DEF Init, Typed

\* The types stay: a line is judged or skipped only while there are lines left.
LEMMA TypedNext == Typed /\ [Next]_vars => Typed'
<1> SUFFICES ASSUME Typed, [Next]_vars PROVE Typed'
  OBVIOUS
<1> USE DEF Typed
<1>1. CASE Start
  <2>1. DOMAIN file' = 1 .. Len(file') /\ Len(file') \in Nat
    <3>1. PICK m \in 0 .. MaxPairs : file' \in [1 .. m -> {p \in Pairs : p.ref # Blank}]
      BY <1>1 DEF Start, Loaded, SeqOf
    <3>2. m \in Nat
      BY EvaluationAssumption
    <3>3. file' \in Seq({p \in Pairs : p.ref # Blank})
      BY <3>1, <3>2
    <3> QED
      BY <3>3
  <2>2. asked' \in [imageOnly : BOOLEAN, logDecisions : BOOLEAN]
    BY <1>1 DEF Start
  <2> QED
    BY <1>1, <2>1, <2>2 DEF Start, Judged
<1>2. CASE Skip
  <2>1. PICK reason \in Reasons : skipReasons' = [skipReasons EXCEPT ![reason] = skipReasons[reason] + 1]
    BY <1>2 DEF Skip, SkipReason, QueryReasons, Reasons
  <2>2. skipReasons' \in [Reasons -> Nat]
    BY <2>1
  <2> QED
    BY <1>2, <2>2 DEF Skip, Running, Judged
<1>3. CASE JudgeRow \/ JudgeImage
  <2>1. PICK o \in OutcomeRecords : /\ outcomes' = Append(outcomes, o)
                                    /\ ~o.retrieved => o.score = 0
    BY <1>3, Judgement
  <2>2. /\ outcomes' \in Seq(OutcomeRecords) /\ Len(outcomes') = Len(outcomes) + 1
        /\ DOMAIN outcomes' = 1 .. Len(outcomes) + 1 /\ DOMAIN outcomes = 1 .. Len(outcomes)
        /\ \A i \in 1 .. Len(outcomes) : outcomes'[i] = outcomes[i]
        /\ outcomes'[Len(outcomes) + 1] = o /\ Len(outcomes) \in Nat
    BY <2>1
  <2>3. \A i \in Judged' : ~outcomes'[i].retrieved => outcomes'[i].score = 0
    <3> SUFFICES ASSUME NEW i \in 1 .. Len(outcomes) + 1, ~outcomes'[i].retrieved PROVE outcomes'[i].score = 0
      BY <2>2 DEF Judged
    <3>1. CASE i = Len(outcomes) + 1
      BY <2>1, <2>2, <3>1
    <3>2. CASE i # Len(outcomes) + 1
      BY <2>2, <3>2 DEF Judged
    <3> QED
      BY <3>1, <3>2
  <2>4. /\ phase = "running" /\ UNCHANGED <<phase, asked, file, skipReasons>> /\ next' = next + 1
        /\ next <= Len(file)
    BY <1>3 DEF JudgeRow, JudgeImage, Judgeable, Running
  <2> QED
    BY <2>2, <2>3, <2>4
<1>4. CASE Fail \/ Report
  BY <1>4 DEF Fail, Judgeable, Running, Report, Judged
<1>5. CASE OtherCaller \/ Human \/ UNCHANGED vars
  BY <1>5 DEF OtherCaller, Human, evalVars, vars, Judged
<1> QED
  BY <1>1, <1>2, <1>3, <1>4, <1>5 DEF Next

-----------------------------------------------------------------------------
(* Every line is accounted for                                             *)

\* The lines of a label that were read so far.
LinesOf(label) == {i \in 1 .. next - 1 : file[i].label = label}

Unjudged == skipReasons["unknown_kind"] + skipReasons["stale_ref"]

(* Lines read are judged or skipped, and those of a label are judged       *)
(* unless their item could not be.                                         *)
Counted ==
    /\ next - 1 = Len(outcomes) + Skipped
    /\ \A label \in LABELS :
          LET lines == Cardinality(LinesOf(label))
              cells == Cardinality(Labelled({label}))
          IN cells <= lines /\ lines <= cells + Unjudged

\* What a state's counts are made of.
LEMMA Finite ==
  ASSUME Typed
  PROVE  /\ Judged = 1 .. Len(outcomes) /\ IsFiniteSet(Judged) /\ Cardinality(Judged) = Len(outcomes)
         /\ Len(outcomes) \in Nat
         /\ \A label : IsFiniteSet(LinesOf(label)) /\ Cardinality(LinesOf(label)) \in Nat
         /\ \A labels : IsFiniteSet(Labelled(labels)) /\ Cardinality(Labelled(labels)) \in Nat
<1>1. Judged = 1 .. Len(outcomes) /\ Len(outcomes) \in Nat
  BY DEF Judged, Typed
<1>2. IsFiniteSet(Judged) /\ Cardinality(Judged) = Len(outcomes)
  BY <1>1, FS_Interval
<1>3. IsFiniteSet(1 .. next - 1)
  BY FS_Interval DEF Typed
<1>4. ASSUME NEW label PROVE IsFiniteSet(LinesOf(label)) /\ Cardinality(LinesOf(label)) \in Nat
  <2>1. LinesOf(label) \in SUBSET (1 .. next - 1)
    BY DEF LinesOf
  <2> QED
    BY <1>3, <2>1, FS_Subset, FS_CardinalityType
<1>5. ASSUME NEW labels PROVE IsFiniteSet(Labelled(labels)) /\ Cardinality(Labelled(labels)) \in Nat
  <2>1. Labelled(labels) \in SUBSET Judged
    BY DEF Labelled
  <2> QED
    BY <1>2, <2>1, FS_Subset, FS_CardinalityType
<1> QED
  BY <1>1, <1>2, <1>4, <1>5

\* Reading a line counts it under its label.
LEMMA LineRead ==
  ASSUME Typed, Running, next' = next + 1, UNCHANGED file, NEW label
  PROVE  Cardinality(LinesOf(label))' =
            IF file[next].label = label THEN Cardinality(LinesOf(label)) + 1 ELSE Cardinality(LinesOf(label))
<1>1. next \in Nat \ {0}
  BY DEF Typed
<1>2. LinesOf(label)' = IF file[next].label = label THEN LinesOf(label) \cup {next} ELSE LinesOf(label)
  BY <1>1 DEF LinesOf
<1>3. next \notin LinesOf(label)
  BY <1>1 DEF LinesOf
<1>5. IsFiniteSet(LinesOf(label)) /\ Cardinality(LinesOf(label)) \in Nat
  BY Finite
<1>4. Cardinality(LinesOf(label) \cup {next}) = Cardinality(LinesOf(label)) + 1
  BY <1>3, <1>5, FS_AddElement
<1> QED
  BY <1>2, <1>4

\* Judging it does, too.
LEMMA LineJudged ==
  ASSUME Typed, NEW o \in OutcomeRecords, outcomes' = Append(outcomes, o), NEW label
  PROVE  Cardinality(Labelled({label}))' =
            IF o.label = label THEN Cardinality(Labelled({label})) + 1 ELSE Cardinality(Labelled({label}))
<1> DEFINE n == Len(outcomes)
<1>1. /\ n \in Nat /\ Judged = 1 .. n /\ Judged' = 1 .. n + 1 /\ outcomes'[n + 1] = o
      /\ \A i \in 1 .. n : outcomes'[i] = outcomes[i]
  BY DEF Typed, Judged
<1>2. Labelled({label})' = IF o.label = label THEN Labelled({label}) \cup {n + 1} ELSE Labelled({label})
  <2>1. Labelled({label})' = {i \in 1 .. n + 1 : outcomes'[i].label = label}
    BY <1>1 DEF Labelled
  <2>2. Labelled({label}) = {i \in 1 .. n : outcomes[i].label = label}
    BY <1>1 DEF Labelled
  <2> HIDE DEF n
  <2>3. \A i : i \in 1 .. n + 1 <=> i \in 1 .. n \/ i = n + 1
    BY <1>1
  <2>4. {i \in 1 .. n + 1 : outcomes'[i].label = label} =
           {i \in 1 .. n : outcomes[i].label = label} \cup {i \in {n + 1} : o.label = label}
    BY <1>1, <2>3
  <2> QED
    BY <2>1, <2>2, <2>4
<1>3. n + 1 \notin Labelled({label})
  BY <1>1 DEF Labelled
<1>5. IsFiniteSet(Labelled({label}))
  BY Finite
<1>4. Cardinality(Labelled({label}) \cup {n + 1}) = Cardinality(Labelled({label})) + 1
  BY <1>3, <1>5, FS_AddElement
<1> QED
  BY <1>2, <1>4

\* Each line adds one to exactly one count, so the counts keep adding up.
LEMMA CountedNext == Typed /\ Counted /\ [Next]_vars => Counted'
<1> SUFFICES ASSUME Typed, Counted, [Next]_vars PROVE Counted'
  OBVIOUS
<1>1. /\ next \in Nat /\ Len(outcomes) \in Nat
      /\ skipReasons["bad_label"] \in Nat /\ skipReasons["unknown_kind"] \in Nat /\ skipReasons["stale_ref"] \in Nat
  BY DEF Typed, Reasons
<1>6. \A label : Cardinality(LinesOf(label)) \in Nat /\ Cardinality(Labelled({label})) \in Nat
  BY Finite
<1>2. CASE Skip
  <2>1. Running /\ next' = next + 1 /\ UNCHANGED <<file, outcomes>>
    BY <1>2 DEF Skip
  <2>2. PICK reason \in Reasons :
           /\ skipReasons' = [skipReasons EXCEPT ![reason] = skipReasons[reason] + 1]
           /\ reason = "bad_label" => file[next].label \notin LABELS
    BY <1>2 DEF Skip, SkipReason, QueryReasons, Reasons, Pair
  <2>3. skipReasons \in [Reasons -> Nat]
    BY DEF Typed
  <2>4. Skipped' = Skipped + 1 /\ Unjudged' = IF reason = "bad_label" THEN Unjudged ELSE Unjudged + 1
    <3>1. \A r \in Reasons : skipReasons'[r] = IF r = reason THEN skipReasons[r] + 1 ELSE skipReasons[r]
      BY <2>2, <2>3
    <3>2. reason = "bad_label" \/ reason = "unknown_kind" \/ reason = "stale_ref"
      BY DEF Reasons
    <3>3. /\ skipReasons'["bad_label"] = IF reason = "bad_label" THEN skipReasons["bad_label"] + 1
                                         ELSE skipReasons["bad_label"]
          /\ skipReasons'["unknown_kind"] = IF reason = "unknown_kind" THEN skipReasons["unknown_kind"] + 1
                                            ELSE skipReasons["unknown_kind"]
          /\ skipReasons'["stale_ref"] = IF reason = "stale_ref" THEN skipReasons["stale_ref"] + 1
                                         ELSE skipReasons["stale_ref"]
      BY <3>1 DEF Reasons
    <3>4. CASE reason = "bad_label"
      BY <1>1, <3>3, <3>4 DEF Skipped, Unjudged
    <3>5. CASE reason = "unknown_kind"
      BY <1>1, <3>3, <3>5 DEF Skipped, Unjudged
    <3>6. CASE reason = "stale_ref"
      BY <1>1, <3>3, <3>6 DEF Skipped, Unjudged
    <3> QED
      BY <3>2, <3>4, <3>5, <3>6
  <2>5. Len(outcomes)' = Len(outcomes) /\ \A label : Cardinality(Labelled({label}))' = Cardinality(Labelled({label}))
    BY <2>1 DEF Labelled, Judged
  <2>6. \A label : Cardinality(LinesOf(label))' =
           IF file[next].label = label THEN Cardinality(LinesOf(label)) + 1 ELSE Cardinality(LinesOf(label))
    BY <2>1, LineRead
  <2>7. (next - 1 = Len(outcomes) + Skipped)'
    BY <1>1, <2>1, <2>4, <2>5 DEF Counted, Skipped
  <2>8. ASSUME NEW label \in LABELS
        PROVE  /\ Cardinality(Labelled({label}))' <= Cardinality(LinesOf(label))'
               /\ Cardinality(LinesOf(label))' <= Cardinality(Labelled({label}))' + Unjudged'
    <3>1. /\ Cardinality(Labelled({label})) <= Cardinality(LinesOf(label))
          /\ Cardinality(LinesOf(label)) <= Cardinality(Labelled({label})) + Unjudged
          /\ Unjudged \in Nat
      BY <1>1 DEF Counted, Unjudged
    <3>2. /\ Cardinality(Labelled({label}))' = Cardinality(Labelled({label}))
          /\ Cardinality(LinesOf(label)) \in Nat /\ Cardinality(Labelled({label})) \in Nat
      BY <1>6, <2>5
    <3>3. CASE file[next].label = label
      <4>1. Cardinality(LinesOf(label))' = Cardinality(LinesOf(label)) + 1 /\ Unjudged' = Unjudged + 1
        BY <2>2, <2>4, <2>6, <3>3
      <4> QED
        BY <3>1, <3>2, <4>1
    <3>4. CASE file[next].label # label
      <4>1. Cardinality(LinesOf(label))' = Cardinality(LinesOf(label))
        BY <2>6, <3>4
      <4> QED
        BY <2>4, <3>1, <3>2, <4>1
    <3> QED
      BY <3>3, <3>4
  <2> QED
    BY <2>7, <2>8 DEF Counted
<1>3. CASE JudgeRow \/ JudgeImage
  <2>1. Running /\ next' = next + 1 /\ UNCHANGED <<file, skipReasons>>
    BY <1>3 DEF JudgeRow, JudgeImage, Judgeable
  <2>2. PICK o \in OutcomeRecords : outcomes' = Append(outcomes, o) /\ o.label = file[next].label
    BY <1>3, Judgement
  <2>3. \A label : Cardinality(Labelled({label}))' =
           IF o.label = label THEN Cardinality(Labelled({label})) + 1 ELSE Cardinality(Labelled({label}))
    BY <2>2, LineJudged
  <2>4. \A label : Cardinality(LinesOf(label))' =
           IF file[next].label = label THEN Cardinality(LinesOf(label)) + 1 ELSE Cardinality(LinesOf(label))
    BY <2>1, LineRead
  <2>5. Len(outcomes') = Len(outcomes) + 1
    BY <2>2 DEF Typed
  <2>6. Skipped' = Skipped /\ Unjudged' = Unjudged /\ Skipped \in Nat /\ Unjudged \in Nat
    BY <1>1, <2>1 DEF Skipped, Unjudged
  <2>7. (next - 1 = Len(outcomes) + Skipped)'
    BY <1>1, <2>1, <2>5, <2>6 DEF Counted
  <2>8. ASSUME NEW label \in LABELS
        PROVE  /\ Cardinality(Labelled({label}))' <= Cardinality(LinesOf(label))'
               /\ Cardinality(LinesOf(label))' <= Cardinality(Labelled({label}))' + Unjudged'
    <3>1. /\ Cardinality(Labelled({label})) <= Cardinality(LinesOf(label))
          /\ Cardinality(LinesOf(label)) <= Cardinality(Labelled({label})) + Unjudged
      BY DEF Counted
    <3>2. Cardinality(LinesOf(label)) \in Nat /\ Cardinality(Labelled({label})) \in Nat
      BY <1>6
    <3>3. CASE file[next].label = label
      <4>1. /\ Cardinality(LinesOf(label))' = Cardinality(LinesOf(label)) + 1
            /\ Cardinality(Labelled({label}))' = Cardinality(Labelled({label})) + 1
        BY <2>2, <2>3, <2>4, <3>3
      <4> QED
        BY <2>6, <3>1, <3>2, <4>1
    <3>4. CASE file[next].label # label
      <4>1. /\ Cardinality(LinesOf(label))' = Cardinality(LinesOf(label))
            /\ Cardinality(Labelled({label}))' = Cardinality(Labelled({label}))
        BY <2>2, <2>3, <2>4, <3>4
      <4> QED
        BY <2>6, <3>1, <3>2, <4>1
    <3> QED
      BY <3>3, <3>4
  <2> QED
    BY <2>7, <2>8 DEF Counted
<1>4. CASE Start
  <2>1. next = 1 /\ UNCHANGED <<next, outcomes, skipReasons>>
    BY <1>4 DEF Start, Typed
  <2>2. \A label : LinesOf(label)' = LinesOf(label) /\ Labelled({label})' = Labelled({label})
    BY <2>1 DEF LinesOf, Labelled, Judged
  <2> QED
    BY <2>1, <2>2 DEF Counted, Skipped, Unjudged
<1>5. CASE Fail \/ Report \/ OtherCaller \/ Human \/ UNCHANGED vars
  <2>1. UNCHANGED <<file, next, outcomes, skipReasons>>
    BY <1>5 DEF Fail, Report, OtherCaller, Human, evalVars, vars
  <2> QED
    BY <2>1 DEF Counted, LinesOf, Labelled, Judged, Skipped, Unjudged
<1> QED
  BY <1>2, <1>3, <1>4, <1>5 DEF Next

\* Two sets split a third in the sizes of their parts.
LEMMA Split ==
  ASSUME NEW S, IsFiniteSet(S), NEW T
  PROVE  /\ Cardinality(S) = Cardinality(S \cap T) + Cardinality(S \ T)
         /\ Cardinality(S \cap T) \in Nat /\ Cardinality(S \ T) \in Nat /\ Cardinality(S) \in Nat
<1>1. Cardinality(S \ T) = Cardinality(S) - Cardinality(S \cap T)
  BY FS_Difference
<1>2. IsFiniteSet(S \cap T) /\ IsFiniteSet(S \ T)
  BY FS_Intersection, FS_Difference
<1>3. Cardinality(S \cap T) \in Nat /\ Cardinality(S \ T) \in Nat /\ Cardinality(S) \in Nat
  BY <1>2, FS_CardinalityType
<1> QED
  BY <1>1, <1>3

\* A sweep has one cell for every line judged.
LEMMA SweepPartitions ==
  ASSUME Typed, NEW t, NEW labels
  PROVE  /\ TP(t, labels) \in Nat /\ FP(t, labels) \in Nat /\ FN(t, labels) \in Nat /\ TN(t, labels) \in Nat
         /\ TP(t, labels) + FP(t, labels) = Cardinality(Predicted(t))
         /\ TP(t, labels) + FN(t, labels) = Cardinality(Labelled(labels))
         /\ TP(t, labels) + FP(t, labels) + FN(t, labels) + TN(t, labels) = Len(outcomes)
<1> DEFINE P == Predicted(t)
           L == Labelled(labels)
<1>1. IsFiniteSet(Judged) /\ Cardinality(Judged) = Len(outcomes) /\ IsFiniteSet(L) /\ L \subseteq Judged
  BY Finite DEF Labelled
<1>2. P \subseteq Judged /\ IsFiniteSet(P)
  <2>1. P \in SUBSET Judged
    BY DEF Predicted
  <2> QED
    BY <1>1, <2>1, FS_Subset
<1>3. /\ TP(t, labels) = Cardinality(P \cap L) /\ FP(t, labels) = Cardinality(P \ L)
      /\ FN(t, labels) = Cardinality(L \ P) /\ TN(t, labels) = Cardinality(Judged \ (P \cup L))
  BY DEF TP, FP, FN, TN
<1> HIDE DEF P, L
<1>4. Cardinality(P) = Cardinality(P \cap L) + Cardinality(P \ L)
      /\ Cardinality(P \cap L) \in Nat /\ Cardinality(P \ L) \in Nat /\ Cardinality(P) \in Nat
  BY <1>2, Split
<1>5. Cardinality(L) = Cardinality(L \cap P) + Cardinality(L \ P)
      /\ Cardinality(L \cap P) \in Nat /\ Cardinality(L \ P) \in Nat /\ Cardinality(L) \in Nat
  BY <1>1, Split
<1>6. L \cap P = P \cap L
  OBVIOUS
<1> DEFINE R == Judged \ P
<1>7. IsFiniteSet(R)
  BY <1>1, FS_Difference
<1>8. R \cap L = L \ P /\ R \ L = Judged \ (P \cup L) /\ Judged \cap P = P
  BY <1>1, <1>2
<1> HIDE DEF R
<1>9. Cardinality(R) = Cardinality(R \cap L) + Cardinality(R \ L)
      /\ Cardinality(R \cap L) \in Nat /\ Cardinality(R \ L) \in Nat /\ Cardinality(R) \in Nat
  BY <1>7, Split
<1>10. Cardinality(Judged) = Cardinality(Judged \cap P) + Cardinality(R)
  BY <1>1, Split DEF R
<1>11. Cardinality(R) = FN(t, labels) + TN(t, labels) /\ FN(t, labels) \in Nat /\ TN(t, labels) \in Nat
  BY <1>3, <1>8, <1>9
<1>12. /\ Cardinality(P) = TP(t, labels) + FP(t, labels) /\ TP(t, labels) \in Nat /\ FP(t, labels) \in Nat
       /\ Cardinality(L) = TP(t, labels) + FN(t, labels)
  BY <1>3, <1>4, <1>5, <1>6
<1>13. Len(outcomes) = Cardinality(P) + Cardinality(R)
  BY <1>1, <1>8, <1>10
<1>14. TP(t, labels) + FP(t, labels) + FN(t, labels) + TN(t, labels) = Len(outcomes)
  BY <1>11, <1>12, <1>13
<1> QED
  BY <1>11, <1>12, <1>14 DEF P, L

\* The row of a label in the confusion matrix holds the lines judged that have it.
LEMMA ConfusionRow ==
  ASSUME Typed, NEW label
  PROVE  Confusion(label, "match") + Confusion(label, "review") + Confusion(label, "no_match") =
            Cardinality(Labelled({label}))
<1> DEFINE L == Labelled({label})
           D(d) == {i \in Judged : outcomes[i].decision = d}
           Q == L \ D("match")
<1>1. \A d : Confusion(label, d) = Cardinality(L \cap D(d))
  <2> SUFFICES ASSUME NEW d PROVE Confusion(label, d) = Cardinality(L \cap D(d))
    OBVIOUS
  <2>1. {i \in Judged : outcomes[i].label = label /\ outcomes[i].decision = d} = L \cap D(d)
    BY DEF Labelled
  <2> QED
    BY <2>1 DEF Confusion
<1>2. IsFiniteSet(L)
  BY Finite
<1>3. \A i \in L : outcomes[i].decision \in DecisionAuto /\ i \in Judged
  <2>1. \A i \in Judged : outcomes[i] \in OutcomeRecords
    BY DEF Typed, Judged
  <2> QED
    BY <2>1 DEF Labelled, OutcomeRecords
<1>4. L \cap D("no_match") = Q \ D("review") /\ L \cap D("review") = Q \cap D("review")
  BY <1>3 DEF DecisionAuto
<1> HIDE DEF L, D
<1>5. IsFiniteSet(Q)
  BY <1>2, FS_Difference
<1> HIDE DEF Q
<1>6. Cardinality(Q) = Cardinality(Q \cap D("review")) + Cardinality(Q \ D("review"))
      /\ Cardinality(Q \cap D("review")) \in Nat /\ Cardinality(Q \ D("review")) \in Nat /\ Cardinality(Q) \in Nat
  BY <1>5, Split
<1>7. Cardinality(L) = Cardinality(L \cap D("match")) + Cardinality(Q) /\ Cardinality(L \cap D("match")) \in Nat
  BY <1>2, Split DEF Q
<1>8. /\ Confusion(label, "match") = Cardinality(L \cap D("match"))
      /\ Confusion(label, "review") = Cardinality(Q \cap D("review"))
      /\ Confusion(label, "no_match") = Cardinality(Q \ D("review"))
  BY <1>1, <1>4
<1>9. Confusion(label, "match") + Confusion(label, "review") + Confusion(label, "no_match") = Cardinality(L)
  BY <1>6, <1>7, <1>8
<1> QED
  BY <1>9 DEF L

(* A report accounts for every line of its file exactly once, for any file *)
(* and whatever the catalog still serves.                                  *)
THEOREM LinesAreAccountedFor == Spec => []EveryLineIsAccountedFor
<1>1. Init => Counted
  <2> SUFFICES ASSUME Init PROVE Counted
    OBVIOUS
  <2>1. next = 1 /\ Len(outcomes) = 0 /\ skipReasons = [reason \in Reasons |-> 0] /\ Judged = {}
    BY DEF Init, NoneSkipped, Judged
  <2>2. Skipped = 0 /\ Unjudged = 0
    BY <2>1 DEF Skipped, Unjudged, Reasons
  <2>3. \A label : LinesOf(label) = {} /\ Labelled({label}) = {}
    BY <2>1 DEF LinesOf, Labelled
  <2>4. \A label : Cardinality(LinesOf(label)) = 0 /\ Cardinality(Labelled({label})) = 0
    BY <2>3, FS_EmptySet
  <2>5. next - 1 = Len(outcomes) + Skipped
    BY <2>1, <2>2
  <2>6. \A label \in LABELS :
           /\ Cardinality(Labelled({label})) <= Cardinality(LinesOf(label))
           /\ Cardinality(LinesOf(label)) <= Cardinality(Labelled({label})) + Unjudged
    BY <2>2, <2>4
  <2> QED
    BY <2>5, <2>6 DEF Counted
<1>2. Typed /\ Counted => EveryLineIsAccountedFor
  <2> SUFFICES ASSUME Typed, Counted, phase = "reported"
               PROVE  /\ Len(file) = Len(outcomes) + Skipped
                      /\ \A t \in Sweep, labels \in {MATCH_LABELS, MATCH_OR_VARIANT_LABELS} :
                            TP(t, labels) + FP(t, labels) + FN(t, labels) + TN(t, labels) = Len(outcomes)
                      /\ \A label \in LABELS :
                            LET lines == Cardinality({i \in DOMAIN file : file[i].label = label})
                                cells == Confusion(label, "match") + Confusion(label, "review")
                                            + Confusion(label, "no_match")
                            IN /\ cells <= lines
                               /\ lines <= cells + skipReasons["unknown_kind"] + skipReasons["stale_ref"]
    BY DEF EveryLineIsAccountedFor
  <2>1. next = Len(file) + 1 /\ Len(file) \in Nat /\ DOMAIN file = 1 .. Len(file)
    BY DEF Typed
  <2>2. Len(file) = Len(outcomes) + Skipped
    BY <2>1 DEF Counted
  <2>3. ASSUME NEW label \in LABELS
        PROVE  LET lines == Cardinality({i \in DOMAIN file : file[i].label = label})
                   cells == Confusion(label, "match") + Confusion(label, "review") + Confusion(label, "no_match")
               IN cells <= lines /\ lines <= cells + skipReasons["unknown_kind"] + skipReasons["stale_ref"]
    <3>1. {i \in DOMAIN file : file[i].label = label} = LinesOf(label)
      BY <2>1 DEF LinesOf
    <3>2. /\ Cardinality(Labelled({label})) <= Cardinality(LinesOf(label))
          /\ Cardinality(LinesOf(label)) <= Cardinality(Labelled({label})) + Unjudged
      BY DEF Counted
    <3>3. skipReasons["unknown_kind"] \in Nat /\ skipReasons["stale_ref"] \in Nat
      BY DEF Typed, Reasons
    <3>4. Cardinality(Labelled({label})) \in Nat
      BY Finite
    <3>5. Confusion(label, "match") + Confusion(label, "review") + Confusion(label, "no_match") =
             Cardinality(Labelled({label}))
      BY ConfusionRow
    <3>6. /\ Cardinality(LinesOf(label)) \in Nat
          /\ Cardinality(LinesOf(label)) <=
                Cardinality(Labelled({label})) + skipReasons["unknown_kind"] + skipReasons["stale_ref"]
      BY <3>2, <3>3, <3>4, Finite DEF Unjudged
    <3> QED
      BY <3>1, <3>2, <3>5, <3>6
  <2> QED
    BY <2>2, <2>3, SweepPartitions
<1> QED
  BY <1>1, <1>2, TypedInit, TypedNext, CountedNext, PTL DEF Spec

-----------------------------------------------------------------------------
(* What the figures measure                                                *)

\* Of two counts over one whole, the larger has the larger ratio.
LEMMA RatioGrows ==
  ASSUME NEW a \in Nat, NEW b \in Nat, NEW d \in Nat, a <= b
  PROVE  AtMost(Ratio(a, d), Ratio(b, d))
<1>1. CASE d = 0
  BY <1>1 DEF AtMost, Ratio
<1>2. CASE d # 0
  <2>1. a * d <= b * d
    <3>1. b * d - a * d = (b - a) * d
      OBVIOUS
    <3>2. b - a \in Nat /\ d \in Nat
      OBVIOUS
    <3>3. (b - a) * d >= 0 /\ a * d \in Nat /\ b * d \in Nat
      BY <3>2
    <3> QED
      BY <3>1, <3>3
  <2>2. Ratio(a, d) = <<a, d>> /\ Ratio(b, d) = <<b, d>>
    BY <1>2 DEF Ratio
  <2> QED
    BY <2>1, <2>2 DEF AtMost
<1> QED
  BY <1>1, <1>2

\* A higher threshold predicts fewer, right or wrong.
LEMMA ThresholdTrades ==
  ASSUME Typed, NEW s \in Nat, NEW t \in Nat, s <= t, NEW labels
  PROVE  AtMost(Recall(t, labels), Recall(s, labels)) /\ FP(t, labels) <= FP(s, labels)
<1>1. Predicted(t) \subseteq Predicted(s)
  <2>1. \A i \in Judged : outcomes[i] \in OutcomeRecords
    BY DEF Typed, Judged
  <2>2. \A i \in Judged : outcomes[i].score \in Nat
    BY <2>1 DEF OutcomeRecords
  <2> QED
    BY <2>2 DEF Predicted
<1>2. IsFiniteSet(Judged) /\ Predicted(s) \subseteq Judged
  BY Finite DEF Predicted
<1>3. IsFiniteSet(Predicted(s))
  BY <1>2, FS_Subset
<1>4. IsFiniteSet(Predicted(s) \cap Labelled(labels)) /\ IsFiniteSet(Predicted(s) \ Labelled(labels))
  BY <1>3, FS_Intersection, FS_Difference
<1>5. TP(t, labels) <= TP(s, labels)
  <2>1. Predicted(t) \cap Labelled(labels) \in SUBSET (Predicted(s) \cap Labelled(labels))
    BY <1>1
  <2> QED
    BY <1>4, <2>1, FS_Subset DEF TP
<1>6. FP(t, labels) <= FP(s, labels)
  <2>1. Predicted(t) \ Labelled(labels) \in SUBSET (Predicted(s) \ Labelled(labels))
    BY <1>1
  <2> QED
    BY <1>4, <2>1, FS_Subset DEF FP
<1> DEFINE whole == Cardinality(Labelled(labels))
<1>7. whole \in Nat
  BY Finite
<1>8. /\ TP(t, labels) \in Nat /\ TP(s, labels) \in Nat
      /\ TP(t, labels) + FN(t, labels) = whole /\ TP(s, labels) + FN(s, labels) = whole
  BY SweepPartitions
<1> HIDE DEF whole
<1>9. Recall(t, labels) = Ratio(TP(t, labels), whole) /\ Recall(s, labels) = Ratio(TP(s, labels), whole)
  BY <1>8 DEF Recall
<1> QED
  BY <1>5, <1>6, <1>7, <1>8, <1>9, RatioGrows

\* Variants counted as duplicates cost no precision.
LEMMA VariantsArePrecise ==
  ASSUME Typed, NEW t
  PROVE  AtMost(Precision(t, MATCH_LABELS), Precision(t, MATCH_OR_VARIANT_LABELS))
<1> DEFINE A == Predicted(t) \cap Labelled(MATCH_LABELS)
           B == Predicted(t) \cap Labelled(MATCH_OR_VARIANT_LABELS)
           whole == Cardinality(Predicted(t))
<1>1. A \in SUBSET B
  BY DEF Labelled, MATCH_LABELS, MATCH_OR_VARIANT_LABELS
<1>2. IsFiniteSet(Judged) /\ B \in SUBSET Judged
  BY Finite DEF Predicted
<1>3. IsFiniteSet(B)
  BY <1>2, FS_Subset
<1>4. TP(t, MATCH_LABELS) <= TP(t, MATCH_OR_VARIANT_LABELS)
  BY <1>1, <1>3, FS_Subset DEF TP
<1> HIDE DEF A, B
<1>5. /\ TP(t, MATCH_LABELS) \in Nat /\ TP(t, MATCH_OR_VARIANT_LABELS) \in Nat
      /\ TP(t, MATCH_LABELS) + FP(t, MATCH_LABELS) = whole
      /\ TP(t, MATCH_OR_VARIANT_LABELS) + FP(t, MATCH_OR_VARIANT_LABELS) = whole
      /\ FP(t, MATCH_LABELS) \in Nat
  BY SweepPartitions
<1>6. whole \in Nat
  BY <1>5
<1> HIDE DEF whole
<1>7. /\ Precision(t, MATCH_LABELS) = Ratio(TP(t, MATCH_LABELS), whole)
      /\ Precision(t, MATCH_OR_VARIANT_LABELS) = Ratio(TP(t, MATCH_OR_VARIANT_LABELS), whole)
  BY <1>5 DEF Precision
<1> QED
  BY <1>4, <1>5, <1>6, <1>7, RatioGrows

\* A leg has a recall exactly if a line it was measured on has a duplicate to find.
LEMMA LegIsMeasured ==
  ASSUME Typed, NEW counted, NEW found, counted \subseteq Judged
  PROVE  LET positives == counted \cap Labelled(MATCH_OR_VARIANT_LABELS) IN
         /\ LegRecall(counted, found) = Absent <=> positives = {}
         /\ positives \subseteq found /\ positives # {} => AtMost(<<1, 1>>, LegRecall(counted, found))
<1> DEFINE positives == counted \cap Labelled(MATCH_OR_VARIANT_LABELS)
           n == Cardinality(positives)
<1>1. IsFiniteSet(positives)
  <2>1. IsFiniteSet(Labelled(MATCH_OR_VARIANT_LABELS))
    BY Finite
  <2> QED
    BY <2>1, FS_Intersection
<1>2. n \in Nat /\ (n = 0 <=> positives = {})
  BY <1>1, FS_CardinalityType, FS_EmptySet
<1>3. Cardinality(positives \cap found) \in Nat
  BY <1>1, FS_Intersection, FS_CardinalityType
<1>4. LegRecall(counted, found) =
         IF positives = {} THEN Absent ELSE Ratio(Cardinality(positives \cap found), n)
  BY DEF LegRecall
<1> HIDE DEF n, positives
<1>5. Ratio(Cardinality(positives \cap found), n) \in Nat \X Nat
  BY <1>2, <1>3 DEF Ratio
<1>6. LegRecall(counted, found) = Absent <=> positives = {}
  BY <1>4, <1>5, EvaluationAssumption
<1>7. ASSUME positives \subseteq found, positives # {} PROVE AtMost(<<1, 1>>, LegRecall(counted, found))
  <2>1. positives \cap found = positives
    BY <1>7
  <2>2. LegRecall(counted, found) = <<n, n>>
    BY <1>2, <1>4, <1>7, <2>1 DEF Ratio, n
  <2> QED
    BY <1>2, <2>2 DEF AtMost
<1> QED
  BY <1>6, <1>7 DEF positives

(* The figures of any report, for any thresholds: recall falls and no      *)
(* false positive is gained as the threshold rises, variants cost no       *)
(* precision, what was not retrieved is a miss, and each leg is measured   *)
(* on the lines it was run on and on no others.                            *)
THEOREM FiguresAreMeasures == Spec => []FiguresMeasure
<1>1. Typed => FiguresMeasure
  <2> SUFFICES ASSUME Typed PROVE FiguresMeasure
    OBVIOUS
  <2> DEFINE measured == {i \in Judged : outcomes[i].imageBlocked # Absent /\ outcomes[i].label # "no"}
             M == Embedded \cap Labelled(MATCH_OR_VARIANT_LABELS)
  <2>1. \A i \in Judged : outcomes[i] \in OutcomeRecords
    BY DEF Typed, Judged
  <2>2. \A s, t \in Sweep, labels \in {MATCH_LABELS, MATCH_OR_VARIANT_LABELS} :
           s <= t => AtMost(Recall(t, labels), Recall(s, labels)) /\ FP(t, labels) <= FP(s, labels)
    BY EvaluationAssumption, ThresholdTrades
  <2>3. \A t \in Sweep : AtMost(Precision(t, MATCH_LABELS), Precision(t, MATCH_OR_VARIANT_LABELS))
    BY VariantsArePrecise
  <2>4. \A t \in Sweep \ {0} : Predicted(t) \cap NotRetrieved = {}
    <3> SUFFICES ASSUME NEW t \in Sweep \ {0}, NEW i \in Predicted(t) \cap NotRetrieved PROVE FALSE
      OBVIOUS
    <3>1. i \in Judged /\ outcomes[i].score >= t /\ outcomes[i].score = 0
      BY DEF Predicted, NotRetrieved, Typed
    <3> QED
      BY <3>1, EvaluationAssumption
  <2>5. RecallAt50Name = Absent <=> asked.imageOnly \/ Labelled(MATCH_OR_VARIANT_LABELS) = {}
    <3>1. Judged \cap Labelled(MATCH_OR_VARIANT_LABELS) = Labelled(MATCH_OR_VARIANT_LABELS)
      BY DEF Labelled
    <3>2. LegRecall(Judged, NameHits) = Absent <=> Labelled(MATCH_OR_VARIANT_LABELS) = {}
      BY <3>1, LegIsMeasured
    <3> QED
      BY <3>2 DEF RecallAt50Name, Typed
  <2>6. measured = M
    BY <2>1 DEF Embedded, Labelled, OutcomeRecords, LABELS, MATCH_OR_VARIANT_LABELS
  <2>7. /\ RecallAt20Image = Absent <=> M = {}
        /\ M \subseteq ImageHits /\ M # {} => AtMost(<<1, 1>>, RecallAt20Image)
    <3>1. Embedded \subseteq Judged
      BY DEF Embedded
    <3> QED
      BY <3>1, LegIsMeasured DEF RecallAt20Image
  <2>8. (\A i \in measured : outcomes[i].imageBlocked = TRUE) => M \subseteq ImageHits
    BY <2>6 DEF ImageHits
  <2> QED
    BY <2>2, <2>3, <2>4, <2>5, <2>6, <2>7, <2>8 DEF FiguresMeasure
<1> QED
  BY <1>1, TypedInit, TypedNext, PTL DEF Spec

=============================================================================
