------------------------------- MODULE Verdict -------------------------------
(***************************************************************************)
(* services/scoring.py: the verdict /check/ gives on a (query, fingerprint)*)
(* pair and the relevance /search/ reports for it.                         *)
(*                                                                         *)
(* score_pair sees a pair only through comparisons, so a pair is the       *)
(* record of their outcomes (Silence names the fields).  Similarities,     *)
(* token ratios and cosines are percentages, weights grams.  Every level   *)
(* yields one reason code, or `silent`; the levels L7 and L8 yield one per *)
(* attribute and per leg.                                                  *)
(***************************************************************************)
EXTENDS Integers

CONSTANT None  \* a column or a measure that is absent

ASSUME NoneAssumption == None \notin Nat

(* L7 and brand: one side says nothing, both agree, or they differ.        *)
Sides == {"silent", "equal", "differs"}
Variants == {"color", "size", "pack"}

\* What a pair may be, percentages rounded: a cosine may be negative, a pHash has 64 bits.
Comparisons ==
    [text : BOOLEAN, gtin : {"silent", "untrusted", "trusted"}, mpn : BOOLEAN, sku : BOOLEAN,
     brand : Sides, color : Sides, size : Sides, pack : Sides, similarity : 0 .. 100, ratio : 0 .. 100,
     weight : Nat \cup {None}, rowWeight : Nat \cup {None}, dimensions : {"silent", "within", "outside"},
     pictured : BOOLEAN, distance : 0 .. 64 \cup {None}, cosine : -100 .. 100 \cup {None}]

\* Without text nothing textual can agree; without a picture there is nothing to measure.
Consistent(p) ==
    /\ p.text \/ (p.gtin = "silent" /\ ~p.mpn /\ ~p.sku /\ p.brand = "silent"
                   /\ p.similarity = 0 /\ p.ratio = 0)
    /\ p.pictured \/ (p.distance = None /\ p.cosine = None)

Silence ==
    [text |-> TRUE, gtin |-> "silent", mpn |-> FALSE, sku |-> FALSE, brand |-> "silent",
     color |-> "silent", size |-> "silent", pack |-> "silent", similarity |-> 0, ratio |-> 0,
     weight |-> None, rowWeight |-> None, dimensions |-> "silent",
     pictured |-> FALSE, distance |-> None, cosine |-> None]

\* The same pair for a query that brings no picture.
WithoutPicture(p) == [p EXCEPT !.pictured = FALSE, !.distance = None, !.cosine = None]

-----------------------------------------------------------------------------
(* The levels                                                              *)

WEIGHTS ==
    [silent |-> 0,
     gtin_exact |-> 60, gtin_exact_untrusted |-> 15,
     brand_mpn_exact |-> 45, mpn_exact |-> 20, mpn_exact_brand_conflict |-> -30,
     sku_exact |-> 30, name_tokens_strong |-> 20, name_tokens_weak |-> 10,
     brand_equal |-> 10, brand_conflict |-> -25,
     weight_match |-> 5, weight_conflict |-> -15,
     dimensions_match |-> 5, dimensions_conflict |-> -15,
     variant_equal |-> 5, variant_conflict |-> -40,   \* color_, size_, pack_: alike
     image_near_exact |-> 10, image_near |-> 6,
     image_similar_strong |-> 10, image_similar |-> 5]

Smaller(a, b) == IF a < b THEN a ELSE b
Larger(a, b) == IF a > b THEN a ELSE b

\* Python's round(a / b): a half goes to the even neighbour.
Rounded(a, b) ==
    LET whole == a \div b  twice == 2 * (a % b) IN
    IF twice > b \/ (twice = b /\ whole % 2 = 1) THEN whole + 1 ELSE whole

\* Linear map of value over [floor, ceiling] to 0 .. top.
Linear(value, floor, ceiling, top) ==
    IF value <= floor THEN 0
    ELSE Rounded(top * (Smaller(value, ceiling) - floor), ceiling - floor)

GtinCode(p) ==
    CASE p.gtin = "trusted" -> "gtin_exact"
      [] p.gtin = "untrusted" -> "gtin_exact_untrusted"
      [] p.gtin = "silent" -> "silent"

MpnCode(p) ==
    CASE ~p.mpn -> "silent"
      [] p.mpn /\ p.brand = "silent" -> "mpn_exact"
      [] p.mpn /\ p.brand = "equal" -> "brand_mpn_exact"
      [] p.mpn /\ p.brand = "differs" -> "mpn_exact_brand_conflict"

SkuCode(p) == IF p.sku THEN "sku_exact" ELSE "silent"

\* The trigram reason alone carries points of its own; 0 points are no reason.
TrigramPoints(p) == Linear(p.similarity, 35, 90, 25)

TokensCode(p) ==
    CASE p.ratio >= 85 -> "name_tokens_strong"
      [] p.ratio >= 60 /\ p.ratio < 85 -> "name_tokens_weak"
      [] p.ratio < 60 -> "silent"

BrandCode(p) ==
    CASE p.brand = "equal" -> "brand_equal"
      [] p.brand = "differs" -> "brand_conflict"
      [] p.brand = "silent" -> "silent"

\* +-5% of the query's value, at least 10 g.
Within(query, row) ==
    LET off == IF query > row THEN query - row ELSE row - query IN
    100 * off <= Larger(5 * query, 1000)

WeightCode(p) ==
    IF p.weight = None \/ p.rowWeight = None THEN "silent"
    ELSE IF Within(p.weight, p.rowWeight) THEN "weight_match" ELSE "weight_conflict"

DimensionsCode(p) ==
    CASE p.dimensions = "within" -> "dimensions_match"
      [] p.dimensions = "outside" -> "dimensions_conflict"
      [] p.dimensions = "silent" -> "silent"

VariantCode(p, a) ==
    CASE p[a] = "equal" -> "variant_equal"
      [] p[a] = "differs" -> "variant_conflict"
      [] p[a] = "silent" -> "silent"

PhashCode(p) ==
    IF p.distance = None THEN "silent"
    ELSE CASE p.distance <= 5 -> "image_near_exact"
           [] p.distance > 5 /\ p.distance <= 10 -> "image_near"
           [] p.distance > 10 -> "silent"

VectorCode(p) ==
    IF p.cosine = None THEN "silent"
    ELSE CASE p.cosine >= 90 -> "image_similar_strong"
           [] p.cosine >= 80 /\ p.cosine < 90 -> "image_similar"
           [] p.cosine < 80 -> "silent"

\* The reasons of the levels L0 to L7, but for the trigram's, and those of L8.
Codes(p) ==
    {GtinCode(p), MpnCode(p), SkuCode(p), TokensCode(p), BrandCode(p), WeightCode(p), DimensionsCode(p)}
        \cup {VariantCode(p, a) : a \in Variants}

\* Bug: the image reasons are added a second time.
ImageReasonsTwice(p) == 2 * (WEIGHTS[PhashCode(p)] + WEIGHTS[VectorCode(p)])

ImagePoints(p) == WEIGHTS[PhashCode(p)] + WEIGHTS[VectorCode(p)]

Points(p) ==
    WEIGHTS[GtinCode(p)] + WEIGHTS[MpnCode(p)] + WEIGHTS[SkuCode(p)]
      + TrigramPoints(p) + WEIGHTS[TokensCode(p)] + WEIGHTS[BrandCode(p)]
      + WEIGHTS[WeightCode(p)] + WEIGHTS[DimensionsCode(p)]
      + WEIGHTS[VariantCode(p, "color")] + WEIGHTS[VariantCode(p, "size")] + WEIGHTS[VariantCode(p, "pack")]
      + ImagePoints(p)

Score(p) == Smaller(Larger(Points(p), 0), 100)

-----------------------------------------------------------------------------
(* Flags and the verdict                                                   *)

Identified(p) == GtinCode(p) = "gtin_exact" \/ MpnCode(p) = "brand_mpn_exact"

VariantConflict(p) == \E a \in Variants : p[a] = "differs"

\* Bug: the test of the trusted GTIN is inverted.
DirtyDataAlsoUntrusted(p) ==
    /\ ~VariantConflict(p)
    /\ {"weight_conflict", "dimensions_conflict"} \cap Codes(p) = {}
    /\ GtinCode(p) # "gtin_exact"
    /\ TokensCode(p) = "name_tokens_strong" \/ TrigramPoints(p) >= 20

\* Bug: weight and dimensions are not asked.
DirtyDataAnyPhysical(p) ==
    /\ ~VariantConflict(p)
    /\ GtinCode(p) = "gtin_exact"
    /\ TokensCode(p) = "name_tokens_strong" \/ TrigramPoints(p) >= 20

\* The brands differ, but trusted GTIN, name and physicals say it is the same product.
DirtyData(p) ==
    /\ ~VariantConflict(p)
    /\ {"weight_conflict", "dimensions_conflict"} \cap Codes(p) = {}
    /\ GtinCode(p) = "gtin_exact"
    /\ TokensCode(p) = "name_tokens_strong" \/ TrigramPoints(p) >= 20

BrandConflict(p) == p.brand = "differs" /\ ~DirtyData(p)

\* Some reason other than the picture's agrees.
Corroborated(p) == TrigramPoints(p) > 0 \/ \E c \in Codes(p) : WEIGHTS[c] > 0

\* Bug: the reasons looked at already hold those of the picture.
ImageOnlyCheckedLate(p) == ImagePoints(p) > 0 /\ ~(Corroborated(p) \/ ImagePoints(p) > 0)

ImageOnly(p) == ImagePoints(p) > 0 /\ ~Corroborated(p)

Capped(p) == BrandConflict(p) \/ VariantConflict(p) \/ ImageOnly(p)

Decision(p, t) ==
    LET score == Score(p)
        reaches(threshold) == score >= threshold \/ Identified(p)
    IN
    IF ~Capped(p) /\ reaches(t.match) THEN "match"
    ELSE IF reaches(t.review) THEN "review" ELSE "no_match"

Rank(decision) == CASE decision = "match" -> 2 [] decision = "review" -> 1 [] decision = "no_match" -> 0

-----------------------------------------------------------------------------
(* Relevance                                                               *)

\* Bug: the catalog reference earns no relevance.
IdentifierRelevanceWithoutSku(p) ==
    CASE Identified(p) -> 100
      [] ~Identified(p) /\ MpnCode(p) = "mpn_exact" -> 80
      [] OTHER -> IF GtinCode(p) = "gtin_exact_untrusted" THEN 60 ELSE 0

IdentifierRelevance(p) ==
    CASE Identified(p) -> 100
      [] ~Identified(p) /\ (MpnCode(p) = "mpn_exact" \/ p.sku) -> 80
      [] OTHER -> IF GtinCode(p) = "gtin_exact_untrusted" THEN 60 ELSE 0

TextRelevance(p) == Larger(Linear(p.similarity, 35, 90, 100), Linear(p.ratio, 60, 100, 100))

\* pHash near-exact, unless a comparable vector contradicts it.
SameFile(p) == p.distance # None /\ p.distance <= 5 /\ (p.cosine = None \/ p.cosine >= 95)

ImageRelevance(p) ==
    LET byCosine == IF p.cosine = None THEN 0 ELSE Linear(p.cosine, 80, 100, 100) IN
    CASE SameFile(p) -> 100
      [] ~SameFile(p) /\ p.distance # None /\ p.distance <= 10 -> Larger(85, byCosine)
      [] OTHER -> byCosine

\* Bug: an exact identifier is blended with the picture like any text.
RelevanceAlwaysBlends(p) ==
    LET words == Larger(IdentifierRelevance(p), TextRelevance(p)) IN
    CASE ~p.pictured -> words
      [] p.pictured /\ ~p.text -> ImageRelevance(p)
      [] OTHER -> Rounded(ImageRelevance(p) + words, 2)

\* The query's modality picks the scale.
Relevance(p) ==
    LET words == Larger(IdentifierRelevance(p), TextRelevance(p)) IN
    CASE ~p.pictured -> words
      [] p.pictured /\ ~p.text -> ImageRelevance(p)
      [] p.pictured /\ p.text /\ IdentifierRelevance(p) = 100 -> 100
      [] OTHER -> Rounded(ImageRelevance(p) + words, 2)

MatchKind(p) ==
    IF IdentifierRelevance(p) = 100 \/ SameFile(p) THEN "exact"
    ELSE IF Relevance(p) > 0 THEN "similar" ELSE "none"

=============================================================================
