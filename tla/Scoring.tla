------------------------------- MODULE Scoring -------------------------------
(***************************************************************************)
(* services/scoring.py explored pair by pair: every step changes one       *)
(* comparison, so that properties can relate a pair to its neighbours.     *)
(***************************************************************************)
EXTENDS Verdict

CONSTANTS
    Thresholds,         \* what settings.get_thresholds() may say: records [match, review]
    Similarities,       \* values of name_similarity
    Ratios,             \* values of token_set_ratio
    Weights,            \* weights of the query and of the row
    Distances,          \* pHash distances
    Cosines,            \* embedding cosines
    InBounds(_)         \* the pairs explored

ASSUME ScoringAssumption ==
    /\ Thresholds \subseteq [match : Nat \ {0}, review : Nat]  \* a match has to be earned
    /\ Similarities \subseteq 0 .. 100 /\ Ratios \subseteq 0 .. 100
    /\ Cosines \subseteq 0 .. 100 /\ Distances \subseteq 0 .. 64 /\ Weights \subseteq Nat
    /\ 0 \in Similarities /\ 0 \in Ratios

PairRecords ==
    [text : BOOLEAN,                                \* the query has text or an identifier
     gtin : {"silent", "untrusted", "trusted"},     \* identical GTINs, trusted on both sides or not
     mpn : BOOLEAN, sku : BOOLEAN,                  \* identical
     brand : Sides, color : Sides, size : Sides, pack : Sides,
     similarity : Similarities, ratio : Ratios,     \* 0 where a side has no name
     weight : Weights \cup {None}, rowWeight : Weights \cup {None},
     dimensions : {"silent", "within", "outside"},
     pictured : BOOLEAN,                            \* the query has a picture
     distance : Distances \cup {None}, cosine : Cosines \cup {None}]

-----------------------------------------------------------------------------
(* A pair under revision: the caller edits the query, the catalog the row. *)

VARIABLE pair

PairInit == pair = Silence

Becomes(p) == Consistent(p) /\ InBounds(p) /\ p # pair /\ pair' = p

EditIdentifier ==
    \/ \E x \in {"silent", "untrusted", "trusted"} : Becomes([pair EXCEPT !.gtin = x])
    \/ Becomes([pair EXCEPT !.mpn = ~pair.mpn])
    \/ Becomes([pair EXCEPT !.sku = ~pair.sku])

EditName ==
    \/ \E x \in Similarities : Becomes([pair EXCEPT !.similarity = x])
    \/ \E x \in Ratios : Becomes([pair EXCEPT !.ratio = x])

EditBrand == \E x \in Sides : Becomes([pair EXCEPT !.brand = x])

EditVariant == \E a \in Variants, x \in Sides : Becomes([pair EXCEPT ![a] = x])

EditPhysical ==
    \/ \E x \in Weights \cup {None} : Becomes([pair EXCEPT !.weight = x]) \/ Becomes([pair EXCEPT !.rowWeight = x])
    \/ \E x \in {"silent", "within", "outside"} : Becomes([pair EXCEPT !.dimensions = x])

EditPicture ==
    \/ Becomes([pair EXCEPT !.pictured = ~pair.pictured])
    \/ \E x \in Distances \cup {None} : Becomes([pair EXCEPT !.distance = x])
    \/ \E x \in Cosines \cup {None} : Becomes([pair EXCEPT !.cosine = x])

\* The query loses or gains text that agrees with nothing in the row.
EditText == Becomes([pair EXCEPT !.text = ~pair.text])

PairNext == EditIdentifier \/ EditName \/ EditBrand \/ EditVariant \/ EditPhysical \/ EditPicture \/ EditText

PairSpec == PairInit /\ [][PairNext]_pair

-----------------------------------------------------------------------------
(* Properties                                                              *)

Order(low, middle, high) == {<<low, low>>, <<low, middle>>, <<low, high>>,
                             <<middle, middle>>, <<middle, high>>, <<high, high>>}

\* In every comparison q agrees at least as well as p, and no column was added to disagree on.
AgreesMore(p, q) ==
    /\ <<p.gtin, q.gtin>> \in Order("silent", "untrusted", "trusted")
    /\ p.mpn = q.mpn \/ (q.mpn /\ q.brand # "differs")
    /\ p.sku => q.sku
    /\ \A a \in Variants \cup {"brand"} : <<p[a], q[a]>> \in Order("differs", "silent", "equal")
    /\ <<WeightCode(p), WeightCode(q)>> \in Order("weight_conflict", "silent", "weight_match")
    /\ <<p.dimensions, q.dimensions>> \in Order("outside", "silent", "within")
    /\ p.similarity <= q.similarity /\ p.ratio <= q.ratio
    /\ p.distance # None => q.distance # None /\ q.distance <= p.distance
    /\ p.cosine # None => q.cosine # None /\ q.cosine >= p.cosine

(* Evidence that agrees never lowers the score or the verdict: no flag is  *)
(* raised, and none that lifts a cap is lost, because something more       *)
(* agrees.                                                                 *)
AgreementNeverHurts ==
    [][AgreesMore(pair, pair') =>
          /\ Score(pair') >= Score(pair)
          /\ \A t \in Thresholds : Rank(Decision(pair', t)) >= Rank(Decision(pair, t))]_pair

(* A picture is evidence, never proof: whatever the thresholds, a pair     *)
(* decided as a match agrees in something other than its picture.          *)
PictureIsNoProof ==
    (\E t \in Thresholds : Decision(pair, t) = "match") => Corroborated(pair)

(* A picture moves a verdict up by one step at most, where the thresholds  *)
(* are further apart than what it can earn: it cannot carry a pair that    *)
(* would be no match without it past the review of a human.                *)
PictureLiftsOneStep ==
    \A t \in Thresholds :
        t.match - t.review >= 20 =>
            Rank(Decision(pair, t)) <= Rank(Decision(WithoutPicture(pair), t)) + 1

(* A match is never decided against a discriminator, however much fuzzy    *)
(* evidence adds up: colour, size and pack do not differ, and the brands   *)
(* differ only on a trusted GTIN that name and physicals bear out (a       *)
(* corrupted brand field, as opposed to a recycled barcode).               *)
MatchOutvotesNoConflict ==
    \A t \in Thresholds :
        Decision(pair, t) = "match" =>
            /\ \A a \in Variants : pair[a] # "differs"
            /\ pair.brand = "differs" =>
                  /\ pair.gtin = "trusted" /\ (pair.ratio >= 85 \/ pair.similarity >= 78)
                  /\ WeightCode(pair) # "weight_conflict" /\ pair.dimensions # "outside"

(* An exact identifier is worth a verdict and is the whole answer: /check/ *)
(* reviews the pair at least, and /search/ reports 100 and "exact" whatever*)
(* else the query carries.                                                 *)
IdentifierDecides ==
    Identified(pair) =>
        /\ \A t \in Thresholds : Decision(pair, t) # "no_match"
        /\ Relevance(pair) = 100 /\ MatchKind(pair) = "exact"

(* Both answers stem from the same comparisons but on scales of their own: *)
(* with a match worth more than 50 points, what /check/ calls a match,     *)
(* /search/ does not call a neighbour nothing agreed on.                   *)
MatchesAreRelevant ==
    \A t \in Thresholds :
        t.match > 50 /\ Decision(pair, t) = "match" => MatchKind(pair) # "none"

=============================================================================
