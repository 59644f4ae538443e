------------------------------ MODULE MCScoring ------------------------------
(* Thresholds and bounds for TLC.  The comparisons of text and those of     *)
(* pictures are explored side by side: pairs without a picture at every     *)
(* boundary of name and weight, pairs with one at fewer.                    *)
EXTENDS Scoring

\* The defaults, and thresholds a picture alone could reach.
AllThresholds == {[match |-> 75, review |-> 45], [match |-> 20, review |-> 10]}

TextOrPicture(p) ==
    IF p.pictured
    THEN p.similarity \in {0, 90} /\ p.ratio \in {0, 86} /\ p.weight = None /\ p.rowWeight = None
    ELSE p.similarity \in {0, 79} /\ p.ratio \in {0, 60, 85}

=============================================================================
