---------------------------- MODULE MCEvaluation ----------------------------
(* Values for TLC: a line of every label and of every reason to skip one.   *)
EXTENDS Evaluation

Line(kind, candidateKind, ref, label) ==
    [kind |-> kind, candidateKind |-> candidateKind, ref |-> ref, label |-> label]

MCPairs ==
    {Line("pim", "atlas", "c1", "match"), Line("pim", "atlas", "c1", "variant"), Line("pim", "atlas", "c2", "no"),
     Line("pim", "feed", "c1", "match"), Line("feed", "pim", "c1", "match"),
     Line("pim", "atlas", "c1", "yes"), Line("pim", "shop", "c1", "no"), Line("pim", "atlas", Blank, "match")}

\* Scores on both sides of the thresholds; a verdict may be capped, or raised by an identifier.
MCHits == {[score |-> 80, decision |-> "match"], [score |-> 80, decision |-> "review"],
           [score |-> 40, decision |-> "review"]}

MCAnswers == {[source |-> "api_check", kind |-> "atlas", ref |-> "c1", auto |-> "no_match"]}
MCProposals == {[subject |-> "s", kind |-> "atlas", ref |-> "c1", auto |-> "no_match"],
                [subject |-> "s", kind |-> "pim", ref |-> "c1", auto |-> "review"]}

=============================================================================
