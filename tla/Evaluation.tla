----------------------------- MODULE Evaluation -----------------------------
(***************************************************************************)
(* services/eval_service.py: a file of labelled pairs is run through the   *)
(* production check() row by row, skipping what cannot be judged, and the  *)
(* outcomes are counted into a report.  Other callers and humans write the *)
(* decision log meanwhile, and the catalog may stop serving an item.       *)
(***************************************************************************)
EXTENDS Decisions, Sequences, FiniteSets, SequencesExt

CONSTANTS
    Registered,     \* kinds with a provider
    Pairs,          \* what a line of the file may say: records [kind, candidateKind, ref, label]
    Blank,          \* the ref of a stray line
    MaxPairs,       \* bound: lines of a file
    Hits,           \* what check() may say of a candidate: records [score, decision]
    Sweep,          \* the thresholds to report on
    Absent          \* a measure that was not taken

ASSUME EvaluationAssumption ==
    /\ Pairs \subseteq [kind : STRING, candidateKind : STRING, ref : Refs \cup {Blank}, label : STRING]
    /\ Registered \subseteq Kinds /\ Blank \notin Refs
    /\ Hits \subseteq [score : 0 .. 100, decision : DecisionAuto] /\ Sweep \subseteq Nat
    /\ MaxPairs \in Nat /\ Absent \notin BOOLEAN \cup (Nat \X Nat)

VARIABLES
    phase,          \* idle, running, reported or failed (an exception ended the command)
    asked,          \* the command's options [imageOnly, logDecisions]
    file,           \* the pairs loaded
    next,           \* the line to judge
    outcomes,       \* for every line judged so far: [label, score, decision, retrieved, nameBlocked, imageBlocked]
    skipReasons     \* lines skipped so far, by reason

evalVars == <<phase, asked, file, next, outcomes, skipReasons>>
vars == <<log, evalVars>>

LABELS == {"match", "variant", "no"}
MATCH_LABELS == {"match"}
MATCH_OR_VARIANT_LABELS == {"match", "variant"}
\* Why a line is skipped; the code spells them with spaces.
Reasons == {"bad_label", "unknown_kind", "stale_ref"}

-----------------------------------------------------------------------------
(* The report                                                              *)

Judged == DOMAIN outcomes
Predicted(threshold) == {i \in Judged : outcomes[i].score >= threshold}
Labelled(labels) == {i \in Judged : outcomes[i].label \in labels}

TP(threshold, labels) == Cardinality(Predicted(threshold) \cap Labelled(labels))
FP(threshold, labels) == Cardinality(Predicted(threshold) \ Labelled(labels))
FN(threshold, labels) == Cardinality(Labelled(labels) \ Predicted(threshold))
TN(threshold, labels) == Cardinality(Judged \ (Predicted(threshold) \cup Labelled(labels)))

\* A ratio as <<numerator, denominator>>; 0.0 where nothing was counted.
Ratio(n, d) == IF d = 0 THEN <<0, 1>> ELSE <<n, d>>
AtMost(x, y) == x[1] * y[2] <= y[1] * x[2]

Precision(t, labels) == Ratio(TP(t, labels), TP(t, labels) + FP(t, labels))

Recall(t, labels) == Ratio(TP(t, labels), TP(t, labels) + FN(t, labels))

Confusion(label, decision) ==
    Cardinality({i \in Judged : outcomes[i].label = label /\ outcomes[i].decision = decision})

NotRetrieved == {i \in Judged : ~outcomes[i].retrieved}

\* The share of `counted` lines with a duplicate to find that the leg found; Absent without any.
LegRecall(counted, found) ==
    LET positives == counted \cap Labelled(MATCH_OR_VARIANT_LABELS)
    IN IF positives = {} THEN Absent
       ELSE Ratio(Cardinality(positives \cap found), Cardinality(positives))

NameHits == {i \in Judged : outcomes[i].nameBlocked}
ImageHits == {i \in Judged : outcomes[i].imageBlocked = TRUE}

Embedded == {i \in Judged : outcomes[i].imageBlocked # Absent}

RecallAt50Name == IF asked.imageOnly THEN Absent ELSE LegRecall(Judged, NameHits)
RecallAt20Image == LegRecall(Embedded, ImageHits)

-----------------------------------------------------------------------------
(* Running a file                                                          *)

NoneSkipped == [reason \in Reasons |-> 0]

Init ==
    /\ log = {} /\ phase = "idle" /\ file = <<>> /\ next = 1
    /\ asked = [imageOnly |-> FALSE, logDecisions |-> FALSE]
    /\ outcomes = <<>> /\ skipReasons = NoneSkipped

\* What load_pairs makes of a file: stray lines are dropped, the command starts on the rest.
Loaded == SeqOf({pair \in Pairs : pair.ref # Blank}, MaxPairs)

Start ==
    /\ phase = "idle"
    /\ file' \in Loaded
    /\ \E imageOnly, logDecisions \in BOOLEAN :
          asked' = [imageOnly |-> imageOnly, logDecisions |-> logDecisions]
    /\ phase' = "running"
    /\ UNCHANGED <<log, next, outcomes, skipReasons>>

Running == phase = "running" /\ next <= Len(file)
Pair == file[next]

\* Bug: only the reasons the file itself gives are counted.
SkipUncounted ==
    /\ Running
    /\ skipReasons' = IF Pair.label \in LABELS THEN skipReasons
                      ELSE [skipReasons EXCEPT !["bad_label"] = @ + 1]
    /\ next' = next + 1
    /\ UNCHANGED <<log, phase, asked, file, outcomes>>

\* Why a line cannot be judged whatever the catalog serves.
SkipReason(pair) ==
    IF pair.label \notin LABELS THEN {"bad_label"}
    ELSE IF {pair.kind, pair.candidateKind} \subseteq Kinds THEN {}
    ELSE {"unknown_kind"}

\* The query kind has no provider, or its provider knows no such ref or does not understand it
\* (a ValueError counts as an unknown kind), or the item carries no signal.
QueryReasons(pair) ==
    IF pair.kind \in Registered THEN {"stale_ref", "unknown_kind"} ELSE {"unknown_kind"}

Skip ==
    /\ Running
    /\ \E reason \in IF SkipReason(Pair) # {} THEN SkipReason(Pair) ELSE QueryReasons(Pair) :
          skipReasons' = [skipReasons EXCEPT ![reason] = @ + 1]
    /\ next' = next + 1
    /\ UNCHANGED <<log, phase, asked, file, outcomes>>

Judgeable == Running /\ SkipReason(Pair) = {} /\ Pair.kind \in Registered

\* What a judged line says: its label, what became of its candidate, which legs found it.
Row(retrieved, hit, nameBlocked, imageBlocked) ==
    [label |-> Pair.label, retrieved |-> retrieved, score |-> hit.score, decision |-> hit.decision,
     nameBlocked |-> nameBlocked, imageBlocked |-> imageBlocked]

Nowhere == [score |-> 0, decision |-> "no_match"]

\* Bug: the best candidate returned stands in for the line's.
OutcomeOfBest(shown, nameBlocked, imageBlocked) ==
    LET best == CHOOSE ref \in DOMAIN shown : \A r \in DOMAIN shown : shown[r].score <= shown[ref].score IN
    Row(Pair.ref \in DOMAIN shown, IF DOMAIN shown # {} THEN shown[best] ELSE Nowhere, nameBlocked, imageBlocked)

\* The line's candidate among those check() returned; a missing one scores nothing.
Outcome(shown, nameBlocked, imageBlocked) ==
    LET found == Pair.ref \in DOMAIN shown IN
    Row(found, IF found THEN shown[Pair.ref] ELSE Nowhere, nameBlocked, imageBlocked)

Searched(kind) == IF kind \in Registered THEN Refs ELSE {}

\* check() on the item the provider serves, scoped to the candidate's kind; then each blocking
\* leg on its own, which needs no provider of that kind.
JudgeRow ==
    /\ Judgeable /\ ~asked.imageOnly
    /\ \E shown \in UNION {[refs -> Hits] : refs \in SUBSET Searched(Pair.candidateKind)},
          nameBlocked \in BOOLEAN, imageBlocked \in BOOLEAN \cup {Absent} :
          /\ outcomes' = Append(outcomes, Outcome(shown, nameBlocked, imageBlocked))
          /\ log' = IF asked.logDecisions
                    THEN log \cup Logged("lookup_eval", Pair.candidateKind,
                                         [ref \in DOMAIN shown |-> shown[ref].decision])
                    ELSE log
    /\ next' = next + 1
    /\ UNCHANGED <<phase, asked, file, skipReasons>>

\* --image-only asks the image leg and nothing else.
JudgeImage ==
    /\ Judgeable /\ asked.imageOnly
    /\ \E imageBlocked \in BOOLEAN \cup {Absent} :
          outcomes' = Append(outcomes, Row(FALSE, Nowhere, FALSE, imageBlocked))
    /\ next' = next + 1
    /\ UNCHANGED <<log, phase, asked, file, skipReasons>>

\* Attributes the query schema refuses, or a provider's or the database's error: the report is lost.
Fail ==
    /\ Judgeable
    /\ phase' = "failed"
    /\ UNCHANGED <<log, asked, file, next, outcomes, skipReasons>>

Report ==
    /\ phase = "running" /\ next > Len(file)
    /\ phase' = "reported"
    /\ UNCHANGED <<log, asked, file, next, outcomes, skipReasons>>

-----------------------------------------------------------------------------

OtherCaller == Cardinality(SaidBy(Sources)) < MaxSaid /\ Check /\ UNCHANGED evalVars
Human == Cardinality(SaidBy(Sources)) < MaxSaid /\ Record /\ UNCHANGED evalVars

Next == Start \/ Skip \/ JudgeRow \/ JudgeImage \/ Fail \/ Report \/ OtherCaller \/ Human

Spec == Init /\ [][Next]_vars

-----------------------------------------------------------------------------
(* Properties                                                              *)

Skipped == skipReasons["bad_label"] + skipReasons["unknown_kind"] + skipReasons["stale_ref"]

(* A report accounts for every line of its file, once: as skipped for one  *)
(* reason or as one cell of every sweep; and a full report's confusion     *)
(* matrix holds as many lines of a label as the file has, but for those    *)
(* whose item could not be judged.                                         *)
EveryLineIsAccountedFor ==
    phase = "reported" =>
        /\ Len(file) = Len(outcomes) + Skipped
        /\ \A t \in Sweep, labels \in {MATCH_LABELS, MATCH_OR_VARIANT_LABELS} :
              TP(t, labels) + FP(t, labels) + FN(t, labels) + TN(t, labels) = Len(outcomes)
        /\ \A label \in LABELS :
              LET lines == Cardinality({i \in DOMAIN file : file[i].label = label})
                  cells == Confusion(label, "match") + Confusion(label, "review") + Confusion(label, "no_match")
              IN cells <= lines /\ lines <= cells + skipReasons["unknown_kind"] + skipReasons["stale_ref"]

(* The figures measure what they are named for.  The sweep is a trade: a   *)
(* higher threshold finds no more, and counting variants as duplicates     *)
(* costs no precision.  Recall is of what blocking and display let through,*)
(* so a line whose candidate check() did not return is a miss above 0; and *)
(* the image leg is measured on the lines whose query was embedded, on no  *)
(* others, and not at all without one that has a duplicate to find.        *)
FiguresMeasure ==
    LET measured == {i \in Judged : outcomes[i].imageBlocked # Absent /\ outcomes[i].label # "no"} IN
    /\ \A s, t \in Sweep, labels \in {MATCH_LABELS, MATCH_OR_VARIANT_LABELS} :
          s <= t => AtMost(Recall(t, labels), Recall(s, labels)) /\ FP(t, labels) <= FP(s, labels)
    /\ \A t \in Sweep : AtMost(Precision(t, MATCH_LABELS), Precision(t, MATCH_OR_VARIANT_LABELS))
    /\ \A t \in Sweep \ {0} : Predicted(t) \cap NotRetrieved = {}
    /\ RecallAt50Name = Absent <=> asked.imageOnly \/ Labelled(MATCH_OR_VARIANT_LABELS) = {}
    /\ measured = {} <=> RecallAt20Image = Absent
    /\ (\A i \in measured : outcomes[i].imageBlocked = TRUE) /\ measured # {} =>
           AtMost(<<1, 1>>, RecallAt20Image)

(* A calibration leaves no decisions behind unless it was asked to, and    *)
(* those it leaves are tagged as its own and answer for no human.          *)
CalibrationIsMarked ==
    [][next' # next =>
          /\ ~asked.logDecisions => log' = log
          /\ \A row \in log' \ log : row.source = "lookup_eval" /\ row.human = Unanswered]_vars

(* A rejection is durable: once a human rejected a pair, every later page  *)
(* of its subject says so, whoever checks, answers or calibrates meanwhile,*)
(* and no machine's verdict ever counts as one.                            *)
RejectionsAreDurable ==
    [][/\ RejectedPairs(Subjects) \subseteq RejectedPairs(Subjects)'
       /\ RejectedPairs(Subjects)' # RejectedPairs(Subjects) =>
              \E row \in log' \ log : row.source = "proposal" /\ row.human = "rejected"]_vars

=============================================================================
