------------------------------ MODULE Decisions ------------------------------
(***************************************************************************)
(* The DedupDecision table: what lookup_service.check decided about its    *)
(* candidates, and what humans answered through services/dedup_log.py.     *)
(* Everybody only appends.  Rows that say the same cannot be told apart by *)
(* any reader, so the log is the set of things said; scores, features and  *)
(* users are left out.                                                     *)
(***************************************************************************)
EXTENDS Naturals

CONSTANTS
    Subjects,       \* refs of catalog rows that are being deduplicated
    Kinds,          \* FingerprintKind
    Refs,           \* refs of candidates, which two kinds may share
    NoSubject,      \* "": a search from the CMS box stands for no row
    Sources,        \* callers that let check() write: api_check, create_hook, proposal
    Answers,        \* what check() tells them: records [source, kind, ref, auto]
    Proposals,      \* what humans are asked about: records [subject, kind, ref, auto]
    MaxSaid         \* bound: rows written by callers other than the calibration

DecisionAuto == {"match", "review", "no_match"}

ASSUME DecisionsAssumption ==
    /\ NoSubject \notin Subjects
    /\ "proposal" \in Sources /\ "lookup_eval" \notin Sources
    /\ Answers \subseteq [source : Sources, kind : Kinds, ref : Refs, auto : DecisionAuto]
    /\ Proposals \subseteq [subject : Subjects, kind : Kinds, ref : Refs, auto : DecisionAuto]
    /\ MaxSaid \in Nat

VARIABLE log  \* rows [source, subject, kind, ref, auto, human]

DecisionHuman == {"accepted", "rejected"}
Unanswered == ""

\* Bug: every row is tagged as the API's.
LoggedUntagged(source, kind, verdicts) ==
    {[source |-> "api_check", subject |-> NoSubject, kind |-> kind, ref |-> ref,
      auto |-> verdicts[ref], human |-> Unanswered] : ref \in DOMAIN verdicts}

\* The rows check() leaves for the candidates it answers with; its caller names the source.
Logged(source, kind, verdicts) ==
    {[source |-> source, subject |-> NoSubject, kind |-> kind, ref |-> ref,
      auto |-> verdicts[ref], human |-> Unanswered] : ref \in DOMAIN verdicts}

Answered(proposal, human) ==
    [source |-> "proposal", subject |-> proposal.subject, kind |-> proposal.kind,
     ref |-> proposal.ref, auto |-> proposal.auto, human |-> human]

SaidBy(sources) == {row \in log : row.source \in sources}

\* A caller other than the calibration checks a query and gets one candidate.
Check ==
    \E a \in Answers : log' = log \cup Logged(a.source, a.kind, [r \in {a.ref} |-> a.auto])

\* Bug: only the pair's latest answer is kept (update_or_create instead of create).
RecordOverwrites ==
    \E p \in Proposals, human \in DecisionHuman :
        log' = {r \in log : <<r.subject, r.kind, r.ref>> # <<p.subject, p.kind, p.ref>>} \cup {Answered(p, human)}

\* A human answers a proposal; decisions outside DecisionHuman raise and write nothing.
Record ==
    \E p \in Proposals, human \in DecisionHuman : log' = log \cup {Answered(p, human)}

\* Pairs a human rejected; the candidate's kind is not part of the answer.
RejectedPairs(subjects) ==
    {<<row.subject, row.ref>> : row \in {r \in log : r.subject \in subjects /\ r.human = "rejected"}}

=============================================================================
