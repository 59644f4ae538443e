-------------------------------- MODULE Lookup --------------------------------
(***************************************************************************)
(* One request of /search/ or /check/ (services/lookup_service.py) and the *)
(* blocking that feeds it (services/blocking.py), beside a catalog and     *)
(* workers that go on changing: every leg of the pool is a query of its    *)
(* own, the rows are scored from what those queries returned, and display  *)
(* data is asked of the providers afterwards.                              *)
(*                                                                         *)
(* What a row's columns say against the query is its evidence: a pair of   *)
(* Verdict as a query with text and picture would see it, whether its name *)
(* is alike to pg_trgm when the query's still has the brand in it, and     *)
(* whether it holds the query's words.                                     *)
(***************************************************************************)
EXTENDS Verdict, FiniteSets, Sequences, SequencesExt

CONSTANTS
    Items,         \* (kind, ref): what the catalogs hold
    Kinds, KindOf, \* the kind of an item
    Providers,     \* kinds with a registered provider
    BatchKinds,    \* kinds whose provider defines basics and detail_urls
    Evidence,      \* records [pair, alike, words]
    Threshold,     \* settings.get_thresholds(): a record [match, review]
    PoolLimit,     \* blocking.CANDIDATE_LIMIT
    TrigramLimit, ImageTopK, WordLimit,
    Queries,       \* what callers ask: records of QueryRecords
    MaxTouched, MaxGeneration  \* bounds: items changed under a request, recreations of a row

(* The request schema asks for a signal; only check logs, unless its       *)
(* caller declines.  Text may hold no name, as a bare EAN, or one too      *)
(* short for trigrams, of one word or of several.                          *)
QueryRecords ==
    {q \in [mode : {"search", "check"}, text : BOOLEAN, name : {"none", "short", "word", "phrase"},
            picture : BOOLEAN, scope : SUBSET Kinds, limit : 1 .. 20, log : BOOLEAN] :
        /\ q.text \/ q.picture
        /\ q.name # "none" => q.text
        /\ q.mode = "search" => ~q.log}

ASSUME LookupAssumption ==
    /\ Queries \subseteq QueryRecords
    /\ IsFiniteSet(Items) /\ KindOf \in [Items -> Kinds] /\ Providers \subseteq Kinds /\ BatchKinds \subseteq Kinds
    /\ Evidence \subseteq [pair : {p \in Comparisons : p.text /\ p.pictured}, alike : BOOLEAN, words : BOOLEAN]
    /\ Threshold \in [match : Nat \ {0}, review : Nat]
    /\ {PoolLimit, TrigramLimit, ImageTopK, WordLimit} \subseteq Nat \ {0}
    /\ MaxTouched \in Nat /\ MaxGeneration \in Nat

VARIABLES
    served,      \* items the providers serve
    table,       \* fingerprint rows [item, gen, evidence], one per item at most
    generation,  \* how often the item's row was deleted: with the item, its pk
    touched,     \* items whose row or service changed while the request ran (history)
    query,       \* what the caller asks
    phase,
    image,       \* what of the query's picture takes part: none, hash or vector
    warnings,
    legs,        \* legs of blocking still to run
    pool,        \* rows the legs returned so far [row, leg], each pk once
    scored,      \* the pool's [row, pair], ranked
    pending, asking, shown,  \* display: items left, the provider call in progress, items displayed
    answer,      \* hits or candidates, and the overall decision
    audit        \* DedupDecision rows written

catalog == <<served, table, generation, touched>>
blocking == <<legs, pool>>
display == <<pending, asking, shown>>
vars == <<catalog, query, phase, image, warnings, blocking, scored, display, answer, audit>>

-----------------------------------------------------------------------------
Phases == {"idle", "picture", "blocking", "display", "answered", "rejected", "failed"}

NotAsking == [stage |-> "none", kind |-> None, known |-> {}]

Init ==
    /\ served \in SUBSET Items
    /\ \E owned \in SUBSET Items : \E e \in [owned -> Evidence] :
          table = {[item |-> i, gen |-> 0, evidence |-> e[i]] : i \in owned}
    /\ generation = [i \in Items |-> 0] /\ touched = {}
    /\ query \in Queries
    /\ phase = "idle" /\ image = "none" /\ warnings = {}
    /\ legs = <<>> /\ pool = <<>> /\ scored = <<>>
    /\ pending = {} /\ asking = NotAsking /\ shown = {}
    /\ answer = [hits |-> <<>>, decision |-> "no_match"] /\ audit = <<>>

-----------------------------------------------------------------------------
(* The catalog and the workers.  A row is read between the first leg and   *)
(* the last, an item's service while display data is asked for: a change   *)
(* at another time is the same as starting from the changed catalog.       *)

Touch(i) ==
    /\ touched' = touched \cup {i} /\ Cardinality(touched') <= MaxTouched
    /\ UNCHANGED <<query, phase, image, warnings, blocking, scored, display, answer, audit>>

RowsAreRead == phase = "blocking" /\ pool # <<>> /\ legs # <<>>

\* A refresh writes over the row and keeps its pk, or inserts a row.
RefreshRow(i) ==
    /\ RowsAreRead
    /\ \E e \in Evidence :
          table' = {r \in table : r.item # i} \cup {[item |-> i, gen |-> generation[i], evidence |-> e]}
    /\ table' # table
    /\ Touch(i) /\ UNCHANGED <<served, generation>>

DeleteRow(i) ==
    /\ RowsAreRead /\ generation[i] < MaxGeneration
    /\ \E r \in table : r.item = i /\ table' = table \ {r}
    /\ generation' = [generation EXCEPT ![i] = @ + 1]
    /\ Touch(i) /\ UNCHANGED served

ChangeService(i) ==
    /\ phase = "display" /\ pending # {}
    /\ served' = IF i \in served THEN served \ {i} ELSE served \cup {i}
    /\ Touch(i) /\ UNCHANGED <<table, generation>>

-----------------------------------------------------------------------------
(* The query and its picture                                               *)

Scope == query.scope \cap Providers

\* Parse, and drop the kinds without a provider.
Receive ==
    /\ phase = "idle"
    /\ warnings' = {[kind |-> k] : k \in query.scope \ Providers}
    /\ phase' = "picture"
    /\ UNCHANGED <<catalog, query, image, blocking, scored, display, answer, audit>>

\* Bug: the word leg runs before the neighbours.
LegOrderWordsFirst == <<"exact", "words", "near_hash", "trigram", "near_vector">>

LegOrder == <<"exact", "near_hash", "trigram", "near_vector", "words">>

Block(seen, warned) ==
    /\ phase = "picture"
    /\ image' = seen /\ warnings' = warnings \cup warned
    /\ phase' = "blocking" /\ legs' = IF Scope = {} THEN <<>> ELSE LegOrder
    /\ UNCHANGED <<catalog, query, pool, scored, display, answer, audit>>

ImageUnavailable == {[layer |-> "image_layer_unavailable"]}

WithoutPictureGiven == ~query.picture /\ Block("none", {})

\* The image layer is off, or image_url cannot be fetched.
PictureUnavailable == query.picture /\ Block("none", ImageUnavailable)

\* Bug: a backend that did not answer raises no warning.
PictureHashedSilently == query.picture /\ Block("hash", {})

\* The backend did not answer: the picture takes part by its hash alone.
PictureHashed == query.picture /\ Block("hash", ImageUnavailable)

PictureEmbedded == query.picture /\ Block("vector", {})

\* Bytes that are no usable image are the caller's mistake; what the client lets through is ours.
PictureRefused ==
    /\ phase = "picture" /\ query.picture
    /\ phase' \in {"rejected", "failed"}
    /\ UNCHANGED <<catalog, query, image, warnings, blocking, scored, display, answer, audit>>

-----------------------------------------------------------------------------
(* Blocking                                                                *)

WithoutText(p) ==
    [p EXCEPT !.text = FALSE, !.gtin = "silent", !.mpn = FALSE, !.sku = FALSE,
              !.brand = "silent", !.similarity = 0, !.ratio = 0]

WithoutName(p) == [p EXCEPT !.similarity = 0, !.ratio = 0]

\* A pair as this query sees it, its picture taking part as `seen`.
SeenWith(p, seen) ==
    LET words == IF query.name # "none" THEN p ELSE IF query.text THEN WithoutName(p) ELSE WithoutText(p) IN
    CASE seen = "none" -> WithoutPicture(words)
      [] seen = "hash" -> [words EXCEPT !.cosine = None]
      [] seen = "vector" -> words

Seen(row) == SeenWith(row.evidence.pair, image)

Base == {r \in table : KindOf[r.item] \in Scope}

\* The sequences of all of S in which nothing comes before what should precede it.
Orderings(S, Precedes(_, _)) ==
    {s \in SetToSeqs(S) : \A i, j \in DOMAIN s : i < j => ~Precedes(s[j], s[i])}

CutTo(s, n) == SubSeq(s, 1, Smaller(n, Len(s)))

Tops(orderings, n) == {CutTo(s, n) : s \in orderings}

\* The elements of S in the order R, which is strict and total on S.
Arranged(S, R) ==
    [k \in 1 .. Cardinality(S) |-> CHOOSE i \in S : Cardinality({j \in S : <<j, i>> \in R}) = k - 1]

\* What s has at `places`, in order.
Picked(s, places) ==
    LET order == Arranged(places, {p \in places \X places : p[1] < p[2]})
    IN [k \in DOMAIN order |-> s[order[k]]]

\* A row enters the pool where it is first met.
Appended(p, found, leg) ==
    LET known == {[item |-> p[i].row.item, gen |-> p[i].row.gen] : i \in DOMAIN p}
        new == Picked(found, {i \in DOMAIN found : [item |-> found[i].item, gen |-> found[i].gen] \notin known})
    IN p \o [i \in DOMAIN new |-> [row |-> new[i], leg |-> leg]]

Run(leg, results) ==
    /\ phase = "blocking" /\ legs # <<>> /\ Head(legs) = leg
    /\ \E found \in results : pool' = Appended(pool, found, leg)
    /\ legs' = Tail(legs)
    /\ UNCHANGED <<catalog, query, phase, image, warnings, scored, display, answer, audit>>

ExactRank(p) == CASE p.gtin # "silent" -> 0 [] p.gtin = "silent" /\ p.mpn -> 1 [] OTHER -> 2

ExactHit(p) == p.gtin # "silent" \/ (p.mpn /\ p.brand = "equal") \/ p.sku

\* Cut first, in no order, then ranked.
Exact ==
    LET hits == {r \in Base : ExactHit(Seen(r))}
        precedes(r, s) ==
            \/ ExactRank(Seen(r)) < ExactRank(Seen(s))
            \/ /\ ExactRank(Seen(r)) = ExactRank(Seen(s))
               /\ Seen(r).similarity > Seen(s).similarity
        cuts == {c \in SUBSET hits : Cardinality(c) = Smaller(PoolLimit, Cardinality(hits))}
    IN Run("exact", UNION {Orderings(c, precedes) : c \in cuts})

\* Ties of the other legs go by id, which is any order here.
NearHash ==
    LET near == {r \in Base : Seen(r).distance # None /\ Seen(r).distance <= 10}
        precedes(r, s) == Seen(r).distance < Seen(s).distance
    IN Run("near_hash", Tops(Orderings(near, precedes), ImageTopK))

\* The index is asked for the name as given, the floor is for its best likeness without the brand.
Trigram ==
    LET similar == {r \in Base : query.name \in {"word", "phrase"} /\ r.evidence.alike /\ Seen(r).similarity >= 35}
        precedes(r, s) == Seen(r).similarity > Seen(s).similarity
    IN Run("trigram", Tops(Orderings(similar, precedes), TrigramLimit))

\* However far the nearest are; the index is approximate and may miss rows.
NearVector ==
    LET embedded == {r \in Base : Seen(r).cosine # None}
        precedes(r, s) == Seen(r).cosine > Seen(s).cosine
    IN Run("near_vector", UNION {Tops(Orderings(found, precedes), ImageTopK) : found \in SUBSET embedded})

Words ==
    LET holding == {r \in Base : query.name = "phrase" /\ r.evidence.words}
        precedes(r, s) == FALSE  \* by a measure the evidence does not carry
    IN Run("words", Tops(Orderings(holding, precedes), WordLimit))

-----------------------------------------------------------------------------
(* Scoring and the cut                                                     *)

AboveByScore(a, b) ==
    \/ Score(a) > Score(b)
    \/ Score(a) = Score(b) /\ a.similarity > b.similarity

\* Bug: a search is ranked like a check.
AboveAlwaysByScore(a, b) == AboveByScore(a, b)

AboveByRelevance(a, b) ==
    \/ Relevance(a) > Relevance(b)
    \/ Relevance(a) = Relevance(b) /\ AboveByScore(a, b)

Above(a, b) == IF query.mode = "search" THEN AboveByRelevance(a, b) ELSE AboveByScore(a, b)

\* Bug: the candidates stay in pool order.
UnrankedPairs(pairs) == pairs

\* A stable sort, the best first.
Ranked(pairs) ==
    LET precedes(i, j) == \/ Above(pairs[i].pair, pairs[j].pair)
                          \/ ~Above(pairs[j].pair, pairs[i].pair) /\ i < j
        order == Arranged(DOMAIN pairs, {p \in (DOMAIN pairs) \X (DOMAIN pairs) : precedes(p[1], p[2])})
    IN [i \in DOMAIN pairs |-> pairs[order[i]]]

Candidates == CutTo(pool, PoolLimit)

ScorePairs ==
    /\ phase = "blocking" /\ legs = <<>>
    /\ scored' = Ranked([i \in DOMAIN Candidates |->
                           [row |-> Candidates[i].row, pair |-> Seen(Candidates[i].row)]])
    /\ phase' = "display"
    /\ pending' = LET cut == CutTo(scored', query.limit) IN {cut[i].row.item : i \in DOMAIN cut}
    /\ UNCHANGED <<catalog, query, image, warnings, blocking, asking, shown, answer, audit>>

-----------------------------------------------------------------------------
(* Display: kind by kind, in any order                                     *)

Of(k) == {i \in pending : KindOf[i] = k}

Displaying ==
    /\ phase = "display"
    /\ UNCHANGED <<catalog, query, phase, image, warnings, blocking, scored, answer, audit>>

\* basics(refs): unknown refs are left out.
AskBasics(k) ==
    /\ Displaying
    /\ asking = NotAsking /\ k \in BatchKinds /\ Of(k) # {}
    /\ asking' = [stage |-> "urls", kind |-> k, known |-> Of(k) \cap served]
    /\ UNCHANGED <<pending, shown>>

\* detail_urls(refs), then what both calls knew.
AskUrls(k) ==
    /\ Displaying
    /\ asking.stage = "urls" /\ asking.kind = k
    /\ shown' = shown \cup (asking.known \cap served)
    /\ pending' = pending \ Of(k) /\ asking' = NotAsking

\* A provider that raises from a batch call is asked ref by ref.
BatchRaises(k) ==
    /\ Displaying
    /\ \/ asking = NotAsking /\ k \in BatchKinds /\ Of(k) # {}
       \/ asking.stage = "urls" /\ asking.kind = k
    /\ asking' = [stage |-> "single", kind |-> k, known |-> {}]
    /\ UNCHANGED <<pending, shown>>

\* basic(ref) and detail_url(ref): a LookupError leaves the ref out.
AskSingle(i) ==
    /\ Displaying
    /\ i \in pending
    /\ \/ asking.stage = "single" /\ asking.kind = KindOf[i]
       \/ asking = NotAsking /\ KindOf[i] \notin BatchKinds
    /\ shown' = shown \cup ({i} \cap served)
    /\ pending' = pending \ {i}
    /\ asking' = IF Of(KindOf[i]) = {i} THEN NotAsking
                 ELSE [stage |-> "single", kind |-> KindOf[i], known |-> {}]

-----------------------------------------------------------------------------
(* The answer                                                              *)

\* Bug: hits are answered that the provider no longer serves.
HitsUnchecked == CutTo(scored, query.limit)

Hits ==
    LET cut == CutTo(scored, query.limit)
    IN Picked(cut, {i \in DOMAIN cut : cut[i].row.item \in shown})

Verdicts(hits) == {Decision(hits[i].pair, Threshold) : i \in DOMAIN hits}

Best(verdicts) ==
    CASE "match" \in verdicts -> "match"
      [] "match" \notin verdicts /\ "review" \in verdicts -> "review"
      [] OTHER -> "no_match"

\* Bug: the audit is written before display drops hits.
LogOfAllScored(hits) ==
    [i \in DOMAIN CutTo(scored, query.limit) |->
        [item |-> scored[i].row.item, score |-> Score(scored[i].pair),
         decision |-> Decision(scored[i].pair, Threshold)]]

LogOf(hits) ==
    [i \in DOMAIN hits |-> [item |-> hits[i].row.item, score |-> Score(hits[i].pair),
                            decision |-> Decision(hits[i].pair, Threshold)]]

\* check: the best verdict and, unless the caller declines, an audit row per candidate shown.
Answer ==
    /\ phase = "display" /\ pending = {}
    /\ phase' = "answered"
    /\ answer' = [hits |-> Hits, decision |-> Best(Verdicts(Hits))]
    /\ audit' = IF query.log THEN LogOf(Hits) ELSE audit
    /\ UNCHANGED <<catalog, query, image, warnings, blocking, scored, display>>

-----------------------------------------------------------------------------
Picture ==
    \/ WithoutPictureGiven \/ PictureUnavailable \/ PictureHashed
    \/ PictureEmbedded \/ PictureRefused

Blocking == Exact \/ NearHash \/ Trigram \/ NearVector \/ Words

Display ==
    \/ \E k \in Kinds : AskBasics(k) \/ AskUrls(k) \/ BatchRaises(k)
    \/ \E i \in Items : AskSingle(i)

Next ==
    \/ Receive \/ Picture \/ Blocking \/ ScorePairs \/ Display \/ Answer
    \/ \E i \in Items : RefreshRow(i) \/ DeleteRow(i) \/ ChangeService(i)

Spec == Init /\ [][Next]_vars

-----------------------------------------------------------------------------
(* Properties                                                              *)

Answered == phase = "answered"
HitRows == {answer.hits[i].row : i \in DOMAIN answer.hits}

(* The legs, the scores and the display data stem from different moments,  *)
(* yet whatever did not change under the request is answered as it is: the *)
(* item is served, the row is the one in the table and was scored so.  And *)
(* an item is named once, unless its row was deleted and recreated between *)
(* two legs: the pool tells rows apart by pk, not by item.                 *)
AnswerIsCurrent ==
    Answered => \A i \in DOMAIN answer.hits :
        LET h == answer.hits[i] IN
        /\ h.row.item \notin touched =>
              h.row.item \in served /\ h.row \in Base /\ h.pair = Seen(h.row)
        /\ \A j \in DOMAIN answer.hits \ {i} :
              answer.hits[j].row.item = h.row.item => generation[h.row.item] > 0

(* /search/ finds an item the query identifies (trusted GTIN, brand with   *)
(* MPN): neither the cuts of the pool and of the answer nor a better name, *)
(* picture or dedup score pushes it out, as long as the exact hits fit the *)
(* pool and the full marks fit the answer.                                 *)
IdentifiedItemIsFound ==
    Answered /\ query.mode = "search" =>
        \A r \in Base :
            /\ r.item \notin touched /\ r.item \in served /\ Identified(Seen(r))
            /\ Cardinality({i \in DOMAIN scored : ExactHit(scored[i].pair)}) < PoolLimit
            /\ Cardinality({i \in DOMAIN scored : Relevance(scored[i].pair) = 100}) <= query.limit
            => r \in HitRows

(* docs/concept.md: the word leg runs last on purpose, a text and image    *)
(* query must not lose its image neighbours to it.  No row found only by   *)
(* its words is scored while a row of another leg is cut.                  *)
WordsDisplaceNothing ==
    \A i, j \in DOMAIN pool :
        Answered /\ i <= PoolLimit /\ j > PoolLimit =>
            pool[i].leg # "words" \/ pool[j].leg = "words"

(* A scored candidate is missing from the answer only if its item was not  *)
(* served, or if as many others as the query's limit rank as high.         *)
NothingBetterIsHidden ==
    Answered => \A i \in DOMAIN scored :
        scored[i] \notin {answer.hits[j] : j \in DOMAIN answer.hits} =>
            \/ scored[i].row.item \notin shown
            \/ Cardinality({j \in DOMAIN scored : j # i /\ ~Above(scored[i].pair, scored[j].pair)})
                 >= query.limit

(* The audit holds one row for every candidate the caller was shown and    *)
(* none for one it was not, so the verdict of a logged check can be read   *)
(* off the log; a search and an unlogged check leave no trace.             *)
AuditIsTheAnswer ==
    Answered =>
        /\ Len(audit) = IF query.log THEN Len(answer.hits) ELSE 0
        /\ \A i \in DOMAIN audit : audit[i].item = answer.hits[i].row.item
        /\ query.log => Best({audit[i].decision : i \in DOMAIN audit}) = answer.decision

(* An answer without a warning took the whole query into account: every    *)
(* kind asked for, and every hit judged with the picture in full.          *)
NoWarningMeansWholeQuery ==
    Answered /\ warnings = {} =>
        /\ query.scope \subseteq Providers
        /\ \A i \in DOMAIN answer.hits :
              LET h == answer.hits[i] IN
              h.pair = SeenWith(h.row.evidence.pair, IF query.picture THEN "vector" ELSE "none")

=============================================================================
