------------------------------- MODULE Request -------------------------------
(***************************************************************************)
(* POST /search/ and /check/ up to the lookup itself: who may ask          *)
(* (api/admin/views), on which budget (throttling.py), what a request must *)
(* hold (schemas/requests), what keys its text yields (Keys) and how its   *)
(* picture is fetched (security/url_guard.py), decoded (image_prep.py) and *)
(* embedded (image_service.prepare_query).  The image worker fetches and   *)
(* decodes a catalog picture by the same steps (image_service._prepare),   *)
(* with another trust and another answer to trouble.  Here the embedding   *)
(* ends as it may; in module Service it is the client that ends it.        *)
(*                                                                         *)
(* Requests share nothing but the throttle's history, which DRF reads and  *)
(* charges in one call: so they are taken one after another here.          *)
(***************************************************************************)
EXTENDS Keys, FiniteSets

CONSTANTS
    Urls,
    Unfetchable,   \* no http scheme, or no host
    Private,       \* resolves to an internal address, or not at all
    Allowed,       \* private, named by settings.embed_allowed_hosts()
    Requests,      \* by arrival, what callers and workers may ask: see RequestFields
    Settings,      \* installations: records of SettingRecords
    Budget,        \* the host's rates, by bucket
    Fallback,      \* FALLBACK_RATE, by bucket
    Cap,           \* MAX_REMOTE_IMAGE_BYTES, in chunks
    MaxRequests    \* bound: requests

Buckets == {"text", "image"}
Contents == {"sound", "truncated", "foreign", "unreadable"}  \* to load_and_crop
MaxRedirects == 3
Outcomes == {"200", "400", "401", "403", "415", "429", "500", "prepared", "skipped", "raised"}

(* How a bucket's rate is configured: well, not at all, as None, without a *)
(* "/", or with one and still no rate.                                     *)
SettingRecords ==
    [rate : [Buckets -> {"set", "missing", "empty", "slashless", "garbled"}],
     imageEnabled : BOOLEAN, blockPrivate : BOOLEAN]

(* `from` is the token's owner, or the worker with a catalog picture.  An  *)
(* upload is `big` or one of Contents; a url may be `broken`, no HttpUrl;  *)
(* `valid` is what the schema says of the other fields; `pictures` are     *)
(* embedded in one call, the others of the worker's task included;         *)
(* `about`, read by no action, is the item whose words the query uses.     *)
RequestFields ==
    {"from", "media", "wellformed", "object", "upload", "url", "valid", "pictures", "query", "about"}
Callers == {"anonymous", "bad token", "customer", "admin", "worker"}

GtinOf(item) == IF item.gtin = Nothing THEN <<>> ELSE <<item.gtin>>

(* An item's own words: its fields, with its colour in any language, or    *)
(* one text of its brand and name, the GTIN last or first.                 *)
InOwnWords(query, item) ==
    /\ item.name \in Seq(ToSet(item.name)) /\ item.brand \in Seq(ToSet(item.brand))
    /\ item.gtin \in DOMAIN Gtins \cup {Nothing}
    /\ query.attrs.pack = Nothing /\ query.attrs.size = Nothing
    /\ \/ /\ query.q = <<>> /\ query.name = item.name /\ query.ean = item.gtin /\ query.brand = item.brand
          /\ \/ query.attrs.color = Nothing
             \/ /\ query.attrs.color \in DOMAIN Palette
                /\ Palette[query.attrs.color] = Fingerprint(item).color
       \/ /\ query.q \in {item.brand \o item.name \o GtinOf(item), GtinOf(item) \o item.brand \o item.name}
          /\ query.name = <<>> /\ query.ean = Nothing /\ query.brand = <<>> /\ query.attrs.color = Nothing

\* Only a form carries an upload; a catalog picture has a URL, fetchable or not, or a path.
Sendable(r) ==
    /\ DOMAIN r = RequestFields
    /\ r.from \in Callers /\ r.media \in {"json", "multipart", "other"}
    /\ {r.wellformed, r.object, r.valid} \subseteq BOOLEAN
    /\ r.upload \in Contents \cup {"big", Nothing} /\ (r.upload # Nothing => r.media = "multipart")
    /\ r.url \in Urls \cup {"broken", Nothing}
    /\ IF r.from = "worker" THEN r.upload = Nothing /\ r.url # "broken" /\ r.pictures \in Nat \ {0}
       ELSE r.pictures = 1
    /\ r.about # Nothing => InOwnWords(r.query, r.about)

ASSUME RequestAssumption ==
    /\ Unfetchable \cup Private \subseteq Urls /\ Allowed \subseteq Private
    /\ Nothing \notin Urls \cup Contents \cup Outcomes \cup {"big", "broken"} /\ "broken" \notin Urls
    /\ Budget \in [Buckets -> Nat \ {0}] /\ Fallback \in [Buckets -> Nat \ {0}]
    /\ Cap \in Nat \ {0} /\ MaxRequests \in Nat /\ DOMAIN Requests = 1 .. MaxRequests
    /\ \A n \in 1 .. MaxRequests : \A r \in Requests[n] : Sendable(r)
    /\ Settings \subseteq SettingRecords

VARIABLES
    setting,
    request, phase,
    history,      \* the throttle's windows: by bucket, what each request charged was after
    current,      \* the URL to ask next
    asked,        \* URLs requested for this picture, in order
    body,         \* chunks received of the current answer
    data,         \* the picture's bytes
    image,        \* what has been made of them
    warned,       \* image_layer_unavailable
    outcome,
    arrivals      \* requests so far

vars == <<setting, request, phase, history, current, asked, body, data, image, warned,
          outcome, arrivals>>

fetch == <<current, asked, body>>
picture == <<data, image, warned>>

Phases == {"idle", "received", "permitted", "admitted", "picture", "fetch", "asked", "body",
           "local", "decode", "embed", "lookup", "ended"}
Natures == {"text", "image", "form url"}

TypeOK ==
    /\ setting \in Settings /\ phase \in Phases
    /\ phase # "idle" => DOMAIN request = RequestFields /\ arrivals > 0
    /\ history \in [Buckets -> Seq(Natures)] /\ arrivals \in 0 .. MaxRequests
    /\ current \in Urls \cup {Nothing} /\ asked \in Seq(Urls) /\ body \in 0 .. Cap + 1
    /\ data \in Contents \cup {Nothing} /\ image \in {"none", "hash", "vector"}
    /\ warned \in BOOLEAN
    /\ (phase = "ended") <=> (outcome \in Outcomes)

Init ==
    /\ setting \in Settings
    /\ request = Nothing /\ phase = "idle" /\ arrivals = 0
    /\ history = [b \in Buckets |-> <<>>]
    /\ current = Nothing /\ asked = <<>> /\ body = 0
    /\ data = Nothing /\ image = "none" /\ warned = FALSE
    /\ outcome = Nothing

Stranger == request.from \in {"anonymous", "bad token", "customer"}
Worker == request.from = "worker"

Go(to) == phase' = to /\ UNCHANGED <<setting, request, arrivals, outcome>>

End(with) == phase' = "ended" /\ outcome' = with /\ UNCHANGED <<setting, request, arrivals>>

-----------------------------------------------------------------------------
(* APIView.initial                                                         *)

Arrive ==
    /\ phase = "idle" /\ arrivals < MaxRequests
    /\ request' \in Requests[arrivals + 1] /\ arrivals' = arrivals + 1
    /\ phase' = IF request'.from # "worker" THEN "received"
                ELSE IF request'.url = Nothing THEN "local" ELSE "fetch"
    /\ current' = IF request'.from = "worker" THEN request'.url ELSE Nothing
    /\ UNCHANGED <<setting, history, asked, body, picture, outcome>>

\* JWTAuthentication, then IsAdminUser.
Refuse ==
    /\ phase = "received" /\ Stranger
    /\ End(IF request.from = "customer" THEN "403" ELSE "401")
    /\ UNCHANGED <<history, fetch, picture>>

Permit ==
    /\ phase = "received" /\ ~Stranger
    /\ Go("permitted") /\ UNCHANGED <<history, fetch, picture>>

\* Bug: only an upload is looked for.
CarriesUpload == request.upload # Nothing

(* _carries_image: a multipart body counts by its file alone; a JSON body  *)
(* that cannot be parsed counts as text.                                   *)
CarriesImage ==
    \/ request.media = "multipart" /\ request.upload # Nothing
    \/ request.media = "json" /\ request.wellformed /\ request.object /\ request.url # Nothing

Bucket == IF CarriesImage THEN "image" ELSE "text"

\* get_rate: what is no rate falls back, and never means no throttle.
LimitOf(b) == IF setting.rate[b] = "set" THEN Budget[b] ELSE Fallback[b]

Parseable == request.media = "json" \/ (request.media = "multipart" /\ request.wellformed)

\* Reading the body for its bucket fails, before anything is charged.
Unparseable ==
    /\ phase = "permitted" /\ ~Parseable
    /\ End(IF request.media = "other" THEN "415" ELSE "400")
    /\ UNCHANGED <<history, fetch, picture>>

\* parse_rate raises on a rate that get_rate let through.
RateIsGarbled ==
    /\ phase = "permitted" /\ Parseable /\ setting.rate[Bucket] = "garbled"
    /\ End("500") /\ UNCHANGED <<history, fetch, picture>>

MayCharge == phase = "permitted" /\ Parseable /\ setting.rate[Bucket] # "garbled"

Throttle ==
    /\ MayCharge /\ Len(history[Bucket]) >= LimitOf(Bucket)
    /\ End("429") /\ UNCHANGED <<history, fetch, picture>>

\* What a request is after, whatever it is charged as.
Nature ==
    CASE request.upload # Nothing -> "image"
      [] request.upload = Nothing /\ request.url # Nothing /\ request.wellformed /\ request.object ->
            IF request.media = "json" THEN "image" ELSE "form url"
      [] OTHER -> "text"

Charge ==
    /\ MayCharge /\ Len(history[Bucket]) < LimitOf(Bucket)
    /\ history' = [history EXCEPT ![Bucket] = Append(@, Nature)]
    /\ Go("admitted") /\ UNCHANGED <<fetch, picture>>

\* A request leaves the window.
Expire(b) ==
    /\ history[b] # <<>> /\ phase = "idle"
    /\ history' = [history EXCEPT ![b] = Tail(@)]
    /\ UNCHANGED <<setting, request, phase, fetch, picture, outcome, arrivals>>

-----------------------------------------------------------------------------
(* _parsed                                                                 *)

\* REQUIRED_ANY: the lookup has something to search by; a brand or attributes alone are nothing.
Signal ==
    \/ request.query.q # <<>> \/ request.query.name # <<>>
    \/ {request.query.ean, request.query.mpn, request.query.sku} # {Nothing}
    \/ request.upload # Nothing \/ request.url # Nothing

Acceptable ==
    /\ request.upload # "big"
    /\ request.wellformed /\ request.object
    /\ request.valid /\ request.url # "broken"
    /\ Signal

Reject ==
    /\ phase = "admitted" /\ ~Acceptable
    /\ End("400") /\ UNCHANGED <<history, fetch, picture>>

Accept ==
    /\ phase = "admitted" /\ Acceptable
    /\ Go("picture") /\ UNCHANGED <<history, fetch, picture>>

-----------------------------------------------------------------------------
(* _query_image                                                            *)

Given == request.upload # Nothing \/ request.url # Nothing

Unused(warning) ==
    /\ warned' = warning /\ image' = "none"
    /\ Go("lookup") /\ UNCHANGED <<history, fetch, data>>

NoPicture == phase = "picture" /\ ~Given /\ Unused(FALSE)

LayerIsOff == phase = "picture" /\ Given /\ ~setting.imageEnabled /\ Unused(TRUE)

UseUpload ==
    /\ phase = "picture" /\ setting.imageEnabled /\ request.upload # Nothing
    /\ data' = request.upload
    /\ Go("decode") /\ UNCHANGED <<history, fetch, image, warned>>

UseUrl ==
    /\ phase = "picture" /\ setting.imageEnabled /\ request.upload = Nothing /\ request.url # Nothing
    /\ current' = request.url
    /\ Go("fetch") /\ UNCHANGED <<history, asked, body, picture>>

-----------------------------------------------------------------------------
(* safe_get                                                                *)

\* Bug: a redirect is followed unchecked.
SafeAtFirst == asked # <<>> \/ current \notin Unfetchable \cup Private

\* assert_safe_url: only the worker brings the operator's allowlist.
Safe ==
    /\ current \notin Unfetchable
    /\ \/ ~setting.blockPrivate
       \/ current \notin Private
       \/ Worker /\ current \in Allowed

\* Bug: the picture is given up without a word.
FetchFailsSilently ==
    IF Worker THEN End("skipped") /\ UNCHANGED <<history, fetch, picture>>
    ELSE Go("lookup") /\ UNCHANGED <<history, fetch, picture>>

\* ValueError and OSError: a query goes on without its picture, the worker skips the row.
FetchFails ==
    IF Worker THEN End("skipped") /\ UNCHANGED <<history, fetch, picture>>
    ELSE warned' = TRUE /\ Go("lookup") /\ UNCHANGED <<history, fetch, data, image>>

HopsLeft == Len(asked) <= MaxRedirects

Ask ==
    /\ phase = "fetch" /\ HopsLeft /\ Safe
    /\ asked' = Append(asked, current)
    /\ Go("asked") /\ UNCHANGED <<history, current, body, picture>>

TooManyHops == phase = "fetch" /\ ~HopsLeft /\ FetchFails

UnsafeHop == phase = "fetch" /\ HopsLeft /\ ~Safe /\ FetchFails

\* Bug: a redirect starts a fetch of its own.
RedirectedAnew ==
    /\ phase = "asked"
    /\ current' \in Urls /\ asked' = <<>>
    /\ Go("fetch") /\ UNCHANGED <<history, body, picture>>

Redirected ==
    /\ phase = "asked"
    /\ current' \in Urls
    /\ Go("fetch") /\ UNCHANGED <<history, asked, body, picture>>

\* The server is down or slow, says no, or redirects without saying where.
NoAnswer == phase = "asked" /\ FetchFails

Answered ==
    /\ phase = "asked"
    /\ body' = 0
    /\ Go("body") /\ UNCHANGED <<history, current, asked, picture>>

\* Bug: the cap is checked one chunk late.
ReceiveBeyondCap ==
    /\ phase = "body" /\ body <= Cap + 1
    /\ body' = body + 1
    /\ Go("body") /\ UNCHANGED <<history, current, asked, picture>>

\* A chunk arrives, and one too many ends the fetch.
Receive ==
    /\ phase = "body" /\ body <= Cap
    /\ body' = body + 1
    /\ Go("body") /\ UNCHANGED <<history, current, asked, picture>>

BodyTooLong == phase = "body" /\ body > Cap /\ FetchFails

\* The connection breaks off, or what came is no image by its Content-Type.
NotAnImage == phase = "body" /\ body <= Cap /\ FetchFails

Fetched ==
    /\ phase = "body" /\ body <= Cap
    /\ data' \in Contents
    /\ Go("decode") /\ UNCHANGED <<history, fetch, image, warned>>

\* _read_local: a path the catalog names; missing, unreadable or too large, the row is skipped.
ReadLocal ==
    /\ phase = "local"
    /\ data' \in Contents
    /\ Go("decode") /\ UNCHANGED <<history, fetch, image, warned>>

NoLocalFile == phase = "local" /\ FetchFails

-----------------------------------------------------------------------------
(* load_and_crop, and the embedding call                                   *)

Decoded ==
    /\ phase = "decode" /\ data = "sound"
    /\ image' = "hash"
    /\ Go("embed") /\ UNCHANGED <<history, fetch, data, warned>>

\* Bug: an unreadable picture is given up like one that cannot be fetched.
InvalidImageForgiven ==
    /\ phase = "decode" /\ data \in {"foreign", "unreadable"}
    /\ FetchFails

\* verify() or the list of formats refuses it: the caller's mistake.
InvalidImage ==
    /\ phase = "decode" /\ data \in {"foreign", "unreadable"}
    /\ End(IF Worker THEN "skipped" ELSE "400")
    /\ UNCHANGED <<history, fetch, picture>>

(* verify() passed the header, and the second opening, outside the try,    *)
(* raises what the codec raises: _safe knows OSError and ValueError alone, *)
(* and _run nothing of either.                                             *)
Truncated ==
    /\ phase = "decode" /\ data = "truncated"
    /\ \E known \in BOOLEAN : End(IF ~Worker THEN "500" ELSE IF known THEN "skipped" ELSE "raised")
    /\ UNCHANGED <<history, fetch, picture>>

Embedded ==
    /\ phase = "embed"
    /\ image' = "vector"
    /\ IF Worker THEN End("prepared") ELSE Go("lookup")
    /\ UNCHANGED <<history, fetch, data, warned>>

\* EmbeddingError: the hash has to do.
Degraded ==
    /\ phase = "embed"
    /\ warned' = ~Worker
    /\ IF Worker THEN End("prepared") ELSE Go("lookup")
    /\ UNCHANGED <<history, fetch, data, image>>

\* _embed knows no other exception.
EmbeddingBreaks ==
    /\ phase = "embed"
    /\ End(IF Worker THEN "raised" ELSE "500")
    /\ UNCHANGED <<history, fetch, picture>>

\* The lookup (module Lookup) answers.
Respond ==
    /\ phase = "lookup"
    /\ End("200") /\ UNCHANGED <<history, fetch, picture>>

\* Nothing of the request is kept.
Forget ==
    /\ phase = "ended"
    /\ phase' = "idle" /\ request' = Nothing /\ outcome' = Nothing
    /\ current' = Nothing /\ asked' = <<>> /\ body' = 0
    /\ data' = Nothing /\ image' = "none" /\ warned' = FALSE
    /\ UNCHANGED <<setting, history, arrivals>>

-----------------------------------------------------------------------------
View ==
    \/ Refuse \/ Permit
    \/ Unparseable \/ RateIsGarbled \/ Throttle \/ Charge
    \/ Reject \/ Accept
    \/ NoPicture \/ LayerIsOff \/ UseUpload \/ UseUrl
    \/ Respond

Fetch ==
    \/ Ask \/ TooManyHops \/ UnsafeHop
    \/ Redirected \/ NoAnswer \/ Answered
    \/ Receive \/ BodyTooLong \/ NotAnImage \/ Fetched
    \/ ReadLocal \/ NoLocalFile

Decode == Decoded \/ InvalidImage \/ Truncated

Embed == Embedded \/ Degraded \/ EmbeddingBreaks

Next == Arrive \/ View \/ Fetch \/ Decode \/ Embed \/ Forget \/ \E b \in Buckets : Expire(b)

Spec == Init /\ [][Next]_vars

-----------------------------------------------------------------------------
(* Properties                                                              *)

(* No fetch leaves its guard: every URL asked, redirects included, is one  *)
(* the caller's own policy admits, and there are MAX_REDIRECTS + 1 at most.*)
(* The operator's allowlist never serves a URL that came with a request.   *)
FetchesAreGuarded ==
    /\ Len(asked) <= MaxRedirects + 1
    /\ \A i \in DOMAIN asked :
          /\ asked[i] \notin Unfetchable
          /\ setting.blockPrivate => asked[i] \notin (IF Worker THEN Private \ Allowed ELSE Private)

Charged(natures) ==
    Cardinality({c \in {<<b, i>> : b \in Buckets, i \in 1 .. MaxRequests} :
                    c[2] <= Len(history[c[1]]) /\ history[c[1]][c[2]] \in natures})

(* Who is refused with a picture in a JSON body or an upload has spent the *)
(* image budget on such requests: neither text nor a form's image_url ever *)
(* does.                                                                   *)
ImageBudgetIsItsOwn == outcome = "429" /\ Nature = "image" => Charged({"image"}) >= LimitOf("image")

(* throttling.py: image traffic cannot exhaust the text budget.  A text    *)
(* request that is refused has spent the text budget on texts alone:       *)
(* whatever pays for a fetch and an embedding is image traffic, a form's   *)
(* image_url as well as a JSON body's.                                     *)
BudgetsAreApart == outcome = "429" /\ Nature = "text" => Charged({"text"}) >= LimitOf("text")

Unusable == {"foreign", "unreadable"}

(* What an answer means: strangers learn nothing of how their body would   *)
(* have been read; a 400 is for a body or a picture that is the caller's   *)
(* fault; and no fault is passed over, neither in the body nor in bytes    *)
(* that are no picture.                                                    *)
AnswersFitTheFault ==
    phase = "ended" /\ ~Worker =>
        IF Stranger THEN outcome = IF request.from = "customer" THEN "403" ELSE "401"
        ELSE /\ outcome = "400" => ~Acceptable \/ data \in Unusable
             /\ outcome = "200" => Acceptable /\ data \notin Unusable \cup {"truncated"}


(* The caller is warned exactly when a picture was given and the vector    *)
(* did not take part, whichever of the steps it failed at; an upload is    *)
(* used as it is and never has anything fetched.                           *)
PictureIsUsedOrWarned ==
    /\ outcome = "200" => (warned <=> Given /\ image # "vector")
    /\ phase # "idle" /\ request.upload # Nothing => asked = <<>>

(* query_parser.py: a query and an item are compared on identical keys.    *)
(* An item asked for in its own words has the keys of its own fingerprint: *)
(* by fields always, in free text unless something in it reads otherwise.  *)
(* That is a brand spelt as an alias, with its legal form or not known at  *)
(* all, which only a brand field resolves; a brand that becomes a longer   *)
(* one together with the name; one the name repeats, as only one is taken  *)
(* out on either side; and a GTIN in the name.                             *)
ReadsAsItIs(item) ==
    /\ FirstOf(item.name, DOMAIN Gtins) = 0
    /\ item.brand # <<>> =>
          /\ Name(item.brand \o item.name, <<>>).brand = item.brand /\ Brand(item.brand) = item.brand
          /\ ReplaceFirstSubSeq(<<>>, item.brand, item.name) = item.name

OwnWordsAgree ==
    /\ phase = "lookup" /\ request.about # Nothing
    /\ request.query.name # <<>> \/ ReadsAsItIs(request.about)
    => Parse(request.query) = Fingerprint(request.about)

\* Every request is answered, and every picture done with: no redirect or body goes on for ever.
EveryRequestEnds == (phase # "idle") ~> (phase = "ended")

=============================================================================
