---------------------------- MODULE RequestProofs -----------------------------
(* Theorems about Request and Service, for every set of URLs, requests,       *)
(* installations and budgets, any batch size, pool and number of tries.       *)
EXTENDS Service, FiniteSetTheorems, TLAPS

(* A request under way is one that may be sent; what was fetched for it is *)
(* a matter of its stage.                                                  *)
StageInv ==
    /\ phase # "idle" => Sendable(request)
    /\ phase \in {"idle", "received", "permitted", "admitted", "picture", "local"} => asked = <<>>
    /\ phase = "fetch" => current \in Urls
    /\ phase \in {"fetch", "asked", "body"} => request.upload = Nothing
    /\ phase \notin {"decode", "ended"} => data \in {Nothing, "sound"}

(* Who got how far: a stranger not past the door, and only the worker      *)
(* without a body that was accepted.                                       *)
CallerInv ==
    /\ phase = "received" => ~Worker
    /\ phase \in {"permitted", "admitted"} => ~Worker /\ ~Stranger
    /\ phase \in {"picture", "lookup"} => ~Worker /\ ~Stranger /\ Acceptable
    /\ phase \in {"fetch", "asked", "body", "decode", "embed"} => Worker \/ (~Stranger /\ Acceptable /\ Given)
    /\ phase = "local" => Worker

(* What has become of the picture at each stage.                           *)
UsedOrWarned == warned <=> Given /\ image # "vector"

PictureInv ==
    /\ phase \notin {"embed", "lookup", "ended"} => image = "none" /\ ~warned
    /\ phase = "embed" => image = "hash" /\ ~warned
    /\ phase = "lookup" \/ outcome = "200" => UsedOrWarned
    /\ phase # "idle" /\ request.upload # Nothing => asked = <<>>

(* The throttle's windows hold what was charged to them, a request at most *)
(* once, and who was refused found the window of the bucket full.          *)
BudgetInv ==
    /\ \A b \in Buckets : \A i \in 1 .. Len(history[b]) : history[b][i] = "image" <=> b = "image"
    /\ \A b \in Buckets : /\ Len(history[b]) <= arrivals
                          /\ phase \in {"received", "permitted"} => Len(history[b]) < arrivals
    /\ outcome = "429" => Parseable /\ Len(history[Bucket]) >= LimitOf(Bucket)

-----------------------------------------------------------------------------
(* Types and stages                                                        *)

Staged == TypeOK /\ StageInv /\ CallerInv

\* Nobody has asked yet.
LEMMA StagedInit == Init => Staged
<1> SUFFICES ASSUME Init PROVE Staged
  OBVIOUS
<1>1. history \in [Buckets -> Seq(Natures)] /\ asked \in Seq(Urls)
  BY DEF Init
<1>2. arrivals \in 0 .. MaxRequests /\ body \in 0 .. Cap + 1
  BY RequestAssumption DEF Init
<1>3. outcome \notin Outcomes
  BY RequestAssumption DEF Init
<1> QED
  BY <1>1, <1>2, <1>3 DEF Init, Staged, TypeOK, StageInv, CallerInv, Phases

\* A request, once it has arrived, stays what it is until it is forgotten.
LEMMA StagedView == Staged /\ View => Staged'
<1> SUFFICES ASSUME Staged, View PROVE Staged'
  OBVIOUS
<1>1. TypeOK /\ StageInv /\ CallerInv
  BY DEF Staged
<1> USE <1>1 DEF TypeOK, StageInv, CallerInv, Go, End, Phases, Outcomes, fetch, picture
<1>2. ASSUME NEW o \in Outcomes, End(o), phase # "idle", UNCHANGED <<history, fetch, picture>> PROVE Staged'
  <2>1. TypeOK'
    BY <1>2
  <2>2. StageInv' /\ CallerInv'
    BY <1>2
  <2> QED
    BY <2>1, <2>2 DEF Staged
<1>3. CASE Refuse
  BY <1>2, <1>3 DEF Refuse
<1>4. CASE Permit
  BY <1>4 DEF Permit, Staged, Stranger, Worker
<1>5. CASE Unparseable
  BY <1>2, <1>5 DEF Unparseable
<1>6. CASE RateIsGarbled \/ Throttle \/ Reject \/ Respond
  BY <1>2, <1>6 DEF RateIsGarbled, Throttle, MayCharge, Reject, Respond
<1>7. CASE Charge
  <2>1. history' \in [Buckets -> Seq(Natures)]
    <3>1. Nature \in Natures /\ Bucket \in Buckets
      BY DEF Nature, Natures, Bucket, Buckets
    <3>2. history' = [history EXCEPT ![Bucket] = Append(history[Bucket], Nature)]
      BY <1>7 DEF Charge
    <3> QED
      BY <3>1, <3>2
  <2>2. phase = "permitted" /\ Go("admitted") /\ UNCHANGED <<fetch, picture>>
    BY <1>7 DEF Charge, MayCharge
  <2> QED
    BY <2>1, <2>2 DEF Staged, Stranger, Worker
<1>8. CASE Accept
  BY <1>8 DEF Accept, Staged, Stranger, Worker, Acceptable, Signal
<1>9. CASE NoPicture \/ LayerIsOff
  BY <1>9 DEF NoPicture, LayerIsOff, Unused, Staged, Stranger, Worker, Acceptable, Signal
<1>10. CASE UseUpload
  <2>1. request.upload \in Contents
    BY <1>10 DEF UseUpload, Acceptable, Sendable
  <2> QED
    BY <1>10, <2>1 DEF UseUpload, Given, Staged, Stranger, Worker, Acceptable, Signal
<1>11. CASE UseUrl
  <2>1. request.url \in Urls
    BY <1>11 DEF UseUrl, Acceptable, Sendable
  <2> QED
    BY <1>11, <2>1 DEF UseUrl, Given, Staged, Stranger, Worker, Acceptable, Signal
<1> QED
  BY <1>3, <1>4, <1>5, <1>6, <1>7, <1>8, <1>9, <1>10, <1>11 DEF View

\* A fetch that fails ends the worker's picture, and brings a query to its lookup.
LEMMA StagedFails ==
  ASSUME Staged, FetchFails, phase \in {"fetch", "asked", "body", "local"} PROVE Staged'
<1>1. TypeOK /\ StageInv /\ CallerInv
  BY DEF Staged
<1> USE <1>1 DEF TypeOK, StageInv, CallerInv, Go, End, Phases, Outcomes, fetch, picture
<1>2. CASE Worker
  BY <1>2 DEF FetchFails, Staged
<1>3. CASE ~Worker
  BY <1>3 DEF FetchFails, Staged, Worker, Stranger, Acceptable, Signal
<1> QED
  BY <1>2, <1>3

\* A fetch is left for a redirect, a decoding or an end, with the same request.
LEMMA StagedFetch == Staged /\ Fetch => Staged'
<1> SUFFICES ASSUME Staged, Fetch PROVE Staged'
  OBVIOUS
<1>1. TypeOK /\ StageInv /\ CallerInv
  BY DEF Staged
<1>2. CASE TooManyHops \/ UnsafeHop \/ NoAnswer \/ BodyTooLong \/ NotAnImage \/ NoLocalFile
  BY <1>2, StagedFails DEF TooManyHops, UnsafeHop, NoAnswer, BodyTooLong, NotAnImage, NoLocalFile
<1>8. phase = "fetch" => Append(asked, current) \in Seq(Urls)
  <2>1. asked \in Seq(Urls) /\ (phase = "fetch" => current \in Urls)
    BY <1>1 DEF TypeOK, StageInv
  <2> QED
    BY <2>1
<1>9. 0 \in 0 .. Cap + 1 /\ (body <= Cap => body + 1 \in 0 .. Cap + 1)
  BY <1>1, RequestAssumption DEF TypeOK
<1> USE <1>1 DEF TypeOK, StageInv, CallerInv, Go, End, Phases, Outcomes, fetch, picture, Staged,
                 Worker, Stranger, Acceptable, Signal, Given
<1>3. CASE Ask
  <2>1. asked' \in Seq(Urls)
    BY <1>3, <1>8 DEF Ask
  <2> QED
    BY <1>3, <2>1 DEF Ask
<1>4. CASE Redirected
  BY <1>4 DEF Redirected
<1>5. CASE Answered
  BY <1>5, <1>9 DEF Answered
<1>6. CASE Receive
  <2>1. body' \in 0 .. Cap + 1
    BY <1>6, <1>9 DEF Receive
  <2> QED
    BY <1>6, <2>1 DEF Receive
<1>7. CASE Fetched \/ ReadLocal
  BY <1>7 DEF Fetched, ReadLocal
<1> QED
  BY <1>2, <1>3, <1>4, <1>5, <1>6, <1>7 DEF Fetch

\* So is the decoding of what was fetched.
LEMMA StagedDecode == Staged /\ Decode => Staged'
<1> SUFFICES ASSUME Staged, Decode PROVE Staged'
  OBVIOUS
<1>1. TypeOK /\ StageInv /\ CallerInv
  BY DEF Staged
<1> USE <1>1 DEF TypeOK, StageInv, CallerInv, Go, End, Phases, Outcomes, fetch, picture, Staged,
                 Worker, Stranger, Acceptable, Signal, Given
<1>2. CASE Decoded
  BY <1>2 DEF Decoded
<1>3. CASE InvalidImage \/ Truncated
  BY <1>3 DEF InvalidImage, Truncated
<1> QED
  BY <1>2, <1>3 DEF Decode

\* And the embedding of what was decoded.
LEMMA StagedEmbed == Staged /\ Embed => Staged'
<1> SUFFICES ASSUME Staged, Embed PROVE Staged'
  OBVIOUS
<1>1. TypeOK /\ StageInv /\ CallerInv
  BY DEF Staged
<1> USE <1>1 DEF TypeOK, StageInv, CallerInv, Go, End, Phases, Outcomes, fetch, picture, Staged,
                 Worker, Stranger, Acceptable, Signal, Given
<1>2. CASE Embedded \/ Degraded
  BY <1>2 DEF Embedded, Degraded
<1>3. CASE EmbeddingBreaks
  BY <1>3 DEF EmbeddingBreaks
<1> QED
  BY <1>2, <1>3 DEF Embed

\* Types and stages stay, whatever happens.
LEMMA StagedNext == Staged /\ [Next]_vars => Staged'
<1> SUFFICES ASSUME Staged, [Next]_vars PROVE Staged'
  OBVIOUS
<1>1. TypeOK /\ StageInv /\ CallerInv
  BY DEF Staged
<1>2. CASE Arrive
  <2>1. arrivals + 1 \in 1 .. MaxRequests /\ arrivals' = arrivals + 1 /\ arrivals \in Nat
    BY <1>1, <1>2, RequestAssumption DEF Arrive, TypeOK
  <2>2. Sendable(request')
    BY <1>2, <2>1, RequestAssumption DEF Arrive
  <2>3. TypeOK'
    BY <1>1, <1>2, <2>1, <2>2, RequestAssumption DEF Arrive, TypeOK, Sendable, Phases, picture
  <2>4. StageInv'
    BY <1>1, <1>2, <2>2 DEF Arrive, StageInv, Sendable, picture
  <2>5. CallerInv'
    BY <1>2 DEF Arrive, CallerInv, Worker
  <2> QED
    BY <2>3, <2>4, <2>5 DEF Staged
<1>3. CASE Forget
  <2>1. outcome' \notin Outcomes
    BY <1>3, RequestAssumption DEF Forget
  <2>2. 0 \in 0 .. Cap + 1 /\ <<>> \in Seq(Urls)
    BY RequestAssumption
  <2>3. TypeOK'
    BY <1>1, <1>3, <2>1, <2>2 DEF Forget, TypeOK, Phases
  <2> QED
    BY <1>3, <2>3 DEF Forget, Staged, StageInv, CallerInv
<1>4. ASSUME NEW b \in Buckets, Expire(b) PROVE Staged'
  <2>1. history[b] \in Seq(Natures) /\ history[b] # <<>>
    BY <1>1, <1>4 DEF Expire, TypeOK
  <2>2. history' \in [Buckets -> Seq(Natures)]
    BY <1>1, <1>4, <2>1 DEF Expire, TypeOK
  <2> QED
    BY <1>1, <1>4, <2>2 DEF Expire, Staged, TypeOK, StageInv, CallerInv, fetch, picture
<1>5. CASE UNCHANGED vars
  <2> USE <1>1, <1>5 DEF vars, fetch, picture
  <2>1. TypeOK'
    BY DEF TypeOK
  <2>2. StageInv'
    BY DEF StageInv
  <2>3. CallerInv'
    BY DEF CallerInv, Worker, Stranger, Acceptable, Signal, Given
  <2> QED
    BY <2>1, <2>2, <2>3 DEF Staged
<1> QED
  BY <1>2, <1>3, <1>4, <1>5, StagedView, StagedFetch, StagedDecode, StagedEmbed DEF Next

(* Every variable keeps its type: a body is never more than one chunk over *)
(* the cap, only a URL is ever asked, and an answer is given exactly at    *)
(* the end.                                                                *)
THEOREM TypeCorrect == Spec => []TypeOK
<1>1. Staged => TypeOK
  BY DEF Staged
<1> QED
  BY <1>1, StagedInit, StagedNext, PTL DEF Spec

-----------------------------------------------------------------------------
(* The picture                                                             *)

\* What a step ends, other than a lookup, promises nothing of the picture.
LEMMA PictureEnds ==
  ASSUME Staged, PictureInv, NEW o, End(o), o # "200", phase # "idle", UNCHANGED asked PROVE PictureInv'
  BY DEF PictureInv, End

\* The view warns exactly when it lets a picture go unused.
LEMMA PictureView == Staged /\ PictureInv /\ View => PictureInv'
<1> SUFFICES ASSUME Staged, PictureInv, View PROVE PictureInv'
  OBVIOUS
<1> USE DEF PictureInv, UsedOrWarned, Given, Go, fetch, picture
<1>1. CASE Refuse \/ Unparseable \/ RateIsGarbled \/ Throttle \/ Reject
  BY <1>1, PictureEnds DEF Refuse, Unparseable, RateIsGarbled, Throttle, MayCharge, Reject
<1>2. CASE Permit \/ Charge \/ Accept
  BY <1>2 DEF Permit, Charge, MayCharge, Accept, Staged, TypeOK
<1>3. CASE NoPicture \/ LayerIsOff
  BY <1>3 DEF NoPicture, LayerIsOff, Unused
<1>4. CASE UseUpload \/ UseUrl
  BY <1>4 DEF UseUpload, UseUrl, Staged, TypeOK
<1>5. CASE Respond
  BY <1>5 DEF Respond, End
<1> QED
  BY <1>1, <1>2, <1>3, <1>4, <1>5 DEF View

\* A failed fetch gives up the picture with a warning, or ends the request.
LEMMA PictureFetch == Staged /\ PictureInv /\ Fetch => PictureInv'
<1> SUFFICES ASSUME Staged, PictureInv, Fetch PROVE PictureInv'
  OBVIOUS
<1>1. /\ phase \in {"fetch", "asked", "body"} => request.upload = Nothing
      /\ phase \in {"fetch", "asked", "body"} => Worker \/ Given
      /\ phase = "local" => Worker
      /\ outcome = "200" => phase = "ended"
  BY DEF Staged, TypeOK, StageInv, CallerInv, Outcomes
<1> USE <1>1 DEF PictureInv, UsedOrWarned, Given, Go, fetch, picture, Worker
<1>2. ASSUME FetchFails, phase \in {"fetch", "asked", "body", "local"} PROVE PictureInv'
  <2>1. CASE Worker
    BY <1>2, <2>1, PictureEnds DEF FetchFails
  <2>2. CASE ~Worker
    BY <1>2, <2>2 DEF FetchFails
  <2> QED
    BY <2>1, <2>2
<1>3. CASE TooManyHops \/ UnsafeHop \/ NoAnswer \/ BodyTooLong \/ NotAnImage \/ NoLocalFile
  BY <1>2, <1>3 DEF TooManyHops, UnsafeHop, NoAnswer, BodyTooLong, NotAnImage, NoLocalFile
<1>4. CASE Ask \/ Redirected \/ Answered \/ Receive \/ Fetched \/ ReadLocal
  BY <1>4 DEF Ask, Redirected, Answered, Receive, Fetched, ReadLocal
<1> QED
  BY <1>3, <1>4 DEF Fetch

\* A picture that is decoded has a hash, one that is embedded a vector; without one of them there is a warning.
LEMMA PictureUse == Staged /\ PictureInv /\ (Decode \/ Embed) => PictureInv'
<1> SUFFICES ASSUME Staged, PictureInv, Decode \/ Embed PROVE PictureInv'
  OBVIOUS
<1>1. /\ phase = "embed" => Worker \/ Given
      /\ outcome = "200" => phase = "ended"
  BY DEF Staged, TypeOK, CallerInv, Outcomes
<1> USE <1>1 DEF PictureInv, UsedOrWarned, Given, Go, fetch, picture, Worker
<1>2. CASE Decoded
  BY <1>2 DEF Decoded
<1>3. CASE InvalidImage \/ Truncated \/ EmbeddingBreaks
  BY <1>3, PictureEnds DEF InvalidImage, Truncated, EmbeddingBreaks
<1>4. CASE (Embedded \/ Degraded) /\ Worker
  BY <1>4, PictureEnds DEF Embedded, Degraded
<1>5. CASE Embedded /\ ~Worker
  BY <1>5 DEF Embedded
<1>6. CASE Degraded /\ ~Worker
  <2>1. /\ phase = "embed" /\ phase' = "lookup" /\ warned' = TRUE /\ image' = "hash"
        /\ UNCHANGED <<request, asked, outcome>>
    BY <1>6 DEF Degraded
  <2> QED
    BY <2>1, <1>6
<1> QED
  BY <1>2, <1>3, <1>4, <1>5, <1>6 DEF Decode, Embed

\* No other step touches the picture.
LEMMA PictureNext == Staged /\ PictureInv /\ [Next]_vars => PictureInv'
<1> SUFFICES ASSUME Staged, PictureInv, [Next]_vars PROVE PictureInv'
  OBVIOUS
<1>1. phase = "idle" => asked = <<>>
  BY DEF Staged, StageInv
<1>2. outcome = "200" => phase = "ended"
  BY DEF Staged, TypeOK, Outcomes
<1> USE <1>1, <1>2 DEF PictureInv, UsedOrWarned, Given, fetch, picture
<1>3. CASE Arrive
  BY <1>3 DEF Arrive
<1>4. CASE Forget
  <2>1. outcome' # "200"
    BY <1>4, RequestAssumption DEF Forget, Outcomes
  <2> QED
    BY <1>4, <2>1 DEF Forget
<1>5. ASSUME NEW b \in Buckets, Expire(b) PROVE PictureInv'
  BY <1>5 DEF Expire
<1>6. CASE UNCHANGED vars
  BY <1>6 DEF vars
<1> QED
  BY <1>3, <1>4, <1>5, <1>6, PictureView, PictureFetch, PictureUse DEF Next

(* Whichever step the picture of a query fails at, for any sequence of     *)
(* redirects, chunks and answers: the caller is warned exactly when it     *)
(* gave a picture whose vector took no part, and an upload has nothing     *)
(* fetched.                                                                *)
THEOREM PicturesAreUsedOrWarned == Spec => []PictureIsUsedOrWarned
<1>1. Init => PictureInv
  <2>1. Init => outcome # "200"
    BY RequestAssumption DEF Init, Outcomes
  <2> QED
    BY <2>1 DEF Init, PictureInv
<1>2. PictureInv => PictureIsUsedOrWarned
  BY DEF PictureInv, UsedOrWarned, PictureIsUsedOrWarned
<1> QED
  BY <1>1, <1>2, StagedInit, StagedNext, PictureNext, PTL DEF Spec

-----------------------------------------------------------------------------
(* The guard                                                               *)

\* The guard's promise, of the URLs asked under the trust of the one request.
LEMMA GuardNext == Staged /\ FetchesAreGuarded /\ [Next]_vars => FetchesAreGuarded'
<1> SUFFICES ASSUME Staged, FetchesAreGuarded, [Next]_vars PROVE FetchesAreGuarded'
  OBVIOUS
<1>1. asked \in Seq(Urls) /\ (phase = "idle" => asked = <<>>)
  BY DEF Staged, TypeOK, StageInv
<1>2. ASSUME UNCHANGED <<asked, setting, request>> PROVE FetchesAreGuarded'
  BY <1>2 DEF FetchesAreGuarded, Worker
<1>3. ASSUME asked' = <<>> PROVE FetchesAreGuarded'
  BY <1>3 DEF FetchesAreGuarded, MaxRedirects
<1>4. CASE Ask
  <2>1. /\ asked' = Append(asked, current) /\ UNCHANGED <<setting, request>>
        /\ Len(asked) <= MaxRedirects /\ Safe /\ current \in Urls
    BY <1>4 DEF Ask, HopsLeft, Go, Staged, StageInv
  <2>2. /\ Len(asked') = Len(asked) + 1 /\ DOMAIN asked' = 1 .. Len(asked) + 1
        /\ \A i \in 1 .. Len(asked) : asked'[i] = asked[i]
        /\ asked'[Len(asked) + 1] = current
    BY <1>1, <2>1
  <2>3. /\ current \notin Unfetchable
        /\ setting.blockPrivate => current \notin (IF Worker THEN Private \ Allowed ELSE Private)
    BY <2>1 DEF Safe
  <2>4. \A i \in DOMAIN asked' :
           /\ asked'[i] \notin Unfetchable
           /\ setting.blockPrivate => asked'[i] \notin (IF Worker THEN Private \ Allowed ELSE Private)
    <3> SUFFICES ASSUME NEW i \in DOMAIN asked'
                 PROVE  /\ asked'[i] \notin Unfetchable
                        /\ setting.blockPrivate =>
                              asked'[i] \notin (IF Worker THEN Private \ Allowed ELSE Private)
      OBVIOUS
    <3>1. CASE i \in DOMAIN asked
      BY <1>1, <2>2, <3>1 DEF FetchesAreGuarded
    <3>2. CASE i \notin DOMAIN asked
      <4>1. i = Len(asked) + 1
        BY <1>1, <2>2, <3>2
      <4> QED
        BY <2>2, <2>3, <4>1
    <3> QED
      BY <3>1, <3>2
  <2>5. Len(asked') <= MaxRedirects + 1
    BY <1>1, <2>1, <2>2 DEF MaxRedirects
  <2> QED
    BY <2>1, <2>4, <2>5 DEF FetchesAreGuarded, Worker
<1>5. CASE View
  BY <1>2, <1>5 DEF View, Refuse, Permit, Unparseable, RateIsGarbled, Throttle, Charge, Reject, Accept,
                    NoPicture, LayerIsOff, Unused, UseUpload, UseUrl, Respond, Go, End, fetch
<1>6. CASE Fetch /\ ~Ask
  <2>1. FetchFails => UNCHANGED <<asked, setting, request>>
    BY DEF FetchFails, Go, End, fetch
  <2> QED
    BY <1>2, <1>6, <2>1 DEF Fetch, TooManyHops, UnsafeHop, Redirected, NoAnswer, Answered, Receive, BodyTooLong,
                            NotAnImage, Fetched, ReadLocal, NoLocalFile, Go, fetch
<1>7. CASE Decode \/ Embed
  BY <1>2, <1>7 DEF Decode, Embed, Decoded, InvalidImage, Truncated, Embedded, Degraded, EmbeddingBreaks, Go, End, fetch
<1>8. CASE Arrive \/ Forget
  BY <1>1, <1>3, <1>8 DEF Arrive, Forget
<1>9. ASSUME NEW b \in Buckets, Expire(b) PROVE FetchesAreGuarded'
  BY <1>2, <1>9 DEF Expire, fetch
<1>10. CASE UNCHANGED vars
  BY <1>2, <1>10 DEF vars, fetch
<1> QED
  BY <1>4, <1>5, <1>6, <1>7, <1>8, <1>9, <1>10 DEF Next

(* For any graph of redirects: every URL asked, first or last, is one the  *)
(* caller's own policy admits, the operator's allowlist serves the worker  *)
(* alone, and no picture takes more than MAX_REDIRECTS + 1 requests.       *)
THEOREM FetchesStayGuarded == Spec => []FetchesAreGuarded
<1>1. Init => FetchesAreGuarded
  BY DEF Init, FetchesAreGuarded, MaxRedirects
<1> QED
  BY <1>1, StagedInit, StagedNext, GuardNext, PTL DEF Spec

-----------------------------------------------------------------------------
(* The answer                                                              *)

(* One step for every way a request may end; none of the others ends one,  *)
(* and an answer given is not taken back.                                  *)
LEMMA AnswersNext == Staged /\ AnswersFitTheFault /\ [Next]_vars => AnswersFitTheFault'
<1> SUFFICES ASSUME Staged, AnswersFitTheFault, [Next]_vars PROVE AnswersFitTheFault'
  OBVIOUS
<1>1. TypeOK /\ StageInv /\ CallerInv
  BY DEF Staged
<1>2. ASSUME phase' # "ended" PROVE AnswersFitTheFault'
  BY <1>2 DEF AnswersFitTheFault
<1>3. phase # "idle" => request.media \in {"json", "multipart", "other"}
  BY <1>1 DEF StageInv, Sendable
<1>4. CASE Refuse
  BY <1>1, <1>4 DEF Refuse, End, AnswersFitTheFault, CallerInv, Worker, Stranger
<1>5. CASE Unparseable
  <2>1. /\ ~Worker /\ ~Stranger /\ outcome' \in {"400", "415"} /\ (outcome' = "400" => ~Acceptable)
        /\ UNCHANGED request
    BY <1>1, <1>3, <1>5 DEF Unparseable, End, CallerInv, Parseable, Acceptable
  <2> QED
    BY <2>1 DEF AnswersFitTheFault, Worker, Stranger, Acceptable, Signal
<1>6. CASE RateIsGarbled
  <2>1. ~Worker /\ ~Stranger /\ outcome' = "500" /\ UNCHANGED request
    BY <1>1, <1>6 DEF RateIsGarbled, End, CallerInv
  <2> QED
    BY <2>1 DEF AnswersFitTheFault, Worker, Stranger
<1>7. CASE Throttle \/ Reject \/ Respond
  <2>1. /\ ~Worker /\ ~Stranger /\ outcome' \in {"429", "400", "200"} /\ UNCHANGED request
        /\ outcome' = "400" => ~Acceptable
        /\ outcome' = "200" => Acceptable /\ data' \notin Unusable \cup {"truncated"}
    BY <1>1, <1>7, RequestAssumption
    DEF Throttle, MayCharge, Reject, Respond, End, CallerInv, StageInv, picture, Contents, Unusable
  <2> QED
    BY <2>1 DEF AnswersFitTheFault, Worker, Stranger, Acceptable, Signal
<1>8. CASE InvalidImage \/ Truncated \/ EmbeddingBreaks
  <2>1. /\ Worker \/ ~Stranger
        /\ UNCHANGED request
        /\ ~Worker => outcome' = "500" \/ (outcome' = "400" /\ data' \in Unusable)
    BY <1>1, <1>8 DEF InvalidImage, Truncated, EmbeddingBreaks, End, CallerInv, Unusable, picture
  <2> QED
    BY <2>1 DEF AnswersFitTheFault, Worker, Stranger
<1>9. CASE Embedded \/ Degraded
  <2>1. CASE Worker
    <3>1. outcome' = "prepared" /\ UNCHANGED request
      BY <1>9, <2>1 DEF Embedded, Degraded, End
    <3> QED
      BY <2>1, <3>1 DEF AnswersFitTheFault, Worker, Stranger
  <2>2. CASE ~Worker
    <3>1. phase' # "ended"
      BY <1>9, <2>2 DEF Embedded, Degraded, Go
    <3> QED
      BY <1>2, <3>1
  <2> QED
    BY <2>1, <2>2
<1>10. CASE FetchFails /\ phase # "ended"
  <2>1. CASE Worker
    <3>1. outcome' = "skipped" /\ UNCHANGED request
      BY <1>10, <2>1 DEF FetchFails, End
    <3> QED
      BY <2>1, <3>1 DEF AnswersFitTheFault, Worker, Stranger
  <2>2. CASE ~Worker
    <3>1. phase' # "ended"
      BY <1>10, <2>2 DEF FetchFails, Go
    <3> QED
      BY <1>2, <3>1
  <2> QED
    BY <2>1, <2>2
<1>11. CASE UNCHANGED vars \/ \E b \in Buckets : Expire(b)
  BY <1>11 DEF vars, Expire, picture, AnswersFitTheFault, Worker, Stranger, Parseable, Bucket, CarriesImage,
               Acceptable, Signal
<1>12. CASE Arrive \/ Forget
  BY <1>2, <1>12 DEF Arrive, Forget
<1>13. CASE View
  BY <1>2, <1>4, <1>5, <1>6, <1>7, <1>13
  DEF View, Permit, Charge, Accept, NoPicture, LayerIsOff, Unused, UseUpload, UseUrl, Go
<1>14. CASE Fetch
  BY <1>2, <1>10, <1>14
  DEF Fetch, Ask, TooManyHops, UnsafeHop, Redirected, NoAnswer, Answered, Receive, BodyTooLong, NotAnImage,
      Fetched, ReadLocal, NoLocalFile, Go
<1>15. CASE Decode \/ Embed
  BY <1>2, <1>8, <1>9, <1>15 DEF Decode, Embed, Decoded, Go
<1> QED
  BY <1>11, <1>12, <1>13, <1>14, <1>15 DEF Next

(* For any settings and traffic: a stranger is answered before its body is *)
(* read, a 400 is the caller's fault, and no answer is given that passes   *)
(* over a body that is not acceptable or bytes that are no picture.        *)
THEOREM AnswersFit == Spec => []AnswersFitTheFault
<1>1. Init => AnswersFitTheFault
  BY DEF Init, AnswersFitTheFault
<1> QED
  BY <1>1, StagedInit, StagedNext, AnswersNext, PTL DEF Spec

-----------------------------------------------------------------------------
(* The budgets                                                             *)

(* A body that can be parsed is charged as a picture exactly when it       *)
(* brings one; a form's URL alone counts among the text.                   *)
LEMMA BucketOfNature ==
  ASSUME Sendable(request), Parseable
  PROVE  /\ Bucket \in Buckets /\ Nature \in Natures
         /\ Bucket = "image" <=> Nature = "image"
<1>1. request.upload # Nothing => request.media = "multipart"
  BY DEF Sendable
<1>2. CASE request.upload # Nothing
  BY <1>1, <1>2 DEF Bucket, Buckets, Nature, Natures, CarriesImage
<1>3. CASE request.upload = Nothing /\ request.url # Nothing /\ request.wellformed /\ request.object
  <2>1. Nature = IF request.media = "json" THEN "image" ELSE "form url"
    BY <1>3 DEF Nature
  <2> QED
    BY <1>3, <2>1 DEF Bucket, Buckets, Natures, CarriesImage
<1>4. CASE request.upload = Nothing /\ ~(request.url # Nothing /\ request.wellformed /\ request.object)
  <2>1. Nature = "text"
    BY <1>4 DEF Nature
  <2> QED
    BY <1>4, <2>1 DEF Bucket, Buckets, Natures, CarriesImage
<1> QED
  BY <1>2, <1>3, <1>4

\* A window charged only with some natures counts whole among the requests of these.
LEMMA WindowsCount ==
  ASSUME TypeOK, NEW b \in Buckets, NEW natures, Len(history[b]) <= MaxRequests,
         \A i \in 1 .. Len(history[b]) : history[b][i] \in natures
  PROVE  Charged(natures) \in Nat /\ Charged(natures) >= Len(history[b])
<1> DEFINE all == {<<a, i>> : a \in Buckets, i \in 1 .. MaxRequests}
           C == {c \in all : c[2] <= Len(history[c[1]]) /\ history[c[1]][c[2]] \in natures}
           n == Len(history[b])
           f == [i \in 1 .. n |-> <<b, i>>]
<1>1. Charged(natures) = Cardinality(C)
  BY DEF Charged
<1>2. n \in Nat /\ n <= MaxRequests /\ MaxRequests \in Nat
  BY RequestAssumption DEF TypeOK
<1>3. IsFiniteSet(Buckets)
  <2>1. Buckets = ({} \cup {"text"}) \cup {"image"}
    BY DEF Buckets
  <2> QED
    BY <2>1, FS_EmptySet, FS_AddElement
<1>4. IsFiniteSet(1 .. MaxRequests)
  BY <1>2, FS_Interval
<1>5. IsFiniteSet(Buckets \X (1 .. MaxRequests))
  BY <1>3, <1>4, FS_Product
<1>6. C \in SUBSET (Buckets \X (1 .. MaxRequests))
  OBVIOUS
<1>7. IsFiniteSet(C)
  BY <1>5, <1>6, FS_Subset
<1>8. \A i \in 1 .. n : <<b, i>> \in C
  BY <1>2
<1>9. f \in [1 .. n -> C]
  BY <1>8
<1>10. f \in Injection(1 .. n, C)
  BY <1>9 DEF Injection, IsInjective
<1>11. Cardinality(1 .. n) = n
  BY <1>2, FS_Interval
<1>12. Cardinality(C) \in Nat
  BY <1>7, FS_CardinalityType
<1> HIDE DEF C, f, n
<1>13. Cardinality(1 .. n) <= Cardinality(C)
  BY <1>7, <1>10, FS_Injection
<1> QED
  BY <1>1, <1>2, <1>11, <1>12, <1>13 DEF n

\* A request is charged to its bucket once, and windows only run out.
LEMMA BudgetNext == Staged /\ BudgetInv /\ [Next]_vars => BudgetInv'
<1> SUFFICES ASSUME Staged, BudgetInv, [Next]_vars PROVE BudgetInv'
  OBVIOUS
<1>1. /\ history \in [Buckets -> Seq(Natures)] /\ arrivals \in Nat
      /\ phase # "idle" => Sendable(request)
      /\ outcome = "429" => phase = "ended"
  BY RequestAssumption DEF Staged, TypeOK, StageInv, Outcomes
<1>2. ASSUME UNCHANGED <<setting, request, history, arrivals>>, outcome' # "429",
             phase' \in {"received", "permitted"} => phase \in {"received", "permitted"}
      PROVE  BudgetInv'
  BY <1>2 DEF BudgetInv
<1>3. CASE UNCHANGED vars
  BY <1>3 DEF vars, BudgetInv, Parseable, Bucket, CarriesImage, LimitOf
<1>4. CASE Arrive
  <2>1. outcome' # "429" /\ UNCHANGED history /\ arrivals' = arrivals + 1
    BY <1>1, <1>4 DEF Arrive
  <2>2. \A b \in Buckets : Len(history[b]) \in Nat /\ Len(history[b]) <= arrivals
    BY <1>1 DEF BudgetInv
  <2>3. \A b \in Buckets : Len(history'[b]) <= arrivals' /\ Len(history'[b]) < arrivals'
    BY <1>1, <2>1, <2>2
  <2> QED
    BY <2>1, <2>3 DEF BudgetInv
<1>5. CASE Charge
  <2>1. /\ phase = "permitted" /\ Parseable /\ phase' = "admitted" /\ outcome' # "429" /\ UNCHANGED arrivals
        /\ history' = [history EXCEPT ![Bucket] = Append(history[Bucket], Nature)]
    BY <1>1, <1>5 DEF Charge, MayCharge, Go
  <2>2. Bucket \in Buckets /\ Nature \in Natures /\ (Bucket = "image" <=> Nature = "image")
    BY <1>1, <2>1, BucketOfNature
  <2>3. ASSUME NEW b \in Buckets
        PROVE  /\ \A i \in 1 .. Len(history'[b]) : history'[b][i] = "image" <=> b = "image"
               /\ Len(history'[b]) <= arrivals'
    <3>1. CASE b = Bucket
      <4> DEFINE s == history[b]
      <4>1. s \in Seq(Natures) /\ history'[b] = Append(s, Nature)
        BY <1>1, <2>1, <2>2, <3>1
      <4>2. Len(s) < arrivals /\ \A i \in 1 .. Len(s) : s[i] = "image" <=> b = "image"
        BY <2>1 DEF BudgetInv
      <4> HIDE DEF s
      <4>3. Len(history'[b]) = Len(s) + 1 /\ Len(s) \in Nat
        BY <2>2, <4>1
      <4>4. \A i \in 1 .. Len(s) + 1 : history'[b][i] = IF i = Len(s) + 1 THEN Nature ELSE s[i]
        BY <2>2, <4>1
      <4>5. \A i \in 1 .. Len(s) + 1 : i # Len(s) + 1 => i \in 1 .. Len(s)
        BY <4>3
      <4> QED
        BY <1>1, <2>1, <2>2, <3>1, <4>2, <4>3, <4>4, <4>5
    <3>2. CASE b # Bucket
      BY <1>1, <2>1, <3>2 DEF BudgetInv
    <3> QED
      BY <3>1, <3>2
  <2> QED
    BY <2>1, <2>3 DEF BudgetInv
<1>6. ASSUME NEW c \in Buckets, Expire(c) PROVE BudgetInv'
  <2>1. /\ phase = "idle" /\ history[c] # <<>> /\ UNCHANGED <<phase, arrivals, outcome>>
        /\ history' = [history EXCEPT ![c] = Tail(history[c])]
    BY <1>6 DEF Expire
  <2>2. outcome' # "429"
    BY <1>1, <2>1
  <2>3. ASSUME NEW b \in Buckets
        PROVE  /\ \A i \in 1 .. Len(history'[b]) : history'[b][i] = "image" <=> b = "image"
               /\ Len(history'[b]) <= arrivals'
    <3>1. CASE b = c
      <4> DEFINE s == history[b]
      <4>1. s \in Seq(Natures) /\ s # <<>> /\ history'[b] = Tail(s)
        BY <1>1, <2>1, <3>1
      <4>2. Len(s) <= arrivals /\ \A i \in 1 .. Len(s) : s[i] = "image" <=> b = "image"
        BY DEF BudgetInv
      <4> HIDE DEF s
      <4>3. /\ Len(s) \in Nat /\ Len(history'[b]) = Len(s) - 1
            /\ \A i \in 1 .. Len(s) - 1 : i + 1 \in 1 .. Len(s) /\ history'[b][i] = s[i + 1]
        BY <4>1
      <4>4. \A i \in 1 .. Len(history'[b]) : history'[b][i] = "image" <=> b = "image"
        BY <4>2, <4>3
      <4>5. Len(history'[b]) <= arrivals'
        BY <1>1, <2>1, <4>2, <4>3
      <4> QED
        BY <4>4, <4>5
    <3>2. CASE b # c
      BY <1>1, <2>1, <3>2 DEF BudgetInv
    <3> QED
      BY <3>1, <3>2
  <2> QED
    BY <2>1, <2>2, <2>3 DEF BudgetInv
<1>7. CASE Throttle
  <2>1. /\ Parseable /\ Len(history[Bucket]) >= LimitOf(Bucket) /\ phase' = "ended"
        /\ UNCHANGED <<setting, request, history, arrivals>>
    BY <1>7 DEF Throttle, MayCharge, End
  <2> QED
    BY <2>1 DEF BudgetInv, Parseable, Bucket, CarriesImage, LimitOf
<1>8. CASE View /\ ~Charge /\ ~Throttle
  BY <1>1, <1>2, <1>8
  DEF View, Refuse, Permit, Unparseable, RateIsGarbled, Reject, Accept, NoPicture, LayerIsOff, Unused,
      UseUpload, UseUrl, Respond, Go, End
<1>9. CASE Fetch
  <2>1. FetchFails /\ phase # "ended" => BudgetInv'
    BY <1>1, <1>2 DEF FetchFails, Go, End
  <2> QED
    BY <1>1, <1>2, <1>9, <2>1
    DEF Fetch, Ask, TooManyHops, UnsafeHop, Redirected, NoAnswer, Answered, Receive, BodyTooLong, NotAnImage,
        Fetched, ReadLocal, NoLocalFile, Go
<1>10. CASE Decode \/ Embed
  BY <1>1, <1>2, <1>10
  DEF Decode, Embed, Decoded, InvalidImage, Truncated, Embedded, Degraded, EmbeddingBreaks, Go, End
<1>11. CASE Forget
  <2>1. outcome' # "429"
    BY <1>11, RequestAssumption DEF Forget, Outcomes
  <2> QED
    BY <1>11, <2>1 DEF Forget, BudgetInv
<1> QED
  BY <1>3, <1>4, <1>5, <1>6, <1>7, <1>8, <1>9, <1>10, <1>11 DEF Next

(* For any rates and traffic: who is refused with a picture in a JSON body *)
(* or an upload has spent the image budget on such requests, and no text   *)
(* or form ever spends of it.                                              *)
THEOREM ImageBudgetIsKept == Spec => []ImageBudgetIsItsOwn
<1>1. Init => BudgetInv
  <2> SUFFICES ASSUME Init PROVE BudgetInv
    OBVIOUS
  <2>1. outcome # "429"
    BY RequestAssumption DEF Init, Outcomes
  <2>2. \A b \in Buckets : Len(history[b]) = 0
    BY DEF Init
  <2> QED
    BY <2>1, <2>2 DEF Init, BudgetInv
<1>2. Staged /\ BudgetInv => ImageBudgetIsItsOwn
  <2> SUFFICES ASSUME Staged, BudgetInv, outcome = "429", Nature = "image"
               PROVE  Charged({"image"}) >= LimitOf("image")
    BY DEF ImageBudgetIsItsOwn
  <2>1. TypeOK /\ Sendable(request) /\ Parseable /\ Len(history[Bucket]) >= LimitOf(Bucket)
    BY DEF Staged, TypeOK, StageInv, BudgetInv, Outcomes
  <2>2. Bucket = "image" /\ Bucket \in Buckets
    BY <2>1, BucketOfNature
  <2>3. Len(history[Bucket]) \in Nat /\ LimitOf(Bucket) \in Nat
    BY <2>1, <2>2, RequestAssumption DEF TypeOK, LimitOf
  <2>4. Len(history[Bucket]) <= MaxRequests
    BY <2>1, <2>2, <2>3, RequestAssumption DEF TypeOK, BudgetInv
  <2>5. \A i \in 1 .. Len(history[Bucket]) : history[Bucket][i] \in {"image"}
    BY <2>2 DEF BudgetInv
  <2>6. Charged({"image"}) \in Nat /\ Charged({"image"}) >= Len(history[Bucket])
    BY <2>1, <2>2, <2>4, <2>5, WindowsCount
  <2> QED
    BY <2>1, <2>2, <2>3, <2>6
<1> QED
  BY <1>1, <1>2, StagedInit, StagedNext, BudgetNext, PTL DEF Spec

-----------------------------------------------------------------------------
(* The item's own words                                                    *)

\* In a text with one GTIN, that is the word found first; in one with none, there is none.
LEMMA OneGtin ==
  ASSUME NEW text, Len(text) \in Nat, NEW k \in 1 .. Len(text),
         \A i \in 1 .. Len(text) : text[i] \in DOMAIN Gtins <=> i = k
  PROVE  FirstOf(text, DOMAIN Gtins) = k
<1>1. {i \in 1 .. Len(text) : text[i] \in DOMAIN Gtins} = {k}
  OBVIOUS
<1>2. Min({k}) = k
  BY DEF Min
<1> QED
  BY <1>1, <1>2 DEF FirstOf, SelectInSeq

\* A text without one has none to find.
LEMMA NoGtinIn ==
  ASSUME NEW text, \A i \in 1 .. Len(text) : text[i] \notin DOMAIN Gtins
  PROVE  FirstOf(text, DOMAIN Gtins) = 0
<1>1. {i \in 1 .. Len(text) : text[i] \in DOMAIN Gtins} = {}
  OBVIOUS
<1> QED
  BY <1>1 DEF FirstOf, SelectInSeq

\* A query by fields is read as the item is, whatever the normalizers do.
LEMMA FieldsAgree ==
  ASSUME NEW query, NEW item, item.gtin \in DOMAIN Gtins \cup {Nothing},
         query.attrs.pack = Nothing, query.attrs.size = Nothing,
         query.q = <<>>, query.name = item.name, query.ean = item.gtin, query.brand = item.brand,
         \/ query.attrs.color = Nothing
         \/ query.attrs.color \in DOMAIN Palette /\ Palette[query.attrs.color] = Fingerprint(item).color
  PROVE  Parse(query) = Fingerprint(item)
<1> DEFINE name == Name(item.name, Brand(item.brand))
<1>1. FirstOf(query.q, DOMAIN Gtins) = 0
  BY NoGtinIn
<1>2. Gtin(item.gtin) = IF query.ean # Nothing THEN Gtin(query.ean) ELSE NoGtin
  BY KeysAssumption DEF Gtin
<1>3. (IF query.name # <<>> THEN query.name ELSE query.q) = item.name
  OBVIOUS
<1>4. /\ Or(query.attrs.pack, name.pack) = name.pack /\ Or(query.attrs.size, name.size) = name.size
      /\ Fingerprint(item).color = name.color
  BY DEF Or, Fingerprint
<1>5. Or(Colour(query.attrs.color), name.color) = name.color
  BY <1>4, KeysAssumption DEF Or, Colour
<1> HIDE DEF name
<1> QED
  BY <1>1, <1>2, <1>3, <1>4, <1>5 DEF Parse, Fingerprint, name

\* What parse makes of a text: its GTIN, and what remains.
Yields(text, gtin, name) ==
    LET g == FirstOf(text, DOMAIN Gtins) IN g # 0 /\ text[g] = gtin /\ RemoveAt(text, g) = name

\* Beside a name without one, the GTIN is found and taken out, wherever it stands.
LEMMA GtinIsTakenOut ==
  ASSUME NEW name, name \in Seq(ToSet(name)), ToSet(name) \cap DOMAIN Gtins = {}, NEW gtin \in DOMAIN Gtins,
         NEW text, text = name \o <<gtin>> \/ text = <<gtin>> \o name
  PROVE  Yields(text, gtin, name)
<1> DEFINE W == ToSet(name) \cup {gtin}
<1>1. name \in Seq(W) /\ gtin \in W /\ Len(name) \in Nat
  OBVIOUS
<1>2. \A i \in 1 .. Len(name) : name[i] \notin DOMAIN Gtins
  BY DEF ToSet
<1> HIDE DEF W
<1>3. CASE text = name \o <<gtin>>
  <2>1. /\ text \in Seq(W) /\ Len(text) = Len(name) + 1 /\ text[Len(name) + 1] = gtin
        /\ \A i \in 1 .. Len(name) : text[i] = name[i]
    BY <1>1, <1>3
  <2>2. FirstOf(text, DOMAIN Gtins) = Len(name) + 1
    <3>1. Len(name) + 1 \in 1 .. Len(text) /\ Len(text) \in Nat
      BY <1>1, <2>1
    <3>2. ASSUME NEW i \in 1 .. Len(text) PROVE text[i] \in DOMAIN Gtins <=> i = Len(name) + 1
      <4>1. i \in 1 .. Len(name) \/ i = Len(name) + 1
        BY <1>1, <2>1
      <4>2. Len(name) + 1 \notin 1 .. Len(name)
        BY <1>1
      <4> QED
        BY <1>2, <2>1, <4>1, <4>2
    <3> QED
      BY <3>1, <3>2, OneGtin, Zenon
  <2>3. SubSeq(text, 1, Len(name)) = name
    BY <1>1, <2>1
  <2>4. SubSeq(text, Len(name) + 2, Len(text)) = <<>>
    BY <1>1, <2>1
  <2>5. RemoveAt(text, Len(name) + 1) = name
    <3>1. PICK n \in Nat : n = Len(name) + 1
      BY <1>1
    <3>2. n - 1 = Len(name) /\ n + 1 = Len(name) + 2
      BY <1>1, <3>1
    <3>3. SubSeq(text, 1, n - 1) = name /\ SubSeq(text, n + 1, Len(text)) = <<>>
      BY <2>3, <2>4, <3>2
    <3>4. RemoveAt(text, n) = SubSeq(text, 1, n - 1) \o SubSeq(text, n + 1, Len(text))
      BY Zenon DEF RemoveAt
    <3>5. name \o <<>> = name
      BY <1>1
    <3> QED
      BY <3>1, <3>3, <3>4, <3>5, Zenon
  <2> QED
    BY <1>1, <2>1, <2>2, <2>5 DEF Yields
<1>4. CASE text = <<gtin>> \o name
  <2>1. /\ text \in Seq(W) /\ Len(text) = Len(name) + 1 /\ text[1] = gtin
        /\ \A i \in 1 .. Len(name) : text[i + 1] = name[i]
    BY <1>1, <1>4
  <2>2. \A i \in 1 .. Len(text) : i # 1 => text[i] = name[i - 1] /\ i - 1 \in 1 .. Len(name)
    BY <1>1, <2>1
  <2>3. FirstOf(text, DOMAIN Gtins) = 1
    <3>1. 1 \in 1 .. Len(text) /\ Len(text) \in Nat
      BY <1>1, <2>1
    <3>2. \A i \in 1 .. Len(text) : text[i] \in DOMAIN Gtins <=> i = 1
      BY <1>2, <2>1, <2>2
    <3> QED
      BY <3>1, <3>2, OneGtin, Zenon
  <2>4. SubSeq(text, 1, 0) = <<>>
    BY <2>1
  <2>5. SubSeq(text, 2, Len(text)) = name
    BY <1>1, <2>1
  <2>6. RemoveAt(text, 1) = name
    BY <1>1, <2>4, <2>5 DEF RemoveAt
  <2> QED
    BY <2>1, <2>3, <2>6 DEF Yields
<1> QED
  BY <1>3, <1>4

(* So is the free text of an item without a brand, and without a GTIN in   *)
(* its name: what is left of the text is the name.                         *)
LEMMA PlainTextAgrees ==
  ASSUME NEW query, NEW item, item.gtin \in DOMAIN Gtins \cup {Nothing},
         item.name \in Seq(ToSet(item.name)), ToSet(item.name) \cap DOMAIN Gtins = {}, item.brand = <<>>,
         query.attrs.pack = Nothing, query.attrs.size = Nothing, query.attrs.color = Nothing,
         query.name = <<>>, query.ean = Nothing, query.brand = <<>>,
         query.q \in {item.brand \o item.name \o GtinOf(item), GtinOf(item) \o item.brand \o item.name}
  PROVE  Parse(query) = Fingerprint(item)
<1> DEFINE g == FirstOf(query.q, DOMAIN Gtins)
           text == IF g = 0 THEN query.q ELSE RemoveAt(query.q, g)
           gtin == IF g # 0 THEN Gtin(query.q[g]) ELSE NoGtin
           name == Name(item.name, Brand(item.brand))
<1>1. text = item.name /\ gtin = Gtin(item.gtin)
  <2>1. CASE item.gtin = Nothing
    <3>1. query.q = item.name
      BY <2>1 DEF GtinOf
    <3>2. g = 0
      BY <3>1, NoGtinIn DEF ToSet
    <3> QED
      BY <2>1, <3>1, <3>2, KeysAssumption DEF Gtin
  <2>2. CASE item.gtin \in DOMAIN Gtins
    <3>1. query.q \in {item.name \o <<item.gtin>>, <<item.gtin>> \o item.name}
      <4>1. GtinOf(item) = <<item.gtin>>
        BY <2>2, KeysAssumption DEF GtinOf
      <4>2. item.brand \o item.name = item.name /\ <<item.gtin>> \o item.brand = <<item.gtin>>
        OBVIOUS
      <4> QED
        BY <4>1, <4>2
    <3>2. g # 0 /\ query.q[g] = item.gtin /\ RemoveAt(query.q, g) = item.name
      <4>1. Yields(query.q, item.gtin, item.name)
        BY <2>2, <3>1, GtinIsTakenOut
      <4> QED
        BY <4>1, Zenon DEF Yields
    <3> QED
      BY <3>2
  <2> QED
    BY <2>1, <2>2
<1>2. \A found : Or(Nothing, found) = found
  BY DEF Or
<1>3. Colour(query.attrs.color) = Nothing
  BY KeysAssumption DEF Colour
<1> HIDE DEF g, text, gtin, name
<1>4. Parse(query) =
        [gtin |-> gtin, brand |-> IF Brand(query.brand) # <<>> THEN Brand(query.brand) ELSE Name(text, Brand(query.brand)).brand,
         words |-> Name(text, Brand(query.brand)).words,
         pack |-> Or(query.attrs.pack, Name(text, Brand(query.brand)).pack),
         color |-> Or(Colour(query.attrs.color), Name(text, Brand(query.brand)).color),
         size |-> Or(query.attrs.size, Name(text, Brand(query.brand)).size)]
  BY DEF Parse, g, text, gtin
<1> QED
  BY <1>1, <1>2, <1>3, <1>4 DEF Fingerprint, name

(* The part of OwnWordsAgree that needs no induction over texts: by fields *)
(* for every item, in free text for those without a brand.                 *)
PlainWordsAgree ==
    LET item == request.about IN
    /\ phase = "lookup" /\ item # Nothing
    /\ request.query.name # <<>> \/ (item.brand = <<>> /\ ToSet(item.name) \cap DOMAIN Gtins = {})
    => Parse(request.query) = Fingerprint(item)

(* For any dictionaries and patterns: an item asked for by its fields, the *)
(* colour in any language, has the keys of its own fingerprint whatever    *)
(* its words are; so has one without a brand, asked for in one text.       *)
THEOREM PlainWordsAreKept == Spec => []PlainWordsAgree
<1>1. Staged => PlainWordsAgree
  <2> SUFFICES ASSUME Staged, phase = "lookup", request.about # Nothing,
                      \/ request.query.name # <<>>
                      \/ request.about.brand = <<>> /\ ToSet(request.about.name) \cap DOMAIN Gtins = {}
               PROVE  Parse(request.query) = Fingerprint(request.about)
    BY DEF PlainWordsAgree
  <2>1. InOwnWords(request.query, request.about)
    BY DEF Staged, StageInv, Sendable
  <2> DEFINE query == request.query
             item == request.about
  <2> HIDE DEF query, item
  <2>2. /\ InOwnWords(query, item)
        /\ query.name # <<>> \/ (item.brand = <<>> /\ ToSet(item.name) \cap DOMAIN Gtins = {})
    BY <2>1 DEF query, item
  <2>3. Parse(query) = Fingerprint(item)
    <3>1. CASE query.name = <<>> /\ query.ean = Nothing /\ query.brand = <<>> /\ query.attrs.color = Nothing
               /\ query.q \in {item.brand \o item.name \o GtinOf(item), GtinOf(item) \o item.brand \o item.name}
      BY <2>2, <3>1, PlainTextAgrees DEF InOwnWords
    <3>2. CASE query.q = <<>> /\ query.name = item.name /\ query.ean = item.gtin /\ query.brand = item.brand
      BY <2>2, <3>2, KeysAssumption, FieldsAgree DEF InOwnWords
    <3> QED
      BY <2>2, <3>1, <3>2 DEF InOwnWords
  <2> QED
    BY <2>3 DEF query, item
<1> QED
  BY <1>1, StagedInit, StagedNext, PTL DEF Spec

-----------------------------------------------------------------------------
(* The service: requests with the client they call                         *)

(* Joined with the client, a request takes no step it could not take       *)
(* beside one that answers as it likes: every theorem above holds of       *)
(* ServiceSpec too.                                                        *)
THEOREM RequestsGoOn == ServiceSpec => Spec
<1>1. ServiceInit => Init
  BY DEF ServiceInit
<1>2. [ServiceNext]_serviceVars => [Next]_vars
  BY DEF ServiceNext, serviceVars, CallClient, Embedding, Resume, Elsewhere, Next, Embed, vars
<1> QED
  BY <1>1, <1>2, PTL DEF ServiceSpec, Spec

\* The service's client, with the theorems proved of it.
ClientFacts == INSTANCE EmbeddingClientProofs WITH Callers <- {Thread}

\* They are one client: the counts of its batches,
LEMMA OneCount == ASSUME NEW S PROVE Client!Cardinality(S) = ClientFacts!Cardinality(S)
  BY DEF Client!Cardinality, ClientFacts!Cardinality, Client!IsFiniteSet, ClientFacts!IsFiniteSet

\* how a call is cut, answered and joined,
LEMMA OneTransport ==
  ASSUME NEW n
  PROVE  /\ Client!Batches(n) = ClientFacts!Batches(n)
         /\ Client!Answers(n) = ClientFacts!Answers(n)
         /\ Client!ByIndex(n) = ClientFacts!ByIndex(n)
<1>1. Client!Batches(n) = ClientFacts!Batches(n)
  BY DEF Client!UpTo, ClientFacts!UpTo, Client!Slice, ClientFacts!Slice, Client!Batches,
      ClientFacts!Batches
<1>2. Client!Answers(n) = ClientFacts!Answers(n)
  BY DEF Client!Answers, ClientFacts!Answers, Client!IsInjective, ClientFacts!IsInjective
<1>3. Client!ByIndex(n) = ClientFacts!ByIndex(n)
  BY DEF Client!ByIndex, ClientFacts!ByIndex, Client!Before, ClientFacts!Before,
      Client!Cardinality, ClientFacts!Cardinality, Client!IsFiniteSet, ClientFacts!IsFiniteSet
<1> QED
  BY <1>1, <1>2, <1>3

\* and all it does.
LEMMA OneClient ==
  ASSUME NEW c
  PROVE  /\ Client!Start(c) => ClientFacts!Start(c)
         /\ Client!Work(c) => ClientFacts!Work(c)
         /\ Client!Resume(c) => ClientFacts!Resume(c)
<1>1. Client!Start(c) => ClientFacts!Start(c)
  BY OneTransport DEF Client!Start, ClientFacts!Start
<1>2. ASSUME NEW k, Client!Batch(c, k) PROVE ClientFacts!Batch(c, k)
  <2>1. CASE Client!Pickup(c, k)
    BY <2>1, OneCount
    DEF ClientFacts!Batch, Client!Pickup, ClientFacts!Pickup, Client!Busy, ClientFacts!Busy, Client!Update,
        ClientFacts!Update
  <2>2. CASE Client!AnswerBusy(c, k) \/ Client!Wake(c, k)
    BY <2>2
    DEF ClientFacts!Batch, Client!AnswerBusy, ClientFacts!AnswerBusy, Client!Wake, ClientFacts!Wake, Client!Update,
        ClientFacts!Update
  <2>3. CASE Client!AnswerLost(c, k) \/ Client!AnswerBroken(c, k)
    BY <2>3 DEF ClientFacts!Batch, Client!AnswerLost, ClientFacts!AnswerLost, Client!AnswerBroken,
        ClientFacts!AnswerBroken, Client!Update, ClientFacts!Update
  <2>4. CASE Client!AnswerVectors(c, k)
    BY <2>4, OneTransport
    DEF ClientFacts!Batch, Client!AnswerVectors, ClientFacts!AnswerVectors, Client!Update, ClientFacts!Update
  <2> QED
    BY <1>2, <2>1, <2>2, <2>3, <2>4 DEF Client!Batch
<1>3. Client!Abandon(c) => ClientFacts!Abandon(c)
  BY DEF Client!Abandon, ClientFacts!Abandon, Client!FirstFailure, ClientFacts!FirstFailure
<1>4. Client!Raise(c) => ClientFacts!Raise(c)
  BY DEF Client!Raise, ClientFacts!Raise, Client!FirstFailure, ClientFacts!FirstFailure,
      Client!Busy, ClientFacts!Busy
<1>5. Client!Return(c) => ClientFacts!Return(c)
  BY DEF Client!Return, ClientFacts!Return, Client!FlattenSeq, ClientFacts!FlattenSeq
<1>6. Client!Resume(c) => ClientFacts!Resume(c)
  BY DEF Client!Resume, ClientFacts!Resume, Client!NoCall, ClientFacts!NoCall
<1> QED
  BY <1>1, <1>2, <1>3, <1>4, <1>5, <1>6 DEF Client!Work, ClientFacts!Work

\* Its one caller is the request that embeds, and everything else leaves it alone.
LEMMA CallsGoOn == ServiceSpec => ClientFacts!Spec
<1>1. ServiceInit => ClientFacts!Init
  BY DEF ServiceInit, Client!Init, ClientFacts!Init, Client!NoCall, ClientFacts!NoCall
<1>2. [ServiceNext]_serviceVars => [ClientFacts!Next]_ClientFacts!vars
  <2> SUFFICES ASSUME [ServiceNext]_serviceVars PROVE [ClientFacts!Next]_ClientFacts!vars
    OBVIOUS
  <2>1. CASE CallClient \/ Embedding \/ Resume
    <3>1. Client!Start(Thread) \/ Client!Work(Thread) \/ Client!Resume(Thread)
      BY <2>1 DEF CallClient, Embedding, Resume
    <3> QED
      BY <3>1, OneClient DEF ClientFacts!Next
  <2>2. CASE Elsewhere \/ UNCHANGED serviceVars
    BY <2>2 DEF Elsewhere, serviceVars, ClientFacts!vars
  <2> QED
    BY <2>1, <2>2 DEF ServiceNext
<1> QED
  BY <1>1, <1>2, PTL DEF ServiceSpec, ClientFacts!Spec

(* In the service as in the client: whatever order batches finish and rows *)
(* arrive in, a call that returns has each picture's vector at its place.  *)
THEOREM ServiceVectorsFollow == ServiceSpec => []VectorsFollowPictures
<1>1. ClientFacts!VectorsFollowPictures => VectorsFollowPictures
  BY DEF VectorsFollowPictures, Client!VectorsFollowPictures, ClientFacts!VectorsFollowPictures, Client!UpTo,
      ClientFacts!UpTo
<1>2. ClientFacts!Spec => []ClientFacts!VectorsFollowPictures
  BY EmbeddingAssumption, ClientFacts!VectorsFollow
<1> QED
  BY <1>1, <1>2, CallsGoOn, PTL

(* And a request that goes on, with vectors or without, leaves no post of  *)
(* its call in flight or about to be retried.                              *)
THEOREM ServiceLeavesNothing == ServiceSpec => []NothingLeftRunning
<1>1. ClientFacts!NothingLeftRunning => NothingLeftRunning
  BY DEF NothingLeftRunning, Client!NothingLeftRunning, ClientFacts!NothingLeftRunning, Client!Busy, ClientFacts!Busy
<1>2. ClientFacts!Spec => []ClientFacts!NothingLeftRunning
  BY EmbeddingAssumption, ClientFacts!NothingRuns
<1> QED
  BY <1>1, <1>2, CallsGoOn, PTL

=============================================================================
