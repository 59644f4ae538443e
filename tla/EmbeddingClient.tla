--------------------------- MODULE EmbeddingClient ---------------------------
(***************************************************************************)
(* A hosted embedding provider (embedding/hosted.py, transport.py) as its  *)
(* callers see it: embed_images cuts the pictures into batches, posts them *)
(* from the threads of a pool, each post with its retries, and answers     *)
(* with one vector per picture or with an exception.  The callers are      *)
(* threads of one process: requests carrying a picture, an image task.     *)
(*                                                                         *)
(* What is cut and joined, and how, is module Transport.                   *)
(***************************************************************************)
EXTENDS Transport

CONSTANT Callers

VARIABLES
    call,   \* phase of each caller's embed_images, and the vectors it returned
    batch   \* for each caller, its batches in order: [pictures, at, tries, vectors]

vars == <<call, batch>>

NoCall == [phase |-> "idle", n |-> 0, vectors |-> <<>>]

Init ==
    /\ call = [c \in Callers |-> NoCall]
    /\ batch = [c \in Callers |-> <<>>]

-----------------------------------------------------------------------------
\* Batches of the call that hold a thread: a sleeping retry keeps its thread.
Busy(c) == {k \in DOMAIN batch[c] : batch[c][k].at \in {"posted", "sleeping"}}

\* A batch of the call goes on.
Update(c, k, b) == batch' = [batch EXCEPT ![c] = [batch[c] EXCEPT ![k] = b]] /\ UNCHANGED call

\* embed_images: nothing to do for an empty list, else _vectors.
Start(c) ==
    /\ call[c].phase = "idle"
    /\ \E n \in Sizes :
          /\ call' = [call EXCEPT ![c] = [phase |-> IF n = 0 THEN "returned" ELSE "running",
                                          n |-> n, vectors |-> <<>>]]
          /\ batch' = [batch EXCEPT ![c] = Batches(n)]

(* A thread of the call's own pool takes the next batch (a single batch is *)
(* posted by the caller itself).  The URL guard may refuse it first.       *)
Pickup(c, k) ==
    /\ call[c].phase = "running"
    /\ batch[c][k].at = "queued" /\ \A j \in 1 .. k - 1 : batch[c][j].at # "queued"
    /\ Cardinality(Busy(c)) < Concurrency
    /\ \/ Update(c, k, [batch[c][k] EXCEPT !.at = "posted", !.tries = 1])
       \/ Update(c, k, [batch[c][k] EXCEPT !.at = "lost"])

\* HTTP 429 or 503: the backend asks to wait.
AnswerBusy(c, k) ==
    /\ batch[c][k].at = "posted"
    /\ Update(c, k, [batch[c][k] EXCEPT !.at = "sleeping"])

\* Bug: the tries are not counted.
WakeForever(c, k) ==
    /\ batch[c][k].at = "sleeping"
    /\ Update(c, k, [batch[c][k] EXCEPT !.at = "posted"])

\* The backoff is over: post again, or give up after the last try (which slept too).
Wake(c, k) ==
    /\ batch[c][k].at = "sleeping"
    /\ IF batch[c][k].tries < MaxTries
       THEN Update(c, k, [batch[c][k] EXCEPT !.at = "posted", !.tries = @ + 1])
       ELSE Update(c, k, [batch[c][k] EXCEPT !.at = "lost"])

(* Any other failure the code turns into EmbeddingError: a timeout or a    *)
(* refused connection, another status, no JSON, an unexpected shape, the   *)
(* wrong number of vectors, the wrong dimension.                           *)
AnswerLost(c, k) ==
    /\ batch[c][k].at = "posted"
    /\ Update(c, k, [batch[c][k] EXCEPT !.at = "lost"])

\* A row that is no object, or whose embedding is null: AttributeError, TypeError.
AnswerBroken(c, k) ==
    /\ batch[c][k].at = "posted"
    /\ Update(c, k, [batch[c][k] EXCEPT !.at = "broken"])

AnswerVectors(c, k) ==
    /\ batch[c][k].at = "posted"
    /\ \E rows \in Answers(batch[c][k].pictures) :
          Update(c, k, [batch[c][k] EXCEPT !.at = "done", !.vectors = ByIndex(rows)])

-----------------------------------------------------------------------------
(* The caller reads the results of pool.map in order                       *)

FirstFailure(c, k) ==
    /\ batch[c][k].at \in {"lost", "broken"}
    /\ \A j \in 1 .. k - 1 : batch[c][j].at = "done"

(* It meets an exception: batches no thread has taken are cancelled, and   *)
(* the with-block waits for the others.                                    *)
Abandon(c) ==
    /\ call[c].phase = "running"
    /\ \E k \in DOMAIN batch[c] : FirstFailure(c, k)
    /\ call' = [call EXCEPT ![c].phase = "draining"]
    /\ batch' = [batch EXCEPT ![c] =
          [k \in DOMAIN batch[c] |->
              IF batch[c][k].at = "queued" THEN [batch[c][k] EXCEPT !.at = "cancelled"] ELSE batch[c][k]]]

\* Bug: the exception leaves before the pool has shut down.
RaiseAtOnce(c) ==
    /\ call[c].phase = "draining"
    /\ \E k \in DOMAIN batch[c] :
          /\ FirstFailure(c, k)
          /\ call' = [call EXCEPT ![c].phase = IF batch[c][k].at = "lost" THEN "raised" ELSE "escaped"]
    /\ UNCHANGED batch

\* Then the exception leaves embed_images: an EmbeddingError, or another one.
Raise(c) ==
    /\ call[c].phase = "draining" /\ Busy(c) = {}
    /\ \E k \in DOMAIN batch[c] :
          /\ FirstFailure(c, k)
          /\ call' = [call EXCEPT ![c].phase = IF batch[c][k].at = "lost" THEN "raised" ELSE "escaped"]
    /\ UNCHANGED batch

Return(c) ==
    /\ call[c].phase = "running"
    /\ \A k \in DOMAIN batch[c] : batch[c][k].at = "done"
    /\ call' = [call EXCEPT ![c].phase = "returned",
                            ![c].vectors = FlattenSeq([k \in DOMAIN batch[c] |-> batch[c][k].vectors])]
    /\ UNCHANGED batch

\* The caller goes on with what it was given, and may call again.
Resume(c) ==
    /\ call[c].phase \in {"returned", "raised", "escaped"}
    /\ call' = [call EXCEPT ![c] = NoCall]
    /\ batch' = [batch EXCEPT ![c] = <<>>]

-----------------------------------------------------------------------------
Batch(c, k) ==
    \/ Pickup(c, k)
    \/ AnswerBusy(c, k)
    \/ Wake(c, k)
    \/ AnswerLost(c, k)
    \/ AnswerBroken(c, k)
    \/ AnswerVectors(c, k)

\* The call goes on.
Work(c) ==
    \/ \E k \in DOMAIN batch[c] : Batch(c, k)
    \/ Abandon(c)
    \/ Raise(c)
    \/ Return(c)

Next == \E c \in Callers : Start(c) \/ Work(c) \/ Resume(c)

Spec == Init /\ [][Next]_vars

-----------------------------------------------------------------------------
(* Properties                                                              *)

(* Whatever order batches finish in and rows arrive in, a call that        *)
(* returns has one vector per picture, at the picture's place: callers zip *)
(* pictures and vectors together.                                          *)
VectorsFollowPictures ==
    \A c \in Callers :
        call[c].phase = "returned" => call[c].vectors = UpTo(call[c].n)

(* No request of a call is still in flight, or about to be retried, once   *)
(* the call has ended: a caller that degrades does not load the shared     *)
(* backend behind its own back.                                            *)
NothingLeftRunning ==
    \A c \in Callers : call[c].phase \in {"returned", "raised", "escaped"} => Busy(c) = {}

(* A call never waits for ever on a busy backend: it ends.                 *)
EveryCallEnds ==
    \A c \in Callers : call[c].phase = "running" ~> call[c].phase \in {"returned", "raised", "escaped"}

=============================================================================
