------------------------------- MODULE Service -------------------------------
(***************************************************************************)
(* Requests and catalog pictures (module Request) with the embedding       *)
(* client they call (EmbeddingClient): the stage "embed" lasts as long as  *)
(* embed_images runs, and what image_service._embed makes of its end is    *)
(* the request's next step.  Everything else leaves the client alone.      *)
(***************************************************************************)
EXTENDS Request, Transport

VARIABLES call, batch  \* see EmbeddingClient

serviceVars == <<vars, call, batch>>

\* Requests are taken one after another, so one thread calls.
Thread == "thread"

Client == INSTANCE EmbeddingClient WITH Callers <- {Thread}

ServiceInit == Init /\ Client!Init

\* _embed: all pictures of the task, or the one of a query, in one call.
CallClient ==
    /\ phase = "embed"
    /\ Client!Start(Thread) /\ call'[Thread].n = request.pictures
    /\ UNCHANGED vars

Embedding ==
    /\ phase = "embed"
    /\ Client!Work(Thread)
    /\ UNCHANGED vars

\* embed_images has returned, or raised EmbeddingError, or something else.
Resume ==
    /\ \/ call[Thread].phase = "returned" /\ Embedded
       \/ call[Thread].phase = "raised" /\ Degraded
       \/ call[Thread].phase = "escaped" /\ EmbeddingBreaks
    /\ Client!Resume(Thread)

Elsewhere ==
    /\ Arrive \/ View \/ Fetch \/ Decode \/ Forget \/ \E b \in Buckets : Expire(b)
    /\ UNCHANGED <<call, batch>>

ServiceNext == CallClient \/ Embedding \/ Resume \/ Elsewhere

ServiceSpec == ServiceInit /\ [][ServiceNext]_serviceVars

(* A request under way goes on: every wait in it, for a hop, a chunk or a  *)
(* post, has a timeout, sleeps end, and the threads of a pool run.         *)
FairService ==
    /\ ServiceSpec
    /\ WF_serviceVars(View /\ UNCHANGED <<call, batch>>)
    /\ WF_serviceVars(Fetch /\ UNCHANGED <<call, batch>>)
    /\ WF_serviceVars(Decode /\ UNCHANGED <<call, batch>>)
    /\ WF_serviceVars(CallClient \/ Embedding)
    /\ WF_serviceVars(Resume)

-----------------------------------------------------------------------------
(* Properties                                                              *)

(* Whatever order batches finish in and rows arrive in, a call that        *)
(* returns has one vector per picture, at the picture's place: _apply zips *)
(* rows and vectors together.                                              *)
VectorsFollowPictures == Client!VectorsFollowPictures

(* Once a call has ended, however it ended, no post of it is in flight or  *)
(* about to be retried: a request that degrades does not load the shared   *)
(* backend behind its own back.                                            *)
NothingLeftRunning == Client!NothingLeftRunning

\* No call waits for ever on a busy backend: its tries are bounded, and it ends.
EveryCallEnds == Client!EveryCallEnds

=============================================================================
