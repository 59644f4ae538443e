------------------------------- MODULE Indexing -------------------------------
(***************************************************************************)
(* The whole write side: the chain of module Freshness, from a catalog     *)
(* change to the text columns of its row, and the chain of ImageLayer,     *)
(* from the row to its image columns, over one catalog and one table.      *)
(* They meet in three places: an item's picture changes with its item, the *)
(* writes of the text chain create and delete the rows whose columns the   *)
(* image chain fills, and a refresh task that ends publishes the image     *)
(* task of the rows it rebuilt.  The operator's text commands stay out: no *)
(* `job` runs here.                                                        *)
(***************************************************************************)
EXTENDS Naturals, FiniteSets, Functions

CONSTANTS
    Refs, NoRef, Nothing,
    TextWorkers, ImageWorkers,  \* processes consuming the two kinds of task
    RawRefs, MaxChanges,                                   \* of Freshness
    Pictures, Unusable, Models, NullModel, ImageBatch, MaxRuns  \* of ImageLayer

VARIABLES
    ver, live, draft, hooks, due, queue, task, row, job,
    basis, adrift, unchecked, unclaimed,
    pic, pver, table, pictureQueue, imageTask, model, runs,
    pks,          \* rows created per ref: the primary key
    settledAt,
    unseen        \* history: refs whose picture went missing on the way

textVars == <<ver, live, draft, hooks, due, queue, task, row, job, basis, adrift, unclaimed>>
pictureVars == <<pic, pver>>
imageVars == <<table, pictureQueue, imageTask, model, runs, pks, settledAt, unseen>>
vars == <<textVars, unchecked, pictureVars, imageVars>>

\* Refs named by a published embed_fingerprint_images.
AwaitingImages == {r \in Refs : \E m \in (SUBSET Refs) \ {{}} : r \in m /\ pictureQueue[m] > 0}

Text == INSTANCE Freshness WITH
    Workers <- TextWorkers, Modes <- {}, Batch <- 1, ImagesOn <- TRUE, imageQueue <- AwaitingImages

Images == INSTANCE ImageLayer WITH
    Workers <- ImageWorkers, MaxPk <- 0, refreshOwed <- {},
    queue <- pictureQueue, task <- imageTask, adrift <- unseen

ASSUME IndexingAssumption ==
    /\ NoRef \notin Refs /\ RawRefs \subseteq Refs
    /\ Unusable \subseteq Pictures /\ NullModel \in Models
    /\ Nothing \notin Pictures \cup Models /\ Nothing \notin Images!Vectors /\ Nothing \notin Images!Rows
    /\ ImageBatch \in Nat \ {0} /\ MaxChanges \in Nat /\ MaxRuns \in Nat

Init ==
    /\ pictureQueue = [m \in Images!Messages |-> 0]
    /\ Text!Init
    /\ pic \in [Refs -> Pictures \cup {Nothing}] /\ \A r \in Refs : ~live[r] => pic[r] = Nothing
    /\ pver = [r \in Refs |-> 0]
    /\ table = Images!NoneOf
    /\ imageTask = [w \in ImageWorkers |-> Images!IdleTask]
    /\ \E m \in Models : model = [w \in ImageWorkers |-> m]
    /\ runs = 0
    /\ pks = [r \in Refs |-> 0] /\ settledAt = [r \in Refs |-> 0]
    /\ unseen = {}

-----------------------------------------------------------------------------
(* Where the chains meet                                                   *)

\* What the text chain loses is lost to the picture as well.
Lost(S) == unseen' = unseen \cup S

\* An item that changes may change its picture; one that goes takes it along.
PicturesFollow ==
    /\ \E p \in [{r \in Refs : ver'[r] # ver[r] /\ live'[r]} -> Pictures \cup {Nothing}] :
          pic' = [r \in Refs |-> IF r \in DOMAIN p THEN p[r] ELSE IF live'[r] THEN pic[r] ELSE Nothing]
    /\ pver' = [r \in Refs |-> IF pic'[r] # pic[r] THEN pver[r] + 1 ELSE pver[r]]

\* Rows the text chain inserts start with NULL image columns, rows it updates keep theirs.
RowsFollow ==
    LET inserted == {r \in Refs : row[r] = 0 /\ row'[r] # 0} IN
    /\ pks' = [r \in Refs |-> IF r \in inserted THEN pks[r] + 1 ELSE pks[r]]
    /\ table' = [r \in Refs |->
          CASE row'[r] = 0 -> Nothing
            [] r \in inserted -> [pk |-> pks'[r], hash |-> Nothing, vec |-> Nothing, stamp |-> Nothing]
            [] OTHER -> table[r]]
    /\ settledAt' = [r \in Refs |-> IF r \in inserted THEN 0 ELSE settledAt[r]]

-----------------------------------------------------------------------------
(* The text chain                                                          *)

NothingFollows == UNCHANGED <<pictureVars, imageVars>>

\* A change of the catalog; who is not told of it does not see its picture.
ChangeCatalog(untold) ==
    /\ PicturesFollow /\ Lost(untold)
    /\ UNCHANGED <<table, imageTask, model, runs, pks, settledAt>>

Host ==
    /\ UNCHANGED pictureQueue
    /\ \/ \E r \in Refs :
             \/ Text!Save(r) /\ NothingFollows
             \/ Text!RawSave(r) /\ ChangeCatalog({r})
       \/ \E S \in Text!Messages :
             \/ (Text!Commit(S) \/ Text!BulkWrite(S)) /\ ChangeCatalog({})
             \/ Text!Rollback(S) /\ NothingFollows

Publish == \E m \in Text!Messages : NothingFollows /\ Text!Publish(m)

PublishFails ==
    \E m \in Text!Messages :
        /\ UNCHANGED <<pictureVars, table, pictureQueue, imageTask, model, runs, pks, settledAt>>
        /\ Text!PublishFails(m) /\ Lost(m)

TakeText(w) == NothingFollows /\ Text!Take(w)

ReadItem(w) == NothingFollows /\ \E r \in Refs : Text!ReadItem(w, r)

WriteRow(w) ==
    /\ UNCHANGED <<pictureVars, pictureQueue, imageTask, model, runs, unseen>>
    /\ Text!WriteRow(w) /\ RowsFollow

\* Bug: a refresh of several refs publishes the images of one.
FinishTextWithOne(w) ==
    LET rebuilt == task[w].rebuilt IN
    /\ \E r \in Refs : pictureQueue' = IF rebuilt = {} THEN pictureQueue ELSE [pictureQueue EXCEPT ![{r}] = @ + 1]
    /\ task[w].phase = "loop" /\ task[w].todo = {}
    /\ task' = [task EXCEPT ![w] = Text!IdleTask]
    /\ UNCHANGED <<pictureVars, table, imageTask, model, runs, pks, settledAt, unseen>>
    /\ UNCHANGED <<ver, live, draft, hooks, due, queue, row, job, basis, adrift, unchecked, unclaimed>>

\* The refs rebuilt are published together.
FinishText(w) ==
    LET rebuilt == task[w].rebuilt IN
    /\ pictureQueue' = IF rebuilt = {} THEN pictureQueue ELSE [pictureQueue EXCEPT ![rebuilt] = @ + 1]
    /\ Text!Finish(w)
    /\ UNCHANGED <<pictureVars, table, imageTask, model, runs, pks, settledAt, unseen>>

CrashText(w) ==
    /\ UNCHANGED <<pictureVars, table, pictureQueue, imageTask, model, runs, pks, settledAt>>
    /\ Text!Crash(w) /\ Lost(task[w].todo \cup task[w].rebuilt \cup ({task[w].ref} \ {NoRef}))

-----------------------------------------------------------------------------
(* The image chain                                                         *)

OnlyImages == UNCHANGED <<textVars, unchecked>>

BackfillImages == OnlyImages /\ Images!EnqueueImages

\* A ref on its way to be checked is no longer owed to the queue.
TakeImages(w) ==
    /\ UNCHANGED textVars
    /\ Images!Take(w)
    /\ unchecked' = unchecked \ {r \in Refs : \E m \in Images!Messages : r \in m /\ pictureQueue'[m] < pictureQueue[m]}

PrepareImages(w) ==
    OnlyImages /\ \E r \in Refs : Images!NoPicture(w, r) \/ Images!Skip(w, r) \/ Images!Prepare(w, r)

StoreImages(w) == OnlyImages /\ (Images!Store(w) \/ Images!NothingNew(w))

ImageTrouble(w) ==
    OnlyImages /\ (Images!Crash(w) \/ Images!Reconfigure(w) \/ \E r \in Refs : Images!FetchFails(w, r))

-----------------------------------------------------------------------------
TextWorker(w) == TakeText(w) \/ ReadItem(w) \/ WriteRow(w) \/ FinishText(w) \/ CrashText(w)
ImageWorker(w) == TakeImages(w) \/ PrepareImages(w) \/ StoreImages(w) \/ ImageTrouble(w)

Next ==
    \/ Host \/ Publish \/ PublishFails
    \/ \E w \in TextWorkers : TextWorker(w)
    \/ BackfillImages
    \/ \E w \in ImageWorkers : ImageWorker(w)

Spec == Init /\ [][Next]_vars

(* A released callback runs (it is the rest of the commit), and workers of *)
(* both kinds keep consuming their queue and executing their task.  Nobody *)
(* is obliged to save, to commit, to crash or to start anything, and a     *)
(* fetch may fail.                                                         *)
Fairness ==
    /\ WF_vars(Publish)
    /\ \A w \in TextWorkers :
          WF_vars(TakeText(w)) /\ WF_vars(ReadItem(w)) /\ WF_vars(WriteRow(w)) /\ WF_vars(FinishText(w))
    /\ \A w \in ImageWorkers :
          WF_vars(TakeImages(w)) /\ WF_vars(PrepareImages(w)) /\ WF_vars(StoreImages(w))

FairSpec == Spec /\ Fairness

-----------------------------------------------------------------------------
(* Properties                                                              *)

Hashed(r) == Images!Hashed(r)

\* Somewhere between the catalog and the image columns, somebody is on r's picture.
PictureOwed(r) ==
    \/ Text!Owed(r)
    \/ \E w \in TextWorkers : r \in task[w].rebuilt \/ (task[w].ref = r /\ task[w].found)
    \/ Images!Announced(r) \/ Images!InHand(r)

(* Nowhere along the two chains is a picture forgotten: a row that is not  *)
(* hashed from its item's picture has a refresh, a publish or an image     *)
(* task under way, or was hit by an event that unseen names.               *)
PicturesAreOwed == \A r \in Refs : Hashed(r) \/ PictureOwed(r) \/ r \in unseen

(* From the save of an item to its row: a stale row becomes fresh again,   *)
(* unless its refresh went missing.                                        *)
EventuallyFresh == Text!EventuallyFresh

(* From the save of an item to its image columns, through both queues: a   *)
(* picture that changed is hashed in the end, unless it went missing.      *)
EventuallyHashed == \A r \in Refs : ~Hashed(r) ~> (Hashed(r) \/ r \in unseen)

=============================================================================
