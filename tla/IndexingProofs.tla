---------------------------- MODULE IndexingProofs ----------------------------
(***************************************************************************)
(* Theorems about Indexing, for any number of refs, workers, pictures and  *)
(* models: what holds of each chain alone, and their hand-overs.  What is  *)
(* proved of Freshness and of ImageLayer is used here, instantiated as     *)
(* Indexing instantiates the two.                                          *)
(***************************************************************************)
EXTENDS Indexing, TLAPS

TextFacts == INSTANCE FreshnessProofs WITH
    Workers <- TextWorkers, Modes <- {}, Batch <- 1, ImagesOn <- TRUE, imageQueue <- AwaitingImages

ImageFacts == INSTANCE ImageLayerProofs WITH
    Workers <- ImageWorkers, MaxPk <- 0, refreshOwed <- {},
    queue <- pictureQueue, task <- imageTask, adrift <- unseen

-----------------------------------------------------------------------------
(* The invariant                                                           *)

\* The two chains describe one table and one catalog.
OneTable ==
    /\ \A r \in Refs : row[r] = 0 <=> table[r] = Nothing
    /\ \A r \in Refs : ~live[r] => pic[r] = Nothing

(* The text chain has yet to hand r to the image chain: a refresh of it is *)
(* announced, or a task will read it, is about to write its row, or has    *)
(* written it and not published its images.                                *)
HasText(w, r) ==
    \/ r \in task[w].todo \cup task[w].rebuilt
    \/ task[w].ref = r /\ (task[w].found \/ task[w].got = ver[r])

TextOwes(r) == TextFacts!Announced(r) \/ \E w \in TextWorkers : HasText(w, r)

\* A picture is settled by the image chain, in its hands, or still in those of the text chain.
PictureSeenTo(r) == ImageFacts!SeenTo(r) \/ TextOwes(r)

\* What each chain keeps for itself.
TextInv == TextFacts!FreshnessInv /\ TextFacts!HandedOverInv
ImageInv == ImageFacts!TypeOK /\ ImageFacts!HeldInv /\ ImageFacts!StampInv /\ ImageFacts!VersionsInv

IndexingInv == TextInv /\ ImageInv /\ OneTable /\ \A r \in Refs : PictureSeenTo(r)

-----------------------------------------------------------------------------
(* The instances                                                           *)

\* The assumptions of Freshness and of ImageLayer hold of their instances.
LEMMA TextAssumption == TextFacts!FreshnessAssumption
  BY IndexingAssumption DEF TextFacts!AllModes

\* The image chain's instance has its assumption too.
LEMMA ImageAssumption == ImageFacts!ImageLayerAssumption
  BY IndexingAssumption DEF Images!Vectors, Images!Rows, ImageFacts!Vectors, ImageFacts!Rows

\* Both instances of Freshness count and sum alike.
LEMMA TextCounts ==
  /\ Text!SumFunction(ver) = TextFacts!SumFunction(ver)
  /\ \A S : Text!Cardinality(S) = TextFacts!Cardinality(S)
<1>1. Text!SumFunction(ver) = TextFacts!SumFunction(ver)
  BY DEF Text!SumFunction, Text!SumFunctionOnSet, Text!FoldFunctionOnSet, Text!MapThenFoldSet,
         TextFacts!SumFunction, TextFacts!SumFunctionOnSet, TextFacts!FoldFunctionOnSet, TextFacts!MapThenFoldSet
<1>2. ASSUME NEW S PROVE Text!Cardinality(S) = TextFacts!Cardinality(S)
  BY DEF Text!Cardinality, TextFacts!Cardinality
<1> QED
  BY <1>1, <1>2

\* The host's steps are the same in both instances of Freshness ...
LEMMA SameHost ==
  /\ Text!Messages = TextFacts!Messages
  /\ \A r \in Refs : (Text!Save(r) <=> TextFacts!Save(r)) /\ (Text!RawSave(r) <=> TextFacts!RawSave(r))
  /\ \A S \in Text!Messages :
        /\ Text!Commit(S) <=> TextFacts!Commit(S)
        /\ Text!Rollback(S) <=> TextFacts!Rollback(S)
        /\ Text!BulkWrite(S) <=> TextFacts!BulkWrite(S)
        /\ Text!Publish(S) <=> TextFacts!Publish(S)
        /\ Text!PublishFails(S) <=> TextFacts!PublishFails(S)
<1> USE DEF Text!catalogVars, Text!queueVars, Text!tableVars, Text!NotedBy,
            TextFacts!catalogVars, TextFacts!queueVars, TextFacts!tableVars, TextFacts!NotedBy
<1>1. \A n : Text!WithinBound(n) <=> TextFacts!WithinBound(n)
  BY TextCounts DEF Text!WithinBound, TextFacts!WithinBound
<1>2. Text!Messages = TextFacts!Messages
  BY DEF Text!Messages, TextFacts!Messages
<1>3. ASSUME NEW r \in Refs
      PROVE  (Text!Save(r) <=> TextFacts!Save(r)) /\ (Text!RawSave(r) <=> TextFacts!RawSave(r))
  BY <1>1 DEF Text!Save, TextFacts!Save, Text!RawSave, TextFacts!RawSave
<1>4. ASSUME NEW S \in Text!Messages
      PROVE  /\ Text!Commit(S) <=> TextFacts!Commit(S)
             /\ Text!Rollback(S) <=> TextFacts!Rollback(S)
  <2>1. Text!Commit(S) <=> TextFacts!Commit(S)
    BY <1>2, Zenon DEF Text!Commit, TextFacts!Commit
  <2>2. Text!Rollback(S) <=> TextFacts!Rollback(S)
    BY DEF Text!Rollback, TextFacts!Rollback
  <2> QED
    BY <2>1, <2>2
<1>5. ASSUME NEW S \in Text!Messages PROVE Text!BulkWrite(S) <=> TextFacts!BulkWrite(S)
  BY <1>1, <1>2, TextCounts DEF Text!BulkWrite, TextFacts!BulkWrite
<1>6. ASSUME NEW S \in Text!Messages
      PROVE  /\ Text!Publish(S) <=> TextFacts!Publish(S)
             /\ Text!PublishFails(S) <=> TextFacts!PublishFails(S)
  BY DEF Text!Publish, TextFacts!Publish, Text!PublishFails, TextFacts!PublishFails
<1> QED
  BY <1>2, <1>3, <1>4, <1>5, <1>6

\* ... and so are the workers'.
LEMMA SameWorkers ==
  ASSUME NEW w \in TextWorkers
  PROVE  /\ Text!Take(w) <=> TextFacts!Take(w)
         /\ \A r \in Refs : Text!ReadItem(w, r) <=> TextFacts!ReadItem(w, r)
         /\ Text!WriteRow(w) <=> TextFacts!WriteRow(w)
         /\ Text!Finish(w) <=> TextFacts!Finish(w)
         /\ Text!Crash(w) <=> TextFacts!Crash(w)
<1> USE DEF Text!catalogVars, Text!queueVars, Text!tableVars, Text!NotedBy, Text!IdleTask, Text!Looping,
            TextFacts!catalogVars, TextFacts!queueVars, TextFacts!tableVars, TextFacts!NotedBy,
            TextFacts!IdleTask, TextFacts!Looping
<1>1. Text!Take(w) <=> TextFacts!Take(w)
  BY DEF Text!Take, TextFacts!Take, Text!Messages, TextFacts!Messages
<1>2. ASSUME NEW r \in Refs PROVE Text!ReadItem(w, r) <=> TextFacts!ReadItem(w, r)
  BY DEF Text!ReadItem, TextFacts!ReadItem, Text!Reading, TextFacts!Reading
<1>3. Text!WriteRow(w) <=> TextFacts!WriteRow(w)
  BY DEF Text!WriteRow, TextFacts!WriteRow, Text!AdriftAfter, TextFacts!AdriftAfter
<1>4. Text!Finish(w) <=> TextFacts!Finish(w)
  BY DEF Text!Finish, TextFacts!Finish
<1>5. Text!Crash(w) <=> TextFacts!Crash(w)
  BY DEF Text!Crash, TextFacts!Crash
<1> QED
  BY <1>1, <1>2, <1>3, <1>4, <1>5

\* The image chain's steps are ImageLayer's, and leave the text alone.
LEMMA ImageSteps ==
  ASSUME BackfillImages \/ \E w \in ImageWorkers : ImageWorker(w)
  PROVE  /\ UNCHANGED textVars
         /\ ImageFacts!EnqueueImages \/ \E w \in ImageWorkers : ImageFacts!Worker(w)
         /\ ImageFacts!Next
<1> USE DEF OnlyImages
<1>1. CASE BackfillImages
  <2>1. Images!EnqueueImages => ImageFacts!EnqueueImages
    BY Zenon DEF Images!EnqueueImages, ImageFacts!EnqueueImages, Images!Cardinality, ImageFacts!Cardinality,
                 Images!Messages, ImageFacts!Messages
  <2> QED
    BY <1>1, <2>1 DEF BackfillImages, ImageFacts!Next, ImageFacts!Environment
<1>2. ASSUME NEW w \in ImageWorkers, TakeImages(w) PROVE UNCHANGED textVars /\ ImageFacts!Worker(w)
  <2>1. ImageFacts!Take(w)
    BY <1>2 DEF TakeImages, Images!Take, ImageFacts!Take, Images!Messages, ImageFacts!Messages,
                Images!IdleTask, ImageFacts!IdleTask, Images!NoneOf, ImageFacts!NoneOf
  <2> QED
    BY <1>2, <2>1 DEF TakeImages, ImageFacts!Worker
<1>3. ASSUME NEW w \in ImageWorkers, PrepareImages(w) PROVE UNCHANGED textVars /\ ImageFacts!Worker(w)
  <2>1. PICK r \in Refs : Images!NoPicture(w, r) \/ Images!Skip(w, r) \/ Images!Prepare(w, r)
    BY <1>3 DEF PrepareImages
  <2>2. ImageFacts!NoPicture(w, r) \/ ImageFacts!Skip(w, r) \/ ImageFacts!Prepare(w, r)
    BY <2>1 DEF Images!NoPicture, ImageFacts!NoPicture, Images!Skip, ImageFacts!Skip,
                Images!Prepare, ImageFacts!Prepare, Images!Past, ImageFacts!Past
  <2> QED
    BY <1>3, <2>2 DEF PrepareImages, ImageFacts!Worker
<1>4. ASSUME NEW w \in ImageWorkers, StoreImages(w) PROVE UNCHANGED textVars /\ ImageFacts!Worker(w)
  <2>1. ImageFacts!Store(w) \/ ImageFacts!NothingNew(w)
    BY <1>4 DEF StoreImages, Images!Store, ImageFacts!Store, Images!NothingNew, ImageFacts!NothingNew,
                Images!Written, ImageFacts!Written, Images!Prepared, ImageFacts!Prepared,
                Images!Columns, ImageFacts!Columns, Images!IdleTask, ImageFacts!IdleTask,
                Images!NoneOf, ImageFacts!NoneOf
  <2> QED
    BY <1>4, <2>1 DEF StoreImages, ImageFacts!Worker
<1>5. ASSUME NEW w \in ImageWorkers, ImageTrouble(w) PROVE UNCHANGED textVars /\ ImageFacts!Worker(w)
  <2>1. ImageFacts!Crash(w) \/ ImageFacts!Reconfigure(w) \/ \E r \in Refs : ImageFacts!FetchFails(w, r)
    BY <1>5 DEF ImageTrouble, Images!Crash, ImageFacts!Crash, Images!Reconfigure, ImageFacts!Reconfigure,
                Images!FetchFails, ImageFacts!FetchFails, Images!Past, ImageFacts!Past,
                Images!Prepared, ImageFacts!Prepared, Images!IdleTask, ImageFacts!IdleTask,
                Images!NoneOf, ImageFacts!NoneOf
  <2> QED
    BY <1>5, <2>1 DEF ImageTrouble, ImageFacts!Worker
<1> QED
  BY <1>1, <1>2, <1>3, <1>4, <1>5 DEF ImageWorker, ImageFacts!Next

\* A text worker's step or the host's is one of Freshness.
LEMMA TextSteps ==
  ASSUME Host \/ Publish \/ PublishFails \/ \E w \in TextWorkers : TextWorker(w)
  PROVE  TextFacts!Next
<1>1. ASSUME Host PROVE TextFacts!Host
  BY <1>1, SameHost DEF Host, TextFacts!Host
<1>2. ASSUME Publish \/ PublishFails PROVE TextFacts!Host
  BY <1>2, SameHost DEF Publish, PublishFails, TextFacts!Host
<1>3. ASSUME NEW w \in TextWorkers, TextWorker(w) PROVE TextFacts!Worker(w)
  BY <1>3, SameWorkers DEF TextWorker, TakeText, ReadItem, WriteRow, FinishText, CrashText, TextFacts!Worker
<1> QED
  BY <1>1, <1>2, <1>3 DEF TextFacts!Next

-----------------------------------------------------------------------------
(* Steps of the image chain                                                *)

\* The types of the text chain depend on the image chain only by names of refs.
LEMMA ImagesKeepTypes ==
  ASSUME TextInv, UNCHANGED textVars, unchecked' \subseteq unchecked
  PROVE  TextFacts!FreshnessInv'
<1>1. TextFacts!TypeOK'
  BY DEF TextInv, TextFacts!FreshnessInv, TextFacts!TypeOK, textVars, AwaitingImages
<1> QED
  BY <1>1, TextAssumption, TextFacts!ImagesDoNotMatter DEF TextInv, textVars

(* A message taken takes its refs off the list of the unchecked; those it  *)
(* shares with other messages are still named by these.                    *)
LEMMA ImagesKeepText ==
  ASSUME IndexingInv, BackfillImages \/ \E w \in ImageWorkers : ImageWorker(w)
  PROVE  TextInv'
<1>1. /\ pictureQueue \in [ImageFacts!Messages -> Nat] /\ Images!Messages = ImageFacts!Messages
      /\ ImageFacts!Messages = (SUBSET Refs) \ {{}}
  BY DEF IndexingInv, ImageInv, ImageFacts!TypeOK, Images!Messages, ImageFacts!Messages
<1>2. TextInv /\ UNCHANGED textVars
  BY ImageSteps DEF IndexingInv
<1>3. ASSUME unchecked' \subseteq unchecked, \A r \in unchecked' : r \in AwaitingImages => r \in AwaitingImages'
      PROVE  TextInv'
  <2>1. TextFacts!HandedOverInv'
    BY <1>2, <1>3 DEF TextInv, TextFacts!HandedOverInv, TextFacts!RebuiltIsHandedOver, textVars
  <2> QED
    BY <1>2, <1>3, <2>1, ImagesKeepTypes DEF TextInv
<1>4. CASE BackfillImages
  <2>1. UNCHANGED unchecked /\ Images!EnqueueImages
    BY <1>4 DEF BackfillImages, OnlyImages
  <2>2. PICK P : pictureQueue' = [m \in Images!Messages |-> IF m \in P THEN pictureQueue[m] + 1 ELSE pictureQueue[m]]
    <3>1. \E P \in SUBSET (SUBSET {r \in Refs : table[r] # Nothing} \ {{}}) :
             pictureQueue' = [m \in Images!Messages |-> IF m \in P THEN pictureQueue[m] + 1 ELSE pictureQueue[m]]
      BY <2>1, Zenon DEF Images!EnqueueImages
    <3> QED
      BY <3>1, Zenon
  <2>3. \A m \in Images!Messages : pictureQueue[m] > 0 => pictureQueue'[m] > 0
    BY <1>1, <2>2
  <2> QED
    BY <1>1, <1>3, <2>1, <2>3 DEF AwaitingImages
<1>5. ASSUME NEW w \in ImageWorkers, TakeImages(w) PROVE TextInv'
  <2>1. PICK m \in Images!Messages : pictureQueue[m] > 0 /\ pictureQueue' = [pictureQueue EXCEPT ![m] = @ - 1]
    BY <1>5 DEF TakeImages, Images!Take
  <2>2. \A n \in Images!Messages : pictureQueue'[n] = IF n = m THEN pictureQueue[n] - 1 ELSE pictureQueue[n]
    BY <1>1, <2>1
  <2>3. pictureQueue'[m] < pictureQueue[m]
    BY <1>1, <2>1, <2>2
  <2>4. unchecked' \subseteq unchecked \ m
    BY <1>1, <1>5, <2>3 DEF TakeImages
  <2>5. ASSUME NEW r \in unchecked', r \in AwaitingImages PROVE r \in AwaitingImages'
    <3>1. PICK n \in Images!Messages : r \in n /\ pictureQueue[n] > 0 /\ r \in Refs
      BY <1>1, <2>5 DEF AwaitingImages
    <3>2. n # m
      BY <2>4, <2>5, <3>1
    <3> QED
      BY <1>1, <2>2, <3>1, <3>2 DEF AwaitingImages
  <2> QED
    BY <1>3, <2>4, <2>5
<1>6. ASSUME NEW w \in ImageWorkers, PrepareImages(w) \/ StoreImages(w) \/ ImageTrouble(w) PROVE TextInv'
  <2>1. UNCHANGED unchecked /\ pictureQueue' = pictureQueue
    BY <1>6 DEF PrepareImages, StoreImages, ImageTrouble, OnlyImages, Images!NoPicture, Images!Skip, Images!Prepare,
                Images!Store, Images!NothingNew, Images!Crash, Images!Reconfigure, Images!FetchFails
  <2> QED
    BY <1>3, <2>1 DEF AwaitingImages
<1> QED
  BY <1>4, <1>5, <1>6 DEF ImageWorker

\* Tasks write rows that are there, and no image task touches the catalog.
LEMMA ImagesKeepTable ==
  ASSUME ImageInv, OneTable, UNCHANGED textVars,
         ImageFacts!EnqueueImages \/ \E w \in ImageWorkers : ImageFacts!Worker(w)
  PROVE  OneTable'
<1>1. UNCHANGED <<row, live>> /\ table \in [Refs -> ImageFacts!Rows \cup {Nothing}]
  BY DEF textVars, ImageInv, ImageFacts!TypeOK
<1>2. UNCHANGED <<pic, table>> => OneTable'
  BY <1>1 DEF OneTable
<1>3. ASSUME NEW w \in ImageWorkers, ImageFacts!Store(w) PROVE OneTable'
  <2>1. PICK answered \in BOOLEAN :
           table' = [r \in Refs |-> IF r \in ImageFacts!Written(w) THEN ImageFacts!Columns(w, r, answered) ELSE table[r]]
    BY <1>3 DEF ImageFacts!Store
  <2>2. ASSUME NEW r \in Refs, r \in ImageFacts!Written(w)
        PROVE  table[r] # Nothing /\ ImageFacts!Columns(w, r, answered) # Nothing
    <3>1. r \in ImageFacts!Prepared(w) /\ table[r] # Nothing
      BY <2>2 DEF ImageFacts!Written
    <3>2. ImageFacts!Columns(w, r, answered) \in ImageFacts!Rows
      BY <3>1, ImageAssumption, ImageFacts!ColumnsAreRows DEF ImageInv
    <3> QED
      BY <3>1, <3>2, ImageAssumption
  <2>3. pic' = pic
    BY <1>3 DEF ImageFacts!Store
  <2> QED
    BY <1>1, <2>1, <2>2, <2>3 DEF OneTable
<1> QED
  BY <1>2, <1>3 DEF ImageFacts!EnqueueImages, ImageFacts!Worker, ImageFacts!Take, ImageFacts!NoPicture,
                    ImageFacts!FetchFails, ImageFacts!Skip, ImageFacts!Prepare, ImageFacts!NothingNew,
                    ImageFacts!Crash, ImageFacts!Reconfigure

\* What the text chain owes, no step of the image chain takes from it.
LEMMA ImagesKeepDebts == ASSUME UNCHANGED textVars, NEW r, TextOwes(r) PROVE TextOwes(r)'
  BY DEF textVars, TextOwes, HasText, TextFacts!Announced, TextFacts!Messages

\* A step of the image chain, or of its backend and its operator, keeps the invariant of both chains.
LEMMA ImageStepsKeep ==
  ASSUME IndexingInv, BackfillImages \/ \E w \in ImageWorkers : ImageWorker(w)
  PROVE  IndexingInv'
<1>1. /\ UNCHANGED textVars
      /\ ImageFacts!EnqueueImages \/ \E w \in ImageWorkers : ImageFacts!Worker(w)
      /\ ImageFacts!Next
  BY ImageSteps
<1>2. TextInv'
  BY ImagesKeepText
<1>3. ImageFacts!TypeOK /\ ImageFacts!HeldInv /\ ImageFacts!StampInv /\ ImageFacts!VersionsInv
  BY DEF IndexingInv, ImageInv
<1>4. ImageInv'
  BY <1>1, <1>3, ImageAssumption, ImageFacts!TypeNext, ImageFacts!StampNext, ImageFacts!VersionsNext DEF ImageInv
<1>5. OneTable'
  BY <1>1, ImagesKeepTable DEF IndexingInv
<1>6. ASSUME NEW r \in Refs PROVE PictureSeenTo(r)'
  <2>1. CASE ImageFacts!SeenTo(r)
    BY <1>1, <1>3, <2>1, ImageAssumption, ImageFacts!RefSettles DEF PictureSeenTo
  <2>2. CASE TextOwes(r)
    BY <1>1, <2>2, ImagesKeepDebts DEF PictureSeenTo
  <2> QED
    BY <2>1, <2>2 DEF IndexingInv, PictureSeenTo
<1> QED
  BY <1>2, <1>4, <1>5, <1>6 DEF IndexingInv

-----------------------------------------------------------------------------
(* Steps of the text chain                                                 *)

\* What a step of the text chain that leaves the image chain alone keeps.
LEMMA NothingFollowsKeeps ==
  ASSUME ImageInv, NothingFollows
  PROVE  ImageInv' /\ \A r \in Refs : ImageFacts!SeenTo(r) => ImageFacts!SeenTo(r)'
<1> USE DEF NothingFollows, pictureVars, imageVars
<1>1. ImageFacts!TypeOK' /\ ImageFacts!HeldInv'
  BY DEF ImageInv, ImageFacts!TypeOK, ImageFacts!HeldInv, ImageFacts!Prepared
<1>2. ImageFacts!StampInv' /\ ImageFacts!VersionsInv'
  BY DEF ImageInv, ImageFacts!StampInv, ImageFacts!Stamped, ImageFacts!VersionsInv
<1>3. \A r \in Refs : ImageFacts!SeenTo(r) => ImageFacts!SeenTo(r)'
  BY DEF ImageFacts!SeenTo, ImageFacts!Settled, ImageFacts!Announced, ImageFacts!WillWrite, ImageFacts!Writes
<1> QED
  BY <1>1, <1>2, <1>3 DEF ImageInv

\* Refs the catalog leaves alone keep their picture; a new picture has a new version.
LEMMA PicturesOfTheRest ==
  ASSUME ImageInv, OneTable, PicturesFollow, live' \in [Refs -> BOOLEAN]
  PROVE  /\ pic' \in [Refs -> Pictures \cup {Nothing}] /\ pver' \in [Refs -> Nat]
         /\ \A r \in Refs : ver'[r] = ver[r] /\ live'[r] = live[r] => pic'[r] = pic[r]
         /\ \A r \in Refs : ~live'[r] => pic'[r] = Nothing
         /\ \A r \in Refs : pver'[r] = IF pic'[r] # pic[r] THEN pver[r] + 1 ELSE pver[r]
<1>1. pic \in [Refs -> Pictures \cup {Nothing}] /\ pver \in [Refs -> Nat]
  BY DEF ImageInv, ImageFacts!TypeOK
<1>2. PICK p \in [{r \in Refs : ver'[r] # ver[r] /\ live'[r]} -> Pictures \cup {Nothing}] :
         pic' = [r \in Refs |-> IF r \in DOMAIN p THEN p[r] ELSE IF live'[r] THEN pic[r] ELSE Nothing]
  BY DEF PicturesFollow
<1>3. \A r \in Refs : /\ pic'[r] \in Pictures \cup {Nothing}
                      /\ ver'[r] = ver[r] /\ live'[r] => pic'[r] = pic[r]
                      /\ ~live'[r] => pic'[r] = Nothing
  BY <1>1, <1>2
<1>4. pver' = [r \in Refs |-> IF pic'[r] # pic[r] THEN pver[r] + 1 ELSE pver[r]]
  BY DEF PicturesFollow
<1> QED
  BY <1>1, <1>2, <1>3, <1>4 DEF OneTable

\* Versions keep what was prepared apart from what is served.
LEMMA CatalogKeepsImages ==
  ASSUME ImageInv, OneTable, PicturesFollow, live' \in [Refs -> BOOLEAN], unseen' \subseteq Refs,
         unseen \subseteq unseen',
         UNCHANGED <<row, table, pictureQueue, imageTask, model, runs, pks, settledAt>>
  PROVE  /\ ImageInv' /\ OneTable'
         /\ \A r \in Refs : ver'[r] = ver[r] /\ live'[r] = live[r] /\ ImageFacts!SeenTo(r) => ImageFacts!SeenTo(r)'
<1>1. /\ pic' \in [Refs -> Pictures \cup {Nothing}] /\ pver' \in [Refs -> Nat]
      /\ \A r \in Refs : ver'[r] = ver[r] /\ live'[r] = live[r] => pic'[r] = pic[r]
      /\ \A r \in Refs : ~live'[r] => pic'[r] = Nothing
      /\ \A r \in Refs : pver'[r] = IF pic'[r] # pic[r] THEN pver[r] + 1 ELSE pver[r]
  BY PicturesOfTheRest
<1>2. ImageFacts!TypeOK'
  BY <1>1 DEF ImageInv, ImageFacts!TypeOK
<1>3. ImageFacts!HeldInv' /\ ImageFacts!StampInv'
  BY DEF ImageInv, ImageFacts!HeldInv, ImageFacts!Prepared, ImageFacts!StampInv, ImageFacts!Stamped
<1>4. ImageFacts!VersionsInv'
  <2> SUFFICES ASSUME NEW r \in Refs
               PROVE  /\ settledAt[r] <= pver'[r]
                      /\ \A w \in ImageWorkers :
                            /\ imageTask[w].at[r] <= pver'[r]
                            /\ imageTask[w].prepared[r] # Nothing /\ imageTask[w].at[r] = pver'[r]
                                  => imageTask[w].prepared[r] = pic'[r]
    BY DEF ImageFacts!VersionsInv
  <2>1. pver[r] \in Nat /\ settledAt[r] \in Nat /\ settledAt[r] <= pver[r]
    BY DEF ImageInv, ImageFacts!TypeOK, ImageFacts!VersionsInv
  <2>2. ASSUME NEW w \in ImageWorkers
        PROVE  /\ imageTask[w].at[r] \in Nat /\ imageTask[w].at[r] <= pver[r]
               /\ imageTask[w].prepared[r] # Nothing /\ imageTask[w].at[r] = pver[r]
                     => imageTask[w].prepared[r] = pic[r]
    <3>1. imageTask[w].at \in [Refs -> Nat]
      BY ImageAssumption, ImageFacts!TaskFields DEF ImageInv, ImageFacts!TypeOK
    <3> QED
      BY <3>1 DEF ImageInv, ImageFacts!VersionsInv
  <2>3. pver'[r] = IF pic'[r] # pic[r] THEN pver[r] + 1 ELSE pver[r]
    BY <1>1
  <2> QED
    BY <2>1, <2>2, <2>3
<1>5. OneTable'
  BY <1>1 DEF OneTable
<1>6. ASSUME NEW r \in Refs, ver'[r] = ver[r], live'[r] = live[r], ImageFacts!SeenTo(r)
      PROVE  ImageFacts!SeenTo(r)'
  <2>1. pic'[r] = pic[r] /\ pver'[r] = pver[r]
    BY <1>1, <1>6
  <2> QED
    BY <1>6, <2>1 DEF ImageFacts!SeenTo, ImageFacts!Settled, ImageFacts!Announced, ImageFacts!WillWrite,
                      ImageFacts!Writes
<1> QED
  BY <1>2, <1>3, <1>4, <1>5, <1>6 DEF ImageInv

\* More refs that go unseen disturb nothing.
LEMMA UnseenGrows ==
  ASSUME ImageInv, OneTable, UNCHANGED <<live, row>>, unseen \subseteq unseen', unseen' \subseteq Refs,
         UNCHANGED <<pictureVars, table, pictureQueue, imageTask, model, runs, pks, settledAt>>
  PROVE  ImageInv' /\ OneTable' /\ \A r \in Refs : ImageFacts!SeenTo(r) => ImageFacts!SeenTo(r)'
<1> USE DEF pictureVars
<1>1. ImageFacts!TypeOK' /\ ImageFacts!HeldInv'
  BY DEF ImageInv, ImageFacts!TypeOK, ImageFacts!HeldInv, ImageFacts!Prepared
<1>2. ImageFacts!StampInv' /\ ImageFacts!VersionsInv'
  BY DEF ImageInv, ImageFacts!StampInv, ImageFacts!Stamped, ImageFacts!VersionsInv
<1>3. \A r \in Refs : ImageFacts!SeenTo(r) => ImageFacts!SeenTo(r)'
  BY DEF ImageFacts!SeenTo, ImageFacts!Settled, ImageFacts!Announced, ImageFacts!WillWrite, ImageFacts!Writes
<1>4. OneTable'
  BY DEF OneTable
<1> QED
  BY <1>1, <1>2, <1>3, <1>4 DEF ImageInv

\* A debt stays while its messages and its task do and its item does not change.
LEMMA DebtsStay ==
  ASSUME NEW r \in Refs, TextOwes(r), ver'[r] = ver[r], UNCHANGED task,
         \A m \in TextFacts!Messages :
            r \in m /\ (due[m] > 0 \/ queue[m] > 0) => due'[m] > 0 \/ queue'[m] > 0
  PROVE  TextOwes(r)'
<1>1. TextFacts!Announced(r) => TextFacts!Announced(r)'
  BY DEF TextFacts!Announced, TextFacts!Messages
<1>2. \A w \in TextWorkers : HasText(w, r) => HasText(w, r)'
  BY DEF HasText
<1> QED
  BY <1>1, <1>2 DEF TextOwes

\* Types of the text chain.
LEMMA TextTypes ==
  ASSUME TextInv
  PROVE  /\ ver \in [Refs -> Nat] /\ live \in [Refs -> BOOLEAN] /\ hooks \subseteq Refs
         /\ due \in [TextFacts!Messages -> Nat] /\ queue \in [TextFacts!Messages -> Nat]
         /\ task \in [TextWorkers -> TextFacts!TaskStates] /\ row \in [Refs -> Nat]
         /\ TextFacts!Messages = (SUBSET Refs) \ {{}} /\ Text!Messages = TextFacts!Messages
  BY SameHost DEF TextInv, TextFacts!FreshnessInv, TextFacts!TypeOK, TextFacts!Messages

\* Who is touched by a transaction, a bulk write or a fixture has a message or goes unseen.
LEMMA ChangesAreOwed ==
  ASSUME IndexingInv, NEW S \in SUBSET Refs, NEW U \in SUBSET S, ChangeCatalog(U),
         UNCHANGED <<row, pictureQueue, task, queue>>,
         live' \in [Refs -> BOOLEAN], \A r \in Refs \ S : ver'[r] = ver[r] /\ live'[r] = live[r],
         \A m \in TextFacts!Messages : due[m] > 0 => due'[m] > 0,
         \A r \in S \ U : TextFacts!Announced(r)'
  PROVE  ImageInv' /\ OneTable' /\ \A r \in Refs : PictureSeenTo(r)'
<1>1. /\ PicturesFollow /\ unseen' = unseen \cup U /\ unseen \subseteq Refs
      /\ UNCHANGED <<table, imageTask, model, runs, pks, settledAt>>
  BY DEF ChangeCatalog, Lost, IndexingInv, ImageInv, ImageFacts!TypeOK
<1>2. /\ ImageInv' /\ OneTable'
      /\ \A r \in Refs : ver'[r] = ver[r] /\ live'[r] = live[r] /\ ImageFacts!SeenTo(r) => ImageFacts!SeenTo(r)'
  BY <1>1, CatalogKeepsImages DEF IndexingInv
<1>3. ASSUME NEW r \in Refs PROVE PictureSeenTo(r)'
  <2>1. CASE r \in U
    BY <1>1, <2>1 DEF PictureSeenTo, ImageFacts!SeenTo
  <2>2. CASE r \in S \ U
    BY <2>2 DEF PictureSeenTo, TextOwes
  <2>3. CASE r \notin S /\ ImageFacts!SeenTo(r)
    BY <1>2, <2>3 DEF PictureSeenTo
  <2>4. CASE r \notin S /\ TextOwes(r)
    BY <2>4, DebtsStay DEF PictureSeenTo
  <2> QED
    BY <2>1, <2>2, <2>3, <2>4 DEF IndexingInv, PictureSeenTo
<1> QED
  BY <1>2, <1>3

\* A commit, a bulk write and a fixture load change items; a save and a rollback change nothing yet.
LEMMA HostKeeps ==
  ASSUME IndexingInv, Host
  PROVE  ImageInv' /\ OneTable' /\ \A r \in Refs : PictureSeenTo(r)'
<1>1. TextInv /\ ImageInv /\ OneTable /\ \A r \in Refs : PictureSeenTo(r)
  BY DEF IndexingInv
<1>2. /\ ver \in [Refs -> Nat] /\ live \in [Refs -> BOOLEAN] /\ hooks \subseteq Refs
      /\ due \in [TextFacts!Messages -> Nat] /\ queue \in [TextFacts!Messages -> Nat]
      /\ TextFacts!Messages = (SUBSET Refs) \ {{}} /\ Text!Messages = TextFacts!Messages
  BY <1>1, TextTypes
<1>3. ASSUME NothingFollows, UNCHANGED <<ver, live, row, due, queue, task>>
      PROVE  ImageInv' /\ OneTable' /\ \A r \in Refs : PictureSeenTo(r)'
  <2>1. ImageInv' /\ \A r \in Refs : ImageFacts!SeenTo(r) => ImageFacts!SeenTo(r)'
    BY <1>1, <1>3, NothingFollowsKeeps
  <2>2. OneTable'
    BY <1>1, <1>3 DEF OneTable, NothingFollows, pictureVars, imageVars
  <2>3. \A r \in Refs : TextOwes(r) => TextOwes(r)'
    BY <1>3, DebtsStay
  <2> QED
    BY <1>1, <2>1, <2>2, <2>3 DEF PictureSeenTo
<1>4. ASSUME NEW r \in Refs, Text!Save(r), NothingFollows
      PROVE  ImageInv' /\ OneTable' /\ \A x \in Refs : PictureSeenTo(x)'
  BY <1>3, <1>4 DEF Text!Save, Text!queueVars, Text!tableVars
<1>5. ASSUME NEW S \in Text!Messages, Text!Rollback(S), NothingFollows
      PROVE  ImageInv' /\ OneTable' /\ \A x \in Refs : PictureSeenTo(x)'
  BY <1>3, <1>5 DEF Text!Rollback, Text!queueVars, Text!tableVars
<1>6. ASSUME NEW r \in Refs, Text!RawSave(r), ChangeCatalog({r}), UNCHANGED pictureQueue
      PROVE  ImageInv' /\ OneTable' /\ \A x \in Refs : PictureSeenTo(x)'
  <2>1. /\ ver' = [ver EXCEPT ![r] = @ + 1] /\ live' = [live EXCEPT ![r] = TRUE]
        /\ UNCHANGED <<row, task, due, queue>>
    BY <1>6 DEF Text!RawSave, Text!queueVars, Text!tableVars
  <2>2. live' \in [Refs -> BOOLEAN] /\ \A x \in Refs \ {r} : ver'[x] = ver[x] /\ live'[x] = live[x]
    BY <1>2, <2>1
  <2>3. {r} \in SUBSET Refs /\ {r} \in SUBSET {r} /\ {r} \ {r} = {}
    OBVIOUS
  <2> QED
    BY <1>6, <2>1, <2>2, <2>3, ChangesAreOwed
<1>7. ASSUME NEW S \in Text!Messages, Text!Commit(S), ChangeCatalog({}), UNCHANGED pictureQueue
      PROVE  ImageInv' /\ OneTable' /\ \A x \in Refs : PictureSeenTo(x)'
  <2>1. /\ ver' = [x \in Refs |-> IF x \in S THEN ver[x] + 1 ELSE ver[x]]
        /\ due' = [m \in Text!Messages |-> IF \E x \in S \cap hooks : m = {x} THEN due[m] + 1 ELSE due[m]]
        /\ UNCHANGED <<row, task, queue>>
        /\ \A x \in S : draft[x] # "none"
    BY <1>7 DEF Text!Commit, Text!tableVars
  <2>2. live' \in [Refs -> BOOLEAN] /\ \A x \in Refs \ S : ver'[x] = ver[x] /\ live'[x] = live[x]
    <3>1. live' = [x \in Refs |-> IF x \in S THEN draft[x] = "save" ELSE live[x]]
      BY <1>7 DEF Text!Commit
    <3>2. live' \in [Refs -> BOOLEAN]
      BY <1>2, <3>1, Zenon
    <3>3. \A x \in Refs \ S : live'[x] = live[x]
      BY <3>1, Zenon
    <3> QED
      BY <2>1, <3>2, <3>3
  <2>3. S \subseteq Refs /\ S \subseteq hooks
    BY <1>1, <1>2, <2>1 DEF TextInv, TextFacts!FreshnessInv, TextFacts!DraftsAreHooked
  <2>4. \A m \in TextFacts!Messages : due[m] > 0 => due'[m] > 0
    BY <1>2, <2>1
  <2>5. ASSUME NEW x \in S PROVE TextFacts!Announced(x)'
    <3>1. {x} \in TextFacts!Messages /\ due[{x}] \in Nat
      BY <1>2, <2>3
    <3>2. due'[{x}] = due[{x}] + 1
      BY <1>2, <2>1, <2>3, <3>1
    <3>3. due'[{x}] > 0
      BY <3>1, <3>2
    <3> QED
      BY <3>1, <3>3 DEF TextFacts!Announced, TextFacts!Messages
  <2>6. {} \in SUBSET S /\ S \ {} = S
    OBVIOUS
  <2> QED
    BY <1>7, <2>1, <2>2, <2>3, <2>4, <2>5, <2>6, ChangesAreOwed
<1>8. ASSUME NEW S \in Text!Messages, Text!BulkWrite(S), ChangeCatalog({}), UNCHANGED pictureQueue
      PROVE  ImageInv' /\ OneTable' /\ \A x \in Refs : PictureSeenTo(x)'
  <2>1. /\ ver' = [x \in Refs |-> IF x \in S THEN ver[x] + 1 ELSE ver[x]]
        /\ live' = [x \in Refs |-> x \in S \/ live[x]]
        /\ due' = [due EXCEPT ![S] = @ + 1]
        /\ UNCHANGED <<row, task, queue>>
    BY <1>8 DEF Text!BulkWrite, Text!tableVars
  <2>2. live' \in [Refs -> BOOLEAN]
    BY <2>1, Zenon
  <2>3. \A x \in Refs \ S : ver'[x] = ver[x] /\ live'[x] = live[x]
    BY <1>2, <2>1
  <2>4. S \subseteq Refs /\ S \in TextFacts!Messages
    BY <1>2
  <2>5. (\A m \in TextFacts!Messages : due[m] > 0 => due'[m] > 0) /\ due'[S] > 0
    BY <1>2, <2>1, <2>4
  <2>6. \A x \in S : TextFacts!Announced(x)'
    BY <2>4, <2>5 DEF TextFacts!Announced, TextFacts!Messages
  <2>7. {} \in SUBSET S /\ S \ {} = S
    OBVIOUS
  <2> QED
    BY <1>8, <2>1, <2>2, <2>3, <2>4, <2>5, <2>6, <2>7, ChangesAreOwed
<1> QED
  BY <1>4, <1>5, <1>6, <1>7, <1>8 DEF Host

\* A message published stays a message; of one that was refused, the refs go unseen.
LEMMA PublishingKeeps ==
  ASSUME IndexingInv, Publish \/ PublishFails
  PROVE  ImageInv' /\ OneTable' /\ \A r \in Refs : PictureSeenTo(r)'
<1>1. TextInv /\ ImageInv /\ OneTable /\ \A r \in Refs : PictureSeenTo(r)
  BY DEF IndexingInv
<1>2. /\ due \in [TextFacts!Messages -> Nat] /\ queue \in [TextFacts!Messages -> Nat]
      /\ TextFacts!Messages = (SUBSET Refs) \ {{}} /\ Text!Messages = TextFacts!Messages
  BY <1>1, TextTypes
<1>3. CASE Publish
  <2>1. PICK m \in TextFacts!Messages : NothingFollows /\ Text!Publish(m)
    BY <1>2, <1>3 DEF Publish
  <2>2. /\ due[m] > 0 /\ due' = [due EXCEPT ![m] = @ - 1] /\ queue' = [queue EXCEPT ![m] = @ + 1]
        /\ UNCHANGED <<ver, live, row, task>>
    BY <2>1 DEF Text!Publish, Text!catalogVars, Text!tableVars
  <2>3. \A n \in TextFacts!Messages : due[n] > 0 \/ queue[n] > 0 => due'[n] > 0 \/ queue'[n] > 0
    BY <1>2, <2>2
  <2>4. \A r \in Refs : TextOwes(r) => TextOwes(r)'
    BY <2>2, <2>3, DebtsStay
  <2>5. ImageInv' /\ \A r \in Refs : ImageFacts!SeenTo(r) => ImageFacts!SeenTo(r)'
    BY <1>1, <2>1, NothingFollowsKeeps
  <2>6. OneTable'
    BY <1>1, <2>1, <2>2 DEF OneTable, NothingFollows, pictureVars, imageVars
  <2> QED
    BY <1>1, <2>4, <2>5, <2>6 DEF PictureSeenTo
<1>4. CASE PublishFails
  <2>1. PICK m \in TextFacts!Messages :
           /\ UNCHANGED <<pictureVars, table, pictureQueue, imageTask, model, runs, pks, settledAt>>
           /\ Text!PublishFails(m) /\ Lost(m)
    BY <1>2, <1>4 DEF PublishFails
  <2>2. due' = [due EXCEPT ![m] = @ - 1] /\ UNCHANGED <<ver, live, row, task, queue>>
    BY <2>1 DEF Text!PublishFails, Text!catalogVars, Text!tableVars
  <2>3. unseen' = unseen \cup m /\ m \subseteq Refs
    BY <1>2, <2>1 DEF Lost
  <2>4. ImageInv' /\ OneTable' /\ \A r \in Refs : ImageFacts!SeenTo(r) => ImageFacts!SeenTo(r)'
    <3>1. unseen \subseteq unseen' /\ unseen' \subseteq Refs
      BY <1>1, <2>3 DEF ImageInv, ImageFacts!TypeOK
    <3> QED
      BY <1>1, <2>1, <2>2, <3>1, UnseenGrows
  <2>5. ASSUME NEW r \in Refs PROVE PictureSeenTo(r)'
    <3>1. CASE r \in m
      BY <2>3, <3>1 DEF PictureSeenTo, ImageFacts!SeenTo
    <3>2. CASE r \notin m /\ TextOwes(r)
      <4>1. \A n \in TextFacts!Messages : r \in n /\ (due[n] > 0 \/ queue[n] > 0) => due'[n] > 0 \/ queue'[n] > 0
        BY <1>2, <2>2, <3>2
      <4> QED
        BY <2>2, <3>2, <4>1, DebtsStay DEF PictureSeenTo
    <3> QED
      BY <1>1, <2>4, <3>1, <3>2 DEF PictureSeenTo
  <2> QED
    BY <2>4, <2>5
<1> QED
  BY <1>3, <1>4

(* A step of one text task: a debt rests with the messages, with another   *)
(* task, or with this one, of which there is more to say.                  *)
LEMMA TextTaskMoves ==
  ASSUME TextInv, NEW w \in TextWorkers, NEW t, task' = [task EXCEPT ![w] = t], NEW r \in Refs, TextOwes(r),
         UNCHANGED <<ver, due>>,
         \A m \in TextFacts!Messages : r \in m /\ queue[m] > 0 => queue'[m] > 0 \/ HasText(w, r)',
         HasText(w, r) => PictureSeenTo(r)'
  PROVE  PictureSeenTo(r)'
<1>1. \A v \in TextWorkers : v # w => task'[v] = task[v]
  BY TextTypes
<1>2. CASE TextFacts!Announced(r)
  <2>1. PICK m \in TextFacts!Messages : r \in m /\ (due[m] > 0 \/ queue[m] > 0)
    BY <1>2 DEF TextFacts!Announced
  <2>2. m \in TextFacts!Messages'
    BY DEF TextFacts!Messages
  <2>3. due'[m] > 0 \/ queue'[m] > 0 \/ HasText(w, r)'
    BY <2>1
  <2> QED
    BY <2>1, <2>2, <2>3 DEF PictureSeenTo, TextOwes, TextFacts!Announced
<1>3. ASSUME NEW v \in TextWorkers, HasText(v, r), v # w PROVE PictureSeenTo(r)'
  <2>1. HasText(v, r)'
    BY <1>1, <1>3 DEF HasText
  <2> QED
    BY <2>1 DEF PictureSeenTo, TextOwes
<1> QED
  BY <1>2, <1>3 DEF TextOwes

\* What is known of a task at rest, and of one between its read and its write.
LEMMA TextPhases ==
  ASSUME TextInv, NEW w \in TextWorkers
  PROVE  /\ task \in [TextWorkers -> TextFacts!TaskStates] /\ task[w] \in TextFacts!TaskStates
         /\ task[w].todo \subseteq Refs /\ task[w].rebuilt \subseteq Refs
         /\ task[w].phase # "read" => task[w].ref = NoRef
         /\ task[w].phase = "idle" => task[w].todo = {} /\ task[w].rebuilt = {}
         /\ task[w].phase = "read" =>
               /\ task[w].ref \in Refs /\ task[w].got \in Nat
               /\ task[w].got = ver[task[w].ref] => task[w].found = live[task[w].ref]
<1>1. /\ task \in [TextWorkers -> TextFacts!TaskStates]
      /\ (task[w].phase = "read") <=> (task[w].ref # NoRef)
  BY DEF TextInv, TextFacts!FreshnessInv, TextFacts!TypeOK
<1>2. /\ task[w] \in TextFacts!TaskStates /\ task[w].todo \subseteq Refs /\ task[w].rebuilt \subseteq Refs
      /\ task[w].ref \in Refs \cup {NoRef} /\ task[w].got \in Nat
  BY <1>1 DEF TextFacts!TaskStates
<1>3. /\ task[w].phase = "idle" => task[w].todo = {} /\ task[w].rebuilt = {}
      /\ task[w].phase = "read" /\ task[w].got = ver[task[w].ref] => task[w].found = live[task[w].ref]
  BY DEF TextInv, TextFacts!FreshnessInv, TextFacts!TaskReads, TextFacts!HandedOverInv
<1> QED
  BY <1>1, <1>2, <1>3

\* A task takes its message's refs over.
LEMMA TakeTextKeeps ==
  ASSUME IndexingInv, NEW w \in TextWorkers, TakeText(w)
  PROVE  ImageInv' /\ OneTable' /\ \A r \in Refs : PictureSeenTo(r)'
<1>1. TextInv /\ ImageInv /\ OneTable /\ NothingFollows /\ Text!Take(w)
  BY DEF IndexingInv, TakeText
<1>2. PICK m \in Text!Messages :
         queue[m] > 0 /\ queue' = [queue EXCEPT ![m] = @ - 1] /\ task' = [task EXCEPT ![w] = Text!Looping(m, {})]
  BY <1>1 DEF Text!Take
<1>3. task[w].phase = "idle" /\ UNCHANGED <<ver, live, row, due>>
  BY <1>1 DEF Text!Take, Text!catalogVars, Text!tableVars
<1>4. ImageInv' /\ \A r \in Refs : ImageFacts!SeenTo(r) => ImageFacts!SeenTo(r)'
  BY <1>1, NothingFollowsKeeps
<1>5. OneTable'
  BY <1>1, <1>3 DEF OneTable, NothingFollows, pictureVars, imageVars
<1>6. ASSUME NEW r \in Refs, TextOwes(r) PROVE PictureSeenTo(r)'
  <2>1. task'[w].todo = m
    BY <1>1, <1>2, TextPhases DEF Text!Looping
  <2>2. \A n \in TextFacts!Messages : r \in n /\ queue[n] > 0 => queue'[n] > 0 \/ HasText(w, r)'
    <3>1. \A n \in TextFacts!Messages : n # m => queue'[n] = queue[n]
      BY <1>1, <1>2, TextTypes
    <3> QED
      BY <2>1, <3>1 DEF HasText
  <2>3. ~HasText(w, r)
    BY <1>1, <1>3, TextPhases, IndexingAssumption DEF HasText
  <2> QED
    BY <1>1, <1>2, <1>3, <1>6, <2>2, <2>3, TextTaskMoves
<1> QED
  BY <1>4, <1>5, <1>6 DEF IndexingInv, PictureSeenTo

\* It reads the item at the version it has now.
LEMMA ReadItemKeeps ==
  ASSUME IndexingInv, NEW w \in TextWorkers, ReadItem(w)
  PROVE  ImageInv' /\ OneTable' /\ \A r \in Refs : PictureSeenTo(r)'
<1>1. TextInv /\ ImageInv /\ OneTable /\ NothingFollows
  BY DEF IndexingInv, ReadItem
<1>2. PICK x \in Refs : Text!ReadItem(w, x)
  BY DEF ReadItem
<1>3. /\ task[w].phase = "loop" /\ UNCHANGED <<ver, live, row, due, queue>>
      /\ task' = [task EXCEPT ![w] = Text!Reading(task[w].todo \ {x}, task[w].rebuilt, x, ver[x], live[x])]
  BY <1>2 DEF Text!ReadItem, Text!catalogVars, Text!tableVars
<1>4. ImageInv' /\ \A r \in Refs : ImageFacts!SeenTo(r) => ImageFacts!SeenTo(r)'
  BY <1>1, NothingFollowsKeeps
<1>5. OneTable'
  BY <1>1, <1>3 DEF OneTable, NothingFollows, pictureVars, imageVars
<1>6. ASSUME NEW r \in Refs, TextOwes(r) PROVE PictureSeenTo(r)'
  <2>1. /\ task'[w].todo = task[w].todo \ {x} /\ task'[w].rebuilt = task[w].rebuilt
        /\ task'[w].ref = x /\ task'[w].got = ver[x]
    BY <1>1, <1>3, TextPhases DEF Text!Reading
  <2>2. task[w].ref # r
    BY <1>1, <1>3, TextPhases, IndexingAssumption
  <2>3. HasText(w, r) => HasText(w, r)'
    BY <1>3, <2>1, <2>2 DEF HasText
  <2>4. HasText(w, r) => PictureSeenTo(r)'
    BY <2>3 DEF PictureSeenTo, TextOwes
  <2> QED
    BY <1>1, <1>3, <1>6, <2>4, TextTaskMoves
<1> QED
  BY <1>4, <1>5, <1>6 DEF IndexingInv, PictureSeenTo

(* The write of one row: an inserted row starts with empty image columns,  *)
(* the others' stay as they are.                                           *)
LEMMA RowsFollowKeeps ==
  ASSUME ImageInv, OneTable, RowsFollow, UNCHANGED <<pictureVars, pictureQueue, imageTask, model, runs, unseen, live>>,
         NEW x \in Refs, NEW n \in Nat, row \in [Refs -> Nat], row' = [row EXCEPT ![x] = n]
  PROVE  /\ ImageInv' /\ OneTable'
         /\ n = 0 => table'[x] = Nothing
         /\ \A r \in Refs \ {x} : ImageFacts!SeenTo(r) => ImageFacts!SeenTo(r)'
<1> DEFINE inserted == {r \in Refs : row[r] = 0 /\ row'[r] # 0}
           fresh(r) == [pk |-> pks'[r], hash |-> Nothing, vec |-> Nothing, stamp |-> Nothing]
<1> USE DEF pictureVars
<1>1. /\ table \in [Refs -> ImageFacts!Rows \cup {Nothing}] /\ pks \in [Refs -> Nat] /\ settledAt \in [Refs -> Nat]
      /\ pver \in [Refs -> Nat]
  BY DEF ImageInv, ImageFacts!TypeOK
<1>2. /\ pks' = [r \in Refs |-> IF r \in inserted THEN pks[r] + 1 ELSE pks[r]]
      /\ settledAt' = [r \in Refs |-> IF r \in inserted THEN 0 ELSE settledAt[r]]
  BY DEF RowsFollow
<1>3. \A r \in Refs : table'[r] = IF row'[r] = 0 THEN Nothing ELSE IF r \in inserted THEN fresh(r) ELSE table[r]
  BY DEF RowsFollow
<1>4. \A r \in Refs : row'[r] = IF r = x THEN n ELSE row[r]
  OBVIOUS
<1>5. \A r \in Refs \ {x} : table'[r] = table[r] /\ settledAt'[r] = settledAt[r]
  BY <1>1, <1>2, <1>3, <1>4 DEF OneTable
<1>6. pks' \in [Refs -> Nat] /\ settledAt' \in [Refs -> Nat]
  <2> HIDE DEF inserted
  <2>1. ASSUME NEW r \in Refs
        PROVE  pks[r] \in Nat /\ pks[r] + 1 \in Nat /\ settledAt[r] \in Nat
    <3>1. pks[r] \in Nat /\ settledAt[r] \in Nat
      BY <1>1, <2>1, Zenon
    <3> QED
      BY <3>1
  <2> QED
    BY <1>2, <2>1
<1>7. \A r \in Refs : fresh(r) \in ImageFacts!Rows
  BY <1>6 DEF ImageFacts!Rows
<1>8. table' \in [Refs -> ImageFacts!Rows \cup {Nothing}]
  <2>1. DOMAIN table' = Refs /\ table' = [r \in Refs |-> table'[r]]
    BY DEF RowsFollow
  <2>2. \A r \in Refs : table'[r] \in ImageFacts!Rows \cup {Nothing}
    BY <1>1, <1>3, <1>7
  <2> QED
    BY <2>1, <2>2
<1>9. ImageFacts!TypeOK' /\ ImageFacts!HeldInv'
  BY <1>6, <1>8 DEF ImageInv, ImageFacts!TypeOK, ImageFacts!HeldInv, ImageFacts!Prepared
<1>10. ImageFacts!StampInv'
  <2>1. \A r \in Refs : ImageFacts!Stamped(fresh(r)) /\ ImageFacts!Stamped(Nothing)
    BY DEF ImageFacts!Stamped
  <2>2. \A r \in Refs : ImageFacts!Stamped(table[r]) /\ \A w \in ImageWorkers : ImageFacts!Stamped(imageTask[w].held[r])
    BY DEF ImageInv, ImageFacts!StampInv
  <2>3. \A r \in Refs : ImageFacts!Stamped(table'[r])
    BY <1>3, <2>1, <2>2
  <2> HIDE DEF fresh
  <2> QED
    BY <2>2, <2>3 DEF ImageFacts!StampInv, ImageFacts!Stamped
<1>11. ImageFacts!VersionsInv'
  <2>1. \A r \in Refs : settledAt'[r] <= pver[r]
    <3>1. \A r \in Refs : settledAt[r] <= pver[r] /\ pver[r] \in Nat
      BY <1>1 DEF ImageInv, ImageFacts!VersionsInv
    <3>2. \A r \in Refs : settledAt'[r] = 0 \/ settledAt'[r] = settledAt[r]
      BY <1>2
    <3> QED
      BY <3>1, <3>2
  <2> QED
    BY <2>1 DEF ImageInv, ImageFacts!VersionsInv
<1>12. OneTable'
  <2>1. \A r \in Refs : fresh(r) # Nothing
    BY <1>7, ImageAssumption DEF ImageFacts!ImageLayerAssumption
  <2>2. \A r \in Refs : row'[r] = 0 <=> table'[r] = Nothing
    BY <1>3, <1>4, <1>5, <2>1 DEF OneTable
  <2> QED
    BY <2>2 DEF OneTable
<1>13. \A r \in Refs \ {x} : ImageFacts!SeenTo(r) => ImageFacts!SeenTo(r)'
  BY <1>5 DEF ImageFacts!SeenTo, ImageFacts!Settled, ImageFacts!Announced, ImageFacts!WillWrite, ImageFacts!Writes
<1> QED
  BY <1>3, <1>4, <1>9, <1>10, <1>11, <1>12, <1>13 DEF ImageInv

(* A row written awaits the publish of its images; one deleted has none to *)
(* keep.                                                                   *)
LEMMA WriteRowKeeps ==
  ASSUME IndexingInv, NEW w \in TextWorkers, WriteRow(w)
  PROVE  ImageInv' /\ OneTable' /\ \A r \in Refs : PictureSeenTo(r)'
<1>1. TextInv /\ ImageInv /\ OneTable /\ RowsFollow /\ task[w].phase = "read"
  BY DEF IndexingInv, WriteRow, Text!WriteRow
<1>2. PICK x \in Refs : x = task[w].ref
  BY <1>1, TextPhases
<1> DEFINE n == IF task[w].found THEN task[w].got ELSE 0
           more == IF task[w].found THEN task[w].rebuilt \cup {x} ELSE task[w].rebuilt
<1>3. /\ row' = [row EXCEPT ![x] = n]
      /\ task' = [task EXCEPT ![w] = Text!Looping(task[w].todo, more)]
      /\ UNCHANGED <<ver, live, due, queue>>
      /\ UNCHANGED <<pictureVars, pictureQueue, imageTask, model, runs, unseen>>
  BY <1>2 DEF WriteRow, Text!WriteRow, Text!catalogVars
<1>4. n \in Nat /\ row \in [Refs -> Nat]
  BY <1>1, <1>3, TextPhases, TextTypes
<1>5. task'[w].todo = task[w].todo /\ task'[w].rebuilt = more
  BY <1>1, <1>3, TextPhases DEF Text!Looping
<1>6. /\ ImageInv' /\ OneTable'
      /\ n = 0 => table'[x] = Nothing
      /\ \A r \in Refs \ {x} : ImageFacts!SeenTo(r) => ImageFacts!SeenTo(r)'
  <2> HIDE DEF n
  <2> QED
    BY <1>1, <1>3, <1>4, RowsFollowKeeps
<1>7. PictureSeenTo(x)'
  <2>1. CASE task[w].found
    BY <1>5, <2>1 DEF PictureSeenTo, TextOwes, HasText
  <2>2. CASE ~task[w].found
    BY <1>6, <2>2 DEF PictureSeenTo, ImageFacts!SeenTo, ImageFacts!Settled
  <2> QED
    BY <2>1, <2>2
<1>8. ASSUME NEW r \in Refs, r # x PROVE PictureSeenTo(r)'
  <2>1. HasText(w, r) => HasText(w, r)'
    BY <1>2, <1>3, <1>5, <1>8 DEF HasText
  <2>2. HasText(w, r) => PictureSeenTo(r)'
    BY <2>1 DEF PictureSeenTo, TextOwes
  <2>3. TextOwes(r) => PictureSeenTo(r)'
    <3> HIDE DEF n, more
    <3> QED
      BY <1>1, <1>3, <2>2, TextTaskMoves
  <2> QED
    BY <1>6, <1>8, <2>3 DEF IndexingInv, PictureSeenTo
<1> QED
  BY <1>6, <1>7, <1>8

\* A task that ends publishes the images of what it rebuilt.
LEMMA FinishTextKeeps ==
  ASSUME IndexingInv, NEW w \in TextWorkers, FinishText(w)
  PROVE  ImageInv' /\ OneTable' /\ \A r \in Refs : PictureSeenTo(r)'
<1> DEFINE rebuilt == task[w].rebuilt
<1>1. TextInv /\ ImageInv /\ OneTable /\ Text!Finish(w)
  BY DEF IndexingInv, FinishText
<1>2. /\ task[w].phase = "loop" /\ task[w].todo = {} /\ task' = [task EXCEPT ![w] = Text!IdleTask]
      /\ UNCHANGED <<ver, live, row, due, queue>>
  BY <1>1 DEF Text!Finish, Text!catalogVars, Text!tableVars
<1>3. /\ UNCHANGED <<pictureVars, table, imageTask, model, runs, pks, settledAt, unseen>>
      /\ pictureQueue' = IF rebuilt = {} THEN pictureQueue ELSE [pictureQueue EXCEPT ![rebuilt] = @ + 1]
  BY DEF FinishText
<1>4. /\ pictureQueue \in [ImageFacts!Messages -> Nat] /\ ImageFacts!Messages = (SUBSET Refs) \ {{}}
      /\ ImageFacts!Messages' = ImageFacts!Messages /\ rebuilt \subseteq Refs /\ task[w].ref = NoRef
  BY <1>1, <1>2, TextPhases DEF ImageInv, ImageFacts!TypeOK, ImageFacts!Messages
<1>5. /\ pictureQueue' \in [ImageFacts!Messages -> Nat]
      /\ \A m \in ImageFacts!Messages : pictureQueue[m] > 0 => pictureQueue'[m] > 0
      /\ rebuilt # {} => rebuilt \in ImageFacts!Messages /\ pictureQueue'[rebuilt] > 0
  BY <1>3, <1>4
<1>6. ImageInv'
  <2>1. ImageFacts!TypeOK' /\ ImageFacts!HeldInv'
    BY <1>1, <1>3, <1>4, <1>5 DEF ImageInv, ImageFacts!TypeOK, ImageFacts!HeldInv, ImageFacts!Prepared, pictureVars
  <2>2. ImageFacts!StampInv' /\ ImageFacts!VersionsInv'
    BY <1>1, <1>3 DEF ImageInv, ImageFacts!StampInv, ImageFacts!Stamped, ImageFacts!VersionsInv, pictureVars
  <2> QED
    BY <2>1, <2>2 DEF ImageInv
<1>7. OneTable'
  BY <1>1, <1>2, <1>3 DEF OneTable, pictureVars
<1>8. ASSUME NEW r \in Refs, ImageFacts!SeenTo(r) PROVE ImageFacts!SeenTo(r)'
  <2>1. ImageFacts!Announced(r) => ImageFacts!Announced(r)'
    BY <1>4, <1>5 DEF ImageFacts!Announced
  <2>2. /\ ImageFacts!Settled(r) => ImageFacts!Settled(r)' 
        /\ ImageFacts!WillWrite(r) => ImageFacts!WillWrite(r)'
    BY <1>3 DEF ImageFacts!Settled, ImageFacts!WillWrite, ImageFacts!Writes, pictureVars
  <2> QED
    BY <1>3, <1>8, <2>1, <2>2 DEF ImageFacts!SeenTo
<1>9. ASSUME NEW r \in Refs, TextOwes(r) PROVE PictureSeenTo(r)'
  <2>1. HasText(w, r) => r \in rebuilt
    BY <1>2, <1>4, IndexingAssumption DEF HasText
  <2>2. HasText(w, r) => PictureSeenTo(r)'
    BY <1>4, <1>5, <2>1 DEF PictureSeenTo, ImageFacts!SeenTo, ImageFacts!Announced
  <2> QED
    BY <1>1, <1>2, <1>9, <2>2, TextTaskMoves
<1> QED
  BY <1>6, <1>7, <1>8, <1>9 DEF IndexingInv, PictureSeenTo

\* What a task that dies had in hand goes unseen.
LEMMA CrashTextKeeps ==
  ASSUME IndexingInv, NEW w \in TextWorkers, CrashText(w)
  PROVE  ImageInv' /\ OneTable' /\ \A r \in Refs : PictureSeenTo(r)'
<1> DEFINE gone == task[w].todo \cup task[w].rebuilt \cup ({task[w].ref} \ {NoRef})
<1>1. TextInv /\ ImageInv /\ OneTable /\ Text!Crash(w) /\ unseen' = unseen \cup gone
  BY DEF IndexingInv, CrashText, Lost
<1>2. task' = [task EXCEPT ![w] = Text!IdleTask] /\ UNCHANGED <<ver, live, row, due, queue>>
  BY <1>1 DEF Text!Crash, Text!catalogVars, Text!tableVars
<1>3. gone \subseteq Refs /\ unseen \subseteq Refs
  BY <1>1, TextPhases DEF ImageInv, ImageFacts!TypeOK
<1>4. ImageInv' /\ OneTable' /\ \A r \in Refs : ImageFacts!SeenTo(r) => ImageFacts!SeenTo(r)'
  <2>1. unseen \subseteq unseen' /\ unseen' \subseteq Refs
    BY <1>1, <1>3
  <2>2. UNCHANGED <<pictureVars, table, pictureQueue, imageTask, model, runs, pks, settledAt>>
    BY DEF CrashText
  <2> QED
    BY <1>1, <1>2, <2>1, <2>2, UnseenGrows
<1>5. ASSUME NEW r \in Refs, TextOwes(r) PROVE PictureSeenTo(r)'
  <2>1. HasText(w, r) => r \in gone
    BY IndexingAssumption DEF HasText
  <2>2. HasText(w, r) => PictureSeenTo(r)'
    BY <1>1, <2>1 DEF PictureSeenTo, ImageFacts!SeenTo
  <2> QED
    BY <1>1, <1>2, <1>5, <2>2, TextTaskMoves
<1> QED
  BY <1>4, <1>5 DEF IndexingInv, PictureSeenTo

-----------------------------------------------------------------------------
(* The invariant                                                           *)

\* A step of the text chain keeps what is known of it, and the hand-overs.
LEMMA TextStepsKeep ==
  ASSUME IndexingInv, Host \/ Publish \/ PublishFails \/ \E w \in TextWorkers : TextWorker(w)
  PROVE  IndexingInv'
<1>1. ImageInv' /\ OneTable' /\ \A r \in Refs : PictureSeenTo(r)'
  <2>1. CASE Host
    BY <2>1, HostKeeps
  <2>2. CASE Publish \/ PublishFails
    BY <2>2, PublishingKeeps
  <2>3. ASSUME NEW w \in TextWorkers, TextWorker(w)
        PROVE  ImageInv' /\ OneTable' /\ \A r \in Refs : PictureSeenTo(r)'
    BY <2>3, TakeTextKeeps, ReadItemKeeps, WriteRowKeeps, FinishTextKeeps, CrashTextKeeps DEF TextWorker
  <2> QED
    BY <2>1, <2>2, <2>3
<1>2. TextInv'
  <2>1. TextFacts!Next /\ TextFacts!FreshnessInv /\ TextFacts!TypeOK /\ TextFacts!HandedOverInv
    BY TextSteps DEF IndexingInv, TextInv, TextFacts!FreshnessInv
  <2>2. TextFacts!FreshnessInv'
    BY <2>1, TextAssumption, TextFacts!InvNext
  <2>3. TextFacts!HandedOverInv'
    BY <2>1, TextAssumption, TextFacts!HandedOverNext
  <2> QED
    BY <2>2, <2>3 DEF TextInv
<1> QED
  BY <1>1, <1>2 DEF IndexingInv

\* Every step of the write side keeps the invariant.
LEMMA IndexingNext == IndexingInv /\ [Next]_vars => IndexingInv'
<1> SUFFICES ASSUME IndexingInv, [Next]_vars PROVE IndexingInv'
  OBVIOUS
<1>1. CASE Next
  BY <1>1, TextStepsKeep, ImageStepsKeep DEF Next
<1>2. CASE UNCHANGED vars
  <2>1. UNCHANGED textVars /\ UNCHANGED unchecked /\ NothingFollows /\ AwaitingImages' = AwaitingImages
    BY <1>2 DEF vars, NothingFollows, imageVars, AwaitingImages
  <2>2. TextInv'
    <3>1. TextFacts!FreshnessInv'
      BY <2>1, ImagesKeepTypes DEF IndexingInv
    <3>2. TextFacts!HandedOverInv'
      BY <2>1 DEF IndexingInv, TextInv, TextFacts!HandedOverInv, TextFacts!RebuiltIsHandedOver, textVars
    <3> QED
      BY <3>1, <3>2 DEF TextInv
  <2>3. ImageInv' /\ \A r \in Refs : ImageFacts!SeenTo(r) => ImageFacts!SeenTo(r)'
    BY <2>1, NothingFollowsKeeps DEF IndexingInv
  <2>4. OneTable'
    BY <2>1 DEF IndexingInv, OneTable, textVars, NothingFollows, pictureVars, imageVars
  <2>5. \A r \in Refs : TextOwes(r) => TextOwes(r)'
    BY <2>1, ImagesKeepDebts
  <2> QED
    BY <2>2, <2>3, <2>4, <2>5 DEF IndexingInv, PictureSeenTo
<1> QED
  BY <1>1, <1>2

\* It holds of two empty queues and an empty table.
LEMMA IndexingInit == Init => IndexingInv
<1> SUFFICES ASSUME Init PROVE IndexingInv
  OBVIOUS
<1>1. TextFacts!Init
  BY DEF Init, Text!Init, TextFacts!Init, Text!IdleTask, TextFacts!IdleTask, Text!IdleJob, TextFacts!IdleJob,
         Text!NoReads, TextFacts!NoReads, Text!Messages, TextFacts!Messages
<1>2. TextInv
  <2>1. TextFacts!FreshnessInv
    BY <1>1, TextAssumption, TextFacts!InvInit
  <2>2. TextFacts!HandedOverInv
    BY <1>1 DEF TextFacts!Init, TextFacts!HandedOverInv, TextFacts!RebuiltIsHandedOver, TextFacts!IdleTask
  <2> QED
    BY <2>1, <2>2 DEF TextInv
<1>3. /\ imageTask = [w \in ImageWorkers |-> ImageFacts!IdleTask]
      /\ table = ImageFacts!NoneOf /\ pictureQueue = [m \in ImageFacts!Messages |-> 0]
  BY DEF Init, Images!IdleTask, ImageFacts!IdleTask, Images!NoneOf, ImageFacts!NoneOf,
         Images!Messages, ImageFacts!Messages
<1>4. \A w \in ImageWorkers : /\ imageTask[w] \in ImageFacts!TaskStates /\ ~imageTask[w].busy
                              /\ imageTask[w].todo = {} /\ ImageFacts!Prepared(w) = {}
                              /\ \A r \in Refs : /\ imageTask[w].held[r] = Nothing /\ imageTask[w].at[r] = 0
                                                 /\ imageTask[w].prepared[r] = Nothing
  BY <1>3 DEF ImageFacts!IdleTask, ImageFacts!NoneOf, ImageFacts!TaskStates, ImageFacts!Prepared
<1>5. ImageInv
  <2>1. ImageFacts!TypeOK
    BY <1>3, <1>4 DEF Init, ImageFacts!TypeOK, ImageFacts!NoneOf
  <2>2. ImageFacts!HeldInv /\ ImageFacts!StampInv
    BY <1>3, <1>4 DEF ImageFacts!HeldInv, ImageFacts!StampInv, ImageFacts!Stamped, ImageFacts!NoneOf
  <2>3. ImageFacts!VersionsInv
    BY <1>4 DEF Init, ImageFacts!VersionsInv
  <2> QED
    BY <2>1, <2>2, <2>3 DEF ImageInv
<1>6. OneTable
  BY <1>3 DEF Init, Text!Init, OneTable, ImageFacts!NoneOf
<1>7. \A r \in Refs : PictureSeenTo(r)
  BY <1>3 DEF PictureSeenTo, ImageFacts!SeenTo, ImageFacts!Settled, ImageFacts!NoneOf
<1> QED
  BY <1>2, <1>5, <1>6, <1>7 DEF IndexingInv

\* The invariant of the whole write side, for every behaviour of it.
THEOREM WriteSideHolds == Spec => []IndexingInv
  BY IndexingInit, IndexingNext, PTL DEF Spec

-----------------------------------------------------------------------------
(* What it gives                                                           *)

(* For any number of refs, of workers of both kinds, of catalog changes    *)
(* and of embedding models: between the save of an item and the image      *)
(* columns of its row, through two queues and two kinds of task, somebody  *)
(* is on every picture that is not hashed, or an event that unseen names   *)
(* hit it.  No hand-over between the chains loses one.                     *)
THEOREM NoPictureForgotten == Spec => []PicturesAreOwed
<1>1. IndexingInv => PicturesAreOwed
  <2> SUFFICES ASSUME IndexingInv, NEW r \in Refs
               PROVE  Hashed(r) \/ PictureOwed(r) \/ r \in unseen
    BY DEF PicturesAreOwed
  <2>1. CASE ImageFacts!SeenTo(r)
    <3>1. ImageFacts!Settled(r) => Hashed(r)
      BY DEF ImageFacts!Settled, Hashed, Images!Hashed
    <3>2. ImageFacts!Announced(r) => Images!Announced(r)
      BY DEF ImageFacts!Announced, Images!Announced, ImageFacts!Messages, Images!Messages
    <3>3. ImageFacts!WillWrite(r) => Images!InHand(r)
      BY DEF ImageFacts!WillWrite, ImageFacts!Writes, Images!InHand, Images!Prepared
    <3> QED
      BY <2>1, <3>1, <3>2, <3>3 DEF ImageFacts!SeenTo, PictureOwed
  <2>2. CASE TextOwes(r)
    <3>1. TextFacts!Announced(r) => Text!Owed(r)
      BY DEF TextFacts!Announced, Text!Owed, Text!Announced, TextFacts!Messages, Text!Messages
    <3>2. ASSUME NEW w \in TextWorkers, HasText(w, r) PROVE PictureOwed(r)
      BY <3>2 DEF HasText, PictureOwed, Text!Owed, Text!InHand
    <3> QED
      BY <2>2, <3>1, <3>2 DEF TextOwes, PictureOwed
  <2> QED
    BY <2>1, <2>2 DEF IndexingInv, PictureSeenTo
<1> QED
  BY <1>1, WriteSideHolds, PTL

(* The text chain keeps its promises with the image chain at its side: a   *)
(* row that differs from its item is owed a refresh or adrift, and a ref   *)
(* that was rebuilt is with its task or in a message until it is checked.  *)
THEOREM TextKeepsItsWord == Spec => [](Text!StaleIsOwed /\ Text!RebuiltIsHandedOver)
<1>1. IndexingInv => Text!StaleIsOwed
  <2>1. IndexingInv => TextFacts!StaleIsOwed
    BY TextAssumption, TextFacts!InvStale DEF IndexingInv, TextInv
  <2>2. TextFacts!StaleIsOwed => Text!StaleIsOwed
    BY DEF TextFacts!StaleIsOwed, TextFacts!Fresh, TextFacts!Owed, TextFacts!Announced, TextFacts!InHand,
           TextFacts!Messages, Text!StaleIsOwed, Text!Fresh, Text!Owed, Text!Announced, Text!InHand, Text!Messages
  <2> QED
    BY <2>1, <2>2
<1>2. IndexingInv => Text!RebuiltIsHandedOver
  BY DEF IndexingInv, TextInv, TextFacts!HandedOverInv, TextFacts!RebuiltIsHandedOver, Text!RebuiltIsHandedOver
<1> QED
  BY <1>1, <1>2, WriteSideHolds, PTL

(* The image chain does so with rows that the text chain creates, deletes  *)
(* and recreates under it: vec_model names the model of image_vec.         *)
THEOREM StampsMatchUnderRefreshes == Spec => []Images!StampMatchesVector
<1>1. IndexingInv => Images!StampMatchesVector
  BY DEF IndexingInv, ImageInv, ImageFacts!StampInv, ImageFacts!Stamped, Images!StampMatchesVector
<1> QED
  BY <1>1, WriteSideHolds, PTL

(* The refinement, for the composed system: with the image chain running   *)
(* beside it, and its messages taken out of the text chain's sight, the    *)
(* text chain still is a Mirror of the catalog.                            *)
THEOREM TextMirrorsTheCatalog == Spec => TextFacts!FollowsTheCatalog
<1>1. Init => TextFacts!Index!Init
  BY IndexingInit, TextAssumption, TextFacts!MirrorInit DEF IndexingInv, TextInv
<1>2. ASSUME IndexingInv, IndexingInv', [Next]_vars
      PROVE  [TextFacts!Index!Next]_(TextFacts!Index!vars)
  <2>1. TextFacts!FreshnessInv /\ TextFacts!FreshnessInv'
    BY <1>2 DEF IndexingInv, TextInv
  <2>2. CASE Host \/ Publish \/ PublishFails \/ \E w \in TextWorkers : TextWorker(w)
    BY <2>1, <2>2, TextSteps, TextAssumption, TextFacts!MirrorNext
  <2>3. CASE UNCHANGED textVars
    BY <2>3 DEF textVars, TextFacts!Index!vars, TextFacts!Owed, TextFacts!Announced, TextFacts!InHand,
                TextFacts!Messages
  <2>4. UNCHANGED vars => UNCHANGED textVars
    BY DEF vars
  <2> QED
    BY <1>2, <2>2, <2>3, <2>4, ImageSteps DEF Next
<1> QED
  BY <1>1, <1>2, IndexingInit, IndexingNext, PTL DEF Spec, TextFacts!FollowsTheCatalog, TextFacts!Index!Spec

=============================================================================
