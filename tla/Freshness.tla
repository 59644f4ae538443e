------------------------------ MODULE Freshness ------------------------------
(***************************************************************************)
(* How the fingerprint table follows one catalog (one FingerprintKind).    *)
(*                                                                         *)
(* The catalog belongs to the host: its rows change in transactions whose  *)
(* signal handlers (signals.py) register an on_commit callback; the        *)
(* callback publishes a refresh task on the `lookup` queue; Celery workers *)
(* (tasks.py) re-read the item from the provider and upsert or delete its  *)
(* fingerprint (fingerprint_service.py).  Beside them runs at most one     *)
(* operator command, lookup_backfill or lookup_reconcile                   *)
(* (backfill_service.py).  Nothing in the code locks a ref between the     *)
(* provider read and the table write, so each is a step of its own here.   *)
(*                                                                         *)
(* An item is abstracted to a version: every catalog change of a ref gives *)
(* it the next one, and a fingerprint is the version it was built from.    *)
(***************************************************************************)
EXTENDS Naturals, FiniteSets, Functions

CONSTANTS
    Refs,        \* the refs of this kind
    Workers,     \* Celery worker processes consuming the `lookup` queue
    Modes,       \* operator commands that may run: a subset of AllModes
    Batch,       \* --batch of those commands
    ImagesOn,    \* settings.image_enabled()
    RawRefs,     \* refs that fixture loads write
    NoRef,       \* "no ref", not a member of Refs
    MaxChanges   \* bound: catalog changes, over all refs

AllModes == {"backfill", "reconcile"}

ASSUME FreshnessAssumption ==
    /\ NoRef \notin Refs /\ RawRefs \subseteq Refs
    /\ Modes \subseteq AllModes
    /\ Batch \in Nat \ {0}
    /\ ImagesOn \in BOOLEAN
    /\ MaxChanges \in Nat

VARIABLES
    \* the catalog
    ver,         \* committed version of each ref
    live,        \* whether the provider serves the ref at that version
    draft,       \* uncommitted change of the open transaction on the ref
    hooks,       \* refs whose open transaction registered an on_commit callback
    due,         \* bag of messages whose callback is released and not yet run
    \* the queue and its workers
    queue,       \* bag of refresh messages: [Messages -> Nat]
    task,        \* what each worker is doing
    imageQueue,  \* refs of the published, unconsumed embed_fingerprint_images
    \* the table
    row,         \* version the fingerprint was built from, 0 when there is no row
    job,         \* the operator command
    \* history, read by no guard
    basis,       \* version of the last write or delete that decided row
    adrift,      \* refs that may be stale with nothing under way to repair them
    unchecked,   \* refs rebuilt by a task whose picture was not re-checked since
    unclaimed    \* refs the running or last command promises nothing about

catalogVars == <<ver, live, draft, hooks>>
queueVars   == <<due, queue, task, imageQueue>>
tableVars   == <<row, basis>>
vars        == <<catalogVars, queueVars, tableVars, job, adrift, unchecked, unclaimed>>

-----------------------------------------------------------------------------
(* State spaces                                                            *)

\* A message carries (kind, refs): one ref from a signal, several from a bulk writer.
Messages == (SUBSET Refs) \ {{}}

IdleTask == [phase |-> "idle", todo |-> {}, ref |-> NoRef, got |-> 0, found |-> FALSE, rebuilt |-> {}]

\* Between two refs of the loop; the refs of `todo` are still to refresh.
Looping(todo, rebuilt) ==
    [phase |-> "loop", todo |-> todo, ref |-> NoRef, got |-> 0, found |-> FALSE, rebuilt |-> rebuilt]

\* Between the provider read of ref (version got, or LookupError) and the table write.
Reading(todo, rebuilt, ref, got, found) ==
    [phase |-> "read", todo |-> todo, ref |-> ref, got |-> got, found |-> found, rebuilt |-> rebuilt]

TaskStates ==
    [phase : {"idle", "loop", "read"}, todo : SUBSET Refs, ref : Refs \cup {NoRef},
     got : Nat, found : BOOLEAN, rebuilt : SUBSET Refs]

NoReads == [r \in Refs |-> 0]

IdleJob(mode) ==
    [phase |-> "idle", mode |-> mode, left |-> {}, known |-> {}, seen |-> {},
     chunk |-> {}, doomed |-> {}, got |-> NoReads]

\* left: refs the stream has not reached; chunk: items streamed and not yet written.
Streaming(mode, left, known, seen, chunk, got) ==
    [phase |-> "stream", mode |-> mode, left |-> left, known |-> known, seen |-> seen,
     chunk |-> chunk, doomed |-> {}, got |-> got]

Deleting(doomed, got) ==
    [phase |-> "delete", mode |-> "reconcile", left |-> {}, known |-> {}, seen |-> {},
     chunk |-> {}, doomed |-> doomed, got |-> got]

JobStates ==
    [phase : {"idle", "stream", "delete"}, mode : AllModes \cup {"none"},
     left : SUBSET Refs, known : SUBSET Refs, seen : SUBSET Refs,
     chunk : SUBSET Refs, doomed : SUBSET Refs, got : [Refs -> Nat]]

TypeOK ==
    /\ ver \in [Refs -> Nat] /\ live \in [Refs -> BOOLEAN]
    /\ draft \in [Refs -> {"none", "save", "delete"}] /\ hooks \subseteq Refs
    /\ due \in [Messages -> Nat] /\ queue \in [Messages -> Nat]
    /\ task \in [Workers -> TaskStates] /\ imageQueue \subseteq Refs
    /\ \A w \in Workers : (task[w].phase = "read") <=> (task[w].ref # NoRef)
    /\ row \in [Refs -> Nat] /\ basis \in [Refs -> Nat]
    /\ job \in JobStates
    /\ adrift \subseteq Refs /\ unchecked \subseteq Refs /\ unclaimed \subseteq Refs

(* A freshly migrated table over a catalog that already has items: those   *)
(* are missing until a command or a first signal brings them in.           *)
Init ==
    /\ ver = [r \in Refs |-> 1]
    /\ live \in [Refs -> BOOLEAN]
    /\ draft = [r \in Refs |-> "none"] /\ hooks = {}
    /\ due = [m \in Messages |-> 0] /\ queue = [m \in Messages |-> 0]
    /\ task = [w \in Workers |-> IdleTask]
    /\ imageQueue = {}
    /\ row = [r \in Refs |-> 0]
    /\ job = IdleJob("none")
    /\ basis = [r \in Refs |-> IF live[r] THEN 0 ELSE 1]
    /\ adrift = {r \in Refs : live[r]}
    /\ unchecked = {} /\ unclaimed = {}

-----------------------------------------------------------------------------
(* The catalog and its transactions                                        *)

\* A command vouches for no ref that others change or write while it runs.
NotedBy(S) == IF job.mode = "none" THEN unclaimed ELSE unclaimed \cup S

\* The catalog changes, drafts included, that MaxChanges leaves room for.
WithinBound(n) ==
    SumFunction(ver) + Cardinality({r \in Refs : draft[r] # "none"}) + n
        <= Cardinality(Refs) + MaxChanges

\* Bug: the handler enqueues inside the transaction, without on_commit.
SaveEnqueuesAtOnce(r) ==
    /\ draft[r] = "none" /\ WithinBound(1)
    /\ \E op \in {"save", "delete"} :
          /\ op = "delete" => live[r]
          /\ draft' = [draft EXCEPT ![r] = op]
    /\ due' = [due EXCEPT ![{r}] = @ + 1]
    /\ UNCHANGED <<ver, live, hooks, queue, task, imageQueue, tableVars, job, adrift, unchecked, unclaimed>>

(* A post_save / post_delete inside an open transaction: the handler has   *)
(* resolved the ref and registers the enqueue with transaction.on_commit.  *)
(* A second save in the same transaction only repeats the callback.        *)
Save(r) ==
    /\ draft[r] = "none" /\ WithinBound(1)
    /\ \E op \in {"save", "delete"} :
          /\ op = "delete" => live[r]
          /\ draft' = [draft EXCEPT ![r] = op]
    /\ hooks' = hooks \cup {r}
    /\ UNCHANGED <<ver, live, queueVars, tableVars, job, adrift, unchecked, unclaimed>>

\* The transaction that drafted S commits: its changes show, its callbacks are released.
Commit(S) ==
    /\ S # {} /\ \A r \in S : draft[r] # "none"
    /\ ver' = [r \in Refs |-> IF r \in S THEN ver[r] + 1 ELSE ver[r]]
    /\ live' = [r \in Refs |-> IF r \in S THEN draft[r] = "save" ELSE live[r]]
    /\ draft' = [r \in Refs |-> IF r \in S THEN "none" ELSE draft[r]]
    /\ hooks' = hooks \ S
    /\ due' = [m \in Messages |-> IF \E r \in S \cap hooks : m = {r} THEN due[m] + 1 ELSE due[m]]
    /\ unclaimed' = NotedBy(S)
    /\ UNCHANGED <<queue, task, imageQueue, tableVars, job, adrift, unchecked>>

Rollback(S) ==
    /\ S # {} /\ \A r \in S : draft[r] # "none"
    /\ draft' = [r \in Refs |-> IF r \in S THEN "none" ELSE draft[r]]
    /\ hooks' = hooks \ S
    /\ UNCHANGED <<ver, live, queueVars, tableVars, job, adrift, unchecked, unclaimed>>

(* A host that writes with bulk_create fires no signal and publishes one   *)
(* refresh_fingerprints(kind, refs) of its own after commit.               *)
BulkWrite(S) ==
    /\ S \in Messages /\ Cardinality(S) > 1
    /\ \A r \in S : draft[r] = "none"
    /\ WithinBound(Cardinality(S))
    /\ ver' = [r \in Refs |-> IF r \in S THEN ver[r] + 1 ELSE ver[r]]
    /\ live' = [r \in Refs |-> r \in S \/ live[r]]
    /\ due' = [due EXCEPT ![S] = @ + 1]
    /\ unclaimed' = NotedBy(S)
    /\ UNCHANGED <<draft, hooks, queue, task, imageQueue, tableVars, job, adrift, unchecked>>

\* A fixture load: the handler sees raw=True and returns, so nobody is told.
RawSave(r) ==
    /\ r \in RawRefs
    /\ draft[r] = "none" /\ WithinBound(1)
    /\ ver' = [ver EXCEPT ![r] = @ + 1]
    /\ live' = [live EXCEPT ![r] = TRUE]
    /\ adrift' = adrift \cup {r}
    /\ unclaimed' = NotedBy({r})
    /\ UNCHANGED <<draft, hooks, queueVars, tableVars, job, unchecked>>

\* Bug: a callback runs that was never registered, or runs twice.
PublishUnregistered(m) ==
    /\ due' = [due EXCEPT ![m] = @ - 1]
    /\ queue' = [queue EXCEPT ![m] = @ + 1]
    /\ UNCHANGED <<catalogVars, task, imageQueue, tableVars, job, adrift, unchecked, unclaimed>>

\* The on_commit callback reaches the broker ...
Publish(m) ==
    /\ due[m] > 0
    /\ due' = [due EXCEPT ![m] = @ - 1]
    /\ queue' = [queue EXCEPT ![m] = @ + 1]
    /\ UNCHANGED <<catalogVars, task, imageQueue, tableVars, job, adrift, unchecked, unclaimed>>

\* ... or fails, which _enqueue logs and swallows (or the process dies before running it).
PublishFails(m) ==
    /\ due[m] > 0
    /\ due' = [due EXCEPT ![m] = @ - 1]
    /\ adrift' = adrift \cup m
    /\ UNCHANGED <<catalogVars, queue, task, imageQueue, tableVars, job, unchecked, unclaimed>>

-----------------------------------------------------------------------------
(* The workers: refresh_fingerprint, refresh_fingerprints                  *)

(* What a write of the refs W, decided by reads of the versions got, means *)
(* for adrift: a write of the current version repairs the ref, one older   *)
(* than the write already in place undoes that newer write.                *)
AdriftAfter(W, got) ==
    (adrift \ {r \in W : got[r] = ver[r]}) \cup {r \in W : got[r] < basis[r]}

Take(w) ==
    /\ task[w].phase = "idle"
    /\ \E m \in Messages :
          /\ queue[m] > 0
          /\ queue' = [queue EXCEPT ![m] = @ - 1]
          /\ task' = [task EXCEPT ![w] = Looping(m, {})]
    /\ UNCHANGED <<catalogVars, due, imageQueue, tableVars, job, adrift, unchecked, unclaimed>>

\* get_provider(kind).get_item(ref): the item, or LookupError (found = FALSE).
ReadItem(w, r) ==
    /\ task[w].phase = "loop" /\ r \in task[w].todo
    /\ task' = [task EXCEPT ![w] = Reading(task[w].todo \ {r}, task[w].rebuilt, r, ver[r], live[r])]
    /\ UNCHANGED <<catalogVars, due, queue, imageQueue, tableVars, job, adrift, unchecked, unclaimed>>

\* Bug: the row of an item no longer served stays.
WriteRowOnlyUpserts(w) ==
    LET t == task[w]  r == t.ref IN
    /\ t.phase = "read"
    /\ row' = [row EXCEPT ![r] = IF t.found THEN t.got ELSE @]
    /\ basis' = [basis EXCEPT ![r] = t.got]
    /\ task' = [task EXCEPT ![w] = Looping(t.todo, IF t.found THEN t.rebuilt \cup {r} ELSE t.rebuilt)]
    /\ adrift' = AdriftAfter({r}, [x \in Refs |-> t.got])
    /\ unchecked' = IF t.found /\ ImagesOn THEN unchecked \cup {r} ELSE unchecked
    /\ unclaimed' = NotedBy({r})
    /\ UNCHANGED <<catalogVars, due, queue, imageQueue, job>>

(* The rest of fingerprint_service.refresh: the item found is built and    *)
(* upserted by (kind, ref); the row of an item no longer served goes.      *)
WriteRow(w) ==
    LET t == task[w]  r == t.ref IN
    /\ t.phase = "read"
    /\ row' = [row EXCEPT ![r] = IF t.found THEN t.got ELSE 0]
    /\ basis' = [basis EXCEPT ![r] = t.got]
    /\ task' = [task EXCEPT ![w] = Looping(t.todo, IF t.found THEN t.rebuilt \cup {r} ELSE t.rebuilt)]
    /\ adrift' = AdriftAfter({r}, [x \in Refs |-> t.got])
    /\ unchecked' = IF t.found /\ ImagesOn THEN unchecked \cup {r} ELSE unchecked
    /\ unclaimed' = NotedBy({r})
    /\ UNCHANGED <<catalogVars, due, queue, imageQueue, job>>

\* Bug: the task ends without handing its refs to the image layer.
FinishForgetsImages(w) ==
    /\ task[w].phase = "loop" /\ task[w].todo = {}
    /\ task' = [task EXCEPT ![w] = IdleTask]
    /\ UNCHANGED <<catalogVars, due, queue, imageQueue, tableVars, job, adrift, unchecked, unclaimed>>

\* The loop is over: the refs rebuilt go to the image layer in one message.
Finish(w) ==
    /\ task[w].phase = "loop" /\ task[w].todo = {}
    /\ task' = [task EXCEPT ![w] = IdleTask]
    /\ imageQueue' = IF ImagesOn THEN imageQueue \cup task[w].rebuilt ELSE imageQueue
    /\ UNCHANGED <<catalogVars, due, queue, tableVars, job, adrift, unchecked, unclaimed>>

(* The task dies: the worker is killed, the provider or the database       *)
(* raises, the image publish fails.  It was acknowledged on delivery, so   *)
(* neither the refs still to do nor the pictures of those done come back.  *)
Crash(w) ==
    /\ task[w].phase # "idle"
    /\ task' = [task EXCEPT ![w] = IdleTask]
    /\ adrift' = adrift \cup task[w].todo \cup ({task[w].ref} \ {NoRef})
    /\ unchecked' = unchecked \ task[w].rebuilt
    /\ UNCHANGED <<catalogVars, due, queue, imageQueue, tableVars, job, unclaimed>>

\* embed_fingerprint_images consumes a ref (what it does is module ImageLayer).
EmbedImages(r) ==
    /\ r \in imageQueue
    /\ imageQueue' = imageQueue \ {r}
    /\ unchecked' = unchecked \ {r}
    /\ UNCHANGED <<catalogVars, due, queue, task, tableVars, job, adrift, unclaimed>>

-----------------------------------------------------------------------------
(* lookup_backfill and lookup_reconcile                                    *)

\* `since` lets only some items through; which, is the provider's business.
StartBackfill ==
    /\ "backfill" \in Modes /\ job.phase = "idle"
    /\ \E S \in SUBSET Refs :
          /\ job' = Streaming("backfill", S, {}, {}, {}, NoReads)
          /\ unclaimed' = Refs \ S
    /\ UNCHANGED <<catalogVars, queueVars, tableVars, adrift, unchecked>>

\* known: one query over the refs of the kind, before the stream opens.
StartReconcile ==
    /\ "reconcile" \in Modes /\ job.phase = "idle"
    /\ job' = Streaming("reconcile", Refs, {r \in Refs : row[r] # 0}, {}, {}, NoReads)
    /\ unclaimed' = {}
    /\ UNCHANGED <<catalogVars, queueVars, tableVars, adrift, unchecked>>

\* provider.iter_items reaches ref r: an item it serves joins the batch being filled.
StreamItem(r) ==
    /\ job.phase = "stream" /\ r \in job.left /\ Cardinality(job.chunk) < Batch
    /\ job' = Streaming(job.mode, job.left \ {r}, job.known, job.seen,
                        IF live[r] THEN job.chunk \cup {r} ELSE job.chunk,
                        [job.got EXCEPT ![r] = ver[r]])
    /\ UNCHANGED <<catalogVars, queueVars, tableVars, adrift, unchecked, unclaimed>>

ChunkIsFull == Cardinality(job.chunk) = Batch \/ job.left = {}

\* Bug: refs that are known are not noted as seen.
UpsertChunkForgetsSkipped ==
    LET W == IF job.mode = "reconcile" THEN job.chunk \ job.known ELSE job.chunk IN
    /\ job.phase = "stream" /\ job.chunk # {} /\ ChunkIsFull
    /\ row' = [r \in Refs |-> IF r \in W THEN job.got[r] ELSE row[r]]
    /\ basis' = [r \in Refs |-> IF r \in W THEN job.got[r] ELSE basis[r]]
    /\ adrift' = AdriftAfter(W, job.got)
    /\ job' = Streaming(job.mode, job.left, job.known, job.seen \cup W, {}, job.got)
    /\ UNCHANGED <<catalogVars, queueVars, unchecked, unclaimed>>

\* Bug: rows that exist are left alone (ignore_conflicts).
UpsertChunkIgnoresConflicts ==
    LET W == job.chunk \ {r \in Refs : row[r] # 0} IN
    /\ job.phase = "stream" /\ job.chunk # {} /\ ChunkIsFull
    /\ row' = [r \in Refs |-> IF r \in W THEN job.got[r] ELSE row[r]]
    /\ basis' = [r \in Refs |-> IF r \in W THEN job.got[r] ELSE basis[r]]
    /\ adrift' = AdriftAfter(W, job.got)
    /\ job' = Streaming(job.mode, job.left, job.known, job.seen \cup job.chunk, {}, job.got)
    /\ UNCHANGED <<catalogVars, queueVars, unchecked, unclaimed>>

(* One bulk_create ... ON CONFLICT DO UPDATE: backfill writes the whole    *)
(* batch, reconcile only the refs that had no row when it started.         *)
UpsertChunk ==
    LET W == IF job.mode = "reconcile" THEN job.chunk \ job.known ELSE job.chunk IN
    /\ job.phase = "stream" /\ job.chunk # {} /\ ChunkIsFull
    /\ row' = [r \in Refs |-> IF r \in W THEN job.got[r] ELSE row[r]]
    /\ basis' = [r \in Refs |-> IF r \in W THEN job.got[r] ELSE basis[r]]
    /\ adrift' = AdriftAfter(W, job.got)
    /\ job' = Streaming(job.mode, job.left, job.known, job.seen \cup job.chunk, {}, job.got)
    /\ UNCHANGED <<catalogVars, queueVars, unchecked, unclaimed>>

EndStream ==
    /\ job.phase = "stream" /\ job.left = {} /\ job.chunk = {}
    /\ job' = IF job.mode = "backfill" THEN IdleJob("backfill")
              ELSE Deleting(job.known \ job.seen, job.got)
    /\ UNCHANGED <<catalogVars, queueVars, tableVars, adrift, unchecked, unclaimed>>

\* _delete_stale, one batch: DELETE ... WHERE ref IN (chunk).
DeleteStale ==
    /\ job.phase = "delete" /\ job.doomed # {}
    /\ \E D \in (SUBSET job.doomed) \ {{}} :
          /\ Cardinality(D) = Batch \/ (D = job.doomed /\ Cardinality(D) < Batch)
          /\ row' = [r \in Refs |-> IF r \in D THEN 0 ELSE row[r]]
          /\ basis' = [r \in Refs |-> IF r \in D THEN job.got[r] ELSE basis[r]]
          /\ adrift' = AdriftAfter(D, job.got)
          /\ job' = Deleting(job.doomed \ D, job.got)
    /\ UNCHANGED <<catalogVars, queueVars, unchecked, unclaimed>>

EndReconcile ==
    /\ job.phase = "delete" /\ job.doomed = {}
    /\ job' = IdleJob("reconcile")
    /\ UNCHANGED <<catalogVars, queueVars, tableVars, adrift, unchecked, unclaimed>>

KillJob ==
    /\ job.phase # "idle"
    /\ job' = IdleJob("none") /\ unclaimed' = {}
    /\ UNCHANGED <<catalogVars, queueVars, tableVars, adrift, unchecked>>

-----------------------------------------------------------------------------
Host ==
    \/ \E r \in Refs : Save(r) \/ RawSave(r)
    \/ \E S \in Messages : Commit(S) \/ Rollback(S) \/ BulkWrite(S)
    \/ \E m \in Messages : Publish(m) \/ PublishFails(m)

Worker(w) ==
    \/ Take(w)
    \/ \E r \in Refs : ReadItem(w, r)
    \/ WriteRow(w)
    \/ Finish(w)
    \/ Crash(w)

Job ==
    \/ StartBackfill
    \/ StartReconcile
    \/ \E r \in Refs : StreamItem(r)
    \/ UpsertChunk
    \/ EndStream
    \/ DeleteStale
    \/ EndReconcile
    \/ KillJob

Next ==
    \/ Host
    \/ \E w \in Workers : Worker(w)
    \/ \E r \in Refs : EmbedImages(r)
    \/ Job

Spec == Init /\ [][Next]_vars

-----------------------------------------------------------------------------
(* Properties                                                              *)

Fresh(r) == row[r] = IF live[r] THEN ver[r] ELSE 0

\* A message naming r waits for its callback or on the queue.
Announced(r) == \E m \in Messages : r \in m /\ (due[m] > 0 \/ queue[m] > 0)

\* A task will still read r, or has read its current version and not written it.
InHand(r) ==
    \E w \in Workers : \/ r \in task[w].todo
                       \/ task[w].ref = r /\ task[w].got = ver[r]

Owed(r) == Announced(r) \/ InHand(r)

(* A fingerprint differs from its item only while a refresh of it is owed, *)
(* except after one of the events that adrift names: an enqueue the broker *)
(* refused, a task that died, a write the catalog does not signal, or a    *)
(* write of an older read over a newer one.  No other interleaving of      *)
(* transactions, tasks and commands leaves a row stale for good.           *)
StaleIsOwed == \A r \in Refs : Fresh(r) \/ Owed(r) \/ r \in adrift

(* The index as Mirror sees it: what the provider serves, what the table   *)
(* holds of it, and the refreshes under way or gone missing.               *)
Index == INSTANCE Mirror WITH
    Values <- Nat,
    item <- [r \in Refs |-> IF live[r] THEN ver[r] ELSE 0],
    copy <- row,
    owed <- {r \in Refs : Owed(r)},
    lost <- adrift

(* The tasks, transactions and commands together keep Mirror's promise:    *)
(* nothing but the write of the current version makes good a lost refresh, *)
(* and no step drops a debt, or puts an outdated row, without the ref      *)
(* being owed another refresh or having been hit by an adrift event.       *)
FollowsTheCatalog == Index!Spec

(* The inductive strengthening of StaleIsOwed.  Versions only grow, and    *)
(* what decided a row was never ahead of the catalog ...                   *)
VersionsInOrder == \A r \in Refs : ver[r] > 0 /\ basis[r] <= ver[r]

(* ... a row decided by the current version is the right one ...           *)
CurrentBasisIsFresh == \A r \in Refs : basis[r] = ver[r] => Fresh(r)

(* ... an open transaction has its callback registered ...                 *)
DraftsAreHooked == \A r \in Refs : draft[r] # "none" => r \in hooks

(* ... a read kept by a task or by the command is of a version the item    *)
(* had and, while the item keeps it, of what the provider serves ...       *)
TaskReads ==
    \A w \in Workers : LET t == task[w] IN
        /\ t.phase = "read" => t.got <= ver[t.ref] /\ (t.got = ver[t.ref] => t.found = live[t.ref])
        /\ t.phase = "idle" => t.todo = {}

JobReads ==
    \A r \in Refs :
        /\ job.got[r] <= ver[r]
        /\ r \in job.left => r \notin job.chunk
        /\ r \in job.chunk /\ job.got[r] = ver[r] => live[r]
        /\ job.phase = "stream" /\ r \notin job.left \cup job.chunk \cup job.seen
              /\ job.got[r] = ver[r] => ~live[r]
        /\ job.phase = "delete" /\ r \in job.doomed /\ job.got[r] = ver[r] => ~live[r]

(* ... and a row decided by an older version is owed a refresh or adrift.  *)
OldBasisIsOwed == \A r \in Refs : basis[r] = ver[r] \/ Owed(r) \/ r \in adrift

FreshnessInv ==
    /\ TypeOK /\ VersionsInOrder /\ CurrentBasisIsFresh /\ DraftsAreHooked
    /\ TaskReads /\ JobReads /\ OldBasisIsOwed

(* A ref a task has rebuilt reaches embed_fingerprint_images: until it     *)
(* has, its message is queued or the task that owes the publish is alive.  *)
RebuiltIsHandedOver ==
    \A r \in unchecked : r \in imageQueue \/ \E w \in Workers : r \in task[w].rebuilt

(* Once lookup_reconcile ends, every ref that nobody else changed or wrote *)
(* meanwhile has a row exactly when the provider serves it.                *)
ReconcileRepairsPresence ==
    job.phase = "idle" /\ job.mode = "reconcile" =>
        \A r \in Refs \ unclaimed : (row[r] # 0) <=> live[r]

(* Once lookup_backfill ends, every served item it covered and that nobody *)
(* else changed or wrote meanwhile has an up-to-date row, whatever its row *)
(* held before.                                                            *)
BackfillRefreshes ==
    job.phase = "idle" /\ job.mode = "backfill" =>
        \A r \in Refs \ unclaimed : live[r] => row[r] = ver[r]

(* signals.py says of a lost enqueue that the stale fingerprint is         *)
(* recoverable with lookup_reconcile: once the command has ended, a ref    *)
(* nobody touched meanwhile would be fresh, or at least owed a refresh.    *)
ReconcileRepairsStaleness ==
    job.phase = "idle" /\ job.mode = "reconcile" =>
        \A r \in Refs \ unclaimed : Fresh(r) \/ Owed(r)

(* A stale row becomes fresh again, unless one of the adrift events hits   *)
(* its ref first.                                                          *)
EventuallyFresh == \A r \in Refs : ~Fresh(r) ~> (Fresh(r) \/ r \in adrift)

=============================================================================
