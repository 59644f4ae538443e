----------------------------- MODULE ImageLayer ------------------------------
(***************************************************************************)
(* The image columns of the fingerprint table (services/image_service.py): *)
(* embed_fingerprint_images tasks read the rows of their refs, fetch and   *)
(* hash each picture, embed the changed ones in one call and write the     *)
(* columns back with one bulk_update.  Several workers may do so at once,  *)
(* while pictures change, rows come and go and workers restart with        *)
(* another embedding model.                                                *)
(*                                                                         *)
(* A picture is a model value; its SHA-1 and its pHash are written         *)
(* together and stand for the picture itself.  A vector is the picture and *)
(* the model it was computed from.  How a refresh of the text becomes due  *)
(* and never gets lost unnoticed is module Freshness.                      *)
(***************************************************************************)
EXTENDS Naturals, FiniteSets, Functions

CONSTANTS
    Refs, Workers,
    Pictures,    \* pictures the catalog may serve
    Unusable,    \* those load_and_crop rejects
    Models,      \* vec_model stamps a process may be configured with
    NullModel,   \* provider "none": every embedding call is refused
    Nothing,     \* a NULL column, no picture, no row
    ImageBatch,  \* constants.IMAGE_TASK_BATCH
    MaxChanges,  \* bound: picture changes, over all refs
    MaxPk,       \* bound: rows created per ref
    MaxRuns      \* bound: lookup_backfill --images runs

VARIABLES
    pic,          \* the picture the provider serves for each ref
    pver,         \* how many times it changed
    refreshOwed,  \* refs whose text refresh is on its way
    table,        \* the image columns of each ref's row
    queue,        \* bag of embed_fingerprint_images messages
    task,         \* what each worker is doing
    model,        \* each worker process's current_model_id()
    pks, runs,    \* counters behind the bounds MaxPk and MaxRuns
    settledAt,    \* history: picture version the row was last hashed or checked against
    adrift        \* history: refs whose picture was missed with nothing left to retry it

vars == <<pic, pver, refreshOwed, table, queue, task, model, pks, runs, settledAt, adrift>>

-----------------------------------------------------------------------------
Messages == (SUBSET Refs) \ {{}}
Vectors == [of : Pictures, by : Models]
Rows == [pk : Nat, hash : Pictures \cup {Nothing}, vec : Vectors \cup {Nothing}, stamp : Models \cup {Nothing}]
NoneOf == [r \in Refs |-> Nothing]
IdleTask == [busy |-> FALSE, todo |-> {}, held |-> NoneOf, prepared |-> NoneOf, at |-> [r \in Refs |-> 0]]
TaskStates ==
    [busy : BOOLEAN, todo : SUBSET Refs, held : [Refs -> Rows \cup {Nothing}],
     prepared : [Refs -> Pictures \cup {Nothing}], at : [Refs -> Nat]]

ASSUME ImageLayerAssumption ==
    /\ Unusable \subseteq Pictures /\ NullModel \in Models
    /\ Nothing \notin Pictures \cup Models /\ Nothing \notin Vectors /\ Nothing \notin Rows
    /\ ImageBatch \in Nat \ {0}
    /\ MaxChanges \in Nat /\ MaxPk \in Nat /\ MaxRuns \in Nat

TypeOK ==
    /\ pic \in [Refs -> Pictures \cup {Nothing}] /\ pver \in [Refs -> Nat]
    /\ refreshOwed \subseteq Refs /\ adrift \subseteq Refs
    /\ table \in [Refs -> Rows \cup {Nothing}]
    /\ queue \in [Messages -> Nat]
    /\ task \in [Workers -> TaskStates] /\ model \in [Workers -> Models]
    /\ pks \in [Refs -> Nat] /\ runs \in Nat /\ settledAt \in [Refs -> Nat]

\* An empty table, and new items whose first refresh is on its way.
Init ==
    /\ pic \in [Refs -> Pictures \cup {Nothing}] /\ pver = [r \in Refs |-> 0]
    /\ refreshOwed = {r \in Refs : pic[r] # Nothing} /\ adrift = {}
    /\ table = NoneOf
    /\ queue = [m \in Messages |-> 0]
    /\ task = [w \in Workers |-> IdleTask]
    /\ \E m \in Models : model = [w \in Workers |-> m]
    /\ pks = [r \in Refs |-> 0] /\ runs = 0 /\ settledAt = [r \in Refs |-> 0]

-----------------------------------------------------------------------------
(* The catalog, the text refresh and the operator                          *)

\* The main picture of an item changes, appears or goes with its item.
ChangePicture(r) ==
    /\ SumFunction(pver) < MaxChanges
    /\ \E p \in (Pictures \cup {Nothing}) \ {pic[r]} : pic' = [pic EXCEPT ![r] = p]
    /\ pver' = [pver EXCEPT ![r] = @ + 1]
    /\ refreshOwed' = refreshOwed \cup {r}
    /\ UNCHANGED <<table, queue, task, model, pks, runs, settledAt, adrift>>

(* refresh_fingerprint finds the item: a new row starts with NULL image    *)
(* columns, an existing one keeps them (_UPSERT_FIELDS has none of them),  *)
(* and the picture is re-checked by a task of its own.                     *)
RefreshRow(r) ==
    /\ r \in refreshOwed
    /\ refreshOwed' = refreshOwed \ {r}
    /\ IF table[r] # Nothing THEN UNCHANGED <<table, pks, settledAt>>
       ELSE /\ pks[r] < MaxPk
            /\ pks' = [pks EXCEPT ![r] = @ + 1]
            /\ table' = [table EXCEPT ![r] =
                  [pk |-> pks[r] + 1, hash |-> Nothing, vec |-> Nothing, stamp |-> Nothing]]
            /\ settledAt' = [settledAt EXCEPT ![r] = 0]
    /\ queue' = [queue EXCEPT ![{r}] = @ + 1]
    /\ UNCHANGED <<pic, pver, task, model, runs, adrift>>

\* It does not: the row goes (a reconcile does the same for an item that is gone).
DeleteRow(r) ==
    /\ r \in refreshOwed /\ pic[r] = Nothing
    /\ refreshOwed' = refreshOwed \ {r}
    /\ table' = [table EXCEPT ![r] = Nothing]
    /\ UNCHANGED <<pic, pver, queue, task, model, pks, runs, settledAt, adrift>>

\* enqueue_images: every row's ref, in messages of at most ImageBatch.
EnqueueImages ==
    LET refs == {r \in Refs : table[r] # Nothing} IN
    /\ runs < MaxRuns
    /\ runs' = runs + 1
    /\ \E P \in SUBSET (SUBSET refs \ {{}}) :
          /\ UNION P = refs
          /\ \A a, b \in P : a # b => a \cap b = {}
          /\ \A a \in P : Cardinality(a) <= ImageBatch
          /\ Cardinality({a \in P : Cardinality(a) < ImageBatch}) <= 1
          /\ queue' = [m \in Messages |-> IF m \in P THEN queue[m] + 1 ELSE queue[m]]
    /\ UNCHANGED <<pic, pver, refreshOwed, table, task, model, pks, settledAt, adrift>>

\* A worker restarts with another LOOKUP_EMBEDDING (settings are read per process).
Reconfigure(w) ==
    /\ ~task[w].busy
    /\ \E m \in Models \ {model[w]} : model' = [model EXCEPT ![w] = m]
    /\ UNCHANGED <<pic, pver, refreshOwed, table, queue, task, pks, runs, settledAt, adrift>>

-----------------------------------------------------------------------------
(* embed_refs                                                              *)

\* The task starts: one query loads the rows of its refs; a ref without one is dropped.
Take(w) ==
    /\ ~task[w].busy
    /\ \E m \in Messages :
          /\ queue[m] > 0
          /\ queue' = [queue EXCEPT ![m] = @ - 1]
          /\ task' = [task EXCEPT ![w] =
                [IdleTask EXCEPT !.busy = TRUE, !.todo = {r \in m : table[r] # Nothing},
                                 !.held = [r \in Refs |-> IF r \in m THEN table[r] ELSE Nothing]]]
    /\ UNCHANGED <<pic, pver, refreshOwed, table, model, pks, runs, settledAt, adrift>>

\* The loop over the rows goes past r.
Past(w, r) == [task[w] EXCEPT !.todo = task[w].todo \ {r}]

\* _prepare finds nothing to do: no picture, or bytes Pillow cannot use.
NoPicture(w, r) ==
    /\ r \in task[w].todo /\ pic[r] \in Unusable \cup {Nothing}
    /\ task' = [task EXCEPT ![w] = Past(w, r)]
    /\ UNCHANGED <<pic, pver, refreshOwed, table, queue, model, pks, runs, settledAt, adrift>>

\* _safe swallows an unreachable picture: the row is skipped, the batch goes on.
FetchFails(w, r) ==
    /\ r \in task[w].todo /\ pic[r] # Nothing
    /\ task' = [task EXCEPT ![w] = Past(w, r)]
    /\ adrift' = adrift \cup {r}
    /\ UNCHANGED <<pic, pver, refreshOwed, table, queue, model, pks, runs, settledAt>>

\* Bug: the stamp alone decides, not the bytes of the picture.
SkipUnchangedPicture(w, r) ==
    LET row == task[w].held[r] IN
    /\ r \in task[w].todo /\ row.stamp = model[w]
    /\ task' = [task EXCEPT ![w] = Past(w, r)]
    /\ settledAt' = [settledAt EXCEPT ![r] = pver[r]]
    /\ UNCHANGED <<pic, pver, refreshOwed, table, queue, model, pks, runs, adrift>>

(* Same bytes as the row loaded at the start was hashed from, and the      *)
(* current model's stamp: nothing new.  If another task has rewritten the  *)
(* row since, the check was made against columns it no longer has.         *)
Skip(w, r) ==
    LET row == task[w].held[r] IN
    /\ r \in task[w].todo
    /\ pic[r] = row.hash /\ row.stamp = model[w]
    /\ task' = [task EXCEPT ![w] = Past(w, r)]
    /\ IF table[r] = row
       THEN settledAt' = [settledAt EXCEPT ![r] = pver[r]] /\ UNCHANGED adrift
       ELSE adrift' = adrift \cup {r} /\ UNCHANGED settledAt
    /\ UNCHANGED <<pic, pver, refreshOwed, table, queue, model, pks, runs>>

\* Anything else is hashed and joins the embedding call.
Prepare(w, r) ==
    LET row == task[w].held[r] IN
    /\ r \in task[w].todo
    /\ pic[r] \in Pictures \ Unusable
    /\ ~(pic[r] = row.hash /\ row.stamp = model[w])
    /\ task' = [task EXCEPT ![w] =
          [Past(w, r) EXCEPT !.prepared = [task[w].prepared EXCEPT ![r] = pic[r]],
                             !.at = [task[w].at EXCEPT ![r] = pver[r]]]]
    /\ UNCHANGED <<pic, pver, refreshOwed, table, queue, model, pks, runs, settledAt, adrift>>

Prepared(w) == {r \in Refs : task[w].prepared[r] # Nothing}

\* bulk_update: the rows still there under the primary key that was loaded.
Written(w) == {r \in Prepared(w) : table[r] # Nothing /\ table[r].pk = task[w].held[r].pk}

\* Bug: vec_model is written only where there was none yet.
ColumnsKeepStamp(w, r, answered) ==
    LET old == task[w].held[r]  new == task[w].prepared[r] IN
    [pk |-> old.pk, hash |-> new,
     vec |-> IF answered THEN [of |-> new, by |-> model[w]] ELSE old.vec,
     stamp |-> IF answered /\ old.stamp = Nothing THEN model[w] ELSE old.stamp]

\* Bug: a vector is written although the backend did not answer.
ColumnsOfNoAnswer(w, r, answered) ==
    LET old == task[w].held[r]  new == task[w].prepared[r] IN
    [pk |-> old.pk, hash |-> new,
     vec |-> [of |-> new, by |-> IF answered THEN model[w] ELSE Nothing],
     stamp |-> IF answered THEN model[w] ELSE old.stamp]

\* _apply: hashes always; vector and stamp only when the backend answered.
Columns(w, r, answered) ==
    LET old == task[w].held[r]  new == task[w].prepared[r] IN
    [pk |-> old.pk, hash |-> new,
     vec |-> IF answered THEN [of |-> new, by |-> model[w]] ELSE old.vec,
     stamp |-> IF answered THEN model[w] ELSE old.stamp]

(* The embedding call answers for all prepared pictures or for none, then  *)
(* one bulk_update writes their columns.                                   *)
Store(w) ==
    LET W == Written(w)  at == task[w].at IN
    /\ task[w].busy /\ task[w].todo = {} /\ Prepared(w) # {}
    /\ \E answered \in BOOLEAN :
          /\ model[w] = NullModel => ~answered
          /\ table' = [r \in Refs |-> IF r \in W THEN Columns(w, r, answered) ELSE table[r]]
    /\ task' = [task EXCEPT ![w] = IdleTask]
    /\ settledAt' = [r \in Refs |-> IF r \in W /\ at[r] > settledAt[r] THEN at[r] ELSE settledAt[r]]
    /\ adrift' = (adrift \ {r \in W : at[r] = pver[r]}) \cup {r \in W : at[r] < settledAt[r]}
    /\ UNCHANGED <<pic, pver, refreshOwed, queue, model, pks, runs>>

\* No row had anything new: the task ends without an embedding call or a write.
NothingNew(w) ==
    /\ task[w].busy /\ task[w].todo = {} /\ Prepared(w) = {}
    /\ task' = [task EXCEPT ![w] = IdleTask]
    /\ UNCHANGED <<pic, pver, refreshOwed, table, queue, model, pks, runs, settledAt, adrift>>

\* A task that dies was acknowledged on delivery.
Crash(w) ==
    /\ task[w].busy
    /\ task' = [task EXCEPT ![w] = IdleTask]
    /\ adrift' = adrift \cup task[w].todo \cup Prepared(w)
    /\ UNCHANGED <<pic, pver, refreshOwed, table, queue, model, pks, runs, settledAt>>

-----------------------------------------------------------------------------
Environment ==
    \/ \E r \in Refs : ChangePicture(r) \/ RefreshRow(r) \/ DeleteRow(r)
    \/ EnqueueImages

Worker(w) ==
    \/ Take(w)
    \/ \E r \in Refs : NoPicture(w, r) \/ FetchFails(w, r) \/ Skip(w, r) \/ Prepare(w, r)
    \/ Store(w)
    \/ NothingNew(w)
    \/ Crash(w)
    \/ Reconfigure(w)

Next == Environment \/ \E w \in Workers : Worker(w)

Spec == Init /\ [][Next]_vars

-----------------------------------------------------------------------------
(* Properties                                                              *)

\* The row has been hashed from the picture the catalog serves, where there is one to hash.
Hashed(r) == table[r] = Nothing \/ pic[r] \in Unusable \cup {Nothing} \/ table[r].hash = pic[r]

Announced(r) == r \in refreshOwed \/ \E m \in Messages : r \in m /\ queue[m] > 0

InHand(r) ==
    \E w \in Workers : r \in task[w].todo \/ (r \in Prepared(w) /\ task[w].at[r] = pver[r])

(* A row still carrying the hashes of an earlier picture has a recheck     *)
(* under way, except after an event adrift names: a fetch that failed, a   *)
(* task that died, a store of an older picture over a newer one, or a skip *)
(* decided on columns another task had meanwhile rewritten.                *)
StaleHashIsOwed == \A r \in Refs : Hashed(r) \/ Announced(r) \/ InHand(r) \/ r \in adrift

(* vec_model always names the model that computed image_vec, and is NULL   *)
(* with it, whatever tasks of differently configured workers overlap: the  *)
(* vector leg filters on the stamp and never compares two models' vectors, *)
(* and a row without a vector is never skipped as already embedded.        *)
StampMatchesVector ==
    \A r \in Refs : table[r] # Nothing =>
        \/ table[r].vec = Nothing /\ table[r].stamp = Nothing
        \/ table[r].vec # Nothing /\ table[r].stamp = table[r].vec.by

(* docs/operations.md: a dead embedding backend leaves image_vec NULL, so  *)
(* that the next run retries.  A vector would then always be of the        *)
(* picture the row was last hashed from.                                   *)
VectorIsOfHashedPicture ==
    \A r \in Refs : table[r] # Nothing /\ table[r].vec # Nothing => table[r].vec.of = table[r].hash

=============================================================================
