-------------------------- MODULE ImageLayerProofs ---------------------------
(* Theorems about ImageLayer, for every set of refs, workers, pictures and models. *)
EXTENDS ImageLayer, TLAPS

(* What a task holds: it works on rows it has loaded, and an idle task     *)
(* holds none.                                                             *)
HeldInv ==
    \A w \in Workers :
        /\ \A r \in task[w].todo \cup Prepared(w) : task[w].held[r] # Nothing
        /\ ~task[w].busy => task[w].todo = {} /\ Prepared(w) = {}

(* In every row of the table, and every row a task still holds, the stamp  *)
(* names the model of the vector.                                          *)
Stamped(row) ==
    \/ row = Nothing
    \/ row.vec = Nothing /\ row.stamp = Nothing
    \/ row.vec # Nothing /\ row.stamp = row.vec.by

StampInv == \A r \in Refs : Stamped(table[r]) /\ \A w \in Workers : Stamped(task[w].held[r])

(* Versions only grow, and a picture prepared at the version its item      *)
(* still has is the picture the catalog serves ...                         *)
VersionsInv ==
    \A r \in Refs :
        /\ settledAt[r] <= pver[r]
        /\ \A w \in Workers : task[w].at[r] <= pver[r]
        /\ \A w \in Workers : task[w].prepared[r] # Nothing /\ task[w].at[r] = pver[r]
                                 => task[w].prepared[r] = pic[r]

(* ... a task that will write r writes the row r has now: it holds its     *)
(* primary key, and a row recreated meanwhile is not its own ...           *)
Writes(w, r) ==
    /\ r \in task[w].todo \/ (task[w].prepared[r] # Nothing /\ task[w].at[r] = pver[r])
    /\ task[w].held[r].pk = table[r].pk

WillWrite(r) == \E w \in Workers : Writes(w, r)

(* ... and a row either was last settled at the current version, with its  *)
(* hashes, or is to be rechecked by a task that will write it.             *)
Settled(r) ==
    \/ table[r] = Nothing
    \/ pic[r] \in Unusable \cup {Nothing}
    \/ settledAt[r] = pver[r] /\ table[r].hash = pic[r]

SeenTo(r) == Settled(r) \/ Announced(r) \/ WillWrite(r) \/ r \in adrift

SettledInv == \A r \in Refs : SeenTo(r)

ImageLayerInv == TypeOK /\ HeldInv /\ StampInv /\ VersionsInv /\ SettledInv

-----------------------------------------------------------------------------
(* Types, and what the tasks hold                                          *)

\* A step of one task leaves the others'.
LEMMA OneTask ==
  ASSUME task \in [Workers -> TaskStates], NEW w \in Workers, NEW t \in TaskStates,
         task' = [task EXCEPT ![w] = t]
  PROVE  task' \in [Workers -> TaskStates] /\ \A v \in Workers : task'[v] = IF v = w THEN t ELSE task[v]
  OBVIOUS

\* An idle task is a task, and holds nothing.
LEMMA IdleHolds ==
  /\ IdleTask \in TaskStates /\ ~IdleTask.busy /\ IdleTask.todo = {}
  /\ \A r \in Refs : IdleTask.prepared[r] = Nothing /\ IdleTask.held[r] = Nothing /\ IdleTask.at[r] = 0
  BY DEF IdleTask, TaskStates, NoneOf

\* The fields of a task, and of the task gone past a ref.
LEMMA TaskFields ==
  ASSUME task \in [Workers -> TaskStates], NEW w \in Workers
  PROVE  /\ task[w].todo \subseteq Refs /\ task[w].busy \in BOOLEAN
         /\ task[w].held \in [Refs -> Rows \cup {Nothing}]
         /\ task[w].prepared \in [Refs -> Pictures \cup {Nothing}]
         /\ task[w].at \in [Refs -> Nat]
         /\ \A r \in Refs : /\ Past(w, r) \in TaskStates
                            /\ Past(w, r).busy = task[w].busy
                            /\ Past(w, r).todo = task[w].todo \ {r}
                            /\ Past(w, r).held = task[w].held
                            /\ Past(w, r).prepared = task[w].prepared
                            /\ Past(w, r).at = task[w].at
<1>1. task[w] \in TaskStates
  OBVIOUS
<1> QED
  BY <1>1 DEF TaskStates, Past

\* The task a message starts: the rows there are, as they are.
Started(m) ==
    [IdleTask EXCEPT !.busy = TRUE, !.todo = {r \in m : table[r] # Nothing},
                     !.held = [r \in Refs |-> IF r \in m THEN table[r] ELSE Nothing]]

\* It holds the rows of its refs and has prepared nothing.
LEMMA StartedFields ==
  ASSUME TypeOK, NEW m \in Messages
  PROVE  /\ Started(m) \in TaskStates /\ Started(m).busy
         /\ Started(m).todo = {r \in m : table[r] # Nothing}
         /\ Started(m).held = [r \in Refs |-> IF r \in m THEN table[r] ELSE Nothing]
         /\ \A r \in Refs : Started(m).prepared[r] = Nothing /\ Started(m).at[r] = 0
  BY DEF TypeOK, Messages, Started, IdleTask, TaskStates, NoneOf

\* The task that has prepared the picture of r.
Holding(w, r) ==
    [Past(w, r) EXCEPT !.prepared = [task[w].prepared EXCEPT ![r] = pic[r]],
                       !.at = [task[w].at EXCEPT ![r] = pver[r]]]

\* It holds what it held, and beside it the picture of r and the version of that picture.
LEMMA HoldingFields ==
  ASSUME TypeOK, NEW w \in Workers, NEW r \in Refs
  PROVE  /\ Holding(w, r) \in TaskStates /\ Holding(w, r).busy = task[w].busy
         /\ Holding(w, r).todo = task[w].todo \ {r} /\ Holding(w, r).held = task[w].held
         /\ \A x \in Refs : /\ Holding(w, r).prepared[x] = IF x = r THEN pic[r] ELSE task[w].prepared[x]
                            /\ Holding(w, r).at[x] = IF x = r THEN pver[r] ELSE task[w].at[x]
<1>1. task[w] \in TaskStates /\ pic[r] \in Pictures \cup {Nothing} /\ pver[r] \in Nat
  BY DEF TypeOK
<1> QED
  BY <1>1 DEF TaskStates, Past, Holding

\* What one bulk_update writes of a ref is a row.
LEMMA ColumnsAreRows ==
  ASSUME TypeOK, HeldInv, NEW w \in Workers, NEW r \in Prepared(w), NEW answered \in BOOLEAN
  PROVE  /\ task[w].held[r] \in Rows /\ task[w].prepared[r] \in Pictures
         /\ Columns(w, r, answered) \in Rows
         /\ Columns(w, r, answered).pk = task[w].held[r].pk
         /\ Columns(w, r, answered).hash = task[w].prepared[r]
<1>1. r \in Refs /\ task[w].prepared[r] # Nothing
  BY DEF Prepared
<1>2. task[w].held[r] # Nothing
  BY DEF HeldInv
<1>3. task[w].held[r] \in Rows /\ task[w].prepared[r] \in Pictures /\ model[w] \in Models
  BY <1>1, <1>2, TaskFields DEF TypeOK
<1>4. [of |-> task[w].prepared[r], by |-> model[w]] \in Vectors
  BY <1>3 DEF Vectors
<1> QED
  BY <1>3, <1>4 DEF Columns, Rows

\* No task, no picture prepared, no row without type.
LEMMA TypeInit == Init => TypeOK /\ HeldInv
<1> SUFFICES ASSUME Init PROVE TypeOK /\ HeldInv
  OBVIOUS
<1>1. TypeOK
  BY IdleHolds, ImageLayerAssumption DEF Init, TypeOK, NoneOf
<1>2. HeldInv
  BY IdleHolds DEF Init, HeldInv, Prepared
<1> QED
  BY <1>1, <1>2

\* The command puts one more message on the queue for each batch of some partition.
LEMMA OneBatching ==
  ASSUME EnqueueImages
  PROVE  \E P : queue' = [m \in Messages |-> IF m \in P THEN queue[m] + 1 ELSE queue[m]]
<1>1. \E P \in SUBSET (SUBSET {r \in Refs : table[r] # Nothing} \ {{}}) :
         queue' = [m \in Messages |-> IF m \in P THEN queue[m] + 1 ELSE queue[m]]
  BY Zenon DEF EnqueueImages
<1> QED
  BY <1>1, Zenon

\* The catalog, the text refresh and the operator touch no task.
LEMMA EnvironmentType == TypeOK /\ Environment => TypeOK'
<1> SUFFICES ASSUME TypeOK, Environment PROVE TypeOK'
  OBVIOUS
<1> USE DEF TypeOK
<1>1. ASSUME NEW r \in Refs, ChangePicture(r) PROVE TypeOK'
  BY <1>1 DEF ChangePicture
<1>2. ASSUME NEW r \in Refs, RefreshRow(r) PROVE TypeOK'
  <2>1. {r} \in Messages
    BY DEF Messages
  <2>2. queue' \in [Messages -> Nat] /\ refreshOwed' \subseteq Refs
    BY <1>2, <2>1 DEF RefreshRow
  <2>3. [pk |-> pks[r] + 1, hash |-> Nothing, vec |-> Nothing, stamp |-> Nothing] \in Rows
    BY DEF Rows
  <2>4. table' \in [Refs -> Rows \cup {Nothing}] /\ pks' \in [Refs -> Nat] /\ settledAt' \in [Refs -> Nat]
    BY <1>2, <2>3 DEF RefreshRow
  <2> QED
    BY <1>2, <2>2, <2>4 DEF RefreshRow
<1>3. ASSUME NEW r \in Refs, DeleteRow(r) PROVE TypeOK'
  BY <1>3 DEF DeleteRow
<1>4. CASE EnqueueImages
  <2>1. PICK P : queue' = [m \in Messages |-> IF m \in P THEN queue[m] + 1 ELSE queue[m]]
    BY <1>4, OneBatching
  <2>2. queue' \in [Messages -> Nat] /\ runs' \in Nat
    BY <1>4, <2>1 DEF EnqueueImages
  <2> QED
    BY <1>4, <2>2 DEF EnqueueImages
<1> QED
  BY <1>1, <1>2, <1>3, <1>4 DEF Environment

\* A task's step replaces that task by one that holds rows it has loaded.
LEMMA TaskHeld ==
  ASSUME TypeOK, HeldInv, NEW w \in Workers, NEW t \in TaskStates, task' = [task EXCEPT ![w] = t],
         \A r \in Refs : r \in t.todo \/ t.prepared[r] # Nothing => t.held[r] # Nothing,
         ~t.busy => t.todo = {} /\ \A r \in Refs : t.prepared[r] = Nothing
  PROVE  HeldInv'
<1>1. \A v \in Workers : task'[v] = IF v = w THEN t ELSE task[v]
  BY OneTask DEF TypeOK
<1>2. t.todo \subseteq Refs
  BY DEF TaskStates
<1> QED
  BY <1>1, <1>2 DEF HeldInv, Prepared

\* A task works only on refs whose rows it holds, and a bulk update writes rows.
LEMMA WorkerType == ASSUME TypeOK, HeldInv, NEW w \in Workers, Worker(w) PROVE TypeOK' /\ HeldInv'
<1>1. /\ task \in [Workers -> TaskStates] /\ table \in [Refs -> Rows \cup {Nothing}]
      /\ task[w].todo \subseteq Refs
  BY TaskFields DEF TypeOK
<1>2. \A r \in Refs : r \in task[w].todo \/ task[w].prepared[r] # Nothing => task[w].held[r] # Nothing
  BY <1>1 DEF HeldInv, Prepared
<1>3. ASSUME UNCHANGED <<pic, pver, refreshOwed, table, queue, model, pks, runs>>,
             task' \in [Workers -> TaskStates], settledAt' \in [Refs -> Nat], adrift' \subseteq Refs
      PROVE  TypeOK'
  BY <1>3 DEF TypeOK
<1>4. CASE Take(w)
  <2>1. PICK m \in Messages : /\ queue' = [queue EXCEPT ![m] = @ - 1] /\ queue[m] > 0
                              /\ task' = [task EXCEPT ![w] = Started(m)]
    BY <1>4 DEF Take, Started
  <2>2. TypeOK'
    <3>1. queue' \in [Messages -> Nat]
      BY <2>1 DEF TypeOK
    <3>2. task' \in [Workers -> TaskStates]
      BY <1>1, <2>1, StartedFields, OneTask
    <3> QED
      BY <1>4, <3>1, <3>2 DEF Take, TypeOK
  <2>3. HeldInv'
    <3> DEFINE t == Started(m)
    <3>1. t \in TaskStates /\ t.busy
      BY StartedFields
    <3>2. ASSUME NEW r \in Refs, r \in t.todo \/ t.prepared[r] # Nothing PROVE t.held[r] # Nothing
      <4>1. r \in m /\ table[r] # Nothing
        BY <3>2, StartedFields
      <4>2. t.held = [x \in Refs |-> IF x \in m THEN table[x] ELSE Nothing]
        BY StartedFields
      <4> HIDE DEF t
      <4> QED
        BY <4>1, <4>2
    <3>3. task' = [task EXCEPT ![w] = t]
      BY <2>1
    <3> HIDE DEF t
    <3> QED
      BY <3>1, <3>2, <3>3, TaskHeld
  <2> QED
    BY <2>2, <2>3
<1>5. ASSUME NEW r \in Refs, NoPicture(w, r) \/ FetchFails(w, r) \/ Skip(w, r) PROVE TypeOK' /\ HeldInv'
  <2>1. task' = [task EXCEPT ![w] = Past(w, r)] /\ r \in task[w].todo
    BY <1>5 DEF NoPicture, FetchFails, Skip
  <2>2. task' \in [Workers -> TaskStates]
    BY <1>1, <2>1, TaskFields, OneTask
  <2>3. settledAt' \in [Refs -> Nat] /\ adrift' \subseteq Refs
    BY <1>5 DEF NoPicture, FetchFails, Skip, TypeOK
  <2>4. TypeOK'
    BY <1>3, <1>5, <2>2, <2>3 DEF NoPicture, FetchFails, Skip
  <2>5. task[w].busy
    BY <2>1 DEF HeldInv
  <2>6. HeldInv'
    <3> DEFINE t == Past(w, r)
    <3>1. t \in TaskStates /\ t.busy
      BY <1>1, <2>5, TaskFields
    <3>2. \A x \in Refs : x \in t.todo \/ t.prepared[x] # Nothing => t.held[x] # Nothing
      BY <1>1, <1>2, TaskFields
    <3>3. task' = [task EXCEPT ![w] = t]
      BY <2>1
    <3> HIDE DEF t
    <3> QED
      BY <3>1, <3>2, <3>3, TaskHeld
  <2> QED
    BY <2>4, <2>6
<1>6. ASSUME NEW r \in Refs, Prepare(w, r) PROVE TypeOK' /\ HeldInv'
  <2>1. task' = [task EXCEPT ![w] = Holding(w, r)] /\ r \in task[w].todo
    BY <1>6 DEF Prepare, Holding
  <2>2. task' \in [Workers -> TaskStates]
    BY <1>1, <2>1, HoldingFields, OneTask
  <2>3. TypeOK'
    BY <1>3, <1>6, <2>2 DEF Prepare, TypeOK
  <2>4. task[w].busy
    BY <2>1 DEF HeldInv
  <2>5. HeldInv'
    <3> DEFINE t == Holding(w, r)
    <3>1. t \in TaskStates /\ t.busy
      BY <2>4, HoldingFields
    <3>2. \A x \in Refs : x \in t.todo \/ t.prepared[x] # Nothing => t.held[x] # Nothing
      BY <1>2, <2>1, HoldingFields
    <3>3. task' = [task EXCEPT ![w] = t]
      BY <2>1
    <3> HIDE DEF t
    <3> QED
      BY <3>1, <3>2, <3>3, TaskHeld
  <2> QED
    BY <2>3, <2>5
<1>7. ASSUME task' = [task EXCEPT ![w] = IdleTask] PROVE task' \in [Workers -> TaskStates] /\ HeldInv'
  BY <1>1, <1>7, IdleHolds, OneTask, TaskHeld
<1>8. CASE Store(w)
  <2>1. PICK answered \in BOOLEAN :
           table' = [r \in Refs |-> IF r \in Written(w) THEN Columns(w, r, answered) ELSE table[r]]
    BY <1>8 DEF Store
  <2>2. \A r \in Written(w) : Columns(w, r, answered) \in Rows
    BY ColumnsAreRows DEF Written
  <2>3. table' \in [Refs -> Rows \cup {Nothing}]
    BY <1>1, <2>1, <2>2
  <2>4. settledAt' \in [Refs -> Nat]
    BY <1>8, TaskFields DEF Store, TypeOK
  <2>5. adrift' \subseteq Refs
    BY <1>8 DEF Store, TypeOK, Written, Prepared
  <2> QED
    BY <1>7, <1>8, <2>3, <2>4, <2>5 DEF Store, TypeOK
<1>9. CASE NothingNew(w)
  BY <1>3, <1>7, <1>9 DEF NothingNew, TypeOK
<1>10. CASE Crash(w)
  <2>1. adrift' \subseteq Refs
    BY <1>1, <1>10 DEF Crash, TypeOK, Prepared
  <2> QED
    BY <1>3, <1>7, <1>10, <2>1 DEF Crash, TypeOK
<1>11. CASE Reconfigure(w)
  BY <1>11 DEF Reconfigure, TypeOK, HeldInv, Prepared
<1> QED
  BY <1>4, <1>5, <1>6, <1>8, <1>9, <1>10, <1>11 DEF Worker

\* Types stay, whoever takes the step.
LEMMA TypeNext == TypeOK /\ HeldInv /\ [Next]_vars => TypeOK' /\ HeldInv'
<1> SUFFICES ASSUME TypeOK, HeldInv, [Next]_vars PROVE TypeOK' /\ HeldInv'
  OBVIOUS
<1>1. UNCHANGED task => HeldInv'
  BY DEF HeldInv, Prepared
<1>2. CASE Environment
  BY <1>1, <1>2, EnvironmentType DEF Environment, ChangePicture, RefreshRow, DeleteRow, EnqueueImages
<1>3. CASE UNCHANGED vars
  BY <1>1, <1>3 DEF vars, TypeOK
<1> QED
  BY <1>2, <1>3, WorkerType DEF Next

(* Every variable of the image layer keeps its type: a task only ever      *)
(* writes rows it has loaded, and pictures where columns expect pictures.  *)
THEOREM TypeCorrect == Spec => []TypeOK
<1> QED
  BY TypeInit, TypeNext, PTL DEF Spec

-----------------------------------------------------------------------------
(* Stamps                                                                  *)

\* Written columns are stamped if the row held was: a new vector takes its model's stamp.
LEMMA ColumnsAreStamped ==
  ASSUME TypeOK, HeldInv, StampInv, NEW w \in Workers, NEW r \in Prepared(w), NEW answered \in BOOLEAN
  PROVE  Stamped(Columns(w, r, answered))
<1> DEFINE new == [of |-> task[w].prepared[r], by |-> model[w]]
<1>1. r \in Refs /\ task[w].held[r] # Nothing
  BY DEF Prepared, HeldInv
<1>2. Stamped(task[w].held[r])
  BY <1>1 DEF StampInv
<1>3. new \in Vectors
  BY ColumnsAreRows DEF Vectors, TypeOK
<1>4. new # Nothing /\ new.by = model[w]
  BY <1>3, ImageLayerAssumption
<1>5. CASE answered
  <2>1. Columns(w, r, answered).vec = new /\ Columns(w, r, answered).stamp = model[w]
    BY <1>5 DEF Columns
  <2> HIDE DEF new
  <2> QED
    BY <1>4, <2>1 DEF Stamped
<1>6. CASE ~answered
  <2>1. /\ Columns(w, r, answered).vec = task[w].held[r].vec
        /\ Columns(w, r, answered).stamp = task[w].held[r].stamp
    BY <1>6 DEF Columns
  <2> QED
    BY <1>1, <1>2, <2>1 DEF Stamped
<1> QED
  BY <1>5, <1>6

\* Rows are loaded from the table, kept as they are, and written back by Columns.
LEMMA StampNext == TypeOK /\ HeldInv /\ StampInv /\ [Next]_vars => StampInv'
<1> SUFFICES ASSUME TypeOK, HeldInv, StampInv, [Next]_vars PROVE StampInv'
  OBVIOUS
<1>1. task \in [Workers -> TaskStates] /\ table \in [Refs -> Rows \cup {Nothing}]
  BY DEF TypeOK
<1>2. CASE UNCHANGED <<table, task>>
  BY <1>2 DEF StampInv
<1>3. ASSUME NEW w \in Workers, NEW t \in TaskStates, task' = [task EXCEPT ![w] = t],
             \A r \in Refs : Stamped(t.held[r]), \A r \in Refs : Stamped(table'[r])
      PROVE  StampInv'
  <2>1. \A v \in Workers : task'[v] = IF v = w THEN t ELSE task[v]
    BY <1>1, <1>3, OneTask
  <2> QED
    BY <1>3, <2>1 DEF StampInv
<1>4. Stamped(Nothing)
  BY DEF Stamped
<1>5. CASE Environment
  <2>1. ASSUME UNCHANGED task, NEW r \in Refs, NEW row, Stamped(row), table' = [table EXCEPT ![r] = row]
        PROVE  StampInv'
    BY <1>1, <2>1 DEF StampInv
  <2>2. ASSUME NEW r \in Refs, RefreshRow(r) PROVE StampInv'
    <3> DEFINE row == [pk |-> pks[r] + 1, hash |-> Nothing, vec |-> Nothing, stamp |-> Nothing]
    <3>1. Stamped(row)
      BY DEF Stamped
    <3>2. UNCHANGED table \/ table' = [table EXCEPT ![r] = row]
      BY <2>2 DEF RefreshRow
    <3>3. UNCHANGED task
      BY <2>2 DEF RefreshRow
    <3> HIDE DEF row
    <3> QED
      BY <1>2, <2>1, <3>1, <3>2, <3>3
  <2>3. ASSUME NEW r \in Refs, DeleteRow(r) PROVE StampInv'
    BY <1>4, <2>1, <2>3 DEF DeleteRow
  <2> QED
    BY <1>2, <1>5, <2>2, <2>3 DEF Environment, ChangePicture, EnqueueImages
<1>6. ASSUME NEW w \in Workers, Worker(w) PROVE StampInv'
  <2>1. \A r \in Refs : Stamped(table[r]) /\ Stamped(task[w].held[r])
    BY DEF StampInv
  <2>2. CASE Take(w)
    <3>1. PICK m \in Messages : task' = [task EXCEPT ![w] = Started(m)]
      BY <2>2 DEF Take, Started
    <3>2. UNCHANGED table
      BY <2>2 DEF Take
    <3>3. \A r \in Refs : Started(m).held[r] = IF r \in m THEN table[r] ELSE Nothing
      BY StartedFields
    <3>4. Started(m) \in TaskStates /\ \A r \in Refs : Stamped(Started(m).held[r])
      BY <1>4, <2>1, <3>3, StartedFields
    <3> QED
      BY <1>3, <2>1, <3>1, <3>2, <3>4
  <2>3. ASSUME NEW r \in Refs, NoPicture(w, r) \/ FetchFails(w, r) \/ Skip(w, r) PROVE StampInv'
    <3>1. task' = [task EXCEPT ![w] = Past(w, r)] /\ UNCHANGED table
      BY <2>3 DEF NoPicture, FetchFails, Skip
    <3>2. Past(w, r) \in TaskStates /\ Past(w, r).held = task[w].held
      BY <1>1, TaskFields
    <3> QED
      BY <1>3, <2>1, <3>1, <3>2
  <2>4. ASSUME NEW r \in Refs, Prepare(w, r) PROVE StampInv'
    <3>1. task' = [task EXCEPT ![w] = Holding(w, r)] /\ UNCHANGED table
      BY <2>4 DEF Prepare, Holding
    <3>2. Holding(w, r) \in TaskStates /\ Holding(w, r).held = task[w].held
      BY HoldingFields
    <3> QED
      BY <1>3, <2>1, <3>1, <3>2
  <2>5. ASSUME task' = [task EXCEPT ![w] = IdleTask], \A r \in Refs : Stamped(table'[r]) PROVE StampInv'
    BY <1>3, <1>4, <2>5, IdleHolds
  <2>6. CASE Store(w)
    <3>1. PICK answered \in BOOLEAN :
             table' = [r \in Refs |-> IF r \in Written(w) THEN Columns(w, r, answered) ELSE table[r]]
      BY <2>6 DEF Store
    <3>2. \A r \in Written(w) : Stamped(Columns(w, r, answered))
      BY ColumnsAreStamped DEF Written
    <3> QED
      BY <2>1, <2>5, <2>6, <3>1, <3>2 DEF Store
  <2>7. CASE NothingNew(w) \/ Crash(w)
    BY <2>1, <2>5, <2>7 DEF NothingNew, Crash
  <2>8. CASE Reconfigure(w)
    BY <1>2, <2>8 DEF Reconfigure
  <2> QED
    BY <1>6, <2>2, <2>3, <2>4, <2>6, <2>7, <2>8 DEF Worker
<1>7. CASE UNCHANGED vars
  BY <1>2, <1>7 DEF vars
<1> QED
  BY <1>5, <1>6, <1>7 DEF Next

(* The stamp of every row names the model that computed its vector and is  *)
(* NULL with it, however many workers of however many models overlap, and  *)
(* whichever of their calls fail: a row kept while its picture is fetched  *)
(* is written back with a vector and a stamp of one and the same call.     *)
THEOREM StampsMatch == Spec => []StampMatchesVector
<1>1. Init => StampInv
  BY IdleHolds DEF Init, StampInv, Stamped, NoneOf
<1>2. StampInv => StampMatchesVector
  BY DEF StampInv, Stamped, StampMatchesVector
<1> QED
  BY <1>1, <1>2, TypeInit, TypeNext, StampNext, PTL DEF Spec

-----------------------------------------------------------------------------
(* Hashes                                                                  *)

\* A change outdates what was prepared; a fetch prepares what is served now.
LEMMA VersionsNext == TypeOK /\ HeldInv /\ VersionsInv /\ [Next]_vars => VersionsInv'
<1> SUFFICES ASSUME TypeOK, HeldInv, VersionsInv, [Next]_vars PROVE VersionsInv'
  OBVIOUS
<1>1. /\ task \in [Workers -> TaskStates] /\ pver \in [Refs -> Nat] /\ settledAt \in [Refs -> Nat]
      /\ pic \in [Refs -> Pictures \cup {Nothing}]
  BY DEF TypeOK
<1>2. \A w \in Workers : \A r \in Refs : task[w].at[r] \in Nat
  BY <1>1, TaskFields
<1>3. ASSUME UNCHANGED <<pic, pver, task>>, \A r \in Refs : settledAt'[r] <= pver[r] PROVE VersionsInv'
  BY <1>3 DEF VersionsInv
<1>4. CASE UNCHANGED <<pic, pver, task, settledAt>>
  BY <1>3, <1>4 DEF VersionsInv
<1>5. ASSUME NEW w \in Workers, NEW t \in TaskStates, task' = [task EXCEPT ![w] = t],
             UNCHANGED <<pic, pver>>, \A r \in Refs : settledAt'[r] <= pver[r],
             \A r \in Refs : /\ t.at[r] <= pver[r]
                             /\ t.prepared[r] # Nothing /\ t.at[r] = pver[r] => t.prepared[r] = pic[r]
      PROVE  VersionsInv'
  <2>1. \A v \in Workers : task'[v] = IF v = w THEN t ELSE task[v]
    BY <1>1, <1>5, OneTask
  <2> QED
    BY <1>5, <2>1 DEF VersionsInv
<1>6. \A r \in Refs : settledAt[r] <= pver[r] /\ 0 <= pver[r]
  BY <1>1 DEF VersionsInv
<1>7. CASE Environment
  <2>1. ASSUME NEW r \in Refs, ChangePicture(r) PROVE VersionsInv'
    <3>1. \A x \in Refs : /\ pver'[x] = IF x = r THEN pver[x] + 1 ELSE pver[x]
                          /\ x # r => pic'[x] = pic[x]
      BY <1>1, <2>1 DEF ChangePicture
    <3>2. UNCHANGED <<task, settledAt>>
      BY <2>1 DEF ChangePicture
    <3> QED
      BY <1>1, <1>2, <3>1, <3>2 DEF VersionsInv
  <2>2. ASSUME NEW r \in Refs, RefreshRow(r) PROVE VersionsInv'
    <3>1. \A x \in Refs : settledAt'[x] = settledAt[x] \/ settledAt'[x] = 0
      BY <1>1, <2>2 DEF RefreshRow
    <3> QED
      BY <1>3, <1>6, <2>2, <3>1 DEF RefreshRow
  <2> QED
    BY <1>4, <1>7, <2>1, <2>2 DEF Environment, DeleteRow, EnqueueImages
<1>8. ASSUME NEW w \in Workers, Worker(w) PROVE VersionsInv'
  <2>1. CASE Take(w)
    <3>1. PICK m \in Messages : task' = [task EXCEPT ![w] = Started(m)]
      BY <2>1 DEF Take, Started
    <3>2. /\ Started(m) \in TaskStates
          /\ \A r \in Refs : Started(m).at[r] = 0 /\ Started(m).prepared[r] = Nothing
      BY StartedFields
    <3>3. UNCHANGED <<pic, pver, settledAt>>
      BY <2>1 DEF Take
    <3> QED
      BY <1>5, <1>6, <3>1, <3>2, <3>3
  <2>2. ASSUME NEW r \in Refs, NoPicture(w, r) \/ FetchFails(w, r) \/ Skip(w, r) PROVE VersionsInv'
    <3>1. task' = [task EXCEPT ![w] = Past(w, r)] /\ UNCHANGED <<pic, pver>>
      BY <2>2 DEF NoPicture, FetchFails, Skip
    <3>2. \A x \in Refs : settledAt'[x] <= pver[x]
      BY <1>1, <1>6, <2>2 DEF NoPicture, FetchFails, Skip
    <3>3. /\ Past(w, r) \in TaskStates /\ Past(w, r).at = task[w].at
          /\ Past(w, r).prepared = task[w].prepared
      BY <1>1, TaskFields
    <3> QED
      BY <1>5, <3>1, <3>2, <3>3 DEF VersionsInv
  <2>3. ASSUME NEW r \in Refs, Prepare(w, r) PROVE VersionsInv'
    <3> DEFINE t == Holding(w, r)
    <3>1. task' = [task EXCEPT ![w] = t] /\ UNCHANGED <<pic, pver, settledAt>>
      BY <2>3 DEF Prepare, Holding
    <3>2. /\ t \in TaskStates
          /\ \A x \in Refs : /\ t.prepared[x] = IF x = r THEN pic[r] ELSE task[w].prepared[x]
                             /\ t.at[x] = IF x = r THEN pver[r] ELSE task[w].at[x]
      BY HoldingFields
    <3>3. \A x \in Refs : /\ t.at[x] <= pver[x]
                          /\ t.prepared[x] # Nothing /\ t.at[x] = pver[x] => t.prepared[x] = pic[x]
      BY <1>1, <3>2 DEF VersionsInv
    <3> HIDE DEF t
    <3> QED
      BY <1>5, <1>6, <3>1, <3>2, <3>3
  <2>4. ASSUME task' = [task EXCEPT ![w] = IdleTask], UNCHANGED <<pic, pver>>,
               \A r \in Refs : settledAt'[r] <= pver[r]
        PROVE  VersionsInv'
    BY <1>5, <1>6, <2>4, IdleHolds
  <2>5. CASE Store(w)
    <3>1. \A r \in Refs : settledAt'[r] \in {settledAt[r], task[w].at[r]}
      BY <2>5 DEF Store
    <3>2. \A r \in Refs : settledAt'[r] <= pver[r]
      BY <1>6, <3>1 DEF VersionsInv
    <3> QED
      BY <2>4, <2>5, <3>2 DEF Store
  <2>6. CASE NothingNew(w) \/ Crash(w)
    BY <1>6, <2>4, <2>6 DEF NothingNew, Crash
  <2>7. CASE Reconfigure(w)
    BY <1>4, <2>7 DEF Reconfigure
  <2> QED
    BY <1>8, <2>1, <2>2, <2>3, <2>5, <2>6, <2>7 DEF Worker
<1>9. CASE UNCHANGED vars
  BY <1>4, <1>9 DEF vars
<1> QED
  BY <1>7, <1>8, <1>9 DEF Next

\* What a step leaves alone at r stays seen to.
LEMMA SeenToStays ==
  ASSUME NEW r \in Refs, SeenTo(r),
         pic'[r] = pic[r], pver'[r] = pver[r], table'[r] = table[r], settledAt'[r] = settledAt[r],
         Announced(r) => Announced(r)', WillWrite(r) => WillWrite(r)', r \in adrift => r \in adrift'
  PROVE  SeenTo(r)'
  BY DEF SeenTo, Settled

\* A step of one task leaves the others to write what they will.
LEMMA OthersWrite ==
  ASSUME TypeOK, NEW w \in Workers, NEW t \in TaskStates, task' = [task EXCEPT ![w] = t],
         NEW r \in Refs, pver'[r] = pver[r], table'[r].pk = table[r].pk, WillWrite(r), ~Writes(w, r)
  PROVE  WillWrite(r)'
<1>1. \A v \in Workers : v # w => task'[v] = task[v]
  BY OneTask DEF TypeOK
<1>2. PICK v \in Workers : Writes(v, r)
  BY DEF WillWrite
<1>3. v # w
  BY <1>2
<1>4. Writes(v, r)'
  BY <1>1, <1>2, <1>3 DEF Writes
<1> QED
  BY <1>4 DEF WillWrite

\* A change, a refresh and an operator's run announce their refs.
LEMMA EnvironmentSettles == ASSUME TypeOK, Environment, NEW r \in Refs, SeenTo(r) PROVE SeenTo(r)'
<1>1. /\ pver \in [Refs -> Nat] /\ settledAt \in [Refs -> Nat] /\ queue \in [Messages -> Nat]
      /\ pic \in [Refs -> Pictures \cup {Nothing}] /\ table \in [Refs -> Rows \cup {Nothing}]
      /\ {r} \in Messages
  BY DEF TypeOK, Messages
<1>2. SeenTo(r)
  OBVIOUS
<1>3. ASSUME UNCHANGED <<task, adrift>>, pic'[r] = pic[r], pver'[r] = pver[r], table'[r] = table[r],
             settledAt'[r] = settledAt[r], r \in refreshOwed => r \in refreshOwed',
             \A m \in Messages : queue[m] > 0 => queue'[m] > 0
      PROVE  SeenTo(r)'
  <2>1. Announced(r) => Announced(r)'
    BY <1>3 DEF Announced
  <2>2. WillWrite(r) => WillWrite(r)'
    BY <1>3 DEF WillWrite, Writes
  <2> QED
    BY <1>2, <1>3, <2>1, <2>2, SeenToStays
<1>4. ASSUME NEW x \in Refs, ChangePicture(x) PROVE SeenTo(r)'
  <2>1. CASE x = r
    BY <1>4, <2>1 DEF ChangePicture, SeenTo, Announced
  <2>2. CASE x # r
    BY <1>1, <1>3, <1>4, <2>2 DEF ChangePicture
  <2> QED
    BY <2>1, <2>2
<1>5. ASSUME NEW x \in Refs, RefreshRow(x) PROVE SeenTo(r)'
  <2>1. queue' = [queue EXCEPT ![{x}] = @ + 1] /\ {x} \in Messages
    BY <1>5 DEF RefreshRow, Messages
  <2>2. CASE x = r
    <3>1. queue'[{r}] > 0
      BY <1>1, <2>1, <2>2
    <3> QED
      BY <1>1, <3>1 DEF SeenTo, Announced
  <2>3. CASE x # r
    <3>1. \A m \in Messages : queue[m] > 0 => queue'[m] > 0
      BY <1>1, <2>1
    <3>2. table'[r] = table[r] /\ settledAt'[r] = settledAt[r]
      BY <1>1, <1>5, <2>3 DEF RefreshRow
    <3> QED
      BY <1>3, <1>5, <2>3, <3>1, <3>2 DEF RefreshRow
  <2> QED
    BY <2>2, <2>3
<1>6. ASSUME NEW x \in Refs, DeleteRow(x) PROVE SeenTo(r)'
  <2>1. CASE x = r
    BY <1>1, <1>6, <2>1 DEF DeleteRow, SeenTo, Settled
  <2>2. CASE x # r
    BY <1>1, <1>3, <1>6, <2>2 DEF DeleteRow
  <2> QED
    BY <2>1, <2>2
<1>7. CASE EnqueueImages
  <2>1. PICK P : queue' = [m \in Messages |-> IF m \in P THEN queue[m] + 1 ELSE queue[m]]
    BY <1>7, OneBatching
  <2>2. \A m \in Messages : queue[m] > 0 => queue'[m] > 0
    BY <1>1, <2>1
  <2> QED
    BY <1>3, <1>7, <2>2 DEF EnqueueImages
<1> QED
  BY <1>4, <1>5, <1>6, <1>7 DEF Environment

(* A task takes a debt over with the row it loads, settles it by a skip or *)
(* a write of that row, or leaves the ref adrift.                          *)
LEMMA WorkerSettles ==
  ASSUME TypeOK, HeldInv, VersionsInv, NEW w \in Workers, Worker(w), NEW r \in Refs, SeenTo(r)
  PROVE  SeenTo(r)'
<1>1. /\ task \in [Workers -> TaskStates] /\ pver \in [Refs -> Nat] /\ settledAt \in [Refs -> Nat]
      /\ pic \in [Refs -> Pictures \cup {Nothing}] /\ table \in [Refs -> Rows \cup {Nothing}]
      /\ queue \in [Messages -> Nat]
  BY DEF TypeOK
<1>2. SeenTo(r)
  OBVIOUS
<1>3. /\ task[w].todo \subseteq Refs /\ task[w].at[r] \in Nat
      /\ task[w].prepared[r] # Nothing <=> r \in Prepared(w)
  BY <1>1, TaskFields DEF Prepared
<1>4. ASSUME NEW t \in TaskStates, task' = [task EXCEPT ![w] = t],
             UNCHANGED <<pic, pver, refreshOwed, queue, table>>, settledAt'[r] = settledAt[r],
             adrift \subseteq adrift',
             Writes(w, r) => SeenTo(r)'
      PROVE  SeenTo(r)'
  <2>1. Announced(r) => Announced(r)'
    BY <1>4 DEF Announced
  <2>2. CASE Writes(w, r)
    BY <1>4, <2>2
  <2>3. CASE ~Writes(w, r)
    <3>1. WillWrite(r) => WillWrite(r)'
      BY <1>4, <2>3, OthersWrite
    <3> QED
      BY <1>2, <1>4, <2>1, <3>1, SeenToStays
  <2> QED
    BY <2>2, <2>3
<1>5. ASSUME NEW t \in TaskStates, task' = [task EXCEPT ![w] = t], UNCHANGED <<pver, table>>,
             r \in t.todo \/ (t.prepared[r] # Nothing /\ t.at[r] = pver[r]), t.held[r].pk = table[r].pk
      PROVE  SeenTo(r)'
  <2>1. task'[w] = t
    BY <1>1, <1>5
  <2> QED
    BY <1>5, <2>1 DEF SeenTo, WillWrite, Writes
<1>6. CASE Take(w)
  <2>1. PICK m \in Messages : /\ queue[m] > 0 /\ queue' = [queue EXCEPT ![m] = @ - 1]
                              /\ task' = [task EXCEPT ![w] = Started(m)]
    BY <1>6 DEF Take, Started
  <2>2. UNCHANGED <<pic, pver, refreshOwed, table, settledAt, adrift>> /\ ~task[w].busy
    BY <1>6 DEF Take
  <2>3. Started(m) \in TaskStates /\ Started(m).todo = {x \in m : table[x] # Nothing}
    BY StartedFields
  <2>4. CASE r \in m /\ table[r] = Nothing
    BY <2>2, <2>4 DEF SeenTo, Settled
  <2>5. CASE r \in m /\ table[r] # Nothing
    <3>1. r \in Started(m).todo /\ Started(m).held[r].pk = table[r].pk
      <4>1. r \in Started(m).todo
        BY <2>3, <2>5
      <4>2. Started(m).held = [x \in Refs |-> IF x \in m THEN table[x] ELSE Nothing]
        BY StartedFields
      <4>3. Started(m).held[r] = table[r]
        BY <2>5, <4>2
      <4> QED
        BY <4>1, <4>3
    <3> QED
      BY <1>5, <2>1, <2>2, <2>3, <3>1
  <2>6. CASE r \notin m
    <3>1. \A x \in Messages : r \in x => queue'[x] = queue[x]
      BY <1>1, <2>1, <2>6
    <3>2. Announced(r) => Announced(r)'
      BY <2>2, <3>1 DEF Announced
    <3>3. ~Writes(w, r)
      BY <1>3, <2>2 DEF HeldInv, Writes
    <3>4. WillWrite(r) => WillWrite(r)'
      BY <2>1, <2>2, <2>3, <3>3, OthersWrite
    <3> QED
      BY <1>2, <2>2, <3>2, <3>4, SeenToStays
  <2> QED
    BY <2>4, <2>5, <2>6
<1>7. ASSUME NEW x \in Refs, NoPicture(w, x) \/ FetchFails(w, x) \/ Skip(w, x) PROVE SeenTo(r)'
  <2> DEFINE t == Past(w, x)
  <2>1. /\ task' = [task EXCEPT ![w] = t] /\ x \in task[w].todo
        /\ UNCHANGED <<pic, pver, refreshOwed, queue, table>>
    BY <1>7 DEF NoPicture, FetchFails, Skip
  <2>2. /\ t \in TaskStates /\ t.todo = task[w].todo \ {x} /\ t.held = task[w].held
        /\ t.prepared = task[w].prepared /\ t.at = task[w].at
    BY <1>1, TaskFields
  <2>3. adrift \subseteq adrift' /\ (r # x => settledAt'[r] = settledAt[r])
    BY <1>1, <1>7 DEF NoPicture, FetchFails, Skip
  <2> HIDE DEF t
  <2>4. CASE r # x
    <3>1. Writes(w, r) => SeenTo(r)'
      BY <1>5, <2>1, <2>2, <2>4 DEF Writes
    <3> QED
      BY <1>4, <2>1, <2>2, <2>3, <2>4, <3>1
  <2>5. CASE r = x /\ NoPicture(w, x)
    BY <2>1, <2>5 DEF NoPicture, SeenTo, Settled
  <2>6. CASE r = x /\ FetchFails(w, x)
    BY <2>6 DEF FetchFails, SeenTo
  <2>7. CASE r = x /\ Skip(w, x)
    <3>1. CASE table[r] = task[w].held[r]
      <4>1. settledAt'[r] = pver[r] /\ table[r].hash = pic[r]
        BY <1>1, <2>7, <3>1 DEF Skip
      <4> QED
        BY <2>1, <4>1 DEF SeenTo, Settled
    <3>2. CASE table[r] # task[w].held[r]
      BY <2>7, <3>2 DEF Skip, SeenTo
    <3> QED
      BY <3>1, <3>2
  <2> QED
    BY <1>7, <2>4, <2>5, <2>6, <2>7
<1>8. ASSUME NEW x \in Refs, Prepare(w, x) PROVE SeenTo(r)'
  <2> DEFINE t == Holding(w, x)
  <2>1. /\ task' = [task EXCEPT ![w] = t] /\ pic[x] \in Pictures
        /\ UNCHANGED <<pic, pver, refreshOwed, queue, table, settledAt, adrift>>
    BY <1>8 DEF Prepare, Holding
  <2>2. /\ t \in TaskStates /\ t.todo = task[w].todo \ {x} /\ t.held = task[w].held
        /\ t.prepared[r] = IF r = x THEN pic[x] ELSE task[w].prepared[r]
        /\ t.at[r] = IF r = x THEN pver[x] ELSE task[w].at[r]
    BY HoldingFields
  <2>3. pic[x] # Nothing
    BY <2>1, ImageLayerAssumption
  <2> HIDE DEF t
  <2>4. Writes(w, r) => SeenTo(r)'
    BY <1>5, <2>1, <2>2, <2>3 DEF Writes
  <2> QED
    BY <1>4, <2>1, <2>2, <2>4
<1>9. CASE Store(w)
  <2>1. PICK answered \in BOOLEAN :
           table' = [x \in Refs |-> IF x \in Written(w) THEN Columns(w, x, answered) ELSE table[x]]
    BY <1>9 DEF Store
  <2>2. /\ task' = [task EXCEPT ![w] = IdleTask] /\ task[w].todo = {}
        /\ UNCHANGED <<pic, pver, refreshOwed, queue>>
        /\ settledAt'[r] = IF r \in Written(w) /\ task[w].at[r] > settledAt[r]
                           THEN task[w].at[r] ELSE settledAt[r]
        /\ adrift' = (adrift \ {x \in Written(w) : task[w].at[x] = pver[x]})
                          \cup {x \in Written(w) : task[w].at[x] < settledAt[x]}
    BY <1>9 DEF Store
  <2>3. Announced(r) => Announced(r)'
    BY <2>2 DEF Announced
  <2>4. task[w].at[r] <= pver[r] /\ settledAt[r] <= pver[r]
    BY DEF VersionsInv
  <2>5. CASE r \notin Written(w)
    <3>1. table'[r] = table[r]
      BY <2>1, <2>5
    <3>2. CASE table[r] = Nothing
      BY <3>1, <3>2 DEF SeenTo, Settled
    <3>3. CASE table[r] # Nothing
      <4>1. ~Writes(w, r)
        BY <1>3, <2>2, <2>5, <3>3 DEF Writes, Written
      <4>2. WillWrite(r) => WillWrite(r)'
        BY <2>2, <3>1, <4>1, IdleHolds, OthersWrite
      <4> QED
        BY <1>2, <2>2, <2>3, <2>5, <3>1, <4>2, SeenToStays
    <3> QED
      BY <3>2, <3>3
  <2>6. ASSUME r \in Written(w) PROVE SeenTo(r)'
    <3>1. table'[r] = Columns(w, r, answered)
      BY <2>1, <2>6
    <3>2. r \in Prepared(w) /\ table[r] # Nothing /\ table[r].pk = task[w].held[r].pk
      BY <2>6 DEF Written
    <3>3. table'[r].hash = task[w].prepared[r] /\ table'[r].pk = table[r].pk
      BY <3>1, <3>2, ColumnsAreRows
    <3>4. CASE task[w].at[r] = pver[r]
      <4>1. task[w].prepared[r] = pic[r]
        BY <1>3, <3>2, <3>4 DEF VersionsInv
      <4>2. settledAt'[r] = pver[r]
        BY <1>1, <2>2, <2>4, <2>6, <3>4
      <4> QED
        BY <2>2, <3>3, <4>1, <4>2 DEF SeenTo, Settled
    <3>5. CASE task[w].at[r] # pver[r] /\ settledAt[r] = pver[r]
      <4>1. task[w].at[r] < settledAt[r]
        BY <1>1, <1>3, <2>4, <3>5
      <4> QED
        BY <2>2, <2>6, <4>1 DEF SeenTo
    <3>6. CASE task[w].at[r] # pver[r] /\ settledAt[r] # pver[r]
      <4>1. ~Writes(w, r)
        BY <2>2, <3>6 DEF Writes
      <4>2. WillWrite(r) => WillWrite(r)'
        BY <2>2, <3>3, <4>1, IdleHolds, OthersWrite
      <4>3. r \in adrift => r \in adrift'
        BY <2>2, <3>6
      <4>4. pic[r] \in Unusable \cup {Nothing} \/ Announced(r) \/ WillWrite(r) \/ r \in adrift
        BY <1>2, <3>2, <3>6 DEF SeenTo, Settled
      <4> QED
        BY <2>2, <2>3, <4>2, <4>3, <4>4 DEF SeenTo, Settled
    <3> QED
      BY <3>4, <3>5, <3>6
  <2> QED
    BY <2>5, <2>6
<1>10. CASE NothingNew(w)
  <2>1. ~Writes(w, r)
    BY <1>3, <1>10 DEF NothingNew, Writes
  <2> QED
    BY <1>4, <1>10, <2>1, IdleHolds DEF NothingNew
<1>11. CASE Crash(w)
  <2>1. Writes(w, r) => r \in adrift'
    BY <1>3, <1>11 DEF Crash, Writes
  <2> QED
    BY <1>4, <1>11, <2>1, IdleHolds DEF Crash, SeenTo
<1>12. CASE Reconfigure(w)
  <2>1. /\ UNCHANGED <<pic, pver, refreshOwed, table, queue, task, settledAt, adrift>>
    BY <1>12 DEF Reconfigure
  <2> QED
    BY <1>2, <2>1 DEF SeenTo, Settled, Announced, WillWrite, Writes
<1> QED
  BY <1>6, <1>7, <1>8, <1>9, <1>10, <1>11, <1>12 DEF Worker

(* A ref that is seen to stays so, whatever becomes of the others.         *)
LEMMA RefSettles ==
  ASSUME TypeOK, HeldInv, VersionsInv, [Next]_vars, NEW r \in Refs, SeenTo(r) PROVE SeenTo(r)'
<1>1. CASE Environment
  BY <1>1, EnvironmentSettles
<1>2. ASSUME NEW w \in Workers, Worker(w) PROVE SeenTo(r)'
  BY <1>2, WorkerSettles
<1>3. CASE UNCHANGED vars
  BY <1>3 DEF vars, SeenTo, Settled, Announced, WillWrite, Writes
<1> QED
  BY <1>1, <1>2, <1>3 DEF Next

\* Initially no ref has a row.
LEMMA InvInit == Init => ImageLayerInv
<1> SUFFICES ASSUME Init PROVE ImageLayerInv
  OBVIOUS
<1>1. TypeOK /\ HeldInv
  BY TypeInit
<1>2. StampInv
  BY IdleHolds DEF Init, StampInv, Stamped, NoneOf
<1>3. VersionsInv
  BY IdleHolds DEF Init, VersionsInv
<1>4. SettledInv
  BY DEF Init, SettledInv, SeenTo, Settled, NoneOf
<1> QED
  BY <1>1, <1>2, <1>3, <1>4 DEF ImageLayerInv

\* Each part is kept by the lemmas above.
LEMMA InvNext == ImageLayerInv /\ [Next]_vars => ImageLayerInv'
<1> SUFFICES ASSUME ImageLayerInv, [Next]_vars PROVE ImageLayerInv'
  OBVIOUS
<1>1. TypeOK /\ HeldInv /\ StampInv /\ VersionsInv /\ SettledInv
  BY DEF ImageLayerInv
<1>2. SettledInv'
  BY <1>1, RefSettles DEF SettledInv
<1> QED
  BY <1>1, <1>2, TypeNext, StampNext, VersionsNext DEF ImageLayerInv

(* For any number of refs, workers and pictures: a row that carries the    *)
(* hashes of an earlier picture is announced, in the hands of a task that  *)
(* will write it, or was hit by one of the adrift events.  In particular   *)
(* a row deleted and recreated behind a task's back, whose columns the     *)
(* bulk_update then misses, has a recheck of its own.                      *)
THEOREM StaleHashesAreOwed == Spec => []StaleHashIsOwed
<1>1. ImageLayerInv => StaleHashIsOwed
  <2> SUFFICES ASSUME ImageLayerInv, NEW r \in Refs
               PROVE  Hashed(r) \/ Announced(r) \/ InHand(r) \/ r \in adrift
    BY DEF StaleHashIsOwed
  <2>1. Settled(r) => Hashed(r)
    BY DEF Settled, Hashed
  <2>2. WillWrite(r) => InHand(r)
    BY DEF WillWrite, Writes, InHand, Prepared
  <2> QED
    BY <2>1, <2>2 DEF ImageLayerInv, SettledInv, SeenTo
<1> QED
  BY <1>1, InvInit, InvNext, PTL DEF Spec

=============================================================================
