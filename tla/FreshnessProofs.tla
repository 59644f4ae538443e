--------------------------- MODULE FreshnessProofs ---------------------------
(* Theorems about Freshness, for every set of refs and workers and every bound. *)
EXTENDS Freshness, TLAPS

(* Every variable keeps its type whatever the host, the workers and the    *)
(* commands do.                                                            *)
LEMMA TypeInit == Init => TypeOK
  BY FreshnessAssumption DEF Init, TypeOK, Messages, IdleTask, TaskStates, IdleJob, NoReads, JobStates, AllModes

(* ... step by step.                                                       *)
LEMMA TypeNext == TypeOK /\ [Next]_vars => TypeOK'
<1> SUFFICES ASSUME TypeOK, [Next]_vars PROVE TypeOK'
  OBVIOUS
<1> USE FreshnessAssumption DEF TypeOK
<1>1. CASE Host
  <2>1. ASSUME NEW r \in Refs, Save(r) PROVE TypeOK'
    BY <2>1 DEF Save, queueVars, tableVars
  <2>2. ASSUME NEW r \in Refs, RawSave(r) PROVE TypeOK'
    BY <2>2 DEF RawSave, queueVars, tableVars, NotedBy
  <2>3. ASSUME NEW S \in Messages, Commit(S) PROVE TypeOK'
    <3>1. live' \in [Refs -> BOOLEAN]
      BY <2>3, Zenon DEF Commit
    <3>4. due' \in [Messages -> Nat]
      BY <2>3 DEF Commit
    <3>2. ver' \in [Refs -> Nat] /\ draft' \in [Refs -> {"none", "save", "delete"}]
      BY <2>3 DEF Commit
    <3>3. hooks' \subseteq Refs /\ unclaimed' \subseteq Refs
      BY <2>3 DEF Commit, NotedBy, Messages
    <3> QED
      BY <2>3, <3>1, <3>2, <3>3, <3>4 DEF Commit, tableVars
  <2>4. ASSUME NEW S \in Messages, Rollback(S) PROVE TypeOK'
    BY <2>4 DEF Rollback, queueVars, tableVars
  <2>5. ASSUME NEW S \in Messages, BulkWrite(S) PROVE TypeOK'
    BY <2>5 DEF BulkWrite, tableVars, NotedBy, Messages
  <2>6. ASSUME NEW m \in Messages, Publish(m) PROVE TypeOK'
    BY <2>6 DEF Publish, catalogVars, tableVars
  <2>7. ASSUME NEW m \in Messages, PublishFails(m) PROVE TypeOK'
    BY <2>7 DEF PublishFails, catalogVars, tableVars, Messages
  <2> QED
    BY <1>1, <2>1, <2>2, <2>3, <2>4, <2>5, <2>6, <2>7 DEF Host
<1>2. ASSUME NEW w \in Workers, Worker(w) PROVE TypeOK'
  <2>1. CASE Take(w)
    <3>1. PICK m \in Messages :
             /\ queue[m] > 0
             /\ queue' = [queue EXCEPT ![m] = @ - 1]
             /\ task' = [task EXCEPT ![w] = Looping(m, {})]
      BY <2>1 DEF Take
    <3>2. Looping(m, {}) \in TaskStates
      BY DEF Looping, TaskStates, Messages
    <3>3. queue' \in [Messages -> Nat] /\ task' \in [Workers -> TaskStates]
      BY <3>1, <3>2
    <3> QED
      BY <2>1, <3>1, <3>3 DEF Take, Looping, catalogVars, tableVars
  <2>2. ASSUME NEW r \in Refs, ReadItem(w, r) PROVE TypeOK'
    <3>1. Reading(task[w].todo \ {r}, task[w].rebuilt, r, ver[r], live[r]) \in TaskStates
      BY DEF Reading, TaskStates
    <3>2. task' \in [Workers -> TaskStates]
      BY <2>2, <3>1 DEF ReadItem
    <3> QED
      BY <2>2, <3>2 DEF ReadItem, Reading, catalogVars, tableVars
  <2>3. CASE WriteRow(w)
    <3> DEFINE t == task[w]
    <3>1. t \in TaskStates /\ t.got \in Nat /\ t.rebuilt \subseteq Refs /\ t.ref \in Refs \cup {NoRef}
      BY DEF TaskStates
    <3>2. t.ref \in Refs
      BY <2>3, <3>1 DEF WriteRow
    <3>3. Looping(t.todo, IF t.found THEN t.rebuilt \cup {t.ref} ELSE t.rebuilt) \in TaskStates
      BY <3>1, <3>2 DEF Looping, TaskStates
    <3>4. task' \in [Workers -> TaskStates]
      BY <2>3, <3>3 DEF WriteRow
    <3>5. row' \in [Refs -> Nat] /\ basis' \in [Refs -> Nat]
      BY <2>3, <3>1 DEF WriteRow
    <3>6. adrift' \subseteq Refs /\ unchecked' \subseteq Refs /\ unclaimed' \subseteq Refs
      BY <2>3, <3>2 DEF WriteRow, NotedBy, AdriftAfter
    <3> QED
      BY <2>3, <3>4, <3>5, <3>6 DEF WriteRow, Looping, catalogVars
  <2>4. CASE Finish(w)
    BY <2>4 DEF Finish, TaskStates, IdleTask, catalogVars, tableVars
  <2>5. CASE Crash(w)
    BY <2>5 DEF Crash, TaskStates, IdleTask, catalogVars, tableVars
  <2> QED
    BY <1>2, <2>1, <2>2, <2>3, <2>4, <2>5 DEF Worker
<1>3. ASSUME NEW r \in Refs, EmbedImages(r) PROVE TypeOK'
  BY <1>3 DEF EmbedImages, catalogVars, tableVars
<1>4. CASE Job
  <2>1. CASE StartBackfill
    <3>1. PICK S \in SUBSET Refs :
             /\ job' = Streaming("backfill", S, {}, {}, {}, NoReads)
             /\ unclaimed' = Refs \ S
      BY <2>1 DEF StartBackfill
    <3>2. job' \in JobStates
      BY <3>1 DEF JobStates, Streaming, NoReads, AllModes
    <3> QED
      BY <2>1, <3>1, <3>2 DEF StartBackfill, catalogVars, queueVars, tableVars
  <2>2. CASE StartReconcile
    BY <2>2 DEF StartReconcile, JobStates, IdleJob, Streaming, Deleting, NoReads, AllModes, catalogVars, queueVars, tableVars
  <2>3. ASSUME NEW r \in Refs, StreamItem(r) PROVE TypeOK'
    BY <2>3 DEF StreamItem, JobStates, Streaming, catalogVars, queueVars, tableVars
  <2>4. CASE UpsertChunk
    BY <2>4 DEF UpsertChunk, JobStates, Streaming, catalogVars, queueVars, AdriftAfter
  <2>5. CASE EndStream
    BY <2>5 DEF EndStream, JobStates, IdleJob, Streaming, Deleting, NoReads, AllModes, catalogVars, queueVars, tableVars
  <2>6. CASE DeleteStale
    <3>1. PICK D \in (SUBSET job.doomed) \ {{}} :
             /\ row' = [r \in Refs |-> IF r \in D THEN 0 ELSE row[r]]
             /\ basis' = [r \in Refs |-> IF r \in D THEN job.got[r] ELSE basis[r]]
             /\ adrift' = AdriftAfter(D, job.got)
             /\ job' = Deleting(job.doomed \ D, job.got)
      BY <2>6 DEF DeleteStale
    <3>2. D \subseteq Refs /\ job.got \in [Refs -> Nat] /\ job.doomed \subseteq Refs
      BY DEF JobStates
    <3>3. job' \in JobStates
      BY <3>1, <3>2 DEF JobStates, Deleting, AllModes
    <3>4. row' \in [Refs -> Nat] /\ basis' \in [Refs -> Nat] /\ adrift' \subseteq Refs
      BY <3>1, <3>2 DEF AdriftAfter
    <3> QED
      BY <2>6, <3>3, <3>4 DEF DeleteStale, catalogVars, queueVars
  <2>7. CASE EndReconcile
    BY <2>7 DEF EndReconcile, JobStates, IdleJob, Streaming, Deleting, NoReads, AllModes, catalogVars, queueVars, tableVars
  <2>8. CASE KillJob
    BY <2>8 DEF KillJob, JobStates, IdleJob, Streaming, Deleting, NoReads, AllModes, catalogVars, queueVars, tableVars
  <2> QED
    BY <1>4, <2>1, <2>2, <2>3, <2>4, <2>5, <2>6, <2>7, <2>8 DEF Job
<1>5. CASE UNCHANGED vars
  BY <1>5 DEF vars, catalogVars, queueVars, tableVars
<1> QED
  BY <1>1, <1>2, <1>3, <1>4, <1>5 DEF Next

(* Every variable keeps its type: a bag never goes negative, a worker's    *)
(* read and the command's batch are of this kind's refs.                   *)
THEOREM TypeCorrect == Spec => []TypeOK
<1>1. Init => TypeOK
  BY TypeInit
<1>2. TypeOK /\ [Next]_vars => TypeOK'
  BY TypeNext
<1> QED
  BY <1>1, <1>2, PTL DEF Spec

-----------------------------------------------------------------------------
(* The inductive invariant.                                                *)

Reads == VersionsInOrder /\ CurrentBasisIsFresh /\ TaskReads /\ JobReads

(* It holds of an empty table: what the catalog already serves is adrift.  *)
LEMMA InvInit == Init => FreshnessInv
<1> SUFFICES ASSUME Init PROVE FreshnessInv
  OBVIOUS
<1> USE FreshnessAssumption
<1>1. TypeOK
  BY TypeInit
<1>2. VersionsInOrder /\ CurrentBasisIsFresh /\ OldBasisIsOwed /\ DraftsAreHooked
  BY DEF Init, VersionsInOrder, CurrentBasisIsFresh, OldBasisIsOwed, Fresh, DraftsAreHooked
<1>3. TaskReads
  BY DEF Init, TaskReads, IdleTask
<1>4. JobReads
  BY DEF Init, JobReads, IdleJob, NoReads
<1> QED
  BY <1>1, <1>2, <1>3, <1>4 DEF FreshnessInv

(* A catalog change puts what was read of its refs, and the rows built     *)
(* from it, behind the new version; nothing else is affected.              *)
LEMMA ChangeReads ==
  ASSUME FreshnessInv, NEW S \in SUBSET Refs,
         ver' \in [Refs -> Nat],
         \A r \in S : ver'[r] = ver[r] + 1,
         \A r \in Refs \ S : ver'[r] = ver[r] /\ live'[r] = live[r],
         UNCHANGED <<row, basis, task, job>>
  PROVE  Reads'
<1> USE DEF FreshnessInv, TypeOK
<1>1. \A r \in Refs : ver[r] \in Nat /\ basis[r] \in Nat /\ job.got[r] \in Nat
  BY DEF JobStates
<1>2. VersionsInOrder'
  BY <1>1 DEF VersionsInOrder
<1>3. CurrentBasisIsFresh'
  BY <1>1 DEF CurrentBasisIsFresh, VersionsInOrder, Fresh
<1>4. TaskReads'
  <2> SUFFICES ASSUME NEW w \in Workers
               PROVE  /\ task[w].phase = "read" =>
                            /\ task[w].got <= ver'[task[w].ref]
                            /\ task[w].got = ver'[task[w].ref] => task[w].found = live'[task[w].ref]
                      /\ task[w].phase = "idle" => task[w].todo = {}
    BY DEF TaskReads
  <2>1. task[w].got \in Nat /\ task[w].ref \in Refs \cup {NoRef}
    BY DEF TaskStates
  <2>2. task[w].phase = "read" => task[w].ref \in Refs
    BY <2>1
  <2> QED
    BY <1>1, <2>1, <2>2 DEF TaskReads
<1>5. JobReads'
  BY <1>1 DEF JobReads
<1> QED
  BY <1>2, <1>3, <1>4, <1>5 DEF Reads

(* The host's steps: a change makes a ref's row old, and announces it or   *)
(* sets it adrift.                                                         *)
LEMMA HostReads == FreshnessInv /\ Host => Reads'
<1> SUFFICES ASSUME FreshnessInv, Host PROVE Reads'
  OBVIOUS
<1>1. ver' \in [Refs -> Nat]
  BY TypeNext DEF FreshnessInv, Next, TypeOK
<1>2. ver \in [Refs -> Nat] /\ live \in [Refs -> BOOLEAN]
  BY DEF FreshnessInv, TypeOK
<1>3. ASSUME UNCHANGED <<ver, live, row, basis, task, job>> PROVE Reads'
  BY <1>3 DEF FreshnessInv, Reads, VersionsInOrder, CurrentBasisIsFresh, Fresh, TaskReads, JobReads
<1>4. ASSUME NEW r \in Refs, Save(r) PROVE Reads'
  BY <1>3, <1>4 DEF Save, queueVars, tableVars
<1>5. ASSUME NEW r \in Refs, RawSave(r) PROVE Reads'
  <2>1. \A x \in {r} : ver'[x] = ver[x] + 1
    BY <1>2, <1>5 DEF RawSave
  <2>2. \A x \in Refs \ {r} : ver'[x] = ver[x] /\ live'[x] = live[x]
    BY <1>2, <1>5 DEF RawSave
  <2>3. UNCHANGED <<row, basis, task, job>>
    BY <1>5 DEF RawSave, queueVars, tableVars
  <2> QED
    BY <1>1, <2>1, <2>2, <2>3, ChangeReads
<1>6. ASSUME NEW S \in Messages, Commit(S) \/ BulkWrite(S) PROVE Reads'
  <2>1. \A x \in S : ver'[x] = ver[x] + 1
    BY <1>2, <1>6 DEF Commit, BulkWrite, Messages
  <2>2. \A x \in Refs \ S : ver'[x] = ver[x] /\ live'[x] = live[x]
    BY <1>2, <1>6 DEF Commit, BulkWrite
  <2>3. UNCHANGED <<row, basis, task, job>>
    BY <1>6 DEF Commit, BulkWrite, tableVars
  <2> QED
    BY <1>1, <2>1, <2>2, <2>3, ChangeReads DEF Messages
<1>7. ASSUME NEW S \in Messages, Rollback(S) PROVE Reads'
  BY <1>3, <1>7 DEF Rollback, queueVars, tableVars
<1>8. ASSUME NEW m \in Messages, Publish(m) \/ PublishFails(m) PROVE Reads'
  BY <1>3, <1>8 DEF Publish, PublishFails, catalogVars, tableVars
<1> QED
  BY <1>4, <1>5, <1>6, <1>7, <1>8 DEF Host

(* The tasks' steps: a read is of the current version, a write of a read.  *)
LEMMA WorkerReads == ASSUME FreshnessInv, NEW w \in Workers, Worker(w) PROVE Reads'
<1>1. TypeOK /\ TypeOK'
  BY TypeNext DEF FreshnessInv, Next
<1>2. \A r \in Refs : ver[r] \in Nat /\ basis[r] \in Nat /\ row[r] \in Nat
  BY <1>1 DEF TypeOK
<1>3. task[w] \in TaskStates /\ (task[w].phase = "read" <=> task[w].ref # NoRef)
  BY <1>1 DEF TypeOK
<1>4. ASSUME UNCHANGED <<ver, live, row, basis, job>>,
             NEW t \in TaskStates, task' = [task EXCEPT ![w] = t],
             t.phase = "read" => t.got <= ver[t.ref] /\ (t.got = ver[t.ref] => t.found = live[t.ref]),
             t.phase = "idle" => t.todo = {}
      PROVE  Reads'
  <2>1. TaskReads'
    BY <1>1, <1>4 DEF FreshnessInv, TypeOK, TaskReads
  <2> QED
    BY <1>4, <2>1 DEF FreshnessInv, Reads, VersionsInOrder, CurrentBasisIsFresh, Fresh, JobReads
<1>5. CASE Take(w)
  <2>1. PICK m \in Messages : task' = [task EXCEPT ![w] = Looping(m, {})]
    BY <1>5 DEF Take
  <2>2. Looping(m, {}) \in TaskStates /\ Looping(m, {}).phase = "loop"
    BY DEF Looping, TaskStates, Messages
  <2> QED
    BY <1>4, <1>5, <2>1, <2>2 DEF Take, catalogVars, tableVars
<1>6. ASSUME NEW r \in Refs, ReadItem(w, r) PROVE Reads'
  <2> DEFINE t == Reading(task[w].todo \ {r}, task[w].rebuilt, r, ver[r], live[r])
  <2>1. t \in TaskStates /\ t.phase = "read" /\ t.got = ver[t.ref] /\ t.found = live[t.ref]
    BY <1>1, <1>3 DEF Reading, TaskStates, TypeOK
  <2>2. t.got <= ver[t.ref]
    BY <1>2, <2>1 DEF Reading
  <2>3. task' = [task EXCEPT ![w] = t] /\ UNCHANGED <<ver, live, row, basis, job>>
    BY <1>6 DEF ReadItem, catalogVars, tableVars
  <2> HIDE DEF t
  <2> QED
    BY <1>4, <2>1, <2>2, <2>3
<1>7. CASE WriteRow(w)
  <2> DEFINE t == task[w]
             r == t.ref
  <2>1. t.phase = "read" /\ r \in Refs /\ t.got \in Nat /\ t.found \in BOOLEAN
    BY <1>3, <1>7 DEF WriteRow, TaskStates
  <2>2. t.got <= ver[r] /\ (t.got = ver[r] => t.found = live[r])
    BY <2>1 DEF FreshnessInv, TaskReads
  <2>3. /\ row' = [row EXCEPT ![r] = IF t.found THEN t.got ELSE 0]
        /\ basis' = [basis EXCEPT ![r] = t.got]
        /\ task' = [task EXCEPT ![w] = Looping(t.todo, IF t.found THEN t.rebuilt \cup {r} ELSE t.rebuilt)]
        /\ UNCHANGED <<ver, live, job>>
    BY <1>7 DEF WriteRow, catalogVars
  <2> HIDE DEF t, r
  <2>4. VersionsInOrder'
    BY <1>1, <1>2, <2>1, <2>2, <2>3 DEF FreshnessInv, VersionsInOrder, TypeOK
  <2>5. CurrentBasisIsFresh'
    BY <1>1, <1>2, <2>1, <2>2, <2>3 DEF FreshnessInv, CurrentBasisIsFresh, Fresh, TypeOK
  <2>6. TaskReads'
    BY <1>1, <2>3 DEF FreshnessInv, TaskReads, TypeOK, Looping
  <2>7. JobReads'
    BY <2>3 DEF FreshnessInv, JobReads
  <2> QED
    BY <2>4, <2>5, <2>6, <2>7 DEF Reads
<1>8. CASE Finish(w) \/ Crash(w)
  <2>1. IdleTask \in TaskStates /\ IdleTask.phase = "idle" /\ IdleTask.todo = {}
    BY DEF IdleTask, TaskStates
  <2> QED
    BY <1>4, <1>8, <2>1 DEF Finish, Crash, catalogVars, tableVars
<1> QED
  BY <1>5, <1>6, <1>7, <1>8 DEF Worker

(* The commands' steps: what the stream passed over was not served then.   *)
LEMMA JobStepReads == FreshnessInv /\ Job => Reads'
<1> SUFFICES ASSUME FreshnessInv, Job PROVE Reads'
  OBVIOUS
<1>1. TypeOK /\ TypeOK'
  BY TypeNext DEF FreshnessInv, Next
<1>2. \A r \in Refs : ver[r] \in Nat /\ basis[r] \in Nat /\ row[r] \in Nat /\ job.got[r] \in Nat
  BY <1>1 DEF TypeOK, JobStates
<1>3. ASSUME UNCHANGED <<ver, live, row, basis, task>>, JobReads' PROVE Reads'
  BY <1>3 DEF FreshnessInv, Reads, VersionsInOrder, CurrentBasisIsFresh, Fresh, TaskReads
<1>4. \A r \in Refs : 0 <= ver[r] /\ 0 # ver[r]
  BY <1>2 DEF FreshnessInv, VersionsInOrder
<1>5. ASSUME NEW mode, job' = IdleJob(mode), UNCHANGED <<ver, live>> PROVE JobReads'
  BY <1>4, <1>5 DEF JobReads, IdleJob, NoReads
<1>6. CASE StartBackfill
  <2>1. PICK S \in SUBSET Refs : job' = Streaming("backfill", S, {}, {}, {}, NoReads)
    BY <1>6 DEF StartBackfill
  <2>2. UNCHANGED <<ver, live, row, basis, task>>
    BY <1>6 DEF StartBackfill, catalogVars, queueVars, tableVars
  <2>3. JobReads'
    BY <1>4, <2>1, <2>2 DEF JobReads, Streaming, NoReads
  <2> QED
    BY <1>3, <2>2, <2>3
<1>7. CASE StartReconcile
  <2>2. UNCHANGED <<ver, live, row, basis, task>>
    BY <1>7 DEF StartReconcile, catalogVars, queueVars, tableVars
  <2>3. JobReads'
    BY <1>4, <1>7, <2>2 DEF JobReads, StartReconcile, Streaming, NoReads
  <2> QED
    BY <1>3, <2>2, <2>3
<1>8. ASSUME NEW r \in Refs, StreamItem(r) PROVE Reads'
  <2>1. UNCHANGED <<ver, live, row, basis, task>>
    BY <1>8 DEF StreamItem, catalogVars, queueVars, tableVars
  <2>2. JobReads'
    <3>1. job.phase = "stream" /\ job.got \in [Refs -> Nat]
      BY <1>1, <1>8 DEF StreamItem, TypeOK, JobStates
    <3>2. job' = Streaming(job.mode, job.left \ {r}, job.known, job.seen,
                           IF live[r] THEN job.chunk \cup {r} ELSE job.chunk,
                           [job.got EXCEPT ![r] = ver[r]])
      BY <1>8 DEF StreamItem
    <3>3. /\ job'.left = job.left \ {r} /\ job'.seen = job.seen /\ job'.phase = "stream"
          /\ job'.chunk = IF live[r] THEN job.chunk \cup {r} ELSE job.chunk
          /\ \A x \in Refs : job'.got[x] = IF x = r THEN ver[r] ELSE job.got[x]
      BY <3>1, <3>2 DEF Streaming
    <3>4. JobReads
      BY DEF FreshnessInv
    <3>5. \A x \in Refs \ {r} :
             /\ job'.got[x] = job.got[x]
             /\ x \in job'.chunk <=> x \in job.chunk
             /\ x \in job'.left <=> x \in job.left
      BY <3>3
    <3>6. /\ job'.got[r] = ver[r]
          /\ r \notin job'.left
          /\ r \notin job'.chunk => ~live[r]
      BY <3>3
    <3>7. r \in job'.chunk => live[r]
      BY <1>2, <1>8, <3>3, <3>4 DEF JobReads, StreamItem
    <3> QED
      BY <1>2, <2>1, <3>1, <3>3, <3>4, <3>5, <3>6, <3>7 DEF JobReads
  <2> QED
    BY <1>3, <2>1, <2>2
<1>9. ASSUME NEW W \in SUBSET Refs,
             \A r \in W : job.got[r] = ver[r] => (live[r] <=> row'[r] # 0) /\ row'[r] \in {0, job.got[r]},
             row' \in [Refs -> Nat],
             basis' = [r \in Refs |-> IF r \in W THEN job.got[r] ELSE basis[r]],
             \A r \in Refs \ W : row'[r] = row[r],
             UNCHANGED <<ver, live, task>>, JobReads'
      PROVE  Reads'
  <2>1. VersionsInOrder'
    BY <1>2, <1>9 DEF FreshnessInv, VersionsInOrder, JobReads
  <2>2. CurrentBasisIsFresh'
    BY <1>2, <1>4, <1>9 DEF FreshnessInv, CurrentBasisIsFresh, Fresh
  <2>3. TaskReads'
    BY <1>9 DEF FreshnessInv, TaskReads
  <2> QED
    BY <1>9, <2>1, <2>2, <2>3 DEF Reads
<1>10. CASE UpsertChunk
  <2> DEFINE W == IF job.mode = "reconcile" THEN job.chunk \ job.known ELSE job.chunk
  <2>1. W \subseteq job.chunk /\ job.chunk \subseteq Refs
    BY <1>1 DEF TypeOK, JobStates
  <2>2. /\ job.phase = "stream"
        /\ row' = [r \in Refs |-> IF r \in W THEN job.got[r] ELSE row[r]]
        /\ basis' = [r \in Refs |-> IF r \in W THEN job.got[r] ELSE basis[r]]
        /\ job' = Streaming(job.mode, job.left, job.known, job.seen \cup job.chunk, {}, job.got)
        /\ UNCHANGED <<ver, live, task>>
    BY <1>10 DEF UpsertChunk, catalogVars, queueVars
  <2> HIDE DEF W
  <2>3. JobReads'
    BY <2>2 DEF FreshnessInv, JobReads, Streaming
  <2>4. \A r \in W : job.got[r] = ver[r] => live[r] /\ row'[r] = job.got[r]
    BY <2>1, <2>2 DEF FreshnessInv, JobReads
  <2>5. \A r \in W : job.got[r] = ver[r] => (live[r] <=> row'[r] # 0) /\ row'[r] \in {0, job.got[r]}
    BY <1>2, <1>4, <2>1, <2>4
  <2>6. row' \in [Refs -> Nat]
    BY <1>1 DEF TypeOK
  <2> QED
    BY <1>9, <2>1, <2>2, <2>3, <2>5, <2>6
<1>11. CASE EndStream
  <2>1. UNCHANGED <<ver, live, row, basis, task>>
    BY <1>11 DEF EndStream, catalogVars, queueVars, tableVars
  <2>2. CASE job' = IdleJob("backfill")
    BY <1>3, <1>5, <2>1, <2>2
  <2>3. CASE job' = Deleting(job.known \ job.seen, job.got)
    <3>1. JobReads'
      BY <1>11, <2>1, <2>3 DEF EndStream, FreshnessInv, JobReads, Deleting
    <3> QED
      BY <1>3, <2>1, <3>1
  <2> QED
    BY <1>11, <2>2, <2>3 DEF EndStream
<1>12. CASE DeleteStale
  <2>1. PICK D \in (SUBSET job.doomed) \ {{}} :
           /\ row' = [r \in Refs |-> IF r \in D THEN 0 ELSE row[r]]
           /\ basis' = [r \in Refs |-> IF r \in D THEN job.got[r] ELSE basis[r]]
           /\ job' = Deleting(job.doomed \ D, job.got)
    BY <1>12 DEF DeleteStale
  <2>2. job.phase = "delete" /\ UNCHANGED <<ver, live, task>>
    BY <1>12 DEF DeleteStale, catalogVars, queueVars
  <2>3. job.doomed \subseteq Refs /\ D \in SUBSET Refs
    BY <1>1 DEF TypeOK, JobStates
  <2>4. JobReads'
    BY <2>1, <2>2 DEF FreshnessInv, JobReads, Deleting
  <2>5. \A r \in D : job.got[r] = ver[r] => ~live[r] /\ row'[r] = 0
    BY <2>1, <2>2, <2>3 DEF FreshnessInv, JobReads
  <2>6. row' \in [Refs -> Nat]
    BY <1>1 DEF TypeOK
  <2>7. \A r \in D : job.got[r] = ver[r] => (live[r] <=> row'[r] # 0) /\ row'[r] \in {0, job.got[r]}
    BY <2>5
  <2> QED
    BY <1>9, <2>1, <2>2, <2>3, <2>4, <2>6, <2>7
<1>13. CASE EndReconcile \/ KillJob
  BY <1>3, <1>5, <1>13 DEF EndReconcile, KillJob, catalogVars, queueVars, tableVars
<1> QED
  BY <1>6, <1>7, <1>8, <1>10, <1>11, <1>12, <1>13 DEF Job

\* Only a transaction's own steps touch its draft and its callbacks.
LEMMA HooksNext == FreshnessInv /\ Next => DraftsAreHooked'
<1> SUFFICES ASSUME FreshnessInv, Next PROVE DraftsAreHooked'
  OBVIOUS
<1>1. draft \in [Refs -> {"none", "save", "delete"}] /\ DraftsAreHooked
  BY DEF FreshnessInv, TypeOK
<1>2. ASSUME NEW r \in Refs, Save(r) PROVE DraftsAreHooked'
  BY <1>1, <1>2 DEF Save, DraftsAreHooked
<1>3. ASSUME NEW S \in Messages, Commit(S) \/ Rollback(S) PROVE DraftsAreHooked'
  BY <1>1, <1>3 DEF Commit, Rollback, DraftsAreHooked
<1>4. ASSUME UNCHANGED <<draft, hooks>> PROVE DraftsAreHooked'
  BY <1>1, <1>4 DEF DraftsAreHooked
<1>5. CASE Host
  BY <1>2, <1>3, <1>4, <1>5 DEF Host, RawSave, BulkWrite, Publish, PublishFails, catalogVars
<1>6. ASSUME NEW w \in Workers, Worker(w) PROVE DraftsAreHooked'
  BY <1>4, <1>6 DEF Worker, Take, ReadItem, WriteRow, Finish, Crash, catalogVars
<1>7. ASSUME NEW r \in Refs, EmbedImages(r) PROVE DraftsAreHooked'
  BY <1>4, <1>7 DEF EmbedImages, catalogVars
<1>8. CASE Job
  BY <1>4, <1>8 DEF Job, StartBackfill, StartReconcile, StreamItem, UpsertChunk, EndStream, DeleteStale,
                    EndReconcile, KillJob, catalogVars
<1> QED
  BY <1>5, <1>6, <1>7, <1>8 DEF Next

(* A commit, whose callbacks are released, and a bulk write announce their *)
(* refs; a change nobody is told of, and a failed enqueue, set adrift.     *)
LEMMA HostOwes == FreshnessInv /\ Host => OldBasisIsOwed'
<1> SUFFICES ASSUME FreshnessInv, Host, NEW r \in Refs
             PROVE  basis'[r] = ver'[r] \/ Owed(r)' \/ r \in adrift'
  BY DEF OldBasisIsOwed
<1> DEFINE Goal == basis'[r] = ver'[r] \/ Owed(r)' \/ r \in adrift'
<1>1. /\ due \in [Messages -> Nat] /\ queue \in [Messages -> Nat]
      /\ ver \in [Refs -> Nat] /\ {r} \in Messages
  BY DEF FreshnessInv, TypeOK, Messages
<1>2. basis[r] = ver[r] \/ Owed(r) \/ r \in adrift
  BY DEF FreshnessInv, OldBasisIsOwed
<1>3. ASSUME UNCHANGED <<basis, task>>, ver'[r] = ver[r], adrift \subseteq adrift',
             \A m \in Messages : r \in m /\ (due[m] > 0 \/ queue[m] > 0) => due'[m] > 0 \/ queue'[m] > 0
      PROVE  Goal
  <2>1. Announced(r) => Announced(r)'
    BY <1>3 DEF Announced
  <2>2. InHand(r) => InHand(r)'
    BY <1>3 DEF InHand
  <2> QED
    BY <1>2, <1>3, <2>1, <2>2 DEF Owed
<1>4. ASSUME NEW m \in Messages, r \in m, due'[m] > 0 PROVE Goal
  BY <1>4 DEF Owed, Announced
<1>5. ASSUME NEW x \in Refs, Save(x) PROVE Goal
  BY <1>3, <1>5 DEF Save, queueVars, tableVars
<1>6. ASSUME NEW x \in Refs, RawSave(x) PROVE Goal
  <2>1. CASE x = r
    BY <1>6, <2>1 DEF RawSave
  <2>2. CASE x # r
    BY <1>1, <1>3, <1>6, <2>2 DEF RawSave, queueVars, tableVars
  <2> QED
    BY <2>1, <2>2
<1>7. ASSUME NEW S \in Messages, Commit(S) PROVE Goal
  <2>1. S \subseteq hooks /\ S \subseteq Refs
    BY <1>7 DEF Commit, FreshnessInv, DraftsAreHooked, Messages
  <2>2. due' = [m \in Messages |-> IF \E x \in S \cap hooks : m = {x} THEN due[m] + 1 ELSE due[m]]
    BY <1>7 DEF Commit
  <2>3. CASE r \in S
    <3>1. due'[{r}] = due[{r}] + 1 /\ due[{r}] \in Nat
      BY <1>1, <2>1, <2>2, <2>3
    <3> QED
      BY <1>1, <1>4, <3>1
  <2>4. CASE r \notin S
    <3>1. \A m \in Messages : due[m] \in Nat /\ (due[m] > 0 => due'[m] > 0)
      BY <1>1, <2>2
    <3>2. UNCHANGED <<basis, task, queue, adrift>> /\ ver'[r] = ver[r]
      BY <1>1, <1>7, <2>4 DEF Commit, tableVars
    <3> QED
      BY <1>3, <3>1, <3>2
  <2> QED
    BY <2>3, <2>4
<1>8. ASSUME NEW S \in Messages, Rollback(S) PROVE Goal
  BY <1>3, <1>8 DEF Rollback, queueVars, tableVars
<1>9. ASSUME NEW S \in Messages, BulkWrite(S) PROVE Goal
  <2>1. due' = [due EXCEPT ![S] = @ + 1] /\ UNCHANGED <<basis, task, queue, adrift>>
    BY <1>9 DEF BulkWrite, tableVars
  <2>2. CASE r \in S
    BY <1>1, <1>4, <2>1, <2>2
  <2>3. CASE r \notin S
    <3>1. ver'[r] = ver[r]
      BY <1>1, <1>9, <2>3 DEF BulkWrite
    <3>2. \A m \in Messages : due[m] > 0 => due'[m] > 0
      BY <1>1, <2>1
    <3> QED
      BY <1>3, <2>1, <3>1, <3>2
  <2> QED
    BY <2>2, <2>3
<1>10. ASSUME NEW m \in Messages, Publish(m) PROVE Goal
  <2>1. /\ due[m] > 0 /\ due' = [due EXCEPT ![m] = @ - 1] /\ queue' = [queue EXCEPT ![m] = @ + 1]
        /\ UNCHANGED <<ver, basis, task, adrift>>
    BY <1>10 DEF Publish, catalogVars, tableVars
  <2>2. \A x \in Messages : due[x] > 0 \/ queue[x] > 0 => due'[x] > 0 \/ queue'[x] > 0
    BY <1>1, <2>1
  <2> QED
    BY <1>3, <2>1, <2>2
<1>11. ASSUME NEW m \in Messages, PublishFails(m) PROVE Goal
  <2>1. /\ due' = [due EXCEPT ![m] = @ - 1] /\ adrift' = adrift \cup m
        /\ UNCHANGED <<ver, basis, task, queue>>
    BY <1>11 DEF PublishFails, catalogVars, tableVars
  <2>2. CASE r \in m
    BY <2>1, <2>2
  <2>3. CASE r \notin m
    <3>1. \A x \in Messages : r \in x /\ due[x] > 0 => due'[x] > 0
      BY <1>1, <2>1, <2>3
    <3> QED
      BY <1>3, <2>1, <3>1
  <2> QED
    BY <2>2, <2>3
<1> QED
  BY <1>5, <1>6, <1>7, <1>8, <1>9, <1>10, <1>11 DEF Host

\* A write on reads `got` settles the refs of W or leaves them owed or adrift.
LEMMA WriteOwes ==
  ASSUME FreshnessInv, NEW W \in SUBSET Refs, NEW got \in [Refs -> Nat], NEW r \in Refs,
         basis'[r] = (IF r \in W THEN got[r] ELSE basis[r]),
         adrift' = AdriftAfter(W, got),
         ver'[r] = ver[r], r \in W => got[r] <= ver[r],
         Owed(r) => Owed(r)' \/ (r \in W /\ got[r] = ver[r])
  PROVE  basis'[r] = ver'[r] \/ Owed(r)' \/ r \in adrift'
<1>1. basis[r] = ver[r] \/ Owed(r) \/ r \in adrift
  BY DEF FreshnessInv, OldBasisIsOwed
<1>2. ver[r] \in Nat /\ basis[r] \in Nat /\ got[r] \in Nat /\ basis[r] <= ver[r]
  BY DEF FreshnessInv, TypeOK, VersionsInOrder
<1>3. CASE r \in W /\ got[r] = ver[r]
  BY <1>3
<1>4. CASE r \in W /\ got[r] < basis[r]
  BY <1>4 DEF AdriftAfter
<1>5. CASE r \in W /\ got[r] # ver[r] /\ ~(got[r] < basis[r])
  BY <1>1, <1>2, <1>5 DEF AdriftAfter
<1>6. CASE r \notin W
  BY <1>1, <1>6 DEF AdriftAfter
<1> QED
  BY <1>3, <1>4, <1>5, <1>6

(* A message taken becomes a ref to do, that a read, that a write; a dead  *)
(* task sets adrift what it held.                                          *)
LEMMA WorkerOwes == ASSUME FreshnessInv, NEW w \in Workers, Worker(w) PROVE OldBasisIsOwed'
<1> SUFFICES ASSUME NEW r \in Refs
             PROVE  basis'[r] = ver'[r] \/ Owed(r)' \/ r \in adrift'
  BY DEF OldBasisIsOwed
<1> DEFINE Goal == basis'[r] = ver'[r] \/ Owed(r)' \/ r \in adrift'
<1>1. /\ due \in [Messages -> Nat] /\ queue \in [Messages -> Nat] /\ ver \in [Refs -> Nat]
      /\ task \in [Workers -> TaskStates] /\ basis \in [Refs -> Nat]
  BY DEF FreshnessInv, TypeOK
<1>2. basis[r] = ver[r] \/ Owed(r) \/ r \in adrift
  BY DEF FreshnessInv, OldBasisIsOwed
<1>3. /\ task[w] \in TaskStates /\ (task[w].phase = "read" <=> task[w].ref # NoRef)
      /\ task[w].phase = "idle" => task[w].todo = {}
  BY DEF FreshnessInv, TypeOK, TaskReads
<1>4. r # NoRef
  BY FreshnessAssumption
<1>5. CASE Take(w)
  <2>1. PICK m \in Messages : /\ queue[m] > 0
                              /\ queue' = [queue EXCEPT ![m] = @ - 1]
                              /\ task' = [task EXCEPT ![w] = Looping(m, {})]
    BY <1>5 DEF Take
  <2>2. UNCHANGED <<ver, due, basis, adrift>> /\ task[w].phase = "idle"
    BY <1>5 DEF Take, catalogVars, tableVars
  <2>3. ASSUME r \in m PROVE Goal
    <3>1. r \in task'[w].todo
      BY <1>1, <2>1, <2>3 DEF Looping
    <3> QED
      BY <3>1 DEF Owed, InHand
  <2>4. ASSUME r \notin m PROVE Goal
    <3>1. \A x \in Messages : r \in x => queue'[x] = queue[x]
      BY <1>1, <2>1, <2>4
    <3>2. Announced(r) => Announced(r)'
      BY <2>2, <3>1 DEF Announced
    <3>3. ~(r \in task[w].todo) /\ task[w].ref # r
      BY <1>3, <1>4, <2>2
    <3>4. InHand(r) => InHand(r)'
      BY <1>1, <2>1, <2>2, <3>3 DEF InHand
    <3> QED
      BY <1>2, <2>2, <3>2, <3>4 DEF Owed
  <2> QED
    BY <2>3, <2>4
<1>6. ASSUME NEW x \in Refs, ReadItem(w, x) PROVE Goal
  <2>1. task' = [task EXCEPT ![w] = Reading(task[w].todo \ {x}, task[w].rebuilt, x, ver[x], live[x])]
    BY <1>6 DEF ReadItem
  <2>2. UNCHANGED <<ver, due, queue, basis, adrift>> /\ task[w].phase = "loop"
    BY <1>6 DEF ReadItem, catalogVars, tableVars
  <2>3. /\ task'[w].todo = task[w].todo \ {x} /\ task'[w].ref = x /\ task'[w].got = ver[x]
        /\ \A v \in Workers \ {w} : task'[v] = task[v]
    BY <1>1, <2>1 DEF Reading
  <2>4. task[w].ref # r
    BY <1>3, <1>4, <2>2
  <2>5. InHand(r) => InHand(r)'
    <3> SUFFICES ASSUME NEW v \in Workers, r \in task[v].todo \/ (task[v].ref = r /\ task[v].got = ver[r])
                 PROVE  InHand(r)'
      BY DEF InHand
    <3>1. CASE v # w
      BY <2>2, <2>3, <3>1 DEF InHand
    <3>2. CASE v = w /\ r # x
      BY <2>3, <2>4, <3>2 DEF InHand
    <3>3. CASE v = w /\ r = x
      BY <2>2, <2>3, <3>3 DEF InHand
    <3> QED
      BY <3>1, <3>2, <3>3
  <2>6. Announced(r) => Announced(r)'
    BY <2>2 DEF Announced
  <2> QED
    BY <1>2, <2>2, <2>5, <2>6 DEF Owed
<1>7. CASE WriteRow(w)
  <2> DEFINE t == task[w]
             x == t.ref
             got == [y \in Refs |-> t.got]
  <2>1. t.phase = "read" /\ x \in Refs /\ t.got \in Nat
    BY <1>3, <1>7 DEF WriteRow, TaskStates
  <2>2. /\ task' = [task EXCEPT ![w] = Looping(t.todo, IF t.found THEN t.rebuilt \cup {x} ELSE t.rebuilt)]
        /\ adrift' = AdriftAfter({x}, got)
        /\ basis' = [basis EXCEPT ![x] = t.got]
        /\ UNCHANGED <<ver, due, queue>>
    BY <1>7 DEF WriteRow, catalogVars
  <2>3. got \in [Refs -> Nat] /\ basis'[r] = IF r \in {x} THEN got[r] ELSE basis[r]
    BY <1>1, <2>1, <2>2
  <2>4. task'[w].todo = t.todo /\ \A v \in Workers \ {w} : task'[v] = task[v]
    BY <1>1, <2>2 DEF Looping
  <2>5. InHand(r) => InHand(r)' \/ (r \in {x} /\ got[r] = ver[r])
    BY <2>2, <2>4 DEF InHand
  <2>6. Announced(r) => Announced(r)'
    BY <2>2 DEF Announced
  <2>7. Owed(r) => Owed(r)' \/ (r \in {x} /\ got[r] = ver[r])
    BY <2>5, <2>6 DEF Owed
  <2>8. ver'[r] = ver[r] /\ {x} \in SUBSET Refs
    BY <2>1, <2>2
  <2>9. r \in {x} => got[r] <= ver[r]
    BY <2>1 DEF FreshnessInv, TaskReads
  <2> HIDE DEF got, x
  <2> QED
    BY <2>2, <2>3, <2>7, <2>8, <2>9, WriteOwes
<1>8. ASSUME task[w].phase # "idle", task' = [task EXCEPT ![w] = IdleTask],
             UNCHANGED <<ver, due, queue, basis>>, adrift \subseteq adrift',
             r \in task[w].todo \/ task[w].ref = r => r \in adrift'
      PROVE  Goal
  <2>1. \A v \in Workers \ {w} : task'[v] = task[v]
    BY <1>1, <1>8
  <2>2. InHand(r) => InHand(r)' \/ r \in adrift'
    BY <1>8, <2>1 DEF InHand
  <2>3. Announced(r) => Announced(r)'
    BY <1>8 DEF Announced
  <2> QED
    BY <1>2, <1>8, <2>2, <2>3 DEF Owed
<1>9. CASE Finish(w)
  BY <1>3, <1>4, <1>8, <1>9 DEF Finish, catalogVars, tableVars
<1>10. CASE Crash(w)
  BY <1>4, <1>8, <1>10 DEF Crash, catalogVars, tableVars
<1> QED
  BY <1>5, <1>6, <1>7, <1>9, <1>10 DEF Worker

\* The commands owe nothing, and write on their own reads.
LEMMA JobOwes == FreshnessInv /\ Job => OldBasisIsOwed'
<1> SUFFICES ASSUME FreshnessInv, Job, NEW r \in Refs
             PROVE  basis'[r] = ver'[r] \/ Owed(r)' \/ r \in adrift'
  BY DEF OldBasisIsOwed
<1>1. UNCHANGED <<ver, due, queue, task>>
  BY DEF Job, StartBackfill, StartReconcile, StreamItem, UpsertChunk, EndStream, DeleteStale,
         EndReconcile, KillJob, catalogVars, queueVars
<1>2. Owed(r) => Owed(r)'
  BY <1>1 DEF Owed, Announced, InHand
<1>3. job.got \in [Refs -> Nat] /\ job.chunk \subseteq Refs /\ job.doomed \subseteq Refs /\ job.got[r] <= ver[r]
  BY DEF FreshnessInv, TypeOK, JobStates, JobReads
<1>4. CASE UNCHANGED <<basis, adrift>>
  BY <1>1, <1>2, <1>4 DEF FreshnessInv, OldBasisIsOwed
<1>5. CASE UpsertChunk
  <2> DEFINE W == IF job.mode = "reconcile" THEN job.chunk \ job.known ELSE job.chunk
  <2>1. basis' = [x \in Refs |-> IF x \in W THEN job.got[x] ELSE basis[x]] /\ adrift' = AdriftAfter(W, job.got)
    BY <1>5 DEF UpsertChunk
  <2>2. W \in SUBSET Refs
    BY <1>3
  <2> HIDE DEF W
  <2> QED
    BY <1>1, <1>2, <1>3, <2>1, <2>2, WriteOwes
<1>6. CASE DeleteStale
  <2>1. PICK D \in (SUBSET job.doomed) \ {{}} :
           /\ basis' = [x \in Refs |-> IF x \in D THEN job.got[x] ELSE basis[x]]
           /\ adrift' = AdriftAfter(D, job.got)
    BY <1>6 DEF DeleteStale
  <2>2. D \in SUBSET Refs
    BY <1>3
  <2> QED
    BY <1>1, <1>2, <1>3, <2>1, <2>2, WriteOwes
<1> QED
  BY <1>4, <1>5, <1>6 DEF Job, StartBackfill, StartReconcile, StreamItem, EndStream, EndReconcile, KillJob, tableVars

-----------------------------------------------------------------------------
(* The theorems.                                                           *)

(* It depends on nothing of the image layer but its types.                 *)
LEMMA ImagesDoNotMatter ==
  ASSUME FreshnessInv, TypeOK', UNCHANGED <<ver, live, draft, hooks, due, queue, task, row, basis, job, adrift>>
  PROVE  FreshnessInv'
  BY DEF FreshnessInv, VersionsInOrder, CurrentBasisIsFresh, Fresh, DraftsAreHooked,
         TaskReads, JobReads, OldBasisIsOwed, Owed, Announced, InHand

(* Every step preserves it: what it says of reads, of callbacks and of     *)
(* owed refreshes, each by the lemmas above.                               *)
LEMMA InvNext == FreshnessInv /\ [Next]_vars => FreshnessInv'
<1> SUFFICES ASSUME FreshnessInv, [Next]_vars PROVE FreshnessInv'
  OBVIOUS
<1>1. TypeOK'
  BY TypeNext DEF FreshnessInv
<1>2. CASE Host
  BY <1>1, <1>2, HostReads, HooksNext, HostOwes DEF FreshnessInv, Reads, Next
<1>3. ASSUME NEW w \in Workers, Worker(w) PROVE FreshnessInv'
  BY <1>1, <1>3, WorkerReads, HooksNext, WorkerOwes DEF FreshnessInv, Reads, Next
<1>4. CASE Job
  BY <1>1, <1>4, JobStepReads, HooksNext, JobOwes DEF FreshnessInv, Reads, Next
<1>5. ASSUME NEW r \in Refs, EmbedImages(r) PROVE FreshnessInv'
  BY <1>1, <1>5, ImagesDoNotMatter DEF EmbedImages, catalogVars, tableVars
<1>6. CASE UNCHANGED vars
  BY <1>1, <1>6, ImagesDoNotMatter DEF vars, catalogVars, queueVars, tableVars
<1> QED
  BY <1>2, <1>3, <1>4, <1>5, <1>6 DEF Next

\* What decided a row is current, and the row right, or a refresh of it is owed.
LEMMA InvStale == FreshnessInv => StaleIsOwed
  BY DEF FreshnessInv, CurrentBasisIsFresh, OldBasisIsOwed, StaleIsOwed

(* For any number of refs, workers and changes: a row that differs from    *)
(* its item is owed a refresh, or one of the adrift events hit its ref.    *)
(* No interleaving of transactions, tasks and commands loses an update in  *)
(* any other way.                                                          *)
THEOREM StaleRowsAreOwed == Spec => []StaleIsOwed
<1>1. FreshnessInv => StaleIsOwed
  BY InvStale
<1>2. Init => FreshnessInv
  BY InvInit
<1>3. FreshnessInv /\ [Next]_vars => FreshnessInv'
  BY InvNext
<1> QED
  BY <1>1, <1>2, <1>3, PTL DEF Spec

-----------------------------------------------------------------------------
(* Freshness implements Mirror.                                            *)

\* A ref the commands or a task write is settled by the read they wrote from.
LEMMA WriteSettles ==
  ASSUME FreshnessInv', NEW W \in SUBSET Refs, NEW got \in [Refs -> Nat], NEW r \in Refs,
         basis'[r] = (IF r \in W THEN got[r] ELSE basis[r]),
         adrift' = AdriftAfter(W, got), ver'[r] = ver[r],
         r \in adrift
  PROVE  r \in adrift' \/ Fresh(r)'
<1>1. CASE r \in W /\ got[r] = ver[r]
  <2>1. basis'[r] = ver'[r]
    BY <1>1
  <2>2. CurrentBasisIsFresh'
    BY DEF FreshnessInv
  <2> QED
    BY <2>1, <2>2 DEF CurrentBasisIsFresh
<1>2. CASE ~(r \in W /\ got[r] = ver[r])
  BY <1>2 DEF AdriftAfter
<1> QED
  BY <1>1, <1>2

\* Nothing but the write of the current version makes good a lost refresh.
LEMMA LostUntilWritten ==
  ASSUME FreshnessInv, FreshnessInv', [Next]_vars, NEW r \in Refs, r \in adrift
  PROVE  r \in adrift' \/ Fresh(r)'
<1>1. ASSUME adrift \subseteq adrift' PROVE r \in adrift'
  BY <1>1
<1>2. CASE Host
  BY <1>1, <1>2 DEF Host, Save, RawSave, Commit, Rollback, BulkWrite, Publish, PublishFails
<1>3. ASSUME NEW w \in Workers, Worker(w) PROVE r \in adrift' \/ Fresh(r)'
  <2>1. CASE WriteRow(w)
    <3> DEFINE x == task[w].ref
               got == [y \in Refs |-> task[w].got]
    <3>1. task[w] \in TaskStates /\ x \in Refs /\ basis \in [Refs -> Nat]
      BY <2>1 DEF WriteRow, FreshnessInv, TypeOK, TaskStates
    <3>2. got \in [Refs -> Nat] /\ {x} \in SUBSET Refs
      BY <3>1 DEF TaskStates
    <3>3. basis'[r] = IF r \in {x} THEN got[r] ELSE basis[r]
      BY <2>1, <3>1 DEF WriteRow
    <3>4. adrift' = AdriftAfter({x}, got) /\ ver'[r] = ver[r]
      BY <2>1 DEF WriteRow, catalogVars
    <3> HIDE DEF x, got
    <3> QED
      BY <3>2, <3>3, <3>4, WriteSettles
  <2>2. CASE ~WriteRow(w)
    BY <1>1, <1>3, <2>2 DEF Worker, Take, ReadItem, Finish, Crash
  <2> QED
    BY <2>1, <2>2
<1>4. CASE Job
  <2>1. job.got \in [Refs -> Nat] /\ job.chunk \subseteq Refs /\ job.doomed \subseteq Refs
    BY DEF FreshnessInv, TypeOK, JobStates
  <2>2. CASE UpsertChunk
    <3> DEFINE W == IF job.mode = "reconcile" THEN job.chunk \ job.known ELSE job.chunk
    <3>1. /\ basis' = [x \in Refs |-> IF x \in W THEN job.got[x] ELSE basis[x]]
          /\ adrift' = AdriftAfter(W, job.got) /\ ver' = ver
      BY <2>2 DEF UpsertChunk, catalogVars
    <3>2. W \in SUBSET Refs
      BY <2>1
    <3> HIDE DEF W
    <3> QED
      BY <2>1, <3>1, <3>2, WriteSettles
  <2>3. CASE DeleteStale
    <3>1. PICK D \in (SUBSET job.doomed) \ {{}} :
             /\ basis' = [x \in Refs |-> IF x \in D THEN job.got[x] ELSE basis[x]]
             /\ adrift' = AdriftAfter(D, job.got)
      BY <2>3 DEF DeleteStale
    <3>2. D \in SUBSET Refs /\ ver' = ver
      BY <2>1, <2>3 DEF DeleteStale, catalogVars
    <3> QED
      BY <2>1, <3>1, <3>2, WriteSettles
  <2>4. CASE ~UpsertChunk /\ ~DeleteStale
    BY <1>1, <1>4, <2>4 DEF Job, StartBackfill, StartReconcile, StreamItem, EndStream, EndReconcile, KillJob
  <2> QED
    BY <2>2, <2>3, <2>4
<1>5. ASSUME NEW x \in Refs, EmbedImages(x) PROVE r \in adrift'
  BY <1>1, <1>5 DEF EmbedImages
<1>6. CASE UNCHANGED vars
  BY <1>1, <1>6 DEF vars
<1> QED
  BY <1>2, <1>3, <1>4, <1>5, <1>6 DEF Next

\* No step changes an item and its row together: no transaction spans the two.
LEMMA ItemOrRow == [Next]_vars => UNCHANGED row \/ UNCHANGED <<ver, live>>
<1>1. Host => UNCHANGED row
  BY DEF Host, Save, RawSave, Commit, Rollback, BulkWrite, Publish, PublishFails, tableVars
<1>2. ASSUME NEW w \in Workers, Worker(w) PROVE UNCHANGED <<ver, live>>
  BY <1>2 DEF Worker, Take, ReadItem, WriteRow, Finish, Crash, catalogVars
<1>3. Job => UNCHANGED <<ver, live>>
  BY DEF Job, StartBackfill, StartReconcile, StreamItem, UpsertChunk, EndStream, DeleteStale, EndReconcile,
         KillJob, catalogVars
<1>4. ASSUME NEW r \in Refs, EmbedImages(r) PROVE UNCHANGED row
  BY <1>4 DEF EmbedImages, tableVars
<1>5. UNCHANGED vars => UNCHANGED row
  BY DEF vars, tableVars
<1> QED
  BY <1>1, <1>2, <1>3, <1>4, <1>5 DEF Next

(* The initial states are Mirror's: what the empty table lacks is lost.    *)
LEMMA MirrorInit == FreshnessInv => Index!Init
<1> SUFFICES ASSUME FreshnessInv PROVE Index!Init
  OBVIOUS
<1>1. /\ ver \in [Refs -> Nat] /\ row \in [Refs -> Nat] /\ adrift \subseteq Refs
  BY DEF FreshnessInv, TypeOK
<1>2. \A r \in Refs : Index!Accounted(r)
  BY InvStale DEF StaleIsOwed, Fresh, Index!Accounted, Index!InSync
<1> QED
  BY <1>1, <1>2 DEF Index!Init

(* Every step is Mirror's, or leaves all it sees alone.                    *)
LEMMA MirrorNext == FreshnessInv /\ FreshnessInv' /\ [Next]_vars => Index!Next
<1> SUFFICES ASSUME FreshnessInv, FreshnessInv', [Next]_vars, NEW r \in Refs
             PROVE  /\ Index!Account(r) \/ Index!Write(r) \/ Index!Change(r)
                    /\ Index!Accounted(r)'
                    /\ r \in adrift => r \in adrift' \/ Index!InSync(r)'
  BY DEF Index!Next
<1>1. Index!Account(r) \/ Index!Write(r) \/ Index!Change(r)
  BY ItemOrRow DEF Index!Account, Index!Write, Index!Change
<1>2. Index!Accounted(r)'
  <2>1. StaleIsOwed'
    BY DEF FreshnessInv, CurrentBasisIsFresh, OldBasisIsOwed, StaleIsOwed
  <2> QED
    BY <2>1 DEF StaleIsOwed, Fresh, Index!Accounted, Index!InSync
<1>3. r \in adrift => r \in adrift' \/ Index!InSync(r)'
  BY LostUntilWritten DEF Fresh, Index!InSync
<1> QED
  BY <1>1, <1>2, <1>3

(* The refinement, for any number of refs, workers and changes: every      *)
(* behaviour of transactions, messages, tasks and commands is one of       *)
(* Mirror.  No debt is dropped unnoticed, and a loss is made good by the   *)
(* write of the current version alone.                                     *)
THEOREM ImplementsMirror == Spec => FollowsTheCatalog
<1>1. Init => Index!Init
  BY InvInit, MirrorInit
<1>2. FreshnessInv /\ FreshnessInv' /\ [Next]_vars => [Index!Next]_(Index!vars)
  BY MirrorNext
<1>3. FreshnessInv /\ [Next]_vars => FreshnessInv'
  BY InvNext
<1>4. Init => FreshnessInv
  BY InvInit
<1> QED
  BY <1>1, <1>2, <1>3, <1>4, PTL DEF Spec, FollowsTheCatalog, Index!Spec

-----------------------------------------------------------------------------
(* Pictures of the refs rebuilt.                                           *)

\* An idle task has rebuilt nothing; with images off no picture awaits a check.
HandedOverInv ==
    /\ RebuiltIsHandedOver
    /\ \A w \in Workers : task[w].phase = "idle" => task[w].rebuilt = {}
    /\ ~ImagesOn => unchecked = {}

\* A rebuilt ref stays with its task or on the image queue until it is checked, or its task died.
LEMMA HandedOverNext == TypeOK /\ HandedOverInv /\ [Next]_vars => HandedOverInv'
<1> SUFFICES ASSUME TypeOK, HandedOverInv, [Next]_vars PROVE HandedOverInv'
  OBVIOUS
<1> USE DEF HandedOverInv, RebuiltIsHandedOver
<1>1. task \in [Workers -> TaskStates] /\ ImagesOn \in BOOLEAN
  BY FreshnessAssumption DEF TypeOK
<1>2. CASE UNCHANGED <<task, imageQueue, unchecked>>
  BY <1>2
<1>3. ASSUME NEW w \in Workers, NEW t, task' = [task EXCEPT ![w] = t], t.rebuilt = task[w].rebuilt,
             t.phase # "idle", UNCHANGED <<imageQueue, unchecked>>
      PROVE  HandedOverInv'
  <2>1. \A v \in Workers : task'[v] = IF v = w THEN t ELSE task[v]
    BY <1>1, <1>3
  <2> QED
    BY <1>3, <2>1
<1>4. CASE Host
  BY <1>2, <1>4 DEF Host, Save, RawSave, Commit, Rollback, BulkWrite, Publish, PublishFails, queueVars
<1>5. ASSUME NEW w \in Workers, Take(w) PROVE HandedOverInv'
  <2>1. PICK m \in Messages : task' = [task EXCEPT ![w] = Looping(m, {})]
    BY <1>5 DEF Take
  <2>2. Looping(m, {}).rebuilt = {} /\ Looping(m, {}).phase = "loop"
    BY DEF Looping
  <2>3. task[w].rebuilt = {} /\ UNCHANGED <<imageQueue, unchecked>>
    BY <1>5 DEF Take
  <2> QED
    BY <1>3, <2>1, <2>2, <2>3
<1>6. ASSUME NEW w \in Workers, NEW r \in Refs, ReadItem(w, r) PROVE HandedOverInv'
  <2> DEFINE t == Reading(task[w].todo \ {r}, task[w].rebuilt, r, ver[r], live[r])
  <2>1. t.rebuilt = task[w].rebuilt /\ t.phase # "idle"
    BY DEF Reading
  <2>2. task' = [task EXCEPT ![w] = t] /\ UNCHANGED <<imageQueue, unchecked>>
    BY <1>6 DEF ReadItem
  <2> HIDE DEF t
  <2> QED
    BY <1>3, <2>1, <2>2
<1>7. ASSUME NEW w \in Workers, WriteRow(w) PROVE HandedOverInv'
  <2> DEFINE more == IF task[w].found THEN task[w].rebuilt \cup {task[w].ref} ELSE task[w].rebuilt
  <2>1. /\ task' = [task EXCEPT ![w] = Looping(task[w].todo, more)]
        /\ imageQueue' = imageQueue
        /\ unchecked' = IF task[w].found /\ ImagesOn THEN unchecked \cup {task[w].ref} ELSE unchecked
    BY <1>7 DEF WriteRow
  <2>2. \A v \in Workers : task'[v] = IF v = w THEN Looping(task[w].todo, more) ELSE task[v]
    BY <1>1, <2>1
  <2>3. task'[w].rebuilt = more /\ task'[w].phase = "loop"
    BY <2>2 DEF Looping
  <2> QED
    BY <2>1, <2>2, <2>3
<1>8. ASSUME NEW w \in Workers, Finish(w) PROVE HandedOverInv'
  <2>1. \A v \in Workers : task'[v] = IF v = w THEN IdleTask ELSE task[v]
    BY <1>1, <1>8 DEF Finish
  <2>2. /\ imageQueue' = IF ImagesOn THEN imageQueue \cup task[w].rebuilt ELSE imageQueue
        /\ unchecked' = unchecked
    BY <1>8 DEF Finish
  <2> QED
    BY <2>1, <2>2 DEF IdleTask
<1>9. ASSUME NEW w \in Workers, Crash(w) PROVE HandedOverInv'
  <2>1. \A v \in Workers : task'[v] = IF v = w THEN IdleTask ELSE task[v]
    BY <1>1, <1>9 DEF Crash
  <2>2. imageQueue' = imageQueue /\ unchecked' = unchecked \ task[w].rebuilt
    BY <1>9 DEF Crash
  <2> QED
    BY <2>1, <2>2 DEF IdleTask
<1>10. ASSUME NEW r \in Refs, EmbedImages(r) PROVE HandedOverInv'
  BY <1>10 DEF EmbedImages
<1>11. CASE Job
  BY <1>2, <1>11 DEF Job, StartBackfill, StartReconcile, StreamItem, UpsertChunk, EndStream, DeleteStale,
                     EndReconcile, KillJob, queueVars
<1>12. CASE UNCHANGED vars
  BY <1>2, <1>12 DEF vars, queueVars
<1> QED
  BY <1>4, <1>5, <1>6, <1>7, <1>8, <1>9, <1>10, <1>11, <1>12 DEF Next, Worker

(* A ref whose row a task rebuilt stays with the task or on the image      *)
(* queue until embed_fingerprint_images took it, whatever other tasks,     *)
(* crashes and rebuilds of the same ref come between.                      *)
THEOREM PicturesAreHandedOver == Spec => []RebuiltIsHandedOver
<1>1. Init => HandedOverInv
  BY DEF Init, HandedOverInv, RebuiltIsHandedOver, IdleTask
<1>2. TypeOK /\ HandedOverInv /\ [Next]_vars => HandedOverInv'
  BY HandedOverNext
<1>3. HandedOverInv => RebuiltIsHandedOver
  BY DEF HandedOverInv
<1> QED
  BY <1>1, <1>2, <1>3, TypeCorrect, PTL DEF Spec

-----------------------------------------------------------------------------
(* What the commands leave behind.                                         *)

(* Of a ref it vouches for, a running backfill either holds the version    *)
(* the item still has, or has written it; at its end nothing is left.      *)
BackfillInv ==
    job.mode = "backfill" =>
        /\ job.phase # "delete"
        /\ job.phase = "idle" => job.left = {} /\ job.chunk = {}
        /\ \A r \in Refs \ unclaimed :
              /\ r \in job.chunk => job.got[r] = ver[r]
              /\ r \notin job.left \cup job.chunk => (live[r] => row[r] = ver[r])

(* Of a ref it vouches for, a running reconcile knows by `known` whether   *)
(* there was a row, by `seen` that the item is served, and at the end of   *)
(* the stream by the lack of it that the item is not.                      *)
ReconcileStreams(r) ==
    /\ r \in job.seen => live[r] /\ row[r] # 0
    /\ r \notin job.seen => (r \in job.known <=> row[r] # 0)
    /\ r \in job.chunk => live[r]
    /\ r \notin job.left \cup job.chunk \cup job.seen => ~live[r]

ReconcileDeletes(r) ==
    IF r \in job.doomed THEN ~live[r] ELSE (row[r] # 0) <=> live[r]

ReconcileInv ==
    job.mode = "reconcile" =>
        \A r \in Refs \ unclaimed :
            /\ job.phase = "stream" => ReconcileStreams(r)
            /\ job.phase = "delete" => ReconcileDeletes(r)
            /\ job.phase = "idle" => ((row[r] # 0) <=> live[r])

CommandsInv ==
    /\ BackfillInv /\ ReconcileInv
    /\ \A r \in job.chunk : job.got[r] > 0
    /\ job.mode = "none" => job.phase = "idle"

\* The host and the tasks void the command's word on every ref they touch.
LEMMA OthersSpareClaims ==
  ASSUME TypeOK, CommandsInv, UNCHANGED job, unclaimed \subseteq unclaimed',
         job.mode # "none" =>
            \A r \in Refs \ unclaimed' : ver'[r] = ver[r] /\ live'[r] = live[r] /\ row'[r] = row[r]
  PROVE  CommandsInv'
<1>1. BackfillInv'
  BY DEF CommandsInv, BackfillInv
<1>2. ReconcileInv'
  BY DEF CommandsInv, ReconcileInv, ReconcileStreams, ReconcileDeletes
<1> QED
  BY <1>1, <1>2 DEF CommandsInv

\* What the host commits or announces keeps what the commands vouch for.
LEMMA HostSparesClaims == TypeOK /\ CommandsInv /\ Host => CommandsInv'
<1> SUFFICES ASSUME TypeOK, CommandsInv, Host PROVE CommandsInv'
  OBVIOUS
<1>1. ver \in [Refs -> Nat] /\ live \in [Refs -> BOOLEAN] /\ row \in [Refs -> Nat]
  BY DEF TypeOK
<1>2. CASE UNCHANGED <<ver, live, row, job, unclaimed>>
  BY <1>2, OthersSpareClaims
<1>3. ASSUME NEW r \in Refs, Save(r) PROVE CommandsInv'
  BY <1>2, <1>3 DEF Save, tableVars
<1>4. ASSUME NEW r \in Refs, RawSave(r) PROVE CommandsInv'
  <2>1. /\ UNCHANGED <<row, job>> /\ unclaimed' = NotedBy({r})
        /\ \A x \in Refs \ {r} : ver'[x] = ver[x] /\ live'[x] = live[x]
    BY <1>1, <1>4 DEF RawSave, tableVars
  <2> QED
    BY <2>1, OthersSpareClaims DEF NotedBy
<1>5. ASSUME NEW S \in Messages, Commit(S) \/ BulkWrite(S) PROVE CommandsInv'
  <2>1. /\ UNCHANGED <<row, job>> /\ unclaimed' = NotedBy(S)
        /\ \A x \in Refs \ S : ver'[x] = ver[x] /\ live'[x] = live[x]
    BY <1>1, <1>5 DEF Commit, BulkWrite, tableVars
  <2> QED
    BY <2>1, OthersSpareClaims DEF NotedBy
<1>6. ASSUME NEW S \in Messages, Rollback(S) PROVE CommandsInv'
  BY <1>2, <1>6 DEF Rollback, tableVars
<1>7. ASSUME NEW m \in Messages, Publish(m) \/ PublishFails(m) PROVE CommandsInv'
  BY <1>2, <1>7 DEF Publish, PublishFails, catalogVars, tableVars
<1> QED
  BY <1>3, <1>4, <1>5, <1>6, <1>7 DEF Host

\* A row a task writes beside a command is one the command no longer vouches for.
LEMMA WorkersSpareClaims == ASSUME TypeOK, CommandsInv, NEW w \in Workers, Worker(w) PROVE CommandsInv'
<1>1. CASE UNCHANGED <<ver, live, row, job, unclaimed>>
  BY <1>1, OthersSpareClaims
<1>2. CASE WriteRow(w)
  <2>1. row \in [Refs -> Nat]
    BY DEF TypeOK
  <2>2. /\ UNCHANGED <<ver, live, job>> /\ unclaimed' = NotedBy({task[w].ref})
        /\ \A x \in Refs \ {task[w].ref} : row'[x] = row[x]
    BY <1>2, <2>1 DEF WriteRow, catalogVars
  <2> QED
    BY <2>2, OthersSpareClaims DEF NotedBy
<1> QED
  BY <1>1, <1>2 DEF Worker, Take, ReadItem, Finish, Crash, catalogVars, tableVars

\* The commands' own steps.
LEMMA CommandsKeepTheirWord == FreshnessInv /\ CommandsInv /\ Job => CommandsInv'
<1> SUFFICES ASSUME FreshnessInv, CommandsInv, Job PROVE CommandsInv'
  OBVIOUS
<1>1. /\ job \in JobStates /\ ver \in [Refs -> Nat] /\ live \in [Refs -> BOOLEAN] /\ row \in [Refs -> Nat]
      /\ unclaimed \subseteq Refs
  BY DEF FreshnessInv, TypeOK
<1>2. /\ job.left \subseteq Refs /\ job.chunk \subseteq Refs /\ job.doomed \subseteq Refs
      /\ job.got \in [Refs -> Nat] /\ job.mode \in {"backfill", "reconcile", "none"}
      /\ job.phase \in {"idle", "stream", "delete"}
  BY <1>1 DEF JobStates, AllModes
<1>3. \A r \in Refs : ver[r] > 0
  BY DEF FreshnessInv, VersionsInOrder
<1>4. CASE StartBackfill
  <2>1. PICK S \in SUBSET Refs : job' = Streaming("backfill", S, {}, {}, {}, NoReads) /\ unclaimed' = Refs \ S
    BY <1>4 DEF StartBackfill
  <2>2. BackfillInv'
    BY <2>1 DEF BackfillInv, Streaming
  <2> QED
    BY <2>1, <2>2 DEF CommandsInv, ReconcileInv, Streaming
<1>5. CASE StartReconcile
  <2>1. /\ job' = Streaming("reconcile", Refs, {r \in Refs : row[r] # 0}, {}, {}, NoReads)
        /\ row' = row
    BY <1>5 DEF StartReconcile, tableVars
  <2>2. ReconcileInv'
    BY <2>1 DEF ReconcileInv, ReconcileStreams, Streaming
  <2> QED
    BY <2>1, <2>2 DEF CommandsInv, BackfillInv, Streaming
<1>6. ASSUME NEW r \in Refs, StreamItem(r) PROVE CommandsInv'
  <2> DEFINE more == IF live[r] THEN job.chunk \cup {r} ELSE job.chunk
             got == [job.got EXCEPT ![r] = ver[r]]
  <2>1. /\ job' = Streaming(job.mode, job.left \ {r}, job.known, job.seen, more, got)
        /\ UNCHANGED <<ver, live, row, unclaimed>> /\ r \in job.left /\ job.phase = "stream"
    BY <1>6 DEF StreamItem, catalogVars, tableVars
  <2>2. \A x \in Refs : got[x] = IF x = r THEN ver[r] ELSE job.got[x]
    BY <1>2
  <2>3. /\ job'.mode = job.mode /\ job'.phase = "stream" /\ job'.left = job.left \ {r} /\ job'.known = job.known
        /\ job'.seen = job.seen /\ job'.chunk = more /\ job'.got = got
    BY <2>1 DEF Streaming
  <2>4. BackfillInv'
    <3>1. ASSUME job.mode = "backfill", NEW x \in Refs \ unclaimed
          PROVE  /\ x \in more => got[x] = ver[x]
                 /\ x \notin (job.left \ {r}) \cup more => (live[x] => row[x] = ver[x])
      <4>1. /\ x \in job.chunk => job.got[x] = ver[x]
            /\ x \notin job.left \cup job.chunk => (live[x] => row[x] = ver[x])
        BY <3>1 DEF CommandsInv, BackfillInv
      <4> QED
        BY <2>2, <4>1
    <3> HIDE DEF more, got
    <3> QED
      BY <2>1, <2>3, <3>1 DEF BackfillInv
  <2>5. ReconcileInv'
    <3>1. ASSUME job.mode = "reconcile", NEW x \in Refs \ unclaimed PROVE ReconcileStreams(x)'
      <4>1. ReconcileStreams(x)
        BY <2>1, <3>1 DEF CommandsInv, ReconcileInv
      <4> QED
        BY <2>1, <2>3, <4>1 DEF ReconcileStreams
    <3> QED
      BY <2>1, <2>3, <3>1 DEF ReconcileInv
  <2>6. \A x \in job'.chunk : job'.got[x] > 0
    BY <1>2, <1>3, <2>2, <2>3 DEF CommandsInv
  <2> QED
    BY <2>1, <2>3, <2>4, <2>5, <2>6 DEF CommandsInv
<1>7. CASE UpsertChunk
  <2> DEFINE W == IF job.mode = "reconcile" THEN job.chunk \ job.known ELSE job.chunk
  <2>1. /\ job' = Streaming(job.mode, job.left, job.known, job.seen \cup job.chunk, {}, job.got)
        /\ row' = [r \in Refs |-> IF r \in W THEN job.got[r] ELSE row[r]]
        /\ UNCHANGED <<ver, live, unclaimed>> /\ job.phase = "stream"
    BY <1>7 DEF UpsertChunk, catalogVars
  <2>2. /\ job'.mode = job.mode /\ job'.phase = "stream" /\ job'.left = job.left /\ job'.known = job.known
        /\ job'.seen = job.seen \cup job.chunk /\ job'.chunk = {} /\ job'.got = job.got
    BY <2>1 DEF Streaming
  <2>3. BackfillInv'
    BY <2>1, <2>2 DEF CommandsInv, BackfillInv
  <2>4. ASSUME job.mode = "reconcile", NEW r \in Refs \ unclaimed PROVE ReconcileStreams(r)'
    <3>1. ReconcileStreams(r)
      BY <2>1, <2>4 DEF CommandsInv, ReconcileInv
    <3>2. row'[r] = IF r \in job.chunk \ job.known THEN job.got[r] ELSE row[r]
      BY <2>1, <2>4
    <3>3. r \in job.chunk => job.got[r] # 0
      BY <1>2 DEF CommandsInv
    <3> QED
      BY <2>1, <2>2, <3>1, <3>2, <3>3 DEF ReconcileStreams
  <2>5. ReconcileInv'
    BY <2>1, <2>2, <2>4 DEF ReconcileInv
  <2> QED
    BY <2>1, <2>2, <2>3, <2>5 DEF CommandsInv
<1>8. CASE EndStream
  <2>1. /\ job' = IF job.mode = "backfill" THEN IdleJob("backfill") ELSE Deleting(job.known \ job.seen, job.got)
        /\ UNCHANGED <<ver, live, row, unclaimed>>
        /\ job.phase = "stream" /\ job.left = {} /\ job.chunk = {}
    BY <1>8 DEF EndStream, catalogVars, tableVars
  <2>2. CASE job.mode = "backfill"
    BY <2>1, <2>2 DEF CommandsInv, BackfillInv, ReconcileInv, IdleJob
  <2>3. CASE job.mode = "reconcile"
    <3>1. /\ job'.mode = "reconcile" /\ job'.phase = "delete" /\ job'.doomed = job.known \ job.seen
          /\ job'.chunk = {}
      BY <2>1, <2>3 DEF Deleting
    <3>2. ReconcileInv'
      BY <2>1, <2>3, <3>1 DEF CommandsInv, ReconcileInv, ReconcileStreams, ReconcileDeletes
    <3> QED
      BY <3>1, <3>2 DEF CommandsInv, BackfillInv
  <2> QED
    BY <1>2, <2>1, <2>2, <2>3 DEF CommandsInv
<1>9. CASE DeleteStale
  <2>1. PICK D \in (SUBSET job.doomed) \ {{}} : /\ row' = [r \in Refs |-> IF r \in D THEN 0 ELSE row[r]]
                                                 /\ job' = Deleting(job.doomed \ D, job.got)
    BY <1>9 DEF DeleteStale
  <2>2. UNCHANGED <<ver, live, unclaimed>> /\ job.phase = "delete"
    BY <1>9 DEF DeleteStale, catalogVars
  <2>3. job.mode = "reconcile"
    BY <1>2, <2>2 DEF CommandsInv, BackfillInv
  <2>4. job'.mode = "reconcile" /\ job'.phase = "delete" /\ job'.doomed = job.doomed \ D /\ job'.chunk = {}
    BY <2>1 DEF Deleting
  <2>5. ReconcileInv'
    BY <2>1, <2>2, <2>3, <2>4 DEF CommandsInv, ReconcileInv, ReconcileDeletes
  <2> QED
    BY <2>4, <2>5 DEF CommandsInv, BackfillInv
<1>10. CASE EndReconcile
  <2>1. /\ job' = IdleJob("reconcile") /\ UNCHANGED <<ver, live, row, unclaimed>>
        /\ job.phase = "delete" /\ job.doomed = {}
    BY <1>10 DEF EndReconcile, catalogVars, tableVars
  <2>2. job.mode = "reconcile"
    BY <1>2, <2>1 DEF CommandsInv, BackfillInv
  <2>3. ReconcileInv'
    BY <2>1, <2>2 DEF CommandsInv, ReconcileInv, ReconcileDeletes, IdleJob
  <2> QED
    BY <2>1, <2>3 DEF CommandsInv, BackfillInv, IdleJob
<1>11. CASE KillJob
  BY <1>11 DEF KillJob, CommandsInv, BackfillInv, ReconcileInv, IdleJob
<1> QED
  BY <1>4, <1>5, <1>6, <1>7, <1>8, <1>9, <1>10, <1>11 DEF Job

\* Every step of host, tasks and command itself keeps what the commands vouch for.
LEMMA CommandsNext == FreshnessInv /\ CommandsInv /\ [Next]_vars => CommandsInv'
<1> SUFFICES ASSUME FreshnessInv, CommandsInv, [Next]_vars PROVE CommandsInv'
  OBVIOUS
<1>1. TypeOK
  BY DEF FreshnessInv
<1>2. CASE UNCHANGED <<ver, live, row, job, unclaimed>>
  BY <1>1, <1>2, OthersSpareClaims
<1>3. ASSUME NEW r \in Refs, EmbedImages(r) PROVE CommandsInv'
  BY <1>2, <1>3 DEF EmbedImages, catalogVars, tableVars
<1>4. CASE UNCHANGED vars
  BY <1>2, <1>4 DEF vars, catalogVars, tableVars
<1> QED
  BY <1>1, <1>3, <1>4, HostSparesClaims, WorkersSpareClaims, CommandsKeepTheirWord DEF Next

(* Every completed lookup_backfill or lookup_reconcile, over any catalog,  *)
(* with any batch size and with transactions and tasks going on beside it. *)
THEOREM CommandsKept == Spec => [](FreshnessInv /\ CommandsInv)
<1>1. Init => FreshnessInv
  BY InvInit
<1>2. Init => CommandsInv
  BY DEF Init, CommandsInv, BackfillInv, ReconcileInv, IdleJob
<1>3. FreshnessInv /\ [Next]_vars => FreshnessInv'
  BY InvNext
<1>4. FreshnessInv /\ CommandsInv /\ [Next]_vars => CommandsInv'
  BY CommandsNext
<1> QED
  BY <1>1, <1>2, <1>3, <1>4, PTL DEF Spec

(* After lookup_reconcile every ref nobody else touched meanwhile has a    *)
(* row exactly when the provider serves it: the stream, its batches and    *)
(* the deletions between them miss none and delete none wrongly.           *)
THEOREM ReconcileRepairs == Spec => []ReconcileRepairsPresence
<1>1. CommandsInv => ReconcileRepairsPresence
  BY DEF CommandsInv, ReconcileInv, ReconcileRepairsPresence
<1> QED
  BY <1>1, CommandsKept, PTL

(* After lookup_backfill every served item it covered and nobody else      *)
(* touched meanwhile has the row of its current version.                   *)
THEOREM BackfillRepairs == Spec => []BackfillRefreshes
<1>1. CommandsInv => BackfillRefreshes
  BY DEF CommandsInv, BackfillInv, BackfillRefreshes
<1> QED
  BY <1>1, CommandsKept, PTL

=============================================================================
