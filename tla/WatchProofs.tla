----------------------------- MODULE WatchProofs -----------------------------
(* Theorems about Watch, for any writers, kinds, refs, contents, number of *)
(* writes, and anything providers may declare.                             *)
EXTENDS Watch, WellFoundedInduction, TLAPS

-----------------------------------------------------------------------------
(* The handlers                                                            *)

\* The snapshot every writer ends up with is that of the last spec connected.
LastSnapshot == CHOOSE i \in Snapshots : \A j \in Snapshots : j <= i

Watched == ToSet(specs[LastSnapshot].watch)

\* Two kinds watch the model, and one lacks a column of the other.
Mismatched ==
    \E i, j \in DOMAIN specs :
        /\ specs[i].kind # specs[j].kind /\ specs[j].watch # <<>>
        /\ ToSet(specs[i].watch) \ ToSet(specs[j].watch) # {}

\* What is connected was declared.
LEMMA Declared ==
  ASSUME specs \in Seq(Specs), NEW i \in Handlers \cup Snapshots
  PROVE  /\ i \in DOMAIN specs /\ specs[i].kind \in Kinds /\ specs[i].watch \in Seq(Columns)
         /\ i \in Handlers => specs[i].kind \in Heard
<1>1. i \in DOMAIN specs
  BY DEF Handlers, Snapshots, FirstPerKind
<1>2. specs[i] \in Specs
  BY <1>1
<1> QED
  BY <1>1, <1>2 DEF Specs, Heard

\* Of every inhabited set of numbers one is the least.
LEMMA LeastNumber ==
  ASSUME NEW T \in SUBSET Nat, T # {}
  PROVE  \E n \in T : \A m \in T : n <= m
<1> DEFINE R == OpToRel(<, Nat)
<1>1. IsWellFoundedOn(R, Nat)
  BY NatLessThanWellFounded
<1>2. \A m, n \in Nat : m < n => <<m, n>> \in R
  BY DEF OpToRel
<1> HIDE DEF R
<1>3. PICK n \in T : \A m \in T : ~(<<m, n>> \in R)
  BY <1>1, WFMin
<1>4. ASSUME NEW m \in T PROVE n <= m
  <2>1. m \in Nat /\ n \in Nat /\ <<m, n>> \notin R
    BY <1>3
  <2>2. ~(m < n)
    BY <1>2, <2>1
  <2> QED
    BY <2>1, <2>2
<1> QED
  BY <1>4

(* Where any snapshot is connected there is a last one: the least distance *)
(* from the end of what was declared.                                      *)
LEMMA LastIsConnected ==
  ASSUME specs \in Seq(Specs), Snapshots # {}
  PROVE  LastSnapshot \in Snapshots
<1> DEFINE n == Len(specs)
           T == {n - i : i \in Snapshots}
<1>1. n \in Nat /\ \A i \in Snapshots : i \in 1 .. n
  BY DEF Snapshots, FirstPerKind
<1>2. T \in SUBSET Nat /\ T # {}
  BY <1>1
<1>3. PICK d \in T : \A m \in T : d <= m
  <2> HIDE DEF T
  <2> QED
    BY <1>2, LeastNumber
<1>4. PICK i \in Snapshots : d = n - i
  BY <1>3
<1>5. ASSUME NEW j \in Snapshots PROVE j <= i
  <2>1. n - i <= n - j
    BY <1>3, <1>4
  <2>2. i \in Int /\ j \in Int
    BY <1>1
  <2> HIDE DEF n, T
  <2> QED
    BY <1>1, <2>1, <2>2
<1> QED
  BY <1>5 DEF LastSnapshot

(* A handler that watches has its own snapshot connected, if any of its    *)
(* kind: it was the first to be declared, with a watch or without.         *)
LEMMA SnapshotOfHandler ==
  ASSUME specs \in Seq(Specs), NEW h \in Handlers, specs[h].watch # <<>>,
         NEW i \in Snapshots, specs[i].kind = specs[h].kind
  PROVE  i = h
<1>1. h \in Nat /\ i \in Nat /\ h \in DOMAIN specs /\ i \in DOMAIN specs
  BY DEF Handlers, Snapshots, FirstPerKind
<1>2. Yielded(h) /\ Yielded(i) /\ specs[i].watch # <<>>
  BY DEF Handlers, Snapshots, FirstPerKind
<1>3. h <= i
  BY <1>1, <1>2 DEF Handlers, FirstPerKind
<1>4. i <= h
  BY <1>1, <1>2 DEF Snapshots, FirstPerKind
<1> QED
  BY <1>1, <1>3, <1>4

(* A handler raises on another kind's snapshot only.                       *)
LEMMA RaisedByAnother ==
  ASSUME specs \in Seq(Specs), NEW instance, NEW before, NEW created,
         before # Nothing => Snapshots # {} /\ DOMAIN before = Watched,
         Raised(instance, before, created) # {}
  PROVE  Mismatched
<1>1. PICK h \in Handlers : Raises(specs[h].watch, instance, before, created)
  BY DEF Raised
<1>2. specs[h].watch # <<>> /\ before # Nothing
  BY <1>1 DEF Raises
<1>3. PICK i \in DOMAIN specs[h].watch : specs[h].watch[i] \notin DOMAIN before
  BY <1>1 DEF Raises
<1>4. LastSnapshot \in Snapshots /\ DOMAIN before = Watched
  BY <1>2, LastIsConnected
<1>5. h \in DOMAIN specs /\ LastSnapshot \in DOMAIN specs /\ specs[LastSnapshot].watch # <<>>
  BY <1>4 DEF Handlers, Snapshots, FirstPerKind
<1>6. specs[h].watch[i] \in ToSet(specs[h].watch) \ ToSet(specs[LastSnapshot].watch)
  BY <1>3, <1>4 DEF ToSet, Watched
<1>7. specs[h].kind # specs[LastSnapshot].kind
  BY <1>2, <1>4, <1>6, SnapshotOfHandler
<1> QED
  BY <1>5, <1>6, <1>7 DEF Mismatched

(* A handler that neither raises nor finds a change has compared every     *)
(* column it watches with a snapshot that holds it: of the columns the     *)
(* snapshot lacks, the first would have raised.                            *)
LEMMA NoChangeSeen ==
  ASSUME NEW watch \in Seq(Columns), NEW instance, NEW before, NEW created,
         ~Changed(watch, instance, before, created), ~Raises(watch, instance, before, created)
  PROVE  /\ watch # <<>> /\ ~created /\ before # Nothing
         /\ \A c \in ToSet(watch) : c \in DOMAIN before /\ before[c] = instance[c]
<1>1. /\ watch # <<>> /\ ~created /\ before # Nothing
      /\ \A i \in DOMAIN watch : watch[i] \in DOMAIN before => before[watch[i]] = instance[watch[i]]
  BY DEF Changed
<1> DEFINE T == {i \in DOMAIN watch : watch[i] \notin DOMAIN before}
<1>2. T = {}
  <2> SUFFICES ASSUME T # {} PROVE FALSE
    OBVIOUS
  <2>1. T \in SUBSET Nat
    OBVIOUS
  <2>2. PICK i \in T : \A j \in T : i <= j
    <3> HIDE DEF T
    <3> QED
      BY <2>1, LeastNumber
  <2>3. ASSUME NEW j \in 1 .. i - 1 PROVE watch[j] \in DOMAIN before /\ before[watch[j]] = instance[watch[j]]
    <3>1. i \in 1 .. Len(watch) /\ j \in Nat /\ ~(i <= j)
      BY <2>2
    <3>2. j \in DOMAIN watch
      BY <3>1
    <3>3. j \notin T
      BY <2>2, <3>1
    <3> QED
      BY <1>1, <3>2, <3>3
  <2>4. Raises(watch, instance, before, created)
    BY <1>1, <2>2, <2>3 DEF Raises
  <2> QED
    BY <2>4
<1> QED
  BY <1>1, <1>2 DEF ToSet

-----------------------------------------------------------------------------
(* The invariant                                                           *)

\* What a query of a session s sees.
After(s) == IF s.write = Nothing THEN row ELSE IF s.write = Gone THEN Nothing ELSE s.write

\* The content a ref would be served with, were `value` the row.
Content(value, r) == IF value # Nothing /\ value.ref = r THEN value.content ELSE Nothing

\* Snapshots hold some columns of some row.
Taken == {Nothing} \cup {[c \in S |-> v[c]] : S \in SUBSET Columns, v \in RowValues}

Sessions ==
    [phase : {"idle", "held", "sent", "stored", "committed"}, instance : RowValues \cup {Nothing},
     before : Taken, write : RowValues \cup {Nothing, Gone},
     owed : SUBSET (Kinds \X Refs), unsaid : SUBSET (Kinds \X (Refs \cup {NoRef})), raised : BOOLEAN]

(* A session's snapshot has the columns of the last spec connected, and    *)
(* until another commit overtakes it, the values that the save will        *)
(* replace; only a session about to save or to commit has a write; what    *)
(* its write changes for any ref, it announces or is known to leave out.   *)
SessionOK(s, over) ==
    /\ s.phase # "idle" => s.instance \in RowValues
    /\ s.before # Nothing => Snapshots # {} /\ DOMAIN s.before = Watched
    /\ s.write # Nothing => s.phase \in {"sent", "stored"}
    /\ s.phase = "sent" /\ ~over /\ s.before # Nothing =>
          After(s) # Nothing /\ \A c \in DOMAIN s.before : s.before[c] = After(s)[c]
    /\ \A k \in Heard, r \in Refs :
          Content(After(s), r) # Content(row, r) => <<k, r>> \in s.owed \cup s.unsaid
    /\ s.raised => Mismatched

Typed ==
    /\ specs \in Seq(Specs) /\ row \in RowValues \cup {Nothing}
    /\ session \in [Writers -> Sessions] /\ overtaken \in SUBSET Writers
    /\ fingerprint \in [Kinds -> [Refs -> Contents \cup {Nothing}]]
    /\ pending \in SUBSET (Kinds \X Refs) /\ missed \in SUBSET (Kinds \X (Refs \cup {NoRef}))

\* The row's lock: no two sessions have a write.
OneWrites == \A v, w \in Writers : v # w => session[v].write = Nothing \/ session[w].write = Nothing

WatchInv ==
    /\ Typed /\ OneWrites /\ ChangesAreAnnounced
    /\ \A w \in Writers : SessionOK(session[w], w \in overtaken)

\* What a writer sees is the table with its own write over it.
LEMMA CurrentIsAfter ==
  ASSUME NEW w \in Writers
  PROVE  Current(w) = After(session[w])
<1>1. Gone # Nothing
  BY WatchAssumption
<1> QED
  BY <1>1 DEF Current, After

\* What a ref is served with is the content of the row that carries it.
LEMMA ServedContent == ASSUME NEW r PROVE Served(r) = Content(row, r)
BY DEF Served, Content

\* What the declarations alone decide.
LEMMA DeclaredOnce ==
  ASSUME specs' = specs
  PROVE  Heard' = Heard /\ Handlers' = Handlers /\ Snapshots' = Snapshots /\ Watched' = Watched /\ Mismatched' = Mismatched
<1>1. Handlers' = Handlers /\ Snapshots' = Snapshots
  BY DEF Handlers, Snapshots, FirstPerKind, Yielded
<1> QED
  BY <1>1 DEF Heard, Watched, LastSnapshot, Mismatched

(* A step of one session that leaves the row alone: what it owed after a   *)
(* commit has to be on its way or known to be lost.                        *)
LEMMA SessionStep ==
  ASSUME WatchInv, NEW w \in Writers, NEW s \in Sessions, session' = [session EXCEPT ![w] = s],
         UNCHANGED <<specs, row, fingerprint>>,
         overtaken' \in {overtaken, overtaken \ {w}}, SessionOK(s, w \in overtaken'),
         s.write = Nothing \/ s.write = session[w].write \/ LockFree(w),
         pending \subseteq pending', pending' \in SUBSET (Kinds \X Refs),
         missed \subseteq missed', missed' \in SUBSET (Kinds \X (Refs \cup {NoRef})),
         session[w].phase = "committed" => session[w].owed \subseteq pending' \cup missed'
  PROVE  WatchInv'
<1>1. Typed /\ OneWrites /\ ChangesAreAnnounced /\ \A v \in Writers : SessionOK(session[v], v \in overtaken)
  BY DEF WatchInv
<1>2. session'[w] = s /\ \A v \in Writers \ {w} : session'[v] = session[v]
  BY <1>1 DEF Typed
<1>3. Heard' = Heard /\ Snapshots' = Snapshots /\ Watched' = Watched /\ Mismatched' = Mismatched
  BY DeclaredOnce
<1>4. \A v \in Writers \ {w} : (v \in overtaken') <=> (v \in overtaken)
  OBVIOUS
<1>5. Typed'
  <2>1. session' \in [Writers -> Sessions]
    BY <1>1 DEF Typed
  <2> QED
    BY <1>1, <2>1 DEF Typed
<1>6. OneWrites'
  BY <1>1, <1>2 DEF OneWrites, LockFree
<1>7. \A t, over : SessionOK(t, over)' <=> SessionOK(t, over)
  BY <1>3 DEF SessionOK, After, Content
<1>8. \A v \in Writers : SessionOK(session[v], v \in overtaken)'
  BY <1>1, <1>2, <1>4, <1>7
<1>9. ChangesAreAnnounced'
  <2> SUFFICES ASSUME NEW k \in Heard, NEW r \in Refs, fingerprint[k][r] # Served(r),
                      <<k, r>> \notin pending' \cup missed'
               PROVE  \E v \in Writers : session'[v].phase = "committed" /\ <<k, r>> \in session'[v].owed
    BY <1>3 DEF ChangesAreAnnounced, Served
  <2>1. PICK v \in Writers : session[v].phase = "committed" /\ <<k, r>> \in session[v].owed
    BY <1>1 DEF ChangesAreAnnounced
  <2>2. v # w
    BY <2>1
  <2> QED
    BY <1>2, <2>1, <2>2
<1> QED
  BY <1>5, <1>6, <1>8, <1>9 DEF WatchInv

-----------------------------------------------------------------------------
(* The writers' steps                                                      *)

\* Before anything is connected, or saved, the invariant holds.
LEMMA WatchInit == Init => WatchInv
<1> SUFFICES ASSUME Init PROVE WatchInv
  OBVIOUS
<1>1. \A w \in Writers : session[w] = Idle
  BY DEF Init
<1>2. Idle \in Sessions
  BY DEF Idle, Sessions, Taken
<1>3. Typed
  BY <1>1, <1>2, WatchAssumption DEF Init, Typed
<1>4. \A over : SessionOK(Idle, over)
  BY DEF SessionOK, Idle, After
<1>5. OneWrites
  BY <1>1 DEF OneWrites, Idle
<1>6. ChangesAreAnnounced
  <2> SUFFICES ASSUME NEW k \in Heard, NEW r \in Refs PROVE fingerprint[k][r] = Served(r)
    BY DEF ChangesAreAnnounced
  <2>1. k \in Kinds
    BY <1>3, Declared DEF Heard, Typed
  <2> QED
    BY <2>1 DEF Init, Served
<1> QED
  BY <1>1, <1>3, <1>4, <1>5, <1>6 DEF WatchInv

\* Loading an instance writes nothing.
LEMMA LoadKeeps == ASSUME WatchInv, NEW w \in Writers, Load(w) PROVE WatchInv'
<1>1. PICK v \in RowValues : session' = [session EXCEPT ![w] = [Idle EXCEPT !.phase = "held", !.instance = v]]
  BY DEF Load, Update, WatchInv, Typed
<1> DEFINE s == [Idle EXCEPT !.phase = "held", !.instance = v]
<1>2. Idle \in Sessions /\ Idle.before = Nothing /\ Idle.write = Nothing /\ Idle.raised = FALSE
  BY DEF Idle, Sessions, Taken
<1>3. s \in Sessions
  BY <1>2 DEF Sessions
<1>4. s.phase = "held" /\ s.instance = v /\ s.before = Nothing /\ s.write = Nothing /\ s.raised = FALSE
  BY <1>2 DEF Sessions
<1>5. \A over : SessionOK(s, over)
  <2> HIDE DEF s
  <2> QED
    BY <1>4 DEF SessionOK, After
<1>6. /\ UNCHANGED <<specs, row, overtaken, fingerprint, pending, missed>> /\ session[w].phase = "idle"
      /\ pending \in SUBSET (Kinds \X Refs) /\ missed \in SUBSET (Kinds \X (Refs \cup {NoRef}))
  BY DEF Load, WatchInv, Typed
<1> HIDE DEF s
<1>7. session' = [session EXCEPT ![w] = s]
  BY <1>1 DEF s
<1> QED
  BY <1>3, <1>4, <1>5, <1>6, <1>7, SessionStep

\* A rollback takes the session's write with it, and a death after the commit puts what it owed into `missed`.
LEMMA LeaveKeeps == ASSUME WatchInv, NEW w \in Writers, Leave(w) PROVE WatchInv'
<1>1. Idle \in Sessions /\ Idle.write = Nothing
  BY DEF Idle, Sessions, Taken
<1>2. \A over : SessionOK(Idle, over)
  BY DEF SessionOK, Idle, After
<1>3. /\ session' = [session EXCEPT ![w] = Idle] /\ UNCHANGED <<specs, row, overtaken, fingerprint, pending>>
      /\ pending \in SUBSET (Kinds \X Refs)
  BY DEF Leave, Update, WatchInv, Typed
<1>4. /\ missed \subseteq missed' /\ missed' \in SUBSET (Kinds \X (Refs \cup {NoRef}))
      /\ session[w].phase = "committed" => session[w].owed \subseteq pending' \cup missed'
  <2>1. session[w] \in Sessions /\ missed \in SUBSET (Kinds \X (Refs \cup {NoRef}))
    BY DEF WatchInv, Typed
  <2>2. session[w].owed \in SUBSET (Kinds \X (Refs \cup {NoRef}))
    BY <2>1 DEF Sessions
  <2> QED
    BY <2>1, <2>2 DEF Leave
<1> QED
  BY <1>1, <1>2, <1>3, <1>4, SessionStep

\* The callbacks turn what a committed session owes into pending refreshes.
LEMMA AnnounceKeeps == ASSUME WatchInv, NEW w \in Writers, Announce(w) PROVE WatchInv'
<1> DEFINE a == session[w]  s == [a EXCEPT !.phase = "held", !.owed = {}]
<1>1. a \in Sessions /\ a.phase = "committed" /\ SessionOK(a, w \in overtaken)
  BY DEF Announce, WatchInv, Typed
<1>2. s \in Sessions
  BY <1>1 DEF Sessions
<1>3. a.write = Nothing
  BY <1>1 DEF SessionOK
<1>4. s.write = Nothing /\ s.phase = "held" /\ s.instance = a.instance /\ s.before = a.before /\ s.raised = a.raised
  BY <1>1, <1>3 DEF Sessions
<1>5. /\ UNCHANGED <<specs, row, overtaken, fingerprint, missed>> /\ session' = [session EXCEPT ![w] = s]
      /\ pending' = pending \cup a.owed
      /\ pending \in SUBSET (Kinds \X Refs) /\ missed \in SUBSET (Kinds \X (Refs \cup {NoRef}))
  BY DEF Announce, Update, WatchInv, Typed
<1>6. a.owed \in SUBSET (Kinds \X Refs)
  BY <1>1 DEF Sessions
<1> HIDE DEF s
<1>7. SessionOK(s, w \in overtaken')
  BY <1>1, <1>4 DEF SessionOK, After
<1> QED
  BY <1>1, <1>2, <1>4, <1>5, <1>6, <1>7, SessionStep

\* A snapshot taken of what the session sees.
LEMMA SnapshotTaken ==
  ASSUME specs \in Seq(Specs), NEW value \in RowValues \cup {Nothing}, Snapshots # {}
  PROVE  /\ SnapshotOf(value) \in Taken
         /\ SnapshotOf(value) # Nothing =>
               /\ value # Nothing /\ DOMAIN SnapshotOf(value) = Watched
               /\ \A c \in Watched : SnapshotOf(value)[c] = value[c]
<1>1. LastSnapshot \in Snapshots
  BY LastIsConnected
<1>2. specs[LastSnapshot].watch \in Seq(Columns)
  BY <1>1, Declared
<1>3. Watched \in SUBSET Columns
  BY <1>2 DEF Watched, ToSet
<1>4. SnapshotOf(value) = IF value = Nothing THEN Nothing ELSE [c \in Watched |-> value[c]]
  BY DEF SnapshotOf, Watched, LastSnapshot
<1> QED
  BY <1>3, <1>4 DEF Taken

\* The snapshot holds the columns of the last spec connected, as the session sees the row.
LEMMA PreSaveKeeps == ASSUME WatchInv, NEW w \in Writers, PreSave(w) PROVE WatchInv'
<1> DEFINE a == session[w]
           b == IF Snapshots = {} THEN a.before ELSE SnapshotOf(Current(w))
<1>1. PICK v \in RowValues :
         session' = [session EXCEPT ![w] = [a EXCEPT !.phase = "sent", !.instance = v, !.raised = FALSE, !.before = b]]
  BY DEF PreSave, Update
<1> DEFINE s == [a EXCEPT !.phase = "sent", !.instance = v, !.raised = FALSE, !.before = b]
<1>2. a \in Sessions /\ a.phase \in {"held", "stored"} /\ SessionOK(a, w \in overtaken) /\ specs \in Seq(Specs)
  BY DEF PreSave, Writable, WatchInv, Typed
<1>3. Current(w) = After(a) /\ After(a) \in RowValues \cup {Nothing}
  BY <1>2, CurrentIsAfter DEF After, WatchInv, Typed, Sessions
<1> HIDE DEF b
<1>4. /\ b \in Taken
      /\ b # Nothing => /\ Snapshots # {} /\ DOMAIN b = Watched
                        /\ After(a) # Nothing /\ \A c \in DOMAIN b : b[c] = After(a)[c]
  <2>1. CASE Snapshots = {}
    BY <1>2, <2>1 DEF b, SessionOK, Sessions
  <2>2. CASE Snapshots # {}
    BY <1>2, <1>3, <2>2, SnapshotTaken DEF b
  <2> QED
    BY <2>1, <2>2
<1>5. \A x \in Sessions : [x EXCEPT !.phase = "sent", !.instance = v, !.raised = FALSE, !.before = b] \in Sessions
  BY <1>4 DEF Sessions
<1>6. s \in Sessions
  BY <1>2, <1>5
<1>7. /\ s.phase = "sent" /\ s.instance = v /\ s.before = b /\ s.write = a.write
      /\ s.owed = a.owed /\ s.unsaid = a.unsaid /\ s.raised = FALSE
  BY <1>2 DEF Sessions
<1>8. session' = [session EXCEPT ![w] = s]
  BY <1>1
<1> HIDE DEF s
<1>9. After(s) = After(a)
  BY <1>7 DEF After
<1>10. SessionOK(s, w \in overtaken')
  BY <1>2, <1>4, <1>7, <1>9 DEF SessionOK
<1>11. /\ UNCHANGED <<specs, row, fingerprint, pending, missed>> /\ overtaken' = overtaken \ {w}
       /\ pending \in SUBSET (Kinds \X Refs) /\ missed \in SUBSET (Kinds \X (Refs \cup {NoRef}))
  BY DEF PreSave, WatchInv, Typed
<1> QED
  BY <1>2, <1>6, <1>7, <1>8, <1>10, <1>11, SessionStep

\* Refs a save of `now` over `old` leaves out, by what the row was and what the handlers saw.
LeftOut(w, old, now, before) ==
    IF old = Nothing THEN {}
    ELSE Heard \X ({old.ref} \ {now.ref}) \cup Untold(w, old, now, before) \X {now.ref}

(* A save that changes what a ref is served with announces that ref to     *)
(* every kind, or the ref is one it is known to leave out: a handler that  *)
(* found no change compared all it watches with the row as it was, so the  *)
(* change is in another column, or the row had been overtaken.             *)
LEMMA SaveIsTold ==
  ASSUME specs \in Seq(Specs), NEW w, NEW old \in RowValues \cup {Nothing}, NEW now \in RowValues, NEW before,
         w \notin overtaken /\ before # Nothing => \A c \in DOMAIN before : before[c] = old[c],
         NEW k \in Heard, NEW r \in Refs, Content(now, r) # Content(old, r)
  PROVE  <<k, r>> \in Announced(now, before, old = Nothing) \cup LeftOut(w, old, now, before)
<1>1. r # NoRef /\ now # Nothing
  BY WatchAssumption
<1>2. PICK h \in Handlers : specs[h].kind = k
  BY DEF Heard
<1>3. specs[h].watch \in Seq(Columns)
  BY Declared
<1>4. CASE old # Nothing /\ now.ref # r
  <2>1. old.ref = r
    BY <1>4 DEF Content
  <2> QED
    BY <1>4, <2>1 DEF LeftOut
<1>5. CASE now.ref = r
  <2>1. r \in Resolved(now)
    BY <1>1, <1>5 DEF Resolved
  <2>2. CASE h \notin Raised(now, before, old = Nothing) /\ Changed(specs[h].watch, now, before, old = Nothing)
    BY <1>2, <2>1, <2>2 DEF Announced
  <2>3. CASE h \in Raised(now, before, old = Nothing)
    <3>1. old # Nothing
      BY <2>3 DEF Raised, Raises
    <3>2. Raised(now, before, old = Nothing) = Raised(now, before, FALSE)
      BY <3>1
    <3>3. k \in Untold(w, old, now, before)
      BY <1>2, <2>3, <3>2 DEF Untold
    <3> QED
      BY <1>5, <3>1, <3>3 DEF LeftOut
  <2>4. CASE h \notin Raised(now, before, old = Nothing) /\ ~Changed(specs[h].watch, now, before, old = Nothing)
    <3>1. ~Raises(specs[h].watch, now, before, old = Nothing)
      BY <2>4 DEF Raised, Handlers, FirstPerKind
    <3>2. /\ specs[h].watch # <<>> /\ old # Nothing /\ before # Nothing
          /\ \A c \in ToSet(specs[h].watch) : c \in DOMAIN before /\ before[c] = now[c]
      <4> DEFINE created == (old = Nothing)
      <4>1. ~Changed(specs[h].watch, now, before, created) /\ ~Raises(specs[h].watch, now, before, created)
        BY <2>4, <3>1
      <4> HIDE DEF created
      <4>2. /\ specs[h].watch # <<>> /\ ~created /\ before # Nothing
            /\ \A c \in ToSet(specs[h].watch) : c \in DOMAIN before /\ before[c] = now[c]
        BY <1>3, <4>1, NoChangeSeen
      <4> QED
        BY <4>2 DEF created
    <3>3. now # old
      OBVIOUS
    <3>4. CASE w \in overtaken
      <4>1. k \in Untold(w, old, now, before)
        BY <1>2, <3>3, <3>4 DEF Untold
      <4> QED
        BY <1>5, <3>2, <4>1 DEF LeftOut
    <3>5. CASE w \notin overtaken
      <4>1. old \in RowValues
        BY <3>2
      <4>2. now["ref"] # old["ref"] \/ now["content"] # old["content"]
        BY <3>3, <4>1 DEF RowValues
      <4>3. PICK column \in Columns : now[column] # old[column]
        BY <4>2 DEF Columns
      <4>4. column \notin ToSet(specs[h].watch)
        BY <3>2, <3>5, <4>3
      <4>5. k \in Untold(w, old, now, before)
        BY <1>2, <3>2, <4>3, <4>4 DEF Untold
      <4> QED
        BY <1>5, <3>2, <4>5 DEF LeftOut
    <3> QED
      BY <3>4, <3>5
  <2> QED
    BY <2>2, <2>3, <2>4
<1>6. now.ref = r \/ old # Nothing
  BY DEF Content
<1> QED
  BY <1>4, <1>5, <1>6

(* Whatever a session's write changes for a ref since its last step, on    *)
(* top of what it changed before.                                          *)
LEMMA ChangesAddUp ==
  ASSUME NEW a, NEW s, NEW over, SessionOK(a, over), a.owed \subseteq s.owed, a.unsaid \subseteq s.unsaid,
         \A k \in Heard, r \in Refs :
            Content(After(s), r) # Content(After(a), r) => <<k, r>> \in s.owed \cup s.unsaid
  PROVE  \A k \in Heard, r \in Refs :
            Content(After(s), r) # Content(row, r) => <<k, r>> \in s.owed \cup s.unsaid
<1> SUFFICES ASSUME NEW k \in Heard, NEW r \in Refs, Content(After(s), r) # Content(row, r)
             PROVE  <<k, r>> \in s.owed \cup s.unsaid
  OBVIOUS
<1>1. CASE Content(After(s), r) # Content(After(a), r)
  BY <1>1
<1>2. CASE Content(After(a), r) # Content(row, r)
  BY <1>2 DEF SessionOK
<1> QED
  BY <1>1, <1>2

\* What handlers announce are kinds and refs.
LEMMA AnnouncedTyped ==
  ASSUME specs \in Seq(Specs), NEW now \in RowValues, NEW before, NEW created
  PROVE  /\ Announced(now, before, created) \in SUBSET (Kinds \X Refs)
         /\ \A R \in SUBSET (Refs \cup {NoRef}) : Heard \X R \in SUBSET (Kinds \X (Refs \cup {NoRef}))
         /\ Heard \X Resolved(now) \in SUBSET (Kinds \X Refs)
<1>1. \A h \in Handlers : specs[h].kind \in Kinds
  BY Declared
<1>2. Resolved(now) \in SUBSET Refs
  BY DEF Resolved, RowValues
<1>3. Heard \in SUBSET Kinds
  BY <1>1 DEF Heard
<1> QED
  BY <1>1, <1>2, <1>3 DEF Announced

\* A save announces what it changes, or leaves it out for a reason `missed` names.
LEMMA StoreKeeps == ASSUME WatchInv, NEW w \in Writers, Store(w) PROVE WatchInv'
<1> DEFINE a == session[w]
           old == Current(w)
           owed == Announced(a.instance, a.before, old = Nothing)
           left == IF old = Nothing THEN {} ELSE Heard \X ({old.ref} \ {a.instance.ref})
           untold == IF old = Nothing THEN {} ELSE Untold(w, old, a.instance, a.before) \X {a.instance.ref}
           unsaid == a.unsaid \cup left \cup (untold \ owed)
           raised == Raised(a.instance, a.before, old = Nothing) # {}
           s == [a EXCEPT !.phase = "stored", !.write = a.instance, !.owed = a.owed \cup owed,
                          !.unsaid = unsaid, !.raised = raised]
<1>1. session' = [session EXCEPT ![w] = s]
  BY DEF Store, Update
<1>2. a \in Sessions /\ a.phase = "sent" /\ SessionOK(a, w \in overtaken) /\ specs \in Seq(Specs) /\ LockFree(w)
  BY DEF Store, WatchInv, Typed
<1>3. a.instance \in RowValues
  BY <1>2 DEF SessionOK
<1>4. old = After(a) /\ After(a) \in RowValues \cup {Nothing}
  BY <1>2, CurrentIsAfter DEF After, WatchInv, Typed, Sessions
<1>5. owed \in SUBSET (Kinds \X Refs)
  BY <1>2, <1>3, AnnouncedTyped
<1>6. unsaid \in SUBSET (Kinds \X (Refs \cup {NoRef}))
  <2>1. a.instance.ref \in Refs \cup {NoRef} /\ a.unsaid \in SUBSET (Kinds \X (Refs \cup {NoRef}))
    BY <1>2, <1>3 DEF RowValues, Sessions
  <2>2. old # Nothing => old.ref \in Refs \cup {NoRef}
    BY <1>4 DEF RowValues
  <2>3. left \in SUBSET (Kinds \X (Refs \cup {NoRef}))
    <3>1. CASE old # Nothing
      <4>1. {old.ref} \ {a.instance.ref} \in SUBSET (Refs \cup {NoRef})
        BY <2>2, <3>1
      <4> QED
        BY <1>2, <1>3, <3>1, <4>1, AnnouncedTyped
    <3> QED
      BY <3>1
  <2>4. untold \in SUBSET (Kinds \X (Refs \cup {NoRef}))
    <3>1. \A h \in Handlers : specs[h].kind \in Kinds
      BY <1>2, Declared
    <3>2. Untold(w, old, a.instance, a.before) \in SUBSET Kinds
      BY <3>1 DEF Untold
    <3> QED
      BY <2>1, <3>2
  <2> QED
    BY <2>1, <2>3, <2>4
<1>7. raised => Mismatched
  <2> DEFINE created == (old = Nothing)
  <2>1. a.before # Nothing => Snapshots # {} /\ DOMAIN a.before = Watched
    BY <1>2 DEF SessionOK
  <2> SUFFICES ASSUME Raised(a.instance, a.before, created) # {} PROVE Mismatched
    OBVIOUS
  <2> HIDE DEF created
  <2> QED
    BY <1>2, <2>1, RaisedByAnother
<1>8. raised \in BOOLEAN
  OBVIOUS
<1>9. ASSUME NEW k \in Heard, NEW r \in Refs, Content(a.instance, r) # Content(After(a), r)
      PROVE  <<k, r>> \in a.owed \cup owed \cup unsaid
  <2>1. w \notin overtaken /\ a.before # Nothing => \A c \in DOMAIN a.before : a.before[c] = old[c]
    BY <1>2, <1>4 DEF SessionOK
  <2>2. <<k, r>> \in Announced(a.instance, a.before, old = Nothing) \cup LeftOut(w, old, a.instance, a.before)
    <3> HIDE DEF old
    <3> QED
      BY <1>2, <1>3, <1>4, <1>9, <2>1, SaveIsTold, ZenonT(60)
  <2> QED
    BY <2>2 DEF LeftOut
<1> HIDE DEF owed, unsaid, raised
<1>10. s \in Sessions
  BY <1>2, <1>3, <1>5, <1>6, <1>8 DEF Sessions
<1>11. /\ s.phase = "stored" /\ s.instance = a.instance /\ s.before = a.before /\ s.write = a.instance
       /\ s.owed = a.owed \cup owed /\ s.unsaid = unsaid /\ s.raised = raised
  BY <1>2 DEF Sessions
<1> HIDE DEF s
<1>12. After(s) = a.instance
  BY <1>3, <1>11, WatchAssumption DEF After
<1>13. a.unsaid \subseteq unsaid
  BY DEF unsaid
<1>14. \A k \in Heard, r \in Refs : Content(After(s), r) # Content(row, r) => <<k, r>> \in s.owed \cup s.unsaid
  <2>1. \A k \in Heard, r \in Refs : Content(After(s), r) # Content(After(a), r) => <<k, r>> \in s.owed \cup s.unsaid
    BY <1>9, <1>11, <1>12
  <2>2. a.owed \subseteq s.owed /\ a.unsaid \subseteq s.unsaid
    BY <1>11, <1>13
  <2> QED
    BY <1>2, <2>1, <2>2, ChangesAddUp
<1>15. SessionOK(s, w \in overtaken')
  BY <1>2, <1>3, <1>7, <1>11, <1>14 DEF SessionOK
<1>16. /\ UNCHANGED <<specs, row, overtaken, fingerprint, pending, missed>>
       /\ pending \in SUBSET (Kinds \X Refs) /\ missed \in SUBSET (Kinds \X (Refs \cup {NoRef}))
  BY DEF Store, WatchInv, Typed
<1> QED
  BY <1>1, <1>2, <1>10, <1>15, <1>16, SessionStep

\* A deletion is announced to every kind that hears of the ref the instance carries.
LEMMA DeleteKeeps == ASSUME WatchInv, NEW w \in Writers, Delete(w) PROVE WatchInv'
<1> DEFINE a == session[w]
           old == Current(w)
           owed == Heard \X Resolved(a.instance)
           left == Heard \X ({old.ref} \ {a.instance.ref})
           s == [a EXCEPT !.phase = "stored", !.write = Gone, !.owed = a.owed \cup owed, !.unsaid = a.unsaid \cup left]
<1>1. session' = [session EXCEPT ![w] = s]
  BY DEF Delete, Update
<1>2. /\ a \in Sessions /\ a.phase \in {"held", "stored"} /\ SessionOK(a, w \in overtaken)
      /\ specs \in Seq(Specs) /\ LockFree(w) /\ old # Nothing
  BY DEF Delete, Writable, WatchInv, Typed
<1>3. a.instance \in RowValues
  BY <1>2 DEF SessionOK
<1>4. old = After(a) /\ After(a) \in RowValues
  BY <1>2, CurrentIsAfter DEF After, WatchInv, Typed, Sessions
<1>5. owed \in SUBSET (Kinds \X Refs)
  BY <1>2, <1>3, AnnouncedTyped
<1>6. left \in SUBSET (Kinds \X (Refs \cup {NoRef}))
  <2>1. {old.ref} \ {a.instance.ref} \in SUBSET (Refs \cup {NoRef})
    BY <1>4 DEF RowValues
  <2> QED
    BY <1>2, <1>3, <2>1, AnnouncedTyped
<1>7. ASSUME NEW k \in Heard, NEW r \in Refs, Content(After(a), r) # Nothing
      PROVE  <<k, r>> \in owed \cup left
  <2>1. old.ref = r /\ r # NoRef
    BY <1>4, <1>7, WatchAssumption DEF Content
  <2> QED
    BY <2>1 DEF Resolved
<1> HIDE DEF owed, left
<1>9. a.owed \cup owed \in SUBSET (Kinds \X Refs) /\ a.unsaid \cup left \in SUBSET (Kinds \X (Refs \cup {NoRef}))
  BY <1>2, <1>5, <1>6 DEF Sessions
<1>10. s \in Sessions
  BY <1>2, <1>5, <1>9 DEF Sessions
<1>11. /\ s.phase = "stored" /\ s.instance = a.instance /\ s.before = a.before /\ s.write = Gone
       /\ s.owed = a.owed \cup owed /\ s.unsaid = a.unsaid \cup left /\ s.raised = a.raised
  BY <1>2 DEF Sessions
<1> HIDE DEF s
<1>12. After(s) = Nothing
  BY <1>11, WatchAssumption DEF After
<1>13. \A k \in Heard, r \in Refs : Content(After(s), r) # Content(row, r) => <<k, r>> \in s.owed \cup s.unsaid
  <2>1. \A r \in Refs : Content(After(s), r) = Nothing
    BY <1>12 DEF Content
  <2>2. \A k \in Heard, r \in Refs : Content(After(s), r) # Content(After(a), r) => <<k, r>> \in s.owed \cup s.unsaid
    BY <1>7, <1>11, <2>1
  <2>3. a.owed \subseteq s.owed /\ a.unsaid \subseteq s.unsaid
    BY <1>11
  <2> QED
    BY <1>2, <2>2, <2>3, ChangesAddUp
<1>14. SessionOK(s, w \in overtaken')
  BY <1>2, <1>3, <1>11, <1>13 DEF SessionOK
<1>15. /\ UNCHANGED <<specs, row, overtaken, fingerprint, pending, missed>>
       /\ pending \in SUBSET (Kinds \X Refs) /\ missed \in SUBSET (Kinds \X (Refs \cup {NoRef}))
  BY DEF Delete, WatchInv, Typed
<1> QED
  BY <1>1, <1>2, <1>10, <1>14, <1>15, SessionStep

\* A hand-sent post_save announces a bulk write, or finds the old snapshot in its way.
LEMMA CompensateKeeps == ASSUME WatchInv, NEW w \in Writers, Compensate(w) PROVE WatchInv'
<1> DEFINE a == session[w]
           old == Current(w)
<1>1. PICK content \in Contents, fetched \in BOOLEAN :
         LET written == [old EXCEPT !.content = content]
             instance == IF fetched THEN written ELSE a.instance
             before == IF fetched THEN Nothing ELSE a.before
             owed == Announced(instance, before, FALSE)
             swallowed == ~fetched /\ (a.before # Nothing \/ a.instance.ref # written.ref)
         IN Update(w, [a EXCEPT !.phase = "stored", !.instance = instance, !.before = before,
                                !.write = written, !.owed = a.owed \cup owed,
                                !.raised = Raised(instance, before, FALSE) # {},
                                !.unsaid = a.unsaid \cup (IF swallowed THEN (Heard \X {written.ref}) \ owed ELSE {})])
  BY DEF Compensate
<1> DEFINE written == [old EXCEPT !.content = content]
           instance == IF fetched THEN written ELSE a.instance
           before == IF fetched THEN Nothing ELSE a.before
           owed == Announced(instance, before, FALSE)
           left == IF ~fetched /\ (a.before # Nothing \/ a.instance.ref # written.ref)
                   THEN (Heard \X {written.ref}) \ owed ELSE {}
           raised == Raised(instance, before, FALSE) # {}
           s == [a EXCEPT !.phase = "stored", !.instance = instance, !.before = before, !.write = written,
                          !.owed = a.owed \cup owed, !.raised = raised, !.unsaid = a.unsaid \cup left]
<1>2. session' = [session EXCEPT ![w] = s]
  BY <1>1 DEF Update
<1>3. /\ a \in Sessions /\ a.phase \in {"held", "stored"} /\ SessionOK(a, w \in overtaken)
      /\ specs \in Seq(Specs) /\ LockFree(w) /\ old # Nothing
  BY DEF Compensate, Writable, WatchInv, Typed
<1>4. old = After(a) /\ After(a) \in RowValues
  BY <1>3, CurrentIsAfter DEF After, WatchInv, Typed, Sessions
<1>5. written \in RowValues /\ written.ref = old.ref
  BY <1>4 DEF RowValues
<1> HIDE DEF written
<1>6. instance \in RowValues /\ before \in Taken /\ (before # Nothing => Snapshots # {} /\ DOMAIN before = Watched)
  BY <1>3, <1>5 DEF SessionOK, Sessions, Taken
<1>7. raised => Mismatched
  <2> DEFINE created == FALSE
  <2> SUFFICES ASSUME Raised(instance, before, created) # {} PROVE Mismatched
    OBVIOUS
  <2> HIDE DEF created, instance, before
  <2> QED
    BY <1>3, <1>6, RaisedByAnother
<1>8. ASSUME NEW k \in Heard, NEW r \in Refs, Content(written, r) # Content(After(a), r)
      PROVE  <<k, r>> \in owed \cup left
  <2>1. written.ref = r /\ r # NoRef
    BY <1>4, <1>5, <1>8, WatchAssumption DEF Content
  <2>2. CASE ~fetched /\ (a.before # Nothing \/ a.instance.ref # written.ref)
    BY <2>1, <2>2
  <2>3. CASE fetched \/ (a.before = Nothing /\ a.instance.ref = written.ref)
    <3>1. before = Nothing /\ r \in Resolved(instance)
      BY <2>1, <2>3 DEF Resolved
    <3>2. PICK h \in Handlers : specs[h].kind = k
      BY DEF Heard
    <3>3. h \notin Raised(instance, before, FALSE) /\ Changed(specs[h].watch, instance, before, FALSE)
      BY <3>1 DEF Raised, Raises, Changed
    <3> HIDE DEF instance, before
    <3> QED
      BY <3>1, <3>2, <3>3 DEF Announced
  <2> QED
    BY <2>2, <2>3
<1> HIDE DEF instance, before
<1>9. owed \in SUBSET (Kinds \X Refs)
  BY <1>3, <1>6, AnnouncedTyped
<1>10. left \in SUBSET (Kinds \X (Refs \cup {NoRef}))
  <2>1. {written.ref} \in SUBSET (Refs \cup {NoRef})
    BY <1>5 DEF RowValues
  <2>2. Heard \X {written.ref} \in SUBSET (Kinds \X (Refs \cup {NoRef}))
    BY <1>3, <1>6, <2>1, AnnouncedTyped
  <2> QED
    BY <2>2
<1>11. raised \in BOOLEAN
  OBVIOUS
<1> HIDE DEF owed, left, raised
<1>12. a.owed \cup owed \in SUBSET (Kinds \X Refs) /\ a.unsaid \cup left \in SUBSET (Kinds \X (Refs \cup {NoRef}))
  BY <1>3, <1>9, <1>10 DEF Sessions
<1>14. s \in Sessions
  BY <1>3, <1>5, <1>6, <1>11, <1>12 DEF Sessions
<1>15. /\ s.phase = "stored" /\ s.instance = instance /\ s.before = before /\ s.write = written
       /\ s.owed = a.owed \cup owed /\ s.unsaid = a.unsaid \cup left /\ s.raised = raised
  BY <1>3 DEF Sessions
<1> HIDE DEF s
<1>16. After(s) = written
  BY <1>5, <1>15, WatchAssumption DEF After
<1>17. \A k \in Heard, r \in Refs : Content(After(s), r) # Content(row, r) => <<k, r>> \in s.owed \cup s.unsaid
  <2>1. \A k \in Heard, r \in Refs : Content(After(s), r) # Content(After(a), r) => <<k, r>> \in s.owed \cup s.unsaid
    BY <1>8, <1>15, <1>16
  <2>2. a.owed \subseteq s.owed /\ a.unsaid \subseteq s.unsaid
    BY <1>15
  <2> QED
    BY <1>3, <2>1, <2>2, ChangesAddUp
<1>18. SessionOK(s, w \in overtaken')
  BY <1>6, <1>7, <1>15, <1>17 DEF SessionOK
<1>19. /\ UNCHANGED <<specs, row, overtaken, fingerprint, pending, missed>>
       /\ pending \in SUBSET (Kinds \X Refs) /\ missed \in SUBSET (Kinds \X (Refs \cup {NoRef}))
  BY DEF Compensate, WatchInv, Typed
<1> QED
  BY <1>2, <1>3, <1>14, <1>18, <1>19, SessionStep

(* A commit: the others see the new row, as none of them has a write, and  *)
(* the snapshots they took are overtaken.                                  *)
LEMMA CommitKeeps == ASSUME WatchInv, NEW w \in Writers, Commit(w) PROVE WatchInv'
<1> DEFINE a == session[w]
           s == [a EXCEPT !.phase = "committed", !.write = Nothing, !.unsaid = {}]
<1>1. /\ a.phase = "stored" /\ row' = Current(w) /\ session' = [session EXCEPT ![w] = s]
      /\ missed' = missed \cup a.unsaid
      /\ overtaken' = overtaken \cup {v \in Writers \ {w} : session[v].phase = "sent"}
      /\ UNCHANGED <<specs, fingerprint, pending, writes>>
  BY DEF Commit, Update
<1>2. Typed /\ OneWrites /\ ChangesAreAnnounced /\ a \in Sessions /\ \A v \in Writers : SessionOK(session[v], v \in overtaken)
  BY DEF WatchInv, Typed
<1>3. row' = After(a) /\ After(a) \in RowValues \cup {Nothing}
  BY <1>1, <1>2, CurrentIsAfter DEF After, Typed, Sessions
<1>4. s \in Sessions
  BY <1>2 DEF Sessions
<1>5. /\ s.phase = "committed" /\ s.instance = a.instance /\ s.before = a.before /\ s.write = Nothing
      /\ s.owed = a.owed /\ s.raised = a.raised
  BY <1>2 DEF Sessions
<1> HIDE DEF s
<1>6. session'[w] = s /\ \A v \in Writers \ {w} : session'[v] = session[v]
  BY <1>1, <1>2 DEF Typed
<1>7. Heard' = Heard /\ Snapshots' = Snapshots /\ Watched' = Watched /\ Mismatched' = Mismatched
  BY <1>1, DeclaredOnce
<1>8. Typed'
  <2>1. a.unsaid \in SUBSET (Kinds \X (Refs \cup {NoRef}))
    BY <1>2 DEF Sessions
  <2>2. session' \in [Writers -> Sessions] /\ missed' \in SUBSET (Kinds \X (Refs \cup {NoRef}))
    BY <1>1, <1>2, <1>4, <2>1 DEF Typed
  <2> QED
    BY <1>1, <1>2, <1>3, <2>2 DEF Typed
<1>9. OneWrites'
  BY <1>2, <1>5, <1>6 DEF OneWrites
<1>10. SessionOK(session[w], w \in overtaken)'
  <2>1. /\ session'[w].phase = "committed" /\ session'[w].instance = a.instance /\ session'[w].before = a.before
        /\ session'[w].write = Nothing /\ session'[w].raised = a.raised
    BY <1>5, <1>6
  <2>2. After(session[w])' = row'
    BY <2>1 DEF After
  <2>3. \A r : Content(After(session[w]), r)' = Content(row, r)'
    BY <2>2 DEF Content
  <2>4. a.instance \in RowValues /\ (a.before # Nothing => Snapshots # {} /\ DOMAIN a.before = Watched) /\ (a.raised => Mismatched)
    BY <1>1, <1>2 DEF SessionOK
  <2> HIDE DEF a
  <2> QED
    BY <1>7, <2>1, <2>3, <2>4 DEF SessionOK
<1>11. ASSUME NEW v \in Writers \ {w} PROVE SessionOK(session[v], v \in overtaken)'
  <2>1. SessionOK(session[v], v \in overtaken) /\ session'[v] = session[v]
    BY <1>2, <1>6
  <2>2. CASE session[v].write = Nothing
    <3>1. After(session[v])' = row'
      BY <2>1, <2>2 DEF After
    <3>2. session[v].phase = "sent" => v \in overtaken'
      BY <1>1
    <3> QED
      BY <1>7, <2>1, <2>2, <3>1, <3>2 DEF SessionOK
  <2>3. CASE session[v].write # Nothing
    <3>1. a.write = Nothing
      BY <1>2, <2>3 DEF OneWrites
    <3>2. row' = row
      BY <1>3, <3>1 DEF After
    <3>3. After(session[v])' = After(session[v])
      BY <2>1, <3>2 DEF After
    <3>4. \A r : Content(row, r)' = Content(row, r) /\ Content(After(session[v]), r)' = Content(After(session[v]), r)
      BY <3>2, <3>3 DEF Content
    <3>5. v \in overtaken => v \in overtaken'
      BY <1>1
    <3> QED
      BY <1>7, <2>1, <3>3, <3>4, <3>5 DEF SessionOK
  <2> QED
    BY <2>2, <2>3
<1>12. ChangesAreAnnounced'
  <2> SUFFICES ASSUME NEW k \in Heard, NEW r \in Refs, fingerprint[k][r] # Served(r)',
                      <<k, r>> \notin pending \cup missed'
               PROVE  \E v \in Writers : session'[v].phase = "committed" /\ <<k, r>> \in session'[v].owed
    BY <1>1, <1>7 DEF ChangesAreAnnounced
  <2>1. CASE fingerprint[k][r] # Served(r)
    <3>1. PICK v \in Writers : session[v].phase = "committed" /\ <<k, r>> \in session[v].owed
      BY <1>1, <1>2, <2>1 DEF ChangesAreAnnounced
    <3>2. v # w
      BY <1>1, <3>1
    <3> QED
      BY <1>6, <3>1, <3>2
  <2>2. CASE Served(r)' # Served(r)
    <3>1. Content(After(a), r) # Content(row, r)
      BY <1>3, <2>2 DEF Served, Content
    <3>2. <<k, r>> \in a.owed \cup a.unsaid
      BY <1>2, <3>1 DEF SessionOK
    <3>3. <<k, r>> \in s.owed
      BY <1>1, <1>5, <3>2
    <3> QED
      BY <1>5, <1>6, <3>3
  <2> QED
    BY <2>1, <2>2
<1> QED
  BY <1>8, <1>9, <1>10, <1>11, <1>12 DEF WatchInv

\* A refresh builds the fingerprint from the row of that moment.
LEMMA RefreshKeeps == ASSUME WatchInv, Refresh PROVE WatchInv'
<1>1. PICK p \in pending :
         /\ fingerprint' = [fingerprint EXCEPT ![p[1]] = [fingerprint[p[1]] EXCEPT ![p[2]] = Served(p[2])]]
         /\ pending' = pending \ {p} /\ missed' = missed \ {p}
  BY DEF Refresh
<1>2. UNCHANGED <<specs, row, session, overtaken>>
  BY DEF Refresh
<1>3. Typed /\ OneWrites /\ ChangesAreAnnounced /\ \A v \in Writers : SessionOK(session[v], v \in overtaken)
  BY DEF WatchInv
<1>4. PICK k1 \in Kinds, r1 \in Refs : p = <<k1, r1>>
  BY <1>3 DEF Typed
<1>5. fingerprint' = [fingerprint EXCEPT ![k1] = [fingerprint[k1] EXCEPT ![r1] = Served(r1)]]
  BY <1>1, <1>4
<1>6. \A r : Served(r)' = Served(r)
  BY <1>2 DEF Served
<1>7. Served(r1) \in Contents \cup {Nothing}
  BY <1>3 DEF Served, Typed, RowValues
<1>8. fingerprint \in [Kinds -> [Refs -> Contents \cup {Nothing}]]
  BY <1>3 DEF Typed
<1>9. fingerprint' \in [Kinds -> [Refs -> Contents \cup {Nothing}]]
  BY <1>5, <1>7, <1>8
<1>10. \A k \in Kinds, r \in Refs :
          fingerprint'[k][r] = IF k = k1 /\ r = r1 THEN Served(r1) ELSE fingerprint[k][r]
  BY <1>5, <1>8
<1>11. Heard' = Heard /\ Snapshots' = Snapshots /\ Watched' = Watched /\ Mismatched' = Mismatched
  BY <1>2, DeclaredOnce
<1>12. Typed'
  BY <1>1, <1>2, <1>3, <1>9 DEF Typed
<1>13. OneWrites' /\ \A v \in Writers : SessionOK(session[v], v \in overtaken)'
  BY <1>2, <1>3, <1>11 DEF OneWrites, SessionOK, After, Content
<1>14. ChangesAreAnnounced'
  <2> SUFFICES ASSUME NEW k \in Heard, NEW r \in Refs, fingerprint'[k][r] # Served(r),
                      <<k, r>> \notin pending' \cup missed'
               PROVE  \E v \in Writers : session[v].phase = "committed" /\ <<k, r>> \in session[v].owed
    BY <1>2, <1>6, <1>11 DEF ChangesAreAnnounced
  <2>1. k \in Kinds
    BY <1>3, Declared DEF Heard, Typed
  <2>2. ~(k = k1 /\ r = r1) /\ fingerprint[k][r] # Served(r)
    BY <1>10, <2>1
  <2>3. <<k, r>> \notin pending \cup missed
    BY <1>1, <1>4, <2>2
  <2> QED
    BY <1>3, <2>2, <2>3 DEF ChangesAreAnnounced
<1> QED
  BY <1>12, <1>13, <1>14 DEF WatchInv

\* Every step of every writer, and of the worker, keeps the invariant.
LEMMA WatchNext == WatchInv /\ [Next]_vars => WatchInv'
<1> SUFFICES ASSUME WatchInv, [Next]_vars PROVE WatchInv'
  OBVIOUS
<1>1. ASSUME NEW w \in Writers, Writer(w) PROVE WatchInv'
  BY <1>1, LoadKeeps, PreSaveKeeps, StoreKeeps, DeleteKeeps, CompensateKeeps, CommitKeeps, AnnounceKeeps, LeaveKeeps DEF Writer
<1>2. CASE UNCHANGED vars
  <2>1. UNCHANGED <<specs, row, session, overtaken, fingerprint, pending, missed>>
    BY <1>2 DEF vars
  <2>2. Heard' = Heard /\ Snapshots' = Snapshots /\ Watched' = Watched /\ Mismatched' = Mismatched
    BY <2>1, DeclaredOnce
  <2> QED
    BY <2>1, <2>2 DEF WatchInv, Typed, OneWrites, ChangesAreAnnounced, Served, SessionOK, After, Content
<1> QED
  BY <1>1, <1>2, RefreshKeeps DEF Next

-----------------------------------------------------------------------------
(* The theorems                                                            *)

(* Whatever providers declare, a fingerprint of a wired kind that differs  *)
(* from the catalog is about to be refreshed or was left out in one of the *)
(* ways the module names: there is no other way past the signals.          *)
THEOREM NothingElseIsMissed == Spec => []ChangesAreAnnounced
<1>1. WatchInv => ChangesAreAnnounced
  BY DEF WatchInv
<1> QED
  BY <1>1, WatchInit, WatchNext, PTL DEF Spec

(* The handlers fail a save() only where two kinds watch one model and one *)
(* lacks a column of the other: an installation with a single kind, or one *)
(* whose kinds watch the same columns, cannot be disturbed.                *)
THEOREM SavesGoThrough == Spec => []SavesAreNotDisturbed
<1>1. WatchInv => SavesAreNotDisturbed
  BY DEF WatchInv, SessionOK, SavesAreNotDisturbed, Mismatched
<1> QED
  BY <1>1, WatchInit, WatchNext, PTL DEF Spec

=============================================================================
