------------------------------- MODULE Watch -------------------------------
(***************************************************************************)
(* signals.py: which saves of a catalog row its wired senders announce.    *)
(* connect() wires what the providers declare for the row's model, once at *)
(* boot.  Writers (requests, imports) hold instances of one row, which may *)
(* be behind the database, and save, delete or rewrite it in transactions; *)
(* a `watch` compares the columns pre_save read with those being saved.    *)
(* What becomes of an announcement is the matter of module Freshness: here *)
(* the task reads and writes in one step and no enqueue is lost.           *)
(***************************************************************************)
EXTENDS Naturals, FiniteSets, SequencesExt

CONSTANTS
    Writers,
    Kinds,
    Refs,           \* fingerprint refs the row may resolve to
    NoRef,          \* the row is irrelevant: ref(instance) is None
    Contents,       \* what a fingerprint is built from
    Declarations,   \* what providers may declare for the model's post_save: sequences of Specs
    Nothing,        \* a row, a snapshot, a write or a fingerprint that is not there
    Gone,           \* an uncommitted deletion
    MaxWrites       \* bound: writes

Columns == {"ref", "content"}

(* A spec as _specs comes to it; <<>> is no watch.  One that is not        *)
(* `sound` raises there: its model is absent, or its provider breaks off.  *)
Specs == [kind : Kinds, watch : Seq(Columns), sound : BOOLEAN]

RowValues == [ref : Refs \cup {NoRef}, content : Contents]

ASSUME WatchAssumption ==
    /\ Declarations \subseteq Seq(Specs) /\ NoRef \notin Refs /\ MaxWrites \in Nat
    /\ Nothing \notin RowValues /\ Gone \notin RowValues \cup {Nothing}

VARIABLES
    specs,          \* what is declared
    row,            \* the committed row
    session,        \* what each writer holds
    overtaken,      \* history: writers whose snapshot another commit has outdated
    fingerprint,    \* content by kind and ref
    pending,        \* kinds and refs with a refresh task on its way
    missed,         \* history: kinds and refs whose change no code announces
    writes

vars == <<specs, row, session, overtaken, fingerprint, pending, missed, writes>>

(* A session: the instance in memory, the columns a pre_save last found    *)
(* (`_lookup_watched`), its uncommitted write, the refs its on_commit      *)
(* callbacks will announce, as history the refs they leave out, and        *)
(* whether its last save() raised.                                         *)
Idle ==
    [phase |-> "idle", instance |-> Nothing, before |-> Nothing,
     write |-> Nothing, owed |-> {}, unsaid |-> {}, raised |-> FALSE]

Init ==
    /\ specs \in Declarations /\ row = Nothing
    /\ session = [w \in Writers |-> Idle] /\ overtaken = {}
    /\ fingerprint = [k \in Kinds |-> [r \in Refs |-> Nothing]]
    /\ pending = {} /\ missed = {} /\ writes = 0

Update(w, s) == session' = [session EXCEPT ![w] = s]

\* What a query of w sees: its own write, or the committed row.
Current(w) ==
    CASE session[w].write = Nothing -> row
      [] session[w].write = Gone -> Nothing
      [] OTHER -> session[w].write

\* A writer that changed the row holds its lock until the transaction ends.
LockFree(w) == \A v \in Writers \ {w} : session[v].write = Nothing

\* The content a provider serves under a ref.
Served(r) == IF row # Nothing /\ row.ref = r THEN row.content ELSE Nothing

-----------------------------------------------------------------------------
(* connect()                                                               *)

\* _specs: what is unsound leaves the rest of its kind unwired, and no other.
Yielded(i) == \A j \in 1 .. i : specs[j].kind = specs[i].kind => specs[j].sound

\* dispatch_uid: of the receivers of one kind the first is connected, the others are not.
FirstPerKind(S) == {i \in S : \A j \in S : specs[j].kind = specs[i].kind => i <= j}

\* The specs whose post_save handler is connected, and those whose pre_save snapshot is.
Handlers == FirstPerKind({i \in DOMAIN specs : Yielded(i)})

\* Bug: the pre_save receiver has no dispatch_uid.
SnapshotsOfAll == {i \in DOMAIN specs : Yielded(i) /\ specs[i].watch # <<>>}

Snapshots == FirstPerKind({i \in DOMAIN specs : Yielded(i) /\ specs[i].watch # <<>>})

Heard == {specs[i].kind : i \in Handlers}

-----------------------------------------------------------------------------
(* The handlers                                                            *)

\* _snapshot, the last one connected: all kinds share the attribute.
SnapshotOf(stored) ==
    LET last == CHOOSE i \in Snapshots : \A j \in Snapshots : j <= i
    IN IF stored = Nothing THEN Nothing
       ELSE [column \in ToSet(specs[last].watch) |-> stored[column]]

\* Bug: an instance that never went through pre_save counts as unchanged.
ChangedNeedsSnapshot(watch, instance, before, created) ==
    \/ watch = <<>> \/ created
    \/ before # Nothing /\ \E i \in DOMAIN watch :
           watch[i] \in DOMAIN before /\ before[watch[i]] # instance[watch[i]]

Changed(watch, instance, before, created) ==
    \/ watch = <<>> \/ created
    \/ before = Nothing
    \/ \E i \in DOMAIN watch : watch[i] \in DOMAIN before /\ before[watch[i]] # instance[watch[i]]

\* _changed meets a column the snapshot lacks before one that differs: KeyError.
Raises(watch, instance, before, created) ==
    /\ watch # <<>> /\ ~created /\ before # Nothing
    /\ \E i \in DOMAIN watch :
          /\ watch[i] \notin DOMAIN before
          /\ \A j \in 1 .. i - 1 : watch[j] \in DOMAIN before /\ before[watch[j]] = instance[watch[j]]

\* The first handler that raises ends the signal, and save() with it.
Raised(instance, before, created) ==
    {i \in Handlers : \E j \in Handlers : j <= i /\ Raises(specs[j].watch, instance, before, created)}

Resolved(instance) == {instance.ref} \ {NoRef}

\* What the post_save handlers hand to on_commit.
Announced(instance, before, created) ==
    {specs[i].kind : i \in {h \in Handlers \ Raised(instance, before, created) :
                                Changed(specs[h].watch, instance, before, created)}}
        \X Resolved(instance)

-----------------------------------------------------------------------------
(* Writers                                                                 *)

Load(w) ==
    /\ session[w].phase = "idle"
    /\ \/ row # Nothing /\ Update(w, [Idle EXCEPT !.phase = "held", !.instance = row])
       \/ row = Nothing /\ \E value \in RowValues :
                              Update(w, [Idle EXCEPT !.phase = "held", !.instance = value])
    /\ UNCHANGED <<specs, row, overtaken, fingerprint, pending, missed, writes>>

Writable(w) == session[w].phase \in {"held", "stored"} /\ writes < MaxWrites

\* The writer edits its instance, or a column nobody fingerprints, and calls save(): pre_save.
PreSave(w) ==
    /\ Writable(w)
    /\ \E value \in RowValues :
          Update(w, [session[w] EXCEPT !.phase = "sent", !.instance = value,
                                       !.raised = FALSE,
                                       !.before = IF Snapshots = {} THEN @ ELSE SnapshotOf(Current(w))])
    /\ overtaken' = overtaken \ {w}
    /\ writes' = writes + 1
    /\ UNCHANGED <<specs, row, fingerprint, pending, missed>>

(* The kinds that a save of `now` over `old` may pass over: the signal     *)
(* ended before them, the snapshot is outdated, or the change is in a      *)
(* column the connected watch omits, if only because the spec that lists   *)
(* it came second and was not connected.                                   *)
Untold(w, old, now, before) ==
    {specs[i].kind : i \in {h \in Handlers :
        \/ h \in Raised(now, before, FALSE)
        \/ w \in overtaken /\ now # old
        \/ specs[h].watch # <<>> /\ \E column \in Columns \ ToSet(specs[h].watch) : now[column] # old[column]}}

\* The statement and post_save.  A change of ref is announced under the new one, if at all.
Store(w) ==
    /\ session[w].phase = "sent" /\ LockFree(w)
    /\ LET s == session[w]
           old == Current(w)
           created == old = Nothing
           owed == Announced(s.instance, s.before, created)
           left == IF created THEN {} ELSE Heard \X ({old.ref} \ {s.instance.ref})
           untold == IF created THEN {} ELSE Untold(w, old, s.instance, s.before) \X {s.instance.ref}
       IN Update(w, [s EXCEPT !.phase = "stored", !.write = s.instance, !.owed = @ \cup owed,
                              !.unsaid = @ \cup left \cup (untold \ owed),
                              !.raised = Raised(s.instance, s.before, created) # {}])
    /\ UNCHANGED <<specs, row, overtaken, fingerprint, pending, missed, writes>>

\* post_delete is not watched; the instance may resolve to another ref than the row.
Delete(w) ==
    /\ Writable(w) /\ LockFree(w) /\ Current(w) # Nothing
    /\ LET s == session[w]
       IN Update(w, [s EXCEPT !.phase = "stored", !.write = Gone, !.owed = @ \cup (Heard \X Resolved(s.instance)),
                              !.unsaid = @ \cup (Heard \X ({Current(w).ref} \ {s.instance.ref}))])
    /\ writes' = writes + 1
    /\ UNCHANGED <<specs, row, overtaken, fingerprint, pending, missed>>

\* A bulk write, which sends no signal, and a post_save sent by hand to make up for it, with an
\* instance just fetched or with the one in memory, whose snapshot is that of its last save.
Compensate(w) ==
    /\ Writable(w) /\ LockFree(w) /\ Current(w) # Nothing
    /\ \E content \in Contents, fetched \in BOOLEAN :
          LET s == session[w]
              written == [Current(w) EXCEPT !.content = content]
              instance == IF fetched THEN written ELSE s.instance
              before == IF fetched THEN Nothing ELSE s.before
              owed == Announced(instance, before, FALSE)
              swallowed == ~fetched /\ (s.before # Nothing \/ s.instance.ref # written.ref)
          IN Update(w, [s EXCEPT !.phase = "stored", !.instance = instance, !.before = before,
                                 !.write = written, !.owed = @ \cup owed,
                                 !.raised = Raised(instance, before, FALSE) # {},
                                 !.unsaid = @ \cup (IF swallowed THEN (Heard \X {written.ref}) \ owed ELSE {})])
    /\ writes' = writes + 1
    /\ UNCHANGED <<specs, row, overtaken, fingerprint, pending, missed>>

Commit(w) ==
    /\ session[w].phase = "stored"
    /\ row' = Current(w)
    /\ Update(w, [session[w] EXCEPT !.phase = "committed", !.write = Nothing, !.unsaid = {}])
    /\ missed' = missed \cup session[w].unsaid
    /\ overtaken' = overtaken \cup {v \in Writers \ {w} : session[v].phase = "sent"}
    /\ UNCHANGED <<specs, fingerprint, pending, writes>>

\* The callbacks run once the transaction is in.
Announce(w) ==
    /\ session[w].phase = "committed"
    /\ pending' = pending \cup session[w].owed
    /\ Update(w, [session[w] EXCEPT !.phase = "held", !.owed = {}])
    /\ UNCHANGED <<specs, row, overtaken, fingerprint, missed, writes>>

\* The request ends: an open transaction is rolled back; dying between COMMIT and its callbacks,
\* a process takes the announcements with it.
Leave(w) ==
    /\ session[w].phase # "idle"
    /\ Update(w, Idle)
    /\ missed' = IF session[w].phase = "committed" THEN missed \cup session[w].owed ELSE missed
    /\ UNCHANGED <<specs, row, overtaken, fingerprint, pending, writes>>

Refresh ==
    /\ \E p \in pending :
          /\ fingerprint' = [fingerprint EXCEPT ![p[1]] = [@ EXCEPT ![p[2]] = Served(p[2])]]
          /\ pending' = pending \ {p} /\ missed' = missed \ {p}
    /\ UNCHANGED <<specs, row, session, overtaken, writes>>

Writer(w) ==
    \/ Load(w) \/ PreSave(w) \/ Store(w) \/ Delete(w) \/ Compensate(w)
    \/ Commit(w) \/ Announce(w) \/ Leave(w)

Next == Refresh \/ \E w \in Writers : Writer(w)

Spec == Init /\ [][Next]_vars

-----------------------------------------------------------------------------
(* Properties                                                              *)

(* A fingerprint of a wired kind that differs from what its ref serves is  *)
(* about to be refreshed, unless one of the ways named in this module left *)
(* it out: a save compared with a snapshot another commit had outdated, a  *)
(* change of ref seen from the old ref, a change in a column the connected *)
(* watch omits, a signal another kind's missing column ended, one sent by  *)
(* hand with an instance saved before, or a death after COMMIT.            *)
ChangesAreAnnounced ==
    \A k \in Heard, r \in Refs :
        fingerprint[k][r] # Served(r) =>
            \/ <<k, r>> \in pending \cup missed
            \/ \E w \in Writers : session[w].phase = "committed" /\ <<k, r>> \in session[w].owed

(* The handlers stay out of the catalog's way: a save() fails on them only *)
(* where two kinds watch the same model, and one lacks a column the other  *)
(* watches.  No declarations of a single kind, sound or not, can do that.  *)
SavesAreNotDisturbed ==
    \A w \in Writers : session[w].raised =>
        \E i, j \in DOMAIN specs :
            /\ specs[i].kind # specs[j].kind /\ specs[j].watch # <<>>
            /\ ToSet(specs[i].watch) \ ToSet(specs[j].watch) # {}

=============================================================================
