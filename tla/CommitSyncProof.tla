-------------------------- MODULE CommitSyncProof --------------------------
(***************************************************************************)
(* Proofs about CommitSync: SyncInvariant is an invariant of FaultySpec,   *)
(* for any sets of keys and contents and any bound on the log, and with it *)
(* the properties the runs check on small instances.                       *)
(***************************************************************************)
EXTENDS CommitSync, FiniteSetTheorems, TLAPS

\* An edit of one row that logs its key, says whether the row is gone, and
\* keeps a saved row for a row that is gone, preserves the invariant.
LEMMA LoggedEditPreserves ==
    ASSUME SyncInvariant, pc = "idle", UNCHANGED syncVars,
           NEW p \in Pk, NEW t \in ChangeType, NEW r \in Row,
           rows' = [rows EXCEPT ![p] = r],
           LogChange(p, t),
           t = "D" <=> r = Absent,
           old' \in [Pk -> OldRow \cup {NoOld}],
           \A q \in Pk : old'[q] # NoOld => old'[q].pk = q,
           \A q \in Pk : old[q] # NoOld => old'[q] # NoOld,
           r = Absent => old'[p] # NoOld
    PROVE  SyncInvariant'
<1>1. PICK id \in 1..MaxRowid :
        /\ \A e \in track : e.id < id
        /\ track' = track \cup {[id |-> id, pk |-> p, type |-> t]}
  BY DEF LogChange, NextRowid
<1> DEFINE new == [id |-> id, pk |-> p, type |-> t]
<1>2. new \in Entry
  BY DEF Entry
<1>3. \A e \in track : e \in Entry /\ e.id \in Nat /\ e.pk \in Pk
  BY MaxRowidAssumption DEF SyncInvariant, TypeOK, TableTypeOK, Entry
<1>4. TypeOK'
  BY <1>1, <1>2 DEF SyncInvariant, TypeOK, TableTypeOK, syncVars
<1>5. UntrackedRowsMatchTree'
  <2> SUFFICES ASSUME NEW q \in Pk, tree[q] # rows'[q], ~LeftBehind(q)'
               PROVE  \E e \in track' : e.pk = q
    BY DEF UntrackedRowsMatchTree, Tracked, syncVars
  <2>1. CASE q = p
    BY <2>1, <1>1, <1>2
  <2>2. CASE q # p
    <3>1. rows'[q] = rows[q] /\ ~LeftBehind(q)
      BY <2>2 DEF SyncInvariant, TypeOK, TableTypeOK, LeftBehind, syncVars
    <3> QED BY <3>1, <1>1 DEF SyncInvariant, UntrackedRowsMatchTree, Tracked
  <2> QED BY <2>1, <2>2
<1>6. LogTellsPresence'
  <2>1. \A e, f \in track' : e.id = f.id => e = f
    BY <1>1, <1>3 DEF SyncInvariant, LogTellsPresence
  <2>2. ASSUME NEW e \in track', LastOfItsKey(e, track')
        PROVE  e.type = "D" <=> rows'[e.pk] = Absent
    <3>1. CASE e = new
      BY <3>1 DEF SyncInvariant, TypeOK, TableTypeOK
    <3>2. CASE e \in track
      <4>1. e.pk # p
        <5>1. e.id < id /\ e.id \in Nat
          BY <3>2, <1>1, <1>3
        <5>2. new.pk = e.pk => new.id <= e.id
          BY <2>2, <1>1 DEF LastOfItsKey
        <5> QED BY <5>1, <5>2, MaxRowidAssumption
      <4>2. LastOfItsKey(e, track)
        BY <2>2, <1>1 DEF LastOfItsKey
      <4>3. rows'[e.pk] = rows[e.pk]
        BY <4>1, <3>2, <1>3 DEF SyncInvariant, TypeOK, TableTypeOK
      <4> QED BY <3>2, <4>2, <4>3 DEF SyncInvariant, LogTellsPresence
    <3> QED BY <3>1, <3>2, <1>1
  <2>3. ASSUME NEW e \in track', rows'[e.pk] = Absent
        PROVE  old'[e.pk] # NoOld
    <3>1. e.pk \in Pk
      BY <1>1, <1>3
    <3>2. CASE e.pk = p
      BY <3>2, <2>3 DEF SyncInvariant, TypeOK, TableTypeOK
    <3>3. CASE e.pk # p
      BY <3>1, <3>3, <2>3, <1>1 DEF SyncInvariant, TypeOK, TableTypeOK, LogTellsPresence
    <3> QED BY <3>2, <3>3
  <2> QED BY <2>1, <2>2, <2>3 DEF LogTellsPresence
<1>7. /\ changes = {} /\ deltas = {} /\ todo = {}
  BY DEF SyncInvariant, PassOverLog, DeltasTellRows, TodoReachesRows
<1>8. PassOverLog' /\ DeltasTellRows' /\ TodoReachesRows' /\ ClearedIsWritten'
  BY <1>7 DEF PassOverLog, DeltasTellRows, TodoReachesRows, ClearedIsWritten, syncVars
<1> QED BY <1>4, <1>5, <1>6, <1>8 DEF SyncInvariant

\* Inserts, updates and deletes between two commands.
LEMMA PlainEditPreserves ==
    ASSUME SyncInvariant, CalmEdit
    PROVE  SyncInvariant'
<1>1. /\ rows \in [Pk -> Row]
      /\ old \in [Pk -> OldRow \cup {NoOld}]
      /\ \A q \in Pk : old[q] # NoOld => old[q].pk = q
  BY DEF SyncInvariant, TypeOK, TableTypeOK, LogTellsPresence
<1>2. pc = "idle" /\ UNCHANGED syncVars
  BY DEF CalmEdit
<1>3. ASSUME NEW p \in Pk, SaveOld(p, p), rows[p] # Absent
      PROVE  /\ old' \in [Pk -> OldRow \cup {NoOld}]
             /\ old'[p] # NoOld
             /\ \A q \in Pk : old'[q] # NoOld => old'[q].pk = q
             /\ \A q \in Pk : old[q] # NoOld => old'[q] # NoOld
  <2> DEFINE saved == [pk |-> p, content |-> rows[p]]
  <2>1. saved \in OldRow /\ saved # NoOld /\ saved.pk = p
    BY <1>1, <1>3, NoOldAssumption DEF OldRow, Row
  <2> HIDE DEF saved
  <2>2. old' = IF old[p] = NoOld THEN [old EXCEPT ![p] = saved] ELSE old
    BY <1>3 DEF SaveOld, saved
  <2> QED BY <1>1, <2>1, <2>2
<1>4. ASSUME NEW p \in Pk, NEW c \in Content, InsertRow(p, c)
      PROVE  SyncInvariant'
  <2>1. c \in Row /\ c # Absent /\ "I" \in ChangeType
    BY ContentAssumption DEF Row, ChangeType
  <2> QED BY <1>1, <1>2, <1>4, <2>1, LoggedEditPreserves DEF InsertRow, InsertTrigger
<1>5. ASSUME NEW p \in Pk, NEW c \in Content, UpdateRow(p, c)
      PROVE  SyncInvariant'
  <2>1. c \in Row /\ c # Absent /\ "U" \in ChangeType
    BY ContentAssumption DEF Row, ChangeType
  <2> QED BY <1>2, <1>3, <1>5, <2>1, LoggedEditPreserves DEF UpdateRow, UpdateTrigger
<1>6. ASSUME NEW p \in Pk, DeleteRow(p)
      PROVE  SyncInvariant'
  <2>1. Absent \in Row /\ "D" \in ChangeType
    BY DEF Row, ChangeType
  <2> QED BY <1>2, <1>3, <1>6, <2>1, LoggedEditPreserves DEF DeleteRow, DeleteTrigger
<1> QED BY <1>4, <1>5, <1>6 DEF CalmEdit, PlainEdit

-----------------------------------------------------------------------------
(* The steps of the command. *)

\* A step that leaves the table alone leaves what is said of the table alone.
LEMMA TableUntouched ==
    ASSUME SyncInvariant, UNCHANGED tableVars
    PROVE  TableTypeOK' /\ LogTellsPresence'
BY DEF SyncInvariant, TypeOK, TableTypeOK, LogTellsPresence, LastOfItsKey, tableVars

LEMMA StartCommitPreserves ==
    ASSUME SyncInvariant, StartCommit
    PROVE  SyncInvariant'
<1>1. TypeOK' /\ LogTellsPresence'
  BY TableUntouched DEF SyncInvariant, TypeOK, StartCommit, Steps
<1>2. UntrackedRowsMatchTree'
  BY DEF SyncInvariant, UntrackedRowsMatchTree, LeftBehind, Tracked, StartCommit, tableVars
<1>3. changes' = {} /\ deltas' = {} /\ todo' = {} /\ pc' = "log"
  BY DEF SyncInvariant, PassOverLog, DeltasTellRows, TodoReachesRows, StartCommit
<1>4. PassOverLog' /\ DeltasTellRows' /\ TodoReachesRows' /\ ClearedIsWritten'
  BY <1>3 DEF PassOverLog, DeltasTellRows, TodoReachesRows, ClearedIsWritten
<1> QED BY <1>1, <1>2, <1>4 DEF SyncInvariant

LEMMA ExitPreserves ==
    ASSUME SyncInvariant, Exit, UNCHANGED <<tableVars, tree, stuck>>, head' \in [Pk -> File]
    PROVE  SyncInvariant'
<1>1. TypeOK' /\ LogTellsPresence'
  BY TableUntouched DEF SyncInvariant, TypeOK, Exit, Steps, Row
<1>2. UntrackedRowsMatchTree'
  BY DEF SyncInvariant, UntrackedRowsMatchTree, LeftBehind, Tracked, tableVars
<1>3. PassOverLog' /\ DeltasTellRows' /\ TodoReachesRows' /\ ClearedIsWritten'
  BY DEF Exit, PassOverLog, DeltasTellRows, TodoReachesRows, ClearedIsWritten
<1> QED BY <1>1, <1>2, <1>3 DEF SyncInvariant

LEMMA GetChangesPreserves ==
    ASSUME SyncInvariant, GetChanges
    PROVE  SyncInvariant'
<1>1. TypeOK' /\ LogTellsPresence'
  BY TableUntouched DEF SyncInvariant, TypeOK, TableTypeOK, GetChanges, Steps
<1>2. UntrackedRowsMatchTree'
  BY DEF SyncInvariant, UntrackedRowsMatchTree, LeftBehind, Tracked, GetChanges, tableVars
<1>3. deltas' = {} /\ todo' = {}
  BY DEF SyncInvariant, DeltasTellRows, TodoReachesRows, GetChanges
<1>4. /\ changes' = track' /\ tree' = tree /\ rows' = rows
      /\ pc' = IF track' = {} THEN "git" ELSE "row"
  BY DEF GetChanges, tableVars
<1>5. PassOverLog' /\ DeltasTellRows' /\ TodoReachesRows'
  BY <1>3, <1>4 DEF PassOverLog, DeltasTellRows, TodoReachesRows
<1>6. ClearedIsWritten'
  BY <1>2, <1>3, <1>4 DEF ClearedIsWritten, UntrackedRowsMatchTree, Tracked
<1> QED BY <1>1, <1>2, <1>5, <1>6 DEF SyncInvariant

\* The entry that comes first is the only one with its rowid.
LEMMA FirstIsUnique ==
    ASSUME SyncInvariant
    PROVE  /\ \A e, f \in changes : First(e, changes) /\ First(f, changes) => e = f
           /\ \A d, f \in deltas : First(d, deltas) /\ First(f, deltas) => d = f
           /\ \A d, f \in todo : First(d, todo) /\ First(f, todo) => d = f
<1>1. \A e \in changes : e.id \in Nat
  BY MaxRowidAssumption DEF SyncInvariant, TypeOK, Entry
<1>2. \A d \in deltas : d.id \in Nat
  BY MaxRowidAssumption DEF SyncInvariant, TypeOK, Delta
<1>3. /\ changes \subseteq track /\ todo \subseteq deltas
      /\ \A e, f \in track : e.id = f.id => e = f
      /\ \A d, f \in deltas : d.id = f.id => d = f
  BY DEF SyncInvariant, PassOverLog, DeltasTellRows, TodoReachesRows, LogTellsPresence
<1> QED BY <1>1, <1>2, <1>3 DEF First

LEMMA ReadRowPreserves ==
    ASSUME SyncInvariant, ReadRow
    PROVE  SyncInvariant'
<1>1. PICK e \in changes : First(e, changes) /\ seen' = rows[e.pk]
  BY DEF ReadRow, First
<1>2. TypeOK' /\ LogTellsPresence'
  BY <1>1, TableUntouched
     DEF SyncInvariant, TypeOK, TableTypeOK, ReadRow, Steps, Entry
<1>3. UntrackedRowsMatchTree'
  BY DEF SyncInvariant, UntrackedRowsMatchTree, LeftBehind, Tracked, ReadRow, tableVars
<1>4. \A f \in changes : First(f, changes) => seen' = rows[f.pk]
  BY <1>1, FirstIsUnique
<1>5. PassOverLog'
  BY <1>4 DEF SyncInvariant, PassOverLog, First, ReadRow, tableVars
<1>6. DeltasTellRows'
  BY DEF SyncInvariant, DeltasTellRows, EntryOf, Chosen, CommitsWholeDataset, ReadRow, tableVars
<1>7. TodoReachesRows' /\ ClearedIsWritten'
  BY DEF SyncInvariant, TodoReachesRows, ClearedIsWritten, ReadRow
<1> QED BY <1>2, <1>3, <1>5, <1>6, <1>7 DEF SyncInvariant

LEMMA ReadOldPreserves ==
    ASSUME SyncInvariant, ReadOld
    PROVE  SyncInvariant'
<1>1. PICK e \in changes :
        /\ First(e, changes)
        /\ deltas' = deltas \cup {DeltaOf(e, seen, old[e.pk])}
        /\ changes' = changes \ {e}
        /\ pc' = IF changes = {e} THEN "retain" ELSE "row"
  BY DEF ReadOld, First
<1> DEFINE delta == DeltaOf(e, seen, old[e.pk])
<1>2. /\ pc = "old" /\ seen' = Absent
      /\ UNCHANGED <<tableVars, tree, head, whole, selected, todo, stuck>>
  BY DEF ReadOld
<1>3. /\ e \in track /\ e \in Entry /\ e.pk \in Pk
      /\ seen = rows[e.pk] /\ seen \in Row
  BY <1>1, <1>2 DEF SyncInvariant, PassOverLog, TypeOK, Entry
<1>4. /\ delta.id = e.id /\ delta.pk = e.pk /\ delta.type = e.type
      /\ delta.text = FALSE /\ delta.new = rows[delta.pk]
      /\ EntryOf(delta) = e /\ delta \in Delta
  <2>1. seen = Absent => old[e.pk] # NoOld /\ old[e.pk].pk = e.pk
    BY <1>3 DEF SyncInvariant, LogTellsPresence
  <2>2. delta = [id |-> e.id, type |-> e.type, pk |-> e.pk, text |-> FALSE, new |-> seen]
    BY <2>1 DEF DeltaOf
  <2> HIDE DEF delta
  <2> QED BY <2>2, <1>3 DEF EntryOf, Delta, Entry
<1> HIDE DEF delta
<1>5. TypeOK' /\ LogTellsPresence'
  BY <1>1, <1>2, <1>4, TableUntouched DEF SyncInvariant, TypeOK, Steps, delta, Row
<1>6. UntrackedRowsMatchTree'
  BY <1>2 DEF SyncInvariant, UntrackedRowsMatchTree, LeftBehind, Tracked, tableVars
<1>7. PassOverLog'
  <2>1. \A f \in track' : f \in changes' \/ \E d \in deltas' : EntryOf(d) = f
    BY <1>1, <1>2, <1>4 DEF SyncInvariant, PassOverLog, tableVars, delta
  <2>2. changes' \subseteq track' /\ (pc' = "row" => changes' # {}) /\ (pc' = "retain" => changes' = {})
    BY <1>1, <1>2 DEF SyncInvariant, PassOverLog, tableVars
  <2> QED BY <2>1, <2>2, <1>1 DEF PassOverLog
<1>8. DeltasTellRows'
  <2>1. ASSUME NEW d \in deltas, d.id = delta.id PROVE d = delta
    <3>1. EntryOf(d) \in track /\ ~d.text /\ d.new = rows[d.pk] /\ d \in Delta
      BY <1>2 DEF SyncInvariant, TypeOK, DeltasTellRows
    <3>2. EntryOf(d).id = e.id
      BY <2>1, <1>4 DEF EntryOf
    <3>3. EntryOf(d) = e
      BY <3>1, <3>2, <1>3 DEF SyncInvariant, LogTellsPresence
    <3>4. d.pk = delta.pk /\ d.type = delta.type
      BY <3>3, <1>4 DEF EntryOf
    <3>5. d.new = delta.new /\ d.text = delta.text
      BY <3>1, <3>4, <1>4 DEF Delta
    <3> QED BY <2>1, <3>1, <3>4, <3>5, <1>4 DEF Delta
  <2>2. \A d, f \in deltas' : d.id = f.id => d = f
    BY <2>1, <1>1 DEF SyncInvariant, DeltasTellRows, delta
  <2>3. \A d \in deltas' : ~d.text /\ d.new = rows'[d.pk]
    BY <1>1, <1>2, <1>4 DEF SyncInvariant, DeltasTellRows, tableVars, delta
  <2>4. \A d \in deltas' : EntryOf(d) \in track'
    BY <1>1, <1>2, <1>3, <1>4 DEF SyncInvariant, DeltasTellRows, tableVars, delta
  <2> QED BY <2>2, <2>3, <2>4, <1>1 DEF DeltasTellRows
<1>9. TodoReachesRows' /\ ClearedIsWritten'
  BY <1>1, <1>2 DEF SyncInvariant, TodoReachesRows, ClearedIsWritten
<1> QED BY <1>5, <1>6, <1>7, <1>8, <1>9 DEF SyncInvariant

LEMMA RetainPreserves ==
    ASSUME SyncInvariant, Retain
    PROVE  SyncInvariant'
<1>1. /\ pc = "retain" /\ changes = {} /\ changes' = {}
      /\ deltas' = {d \in deltas : Chosen(d.pk)} /\ todo' = deltas'
      /\ pc' = IF deltas' = {} THEN "git" ELSE "file"
      /\ UNCHANGED <<tableVars, tree, head, whole, selected, seen, stuck>>
  BY DEF SyncInvariant, PassOverLog, Retain
<1>2. TypeOK' /\ LogTellsPresence'
  BY <1>1, TableUntouched DEF SyncInvariant, TypeOK, Steps
<1>3. UntrackedRowsMatchTree'
  BY <1>1 DEF SyncInvariant, UntrackedRowsMatchTree, LeftBehind, Tracked, tableVars
<1>4. PassOverLog'
  BY <1>1 DEF PassOverLog
<1>5. DeltasTellRows'
  BY <1>1 DEF SyncInvariant, DeltasTellRows, EntryOf, Chosen, CommitsWholeDataset, tableVars
<1>6. \A p : Chosen(p)' = Chosen(p) /\ LeftBehind(p)' = LeftBehind(p)
  BY <1>1 DEF Chosen, CommitsWholeDataset, LeftBehind, tableVars
<1>7. ASSUME NEW p \in Pk, Chosen(p), tree[p] # rows[p], ~LeftBehind(p)
      PROVE  \E d \in deltas' : d.pk = p
  <2>1. PICK e \in track : e.pk = p
    BY <1>7 DEF SyncInvariant, UntrackedRowsMatchTree, Tracked
  <2>2. PICK d \in deltas : EntryOf(d) = e
    BY <2>1, <1>1 DEF SyncInvariant, PassOverLog
  <2>3. d.pk = p
    BY <2>1, <2>2 DEF EntryOf
  <2> QED BY <2>2, <2>3, <1>1, <1>7
<1>8. ASSUME NEW d \in todo', LastOfItsKey(d, todo')
      PROVE  Writes(d) <=> rows[d.pk] # Absent
  <2>1. d \in deltas /\ Chosen(d.pk) /\ d \in Delta /\ EntryOf(d) \in track
    BY <1>1, <1>8 DEF SyncInvariant, TypeOK, DeltasTellRows
  <2>2. ASSUME NEW e \in track, e.pk = d.pk PROVE e.id <= d.id
    <3>1. PICK f \in deltas : EntryOf(f) = e
      BY <1>1 DEF SyncInvariant, PassOverLog
    <3>2. f.id = e.id /\ f.pk = d.pk
      BY <3>1, <2>2 DEF EntryOf
    <3> QED BY <3>1, <3>2, <2>1, <1>1, <1>8 DEF LastOfItsKey
  <2>3. LastOfItsKey(EntryOf(d), track)
    BY <2>2 DEF LastOfItsKey, EntryOf
  <2>4. EntryOf(d).type = "D" <=> rows[EntryOf(d).pk] = Absent
    BY <2>1, <2>3 DEF SyncInvariant, LogTellsPresence
  <2>5. d.type \in ChangeType /\ EntryOf(d).type = d.type /\ EntryOf(d).pk = d.pk
    BY <2>1 DEF Delta, EntryOf
  <2> QED BY <2>4, <2>5 DEF Writes, ChangeType
<1>9. TodoReachesRows'
  <2>1. pc' \notin {"file", "fill"} => todo' = {}
    BY <1>1
  <2> QED BY <2>1, <1>1, <1>6, <1>7, <1>8 DEF TodoReachesRows, tableVars, Writes
<1>10. ClearedIsWritten'
  <2>1. pc' \notin {"clear log", "clear old", "clear log of", "clear old of"}
    BY <1>1
  <2>2. ASSUME pc' = "git", NEW p \in Pk, Chosen(p)'
        PROVE  tree'[p] = rows'[p] \/ LeftBehind(p)'
    BY <2>2, <1>1, <1>6, <1>7 DEF tableVars
  <2> QED BY <2>1, <2>2 DEF ClearedIsWritten
<1> QED BY <1>2, <1>3, <1>4, <1>5, <1>9, <1>10 DEF SyncInvariant

\* Facts of the file-writing loop: its delta's key is chosen, and tracked.
LEMMA DeltaAtHand ==
    ASSUME SyncInvariant, pc \in {"file", "fill"}, NEW d \in todo, First(d, todo)
    PROVE  /\ d \in Delta /\ d.pk \in Pk /\ d.new \in Row
           /\ ~d.text /\ d.new = rows[d.pk]
           /\ Tracked(d.pk)
<1>1. d \in deltas /\ d \in Delta
  BY DEF SyncInvariant, TypeOK, TodoReachesRows
<1>2. EntryOf(d) \in track
  BY <1>1 DEF SyncInvariant, DeltasTellRows
<1>3. Tracked(d.pk)
  BY <1>2 DEF EntryOf, Tracked
<1>4. ~d.text /\ d.new = rows[d.pk]
  BY <1>1 DEF SyncInvariant, DeltasTellRows
<1>5. d.pk \in Pk /\ d.new \in Row
  BY <1>1 DEF Delta
<1> QED BY <1>1, <1>3, <1>4, <1>5

\* Taking the delta at hand off the list, once its file is what its row is, or
\* was left behind, if it is the last of its key.
LEMMA DeltaDonePreserves ==
    ASSUME SyncInvariant, pc \in {"file", "fill"}, pc' = "file",
           NEW d \in todo, First(d, todo),
           NEW f \in File, tree' = [tree EXCEPT ![d.pk] = f],
           stuck' \in SUBSET Pk,
           \A q \in Pk : q # d.pk => (q \in stuck' <=> q \in stuck),
           LastOfItsKey(d, todo) =>
               f = rows[d.pk] \/ (d.pk \in stuck' /\ rows[d.pk] = Absent),
           todo' = todo \ {d},
           UNCHANGED <<tableVars, head, whole, selected, changes, seen, deltas>>
    PROVE  SyncInvariant'
<1>1. d.pk \in Pk /\ Tracked(d.pk) /\ d \in Delta
  BY DeltaAtHand
<1>2. TypeOK' /\ LogTellsPresence'
  BY TableUntouched DEF SyncInvariant, TypeOK, Steps
<1>3. UntrackedRowsMatchTree'
  BY <1>1 DEF SyncInvariant, TypeOK, UntrackedRowsMatchTree, LeftBehind, Tracked, tableVars
<1>4. PassOverLog' /\ ClearedIsWritten'
  BY DEF SyncInvariant, PassOverLog, ClearedIsWritten, tableVars
<1>5. DeltasTellRows'
  BY DEF SyncInvariant, DeltasTellRows, EntryOf, Chosen, CommitsWholeDataset, tableVars
<1>6. ASSUME NEW g \in todo', LastOfItsKey(g, todo')
      PROVE  Writes(g) <=> rows[g.pk] # Absent
  <2>1. d.id <= g.id
    BY <1>6 DEF First
  <2>2. LastOfItsKey(g, todo)
    BY <2>1, <1>6 DEF LastOfItsKey
  <2> QED BY <2>2, <1>6 DEF SyncInvariant, TodoReachesRows
<1>7. ASSUME NEW p \in Pk, Chosen(p), tree'[p] # rows[p], ~LeftBehind(p)'
      PROVE  \E g \in todo' : g.pk = p
  <2>1. CASE p = d.pk
    <3>1. ~LastOfItsKey(d, todo)
      BY <2>1, <1>1, <1>7 DEF SyncInvariant, TypeOK, LeftBehind, tableVars
    <3>2. PICK g \in todo : g.pk = d.pk /\ ~(g.id <= d.id)
      BY <3>1 DEF LastOfItsKey
    <3>3. d.id <= d.id
      BY DEF First
    <3> QED BY <2>1, <3>2, <3>3
  <2>2. CASE p # d.pk
    BY <2>2, <1>7 DEF SyncInvariant, TypeOK, TodoReachesRows, LeftBehind, tableVars
  <2> QED BY <2>1, <2>2
<1>8. TodoReachesRows'
  <2>1. \A p : Chosen(p)' = Chosen(p)
    BY DEF Chosen, CommitsWholeDataset
  <2>2. todo' \subseteq deltas'
    BY DEF SyncInvariant, TodoReachesRows
  <2> QED BY <2>1, <2>2, <1>6, <1>7 DEF TodoReachesRows, tableVars, Writes
<1> QED BY <1>2, <1>3, <1>4, <1>5, <1>8 DEF SyncInvariant

LEMMA TruncateFilePreserves ==
    ASSUME SyncInvariant, TruncateFile
    PROVE  SyncInvariant'
<1>1. PICK d \in todo :
        First(d, todo) /\ Writes(d) /\ tree' = [tree EXCEPT ![d.pk] = Torn]
  BY DEF TruncateFile, First
<1>2. /\ pc = "file" /\ pc' = "fill"
      /\ UNCHANGED <<tableVars, head, whole, selected, changes, seen, deltas, todo, stuck>>
  BY DEF TruncateFile
<1>3. d.pk \in Pk /\ Tracked(d.pk)
  BY <1>1, <1>2, DeltaAtHand
<1>4. TypeOK' /\ LogTellsPresence'
  BY <1>1, <1>2, TableUntouched DEF SyncInvariant, TypeOK, Steps, File
<1>5. UntrackedRowsMatchTree'
  BY <1>1, <1>2, <1>3 DEF SyncInvariant, TypeOK, UntrackedRowsMatchTree, LeftBehind, Tracked, tableVars
<1>6. PassOverLog' /\ ClearedIsWritten'
  BY <1>2 DEF SyncInvariant, PassOverLog, ClearedIsWritten, tableVars
<1>7. DeltasTellRows'
  BY <1>2 DEF SyncInvariant, DeltasTellRows, EntryOf, Chosen, CommitsWholeDataset, tableVars
<1>8. TodoReachesRows'
  <2>1. \A g \in todo : First(g, todo) => Writes(g)
    BY <1>1, FirstIsUnique
  <2>2. \A p : Chosen(p)' = Chosen(p) /\ LeftBehind(p)' = LeftBehind(p)
    BY <1>2 DEF Chosen, CommitsWholeDataset, LeftBehind, tableVars
  <2>3. ASSUME NEW p \in Pk, Chosen(p), tree'[p] # rows[p], ~LeftBehind(p)
        PROVE  \E g \in todo : g.pk = p
    BY <2>3, <1>1, <1>2 DEF SyncInvariant, TypeOK, TodoReachesRows
  <2> QED BY <2>1, <2>2, <2>3, <1>2
          DEF SyncInvariant, TodoReachesRows, tableVars, First, LastOfItsKey, Writes
<1> QED BY <1>4, <1>5, <1>6, <1>7, <1>8 DEF SyncInvariant

LEMMA FillFilePreserves ==
    ASSUME SyncInvariant, FillFile
    PROVE  SyncInvariant'
<1>1. PICK d \in todo :
        /\ First(d, todo)
        /\ tree' = [tree EXCEPT ![d.pk] = Stored(d)] /\ todo' = todo \ {d}
        /\ stuck' = stuck \ {d.pk}
  BY DEF FillFile, First
<1>2. /\ pc = "fill" /\ pc' = "file"
      /\ UNCHANGED <<tableVars, head, whole, selected, changes, seen, deltas>>
  BY DEF FillFile
<1>3. d.new = rows[d.pk] /\ d.new \in Row
  BY <1>1, <1>2, DeltaAtHand
<1>4. Stored(d) \in File
  BY <1>3, ContentAssumption DEF Stored, File, Row
<1>5. LastOfItsKey(d, todo) => Stored(d) = rows[d.pk]
  BY <1>1, <1>2, <1>3 DEF SyncInvariant, TodoReachesRows, Stored
<1>6. stuck \ {d.pk} \in SUBSET Pk
  BY DEF SyncInvariant, TypeOK
<1> QED BY <1>1, <1>2, <1>4, <1>5, <1>6, DeltaDonePreserves

LEMMA RemoveFilePreserves ==
    ASSUME SyncInvariant, RemoveFile
    PROVE  SyncInvariant'
<1>1. PICK d \in todo :
        /\ First(d, todo) /\ ~Writes(d)
        /\ tree' = [tree EXCEPT ![d.pk] = Absent] /\ todo' = todo \ {d}
        /\ stuck' = stuck \ {d.pk}
  BY DEF RemoveFile, First
<1>2. /\ pc = "file" /\ pc' = "file"
      /\ UNCHANGED <<tableVars, head, whole, selected, changes, seen, deltas>>
  BY DEF RemoveFile
<1>3. Absent \in File
  BY DEF File, Row
<1>4. LastOfItsKey(d, todo) => Absent = rows[d.pk]
  BY <1>1 DEF SyncInvariant, TodoReachesRows
<1>5. stuck \ {d.pk} \in SUBSET Pk
  BY DEF SyncInvariant, TypeOK
<1> QED BY <1>1, <1>2, <1>3, <1>4, <1>5, DeltaDonePreserves

LEMMA KeepFilePreserves ==
    ASSUME SyncInvariant, KeepFile
    PROVE  SyncInvariant'
<1>1. PICK d \in todo :
        /\ First(d, todo) /\ ~Writes(d)
        /\ todo' = todo \ {d} /\ stuck' = stuck \cup {d.pk}
  BY DEF KeepFile, First
<1>2. /\ pc = "file" /\ pc' = "file"
      /\ UNCHANGED <<tableVars, tree, head, whole, selected, changes, seen, deltas>>
  BY DEF KeepFile
<1>3. d.pk \in Pk
  BY <1>1, <1>2, DeltaAtHand
<1>4. /\ tree[d.pk] \in File /\ tree' = [tree EXCEPT ![d.pk] = tree[d.pk]]
      /\ stuck' \in SUBSET Pk
  BY <1>1, <1>2, <1>3 DEF SyncInvariant, TypeOK
<1>5. LastOfItsKey(d, todo) => rows[d.pk] = Absent
  BY <1>1 DEF SyncInvariant, TodoReachesRows
<1> QED BY <1>1, <1>2, <1>4, <1>5, DeltaDonePreserves

LEMMA FilesDonePreserves ==
    ASSUME SyncInvariant, FilesDone
    PROVE  SyncInvariant'
<1>1. /\ pc = "file" /\ todo = {} /\ todo' = {} /\ whole' = whole
      /\ pc' = IF whole THEN "clear log" ELSE "clear log of"
      /\ UNCHANGED <<tableVars, tree, head, selected, changes, seen, deltas, stuck>>
  BY DEF FilesDone, CommitsWholeDataset
<1>2. TypeOK' /\ LogTellsPresence'
  BY <1>1, TableUntouched DEF SyncInvariant, TypeOK, Steps
<1>3. UntrackedRowsMatchTree'
  BY <1>1 DEF SyncInvariant, UntrackedRowsMatchTree, LeftBehind, Tracked, tableVars
<1>4. PassOverLog' /\ TodoReachesRows'
  BY <1>1 DEF SyncInvariant, PassOverLog, TodoReachesRows, tableVars
<1>5. DeltasTellRows'
  BY <1>1 DEF SyncInvariant, DeltasTellRows, EntryOf, Chosen, CommitsWholeDataset, tableVars
<1>6. ClearedIsWritten'
  <2>1. \A p \in Pk : Chosen(p)' => tree'[p] = rows'[p] \/ LeftBehind(p)'
    BY <1>1 DEF SyncInvariant, TodoReachesRows, Chosen, CommitsWholeDataset, LeftBehind,
                tableVars
  <2> QED BY <2>1, <1>1 DEF ClearedIsWritten
<1> QED BY <1>2, <1>3, <1>4, <1>5, <1>6 DEF SyncInvariant

\* The clearing steps leave rows and files alone, and take entries off the log
\* only of chosen keys.
LEMMA ClearingPreserves ==
    ASSUME SyncInvariant,
           pc \in {"clear log", "clear old", "clear log of", "clear old of"},
           pc' \in {"clear log", "clear old", "clear log of", "clear old of", "git"},
           UNCHANGED <<rows, tree, head, whole, selected, changes, seen, todo, stuck>>,
           track' \subseteq track, deltas' \subseteq deltas,
           \A p \in Pk : Tracked(p) /\ ~Chosen(p) => Tracked(p)',
           \A e \in track : e \notin track' => \A f \in track' : f.pk # e.pk,
           old' \in [Pk -> OldRow \cup {NoOld}],
           \A p \in Pk : old'[p] # NoOld => old'[p] = old[p],
           \A e \in track' : old'[e.pk] = old[e.pk],
           pc' \in {"clear log", "clear old"} => whole,
           pc' = "clear old" => track' = {},
           pc' = "clear old of" =>
               \A d \in deltas' : First(d, deltas') => ~Tracked(d.pk)'
    PROVE  SyncInvariant'
<1>1. \A p : Chosen(p)' = Chosen(p) /\ LeftBehind(p)' = LeftBehind(p)
  BY DEF Chosen, CommitsWholeDataset, LeftBehind
<1>2. TypeOK'
  BY DEF SyncInvariant, TypeOK, TableTypeOK, Steps
<1>3. UntrackedRowsMatchTree'
  BY <1>1 DEF SyncInvariant, UntrackedRowsMatchTree, ClearedIsWritten
<1>4. LogTellsPresence'
  <2>1. ASSUME NEW e \in track', LastOfItsKey(e, track')
        PROVE  e.type = "D" <=> rows'[e.pk] = Absent
    <3>1. LastOfItsKey(e, track)
      BY <2>1 DEF LastOfItsKey
    <3> QED BY <3>1 DEF SyncInvariant, LogTellsPresence
  <2>2. \A e, f \in track' : e.id = f.id => e = f
    BY DEF SyncInvariant, LogTellsPresence
  <2>3. \A e \in track' : rows'[e.pk] = Absent => old'[e.pk] # NoOld
    BY DEF SyncInvariant, LogTellsPresence
  <2>4. \A p \in Pk : old'[p] # NoOld => old'[p].pk = p
    BY DEF SyncInvariant, LogTellsPresence
  <2> QED BY <2>1, <2>2, <2>3, <2>4 DEF LogTellsPresence
<1>5. changes = {} /\ todo = {}
  BY DEF SyncInvariant, PassOverLog, TodoReachesRows
<1>6. PassOverLog' /\ TodoReachesRows'
  BY <1>5 DEF PassOverLog, TodoReachesRows
<1>7. DeltasTellRows'
  BY <1>1 DEF SyncInvariant, DeltasTellRows
<1>8. ClearedIsWritten'
  BY <1>1 DEF SyncInvariant, ClearedIsWritten
<1> QED BY <1>2, <1>3, <1>4, <1>6, <1>7, <1>8 DEF SyncInvariant

LEMMA ClearTrackingPreserves ==
    ASSUME SyncInvariant, ClearTrackingLog \/ ClearTrackingOld
    PROVE  SyncInvariant'
<1>1. /\ old \in [Pk -> OldRow \cup {NoOld}]
      /\ pc \in {"clear log", "clear old"} => \A p \in Pk : Chosen(p)
      /\ pc = "clear old" => track = {}
  BY DEF SyncInvariant, TypeOK, TableTypeOK, ClearedIsWritten, Chosen, CommitsWholeDataset
<1>2. CASE ClearTrackingLog
  <2>1. /\ pc = "clear log" /\ pc' = "clear old" /\ track' = {} /\ whole
        /\ UNCHANGED <<rows, old, tree, head, whole, selected, changes, seen, deltas, todo, stuck>>
    BY <1>2 DEF SyncInvariant, ClearedIsWritten, ClearTrackingLog, ClearLog
  <2> QED BY <1>1, <2>1, ClearingPreserves
<1>3. CASE ClearTrackingOld
  <2>1. /\ pc = "clear old" /\ pc' = "git" /\ track = {} /\ track' = {}
        /\ old' = [p \in Pk |-> NoOld]
        /\ UNCHANGED <<rows, tree, head, whole, selected, changes, seen, deltas, todo, stuck>>
    BY <1>1, <1>3 DEF ClearTrackingOld, ClearOld
  <2> QED BY <1>1, <2>1, ClearingPreserves
<1> QED BY <1>2, <1>3

LEMMA ClearFeaturePreserves ==
    ASSUME SyncInvariant, ClearFeatureLog \/ ClearFeatureOld
    PROVE  SyncInvariant'
<1>1. old \in [Pk -> OldRow \cup {NoOld}] /\ \A e \in track : e.pk \in Pk
  BY DEF SyncInvariant, TypeOK, TableTypeOK, Entry
<1>2. pc \in {"clear log of", "clear old of"} =>
        \A d \in deltas : d.pk \in Pk /\ Chosen(d.pk)
  BY DEF SyncInvariant, TypeOK, DeltasTellRows, Delta
<1>3. CASE ClearFeatureLog
  <2>1. PICK d \in deltas : First(d, deltas) /\ track' = {e \in track : e.pk # d.pk}
    BY <1>3 DEF ClearFeatureLog, ClearLogOf, First
  <2>2. /\ pc = "clear log of" /\ pc' = "clear old of"
        /\ UNCHANGED <<rows, old, tree, head, whole, selected, changes, seen, deltas, todo, stuck>>
    BY <1>3 DEF ClearFeatureLog
  <2>3. \A p \in Pk : Tracked(p) /\ ~Chosen(p) => Tracked(p)'
    BY <1>2, <2>1, <2>2 DEF Tracked
  <2>4. \A f \in deltas' : First(f, deltas') => ~Tracked(f.pk)'
    BY <2>1, <2>2, FirstIsUnique DEF Tracked, First
  <2> QED BY <1>1, <2>1, <2>2, <2>3, <2>4, ClearingPreserves
<1>4. CASE ClearFeatureOld
  <2>1. PICK d \in deltas :
          /\ First(d, deltas) /\ old' = [old EXCEPT ![d.pk] = NoOld]
          /\ deltas' = deltas \ {d}
          /\ pc' = IF deltas = {d} THEN "git" ELSE "clear log of"
    BY <1>4 DEF ClearFeatureOld, ClearOldOf, First
  <2>2. /\ pc = "clear old of"
        /\ UNCHANGED <<rows, track, tree, head, whole, selected, changes, seen, todo, stuck>>
    BY <1>4 DEF ClearFeatureOld
  <2>3. ~Tracked(d.pk)
    BY <2>1, <2>2 DEF SyncInvariant, ClearedIsWritten
  <2>4. \A p \in Pk : Tracked(p)' = Tracked(p)
    BY <2>2 DEF Tracked
  <2>5. \A e \in track' : old'[e.pk] = old[e.pk]
    BY <1>1, <2>1, <2>2, <2>3 DEF Tracked
  <2> QED BY <1>1, <2>1, <2>2, <2>4, <2>5, ClearingPreserves
<1> QED BY <1>3, <1>4

-----------------------------------------------------------------------------
(* The theorems. *)

LEMMA SyncInvariantInitially == Init => SyncInvariant
<1> SUFFICES ASSUME Init PROVE SyncInvariant
  OBVIOUS
<1>1. TypeOK
  BY DEF Init, TypeOK, TableTypeOK, Steps, Row, File
<1>2. UntrackedRowsMatchTree /\ LogTellsPresence
  BY DEF Init, UntrackedRowsMatchTree, LogTellsPresence
<1>3. PassOverLog /\ DeltasTellRows /\ TodoReachesRows /\ ClearedIsWritten
  BY DEF Init, PassOverLog, DeltasTellRows, TodoReachesRows, ClearedIsWritten
<1> QED BY <1>1, <1>2, <1>3 DEF SyncInvariant

LEMMA SyncInvariantPreserved == SyncInvariant /\ [FaultyNext]_vars => SyncInvariant'
<1> SUFFICES ASSUME SyncInvariant, [FaultyNext]_vars PROVE SyncInvariant'
  OBVIOUS
<1>1. CASE StartCommit BY <1>1, StartCommitPreserves
<1>2. CASE GetChanges BY <1>2, GetChangesPreserves
<1>3. CASE ReadRow BY <1>3, ReadRowPreserves
<1>4. CASE ReadOld BY <1>4, ReadOldPreserves
<1>5. CASE Retain BY <1>5, RetainPreserves
<1>6. CASE TruncateFile BY <1>6, TruncateFilePreserves
<1>7. CASE FillFile BY <1>7, FillFilePreserves
<1>8. CASE RemoveFile \/ KeepFile BY <1>8, RemoveFilePreserves, KeepFilePreserves
<1>9. CASE FilesDone BY <1>9, FilesDonePreserves
<1>10. CASE ClearTrackingLog \/ ClearTrackingOld BY <1>10, ClearTrackingPreserves
<1>11. CASE ClearFeatureLog \/ ClearFeatureOld BY <1>11, ClearFeaturePreserves
<1>12. CASE GitCommit \/ GitCommitFails \/ Crash
  BY <1>12, ExitPreserves DEF GitCommit, GitCommitFails, Crash, SyncInvariant, TypeOK
<1>13. CASE CalmEdit BY <1>13, PlainEditPreserves
<1>14. CASE UNCHANGED vars
  <2>1. UNCHANGED <<rows, track, old, tree, head, pc, whole, selected, changes, seen, deltas, todo, stuck>>
    BY <1>14 DEF vars, tableVars, syncVars
  <2>2. TypeOK' /\ LogTellsPresence' /\ UntrackedRowsMatchTree'
    BY <2>1, TableUntouched
       DEF SyncInvariant, TypeOK, UntrackedRowsMatchTree, LeftBehind, Tracked, tableVars
  <2>3. PassOverLog' /\ ClearedIsWritten' /\ TodoReachesRows' /\ DeltasTellRows'
    BY <2>1 DEF SyncInvariant, PassOverLog, ClearedIsWritten, TodoReachesRows,
                DeltasTellRows, EntryOf, First, LastOfItsKey, Tracked, Writes,
                LeftBehind, Chosen, CommitsWholeDataset
  <2> QED BY <2>2, <2>3 DEF SyncInvariant
<1> QED
  BY <1>1, <1>2, <1>3, <1>4, <1>5, <1>6, <1>7, <1>8, <1>9, <1>10, <1>11, <1>12, <1>13, <1>14
     DEF FaultyNext, CalmNext, Command, Sync

\* Whatever commits, failed commits and crashes came before: SyncInvariant holds.
THEOREM SyncInvariantHolds == FaultySpec => []SyncInvariant
<1>1. Init => SyncInvariant BY SyncInvariantInitially
<1>2. SyncInvariant /\ [FaultyNext]_vars => SyncInvariant' BY SyncInvariantPreserved
<1> QED BY <1>1, <1>2, PTL DEF FaultySpec

\* No edit is forgotten: a feature the tracking does not name is in the tree, but the
\* file that could not be removed of a row that is gone.
THEOREM NoEditForgotten == FaultySpec => []UntrackedRowsMatchTree
<1>1. SyncInvariant => UntrackedRowsMatchTree BY DEF SyncInvariant
<1> QED BY <1>1, SyncInvariantHolds, PTL

\* What git commits for the chosen features is their rows, with the same exception.
THEOREM CommitIsComplete == FaultySpec => []ChosenFilesAreRows
<1>1. SyncInvariant => ChosenFilesAreRows
  BY DEF SyncInvariant, ClearedIsWritten, ChosenFilesAreRows
<1> QED BY <1>1, SyncInvariantHolds, PTL

\* Plain edits never bring a key to the path scheme that it panics on.
THEOREM CommitNeverPanics == FaultySpec => []NoTextKey
<1>1. SyncInvariant => NoTextKey
  BY DEF SyncInvariant, DeltasTellRows, TodoReachesRows, NoTextKey
<1> QED BY <1>1, SyncInvariantHolds, PTL

LEMMA CalmInvariantPreserved == CalmInvariant /\ [CalmNext]_vars => CalmInvariant'
<1> SUFFICES ASSUME CalmInvariant, [CalmNext]_vars PROVE CalmInvariant'
  OBVIOUS
<1>1. SyncInvariant' /\ SyncInvariant
  BY SyncInvariantPreserved DEF CalmInvariant, FaultyNext
<1>7. stuck' = {}
  BY DEF CalmInvariant, CalmNext, Command, Sync, StartCommit, GetChanges, ReadRow, ReadOld,
         Retain, TruncateFile, FillFile, RemoveFile, FilesDone, ClearTrackingLog,
         ClearTrackingOld, ClearFeatureLog, ClearFeatureOld, GitCommit, CalmEdit, vars, syncVars
<1> SUFFICES ASSUME NEW p \in Pk, tree'[p] # head'[p]
             PROVE  pc' # "idle" /\ Chosen(p)'
  BY <1>1, <1>7 DEF CalmInvariant
<1>2. CASE UNCHANGED <<tree, head, pc, whole, selected>>
  BY <1>2 DEF CalmInvariant, Chosen, CommitsWholeDataset
<1>3. CASE StartCommit
  BY <1>3 DEF CalmInvariant, StartCommit
<1>4. CASE TruncateFile \/ FillFile \/ RemoveFile
  <2>1. /\ pc' # "idle" /\ head' = head
        /\ \E d \in todo : \A q \in Pk : q # d.pk => tree'[q] = tree[q]
    BY <1>4, <1>1 DEF SyncInvariant, TypeOK, TruncateFile, FillFile, RemoveFile
  <2>2. \A d \in todo : Chosen(d.pk)
    BY <1>4, <1>1 DEF SyncInvariant, DeltasTellRows, TodoReachesRows,
                      TruncateFile, FillFile, RemoveFile
  <2>3. Chosen(p)' = Chosen(p)
    BY <1>4 DEF Chosen, CommitsWholeDataset, TruncateFile, FillFile, RemoveFile
  <2> QED BY <2>1, <2>2, <2>3 DEF CalmInvariant
<1>5. CASE GitCommit
  BY <1>5 DEF GitCommit
<1>6. CASE \/ GetChanges \/ ReadRow \/ ReadOld \/ Retain \/ FilesDone
           \/ ClearTrackingLog \/ ClearTrackingOld
           \/ ClearFeatureLog \/ ClearFeatureOld
  <2>1. pc' # "idle" /\ UNCHANGED <<tree, head, whole, selected>>
    BY <1>6 DEF GetChanges, ReadRow, ReadOld, Retain, FilesDone, ClearTrackingLog,
                ClearTrackingOld, ClearFeatureLog, ClearFeatureOld
  <2> QED BY <2>1 DEF CalmInvariant, Chosen, CommitsWholeDataset
<1> QED BY <1>2, <1>3, <1>4, <1>5, <1>6
        DEF CalmNext, Command, Sync, CalmEdit, vars, syncVars

THEOREM CalmInvariantHolds == CalmSpec => []CalmInvariant
<1>1. Init => CalmInvariant
  BY SyncInvariantInitially DEF Init, CalmInvariant
<1>2. CalmInvariant /\ [CalmNext]_vars => CalmInvariant'
  BY CalmInvariantPreserved
<1> QED BY <1>1, <1>2, PTL DEF CalmSpec

\* `ggt commit ds:pk` leaves every other feature of HEAD as it is.
THEOREM CommitIsExact == CalmSpec => []OnlyChosenIsCommitted
<1>1. CalmInvariant => OnlyChosenIsCommitted
  BY DEF CalmInvariant, OnlyChosenIsCommitted
<1> QED BY <1>1, CalmInvariantHolds, PTL

\* "working copy clean" is true when nothing failed.
THEOREM CleanIsCommitted == CalmSpec => []CleanMeansCommitted
<1>1. CalmInvariant => CleanMeansCommitted
  <2> SUFFICES ASSUME CalmInvariant, pc = "idle", track = {} PROVE head = rows
    BY DEF CleanMeansCommitted
  <2>1. \A p \in Pk : head[p] = rows[p]
    BY DEF CalmInvariant, SyncInvariant, UntrackedRowsMatchTree, LeftBehind, Tracked
  <2> QED BY <2>1 DEF CalmInvariant, SyncInvariant, TypeOK, TableTypeOK
<1> QED BY <1>1, CalmInvariantHolds, PTL

\* The command implements VersionedTable: its last step is the commit, and
\* every step before it a stutter.
THEOREM CommitRefines == CalmSpec => VersionedSpec
<1>1. Init => Versioned!Init
  BY DEF Init, Versioned!Init, AskedFor
<1>2. CalmInvariant /\ CalmInvariant' /\ [CalmNext]_vars => [Versioned!Next]_(Versioned!vars)
  <2> SUFFICES ASSUME CalmInvariant, CalmInvariant', [CalmNext]_vars
               PROVE  Versioned!Next \/ UNCHANGED <<rows, head, AskedFor>>
    BY DEF Versioned!vars
  <2>1. /\ rows' \in [Pk -> Row] /\ tree \in [Pk -> File] /\ head \in [Pk -> File]
        /\ selected \in SUBSET Pk
    BY DEF CalmInvariant, SyncInvariant, TypeOK, TableTypeOK
  <2>2. CASE CalmEdit
    <3>1. UNCHANGED <<head, AskedFor>>
      BY <2>2 DEF CalmEdit, syncVars, AskedFor
    <3> QED BY <2>1, <3>1 DEF Versioned!Next, Versioned!Edit
  <2>3. CASE StartCommit
    <3>1. AskedFor = NotAsked /\ AskedFor' \in SUBSET Pk /\ UNCHANGED <<rows, head>>
      BY <2>3 DEF StartCommit, AskedFor, tableVars
    <3> QED BY <3>1 DEF Versioned!Next, Versioned!Ask
  <2>4. CASE GitCommit
    <3>1. /\ AskedFor # NotAsked /\ AskedFor' = NotAsked /\ rows' = rows /\ head' = tree
      BY <2>1, <2>4, NotAskedAssumption DEF GitCommit, Exit, AskedFor, tableVars
    <3>2. ASSUME NEW p \in Pk
          PROVE  tree[p] = IF p \in AskedFor THEN rows[p] ELSE head[p]
      <4>1. p \in AskedFor <=> Chosen(p)
        BY <2>4 DEF GitCommit, AskedFor, Chosen, CommitsWholeDataset
      <4> QED BY <4>1, <2>4
              DEF CalmInvariant, SyncInvariant, ClearedIsWritten, LeftBehind, GitCommit
    <3>3. head' = [p \in Pk |-> IF p \in AskedFor THEN rows[p] ELSE head[p]]
      BY <3>1, <3>2, <2>1
    <3> QED BY <3>1, <3>3 DEF Versioned!Next, Versioned!Commit
  <2>5. CASE Sync
    <3>1. pc # "idle" /\ pc' # "idle" /\ UNCHANGED <<rows, head, whole, selected>>
      BY <2>5 DEF Sync, GetChanges, ReadRow, ReadOld, Retain, TruncateFile, FillFile,
                  RemoveFile, FilesDone, ClearTrackingLog, ClearTrackingOld,
                  ClearFeatureLog, ClearFeatureOld, tableVars
    <3> QED BY <3>1 DEF AskedFor
  <2>6. CASE UNCHANGED vars
    BY <2>6 DEF vars, tableVars, syncVars, AskedFor
  <2> QED BY <2>2, <2>3, <2>4, <2>5, <2>6 DEF CalmNext, Command
<1> QED BY <1>1, <1>2, CalmInvariantHolds, PTL DEF CalmSpec, VersionedSpec, Versioned!Spec

-----------------------------------------------------------------------------
(* That a command ends: it can always go on, and each step leaves it less. *)

\* The smallest initial interval is that of the least number.
LEMMA LeastNumber ==
    ASSUME NEW n \in Nat, NEW T, T \subseteq 1 .. n, T # {}
    PROVE  \E x \in T : \A y \in T : x <= y
<1> DEFINE M == {1 .. x : x \in T}
<1>1. IsFiniteSet(1 .. n) /\ \A x \in T : x \in Nat
  BY FS_Interval
<1>2. M \subseteq FiniteSubsetsOf(1 .. n) /\ M # {}
  <2>1. \A x \in T : 1 .. x \subseteq 1 .. n
    BY <1>1
  <2>2. \A x \in T : IsFiniteSet(1 .. x)
    BY <1>1, FS_Interval
  <2>3. \A m \in M : m \in FiniteSubsetsOf(1 .. n)
    BY <2>1, <2>2 DEF FiniteSubsetsOf
  <2> QED BY <2>3
<1>3. \E m \in M : \A k \in M : <<k, m>> \notin StrictSubsetOrdering(1 .. n)
  <2>1. IsWellFoundedOn(StrictSubsetOrdering(1 .. n), FiniteSubsetsOf(1 .. n))
    BY FS_StrictSubsetOrderingWellFounded
  <2> HIDE DEF M
  <2> QED BY <1>2, <2>1, WFMin
<1>4. PICK x \in T : \A y \in T : <<1 .. y, 1 .. x>> \notin StrictSubsetOrdering(1 .. n)
  BY <1>3
<1>5. ASSUME NEW y \in T, y < x
      PROVE  FALSE
  <2>1. 1 .. y \subseteq 1 .. x /\ 1 .. x \subseteq 1 .. n /\ x \in 1 .. x /\ x \notin 1 .. y
    BY <1>1, <1>5
  <2>2. 1 .. y # 1 .. x
    BY <2>1
  <2> QED BY <1>4, <2>1, <2>2 DEF StrictSubsetOrdering
<1> QED BY <1>1, <1>5

\* Entries, or deltas, are in an order that has a first one, and are finitely many.
LEMMA OrderedByRowid ==
    ASSUME NEW S, \A e \in S : e.id \in 1 .. MaxRowid,
           \A e, f \in S : e.id = f.id => e = f
    PROVE  /\ IsFiniteSet(S)
           /\ S # {} => \E e \in S : First(e, S)
<1>1. IsFiniteSet(S)
  <2> DEFINE id == [e \in S |-> e.id]
  <2>1. id \in Injection(S, 1 .. MaxRowid)
    BY DEF Injection, IsInjective
  <2>2. IsFiniteSet(1 .. MaxRowid)
    BY FS_Interval, MaxRowidAssumption
  <2> HIDE DEF id
  <2> QED BY <2>1, <2>2, FS_Injection
<1>2. ASSUME S # {}
      PROVE  \E e \in S : First(e, S)
  <2> DEFINE ids == {e.id : e \in S}
  <2>1. ids \subseteq 1 .. MaxRowid /\ ids # {}
    BY <1>2
  <2>2. PICK x \in ids : \A y \in ids : x <= y
    <3> HIDE DEF ids
    <3> QED BY <2>1, LeastNumber, MaxRowidAssumption
  <2>3. PICK e \in S : e.id = x
    OBVIOUS
  <2> QED BY <2>2, <2>3 DEF First
<1> QED BY <1>1, <1>2

\* What a command has before it has something in it.
PassHasWork ==
    /\ pc = "fill" => todo # {}
    /\ pc \in {"file", "fill", "clear log of", "clear old of"} => deltas # {}

\* The statement the command is at has the entry or delta it needs, and no key it panics on.
CommitCanGoOn ==
    pc # "idle" =>
        \/ pc \in {"log", "retain", "clear log", "clear old", "git"}
        \/ pc \in {"row", "old"} /\ \E e \in changes : First(e, changes)
        \/ pc = "file" /\ (todo = {} \/ \E d \in todo : First(d, todo) /\ ~d.text)
        \/ pc = "fill" /\ \E d \in todo : First(d, todo)
        \/ pc \in {"clear log of", "clear old of"} /\ \E d \in deltas : First(d, deltas)

\* What the command has still to do: each entry becomes a delta, each delta a file to
\* write and a key to clear.
Left ==
    CASE pc = "log"          -> 6 * Cardinality(track) + 10
      [] pc = "row"          -> 6 * Cardinality(changes) + 4 * Cardinality(deltas) + 9
      [] pc = "old"          -> 6 * Cardinality(changes) + 4 * Cardinality(deltas) + 8
      [] pc = "retain"       -> 4 * Cardinality(deltas) + 6
      [] pc = "file"         -> 2 * Cardinality(todo) + 2 * Cardinality(deltas) + 5
      [] pc = "fill"         -> 2 * Cardinality(todo) + 2 * Cardinality(deltas) + 4
      [] pc = "clear log of" -> 2 * Cardinality(deltas) + 4
      [] pc = "clear old of" -> 2 * Cardinality(deltas) + 3
      [] pc = "clear log"    -> 3
      [] pc = "clear old"    -> 2
      [] pc = "git"          -> 1
      [] pc = "idle"         -> 0

LEMMA LogIsOrdered ==
    ASSUME SyncInvariant
    PROVE  /\ IsFiniteSet(track) /\ IsFiniteSet(changes) /\ IsFiniteSet(deltas) /\ IsFiniteSet(todo)
           /\ changes # {} => \E e \in changes : First(e, changes)
           /\ deltas # {} => \E d \in deltas : First(d, deltas)
           /\ todo # {} => \E d \in todo : First(d, todo)
<1>1. /\ track \subseteq Entry /\ changes \subseteq track
      /\ deltas \subseteq Delta /\ todo \subseteq deltas
      /\ \A e, f \in track : e.id = f.id => e = f
      /\ \A d, f \in deltas : d.id = f.id => d = f
  BY DEF SyncInvariant, TypeOK, TableTypeOK, PassOverLog, DeltasTellRows, TodoReachesRows,
         LogTellsPresence
<1>2. /\ \A e \in track : e.id \in 1 .. MaxRowid
      /\ \A d \in deltas : d.id \in 1 .. MaxRowid
  BY <1>1 DEF Entry, Delta
<1>3. IsFiniteSet(track)
  BY <1>1, <1>2, OrderedByRowid
<1>4. IsFiniteSet(changes) /\ (changes # {} => \E e \in changes : First(e, changes))
  BY <1>1, <1>2, OrderedByRowid
<1>5. IsFiniteSet(deltas) /\ (deltas # {} => \E d \in deltas : First(d, deltas))
  BY <1>1, <1>2, OrderedByRowid
<1>6. IsFiniteSet(todo) /\ (todo # {} => \E d \in todo : First(d, todo))
  BY <1>1, <1>2, OrderedByRowid
<1> QED BY <1>3, <1>4, <1>5, <1>6

LEMMA PassHasWorkPreserved ==
    ASSUME SyncInvariant, PassHasWork, [FaultyNext]_vars
    PROVE  PassHasWork'
<1>1. CASE StartCommit BY <1>1 DEF StartCommit, PassHasWork
<1>2. CASE GetChanges BY <1>2 DEF GetChanges, PassHasWork
<1>3. CASE ReadRow BY <1>3 DEF ReadRow, PassHasWork
<1>4. CASE ReadOld BY <1>4 DEF ReadOld, PassHasWork
<1>5. CASE Retain BY <1>5 DEF Retain, PassHasWork
<1>6. CASE TruncateFile BY <1>6 DEF TruncateFile, PassHasWork
<1>7. CASE FillFile BY <1>7 DEF FillFile, PassHasWork
<1>8. CASE RemoveFile \/ KeepFile BY <1>8 DEF RemoveFile, KeepFile, PassHasWork
<1>9. CASE FilesDone BY <1>9 DEF FilesDone, PassHasWork
<1>10. CASE ClearTrackingLog \/ ClearTrackingOld
  BY <1>10 DEF ClearTrackingLog, ClearTrackingOld, PassHasWork
<1>11. CASE ClearFeatureLog BY <1>11 DEF ClearFeatureLog, PassHasWork
<1>12. CASE ClearFeatureOld BY <1>12 DEF ClearFeatureOld, PassHasWork
<1>13. CASE GitCommit \/ GitCommitFails \/ Crash
  BY <1>13 DEF GitCommit, GitCommitFails, Crash, Exit, PassHasWork
<1>14. CASE CalmEdit BY <1>14 DEF CalmEdit, syncVars, PassHasWork
<1>15. CASE UNCHANGED vars BY <1>15 DEF vars, syncVars, PassHasWork
<1> QED
  BY <1>1, <1>2, <1>3, <1>4, <1>5, <1>6, <1>7, <1>8, <1>9, <1>10, <1>11, <1>12, <1>13, <1>14, <1>15
     DEF FaultyNext, CalmNext, Command, Sync

LEMMA PassAlwaysHasWork == FaultySpec => [](SyncInvariant /\ PassHasWork)
<1>1. Init => SyncInvariant /\ PassHasWork
  BY SyncInvariantInitially DEF Init, PassHasWork
<1>2. SyncInvariant /\ PassHasWork /\ [FaultyNext]_vars => (SyncInvariant /\ PassHasWork)'
  BY SyncInvariantPreserved, PassHasWorkPreserved
<1> QED BY <1>1, <1>2, PTL DEF FaultySpec

\* A command that runs is never stuck, nor is one that runs after a crash or a refused commit.
THEOREM CommitNeverStalls == FaultySpec => []CommitCanGoOn
<1>1. SyncInvariant /\ PassHasWork => CommitCanGoOn
  <2> SUFFICES ASSUME SyncInvariant, PassHasWork PROVE CommitCanGoOn
    OBVIOUS
  <2>1. pc \in Steps /\ \A d \in todo : ~d.text
    BY DEF SyncInvariant, TypeOK, DeltasTellRows, TodoReachesRows
  <2>2. pc \in {"row", "old"} => changes # {}
    BY DEF SyncInvariant, PassOverLog
  <2> QED BY <2>1, <2>2, LogIsOrdered DEF PassHasWork, CommitCanGoOn, Steps
<1> QED BY <1>1, PassAlwaysHasWork, PTL

LEMMA LeftAt ==
    /\ pc = "log" => Left = 6 * Cardinality(track) + 10
    /\ pc = "row" => Left = 6 * Cardinality(changes) + 4 * Cardinality(deltas) + 9
    /\ pc = "old" => Left = 6 * Cardinality(changes) + 4 * Cardinality(deltas) + 8
    /\ pc = "retain" => Left = 4 * Cardinality(deltas) + 6
    /\ pc = "file" => Left = 2 * Cardinality(todo) + 2 * Cardinality(deltas) + 5
    /\ pc = "fill" => Left = 2 * Cardinality(todo) + 2 * Cardinality(deltas) + 4
    /\ pc = "clear log of" => Left = 2 * Cardinality(deltas) + 4
    /\ pc = "clear old of" => Left = 2 * Cardinality(deltas) + 3
    /\ pc = "clear log" => Left = 3
    /\ pc = "clear old" => Left = 2
    /\ pc = "git" => Left = 1
    /\ pc = "idle" => Left = 0
BY DEF Left

LEMMA LeftAtNext ==
    /\ pc' = "log" => Left' = 6 * Cardinality(track') + 10
    /\ pc' = "row" => Left' = 6 * Cardinality(changes') + 4 * Cardinality(deltas') + 9
    /\ pc' = "old" => Left' = 6 * Cardinality(changes') + 4 * Cardinality(deltas') + 8
    /\ pc' = "retain" => Left' = 4 * Cardinality(deltas') + 6
    /\ pc' = "file" => Left' = 2 * Cardinality(todo') + 2 * Cardinality(deltas') + 5
    /\ pc' = "fill" => Left' = 2 * Cardinality(todo') + 2 * Cardinality(deltas') + 4
    /\ pc' = "clear log of" => Left' = 2 * Cardinality(deltas') + 4
    /\ pc' = "clear old of" => Left' = 2 * Cardinality(deltas') + 3
    /\ pc' = "clear log" => Left' = 3
    /\ pc' = "clear old" => Left' = 2
    /\ pc' = "git" => Left' = 1
    /\ pc' = "idle" => Left' = 0
BY DEF Left

LEMMA LeftIsNatural ==
    SyncInvariant =>
        /\ Cardinality(track) \in Nat /\ Cardinality(changes) \in Nat
        /\ Cardinality(deltas) \in Nat /\ Cardinality(todo) \in Nat
        /\ Left \in Nat
        /\ pc # "idle" => Left > 0
<1> SUFFICES ASSUME SyncInvariant
             PROVE  /\ Cardinality(track) \in Nat /\ Cardinality(changes) \in Nat
                    /\ Cardinality(deltas) \in Nat /\ Cardinality(todo) \in Nat
                    /\ Left \in Nat
                    /\ pc # "idle" => Left > 0
  OBVIOUS
<1>1. /\ Cardinality(track) \in Nat /\ Cardinality(changes) \in Nat
      /\ Cardinality(deltas) \in Nat /\ Cardinality(todo) \in Nat
  BY LogIsOrdered, FS_CardinalityType
<1>2. pc \in Steps
  BY DEF SyncInvariant, TypeOK
<1>3. /\ 6 * Cardinality(track) + 10 \in Nat \ {0}
      /\ 6 * Cardinality(changes) + 4 * Cardinality(deltas) + 9 \in Nat \ {0}
      /\ 6 * Cardinality(changes) + 4 * Cardinality(deltas) + 8 \in Nat \ {0}
      /\ 4 * Cardinality(deltas) + 6 \in Nat \ {0}
      /\ 2 * Cardinality(todo) + 2 * Cardinality(deltas) + 5 \in Nat \ {0}
      /\ 2 * Cardinality(todo) + 2 * Cardinality(deltas) + 4 \in Nat \ {0}
      /\ 2 * Cardinality(deltas) + 4 \in Nat \ {0} /\ 2 * Cardinality(deltas) + 3 \in Nat \ {0}
      /\ 1 \in Nat \ {0} /\ 2 \in Nat \ {0} /\ 3 \in Nat \ {0}
  BY <1>1
<1>4. ASSUME pc # "idle"
      PROVE  Left \in Nat \ {0}
  <2>1. CASE pc = "log" BY <1>3, <2>1, LeftAt, Zenon
  <2>2. CASE pc = "row" BY <1>3, <2>2, LeftAt, Zenon
  <2>3. CASE pc = "old" BY <1>3, <2>3, LeftAt, Zenon
  <2>4. CASE pc = "retain" BY <1>3, <2>4, LeftAt, Zenon
  <2>5. CASE pc = "file" BY <1>3, <2>5, LeftAt, Zenon
  <2>6. CASE pc = "fill" BY <1>3, <2>6, LeftAt, Zenon
  <2>7. CASE pc = "clear log of" BY <1>3, <2>7, LeftAt, Zenon
  <2>8. CASE pc = "clear old of" BY <1>3, <2>8, LeftAt, Zenon
  <2>9. CASE pc = "clear log" BY <1>3, <2>9, LeftAt, Zenon
  <2>10. CASE pc = "clear old" BY <1>3, <2>10, LeftAt, Zenon
  <2>11. CASE pc = "git" BY <1>3, <2>11, LeftAt, Zenon
  <2> QED BY <1>2, <1>4, <2>1, <2>2, <2>3, <2>4, <2>5, <2>6, <2>7, <2>8, <2>9, <2>10, <2>11 DEF Steps
<1>5. CASE pc = "idle"
  <2>1. Left = 0
    BY <1>5, LeftAt, Zenon
  <2> QED BY <1>1, <1>5, <2>1
<1> QED
  <2>1. CASE pc # "idle"
    <3>1. Left \in Nat \ {0}
      BY <1>4, <2>1
    <3> QED BY <1>1, <2>1, <3>1
  <2> QED BY <1>5, <2>1

LEMMA LeftGetsLess ==
    ASSUME SyncInvariant, SyncInvariant', PassHasWork, FaultyNext, pc # "idle"
    PROVE  Left' < Left
<1>1. /\ Cardinality(track) \in Nat /\ Cardinality(changes) \in Nat
      /\ Cardinality(deltas) \in Nat /\ Cardinality(todo) \in Nat
      /\ Left > 0
  BY LeftIsNatural
<1>2. (/\ Cardinality(changes) \in Nat /\ Cardinality(deltas) \in Nat
       /\ Cardinality(todo) \in Nat)'
  BY LeftIsNatural, PTL
<1>3. IsFiniteSet(changes) /\ IsFiniteSet(deltas) /\ IsFiniteSet(todo)
  BY LogIsOrdered
<1>4. /\ \A e \in changes : Cardinality(changes \ {e}) = Cardinality(changes) - 1
      /\ \A d \in deltas : Cardinality(deltas \ {d}) = Cardinality(deltas) - 1
      /\ \A d \in todo : Cardinality(todo \ {d}) = Cardinality(todo) - 1
  BY <1>3, FS_RemoveElement
<1>5. CASE GetChanges
  <2>1. /\ pc = "log" /\ pc' \in {"git", "row"} /\ Cardinality(changes') = Cardinality(track)
        /\ Cardinality(deltas') = 0
    BY <1>5, FS_EmptySet DEF GetChanges, SyncInvariant, DeltasTellRows
  <2>2. CASE pc' = "git"
    <3>1. Left = 6 * Cardinality(track) + 10 /\ Left' = 1
      BY <2>1, <2>2, LeftAt, LeftAtNext, Zenon
    <3> QED BY <1>1, <3>1
  <2>3. CASE pc' = "row"
    <3>1. Left = 6 * Cardinality(track) + 10 /\ Left' = 6 * Cardinality(changes') + 4 * Cardinality(deltas') + 9
      BY <2>1, <2>3, LeftAt, LeftAtNext, Zenon
    <3> QED BY <1>1, <2>1, <3>1
  <2> QED BY <2>1, <2>2, <2>3
<1>6. CASE ReadRow
  <2>1. pc = "row" /\ pc' = "old" /\ changes' = changes /\ deltas' = deltas
    BY <1>6 DEF ReadRow
  <2>2. Left = 6 * Cardinality(changes) + 4 * Cardinality(deltas) + 9 /\ Left' = 6 * Cardinality(changes') + 4 * Cardinality(deltas') + 8
    BY <2>1, LeftAt, LeftAtNext, Zenon
  <2> QED BY <1>1, <2>1, <2>2
<1>7. CASE ReadOld
  <2>1. PICK e \in changes :
          /\ changes' = changes \ {e}
          /\ deltas' = deltas \cup {DeltaOf(e, seen, old[e.pk])}
    BY <1>7 DEF ReadOld, First
  <2>2. Cardinality(changes') = Cardinality(changes) - 1
    BY <1>4, <2>1
  <2>3. Cardinality(deltas') <= Cardinality(deltas) + 1
    <3>1. \/ Cardinality(deltas') = Cardinality(deltas)
          \/ Cardinality(deltas') = Cardinality(deltas) + 1
      BY <1>3, <2>1, FS_AddElement
    <3> QED BY <1>1, <3>1
  <2>4. pc = "old" /\ pc' \in {"row", "retain"}
    BY <1>7 DEF ReadOld
  <2>5. CASE pc' = "row"
    <3>1. Left = 6 * Cardinality(changes) + 4 * Cardinality(deltas) + 8 /\ Left' = 6 * Cardinality(changes') + 4 * Cardinality(deltas') + 9
      BY <2>4, <2>5, LeftAt, LeftAtNext, Zenon
    <3> QED BY <1>1, <1>2, <2>2, <2>3, <3>1
  <2>6. CASE pc' = "retain"
    <3>1. Left = 6 * Cardinality(changes) + 4 * Cardinality(deltas) + 8 /\ Left' = 4 * Cardinality(deltas') + 6
      BY <2>4, <2>6, LeftAt, LeftAtNext, Zenon
    <3> QED BY <1>1, <1>2, <2>2, <2>3, <3>1
  <2> QED BY <2>4, <2>5, <2>6
<1>8. CASE Retain
  <2>1. /\ pc = "retain" /\ pc' \in {"git", "file"} /\ todo' = deltas' /\ deltas' \subseteq deltas
    BY <1>8 DEF Retain
  <2>2. Cardinality(deltas') <= Cardinality(deltas)
    BY <1>3, <2>1, FS_Subset
  <2>3. CASE pc' = "git"
    <3>1. Left = 4 * Cardinality(deltas) + 6 /\ Left' = 1
      BY <2>1, <2>3, LeftAt, LeftAtNext, Zenon
    <3> QED BY <1>1, <3>1
  <2>4. CASE pc' = "file"
    <3>1. Left = 4 * Cardinality(deltas) + 6 /\ Left' = 2 * Cardinality(todo') + 2 * Cardinality(deltas') + 5
      BY <2>1, <2>4, LeftAt, LeftAtNext, Zenon
    <3> QED BY <1>1, <1>2, <2>1, <2>2, <3>1
  <2> QED BY <2>1, <2>3, <2>4
<1>9. CASE TruncateFile
  <2>1. pc = "file" /\ pc' = "fill" /\ todo' = todo /\ deltas' = deltas
    BY <1>9 DEF TruncateFile
  <2>2. Left = 2 * Cardinality(todo) + 2 * Cardinality(deltas) + 5 /\ Left' = 2 * Cardinality(todo') + 2 * Cardinality(deltas') + 4
    BY <2>1, LeftAt, LeftAtNext, Zenon
  <2> QED BY <1>1, <2>1, <2>2
<1>10. CASE FillFile
  <2>1. pc = "fill" /\ pc' = "file" /\ deltas' = deltas /\ \E d \in todo : todo' = todo \ {d}
    BY <1>10 DEF FillFile, First
  <2>2. Cardinality(todo') = Cardinality(todo) - 1
    BY <1>4, <2>1
  <2>3. Left = 2 * Cardinality(todo) + 2 * Cardinality(deltas) + 4 /\ Left' = 2 * Cardinality(todo') + 2 * Cardinality(deltas') + 5
    BY <2>1, LeftAt, LeftAtNext, Zenon
  <2> QED BY <1>1, <2>1, <2>2, <2>3
<1>11. CASE RemoveFile \/ KeepFile
  <2>1. pc = "file" /\ pc' = "file" /\ deltas' = deltas /\ \E d \in todo : todo' = todo \ {d}
    BY <1>11 DEF RemoveFile, KeepFile, First
  <2>2. Cardinality(todo') = Cardinality(todo) - 1
    BY <1>4, <2>1
  <2>3. Left = 2 * Cardinality(todo) + 2 * Cardinality(deltas) + 5 /\ Left' = 2 * Cardinality(todo') + 2 * Cardinality(deltas') + 5
    BY <2>1, LeftAt, LeftAtNext, Zenon
  <2> QED BY <1>1, <2>1, <2>2, <2>3
<1>12. CASE FilesDone
  <2>1. pc = "file" /\ pc' \in {"clear log", "clear log of"} /\ deltas' = deltas
    BY <1>12 DEF FilesDone
  <2>2. CASE pc' = "clear log"
    <3>1. Left = 2 * Cardinality(todo) + 2 * Cardinality(deltas) + 5 /\ Left' = 3
      BY <2>1, <2>2, LeftAt, LeftAtNext, Zenon
    <3> QED BY <1>1, <3>1
  <2>3. CASE pc' = "clear log of"
    <3>1. Left = 2 * Cardinality(todo) + 2 * Cardinality(deltas) + 5 /\ Left' = 2 * Cardinality(deltas') + 4
      BY <2>1, <2>3, LeftAt, LeftAtNext, Zenon
    <3>2. Cardinality(deltas') = Cardinality(deltas)
      BY <2>1
    <3> QED BY <1>1, <3>1, <3>2
  <2> QED BY <2>1, <2>2, <2>3
<1>13. CASE ClearTrackingLog
  <2>1. pc = "clear log" /\ pc' = "clear old"
    BY <1>13 DEF ClearTrackingLog
  <2>2. Left = 3 /\ Left' = 2
    BY <2>1, LeftAt, LeftAtNext, Zenon
  <2> QED BY <2>2
<1>14. CASE ClearTrackingOld
  <2>1. pc = "clear old" /\ pc' = "git"
    BY <1>14 DEF ClearTrackingOld
  <2>2. Left = 2 /\ Left' = 1
    BY <2>1, LeftAt, LeftAtNext, Zenon
  <2> QED BY <2>2
<1>15. CASE ClearFeatureLog
  <2>1. pc = "clear log of" /\ pc' = "clear old of" /\ deltas' = deltas
    BY <1>15 DEF ClearFeatureLog
  <2>2. Left = 2 * Cardinality(deltas) + 4 /\ Left' = 2 * Cardinality(deltas') + 3
    BY <2>1, LeftAt, LeftAtNext, Zenon
  <2>3. Cardinality(deltas') = Cardinality(deltas)
    BY <2>1
  <2> QED BY <1>1, <2>2, <2>3
<1>16. CASE ClearFeatureOld
  <2>1. /\ pc = "clear old of" /\ pc' \in {"git", "clear log of"}
        /\ \E d \in deltas : deltas' = deltas \ {d}
    BY <1>16 DEF ClearFeatureOld, First
  <2>2. CASE pc' = "git"
    <3>1. Left = 2 * Cardinality(deltas) + 3 /\ Left' = 1
      BY <2>1, <2>2, LeftAt, LeftAtNext, Zenon
    <3> QED BY <1>1, <3>1
  <2>3. CASE pc' = "clear log of"
    <3>1. Left = 2 * Cardinality(deltas) + 3 /\ Left' = 2 * Cardinality(deltas') + 4
      BY <2>1, <2>3, LeftAt, LeftAtNext, Zenon
    <3>2. Cardinality(deltas') = Cardinality(deltas) - 1
      BY <1>4, <2>1
    <3> QED BY <1>1, <3>1, <3>2
  <2> QED BY <2>1, <2>2, <2>3
<1>17. CASE GitCommit \/ GitCommitFails \/ Crash
  <2>1. pc' = "idle"
    BY <1>17 DEF GitCommit, GitCommitFails, Crash, Exit
  <2>2. Left' = 0
    BY <2>1, LeftAtNext
  <2> QED BY <1>1, <2>2
<1> QED
  BY <1>5, <1>6, <1>7, <1>8, <1>9, <1>10, <1>11, <1>12, <1>13, <1>14, <1>15, <1>16, <1>17
     DEF FaultyNext, CalmNext, Command, Sync, StartCommit, CalmEdit

\* While a command runs each step leaves it less to do, and what it has to do is a natural
\* number: with CommitNeverStalls, why a command ends that is let go on.
THEOREM CommitGetsThere ==
    FaultySpec => [](Left \in Nat) /\ [][pc # "idle" => Left' < Left]_vars
<1>1. SyncInvariant => Left \in Nat
  BY LeftIsNatural
<1>2. /\ SyncInvariant /\ PassHasWork /\ SyncInvariant' /\ [FaultyNext]_vars
      => [pc # "idle" => Left' < Left]_vars
  BY LeftGetsLess
<1> QED BY <1>1, <1>2, PassAlwaysHasWork, PTL DEF FaultySpec

=============================================================================
