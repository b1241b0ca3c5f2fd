-------------------------- MODULE WorkingCopyProof --------------------------
(***************************************************************************)
(* Proofs about WorkingCopy: what a rebuild leaves after any crash, and    *)
(* what a table built from nothing says of the tree from then on, for any  *)
(* sets of keys and contents, any spatial filter and any bound on the log. *)
(***************************************************************************)
EXTENDS WorkingCopy, TLAPS

LEMMA VisibleType ==
    \A f \in Row : Visible(f) \in Row
BY ContentAssumption DEF Visible, Row

-----------------------------------------------------------------------------
(* Types. *)

\* A trigger appends an entry of the right type and saves a row or none.
LEMMA TriggerType ==
    ASSUME TypeOK, NEW t \in ChangeType, NEW p \in Pk, FireTrigger(t, p),
           t # "I" => rows[p] # Absent
    PROVE  /\ track' \in SUBSET Entry
           /\ old' \in [Pk -> OldRow \cup {NoOld}]
<1> USE DEF TypeOK, TableTypeOK
<1>1. CASE t \notin triggers
  BY <1>1 DEF FireTrigger
<1>2. CASE t \in triggers
  <2>1. LogChange(p, t)
    BY <1>2 DEF FireTrigger, InsertTrigger, UpdateTrigger, DeleteTrigger
  <2>2. track' \in SUBSET Entry
    BY <2>1 DEF LogChange, Entry
  <2>3. UNCHANGED old \/ (rows[p] # Absent /\ SaveOld(p, p))
    BY <1>2 DEF FireTrigger, InsertTrigger, UpdateTrigger, DeleteTrigger
  <2>4. old' \in [Pk -> OldRow \cup {NoOld}]
    <3>1. ASSUME rows[p] # Absent, SaveOld(p, p)
          PROVE  old' \in [Pk -> OldRow \cup {NoOld}]
      <4>1. [pk |-> p, content |-> rows[p]] \in OldRow
        BY <3>1 DEF OldRow, Row
      <4> QED BY <3>1, <4>1 DEF SaveOld
    <3> QED BY <2>3, <3>1
  <2> QED BY <2>2, <2>4
<1> QED BY <1>1, <1>2

\* Every step keeps the types.
LEMMA TypePreserved ==
    ASSUME TypeOK, Next
    PROVE  TypeOK'
<1> USE DEF TypeOK, TableTypeOK, Steps
<1>1. CASE MoveTree \/ Rebuild \/ Checkout \/ Crash
  BY <1>1 DEF MoveTree, Rebuild, Checkout, Crash, tableVars
<1>2. CASE RemoveFile \/ RemoveFileFails
  BY <1>2 DEF RemoveFile, RemoveFileFails, ClearLog, ClearOld, Row, tableVars
<1>3. CASE CreateTable \/ RegisterContents \/ ClearTrackingLog \/ ClearTrackingOld
  BY <1>3 DEF CreateTable, RegisterContents, ClearTrackingLog, ClearTrackingOld,
              ClearLog, ClearOld, tableVars
<1>4. CASE InsertFeatures
  <2> DEFINE keys == {p \in Pk : VisibleTree[p] # Absent}
  <2>1. rows' \in [Pk -> Row]
    BY <1>4, VisibleType DEF InsertFeatures, VisibleTree
  <2>2. track' \in SUBSET Entry
    <3>1. ASSUME LogInserts(keys)
          PROVE  track' \in SUBSET Entry
      <4>1. PICK id \in [keys -> 1..MaxRowid] :
                track' = track \cup {[id |-> id[p], pk |-> p, type |-> "I"] : p \in keys}
        BY <3>1 DEF LogInserts
      <4>2. ASSUME NEW p \in keys
            PROVE  [id |-> id[p], pk |-> p, type |-> "I"] \in Entry
        BY DEF Entry, ChangeType
      <4> QED BY <4>1, <4>2
    <3> HIDE DEF keys
    <3>2. LogInserts(keys) \/ track' = track
      BY <1>4 DEF InsertFeatures, keys
    <3> QED BY <3>1, <3>2
  <2> QED BY <1>4, <2>1, <2>2 DEF InsertFeatures
<1>5. CASE InstallTrigger
  BY <1>5 DEF InstallTrigger, tableVars, ChangeType
<1>6. CASE GisEdit
  <2>1. PICK t \in ChangeType, p \in Pk, r \in Row :
            Edit(t, p, r) /\ (t # "I" => rows[p] # Absent)
    BY <1>6 DEF GisEdit, ChangeType, Row
  <2> QED BY <2>1, TriggerType DEF Edit, stateVars
<1>7. CASE Commit
  BY <1>7 DEF Commit, ClearLog, ClearOld
<1> QED BY <1>1, <1>2, <1>3, <1>4, <1>5, <1>6, <1>7
         DEF Next, BuildStep

-----------------------------------------------------------------------------
(* The build. *)

\* Each statement of a build makes what the next one starts from; the first
\* starts from anything.
LEMMA BuildStepProgresses ==
    ASSUME TypeOK, BuildProgress \/ RemoveFile, BuildStep, ~RemoveFileFails
    PROVE  BuildProgress'
<1>0. pc # "remove" => BuildProgress
  BY DEF RemoveFile
<1> USE DEF BuildProgress
<1>1. CASE RemoveFile
  BY <1>1 DEF RemoveFile, ClearLog, ClearOld, Blank, Untouched
<1>2. CASE CreateTable
  BY <1>0, <1>2 DEF CreateTable, tableVars, Blank, Untouched
<1>3. CASE RegisterContents
  BY <1>0, <1>3 DEF RegisterContents, tableVars, Blank, Untouched
<1>4. CASE InsertFeatures
  <2>1. Blank /\ table /\ listed
    BY <1>0, <1>4 DEF InsertFeatures
  <2>2. rows' = VisibleTree
    BY <1>4, <2>1 DEF InsertFeatures, Blank, VisibleTree
  <2>3. VisibleTree' = VisibleTree
    BY <1>4 DEF InsertFeatures, VisibleTree
  <2>4. Untouched'
    BY <1>4, <2>1 DEF InsertFeatures, Blank, Untouched
  <2> QED BY <1>4, <2>1, <2>2, <2>3, <2>4 DEF InsertFeatures
<1>5. CASE InstallTrigger
  BY <1>0, <1>5 DEF InstallTrigger, tableVars, Untouched, VisibleTree, ChangeType
<1>6. CASE ClearTrackingLog
  BY <1>0, <1>6 DEF ClearTrackingLog, ClearLog, Untouched, VisibleTree
<1>7. CASE ClearTrackingOld
  BY <1>7 DEF ClearTrackingOld
<1> QED BY <1>1, <1>2, <1>3, <1>4, <1>5, <1>6, <1>7 DEF BuildStep

-----------------------------------------------------------------------------
(* A table built from nothing. *)

\* Where every trigger is installed, an edit is tracked, and the saved row it
\* leaves is the tree's.
LEMMA EditPreserves ==
    ASSUME CopyInvariant, fresh, NEW t \in ChangeType, NEW p \in Pk, NEW r \in Row,
           Edit(t, p, r), t = "I" <=> rows[p] = Absent
    PROVE  /\ UntrackedRowsAreTheTree'
           /\ SavedRowIsCheckedOut'
           /\ InsertedWhereNoneWas'
<1> USE DEF CopyInvariant, TypeOK, TableTypeOK
<1>1. /\ pc = "idle" /\ table /\ triggers = ChangeType
      /\ rows' = [rows EXCEPT ![p] = r]
      /\ UNCHANGED <<tree, pc, table, fresh>>
      /\ LogChange(p, t)
      /\ t = "I" => UNCHANGED old
      /\ t # "I" => SaveOld(p, p)
  BY DEF Edit, stateVars, FireTrigger, InsertTrigger, UpdateTrigger, DeleteTrigger
<1>2. \A q \in Pk : Tracked(q)' <=> Tracked(q) \/ q = p
  <2>1. PICK id \in 1..MaxRowid : track' = track \cup {[id |-> id, pk |-> p, type |-> t]}
    BY <1>1 DEF LogChange
  <2> DEFINE new == [id |-> id, pk |-> p, type |-> t]
  <2>2. track' = track \cup {new} /\ new.pk = p
    BY <2>1
  <2> HIDE DEF new
  <2>3. ASSUME NEW q \in Pk
        PROVE  (\E e \in track' : e.pk = q) <=> (\E e \in track : e.pk = q) \/ q = p
    BY <2>2
  <2> QED BY <2>3 DEF Tracked
<1>3. UntrackedRowsAreTheTree'
  <2> SUFFICES ASSUME NEW q \in Pk, ~Tracked(q)'
               PROVE  rows'[q] \in {tree'[q], Visible(tree'[q])}
    BY DEF UntrackedRowsAreTheTree
  <2>1. q # p /\ ~Tracked(q)
    BY <1>2
  <2> QED BY <2>1, <1>1 DEF UntrackedRowsAreTheTree, Visible
<1>4. \A q \in Pk : tree'[q] = tree[q] /\ Visible(tree'[q]) = Visible(tree[q])
  BY <1>1 DEF Visible
<1>5. old \in [Pk -> OldRow \cup {NoOld}]
  OBVIOUS
<1>6. CASE t = "I"
  <2>1. SavedRowIsCheckedOut'
    BY <1>1, <1>4, <1>6 DEF SavedRowIsCheckedOut
  <2>2. ASSUME NEW q \in Pk, Tracked(q)', old'[q] = NoOld
        PROVE  Visible(tree'[q]) = Absent
    <3>1. CASE Tracked(q)
      BY <3>1, <2>2, <1>1, <1>4, <1>6 DEF InsertedWhereNoneWas
    <3>2. CASE ~Tracked(q)
      <4>1. q = p /\ rows[q] = Absent
        BY <3>2, <2>2, <1>2, <1>6
      <4>2. Absent \in {tree[q], Visible(tree[q])}
        BY <3>2, <4>1, <1>1 DEF UntrackedRowsAreTheTree
      <4> QED BY <4>2, <1>4, HiddenAssumption, ContentAssumption DEF Visible
    <3> QED BY <3>1, <3>2
  <2> QED BY <1>3, <2>1, <2>2 DEF InsertedWhereNoneWas
<1>7. CASE t # "I"
  <2> DEFINE saved == [pk |-> p, content |-> rows[p]]
  <2>1. saved # NoOld /\ saved.content = rows[p]
    BY <1>7, NoOldAssumption DEF Row
  <2> HIDE DEF saved
  <2>2. old' = IF old[p] = NoOld THEN [old EXCEPT ![p] = saved] ELSE old
    BY <1>1, <1>7 DEF SaveOld, saved
  <2>3. old'[p] # NoOld /\ \A q \in Pk : q # p => old'[q] = old[q]
    BY <2>1, <2>2, <1>5
  <2>4. ASSUME old[p] = NoOld, Visible(tree[p]) # Absent
        PROVE  rows[p] = tree[p]
    <3>1. ~Tracked(p)
      BY <2>4, <1>1 DEF InsertedWhereNoneWas
    <3>2. rows[p] \in {tree[p], Visible(tree[p])}
      BY <3>1, <1>1 DEF UntrackedRowsAreTheTree
    <3> QED BY <3>2, <2>4 DEF Visible
  <2>5. SavedRowIsCheckedOut'
    <3> SUFFICES ASSUME NEW q \in Pk, old'[q] # NoOld, Visible(tree[q]) # Absent
                 PROVE  old'[q].content = tree[q]
      BY <1>4 DEF SavedRowIsCheckedOut
    <3>1. CASE q = p /\ old[p] = NoOld
      BY <3>1, <2>1, <2>2, <2>4, <1>5
    <3>2. CASE q # p \/ old[p] # NoOld
      <4>1. old'[q] = old[q]
        BY <3>2, <2>2, <2>3
      <4> QED BY <4>1, <1>1 DEF SavedRowIsCheckedOut
    <3> QED BY <3>1, <3>2
  <2>6. InsertedWhereNoneWas'
    BY <2>3, <1>1, <1>2, <1>4 DEF InsertedWhereNoneWas
  <2> QED BY <1>3, <2>5, <2>6
<1> QED BY <1>6, <1>7

LEMMA CopyInvariantInductive ==
    ASSUME CopyInvariant, [Next]_vars
    PROVE  CopyInvariant'
<1>1. CASE Next
  <2>1. TypeOK'
    BY <1>1, TypePreserved DEF CopyInvariant
  <2>2. CASE MoveTree \/ Rebuild
    BY <2>1, <2>2 DEF MoveTree, Rebuild, CopyInvariant, BuildProgress,
                      UntrackedRowsAreTheTree, SavedRowIsCheckedOut
  <2>3. CASE Checkout
    BY <2>1, <2>3 DEF Checkout, tableVars, CopyInvariant, BuildProgress, Blank, Untouched,
                      UntrackedRowsAreTheTree, SavedRowIsCheckedOut
  <2>4. CASE Crash
    BY <2>1, <2>4 DEF Crash, CopyInvariant, UntrackedRowsAreTheTree, SavedRowIsCheckedOut
  <2>5. CASE BuildStep
    <3>1. fresh' => BuildProgress'
      <4>1. fresh' => ~RemoveFileFails /\ (RemoveFile \/ fresh)
        BY <2>5 DEF BuildStep, RemoveFileFails, CreateTable, RegisterContents, InsertFeatures,
                    InstallTrigger, ClearTrackingLog, ClearTrackingOld
      <4> QED BY <2>5, <4>1, BuildStepProgresses DEF CopyInvariant
    <3>2. CASE pc' # "idle"
      BY <2>1, <3>1, <3>2 DEF CopyInvariant, UntrackedRowsAreTheTree, SavedRowIsCheckedOut
    <3>3. CASE pc' = "idle" /\ ~fresh'
      BY <2>1, <3>1, <3>3 DEF CopyInvariant, UntrackedRowsAreTheTree, SavedRowIsCheckedOut
    <3>4. CASE pc' = "idle" /\ fresh'
      <4>1. ClearTrackingOld /\ fresh
        BY <2>5, <3>4 DEF BuildStep, RemoveFile, RemoveFileFails, CreateTable,
                          RegisterContents, InsertFeatures, InstallTrigger, ClearTrackingLog, ClearTrackingOld
      <4>2. /\ Untouched' /\ rows' = VisibleTree' /\ table' /\ listed'
            /\ triggers' = ChangeType
        BY <4>1 DEF ClearTrackingOld, ClearOld, CopyInvariant, BuildProgress, Untouched,
                    VisibleTree
      <4>3. \A p \in Pk : rows'[p] = Visible(tree'[p]) /\ old'[p] = NoOld /\ ~Tracked(p)'
        BY <4>2 DEF VisibleTree, Untouched, Tracked, Visible
      <4> QED BY <2>1, <3>1, <4>2, <4>3 DEF CopyInvariant, InsertedWhereNoneWas,
                  UntrackedRowsAreTheTree, SavedRowIsCheckedOut
    <3> QED BY <3>2, <3>3, <3>4
  <2>6. CASE GisEdit
    <3>1. PICK t \in ChangeType, p \in Pk, r \in Row :
              Edit(t, p, r) /\ (t = "I" <=> rows[p] = Absent)
      BY <2>6 DEF GisEdit, ChangeType, Row
    <3>2. pc = "idle" /\ table /\ pc' = pc /\ table' = table /\ listed' = listed
          /\ triggers' = triggers /\ fresh' = fresh
      BY <3>1 DEF Edit, stateVars
    <3>3. CASE fresh
      <4>1. /\ UntrackedRowsAreTheTree'
            /\ SavedRowIsCheckedOut'
            /\ InsertedWhereNoneWas'
        BY <3>1, <3>3, EditPreserves
      <4> QED BY <2>1, <3>2, <4>1 DEF CopyInvariant, BuildProgress
    <3>4. CASE ~fresh
      BY <2>1, <3>2, <3>4 DEF CopyInvariant, UntrackedRowsAreTheTree, SavedRowIsCheckedOut
    <3> QED BY <3>3, <3>4
  <2>7. CASE Commit
    <3>1. /\ pc' = "idle" /\ pc = "idle" /\ listed /\ listed' /\ table' = table
          /\ triggers' = triggers /\ rows' = rows /\ fresh' = fresh
          /\ tree' = [p \in Pk |-> IF Tracked(p) THEN rows[p] ELSE tree[p]]
      BY <2>7 DEF Commit
    <3>2. \A p \in Pk : old'[p] = NoOld /\ ~Tracked(p)'
      BY <2>7 DEF Commit, ClearLog, ClearOld, Tracked
    <3>3. ASSUME fresh, NEW p \in Pk
          PROVE  rows'[p] \in {tree'[p], Visible(tree'[p])}
      BY <3>1, <3>3 DEF CopyInvariant, UntrackedRowsAreTheTree, Visible
    <3> QED BY <2>1, <3>1, <3>2, <3>3 DEF CopyInvariant, BuildProgress,
                UntrackedRowsAreTheTree, SavedRowIsCheckedOut, InsertedWhereNoneWas
  <2> QED BY <1>1, <2>2, <2>3, <2>4, <2>5, <2>6, <2>7 DEF Next
<1>2. CASE UNCHANGED vars
  BY <1>2 DEF vars, stateVars, tableVars, CopyInvariant, TypeOK, TableTypeOK,
              BuildProgress, Blank, Untouched, VisibleTree, Visible, Tracked,
              InsertedWhereNoneWas, UntrackedRowsAreTheTree, SavedRowIsCheckedOut
<1> QED BY <1>1, <1>2

\* However a working copy is built, rebuilt, edited and committed, and whatever
\* dies on the way: what is built, tracked and saved fits together.
THEOREM CopyInvariantHolds == Spec => []CopyInvariant
<1>1. Init => CopyInvariant
  BY DEF Init, CopyInvariant, TypeOK, TableTypeOK, Row, Steps, BuildProgress, Blank,
         Untouched, Tracked, InsertedWhereNoneWas, UntrackedRowsAreTheTree,
         SavedRowIsCheckedOut
<1> QED BY <1>1, CopyInvariantInductive, PTL DEF Spec

\* A build on an empty file that reaches its end leaves exactly the visible tree,
\* untracked and with every trigger, whatever crashes came before.
THEOREM RebuildAlwaysFresh == Spec => []RebuildIsFresh
<1>1. CopyInvariant => RebuildIsFresh
  BY DEF CopyInvariant, RebuildIsFresh, BuildProgress, Untouched
<1> QED BY <1>1, CopyInvariantHolds, PTL

\* A row the tracking does not name is the tree's feature: commit writes all the rest.
THEOREM UntrackedIsTheTree == Spec => []UntrackedRowsAreTheTree
<1>1. CopyInvariant => UntrackedRowsAreTheTree
  BY DEF CopyInvariant
<1> QED BY <1>1, CopyInvariantHolds, PTL

\* The saved row is the one checked out, however often the row was edited since.
THEOREM SavedIsCheckedOut == Spec => []SavedRowIsCheckedOut
<1>1. CopyInvariant => SavedRowIsCheckedOut
  BY DEF CopyInvariant
<1> QED BY <1>1, CopyInvariantHolds, PTL

=============================================================================
