-------------------------- MODULE RepositoryProof --------------------------
(***************************************************************************)
(* The working copy in use is of the worktree and of the branch, through   *)
(* any sequence of commands.  Every command that moves the worktree either *)
(* ends with the same rebuild, of the file the moved configuration names,  *)
(* or leaves the copy behind; a commit, whole or broken off, moves the     *)
(* rows' features and the worktree together, and every other command moves *)
(* neither.                                                                *)
(***************************************************************************)
EXTENDS Repository, TLAPS

\* A configuration that is no conflict names a place.
LEMMA PlaceOfTree ==
  ASSUME NEW t \in Tree, Readable(t)
  PROVE  WcPath(t) \in Path
  BY PlaceAssumption, ConfigAssumption, MissingAssumption
  DEF Tree, Readable, WcPath, File, Contents, Path

\* What a command loads of a tree is rows: the features, or none where a filter hides them.
LEMMA ViewsAreRows ==
  ASSUME NEW t \in Tree, NEW shown \in Views(t)
  PROVE  /\ shown \in Rows
         /\ \A f \in Feature : shown[f] = t[f] \/ (shown[f] = Missing /\ t[f] \in UNION Filter)
<1>1. \A x \in Feature : t[x] \in Row
  BY ConfigAssumption DEF Tree, File, Contents
<1>2. PICK filter \in Filter :
        shown = [f \in Feature |-> IF t[f] \in filter THEN Missing ELSE t[f]]
  BY DEF Views, Shown
<1> QED
  BY <1>1, <1>2 DEF Rows, Row

\* Checking datasets out into a copy makes a copy, and all of them one that tracks nothing.
LEMMA IntoIsCopy ==
  ASSUME NEW old \in Copy, NEW shown \in Rows, NEW b \in Branch, NEW done \in SUBSET Feature
  PROVE  /\ Into(old, shown, b, done) \in Copy
         /\ done = Feature => /\ Into(old, shown, b, done).from = shown
                              /\ Into(old, shown, b, done).edited = {}
                              /\ Into(old, shown, b, done).on = b
<1> DEFINE rows == [f \in Feature |-> IF f \in done /\ shown[f] # Missing THEN shown[f]
                                       ELSE old.rows[f]]
           from == [f \in Feature |-> IF f \in done THEN shown[f] ELSE old.from[f]]
<1>1. rows \in Rows /\ from \in Rows
  BY DEF Copy, Rows
<1>2. old.edited \in SUBSET Feature /\ old.on \in Branch
  BY DEF Copy
<1>3. done = Feature => from = shown
  BY DEF Rows
<1> HIDE DEF rows, from
<1>4. Into(old, shown, b, done) =
        [rows |-> rows, from |-> from, edited |-> old.edited \ done,
         on |-> IF old.edited \subseteq done THEN b ELSE old.on]
  BY DEF Into, rows, from
<1> QED
  BY <1>1, <1>2, <1>3, <1>4 DEF Copy

LEMMA BlankIsCopy ==
  ASSUME NEW b \in Branch
  PROVE  Blank(b) \in Copy
  BY DEF Blank, Empty, Copy, Rows, Row

\* What is in use, if anything is, is a copy.
LEMMA InUseIsCopy ==
  ASSUME TypeOK, Readable(worktree), InUse # None
  PROVE  InUse \in Copy
  BY PlaceOfTree DEF TypeOK, InUse

\* A rebuild of the file in use puts it in step, or leaves it behind.
LEMMA RebuildInStep ==
  ASSUME copies \in [Path -> Copy \cup {None}], worktree' \in Tree, branch' \in Branch,
         Readable(worktree'), Rebuild(WcPath(worktree'))
  PROVE  /\ copies' \in [Path -> Copy \cup {None}]
         /\ behind' \in {"no", "midway", "kept"}
         /\ RowsAreOfTheWorktree'
         /\ EditsStayOnTheirBranch'
<1> DEFINE at == WcPath(worktree')
<1>1. at \in Path
  BY PlaceOfTree
<1>2. InUse' = copies'[at]
  BY DEF InUse, WcPath
<1>3. CASE copies' = [copies EXCEPT ![at] = None] /\ behind' = "no"
  BY <1>1, <1>2, <1>3 DEF RowsAreOfTheWorktree, EditsStayOnTheirBranch
<1>4. ASSUME NEW done \in SUBSET Feature, NEW shown \in Views(worktree'),
             NEW old \in {Blank(branch'), copies[at]} \ {None},
             copies' = [copies EXCEPT ![at] = Into(old, shown, branch', done)],
             behind' = IF done # Feature THEN "midway"
                       ELSE IF Kept(Into(old, shown, branch', done)) THEN "kept" ELSE "no"
      PROVE  /\ copies' \in [Path -> Copy \cup {None}]
             /\ behind' \in {"no", "midway", "kept"}
             /\ RowsAreOfTheWorktree'
             /\ EditsStayOnTheirBranch'
  <2> DEFINE new == Into(old, shown, branch', done)
  <2>1. shown \in Rows /\ \A f \in Feature :
            shown[f] = worktree'[f] \/ (shown[f] = Missing /\ worktree'[f] \in UNION Filter)
    BY ViewsAreRows
  <2>2. old \in Copy
    BY <1>1, BlankIsCopy
  <2>3. new \in Copy /\ (done = Feature => new.from = shown /\ new.edited = {} /\ new.on = branch')
    BY <2>1, <2>2, IntoIsCopy
  <2>4. copies' = [copies EXCEPT ![at] = new]
        /\ behind' = IF done # Feature THEN "midway" ELSE IF Kept(new) THEN "kept" ELSE "no"
    BY <1>4
  <2> HIDE DEF new
  <2>5. InUse' = new
    BY <1>1, <1>2, <2>4
  <2>6. RowsAreOfTheWorktree' /\ EditsStayOnTheirBranch'
    <3> SUFFICES ASSUME behind' = "no"
                 PROVE  RowsAreOfTheWorktree' /\ EditsStayOnTheirBranch'
      BY DEF RowsAreOfTheWorktree, EditsStayOnTheirBranch
    <3>1. new.from = shown /\ new.edited = {} /\ new.on = branch' /\ new.rows = new.from
      BY <2>3, <2>4 DEF Kept
    <3> QED
      BY <2>1, <2>5, <3>1 DEF RowsAreOfTheWorktree, EditsStayOnTheirBranch, Hidden
  <2> QED
    BY <2>3, <2>4, <2>6
<1> QED
  BY <1>1, <1>3, <1>4 DEF Rebuild

\* What a command that moves the worktree ends with puts the working copy in step, or
\* leaves it behind.
LEMMA RefreshKeeps ==
  ASSUME copies \in [Path -> Copy \cup {None}], worktree' \in Tree, branch' \in Branch,
         behind \in {"no", "merge", "early", "midway", "kept"}, RefreshIfThere \/ NotRebuilt
  PROVE  /\ copies' \in [Path -> Copy \cup {None}]
         /\ behind' \in {"no", "merge", "early", "midway", "kept"}
         /\ (behind = "no" => Readable(worktree))'
         /\ RowsAreOfTheWorktree'
         /\ EditsStayOnTheirBranch'
<1> DEFINE at == WcPath(worktree')
<1>1. CASE NotRebuilt
  <2>1. copies' = copies /\ behind' # "no" /\ behind' \in {"merge", "early", "midway", "kept"}
    BY <1>1 DEF NotRebuilt
  <2> QED
    BY <2>1 DEF RowsAreOfTheWorktree, EditsStayOnTheirBranch
<1>2. CASE Readable(worktree') /\ copies[at] # None /\ Rebuild(at)
  BY <1>2, RebuildInStep DEF Readable
<1>3. CASE Readable(worktree') /\ copies[at] = None /\ copies' = copies /\ behind' = "no"
  <2>1. InUse' = None
    BY <1>3 DEF InUse, WcPath
  <2> QED
    BY <1>3, <2>1 DEF RowsAreOfTheWorktree, EditsStayOnTheirBranch, Readable
<1> QED
  BY <1>1, <1>2, <1>3 DEF RefreshIfThere

\* The rest of the type invariant, of what commands change besides the working copy.
GitTypeOK ==
    /\ refs \in [Branch -> Tree \cup {None}]
    /\ branch \in Branch /\ refs[branch] \in Tree
    /\ worktree \in Tree /\ index \in Tree
    /\ unmerged \in SUBSET File
    /\ merging \in BOOLEAN

\* HEAD is moved to a tree, where the worktree does not stand in the way.
LEMMA MoveToTree ==
  ASSUME GitTypeOK, NEW t \in Tree, MoveTo(t)
  PROVE  worktree' \in Tree /\ index' \in Tree
  BY DEF GitTypeOK, MoveTo, Tree

\* A command that keeps git's state well-typed and rebuilds, or fails before, keeps the
\* invariant.
LEMMA RebuildKeeps ==
  ASSUME RepositoryInvariant, GitTypeOK', RefreshIfThere \/ NotRebuilt
  PROVE  RepositoryInvariant'
  BY RefreshKeeps DEF RepositoryInvariant, TypeOK, GitTypeOK

\* A command that leaves the working copy behind keeps the invariant.
LEMMA StaleKeeps ==
  ASSUME RepositoryInvariant, GitTypeOK', behind' = "merge", copies' = copies
  PROVE  RepositoryInvariant'
  BY DEF RepositoryInvariant, TypeOK, GitTypeOK, RowsAreOfTheWorktree, EditsStayOnTheirBranch

\* A command that touches neither the worktree nor the working copy keeps the invariant.
LEMMA StillKeeps ==
  ASSUME RepositoryInvariant, GitTypeOK', UNCHANGED <<branch, worktree, copies, behind>>
  PROVE  RepositoryInvariant'
  BY DEF RepositoryInvariant, TypeOK, GitTypeOK, RowsAreOfTheWorktree, EditsStayOnTheirBranch,
         InUse, Readable, WcPath, Hidden

\* Branches are made, deleted and switched to.
LEMMA BranchKeeps ==
  ASSUME RepositoryInvariant, NEW b \in Branch,
         CreateBranch(b) \/ DeleteBranch(b) \/ Switch(b) \/ SwitchToNew(b)
  PROVE  RepositoryInvariant'
<1>1. GitTypeOK
  BY DEF RepositoryInvariant, TypeOK, GitTypeOK
<1>2. CASE CreateBranch(b)
  <2>1. GitTypeOK'
    BY <1>1, <1>2, NoneAssumption DEF GitTypeOK, CreateBranch, head
  <2> QED
    BY <1>2, <2>1, StillKeeps DEF CreateBranch
<1>3. CASE DeleteBranch(b)
  <2>1. GitTypeOK'
    BY <1>1, <1>3 DEF GitTypeOK, DeleteBranch
  <2> QED
    BY <1>3, <2>1, StillKeeps DEF DeleteBranch
<1>4. CASE Switch(b)
  <2>1. refs[b] \in Tree
    BY <1>1, <1>4 DEF GitTypeOK, Switch
  <2>2. GitTypeOK'
    BY <1>1, <1>4, <2>1, MoveToTree DEF GitTypeOK, Switch
  <2> QED
    BY <1>4, <2>2, RebuildKeeps DEF Switch
<1>5. CASE SwitchToNew(b)
  <2>1. GitTypeOK'
    BY <1>1, <1>5 DEF GitTypeOK, SwitchToNew, head
  <2> QED
    BY <1>5, <2>1, RebuildKeeps DEF SwitchToNew
<1> QED
  BY <1>2, <1>3, <1>4, <1>5

\* A merge git could make, or a pull, is rebuilt.
LEMMA MergeCleanlyKeeps ==
  ASSUME RepositoryInvariant, NEW merged \in Tree, MergeCleanly(merged)
  PROVE  RepositoryInvariant'
<1>1. GitTypeOK
  BY DEF RepositoryInvariant, TypeOK, GitTypeOK
<1>2. GitTypeOK'
  BY <1>1, MoveToTree DEF GitTypeOK, MergeCleanly
<1> QED
  BY <1>2, RebuildKeeps DEF MergeCleanly

\* A merge with conflicts leaves a worktree of files, and markers in the configuration.
LEMMA MergeConflictsKeeps ==
  ASSUME RepositoryInvariant, NEW theirs \in Tree, MergeConflicts(theirs)
  PROVE  RepositoryInvariant'
<1>1. GitTypeOK
  BY DEF RepositoryInvariant, TypeOK, GitTypeOK
<1>2. PICK open \in SUBSET File :
        /\ worktree' = [x \in File |->
                IF x \in open THEN Conflicted(x, theirs)
                ELSE IF Clean(x) THEN theirs[x] ELSE worktree[x]]
        /\ index' = [x \in File |-> IF x \in open THEN worktree'[x] ELSE theirs[x]]
        /\ unmerged' = open
  BY DEF MergeConflicts
<1>3. head \in Tree
  BY <1>1 DEF GitTypeOK, head
<1>4. worktree' \in Tree
  <2>1. ASSUME NEW x \in File
        PROVE  \/ Conflicted(x, theirs) \in {head[x], theirs[x]}
               \/ x = Config /\ Conflicted(x, theirs) = Broken
    BY DEF Conflicted
  <2> QED
    BY <1>1, <1>2, <1>3, <2>1 DEF GitTypeOK, Tree
<1>5. index' \in Tree
  BY <1>2, <1>3, <1>4 DEF Tree
<1>6. GitTypeOK'
  BY <1>1, <1>2, <1>4, <1>5 DEF GitTypeOK, MergeConflicts
<1> QED
  BY <1>6, StaleKeeps DEF MergeConflicts

\* Resolving, giving up and continuing a merge leave the working copy alone.
LEMMA MergeEndKeeps ==
  ASSUME RepositoryInvariant, (\E x \in File : Resolve(x)) \/ Abort \/ Continue \/ ContinueFails
  PROVE  RepositoryInvariant'
<1>1. GitTypeOK
  BY DEF RepositoryInvariant, TypeOK, GitTypeOK
<1>2. CASE \E x \in File : Resolve(x)
  <2>1. PICK x \in File : Resolve(x)
    BY <1>2
  <2>2. PICK version \in Contents(x) \cup {worktree[x]} :
            /\ worktree' = [worktree EXCEPT ![x] = version]
            /\ index' = [index EXCEPT ![x] = version]
    BY <2>1 DEF Resolve
  <2>3. worktree' \in Tree /\ index' \in Tree
    BY <1>1, <2>2 DEF GitTypeOK, Tree, Contents, Row
  <2>4. GitTypeOK'
    BY <1>1, <2>1, <2>3 DEF GitTypeOK, Resolve
  <2> QED
    BY <2>1, <2>4, StaleKeeps DEF Resolve
<1>3. CASE Abort
  <2>1. worktree' \in Tree /\ index' \in Tree
    BY <1>1, <1>3 DEF GitTypeOK, Abort, Tree, head
  <2>2. GitTypeOK'
    BY <1>1, <1>3, <2>1 DEF GitTypeOK, Abort, MergeDone
  <2> QED
    BY <1>3, <2>2, StaleKeeps DEF Abort
<1>4. CASE Continue
  <2>1. GitTypeOK'
    BY <1>1, <1>4 DEF GitTypeOK, Continue, CommitAll, MergeDone
  <2> QED
    BY <1>4, <2>1, StillKeeps DEF Continue, CommitAll
<1>5. CASE ContinueFails
  <2>1. GitTypeOK'
    BY <1>1, <1>5 DEF GitTypeOK, ContinueFails, Refused
  <2> QED
    BY <1>5, <2>1, StillKeeps DEF ContinueFails, Refused
<1> QED
  BY <1>2, <1>3, <1>4, <1>5

\* reset moves the worktree and rebuilds.
LEMMA ResetKeeps ==
  ASSUME RepositoryInvariant, NEW files \in Tree, Reset(files)
  PROVE  RepositoryInvariant'
<1>1. GitTypeOK
  BY DEF RepositoryInvariant, TypeOK, GitTypeOK
<1>2. worktree' \in Tree
  BY <1>1 DEF GitTypeOK, Reset, Tree
<1>3. GitTypeOK'
  BY <1>1, <1>2 DEF GitTypeOK, Reset, MergeDone
<1> QED
  BY <1>3, RebuildKeeps DEF Reset

\* restore puts features of datasets there, and rebuilds or fails at another dataset.
LEMMA RestoreKeeps ==
  ASSUME RepositoryInvariant, NEW given \in SUBSET Feature, NEW files \in [given -> Value],
         Restore(given, files)
  PROVE  RepositoryInvariant'
<1>1. GitTypeOK
  BY DEF RepositoryInvariant, TypeOK, GitTypeOK
<1>2. worktree' \in Tree /\ index' \in Tree
  BY <1>1, ConfigAssumption DEF GitTypeOK, Restore, Tree, Contents, Row
<1>3. GitTypeOK'
  BY <1>1, <1>2 DEF GitTypeOK, Restore
<1> QED
  BY <1>3, RebuildKeeps DEF Restore

\* The rows a commit writes go to the worktree together with the versions they count as
\* made from, and only what is written is forgotten.
LEMMA SyncKeeps ==
  ASSUME RepositoryInvariant, Readable(worktree), NEW written \in SUBSET Tracked,
         NEW cleared \in SUBSET written, Sync(written, cleared), branch' = branch,
         behind' = behind
  PROVE  /\ worktree' \in Tree /\ Readable(worktree)'
         /\ copies' \in [Path -> Copy \cup {None}]
         /\ RowsAreOfTheWorktree' /\ EditsStayOnTheirBranch'
<1> DEFINE from == [f \in Feature |-> IF f \in written THEN InUse.rows[f] ELSE InUse.from[f]]
           at == WcPath(worktree)
           kept == [InUse EXCEPT !.from = from, !.edited = InUse.edited \ cleared]
<1>1. worktree \in Tree /\ at \in Path /\ copies \in [Path -> Copy \cup {None}]
  BY PlaceOfTree DEF RepositoryInvariant, TypeOK
<1>2. InUse = None \/ InUse \in Copy
  BY InUseIsCopy DEF RepositoryInvariant
<1>3. worktree' = [x \in File |-> IF x \in written THEN InUse.rows[x] ELSE worktree[x]]
  BY DEF Sync
<1>4. written \subseteq Feature /\ \A x \in written : InUse.rows[x] \in Row
  BY <1>2 DEF Tracked, Copy, Rows
<1>5. worktree' \in Tree /\ worktree'[Config] = worktree[Config]
  <2>1. Config \notin written /\ Config \in File
    BY <1>4, ConfigAssumption DEF File
  <2> QED
    BY <1>1, <1>3, <1>4, <2>1 DEF Tree, Contents
<1>6. WcPath(worktree)' = at /\ Readable(worktree)'
  BY <1>5 DEF WcPath, Readable
<1>7. CASE InUse = None
  <2>1. copies' = copies /\ InUse' = None
    BY <1>6, <1>7 DEF Sync, InUse
  <2> QED
    BY <1>1, <1>5, <1>6, <2>1 DEF RowsAreOfTheWorktree, EditsStayOnTheirBranch
<1>8. CASE InUse # None
  <2>1. InUse \in Copy /\ InUse = copies[at] /\ Tracked = InUse.edited
    BY <1>2, <1>8 DEF InUse, Tracked
  <2>2. /\ kept \in Copy /\ kept.from = from /\ kept.edited = InUse.edited \ cleared
        /\ kept.on = InUse.on /\ kept.rows = InUse.rows
    <3>1. from \in Rows
      BY <1>4, <2>1 DEF Copy, Rows
    <3> QED
      BY <2>1, <3>1 DEF Copy
  <2>3. copies' = [copies EXCEPT ![at] = kept]
    BY <1>1, <1>8, <2>1 DEF Sync, Copy
  <2>4. InUse' = kept
    BY <1>1, <1>6, <2>3 DEF InUse
  <2>5. RowsAreOfTheWorktree'
    <3> SUFFICES ASSUME behind = "no", NEW f \in Feature
                 PROVE  /\ \/ kept.from[f] = worktree'[f]
                           \/ kept.from[f] = Missing /\ worktree'[f] \in UNION Filter
                        /\ f \notin kept.edited => kept.rows[f] = kept.from[f]
      BY <2>4 DEF RowsAreOfTheWorktree, Hidden
    <3>1. /\ \/ InUse.from[f] = worktree[f]
             \/ InUse.from[f] = Missing /\ worktree[f] \in UNION Filter
          /\ f \notin InUse.edited => InUse.rows[f] = InUse.from[f]
      BY <1>8 DEF RepositoryInvariant, RowsAreOfTheWorktree, Hidden
    <3>2. worktree'[f] = IF f \in written THEN InUse.rows[f] ELSE worktree[f]
      BY <1>3 DEF File
    <3>3. kept.from[f] = IF f \in written THEN InUse.rows[f] ELSE InUse.from[f]
      BY <2>2
    <3> QED
      BY <2>2, <3>1, <3>2, <3>3
  <2>6. EditsStayOnTheirBranch'
    BY <1>8, <2>2, <2>4 DEF RepositoryInvariant, EditsStayOnTheirBranch
  <2> QED
    BY <1>1, <1>5, <1>6, <2>2, <2>3, <2>5, <2>6
<1> QED
  BY <1>7, <1>8

\* A commit keeps the invariant, and so does one that fails.
LEMMA CommitKeeps ==
  ASSUME RepositoryInvariant, Commit \/ CommitFails
  PROVE  RepositoryInvariant'
<1>1. Commit \/ CommitFails
  OBVIOUS
<1>2. GitTypeOK /\ Readable(worktree) /\ behind' = behind
  BY DEF RepositoryInvariant, TypeOK, GitTypeOK, Commit, CommitFails
<1> DEFINE Wrote(written, cleared) ==
             /\ Sync(written, cleared)
             /\ CommitAll \/ Refused \/ UNCHANGED <<refs, branch, index, unmerged, merging>>
<1>3. \E written \in SUBSET Tracked : \E cleared \in SUBSET written : Wrote(written, cleared)
  <2>1. ASSUME NEW written \in SUBSET Tracked, Sync(written, written), CommitAll \/ Refused
        PROVE  \E cleared \in SUBSET written : Wrote(written, cleared)
    <3>1. Wrote(written, written)
      BY <2>1
    <3> QED
      BY <3>1
  <2>2. CASE Commit
    <3>1. PICK written \in SUBSET Tracked : Sync(written, written)
      BY <2>2 DEF Commit
    <3>2. CommitAll
      BY <2>2 DEF Commit
    <3> QED
      BY <2>1, <3>1, <3>2
  <2>3. CASE CommitFails
    <3>1. PICK written \in SUBSET Tracked :
            \/ Sync(written, written) /\ Refused
            \/ /\ \E cleared \in SUBSET written : Sync(written, cleared)
               /\ UNCHANGED <<refs, branch, index, unmerged, merging>>
      BY <2>3 DEF CommitFails
    <3>2. CASE Sync(written, written) /\ Refused
      BY <2>1, <3>2
    <3>3. CASE /\ \E cleared \in SUBSET written : Sync(written, cleared)
               /\ UNCHANGED <<refs, branch, index, unmerged, merging>>
      <4>1. PICK cleared \in SUBSET written : Sync(written, cleared)
        BY <3>3
      <4>2. Wrote(written, cleared)
        BY <3>3, <4>1
      <4> QED
        BY <4>2
    <3> QED
      BY <3>1, <3>2, <3>3
  <2> QED
    BY <1>1, <2>2, <2>3
<1>4. PICK written \in SUBSET Tracked : \E cleared \in SUBSET written : Wrote(written, cleared)
  BY <1>3
<1>5. PICK cleared \in SUBSET written : Wrote(written, cleared)
  BY <1>4
<1>6. branch' = branch
  BY <1>5 DEF CommitAll, Refused
<1>7. /\ worktree' \in Tree /\ Readable(worktree)'
      /\ copies' \in [Path -> Copy \cup {None}]
      /\ RowsAreOfTheWorktree' /\ EditsStayOnTheirBranch'
  BY <1>2, <1>5, <1>6, SyncKeeps
<1>8. GitTypeOK'
  BY <1>2, <1>5, <1>7 DEF GitTypeOK, CommitAll, Refused, MergeDone
<1> QED
  BY <1>2, <1>7, <1>8 DEF RepositoryInvariant, TypeOK, GitTypeOK

\* An edit changes a row and tracks it, wherever the file is.
LEMMA EditKeeps ==
  ASSUME RepositoryInvariant, NEW path \in Path, NEW f \in Feature, NEW r \in Row,
         Edit(path, f, r)
  PROVE  RepositoryInvariant'
<1> DEFINE copy == copies[path]
           kept == [copy EXCEPT !.rows[f] = r, !.edited = copy.edited \cup {f}]
<1>1. copy \in Copy
  BY DEF Edit, RepositoryInvariant, TypeOK
<1>2. copies' = [copies EXCEPT ![path] = kept]
  BY <1>1 DEF Edit
<1>3. /\ kept \in Copy /\ kept.from = copy.from /\ kept.on = copy.on
      /\ kept.edited = copy.edited \cup {f}
      /\ \A g \in Feature \ {f} : kept.rows[g] = copy.rows[g]
  BY <1>1 DEF Copy, Rows
<1>4. TypeOK'
  BY <1>2, <1>3 DEF RepositoryInvariant, TypeOK, Edit, git
<1>5. behind = "no" => InUse' = InUse \/ (InUse = copy /\ InUse' = kept)
  <2>1. behind = "no" => WcPath(worktree) \in Path
    BY PlaceOfTree DEF RepositoryInvariant, TypeOK
  <2>2. InUse' = copies'[WcPath(worktree)]
    BY DEF InUse, Edit, git, WcPath
  <2> QED
    BY <1>2, <2>1, <2>2 DEF InUse, RepositoryInvariant, TypeOK
<1>6. UNCHANGED <<worktree, branch, behind>>
  BY DEF Edit, git
<1>7. copy # None
  BY DEF Edit
<1>8. RowsAreOfTheWorktree'
  BY <1>3, <1>5, <1>6, <1>7 DEF RepositoryInvariant, RowsAreOfTheWorktree, Hidden
<1>9. EditsStayOnTheirBranch'
  BY <1>3, <1>5, <1>6, <1>7 DEF RepositoryInvariant, EditsStayOnTheirBranch
<1> QED
  BY <1>4, <1>6, <1>8, <1>9 DEF RepositoryInvariant, Readable

\* A checkout of all into the file in use puts it in step, but for rows that stay; one of
\* some leaves the others as they were.
LEMMA CheckoutKeeps ==
  ASSUME RepositoryInvariant, Checkout
  PROVE  RepositoryInvariant'
<1> DEFINE at == WcPath(worktree)
           old == IF InUse = None THEN Blank(branch) ELSE InUse
<1>1. worktree \in Tree /\ branch \in Branch /\ Readable(worktree) /\ at \in Path
      /\ copies \in [Path -> Copy \cup {None}]
  BY PlaceOfTree DEF RepositoryInvariant, TypeOK, Checkout
<1>2. old \in Copy
  BY <1>1, InUseIsCopy, BlankIsCopy DEF RepositoryInvariant
<1>3. PICK done \in SUBSET Feature, shown \in Views(worktree) :
        /\ copies' = [copies EXCEPT ![at] = Into(old, shown, branch, done)]
        /\ behind' = LET new == Into(old, shown, branch, done)
                     IN  IF done = Feature THEN IF Kept(new) THEN "kept" ELSE "no"
                         ELSE IF InUse = None \/ \E f \in done : new.rows[f] # new.from[f]
                         THEN "kept" ELSE behind
        /\ UNCHANGED git
  BY DEF Checkout
<1> DEFINE new == Into(old, shown, branch, done)
<1>4. shown \in Rows /\ \A f \in Feature :
          shown[f] = worktree[f] \/ (shown[f] = Missing /\ worktree[f] \in UNION Filter)
  BY <1>1, ViewsAreRows
<1> HIDE DEF old
<1>5. new \in Copy /\ (done = Feature => new.from = shown /\ new.edited = {} /\ new.on = branch)
  BY <1>1, <1>2, <1>4, IntoIsCopy
<1>6. /\ new.from = [f \in Feature |-> IF f \in done THEN shown[f] ELSE old.from[f]]
      /\ new.rows = [f \in Feature |-> IF f \in done /\ shown[f] # Missing THEN shown[f]
                                        ELSE old.rows[f]]
      /\ new.edited = old.edited \ done
      /\ new.on \in {branch, old.on}
  BY DEF Into
<1>7. /\ copies' = [copies EXCEPT ![at] = new]
      /\ behind' = IF done = Feature THEN IF Kept(new) THEN "kept" ELSE "no"
                   ELSE IF InUse = None \/ \E f \in done : new.rows[f] # new.from[f]
                   THEN "kept" ELSE behind
      /\ UNCHANGED <<refs, branch, worktree, index, unmerged, merging>>
  BY <1>3 DEF git
<1> HIDE DEF new
<1>8. TypeOK'
  BY <1>1, <1>5, <1>7 DEF RepositoryInvariant, TypeOK
<1>9. InUse' = new
  BY <1>1, <1>7 DEF InUse, WcPath
<1>10. CASE behind' = "no" /\ done = Feature
  <2>1. new.rows = new.from /\ new.from = shown /\ new.edited = {} /\ new.on = branch
    BY <1>5, <1>7, <1>10 DEF Kept
  <2>2. RowsAreOfTheWorktree' /\ EditsStayOnTheirBranch'
    BY <1>4, <1>7, <1>9, <2>1 DEF RowsAreOfTheWorktree, EditsStayOnTheirBranch, Hidden
  <2> QED
    BY <1>1, <1>7, <1>8, <2>2 DEF RepositoryInvariant, Readable
<1>11. CASE behind' = "no" /\ done # Feature
  <2>1. /\ InUse # None /\ behind = "no" /\ \A f \in done : new.rows[f] = new.from[f]
        /\ old = InUse
    BY <1>7, <1>11 DEF old
  <2>2. ASSUME NEW f \in Feature
        PROVE  /\ \/ new.from[f] = worktree[f]
                  \/ new.from[f] = Missing /\ worktree[f] \in UNION Filter
               /\ f \notin new.edited => new.rows[f] = new.from[f]
    <3>1. CASE f \in done
      BY <1>4, <1>6, <2>1, <3>1
    <3>2. CASE f \notin done
      <4>1. new.from[f] = InUse.from[f] /\ new.rows[f] = InUse.rows[f]
            /\ (f \in new.edited <=> f \in InUse.edited)
        BY <1>6, <2>1, <3>2
      <4> QED
        BY <2>1, <4>1 DEF RepositoryInvariant, RowsAreOfTheWorktree, Hidden
    <3> QED
      BY <3>1, <3>2
  <2>3. new.on = branch
    BY <1>6, <2>1 DEF RepositoryInvariant, EditsStayOnTheirBranch
  <2>4. RowsAreOfTheWorktree' /\ EditsStayOnTheirBranch'
    BY <1>7, <1>9, <2>2, <2>3 DEF RowsAreOfTheWorktree, EditsStayOnTheirBranch, Hidden
  <2> QED
    BY <1>1, <1>7, <1>8, <2>4 DEF RepositoryInvariant, Readable
<1>12. CASE behind' # "no"
  BY <1>8, <1>12 DEF RepositoryInvariant, RowsAreOfTheWorktree, EditsStayOnTheirBranch
<1> QED
  BY <1>10, <1>11, <1>12

\* A working copy made at a path is of the worktree that names the path.
LEMMA CreateKeeps ==
  ASSUME RepositoryInvariant, NEW place \in Place, CreateWorkingCopy(place)
  PROVE  RepositoryInvariant'
<1>1. worktree' \in Tree /\ worktree'[Config] = place
  BY DEF CreateWorkingCopy, RepositoryInvariant, TypeOK, Tree, File, Contents
<1>2. Readable(worktree') /\ WcPath(worktree') = place
  BY <1>1, PlaceAssumption DEF Readable, WcPath
<1>3. branch' \in Branch /\ copies \in [Path -> Copy \cup {None}]
  BY DEF CreateWorkingCopy, RepositoryInvariant, TypeOK
<1>4. Rebuild(WcPath(worktree'))
  BY <1>2 DEF CreateWorkingCopy
<1>5. /\ copies' \in [Path -> Copy \cup {None}]
      /\ behind' \in {"no", "midway", "kept"}
      /\ RowsAreOfTheWorktree'
      /\ EditsStayOnTheirBranch'
  BY <1>1, <1>2, <1>3, <1>4, RebuildInStep
<1> QED
  BY <1>1, <1>2, <1>5 DEF RepositoryInvariant, TypeOK, CreateWorkingCopy, Readable

\* The inductive step.
LEMMA NextKeeps ==
  ASSUME RepositoryInvariant, [Next]_vars
  PROVE  RepositoryInvariant'
<1>1. CASE MergeStep
  BY <1>1, MergeCleanlyKeeps, MergeConflictsKeeps, MergeEndKeeps DEF MergeStep
<1>2. CASE BranchStep
  BY <1>2, BranchKeeps DEF BranchStep
<1>3. CASE CopyStep
  BY <1>3, CommitKeeps, CheckoutKeeps, CreateKeeps, EditKeeps DEF CopyStep
<1>4. CASE \/ \E files \in Tree : Reset(files)
           \/ \E given \in SUBSET Feature : \E files \in [given -> Value] : Restore(given, files)
  BY <1>4, ResetKeeps, RestoreKeeps
<1>5. CASE UNCHANGED vars
  <2>1. GitTypeOK'
    BY <1>5 DEF vars, git, GitTypeOK, RepositoryInvariant, TypeOK
  <2> QED
    BY <1>5, <2>1, StillKeeps DEF vars, git
<1> QED
  BY <1>1, <1>2, <1>3, <1>4, <1>5 DEF Next

\* A clone has no working copy.
LEMMA InitKeeps == Init => RepositoryInvariant
<1> SUFFICES ASSUME Init PROVE RepositoryInvariant
  OBVIOUS
<1>1. TypeOK
  BY DEF Init, TypeOK
<1>2. InUse = None
  BY <1>1, PlaceOfTree DEF Init, InUse, TypeOK
<1> QED
  BY <1>1, <1>2 DEF Init, RepositoryInvariant, RowsAreOfTheWorktree, EditsStayOnTheirBranch

\* The working copy in use stays in step with the worktree, or one of four causes has it
\* behind, through any sequence of the commands and of their failures.
THEOREM RepositoryInvariantHolds == Spec => []RepositoryInvariant
  BY InitKeeps, NextKeeps, PTL DEF Spec

\* A commit writes no row over a version of its feature it was not made from, unless a filter
\* hid that version or the working copy is behind.
THEOREM RowsStayOfTheWorktree == Spec => []RowsAreOfTheWorktree
<1>1. RepositoryInvariant => RowsAreOfTheWorktree
  BY DEF RepositoryInvariant
<1> QED
  BY <1>1, RepositoryInvariantHolds, PTL

\* Edits made on one branch are not committed to another, unless the working copy is behind.
THEOREM EditsNeverStray == Spec => []EditsStayOnTheirBranch
<1>1. RepositoryInvariant => EditsStayOnTheirBranch
  BY DEF RepositoryInvariant
<1> QED
  BY <1>1, RepositoryInvariantHolds, PTL

=============================================================================
