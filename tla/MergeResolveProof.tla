-------------------------- MODULE MergeResolveProof --------------------------
(* MergeInvariant is inductive, and what a merge commits follows from it. *)
EXTENDS MergeResolve, TLAPS

\* git's merge gives every path a version that one of the sides has.
LEMMA MergedIsFiles ==
  ASSUME NEW b \in Files, NEW o \in Files, NEW t \in Files
  PROVE  Merged(b, o, t) \in Files
  BY DEF Merged, Files

\* The version a strategy is for is a file, or none.
LEMMA VersionIsFile ==
  ASSUME TypeOK, NEW p \in Path, NEW s \in Strategy
  PROVE  Version(p, s) \in File
  BY DEF TypeOK, Files, File, Strategy, Version

\* What a strategy leaves in the worktree is a file, or none.
LEMMA CheckedOutIsFile ==
  ASSUME TypeOK, NEW p \in Path, NEW s \in Strategy
  PROVE  CheckedOut(p, s) \in File
  BY VersionIsFile DEF TypeOK, Files, CheckedOut

\* A version that exists is what a strategy leaves of a conflict.
LEMMA CheckedOutIsVersion ==
  ASSUME NEW p \in unmerged, NEW s \in Strategy, Version(p, s) # Missing \/ s = "delete"
  PROVE  CheckedOut(p, s) = Version(p, s)
  BY DEF CheckedOut, Version, Strategy

-----------------------------------------------------------------------------

LEMMA InitMerge == Init => MergeInvariant
  BY CommitsAssumption DEF Init, MergeInvariant, TypeOK, GitStateOK, DecidedIsKept, Files,
         NoFiles, File, NoEdits, ByContent, Decision

\* A path that was not said to be otherwise is as it was said to be.
LEMMA SaidIsTyped ==
  ASSUME TypeOK, NEW paths \in SUBSET Path, NEW files \in Files,
         NEW how \in [Path -> Decision], Say(paths, files, how)
  PROVE  /\ asked' \in [Path -> File \cup {Open}] /\ decided' \in [Path -> Decision]
         /\ \A p \in Path \ paths : asked'[p] = asked[p] /\ decided'[p] = decided[p]
         /\ merging => \A p \in paths : asked'[p] = files[p] /\ decided'[p] = how[p]
<1>1. CASE merging
  <2>1. /\ asked' = [p \in Path |-> IF p \in paths THEN files[p] ELSE asked[p]]
        /\ decided' = [p \in Path |-> IF p \in paths THEN how[p] ELSE decided[p]]
    BY <1>1 DEF Say
  <2> QED
    BY <2>1 DEF TypeOK, Files
<1>2. CASE ~merging
  BY <1>2 DEF Say, said, TypeOK
<1> QED
  BY <1>1, <1>2

\* `ggt merge` leaves the conflicts undecided and everything else as git made it.
LEMMA MergeKeeps ==
  ASSUME MergeInvariant, NEW b \in Files, NEW t \in Files, Merge(b, t)
  PROVE  MergeInvariant'
<1>1. worktree' \in Files /\ index' = worktree'
  BY MergedIsFiles DEF Merge, MergeInvariant, TypeOK
<1>2. unmerged' \subseteq Path
  BY DEF Merge, Conflicts
<1>3. CASE unmerged' = {}
  <2>1. TypeOK'
    BY <1>1, <1>3 DEF Merge, MergeInvariant, TypeOK, Refresh, NoEdits, said
  <2>2. ~merging'
    BY <1>3 DEF Merge
  <2> QED
    BY <1>1, <1>3, <2>1, <2>2 DEF MergeInvariant, GitStateOK, DecidedIsKept
<1>4. CASE unmerged' # {}
  <2>1. /\ merging' /\ base' = b /\ theirs' = t /\ UNCHANGED <<head, rows>>
        /\ asked' = [p \in Path |-> IF p \in unmerged' THEN Open ELSE worktree'[p]]
        /\ decided' = ByContent
    BY <1>4 DEF Merge
  <2>2. unmerged' = Conflicts(base', head', theirs')
    BY <2>1 DEF Merge
  <2>3. merging' \in BOOLEAN /\ head' \in Files /\ base' \in Files /\ theirs' \in Files
    BY <1>4, <2>1 DEF Merge, MergeInvariant, TypeOK
  <2>4. asked' \in [Path -> File \cup {Open}] /\ decided' \in [Path -> Decision]
    BY <1>1, <2>1 DEF Files, ByContent, Decision
  <2>5. TypeOK'
    BY <1>1, <1>2, <2>1, <2>3, <2>4 DEF MergeInvariant, TypeOK
  <2>6. \A p \in Path : asked'[p] = IF p \in unmerged' THEN Open ELSE worktree'[p]
    BY <2>1
  <2> QED
    BY <1>1, <1>2, <2>1, <2>2, <2>5, <2>6 DEF MergeInvariant, GitStateOK, DecidedIsKept
<1> QED
  BY <1>3, <1>4

\* A resolution decides its paths, and stages what it leaves of them; a side is what it
\* says only where there was a conflict.
LEMMA ResolveKeeps ==
  ASSUME MergeInvariant, NEW paths \in SUBSET Path, NEW s \in Strategy, Resolve(paths, s)
  PROVE  MergeInvariant'
<1> DEFINE versions == [p \in Path |-> Version(p, s)]
<1> DEFINE how == [p \in Path |-> IF s \in {"ours", "theirs"} /\ p \notin unmerged
                                 THEN "sideAgain" ELSE "strategy"]
<1>1. worktree' \in Files
  BY CheckedOutIsFile DEF Resolve, MergeInvariant, TypeOK, Files
<1>2. index' \in Files /\ \A p \in Path : index'[p] = IF p \in paths THEN worktree'[p] ELSE index[p]
  BY <1>1 DEF Resolve, Stage, MergeInvariant, TypeOK, Files
<1>3. versions \in Files /\ how \in [Path -> Decision]
  BY VersionIsFile DEF MergeInvariant, Files, Decision
<1>4. Say(paths, versions, how)
  BY DEF Resolve
<1>5. unmerged' = unmerged \ paths /\ UNCHANGED <<head, merging, base, theirs, rows>>
  BY DEF Resolve, Stage
<1> HIDE DEF versions, how
<1>6. /\ asked' \in [Path -> File \cup {Open}] /\ decided' \in [Path -> Decision]
      /\ \A p \in Path \ paths : asked'[p] = asked[p] /\ decided'[p] = decided[p]
      /\ merging => \A p \in paths : asked'[p] = versions[p] /\ decided'[p] = how[p]
  BY <1>3, <1>4, SaidIsTyped DEF MergeInvariant
<1>7. TypeOK'
  BY <1>1, <1>2, <1>5, <1>6 DEF MergeInvariant, TypeOK
<1>8. \A p \in Path \ paths : worktree'[p] = worktree[p]
  BY DEF Resolve
<1>9. GitStateOK'
  BY <1>2, <1>5, <1>6, <1>8 DEF MergeInvariant, TypeOK, GitStateOK, Conflicts
<1>10. DecidedIsKept'
  <2> SUFFICES ASSUME merging, NEW p \in Path, p \notin unmerged \ paths,
                      \/ decided'[p] = "content"
                      \/ decided'[p] = "strategy" /\ InAllThree(p)
               PROVE  worktree'[p] = asked'[p]
    BY <1>5 DEF DecidedIsKept, InAllThree
  <2>1. CASE p \notin paths
    BY <1>6, <1>8, <2>1 DEF MergeInvariant, DecidedIsKept
  <2>2. CASE p \in paths
    <3>1. asked'[p] = Version(p, s) /\ worktree'[p] = CheckedOut(p, s)
      BY <1>6, <2>2 DEF versions, Resolve
    <3>2. how[p] = "strategy" /\ InAllThree(p)
      BY <1>6, <2>2 DEF how
    <3>3. s \notin {"ours", "theirs"} \/ p \in unmerged
      BY <3>2 DEF how
    <3>4. CASE s = "workingcopy"
      BY <3>1, <3>4 DEF CheckedOut, Version
    <3>5. CASE s # "workingcopy"
      <4>1. Version(p, s) # Missing \/ s = "delete"
        BY <3>2, <3>5 DEF InAllThree, Version, Strategy
      <4> QED
        BY <3>1, <3>3, <4>1 DEF CheckedOut
    <3> QED
      BY <3>4, <3>5
  <2> QED
    BY <2>1, <2>2
<1> QED
  BY <1>7, <1>9, <1>10 DEF MergeInvariant

\* A feature given by hand is what becomes of its path.
LEMMA ResolveWithFileKeeps ==
  ASSUME MergeInvariant, NEW p \in Path, NEW blob \in Blob, ResolveWithFile(p, blob)
  PROVE  MergeInvariant'
<1>1. /\ unmerged' = unmerged \ {p} /\ UNCHANGED <<head, merging, base, theirs, rows>>
      /\ Say({p}, worktree', ByContent)
  BY DEF ResolveWithFile, Stage
<1>2. worktree' \in Files /\ index' \in Files
  BY DEF ResolveWithFile, Stage, MergeInvariant, TypeOK, Files, File
<1>3. ByContent \in [Path -> Decision]
  BY DEF ByContent, Decision
<1>4. /\ asked' \in [Path -> File \cup {Open}] /\ decided' \in [Path -> Decision]
      /\ \A q \in Path \ {p} : asked'[q] = asked[q] /\ decided'[q] = decided[q]
      /\ merging => asked'[p] = worktree'[p]
  BY <1>1, <1>2, <1>3, SaidIsTyped DEF MergeInvariant
<1>5. TypeOK'
  BY <1>1, <1>2, <1>4 DEF MergeInvariant, TypeOK
<1>6. /\ \A q \in Path \ {p} : worktree'[q] = worktree[q] /\ index'[q] = index[q]
      /\ index'[p] = worktree'[p]
  BY DEF ResolveWithFile, Stage, MergeInvariant, TypeOK, Files
<1>7. GitStateOK'
  BY <1>1, <1>4, <1>6 DEF MergeInvariant, TypeOK, GitStateOK, Conflicts
<1>8. DecidedIsKept'
  BY <1>1, <1>4, <1>6 DEF MergeInvariant, DecidedIsKept, InAllThree
<1> QED
  BY <1>5, <1>7, <1>8 DEF MergeInvariant

\* A restore decides the paths its source has, refreshing or not.
LEMMA RestoreKeeps ==
  ASSUME MergeInvariant, NEW source \in Files, Restore(source)
  PROVE  MergeInvariant'
<1> DEFINE given == {p \in Path : source[p] # Missing}
<1>1. /\ unmerged' = unmerged \ given
      /\ UNCHANGED <<head, merging, base, theirs>>
      /\ rows' = NoEdits \/ rows' = rows
      /\ Say(given, source, ByContent)
  BY DEF Restore, Refresh
<1>2. /\ worktree' = [p \in Path |-> IF p \in given THEN source[p] ELSE worktree[p]]
      /\ index' = [p \in Path |-> IF p \in given THEN source[p] ELSE index[p]]
  BY DEF Restore
<1>3. given \in SUBSET Path
  OBVIOUS
<1> HIDE DEF given
<1>4. ByContent \in [Path -> Decision]
  BY DEF ByContent, Decision
<1>5. /\ asked' \in [Path -> File \cup {Open}] /\ decided' \in [Path -> Decision]
      /\ \A q \in Path \ given : asked'[q] = asked[q] /\ decided'[q] = decided[q]
      /\ merging => \A q \in given : asked'[q] = source[q]
  BY <1>1, <1>3, <1>4, SaidIsTyped DEF MergeInvariant
<1>6. worktree' \in Files /\ index' \in Files
  BY <1>2 DEF MergeInvariant, TypeOK, Files
<1>7. TypeOK'
  BY <1>1, <1>5, <1>6 DEF MergeInvariant, TypeOK, NoEdits
<1>8. GitStateOK'
  BY <1>1, <1>2, <1>5 DEF MergeInvariant, TypeOK, GitStateOK, Conflicts
<1>9. DecidedIsKept'
  BY <1>1, <1>2, <1>5 DEF MergeInvariant, DecidedIsKept, InAllThree
<1> QED
  BY <1>7, <1>8, <1>9 DEF MergeInvariant

\* Every command that ends a merge, or runs while there is none, leaves none.
LEMMA EndedKeeps ==
  ASSUME MergeInvariant,
         Continue \/ Commit \/ Abort \/ \E files \in Files : Reset(files) \/ Switch(files)
  PROVE  MergeInvariant'
<1>1. merging' = FALSE /\ unmerged' = {} /\ base' \in Files /\ theirs' \in Files
  BY DEF Continue, Commit, CommitAll, Abort, Reset, Switch, MergeDone, NoFiles, Files, File,
         MergeInvariant, TypeOK, GitStateOK
<1>2. worktree' \in Files /\ index' = worktree'
  <2>1. CASE Commit
    BY <2>1 DEF Commit, CommitAll, Files, Edited, MergeInvariant, TypeOK
  <2>2. CASE Continue \/ Abort \/ \E files \in Files : Reset(files) \/ Switch(files)
    BY <2>2 DEF Continue, CommitAll, Abort, Reset, Switch, Files, MergeInvariant, TypeOK
  <2> QED
    BY <2>1, <2>2
<1>3. head' \in Files /\ rows' \in [Path -> File \cup {Untracked}]
  BY <1>2 DEF Continue, Commit, CommitAll, Abort, Reset, Switch, Refresh, NoEdits,
              MergeInvariant, TypeOK
<1>4. asked' \in [Path -> File \cup {Open}] /\ decided' \in [Path -> Decision]
  BY DEF Continue, Commit, CommitAll, Abort, Reset, Switch, MergeDone, said, NoFiles, File,
         ByContent, Decision, MergeInvariant, TypeOK
<1> QED
  BY <1>1, <1>2, <1>3, <1>4 DEF MergeInvariant, TypeOK, GitStateOK, DecidedIsKept

\* Edits concern the working copy only.
LEMMA EditKeeps ==
  ASSUME MergeInvariant, NEW p \in Path, NEW r \in File, Edit(p, r)
  PROVE  MergeInvariant'
<1>1. UNCHANGED <<head, worktree, index, unmerged, merging, base, theirs, asked, decided>>
  BY DEF Edit, git, said
<1>2. TypeOK'
  BY <1>1 DEF Edit, MergeInvariant, TypeOK
<1> QED
  BY <1>1, <1>2 DEF MergeInvariant, GitStateOK, DecidedIsKept, InAllThree, Conflicts

LEMMA NextMergeKeeps == MergeInvariant /\ [Next]_vars => MergeInvariant'
<1> SUFFICES ASSUME MergeInvariant, [Next]_vars
             PROVE  MergeInvariant'
  OBVIOUS
<1>1. CASE \E b, t \in Commits : Merge(b, t)
  BY <1>1, CommitsAssumption, MergeKeeps
<1>2. CASE \E s \in Strategy : (\E p \in Path : Resolve({p}, s)) \/ Resolve(unmerged, s)
  <2>1. unmerged \in SUBSET Path
    BY DEF MergeInvariant, TypeOK
  <2> QED
    BY <1>2, <2>1, ResolveKeeps
<1>3. CASE \E p \in Path, blob \in Blob : ResolveWithFile(p, blob)
  BY <1>3, ResolveWithFileKeeps
<1>4. CASE \E files \in Commits : Restore(files)
  BY <1>4, CommitsAssumption, RestoreKeeps
<1>5. CASE Continue \/ Commit \/ Abort \/ \E files \in Commits : Reset(files) \/ Switch(files)
  BY <1>5, CommitsAssumption, EndedKeeps
<1>6. CASE \E p \in Path, r \in File : Edit(p, r)
  BY <1>6, EditKeeps
<1>7. CASE UNCHANGED vars
  BY <1>7 DEF vars, git, said, MergeInvariant, TypeOK, GitStateOK, DecidedIsKept,
              InAllThree, Conflicts
<1> QED
  BY <1>1, <1>2, <1>3, <1>4, <1>5, <1>6, <1>7 DEF Next, GitStep

-----------------------------------------------------------------------------

\* git's index, worktree and conflicts, and what was decided of each path, agree through
\* any sequence of merges, resolutions, restores, edits and commits.
THEOREM MergeInvariantHolds == Spec => []MergeInvariant
  BY InitMerge, NextMergeKeeps, PTL DEF Spec

\* `merge --continue` commits, for a feature all three sides have, what was last chosen,
\* unless a side was chosen of a path that was resolved already.
THEOREM ChoicesAreCommitted == Spec => ContinueCommitsChoices
<1>1. ASSUME MergeInvariant, Continue, merging, NEW p \in Path, InAllThree(p),
             decided[p] # "sideAgain"
      PROVE  head'[p] = asked[p]
  <2>1. p \notin unmerged /\ head' = worktree
    BY <1>1 DEF Continue, CommitAll
  <2>2. decided[p] \in Decision
    BY <1>1 DEF MergeInvariant, TypeOK
  <2> QED
    BY <1>1, <2>1, <2>2 DEF MergeInvariant, DecidedIsKept, Decision
<1>2. MergeInvariant /\ [Next]_vars =>
        [Continue /\ merging =>
            \A p \in Path : InAllThree(p) /\ decided[p] # "sideAgain"
                => head'[p] = asked[p]]_vars
  BY <1>1
<1> QED
  BY <1>2, MergeInvariantHolds, PTL DEF Spec, ContinueCommitsChoices

\* However a merge is committed, what git merged, a file gave or a restore laid is in it.
THEOREM MergedIsCommitted == Spec => MergedSurvives
<1>1. ASSUME MergeInvariant, Continue \/ Commit, merging, NEW p \in Path \ Edited,
             asked[p] # Open, decided[p] = "content"
      PROVE  head'[p] = asked[p]
  <2>1. p \notin unmerged
    BY <1>1 DEF MergeInvariant, GitStateOK
  <2>2. head'[p] = worktree[p]
    BY <1>1 DEF Continue, Commit, CommitAll
  <2> QED
    BY <1>1, <2>1, <2>2 DEF MergeInvariant, DecidedIsKept
<1>2. MergeInvariant /\ [Next]_vars =>
        [(Continue \/ Commit) /\ merging =>
            \A p \in Path \ Edited : asked[p] # Open /\ decided[p] = "content"
                => head'[p] = asked[p]]_vars
  BY <1>1
<1> QED
  BY <1>2, MergeInvariantHolds, PTL DEF Spec, MergedSurvives

=============================================================================
