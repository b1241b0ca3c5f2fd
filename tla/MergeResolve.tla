---------------------------- MODULE MergeResolve ----------------------------
(***************************************************************************)
(* A merge, from `ggt merge` to the merge commit: cmd_merge, cmd_resolve   *)
(* and cmd_commit of main.rs over git's index, worktree and MERGE_HEAD,    *)
(* with the GeoPackage working copy beside them.                           *)
(*                                                                         *)
(* A feature file is an opaque blob.  What git does with one (the          *)
(* three-way choice, which version a conflict leaves in the worktree, what *)
(* `git checkout --ours` and `git add` accept) is external to the          *)
(* repository; the commands call git and ignore the exit status where      *)
(* written so below.  Git merges no lines of a file with a zero byte in it, *)
(* and the header of every stored geometry has one.                        *)
(***************************************************************************)
CONSTANTS
    Path,       \* the feature files
    Blob,       \* their contents
    Missing,    \* no file
    Commits,    \* the files of each commit of other branches and of history
    Open,       \* a conflict the user has not yet decided
    Untracked   \* a row as it was last checked out, which no command here reads

File == Blob \cup {Missing}
Files == [Path -> File]

ASSUME CommitsAssumption == Commits \subseteq Files
ASSUME MissingAssumption == Missing \notin Blob
ASSUME MarksAssumption == {Open, Untracked} \cap (Blob \cup {Missing}) = {}

VARIABLES
    head,       \* the files of the commit HEAD names
    worktree,   \* the files in the git worktree
    index,      \* the staged files
    unmerged,   \* the paths with conflict stages in the index
    merging,    \* MERGE_HEAD exists
    base,       \* the files of the merge base, and ...
    theirs,     \* ... of MERGE_HEAD, while merging
    rows,       \* the working copy's rows, where its tracking names them
    asked,      \* while merging, what git's merge and the user say each path is to be ...
    decided     \* ... and how they said it; no command reads either

git == <<head, worktree, index, unmerged, merging, base, theirs>>
said == <<asked, decided>>
vars == <<git, rows, said>>

NoFiles == [p \in Path |-> Missing]
NoEdits == [p \in Path |-> Untracked]
Edited == {p \in Path : rows[p] # Untracked}
Strategy == {"ours", "theirs", "ancestor", "delete", "workingcopy"}

\* By content, from git's merge, a file or a restore; by a strategy; or by a side, of a
\* path that has no conflict any more.
Decision == {"content", "strategy", "sideAgain"}
ByContent == [p \in Path |-> "content"]

TypeOK ==
    /\ {head, worktree, index, base, theirs} \subseteq Files
    /\ unmerged \in SUBSET Path
    /\ rows \in [Path -> File \cup {Untracked}]
    /\ merging \in BOOLEAN
    /\ asked \in [Path -> File \cup {Open}]
    /\ decided \in [Path -> Decision]

-----------------------------------------------------------------------------
(* git's three-way merge of opaque blobs. *)

Conflicts(b, o, t) == {p \in Path : o[p] # t[p] /\ b[p] # o[p] /\ b[p] # t[p]}

\* The side that changed; in a conflict, ours, or theirs where ours has no file.
Merged(b, o, t) == [p \in Path |->
    IF b[p] = o[p] \/ (o[p] = Missing /\ b[p] # t[p]) THEN t[p] ELSE o[p]]

\* refresh_working_copy: a new file, with nothing tracked.
Refresh == rows' = NoEdits

MergeDone ==
    /\ merging' = FALSE /\ unmerged' = {}
    /\ base' = NoFiles /\ theirs' = NoFiles
    /\ asked' = NoFiles /\ decided' = ByContent

\* While merging, paths are to be as files have them.
Say(paths, files, how) ==
    IF merging
    THEN /\ asked' = [p \in Path |-> IF p \in paths THEN files[p] ELSE asked[p]]
         /\ decided' = [p \in Path |-> IF p \in paths THEN how[p] ELSE decided[p]]
    ELSE UNCHANGED said

\* `ggt merge branch`, and the merge in `ggt pull`.  git refuses one over staged
\* changes, and there are no others here.
Merge(b, t) ==
    /\ ~merging /\ worktree = head /\ index = head
    /\ b # t
    /\ worktree' = Merged(b, head, t)
    /\ unmerged' = Conflicts(b, head, t)
    /\ index' = worktree'
    /\ IF unmerged' = {}
       THEN /\ head' = worktree'
            /\ Refresh
            /\ UNCHANGED <<merging, base, theirs, said>>
       ELSE /\ merging' = TRUE /\ base' = b /\ theirs' = t
            /\ asked' = [p \in Path |-> IF p \in unmerged' THEN Open ELSE worktree'[p]]
            /\ decided' = ByContent
            /\ UNCHANGED <<head, rows>>

-----------------------------------------------------------------------------
(* cmd_resolve. *)

\* The version a strategy is for.
Version(p, s) ==
    CASE s = "ours"        -> head[p]
      [] s = "theirs"      -> theirs[p]
      [] s = "ancestor"    -> base[p]
      [] s = "delete"      -> Missing
      [] s = "workingcopy" -> worktree[p]

\* Mutant of CheckedOut: the merge base of HEAD with itself.
CheckedOutFromHead(p, s) ==
    LET version == IF s = "ancestor" THEN head[p] ELSE Version(p, s)
    IN  IF version = Missing /\ s # "delete" THEN worktree[p] ELSE version

\* What the strategy leaves in the worktree.  A git checkout of a version that
\* does not exist fails, and the command goes on; of a side of a path that has no
\* conflict any more, git checks out what is staged.
CheckedOut(p, s) ==
    LET version == IF s \in {"ours", "theirs"} /\ p \notin unmerged
                   THEN index[p] ELSE Version(p, s)
    IN  IF version = Missing /\ s # "delete" THEN worktree[p] ELSE version

\* git add refuses a path that neither the index nor the worktree knows.
Addable(p) == p \in unmerged \/ index[p] # Missing \/ worktree'[p] # Missing

\* Mutant of Stage: the paths count as resolved and are not added.
StageNothing(paths) ==
    /\ \A p \in paths : Addable(p)
    /\ unmerged' = unmerged \ paths
    /\ UNCHANGED index

Stage(paths) ==
    /\ \A p \in paths : Addable(p)
    /\ index' = [p \in Path |-> IF p \in paths THEN worktree'[p] ELSE index[p]]
    /\ unmerged' = unmerged \ paths

\* One path the user names, or every path list_conflicts() lists.  The command reports
\* them resolved with the strategy, whatever git did.
Resolve(paths, s) ==
    /\ paths # {}
    /\ s = "ancestor" => merging
    /\ worktree' = [p \in Path |-> IF p \in paths THEN CheckedOut(p, s) ELSE worktree[p]]
    /\ Stage(paths)
    /\ Say(paths, [p \in Path |-> Version(p, s)],
           [p \in Path |-> IF s \in {"ours", "theirs"} /\ p \notin unmerged
                           THEN "sideAgain" ELSE "strategy"])
    /\ UNCHANGED <<head, merging, base, theirs, rows>>

\* --with-file: one encoded GeoJSON feature.
ResolveWithFile(p, blob) ==
    /\ worktree' = [worktree EXCEPT ![p] = blob]
    /\ Stage({p})
    /\ Say({p}, worktree', ByContent)
    /\ UNCHANGED <<head, merging, base, theirs, rows>>

-----------------------------------------------------------------------------
(* Ending the merge. *)

\* Repository::commit: git add -A stages the worktree, conflicts and all.
CommitAll ==
    /\ index' = worktree'
    /\ head' = worktree'
    /\ MergeDone

\* `ggt merge --continue`.
Continue ==
    /\ unmerged = {}
    /\ UNCHANGED worktree
    /\ CommitAll
    /\ UNCHANGED rows

\* Mutant of Commit: the tracked rows are laid over the files of HEAD.
CommitOverHead ==
    /\ worktree' = [p \in Path |-> IF p \in Edited THEN rows[p] ELSE head[p]]
    /\ rows' = NoEdits
    /\ CommitAll

\* `ggt commit`: the tracked rows go into the worktree first.
Commit ==
    /\ worktree' = [p \in Path |-> IF p \in Edited THEN rows[p] ELSE worktree[p]]
    /\ rows' = NoEdits
    /\ CommitAll

\* `ggt merge --abort`, which leaves the working copy alone.
Abort ==
    /\ merging
    /\ worktree' = head /\ index' = head
    /\ MergeDone
    /\ UNCHANGED <<head, rows>>

\* `ggt reset commit`.
Reset(files) ==
    /\ head' = files /\ worktree' = files /\ index' = files
    /\ MergeDone
    /\ Refresh

\* `ggt switch branch`.  git takes staged changes along where the branches agree and
\* refuses where they do not, and does not leave a merge.
Switch(files) ==
    /\ ~merging
    /\ \A p \in Path : index[p] # head[p] => files[p] = head[p]
    /\ head' = files
    /\ worktree' = [p \in Path |-> IF index[p] = head[p] THEN files[p] ELSE worktree[p]]
    /\ index' = worktree'
    /\ Refresh
    /\ UNCHANGED <<unmerged, merging, base, theirs, said>>

\* `ggt restore datasets`: the files the source has are laid over those that are there,
\* conflicting or not.  Where git refuses a later dataset the command ends without the
\* refresh.
Restore(source) ==
    LET given == {p \in Path : source[p] # Missing}
    IN  /\ given # {}
        /\ worktree' = [p \in Path |-> IF p \in given THEN source[p] ELSE worktree[p]]
        /\ index' = [p \in Path |-> IF p \in given THEN source[p] ELSE index[p]]
        /\ unmerged' = unmerged \ given
        /\ Refresh \/ UNCHANGED rows
        /\ Say(given, source, ByContent)
        /\ UNCHANGED <<head, merging, base, theirs>>

\* A GIS edits a row.
Edit(p, r) ==
    /\ rows' = [rows EXCEPT ![p] = r]
    /\ UNCHANGED <<git, said>>

-----------------------------------------------------------------------------

Init ==
    /\ head \in Commits
    /\ worktree = head /\ index = head
    /\ unmerged = {} /\ merging = FALSE
    /\ base = NoFiles /\ theirs = NoFiles
    /\ rows = NoEdits
    /\ asked = NoFiles /\ decided = ByContent

\* What ggt does to git, and to the working copy as a consequence.
GitStep ==
    \/ \E b, t \in Commits : Merge(b, t)
    \/ \E s \in Strategy :
        \/ \E p \in Path : Resolve({p}, s)
        \/ Resolve(unmerged, s)
    \/ \E p \in Path, blob \in Blob : ResolveWithFile(p, blob)
    \/ Abort
    \/ \E files \in Commits : Reset(files) \/ Switch(files) \/ Restore(files)

Next ==
    \/ GitStep \/ Continue \/ Commit
    \/ \E p \in Path, r \in File : Edit(p, r)

Spec == Init /\ [][Next]_vars

-----------------------------------------------------------------------------
(* Properties. *)

InAllThree(p) == Missing \notin {base[p], head[p], theirs[p]}

\* --continue commits, for a feature both sides changed, the version the user last
\* chose, and for one that did not conflict what git made of it: where all three have
\* the feature, and a side was not asked for when the conflict was resolved already.
ContinueCommitsChoices ==
    [][Continue /\ merging =>
        \A p \in Path : InAllThree(p) /\ decided[p] # "sideAgain" => head'[p] = asked[p]]_vars

\* However the merge is committed, what git merged cleanly, a file that was given and
\* what was restored are in the commit, unless that row was edited.
MergedSurvives ==
    [][(Continue \/ Commit) /\ merging =>
        \A p \in Path \ Edited : asked[p] # Open /\ decided[p] = "content"
            => head'[p] = asked[p]]_vars

-----------------------------------------------------------------------------
(* The inductive invariant behind them. *)

\* Between commands git has staged what the worktree holds, conflicts apart, and
\* conflicts are those of a merge.
GitStateOK ==
    /\ \A p \in Path \ unmerged : index[p] = worktree[p]
    /\ unmerged \subseteq IF merging THEN Conflicts(base, head, theirs) ELSE {}
    /\ \A p \in unmerged : asked[p] = Open

\* A path that is decided holds what was decided, unless the version that was asked
\* for does not exist, or was a side's after the conflict was gone.
DecidedIsKept ==
    merging => \A p \in Path \ unmerged :
        \/ decided[p] = "content"
        \/ decided[p] = "strategy" /\ InAllThree(p)
        => worktree[p] = asked[p]

\* Through any sequence of resolutions, restores, edits and aborted merges.
MergeInvariant == TypeOK /\ GitStateOK /\ DecidedIsKept

=============================================================================
