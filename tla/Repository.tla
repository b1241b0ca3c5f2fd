----------------------------- MODULE Repository -----------------------------
(***************************************************************************)
(* A repository with branches, and the GeoPackage working copies beside    *)
(* its worktree: cmd_clone, cmd_branch, cmd_switch, cmd_merge, cmd_pull,   *)
(* cmd_resolve, cmd_reset, cmd_restore, cmd_checkout, cmd_commit and       *)
(* cmd_create_workingcopy of main.rs over Repository of repo.rs.           *)
(*                                                                         *)
(* Where the working copy is, is read from .geogit/workingcopy.json, a     *)
(* file of the worktree that is committed, merged and switched as every    *)
(* other: a command may find another file in use than the one before it,   *)
(* one that an earlier command left there.                                 *)
(*                                                                         *)
(* Git is external: what it merges is any outcome some merge base gives,   *)
(* and a command it refuses at once changes nothing.  A command that fails *)
(* later leaves what it did: rows written and not committed, datasets      *)
(* restored and no rebuild, a file that a rebuild had removed.  The files  *)
(* of the worktree and the working copy can be written and removed, but    *)
(* for the one a rebuild starts by removing.  The paths of working copies  *)
(* are those git ignores, named .gpkg, or outside the worktree.            *)
(***************************************************************************)
CONSTANTS
    Branch,     \* names of branches
    Feature,    \* the feature files of the datasets
    Value,      \* their contents
    Config,     \* the file .geogit/workingcopy.json
    Filter,     \* for each spatial filter of a branch, the contents it leaves out
    Place,      \* the paths create-workingcopy is given
    Default,    \* <directory>.gpkg, where it is without a configuration
    Missing,    \* no file, no row
    Broken,     \* what git's conflict markers make of the configuration
    None        \* no branch, no working copy

ASSUME ConfigAssumption == Config \notin Feature
ASSUME PlaceAssumption == Place \cap {Missing, Broken} = {}
ASSUME MissingAssumption == Missing \notin Value /\ Broken # Missing
ASSUME FilterAssumption == {} \in Filter /\ Filter \subseteq SUBSET Value

VARIABLES
    refs,       \* the files of each branch's commit
    branch,     \* the branch HEAD names
    worktree,   \* the files of the git worktree
    index,      \* the staged files
    unmerged,   \* the files with conflict stages
    merging,    \* MERGE_HEAD exists
    copies,     \* the GeoPackage at each path
    behind      \* why the file in use may not be of the worktree: "no"; "merge", which
                \* rebuilds nothing; "early", a command that failed before its rebuild;
                \* "midway", in it; or "kept", rows that were there.  No code keeps it,
                \* and where no file is in use nothing is behind.

git == <<refs, branch, worktree, index, unmerged, merging>>
vars == <<git, copies, behind>>

File == Feature \cup {Config}
Row == Value \cup {Missing}
Rows == [Feature -> Row]

Path == Place \cup {Default}

Contents(x) == IF x = Config THEN Place \cup {Missing} ELSE Row

Tree == {t \in [File -> Row \cup Place \cup {Broken}] :
            \A x \in File : t[x] \in Contents(x) \/ (x = Config /\ t[x] = Broken)}

\* Its rows, the version of the feature each was made from, the rows its tracking
\* names, and the branch they were made on.
Copy == [rows : Rows, from : Rows, edited : SUBSET Feature, on : Branch]

ASSUME NoneAssumption == None \notin Tree \cup Copy

TypeOK ==
    /\ refs \in [Branch -> Tree \cup {None}]
    /\ branch \in Branch /\ refs[branch] \in Tree
    /\ worktree \in Tree /\ index \in Tree
    /\ unmerged \in SUBSET File
    /\ merging \in BOOLEAN
    /\ copies \in [Path -> Copy \cup {None}]
    /\ behind \in {"no", "merge", "early", "midway", "kept"}

head == refs[branch]

-----------------------------------------------------------------------------
(* wc_path and refresh_working_copy. *)

Readable(files) == files[Config] # Broken

WcPath(files) == IF files[Config] = Missing THEN Default ELSE files[Config]

InUse == copies[WcPath(worktree)]

\* The features a command loads: .geogit/spatial-filter.json is of the branch and of the
\* clone, so that each command finds what filter it may, or none.
Shown(files, filter) == [f \in Feature |-> IF files[f] \in filter THEN Missing ELSE files[f]]
Views(files) == {Shown(files, filter) : filter \in Filter}

Empty == [f \in Feature |-> Missing]
Blank(b) == [rows |-> Empty, from |-> Empty, edited |-> {}, on |-> b]

\* checkout() of some datasets into a file: what the tree shows is inserted or replaced,
\* the other rows stay, and what was tracked of these datasets is forgotten.
Into(old, shown, b, done) ==
    [rows |-> [f \in Feature |-> IF f \in done /\ shown[f] # Missing THEN shown[f]
                                  ELSE old.rows[f]],
     from |-> [f \in Feature |-> IF f \in done THEN shown[f] ELSE old.from[f]],
     edited |-> old.edited \ done,
     on |-> IF old.edited \subseteq done THEN b ELSE old.on]

Kept(copy) == copy.rows # copy.from

\* refresh_working_copy: the file is removed, which may fail unnoticed, and the datasets
\* are checked out into the next, which may fail at its creation or at any of them.
Rebuild(path) ==
    \/ /\ copies' = [copies EXCEPT ![path] = None]
       /\ behind' = "no"
    \/ \E done \in SUBSET Feature, shown \in Views(worktree'),
         old \in {Blank(branch'), copies[path]} \ {None} :
        LET new == Into(old, shown, branch', done)
        IN  /\ copies' = [copies EXCEPT ![path] = new]
            /\ behind' = IF done # Feature THEN "midway" ELSE IF Kept(new) THEN "kept" ELSE "no"

\* The command fails before.
NotRebuilt ==
    /\ UNCHANGED copies
    /\ behind' = IF behind = "no" THEN "early" ELSE behind

\* Mutant of RefreshIfThere: the path is read before git moves the worktree.
RefreshWhereItWas ==
    IF ~Readable(worktree') THEN NotRebuilt
    ELSE IF Readable(worktree) /\ InUse # None THEN Rebuild(WcPath(worktree))
    ELSE UNCHANGED copies /\ behind' = "no"

\* What switch, merge, pull, reset and restore end with: they fail where the
\* configuration is no JSON, and rebuild the file that is there, if one is.
RefreshIfThere ==
    IF Readable(worktree') /\ copies[WcPath(worktree')] # None THEN Rebuild(WcPath(worktree'))
    ELSE IF Readable(worktree') THEN UNCHANGED copies /\ behind' = "no" ELSE NotRebuilt

-----------------------------------------------------------------------------
(* git: what it does to a worktree with changes of its own. *)

Clean(x) == worktree[x] = index[x] /\ index[x] = head[x]

\* Moving HEAD to files keeps changes where they do not meet it, and is refused else.
Movable(files) ==
    \A x \in File : Clean(x) \/ files[x] = head[x] \/ files[x] = index[x]

MoveTo(files) ==
    /\ worktree' = [x \in File |-> IF Clean(x) THEN files[x] ELSE worktree[x]]
    /\ index' = [x \in File |-> IF index[x] = head[x] THEN files[x] ELSE index[x]]

\* What a conflict leaves in the worktree: ours of two blobs, markers in two texts,
\* the only one of one.
Conflicted(x, theirs) ==
    IF head[x] # Missing /\ theirs[x] # Missing
    THEN IF x = Config THEN Broken ELSE head[x]
    ELSE IF head[x] = Missing THEN theirs[x] ELSE head[x]

NotMerging == ~merging /\ unmerged = {}
MergeDone == merging' = FALSE /\ unmerged' = {}

-----------------------------------------------------------------------------
(* Branches. *)

\* `ggt branch name`.
CreateBranch(b) ==
    /\ refs[b] = None
    /\ refs' = [refs EXCEPT ![b] = head]
    /\ UNCHANGED <<branch, worktree, index, unmerged, merging, copies, behind>>

\* `ggt branch -d name`.
DeleteBranch(b) ==
    /\ b # branch /\ refs[b] # None
    /\ refs' = [refs EXCEPT ![b] = None]
    /\ UNCHANGED <<branch, worktree, index, unmerged, merging, copies, behind>>

\* `ggt switch name`, of the branch that is checked out as well.
Switch(b) ==
    /\ NotMerging
    /\ refs[b] # None /\ Movable(refs[b])
    /\ branch' = b
    /\ MoveTo(refs[b])
    /\ RefreshIfThere
    /\ UNCHANGED <<refs, unmerged, merging>>

\* Mutant of SwitchToNew: nothing moved, so nothing is rebuilt.
SwitchToNewKeeping(b) ==
    /\ NotMerging
    /\ refs[b] = None
    /\ refs' = [refs EXCEPT ![b] = head]
    /\ branch' = b
    /\ UNCHANGED <<worktree, index, unmerged, merging, copies, behind>>

\* `ggt switch -c name` moves no file, and rebuilds the working copy all the same.
SwitchToNew(b) ==
    /\ NotMerging
    /\ refs[b] = None
    /\ refs' = [refs EXCEPT ![b] = head]
    /\ branch' = b
    /\ UNCHANGED <<worktree, index, unmerged, merging>>
    /\ RefreshIfThere

-----------------------------------------------------------------------------
(* Merging; `ggt pull` merges what it fetched. *)

\* Each file as a side has it; theirs may be any commit, and so may be what comes of it.
MergeCleanly(merged) ==
    /\ NotMerging
    /\ Movable(merged)
    /\ MoveTo(merged)
    /\ refs' = [refs EXCEPT ![branch] = merged]
    /\ UNCHANGED <<branch, unmerged, merging>>
    /\ RefreshIfThere

\* The command prints the conflicts, or fails if it is a pull; neither rebuilds.  Where
\* nothing conflicts, theirs is what merges.
MergeConflicts(theirs) ==
    /\ NotMerging
    /\ index = head
    /\ \E open \in SUBSET {x \in File : head[x] # theirs[x]} \ {{}} :
        /\ \A x \in File : Clean(x) \/ (theirs[x] = head[x] /\ x \notin open)
        /\ worktree' = [x \in File |->
                IF x \in open THEN Conflicted(x, theirs)
                ELSE IF Clean(x) THEN theirs[x] ELSE worktree[x]]
        /\ index' = [x \in File |-> IF x \in open THEN worktree'[x] ELSE theirs[x]]
        /\ unmerged' = open
    /\ merging' = TRUE
    /\ behind' = "merge"
    /\ UNCHANGED <<refs, branch, copies>>

\* `ggt resolve`: a side's version, the merge base's, a file's, none, or as git left it.
Resolve(x) ==
    /\ x \in unmerged
    /\ \E version \in Contents(x) \cup {worktree[x]} :
        /\ worktree' = [worktree EXCEPT ![x] = version]
        /\ index' = [index EXCEPT ![x] = version]
    /\ unmerged' = unmerged \ {x}
    /\ behind' = "merge"
    /\ UNCHANGED <<refs, branch, merging, copies>>

\* `ggt merge --abort`: files that were changed and not staged stay as they are.
Abort ==
    /\ merging
    /\ \A x \in File \ unmerged : worktree[x] = index[x] \/ index[x] = head[x]
    /\ worktree' = [x \in File |->
            IF x \in unmerged \/ worktree[x] = index[x] THEN head[x] ELSE worktree[x]]
    /\ index' = head
    /\ MergeDone
    /\ behind' = "merge"
    /\ UNCHANGED <<refs, branch, copies>>

\* Repository::commit: git add -A, git commit.
CommitAll ==
    /\ index' = worktree'
    /\ refs' = [refs EXCEPT ![branch] = worktree']
    /\ MergeDone
    /\ UNCHANGED branch

\* git refuses the commit, when everything is staged or before.
Refused ==
    /\ \/ index' = worktree' /\ unmerged' = {}
       \/ UNCHANGED <<index, unmerged>>
    /\ UNCHANGED <<refs, branch, merging>>

\* `ggt merge --continue`.
Continue ==
    /\ unmerged = {}
    /\ UNCHANGED <<worktree, copies, behind>>
    /\ CommitAll

ContinueFails ==
    /\ unmerged = {}
    /\ UNCHANGED <<worktree, copies, behind>>
    /\ Refused

-----------------------------------------------------------------------------
(* The working copy. *)

\* Mutant of Sync: a commit of some rows forgets the others.
SyncForgettingAll(written, cleared) ==
    /\ worktree' = [x \in File |-> IF x \in written THEN InUse.rows[x] ELSE worktree[x]]
    /\ copies' = IF InUse = None THEN copies
                 ELSE [copies EXCEPT
                        ![WcPath(worktree)].from =
                            [f \in Feature |-> IF f \in written THEN InUse.rows[f] ELSE @[f]],
                        ![WcPath(worktree)].edited = {}]

\* sync_wc_to_tree: rows of the file in use, if one is there, go into the worktree, and
\* the tracking forgets some or all of these.
Sync(written, cleared) ==
    /\ worktree' = [x \in File |-> IF x \in written THEN InUse.rows[x] ELSE worktree[x]]
    /\ copies' = IF InUse = None THEN copies
                 ELSE [copies EXCEPT
                        ![WcPath(worktree)].from =
                            [f \in Feature |-> IF f \in written THEN InUse.rows[f] ELSE @[f]],
                        ![WcPath(worktree)].edited = @ \ cleared]

Tracked == IF InUse = None THEN {} ELSE InUse.edited

\* `ggt commit` of everything or of what its filters name.
Commit ==
    /\ Readable(worktree)
    /\ \E written \in SUBSET Tracked : Sync(written, written)
    /\ CommitAll
    /\ UNCHANGED behind

\* It fails while it writes the rows, or when git refuses.
CommitFails ==
    /\ Readable(worktree)
    /\ \E written \in SUBSET Tracked :
        \/ Sync(written, written) /\ Refused
        \/ /\ \E cleared \in SUBSET written : Sync(written, cleared)
           /\ UNCHANGED <<refs, branch, index, unmerged, merging>>
    /\ UNCHANGED behind

\* A GIS inserts, updates or deletes a row of a file, in use or not.
Edit(path, f, r) ==
    /\ copies[path] # None
    /\ r # Missing \/ copies[path].rows[f] # Missing
    /\ copies' = [copies EXCEPT ![path].rows[f] = r, ![path].edited = @ \cup {f}]
    /\ UNCHANGED <<git, behind>>

\* `ggt reset commit`: untracked files stay.
Reset(files) ==
    /\ worktree' = [x \in File |->
            IF files[x] = Missing /\ head[x] = Missing /\ index[x] = Missing
            THEN worktree[x] ELSE files[x]]
    /\ index' = files
    /\ refs' = [refs EXCEPT ![branch] = files]
    /\ MergeDone
    /\ UNCHANGED branch
    /\ RefreshIfThere

\* `ggt restore dataset ...`: the files the source has, of datasets only; a dataset the
\* source does not have ends the command, those before it restored.
Restore(given, files) ==
    /\ worktree' = [x \in File |-> IF x \in given THEN files[x] ELSE worktree[x]]
    /\ index' = [x \in File |-> IF x \in given THEN files[x] ELSE index[x]]
    /\ unmerged' = unmerged \ given
    /\ UNCHANGED <<refs, branch, merging>>
    /\ \/ RefreshIfThere
       \/ NotRebuilt

\* `ggt checkout` of every dataset or of those named, into the file that is there or a
\* new one; it may fail after some.
Checkout ==
    /\ Readable(worktree)
    /\ \E done \in SUBSET Feature, shown \in Views(worktree) :
        LET old == IF InUse = None THEN Blank(branch) ELSE InUse
            new == Into(old, shown, branch, done)
        IN  /\ copies' = [copies EXCEPT ![WcPath(worktree)] = new]
            /\ behind' = IF done = Feature THEN IF Kept(new) THEN "kept" ELSE "no"
                         ELSE IF InUse = None \/ \E f \in done : new.rows[f] # new.from[f]
                         THEN "kept" ELSE behind
    /\ UNCHANGED git

\* `ggt create-workingcopy place` leaves the file that was in use where it is.
CreateWorkingCopy(place) ==
    /\ worktree' = [worktree EXCEPT ![Config] = place]
    /\ UNCHANGED <<refs, branch, index, unmerged, merging>>
    /\ Rebuild(place)

-----------------------------------------------------------------------------

\* `ggt clone`: git's worktree, and no working copy.
Init ==
    /\ branch \in Branch
    /\ worktree \in Tree /\ Readable(worktree)
    /\ index = worktree
    /\ refs = [b \in Branch |-> IF b = branch THEN worktree ELSE None]
    /\ unmerged = {} /\ merging = FALSE
    /\ copies = [p \in Path |-> None]
    /\ behind = "no"

MergeStep ==
    \/ \E theirs \in Tree : MergeCleanly(theirs) \/ MergeConflicts(theirs)
    \/ \E x \in File : Resolve(x)
    \/ Abort \/ Continue \/ ContinueFails

BranchStep == \E b \in Branch : CreateBranch(b) \/ DeleteBranch(b) \/ Switch(b) \/ SwitchToNew(b)

CopyStep ==
    \/ Commit \/ CommitFails \/ Checkout
    \/ \E place \in Place : CreateWorkingCopy(place)
    \/ \E path \in Path, f \in Feature, r \in Row : Edit(path, f, r)

Next ==
    \/ CopyStep \/ MergeStep \/ BranchStep
    \/ \E files \in Tree : Reset(files)
    \/ \E given \in SUBSET Feature : \E files \in [given -> Value] : Restore(given, files)

Spec == Init /\ [][Next]_vars

-----------------------------------------------------------------------------
(* Properties. *)

\* What a filter hides.
Hidden(f) == worktree[f] \in UNION Filter

\* The rows of the file in use were made from the features the worktree holds or, where
\* a filter hid these, from none; those that are not tracked are what they were made
\* from; and so a commit writes no row over a version of a feature it was not made from but
\* a hidden one; unless a merge was left to the user since the file was rebuilt, or a
\* command failed between moving the worktree and the end of its rebuild.
RowsAreOfTheWorktree ==
    behind = "no" /\ InUse # None =>
        \A f \in Feature :
            /\ \/ InUse.from[f] = worktree[f]
               \/ InUse.from[f] = Missing /\ Hidden(f)
            /\ f \notin InUse.edited => InUse.rows[f] = InUse.from[f]

\* The edits a file in use tracks were made on the branch that is checked out, wherever
\* the files of working copies were left when branches with other configurations were
\* switched to.
EditsStayOnTheirBranch == behind = "no" /\ InUse # None => InUse.on = branch

\* Between commands, with a readable configuration where the working copy is in step.
RepositoryInvariant ==
    /\ TypeOK
    /\ behind = "no" => Readable(worktree)
    /\ RowsAreOfTheWorktree
    /\ EditsStayOnTheirBranch

=============================================================================
