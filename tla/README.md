# A formal model of geogit

`ggt` (GeoLang/geogit) versions geospatial tables with git. This directory holds TLA+ modules of
its core, the TLC runs that check them on small instances, and proofs that TLAPS checks for every
value of the constants. `PROJECT.json` maps each definition to the lines of the program it stands
for. Paths below are relative to the repository.

## The system

A repository is a git worktree. A dataset is a directory `<path>/.table-dataset` with one file per
feature (`feature/...`) and `meta/` (`schema.json`, `title`, `path-structure.json`, CRS files, and
`legend/<hash>` files that give the order of the columns in a feature). A GeoPackage beside it, the
*working copy*, holds a table per dataset for a GIS to edit. Triggers on each table write a log
(`_geogit_track`: key and kind of change) and keep the row as it was checked out
(`_geogit_track_old`). `ggt commit` turns the log into feature files, clears it and runs git.

| Component | State | Operations | Source | Modules |
|---|---|---|---|---|
| Change tracking | log, saved rows, triggers | triggers, clear, clear_feature | `geogit-wc/src/tracking.rs` | `TrackedTable` |
| Commit | feature files, HEAD, the command's locals | status, write and remove files, clear, git commit | `main.rs` `sync_wc_to_tree`, `gpkg.rs` `status`, `repo.rs` `commit` | `CommitSync`, `VersionedTable` |
| Checkout and rebuild | the table, its triggers and registration | checkout, refresh_working_copy | `gpkg.rs` `checkout`, `main.rs` | `WorkingCopy` |
| Registry of datasets | `gpkg_contents`, `gpkg_geometry_columns`, table names | checkout, list_datasets, filters of commit | `gpkg.rs`, `main.rs` | `Datasets` |
| Import, stored features | `schema.json`, legends, feature files | three imports, decode, commit, rebuild | `tree.rs`, `legend.rs`, `main.rs` | `StoredFeatures` |
| Merge and resolution | HEAD, index, worktree, conflict stages, rows | merge, pull, resolve, continue, abort, reset, switch, restore, commit | `main.rs`, `repo.rs` | `MergeResolve` |
| Repository and its working copies | branches, worktree, index, `workingcopy.json`, a GeoPackage per place | branch, switch, merge, pull, resolve, abort, reset, restore, checkout, create-workingcopy, commit | `main.rs`, `repo.rs` | `Repository` |
| Geometry encoding, spatial filter | blobs in sources, tree and rows | normalise, stamp, measure, filter | `geometry.rs`, `value.rs`, `main.rs` | `Geometry` |
| Reading a tree at a ref (export) | a batch process, a thread, two pipes | ls-tree, cat-file --batch, matching | `repo.rs` `read_files_at`, `main.rs` `load_features_at` | `ReadAt` |
| Feature paths | none | pure functions | `path.rs` | the key stands for the path; the int scheme's panic in `CommitSync` |
| Values, schemas, reference systems | none | pure functions | `geogit-encoding` | geometry values in `Geometry`, columns in `StoredFeatures` |
| Export formats, tiles, files, metadata, LFS, printing | files written once | one command each | `main.rs` | not modelled |

How they interact. A GIS and `ggt` share only the GeoPackage file: the GIS may run a statement
between any two of `ggt`'s, because nothing is in one transaction but the insertion of a checkout's
features. `ggt` commands share the worktree, the index and the GeoPackage with the commands before
them, those that failed or died included: there is no journal and nothing is undone.

What is hard here, and where it is modelled:

- *interleaving* of a GIS's statements with those of a commit (`CommitSync`, `RacySpec`), and of an
  export's thread, git and command with one another and with commits of other processes (`ReadAt`);
- *crashes* between any two statements and inside a file: `CommitSync` `FaultySpec`, `WorkingCopy`, `StoredFeatures`;
- *partial failure*: git refusing a commit after the tracking is cleared, `git checkout` failing
  inside resolve, a checkout refused by a foreign key or by a table's columns, a restore that fails at its
  second dataset, a rebuild that fails when the old file is gone, or starts by failing to remove it, a listing
  that git fails to make;
- *ordering*: the last entry of a key decides; the order of checkouts decides identifiers;
- *stale state*: rows after a merge, saved rows after edits, legends after an import, GeoPackages left at
  a place that a branch switched to later configures (`Repository`);
- *round trips*: a geometry passes five encodings between a source, the tree and the working copy, and
  must come back as the same bytes if nobody drew it (`Geometry`).

`PROJECT.json` lists each hazard at its line with the properties that would catch it.

## Modules

| Module | Extends | Models |
|---|---|---|
| `TrackedTable` | | one table with its log, saved rows and triggers, and a GIS's statements |
| `VersionedTable` | | the abstract commit: a table, what is committed of it, and what a running commit was asked for |
| `CommitSync` | `TrackedTable` | `ggt commit [dataset[:pk]]`, a step per SQLite statement or file-system call |
| `WorkingCopy` | `TrackedTable` | a table's life: made, rebuilt, checked out over, edited, committed |
| `Datasets` | | the tables of all datasets, and which of them a command reaches |
| `StoredFeatures` | `SequencesExt` | imports over one another, and what the stored features read as |
| `MergeResolve` | | the git commands with the working copy beside them |
| `Repository` | | branches, merges and the GeoPackages beside the worktree, one of them in use |
| `Geometry` | `FiniteSets` | one feature's geometry in file and row, and the filter |
| `ReadAt` | `SequencesExt` | reading a dataset at a ref through `git cat-file --batch` |
| `CommitSyncProof`, `WorkingCopyProof`, `MergeResolveProof`, `DatasetsProof`, `GeometryProof`, `RepositoryProof`, `ReadAtProof`, `StoredFeaturesProof` | the module, `TLAPS` | theorems |
| `MC*` | the module | values for TLC |

Data is abstracted. In `TrackedTable`, `CommitSync` and `WorkingCopy` a row is one value of
`Content`; in `MergeResolve` a file is an opaque `Blob`, as the program treats it. Only
`StoredFeatures` has columns, since its properties are about them. A feature's path is its key (the
file name is the encoded key, so paths of two keys differ). There is one integer key column.

A commit is many steps in `CommitSync` and one step in `WorkingCopy`, `StoredFeatures` and
`MergeResolve`. That this is sound while nothing disturbs the commit is the refinement
`CommitSync` => `VersionedTable`, checked by TLC and proved.

### CommitSync

`pc` is where the command is: "log" (`get_changes`), "row"/"old" (`status`: `read_row`,
`old_values` for each entry), "retain" (the filter), "file"/"fill" (`std::fs::write` truncates,
then writes), "clear log"/"clear old" (`clear_tracking`), "clear log of"/"clear old of"
(`clear_feature_tracking` of each delta), "git". `changes`, `deltas`, `todo` and `seen` are the
locals of `status` and `sync_wc_to_tree`. `tree` is the worktree, `head` the last commit. A delta
without a row or a saved row has a *text* key; the int path scheme panics on it
(`PanicOnTextKey`). The specifications differ in what may happen around the command: `CalmSpec`
(nothing; `CalmFairSpec` with fairness), `FaultySpec` (git refuses, crashes, and files that cannot be removed),
`KeyEditSpec` (edits of keys), `RacySpec` (edits at any time).

Of what `FaultySpec` lets happen, one thing contradicts what the program prints: `sync_wc_to_tree` clears
the tracking before git commits, so that after a refused commit (no identity, a hook, a lock) `ggt status`
says "Nothing to commit, working copy clean" (`main.rs:1992`) although HEAD does not have the edits.
`CleanMeansCommitted` is therefore a property of `CalmSpec`; that the worktree has the edits, and the next
commit takes them, is `UntrackedRowsMatchTree`.

The failure to remove a deleted row's file is dropped (`KeepFile`, `main.rs:983`) and the tracking cleared, so the
deletion is in no commit until the row is there again. `stuck`, which the code does not keep, is the keys of such
files; `LeftBehind` excepts them from the properties as long as they have no row: a new row of the key is
tracked, committed and removed like any other.

### WorkingCopy

A rebuild is "remove" (the file), "create", "contents", "features" (one transaction), "triggers"
(three), "clear log", "clear old". `ggt checkout` starts at "create" with the file that is there.
`Crash` ends it anywhere, and the removal of the old file may fail unnoticed (`RemoveFileFails`). `Hidden` is
the spatial filter. `fresh` is a history variable: the file was removed since the last crash, failed removal or
checkout over an existing table.

### Datasets

Titles, table names (`/` becomes `_`), the unique identifier of `gpkg_contents` and what INSERT OR
REPLACE does to the other row that has it, refused when `gpkg_geometry_columns` references that row.
`todo` is what a multi-dataset command has still to check out; it stops at the first refusal, or at a dataset
whose rows do not fit the table that is there. `TableName` is any function: nothing in the program keeps `a/b` and
`a_b` apart, so `holds` has the datasets that were checked out into each table, and `edited` has, as history, the
dataset each change was made in. A commit knows the table only, and writes to the dataset whose path is its name.
`ChangesGoHome` says that a change goes to another dataset only so.

`IdentifierOf` takes the table's name where the title is in use. That name may be an identifier as well, since any
title may be a table's name: of a table with a geometry, and the checkout fails (`Refused`), or of one without, which
then drops out of `gpkg_contents`, so that no command looks at its edits from then on. The run `Datasets` and the
proofs have datasets with a geometry only.

### StoredFeatures

An import writes `schema.json`, the legend, each feature, and then checks the table out; it can
die between any two or leave any of these files torn (`broken` for those that are no feature's). The importers of
GeoPackages, shapefiles and PostGIS tables write the same files in the same order and are one action. Column ids are numbers never given before. The key is a
column of the schema and of the table, so that a table of keys only differs from no table. `wanted` is a
history variable: the row last written to each feature, all NULL after an import that did not write
it. A feature whose own legend has no file, because an import died before it, is passed over by every
reader, and `FeaturesLoadAsWritten` excepts such a feature and no other. A GIS may rename columns;
`TreeIsReadable` fails on a torn feature, schema or legend, and the rebuild then leaves no table. A torn schema is
replaced by the next import; a torn legend is not, as each import names a legend of its own.

### MergeResolve

git's three-way merge, conflict stages, `git add` and `git checkout --ours` are external and
modelled by what the commands see of them. `asked` and `decided` are history variables: what git's merge and the
user last said each path is to become, and how. A side that is asked for when the path has no conflict any more is
not taken, though the command reports it, and `ContinueCommitsChoices` excepts it. `Commits` is the set of commits
that merges, resets and restores name, any set in the proofs. Every stored geometry has a zero byte in its header, so
git merges no lines of those blobs.

`merge --continue`, and a merge that conflicts, do not rebuild the working copy, though `README.md:136`
says that `merge` does: the copy shows the rows of before the merge, and an edit of one is later committed
over the merged feature. `MergedSurvives` excepts edited rows for that reason, and `Repository` has a
variable for it.

### Repository

The layer above `MergeResolve`: branches, and where the working copy is. `wc_path` reads
`.geogit/workingcopy.json` from the worktree, and `git add -A` commits that file, so its content moves with
switch, merge, pull and reset: `Config` is one of the files of a tree, `WcPath` follows it, and `copies` has
the GeoPackage at every path, in use or left there. Each copy remembers, as history, the version each row
was made `from` and the branch it was made `on`. Each command reads the path after git has moved the
worktree, and rebuilds only a file that is there (`RefreshIfThere`). Two branches that configure different
places conflict in that file: with git's markers in it it is no JSON (`Broken`), and commands fail after git
has acted. Git's merge is any outcome that some merge base gives. Places are ignored by git or outside the worktree; `reset`
and `pull` bring any tree. Imports are `StoredFeatures`'.

Commands fail where they can. A rebuild (`Rebuild`) may fail after the old file was removed, at the creation of the
next or at any dataset, and its removal may fail unnoticed. `ggt restore a typo` restores `a` and returns before the
rebuild (`NotRebuilt`). A commit may fail while it writes rows, or be refused by git with the rows written and the
tracking cleared (`CommitFails`); `--continue` may be refused with everything staged (`ContinueFails`). What git
refuses at once changes nothing. The filter is a set of contents that are hidden: `spatial-filter.json` is of the
branch and of the clone, so each command may find any of the filters. `behind` is a history variable that says
why the file in use may not be of the worktree: a merge that was left to the user, which rebuilds nothing ("merge"),
a command that failed before its rebuild ("early") or in it ("midway"), or rows that were there before ("kept": a
checkout, or a removal that failed). The properties hold where it is "no": before any such thing, and from the next
whole rebuild on.

### Geometry

A blob is a header (byte order, srs id, empty flag, extended flag, envelope) and WKB (a byte order and a
shape: kind, dimensions, coordinates). The file keeps it as an extension value, or, from old repositories, as
an array of integers; a row keeps it stamped with the table's srs id. `Normalise` is
`normalise_gpkg_geometry`, with its short cut for a blob in the right form. A coordinate has an ordinate on every axis
of its type, x, y, z and m; big-endian WKB is written anew by geozero (`ToWkb`), which keeps the axes it is told,
those that `WkbDimensions` reads off the type code. `FromText` is what PostGIS, shapefile and GeoJSON sources become:
`ST_AsText`, the program's own well-known text and geozero's reading of text have x and y only. Text without a
coordinate stays text, which no other command measures. `fileGiven` and `rowGiven` are history variables: the
geometry that was last put in file and row as it was given, before any of this; `fresh` says that the row's geometry is the file's.
A source's envelope is that of its own coordinates,
as the program trusts it to be.

### ReadAt

The writer thread, git and the command each have their steps; `stdin` and `stdout` are pipes of `Capacity`
parts, an answer is a header and a body. `RefMoves` is another process's commit: every request of a batch
resolves `ref:path` anew, so that an export can mix two commits; `ExportedWasThere` says what it has in that case, `ExportIsTheTree` when the ref stays. `ls_tree` and `ls_tree_recursive` answer an empty list for any
failure of git: `ListAndSpawn` may find nothing, `unlisted` remembers, as history, of which directory, and the export
is then done without a feature. `GitDies` loses the rest of an answer.

## Runs

Every passing run reaches its whole state space. "mutant" in a module's comments names an operator
that is a plausible bug; each property of a passing run is violated when one replaces a definition.

| Run | Bounds | Shows |
|---|---|---|
| `CommitSync_faulty` | 2 keys, 2 contents, log of 3 | with refused commits, crashes at every statement and files that cannot be removed: no edit is forgotten but the deletion of such a file's row (`UntrackedRowsMatchTree`), a commit that reaches git has every chosen row (`ChosenFilesAreRows`), no panic (`NoTextKey`), and the invariant of the proof |
| `CommitSync_calm` | 2 keys, 2 contents, log of 4 | undisturbed: nothing else is committed, a clean status means committed, refinement of `VersionedTable`, and a started commit ends |
| `WorkingCopy` | 2 keys, 2 contents, one hidden | what a rebuild leaves, what untracked and saved rows are, through crashes and failed removals |
| `MergeResolve` | 2 files, 3 contents, commits of one content in all the files they have (`MCCommits`), symmetry | --continue commits the last choices that git takes, merged files survive a commit |
| `Datasets` | 3 spatial datasets, two of them, one nested, with one table; titles that are names and one that is not | tables stay listed, changes go home or to the dataset of the table's name, a commit reaches all such tables |
| `StoredFeatures` | 2 keys, sources of two, one or no columns and the key, 5 column ids | features read as last written through imports, crashes and renames |
| `Geometry` | 6 shapes, one of each type, one empty, two touching the filter; 2 srs ids; every byte order and right envelope | one stored form, no lost or misplaced ordinate, untouched bytes, only empty geometries refused (`OnlyEmptyIsRefused`), nothing inside the filter left out |
| `ReadAt` | 2 legends, 3 features, 3 trees, pipes of 1 | each blob is its path's, failures have causes, the three never all wait (`NoMutualWait`), exports end |
| `Repository` | 1 feature, 1 value, 2 branches, 2 paths, a filter that hides the value or none, symmetry of the branches | rows in use are of the worktree, edits stay on their branch, and the invariant of the proof, through every failure |

Violations, each a disagreement of the code with its own documentation or assertion:

| Run | Property | Disagreement |
|---|---|---|
| `CommitSync_racy` | `UntrackedRowsMatchTree` | an edit made during a commit is cleared without being written |
| `CommitSync_panic` | `NoTextKey` | after an insert and a change of key, commit panics, then and on every later run |
| `Geometry_empty` | `FreshRowsCommit` | an empty geometry that was re-encoded loses its flag, and later commits of its row fail |

Other disagreements are in the models as what the code does; the properties that pass except just these, and say
what holds instead:

| Document | Code | In the models |
|---|---|---|
| `README.md:134` "`ggt commit` writes those rows into the tree" | the table of `a/b` is `a_b`; commit looks for the dataset of a table at the path of its name, and passes over the table where none is there (`main.rs:941`) | `Written` in `Datasets`; `CommitReachesEveryTable` is of tables whose name is a dataset's path |
| the same | a deleted row's file that cannot be removed stays, and the deletion is cleared from the tracking (`main.rs:983`) | `KeepFile` in `CommitSync`; its properties except `LeftBehind` |
| `README.md:186` "optionally only the named datasets" | a commit of `a_b` takes the rows of `a/b` from the table of both (`gpkg.rs:221`) | `ChangesGoHome` excepts two datasets of one table |
| `CHANGELOG.md:38-40`, a shared title keeps both tables and no longer fails | the name taken in the place of the title may be a third table's identifier (`gpkg.rs:282-284`) | `Refused` and `Displaced` in `Datasets` |
| `README.md:145`, `--ours` and `--theirs` pick a whole blob and `--continue` commits | of a path that was resolved already, the choice is reported and not taken (`main.rs:2470-2473`) | "sideAgain" in `MergeResolve` |
| `CHANGELOG.md:25` "reads every feature and legend" | a listing that git fails to make is an empty one (`repo.rs:474`, `repo.rs:492`) | `unlisted` in `ReadAt` |
| `main.rs:2541` "by reading from that commit's tree" | each request resolves the ref anew (`repo.rs:418`) | `seen` in `ReadAt` |
| `README.md:136` "rebuild the working copy from the tree" | a merge left to the user does not; nor does `ggt restore a typo`, which restores `a` and returns before (`main.rs:2314-2318`) | `behind` in `Repository` |
| `README.md:158` "The tree keeps every feature." | a new row with the key of a hidden feature is written over it (`main.rs:968-978`) | `RowsAreOfTheWorktree` excepts hidden features |

Why the bounds are enough. Keys interact only through the log's order and the command's filter, for
which two suffice; a log of three holds two entries of one key with another's between. Crashes and
commands repeat without bound. `CommitSync_faulty` compares states by everything but `head` (`ButHead`), which
only git's commit sets and nothing in that run reads, its type aside. Five ids are an
import of two columns and the key and one of one column, in either order, or two of one column and one of the key
only, among others, with a column that changes its place between them; two imports are the least in which a
feature of an import before the last is read. Three datasets let one displace another while
a third shares the title; two of them have one table.

A row's
feature, file and saved version in `Repository` are of one feature at a time, so one feature is enough; two
paths let one be in use and one be left behind, two branches let them configure either; the theorems have any number
of each. The run compares states but for what no command reads (`WhatCommandsRead`): the reason in `behind`, and the
`from` of a copy that is not in use or is behind, which its next whole rebuild writes anew before a property asks for
it; the theorems do without this. `Geometry` has no
interaction of two features; its shapes have each combination that a branch of the code tells apart. With pipes
of one part every wait for a full pipe happens; three files let a missing one stand between two.

Fairness. `CommitEnds` needs `WF(Sync \/ GitCommit)`: a process that was started goes on, and git answers it.
`ExportEnds` needs weak fairness of each of the writer thread, git and the command: three processes the
operating system schedules. Nothing is assumed of a GIS or other processes, nor that a command is ever
started. Nothing else in the program runs by itself, so nothing else must eventually happen.

Deadlock is checked in every run.

## Proofs

The assumptions are those of the modules: `Absent`, `NoOld` and the like are no contents, the key
sets are arbitrary (finite only where stated), `Hidden` is any set of contents, `TableName` any
function. `BoxAssumption`: a filter is a box of integers. `NameAssumption`: a
legend's path is no feature's, and both are finitely many, as the files of a tree are. `NoFileAssumption`, `MaxIdAssumption`, and in `OrdersAssumption` that each
source has its key column, once, among columns that differ.

`CommitSyncProof` (`FaultySpec`, `CalmSpec`). The safety properties are not inductive: that a
cleared row is in its file depends on the log the command read at its start. `SyncInvariant` adds
`LogTellsPresence` (the last entry of a key says whether its row exists, and a row that is gone was
saved under its own key), `PassOverLog` and `DeltasTellRows` (deltas are entries of the log, and tell
the rows as they are), `TodoReachesRows` (the deltas still to do bring each chosen file to its row,
the last one of its key deciding) and `ClearedIsWritten`. From it: `NoEditForgotten`,
`CommitIsComplete`, `CommitNeverPanics`. `CalmInvariant` adds that worktree and HEAD differ only where
the running command was asked to; from it `CommitIsExact`, `CleanIsCommitted` and the refinement
`CommitRefines`. What of `CommitEnds` is safety is proved too, of `FaultySpec`: a command that runs has the entry or
delta its next statement needs (`CommitNeverStalls`: a finite set of rowids has a least), and each step
takes from `Left`, a natural number made of the sizes of the log and of what is read and written of it
(`CommitGetsThere`).

`WorkingCopyProof` (`Spec`). `CopyInvariant` says what the statements of a build have made so far
(`BuildProgress`), and that a tracked key without a saved row was inserted where the tree shows none;
from it `RebuildAlwaysFresh`, `UntrackedIsTheTree`, `SavedIsCheckedOut`.

`DatasetsProof` (`Spec`, every dataset spatial, any table names). `RegistryInvariant`: `gpkg_geometry_columns` has
every listed table, so that a checkout that is not refused displaces nothing, each table is there for datasets of the
tree that have its name, and the changes in it are theirs; from it `TablesStayListed`, `ChangesAlwaysGoHome`,
`CommitReaches`. Without the assumption the first is false (see Datasets above).

`MergeResolveProof` (`Spec`). `MergeInvariant`: what is not in conflict is staged as it is in the
worktree (`GitStateOK`), the conflicts are among those of the merge, and a decided path holds what was
decided (`DecidedIsKept`), except where the version asked for does not exist, since `git checkout`
then fails and the command goes on, and except a side that was asked for when the conflict was gone; from it
`ChoicesAreCommitted`, for features all three sides have, and `MergedIsCommitted`.

`GeometryProof` (`Spec`). `GeometryInvariant`: a blob's envelope is of its own coordinates, a stored one is in
Kart's form, file and row hold what they were given, and a fresh row normalises to the file's bytes. The argument is
algebra of three operators: `ToWkb` with a shape's own dimensions is the shape, because `WkbDimensions` inverts
`Thousands`, so that `Normalise` keeps every ordinate; it yields Kart's form; it forgets the srs id, so that it undoes `Stamped`; and
it changes nothing of a blob in Kart's form. From it `AlwaysKart`, `NoShapeIsLost`, `UntouchedStays`.
`RefusedMeansEmpty`: a row whose encoding the commit refuses has no coordinate. `FilterNeverHides`: a finite set of
coordinates has a least and a greatest (by the well-foundedness of the strict subsets of a finite set, which
needs no induction), so that a box measured from a geometry, or the one its envelope carries, has all of it.

`RepositoryProof` (`Spec`). `RepositoryInvariant` is inductive as it stands. Three lemmas carry it: a rebuild that ends
with `behind` at "no" has brought the copy in use in step whatever was there, under any filter; a command that sets
`behind` to anything else needs no argument; and one that moves neither worktree nor copies keeps both. A commit, whole
or failed, is the one that moves both: the rows it wrote become the worktree's features and the versions they are made
from, whether or not their tracking is cleared. From it `RowsStayOfTheWorktree` and `EditsNeverStray`.

`ReadAtProof` (`Spec`, any capacity of at least one). What one reply is cannot be told from the pipes alone: the
request it answers has left them. `ReadInvariant` says where each blob is: what is drained, in `stdout`, half
written by git and still asked for, put together in that order, are the parts of the answers to the first
requests, one per path and of a version the ref had since the command began (`Exchange`, then `Parsing`); of a git
that died it says only that the read fails. The sequences are handled by `Head`, `Tail`, `Append` and `\o` of
`SequenceTheorems`, which needs no induction. From it `PipesCarryTheAnswers`, `ReadTypes`, `AnExportIsItsTree`,
`AnExportMixesWhatWasThere` and `FailuresAreExplained`. `SomeoneCanGoOn` says that while a batch is read the guard
of the thread, of git or of the command holds, and `ReadingGetsThere` that each of their steps lowers `Work`, a
natural number: together what of `ExportEnds` is safety.

`StoredFeaturesProof` (`Spec`). That a feature reads as written depends on every import before. `FeaturesInvariant`
adds that no id is in use that was not given (`IdsWereGiven`; the next import's are above all of them), what an import that runs has made so
far (`Importing`), and that a feature holds, column by column, what was last wanted of it, whatever legends have a
file (`AsWritten`). From it `IdsKeepColumnsApart`, `LegendsFitTheirFeatures` and `FeaturesLoad`. `MaxId` bounds the
ids for TLC; the theorems are for every value of it.

`AnExportIsItsTree` and `AnExportMixesWhatWasThere` except what git failed to list, as they must.

Model-checked only: `CommitEnds` and `ExportEnds`, which are liveness under fairness. Of both the safety half is
proved as said above; that a step that can always be taken is taken in the end is left to TLC.

## Not modelled

Encodings of values other than geometries, and of reference systems: MessagePack, JSON and WKT of single
values, without state. The bytes inside a WKB, mixed byte orders of its parts, NaN coordinates (an empty
point), and envelopes that are not of their coordinates. Import of a second source over a geometry (`Geometry`
imports once). CSV, GeoJSON and GeoPackage files of exports; tiles; attached files, metadata, licences; LFS;
printing; options: each is a command that writes or prints once and leaves no state another command of the
models reads. Reading of source formats beyond the order of their columns. Extended WKB. Composite keys, the one that `main.rs:1799`
makes of a PostGIS table's columns named id, gid and fid among them.
Feature files that cannot be removed, outside `CommitSync`. Text merges of files without a zero byte (features of tables without geometry), and of
`schema.json` and legends. push and remotes, which change nothing here. Working copies that git does not
ignore. The digits of feature paths: no two keys share a file in the models. The standard error of
`git cat-file`, a third pipe.

## Plan

1. *Done*: `TrackedTable`, `CommitSync` with `VersionedTable`, `WorkingCopy`, `MergeResolve`, `Datasets`,
   `StoredFeatures`, `Geometry`, `ReadAt`, `Repository`; the proofs above.
2. Open: `PathStructure`, the digits of the int scheme (64-bit, negative keys included) and of the hex
   variant against a reference definition; composite keys in `TrackedTable` (the log keyed by the first
   column); conflicts of `schema.json` and legends when two branches import; attached files.
3. Proofs open: that `MergeResolve` implements an abstract merge (what was asked for is what the next commit
   has), as `CommitSync` does `VersionedTable`; theorems about the modules of item 2.
