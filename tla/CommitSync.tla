----------------------------- MODULE CommitSync -----------------------------
(***************************************************************************)
(* `ggt commit [filters]` on one dataset: sync_wc_to_tree of               *)
(* crates/geogit-cli/src/main.rs turns the tracked changes of the table    *)
(* into feature files and clears the tracking; Repository::commit then     *)
(* commits the whole git worktree.                                         *)
(*                                                                         *)
(* Every SQLite statement and every file operation is a step of its own,   *)
(* because the code puts no transaction around them: a GIS edit can fall   *)
(* between two of them, and the process can die between two of them.       *)
(* Which of these happen is what the specifications at the end differ in.  *)
(***************************************************************************)
EXTENDS TrackedTable

CONSTANTS
    Torn,       \* a feature file that was truncated and not written again
    NotAsked    \* what the user asked to commit, while no commit runs

ASSUME TornAssumption == Torn \notin Row
ASSUME NotAskedAssumption == \A keys \in SUBSET Pk : keys # NotAsked

VARIABLES
    tree,       \* the dataset's feature files in the git worktree
    head,       \* the dataset's feature files in the commit HEAD names
    pc,         \* the statement the command is at; "idle" when none runs
    whole,      \* the commit is of the whole dataset ...
    selected,   \* ... or of these keys
    changes,    \* the log entries status() has still to look up
    seen,       \* the row status() just read
    deltas,     \* the deltas found
    todo,       \* the deltas whose file has still to be written or removed
    stuck       \* the keys of files that could not be removed; no code keeps it

syncVars == <<tree, head, pc, whole, selected, changes, seen, deltas, todo, stuck>>
vars == <<tableVars, syncVars>>

File == Row \cup {Torn}
Delta == [id : 1..MaxRowid, pk : Pk, type : ChangeType, text : BOOLEAN, new : Row]
Steps == {"idle", "log", "row", "old", "retain", "file", "fill",
          "clear log", "clear old", "clear log of", "clear old of", "git"}

TypeOK ==
    /\ TableTypeOK
    /\ tree \in [Pk -> File]
    /\ head \in [Pk -> File]
    /\ pc \in Steps
    /\ whole \in BOOLEAN
    /\ selected \in SUBSET Pk
    /\ changes \in SUBSET Entry
    /\ seen \in Row
    /\ deltas \in SUBSET Delta
    /\ todo \in SUBSET Delta
    /\ stuck \in SUBSET Pk

-----------------------------------------------------------------------------
(* The command, and what the user asked it to commit. *)

\* Mutant of CommitsWholeDataset: `ds:pk` is taken for `ds`.
KeyIsIgnored == TRUE

\* No filter, or one that names the dataset and no key, commits all of it.
CommitsWholeDataset == whole

Chosen(p) == CommitsWholeDataset \/ p \in selected

StartCommit ==
    /\ pc = "idle"
    /\ pc' = "log"
    /\ \/ whole' = TRUE /\ selected' = {}
       \/ whole' = FALSE /\ selected' \in SUBSET Pk \ {{}}
    /\ UNCHANGED <<tableVars, tree, head, changes, seen, deltas, todo, stuck>>

\* The command's memory is gone when it ends, however it ends.
Exit ==
    /\ pc' = "idle"
    /\ whole' = FALSE /\ selected' = {}
    /\ changes' = {} /\ deltas' = {} /\ todo' = {} /\ seen' = Absent

-----------------------------------------------------------------------------
(* status(): the log first, then two queries for each entry. *)

\* Mutant of GetChanges: the deletions are not read.
GetChangesButDeletions ==
    /\ pc = "log"
    /\ changes' = {e \in track : e.type # "D"}
    /\ pc' = IF changes' = {} THEN "git" ELSE "row"
    /\ UNCHANGED <<tableVars, tree, head, whole, selected, seen, deltas, todo, stuck>>

GetChanges ==
    /\ pc = "log"
    /\ changes' = track
    /\ pc' = IF track = {} THEN "git" ELSE "row"
    /\ UNCHANGED <<tableVars, tree, head, whole, selected, seen, deltas, todo, stuck>>

\* Mutant of First: the log is read without ORDER BY.
InAnyOrder(e, queue) == e \in queue

First(e, queue) == e \in queue /\ \A f \in queue : e.id <= f.id

ReadRow ==
    /\ pc = "row"
    /\ \E e \in changes : First(e, changes) /\ seen' = rows[e.pk]
    /\ pc' = "old"
    /\ UNCHANGED <<tableVars, tree, head, whole, selected, changes, deltas, todo, stuck>>

\* The key is the row's, else the saved row's, else the log's text, which no
\* integer path scheme accepts.
DeltaOf(e, new, saved) ==
    [id   |-> e.id,
     type |-> e.type,
     pk   |-> IF new = Absent /\ saved # NoOld THEN saved.pk ELSE e.pk,
     text |-> new = Absent /\ saved = NoOld,
     new  |-> new]

ReadOld ==
    /\ pc = "old"
    /\ \E e \in changes :
        /\ First(e, changes)
        /\ deltas' = deltas \cup {DeltaOf(e, seen, old[e.pk])}
        /\ changes' = changes \ {e}
        /\ pc' = IF changes = {e} THEN "retain" ELSE "row"
    /\ seen' = Absent
    /\ UNCHANGED <<tableVars, tree, head, whole, selected, todo, stuck>>

\* Mutant of Retain: the deltas are filtered for the clearing, not for the writing.
RetainForClearing ==
    /\ pc = "retain"
    /\ deltas' = {d \in deltas : Chosen(d.pk)}
    /\ todo' = deltas
    /\ pc' = IF deltas' = {} THEN "git" ELSE "file"
    /\ UNCHANGED <<tableVars, tree, head, whole, selected, changes, seen, stuck>>

\* changes.retain(...): a delta is compared by its own key, not the log's.
Retain ==
    /\ pc = "retain"
    /\ deltas' = {d \in deltas : Chosen(d.pk)}
    /\ todo' = deltas'
    /\ pc' = IF deltas' = {} THEN "git" ELSE "file"
    /\ UNCHANGED <<tableVars, tree, head, whole, selected, changes, seen, stuck>>

-----------------------------------------------------------------------------
(* Writing and removing the feature files, in the order of the log. *)

Writes(d) == d.type \in {"I", "U"}

\* What stored_values makes of a row; of no row, NULL in every column.
Stored(d) == IF d.new = Absent THEN NullRow ELSE d.new

\* std::fs::write first creates or truncates the file ...
TruncateFile ==
    /\ pc = "file"
    /\ \E d \in todo :
        /\ First(d, todo) /\ Writes(d) /\ ~d.text
        /\ tree' = [tree EXCEPT ![d.pk] = Torn]
    /\ pc' = "fill"
    /\ UNCHANGED <<tableVars, head, whole, selected, changes, seen, deltas, todo, stuck>>

\* ... and then puts the bytes into it.
FillFile ==
    /\ pc = "fill"
    /\ \E d \in todo :
        /\ First(d, todo)
        /\ tree' = [tree EXCEPT ![d.pk] = Stored(d)]
        /\ todo' = todo \ {d}
        /\ stuck' = stuck \ {d.pk}
    /\ pc' = "file"
    /\ UNCHANGED <<tableVars, head, whole, selected, changes, seen, deltas>>

RemoveFile ==
    /\ pc = "file"
    /\ \E d \in todo :
        /\ First(d, todo) /\ ~Writes(d) /\ ~d.text
        /\ tree' = [tree EXCEPT ![d.pk] = Absent]
        /\ todo' = todo \ {d}
        /\ stuck' = stuck \ {d.pk}
    /\ UNCHANGED <<tableVars, head, pc, whole, selected, changes, seen, deltas>>

\* The failure of remove_file is dropped: the file stays, and the loop goes on.
KeepFile ==
    /\ pc = "file"
    /\ \E d \in todo :
        /\ First(d, todo) /\ ~Writes(d) /\ ~d.text /\ tree[d.pk] # Absent
        /\ todo' = todo \ {d}
        /\ stuck' = stuck \cup {d.pk}
    /\ UNCHANGED <<tableVars, tree, head, pc, whole, selected, changes, seen, deltas>>

\* int_directory's expect("int scheme requires integer PK").
PanicOnTextKey ==
    /\ pc = "file"
    /\ \E d \in todo : First(d, todo) /\ d.text
    /\ Exit
    /\ UNCHANGED <<tableVars, tree, head, stuck>>

\* Mutant of FilesDone: what is left to remove is forgotten.
FilesDoneButRemovals ==
    /\ pc = "file"
    /\ \A d \in todo : ~Writes(d)
    /\ todo' = {}
    /\ pc' = IF CommitsWholeDataset THEN "clear log" ELSE "clear log of"
    /\ UNCHANGED <<tableVars, tree, head, whole, selected, changes, seen, deltas, stuck>>

FilesDone ==
    /\ pc = "file"
    /\ todo = {}
    /\ pc' = IF CommitsWholeDataset THEN "clear log" ELSE "clear log of"
    /\ UNCHANGED <<tableVars, tree, head, whole, selected, changes, seen, deltas, todo, stuck>>

-----------------------------------------------------------------------------
(* Clearing the tracking: of the dataset, or of each delta's key. *)

ClearTrackingLog ==
    /\ pc = "clear log"
    /\ ClearLog
    /\ pc' = "clear old"
    /\ UNCHANGED <<rows, old, tree, head, whole, selected, changes, seen, deltas, todo, stuck>>

ClearTrackingOld ==
    /\ pc = "clear old"
    /\ ClearOld
    /\ pc' = "git"
    /\ UNCHANGED <<rows, track, tree, head, whole, selected, changes, seen, deltas, todo, stuck>>

ClearFeatureLog ==
    /\ pc = "clear log of"
    /\ \E d \in deltas : First(d, deltas) /\ ClearLogOf(d.pk)
    /\ pc' = "clear old of"
    /\ UNCHANGED <<rows, old, tree, head, whole, selected, changes, seen, deltas, todo, stuck>>

\* Mutant of ClearFeatureOld: the loop over the deltas never advances.
ClearFeatureOldAgain ==
    /\ pc = "clear old of"
    /\ \E d \in deltas : First(d, deltas) /\ ClearOldOf(d.pk)
    /\ pc' = "clear log of"
    /\ UNCHANGED <<rows, track, tree, head, whole, selected, changes, seen, deltas, todo, stuck>>

ClearFeatureOld ==
    /\ pc = "clear old of"
    /\ \E d \in deltas :
        /\ First(d, deltas)
        /\ ClearOldOf(d.pk)
        /\ deltas' = deltas \ {d}
        /\ pc' = IF deltas = {d} THEN "git" ELSE "clear log of"
    /\ UNCHANGED <<rows, track, tree, head, whole, selected, changes, seen, todo, stuck>>

-----------------------------------------------------------------------------
(* git add -A; git commit. "nothing to commit" ends the command as well. *)

GitCommit ==
    /\ pc = "git"
    /\ head' = tree
    /\ Exit
    /\ UNCHANGED <<tableVars, tree, stuck>>

\* No identity, a hook, a lock, a full disk: the tracking is already cleared.
GitCommitFails ==
    /\ pc = "git"
    /\ Exit
    /\ UNCHANGED <<tableVars, tree, head, stuck>>

Crash ==
    /\ pc # "idle"
    /\ Exit
    /\ UNCHANGED <<tableVars, tree, head, stuck>>

-----------------------------------------------------------------------------
(* The specifications: one command, and what may happen around it. *)

Init ==
    /\ rows \in [Pk -> Row]
    /\ track = {} /\ old = [p \in Pk |-> NoOld]
    /\ tree = rows /\ head = rows
    /\ pc = "idle"
    /\ whole = FALSE /\ selected = {}
    /\ changes = {} /\ deltas = {} /\ todo = {} /\ seen = Absent
    /\ stuck = {}

Sync ==
    \/ GetChanges \/ ReadRow \/ ReadOld \/ Retain
    \/ TruncateFile \/ FillFile \/ RemoveFile \/ FilesDone
    \/ ClearTrackingLog \/ ClearTrackingOld
    \/ ClearFeatureLog \/ ClearFeatureOld

Command == StartCommit \/ Sync \/ GitCommit

CalmEdit == pc = "idle" /\ PlainEdit /\ UNCHANGED syncVars
CalmKeyEdit == pc = "idle" /\ KeyEdit /\ UNCHANGED syncVars
RacyEdit == PlainEdit /\ UNCHANGED syncVars

\* Nothing fails, and the GIS keeps still while a command runs.
CalmNext == Command \/ CalmEdit
CalmSpec == Init /\ [][CalmNext]_vars

\* A process that was started goes on, and git answers it.
CalmFairSpec == CalmSpec /\ WF_vars(Sync \/ GitCommit)

\* As well, git may refuse the commit and the process may die at any step.
FaultyNext == CalmNext \/ KeepFile \/ GitCommitFails \/ Crash
FaultySpec == Init /\ [][FaultyNext]_vars

\* Edits may change a row's key, or replace a row.
KeyEditSpec == Init /\ [][CalmNext \/ PanicOnTextKey \/ CalmKeyEdit]_vars

\* The GIS edits at any time.
RacySpec == Init /\ [][Command \/ RacyEdit]_vars

-----------------------------------------------------------------------------
(* Properties. *)

\* The row was deleted and its file could not be removed.
LeftBehind(p) == p \in stuck /\ rows[p] = Absent

\* A feature the tracking does not name is in the tree as it is in the table:
\* no edit is forgotten, whether commits finish, are refused or die half way,
\* but the deletion of a row whose file could not be removed.
UntrackedRowsMatchTree ==
    \A p \in Pk : Tracked(p) \/ tree[p] = rows[p] \/ LeftBehind(p)

\* When git is asked to commit, the files of every feature the user asked for
\* are what the rows are, whatever earlier commands left in the tree, but a file
\* that could not be removed of a row that is gone.
ChosenFilesAreRows ==
    pc = "git" => \A p \in Pk : Chosen(p) => tree[p] = rows[p] \/ LeftBehind(p)

\* `ggt commit ds:pk` commits only that feature: nothing else in the worktree
\* differs from HEAD when git add -A takes all of it.
OnlyChosenIsCommitted ==
    pc = "git" => \A p \in Pk : tree[p] # head[p] => Chosen(p)

\* No delta reaches the int path scheme with a key it panics on.
NoTextKey == \A d \in todo : ~d.text

\* `ggt status` says "Nothing to commit, working copy clean" when it finds no
\* tracked change; then HEAD holds the table.
CleanMeansCommitted == pc = "idle" /\ track = {} => head = rows

\* A commit makes HEAD hold the rows it was asked for, and nothing else new.
AskedFor == IF pc = "idle" THEN NotAsked ELSE IF whole THEN Pk ELSE selected

Versioned == INSTANCE VersionedTable WITH committed <- head, asked <- AskedFor

VersionedSpec == Versioned!Spec

\* A command that was started ends: no loop over deltas fails to advance, and
\* no statement waits for a state that an earlier command left otherwise.
CommitEnds == pc # "idle" ~> pc = "idle"

-----------------------------------------------------------------------------
(* The inductive invariant behind them, of FaultySpec. *)

EntryOf(d) == [id |-> d.id, pk |-> d.pk, type |-> d.type]

\* The last entry of a key says whether its row is there; a row that is gone
\* was saved under its own key, so that its delta still knows it.
LogTellsPresence ==
    /\ \A e, f \in track : e.id = f.id => e = f
    /\ \A e \in track :
        LastOfItsKey(e, track) => (e.type = "D" <=> rows[e.pk] = Absent)
    /\ \A e \in track : rows[e.pk] = Absent => old[e.pk] # NoOld
    /\ \A p \in Pk : old[p] # NoOld => old[p].pk = p

\* Outside its pass over the log the command holds no entry of it.
PassOverLog ==
    /\ pc \notin {"row", "old"} => changes = {}
    /\ changes \subseteq track
    /\ pc \in {"row", "old"} => changes # {}
    /\ pc = "old" => \A e \in changes : First(e, changes) => seen = rows[e.pk]
    /\ pc \in {"row", "old", "retain"} =>
        \A e \in track : e \in changes \/ \E d \in deltas : EntryOf(d) = e

\* A delta tells the row as it is, and stands for an entry until the clearing.
DeltasTellRows ==
    /\ pc \in {"idle", "log"} => deltas = {}
    /\ \A d, f \in deltas : d.id = f.id => d = f
    /\ \A d \in deltas : ~d.text /\ d.new = rows[d.pk]
    /\ pc \in {"row", "old", "retain", "file", "fill"} =>
        \A d \in deltas : EntryOf(d) \in track
    /\ pc \notin {"row", "old", "retain"} => \A d \in deltas : Chosen(d.pk)

\* The deltas still to come bring every chosen file to its row.
TodoReachesRows ==
    /\ todo \subseteq deltas
    /\ pc \notin {"file", "fill"} => todo = {}
    /\ pc = "fill" => \A d \in todo : First(d, todo) => Writes(d)
    /\ \A d \in todo :
        LastOfItsKey(d, todo) => (Writes(d) <=> rows[d.pk] # Absent)
    /\ pc \in {"file", "fill"} =>
        \A p \in Pk : Chosen(p) =>
            tree[p] = rows[p] \/ LeftBehind(p) \/ \E d \in todo : d.pk = p

\* What is cleared is in the tree.
ClearedIsWritten ==
    /\ pc \in {"clear log", "clear old", "clear log of", "clear old of", "git"} =>
        \A p \in Pk : Chosen(p) => tree[p] = rows[p] \/ LeftBehind(p)
    /\ pc \in {"clear log", "clear old"} => whole
    /\ pc = "clear old" => track = {}
    /\ pc = "clear old of" =>
        \A d \in deltas : First(d, deltas) => ~Tracked(d.pk)

SyncInvariant ==
    /\ TypeOK
    /\ UntrackedRowsMatchTree
    /\ LogTellsPresence
    /\ PassOverLog
    /\ DeltasTellRows
    /\ TodoReachesRows
    /\ ClearedIsWritten

\* While nothing fails, the worktree differs from HEAD only where the command
\* that runs was asked to.
CalmInvariant ==
    /\ SyncInvariant
    /\ stuck = {}
    /\ \A p \in Pk : tree[p] # head[p] => pc # "idle" /\ Chosen(p)

=============================================================================
