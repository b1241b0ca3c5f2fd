---------------------------- MODULE WorkingCopy ----------------------------
(***************************************************************************)
(* The life of one dataset's table in the GeoPackage: how `ggt checkout`   *)
(* and the rebuild that follows switch, merge, pull, reset and restore     *)
(* (refresh_working_copy of main.rs) make it from the git worktree, and    *)
(* what a GIS and `ggt commit` then do with it.  Each SQLite statement of  *)
(* GeoPackageWorkingCopy::checkout is a step; the process may die at any.  *)
(*                                                                         *)
(* A commit is one step here: that the steps of CommitSync amount to it    *)
(* while the GIS keeps still is the theorem CommitRefines.  The spatial    *)
(* filter is a set of contents whose geometry misses the bbox.             *)
(***************************************************************************)
EXTENDS TrackedTable, FiniteSets

CONSTANT Hidden     \* contents that the spatial filter leaves out

ASSUME HiddenAssumption == Hidden \subseteq Content

VARIABLES
    tree,       \* the dataset's features in the git worktree
    table,      \* the table exists
    listed,     \* gpkg_contents names it, so that commit and status look at it
    triggers,   \* the triggers installed on it, by the change they log
    pc,         \* the statement the command is at; "idle" when none runs
    fresh       \* history: since the file was last removed no command has died, or
                \* been run over a table that was there, which a removal may have left

stateVars == <<tree, table, listed, triggers, pc, fresh>>
vars == <<tableVars, stateVars>>

Steps == {"idle", "remove", "create", "contents", "features", "triggers",
          "clear log", "clear old"}

TypeOK ==
    /\ TableTypeOK
    /\ tree \in [Pk -> Row]
    /\ table \in BOOLEAN /\ listed \in BOOLEAN
    /\ triggers \in SUBSET ChangeType
    /\ pc \in Steps /\ fresh \in BOOLEAN

\* What the spatial filter lets into the working copy.
Visible(f) == IF f \in Hidden THEN Absent ELSE f
VisibleTree == [p \in Pk |-> Visible(tree[p])]

-----------------------------------------------------------------------------
(* Building the table. *)

\* git switch, merge, pull, reset --hard or checkout of a path puts other
\* features in the worktree; the same command then rebuilds the working copy.
MoveTree ==
    /\ pc = "idle"
    /\ tree' \in [Pk -> Row]
    /\ pc' = "remove"
    /\ UNCHANGED <<tableVars, table, listed, triggers, fresh>>

\* `ggt create-workingcopy` on the same path rebuilds and moves nothing.
Rebuild ==
    /\ pc = "idle"
    /\ pc' = "remove"
    /\ UNCHANGED <<tableVars, tree, table, listed, triggers, fresh>>

\* The log of a file that is not removed has room for an entry of every key (a bound).
LogHasRoom == \A e \in track : e.id + Cardinality(Pk) <= MaxRowid

\* `ggt checkout` opens the file that is there.
Checkout ==
    /\ pc = "idle"
    /\ LogHasRoom
    /\ pc' = "create"
    /\ fresh' = (fresh /\ ~table)
    /\ UNCHANGED <<tableVars, tree, table, listed, triggers>>

\* Mutant of RemoveFile: the tables are emptied of their triggers and tracking,
\* and the rows stay.
RemoveAllButRows ==
    /\ pc = "remove"
    /\ ClearLog /\ ClearOld
    /\ table' = FALSE /\ listed' = FALSE /\ triggers' = {}
    /\ pc' = "create" /\ fresh' = TRUE
    /\ UNCHANGED <<rows, tree>>

RemoveFile ==
    /\ pc = "remove"
    /\ rows' = [p \in Pk |-> Absent] /\ ClearLog /\ ClearOld
    /\ table' = FALSE /\ listed' = FALSE /\ triggers' = {}
    /\ pc' = "create" /\ fresh' = TRUE
    /\ UNCHANGED tree

\* A GIS on Windows has the file open, or the directory cannot be written: the failure of
\* remove_file is dropped, and the rebuild goes on in the file that is there.
RemoveFileFails ==
    /\ pc = "remove"
    /\ LogHasRoom
    /\ pc' = "create" /\ fresh' = FALSE
    /\ UNCHANGED <<tableVars, tree, table, listed, triggers>>

CreateTable ==
    /\ pc = "create"
    /\ table' = TRUE
    /\ pc' = "contents"
    /\ UNCHANGED <<tableVars, tree, listed, triggers, fresh>>

RegisterContents ==
    /\ pc = "contents"
    /\ listed' = TRUE
    /\ pc' = "features"
    /\ UNCHANGED <<tableVars, tree, table, triggers, fresh>>

\* The triggers that an INSERT OR REPLACE of these keys fires, if installed:
\* an entry each, with the next rowids in whatever order the files were read.
LogInserts(keys) ==
    \E id \in [keys -> 1..MaxRowid] :
        /\ \A p, q \in keys : id[p] = id[q] => p = q
        /\ \A p \in keys : \A e \in track : e.id < id[p]
        /\ \A p \in keys :
            \/ id[p] = 1
            \/ \E e \in track : e.id = id[p] - 1
            \/ \E q \in keys : id[q] = id[p] - 1
        /\ track' = track \cup {[id |-> id[p], pk |-> p, type |-> "I"] : p \in keys}

\* One transaction.  Rows the tree has not are left where they are.
InsertFeatures ==
    /\ pc = "features"
    /\ LET keys == {p \in Pk : VisibleTree[p] # Absent}
       IN  /\ rows' = [p \in Pk |-> IF p \in keys THEN VisibleTree[p] ELSE rows[p]]
           /\ IF "I" \in triggers THEN LogInserts(keys) ELSE UNCHANGED track
    /\ pc' = "triggers"
    /\ UNCHANGED <<old, tree, table, listed, triggers, fresh>>

\* Mutant of InstallTrigger: no trigger for deletes.
InstallTriggerButDelete ==
    /\ pc = "triggers"
    /\ \/ "I" \notin triggers /\ triggers' = triggers \cup {"I"} /\ pc' = pc
       \/ "I" \in triggers
          /\ triggers' = triggers \cup {"U"} /\ pc' = "clear log"
    /\ UNCHANGED <<tableVars, tree, table, listed, fresh>>

\* CREATE TRIGGER IF NOT EXISTS for inserts, updates and deletes, in this order.
InstallTrigger ==
    /\ pc = "triggers"
    /\ \/ "I" \notin triggers /\ triggers' = triggers \cup {"I"} /\ pc' = pc
       \/ "I" \in triggers /\ "U" \notin triggers
          /\ triggers' = triggers \cup {"U"} /\ pc' = pc
       \/ {"I", "U"} \subseteq triggers
          /\ triggers' = ChangeType /\ pc' = "clear log"
    /\ UNCHANGED <<tableVars, tree, table, listed, fresh>>

ClearTrackingLog ==
    /\ pc = "clear log"
    /\ ClearLog
    /\ pc' = "clear old"
    /\ UNCHANGED <<rows, old, tree, table, listed, triggers, fresh>>

ClearTrackingOld ==
    /\ pc = "clear old"
    /\ ClearOld
    /\ pc' = "idle"
    /\ UNCHANGED <<rows, track, tree, table, listed, triggers, fresh>>

Crash ==
    /\ pc # "idle"
    /\ pc' = "idle" /\ fresh' = FALSE
    /\ UNCHANGED <<tableVars, tree, table, listed, triggers>>

-----------------------------------------------------------------------------
(* Using it. *)

FireTrigger(t, p) ==
    IF t \notin triggers THEN UNCHANGED <<track, old>>
    ELSE \/ t = "I" /\ InsertTrigger(p)
         \/ t = "U" /\ UpdateTrigger(p, p)
         \/ t = "D" /\ DeleteTrigger(p)

\* A statement of the GIS on one row, with the trigger for it if that is installed.
Edit(t, p, r) ==
    /\ pc = "idle" /\ table
    /\ rows' = [rows EXCEPT ![p] = r]
    /\ FireTrigger(t, p)
    /\ UNCHANGED stateVars

GisEdit ==
    \E p \in Pk :
        \/ \E c \in Content :
            \/ rows[p] = Absent /\ Edit("I", p, c)
            \/ rows[p] # Absent /\ Edit("U", p, c)
        \/ rows[p] # Absent /\ Edit("D", p, Absent)

\* Mutant of Commit: deleted rows keep their file.
CommitButDeletions ==
    /\ pc = "idle" /\ listed
    /\ track # {}
    /\ tree' = [p \in Pk |->
            IF Tracked(p) /\ rows[p] # Absent THEN rows[p] ELSE tree[p]]
    /\ ClearLog /\ ClearOld
    /\ UNCHANGED <<rows, table, listed, triggers, pc, fresh>>

\* `ggt commit`, the whole dataset: see CommitSync.
Commit ==
    /\ pc = "idle" /\ listed
    /\ track # {}
    /\ tree' = [p \in Pk |-> IF Tracked(p) THEN rows[p] ELSE tree[p]]
    /\ ClearLog /\ ClearOld
    /\ UNCHANGED <<rows, table, listed, triggers, pc, fresh>>

-----------------------------------------------------------------------------

\* Before the first checkout.
Init ==
    /\ rows = [p \in Pk |-> Absent]
    /\ track = {} /\ old = [p \in Pk |-> NoOld]
    /\ tree \in [Pk -> Row]
    /\ table = FALSE /\ listed = FALSE /\ triggers = {}
    /\ pc = "idle" /\ fresh = TRUE

BuildStep ==
    \/ RemoveFile \/ RemoveFileFails \/ CreateTable \/ RegisterContents \/ InsertFeatures
    \/ InstallTrigger \/ ClearTrackingLog \/ ClearTrackingOld

Next ==
    \/ MoveTree \/ Rebuild \/ Checkout
    \/ BuildStep \/ Crash
    \/ GisEdit \/ Commit

Spec == Init /\ [][Next]_vars

-----------------------------------------------------------------------------
(* Properties. *)

\* A build that began with an empty file and reaches its end leaves exactly the
\* visible tree, with nothing tracked and every trigger installed, whatever state
\* crashes had left before the file was removed.
RebuildIsFresh ==
    pc = "clear old" /\ fresh =>
        /\ rows = VisibleTree
        /\ track = {} /\ old = [p \in Pk |-> NoOld]
        /\ table /\ listed /\ triggers = ChangeType

\* From then on, between commands, a row the tracking does not name is the feature
\* in the tree; the spatial filter may leave it out.
UntrackedRowsAreTheTree ==
    pc = "idle" /\ table /\ fresh =>
        \A p \in Pk : Tracked(p) \/ rows[p] \in {tree[p], Visible(tree[p])}

\* And a saved row is the state the working copy was checked out with.
SavedRowIsCheckedOut ==
    pc = "idle" /\ fresh => \A p \in Pk :
        old[p] # NoOld /\ Visible(tree[p]) # Absent => old[p].content = tree[p]

-----------------------------------------------------------------------------
(* The inductive invariant behind them. *)

Untouched == track = {} /\ old = [p \in Pk |-> NoOld]
Blank == Untouched /\ rows = [p \in Pk |-> Absent] /\ triggers = {}

\* What the statements of a build have made so far.
BuildProgress ==
    /\ pc = "create" => Blank /\ ~table /\ ~listed
    /\ pc = "contents" => Blank /\ table /\ ~listed
    /\ pc = "features" => Blank /\ table /\ listed
    /\ pc = "triggers" => Untouched /\ rows = VisibleTree /\ table /\ listed
    /\ pc \in {"clear log", "clear old"} =>
        Untouched /\ rows = VisibleTree /\ table /\ listed /\ triggers = ChangeType

\* A key that is tracked and has no saved row was inserted where none was.
InsertedWhereNoneWas ==
    \A p \in Pk : Tracked(p) /\ old[p] = NoOld => Visible(tree[p]) = Absent

CopyInvariant ==
    /\ TypeOK
    /\ fresh => BuildProgress
    /\ fresh /\ pc = "idle" =>
        /\ IF table THEN listed /\ triggers = ChangeType ELSE Blank /\ ~listed
        /\ InsertedWhereNoneWas
    /\ UntrackedRowsAreTheTree
    /\ SavedRowIsCheckedOut

=============================================================================
