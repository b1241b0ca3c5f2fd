------------------------------ MODULE Datasets ------------------------------
(***************************************************************************)
(* The datasets of a repository in one GeoPackage: which table each one    *)
(* gets, how gpkg_contents registers it, and which of them a commit, with  *)
(* filters or without, reaches.  What is in a table is left to CommitSync  *)
(* and WorkingCopy; here a table has tracked edits or has none.            *)
(*                                                                         *)
(* The working copy knows datasets by table name only: a '/' of the path   *)
(* becomes '_', and the name a table has is later read as a path again.    *)
(* Nothing keeps 'a/b' and 'a_b' apart: both are checked out into a_b.     *)
(***************************************************************************)
CONSTANTS
    Dataset,    \* paths of datasets
    Table,      \* names of tables; a path without a '/' is the name of its table
    TableName,  \* the table of each dataset
    Title,      \* what a dataset's title can be, names of tables among them
    Spatial     \* the datasets with a geometry column

ASSUME TableNameAssumption == TableName \in [Dataset -> Table]
ASSUME FlatAssumption == \A d \in Dataset \cap Table : TableName[d] = d

VARIABLES
    tree,       \* the datasets in the git worktree
    title,      \* the meta/title of each
    holds,      \* the datasets checked out into each table; of none, there is no table
    triggers,   \* the tables with triggers on them
    edited,     \* the tracked changes: a table, and the dataset whose row was edited
    contents,   \* gpkg_contents: the identifier of each table it lists
    geometry,   \* the tables in gpkg_geometry_columns, a foreign key to gpkg_contents
    todo        \* the datasets the running command has still to check out

package == <<holds, triggers, edited, contents, geometry>>
vars == <<tree, title, package, todo>>

ContentsRow == [table : Table, identifier : Title \cup Table]
Change == [table : Table, dataset : Dataset]

TypeOK ==
    /\ tree \in SUBSET Dataset
    /\ title \in [Dataset -> Title]
    /\ holds \in [Table -> SUBSET Dataset]
    /\ triggers \in SUBSET Table /\ edited \in SUBSET Change
    /\ contents \in SUBSET ContentsRow
    /\ geometry \in SUBSET Table
    /\ todo \in SUBSET tree

Listed == {row.table : row \in contents}

\* Two datasets of the tree have one table, 'a/b' beside 'a_b'.
Collide(d, e) == d # e /\ {d, e} \subseteq tree /\ TableName[d] = TableName[e]

-----------------------------------------------------------------------------
(* checkout(): the table, gpkg_contents, gpkg_geometry_columns, triggers.  *)

\* The title, or the table's name where another table's identifier is the title.
IdentifierOf(d) ==
    IF \E row \in contents : row.identifier = title[d] /\ row.table # TableName[d]
    THEN TableName[d] ELSE title[d]

\* The rows of other tables that INSERT OR REPLACE deletes for their identifier.
Displaced(d) ==
    {row \in contents : row.table # TableName[d] /\ row.identifier = IdentifierOf(d)}

\* Mutant of Refused: foreign keys are not enforced.
NeverRefused(d) == FALSE

\* A displaced row that gpkg_geometry_columns references violates its foreign key.
Refused(d) == \E row \in Displaced(d) : row.table \in geometry

\* The rows of gpkg_contents and gpkg_geometry_columns for a dataset.
Register(d) ==
    /\ contents' = {row \in contents \ Displaced(d) : row.table # TableName[d]}
                   \cup {[table |-> TableName[d], identifier |-> IdentifierOf(d)]}
    /\ geometry' = IF d \in Spatial THEN geometry \cup {TableName[d]} ELSE geometry

\* A table that is there is written over: a row of another dataset that has the same
\* key is replaced, the others stay.  What was tracked on the table is cleared.
CheckoutOne(d) ==
    /\ d \in todo
    /\ ~Refused(d)
    /\ Register(d)
    /\ holds' = [holds EXCEPT ![TableName[d]] = @ \cup {d}]
    /\ triggers' = triggers \cup {TableName[d]}
    /\ edited' = {change \in edited : change.table # TableName[d]}
    /\ todo' = todo \ {d}
    /\ UNCHANGED <<tree, title>>

\* The command ends at the first dataset refused, or whose rows do not fit the table
\* that is there; the table is made if it was not there.
CheckoutFails(d) ==
    /\ d \in todo
    /\ \/ Refused(d) /\ UNCHANGED <<contents, geometry>>
       \/ ~Refused(d) /\ Register(d)
    /\ holds' = IF holds[TableName[d]] = {}
                THEN [holds EXCEPT ![TableName[d]] = {d}] ELSE holds
    /\ todo' = {}
    /\ UNCHANGED <<tree, title, triggers, edited>>

-----------------------------------------------------------------------------
(* The commands. *)

\* Mutant of MoveTree: the file that is there is checked out into.
MoveTreeInto ==
    /\ todo = {}
    /\ tree' \in SUBSET Dataset /\ title' \in [Dataset -> Title]
    /\ todo' = tree'
    /\ UNCHANGED package

\* switch, merge, pull, reset, restore: other datasets and titles, and a new file
\* with all of them.
MoveTree ==
    /\ todo = {}
    /\ tree' \in SUBSET Dataset /\ title' \in [Dataset -> Title]
    /\ holds' = [t \in Table |-> {}]
    /\ triggers' = {} /\ edited' = {} /\ contents' = {} /\ geometry' = {}
    /\ todo' = tree'

\* `ggt checkout [datasets]`, into the file that is there.
Checkout(datasets) ==
    /\ todo = {}
    /\ todo' = IF datasets = {} THEN tree ELSE datasets \cap tree
    /\ UNCHANGED <<tree, title, package>>

\* `ggt import`: the tree first, then the checkout of that dataset.
Import(d, name) ==
    /\ todo = {}
    /\ tree' = tree \cup {d}
    /\ title' = [title EXCEPT ![d] = name]
    /\ todo' = {d}
    /\ UNCHANGED package

\* A GIS edits a row that dataset d has in table t.
Edit(t, d) ==
    /\ todo = {} /\ d \in holds[t]
    /\ edited' = IF t \in triggers
                 THEN edited \cup {[table |-> t, dataset |-> d]} ELSE edited
    /\ UNCHANGED <<tree, title, holds, triggers, contents, geometry, todo>>

\* A filter selects the table of its own name; below its path there are none.
Selects(filters, t) == filters = {} \/ t \in filters

\* Mutant of Written: the dataset a table's name is the path of is not looked for.
WrittenUnfound(filters) ==
    {change \in edited : change.table \in Listed /\ Selects(filters, change.table)}

\* Mutant of Written: the loop over the tables ends with the first that has changes.
WrittenFirst(filters) ==
    LET found == {t \in Listed \cap tree :
                    Selects(filters, t) /\ \E change \in edited : change.table = t}
    IN  IF found = {} THEN {}
        ELSE {change \in edited : change.table = CHOOSE t \in found : TRUE}

\* What a commit writes, into the dataset whose path is the table's name: a table whose
\* name is no dataset's path is passed over.
Written(filters) ==
    {change \in edited : /\ change.table \in Listed \cap tree
                         /\ Selects(filters, change.table)}

\* `ggt commit [datasets]`.
Commit(filters) ==
    /\ todo = {}
    /\ edited' = edited \ Written(filters)
    /\ UNCHANGED <<tree, title, holds, triggers, contents, geometry, todo>>

-----------------------------------------------------------------------------

Init ==
    /\ tree = {} /\ title \in [Dataset -> Title]
    /\ holds = [t \in Table |-> {}]
    /\ triggers = {} /\ edited = {} /\ contents = {} /\ geometry = {}
    /\ todo = {}

CheckoutStep == \E d \in Dataset : CheckoutOne(d) \/ CheckoutFails(d)

Next ==
    \/ MoveTree \/ CheckoutStep
    \/ \E datasets \in SUBSET Dataset : Checkout(datasets)
    \/ \E d \in Dataset, name \in Title : Import(d, name)
    \/ \E t \in Table, d \in Dataset : Edit(t, d)
    \/ \E filters \in SUBSET (Dataset \cup Table) : Commit(filters)

Spec == Init /\ [][Next]_vars

-----------------------------------------------------------------------------
(* Properties. *)

\* Every table with triggers is listed, so that status, diff and commit look at it,
\* in whatever order datasets are checked out and whatever titles they share: a
\* theorem where every dataset is spatial, and false where one is not.
EveryTableIsListed == triggers \subseteq Listed

\* A commit writes a change into another dataset than the one whose row was edited only
\* where the two have one table: it knows the table by name only.
ChangesGoHome ==
    [][\A filters \in SUBSET (Dataset \cup Table) :
        Commit(filters) => \A change \in edited \ edited' :
            change.dataset = change.table \/ Collide(change.dataset, change.table)]_vars

\* A commit without filters leaves no change behind in the table of a dataset with a
\* flat path, another dataset's rows among them.
CommitReachesEveryTable ==
    [][Commit({}) => ~\E change \in edited' : change.table \in tree]_vars

-----------------------------------------------------------------------------
(* The inductive invariant behind them, where every dataset is spatial. *)

\* gpkg_contents keeps its keys, and lists each table of gpkg_geometry_columns.
Registered ==
    /\ \A r, s \in contents : r.table = s.table \/ r.identifier = s.identifier => r = s
    /\ geometry = Listed

\* A table is there for datasets of the tree that have its name, and the rows edited in
\* it are theirs.
TablesAreOfTheTree ==
    /\ \A t \in Table : holds[t] \subseteq {d \in tree : TableName[d] = t}
    /\ \A t \in triggers : holds[t] # {}
    /\ \A change \in edited : change.table \in triggers /\ change.dataset \in holds[change.table]

\* Every table with triggers is registered, and only such a table has tracked changes,
\* of rows of the datasets that were checked out into it.
RegistryInvariant ==
    /\ TypeOK
    /\ Registered
    /\ TablesAreOfTheTree
    /\ triggers \subseteq Listed

=============================================================================
