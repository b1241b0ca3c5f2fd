--------------------------- MODULE StoredFeatures ---------------------------
(***************************************************************************)
(* A dataset's tree as its imports and commits write it: schema.json, the  *)
(* legends and the feature files, each feature a row of values in the      *)
(* order of the legend it names.  An import gives every column a new id,   *)
(* so features of an earlier import stay in the tree and are read through  *)
(* a legend that shares no column with the schema.  An import writes file  *)
(* by file and can die between any two, or leave a file torn; the next     *)
(* commit writes into what it left.                                        *)
(***************************************************************************)
EXTENDS Integers, SequencesExt

CONSTANTS
    Pk,         \* keys of features, the integers of the int path scheme
    Key,        \* the name of the primary key column
    Name,       \* names of the other columns
    Value,      \* values other than NULL
    Null,
    NoRow, NoFile, Torn,
    Idle,       \* no import is running
    MaxId,      \* bounds how often columns are given ids, a UUID in the code
    Orders      \* the orders of columns a source can have, the key among them

ASSUME PkAssumption == Pk \subseteq Nat \ {0}
ASSUME KeyAssumption == Key \notin Name
ASSUME MaxIdAssumption == MaxId \in Nat
ASSUME OrdersAssumption ==
    \A order \in Orders :
        order \in Seq(Name \cup {Key}) /\ IsInjective(order) /\ Key \in Range(order)

VARIABLES
    schema,     \* schema.json: the columns, each its name and id
    legends,    \* meta/legend: the legends that have a file
    files,      \* the feature file of each key
    broken,     \* which of "schema" and "legend" a crash truncated a file of
    columns,    \* the columns of the working copy's table, its key's too; none if there is no table
    rows,       \* the rows of that table
    edited,     \* the keys its tracking names
    importing,  \* Idle, or what the running import has read and has still to write
    lastId,     \* the last id a column of a schema.json was given
    wanted      \* what each feature was when it was last written; no code keeps it

tree == <<schema, legends, files, broken>>
table == <<columns, rows, edited>>
vars == <<tree, table, importing, lastId, wanted>>

Row == UNION {[names -> Value \cup {Null}] : names \in SUBSET Name}
IdOrNone == 0 .. MaxId
Column == [name : Name \cup {Key}, id : IdOrNone]
Stored == [legend : Seq(IdOrNone), values : Seq(Value \cup {Null})]

\* No file and a torn one are no feature files.
ASSUME NoFileAssumption == NoFile \notin Stored /\ Torn \notin Stored

\* The rows the working copy's table can have.
TableRow == [columns \ {Key} -> Value \cup {Null}]

TypeOK ==
    /\ schema \in Seq(Column)
    /\ \A legend \in legends : legend \in Seq(IdOrNone)
    /\ files \in [Pk -> Stored \cup {NoFile, Torn}]
    /\ broken \in SUBSET {"schema", "legend"}
    /\ columns \in SUBSET (Name \cup {Key})
    /\ rows \in [Pk -> TableRow \cup {NoRow}]
    /\ edited \in SUBSET Pk
    /\ wanted \in [Pk -> Row \cup {NoRow}]

-----------------------------------------------------------------------------
(* Schema, legends and stored features. *)

\* The columns a feature file holds: all but the primary key's, in schema order.
ValueColumns(s) ==
    LET keys == {i \in DOMAIN s : s[i].name = Key}
    IN  IF keys = {} THEN s ELSE RemoveAt(s, CHOOSE i \in keys : TRUE)

Names(s) == {column.name : column \in Range(ValueColumns(s))}

\* Mutant of LegendOf: the legend of every column, the key's too.
LegendOfAll(s) == [i \in DOMAIN s |-> s[i].id]

LegendOf(s) == [i \in DOMAIN ValueColumns(s) |-> ValueColumns(s)[i].id]

\* stored_values(): the row's value of each column, NULL where the row has none.
StoredFeature(s, row) ==
    [legend |-> LegendOf(s),
     values |-> [i \in DOMAIN ValueColumns(s) |->
        LET name == ValueColumns(s)[i].name
        IN  IF name \in DOMAIN row THEN row[name] ELSE Null]]

\* Legend::decode_values: by column id, NULL where the legend has not the column.
DecodeValues(feature, s) ==
    [name \in Names(s) |->
        LET column == CHOOSE c \in Range(s) : c.name = name
            places == {i \in DOMAIN feature.legend : feature.legend[i] = column.id}
        IN  IF places = {} THEN Null ELSE feature.values[CHOOSE i \in places : TRUE]]

\* A feature whose legend has no file is passed over without a word.
Load(pk) ==
    IF files[pk] \in {NoFile, Torn} THEN NoRow
    ELSE IF files[pk].legend \in legends THEN DecodeValues(files[pk], schema) ELSE NoRow

\* A torn feature ends the reading of the whole dataset, and so does a torn schema.json or
\* legend, of whatever import.
TreeIsReadable == broken = {} /\ \A pk \in Pk : files[pk] # Torn

-----------------------------------------------------------------------------
(* Import. *)

\* Mutant of NewColumns: a column's id is its place.
ColumnsByPlace(order) == [i \in DOMAIN order |-> [name |-> order[i], id |-> i]]

\* read_gpkg_schema() and its like: a new id for every column.
NewColumns(order) == [i \in DOMAIN order |-> [name |-> order[i], id |-> lastId + i]]

\* What a source can hold: rows with all of its columns, some of them NULL.
SourceRows(order) == [Pk -> [Range(order) \ {Key} -> Value \cup {Null}] \cup {NoRow}]

\* `ggt import` of a GeoPackage table has read it; the importers of shapefiles and PostGIS
\* tables, which number rows without a key, write the same files in the same order.
Import(order, source) ==
    /\ importing = Idle
    /\ lastId + Len(order) <= MaxId
    /\ importing' = [schema |-> NewColumns(order), rows |-> source, next |-> "schema",
                     todo |-> {pk \in Pk : source[pk] # NoRow}]
    /\ UNCHANGED <<tree, table, lastId, wanted>>

\* schema.json is replaced; the features in the tree lose the values they had.
WriteSchema ==
    /\ importing # Idle /\ importing.next = "schema"
    /\ schema' = importing.schema
    /\ broken' = broken \ {"schema"}
    /\ lastId' = lastId + Len(schema')
    /\ importing' = [importing EXCEPT !.next = "legend"]
    /\ wanted' = [pk \in Pk |-> IF files[pk] \in {NoFile, Torn} THEN NoRow
                                ELSE [name \in Names(importing.schema) |-> Null]]
    /\ UNCHANGED <<legends, files, table>>

WriteLegend ==
    /\ importing # Idle /\ importing.next = "legend"
    /\ legends' = legends \cup {LegendOf(schema)}
    /\ importing' = [importing EXCEPT !.next = "features"]
    /\ UNCHANGED <<schema, files, broken, table, lastId, wanted>>

WriteFeature(pk) ==
    /\ importing # Idle /\ importing.next = "features"
    /\ pk \in importing.todo
    /\ files' = [files EXCEPT ![pk] = StoredFeature(schema, importing.rows[pk])]
    /\ importing' = [importing EXCEPT !.todo = @ \ {pk}]
    /\ wanted' = [wanted EXCEPT ![pk] = importing.rows[pk]]
    /\ UNCHANGED <<schema, legends, broken, table, lastId>>

\* The table an import finds keeps its columns: INSERT OR REPLACE gives a row all of
\* them, NULL where the schema has not the column.
Overlay(source) ==
    [pk \in Pk |->
        IF source[pk] = NoRow THEN rows[pk]
        ELSE [name \in columns \ {Key} |->
                IF name \in DOMAIN source[pk] THEN source[pk][name] ELSE Null]]

TableFits ==
    \/ columns = {} \/ Names(schema) \subseteq columns
    \/ \A pk \in Pk : importing.rows[pk] = NoRow

\* checkout() after the tree is written: a table there is none of is made.
CheckoutImported ==
    /\ importing # Idle /\ importing.next = "features" /\ importing.todo = {}
    /\ TableFits
    /\ IF columns = {}
       THEN /\ columns' = Names(schema) \cup {Key}
            /\ rows' = importing.rows
       ELSE rows' = Overlay(importing.rows) /\ UNCHANGED columns
    /\ edited' = {} /\ importing' = Idle
    /\ UNCHANGED <<tree, lastId, wanted>>

\* The INSERT names a column the table has not: the command fails, the tree is written.
CheckoutFails ==
    /\ importing # Idle /\ importing.next = "features" /\ importing.todo = {}
    /\ ~TableFits
    /\ importing' = Idle
    /\ UNCHANGED <<tree, table, lastId, wanted>>

\* The import dies, in the middle of a file perhaps: that of its schema, of its legend, which
\* no later import writes again, or of a feature.
Crash ==
    /\ importing # Idle
    /\ importing' = Idle
    /\ \/ /\ broken' \in {broken, broken \cup ({importing.next} \ {"features"})}
          /\ UNCHANGED <<files, wanted>>
       \/ /\ importing.next = "features"
          /\ \E pk \in importing.todo :
                /\ files' = [files EXCEPT ![pk] = Torn]
                /\ wanted' = [wanted EXCEPT ![pk] = NoRow]
          /\ UNCHANGED broken
    /\ UNCHANGED <<schema, legends, table, lastId>>

-----------------------------------------------------------------------------
(* Commit and rebuild, between imports. *)

\* A GIS inserts, updates or deletes a row.
Edit(pk, row) ==
    /\ importing = Idle /\ columns # {}
    /\ rows[pk] # row
    /\ rows' = [rows EXCEPT ![pk] = row]
    /\ edited' = edited \cup {pk}
    /\ UNCHANGED <<tree, columns, importing, lastId, wanted>>

\* A GIS renames a column, which the triggers do not notice.
RenameColumn(old, new) ==
    /\ importing = Idle
    /\ old \in columns /\ new \in Name \ columns
    /\ columns' = (columns \ {old}) \cup {new}
    /\ rows' = [pk \in Pk |-> IF rows[pk] = NoRow THEN NoRow
                ELSE [name \in columns' \ {Key} |-> rows[pk][IF name = new THEN old ELSE name]]]
    /\ UNCHANGED <<tree, edited, importing, lastId, wanted>>

\* What the schema takes of a row: of the columns it has, those the schema names.
Projected(row) ==
    IF row = NoRow THEN NoRow
    ELSE [name \in Names(schema) |-> IF name \in DOMAIN row THEN row[name] ELSE Null]

CommittedFile(pk) == IF rows[pk] = NoRow THEN NoFile ELSE StoredFeature(schema, rows[pk])

\* `ggt commit`: the edited rows, under the legend of the schema that is there, whose
\* file commit does not write.
Commit ==
    /\ importing = Idle
    /\ schema # <<>> /\ "schema" \notin broken /\ edited # {}
    /\ files' = [pk \in Pk |-> IF pk \in edited THEN CommittedFile(pk) ELSE files[pk]]
    /\ wanted' = [pk \in Pk |-> IF pk \in edited THEN Projected(rows[pk]) ELSE wanted[pk]]
    /\ edited' = {}
    /\ UNCHANGED <<schema, legends, broken, columns, rows, importing, lastId>>

\* refresh_working_copy(): a new file with what the tree loads as, if it loads.
Rebuild ==
    /\ importing = Idle /\ schema # <<>>
    /\ IF TreeIsReadable
       THEN columns' = Names(schema) \cup {Key} /\ rows' = [pk \in Pk |-> Load(pk)]
       ELSE columns' = {} /\ rows' = [pk \in Pk |-> NoRow]
    /\ edited' = {}
    /\ UNCHANGED <<tree, importing, lastId, wanted>>

-----------------------------------------------------------------------------

Init ==
    /\ schema = <<>> /\ legends = {} /\ files = [pk \in Pk |-> NoFile] /\ broken = {}
    /\ columns = {} /\ rows = [pk \in Pk |-> NoRow] /\ edited = {}
    /\ importing = Idle /\ lastId = 0
    /\ wanted = [pk \in Pk |-> NoRow]

ImportStep ==
    \/ \E order \in Orders : \E source \in SourceRows(order) : Import(order, source)
    \/ WriteSchema \/ WriteLegend \/ \E pk \in Pk : WriteFeature(pk)
    \/ CheckoutImported \/ CheckoutFails \/ Crash

Next ==
    \/ ImportStep
    \/ \E pk \in Pk : \E row \in TableRow \cup {NoRow} : Edit(pk, row)
    \/ \E old, new \in Name : RenameColumn(old, new)
    \/ Commit \/ Rebuild

Spec == Init /\ [][Next]_vars

-----------------------------------------------------------------------------
(* Properties. *)

\* Every feature loads as the row last written to it, and loses all of its values to the
\* next import that does not write it: no value is ever read as another column's, through
\* any sequence of imports with other columns, crashes of imports, renames and commits.
\* Only one whose legend a crash left without a file is passed over, and none loads while a
\* torn file stops the reading.
FeaturesLoadAsWritten ==
    TreeIsReadable => \A pk \in Pk :
        files[pk] \in {NoFile, Torn} \/ files[pk].legend \in legends => Load(pk) = wanted[pk]

\* A feature has a value for each column of its legend, which has none twice, and a
\* feature of the current schema shares no column with one of an earlier.
StoreInvariant ==
    /\ TypeOK
    /\ \A pk \in Pk : files[pk] \in {NoFile, Torn} \/
        /\ Len(files[pk].values) = Len(files[pk].legend)
        /\ IsInjective(files[pk].legend)
        /\ \/ files[pk].legend = LegendOf(schema)
           \/ Range(files[pk].legend) \cap {column.id : column \in Range(schema)} = {}

=============================================================================
