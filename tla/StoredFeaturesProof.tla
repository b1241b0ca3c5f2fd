------------------------ MODULE StoredFeaturesProof ------------------------
(* What stored features load as, for any keys, columns, values and sources: through      *)
(* every sequence of imports, crashes of imports, edits, renames, commits and rebuilds.  *)
EXTENDS StoredFeatures, SequenceTheorems, TLAPS

Val == Value \cup {Null}

\* No name and no id is two columns'.
OnceEach(s) ==
    \A i, j \in DOMAIN s : s[i].name = s[j].name \/ s[i].id = s[j].id => i = j

Written(pk) == files[pk] \notin {NoFile, Torn}

-----------------------------------------------------------------------------
(* Columns, legends and what is read through them. *)

LEMMA WithoutOne ==
    ASSUME NEW S, NEW s \in Seq(S), NEW k \in 1 .. Len(s)
    PROVE  /\ RemoveAt(s, k) \in Seq(S) /\ Len(RemoveAt(s, k)) = Len(s) - 1
           /\ \A i \in 1 .. Len(s) - 1 : RemoveAt(s, k)[i] = IF i < k THEN s[i] ELSE s[i + 1]
  <1> DEFINE front == SubSeq(s, 1, k - 1)
             back == SubSeq(s, k + 1, Len(s))
  <1>1. /\ front \in Seq(S) /\ Len(front) = k - 1
        /\ \A i \in 1 .. k - 1 : front[i] = s[i]
    BY SubSeqProperties
  <1>2. /\ back \in Seq(S) /\ Len(back) = Len(s) - k
        /\ \A i \in 1 .. Len(s) - k : back[i] = s[k + i]
    BY SubSeqProperties
  <1>3. RemoveAt(s, k) = front \o back
    BY DEF RemoveAt
  <1> HIDE DEF front, back
  <1>4. /\ front \o back \in Seq(S) /\ Len(front \o back) = Len(s) - 1
        /\ \A i \in 1 .. Len(s) - 1 :
            (front \o back)[i] = IF i < k THEN front[i] ELSE back[i - (k - 1)]
    <2>1. front \in Seq(S) /\ back \in Seq(S)
      BY <1>1, <1>2
    <2>2. /\ front \o back \in Seq(S) /\ Len(front \o back) = Len(front) + Len(back)
          /\ \A i \in 1 .. Len(front) + Len(back) :
                (front \o back)[i] = IF i <= Len(front) THEN front[i] ELSE back[i - Len(front)]
      BY <2>1, ConcatProperties
    <2>3. Len(front) = k - 1 /\ Len(front) + Len(back) = Len(s) - 1 /\ k \in Int /\ Len(s) \in Int
      BY <1>1, <1>2
    <2>4. \A i \in Int : i <= k - 1 <=> i < k
      BY <2>3
    <2> QED  BY <2>2, <2>3, <2>4
  <1>5. ASSUME NEW i \in 1 .. Len(s) - 1
        PROVE  (front \o back)[i] = IF i < k THEN s[i] ELSE s[i + 1]
    <2>1. CASE i < k
      BY <1>1, <1>4, <2>1
    <2>2. CASE ~ i < k
      <3>1. i - (k - 1) \in 1 .. Len(s) - k /\ k + (i - (k - 1)) = i + 1
        BY <2>2
      <3>2. back[i - (k - 1)] = s[k + (i - (k - 1))]
        BY <1>2, <3>1
      <3> QED  BY <1>4, <2>2, <3>1, <3>2
    <2> QED  BY <2>1, <2>2
  <1> QED  BY <1>3, <1>4, <1>5

\* The columns of a feature file are those of the schema but the key's, each once.
LEMMA ValueColumnsAreTheOthers ==
    ASSUME NEW s \in Seq(Column), OnceEach(s)
    PROVE  /\ ValueColumns(s) \in Seq(Column) /\ OnceEach(ValueColumns(s))
           /\ \A i \in DOMAIN ValueColumns(s) :
                /\ ValueColumns(s)[i].name # Key
                /\ \E j \in DOMAIN s : ValueColumns(s)[i] = s[j]
           /\ \A j \in DOMAIN s :
                s[j].name # Key => \E i \in DOMAIN ValueColumns(s) : ValueColumns(s)[i] = s[j]
  <1> DEFINE keys == {i \in DOMAIN s : s[i].name = Key}
             k == CHOOSE i \in keys : TRUE
  <1>1. CASE keys = {}
    BY <1>1 DEF ValueColumns
  <1>2. CASE keys # {}
    <2>1. k \in 1 .. Len(s) /\ s[k].name = Key
      BY <1>2
    <2>2. ValueColumns(s) = RemoveAt(s, k)
      BY <1>2 DEF ValueColumns
    <2> HIDE DEF k, keys
    <2> DEFINE v == RemoveAt(s, k)
    <2>3. /\ v \in Seq(Column) /\ Len(v) = Len(s) - 1
          /\ \A i \in 1 .. Len(s) - 1 : v[i] = IF i < k THEN s[i] ELSE s[i + 1]
      BY <2>1, WithoutOne
    <2> HIDE DEF v
    <2>4. DOMAIN v = 1 .. Len(s) - 1
      BY <2>3
    <2>5. \A i \in 1 .. Len(s) : i # k => s[i].name # Key
      BY <2>1 DEF OnceEach
    <2>6. ASSUME NEW i \in DOMAIN v
          PROVE  v[i].name # Key /\ \E j \in DOMAIN s : v[i] = s[j]
      BY <2>1, <2>3, <2>5, <2>4
    <2>7. ASSUME NEW j \in DOMAIN s, s[j].name # Key
          PROVE  \E i \in DOMAIN v : v[i] = s[j]
      <3>1. j \in 1 .. Len(s) /\ j # k
        BY <2>1, <2>7
      <3>2. CASE j < k
        BY <2>1, <2>3, <2>4, <3>1, <3>2
      <3>3. CASE j > k
        <4>1. j - 1 \in 1 .. Len(s) - 1 /\ ~ (j - 1 < k) /\ (j - 1) + 1 = j
          BY <2>1, <3>1, <3>3
        <4>2. v[j - 1] = s[(j - 1) + 1]
          BY <2>3, <4>1
        <4> QED  BY <2>4, <4>1, <4>2
      <3> QED  BY <2>1, <3>1, <3>2, <3>3
    <2>8. OnceEach(v)
      <3> SUFFICES ASSUME NEW i \in DOMAIN v, NEW j \in DOMAIN v,
                          v[i].name = v[j].name \/ v[i].id = v[j].id
                   PROVE  i = j
        BY DEF OnceEach
      <3> DEFINE was(n) == IF n < k THEN n ELSE n + 1
      <3>1. i \in 1 .. Len(s) - 1 /\ j \in 1 .. Len(s) - 1 /\ k \in Int /\ Len(s) \in Nat
        BY <2>1, <2>4
      <3>2. was(i) \in 1 .. Len(s) /\ was(j) \in 1 .. Len(s)
        BY <3>1
      <3>3. v[i] = s[was(i)] /\ v[j] = s[was(j)]
        BY <2>3, <3>1
      <3>4. was(i) = was(j)
        <4> HIDE DEF was
        <4> QED  BY <3>2, <3>3 DEF OnceEach
      <3> QED  BY <3>1, <3>4
    <2> QED  BY <2>2, <2>3, <2>6, <2>7, <2>8 DEF v
  <1> QED  BY <1>1, <1>2

LEMMA NamesAreTheOthers ==
    ASSUME NEW s \in Seq(Column), OnceEach(s)
    PROVE  /\ Names(s) = {s[j].name : j \in DOMAIN s} \ {Key}
           /\ Names(s) \subseteq Name
  <1>1. Names(s) = {ValueColumns(s)[i].name : i \in DOMAIN ValueColumns(s)}
    BY DEF Names, Range
  <1>2. Names(s) = {s[j].name : j \in DOMAIN s} \ {Key}
    BY <1>1, ValueColumnsAreTheOthers
  <1>3. ASSUME NEW j \in DOMAIN s
        PROVE  s[j].name \in Name \cup {Key}
    <2>1. s[j] \in Column
      OBVIOUS
    <2> QED  BY <2>1 DEF Column
  <1> QED  BY <1>2, <1>3

\* The column that decode_values() looks up for a name is the one of that name.
LEMMA TheColumnOfAName ==
    ASSUME NEW s \in Seq(Column), OnceEach(s), NEW j \in DOMAIN s
    PROVE  (CHOOSE c \in Range(s) : c.name = s[j].name) = s[j]
  <1> DEFINE column == CHOOSE c \in Range(s) : c.name = s[j].name
  <1>1. s[j] \in Range(s)
    BY DEF Range
  <1>2. column \in Range(s) /\ column.name = s[j].name
    BY <1>1
  <1> HIDE DEF column
  <1>3. PICK i \in DOMAIN s : column = s[i]
    BY <1>2 DEF Range
  <1>4. i = j
    BY <1>2, <1>3 DEF OnceEach
  <1> QED  BY <1>3, <1>4 DEF column

\* A feature that is stored is of the schema's legend, which has no column twice.
LEMMA StoredIsOfTheLegend ==
    ASSUME NEW s \in Seq(Column), OnceEach(s), NEW row,
           \A name \in DOMAIN row : row[name] \in Val
    PROVE  /\ StoredFeature(s, row) \in Stored
           /\ LegendOf(s) \in Seq(IdOrNone) /\ IsInjective(LegendOf(s))
           /\ StoredFeature(s, row).legend = LegendOf(s)
           /\ Len(StoredFeature(s, row).values) = Len(StoredFeature(s, row).legend)
  <1> DEFINE v == ValueColumns(s)
             legend == [i \in DOMAIN v |-> v[i].id]
             values == [i \in DOMAIN v |->
                LET name == v[i].name IN IF name \in DOMAIN row THEN row[name] ELSE Null]
  <1>1. v \in Seq(Column) /\ OnceEach(v)
    BY ValueColumnsAreTheOthers
  <1>2. LegendOf(s) = legend /\ StoredFeature(s, row) = [legend |-> legend, values |-> values]
    BY DEF LegendOf, StoredFeature
  <1> HIDE DEF v
  <1>3. legend \in Seq(IdOrNone) /\ Len(legend) = Len(v)
    <2>1. ASSUME NEW i \in DOMAIN v
          PROVE  v[i].id \in IdOrNone
      <3>1. v[i] \in Column
        BY <1>1
      <3> QED  BY <3>1 DEF Column
    <2> QED  BY <1>1, <2>1
  <1>4. values \in Seq(Val) /\ Len(values) = Len(v)
    BY <1>1 DEF Val
  <1>5. IsInjective(legend)
    BY <1>1 DEF IsInjective, OnceEach
  <1> HIDE DEF legend, values
  <1> QED  BY <1>2, <1>3, <1>4, <1>5 DEF Stored, Val

\* A feature that is stored reads back as the row it was made of.
LEMMA StoredReadsBack ==
    ASSUME NEW s \in Seq(Column), OnceEach(s), NEW row
    PROVE  DecodeValues(StoredFeature(s, row), s) =
               [name \in Names(s) |-> IF name \in DOMAIN row THEN row[name] ELSE Null]
  <1> DEFINE v == ValueColumns(s)
             feature == StoredFeature(s, row)
             column(name) == CHOOSE c \in Range(s) : c.name = name
             places(name) == {i \in DOMAIN feature.legend : feature.legend[i] = column(name).id}
  <1>1. /\ v \in Seq(Column) /\ OnceEach(v)
        /\ \A i \in DOMAIN v : v[i].name # Key /\ \E j \in DOMAIN s : v[i] = s[j]
    BY ValueColumnsAreTheOthers
  <1>2. Names(s) = {v[i].name : i \in DOMAIN v}
    BY DEF Names, Range
  <1>3. /\ DOMAIN feature.legend = DOMAIN v
        /\ \A i \in DOMAIN v : feature.legend[i] = v[i].id
        /\ \A i \in DOMAIN v :
            feature.values[i] = IF v[i].name \in DOMAIN row THEN row[v[i].name] ELSE Null
    BY DEF StoredFeature, LegendOf
  <1>4. DecodeValues(feature, s) =
            [name \in Names(s) |-> IF places(name) = {} THEN Null
                                   ELSE feature.values[CHOOSE i \in places(name) : TRUE]]
    BY DEF DecodeValues
  <1> HIDE DEF v, feature
  <1>5. ASSUME NEW name \in Names(s)
        PROVE  (IF places(name) = {} THEN Null
                ELSE feature.values[CHOOSE i \in places(name) : TRUE])
               = IF name \in DOMAIN row THEN row[name] ELSE Null
    <2>1. PICK i \in DOMAIN v : v[i].name = name
      BY <1>2
    <2>2. column(name) = v[i]
      <3>1. PICK j \in DOMAIN s : v[i] = s[j]
        BY <1>1
      <3> QED  BY <2>1, <3>1, TheColumnOfAName
    <2>3. places(name) = {i}
      <3> HIDE DEF column
      <3> QED  BY <1>1, <1>3, <2>2 DEF OnceEach
    <2> HIDE DEF places
    <2> QED  BY <1>3, <2>1, <2>3
  <1> HIDE DEF places
  <1> QED  BY <1>4, <1>5 DEF feature

\* Through a legend that shares no column with the schema every value is NULL.
LEMMA AnotherLegendReadsNull ==
    ASSUME NEW s \in Seq(Column), OnceEach(s), NEW feature \in Stored,
           \A i \in DOMAIN feature.legend : \A j \in DOMAIN s : feature.legend[i] # s[j].id
    PROVE  DecodeValues(feature, s) = [name \in Names(s) |-> Null]
  <1> DEFINE column(name) == CHOOSE c \in Range(s) : c.name = name
             places(name) == {i \in DOMAIN feature.legend : feature.legend[i] = column(name).id}
  <1>1. DecodeValues(feature, s) =
            [name \in Names(s) |-> IF places(name) = {} THEN Null
                                   ELSE feature.values[CHOOSE i \in places(name) : TRUE]]
    BY DEF DecodeValues
  <1>2. ASSUME NEW name \in Names(s)
        PROVE  places(name) = {}
    <2>1. PICK j \in DOMAIN s : name = s[j].name
      BY NamesAreTheOthers
    <2>2. column(name) = s[j]
      BY <2>1, TheColumnOfAName
    <2> HIDE DEF column
    <2> QED  BY <2>2
  <1> HIDE DEF places
  <1> QED  BY <1>1, <1>2

LEMMA DecodedIsARow ==
    ASSUME NEW s \in Seq(Column), OnceEach(s), NEW feature \in Stored,
           Len(feature.values) = Len(feature.legend)
    PROVE  DecodeValues(feature, s) \in [Names(s) -> Val]
  <1> DEFINE column(name) == CHOOSE c \in Range(s) : c.name = name
             places(name) == {i \in DOMAIN feature.legend : feature.legend[i] = column(name).id}
  <1>1. DecodeValues(feature, s) =
            [name \in Names(s) |-> IF places(name) = {} THEN Null
                                   ELSE feature.values[CHOOSE i \in places(name) : TRUE]]
    BY DEF DecodeValues
  <1>2. /\ feature.values \in Seq(Val) /\ feature.legend \in Seq(IdOrNone)
        /\ DOMAIN feature.values = DOMAIN feature.legend
    BY DEF Stored, Val
  <1>3. ASSUME NEW name \in Names(s), places(name) # {}
        PROVE  feature.values[CHOOSE i \in places(name) : TRUE] \in Val
    <2>1. (CHOOSE i \in places(name) : TRUE) \in DOMAIN feature.legend
      BY <1>3
    <2> HIDE DEF places
    <2> QED  BY <1>2, <2>1
  <1> HIDE DEF places
  <1> QED  BY <1>1, <1>3 DEF Val

LEMMA RowType ==
    ASSUME NEW names \in SUBSET Name, NEW row \in [names -> Val]
    PROVE  row \in Row
  BY DEF Row, Val

-----------------------------------------------------------------------------
(* The inductive invariant. *)

ImportRead ==
    [schema : Seq(Column), rows : [Pk -> Row \cup {NoRow}],
     next : {"schema", "legend", "features"}, todo : SUBSET Pk]

Typed ==
    /\ TypeOK
    /\ lastId \in IdOrNone
    /\ importing \in ImportRead \cup {Idle}

\* An import's columns have ids after every one given, until schema.json has them; its
\* rows have its columns, and those it has still to write are rows.
Importing ==
    importing # Idle =>
        /\ importing.next = "schema" =>
            \E order \in Orders :
                importing.schema = NewColumns(order) /\ lastId + Len(order) <= MaxId
        /\ importing.next # "schema" => importing.schema = schema
        /\ \A pk \in Pk : importing.rows[pk] \in [Names(importing.schema) -> Val] \cup {NoRow}
        /\ \A pk \in importing.todo : importing.rows[pk] # NoRow

\* Every id in use is one that was given.
IdsWereGiven ==
    /\ OnceEach(schema)
    /\ \A i \in DOMAIN schema : schema[i].id <= lastId
    /\ \A pk \in Pk : Written(pk) =>
        \A i \in DOMAIN files[pk].legend : files[pk].legend[i] <= lastId

\* Whether or not its legend has a file, a feature is the row last written.
AsWritten ==
    \A pk \in Pk :
        wanted[pk] = IF Written(pk) THEN DecodeValues(files[pk], schema) ELSE NoRow

FeaturesInvariant == Typed /\ Importing /\ IdsWereGiven /\ AsWritten /\ StoreInvariant

-----------------------------------------------------------------------------
(* Imports. *)

\* The columns of an import are a schema, of ids that no column has had.
LEMMA NewColumnsAreNew ==
    ASSUME NEW order \in Orders, lastId \in IdOrNone, lastId + Len(order) <= MaxId
    PROVE  /\ NewColumns(order) \in Seq(Column) /\ OnceEach(NewColumns(order))
           /\ Len(NewColumns(order)) = Len(order)
           /\ \A i \in DOMAIN NewColumns(order) :
                lastId < NewColumns(order)[i].id /\ NewColumns(order)[i].id <= lastId + Len(order)
           /\ Names(NewColumns(order)) = Range(order) \ {Key}
  <1> DEFINE new == NewColumns(order)
  <1>1. order \in Seq(Name \cup {Key}) /\ IsInjective(order)
    BY OrdersAssumption
  <1>2. lastId \in Nat /\ Len(order) \in Nat /\ DOMAIN order = 1 .. Len(order)
    BY <1>1, MaxIdAssumption DEF IdOrNone
  <1>3. new = [i \in 1 .. Len(order) |-> [name |-> order[i], id |-> lastId + i]]
    BY <1>2 DEF NewColumns
  <1>4. ASSUME NEW i \in 1 .. Len(order)
        PROVE  [name |-> order[i], id |-> lastId + i] \in Column
    <2>1. order[i] \in Name \cup {Key}
      BY <1>1
    <2>2. lastId + i \in IdOrNone
      BY <1>2, MaxIdAssumption DEF IdOrNone
    <2> QED  BY <2>1, <2>2 DEF Column
  <1>5. new \in Seq(Column) /\ Len(new) = Len(order) /\ DOMAIN new = 1 .. Len(order)
    BY <1>2, <1>3, <1>4
  <1>6. \A i \in 1 .. Len(order) : new[i].name = order[i] /\ new[i].id = lastId + i
    BY <1>3
  <1> HIDE DEF new
  <1>7. OnceEach(new)
    <2>1. ASSUME NEW i \in 1 .. Len(order), NEW j \in 1 .. Len(order),
                 order[i] = order[j] \/ lastId + i = lastId + j
          PROVE  i = j
      <3>1. order[i] = order[j] => i = j
        BY <1>1, <1>2 DEF IsInjective
      <3> QED  BY <1>2, <2>1, <3>1
    <2> QED  BY <1>5, <1>6, <2>1 DEF OnceEach
  <1>8. \A i \in DOMAIN new : lastId < new[i].id /\ new[i].id <= lastId + Len(order)
    BY <1>2, <1>5, <1>6
  <1>9. Names(new) = Range(order) \ {Key}
    <2>1. Names(new) = {new[i].name : i \in DOMAIN new} \ {Key}
      BY <1>5, <1>7, NamesAreTheOthers
    <2> QED  BY <1>2, <1>5, <1>6, <2>1 DEF Range
  <1> QED  BY <1>5, <1>7, <1>8, <1>9 DEF new

Breakable == SUBSET {"schema", "legend"}

\* A step that leaves the ids and the tree, or truncates a file that is no feature's.
LEMMA TreeStays ==
    ASSUME FeaturesInvariant, UNCHANGED <<schema, legends, files, lastId, wanted>>,
           broken' \in Breakable,
           columns' \in SUBSET (Name \cup {Key}), rows' \in [Pk -> TableRow' \cup {NoRow}],
           edited' \in SUBSET Pk, importing' \in ImportRead \cup {Idle}, Importing'
    PROVE  FeaturesInvariant'
  <1>1. TypeOK'
    BY DEF FeaturesInvariant, Typed, TypeOK, Breakable
  <1>2. Typed'
    BY <1>1 DEF FeaturesInvariant, Typed
  <1>3. IdsWereGiven' /\ AsWritten' /\ StoreInvariant'
    BY <1>1 DEF FeaturesInvariant, IdsWereGiven, Written, AsWritten, StoreInvariant
  <1> QED  BY <1>2, <1>3 DEF FeaturesInvariant

LEMMA WhatIsBroken ==
    ASSUME FeaturesInvariant
    PROVE  broken \in Breakable
  BY DEF FeaturesInvariant, Typed, TypeOK, Breakable

LEMMA ImportPreserves ==
    ASSUME FeaturesInvariant, NEW order \in Orders, NEW source \in SourceRows(order),
           Import(order, source)
    PROVE  FeaturesInvariant'
  <1>1. /\ lastId + Len(order) <= MaxId
        /\ importing' = [schema |-> NewColumns(order), rows |-> source, next |-> "schema",
                         todo |-> {pk \in Pk : source[pk] # NoRow}]
        /\ UNCHANGED <<schema, legends, files, broken, lastId, wanted, columns, rows, edited>>
    BY DEF Import, tree, table
  <1>2. lastId \in IdOrNone
    BY DEF FeaturesInvariant, Typed
  <1>3. NewColumns(order) \in Seq(Column) /\ Names(NewColumns(order)) = Range(order) \ {Key}
    BY <1>1, <1>2, NewColumnsAreNew
  <1>4. Range(order) \ {Key} \subseteq Name
    BY OrdersAssumption DEF Range
  <1>5. source \in [Pk -> [Names(NewColumns(order)) -> Val] \cup {NoRow}]
    BY <1>3 DEF SourceRows, Val
  <1>6. source \in [Pk -> Row \cup {NoRow}]
    BY <1>3, <1>4, <1>5, RowType
  <1>7. importing' \in ImportRead
    BY <1>1, <1>3, <1>6 DEF ImportRead
  <1>8. Importing'
    <2>1. importing'.next = "schema" /\ importing'.schema = NewColumns(order)
          /\ importing'.rows = source /\ importing'.todo = {pk \in Pk : source[pk] # NoRow}
      BY <1>1
    <2>2. NewColumns(order)' = NewColumns(order)
      BY <1>1 DEF NewColumns
    <2> QED  BY <1>1, <1>5, <2>1, <2>2 DEF Importing
  <1>9. columns \in SUBSET (Name \cup {Key}) /\ rows \in [Pk -> TableRow \cup {NoRow}]
        /\ edited \in SUBSET Pk
    BY DEF FeaturesInvariant, Typed, TypeOK
  <1> QED  BY <1>1, <1>7, <1>8, <1>9, TreeStays, WhatIsBroken DEF TableRow

LEMMA WriteSchemaPreserves ==
    ASSUME FeaturesInvariant, WriteSchema
    PROVE  FeaturesInvariant'
  <1>1. /\ importing \in ImportRead /\ importing # Idle /\ importing.next = "schema"
        /\ schema' = importing.schema
        /\ lastId' = lastId + Len(schema')
        /\ importing' = [importing EXCEPT !.next = "legend"]
        /\ wanted' = [pk \in Pk |-> IF files[pk] \in {NoFile, Torn} THEN NoRow
                                    ELSE [name \in Names(importing.schema) |-> Null]]
        /\ broken' = broken \ {"schema"}
        /\ UNCHANGED <<legends, files, columns, rows, edited>>
    BY DEF WriteSchema, FeaturesInvariant, Typed, table
  <1>2. PICK order \in Orders :
            importing.schema = NewColumns(order) /\ lastId + Len(order) <= MaxId
    BY <1>1 DEF FeaturesInvariant, Importing
  <1>3. lastId \in IdOrNone /\ Len(order) \in Nat
    BY OrdersAssumption DEF FeaturesInvariant, Typed
  <1>4. /\ schema' \in Seq(Column) /\ OnceEach(schema') /\ Len(schema') = Len(order)
        /\ \A i \in DOMAIN schema' : lastId < schema'[i].id /\ schema'[i].id <= lastId + Len(order)
    BY <1>1, <1>2, <1>3, NewColumnsAreNew
  <1>5. lastId' \in IdOrNone /\ lastId' = lastId + Len(order) /\ lastId <= lastId'
    BY <1>1, <1>2, <1>3, <1>4, MaxIdAssumption DEF IdOrNone
  <1>6. Names(schema') \subseteq Name
    BY <1>4, NamesAreTheOthers
  <1>7. ASSUME NEW pk \in Pk, Written(pk)
        PROVE  /\ files[pk] \in Stored
               /\ \A i \in DOMAIN files[pk].legend :
                    /\ files[pk].legend[i] <= lastId /\ files[pk].legend[i] \in Int
                    /\ \A j \in DOMAIN schema' : files[pk].legend[i] # schema'[j].id
    <2>1. files[pk] \in Stored
      BY <1>7 DEF FeaturesInvariant, Typed, TypeOK, Written
    <2>2. ASSUME NEW i \in DOMAIN files[pk].legend
          PROVE  files[pk].legend[i] <= lastId /\ files[pk].legend[i] \in Int
      <3>1. files[pk].legend[i] \in IdOrNone
        BY <2>1 DEF Stored
      <3>2. files[pk].legend[i] <= lastId
        BY <1>7 DEF FeaturesInvariant, IdsWereGiven
      <3> QED  BY <3>1, <3>2, MaxIdAssumption DEF IdOrNone
    <2>3. ASSUME NEW j \in DOMAIN schema'
          PROVE  schema'[j].id \in Int /\ lastId < schema'[j].id
      <3>1. schema'[j] \in Column
        BY <1>4
      <3> QED  BY <1>4, <3>1, MaxIdAssumption DEF Column, IdOrNone
    <2>4. lastId \in Int
      BY <1>3, MaxIdAssumption DEF IdOrNone
    <2>5. \A a, b \in Int : a <= lastId /\ lastId < b => a # b
      BY <2>4
    <2> QED  BY <2>1, <2>2, <2>3, <2>5
  <1>8. wanted' \in [Pk -> Row \cup {NoRow}]
    <2>1. [name \in Names(schema') |-> Null] \in Row
      BY <1>6, RowType DEF Val
    <2> QED  BY <1>1, <2>1
  <1>9. TypeOK'
    BY <1>1, <1>4, <1>8 DEF FeaturesInvariant, Typed, TypeOK, TableRow
  <1>10. Typed'
    <2>1. importing' \in ImportRead
      BY <1>1 DEF ImportRead
    <2> QED  BY <1>5, <1>9, <2>1 DEF Typed
  <1>11. Importing'
    <2>1. importing'.next = "legend" /\ importing'.schema = importing.schema
          /\ importing'.rows = importing.rows /\ importing'.todo = importing.todo
      BY <1>1 DEF ImportRead
    <2> QED  BY <1>1, <2>1 DEF FeaturesInvariant, Importing
  <1>12. IdsWereGiven'
    <2>1. \A i \in DOMAIN schema' : schema'[i].id <= lastId'
      BY <1>4, <1>5
    <2>2. ASSUME NEW pk \in Pk, Written(pk), NEW i \in DOMAIN files[pk].legend
          PROVE  files[pk].legend[i] <= lastId'
      <3>1. files[pk].legend[i] <= lastId /\ files[pk].legend[i] \in Int
        BY <1>7, <2>2
      <3>2. lastId \in Int /\ lastId' \in Int
        BY <1>3, <1>5, MaxIdAssumption DEF IdOrNone
      <3> QED  BY <1>5, <3>1, <3>2
    <2> QED  BY <1>1, <1>4, <2>1, <2>2 DEF IdsWereGiven, Written
  <1>13. AsWritten'
    <2>1. ASSUME NEW pk \in Pk, Written(pk)
          PROVE  DecodeValues(files[pk], schema') = [name \in Names(schema') |-> Null]
      BY <1>4, <1>7, <2>1, AnotherLegendReadsNull
    <2> QED  BY <1>1, <2>1 DEF AsWritten, Written
  <1>14. StoreInvariant'
    <2>1. ASSUME NEW pk \in Pk, Written(pk)
          PROVE  Range(files[pk].legend) \cap {column.id : column \in Range(schema')} = {}
      BY <1>7, <2>1 DEF Range
    <2> QED  BY <1>1, <1>9, <2>1 DEF FeaturesInvariant, StoreInvariant, Written
  <1> QED  BY <1>10, <1>11, <1>12, <1>13, <1>14 DEF FeaturesInvariant

LEMMA WriteLegendPreserves ==
    ASSUME FeaturesInvariant, WriteLegend
    PROVE  FeaturesInvariant'
  <1>1. /\ importing \in ImportRead /\ importing # Idle /\ importing.next = "legend"
        /\ legends' = legends \cup {LegendOf(schema)}
        /\ importing' = [importing EXCEPT !.next = "features"]
        /\ UNCHANGED <<schema, files, broken, columns, rows, edited, lastId, wanted>>
    BY DEF WriteLegend, FeaturesInvariant, Typed, table
  <1>2. schema \in Seq(Column) /\ OnceEach(schema)
    BY DEF FeaturesInvariant, Typed, TypeOK, IdsWereGiven
  <1>3. LegendOf(schema) \in Seq(IdOrNone)
    <2>1. \A name \in DOMAIN << >> : << >>[name] \in Val
      OBVIOUS
    <2> QED  BY <1>2, <2>1, StoredIsOfTheLegend
  <1>4. TypeOK'
    BY <1>1, <1>3 DEF FeaturesInvariant, Typed, TypeOK, TableRow
  <1>5. Typed'
    <2>1. importing' \in ImportRead
      BY <1>1 DEF ImportRead
    <2> QED  BY <1>1, <1>4, <2>1 DEF FeaturesInvariant, Typed
  <1>6. Importing'
    <2>1. importing'.next = "features" /\ importing'.schema = importing.schema
          /\ importing'.rows = importing.rows /\ importing'.todo = importing.todo
      BY <1>1 DEF ImportRead
    <2> QED  BY <1>1, <2>1 DEF FeaturesInvariant, Importing
  <1>7. IdsWereGiven' /\ AsWritten' /\ StoreInvariant'
    BY <1>1, <1>4 DEF FeaturesInvariant, IdsWereGiven, Written, AsWritten, StoreInvariant
  <1> QED  BY <1>5, <1>6, <1>7 DEF FeaturesInvariant

-----------------------------------------------------------------------------
(* Feature files. *)

\* What a step may do to a file: leave it, remove or tear it, or write a row under the
\* schema's legend.
Rewritten(pk) ==
    \/ files'[pk] = files[pk] /\ wanted'[pk] = wanted[pk]
    \/ files'[pk] \in {NoFile, Torn} /\ wanted'[pk] = NoRow
    \/ \E row :
        /\ \A name \in DOMAIN row : row[name] \in Val
        /\ files'[pk] = StoredFeature(schema, row)
        /\ wanted'[pk] = [name \in Names(schema) |-> IF name \in DOMAIN row THEN row[name] ELSE Null]

\* The conjuncts of IdsWereGiven, AsWritten and StoreInvariant for one file.
GoodFile(file, want) ==
    /\ file \in Stored \cup {NoFile, Torn}
    /\ file \in {NoFile, Torn} => want = NoRow
    /\ file \notin {NoFile, Torn} =>
        /\ \A i \in DOMAIN file.legend : file.legend[i] <= lastId
        /\ want = DecodeValues(file, schema)
        /\ Len(file.values) = Len(file.legend)
        /\ IsInjective(file.legend)
        /\ \/ file.legend = LegendOf(schema)
           \/ Range(file.legend) \cap {column.id : column \in Range(schema)} = {}

LEMMA FilesAreGood ==
    ASSUME FeaturesInvariant, NEW pk \in Pk
    PROVE  GoodFile(files[pk], wanted[pk])
  BY DEF FeaturesInvariant, Typed, TypeOK, IdsWereGiven, AsWritten, StoreInvariant, Written, GoodFile

LEMMA GoodRow ==
    ASSUME FeaturesInvariant, NEW pk \in Pk
    PROVE  wanted[pk] \in Row \cup {NoRow}
  BY DEF FeaturesInvariant, Typed, TypeOK

LEMMA ARewrittenFileIsGood ==
    ASSUME FeaturesInvariant, NEW pk \in Pk, Rewritten(pk)
    PROVE  GoodFile(files'[pk], wanted'[pk]) /\ wanted'[pk] \in Row \cup {NoRow}
  <1>1. CASE files'[pk] = files[pk] /\ wanted'[pk] = wanted[pk]
    BY <1>1, FilesAreGood, GoodRow
  <1>2. CASE files'[pk] \in {NoFile, Torn} /\ wanted'[pk] = NoRow
    BY <1>2 DEF GoodFile
  <1>3. ASSUME NEW row, \A name \in DOMAIN row : row[name] \in Val,
               files'[pk] = StoredFeature(schema, row),
               wanted'[pk] = [name \in Names(schema) |->
                                IF name \in DOMAIN row THEN row[name] ELSE Null]
        PROVE  GoodFile(files'[pk], wanted'[pk]) /\ wanted'[pk] \in Row \cup {NoRow}
    <2>1. schema \in Seq(Column) /\ OnceEach(schema) /\ \A i \in DOMAIN schema : schema[i].id <= lastId
      BY DEF FeaturesInvariant, Typed, TypeOK, IdsWereGiven
    <2> DEFINE file == StoredFeature(schema, row)
    <2>2. /\ file \in Stored /\ file.legend = LegendOf(schema)
          /\ IsInjective(LegendOf(schema)) /\ Len(file.values) = Len(file.legend)
      BY <1>3, <2>1, StoredIsOfTheLegend
    <2>3. ASSUME NEW i \in DOMAIN LegendOf(schema)
          PROVE  LegendOf(schema)[i] <= lastId
      <3>1. i \in DOMAIN ValueColumns(schema) /\ LegendOf(schema)[i] = ValueColumns(schema)[i].id
        BY DEF LegendOf
      <3>2. \E j \in DOMAIN schema : ValueColumns(schema)[i] = schema[j]
        BY <2>1, <3>1, ValueColumnsAreTheOthers
      <3> QED  BY <2>1, <3>1, <3>2
    <2>4. wanted'[pk] = DecodeValues(file, schema)
      BY <1>3, <2>1, StoredReadsBack
    <2>5. wanted'[pk] \in Row
      <3>1. Names(schema) \in SUBSET Name
        BY <2>1, NamesAreTheOthers
      <3>2. wanted'[pk] \in [Names(schema) -> Val]
        BY <1>3 DEF Val
      <3> QED  BY <3>1, <3>2, RowType
    <2>6. file \notin {NoFile, Torn}
      BY <2>2, NoFileAssumption
    <2>7. files'[pk] = file
      BY <1>3
    <2> HIDE DEF file
    <2> QED  BY <2>2, <2>3, <2>4, <2>5, <2>6, <2>7 DEF GoodFile
  <1> QED  BY <1>1, <1>2, <1>3 DEF Rewritten

\* A step that rewrites files, the schema and its legends as they are.
LEMMA FilesRewritten ==
    ASSUME FeaturesInvariant, UNCHANGED <<schema, legends, broken, lastId>>,
           files' = [pk \in Pk |-> files'[pk]], wanted' = [pk \in Pk |-> wanted'[pk]],
           \A pk \in Pk : Rewritten(pk),
           columns' \in SUBSET (Name \cup {Key}), rows' \in [Pk -> TableRow' \cup {NoRow}],
           edited' \in SUBSET Pk, importing' \in ImportRead \cup {Idle}, Importing'
    PROVE  FeaturesInvariant'
  <1>1. \A pk \in Pk : GoodFile(files'[pk], wanted'[pk]) /\ wanted'[pk] \in Row \cup {NoRow}
    BY ARewrittenFileIsGood
  <1>2. files' \in [Pk -> Stored \cup {NoFile, Torn}]
    <2>1. \A pk \in Pk : files'[pk] \in Stored \cup {NoFile, Torn}
      BY <1>1 DEF GoodFile
    <2> QED  BY <2>1
  <1>3. wanted' \in [Pk -> Row \cup {NoRow}]
    BY <1>1
  <1>4. TypeOK'
    BY <1>2, <1>3 DEF FeaturesInvariant, Typed, TypeOK
  <1>5. Typed'
    BY <1>4 DEF FeaturesInvariant, Typed
  <1>6. IdsWereGiven'
    BY <1>1 DEF FeaturesInvariant, IdsWereGiven, Written, GoodFile
  <1>7. AsWritten'
    BY <1>1 DEF AsWritten, Written, GoodFile
  <1>8. StoreInvariant'
    BY <1>1, <1>4 DEF StoreInvariant, GoodFile
  <1> QED  BY <1>5, <1>6, <1>7, <1>8 DEF FeaturesInvariant

LEMMA WriteFeaturePreserves ==
    ASSUME FeaturesInvariant, NEW pk \in Pk, WriteFeature(pk)
    PROVE  FeaturesInvariant'
  <1> DEFINE row == importing.rows[pk]
  <1>1. /\ importing \in ImportRead /\ importing # Idle /\ importing.next = "features"
        /\ pk \in importing.todo
        /\ files' = [files EXCEPT ![pk] = StoredFeature(schema, row)]
        /\ importing' = [importing EXCEPT !.todo = @ \ {pk}]
        /\ wanted' = [wanted EXCEPT ![pk] = row]
        /\ UNCHANGED <<schema, legends, broken, lastId, columns, rows, edited>>
    BY DEF WriteFeature, FeaturesInvariant, Typed, table
  <1>2. files \in [Pk -> Stored \cup {NoFile, Torn}] /\ wanted \in [Pk -> Row \cup {NoRow}]
    BY DEF FeaturesInvariant, Typed, TypeOK
  <1>3. row \in [Names(schema) -> Val]
    BY <1>1 DEF FeaturesInvariant, Importing
  <1>4. row = [name \in Names(schema) |-> IF name \in DOMAIN row THEN row[name] ELSE Null]
    <2>1. DOMAIN row = Names(schema) /\ row = [name \in Names(schema) |-> row[name]]
      BY <1>3
    <2> HIDE DEF row
    <2> QED  BY <2>1
  <1>5. Rewritten(pk)
    <2>1. \A name \in DOMAIN row : row[name] \in Val
      BY <1>3
    <2>2. files'[pk] = StoredFeature(schema, row) /\ wanted'[pk] = row
      BY <1>1, <1>2
    <2> HIDE DEF row
    <2> QED  BY <1>4, <2>1, <2>2 DEF Rewritten
  <1>6. \A other \in Pk : other # pk => Rewritten(other)
    BY <1>1, <1>2 DEF Rewritten
  <1>7. files' = [p \in Pk |-> files'[p]] /\ wanted' = [p \in Pk |-> wanted'[p]]
    BY <1>1, <1>2
  <1>8. importing' \in ImportRead
    BY <1>1 DEF ImportRead
  <1>9. Importing'
    <2>1. importing'.next = "features" /\ importing'.schema = importing.schema
          /\ importing'.rows = importing.rows /\ importing'.todo \subseteq importing.todo
      BY <1>1 DEF ImportRead
    <2> QED  BY <1>1, <2>1 DEF FeaturesInvariant, Importing
  <1>10. columns \in SUBSET (Name \cup {Key}) /\ rows \in [Pk -> TableRow \cup {NoRow}]
         /\ edited \in SUBSET Pk
    BY DEF FeaturesInvariant, Typed, TypeOK
  <1> QED  BY <1>1, <1>5, <1>6, <1>7, <1>8, <1>9, <1>10, FilesRewritten DEF TableRow

LEMMA CrashPreserves ==
    ASSUME FeaturesInvariant, Crash
    PROVE  FeaturesInvariant'
  <1>1. /\ importing' = Idle /\ importing \in ImportRead
        /\ UNCHANGED <<schema, legends, lastId, columns, rows, edited>>
    BY DEF Crash, FeaturesInvariant, Typed, table
  <1>2. files \in [Pk -> Stored \cup {NoFile, Torn}] /\ wanted \in [Pk -> Row \cup {NoRow}]
    BY DEF FeaturesInvariant, Typed, TypeOK
  <1>3. Importing'
    BY <1>1 DEF Importing
  <1>4. columns \in SUBSET (Name \cup {Key}) /\ rows \in [Pk -> TableRow \cup {NoRow}]
        /\ edited \in SUBSET Pk
    BY DEF FeaturesInvariant, Typed, TypeOK
  <1>5. CASE /\ broken' \in {broken, broken \cup ({importing.next} \ {"features"})}
             /\ UNCHANGED <<files, wanted>>
    <2>1. broken' \in Breakable
      <3>1. importing.next \in {"schema", "legend", "features"}
        BY <1>1 DEF ImportRead
      <3> QED  BY <1>5, <3>1, WhatIsBroken DEF Breakable
    <2> QED  BY <1>1, <1>3, <1>4, <1>5, <2>1, TreeStays DEF TableRow
  <1>6. ASSUME NEW pk \in importing.todo, UNCHANGED broken,
               files' = [files EXCEPT ![pk] = Torn], wanted' = [wanted EXCEPT ![pk] = NoRow]
        PROVE  FeaturesInvariant'
    <2>1. pk \in Pk
      BY <1>1 DEF ImportRead
    <2>2. \A other \in Pk : Rewritten(other)
      BY <1>2, <1>6, <2>1 DEF Rewritten
    <2>3. files' = [p \in Pk |-> files'[p]] /\ wanted' = [p \in Pk |-> wanted'[p]]
      BY <1>2, <1>6
    <2> QED  BY <1>1, <1>3, <1>4, <1>6, <2>2, <2>3, FilesRewritten DEF TableRow
  <1> QED  BY <1>5, <1>6 DEF Crash

-----------------------------------------------------------------------------
(* The working copy's table. *)

LEMMA SchemaNames ==
    ASSUME FeaturesInvariant
    PROVE  /\ schema \in Seq(Column) /\ OnceEach(schema)
           /\ Names(schema) \cup {Key} \in SUBSET (Name \cup {Key})
           /\ (Names(schema) \cup {Key}) \ {Key} = Names(schema)
  <1>1. schema \in Seq(Column) /\ OnceEach(schema)
    BY DEF FeaturesInvariant, Typed, TypeOK, IdsWereGiven
  <1>2. Names(schema) \subseteq Name
    BY <1>1, NamesAreTheOthers
  <1> QED  BY <1>1, <1>2, KeyAssumption

LEMMA CheckoutImportedPreserves ==
    ASSUME FeaturesInvariant, CheckoutImported
    PROVE  FeaturesInvariant'
  <1>1. /\ importing \in ImportRead /\ importing # Idle /\ importing.next = "features"
        /\ edited' = {} /\ importing' = Idle
        /\ UNCHANGED <<schema, legends, files, broken, lastId, wanted>>
        /\ \A pk \in Pk : importing.rows[pk] \in [Names(schema) -> Val] \cup {NoRow}
        /\ importing.rows \in [Pk -> Row \cup {NoRow}]
    BY DEF CheckoutImported, FeaturesInvariant, Typed, Importing, ImportRead, tree
  <1>2. Importing'
    BY <1>1 DEF Importing
  <1>3. columns \in SUBSET (Name \cup {Key}) /\ rows \in [Pk -> TableRow \cup {NoRow}]
    BY DEF FeaturesInvariant, Typed, TypeOK
  <1>4. columns' \in SUBSET (Name \cup {Key}) /\ rows' \in [Pk -> TableRow' \cup {NoRow}]
    <2>1. CASE columns = {}
      <3>1. columns' = Names(schema) \cup {Key} /\ rows' = importing.rows
        BY <2>1 DEF CheckoutImported
      <3>2. TableRow' = [Names(schema) -> Val]
        BY <3>1, SchemaNames DEF TableRow, Val
      <3> QED  BY <1>1, <3>1, <3>2, SchemaNames
    <2>2. CASE columns # {}
      <3>1. columns' = columns /\ rows' = Overlay(importing.rows)
        BY <2>2 DEF CheckoutImported
      <3>2. ASSUME NEW pk \in Pk
            PROVE  Overlay(importing.rows)[pk] \in TableRow \cup {NoRow}
        <4>1. CASE importing.rows[pk] = NoRow
          BY <1>3, <4>1 DEF Overlay
        <4>2. CASE importing.rows[pk] # NoRow
          <5> DEFINE row == importing.rows[pk]
          <5>1. row \in [Names(schema) -> Val]
            BY <1>1, <4>2
          <5>2. Overlay(importing.rows)[pk] =
                    [name \in columns \ {Key} |-> IF name \in DOMAIN row THEN row[name] ELSE Null]
            BY <4>2 DEF Overlay
          <5> HIDE DEF row
          <5>3. [name \in columns \ {Key} |-> IF name \in DOMAIN row THEN row[name] ELSE Null]
                    \in [columns \ {Key} -> Val]
            BY <5>1 DEF Val
          <5> QED  BY <5>2, <5>3 DEF TableRow, Val
        <4> QED  BY <4>1, <4>2
      <3>3. Overlay(importing.rows) \in [Pk -> TableRow \cup {NoRow}]
        BY <3>2 DEF Overlay
      <3> QED  BY <1>3, <3>1, <3>3 DEF TableRow
    <2> QED  BY <2>1, <2>2
  <1> QED  BY <1>1, <1>2, <1>4, TreeStays, WhatIsBroken

LEMMA CheckoutFailsPreserves ==
    ASSUME FeaturesInvariant, CheckoutFails
    PROVE  FeaturesInvariant'
  <1>1. /\ importing' = Idle
        /\ UNCHANGED <<schema, legends, files, broken, lastId, wanted, columns, rows, edited>>
    BY DEF CheckoutFails, tree, table
  <1>2. Importing'
    BY <1>1 DEF Importing
  <1>3. columns \in SUBSET (Name \cup {Key}) /\ rows \in [Pk -> TableRow \cup {NoRow}]
        /\ edited \in SUBSET Pk
    BY DEF FeaturesInvariant, Typed, TypeOK
  <1> QED  BY <1>1, <1>2, <1>3, TreeStays, WhatIsBroken DEF TableRow

LEMMA EditPreserves ==
    ASSUME FeaturesInvariant, NEW pk \in Pk, NEW row \in TableRow \cup {NoRow}, Edit(pk, row)
    PROVE  FeaturesInvariant'
  <1>1. /\ importing = Idle /\ importing' = importing /\ columns' = columns
        /\ rows' = [rows EXCEPT ![pk] = row] /\ edited' = edited \cup {pk}
        /\ UNCHANGED <<schema, legends, files, broken, lastId, wanted>>
    BY DEF Edit, tree
  <1>2. Importing'
    BY <1>1 DEF Importing
  <1>3. columns \in SUBSET (Name \cup {Key}) /\ rows \in [Pk -> TableRow \cup {NoRow}]
        /\ edited \in SUBSET Pk
    BY DEF FeaturesInvariant, Typed, TypeOK
  <1>4. rows' \in [Pk -> TableRow \cup {NoRow}] /\ TableRow' = TableRow
    BY <1>1, <1>3 DEF TableRow
  <1> QED  BY <1>1, <1>2, <1>3, <1>4, TreeStays, WhatIsBroken

LEMMA RenameColumnPreserves ==
    ASSUME FeaturesInvariant, NEW old \in Name, NEW new \in Name, RenameColumn(old, new)
    PROVE  FeaturesInvariant'
  <1>1. /\ importing = Idle /\ importing' = importing /\ edited' = edited
        /\ old \in columns /\ new \in Name \ columns
        /\ columns' = (columns \ {old}) \cup {new}
        /\ rows' = [pk \in Pk |-> IF rows[pk] = NoRow THEN NoRow
                    ELSE [name \in columns' \ {Key} |->
                            rows[pk][IF name = new THEN old ELSE name]]]
        /\ UNCHANGED <<schema, legends, files, broken, lastId, wanted>>
    BY DEF RenameColumn, tree
  <1>2. Importing'
    BY <1>1 DEF Importing
  <1>3. columns \in SUBSET (Name \cup {Key}) /\ rows \in [Pk -> TableRow \cup {NoRow}]
        /\ edited \in SUBSET Pk
    BY DEF FeaturesInvariant, Typed, TypeOK
  <1>4. ASSUME NEW pk \in Pk
        PROVE  rows'[pk] \in TableRow' \cup {NoRow}
    <2>1. CASE rows[pk] = NoRow
      BY <1>1, <2>1
    <2>2. CASE rows[pk] # NoRow
      <3>1. rows[pk] \in [columns \ {Key} -> Value \cup {Null}]
        BY <1>3, <2>2 DEF TableRow
      <3>2. \A name \in columns' \ {Key} :
                (IF name = new THEN old ELSE name) \in columns \ {Key}
        BY <1>1, KeyAssumption
      <3>3. rows'[pk] = [name \in columns' \ {Key} |-> rows[pk][IF name = new THEN old ELSE name]]
        BY <1>1, <2>2
      <3> QED  BY <3>1, <3>2, <3>3 DEF TableRow
    <2> QED  BY <2>1, <2>2
  <1>5. rows' \in [Pk -> TableRow' \cup {NoRow}]
    BY <1>1, <1>4
  <1> QED  BY <1>1, <1>2, <1>3, <1>5, TreeStays, WhatIsBroken

LEMMA CommitPreserves ==
    ASSUME FeaturesInvariant, Commit
    PROVE  FeaturesInvariant'
  <1>1. /\ importing = Idle /\ importing' = importing /\ edited' = {}
        /\ files' = [pk \in Pk |-> IF pk \in edited THEN CommittedFile(pk) ELSE files[pk]]
        /\ wanted' = [pk \in Pk |-> IF pk \in edited THEN Projected(rows[pk]) ELSE wanted[pk]]
        /\ UNCHANGED <<schema, legends, broken, lastId, columns, rows>>
    BY DEF Commit
  <1>2. Importing'
    BY <1>1 DEF Importing
  <1>3. columns \in SUBSET (Name \cup {Key}) /\ rows \in [Pk -> TableRow \cup {NoRow}]
    BY DEF FeaturesInvariant, Typed, TypeOK
  <1>4. ASSUME NEW pk \in Pk
        PROVE  Rewritten(pk)
    <2>1. CASE pk \notin edited
      BY <1>1, <2>1 DEF Rewritten
    <2>2. CASE pk \in edited /\ rows[pk] = NoRow
      BY <1>1, <2>2 DEF Rewritten, CommittedFile, Projected
    <2>3. CASE pk \in edited /\ rows[pk] # NoRow
      <3>1. files'[pk] = StoredFeature(schema, rows[pk])
        BY <1>1, <2>3 DEF CommittedFile
      <3>2. wanted'[pk] = [name \in Names(schema) |->
                            IF name \in DOMAIN rows[pk] THEN rows[pk][name] ELSE Null]
        BY <1>1, <2>3 DEF Projected
      <3>3. \A name \in DOMAIN rows[pk] : rows[pk][name] \in Val
        BY <1>3, <2>3 DEF TableRow, Val
      <3> QED  BY <3>1, <3>2, <3>3 DEF Rewritten
    <2> QED  BY <2>1, <2>2, <2>3
  <1>5. files' = [pk \in Pk |-> files'[pk]] /\ wanted' = [pk \in Pk |-> wanted'[pk]]
    BY <1>1
  <1> QED  BY <1>1, <1>2, <1>3, <1>4, <1>5, FilesRewritten DEF TableRow

LEMMA RebuildPreserves ==
    ASSUME FeaturesInvariant, Rebuild
    PROVE  FeaturesInvariant'
  <1>1. /\ importing = Idle /\ importing' = importing /\ edited' = {}
        /\ UNCHANGED <<schema, legends, files, broken, lastId, wanted>>
    BY DEF Rebuild, tree
  <1>2. Importing'
    BY <1>1 DEF Importing
  <1>3. CASE TreeIsReadable
    <2>1. columns' = Names(schema) \cup {Key} /\ rows' = [pk \in Pk |-> Load(pk)]
      BY <1>3 DEF Rebuild
    <2>2. ASSUME NEW pk \in Pk, Written(pk)
          PROVE  DecodeValues(files[pk], schema) \in [Names(schema) -> Val]
      <3>1. files[pk] \in Stored /\ Len(files[pk].values) = Len(files[pk].legend)
        BY <2>2 DEF FeaturesInvariant, Typed, TypeOK, StoreInvariant, Written
      <3> QED  BY <3>1, SchemaNames, DecodedIsARow
    <2>3. TableRow' = [Names(schema) -> Val]
      BY <2>1, SchemaNames DEF TableRow, Val
    <2>4. \A pk \in Pk : Load(pk) \in TableRow' \cup {NoRow}
      BY <2>2, <2>3 DEF Load, Written
    <2> QED  BY <1>1, <1>2, <2>1, <2>4, SchemaNames, TreeStays, WhatIsBroken
  <1>4. CASE ~ TreeIsReadable
    <2>1. columns' = {} /\ rows' = [pk \in Pk |-> NoRow]
      BY <1>4 DEF Rebuild
    <2> QED  BY <1>1, <1>2, <2>1, TreeStays, WhatIsBroken
  <1> QED  BY <1>3, <1>4

-----------------------------------------------------------------------------
(* The theorems. *)

LEMMA InitEstablishes ==
    ASSUME Init
    PROVE  FeaturesInvariant
  <1>1. Typed
    BY MaxIdAssumption DEF Init, Typed, TypeOK, IdOrNone
  <1>2. schema = <<>> /\ DOMAIN schema = {} /\ importing = Idle
        /\ \A pk \in Pk : files[pk] = NoFile /\ wanted[pk] = NoRow
    BY DEF Init
  <1> QED  BY <1>1, <1>2 DEF FeaturesInvariant, Typed, Importing, IdsWereGiven, OnceEach, Written, AsWritten,
               StoreInvariant

LEMMA ImportStepPreserves ==
    ASSUME FeaturesInvariant, ImportStep
    PROVE  FeaturesInvariant'
  <1>1. ASSUME NEW order \in Orders, NEW source \in SourceRows(order),
               Import(order, source)
        PROVE  FeaturesInvariant'
    BY <1>1, ImportPreserves
  <1>2. ASSUME NEW pk \in Pk, WriteFeature(pk)
        PROVE  FeaturesInvariant'
    BY <1>2, WriteFeaturePreserves
  <1>3. CASE WriteSchema \/ WriteLegend \/ CheckoutImported \/ CheckoutFails \/ Crash
    BY <1>3, WriteSchemaPreserves, WriteLegendPreserves, CheckoutImportedPreserves,
       CheckoutFailsPreserves, CrashPreserves
  <1> QED  BY <1>1, <1>2, <1>3 DEF ImportStep

LEMMA NextPreserves ==
    ASSUME FeaturesInvariant, [Next]_vars
    PROVE  FeaturesInvariant'
  <1>1. CASE ImportStep
    BY <1>1, ImportStepPreserves
  <1>2. ASSUME NEW pk \in Pk, NEW row \in TableRow \cup {NoRow}, Edit(pk, row)
        PROVE  FeaturesInvariant'
    BY <1>2, EditPreserves
  <1>3. ASSUME NEW old \in Name, NEW new \in Name, RenameColumn(old, new)
        PROVE  FeaturesInvariant'
    BY <1>3, RenameColumnPreserves
  <1>4. CASE Commit
    BY <1>4, CommitPreserves
  <1>5. CASE Rebuild
    BY <1>5, RebuildPreserves
  <1>6. CASE UNCHANGED vars
    <2>1. UNCHANGED <<schema, legends, files, broken, lastId, wanted, columns, rows, edited, importing>>
      BY <1>6 DEF vars, tree, table
    <2>2. columns \in SUBSET (Name \cup {Key}) /\ rows \in [Pk -> TableRow \cup {NoRow}]
          /\ edited \in SUBSET Pk /\ importing \in ImportRead \cup {Idle}
      BY DEF FeaturesInvariant, Typed, TypeOK
    <2>3. Importing'
      BY <2>1 DEF FeaturesInvariant, Importing, NewColumns
    <2> QED  BY <2>1, <2>2, <2>3, TreeStays, WhatIsBroken DEF TableRow
  <1> QED  BY <1>1, <1>2, <1>3, <1>4, <1>5, <1>6 DEF Next

\* Column ids are given once, and every file, its legend found or not, is the row last
\* written: the reason why no import, crash, rename or commit mixes columns up.
THEOREM IdsKeepColumnsApart == Spec => []FeaturesInvariant
  <1>1. Init => FeaturesInvariant
    BY InitEstablishes
  <1>2. FeaturesInvariant /\ [Next]_vars => FeaturesInvariant'
    BY NextPreserves
  <1> QED  BY <1>1, <1>2, PTL DEF Spec

\* A feature file has a value for each column of its legend, which has none twice, and
\* those of an earlier import share no column with the schema of now.
THEOREM LegendsFitTheirFeatures == Spec => []StoreInvariant
  <1>1. FeaturesInvariant => StoreInvariant
    BY DEF FeaturesInvariant
  <1> QED  BY <1>1, IdsKeepColumnsApart, PTL

\* A feature that loads is the row last written to it, or NULL throughout after an import
\* that did not write it.
THEOREM FeaturesLoad == Spec => []FeaturesLoadAsWritten
  <1>1. FeaturesInvariant => FeaturesLoadAsWritten
    BY DEF FeaturesInvariant, AsWritten, Written, FeaturesLoadAsWritten, Load
  <1> QED  BY <1>1, IdsKeepColumnsApart, PTL

=============================================================================
