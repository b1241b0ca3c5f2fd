---------------------------- MODULE DatasetsProof ----------------------------
(***************************************************************************)
(* Where every dataset has a geometry, gpkg_geometry_columns references    *)
(* every row of gpkg_contents, and no checkout can delete another table's: *)
(* it is refused instead.  Every table then stays listed, for any datasets *)
(* and titles, and what a commit writes elsewhere than to the dataset      *)
(* whose row was edited belongs to two datasets of one table.              *)
(***************************************************************************)
EXTENDS Datasets, TLAPS

\* The registry starts empty.
LEMMA InitRegistry == Init => RegistryInvariant
  BY DEF Init, RegistryInvariant, TypeOK, Registered, TablesAreOfTheTree, Listed,
         ContentsRow, Change

\* Where every listed table has a geometry, a checkout that is not refused displaces no row.
LEMMA NothingDisplaced ==
  ASSUME RegistryInvariant, NEW d \in Dataset, ~Refused(d)
  PROVE  Displaced(d) = {}
  BY DEF RegistryInvariant, Registered, Refused, Displaced, Listed

\* What a checkout registers keeps the keys and the list.
LEMMA RegisterKeeps ==
  ASSUME Spatial = Dataset, RegistryInvariant, NEW d \in Dataset, ~Refused(d), Register(d)
  PROVE  /\ contents' \in SUBSET ContentsRow /\ geometry' \in SUBSET Table
         /\ Listed' = Listed \cup {TableName[d]}
         /\ Registered'
<1> DEFINE row == [table |-> TableName[d], identifier |-> IdentifierOf(d)]
<1>1. TableName[d] \in Table
  BY TableNameAssumption
<1>2. row \in ContentsRow
  <2>1. title[d] \in Title
    BY DEF RegistryInvariant, TypeOK
  <2> QED
    BY <1>1, <2>1 DEF IdentifierOf, ContentsRow
<1>3. contents' = {r \in contents : r.table # TableName[d]} \cup {row}
  BY NothingDisplaced DEF Register
<1>4. geometry' = geometry \cup {TableName[d]}
  BY DEF Register
<1>5. Listed' = Listed \cup {TableName[d]}
  <2>1. row.table = TableName[d]
    OBVIOUS
  <2>2. \A t : t \in Listed' <=> t \in Listed \/ t = TableName[d]
    BY <1>3, <2>1, Zenon DEF Listed
  <2> QED
    BY <2>2
<1>6. Registered'
  <2>1. ASSUME NEW r \in contents', NEW s \in contents',
               r.table = s.table \/ r.identifier = s.identifier
        PROVE  r = s
    <3>1. \A t \in contents : t.table # TableName[d] => t.identifier # IdentifierOf(d)
      BY NothingDisplaced DEF Displaced
    <3>2. CASE r = row /\ s = row
      BY <3>2
    <3>3. CASE r # row /\ s # row
      BY <1>3, <2>1, <3>3 DEF RegistryInvariant, Registered
    <3>4. CASE r = row /\ s # row
      BY <1>3, <2>1, <3>1, <3>4
    <3>5. CASE r # row /\ s = row
      BY <1>3, <2>1, <3>1, <3>5
    <3> QED
      BY <3>2, <3>3, <3>4, <3>5
  <2> QED
    BY <1>4, <1>5, <2>1 DEF RegistryInvariant, Registered
<1> QED
  BY <1>1, <1>2, <1>3, <1>4, <1>5, <1>6 DEF RegistryInvariant, TypeOK

\* A checkout of a spatial dataset keeps the registry.
LEMMA CheckoutOneKeeps ==
  ASSUME Spatial = Dataset, RegistryInvariant, NEW d \in Dataset, CheckoutOne(d)
  PROVE  RegistryInvariant'
<1>1. TableName[d] \in Table
  BY TableNameAssumption
<1>2. /\ contents' \in SUBSET ContentsRow /\ geometry' \in SUBSET Table
      /\ Listed' = Listed \cup {TableName[d]} /\ Registered'
  BY RegisterKeeps DEF CheckoutOne
<1>3. \A t \in Table : holds'[t] = IF t = TableName[d] THEN holds[t] \cup {d} ELSE holds[t]
  BY DEF RegistryInvariant, TypeOK, CheckoutOne
<1>4. TypeOK'
  BY <1>1, <1>2 DEF RegistryInvariant, TypeOK, CheckoutOne
<1>5. TablesAreOfTheTree'
  <2>1. d \in tree /\ tree' = tree
    BY DEF RegistryInvariant, TypeOK, CheckoutOne
  <2>2. \A t \in Table : holds'[t] \subseteq {e \in tree' : TableName[e] = t}
    <3>1. ASSUME NEW t \in Table, NEW e \in holds'[t]
          PROVE  e \in tree /\ TableName[e] = t
      <4>1. e \in holds[t] \/ (t = TableName[d] /\ e = d)
        BY <1>3, <3>1
      <4>2. holds[t] \subseteq {f \in tree : TableName[f] = t}
        BY DEF RegistryInvariant, TablesAreOfTheTree
      <4> QED
        BY <2>1, <4>1, <4>2
    <3> QED
      BY <2>1, <3>1
  <2>3. triggers' = triggers \cup {TableName[d]} /\ triggers \in SUBSET Table
    BY DEF RegistryInvariant, TypeOK, CheckoutOne
  <2>4. \A t \in triggers' : holds'[t] # {}
    BY <1>1, <1>3, <2>3 DEF RegistryInvariant, TablesAreOfTheTree
  <2>5. \A change \in edited' : change \in edited /\ change.table # TableName[d]
    BY DEF CheckoutOne
  <2>6. \A change \in edited' :
          change.table \in triggers' /\ change.dataset \in holds'[change.table]
    BY <1>3, <2>3, <2>5 DEF RegistryInvariant, TablesAreOfTheTree
  <2> QED
    BY <2>2, <2>4, <2>6 DEF TablesAreOfTheTree
<1>6. triggers' \subseteq Listed'
  BY <1>2 DEF RegistryInvariant, CheckoutOne
<1> QED
  BY <1>2, <1>4, <1>5, <1>6 DEF RegistryInvariant

\* A checkout that fails has made its table, or left the one of that name as it was.
LEMMA CheckoutFailsKeeps ==
  ASSUME Spatial = Dataset, RegistryInvariant, NEW d \in Dataset, CheckoutFails(d)
  PROVE  RegistryInvariant'
<1>1. TableName[d] \in Table
  BY TableNameAssumption
<1>2. /\ contents' \in SUBSET ContentsRow /\ geometry' \in SUBSET Table
      /\ Registered' /\ Listed \subseteq Listed'
  <2>1. CASE Refused(d) /\ UNCHANGED <<contents, geometry>>
    BY <2>1 DEF RegistryInvariant, TypeOK, Registered, Listed
  <2>2. CASE ~Refused(d) /\ Register(d)
    BY <2>2, RegisterKeeps
  <2> QED
    BY <2>1, <2>2 DEF CheckoutFails
<1>3. TypeOK'
  BY <1>1, <1>2 DEF RegistryInvariant, TypeOK, CheckoutFails
<1>4. TablesAreOfTheTree'
  <2>1. d \in tree
    BY DEF RegistryInvariant, TypeOK, CheckoutFails
  <2>2. \A t \in Table : \/ holds'[t] = holds[t]
                         \/ t = TableName[d] /\ holds[t] = {} /\ holds'[t] = {d}
    <3>1. holds' = IF holds[TableName[d]] = {}
                   THEN [holds EXCEPT ![TableName[d]] = {d}] ELSE holds
      BY DEF CheckoutFails
    <3>2. DOMAIN holds = Table /\ holds = [t \in Table |-> holds[t]]
      BY DEF RegistryInvariant, TypeOK
    <3>3. CASE holds[TableName[d]] # {}
      BY <3>1, <3>3
    <3>4. CASE holds[TableName[d]] = {}
      <4>1. \A t \in Table : holds'[t] = IF t = TableName[d] THEN {d} ELSE holds[t]
        BY <3>1, <3>2, <3>4
      <4> QED
        BY <3>4, <4>1
    <3> QED
      BY <3>3, <3>4
  <2>3. triggers \in SUBSET Table
    BY DEF RegistryInvariant, TypeOK
  <2> QED
    BY <1>1, <2>1, <2>2, <2>3 DEF RegistryInvariant, TablesAreOfTheTree, CheckoutFails
<1> QED
  BY <1>2, <1>3, <1>4 DEF RegistryInvariant, CheckoutFails

\* Every other command keeps the registry.
LEMMA CommandKeeps ==
  ASSUME RegistryInvariant,
         \/ MoveTree
         \/ \E datasets \in SUBSET Dataset : Checkout(datasets)
         \/ \E d \in Dataset, name \in Title : Import(d, name)
         \/ \E t \in Table, d \in Dataset : Edit(t, d)
         \/ \E filters \in SUBSET (Dataset \cup Table) : Commit(filters)
         \/ UNCHANGED vars
  PROVE  RegistryInvariant'
<1> USE DEF RegistryInvariant, TypeOK, Registered, TablesAreOfTheTree, Listed, Change
<1>1. CASE MoveTree
  BY <1>1 DEF MoveTree, ContentsRow
<1>2. CASE \E datasets \in SUBSET Dataset : Checkout(datasets)
  BY <1>2 DEF Checkout, package
<1>3. CASE \E d \in Dataset, name \in Title : Import(d, name)
  BY <1>3 DEF Import, package
<1>4. CASE \E t \in Table, d \in Dataset : Edit(t, d)
  BY <1>4 DEF Edit
<1>5. CASE \E filters \in SUBSET (Dataset \cup Table) : Commit(filters)
  BY <1>5 DEF Commit
<1>6. CASE UNCHANGED vars
  BY <1>6 DEF vars, package
<1> QED
  BY <1>1, <1>2, <1>3, <1>4, <1>5, <1>6

\* The inductive step.
LEMMA NextKeeps ==
  ASSUME Spatial = Dataset, RegistryInvariant, [Next]_vars
  PROVE  RegistryInvariant'
<1>1. CASE \E d \in Dataset : CheckoutOne(d)
  BY <1>1, CheckoutOneKeeps
<1>2. CASE \E d \in Dataset : CheckoutFails(d)
  BY <1>2, CheckoutFailsKeeps
<1> QED
  BY <1>1, <1>2, CommandKeeps DEF Next, CheckoutStep

\* gpkg_contents, gpkg_geometry_columns, the tables and their triggers agree, whatever is
\* imported, checked out, edited and committed.
THEOREM RegistryInvariantHolds ==
  ASSUME Spatial = Dataset
  PROVE  Spec => []RegistryInvariant
  BY InitRegistry, NextKeeps, PTL DEF Spec

\* status, diff and commit look at every table a GIS's edits are tracked in.
THEOREM TablesStayListed ==
  ASSUME Spatial = Dataset
  PROVE  Spec => []EveryTableIsListed
<1>1. RegistryInvariant => EveryTableIsListed
  BY DEF RegistryInvariant, EveryTableIsListed
<1> QED
  BY <1>1, RegistryInvariantHolds, PTL

\* A change is written into another dataset than the one whose row was edited only
\* where both are in the tree and have one table.
THEOREM ChangesAlwaysGoHome ==
  ASSUME Spatial = Dataset
  PROVE  Spec => ChangesGoHome
<1>1. ASSUME RegistryInvariant, NEW filters \in SUBSET (Dataset \cup Table), Commit(filters),
             NEW change \in edited \ edited'
      PROVE  change.dataset = change.table \/ Collide(change.dataset, change.table)
  <2>1. change.table \in tree /\ change.table \in triggers
    BY <1>1 DEF Commit, Written, RegistryInvariant, TablesAreOfTheTree
  <2>2. change.table \in Dataset \cap Table
    BY <1>1, <2>1 DEF RegistryInvariant, TypeOK
  <2>3. change.dataset \in tree /\ TableName[change.dataset] = change.table
    BY <1>1, <2>2 DEF RegistryInvariant, TablesAreOfTheTree
  <2> QED
    BY <2>1, <2>2, <2>3, FlatAssumption DEF Collide
<1>2. RegistryInvariant /\ [Next]_vars =>
        [\A filters \in SUBSET (Dataset \cup Table) :
            Commit(filters) => \A change \in edited \ edited' :
                change.dataset = change.table
                    \/ Collide(change.dataset, change.table)]_vars
  BY <1>1
<1> QED
  BY <1>2, RegistryInvariantHolds, PTL DEF Spec, ChangesGoHome

\* `ggt commit` without filters leaves no tracked change in the table of a dataset with a
\* flat path.
THEOREM CommitReaches ==
  ASSUME Spatial = Dataset
  PROVE  Spec => CommitReachesEveryTable
<1>1. ASSUME RegistryInvariant, Commit({})
      PROVE  ~\E change \in edited' : change.table \in tree
  BY <1>1 DEF Commit, Written, Selects, RegistryInvariant, TablesAreOfTheTree
<1>2. RegistryInvariant /\ [Next]_vars =>
        [Commit({}) => ~\E change \in edited' : change.table \in tree]_vars
  BY <1>1
<1> QED
  BY <1>2, RegistryInvariantHolds, PTL DEF Spec, CommitReachesEveryTable

=============================================================================
