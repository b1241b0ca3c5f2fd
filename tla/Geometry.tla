------------------------------ MODULE Geometry ------------------------------
(***************************************************************************)
(* The geometry of one feature, from a source through the tree and the     *)
(* working copy and back.  Kart keeps a GeoPackage blob in one form only:  *)
(* little-endian, srs id 0, an envelope where there is something to        *)
(* measure and never on a point.  A GIS writes any valid form, with the    *)
(* srs id of its table; a rebuild stamps that id into what the tree holds, *)
(* and a commit has to find the stored bytes again.                        *)
(*                                                                         *)
(* A blob is its header and what its WKB says: the shape, a type code and  *)
(* a set of coordinates, each with an integer on every axis of the type.   *)
(* Well-known text and GeoJSON become WKB of x and y.  A feature file of a *)
(* repository from before normalisation holds the blob as an array of      *)
(* integers, whatever its form.                                            *)
(***************************************************************************)
EXTENDS Integers, FiniteSets

CONSTANTS
    Shape,      \* the geometries: kind, dimensions and coordinates
    TableSrs,   \* the srs id the working copy's table declares
    Srs,        \* srs ids of sources
    Box,        \* what the spatial filter may be
    NoFilter,
    NoShape

Dimensions == {"xy", "xyz", "xym", "xyzm"}

\* ISO WKB: x, y, z and m are axes 1 to 4, and the type code is the kind's and these thousands.
Axes(dim) ==
    {1, 2} \cup (IF dim \in {"xyz", "xyzm"} THEN {3} ELSE {})
           \cup (IF dim \in {"xym", "xyzm"} THEN {4} ELSE {})
Thousands == [xy |-> 0, xyz |-> 1, xym |-> 2, xyzm |-> 3]

\* A point has one coordinate: an empty one is NaN, which is left out.
ASSUME ShapeAssumption ==
    \A shape \in Shape :
        /\ \E dim \in Dimensions :
            shape \in [kind : {"point", "line"}, dim : {dim}, at : SUBSET [Axes(dim) -> Int]]
        /\ IsFiniteSet(shape.at)
        /\ shape.kind = "point" => shape.at # {}
ASSUME BoxAssumption ==
    \A box \in Box : box.low \in [1 .. 2 -> Int] /\ box.high \in [1 .. 2 -> Int]
ASSUME SrsAssumption == 0 \in Srs /\ TableSrs \in Srs
ASSUME NoShapeAssumption == NoShape \notin Shape

VARIABLES
    file,       \* the value in the feature file, None without one
    row,        \* the cell in the working copy, None without a row
    edited,     \* the row is in the tracking log
    filter,     \* spatial-filter.json, which only init and clone write
    fresh,      \* the row's geometry is what was last loaded from or put in the file
    fileGiven,  \* what the file was last meant to hold, as it was given; no code keeps it
    rowGiven    \* and the row

vars == <<file, row, edited, filter, fresh, fileGiven, rowGiven>>

None == [form |-> "none"]
Nil == [form |-> "nil"]

-----------------------------------------------------------------------------
(* Envelopes and headers. *)

\* BoundsScanner takes a z that is not there for 0.
Place(c, axis) == IF axis \in DOMAIN c THEN c[axis] ELSE 0

Low(shape, axis) ==
    CHOOSE low \in {Place(c, axis) : c \in shape.at} : \A c \in shape.at : low <= Place(c, axis)

High(shape, axis) ==
    CHOOSE high \in {Place(c, axis) : c \in shape.at} : \A c \in shape.at : Place(c, axis) <= high

\* An envelope is of a type and has a span for each of its axes.
Measure(shape, type) ==
    [type |-> type,
     span |-> [axis \in Axes(type) |->
                [low |-> Low(shape, axis), high |-> High(shape, axis)]]]

NoEnvelope == [type |-> "none"]

HasZ(shape) == Thousands[shape.dim] \in {1, 3}

\* Mutant of DesiredType: the empty flag alone says there is nothing to measure.
DesiredTypeOfPoints(g) ==
    IF g.empty THEN "none" ELSE IF HasZ(g.shape) THEN "xyz" ELSE "xy"

\* desired_envelope_type(): of the header's flag and the type code, not the coordinates.
DesiredType(g) ==
    IF g.empty \/ g.shape.kind = "point" THEN "none"
    ELSE IF HasZ(g.shape) THEN "xyz" ELSE "xy"

\* GpkgGeometry::from_wkb: little-endian, srs id 0 and never the empty flag.
FromWkb(shape, envelope) ==
    [order |-> "le", srs |-> 0, empty |-> FALSE, extended |-> FALSE,
     envelope |-> envelope, wkb |-> "le", shape |-> shape]

\* Mutant of WkbDimensions: a type with m alone is taken for one of x and y.
WkbDimensionsOfZ(code) ==
    CASE code = 1 -> "xyz" [] code = 3 -> "xyzm" [] OTHER -> "xy"

\* wkb_dimensions(), of the thousands.
WkbDimensions(code) ==
    CASE code = 1 -> "xyz" [] code = 2 -> "xym" [] code = 3 -> "xyzm" [] OTHER -> "xy"

\* What geozero writes when it is told which dimensions: these and no others.
ToWkb(shape, dim) ==
    [kind |-> shape.kind, dim |-> dim,
     at |-> {[axis \in Axes(dim) |-> Place(c, axis)] : c \in shape.at}]

\* Big-endian WKB is written anew.
Reencoded(g) ==
    IF g.wkb = "le" THEN g.shape ELSE ToWkb(g.shape, WkbDimensions(Thousands[g.shape.dim]))

Envelope(shape, type) == IF type = "none" THEN NoEnvelope ELSE Measure(shape, type)

\* Measuring what has no coordinates is an error.
Measurable(shape, type) == type = "none" \/ shape.at # {}

IsNormal(g) == g.order = "le" /\ g.wkb = "le" /\ g.envelope.type = DesiredType(g)

Normalisable(g) ==
    ~g.extended /\ (IsNormal(g) \/ Measurable(g.shape, DesiredType(g)))

\* Mutant of Normalise: a blob in the right form keeps its srs id.
NormaliseKeepingSrs(g) ==
    IF IsNormal(g) THEN g ELSE FromWkb(Reencoded(g), Envelope(Reencoded(g), DesiredType(g)))

\* normalise_gpkg_geometry(), of what is Normalisable.
Normalise(g) ==
    IF IsNormal(g) THEN [g EXCEPT !.srs = 0]
    ELSE FromWkb(Reencoded(g), Envelope(Reencoded(g), DesiredType(g)))

\* gpkg_geometry_with_srs_id(): in the header's own byte order.
Stamped(g) == [g EXCEPT !.srs = TableSrs]

-----------------------------------------------------------------------------
(* Values: what the feature file keeps and what a cell holds. *)

Text(shape) == [form |-> "text", shape |-> shape]
Blob(g) == [form |-> "blob", g |-> g]
Ext(g) == [form |-> "ext", g |-> g]
Array(g) == [form |-> "array", g |-> g]

HasBytes(value) == value.form \in {"blob", "ext", "array"}

ShapeOf(value) ==
    IF HasBytes(value) THEN value.g.shape
    ELSE IF value.form = "text" THEN value.shape ELSE NoShape

\* geometry_value_from_wkt() and geojson_to_gpkg_bytes(): WKB of x and y, if measurable;
\* well-known text that is not stays text.
FromText(shape) ==
    LET flat == ToWkb(shape, "xy")
        type == DesiredType(FromWkb(flat, NoEnvelope))
    IN  IF Measurable(flat, type) THEN Blob(FromWkb(flat, Envelope(flat, type))) ELSE Text(shape)

\* A source gives bytes or, as GeoJSON, PostGIS and the shapefile reader do, text.
FromSource(source) == IF source.form = "text" THEN FromText(source.shape) ELSE source

Given(source) == [text |-> source.form = "text", shape |-> ShapeOf(source)]

Storable(value) == HasBytes(value) => Normalisable(value.g)

\* stored_geometry() and to_msgpack(): bytes become an extension of code 71.
StoredGeometry(value) == IF HasBytes(value) THEN Ext(Normalise(value.g)) ELSE value

\* from_msgpack(): an extension and an array of integers are both bytes.
Loaded(value) == IF HasBytes(value) THEN Blob(value.g) ELSE value

\* Mutant of Stampable: the extended form is not refused.
StampableAnyhow(value) == TRUE

Stampable(value) == HasBytes(value) => ~value.g.extended

Cell(value) == IF HasBytes(value) THEN Blob(Stamped(value.g)) ELSE value

-----------------------------------------------------------------------------
(* The spatial filter. *)

\* gpkg_geometry_bounds(): the envelope as the header has it, or measured.
Bounds(g) == IF g.envelope = NoEnvelope THEN Measure(g.shape, "xy") ELSE g.envelope

\* Mutant of Overlaps: a geometry that only touches the box is outside.
OverlapsInside(bounds) ==
    \A axis \in 1 .. 2 : /\ bounds.span[axis].low < filter.high[axis]
                         /\ bounds.span[axis].high > filter.low[axis]

Overlaps(bounds) ==
    \A axis \in 1 .. 2 : /\ bounds.span[axis].low <= filter.high[axis]
                         /\ bounds.span[axis].high >= filter.low[axis]

\* feature_in_bbox(): what cannot be measured stays in.
InFilter(value) ==
    \/ filter = NoFilter \/ ~HasBytes(value)
    \/ value.g.extended \/ (value.g.envelope = NoEnvelope /\ value.g.shape.at = {})
    \/ Overlaps(Bounds(value.g))

-----------------------------------------------------------------------------
(* Commands and a GIS. *)

\* No envelope, or the right one of a type the shape has.
RightEnvelopes(shape) ==
    {NoEnvelope}
    \cup {Measure(shape, type) : type \in
            IF shape.at = {} THEN {} ELSE IF shape.dim = "xyzm" THEN Dimensions ELSE {"xy", shape.dim}}

\* The blobs a writer of GeoPackages makes of a shape: either byte order in header and WKB,
\* the flag where it is empty.
BlobsOf(shape, srs) ==
    {[order |-> order, srs |-> srs, empty |-> shape.at = {}, extended |-> FALSE,
      envelope |-> envelope, wkb |-> wkb, shape |-> shape]
        : order \in {"le", "be"}, wkb \in {"le", "be"}, envelope \in RightEnvelopes(shape)}

\* The extended form, which geogit refuses to read.
ExtendedBlob(shape, srs) == [FromWkb(shape, NoEnvelope) EXCEPT !.srs = srs, !.extended = TRUE]

Writable(srs) ==
    (UNION {BlobsOf(shape, srs) : shape \in Shape})
    \cup {ExtendedBlob(shape, srs) : shape \in Shape}

\* A row of a GeoPackage, a shapefile or a PostGIS table: the row keeps the source's bytes.
Import(source) ==
    LET value == FromSource(source)
    IN  /\ file = None /\ row = None
        /\ Storable(value)
        /\ file' = StoredGeometry(value)
        /\ row' = IF InFilter(value) THEN Cell(value) ELSE None
        /\ edited' = FALSE /\ fresh' = TRUE
        /\ fileGiven' = Given(source) /\ rowGiven' = Given(source)
        /\ UNCHANGED filter

\* geojson_feature_values(): a geometry that cannot be measured is refused.
GeoJson == {Nil} \cup {source \in {Text(shape) : shape \in Shape} : HasBytes(FromSource(source))}

\* `ggt resolve --with-file`, of a feature that git removed as well; the working copy is
\* left as it is.
ResolveWithFile(source) ==
    /\ file' = StoredGeometry(FromSource(source))
    /\ fileGiven' = Given(source)
    /\ fresh' = FALSE
    /\ UNCHANGED <<row, edited, filter, rowGiven>>

\* refresh_working_copy(), which fails, with the copy removed, on bytes it cannot stamp.
Rebuild ==
    /\ row' = IF file # None /\ Stampable(file) /\ InFilter(file)
              THEN Cell(Loaded(file)) ELSE None
    /\ fresh' = Stampable(file)
    /\ edited' = FALSE
    /\ rowGiven' = fileGiven
    /\ UNCHANGED <<file, filter, fileGiven>>

\* A GIS inserts the row, draws its geometry anew or deletes it.
Draw(value) ==
    /\ value # row
    /\ row' = value
    /\ edited' = TRUE /\ fresh' = FALSE
    /\ rowGiven' = Given(value)
    /\ UNCHANGED <<file, filter, fileGiven>>

\* A GIS changes another column of the row.
Touch ==
    /\ row # None
    /\ edited' = TRUE
    /\ UNCHANGED <<file, row, filter, fresh, fileGiven, rowGiven>>

\* sync_wc_to_tree(): a geometry that cannot be stored ends the commit with nothing written.
Commit ==
    /\ edited /\ Storable(row)
    /\ file' = StoredGeometry(row)
    /\ edited' = FALSE /\ fresh' = TRUE
    /\ fileGiven' = rowGiven
    /\ UNCHANGED <<row, filter, rowGiven>>

-----------------------------------------------------------------------------

Sources == {Nil} \cup {Text(shape) : shape \in Shape}
           \cup {Blob(g) : g \in UNION {Writable(srs) : srs \in Srs}}

Cells == {None, Nil} \cup {Blob(g) : g \in Writable(TableSrs)}

\* No dataset yet, or a file of a repository from before the extension type.
Init ==
    /\ file \in {None} \cup {Array(g) : g \in UNION {Writable(srs) : srs \in Srs}}
    /\ row = None /\ edited = FALSE
    /\ filter \in Box \cup {NoFilter}
    /\ fresh = FALSE
    /\ fileGiven = Given(file) /\ rowGiven = Given(None)

Next ==
    \/ \E source \in Sources : Import(source)
    \/ \E source \in GeoJson : ResolveWithFile(source)
    \/ Rebuild \/ Touch \/ Commit
    \/ \E value \in Cells : Draw(value)

Spec == Init /\ [][Next]_vars

-----------------------------------------------------------------------------
(* Properties. *)

\* A shape as it is seen on a map.
Flat(shape) ==
    [kind |-> shape.kind, dim |-> "xy",
     at |-> {[axis \in {1, 2} |-> c[axis]] : c \in shape.at}]

AnyShape == Shape \cup {Flat(shape) : shape \in Shape}

Header ==
    [order : {"le", "be"}, srs : Srs, empty : BOOLEAN, extended : BOOLEAN,
     envelope : UNION {RightEnvelopes(shape) : shape \in AnyShape},
     wkb : {"le", "be"}, shape : AnyShape]

\* Every blob's envelope is that of its own coordinates, and only an empty one is flagged.
TypeOK ==
    /\ file \in {None, Nil} \cup [form : {"text"}, shape : AnyShape]
               \cup [form : {"ext", "array"}, g : Header]
    /\ row \in {None, Nil} \cup [form : {"text"}, shape : AnyShape] \cup [form : {"blob"}, g : Header]
    /\ \A value \in {file, row} : HasBytes(value) =>
        /\ value.g.envelope \in RightEnvelopes(value.g.shape)
        /\ value.g.empty => value.g.shape.at = {}
    /\ edited \in BOOLEAN /\ fresh \in BOOLEAN
    /\ filter \in Box \cup {NoFilter}

\* What a geogit of today has written is in Kart's one form: little-endian, srs id 0, the
\* envelope of its own coordinates unless it is a point or has none, then no envelope.
StoredIsKart ==
    file.form = "ext" =>
        /\ file.g.order = "le" /\ file.g.wkb = "le" /\ file.g.srs = 0
        /\ file.g.envelope =
            IF file.g.shape.kind = "point" \/ file.g.shape.at = {} THEN NoEnvelope
            ELSE Measure(file.g.shape, IF HasZ(file.g.shape) THEN "xyz" ELSE "xy")

Holds(value, given) ==
    ShapeOf(value) = IF given.text /\ HasBytes(value) THEN Flat(given.shape) ELSE given.shape

\* Through any chain of byte orders, re-encodings, stamps and commits, file and row hold
\* the geometry they were last given: its type and every ordinate of every coordinate, or
\* x and y where a source gave text.
GeometrySurvives ==
    /\ Holds(file, fileGiven)
    /\ row # None \/ edited => Holds(row, rowGiven)

\* A commit of a row whose geometry nobody drew finds the bytes the tree has, though the
\* row's srs id, and after an import its byte orders and envelope, are others.
UntouchedGeometryStays ==
    [][Commit /\ fresh /\ file.form = "ext" => file' = file]_vars

\* No feature with a coordinate in the filter's box, its border included, is left out.
FilterKeepsInside ==
    fresh /\ file # None /\ row = None /\ filter # NoFilter =>
        \A c \in (IF ShapeOf(file) = NoShape THEN {} ELSE ShapeOf(file).at) :
            \E axis \in 1 .. 2 : c[axis] < filter.low[axis] \/ c[axis] > filter.high[axis]

\* What a rebuild loads or a commit wrote can be committed again: whatever geometry the
\* tree took from a source, later changes of the row's other columns are not refused.
FreshRowsCommit == fresh => Storable(row)

\* And it is refused for one reason only: its geometry has no coordinates.
OnlyEmptyIsRefused == fresh /\ ~Storable(row) => ShapeOf(row).at = {}

\* The row of a fresh geometry stores as the file's bytes, its key is tracked only while
\* it is there, and the other invariants.
GeometryInvariant ==
    /\ TypeOK /\ StoredIsKart /\ GeometrySurvives
    /\ fresh /\ file.form = "ext" =>
        /\ row = None => ~edited
        /\ row # None => HasBytes(row) /\ (Storable(row) => Normalise(row.g) = file.g)

=============================================================================
