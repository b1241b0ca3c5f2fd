--------------------------- MODULE GeometryProof ---------------------------
(* The stored form of geometries, and the bytes of untouched ones, for any shapes, srs   *)
(* ids and filters.                                                                      *)
EXTENDS Geometry, FiniteSetTheorems, TLAPS

Value == {None, Nil} \cup [form : {"text"}, shape : AnyShape]
         \cup [form : {"blob"}, g : Header]

\* A blob whose envelope is measured from its own shape and whose empty flag is no lie.
Sound(g) == g \in Header /\ g.envelope \in RightEnvelopes(g.shape) /\ (g.empty => g.shape.at = {})

\* Kart's form.
Kart(g) ==
    /\ g.order = "le" /\ g.wkb = "le" /\ g.srs = 0
    /\ g.envelope = IF g.shape.kind = "point" \/ g.shape.at = {} THEN NoEnvelope
                    ELSE Measure(g.shape, IF HasZ(g.shape) THEN "xyz" ELSE "xy")

-----------------------------------------------------------------------------

\* A shape, or what WKT keeps of it, is a record with what the operators read of it.
LEMMA ShapeFields ==
    ASSUME NEW shape \in AnyShape
    PROVE  /\ shape.kind \in {"point", "line"} /\ shape.dim \in Dimensions
           /\ shape.kind = "point" => shape.at # {}
  <1>1. CASE shape \in Shape
    BY <1>1, ShapeAssumption DEF Dimensions
  <1>2. ASSUME NEW s \in Shape, shape = Flat(s)
        PROVE  /\ shape.kind \in {"point", "line"} /\ shape.dim \in Dimensions
               /\ shape.kind = "point" => shape.at # {}
    <2>1. /\ shape.kind = s.kind /\ shape.dim = "xy"
          /\ shape.at = {[axis \in {1, 2} |-> c[axis]] : c \in s.at}
      BY <1>2, ShapeAssumption DEF Flat
    <2>2. s.kind \in {"point", "line"} /\ (s.kind = "point" => s.at # {})
      BY ShapeAssumption
    <2>3. s.at # {} => shape.at # {}
      <3>1. ASSUME NEW c \in s.at
            PROVE  [axis \in {1, 2} |-> c[axis]] \in shape.at
        BY <2>1
      <3> QED  BY <3>1
    <2> QED  BY <2>1, <2>2, <2>3 DEF Dimensions
  <1> QED  BY <1>1, <1>2 DEF AnyShape

\* A shape has its type's axes and no others, and so the type is that of the axes written.
LEMMA ShapeAxes ==
    ASSUME NEW shape \in AnyShape
    PROVE  shape = [kind |-> shape.kind, dim |-> shape.dim, at |-> shape.at]
           /\ shape.at \subseteq [Axes(shape.dim) -> Int]
  <1>1. ASSUME NEW s \in Shape
        PROVE  /\ s = [kind |-> s.kind, dim |-> s.dim, at |-> s.at]
               /\ s.at \subseteq [Axes(s.dim) -> Int]
    <2>1. PICK dim \in Dimensions :
            s \in [kind : {"point", "line"}, dim : {dim}, at : SUBSET [Axes(dim) -> Int]]
      BY ShapeAssumption
    <2>2. s.dim = dim /\ s.at \in SUBSET [Axes(dim) -> Int]
      BY <2>1
    <2>3. s = [kind |-> s.kind, dim |-> s.dim, at |-> s.at]
      BY <2>1, Zenon
    <2> QED  BY <2>2, <2>3
  <1>2. ASSUME NEW s \in Shape, shape = Flat(s)
        PROVE  /\ shape = [kind |-> shape.kind, dim |-> shape.dim, at |-> shape.at]
               /\ shape.at \subseteq [Axes(shape.dim) -> Int]
    <2>1. /\ shape = [kind |-> s.kind, dim |-> "xy", at |-> shape.at]
          /\ shape.at = {[axis \in {1, 2} |-> c[axis]] : c \in s.at}
      BY <1>2 DEF Flat
    <2>2. Axes("xy") = {1, 2} /\ {1, 2} \subseteq Axes(s.dim)
      BY DEF Axes
    <2>3. ASSUME NEW c \in s.at
          PROVE  [axis \in {1, 2} |-> c[axis]] \in [{1, 2} -> Int]
      BY <1>1, <2>2
    <2> QED  BY <2>1, <2>2, <2>3
  <1> QED  BY <1>1, <1>2 DEF AnyShape

\* What is written for a shape's own type is the shape; for x and y, what a map shows.
LEMMA WrittenWhole ==
    ASSUME NEW shape \in AnyShape
    PROVE  ToWkb(shape, shape.dim) = shape
  <1>1. ASSUME NEW c \in shape.at
        PROVE  [axis \in Axes(shape.dim) |-> Place(c, axis)] = c
    <2>1. c \in [Axes(shape.dim) -> Int]
      BY ShapeAxes
    <2> QED  BY <2>1 DEF Place
  <1>2. {[axis \in Axes(shape.dim) |-> Place(c, axis)] : c \in shape.at} = shape.at
    BY <1>1
  <1> QED  BY <1>2, ShapeAxes DEF ToWkb

LEMMA WrittenFlat ==
    ASSUME NEW shape \in AnyShape
    PROVE  ToWkb(shape, "xy") = Flat(shape)
  <1>1. Axes("xy") = {1, 2} /\ {1, 2} \subseteq Axes(shape.dim)
    BY DEF Axes
  <1>2. ASSUME NEW c \in shape.at
        PROVE  [axis \in Axes("xy") |-> Place(c, axis)] = [axis \in {1, 2} |-> c[axis]]
    <2>1. c \in [Axes(shape.dim) -> Int]
      BY ShapeAxes
    <2> QED  BY <1>1, <2>1 DEF Place
  <1>3. {[axis \in Axes("xy") |-> Place(c, axis)] : c \in shape.at}
            = {[axis \in {1, 2} |-> c[axis]] : c \in shape.at}
    BY <1>2
  <1> QED  BY <1>3, ShapeAxes DEF ToWkb, Flat

\* The type code names the dimensions that are there: a re-encoding writes all of them.
LEMMA ReencodedWhole ==
    ASSUME NEW g, g.shape \in AnyShape
    PROVE  Reencoded(g) = g.shape
  <1>1. WkbDimensions(Thousands[g.shape.dim]) = g.shape.dim
    <2>1. g.shape.dim \in Dimensions
      BY ShapeFields
    <2>2. /\ Thousands["xy"] = 0 /\ Thousands["xyz"] = 1
          /\ Thousands["xym"] = 2 /\ Thousands["xyzm"] = 3
      BY DEF Thousands
    <2> QED  BY <2>1, <2>2 DEF Dimensions, WkbDimensions
  <1> QED  BY <1>1, WrittenWhole DEF Reencoded

\* An envelope measured for the dimensions of a shape is a right one.
LEMMA MeasuredIsRight ==
    ASSUME NEW shape \in AnyShape, shape.at # {}
    PROVE  Measure(shape, IF HasZ(shape) THEN "xyz" ELSE "xy") \in RightEnvelopes(shape)
  <1> shape.dim \in Dimensions
    BY ShapeFields
  <1> QED  BY DEF RightEnvelopes, HasZ, Thousands, Dimensions

\* A right envelope of a type other than "none" was measured, for that type.
LEMMA RightEnvelopeIsMeasured ==
    ASSUME NEW shape \in AnyShape, NEW envelope \in RightEnvelopes(shape)
    PROVE  \/ envelope = NoEnvelope /\ envelope.type = "none"
           \/ /\ envelope.type \in Dimensions /\ shape.at # {}
              /\ envelope = Measure(shape, envelope.type)
  <1> shape.dim \in Dimensions
    BY ShapeFields
  <1> QED  BY DEF RightEnvelopes, Measure, NoEnvelope, Dimensions

\* Normalising a sound blob gives Kart's form of the same shape, again sound.
LEMMA NormaliseIsKart ==
    ASSUME NEW g, Sound(g), Normalisable(g)
    PROVE  /\ Sound(Normalise(g)) /\ Kart(Normalise(g))
           /\ Normalise(g).shape = g.shape
           /\ ~Normalise(g).extended
  <1> g \in Header /\ g.shape \in AnyShape
    BY DEF Sound, Header
  <1> 0 \in Srs
    BY SrsAssumption
  <1>1. CASE IsNormal(g)
    <2> DEFINE n == [g EXCEPT !.srs = 0]
    <2>1. /\ Normalise(g) = n /\ n \in Header
          /\ n.order = g.order /\ n.wkb = g.wkb /\ n.srs = 0 /\ n.empty = g.empty
          /\ n.extended = g.extended /\ n.envelope = g.envelope /\ n.shape = g.shape
      BY <1>1 DEF Normalise, Header
    <2>2. g.envelope = IF g.shape.kind = "point" \/ g.shape.at = {} THEN NoEnvelope
                       ELSE Measure(g.shape, IF HasZ(g.shape) THEN "xyz" ELSE "xy")
      BY <1>1, RightEnvelopeIsMeasured, ShapeFields
         DEF Sound, IsNormal, DesiredType, Dimensions, HasZ
    <2> QED  BY <1>1, <2>1, <2>2 DEF Sound, Kart, IsNormal, Normalisable
  <1>2. CASE ~IsNormal(g)
    <2> DEFINE e == Envelope(g.shape, DesiredType(g))
    <2>1. Normalise(g) = FromWkb(g.shape, e)
      BY <1>2, ReencodedWhole DEF Normalise
    <2>2. Measurable(g.shape, DesiredType(g))
      BY <1>2 DEF Normalisable
    <2>3. e \in RightEnvelopes(g.shape)
      <3>1. CASE DesiredType(g) = "none"
        BY <3>1 DEF Envelope, RightEnvelopes
      <3>2. CASE DesiredType(g) # "none"
        BY <3>2, <2>2, MeasuredIsRight DEF Envelope, Measurable, DesiredType, HasZ
      <3> QED  BY <3>1, <3>2
    <2>4. FromWkb(g.shape, e) \in Header
      BY <2>3 DEF FromWkb, Header
    <2>5. e = IF g.shape.kind = "point" \/ g.shape.at = {} THEN NoEnvelope
              ELSE Measure(g.shape, IF HasZ(g.shape) THEN "xyz" ELSE "xy")
      BY <2>2 DEF Sound, Envelope, Measurable, DesiredType, HasZ
    <2> HIDE DEF e
    <2> QED  BY <2>1, <2>3, <2>4, <2>5 DEF Sound, Kart, FromWkb
  <1> QED  BY <1>1, <1>2

\* What was stamped into a blob makes no difference to how it is stored.
LEMMA StampIsForgotten ==
    ASSUME NEW g, Sound(g), Normalisable(Stamped(g))
    PROVE  Normalisable(g) /\ Normalise(Stamped(g)) = Normalise(g)
  <1> g \in Header
    BY DEF Sound
  <1>1. /\ Stamped(g).order = g.order /\ Stamped(g).wkb = g.wkb /\ Stamped(g).empty = g.empty
        /\ Stamped(g).extended = g.extended /\ Stamped(g).envelope = g.envelope
        /\ Stamped(g).shape = g.shape
    BY DEF Stamped, Header
  <1>2. DesiredType(Stamped(g)) = DesiredType(g) /\ (IsNormal(Stamped(g)) <=> IsNormal(g))
    BY <1>1 DEF DesiredType, IsNormal
  <1>3. [Stamped(g) EXCEPT !.srs = 0] = [g EXCEPT !.srs = 0]
    BY DEF Stamped, Header
  <1>4. Reencoded(Stamped(g)) = Reencoded(g)
    BY <1>1 DEF Reencoded
  <1> QED  BY <1>1, <1>2, <1>3, <1>4 DEF Normalise, Normalisable

\* A blob in Kart's form that can be stored is stored as it is.
LEMMA KartStays ==
    ASSUME NEW g, Sound(g), Kart(g), Normalisable(g)
    PROVE  Normalise(g) = g
  <1> g \in Header /\ g.shape \in AnyShape
    BY DEF Sound, Header
  <1>1. IsNormal(g)
    BY ShapeFields DEF Kart, Sound, Normalisable, IsNormal, DesiredType, HasZ, Measurable,
                       Measure, NoEnvelope
  <1>2. [g EXCEPT !.srs = 0] = g
    BY DEF Kart, Header
  <1> QED  BY <1>1, <1>2 DEF Normalise

\* A stamped blob is as sound as it was.
LEMMA StampedIsSound ==
    ASSUME NEW g, Sound(g)
    PROVE  Sound(Stamped(g)) /\ Stamped(g).shape = g.shape
  BY SrsAssumption DEF Sound, Stamped, Header

-----------------------------------------------------------------------------

\* What a source, a GIS or GeoJSON gives: a value whose blob is sound.
SoundValue(value) == value \in Value /\ (HasBytes(value) => Sound(value.g))

\* The blobs a GeoPackage writer makes are sound.
LEMMA WritableIsSound ==
    ASSUME NEW srs \in Srs, NEW g \in Writable(srs)
    PROVE  Sound(g)
  <1>1. ASSUME NEW shape \in Shape, g \in BlobsOf(shape, srs)
        PROVE  Sound(g)
    <2>1. PICK order \in {"le", "be"}, wkb \in {"le", "be"}, envelope \in RightEnvelopes(shape) :
            g = [order |-> order, srs |-> srs, empty |-> shape.at = {}, extended |-> FALSE,
                 envelope |-> envelope, wkb |-> wkb, shape |-> shape]
      BY <1>1 DEF BlobsOf
    <2>2. shape \in AnyShape
      BY DEF AnyShape
    <2>3. g \in Header
      BY <2>1, <2>2 DEF Header
    <2>4. g.envelope = envelope /\ g.shape = shape /\ g.empty = (shape.at = {})
      BY <2>1
    <2> QED  BY <2>3, <2>4 DEF Sound
  <1>2. ASSUME NEW shape \in Shape, g = ExtendedBlob(shape, srs)
        PROVE  Sound(g)
    <2>1. NoEnvelope \in RightEnvelopes(shape) /\ shape \in AnyShape
      BY DEF RightEnvelopes, AnyShape
    <2>2. g = [order |-> "le", srs |-> srs, empty |-> FALSE, extended |-> TRUE,
               envelope |-> NoEnvelope, wkb |-> "le", shape |-> shape]
      BY <1>2 DEF ExtendedBlob, FromWkb
    <2> QED  BY <2>1, <2>2 DEF Sound, Header
  <1>3. (\E shape \in Shape : g \in BlobsOf(shape, srs))
        \/ \E shape \in Shape : g = ExtendedBlob(shape, srs)
    <2>1. \/ g \in UNION {BlobsOf(shape, srs) : shape \in Shape}
          \/ g \in {ExtendedBlob(shape, srs) : shape \in Shape}
      BY DEF Writable
    <2>2. CASE g \in UNION {BlobsOf(shape, srs) : shape \in Shape}
      BY <2>2
    <2>3. CASE g \in {ExtendedBlob(shape, srs) : shape \in Shape}
      BY <2>3
    <2> QED  BY <2>1, <2>2, <2>3
  <1> QED  BY <1>1, <1>2, <1>3

\* WKT becomes a sound blob or stays text.
LEMMA FromTextIsSound ==
    ASSUME NEW shape \in Shape
    PROVE  /\ SoundValue(FromText(shape))
           /\ HasBytes(FromText(shape)) => ShapeOf(FromText(shape)) = Flat(shape)
           /\ ~HasBytes(FromText(shape)) => ShapeOf(FromText(shape)) = shape
  <1> DEFINE flat == ToWkb(shape, "xy")
             type == DesiredType(FromWkb(flat, NoEnvelope))
             e == Envelope(flat, type)
  <1>1. shape \in AnyShape /\ flat = Flat(shape) /\ flat \in AnyShape
    <2>1. shape \in AnyShape /\ Flat(shape) \in AnyShape
      BY DEF AnyShape
    <2> QED  BY <2>1, WrittenFlat
  <1>2. type = IF flat.kind = "point" THEN "none" ELSE IF HasZ(flat) THEN "xyz" ELSE "xy"
    BY DEF DesiredType, FromWkb
  <1> HIDE DEF flat, type
  <1>3. CASE Measurable(flat, type)
    <2>1. e \in RightEnvelopes(flat)
      <3>1. CASE type = "none"
        BY <3>1 DEF Envelope, RightEnvelopes
      <3>2. CASE type # "none"
        BY <1>1, <1>2, <1>3, <3>2, MeasuredIsRight DEF Envelope, Measurable
      <3> QED  BY <3>1, <3>2
    <2>2. FromText(shape) = Blob(FromWkb(flat, e))
      BY <1>3 DEF FromText, flat, type
    <2> HIDE DEF e
    <2>3. Sound(FromWkb(flat, e))
      BY <1>1, <2>1, SrsAssumption DEF Sound, FromWkb, Header
    <2>4. FromText(shape).form = "blob" /\ FromText(shape).g = FromWkb(flat, e)
          /\ FromText(shape).g.shape = flat
      BY <2>2 DEF Blob, FromWkb
    <2>5. SoundValue(FromText(shape))
      BY <2>2, <2>3 DEF SoundValue, Value, Blob, HasBytes, Sound
    <2> QED  BY <1>1, <2>4, <2>5 DEF HasBytes, ShapeOf
  <1>4. CASE ~Measurable(flat, type)
    <2>1. FromText(shape) = Text(shape)
      BY <1>4 DEF FromText, flat, type
    <2> QED  BY <1>1, <2>1 DEF SoundValue, Value, Text, HasBytes, ShapeOf
  <1> QED  BY <1>3, <1>4

LEMMA SourcesAreSound ==
    ASSUME NEW source \in Sources
    PROVE  /\ SoundValue(FromSource(source)) /\ FromSource(source) # None
           /\ Holds(FromSource(source), Given(source))
  <1>1. CASE source = Nil
    BY <1>1 DEF FromSource, SoundValue, Value, Nil, None, HasBytes, Holds, Given, ShapeOf
  <1>2. ASSUME NEW shape \in Shape, source = Text(shape)
        PROVE  /\ SoundValue(FromSource(source)) /\ FromSource(source) # None
               /\ Holds(FromSource(source), Given(source))
    <2>1. FromSource(source) = FromText(shape) /\ Given(source) = [text |-> TRUE, shape |-> shape]
      BY <1>2 DEF FromSource, Given, Text, ShapeOf, HasBytes
    <2>2. FromText(shape) # None
      BY DEF FromText, Text, Blob, None
    <2> QED  BY <2>1, <2>2, FromTextIsSound DEF Holds
  <1>3. ASSUME NEW srs \in Srs, NEW g \in Writable(srs), source = Blob(g)
        PROVE  /\ SoundValue(FromSource(source)) /\ FromSource(source) # None
               /\ Holds(FromSource(source), Given(source))
    <2>1. FromSource(source) = source /\ ~Given(source).text /\ Given(source).shape = ShapeOf(source)
      BY <1>3 DEF FromSource, Given, Blob
    <2>2. SoundValue(source) /\ source # None
      BY <1>3, WritableIsSound DEF SoundValue, Value, Blob, None, HasBytes, Sound
    <2> QED  BY <2>1, <2>2 DEF Holds
  <1> QED  BY <1>1, <1>2, <1>3 DEF Sources

LEMMA CellsAreSound ==
    ASSUME NEW value \in Cells
    PROVE  SoundValue(value) /\ value.form # "text"
  BY WritableIsSound, SrsAssumption DEF Cells, SoundValue, Value, Blob, Nil, None, HasBytes, Sound

\* What a value becomes in a cell, and in a file.
LEMMA CellIsSound ==
    ASSUME NEW value, SoundValue(value)
    PROVE  /\ SoundValue(Cell(value)) /\ ShapeOf(Cell(value)) = ShapeOf(value)
           /\ HasBytes(Cell(value)) <=> HasBytes(value)
  <1>1. CASE HasBytes(value)
    <2> Sound(value.g)
      BY <1>1 DEF SoundValue
    <2> Sound(Stamped(value.g)) /\ Stamped(value.g).shape = value.g.shape
      BY StampedIsSound
    <2> QED  BY <1>1 DEF SoundValue, Cell, Blob, Value, HasBytes, ShapeOf, Sound
  <1>2. CASE ~HasBytes(value)
    BY <1>2 DEF SoundValue, Cell
  <1> QED  BY <1>1, <1>2

FileValue == {None, Nil} \cup [form : {"text"}, shape : AnyShape]
             \cup [form : {"ext", "array"}, g : Header]

SoundFile(value) ==
    value \in FileValue /\ (HasBytes(value) => Sound(value.g))

LEMMA StoredIsSound ==
    ASSUME NEW value, SoundValue(value), Storable(value)
    PROVE  /\ SoundFile(StoredGeometry(value))
           /\ StoredGeometry(value).form = "ext" <=> HasBytes(value)
           /\ HasBytes(value) => /\ StoredGeometry(value) = Ext(Normalise(value.g))
                                 /\ Kart(StoredGeometry(value).g)
           /\ ShapeOf(StoredGeometry(value)) = ShapeOf(value)
  <1>1. CASE HasBytes(value)
    <2> Sound(value.g) /\ Normalisable(value.g)
      BY <1>1 DEF SoundValue, Storable
    <2> DEFINE n == Normalise(value.g)
    <2>1. Sound(n) /\ Kart(n) /\ n.shape = value.g.shape
      BY NormaliseIsKart
    <2>2. StoredGeometry(value) = Ext(n)
      BY <1>1 DEF StoredGeometry
    <2> HIDE DEF n
    <2>3. n \in Header
      BY <2>1 DEF Sound
    <2>4. Ext(n).form = "ext" /\ Ext(n).g = n /\ Ext(n) \in FileValue
      BY <2>3 DEF Ext, FileValue
    <2> QED  BY <1>1, <2>1, <2>2, <2>4 DEF SoundFile, HasBytes, ShapeOf, n
  <1>2. CASE ~HasBytes(value)
    BY <1>2 DEF SoundValue, StoredGeometry, SoundFile, Value, FileValue, HasBytes, None, Nil
  <1> QED  BY <1>1, <1>2

\* What a rebuild makes of a file.
LEMMA LoadedIsSound ==
    ASSUME NEW value, SoundFile(value)
    PROVE  SoundValue(Loaded(value)) /\ ShapeOf(Loaded(value)) = ShapeOf(value)
  <1>1. CASE HasBytes(value)
    BY <1>1 DEF SoundFile, SoundValue, Loaded, Blob, HasBytes, Value, Sound, ShapeOf
  <1>2. CASE ~HasBytes(value)
    BY <1>2 DEF SoundFile, FileValue, SoundValue, Loaded, Value, HasBytes
  <1> QED  BY <1>1, <1>2

-----------------------------------------------------------------------------

\* The invariant, in the terms of the lemmas.
FreshRowIsFile ==
    fresh /\ file.form = "ext" =>
        /\ row = None => ~edited
        /\ row # None => HasBytes(row) /\ (Storable(row) => Normalise(row.g) = file.g)

Inv ==
    /\ SoundFile(file) /\ (file.form = "ext" => Kart(file.g))
    /\ SoundValue(row)
    /\ edited \in BOOLEAN /\ fresh \in BOOLEAN
    /\ filter \in Box \cup {NoFilter}
    /\ GeometrySurvives
    /\ FreshRowIsFile

LEMMA InvIsInvariant == Inv <=> GeometryInvariant
  <1>1. ASSUME Inv
        PROVE  GeometryInvariant
    <2>1. TypeOK
      BY <1>1 DEF Inv, TypeOK, SoundFile, SoundValue, FileValue, Value, HasBytes, Sound
    <2>2. StoredIsKart
      BY <1>1 DEF Inv, StoredIsKart, Kart
    <2> QED  BY <1>1, <2>1, <2>2 DEF Inv, GeometryInvariant, FreshRowIsFile
  <1>2. ASSUME GeometryInvariant
        PROVE  Inv
    <2>1. SoundFile(file) /\ SoundValue(row)
      <3>1. /\ HasBytes(file) => file.g \in Header
            /\ HasBytes(row) => row.g \in Header
        BY <1>2 DEF GeometryInvariant, TypeOK, HasBytes, None, Nil
      <3> QED  BY <1>2, <3>1 DEF GeometryInvariant, TypeOK, SoundFile, SoundValue, FileValue, Value, Sound
    <2>2. file.form = "ext" => Kart(file.g)
      BY <1>2 DEF GeometryInvariant, StoredIsKart, Kart
    <2> QED  BY <1>2, <2>1, <2>2 DEF Inv, GeometryInvariant, TypeOK, FreshRowIsFile
  <1> QED  BY <1>1, <1>2

LEMMA InitEstablishes == Init => Inv
  <1> SUFFICES ASSUME Init PROVE Inv
    OBVIOUS
  <1>1. CASE file = None
    BY <1>1 DEF Init, Inv, SoundFile, FileValue, SoundValue, Value, HasBytes, None, GeometrySurvives,
                Holds, Given, ShapeOf, FreshRowIsFile
  <1>2. ASSUME NEW srs \in Srs, NEW g \in Writable(srs), file = Array(g)
        PROVE  Inv
    <2>1. Sound(g) /\ g \in Header
      BY WritableIsSound DEF Sound
    <2>2. SoundFile(file) /\ file.form = "array"
      BY <1>2, <2>1 DEF SoundFile, FileValue, Array
    <2> QED  BY <2>2 DEF Init, Inv, SoundValue, Value, HasBytes, None, GeometrySurvives, Holds,
                         Given, FreshRowIsFile
  <1> QED  BY <1>1, <1>2 DEF Init

\* A row made of a source's value stores as the file made of it.
LEMMA CellStoresAlike ==
    ASSUME NEW value, SoundValue(value), Storable(value), HasBytes(value)
    PROVE  /\ HasBytes(Cell(value))
           /\ Storable(Cell(value)) => Normalise(Cell(value).g) = Normalise(value.g)
  <1>1. Sound(value.g) /\ Cell(value) = Blob(Stamped(value.g))
    BY DEF SoundValue, Cell
  <1>2. HasBytes(Blob(Stamped(value.g))) /\ Blob(Stamped(value.g)).g = Stamped(value.g)
    BY DEF Blob, HasBytes
  <1> QED  BY <1>1, <1>2, StampIsForgotten DEF Storable

LEMMA CellIsSomething ==
    ASSUME NEW value, value # None
    PROVE  Cell(value) # None
  BY DEF Cell, Blob, None, HasBytes

LEMMA NoneIsSound ==
    SoundValue(None) /\ SoundFile(None) /\ ~HasBytes(None) /\ Storable(None)
    /\ StoredGeometry(None) = None /\ ShapeOf(None) = NoShape
  BY DEF SoundValue, SoundFile, Value, FileValue, None, HasBytes, Storable, StoredGeometry, ShapeOf

\* What is of the same form and shape as a value holds what the value does.
LEMMA HoldsAlike ==
    ASSUME NEW value, NEW other, NEW given, Holds(value, given),
           HasBytes(other) <=> HasBytes(value), ShapeOf(other) = ShapeOf(value)
    PROVE  Holds(other, given)
  BY DEF Holds

LEMMA ImportPreserves ==
    ASSUME Inv, NEW source \in Sources, Import(source)
    PROVE  Inv'
  <1> DEFINE value == FromSource(source)
  <1>1. SoundValue(value) /\ value # None /\ Storable(value) /\ Holds(value, Given(source))
    BY SourcesAreSound DEF Import
  <1>2. /\ file' = StoredGeometry(value) /\ row' \in {Cell(value), None}
        /\ edited' = FALSE /\ fresh' = TRUE /\ filter' = filter
        /\ fileGiven' = Given(source) /\ rowGiven' = Given(source)
    BY DEF Import
  <1> HIDE DEF value
  <1>3. SoundFile(file') /\ (file'.form = "ext" => Kart(file'.g)) /\ Holds(file', fileGiven')
    BY <1>1, <1>2, StoredIsSound, HoldsAlike DEF HasBytes, StoredGeometry, Ext
  <1>4. SoundValue(row') /\ (row' # None \/ edited' => Holds(row', rowGiven'))
    BY <1>1, <1>2, CellIsSound, NoneIsSound, HoldsAlike
  <1>5. FreshRowIsFile'
    <2> SUFFICES ASSUME file'.form = "ext", row' # None
                 PROVE  HasBytes(row') /\ (Storable(row') => Normalise(row'.g) = file'.g)
      BY <1>2 DEF FreshRowIsFile
    <2>1. HasBytes(value) /\ file' = Ext(Normalise(value.g)) /\ row' = Cell(value)
      BY <1>1, <1>2, StoredIsSound
    <2> QED  BY <1>1, <2>1, CellStoresAlike DEF Ext
  <1>6. Holds(file, fileGiven)' /\ (row # None \/ edited => Holds(row, rowGiven))'
    BY <1>3, <1>4 DEF Holds, ShapeOf, HasBytes
  <1> QED  BY <1>2, <1>3, <1>4, <1>5, <1>6 DEF Inv, GeometrySurvives

LEMMA ResolvePreserves ==
    ASSUME Inv, NEW source \in GeoJson, ResolveWithFile(source)
    PROVE  Inv'
  <1> DEFINE value == FromSource(source)
  <1>1. source \in Sources
    BY DEF GeoJson, Sources
  <1>2. SoundValue(value) /\ value # None /\ Holds(value, Given(source))
    BY <1>1, SourcesAreSound
  <1>3. Storable(value)
    <2>1. CASE source = Nil
      BY <2>1 DEF Storable, HasBytes, Nil, FromSource
    <2>2. ASSUME NEW shape \in Shape, source = Text(shape), HasBytes(value)
          PROVE  Storable(value)
      <3> DEFINE flat == ToWkb(shape, "xy")
                 type == DesiredType(FromWkb(flat, NoEnvelope))
      <3>1. value = FromText(shape)
        BY <2>2 DEF FromSource, Text
      <3>2. Measurable(flat, type) /\ value = Blob(FromWkb(flat, Envelope(flat, type)))
        BY <2>2, <3>1 DEF FromText, Text, HasBytes
      <3>3. DesiredType(FromWkb(flat, Envelope(flat, type))) = type
        BY DEF DesiredType, FromWkb
      <3> HIDE DEF type, flat, value
      <3> QED  BY <3>2, <3>3 DEF Storable, Blob, Normalisable, FromWkb
    <2> QED  BY <2>1, <2>2 DEF GeoJson
  <1>4. /\ SoundFile(StoredGeometry(value))
        /\ StoredGeometry(value).form = "ext" => Kart(StoredGeometry(value).g)
        /\ HasBytes(StoredGeometry(value)) <=> HasBytes(value)
        /\ ShapeOf(StoredGeometry(value)) = ShapeOf(value)
    BY <1>2, <1>3, StoredIsSound DEF HasBytes, StoredGeometry, Ext
  <1>5. Holds(StoredGeometry(value), Given(source))
    BY <1>2, <1>4, HoldsAlike
  <1> HIDE DEF value
  <1>6. /\ file' = StoredGeometry(value) /\ fileGiven' = Given(source) /\ ~fresh' /\ fresh' = FALSE
        /\ UNCHANGED <<row, edited, filter, rowGiven>>
    BY DEF ResolveWithFile, value
  <1>7. Holds(file, fileGiven)' /\ (row # None \/ edited => Holds(row, rowGiven))'
    BY <1>5, <1>6 DEF Holds, ShapeOf, HasBytes, Inv, GeometrySurvives
  <1> QED  BY <1>4, <1>6, <1>7 DEF Inv, GeometrySurvives, FreshRowIsFile

LEMMA RebuildPreserves ==
    ASSUME Inv, Rebuild
    PROVE  Inv'
  <1>1. /\ SoundFile(file) /\ SoundValue(Loaded(file)) /\ ShapeOf(Loaded(file)) = ShapeOf(file)
        /\ HasBytes(Loaded(file)) <=> HasBytes(file)
    BY LoadedIsSound DEF Inv, Loaded, HasBytes, Blob
  <1>2. /\ row' \in {None, Cell(Loaded(file))}
        /\ edited' = FALSE /\ fresh' \in BOOLEAN /\ rowGiven' = fileGiven
        /\ UNCHANGED <<file, filter, fileGiven>>
    BY DEF Rebuild, Stampable, HasBytes
  <1>3. SoundValue(row') /\ (row' # None \/ edited' => Holds(row', rowGiven'))
    BY <1>1, <1>2, CellIsSound, NoneIsSound, HoldsAlike DEF Inv, GeometrySurvives
  <1>4. FreshRowIsFile'
    <2> SUFFICES ASSUME file.form = "ext", row' # None
                 PROVE  HasBytes(row') /\ (Storable(row') => Normalise(row'.g) = file.g)
      BY <1>2 DEF FreshRowIsFile
    <2>1. HasBytes(file) /\ Sound(file.g) /\ Kart(file.g)
      BY DEF Inv, SoundFile, HasBytes
    <2>2. row' = Blob(Stamped(file.g))
      BY <1>2, <2>1 DEF Cell, Loaded, Blob, HasBytes
    <2>3. HasBytes(row') /\ row'.g = Stamped(file.g)
      BY <2>2 DEF Blob, HasBytes
    <2>4. ASSUME Storable(row')
          PROVE  Normalise(row'.g) = file.g
      <3>1. Normalisable(Stamped(file.g))
        BY <2>3, <2>4 DEF Storable
      <3> QED  BY <2>1, <2>3, <3>1, StampIsForgotten, KartStays
    <2> QED  BY <2>3, <2>4
  <1>5. Holds(file, fileGiven)' /\ (row # None \/ edited => Holds(row, rowGiven))'
    BY <1>2, <1>3 DEF Holds, ShapeOf, HasBytes, Inv, GeometrySurvives
  <1> QED  BY <1>2, <1>3, <1>4, <1>5 DEF Inv, GeometrySurvives

LEMMA DrawPreserves ==
    ASSUME Inv, NEW value \in Cells, Draw(value)
    PROVE  Inv'
  <1>1. SoundValue(value) /\ Holds(value, Given(value))
    BY CellsAreSound DEF Holds, Given
  <1>2. /\ row' = value /\ rowGiven' = Given(value) /\ edited' = TRUE /\ fresh' = FALSE
        /\ UNCHANGED <<file, filter, fileGiven>>
    BY DEF Draw
  <1>3. Holds(file, fileGiven)' /\ (row # None \/ edited => Holds(row, rowGiven))'
    BY <1>1, <1>2 DEF Holds, ShapeOf, HasBytes, Inv, GeometrySurvives
  <1> QED  BY <1>1, <1>2, <1>3 DEF Inv, GeometrySurvives, FreshRowIsFile

LEMMA TouchPreserves ==
    ASSUME Inv, Touch
    PROVE  Inv'
  BY DEF Inv, Touch, GeometrySurvives, FreshRowIsFile

LEMMA CommitPreserves ==
    ASSUME Inv, Commit
    PROVE  Inv'
  <1>1. SoundValue(row) /\ Storable(row)
    BY DEF Inv, Commit
  <1>2. /\ file' = StoredGeometry(row) /\ row' = row /\ edited' = FALSE /\ fresh' = TRUE
        /\ fileGiven' = rowGiven /\ rowGiven' = rowGiven /\ filter' = filter
    BY DEF Commit
  <1>3. /\ SoundFile(file') /\ (file'.form = "ext" => Kart(file'.g))
        /\ ShapeOf(file') = ShapeOf(row)
        /\ file'.form = "ext" <=> HasBytes(row)
        /\ HasBytes(file') <=> HasBytes(row)
        /\ HasBytes(row) => file' = Ext(Normalise(row.g))
    BY <1>1, <1>2, StoredIsSound DEF HasBytes, StoredGeometry, Ext
  <1>4. GeometrySurvives'
    <2>1. Holds(row, rowGiven)
      BY DEF Inv, GeometrySurvives, Commit
    <2>2. Holds(file', rowGiven)
      BY <1>3, <2>1, HoldsAlike
    <2> QED  BY <1>2, <2>1, <2>2 DEF GeometrySurvives, Holds, ShapeOf, HasBytes
  <1>5. FreshRowIsFile'
    <2>1. HasBytes(row) => file'.g = Normalise(row.g)
      BY <1>3 DEF Ext
    <2> QED  BY <1>2, <1>3, <2>1 DEF FreshRowIsFile
  <1> QED  BY <1>1, <1>2, <1>3, <1>4, <1>5 DEF Inv

LEMMA NextPreserves == Inv /\ [Next]_vars => Inv'
  <1> SUFFICES ASSUME Inv, [Next]_vars
               PROVE  Inv'
    OBVIOUS
  <1>1. ASSUME NEW source \in Sources, Import(source)
        PROVE  Inv'
    BY <1>1, ImportPreserves
  <1>2. ASSUME NEW source \in GeoJson, ResolveWithFile(source)
        PROVE  Inv'
    BY <1>2, ResolvePreserves
  <1>3. CASE Rebuild
    BY <1>3, RebuildPreserves
  <1>4. CASE Touch
    BY <1>4, TouchPreserves
  <1>5. CASE Commit
    BY <1>5, CommitPreserves
  <1>6. ASSUME NEW value \in Cells, Draw(value)
        PROVE  Inv'
    BY <1>6, DrawPreserves
  <1>7. CASE UNCHANGED vars
    BY <1>7 DEF vars, Inv, GeometrySurvives, FreshRowIsFile, Holds, ShapeOf, HasBytes
  <1> QED  BY <1>1, <1>2, <1>3, <1>4, <1>5, <1>6, <1>7 DEF Next

LEMMA InvHolds == Spec => []Inv
  <1>1. Init => Inv
    BY InitEstablishes
  <1>2. Inv /\ [Next]_vars => Inv'
    BY NextPreserves
  <1> QED  BY <1>1, <1>2, PTL DEF Spec

\* Blobs are well-formed, the stored ones in Kart's form, and a row whose geometry nobody
\* drew stores as the bytes in the tree: for any shapes, srs ids and filters.
THEOREM GeometryInvariantHolds == Spec => []GeometryInvariant
  <1>1. Inv => GeometryInvariant
    BY InvIsInvariant
  <1> QED  BY <1>1, InvHolds, PTL

\* What import, resolve and commit write is in Kart's one form.
THEOREM AlwaysKart == Spec => []StoredIsKart
  <1>1. Inv => StoredIsKart
    BY InvIsInvariant DEF GeometryInvariant
  <1> QED  BY <1>1, InvHolds, PTL

\* No conversion between the forms of a blob loses a coordinate, an ordinate or the type; of
\* text x and y stay.
THEOREM NoShapeIsLost == Spec => []GeometrySurvives
  <1>1. Inv => GeometrySurvives
    BY DEF Inv
  <1> QED  BY <1>1, InvHolds, PTL

\* A commit leaves the bytes of a geometry that nobody drew.
THEOREM UntouchedStays == Spec => UntouchedGeometryStays
  <1>1. Inv /\ [Next]_vars => [Commit /\ fresh /\ file.form = "ext" => file' = file]_vars
    <2> SUFFICES ASSUME Inv, Commit, fresh, file.form = "ext"
                 PROVE  file' = file
      OBVIOUS
    <2>1. row # None
      BY DEF Inv, FreshRowIsFile, Commit
    <2>2. HasBytes(row) /\ Normalise(row.g) = file.g
      BY <2>1 DEF Inv, FreshRowIsFile, Commit
    <2>3. file' = Ext(file.g)
      BY <2>2 DEF Commit, StoredGeometry
    <2>4. file = Ext(file.g)
      BY DEF Inv, SoundFile, FileValue, Ext, None, Nil
    <2> QED  BY <2>3, <2>4
  <1> QED  BY <1>1, InvHolds, PTL DEF Spec, UntouchedGeometryStays

-----------------------------------------------------------------------------
(* The spatial filter: what a box leaves out has no coordinate in it. *)

\* In a finite set some element has a set no other element's set is smaller than.
LEMMA SmallestSet ==
    ASSUME NEW S, IsFiniteSet(S), S # {}, NEW D \in [S -> SUBSET S]
    PROVE  \E x \in S : \A y \in S : D[y] \subseteq D[x] => D[y] = D[x]
  <1> DEFINE M == {D[x] : x \in S}
  <1>1. IsWellFoundedOn(StrictSubsetOrdering(S), FiniteSubsetsOf(S))
    BY FS_StrictSubsetOrderingWellFounded
  <1>2. M \subseteq FiniteSubsetsOf(S) /\ M # {}
    BY FS_Subset DEF FiniteSubsetsOf
  <1>3. \E x \in M : \A y \in M : <<y, x>> \notin StrictSubsetOrdering(S)
    <2> HIDE DEF M
    <2> QED  BY <1>1, <1>2, WFMin
  <1>4. \E x \in S : \A y \in S : <<D[y], D[x]>> \notin StrictSubsetOrdering(S)
    BY <1>3
  <1> QED  BY <1>4 DEF StrictSubsetOrdering

\* A finite set of integers has a least one, and a greatest.
LEMMA LeastInteger ==
    ASSUME NEW T, IsFiniteSet(T), T # {}, \A x \in T : x \in Int
    PROVE  \E x \in T : \A y \in T : x <= y
  <1> DEFINE D == [x \in T |-> {z \in T : z <= x}]
  <1>1. D \in [T -> SUBSET T]
    OBVIOUS
  <1>2. \A x \in T : D[x] = {z \in T : z <= x}
    OBVIOUS
  <1> HIDE DEF D
  <1>3. PICK x \in T : \A y \in T : D[y] \subseteq D[x] => D[y] = D[x]
    BY <1>1, SmallestSet
  <1>4. ASSUME NEW y \in T, y < x
        PROVE  FALSE
    <2>1. \A z \in T : z <= y => z <= x
      BY <1>4
    <2>2. x \in D[x] /\ x \notin D[y]
      BY <1>4, <1>2
    <2>3. D[y] \subseteq D[x]
      BY <2>1, <1>2
    <2> QED  BY <1>3, <2>2, <2>3
  <1> QED  BY <1>4

LEMMA GreatestInteger ==
    ASSUME NEW T, IsFiniteSet(T), T # {}, \A x \in T : x \in Int
    PROVE  \E x \in T : \A y \in T : y <= x
  <1> DEFINE D == [x \in T |-> {z \in T : x <= z}]
  <1>1. D \in [T -> SUBSET T]
    OBVIOUS
  <1>2. \A x \in T : D[x] = {z \in T : x <= z}
    OBVIOUS
  <1> HIDE DEF D
  <1>3. PICK x \in T : \A y \in T : D[y] \subseteq D[x] => D[y] = D[x]
    BY <1>1, SmallestSet
  <1>4. ASSUME NEW y \in T, x < y
        PROVE  FALSE
    <2>1. \A z \in T : y <= z => x <= z
      BY <1>4
    <2>2. x \in D[x] /\ x \notin D[y]
      BY <1>4, <1>2
    <2>3. D[y] \subseteq D[x]
      BY <2>1, <1>2
    <2> QED  BY <1>3, <2>2, <2>3
  <1> QED  BY <1>4

LEMMA FiniteImage ==
    ASSUME NEW S, IsFiniteSet(S), NEW f, DOMAIN f = S, f = [x \in S |-> f[x]]
    PROVE  IsFiniteSet({f[x] : x \in S})
  <1>1. f \in Surjection(S, {f[x] : x \in S})
    BY DEF Surjection
  <1> QED  BY <1>1, FS_Surjection

\* A shape has finitely many coordinates, each an x and a y that are integers.
LEMMA Coordinates ==
    ASSUME NEW shape \in AnyShape
    PROVE  /\ IsFiniteSet(shape.at)
           /\ \A c \in shape.at : \A axis \in 1 .. 2 :
                axis \in DOMAIN c /\ c[axis] \in Int /\ Place(c, axis) = c[axis]
  <1> 1 .. 2 = {1, 2}
    OBVIOUS
  <1>1. ASSUME NEW s \in Shape
        PROVE  /\ IsFiniteSet(s.at)
               /\ \A c \in s.at : \A axis \in 1 .. 2 : axis \in DOMAIN c /\ c[axis] \in Int
    <2>1. PICK dim \in Dimensions : s.at \subseteq [Axes(dim) -> Int]
      BY ShapeAssumption
    <2> QED  BY <2>1, ShapeAssumption DEF Axes
  <1>2. ASSUME NEW s \in Shape, shape = Flat(s)
        PROVE  /\ IsFiniteSet(shape.at)
               /\ \A c \in shape.at : \A axis \in 1 .. 2 : axis \in DOMAIN c /\ c[axis] \in Int
    <2> DEFINE f == [c \in s.at |-> [axis \in {1, 2} |-> c[axis]]]
    <2>1. shape.at = {[axis \in {1, 2} |-> c[axis]] : c \in s.at}
      BY <1>2, ShapeAssumption DEF Flat
    <2>2. shape.at = {f[c] : c \in s.at}
      BY <2>1
    <2>3. DOMAIN f = s.at /\ f = [c \in s.at |-> f[c]]
      OBVIOUS
    <2>4. IsFiniteSet(shape.at)
      <3> HIDE DEF f
      <3> QED  BY <1>1, <2>2, <2>3, FiniteImage
    <2>5. ASSUME NEW c \in shape.at, NEW axis \in 1 .. 2
          PROVE  axis \in DOMAIN c /\ c[axis] \in Int
      <3>1. PICK d \in s.at : c = [a \in {1, 2} |-> d[a]]
        BY <2>1
      <3>2. d[axis] \in Int
        BY <1>1
      <3> QED  BY <3>1, <3>2
    <2> QED  BY <2>4, <2>5
  <1>3. /\ IsFiniteSet(shape.at)
        /\ \A c \in shape.at : \A axis \in 1 .. 2 : axis \in DOMAIN c /\ c[axis] \in Int
    BY <1>1, <1>2 DEF AnyShape
  <1> QED  BY <1>3 DEF Place

\* The measured span of x and of y has every coordinate in it.
LEMMA SpanCovers ==
    ASSUME NEW shape \in AnyShape, shape.at # {}, NEW axis \in 1 .. 2
    PROVE  /\ Low(shape, axis) \in Int /\ High(shape, axis) \in Int
           /\ \A c \in shape.at : Low(shape, axis) <= c[axis] /\ c[axis] <= High(shape, axis)
  <1> DEFINE f == [c \in shape.at |-> Place(c, axis)]
             T == {Place(c, axis) : c \in shape.at}
  <1>1. \A c \in shape.at : Place(c, axis) = c[axis] /\ Place(c, axis) \in Int
    BY Coordinates
  <1>2. IsFiniteSet(T)
    <2>1. T = {f[c] : c \in shape.at}
      OBVIOUS
    <2>2. DOMAIN f = shape.at /\ f = [c \in shape.at |-> f[c]] /\ IsFiniteSet(shape.at)
      BY Coordinates
    <2> HIDE DEF f, T
    <2> QED  BY <2>1, <2>2, FiniteImage
  <1>3. T # {} /\ \A x \in T : x \in Int
    BY <1>1
  <1>4. \E low \in T : \A x \in T : low <= x
    <2> HIDE DEF T
    <2> QED  BY <1>2, <1>3, LeastInteger
  <1>5. \E high \in T : \A x \in T : x <= high
    <2> HIDE DEF T
    <2> QED  BY <1>2, <1>3, GreatestInteger
  <1>6. \E low \in T : \A c \in shape.at : low <= Place(c, axis)
    BY <1>4
  <1>7. \E high \in T : \A c \in shape.at : Place(c, axis) <= high
    BY <1>5
  <1>8. Low(shape, axis) \in T /\ \A c \in shape.at : Low(shape, axis) <= Place(c, axis)
    BY <1>6 DEF Low
  <1>9. High(shape, axis) \in T /\ \A c \in shape.at : Place(c, axis) <= High(shape, axis)
    BY <1>7 DEF High
  <1> QED  BY <1>1, <1>3, <1>8, <1>9

\* No coordinate of the shape is in the box.
Outside(shape) ==
    \A c \in shape.at : \E axis \in 1 .. 2 : c[axis] < filter.low[axis] \/ c[axis] > filter.high[axis]

LEMMA LeftOutIsOutside ==
    ASSUME NEW value, HasBytes(value), Sound(value.g), filter \in Box, ~InFilter(value)
    PROVE  Outside(value.g.shape)
  <1> DEFINE g == value.g
  <1>1. g \in Header /\ g.shape \in AnyShape /\ g.envelope \in RightEnvelopes(g.shape)
    BY DEF Sound, Header
  <1>2. ~Overlaps(Bounds(g)) /\ (g.envelope = NoEnvelope => g.shape.at # {})
    BY DEF InFilter
  <1>3. PICK type : Bounds(g) = Measure(g.shape, type) /\ g.shape.at # {}
    BY <1>1, <1>2, RightEnvelopeIsMeasured DEF Bounds
  <1>4. \A axis \in 1 .. 2 :
            /\ Bounds(g).span[axis].low = Low(g.shape, axis)
            /\ Bounds(g).span[axis].high = High(g.shape, axis)
    BY <1>3 DEF Measure, Axes
  <1>5. PICK axis \in 1 .. 2 :
            ~(Low(g.shape, axis) <= filter.high[axis]) \/ ~(High(g.shape, axis) >= filter.low[axis])
    BY <1>2, <1>4 DEF Overlaps
  <1>6. filter.low[axis] \in Int /\ filter.high[axis] \in Int
    BY BoxAssumption
  <1>7. ASSUME NEW c \in g.shape.at
        PROVE  c[axis] < filter.low[axis] \/ c[axis] > filter.high[axis]
    <2>1. c[axis] \in Int
      BY <1>1, Coordinates
    <2> QED  BY <1>1, <1>3, <1>5, <1>6, <2>1, SpanCovers
  <1> QED  BY <1>7 DEF Outside

LEMMA FilterStepKeeps ==
    ASSUME Inv, FilterKeepsInside, [Next]_vars
    PROVE  FilterKeepsInside'
  <1> SUFFICES ASSUME fresh', file' # None, row' = None, filter' # NoFilter
               PROVE  (\A c \in (IF ShapeOf(file) = NoShape THEN {} ELSE ShapeOf(file).at) :
                        \E axis \in 1 .. 2 : c[axis] < filter.low[axis]
                                             \/ c[axis] > filter.high[axis])'
    BY DEF FilterKeepsInside
  <1>1. filter' = filter /\ filter \in Box
    BY DEF Inv, Next, Import, ResolveWithFile, Rebuild, Touch, Commit, Draw, vars
  <1>2. ShapeOf(file)' = ShapeOf(file')
    BY DEF ShapeOf, HasBytes
  <1> SUFFICES ASSUME ShapeOf(file') # NoShape
               PROVE  Outside(ShapeOf(file'))
    BY <1>1, <1>2 DEF Outside
  <1>3. ASSUME NEW source \in Sources, Import(source)
        PROVE  Outside(ShapeOf(file'))
    <2> DEFINE value == FromSource(source)
    <2>1. SoundValue(value) /\ value # None /\ Storable(value)
      BY <1>3, SourcesAreSound DEF Import
    <2>2. ~InFilter(value)
      BY <1>3, <2>1, CellIsSomething DEF Import
    <2>3. HasBytes(value) /\ Sound(value.g)
      BY <2>1, <2>2 DEF InFilter, SoundValue
    <2>4. ShapeOf(file') = value.g.shape
      BY <1>3, <2>1, <2>3, StoredIsSound DEF Import, ShapeOf
    <2> QED  BY <1>1, <2>2, <2>3, <2>4, LeftOutIsOutside
  <1>4. ASSUME NEW source \in GeoJson, ResolveWithFile(source)
        PROVE  Outside(ShapeOf(file'))
    BY <1>4 DEF ResolveWithFile
  <1>5. CASE Rebuild
    <2>1. file' = file /\ file # None /\ Stampable(file)
      BY <1>5 DEF Rebuild
    <2>2. Loaded(file) # None
      BY <2>1 DEF Loaded, Blob, None, HasBytes
    <2>3. ~InFilter(file)
      BY <1>5, <2>1, <2>2, CellIsSomething DEF Rebuild
    <2>4. HasBytes(file) /\ Sound(file.g)
      BY <2>3 DEF InFilter, Inv, SoundFile
    <2> QED  BY <1>1, <2>1, <2>3, <2>4, LeftOutIsOutside DEF ShapeOf
  <1>6. CASE Touch
    BY <1>6 DEF Touch
  <1>7. CASE Commit
    <2>1. file' = StoredGeometry(None)
      BY <1>7 DEF Commit
    <2> QED  BY <2>1, NoneIsSound
  <1>8. ASSUME NEW value \in Cells, Draw(value)
        PROVE  Outside(ShapeOf(file'))
    BY <1>8 DEF Draw
  <1>9. CASE UNCHANGED vars
    BY <1>1, <1>9 DEF vars, FilterKeepsInside, Outside
  <1> QED  BY <1>3, <1>4, <1>5, <1>6, <1>7, <1>8, <1>9 DEF Next

\* No row of a fresh working copy is missing that has a coordinate in the filter's box or on
\* its border: for any finite shapes and any boxes.
THEOREM FilterNeverHides == Spec => []FilterKeepsInside
  <1>1. Init => FilterKeepsInside
    BY DEF Init, FilterKeepsInside
  <1>2. Inv /\ FilterKeepsInside /\ [Next]_vars => FilterKeepsInside'
    BY FilterStepKeeps
  <1> QED  BY <1>1, <1>2, InvHolds, PTL DEF Spec

-----------------------------------------------------------------------------
(* What a later commit refuses. *)

\* A row that was imported, rebuilt or committed is of the form geogit reads.
NotExtended == fresh /\ HasBytes(row) => ~row.g.extended

LEMMA StampedIsNotExtended ==
    ASSUME NEW value, SoundValue(value), Stampable(value), HasBytes(Cell(value))
    PROVE  ~Cell(value).g.extended
  <1>1. HasBytes(value)
    BY DEF Cell
  <1>2. Cell(value).g = Stamped(value.g) /\ value.g \in Header /\ ~value.g.extended
    BY <1>1 DEF Cell, Blob, SoundValue, Sound, Stampable
  <1>3. Stamped(value.g).extended = value.g.extended
    BY <1>2 DEF Stamped, Header
  <1> QED  BY <1>2, <1>3

LEMMA NotExtendedPreserved ==
    ASSUME Inv, NotExtended, Next
    PROVE  NotExtended'
  <1>1. ASSUME NEW source \in Sources, Import(source)
        PROVE  NotExtended'
    <2> DEFINE value == FromSource(source)
    <2>1. SoundValue(value) /\ Stampable(value) /\ row' \in {Cell(value), None}
      BY <1>1, SourcesAreSound DEF Import, Storable, Stampable, Normalisable
    <2> QED  BY <2>1, StampedIsNotExtended, NoneIsSound DEF NotExtended
  <1>2. ASSUME NEW source \in GeoJson, ResolveWithFile(source)
        PROVE  NotExtended'
    BY <1>2 DEF ResolveWithFile, NotExtended
  <1>3. CASE Rebuild
    <2> SUFFICES ASSUME Stampable(file), HasBytes(row')
                 PROVE  ~row'.g.extended
      BY <1>3 DEF Rebuild, NotExtended
    <2>1. SoundValue(Loaded(file)) /\ row' \in {Cell(Loaded(file)), None}
      BY <1>3, LoadedIsSound DEF Inv, Rebuild
    <2>2. Stampable(Loaded(file))
      BY DEF Stampable, Loaded, Blob, HasBytes
    <2> QED  BY <2>1, <2>2, StampedIsNotExtended, NoneIsSound
  <1>4. CASE Touch
    BY <1>4 DEF Touch, NotExtended
  <1>5. CASE Commit
    BY <1>5 DEF Commit, NotExtended, Storable, Normalisable
  <1>6. ASSUME NEW value \in Cells, Draw(value)
        PROVE  NotExtended'
    BY <1>6 DEF Draw, NotExtended
  <1> QED  BY <1>1, <1>2, <1>3, <1>4, <1>5, <1>6 DEF Next

\* Of the rows an import, a rebuild or a commit leaves, later commits refuse none but those
\* with an empty geometry, whatever byte orders and envelopes the sources had.
THEOREM RefusedMeansEmpty == Spec => []OnlyEmptyIsRefused
  <1>1. Init => NotExtended
    BY DEF Init, NotExtended
  <1>2. Inv /\ NotExtended /\ [Next]_vars => NotExtended'
    BY NotExtendedPreserved DEF vars, NotExtended
  <1>3. NotExtended => OnlyEmptyIsRefused
    BY DEF NotExtended, OnlyEmptyIsRefused, Storable, Normalisable, Measurable, ShapeOf
  <1> QED  BY <1>1, <1>2, <1>3, InvHolds, PTL DEF Spec

=============================================================================
