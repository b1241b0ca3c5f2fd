SPECIFICATION Spec
CONSTANTS
    Shape <- MCShape
    TableSrs = 4326
    Srs <- MCSrs
    Box <- MCBox
    NoFilter = nofilter
    NoShape = noshape
INVARIANTS GeometryInvariant StoredIsKart GeometrySurvives FilterKeepsInside OnlyEmptyIsRefused
PROPERTIES UntouchedGeometryStays
