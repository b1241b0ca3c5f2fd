SPECIFICATION Spec
CONSTANTS
    Shape <- MCShape
    TableSrs = 4326
    Srs <- MCSrs
    Box <- MCBox
    NoFilter = nofilter
    NoShape = noshape
INVARIANT FreshRowsCommit
