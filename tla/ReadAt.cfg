SPECIFICATION FairSpec
CONSTANTS
    k = k
    l = l
    f = f
    g = g
    h = h
    Legend <- MCLegend
    Feature <- MCFeature
    Tree <- MCTree
    NoFile = nofile
    Capacity = 1
INVARIANTS TypeOK ExportIsTheTree ExportedWasThere FailureHasACause NoMutualWait
PROPERTIES ExportEnds
