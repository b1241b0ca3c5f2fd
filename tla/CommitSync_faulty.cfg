SPECIFICATION FaultySpec
CONSTANTS
    k1 = k1
    k2 = k2
    a = a
    null = null
    Pk <- MCPk
    Content <- MCContent
    NullRow = null
    Absent = absent
    NoOld = noOld
    Torn = torn
    NotAsked = notAsked
    MaxRowid = 3
SYMMETRY KeySymmetry
VIEW ButHead
INVARIANTS SyncInvariant UntrackedRowsMatchTree ChosenFilesAreRows NoTextKey
