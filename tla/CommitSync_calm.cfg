SPECIFICATION CalmFairSpec
CONSTANTS
    k1 = k1
    k2 = k2
    a = a
    null = null
    Pk <- MCPk
    Content <- MCContent
    NullRow = null
    Absent = absent
    NoOld = noOld
    Torn = torn
    NotAsked = notAsked
    MaxRowid = 4
INVARIANTS OnlyChosenIsCommitted CleanMeansCommitted
PROPERTIES VersionedSpec CommitEnds
