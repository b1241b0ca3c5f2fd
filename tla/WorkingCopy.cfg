SPECIFICATION Spec
CONSTANTS
    k1 = k1
    k2 = k2
    a = a
    null = null
    Pk <- MCPk
    Content <- MCContent
    Hidden <- MCHidden
    NullRow = null
    Absent = absent
    NoOld = noOld
    MaxRowid = 4
SYMMETRY KeySymmetry
INVARIANTS CopyInvariant RebuildIsFresh UntrackedRowsAreTheTree SavedRowIsCheckedOut
