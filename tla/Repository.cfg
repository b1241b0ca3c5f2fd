SPECIFICATION Spec
CONSTANTS
    main = main
    topic = topic
    f = f
    v = v
    here = here
    there = there
    Branch <- MCBranch
    Feature <- MCFeature
    Value <- MCValue
    Place <- MCPlace
    Config = config
    Filter <- MCFilter
    Default = here
    Missing = missing
    Broken = broken
    None = none
INVARIANTS RepositoryInvariant RowsAreOfTheWorktree EditsStayOnTheirBranch
SYMMETRY Symmetry
VIEW WhatCommandsRead
