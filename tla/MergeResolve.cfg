SPECIFICATION Spec
CONSTANTS
    f1 = f1
    f2 = f2
    x = x
    y = y
    z = z
    Path <- MCPath
    Blob <- MCBlob
    Missing = missing
    Commits <- MCCommits
    Open = open
    Untracked = untracked
INVARIANT MergeInvariant
PROPERTIES ContinueCommitsChoices MergedSurvives
SYMMETRY Symmetry
