SPECIFICATION Spec
CONSTANTS
    Leaves = {1, 2}
    MaxLeaves = 9
INVARIANT TypeOK
INVARIANT FoldsTheTree
INVARIANT RootCommits
PROPERTY Returns
CHECK_DEADLOCK FALSE
