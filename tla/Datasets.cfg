SPECIFICATION Spec
CONSTANTS
    a = a
    n = n
    n_ = n_
    x = x
    Dataset <- MCDataset
    Table <- MCTable
    TableName <- MCTableName
    Title <- MCTitle
    Spatial <- MCDataset
INVARIANTS  EveryTableIsListed
PROPERTIES  CommitReachesEveryTable
