CONSTANTS
    a = a
    b = b
    c = c
    z = z
    old = old
    new = new
    Missing = Missing
    Paths = {a, b, c, z}
    Contents = {old, new}
    Clusters <- TwoClusters
    Start <- Starts
    Budget = 3
    Racing = FALSE
SPECIFICATION Spec
INVARIANTS
    TypeOK
    CommitsHoldTheirCluster
    SavedMeansCommitted
PROPERTIES
    CommitsTheCheckpoint
    LockIsReleased
