CONSTANTS
    Letters = {1, 2, 3}
    Spaces = {0}
    Symbols = {9}
    MaximumCells = 36
    None = None
    Requests <- SomeRequests
    MaxAttempts = 4
SPECIFICATION Spec
INVARIANTS
    TypeOK
    ResolutionIsSound
    TextIsTheMerge
    FilesAreCutRight
PROPERTIES
    EveryResolutionEnds
