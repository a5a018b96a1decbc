CONSTANTS
    x = x
    y = y
    z = z
    Steps = {x, y, z}
    Unknown = Unknown
    RepositoryCount = 2
    Labels = {"one", "other"}
    Invocations <- SomeInvocations
SPECIFICATION Spec
INVARIANTS
    TypeOK
    RunsAsPlanned
    NeverTwoAtOnce
    OutcomeIsTrue
PROPERTIES
    RunEnds
