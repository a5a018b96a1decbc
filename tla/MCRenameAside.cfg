CONSTANTS
    none = none
    absent = absent
    k1 = k1
    k2 = k2
    k3 = k3
    kc = kc
    kr = kr
    home = home
    own = own
    Own = Own
    sup = sup
    px = px
    py = py
    Commands = {"rename"}
    SwitchBranches = {"main", "work"}
    SwitchRemotes = {"origin", "fork"}
    SwitchDefaultRemote = "origin"
    SwitchNobody = "nobody"
    SwitchCommits = {"base", "up", "mine", "f", "g"}
    SwitchFiles = {"f", "g"}
    SwitchInvocations <- SwitchFlows
    CleanupBranches = {"b1", "b2", "b3"}
    CleanupLimit = 4
    CleanupInvocations <- CleanupAsks
    TaskFiles = {"f", "g"}
    TaskLines = {"a", "b"}
    TaskBranches = {"main", "dev", "auto", "raw"}
    TaskNobody = "nobody"
    TaskSanitized <- TaskNames
    TaskInvocations <- TaskFlows
    RenameRepositories = {"R1", "R2", "R3"}
    RenameNames = {home, own, Own, sup, px, py}
    RenameFolded <- RenameLower
    RenameEndings <- Ends
    RenameAttempts = 2
    RenameInvocations <- RenameSelfAsks
    RemoteOwners = {"me", "Me", "new", "other"}
    RemoteNames = {"x", "y"}
    RemoteNone = none
    RemoteFolded <- RemoteLower
    RemoteInvocations <- RemoteAsks
    MigrateCommits = {"a", "b", "bs", "c", "w"}
    MigrateRewrite = "w"
    MigrateEffects = {"ea", "eb", "ec", "ew"}
    MigrateEffect <- MigrateEffects0
    MigrateRequests = {"r1", "r2"}
    MigrateAbsent = absent
    MigrateInvocations <- MigrateAsks
    ModelProxy = kr
    ModelCompatible = kc
    ModelPriorities = {0, 1, 2}
    ModelRequestsAsked <- ModelAsks
    ReleaseCommits = {k1, k2, k3}
    ReleaseNoCommit = none
    ReleaseAncestors <- Ancestry
    ReleaseTags <- Tags
    ReleaseInvocations <- ReleaseAsks
    WebLaunches <- Launches
    WebNames = {"d", "n", "r", "m"}
    WebChangesLimit = 2
    RetentionRepositories = {"r1", "r2"}
    RetentionNames = {"p", "o"}
    RetentionVersions = 5
    RetentionPageSize = 2
    RetentionInvocations <- RetentionAsks
    PurgeBranches = {"main", "dev"}
    PurgeRemotes = {"origin", "backup"}
    PurgeOrigin = "origin"
    PurgeLater = "later"
    PurgeInvocations <- PurgeAsks
    NamespaceFiles = {"a.go", "b.go"}
    NamespaceInvocations <- NamespaceAsks
    PreflightPaths = {1, 2, 3}
    PreflightBranches = {"main", "work", "side"}
    PreflightDetached = "detached"
    PreflightInvocations <- PreflightAsks
    AdoptFiles = {"base", "mine", "edit", "saved", "theirs"}
    AdoptSaved = "saved"
    AdoptTheirs = "theirs"
    AdoptInvocations <- AdoptAsks
SPECIFICATION Spec
INVARIANT
    RenamesSucceedOrAbort
