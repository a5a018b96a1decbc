CONSTANTS
    caller = caller
    sibling = sibling
    main = main
    feat = feat
    side = side
    edit = edit
    sibEdit = sibEdit
    ours = ours
    theirs = theirs
    outsider = outsider
    None = None
    Worktrees = {caller, sibling}
    Branches = {main, feat, side}
    Tokens = {edit, sibEdit, ours, theirs, outsider}
    Caller = caller
    MainWorktree = caller
    Default = main
    Generated = side
    Invocations <- ParentsToPublish
    Outsiders = {"switch"}
    OutsideToken = outsider
    Racing = FALSE
SPECIFICATION Spec
INVARIANT
    PublishedHandoffKeepsWork
