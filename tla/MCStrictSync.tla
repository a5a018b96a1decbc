---------------------------- MODULE MCStrictSync ----------------------------
(***************************************************************************)
(* Instances of StrictSync for TLC: two worktrees of one repository, three *)
(* branches and the starting states that lead the handler down each of its *)
(* paths.                                                                  *)
(***************************************************************************)
EXTENDS StrictSync

CONSTANTS
    caller, sibling,        \* worktrees
    main, feat, side,       \* branches
    edit, sibEdit,          \* uncommitted changes
    ours, theirs,           \* commits only one side has
    outsider                \* an outside change

NoBranches == [b \in Branches |-> None]

Pair(first, second) == [w \in Worktrees |-> IF w = caller THEN first ELSE second]

Tips(m, f, s) == [b \in Branches |-> CASE b = main -> m [] b = feat -> f [] OTHER -> s]

\* head and work give the caller's and the sibling's value; a detached
\* checkout is at the root commit.
Repository(refs, origin, head, work, review) ==
    [ refs |-> refs, origin |-> origin, head |-> head,
      at |-> [w \in Worktrees |-> {}], trees |-> Worktrees, work |-> work,
      unmerged |-> {}, stashes |-> <<>>, review |-> review ]

NoReviews == [b \in Branches |-> [open |-> None, merged |-> None, oid |-> {}]]

Open(forges, b, base) == [forges EXCEPT ![b].open = base]

Merged(forges, b, base, oid) ==
    [forges EXCEPT ![b].merged = base, ![b].oid = oid]

Request(b, mode, explicit) == [target |-> b, mode |-> mode, explicit |-> explicit]

Invocation(repository, forges, requested) ==
    [git |-> repository, forge |-> forges, request |-> requested]

----------------------------------------
\* The sibling holds the branch to sync.

HeldBranches ==
    { Invocation(
        Repository(Tips({}, local, other), Tips({theirs}, remote, None),
                   Pair(callerHead, feat), Pair(callerWork, siblingWork),
                   NoBranches),
        forges, Request(feat, mode, TRUE)) :
        local \in {{}, {ours}}, remote \in {{theirs}},
        other \in {None, {}}, callerHead \in {main, None},
        callerWork \in {{}, {edit}}, siblingWork \in {{}, {sibEdit}},
        forges \in {NoReviews, Open(NoReviews, feat, main)}, mode \in Modes }

\* The branch is free, local only, remote only, or missing.
Reviews ==
    { Invocation(
        Repository(Tips({}, local, {}), Tips({theirs}, remote, None),
                   Pair(main, side), Pair(callerWork, {}), NoBranches),
        forges, Request(feat, mode, FALSE)) :
        local \in {None, {ours}}, remote \in {None, {theirs}, {edit}},
        callerWork \in {{}, {edit}},
        forges \in {NoReviews, Merged(NoReviews, feat, main, {theirs})},
        mode \in {"commit", "stash"} }

\* The default branch itself, clean or with work for a generated branch,
\* whose name may be in use.
Bases ==
    { Invocation(
        Repository(Tips(local, {}, None), Tips({theirs}, {}, generated),
                   Pair(callerHead, siblingHead), Pair(callerWork, {}),
                   NoBranches),
        IF generated = None THEN NoReviews ELSE Open(NoReviews, side, main),
        Request(main, mode, explicit)) :
        local \in {None, {}, {ours}}, generated \in {None, {ours}},
        callerHead \in {None, feat, main}, siblingHead \in {None, main},
        callerWork \in {{}, {edit}}, mode \in Modes, explicit \in BOOLEAN }

WellFormed(invocation) ==
    LET g == invocation.git
    IN /\ \A w \in Worktrees : g.head[w] # None => Exists(g.refs, g.head[w])
       /\ g.head[caller] = g.head[sibling] => g.head[caller] = None

\* A missing child of the branch the caller is on, or a recorded parent.
Stacks ==
    { Invocation(
        Repository(Tips({}, local, {ours}), Tips({theirs}, None, remote),
                   Pair(side, main), Pair(callerWork, {}),
                   [NoBranches EXCEPT ![feat] = recorded, ![side] = grand]),
        forges, Request(feat, mode, TRUE)) :
        local \in {None, {ours, theirs}}, remote \in {None, {}, {theirs}},
        callerWork \in {{}, {edit}},
        recorded \in {None, side}, grand \in {None, feat},
        forges \in {NoReviews, Open(NoReviews, side, main),
                    Merged(NoReviews, side, main, {})},
        mode \in {"commit", "stash"} }

\* The branch was merged into another that may have been merged as well,
\* while the sibling holds the default branch.
Handoffs ==
    { Invocation(
        Repository(Tips({}, {ours}, {}), Tips({theirs}, remote, {}),
                   Pair(feat, main), Pair(callerWork, siblingWork),
                   [NoBranches EXCEPT ![feat] = recorded]),
        forges, Request(feat, mode, TRUE)) :
        remote \in {None, {ours}, {ours, theirs}},
        callerWork \in {{}, {edit}}, siblingWork \in {{}, {sibEdit}},
        recorded \in {None, main},
        forges \in {Merged(NoReviews, feat, main, {ours}),
                    Merged(Merged(NoReviews, feat, side, {ours}), side, main, {})},
        mode \in {"commit", "stash"} }

\* Few enough to let other writers act at every step.
BusyInvocations ==
    {i \in HeldBranches \cup Reviews \cup Bases :
        /\ WellFormed(i)
        /\ i.git.refs[main] # None /\ i.git.head[caller] # None
        /\ i.request.explicit /\ i.request.mode # "clean"
        /\ i \in HeldBranches => i.git.refs[side] # None /\ i.forge = NoReviews}

\* The parent has a pull request and commits to push; the sibling is elsewhere.
ParentsToPublish ==
    { Invocation(
        Repository(Tips({}, {ours, theirs}, {ours}), Tips({theirs}, None, {}),
                   Pair(side, main), Pair({}, siblingWork),
                   [NoBranches EXCEPT ![feat] = side]),
        Open(NoReviews, side, main), Request(feat, mode, TRUE)) :
        siblingWork \in {{}, {sibEdit}}, mode \in {"commit", "stash"} }

AllInvocations ==
    {i \in HeldBranches \cup Reviews \cup Bases \cup Stacks \cup Handoffs :
        WellFormed(i)}
========================================
