---------------------------- MODULE SyncPreflight ----------------------------
(***************************************************************************)
(* buildStrictSyncPlan: what a strict sync examines before it begins.  The *)
(* registered worktrees are listed; those whose link to the repository is  *)
(* lost are repaired, unless one belongs to another repository; then every *)
(* one that is there must be without an operation of the operator.  Any    *)
(* call may fail, and operators go on working meanwhile.                   *)
(***************************************************************************)
EXTENDS Naturals, Sequences, FiniteSets, SequencesExt

CONSTANTS
    PreflightPaths,        \* of worktrees: numbers, in the order git lists them
    PreflightBranches,
    PreflightDetached,     \* what a detached worktree has for its branch
    PreflightInvocations   \* [caller, target, trees]

\* AdministrativePath of strictSyncGitOperationDescriptors
PreflightMarks == <<"MERGE_HEAD", "REVERT_HEAD", "CHERRY_PICK_HEAD", "rebase-merge",
                    "rebase-apply", "BISECT_START", "sequencer">>

\* What the .git of a worktree names: this repository, another that is there, a
\* directory that is not, nothing that can be read; or it is missing itself, or
\* the whole worktree is gone.
PreflightLinks == {"ours", "theirs", "lost", "broken", "missing", "gone"}

PreflightTree ==
    [registered: BOOLEAN, locked: BOOLEAN, foreign: BOOLEAN, link: PreflightLinks,
     branch: PreflightBranches \cup {PreflightDetached},
     marks: SUBSET ToSet(PreflightMarks), odd: SUBSET ToSet(PreflightMarks),
     unmerged: BOOLEAN]

ASSUME PreflightAssumption ==
    /\ PreflightPaths \subseteq Nat /\ PreflightDetached \notin PreflightBranches
    /\ PreflightInvocations \subseteq
         [caller: PreflightPaths, target: PreflightBranches,
          trees: [PreflightPaths -> PreflightTree]]
    /\ \A asked \in PreflightInvocations : asked.trees[asked.caller].link = "ours"

VARIABLES
    preflightAsked,
    preflightAt,
    preflightTrees,
    preflightListed,     \* worktrees: path -> [branch, prunable]
    preflightLeft,       \* the listed paths from worktreeIndex on
    preflightMark,       \* descriptorIndex; one more for the unmerged index
    preflightRepair,     \* repairPaths
    preflightRepaired,   \* the second pass: allowRepair is false
    preflightHolders,    \* touchedWorktrees after the caller's, by path
    preflightFailed,     \* a call has failed
    preflightOutside     \* the worktrees others have worked in

preflightVars ==
    <<preflightAsked, preflightAt, preflightTrees, preflightListed, preflightLeft, preflightMark,
      preflightRepair, preflightRepaired, preflightHolders, preflightFailed, preflightOutside>>

PreflightInit ==
    /\ preflightAsked \in PreflightInvocations
    /\ preflightAt = "list" /\ preflightTrees = preflightAsked.trees
    /\ preflightListed = <<>> /\ preflightLeft = {} /\ preflightMark = 1
    /\ preflightRepair = {} /\ preflightRepaired = FALSE /\ preflightHolders = {}
    /\ preflightFailed = FALSE /\ preflightOutside = {}

\* should_prune_worktree of git: external
PreflightPrunable(tree) == tree.link \in {"missing", "gone"} /\ ~tree.locked

PreflightHere == Min(preflightLeft)

PreflightRefuse(failed) ==
    /\ preflightAt' = "refused" /\ preflightFailed' = (preflightFailed \/ failed)
    /\ UNCHANGED <<preflightAsked, preflightTrees, preflightListed, preflightLeft, preflightMark,
                   preflightRepair, preflightRepaired, preflightHolders, preflightOutside>>

\* Each of these steps is a Git call of which nothing is known when it fails.
PreflightCallFails ==
    /\ preflightAt \in {"list", "common", "inspect"}
    /\ preflightAt = "inspect" =>
         preflightLeft # {} /\ ~preflightListed[PreflightHere].prunable
    /\ PreflightRefuse(TRUE)

\* listRepositoryWorktrees, parseListedWorktrees
PreflightList ==
    /\ preflightAt = "list"
    /\ preflightListed' = [p \in {p \in PreflightPaths : preflightTrees[p].registered} |->
          [branch |-> preflightTrees[p].branch,
           prunable |-> PreflightPrunable(preflightTrees[p])]]
    /\ preflightAt' = "common" /\ preflightLeft' = DOMAIN preflightListed'
    /\ UNCHANGED <<preflightAsked, preflightTrees, preflightMark, preflightRepair,
                   preflightRepaired, preflightHolders, preflightFailed, preflightOutside>>

\* resolveStrictSyncCommonDirectory of the caller
PreflightCommon ==
    /\ preflightAt = "common"
    /\ preflightAt' = "check"
    /\ UNCHANGED <<preflightAsked, preflightTrees, preflightListed, preflightLeft, preflightMark,
                   preflightRepair, preflightRepaired, preflightHolders, preflightFailed,
                   preflightOutside>>

PreflightSkipped(p) == preflightListed[p].prunable \/ p = preflightAsked.caller

PreflightNextTree ==
    /\ preflightLeft' = preflightLeft \ {PreflightHere}
    /\ UNCHANGED <<preflightAsked, preflightTrees, preflightListed, preflightMark,
                   preflightRepaired, preflightHolders, preflightOutside>>

\* The worktree's own common directory is the caller's, or it is the caller, or
\* there is nothing to ask.
PreflightAccept ==
    /\ preflightAt = "check" /\ preflightLeft # {}
    /\ PreflightSkipped(PreflightHere) \/ preflightTrees[PreflightHere].link = "ours"
    /\ PreflightNextTree /\ UNCHANGED <<preflightAt, preflightRepair, preflightFailed>>

\* Faulty: a worktree of another repository is passed over.
PreflightForeignIgnored ==
    /\ preflightAt = "check" /\ preflightLeft # {}
    /\ ~PreflightSkipped(PreflightHere) /\ preflightTrees[PreflightHere].link = "theirs"
    /\ PreflightNextTree /\ UNCHANGED <<preflightAt, preflightRepair, preflightFailed>>

\* It is another repository's, which is there.
PreflightForeign ==
    /\ preflightAt = "check" /\ preflightLeft # {}
    /\ ~PreflightSkipped(PreflightHere) /\ preflightTrees[PreflightHere].link = "theirs"
    /\ PreflightRefuse(FALSE)

\* It has none that can be resolved, or the call has failed for another reason.
PreflightUnresolved ==
    /\ preflightAt = "check" /\ preflightLeft # {}
    /\ ~PreflightSkipped(PreflightHere)
    /\ LET failed == preflightTrees[PreflightHere].link \in {"ours", "theirs"}
       IN  IF preflightRepaired THEN PreflightRefuse(failed)
           ELSE /\ preflightAt' = "target" /\ preflightFailed' = (preflightFailed \/ failed)
                /\ UNCHANGED <<preflightAsked, preflightTrees, preflightListed, preflightLeft,
                               preflightMark, preflightRepair, preflightRepaired,
                               preflightHolders, preflightOutside>>

\* readStrictSyncGitDirectoryTarget and os.Stat: only a target that is not there
\* makes the worktree one to repair.
PreflightTarget ==
    /\ preflightAt = "target"
    /\ IF preflightTrees[PreflightHere].link = "lost"
       THEN /\ preflightRepair' = preflightRepair \cup {PreflightHere}
            /\ preflightAt' = "check" /\ PreflightNextTree /\ UNCHANGED preflightFailed
       ELSE PreflightRefuse(FALSE)

PreflightChecked ==
    /\ preflightAt = "check" /\ preflightLeft = {}
    /\ preflightAt' = IF preflightRepair = {} THEN "locate" ELSE "repair"
    /\ UNCHANGED <<preflightAsked, preflightTrees, preflightListed, preflightLeft, preflightMark,
                   preflightRepair, preflightRepaired, preflightHolders, preflightFailed,
                   preflightOutside>>

\* git worktree repair, which is external: asked or not, every registered
\* worktree that is there and leads elsewhere is linked to this repository.
PreflightRelinked(paths) ==
    [p \in PreflightPaths |->
        IF p \in paths THEN [preflightTrees[p] EXCEPT !.link = "ours"] ELSE preflightTrees[p]]

PreflightElsewhere ==
    {p \in PreflightPaths :
        preflightTrees[p].registered /\ preflightTrees[p].link \notin {"ours", "gone"}}

\* repairStrictSyncWorktreeMetadata: then everything is listed and checked again.
PreflightMend ==
    /\ preflightAt = "repair"
    /\ preflightTrees' = PreflightRelinked(PreflightElsewhere)
    /\ preflightAt' = "list" /\ preflightRepair' = {} /\ preflightRepaired' = TRUE
    /\ UNCHANGED <<preflightAsked, preflightListed, preflightLeft, preflightMark,
                   preflightHolders, preflightFailed, preflightOutside>>

\* A repair that fails has mended some.
PreflightMendFails ==
    /\ preflightAt = "repair"
    /\ \E some \in SUBSET PreflightElsewhere : preflightTrees' = PreflightRelinked(some)
    /\ preflightAt' = "refused" /\ preflightFailed' = TRUE
    /\ UNCHANGED <<preflightAsked, preflightListed, preflightLeft, preflightMark,
                   preflightRepair, preflightRepaired, preflightHolders, preflightOutside>>

\* findListedWorktreeByPath: the caller's own worktree may be a copy of one that
\* is registered elsewhere.
PreflightLocate ==
    /\ preflightAt = "locate"
    /\ IF preflightAsked.caller \in DOMAIN preflightListed
       THEN /\ preflightAt' = "inspect" /\ preflightMark' = 1
            /\ preflightLeft' = DOMAIN preflightListed
            /\ UNCHANGED <<preflightAsked, preflightTrees, preflightListed, preflightRepair,
                           preflightRepaired, preflightHolders, preflightFailed,
                           preflightOutside>>
       ELSE PreflightRefuse(FALSE)

PreflightOperation(tree) ==
    IF preflightMark > Len(PreflightMarks) THEN tree.unmerged
    ELSE PreflightMarks[preflightMark] \in tree.marks \cup tree.odd

\* ensureWorktreeHasNoOperatorOwnedGitOperation, by one descriptor at a time, and
\* ensureWorktreeHasNoOperatorOwnedUnmergedIndex.  A mark of an unexpected kind,
\* or that names no commit, cannot be inspected and is refused as well; the
\* second look at rebase-apply changes the wording only.
PreflightInspect ==
    /\ preflightAt = "inspect" /\ preflightLeft # {}
    /\ IF ~preflightListed[PreflightHere].prunable
            /\ (\/ PreflightOperation(preflightTrees[PreflightHere])
                \/ preflightTrees[PreflightHere].link \notin {"ours", "theirs"})
       THEN PreflightRefuse(FALSE)
       ELSE /\ IF preflightListed[PreflightHere].prunable
                    \/ preflightMark > Len(PreflightMarks)
               THEN preflightLeft' = preflightLeft \ {PreflightHere} /\ preflightMark' = 1
               ELSE preflightMark' = preflightMark + 1 /\ UNCHANGED preflightLeft
            /\ UNCHANGED <<preflightAsked, preflightAt, preflightTrees, preflightListed,
                           preflightRepair, preflightRepaired, preflightHolders, preflightFailed,
                           preflightOutside>>

\* The plan: the caller, and the other worktrees that hold the target.
PreflightPlan ==
    /\ preflightAt = "inspect" /\ preflightLeft = {}
    /\ preflightHolders' =
          {p \in DOMAIN preflightListed :
              /\ ~preflightListed[p].prunable /\ p # preflightAsked.caller
              /\ preflightListed[p].branch = preflightAsked.target}
    /\ preflightAt' = "planned"
    /\ UNCHANGED <<preflightAsked, preflightTrees, preflightListed, preflightLeft, preflightMark,
                   preflightRepair, preflightRepaired, preflightFailed, preflightOutside>>

----------------------------------------
\* Operators at work, in one worktree

PreflightDisturb(path, tree) ==
    /\ preflightTrees' = [preflightTrees EXCEPT ![path] = tree]
    /\ preflightOutside' = {path}
    /\ UNCHANGED <<preflightAsked, preflightAt, preflightListed, preflightLeft, preflightMark,
                   preflightRepair, preflightRepaired, preflightHolders, preflightFailed>>

PreflightRunning == preflightAt \notin {"planned", "refused"} /\ preflightOutside = {}

\* Somebody begins an operation, or switches.
PreflightOthersWork ==
    /\ PreflightRunning
    /\ \E path \in PreflightPaths :
        /\ preflightTrees[path].registered /\ preflightTrees[path].link \in {"ours", "theirs"}
        /\ \/ PreflightDisturb(path, [preflightTrees[path] EXCEPT !.marks = {"MERGE_HEAD"}])
           \/ PreflightDisturb(path, [preflightTrees[path] EXCEPT !.branch = PreflightDetached])

\* Somebody deletes a worktree, or prunes it as well.
PreflightOthersDelete ==
    /\ PreflightRunning
    /\ \E path \in PreflightPaths \ {preflightAsked.caller}, registered \in BOOLEAN :
        /\ preflightTrees[path].registered
        /\ PreflightDisturb(path, [preflightTrees[path] EXCEPT !.link = "gone",
                                                               !.registered = registered])

\* The other repository is back, except between the look at a worktree of its own
\* and the repair.
PreflightOtherReturns ==
    /\ PreflightRunning
    /\ \E path \in PreflightPaths \ preflightRepair :
        /\ preflightTrees[path].foreign /\ preflightTrees[path].link = "lost"
        /\ PreflightDisturb(path, [preflightTrees[path] EXCEPT !.link = "theirs"])

\* The steps of gix itself
PreflightRuns ==
    \/ PreflightCallFails \/ PreflightList \/ PreflightCommon \/ PreflightAccept
    \/ PreflightForeign \/ PreflightUnresolved \/ PreflightTarget \/ PreflightChecked
    \/ PreflightMend \/ PreflightMendFails \/ PreflightLocate \/ PreflightInspect
    \/ PreflightPlan

PreflightNext ==
    \/ PreflightRuns \/ PreflightOthersWork \/ PreflightOthersDelete \/ PreflightOtherReturns

PreflightSpec == PreflightInit /\ [][PreflightNext]_preflightVars

----------------------------------------
PreflightTypeOK ==
    /\ preflightAsked.caller \in PreflightPaths
    /\ preflightAt \in {"list", "common", "check", "target", "repair", "locate", "inspect",
                        "planned", "refused"}
    /\ preflightTrees \in [PreflightPaths -> PreflightTree]
    /\ DOMAIN preflightListed \subseteq PreflightPaths
    /\ \A p \in DOMAIN preflightListed : preflightListed[p] \in
          [branch: PreflightBranches \cup {PreflightDetached}, prunable: BOOLEAN]
    /\ preflightLeft \subseteq DOMAIN preflightListed
    /\ preflightMark \in 1 .. Len(PreflightMarks) + 1
    /\ preflightRepair \subseteq PreflightPaths
    /\ preflightRepaired \in BOOLEAN /\ preflightFailed \in BOOLEAN
    /\ preflightHolders \subseteq PreflightPaths
    /\ preflightOutside \subseteq PreflightPaths

PreflightQuiet == PreflightPaths \ preflightOutside

\* README.md:69: a checkout that belongs to another repository that is there is
\* left alone, and nothing but a lost link (or the missing one of a worktree of
\* ours) is changed, whether the sync goes on or not.
OnlyLostLinksChange ==
    preflightAt \in {"planned", "refused"} =>
        \A p \in PreflightQuiet :
            \/ preflightTrees[p] = preflightAsked.trees[p]
            \/ /\ preflightAsked.trees[p].link \in {"lost", "missing"}
               /\ preflightTrees[p] = [preflightAsked.trees[p] EXCEPT !.link = "ours"]

\* A worktree that an operator of this repository would find in the way.
PreflightBusy(tree) ==
    /\ tree.registered /\ ~PreflightPrunable(tree)
    /\ \/ tree.link # "ours" \/ tree.marks \cup tree.odd # {} \/ tree.unmerged

\* A plan is only made when every worktree is this repository's and idle, and it
\* names the worktrees that hold the target beside the caller.
PlansAreForIdleWorktrees ==
    preflightAt = "planned" =>
        /\ \A p \in PreflightQuiet : ~PreflightBusy(preflightTrees[p])
        /\ preflightAsked.caller \notin preflightHolders
        /\ \A p \in PreflightQuiet \ {preflightAsked.caller} :
             p \in preflightHolders <=>
                /\ preflightTrees[p].registered /\ ~PreflightPrunable(preflightTrees[p])
                /\ preflightTrees[p].branch = preflightAsked.target

\* Preflight refuses nobody without a reason: lost links alone are none.
RefusalsHaveReasons ==
    preflightAt = "refused" /\ ~preflightFailed /\ preflightOutside = {} =>
        \/ ~preflightTrees[preflightAsked.caller].registered
        \/ \E p \in PreflightPaths : PreflightBusy(preflightTrees[p])

\* buildStrictSyncPlan changes nothing but lost links, plans for idle worktrees of
\* this repository only, and refuses for a reason.
PreflightIsSafe == OnlyLostLinksChange /\ PlansAreForIdleWorktrees /\ RefusalsHaveReasons
========================================
