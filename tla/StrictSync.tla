------------------------------ MODULE StrictSync ------------------------------
(***************************************************************************)
(* gix sync: handleStrictSyncAction and the functions it calls            *)
(* (task_action.go, stacked_sync.go, dirty_sync.go, worktree_adoption.go), *)
(* driving the transaction of StrictSyncTransaction while other writers    *)
(* work in the same repository.                                            *)
(*                                                                         *)
(* A step is one Git or GitHub call with the decisions that follow it, up  *)
(* to the next call.                                                       *)
(***************************************************************************)
EXTENDS StrictSyncTransaction

CONSTANTS
    MainWorktree,   \* the worktree that owns the Git directory
    Default,        \* the remote's default branch
    Generated,      \* the branch name the model generates for dirty work
    Invocations,    \* the repository, forge and request a run may start with
    Outsiders,      \* what other writers do, from OutsideActs
    OutsideToken,   \* the change an outside commit, stash or edit brings
    Racing          \* whether they may also act within a gix bracket

Modes == {"commit", "stash", "clean"}

\* A commit in another checkout or in the caller's, a stash, a change of the
\* caller's index while gix waits for the model, a switch of a sibling.
OutsideActs == {"commit", "callerCommit", "stash", "index", "switch"}

OutsideCommits == {"commit", "callerCommit"}

RequestType == [target: Branches, mode: Modes, explicit: BOOLEAN]

\* open, merged: the base of the branch's open, of its merged pull request;
\* oid: the head OID the merged one records.
ForgeType ==
    [Branches -> [open: {None} \cup Branches, merged: {None} \cup Branches,
                  oid: Commits]]

\* A switch that may adopt the worktree holding the branch, once.
AfterSwitch == {"isolation", "baseAhead", "align", "mergeBase"}

Switches == [to: Branches, then: AfterSwitch, adopted: BOOLEAN]

InvocationType ==
    [git: RepositoryType, forge: ForgeType, request: RequestType]

ASSUME StrictSyncAssumption ==
    /\ MainWorktree \in Worktrees
    /\ {Default, Generated} \subseteq Branches
    /\ Invocations \subseteq InvocationType
    /\ OutsideToken \in Tokens
    /\ Outsiders \subseteq OutsideActs
    /\ Racing \in BOOLEAN
    /\ None \notin Switches

VARIABLES
    forge,
    request,
    dirty,          \* the caller's status as last read or resolved
    reviewBase,     \* reviewBaseBranch
    merged,         \* ChildPullRequestMerged
    record,         \* RecordReviewBase
    branch,         \* the branch being synced: branchName, then syncedBranch
    chain,          \* branches a recursion has visited
    switching,      \* the branch a switch with adoption is for
    outside,        \* what other writers have done
    silent          \* a remote write whose success was not reported

plans == <<reviewBase, merged, record, branch, chain>>
world == <<outside, silent>>
handlerVars == <<forge, request, dirty, plans, switching, world>>
vars == <<transactionVars, handlerVars>>

\* What a step of the handler leaves alone when it only decides.
quiet == <<git, target, start, ledger, claims, published, phase, outcome,
           frames, forge, request, switching, world>>

Init ==
    /\ \E invocation \in Invocations :
         /\ git = invocation.git
         /\ forge = invocation.forge
         /\ request = invocation.request
    /\ start = git
    /\ target = request.target
    /\ snapshots = <<>> /\ adopted = <<>> /\ owned = {}
    /\ journal = [b \in Branches |-> None]
    /\ mutated = {} /\ published = FALSE /\ ownershipLost = FALSE
    /\ phase = "begin" /\ pc = "begin" /\ outcome = "running"
    /\ cmd = None /\ capture = None /\ dropping = None
    /\ seen = None /\ pending = {} /\ cursor = 1
    /\ dirty = FALSE /\ reviewBase = Default /\ merged = FALSE
    /\ record = FALSE /\ branch = target /\ chain = <<>>
    /\ switching = None /\ outside = {} /\ silent = FALSE

----------------------------------------
\* The forge

OriginTip(b) == git.origin[b]

LocalTip(b) == git.refs[b]

Known(b) == Exists(git.refs, b) \/ Exists(git.origin, b)

IsOpen(b) == forge[b].open # None

\* mergedPullRequestForCurrentBranchTip: a merged pull request counts only
\* while the branch still is what was merged.
StillMerged(b) ==
    IF ~Known(b) THEN TRUE
    ELSE IF ~Exists(git.origin, b) THEN LocalTip(b) \subseteq forge[b].oid
    ELSE /\ OriginTip(b) = forge[b].oid
         /\ ~Beyond(LocalTip(b), OriginTip(b))

MergedBase(b) == IF StillMerged(b) THEN forge[b].merged ELSE None

----------------------------------------
\* Status, fetch and the stack plan (planStrictSyncStack)

Explicit == request.explicit

Stash == request.mode = "stash"

ReadStatus ==
    /\ pc = "status"
    /\ dirty' = (git.work[Caller] # {})
    /\ ~(dirty' /\ request.mode = "clean")
    /\ pc' = "plan"
    /\ UNCHANGED <<quiet, plans>>

\* The default branch has no review base: a recorded one is removed.
PlanDefault ==
    /\ pc = "plan" /\ target = Default
    /\ git' = RecordReview(git, target, None)
    /\ pc' = "stash"
    /\ UNCHANGED <<target, start, ledger, claims, published, phase, outcome,
                   frames, handlerVars>>

Stored == git.review[target]

\* Whether the forge is asked about the branch before anything is committed.
Inspected == Known(target) /\ (Stored # None \/ dirty)

MergedChild ==
    /\ Inspected /\ ~IsOpen(target) /\ MergedBase(target) # None

OpenChild == Inspected /\ IsOpen(target)

Planned(base, isMerged, isNew, next) ==
    /\ reviewBase' = base /\ merged' = isMerged /\ record' = isNew
    /\ pc' = next
    /\ UNCHANGED <<quiet, dirty, branch, chain>>

PlanUnstacked ==
    /\ pc = "plan" /\ target # Default /\ Stored # target
    /\ \/ OpenChild
       \/ ~MergedChild /\ Stored = None /\ (~Explicit \/ Known(target))
    /\ Planned(Default, FALSE, FALSE, "stash")

\* A merged branch takes no new commits.
PlanMerged ==
    /\ pc = "plan" /\ target # Default /\ Stored # target
    /\ MergedChild
    /\ MergedBase(target) # target
    /\ dirty => Stash
    /\ Planned(MergedBase(target), TRUE, FALSE, "stash")

PlanStored ==
    /\ pc = "plan" /\ target # Default
    /\ ~OpenChild /\ ~MergedChild
    /\ Stored \notin {None, target}
    /\ Known(target) \/ (dirty /\ ~Stash)
    /\ Planned(Stored, FALSE, FALSE, "parent")

\* repository.Inspection.LocalBranch is the branch the invocation started on.
PlanChild ==
    /\ pc = "plan" /\ target # Default
    /\ Explicit /\ ~Known(target) /\ Stored = None
    /\ start.head[Caller] # None
    /\ dirty /\ ~Stash
    /\ Planned(start.head[Caller], FALSE, TRUE, "parent")

----------------------------------------
\* ensureStrictSyncStackParentChain.  `branch` walks up the recorded review
\* bases, `chain` holds the parents whose pull requests are still to open.

CanPushParent(b) == ~Beyond(OriginTip(b), LocalTip(b))

ParentBase(b) == IF git.review[b] = None THEN Default ELSE git.review[b]

EnterParents ==
    /\ pc = "parent"
    /\ branch' = reviewBase /\ chain' = <<>>
    /\ pc' = "climb"
    /\ UNCHANGED <<quiet, dirty, reviewBase, merged, record>>

ClimbToDefault ==
    /\ pc = "climb"
    /\ branch = Default \/ (IsOpen(branch) /\ ~Exists(git.refs, branch)
                            /\ branch \notin ToSet(chain))
    /\ pc' = "unwind"
    /\ UNCHANGED <<quiet, dirty, plans>>

\* A parent with an open pull request is pushed; its review exists.
ClimbToOpen ==
    /\ pc = "climb" /\ branch # Default /\ branch \notin ToSet(chain)
    /\ IsOpen(branch) /\ Exists(git.refs, branch)
    /\ CanPushParent(branch)
    /\ Issue([Command("push", Caller, "unwind") EXCEPT !.to = branch])
    /\ UNCHANGED handlerVars

\* A parent without one needs commits of its own; its parent comes first.
ClimbFurther ==
    /\ pc = "climb" /\ branch # Default /\ branch \notin ToSet(chain)
    /\ ~IsOpen(branch) /\ MergedBase(branch) = None
    /\ ParentBase(branch) # branch
    /\ Beyond(LocalTip(branch), OriginTip(ParentBase(branch)))
    /\ CanPushParent(branch)
    /\ chain' = Append(chain, branch)
    /\ branch' = ParentBase(branch)
    /\ UNCHANGED <<quiet, pc, dirty, reviewBase, merged, record>>

UnwindParent ==
    /\ pc = "unwind" /\ chain # <<>>
    /\ Issue([Command("push", Caller, "openParent") EXCEPT !.to = Last(chain)])
    /\ UNCHANGED handlerVars

ParentsReady ==
    /\ pc = "unwind" /\ chain = <<>>
    /\ branch' = target
    /\ pc' = "record"
    /\ UNCHANGED <<quiet, dirty, reviewBase, merged, record, chain>>

RecordReviewBase ==
    /\ pc = "record"
    /\ git' = IF record THEN RecordReview(git, target, reviewBase) ELSE git
    /\ pc' = "stash"
    /\ UNCHANGED <<target, start, ledger, claims, published, phase, outcome,
                   frames, handlerVars>>

\* createPullRequest: a reported success publishes; an unreported one may
\* still have opened the review.
OpenPullRequest(b, base, next) ==
    /\ \/ /\ forge' = [forge EXCEPT ![b].open = base]
          /\ published' = TRUE /\ pc' = next /\ UNCHANGED silent
       \/ /\ forge' = [forge EXCEPT ![b].open = base]
          /\ silent' = TRUE /\ pc' = "cleanup" /\ UNCHANGED published
    /\ UNCHANGED <<git, target, start, ledger, claims, phase, outcome, frames,
                   request, dirty, reviewBase, merged, record, branch,
                   switching, outside>>

OpenParent ==
    /\ pc = "openParent"
    /\ chain' = Front(chain)
    /\ OpenPullRequest(Last(chain), ParentBase(Last(chain)), "unwind")

OpenReview ==
    /\ pc = "openReview"
    /\ OpenPullRequest(branch, reviewBase, "restore")
    /\ UNCHANGED chain

----------------------------------------
\* Dirty work: the invocation stash, or commits on the right branch

Skip(next) == pc' = next /\ UNCHANGED <<quiet, dirty, plans>>

StashInvocation ==
    /\ pc = "stash" /\ dirty /\ Stash
    /\ Issue(Command("stash", Caller, "ownInvocation"))
    /\ UNCHANGED handlerVars

StashSkipped ==
    /\ pc = "stash" /\ ~(dirty /\ Stash)
    /\ Skip(IF dirty THEN "route" ELSE "sync")

\* pushStrictSyncStash owns whatever refs/stash then names.
OwnStash ==
    /\ pc \in {"ownInvocation", "ownIsolation"}
    /\ git.stashes # <<>>
    /\ owned' = owned \cup {Head(git.stashes)}
    /\ dirty' = (dirty /\ pc = "ownIsolation")
    /\ pc' = IF pc = "ownInvocation" THEN "sync" ELSE "prepare"
    /\ UNCHANGED <<git, target, start, snapshots, adopted, claims, published,
                   phase, outcome, frames, forge, request, plans, switching,
                   world>>

ToExplicitBase == target = Default /\ Explicit

CommitBranch == IF target = Default /\ ~Explicit THEN Generated ELSE target

\* selectGeneratedSyncBranchName: a name that is taken gives way to the next
\* candidate unless its pull request is open; Generated is the one selected.
CanGenerate == ~Known(Generated) \/ (Exists(git.origin, Generated) /\ IsOpen(Generated))

\* Dirty work for a branch that exists elsewhere is carried there in a stash.
Route ==
    /\ pc = "route"
    /\ ToExplicitBase => Exists(git.origin, Default)
    /\ CommitBranch # target => CanGenerate
    /\ branch' = CommitBranch
    /\ pc' = IF start.head[Caller] \notin {None, CommitBranch} /\ Known(CommitBranch)
             THEN "isolate" ELSE "prepare"
    /\ UNCHANGED <<quiet, dirty, reviewBase, merged, record, chain>>

Isolate ==
    /\ pc = "isolate"
    /\ Issue(Command("stash", Caller, "ownIsolation"))
    /\ UNCHANGED handlerVars

\* switchToLocalOrRemoteBranchWithAdoption
SwitchWithAdoption(b, next) ==
    /\ switching' = [to |-> b, then |-> next, adopted |-> FALSE]
    /\ Issue([Command("switch", Caller, next) EXCEPT !.to = b])
    /\ UNCHANGED <<forge, request, dirty, plans, world>>

CreateAt(b, commit, next) ==
    /\ commit # None
    /\ Issue([Command("create", Caller, next) EXCEPT !.to = b, !.onto = commit])
    /\ UNCHANGED handlerVars

\* prepareStrictSyncBranchForDirtyWork
PrepareExisting ==
    /\ pc = "prepare"
    /\ IF Exists(git.origin, branch)
       THEN branch = reviewBase \/ IsOpen(branch) \/ MergedBase(branch) = None
       ELSE Exists(git.refs, branch)
    /\ SwitchWithAdoption(branch, "isolation")

PrepareNew ==
    /\ pc = "prepare" /\ ~Known(branch)
    /\ Exists(git.origin, reviewBase)
    /\ CreateAt(branch,
                IF target = Default /\ start.head[Caller] # Default
                THEN OriginTip(reviewBase) ELSE Tip(git, Caller),
                "isolation")

\* An error while the child branch is still missing forgets its review base.
PrepareFails ==
    /\ pc \in {"prepare", "command"} /\ phase = "forward" /\ record
    /\ pc = "command" => cmd.kind = "create" /\ cmd.then = "isolation"
    /\ ~Exists(git.refs, target)
    /\ git' = RecordReview(git, target, None)
    /\ pc' = "cleanup"
    /\ UNCHANGED <<target, start, ledger, claims, published, phase, outcome,
                   frames, handlerVars>>

\* restoreOwnedStrictSyncStash, for the isolation and the invocation stash.
RestoreOwned ==
    /\ pc \in {"isolation", "restore"} /\ owned # {}
    /\ Issue(Command("apply", Caller, IF pc = "isolation" THEN "dropIsolation" ELSE "dropOwned"))
    /\ UNCHANGED handlerVars

NothingOwned ==
    /\ pc \in {"isolation", "restore"} /\ owned = {}
    /\ Skip(IF pc = "isolation" THEN "cluster" ELSE "finalize")

DropOwned ==
    /\ pc \in {"dropIsolation", "dropOwned"}
    /\ \E entry \in owned : dropping' = Drop(entry, 0)
    /\ pc' = "list"
    /\ UNCHANGED <<git, target, start, ledger, claims, published, phase,
                   outcome, cmd, capture, seen, pending, cursor, handlerVars>>

\* saveDirtyWorkClusters: one cluster is staged, a message generated for it,
\* the index checked again, and the cluster committed.
StageCluster ==
    /\ pc = "cluster" /\ git.work[Caller] # {}
    /\ \E edits \in SUBSET git.work[Caller] \ {{}} :
         cmd' = [Command("commit", Caller, "cluster") EXCEPT !.edits = edits]
    /\ mutated' = mutated \cup {Caller}
    /\ pc' = "generate"
    /\ UNCHANGED <<git, target, start, ledger, journal, ownershipLost,
                   published, phase, outcome, capture, dropping, seen, pending,
                   cursor, handlerVars>>

Drifted == "index" \in outside

CommitCluster ==
    /\ pc = "generate" /\ ~Drifted
    /\ Issue(cmd)
    /\ UNCHANGED handlerVars

\* The checkpoint is compared whether or not the message came.
LoseIndex ==
    /\ pc = "generate" /\ Drifted
    /\ ownershipLost' = TRUE /\ pc' = "cleanup"
    /\ UNCHANGED <<git, target, start, ledger, journal, mutated, published,
                   phase, outcome, frames, handlerVars>>

GenerateFails ==
    /\ pc = "generate" /\ ~Drifted
    /\ pc' = "cleanup"
    /\ UNCHANGED <<quiet, dirty, plans>>

ClustersSaved ==
    /\ pc = "cluster" /\ git.work[Caller] = {}
    /\ dirty' = FALSE
    /\ pc' = IF ToExplicitBase THEN "explicit" ELSE "sync"
    /\ UNCHANGED <<quiet, plans>>

----------------------------------------
\* Bringing the branch up to date

Merge(b, next) ==
    /\ Exists(git.origin, b)
    /\ Issue([Command("merge", Caller, next) EXCEPT !.onto = OriginTip(b)])
    /\ UNCHANGED handlerVars

Reset(b, next) ==
    /\ Exists(git.origin, b)
    /\ Issue([Command("reset", Caller, next) EXCEPT !.onto = OriginTip(b)])
    /\ UNCHANGED handlerVars

Push(b, next) ==
    /\ Issue([Command("push", Caller, next) EXCEPT !.to = b])
    /\ UNCHANGED handlerVars

MergeExplicit == pc = "explicit" /\ Merge(branch, "pushExplicit")

PushExplicit == pc = "pushExplicit" /\ Push(branch, "restore")

ToBase ==
    /\ pc = "sync" /\ branch = Default
    /\ Skip("base")

ToReview ==
    /\ pc = "sync" /\ branch # Default
    /\ Skip("review")

\* syncBaseBranch
TrackBase ==
    /\ pc = "base" /\ ~Exists(git.refs, branch)
    /\ CreateAt(branch, OriginTip(branch), "restore")

SwitchToBase ==
    /\ pc = "base" /\ Exists(git.refs, branch) /\ Exists(git.origin, branch)
    /\ SwitchWithAdoption(branch, "baseAhead")

CheckBase ==
    /\ pc = "baseAhead"
    /\ LocalTip(branch) # None /\ ~Beyond(LocalTip(branch), OriginTip(branch))
    /\ Skip("baseReset")

ResetBase == pc = "baseReset" /\ Reset(branch, "restore")

\* syncPullRequestBranch
ReviewOpen ==
    /\ pc = "review" /\ ~merged
    /\ Exists(git.origin, branch) /\ IsOpen(branch)
    /\ reviewBase' = forge[branch].open
    /\ pc' = "switch"
    /\ UNCHANGED <<quiet, dirty, merged, record, branch, chain>>

\* Faulty: the recorded review base is used without a default.
FollowRecorded(base) ==
    /\ reviewBase' = git.review[branch]
    /\ chain' = <<branch>>
    /\ pc' = "follow"
    /\ UNCHANGED <<quiet, dirty, merged, record, branch>>

Follow(base) ==
    /\ reviewBase' = base
    /\ chain' = <<branch>>
    /\ pc' = "follow"
    /\ UNCHANGED <<quiet, dirty, merged, record, branch>>

BeyondReviewBase(tip) == Beyond(tip, OriginTip(reviewBase))

\* Merged before the invocation, or found merged now and not ahead.
ReviewMerged ==
    /\ pc = "review"
    /\ \/ merged /\ reviewBase # branch /\ Follow(reviewBase)
       \/ /\ ~merged /\ ~(Exists(git.origin, branch) /\ IsOpen(branch))
          /\ \/ Exists(git.origin, branch)
             \/ /\ Exists(git.refs, branch) /\ Exists(git.origin, reviewBase)
                /\ ~BeyondReviewBase(LocalTip(branch))
          /\ MergedBase(branch) \notin {None, branch}
          /\ Follow(MergedBase(branch))

ReviewRemote ==
    /\ pc = "review" /\ ~merged
    /\ Exists(git.origin, branch) /\ ~IsOpen(branch) /\ MergedBase(branch) = None
    /\ BeyondReviewBase(OriginTip(branch)) \/ BeyondReviewBase(LocalTip(branch))
    /\ Skip("switch")

SwitchToReview == pc = "switch" /\ SwitchWithAdoption(branch, "align")

ReviewLocal ==
    /\ pc = "review" /\ ~merged
    /\ ~Exists(git.origin, branch) /\ BeyondReviewBase(LocalTip(branch))
    /\ SwitchWithAdoption(branch, "mergeBase")

ReviewNew ==
    /\ pc = "review" /\ ~merged /\ ~Known(branch)
    /\ Exists(git.origin, reviewBase)
    /\ CreateAt(branch, Tip(git, Caller), "mergeBase")

\* Local-only commits are merged with the remote; otherwise it is adopted.
Align ==
    /\ pc = "align" /\ LocalTip(branch) # None
    /\ Skip(IF Beyond(LocalTip(branch), OriginTip(branch))
            THEN "alignMerge" ELSE "alignReset")

AlignMerge == pc = "alignMerge" /\ Merge(branch, "mergeBase")

AlignReset == pc = "alignReset" /\ Reset(branch, "mergeBase")

MergeBase == pc = "mergeBase" /\ Merge(reviewBase, "publish")

Publish ==
    /\ pc = "publish"
    /\ Push(branch, IF IsOpen(branch) THEN "restore" ELSE "openReview")

\* resolveMergedPullRequestBaseTarget: follow merged bases to the first
\* branch still in use, confirm, and sync that one instead.
FollowMerged ==
    /\ pc = "follow" /\ reviewBase \notin ToSet(chain)
    /\ reviewBase # Default /\ ~IsOpen(reviewBase)
    /\ MergedBase(reviewBase) # None
    /\ chain' = Append(chain, reviewBase)
    /\ reviewBase' = MergedBase(reviewBase)
    /\ UNCHANGED <<quiet, pc, dirty, merged, record, branch>>

FollowEnds ==
    /\ pc = "follow" /\ reviewBase \notin ToSet(chain)
    /\ \/ reviewBase = Default
       \/ IsOpen(reviewBase)
       \/ MergedBase(reviewBase) = None /\ Exists(git.origin, reviewBase)
    /\ branch' = reviewBase
    /\ pc' = "base"
    /\ UNCHANGED <<quiet, dirty, reviewBase, merged, record, chain>>

----------------------------------------
\* worktreeAdoptionService: a sibling holds the branch

Siblings == Holders(git, switching.to) \ {Caller}

\* Faulty: a sibling is adopted without a snapshot.
AdoptUnprotected ==
    /\ pc = "adopt"
    /\ \E w \in Siblings :
         /\ w \notin git.unmerged
         /\ capture' = CaptureFrame(w, Listed(git, w))
    /\ pc' = "protected"
    /\ UNCHANGED <<git, target, start, ledger, claims, published, phase,
                   outcome, cmd, dropping, seen, pending, cursor, handlerVars>>

\* protectStrictSyncWorktree snapshots a sibling begin did not.
Adopt ==
    /\ pc = "adopt"
    /\ \E w \in Siblings :
         /\ w \notin git.unmerged
         /\ capture' = CaptureFrame(w, Listed(git, w))
         /\ pc' = IF w \in SnapshotTrees THEN "protected" ELSE "snapshot"
    /\ UNCHANGED <<git, target, start, ledger, claims, published, phase,
                   outcome, cmd, dropping, seen, pending, cursor, handlerVars>>

\* The sibling's edits are committed on its branch.
SaveSibling ==
    /\ pc = "save" /\ git.work[capture.tree] # {}
    /\ Issue([Command("commit", capture.tree, "leave")
                EXCEPT !.edits = git.work[capture.tree]])
    /\ UNCHANGED handlerVars

SiblingClean ==
    /\ pc = "save" /\ git.work[capture.tree] = {}
    /\ Skip("leave")

\* The main worktree is detached, a linked one removed.
ReleaseSibling ==
    /\ pc = "leave"
    /\ Issue(Command(IF capture.tree = MainWorktree THEN "detach" ELSE "remove",
                     capture.tree, "retry"))
    /\ UNCHANGED handlerVars

\* With the branch free, or no holder left, the switch is tried once more.
RetrySwitch ==
    /\ \/ pc = "retry"
       \/ pc = "adopt" /\ Siblings = {}
    /\ switching' = [switching EXCEPT !.adopted = TRUE]
    /\ Issue([Command("switch", Caller, switching.then)
                EXCEPT !.to = switching.to])
    /\ UNCHANGED <<forge, request, dirty, plans, world>>

----------------------------------------
\* Git runs the command.  A command that takes effect may still be reported
\* as failed (a hook, a signal, a cancelled context): the journal then keeps
\* the value from before it.

Landed(g) ==
    /\ git' = g
    /\ pc' \in {AfterCommand, "cleanup"}
    /\ UNCHANGED <<target, start, ledger, claims, published, phase, outcome,
                   frames, handlerVars>>

Running(kind) == pc = "command" /\ cmd.kind = kind

RunSwitch ==
    /\ Running("switch") /\ Exists(git.refs, cmd.to) /\ Free(git, cmd.tree, cmd.to)
    /\ Landed(SwitchTo(git, cmd.tree, cmd.to))

\* "already used by worktree": once, the holder is adopted.
SwitchBusy ==
    /\ Running("switch") /\ Exists(git.refs, cmd.to) /\ ~Free(git, cmd.tree, cmd.to)
    /\ ~switching.adopted
    /\ pc' = "adopt"
    /\ UNCHANGED <<quiet, dirty, plans>>

\* A branch the remote has is created to track it.
SwitchMissing ==
    /\ Running("switch") /\ ~Exists(git.refs, cmd.to)
    /\ CreateAt(cmd.to, OriginTip(cmd.to), cmd.then)

RunCreate ==
    /\ Running("create") /\ ~Exists(git.refs, cmd.to)
    /\ Landed(CreateBranch(git, cmd.tree, cmd.to, cmd.onto))

RunDetach ==
    /\ Running("detach") /\ Tip(git, cmd.tree) # None
    /\ Landed(DetachAt(git, cmd.tree, Tip(git, cmd.tree)))

RunRemove ==
    /\ Running("remove") /\ git.work[cmd.tree] = {}
    /\ Landed(RemoveTree(git, cmd.tree))

RunCommit ==
    /\ Running("commit") /\ Tip(git, cmd.tree) # None
    /\ Landed(CommitEdits(git, cmd.tree, cmd.edits))

RunReset ==
    /\ Running("reset") /\ Tip(git, cmd.tree) # None
    /\ Landed(ResetHard(git, cmd.tree, cmd.onto))

RunStash ==
    /\ Running("stash") /\ git.work[cmd.tree] # {}
    /\ Landed(PushStash(git, cmd.tree,
                 IF cmd.then = "ownInvocation" THEN "invocation" ELSE "isolation"))

RunMerge ==
    /\ Running("merge") /\ Tip(git, cmd.tree) # None
    /\ Landed(MergeCommit(git, cmd.tree, cmd.onto))

RunConclude ==
    /\ Running("conclude") /\ Tip(git, cmd.tree) # None
    /\ git' = MergeCommit(git, cmd.tree, cmd.onto)
    /\ pc' \in {"complete", "abandon"}
    /\ UNCHANGED <<target, start, ledger, claims, published, phase, outcome,
                   frames, handlerVars>>

RunApply ==
    /\ Running("apply")
    /\ \E entry \in owned : Landed(ApplyStash(git, cmd.tree, entry))

\* Both sides have commits of their own.
Conflicting ==
    LET tip == Tip(git, cmd.tree)
    IN tip # None /\ ~(tip \subseteq cmd.onto) /\ ~(cmd.onto \subseteq tip)

MergeConflicts ==
    /\ Running("merge") /\ Conflicting
    /\ git' = [git EXCEPT !.unmerged = @ \cup {cmd.tree}]
    /\ pc' = "resolve"
    /\ UNCHANGED <<target, start, ledger, claims, published, phase, outcome,
                   frames, handlerVars>>

ApplyConflicts ==
    /\ Running("apply")
    /\ \E entry \in owned :
         git' = [ApplyStash(git, cmd.tree, entry) EXCEPT !.unmerged = @ \cup {cmd.tree}]
    /\ pc' = "resolve"
    /\ UNCHANGED <<target, start, ledger, claims, published, phase, outcome,
                   frames, handlerVars>>

\* The push is reported as an update, as up to date, in a form gix does not
\* know, or not at all.
CanPush == /\ Exists(git.refs, cmd.to)
           /\ ~Beyond(OriginTip(cmd.to), LocalTip(cmd.to))

PushReported ==
    /\ Running("push") /\ CanPush
    /\ git' = PushBranch(git, cmd.to)
    /\ published' = (published \/ OriginTip(cmd.to) # LocalTip(cmd.to))
    /\ pc' = cmd.then
    /\ UNCHANGED <<target, start, ledger, claims, phase, outcome, frames,
                   handlerVars>>

PushMalformed ==
    /\ Running("push")
    /\ \/ CanPush /\ git' = PushBranch(git, cmd.to)
       \/ UNCHANGED git
    /\ published' = TRUE
    /\ pc' = "cleanup"
    /\ UNCHANGED <<target, start, ledger, claims, phase, outcome, frames,
                   handlerVars>>

PushUnreported ==
    /\ Running("push") /\ CanPush
    /\ git' = PushBranch(git, cmd.to)
    /\ silent' = TRUE
    /\ pc' = "cleanup"
    /\ UNCHANGED <<target, start, ledger, claims, published, phase, outcome,
                   frames, forge, request, dirty, plans, switching, outside>>

----------------------------------------
\* mergeConflictResolutionService, as far as the transaction sees it

\* The merge is concluded by a journaled commit; a stash keeps its index.
ResolveMerge ==
    /\ pc = "resolve" /\ cmd.kind = "merge"
    /\ Prepare([cmd EXCEPT !.kind = "conclude"], "abandon")
    /\ UNCHANGED <<git, target, start, ledger, published, phase, outcome,
                   capture, dropping, seen, pending, cursor, handlerVars>>

ResolveApply ==
    /\ pc = "resolve" /\ cmd.kind = "apply"
    /\ git' = [git EXCEPT !.unmerged = @ \ {cmd.tree}]
    /\ pc' = cmd.then
    /\ UNCHANGED <<target, start, ledger, claims, published, phase, outcome,
                   frames, handlerVars>>

ResolveFails ==
    /\ \/ pc = "resolve" /\ cmd.kind = "merge"
       \/ Running("conclude")
    /\ pc' = "abandon"
    /\ UNCHANGED <<quiet, dirty, plans>>

\* rollbackFailedMerge: git merge --abort is journaled like any other merge.
AbandonMerge ==
    /\ pc = "abandon"
    /\ pc' = "cleanup"
    /\ LET refs == MutatedReferences(cmd)
       IN IF AsExpected(journal, refs)
          THEN /\ git' \in {git, [git EXCEPT !.unmerged = @ \ {cmd.tree}]}
               /\ UNCHANGED ownershipLost
          ELSE /\ ownershipLost' = TRUE
               /\ UNCHANGED git
    /\ UNCHANGED <<target, start, ledger, journal, mutated, published, phase,
                   outcome, frames, handlerVars>>

----------------------------------------
\* Any Git, GitHub or model call of the handler may fail, and a refusal of the
\* code is a failure like any other.

Failing ==
    {"status", "plan", "climb", "openParent", "record", "stash", "route",
     "ownInvocation", "ownIsolation", "prepare", "isolate", "cluster", "sync",
     "explicit", "pushExplicit", "base", "baseAhead", "baseReset", "review",
     "switch", "align", "alignMerge", "alignReset", "mergeBase", "publish",
     "openReview", "follow", "adopt", "save", "leave", "retry", "restore",
     "isolation", "command", "complete", "resolve"}

HandlerFails ==
    /\ pc \in Failing /\ phase = "forward"
    /\ pc = "resolve" => cmd.kind = "apply"
    /\ pc = "command" => cmd.kind # "conclude"
    /\ pc' = "cleanup"
    /\ UNCHANGED <<quiet, dirty, plans>>

----------------------------------------
\* Other writers, each at most once.

\* gix's own read-then-write brackets; the worktree listing of preflight is
\* read long before the captures that rely on it.
InBracket(act) ==
    \/ pc \in {"command", "complete", "snapshotRef", "ownInvocation",
               "ownIsolation", "drop", "cleanup"}
    \/ Restoring
    \/ act = "switch" /\ (phase = "begin" \/ pc \in {"snapshot", "snapshotApply"})

May(act) ==
    act \in Outsiders \ outside /\ pc # "done" /\ (Racing \/ ~InBracket(act))

Meanwhile(act, g) ==
    /\ May(act)
    /\ git' = g
    /\ outside' = outside \cup {act}
    /\ UNCHANGED <<target, start, ledger, claims, published, phase, pc,
                   outcome, frames, forge, request, dirty, plans, switching,
                   silent>>

OutsideCommit ==
    \E w \in git.trees \ git.unmerged :
        /\ git.head[w] # None /\ Tip(git, w) # None
        /\ Meanwhile(IF w = Caller THEN "callerCommit" ELSE "commit",
                     MoveTip(git, w, Tip(git, w) \cup {OutsideToken}))

OutsideStash ==
    \E w \in git.trees :
        Meanwhile("stash",
            [git EXCEPT !.stashes =
                <<[tree |-> w, edits |-> {OutsideToken}, use |-> "operator"]>> \o @])

\* While the model writes a commit message, somebody edits and stages.
OutsideIndex ==
    /\ pc = "generate"
    /\ Meanwhile("index", [git EXCEPT !.work[Caller] = @ \cup {OutsideToken}])

OutsideSwitch ==
    \E w \in git.trees \ {Caller}, b \in Branches :
        /\ w \notin git.unmerged
        /\ Exists(git.refs, b) /\ Holders(git, b) = {}
        /\ Meanwhile("switch", SwitchTo(git, w, b))

----------------------------------------

Planning ==
    \/ ReadStatus \/ PlanDefault \/ PlanUnstacked \/ PlanMerged \/ PlanStored
    \/ PlanChild \/ EnterParents \/ ClimbToDefault \/ ClimbToOpen
    \/ ClimbFurther \/ UnwindParent \/ ParentsReady \/ RecordReviewBase
    \/ OpenParent

Saving ==
    \/ StashInvocation \/ StashSkipped \/ OwnStash \/ Route \/ Isolate
    \/ PrepareExisting \/ PrepareNew \/ PrepareFails \/ RestoreOwned
    \/ NothingOwned \/ DropOwned \/ StageCluster \/ CommitCluster \/ LoseIndex
    \/ GenerateFails \/ ClustersSaved

Syncing ==
    \/ MergeExplicit \/ PushExplicit \/ ToBase \/ ToReview \/ TrackBase
    \/ SwitchToBase \/ CheckBase \/ ResetBase \/ ReviewOpen \/ ReviewMerged
    \/ ReviewRemote \/ SwitchToReview \/ ReviewLocal \/ ReviewNew \/ Align
    \/ AlignMerge \/ AlignReset \/ MergeBase \/ Publish \/ OpenReview
    \/ FollowMerged \/ FollowEnds

Adopting ==
    Adopt \/ SaveSibling \/ SiblingClean \/ ReleaseSibling \/ RetrySwitch

RunCommand ==
    \/ RunSwitch \/ SwitchBusy \/ SwitchMissing \/ RunCreate \/ RunDetach
    \/ RunRemove \/ RunCommit \/ RunReset \/ RunStash \/ RunMerge \/ RunConclude
    \/ RunApply \/ MergeConflicts \/ ApplyConflicts \/ PushReported
    \/ PushMalformed \/ PushUnreported

Resolving == ResolveMerge \/ ResolveApply \/ ResolveFails \/ AbandonMerge

TransactionStep == Transaction /\ UNCHANGED handlerVars

Gix ==
    \/ Planning \/ Saving \/ Syncing \/ Adopting \/ RunCommand \/ Resolving
    \/ HandlerFails \/ TransactionStep

Outside == OutsideCommit \/ OutsideStash \/ OutsideIndex \/ OutsideSwitch

Ended == pc = "done" /\ UNCHANGED vars

Next == Gix \/ Outside \/ Ended

\* gix is one sequential process that always takes its next step.
Spec == Init /\ [][Next]_vars /\ WF_vars(Gix)

----------------------------------------
\* Type invariant

FrameType ==
    /\ cmd \in {None} \cup Commands
    /\ capture \in {None} \cup Captures
    /\ dropping \in {None} \cup Drops
    /\ seen \in {None} \cup Listings
    /\ pending \subseteq Branches
    /\ cursor \in Nat

TransactionType ==
    /\ git \in RepositoryType
    /\ start \in RepositoryType
    /\ target \in Branches
    /\ snapshots \in Seq(Snapshots)
    /\ adopted \in Seq(Adoptions)
    /\ owned \subseteq Entries
    /\ journal \in [Branches -> {None} \cup Mutations]
    /\ mutated \subseteq Worktrees
    /\ published \in BOOLEAN /\ ownershipLost \in BOOLEAN
    /\ phase \in Phases /\ outcome \in Outcomes
    /\ FrameType

HandlerType ==
    /\ forge \in ForgeType
    /\ request \in RequestType
    /\ dirty \in BOOLEAN /\ merged \in BOOLEAN /\ record \in BOOLEAN
    /\ reviewBase \in Branches /\ branch \in Branches
    /\ chain \in Seq(Branches)
    /\ switching \in {None} \cup Switches
    /\ outside \subseteq OutsideActs
    /\ silent \in BOOLEAN

\* Every variable has the type its comment promises.
TypeOK == TransactionType /\ HandlerType

----------------------------------------
\* Safety

\* Rollback can only restore what begin or an adoption recorded: no worktree
\* is claimed by a mutating command before its snapshot exists.
MutationsAreCovered == mutated \subseteq SnapshotTrees

\* A ref that gix moved is in the journal, so that a rollback will move it
\* back; a ref that is not there is where it was, unless somebody else
\* committed.
MovesAreJournaled ==
    \A b \in Branches \ Journaled :
        outside \cap OutsideCommits = {} => git.refs[b] = start.refs[b]

HeldBackups ==
    UNION {snapshots[i].backup.edits :
              i \in {j \in DOMAIN snapshots : snapshots[j].backup # None}}

\* Whatever goes wrong, each change the operator had in a worktree, on a
\* branch or in a stash can still be found somewhere in the repository.  Only
\* a rollback that has not succeeded may hold an edit in nothing but the
\* object of a backup that had already been dropped from the stash list.
NoWorkLost ==
    Recoverable(start) \subseteq
        Recoverable(git) \cup
        (IF phase = "rollback" /\ outcome # "rolledBack" THEN HeldBackups ELSE {})

\* SYNC_SWITCH_HANDOFF promises recovery objects: every change of the operator
\* is in the repository for a manual recovery.
HandoffKeepsWork ==
    outcome = "handoff" => Recoverable(start) \subseteq Recoverable(git)

\* After a publication a failure "preserves the published recovery state and
\* reports a handoff" (command.go:31): no edit of the operator is gone.
PublishedHandoffKeepsWork == published => HandoffKeepsWork

\* A commit, an edit or a stash another writer made while gix ran survives.
OutsideWorkSurvives ==
    outside \ {"switch"} # {}
        => OutsideToken \in Recoverable(git)

AsStarted(b) ==
    \/ git.refs[b] = start.refs[b]
    \/ /\ outside \cap OutsideCommits # {} /\ start.refs[b] # None
       /\ git.refs[b] = start.refs[b] \cup {OutsideToken}

\* A capture that failed after its stash was pushed registers nothing: the
\* entry is in the list, and no snapshot knows it.
Unclaimed(w) ==
    /\ w \notin SnapshotTrees
    /\ \E i \in DOMAIN git.stashes :
         git.stashes[i] = [tree |-> w, edits |-> start.work[w], use |-> "snapshot"]

\* SYNC_SWITCH_ROLLBACK: branches, checkouts, worktrees and edits are what
\* they were, and none of the transaction's backups is left in the list.
\* Only a worktree whose capture was lost may miss its edits.
RollbackRestores ==
    outcome = "rolledBack" =>
        /\ \A b \in Branches : AsStarted(b)
        /\ git.trees = start.trees
        /\ \A w \in git.trees : git.work[w] = start.work[w] \/ Unclaimed(w)
        /\ git.unmerged = {}
        /\ "switch" \notin outside => git.head = start.head
        /\ \A i \in DOMAIN snapshots :
              snapshots[i].backup # None
                => StashIndexes(git, snapshots[i].backup) = {}

\* What the documentation says of a rollback: the exact files are restored.
\* (README.md:75; not so when a capture is lost, strict_sync_stash.go:49.)
RollbackRestoresFiles == outcome = "rolledBack" => git.work = start.work

\* A rollback is only reported for an invocation that left no trace on the
\* remote, unless a remote write was never reported to gix.
RollbackMeansUnpublished ==
    outcome = "rolledBack" /\ ~silent => git.origin = start.origin

\* SYNCED: no recovery state is left over, the checkout is on the branch that
\* was reported, that branch equals its remote and contains its review base.
SyncedIsSettled ==
    outcome = "synced" =>
        /\ owned = {} /\ Undropped = {} /\ git.unmerged = {}
        /\ \A i \in DOMAIN git.stashes : git.stashes[i].use = "operator"
        /\ git.head[Caller] = branch
        /\ outside = {} =>
             /\ git.refs[branch] = git.origin[branch]
             /\ git.origin[reviewBase] \subseteq git.refs[branch]

\* SYNCED: the caller's uncommitted work is back in its worktree after
\* --stash, and on the synced branch otherwise.
SyncedKeepsWork ==
    outcome = "synced" =>
        IF Stash THEN git.work[Caller] = start.work[Caller]
        ELSE start.work[Caller] \subseteq git.refs[branch]

\* What the handler reports is what has become of the repository: a rollback has
\* taken back what gix did, all of it and only that, and nothing was published; a
\* sync is settled and has the operator's work.
OutcomeIsHonest ==
    /\ MovesAreJournaled /\ RollbackRestores /\ RollbackMeansUnpublished
    /\ SyncedIsSettled /\ SyncedKeepsWork

\* With other writers about: their work survives, the operator's does, and a
\* rollback restores what was there.
NothingOutsideIsLost == NoWorkLost /\ OutsideWorkSurvives /\ RollbackRestores

----------------------------------------
\* Action properties

OutsideStep == outside' # outside

\* After a publication the failing handler takes nothing back: refs,
\* checkouts and edits stay as they are.
PublishedWorkStands ==
    [][published /\ phase # "forward" /\ ~OutsideStep =>
         /\ git'.refs = git.refs /\ git'.head = git.head
         /\ git'.work = git.work /\ git'.trees = git.trees]_vars

\* Once another writer is known to own a ref or the index, gix leaves the
\* repository, snapshots included, alone.
OwnershipLossFreezes ==
    [][ownershipLost /\ ~published /\ ~OutsideStep => git' = git]_vars

----------------------------------------
\* The contract about recovery objects

\* The work is over once finalize runs, or a drop that belongs to it.
Finalizing ==
    \/ pc = "finalize"
    \/ pc \in {"list", "drop"} /\ dropping.slot # 0

Stage ==
    IF pc = "done" THEN "closed"
    ELSE IF pc = "cleanup" THEN "failing"
    ELSE IF Restoring THEN "undoing"
    ELSE IF phase = "settle" \/ Finalizing THEN "settling"
    ELSE "open"

Contract ==
    INSTANCE SyncContract WITH
        Objects <- Entries, stage <- Stage, verdict <- outcome,
        lost <- ownershipLost, backups <- Undropped

\* The handler and its transaction keep the contract: backups are taken while
\* work is done, let go only after it and after every owned stash, success and
\* rollback are only reported when nothing is held, and work that was
\* published or is claimed by another writer is never undone.
KeepsContract == Contract!Spec

----------------------------------------
\* Liveness

\* Every invocation comes to an end, whatever fails on the way.
EveryRunEnds == <>(pc = "done")

\* A run that fails after its transaction began is reported as rolled back or
\* handed off: it never just stops.
FailuresAreReported ==
    [](pc = "cleanup" => <>(outcome \in {"rolledBack", "handoff"}))

\* Every invocation ends, and one that fails tells how it has ended.
EveryRunTells == EveryRunEnds /\ FailuresAreReported

========================================
