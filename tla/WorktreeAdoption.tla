--------------------------- MODULE WorktreeAdoption ---------------------------
(***************************************************************************)
(* worktreeAdoptionService.Change: a switch to a branch another worktree   *)
(* has checked out.  That sibling is committed, published when asked for,  *)
(* and released, a main worktree by detaching it and a linked one by       *)
(* removing it; then the switch is tried again.  Nothing is taken back.    *)
(* In a strict sync the same code runs under StrictSync's transaction.     *)
(***************************************************************************)
EXTENDS FiniteSets

CONSTANTS
    AdoptFiles,         \* what may be committed: one commit each
    AdoptSaved,         \* what the operator saves in the sibling meanwhile
    AdoptTheirs,        \* what a colleague pushes meanwhile
    AdoptInvocations

\* The sibling: where it is, whether it has the branch, its uncommitted files and
\* whether git would list it as locked or prunable.
AdoptSiblings ==
    [kind: {"none", "linked", "main"}, on: BOOLEAN, work: SUBSET AdoptFiles,
     staged: SUBSET AdoptFiles, locked: BOOLEAN, prunable: BOOLEAN]

\* The branch here, as last fetched and on the remote, {} when there is none; and
\* what is committed on another branch meanwhile.
AdoptBranches ==
    [local: SUBSET AdoptFiles, known: SUBSET AdoptFiles, server: SUBSET AdoptFiles,
     upstream: BOOLEAN, other: SUBSET AdoptFiles]

ASSUME AdoptAssumption ==
    /\ {AdoptSaved, AdoptTheirs} \subseteq AdoptFiles
    /\ AdoptInvocations \subseteq
         [sibling: AdoptSiblings, branch: AdoptBranches, publish: BOOLEAN]
    \* a branch that a worktree has checked out is one
    /\ \A asked \in AdoptInvocations :
          asked.sibling.on => asked.sibling.kind # "none" /\ asked.branch.local # {}

VARIABLES
    adoptAsked,
    adoptAt,
    adoptSibling, adoptBranch,
    adoptCaller,     \* the caller's worktree has the branch
    adoptAgain,      \* the sibling was dealt with: the second options.Change
    adoptStatus,     \* worktreeStatus
    adoptOutside     \* what others have done

adoptRepository == <<adoptSibling, adoptBranch, adoptCaller>>
adoptFrame == <<adoptAsked, adoptAgain, adoptStatus, adoptOutside>>
adoptVars == <<adoptAt, adoptRepository, adoptFrame>>

AdoptInit ==
    /\ adoptAsked \in AdoptInvocations
    /\ adoptAt = "change"
    /\ adoptSibling = adoptAsked.sibling /\ adoptBranch = adoptAsked.branch
    /\ adoptCaller = FALSE /\ adoptAgain = FALSE
    /\ adoptStatus = [dirty |-> FALSE, ahead |-> FALSE] /\ adoptOutside = {}

AdoptGo(at) == adoptAt' = at /\ UNCHANGED <<adoptRepository, adoptFrame>>

\* Whatever fails ends the command where it is.
AdoptFails ==
    /\ adoptAt \notin {"done", "refused"}
    /\ AdoptGo("refused")

AdoptHeld == adoptSibling.kind # "none" /\ adoptSibling.on

\* options.Change: git refuses a branch that is used by another worktree, until
\* its registration is gone.
AdoptChange ==
    /\ adoptAt = "change" /\ ~AdoptHeld
    /\ adoptCaller' = TRUE /\ adoptAt' = "done"
    /\ UNCHANGED <<adoptSibling, adoptBranch, adoptFrame>>

\* isBranchAlreadyUsedByWorktreeError, of the first attempt only
AdoptChangeRefused ==
    /\ adoptAt = "change" /\ AdoptHeld
    /\ AdoptGo(IF adoptAgain THEN "refused" ELSE "list")

\* adoptExistingBranchWorktree: nobody may have the branch any more.
AdoptList ==
    /\ adoptAt = "list"
    /\ AdoptGo(IF ~AdoptHeld THEN "again"
               ELSE IF adoptSibling.locked THEN "refused"
               ELSE IF adoptSibling.prunable THEN "pruneStale" ELSE "status")

\* inspectSiblingWorktreeStatus: ahead is relative to the upstream, if any.
AdoptReadStatus ==
    /\ adoptAt = "status"
    /\ adoptStatus' = [dirty |-> adoptSibling.work # {},
                       ahead |-> adoptBranch.upstream
                                   /\ ~(adoptBranch.local \subseteq adoptBranch.known)]
    /\ adoptAt' = IF adoptSibling.work # {} THEN "stage"
                  ELSE IF adoptAsked.publish THEN "compare" ELSE "release"
    /\ UNCHANGED <<adoptRepository, adoptAsked, adoptAgain, adoptOutside>>

\* generateSiblingCommitMessage: git add --all, then the model
AdoptStage ==
    /\ adoptAt = "stage"
    /\ adoptSibling' = [adoptSibling EXCEPT !.staged = adoptSibling.work]
    /\ adoptAt' = "commit"
    /\ UNCHANGED <<adoptBranch, adoptCaller, adoptFrame>>

\* What a commit in the sibling changes
AdoptCommitted(files) ==
    IF adoptSibling.on THEN [adoptBranch EXCEPT !.local = @ \cup files]
    ELSE [adoptBranch EXCEPT !.other = @ \cup files]

AdoptCommit ==
    /\ adoptAt = "commit" /\ adoptSibling.staged # {}
    /\ adoptBranch' = AdoptCommitted(adoptSibling.staged)
    /\ adoptSibling' = [adoptSibling EXCEPT !.work = @ \ adoptSibling.staged, !.staged = {}]
    /\ adoptAt' = IF adoptAsked.publish THEN "push" ELSE "release"
    /\ UNCHANGED <<adoptCaller, adoptFrame>>

\* Faulty: a branch without an upstream is never ahead of it.
AdoptNeedsPushWhenAhead == adoptStatus.ahead

\* cleanSiblingBranchNeedsPush: ahead of its upstream, or not on the remote as
\* last fetched
AdoptNeedsPush ==
    \/ adoptStatus.ahead
    \/ adoptBranch.known = {}
    \/ ~(adoptBranch.local \subseteq adoptBranch.known)

AdoptCompare == adoptAt = "compare" /\ AdoptGo(IF AdoptNeedsPush THEN "push" ELSE "release")

\* git push --set-upstream: fast-forward only; its failure may be reported late.
AdoptPush ==
    /\ adoptAt = "push" /\ adoptBranch.server \subseteq adoptBranch.local
    /\ \E told \in BOOLEAN :
        /\ adoptBranch' = [adoptBranch EXCEPT !.server = adoptBranch.local,
                              !.known = IF told THEN adoptBranch.local ELSE @,
                              !.upstream = @ \/ told]
        /\ adoptAt' = IF told THEN "release" ELSE "refused"
    /\ UNCHANGED <<adoptSibling, adoptCaller, adoptFrame>>

\* isMainWorktreePath, git switch --detach: what was saved meanwhile stays there.
AdoptDetach ==
    /\ adoptAt = "release" /\ adoptSibling.kind # "linked"
    /\ adoptSibling' = [adoptSibling EXCEPT !.on = FALSE]
    /\ adoptAt' = "again" /\ UNCHANGED <<adoptBranch, adoptCaller, adoptFrame>>

\* prepareSiblingWorktreeForRemoval, git worktree remove: refused when there is
\* uncommitted work.
AdoptRemove ==
    /\ adoptAt = "release" /\ adoptSibling.kind = "linked" /\ adoptSibling.work = {}
    /\ adoptSibling' = [adoptSibling EXCEPT !.kind = "none", !.on = FALSE]
    /\ adoptAt' = "prune" /\ UNCHANGED <<adoptBranch, adoptCaller, adoptFrame>>

\* git worktree prune after a removal; the registration is gone already.
AdoptPrune == adoptAt = "prune" /\ AdoptGo("again")

\* git worktree prune of a worktree that is not there
AdoptPruneStale ==
    /\ adoptAt = "pruneStale"
    /\ adoptSibling' = IF adoptSibling.prunable
                       THEN [adoptSibling EXCEPT !.kind = "none", !.on = FALSE] ELSE adoptSibling
    /\ adoptAt' = "again" /\ UNCHANGED <<adoptBranch, adoptCaller, adoptFrame>>

\* RefetchRemoteAfterAdoption, of the callers that do not publish first; then
\* options.Change once more
AdoptAgain ==
    /\ adoptAt = "again"
    /\ adoptBranch' = IF adoptAsked.publish THEN adoptBranch
                      ELSE [adoptBranch EXCEPT !.known = adoptBranch.server]
    /\ adoptAgain' = TRUE /\ adoptAt' = "change"
    /\ UNCHANGED <<adoptSibling, adoptCaller, adoptAsked, adoptStatus, adoptOutside>>

----------------------------------------
\* Others, once each, while the command runs

AdoptMeanwhile(what) ==
    /\ adoptAt \notin {"done", "refused"} /\ what \notin adoptOutside
    /\ adoptOutside' = adoptOutside \cup {what}
    /\ UNCHANGED <<adoptAt, adoptCaller, adoptAsked, adoptAgain, adoptStatus>>

AdoptOperatorSaves ==
    /\ adoptSibling.kind # "none" /\ ~adoptSibling.prunable
    /\ adoptSibling' = [adoptSibling EXCEPT !.work = @ \cup {AdoptSaved}]
    /\ AdoptMeanwhile("saves") /\ UNCHANGED adoptBranch

\* The operator puts the worktree on another branch.
AdoptOperatorSwitches ==
    /\ AdoptHeld /\ ~adoptSibling.prunable
    /\ adoptSibling' = [adoptSibling EXCEPT !.on = FALSE]
    /\ AdoptMeanwhile("switches") /\ UNCHANGED adoptBranch

\* The operator commits everything there.
AdoptOperatorCommits ==
    /\ adoptSibling.kind # "none" /\ ~adoptSibling.prunable /\ adoptSibling.work # {}
    /\ adoptBranch' = AdoptCommitted(adoptSibling.work)
    /\ adoptSibling' = [adoptSibling EXCEPT !.work = {}, !.staged = {}]
    /\ AdoptMeanwhile("commits")

AdoptColleaguePushes ==
    /\ adoptBranch' = [adoptBranch EXCEPT !.server = @ \cup {AdoptTheirs}]
    /\ AdoptMeanwhile("pushes") /\ UNCHANGED adoptSibling

\* The steps of gix itself
AdoptRuns ==
    \/ AdoptFails \/ AdoptChange \/ AdoptChangeRefused \/ AdoptList \/ AdoptReadStatus
    \/ AdoptStage \/ AdoptCommit \/ AdoptCompare \/ AdoptPush \/ AdoptDetach \/ AdoptRemove
    \/ AdoptPrune \/ AdoptPruneStale \/ AdoptAgain

AdoptNext ==
    \/ AdoptRuns \/ AdoptOperatorSaves \/ AdoptOperatorSwitches
    \/ AdoptOperatorCommits \/ AdoptColleaguePushes

AdoptSpec == AdoptInit /\ [][AdoptNext]_adoptVars

----------------------------------------
AdoptTypeOK ==
    /\ adoptAt \in {"change", "list", "status", "stage", "commit", "compare", "push", "release",
                    "prune", "pruneStale", "again", "done", "refused"}
    /\ adoptSibling \in AdoptSiblings
    /\ adoptBranch \in AdoptBranches
    /\ adoptStatus \in [dirty: BOOLEAN, ahead: BOOLEAN]
    /\ {adoptCaller, adoptAgain} \subseteq BOOLEAN
    /\ adoptOutside \subseteq {"saves", "switches", "commits", "pushes"}

\* What the sibling had, and what was saved there meanwhile, is there still or
\* committed, wherever the command stops.
AdoptionLosesNothing ==
    adoptAt \in {"done", "refused"} =>
        /\ adoptAsked.branch.local \subseteq adoptBranch.local
        /\ adoptAsked.sibling.work
              \cup (IF "saves" \in adoptOutside THEN {AdoptSaved} ELSE {})
             \subseteq adoptBranch.local \cup adoptBranch.other \cup adoptSibling.work

\* When the switch publishes first, a sibling is not released before the remote has
\* its work, as far as anybody can know who has fetched when gix did; what the
\* operator commits in between is not gix's, nor a sibling that was switched.
ReleasedMeansPublished ==
    adoptAt \in {"done", "refused"} /\ adoptAsked.publish /\ ~adoptAsked.sibling.prunable
      /\ adoptAsked.sibling.on /\ adoptOutside \cap {"commits", "switches"} = {} =>
        \/ AdoptHeld
        \/ adoptBranch.known # {} /\ adoptBranch.local \subseteq adoptBranch.known

\* A locked worktree is left alone, and a branch is never in two worktrees.
LockedSiblingsStay ==
    adoptAt \in {"done", "refused"} =>
        /\ adoptAsked.sibling.locked =>
              /\ adoptSibling.kind = adoptAsked.sibling.kind
              /\ adoptSibling.on <=> adoptAsked.sibling.on /\ "switches" \notin adoptOutside
        /\ ~(adoptCaller /\ AdoptHeld)

\* worktreeAdoptionService.Change, although nothing it does is taken back
AdoptionKeepsWork == AdoptionLosesNothing /\ ReleasedMeansPublished /\ LockedSiblingsStay
========================================
