---------------------------- MODULE BranchSwitch ----------------------------
(***************************************************************************)
(* The branch.sync steps of a workflow that do not ask for a pull request, *)
(* in a repository with one worktree (for more see WorktreeAdoption):      *)
(* handleBranchSyncAction with its stash, capture and restore,             *)
(* Service.Change (syncflow/service.go) and Service.Refresh                *)
(* (refresh/service.go).  A branch is the set of its commits.  A git       *)
(* command may fail; the remote and the operator may act in between.       *)
(***************************************************************************)
EXTENDS Naturals, Sequences, FiniteSets, FiniteSetsExt

CONSTANTS
    SwitchBranches, SwitchRemotes,
    SwitchDefaultRemote,   \* defaultRemoteNameConstant
    SwitchNobody,          \* no branch, no remote
    SwitchCommits,         \* what branches are made of
    SwitchFiles,           \* changes a working tree may hold
    SwitchInvocations      \* [steps, repository, seed]: what is run, where, and
                           \* the operator's own value of the captured variable

SwitchAbsent == {}   \* the content of a branch that does not exist

SwitchStepType ==
    [kind: {"sync", "restore", "refresh", "everywhere"},
     branch: SwitchBranches, remote: SwitchRemotes \cup {SwitchNobody},
     create: BOOLEAN, refresh: BOOLEAN, stash: BOOLEAN, commit: BOOLEAN,
     clean: BOOLEAN, capture: {"none", "branch", "commit"}, overwrite: BOOLEAN]

\* A captured value, or none
SwitchValueType ==
    [kind: {"none", "branch", "commit"}, branch: SwitchBranches \cup {SwitchNobody},
     at: SUBSET SwitchCommits]

SwitchNoValue == [kind |-> "none", branch |-> SwitchNobody, at |-> {}]

SwitchTreeType == [tracked: SUBSET SwitchFiles, untracked: SUBSET SwitchFiles]

SwitchRepositoryType ==
    [remotes: SUBSET SwitchRemotes,
     head: [branch: SwitchBranches \cup {SwitchNobody}, at: SUBSET SwitchCommits],
     local: [SwitchBranches -> SUBSET SwitchCommits],
     upstream: [SwitchBranches -> SwitchRemotes \cup {SwitchNobody}],
     known: [SwitchRemotes -> [SwitchBranches -> SUBSET SwitchCommits]],
     server: [SwitchRemotes -> [SwitchBranches -> SUBSET SwitchCommits]],
     tree: SwitchTreeType, stash: Seq(SwitchTreeType)]

\* HEAD is at a commit.
SwitchHasHead(repository) ==
    IF repository.head.branch = SwitchNobody THEN repository.head.at # {}
    ELSE repository.local[repository.head.branch] # {}

SwitchFollows(repository) ==
    \A branch \in SwitchBranches : repository.upstream[branch] # SwitchNobody =>
        repository.upstream[branch] \in repository.remotes /\ repository.local[branch] # {}

ASSUME SwitchAssumption ==
    /\ SwitchDefaultRemote \in SwitchRemotes
    /\ SwitchNobody \notin SwitchBranches \cup SwitchRemotes
    /\ SwitchFiles \subseteq SwitchCommits   \* a file may be committed
    /\ SwitchInvocations \subseteq
         [steps: Seq(SwitchStepType), repository: SwitchRepositoryType, seed: SwitchValueType]
    \* HEAD and what the operator's value names are there, a branch follows a remote
    \* that is, and what is not there follows none
    /\ \A asked \in SwitchInvocations :
         /\ SwitchHasHead(asked.repository) /\ SwitchFollows(asked.repository)
         /\ asked.seed.kind = "branch" => asked.seed.branch # SwitchNobody
         /\ asked.seed.kind = "commit" => asked.seed.at # {}
    \* validateBranchCaptureBindings: a name is captured in one kind
    /\ \A asked \in SwitchInvocations : \E kind \in {"branch", "commit"} :
         /\ asked.seed.kind \in {"none", kind}
         /\ \A i \in DOMAIN asked.steps : asked.steps[i].capture \in {"none", kind}

VARIABLES
    switchSteps,     \* the workflow's steps
    switchIndex,     \* the one that runs
    switchAt,        \* where its handler is
    switchRun,       \* the handler's variables
    switchBegan,     \* the repository when the step began
    switchRepository,
    switchOutside,   \* what others have done meanwhile
    switchSeed,      \* the operator's value, "none" when there is none
    switchVariable,  \* environment.Variables of the repository's clone
    switchCaptured   \* sharedState.capturedValues

switchSettled == <<switchSteps, switchSeed>>
switchEnvironment == <<switchVariable, switchCaptured>>
switchVars == <<switchSettled, switchIndex, switchAt, switchRun, switchBegan,
                switchRepository, switchOutside, switchEnvironment>>

----------------------------------------

SwitchPCs ==
    {"begin", "status", "stash", "capture", "remotes", "fetch", "switch", "create",
     "pull", "tracking", "clean", "recheck", "fetchAgain", "checkoutAgain", "pullAgain", "pop", "end",
     "checkout", "done"}

SwitchFresh ==
    [branch |-> SwitchNobody, remote |-> SwitchNobody, refresh |-> FALSE,
     pushed |-> 0, all |-> FALSE, requested |-> FALSE, pull |-> FALSE,
     created |-> FALSE, warned |-> FALSE, error |-> FALSE, undefined |-> FALSE,
     unpopped |-> FALSE]

SwitchInit ==
    /\ \E asked \in SwitchInvocations :
         /\ switchSteps = asked.steps /\ switchSeed = asked.seed
         /\ switchRepository = asked.repository
    /\ switchIndex = 1 /\ switchAt = "begin" /\ switchRun = SwitchFresh
    /\ switchBegan = switchRepository /\ switchOutside = {}
    /\ switchVariable = switchSeed /\ switchCaptured = SwitchNoValue

switchStep == switchSteps[switchIndex]

SwitchHeadCommit ==
    IF switchRepository.head.branch = SwitchNobody THEN switchRepository.head.at
    ELSE switchRepository.local[switchRepository.head.branch]

SwitchBranchHead(branch) == [branch |-> branch, at |-> {}]

\* An error on the way: the deferred restoration runs, then the step returns it.
SwitchFails ==
    /\ switchAt' = "pop" /\ switchRun' = [switchRun EXCEPT !.error = TRUE]
    /\ UNCHANGED <<switchRepository, switchEnvironment>>

\* A step of the handler that neither starts nor ends a workflow step.
SwitchWithin == UNCHANGED <<switchSettled, switchIndex, switchBegan, switchOutside>>

----------------------------------------
\* The workflow's steps in this repository

\* Captures and restores exclude each other; so do stash and commit.
SwitchBegin ==
    /\ switchAt = "begin" /\ switchIndex <= Len(switchSteps)
    /\ switchBegan' = switchRepository
    /\ LET step == switchStep
           value == switchVariable
       IN \/ /\ step.kind = "everywhere"
             /\ switchAt' = "end" /\ switchRun' = SwitchFresh
          \/ /\ step.kind = "restore" /\ value.kind = "none"
             /\ switchAt' = "pop"
             /\ switchRun' = [SwitchFresh EXCEPT !.error = TRUE, !.undefined = TRUE]
          \/ /\ step.kind = "restore" /\ value.kind = "branch"
             /\ switchAt' = "remotes"
             /\ switchRun' = [SwitchFresh EXCEPT !.branch = value.branch]
          \/ /\ step.kind = "restore" /\ value.kind = "commit"
             /\ switchAt' = "checkout" /\ switchRun' = SwitchFresh
          \/ /\ step.kind = "refresh"
             /\ switchAt' = "clean"
             /\ switchRun' = [SwitchFresh EXCEPT !.branch = step.branch, !.refresh = TRUE]
          \/ /\ step.kind = "sync" /\ step.stash /\ step.commit
             /\ switchAt' = "pop" /\ switchRun' = [SwitchFresh EXCEPT !.error = TRUE]
          \/ /\ step.kind = "sync" /\ ~(step.stash /\ step.commit)
             /\ switchAt' = "status"
             /\ switchRun' = [SwitchFresh EXCEPT
                  !.branch = step.branch,
                  !.refresh = step.refresh \/ step.stash \/ step.commit]
    /\ UNCHANGED <<switchSettled, switchIndex, switchRepository, switchOutside,
                   switchEnvironment>>

\* A failed step ends the batch for this repository: the next steps that run
\* are those behind a step for all repositories.
SwitchAfter(failed) ==
    LET later == {i \in switchIndex + 1 .. Len(switchSteps) :
                    ~failed \/ switchSteps[i].kind = "everywhere"}
    IN IF later = {} THEN Len(switchSteps) + 1 ELSE Min(later)

\* Every batch clones the variables of the base environment, in which nothing
\* is ever captured.
SwitchEndStep ==
    /\ switchAt = "end"
    /\ switchIndex' = SwitchAfter(switchRun.error)
    /\ switchAt' = IF switchIndex' > Len(switchSteps) THEN "done" ELSE "begin"
    /\ switchVariable' =
         IF \E i \in switchIndex .. switchIndex' - 1 : switchSteps[i].kind = "everywhere"
         THEN switchSeed ELSE switchVariable
    /\ UNCHANGED <<switchSettled, switchRun, switchBegan, switchRepository,
                   switchOutside, switchCaptured>>

----------------------------------------
\* handleBranchSyncAction, before the change

\* A refresh is skipped when a clean worktree is required and nothing would
\* make it clean.
SwitchReadStatus ==
    /\ switchAt = "status"
    /\ \/ SwitchFails
       \/ LET dirty == switchRepository.tree.tracked # {}
              recovers == switchStep.stash \/ switchStep.commit
          IN /\ switchRun' = [switchRun EXCEPT
                  !.refresh = @ /\ ~(switchStep.clean /\ ~recovers /\ dirty),
                  !.warned = switchRun.refresh /\ switchStep.clean /\ ~recovers /\ dirty]
             /\ switchAt' = IF switchStep.stash /\ dirty THEN "stash" ELSE "capture"
             /\ UNCHANGED <<switchRepository, switchEnvironment>>
    /\ SwitchWithin

\* git stash push: what is tracked; with nothing to save it succeeds all the same.
SwitchStashed(repository, untracked) ==
    LET saved == [tracked |-> repository.tree.tracked,
                  untracked |-> IF untracked THEN repository.tree.untracked ELSE {}]
    IN IF saved = [tracked |-> {}, untracked |-> {}] THEN repository
       ELSE [repository EXCEPT
               !.stash = <<saved>> \o @,
               !.tree = [tracked |-> {},
                         untracked |-> repository.tree.untracked \ saved.untracked]]

SwitchPushStash ==
    /\ switchAt = "stash"
    /\ \/ SwitchFails
       \/ /\ switchRepository' = SwitchStashed(switchRepository, FALSE)
          /\ switchRun' = [switchRun EXCEPT !.pushed = 1]
          /\ switchAt' = "capture"
          /\ UNCHANGED switchEnvironment
    /\ SwitchWithin

\* StoreCaptureValue: the first value stays unless it may be overwritten; a
\* variable the operator has set is never replaced.
SwitchStore(value) ==
    IF switchCaptured.kind # "none" /\ ~switchStep.overwrite
    THEN UNCHANGED switchEnvironment
    ELSE /\ switchCaptured' = value
         /\ switchVariable' = IF switchSeed.kind = "none" THEN value ELSE switchVariable

SwitchCapture ==
    /\ switchAt = "capture"
    /\ LET head == switchRepository.head.branch
           wanted == switchStep.capture
       IN \/ wanted # "none" /\ SwitchFails
          \/ /\ wanted # "branch" \/ head # SwitchNobody
             /\ IF wanted = "none" THEN UNCHANGED switchEnvironment
                ELSE SwitchStore(
                       [kind |-> wanted,
                        branch |-> IF wanted = "branch" THEN head ELSE SwitchNobody,
                        at |-> IF wanted = "branch" THEN {} ELSE SwitchHeadCommit])
             /\ switchAt' = "remotes"
             /\ UNCHANGED <<switchRun, switchRepository>>
    /\ SwitchWithin

----------------------------------------
\* Service.Change

\* enumerateRemotes, and the choice among them
SwitchRemotesRead ==
    /\ switchAt = "remotes"
    /\ \/ SwitchFails
       \/ LET there == switchRepository.remotes
              asked == IF switchStep.kind = "sync" THEN switchStep.remote ELSE SwitchNobody
              explicit == asked # SwitchNobody
              single == ~explicit /\ SwitchDefaultRemote \notin there /\ Cardinality(there) = 1
              selected == IF explicit THEN asked
                          ELSE IF single THEN CHOOSE r \in there : TRUE
                          ELSE SwitchDefaultRemote
          IN /\ switchRun' = [switchRun EXCEPT
                  !.remote = selected, !.requested = selected \in there,
                  !.all = there # {} /\ selected \notin there,
                  !.pull = there # {},
                  !.warned = @ \/ (explicit /\ selected \notin there)]
             /\ switchAt' = IF there = {} THEN "switch" ELSE "fetch"
             /\ UNCHANGED <<switchRepository, switchEnvironment>>
    /\ SwitchWithin

SwitchFetched(repository, from) ==
    [repository EXCEPT !.known =
        [r \in SwitchRemotes |-> IF r \in from THEN repository.server[r] ELSE @[r]]]

\* A fetch that fails is a warning, and there is nothing to pull.
SwitchFetch ==
    /\ switchAt = "fetch"
    /\ \/ /\ switchRepository' = SwitchFetched(switchRepository,
               IF switchRun.all THEN switchRepository.remotes ELSE {switchRun.remote})
          /\ UNCHANGED switchRun
       \/ /\ switchRun' = [switchRun EXCEPT !.pull = FALSE, !.warned = TRUE]
          /\ UNCHANGED switchRepository
    /\ switchAt' = "switch"
    /\ UNCHANGED switchEnvironment
    /\ SwitchWithin

SwitchKnowing(branch) ==
    {r \in switchRepository.remotes : switchRepository.known[r][branch] # SwitchAbsent}

SwitchTracking(repository, branch, remote) ==
    [repository EXCEPT !.head = SwitchBranchHead(branch),
                       !.local[branch] = repository.known[remote][branch],
                       !.upstream[branch] = remote]

SwitchAfterChange == IF switchStep.kind = "sync" THEN "tracking" ELSE "pop"

\* git switch creates the branch by itself when exactly one remote has it.
SwitchTry ==
    /\ switchAt = "switch"
    /\ LET branch == switchRun.branch
           missing == switchRepository.local[branch] = SwitchAbsent
           knowing == SwitchKnowing(branch)
           next == IF switchRun.pull THEN "pull" ELSE SwitchAfterChange
       IN \/ SwitchFails
          \/ /\ ~missing
             /\ switchRepository' = [switchRepository EXCEPT !.head = SwitchBranchHead(branch)]
             /\ switchAt' = next /\ UNCHANGED <<switchRun, switchEnvironment>>
          \/ /\ missing /\ Cardinality(knowing) = 1
             /\ \E r \in knowing :
                  switchRepository' = SwitchTracking(switchRepository, branch, r)
             /\ switchAt' = next /\ UNCHANGED <<switchRun, switchEnvironment>>
          \/ /\ missing /\ Cardinality(knowing) # 1
             /\ switchStep.kind = "sync" /\ switchStep.create
             /\ switchAt' = "create"
             /\ UNCHANGED <<switchRun, switchRepository, switchEnvironment>>
    /\ SwitchWithin

\* CreateIfMissing: tracking the selected remote when it has the branch; a
\* branch that tracks nothing is not pulled.
SwitchCreate ==
    /\ switchAt = "create"
    /\ LET branch == switchRun.branch
           tracks == switchRun.requested /\ switchRun.remote \in SwitchKnowing(branch)
       IN \/ SwitchFails
          \/ /\ switchRepository' =
                  IF tracks THEN SwitchTracking(switchRepository, branch, switchRun.remote)
                  ELSE [switchRepository EXCEPT !.head = SwitchBranchHead(branch),
                                                !.local[branch] = SwitchHeadCommit]
             /\ switchRun' = [switchRun EXCEPT !.created = TRUE, !.pull = @ /\ tracks]
             /\ switchAt' = IF switchRun'.pull THEN "pull" ELSE SwitchAfterChange
             /\ UNCHANGED switchEnvironment
    /\ SwitchWithin

SwitchPulled(repository, branch) ==
    LET remote == repository.upstream[branch]
        fetched == SwitchFetched(repository, {remote})
    IN [fetched EXCEPT !.local[branch] = fetched.known[remote][branch]]

\* git pull --ff-only
SwitchCanPull(branch) ==
    /\ switchRepository.upstream[branch] # SwitchNobody
    /\ switchRepository.local[branch]
         \subseteq switchRepository.server[switchRepository.upstream[branch]][branch]

SwitchPull ==
    /\ switchAt = "pull"
    /\ LET branch == switchRepository.head.branch
       IN \/ /\ SwitchCanPull(branch)
             /\ switchRepository' = SwitchPulled(switchRepository, branch)
             /\ UNCHANGED switchRun
          \/ /\ switchRun' = [switchRun EXCEPT !.warned = TRUE]
             /\ UNCHANGED switchRepository
    /\ switchAt' = SwitchAfterChange
    /\ UNCHANGED switchEnvironment
    /\ SwitchWithin

\* performBranchRestore of a commit
SwitchCheckout ==
    /\ switchAt = "checkout"
    /\ \/ SwitchFails
       \/ /\ switchRepository' = [switchRepository EXCEPT
               !.head = [branch |-> SwitchNobody, at |-> switchVariable.at]]
          /\ switchAt' = "pop" /\ UNCHANGED <<switchRun, switchEnvironment>>
    /\ SwitchWithin

----------------------------------------
\* branchHasTrackingRemote, ensureTrackingRemote and Service.Refresh

SwitchTrack ==
    /\ switchAt = "tracking"
    /\ LET branch == switchRun.branch
           tracked == switchRepository.upstream[branch] # SwitchNobody
           offered == switchRun.requested /\ switchRun.remote \in SwitchKnowing(branch)
       IN \/ switchRun.refresh /\ SwitchFails
          \/ /\ switchRun.refresh /\ ~tracked /\ offered
             /\ switchRepository' = [switchRepository EXCEPT !.upstream[branch] = switchRun.remote]
             /\ switchAt' = "clean" /\ UNCHANGED <<switchRun, switchEnvironment>>
          \/ /\ ~switchRun.refresh \/ tracked \/ ~offered
             /\ switchRun' = [switchRun EXCEPT !.refresh = @ /\ tracked,
                                               !.warned = @ \/ (switchRun.refresh /\ ~tracked)]
             /\ switchAt' = IF switchRun.refresh /\ tracked THEN "clean" ELSE "pop"
             /\ UNCHANGED <<switchRepository, switchEnvironment>>
    /\ SwitchWithin

\* Only a refresh that requires a clean worktree stashes (untracked files too)
\* or commits (everything, on the branch that is checked out).
SwitchRefreshClean ==
    /\ switchAt = "clean"
    /\ LET dirty == switchRepository.tree.tracked # {}
           branch == switchRepository.head.branch
       IN \/ SwitchFails
          \/ /\ ~switchStep.clean \/ ~dirty
             /\ switchAt' = "fetchAgain"
             /\ UNCHANGED <<switchRun, switchRepository, switchEnvironment>>
          \/ /\ switchStep.clean /\ dirty /\ switchStep.stash
             /\ switchRepository' = SwitchStashed(switchRepository, TRUE)
             /\ switchAt' = "recheck" /\ UNCHANGED <<switchRun, switchEnvironment>>
          \/ /\ switchStep.clean /\ dirty /\ ~switchStep.stash /\ switchStep.commit
             /\ branch # SwitchNobody
             /\ switchRepository' = [switchRepository EXCEPT
                  !.local[branch] = @ \cup switchRepository.tree.tracked
                                      \cup switchRepository.tree.untracked,
                  !.tree = [tracked |-> {}, untracked |-> {}]]
             /\ switchAt' = "recheck" /\ UNCHANGED <<switchRun, switchEnvironment>>
    /\ SwitchWithin

SwitchRefreshRecheck ==
    /\ switchAt = "recheck"
    /\ \/ SwitchFails
       \/ /\ switchRepository.tree.tracked = {}
          /\ switchAt' = "fetchAgain"
          /\ UNCHANGED <<switchRun, switchRepository, switchEnvironment>>
    /\ SwitchWithin

\* git fetch --prune: the upstream of the branch that is checked out
SwitchRefreshFetch ==
    /\ switchAt = "fetchAgain"
    /\ \/ SwitchFails
       \/ \E r \in SwitchRemotes :
            /\ r = LET head == switchRepository.head.branch
                   IN IF head = SwitchNobody \/ switchRepository.upstream[head] = SwitchNobody
                      THEN SwitchDefaultRemote ELSE switchRepository.upstream[head]
            /\ switchRepository' = SwitchFetched(switchRepository, {r})
            /\ switchAt' = "checkoutAgain" /\ UNCHANGED <<switchRun, switchEnvironment>>
    /\ SwitchWithin

SwitchRefreshCheckout ==
    /\ switchAt = "checkoutAgain"
    /\ LET branch == switchRun.branch
           missing == switchRepository.local[branch] = SwitchAbsent
       IN \/ SwitchFails
          \/ /\ switchRepository' \in
                  IF ~missing
                  THEN {[switchRepository EXCEPT !.head = SwitchBranchHead(branch)]}
                  ELSE {SwitchTracking(switchRepository, branch, r) :
                          r \in {k \in SwitchKnowing(branch) : SwitchKnowing(branch) = {k}}}
             /\ switchAt' = "pullAgain" /\ UNCHANGED <<switchRun, switchEnvironment>>
    /\ SwitchWithin

SwitchRefreshPull ==
    /\ switchAt = "pullAgain"
    /\ \/ SwitchFails
       \/ /\ SwitchCanPull(switchRun.branch)
          /\ switchRepository' = SwitchPulled(switchRepository, switchRun.branch)
          /\ switchAt' = "pop" /\ UNCHANGED <<switchRun, switchEnvironment>>
    /\ SwitchWithin

----------------------------------------
\* The deferred restoration: git stash pop takes the newest entry; when it
\* conflicts the entry stays.
SwitchPop ==
    /\ switchAt = "pop"
    /\ LET stash == switchRepository.stash
       IN \/ switchRun.pushed = 0 /\ UNCHANGED <<switchRun, switchRepository>>
          \/ /\ switchRun.pushed = 1
             /\ switchRun' = [switchRun EXCEPT !.error = TRUE, !.unpopped = TRUE]
             /\ UNCHANGED switchRepository
          \/ /\ switchRun.pushed = 1 /\ stash # <<>>
             /\ switchRepository' = [switchRepository EXCEPT
                  !.stash = Tail(stash),
                  !.tree = [tracked |-> @.tracked \cup Head(stash).tracked,
                            untracked |-> @.untracked \cup Head(stash).untracked]]
             /\ UNCHANGED switchRun
    /\ switchAt' = "end"
    /\ UNCHANGED switchEnvironment
    /\ SwitchWithin

----------------------------------------
\* Others: the operator saves a file or takes the changes back, a colleague pushes

SwitchRunning == switchAt \notin {"begin", "end", "done"}

SwitchOperatorSaves(f) ==
    /\ SwitchRunning /\ "operator" \notin switchOutside
    /\ switchRepository' = [switchRepository EXCEPT !.tree.tracked = @ \cup {f}]
    /\ switchOutside' = switchOutside \cup {"operator"}
    /\ UNCHANGED <<switchSettled, switchIndex, switchAt, switchRun, switchBegan, switchEnvironment>>

SwitchOperatorReverts ==
    /\ SwitchRunning /\ "operator" \notin switchOutside
    /\ switchRepository.tree.tracked # {}
    /\ switchRepository' = [switchRepository EXCEPT !.tree.tracked = {}]
    /\ switchOutside' = switchOutside \cup {"operator"}
    /\ UNCHANGED <<switchSettled, switchIndex, switchAt, switchRun, switchBegan, switchEnvironment>>

SwitchColleaguePushes(r, b, c) ==
    /\ SwitchRunning /\ "colleague" \notin switchOutside
    /\ r \in switchRepository.remotes /\ c \notin switchRepository.server[r][b]
    /\ switchRepository' = [switchRepository EXCEPT !.server[r][b] = @ \cup {c}]
    /\ switchOutside' = switchOutside \cup {"colleague"}
    /\ UNCHANGED <<switchSettled, switchIndex, switchAt, switchRun, switchBegan, switchEnvironment>>

\* The steps of gix itself
SwitchRuns ==
    \/ SwitchBegin \/ SwitchEndStep
    \/ SwitchReadStatus \/ SwitchPushStash \/ SwitchCapture
    \/ SwitchRemotesRead \/ SwitchFetch \/ SwitchTry \/ SwitchCreate \/ SwitchPull
    \/ SwitchCheckout
    \/ SwitchTrack \/ SwitchRefreshClean \/ SwitchRefreshRecheck
    \/ SwitchRefreshFetch \/ SwitchRefreshCheckout \/ SwitchRefreshPull
    \/ SwitchPop

SwitchNext ==
    \/ SwitchRuns
    \/ \E f \in SwitchFiles : SwitchOperatorSaves(f)
    \/ SwitchOperatorReverts
    \/ \E r \in SwitchRemotes, b \in SwitchBranches, c \in SwitchCommits :
         SwitchColleaguePushes(r, b, c)

SwitchSpec == SwitchInit /\ [][SwitchNext]_switchVars

----------------------------------------
\* Properties

\* The handler is at a known place, its repository a repository.
SwitchTypeOK ==
    /\ switchIndex \in 1 .. Len(switchSteps) + 1 /\ switchAt \in SwitchPCs
    /\ switchRun.pushed \in {0, 1} /\ switchRun.branch \in SwitchBranches \cup {SwitchNobody}
    /\ switchRepository.head.branch \in SwitchBranches \cup {SwitchNobody}
    /\ switchRepository.tree \in SwitchTreeType
    /\ \A i \in DOMAIN switchRepository.stash : switchRepository.stash[i] \in SwitchTreeType
    /\ switchVariable \in SwitchValueType /\ switchCaptured \in SwitchValueType

\* handleBranchSyncAction pops what it has pushed and nothing else, whatever
\* fails on the way: when nobody else touches the worktree, the stash list ends
\* as it began and the changes are back in the worktree (or in the commit --commit
\* asked for); or the restoration itself failed, which is an error, and the
\* changes are on top of the list.
SwitchStashIsSettled ==
    switchAt = "end" /\ switchStep.kind = "sync" /\ "operator" \notin switchOutside =>
        LET began == switchBegan
            now == switchRepository
            committed == /\ switchStep.commit /\ now.tree = [tracked |-> {}, untracked |-> {}]
                         /\ began.tree.tracked \subseteq now.local[switchRun.branch]
        IN \/ now.stash = began.stash /\ (now.tree = began.tree \/ committed)
           \/ /\ switchRun.unpopped /\ switchRun.error /\ now.stash # <<>>
              /\ Tail(now.stash) = began.stash
              /\ Head(now.stash).tracked = began.tree.tracked

\* The pop takes the entry that was pushed, never one the operator had before,
\* also if he reverts his edits before the push (task_action.go:1648).
OlderStashesStay ==
    switchAt = "end" /\ switchStep.kind = "sync" =>
        LET now == switchRepository.stash
        IN \E k \in 1 .. Len(now) + 1 : switchBegan.stash = SubSeq(now, k, Len(now))

\* The variable of the clone and the shared store agree in a restore that
\* succeeds: the repository is back where the first capture (or the last one
\* allowed to overwrite it) found it, unless the operator has set the variable.
SwitchRestoreReturns ==
    switchAt = "end" /\ switchStep.kind = "restore" /\ ~switchRun.error =>
        LET value == IF switchSeed.kind = "none" THEN switchCaptured ELSE switchSeed
        IN /\ value.kind = "branch" => switchRepository.head.branch = value.branch
           /\ value.kind = "commit" => switchRepository.head = [branch |-> SwitchNobody, at |-> value.at]

\* A step that neither fails nor warns has brought its branch up to what was
\* known of its upstream: a fetch, a pull or a refresh that did not happen is
\* always reported.
SwitchQuietMeansCurrent ==
    (switchAt = "end" /\ switchStep.kind \in {"sync", "refresh"}
       /\ ~switchRun.error /\ ~switchRun.warned) =>
        LET repository == switchRepository
            upstream == repository.upstream[switchRun.branch]
        IN /\ repository.head.branch = switchRun.branch
           /\ upstream # SwitchNobody =>
                repository.known[upstream][switchRun.branch]
                  \subseteq repository.local[switchRun.branch]

\* README.md:573 records a capture "so later steps can restore it": a restore of
\* what the workflow has captured does not fail as undefined.
CapturesCanBeRestored ==
    switchAt = "end" /\ switchStep.kind = "restore" /\ switchCaptured.kind # "none" =>
        ~switchRun.undefined

\* What a switch promises the operator: his stash, his way back, and a word when
\* the branch is not current.
SwitchKeepsPromises == SwitchStashIsSettled /\ SwitchRestoreReturns /\ SwitchQuietMeansCurrent
========================================
