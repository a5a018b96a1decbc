# gix: models and proofs

`gix` keeps Git repositories in order: it renames, migrates, audits, releases
and, above all, *syncs* branches with their pull requests.  This directory holds
TLA+ modules that model the parts of it in which an order of events, a failure
half-way or another writer can go wrong, the TLC runs that check them, and the
theorems proved about them with TLAPS.

`PROJECT.json` maps every definition to the lines of source it stands for and
lists the runs, the mutants that show what each property can catch, the hazards
of the code and the theorems.

## Inventory

| Part | State it keeps | Operations | What makes it correct |
| --- | --- | --- | --- |
| **Strict sync: transaction** (`internal/branches/syncflow/strict_sync_transaction.go`, `strict_sync_stash.go`) | snapshots of touched worktrees with backup stashes, adopted worktrees, owned stashes, a journal of moved refs, mutated worktrees, the marks *published* and *ownership lost* | begin, protect, prepare/complete a command, own/release a stash, finalize, rollback, report | an operator's change is never lost; a rollback is exact; published work is never taken back; another writer's work is never overwritten; recovery objects live until they are not needed |
| **Strict sync: handler** (`task_action.go`, `stacked_sync.go`) | the plan: review base, record flag, branch being synced | preflight, status, fetch, stack plan, parent publication, stash, branch preparation, base / pull-request / merged-branch sync, complete | `SYNCED` means the branch is settled and the caller's work is back; every failure is reported; recursions end |
| **Preflight** (`strict_sync_preflight.go`) | an immutable plan | list worktrees, repair lost links, refuse operations in progress | refuses for a reason and before the first change; plans for idle worktrees of this repository only |
| **Worktree adoption** (`worktree_adoption.go`) | none of its own (worktrees of the repository) | list, protect, commit, publish, detach or remove the sibling that holds a branch, retry the switch | what the sibling held is kept, published or refused; a locked sibling stays |
| **Dirty-work clusters** (`dirty_sync.go`) | checkpoint of the index, `index.lock` | cluster, stage, generate a message, validate, commit from a locked copy | a commit holds exactly the cluster; outside index changes stop it |
| **Merge conflict resolution** (`merge_conflict_resolution.go`, `merge_conflict_strategy.go`) | retained proposals, attempts | parse diff3, derive, propose, audit, write, validate, conclude or abort | only audited and validated text is written; what both sides add is kept; a bounded number of attempts; a failed merge is taken back |
| **Branch switch and refresh** (`syncflow/service.go`, `task_action.go`, `branches/refresh`) | captured branch, a temporary stash | cd, refresh, capture, restore, stash, commit and push dirty work | the stash and the captured branch come back; a quiet success means the branch is current |
| **Merged-branch purge** (`internal/branches/service.go`) | a summary | list heads and closed pull requests, confirm, delete remotely and locally | only what was confirmed goes; the summary is true |
| **Workflow executor** (`internal/workflow/executor*.go`, `dag_plan.go`) | outcomes and failures per repository, results by index | plan stages, run repositories in parallel workers, aggregate | dependencies first; one repository's failure stops only its own stages; no deadlock on cancellation |
| **Workflow tasks and safeguards** (`internal/workflow/task_*.go`, `operations_git_actions.go`, `safeguards*.go`) | the plan of a task, the branch it started on, the files it changed | safeguards, plan, branch, write files, stage, commit, push, pull request, clean up branches, restore | the original branch comes back; only the task's own files are committed; a deleted branch had nothing of its own |
| **Model client, messages and version decisions** (`internal/llmclient`, `commitmsg`, `changelog`, `semverdecision`) | ordered connections, candidate and audit of a version | try, fall back, propose, audit | keeps the order, stops on the caller's deadline; a bump has passed its audit |
| **Folder rename** (`internal/repos/rename`) | the paths of the repositories of a run | plan, confirm, create parents, rename directly or through an intermediate name | the operator and later steps are told where the repository is |
| **Remotes and protocols** (`internal/repos/remotes`, `protocol`, `identity`, `internal/audit`) | `origin`, the inspection | inspect, resolve the identity, set the URL | `origin` still leads to the same repository |
| **History purge** (`internal/repos/history`) | refs, remotes and upstreams around `git filter-repo` | ignore, fetch, rewrite, restore remotes, push, re-attach | no branch still holds the paths when the purge is reported done |
| **Namespace rewrite** (`internal/repos/namespace`) | a branch, rewritten files | plan, branch, rewrite, stage, commit, push | nothing is left half rewritten |
| **Default-branch migration** (`internal/migrate`) | default branch, pull-request bases, Pages, workflow files | rewrite, push, retarget, change default, delete | what is deleted was verified; an error comes before anything is deleted |
| **Releases and versions** (`internal/releases`, `internal/releaseversion`) | local and remote tags | choose the next version, tag, push, retag | a published tag stands; the next version is a new one |
| **Package retention** (`internal/ghcr`, `internal/packages`) | versions listed page by page | list, order, delete | the newest stay |
| **Web interface** (`internal/web`, `cmd/cli/application_web*.go`, `internal/web/ui/assets/audit.js`) | rows of the last inspection, a queue of changes, requests in flight | inspect, queue, edit, apply, refresh | the queue names inspected rows, in the order that keeps their paths |
| **Adapters** (`execshell`, `gitrepo`, `githubcli`, `githubauth`) | - | run commands, parse output | - |
| **CLI, configuration, audit report** | configuration | parse, render | - |

Strict sync is where most of these meet: the handler calls Git through
`executeGit`, which brackets every command with the transaction's journal;
adoption and conflict resolution run Git through the same bracket; the model
client is called between two readings of the index; another process (an editor,
an operator in a sibling worktree, a second tool) may act in the same repository
at any time, because the repository is only a directory.  A workflow runs its
steps over many repositories: `WorkflowExecutor` decides when, `WorkflowTasks`,
`BranchSwitch`, `RepositoryRename` and the other command modules what happens in one
of them.  The web interface only calls the same commands, from a browser whose
picture of the disk may be old.

What is hard about it: failures at any call, commands that take
effect and are still reported as failed (a hook, a signal, a deadline), a
publication half-way, lists that are searched by position or read page by page, a
sibling that moves, an inspection that is stale when it is used, and a cleanup that
itself may fail.

## Modules

| Module | Models |
| --- | --- |
| `GitRepository` | Git as strict sync uses it: pure operators on one repository record. External. |
| `StrictSyncTransaction` | `strict_sync_transaction.go`, `strict_sync_stash.go`, the journal bracket of `executeGit`: variables of the transaction and one action per step of begin, capture, drop, finalize, the deferred cleanup and rollback. |
| `StrictSync` | `handleStrictSyncAction` and everything it calls, adoption, the outcome of each Git command, the forge, and the other writers. EXTENDS `StrictSyncTransaction`. |
| `SyncContract` | the abstract specification: what an invocation promises about its recovery objects. `StrictSync` implements it (`KeepsContract`). |
| `SyncPreflight` | `buildStrictSyncPlan`, which `StrictSync` has behind it when it starts. |
| `DirtyClusters` | the loop of `saveDirtyWorkClusters`, call by call, on one worktree that other processes edit and stage in. It stands inside what `StrictSync` has as the steps `cluster` and `generate`. |
| `WorkflowExecutor` | `Executor.Execute` after discovery: the plan, batches, dispatcher, workers, steps for all repositories, cancellation, outcome. |
| `MergeTexts` | the texts of a conflicted region. |
| `MergeTokens` | pure operators: tokens, edits by longest common subsequence, what gix derives from a region and what it proves of a text (`merge_conflict_strategy.go`, `validateMergeConflictRegionResponse`). |
| `MergeMarkers` | pure operators: how a file with diff3 markers is cut into regions (`parseMergeConflictDocument`), against what Git writes. |
| `MergeResolution` | `resolveMergeConflictOrError` and `Resolve`: listing, regions, proposals and audits, writing, staging, validation, commit, abort.  What is derived from a region and found of a text comes with the request, so that this module holds for any deriving and any validation. |
| `MergeConflicts` | composes them: what comes with a request is what `MergeTokens` computes; the properties that need both. |
| `BranchSwitch` | the sync, refresh, capture and restore steps in a repository with one worktree. |
| `WorktreeAdoption` | `worktreeAdoptionService.Change`: the same where a sibling has the branch, outside strict sync. |
| `BranchCleanup` | `gix prs delete`. |
| `WorkflowTasks` | what tasks and git steps of a workflow do in one repository. |
| `RepositoryRename` | `gix folder rename` over several repositories and workers. |
| `RemoteUpdate` | `gix remote update-to-canonical` and `update-protocol`. |
| `DefaultMigration` | `gix default`. |
| `ModelRequests` | the model client and the three generators that use it. |
| `Releases` | `gix release next`, `release <tag>`, `release retag`. |
| `WebWorkspace` | the audit workspace of `gix --web`: browser and server. |
| `PackageRetention` | `gix packages delete`. |
| `HistoryPurge` | `gix files rm`. |
| `NamespaceRewrite` | the namespace rewrite of a workflow. |
| `GixCommands` | one invocation of one of these commands: `command` says which, the others are idle. |
| `MCStrictSync`, `MCDirtyClusters`, `MCWorkflowExecutor`, `MCMergeResolution`, `MCGix` | instances for TLC. |
| `StrictSyncProofs`, `StrictSyncWorkProofs`, `DirtyClustersProofs`, `WorkflowExecutorProofs`, `MergeResolutionProofs` | lemmas and theorems about these components. |
| `WorktreeCommandsProofs`, `RepositoryCommandsProofs` | the inductive invariants of the commands that `GixCommands` composes: of those that switch, adopt, delete and inspect branches and worktrees, and of those about a repository, its releases and its packages. |
| `GixCommandsProofs` | the theorems about `GixCommands`, from these invariants. |

### How the state corresponds

* A commit is the set of *tokens* its history contains, a token being one change
  somebody made.  Ancestor is inclusion, merge is union, `a..b` is `b \ a`.
  Edits in a worktree and the contents of a stash are sets of tokens too, so that
  "nothing is lost" is a statement about which tokens can still be found.
* `git.refs`, `git.origin`, `git.head`/`git.at`, `git.work`, `git.unmerged`,
  `git.stashes`, `git.trees`, `git.review` are local heads, remote heads,
  checkouts, uncommitted edits, conflicted indexes, the shared stash list,
  the registered worktrees and `branch.<name>.gix-review-base`.  The remote is read
  as last fetched.
* `snapshots`, `adopted`, `owned`, `journal`, `mutated`, `published`,
  `ownershipLost` are the fields of `strictSyncTransaction`.
* `pc` is the next call, `phase` says whose error handling is in force: `begin`,
  `forward` (the handler with its deferred cleanup), `rollback` (called by that
  cleanup), `undo` (called by begin itself), `settle` (only backups are dropped).
  `cmd` is the command inside `executeGit`, `capture`, `dropping`, `seen`,
  `pending` and `cursor` are the local variables of the functions named beside
  them.

### How the actions correspond

One action is one Git or GitHub call with the decisions up to the next call.  A
mutating command takes three: `Issue` (`prepareStrictSyncGitMutation`: claim,
check the refs, or lose ownership), one `Run...` action (Git takes effect, is
refused, is reported late, conflicts), `Complete`
(`completeStrictSyncGitMutation` re-reads the refs).  `HandlerFails` lets every call
fail; a refusal in the code (a return of an error) is the same failure.  The
deferred cleanup of the handler is `CleanupPublished`, `CleanupOwnershipLost`,
`CleanupRollback`.

Other writers are `OutsideCommit`, `OutsideStash`, `OutsideIndex`,
`OutsideSwitch`, each at most once per behaviour.  `InBracket` names the places where
gix reads and then writes without a lock; `Racing` says whether they may act there.

### Dirty clusters

`DirtyClusters` looks inside one step of `StrictSync`.  Where that module knows
tokens, this one knows paths: `tree`, `index` and `files` say what HEAD, the index and
the working tree hold at each path, `intents` is the intent-to-add state, `lock` is
`index.lock` and `log` the commits made, each with its author and the paths it
changed.  `pc` is the next call, `current` is `clusterIndex`, `expected`, `checkpoint`,
`probe` and `copy` are the local variables of the functions.  A checkpoint is read by
three calls (`CaptureHead`, `CaptureEntries`, `CaptureIntents`) and read again the same
way by validation (`ProbeHead`, ...), so that others may act between any two of them.
Resolve-undo records, `skip-worktree` and `assume-unchanged` flags, the branch name and
the path of the index are compared in the same manner and add no case of their own.
Git commands that write the index fail while somebody else holds the lock.  Others
take the lock, change something and drop it (`Stage`, `Intend`, `OutsideCommit`,
`Refresh`), and edit files without it (`Edit`).

### Workflow executor

A workflow is `order` (the steps as listed), `after` (what each waits for) and
`global` (the steps whose operation is not repository-scoped).  `stages` is what
`planOperationStages` returns.  `pc`, `at`, `operation`, `batch` and `next` are the
position of `runOperationStages` and of the dispatcher in `runRepositoryPipelines`;
`workers[w]` is one goroutine with the repository it holds, its place in the batch,
`repositoryFailed` and the result it is filling; `results` is indexed by repository,
`operations` is what the stages list, in the order in which each outcome is written under
its key.  `OperationOutcomes(label)` is what the outcome then tells: the code looks each
listed name up in a map keyed by `owner/repo:step`, so that of two checkouts of one
repository the one written last is found for both.  Which repositories share a label
(`repositoryLabel`) is arbitrary: the properties are about every labelling with `Labels`.
`failures` is a list without keys.  Each check of `ctx.Err()` is a guard and
`Cancel` may happen between any two steps.  `ran` is history: what was started where
and how it ended.

A step ends in one of five ways in a repository: it succeeds, fails, skips the
repository (a hard stop), skips it after one of its tasks has failed (`masked`), or
returns the caller's cancellation.  What a step does to a repository is not modelled.
A step in a stage that is not repository-scoped runs over all repositories and joins
their errors (`TaskOperation.Execute`, `iterateRepositories`) or returns the first
one (rename, remote, protocol, migration): `Endings`, `Joined`.

### Merge conflicts

`MergeResolution` looks inside the step of `StrictSync` that concludes a conflict.  `at`,
`region` and `attempt` are `pathIndex`, `regionIndex` and `attempt`; `candidate` and
`validated` are the local variables of `resolveSemanticConflictRegion` (`None` where
`candidateAvailable` is false); `resolved` is `resolvedRegions`.  `tree` and `index` hold
for each conflicted path that it is conflicted, as before, gone, or which texts stand in
the place of its regions; `noise` says against which parents `git diff --check` finds
errors in a staged path, with one more path for all that Git merged by itself.
`audited` is history.  What the provider sends is chosen by the action: nothing, something
malformed, an approval, or a text that validation finds valid, unproven or refused.
`Cancel` may happen between any two steps and makes Git and the provider fail, but not
the inspection and the abort, which have a context of their own.

A character is a number with one of the three classes of `mergeConflictTokenClass`;
a text is a sequence of characters.  `Edits` are the ranges of the base between matched
tokens with what replaces them, as a set: the code's lists are sorted by `EditOrder`
and have no two equal members after `mergeConflictCompatibleTokenEdits`.

`MergeMarkers` has a line as a word, one that begins with a marker as that marker.
`Written` is what Git writes for a document, `Parsed` is `parseMergeConflictDocument`,
a fold over the lines.

### Preflight and adoption

In `SyncPreflight`, `preflightTrees` holds every worktree with how its link stands
(`ours`, lost, gone, somebody else's), its lock, its branch, the operations in
progress in it (`marks`) and whether its index is unmerged; `preflightAt` is the next
call of `buildStrictSyncPlan`, and the operator may begin or end an operation, and
another repository may take a path, between any two calls.  In `WorktreeAdoption`,
`adoptSibling` is the worktree that holds the branch, `adoptBranch` what the branch is here,
as last fetched and on the server; edits and commits are tokens as in `GitRepository`.

### The other commands

Each of these modules has the same plan.  `XInvocations` is what the command is asked
for and the repositories it meets, `xAt` the next call, the other variables the fields
and local variables of the code and what the properties have to remember; `XInit` and
`XNext` are what `GixCommands` runs.  An action is one call to Git, GitHub, a
registry, the disk or the operator with the decisions up to the next call, and every
call has an alternative in which it fails.

| Module | What stands for what |
| --- | --- |
| `BranchSwitch` | a branch is the set of its commits; `known` is the remote as last fetched, `server` as it is; `switchRun` holds the local variables of a step, `switchCaptured` the captured variable of the workflow. A colleague pushes, the operator edits. |
| `BranchCleanup` | branches here and there as two sets, the closed pull requests as a list in which a head may be twice; a colleague pushes a deleted branch again, the operator deletes one. |
| `WorkflowTasks` | a file is the set of its lines, a tree a file in each path, a branch the sequence of its trees; `taskRun` is the plan and the `ExecutionContext`, `taskShared` what the steps on a repository tell each other. The operator edits and changes the branch. |
| `RepositoryRename` | a path is the sequence of its names; the file system may fold case; `renamePath` is where the workflow believes a repository to be, `renameWhere` where it is. |
| `RemoteUpdate` | a URL is its form, its host and its slug; `leads` is where GitHub redirects a slug, which may fail to answer. The operator sets `origin`. |
| `DefaultMigration` | a branch is the set of its commits, a commit has an effect on the tree (so that a squashed copy makes the same tree); pull requests, Pages and the default branch are GitHub's. Every write (push, commit, Pages, default branch, retarget, deletion) may take effect and be reported as failed. Colleagues push. |
| `ModelRequests` | a reply is what the reader of the code finds in it (good, empty, malformed); `modelExpired` is the caller's deadline. |
| `Releases` | a version is its three numbers, a CalVer tag its time, in full arithmetic; tags name commits here and there. Colleagues publish tags, the operator commits and fetches. |
| `WebWorkspace` | the disk is a function from paths to folders; the browser has `webRows`, `webQueue` and the requests it waits for, the server the batch and what it has said of each change. Folders change meanwhile, answers come late. |
| `PackageRetention` | a version is its number; two runs list page by page while versions are published. |
| `HistoryPurge` | a commit is its name and how much of it lies in the purged paths (all, some, none). |
| `NamespaceRewrite` | a file is the set of names it mentions: the root of the old module, a path below it, one that only resembles it. |

## Runs

The runs of strict sync are of `MCStrictSync`: two worktrees (the caller's, which is the main
one, and a sibling), three branches (`main` the default, `feat`, and `side`, which is
also the name the model generates), five tokens (an edit of the caller, an edit
of the sibling, a local commit, a remote commit, one outside change).
The starting states are five families: the sibling holds the branch to sync; the branch is
free, local only, remote only or missing; the default branch itself; a stack with
recorded or missing parents; a merged branch whose base may have been merged too.
Two worktrees are enough because strict sync only ever touches the caller and the
one holder of a branch; three branches give a stack of depth two (default, parent,
child) and a merged base of depth two; one token of each origin suffices, because
the properties ask whether a token is still there, not how many there are.

| Run | Question | Result |
| --- | --- | --- |
| `strict_sync` | nobody else is active, every call may fail | all 7 properties hold, about 254,000 states |
| `outsiders` | other writers act between gix's brackets | both hold, about 629,000 states |
| `dirty_clusters` | does each commit hold its cluster while others edit, stage and commit? | all 5 hold, about 137,000 states |
| `workflow` | is a parallel, cancellable run as good as a sequential one? | all 5 hold, about 514,000 states |
| `merge` | is a conflict resolved only by audited texts, with what both sides add, and never left half-way? | all 5 hold, about 1,014,000 states |
| `commands` | does each of the other commands do what it reports, and delete only what it has verified, and end, while calls fail and others work? | all 16 hold, about 490,000 states |
| `masked` | is every failure among the failures of the outcome? | violated |
| `caller_commit` | is the caller's work safe when somebody else commits on its branch? | violated |
| `published_handoff` | does the handoff after a publication keep every edit? | violated |
| `migrate_source` | does a migration keep a source branch that holds something else? | violated |
| `task_skip` | does a file task leave a file alone that is there already? | violated |
| `rename_aside` | does a rename that fails abort, and leave the repository where it was? | violated |

`MCDirtyClusters` has two clusters (a tracked file with a new one, a new file alone),
a fourth path that belongs to none, two contents, a tracked file that is modified or
deleted and staged or not at the start, and up to three steps by others (`Budget`): one
more than it takes to edit a file and stage it in the middle of one cluster's commit.
Two clusters are enough for the reset between clusters to meet the commit before it.

`MCWorkflowExecutor` has three steps in eleven workflows (one pipeline, a step for all
repositories before, between or after the others, two steps side by side, a mixed
stage, a step listed before the one it waits for, and four that are refused), two
repositories and one or two workers.  Three steps make a batch, a barrier and a batch
behind it, or a stage of two steps behind or before another; two repositories and two
workers are the smallest case in which results arrive out of order and in which a
worker leaves while the dispatcher still has something to hand over.  The workflow with
the step in the middle runs with one worker only, which halves the run: its second
batch starts from idle workers as the first one does.  `masked` uses only
that workflow.

`MCMergeResolution` has 176 pairs of changes of five small bases, each as the one region of a
stash, and seven compounds (several files, several regions, a deleted file, a file
without markers, a region whose matrix is too large) as merges that inherit white space
errors from any of the parents.  Four classes of edits meet: insertions, deletions and
replacements that touch, overlap, coincide or lie apart, with repeated tokens, with
white space and with a symbol.  The model may return either side, both in either order,
the base, either merge, or one of three other texts.  `MaxAttempts` is the code's
four, and `MaximumCells` is 36 so that a region of six tokens is too large.

`FilesAreCutRight` is about files, not about steps: every file with one
region whose five texts are empty, a line, or a line that looks like a marker, and every
file with two regions of which some lines look like separators, is written and cut once.

`MCGix` has for each command the smallest set of invocations in which its cases meet;
they stand in that module under the command's name.  `gix cd`: two branches, two
remotes, edits tracked and not, an older stash of the operator, every combination of
the options.  `gix prs delete`: three branches, one of them listed twice and one open.
Tasks: two files, two lines, every mode of writing, one to four steps.  Rename: two
repositories side by side, one in the other, swapping names, differing by case, with
one and two workers; three of which one lies in another and has the name the third takes; one
that goes into the place of the other; one that has its owner's name.  Remotes: two slugs that GitHub has renamed, a foreign one, origins
in every form.  Migration: a squashed target, a local source that is ahead, pull requests
of which one is a promotion.  Model: two connections, both orders, equal priorities,
two packets.  Releases: versions around each of the three numbers, a CalVer tag, two
lines of history.  Web: two folders, one in the other, a batch of two changes, two
requests.  Packages: five versions in pages of two, equal times included, two runs.
Purge and namespace: each way in which a commit or a file may name what is removed.
Preflight: three worktrees, each link, each of the seven marks.  Adoption: a linked and
a main sibling, edited or not, locked, prunable, a branch ahead of the remote or not.
One of each kind suffices, because the properties ask whether something is gone, moved or
reported, not how often.  Bounds on what others do stand in each module: mostly one step
of each kind, in `WebWorkspace` `edits` and `requests` of a launch and `WebChangesLimit`.
Deadlock is checked: `CommandOver` says where a command has nothing left to do, so
that no command stops half-way unseen.

The properties, each stated with its comment in the module it is of:

* `StrictSync`: `MutationsAreCovered`, `NoWorkLost`, `OutcomeIsHonest` (a reported
  rollback is exact and of an unpublished run; `SYNCED` is settled and the work is back),
  `NothingOutsideIsLost`; steps: `PublishedWorkStands`, `OwnershipLossFreezes`;
  refinement: `KeepsContract`; liveness: `EveryRunTells` (a run ends, and with an
  outcome for what has failed).
* `DirtyClusters`: `CommitsHoldTheirCluster`, `SavedMeansCommitted`, the step property
  `CommitsTheCheckpoint`, and the liveness property `LockIsReleased` (removing the lock
  file is assumed to succeed).
* `WorkflowExecutor`: `RunsAsPlanned` (the plan is right, steps run in its order),
  `NeverTwoAtOnce`, `OutcomeIsTrue` (the stages list and the failures name what those of a
  sequential run do; each name listed is told as it ended in the last repository of its
  label; one worker is sequential; success means that everything ran) and the liveness property
  `RunEnds`.
* `MergeResolution`: `ResolutionIsSound` (only the audited text is staged, the flag is
  of the candidate, the merge is concluded whole or taken back), the liveness
  property `EveryResolutionEnds`; `MergeConflicts`: `TextIsTheMerge` (against a reference
  that fills each position of the base; valid, and with what only one side adds);
  `FilesAreCutRight`.
* `GixCommands`: one property for each command, `CdKeepsWork` to `RewriteIsWhole` in the
  order of `MCGix.cfg`, the step property `PublishedTagsStand` and the liveness property
  `EveryCommandEnds` (rounds of a version decision, names tried by a rename, pages of a
  listing and tags of a script run out; in the browser, every request is answered).

### What holds only with a qualification

* `NoWorkLost` lets a rollback that has not succeeded hold an edit in a backup
  *object* that is no longer in the stash list (Git still has the object until it is
  collected).
* `OutcomeIsHonest` allows a worktree whose capture was lost (`Unclaimed`) to miss
  its edits: `RollbackRestoresFiles`, below.
* `CleanupReportIsTrue` and `PurgeReportsTrue` except what a colleague has pushed again.
* `RemoteKeepsRepository` holds by name only after a lookup has failed (`remoteBlind`).
* `RenameTellsWhere`: with one worker the path of a state is no other repository's, except
  when this one is aside, or carried along with the one it lies in, and another takes its
  place.  The report is true of a repository that no other one's rename moves, and where no parallel
  one makes a directory in the place of one that is aside.
* `RewriteIsWhole` leaves out ignored and vendored files, as the code does.

### Findings

1. `caller_commit`: a commit by somebody else on the caller's branch makes
   `callerMutated` true, so a failing gix resets a worktree it never touched, does
   not apply its backup and then drops it.  Uncommitted edits are lost while
   `SYNC_SWITCH_ROLLBACK` is reported.
2. `published_handoff`: a parent has been pushed, a sibling turns to the target and is adopted,
   and its edits, stashed by the capture, cannot be put back.  The cleanup of a published run
   drops the stash, which was their only copy, and reports that the recovery state is
   preserved.  (`outsiders` does not meet it: its repositories have no parent to publish.)
3. `masked`: a failure that is joined with a skip or a cancellation (of a later task of
   the same step, or of another repository in a step for all) is in no result.
4. `migrate_source`: a migration compares the remote source with the target, and then
   deletes the local source too (`git branch -D`), with commits that were never pushed.
5. `task_skip`: whether a file exists is read on the branch the operator left, and it is
   written on the branch of the task: `skip-if-exists` overwrites a file only the latter has.
6. `rename_aside`: a repository that was moved to an intermediate name and cannot be moved on
   is not moved back, the error is logged, and the workflow goes on with the old path.  With
   `--owner` this always happens when owner and repository have one name: `rails` is to go to
   `rails/rails`, which lies in itself, and ends at `rails.rename.0`.

### Disagreements without a run of their own

Each of these is stated as an operator with the line it disagrees with; TLC finds a
violation when it is put as the INVARIANT (`PagesAreNotFatal`: the PROPERTY) of the named cfg.

| Operator | cfg | What the code does |
| --- | --- | --- |
| `RollbackRestoresFiles` | `MCStrictSync` | a failure between the stash push of an adoption's capture and the read of `refs/stash` (strict_sync_stash.go:49) leaves an entry nobody owns: the rollback is reported as complete, the sibling's edits stay in the stash list (README.md:75 "restores the exact files") |
| `HandoffKeepsWork` | `MCStrictSync` | a backup dropped by a forward finalize whose drop was reported as failed is missing from a later handoff |
| `OutsideWorkSurvives` | `MCOutsiders`, `Racing = TRUE` | a commit by another process within a read-then-write bracket is recorded as gix's own and overwritten by a rollback |
| `CommitsHoldTheirCluster` | `MCDirtyClusters`, `Racing = TRUE` | a path staged by somebody else between the check of the staged paths and the recording of the index is committed with the cluster |
| `AbortLasts` | `MCWorkflowExecutor` | that a hard stop aborted a repository is remembered within one batch only |
| `EachHasItsOutcome` | `MCWorkflowExecutor` | two checkouts of one `owner/repo` share the key of a step: the outcome of the first is replaced and that of the second told twice (executor_runner.go:391, executor.go:352; .mprlab/ISSUES.md:566 "Preserve operation outcomes"). The failures are complete |
| `ConflictsAreLeft` | `MCMergeResolution` | a merge whose conflict is not resolved is aborted (README.md:83, and `NothingLeftHalfMerged`); docs/command_warning_matrix.md:8 says it is left "in Git's normal conflict state" |
| `PagesAreNotFatal` | `MCGix` | a failing update of Pages ends the migration (service.go:286); docs/command_warning_matrix.md:13 calls it non-fatal |
| `OlderStashesStay` | `MCGix` | when the operator reverts his edits before the `git stash push` of `gix cd` nothing is pushed, and the pop applies and drops an older stash of his (README.md:79 "drops only that exact stash" is kept by strict sync) |
| `OwnerConstraintHolds` | `MCGix` | `--owner` of a remote update ("Require canonical owner to match this value", cmd/cli/repos/remotes.go:20) reaches the executor, which never reads it |
| `CapturesCanBeRestored` | `MCGix` | every batch starts from the variables of the invocation: what was captured before a step for all repositories is undefined after it |
| `OpenWorkIsKept` | `MCGix` | a branch with a closed pull request is deleted although another one of it is open |
| `SafeguardsAllHold` | `MCGix` | `require_changes` passes at once when the workflow has changed files: what the safeguard says of the branch is not looked at |
| `ParallelPathsAreOwn` | `MCGix` | the path a workflow has for a repository may be where another one has been put: by a parallel worker, or, with one worker too, after the repository was left aside or was carried along when the one it lies in was renamed |
| `TagsMoveToWhatWasNamed` | `MCGix` | a mapping that names a tag an earlier mapping has moved follows it |
| `SucceededMeansMade`, `FailuresStayForReview`, `OnlyReviewedRepositoriesChange` | `MCGix` | a change whose repository is gone is a success; the queue is emptied of changes that failed; an operation on a folder takes the repositories below it |
| `PurgeRemovesOnlyPaths` | `MCGix` | what the server has and the last fetch has not is overwritten by the forced push |
| `NoImportOfTheOldModule` | `MCGix` | an import of the module's root is not rewritten |

### Seen while modelling

When GitHub sets the default branch and the answer is lost, a migration ends with an error
and the default is the new one (`MigrateFailsEarly` says so).  A second run finds the target
the default and skips the repository (operations_migrate.go:163): pull requests, protection
and the source branch are left to the operator.

`containsConflictMarker` does not look for `|||||||`.  Validation compares without white
space, so that a text which joins two lines passes.  A region of more than 4,000,000
cells can never be validated, so that it always ends in exhaustion.  When `git merge` fails
without an unmerged path the merge is not aborted here even if `MERGE_HEAD` exists
(`NothingLeftHalfMerged` says so); the transaction's rollback is what then restores the
branch.  While the model answers nothing compares the index with an earlier reading, as
`DirtyClusters` does: another writer is not in this module.  A file whose untouched text
contains a complete example of conflict markers is cut there as at a region.

## Fairness

gix is one sequential process: as long as its process runs, it takes its next step,
so `WF_vars(Gix)` is all that is assumed, in `StrictSync` and `DirtyClusters`
(`WF_vars(Resolver)` in `MergeResolution`; a request has a deadline, so that the
provider answers or fails).  `GixCommands` assumes weak fairness of the steps of the
command that runs (`Fairness`; in each module the operator `...Runs`, which leaves out
every step of colleagues and of the operator), because a command is one process and each
call it waits for ends or times out; a prompt is answered in time.  Nothing is assumed about other writers or
about calls succeeding.  In `WorkflowExecutor` every goroutine that can go on does
(`WF_vars(Runner)`, `WF_vars(Worker(w))` for each worker), a repository is handed over
when a worker waits for one, and a step that has begun ends; the Go scheduler
and channels give the first two, the deadlines of the commands the third.  A killed process is not modelled: gix keeps no state on disk
from which a later invocation would recover, so that a crash is simply a behaviour
that stops; what it leaves behind is a prefix of the behaviours explored.

## Proofs

TLC checks small instances; the theorems hold for every value of the constants that
the named assumptions allow.  `PROJECT.json` lists them with the properties they state.
Each proof has the same plan: an inductive invariant, a lemma that the initial states
satisfy it, lemmas that each action keeps each of its parts, and a temporal step that
joins them.

### Strict sync

`StrictSyncProofs` proves, for every set of worktrees, branches, tokens, every
set of starting invocations of the right type and any other writers:

* `Invariance`, `TypeCorrect`, `MutationsCovered`: `[]IInv`, `[]TypeOK`,
  `[]MutationsAreCovered`.
* `PublishedStands`, `OwnershipFreezes`: the step properties `PublishedWorkStands` and
  `OwnershipLossFreezes`.
* `Implements`: `Spec => KeepsContract`, the refinement of `SyncContract`.
* `RolledBackIsUnpublished`: `[]RollbackMeansUnpublished`.
* `RollbackIsExact`, `EveryMoveIsJournaled`: `[]RollbackRestores` and
  `[]MovesAreJournaled`, under `Alone` (below).
* `WorkIsNotLost` (in `StrictSyncWorkProofs`): `[](NoWorkLost \/ LostInAdoption)`, under
  `Alone` and `Anchored` (below).

From which assumptions: `NoneAssumption`, `CallerAssumption`, `RecordAssumption`,
`StrictSyncAssumption`, that is, `None` is no branch, commit or record, the caller
and the main worktree are worktrees, the default and generated names are branches,
and invocations have their type.  TLC evaluates them in every run.

`IInv` is needed because neither the types nor the coverage is inductive.  The type
of `snapshots'` after `SnapshotApply` needs a capture that exists, so `IInv` says for
every value of `pc` which frame (`cmd`, `capture`, `dropping`, `seen`, `switching`) is
filled.  `MutationsAreCovered` needs that the worktree of a command is the caller's
or that of the adoption in progress, that both already have a snapshot in the phases
in which commands run, and that an adoption reaches `save` only through `protected`.
`PublishedStands` needs that a rollback or an undo is only under way while nothing
was published, and that `published` does not become true any more after the handler
has failed.

`Implements` adds `OwnsOne` (an invocation owns one stash at a time, and what it drops
as its own is that one) and `ReportsInOrder` (which report is made in which phase, and
where a lost ownership leads).  With them the initial states are states of
`SyncContract`, and each action is one of its actions or leaves its variables alone.

`OwnershipFreezes` adds `MergeOK`.  Only the abort of a merge runs Git after a loss was
noticed, and that abort repeats the check of the refs.  It fails again: a merge is the
caller's, the branch it was lost on is beyond where the journal has it, and other writers
only add commits to it, so that it never comes back to what the journal expects.

`RolledBackIsUnpublished` adds `RemoteKnown`: as long as nothing was published, the remote
is what it was unless a write of it went unreported.  A rollback is only reported where
nothing was published (`ReportsInOrder` and the contract).

`RollbackIsExact` assumes `Alone`: no other writers, and every run starts from a
repository in which no merge is under way, no branch is checked out twice, a branch that
is checked out exists and the stash list is the operator's.  (Git and preflight see to the
first three; what an earlier invocation left in the list has another object name, and is
the operator's to this one.)  The invocations of
`MCStrictSync` are such.  Its invariant `Accounted` says what a rollback
needs to know at every step, and how far it has come:

* `Laid`: a branch that is not in the journal is where it was, and the journal knows where
  the others were; only the caller and adopted siblings have moved, a branch is checked
  out once, and the records (one snapshot of a worktree, one adoption) are of what was
  there first, however often a worktree is captured or claimed.
* `Kept`: a worktree that is not claimed has its edits, unless a capture holds them or has
  lost them; each backup is in the stash list at most once, is of what was there first,
  and a backup marked as dropped is gone.
* `Framed`: what the commands, captures and drops under way will do to these.
* `RollbackComes`: after which of its steps a rollback has which part back.

Every action has a lemma that it keeps `Accounted`.  The rollback turns `Laid` and `Kept`
into equalities with `start`, one loop after the other, and the proof is about their
order: that the hard resets of the contents loop move no branch needs that branches and
checkouts are back by then; that a sibling can have its branch again needs that the
caller has let go of it.

`WorkIsNotLost` also assumes `Anchored`: no checkout is detached at a commit that no
branch, here or on the remote, has; switching away from it would leave the commit to the
reflog.  The invocations of `MCStrictSync` are such.  `LostInAdoption` is the one case left
out, that of `published_handoff`: a run fails after a publication, and a sibling it claimed
is not adopted because the capture's stash could not be applied.  `NoWorkLost` does not say
where a change is, so it is not inductive.  The invariant `WInv` says where each one is:

* `HistoryKept`: the remote loses no change, a local branch only those that the remote
  has, and the stash list none of the operator's.
* `WorkTraced`: the edits of a claimed worktree are in it, in a commit that is saved, in a
  stash of the invocation, or in their backup; which of these, the phase says.  A cleanup
  that drops the backups starts from edits that are traced without them.
* `Way`: what has become of the caller's edits by the time the handler reaches a step.  It
  resets a branch only when the worktree is clean, the branch checked out and everything on
  it on the remote; it drops a stash of its own only after it was applied.

`Accounted` has the edits of the worktrees that are not claimed; together they imply the
theorem.  TLC finds `WInv` to hold on the instance of `strict_sync`.

The first lemmas of `StrictSyncProofs` are on the operators: what each Git operation
returns is a repository, and which of its fields it leaves alone.

### Dirty-work clusters

`DirtyClustersProofs` proves, for every set of paths, every sequence of clusters and
every starting worktree, from `DirtyClustersAssumption` (the constants have their
types):

* `TypeCorrect`: `Spec => []TypeOK`.
* `CheckpointCommitted`: `Spec => CommitsTheCheckpoint`, with or without the race.
* `SavedCommitted`: `Spec => []SavedMeansCommitted`, with or without the race.
* `ClusterCommitted`: if `~Racing`, `Spec => []CommitsHoldTheirCluster`.

The argument of the second: `LockOK` says at which steps gix holds the lock, `ProbeOK`
that what validation has read under the lock is still there, `VerifiedOK` that after
the comparison HEAD, the index and the intents are the checkpoint until the commit.
The third adds `SettledOK`: the clusters that are done with are in HEAD *and* in the
index as they are on disk, so that neither the `git reset` before the next cluster nor a
commit of the whole index by anybody loses them, and `StagedOK`: so is the cluster in hand
as far as it has been staged, because whoever stages stages what the files hold.
The fourth adds `ClusterOK`: the staged paths lie in the cluster from the check to the
recording of the entries (this is where staging in between would break it), and from
then on the entries of the checkpoint differ from HEAD only within the cluster as long
as HEAD is the one recorded; `CheckpointCommitted`'s invariant says that it is when the
commit is made.

### Workflow executor

`WorkflowExecutorProofs` proves, for any workflows, repositories, workers and
cancellations, from `WorkflowAssumption` (the steps are finitely many, each is named once
in the file, there is a repository):

* `NeverTwo`: `Spec => []NeverTwoAtOnce`.  The invariant `IInv` adds that what a worker holds
  has been handed over before (`repository < next`), so that the next repository is held by
  nobody, and that workers exist only while a batch is dispatched or waited for.
* `TypeCorrect`, `AsPlanned`: `[]TypeOK` and `[]RunsAsPlanned`.
* `OneByOne`, `OkTellsAll`: `[]OneWorkerIsSequential` and `[]OkMeansAllRan`.
* `OutcomeHolds`: `[]OutcomeIsTrue`, which is these two and `OutcomeIsSequential`: what is
  listed of a run is what a run with one worker would list of the same histories, and what
  is told of a name is how it ended last under its key, for any labels.

`AsPlanned` rests on two things.  The first is about the algorithm alone: what counting
dependencies down comes to.  Rounds are an iteration (`Unfolds`, by the least round that is
not as it should be; no induction theorem is needed), and in each of them a step's count is
the number of its dependencies that are not placed yet (`NextRoundSound`), so that it is ready
in the round after its last dependency.  `PlanShape` says of the plan what `PlanIsRight` asks
for.  A workflow is refused only if it is ill (`RefusedIsIll`: among the steps that are left,
one that waits for the fewest of them waits for one that waits for fewer), and one that is kept
is not (`KeptIsWell`: what a step waits for, directly or through others, lies in earlier
stages).  `BeforeIsClosed` is what makes `Before`, which goes through as many lengthenings as
there are steps, mean "directly or through others".

The second is the invariant `RunInv`.  `Planning` says when there is a plan, `Batching` that a
batch is what lies between two stages that run by themselves.  `Progress` says of every
history that it is in sequence (`InSequence`: an entry has ended and lies behind every later
one by its stage and its place in it, and admits it), and how far it is: behind the batch
while the repository waits for a worker, behind the next stage once it is given back, and
behind the worker's own position while one is at it (`Doing`, which also says that a worker
with an aborting verdict in this batch has `failed` set, and within a stage only a failure).
The abort scope needs `Batching`: entries of earlier batches are cut off by a stage that
ran by itself.

`OkTellsAll` needs an account of what has *not* run, `Told`: unless the run is cancelled,
every repository has run and passed all that lies behind it (`Ran`; for one a worker is at,
`RanBy`), or there is something to tell (`Excused`): a failure of the run, a skip, a mask.
While a batch runs, what there is to tell may still be in a result: the one the worker fills,
or the one it has stored.  Joining the results is then where nothing may get lost
(`CollectResultsTold`, from `FlattenedIs`: what is joined holds each element of each part).

`OutcomeHolds` needs an account of what *has* ended, `Reported`.  `OutcomeIsSequential` states
of each of the two lists (operations, failures) which lines it has and that they are in turn;
as `Precedes` is a strict order, this leaves one sequence, and no line can be in it twice.
`Booked` says the same of every state on the way (`Listed`): between batches a list has
exactly the lines of all histories, in turn; during a batch it has those of the stages before
the batch (`Until(Start)`), and each result, stored or being filled by a worker, has those of
its repository from the batch on (`From(Start)`).  `Overall` says how far the steps are that
run once for all, and that each of them has ended at the end.  Two steps add lines.
A name stands in the list in the order of the repositories (`SoonerElsewhere`), so that what
was written last under a key is that of the last repository (`LastIsTold`).
`CollectResultsBooked` joins the results (`ListedAll`, `BatchListed`): the lines of the batch
come after all that is there already, because a stage that ran by itself lies between
(`BatchFollows`), and in it repositories follow each other as the results do, whatever the
order in which the workers finished.  `EndGlobalBooked` adds one line, which is the last one
in turn (`StepAddsLine`, `StepIsToldLast`).  `StageRises` turns the place of a step in its
stage into its place in the file, which is what `Precedes` goes by.

### Merge conflicts

`MergeResolutionProofs` proves `InvariantHolds`, `TypeCorrect` and `ResolutionSound`
(`[]ResolutionIsSound`) for any files, regions, sides and answers, from
`MergeResolutionAssumption`: requests have their type, `MaxAttempts` is at least one, and
the validation of a text finds one thing of it (`OneVerdict`; it is a function of the
region and the text in the code).  `PlaceInv` says where the resolution stands among the
paths, `TextsInv` that what has been resolved of a file is its first regions, each
rightly, from the answer to the file written and staged, `IndexInv` that exactly the files
before this one are staged, `NoiseInv` that the paths checked so far bring no errors of
white space that are new to both parents, `MergeInv` where the merge may end.  The proof
takes what is derived from a region as given: that it is the merge is
`TextIsTheMerge`, which TLC checks in `MergeConflicts`.

### The other commands

A process runs one command.  `GixCommandsProofs` proves `Invariance`: the invariant of the
command that runs holds and the others have not begun.  From it follow the theorems below,
each about the property of the same component, whatever colleagues and the operator do
meanwhile and whichever call fails.

| Theorem | Inductive invariant | Its argument |
| --- | --- | --- |
| `CdKeeps` | `SwitchIInv`, `AdoptIInv` | While nobody else touches them, the operator's changes are in place, in the entry that was pushed, or in the checkpoint's commit (`SwitchStashOK`), and each step moves them from one to the next.  `SwitchCurrentOK` says from which step on the branch is current.  A sibling's work is in the sibling or committed (`AdoptWorkKept`), it lets the branch go only once it is published (`AdoptReleaseOK`), and a locked one is never reached (`AdoptLockedOK`). |
| `CleanupReported` | `CleanupIInv` | Each place of the list is counted once (`CleanupSummaryOK`), and what is gone was confirmed (`CleanupTouchedOK`). |
| `PreflightLetsPass` | `PreflightIInv` | A worktree nobody else works in is as it was but for a mended link (`PreflightTreesOK`); so what was listed, checked and inspected of it is still so when the plan is made. |
| `RemoteKeeps` | `RemoteIInv` | What the inspection, the resolution and the choice have come to leads to the repository of an origin that was seen, or has its name once a lookup has failed (`RemoteFound`). |
| `MigrationIsSafe` | `MigrateIInv` | Up to the change of the default branch, which is the last step that can end with an error, no pull request and no source branch is touched (`MigrateEarlyIsUntouched`); only a repository whose default is the target is found unprotected; and from the comparison to the deletion the remote target goes on containing what was compared, because pushes only add and gix's own is a fast forward (`MigrateStillContained`). |
| `AnswersEarned` | `ModelIInv` | Each packet takes two messages, the bump is the highest one audited (`ModelDecisionOK`), and the connections that failed before an answer are the preferred ones (`ModelChatOK`). |
| `PublishedStand` | `ReleaseIInv` | A forced push changes the tag of the mapping at hand only, every other push a tag that is not there. |
| `TagsRight` | `ReleaseIInv`, `ReleaseVersionOK` | Versions are totally ordered by their numbers from the left; the tags are finite, so the listed ones have a latest, and the next is above it and hence above every one that was listed. |
| `NewestKept` | `RetentionIInv` | What a run has left and has deleted is together the surplus of what it listed, and the deleted ones are older (`RetentionRunOK`); those it keeps are at least as many as asked. |
| `PurgeReported` | `PurgeIInv` | The fetch knows every branch of the server and the filter makes each a local one (`PurgeDomainsOK`); what was rewritten holds nothing of the paths (`PurgeCleanOK`). |
| `RewriteWhole` | `NamespaceIInv` | Files, index and commit are each those of the start or those of the plan, and which of the two is settled by the step. |
| `TasksKeep` | `TaskIInv` | From its preparation to the checkout back HEAD is on the task's branch, which did not exist before (`TaskHeadOK`).  The default steps that are left are in order, so that a commit comes after the branch and a request after the push (`TaskStepsOK`, `TaskRequestsOK`).  From the look at the worktree on the index is HEAD's but for the operation's own files, whatever the operator saves (`TaskContentOK`).  The base of a cleanup contains the branch, and the operator only adds commits (`TaskCleanupOK`). |
| `QueueSound` | `WebIInv` | A path has one change of a kind (`WebOnce`), and a row that goes or no longer asks for its change takes it along.  A batch lists every queued change once, in the one order there is, and its results are those of its first changes (`WebBatchOK`). |
| `RenameTells` | `RenameIInv` | A repository nobody else moves is where its own steps put it (`RenamePlaced`), because no path of another lies above it (`RenameUncarried`; intermediate names lie apart).  The place it left stays free (`RenameLeft`), and whatever is occupied lies in something that exists (`RenameClosed`), so that a move brings nothing to where something is.  With one worker deeper repositories go first, and no other one is where one is renamed (`RenameHolds`, `RenameDone`, `RenameThere`). |
| `TypesKept` | `IInv`, `TypesIInv` | Most types are part of the invariants above.  The others need that the order of the connections names each once (`ModelOrderOnce`), that a version made of a latest tag or a time is one (`ReleaseChosen`), that a remote with a known URL is one of the repository's (`PurgeTypes`), and that what is left to delete was listed (`RetentionTypes`). |

The assumptions are those of the modules, evaluated by TLC in every run.  Beyond the types:

* `SwitchAssumption`: HEAD is on a branch or commit that is there and a branch follows a remote
  that is configured, as Git keeps them; a workflow captures a name as a branch or as a
  commit and not as both, which `validateBranchCaptureBindings` refuses.
* `AdoptAssumption`: a branch a worktree has checked out exists.
* `PreflightAssumption`: paths are numbers (so that they have an order, in which they are
  listed), and the worktree gix runs in is linked to this repository.
* `RemoteAssumption`: a slug GitHub redirects to is redirected no further; it answers with
  the name a repository has now.
* `ModelAssumption`: the two profiles are different ones, priorities are numbers, a diff has
  at least one packet.
* `ReleaseAssumption`: a repository has finitely many tags, a retag has mappings, tags name
  commits, a tag given on the command line is a sequence of numbers (a name that is no
  version is the empty one).
* `MigrateAssumption`: a branch that is absent is not a set of commits.
* `RenameAssumption`: what the paths of a run lead through exists, and no two repositories lie
  at one path; the intermediate names are no names of the run.
* `TaskAssumption`: a workflow has operations, the repository it runs in has a commit, its files
  are finitely many.

### Only model-checked

* Liveness (`EveryRunTells`, `LockIsReleased`, `RunEnds`, `EveryResolutionEnds`,
  `EveryCommandEnds`): out of the prover's reach.
* `TextIsTheMerge` and `FilesAreCutRight` of `MergeConflicts`: folds and recursive functions.
* `OutcomeIsHonest` and `NothingOutsideIsLost` of `StrictSync` as wholes.  Proved of them
  are `RollbackMeansUnpublished`, and `RollbackRestores`, `MovesAreJournaled` and
  `NoWorkLost` when no one else is at work.  The rest (`SyncedIsSettled`,
  `SyncedKeepsWork`, and what is restored and kept among other writers, whose commits and
  stashes `Accounted` and `WInv` do not follow) stays with TLC.

## Not modelled

The difference between staged and unstaged edits in strict sync (a stash is applied
with `--index` and keeps both), submodules, hook side effects, message and pull-request
texts, prompts (what a reply contains is chosen by the action).

* **Ignored files.**  Removing a sibling worktree deletes them; no module has them.
* **Preflight**: the other repository coming back between the look at a worktree that is not
  ours and the repair is not explored: `git worktree repair` relinks every registered
  worktree, whatever paths it is given, so that this outcome depends on Git's version.
* **Adoption outside strict sync**: a sibling in the middle of a merge is staged and
  committed like any other (no preflight looks at it there); merges are not in
  `WorktreeAdoption`.
* **Command execution** (`execshell`): runs a process and words what it did.  What the
  modules need of it is that a command succeeds, fails, or takes effect and fails.
* **Two late failures**: `git stash push` of `gix cd` and `git checkout -B` of a task only
  succeed or fail here.  If they took effect and were reported as failed (a signal, a
  `post-checkout` hook), the edits would stay in the stash list, as it is not counted as
  pushed (task_action.go:288), and the operator on the branch of the task, as it is not
  marked prepared (action_builtin.go:71): `CdKeepsWork` and `TaskKeepsToItsWork` exclude this.
* **The page**: every repository is on the default branch of its remote; off it the page
  offers neither a sync nor a changelog.
* **Command line and configuration**: parsing and wiring, no state that outlives a call.
* **`cmd/cli/application_web_workflow_primitives.go`**: compiled, but the server routes no
  request to it.
* **Workflow executor**: discovery, variables and the wording of reports; the other
  operations (`operations_command.go`, `task_actions_replace.go`) run one command in one
  repository.
* **Audit**: discovery and inspection are modelled where `RemoteUpdate` and `WebWorkspace`
  use them; the report is layout.

## Plan

1. *(done)* `GitRepository`, `StrictSyncTransaction`, `StrictSync`, `SyncContract`,
   `SyncPreflight`, their runs, the inductive invariant and its theorems.
2. *(done)* `DirtyClusters`, its runs and theorems.
3. *(done)* `MergeTokens`, `MergeMarkers`, `MergeResolution`, `MergeConflicts`;
   `ResolutionIsSound` is proved.
4. *(done)* `WorkflowExecutor`, its runs and its theorems.
5. *(done)* the commands composed by `GixCommands`, whose safety properties are proved.
6. *(done)* Proofs of `OwnershipLossFreezes`, of the refinement `KeepsContract` and of what a
   rollback restores, and of `NoWorkLost`.  To be proved: what is left of `OutcomeIsHonest`.
7. To model: `operations_command.go` and `task_actions_replace.go`, the concurrent
   audit report (`operation.go`), configuration loading.
