----------------------------- MODULE GixCommands -----------------------------
(***************************************************************************)
(* The commands of gix beside the strict sync, the preflight of that, and  *)
(* the adoption of a sibling worktree: a process of gix runs one of them,  *)
(* each with its own state, on the repositories (or packages, or the       *)
(* browser) it was given.  The state of the others stays Unused.           *)
(***************************************************************************)
EXTENDS BranchSwitch, WorktreeAdoption, BranchCleanup, WorkflowTasks, RepositoryRename,
        RemoteUpdate, DefaultMigration, ModelRequests, Releases, WebWorkspace,
        PackageRetention, HistoryPurge, SyncPreflight, NamespaceRewrite

CONSTANT Commands   \* those an operator may give

VARIABLE command

Unused == "idle"

ASSUME CommandsAssumption ==
    Commands \subseteq {"switch", "adopt", "cleanup", "task", "rename", "remote",
        "migrate", "model", "release", "web", "retention", "purge", "preflight",
        "namespace"}

----------------------------------------

SwitchUnused ==
    /\ switchSteps = Unused /\ switchIndex = Unused /\ switchAt = Unused
    /\ switchRun = Unused /\ switchBegan = Unused /\ switchRepository = Unused
    /\ switchOutside = Unused /\ switchSeed = Unused /\ switchVariable = Unused
    /\ switchCaptured = Unused

AdoptUnused ==
    /\ adoptAsked = Unused /\ adoptAt = Unused /\ adoptSibling = Unused
    /\ adoptBranch = Unused /\ adoptCaller = Unused /\ adoptAgain = Unused
    /\ adoptStatus = Unused /\ adoptOutside = Unused

CleanupUnused ==
    /\ cleanupAsked = Unused /\ cleanupAt = Unused /\ cleanupRemote = Unused
    /\ cleanupLocal = Unused /\ cleanupListed = Unused /\ cleanupLeft = Unused
    /\ cleanupAll = Unused /\ cleanupFailed = Unused /\ cleanupAllowed = Unused
    /\ cleanupRevived = Unused /\ cleanupSummary = Unused

TaskUnused ==
    /\ taskOperations = Unused /\ taskJoined = Unused /\ taskIndex = Unused
    /\ taskAt = Unused /\ taskRun = Unused /\ taskBegan = Unused
    /\ taskRepository = Unused /\ taskShared = Unused /\ taskOutside = Unused

RenameUnused ==
    /\ renameAsked = Unused /\ renameWaiting = Unused /\ renameAt = <<>>
    /\ renameWhere = Unused /\ renamePath = Unused /\ renameAttempt = Unused
    /\ renameOutcome = Unused /\ renameDirectories = Unused /\ renameAll = Unused
    /\ renameOutside = Unused

RemoteUnused ==
    /\ remoteAsked = Unused /\ remoteAt = Unused /\ remoteOrigin = Unused
    /\ remoteInspection = Unused /\ remoteResolved = Unused /\ remoteTarget = Unused
    /\ remoteOutcome = Unused /\ remoteBlind = Unused /\ remoteSeen = Unused

MigrateUnused ==
    /\ migrateAsked = Unused /\ migrateAt = Unused /\ migrateLocal = Unused
    /\ migrateRemote = Unused /\ migrateDefault = Unused /\ migratePages = Unused
    /\ migrateOpen = Unused /\ migrateListed = Unused /\ migrateClosed = Unused
    /\ migrateVerified = Unused /\ migrateMissing = Unused /\ migrateFiles = Unused
    /\ migrateEnabled = Unused /\ migrateGuarded = Unused /\ migrateDeleted = Unused
    /\ migrateOutcome = Unused

ModelUnused ==
    /\ modelRequest = Unused /\ modelAt = Unused /\ modelCandidates = Unused
    /\ modelTried = Unused /\ modelExpired = Unused /\ modelReply = Unused
    /\ modelCandidateBump = Unused /\ modelAudited = Unused /\ modelBump = Unused
    /\ modelChats = <<>> /\ modelOutcome = Unused /\ modelCaptured = Unused

ReleaseUnused ==
    /\ releaseAsked = Unused /\ releaseAt = Unused /\ releaseLocal = Unused
    /\ releaseRemote = [t \in ReleaseTags |-> ReleaseNoCommit] /\ releaseHead = Unused
    /\ releaseLeft = Unused /\ releaseSource = Unused /\ releaseListed = Unused
    /\ releasePrevious = Unused /\ releaseNext = <<>> /\ releaseTag = Unused
    /\ releaseMapped = Unused /\ releaseMoved = {} /\ releaseReports = Unused

WebUnused ==
    /\ webAt = Unused /\ webDisk = Unused /\ webExplorer = Unused /\ webScope = Unused
    /\ webRows = <<>> /\ webRowsOf = Unused /\ webShown = Unused /\ webQueue = {}
    /\ webNext = Unused /\ webInspections = Unused /\ webApplying = Unused
    /\ webBatch = <<>> /\ webResults = <<>> /\ webRefresh = Unused /\ webUnresolved = {}
    /\ webEdits = Unused /\ webRequests = Unused

RetentionUnused ==
    /\ retentionAsked = Unused /\ retentionAt = Unused /\ retentionPackage = Unused
    /\ retentionPublished = Unused /\ retentionEver = Unused /\ retentionPage = Unused
    /\ retentionListed = Unused /\ retentionTwice = Unused /\ retentionLeft = Unused
    /\ retentionDeleted = [r \in RetentionRepositories |-> {}]

PurgeUnused ==
    /\ purgeAsked = Unused /\ purgeAt = Unused /\ purgeRemoteName = Unused
    /\ purgeURLKnown = Unused /\ purgeConfigured = Unused /\ purgeHeads = Unused
    /\ purgeTracking = Unused /\ purgeRemote = Unused /\ purgeUpstream = Unused
    /\ purgeEver = Unused /\ purgeInspected = Unused /\ purgeLast = Unused

PreflightUnused ==
    /\ preflightAsked = Unused /\ preflightAt = Unused /\ preflightTrees = Unused
    /\ preflightListed = Unused /\ preflightLeft = Unused /\ preflightMark = Unused
    /\ preflightRepair = Unused /\ preflightRepaired = Unused /\ preflightHolders = Unused
    /\ preflightFailed = Unused /\ preflightOutside = Unused

NamespaceUnused ==
    /\ namespaceAsked = Unused /\ namespaceAt = Unused /\ namespacePlan = Unused
    /\ namespaceFiles = Unused /\ namespaceIndex = Unused /\ namespaceBranch = Unused
    /\ namespaceCommitted = Unused /\ namespacePushed = Unused
    /\ namespaceVariable = Unused

Init ==
    /\ command \in Commands
    /\ IF command = "switch" THEN SwitchInit ELSE SwitchUnused
    /\ IF command = "adopt" THEN AdoptInit ELSE AdoptUnused
    /\ IF command = "cleanup" THEN CleanupInit ELSE CleanupUnused
    /\ IF command = "task" THEN TaskInit ELSE TaskUnused
    /\ IF command = "rename" THEN RenameInit ELSE RenameUnused
    /\ IF command = "remote" THEN RemoteInit ELSE RemoteUnused
    /\ IF command = "migrate" THEN MigrateInit ELSE MigrateUnused
    /\ IF command = "model" THEN ModelInit ELSE ModelUnused
    /\ IF command = "release" THEN ReleaseInit ELSE ReleaseUnused
    /\ IF command = "web" THEN WebInit ELSE WebUnused
    /\ IF command = "retention" THEN RetentionInit ELSE RetentionUnused
    /\ IF command = "purge" THEN PurgeInit ELSE PurgeUnused
    /\ IF command = "preflight" THEN PreflightInit ELSE PreflightUnused
    /\ IF command = "namespace" THEN NamespaceInit ELSE NamespaceUnused

RunSwitch ==
    /\ command = "switch" /\ SwitchNext
    /\ UNCHANGED <<command, adoptVars, cleanupVars, taskVars, renameVars, remoteVars,
                   migrateVars, modelVars, releaseVars, webVars, retentionVars, purgeVars,
                   preflightVars, namespaceVars>>

RunAdopt ==
    /\ command = "adopt" /\ AdoptNext
    /\ UNCHANGED <<command, switchVars, cleanupVars, taskVars, renameVars, remoteVars,
                   migrateVars, modelVars, releaseVars, webVars, retentionVars, purgeVars,
                   preflightVars, namespaceVars>>

RunCleanup ==
    /\ command = "cleanup" /\ CleanupNext
    /\ UNCHANGED <<command, switchVars, adoptVars, taskVars, renameVars, remoteVars,
                   migrateVars, modelVars, releaseVars, webVars, retentionVars, purgeVars,
                   preflightVars, namespaceVars>>

RunTask ==
    /\ command = "task" /\ TaskNext
    /\ UNCHANGED <<command, switchVars, adoptVars, cleanupVars, renameVars, remoteVars,
                   migrateVars, modelVars, releaseVars, webVars, retentionVars, purgeVars,
                   preflightVars, namespaceVars>>

RunRename ==
    /\ command = "rename" /\ RenameNext
    /\ UNCHANGED <<command, switchVars, adoptVars, cleanupVars, taskVars, remoteVars,
                   migrateVars, modelVars, releaseVars, webVars, retentionVars, purgeVars,
                   preflightVars, namespaceVars>>

RunRemote ==
    /\ command = "remote" /\ RemoteNext
    /\ UNCHANGED <<command, switchVars, adoptVars, cleanupVars, taskVars, renameVars,
                   migrateVars, modelVars, releaseVars, webVars, retentionVars, purgeVars,
                   preflightVars, namespaceVars>>

RunMigrate ==
    /\ command = "migrate" /\ MigrateNext
    /\ UNCHANGED <<command, switchVars, adoptVars, cleanupVars, taskVars, renameVars,
                   remoteVars, modelVars, releaseVars, webVars, retentionVars, purgeVars,
                   preflightVars, namespaceVars>>

RunModel ==
    /\ command = "model" /\ ModelNext
    /\ UNCHANGED <<command, switchVars, adoptVars, cleanupVars, taskVars, renameVars,
                   remoteVars, migrateVars, releaseVars, webVars, retentionVars,
                   purgeVars, preflightVars, namespaceVars>>

RunRelease ==
    /\ command = "release" /\ ReleaseNextStep
    /\ UNCHANGED <<command, switchVars, adoptVars, cleanupVars, taskVars, renameVars,
                   remoteVars, migrateVars, modelVars, webVars, retentionVars, purgeVars,
                   preflightVars, namespaceVars>>

RunWeb ==
    /\ command = "web" /\ WebNextStep
    /\ UNCHANGED <<command, switchVars, adoptVars, cleanupVars, taskVars, renameVars,
                   remoteVars, migrateVars, modelVars, releaseVars, retentionVars,
                   purgeVars, preflightVars, namespaceVars>>

RunRetention ==
    /\ command = "retention" /\ RetentionNext
    /\ UNCHANGED <<command, switchVars, adoptVars, cleanupVars, taskVars, renameVars,
                   remoteVars, migrateVars, modelVars, releaseVars, webVars, purgeVars,
                   preflightVars, namespaceVars>>

RunPurge ==
    /\ command = "purge" /\ PurgeNext
    /\ UNCHANGED <<command, switchVars, adoptVars, cleanupVars, taskVars, renameVars,
                   remoteVars, migrateVars, modelVars, releaseVars, webVars,
                   retentionVars, preflightVars, namespaceVars>>

RunPreflight ==
    /\ command = "preflight" /\ PreflightNext
    /\ UNCHANGED <<command, switchVars, adoptVars, cleanupVars, taskVars, renameVars,
                   remoteVars, migrateVars, modelVars, releaseVars, webVars,
                   retentionVars, purgeVars, namespaceVars>>

RunNamespace ==
    /\ command = "namespace" /\ NamespaceNext
    /\ UNCHANGED <<command, switchVars, adoptVars, cleanupVars, taskVars, renameVars,
                   remoteVars, migrateVars, modelVars, releaseVars, webVars,
                   retentionVars, purgeVars, preflightVars>>

\* Where the command that ran has nothing left to do.
CommandOver ==
    CASE command = "switch" -> switchAt = "done"
      [] command = "adopt" -> adoptAt \in {"done", "refused"}
      [] command = "cleanup" -> cleanupAt \in {"done", "refused"}
      [] command = "task" -> taskAt = "done"
      [] command = "rename" -> Range(renameAt) = {"done"}
      [] command = "remote" -> remoteAt = "done"
      [] command = "migrate" -> migrateAt = "done"
      [] command = "model" -> modelAt = "done"
      [] command = "release" -> releaseAt = "done"
      [] command = "web" -> webInspections = {} /\ webApplying = "no"
      [] command = "retention" -> Range(retentionAt) \subseteq {"done", "failed"}
      [] command = "purge" -> purgeAt \in {"purged", "skipped", "failed"}
      [] command = "preflight" -> preflightAt \in {"planned", "refused"}
      [] command = "namespace" -> namespaceAt \in {"done", "failed", "skipped"}

vars == <<command, switchVars, adoptVars, cleanupVars, taskVars, renameVars, remoteVars,
          migrateVars, modelVars, releaseVars, webVars, retentionVars, purgeVars,
          preflightVars, namespaceVars>>

Ended == CommandOver /\ UNCHANGED vars

Next ==
    \/ RunSwitch
    \/ RunAdopt
    \/ RunCleanup
    \/ RunTask
    \/ RunRename
    \/ RunRemote
    \/ RunMigrate
    \/ RunModel
    \/ RunRelease
    \/ RunWeb
    \/ RunRetention
    \/ RunPurge
    \/ RunPreflight
    \/ RunNamespace
    \/ Ended

\* The process goes on as long as it runs; so do, in time, whoever it has asked.
Fairness ==
    /\ WF_switchVars(command = "switch" /\ SwitchRuns)
    /\ WF_adoptVars(command = "adopt" /\ AdoptRuns)
    /\ WF_cleanupVars(command = "cleanup" /\ CleanupRuns)
    /\ WF_taskVars(command = "task" /\ TaskRuns)
    /\ WF_renameVars(command = "rename" /\ RenameRuns)
    /\ WF_remoteVars(command = "remote" /\ RemoteRuns)
    /\ WF_migrateVars(command = "migrate" /\ MigrateRuns)
    /\ WF_modelVars(command = "model" /\ ModelRuns)
    /\ WF_releaseVars(command = "release" /\ ReleaseRuns)
    /\ WF_webVars(command = "web" /\ WebRuns)
    /\ WF_retentionVars(command = "retention" /\ RetentionRuns)
    /\ WF_purgeVars(command = "purge" /\ PurgeRuns)
    /\ WF_preflightVars(command = "preflight" /\ PreflightRuns)
    /\ WF_namespaceVars(command = "namespace" /\ NamespaceNext)

Spec == Init /\ [][Next]_vars /\ Fairness

\* The command that runs keeps its types, and the others are not begun.
TypesOK ==
    /\ command \in Commands
    /\ IF command = "switch" THEN SwitchTypeOK ELSE SwitchUnused
    /\ IF command = "adopt" THEN AdoptTypeOK ELSE AdoptUnused
    /\ IF command = "cleanup" THEN CleanupTypeOK ELSE CleanupUnused
    /\ IF command = "task" THEN TaskTypeOK ELSE TaskUnused
    /\ IF command = "rename" THEN RenameTypeOK ELSE RenameUnused
    /\ IF command = "remote" THEN RemoteTypeOK ELSE RemoteUnused
    /\ IF command = "migrate" THEN MigrateTypeOK ELSE MigrateUnused
    /\ IF command = "model" THEN ModelTypeOK ELSE ModelUnused
    /\ IF command = "release" THEN ReleaseTypeOK ELSE ReleaseUnused
    /\ IF command = "web" THEN WebTypeOK ELSE WebUnused
    /\ IF command = "retention" THEN RetentionTypeOK ELSE RetentionUnused
    /\ IF command = "purge" THEN PurgeTypeOK ELSE PurgeUnused
    /\ IF command = "preflight" THEN PreflightTypeOK ELSE PreflightUnused
    /\ IF command = "namespace" THEN NamespaceTypeOK ELSE NamespaceUnused

\* gix cd keeps its promises to the worktree it runs in and to the one that has the
\* branch (handleBranchSyncAction, worktreeAdoptionService.Change).
CdKeepsWork == SwitchKeepsPromises /\ AdoptionKeepsWork

\* Every command ends, whatever fails and whatever others do meanwhile (the rounds
\* of a version decision, the names tried by a rename, the pages of a listing, the
\* tags of a script); in the browser, every request is answered.
EveryCommandEnds == []<>CommandOver

========================================
