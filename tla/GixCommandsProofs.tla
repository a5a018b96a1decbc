-------------------------- MODULE GixCommandsProofs --------------------------
(***************************************************************************)
(* What the commands of gix promise, for every instance of GixCommands:    *)
(* the inductive invariant is that of the command that runs, the others    *)
(* are not begun.                                                          *)
(***************************************************************************)
EXTENDS GixCommands, WorktreeCommandsProofs, RepositoryCommandsProofs

\* The command that runs keeps its own invariant, and no other has begun.
IInv ==
    /\ IF command = "switch" THEN SwitchIInv ELSE SwitchUnused
    /\ IF command = "adopt" THEN AdoptIInv ELSE AdoptUnused
    /\ IF command = "cleanup" THEN CleanupIInv ELSE CleanupUnused
    /\ IF command = "task" THEN TaskIInv ELSE TaskUnused
    /\ IF command = "rename" THEN RenameIInv ELSE RenameUnused
    /\ IF command = "remote" THEN RemoteIInv ELSE RemoteUnused
    /\ IF command = "migrate" THEN MigrateIInv ELSE MigrateUnused
    /\ IF command = "model" THEN ModelIInv ELSE ModelUnused
    /\ IF command = "release" THEN ReleaseIInv /\ ReleaseVersionOK ELSE ReleaseUnused
    /\ IF command = "retention" THEN RetentionIInv ELSE RetentionUnused
    /\ IF command = "purge" THEN PurgeIInv ELSE PurgeUnused
    /\ IF command = "preflight" THEN PreflightIInv ELSE PreflightUnused
    /\ IF command = "namespace" THEN NamespaceIInv ELSE NamespaceUnused
    /\ IF command = "web" THEN WebIInv ELSE WebUnused

----------------------------------------

\* A process runs one command, and its step leaves the state of the others alone.
LEMMA OneRuns ==
    ASSUME [Next]_vars
    PROVE  /\ command' = command
           /\ command = "switch" => [SwitchNext]_switchVars
           /\ command # "switch" => UNCHANGED switchVars
           /\ command = "adopt" => [AdoptNext]_adoptVars
           /\ command # "adopt" => UNCHANGED adoptVars
           /\ command = "cleanup" => [CleanupNext]_cleanupVars
           /\ command # "cleanup" => UNCHANGED cleanupVars
           /\ command = "task" => [TaskNext]_taskVars
           /\ command # "task" => UNCHANGED taskVars
           /\ command = "rename" => [RenameNext]_renameVars
           /\ command # "rename" => UNCHANGED renameVars
           /\ command = "remote" => [RemoteNext]_remoteVars
           /\ command # "remote" => UNCHANGED remoteVars
           /\ command = "migrate" => [MigrateNext]_migrateVars
           /\ command # "migrate" => UNCHANGED migrateVars
           /\ command = "model" => [ModelNext]_modelVars
           /\ command # "model" => UNCHANGED modelVars
           /\ command = "release" => [ReleaseNextStep]_releaseVars
           /\ command # "release" => UNCHANGED releaseVars
           /\ command = "retention" => [RetentionNext]_retentionVars
           /\ command # "retention" => UNCHANGED retentionVars
           /\ command = "purge" => [PurgeNext]_purgeVars
           /\ command # "purge" => UNCHANGED purgeVars
           /\ command = "preflight" => [PreflightNext]_preflightVars
           /\ command # "preflight" => UNCHANGED preflightVars
           /\ command = "namespace" => [NamespaceNext]_namespaceVars
           /\ command # "namespace" => UNCHANGED namespaceVars
           /\ command = "web" => [WebNextStep]_webVars
           /\ command # "web" => UNCHANGED webVars
<1>1. CASE UNCHANGED vars
  BY <1>1 DEF vars
<1>2. CASE Next
  BY <1>2 DEF Next, RunSwitch, RunAdopt, RunCleanup, RunTask, RunRename, RunRemote, RunMigrate, RunModel,
    RunRelease, RunWeb, RunRetention, RunPurge, RunPreflight, RunNamespace, Ended, vars
<1>3. QED BY <1>1, <1>2

\* A command that has not begun does not begin.
LEMMA UnusedStays ==
    /\ SwitchUnused /\ UNCHANGED switchVars => SwitchUnused'
    /\ AdoptUnused /\ UNCHANGED adoptVars => AdoptUnused'
    /\ CleanupUnused /\ UNCHANGED cleanupVars => CleanupUnused'
    /\ TaskUnused /\ UNCHANGED taskVars => TaskUnused'
    /\ RenameUnused /\ UNCHANGED renameVars => RenameUnused'
    /\ RemoteUnused /\ UNCHANGED remoteVars => RemoteUnused'
    /\ MigrateUnused /\ UNCHANGED migrateVars => MigrateUnused'
    /\ ModelUnused /\ UNCHANGED modelVars => ModelUnused'
    /\ ReleaseUnused /\ UNCHANGED releaseVars => ReleaseUnused'
    /\ RetentionUnused /\ UNCHANGED retentionVars => RetentionUnused'
    /\ PurgeUnused /\ UNCHANGED purgeVars => PurgeUnused'
    /\ PreflightUnused /\ UNCHANGED preflightVars => PreflightUnused'
    /\ NamespaceUnused /\ UNCHANGED namespaceVars => NamespaceUnused'
    /\ WebUnused /\ UNCHANGED webVars => WebUnused'
<1>1. SwitchUnused /\ UNCHANGED switchVars => SwitchUnused'
  BY DEF SwitchUnused, switchVars, switchSettled, switchEnvironment
<1>2. AdoptUnused /\ UNCHANGED adoptVars => AdoptUnused'
  BY DEF AdoptUnused, adoptVars, adoptRepository, adoptFrame
<1>3. CleanupUnused /\ UNCHANGED cleanupVars => CleanupUnused'
  BY DEF CleanupUnused, cleanupVars, cleanupRefs
<1>4. RemoteUnused /\ UNCHANGED remoteVars => RemoteUnused'
  BY DEF RemoteUnused, remoteVars
<1>5. MigrateUnused /\ UNCHANGED migrateVars => MigrateUnused'
  BY DEF MigrateUnused, migrateVars, migrateGit, migrateHub, migrateSeen
<1>6. ModelUnused /\ UNCHANGED modelVars => ModelUnused'
  BY DEF ModelUnused, modelVars, modelProgress
<1>7. ReleaseUnused /\ UNCHANGED releaseVars => ReleaseUnused'
  BY DEF ReleaseUnused, releaseVars, releaseTags, releaseChoice, releaseRun
<1>8. RetentionUnused /\ UNCHANGED retentionVars => RetentionUnused'
  BY DEF RetentionUnused, retentionVars
<1>9. PurgeUnused /\ UNCHANGED purgeVars => PurgeUnused'
  BY DEF PurgeUnused, purgeVars
<1>10. PreflightUnused /\ UNCHANGED preflightVars => PreflightUnused'
  BY DEF PreflightUnused, preflightVars
<1>11. NamespaceUnused /\ UNCHANGED namespaceVars => NamespaceUnused'
  BY DEF NamespaceUnused, namespaceVars
<1>12. TaskUnused /\ UNCHANGED taskVars => TaskUnused'
  BY DEF TaskUnused, taskVars, taskGiven
<1>13. WebUnused /\ UNCHANGED webVars => WebUnused'
  BY DEF WebUnused, webVars
<1>14. RenameUnused /\ UNCHANGED renameVars => RenameUnused'
  BY DEF RenameUnused, renameVars
<1>15. QED
  BY <1>1, <1>2, <1>3, <1>4, <1>5, <1>6, <1>7, <1>8, <1>9, <1>10, <1>11, <1>12, <1>13, <1>14

\* The worktree commands keep their invariants when they do nothing.
LEMMA WorktreeCommandsStutter ==
    /\ SwitchIInv /\ UNCHANGED switchVars => SwitchIInv'
    /\ AdoptIInv /\ UNCHANGED adoptVars => AdoptIInv'
    /\ CleanupIInv /\ UNCHANGED cleanupVars => CleanupIInv'
<1>1. ASSUME SwitchIInv, UNCHANGED switchVars PROVE SwitchIInv'
  <2>1. SwitchTypedOK' /\ SwitchValuesOK' /\ SwitchPlacesOK'
    BY <1>1 DEF SwitchIInv, SwitchTypedOK, SwitchValuesOK, SwitchPlacesOK, SwitchHasHead, SwitchFollows,
      switchVars, switchSettled, switchEnvironment, switchStep
  <2>2. /\ UNCHANGED <<switchSteps, switchSeed, switchIndex, switchAt, switchRun, switchBegan,
                       switchRepository, switchOutside, switchVariable, switchCaptured>>
        /\ switchStep' = switchStep /\ SwitchSaved' = SwitchSaved
    BY <1>1 DEF switchVars, switchSettled, switchEnvironment, switchStep, SwitchSaved
  <2>3. SwitchStashOK'
    <3>1. /\ SwitchInPlace' <=> SwitchInPlace
          /\ SwitchInStash' <=> SwitchInStash
          /\ SwitchInCommit' <=> SwitchInCommit
      BY <2>2 DEF SwitchInPlace, SwitchInStash, SwitchInCommit
    <3>2. SwitchStashIsSettled' <=> SwitchStashIsSettled
      BY <2>2 DEF SwitchStashIsSettled
    <3>3. QED BY <1>1, <2>2, <3>1, <3>2 DEF SwitchIInv, SwitchStashOK
  <2>4. SwitchReturnOK' /\ SwitchCurrentOK'
    BY <1>1, <2>2 DEF SwitchIInv, SwitchReturnOK, SwitchCurrentOK, SwitchIsCurrent
  <2>5. QED BY <2>1, <2>3, <2>4 DEF SwitchIInv
<1>2. ASSUME AdoptIInv, UNCHANGED adoptVars PROVE AdoptIInv'
  BY <1>2 DEF AdoptIInv, AdoptPlaces, AdoptTypeOK, AdoptWorkKept, AdoptReleaseOK, AdoptUndisturbed,
    AdoptPublished, AdoptHeld, AdoptLockedOK, adoptVars, adoptRepository, adoptFrame
<1>3. ASSUME CleanupIInv, UNCHANGED cleanupVars PROVE CleanupIInv'
  BY <1>3 DEF CleanupIInv, CleanupTypedOK, CleanupLoopOK, CleanupTouchedOK, CleanupSummaryOK, CleanupPlaces,
    CleanupCounted, cleanupBranch, cleanupVars, cleanupRefs
<1>4. QED BY <1>1, <1>2, <1>3

\* So do the repository commands whose step lemmas are of a step that is taken.
LEMMA RepositoryCommandsStutter ==
    /\ RemoteIInv /\ UNCHANGED remoteVars => RemoteIInv'
    /\ PurgeIInv /\ UNCHANGED purgeVars => PurgeIInv'
    /\ NamespaceIInv /\ UNCHANGED namespaceVars => NamespaceIInv'
<1>1. ASSUME RemoteIInv, UNCHANGED remoteVars PROVE RemoteIInv'
  BY <1>1 DEF RemoteIInv, RemotePlaces, RemoteSlugsOK, RemoteOriginSeen, RemoteFound, RemoteKept, RemoteOr,
    RemoteLookup, remoteVars
<1>2. ASSUME PurgeIInv, UNCHANGED purgeVars PROVE PurgeIInv'
  BY <1>2 DEF PurgeIInv, PurgePlaces, PurgeDomainsOK, PurgeCleanOK, PurgeWithOrigin, purgeVars
<1>3. ASSUME NamespaceIInv, UNCHANGED namespaceVars PROVE NamespaceIInv'
  BY <1>3 DEF NamespaceIInv, NamespaceFilesOK, NamespacePlanOK, NamespaceBranchOK, NamespaceGoal,
    NamespacePlanned, NamespaceTouched, NamespaceRewritten, namespaceVars
<1>4. QED BY <1>1, <1>2, <1>3

\* The invariant holds in every reachable state, for any commands, repositories,
\* tags, packages, requests and other writers.
THEOREM Invariance == Spec => []IInv
<1>1. Init => IInv
  BY SwitchInitially, AdoptInitially, CleanupInitially, RemoteInitially, MigrateInitHolds, ModelInitially,
    ReleaseInitHolds, ReleaseVersionInitially, RetentionInitially, PurgeInitially, PreflightInitially,
    NamespaceInitially, TaskFirst, WebFirst, RenameFirst DEF Init, IInv
<1>2. ASSUME IInv, [Next]_vars PROVE IInv'
  <2>1. command' = command
    BY <1>2, OneRuns
  <2>2. CASE command = "switch"
    <3>1. SwitchIInv'
      BY <1>2, <2>2, OneRuns, SwitchStaysTrue, WorktreeCommandsStutter DEF IInv
    <3>2. QED BY <1>2, <2>1, <2>2, <3>1, OneRuns, UnusedStays DEF IInv
  <2>3. CASE command = "adopt"
    <3>1. AdoptIInv'
      BY <1>2, <2>3, OneRuns, AdoptStep, WorktreeCommandsStutter DEF IInv
    <3>2. QED BY <1>2, <2>1, <2>3, <3>1, OneRuns, UnusedStays DEF IInv
  <2>4. CASE command = "cleanup"
    <3>1. CleanupIInv'
      BY <1>2, <2>4, OneRuns, CleanupStaysTrue, WorktreeCommandsStutter DEF IInv
    <3>2. QED BY <1>2, <2>1, <2>4, <3>1, OneRuns, UnusedStays DEF IInv
  <2>5. CASE command = "remote"
    <3>1. RemoteIInv'
      BY <1>2, <2>5, OneRuns, RemoteStep, RepositoryCommandsStutter DEF IInv
    <3>2. QED BY <1>2, <2>1, <2>5, <3>1, OneRuns, UnusedStays DEF IInv
  <2>6. CASE command = "migrate"
    <3>1. MigrateIInv'
      BY <1>2, <2>6, OneRuns, MigrateStep DEF IInv
    <3>2. QED BY <1>2, <2>1, <2>6, <3>1, OneRuns, UnusedStays DEF IInv
  <2>7. CASE command = "model"
    <3>1. ModelIInv'
      BY <1>2, <2>7, OneRuns, ModelStep DEF IInv
    <3>2. QED BY <1>2, <2>1, <2>7, <3>1, OneRuns, UnusedStays DEF IInv
  <2>8. CASE command = "release"
    <3>1. ReleaseIInv' /\ ReleaseVersionOK'
      BY <1>2, <2>8, OneRuns, ReleaseStep, ReleaseVersionStep, ReleaseVersionStutters DEF IInv
    <3>2. QED BY <1>2, <2>1, <2>8, <3>1, OneRuns, UnusedStays DEF IInv
  <2>9. CASE command = "retention"
    <3>1. RetentionIInv'
      BY <1>2, <2>9, OneRuns, RetentionStep DEF IInv
    <3>2. QED BY <1>2, <2>1, <2>9, <3>1, OneRuns, UnusedStays DEF IInv
  <2>10. CASE command = "purge"
    <3>1. PurgeIInv'
      BY <1>2, <2>10, OneRuns, PurgeStep, RepositoryCommandsStutter DEF IInv
    <3>2. QED BY <1>2, <2>1, <2>10, <3>1, OneRuns, UnusedStays DEF IInv
  <2>11. CASE command = "preflight"
    <3>1. PreflightIInv'
      BY <1>2, <2>11, OneRuns, PreflightStep DEF IInv
    <3>2. QED BY <1>2, <2>1, <2>11, <3>1, OneRuns, UnusedStays DEF IInv
  <2>12. CASE command = "namespace"
    <3>1. NamespaceIInv'
      BY <1>2, <2>12, OneRuns, NamespaceStep, RepositoryCommandsStutter DEF IInv
    <3>2. QED BY <1>2, <2>1, <2>12, <3>1, OneRuns, UnusedStays DEF IInv
  <2>13. CASE command = "task"
    <3>1. TaskIInv'
      BY <1>2, <2>13, OneRuns, TaskNextKeeps, TaskStays DEF IInv
    <3>2. QED BY <1>2, <2>1, <2>13, <3>1, OneRuns, UnusedStays DEF IInv
  <2>14. CASE command = "web"
    <3>1. WebIInv'
      BY <1>2, <2>14, OneRuns, WebNextKeeps, WebStays DEF IInv
    <3>2. QED BY <1>2, <2>1, <2>14, <3>1, OneRuns, UnusedStays DEF IInv
  <2>15. CASE command = "rename"
    <3>1. RenameIInv'
      BY <1>2, <2>15, OneRuns, RenameNextKeeps, RenameStays DEF IInv
    <3>2. QED BY <1>2, <2>1, <2>15, <3>1, OneRuns, UnusedStays DEF IInv
  <2>16. CASE command \notin {"switch", "adopt", "cleanup", "remote", "migrate", "model", "release",
                              "retention", "purge", "preflight", "namespace", "task", "web",
                              "rename"}
    BY <1>2, <2>1, <2>16, OneRuns, UnusedStays DEF IInv
  <2>17. QED
    BY <2>2, <2>3, <2>4, <2>5, <2>6, <2>7, <2>8, <2>9, <2>10, <2>11, <2>12, <2>13, <2>14, <2>15, <2>16
<1>3. QED BY <1>1, <1>2, PTL DEF Spec

----------------------------------------

\* gix cd keeps the operator's changes, returns to what it has captured, says when
\* a branch may be behind, and loses nothing of the sibling it adopts a branch from
\* (handleBranchSyncAction, worktreeAdoptionService.Change).
THEOREM CdKeeps == Spec => []CdKeepsWork
<1>1. IInv => CdKeepsWork
  <2>1. ASSUME IInv PROVE SwitchKeepsPromises
    <3>1. CASE command = "switch"
      BY <2>1, <3>1, SwitchKeeps DEF IInv
    <3>2. CASE command # "switch"
      BY <2>1, <3>2 DEF IInv, SwitchUnused, Unused, SwitchKeepsPromises, SwitchStashIsSettled,
        SwitchRestoreReturns, SwitchQuietMeansCurrent
    <3>3. QED BY <3>1, <3>2
  <2>2. ASSUME IInv PROVE AdoptionKeepsWork
    <3>1. CASE command = "adopt"
      BY <2>2, <3>1, AdoptKeeps DEF IInv
    <3>2. CASE command # "adopt"
      BY <2>2, <3>2 DEF IInv, AdoptUnused, Unused, AdoptionKeepsWork, AdoptionLosesNothing,
        ReleasedMeansPublished, LockedSiblingsStay
    <3>3. QED BY <3>1, <3>2
  <2>3. QED BY <2>1, <2>2 DEF CdKeepsWork
<1>2. QED BY <1>1, Invariance, PTL

\* The report of a purge of merged branches says of every branch of the listing,
\* once, what became of it (Service.Cleanup of internal/branches).
THEOREM CleanupReported == Spec => []CleanupReportIsTrue
<1>1. ASSUME IInv PROVE CleanupReportIsTrue
  <2>1. CASE command = "cleanup"
    BY <1>1, <2>1, CleanupReports DEF IInv
  <2>2. CASE command # "cleanup"
    BY <1>1, <2>2 DEF IInv, CleanupUnused, Unused, CleanupReportIsTrue
  <2>3. QED BY <2>1, <2>2
<1>2. QED BY <1>1, Invariance, PTL

\* A preflight mends lost links only, lets idle worktrees pass only, and refuses for
\* a reason, whoever works in the worktrees meanwhile (resolveStrictSyncWorktrees).
THEOREM PreflightLetsPass == Spec => []PreflightIsSafe
<1>1. ASSUME IInv PROVE PreflightIsSafe
  <2>1. CASE command = "preflight"
    BY <1>1, <2>1, PreflightSafe DEF IInv
  <2>2. CASE command # "preflight"
    BY <1>1, <2>2 DEF IInv, PreflightUnused, Unused, PreflightIsSafe, OnlyLostLinksChange,
      PlansAreForIdleWorktrees, RefusalsHaveReasons
  <2>3. QED BY <2>1, <2>2
<1>2. QED BY <1>1, Invariance, PTL

\* An update of origin keeps the repository, or at least its name once a lookup has
\* failed, even when the operator sets origin meanwhile (remotes.Executor).
THEOREM RemoteKeeps == Spec => []RemoteKeepsRepository
<1>1. ASSUME IInv PROVE RemoteKeepsRepository
  <2>1. CASE command = "remote"
    BY <1>1, <2>1, RemoteIsKept DEF IInv
  <2>2. CASE command # "remote"
    BY <1>1, <2>2 DEF IInv, RemoteUnused, Unused, RemoteKeepsRepository
  <2>3. QED BY <2>1, <2>2
<1>2. QED BY <1>1, Invariance, PTL

\* A migration deletes on the remote only what it verified and the target contains,
\* and one that ends with an error has touched no pull request, deleted nothing
\* and left the default branch, unless setting that is what is reported as failed
\* (Service.Execute of internal/migrate).
THEOREM MigrationIsSafe == Spec => []MigrateIsSafe
<1>1. ASSUME IInv PROVE MigrateIsSafe
  <2>1. CASE command = "migrate"
    BY <1>1, <2>1, MigrateKeeps DEF IInv
  <2>2. CASE command # "migrate"
    BY <1>1, <2>2 DEF IInv, MigrateUnused, Unused, MigrateIsSafe, MigrateDeletesVerified, MigrateFailsEarly
  <2>3. QED BY <2>1, <2>2
<1>2. QED BY <1>1, Invariance, PTL

\* An answer is that of the first connection in order that has not failed, and a
\* bump is the highest of those audited (client.FailoverClient, semver.Decide).
THEOREM AnswersEarned == Spec => []AnswersAreEarned
<1>1. ASSUME IInv PROVE AnswersAreEarned
  <2>1. CASE command = "model"
    BY <1>1, <2>1, ModelEarned DEF IInv
  <2>2. CASE command # "model"
    BY <1>1, <2>2 DEF IInv, ModelUnused, Unused, AnswersAreEarned, FallbackKeepsPriority, DecisionIsAudited
  <2>3. QED BY <2>1, <2>2
<1>2. QED BY <1>1, Invariance, PTL

\* A version is deleted only while as many newer ones exist as are to be kept, the
\* oldest first, whatever is published meanwhile (Service.ApplyRetention).
THEOREM NewestKept == Spec => []NewestAreKept
<1>1. ASSUME IInv PROVE NewestAreKept
  <2>1. CASE command = "retention"
    BY <1>1, <2>1, RetentionKeeps DEF IInv
  <2>2. CASE command # "retention"
    BY <1>1, <2>2 DEF IInv, RetentionUnused, NewestAreKept
  <2>3. QED BY <2>1, <2>2
<1>2. QED BY <1>1, Invariance, PTL

\* A purge that reports success has left nothing of the paths in any branch here,
\* nor on the server but in what was pushed there after it (history.Executor).
THEOREM PurgeReported == Spec => []PurgeReportsTrue
<1>1. ASSUME IInv PROVE PurgeReportsTrue
  <2>1. CASE command = "purge"
    BY <1>1, <2>1, PurgeIsTrue DEF IInv
  <2>2. CASE command # "purge"
    BY <1>1, <2>2 DEF IInv, PurgeUnused, Unused, PurgeReportsTrue
  <2>3. QED BY <2>1, <2>2
<1>2. QED BY <1>1, Invariance, PTL

\* A rewrite reported as done has every file rewritten that it could, all in the
\* commit of the new branch; one that is skipped has changed nothing
\* (namespace.Service.Rewrite).
THEOREM RewriteWhole == Spec => []RewriteIsWhole
<1>1. ASSUME IInv PROVE RewriteIsWhole
  <2>1. CASE command = "namespace"
    BY <1>1, <2>1, NamespaceWhole DEF IInv
  <2>2. CASE command # "namespace"
    BY <1>1, <2>2 DEF IInv, NamespaceUnused, Unused, RewriteIsWhole
  <2>3. QED BY <2>1, <2>2
<1>2. QED BY <1>1, Invariance, PTL

\* A task brings the operator back to the branch it began on, and what a workflow
\* commits, asks to be pulled and deletes is of its own work, also when an action
\* fails half-way and while the operator saves and commits (taskExecutor.Execute,
\* taskPlanner.BuildPlan, the git operations).
THEOREM TasksKeep == Spec => []TaskKeepsToItsWork
<1>1. ASSUME IInv PROVE TaskKeepsToItsWork
  <2>1. CASE command = "task"
    BY <1>1, <2>1, TaskKeepsFollows DEF IInv
  <2>2. CASE command # "task"
    BY <1>1, <2>2 DEF IInv, TaskUnused, Unused, TaskKeepsToItsWork, TaskComesBack, OnlyPlannedFilesAreCommitted,
      RequestsShowTheBranch, CleanupLosesNoCommits
  <2>3. QED BY <2>1, <2>2
<1>2. QED BY <1>1, Invariance, PTL

\* Every change in the queue of the audit page is of a row as it was inspected last, a
\* folder to be deleted has no other change, and a batch fixes a folder before it moves
\* it and reports as made only what was, whatever happens on the disk and whichever
\* inspection answers late (audit.js; applyWebAuditChanges).
THEOREM QueueSound == Spec => []QueueIsSound
<1>1. ASSUME IInv PROVE QueueIsSound
  <2>1. CASE command = "web"
    BY <1>1, <2>1, WebKeepsFollows DEF IInv
  <2>2. CASE command # "web"
    BY <1>1, <2>2 DEF IInv, WebUnused, Unused, QueueIsSound, QueueIsOfTheRows, FixesComeBeforeMoves
  <2>3. QED BY <2>1, <2>2
<1>2. QED BY <1>1, Invariance, PTL

\* With any number of workers the executor reports what has become of a repository no
\* other one is renamed into or carries along, and with one worker the path it tells
\* later steps is the repository's own or nobody's, whatever was skipped or failed, and
\* when somebody makes a directory meanwhile (RenameOperation; rename.Executor).
THEOREM RenameTells == Spec => []RenameTellsWhere
<1>1. ASSUME IInv PROVE RenameTellsWhere
  <2>1. CASE command = "rename"
    BY <1>1, <2>1, RenameKeepsFollows DEF IInv
  <2>2. CASE command # "rename"
    BY <1>1, <2>2 DEF IInv, RenameUnused, RenameTellsWhere, RenamePathsAreOwn, RenameReportsTrue
  <2>3. QED BY <2>1, <2>2
<1>2. QED BY <1>1, Invariance, PTL

\* A published tag stays where it is unless a mapping of release retag names it,
\* whoever publishes at the same time (releases.Service, Release and Retag).
THEOREM PublishedStand == Spec => PublishedTagsStand
<1>1. IInv /\ [Next]_vars =>
        [\A t \in ReleaseTags :
           (ReleaseExists(releaseRemote, t) /\ releaseRemote'[t] # releaseRemote[t]) =>
             /\ releaseCommand.op = "retag"
             /\ \E i \in DOMAIN releaseCommand.mappings :
                  releaseCommand.mappings[i].tag = t]_releaseVars
  <2> SUFFICES ASSUME IInv, [Next]_vars, ~(UNCHANGED releaseVars), NEW t \in ReleaseTags,
                      ReleaseExists(releaseRemote, t), releaseRemote'[t] # releaseRemote[t]
               PROVE  /\ releaseCommand.op = "retag"
                      /\ \E i \in DOMAIN releaseCommand.mappings :
                           releaseCommand.mappings[i].tag = t
    OBVIOUS
  <2>1. command = "release" /\ ReleaseNextStep
    BY OneRuns
  <2>2. ReleaseIInv
    BY <2>1 DEF IInv
  <2>3. QED BY <2>1, <2>2, ReleaseStepLeavesTags
<1>2. QED BY <1>1, Invariance, PTL DEF Spec, PublishedTagsStand

\* The next version comes after every version of its line that was listed, even
\* when others tag meanwhile, and what release retag has reported as moved is where
\* it was moved, whatever others push and whichever later mapping fails
\* (releaseversion.go; releases.Service, Retag).
THEOREM TagsRight == Spec => []TagsAreRight
<1>1. ASSUME IInv PROVE TagsAreRight
  <2>1. CASE command = "release"
    BY <1>1, <2>1 DEF IInv, ReleaseIInv, ReleaseMovedOK, ReleaseVersionOK, TagsAreRight
  <2>2. CASE command # "release"
    BY <1>1, <2>2 DEF IInv, ReleaseUnused, TagsAreRight, NextVersionIsNew, MovedTagsAreThere
  <2>3. QED BY <2>1, <2>2
<1>2. QED BY <1>1, Invariance, PTL

----------------------------------------

\* What the invariant of a command says of its types
LEMMA InvariantTypes ==
    /\ SwitchIInv => SwitchTypeOK
    /\ AdoptIInv => AdoptTypeOK
    /\ CleanupIInv => CleanupTypeOK
    /\ TaskIInv => TaskTypeOK
    /\ RenameIInv => RenameTypeOK
    /\ RemoteIInv => RemoteTypeOK
    /\ MigrateIInv => MigrateTypeOK
    /\ WebIInv => WebTypeOK
<1>1. SwitchIInv => SwitchTypeOK
  BY DEF SwitchIInv, SwitchTypedOK, SwitchValuesOK, SwitchTypeOK, SwitchRunType, SwitchRepositoryType,
    SwitchValueOK, SwitchHasHead
<1>2. AdoptIInv => AdoptTypeOK
  BY DEF AdoptIInv, AdoptPlaces
<1>3. CleanupIInv => CleanupTypeOK
  BY DEF CleanupIInv, CleanupTypedOK, CleanupTypeOK
<1>4. TaskIInv => TaskTypeOK
  BY DEF TaskIInv, TaskTypes, TaskTypeOK, TaskRunType, TaskRepositoryType
<1>5. RenameIInv => RenameTypeOK
  <2> SUFFICES ASSUME RenameIInv, NEW r \in RenameRun
               PROVE  /\ renameAt \in [RenameRun -> RenamePCs]
                      /\ renameAttempt[r] \in 0 .. RenameAttempts - 1
                      /\ renameOutcome[r] \in {"none", "skipped", "failed", "renamed"}
                      /\ renameWhere[r] # <<>> /\ Range(renameWhere[r]) \subseteq RenameElement
    BY DEF RenameTypeOK, RenameIInv, RenameTyped
  <2>1. renameWhere[r] \in Seq(RenameElement) \ {<<>>}
    BY DEF RenameIInv, RenameTyped
  <2>2. Range(renameWhere[r]) \subseteq RenameElement
    BY <2>1, ElementOfSeq DEF Range
  <2>3. QED BY <2>1, <2>2 DEF RenameIInv, RenameTyped
<1>6. RemoteIInv => RemoteTypeOK
  BY DEF RemoteIInv, RemotePlaces, RemoteSlugsOK, RemoteFound, RemoteTypeOK
<1>7. MigrateIInv => MigrateTypeOK
  BY MigrateKeeps
<1>8. WebIInv => WebTypeOK
  BY DEF WebIInv, WebTyped, WebFolders, WebBatchOK, WebTypeOK
<1>9. QED BY <1>1, <1>2, <1>3, <1>4, <1>5, <1>6, <1>7, <1>8

\* The types of the commands whose invariant does not say them all
TypesIInv ==
    /\ command \in Commands
    /\ command = "model" => ModelTypeOK
    /\ command = "release" => ReleaseTypeOK
    /\ command = "retention" => RetentionTypes
    /\ command = "purge" => PurgeTypes
    /\ command = "preflight" => PreflightTypeOK
    /\ command = "namespace" => NamespaceTypeOK

\* Every variable keeps its type, and only the command that was given is begun, in
\* every reachable state (the handlers and services of the commands).
THEOREM TypesKept == Spec => []TypesOK
<1>1. Init => TypesIInv
  BY ModelTypesFirst, ReleaseTypesFirst, RetentionTypesFirst, PurgeTypesFirst, PreflightTypesFirst,
    NamespaceTypesFirst DEF Init, TypesIInv
<1>2. ASSUME IInv, IInv', TypesIInv, [Next]_vars PROVE TypesIInv'
  <2>1. command' = command /\ command \in Commands
    BY <1>2, OneRuns DEF TypesIInv
  <2>2. command = "model" => ModelTypeOK'
    BY <1>2, <2>1, OneRuns, ModelTypesStay DEF IInv, TypesIInv
  <2>3. command = "release" => ReleaseTypeOK'
    BY <1>2, <2>1, OneRuns, ReleaseTypesStay DEF IInv, TypesIInv
  <2>4. command = "retention" => RetentionTypes'
    BY <1>2, <2>1, OneRuns, RetentionTypesStay DEF IInv, TypesIInv
  <2>5. command = "purge" => PurgeTypes'
    BY <1>2, <2>1, OneRuns, PurgeTypesStay DEF IInv, TypesIInv
  <2>6. command = "preflight" => PreflightTypeOK'
    BY <1>2, <2>1, OneRuns, PreflightTypesStay DEF IInv, TypesIInv
  <2>7. command = "namespace" => NamespaceTypeOK'
    BY <1>2, <2>1, OneRuns, NamespaceTypesStay DEF IInv, TypesIInv
  <2>8. QED BY <2>1, <2>2, <2>3, <2>4, <2>5, <2>6, <2>7 DEF TypesIInv
<1>3. IInv /\ TypesIInv => TypesOK
  BY InvariantTypes DEF IInv, TypesIInv, TypesOK, RetentionTypes, PurgeTypes
<1>4. Spec => []TypesIInv
  BY <1>1, <1>2, Invariance, PTL DEF Spec
<1>5. QED BY <1>3, <1>4, Invariance, PTL

========================================
