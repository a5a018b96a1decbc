---------------------------- MODULE WorkflowTasks ----------------------------
(***************************************************************************)
(* Task steps and git steps of a workflow in one repository: safeguards    *)
(* (EvaluateSafeguards), the plan (taskPlanner.BuildPlan and the plans the *)
(* git operations build), the actions with their guards                    *)
(* (taskExecutor.Execute) and the return to the branch the task started    *)
(* on.  A file is the set of its lines, a branch the sequence of its       *)
(* trees.  Commands fail, and the operator works in the repository too.    *)
(***************************************************************************)
EXTENDS Naturals, Sequences, FiniteSets, FiniteSetsExt, SequencesExt

CONSTANTS
    TaskFiles, TaskLines, TaskBranches,
    TaskNobody,        \* no branch, or HEAD detached
    TaskSanitized,     \* sanitizeBranchName, on the names in use
    TaskInvocations    \* [operations, joined, repository]: the operations, whether
                       \* they are the tasks of one step, and the repository

TaskContent == [there: BOOLEAN, lines: SUBSET TaskLines]
TaskMissing == [there |-> FALSE, lines |-> {}]
TaskText(lines) == [there |-> TRUE, lines |-> lines]
TaskTree == [TaskFiles -> TaskContent]

\* A declared file: of the paths a glob matches when it replaces, else of one
TaskFileType ==
    [mode: {"overwrite", "skip", "append", "replace"}, paths: SUBSET TaskFiles,
     lines: SUBSET TaskLines, from: TaskLines, to: TaskLines]

TaskSafeguardType ==
    [clean: BOOLEAN, ignored: SUBSET TaskFiles, changes: BOOLEAN,
     branch: TaskBranches \cup {TaskNobody}, branchNot: TaskBranches \cup {TaskNobody},
     branchIn: SUBSET TaskBranches, paths: SUBSET TaskFiles]

\* The steps a task may name: git.stage-commit is "stage" and "commit",
\* pull-request.open is "push" and "request", custom actions are "action".
TaskStepType == {"prepare", "apply", "stage", "commit", "push", "request", "action"}

TaskOperationType ==
    [kind: {"task", "stage", "commit", "stage-commit", "push", "cleanup", "pr-create", "pr-open"},
     branch: TaskBranches, base: TaskBranches, remote: BOOLEAN, clean: BOOLEAN,
     hard: TaskSafeguardType, soft: TaskSafeguardType,
     files: Seq(TaskFileType), steps: Seq(TaskStepType), actions: BOOLEAN, request: BOOLEAN,
     paths: SUBSET TaskFiles, empty: BOOLEAN]

TaskRepositoryType ==
    [head: TaskBranches \cup {TaskNobody}, at: Seq(TaskTree),
     branches: [TaskBranches -> Seq(TaskTree)], index: TaskTree, work: TaskTree,
     remote: BOOLEAN, server: [TaskBranches -> Seq(TaskTree)], requests: SUBSET TaskBranches]

\* The commits HEAD has, the last one is at its end
TaskHistory(repository) ==
    IF repository.head = TaskNobody THEN repository.at ELSE repository.branches[repository.head]

\* A repository that tasks run in has a commit.
ASSUME TaskAssumption ==
    /\ TaskNobody \notin TaskBranches /\ IsFiniteSet(TaskFiles)
    /\ TaskSanitized \in [TaskBranches -> TaskBranches]
    /\ TaskInvocations \subseteq
         [operations: Seq(TaskOperationType), joined: BOOLEAN, repository: TaskRepositoryType]
    /\ \A asked \in TaskInvocations :
         asked.operations # <<>> /\ TaskHistory(asked.repository) # <<>>

VARIABLES
    taskOperations, taskJoined,
    taskIndex,        \* the operation that runs
    taskAt,           \* where it is
    taskRun,          \* its plan and ExecutionContext
    taskBegan,        \* the repository when it began
    taskRepository,
    taskShared,       \* mutatedFiles and workflowChanges of the repository
    taskOutside       \* what the operator has done meanwhile

taskGiven == <<taskOperations, taskJoined>>
taskVars == <<taskGiven, taskIndex, taskAt, taskRun, taskBegan, taskRepository, taskShared, taskOutside>>

----------------------------------------
\* git

TaskHeadTree(repository) == Last(TaskHistory(repository))

\* git status without the untracked files, CheckStatus's ignore patterns applied
TaskDirty(repository, ignored) ==
    {f \in TaskFiles \ ignored :
        LET committed == TaskHeadTree(repository)[f]
            staged == repository.index[f]
        IN staged # committed \/ (staged.there /\ repository.work[f] # staged)}

\* A checkout carries local changes along where the two commits agree.
TaskCanCheckout(repository, tree) ==
    \A f \in TaskFiles :
        LET now == TaskHeadTree(repository)[f]
        IN now = tree[f] \/ (repository.index[f] = now /\ repository.work[f] = now)

TaskCheckedOut(repository, branch, history) ==
    LET now == TaskHeadTree(repository)
        tree == Last(history)
        moved(files) == [f \in TaskFiles |-> IF now[f] = tree[f] THEN files[f] ELSE tree[f]]
    IN [repository EXCEPT !.head = branch, !.branches[branch] = history,
                          !.index = moved(@), !.work = moved(@)]

TaskExists(branch) == taskRepository.branches[branch] # <<>>

----------------------------------------
\* Safeguards

TaskNoSafeguard ==
    [clean |-> FALSE, ignored |-> {}, changes |-> FALSE, branch |-> TaskNobody,
     branchNot |-> TaskNobody, branchIn |-> {}, paths |-> {}]

TaskCleanEnough(guard) == guard.clean => TaskDirty(taskRepository, guard.ignored) = {}

\* What the workflow has changed settles require_changes, and with it the rest.
TaskSafeguardsPass(guard) ==
    /\ TaskCleanEnough(guard)
    /\ \/ guard.changes /\ taskShared.changed
       \/ /\ guard.changes => TaskDirty(taskRepository, {}) # {}
          /\ guard.branch # TaskNobody => taskRepository.head = guard.branch
          /\ guard.branchNot # TaskNobody => taskRepository.head # guard.branchNot
          /\ guard.branchIn # {} => taskRepository.head \in guard.branchIn
          /\ \A f \in guard.paths : taskRepository.work[f].there

taskOperation == taskOperations[taskIndex]

TaskPCs == {"begin", "hard", "soft", "plan", "delete", "original", "guard", "act",
            "restore", "end", "done"}

TaskFresh ==
    [branch |-> TaskNobody, changes |-> <<>>, steps |-> <<>>, change |-> 1,
     checked |-> FALSE, original |-> TaskNobody, prepared |-> FALSE, committed |-> FALSE,
     outcome |-> "ok", stuck |-> FALSE, consumed |-> {}]

TaskInit ==
    /\ \E asked \in TaskInvocations :
         /\ taskOperations = asked.operations /\ taskJoined = asked.joined
         /\ taskRepository = asked.repository
    /\ taskIndex = 1 /\ taskAt = "begin" /\ taskRun = TaskFresh
    /\ taskBegan = taskRepository
    /\ taskShared = [mutated |-> {}, changed |-> FALSE]
    /\ taskOutside = {}

TaskWithin == UNCHANGED <<taskGiven, taskIndex, taskBegan, taskOutside>>

\* The operation ends here; the branch is restored first once it is known.
TaskStops(outcome) ==
    /\ taskAt' = IF taskRun.prepared THEN "restore" ELSE "end"
    /\ taskRun' = [taskRun EXCEPT !.outcome = outcome]

TaskBegin ==
    /\ taskAt = "begin"
    /\ taskBegan' = taskRepository /\ taskRun' = TaskFresh
    /\ taskAt' = "hard"
    /\ UNCHANGED <<taskGiven, taskIndex, taskRepository, taskShared, taskOutside>>

\* A hard safeguard that does not hold skips the repository, a soft one the
\* operation; reading the repository for one may fail.
TaskSafeguard(level) ==
    LET guard == IF level = "hard" THEN taskOperation.hard ELSE taskOperation.soft
    IN /\ taskAt = level
       /\ \/ guard # TaskNoSafeguard /\ TaskStops("error")
          \/ ~TaskSafeguardsPass(guard) /\ TaskStops(IF level = "hard" THEN "skipped" ELSE "ok")
          \/ /\ TaskSafeguardsPass(guard)
             /\ taskAt' = IF level = "hard" THEN "soft" ELSE "plan"
             /\ UNCHANGED taskRun
       /\ UNCHANGED <<taskRepository, taskShared>>
       /\ TaskWithin

----------------------------------------
\* The plan

\* applyReplacements
TaskReplaced(file, content) ==
    [content EXCEPT !.lines = IF file.from \in @ THEN (@ \ {file.from}) \cup {file.to} ELSE @]

TaskChange(mode, path, content, apply) ==
    [mode |-> mode, path |-> path, content |-> content, apply |-> apply]

\* planFileChanges: what is to be done is decided in the tree of the plan, for
\* every file on its own.
TaskFileChanges(file, tree) ==
    IF file.mode = "replace"
    THEN {TaskChange("overwrite", f, TaskReplaced(file, tree[f]), TRUE) :
            f \in {g \in file.paths : tree[g].there /\ TaskReplaced(file, tree[g]) # tree[g]}}
    ELSE {TaskChange(file.mode, f, TaskText(file.lines),
            ~tree[f].there \/ (CASE file.mode = "skip" -> FALSE
                                 [] file.mode = "append" -> ~(file.lines \subseteq tree[f].lines)
                                 [] OTHER -> tree[f].lines # file.lines)) :
            f \in file.paths}

\* Two files that do not replace may not have one path.
TaskDuplicate(files) ==
    \E i, j \in DOMAIN files : /\ i # j /\ files[i].mode # "replace" /\ files[j].mode # "replace"
                               /\ files[i].paths \cap files[j].paths # {}

\* buildDefaultWorkflowSteps: the whole pipeline when a file changes
TaskDefaultSteps(applies, operation) ==
    (IF ~applies THEN <<>>
     ELSE <<"prepare", "apply", "stage", "commit", "push">>
            \o (IF operation.request THEN <<"request">> ELSE <<>>))
      \o (IF operation.actions THEN <<"action">> ELSE <<>>)

TaskSteps(applies, operation) ==
    IF operation.steps # <<>> THEN operation.steps ELSE TaskDefaultSteps(applies, operation)

\* BuildPlan: a template, a file or a pull request that cannot be read or
\* rendered is an error; nothing to do is no error.
TaskPlan ==
    /\ taskAt = "plan" /\ taskOperation.kind = "task"
    /\ \/ TaskStops("error")
       \/ /\ ~TaskDuplicate(taskOperation.files)
          /\ LET changes == FlattenSeq([i \in DOMAIN taskOperation.files |->
                              SetToSeq(TaskFileChanges(taskOperation.files[i], taskRepository.work))])
                 applies == \E i \in DOMAIN changes : changes[i].apply
                 steps == TaskSteps(applies, taskOperation)
             IN /\ taskRun' = [taskRun EXCEPT !.branch = TaskSanitized[taskOperation.branch],
                                              !.changes = changes, !.steps = steps]
                /\ taskAt' = IF steps = <<>> THEN "end" ELSE IF applies THEN "original" ELSE "guard"
    /\ UNCHANGED <<taskRepository, taskShared>>
    /\ TaskWithin

\* The plans of git stage, git commit, git push, pull-request create and open,
\* each with one pipeline of its own; those of pull requests have names that are
\* sanitized for create only.
TaskGitPlanOf(branch, changes, steps) ==
    [taskRun EXCEPT !.branch = branch, !.changes = changes, !.steps = steps]

TaskStagePlan ==
    TaskGitPlanOf(taskOperation.branch,
        LET paths == SetToSeq(taskOperation.paths)
        IN [i \in DOMAIN paths |-> TaskChange("stage", paths[i], TaskMissing, TRUE)],
        <<"stage">>)

TaskCommitPlan == TaskGitPlanOf(taskOperation.branch, <<>>, <<"commit">>)

TaskPushPlan == TaskGitPlanOf(taskOperation.branch, <<>>, <<"push">>)

TaskCreatePlan == TaskGitPlanOf(TaskSanitized[taskOperation.branch], <<>>, <<"request">>)

TaskOpenPlan == TaskGitPlanOf(taskOperation.branch, <<>>, <<"push", "request">>)

TaskGitPlan ==
    /\ taskAt = "plan" /\ taskOperation.kind \notin {"task", "stage-commit", "cleanup"}
    /\ \/ TaskStops("error")
       \/ /\ taskRun' = CASE taskOperation.kind = "stage" -> TaskStagePlan
                          [] taskOperation.kind = "commit" -> TaskCommitPlan
                          [] taskOperation.kind = "push" -> TaskPushPlan
                          [] taskOperation.kind = "pr-create" -> TaskCreatePlan
                          [] taskOperation.kind = "pr-open" -> TaskOpenPlan
          /\ taskAt' = IF taskOperation.kind # "stage" THEN "guard"
                       ELSE IF taskOperation.paths = {} THEN "end" ELSE "original"
    /\ UNCHANGED <<taskRepository, taskShared>>
    /\ TaskWithin

\* filterMutatedStageTargets: of what has been changed, what is asked for
TaskStageTargets(requested, mutated) ==
    IF mutated = {} THEN requested
    ELSE IF requested = {} THEN mutated ELSE mutated \cap requested

\* git stage-commit stages what the workflow has changed of the paths it names,
\* and those paths as they are when the workflow has recorded nothing; what is
\* recorded is forgotten, also when the plan fails after that.
TaskStageCommitPlan ==
    /\ taskAt = "plan" /\ taskOperation.kind = "stage-commit"
    /\ LET mutated == taskShared.mutated
           targets == SetToSeq(TaskStageTargets(taskOperation.paths, mutated))
           changes == [i \in DOMAIN targets |-> TaskChange("stage", targets[i], TaskMissing, TRUE)]
       IN \/ TaskStops("error") /\ taskShared' \in {taskShared, [taskShared EXCEPT !.mutated = {}]}
          \/ /\ taskShared' = [taskShared EXCEPT !.mutated = {}]
             /\ taskRun' = [taskRun EXCEPT !.changes = changes, !.steps = <<"stage", "commit">>,
                                           !.consumed = mutated]
             /\ taskAt' = IF changes = <<>> THEN "end" ELSE "original"
    /\ UNCHANGED taskRepository
    /\ TaskWithin

TaskReadOriginal ==
    /\ taskAt = "original"
    /\ \/ TaskStops("error")
       \/ /\ taskRun' = [taskRun EXCEPT !.original = taskRepository.head]
          /\ taskAt' = "guard"
    /\ UNCHANGED <<taskRepository, taskShared>>
    /\ TaskWithin

----------------------------------------
\* git branch-cleanup

TaskCompare ==
    /\ taskAt = "plan" /\ taskOperation.kind = "cleanup"
    /\ LET branch == taskOperation.branch
           base == taskOperation.base
           kept == \/ branch = base \/ ~TaskExists(branch) \/ ~TaskExists(base)
                   \/ ~IsPrefix(taskRepository.branches[branch], taskRepository.branches[base])
       IN \/ TaskStops("error")
          \/ TaskStops("ok")     \* kept, or git rev-list has failed
          \/ ~kept /\ taskAt' = "delete" /\ UNCHANGED taskRun
    /\ UNCHANGED <<taskRepository, taskShared>>
    /\ TaskWithin

\* git branch -D: not the branch that is checked out
TaskDelete ==
    /\ taskAt = "delete"
    /\ \/ TaskStops("error") /\ UNCHANGED taskRepository
       \/ /\ taskRepository.head # taskOperation.branch
          /\ taskRepository' = [taskRepository EXCEPT !.branches[taskOperation.branch] = <<>>]
          /\ TaskStops("ok")
    /\ UNCHANGED taskShared
    /\ TaskWithin

----------------------------------------
\* The actions and their guards

taskStep == Head(taskRun.steps)
taskChange == taskRun.changes[taskRun.change]

\* What a task's require_clean ignores: collectIgnoredDirtyPatterns
TaskIgnored ==
    IF taskOperation.kind # "task" THEN {}
    ELSE UNION {guard.ignored : guard \in {g \in {taskOperation.hard, taskOperation.soft} : g.clean}}

\* The worktree is looked at once: the task's own edits do not make it dirty.
TaskGuard ==
    /\ taskAt = "guard" /\ taskRun.steps # <<>>
    /\ LET looks == taskOperation.clean /\ ~taskRun.checked
                      /\ taskStep \in {"prepare", "apply", "stage", "commit", "action"}
           dirty == looks /\ TaskDirty(taskRepository, TaskIgnored) # {}
           refused == \/ dirty
                      \/ taskStep = "prepare" /\ TaskExists(taskRun.branch)
                      \/ taskStep = "push" /\ ~(taskOperation.remote /\ taskRepository.remote)
       IN \/ (looks \/ taskStep = "prepare") /\ TaskStops("error")
          \/ (refused \/ taskStep = "push") /\ TaskStops("skipped")
          \/ ~refused /\ taskAt' = "act" /\ taskRun' = [taskRun EXCEPT !.checked = @ \/ looks]
    /\ UNCHANGED <<taskRepository, taskShared>>
    /\ TaskWithin

\* Every action may fail, and is done with when it has worked.
TaskActs(kind) == taskAt = "act" /\ taskStep = kind /\ TaskWithin

TaskDone ==
    /\ taskAt' = "guard"
    /\ taskRun' = [taskRun EXCEPT !.steps = Tail(@), !.change = 1]

TaskActFails ==
    /\ taskAt = "act"
    /\ TaskStops("error")
    /\ UNCHANGED <<taskRepository, taskShared>>
    /\ TaskWithin

\* branch.prepare: git checkout -B, from the start point when it exists
TaskPrepare ==
    /\ TaskActs("prepare")
    /\ LET history == IF TaskExists(taskOperation.base)
                      THEN taskRepository.branches[taskOperation.base]
                      ELSE TaskHistory(taskRepository)
       IN \/ /\ TaskExists(taskRun.branch)
             /\ TaskStops("skipped") /\ UNCHANGED taskRepository
          \/ /\ ~TaskExists(taskRun.branch) /\ TaskCanCheckout(taskRepository, Last(history))
             /\ taskRepository' = TaskCheckedOut(taskRepository, taskRun.branch, history)
             /\ taskAt' = "guard"
             /\ taskRun' = [taskRun EXCEPT !.steps = Tail(@), !.prepared = TRUE]
    /\ UNCHANGED taskShared

\* The change at hand is behind; the action ends with the last one.
TaskNextChange ==
    IF taskRun.change < Len(taskRun.changes)
    THEN taskRun' = [taskRun EXCEPT !.change = @ + 1] /\ UNCHANGED taskAt
    ELSE TaskDone

\* files.apply: an append reads the file again, everything else writes what
\* was planned.
TaskApply ==
    /\ TaskActs("apply")
    /\ \/ /\ taskRun.changes = <<>> /\ TaskDone /\ UNCHANGED <<taskRepository, taskShared>>
       \/ /\ taskRun.changes # <<>> /\ ~taskChange.apply
          /\ TaskNextChange /\ UNCHANGED <<taskRepository, taskShared>>
       \/ /\ taskRun.changes # <<>> /\ taskChange.apply
          /\ taskRepository' = [taskRepository EXCEPT !.work[taskChange.path] =
               IF taskChange.mode = "append" THEN TaskText(@.lines \cup taskChange.content.lines)
               ELSE taskChange.content]
          /\ taskShared' = [mutated |-> taskShared.mutated \cup {taskChange.path}, changed |-> TRUE]
          /\ TaskNextChange

\* git add: of a file that is there or was
TaskStage ==
    /\ TaskActs("stage")
    /\ \/ /\ taskRun.changes = <<>> /\ TaskDone /\ UNCHANGED taskRepository
       \/ /\ taskRun.changes # <<>> /\ ~taskChange.apply
          /\ TaskNextChange /\ UNCHANGED taskRepository
       \/ /\ taskRun.changes # <<>> /\ taskChange.apply
          /\ taskRepository.work[taskChange.path].there \/ taskRepository.index[taskChange.path].there
          /\ taskRepository' = [taskRepository EXCEPT
               !.index[taskChange.path] = taskRepository.work[taskChange.path]]
          /\ TaskNextChange
    /\ UNCHANGED taskShared

\* git commit: everything that is staged
TaskCommit ==
    /\ TaskActs("commit")
    /\ taskOperation.empty \/ taskRepository.index # TaskHeadTree(taskRepository)
    /\ taskRepository' =
         LET history == Append(TaskHistory(taskRepository), taskRepository.index)
         IN IF taskRepository.head = TaskNobody THEN [taskRepository EXCEPT !.at = history]
            ELSE [taskRepository EXCEPT !.branches[taskRepository.head] = history]
    /\ taskShared' = [taskShared EXCEPT !.changed = TRUE]
    /\ taskAt' = "guard"
    /\ taskRun' = [taskRun EXCEPT !.steps = Tail(@), !.change = 1, !.committed = TRUE]

\* git push --set-upstream: a fast-forward
TaskPush ==
    /\ TaskActs("push")
    /\ TaskExists(taskRun.branch)
    /\ IsPrefix(taskRepository.server[taskRun.branch], taskRepository.branches[taskRun.branch])
    /\ taskRepository' = [taskRepository EXCEPT
         !.server[taskRun.branch] = taskRepository.branches[taskRun.branch]]
    /\ TaskDone
    /\ UNCHANGED taskShared

\* GitHub opens a pull request for a head it has.
TaskRequest ==
    /\ TaskActs("request")
    /\ taskRun.branch # taskOperation.base /\ taskRepository.server[taskRun.branch] # <<>>
    /\ taskRun.branch \notin taskRepository.requests
    /\ taskRepository' = [taskRepository EXCEPT !.requests = @ \cup {taskRun.branch}]
    /\ TaskDone
    /\ UNCHANGED taskShared

\* A custom action: its handler is a component of its own.
TaskAction ==
    /\ TaskActs("action")
    /\ TaskDone
    /\ UNCHANGED <<taskRepository, taskShared>>

TaskApplied ==
    /\ taskAt = "guard" /\ taskRun.steps = <<>>
    /\ TaskStops("ok")
    /\ UNCHANGED <<taskRepository, taskShared>>
    /\ TaskWithin

\* Faulty: returns to the branch only when the task has succeeded.
TaskRestoreOnSuccess ==
    /\ taskAt = "restore"
    /\ IF taskRun.outcome = "ok" /\ taskRun.original # TaskNobody
       THEN taskRepository' = TaskCheckedOut(taskRepository, taskRun.original,
                                             taskRepository.branches[taskRun.original])
       ELSE UNCHANGED taskRepository
    /\ taskAt' = "end"
    /\ UNCHANGED <<taskRun, taskShared>>
    /\ TaskWithin

\* restoreBranch: git checkout of the name; it is HEAD, and changes nothing,
\* when HEAD was detached.  Its failure is not reported.
TaskRestore ==
    /\ taskAt = "restore"
    /\ LET original == taskRun.original
       IN \/ original = TaskNobody /\ UNCHANGED <<taskRun, taskRepository>>
          \/ /\ original # TaskNobody
             /\ TaskCanCheckout(taskRepository, Last(taskRepository.branches[original]))
             /\ taskRepository' = TaskCheckedOut(taskRepository, original,
                                                 taskRepository.branches[original])
             /\ UNCHANGED taskRun
          \/ taskRun' = [taskRun EXCEPT !.stuck = TRUE] /\ UNCHANGED taskRepository
    /\ taskAt' = "end"
    /\ UNCHANGED taskShared
    /\ TaskWithin

\* A skipped repository is left alone; after an error the other tasks of the
\* step still run, other operations do not.
TaskEnd ==
    /\ taskAt = "end"
    /\ IF taskIndex < Len(taskOperations)
          /\ (taskRun.outcome = "ok" \/ (taskRun.outcome = "error" /\ taskJoined))
       THEN taskIndex' = taskIndex + 1 /\ taskAt' = "begin"
       ELSE taskAt' = "done" /\ UNCHANGED taskIndex
    /\ UNCHANGED <<taskGiven, taskRun, taskBegan, taskRepository, taskShared, taskOutside>>

----------------------------------------
\* The operator saves a file here, or commits to a branch in another worktree;
\* that may be a new one.

TaskRunning == taskAt \notin {"begin", "end", "done"}

TaskOperatorSaves(f, lines) ==
    /\ TaskRunning /\ taskOutside = {}
    /\ taskRepository.work[f] # TaskText(lines)
    /\ taskRepository' = [taskRepository EXCEPT !.work[f] = TaskText(lines)]
    /\ taskOutside' = {f}
    /\ UNCHANGED <<taskGiven, taskIndex, taskAt, taskRun, taskBegan, taskShared>>

TaskOperatorCommits(b) ==
    /\ TaskRunning /\ taskOutside = {}
    /\ b # taskRepository.head
    /\ LET history == IF TaskExists(b) THEN taskRepository.branches[b] ELSE TaskHistory(taskRepository)
       IN taskRepository' = [taskRepository EXCEPT !.branches[b] = Append(history, Last(history))]
    /\ taskOutside' = {b}
    /\ UNCHANGED <<taskGiven, taskIndex, taskAt, taskRun, taskBegan, taskShared>>

\* The steps of gix itself
TaskRuns ==
    \/ TaskBegin \/ TaskEnd
    \/ TaskSafeguard("hard") \/ TaskSafeguard("soft")
    \/ TaskPlan \/ TaskGitPlan \/ TaskStageCommitPlan \/ TaskReadOriginal
    \/ TaskCompare \/ TaskDelete
    \/ TaskGuard \/ TaskActFails
    \/ TaskPrepare \/ TaskApply \/ TaskStage \/ TaskCommit \/ TaskPush \/ TaskRequest \/ TaskAction
    \/ TaskApplied \/ TaskRestore

TaskNext ==
    \/ TaskRuns
    \/ \E f \in TaskFiles, line \in TaskLines : TaskOperatorSaves(f, {line})
    \/ \E b \in TaskBranches : TaskOperatorCommits(b)

TaskSpec == TaskInit /\ [][TaskNext]_taskVars

----------------------------------------
\* Properties

\* The plan is a plan, the trees are trees.
TaskTypeOK ==
    /\ taskAt \in TaskPCs /\ taskIndex \in 1 .. Len(taskOperations)
    /\ taskRun.outcome \in {"ok", "error", "skipped"}
    /\ taskRepository.head \in TaskBranches \cup {TaskNobody}
    /\ taskRepository.work \in TaskTree /\ taskRepository.index \in TaskTree
    /\ taskShared \in [mutated: SUBSET TaskFiles, changed: BOOLEAN]

\* taskExecutor.Execute: however a task that changes files ends (done, failed or
\* skipped half-way) the repository is on the branch it began on, unless the
\* checkout back has failed; with the default steps nothing is committed on
\* another branch than the task's own, which did not exist before.
TaskComesBack ==
    taskAt = "end" /\ taskOperation.kind = "task" =>
        /\ \/ taskRepository.head = taskBegan.head
           \/ taskRun.stuck \/ taskRun.original = TaskNobody
        /\ taskOperation.steps = <<>> /\ taskOutside = {} =>
             \A b \in TaskBranches :
                taskRepository.branches[b] # taskBegan.branches[b] =>
                    b = taskRun.branch /\ taskBegan.branches[b] = <<>>

\* Execute under ensure_clean: the commit of a task with the default steps, and
\* that of a git stage-commit which begins with nothing staged, hold no file but
\* those the workflow has changed (or the task may ignore), even when the
\* operator saves others while it runs.
OnlyPlannedFilesAreCommitted ==
    taskAt = "end" /\ taskRun.committed =>
        LET history == IF taskRun.branch # TaskNobody THEN taskRepository.branches[taskRun.branch]
                       ELSE TaskHistory(taskRepository)
            before == history[Len(history) - 1]
            changed == {f \in TaskFiles : before[f] # Last(history)[f]}
        IN /\ taskOperation.kind = "task" /\ taskOperation.clean /\ taskOperation.steps = <<>> =>
                 changed \subseteq {taskRun.changes[i].path : i \in DOMAIN taskRun.changes}
                                     \cup TaskIgnored
           /\ (taskOperation.kind = "stage-commit" /\ taskRun.consumed # {}
                 /\ taskBegan.index = TaskHeadTree(taskBegan)) =>
                 /\ changed \subseteq taskRun.consumed
                 /\ taskOperation.paths # {} => changed \subseteq taskOperation.paths

\* A pull request that a task or pull-request open has made shows the branch as
\* it is here, not what an earlier run left on the server.
RequestsShowTheBranch ==
    taskAt = "end" /\ taskOperation.kind \in {"task", "pr-open"} /\ taskOperation.steps = <<>> =>
        \A b \in taskRepository.requests \ taskBegan.requests :
            b \in taskOutside \/ taskRepository.server[b] = taskRepository.branches[b]

\* git branch-cleanup deletes no branch with commits of its own, unless they are
\* made between the comparison and the deletion.
CleanupLosesNoCommits ==
    taskAt = "end" /\ taskOperation.kind = "cleanup" =>
        \A b \in TaskBranches \ taskOutside :
            taskRepository.branches[b] = <<>> =>
                IsPrefix(taskBegan.branches[b], taskRepository.branches[taskOperation.base])

\* README.md:526: "mode: skip-if-exists leaves existing files untouched", those of
\* the branch the task commits to.
SkipLeavesFilesUntouched ==
    taskAt = "end" /\ taskRun.committed /\ taskOperation.kind = "task"
      /\ taskOperation.steps = <<>> /\ taskOutside = {} =>
        LET history == taskRepository.branches[taskRun.branch]
            before == history[Len(history) - 1]
        IN \A i \in DOMAIN taskOperation.files : taskOperation.files[i].mode = "skip" =>
             \A f \in taskOperation.files[i].paths :
                before[f].there => Last(history)[f] = before[f]

\* README.md:569: safeguards gate tasks: an operation that has passed them is on
\* a branch they allow.
SafeguardsAllHold ==
    taskAt = "plan" =>
        \A guard \in {taskOperation.hard, taskOperation.soft} :
            /\ guard.branch # TaskNobody => taskRepository.head = guard.branch
            /\ guard.branchIn # {} => taskRepository.head \in guard.branchIn

\* A task brings the operator back, and the commits, pull requests and deletions of
\* a workflow are of its own work.
TaskKeepsToItsWork ==
    /\ TaskComesBack /\ OnlyPlannedFilesAreCommitted
    /\ RequestsShowTheBranch /\ CleanupLosesNoCommits
========================================
