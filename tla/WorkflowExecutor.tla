-------------------------- MODULE WorkflowExecutor --------------------------
(***************************************************************************)
(* Executor.Execute of internal/workflow after discovery: the steps of a   *)
(* workflow are planned as stages (dag_plan.go); consecutive stages of     *)
(* repository-scoped steps run as one pipeline per repository, taken from  *)
(* an unbuffered channel by parallel workers; any other stage runs by      *)
(* itself (executor_runner.go).  The caller may cancel at any time.        *)
(***************************************************************************)
EXTENDS Naturals, Sequences, FiniteSets, SequencesExt

CONSTANTS
    Steps,            \* the names of the steps
    Unknown,          \* the name of no step
    RepositoryCount,  \* distinct repository paths found by discovery
    Labels,           \* what names a repository in the outcome: its owner/repo
    Invocations       \* [workflow, requested]: what may be asked for, where
                      \* requested is the value of --workflow-workers

Repositories == 1 .. RepositoryCount

Everywhere == 0     \* where a step runs that is run once for all

WorkflowType ==
    [order: Seq(Steps), after: [Steps -> SUBSET (Steps \cup {Unknown})],
     global: SUBSET Steps]

ASSUME WorkflowAssumption ==
    /\ IsFiniteSet(Steps) /\ Unknown \notin Steps
    /\ RepositoryCount \in Nat \ {0}
    /\ Invocations \subseteq [workflow: WorkflowType, requested: Nat]
    /\ \A asked \in Invocations :
         LET order == asked.workflow.order
         IN \A s \in Steps : Cardinality({i \in DOMAIN order : order[i] = s}) = 1

VARIABLES
    workflow,   \* the nodes, in the order of the file
    requested,  \* repositoryParallelism
    cancelled,  \* ctx.Err() # nil
    pc,
    stages,     \* planOperationStages: a sequence of sequences of steps
    at,         \* stageIndex
    operation,  \* position in the stage that is run by itself
    batch,      \* repositoryStages, as positions in stages
    next,       \* repoIndex of the dispatcher
    workers,
    results,    \* by repository, of the current batch
    operations, \* what the stages list, in order, and wrote under its key
    failures,   \* the outcome's failures, in order
    returned,
    ran         \* what has run where, and how it ended

planned == <<workflow, requested, stages>>
outcome == <<operations, failures, returned>>
runner == <<pc, at, operation, batch, next>>
vars == <<planned, cancelled, runner, workers, results, outcome, ran>>

----------------------------------------
\* planOperationStages: rounds of counting down dependencies

Position(flow, s) == CHOOSE i \in DOMAIN flow.order : flow.order[i] = s

\* Steps as the operations of a stage, which are in the order of the file.
InOrder(flow, set) ==
    CHOOSE stage \in [1 .. Cardinality(set) -> set] :
        \A i, j \in DOMAIN stage :
            i < j => Position(flow, stage[i]) < Position(flow, stage[j])

\* A round: the steps placed before it, the dependencies that are missing, and
\* the steps that are ready in it.
FirstRound(flow) ==
    [placed |-> {}, missing |-> [s \in Steps |-> Cardinality(flow.after[s])],
     ready |-> {s \in Steps : Cardinality(flow.after[s]) = 0}]

NextRound(flow, last) ==
    LET placed == last.placed \cup last.ready
        left == [s \in Steps |->
                   IF s \in placed THEN last.missing[s]
                   ELSE last.missing[s] - Cardinality(flow.after[s] \cap last.ready)]
    IN [placed |-> placed, missing |-> left,
        ready |-> {s \in Steps \ placed :
                     left[s] = 0 /\ flow.after[s] \cap last.ready # {}}]

Rounds(flow) ==
    LET round[k \in 0 .. Cardinality(Steps)] ==
            IF k = 0 THEN FirstRound(flow) ELSE NextRound(flow, round[k - 1])
    IN round

PlanOperationStages(flow) ==
    LET round == Rounds(flow)
        full == {k \in DOMAIN round : round[k].ready # {}}
    IN [k \in 1 .. Cardinality(full) |-> InOrder(flow, round[k - 1].ready)]

Placed(plan) == UNION {Range(plan[k]) : k \in DOMAIN plan}

Refused(flow) ==
    \/ \E s \in Steps : s \in flow.after[s] \/ Unknown \in flow.after[s]
    \/ Placed(PlanOperationStages(flow)) # Steps

StageIsRepositoryScoped(stage) == Range(stage) \cap workflow.global = {}

----------------------------------------

Verdicts == {"ok", "failed", "skipped", "masked", "cancelled"}

Results ==
    [operations: Seq([where: Nat, step: Steps, failed: BOOLEAN]),
     failures: Seq([where: Nat, step: Steps])]

NoResult == [operations |-> <<>>, failures |-> <<>>]

WorkerPCs == {"off", "idle", "taken", "stage", "operation", "running"}

Idle == [pc |-> "idle", repository |-> 1, position |-> 1, operation |-> 1,
         failed |-> FALSE, result |-> NoResult]

Off == [Idle EXCEPT !.pc = "off"]

\* sanitizeRepositoryParallelism
Parallelism ==
    LET wanted == IF requested = 0 THEN 1 ELSE requested
    IN IF wanted > RepositoryCount THEN RepositoryCount ELSE wanted

Workers == Repositories

Init ==
    /\ \E asked \in Invocations :
         workflow = asked.workflow /\ requested = asked.requested
    /\ cancelled = FALSE
    /\ pc = "plan" /\ stages = <<>> /\ at = 1 /\ operation = 1
    /\ batch = <<>> /\ next = 1
    /\ workers = [w \in Workers |-> Off]
    /\ results = [r \in Repositories |-> NoResult]
    /\ operations = <<>> /\ failures = <<>> /\ returned = "no"
    /\ ran = [r \in Repositories \cup {Everywhere} |-> <<>>]

\* The caller's context ends: an interrupt, a deadline.
Cancel ==
    /\ ~cancelled /\ pc # "done"
    /\ cancelled' = TRUE
    /\ UNCHANGED <<planned, runner, workers, results, outcome, ran>>

Plan ==
    /\ pc = "plan"
    /\ IF Refused(workflow)
       THEN pc' = "done" /\ returned' = "refused" /\ UNCHANGED stages
       ELSE pc' = "stage" /\ stages' = PlanOperationStages(workflow) /\ UNCHANGED returned
    /\ UNCHANGED <<workflow, requested, cancelled, at, operation, batch, next, workers,
                   results, operations, failures, ran>>

----------------------------------------
\* runOperationStages: consecutive repository-scoped stages are collected

\* A batch starts: its workers, its empty results.
StartPipelines ==
    /\ pc' = "dispatch" /\ next' = 1
    /\ workers' = [w \in Workers |-> IF w <= Parallelism THEN Idle ELSE Off]
    /\ results' = [r \in Repositories |-> NoResult]

CollectStage ==
    /\ pc = "stage" /\ ~cancelled
    /\ at <= Len(stages) /\ StageIsRepositoryScoped(stages[at])
    /\ batch' = Append(batch, at) /\ at' = at + 1
    /\ UNCHANGED <<planned, cancelled, pc, operation, next, workers, results, outcome, ran>>

\* Faulty: the batch is run at the end, whatever comes in between.
ReachGlobalStageAtOnce ==
    /\ pc = "stage" /\ ~cancelled
    /\ at <= Len(stages) /\ ~StageIsRepositoryScoped(stages[at])
    /\ pc' = "global" /\ operation' = 1
    /\ UNCHANGED <<planned, cancelled, at, batch, next, workers, results, outcome, ran>>

\* A stage that is not repository-scoped waits for the batch before it.
ReachGlobalStage ==
    /\ pc = "stage" /\ ~cancelled
    /\ at <= Len(stages) /\ ~StageIsRepositoryScoped(stages[at])
    /\ IF batch # <<>>
       THEN StartPipelines
       ELSE pc' = "global" /\ UNCHANGED <<next, workers, results>>
    /\ operation' = 1
    /\ UNCHANGED <<planned, cancelled, at, batch, outcome, ran>>

FinishStages ==
    /\ pc = "stage" /\ (cancelled \/ at > Len(stages))
    /\ IF batch # <<>> /\ ~cancelled
       THEN StartPipelines
       ELSE pc' = "return" /\ UNCHANGED <<next, workers, results>>
    /\ UNCHANGED <<planned, cancelled, at, operation, batch, outcome, ran>>

----------------------------------------
\* runRepositoryPipelines, the dispatcher

\* Faulty: one repository too many.
HandOverOneMore(w) ==
    /\ pc = "dispatch" /\ next <= RepositoryCount + 1
    /\ workers[w].pc = "idle"
    /\ workers' = [workers EXCEPT ![w] = [Idle EXCEPT !.pc = "taken", !.repository = next]]
    /\ next' = next + 1
    /\ UNCHANGED <<planned, cancelled, pc, at, operation, batch, results, outcome, ran>>

\* The channel has no buffer: a worker receives what the dispatcher sends.
HandOver(w) ==
    /\ pc = "dispatch" /\ next <= RepositoryCount
    /\ workers[w].pc = "idle"
    /\ workers' = [workers EXCEPT ![w] = [Idle EXCEPT !.pc = "taken", !.repository = next]]
    /\ next' = next + 1
    /\ UNCHANGED <<planned, cancelled, pc, at, operation, batch, results, outcome, ran>>

\* Faulty: the dispatcher only waits for a worker.
StopDispatchingAtEnd ==
    /\ pc = "dispatch"
    /\ next > RepositoryCount
    /\ pc' = "wait"
    /\ UNCHANGED <<planned, cancelled, at, operation, batch, next, workers, results,
                   outcome, ran>>

StopDispatching ==
    /\ pc = "dispatch"
    /\ next > RepositoryCount \/ cancelled
    /\ pc' = "wait"
    /\ UNCHANGED <<planned, cancelled, at, operation, batch, next, workers, results,
                   outcome, ran>>

\* The channel is closed.
WorkerEnds(w) ==
    /\ pc = "wait" /\ workers[w].pc = "idle"
    /\ workers' = [workers EXCEPT ![w] = Off]
    /\ UNCHANGED <<planned, cancelled, runner, results, outcome, ran>>

BatchOperations ==
    FlattenSeq([r \in Repositories |-> results[r].operations])

BatchFailures ==
    FlattenSeq([r \in Repositories |-> results[r].failures])

\* Faulty: results are taken when the last repository has been handed over.
CollectResultsEarly ==
    /\ pc = "wait"
    /\ operations' = operations \o BatchOperations
    /\ failures' = failures \o BatchFailures
    /\ batch' = <<>>
    /\ pc' = IF at > Len(stages) \/ cancelled THEN "return" ELSE "global"
    /\ UNCHANGED <<planned, cancelled, at, operation, next, workers, results, returned, ran>>

\* All workers have ended; results are taken in the order of repositories.
CollectResults ==
    /\ pc = "wait" /\ \A w \in Workers : workers[w].pc = "off"
    /\ operations' = operations \o BatchOperations
    /\ failures' = failures \o BatchFailures
    /\ batch' = <<>>
    /\ pc' = IF at > Len(stages) \/ cancelled THEN "return" ELSE "global"
    /\ UNCHANGED <<planned, cancelled, at, operation, next, workers, results, returned, ran>>

----------------------------------------
\* A worker

\* A worker that receives a repository after cancellation leaves.
Open(w) ==
    /\ workers[w].pc = "taken"
    /\ workers' = IF cancelled THEN [workers EXCEPT ![w] = Off]
                  ELSE [workers EXCEPT ![w].pc = "stage"]
    /\ UNCHANGED <<planned, cancelled, runner, results, outcome, ran>>

EnterStage(w) ==
    /\ workers[w].pc = "stage"
    /\ workers[w].position <= Len(batch) /\ ~workers[w].failed /\ ~cancelled
    /\ workers' = [workers EXCEPT ![w].pc = "operation", ![w].operation = 1]
    /\ UNCHANGED <<planned, cancelled, runner, results, outcome, ran>>

\* Faulty: only a repository that went through every stage has a result.
StoreCompleteResult(w) ==
    /\ workers[w].pc = "stage"
    /\ workers[w].position > Len(batch) \/ workers[w].failed \/ cancelled
    /\ results' = IF cancelled THEN results
                  ELSE [results EXCEPT ![workers[w].repository] = workers[w].result]
    /\ workers' = [workers EXCEPT ![w] = Idle]
    /\ UNCHANGED <<planned, cancelled, runner, outcome, ran>>

\* The result is stored under the index of its repository.
StoreResult(w) ==
    /\ workers[w].pc = "stage"
    /\ workers[w].position > Len(batch) \/ workers[w].failed \/ cancelled
    /\ results' = [results EXCEPT ![workers[w].repository] = workers[w].result]
    /\ workers' = [workers EXCEPT ![w] = Idle]
    /\ UNCHANGED <<planned, cancelled, runner, outcome, ran>>

StageOf(w) == stages[batch[workers[w].position]]

Started(history, step) == Append(history, [step |-> step, verdict |-> "running"])

Ended(history, verdict) == [history EXCEPT ![Len(history)].verdict = verdict]

BeginOperation(w) ==
    /\ workers[w].pc = "operation"
    /\ workers[w].operation <= Len(StageOf(w)) /\ ~cancelled
    /\ workers' = [workers EXCEPT ![w].pc = "running"]
    /\ ran' = [ran EXCEPT ![workers[w].repository] =
                 Started(@, StageOf(w)[workers[w].operation])]
    /\ UNCHANGED <<planned, cancelled, runner, results, outcome>>

LeaveStage(w) ==
    /\ workers[w].pc = "operation"
    /\ workers[w].operation > Len(StageOf(w)) \/ cancelled
    /\ workers' = [workers EXCEPT ![w].pc = "stage", ![w].position = @ + 1]
    /\ UNCHANGED <<planned, cancelled, runner, results, outcome, ran>>

\* executeRepositoryStageForRepository: what a verdict adds to the result.  A
\* failure is recorded and the stage goes on; a skip ends it and is no
\* failure, not even when an earlier task of the step failed ("masked").
Recorded(worker, step, verdict) ==
    [worker.result EXCEPT
        !.operations = Append(@, [where |-> worker.repository, step |-> step,
                                  failed |-> verdict = "failed"]),
        !.failures = IF verdict = "failed"
                     THEN Append(@, [where |-> worker.repository, step |-> step])
                     ELSE @]

\* A step that ends because of the cancellation is not recorded at all.
AfterVerdict(worker, step, verdict) ==
    CASE verdict = "cancelled" ->
           [worker EXCEPT !.pc = "stage", !.position = @ + 1]
      [] verdict \in {"ok", "failed"} ->
           [worker EXCEPT !.pc = "operation", !.operation = @ + 1,
                          !.failed = @ \/ verdict = "failed",
                          !.result = Recorded(worker, step, verdict)]
      [] verdict \in {"skipped", "masked"} ->
           [worker EXCEPT !.pc = "stage", !.position = @ + 1, !.failed = TRUE,
                          !.result = Recorded(worker, step, verdict)]

EndOperation(w) ==
    /\ workers[w].pc = "running"
    /\ \E verdict \in Verdicts :
         /\ verdict = "cancelled" => cancelled
         /\ workers' = [workers EXCEPT ![w] =
                          AfterVerdict(@, StageOf(w)[@.operation], verdict)]
         /\ ran' = [ran EXCEPT ![workers[w].repository] = Ended(@, verdict)]
    /\ UNCHANGED <<planned, cancelled, runner, results, outcome>>

----------------------------------------
\* executeGlobalStage

BeginGlobal ==
    /\ pc = "global"
    /\ operation <= Len(stages[at]) /\ ~cancelled
    /\ pc' = "running"
    /\ UNCHANGED <<planned, cancelled, at, operation, batch, next, workers, results, outcome, ran>>

LeaveGlobalStage ==
    /\ pc = "global"
    /\ operation > Len(stages[at]) \/ cancelled
    /\ pc' = "stage" /\ at' = at + 1
    /\ UNCHANGED <<planned, cancelled, operation, batch, next, workers, results, outcome, ran>>

\* How a step that is run over all repositories may end in each: it goes on
\* to the next repository and joins the errors, or returns the first error.
Endings ==
    [Repositories -> Verdicts] \cup
    {[r \in Repositories |-> IF r < stop THEN "ok" ELSE IF r = stop THEN verdict ELSE "unreached"] :
        stop \in Repositories, verdict \in {"failed", "cancelled"}}

\* A cancellation among the joined errors makes the join a cancellation, a
\* skip among them makes it a skip.
Joined(verdicts) ==
    IF "cancelled" \in verdicts THEN "cancelled"
    ELSE IF verdicts \cap {"skipped", "masked"} # {}
    THEN IF verdicts \cap {"failed", "masked"} # {} THEN "masked" ELSE "skipped"
    ELSE IF "failed" \in verdicts THEN "failed" ELSE "ok"

EndGlobal ==
    /\ pc = "running"
    /\ \E verdict \in Endings :
         LET step == stages[at][operation]
             joined == Joined(Range(verdict))
         IN /\ "cancelled" \in Range(verdict) => cancelled
            /\ ran' = [r \in DOMAIN ran |->
                         LET own == IF r = Everywhere THEN joined ELSE verdict[r]
                         IN IF own = "unreached" THEN ran[r]
                            ELSE Append(ran[r], [step |-> step, verdict |-> own])]
            /\ IF joined = "cancelled"
               THEN /\ pc' = "stage" /\ at' = at + 1
                    /\ UNCHANGED <<operation, operations, failures>>
               ELSE /\ pc' = "global" /\ operation' = operation + 1
                    /\ operations' = Append(operations,
                         [where |-> Everywhere, step |-> step, failed |-> joined # "ok"])
                    /\ failures' = IF joined = "failed"
                                   THEN Append(failures, [where |-> Everywhere, step |-> step])
                                   ELSE failures
                    /\ UNCHANGED at
    /\ UNCHANGED <<planned, cancelled, batch, next, workers, results, returned>>

\* repositoryLabel, of each repository: checkouts of one owner/repo share it.
Labellings == [Repositories -> Labels]

\* The key of an outcome is "label:step", or the step that runs for all.
SameKey(label, a, b) ==
    /\ a.step = b.step
    /\ \/ a.where = b.where
       \/ {a.where, b.where} \subseteq Repositories /\ label[a.where] = label[b.where]

\* The outcome's operations: Execute looks up each that is listed by its key,
\* under which the one written last is found.
OperationOutcomes(label) ==
    [i \in DOMAIN operations |->
        LET same == {j \in DOMAIN operations : SameKey(label, operations[i], operations[j])}
        IN operations[CHOOSE j \in same : \A k \in same : k <= j]]

Return ==
    /\ pc = "return"
    /\ returned' = IF cancelled THEN "cancelled" ELSE IF failures = <<>> THEN "ok" ELSE "failed"
    /\ pc' = "done"
    /\ UNCHANGED <<planned, cancelled, at, operation, batch, next, workers, results,
                   operations, failures, ran>>

----------------------------------------

Runner ==
    \/ Plan \/ CollectStage \/ ReachGlobalStage \/ FinishStages
    \/ StopDispatching \/ CollectResults
    \/ BeginGlobal \/ LeaveGlobalStage \/ EndGlobal \/ Return

Worker(w) ==
    \/ WorkerEnds(w) \/ Open(w) \/ EnterStage(w) \/ StoreResult(w)
    \/ BeginOperation(w) \/ LeaveStage(w) \/ EndOperation(w)

Done == pc = "done" /\ UNCHANGED vars

Next ==
    \/ Cancel \/ Runner \/ Done
    \/ \E w \in Workers : HandOver(w) \/ Worker(w)

\* Goroutines that can go on do; steps end.
Fairness ==
    /\ WF_vars(Runner)
    /\ \A w \in Workers : WF_vars(Worker(w))
    /\ WF_vars(\E w \in Workers : HandOver(w))

Spec == Init /\ [][Next]_vars /\ Fairness

----------------------------------------
\* Type invariant

WorkerType ==
    [pc: WorkerPCs, repository: Repositories, position: Nat, operation: Nat,
     failed: BOOLEAN, result: Results]

\* Every variable has the type its comment promises.
TypeOK ==
    /\ workflow \in WorkflowType /\ requested \in Nat
    /\ cancelled \in BOOLEAN
    /\ pc \in {"plan", "stage", "dispatch", "wait", "global", "running", "return", "done"}
    /\ stages \in Seq(Seq(Steps))
    /\ at \in 1 .. Len(stages) + 1
    /\ operation \in Nat
    /\ batch \in Seq(Nat)
    /\ next \in 1 .. RepositoryCount + 1
    /\ workers \in [Workers -> WorkerType]
    /\ results \in [Repositories -> Results]
    /\ [operations |-> operations, failures |-> failures] \in Results
    /\ returned \in {"no", "refused", "cancelled", "failed", "ok"}
    /\ ran \in [Repositories \cup {Everywhere} ->
                 Seq([step: Steps, verdict: Verdicts \cup {"running"}])]

----------------------------------------
\* Safety

\* The steps a step waits for, directly or through others.
Lengthened(waits) ==
    [s \in Steps |-> waits[s] \cup UNION {waits[d] : d \in waits[s] \cap Steps}]

Before(flow) ==
    LET chain[k \in 0 .. Cardinality(Steps)] ==
            IF k = 0 THEN flow.after ELSE Lengthened(chain[k - 1])
    IN chain[Cardinality(Steps)]

\* A workflow is refused exactly if its dependencies name no step or form a
\* cycle; otherwise every step is in one stage, right after the last of the
\* steps it depends on.
PlanIsRight ==
    LET before == Before(workflow)
        ill == \E s \in Steps : s \in before[s] \/ Unknown \in workflow.after[s]
        place(s) == {k \in DOMAIN stages : s \in Range(stages[k])}
    IN /\ returned = "refused" => ill
       /\ pc \notin {"plan", "done"} =>
            /\ ~ill
            /\ \A s \in Steps :
                 \E k \in place(s) :
                     /\ place(s) = {k}
                     /\ \A d \in workflow.after[s] : \A j \in place(d) : j < k
                     /\ k > 1 => workflow.after[s] \cap Range(stages[k - 1]) # {}

\* In every repository steps run one after the other, each at most once, and
\* none after a step that depends on it.
RunsInOrder ==
    \A r \in Repositories : \A i, j \in DOMAIN ran[r] :
        i < j => /\ ran[r][i].verdict # "running"
                 /\ ran[r][j].step # ran[r][i].step
                 /\ ran[r][j].step \notin Before(workflow)[ran[r][i].step]

\* Two workers never have the same repository, and a stage that runs by itself
\* runs while no worker has any.
NeverTwoAtOnce ==
    /\ \A v, w \in Workers :
         v # w /\ {workers[v].pc, workers[w].pc} \cap {"off", "idle"} = {} =>
             workers[v].repository # workers[w].repository
    /\ pc \notin {"dispatch", "wait"} => \A w \in Workers : workers[w].pc = "off"

StageNumber(step) == CHOOSE k \in DOMAIN stages : step \in Range(stages[k])

Global(k) == ~StageIsRepositoryScoped(stages[k])

\* A failed step keeps its repository from every later stage, and a skip from
\* every later step, until a stage that runs by itself comes between.
AbortLastsTheBatch ==
    \A r \in Repositories : \A i, j \in DOMAIN ran[r] :
        LET from == StageNumber(ran[r][i].step)
            to == StageNumber(ran[r][j].step)
        IN i < j /\ ran[r][i].verdict \in {"failed", "skipped", "masked"} =>
             \/ from = to /\ (Global(from) \/ ran[r][i].verdict = "failed")
             \/ \E k \in from .. to : Global(k)

\* A safeguard that aborts a repository in a repository-scoped step (a hard
\* stop) lets no repository-scoped step run in it any more.
AbortLasts ==
    \A r \in Repositories : \A i, j \in DOMAIN ran[r] :
        i < j /\ ran[r][i].verdict = "skipped" /\ ran[r][i].step \notin workflow.global =>
            ran[r][j].step \in workflow.global

\* With one worker a repository is begun only when those before it are done
\* with.
OneWorkerIsSequential ==
    requested <= 1 => Cardinality({w \in Workers : workers[w].pc \notin {"off", "idle"}}) <= 1

\* What is told of a place: what ended there, in the stages that run by
\* themselves if the place is everywhere and in the others if it is a repository.
Finished(place) ==
    {e \in Range(ran[place]) :
        e.verdict # "cancelled" /\ (Global(StageNumber(e.step)) <=> place = Everywhere)}

Places == Repositories \cup {Everywhere}

SequentialOperations ==
    UNION {{[where |-> place, step |-> e.step,
             failed |-> IF place = Everywhere THEN e.verdict # "ok" ELSE e.verdict = "failed"] :
                e \in Finished(place)} : place \in Places}

SequentialFailures ==
    UNION {{[where |-> place, step |-> e.step] :
                e \in {one \in Finished(place) : one.verdict = "failed"}} : place \in Places}

\* One stage comes before another, and not in the same batch.
Cut(i, j) == i < j /\ \E k \in i .. j : Global(k)

\* A run with one worker tells of a before b: batch by batch, in a batch
\* repository by repository, and in each as planned.
Precedes(a, b) ==
    LET i == StageNumber(a.step)
        j == StageNumber(b.step)
    IN \/ Cut(i, j)
       \/ /\ ~Cut(j, i)
          /\ \/ a.where < b.where
             \/ /\ a.where = b.where
                /\ \/ i < j
                   \/ i = j /\ Position(workflow, a.step) < Position(workflow, b.step)

InTurn(told) == \A i, j \in DOMAIN told : i < j => Precedes(told[i], told[j])

\* What ended under the key of e
UnderKey(label, e) == {o \in SequentialOperations : SameKey(label, e, o)}

\* What is told of a step is how it ended in the last repository of that label:
\* of two checkouts of one owner/repo the later is told twice.  Where no two
\* repositories share a label, each has its own.
ToldOfTheLast(label) ==
    LET told == OperationOutcomes(label)
    IN /\ \A i \in DOMAIN operations :
            /\ told[i] \in UnderKey(label, operations[i])
            /\ \A o \in UnderKey(label, operations[i]) : o.where <= told[i].where
       /\ IsInjective(label) => told = operations

\* .mprlab/ISSUES.md:566: "Preserve operation outcomes completed before stage
\* cancellation", also of two checkouts of one repository.
EachHasItsOutcome == \A label \in Labellings : OperationOutcomes(label) = operations

\* Whatever the interleaving, and also after a cancellation, the stages list
\* every step that ended and the failures every failure, once, batch by batch
\* and in the order of the repositories (a cancelled step is neither); and the
\* outcome tells of each what ended last under its label.
OutcomeIsSequential ==
    pc = "done" =>
        /\ Range(operations) = SequentialOperations /\ InTurn(operations)
        /\ Range(failures) = SequentialFailures /\ InTurn(failures)
        /\ \A label \in Labellings : ToldOfTheLast(label)

\* No error means: in every repository every step has run and succeeded,
\* unless it was skipped, or a skip elsewhere masked a failure of a step that
\* ran over all repositories.
OkMeansAllRan ==
    returned = "ok" =>
        \A r \in Repositories :
            \/ \E e \in Range(ran[Everywhere]) : e.verdict = "masked"
            \/ \E e \in Range(ran[r]) : e.verdict \in {"skipped", "masked"}
            \/ /\ {e.step : e \in Range(ran[r])} = Steps
               /\ \A e \in Range(ran[r]) : e.verdict = "ok"

\* A genuine failure is never lost: what failed in a repository is among the
\* failures.
FailuresArePreserved ==
    pc = "done" =>
        \A r \in Repositories : \A e \in Range(ran[r]) :
            e.verdict \in {"failed", "masked"} =>
                \E f \in Range(failures) : f.step = e.step /\ f.where \in {r, Everywhere}

\* The steps run as the workflow orders them: by its plan, and not after a
\* failure or a skip of their repository.
RunsAsPlanned == PlanIsRight /\ RunsInOrder /\ AbortLastsTheBatch

\* What is reported of a run does not depend on how many workers it had.
OutcomeIsTrue == OutcomeIsSequential /\ OneWorkerIsSequential /\ OkMeansAllRan

----------------------------------------
\* Liveness

\* Every run ends, cancelled or not: the dispatcher never waits for workers
\* that have left.
RunEnds == <>(pc = "done")
========================================
