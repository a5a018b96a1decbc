----------------------- MODULE WorkflowExecutorProofs -----------------------
(***************************************************************************)
(* Two workers never have the same repository; every variable has its      *)
(* type; the plan is right, and what runs in a repository runs as planned; *)
(* one worker is one; no error means that all has run; the outcome tells   *)
(* all that ended, in the order of a run with one worker: for any number   *)
(* of repositories and workers and any workflows.                          *)
(***************************************************************************)
EXTENDS WorkflowExecutor, Integers, FiniteSetTheorems, SequenceTheorems, TLAPS

Fields == {"pc", "repository", "position", "operation", "failed", "result"}

Busy(w) == workers[w].pc \notin {"off", "idle"}

\* Every worker is a record, and what it has was handed over before.
Shape ==
    /\ next \in Nat
    /\ workers = [w \in Workers |-> workers[w]]
    /\ \A w \in Workers :
         /\ workers[w] = [field \in Fields |-> workers[w][field]]
         /\ workers[w].repository \in Nat
         /\ Busy(w) => workers[w].repository < next

\* The repositories of two busy workers differ.
Apart ==
    \A v, w \in Workers :
        v # w /\ Busy(v) /\ Busy(w) => workers[v].repository # workers[w].repository

\* Workers exist only while a batch is dispatched or waited for.
Alone == pc \notin {"dispatch", "wait"} => \A w \in Workers : workers[w].pc = "off"

IInv == Shape /\ Apart /\ Alone

LEMMA IdleIsRecord ==
    /\ Idle = [field \in Fields |-> Idle[field]]
    /\ Off = [field \in Fields |-> Off[field]]
    /\ Idle.pc = "idle" /\ Off.pc = "off"
    /\ Idle.repository = 1 /\ Off.repository = 1
  BY DEF Idle, Off, Fields, NoResult

LEMMA InitHolds == Init => IInv
  BY IdleIsRecord DEF Init, IInv, Shape, Apart, Alone, Busy

\* A step that leaves the workers and the dispatcher's position alone.
LEMMA SameWorkers ==
    ASSUME IInv, UNCHANGED <<workers, next>>, Alone'
    PROVE  IInv'
  BY DEF IInv, Shape, Apart, Busy

\* A step after which worker w is as before, or still has its repository, or
\* has none.
LEMMA OneWorker ==
    ASSUME IInv, NEW w \in Workers, NEW worker,
           pc \in {"dispatch", "wait"}, UNCHANGED <<pc, next>>,
           workers' = [workers EXCEPT ![w] = worker],
           worker = [field \in Fields |-> worker[field]],
           worker.repository \in Nat,
           \/ worker.pc \in {"off", "idle"}
           \/ Busy(w) /\ worker.repository = workers[w].repository
    PROVE  IInv'
  BY DEF IInv, Shape, Apart, Alone, Busy

\* A worker that is not off is there only while a batch is under way.
LEMMA InBatch ==
    ASSUME IInv, NEW w \in Workers, workers[w].pc # "off"
    PROVE  pc \in {"dispatch", "wait"}
  BY DEF IInv, Alone

\* A batch starts with no worker busy.
LEMMA StartHolds ==
    ASSUME IInv, StartPipelines
    PROVE  IInv'
  BY IdleIsRecord, SMTT(20) DEF IInv, Shape, Apart, Alone, Busy, StartPipelines

\* What the runner does: only the start of a batch touches the workers, and a
\* batch is left only when they are all off.
LEMMA RunnerHolds ==
    ASSUME IInv, Runner
    PROVE  IInv'
<1>1. CASE Plan
  BY <1>1, SameWorkers DEF Plan, IInv, Alone
<1>2. CASE CollectStage
  BY <1>2, SameWorkers DEF CollectStage, IInv, Alone
<1>3. CASE ReachGlobalStage
  BY <1>3, StartHolds, SameWorkers DEF ReachGlobalStage, IInv, Alone
<1>4. CASE FinishStages
  BY <1>4, StartHolds, SameWorkers DEF FinishStages, IInv, Alone
<1>5. CASE StopDispatching
  BY <1>5, SameWorkers DEF StopDispatching, IInv, Alone
<1>6. CASE CollectResults
  BY <1>6, SameWorkers DEF CollectResults, Alone
<1>7. CASE BeginGlobal
  BY <1>7, SameWorkers DEF BeginGlobal, IInv, Alone
<1>8. CASE LeaveGlobalStage
  BY <1>8, SameWorkers DEF LeaveGlobalStage, IInv, Alone
<1>9. CASE EndGlobal
  BY <1>9, SameWorkers DEF EndGlobal, IInv, Alone
<1>10. CASE Return
  BY <1>10, SameWorkers DEF Return, IInv, Alone
<1>11. QED
  BY <1>1, <1>2, <1>3, <1>4, <1>5, <1>6, <1>7, <1>8, <1>9, <1>10 DEF Runner

\* The dispatcher hands over what no worker has had.
LEMMA HandOverHolds ==
    ASSUME IInv, NEW w \in Workers, HandOver(w)
    PROVE  IInv'
<1> DEFINE taken == [Idle EXCEPT !.pc = "taken", !.repository = next]
<1>1. /\ taken = [field \in Fields |-> taken[field]]
      /\ taken.pc = "taken" /\ taken.repository = next
  BY IdleIsRecord DEF Idle, Fields
<1>2. pc = "dispatch" /\ pc' = pc /\ next' = next + 1
  BY DEF HandOver
<1>3. workers' = [workers EXCEPT ![w] = taken]
  BY DEF HandOver
<1> HIDE DEF taken
<1>4. Shape'
  BY <1>1, <1>2, <1>3 DEF IInv, Shape, Busy
<1>5. Apart'
  BY <1>1, <1>2, <1>3 DEF IInv, Shape, Apart, Busy
<1>6. Alone'
  BY <1>2 DEF Alone
<1>7. QED BY <1>4, <1>5, <1>6 DEF IInv

\* A worker keeps its repository until it has stored the result.
LEMMA WorkerHolds ==
    ASSUME IInv, NEW w \in Workers, Worker(w)
    PROVE  IInv'
<1> DEFINE mine == workers[w]
<1>1. /\ mine = [field \in Fields |-> mine[field]]
      /\ mine.repository \in Nat
  BY DEF IInv, Shape
<1>2. pc \in {"dispatch", "wait"}
  BY InBatch DEF Worker, WorkerEnds, Open, EnterStage, StoreResult, BeginOperation, LeaveStage, EndOperation
<1>3. UNCHANGED <<pc, next>>
  BY DEF Worker, WorkerEnds, Open, EnterStage, StoreResult, BeginOperation, LeaveStage, EndOperation, runner
<1>4. CASE WorkerEnds(w)
  BY <1>2, <1>3, <1>4, OneWorker, IdleIsRecord DEF WorkerEnds
<1>5. CASE Open(w)
  <2>1. CASE cancelled
    BY <1>2, <1>3, <1>5, <2>1, OneWorker, IdleIsRecord DEF Open
  <2>2. CASE ~cancelled
    <3> DEFINE after == [mine EXCEPT !.pc = "stage"]
    <3>1. workers' = [workers EXCEPT ![w] = after] /\ Busy(w)
      BY <1>5, <2>2 DEF Open, Busy
    <3>2. after = [field \in Fields |-> after[field]] /\ after.repository = mine.repository
      BY <1>1 DEF Fields
    <3> HIDE DEF after
    <3>3. QED BY <1>1, <1>2, <1>3, <3>1, <3>2, OneWorker
  <2>3. QED BY <2>1, <2>2
<1>6. CASE EnterStage(w)
  <2> DEFINE after == [mine EXCEPT !.pc = "operation", !.operation = 1]
  <2>1. workers' = [workers EXCEPT ![w] = after] /\ Busy(w)
    BY <1>6 DEF EnterStage, Busy, IInv, Shape
  <2>2. after = [field \in Fields |-> after[field]] /\ after.repository = mine.repository
    BY <1>1 DEF Fields
  <2> HIDE DEF after
  <2>3. QED BY <1>1, <1>2, <1>3, <2>1, <2>2, OneWorker
<1>7. CASE StoreResult(w)
  BY <1>7, <1>2, <1>3, OneWorker, IdleIsRecord DEF StoreResult
<1>8. CASE BeginOperation(w)
  <2> DEFINE after == [mine EXCEPT !.pc = "running"]
  <2>1. workers' = [workers EXCEPT ![w] = after] /\ Busy(w)
    BY <1>8 DEF BeginOperation, Busy
  <2>2. after = [field \in Fields |-> after[field]] /\ after.repository = mine.repository
    BY <1>1 DEF Fields
  <2> HIDE DEF after
  <2>3. QED BY <1>1, <1>2, <1>3, <2>1, <2>2, OneWorker
<1>9. CASE LeaveStage(w)
  <2> DEFINE after == [mine EXCEPT !.pc = "stage", !.position = @ + 1]
  <2>1. workers' = [workers EXCEPT ![w] = after] /\ Busy(w)
    BY <1>9 DEF LeaveStage, Busy, IInv, Shape
  <2>2. after = [field \in Fields |-> after[field]] /\ after.repository = mine.repository
    BY <1>1 DEF Fields
  <2> HIDE DEF after
  <2>3. QED BY <1>1, <1>2, <1>3, <2>1, <2>2, OneWorker
<1>10. CASE EndOperation(w)
  <2>1. PICK verdict \in Verdicts :
          workers' = [workers EXCEPT ![w] =
                        AfterVerdict(mine, StageOf(w)[mine.operation], verdict)]
    BY <1>10 DEF EndOperation, IInv, Shape
  <2> DEFINE after == AfterVerdict(mine, StageOf(w)[mine.operation], verdict)
  <2>2. after = [field \in Fields |-> after[field]] /\ after.repository = mine.repository
    BY <1>1 DEF AfterVerdict, Verdicts, Fields
  <2>3. Busy(w)
    BY <1>10 DEF EndOperation, Busy
  <2> HIDE DEF after
  <2>4. QED BY <1>1, <1>2, <1>3, <2>1, <2>2, <2>3, OneWorker DEF after
<1>11. QED
  BY <1>4, <1>5, <1>6, <1>7, <1>8, <1>9, <1>10 DEF Worker

LEMMA NextHolds == IInv /\ [Next]_vars => IInv'
BY SameWorkers, RunnerHolds, HandOverHolds, WorkerHolds DEF Cancel, runner, IInv, Alone, vars, Next, Done

\* Two workers never have the same repository, and a stage that runs by itself
\* runs while no worker has any (executor_runner.go, runRepositoryPipelines).
THEOREM NeverTwo == Spec => []NeverTwoAtOnce
<1>1. IInv => NeverTwoAtOnce
  BY DEF IInv, Apart, Alone, Busy, NeverTwoAtOnce
<1>2. QED
  BY InitHolds, NextHolds, <1>1, PTL DEF Spec

----------------------------------------

\* Every set of numbers that is not empty has a least one.
LEMMA LeastNumber ==
    ASSUME NEW S \in SUBSET Nat, S # {}
    PROVE  \E x \in S : \A y \in S : x <= y
<1>1. IsWellFoundedOn(OpToRel(<, Nat), Nat)
  BY NatLessThanWellFounded
<1>2. PICK x \in S : \A y \in S : ~(<<y, x>> \in OpToRel(<, Nat))
  BY <1>1, WFMin
<1>3. \A y \in S : ~(y < x)
  BY <1>2, Zenon DEF OpToRel
<1>4. QED BY <1>3

\* Induction up to a number, over a set.
LEMMA CountUp ==
    ASSUME NEW n \in Nat, NEW T, 0 \in T,
           \A k \in 0 .. n : k \in T /\ k < n => k + 1 \in T
    PROVE  0 .. n \subseteq T
<1> DEFINE bad == (0 .. n) \ T
<1>1. SUFFICES ASSUME bad # {} PROVE FALSE
  OBVIOUS
<1>2. PICK m \in bad : \A k \in bad : m <= k
  <2>1. bad \in SUBSET Nat
    OBVIOUS
  <2> HIDE DEF bad
  <2>2. QED BY <1>1, <2>1, LeastNumber
<1>3. m # 0 /\ m \in 1 .. n
  BY <1>2
<1>4. m - 1 \in 0 .. n /\ m - 1 < n /\ (m - 1) + 1 = m
  BY <1>3
<1>5. m - 1 \in T
  BY <1>2, <1>4
<1>6. m \in T
  BY <1>4, <1>5
<1>7. QED BY <1>2, <1>6

\* f goes on from a by F.
Iterates(f, n, a, F) == f[0] = a /\ \A k \in 1 .. n : f[k] = F[f[k - 1]]

\* A function that is computed step by step exists.
LEMMA Unfolds ==
    ASSUME NEW S, NEW n \in Nat, NEW a \in S, NEW F, \A s \in S : F[s] \in S
    PROVE  \E f \in [0 .. n -> S] : Iterates(f, n, a, F)
<1> DEFINE Works(f, m) == f[0] = a /\ \A k \in 1 .. m : f[k] = F[f[k - 1]]
           T == {m \in 0 .. n : \E f \in [0 .. m -> S] : Works(f, m)}
<1>1. 0 \in T
  <2>1. [k \in 0 .. 0 |-> a] \in [0 .. 0 -> S] /\ Works([k \in 0 .. 0 |-> a], 0)
    OBVIOUS
  <2> HIDE DEF Works
  <2>2. QED BY <2>1
<1>2. ASSUME NEW m \in 0 .. n, m \in T, m < n PROVE m + 1 \in T
  <2>1. PICK f \in [0 .. m -> S] : Works(f, m)
    BY <1>2
  <2> DEFINE g == [k \in 0 .. m + 1 |-> IF k = m + 1 THEN F[f[m]] ELSE f[k]]
  <2>2. g \in [0 .. m + 1 -> S]
    OBVIOUS
  <2>3. Works(g, m + 1)
    BY <2>1
  <2>4. m + 1 \in 0 .. n
    BY <1>2
  <2> HIDE DEF g, Works
  <2>5. QED BY <2>2, <2>3, <2>4
<1>3. n \in 0 .. n
  OBVIOUS
<1> HIDE DEF T
<1>4. n \in T
  BY <1>1, <1>2, <1>3, CountUp
<1>5. QED BY <1>4 DEF T, Iterates

\* What a round is made of.
RoundType == [placed: SUBSET Steps, missing: [Steps -> Int], ready: SUBSET Steps]

\* How many steps there are.
Count == Cardinality(Steps)

\* There is a number of steps, and of what any step waits for.
LEMMA Finite ==
    /\ Count \in Nat
    /\ \A set \in SUBSET (Steps \cup {Unknown}) : IsFiniteSet(set) /\ Cardinality(set) \in Nat
BY WorkflowAssumption, FS_AddElement, FS_Subset, FS_CardinalityType DEF Count

\* Every round has its type.
LEMMA RoundTypes ==
    ASSUME NEW flow \in WorkflowType
    PROVE  /\ FirstRound(flow) \in RoundType
           /\ \A last \in RoundType : NextRound(flow, last) \in RoundType
<1>1. \A s \in Steps : flow.after[s] \in SUBSET (Steps \cup {Unknown})
  BY DEF WorkflowType
<1>2. FirstRound(flow) \in RoundType
  BY <1>1, Finite DEF FirstRound, RoundType
<1>3. ASSUME NEW last \in RoundType PROVE NextRound(flow, last) \in RoundType
  <2> DEFINE placed == last.placed \cup last.ready
             left == [s \in Steps |->
                   IF s \in placed THEN last.missing[s]
                   ELSE last.missing[s] - Cardinality(flow.after[s] \cap last.ready)]
  <2>1. \A s \in Steps : Cardinality(flow.after[s] \cap last.ready) \in Nat
    BY <1>1, Finite DEF RoundType
  <2>2. left \in [Steps -> Int]
    BY <1>3, <2>1 DEF RoundType
  <2>3. placed \in SUBSET Steps
    BY <1>3 DEF RoundType
  <2>4. NextRound(flow, last) =
          [placed |-> placed, missing |-> left,
           ready |-> {s \in Steps \ placed :
                        left[s] = 0 /\ flow.after[s] \cap last.ready # {}}]
    BY DEF NextRound
  <2> HIDE DEF left, placed
  <2>5. QED BY <2>2, <2>3, <2>4 DEF RoundType
<1>4. QED BY <1>2, <1>3

\* The rounds, one after the other.
LEMMA RoundsAre ==
    ASSUME NEW flow \in WorkflowType
    PROVE  /\ Rounds(flow) \in [0 .. Count -> RoundType]
           /\ Rounds(flow)[0] = FirstRound(flow)
           /\ \A k \in 1 .. Count : Rounds(flow)[k] = NextRound(flow, Rounds(flow)[k - 1])
<1> DEFINE F == [last \in RoundType |-> NextRound(flow, last)]
           Is(f) == f = [k \in 0 .. Count |->
                          IF k = 0 THEN FirstRound(flow) ELSE NextRound(flow, f[k - 1])]
           R == CHOOSE f : Is(f)
<1>0. Count \in Nat
  BY Finite
<1>1. FirstRound(flow) \in RoundType /\ F \in [RoundType -> RoundType]
  BY RoundTypes
<1>2. PICK f \in [0 .. Count -> RoundType] :
        f[0] = FirstRound(flow) /\ \A k \in 1 .. Count : f[k] = F[f[k - 1]]
  <2> DEFINE a == FirstRound(flow)
  <2>1. a \in RoundType
    BY <1>1
  <2> HIDE DEF F, Is, R, a
  <2>2. \E f \in [0 .. Count -> RoundType] : Iterates(f, Count, a, F)
    BY <1>1, <1>0, <2>1, Unfolds
  <2>3. QED BY <2>2 DEF a, Iterates
<1>3. Is(f)
  <2>1. \A k \in 0 .. Count : f[k] = IF k = 0 THEN FirstRound(flow) ELSE NextRound(flow, f[k - 1])
    <3> SUFFICES ASSUME NEW k \in 0 .. Count
                 PROVE  f[k] = IF k = 0 THEN FirstRound(flow) ELSE NextRound(flow, f[k - 1])
      OBVIOUS
    <3>1. CASE k = 0
      BY <1>2, <3>1
    <3>2. CASE k # 0
      <4>1. k \in 1 .. Count /\ k - 1 \in 0 .. Count
        BY <1>0, <3>2
      <4>2. f[k] = F[f[k - 1]] /\ f[k - 1] \in RoundType
        BY <1>2, <4>1
      <4>3. QED BY <3>2, <4>2
    <3>3. QED BY <3>1, <3>2
  <2>2. QED BY <2>1
<1>4. Is(R)
  BY <1>3
<1>5. R = Rounds(flow)
  BY DEF Rounds, Count
<1> HIDE DEF R
<1>6. R[0] = FirstRound(flow) /\ \A k \in 1 .. Count : R[k] = NextRound(flow, R[k - 1])
  BY <1>4, <1>0
<1> DEFINE T == {k \in 0 .. Count : R[k] \in RoundType}
<1>7. 0 .. Count \subseteq T
  <2>1. 0 \in T
    BY <1>0, <1>1, <1>6
  <2>2. ASSUME NEW k \in 0 .. Count, k \in T, k < Count PROVE k + 1 \in T
    BY <1>0, <2>2, <1>6, RoundTypes
  <2> HIDE DEF T
  <2>3. QED BY <1>0, <2>1, <2>2, CountUp
<1>8. R \in [0 .. Count -> RoundType]
  BY <1>4, <1>7
<1>9. QED BY <1>5, <1>6, <1>8

\* What holds of a round.
RoundIsSound(flow, k) ==
    LET R == Rounds(flow)
        now == R[k]
    IN /\ now.placed = UNION {R[j].ready : j \in 0 .. k - 1}
       /\ now.placed \cap now.ready = {}
       /\ \A s \in Steps \ now.placed :
            now.missing[s] = Cardinality(flow.after[s] \ now.placed)
       /\ \A s \in now.ready : flow.after[s] \subseteq now.placed
       /\ \A s \in Steps \ (now.placed \cup now.ready) : ~(flow.after[s] \subseteq now.placed)
       /\ k > 0 => \A s \in now.ready : flow.after[s] \cap R[k - 1].ready # {}

\* The first round has nothing behind it.
LEMMA FirstRoundSound ==
    ASSUME NEW flow \in WorkflowType
    PROVE  RoundIsSound(flow, 0)
<1> DEFINE R == Rounds(flow)
<1>1. R[0] = FirstRound(flow)
  BY RoundsAre
<1>2. \A s \in Steps : flow.after[s] \in SUBSET (Steps \cup {Unknown})
  BY DEF WorkflowType
<1>3. \A s \in Steps : Cardinality(flow.after[s]) = 0 <=> flow.after[s] = {}
  BY <1>2, Finite, FS_EmptySet
<1>4. \A s \in Steps : flow.after[s] \ {} = flow.after[s]
  OBVIOUS
<1>5. UNION {R[j].ready : j \in 0 .. 0 - 1} = {}
  OBVIOUS
<1>6. /\ R[0].placed = {} /\ R[0].ready = {s \in Steps : Cardinality(flow.after[s]) = 0}
      /\ \A s \in Steps : R[0].missing[s] = Cardinality(flow.after[s])
  BY <1>1 DEF FirstRound
<1> HIDE DEF R
<1>7. QED BY <1>3, <1>4, <1>5, <1>6 DEF RoundIsSound, R

\* Counting dependencies down keeps a round what it should be.
LEMMA NextRoundSound ==
    ASSUME NEW flow \in WorkflowType, NEW k \in 0 .. Count, k < Count, RoundIsSound(flow, k)
    PROVE  RoundIsSound(flow, k + 1)
<1> DEFINE R == Rounds(flow)
           last == R[k]
           now == R[k + 1]
           after == flow.after
<1>0. Count \in Nat /\ k \in Nat /\ k + 1 \in 1 .. Count /\ (k + 1) - 1 = k
  BY Finite
<1>1. now = NextRound(flow, last) /\ last \in RoundType
  BY <1>0, RoundsAre
<1>2. \A s \in Steps : after[s] \in SUBSET (Steps \cup {Unknown})
  BY DEF WorkflowType
<1>3. /\ last.placed \in SUBSET Steps /\ last.ready \in SUBSET Steps
      /\ last.missing \in [Steps -> Int]
  BY <1>1 DEF RoundType
<1>4. now.placed = last.placed \cup last.ready
  BY <1>1 DEF NextRound
<1>5. \A s \in Steps \ now.placed :
        now.missing[s] = last.missing[s] - Cardinality(after[s] \cap last.ready)
  BY <1>1, <1>4 DEF NextRound
<1>6. now.ready = {s \in Steps \ now.placed : now.missing[s] = 0 /\ after[s] \cap last.ready # {}}
  BY <1>1, <1>4 DEF NextRound
<1>7. /\ last.placed = UNION {R[j].ready : j \in 0 .. k - 1}
      /\ last.placed \cap last.ready = {}
      /\ \A s \in Steps \ last.placed : last.missing[s] = Cardinality(after[s] \ last.placed)
      /\ \A s \in last.ready : after[s] \subseteq last.placed
      /\ \A s \in Steps \ (last.placed \cup last.ready) : ~(after[s] \subseteq last.placed)
  BY DEF RoundIsSound
<1>8. now.placed = UNION {R[j].ready : j \in 0 .. (k + 1) - 1}
  <2>1. 0 .. (k + 1) - 1 = (0 .. k - 1) \cup {k}
    BY <1>0
  <2> HIDE DEF R
  <2>2. UNION {R[j].ready : j \in (0 .. k - 1) \cup {k}}
          = (UNION {R[j].ready : j \in 0 .. k - 1}) \cup R[k].ready
    OBVIOUS
  <2>3. QED BY <1>4, <1>7, <2>1, <2>2
<1> HIDE DEF now, last, after, R
<1>9. ASSUME NEW s \in Steps \ now.placed
      PROVE  now.missing[s] = Cardinality(after[s] \ now.placed)
  <2> DEFINE old == after[s] \ last.placed
  <2>1. IsFiniteSet(old) /\ Cardinality(old) \in Nat
    BY <1>2, Finite
  <2>2. old \ last.ready = after[s] \ now.placed /\ old \cap last.ready = after[s] \cap last.ready
    BY <1>4, <1>7
  <2>3. Cardinality(old \ last.ready) = Cardinality(old) - Cardinality(old \cap last.ready)
    BY <2>1, FS_Difference
  <2>4. last.missing[s] = Cardinality(old)
    BY <1>4, <1>7
  <2>5. now.missing[s] = last.missing[s] - Cardinality(after[s] \cap last.ready)
    BY <1>5
  <2> HIDE DEF old
  <2>6. QED BY <2>2, <2>3, <2>4, <2>5
<1>10. \A s \in Steps : Cardinality(after[s] \ now.placed) = 0 <=> after[s] \subseteq now.placed
  <2> SUFFICES ASSUME NEW s \in Steps
               PROVE  Cardinality(after[s] \ now.placed) = 0 <=> after[s] \subseteq now.placed
    OBVIOUS
  <2> DEFINE rest == after[s] \ now.placed
  <2>1. IsFiniteSet(rest)
    BY <1>2, Finite
  <2>2. Cardinality(rest) = 0 <=> rest = {}
    BY <2>1, FS_EmptySet
  <2>3. QED BY <2>2
<1>11. now.placed \cap now.ready = {}
  BY <1>6
<1>12. \A s \in now.ready : after[s] \subseteq now.placed
  BY <1>6, <1>9, <1>10
<1>13. ASSUME NEW s \in Steps \ (now.placed \cup now.ready), after[s] \subseteq now.placed
       PROVE  FALSE
  BY <1>9, <1>10, <1>13, <1>6, <1>4, <1>7
<1>14. \A s \in now.ready : after[s] \cap last.ready # {}
  BY <1>6
<1>15. QED BY <1>0, <1>8, <1>9, <1>11, <1>12, <1>13, <1>14 DEF RoundIsSound, now, last, R, after

\* So every round is.
LEMMA RoundsAreSound ==
    ASSUME NEW flow \in WorkflowType
    PROVE  \A k \in 0 .. Count : RoundIsSound(flow, k)
<1> DEFINE T == {k \in 0 .. Count : RoundIsSound(flow, k)}
<1>1. 0 \in T
  BY FirstRoundSound, Finite
<1>2. \A k \in 0 .. Count : k \in T /\ k < Count => k + 1 \in T
  BY NextRoundSound, Finite
<1> HIDE DEF T
<1>3. 0 .. Count \subseteq T
  BY <1>1, <1>2, Finite, CountUp
<1>4. QED BY <1>3 DEF T

\* The rounds in which something is ready are the first ones, and there is at
\* least one round after them.
LEMMA ReadyRounds ==
    ASSUME NEW flow \in WorkflowType
    PROVE  \E m \in 0 .. Count :
             /\ {k \in 0 .. Count : Rounds(flow)[k].ready # {}} = 0 .. m - 1
             /\ Rounds(flow)[m].ready = {}
<1> DEFINE R == Rounds(flow)
           empty == {k \in 0 .. Count : R[k].ready = {}}
<1>0. Count \in Nat
  BY Finite
<1>1. \A k \in 0 .. Count : R[k] \in RoundType
  BY RoundsAre
<1>2. empty # {}
  <2> SUFFICES ASSUME empty = {} PROVE FALSE
    OBVIOUS
  <2> DEFINE T == {k \in 0 .. Count : Cardinality(R[k].placed) >= k}
  <2>1. \A k \in 0 .. Count : /\ IsFiniteSet(R[k].placed) /\ Cardinality(R[k].placed) \in Nat
                              /\ IsFiniteSet(R[k].ready) /\ Cardinality(R[k].ready) \in Nat
    BY <1>1, Finite DEF RoundType
  <2>2. 0 \in T
    BY <1>0, <2>1
  <2>3. ASSUME NEW k \in 0 .. Count, k \in T, k < Count PROVE k + 1 \in T
    <3>1. k + 1 \in 1 .. Count /\ (k + 1) - 1 = k
      BY <1>0, <2>3
    <3>2. R[k + 1].placed = R[k].placed \cup R[k].ready
      <4>1. R[k + 1] = NextRound(flow, R[k])
        BY <3>1, RoundsAre
      <4>2. QED BY <4>1 DEF NextRound
    <3>3. R[k].placed \cap R[k].ready = {}
      BY RoundsAreSound DEF RoundIsSound
    <3>4. Cardinality(R[k].ready) # 0
      BY <2>1, FS_EmptySet
    <3> HIDE DEF R
    <3>5. Cardinality(R[k].placed \cap R[k].ready) = 0
      BY <3>3, FS_EmptySet
    <3>6. Cardinality(R[k + 1].placed) = Cardinality(R[k].placed) + Cardinality(R[k].ready)
      <4> DEFINE p == R[k].placed
                 q == R[k].ready
      <4>1. IsFiniteSet(p) /\ IsFiniteSet(q) /\ Cardinality(p) \in Nat /\ Cardinality(q) \in Nat
        BY <2>1
      <4>2. Cardinality(p \cup q) = Cardinality(p) + Cardinality(q) - Cardinality(p \cap q)
        <5> HIDE DEF p, q
        <5>1. QED BY <4>1, FS_Union
      <4>3. QED BY <3>2, <3>5, <4>1, <4>2
    <3>7. Cardinality(R[k].placed) >= k
      BY <2>3
    <3>8. Cardinality(R[k + 1].placed) >= k + 1 /\ k + 1 \in 0 .. Count
      BY <2>1, <2>3, <3>1, <3>4, <3>6, <3>7
    <3>9. QED BY <3>8
  <2>4. Count \in T
    <3> HIDE DEF T
    <3>1. 0 .. Count \subseteq T
      BY <1>0, <2>2, <2>3, CountUp
    <3>2. QED BY <1>0, <3>1
  <2>5. R[Count].placed = Steps
    <3>1. R[Count].placed \in SUBSET Steps
      BY <1>0, <1>1 DEF RoundType
    <3>2. Cardinality(R[Count].placed) <= Count
      BY <3>1, WorkflowAssumption, FS_Subset DEF Count
    <3>3. Cardinality(R[Count].placed) = Count
      BY <1>0, <2>1, <2>4, <3>2
    <3> HIDE DEF R
    <3>4. QED BY <3>1, <3>3, WorkflowAssumption, FS_Subset DEF Count
  <2>6. R[Count].ready = {}
    BY <1>0, RoundsAreSound, <1>1, <2>5 DEF RoundIsSound, RoundType
  <2>7. QED BY <1>0, <2>6
<1>3. PICK m \in empty : \A k \in empty : m <= k
  <2>1. empty \in SUBSET Nat
    OBVIOUS
  <2> HIDE DEF empty
  <2>2. QED BY <1>2, <2>1, LeastNumber
<1>4. \A k \in 0 .. Count : k < m => R[k].ready # {}
  BY <1>0, <1>3
<1>5. \A k \in 0 .. Count : k >= m => R[k].ready = {}
  <2> DEFINE T == {k \in 0 .. Count : k >= m => R[k].ready = {}}
  <2>1. 0 \in T
    BY <1>0, <1>3
  <2>2. ASSUME NEW k \in 0 .. Count, k \in T, k < Count PROVE k + 1 \in T
    BY <1>0, <2>2, <1>3, RoundsAreSound DEF RoundIsSound
  <2> HIDE DEF T
  <2>3. 0 .. Count \subseteq T
    BY <1>0, <2>1, <2>2, CountUp
  <2>4. QED BY <2>3 DEF T
<1>6. {k \in 0 .. Count : R[k].ready # {}} = 0 .. m - 1
  <2> HIDE DEF R
  <2>1. m \in 0 .. Count
    BY <1>3
  <2>2. QED BY <1>0, <1>4, <1>5, <2>1
<1>7. QED BY <1>3, <1>6

\* Every step has one place in the file.
Ordered(flow) ==
    \A s \in Steps : Cardinality({i \in DOMAIN flow.order : flow.order[i] = s}) = 1

\* Every step has one position in the file.
LEMMA PositionIs ==
    ASSUME NEW flow \in WorkflowType, Ordered(flow)
    PROVE  \A s \in Steps : /\ Position(flow, s) \in 1 .. Len(flow.order)
                            /\ flow.order[Position(flow, s)] = s
<1> SUFFICES ASSUME NEW s \in Steps
             PROVE  /\ Position(flow, s) \in 1 .. Len(flow.order)
                    /\ flow.order[Position(flow, s)] = s
  OBVIOUS
<1> DEFINE places == {i \in DOMAIN flow.order : flow.order[i] = s}
<1>1. flow.order \in Seq(Steps)
  BY DEF WorkflowType
<1>2. Len(flow.order) \in Nat /\ DOMAIN flow.order = 1 .. Len(flow.order)
  BY <1>1
<1>3. Cardinality(places) = 1
  BY DEF Ordered
<1>4. places # {}
  <2> HIDE DEF places
  <2>1. QED BY <1>3, FS_EmptySet
<1>5. \E i \in DOMAIN flow.order : flow.order[i] = s
  BY <1>4
<1>6. Position(flow, s) \in DOMAIN flow.order /\ flow.order[Position(flow, s)] = s
  BY <1>5 DEF Position
<1>7. QED BY <1>2, <1>6

\* A stage that has the steps of a set, in order, exists.
Rising(flow, stage) ==
    \A i, j \in DOMAIN stage : i < j => Position(flow, stage[i]) < Position(flow, stage[j])

\* Steps can be put in the order of the file.
LEMMA InOrderExists ==
    ASSUME NEW flow \in WorkflowType, Ordered(flow)
    PROVE  \A n \in 0 .. Count : \A set \in SUBSET Steps :
             Cardinality(set) = n => \E stage \in [1 .. n -> set] : Rising(flow, stage)
<1> DEFINE P(n) == \A set \in SUBSET Steps :
                     Cardinality(set) = n => \E stage \in [1 .. n -> set] : Rising(flow, stage)
           T == {n \in 0 .. Count : P(n)}
<1>0. Count \in Nat
  BY Finite
<1>1. 0 \in T
  <2>1. ASSUME NEW set \in SUBSET Steps PROVE \E stage \in [1 .. 0 -> set] : Rising(flow, stage)
    <3> DEFINE none == [i \in 1 .. 0 |-> CHOOSE s \in set : TRUE]
    <3>1. none \in [1 .. 0 -> set] /\ DOMAIN none = {}
      BY 1 .. 0 = {}
    <3>2. Rising(flow, none)
      BY <3>1 DEF Rising
    <3> HIDE DEF none
    <3>3. QED BY <3>1, <3>2
  <2>2. QED BY <1>0, <2>1
<1>2. ASSUME NEW n \in 0 .. Count, n \in T, n < Count PROVE n + 1 \in T
  <2>1. ASSUME NEW set \in SUBSET Steps, Cardinality(set) = n + 1
        PROVE  \E stage \in [1 .. n + 1 -> set] : Rising(flow, stage)
    <3> DEFINE length == Len(flow.order)
               distances == {length - Position(flow, s) : s \in set}
    <3>1. length \in Nat /\ \A s \in set : Position(flow, s) \in 1 .. length
      BY PositionIs DEF WorkflowType
    <3>2. IsFiniteSet(set)
      BY Finite
    <3>3. set # {}
      BY <1>0, <2>1, FS_EmptySet
    <3>4. distances \in SUBSET Nat /\ distances # {}
      BY <3>1, <3>3
    <3> HIDE DEF length
    <3>5. PICK d \in distances : \A e \in distances : d <= e
      <4> HIDE DEF distances
      <4>1. QED BY <3>4, LeastNumber
    <3>6. PICK s \in set : d = length - Position(flow, s)
      BY <3>5
    <3>7. \A t \in set : Position(flow, t) <= Position(flow, s)
      BY <3>1, <3>5, <3>6
    <3>8. \A t \in set \ {s} : Position(flow, t) < Position(flow, s)
      BY PositionIs, <3>1, <3>7
    <3>9. Cardinality(set \ {s}) = n
      <4>1. Cardinality(set \ {s}) = Cardinality(set) - 1
        BY <3>2, <3>6, FS_RemoveElement
      <4>2. n \in Nat
        BY <1>0
      <4>3. QED BY <2>1, <4>1, <4>2
    <3>10. PICK stage \in [1 .. n -> set \ {s}] : Rising(flow, stage)
      BY <1>2, <3>9
    <3> DEFINE longer == [i \in 1 .. n + 1 |-> IF i = n + 1 THEN s ELSE stage[i]]
    <3>11. longer \in [1 .. n + 1 -> set]
      BY <3>10
    <3>12. Rising(flow, longer)
      BY <3>10, <3>8 DEF Rising
    <3> HIDE DEF longer
    <3>13. QED BY <3>11, <3>12
  <2>2. n + 1 \in 0 .. Count
    BY <1>0, <1>2
  <2>3. QED BY <2>1, <2>2
<1> HIDE DEF T
<1>3. 0 .. Count \subseteq T
  BY <1>0, <1>1, <1>2, CountUp
<1>4. QED BY <1>3 DEF T

\* A stage has the steps of its set, each once.
LEMMA InOrderIs ==
    ASSUME NEW flow \in WorkflowType, Ordered(flow), NEW set \in SUBSET Steps
    PROVE  LET stage == InOrder(flow, set)
           IN /\ stage \in Seq(Steps) /\ Len(stage) = Cardinality(set)
              /\ Range(stage) = set
              /\ \A i, j \in 1 .. Len(stage) : stage[i] = stage[j] => i = j
              /\ Rising(flow, stage)
<1> DEFINE n == Cardinality(set)
           stage == InOrder(flow, set)
<1>1. n \in Nat /\ n \in 0 .. Count /\ IsFiniteSet(set)
  BY Finite, WorkflowAssumption, FS_Subset DEF Count
<1>2. \E one \in [1 .. n -> set] : Rising(flow, one)
  BY <1>1, InOrderExists
<1>3. stage = CHOOSE one \in [1 .. n -> set] : Rising(flow, one)
  BY DEF InOrder, Rising
<1> HIDE DEF n, stage
<1>4. stage \in [1 .. n -> set] /\ Rising(flow, stage)
  BY <1>2, <1>3
<1>5. \A i, j \in 1 .. n : stage[i] = stage[j] => i = j
  BY <1>1, <1>4, PositionIs DEF Rising
<1>6. stage \in Injection(1 .. n, set)
  BY <1>4, <1>5 DEF Injection, IsInjective
<1>7. Cardinality(1 .. n) = n /\ IsFiniteSet(1 .. n)
  BY <1>1, FS_Interval
<1>8. stage \in Surjection(1 .. n, set)
  BY <1>1, <1>6, <1>7, FS_Injection DEF n
<1>9. Range(stage) = set
  BY <1>4, <1>8 DEF Surjection, Range
<1>10. stage \in Seq(Steps) /\ Len(stage) = n
  BY <1>1, <1>4
<1>11. QED BY <1>4, <1>5, <1>9, <1>10 DEF n, stage

\* The steps of the stages before the k-th.
EarlierThan(plan, k) == UNION {Range(plan[j]) : j \in 1 .. k - 1}

\* What a plan is.
LEMMA PlanShape ==
    ASSUME NEW flow \in WorkflowType, Ordered(flow)
    PROVE  LET plan == PlanOperationStages(flow)
           IN /\ plan \in Seq(Seq(Steps))
              /\ \A k \in 1 .. Len(plan) :
                   /\ Len(plan[k]) >= 1 /\ Rising(flow, plan[k])
                   /\ \A i, j \in 1 .. Len(plan[k]) : plan[k][i] = plan[k][j] => i = j
                   /\ Range(plan[k]) \cap EarlierThan(plan, k) = {}
                   /\ \A s \in Range(plan[k]) :
                        /\ flow.after[s] \subseteq EarlierThan(plan, k)
                        /\ k > 1 => flow.after[s] \cap Range(plan[k - 1]) # {}
              /\ \A s \in Steps \ Placed(plan) : ~(flow.after[s] \subseteq Placed(plan))
              /\ Placed(plan) \subseteq Steps
<1> DEFINE R == Rounds(flow)
           plan == PlanOperationStages(flow)
           full == {k \in 0 .. Count : R[k].ready # {}}
<1>0. Count \in Nat
  BY Finite
<1>1. PICK m \in 0 .. Count : full = 0 .. m - 1 /\ R[m].ready = {}
  BY ReadyRounds
<1>2. Cardinality(full) = m
  <2>1. Cardinality(0 .. m - 1) = m
    BY <1>0, <1>1, FS_Interval
  <2>2. QED BY <1>1, <2>1
<1>3. plan = [k \in 1 .. m |-> InOrder(flow, R[k - 1].ready)]
  BY RoundsAre, <1>2 DEF PlanOperationStages
<1>4. \A k \in 0 .. Count : R[k] \in RoundType /\ RoundIsSound(flow, k)
  BY RoundsAre, RoundsAreSound
<1> HIDE DEF R, plan, full
<1>5. ASSUME NEW k \in 1 .. m
      PROVE  /\ plan[k] \in Seq(Steps) /\ Rising(flow, plan[k])
             /\ Range(plan[k]) = R[k - 1].ready
             /\ \A i, j \in 1 .. Len(plan[k]) : plan[k][i] = plan[k][j] => i = j
             /\ Len(plan[k]) >= 1
  <2>1. k - 1 \in 0 .. Count /\ k - 1 \in 0 .. m - 1
    BY <1>0, <1>1
  <2>2. R[k - 1].ready \in SUBSET Steps /\ R[k - 1].ready # {}
    BY <1>4, <2>1, <1>1 DEF RoundType, full
  <2>3. plan[k] = InOrder(flow, R[k - 1].ready)
    BY <1>3
  <2>4. /\ plan[k] \in Seq(Steps) /\ Rising(flow, plan[k])
        /\ Range(plan[k]) = R[k - 1].ready
        /\ \A i, j \in 1 .. Len(plan[k]) : plan[k][i] = plan[k][j] => i = j
    BY <2>2, <2>3, InOrderIs
  <2>5. Len(plan[k]) >= 1
    <3>1. PICK s : s \in Range(plan[k])
      BY <2>2, <2>4
    <3>2. PICK i \in DOMAIN plan[k] : plan[k][i] = s
      BY <3>1 DEF Range
    <3>3. i \in 1 .. Len(plan[k]) /\ Len(plan[k]) \in Nat
      BY <2>4, <3>2
    <3>4. QED BY <3>3
  <2>6. QED BY <2>4, <2>5
<1>6. DOMAIN plan = 1 .. m /\ m \in Nat
  BY <1>0, <1>1, <1>3
<1>7. plan \in Seq(Seq(Steps)) /\ Len(plan) = m
  BY <1>3, <1>6, <1>5
<1>8. ASSUME NEW k \in 1 .. m + 1 PROVE EarlierThan(plan, k) = R[k - 1].placed
  <2>1. k - 1 \in 0 .. Count /\ k \in Int
    BY <1>0, <1>1
  <2>2. R[k - 1].placed = UNION {R[j].ready : j \in 0 .. (k - 1) - 1}
    BY <1>4, <2>1 DEF RoundIsSound, R
  <2>3. \A j \in 1 .. k - 1 : Range(plan[j]) = R[j - 1].ready /\ j - 1 \in 0 .. (k - 1) - 1
    BY <1>5, <1>6
  <2>4. \A j \in 0 .. (k - 1) - 1 : j + 1 \in 1 .. k - 1 /\ Range(plan[j + 1]) = R[j].ready
    BY <1>6, <2>1, <1>5
  <2>5. EarlierThan(plan, k) \subseteq R[k - 1].placed
    <3> SUFFICES ASSUME NEW s \in EarlierThan(plan, k) PROVE s \in R[k - 1].placed
      OBVIOUS
    <3>1. PICK j \in 1 .. k - 1 : s \in Range(plan[j])
      BY DEF EarlierThan
    <3>2. s \in R[j - 1].ready /\ j - 1 \in 0 .. (k - 1) - 1
      BY <2>3, <3>1
    <3>3. QED BY <2>2, <3>2
  <2>6. R[k - 1].placed \subseteq EarlierThan(plan, k)
    <3> SUFFICES ASSUME NEW s \in R[k - 1].placed PROVE s \in EarlierThan(plan, k)
      OBVIOUS
    <3>1. PICK j \in 0 .. (k - 1) - 1 : s \in R[j].ready
      BY <2>2
    <3>2. j + 1 \in 1 .. k - 1 /\ s \in Range(plan[j + 1])
      BY <2>4, <3>1
    <3>3. QED BY <3>2 DEF EarlierThan
  <2>7. QED BY <2>5, <2>6
<1>9. ASSUME NEW k \in 1 .. m
      PROVE  /\ Range(plan[k]) \cap EarlierThan(plan, k) = {}
             /\ \A s \in Range(plan[k]) :
                  /\ flow.after[s] \subseteq EarlierThan(plan, k)
                  /\ k > 1 => flow.after[s] \cap Range(plan[k - 1]) # {}
  <2>1. k - 1 \in 0 .. Count /\ k \in 1 .. m + 1
    BY <1>0, <1>1
  <2>2. EarlierThan(plan, k) = R[k - 1].placed /\ Range(plan[k]) = R[k - 1].ready
    BY <1>5, <1>8, <2>1
  <2>3. /\ R[k - 1].placed \cap R[k - 1].ready = {}
        /\ \A s \in R[k - 1].ready : flow.after[s] \subseteq R[k - 1].placed
        /\ k - 1 > 0 => \A s \in R[k - 1].ready : flow.after[s] \cap R[(k - 1) - 1].ready # {}
    BY <1>4, <2>1 DEF RoundIsSound, R
  <2>4. k > 1 => Range(plan[k - 1]) = R[(k - 1) - 1].ready
    BY <1>6, <1>5
  <2>5. k > 1 => k - 1 > 0
    OBVIOUS
  <2>6. QED BY <2>2, <2>3, <2>4, <2>5
<1>10. Placed(plan) = R[m].placed
  <2>1. Placed(plan) = EarlierThan(plan, m + 1)
    BY <1>6 DEF Placed, EarlierThan
  <2>2. m + 1 \in 1 .. m + 1 /\ (m + 1) - 1 = m
    BY <1>6
  <2>3. QED BY <1>8, <2>1, <2>2
<1>11. \A s \in Steps \ R[m].placed : ~(flow.after[s] \subseteq R[m].placed)
  BY <1>1, <1>4 DEF RoundIsSound, R
<1>12. R[m].placed \subseteq Steps
  BY <1>1, <1>4 DEF RoundType
<1>13. /\ plan \in Seq(Seq(Steps)) /\ Placed(plan) \subseteq Steps
       /\ \A s \in Steps \ Placed(plan) : ~(flow.after[s] \subseteq Placed(plan))
  BY <1>7, <1>10, <1>11, <1>12
<1>14. ASSUME NEW k \in 1 .. Len(plan)
       PROVE  /\ Len(plan[k]) >= 1 /\ Rising(flow, plan[k])
              /\ \A i, j \in 1 .. Len(plan[k]) : plan[k][i] = plan[k][j] => i = j
              /\ Range(plan[k]) \cap EarlierThan(plan, k) = {}
              /\ \A s \in Range(plan[k]) :
                   /\ flow.after[s] \subseteq EarlierThan(plan, k)
                   /\ k > 1 => flow.after[s] \cap Range(plan[k - 1]) # {}
  BY <1>5, <1>7, <1>9
<1>15. QED BY <1>13, <1>14 DEF plan

\* For every step, steps it waits for.
Waits == [Steps -> SUBSET (Steps \cup {Unknown})]

\* What Before goes through.
Chain(flow, chain) ==
    /\ chain \in [0 .. Count -> Waits]
    /\ chain[0] = flow.after
    /\ \A k \in 1 .. Count : chain[k] = Lengthened(chain[k - 1])
    /\ Before(flow) = chain[Count]

\* A longer chain of dependencies is one of the same type.
LEMMA LengthenedType == \A waits \in Waits : Lengthened(waits) \in Waits
BY DEF Waits, Lengthened

\* The chains of dependencies exist, longer and longer.
LEMMA ChainExists ==
    ASSUME NEW flow \in WorkflowType
    PROVE  \E chain : Chain(flow, chain)
<1> DEFINE F == [waits \in Waits |-> Lengthened(waits)]
           Is(f) == f = [k \in 0 .. Count |-> IF k = 0 THEN flow.after ELSE Lengthened(f[k - 1])]
           C == CHOOSE f : Is(f)
<1>0. Count \in Nat
  BY Finite
<1>1. flow.after \in Waits /\ \A waits \in Waits : F[waits] \in Waits
  BY LengthenedType DEF WorkflowType, Waits
<1>2. PICK f \in [0 .. Count -> Waits] : Iterates(f, Count, flow.after, F)
  <2> DEFINE a == flow.after
  <2>1. a \in Waits
    BY <1>1
  <2> HIDE DEF F, Is, C, a
  <2>2. \E f \in [0 .. Count -> Waits] : Iterates(f, Count, a, F)
    BY <1>0, <1>1, <2>1, Unfolds
  <2>3. QED BY <2>2 DEF a
<1>3. Is(f)
  <2>1. ASSUME NEW k \in 0 .. Count
        PROVE  f[k] = IF k = 0 THEN flow.after ELSE Lengthened(f[k - 1])
    <3>1. CASE k = 0
      BY <1>2, <3>1 DEF Iterates
    <3>2. CASE k # 0
      <4>1. k \in 1 .. Count /\ k - 1 \in 0 .. Count
        BY <1>0, <3>2
      <4>2. f[k] = F[f[k - 1]] /\ f[k - 1] \in Waits
        BY <1>2, <4>1 DEF Iterates
      <4>3. QED BY <3>2, <4>2
    <3>3. QED BY <3>1, <3>2
  <2>2. QED BY <2>1
<1>4. Is(C)
  BY <1>3
<1>5. Before(flow) = C[Count]
  BY DEF Before, Count
<1> HIDE DEF C
<1>6. C[0] = flow.after /\ \A k \in 1 .. Count : C[k] = Lengthened(C[k - 1])
  BY <1>4, <1>0
<1> DEFINE T == {k \in 0 .. Count : C[k] \in Waits}
<1>7. 0 .. Count \subseteq T
  <2>1. 0 \in T
    BY <1>0, <1>1, <1>6
  <2>2. ASSUME NEW k \in 0 .. Count, k \in T, k < Count PROVE k + 1 \in T
    BY <1>0, <2>2, <1>6, LengthenedType
  <2> HIDE DEF T
  <2>3. QED BY <1>0, <2>1, <2>2, CountUp
<1>8. C \in [0 .. Count -> Waits]
  BY <1>4, <1>7
<1>9. QED BY <1>5, <1>6, <1>8 DEF Chain

\* A set with the dependencies of its steps.
Closed(flow, set) == \A d \in set \cap Steps : flow.after[d] \subseteq set

\* What is closed keeps the chains that start in it.
LEMMA ChainStaysIn ==
    ASSUME NEW flow \in WorkflowType, NEW chain, Chain(flow, chain), NEW set, Closed(flow, set)
    PROVE  \A k \in 0 .. Count : \A s \in Steps :
             flow.after[s] \subseteq set => chain[k][s] \subseteq set
<1> DEFINE P(k) == \A s \in Steps : flow.after[s] \subseteq set => chain[k][s] \subseteq set
           T == {k \in 0 .. Count : P(k)}
<1>0. Count \in Nat
  BY Finite
<1>1. 0 \in T
  BY <1>0 DEF Chain
<1>2. ASSUME NEW k \in 0 .. Count, k \in T, k < Count PROVE k + 1 \in T
  <2>1. k + 1 \in 1 .. Count /\ (k + 1) - 1 = k /\ k + 1 \in 0 .. Count
    BY <1>0, <1>2
  <2>2. chain[k + 1] = Lengthened(chain[k])
    BY <2>1 DEF Chain
  <2>3. ASSUME NEW s \in Steps, flow.after[s] \subseteq set PROVE chain[k + 1][s] \subseteq set
    BY <2>2, <1>2, <2>3 DEF Lengthened, Closed
  <2> HIDE DEF P
  <2>4. P(k + 1)
    BY <2>3 DEF P
  <2>5. QED BY <2>1, <2>4
<1> HIDE DEF T
<1>3. 0 .. Count \subseteq T
  BY <1>0, <1>1, <1>2, CountUp
<1>4. QED BY <1>3 DEF T

\* What a step waits for is before it.
LEMMA ChainGrows ==
    ASSUME NEW flow \in WorkflowType, NEW chain, Chain(flow, chain)
    PROVE  \A k \in 0 .. Count : \A s \in Steps : flow.after[s] \subseteq chain[k][s]
<1> DEFINE P(k) == \A s \in Steps : flow.after[s] \subseteq chain[k][s]
           T == {k \in 0 .. Count : P(k)}
<1>0. Count \in Nat
  BY Finite
<1>1. 0 \in T
  BY <1>0 DEF Chain
<1>2. ASSUME NEW k \in 0 .. Count, k \in T, k < Count PROVE k + 1 \in T
  <2>1. k + 1 \in 1 .. Count /\ (k + 1) - 1 = k /\ k + 1 \in 0 .. Count
    BY <1>0, <1>2
  <2>2. chain[k + 1] = Lengthened(chain[k])
    BY <2>1 DEF Chain
  <2>3. \A s \in Steps : chain[k][s] \subseteq chain[k + 1][s]
    BY <2>2 DEF Lengthened
  <2>4. P(k + 1)
    BY <1>2, <2>3
  <2> HIDE DEF P
  <2>5. QED BY <2>1, <2>4
<1> HIDE DEF T
<1>3. 0 .. Count \subseteq T
  BY <1>0, <1>1, <1>2, CountUp
<1>4. QED BY <1>3 DEF T

\* Every dependency names a step.
Known(flow) == \A s \in Steps : Unknown \notin flow.after[s]

\* A chain that is not closed yet has become longer.
LEMMA ChainIsLong ==
    ASSUME NEW flow \in WorkflowType, Known(flow), NEW chain, Chain(flow, chain), NEW s \in Steps
    PROVE  \A k \in 0 .. Count :
             /\ chain[k][s] \in SUBSET Steps
             /\ Closed(flow, chain[k][s]) \/ Cardinality(chain[k][s]) >= k + 1
<1> DEFINE C(k) == chain[k][s]
           P(k) == Closed(flow, C(k)) \/ Cardinality(C(k)) >= k + 1
           T == {k \in 0 .. Count : P(k)}
<1>0. Count \in Nat
  BY Finite
<1>1. \A k \in 0 .. Count : \A t \in Steps : chain[k][t] \in SUBSET Steps
  <2>1. Closed(flow, Steps) /\ \A t \in Steps : flow.after[t] \subseteq Steps
    BY DEF Closed, Known, WorkflowType
  <2>2. QED BY <2>1, ChainStaysIn
<1>2. \A set \in SUBSET Steps : IsFiniteSet(set) /\ Cardinality(set) \in Nat
  BY Finite
<1>3. 0 \in T
  <2> SUFFICES ASSUME ~Closed(flow, C(0)) PROVE Cardinality(C(0)) >= 1
    BY <1>0
  <2>1. C(0) # {} /\ C(0) \in SUBSET Steps
    BY <1>0, <1>1 DEF Closed
  <2> HIDE DEF C
  <2>2. Cardinality(C(0)) # 0 /\ Cardinality(C(0)) \in Nat
    BY <1>2, <2>1, FS_EmptySet
  <2>3. QED BY <2>2
<1>4. ASSUME NEW k \in 0 .. Count, k \in T, k < Count PROVE k + 1 \in T
  <2>1. k + 1 \in 1 .. Count /\ (k + 1) - 1 = k /\ k + 1 \in 0 .. Count /\ k \in Nat
    BY <1>0, <1>4
  <2>2. C(k + 1) = C(k) \cup UNION {chain[k][d] : d \in C(k) \cap Steps}
    <3>1. chain[k + 1] = Lengthened(chain[k])
      BY <2>1 DEF Chain
    <3>2. QED BY <3>1 DEF Lengthened
  <2>3. C(k) \in SUBSET Steps /\ C(k + 1) \in SUBSET Steps
    BY <1>1, <2>1
  <2>4. flow.after[s] \subseteq C(k) /\ \A d \in Steps : flow.after[d] \subseteq chain[k][d]
    BY ChainGrows
  <2>5. CASE Closed(flow, C(k))
    <3>1. \A d \in C(k) \cap Steps : chain[k][d] \subseteq C(k)
      <4>1. \A d \in C(k) \cap Steps : flow.after[d] \subseteq C(k)
        BY <2>5 DEF Closed
      <4> HIDE DEF C
      <4>2. QED BY <2>5, <4>1, ChainStaysIn
    <3>2. C(k + 1) = C(k)
      BY <2>2, <3>1
    <3>3. P(k + 1)
      BY <2>5, <3>2
    <3> HIDE DEF P
    <3>4. QED BY <2>1, <3>3
  <2>6. CASE ~Closed(flow, C(k))
    <3>1. Cardinality(C(k)) >= k + 1
      BY <1>4, <2>6
    <3>2. PICK d \in C(k) \cap Steps : ~(flow.after[d] \subseteq C(k))
      BY <2>6 DEF Closed
    <3>3. chain[k][d] \subseteq C(k + 1) /\ ~(chain[k][d] \subseteq C(k))
      BY <2>2, <2>4, <3>2
    <3>4. C(k) \subseteq C(k + 1) /\ C(k) # C(k + 1)
      BY <2>2, <3>3
    <3> HIDE DEF C
    <3>5. Cardinality(C(k)) <= Cardinality(C(k + 1)) /\ Cardinality(C(k)) # Cardinality(C(k + 1))
      BY <1>2, <2>3, <3>4, FS_Subset
    <3>6. Cardinality(C(k)) \in Nat /\ Cardinality(C(k + 1)) \in Nat
      BY <1>2, <2>3
    <3>7. Cardinality(C(k + 1)) >= (k + 1) + 1
      BY <2>1, <3>1, <3>5, <3>6
    <3>8. QED BY <2>1, <3>7
  <2>7. QED BY <2>5, <2>6
<1> HIDE DEF T
<1>5. 0 .. Count \subseteq T
  BY <1>0, <1>3, <1>4, CountUp
<1>6. \A k \in 0 .. Count : P(k)
  BY <1>5 DEF T
<1>7. QED BY <1>1, <1>6

\* What is before a step is closed.
LEMMA BeforeIsClosed ==
    ASSUME NEW flow \in WorkflowType, Known(flow), NEW s \in Steps
    PROVE  /\ Before(flow)[s] \in SUBSET Steps /\ Closed(flow, Before(flow)[s])
           /\ flow.after[s] \subseteq Before(flow)[s]
<1>0. Count \in Nat
  BY Finite
<1>1. PICK chain : Chain(flow, chain)
  BY ChainExists
<1>2. Before(flow)[s] = chain[Count][s]
  BY <1>1 DEF Chain
<1>3. /\ chain[Count][s] \in SUBSET Steps
      /\ Closed(flow, chain[Count][s]) \/ Cardinality(chain[Count][s]) >= Count + 1
  BY <1>0, <1>1, ChainIsLong
<1>4. ~(Cardinality(chain[Count][s]) >= Count + 1)
  BY <1>3, Finite, WorkflowAssumption, FS_Subset, <1>0 DEF Count
<1>5. flow.after[s] \subseteq chain[Count][s]
  BY <1>0, <1>1, ChainGrows
<1>6. QED BY <1>2, <1>3, <1>4, <1>5

\* What a step waits for lies in every closed set that has its dependencies.
LEMMA BeforeStaysIn ==
    ASSUME NEW flow \in WorkflowType, NEW set, Closed(flow, set), NEW s \in Steps,
           flow.after[s] \subseteq set
    PROVE  Before(flow)[s] \subseteq set
<1>1. PICK chain : Chain(flow, chain)
  BY ChainExists
<1>2. Before(flow)[s] = chain[Count][s]
  BY <1>1 DEF Chain
<1>3. Count \in 0 .. Count
  BY Finite
<1>4. QED BY <1>1, <1>2, <1>3, ChainStaysIn

\* A step depends on itself through others, or on no step.
Ill(flow) == \E s \in Steps : s \in Before(flow)[s] \/ Unknown \in flow.after[s]

\* What is refused is ill.
LEMMA RefusedIsIll ==
    ASSUME NEW flow \in WorkflowType, Ordered(flow), Refused(flow)
    PROVE  Ill(flow)
<1> DEFINE plan == PlanOperationStages(flow)
           before == Before(flow)
           stuck == Steps \ Placed(plan)
<1>1. SUFFICES ASSUME ~Ill(flow) PROVE FALSE
  OBVIOUS
<1>2. Known(flow) /\ \A s \in Steps : s \notin before[s]
  BY <1>1 DEF Ill, Known
<1>3. \A s \in Steps : /\ before[s] \in SUBSET Steps /\ Closed(flow, before[s])
                       /\ flow.after[s] \subseteq before[s]
  BY <1>2, BeforeIsClosed
<1> HIDE DEF before
<1>4. stuck # {}
  BY <1>2, <1>3, PlanShape DEF Known, Refused
<1>5. \A s \in stuck : before[s] \cap stuck # {}
  BY PlanShape, <1>3
<1>6. \A s \in Steps : \A d \in before[s] : before[d] \subseteq before[s]
  BY <1>3, BeforeStaysIn DEF Closed, before
<1> HIDE DEF plan
<1> DEFINE waited(s) == before[s] \cap stuck
           counts == {Cardinality(waited(s)) : s \in stuck}
<1>7. \A s \in stuck : IsFiniteSet(waited(s)) /\ Cardinality(waited(s)) \in Nat
  BY Finite
<1>8. PICK s \in stuck : \A t \in stuck : Cardinality(waited(s)) <= Cardinality(waited(t))
  <2>1. counts \in SUBSET Nat /\ counts # {}
    BY <1>4, <1>7
  <2> HIDE DEF waited
  <2>2. PICK n \in counts : \A k \in counts : n <= k
    <3> HIDE DEF counts
    <3>1. QED BY <2>1, LeastNumber
  <2>3. QED BY <2>2
<1>9. PICK d \in stuck : d \in before[s]
  BY <1>5, <1>8
<1>10. waited(d) \subseteq waited(s)
  BY <1>6, <1>8, <1>9
<1>11. d \in waited(s) /\ d \notin waited(d)
  BY <1>2, <1>9
<1> HIDE DEF waited, stuck
<1>12. /\ Cardinality(waited(d)) <= Cardinality(waited(s))
       /\ Cardinality(waited(d)) # Cardinality(waited(s))
  BY <1>11, <1>7, <1>8, <1>10, FS_Subset
<1>13. QED BY <1>7, <1>8, <1>9, <1>12

\* In a plan that is kept every step is placed after what is before it.
LEMMA KeptIsWell ==
    ASSUME NEW flow \in WorkflowType, Ordered(flow), ~Refused(flow)
    PROVE  LET plan == PlanOperationStages(flow)
           IN /\ ~Ill(flow)
              /\ Placed(plan) = Steps
              /\ \A k \in 1 .. Len(plan) : \A s \in Range(plan[k]) :
                   Before(flow)[s] \subseteq EarlierThan(plan, k)
<1> DEFINE plan == PlanOperationStages(flow)
<1>1. /\ plan \in Seq(Seq(Steps))
      /\ \A k \in 1 .. Len(plan) : Range(plan[k]) \cap EarlierThan(plan, k) = {}
      /\ \A k \in 1 .. Len(plan) : \A s \in Range(plan[k]) :
           flow.after[s] \subseteq EarlierThan(plan, k)
  BY PlanShape
<1>2. Placed(plan) = Steps /\ \A s \in Steps : Unknown \notin flow.after[s]
  BY DEF Refused
<1> HIDE DEF plan
<1>3. \A k \in 1 .. Len(plan) : Closed(flow, EarlierThan(plan, k))
  <2> SUFFICES ASSUME NEW k \in 1 .. Len(plan), NEW d \in EarlierThan(plan, k)
               PROVE  flow.after[d] \subseteq EarlierThan(plan, k)
    BY DEF Closed
  <2>1. Len(plan) \in Nat
    BY <1>1
  <2>2. PICK j \in 1 .. k - 1 : d \in Range(plan[j])
    BY DEF EarlierThan
  <2>3. j \in 1 .. Len(plan) /\ 1 .. j - 1 \subseteq 1 .. k - 1
    BY <2>1, <2>2
  <2>4. EarlierThan(plan, j) \subseteq EarlierThan(plan, k)
    BY <2>3 DEF EarlierThan
  <2>5. QED BY <1>1, <2>2, <2>3, <2>4
<1>4. ASSUME NEW k \in 1 .. Len(plan), NEW s \in Range(plan[k])
      PROVE  s \in Steps /\ Before(flow)[s] \subseteq EarlierThan(plan, k)
  <2>1. s \in Steps
    <3>1. plan[k] \in Seq(Steps)
      BY <1>1
    <3>2. PICK i \in DOMAIN plan[k] : s = plan[k][i]
      BY DEF Range
    <3>3. QED BY <3>1, <3>2
  <2>2. QED BY <1>1, <1>3, <2>1, BeforeStaysIn
<1>5. ASSUME NEW s \in Steps PROVE s \notin Before(flow)[s]
  <2>1. PICK k \in DOMAIN plan : s \in Range(plan[k])
    BY <1>2 DEF Placed
  <2>2. k \in 1 .. Len(plan)
    BY <1>1
  <2>3. QED BY <1>1, <1>4, <2>1, <2>2
<1>6. QED BY <1>2, <1>4, <1>5 DEF Ill, plan

\* A workflow that is not refused, and its plan.
Kept(flow) == flow \in WorkflowType /\ Ordered(flow) /\ ~Refused(flow)

\* The stage of a step.
StageIn(flow, step) ==
    CHOOSE k \in DOMAIN PlanOperationStages(flow) : step \in Range(PlanOperationStages(flow)[k])

\* The place of a step in its stage.
SpotIn(flow, step) ==
    LET stage == PlanOperationStages(flow)[StageIn(flow, step)]
    IN CHOOSE i \in DOMAIN stage : stage[i] = step

\* Stages that run by themselves.
AloneIn(flow, k) == Range(PlanOperationStages(flow)[k]) \cap flow.global # {}

\* Each step has one stage and one place in it, after those it waits for.
LEMMA PlacesAre ==
    ASSUME NEW flow, Kept(flow)
    PROVE  LET plan == PlanOperationStages(flow)
           IN /\ plan \in Seq(Seq(Steps)) /\ Len(plan) \in Nat
              /\ \A k \in 1 .. Len(plan) : plan[k] \in Seq(Steps) /\ Len(plan[k]) \in Nat
              /\ \A s \in Steps : /\ StageIn(flow, s) \in 1 .. Len(plan)
                                  /\ SpotIn(flow, s) \in 1 .. Len(plan[StageIn(flow, s)])
                                  /\ plan[StageIn(flow, s)][SpotIn(flow, s)] = s
              /\ \A k \in 1 .. Len(plan) : \A i \in 1 .. Len(plan[k]) :
                   /\ plan[k][i] \in Steps
                   /\ StageIn(flow, plan[k][i]) = k /\ SpotIn(flow, plan[k][i]) = i
              /\ \A s \in Steps : \A d \in Before(flow)[s] :
                   d \in Steps /\ StageIn(flow, d) < StageIn(flow, s)
<1> DEFINE plan == PlanOperationStages(flow)
<1>1. /\ plan \in Seq(Seq(Steps)) /\ Placed(plan) = Steps
      /\ \A k \in 1 .. Len(plan) : Range(plan[k]) \cap EarlierThan(plan, k) = {}
      /\ \A k \in 1 .. Len(plan) : \A i, j \in 1 .. Len(plan[k]) : plan[k][i] = plan[k][j] => i = j
      /\ \A k \in 1 .. Len(plan) : \A s \in Range(plan[k]) :
           Before(flow)[s] \subseteq EarlierThan(plan, k)
  BY PlanShape, KeptIsWell DEF Kept
<1>2. /\ Len(plan) \in Nat /\ DOMAIN plan = 1 .. Len(plan)
      /\ \A k \in 1 .. Len(plan) : /\ plan[k] \in Seq(Steps) /\ Len(plan[k]) \in Nat
                                   /\ DOMAIN plan[k] = 1 .. Len(plan[k])
  BY <1>1
<1>3. \A s : StageIn(flow, s) = CHOOSE k \in DOMAIN plan : s \in Range(plan[k])
  BY DEF StageIn
<1>4. \A s : SpotIn(flow, s) =
        CHOOSE i \in DOMAIN plan[StageIn(flow, s)] : plan[StageIn(flow, s)][i] = s
  BY DEF SpotIn
<1> HIDE DEF plan
<1>5. ASSUME NEW s, NEW j \in 1 .. Len(plan), NEW k \in 1 .. Len(plan),
             s \in Range(plan[j]), s \in Range(plan[k]), j < k
      PROVE  FALSE
  <2>1. j \in 1 .. k - 1
    BY <1>2, <1>5
  <2>2. s \in EarlierThan(plan, k)
    BY <1>5, <2>1 DEF EarlierThan
  <2>3. QED BY <1>1, <1>5, <2>2
<1>6. \A s : \A j, k \in 1 .. Len(plan) : s \in Range(plan[j]) /\ s \in Range(plan[k]) => j = k
  BY <1>2, <1>5
<1>7. ASSUME NEW k \in 1 .. Len(plan), NEW i \in 1 .. Len(plan[k])
      PROVE  /\ plan[k][i] \in Steps
             /\ StageIn(flow, plan[k][i]) = k /\ SpotIn(flow, plan[k][i]) = i
  <2> DEFINE s == plan[k][i]
  <2>1. s \in Range(plan[k]) /\ s \in Steps
    BY <1>2 DEF Range
  <2> HIDE DEF s
  <2>2. StageIn(flow, s) \in DOMAIN plan /\ s \in Range(plan[StageIn(flow, s)])
    BY <1>2, <2>1, <1>3
  <2>3. StageIn(flow, s) = k
    BY <1>2, <1>6, <2>1, <2>2
  <2>4. SpotIn(flow, s) \in DOMAIN plan[k] /\ plan[k][SpotIn(flow, s)] = s
    BY <1>2, <1>4, <2>3 DEF s
  <2>5. SpotIn(flow, s) = i
    BY <1>2, <2>4, <1>1 DEF s
  <2>6. QED BY <2>1, <2>3, <2>5 DEF s
<1>8. ASSUME NEW s \in Steps
      PROVE  \E k \in 1 .. Len(plan) : \E i \in 1 .. Len(plan[k]) : plan[k][i] = s
  <2>1. PICK k \in 1 .. Len(plan) : s \in Range(plan[k])
    BY <1>1, <1>2 DEF Placed
  <2>2. PICK i \in DOMAIN plan[k] : plan[k][i] = s
    BY <2>1 DEF Range
  <2>3. QED BY <1>2, <2>1, <2>2
<1>9. ASSUME NEW s \in Steps
      PROVE  /\ StageIn(flow, s) \in 1 .. Len(plan)
             /\ SpotIn(flow, s) \in 1 .. Len(plan[StageIn(flow, s)])
             /\ plan[StageIn(flow, s)][SpotIn(flow, s)] = s
  <2>1. PICK k \in 1 .. Len(plan) : \E i \in 1 .. Len(plan[k]) : plan[k][i] = s
    BY <1>8
  <2>2. PICK i \in 1 .. Len(plan[k]) : plan[k][i] = s
    BY <2>1
  <2>3. QED BY <1>7, <2>1, <2>2
<1>10. ASSUME NEW s \in Steps, NEW d \in Before(flow)[s]
       PROVE  d \in Steps /\ StageIn(flow, d) < StageIn(flow, s)
  <2> DEFINE k == StageIn(flow, s)
  <2>1. k \in 1 .. Len(plan) /\ s \in Range(plan[k])
    BY <1>2, <1>9 DEF Range
  <2>2. d \in EarlierThan(plan, k)
    BY <1>1, <2>1
  <2>3. PICK j \in 1 .. k - 1 : d \in Range(plan[j])
    BY <2>2 DEF EarlierThan
  <2>4. j \in 1 .. Len(plan)
    BY <1>2, <2>1
  <2>5. PICK i \in 1 .. Len(plan[j]) : plan[j][i] = d
    BY <1>2, <2>3, <2>4 DEF Range
  <2>6. d \in Steps /\ StageIn(flow, d) = j
    BY <1>7, <2>4, <2>5
  <2>7. QED BY <1>2, <2>1, <2>3, <2>6
<1>11. QED BY <1>1, <1>2, <1>7, <1>9, <1>10 DEF plan

\* The stages are counted, and so are the operations of each.
LEMMA StagesAre ==
    ASSUME NEW flow, Kept(flow)
    PROVE  /\ Len(PlanOperationStages(flow)) \in Nat
           /\ \A k \in 1 .. Len(PlanOperationStages(flow)) :
                Len(PlanOperationStages(flow)[k]) \in Nat
BY PlacesAre

\* The step comes before the p-th of stage k.
Behind(flow, step, k, p) ==
    \/ StageIn(flow, step) < k
    \/ StageIn(flow, step) = k /\ SpotIn(flow, step) < p

\* So do all steps of a history.
AllBehind(flow, history, k, p) ==
    \A i \in DOMAIN history : Behind(flow, history[i].step, k, p)

\* No step of a history is running.
AllEnded(history) == \A i \in DOMAIN history : history[i].verdict # "running"

\* Verdicts after which a repository is given up.
Aborts == {"failed", "skipped", "masked"}

\* After the entry e its repository may run the step of the entry f.
Admits(flow, e, f) ==
    LET from == StageIn(flow, e.step)
        to == StageIn(flow, f.step)
    IN e.verdict \in Aborts =>
         \/ from = to /\ (AloneIn(flow, from) \/ e.verdict = "failed")
         \/ \E k \in from .. to : AloneIn(flow, k)

\* A history in which everything is as planned.
InSequence(flow, history) ==
    \A i, j \in DOMAIN history : i < j =>
        /\ history[i].verdict # "running"
        /\ Behind(flow, history[i].step,
                  StageIn(flow, history[j].step), SpotIn(flow, history[j].step))
        /\ Admits(flow, history[i], history[j])

\* What a history tells of a step.
Entry == [step: Steps, verdict: Verdicts \cup {"running"}]

\* A later place is behind as well.
LEMMA BehindMore ==
    ASSUME NEW flow, Kept(flow), NEW step \in Steps, NEW k \in Int, NEW p \in Int,
           Behind(flow, step, k, p), NEW l \in Int, NEW q \in Int, k < l \/ (k = l /\ p <= q)
    PROVE  Behind(flow, step, l, q)
BY PlacesAre DEF Behind

\* The same for a history.
LEMMA AllBehindMore ==
    ASSUME NEW flow, Kept(flow), NEW history \in Seq(Entry), NEW k \in Int, NEW p \in Int,
           AllBehind(flow, history, k, p), NEW l \in Int, NEW q \in Int, k < l \/ (k = l /\ p <= q)
    PROVE  AllBehind(flow, history, l, q)
<1> SUFFICES ASSUME NEW i \in DOMAIN history PROVE Behind(flow, history[i].step, l, q)
  BY DEF AllBehind
<1>1. history[i].step \in Steps
  <2>1. history[i] \in Entry
    OBVIOUS
  <2>2. QED BY <2>1 DEF Entry
<1>2. Behind(flow, history[i].step, k, p)
  BY DEF AllBehind
<1>3. QED BY <1>1, <1>2, BehindMore

\* Another step after all those before it.
LEMMA SequenceGrows ==
    ASSUME NEW flow, Kept(flow), NEW history \in Seq(Entry), NEW entry \in Entry,
           InSequence(flow, history), AllEnded(history),
           AllBehind(flow, history, StageIn(flow, entry.step), SpotIn(flow, entry.step)),
           \A i \in DOMAIN history : Admits(flow, history[i], entry)
    PROVE  InSequence(flow, Append(history, entry))
<1> DEFINE longer == Append(history, entry)
           n == Len(history)
<1>1. /\ n \in Nat /\ DOMAIN history = 1 .. n /\ DOMAIN longer = 1 .. n + 1
      /\ longer[n + 1] = entry /\ \A i \in 1 .. n : longer[i] = history[i]
  OBVIOUS
<1> HIDE DEF longer, n
<1> SUFFICES ASSUME NEW i \in DOMAIN longer, NEW j \in DOMAIN longer, i < j
             PROVE  /\ longer[i].verdict # "running"
                    /\ Behind(flow, longer[i].step,
                              StageIn(flow, longer[j].step), SpotIn(flow, longer[j].step))
                    /\ Admits(flow, longer[i], longer[j])
  BY DEF InSequence, longer
<1>2. i \in 1 .. n /\ longer[i] = history[i] /\ history[i].verdict # "running"
  BY <1>1 DEF AllEnded
<1>3. CASE j = n + 1
  BY <1>1, <1>2, <1>3 DEF AllBehind
<1>4. CASE j # n + 1
  BY <1>1, <1>4, <1>2 DEF InSequence
<1>5. QED BY <1>3, <1>4

\* The last step of a history ends.
LEMMA SequenceEnds ==
    ASSUME NEW flow, NEW history \in Seq(Entry), history # <<>>, InSequence(flow, history),
           NEW verdict \in Verdicts
    PROVE  LET ended == Ended(history, verdict)
           IN /\ ended \in Seq(Entry) /\ Len(ended) = Len(history)
              /\ \A i \in 1 .. Len(history) : ended[i].step = history[i].step
              /\ \A i \in 1 .. Len(history) - 1 : ended[i] = history[i]
              /\ ended[Len(history)].verdict = verdict
              /\ InSequence(flow, ended)
<1> DEFINE n == Len(history)
           ended == Ended(history, verdict)
<1>1. n \in Nat /\ n >= 1 /\ DOMAIN history = 1 .. n
  OBVIOUS
<1>2. \A i \in 1 .. n : history[i] \in Entry
  BY <1>1
<1>3. history[n] = [step |-> history[n].step, verdict |-> history[n].verdict]
      /\ history[n].step \in Steps
  BY <1>1, <1>2 DEF Entry
<1>4. /\ ended = [i \in 1 .. n |-> IF i = n THEN [history[n] EXCEPT !.verdict = verdict]
                                   ELSE history[i]]
  BY <1>1 DEF Ended
<1> DEFINE last == [step |-> history[n].step, verdict |-> verdict]
<1>5. [history[n] EXCEPT !.verdict = verdict] = last /\ last \in Entry
  BY <1>3 DEF Entry
<1>6. /\ ended[n] = last /\ \A i \in 1 .. n - 1 : ended[i] = history[i]
      /\ \A i \in 1 .. n : ended[i] \in Entry /\ ended[i].step = history[i].step
  <2> HIDE DEF ended, n
  <2>1. ended[n] = last
    BY <1>1, <1>4, <1>5
  <2>2. \A i \in 1 .. n - 1 : ended[i] = history[i]
    BY <1>1, <1>4
  <2>3. last.step = history[n].step
    OBVIOUS
  <2>4. ASSUME NEW i \in 1 .. n PROVE ended[i] \in Entry /\ ended[i].step = history[i].step
    <3> HIDE DEF last
    <3>1. CASE i = n
      BY <1>5, <2>1, <2>3, <3>1
    <3>2. CASE i # n
      BY <1>1, <3>2, <1>2, <2>2
    <3>3. QED BY <3>1, <3>2
  <2>5. QED BY <2>1, <2>2, <2>4
<1>7. ended \in Seq(Entry) /\ Len(ended) = n /\ DOMAIN ended = 1 .. n
  BY <1>1, <1>4, <1>6
<1> HIDE DEF ended, n
<1>8. InSequence(flow, ended)
  <2> SUFFICES ASSUME NEW i \in 1 .. n, NEW j \in 1 .. n, i < j
               PROVE  /\ ended[i].verdict # "running"
                      /\ Behind(flow, ended[i].step,
                                StageIn(flow, ended[j].step), SpotIn(flow, ended[j].step))
                      /\ Admits(flow, ended[i], ended[j])
    BY <1>7 DEF InSequence
  <2>1. i \in 1 .. n - 1 /\ ended[i] = history[i] /\ ended[j].step = history[j].step
    BY <1>1, <1>6
  <2>2. /\ history[i].verdict # "running"
        /\ Behind(flow, history[i].step,
                  StageIn(flow, history[j].step), SpotIn(flow, history[j].step))
        /\ Admits(flow, history[i], history[j])
    BY <1>1 DEF InSequence
  <2>3. Admits(flow, history[i], ended[j])
    BY <2>1, <2>2 DEF Admits
  <2>4. QED BY <2>1, <2>2, <2>3
<1>9. QED BY <1>6, <1>7, <1>8 DEF ended, n

\* The stages of a batch are in the plan.
Span(flow, start, length) ==
    /\ Kept(flow) /\ start \in Nat \ {0} /\ length \in Nat
    /\ start + length <= Len(PlanOperationStages(flow)) + 1

\* How much of the history of a worker's repository has ended.
EndedOf(worker, history) == IF worker.pc = "running" THEN Len(history) - 1 ELSE Len(history)

\* Steps of the batch after which the repository is given up.
AbortedOf(flow, start, worker, history) ==
    {i \in 1 .. EndedOf(worker, history) :
        history[i].verdict \in Aborts /\ StageIn(flow, history[i].step) >= start}

\* What a worker is at, with the history of its repository.
Doing(flow, start, length, worker, history) ==
    LET stage == start + worker.position - 1
        stop == Len(PlanOperationStages(flow)[stage])
        ended == EndedOf(worker, history)
        aborted == AbortedOf(flow, start, worker, history)
    IN /\ \A i \in 1 .. ended : history[i].verdict # "running"
       /\ aborted # {} => worker.failed
       /\ \/ /\ worker.pc = "taken"
             /\ worker.position = 1 /\ ~worker.failed
             /\ AllBehind(flow, history, start, 1)
          \/ /\ worker.pc = "stage"
             /\ worker.position \in 1 .. length + 1
             /\ AllBehind(flow, history, stage, 1)
          \/ /\ worker.pc \in {"operation", "running"}
             /\ worker.position \in 1 .. length
             /\ worker.operation \in 1 .. stop + 1
             /\ \A i \in 1 .. ended : Behind(flow, history[i].step, stage, worker.operation)
             /\ \A i \in aborted : /\ history[i].verdict = "failed"
                                   /\ StageIn(flow, history[i].step) = stage
             /\ worker.pc = "running" =>
                  /\ worker.operation <= stop
                  /\ history # <<>>
                  /\ history[Len(history)] =
                       [step |-> PlanOperationStages(flow)[stage][worker.operation],
                        verdict |-> "running"]

\* A worker opens its repository.
LEMMA DoingOpens ==
    ASSUME NEW flow, NEW start, NEW length, Span(flow, start, length),
           NEW worker \in WorkerType, NEW history \in Seq(Entry),
           Doing(flow, start, length, worker, history), worker.pc = "taken"
    PROVE  Doing(flow, start, length, [worker EXCEPT !.pc = "stage"], history)
<1> DEFINE after == [worker EXCEPT !.pc = "stage"]
<1>1. after.pc = "stage" /\ after.position = 1 /\ after.failed = worker.failed
  BY DEF WorkerType, Doing
<1>2. EndedOf(after, history) = EndedOf(worker, history)
  BY <1>1 DEF EndedOf
<1>3. AbortedOf(flow, start, after, history) = AbortedOf(flow, start, worker, history)
  BY <1>2 DEF AbortedOf
<1>4. start + after.position - 1 = start /\ after.position \in 1 .. length + 1
  BY <1>1 DEF Span
<1> HIDE DEF after
<1>5. QED BY <1>1, <1>2, <1>3, <1>4 DEF Doing, after

\* It enters a stage unless the repository was given up.
LEMMA DoingEnters ==
    ASSUME NEW flow, NEW start, NEW length, Span(flow, start, length),
           NEW worker \in WorkerType, NEW history \in Seq(Entry),
           Doing(flow, start, length, worker, history), worker.pc = "stage",
           worker.position <= length, ~worker.failed
    PROVE  Doing(flow, start, length, [worker EXCEPT !.pc = "operation", !.operation = 1], history)
<1> DEFINE after == [worker EXCEPT !.pc = "operation", !.operation = 1]
           stage == start + worker.position - 1
<1>1. /\ after.pc = "operation" /\ after.position = worker.position
      /\ after.failed = worker.failed /\ after.operation = 1
  BY DEF WorkerType
<1>2. EndedOf(after, history) = EndedOf(worker, history) /\ EndedOf(worker, history) = Len(history)
  BY <1>1 DEF EndedOf
<1>3. AbortedOf(flow, start, after, history) = AbortedOf(flow, start, worker, history)
  BY <1>2 DEF AbortedOf
<1>4. AbortedOf(flow, start, worker, history) = {}
  BY DEF Doing
<1>5. worker.position \in 1 .. length /\ stage \in 1 .. Len(PlanOperationStages(flow))
  BY StagesAre DEF Doing, Span, WorkerType
<1>6. 1 \in 1 .. Len(PlanOperationStages(flow)[stage]) + 1
  BY <1>5, StagesAre DEF Span
<1>7. \A i \in 1 .. Len(history) : Behind(flow, history[i].step, stage, 1)
  BY DEF Doing, AllBehind
<1>8. \A i \in 1 .. Len(history) : history[i].verdict # "running"
  BY <1>2 DEF Doing
<1> HIDE DEF after
<1>9. QED BY <1>1, <1>2, <1>3, <1>4, <1>5, <1>6, <1>7, <1>8 DEF Doing, after

\* It leaves a stage.
LEMMA DoingLeaves ==
    ASSUME NEW flow, NEW start, NEW length, Span(flow, start, length),
           NEW worker \in WorkerType, NEW history \in Seq(Entry),
           Doing(flow, start, length, worker, history), worker.pc = "operation"
    PROVE  Doing(flow, start, length, [worker EXCEPT !.pc = "stage", !.position = @ + 1], history)
<1> DEFINE after == [worker EXCEPT !.pc = "stage", !.position = @ + 1]
           stage == start + worker.position - 1
<1>1. /\ after.pc = "stage" /\ after.position = worker.position + 1
      /\ after.failed = worker.failed
  BY DEF WorkerType
<1>2. EndedOf(after, history) = EndedOf(worker, history) /\ EndedOf(worker, history) = Len(history)
  BY <1>1 DEF EndedOf
<1>3. AbortedOf(flow, start, after, history) = AbortedOf(flow, start, worker, history)
  BY <1>2 DEF AbortedOf
<1>4. /\ worker.position \in 1 .. length /\ stage \in 1 .. Len(PlanOperationStages(flow))
      /\ start + after.position - 1 = stage + 1
      /\ after.position \in 1 .. length + 1
  <2>1. worker.position \in 1 .. length
    BY DEF Doing
  <2>2. stage \in 1 .. Len(PlanOperationStages(flow))
    BY <2>1, StagesAre DEF Span
  <2>3. start + (worker.position + 1) - 1 = stage + 1 /\ worker.position + 1 \in 1 .. length + 1
    BY <2>1, SMTT(20) DEF Span
  <2>4. QED BY <1>1, <2>1, <2>2, <2>3
<1>5. AllBehind(flow, history, stage + 1, 1)
  <2> SUFFICES ASSUME NEW i \in DOMAIN history PROVE Behind(flow, history[i].step, stage + 1, 1)
    BY DEF AllBehind
  <2>1. Behind(flow, history[i].step, stage, worker.operation)
    BY <1>2 DEF Doing
  <2>2. history[i] \in Entry
    OBVIOUS
  <2>3. history[i].step \in Steps /\ worker.operation \in Int
    BY <2>2 DEF Entry, WorkerType
  <2>4. stage \in Int /\ stage < stage + 1 /\ stage + 1 \in Int
    BY <1>4
  <2>5. Kept(flow)
    BY DEF Span
  <2> HIDE DEF stage
  <2>6. QED BY <2>1, <2>3, <2>4, <2>5, BehindMore
<1>6. (AbortedOf(flow, start, worker, history) # {} => worker.failed)
      /\ \A i \in 1 .. Len(history) : history[i].verdict # "running"
  BY <1>2 DEF Doing
<1> HIDE DEF after
<1>7. QED BY <1>1, <1>2, <1>3, <1>4, <1>5, <1>6 DEF Doing, after

\* A worker that is done with its repository leaves it behind the batch.
LEMMA DoingEnds ==
    ASSUME NEW flow, NEW start, NEW length, Span(flow, start, length),
           NEW worker \in WorkerType, NEW history \in Seq(Entry),
           Doing(flow, start, length, worker, history), worker.pc \in {"taken", "stage"}
    PROVE  AllEnded(history) /\ AllBehind(flow, history, start + length, 1)
BY AllBehindMore DEF EndedOf, Doing, AllEnded, Span

\* A step begins after all that its repository has run, if that admits it.
LEMMA DoingBegins ==
    ASSUME NEW flow, NEW start, NEW length, Span(flow, start, length),
           start = 1 \/ AloneIn(flow, start - 1),
           NEW worker \in WorkerType, NEW history \in Seq(Entry), InSequence(flow, history),
           Doing(flow, start, length, worker, history), worker.pc = "operation",
           worker.operation <= Len(PlanOperationStages(flow)[start + worker.position - 1])
    PROVE  LET step == PlanOperationStages(flow)[start + worker.position - 1][worker.operation]
               longer == Started(history, step)
           IN /\ longer \in Seq(Entry) /\ InSequence(flow, longer)
              /\ Doing(flow, start, length, [worker EXCEPT !.pc = "running"], longer)
<1> DEFINE stage == start + worker.position - 1
           step == PlanOperationStages(flow)[stage][worker.operation]
           entry == [step |-> step, verdict |-> "running"]
           longer == Append(history, entry)
           after == [worker EXCEPT !.pc = "running"]
           n == Len(history)
<1>1. EndedOf(worker, history) = n /\ n \in Nat /\ DOMAIN history = 1 .. n
  BY DEF EndedOf
<1>2. /\ \A i \in 1 .. n : history[i].verdict # "running"
      /\ \A i \in 1 .. n : Behind(flow, history[i].step, stage, worker.operation)
      /\ AbortedOf(flow, start, worker, history) # {} => worker.failed
      /\ \A i \in AbortedOf(flow, start, worker, history) :
            history[i].verdict = "failed" /\ StageIn(flow, history[i].step) = stage
      /\ worker.position \in 1 .. length
      /\ worker.operation \in 1 .. Len(PlanOperationStages(flow)[stage]) + 1
  BY <1>1 DEF Doing
<1>3. Kept(flow) /\ stage \in 1 .. Len(PlanOperationStages(flow)) /\ start \in Nat /\ start >= 1
      /\ start <= stage
  <2>1. worker.position \in 1 .. length
    BY <1>2
  <2>2. Kept(flow) /\ Len(PlanOperationStages(flow)) \in Nat
    BY StagesAre DEF Span
  <2>3. QED BY <2>1, <2>2 DEF Span
<1>4. worker.operation \in 1 .. Len(PlanOperationStages(flow)[stage])
  BY <1>3, PlacesAre, <1>2 DEF WorkerType
<1>5. step \in Steps /\ StageIn(flow, step) = stage /\ SpotIn(flow, step) = worker.operation
  <2> DEFINE place == worker.operation
  <2> HIDE DEF stage
  <2>1. place \in 1 .. Len(PlanOperationStages(flow)[stage])
    BY <1>4
  <2> HIDE DEF place
  <2>2. /\ PlanOperationStages(flow)[stage][place] \in Steps
        /\ StageIn(flow, PlanOperationStages(flow)[stage][place]) = stage
        /\ SpotIn(flow, PlanOperationStages(flow)[stage][place]) = place
    <3> DEFINE plan == PlanOperationStages(flow)
    <3>1. \A k \in 1 .. Len(plan) : \A i \in 1 .. Len(plan[k]) :
            /\ plan[k][i] \in Steps
            /\ StageIn(flow, plan[k][i]) = k /\ SpotIn(flow, plan[k][i]) = i
      BY <1>3, PlacesAre
    <3>2. stage \in 1 .. Len(plan) /\ place \in 1 .. Len(plan[stage])
      BY <1>3, <2>1
    <3> HIDE DEF plan
    <3>3. QED BY <3>1, <3>2 DEF plan
  <2>3. QED BY <2>2 DEF place
<1>6. \A i \in 1 .. n : history[i] \in Entry /\ history[i].step \in Steps
                        /\ StageIn(flow, history[i].step) \in Nat
                        /\ StageIn(flow, history[i].step) >= 1
  <2> SUFFICES ASSUME NEW i \in 1 .. n
               PROVE  history[i] \in Entry /\ history[i].step \in Steps
                      /\ StageIn(flow, history[i].step) \in Nat
                      /\ StageIn(flow, history[i].step) >= 1
    OBVIOUS
  <2>1. history[i] \in Entry
    BY <1>1
  <2>2. history[i].step \in Steps
    BY <2>1 DEF Entry
  <2>3. StageIn(flow, history[i].step) \in 1 .. Len(PlanOperationStages(flow))
    BY <1>3, <2>2, PlacesAre
  <2>4. QED BY <2>1, <2>2, <2>3
<1> HIDE DEF stage, step, n
<1>7. entry \in Entry /\ entry.step = step
  BY <1>5 DEF Entry
<1>8. ASSUME NEW i \in 1 .. n PROVE Admits(flow, history[i], entry)
  <2> DEFINE from == StageIn(flow, history[i].step)
  <2>1. SUFFICES ASSUME history[i].verdict \in Aborts
                 PROVE  \/ from = stage /\ history[i].verdict = "failed"
                        \/ \E k \in from .. stage : AloneIn(flow, k)
    BY <1>5, <1>7 DEF Admits
  <2>2. CASE from >= start
    BY <1>1, <2>1, <2>2, <1>2 DEF AbortedOf
  <2>3. CASE ~(from >= start)
    BY <1>6, <1>3, <2>3
  <2>4. QED BY <2>2, <2>3
<1>9. AllEnded(history) /\ AllBehind(flow, history, stage, worker.operation)
  BY <1>1, <1>2 DEF AllEnded, AllBehind
<1>10. InSequence(flow, longer)
  <2> HIDE DEF entry
  <2>1. \A i \in DOMAIN history : Admits(flow, history[i], entry)
    BY <1>1, <1>8
  <2>2. QED BY <1>3, <1>5, <1>7, <1>9, <2>1, SequenceGrows
<1>11. longer \in Seq(Entry)
  BY <1>7
<1>12. /\ Len(longer) = n + 1 /\ longer[n + 1] = entry /\ longer # <<>>
       /\ \A i \in 1 .. n : longer[i] = history[i]
  <2> HIDE DEF entry
  <2>1. QED BY <1>7 DEF n
<1>13. /\ after.pc = "running" /\ after.position = worker.position
       /\ after.operation = worker.operation /\ after.failed = worker.failed
  BY DEF WorkerType
<1>14. EndedOf(after, longer) = n
  BY <1>1, <1>12, <1>13 DEF EndedOf
<1>15. AbortedOf(flow, start, after, longer) = AbortedOf(flow, start, worker, history)
  BY <1>1, <1>12, <1>14 DEF AbortedOf
<1>16. AbortedOf(flow, start, worker, history) \subseteq 1 .. n
  BY <1>1 DEF AbortedOf
<1> DEFINE stop == Len(PlanOperationStages(flow)[stage])
<1>17. stop \in Nat /\ worker.operation <= stop
  BY <1>4, <1>3, PlacesAre
<1>18. /\ \A i \in 1 .. n : longer[i].verdict # "running"
       /\ \A i \in 1 .. n : Behind(flow, longer[i].step, stage, worker.operation)
       /\ \A i \in AbortedOf(flow, start, worker, history) :
             longer[i].verdict = "failed" /\ StageIn(flow, longer[i].step) = stage
  BY <1>2, <1>12, <1>16
<1>19. start + after.position - 1 = stage
  BY <1>13 DEF stage
<1>20. longer[Len(longer)] = [step |-> PlanOperationStages(flow)[stage][worker.operation],
                              verdict |-> "running"]
  BY <1>12 DEF step
<1> HIDE DEF longer, after, stop, entry
<1>21. Doing(flow, start, length, after, longer)
  BY <1>2, <1>4, <1>12, <1>13, <1>14, <1>15, <1>17, <1>18, <1>19, <1>20 DEF Doing, stop
<1>22. longer = Started(history, step)
  BY DEF longer, entry, Started
<1>23. QED BY <1>10, <1>11, <1>21, <1>22 DEF after, step, stage

\* What a verdict does to a worker.
LEMMA VerdictIs ==
    ASSUME NEW worker \in WorkerType, NEW step \in Steps, NEW verdict \in Verdicts
    PROVE  LET after == AfterVerdict(worker, step, verdict)
           IN /\ after \in WorkerType
              /\ after.repository = worker.repository
              /\ verdict = "cancelled" =>
                   /\ after.pc = "stage" /\ after.position = worker.position + 1
                   /\ after.failed = worker.failed
              /\ verdict \in {"ok", "failed"} =>
                   /\ after.pc = "operation" /\ after.position = worker.position
                   /\ after.operation = worker.operation + 1
                   /\ after.failed = (worker.failed \/ verdict = "failed")
              /\ verdict \in {"skipped", "masked"} =>
                   /\ after.pc = "stage" /\ after.position = worker.position + 1
                   /\ after.failed
<1> DEFINE after == AfterVerdict(worker, step, verdict)
           recorded == Recorded(worker, step, verdict)
<1>1. recorded \in Results
  <2> DEFINE entry == [where |-> worker.repository, step |-> step, failed |-> verdict = "failed"]
             failure == [where |-> worker.repository, step |-> step]
             old == worker.result
  <2>1. worker.repository \in Nat /\ old \in Results
    BY DEF WorkerType, Repositories
  <2>2. /\ old = [operations |-> old.operations, failures |-> old.failures]
        /\ old.operations \in Seq([where: Nat, step: Steps, failed: BOOLEAN])
        /\ old.failures \in Seq([where: Nat, step: Steps])
    BY <2>1 DEF Results
  <2>3. entry \in [where: Nat, step: Steps, failed: BOOLEAN] /\ failure \in [where: Nat, step: Steps]
    BY <2>1
  <2>4. recorded = [operations |-> Append(old.operations, entry),
                    failures |-> IF verdict = "failed" THEN Append(old.failures, failure)
                                 ELSE old.failures]
    <3>1. recorded = [old EXCEPT !.operations = Append(@, entry),
                                 !.failures = IF verdict = "failed" THEN Append(@, failure) ELSE @]
      BY DEF Recorded
    <3> HIDE DEF entry, failure, old, recorded
    <3>2. QED BY <2>2, <3>1
  <2> HIDE DEF entry, failure, old, recorded
  <2>5. /\ Append(old.operations, entry) \in Seq([where: Nat, step: Steps, failed: BOOLEAN])
        /\ Append(old.failures, failure) \in Seq([where: Nat, step: Steps])
    BY <2>2, <2>3
  <2>6. QED BY <2>2, <2>4, <2>5 DEF Results
<1> HIDE DEF recorded
<1>0. /\ worker = [pc |-> worker.pc, repository |-> worker.repository,
                   position |-> worker.position, operation |-> worker.operation,
                   failed |-> worker.failed, result |-> worker.result]
      /\ worker.pc \in WorkerPCs /\ worker.repository \in Repositories
      /\ worker.position \in Nat /\ worker.operation \in Nat
      /\ worker.failed \in BOOLEAN /\ worker.result \in Results
  BY DEF WorkerType
<1> DEFINE With(pc0, position0, operation0, failed0, result0) ==
             [pc |-> pc0, repository |-> worker.repository, position |-> position0,
              operation |-> operation0, failed |-> failed0, result |-> result0]
<1>01. "stage" \in WorkerPCs /\ "operation" \in WorkerPCs
  BY DEF WorkerPCs
<1>2. CASE verdict = "cancelled"
  <2>1. after = [worker EXCEPT !.pc = "stage", !.position = @ + 1]
    BY <1>2 DEF AfterVerdict
  <2>2. after = With("stage", worker.position + 1, worker.operation, worker.failed, worker.result)
    <3> HIDE DEF after
    <3>1. QED BY <1>0, <2>1
  <2> HIDE DEF after
  <2>3. after \in WorkerType
    BY <1>0, <1>01, <2>2 DEF WorkerType
  <2>4. QED BY <1>2, <2>2, <2>3 DEF after
<1>3. CASE verdict \in {"ok", "failed"}
  <2>1. after = [worker EXCEPT !.pc = "operation", !.operation = @ + 1,
                               !.failed = @ \/ verdict = "failed", !.result = recorded]
    BY <1>3 DEF AfterVerdict, recorded
  <2>2. after = With("operation", worker.position, worker.operation + 1,
                      worker.failed \/ verdict = "failed", recorded)
    <3> HIDE DEF after
    <3>1. QED BY <1>0, <2>1
  <2> HIDE DEF after
  <2>3. after \in WorkerType
    BY <1>0, <1>01, <1>1, <2>2 DEF WorkerType
  <2>4. QED BY <1>3, <2>2, <2>3 DEF after
<1>4. CASE verdict \in {"skipped", "masked"}
  <2>1. after = [worker EXCEPT !.pc = "stage", !.position = @ + 1, !.failed = TRUE,
                               !.result = recorded]
    BY <1>4 DEF AfterVerdict, recorded
  <2>2. after = With("stage", worker.position + 1, worker.operation, TRUE, recorded)
    <3> HIDE DEF after
    <3>1. QED BY <1>0, <2>1
  <2> HIDE DEF after
  <2>3. after \in WorkerType
    BY <1>0, <1>01, <1>1, <2>2 DEF WorkerType
  <2>4. /\ after.pc = "stage" /\ after.position = worker.position + 1
        /\ after.failed = TRUE /\ after.repository = worker.repository
    BY <2>2
  <2>5. after.failed
    BY <2>4
  <2>6. verdict # "cancelled" /\ verdict \notin {"ok", "failed"}
    BY <1>4
  <2>7. QED BY <2>3, <2>4, <2>5, <2>6 DEF after
<1>5. QED BY <1>2, <1>3, <1>4 DEF Verdicts

\* A step ends, and its worker goes on, leaves the stage or is done.
LEMMA DoingFinishes ==
    ASSUME NEW flow, NEW start, NEW length, Span(flow, start, length),
           NEW worker \in WorkerType, NEW history \in Seq(Entry), InSequence(flow, history),
           Doing(flow, start, length, worker, history), worker.pc = "running",
           NEW verdict \in Verdicts
    PROVE  LET step == PlanOperationStages(flow)[start + worker.position - 1][worker.operation]
               ended == Ended(history, verdict)
               after == AfterVerdict(worker, step, verdict)
           IN /\ step \in Steps /\ ended \in Seq(Entry) /\ InSequence(flow, ended)
              /\ Doing(flow, start, length, after, ended)
              /\ after \in WorkerType /\ after.pc \in {"stage", "operation"}
              /\ after.repository = worker.repository
<1> DEFINE stage == start + worker.position - 1
           plan == PlanOperationStages(flow)
           step == plan[stage][worker.operation]
           ended == Ended(history, verdict)
           after == AfterVerdict(worker, step, verdict)
           n == Len(history)
<1>1. EndedOf(worker, history) = n - 1 /\ n \in Nat /\ DOMAIN history = 1 .. n
  BY DEF EndedOf
<1>2. /\ \A i \in 1 .. n - 1 : history[i].verdict # "running"
      /\ \A i \in 1 .. n - 1 : Behind(flow, history[i].step, stage, worker.operation)
      /\ AbortedOf(flow, start, worker, history) # {} => worker.failed
      /\ \A i \in AbortedOf(flow, start, worker, history) :
            history[i].verdict = "failed" /\ StageIn(flow, history[i].step) = stage
      /\ worker.position \in 1 .. length
      /\ worker.operation \in 1 .. Len(plan[stage]) + 1 /\ worker.operation <= Len(plan[stage])
      /\ history # <<>> /\ history[n] = [step |-> step, verdict |-> "running"]
  BY <1>1 DEF Doing
<1>3. Kept(flow) /\ stage \in 1 .. Len(plan) /\ start \in Nat /\ start >= 1 /\ length \in Nat
  <2>1. worker.position \in 1 .. length
    BY <1>2
  <2>2. Kept(flow) /\ Len(PlanOperationStages(flow)) \in Nat
    BY StagesAre DEF Span
  <2>3. QED BY <2>1, <2>2 DEF Span
<1>4. worker.operation \in 1 .. Len(plan[stage]) /\ Len(plan[stage]) \in Nat
  BY <1>3, PlacesAre, <1>2 DEF WorkerType
<1>5. step \in Steps /\ StageIn(flow, step) = stage /\ SpotIn(flow, step) = worker.operation
  <2> DEFINE place == worker.operation
  <2>1. \A k \in 1 .. Len(plan) : \A i \in 1 .. Len(plan[k]) :
            /\ plan[k][i] \in Steps
            /\ StageIn(flow, plan[k][i]) = k /\ SpotIn(flow, plan[k][i]) = i
    BY <1>3, PlacesAre
  <2>2. stage \in 1 .. Len(plan) /\ place \in 1 .. Len(plan[stage])
    BY <1>3, <1>4
  <2> HIDE DEF plan, stage, place
  <2>3. QED BY <2>1, <2>2 DEF place
<1> HIDE DEF ended, after, stage, step, n, plan
<1>6. /\ ended \in Seq(Entry) /\ Len(ended) = n
      /\ \A i \in 1 .. n : ended[i].step = history[i].step
      /\ \A i \in 1 .. n - 1 : ended[i] = history[i]
      /\ ended[n].verdict = verdict
      /\ InSequence(flow, ended)
  BY <1>2, SequenceEnds DEF ended, n
<1>7. /\ after \in WorkerType /\ after.repository = worker.repository
      /\ verdict = "cancelled" =>
           /\ after.pc = "stage" /\ after.position = worker.position + 1
           /\ after.failed = worker.failed
      /\ verdict \in {"ok", "failed"} =>
           /\ after.pc = "operation" /\ after.position = worker.position
           /\ after.operation = worker.operation + 1
           /\ after.failed = (worker.failed \/ verdict = "failed")
      /\ verdict \in {"skipped", "masked"} =>
           /\ after.pc = "stage" /\ after.position = worker.position + 1
           /\ after.failed
  BY <1>5, VerdictIs DEF after
<1>8. after.pc \in {"stage", "operation"}
  BY <1>7 DEF Verdicts
<1>9. EndedOf(after, ended) = n
  BY <1>6, <1>8 DEF EndedOf
<1>10. n >= 1 /\ \A i \in 1 .. n : i = n \/ i \in 1 .. n - 1
  <2>1. n # 0
    BY <1>1, <1>2 DEF n
  <2>2. QED BY <1>1, <2>1
<1>11. \A i \in 1 .. n : ended[i].verdict # "running"
  BY <1>2, <1>6, <1>10 DEF Verdicts
<1>12. ended[n].step = step
  BY <1>2, <1>6, <1>10
<1>13. /\ worker.operation \in Int /\ worker.operation + 1 \in Int
       /\ worker.operation < worker.operation + 1
       /\ stage \in Int /\ stage + 1 \in Int /\ stage < stage + 1
  BY <1>3, <1>4
<1>14. \A i \in 1 .. n : Behind(flow, ended[i].step, stage, worker.operation + 1)
  <2> SUFFICES ASSUME NEW i \in 1 .. n
               PROVE  Behind(flow, ended[i].step, stage, worker.operation + 1)
    OBVIOUS
  <2>1. CASE i = n
    BY <1>5, <1>12, <1>13, <2>1 DEF Behind
  <2>2. CASE i \in 1 .. n - 1
    <3>1. ended[i].step \in Steps /\ Behind(flow, ended[i].step, stage, worker.operation)
      <4>1. ended[i] \in Entry
        BY <1>1, <1>6
      <4>2. QED BY <1>2, <1>6, <2>2, <4>1 DEF Entry
    <3>2. QED BY <1>3, <1>13, <3>1, BehindMore
  <2>3. QED BY <1>10, <2>1, <2>2
<1>15. AllBehind(flow, ended, stage + 1, 1)
  <2> SUFFICES ASSUME NEW i \in 1 .. n
               PROVE  Behind(flow, ended[i].step, stage + 1, 1)
    BY <1>6 DEF AllBehind
  <2>1. ended[i].step \in Steps
    <3>1. ended[i] \in Entry
      BY <1>1, <1>6
    <3>2. QED BY <3>1 DEF Entry
  <2>2. Behind(flow, ended[i].step, stage, worker.operation + 1)
    BY <1>14
  <2>3. QED BY <1>3, <1>13, <2>1, <2>2, BehindMore
<1>16. \A i \in AbortedOf(flow, start, after, ended) :
         i \in AbortedOf(flow, start, worker, history) \/ (i = n /\ verdict \in Aborts)
  BY <1>1, <1>6, <1>9, <1>10 DEF AbortedOf
<1>17. AbortedOf(flow, start, after, ended) # {} => after.failed
  BY <1>2, <1>16, <1>7 DEF Aborts, Verdicts
<1>18. CASE verdict \in {"cancelled", "skipped", "masked"}
  <2>1. after.pc = "stage" /\ after.position = worker.position + 1
    BY <1>7, <1>18
  <2>2. start + after.position - 1 = stage + 1 /\ after.position \in 1 .. length + 1
    <3>1. worker.position \in 1 .. length
      BY <1>2
    <3>2. QED BY <1>3, <2>1, <3>1, SMTT(20) DEF stage
  <2>3. Doing(flow, start, length, after, ended)
    BY <1>9, <1>11, <1>15, <1>17, <2>1, <2>2 DEF Doing
  <2>4. QED BY <1>5, <1>6, <1>7, <1>8, <2>3 DEF step, stage, ended, after, plan
<1>19. CASE verdict \in {"ok", "failed"}
  <2>1. /\ after.pc = "operation" /\ after.position = worker.position
        /\ after.operation = worker.operation + 1
    BY <1>7, <1>19
  <2>2. start + after.position - 1 = stage /\ after.position \in 1 .. length
    BY <1>2, <2>1 DEF stage
  <2>3. after.operation \in 1 .. Len(plan[stage]) + 1
    BY <1>4, <2>1
  <2>4. \A i \in AbortedOf(flow, start, after, ended) :
          ended[i].verdict = "failed" /\ StageIn(flow, ended[i].step) = stage
    BY <1>5, <1>6, <1>12, <1>19, <1>1, <1>2, <1>16 DEF Aborts, AbortedOf
  <2>5. Doing(flow, start, length, after, ended)
    BY <1>9, <1>11, <1>14, <1>17, <2>1, <2>2, <2>3, <2>4 DEF Doing, plan
  <2>6. QED BY <1>5, <1>6, <1>7, <1>8, <2>5 DEF step, stage, ended, after, plan
<1>20. QED BY <1>18, <1>19 DEF Verdicts

\* The first stage of the batch, or the stage that is next.
Start == at - Len(batch)

\* What is planned, refused, or not planned yet.
Planning ==
    /\ workflow \in WorkflowType /\ Ordered(workflow)
    /\ pc = "plan" \/ returned = "refused" =>
         /\ stages = <<>> /\ batch = <<>> /\ at = 1
         /\ \A r \in Repositories : ran[r] = <<>>
    /\ pc = "plan" => returned = "no"
    /\ returned = "refused" => pc = "done" /\ Refused(workflow)
    /\ pc # "plan" /\ returned # "refused" =>
         ~Refused(workflow) /\ stages = PlanOperationStages(workflow)

\* The batch is what lies between two stages that run by themselves.
Batching ==
    /\ Len(batch) < at /\ operation >= 1
    /\ \A i \in 1 .. Len(batch) : batch[i] = Start + i - 1 /\ ~AloneIn(workflow, batch[i])
    /\ pc \in {"stage", "dispatch", "wait"} => Start = 1 \/ AloneIn(workflow, Start - 1)
    /\ pc \in {"dispatch", "wait"} /\ at <= Len(stages) => AloneIn(workflow, at)
    /\ pc \in {"global", "running"} => at <= Len(stages) /\ AloneIn(workflow, at) /\ batch = <<>>
    /\ pc = "running" => operation <= Len(stages[at])

\* Nobody works in the repository.
Free(r) == \A w \in Workers : ~(Busy(w) /\ workers[w].repository = r)

\* How far every repository is.
Progress ==
    /\ \A r \in Repositories : InSequence(workflow, ran[r])
    /\ pc = "stage" =>
         \A r \in Repositories : AllEnded(ran[r]) /\ AllBehind(workflow, ran[r], Start, 1)
    /\ pc \in {"global", "running"} =>
         \A r \in Repositories : AllEnded(ran[r]) /\ AllBehind(workflow, ran[r], at, operation)
    /\ pc \in {"dispatch", "wait"} =>
         /\ \A r \in Repositories : r >= next => AllBehind(workflow, ran[r], Start, 1)
         /\ \A r \in Repositories : Free(r) =>
              AllEnded(ran[r]) /\ AllBehind(workflow, ran[r], at, 1)
         /\ \A w \in Workers : Busy(w) =>
              Doing(workflow, Start, Len(batch), workers[w], ran[workers[w].repository])

\* The inductive invariant.
RunInv == TypeOK /\ Planning /\ Batching /\ Progress

\* There is a repository, and none is the place of what is run once for all.
LEMMA SomeRepository == RepositoryCount \in Nat /\ 1 \in Repositories /\ Repositories \subseteq Nat
                        /\ Everywhere \notin Repositories
  BY WorkflowAssumption DEF Repositories, Everywhere

\* An empty result is one.
LEMMA NoResultType == NoResult \in Results
  BY DEF NoResult, Results

\* Workers that have no repository are workers.
LEMMA IdleType == Idle \in WorkerType /\ Off \in WorkerType
<1>1. Idle = [pc |-> "idle", repository |-> 1, position |-> 1, operation |-> 1,
              failed |-> FALSE, result |-> NoResult]
      /\ Off = [pc |-> "off", repository |-> 1, position |-> 1, operation |-> 1,
                failed |-> FALSE, result |-> NoResult]
  <2>1. Off = [Idle EXCEPT !.pc = "off"]
    BY DEF Off
  <2>2. Off = [pc |-> "off", repository |-> Idle.repository, position |-> Idle.position,
               operation |-> Idle.operation, failed |-> Idle.failed, result |-> Idle.result]
    BY <2>1 DEF Idle
  <2>3. QED BY <2>2 DEF Idle
<1>2. QED BY <1>1, NoResultType, SomeRepository DEF WorkerType, WorkerPCs

\* Where nothing has run all is as planned.
LEMMA EmptyInSequence == \A flow : InSequence(flow, <<>>)
  BY DEF InSequence

\* The initial states.
LEMMA InitRuns == Init => RunInv
<1> SUFFICES ASSUME Init PROVE RunInv
  OBVIOUS
<1>1. PICK asked \in Invocations : workflow = asked.workflow /\ requested = asked.requested
  BY DEF Init
<1>2. asked \in [workflow: WorkflowType, requested: Nat] /\ Ordered(asked.workflow)
  BY WorkflowAssumption DEF Ordered
<1>3. workflow \in WorkflowType /\ requested \in Nat /\ Ordered(workflow)
  BY <1>1, <1>2
<1>4. \A r \in Repositories \cup {Everywhere} : ran[r] = <<>>
  BY DEF Init
<1>5. TypeOK
  <2>1. cancelled \in BOOLEAN /\ returned = "no" /\ pc = "plan"
    BY DEF Init
  <2>2. stages = <<>> /\ at = 1 /\ operation = 1 /\ batch = <<>> /\ next = 1
    BY DEF Init
  <2>3. /\ stages \in Seq(Seq(Steps)) /\ at \in 1 .. Len(stages) + 1 /\ operation \in Nat
        /\ batch \in Seq(Nat) /\ next \in 1 .. RepositoryCount + 1
    BY <2>2, SomeRepository
  <2>4. workers \in [Workers -> WorkerType] /\ results \in [Repositories -> Results]
    BY IdleType, NoResultType DEF Init
  <2>5. [operations |-> operations, failures |-> failures] \in Results
    BY DEF Init, Results
  <2>6. ran \in [Repositories \cup {Everywhere} -> Seq(Entry)]
    BY DEF Init
  <2>7. QED BY <1>3, <2>1, <2>3, <2>4, <2>5, <2>6 DEF TypeOK, Entry
<1>6. Planning
  BY <1>3, <1>4 DEF Init, Planning
<1>7. Batching
  BY DEF Init, Batching
<1>8. Progress
  BY <1>4, EmptyInSequence DEF Init, Progress
<1>9. QED BY <1>5, <1>6, <1>7, <1>8 DEF RunInv

\* What is known while the workflow runs.
LEMMA InRun ==
    ASSUME RunInv, pc \notin {"plan", "done"}
    PROVE  /\ Kept(workflow) /\ stages = PlanOperationStages(workflow)
           /\ stages \in Seq(Seq(Steps)) /\ Len(stages) \in Nat
           /\ at \in Nat /\ at >= 1 /\ at <= Len(stages) + 1
           /\ batch \in Seq(Nat) /\ Len(batch) \in Nat
           /\ Start \in Nat \ {0} /\ Start + Len(batch) = at /\ Start <= at
           /\ Span(workflow, Start, Len(batch))
           /\ \A r \in Repositories : ran[r] \in Seq(Entry)
           /\ operation \in Nat /\ operation >= 1
<1>1. Kept(workflow) /\ stages = PlanOperationStages(workflow)
  BY DEF RunInv, Planning, Kept
<1>2. /\ stages \in Seq(Seq(Steps)) /\ at \in 1 .. Len(stages) + 1 /\ batch \in Seq(Nat)
      /\ operation \in Nat /\ ran \in [Repositories \cup {Everywhere} -> Seq(Entry)]
  BY DEF RunInv, TypeOK, Entry
<1>3. Len(stages) \in Nat /\ Len(batch) \in Nat
  BY <1>2
<1>4. Len(batch) < at /\ operation >= 1
  BY DEF RunInv, Batching
<1>5. Start \in Nat \ {0} /\ Start + Len(batch) = at /\ Start <= at /\ at \in Nat /\ at >= 1
      /\ at <= Len(stages) + 1
  BY <1>2, <1>3, <1>4 DEF Start
<1>6. Span(workflow, Start, Len(batch))
  BY <1>1, <1>3, <1>5 DEF Span
<1>7. QED BY <1>1, <1>2, <1>3, <1>4, <1>5, <1>6

\* What stays when a step only touches workers, results and histories.
Steady == UNCHANGED <<planned, cancelled, runner, outcome>>

\* Of the invariant only the progress can be disturbed by a worker.
LEMMA SteadyKeeps ==
    ASSUME RunInv, Steady, pc \in {"dispatch", "wait"},
           workers' \in [Workers -> WorkerType], results' \in [Repositories -> Results],
           ran' \in [Repositories \cup {Everywhere} -> Seq(Entry)]
    PROVE  TypeOK' /\ Planning' /\ Batching' /\ Start' = Start
BY DEF RunInv, Steady, planned, runner, outcome, TypeOK, Entry, Planning, Start, Batching

\* A worker goes on with its repository, or gives it back.
LEMMA OneStep ==
    ASSUME RunInv, IInv, Steady, NEW w \in Workers, Busy(w),
           NEW worker \in WorkerType, NEW history \in Seq(Entry),
           workers' = [workers EXCEPT ![w] = worker],
           ran' = [ran EXCEPT ![workers[w].repository] = history],
           results' \in [Repositories -> Results],
           InSequence(workflow, history),
           \/ /\ worker.pc \notin {"off", "idle"}
              /\ worker.repository = workers[w].repository
              /\ Doing(workflow, Start, Len(batch), worker, history)
           \/ /\ worker.pc \in {"off", "idle"}
              /\ AllEnded(history) /\ AllBehind(workflow, history, at, 1)
    PROVE  RunInv'
<1> DEFINE mine == workers[w].repository
<1>1. pc \in {"dispatch", "wait"}
  BY InBatch DEF Busy
<1>2. UNCHANGED <<workflow, stages, pc, at, batch, next>>
  BY DEF Steady, planned, runner
<1>3. workers \in [Workers -> WorkerType] /\ ran \in [Repositories \cup {Everywhere} -> Seq(Entry)]
  BY DEF RunInv, TypeOK, Entry
<1>4. mine \in Repositories
  BY <1>3 DEF WorkerType
<1>5. workers' \in [Workers -> WorkerType] /\ ran' \in [Repositories \cup {Everywhere} -> Seq(Entry)]
  BY <1>3
<1>6. TypeOK' /\ Planning' /\ Batching' /\ Start' = Start
  BY <1>1, <1>5, SteadyKeeps
<1>7. ran'[mine] = history /\ \A r \in Repositories : r # mine => ran'[r] = ran[r]
  BY <1>3, <1>4
<1>8. workers'[w] = worker /\ \A v \in Workers : v # w => workers'[v] = workers[v]
  BY <1>3
<1>9. \A v \in Workers : v # w /\ Busy(v) => workers[v].repository # mine
  BY DEF IInv, Apart
<1> HIDE DEF mine
<1>10. \A v \in Workers : Busy(v)' <=> workers'[v].pc \notin {"off", "idle"}
  BY DEF Busy
<1>11. \A v \in Workers : v # w => (Busy(v)' <=> Busy(v))
  BY <1>8, <1>10 DEF Busy
<1>12. \A r \in Repositories : InSequence(workflow, ran'[r])
  BY <1>7 DEF RunInv, Progress
<1>13. ASSUME NEW r \in Repositories, r >= next PROVE AllBehind(workflow, ran'[r], Start, 1)
  BY <1>4, SomeRepository, <1>13, <1>1, <1>7 DEF IInv, Shape, mine, RunInv, Progress
<1>14. ASSUME NEW r \in Repositories, Free(r)'
       PROVE  AllEnded(ran'[r]) /\ AllBehind(workflow, ran'[r], at, 1)
  BY <1>14, <1>8, <1>10, <1>7, <1>11, <1>1 DEF Free, mine, RunInv, Progress
<1>15. ASSUME NEW v \in Workers, Busy(v)'
       PROVE  Doing(workflow, Start, Len(batch), workers'[v], ran'[workers'[v].repository])
  BY <1>8, <1>10, <1>15, <1>7, <1>11, <1>3, <1>9, <1>1 DEF mine, WorkerType, RunInv, Progress
<1>16. Progress'
  BY <1>1, <1>2, <1>6, <1>12, <1>13, <1>14, <1>15 DEF Progress
<1>17. QED BY <1>6, <1>16 DEF RunInv

\* A worker goes on with the next stage.
LEMMA MovesOn ==
    ASSUME NEW worker \in WorkerType
    PROVE  LET after == [worker EXCEPT !.pc = "stage", !.position = @ + 1]
           IN after \in WorkerType /\ after.pc = "stage" /\ after.repository = worker.repository
<1> DEFINE after == [worker EXCEPT !.pc = "stage", !.position = @ + 1]
<1>1. after = [worker EXCEPT !.pc = "stage", !.position = @ + 1]
  OBVIOUS
<1> HIDE DEF after
<1>2. /\ worker = [pc |-> worker.pc, repository |-> worker.repository,
                   position |-> worker.position, operation |-> worker.operation,
                   failed |-> worker.failed, result |-> worker.result]
      /\ worker.pc \in WorkerPCs /\ worker.repository \in Repositories
      /\ worker.position \in Nat /\ worker.operation \in Nat
      /\ worker.failed \in BOOLEAN /\ worker.result \in Results
  BY DEF WorkerType
<1>3. after = [pc |-> "stage", repository |-> worker.repository,
               position |-> worker.position + 1, operation |-> worker.operation,
               failed |-> worker.failed, result |-> worker.result]
  BY <1>1, <1>2
<1>4. after \in WorkerType
  BY <1>2, <1>3 DEF WorkerType, WorkerPCs
<1>5. QED BY <1>3, <1>4 DEF after

\* What a worker does with its repository.
LEMMA WorkerRuns ==
    ASSUME RunInv, IInv, NEW w \in Workers, Worker(w)
    PROVE  RunInv'
<1> DEFINE mine == workers[w]
           history == ran[mine.repository]
<1>1. pc \in {"dispatch", "wait"}
  BY InBatch DEF Worker, WorkerEnds, Open, EnterStage, StoreResult, BeginOperation, LeaveStage, EndOperation
<1>2. Steady
  BY DEF Worker, WorkerEnds, Open, EnterStage, StoreResult, BeginOperation, LeaveStage, EndOperation, Steady
<1>3. /\ workers \in [Workers -> WorkerType] /\ results \in [Repositories -> Results]
      /\ ran \in [Repositories \cup {Everywhere} -> Seq(Entry)]
  BY DEF RunInv, TypeOK, Entry
<1>4. mine \in WorkerType /\ mine.repository \in Repositories
  BY <1>3 DEF WorkerType
<1>5. history \in Seq(Entry) /\ InSequence(workflow, history)
  BY <1>3, <1>4 DEF RunInv, Progress
<1>6. /\ Kept(workflow) /\ stages = PlanOperationStages(workflow) /\ Span(workflow, Start, Len(batch))
      /\ Start + Len(batch) = at /\ Len(batch) \in Nat /\ Start \in Nat
  BY <1>1, InRun
<1>7. Busy(w) => Doing(workflow, Start, Len(batch), mine, history)
  BY <1>1 DEF RunInv, Progress
<1>8. ran = [ran EXCEPT ![mine.repository] = history]
  BY <1>3, <1>4
<1>9. Start = 1 \/ AloneIn(workflow, Start - 1)
  BY <1>1 DEF RunInv, Batching
<1>10. mine.position \in 1 .. Len(batch) => StageOf(w) = stages[Start + mine.position - 1]
  BY DEF RunInv, Batching, StageOf
<1>11. CASE WorkerEnds(w)
  <2>1. mine.pc = "idle" /\ workers' = [workers EXCEPT ![w] = Off]
        /\ results' = results /\ ran' = ran
    BY <1>11 DEF WorkerEnds
  <2>2. workers' \in [Workers -> WorkerType]
    BY <1>3, <2>1, IdleType
  <2>3. TypeOK' /\ Planning' /\ Batching' /\ Start' = Start
    BY <1>1, <1>2, <1>3, <2>1, <2>2, SteadyKeeps
  <2>4. UNCHANGED <<workflow, pc, at, batch, next>>
    BY <1>2 DEF Steady, planned, runner
  <2>5. \A v \in Workers : (Busy(v)' <=> Busy(v)) /\ (Busy(v) => workers'[v] = workers[v])
    BY <1>3, <2>1, IdleIsRecord DEF Busy
  <2>6. \A r \in Repositories : Free(r)' => Free(r)
    BY <2>5 DEF Free
  <2>7. Progress'
    BY <1>1, <2>1, <2>3, <2>4, <2>5, <2>6 DEF RunInv, Progress
  <2>8. QED BY <2>3, <2>7 DEF RunInv
<1>12. CASE Open(w)
  <2>1. mine.pc = "taken" /\ Busy(w) /\ results' = results /\ ran' = ran
    BY <1>12 DEF Open, Busy
  <2>2. CASE cancelled
    <3>1. workers' = [workers EXCEPT ![w] = Off]
      BY <1>12, <2>2 DEF Open
    <3>2. AllEnded(history) /\ AllBehind(workflow, history, at, 1)
      BY <1>4, <1>5, <1>6, <1>7, <2>1, DoingEnds
    <3> HIDE DEF history
    <3>3. ran' = [ran EXCEPT ![workers[w].repository] = history]
      BY <1>8, <2>1
    <3>4. QED BY <1>2, <1>3, <1>5, <2>1, <3>1, <3>2, <3>3, IdleType, IdleIsRecord, OneStep
  <2>3. CASE ~cancelled
    <3> DEFINE after == [mine EXCEPT !.pc = "stage"]
    <3>1. workers' = [workers EXCEPT ![w] = after]
      BY <1>3, <1>12, <2>3 DEF Open
    <3>2. after \in WorkerType /\ after.pc = "stage" /\ after.repository = mine.repository
      BY <1>4 DEF WorkerType, WorkerPCs
    <3>3. Doing(workflow, Start, Len(batch), after, history)
      BY <1>4, <1>5, <1>6, <1>7, <2>1, DoingOpens
    <3> HIDE DEF history, after
    <3>4. ran' = [ran EXCEPT ![workers[w].repository] = history]
      BY <1>8, <2>1
    <3>5. QED BY <1>2, <1>3, <1>5, <2>1, <3>1, <3>2, <3>3, <3>4, OneStep
  <2>4. QED BY <2>2, <2>3
<1>13. CASE EnterStage(w)
  <2> DEFINE after == [mine EXCEPT !.pc = "operation", !.operation = 1]
  <2>1. /\ mine.pc = "stage" /\ Busy(w) /\ results' = results /\ ran' = ran
        /\ mine.position <= Len(batch) /\ ~mine.failed
    BY <1>13 DEF EnterStage, Busy
  <2>2. workers' = [workers EXCEPT ![w] = after]
    BY <1>3, <1>13 DEF EnterStage
  <2>3. after \in WorkerType /\ after.pc = "operation" /\ after.repository = mine.repository
    BY <1>4 DEF WorkerType, WorkerPCs
  <2>4. Doing(workflow, Start, Len(batch), after, history)
    BY <1>4, <1>5, <1>6, <1>7, <2>1, DoingEnters
  <2> HIDE DEF history, after
  <2>5. ran' = [ran EXCEPT ![workers[w].repository] = history]
    BY <1>8, <2>1
  <2>6. QED BY <1>2, <1>3, <1>5, <2>1, <2>2, <2>3, <2>4, <2>5, OneStep
<1>14. CASE StoreResult(w)
  <2>1. mine.pc = "stage" /\ Busy(w) /\ ran' = ran /\ workers' = [workers EXCEPT ![w] = Idle]
        /\ results' = [results EXCEPT ![mine.repository] = mine.result]
    BY <1>14 DEF StoreResult, Busy
  <2>2. results' \in [Repositories -> Results]
    BY <1>4, <1>3, <2>1 DEF WorkerType
  <2>3. AllEnded(history) /\ AllBehind(workflow, history, at, 1)
    BY <1>4, <1>5, <1>6, <1>7, <2>1, DoingEnds
  <2> HIDE DEF history
  <2>4. ran' = [ran EXCEPT ![workers[w].repository] = history]
    BY <1>8, <2>1
  <2>5. QED BY <1>2, <1>5, <2>1, <2>2, <2>3, <2>4, IdleType, IdleIsRecord, OneStep
<1>15. CASE BeginOperation(w)
  <2> DEFINE stage == Start + mine.position - 1
             step == PlanOperationStages(workflow)[stage][mine.operation]
             longer == Started(history, step)
             after == [mine EXCEPT !.pc = "running"]
  <2>1. mine.pc = "operation" /\ Busy(w) /\ results' = results
    BY <1>15 DEF BeginOperation, Busy
  <2>2. mine.position \in 1 .. Len(batch)
    BY <1>7, <2>1 DEF Doing
  <2>3. StageOf(w) = PlanOperationStages(workflow)[stage]
    BY <1>6, <1>10, <2>2
  <2>4. mine.operation <= Len(PlanOperationStages(workflow)[stage])
    BY <1>15, <2>3 DEF BeginOperation
  <2>5. workers' = [workers EXCEPT ![w] = after]
    BY <1>3, <1>15 DEF BeginOperation
  <2>6. ran' = [ran EXCEPT ![mine.repository] = longer]
    BY <1>15, <2>3 DEF BeginOperation
  <2>7. after \in WorkerType /\ after.pc = "running" /\ after.repository = mine.repository
    BY <1>4 DEF WorkerType, WorkerPCs
  <2>8. /\ longer \in Seq(Entry) /\ InSequence(workflow, longer)
        /\ Doing(workflow, Start, Len(batch), after, longer)
    BY <1>4, <1>5, <1>6, <1>7, <1>9, <2>1, <2>4, DoingBegins
  <2> HIDE DEF after, longer, history
  <2>9. QED BY <1>2, <1>3, <2>1, <2>5, <2>6, <2>7, <2>8, OneStep
<1>16. CASE LeaveStage(w)
  <2> DEFINE after == [mine EXCEPT !.pc = "stage", !.position = @ + 1]
  <2>1. mine.pc = "operation" /\ Busy(w) /\ results' = results /\ ran' = ran
    BY <1>16 DEF LeaveStage, Busy
  <2>2. workers' = [workers EXCEPT ![w] = after]
    BY <1>3, <1>16 DEF LeaveStage
  <2>3. after \in WorkerType /\ after.pc = "stage" /\ after.repository = mine.repository
    <3> HIDE DEF mine
    <3>1. QED BY <1>4, MovesOn
  <2>4. Doing(workflow, Start, Len(batch), after, history)
    BY <1>4, <1>5, <1>6, <1>7, <2>1, DoingLeaves
  <2> HIDE DEF history, after
  <2>5. ran' = [ran EXCEPT ![workers[w].repository] = history]
    BY <1>8, <2>1
  <2>6. QED BY <1>2, <1>3, <1>5, <2>1, <2>2, <2>3, <2>4, <2>5, OneStep
<1>17. CASE EndOperation(w)
  <2> DEFINE stage == Start + mine.position - 1
             step == PlanOperationStages(workflow)[stage][mine.operation]
  <2>1. mine.pc = "running" /\ Busy(w) /\ results' = results
    BY <1>17 DEF EndOperation, Busy
  <2>2. mine.position \in 1 .. Len(batch)
    BY <1>7, <2>1 DEF Doing
  <2>3. StageOf(w) = PlanOperationStages(workflow)[stage]
    BY <1>6, <1>10, <2>2
  <2>4. PICK verdict \in Verdicts :
          /\ workers' = [workers EXCEPT ![w] = AfterVerdict(mine, StageOf(w)[mine.operation], verdict)]
          /\ ran' = [ran EXCEPT ![mine.repository] = Ended(history, verdict)]
    BY <1>3, <1>4, <1>17 DEF EndOperation
  <2> DEFINE ended == Ended(history, verdict)
             after == AfterVerdict(mine, step, verdict)
  <2>5. workers' = [workers EXCEPT ![w] = after] /\ ran' = [ran EXCEPT ![mine.repository] = ended]
    BY <2>3, <2>4
  <2>6. /\ ended \in Seq(Entry) /\ InSequence(workflow, ended)
        /\ Doing(workflow, Start, Len(batch), after, ended)
        /\ after \in WorkerType /\ after.pc \in {"stage", "operation"}
        /\ after.repository = mine.repository
    BY <1>4, <1>5, <1>6, <1>7, <2>1, DoingFinishes
  <2> HIDE DEF after, ended, history
  <2>7. QED BY <1>2, <1>3, <2>1, <2>5, <2>6, OneStep
<1>18. QED
  BY <1>11, <1>12, <1>13, <1>14, <1>15, <1>16, <1>17 DEF Worker

\* A worker that has just taken a repository.
LEMMA DoingTakes ==
    ASSUME NEW flow, NEW start, NEW length, NEW history \in Seq(Entry),
           NEW worker, worker.pc = "taken", worker.position = 1, worker.failed = FALSE,
           AllEnded(history), AllBehind(flow, history, start, 1), Span(flow, start, length)
    PROVE  Doing(flow, start, length, worker, history)
<1>1. EndedOf(worker, history) = Len(history) /\ DOMAIN history = 1 .. Len(history)
      /\ Len(history) \in Nat
  BY DEF EndedOf
<1>2. AbortedOf(flow, start, worker, history) = {}
  <2> SUFFICES ASSUME NEW i \in 1 .. Len(history), StageIn(flow, history[i].step) >= start
               PROVE  FALSE
    BY <1>1 DEF AbortedOf
  <2>1. Behind(flow, history[i].step, start, 1)
    BY <1>1 DEF AllBehind
  <2>2. history[i].step \in Steps
    <3>1. history[i] \in Entry
      BY <1>1
    <3>2. QED BY <3>1 DEF Entry
  <2>3. StageIn(flow, history[i].step) \in Nat /\ SpotIn(flow, history[i].step) \in Nat \ {0}
    BY <2>2, PlacesAre DEF Span
  <2>4. QED BY <2>1, <2>3 DEF Behind, Span
<1>3. \A i \in 1 .. Len(history) : history[i].verdict # "running"
  BY <1>1 DEF AllEnded
<1>4. ~worker.failed
  OBVIOUS
<1>5. QED BY <1>1, <1>2, <1>3, <1>4 DEF Doing

\* The dispatcher hands a repository over that no worker has had in this batch.
LEMMA HandOverRuns ==
    ASSUME RunInv, IInv, NEW w \in Workers, HandOver(w)
    PROVE  RunInv'
<1> DEFINE taken == [Idle EXCEPT !.pc = "taken", !.repository = next]
<1>1. /\ pc = "dispatch" /\ next <= RepositoryCount /\ workers[w].pc = "idle"
      /\ workers' = [workers EXCEPT ![w] = taken] /\ next' = next + 1
      /\ UNCHANGED <<workflow, requested, stages, cancelled, pc, at, operation, batch, results,
                     operations, failures, returned, ran>>
  BY DEF HandOver, planned, outcome
<1>2. /\ taken = [pc |-> "taken", repository |-> next, position |-> 1, operation |-> 1,
                  failed |-> FALSE, result |-> NoResult]
  <2>1. taken = [Idle EXCEPT !.pc = "taken", !.repository = next]
    OBVIOUS
  <2> HIDE DEF taken
  <2>2. Idle = [pc |-> "idle", repository |-> 1, position |-> 1, operation |-> 1,
                failed |-> FALSE, result |-> NoResult]
    BY DEF Idle
  <2>3. QED BY <2>1, <2>2
<1> HIDE DEF taken
<1>3. /\ workers \in [Workers -> WorkerType] /\ next \in 1 .. RepositoryCount + 1
      /\ ran \in [Repositories \cup {Everywhere} -> Seq(Entry)]
  BY DEF RunInv, TypeOK, Entry
<1>4. next \in Repositories /\ next + 1 \in 1 .. RepositoryCount + 1 /\ next \in Nat
  BY <1>1, <1>3, SomeRepository DEF Repositories
<1>5. taken \in WorkerType
  BY <1>2, <1>4, NoResultType DEF WorkerType, WorkerPCs
<1>6. workers' \in [Workers -> WorkerType]
  BY <1>1, <1>3, <1>5
<1>7. workers'[w] = taken /\ \A v \in Workers : v # w => workers'[v] = workers[v]
  BY <1>1, <1>3
<1>8. TypeOK'
  BY <1>1, <1>4, <1>6 DEF RunInv, TypeOK
<1>9. Planning' /\ Start' = Start
  BY <1>1 DEF RunInv, Planning, Start
<1>10. Batching'
  BY <1>1, <1>9 DEF RunInv, Batching
<1>11. Free(next)
  BY <1>4 DEF Free, IInv, Shape
<1>12. AllEnded(ran[next]) /\ AllBehind(workflow, ran[next], Start, 1)
  BY <1>1, <1>4, <1>11 DEF RunInv, Progress
<1>13. Doing(workflow, Start, Len(batch), taken, ran[next])
  BY <1>1, <1>4, InRun, <1>2, <1>12, DoingTakes
<1>14. \A v \in Workers : v # w => (Busy(v)' <=> Busy(v))
  BY <1>7 DEF Busy
<1>15. ~Busy(w)
  BY <1>1 DEF Busy
<1>16. ASSUME NEW r \in Repositories, Free(r)'
       PROVE  AllEnded(ran[r]) /\ AllBehind(workflow, ran[r], at, 1)
  BY <1>7, <1>14, <1>15, <1>16, <1>1 DEF Free, RunInv, Progress
<1>17. ASSUME NEW v \in Workers, Busy(v)'
       PROVE  Doing(workflow, Start, Len(batch), workers'[v], ran[workers'[v].repository])
  BY <1>2, <1>7, <1>13, <1>1, <1>14, <1>17 DEF RunInv, Progress
<1>18. \A r \in Repositories : r >= next + 1 => AllBehind(workflow, ran[r], Start, 1)
  BY <1>4, SomeRepository, <1>1 DEF RunInv, Progress
<1>19. Progress'
  BY <1>1, <1>9, <1>16, <1>17, <1>18 DEF RunInv, Progress
<1>20. QED BY <1>8, <1>9, <1>10, <1>19 DEF RunInv

\* Cancellation changes nothing the invariant is about.
LEMMA CancelRuns ==
    ASSUME RunInv, Cancel
    PROVE  RunInv'
BY DEF Cancel, planned, runner, outcome, RunInv, TypeOK, Planning, Start, Batching, Busy, Free, Progress

\* Nor does a stuttering step.
LEMMA StutterRuns ==
    ASSUME RunInv, UNCHANGED vars
    PROVE  RunInv'
<1>1. UNCHANGED <<workflow, requested, stages, cancelled, pc, at, operation, batch, next, workers,
                  results, operations, failures, returned, ran>>
  BY DEF vars, planned, runner, outcome
<1>2. TypeOK'
  BY <1>1 DEF RunInv, TypeOK
<1>3. Planning' /\ Start' = Start
  BY <1>1 DEF RunInv, Planning, Start
<1>4. Batching'
  BY <1>1, <1>3 DEF RunInv, Batching
<1>5. \A v \in Workers : Busy(v)' <=> Busy(v)
  BY <1>1 DEF Busy
<1>6. \A r \in Repositories : Free(r)' <=> Free(r)
  BY <1>1, <1>5 DEF Free
<1>7. Progress'
  BY <1>1, <1>3, <1>5, <1>6 DEF RunInv, Progress
<1>8. QED BY <1>2, <1>3, <1>4, <1>7 DEF RunInv

\* The workflow is refused, or its stages are planned.
LEMMA PlanRuns ==
    ASSUME RunInv, Plan
    PROVE  RunInv'
<1>1. /\ pc = "plan"
      /\ UNCHANGED <<workflow, requested, cancelled, at, operation, batch, next, workers,
                     results, operations, failures, ran>>
  BY DEF Plan
<1>2. /\ workflow \in WorkflowType /\ Ordered(workflow) /\ returned = "no"
      /\ stages = <<>> /\ batch = <<>> /\ at = 1
      /\ \A r \in Repositories : ran[r] = <<>>
  BY <1>1 DEF RunInv, Planning
<1>3. Start' = 1
  BY <1>1, <1>2 DEF Start
<1>4. operation >= 1 /\ Len(batch) < at
  BY DEF RunInv, Batching
<1>5. CASE Refused(workflow)
  <2>1. pc' = "done" /\ returned' = "refused" /\ stages' = stages
    BY <1>5 DEF Plan
  <2>2. TypeOK'
    BY <1>1, <2>1 DEF RunInv, TypeOK
  <2>3. Planning'
    BY <1>1, <1>2, <1>5, <2>1 DEF Planning
  <2>4. Batching'
    BY <1>1, <1>2, <1>4, <2>1 DEF Batching
  <2>5. Progress'
    BY <1>1, <1>2, <2>1, EmptyInSequence DEF Progress
  <2>6. QED BY <2>2, <2>3, <2>4, <2>5 DEF RunInv
<1>6. CASE ~Refused(workflow)
  <2>1. pc' = "stage" /\ returned' = returned /\ stages' = PlanOperationStages(workflow)
    BY <1>6 DEF Plan
  <2>2. stages' \in Seq(Seq(Steps)) /\ Len(stages') \in Nat
    BY <1>2, <1>6, <2>1, PlacesAre DEF Kept
  <2>3. at' \in 1 .. Len(stages') + 1
    BY <1>1, <1>2, <2>2
  <2>4. TypeOK'
    BY <1>1, <2>1, <2>2, <2>3 DEF RunInv, TypeOK
  <2>5. Planning'
    BY <1>1, <1>2, <1>6, <2>1 DEF Planning
  <2>6. Batching'
    BY <1>1, <1>2, <1>3, <1>4, <2>1 DEF Batching
  <2>7. \A r \in Repositories : AllEnded(ran[r]) /\ AllBehind(workflow, ran[r], 1, 1)
    BY <1>2 DEF AllEnded, AllBehind
  <2>8. Progress'
    BY <1>1, <1>2, <1>3, <2>1, <2>7, EmptyInSequence DEF Progress
  <2>9. QED BY <2>4, <2>5, <2>6, <2>8 DEF RunInv
<1>7. QED BY <1>5, <1>6

\* Which stages run by themselves.
LEMMA ScopedIs ==
    ASSUME stages = PlanOperationStages(workflow), NEW k
    PROVE  StageIsRepositoryScoped(stages[k]) <=> ~AloneIn(workflow, k)
  BY DEF StageIsRepositoryScoped, AloneIn

\* A repository-scoped stage joins the batch.
LEMMA CollectStageRuns ==
    ASSUME RunInv, CollectStage
    PROVE  RunInv'
<1>1. /\ pc = "stage" /\ at <= Len(stages) /\ StageIsRepositoryScoped(stages[at])
      /\ batch' = Append(batch, at) /\ at' = at + 1
      /\ UNCHANGED <<workflow, requested, stages, cancelled, pc, operation, next, workers, results,
                     operations, failures, returned, ran>>
  BY DEF CollectStage, planned, outcome
<1>2. /\ Kept(workflow) /\ stages = PlanOperationStages(workflow)
      /\ Len(stages) \in Nat /\ at \in Nat /\ at >= 1 /\ at <= Len(stages) + 1
      /\ batch \in Seq(Nat) /\ Len(batch) \in Nat /\ Start \in Nat \ {0} /\ Start + Len(batch) = at
  BY <1>1, InRun
<1>3. /\ Len(batch') = Len(batch) + 1 /\ batch' \in Seq(Nat) /\ batch'[Len(batch) + 1] = at
      /\ \A i \in 1 .. Len(batch) : batch'[i] = batch[i]
  BY <1>1, <1>2
<1>4. Start' = Start
  BY <1>1, <1>2, <1>3 DEF Start
<1>5. ~AloneIn(workflow, at)
  BY <1>1, <1>2, ScopedIs
<1>6. TypeOK'
  <2>1. at + 1 \in 1 .. Len(stages) + 1
    BY <1>1, <1>2
  <2>2. QED BY <1>1, <1>3, <2>1 DEF RunInv, TypeOK
<1>7. Planning'
  BY <1>1 DEF RunInv, Planning
<1>8. \A i \in 1 .. Len(batch') : batch'[i] = Start + i - 1 /\ ~AloneIn(workflow, batch'[i])
  <2> SUFFICES ASSUME NEW i \in 1 .. Len(batch')
               PROVE  batch'[i] = Start + i - 1 /\ ~AloneIn(workflow, batch'[i])
    OBVIOUS
  <2>1. CASE i = Len(batch) + 1
    BY <1>3, <2>1, <1>2, <1>5
  <2>2. CASE i # Len(batch) + 1
    <3>1. i \in 1 .. Len(batch) /\ batch'[i] = batch[i]
      BY <1>2, <1>3, <2>2
    <3>2. QED BY <3>1 DEF RunInv, Batching
  <2>3. QED BY <2>1, <2>2
<1>9. Batching'
  BY <1>2, <1>1, <1>3, <1>4, <1>8 DEF RunInv, Batching
<1>10. Progress'
  BY <1>1, <1>4 DEF RunInv, Progress
<1>11. QED BY <1>6, <1>7, <1>9, <1>10 DEF RunInv

\* The workers of a batch begin.
LEMMA StartRuns ==
    ASSUME RunInv, IInv, pc = "stage", StartPipelines, operation' \in Nat, operation' >= 1,
           at <= Len(stages) => AloneIn(workflow, at),
           UNCHANGED <<planned, cancelled, at, batch, outcome, ran>>
    PROVE  RunInv'
<1>1. /\ pc' = "dispatch" /\ next' = 1
      /\ workers' = [w \in Workers |-> IF w <= Parallelism THEN Idle ELSE Off]
      /\ results' = [r \in Repositories |-> NoResult]
      /\ UNCHANGED <<workflow, requested, stages, cancelled, at, batch, operations, failures,
                     returned, ran>>
  BY DEF StartPipelines, planned, outcome
<1>2. TypeOK'
  <2>1. workers' \in [Workers -> WorkerType] /\ results' \in [Repositories -> Results]
    BY <1>1, IdleType, NoResultType
  <2>2. next' \in 1 .. RepositoryCount + 1
    BY <1>1, SomeRepository
  <2>3. QED BY <1>1, <2>1, <2>2 DEF RunInv, TypeOK
<1>3. Planning' /\ Start' = Start
  BY <1>1 DEF RunInv, Planning, Start
<1>4. Batching'
  BY <1>1, <1>3 DEF RunInv, Batching
<1>5. \A w \in Workers : ~Busy(w)'
  BY <1>1, IdleIsRecord DEF Busy
<1>6. ASSUME NEW r \in Repositories
      PROVE  AllEnded(ran[r]) /\ AllBehind(workflow, ran[r], at, 1)
  BY InRun, AllBehindMore DEF RunInv, Progress
<1>7. Progress'
  BY <1>1, <1>3, <1>5, <1>6 DEF RunInv, Progress
<1>8. QED BY <1>2, <1>3, <1>4, <1>7 DEF RunInv

\* The batch is run before a stage that runs by itself.
LEMMA ReachGlobalStageRuns ==
    ASSUME RunInv, IInv, ReachGlobalStage
    PROVE  RunInv'
<1>1. /\ pc = "stage" /\ at <= Len(stages) /\ ~StageIsRepositoryScoped(stages[at])
      /\ operation' = 1
      /\ UNCHANGED <<planned, cancelled, at, batch, outcome, ran>>
  BY DEF ReachGlobalStage
<1>2. stages = PlanOperationStages(workflow)
  BY <1>1, InRun
<1>3. AloneIn(workflow, at)
  BY <1>1, <1>2, ScopedIs
<1>4. CASE batch # <<>>
  BY <1>4, <1>1, <1>3, StartRuns DEF ReachGlobalStage
<1>5. CASE batch = <<>>
  <2>1. pc' = "global"
        /\ UNCHANGED <<workflow, requested, stages, cancelled, at, batch, next, workers, results,
                       operations, failures, returned, ran>>
    BY <1>1, <1>5 DEF ReachGlobalStage, planned, outcome
  <2>2. TypeOK'
    BY <1>1, <2>1 DEF RunInv, TypeOK
  <2>3. Planning' /\ Start' = Start
    BY <1>1, <2>1 DEF RunInv, Planning, Start
  <2>4. Batching'
    BY <1>1, <1>3, <1>5, <2>1, <2>3 DEF RunInv, Batching
  <2>5. Start = at
    BY <1>1, <1>5, InRun
  <2>6. Progress'
    BY <1>1, <2>1, <2>5 DEF RunInv, Progress
  <2>7. QED BY <2>2, <2>3, <2>4, <2>6 DEF RunInv
<1>6. QED BY <1>4, <1>5

\* The last batch is run, or there is none.
LEMMA FinishStagesRuns ==
    ASSUME RunInv, IInv, FinishStages
    PROVE  RunInv'
<1>1. /\ pc = "stage" /\ (cancelled \/ at > Len(stages))
      /\ UNCHANGED <<planned, cancelled, at, operation, batch, outcome, ran>>
  BY DEF FinishStages
<1>2. CASE batch # <<>> /\ ~cancelled
  BY <1>2, <1>1, InRun, StartRuns DEF FinishStages
<1>3. CASE ~(batch # <<>> /\ ~cancelled)
  BY <1>1, <1>3 DEF FinishStages, planned, outcome, RunInv, TypeOK, Planning, Start, Batching, Progress
<1>4. QED BY <1>2, <1>3

\* No repository is handed over any more.
LEMMA StopDispatchingRuns ==
    ASSUME RunInv, StopDispatching
    PROVE  RunInv'
BY DEF StopDispatching, planned, outcome, RunInv, TypeOK, Planning, Start, Batching, Busy, Free, Progress

\* What sequences put one after the other are: f goes on from each to the next.
Joins(f, parts) ==
    \A i \in 1 .. Len(parts) : f[i] = IF i = 1 THEN parts[i] ELSE f[i - 1] \o parts[i]

\* What joining the elements of a sequence gives.
LEMMA FlattenedIs ==
    ASSUME NEW S, NEW parts \in Seq(Seq(S)), parts # <<>>
    PROVE  \E f \in [1 .. Len(parts) -> Seq(S)] :
             Joins(f, parts) /\ FlattenSeq(parts) = f[Len(parts)]
<1> DEFINE Body(g, i) == IF i = 1 THEN parts[i] ELSE g[i - 1] \o parts[i]
           Solves(g, n) == g \in [1 .. n -> Seq(S)] /\ \A i \in 1 .. n : g[i] = Body(g, i)
           f == CHOOSE g : g = [i \in 1 .. Len(parts) |-> Body(g, i)]
<1>0. Len(parts) \in Nat /\ \A i \in 1 .. Len(parts) : parts[i] \in Seq(S)
  OBVIOUS
<1>1. \A n \in 0 .. Len(parts) : \E g : Solves(g, n)
  <2> DEFINE Bad == {n \in 0 .. Len(parts) : ~ \E g : Solves(g, n)}
  <2> SUFFICES ASSUME Bad # {} PROVE FALSE
    OBVIOUS
  <2>1. Bad \in SUBSET Nat
    OBVIOUS
  <2>2. PICK n \in Bad : \A m \in Bad : n <= m
    BY <2>1, LeastNumber
  <2>3. n # 0
    <3>1. Solves([i \in 1 .. 0 |-> <<>>], 0)
      BY 1 .. 0 = {}
    <3>2. QED BY <3>1
  <2>4. n - 1 \in 0 .. Len(parts) /\ n - 1 \notin Bad
    <3> HIDE DEF Solves
    <3>1. n \in Nat /\ n - 1 < n /\ n - 1 \in 0 .. Len(parts)
      BY <1>0, <2>1, <2>2, <2>3
    <3>2. n - 1 \notin Bad
      <4> HIDE DEF Bad
      <4>1. QED BY <2>2, <3>1
    <3>3. QED BY <3>1, <3>2
  <2>5. PICK g : Solves(g, n - 1)
    BY <2>4
  <2> DEFINE h == [i \in 1 .. n |-> IF i < n THEN g[i] ELSE Body(g, n)]
  <2>6. Body(g, n) \in Seq(S)
    BY <2>3, <2>5, ConcatProperties
  <2>7. h \in [1 .. n -> Seq(S)]
    <3> HIDE DEF Body
    <3>1. \A i \in 1 .. n : i < n => g[i] \in Seq(S)
      BY <2>5
    <3>2. QED BY <2>6, <3>1
  <2>8. ASSUME NEW i \in 1 .. n PROVE h[i] = Body(h, i)
    <3>1. CASE i < n
      <4>1. h[i] = g[i] /\ g[i] = Body(g, i)
        BY <2>5, <3>1, i \in 1 .. n - 1
      <4>2. i # 1 => h[i - 1] = g[i - 1]
        BY <3>1
      <4>3. QED BY <4>1, <4>2
    <3>2. CASE i = n
      BY <3>2
    <3>3. QED BY <3>1, <3>2
  <2>9. Solves(h, n)
    BY <2>7, <2>8
  <2>10. QED BY <2>2, <2>9
<1>2. Len(parts) \in Nat \ {0}
  BY <1>0
<1>3. PICK g : Solves(g, Len(parts))
  <2> HIDE DEF Solves
  <2>1. QED BY <1>1, <1>2
<1>4. g = [i \in 1 .. Len(parts) |-> Body(g, i)]
  BY <1>3
<1>5. f = [i \in 1 .. Len(parts) |-> Body(f, i)]
  BY <1>4, Zenon
<1> HIDE DEF f
<1>6. \A n \in 1 .. Len(parts) : f[n] \in Seq(S)
  <2> DEFINE Bad == {n \in 1 .. Len(parts) : f[n] \notin Seq(S)}
  <2> SUFFICES ASSUME Bad # {} PROVE FALSE
    OBVIOUS
  <2>1. Bad \in SUBSET Nat
    OBVIOUS
  <2>2. PICK n \in Bad : \A m \in Bad : n <= m
    BY <2>1, LeastNumber
  <2>3. f[n] = Body(f, n)
    BY <1>5
  <2>4. parts[n] \in Seq(S)
    OBVIOUS
  <2>5. CASE n = 1
    BY <2>2, <2>3, <2>4, <2>5
  <2>6. CASE n # 1
    <3>1. n - 1 \in 1 .. Len(parts) /\ n - 1 \notin Bad
      BY <2>2, <2>6
    <3>2. f[n - 1] \in Seq(S)
      BY <3>1
    <3>3. f[n - 1] \o parts[n] \in Seq(S)
      BY <2>4, <3>2, ConcatProperties
    <3>4. QED BY <2>2, <2>3, <2>6, <3>3
  <2>7. QED BY <2>5, <2>6
<1>7. FlattenSeq(parts) = f[Len(parts)]
  BY <1>2 DEF FlattenSeq, f
<1>8. f \in [1 .. Len(parts) -> Seq(S)] /\ Joins(f, parts)
  <2>1. \A i \in 1 .. Len(parts) : f[i] = Body(f, i)
    BY <1>5
  <2>2. f \in [1 .. Len(parts) -> Seq(S)]
    <3> HIDE DEF Body
    <3>1. QED BY <1>5, <1>6
  <2>3. QED BY <2>1, <2>2 DEF Joins
<1>9. QED BY <1>7, <1>8

\* Sequences put one after the other are a sequence.
LEMMA Flattened ==
    ASSUME NEW S, NEW parts \in Seq(Seq(S))
    PROVE  FlattenSeq(parts) \in Seq(S)
<1>1. CASE parts = <<>>
  BY <1>1 DEF FlattenSeq
<1>2. CASE parts # <<>>
  <2>1. PICK f \in [1 .. Len(parts) -> Seq(S)] : FlattenSeq(parts) = f[Len(parts)]
    BY <1>2, FlattenedIs
  <2>2. Len(parts) \in 1 .. Len(parts)
    BY <1>2
  <2>3. QED BY <2>1, <2>2
<1>3. QED BY <1>1, <1>2

\* What is joined to nothing was nothing.
LEMMA JoinedEmpty ==
    ASSUME NEW S, NEW u \in Seq(S), NEW v \in Seq(S), u \o v = <<>>
    PROVE  u = <<>> /\ v = <<>>
BY ConcatProperties, EmptySeq

\* Nothing gets lost: if one of them has something, all together have.
LEMMA FlattenedKeeps ==
    ASSUME NEW S, NEW parts \in Seq(Seq(S)), NEW i \in 1 .. Len(parts), parts[i] # <<>>
    PROVE  FlattenSeq(parts) # <<>>
<1>0. Len(parts) \in Nat /\ parts # <<>> /\ \A n \in 1 .. Len(parts) : parts[n] \in Seq(S)
  OBVIOUS
<1>1. PICK f \in [1 .. Len(parts) -> Seq(S)] : Joins(f, parts) /\ FlattenSeq(parts) = f[Len(parts)]
  BY <1>0, FlattenedIs
<1> DEFINE Bad == {n \in i .. Len(parts) : f[n] = <<>>}
<1>2. Bad = {}
  <2> SUFFICES ASSUME Bad # {} PROVE FALSE
    OBVIOUS
  <2>1. Bad \in SUBSET Nat
    BY <1>0
  <2>2. PICK n \in Bad : \A m \in Bad : n <= m
    <3> HIDE DEF Bad
    <3>1. QED BY <2>1, LeastNumber
  <2>3. n \in 1 .. Len(parts) /\ i <= n /\ f[n] = <<>>
    BY <1>0, <2>2
  <2>4. f[n] = IF n = 1 THEN parts[n] ELSE f[n - 1] \o parts[n]
    BY <1>1, <2>3 DEF Joins
  <2>5. n # 1 => f[n - 1] \in Seq(S) /\ n - 1 \in 1 .. Len(parts)
    <3>1. n # 1 => n - 1 \in 1 .. Len(parts)
      BY <1>0, <2>3
    <3>2. QED BY <1>1, <3>1
  <2>6. parts[n] \in Seq(S)
    BY <1>0, <2>3
  <2>7. n # 1 => f[n - 1] = <<>> /\ parts[n] = <<>>
    BY <2>3, <2>4, <2>5, <2>6, JoinedEmpty
  <2>8. CASE n = i
    BY <2>3, <2>4, <2>7, <2>8
  <2>9. CASE n # i
    BY <1>0, <2>3, <2>9, <2>7, <2>2, SMTT(20)
  <2>10. QED BY <2>8, <2>9
<1>3. Len(parts) \in i .. Len(parts)
  BY <1>0
<1>4. QED BY <1>1, <1>2, <1>3

\* What the workers found, one repository after the other.
LEMMA BatchIsTyped ==
    ASSUME results \in [Repositories -> Results]
    PROVE  /\ BatchOperations \in Seq([where: Nat, step: Steps, failed: BOOLEAN])
           /\ BatchFailures \in Seq([where: Nat, step: Steps])
<1>1. \A r \in Repositories :
        /\ results[r].operations \in Seq([where: Nat, step: Steps, failed: BOOLEAN])
        /\ results[r].failures \in Seq([where: Nat, step: Steps])
  BY DEF Results
<1>2. [r \in Repositories |-> results[r].operations]
        \in Seq(Seq([where: Nat, step: Steps, failed: BOOLEAN]))
  <2> DEFINE S == Seq([where: Nat, step: Steps, failed: BOOLEAN])
  <2>1. \A r \in 1 .. RepositoryCount : results[r].operations \in S
    BY <1>1 DEF Repositories
  <2> HIDE DEF S
  <2>2. [r \in 1 .. RepositoryCount |-> results[r].operations] \in Seq(S)
    BY <2>1, SomeRepository
  <2>3. QED BY <2>2 DEF Repositories, S
<1>3. [r \in Repositories |-> results[r].failures] \in Seq(Seq([where: Nat, step: Steps]))
  <2> DEFINE S == Seq([where: Nat, step: Steps])
  <2>1. \A r \in 1 .. RepositoryCount : results[r].failures \in S
    BY <1>1 DEF Repositories
  <2> HIDE DEF S
  <2>2. [r \in 1 .. RepositoryCount |-> results[r].failures] \in Seq(S)
    BY <2>1, SomeRepository
  <2>3. QED BY <2>2 DEF Repositories, S
<1>4. QED BY <1>2, <1>3, Flattened DEF BatchOperations, BatchFailures

\* The batch ends, so that every repository is past it.
LEMMA CollectResultsRuns ==
    ASSUME RunInv, CollectResults
    PROVE  RunInv'
<1>1. /\ pc = "wait" /\ \A w \in Workers : workers[w].pc = "off"
      /\ operations' = operations \o BatchOperations /\ failures' = failures \o BatchFailures
      /\ batch' = <<>> /\ pc' \in {"return", "global"}
      /\ pc' = "global" => ~(at > Len(stages))
      /\ UNCHANGED <<workflow, requested, stages, cancelled, at, operation, next, workers,
                     results, returned, ran>>
  BY DEF CollectResults, planned
<1>2. /\ Kept(workflow) /\ stages = PlanOperationStages(workflow)
      /\ Len(stages) \in Nat /\ at \in Nat /\ at >= 1 /\ at <= Len(stages) + 1
      /\ operation \in Nat /\ operation >= 1
      /\ \A r \in Repositories : ran[r] \in Seq(Entry)
  BY <1>1, InRun
<1>3. pc' = "global" => at <= Len(stages) /\ AloneIn(workflow, at)
  BY <1>1, <1>2 DEF RunInv, Batching
<1>4. TypeOK'
  <2>1. /\ operations \in Seq([where: Nat, step: Steps, failed: BOOLEAN])
        /\ failures \in Seq([where: Nat, step: Steps])
    BY DEF RunInv, TypeOK, Results
  <2>2. /\ BatchOperations \in Seq([where: Nat, step: Steps, failed: BOOLEAN])
        /\ BatchFailures \in Seq([where: Nat, step: Steps])
    BY BatchIsTyped DEF RunInv, TypeOK
  <2>3. operations' \in Seq([where: Nat, step: Steps, failed: BOOLEAN])
    BY <1>1, <2>1, <2>2, ConcatProperties
  <2>4. failures' \in Seq([where: Nat, step: Steps])
    BY <1>1, <2>1, <2>2, ConcatProperties
  <2>5. [operations |-> operations', failures |-> failures'] \in Results
    BY <2>3, <2>4 DEF Results
  <2>6. batch' \in Seq(Nat)
    BY <1>1
  <2>7. QED BY <1>1, <2>5, <2>6 DEF RunInv, TypeOK
<1>5. Planning'
  BY <1>1 DEF RunInv, Planning
<1>6. Batching'
  BY <1>1, <1>2, <1>3 DEF Batching
<1>7. ASSUME NEW r \in Repositories
      PROVE  AllEnded(ran[r]) /\ AllBehind(workflow, ran[r], at, operation)
  <2>1. Free(r)
    BY <1>1 DEF Free, Busy
  <2>2. AllEnded(ran[r]) /\ AllBehind(workflow, ran[r], at, 1)
    BY <1>1, <2>1 DEF RunInv, Progress
  <2>3. at \in Int /\ operation \in Int /\ 1 <= operation
    BY <1>2
  <2>4. QED BY <1>2, <2>2, <2>3, AllBehindMore
<1>8. Progress'
  BY <1>1, <1>7 DEF RunInv, Progress
<1>9. QED BY <1>4, <1>5, <1>6, <1>8 DEF RunInv

\* A step that is run once for all begins.
LEMMA BeginGlobalRuns ==
    ASSUME RunInv, BeginGlobal
    PROVE  RunInv'
<1>1. /\ pc = "global" /\ pc' = "running" /\ operation <= Len(stages[at])
      /\ UNCHANGED <<workflow, requested, stages, cancelled, at, operation, batch, next, workers,
                     results, operations, failures, returned, ran>>
  BY DEF BeginGlobal, planned, outcome
<1>2. TypeOK'
  BY <1>1 DEF RunInv, TypeOK
<1>3. Planning' /\ Start' = Start
  BY <1>1 DEF RunInv, Planning, Start
<1>4. Batching'
  BY <1>1, <1>3 DEF RunInv, Batching
<1>5. Progress'
  BY <1>1, <1>3 DEF RunInv, Progress
<1>6. QED BY <1>2, <1>3, <1>4, <1>5 DEF RunInv

\* After a stage that runs by itself no batch is collected yet.
LEMMA NextStageRuns ==
    ASSUME RunInv, pc \in {"global", "running"}, pc' = "stage", at' = at + 1,
           TypeOK', \A r \in Repositories : InSequence(workflow, ran[r]'),
           \A r \in Repositories : AllEnded(ran[r]') /\ AllBehind(workflow, ran[r]', at + 1, 1),
           UNCHANGED <<workflow, stages, operation, batch, returned>>
    PROVE  RunInv'
<1>1. /\ batch = <<>> /\ AloneIn(workflow, at) /\ at \in Nat /\ at >= 1 /\ operation >= 1
  BY InRun DEF RunInv, Batching
<1>2. Planning'
  BY DEF RunInv, Planning
<1>3. Start' = at + 1
  BY <1>1 DEF Start
<1>4. Batching'
  BY <1>1, <1>3 DEF Batching
<1>5. Progress'
  BY <1>3 DEF Progress
<1>6. QED BY <1>2, <1>4, <1>5 DEF RunInv

\* The last step of its stage has ended.
LEMMA LeaveGlobalStageRuns ==
    ASSUME RunInv, LeaveGlobalStage
    PROVE  RunInv'
<1>1. /\ pc = "global" /\ pc' = "stage" /\ at' = at + 1
      /\ UNCHANGED <<workflow, requested, stages, cancelled, operation, batch, next, workers,
                     results, operations, failures, returned, ran>>
  BY DEF LeaveGlobalStage, planned, outcome
<1>2. /\ Kept(workflow) /\ Len(stages) \in Nat /\ at \in Nat /\ at >= 1 /\ operation \in Nat
      /\ \A r \in Repositories : ran[r] \in Seq(Entry)
  BY <1>1, InRun
<1>3. at <= Len(stages)
  BY <1>1 DEF RunInv, Batching
<1>4. TypeOK'
  <2>1. at + 1 \in 1 .. Len(stages) + 1
    BY <1>2, <1>3
  <2>2. QED BY <1>1, <2>1 DEF RunInv, TypeOK
<1>5. ASSUME NEW r \in Repositories
      PROVE  /\ InSequence(workflow, ran[r]) /\ AllEnded(ran[r])
             /\ AllBehind(workflow, ran[r], at + 1, 1)
  BY <1>1, <1>2, AllBehindMore DEF RunInv, Progress
<1>6. QED BY <1>1, <1>4, <1>5, NextStageRuns

\* The run returns.
LEMMA ReturnRuns ==
    ASSUME RunInv, Return
    PROVE  RunInv'
BY DEF Return, planned, RunInv, TypeOK, Planning, Start, Batching, Progress

\* How a step that is run once for all may end.
LEMMA EndingIs ==
    ASSUME NEW verdict \in Endings
    PROVE  /\ \A r \in Repositories : verdict[r] \in Verdicts \cup {"unreached"}
           /\ Joined(Range(verdict)) \in Verdicts
<1>1. CASE verdict \in [Repositories -> Verdicts]
  BY <1>1 DEF Joined, Verdicts
<1>2. CASE verdict \notin [Repositories -> Verdicts]
  <2>1. PICK stop \in Repositories, other \in {"failed", "cancelled"} :
          verdict = [r \in Repositories |->
                       IF r < stop THEN "ok" ELSE IF r = stop THEN other ELSE "unreached"]
    BY <1>2 DEF Endings
  <2>2. QED BY <2>1 DEF Joined, Verdicts
<1>3. QED BY <1>1, <1>2

\* A history of a repository, and the place of the step that comes next in a
\* stage that runs by itself.
LEMMA GlobalStepGoes ==
    ASSUME NEW flow, Kept(flow), NEW k \in 1 .. Len(PlanOperationStages(flow)), AloneIn(flow, k),
           NEW p \in 1 .. Len(PlanOperationStages(flow)[k]), NEW history \in Seq(Entry),
           InSequence(flow, history), AllEnded(history), AllBehind(flow, history, k, p),
           NEW verdict \in Verdicts
    PROVE  LET step == PlanOperationStages(flow)[k][p]
               longer == Append(history, [step |-> step, verdict |-> verdict])
           IN /\ step \in Steps /\ longer \in Seq(Entry)
              /\ InSequence(flow, longer) /\ AllEnded(longer)
              /\ AllBehind(flow, longer, k, p + 1)
<1> DEFINE step == PlanOperationStages(flow)[k][p]
           entry == [step |-> step, verdict |-> verdict]
           longer == Append(history, entry)
           n == Len(history)
<1>1. step \in Steps /\ StageIn(flow, step) = k /\ SpotIn(flow, step) = p /\ k \in Nat /\ p \in Nat
  <2>1. step \in Steps /\ StageIn(flow, step) = k /\ SpotIn(flow, step) = p
    BY PlacesAre
  <2>2. k \in Nat /\ p \in Nat
    OBVIOUS
  <2>3. QED BY <2>1, <2>2
<1>2. entry \in Entry /\ entry.step = step /\ entry.verdict = verdict /\ verdict # "running"
  BY <1>1 DEF Entry, Verdicts
<1> HIDE DEF step, entry
<1>3. /\ n \in Nat /\ DOMAIN history = 1 .. n /\ DOMAIN longer = 1 .. n + 1 /\ longer \in Seq(Entry)
      /\ longer[n + 1] = entry /\ \A i \in 1 .. n : longer[i] = history[i]
  BY <1>2
<1>4. ASSUME NEW i \in DOMAIN history PROVE Admits(flow, history[i], entry)
  <2>1. history[i].step \in Steps
    <3>1. history[i] \in Entry
      BY <1>3
    <3>2. QED BY <3>1 DEF Entry
  <2>2. StageIn(flow, history[i].step) \in Nat
    <3>1. StageIn(flow, history[i].step) \in 1 .. Len(PlanOperationStages(flow))
      BY <2>1, PlacesAre
    <3>2. QED BY <3>1
  <2>3. Behind(flow, history[i].step, k, p)
    BY DEF AllBehind
  <2>4. StageIn(flow, history[i].step) <= k
    BY <1>1, <2>2, <2>3 DEF Behind
  <2>5. k \in StageIn(flow, history[i].step) .. k
    BY <1>1, <2>2, <2>4
  <2>6. QED BY <1>1, <1>2, <2>5 DEF Admits
<1>5. InSequence(flow, longer)
  BY <1>1, <1>2, <1>4, SequenceGrows
<1> HIDE DEF longer, n
<1>6. AllEnded(longer)
  BY <1>2, <1>3 DEF AllEnded
<1>7. AllBehind(flow, longer, k, p + 1)
  <2> SUFFICES ASSUME NEW i \in DOMAIN longer PROVE Behind(flow, longer[i].step, k, p + 1)
    BY DEF AllBehind
  <2>1. CASE i = n + 1
    BY <1>2, <1>3, <2>1, <1>1 DEF Behind
  <2>2. CASE i # n + 1
    <3>1. i \in 1 .. n /\ longer[i] = history[i]
      BY <1>3, <2>2
    <3>2. AllBehind(flow, history, k, p + 1)
      BY <1>1, AllBehindMore
    <3>3. QED BY <1>3, <3>1, <3>2 DEF AllBehind
  <2>3. QED BY <2>1, <2>2
<1>8. QED BY <1>1, <1>3, <1>5, <1>6, <1>7 DEF longer, entry, step

\* It ends in every repository it reached.
LEMMA EndGlobalRuns ==
    ASSUME RunInv, EndGlobal
    PROVE  RunInv'
<1> DEFINE step == stages[at][operation]
<1>1. PICK verdict \in Endings :
        LET joined == Joined(Range(verdict))
        IN /\ ran' = [r \in DOMAIN ran |->
                        LET own == IF r = Everywhere THEN joined ELSE verdict[r]
                        IN IF own = "unreached" THEN ran[r]
                           ELSE Append(ran[r], [step |-> step, verdict |-> own])]
           /\ IF joined = "cancelled"
              THEN /\ pc' = "stage" /\ at' = at + 1
                   /\ UNCHANGED <<operation, operations, failures>>
              ELSE /\ pc' = "global" /\ operation' = operation + 1
                   /\ operations' = Append(operations,
                        [where |-> Everywhere, step |-> step, failed |-> joined # "ok"])
                   /\ failures' = IF joined = "failed"
                                  THEN Append(failures, [where |-> Everywhere, step |-> step])
                                  ELSE failures
                   /\ UNCHANGED at
  BY DEF EndGlobal
<1> DEFINE joined == Joined(Range(verdict))
<1>2. /\ pc = "running"
      /\ UNCHANGED <<workflow, requested, stages, cancelled, batch, next, workers, results,
                     returned>>
  BY DEF EndGlobal, planned
<1>3. /\ \A r \in Repositories : verdict[r] \in Verdicts \cup {"unreached"}
      /\ joined \in Verdicts
  BY EndingIs
<1> HIDE DEF joined
<1>4. /\ Kept(workflow) /\ stages = PlanOperationStages(workflow)
      /\ Len(stages) \in Nat /\ at \in Nat /\ at >= 1 /\ operation \in Nat /\ operation >= 1
      /\ \A r \in Repositories : ran[r] \in Seq(Entry)
  BY <1>2, InRun
<1>5. at <= Len(stages) /\ AloneIn(workflow, at) /\ batch = <<>> /\ operation <= Len(stages[at])
  BY <1>2 DEF RunInv, Batching
<1>6. at \in 1 .. Len(stages)
  BY <1>4, <1>5
<1>7. operation \in 1 .. Len(stages[at])
  BY <1>4, <1>6, PlacesAre, <1>5
<1>8. step \in Steps
  BY <1>4, <1>6, <1>7, PlacesAre
<1> DEFINE Fits(history) == /\ history \in Seq(Entry) /\ InSequence(workflow, history)
                            /\ AllEnded(history)
                            /\ AllBehind(workflow, history, at, operation + 1)
<1>9. ASSUME NEW r \in Repositories PROVE Fits(ran'[r])
  <2>1. /\ ran[r] \in Seq(Entry) /\ InSequence(workflow, ran[r]) /\ AllEnded(ran[r])
        /\ AllBehind(workflow, ran[r], at, operation)
    BY <1>2, <1>4 DEF RunInv, Progress
  <2>2. r \in DOMAIN ran /\ r # Everywhere
    BY SomeRepository DEF RunInv, TypeOK
  <2>3. ran'[r] = IF verdict[r] = "unreached" THEN ran[r]
                  ELSE Append(ran[r], [step |-> step, verdict |-> verdict[r]])
    <3> HIDE DEF step
    <3>1. QED BY <1>1, <2>2
  <2>4. CASE verdict[r] = "unreached"
    BY <1>4, <2>1, AllBehindMore, <2>3, <2>4
  <2>5. CASE verdict[r] # "unreached"
    <3>1. verdict[r] \in Verdicts
      BY <1>3, <2>5
    <3>2. step = PlanOperationStages(workflow)[at][operation]
      BY <1>4
    <3>3. Fits(Append(ran[r], [step |-> step, verdict |-> verdict[r]]))
      <4>1. at \in 1 .. Len(PlanOperationStages(workflow))
            /\ operation \in 1 .. Len(PlanOperationStages(workflow)[at])
        BY <1>4, <1>6, <1>7
      <4> HIDE DEF step
      <4>2. QED BY <1>4, <1>5, <2>1, <3>1, <3>2, <4>1, GlobalStepGoes
    <3>4. QED BY <2>3, <2>5, <3>3
  <2>6. QED BY <2>4, <2>5
<1>10. ran' \in [Repositories \cup {Everywhere} -> Seq(Entry)]
  <2>1. ran \in [Repositories \cup {Everywhere} -> Seq(Entry)]
    BY DEF RunInv, TypeOK, Entry
  <2>2. ran'[Everywhere] \in Seq(Entry)
    <3>1. joined # "unreached" /\ Everywhere \in DOMAIN ran
      BY <1>3, <2>1 DEF Verdicts
    <3>2. ran'[Everywhere] = Append(ran[Everywhere], [step |-> step, verdict |-> joined])
      <4> HIDE DEF step
      <4>1. QED BY <1>1, <3>1 DEF joined
    <3>3. [step |-> step, verdict |-> joined] \in Entry
      BY <1>3, <1>8 DEF Entry
    <3>4. QED BY <2>1, <3>2, <3>3
  <2>3. DOMAIN ran' = Repositories \cup {Everywhere}
    BY <1>1, <2>1
  <2>4. \A r \in Repositories \cup {Everywhere} : ran'[r] \in Seq(Entry)
    BY <1>9, <2>2
  <2>5. ran' = [r \in DOMAIN ran' |-> ran'[r]]
    <3> HIDE DEF step
    <3>1. QED BY <1>1
  <2>6. QED BY <2>3, <2>4, <2>5
<1> DEFINE Typed == /\ operations' \in Seq([where: Nat, step: Steps, failed: BOOLEAN])
                    /\ failures' \in Seq([where: Nat, step: Steps])
                    /\ operation' \in Nat /\ at' \in 1 .. Len(stages) + 1
                    /\ pc' \in {"stage", "global"}
<1>11. Typed => TypeOK'
  BY <1>2, <1>10 DEF Results, RunInv, TypeOK, Entry
<1>12. /\ operations \in Seq([where: Nat, step: Steps, failed: BOOLEAN])
       /\ failures \in Seq([where: Nat, step: Steps])
  BY DEF RunInv, TypeOK, Results
<1>13. CASE joined = "cancelled"
  <2>1. pc' = "stage" /\ at' = at + 1 /\ UNCHANGED <<operation, operations, failures>>
    <3> HIDE DEF step
    <3>1. QED BY <1>1, <1>13 DEF joined
  <2>2. TypeOK'
    BY <1>4, <1>6, <1>11, <1>12, <2>1
  <2>3. ASSUME NEW r \in Repositories PROVE AllBehind(workflow, ran'[r], at + 1, 1)
    <3>1. at \in Int /\ at + 1 \in Int /\ operation + 1 \in Int /\ at < at + 1
      BY <1>4
    <3>2. ran'[r] \in Seq(Entry) /\ AllBehind(workflow, ran'[r], at, operation + 1)
      BY <1>9
    <3> DEFINE history == ran'[r]
               p == operation + 1
               k == at + 1
    <3>3. history \in Seq(Entry) /\ AllBehind(workflow, history, at, p) /\ p \in Int /\ k \in Int
          /\ at < k /\ at \in Int /\ Kept(workflow)
      BY <1>4, <3>1, <3>2
    <3> HIDE DEF history, p, k
    <3>4. AllBehind(workflow, history, k, 1)
      BY <3>3, AllBehindMore
    <3>5. QED BY <3>4 DEF history, k
  <2>4. QED BY <1>2, <1>9, <2>1, <2>2, <2>3, NextStageRuns
<1>14. CASE joined # "cancelled"
  <2>1. /\ pc' = "global" /\ operation' = operation + 1 /\ at' = at
        /\ operations' = Append(operations,
             [where |-> Everywhere, step |-> step, failed |-> joined # "ok"])
        /\ failures' = IF joined = "failed"
                       THEN Append(failures, [where |-> Everywhere, step |-> step])
                       ELSE failures
    <3> HIDE DEF step
    <3>1. QED BY <1>1, <1>14 DEF joined
  <2>2. TypeOK'
    <3>1. Everywhere \in Nat
      BY DEF Everywhere
    <3>2. /\ [where |-> Everywhere, step |-> step, failed |-> joined # "ok"]
               \in [where: Nat, step: Steps, failed: BOOLEAN]
          /\ [where |-> Everywhere, step |-> step] \in [where: Nat, step: Steps]
      BY <1>8, <3>1
    <3> HIDE DEF step
    <3>3. /\ operations' \in Seq([where: Nat, step: Steps, failed: BOOLEAN])
          /\ failures' \in Seq([where: Nat, step: Steps])
      <4>1. operations' \in Seq([where: Nat, step: Steps, failed: BOOLEAN])
        BY <1>12, <2>1, <3>2
      <4>2. CASE joined = "failed"
        BY <1>12, <2>1, <3>2, <4>1, <4>2
      <4>3. CASE joined # "failed"
        BY <1>12, <2>1, <4>1, <4>3
      <4>4. QED BY <4>2, <4>3
    <3>4. QED BY <1>4, <1>6, <1>11, <2>1, <3>3
  <2>3. Planning' /\ Start' = Start
    BY <1>2, <2>1 DEF RunInv, Planning, Start
  <2>4. Batching'
    BY <1>2, <1>4, <1>5, <2>1, <2>3 DEF RunInv, Batching
  <2>5. Progress'
    BY <1>2, <1>9, <2>1 DEF Progress
  <2>6. QED BY <2>2, <2>3, <2>4, <2>5 DEF RunInv
<1>15. QED BY <1>13, <1>14

\* Whatever the runner does.
LEMMA RunnerRuns ==
    ASSUME RunInv, IInv, Runner
    PROVE  RunInv'
  BY PlanRuns, CollectStageRuns, ReachGlobalStageRuns, FinishStagesRuns, StopDispatchingRuns,
    CollectResultsRuns, BeginGlobalRuns, LeaveGlobalStageRuns, EndGlobalRuns, ReturnRuns DEF Runner

\* Every step keeps the invariant.
LEMMA NextRuns ==
    ASSUME RunInv, IInv, [Next]_vars
    PROVE  RunInv'
BY CancelRuns, RunnerRuns, StutterRuns, HandOverRuns, WorkerRuns DEF Next, Done

\* Every step is in one stage of the plan.
LEMMA PlaceIs ==
    ASSUME NEW flow, Kept(flow), NEW s, NEW k \in DOMAIN PlanOperationStages(flow)
    PROVE  s \in Range(PlanOperationStages(flow)[k]) <=> s \in Steps /\ k = StageIn(flow, s)
<1> DEFINE plan == PlanOperationStages(flow)
<1>1. /\ Len(plan) \in Nat /\ DOMAIN plan = 1 .. Len(plan)
      /\ \A j \in 1 .. Len(plan) : plan[j] \in Seq(Steps) /\ DOMAIN plan[j] = 1 .. Len(plan[j])
  BY PlacesAre
<1>2. /\ \A t \in Steps : /\ StageIn(flow, t) \in 1 .. Len(plan)
                          /\ SpotIn(flow, t) \in 1 .. Len(plan[StageIn(flow, t)])
                          /\ plan[StageIn(flow, t)][SpotIn(flow, t)] = t
      /\ \A j \in 1 .. Len(plan) : \A i \in 1 .. Len(plan[j]) :
           plan[j][i] \in Steps /\ StageIn(flow, plan[j][i]) = j
  BY PlacesAre
<1>3. k \in 1 .. Len(plan)
  BY <1>1
<1> HIDE DEF plan
<1>4. ASSUME s \in Range(plan[k]) PROVE s \in Steps /\ k = StageIn(flow, s)
  <2>1. PICK i \in 1 .. Len(plan[k]) : plan[k][i] = s
    BY <1>1, <1>3, <1>4 DEF Range
  <2>2. QED BY <1>2, <1>3, <2>1
<1>5. ASSUME s \in Steps, k = StageIn(flow, s) PROVE s \in Range(plan[k])
  BY <1>1, <1>2, <1>3, <1>5 DEF Range
<1>6. QED BY <1>4, <1>5 DEF plan

\* The plan of a workflow that is not refused is right.
LEMMA KeptPlanIsRight ==
    ASSUME RunInv, pc \notin {"plan", "done"}
    PROVE  LET place(s) == {k \in DOMAIN stages : s \in Range(stages[k])}
           IN /\ ~Ill(workflow)
              /\ \A s \in Steps :
                   \E k \in place(s) :
                     /\ place(s) = {k}
                     /\ \A d \in workflow.after[s] : \A j \in place(d) : j < k
                     /\ k > 1 => workflow.after[s] \cap Range(stages[k - 1]) # {}
<1> DEFINE place(s) == {k \in DOMAIN stages : s \in Range(stages[k])}
<1>1. Kept(workflow) /\ stages = PlanOperationStages(workflow)
      /\ stages \in Seq(Seq(Steps)) /\ Len(stages) \in Nat
  BY InRun
<1>2. ~Ill(workflow)
  BY <1>1, KeptIsWell DEF Kept
<1>3. \A k \in 1 .. Len(stages) : \A s \in Range(stages[k]) :
        /\ workflow.after[s] \subseteq EarlierThan(stages, k)
        /\ k > 1 => workflow.after[s] \cap Range(stages[k - 1]) # {}
  BY <1>1, PlanShape DEF Kept
<1>4. DOMAIN stages = 1 .. Len(stages)
  BY <1>1
<1>5. \A s : \A k \in 1 .. Len(stages) :
        s \in Range(stages[k]) <=> s \in Steps /\ k = StageIn(workflow, s)
  BY <1>1, <1>4, PlaceIs
<1>6. \A s \in Steps : StageIn(workflow, s) \in 1 .. Len(stages)
  BY <1>1, PlacesAre
<1>7. ASSUME NEW s \in Steps
      PROVE  \E k \in place(s) :
                     /\ place(s) = {k}
                     /\ \A d \in workflow.after[s] : \A j \in place(d) : j < k
                     /\ k > 1 => workflow.after[s] \cap Range(stages[k - 1]) # {}
  <2> DEFINE k == StageIn(workflow, s)
  <2>1. k \in 1 .. Len(stages) /\ s \in Range(stages[k])
    BY <1>5, <1>6
  <2>2. place(s) = {k}
    BY <1>4, <1>5, <2>1
  <2>3. ASSUME NEW d \in workflow.after[s], NEW j \in place(d) PROVE j < k
    <3>1. d \in EarlierThan(stages, k)
      BY <1>3, <2>1
    <3>2. PICK i \in 1 .. k - 1 : d \in Range(stages[i])
      BY <3>1 DEF EarlierThan
    <3>3. i \in 1 .. Len(stages) /\ i < k
      BY <1>1, <2>1
    <3>4. i = j
      BY <1>4, <1>5, <3>2, <3>3
    <3>5. QED BY <3>3, <3>4
  <2>4. k > 1 => workflow.after[s] \cap Range(stages[k - 1]) # {}
    BY <1>3, <2>1
  <2>5. k \in place(s)
    BY <2>2
  <2> HIDE DEF place, k
  <2>6. QED BY <2>2, <2>3, <2>4, <2>5
<1>8. QED BY <1>2, <1>7

\* The workflow is one that runs, or nothing has run.
LEMMA RunsOrNot ==
    ASSUME RunInv
    PROVE  \/ Kept(workflow) /\ stages = PlanOperationStages(workflow)
           \/ \A r \in Repositories : DOMAIN ran[r] = {}
BY DEF RunInv, Planning, Kept

\* A history tells of steps.
LEMMA EntryHasStep ==
    ASSUME RunInv, NEW r \in Repositories, NEW i \in DOMAIN ran[r]
    PROVE  ran[r][i].step \in Steps
<1>1. ran[r] \in Seq(Entry)
  BY DEF RunInv, TypeOK, Entry
<1>2. ran[r][i] \in Entry
  BY <1>1
<1>3. QED BY <1>2 DEF Entry

\* What is in sequence is in order.
LEMMA OrderHolds ==
    ASSUME RunInv
    PROVE  RunsInOrder
<1> SUFFICES ASSUME NEW r \in Repositories, NEW i \in DOMAIN ran[r], NEW j \in DOMAIN ran[r], i < j
             PROVE  /\ ran[r][i].verdict # "running"
                    /\ ran[r][j].step # ran[r][i].step
                    /\ ran[r][j].step \notin Before(workflow)[ran[r][i].step]
  BY DEF RunsInOrder
<1>1. Kept(workflow)
  BY RunsOrNot
<1> DEFINE early == ran[r][i].step
           late == ran[r][j].step
<1>2. early \in Steps /\ late \in Steps
  BY EntryHasStep
<1>3. /\ ran[r][i].verdict # "running"
      /\ Behind(workflow, early, StageIn(workflow, late), SpotIn(workflow, late))
  BY DEF RunInv, Progress, InSequence
<1> HIDE DEF early, late
<1>4. /\ StageIn(workflow, early) \in Int /\ StageIn(workflow, late) \in Int
      /\ SpotIn(workflow, early) \in Int /\ SpotIn(workflow, late) \in Int
  BY <1>1, <1>2, PlacesAre
<1>5. late # early
  BY <1>3, <1>4 DEF Behind
<1>6. late \notin Before(workflow)[early]
  BY <1>1, <1>2, PlacesAre, <1>3, <1>4 DEF Behind
<1>7. QED BY <1>3, <1>5, <1>6 DEF early, late

\* What is in sequence respects what gives a repository up.
LEMMA AbortHolds ==
    ASSUME RunInv
    PROVE  AbortLastsTheBatch
<1> SUFFICES ASSUME NEW r \in Repositories, NEW i \in DOMAIN ran[r], NEW j \in DOMAIN ran[r], i < j,
                    ran[r][i].verdict \in {"failed", "skipped", "masked"}
             PROVE  LET from == StageNumber(ran[r][i].step)
                        to == StageNumber(ran[r][j].step)
                    IN \/ from = to /\ (Global(from) \/ ran[r][i].verdict = "failed")
                       \/ \E k \in from .. to : Global(k)
  BY DEF AbortLastsTheBatch
<1>1. Kept(workflow) /\ stages = PlanOperationStages(workflow)
  BY RunsOrNot
<1>2. \A step : StageNumber(step) = StageIn(workflow, step)
  BY <1>1 DEF StageNumber, StageIn
<1>3. \A k : Global(k) <=> AloneIn(workflow, k)
  BY <1>1, ScopedIs DEF Global
<1>4. Admits(workflow, ran[r][i], ran[r][j])
  BY DEF RunInv, Progress, InSequence
<1>5. QED BY <1>2, <1>3, <1>4 DEF Admits, Aborts

\* What the invariant is for.
LEMMA InvariantRuns == RunInv => TypeOK /\ RunsAsPlanned
BY RefusedIsIll, KeptPlanIsRight, OrderHolds, AbortHolds DEF RunInv, Planning, PlanIsRight, Ill, RunsAsPlanned

\* It holds in every state of every run.
LEMMA RunInvHolds == Spec => []RunInv
<1>1. RunInv /\ IInv /\ [Next]_vars => RunInv' /\ IInv'
  BY NextRuns, NextHolds
<1>2. QED
  BY InitRuns, InitHolds, <1>1, PTL DEF Spec

\* Every variable of the executor has its type in every state (executor.go,
\* executor_runner.go): positions are in the plan, results are results.
THEOREM TypeCorrect == Spec => []TypeOK
<1>1. RunInv => TypeOK
  BY InvariantRuns
<1>2. QED
  BY RunInvHolds, <1>1, PTL

\* A workflow is refused exactly if it has to be, every step is in the stage its
\* dependencies put it in (dag_plan.go, planOperationStages), and in every repository
\* steps run in that order and not after a failure or a skip (executor_runner.go).
THEOREM AsPlanned == Spec => []RunsAsPlanned
<1>1. RunInv => RunsAsPlanned
  BY InvariantRuns
<1>2. QED
  BY RunInvHolds, <1>1, PTL

\* Only as many workers are started as may run side by side.
Few == requested \in Nat /\ \A w \in Workers : w > Parallelism => workers[w].pc = "off"

\* A step that puts no worker on.
LEMMA FewStays ==
    ASSUME Few, UNCHANGED requested,
           \A w \in Workers : workers[w].pc = "off" => workers'[w].pc = "off"
    PROVE  Few'
BY DEF Parallelism, Few

\* A batch is started with as many workers as asked for.
LEMMA FewStarts ==
    ASSUME Few, UNCHANGED requested, StartPipelines
    PROVE  Few'
BY SomeRepository, IdleIsRecord DEF Parallelism, Few, Workers, StartPipelines

\* A worker that is off is only put on when a batch starts.
LEMMA FewGoes ==
    ASSUME Few, NEW w \in Workers, workers[w].pc # "off", UNCHANGED requested,
           NEW worker, workers' = [workers EXCEPT ![w] = worker],
           workers = [v \in Workers |-> workers[v]]
    PROVE  Few'
BY FewStays

\* Every step keeps the number of workers.
LEMMA FewHolds ==
    ASSUME Few, IInv, [Next]_vars
    PROVE  Few'
<1>0. workers = [v \in Workers |-> workers[v]]
  BY DEF IInv, Shape
<1>1. CASE Cancel
  BY <1>1, FewStays DEF Cancel, planned
<1>2. CASE Runner
  <2>1. CASE Plan
    BY <2>1, FewStays DEF Plan
  <2>2. CASE CollectStage
    BY <2>2, FewStays DEF CollectStage, planned
  <2>3. CASE ReachGlobalStage
    BY <2>3, FewStays, FewStarts DEF ReachGlobalStage, planned
  <2>4. CASE FinishStages
    BY <2>4, FewStays, FewStarts DEF FinishStages, planned
  <2>5. CASE StopDispatching
    BY <2>5, FewStays DEF StopDispatching, planned
  <2>6. CASE CollectResults
    BY <2>6, FewStays DEF CollectResults, planned
  <2>7. CASE BeginGlobal
    BY <2>7, FewStays DEF BeginGlobal, planned
  <2>8. CASE LeaveGlobalStage
    BY <2>8, FewStays DEF LeaveGlobalStage, planned
  <2>9. CASE EndGlobal
    BY <2>9, FewStays DEF EndGlobal, planned
  <2>10. CASE Return
    BY <2>10, FewStays DEF Return, planned
  <2>11. QED
    BY <1>2, <2>1, <2>2, <2>3, <2>4, <2>5, <2>6, <2>7, <2>8, <2>9, <2>10 DEF Runner
<1>3. CASE UNCHANGED vars
  BY <1>3, FewStays DEF vars, planned
<1>4. ASSUME NEW w \in Workers, HandOver(w) PROVE Few'
  BY <1>0, <1>4, FewGoes DEF HandOver, planned
<1>5. ASSUME NEW w \in Workers, Worker(w) PROVE Few'
  BY <1>5, <1>0, FewStays DEF Worker, WorkerEnds, Open, EnterStage, StoreResult, BeginOperation, LeaveStage,
    EndOperation, planned
<1>6. QED
  BY <1>1, <1>2, <1>3, <1>4, <1>5 DEF Next, Done

\* One worker is never two.
LEMMA OneIsSequential == Few => OneWorkerIsSequential
<1> SUFFICES ASSUME Few, requested <= 1
             PROVE  Cardinality({w \in Workers : workers[w].pc \notin {"off", "idle"}}) <= 1
  BY DEF OneWorkerIsSequential
<1> DEFINE some == {w \in Workers : workers[w].pc \notin {"off", "idle"}}
<1>1. Parallelism <= 1 /\ Parallelism \in Nat
  BY SomeRepository DEF Parallelism, Few
<1>2. some \subseteq {1}
  BY <1>1, SomeRepository DEF Few, Workers, Repositories
<1>3. IsFiniteSet({1}) /\ Cardinality({1}) = 1
  BY FS_Singleton
<1>4. Cardinality(some) <= Cardinality({1})
  BY <1>2, <1>3, FS_Subset
<1>5. QED BY <1>3, <1>4

\* With one worker a repository is begun only when those before it are done
\* with (sanitizeRepositoryParallelism, executor_runner.go).
THEOREM OneByOne == Spec => []OneWorkerIsSequential
<1>1. Init => Few
  BY InitRuns, IdleIsRecord DEF RunInv, TypeOK, Init, Few
<1>2. Few /\ IInv /\ [Next]_vars => Few' /\ IInv'
  BY FewHolds, NextHolds
<1>3. QED
  BY InitHolds, OneIsSequential, <1>1, <1>2, PTL DEF Spec

\* A history tells of the step.
Has(history, s) == \E i \in DOMAIN history : history[i].step = s

\* Every step before the p-th of stage k has run.
AllRan(flow, history, k, p) == \A s \in Steps : Behind(flow, s, k, p) => Has(history, s)

\* So many steps of the history have succeeded.
AllOk(history, n) == \A i \in 1 .. n : history[i].verdict = "ok"

\* All that could run so far has run and succeeded.
Ran(flow, history, k, p) == AllOk(history, Len(history)) /\ AllRan(flow, history, k, p)

\* A step of the history was skipped.
Spoilt(history) == \E i \in DOMAIN history : history[i].verdict \in {"skipped", "masked"}

\* A skip has masked a failure of a step that is run once for all.
Masked(history) == \E i \in DOMAIN history : history[i].verdict = "masked"

\* Why a repository may miss a step, or have one that failed.
Excuse(told, history, overall) == told # <<>> \/ Spoilt(history) \/ Masked(overall)

\* Why a repository may not have run everything.
Excused(r) == Excuse(failures, ran[r], ran[Everywhere])

\* What a worker has run of its repository.
RanBy(flow, start, worker, history) ==
    /\ AllOk(history, EndedOf(worker, history))
    /\ AllRan(flow, history, start + worker.position - 1,
              IF worker.pc \in {"taken", "stage"} THEN 1 ELSE worker.operation)

\* Every repository has run what it could, or a failure or a skip is known of.
Accounted ==
    /\ pc = "stage" => \A r \in Repositories : Excused(r) \/ Ran(workflow, ran[r], Start, 1)
    /\ pc \in {"global", "running"} =>
         \A r \in Repositories : Excused(r) \/ Ran(workflow, ran[r], at, operation)
    /\ pc = "return" =>
         \A r \in Repositories : Excused(r) \/ Ran(workflow, ran[r], Len(stages) + 1, 1)
    /\ pc = "wait" => next > RepositoryCount
    /\ pc \in {"dispatch", "wait"} =>
         /\ \A r \in Repositories : r >= next => Excused(r) \/ Ran(workflow, ran[r], Start, 1)
         /\ \A r \in Repositories : r < next /\ Free(r) =>
              Excused(r) \/ results[r].failures # <<>> \/ Ran(workflow, ran[r], at, 1)
         /\ \A w \in Workers : Busy(w) =>
              \/ Excused(workers[w].repository)
              \/ workers[w].result.failures # <<>>
              \/ /\ ~workers[w].failed
                 /\ RanBy(workflow, Start, workers[w], ran[workers[w].repository])

\* The account goes up to the return, unless the run is cancelled.
Told ==
    /\ returned # "no" => pc = "done"
    /\ returned = "ok" =>
         /\ failures = <<>>
         /\ \A r \in Repositories : Excused(r) \/ Ran(workflow, ran[r], Len(stages) + 1, 1)
    /\ pc \in {"dispatch", "wait"} /\ at <= Len(stages) => operation = 1
    /\ ~cancelled => Accounted

\* What has run stays so when another step is appended.
LEMMA HasMore ==
    ASSUME NEW flow, NEW history \in Seq(Entry), NEW entry \in Entry, NEW k, NEW p,
           AllRan(flow, history, k, p)
    PROVE  AllRan(flow, Append(history, entry), k, p)
<1> DEFINE longer == Append(history, entry)
           n == Len(history)
<1>1. /\ n \in Nat /\ DOMAIN history = 1 .. n /\ DOMAIN longer = 1 .. n + 1
      /\ \A i \in 1 .. n : longer[i] = history[i]
  OBVIOUS
<1> HIDE DEF longer, n
<1>2. \A s : Has(history, s) => Has(longer, s)
  BY <1>1 DEF Has
<1>3. QED BY <1>2 DEF AllRan, longer

\* The step at p has run as well.
LEMMA RanFurther ==
    ASSUME NEW flow, Kept(flow), NEW history \in Seq(Entry),
           NEW k \in 1 .. Len(PlanOperationStages(flow)),
           NEW p \in 1 .. Len(PlanOperationStages(flow)[k]), AllRan(flow, history, k, p),
           Has(history, PlanOperationStages(flow)[k][p])
    PROVE  AllRan(flow, history, k, p + 1)
<1> DEFINE plan == PlanOperationStages(flow)
<1> SUFFICES ASSUME NEW s \in Steps, Behind(flow, s, k, p + 1) PROVE Has(history, s)
  BY DEF AllRan
<1>1. /\ StageIn(flow, s) \in Int /\ SpotIn(flow, s) \in Int
      /\ plan[StageIn(flow, s)][SpotIn(flow, s)] = s
  <2>1. \A t \in Steps : /\ StageIn(flow, t) \in 1 .. Len(plan)
                         /\ SpotIn(flow, t) \in 1 .. Len(plan[StageIn(flow, t)])
                         /\ plan[StageIn(flow, t)][SpotIn(flow, t)] = t
    BY PlacesAre
  <2> HIDE DEF plan
  <2>2. QED BY <2>1
<1>2. k \in Int /\ p \in Int
  OBVIOUS
<1> HIDE DEF plan
<1>3. CASE Behind(flow, s, k, p)
  BY <1>3 DEF AllRan
<1>4. CASE ~Behind(flow, s, k, p)
  BY <1>1, <1>2, <1>4 DEF Behind, plan
<1>5. QED BY <1>3, <1>4

\* After the last step of a stage the next stage has its turn.
LEMMA RanStage ==
    ASSUME NEW flow, Kept(flow), NEW history, NEW k \in 1 .. Len(PlanOperationStages(flow)),
           NEW p \in Nat, p > Len(PlanOperationStages(flow)[k]), AllRan(flow, history, k, p)
    PROVE  AllRan(flow, history, k + 1, 1)
<1> DEFINE plan == PlanOperationStages(flow)
<1> SUFFICES ASSUME NEW s \in Steps, Behind(flow, s, k + 1, 1) PROVE Has(history, s)
  BY DEF AllRan
<1>1. /\ StageIn(flow, s) \in 1 .. Len(plan)
      /\ SpotIn(flow, s) \in 1 .. Len(plan[StageIn(flow, s)])
      /\ Len(plan) \in Nat /\ \A j \in 1 .. Len(plan) : Len(plan[j]) \in Nat
  BY PlacesAre
<1>2. p > Len(plan[k])
  OBVIOUS
<1> HIDE DEF plan
<1>3. StageIn(flow, s) <= k
  BY <1>1 DEF Behind
<1>4. StageIn(flow, s) = k => SpotIn(flow, s) < p
  BY <1>1, <1>2
<1>5. Behind(flow, s, k, p)
  BY <1>1, <1>3, <1>4 DEF Behind
<1>6. QED BY <1>5 DEF AllRan

\* Whatever was planned has run once the last stage is past.
LEMMA RanAll ==
    ASSUME NEW flow, Kept(flow), NEW history,
           AllRan(flow, history, Len(PlanOperationStages(flow)) + 1, 1)
    PROVE  \A s \in Steps : Has(history, s)
BY PlacesAre DEF AllRan, Behind

\* Nothing is planned before the first step.
LEMMA RanNothing ==
    ASSUME NEW flow, Kept(flow)
    PROVE  AllRan(flow, <<>>, 1, 1)
BY PlacesAre DEF AllRan, Behind

\* An entry that is appended.
LEMMA AppendedIs ==
    ASSUME NEW history \in Seq(Entry), NEW entry \in Entry
    PROVE  LET longer == Append(history, entry)
           IN /\ Spoilt(history) => Spoilt(longer)
              /\ Masked(history) => Masked(longer)
              /\ entry.verdict \in {"skipped", "masked"} => Spoilt(longer)
              /\ entry.verdict = "masked" => Masked(longer)
              /\ Has(longer, entry.step)
              /\ AllOk(longer, Len(history)) <=> AllOk(history, Len(history))
              /\ Len(longer) = Len(history) + 1
              /\ AllOk(history, Len(history)) /\ entry.verdict = "ok" => AllOk(longer, Len(longer))
<1> DEFINE longer == Append(history, entry)
           n == Len(history)
<1>1. /\ n \in Nat /\ DOMAIN history = 1 .. n /\ DOMAIN longer = 1 .. n + 1 /\ Len(longer) = n + 1
      /\ longer[n + 1] = entry /\ \A i \in 1 .. n : longer[i] = history[i]
  OBVIOUS
<1> HIDE DEF longer, n
<1>2. n + 1 \in DOMAIN longer /\ \A i \in DOMAIN history : i \in DOMAIN longer
  BY <1>1
<1>3. (Spoilt(history) => Spoilt(longer)) /\ (Masked(history) => Masked(longer))
  BY <1>1, <1>2 DEF Spoilt, Masked
<1>4. /\ entry.verdict \in {"skipped", "masked"} => Spoilt(longer)
      /\ entry.verdict = "masked" => Masked(longer)
      /\ Has(longer, entry.step)
  BY <1>1, <1>2 DEF Spoilt, Masked, Has
<1>5. AllOk(longer, n) <=> AllOk(history, n)
  BY <1>1 DEF AllOk
<1>6. AllOk(history, n) /\ entry.verdict = "ok" => AllOk(longer, Len(longer))
  BY <1>1 DEF AllOk
<1>7. QED BY <1>1, <1>3, <1>4, <1>5, <1>6 DEF longer, n

\* The last entry ends.
LEMMA EndedIs ==
    ASSUME NEW flow, NEW history \in Seq(Entry), history # <<>>, InSequence(flow, history),
           history[Len(history)].verdict = "running", NEW verdict \in Verdicts
    PROVE  LET ended == Ended(history, verdict)
           IN /\ ended \in Seq(Entry) /\ Len(ended) = Len(history)
              /\ Spoilt(history) => Spoilt(ended)
              /\ verdict \in {"skipped", "masked"} => Spoilt(ended)
              /\ \A s : Has(history, s) <=> Has(ended, s)
              /\ AllOk(history, Len(history) - 1) /\ verdict = "ok" => AllOk(ended, Len(history))
<1> DEFINE ended == Ended(history, verdict)
           n == Len(history)
<1>1. /\ ended \in Seq(Entry) /\ Len(ended) = n
      /\ \A i \in 1 .. n : ended[i].step = history[i].step
      /\ \A i \in 1 .. n - 1 : ended[i] = history[i]
      /\ ended[n].verdict = verdict
  BY SequenceEnds
<1>2. n \in Nat /\ n \in 1 .. n /\ DOMAIN history = 1 .. n
  OBVIOUS
<1>3. DOMAIN ended = 1 .. n
  BY <1>1
<1> HIDE DEF ended, n
<1>4. Spoilt(history) => Spoilt(ended)
  BY <1>2, <1>1, <1>3 DEF Spoilt, n
<1>5. verdict \in {"skipped", "masked"} => Spoilt(ended)
  BY <1>1, <1>2, <1>3 DEF Spoilt
<1>6. \A s : Has(history, s) <=> Has(ended, s)
  BY <1>1, <1>2, <1>3 DEF Has
<1>7. AllOk(history, n - 1) /\ verdict = "ok" => AllOk(ended, n)
  BY <1>2, <1>1 DEF AllOk
<1>8. QED BY <1>1, <1>4, <1>5, <1>6, <1>7 DEF ended, n

\* A failure is in the result of its worker and stays there.
LEMMA VerdictTells ==
    ASSUME NEW worker \in WorkerType, NEW step, NEW verdict \in Verdicts
    PROVE  LET after == AfterVerdict(worker, step, verdict)
           IN /\ worker.result.failures # <<>> => after.result.failures # <<>>
              /\ verdict = "failed" => after.result.failures # <<>>
<1> DEFINE after == AfterVerdict(worker, step, verdict)
           recorded == Recorded(worker, step, verdict)
           old == worker.result
           failure == [where |-> worker.repository, step |-> step]
           entry == [where |-> worker.repository, step |-> step, failed |-> verdict = "failed"]
<1>1. old = [operations |-> old.operations, failures |-> old.failures]
      /\ old.failures \in Seq([where: Nat, step: Steps])
  <2>1. old \in Results
    BY DEF WorkerType
  <2> HIDE DEF old
  <2>2. QED BY <2>1 DEF Results
<1>2. recorded.failures = IF verdict = "failed" THEN Append(old.failures, failure) ELSE old.failures
  <2>1. recorded = [old EXCEPT !.operations = Append(@, entry),
                               !.failures = IF verdict = "failed" THEN Append(@, failure) ELSE @]
    BY DEF Recorded
  <2> HIDE DEF entry, failure, old, recorded
  <2>2. QED BY <1>1, <2>1
<1>3. Append(old.failures, failure) # <<>>
  <2> HIDE DEF old, failure
  <2>1. QED BY <1>1
<1> HIDE DEF recorded
<1>4. CASE verdict = "cancelled"
  BY <1>4 DEF AfterVerdict, WorkerType
<1>5. CASE verdict # "cancelled"
  <2>1. after.result = recorded
    BY <1>5 DEF AfterVerdict, WorkerType, Verdicts, recorded
  <2> HIDE DEF after, old, failure
  <2>2. QED BY <1>2, <1>3, <2>1 DEF after, old
<1>6. QED BY <1>4, <1>5

\* A worker goes on with its repository, or gives it back.
LEMMA OneTold ==
    ASSUME RunInv, IInv, Told, Steady, ~cancelled, NEW w \in Workers, Busy(w),
           NEW worker \in WorkerType, NEW history \in Seq(Entry),
           workers' = [workers EXCEPT ![w] = worker],
           ran' = [ran EXCEPT ![workers[w].repository] = history],
           \A r \in Repositories : r # workers[w].repository => results'[r] = results[r],
           \/ /\ worker.pc \notin {"off", "idle"}
              /\ worker.repository = workers[w].repository
              /\ \/ Excuse(failures, history, ran[Everywhere])
                 \/ worker.result.failures # <<>>
                 \/ ~worker.failed /\ RanBy(workflow, Start, worker, history)
           \/ /\ worker.pc \in {"off", "idle"}
              /\ \/ Excuse(failures, history, ran[Everywhere])
                 \/ results'[workers[w].repository].failures # <<>>
                 \/ Ran(workflow, history, at, 1)
    PROVE  Told'
<1> DEFINE mine == workers[w].repository
<1>1. pc \in {"dispatch", "wait"}
  BY InBatch DEF Busy
<1>2. UNCHANGED <<workflow, stages, pc, at, batch, next, operation, failures, returned, cancelled>>
  BY DEF Steady, planned, runner, outcome
<1>3. workers \in [Workers -> WorkerType] /\ ran \in [Repositories \cup {Everywhere} -> Seq(Entry)]
  BY DEF RunInv, TypeOK, Entry
<1>4. mine \in Repositories /\ mine # Everywhere
  BY <1>3, SomeRepository DEF WorkerType
<1>5. Start' = Start
  BY <1>2 DEF Start
<1>6. ran'[mine] = history /\ ran'[Everywhere] = ran[Everywhere]
      /\ \A r \in Repositories : r # mine => ran'[r] = ran[r]
  BY <1>3, <1>4
<1>7. workers'[w] = worker /\ \A v \in Workers : v # w => workers'[v] = workers[v]
  BY <1>3
<1>8. \A v \in Workers : v # w /\ Busy(v) => workers[v].repository # mine
  BY DEF IInv, Apart
<1>9. mine < next /\ mine \in Nat /\ next \in Nat
  BY <1>4, SomeRepository DEF IInv, Shape, mine
<1> HIDE DEF mine
<1>10. \A v \in Workers : Busy(v)' <=> workers'[v].pc \notin {"off", "idle"}
  BY DEF Busy
<1>11. \A v \in Workers : v # w => (Busy(v)' <=> Busy(v))
  BY <1>7, <1>10 DEF Busy
<1> DEFINE Now(r) == Excuse(failures', ran'[r], ran'[Everywhere])
<1>12. \A r \in Repositories : r # mine => (Now(r) <=> Excused(r))
  BY <1>2, <1>6 DEF Excused
<1>13. Now(mine) <=> Excuse(failures, history, ran[Everywhere])
  BY <1>2, <1>6
<1> HIDE DEF Now
<1>14. ASSUME NEW r \in Repositories, r >= next
       PROVE  Now(r) \/ Ran(workflow, ran'[r], Start, 1)
  BY <1>9, <1>14, SomeRepository, <1>1, <1>6, <1>12 DEF Told, Accounted
<1>15. ASSUME NEW r \in Repositories, r < next, Free(r)'
       PROVE  Now(r) \/ results'[r].failures # <<>> \/ Ran(workflow, ran'[r], at, 1)
  BY <1>15, <1>7, <1>10, <1>6, <1>13, <1>11, <1>1, <1>12 DEF Free, mine, Told, Accounted
<1>16. ASSUME NEW v \in Workers, Busy(v)'
       PROVE  \/ Now(workers'[v].repository)
              \/ workers'[v].result.failures # <<>>
              \/ /\ ~workers'[v].failed
                 /\ RanBy(workflow, Start, workers'[v], ran'[workers'[v].repository])
  BY <1>7, <1>10, <1>16, <1>13, <1>6, <1>11, <1>3, <1>8, <1>1, <1>12 DEF mine, WorkerType, Told, Accounted
<1>17. pc = "wait" => next > RepositoryCount
  BY DEF Told, Accounted
<1>18. Accounted'
  BY <1>1, <1>2, <1>5, <1>14, <1>15, <1>16, <1>17 DEF Accounted, Excused, Now
<1>19. returned = "no"
  BY <1>1 DEF Told
<1>20. pc \in {"dispatch", "wait"} /\ at <= Len(stages) => operation = 1
  BY DEF Told
<1>21. QED BY <1>2, <1>18, <1>19, <1>20 DEF Told

\* A worker has run what it could of its repository, or a failure or a skip is
\* known of.
Tells(flow, start, told, overall, worker, history) ==
    \/ Excuse(told, history, overall)
    \/ worker.result.failures # <<>>
    \/ ~worker.failed /\ RanBy(flow, start, worker, history)

\* A worker opens its repository: nothing to tell.
LEMMA TellsOpens ==
    ASSUME NEW flow, NEW start, NEW told, NEW overall, NEW worker \in WorkerType, NEW history,
           Tells(flow, start, told, overall, worker, history), worker.pc = "taken"
    PROVE  Tells(flow, start, told, overall, [worker EXCEPT !.pc = "stage"], history)
<1> DEFINE after == [worker EXCEPT !.pc = "stage"]
<1>1. /\ after.pc = "stage" /\ after.position = worker.position
      /\ after.failed = worker.failed /\ after.result = worker.result
  BY DEF WorkerType
<1> HIDE DEF after
<1>2. EndedOf(after, history) = EndedOf(worker, history)
  BY <1>1 DEF EndedOf
<1>3. RanBy(flow, start, worker, history) => RanBy(flow, start, after, history)
  BY <1>1, <1>2 DEF RanBy
<1>4. QED BY <1>1, <1>3 DEF Tells, after

\* It enters a stage, or gives the repository up with something to tell.
LEMMA TellsEnters ==
    ASSUME NEW flow, NEW start, NEW told, NEW overall, NEW worker \in WorkerType, NEW history,
           Tells(flow, start, told, overall, worker, history), worker.pc = "stage"
    PROVE  Tells(flow, start, told, overall,
                 [worker EXCEPT !.pc = "operation", !.operation = 1], history)
<1> DEFINE after == [worker EXCEPT !.pc = "operation", !.operation = 1]
<1>1. /\ after.pc = "operation" /\ after.position = worker.position /\ after.operation = 1
      /\ after.failed = worker.failed /\ after.result = worker.result
  BY DEF WorkerType
<1> HIDE DEF after
<1>2. EndedOf(after, history) = EndedOf(worker, history)
  BY <1>1 DEF EndedOf
<1>3. RanBy(flow, start, worker, history) => RanBy(flow, start, after, history)
  BY <1>1, <1>2 DEF RanBy
<1>4. QED BY <1>1, <1>3 DEF Tells, after

\* A worker that is done with its repository without a failure has run it all.
LEMMA TellsEnds ==
    ASSUME NEW flow, NEW start, NEW length, Span(flow, start, length), NEW told, NEW overall,
           NEW worker \in WorkerType, NEW history \in Seq(Entry),
           Doing(flow, start, length, worker, history),
           Tells(flow, start, told, overall, worker, history), worker.pc = "stage",
           worker.position > length \/ worker.failed
    PROVE  \/ Excuse(told, history, overall)
           \/ worker.result.failures # <<>>
           \/ Ran(flow, history, start + length, 1)
<1> SUFFICES ASSUME ~worker.failed, RanBy(flow, start, worker, history)
             PROVE  Ran(flow, history, start + length, 1)
  BY DEF Tells
<1>1. worker.position \in 1 .. length + 1 /\ worker.position > length
  BY DEF Doing
<1>2. start + worker.position - 1 = start + length
  BY <1>1 DEF Span
<1>3. EndedOf(worker, history) = Len(history)
  BY DEF EndedOf
<1>4. QED BY <1>2, <1>3 DEF RanBy, Ran

\* It begins the next step of its stage.
LEMMA TellsBegins ==
    ASSUME NEW flow, NEW start, NEW told, NEW overall, NEW worker \in WorkerType,
           NEW history \in Seq(Entry), NEW step \in Steps,
           Tells(flow, start, told, overall, worker, history), worker.pc = "operation"
    PROVE  Tells(flow, start, told, overall, [worker EXCEPT !.pc = "running"],
                 Started(history, step))
<1> DEFINE after == [worker EXCEPT !.pc = "running"]
           entry == [step |-> step, verdict |-> "running"]
           longer == Append(history, entry)
<1>1. /\ after.pc = "running" /\ after.position = worker.position
      /\ after.operation = worker.operation
      /\ after.failed = worker.failed /\ after.result = worker.result
  BY DEF WorkerType
<1>2. entry \in Entry
  BY DEF Entry
<1> HIDE DEF after, entry
<1>3. /\ Spoilt(history) => Spoilt(longer)
      /\ AllOk(longer, Len(history)) <=> AllOk(history, Len(history))
      /\ Len(longer) = Len(history) + 1 /\ Len(history) \in Nat
  BY <1>2, AppendedIs
<1>4. \A k, p : AllRan(flow, history, k, p) => AllRan(flow, longer, k, p)
  BY <1>2, HasMore
<1> HIDE DEF longer
<1>5. EndedOf(after, longer) = Len(history) /\ EndedOf(worker, history) = Len(history)
  BY <1>1, <1>3 DEF EndedOf
<1>6. RanBy(flow, start, worker, history) => RanBy(flow, start, after, longer)
  BY <1>1, <1>3, <1>4, <1>5 DEF RanBy
<1>7. Tells(flow, start, told, overall, after, longer)
  BY <1>1, <1>3, <1>6 DEF Tells, Excuse
<1>8. QED BY <1>7 DEF after, longer, entry, Started

\* It leaves a stage with nothing left in it.
LEMMA TellsLeaves ==
    ASSUME NEW flow, NEW start, NEW length, Span(flow, start, length), NEW told, NEW overall,
           NEW worker \in WorkerType, NEW history \in Seq(Entry),
           Doing(flow, start, length, worker, history),
           Tells(flow, start, told, overall, worker, history), worker.pc = "operation",
           worker.operation > Len(PlanOperationStages(flow)[start + worker.position - 1])
    PROVE  Tells(flow, start, told, overall,
                 [worker EXCEPT !.pc = "stage", !.position = @ + 1], history)
<1> DEFINE after == [worker EXCEPT !.pc = "stage", !.position = @ + 1]
           stage == start + worker.position - 1
<1>1. /\ after.pc = "stage" /\ after.position = worker.position + 1
      /\ after.failed = worker.failed /\ after.result = worker.result
  BY DEF WorkerType
<1> HIDE DEF after
<1>2. /\ worker.position \in 1 .. length /\ Kept(flow)
      /\ stage \in 1 .. Len(PlanOperationStages(flow))
      /\ start + after.position - 1 = stage + 1 /\ worker.operation \in Nat
  <2>1. worker.position \in 1 .. length
    BY DEF Doing
  <2>2. stage \in 1 .. Len(PlanOperationStages(flow))
    BY <2>1, StagesAre DEF Span
  <2>3. start + (worker.position + 1) - 1 = stage + 1
    BY <2>1 DEF Span
  <2>4. QED BY <1>1, <2>1, <2>2, <2>3 DEF Span, WorkerType
<1>3. EndedOf(after, history) = EndedOf(worker, history)
  BY <1>1 DEF EndedOf
<1>4. worker.operation > Len(PlanOperationStages(flow)[stage])
  OBVIOUS
<1> HIDE DEF stage
<1>5. AllRan(flow, history, stage, worker.operation) => AllRan(flow, history, stage + 1, 1)
  BY <1>2, <1>4, RanStage
<1>6. RanBy(flow, start, worker, history) => RanBy(flow, start, after, history)
  BY <1>1, <1>2, <1>3, <1>5 DEF stage, RanBy
<1>7. QED BY <1>1, <1>6 DEF Tells, after

\* It gives the repository back with what it has to tell.
LEMMA TellsFinishes ==
    ASSUME NEW flow, NEW start, NEW length, Span(flow, start, length), NEW told, NEW overall,
           NEW worker \in WorkerType, NEW history \in Seq(Entry), InSequence(flow, history),
           Doing(flow, start, length, worker, history),
           Tells(flow, start, told, overall, worker, history), worker.pc = "running",
           NEW verdict \in Verdicts \ {"cancelled"}
    PROVE  LET step == PlanOperationStages(flow)[start + worker.position - 1][worker.operation]
           IN Tells(flow, start, told, overall, AfterVerdict(worker, step, verdict),
                    Ended(history, verdict))
<1> DEFINE plan == PlanOperationStages(flow)
           stage == start + worker.position - 1
           step == plan[stage][worker.operation]
           ended == Ended(history, verdict)
           after == AfterVerdict(worker, step, verdict)
           n == Len(history)
<1>1. /\ worker.position \in 1 .. length /\ worker.operation \in 1 .. Len(plan[stage]) + 1
      /\ worker.operation <= Len(plan[stage]) /\ history # <<>>
      /\ history[n] = [step |-> step, verdict |-> "running"]
  BY DEF Doing
<1>2. Kept(flow) /\ stage \in 1 .. Len(plan)
  <2>1. worker.position \in 1 .. length
    BY <1>1
  <2>2. Kept(flow) /\ Len(plan) \in Nat
    BY StagesAre DEF Span
  <2>3. QED BY <2>1, <2>2 DEF Span
<1>3. worker.operation \in 1 .. Len(plan[stage]) /\ worker.operation \in Nat
  BY <1>2, PlacesAre, <1>1 DEF WorkerType
<1>4. step \in Steps
  BY <1>2, <1>3, PlacesAre
<1>5. history[n].verdict = "running" /\ history[n].step = step /\ n \in Nat /\ n \in DOMAIN history
  BY <1>1
<1>6. /\ ended \in Seq(Entry) /\ Len(ended) = n
      /\ Spoilt(history) => Spoilt(ended)
      /\ verdict \in {"skipped", "masked"} => Spoilt(ended)
      /\ \A s : Has(history, s) <=> Has(ended, s)
      /\ AllOk(history, n - 1) /\ verdict = "ok" => AllOk(ended, n)
  BY <1>1, <1>5, EndedIs
<1>7. /\ worker.result.failures # <<>> => after.result.failures # <<>>
      /\ verdict = "failed" => after.result.failures # <<>>
  BY VerdictTells
<1> HIDE DEF step, stage
<1>8. verdict = "ok" => /\ after.pc = "operation" /\ after.position = worker.position
                        /\ after.operation = worker.operation + 1
                        /\ after.failed = worker.failed
  BY <1>4, VerdictIs DEF WorkerType
<1> HIDE DEF ended, after, plan, n
<1>9. CASE verdict = "ok"
  <2> SUFFICES ASSUME ~worker.failed, RanBy(flow, start, worker, history),
                      ~Excuse(told, history, overall), worker.result.failures = <<>>
               PROVE  Tells(flow, start, told, overall, after, ended)
    BY <1>6, <1>7 DEF Excuse, Tells, after, ended, step, stage, plan
  <2>1. AllOk(history, n - 1) /\ AllRan(flow, history, stage, worker.operation)
    BY DEF RanBy, EndedOf, stage, n
  <2>2. Has(history, plan[stage][worker.operation])
    BY <1>5 DEF Has, step
  <2>3. AllRan(flow, history, stage, worker.operation + 1)
    BY <1>2, <1>3, <2>1, <2>2, RanFurther DEF plan
  <2>4. AllRan(flow, ended, stage, worker.operation + 1)
    BY <1>6, <2>3 DEF AllRan
  <2>5. EndedOf(after, ended) = n
    BY <1>6, <1>8, <1>9 DEF EndedOf
  <2>6. start + after.position - 1 = stage
    BY <1>8, <1>9 DEF stage
  <2>7. RanBy(flow, start, after, ended)
    BY <1>6, <1>8, <1>9, <2>1, <2>4, <2>5, <2>6 DEF RanBy
  <2>8. QED BY <1>8, <1>9, <2>7 DEF Tells
<1>10. CASE verdict = "failed"
  BY <1>7, <1>10 DEF Tells, after, step, stage, plan
<1>11. CASE verdict \in {"skipped", "masked"}
  BY <1>6, <1>11 DEF Tells, Excuse, ended
<1>12. QED BY <1>9, <1>10, <1>11 DEF Verdicts, after, ended, step, stage, plan

\* Nothing needs to be told of a run that was cancelled.
LEMMA QuietTold ==
    ASSUME cancelled', returned' = "no",
           pc' \in {"dispatch", "wait"} /\ at' <= Len(stages') => operation' = 1
    PROVE  Told'
  BY DEF Told

\* Workers and histories are as before.
LEMMA SameTold ==
    ASSUME Told, UNCHANGED <<workflow, stages, cancelled, returned, operation, at>>,
           UNCHANGED <<pc, batch, next, workers, results, failures, ran>>
    PROVE  Told'
BY DEF Start, Busy, Free, Accounted, Excused, Told

\* Cancellation ends the account.
LEMMA CancelTold ==
    ASSUME Told, Cancel
    PROVE  Told'
BY DEF Cancel, planned, runner, outcome, Told

\* Whatever a worker does keeps the account.
LEMMA WorkerTold ==
    ASSUME RunInv, IInv, Told, NEW w \in Workers, Worker(w)
    PROVE  Told'
<1> DEFINE mine == workers[w]
           history == ran[mine.repository]
<1>1. pc \in {"dispatch", "wait"}
  BY InBatch DEF Worker, WorkerEnds, Open, EnterStage, StoreResult, BeginOperation, LeaveStage, EndOperation
<1>2. Steady
  BY DEF Worker, WorkerEnds, Open, EnterStage, StoreResult, BeginOperation, LeaveStage, EndOperation, Steady
<1>3. UNCHANGED <<workflow, stages, cancelled, pc, at, operation, batch, next, failures, returned>>
  BY <1>2 DEF Steady, planned, runner, outcome
<1>4. /\ workers \in [Workers -> WorkerType] /\ results \in [Repositories -> Results]
      /\ ran \in [Repositories \cup {Everywhere} -> Seq(Entry)]
  BY DEF RunInv, TypeOK, Entry
<1>5. mine \in WorkerType /\ mine.repository \in Repositories
  BY <1>4 DEF WorkerType
<1>6. history \in Seq(Entry) /\ InSequence(workflow, history)
  BY <1>4, <1>5 DEF RunInv, Progress
<1>7. /\ Kept(workflow) /\ stages = PlanOperationStages(workflow) /\ Span(workflow, Start, Len(batch))
      /\ Start + Len(batch) = at /\ Len(batch) \in Nat /\ Start \in Nat
  BY <1>1, InRun
<1>8. Busy(w) => Doing(workflow, Start, Len(batch), mine, history)
  BY <1>1 DEF RunInv, Progress
<1>9. ran = [ran EXCEPT ![mine.repository] = history]
  BY <1>4, <1>5
<1>10. mine.position \in 1 .. Len(batch) => StageOf(w) = stages[Start + mine.position - 1]
  BY DEF RunInv, Batching, StageOf
<1> DEFINE told == failures
           overall == ran[Everywhere]
<1>11. Busy(w) /\ ~cancelled => Tells(workflow, Start, told, overall, mine, history)
  BY <1>1 DEF Told, Accounted, Excused, Tells
<1>12. CASE cancelled
  BY <1>1, <1>3, <1>12, QuietTold DEF Told
<1>13. CASE ~cancelled
  <2>1. CASE WorkerEnds(w)
    BY <2>1, <1>3, <1>4, IdleIsRecord, <1>13, <1>1 DEF WorkerEnds, Start, Busy, Free, Told, Accounted, Excused
  <2>2. CASE Open(w)
    <3> DEFINE after == [mine EXCEPT !.pc = "stage"]
    <3>1. mine.pc = "taken" /\ Busy(w) /\ results' = results /\ ran' = ran
      BY <2>2 DEF Open, Busy
    <3>2. workers' = [workers EXCEPT ![w] = after]
      BY <1>4, <1>13, <2>2 DEF Open
    <3>3. after \in WorkerType /\ after.pc = "stage" /\ after.repository = mine.repository
      BY <1>5 DEF WorkerType, WorkerPCs
    <3>4. Tells(workflow, Start, told, overall, after, history)
      BY <1>5, <1>11, <1>13, <3>1, TellsOpens
    <3> HIDE DEF history, after
    <3>5. ran' = [ran EXCEPT ![workers[w].repository] = history]
      BY <1>9, <3>1
    <3>6. QED BY <1>2, <1>6, <1>13, <3>1, <3>2, <3>3, <3>4, <3>5, OneTold DEF Tells
  <2>3. CASE EnterStage(w)
    <3> DEFINE after == [mine EXCEPT !.pc = "operation", !.operation = 1]
    <3>1. mine.pc = "stage" /\ Busy(w) /\ results' = results /\ ran' = ran
      BY <2>3 DEF EnterStage, Busy
    <3>2. workers' = [workers EXCEPT ![w] = after]
      BY <1>4, <2>3 DEF EnterStage
    <3>3. after \in WorkerType /\ after.pc = "operation" /\ after.repository = mine.repository
      BY <1>5 DEF WorkerType, WorkerPCs
    <3>4. Tells(workflow, Start, told, overall, after, history)
      BY <1>5, <1>11, <1>13, <3>1, TellsEnters
    <3> HIDE DEF history, after
    <3>5. ran' = [ran EXCEPT ![workers[w].repository] = history]
      BY <1>9, <3>1
    <3>6. QED BY <1>2, <1>6, <1>13, <3>1, <3>2, <3>3, <3>4, <3>5, OneTold DEF Tells
  <2>4. CASE StoreResult(w)
    <3>1. /\ mine.pc = "stage" /\ Busy(w) /\ ran' = ran /\ workers' = [workers EXCEPT ![w] = Idle]
          /\ results' = [results EXCEPT ![mine.repository] = mine.result]
          /\ mine.position > Len(batch) \/ mine.failed
      BY <1>13, <2>4 DEF StoreResult, Busy
    <3>2. /\ results'[mine.repository] = mine.result
          /\ \A r \in Repositories : r # mine.repository => results'[r] = results[r]
      BY <1>4, <1>5, <3>1
    <3>3. \/ Excuse(told, history, overall)
          \/ mine.result.failures # <<>>
          \/ Ran(workflow, history, Start + Len(batch), 1)
      <4>1. Doing(workflow, Start, Len(batch), mine, history)
        BY <1>8, <3>1
      <4>2. Tells(workflow, Start, told, overall, mine, history)
        BY <1>11, <1>13, <3>1
      <4> HIDE DEF mine, history, told, overall
      <4>3. QED BY <1>5, <1>6, <1>7, <3>1, <4>1, <4>2, TellsEnds
    <3> HIDE DEF history
    <3>4. ran' = [ran EXCEPT ![workers[w].repository] = history]
      BY <1>9, <3>1
    <3>5. QED BY <1>2, <1>6, <1>7, <1>13, <3>1, <3>2, <3>3, <3>4, IdleType, IdleIsRecord, OneTold
  <2>5. CASE BeginOperation(w)
    <3> DEFINE stage == Start + mine.position - 1
               step == PlanOperationStages(workflow)[stage][mine.operation]
               longer == Started(history, step)
               after == [mine EXCEPT !.pc = "running"]
    <3>1. mine.pc = "operation" /\ Busy(w) /\ results' = results
      BY <2>5 DEF BeginOperation, Busy
    <3>2. /\ mine.position \in 1 .. Len(batch)
          /\ mine.operation \in 1 .. Len(PlanOperationStages(workflow)[stage]) + 1
      BY <1>8, <3>1 DEF Doing
    <3>3. StageOf(w) = PlanOperationStages(workflow)[stage]
      BY <1>7, <1>10, <3>2
    <3>4. mine.operation <= Len(PlanOperationStages(workflow)[stage])
      BY <2>5, <3>3 DEF BeginOperation
    <3>5. workers' = [workers EXCEPT ![w] = after]
      BY <1>4, <2>5 DEF BeginOperation
    <3>6. ran' = [ran EXCEPT ![mine.repository] = longer]
      BY <2>5, <3>3 DEF BeginOperation
    <3>7. after \in WorkerType /\ after.pc = "running" /\ after.repository = mine.repository
      BY <1>5 DEF WorkerType, WorkerPCs
    <3>8. step \in Steps /\ longer \in Seq(Entry)
      <4>1. stage \in 1 .. Len(PlanOperationStages(workflow))
        BY <1>7, <3>2, StagesAre, SMTT(20) DEF Span
      <4>2. mine.operation \in 1 .. Len(PlanOperationStages(workflow)[stage])
        BY <1>7, <3>2, <3>4, <4>1, PlacesAre
      <4>3. step \in Steps
        BY <1>7, <4>1, <4>2, PlacesAre
      <4> HIDE DEF step, history
      <4>4. QED BY <1>6, <4>3 DEF Started, Entry
    <3>9. Tells(workflow, Start, told, overall, after, longer)
      <4>1. Tells(workflow, Start, told, overall, mine, history)
        BY <1>11, <1>13, <3>1
      <4> HIDE DEF step, history
      <4>2. QED BY <1>5, <1>6, <3>1, <3>8, <4>1, TellsBegins
    <3> HIDE DEF after, longer, history
    <3>10. QED BY <1>2, <1>13, <3>1, <3>5, <3>6, <3>7, <3>8, <3>9, OneTold DEF Tells
  <2>6. CASE LeaveStage(w)
    <3> DEFINE after == [mine EXCEPT !.pc = "stage", !.position = @ + 1]
               stage == Start + mine.position - 1
    <3>1. mine.pc = "operation" /\ Busy(w) /\ results' = results /\ ran' = ran
      BY <2>6 DEF LeaveStage, Busy
    <3>2. workers' = [workers EXCEPT ![w] = after]
      BY <1>4, <2>6 DEF LeaveStage
    <3>3. after \in WorkerType /\ after.pc = "stage" /\ after.repository = mine.repository
      <4> HIDE DEF mine
      <4>1. QED BY <1>5, MovesOn
    <3>4. mine.operation > Len(PlanOperationStages(workflow)[stage])
      BY <1>8, <3>1, <1>7, <1>10, <1>13, <2>6 DEF Doing, LeaveStage
    <3>5. Tells(workflow, Start, told, overall, after, history)
      BY <1>5, <1>6, <1>7, <1>8, <1>11, <1>13, <3>1, <3>4, TellsLeaves
    <3> HIDE DEF history, after
    <3>6. ran' = [ran EXCEPT ![workers[w].repository] = history]
      BY <1>9, <3>1
    <3>7. QED BY <1>2, <1>6, <1>13, <3>1, <3>2, <3>3, <3>5, <3>6, OneTold DEF Tells
  <2>7. CASE EndOperation(w)
    <3> DEFINE stage == Start + mine.position - 1
               step == PlanOperationStages(workflow)[stage][mine.operation]
    <3>1. mine.pc = "running" /\ Busy(w) /\ results' = results
      BY <2>7 DEF EndOperation, Busy
    <3>2. mine.position \in 1 .. Len(batch)
      BY <1>8, <3>1 DEF Doing
    <3>3. StageOf(w) = PlanOperationStages(workflow)[stage]
      BY <1>7, <1>10, <3>2
    <3>4. PICK verdict \in Verdicts :
            /\ verdict = "cancelled" => cancelled
            /\ workers' = [workers EXCEPT ![w] =
                          AfterVerdict(mine, StageOf(w)[mine.operation], verdict)]
            /\ ran' = [ran EXCEPT ![mine.repository] = Ended(history, verdict)]
      BY <1>4, <1>5, <2>7 DEF EndOperation
    <3> DEFINE ended == Ended(history, verdict)
               after == AfterVerdict(mine, step, verdict)
    <3>5. workers' = [workers EXCEPT ![w] = after] /\ ran' = [ran EXCEPT ![mine.repository] = ended]
      BY <3>3, <3>4
    <3>6. /\ ended \in Seq(Entry)
          /\ after \in WorkerType /\ after.pc \in {"stage", "operation"}
          /\ after.repository = mine.repository
      BY <1>5, <1>6, <1>7, <1>8, <3>1, DoingFinishes
    <3>7. verdict \in Verdicts \ {"cancelled"}
      BY <1>13, <3>4
    <3>8. Tells(workflow, Start, told, overall, after, ended)
      BY <1>5, <1>6, <1>7, <1>8, <1>11, <1>13, <3>1, <3>7, TellsFinishes
    <3> HIDE DEF after, ended, history
    <3>9. QED BY <1>2, <1>13, <3>1, <3>5, <3>6, <3>8, OneTold DEF Tells
  <2>8. QED
    BY <2>1, <2>2, <2>3, <2>4, <2>5, <2>6, <2>7 DEF Worker
<1>14. QED BY <1>12, <1>13

\* The next repository goes to a worker that was free.
LEMMA HandOverTold ==
    ASSUME RunInv, IInv, Told, NEW w \in Workers, HandOver(w)
    PROVE  Told'
<1> DEFINE taken == [Idle EXCEPT !.pc = "taken", !.repository = next]
<1>1. /\ pc = "dispatch" /\ next <= RepositoryCount /\ workers[w].pc = "idle"
      /\ workers' = [workers EXCEPT ![w] = taken] /\ next' = next + 1
      /\ UNCHANGED <<workflow, requested, stages, cancelled, pc, at, operation, batch, results,
                     operations, failures, returned, ran>>
  BY DEF HandOver, planned, outcome
<1>2. /\ taken = [pc |-> "taken", repository |-> next, position |-> 1, operation |-> 1,
                  failed |-> FALSE, result |-> NoResult]
  <2>1. taken = [Idle EXCEPT !.pc = "taken", !.repository = next]
    OBVIOUS
  <2> HIDE DEF taken
  <2>2. Idle = [pc |-> "idle", repository |-> 1, position |-> 1, operation |-> 1,
                failed |-> FALSE, result |-> NoResult]
    BY DEF Idle
  <2>3. QED BY <2>1, <2>2
<1> HIDE DEF taken
<1>3. workers \in [Workers -> WorkerType] /\ next \in 1 .. RepositoryCount + 1
  BY DEF RunInv, TypeOK
<1>4. next \in Repositories /\ next \in Nat
  BY <1>1, <1>3, SomeRepository DEF Repositories
<1>5. workers'[w] = taken /\ \A v \in Workers : v # w => workers'[v] = workers[v]
  BY <1>1, <1>3
<1>6. Start' = Start /\ Start \in Nat
  BY <1>1, InRun DEF Start
<1>7. \A v \in Workers : v # w => (Busy(v)' <=> Busy(v))
  BY <1>5 DEF Busy
<1>8. ~Busy(w) /\ Busy(w)'
  BY <1>1, <1>2, <1>5 DEF Busy
<1>9. returned = "no" /\ (at <= Len(stages) => operation = 1)
  BY <1>1 DEF Told
<1>10. CASE cancelled
  BY <1>1, <1>9, <1>10, QuietTold
<1>11. CASE ~cancelled
  <2>1. Accounted
    BY <1>11 DEF Told
  <2>2. \A r \in Repositories : r >= next => Excused(r) \/ Ran(workflow, ran[r], Start, 1)
    BY <1>1, <2>1 DEF Accounted
  <2>3. \A r \in Repositories : r >= next + 1 => r >= next
    BY <1>4, SomeRepository
  <2>4. \A r \in Repositories : r >= next' => Excused(r) \/ Ran(workflow, ran[r], Start, 1)
    BY <1>1, <2>2, <2>3
  <2>5. ASSUME NEW r \in Repositories, r < next', Free(r)'
        PROVE  Excused(r) \/ results[r].failures # <<>> \/ Ran(workflow, ran[r], at, 1)
    BY <1>2, <1>5, <1>8, <2>5, <1>1, <1>4, SomeRepository, <1>7, <2>1 DEF Free, Accounted
  <2>6. Excused(next) \/ RanBy(workflow, Start, taken, ran[next])
    BY <1>4, <2>2, <1>2, <1>6 DEF EndedOf, Ran, RanBy
  <2>7. ASSUME NEW v \in Workers, Busy(v)'
        PROVE  \/ Excused(workers'[v].repository)
               \/ workers'[v].result.failures # <<>>
               \/ /\ ~workers'[v].failed
                  /\ RanBy(workflow, Start, workers'[v], ran[workers'[v].repository])
    BY <1>2, <1>5, <2>6, <1>1, <1>7, <2>1, <2>7 DEF Accounted
  <2>8. Accounted'
    BY <1>1, <1>6, <2>4, <2>5, <2>7 DEF Accounted, Excused
  <2>9. QED BY <1>1, <1>9, <2>8 DEF Told
<1>12. QED BY <1>10, <1>11

\* A planned workflow has run nothing.
LEMMA PlanTold ==
    ASSUME RunInv, Told, Plan
    PROVE  Told'
BY RanNothing DEF Plan, RunInv, Planning, Start, Told, Accounted, Ran, AllOk, Kept

\* A stage that joins the batch is run later.
LEMMA CollectStageTold ==
    ASSUME RunInv, Told, CollectStage
    PROVE  Told'
BY InRun DEF CollectStage, planned, outcome, Start, Told, Accounted, Excused

\* A batch starts: no repository has been handed over.
LEMMA StartTold ==
    ASSUME RunInv, Told, pc = "stage", StartPipelines, at <= Len(stages) => operation' = 1,
           UNCHANGED <<planned, cancelled, at, batch, outcome, ran>>
    PROVE  Told'
BY IdleIsRecord DEF StartPipelines, planned, outcome, Told, Busy, Start, Repositories, Accounted, Excused

\* So is the batch before a stage that runs by itself.
LEMMA ReachGlobalStageTold ==
    ASSUME RunInv, Told, ReachGlobalStage
    PROVE  Told'
BY StartTold, InRun DEF ReachGlobalStage, planned, outcome, Told, Accounted, Excused

\* And the last batch.
LEMMA FinishStagesTold ==
    ASSUME RunInv, Told, FinishStages
    PROVE  Told'
BY InRun, StartTold DEF FinishStages, planned, outcome, Told, Accounted, Excused

\* Without cancellation the dispatcher stops after the last repository.
LEMMA StopDispatchingTold ==
    ASSUME RunInv, Told, StopDispatching
    PROVE  Told'
BY DEF StopDispatching, planned, outcome, Start, Busy, Free, Told, Accounted, Excused

\* A failure that a worker found is among those of the batch.
LEMMA BatchTells ==
    ASSUME results \in [Repositories -> Results], NEW r \in Repositories,
           results[r].failures # <<>>
    PROVE  BatchFailures # <<>>
<1> DEFINE S == [where: Nat, step: Steps]
           parts == [i \in 1 .. RepositoryCount |-> results[i].failures]
<1>1. \A i \in 1 .. RepositoryCount : results[i].failures \in Seq(S)
  BY DEF Results, Repositories
<1> HIDE DEF S
<1>2. parts \in Seq(Seq(S)) /\ Len(parts) = RepositoryCount
  BY SomeRepository, <1>1
<1>3. r \in 1 .. Len(parts) /\ parts[r] # <<>>
  BY <1>2 DEF Repositories
<1>4. BatchFailures = FlattenSeq(parts)
  BY DEF BatchFailures, Repositories
<1> HIDE DEF parts
<1>5. QED BY <1>2, <1>3, <1>4, FlattenedKeeps

\* The failures of the results become failures of the run.
LEMMA CollectResultsTold ==
    ASSUME RunInv, IInv, Told, CollectResults
    PROVE  Told'
<1>1. /\ pc = "wait" /\ \A w \in Workers : workers[w].pc = "off"
      /\ failures' = failures \o BatchFailures
      /\ pc' = IF at > Len(stages) \/ cancelled THEN "return" ELSE "global"
      /\ UNCHANGED <<workflow, stages, cancelled, at, operation, returned, ran>>
  BY DEF CollectResults, planned
<1>2. at \in Nat /\ Len(stages) \in Nat /\ at <= Len(stages) + 1 /\ next \in Nat
  BY <1>1, InRun DEF IInv, Shape
<1>3. returned = "no" /\ (at <= Len(stages) => operation = 1) /\ (~cancelled => Accounted)
  BY <1>1 DEF Told
<1>4. /\ failures \in Seq([where: Nat, step: Steps]) /\ BatchFailures \in Seq([where: Nat, step: Steps])
      /\ results \in [Repositories -> Results]
  BY BatchIsTyped DEF RunInv, TypeOK, Results
<1>5. failures' = <<>> => failures = <<>> /\ BatchFailures = <<>>
  BY <1>1, <1>4, JoinedEmpty
<1>6. ASSUME NEW r \in Repositories, ~cancelled
      PROVE  Excuse(failures', ran[r], ran[Everywhere]) \/ Ran(workflow, ran[r], at, 1)
  BY <1>1, <1>2, <1>3, <1>6, SomeRepository, <1>5, <1>4, BatchTells DEF Free, Busy, Accounted, Repositories,
    Excused, Excuse
<1>7. ASSUME ~cancelled PROVE Accounted'
  BY <1>1, <1>2, <1>6, <1>7, <1>3 DEF Accounted, Excused
<1>8. pc' \in {"return", "global"}
  BY <1>1
<1>9. QED BY <1>1, <1>3, <1>7, <1>8 DEF Told

\* A step that is run once for all begins.
LEMMA BeginGlobalTold ==
    ASSUME Told, BeginGlobal
    PROVE  Told'
BY DEF BeginGlobal, planned, outcome, Told, Accounted, Excused

\* Its stage has no more steps.
LEMMA LeaveGlobalStageTold ==
    ASSUME RunInv, Told, LeaveGlobalStage
    PROVE  Told'
BY InRun, RanStage DEF LeaveGlobalStage, planned, outcome, RunInv, Batching, Start, Told, Accounted, Ran,
  Excused

\* How a step that is run over all repositories has ended in each.
LEMMA EndingTells ==
    ASSUME NEW verdict \in Endings, "cancelled" \notin Range(verdict)
    PROVE  LET joined == Joined(Range(verdict))
           IN /\ joined \in {"ok", "failed", "skipped", "masked"}
              /\ joined = "ok" => \A r \in Repositories : verdict[r] = "ok"
              /\ joined = "skipped" => \A r \in Repositories : verdict[r] \in {"ok", "skipped"}
<1> DEFINE joined == Joined(Range(verdict))
<1>1. joined \in {"ok", "failed", "skipped", "masked"}
  BY DEF Joined
<1>2. joined \in {"ok", "skipped"} => "failed" \notin Range(verdict) /\ "masked" \notin Range(verdict)
  BY DEF Joined
<1>3. joined = "ok" => "skipped" \notin Range(verdict)
  BY DEF Joined
<1> HIDE DEF joined
<1>4. CASE verdict \in [Repositories -> Verdicts]
  BY <1>4, <1>1, <1>2, <1>3 DEF Range, Verdicts, joined
<1>5. CASE verdict \notin [Repositories -> Verdicts]
  <2>1. PICK stop \in Repositories, other \in {"failed", "cancelled"} :
          verdict = [r \in Repositories |->
                       IF r < stop THEN "ok" ELSE IF r = stop THEN other ELSE "unreached"]
    BY <1>5 DEF Endings
  <2>2. ~(stop < stop)
    BY SomeRepository
  <2>3. verdict[stop] = other /\ stop \in DOMAIN verdict
    BY <2>1, <2>2
  <2>4. other \in Range(verdict)
    BY <2>3 DEF Range
  <2>5. "failed" \in Range(verdict)
    BY <2>4
  <2>6. QED BY <1>1, <1>2, <2>5 DEF joined
<1>6. QED BY <1>4, <1>5

\* It has succeeded everywhere, or told of a failure, a skip or a mask.
LEMMA EndGlobalTold ==
    ASSUME RunInv, Told, EndGlobal
    PROVE  Told'
<1> DEFINE step == stages[at][operation]
<1>1. PICK verdict \in Endings :
        LET joined == Joined(Range(verdict))
        IN /\ "cancelled" \in Range(verdict) => cancelled
           /\ ran' = [r \in DOMAIN ran |->
                        LET own == IF r = Everywhere THEN joined ELSE verdict[r]
                        IN IF own = "unreached" THEN ran[r]
                           ELSE Append(ran[r], [step |-> step, verdict |-> own])]
           /\ IF joined = "cancelled"
              THEN /\ pc' = "stage" /\ at' = at + 1
                   /\ UNCHANGED <<operation, operations, failures>>
              ELSE /\ pc' = "global" /\ operation' = operation + 1
                   /\ operations' = Append(operations,
                        [where |-> Everywhere, step |-> step, failed |-> joined # "ok"])
                   /\ failures' = IF joined = "failed"
                                  THEN Append(failures, [where |-> Everywhere, step |-> step])
                                  ELSE failures
                   /\ UNCHANGED at
  BY DEF EndGlobal
<1> DEFINE joined == Joined(Range(verdict))
<1>2. pc = "running" /\ UNCHANGED <<workflow, stages, cancelled, batch, returned>>
  BY DEF EndGlobal, planned
<1>3. returned = "no" /\ (~cancelled => Accounted)
  BY <1>2 DEF Told
<1>4. joined \in Verdicts
  BY EndingIs
<1>5. pc' \in {"stage", "global"}
  <2> HIDE DEF step
  <2>1. QED BY <1>1
<1>6. CASE cancelled
  BY <1>2, <1>3, <1>5, <1>6, QuietTold
<1>7. CASE ~cancelled
  <2>1. "cancelled" \notin Range(verdict)
    <3> HIDE DEF step
    <3>1. QED BY <1>1, <1>7
  <2>2. /\ joined \in {"ok", "failed", "skipped", "masked"}
        /\ joined = "ok" => \A r \in Repositories : verdict[r] = "ok"
        /\ joined = "skipped" => \A r \in Repositories : verdict[r] \in {"ok", "skipped"}
    BY <2>1, EndingTells
  <2> HIDE DEF step, joined
  <2>3. /\ pc' = "global" /\ operation' = operation + 1 /\ at' = at
        /\ failures' = IF joined = "failed"
                       THEN Append(failures, [where |-> Everywhere, step |-> step])
                       ELSE failures
    BY <1>1, <2>2 DEF joined
  <2>4. /\ Kept(workflow) /\ stages = PlanOperationStages(workflow)
        /\ Len(stages) \in Nat /\ at \in Nat /\ at >= 1 /\ operation \in Nat /\ operation >= 1
        /\ ran \in [Repositories \cup {Everywhere} -> Seq(Entry)]
    BY <1>2, InRun DEF RunInv, TypeOK, Entry
  <2>5. at <= Len(stages) /\ operation <= Len(stages[at])
    BY <1>2 DEF RunInv, Batching
  <2>6. at \in 1 .. Len(stages) /\ operation \in 1 .. Len(stages[at])
    BY <2>4, <2>5, PlacesAre
  <2>7. step \in Steps /\ step = PlanOperationStages(workflow)[at][operation]
    BY <2>4, <2>6, PlacesAre DEF step
  <2>8. failures \in Seq([where: Nat, step: Steps])
    BY DEF RunInv, TypeOK, Results
  <2>9. (failures # <<>> => failures' # <<>>) /\ (joined = "failed" => failures' # <<>>)
    BY <2>3, <2>8
  <2>10. /\ Masked(ran[Everywhere]) => Masked(ran'[Everywhere])
         /\ joined = "masked" => Masked(ran'[Everywhere])
    <3> DEFINE entry == [step |-> step, verdict |-> joined]
    <3>1. entry \in Entry /\ entry.verdict = joined
      BY <1>4, <2>7 DEF Entry
    <3>2. Everywhere \in DOMAIN ran /\ joined # "unreached" /\ ran[Everywhere] \in Seq(Entry)
      BY <2>2, <2>4
    <3>3. ran'[Everywhere] = Append(ran[Everywhere], entry)
      BY <1>1, <3>2 DEF joined
    <3> HIDE DEF entry
    <3>4. QED BY <3>1, <3>2, <3>3, AppendedIs
  <2>11. ASSUME NEW r \in Repositories
         PROVE  \/ Excuse(failures', ran'[r], ran'[Everywhere])
                \/ Ran(workflow, ran'[r], at, operation + 1)
    <3> DEFINE entry == [step |-> step, verdict |-> verdict[r]]
               history == ran[r]
               longer == Append(history, entry)
    <3>1. Excused(r) \/ Ran(workflow, history, at, operation)
      BY <1>2, <1>3, <1>7 DEF Accounted
    <3>2. r \in DOMAIN ran /\ r # Everywhere /\ history \in Seq(Entry)
      BY <2>4, SomeRepository
    <3>3. ran'[r] = IF verdict[r] = "unreached" THEN history ELSE longer
      BY <1>1, <3>2
    <3>4. verdict[r] \in Verdicts => entry \in Entry /\ entry.verdict = verdict[r] /\ entry.step = step
      BY <2>7 DEF Entry
    <3>5. verdict[r] \in Verdicts \cup {"unreached"}
      BY EndingIs
    <3> HIDE DEF entry, history
    <3>6. verdict[r] \in Verdicts =>
            /\ Spoilt(history) => Spoilt(longer)
            /\ verdict[r] \in {"skipped", "masked"} => Spoilt(longer)
            /\ Has(longer, step)
            /\ Len(longer) = Len(history) + 1
            /\ AllOk(history, Len(history)) /\ verdict[r] = "ok" => AllOk(longer, Len(longer))
            /\ AllRan(workflow, history, at, operation) => AllRan(workflow, longer, at, operation)
            /\ longer \in Seq(Entry)
      BY <3>2, <3>4, AppendedIs, HasMore
    <3>7. Excused(r) => Excuse(failures', ran'[r], ran'[Everywhere])
      BY <2>9, <2>10, <3>3, <3>5, <3>6 DEF Excused, Excuse, history
    <3>8. CASE joined = "failed"
      BY <2>9, <3>8 DEF Excuse
    <3>9. CASE joined = "masked"
      BY <2>10, <3>9 DEF Excuse
    <3>10. CASE joined \in {"ok", "skipped"} /\ verdict[r] = "skipped"
      BY <3>3, <3>6, <3>10 DEF Excuse, Verdicts
    <3>11. CASE joined \in {"ok", "skipped"} /\ verdict[r] = "ok"
      <4>1. ran'[r] = longer /\ verdict[r] \in Verdicts
        BY <3>3, <3>11 DEF Verdicts
      <4> HIDE DEF longer
      <4>2. ASSUME Ran(workflow, history, at, operation)
            PROVE  Ran(workflow, longer, at, operation + 1)
        BY <2>7, <3>6, <3>11, <4>1, <4>2, <2>4, <2>6, RanFurther DEF Ran
      <4>3. QED BY <3>1, <3>7, <4>1, <4>2
    <3>12. QED
      BY <2>2, <3>8, <3>9, <3>10, <3>11
  <2>12. Accounted'
    BY <1>2, <2>3, <2>11 DEF Accounted, Excused
  <2>13. QED BY <1>2, <1>3, <2>3, <2>12 DEF Told
<1>8. QED BY <1>6, <1>7

\* No failure and no cancellation: every step has run.
LEMMA ReturnTold ==
    ASSUME Told, Return
    PROVE  Told'
BY DEF Return, planned, Told, Accounted, Excused

\* Every step keeps the account.
LEMMA NextTold ==
    ASSUME RunInv, IInv, Told, [Next]_vars
    PROVE  Told'
<1>1. CASE Cancel
  BY <1>1, CancelTold
<1>2. CASE Runner
  BY <1>2, PlanTold, CollectStageTold, ReachGlobalStageTold, FinishStagesTold, StopDispatchingTold,
    CollectResultsTold, BeginGlobalTold, LeaveGlobalStageTold, EndGlobalTold, ReturnTold DEF Runner
<1>3. CASE UNCHANGED vars
  BY <1>3, SameTold DEF vars, planned, runner, outcome
<1>4. ASSUME NEW w \in Workers, HandOver(w) PROVE Told'
  BY <1>4, HandOverTold
<1>5. ASSUME NEW w \in Workers, Worker(w) PROVE Told'
  BY <1>5, WorkerTold
<1>6. QED
  BY <1>1, <1>2, <1>3, <1>4, <1>5 DEF Next, Done

\* What is told of a run that returned no error.
LEMMA ToldMeansAllRan ==
    ASSUME RunInv, Told
    PROVE  OkMeansAllRan
<1> SUFFICES ASSUME returned = "ok", NEW r \in Repositories
             PROVE  \/ \E e \in Range(ran[Everywhere]) : e.verdict = "masked"
                    \/ \E e \in Range(ran[r]) : e.verdict \in {"skipped", "masked"}
                    \/ /\ {e.step : e \in Range(ran[r])} = Steps
                       /\ \A e \in Range(ran[r]) : e.verdict = "ok"
  BY DEF OkMeansAllRan
<1>1. pc = "done" /\ failures = <<>>
      /\ (Excused(r) \/ Ran(workflow, ran[r], Len(stages) + 1, 1))
  BY DEF Told
<1>2. Kept(workflow) /\ stages = PlanOperationStages(workflow)
  BY <1>1 DEF RunInv, Planning, Kept
<1>3. ran[r] \in Seq(Entry)
  BY DEF RunInv, TypeOK, Entry
<1>4. CASE Excused(r)
  BY <1>1, <1>4 DEF Excused, Excuse, Spoilt, Masked, Range
<1>5. CASE Ran(workflow, ran[r], Len(stages) + 1, 1)
  <2> DEFINE history == ran[r]
  <2>1. \A s \in Steps : Has(history, s)
    BY <1>2, <1>5, RanAll DEF Ran
  <2>2. \A i \in DOMAIN history : history[i].verdict = "ok"
    BY <1>3, <1>5 DEF Ran, AllOk
  <2>3. \A i \in DOMAIN history : history[i].step \in Steps
    <3>1. \A i \in DOMAIN history : history[i] \in Entry
      BY <1>3
    <3>2. QED BY <3>1 DEF Entry
  <2> HIDE DEF history
  <2>4. \A e \in Range(history) : e.verdict = "ok" /\ e.step \in Steps
    BY <2>2, <2>3 DEF Range
  <2>5. \A s \in Steps : \E e \in Range(history) : e.step = s
    BY <2>1 DEF Has, Range
  <2>6. {e.step : e \in Range(history)} = Steps
    BY <2>4, <2>5
  <2>7. QED BY <2>4, <2>6 DEF history
<1>6. QED BY <1>1, <1>4, <1>5

\* No error is returned only if every step has run and succeeded in every
\* repository, up to skips and what they mask, whatever the interleaving
\* (runRepositoryPipelines, runOperationStages, executor_runner.go).
THEOREM OkTellsAll == Spec => []OkMeansAllRan
<1>1. Init => RunInv /\ IInv /\ Told
  BY InitRuns, InitHolds DEF Init, Told, Accounted
<1>2. RunInv /\ IInv /\ Told /\ [Next]_vars => (RunInv /\ IInv /\ Told)'
  BY NextRuns, NextHolds, NextTold
<1>3. RunInv /\ Told => OkMeansAllRan
  BY ToldMeansAllRan
<1>4. QED
  BY <1>1, <1>2, <1>3, PTL DEF Spec

\* The lists an outcome is made of.
Kinds == {"operations", "failures"}

\* What a list has of a step that ended like this.
Tellable(kind, verdict) ==
    /\ verdict \notin {"running", "cancelled"}
    /\ kind = "failures" => verdict = "failed"

\* The line of an entry.
Line(kind, place, e) ==
    IF kind = "operations"
    THEN [where |-> place, step |-> e.step,
          failed |-> IF place = Everywhere THEN e.verdict # "ok" ELSE e.verdict = "failed"]
    ELSE [where |-> place, step |-> e.step]

\* What a list is made of.
LineType(kind) ==
    IF kind = "operations" THEN [where: Nat, step: Steps, failed: BOOLEAN]
    ELSE [where: Nat, step: Steps]

\* The list has a line of the entry, which is of one of the stages.
Due(flow, kind, place, e, span) ==
    /\ Tellable(kind, e.verdict)
    /\ StageIn(flow, e.step) \in span
    /\ AloneIn(flow, StageIn(flow, e.step)) <=> place = Everywhere

\* The lines of a history, for some stages.
Lines(flow, kind, place, history, span) ==
    {Line(kind, place, history[i]) :
        i \in {j \in DOMAIN history : Due(flow, kind, place, history[j], span)}}

\* Precedes, for the plan of a workflow.
CutIn(flow, i, j) == i < j /\ \E k \in i .. j : AloneIn(flow, k)

\* A run with one worker tells of a before b.
Sooner(flow, a, b) ==
    LET i == StageIn(flow, a.step)
        j == StageIn(flow, b.step)
    IN \/ CutIn(flow, i, j)
       \/ /\ ~CutIn(flow, j, i)
          /\ \/ a.where < b.where
             \/ a.where = b.where /\ Behind(flow, a.step, j, SpotIn(flow, b.step))

\* The list has just these lines, in turn.
Listed(flow, list, lines) ==
    /\ Range(list) = lines
    /\ \A i, j \in DOMAIN list : i < j => Sooner(flow, list[i], list[j])

\* A line tells where, and of which step.
LEMMA LineIs ==
    ASSUME NEW kind \in Kinds, NEW place, NEW e
    PROVE  Line(kind, place, e).where = place /\ Line(kind, place, e).step = e.step
  BY DEF Line

\* A result has both lists.
LEMMA BooksType ==
    ASSUME NEW book \in Results, NEW kind \in Kinds
    PROVE  book[kind] \in Seq(LineType(kind))
BY DEF Results, LineType, Kinds

\* An empty list has no lines.
LEMMA NothingListed ==
    ASSUME NEW flow
    PROVE  Listed(flow, <<>>, {})
BY DEF Range, Listed

\* One more line.
LEMMA ListedMore ==
    ASSUME NEW flow, NEW S, NEW list \in Seq(S), NEW lines, NEW x \in S,
           Listed(flow, list, lines), \A y \in lines : Sooner(flow, y, x)
    PROVE  Listed(flow, Append(list, x), lines \cup {x})
<1> DEFINE n == Len(list)
           longer == Append(list, x)
<1>1. /\ n \in Nat /\ DOMAIN list = 1 .. n /\ DOMAIN longer = 1 .. n + 1
      /\ longer[n + 1] = x /\ \A i \in 1 .. n : longer[i] = list[i]
  OBVIOUS
<1>2. Range(list) = lines /\ \A i, j \in DOMAIN list : i < j => Sooner(flow, list[i], list[j])
  BY DEF Listed
<1> HIDE DEF n, longer
<1>3. Range(longer) = lines \cup {x}
  <2>1. Range(longer) \subseteq lines \cup {x}
    BY <1>1, <1>2 DEF Range
  <2>2. lines \subseteq Range(longer)
    <3> SUFFICES ASSUME NEW y \in lines PROVE y \in Range(longer)
      OBVIOUS
    <3>1. PICK i \in 1 .. n : y = list[i]
      BY <1>1, <1>2 DEF Range
    <3>2. i \in DOMAIN longer /\ longer[i] = y
      BY <1>1, <3>1
    <3>3. QED BY <3>2 DEF Range
  <2>3. x \in Range(longer)
    BY <1>1 DEF Range
  <2>4. QED BY <2>1, <2>2, <2>3
<1>4. ASSUME NEW i \in DOMAIN longer, NEW j \in DOMAIN longer, i < j
      PROVE  Sooner(flow, longer[i], longer[j])
  BY <1>1, <1>4, <1>2 DEF Range
<1>5. QED BY <1>3, <1>4 DEF Listed, longer

\* Two lists, one after the other.
LEMMA ListedBoth ==
    ASSUME NEW flow, NEW S, NEW u \in Seq(S), NEW v \in Seq(S), NEW A, NEW B,
           Listed(flow, u, A), Listed(flow, v, B),
           \A a \in A : \A b \in B : Sooner(flow, a, b)
    PROVE  Listed(flow, u \o v, A \cup B)
<1> DEFINE m == Len(u)
           n == Len(v)
           w == u \o v
<1>1. /\ m \in Nat /\ n \in Nat /\ DOMAIN u = 1 .. m /\ DOMAIN v = 1 .. n
      /\ DOMAIN w = 1 .. m + n /\ \A i \in 1 .. m + n : w[i] = IF i <= m THEN u[i] ELSE v[i - m]
  BY ConcatProperties
<1>2. Range(u) = A /\ \A i, j \in DOMAIN u : i < j => Sooner(flow, u[i], u[j])
  BY DEF Listed
<1>3. Range(v) = B /\ \A i, j \in DOMAIN v : i < j => Sooner(flow, v[i], v[j])
  BY DEF Listed
<1> HIDE DEF m, n, w
<1>4. \A i \in 1 .. m : i \in DOMAIN w /\ w[i] = u[i] /\ u[i] \in A
  <2> SUFFICES ASSUME NEW i \in 1 .. m PROVE i \in DOMAIN w /\ w[i] = u[i] /\ u[i] \in A
    OBVIOUS
  <2>1. i \in 1 .. m + n /\ i <= m
    BY <1>1
  <2>2. QED BY <1>1, <1>2, <2>1 DEF Range
<1>5. \A i \in 1 .. n : m + i \in DOMAIN w /\ w[m + i] = v[i] /\ v[i] \in B
  <2> SUFFICES ASSUME NEW i \in 1 .. n PROVE m + i \in DOMAIN w /\ w[m + i] = v[i] /\ v[i] \in B
    OBVIOUS
  <2>1. m + i \in 1 .. m + n /\ ~(m + i <= m) /\ (m + i) - m = i
    BY <1>1
  <2>2. w[m + i] = v[(m + i) - m]
    BY <1>1, <2>1
  <2>3. QED BY <1>1, <1>3, <2>1, <2>2 DEF Range
<1>6. \A i \in DOMAIN w : i \in 1 .. m \/ \E k \in 1 .. n : i = m + k
  <2> SUFFICES ASSUME NEW i \in DOMAIN w, i \notin 1 .. m PROVE \E k \in 1 .. n : i = m + k
    OBVIOUS
  <2>1. i - m \in 1 .. n /\ i = m + (i - m)
    BY <1>1
  <2>2. QED BY <2>1
<1>7. Range(w) = A \cup B
  <2>1. Range(w) \subseteq A \cup B
    BY <1>4, <1>5, <1>6 DEF Range
  <2>2. A \subseteq Range(w)
    <3> SUFFICES ASSUME NEW a \in A PROVE a \in Range(w)
      OBVIOUS
    <3>1. PICK i \in 1 .. m : a = u[i]
      BY <1>1, <1>2 DEF Range
    <3>2. QED BY <1>4, <3>1 DEF Range
  <2>3. B \subseteq Range(w)
    <3> SUFFICES ASSUME NEW b \in B PROVE b \in Range(w)
      OBVIOUS
    <3>1. PICK i \in 1 .. n : b = v[i]
      BY <1>1, <1>3 DEF Range
    <3>2. m + i \in DOMAIN w /\ w[m + i] = b
      BY <1>5, <3>1
    <3>3. QED BY <3>2 DEF Range
  <2>4. QED BY <2>1, <2>2, <2>3
<1>8. ASSUME NEW i \in DOMAIN w, NEW j \in DOMAIN w, i < j
      PROVE  Sooner(flow, w[i], w[j])
  <2>1. CASE i \in 1 .. m /\ j \in 1 .. m
    BY <1>1, <1>2, <1>4, <1>8, <2>1
  <2>2. CASE i \in 1 .. m /\ j \notin 1 .. m
    <3>1. PICK k \in 1 .. n : j = m + k
      BY <1>6, <2>2
    <3>2. QED BY <1>4, <1>5, <2>2, <3>1
  <2>3. CASE i \notin 1 .. m
    <3>1. PICK k \in 1 .. n : i = m + k
      BY <1>6, <2>3
    <3>2. j \notin 1 .. m
      BY <1>1, <1>8, <3>1
    <3>3. PICK l \in 1 .. n : j = m + l
      BY <1>6, <3>2
    <3>4. k < l
      BY <1>1, <1>8, <3>1, <3>3
    <3>5. Sooner(flow, v[k], v[l])
      BY <1>1, <1>3, <3>4
    <3>6. QED BY <1>5, <3>1, <3>3, <3>5
  <2>4. QED BY <2>1, <2>2, <2>3
<1>9. QED BY <1>7, <1>8 DEF Listed, w

\* Several lists, one after the other.
LEMMA ListedAll ==
    ASSUME NEW flow, NEW S, NEW parts \in Seq(Seq(S)), parts # <<>>, NEW lines,
           \A i \in 1 .. Len(parts) : Listed(flow, parts[i], lines[i]),
           \A i, j \in 1 .. Len(parts) :
               i < j => \A a \in lines[i] : \A b \in lines[j] : Sooner(flow, a, b),
           NEW all, \A x : x \in all <=> \E i \in 1 .. Len(parts) : x \in lines[i]
    PROVE  Listed(flow, FlattenSeq(parts), all)
<1> DEFINE Upto(n) == UNION {lines[i] : i \in 1 .. n}
<1>0. Len(parts) \in Nat \ {0} /\ \A n \in 1 .. Len(parts) : parts[n] \in Seq(S)
  OBVIOUS
<1>1. PICK f \in [1 .. Len(parts) -> Seq(S)] : Joins(f, parts) /\ FlattenSeq(parts) = f[Len(parts)]
  BY FlattenedIs
<1> DEFINE Bad == {n \in 1 .. Len(parts) : ~Listed(flow, f[n], Upto(n))}
<1>2. Bad = {}
  <2> SUFFICES ASSUME Bad # {} PROVE FALSE
    OBVIOUS
  <2>1. Bad \in SUBSET Nat
    BY <1>0
  <2>2. PICK n \in Bad : \A m \in Bad : n <= m
    <3> HIDE DEF Bad
    <3>1. QED BY <2>1, LeastNumber
  <2>3. n \in 1 .. Len(parts) /\ ~Listed(flow, f[n], Upto(n))
    BY <2>2
  <2>4. f[n] = IF n = 1 THEN parts[n] ELSE f[n - 1] \o parts[n]
    BY <1>1, <2>3 DEF Joins
  <2>5. CASE n = 1
    <3>1. Upto(1) = lines[1]
      BY 1 .. 1 = {1}
    <3>2. QED BY <2>3, <2>4, <2>5, <3>1
  <2>6. CASE n # 1
    <3>1. n - 1 \in 1 .. Len(parts) /\ n - 1 < n
      BY <1>0, <2>3, <2>6
    <3>2. n - 1 \notin Bad
      <4> HIDE DEF Bad
      <4>1. CASE n - 1 \in Bad
        BY <2>2, <4>1, <1>0, <2>3, <3>1
      <4>2. QED BY <4>1
    <3>3. Listed(flow, f[n - 1], Upto(n - 1))
      BY <3>1, <3>2
    <3>4. Listed(flow, parts[n], lines[n]) /\ parts[n] \in Seq(S) /\ f[n - 1] \in Seq(S)
      BY <1>0, <1>1, <2>3, <3>1
    <3>5. \A a \in Upto(n - 1) : \A b \in lines[n] : Sooner(flow, a, b)
      <4> SUFFICES ASSUME NEW a \in Upto(n - 1), NEW b \in lines[n] PROVE Sooner(flow, a, b)
        OBVIOUS
      <4>1. PICK i \in 1 .. n - 1 : a \in lines[i]
        OBVIOUS
      <4>2. i \in 1 .. Len(parts) /\ i < n
        BY <1>0, <2>3, <4>1
      <4>3. QED BY <2>3, <4>1, <4>2
    <3>6. Upto(n) = Upto(n - 1) \cup lines[n]
      BY <1>0, <2>3
    <3> HIDE DEF Upto
    <3>7. Listed(flow, f[n - 1] \o parts[n], Upto(n - 1) \cup lines[n])
      BY <3>3, <3>4, <3>5, ListedBoth
    <3>8. QED BY <2>3, <2>4, <2>6, <3>6, <3>7
  <2>7. QED BY <2>5, <2>6
<1>3. Len(parts) \in 1 .. Len(parts)
  BY <1>0
<1>4. Upto(Len(parts)) = all
  <2> DEFINE length == Len(parts)
  <2> HIDE DEF length
  <2>1. \A x : x \in all <=> \E i \in 1 .. length : x \in lines[i]
    BY DEF length
  <2>2. Upto(length) = all
    BY <2>1
  <2>3. QED BY <2>2 DEF length
<1>5. QED BY <1>1, <1>2, <1>3, <1>4

\* What another entry adds.
LEMMA LinesMore ==
    ASSUME NEW flow, NEW kind, NEW place, NEW history \in Seq(Entry), NEW e \in Entry, NEW span
    PROVE  Lines(flow, kind, place, Append(history, e), span) =
             Lines(flow, kind, place, history, span) \cup
             (IF Due(flow, kind, place, e, span) THEN {Line(kind, place, e)} ELSE {})
<1> DEFINE n == Len(history)
           longer == Append(history, e)
           old == Lines(flow, kind, place, history, span)
           new == Lines(flow, kind, place, longer, span)
           more == IF Due(flow, kind, place, e, span) THEN {Line(kind, place, e)} ELSE {}
<1>1. /\ n \in Nat /\ DOMAIN history = 1 .. n /\ DOMAIN longer = 1 .. n + 1
      /\ longer[n + 1] = e /\ \A i \in 1 .. n : longer[i] = history[i]
  OBVIOUS
<1> HIDE DEF n, longer
<1>2. \A x : x \in old <=>
        \E i \in DOMAIN history : Due(flow, kind, place, history[i], span)
                    /\ x = Line(kind, place, history[i])
  BY DEF Lines
<1>3. \A x : x \in new <=>
        \E i \in DOMAIN longer : Due(flow, kind, place, longer[i], span)
                    /\ x = Line(kind, place, longer[i])
  BY DEF Lines
<1> HIDE DEF old, new
<1>4. ASSUME NEW x \in new PROVE x \in old \cup more
  <2>1. PICK i \in DOMAIN longer : Due(flow, kind, place, longer[i], span)
              /\ x = Line(kind, place, longer[i])
    BY <1>3, <1>4
  <2>2. CASE i = n + 1
    BY <1>1, <2>1, <2>2
  <2>3. CASE i # n + 1
    BY <1>1, <2>3, <1>2, <2>1
  <2>4. QED BY <2>2, <2>3
<1>5. ASSUME NEW x \in old PROVE x \in new
  <2>1. PICK i \in DOMAIN history : Due(flow, kind, place, history[i], span)
              /\ x = Line(kind, place, history[i])
    BY <1>2, <1>5
  <2>2. i \in DOMAIN longer /\ longer[i] = history[i]
    BY <1>1
  <2>3. QED BY <1>3, <2>1, <2>2
<1>6. ASSUME NEW x \in more PROVE x \in new
  BY <1>6, <1>1, <1>3
<1> HIDE DEF more
<1>7. new = old \cup more
  BY <1>4, <1>5, <1>6
<1>8. QED BY <1>7 DEF new, old, more, longer

\* What the end of the last entry adds.
LEMMA LinesEnd ==
    ASSUME NEW flow, NEW kind, NEW place, NEW history \in Seq(Entry), history # <<>>,
           InSequence(flow, history), history[Len(history)].verdict = "running",
           NEW verdict \in Verdicts, NEW span
    PROVE  LET last == [step |-> history[Len(history)].step, verdict |-> verdict]
           IN Lines(flow, kind, place, Ended(history, verdict), span) =
                Lines(flow, kind, place, history, span) \cup
                (IF Due(flow, kind, place, last, span) THEN {Line(kind, place, last)} ELSE {})
<1> DEFINE n == Len(history)
           last == [step |-> history[n].step, verdict |-> verdict]
           ended == Ended(history, verdict)
           old == Lines(flow, kind, place, history, span)
           new == Lines(flow, kind, place, ended, span)
           more == IF Due(flow, kind, place, last, span) THEN {Line(kind, place, last)} ELSE {}
<1>1. n \in Nat /\ n >= 1 /\ DOMAIN history = 1 .. n
  OBVIOUS
<1>2. /\ ended \in Seq(Entry) /\ Len(ended) = n
      /\ \A i \in 1 .. n : ended[i].step = history[i].step
      /\ \A i \in 1 .. n - 1 : ended[i] = history[i]
      /\ ended[n].verdict = verdict
  BY SequenceEnds
<1>3. DOMAIN ended = 1 .. n
  BY <1>2
<1> HIDE DEF ended
<1>4. ended[n] = last
  <2>1. ended[n] \in Entry
    BY <1>1, <1>2
  <2>2. ended[n] = [step |-> ended[n].step, verdict |-> ended[n].verdict]
    BY <2>1 DEF Entry
  <2>3. QED BY <1>1, <1>2, <2>2
<1>5. ~Due(flow, kind, place, history[n], span)
  BY DEF Due, Tellable
<1> HIDE DEF n
<1>6. \A x : x \in old <=>
        \E i \in DOMAIN history : Due(flow, kind, place, history[i], span)
                    /\ x = Line(kind, place, history[i])
  BY DEF Lines
<1>7. \A x : x \in new <=>
        \E i \in DOMAIN ended : Due(flow, kind, place, ended[i], span)
                    /\ x = Line(kind, place, ended[i])
  BY DEF Lines
<1> HIDE DEF old, new, last
<1>8. ASSUME NEW x \in new PROVE x \in old \cup more
  <2>1. PICK i \in DOMAIN ended : Due(flow, kind, place, ended[i], span)
              /\ x = Line(kind, place, ended[i])
    BY <1>7, <1>8
  <2>2. CASE i = n
    BY <1>4, <2>1, <2>2
  <2>3. CASE i # n
    BY <1>1, <1>3, <2>3, <1>2, <1>6, <2>1
  <2>4. QED BY <2>2, <2>3
<1>9. ASSUME NEW x \in old PROVE x \in new
  <2>1. PICK i \in DOMAIN history : Due(flow, kind, place, history[i], span)
              /\ x = Line(kind, place, history[i])
    BY <1>6, <1>9
  <2>2. i # n
    BY <1>5, <2>1
  <2>3. i \in DOMAIN ended /\ ended[i] = history[i]
    BY <1>1, <1>2, <1>3, <2>2
  <2>4. QED BY <1>7, <2>1, <2>3
<1>10. ASSUME NEW x \in more PROVE x \in new
  BY <1>10, <1>1, <1>3, <1>4, <1>7
<1> HIDE DEF more
<1>11. new = old \cup more
  BY <1>8, <1>9, <1>10
<1>12. QED BY <1>11 DEF new, old, more, ended, last, n

\* Behind a stage nothing is of it or of a later one.
LEMMA NoLines ==
    ASSUME NEW flow, NEW kind, NEW place, NEW history, NEW k, AllBehind(flow, history, k, 1),
           Kept(flow), history \in Seq(Entry), k \in Int, NEW span, \A l \in span : l \in Int /\ l >= k
    PROVE  Lines(flow, kind, place, history, span) = {}
<1> SUFFICES ASSUME NEW i \in DOMAIN history, Due(flow, kind, place, history[i], span) PROVE FALSE
  BY DEF Lines
<1>1. history[i].step \in Steps
  <2>1. history[i] \in Entry
    OBVIOUS
  <2>2. QED BY <2>1 DEF Entry
<1>2. StageIn(flow, history[i].step) \in Int /\ SpotIn(flow, history[i].step) \in Int
      /\ SpotIn(flow, history[i].step) >= 1
  BY <1>1, PlacesAre
<1>3. StageIn(flow, history[i].step) \in span
  BY DEF Due
<1>4. Behind(flow, history[i].step, k, 1)
  BY DEF AllBehind
<1>5. QED BY <1>2, <1>3, <1>4 DEF Behind

\* The lines of some stages and those of others.
LEMMA LinesOfBoth ==
    ASSUME NEW flow, NEW kind, NEW place, NEW history, NEW one, NEW other
    PROVE  Lines(flow, kind, place, history, one \cup other) =
             Lines(flow, kind, place, history, one) \cup Lines(flow, kind, place, history, other)
  BY DEF Lines, Due

\* Where a line comes from.
LEMMA LineHasEntry ==
    ASSUME NEW flow, NEW kind \in Kinds, NEW place, NEW history, NEW span,
           NEW x \in Lines(flow, kind, place, history, span)
    PROVE  \E i \in DOMAIN history :
             /\ Due(flow, kind, place, history[i], span) /\ x = Line(kind, place, history[i])
             /\ x.where = place /\ x.step = history[i].step
<1>1. PICK i \in DOMAIN history :
        Due(flow, kind, place, history[i], span) /\ x = Line(kind, place, history[i])
  BY DEF Lines
<1>2. QED BY <1>1, LineIs

\* What is behind in one place comes sooner.
LEMMA SoonerInPlace ==
    ASSUME NEW flow, Kept(flow), NEW a, NEW b, a.step \in Steps, b.step \in Steps,
           a.where = b.where, Behind(flow, a.step, StageIn(flow, b.step), SpotIn(flow, b.step))
    PROVE  Sooner(flow, a, b)
<1> DEFINE i == StageIn(flow, a.step)
           j == StageIn(flow, b.step)
<1>1. i \in Int /\ j \in Int
  BY PlacesAre
<1>2. i <= j
  BY <1>1 DEF Behind
<1>3. ~CutIn(flow, j, i)
  <2> HIDE DEF i, j
  <2>1. QED BY <1>1, <1>2 DEF CutIn
<1>4. QED BY <1>3 DEF Sooner

\* In a batch repositories are told of in their order.
LEMMA SoonerInBatch ==
    ASSUME NEW flow, NEW a, NEW b, a.where < b.where, NEW from \in Int, NEW to \in Int,
           StageIn(flow, a.step) \in from .. to, StageIn(flow, b.step) \in from .. to,
           \A k \in from .. to : ~AloneIn(flow, k)
    PROVE  Sooner(flow, a, b)
<1> DEFINE i == StageIn(flow, a.step)
           j == StageIn(flow, b.step)
<1>1. ~CutIn(flow, j, i)
  <2> HIDE DEF i, j
  <2>1. ASSUME NEW k \in j .. i, AloneIn(flow, k) PROVE FALSE
    BY <2>1 DEF i, j
  <2>2. QED BY <2>1 DEF CutIn
<1>2. QED BY <1>1 DEF Sooner

\* What lies before a stage that runs by itself comes sooner than what does not.
LEMMA SoonerByCut ==
    ASSUME NEW flow, NEW a, NEW b, NEW k \in Int, AloneIn(flow, k),
           StageIn(flow, a.step) \in Int, StageIn(flow, b.step) \in Int,
           StageIn(flow, a.step) <= k, k <= StageIn(flow, b.step),
           StageIn(flow, a.step) < StageIn(flow, b.step)
    PROVE  Sooner(flow, a, b)
<1> DEFINE i == StageIn(flow, a.step)
           j == StageIn(flow, b.step)
<1>1. k \in i .. j
  OBVIOUS
<1>2. CutIn(flow, i, j)
  BY <1>1 DEF CutIn
<1>3. QED BY <1>2 DEF Sooner

\* Stages before the batch, and those of it.
Until(k) == {l \in Nat : l < k}

\* The stages from the batch on.
From(k) == {l \in Nat : l >= k}

\* What has been told so far.
Book == [operations |-> operations, failures |-> failures]

\* The lines of all histories.
AllLines(flow, kind, all, span) ==
    UNION {Lines(flow, kind, place, all[place], span) : place \in Places}

\* No worker has begun with the repository, or has it any more.
Untouched(r) ==
    \A w \in Workers : workers[w].pc \notin {"off", "idle", "taken"} => workers[w].repository # r

\* Between batches the outcome has all lines; in a batch it has those before it,
\* and results have the others, those of a worker for the repository it is at.
Booked ==
    /\ pc \notin {"dispatch", "wait"} =>
         \A kind \in Kinds :
             Listed(workflow, Book[kind], AllLines(workflow, kind, ran, Nat))
    /\ pc \in {"dispatch", "wait"} =>
         /\ \A kind \in Kinds :
              Listed(workflow, Book[kind], AllLines(workflow, kind, ran, Until(Start)))
         /\ \A kind \in Kinds : \A r \in Repositories : Untouched(r) =>
              Listed(workflow, results[r][kind], Lines(workflow, kind, r, ran[r], From(Start)))
         /\ \A w \in Workers : workers[w].pc = "taken" => workers[w].result = NoResult
         /\ \A kind \in Kinds : \A w \in Workers :
              workers[w].pc \notin {"off", "idle", "taken"} =>
                Listed(workflow, workers[w].result[kind],
                       Lines(workflow, kind, workers[w].repository,
                             ran[workers[w].repository], From(Start)))

\* How far the steps are that are run once for all, and that all has ended.
Overall ==
    /\ AllEnded(ran[Everywhere])
    /\ pc = "plan" \/ returned = "refused" => ran[Everywhere] = <<>>
    /\ pc \in {"stage", "dispatch", "wait"} => AllBehind(workflow, ran[Everywhere], Start, 1)
    /\ pc \in {"global", "running"} => AllBehind(workflow, ran[Everywhere], at, operation)
    /\ pc \in {"return", "done"} => \A r \in Repositories : AllEnded(ran[r])

\* What the proof that the outcome is right goes by.
Reported == Booked /\ Overall

\* What the result of a worker has of its repository.
Recording(flow, start, worker, history) ==
    \A kind \in Kinds :
        Listed(flow, worker.result[kind],
               Lines(flow, kind, worker.repository, history, From(start)))

\* A line of a step has its type.
LEMMA LineTyped ==
    ASSUME NEW kind \in Kinds, NEW place \in Nat, NEW e, e.step \in Steps
    PROVE  Line(kind, place, e) \in LineType(kind)
  BY DEF Line, LineType

\* What a verdict adds to the result is the line of the step.
LEMMA VerdictBooks ==
    ASSUME NEW worker \in WorkerType, NEW step \in Steps, NEW verdict \in Verdicts, NEW kind \in Kinds
    PROVE  AfterVerdict(worker, step, verdict).result[kind] =
             IF Tellable(kind, verdict)
             THEN Append(worker.result[kind],
                         Line(kind, worker.repository, [step |-> step, verdict |-> verdict]))
             ELSE worker.result[kind]
<1> DEFINE after == AfterVerdict(worker, step, verdict)
           recorded == Recorded(worker, step, verdict)
           old == worker.result
           place == worker.repository
           failure == [where |-> place, step |-> step]
           entry == [where |-> place, step |-> step, failed |-> verdict = "failed"]
           e == [step |-> step, verdict |-> verdict]
<1>1. old = [operations |-> old.operations, failures |-> old.failures]
  <2>1. old \in Results
    BY DEF WorkerType
  <2> HIDE DEF old
  <2>2. QED BY <2>1 DEF Results
<1>2. /\ recorded.operations = Append(old.operations, entry)
      /\ recorded.failures = IF verdict = "failed" THEN Append(old.failures, failure) ELSE old.failures
  <2>1. recorded = [old EXCEPT !.operations = Append(@, entry),
                               !.failures = IF verdict = "failed" THEN Append(@, failure) ELSE @]
    BY DEF Recorded
  <2> HIDE DEF entry, failure, old, recorded
  <2>2. QED BY <1>1, <2>1
<1>3. place # Everywhere
  BY SomeRepository DEF WorkerType
<1>4. Line("operations", place, e) = entry /\ Line("failures", place, e) = failure
  BY <1>3 DEF Line
<1>5. CASE verdict = "cancelled"
  BY <1>5 DEF AfterVerdict, WorkerType, Tellable
<1>6. CASE verdict # "cancelled"
  <2>1. after.result = recorded
    BY <1>6 DEF AfterVerdict, WorkerType, Verdicts, recorded
  <2> HIDE DEF after, old, entry, failure, e, recorded, place
  <2>2. CASE kind = "operations"
    BY <1>6, <2>2, <1>2, <1>4, <2>1 DEF Tellable, Verdicts, after, old, place, e
  <2>3. CASE kind = "failures"
    BY <1>6, <2>3, <1>2, <1>4, <2>1 DEF Tellable, Verdicts, after, old, place, e
  <2>4. QED BY <2>2, <2>3 DEF Kinds
<1>7. QED BY <1>5, <1>6

\* A worker begins a step: nothing to record yet.
LEMMA RecordsBegin ==
    ASSUME NEW flow, NEW kind, NEW place, NEW history \in Seq(Entry), NEW step \in Steps, NEW span
    PROVE  Lines(flow, kind, place, Started(history, step), span) =
             Lines(flow, kind, place, history, span)
<1> DEFINE e == [step |-> step, verdict |-> "running"]
<1>1. e \in Entry
  BY DEF Entry
<1>2. ~Due(flow, kind, place, e, span)
  BY DEF Due, Tellable
<1> HIDE DEF e
<1>3. Lines(flow, kind, place, Append(history, e), span) = Lines(flow, kind, place, history, span)
  <2>1. Lines(flow, kind, place, Append(history, e), span) =
          Lines(flow, kind, place, history, span) \cup
          (IF Due(flow, kind, place, e, span) THEN {Line(kind, place, e)} ELSE {})
    BY <1>1, LinesMore
  <2>2. QED BY <1>2, <2>1
<1>4. QED BY <1>3 DEF Started, e

\* The step of a worker ends: its line comes after those of its repository.
LEMMA RecordsEnd ==
    ASSUME NEW flow, Kept(flow), NEW start \in Nat \ {0},
           NEW worker \in WorkerType, NEW history \in Seq(Entry), history # <<>>,
           InSequence(flow, history), history[Len(history)].verdict = "running",
           Recording(flow, start, worker, history), NEW verdict \in Verdicts,
           StageIn(flow, history[Len(history)].step) >= start,
           ~AloneIn(flow, StageIn(flow, history[Len(history)].step))
    PROVE  LET step == history[Len(history)].step
               after == AfterVerdict(worker, step, verdict)
               ended == Ended(history, verdict)
           IN /\ \A kind \in Kinds :
                   Lines(flow, kind, worker.repository, ended, Until(start)) =
                     Lines(flow, kind, worker.repository, history, Until(start))
              /\ \A kind \in Kinds :
                   Listed(flow, after.result[kind],
                          Lines(flow, kind, worker.repository, ended, From(start)))
<1> DEFINE n == Len(history)
           step == history[n].step
           place == worker.repository
           after == AfterVerdict(worker, step, verdict)
           ended == Ended(history, verdict)
           last == [step |-> step, verdict |-> verdict]
<1>1. n \in Nat /\ n >= 1 /\ DOMAIN history = 1 .. n
  OBVIOUS
<1>2. \A i \in 1 .. n : history[i] \in Entry /\ history[i].step \in Steps
  <2>1. ASSUME NEW i \in 1 .. n PROVE history[i] \in Entry
    BY <1>1
  <2>2. QED BY <2>1 DEF Entry
<1>3. step \in Steps /\ StageIn(flow, step) \in Nat
  BY <1>1, <1>2, PlacesAre
<1>4. place \in Nat /\ place # Everywhere /\ worker.result \in Results
  BY SomeRepository DEF WorkerType
<1>5. \A i \in 1 .. n - 1 : Behind(flow, history[i].step, StageIn(flow, step), SpotIn(flow, step))
  BY <1>1 DEF InSequence
<1> HIDE DEF n, step, place
<1>6. last.step = step /\ last.verdict = verdict
  OBVIOUS
<1>7. ASSUME NEW kind \in Kinds, NEW span
      PROVE  Lines(flow, kind, place, ended, span) =
               Lines(flow, kind, place, history, span) \cup
               (IF Due(flow, kind, place, last, span) THEN {Line(kind, place, last)} ELSE {})
  BY LinesEnd DEF n, step
<1> HIDE DEF last, ended
<1>8. ASSUME NEW kind \in Kinds
      PROVE  Lines(flow, kind, place, ended, Until(start)) =
               Lines(flow, kind, place, history, Until(start))
  <2>1. StageIn(flow, step) \notin Until(start)
    BY <1>3 DEF n, step, Until
  <2>2. ~Due(flow, kind, place, last, Until(start))
    BY <1>6, <2>1 DEF Due
  <2>3. QED BY <1>7, <2>2
<1>9. ASSUME NEW kind \in Kinds
      PROVE  Listed(flow, after.result[kind], Lines(flow, kind, place, ended, From(start)))
  <2>1. Due(flow, kind, place, last, From(start)) <=> Tellable(kind, verdict)
    BY <1>3, <1>4, <1>6 DEF n, step, From, Due
  <2>2. after.result[kind] = IF Tellable(kind, verdict)
                             THEN Append(worker.result[kind], Line(kind, place, last))
                             ELSE worker.result[kind]
    BY <1>3, VerdictBooks DEF last, place
  <2> HIDE DEF after
  <2> DEFINE lines == Lines(flow, kind, place, history, From(start))
             list == worker.result[kind]
             line == Line(kind, place, last)
  <2>3. Listed(flow, list, lines)
    BY DEF Recording, place
  <2>4. list \in Seq(LineType(kind)) /\ line \in LineType(kind)
    BY <1>3, <1>4, <1>6, BooksType, LineTyped
  <2>5. line.where = place /\ line.step = step
    BY <1>6, LineIs
  <2>6. ASSUME NEW y \in lines PROVE Sooner(flow, y, line)
    <3>1. PICK i \in DOMAIN history :
            /\ Due(flow, kind, place, history[i], From(start))
            /\ y.where = place /\ y.step = history[i].step
      BY LineHasEntry
    <3>2. i # n
      BY <3>1 DEF Due, Tellable, n
    <3>3. i \in 1 .. n - 1 /\ i \in 1 .. n
      BY <1>1, <3>2
    <3> HIDE DEF line, lines
    <3>4. Behind(flow, y.step, StageIn(flow, step), SpotIn(flow, step)) /\ y.step \in Steps
      BY <1>2, <1>5, <3>1, <3>3
    <3>5. QED BY <1>3, <2>5, <3>1, <3>4, SoonerInPlace
  <2>7. CASE Tellable(kind, verdict)
    <3>1. Lines(flow, kind, place, ended, From(start)) = lines \cup {line}
      BY <1>7, <2>1, <2>7
    <3>2. after.result[kind] = Append(list, line)
      BY <2>2, <2>7
    <3> HIDE DEF lines, list, line
    <3>3. Listed(flow, Append(list, line), lines \cup {line})
      BY <2>3, <2>4, <2>6, ListedMore
    <3>4. QED BY <3>1, <3>2, <3>3
  <2>8. CASE ~Tellable(kind, verdict)
    BY <1>7, <2>1, <2>2, <2>3, <2>8
  <2>9. QED BY <2>7, <2>8
<1>10. QED BY <1>8, <1>9 DEF n, step, place, ended

\* One worker does something in its repository: the lists of the others stay.
LEMMA OneBooked ==
    ASSUME RunInv, IInv, Booked, Steady, NEW w \in Workers, Busy(w),
           NEW worker \in WorkerType, NEW history \in Seq(Entry),
           workers' = [workers EXCEPT ![w] = worker],
           ran' = [ran EXCEPT ![workers[w].repository] = history],
           \A r \in Repositories : r # workers[w].repository => results'[r] = results[r],
           \A kind \in Kinds :
               Lines(workflow, kind, workers[w].repository, history, Until(Start)) =
                 Lines(workflow, kind, workers[w].repository, ran[workers[w].repository], Until(Start)),
           worker.pc # "taken",
           \/ /\ worker.pc \notin {"off", "idle"}
              /\ worker.repository = workers[w].repository
              /\ Recording(workflow, Start, worker, history)
           \/ /\ worker.pc \in {"off", "idle"}
              /\ \A kind \in Kinds :
                   Listed(workflow, results'[workers[w].repository][kind],
                          Lines(workflow, kind, workers[w].repository, history, From(Start)))
    PROVE  Booked'
<1> DEFINE mine == workers[w].repository
           Quiet == {"off", "idle", "taken"}
<1>1. pc \in {"dispatch", "wait"}
  BY InBatch DEF Busy
<1>2. UNCHANGED <<workflow, pc, at, batch, operations, failures>>
  BY DEF Steady, planned, runner, outcome
<1>3. workers \in [Workers -> WorkerType] /\ ran \in [Repositories \cup {Everywhere} -> Seq(Entry)]
  BY DEF RunInv, TypeOK, Entry
<1>4. mine \in Repositories /\ mine # Everywhere
  BY <1>3, SomeRepository DEF WorkerType
<1>5. Start' = Start /\ Book' = Book
  BY <1>2 DEF Start, Book
<1>6. ran'[mine] = history /\ \A r \in Places : r # mine => ran'[r] = ran[r]
  BY <1>3, <1>4 DEF Places
<1>7. workers'[w] = worker /\ \A v \in Workers : v # w => workers'[v] = workers[v]
  BY <1>3
<1>8. \A v \in Workers : v # w /\ Busy(v) => workers[v].repository # mine
  BY DEF IInv, Apart
<1>9. \A kind \in Kinds :
        Lines(workflow, kind, mine, history, Until(Start)) =
          Lines(workflow, kind, mine, ran[mine], Until(Start))
  OBVIOUS
<1>10. \A r \in Repositories : r # mine => results'[r] = results[r]
  OBVIOUS
<1> HIDE DEF mine
<1>11. ASSUME NEW kind \in Kinds
       PROVE  AllLines(workflow, kind, ran', Until(Start)) = AllLines(workflow, kind, ran, Until(Start))
  BY <1>6, <1>9 DEF AllLines
<1>12. \A kind \in Kinds : Listed(workflow, Book[kind], AllLines(workflow, kind, ran, Until(Start)))
  BY <1>1 DEF Booked
<1>13. ASSUME NEW kind \in Kinds, NEW r \in Repositories, Untouched(r)'
       PROVE  Listed(workflow, results'[r][kind], Lines(workflow, kind, r, ran'[r], From(Start)))
  BY <1>13, <1>7, <1>6, <1>1, <1>10 DEF Untouched, mine, Booked, Places
<1>14. ASSUME NEW v \in Workers, workers'[v].pc = "taken" PROVE workers'[v].result = NoResult
  BY <1>7, <1>14, <1>1 DEF Booked
<1>15. ASSUME NEW kind \in Kinds, NEW v \in Workers, workers'[v].pc \notin Quiet
       PROVE  Listed(workflow, workers'[v].result[kind],
                     Lines(workflow, kind, workers'[v].repository,
                           ran'[workers'[v].repository], From(Start)))
  BY <1>7, <1>15, <1>6, <1>3, <1>8, <1>1 DEF mine, Recording, Busy, WorkerType, Places, Booked
<1>16. QED
  BY <1>1, <1>2, <1>5, <1>11, <1>12, <1>13, <1>14, <1>15 DEF Booked

\* What the steps that are run once for all have told, while a batch runs.
LEMMA SameOverall ==
    ASSUME Overall, UNCHANGED <<workflow, pc, at, batch, operation, returned>>,
           ran'[Everywhere] = ran[Everywhere], pc \notin {"return", "done"}
    PROVE  Overall'
BY DEF Start, Overall

\* A worker that has begun is recording what it does.
LEMMA BusyRecords ==
    ASSUME RunInv, IInv, Booked, pc \in {"dispatch", "wait"}, NEW w \in Workers,
           workers[w].pc \notin {"off", "idle", "taken"}
    PROVE  Recording(workflow, Start, workers[w], ran[workers[w].repository])
  BY DEF Booked, Recording

\* The stages of a batch are in the plan.
LEMMA SpanHas ==
    ASSUME NEW flow, NEW start, NEW length, Span(flow, start, length), NEW i \in 1 .. length
    PROVE  start + i - 1 \in 1 .. Len(PlanOperationStages(flow)) /\ start + i - 1 >= start
<1> DEFINE last == Len(PlanOperationStages(flow))
<1>1. Kept(flow) /\ start \in Nat \ {0} /\ length \in Nat /\ start + length <= last + 1
  BY DEF Span
<1>2. last \in Nat
  BY <1>1, PlacesAre
<1> HIDE DEF last
<1>3. start + i - 1 \in 1 .. last /\ start + i - 1 >= start
  BY <1>1, <1>2
<1>4. QED BY <1>3 DEF last

\* Whatever a worker does is told of as it should be.
LEMMA WorkerBooked ==
    ASSUME RunInv, IInv, Reported, NEW w \in Workers, Worker(w)
    PROVE  Reported'
<1> DEFINE mine == workers[w]
           place == mine.repository
           history == ran[place]
<1>1. pc \in {"dispatch", "wait"}
  BY InBatch DEF Worker, WorkerEnds, Open, EnterStage, StoreResult, BeginOperation, LeaveStage, EndOperation
<1>2. Steady
  BY DEF Worker, WorkerEnds, Open, EnterStage, StoreResult, BeginOperation, LeaveStage, EndOperation, Steady
<1>3. UNCHANGED <<workflow, stages, pc, at, operation, batch, operations, failures, returned>>
  BY <1>2 DEF Steady, planned, runner, outcome
<1>4. /\ workers \in [Workers -> WorkerType] /\ results \in [Repositories -> Results]
      /\ ran \in [Repositories \cup {Everywhere} -> Seq(Entry)]
  BY DEF RunInv, TypeOK, Entry
<1>5. mine \in WorkerType /\ place \in Repositories /\ place # Everywhere
  BY <1>4, SomeRepository DEF WorkerType
<1>6. history \in Seq(Entry) /\ InSequence(workflow, history)
  BY <1>4, <1>5 DEF RunInv, Progress
<1>7. /\ Kept(workflow) /\ stages = PlanOperationStages(workflow) /\ Span(workflow, Start, Len(batch))
      /\ Start + Len(batch) = at /\ Len(batch) \in Nat /\ Start \in Nat \ {0}
  BY <1>1, InRun
<1>8. Busy(w) => Doing(workflow, Start, Len(batch), mine, history)
  BY <1>1 DEF RunInv, Progress
<1>9. ran = [ran EXCEPT ![place] = history]
  BY <1>4, <1>5
<1>10. mine.position \in 1 .. Len(batch) =>
         StageOf(w) = stages[Start + mine.position - 1] /\ ~AloneIn(workflow, Start + mine.position - 1)
  BY DEF RunInv, Batching, StageOf
<1>11. mine.pc \notin {"off", "idle", "taken"} => Recording(workflow, Start, mine, history)
  BY <1>1, BusyRecords DEF Reported
<1>12. ASSUME ran'[Everywhere] = ran[Everywhere] PROVE Overall'
  BY <1>1, <1>3, <1>12, SameOverall DEF Reported
<1>13. ASSUME NEW longer, ran' = [ran EXCEPT ![place] = longer] PROVE ran'[Everywhere] = ran[Everywhere]
  BY <1>4, <1>5, <1>13
<1>14. Booked
  BY DEF Reported
<1>15. CASE WorkerEnds(w)
  BY <1>15, <1>3, <1>4, IdleIsRecord, <1>1, <1>14, <1>12 DEF WorkerEnds, Start, Book, Untouched, Booked,
    Reported
<1>16. CASE Open(w)
  <2>1. mine.pc = "taken" /\ Busy(w) /\ results' = results /\ ran' = ran
    BY <1>16 DEF Open, Busy
  <2>2. mine.result = NoResult
    BY <1>1, <1>14, <2>1 DEF Booked
  <2>3. CASE cancelled
    <3>1. workers' = [workers EXCEPT ![w] = Off]
      BY <1>16, <2>3 DEF Open
    <3>2. Untouched(place)
      BY <2>1 DEF IInv, Apart, Untouched, Busy
    <3>3. \A kind \in Kinds : Listed(workflow, results'[place][kind],
                                     Lines(workflow, kind, place, history, From(Start)))
      BY <1>1, <1>5, <1>14, <2>1, <3>2 DEF Booked
    <3>4. Off \in WorkerType /\ Off.pc = "off"
      BY IdleType, IdleIsRecord
    <3> HIDE DEF history
    <3>5. ran' = [ran EXCEPT ![workers[w].repository] = history]
      BY <1>9, <2>1
    <3>6. Booked'
      BY <1>2, <1>6, <1>14, <2>1, <3>1, <3>3, <3>4, <3>5, OneBooked DEF history
    <3>7. QED BY <1>12, <2>1, <3>6 DEF Reported
  <2>4. CASE ~cancelled
    <3> DEFINE after == [mine EXCEPT !.pc = "stage"]
    <3>1. workers' = [workers EXCEPT ![w] = after]
      BY <1>4, <1>16, <2>4 DEF Open
    <3>2. /\ after \in WorkerType /\ after.pc = "stage" /\ after.repository = place
          /\ after.result = NoResult
      BY <1>5, <2>2 DEF WorkerType, WorkerPCs
    <3>3. Recording(workflow, Start, after, history)
      <4>1. AllBehind(workflow, history, Start, 1)
        BY <1>8, <2>1 DEF Doing
      <4> HIDE DEF after, history
      <4>2. ASSUME NEW kind \in Kinds
            PROVE  Listed(workflow, after.result[kind],
                          Lines(workflow, kind, place, history, From(Start)))
        <5>1. \A l \in From(Start) : l \in Int /\ l >= Start
          BY DEF From
        <5>2. Lines(workflow, kind, place, history, From(Start)) = {}
          BY <1>6, <1>7, <4>1, <5>1, NoLines
        <5>3. after.result[kind] = <<>>
          BY <3>2 DEF NoResult, Kinds
        <5>4. QED BY <5>2, <5>3, NothingListed
      <4>3. QED BY <3>2, <4>2 DEF Recording
    <3> HIDE DEF history, after
    <3>4. ran' = [ran EXCEPT ![workers[w].repository] = history]
      BY <1>9, <2>1
    <3>5. Booked'
      BY <1>2, <1>6, <1>14, <2>1, <3>1, <3>2, <3>3, <3>4, OneBooked DEF history
    <3>6. QED BY <1>12, <2>1, <3>5 DEF Reported
  <2>5. QED BY <2>3, <2>4
<1>17. CASE EnterStage(w)
  <2> DEFINE after == [mine EXCEPT !.pc = "operation", !.operation = 1]
  <2>1. mine.pc = "stage" /\ Busy(w) /\ results' = results /\ ran' = ran
    BY <1>17 DEF EnterStage, Busy
  <2>2. workers' = [workers EXCEPT ![w] = after]
    BY <1>4, <1>17 DEF EnterStage
  <2>3. /\ after \in WorkerType /\ after.pc = "operation" /\ after.repository = place
        /\ after.result = mine.result
    BY <1>5 DEF WorkerType, WorkerPCs
  <2> HIDE DEF after, history
  <2>4. Recording(workflow, Start, after, history)
    BY <1>11, <2>1, <2>3 DEF Recording
  <2>5. ran' = [ran EXCEPT ![workers[w].repository] = history]
    BY <1>9, <2>1
  <2>6. Booked'
    BY <1>2, <1>6, <1>14, <2>1, <2>2, <2>3, <2>4, <2>5, OneBooked DEF history
  <2>7. QED BY <1>12, <2>1, <2>6 DEF Reported
<1>18. CASE StoreResult(w)
  <2>1. /\ mine.pc = "stage" /\ Busy(w) /\ ran' = ran /\ workers' = [workers EXCEPT ![w] = Idle]
        /\ results' = [results EXCEPT ![place] = mine.result]
    BY <1>18 DEF StoreResult, Busy
  <2>2. /\ results'[place] = mine.result
        /\ \A r \in Repositories : r # place => results'[r] = results[r]
    BY <1>4, <1>5, <2>1
  <2>3. \A kind \in Kinds : Listed(workflow, results'[place][kind],
                                   Lines(workflow, kind, place, history, From(Start)))
    BY <1>11, <2>1, <2>2 DEF Recording
  <2>4. Idle \in WorkerType /\ Idle.pc = "idle"
    BY IdleType, IdleIsRecord
  <2> HIDE DEF history
  <2>5. ran' = [ran EXCEPT ![workers[w].repository] = history]
    BY <1>9, <2>1
  <2>6. Booked'
    BY <1>2, <1>6, <1>14, <2>1, <2>2, <2>3, <2>4, <2>5, OneBooked DEF history
  <2>7. QED BY <1>12, <2>1, <2>6 DEF Reported
<1>19. CASE BeginOperation(w)
  <2> DEFINE stage == Start + mine.position - 1
             step == PlanOperationStages(workflow)[stage][mine.operation]
             longer == Started(history, step)
             after == [mine EXCEPT !.pc = "running"]
  <2>1. mine.pc = "operation" /\ Busy(w) /\ results' = results
    BY <1>19 DEF BeginOperation, Busy
  <2>2. /\ mine.position \in 1 .. Len(batch)
        /\ mine.operation \in 1 .. Len(PlanOperationStages(workflow)[stage]) + 1
    BY <1>8, <2>1 DEF Doing
  <2>3. StageOf(w) = PlanOperationStages(workflow)[stage]
    BY <1>7, <1>10, <2>2
  <2>4. mine.operation <= Len(PlanOperationStages(workflow)[stage])
    BY <1>19, <2>3 DEF BeginOperation
  <2>5. workers' = [workers EXCEPT ![w] = after]
    BY <1>4, <1>19 DEF BeginOperation
  <2>6. ran' = [ran EXCEPT ![place] = longer]
    BY <1>19, <2>3 DEF BeginOperation
  <2>7. /\ after \in WorkerType /\ after.pc = "running" /\ after.repository = place
        /\ after.result = mine.result
    BY <1>5 DEF WorkerType, WorkerPCs
  <2>8. step \in Steps /\ longer \in Seq(Entry)
    <3>1. stage \in 1 .. Len(PlanOperationStages(workflow))
      BY <1>7, <2>2, SpanHas
    <3>2. mine.operation \in 1 .. Len(PlanOperationStages(workflow)[stage])
      BY <1>7, <2>2, <2>4, <3>1, PlacesAre
    <3>3. step \in Steps
      BY <1>7, <3>1, <3>2, PlacesAre
    <3> HIDE DEF step, history
    <3>4. QED BY <1>6, <3>3 DEF Started, Entry
  <2> HIDE DEF step, after, history
  <2>9. \A kind \in Kinds : \A span :
          Lines(workflow, kind, place, longer, span) = Lines(workflow, kind, place, history, span)
    BY <1>6, <2>8, RecordsBegin
  <2> HIDE DEF longer
  <2>10. Recording(workflow, Start, after, longer)
    BY <1>11, <2>1, <2>7, <2>9 DEF Recording
  <2>11. Booked'
    <3>1. \A kind \in Kinds : Lines(workflow, kind, place, longer, Until(Start)) =
                               Lines(workflow, kind, place, ran[place], Until(Start))
      BY <2>9 DEF history
    <3>2. after.pc \notin {"off", "idle"} /\ after.pc # "taken"
      BY <2>7
    <3>3. QED BY <1>2, <1>14, <2>1, <2>5, <2>6, <2>7, <2>8, <2>10, <3>1, <3>2, OneBooked
  <2>12. ran'[Everywhere] = ran[Everywhere]
    BY <1>13, <2>6
  <2>13. QED BY <1>12, <2>11, <2>12 DEF Reported
<1>20. CASE LeaveStage(w)
  <2> DEFINE after == [mine EXCEPT !.pc = "stage", !.position = @ + 1]
  <2>1. mine.pc = "operation" /\ Busy(w) /\ results' = results /\ ran' = ran
    BY <1>20 DEF LeaveStage, Busy
  <2>2. workers' = [workers EXCEPT ![w] = after]
    BY <1>4, <1>20 DEF LeaveStage
  <2>3. after \in WorkerType /\ after.pc = "stage" /\ after.repository = place
    <3> HIDE DEF mine
    <3>1. QED BY <1>5, MovesOn
  <2>4. after.result = mine.result
    BY <1>5 DEF WorkerType
  <2> HIDE DEF after, history
  <2>5. Recording(workflow, Start, after, history)
    BY <1>11, <2>1, <2>3, <2>4 DEF Recording
  <2>6. ran' = [ran EXCEPT ![workers[w].repository] = history]
    BY <1>9, <2>1
  <2>7. Booked'
    BY <1>2, <1>6, <1>14, <2>1, <2>2, <2>3, <2>5, <2>6, OneBooked DEF history
  <2>8. QED BY <1>12, <2>1, <2>7 DEF Reported
<1>21. CASE EndOperation(w)
  <2> DEFINE stage == Start + mine.position - 1
             step == PlanOperationStages(workflow)[stage][mine.operation]
  <2>1. mine.pc = "running" /\ Busy(w) /\ results' = results
    BY <1>21 DEF EndOperation, Busy
  <2>2. mine.position \in 1 .. Len(batch)
    BY <1>8, <2>1 DEF Doing
  <2>3. StageOf(w) = PlanOperationStages(workflow)[stage] /\ ~AloneIn(workflow, stage)
    BY <1>7, <1>10, <2>2
  <2>4. PICK verdict \in Verdicts :
          /\ workers' = [workers EXCEPT ![w] = AfterVerdict(mine, StageOf(w)[mine.operation], verdict)]
          /\ ran' = [ran EXCEPT ![place] = Ended(history, verdict)]
    BY <1>4, <1>5, <1>21 DEF EndOperation
  <2> DEFINE ended == Ended(history, verdict)
             after == AfterVerdict(mine, step, verdict)
  <2>5. workers' = [workers EXCEPT ![w] = after] /\ ran' = [ran EXCEPT ![place] = ended]
    BY <2>3, <2>4
  <2>6. /\ ended \in Seq(Entry)
        /\ after \in WorkerType /\ after.pc \in {"stage", "operation"}
        /\ after.repository = place
    BY <1>5, <1>6, <1>7, <1>8, <2>1, DoingFinishes
  <2>7. /\ history # <<>>
        /\ history[Len(history)] = [step |-> step, verdict |-> "running"]
        /\ mine.operation \in 1 .. Len(PlanOperationStages(workflow)[stage])
    BY <1>8, <2>1, <1>7, <2>2, SpanHas, PlacesAre DEF Doing
  <2>8. StageIn(workflow, step) = stage /\ stage >= Start
    BY <1>7, <2>2, SpanHas, <2>7, PlacesAre
  <2>9. history[Len(history)].step = step /\ history[Len(history)].verdict = "running"
    BY <2>7
  <2> HIDE DEF step, stage
  <2>10. Recording(workflow, Start, mine, history)
    BY <1>11, <2>1
  <2>11. /\ \A kind \in Kinds :
              Lines(workflow, kind, place, ended, Until(Start)) =
                Lines(workflow, kind, place, history, Until(Start))
         /\ \A kind \in Kinds :
              Listed(workflow, after.result[kind], Lines(workflow, kind, place, ended, From(Start)))
    BY <1>5, <1>6, <1>7, <2>3, <2>7, <2>8, <2>9, <2>10, RecordsEnd
  <2> HIDE DEF after, ended
  <2>12. Recording(workflow, Start, after, ended)
    BY <2>6, <2>11 DEF Recording
  <2>13. Booked'
    BY <1>2, <1>14, <2>1, <2>5, <2>6, <2>11, <2>12, OneBooked
  <2>14. ran'[Everywhere] = ran[Everywhere]
    BY <1>13, <2>5
  <2>15. QED BY <1>12, <2>13, <2>14 DEF Reported
<1>22. QED
  BY <1>15, <1>16, <1>17, <1>18, <1>19, <1>20, <1>21 DEF Worker

\* Where everything lies before a stage, all lines are of earlier stages.
LEMMA EarlierLines ==
    ASSUME NEW flow, Kept(flow), NEW start \in Nat, NEW kind,
           NEW all \in [Places -> Seq(Entry)],
           \A place \in Places : AllBehind(flow, all[place], start, 1)
    PROVE  /\ \A place \in Places : Lines(flow, kind, place, all[place], From(start)) = {}
           /\ AllLines(flow, kind, all, Until(start)) = AllLines(flow, kind, all, Nat)
<1>1. ASSUME NEW place \in Places
      PROVE  Lines(flow, kind, place, all[place], From(start)) = {}
  BY NoLines DEF From
<1>2. ASSUME NEW place \in Places
      PROVE  Lines(flow, kind, place, all[place], Until(start)) =
               Lines(flow, kind, place, all[place], Nat)
  <2>1. Nat = Until(start) \cup From(start)
    BY DEF Until, From
  <2>2. Lines(flow, kind, place, all[place], Nat) =
          Lines(flow, kind, place, all[place], Until(start)) \cup
          Lines(flow, kind, place, all[place], From(start))
    <3>1. Lines(flow, kind, place, all[place], Until(start) \cup From(start)) =
            Lines(flow, kind, place, all[place], Until(start)) \cup
            Lines(flow, kind, place, all[place], From(start))
      BY LinesOfBoth
    <3>2. QED BY <2>1, <3>1
  <2>3. QED BY <1>1, <2>2
<1>3. QED BY <1>1, <1>2 DEF AllLines

\* The histories of all places.
LEMMA AllHistories ==
    ASSUME RunInv
    PROVE  ran \in [Places -> Seq(Entry)] /\ Repositories \subseteq Places /\ Everywhere \in Places
           /\ \A place \in Places : place \in Nat /\ ran[place] \in Seq(Entry)
<1>1. ran \in [Places -> Seq(Entry)]
  BY DEF RunInv, TypeOK, Entry, Places
<1>2. Repositories \subseteq Places /\ Everywhere \in Places /\ \A place \in Places : place \in Nat
  BY SomeRepository DEF Places, Everywhere
<1>3. QED BY <1>1, <1>2

\* The next repository is handed to a worker that had none.
LEMMA HandOverBooked ==
    ASSUME RunInv, Reported, NEW w \in Workers, HandOver(w)
    PROVE  Reported'
<1> DEFINE taken == [Idle EXCEPT !.pc = "taken", !.repository = next]
<1>1. /\ pc = "dispatch" /\ workers[w].pc = "idle"
      /\ workers' = [workers EXCEPT ![w] = taken]
      /\ UNCHANGED <<workflow, pc, at, operation, batch, results, operations, failures, returned, ran>>
  BY DEF HandOver, planned, outcome
<1>2. taken.pc = "taken" /\ taken.result = NoResult
  BY DEF Idle
<1> HIDE DEF taken
<1>3. workers \in [Workers -> WorkerType]
  BY DEF RunInv, TypeOK
<1>4. workers'[w] = taken /\ \A v \in Workers : v # w => workers'[v] = workers[v]
  BY <1>1, <1>3
<1>5. Start' = Start /\ Book' = Book
  BY <1>1 DEF Start, Book
<1>6. \A r \in Repositories : Untouched(r)' => Untouched(r)
  BY <1>1, <1>4 DEF Untouched
<1>7. \A v \in Workers : workers'[v].pc \notin {"off", "idle", "taken"} => workers'[v] = workers[v]
  BY <1>2, <1>4
<1>8. \A v \in Workers : workers'[v].pc = "taken" => workers'[v].result = NoResult
  BY <1>1, <1>2, <1>4 DEF Reported, Booked
<1>9. Booked'
  BY <1>1, <1>5, <1>6, <1>7, <1>8 DEF Reported, Booked
<1>10. Overall'
  BY <1>1, SameOverall DEF Reported
<1>11. QED BY <1>9, <1>10 DEF Reported

\* Nothing is told while it is planned.
LEMMA PlanBooked ==
    ASSUME RunInv, Reported, Plan
    PROVE  Reported'
BY DEF Plan, RunInv, Planning, Reported, Overall, Book, Booked, Places, AllEnded, AllBehind

\* A stage that joins the batch is told of later.
LEMMA CollectStageBooked ==
    ASSUME RunInv, Reported, CollectStage
    PROVE  Reported'
<1>1. /\ pc = "stage" /\ pc' = "stage" /\ at' = at + 1 /\ batch' = Append(batch, at)
      /\ UNCHANGED <<workflow, stages, operation, operations, failures, returned, ran>>
  BY DEF CollectStage, planned, outcome
<1>2. Start' = Start
  BY <1>1, InRun DEF Start
<1>3. Book' = Book
  BY <1>1 DEF Book
<1>4. QED BY <1>1, <1>2, <1>3 DEF Reported, Booked, Overall

\* A batch starts with empty results.
LEMMA StartBooked ==
    ASSUME RunInv, Reported, pc = "stage", StartPipelines,
           UNCHANGED <<planned, at, batch, outcome, ran>>
    PROVE  Reported'
<1>1. /\ pc' = "dispatch"
      /\ UNCHANGED <<workflow, stages, at, batch, operations, failures, returned, ran>>
      /\ workers' = [w \in Workers |-> IF w <= Parallelism THEN Idle ELSE Off]
      /\ results' = [r \in Repositories |-> NoResult]
  BY DEF StartPipelines, planned, outcome
<1>2. Start' = Start /\ Book' = Book
  BY <1>1 DEF Start, Book
<1>3. \A w \in Workers : workers'[w].pc \in {"idle", "off"}
  BY <1>1, IdleIsRecord
<1>4. Kept(workflow) /\ Start \in Nat
  BY InRun
<1>5. \A place \in Places : AllBehind(workflow, ran[place], Start, 1)
  BY DEF RunInv, Progress, Reported, Overall, Places
<1>6. ran \in [Places -> Seq(Entry)]
  BY AllHistories
<1>7. \A kind \in Kinds : Listed(workflow, Book[kind], AllLines(workflow, kind, ran, Nat))
  BY DEF Reported, Booked
<1>8. ASSUME NEW kind \in Kinds
      PROVE  /\ Listed(workflow, Book[kind], AllLines(workflow, kind, ran, Until(Start)))
             /\ \A r \in Repositories :
                  Listed(workflow, results'[r][kind], Lines(workflow, kind, r, ran[r], From(Start)))
  <2> DEFINE all == ran
             start == Start
  <2> HIDE DEF all, start
  <2>1. /\ \A place \in Places : Lines(workflow, kind, place, all[place], From(start)) = {}
        /\ AllLines(workflow, kind, all, Until(start)) = AllLines(workflow, kind, all, Nat)
    BY <1>4, <1>5, <1>6, EarlierLines DEF all, start
  <2>2. NoResult[kind] = <<>>
    BY DEF NoResult, Kinds
  <2>3. \A r \in Repositories : r \in Places /\ results'[r] = NoResult
    BY <1>1 DEF Places
  <2>4. QED BY <1>7, <2>1, <2>2, <2>3, NothingListed DEF all, start
<1>9. Booked'
  BY <1>1, <1>2, <1>3, <1>8 DEF Booked
<1>10. Overall'
  BY <1>1, <1>2 DEF Reported, Overall
<1>11. QED BY <1>9, <1>10 DEF Reported

\* Outside a batch only the lists and the histories matter.
LEMMA SameBook ==
    ASSUME Booked, pc \notin {"dispatch", "wait"}, pc' \notin {"dispatch", "wait"},
           UNCHANGED <<workflow, operations, failures, ran>>
    PROVE  Booked'
BY DEF Book, Booked

\* What has run once for all lies before the next stage as well.
LEMMA ReachGlobalStageBooked ==
    ASSUME RunInv, Reported, ReachGlobalStage
    PROVE  Reported'
BY StartBooked, InRun, SameBook DEF ReachGlobalStage, planned, outcome, Reported, Overall

\* The last batch starts, or all has ended.
LEMMA FinishStagesBooked ==
    ASSUME RunInv, Reported, FinishStages
    PROVE  Reported'
BY StartBooked, SameBook DEF FinishStages, planned, outcome, Reported, RunInv, Progress, Overall

\* The dispatcher closes the channel.
LEMMA StopDispatchingBooked ==
    ASSUME RunInv, Reported, StopDispatching
    PROVE  Reported'
BY DEF StopDispatching, planned, outcome, Start, Book, Untouched, Reported, Booked, Overall

\* A step that is run once for all begins: nothing to tell.
LEMMA BeginGlobalBooked ==
    ASSUME RunInv, Reported, BeginGlobal
    PROVE  Reported'
BY SameBook DEF BeginGlobal, planned, outcome, Reported, Overall

\* After a stage that runs by itself no batch is collected yet.
LEMMA LeaveGlobalStageBooked ==
    ASSUME RunInv, Reported, LeaveGlobalStage
    PROVE  Reported'
<1>1. /\ pc = "global" /\ pc' = "stage" /\ at' = at + 1
      /\ UNCHANGED <<workflow, stages, operation, batch, operations, failures, returned, ran>>
  BY DEF LeaveGlobalStage, planned, outcome
<1>2. Booked'
  BY <1>1, SameBook DEF Reported
<1>3. Kept(workflow) /\ at \in Nat /\ operation \in Nat /\ ran[Everywhere] \in Seq(Entry)
  BY <1>1, InRun, AllHistories
<1>4. batch = <<>>
  BY <1>1 DEF RunInv, Batching
<1>5. Start' = at + 1
  BY <1>1, <1>3, <1>4 DEF Start
<1>6. AllBehind(workflow, ran[Everywhere], at + 1, 1)
  <2>1. AllBehind(workflow, ran[Everywhere], at, operation)
    BY <1>1 DEF Reported, Overall
  <2>2. at \in Int /\ at + 1 \in Int /\ at < at + 1 /\ operation \in Int
    BY <1>3
  <2>3. QED BY <1>3, <2>1, <2>2, AllBehindMore
<1>7. Overall'
  BY <1>1, <1>5, <1>6 DEF Reported, Overall
<1>8. QED BY <1>2, <1>7 DEF Reported

\* The run returns what it has told.
LEMMA ReturnBooked ==
    ASSUME RunInv, Reported, Return
    PROVE  Reported'
BY SameBook DEF Return, planned, Reported, Overall

\* Neither a cancellation nor a stuttering step tells anything.
LEMMA SameReport ==
    ASSUME Reported, UNCHANGED <<planned, runner, workers, results, outcome, ran>>
    PROVE  Reported'
BY DEF planned, runner, outcome, Start, Book, Untouched, Reported, Booked, Overall

\* What an entry behind a stage adds is of an earlier stage.
LEMMA LineIsOf ==
    ASSUME NEW flow, Kept(flow), NEW kind \in Kinds, NEW place, NEW history \in Seq(Entry), NEW span,
           NEW x \in Lines(flow, kind, place, history, span)
    PROVE  /\ x.where = place /\ x.step \in Steps
           /\ StageIn(flow, x.step) \in span /\ StageIn(flow, x.step) \in Nat \ {0}
           /\ AloneIn(flow, StageIn(flow, x.step)) <=> place = Everywhere
           /\ \A k \in Int : AllBehind(flow, history, k, 1) => StageIn(flow, x.step) < k
<1>1. PICK i \in DOMAIN history :
        /\ Due(flow, kind, place, history[i], span)
        /\ x.where = place /\ x.step = history[i].step
  BY LineHasEntry
<1>2. x.step \in Steps
  <2>1. history[i] \in Entry
    OBVIOUS
  <2>2. QED BY <1>1, <2>1 DEF Entry
<1>3. /\ StageIn(flow, x.step) \in Nat \ {0}
      /\ SpotIn(flow, x.step) \in Int /\ SpotIn(flow, x.step) >= 1
  BY <1>2, PlacesAre
<1>4. /\ StageIn(flow, x.step) \in span
      /\ AloneIn(flow, StageIn(flow, x.step)) <=> place = Everywhere
  BY <1>1 DEF Due
<1>5. ASSUME NEW k \in Int, AllBehind(flow, history, k, 1) PROVE StageIn(flow, x.step) < k
  BY <1>1, <1>5, <1>3 DEF AllBehind, Behind
<1>6. QED BY <1>1, <1>2, <1>3, <1>4, <1>5

\* The results of a batch, repository by repository.
LEMMA BatchListed ==
    ASSUME NEW flow, Kept(flow), NEW start \in Nat \ {0}, NEW end \in Nat,
           \A k \in start .. end - 1 : ~AloneIn(flow, k), NEW kind \in Kinds,
           NEW all \in [Places -> Seq(Entry)], NEW found \in [Repositories -> Results],
           \A r \in Repositories :
               /\ AllBehind(flow, all[r], end, 1)
               /\ Listed(flow, found[r][kind], Lines(flow, kind, r, all[r], From(start)))
    PROVE  Listed(flow, FlattenSeq([r \in Repositories |-> found[r][kind]]),
                  UNION {Lines(flow, kind, r, all[r], From(start)) : r \in Repositories})
<1> DEFINE S == LineType(kind)
           parts == [r \in Repositories |-> found[r][kind]]
           lines == [r \in Repositories |-> Lines(flow, kind, r, all[r], From(start))]
<1>1. Repositories = 1 .. RepositoryCount /\ RepositoryCount \in Nat /\ RepositoryCount # 0
  BY WorkflowAssumption DEF Repositories
<1>2. parts \in Seq(Seq(S)) /\ Len(parts) = RepositoryCount /\ parts # <<>>
  <2>1. \A r \in 1 .. RepositoryCount : found[r][kind] \in Seq(S)
    BY <1>1, BooksType
  <2> DEFINE T == Seq(S)
             list(r) == found[r][kind]
             all0 == [r \in 1 .. RepositoryCount |-> list(r)]
  <2>2. \A r \in 1 .. RepositoryCount : list(r) \in T
    BY <2>1
  <2> HIDE DEF S, T, list
  <2>3. all0 \in Seq(T)
    BY <1>1, <2>2
  <2>4. Len(all0) = RepositoryCount
    BY <1>1
  <2>5. all0 # <<>>
    BY <1>1, <2>4
  <2>6. all0 = parts
    BY <1>1 DEF list
  <2> HIDE DEF all0, parts
  <2>7. QED BY <2>3, <2>4, <2>5, <2>6 DEF T
<1>3. \A r \in Repositories : r \in Places /\ all[r] \in Seq(Entry)
  BY DEF Places
<1>4. \A r \in Repositories : Listed(flow, parts[r], lines[r])
  OBVIOUS
<1>5. ASSUME NEW r \in Repositories, NEW x \in lines[r]
      PROVE  x.where = r /\ StageIn(flow, x.step) \in start .. end - 1
  <2>1. x \in Lines(flow, kind, r, all[r], From(start)) /\ AllBehind(flow, all[r], end, 1)
    BY <1>5
  <2>2. all[r] \in Seq(Entry)
    BY <1>3
  <2> DEFINE history == all[r]
             span == From(start)
             k == StageIn(flow, x.step)
  <2>3. x.where = r /\ k \in span /\ k < end
    <3> HIDE DEF history, span
    <3>1. x \in Lines(flow, kind, r, history, span) /\ history \in Seq(Entry)
          /\ AllBehind(flow, history, end, 1) /\ end \in Int
      BY <2>1, <2>2 DEF history, span
    <3>2. QED BY <3>1, LineIsOf
  <2> HIDE DEF k
  <2>4. k \in start .. end - 1
    BY <2>3 DEF From
  <2>5. QED BY <2>3, <2>4 DEF k
<1>6. ASSUME NEW i \in Repositories, NEW j \in Repositories, i < j,
             NEW a \in lines[i], NEW b \in lines[j]
      PROVE  Sooner(flow, a, b)
  BY <1>5, <1>6, SoonerInBatch
<1> HIDE DEF parts, lines, S
<1> DEFINE total == UNION {Lines(flow, kind, r, all[r], From(start)) : r \in Repositories}
<1>7. \A x : x \in total <=> \E i \in 1 .. Len(parts) : x \in lines[i]
  BY <1>1, <1>2 DEF lines
<1> HIDE DEF total
<1>8. Listed(flow, FlattenSeq(parts), total)
  BY <1>1, <1>2, <1>4, <1>6, <1>7, ListedAll
<1>9. QED BY <1>8 DEF parts, total

\* A stage is before the batch or not.
LEMMA AllStages ==
    ASSUME NEW flow, NEW kind, NEW place, NEW history, NEW start \in Nat
    PROVE  Lines(flow, kind, place, history, Nat) =
             Lines(flow, kind, place, history, Until(start)) \cup
             Lines(flow, kind, place, history, From(start))
BY LinesOfBoth DEF Until, From

\* After what was told before the batch.
LEMMA BatchFollows ==
    ASSUME NEW flow, Kept(flow), NEW start \in Nat \ {0}, start = 1 \/ AloneIn(flow, start - 1),
           NEW kind \in Kinds, NEW all \in [Places -> Seq(Entry)],
           AllBehind(flow, all[Everywhere], start, 1),
           NEW S, NEW told \in Seq(S), NEW more \in Seq(S),
           Listed(flow, told, AllLines(flow, kind, all, Until(start))),
           Listed(flow, more, UNION {Lines(flow, kind, r, all[r], From(start)) : r \in Repositories})
    PROVE  Listed(flow, told \o more, AllLines(flow, kind, all, Nat))
<1> DEFINE before == AllLines(flow, kind, all, Until(start))
           after == UNION {Lines(flow, kind, r, all[r], From(start)) : r \in Repositories}
<1>1. \A place \in Places : all[place] \in Seq(Entry)
  OBVIOUS
<1>2. ASSUME NEW x \in before PROVE StageIn(flow, x.step) \in Nat \ {0} /\ StageIn(flow, x.step) < start
  <2>1. PICK place \in Places : x \in Lines(flow, kind, place, all[place], Until(start))
    BY <1>2 DEF AllLines
  <2> DEFINE history == all[place]
             span == Until(start)
             k == StageIn(flow, x.step)
  <2>2. k \in Nat \ {0} /\ k \in span
    <3> HIDE DEF span
    <3>1. x \in Lines(flow, kind, place, history, span) /\ history \in Seq(Entry)
      BY <1>1, <2>1 DEF span
    <3> HIDE DEF history
    <3>2. QED BY <3>1, LineIsOf
  <2> HIDE DEF k
  <2>3. k < start
    BY <2>2 DEF Until
  <2>4. QED BY <2>2, <2>3 DEF k
<1>3. ASSUME NEW x \in after PROVE StageIn(flow, x.step) \in Nat \ {0} /\ StageIn(flow, x.step) >= start
  <2>1. PICK r \in Repositories : x \in Lines(flow, kind, r, all[r], From(start))
    BY <1>3
  <2> DEFINE history == all[r]
             span == From(start)
             k == StageIn(flow, x.step)
  <2>2. k \in Nat \ {0} /\ k \in span
    <3> HIDE DEF span
    <3>1. x \in Lines(flow, kind, r, history, span) /\ history \in Seq(Entry)
      BY <1>1, <2>1 DEF span, Places
    <3> HIDE DEF history
    <3>2. QED BY <3>1, LineIsOf
  <2> HIDE DEF k
  <2>3. k >= start
    BY <2>2 DEF From
  <2>4. QED BY <2>2, <2>3 DEF k
<1>4. ASSUME NEW a \in before, NEW b \in after PROVE Sooner(flow, a, b)
  <2> DEFINE i == StageIn(flow, a.step)
             j == StageIn(flow, b.step)
  <2>1. i \in Nat \ {0} /\ i < start /\ j \in Nat \ {0} /\ j >= start
    BY <1>2, <1>3, <1>4
  <2> HIDE DEF i, j
  <2>2. start # 1
    BY <2>1
  <2>3. start - 1 \in Int /\ AloneIn(flow, start - 1)
    BY <2>2
  <2>4. i \in Int /\ j \in Int /\ i <= start - 1 /\ start - 1 <= j /\ i < j
    BY <2>1
  <2>5. QED BY <2>3, <2>4, SoonerByCut DEF i, j
<1> HIDE DEF before, after
<1>5. Listed(flow, told, before) /\ Listed(flow, more, after)
  BY DEF before, after
<1>6. Listed(flow, told \o more, before \cup after)
  BY <1>4, <1>5, ListedBoth
<1>7. Lines(flow, kind, Everywhere, all[Everywhere], From(start)) = {}
  BY <1>1, NoLines DEF From, Places
<1>8. AllLines(flow, kind, all, Nat) = before \cup after
  BY AllStages, <1>7 DEF AllLines, before, Places, after
<1>9. QED BY <1>6, <1>8

\* The results of the batch are told of after what was told before.
LEMMA CollectResultsBooked ==
    ASSUME RunInv, Reported, CollectResults
    PROVE  Reported'
<1>1. /\ pc = "wait" /\ \A w \in Workers : workers[w].pc = "off"
      /\ operations' = operations \o BatchOperations /\ failures' = failures \o BatchFailures
      /\ batch' = <<>> /\ pc' \in {"return", "global"}
      /\ UNCHANGED <<workflow, stages, at, operation, returned, ran>>
  BY DEF CollectResults, planned
<1>2. /\ Kept(workflow) /\ Start \in Nat \ {0} /\ at \in Nat /\ at >= 1 /\ Start <= at
      /\ Start + Len(batch) = at /\ Len(batch) \in Nat /\ operation \in Nat /\ operation >= 1
  BY <1>1, InRun
<1>3. \A k \in Start .. at - 1 : ~AloneIn(workflow, k)
  <2> SUFFICES ASSUME NEW k \in Start .. at - 1 PROVE ~AloneIn(workflow, k)
    OBVIOUS
  <2>1. k - Start + 1 \in 1 .. Len(batch) /\ Start + (k - Start + 1) - 1 = k
    BY <1>2
  <2>2. batch[k - Start + 1] = k /\ ~AloneIn(workflow, batch[k - Start + 1])
    BY <2>1 DEF RunInv, Batching
  <2>3. QED BY <2>2
<1>4. Start = 1 \/ AloneIn(workflow, Start - 1)
  BY <1>1 DEF RunInv, Batching
<1>5. \A r \in Repositories : AllEnded(ran[r]) /\ AllBehind(workflow, ran[r], at, 1)
  BY <1>1 DEF Free, Busy, RunInv, Progress
<1>6. \A kind \in Kinds : \A r \in Repositories :
        Listed(workflow, results[r][kind], Lines(workflow, kind, r, ran[r], From(Start)))
  BY <1>1 DEF Untouched, Reported, Booked
<1>7. \A kind \in Kinds : Listed(workflow, Book[kind], AllLines(workflow, kind, ran, Until(Start)))
  BY <1>1 DEF Reported, Booked
<1>8. AllBehind(workflow, ran[Everywhere], Start, 1)
  BY <1>1 DEF Reported, Overall
<1>9. ran \in [Places -> Seq(Entry)]
  BY AllHistories
<1>10. results \in [Repositories -> Results] /\ Book \in Results
  BY DEF RunInv, TypeOK, Book
<1>11. ASSUME NEW kind \in Kinds
       PROVE  Listed(workflow, Book'[kind], AllLines(workflow, kind, ran, Nat))
  <2> DEFINE start == Start
             all == ran
             found == results
             flow == workflow
             told == Book[kind]
             more == FlattenSeq([r \in Repositories |-> found[r][kind]])
             after == UNION {Lines(flow, kind, r, all[r], From(start)) : r \in Repositories}
  <2> HIDE DEF start, all, found, flow, told
  <2>1. Listed(flow, more, after)
    <3>1. Kept(flow) /\ start \in Nat \ {0} /\ at \in Nat
          /\ \A k \in start .. at - 1 : ~AloneIn(flow, k)
      BY <1>2, <1>3 DEF flow, start
    <3>2. all \in [Places -> Seq(Entry)] /\ found \in [Repositories -> Results]
      BY <1>9, <1>10 DEF all, found
    <3>3. \A r \in Repositories :
            /\ AllBehind(flow, all[r], at, 1)
            /\ Listed(flow, found[r][kind], Lines(flow, kind, r, all[r], From(start)))
      BY <1>5, <1>6 DEF flow, all, found, start
    <3>4. QED BY <3>1, <3>2, <3>3, BatchListed, SMTT(20)
  <2>2. told \in Seq(LineType(kind)) /\ more \in Seq(LineType(kind))
    BY <1>10, BooksType, BatchIsTyped DEF told, BatchOperations, found, LineType, BatchFailures, Kinds
  <2>3. Book'[kind] = told \o more
    <3>1. CASE kind = "operations"
      BY <1>1, <3>1 DEF BatchOperations, Book, told, found
    <3>2. CASE kind = "failures"
      BY <1>1, <3>2 DEF BatchFailures, Book, told, found
    <3>3. QED BY <3>1, <3>2 DEF Kinds
  <2> HIDE DEF more
  <2>4. Listed(flow, told \o more, AllLines(flow, kind, all, Nat))
    <3>1. Kept(flow) /\ start \in Nat \ {0} /\ (start = 1 \/ AloneIn(flow, start - 1))
      BY <1>2, <1>4 DEF flow, start
    <3>2. all \in [Places -> Seq(Entry)] /\ AllBehind(flow, all[Everywhere], start, 1)
      BY <1>8, <1>9 DEF flow, all, start
    <3>3. Listed(flow, told, AllLines(flow, kind, all, Until(start)))
      BY <1>7 DEF flow, all, start, told
    <3> HIDE DEF after
    <3>4. Listed(flow, more, after)
      BY <2>1
    <3>5. QED BY <2>2, <3>1, <3>2, <3>3, <3>4, BatchFollows DEF after
  <2>5. QED BY <2>3, <2>4 DEF flow, all
<1>12. Booked'
  BY <1>1, <1>11 DEF Booked
<1>13. AllBehind(workflow, ran[Everywhere], at, operation)
  BY <1>2, AllHistories, <1>8, AllBehindMore
<1>14. Overall'
  BY <1>1, <1>5, <1>13 DEF Reported, Overall
<1>15. QED BY <1>12, <1>14 DEF Reported

\* The step that comes next in a stage that runs by itself.
AtStep(flow, k, p, step) ==
    /\ Kept(flow) /\ k \in 1 .. Len(PlanOperationStages(flow)) /\ AloneIn(flow, k)
    /\ p \in 1 .. Len(PlanOperationStages(flow)[k])
    /\ step = PlanOperationStages(flow)[k][p]

\* Where it is in the plan.
LEMMA StepIs ==
    ASSUME NEW flow, NEW k, NEW p, NEW step, AtStep(flow, k, p, step)
    PROVE  /\ Kept(flow) /\ AloneIn(flow, k) /\ step \in Steps /\ k \in Nat /\ p \in Nat
           /\ StageIn(flow, step) = k /\ SpotIn(flow, step) = p
<1>1. step \in Steps /\ StageIn(flow, step) = k /\ SpotIn(flow, step) = p
  BY PlacesAre DEF AtStep
<1>2. k \in Nat /\ p \in Nat
  BY DEF AtStep
<1>3. QED BY <1>1, <1>2 DEF AtStep

\* When it has ended it is behind.
LEMMA StepPasses ==
    ASSUME NEW flow, NEW k, NEW p, NEW step, AtStep(flow, k, p, step),
           NEW history \in Seq(Entry), AllEnded(history), AllBehind(flow, history, k, p),
           NEW verdict \in Verdicts
    PROVE  LET longer == Append(history, [step |-> step, verdict |-> verdict])
           IN AllEnded(longer) /\ AllBehind(flow, longer, k, p + 1)
<1> DEFINE entry == [step |-> step, verdict |-> verdict]
           longer == Append(history, entry)
           n == Len(history)
<1>1. /\ Kept(flow) /\ step \in Steps /\ k \in Nat /\ p \in Nat
      /\ StageIn(flow, step) = k /\ SpotIn(flow, step) = p
  BY StepIs
<1>2. entry \in Entry /\ entry.step = step /\ entry.verdict # "running"
  BY <1>1 DEF Entry, Verdicts
<1> HIDE DEF entry
<1>3. /\ n \in Nat /\ DOMAIN history = 1 .. n /\ DOMAIN longer = 1 .. n + 1
      /\ longer[n + 1] = entry /\ \A i \in 1 .. n : longer[i] = history[i]
  BY <1>2
<1> HIDE DEF longer, n
<1>4. AllBehind(flow, history, k, p + 1)
  BY <1>1, AllBehindMore
<1>5. ASSUME NEW i \in DOMAIN longer
      PROVE  longer[i].verdict # "running" /\ Behind(flow, longer[i].step, k, p + 1)
  BY <1>3, <1>1, <1>2, <1>4 DEF Behind, AllEnded, AllBehind
<1>6. QED BY <1>5 DEF AllEnded, AllBehind, longer, entry

\* It has run in some repositories, and ended so everywhere.
Passed(all, next1, step, joined) ==
    /\ next1[Everywhere] = Append(all[Everywhere], [step |-> step, verdict |-> joined])
    /\ \A r \in Repositories :
         \/ next1[r] = all[r]
         \/ \E verdict \in Verdicts : next1[r] = Append(all[r], [step |-> step, verdict |-> verdict])

\* It adds one line at most, the one of what was run once for all.
LEMMA StepAddsLine ==
    ASSUME NEW flow, NEW k, NEW p, NEW step, AtStep(flow, k, p, step), NEW kind \in Kinds,
           NEW all \in [Places -> Seq(Entry)], NEW new, NEW joined \in Verdicts,
           Passed(all, new, step, joined)
    PROVE  AllLines(flow, kind, new, Nat) =
             AllLines(flow, kind, all, Nat) \cup
             (IF Tellable(kind, joined)
              THEN {Line(kind, Everywhere, [step |-> step, verdict |-> joined])} ELSE {})
<1> DEFINE last == [step |-> step, verdict |-> joined]
           more == IF Tellable(kind, joined) THEN {Line(kind, Everywhere, last)} ELSE {}
           Of(place) == Lines(flow, kind, place, all[place], Nat)
           Now(place) == Lines(flow, kind, place, new[place], Nat)
<1>1. step \in Steps /\ StageIn(flow, step) = k /\ k \in Nat /\ AloneIn(flow, k)
  BY StepIs
<1>2. \A place \in Places : all[place] \in Seq(Entry)
  OBVIOUS
<1>3. ASSUME NEW r \in Repositories PROVE Now(r) = Of(r)
  <2>1. CASE new[r] = all[r]
    BY <2>1
  <2>2. CASE new[r] # all[r]
    <3>1. PICK verdict \in Verdicts : new[r] = Append(all[r], [step |-> step, verdict |-> verdict])
      BY <2>2 DEF Passed
    <3> DEFINE e == [step |-> step, verdict |-> verdict]
               history == all[r]
    <3>2. e \in Entry /\ e.step = step /\ history \in Seq(Entry)
      BY <1>1, <1>2 DEF Entry, Places
    <3>3. r # Everywhere
      BY SomeRepository
    <3> HIDE DEF e, history
    <3>4. ~Due(flow, kind, r, e, Nat)
      BY <1>1, <3>2, <3>3 DEF Due
    <3>5. Lines(flow, kind, r, Append(history, e), Nat) =
            Lines(flow, kind, r, history, Nat) \cup
            (IF Due(flow, kind, r, e, Nat) THEN {Line(kind, r, e)} ELSE {})
      BY <3>2, LinesMore
    <3>6. Lines(flow, kind, r, Append(history, e), Nat) = Lines(flow, kind, r, history, Nat)
      BY <3>4, <3>5
    <3>7. QED BY <3>1, <3>6 DEF e, history
  <2>3. QED BY <2>1, <2>2
<1>4. Now(Everywhere) = Of(Everywhere) \cup more
  <2>1. last \in Entry /\ last.step = step /\ last.verdict = joined
    BY <1>1 DEF Entry
  <2>2. new[Everywhere] = Append(all[Everywhere], last)
    BY DEF Passed
  <2> DEFINE history == all[Everywhere]
  <2>3. history \in Seq(Entry)
    BY <1>2 DEF Places
  <2> HIDE DEF last, history
  <2>4. Due(flow, kind, Everywhere, last, Nat) <=> Tellable(kind, joined)
    BY <1>1, <2>1 DEF Due
  <2>5. Lines(flow, kind, Everywhere, Append(history, last), Nat) =
          Lines(flow, kind, Everywhere, history, Nat) \cup
          (IF Due(flow, kind, Everywhere, last, Nat) THEN {Line(kind, Everywhere, last)} ELSE {})
    BY <2>1, <2>3, LinesMore
  <2>6. QED BY <2>2, <2>4, <2>5 DEF history
<1> DEFINE before == AllLines(flow, kind, all, Nat)
           after == AllLines(flow, kind, new, Nat)
<1>5. \A x : x \in before <=> \E place \in Places : x \in Of(place)
  BY DEF AllLines
<1>6. \A x : x \in after <=> \E place \in Places : x \in Now(place)
  BY DEF AllLines
<1>7. \A place \in Places : place = Everywhere \/ place \in Repositories
  BY DEF Places
<1>8. Everywhere \in Places
  BY DEF Places
<1> HIDE DEF more, Of, Now, before, after
<1>9. ASSUME NEW x \in after PROVE x \in before \cup more
  BY <1>3, <1>4, <1>5, <1>6, <1>7, <1>9
<1>10. ASSUME NEW x \in before PROVE x \in after
  BY <1>3, <1>4, <1>5, <1>6, <1>7, <1>10
<1>11. ASSUME NEW x \in more PROVE x \in after
  BY <1>4, <1>6, <1>8, <1>11
<1>12. after = before \cup more
  BY <1>9, <1>10, <1>11
<1>13. QED BY <1>12 DEF before, after, more, last

\* Its line comes after all lines.
LEMMA StepIsToldLast ==
    ASSUME NEW flow, NEW k, NEW p, NEW step, AtStep(flow, k, p, step), NEW kind \in Kinds,
           NEW all \in [Places -> Seq(Entry)],
           \A place \in Places : AllBehind(flow, all[place], k, p),
           NEW x \in AllLines(flow, kind, all, Nat), NEW line,
           line.where = Everywhere, line.step = step
    PROVE  Sooner(flow, x, line)
<1>1. PICK place \in Places : x \in Lines(flow, kind, place, all[place], Nat)
  BY DEF AllLines
<1> DEFINE history == all[place]
           i == StageIn(flow, x.step)
<1>2. history \in Seq(Entry) /\ AllBehind(flow, history, k, p)
      /\ x \in Lines(flow, kind, place, history, Nat)
  BY <1>1
<1>3. /\ Kept(flow) /\ step \in Steps /\ k \in Nat /\ p \in Nat /\ AloneIn(flow, k)
      /\ StageIn(flow, step) = k /\ SpotIn(flow, step) = p
  BY StepIs
<1> HIDE DEF history
<1>4. /\ x.where = place /\ x.step \in Steps /\ i \in Nat \ {0}
      /\ AloneIn(flow, i) <=> place = Everywhere
  BY <1>2, <1>3, LineIsOf
<1>5. Behind(flow, x.step, k, p)
  <2>1. PICK j \in DOMAIN history : x.step = history[j].step
    BY <1>2, LineHasEntry
  <2>2. QED BY <1>2, <2>1 DEF AllBehind
<1> HIDE DEF i
<1>6. i < k \/ i = k
  BY <1>5 DEF Behind, i
<1>7. CASE i < k
  BY <1>3, <1>4, <1>7, SoonerByCut DEF i
<1>8. CASE i = k
  BY <1>3, <1>4, <1>8, <1>5, SoonerInPlace
<1>9. QED BY <1>6, <1>7, <1>8

\* What the list of a kind becomes when a step is run once for all.
LEMMA StepListed ==
    ASSUME NEW flow, NEW k, NEW p, NEW step, AtStep(flow, k, p, step), NEW kind \in Kinds,
           NEW all \in [Places -> Seq(Entry)], NEW new, NEW joined \in Verdicts,
           Passed(all, new, step, joined),
           \A place \in Places : AllBehind(flow, all[place], k, p),
           NEW told \in Seq(LineType(kind)), Listed(flow, told, AllLines(flow, kind, all, Nat))
    PROVE  Listed(flow,
                  IF Tellable(kind, joined)
                  THEN Append(told, Line(kind, Everywhere, [step |-> step, verdict |-> joined]))
                  ELSE told,
                  AllLines(flow, kind, new, Nat))
<1> DEFINE last == [step |-> step, verdict |-> joined]
           line == Line(kind, Everywhere, last)
           before == AllLines(flow, kind, all, Nat)
           after == AllLines(flow, kind, new, Nat)
<1>1. after = before \cup (IF Tellable(kind, joined) THEN {line} ELSE {})
  BY StepAddsLine
<1>2. step \in Steps
  BY StepIs
<1>3. last.step = step /\ Everywhere \in Nat
  BY DEF Everywhere
<1> HIDE DEF last
<1>4. line.where = Everywhere /\ line.step = step /\ line \in LineType(kind)
  BY <1>2, <1>3, LineIs, LineTyped
<1> HIDE DEF line
<1>5. \A x \in before : Sooner(flow, x, line)
  BY <1>4, StepIsToldLast
<1> HIDE DEF before, after
<1>6. Listed(flow, told, before)
  BY DEF before
<1>7. CASE Tellable(kind, joined)
  BY <1>4, <1>5, <1>6, ListedMore, <1>1, <1>7 DEF line, last, after
<1>8. CASE ~Tellable(kind, joined)
  BY <1>1, <1>6, <1>8 DEF after
<1>9. QED BY <1>7, <1>8

\* A step that is run once for all ends, and is told of once.
LEMMA EndGlobalBooked ==
    ASSUME RunInv, Reported, EndGlobal
    PROVE  Reported'
<1> DEFINE step == stages[at][operation]
<1>1. PICK verdict \in Endings :
        LET joined == Joined(Range(verdict))
        IN /\ ran' = [r \in DOMAIN ran |->
                        LET own == IF r = Everywhere THEN joined ELSE verdict[r]
                        IN IF own = "unreached" THEN ran[r]
                           ELSE Append(ran[r], [step |-> step, verdict |-> own])]
           /\ IF joined = "cancelled"
              THEN /\ pc' = "stage" /\ at' = at + 1
                   /\ UNCHANGED <<operation, operations, failures>>
              ELSE /\ pc' = "global" /\ operation' = operation + 1
                   /\ operations' = Append(operations,
                        [where |-> Everywhere, step |-> step, failed |-> joined # "ok"])
                   /\ failures' = IF joined = "failed"
                                  THEN Append(failures, [where |-> Everywhere, step |-> step])
                                  ELSE failures
                   /\ UNCHANGED at
  BY DEF EndGlobal
<1> DEFINE joined == Joined(Range(verdict))
<1>2. pc = "running" /\ UNCHANGED <<workflow, stages, batch, returned>>
  BY DEF EndGlobal, planned
<1>3. /\ \A r \in Repositories : verdict[r] \in Verdicts \cup {"unreached"}
      /\ joined \in Verdicts
  BY EndingIs
<1> HIDE DEF joined
<1>4. /\ Kept(workflow) /\ stages = PlanOperationStages(workflow)
      /\ Len(stages) \in Nat /\ at \in Nat /\ at >= 1 /\ operation \in Nat /\ operation >= 1
  BY <1>2, InRun
<1>5. at <= Len(stages) /\ AloneIn(workflow, at) /\ batch = <<>> /\ operation <= Len(stages[at])
  BY <1>2 DEF RunInv, Batching
<1>6. at \in 1 .. Len(stages)
  BY <1>4, <1>5
<1>7. operation \in 1 .. Len(stages[at])
  BY <1>4, <1>6, PlacesAre, <1>5
<1>8. AtStep(workflow, at, operation, step)
  BY <1>4, <1>5, <1>6, <1>7 DEF AtStep
<1> HIDE DEF step
<1>9. ran \in [Places -> Seq(Entry)]
  BY AllHistories
<1>10. Passed(ran, ran', step, joined)
  BY <1>3, <1>9, <1>1, SomeRepository DEF Places, Verdicts, joined, Passed
<1>11. \A place \in Places : AllBehind(workflow, ran[place], at, operation)
  BY <1>2 DEF RunInv, Progress, Reported, Overall, Places
<1>12. \A place \in Places : AllEnded(ran[place])
  BY <1>2 DEF RunInv, Progress, Reported, Overall, Places
<1>13. pc' \in {"stage", "global"} /\ returned # "refused"
  BY <1>1, <1>2 DEF RunInv, Planning
<1>14. Book \in Results
  BY DEF RunInv, TypeOK, Book
<1>15. ASSUME NEW kind \in Kinds
       PROVE  Book'[kind] = IF Tellable(kind, joined)
                            THEN Append(Book[kind],
                                        Line(kind, Everywhere, [step |-> step, verdict |-> joined]))
                            ELSE Book[kind]
  <2> DEFINE last == [step |-> step, verdict |-> joined]
  <2>1. /\ Line("operations", Everywhere, last) =
             [where |-> Everywhere, step |-> step, failed |-> joined # "ok"]
        /\ Line("failures", Everywhere, last) = [where |-> Everywhere, step |-> step]
    BY DEF Line
  <2> HIDE DEF last
  <2>2. CASE joined = "cancelled"
    BY <1>1, <2>2 DEF joined, Book, Tellable
  <2>3. CASE joined # "cancelled"
    <3>1. /\ operations' = Append(operations, Line("operations", Everywhere, last))
          /\ failures' = IF joined = "failed"
                         THEN Append(failures, Line("failures", Everywhere, last)) ELSE failures
      BY <1>1, <2>1, <2>3 DEF joined
    <3>2. CASE kind = "operations"
      BY <1>3, <2>3, <3>2, <3>1 DEF Tellable, Verdicts, Book, last
    <3>3. CASE kind = "failures"
      BY <1>3, <2>3, <3>3, <3>1 DEF Tellable, Verdicts, Book, last
    <3>4. QED BY <3>2, <3>3 DEF Kinds
  <2>4. QED BY <2>2, <2>3
<1>16. ASSUME NEW kind \in Kinds
       PROVE  Listed(workflow, Book'[kind], AllLines(workflow, kind, ran', Nat))
  <2>1. Listed(workflow, Book[kind], AllLines(workflow, kind, ran, Nat))
    BY <1>2 DEF Reported, Booked
  <2>2. Book[kind] \in Seq(LineType(kind))
    BY <1>14, BooksType
  <2> DEFINE told == Book[kind]
             all == ran
             new == ran'
             flow == workflow
             k == at
             p == operation
  <2> HIDE DEF told, all, new, flow, k, p
  <2>3. Listed(flow,
               IF Tellable(kind, joined)
               THEN Append(told, Line(kind, Everywhere, [step |-> step, verdict |-> joined]))
               ELSE told,
               AllLines(flow, kind, new, Nat))
    BY <1>8, <1>9, <1>10, <1>11, <2>1, <2>2, <1>3, StepListed DEF flow, k, p, all, new, told
  <2>4. QED BY <1>15, <2>3 DEF flow, told, new
<1>17. Booked'
  BY <1>2, <1>16, <1>13 DEF Booked
<1>18. AllEnded(ran'[Everywhere]) /\ AllBehind(workflow, ran'[Everywhere], at, operation + 1)
  <2> DEFINE history == ran[Everywhere]
             flow == workflow
             k == at
             p == operation
  <2>1. history \in Seq(Entry) /\ AllEnded(history) /\ AllBehind(flow, history, k, p)
    BY <1>9, <1>11, <1>12 DEF Places
  <2>2. AtStep(flow, k, p, step)
    BY <1>8
  <2>3. ran'[Everywhere] = Append(history, [step |-> step, verdict |-> joined])
    BY <1>10 DEF Passed
  <2> HIDE DEF history, flow, k, p
  <2>4. LET longer == Append(history, [step |-> step, verdict |-> joined])
        IN AllEnded(longer) /\ AllBehind(flow, longer, k, p + 1)
    BY <1>3, <2>1, <2>2, StepPasses
  <2>5. QED BY <2>3, <2>4 DEF flow, k, p
<1>19. Overall'
  <2>1. CASE joined = "cancelled"
    <3>1. pc' = "stage" /\ at' = at + 1
      BY <1>1, <2>1 DEF joined
    <3>2. Start' = at + 1
      BY <1>2, <1>4, <1>5, <3>1 DEF Start
    <3> DEFINE history == ran'[Everywhere]
               p == operation + 1
               k == at + 1
    <3>3. history \in Seq(Entry)
      <4>1. ran[Everywhere] \in Seq(Entry) /\ step \in Steps
        BY <1>8, <1>9, StepIs DEF Places
      <4>2. [step |-> step, verdict |-> joined] \in Entry
        BY <1>3, <4>1 DEF Entry
      <4>3. QED BY <1>10, <4>1, <4>2 DEF Passed
    <3>4. AllBehind(workflow, history, at, p) /\ p \in Int /\ k \in Int /\ at < k /\ at \in Int
      BY <1>4, <1>18
    <3> HIDE DEF history, p, k
    <3>5. AllBehind(workflow, history, k, 1)
      BY <1>4, <3>3, <3>4, AllBehindMore
    <3>6. QED BY <1>2, <1>13, <1>18, <3>1, <3>2, <3>5 DEF Overall, history, k
  <2>2. CASE joined # "cancelled"
    BY <1>1, <2>2, <1>2, <1>13, <1>18 DEF joined, Overall
  <2>3. QED BY <2>1, <2>2
<1>20. QED BY <1>17, <1>19 DEF Reported

\* In a plan the steps of a stage are in the order of the file.
LEMMA StageRises ==
    ASSUME NEW flow, Kept(flow), NEW a \in Steps, NEW b \in Steps,
           Behind(flow, a, StageIn(flow, b), SpotIn(flow, b))
    PROVE  \/ StageIn(flow, a) < StageIn(flow, b)
           \/ /\ StageIn(flow, a) = StageIn(flow, b)
              /\ Position(flow, a) < Position(flow, b)
<1> DEFINE plan == PlanOperationStages(flow)
           k == StageIn(flow, b)
           stage == plan[k]
<1>1. CASE StageIn(flow, a) < StageIn(flow, b)
  BY <1>1
<1>2. CASE StageIn(flow, a) = StageIn(flow, b) /\ SpotIn(flow, a) < SpotIn(flow, b)
  <2>1. k \in 1 .. Len(plan) /\ plan[k] \in Seq(Steps)
    BY PlacesAre
  <2>2. Rising(flow, plan[k])
    BY <2>1, PlanShape DEF Kept
  <2>3. /\ SpotIn(flow, a) \in 1 .. Len(plan[StageIn(flow, a)])
        /\ plan[StageIn(flow, a)][SpotIn(flow, a)] = a
        /\ SpotIn(flow, b) \in 1 .. Len(plan[k]) /\ plan[k][SpotIn(flow, b)] = b
    BY PlacesAre
  <2> HIDE DEF plan
  <2>4. SpotIn(flow, a) \in DOMAIN stage /\ SpotIn(flow, b) \in DOMAIN stage
        /\ stage[SpotIn(flow, a)] = a /\ stage[SpotIn(flow, b)] = b
    BY <1>2, <2>1, <2>3
  <2> HIDE DEF stage
  <2>5. Rising(flow, stage)
    BY <2>2 DEF stage
  <2>6. Position(flow, a) < Position(flow, b)
    BY <1>2, <2>4, <2>5 DEF Rising
  <2>7. QED BY <1>2, <2>6
<1>3. QED BY <1>1, <1>2 DEF Behind

\* What is listed of a run that is planned.
LEMMA SoonerPrecedes ==
    ASSUME Kept(workflow), stages = PlanOperationStages(workflow),
           NEW a, NEW b, a.step \in Steps, b.step \in Steps, Sooner(workflow, a, b)
    PROVE  Precedes(a, b)
<1> DEFINE i == StageIn(workflow, a.step)
           j == StageIn(workflow, b.step)
<1>1. StageNumber(a.step) = i /\ StageNumber(b.step) = j
  BY DEF StageNumber, StageIn
<1>2. \A k : Global(k) <=> AloneIn(workflow, k)
  BY ScopedIs DEF Global
<1>3. \A k, l : Cut(k, l) <=> CutIn(workflow, k, l)
  BY <1>2 DEF Cut, CutIn
<1>4. \/ CutIn(workflow, i, j)
      \/ /\ ~CutIn(workflow, j, i)
         /\ \/ a.where < b.where
            \/ a.where = b.where /\ Behind(workflow, a.step, j, SpotIn(workflow, b.step))
  BY DEF Sooner
<1>5. Behind(workflow, a.step, j, SpotIn(workflow, b.step)) =>
        i < j \/ (i = j /\ Position(workflow, a.step) < Position(workflow, b.step))
  BY StageRises
<1> HIDE DEF i, j
<1>6. QED BY <1>1, <1>3, <1>4, <1>5 DEF Precedes

\* The lines of one step are in the order of the repositories.
LEMMA SoonerElsewhere ==
    ASSUME Kept(workflow), NEW a, NEW b, a.step \in Steps, b.step = a.step, Sooner(workflow, a, b)
    PROVE  a.where < b.where
<1>1. StageIn(workflow, a.step) \in Int /\ SpotIn(workflow, a.step) \in Int
  BY PlacesAre
<1>2. QED BY <1>1 DEF Sooner, CutIn, Behind

\* What is listed tells where, and of which step.
LEMMA OperationsAre ==
    ASSUME operations \in Seq([where: Nat, step: Steps, failed: BOOLEAN]), NEW i \in DOMAIN operations
    PROVE  operations[i].where \in Nat /\ operations[i].step \in Steps
<1> DEFINE T == [where: Nat, step: Steps, failed: BOOLEAN]
<1>1. operations \in Seq(T)
  OBVIOUS
<1> HIDE DEF T
<1>2. operations[i] \in T
  BY <1>1
<1>3. QED BY <1>2 DEF T

\* What is found under a key, if the lines of one step are in the order of the
\* repositories: of a set of positions one is the last.
LEMMA LastIsTold ==
    ASSUME operations \in Seq([where: Nat, step: Steps, failed: BOOLEAN]),
           Range(operations) = SequentialOperations,
           \A i, j \in DOMAIN operations :
             i < j /\ operations[i].step = operations[j].step => operations[i].where < operations[j].where,
           NEW label \in Labellings
    PROVE  ToldOfTheLast(label)
<1> DEFINE same(i) == {j \in DOMAIN operations : SameKey(label, operations[i], operations[j])}
           last(i) == CHOOSE j \in same(i) : \A k \in same(i) : k <= j
           told == OperationOutcomes(label)
<1>1. DOMAIN operations = 1 .. Len(operations) /\ Len(operations) \in Nat
  OBVIOUS
<1>2. ASSUME NEW i \in DOMAIN operations
      PROVE  last(i) \in same(i) /\ \A k \in same(i) : k <= last(i)
  <2> DEFINE back == {Len(operations) - j : j \in same(i)}
  <2>1. i \in same(i)
    BY DEF SameKey
  <2>2. back \in SUBSET Nat /\ back # {}
    BY <1>1, <2>1
  <2>3. IsWellFoundedOn(OpToRel(<, Nat), Nat)
    BY NatLessThanWellFounded
  <2>4. PICK x \in back : \A y \in back : ~(<<y, x>> \in OpToRel(<, Nat))
    BY <2>2, <2>3, WFMin
  <2>5. \A y \in back : ~(y < x)
    BY <2>2, <2>4, Zenon DEF OpToRel
  <2>6. PICK j \in same(i) : x = Len(operations) - j
    OBVIOUS
  <2>7. ASSUME NEW k \in same(i) PROVE k <= j
    <3>1. k \in Nat /\ j \in Nat /\ Len(operations) - k \in back
      BY <1>1
    <3>2. ~(Len(operations) - k < Len(operations) - j)
      BY <2>5, <2>6, <3>1
    <3>3. QED BY <1>1, <3>1, <3>2
  <2> HIDE DEF same
  <2>8. QED BY <2>7
<1>3. told = [i \in DOMAIN operations |-> operations[last(i)]]
  BY DEF OperationOutcomes
<1> HIDE DEF last, told
<1>4. ASSUME NEW i \in DOMAIN operations, NEW o \in UnderKey(label, operations[i])
      PROVE  o.where <= told[i].where
  <2>1. PICK j \in DOMAIN operations : o = operations[j]
    BY DEF UnderKey, Range
  <2>2. j \in same(i)
    BY <2>1 DEF UnderKey
  <2>3. /\ operations[j].step = operations[last(i)].step /\ j <= last(i)
        /\ last(i) \in DOMAIN operations /\ operations[j].where \in Nat
        /\ operations[last(i)].where \in Nat
    BY <1>2, <2>2, OperationsAre DEF SameKey
  <2> HIDE DEF same
  <2>4. operations[j].where <= operations[last(i)].where
    BY <1>1, <2>3
  <2>5. QED BY <1>3, <2>1, <2>4
<1>5. ASSUME NEW i \in DOMAIN operations
      PROVE  told[i] \in UnderKey(label, operations[i])
  BY <1>2, <1>3, <1>5 DEF UnderKey, Range
<1>6. ASSUME IsInjective(label), NEW i \in DOMAIN operations
      PROVE  told[i] = operations[i]
  <2>1. last(i) \in DOMAIN operations /\ SameKey(label, operations[i], operations[last(i)])
    BY <1>2, <1>6
  <2> HIDE DEF same
  <2>2. \A r, q \in Repositories : label[r] = label[q] => r = q
    BY <1>6 DEF IsInjective, Labellings
  <2>3. operations[i].where = operations[last(i)].where /\ operations[i].step = operations[last(i)].step
    BY <2>1, <2>2 DEF SameKey
  <2>4. operations[i].where \in Nat
    BY <1>6, OperationsAre
  <2>5. last(i) = i
    BY <1>1, <1>6, <2>1, <2>3, <2>4
  <2>6. QED BY <1>3, <2>5
<1>7. IsInjective(label) => told = operations
  BY <1>3, <1>6
<1>8. QED BY <1>4, <1>5, <1>7 DEF ToldOfTheLast, told

\* A list with no lines is in turn.
LEMMA NothingInTurn ==
    ASSUME NEW told, Range(told) = {}
    PROVE  InTurn(told)
BY DEF Range, InTurn

\* Every line of a history is a line of one of its steps.
LEMMA LinesHaveSteps ==
    ASSUME NEW flow, Kept(flow), NEW kind \in Kinds, NEW all \in [Places -> Seq(Entry)],
           NEW x \in AllLines(flow, kind, all, Nat)
    PROVE  x.step \in Steps
<1>1. PICK place \in Places : x \in Lines(flow, kind, place, all[place], Nat)
  BY DEF AllLines
<1> DEFINE history == all[place]
<1>2. history \in Seq(Entry) /\ x \in Lines(flow, kind, place, history, Nat)
  BY <1>1
<1> HIDE DEF history
<1>3. QED BY <1>2, LineIsOf

\* What is due is what has finished, once all has ended.
LEMMA DueIsFinished ==
    ASSUME Kept(workflow), stages = PlanOperationStages(workflow),
           NEW place, ran[place] \in Seq(Entry), AllEnded(ran[place]),
           NEW i \in DOMAIN ran[place], NEW kind \in Kinds
    PROVE  Due(workflow, kind, place, ran[place][i], Nat) <=>
             ran[place][i] \in Finished(place)
               /\ (kind = "failures" => ran[place][i].verdict = "failed")
<1> DEFINE e == ran[place][i]
<1>1. e \in Entry /\ e \in Range(ran[place]) /\ e.verdict # "running"
  BY DEF Range, AllEnded
<1> HIDE DEF e
<1>2. e.step \in Steps
  BY <1>1 DEF Entry
<1>3. StageNumber(e.step) = StageIn(workflow, e.step)
  BY DEF StageNumber, StageIn
<1>4. \A k : Global(k) <=> AloneIn(workflow, k)
  BY ScopedIs DEF Global
<1>5. StageIn(workflow, e.step) \in Nat
  BY <1>2, PlacesAre
<1>6. Due(workflow, kind, place, e, Nat) <=>
        /\ e.verdict # "cancelled"
        /\ kind = "failures" => e.verdict = "failed"
        /\ Global(StageNumber(e.step)) <=> place = Everywhere
  BY <1>1, <1>3, <1>4, <1>5 DEF Due, Tellable
<1>7. e \in Finished(place) <=>
        e.verdict # "cancelled" /\ (Global(StageNumber(e.step)) <=> place = Everywhere)
  BY <1>1 DEF Finished
<1>8. QED BY <1>6, <1>7 DEF e

\* Once all has ended the lines of all histories are those of the outcome.
LEMMA LinesAreTold ==
    ASSUME Kept(workflow), stages = PlanOperationStages(workflow),
           ran \in [Places -> Seq(Entry)], \A place \in Places : AllEnded(ran[place])
    PROVE  /\ AllLines(workflow, "operations", ran, Nat) = SequentialOperations
           /\ AllLines(workflow, "failures", ran, Nat) = SequentialFailures
<1>1. ASSUME NEW place \in Places, NEW kind \in Kinds, NEW i \in DOMAIN ran[place]
      PROVE  Due(workflow, kind, place, ran[place][i], Nat) <=>
               ran[place][i] \in Finished(place)
                 /\ (kind = "failures" => ran[place][i].verdict = "failed")
  BY DueIsFinished
<1>2. ASSUME NEW place \in Places, NEW e \in Finished(place)
      PROVE  \E i \in DOMAIN ran[place] : ran[place][i] = e
  BY DEF Finished, Range
<1>3. "operations" \in Kinds /\ "failures" \in Kinds
  BY DEF Kinds
<1>4. ASSUME NEW kind \in Kinds, NEW x
      PROVE  x \in AllLines(workflow, kind, ran, Nat) <=>
               \E place \in Places : \E e \in Finished(place) :
                 (kind = "failures" => e.verdict = "failed") /\ x = Line(kind, place, e)
  BY <1>1, <1>2 DEF AllLines, Lines
<1>5. AllLines(workflow, "operations", ran, Nat) = SequentialOperations
  <2> DEFINE lines == AllLines(workflow, "operations", ran, Nat)
             told == SequentialOperations
  <2>1. \A x : x \in lines <=>
          \E place \in Places : \E e \in Finished(place) : x = Line("operations", place, e)
    BY <1>3, <1>4
  <2>2. \A x : x \in told <=>
          \E place \in Places : \E e \in Finished(place) : x = Line("operations", place, e)
    BY DEF SequentialOperations, Line
  <2> HIDE DEF lines, told
  <2>3. lines = told
    BY <2>1, <2>2
  <2>4. QED BY <2>3 DEF lines, told
<1>6. AllLines(workflow, "failures", ran, Nat) = SequentialFailures
  <2> DEFINE lines == AllLines(workflow, "failures", ran, Nat)
             told == SequentialFailures
  <2>1. \A x : x \in lines <=>
          \E place \in Places : \E e \in Finished(place) :
            e.verdict = "failed" /\ x = Line("failures", place, e)
    BY <1>3, <1>4
  <2>2. \A x : x \in told <=>
          \E place \in Places : \E e \in Finished(place) :
            e.verdict = "failed" /\ x = Line("failures", place, e)
    BY DEF SequentialFailures, Line
  <2> HIDE DEF lines, told
  <2>3. lines = told
    BY <2>1, <2>2
  <2>4. QED BY <2>3 DEF lines, told
<1>7. QED BY <1>5, <1>6

\* At the end the outcome is that of a run with one worker.
LEMMA ReportedIsSequential ==
    ASSUME RunInv, Reported
    PROVE  OutcomeIsSequential
<1> SUFFICES ASSUME pc = "done"
             PROVE  /\ Range(operations) = SequentialOperations /\ InTurn(operations)
                    /\ Range(failures) = SequentialFailures /\ InTurn(failures)
                    /\ \A label \in Labellings : ToldOfTheLast(label)
  BY DEF OutcomeIsSequential
<1>1. "operations" \in Kinds /\ "failures" \in Kinds
  BY DEF Kinds
<1>2. Book["operations"] = operations /\ Book["failures"] = failures
  BY DEF Book
<1>3. \A kind \in Kinds : Listed(workflow, Book[kind], AllLines(workflow, kind, ran, Nat))
  BY DEF Reported, Booked
<1>4. /\ Listed(workflow, operations, AllLines(workflow, "operations", ran, Nat))
      /\ Listed(workflow, failures, AllLines(workflow, "failures", ran, Nat))
  BY <1>1, <1>2, <1>3
<1>5. /\ ran \in [Places -> Seq(Entry)]
      /\ operations \in Seq([where: Nat, step: Steps, failed: BOOLEAN])
  BY AllHistories, InvariantRuns DEF TypeOK, Results
<1>6. CASE returned = "refused"
  <2>1. \A place \in Places : ran[place] = <<>>
    BY <1>6 DEF RunInv, Planning, Reported, Overall, Places
  <2>2. \A place \in Places : DOMAIN ran[place] = {} /\ Range(ran[place]) = {}
    BY <2>1 DEF Range
  <2>3. \A kind : AllLines(workflow, kind, ran, Nat) = {}
    BY <2>2 DEF AllLines, Lines
  <2>4. \A place \in Places : Finished(place) = {}
    BY <2>2 DEF Finished
  <2>5. SequentialOperations = {} /\ SequentialFailures = {}
    BY <2>4 DEF SequentialOperations, SequentialFailures
  <2>6. Range(operations) = {} /\ Range(failures) = {}
    BY <1>4, <2>3 DEF Listed
  <2>7. DOMAIN operations = {}
    BY <2>6 DEF Range
  <2>8. QED BY <1>5, <2>5, <2>6, <2>7, NothingInTurn, LastIsTold
<1>7. CASE returned # "refused"
  <2>1. Kept(workflow) /\ stages = PlanOperationStages(workflow)
    BY <1>7 DEF RunInv, Planning, Kept
  <2>2. \A place \in Places : AllEnded(ran[place])
    BY DEF Reported, Overall, Places
  <2>3. /\ AllLines(workflow, "operations", ran, Nat) = SequentialOperations
        /\ AllLines(workflow, "failures", ran, Nat) = SequentialFailures
    BY <1>5, <2>1, <2>2, LinesAreTold
  <2>4. ASSUME NEW kind \in Kinds, NEW told,
               Listed(workflow, told, AllLines(workflow, kind, ran, Nat))
        PROVE  InTurn(told)
    BY <1>5, <2>1, LinesHaveSteps, <2>4, SoonerPrecedes DEF Listed, Range, InTurn
  <2>5. Range(operations) = SequentialOperations /\ Range(failures) = SequentialFailures
    BY <1>4, <2>3 DEF Listed
  <2>6. InTurn(operations) /\ InTurn(failures)
    BY <1>1, <1>4, <2>4
  <2>7. ASSUME NEW i \in DOMAIN operations, NEW j \in DOMAIN operations,
               i < j, operations[i].step = operations[j].step
        PROVE  operations[i].where < operations[j].where
    <3> DEFINE a == operations[i]
               b == operations[j]
    <3>1. Sooner(workflow, a, b)
      BY <1>4, <2>7 DEF Listed
    <3>2. a.step \in Steps
      BY <1>5, OperationsAre
    <3>3. b.step = a.step
      BY <2>7
    <3> HIDE DEF a, b
    <3>4. a.where < b.where
      BY <2>1, <3>1, <3>2, <3>3, SoonerElsewhere
    <3>5. QED BY <3>4 DEF a, b
  <2>8. QED BY <1>5, <2>5, <2>6, <2>7, LastIsTold
<1>8. QED BY <1>6, <1>7

\* Every step keeps the account of what is told.
LEMMA NextBooked ==
    ASSUME RunInv, IInv, Reported, [Next]_vars
    PROVE  Reported'
<1>1. CASE Cancel
  BY <1>1, SameReport DEF Cancel
<1>2. CASE Runner
  BY <1>2, PlanBooked, CollectStageBooked, ReachGlobalStageBooked, FinishStagesBooked, StopDispatchingBooked,
    CollectResultsBooked, BeginGlobalBooked, LeaveGlobalStageBooked, EndGlobalBooked, ReturnBooked DEF Runner
<1>3. CASE UNCHANGED vars
  BY <1>3, SameReport DEF vars
<1>4. ASSUME NEW w \in Workers, HandOver(w) PROVE Reported'
  BY <1>4, HandOverBooked
<1>5. ASSUME NEW w \in Workers, Worker(w) PROVE Reported'
  BY <1>5, WorkerBooked
<1>6. QED
  BY <1>1, <1>2, <1>3, <1>4, <1>5 DEF Next, Done

\* Nothing is told at first.
LEMMA InitBooked ==
    ASSUME Init
    PROVE  Reported
<1>1. pc = "plan" /\ operations = <<>> /\ failures = <<>> /\ returned = "no"
  BY DEF Init
<1>2. \A place \in Places : ran[place] = <<>>
  BY DEF Init, Places
<1>3. \A place \in Places : DOMAIN ran[place] = {}
  BY <1>2
<1>4. \A kind \in Kinds : AllLines(workflow, kind, ran, Nat) = {} /\ Book[kind] = <<>>
  BY <1>3, <1>1 DEF AllLines, Lines, Book, Kinds
<1>5. Booked
  BY <1>1, <1>4, NothingListed DEF Booked
<1>6. ran[Everywhere] = <<>> /\ AllEnded(ran[Everywhere])
  BY <1>2, <1>3 DEF Places, AllEnded
<1>7. Overall
  BY <1>1, <1>6 DEF Overall
<1>8. QED BY <1>5, <1>7 DEF Reported

\* What is reported of a run does not depend on how many workers it had, nor on
\* what they did side by side: the stages list all that ended and the failures
\* all that failed, once and in the order of a run with one worker, also after a
\* cancellation; of what is listed the outcome tells what ended last under its
\* key, "owner/repo:step", whichever repositories share one; and no error means
\* that all has run (runRepositoryPipelines, runOperationStages and
\* executeGlobalStage, executor_runner.go; Execute, executor.go:352).
THEOREM OutcomeHolds == Spec => []OutcomeIsTrue
<1>1. Init => RunInv /\ IInv /\ Reported
  BY InitRuns, InitHolds, InitBooked
<1>2. RunInv /\ IInv /\ Reported /\ [Next]_vars => (RunInv /\ IInv /\ Reported)'
  BY NextRuns, NextHolds, NextBooked
<1>3. RunInv /\ Reported => OutcomeIsSequential
  BY ReportedIsSequential
<1>4. OutcomeIsTrue <=> OutcomeIsSequential /\ OneWorkerIsSequential /\ OkMeansAllRan
  BY DEF OutcomeIsTrue
<1>5. QED
  BY <1>1, <1>2, <1>3, <1>4, OneByOne, OkTellsAll, PTL DEF Spec
========================================
