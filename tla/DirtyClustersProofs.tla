------------------------- MODULE DirtyClustersProofs -------------------------
(***************************************************************************)
(* Theorems about DirtyClusters: every commit is made from the checkpoint, *)
(* and holds nothing but its cluster unless somebody stages between the    *)
(* check of the staged paths and their recording.                          *)
(***************************************************************************)
EXTENDS DirtyClusters, TLAPS

\* index.lock is held by gix from its acquisition to its release.
LockOK ==
    /\ lock = "gix" =>
         pc \in {"probeHead", "probeEntries", "probeIntents", "copy", "commit", "release"}
    /\ pc \in {"copy", "commit", "release"} => lock = "gix"

\* What validation has read under the lock is what is there.
ProbeOK ==
    lock = "gix" =>
        /\ pc \in {"probeEntries", "probeIntents"} => probe.head = Tip
        /\ pc = "probeIntents" => probe.entries = index

\* What has passed validation under the lock is the checkpoint.
VerifiedOK ==
    /\ pc \in {"copy", "commit"} =>
         [head |-> Tip, entries |-> index, intents |-> intents] = checkpoint
    /\ pc = "commit" => copy = index

LockInv == TypeOK /\ LockOK /\ ProbeOK /\ VerifiedOK

\* The steps at which the head of the checkpoint is known, and its entries.
HeadKnown ==
    {"entries", "intents", "generate", "lock", "probeHead", "probeEntries",
     "probeIntents", "copy", "commit"}

EntriesKnown == HeadKnown \ {"entries"}

\* The staged paths are those of the cluster from the check on, and the
\* entries of the checkpoint change nothing else as long as HEAD stands.
ClusterOK ==
    /\ pc = "check" => expected \subseteq Members(current)
    /\ InWindow => Staged \subseteq Members(current)
    /\ pc \in HeadKnown => checkpoint.head <= Tip
    /\ pc \in EntriesKnown /\ checkpoint.head = Tip =>
         {p \in Paths : checkpoint.entries[p] # tree[p]} \subseteq Members(current)

ClusterInv == LockInv /\ ClusterOK /\ CommitsHoldTheirCluster

----------------------------------------
\* Types

\* The loop starts with the types it keeps.
LEMMA InitTypes == ASSUME Init PROVE TypeOK
BY DirtyClustersAssumption
DEF Init, TypeOK, NoReading, Checkpoints, Empty, Snapshot, Steps, Commits

\* Staging paths puts what the files hold into the index.
LEMMA AddTypes ==
    ASSUME TypeOK, NEW paths, Add(paths)
    PROVE  index' \in Snapshot /\ intents' \subseteq Paths
BY DEF TypeOK, Add, Snapshot

\* A commit that is recorded has the type of a commit.
LEMMA RecordTypes ==
    ASSUME TypeOK, NEW author \in {"gix", "other"}, NEW cluster \in Nat, NEW to
    PROVE  Append(log, Record(author, cluster, to)) \in Seq(Commits)
<1>1. Record(author, cluster, to) \in Commits
  BY DEF Record, Commits
<1>2. QED
  BY <1>1 DEF TypeOK

\* Every step keeps the types.
LEMMA StepTypes == ASSUME TypeOK, [Next]_vars PROVE TypeOK'
<1> USE DirtyClustersAssumption
<1> USE DEF TypeOK, repository, readings, others, Steps
<1>1. CASE NextCluster
  BY <1>1 DEF NextCluster
<1>2. CASE ClearIndex
  BY <1>2 DEF ClearIndex
<1>3. CASE StageTracked
  BY <1>3, AddTypes DEF StageTracked, Add
<1>4. CASE StageUntracked
  BY <1>4, AddTypes DEF StageUntracked, Add
<1>5. CASE ReadScoped
  BY <1>5 DEF ReadScoped, Staged
<1>6. CASE CheckStaged
  BY <1>6 DEF CheckStaged
<1>7. CASE CaptureHead
  BY <1>7 DEF CaptureHead, Checkpoints, NoReading, Empty, Snapshot, Tip
<1>8. CASE CaptureEntries
  BY <1>8 DEF CaptureEntries, Checkpoints
<1>9. CASE CaptureIntents
  BY <1>9 DEF CaptureIntents, Checkpoints
<1>10. CASE Generate
  BY <1>10 DEF Generate
<1>11. CASE AcquireLock
  BY <1>11 DEF AcquireLock
<1>12. CASE ProbeHead
  BY <1>12 DEF ProbeHead, Checkpoints, NoReading, Empty, Snapshot, Tip
<1>13. CASE ProbeEntries
  BY <1>13 DEF ProbeEntries, Checkpoints
<1>14. CASE ProbeIntents
  BY <1>14 DEF ProbeIntents, Compare, Unwound, Checkpoints
<1>15. CASE ProbeFails
  BY <1>15 DEF ProbeFails, Unwound
<1>16. CASE CopyIndex
  BY <1>16 DEF CopyIndex
<1>17. CASE CommitCluster
  BY <1>17, RecordTypes DEF CommitCluster
<1>18. CASE ReleaseLock
  BY <1>18 DEF ReleaseLock
<1>19. CASE Fails
  BY <1>19 DEF Fails, Unwound
<1>20. CASE Edit
  BY <1>20 DEF Edit, May, Snapshot
<1>21. CASE TakeLock
  BY <1>21 DEF TakeLock, May
<1>22. CASE Stage
  BY <1>22 DEF Stage, DropLock, Snapshot
<1>23. CASE Intend
  BY <1>23 DEF Intend, DropLock
<1>24. CASE OutsideCommit
  BY <1>24, RecordTypes DEF OutsideCommit, DropLock
<1>25. CASE Refresh
  BY <1>25 DEF Refresh, DropLock
<1>26. CASE UNCHANGED vars
  BY <1>26 DEF vars
<1>27. QED
  BY <1>1, <1>2, <1>3, <1>4, <1>5, <1>6, <1>7, <1>8, <1>9, <1>10, <1>11, <1>12, <1>13, <1>14, <1>15, <1>16,
    <1>17, <1>18, <1>19, <1>20, <1>21, <1>22, <1>23, <1>24, <1>25, <1>26 DEF Next, Gix, Others, Ended

----------------------------------------
\* What the lock gives

\* The lock is held at the steps that need it, and only there; what is read
\* under it stays true, and what validation has compared stays the checkpoint
\* until the commit.  Only a commit, of gix or of somebody else, extends the log.
LEMMA StepLock ==
    ASSUME LockInv, [Next]_vars
    PROVE  /\ LockOK' /\ ProbeOK' /\ VerifiedOK'
           /\ CommitCluster \/ OutsideCommit \/ log' = log
<1> USE DEF LockInv, TypeOK, LockOK, ProbeOK, VerifiedOK, repository, readings, others, Tip,
            Checkpoints
<1>1. CASE NextCluster
  BY <1>1 DEF NextCluster
<1>2. CASE ClearIndex
  BY <1>2 DEF ClearIndex
<1>3. CASE StageTracked
  BY <1>3 DEF StageTracked, Add
<1>4. CASE StageUntracked
  BY <1>4 DEF StageUntracked, Add
<1>5. CASE ReadScoped
  BY <1>5 DEF ReadScoped
<1>6. CASE CheckStaged
  BY <1>6 DEF CheckStaged
<1>7. CASE CaptureHead
  BY <1>7 DEF CaptureHead
<1>8. CASE CaptureEntries
  BY <1>8 DEF CaptureEntries
<1>9. CASE CaptureIntents
  BY <1>9 DEF CaptureIntents
<1>10. CASE Generate
  BY <1>10 DEF Generate
<1>11. CASE AcquireLock
  BY <1>11 DEF AcquireLock
<1>12. CASE ProbeHead
  BY <1>12 DEF ProbeHead, NoReading
<1>13. CASE ProbeEntries
  BY <1>13 DEF ProbeEntries
<1>14. CASE ProbeIntents
  BY <1>14 DEF ProbeIntents, Compare, Unwound
<1>15. CASE ProbeFails
  BY <1>15 DEF ProbeFails, Unwound
<1>16. CASE CopyIndex
  BY <1>16 DEF CopyIndex
<1>17. CASE CommitCluster
  BY <1>17 DEF CommitCluster
<1>18. CASE ReleaseLock
  BY <1>18 DEF ReleaseLock
<1>19. CASE Fails
  BY <1>19 DEF Fails, Unwound
<1>20. CASE Edit
  BY <1>20 DEF Edit, May
<1>21. CASE TakeLock
  BY <1>21 DEF TakeLock, May
<1>22. CASE Stage
  BY <1>22 DEF Stage, DropLock
<1>23. CASE Intend
  BY <1>23 DEF Intend, DropLock
<1>24. CASE OutsideCommit
  BY <1>24 DEF OutsideCommit, DropLock
<1>25. CASE Refresh
  BY <1>25 DEF Refresh, DropLock
<1>26. CASE UNCHANGED vars
  BY <1>26 DEF vars
<1>27. QED
  BY <1>1, <1>2, <1>3, <1>4, <1>5, <1>6, <1>7, <1>8, <1>9, <1>10, <1>11, <1>12, <1>13, <1>14, <1>15, <1>16,
    <1>17, <1>18, <1>19, <1>20, <1>21, <1>22, <1>23, <1>24, <1>25, <1>26 DEF Next, Gix, Others, Ended

\* The invariant of the lock is inductive.
LEMMA LockInvariant == Spec => []LockInv
<1>1. Init => LockInv
  BY InitTypes DEF Init, LockInv, LockOK, ProbeOK, VerifiedOK
<1>2. LockInv /\ [Next]_vars => LockInv'
  BY StepTypes, StepLock DEF LockInv
<1>3. QED
  BY <1>1, <1>2, PTL DEF Spec

\* Type correctness, whatever the paths, the clusters and the budget.
THEOREM TypeCorrect == Spec => []TypeOK
BY LockInvariant, PTL DEF LockInv

\* A longer log is therefore one of theirs.
LEMMA WhoCommits ==
    ASSUME LockInv, [Next]_vars, Len(log') > Len(log)
    PROVE  CommitCluster \/ OutsideCommit
BY StepLock DEF LockInv, TypeOK

\* Every commit is made from the checkpoint of its cluster: HEAD, the index
\* and its intent-to-add entries are those the checkpoint describes, and none
\* of them is changed behind the back of a writer.
THEOREM CheckpointCommitted == Spec => CommitsTheCheckpoint
<1>1. LockInv /\ [Next]_vars =>
        [Len(log') > Len(log) /\ log'[Len(log')].author = "gix" =>
           /\ [head |-> Tip, entries |-> index, intents |-> intents] = checkpoint
           /\ tree' = checkpoint.entries
           /\ UNCHANGED <<index, intents>>]_vars
  <2> SUFFICES ASSUME LockInv, [Next]_vars,
                      Len(log') > Len(log), log'[Len(log')].author = "gix"
               PROVE  /\ [head |-> Tip, entries |-> index, intents |-> intents] = checkpoint
                      /\ tree' = checkpoint.entries
                      /\ UNCHANGED <<index, intents>>
    OBVIOUS
  <2>1. CASE CommitCluster
    BY <2>1 DEF LockInv, VerifiedOK, CommitCluster
  <2>2. CASE OutsideCommit
    BY <2>2 DEF LockInv, TypeOK, OutsideCommit, Record
  <2>3. QED
    BY <2>1, <2>2, WhoCommits
<1>2. QED
  BY <1>1, LockInvariant, PTL DEF Spec, CommitsTheCheckpoint

----------------------------------------
\* What the check of the staged paths gives, when nobody stages before they
\* are recorded

\* The staged paths of the check are those of the checkpoint.
LEMMA StepCluster ==
    ASSUME LockInv, ClusterOK, ~Racing, [Next]_vars
    PROVE  ClusterOK'
<1> USE DEF LockInv, TypeOK, LockOK, ClusterOK, HeadKnown, EntriesKnown, InWindow, Tip,
            repository, readings, others, Checkpoints, Members
<1>1. CASE NextCluster
  BY <1>1 DEF NextCluster
<1>2. CASE ClearIndex
  BY <1>2 DEF ClearIndex
<1>3. CASE StageTracked
  BY <1>3 DEF StageTracked, Add
<1>4. CASE StageUntracked
  BY <1>4 DEF StageUntracked, Add
<1>5. CASE ReadScoped
  BY <1>5 DEF ReadScoped, Staged
<1>6. CASE CheckStaged
  BY <1>6 DEF CheckStaged, Staged
<1>7. CASE CaptureHead
  BY <1>7 DEF CaptureHead, Staged, NoReading
<1>8. CASE CaptureEntries
  BY <1>8 DEF CaptureEntries, Staged
<1>9. CASE CaptureIntents
  BY <1>9 DEF CaptureIntents
<1>10. CASE Generate
  BY <1>10 DEF Generate
<1>11. CASE AcquireLock
  BY <1>11 DEF AcquireLock
<1>12. CASE ProbeHead
  BY <1>12 DEF ProbeHead
<1>13. CASE ProbeEntries
  BY <1>13 DEF ProbeEntries
<1>14. CASE ProbeIntents
  BY <1>14 DEF ProbeIntents, Compare, Unwound
<1>15. CASE ProbeFails
  BY <1>15 DEF ProbeFails, Unwound
<1>16. CASE CopyIndex
  BY <1>16 DEF CopyIndex
<1>17. CASE CommitCluster
  BY <1>17 DEF CommitCluster
<1>18. CASE ReleaseLock
  BY <1>18 DEF ReleaseLock
<1>19. CASE Fails
  BY <1>19 DEF Fails, Unwound
<1>20. CASE Edit
  BY <1>20 DEF Edit, Staged
<1>21. CASE TakeLock
  BY <1>21 DEF TakeLock, Staged
<1>22. CASE Stage
  BY <1>22 DEF Stage, DropLock
<1>23. CASE Intend
  BY <1>23 DEF Intend, DropLock, Staged
<1>24. CASE OutsideCommit
  BY <1>24 DEF OutsideCommit, DropLock, Staged
<1>25. CASE Refresh
  BY <1>25 DEF Refresh, DropLock, Staged
<1>26. CASE UNCHANGED vars
  BY <1>26 DEF vars, Staged
<1>27. QED
  BY <1>1, <1>2, <1>3, <1>4, <1>5, <1>6, <1>7, <1>8, <1>9, <1>10, <1>11, <1>12, <1>13, <1>14, <1>15, <1>16,
    <1>17, <1>18, <1>19, <1>20, <1>21, <1>22, <1>23, <1>24, <1>25, <1>26 DEF Next, Gix, Others, Ended

\* A commit of gix changes what the checkpoint changes; no other step of gix
\* commits.
LEMMA StepCommits ==
    ASSUME ClusterInv, [Next]_vars PROVE CommitsHoldTheirCluster'
<1> USE DEF ClusterInv, LockInv, CommitsHoldTheirCluster
<1>1. CASE CommitCluster
  <2>1. Tip = checkpoint.head /\ copy = checkpoint.entries
    BY <1>1 DEF CommitCluster, VerifiedOK, TypeOK, Checkpoints
  <2>2. {p \in Paths : copy[p] # tree[p]} \subseteq Members(current)
    BY <1>1, <2>1 DEF CommitCluster, ClusterOK, HeadKnown, EntriesKnown
  <2>3. log' = Append(log, Record("gix", current, copy)) /\ log \in Seq(Commits)
    BY <1>1 DEF CommitCluster, TypeOK
  <2>4. QED
    BY <2>2, <2>3 DEF Record
<1>2. CASE OutsideCommit
  BY <1>2 DEF OutsideCommit, Record, TypeOK
<1>3. CASE ~CommitCluster /\ ~OutsideCommit
  <2>1. log' = log
    BY <1>3, StepLock
  <2>2. QED
    BY <2>1
<1>4. QED
  BY <1>1, <1>2, <1>3

\* Whatever the clusters, and however others edit, stage and commit: unless
\* they stage between the check of the staged paths and their recording, a
\* commit of gix changes nothing but paths of its cluster.
THEOREM ClusterCommitted ==
    ASSUME ~Racing
    PROVE  Spec => []CommitsHoldTheirCluster
<1>1. Init => ClusterInv
  BY InitTypes DEF Init, ClusterInv, LockInv, LockOK, ProbeOK, VerifiedOK, ClusterOK, InWindow, HeadKnown,
    EntriesKnown, CommitsHoldTheirCluster
<1>2. ClusterInv /\ [Next]_vars => ClusterInv'
  BY StepTypes, StepLock, StepCluster, StepCommits DEF ClusterInv, LockInv
<1>3. ClusterInv => CommitsHoldTheirCluster
  BY DEF ClusterInv
<1>4. QED
  BY <1>1, <1>2, <1>3, PTL DEF Spec
----------------------------------------
\* What is committed is what the files hold

\* gix stops at the first outcome that is not success; success is after the
\* last cluster.
OutcomeOK ==
    /\ outcome # "running" => pc \in {"release", "done"}
    /\ outcome = "saved" => pc = "done" /\ current = Len(Clusters)

\* The index holds what the files hold of these paths, unless they were edited.
InIndex(paths) == \A p \in paths \ edited : index[p] = files[p]

\* So does HEAD.
InTree(paths) == \A p \in paths \ edited : tree[p] = files[p]

\* The steps at which all of the cluster is staged.
AllStaged ==
    {"scoped", "check", "head", "entries", "intents", "generate", "lock",
     "probeHead", "probeEntries", "probeIntents", "copy", "commit"}

\* The cluster in hand is in the index as far as it has been staged.
StagedOK ==
    current \in DOMAIN Clusters =>
        /\ pc = "stageUntracked" => InIndex(Clusters[current].tracked)
        /\ pc \in AllStaged => InIndex(Members(current))

\* The cluster in hand is done with.
CurrentSettled ==
    pc = "next" \/ (pc = "release" /\ outcome = "running") \/ outcome = "saved"

\* The clusters that are done with are in HEAD and in the index: the next
\* git reset and the next commit, which takes the whole index, keep them.
SettledOK ==
    \A i \in DOMAIN Clusters :
        i < current \/ (i = current /\ CurrentSettled) =>
            InTree(Members(i)) /\ InIndex(Members(i))

SavedInv == LockInv /\ OutcomeOK /\ StagedOK /\ SettledOK

\* The clusters are sets of paths.
LEMMA ClusterPaths ==
    ASSUME NEW i \in DOMAIN Clusters
    PROVE  /\ Clusters[i].tracked \subseteq Paths
           /\ Clusters[i].untracked \subseteq Paths
           /\ Members(i) \subseteq Paths
<1> DEFINE Cluster == [tracked: SUBSET Paths, untracked: SUBSET Paths]
<1>1. Clusters \in Seq(Cluster)
  BY DirtyClustersAssumption
<1>2. Clusters[i] \in Cluster
  <2> HIDE DEF Cluster
  <2> QED
    BY <1>1
<1>3. QED
  BY <1>2 DEF Members

\* Staging changes the index only, where it takes over what the files hold.
LEMMA AddIndexes ==
    ASSUME NEW paths, Add(paths)
    PROVE  /\ \A p \in Paths : index'[p] = IF p \in paths THEN files[p] ELSE index[p]
           /\ UNCHANGED <<tree, files, current, outcome, edited>>
BY DEF Add, others

\* An outcome is the last thing that happens, and a commit takes the index,
\* which holds the cluster in hand and those before: whoever stages stages what
\* the files hold, and whoever edits is known.
LEMMA StepSaved ==
    ASSUME SavedInv, [Next]_vars PROVE OutcomeOK' /\ StagedOK' /\ SettledOK'
<1> USE ClusterPaths
<1> USE DEF SavedInv, LockInv, TypeOK, LockOK, VerifiedOK, OutcomeOK, StagedOK, AllStaged, SettledOK,
            CurrentSettled, InTree, InIndex, Members, Snapshot, repository, readings, others
<1>1. CASE NextCluster
  BY <1>1 DEF NextCluster
<1>2. CASE ClearIndex
  BY <1>2 DEF ClearIndex
<1>3. CASE StageTracked
  BY <1>3, AddIndexes DEF StageTracked
<1>4. CASE StageUntracked
  BY <1>4, AddIndexes DEF StageUntracked
<1>5. CASE ReadScoped
  BY <1>5 DEF ReadScoped
<1>6. CASE CheckStaged
  BY <1>6 DEF CheckStaged
<1>7. CASE CaptureHead
  BY <1>7 DEF CaptureHead
<1>8. CASE CaptureEntries
  BY <1>8 DEF CaptureEntries
<1>9. CASE CaptureIntents
  BY <1>9 DEF CaptureIntents
<1>10. CASE Generate
  BY <1>10 DEF Generate
<1>11. CASE AcquireLock
  BY <1>11 DEF AcquireLock
<1>12. CASE ProbeHead
  BY <1>12 DEF ProbeHead
<1>13. CASE ProbeEntries
  BY <1>13 DEF ProbeEntries
<1>14. CASE ProbeIntents
  BY <1>14 DEF ProbeIntents, Compare, Unwound
<1>15. CASE ProbeFails
  BY <1>15 DEF ProbeFails, Unwound
<1>16. CASE CopyIndex
  BY <1>16 DEF CopyIndex
<1>17. CASE CommitCluster
  BY <1>17 DEF CommitCluster
<1>18. CASE ReleaseLock
  BY <1>18 DEF ReleaseLock
<1>19. CASE Fails
  BY <1>19 DEF Fails, Unwound
<1>20. CASE Edit
  BY <1>20 DEF Edit, May
<1>21. CASE TakeLock
  BY <1>21 DEF TakeLock, May
<1>22. CASE Stage
  BY <1>22 DEF Stage, DropLock
<1>23. CASE Intend
  BY <1>23 DEF Intend, DropLock
<1>24. CASE OutsideCommit
  BY <1>24 DEF OutsideCommit, DropLock
<1>25. CASE Refresh
  BY <1>25 DEF Refresh, DropLock
<1>26. CASE UNCHANGED vars
  BY <1>26 DEF vars
<1>27. QED
  BY <1>1, <1>2, <1>3, <1>4, <1>5, <1>6, <1>7, <1>8, <1>9, <1>10, <1>11, <1>12, <1>13, <1>14, <1>15, <1>16,
    <1>17, <1>18, <1>19, <1>20, <1>21, <1>22, <1>23, <1>24, <1>25, <1>26 DEF Next, Gix, Others, Ended

\* Success means that every path of every cluster is committed as it is on
\* disk, unless somebody edited it since, however often others stage, commit
\* and edit in between.
THEOREM SavedCommitted == Spec => []SavedMeansCommitted
<1>1. Init => SavedInv
  BY InitTypes, DirtyClustersAssumption DEF Init, SavedInv, LockInv, LockOK, ProbeOK, VerifiedOK, OutcomeOK,
    StagedOK, AllStaged, SettledOK
<1>2. SavedInv /\ [Next]_vars => SavedInv'
  BY StepTypes, StepLock, StepSaved DEF SavedInv, LockInv
<1>3. SavedInv => SavedMeansCommitted
  BY DirtyClustersAssumption DEF SavedInv, OutcomeOK, SettledOK, CurrentSettled, InTree, SavedMeansCommitted
<1>4. QED
  BY <1>1, <1>2, <1>3, PTL DEF Spec
========================================
