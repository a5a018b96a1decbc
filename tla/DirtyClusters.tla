---------------------------- MODULE DirtyClusters ----------------------------
(***************************************************************************)
(* saveDirtyWorkClusters (dirty_sync.go): the uncommitted work of the      *)
(* caller's worktree is committed one cluster of paths at a time.  Each    *)
(* cluster is staged, checked, checkpointed, described by the model, and   *)
(* committed from a copy of the index that is taken under index.lock.      *)
(* Meanwhile somebody else edits and runs Git in the same worktree; their  *)
(* Git commands take index.lock as well.  StrictSync has this loop as the  *)
(* steps "cluster" and "generate".                                         *)
(***************************************************************************)
EXTENDS Naturals, Sequences

CONSTANTS
    Paths,
    Contents,   \* what a file may contain
    Missing,    \* the content of a path that does not exist
    Clusters,   \* buildSyncCommitClusters: a sequence of [tracked, untracked]
    Start,      \* initial [tree, index, files] of the worktree
    Budget,     \* how many steps others take
    Racing      \* whether others may stage between check and checkpoint

Snapshot == [Paths -> Contents \cup {Missing}]

ASSUME DirtyClustersAssumption ==
    /\ Clusters \in Seq([tracked: SUBSET Paths, untracked: SUBSET Paths])
    /\ Start \subseteq [tree: Snapshot, index: Snapshot, files: Snapshot]
    /\ Budget \in Nat
    /\ Racing \in BOOLEAN

VARIABLES
    tree,       \* the files of HEAD
    log,        \* the commits made since the start
    index,      \* the index of the worktree
    intents,    \* its intent-to-add entries
    files,      \* the working tree
    lock,       \* who holds index.lock: "free", "gix", "other"
    pc,
    current,    \* clusterIndex
    expected,   \* the staged paths of the cluster
    checkpoint, \* strictSyncDirtyClusterCheckpoint
    probe,      \* the checkpoint as validation reads it again
    copy,       \* the private copy in the lock file
    outcome,
    acts,       \* steps others have taken
    edited      \* paths others have edited

repository == <<tree, log, index, intents, files, lock>>
readings == <<expected, checkpoint, probe, copy>>
others == <<acts, edited>>
vars == <<repository, pc, current, readings, outcome, others>>

Members(i) == Clusters[i].tracked \cup Clusters[i].untracked

Staged == {p \in Paths : index[p] # tree[p]}

\* HEAD is known by how many commits led to it.
Tip == Len(log)

Checkpoints == [head: Nat, entries: Snapshot, intents: SUBSET Paths]

Empty == [p \in Paths |-> Missing]

NoReading == [head |-> 0, entries |-> Empty, intents |-> {}]

Steps ==
    {"next", "clear", "stageTracked", "stageUntracked", "scoped", "check",
     "head", "entries", "intents", "generate", "lock", "probeHead",
     "probeEntries", "probeIntents", "copy", "commit", "release", "done"}

Init ==
    /\ \E start \in Start :
         tree = start.tree /\ index = start.index /\ files = start.files
    /\ log = <<>> /\ intents = {} /\ lock = "free"
    /\ pc = "next" /\ current = 0
    /\ expected = {} /\ checkpoint = NoReading /\ probe = NoReading
    /\ copy = Empty
    /\ outcome = "running"
    /\ acts = 0 /\ edited = {}

----------------------------------------
\* Every return releases the lock that is held.

Unwound == IF lock = "gix" THEN "release" ELSE "done"

\* Faulty: one cluster too many.
NextClusterOneMore ==
    /\ pc = "next"
    /\ IF current <= Len(Clusters)
       THEN /\ current' = current + 1 /\ pc' = "clear" /\ UNCHANGED outcome
       ELSE /\ outcome' = "saved" /\ pc' = "done" /\ UNCHANGED current
    /\ UNCHANGED <<repository, readings, others>>

NextCluster ==
    /\ pc = "next"
    /\ IF current < Len(Clusters)
       THEN /\ current' = current + 1 /\ pc' = "clear" /\ UNCHANGED outcome
       ELSE /\ outcome' = "saved" /\ pc' = "done" /\ UNCHANGED current
    /\ UNCHANGED <<repository, readings, others>>

\* git reset: the index is HEAD again.
ClearIndex ==
    /\ pc = "clear" /\ lock = "free"
    /\ index' = tree /\ intents' = {}
    /\ pc' = "stageTracked"
    /\ UNCHANGED <<tree, log, files, lock, current, readings, outcome, others>>

\* git add --all -- <paths>, unless there are none; a path that is nowhere
\* matches nothing.
Add(paths) ==
    /\ paths # {} => lock = "free"
    /\ \A p \in paths : index[p] # Missing \/ files[p] # Missing
    /\ index' = [p \in Paths |-> IF p \in paths THEN files[p] ELSE index[p]]
    /\ intents' = intents \ paths
    /\ UNCHANGED <<tree, log, files, lock, current, readings, outcome, others>>

StageTracked ==
    /\ pc = "stageTracked"
    /\ Add(Clusters[current].tracked)
    /\ pc' = "stageUntracked"

\* Faulty: untracked paths are staged only in a cluster without tracked ones.
StageUntrackedElse ==
    /\ pc = "stageUntracked"
    /\ Add(IF Clusters[current].tracked = {} THEN Clusters[current].untracked ELSE {})
    /\ pc' = "scoped"

StageUntracked ==
    /\ pc = "stageUntracked"
    /\ Add(Clusters[current].untracked)
    /\ pc' = "scoped"

----------------------------------------
\* validateStrictSyncDirtyClusterStagedPaths: the staged paths within the
\* cluster, then all of them.

ReadScoped ==
    /\ pc = "scoped"
    /\ expected' = Staged \cap Members(current)
    /\ pc' = "check"
    /\ UNCHANGED <<repository, current, checkpoint, probe, copy, outcome, others>>

\* Faulty: the staged paths outside the cluster are not looked at.
CheckStagedNot ==
    /\ pc = "check"
    /\ pc' = "head"
    /\ UNCHANGED <<repository, current, readings, outcome, others>>

CheckStaged ==
    /\ pc = "check"
    /\ IF Staged = expected
       THEN pc' = "head" /\ UNCHANGED outcome
       ELSE pc' = "done" /\ outcome' = "lost"
    /\ UNCHANGED <<repository, current, readings, others>>

\* captureStrictSyncDirtyClusterCheckpoint: one call after the other.
CaptureHead ==
    /\ pc = "head"
    /\ checkpoint' = [NoReading EXCEPT !.head = Tip]
    /\ pc' = "entries"
    /\ UNCHANGED <<repository, current, expected, probe, copy, outcome, others>>

CaptureEntries ==
    /\ pc = "entries"
    /\ checkpoint' = [checkpoint EXCEPT !.entries = index]
    /\ pc' = "intents"
    /\ UNCHANGED <<repository, current, expected, probe, copy, outcome, others>>

CaptureIntents ==
    /\ pc = "intents"
    /\ checkpoint' = [checkpoint EXCEPT !.intents = intents]
    /\ pc' = "generate"
    /\ UNCHANGED <<repository, current, expected, probe, copy, outcome, others>>

----------------------------------------
\* The model answers, or it does not: then the checkpoint is compared without
\* the lock.

Generate ==
    /\ pc = "generate"
    /\ pc' \in {"lock", "probeHead"}
    /\ UNCHANGED <<repository, current, readings, outcome, others>>

\* Faulty: the checkpoint is not compared once the lock is held.
AcquireLockUnchecked ==
    /\ pc = "lock"
    /\ IF lock = "free"
       THEN lock' = "gix" /\ pc' = "copy" /\ UNCHANGED outcome
       ELSE outcome' = "lost" /\ pc' = "done" /\ UNCHANGED lock
    /\ UNCHANGED <<tree, log, index, intents, files, current, readings, others>>

\* acquireStrictSyncIndexLock: a lock that exists belongs to somebody else.
AcquireLock ==
    /\ pc = "lock"
    /\ IF lock = "free"
       THEN lock' = "gix" /\ pc' = "probeHead" /\ UNCHANGED outcome
       ELSE outcome' = "lost" /\ pc' = "done" /\ UNCHANGED lock
    /\ UNCHANGED <<tree, log, index, intents, files, current, readings, others>>

\* validateStrictSyncDirtyClusterCheckpoint
ProbeHead ==
    /\ pc = "probeHead"
    /\ probe' = [NoReading EXCEPT !.head = Tip]
    /\ pc' = "probeEntries"
    /\ UNCHANGED <<repository, current, expected, checkpoint, copy, outcome, others>>

ProbeEntries ==
    /\ pc = "probeEntries"
    /\ probe' = [probe EXCEPT !.entries = index]
    /\ pc' = "probeIntents"
    /\ UNCHANGED <<repository, current, expected, checkpoint, copy, outcome, others>>

\* After a failed generation an unchanged checkpoint still ends the run.
Compare(reading) ==
    IF reading # checkpoint THEN outcome' = "lost" /\ pc' = Unwound
    ELSE IF lock = "gix" THEN pc' = "copy" /\ UNCHANGED outcome
    ELSE outcome' = "failed" /\ pc' = "done"

ProbeIntents ==
    /\ pc = "probeIntents"
    /\ probe' = [probe EXCEPT !.intents = intents]
    /\ Compare([probe EXCEPT !.intents = intents])
    /\ UNCHANGED <<repository, current, expected, checkpoint, copy, others>>

\* What cannot be inspected counts as lost.
ProbeFails ==
    /\ pc \in {"probeHead", "probeEntries", "probeIntents"}
    /\ outcome' = "lost" /\ pc' = Unwound
    /\ UNCHANGED <<repository, current, readings, others>>

----------------------------------------
\* The copy, the commit, the release

CopyIndex ==
    /\ pc = "copy"
    /\ copy' = index
    /\ pc' = "commit"
    /\ UNCHANGED <<repository, current, expected, checkpoint, probe, outcome, others>>

Record(author, cluster, to) ==
    [author |-> author, cluster |-> cluster,
     changed |-> {p \in Paths : to[p] # tree[p]}]

\* git commit with GIT_INDEX_FILE: HEAD moves, the index stays.  It may be
\* reported as failed all the same.
CommitCluster ==
    /\ pc = "commit"
    /\ copy # tree
    /\ tree' = copy
    /\ log' = Append(log, Record("gix", current, copy))
    /\ outcome' \in {"running", "failed"}
    /\ pc' = "release"
    /\ UNCHANGED <<index, intents, files, lock, current, readings, others>>

\* Faulty: an error returns without removing the lock file.
ReleaseLockOnSuccess ==
    /\ pc = "release"
    /\ lock' = IF outcome = "running" THEN "free" ELSE lock
    /\ pc' = IF outcome = "running" THEN "next" ELSE "done"
    /\ UNCHANGED <<tree, log, index, intents, files, current, readings, outcome, others>>

ReleaseLock ==
    /\ pc = "release"
    /\ lock' = "free"
    /\ pc' = IF outcome = "running" THEN "next" ELSE "done"
    /\ UNCHANGED <<tree, log, index, intents, files, current, readings, outcome, others>>

\* Any call may fail; git reset and git add also do while others hold the lock.
Fails ==
    /\ pc \in {"clear", "stageTracked", "stageUntracked", "scoped", "check",
               "head", "entries", "intents", "lock", "copy", "commit"}
    /\ outcome' = "failed" /\ pc' = Unwound
    /\ UNCHANGED <<repository, current, readings, others>>

----------------------------------------
\* Others.  Editing needs no lock.

May == acts < Budget /\ pc # "done"

Edit ==
    /\ May
    /\ \E p \in Paths, c \in Contents :
         /\ files' = [files EXCEPT ![p] = c]
         /\ edited' = edited \cup {p}
    /\ acts' = acts + 1
    /\ UNCHANGED <<tree, log, index, intents, lock, pc, current, readings, outcome>>

TakeLock ==
    /\ May
    /\ lock = "free"
    /\ lock' = "other"
    /\ acts' = acts + 1
    /\ UNCHANGED <<tree, log, index, intents, files, pc, current, readings,
                   outcome, edited>>

\* Their command ends.
DropLock ==
    /\ lock = "other"
    /\ lock' = "free"
    /\ UNCHANGED <<files, pc, current, readings, outcome, acts, edited>>

\* Between the check of the staged paths and the reading of the entries.
InWindow == pc \in {"head", "entries"}

Stage ==
    /\ Racing \/ ~InWindow
    /\ DropLock
    /\ \E p \in Paths :
         /\ index' = [index EXCEPT ![p] = files[p]]
         /\ intents' = intents \ {p}
    /\ UNCHANGED <<tree, log>>

Intend ==
    /\ DropLock
    /\ \E p \in {q \in Paths : index[q] = Missing} : intents' = intents \cup {p}
    /\ UNCHANGED <<tree, log, index>>

OutsideCommit ==
    /\ Staged # {}
    /\ DropLock
    /\ tree' = index
    /\ log' = Append(log, Record("other", 0, index))
    /\ UNCHANGED <<index, intents>>

\* git status refreshes the index: nothing that counts has changed.
Refresh ==
    /\ DropLock
    /\ UNCHANGED <<tree, log, index, intents>>

----------------------------------------

Gix ==
    \/ NextCluster \/ ClearIndex \/ StageTracked \/ StageUntracked
    \/ ReadScoped \/ CheckStaged
    \/ CaptureHead \/ CaptureEntries \/ CaptureIntents
    \/ Generate \/ AcquireLock \/ ProbeHead \/ ProbeEntries \/ ProbeIntents
    \/ ProbeFails \/ CopyIndex \/ CommitCluster \/ ReleaseLock \/ Fails

Others == Edit \/ TakeLock \/ Stage \/ Intend \/ OutsideCommit \/ Refresh

Ended == pc = "done" /\ UNCHANGED vars

Next == Gix \/ Others \/ Ended

\* gix never waits for a lock: one of its steps is always enabled.
Spec == Init /\ [][Next]_vars /\ WF_vars(Gix)

----------------------------------------
\* Type invariant

Commits == [author: {"gix", "other"}, cluster: Nat, changed: SUBSET Paths]

\* Every variable has the type its comment promises.
TypeOK ==
    /\ tree \in Snapshot /\ index \in Snapshot /\ files \in Snapshot
    /\ log \in Seq(Commits)
    /\ intents \subseteq Paths
    /\ lock \in {"free", "gix", "other"}
    /\ pc \in Steps
    /\ current \in 0 .. Len(Clusters)
    /\ expected \subseteq Paths
    /\ checkpoint \in Checkpoints /\ probe \in Checkpoints
    /\ copy \in Snapshot
    /\ outcome \in {"running", "saved", "failed", "lost"}
    /\ acts \in Nat
    /\ edited \subseteq Paths

----------------------------------------
\* Safety

\* A commit gix makes changes nothing but paths of its cluster, whatever
\* others stage before, during and after.
CommitsHoldTheirCluster ==
    \A i \in DOMAIN log :
        log[i].author = "gix" => log[i].changed \subseteq Members(log[i].cluster)

\* Success: each path the status reported is committed as it is on disk,
\* unless somebody edited it since.
SavedMeansCommitted ==
    outcome = "saved" =>
        \A i \in DOMAIN Clusters : \A p \in Members(i) \ edited : tree[p] = files[p]

\* A commit of gix is made from the checkpoint: HEAD, the index and its
\* intent-to-add entries are what the checkpoint says of them, and the index
\* is what was committed: a writer that wins before the lock is noticed, and
\* no writer wins after it.
CommitsTheCheckpoint ==
    [][Len(log') > Len(log) /\ log'[Len(log')].author = "gix" =>
         /\ [head |-> Tip, entries |-> index, intents |-> intents] = checkpoint
         /\ tree' = checkpoint.entries
         /\ UNCHANGED <<index, intents>>]_vars

\* index.lock is not left behind, whichever call fails.
LockIsReleased == lock = "gix" ~> lock # "gix"
========================================
