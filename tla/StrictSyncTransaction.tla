------------------------ MODULE StrictSyncTransaction ------------------------
(***************************************************************************)
(* The strict-sync transaction: what one invocation of gix sync records    *)
(* before it touches a repository, how every Git command it runs is        *)
(* journaled, and what it puts back when it fails                          *)
(* (strict_sync_transaction.go, strict_sync_stash.go, and executeGit of    *)
(* worktree_adoption.go).  The handler that drives it is StrictSync.       *)
(***************************************************************************)
EXTENDS GitRepository, FiniteSets

CONSTANT Caller     \* the worktree gix sync runs in

ASSUME CallerAssumption == Caller \in Worktrees

VARIABLES
    git,            \* the repository
    target,         \* targetBranch
    start,          \* the repository as preflight and begin found it
    snapshots,      \* touchedWorktrees
    adopted,        \* adoptedWorktrees
    owned,          \* ownedStashes
    journal,        \* branchMutations
    mutated,        \* worktreeMutations
    published,
    ownershipLost,  \* ownershipLoss is set
    phase,          \* which function's error handling is in force
    pc,             \* the next step
    cmd,            \* the Git command executeGit is running
    capture,        \* the worktree captureWorktreeSnapshot works on
    dropping,       \* the entry dropStrictSyncStash works on, and its index;
                    \* slot is its snapshot, 0 for an owned stash
    seen,           \* worktrees and refs as rollback last listed them
    pending,        \* refs restoreLocalBranches has still to restore
    cursor,         \* position of rollback's loops over worktrees
    outcome

ledger == <<snapshots, adopted, owned>>
claims == <<journal, mutated, ownershipLost>>
frames == <<cmd, capture, dropping, seen, pending, cursor>>
transactionVars ==
    <<git, target, start, ledger, claims, published, phase, pc, frames, outcome>>

----------------------------------------
\* Data

\* commit is None for a checkout whose branch does not exist.
ListedCheckouts == [head: {None} \cup Branches, commit: {None} \cup Commits]

Snapshots ==
    [tree: Worktrees, listed: ListedCheckouts,
     backup: {None} \cup Entries, dropped: BOOLEAN]

Adoptions == [tree: Worktrees, listed: ListedCheckouts]

Mutations == [initial: {None} \cup Commits, expected: {None} \cup Commits]

Kinds == {"switch", "create", "detach", "commit", "merge", "conclude",
          "reset", "stash", "apply", "remove", "push"}

\* Where the handler goes on once a command is done.
Continuations ==
    {"unwind", "openParent", "ownInvocation", "ownIsolation", "isolation",
     "cluster", "dropIsolation", "dropOwned", "pushExplicit", "restore",
     "baseAhead", "align", "mergeBase", "publish", "openReview", "leave", "retry"}

\* to: the branch a switch or push names; onto: the commit a create, merge
\* or reset names; edits: what a commit takes; refs: the journaled refs.
Commands ==
    [kind: Kinds, tree: Worktrees, to: {None} \cup Branches, onto: Commits,
     edits: SUBSET Tokens, refs: SUBSET Branches, then: Continuations]

Listings ==
    [refs: [Branches -> {None} \cup Commits],
     trees: [Worktrees -> {None} \cup ListedCheckouts]]

\* The worktree captureWorktreeSnapshot works on, and the entry
\* dropStrictSyncStash works on.
Captures ==
    [tree: Worktrees, listed: ListedCheckouts, backup: {None} \cup Entries]

Drops == [entry: Entries, slot: Nat, index: Nat]

\* None is no record.
ASSUME RecordAssumption ==
    /\ None \notin Entries /\ None \notin ListedCheckouts
    /\ None \notin Mutations /\ None \notin Commands
    /\ None \notin Captures /\ None \notin Drops /\ None \notin Listings

Phases == {"begin", "forward", "settle", "undo", "rollback"}

Outcomes ==
    {"running", "synced", "rolledBack", "handoff", "refused", "unreported"}

SnapshotTrees == {snapshots[i].tree : i \in DOMAIN snapshots}

AdoptedTrees == {adopted[i].tree : i \in DOMAIN adopted}

Journaled == {b \in Branches : journal[b] # None}

Restoring == phase \in {"undo", "rollback"}

\* The snapshots whose backup finalizeSnapshots has still to drop.
Undropped ==
    {i \in DOMAIN snapshots : snapshots[i].backup # None /\ ~snapshots[i].dropped}

----------------------------------------
\* Errors.  A failed step returns to the function whose deferred cleanup or
\* error branch handles it: the handler's defer, rollback's caller, or the
\* caller of finalizeSnapshots.

\* Faulty: a rollback that fails is not reported.
FailSilently ==
    /\ pc' = IF phase = "forward" THEN "cleanup" ELSE "done"
    /\ UNCHANGED <<phase, outcome>>

Fail ==
    /\ pc' = IF phase = "forward" THEN "cleanup" ELSE "done"
    /\ outcome' = CASE phase = "rollback" -> "handoff"
                    [] phase = "undo"     -> "unreported"
                    [] OTHER              -> outcome
    /\ UNCHANGED phase

----------------------------------------
\* Running one Git command

MutatesWorktree(kind) == kind \notin {"remove", "push"}

MutatedReferences(c) ==
    IF c.kind = "create" THEN {c.to}
    ELSE IF c.kind \in {"commit", "merge", "conclude", "reset"}
              /\ git.head[c.tree] # None
         THEN {git.head[c.tree]}
         ELSE {}

\* A ref enters the journal with the value begin captured.
Journal(refs) ==
    [b \in Branches |->
        IF b \in refs /\ journal[b] = None
        THEN [initial |-> start.refs[b], expected |-> start.refs[b]]
        ELSE journal[b]]

AsExpected(book, refs) == \A b \in refs : git.refs[b] = book[b].expected

\* prepareStrictSyncGitMutation: claim the worktree and the refs, and refuse
\* to run when a ref is not where this transaction last left it.
Prepare(c, refused) ==
    LET refs == MutatedReferences(c)
        book == Journal(refs)
    IN /\ mutated' = IF MutatesWorktree(c.kind) THEN mutated \cup {c.tree}
                                                ELSE mutated
       /\ journal' = book
       /\ IF AsExpected(book, refs)
          THEN /\ cmd' = [c EXCEPT !.refs = refs]
               /\ pc' = "command"
               /\ UNCHANGED ownershipLost
          ELSE /\ ownershipLost' = TRUE
               /\ pc' = refused
               /\ UNCHANGED cmd

Issue(c) ==
    /\ Prepare(c, "cleanup")
    /\ UNCHANGED <<git, target, start, ledger, published, phase, outcome,
                   capture, dropping, seen, pending, cursor>>

Command(kind, tree, then) ==
    [kind |-> kind, tree |-> tree, to |-> None, onto |-> {}, edits |-> {},
     refs |-> {}, then |-> then]

AfterCommand == IF cmd.refs = {} THEN cmd.then ELSE "complete"

\* completeStrictSyncGitMutation: whatever the refs are now is expected.
Complete ==
    /\ pc = "complete"
    /\ journal' = [b \in Branches |->
                     IF b \in cmd.refs
                     THEN [journal[b] EXCEPT !.expected = git.refs[b]]
                     ELSE journal[b]]
    /\ pc' = cmd.then
    /\ UNCHANGED <<git, target, start, ledger, mutated, ownershipLost, published,
                   phase, outcome, frames>>

----------------------------------------
\* beginStrictSyncTransaction and captureWorktreeSnapshot.  The commands of a
\* capture are not journaled.

TouchedTrees == {Caller} \cup {w \in start.trees : start.head[w] = target}

CaptureFrame(w, listed) == [tree |-> w, listed |-> listed, backup |-> None]

NewSnapshot(backup) ==
    [tree |-> capture.tree, listed |-> capture.listed,
     backup |-> backup, dropped |-> FALSE]

\* Where a finished capture returns: begin's loop or the adoption.
Captured == IF phase = "begin" THEN "begin" ELSE "protected"

BeginNext ==
    /\ pc = "begin"
    /\ \E w \in TouchedTrees \ SnapshotTrees :
         /\ Caller \in SnapshotTrees \cup {w}
         /\ capture' = CaptureFrame(w, Listed(start, w))
    /\ pc' = "snapshot"
    /\ UNCHANGED <<git, target, start, ledger, claims, published, phase,
                   outcome, cmd, dropping, seen, pending, cursor>>

Begun ==
    /\ pc = "begin"
    /\ TouchedTrees \subseteq SnapshotTrees
    /\ phase' = "forward"
    /\ pc' = "status"
    /\ UNCHANGED <<git, target, start, ledger, claims, published, outcome,
                   frames>>

\* A clean worktree needs no backup; a dirty one is stashed.
SnapshotStatus ==
    /\ pc = "snapshot"
    /\ capture.tree \notin git.unmerged
    /\ IF git.work[capture.tree] = {}
       THEN /\ snapshots' = Append(snapshots, NewSnapshot(None))
            /\ pc' = Captured
            /\ UNCHANGED git
       ELSE /\ git' = PushStash(git, capture.tree, "snapshot")
            /\ pc' = "snapshotRef"
            /\ UNCHANGED snapshots
    /\ UNCHANGED <<target, start, adopted, owned, claims, published, phase,
                   outcome, frames>>

\* rev-parse --verify refs/stash: whatever is on top is taken for the backup.
SnapshotRef ==
    /\ pc = "snapshotRef"
    /\ git.stashes # <<>>
    /\ capture' = [capture EXCEPT !.backup = Head(git.stashes)]
    /\ pc' = "snapshotApply"
    /\ UNCHANGED <<git, target, start, ledger, claims, published, phase,
                   outcome, cmd, dropping, seen, pending, cursor>>

SnapshotApply ==
    /\ pc = "snapshotApply"
    /\ git' = ApplyStash(git, capture.tree, capture.backup)
    /\ snapshots' = Append(snapshots, NewSnapshot(capture.backup))
    /\ pc' = Captured
    /\ UNCHANGED <<target, start, adopted, owned, claims, published, phase,
                   outcome, frames>>

\* Before the backup object is known nothing is registered: begin drops the
\* earlier snapshots and returns, an adoption fails the handler.
CaptureFails ==
    /\ pc \in {"snapshot", "snapshotRef"}
    /\ IF phase = "begin"
       THEN phase' = "settle" /\ outcome' = "refused" /\ pc' = "finalize"
       ELSE pc' = "cleanup" /\ UNCHANGED <<phase, outcome>>
    /\ UNCHANGED <<git, target, start, ledger, claims, published, frames>>

\* Afterwards the snapshot is registered and its worktree counts as mutated:
\* begin rolls back itself, an adoption fails the handler.
CaptureApplyFails ==
    /\ pc = "snapshotApply"
    /\ git' \in {git, ApplyStash(git, capture.tree, capture.backup)}
    /\ snapshots' = Append(snapshots, NewSnapshot(capture.backup))
    /\ mutated' = mutated \cup {capture.tree}
    /\ IF phase = "begin"
       THEN phase' = "undo" /\ pc' = "inspect"
       ELSE pc' = "cleanup" /\ UNCHANGED phase
    /\ UNCHANGED <<target, start, adopted, owned, journal, ownershipLost,
                   published, outcome, frames>>

\* ownAdoptedWorktree
OwnAdopted ==
    /\ pc = "protected"
    /\ adopted' = IF capture.tree \in AdoptedTrees THEN adopted
                  ELSE Append(adopted, [tree |-> capture.tree,
                                        listed |-> capture.listed])
    /\ mutated' = mutated \cup {capture.tree}
    /\ pc' = "save"
    /\ UNCHANGED <<git, target, start, snapshots, owned, journal,
                   ownershipLost, published, phase, outcome, frames>>

----------------------------------------
\* dropStrictSyncStash: find the entry's index in the list, then drop by
\* index.

Drop(entry, slot) == [entry |-> entry, slot |-> slot, index |-> 0]

\* Faulty: the newest entry is taken for the transaction's own.
ListNewest ==
    /\ pc = "list"
    /\ git.stashes # <<>>
    /\ dropping' = [dropping EXCEPT !.index = 1]
    /\ pc' = "drop"
    /\ UNCHANGED <<git, target, start, ledger, claims, published, phase,
                   outcome, cmd, capture, seen, pending, cursor>>

ListEntry ==
    /\ pc = "list"
    /\ \E i \in StashIndexes(git, dropping.entry) :
         /\ \A j \in StashIndexes(git, dropping.entry) : i <= j
         /\ dropping' = [dropping EXCEPT !.index = i]
    /\ pc' = "drop"
    /\ UNCHANGED <<git, target, start, ledger, claims, published, phase,
                   outcome, cmd, capture, seen, pending, cursor>>

\* Success releases an owned stash, or marks a snapshot's backup dropped.
Released ==
    IF dropping.slot = 0
    THEN /\ owned' = owned \ {dropping.entry}
         /\ UNCHANGED snapshots
    ELSE /\ snapshots' = [snapshots EXCEPT ![dropping.slot].dropped = TRUE]
         /\ UNCHANGED owned

AfterDrop ==
    IF dropping.slot # 0 THEN "finalize"
    ELSE IF Restoring THEN "release"
    ELSE IF cmd.then = "dropIsolation" THEN "cluster"
    ELSE "finalize"

DropEntry ==
    /\ pc = "drop"
    /\ dropping.index \in DOMAIN git.stashes
    /\ git' = DropStashAt(git, dropping.index)
    /\ Released
    /\ pc' = AfterDrop
    /\ UNCHANGED <<target, start, adopted, claims, published, phase, outcome,
                   frames>>

\* The list fails, the entry is gone, or the drop fails or is not reported.
DropFails ==
    /\ pc \in {"list", "drop"}
    /\ \/ UNCHANGED git
       \/ /\ pc = "drop" /\ dropping.index \in DOMAIN git.stashes
          /\ git' = DropStashAt(git, dropping.index)
    /\ Fail
    /\ UNCHANGED <<target, start, ledger, claims, published, frames>>

\* finalize and finalizeSnapshots: drop the backups, last first.
FinalizeNext ==
    /\ pc = "finalize"
    /\ owned = {} \/ phase = "settle"
    /\ \E i \in Undropped :
         /\ \A j \in Undropped : j <= i
         /\ dropping' = Drop(snapshots[i].backup, i)
    /\ pc' = "list"
    /\ UNCHANGED <<git, target, start, ledger, claims, published, phase,
                   outcome, cmd, capture, seen, pending, cursor>>

\* Faulty: success is reported before every backup is dropped.
FinalizedEarly ==
    /\ pc = "finalize"
    /\ outcome' = CASE phase = "forward" -> "synced"
                    [] Restoring         -> "rolledBack"
                    [] OTHER             -> outcome
    /\ pc' = "done"
    /\ UNCHANGED <<git, target, start, ledger, claims, published, phase,
                   frames>>

Finalized ==
    /\ pc = "finalize"
    /\ owned = {} \/ phase = "settle"
    /\ Undropped = {}
    /\ outcome' = CASE phase = "forward" -> "synced"
                    [] Restoring         -> "rolledBack"
                    [] OTHER             -> outcome
    /\ pc' = "done"
    /\ UNCHANGED <<git, target, start, ledger, claims, published, phase,
                   frames>>

----------------------------------------
\* The deferred cleanup of handleStrictSyncAction

\* Faulty: published work is rolled back.
CleanupPublishedByRollback ==
    /\ pc = "cleanup" /\ published
    /\ phase' = "rollback" /\ pc' = "inspect"
    /\ UNCHANGED <<git, target, start, ledger, claims, published, frames,
                   outcome>>

\* Published work is never taken back: the handoff is reported and only the
\* backups are dropped.
CleanupPublished ==
    /\ pc = "cleanup" /\ published
    /\ outcome' = "handoff" /\ phase' = "settle" /\ pc' = "finalize"
    /\ UNCHANGED <<git, target, start, ledger, claims, published, frames>>

\* Another writer owns a ref or the index: nothing is touched.
CleanupOwnershipLost ==
    /\ pc = "cleanup" /\ ~published /\ ownershipLost
    /\ outcome' = "handoff" /\ pc' = "done"
    /\ UNCHANGED <<git, target, start, ledger, claims, published, phase, frames>>

\* Faulty: a lost ownership does not keep rollback from running.
CleanupRollbackAnyway ==
    /\ pc = "cleanup" /\ ~published
    /\ phase' = "rollback" /\ pc' = "inspect"
    /\ UNCHANGED <<git, target, start, ledger, claims, published, frames,
                   outcome>>

CleanupRollback ==
    /\ pc = "cleanup" /\ ~published /\ ~ownershipLost
    /\ phase' = "rollback" /\ pc' = "inspect"
    /\ UNCHANGED <<git, target, start, ledger, claims, published, frames,
                   outcome>>

----------------------------------------
\* rollback.  Its commands are not journaled (restoring is set).

Listing ==
    [refs |-> git.refs,
     trees |-> [w \in Worktrees |->
                  IF w \in git.trees THEN Listed(git, w) ELSE None]]

\* validateRollbackReferenceOwnership: journaled refs are where the journal
\* left them; the branch of a mutated snapshot that was never journaled is
\* where it started.
ReferencesOwned ==
    /\ AsExpected(journal, Journaled)
    /\ \A i \in DOMAIN snapshots :
         LET b == snapshots[i].listed.head
         IN (snapshots[i].tree \in mutated /\ b # None /\ b \notin Journaled)
              => git.refs[b] = start.refs[b]

Inspect ==
    /\ pc = "inspect"
    /\ Caller \in git.trees
    /\ ReferencesOwned
    /\ seen' = Listing
    /\ pc' = "clear"
    /\ UNCHANGED <<git, target, start, ledger, claims, published, phase,
                   outcome, cmd, capture, dropping, pending, cursor>>

CallerMutated ==
    Caller \in mutated \/ seen.trees[Caller] # Listed(start, Caller)

\* resetAndCleanWorktree of the caller at the commit listed by Inspect.
ClearCaller ==
    /\ pc = "clear"
    /\ IF CallerMutated
       THEN /\ seen.trees[Caller].commit # None
            /\ git' = ResetHard(git, Caller, seen.trees[Caller].commit)
            /\ pc' = "checkout"
       ELSE UNCHANGED git /\ pc' = "refs"
    /\ UNCHANGED <<target, start, ledger, claims, published, phase, outcome,
                   frames>>

\* git switch <branch>, or --detach, fails on a branch that is gone or held.
CanRestore(w, listed) ==
    IF listed.head = None THEN listed.commit # None
    ELSE Exists(git.refs, listed.head) /\ Free(git, w, listed.head)

\* Faulty: the caller stays where the failure left it.
RestoreCallerNot ==
    /\ pc = "checkout"
    /\ pc' = "refs"
    /\ UNCHANGED <<git, target, start, ledger, claims, published, phase,
                   outcome, frames>>

RestoreCaller ==
    /\ pc = "checkout"
    /\ IF seen.trees[Caller] = Listed(start, Caller)
       THEN UNCHANGED git
       ELSE /\ CanRestore(Caller, Listed(start, Caller))
            /\ git' = Restored(git, Caller, Listed(start, Caller))
    /\ pc' = "refs"
    /\ UNCHANGED <<target, start, ledger, claims, published, phase, outcome,
                   frames>>

\* restoreLocalBranches lists the refs once, then updates them one by one.
ListReferences ==
    /\ pc = "refs"
    /\ seen' = Listing
    /\ pending' = Journaled
    /\ pc' = "ref"
    /\ UNCHANGED <<git, target, start, ledger, claims, published, phase,
                   outcome, cmd, capture, dropping, cursor>>

\* update-ref [-d] <ref> <initial> <expected> compares and swaps.
RestoreReference ==
    /\ pc = "ref"
    /\ \E b \in pending :
         /\ seen.refs[b] = journal[b].expected
         /\ IF seen.refs[b] = journal[b].initial
            THEN UNCHANGED git
            ELSE /\ git.refs[b] = journal[b].expected
                 /\ git' = [git EXCEPT !.refs[b] = journal[b].initial]
         /\ pending' = pending \ {b}
    /\ UNCHANGED <<target, start, ledger, claims, published, phase, pc,
                   outcome, cmd, capture, dropping, seen, cursor>>

ReferencesRestored ==
    /\ pc = "ref"
    /\ pending = {}
    /\ seen' = Listing
    /\ cursor' = 1
    /\ pc' = "topology"
    /\ UNCHANGED <<git, target, start, ledger, claims, published, phase,
                   outcome, cmd, capture, dropping, pending>>

\* An adopted worktree is checked out again, or recreated; one that has
\* moved to a third branch stops the rollback.
RestoreAdopted ==
    /\ pc = "topology"
    /\ cursor \in DOMAIN adopted
    /\ LET w == adopted[cursor].tree
           listed == adopted[cursor].listed
           current == seen.trees[w]
       IN IF current = listed THEN UNCHANGED git
          ELSE /\ CanRestore(w, listed)
               /\ IF current = None
                  THEN git' = AddTree(git, w, listed)
                  ELSE /\ current.head \in {None, listed.head}
                       /\ git' = Restored(git, w, listed)
    /\ cursor' = cursor + 1
    /\ UNCHANGED <<target, start, ledger, claims, published, phase, pc,
                   outcome, cmd, capture, dropping, seen, pending>>

AdoptedRestored ==
    /\ pc = "topology"
    /\ cursor \notin DOMAIN adopted
    /\ cursor' = 1
    /\ pc' = "contents"
    /\ UNCHANGED <<git, target, start, ledger, claims, published, phase,
                   outcome, cmd, capture, dropping, seen, pending>>

\* Every mutated snapshot is reset to its commit, then its backup applied.
ResetSnapshot ==
    /\ pc = "contents"
    /\ cursor \in DOMAIN snapshots
    /\ LET snapshot == snapshots[cursor]
       IN IF snapshot.tree \notin mutated
          THEN cursor' = cursor + 1 /\ UNCHANGED <<git, pc>>
          ELSE /\ snapshot.tree \in git.trees
               /\ snapshot.listed.commit # None
               /\ git' = ResetHard(git, snapshot.tree, snapshot.listed.commit)
               /\ pc' = "backup"
               /\ UNCHANGED cursor
    /\ UNCHANGED <<target, start, ledger, claims, published, phase, outcome,
                   cmd, capture, dropping, seen, pending>>

\* Faulty: the files are reset and the backup is not applied.
ApplyBackupNot ==
    /\ pc = "backup"
    /\ cursor' = cursor + 1
    /\ pc' = "contents"
    /\ UNCHANGED <<git, target, start, ledger, claims, published, phase,
                   outcome, cmd, capture, dropping, seen, pending>>

ApplyBackup ==
    /\ pc = "backup"
    /\ LET snapshot == snapshots[cursor]
       IN git' = IF snapshot.backup = None THEN git
                 ELSE ApplyStash(git, snapshot.tree, snapshot.backup)
    /\ cursor' = cursor + 1
    /\ pc' = "contents"
    /\ UNCHANGED <<target, start, ledger, claims, published, phase, outcome,
                   cmd, capture, dropping, seen, pending>>

ContentsRestored ==
    /\ pc = "contents"
    /\ cursor \notin DOMAIN snapshots
    /\ pc' = "release"
    /\ UNCHANGED <<git, target, start, ledger, claims, published, phase,
                   outcome, frames>>

\* The invocation's own stashes go first, then finalize drops the backups.
ReleaseOwned ==
    /\ pc = "release"
    /\ IF owned = {}
       THEN pc' = "finalize" /\ UNCHANGED dropping
       ELSE /\ \E entry \in owned : dropping' = Drop(entry, 0)
            /\ pc' = "list"
    /\ UNCHANGED <<git, target, start, ledger, claims, published, phase,
                   outcome, cmd, capture, seen, pending, cursor>>

\* Any step of the rollback may fail; it stops there.
RollbackFails ==
    /\ Restoring
    /\ pc \in {"inspect", "clear", "checkout", "refs", "ref", "topology",
               "contents", "backup"}
    /\ Fail
    /\ UNCHANGED <<git, target, start, ledger, claims, published, frames>>

Cleanup == CleanupPublished \/ CleanupOwnershipLost \/ CleanupRollback

Rollback ==
    \/ Inspect \/ ClearCaller \/ RestoreCaller
    \/ ListReferences \/ RestoreReference \/ ReferencesRestored
    \/ RestoreAdopted \/ AdoptedRestored
    \/ ResetSnapshot \/ ApplyBackup \/ ContentsRestored
    \/ ReleaseOwned \/ RollbackFails

Capture ==
    \/ BeginNext \/ Begun \/ SnapshotStatus \/ SnapshotRef \/ SnapshotApply
    \/ CaptureFails \/ CaptureApplyFails \/ OwnAdopted

Dropping == ListEntry \/ DropEntry \/ DropFails \/ FinalizeNext \/ Finalized

Transaction == Complete \/ Capture \/ Dropping \/ Cleanup \/ Rollback
========================================
