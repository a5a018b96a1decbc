-------------------------- MODULE StrictSyncProofs --------------------------
(***************************************************************************)
(* Theorems about StrictSync: every variable keeps its type, nothing is    *)
(* mutated that rollback could not restore, published work stands, the     *)
(* handler and its transaction implement SyncContract, a rollback that is  *)
(* reported left nothing on the remote and, if no one else is at work,     *)
(* restored every branch, checkout and worktree.                           *)
(***************************************************************************)
EXTENDS StrictSync, TLAPS

----------------------------------------
\* The repository: every operator keeps its type, and no command touches a
\* branch but the one it names or the one its worktree holds

\* The fields of a repository, one by one.
LEMMA RepositoryFields ==
    ASSUME NEW g \in RepositoryType
    PROVE  /\ g.refs \in [Branches -> {None} \cup Commits]
           /\ g.origin \in [Branches -> {None} \cup Commits]
           /\ g.head \in [Worktrees -> {None} \cup Branches]
           /\ g.at \in [Worktrees -> Commits]
           /\ g.trees \in SUBSET Worktrees
           /\ g.work \in [Worktrees -> SUBSET Tokens]
           /\ g.unmerged \in SUBSET Worktrees
           /\ g.stashes \in Seq(Entries)
           /\ g.review \in [Branches -> {None} \cup Branches]
BY DEF RepositoryType

\* What a checkout is at is a commit, or missing.
LEMMA TipType ==
    ASSUME NEW g \in RepositoryType, NEW w \in Worktrees
    PROVE  Tip(g, w) \in {None} \cup Commits
BY DEF RepositoryType, Tip

\* A commit, merge or reset of a checkout moves only its tip.
LEMMA MoveTipType ==
    ASSUME NEW g \in RepositoryType, NEW w \in Worktrees, NEW c \in Commits
    PROVE  MoveTip(g, w, c) \in RepositoryType
BY DEF MoveTip, RepositoryType

\* The edits of one checkout change.
LEMMA WorkType ==
    ASSUME NEW g \in RepositoryType, NEW w \in Worktrees, NEW e \in SUBSET Tokens
    PROVE  [g EXCEPT !.work[w] = e] \in RepositoryType
BY DEF RepositoryType

\* The set of conflicted checkouts changes.
LEMMA UnmergedType ==
    ASSUME NEW g \in RepositoryType, NEW u \in SUBSET Worktrees
    PROVE  [g EXCEPT !.unmerged = u] \in RepositoryType
BY DEF RepositoryType

\* A checkout changes its branch or detaches.
LEMMA HeadType ==
    ASSUME NEW g \in RepositoryType, NEW w \in Worktrees,
           NEW h \in {None} \cup Branches, NEW c \in Commits
    PROVE  [g EXCEPT !.head[w] = h, !.at[w] = c] \in RepositoryType
BY DEF RepositoryType

\* One local branch changes.
LEMMA RefType ==
    ASSUME NEW g \in RepositoryType, NEW b \in Branches,
           NEW c \in {None} \cup Commits
    PROVE  [g EXCEPT !.refs[b] = c] \in RepositoryType
BY DEF RepositoryType

\* git commit.
LEMMA CommitEditsType ==
    ASSUME NEW g \in RepositoryType, NEW w \in Worktrees,
           NEW edits \in SUBSET Tokens, Tip(g, w) # None
    PROVE  CommitEdits(g, w, edits) \in RepositoryType
<1>1. Tip(g, w) \cup edits \in Commits
    BY TipType DEF Commits
<1>2. MoveTip(g, w, Tip(g, w) \cup edits) \in RepositoryType
    BY <1>1, MoveTipType
<1> DEFINE m == MoveTip(g, w, Tip(g, w) \cup edits)
<1>3. m.work[w] \ edits \in SUBSET Tokens
    BY <1>2, RepositoryFields
<1>4. [m EXCEPT !.work[w] = m.work[w] \ edits] \in RepositoryType
    BY <1>2, <1>3, WorkType
<1> QED
    BY <1>4 DEF CommitEdits

\* git merge, once it has no conflicts.
LEMMA MergeCommitType ==
    ASSUME NEW g \in RepositoryType, NEW w \in Worktrees, NEW c \in Commits,
           Tip(g, w) # None
    PROVE  MergeCommit(g, w, c) \in RepositoryType
<1>1. Tip(g, w) \cup c \in Commits
    BY TipType DEF Commits
<1> DEFINE m == MoveTip(g, w, Tip(g, w) \cup c)
<1>2. m \in RepositoryType
    BY <1>1, MoveTipType
<1>3. m.unmerged \ {w} \in SUBSET Worktrees
    BY <1>2, RepositoryFields
<1>4. [m EXCEPT !.unmerged = m.unmerged \ {w}] \in RepositoryType
    BY <1>2, <1>3, UnmergedType
<1> QED
    BY <1>4 DEF MergeCommit

\* git reset --hard and git clean.
LEMMA ResetHardType ==
    ASSUME NEW g \in RepositoryType, NEW w \in Worktrees, NEW c \in Commits
    PROVE  ResetHard(g, w, c) \in RepositoryType
<1> DEFINE m == MoveTip(g, w, c)
<1>1. m \in RepositoryType
    BY MoveTipType
<1>2. [m EXCEPT !.work[w] = {}] \in RepositoryType
    BY <1>1, WorkType
<1>3. m.unmerged \ {w} \in SUBSET Worktrees
    BY <1>1, RepositoryFields
<1>4. [[m EXCEPT !.work[w] = {}] EXCEPT !.unmerged = m.unmerged \ {w}]
        \in RepositoryType
    BY <1>2, <1>3, UnmergedType
<1>5. ResetHard(g, w, c)
        = [[m EXCEPT !.work[w] = {}] EXCEPT !.unmerged = m.unmerged \ {w}]
    BY <1>1 DEF ResetHard, RepositoryType
<1> QED
    BY <1>4, <1>5

\* git switch, git switch --create and git switch --detach.
LEMMA SwitchToType ==
    ASSUME NEW g \in RepositoryType, NEW w \in Worktrees, NEW b \in Branches
    PROVE  SwitchTo(g, w, b) \in RepositoryType
<1>1. {} \in Commits
    BY DEF Commits
<1> QED
    BY <1>1, HeadType DEF SwitchTo

\* git switch --create.
LEMMA CreateBranchType ==
    ASSUME NEW g \in RepositoryType, NEW w \in Worktrees, NEW b \in Branches,
           NEW c \in Commits
    PROVE  CreateBranch(g, w, b, c) \in RepositoryType
BY RefType, SwitchToType DEF CreateBranch

\* git switch --detach.
LEMMA DetachAtType ==
    ASSUME NEW g \in RepositoryType, NEW w \in Worktrees, NEW c \in Commits
    PROVE  DetachAt(g, w, c) \in RepositoryType
BY HeadType DEF DetachAt

\* git worktree remove, and git worktree add for a listed checkout.
LEMMA RemoveTreeType ==
    ASSUME NEW g \in RepositoryType, NEW w \in Worktrees
    PROVE  RemoveTree(g, w) \in RepositoryType
<1> DEFINE m == DetachAt(g, w, {})
<1>1. m \in RepositoryType
    BY DetachAtType DEF Commits
<1> QED
    BY <1>1 DEF RemoveTree, RepositoryType

\* A listed checkout is checked out again.
LEMMA RestoredType ==
    ASSUME NEW g \in RepositoryType, NEW w \in Worktrees,
           NEW listed \in [head: {None} \cup Branches, commit: {None} \cup Commits],
           listed.head = None => listed.commit # None
    PROVE  Restored(g, w, listed) \in RepositoryType
BY DetachAtType, SwitchToType DEF Restored

\* git worktree add for a listed checkout.
LEMMA AddTreeType ==
    ASSUME NEW g \in RepositoryType, NEW w \in Worktrees,
           NEW listed \in [head: {None} \cup Branches, commit: {None} \cup Commits],
           listed.head = None => listed.commit # None
    PROVE  AddTree(g, w, listed) \in RepositoryType
<1> DEFINE m == [g EXCEPT !.trees = @ \cup {w}, !.work[w] = {}]
<1>1. m \in RepositoryType
    BY DEF RepositoryType
<1>2. AddTree(g, w, listed) = Restored(m, w, listed)
    BY DEF AddTree
<1> HIDE DEF m
<1> QED
    BY <1>1, <1>2, RestoredType

\* git stash push, apply and drop.
LEMMA PushStashType ==
    ASSUME NEW g \in RepositoryType, NEW w \in Worktrees, NEW use \in StashUses
    PROVE  PushStash(g, w, use) \in RepositoryType
<1> DEFINE entry == [tree |-> w, edits |-> g.work[w], use |-> use]
<1>1. entry \in Entries
    BY RepositoryFields DEF Entries
<1> HIDE DEF entry
<1>2. <<entry>> \o g.stashes \in Seq(Entries)
    BY <1>1, RepositoryFields
<1>3. [g EXCEPT !.stashes = <<entry>> \o g.stashes, !.work[w] = {}]
        \in RepositoryType
    BY <1>2 DEF RepositoryType
<1> QED
    BY <1>3 DEF PushStash, entry

\* git stash apply.
LEMMA ApplyStashType ==
    ASSUME NEW g \in RepositoryType, NEW w \in Worktrees, NEW entry \in Entries
    PROVE  ApplyStash(g, w, entry) \in RepositoryType
<1>1. g.work[w] \cup entry.edits \in SUBSET Tokens
    BY RepositoryFields DEF Entries
<1>2. [g EXCEPT !.work[w] = g.work[w] \cup entry.edits] \in RepositoryType
    BY <1>1, WorkType
<1> QED
    BY <1>2 DEF ApplyStash

\* git stash drop.
LEMMA DropStashType ==
    ASSUME NEW g \in RepositoryType, NEW i \in DOMAIN g.stashes
    PROVE  DropStashAt(g, i) \in RepositoryType
<1> DEFINE s == g.stashes
<1>1. s \in Seq(Entries) /\ i \in 1..Len(s)
    BY RepositoryFields
<1> HIDE DEF s
<1>2. /\ SubSeq(s, 1, i - 1) \in Seq(Entries)
      /\ SubSeq(s, i + 1, Len(s)) \in Seq(Entries)
    BY <1>1
<1>3. RemoveAt(s, i) \in Seq(Entries)
    BY <1>2 DEF RemoveAt
<1>4. [g EXCEPT !.stashes = RemoveAt(s, i)] \in RepositoryType
    BY <1>3 DEF RepositoryType
<1> QED
    BY <1>4 DEF DropStashAt, s

\* git push.
LEMMA PushBranchType ==
    ASSUME NEW g \in RepositoryType, NEW b \in Branches
    PROVE  PushBranch(g, b) \in RepositoryType
BY DEF PushBranch, RepositoryType

\* git config branch.<name>.gix-review-base.
LEMMA RecordReviewType ==
    ASSUME NEW g \in RepositoryType, NEW b \in Branches,
           NEW base \in {None} \cup Branches
    PROVE  RecordReview(g, b, base) \in RepositoryType
BY DEF RecordReview, RepositoryType

\* The head of the stash list is an entry.
LEMMA HeadStashType ==
    ASSUME NEW g \in RepositoryType, g.stashes # <<>>
    PROVE  Head(g.stashes) \in Entries
BY DEF RepositoryType

----------------------------------------
\* The handler and its transaction

CaptureSteps == {"snapshot", "snapshotRef", "snapshotApply"}

RollbackSteps ==
    {"inspect", "clear", "checkout", "refs", "ref", "topology", "contents",
     "backup", "release"}

DropSteps == {"list", "drop"}

CommandSteps == {"command", "complete", "resolve", "abandon"}

\* The steps of handleStrictSyncAction and its callees, before its cleanup.
HandlerSteps ==
    Continuations \cup CommandSteps \cup
    {"status", "plan", "parent", "climb", "record", "stash", "route",
     "isolate", "prepare", "generate", "sync", "explicit", "base",
     "baseReset", "review", "switch", "alignMerge", "alignReset", "follow",
     "adopt", "protected", "save", "cleanup"}

\* Which function's steps run in which phase.
PhaseOK ==
    /\ pc = "begin" => phase = "begin"
    /\ pc \in CaptureSteps => phase \in {"begin", "forward"}
    /\ pc \in HandlerSteps => phase = "forward"
    /\ pc \in RollbackSteps => Restoring
    /\ pc \in DropSteps /\ dropping.slot = 0
         => phase \in {"forward", "undo", "rollback"}

\* Where an adoption is under way, or a command that will lead into one.
InAdoption ==
    \/ pc \in {"adopt", "protected", "save", "leave", "retry"}
    \/ pc \in CaptureSteps /\ phase = "forward"
    \/ pc \in CommandSteps /\ (cmd.kind = "switch" \/ cmd.then \in {"leave", "retry"})

\* Every step finds the frame the step before it left: the command with the
\* branch it names and its refs in the journal, the capture, the entry to
\* drop, the listing, the cursor.
FramesOK ==
    /\ pc \in CommandSteps \cup {"generate"} => cmd # None
    /\ pc \in CommandSteps => cmd.refs \subseteq Journaled
    /\ pc \in CommandSteps /\ cmd.kind \in {"switch", "create", "push"} => cmd.to # None
    /\ pc \in CommandSteps /\ cmd.kind = "switch" => cmd.then \in AfterSwitch
    /\ pc = "generate" => cmd.kind = "commit" /\ cmd.then = "cluster"
    /\ pc \in CaptureSteps \cup {"protected", "save", "leave"} => capture # None
    /\ pc \in CommandSteps /\ cmd.then = "leave" => capture # None
    /\ pc = "snapshotApply" => capture.backup # None
    /\ InAdoption => switching # None
    /\ pc \in DropSteps =>
         /\ dropping # None
         /\ dropping.slot # 0 => dropping.slot \in DOMAIN snapshots
    /\ pc \in {"clear", "checkout", "ref", "topology"} => seen # None
    /\ pc \in {"clear", "checkout"} => seen.trees[Caller] # None
    /\ pc = "ref" => pending \subseteq Journaled
    /\ pc = "backup" => cursor \in DOMAIN snapshots
    /\ pc = "openParent" => chain # <<>>
    /\ pc \in CommandSteps /\ cmd.then = "openParent" => chain # <<>>

\* Every worktree the invocation has mutated, or is about to, is snapshotted.
CoveredOK ==
    /\ mutated \subseteq SnapshotTrees
    /\ phase = "forward" => Caller \in SnapshotTrees
    /\ pc \in {"protected", "save", "leave"} => capture.tree \in SnapshotTrees
    /\ pc \in CommandSteps \cup {"generate"} => cmd.tree \in SnapshotTrees
    /\ pc \in CommandSteps /\ cmd.then = "leave" => capture.tree \in SnapshotTrees

IInv == TypeOK /\ PhaseOK /\ FramesOK /\ CoveredOK

----------------------------------------
\* Initial states

\* The initial states satisfy the invariant: nothing is claimed or captured.
LEMMA InitKeeps == ASSUME Init PROVE IInv
<1> USE StrictSyncAssumption, CallerAssumption
<1>1. PICK invocation \in Invocations :
        git = invocation.git /\ forge = invocation.forge
          /\ request = invocation.request
    BY DEF Init
<1>2. invocation \in InvocationType
    OBVIOUS
<1>3. git \in RepositoryType /\ forge \in ForgeType /\ request \in RequestType
    BY <1>1, <1>2 DEF InvocationType
<1>4. target \in Branches
    BY <1>3 DEF Init, RequestType
<1>5. TypeOK
  <2>1. /\ start = git /\ snapshots = <<>> /\ adopted = <<>> /\ owned = {}
        /\ journal = [b \in Branches |-> None] /\ mutated = {}
        /\ published = FALSE /\ ownershipLost = FALSE
        /\ phase = "begin" /\ outcome = "running"
        /\ cmd = None /\ capture = None /\ dropping = None /\ seen = None
        /\ pending = {} /\ cursor = 1
    BY DEF Init
  <2>5. /\ <<>> \in Seq(Snapshots) /\ <<>> \in Seq(Adoptions)
        /\ <<>> \in Seq(Branches)
    OBVIOUS
  <2>2. TransactionType
    BY <1>3, <1>4, <2>1, <2>5 DEF TransactionType, FrameType, Phases, Outcomes
  <2>3. /\ dirty = FALSE /\ reviewBase = Default /\ merged = FALSE
        /\ record = FALSE /\ branch = target /\ chain = <<>>
        /\ switching = None /\ outside = {} /\ silent = FALSE
    BY DEF Init
  <2>4. HandlerType
    BY <1>3, <1>4, <2>3, <2>5 DEF HandlerType
  <2> QED
    BY <2>2, <2>4 DEF TypeOK
<1>6. PhaseOK
    BY DEF Init, PhaseOK, CaptureSteps, HandlerSteps, RollbackSteps, DropSteps, CommandSteps, Continuations
<1>7. FramesOK
    BY DEF Init, FramesOK, InAdoption, CaptureSteps, DropSteps, CommandSteps
<1>8. CoveredOK
    BY DEF Init, CoveredOK, CommandSteps
<1> QED
    BY <1>5, <1>6, <1>7, <1>8 DEF IInv

----------------------------------------
\* A command is issued

\* What MutatedReferences returns is a set of branches.
LEMMA MutatedReferencesType ==
    ASSUME git \in RepositoryType, NEW c \in Commands,
           c.kind = "create" => c.to # None
    PROVE  MutatedReferences(c) \subseteq Branches
BY RepositoryFields DEF MutatedReferences, Commands

\* Journaling refs keeps the earlier entries and adds one for each ref.
LEMMA JournalType ==
    ASSUME start \in RepositoryType, journal \in [Branches -> {None} \cup Mutations],
           NEW refs \in SUBSET Branches
    PROVE  /\ Journal(refs) \in [Branches -> {None} \cup Mutations]
           /\ \A b \in refs : Journal(refs)[b] # None
           /\ \A b \in Branches : journal[b] # None => Journal(refs)[b] # None
BY RepositoryFields, RecordAssumption DEF Journal, Mutations

\* prepareStrictSyncGitMutation and the decisions around it.
LEMMA IssueKeeps ==
    ASSUME IInv, NEW c \in Commands, phase = "forward",
           c.tree \in SnapshotTrees,
           c.kind \in {"switch", "create", "push"} => c.to # None,
           c.then = "openParent" => chain # <<>>,
           c.then = "leave" => capture # None /\ capture.tree \in SnapshotTrees,
           c.kind = "switch" \/ c.then \in {"leave", "retry"} => switching' # None,
           c.kind = "switch" => c.then \in AfterSwitch,
           switching' \in {None} \cup Switches,
           Issue(c),
           UNCHANGED <<forge, request, dirty, plans, world>>
    PROVE  IInv'
<1> DEFINE refs == MutatedReferences(c)
           book == Journal(refs)
<1>1. refs \subseteq Branches
    BY MutatedReferencesType DEF IInv, TypeOK, TransactionType
<1>2. /\ book \in [Branches -> {None} \cup Mutations]
      /\ \A b \in refs : book[b] # None
    BY <1>1, JournalType DEF IInv, TypeOK, TransactionType
<1>3. /\ journal' = book
      /\ mutated' \subseteq mutated \cup {c.tree}
      /\ \/ /\ cmd' = [c EXCEPT !.refs = refs] /\ pc' = "command"
            /\ ownershipLost' = ownershipLost
         \/ cmd' = cmd /\ pc' = "cleanup" /\ ownershipLost' = TRUE
    BY DEF Issue, Prepare
<1>4. [c EXCEPT !.refs = refs] \in Commands
    BY <1>1 DEF Commands
<1>5. UNCHANGED <<git, target, start, snapshots, adopted, owned, published,
                  phase, outcome, capture, dropping, seen, pending, cursor,
                  forge, request, dirty, reviewBase, merged, record, branch,
                  chain, outside, silent>>
    BY DEF Issue, ledger, plans, world
<1> HIDE DEF refs, book
<1>6. TypeOK'
    BY ZenonT(30), <1>1, <1>2, <1>3, <1>4, <1>5 DEF IInv, TypeOK, TransactionType, FrameType, HandlerType,
      Commands
<1>7. PhaseOK'
    BY <1>3, <1>5 DEF IInv, PhaseOK, CaptureSteps, RollbackSteps, DropSteps, HandlerSteps, CommandSteps,
      Restoring
<1>8. FramesOK'
    BY <1>2, <1>3, <1>4, <1>5, RecordAssumption DEF FramesOK, InAdoption, CaptureSteps, DropSteps, CommandSteps,
      Journaled, Commands
<1>9. CoveredOK'
    BY <1>3, <1>5 DEF IInv, CoveredOK, SnapshotTrees, CommandSteps, Commands
<1> QED
    BY <1>6, <1>7, <1>8, <1>9 DEF IInv

----------------------------------------
\* The steps of the handler

\* Inside the handler the caller is snapshotted.
LEMMA InHandler ==
    ASSUME IInv, pc \in HandlerSteps
    PROVE  phase = "forward" /\ Caller \in SnapshotTrees
BY DEF IInv, PhaseOK, CoveredOK

\* A commit of some edits is a command.
LEMMA CommitCommand ==
    ASSUME NEW tree, NEW edits, NEW then
    PROVE  [Command("commit", tree, then) EXCEPT !.edits = edits] =
             [kind |-> "commit", tree |-> tree, to |-> None, onto |-> {},
              edits |-> edits, refs |-> {}, then |-> then]
BY DEF Command

LEMMA NoCommit == {} \in Commits
BY DEF Commits

\* Commands are built with the type the frame promises.
LEMMA CommandType ==
    ASSUME NEW kind \in Kinds, NEW tree \in Worktrees,
           NEW then \in Continuations
    PROVE  /\ Command(kind, tree, then) \in Commands
           /\ \A b \in Branches :
                [Command(kind, tree, then) EXCEPT !.to = b] \in Commands
           /\ \A b \in Branches, c \in Commits :
                [Command(kind, tree, then) EXCEPT !.to = b, !.onto = c] \in Commands
           /\ \A c \in Commits :
                [Command(kind, tree, then) EXCEPT !.onto = c] \in Commands
           /\ \A edits \in SUBSET Tokens :
                [Command(kind, tree, then) EXCEPT !.edits = edits] \in Commands
BY DEF Command, Commands, Commits

\* A step that may change the repository, the forge and the handler's own
\* variables, but neither the frames nor what rollback restores from.
LEMMA HandlerStepKeeps ==
    ASSUME IInv, phase = "forward",
           git' \in RepositoryType, forge' \in ForgeType,
           published' \in BOOLEAN, ownershipLost' \in BOOLEAN,
           silent' \in BOOLEAN, dirty' \in BOOLEAN, merged' \in BOOLEAN,
           record' \in BOOLEAN, reviewBase' \in Branches,
           branch' \in Branches, chain' \in Seq(Branches),
           UNCHANGED <<target, start, ledger, journal, mutated, phase,
                       outcome, frames, request, switching, outside>>,
           pc' \in HandlerSteps \cup {"finalize"},
           pc' \notin {"protected", "save", "generate"},
           pc' \in CommandSteps => pc \in CommandSteps /\ chain' = chain,
           pc' \in {"adopt", "retry", "leave"} => switching # None,
           pc' = "leave" => capture # None /\ capture.tree \in SnapshotTrees,
           pc' = "openParent" => chain' # <<>>
    PROVE  IInv'
<1>1. UNCHANGED <<target, start, snapshots, adopted, owned, journal, mutated,
                  phase, outcome, cmd, capture, dropping, seen, pending,
                  cursor, request, switching, outside>>
    BY DEF ledger, frames
<1>2. TypeOK'
    BY <1>1 DEF IInv, TypeOK, TransactionType, FrameType, HandlerType
<1>3. PhaseOK'
    BY <1>1 DEF PhaseOK, CaptureSteps, RollbackSteps, DropSteps, HandlerSteps, CommandSteps, Continuations
<1>4. FramesOK'
    BY <1>1 DEF IInv, FramesOK, InAdoption, Journaled, CaptureSteps, DropSteps, CommandSteps, HandlerSteps,
      Continuations
<1>5. CoveredOK'
    BY <1>1 DEF IInv, CoveredOK, SnapshotTrees, CommandSteps
<1> QED
    BY <1>2, <1>3, <1>4, <1>5 DEF IInv

\* The special case of a step that only decides.
LEMMA DecisionKeeps ==
    ASSUME IInv, pc \in HandlerSteps, UNCHANGED quiet,
           dirty' \in BOOLEAN, merged' \in BOOLEAN, record' \in BOOLEAN,
           reviewBase' \in Branches, branch' \in Branches,
           chain' \in Seq(Branches),
           pc' \in HandlerSteps \cup {"finalize"},
           pc' \notin {"protected", "save", "generate"},
           pc' \in CommandSteps => pc \in CommandSteps /\ chain' = chain,
           pc' \in {"adopt", "retry", "leave"} => switching # None,
           pc' = "leave" => capture # None /\ capture.tree \in SnapshotTrees,
           pc' = "openParent" => chain' # <<>>
    PROVE  IInv'
BY InHandler, HandlerStepKeeps DEF quiet, IInv, TypeOK, TransactionType, HandlerType, claims, world

\* What the types give a step of the handler.
LEMMA HandlerFacts ==
    ASSUME IInv, pc \in HandlerSteps
    PROVE  /\ phase = "forward" /\ Caller \in SnapshotTrees
           /\ Caller \in Worktrees
           /\ git \in RepositoryType /\ start \in RepositoryType
           /\ forge \in ForgeType /\ request \in RequestType
           /\ target \in Branches /\ Default \in Branches
           /\ Generated \in Branches
           /\ dirty \in BOOLEAN /\ merged \in BOOLEAN /\ record \in BOOLEAN
           /\ published \in BOOLEAN /\ ownershipLost \in BOOLEAN
           /\ silent \in BOOLEAN
           /\ reviewBase \in Branches /\ branch \in Branches
           /\ chain \in Seq(Branches)
           /\ switching \in {None} \cup Switches
BY InHandler, CallerAssumption, StrictSyncAssumption DEF IInv, TypeOK, TransactionType, HandlerType

\* The base of a review, open or merged, is a branch once it is not None.
LEMMA ForgeFacts ==
    ASSUME forge \in ForgeType, NEW b \in Branches
    PROVE  /\ forge[b].open \in {None} \cup Branches
           /\ MergedBase(b) \in {None} \cup Branches
BY DEF ForgeType, MergedBase

\* The base of a stack parent is a branch.
LEMMA ParentBaseType ==
    ASSUME git \in RepositoryType, NEW b \in Branches
    PROVE  ParentBase(b) \in Branches
BY RepositoryFields, StrictSyncAssumption DEF ParentBase

\* A review base is recorded or forgotten.
LEMMA ReviewStepKeeps ==
    ASSUME IInv, pc \in HandlerSteps, NEW b \in Branches,
           NEW base \in {None} \cup Branches,
           git' \in {git, RecordReview(git, b, base)},
           pc' \in HandlerSteps \ (CommandSteps \cup
                     {"protected", "save", "generate", "adopt", "retry",
                      "leave", "openParent"}),
           UNCHANGED <<target, start, ledger, claims, published, phase, outcome,
                       frames, handlerVars>>
    PROVE  IInv'
<1>1. git' \in RepositoryType
  <2>1. git \in RepositoryType
    BY HandlerFacts
  <2> QED  BY <2>1, RecordReviewType
<1>2. UNCHANGED <<target, start, ledger, journal, mutated, ownershipLost,
                  published, phase, outcome, frames, forge, request, dirty,
                  reviewBase, merged, record, branch, chain, switching,
                  outside, silent>>
    BY DEF claims, handlerVars, plans, world
<1> QED
    BY <1>1, <1>2, HandlerFacts, HandlerStepKeeps

\* createPullRequest, reported or not.
LEMMA OpenPullRequestKeeps ==
    ASSUME IInv, pc \in HandlerSteps, NEW b \in Branches, NEW base \in Branches,
           NEW next \in {"unwind", "restore"}, OpenPullRequest(b, base, next),
           chain' \in Seq(Branches)
    PROVE  IInv'
<1> DEFINE reviews == [open: {None} \cup Branches, merged: {None} \cup Branches,
                       oid: Commits]
           opened == [forge[b] EXCEPT !.open = base]
<1>0. opened \in reviews
  <2>1. forge[b] \in reviews
    BY HandlerFacts DEF ForgeType
  <2> QED
    BY <2>1
<1>1. [forge EXCEPT ![b].open = base] \in ForgeType
  <2> HIDE DEF reviews, opened
  <2>1. forge \in [Branches -> reviews]
    BY HandlerFacts DEF ForgeType, reviews
  <2>2. [forge EXCEPT ![b] = opened] \in [Branches -> reviews]
    BY <1>0, <2>1
  <2> QED
    BY <2>2 DEF ForgeType, reviews, opened
<1>2. /\ forge' \in ForgeType /\ published' \in BOOLEAN /\ silent' \in BOOLEAN
      /\ pc' \in {"unwind", "restore", "cleanup"}
    BY <1>1, HandlerFacts DEF OpenPullRequest
<1>3. UNCHANGED <<git, target, start, ledger, journal, mutated, ownershipLost,
                  phase, outcome, frames, request, dirty, reviewBase, merged,
                  record, branch, switching, outside>>
    BY DEF OpenPullRequest, claims
<1> HIDE DEF OpenPullRequest
<1>4. /\ pc' \in HandlerSteps
      /\ pc' \notin CommandSteps \cup {"protected", "save", "generate", "adopt",
                                      "retry", "leave", "openParent"}
    BY <1>2 DEF HandlerSteps, Continuations, CommandSteps
<1> QED
    BY <1>2, <1>3, <1>4, HandlerFacts, HandlerStepKeeps

\* Every step of planning and of the stack of parents.
LEMMA PlanningKeeps == ASSUME IInv, Planning PROVE IInv'
<1> USE DEF HandlerSteps, CommandSteps, Continuations
<1>1. CASE ReadStatus
    BY <1>1, HandlerFacts, DecisionKeeps DEF ReadStatus, plans
<1>2. CASE PlanDefault
    BY <1>2, HandlerFacts, ReviewStepKeeps DEF PlanDefault
<1>3. CASE PlanUnstacked
    BY <1>3, HandlerFacts, DecisionKeeps DEF PlanUnstacked, Planned
<1>4. CASE PlanMerged
    BY <1>4, HandlerFacts, ForgeFacts, DecisionKeeps DEF PlanMerged, MergedChild, Planned
<1>5. CASE PlanStored
  BY <1>5, HandlerFacts, RepositoryFields, DecisionKeeps DEF PlanStored, Stored, Planned
<1>6. CASE PlanChild
  BY <1>6, HandlerFacts, RepositoryFields, DecisionKeeps DEF PlanChild, Planned
<1>7. CASE EnterParents
    BY <1>7, HandlerFacts, DecisionKeeps DEF EnterParents
<1>8. CASE ClimbToDefault
    BY <1>8, HandlerFacts, DecisionKeeps DEF ClimbToDefault, plans
<1>9. CASE ClimbToOpen
  <2> DEFINE c == [Command("push", Caller, "unwind") EXCEPT !.to = branch]
  <2>1. pc \in HandlerSteps /\ Issue(c) /\ UNCHANGED handlerVars
    BY <1>9 DEF ClimbToOpen
  <2>2. /\ c \in Commands /\ c.tree = Caller /\ c.to \in Branches
        /\ c.kind = "push" /\ c.then = "unwind"
    BY ZenonT(30), <2>1, HandlerFacts, CommandType DEF Kinds, Command
  <2> HIDE DEF c
  <2> QED
    BY <2>1, <2>2, HandlerFacts, IssueKeeps, NoneAssumption DEF handlerVars, plans
<1>10. CASE ClimbFurther
    BY <1>10, HandlerFacts, ParentBaseType, DecisionKeeps DEF ClimbFurther
<1>11. CASE UnwindParent
  <2> DEFINE c == [Command("push", Caller, "openParent") EXCEPT !.to = Last(chain)]
  <2>1. pc \in HandlerSteps /\ Issue(c) /\ chain # <<>> /\ UNCHANGED handlerVars
    BY <1>11 DEF UnwindParent
  <2>2. Last(chain) \in Branches
    BY <2>1, HandlerFacts DEF Last
  <2>3. /\ c \in Commands /\ c.tree = Caller /\ c.to \in Branches
        /\ c.kind = "push" /\ c.then = "openParent"
    <3>1. c \in Commands
      BY ZenonT(30), <2>1, <2>2, HandlerFacts, CommandType DEF Kinds
    <3>2. c.tree = Caller /\ c.to = Last(chain) /\ c.kind = "push" /\ c.then = "openParent"
      BY DEF Command
    <3> QED
      BY <2>2, <3>1, <3>2
  <2> HIDE DEF c
  <2> QED
    BY <2>1, <2>3, HandlerFacts, IssueKeeps, NoneAssumption DEF handlerVars, plans
<1>12. CASE ParentsReady
    BY <1>12, HandlerFacts, DecisionKeeps DEF ParentsReady
<1>13. CASE RecordReviewBase
    BY <1>13, HandlerFacts, ReviewStepKeeps DEF RecordReviewBase
<1>14. CASE OpenParent
  BY <1>14, HandlerFacts, ParentBaseType, OpenPullRequestKeeps DEF OpenParent, IInv, FramesOK, Last, Front
<1> QED
    BY <1>1, <1>2, <1>3, <1>4, <1>5, <1>6, <1>7, <1>8, <1>9, <1>10, <1>11, <1>12, <1>13, <1>14 DEF Planning

----------------------------------------
\* Saving dirty work

\* A command of the caller whose continuation leads nowhere special.
LEMMA CallerCommandKeeps ==
    ASSUME IInv, pc \in HandlerSteps, NEW c \in Commands, c.tree = Caller,
           c.kind \in {"create", "push"} => c.to # None,
           c.kind # "switch",
           c.then \notin {"openParent", "leave", "retry"},
           Issue(c), UNCHANGED handlerVars
    PROVE  IInv'
BY HandlerFacts, IssueKeeps DEF handlerVars, plans

\* A branch is created at a commit that exists.
LEMMA CreateKeeps ==
    ASSUME IInv, pc \in HandlerSteps, NEW b \in Branches,
           NEW commit \in {None} \cup Commits,
           NEW next \in Continuations \ {"openParent", "leave", "retry"},
           CreateAt(b, commit, next)
    PROVE  IInv'
<1> DEFINE c == [Command("create", Caller, next) EXCEPT !.to = b, !.onto = commit]
<1>1. commit \in Commits /\ Issue(c) /\ UNCHANGED handlerVars
    BY DEF CreateAt
<1>2. c \in Commands /\ c.tree = Caller /\ c.to = b /\ c.kind = "create"
        /\ c.then = next
    BY <1>1, HandlerFacts, CommandType DEF Kinds, Command
<1> HIDE DEF c
<1> QED
    BY <1>1, <1>2, NoneAssumption, CallerCommandKeeps

\* A switch that may adopt names its branch and what follows it.
LEMMA SwitchKeeps ==
    ASSUME IInv, pc \in HandlerSteps, NEW b \in Branches,
           NEW next \in AfterSwitch, SwitchWithAdoption(b, next)
    PROVE  IInv'
<1> DEFINE c == [Command("switch", Caller, next) EXCEPT !.to = b]
<1>1. /\ switching' = [to |-> b, then |-> next, adopted |-> FALSE]
      /\ Issue(c) /\ UNCHANGED <<forge, request, dirty, plans, world>>
    BY DEF SwitchWithAdoption
<1>2. switching' \in Switches
    BY <1>1 DEF Switches
<1>3. switching' # None
    BY <1>2, StrictSyncAssumption
<1>4. next \in Continuations \ {"openParent", "leave", "retry"}
    BY DEF AfterSwitch, Continuations
<1>5. c \in Commands /\ c.tree = Caller /\ c.to = b /\ c.kind = "switch"
        /\ c.then = next
    BY <1>4, HandlerFacts, CommandType DEF Kinds, Command
<1> HIDE DEF c
<1> QED
    BY <1>1, <1>2, <1>3, <1>4, <1>5, HandlerFacts, NoneAssumption, IssueKeeps

\* A plain command of the caller.
LEMMA PlainKeeps ==
    ASSUME IInv, pc \in HandlerSteps, NEW kind \in Kinds \ {"switch", "create", "push"},
           NEW then \in Continuations \ {"openParent", "leave", "retry"},
           Issue(Command(kind, Caller, then)), UNCHANGED handlerVars
    PROVE  IInv'
<1> DEFINE c == Command(kind, Caller, then)
<1>1. c \in Commands /\ c.tree = Caller /\ c.kind = kind /\ c.then = then
    BY HandlerFacts, CommandType DEF Command
<1> HIDE DEF c
<1>2. Issue(c) /\ UNCHANGED handlerVars
    BY DEF c
<1> QED
    BY <1>1, <1>2, CallerCommandKeeps

\* pushStrictSyncStash: the entry on top becomes an owned stash.
LEMMA OwnStashKeeps == ASSUME IInv, OwnStash PROVE IInv'
<1>1. pc \in HandlerSteps /\ pc' \in {"sync", "prepare"}
    BY DEF OwnStash, HandlerSteps, Continuations
<1>2. owned' \subseteq Entries
    BY <1>1, HandlerFacts, HeadStashType DEF OwnStash, IInv, TypeOK, TransactionType
<1>3. dirty' \in BOOLEAN
    BY DEF OwnStash
<1>4. UNCHANGED <<git, target, start, snapshots, adopted, journal, mutated,
                  ownershipLost, published, phase, outcome, cmd, capture,
                  dropping, seen, pending, cursor, forge, request, reviewBase,
                  merged, record, branch, chain, switching, outside, silent>>
    BY DEF OwnStash, claims, frames, plans, world
<1>5. TypeOK'
    BY <1>2, <1>3, <1>4 DEF IInv, TypeOK, TransactionType, FrameType, HandlerType
<1>6. PhaseOK'
    BY <1>1, <1>4, HandlerFacts DEF PhaseOK, CaptureSteps, RollbackSteps, DropSteps, HandlerSteps
<1>7. FramesOK'
    BY <1>1, <1>4 DEF FramesOK, InAdoption, CaptureSteps, DropSteps, CommandSteps
<1>8. CoveredOK'
    BY <1>1, <1>4 DEF IInv, CoveredOK, SnapshotTrees, CommandSteps
<1> QED
    BY <1>5, <1>6, <1>7, <1>8 DEF IInv

\* restoreOwnedStrictSyncStash turns to dropStrictSyncStash.
LEMMA DropOwnedKeeps == ASSUME IInv, DropOwned PROVE IInv'
<1>1. pc \in HandlerSteps /\ pc' = "list"
    BY DEF DropOwned, HandlerSteps, Continuations
<1>2. PICK entry \in owned : dropping' = Drop(entry, 0)
    BY DEF DropOwned
<1>3. entry \in Entries
    BY DEF IInv, TypeOK, TransactionType
<1>4. dropping' \in Drops /\ dropping'.slot = 0 /\ dropping' # None
    BY <1>2, <1>3, RecordAssumption DEF Drop, Drops
<1>5. UNCHANGED <<git, target, start, snapshots, adopted, owned, journal,
                  mutated, ownershipLost, published, phase, outcome, cmd,
                  capture, seen, pending, cursor, handlerVars>>
    BY DEF DropOwned, ledger, claims
<1>6. TypeOK'
    BY <1>4, <1>5 DEF IInv, TypeOK, TransactionType, FrameType, HandlerType, handlerVars, plans, world
<1>7. PhaseOK'
    BY <1>1, <1>5, HandlerFacts DEF PhaseOK, CaptureSteps, RollbackSteps, DropSteps, HandlerSteps,
      Continuations, CommandSteps
<1>8. FramesOK'
    BY <1>1, <1>4 DEF FramesOK, InAdoption, CaptureSteps, DropSteps, CommandSteps
<1>9. CoveredOK'
    BY <1>1, <1>5 DEF IInv, CoveredOK, SnapshotTrees, CommandSteps
<1> QED
    BY <1>6, <1>7, <1>8, <1>9 DEF IInv

\* A cluster is staged in the caller, which is snapshotted.
LEMMA StageClusterKeeps == ASSUME IInv, StageCluster PROVE IInv'
<1>1. pc \in HandlerSteps /\ pc' = "generate" /\ mutated' = mutated \cup {Caller}
    BY DEF StageCluster, HandlerSteps, Continuations
<1>2. PICK edits \in SUBSET git.work[Caller] \ {{}} :
        cmd' = [Command("commit", Caller, "cluster") EXCEPT !.edits = edits]
    BY DEF StageCluster
<1>3. edits \in SUBSET Tokens
    BY <1>1, HandlerFacts, RepositoryFields
<1>4. /\ cmd' \in Commands /\ cmd'.tree = Caller
      /\ cmd'.kind = "commit" /\ cmd'.then = "cluster"
  <2>1. cmd' = [kind |-> "commit", tree |-> Caller, to |-> None, onto |-> {},
                edits |-> edits, refs |-> {}, then |-> "cluster"]
    BY <1>2, CommitCommand
  <2> QED  BY <1>3, <2>1, CallerAssumption, NoCommit DEF Commands, Kinds, Continuations
<1>5. cmd' # None
    BY <1>4, RecordAssumption
<1>6. UNCHANGED <<git, target, start, snapshots, adopted, owned, journal,
                  ownershipLost, published, phase, outcome, capture, dropping,
                  seen, pending, cursor, handlerVars>>
    BY DEF StageCluster, ledger
<1>7. TypeOK'
    BY <1>1, <1>4, <1>6, CallerAssumption DEF IInv, TypeOK, TransactionType, FrameType, HandlerType,
      handlerVars, plans, world
<1>8. PhaseOK'
    BY <1>1, <1>6, HandlerFacts DEF PhaseOK, CaptureSteps, RollbackSteps, DropSteps
<1>9. FramesOK'
    BY <1>1, <1>4, <1>5 DEF FramesOK, InAdoption, CaptureSteps, DropSteps, CommandSteps
<1>10. CoveredOK'
    BY <1>1, <1>4, <1>6, HandlerFacts DEF IInv, CoveredOK, SnapshotTrees, CommandSteps
<1> QED
    BY <1>7, <1>8, <1>9, <1>10 DEF IInv

\* The staged cluster is committed: cmd is the command Issue takes.
LEMMA CommitClusterKeeps == ASSUME IInv, CommitCluster PROVE IInv'
BY HandlerFacts, IssueKeeps DEF CommitCluster, IInv, TypeOK, TransactionType, FrameType, FramesOK, CoveredOK,
  HandlerSteps, handlerVars, plans

\* Every step of saving dirty work.
LEMMA SavingKeeps == ASSUME IInv, Saving PROVE IInv'
<1> USE DEF HandlerSteps, CommandSteps, Continuations
<1>1. CASE StashInvocation
    BY <1>1, PlainKeeps DEF StashInvocation, Kinds
<1>2. CASE StashSkipped
    BY <1>2, HandlerFacts, DecisionKeeps DEF StashSkipped, Skip, plans
<1>3. CASE OwnStash
    BY <1>3, OwnStashKeeps
<1>4. CASE Route
    BY <1>4, HandlerFacts, DecisionKeeps DEF Route, CommitBranch
<1>5. CASE Isolate
    BY <1>5, PlainKeeps DEF Isolate, Kinds
<1>6. CASE PrepareExisting
    BY <1>6, HandlerFacts, SwitchKeeps DEF PrepareExisting, AfterSwitch
<1>7. CASE PrepareNew
  <2> DEFINE commit == IF target = Default /\ start.head[Caller] # Default
                       THEN OriginTip(reviewBase) ELSE Tip(git, Caller)
  <2>1. pc = "prepare" /\ CreateAt(branch, commit, "isolation")
    BY <1>7 DEF PrepareNew
  <2>2. commit \in {None} \cup Commits
    BY <2>1, HandlerFacts, RepositoryFields, TipType DEF OriginTip
  <2> HIDE DEF commit
  <2> QED
    BY <2>1, <2>2, HandlerFacts, CreateKeeps
<1>8. CASE PrepareFails
  BY <1>8, HandlerFacts, ReviewStepKeeps DEF PrepareFails
<1>9. CASE RestoreOwned
    BY <1>9, PlainKeeps DEF RestoreOwned, Kinds
<1>10. CASE NothingOwned
    BY <1>10, HandlerFacts, DecisionKeeps DEF NothingOwned, Skip, plans
<1>11. CASE DropOwned
    BY <1>11, DropOwnedKeeps
<1>12. CASE StageCluster
    BY <1>12, StageClusterKeeps
<1>13. CASE CommitCluster
    BY <1>13, CommitClusterKeeps
<1>14. CASE LoseIndex
  BY <1>14, HandlerFacts, HandlerStepKeeps DEF LoseIndex, handlerVars, plans, world
<1>15. CASE GenerateFails
    BY <1>15, HandlerFacts, DecisionKeeps DEF GenerateFails, plans
<1>16. CASE ClustersSaved
    BY <1>16, HandlerFacts, DecisionKeeps DEF ClustersSaved, plans
<1> QED
    BY <1>1, <1>2, <1>3, <1>4, <1>5, <1>6, <1>7, <1>8, <1>9, <1>10, <1>11, <1>12, <1>13, <1>14, <1>15, <1>16 DEF
      Saving

----------------------------------------
\* Bringing the branch up to date

\* A merge of a branch of the remote into the caller.
LEMMA MergeKeeps ==
    ASSUME IInv, pc \in HandlerSteps, NEW b \in Branches,
           NEW next \in Continuations \ {"openParent", "leave", "retry"},
           Merge(b, next)
    PROVE  IInv'
<1> DEFINE c == [Command("merge", Caller, next) EXCEPT !.onto = OriginTip(b)]
<1>1. Issue(c) /\ UNCHANGED handlerVars /\ OriginTip(b) # None
    BY DEF Merge, Exists, OriginTip
<1>2. OriginTip(b) \in Commits
    BY <1>1, HandlerFacts, RepositoryFields DEF OriginTip
<1>3. c \in Commands /\ c.tree = Caller /\ c.kind = "merge" /\ c.then = next
    BY <1>2, HandlerFacts, CommandType DEF Kinds, Command
<1> HIDE DEF c
<1> QED
    BY <1>1, <1>3, CallerCommandKeeps

\* A reset of the caller to a branch of the remote.
LEMMA ResetKeeps ==
    ASSUME IInv, pc \in HandlerSteps, NEW b \in Branches,
           NEW next \in Continuations \ {"openParent", "leave", "retry"},
           Reset(b, next)
    PROVE  IInv'
<1> DEFINE c == [Command("reset", Caller, next) EXCEPT !.onto = OriginTip(b)]
<1>1. Issue(c) /\ UNCHANGED handlerVars /\ OriginTip(b) # None
    BY DEF Reset, Exists, OriginTip
<1>2. OriginTip(b) \in Commits
    BY <1>1, HandlerFacts, RepositoryFields DEF OriginTip
<1>3. c \in Commands /\ c.tree = Caller /\ c.kind = "reset" /\ c.then = next
    BY <1>2, HandlerFacts, CommandType DEF Kinds, Command
<1> HIDE DEF c
<1> QED
    BY <1>1, <1>3, CallerCommandKeeps

\* A push from the caller.
LEMMA PushKeeps ==
    ASSUME IInv, pc \in HandlerSteps, NEW b \in Branches,
           NEW next \in Continuations \ {"openParent", "leave", "retry"},
           Push(b, next)
    PROVE  IInv'
<1> DEFINE c == [Command("push", Caller, next) EXCEPT !.to = b]
<1>1. Issue(c) /\ UNCHANGED handlerVars
    BY DEF Push
<1>2. c \in Commands /\ c.tree = Caller /\ c.kind = "push" /\ c.then = next
        /\ c.to = b
    BY HandlerFacts, CommandType DEF Kinds, Command
<1> HIDE DEF c
<1> QED
    BY <1>1, <1>2, NoneAssumption, CallerCommandKeeps

\* The merged branch is followed to its base.
LEMMA FollowKeeps ==
    ASSUME IInv, pc \in HandlerSteps, NEW base \in Branches, Follow(base)
    PROVE  IInv'
BY HandlerFacts, DecisionKeeps DEF Follow, HandlerSteps, CommandSteps, Continuations

\* Every step that brings the branch up to date.
LEMMA SyncingKeeps == ASSUME IInv, Syncing PROVE IInv'
<1> USE DEF HandlerSteps, CommandSteps, Continuations
<1>1. CASE MergeExplicit
    BY <1>1, HandlerFacts, MergeKeeps DEF MergeExplicit
<1>2. CASE PushExplicit
    BY <1>2, HandlerFacts, PushKeeps DEF PushExplicit
<1>3. CASE ToBase
    BY <1>3, HandlerFacts, DecisionKeeps DEF ToBase, Skip, plans
<1>4. CASE ToReview
    BY <1>4, HandlerFacts, DecisionKeeps DEF ToReview, Skip, plans
<1>5. CASE TrackBase
  BY <1>5, HandlerFacts, RepositoryFields, CreateKeeps DEF TrackBase, OriginTip
<1>6. CASE SwitchToBase
    BY <1>6, HandlerFacts, SwitchKeeps DEF SwitchToBase, AfterSwitch
<1>7. CASE CheckBase
    BY <1>7, HandlerFacts, DecisionKeeps DEF CheckBase, Skip, plans
<1>8. CASE ResetBase
    BY <1>8, HandlerFacts, ResetKeeps DEF ResetBase
<1>9. CASE ReviewOpen
    BY <1>9, HandlerFacts, ForgeFacts, DecisionKeeps DEF ReviewOpen, IsOpen
<1>10. CASE ReviewMerged
  BY <1>10, HandlerFacts, ForgeFacts, FollowKeeps DEF ReviewMerged
<1>11. CASE ReviewRemote
    BY <1>11, HandlerFacts, DecisionKeeps DEF ReviewRemote, Skip, plans
<1>12. CASE SwitchToReview
    BY <1>12, HandlerFacts, SwitchKeeps DEF SwitchToReview, AfterSwitch
<1>13. CASE ReviewLocal
    BY <1>13, HandlerFacts, SwitchKeeps DEF ReviewLocal, AfterSwitch
<1>14. CASE ReviewNew
  BY <1>14, HandlerFacts, TipType, CreateKeeps DEF ReviewNew
<1>15. CASE Align
    BY <1>15, HandlerFacts, DecisionKeeps DEF Align, Skip, plans
<1>16. CASE AlignMerge
    BY <1>16, HandlerFacts, MergeKeeps DEF AlignMerge
<1>17. CASE AlignReset
    BY <1>17, HandlerFacts, ResetKeeps DEF AlignReset
<1>18. CASE MergeBase
    BY <1>18, HandlerFacts, MergeKeeps DEF MergeBase
<1>19. CASE Publish
    BY <1>19, HandlerFacts, PushKeeps DEF Publish
<1>20. CASE OpenReview
    BY <1>20, HandlerFacts, OpenPullRequestKeeps DEF OpenReview
<1>21. CASE FollowMerged
    BY <1>21, HandlerFacts, ForgeFacts, DecisionKeeps DEF FollowMerged
<1>22. CASE FollowEnds
    BY <1>22, HandlerFacts, DecisionKeeps DEF FollowEnds
<1> QED
    BY <1>1, <1>2, <1>3, <1>4, <1>5, <1>6, <1>7, <1>8, <1>9, <1>10, <1>11, <1>12, <1>13, <1>14, <1>15, <1>16,
      <1>17, <1>18, <1>19, <1>20, <1>21,
       <1>22 DEF Syncing

----------------------------------------
\* Adopting a sibling

\* The sibling to adopt becomes the capture frame.
LEMMA AdoptKeeps == ASSUME IInv, Adopt PROVE IInv'
<1>1. pc = "adopt" /\ pc \in HandlerSteps
    BY DEF Adopt, HandlerSteps
<1>2. PICK w \in Siblings :
        /\ capture' = CaptureFrame(w, Listed(git, w))
        /\ pc' = IF w \in SnapshotTrees THEN "protected" ELSE "snapshot"
    BY DEF Adopt
<1>3. w \in Worktrees
    BY <1>1, HandlerFacts, RepositoryFields DEF Siblings, Holders
<1>4. capture' \in Captures /\ capture'.tree = w /\ capture' # None
    BY <1>1, <1>2, <1>3, HandlerFacts, RepositoryFields, TipType, RecordAssumption DEF CaptureFrame, Captures,
      Listed, ListedCheckouts
<1>5. UNCHANGED <<git, target, start, snapshots, adopted, owned, journal,
                  mutated, ownershipLost, published, phase, outcome, cmd,
                  dropping, seen, pending, cursor, handlerVars>>
    BY DEF Adopt, ledger, claims
<1>6. switching # None
    BY <1>1 DEF IInv, FramesOK, InAdoption
<1>7. TypeOK'
    BY <1>4, <1>5 DEF IInv, TypeOK, TransactionType, FrameType, HandlerType, handlerVars, plans, world
<1>8. PhaseOK'
    BY <1>1, <1>2, <1>5, HandlerFacts DEF PhaseOK, CaptureSteps, RollbackSteps, DropSteps
<1>9. FramesOK'
    BY <1>2, <1>4, <1>5, <1>6 DEF FramesOK, InAdoption, CaptureSteps, DropSteps, CommandSteps, handlerVars
<1>10. CoveredOK'
    BY <1>2, <1>4, <1>5 DEF IInv, CoveredOK, SnapshotTrees, CommandSteps
<1> QED
    BY <1>7, <1>8, <1>9, <1>10 DEF IInv

\* In an adoption the captured worktree has its snapshot.
LEMMA AdoptionFacts ==
    ASSUME IInv, pc \in {"save", "leave"}
    PROVE  /\ capture \in Captures /\ capture # None
           /\ capture.tree \in SnapshotTrees /\ capture.tree \in Worktrees
           /\ switching \in Switches /\ switching # None
BY DEF IInv, TypeOK, TransactionType, FrameType, HandlerType, FramesOK, InAdoption, CoveredOK, Captures

\* The sibling's edits are committed; the sibling is snapshotted by then.
LEMMA SaveSiblingKeeps == ASSUME IInv, SaveSibling PROVE IInv'
<1> DEFINE c == [Command("commit", capture.tree, "leave")
                   EXCEPT !.edits = git.work[capture.tree]]
<1>1. pc = "save" /\ Issue(c) /\ UNCHANGED handlerVars
    BY DEF SaveSibling
<1>2. pc \in HandlerSteps
    BY <1>1 DEF HandlerSteps
<1>3. git.work[capture.tree] \in SUBSET Tokens
    BY <1>1, <1>2, HandlerFacts, AdoptionFacts, RepositoryFields
<1>4. /\ c \in Commands /\ c.tree = capture.tree
      /\ c.kind = "commit" /\ c.then = "leave"
  <2>1. capture.tree \in Worktrees
    BY <1>1, AdoptionFacts
  <2>2. c = [kind |-> "commit", tree |-> capture.tree, to |-> None, onto |-> {},
             edits |-> git.work[capture.tree], refs |-> {}, then |-> "leave"]
    BY CommitCommand
  <2> HIDE DEF c
  <2> QED  BY <2>1, <2>2, <1>3, NoCommit DEF Commands, Kinds, Continuations
<1> HIDE DEF c
<1> QED
    BY <1>1, <1>2, <1>4, AdoptionFacts, HandlerFacts, IssueKeeps DEF handlerVars, plans

\* The sibling is detached or removed.
LEMMA ReleaseSiblingKeeps == ASSUME IInv, ReleaseSibling PROVE IInv'
<1> DEFINE c == Command(IF capture.tree = MainWorktree THEN "detach" ELSE "remove",
                        capture.tree, "retry")
<1>1. pc = "leave" /\ Issue(c) /\ UNCHANGED handlerVars
    BY DEF ReleaseSibling
<1>2. pc \in HandlerSteps
    BY <1>1 DEF HandlerSteps, Continuations
<1>3. /\ c \in Commands /\ c.tree = capture.tree
      /\ c.kind \in {"detach", "remove"} /\ c.then = "retry"
    BY ZenonT(30), <1>1, AdoptionFacts, CommandType DEF Kinds, Continuations, Command
<1> HIDE DEF c
<1> QED
    BY <1>1, <1>2, <1>3, AdoptionFacts, HandlerFacts, IssueKeeps DEF handlerVars, plans

\* The switch is tried once more, and remembered as adopted.
LEMMA RetrySwitchKeeps == ASSUME IInv, RetrySwitch PROVE IInv'
<1> DEFINE c == [Command("switch", Caller, switching.then)
                   EXCEPT !.to = switching.to]
<1>1. /\ pc \in {"retry", "adopt"}
      /\ switching' = [switching EXCEPT !.adopted = TRUE]
      /\ Issue(c) /\ UNCHANGED <<forge, request, dirty, plans, world>>
    BY DEF RetrySwitch
<1>2. pc \in HandlerSteps
    BY <1>1 DEF HandlerSteps, Continuations
<1>3. switching \in Switches
    BY <1>1, <1>2, HandlerFacts DEF IInv, FramesOK, InAdoption
<1>4. switching' \in Switches
    BY <1>1, <1>3 DEF Switches
<1>5. switching' # None
    BY <1>4, StrictSyncAssumption
<1>6. /\ switching.to \in Branches
      /\ switching.then \in AfterSwitch
      /\ switching.then \in Continuations \ {"openParent", "leave", "retry"}
    BY <1>3 DEF Switches, AfterSwitch, Continuations
<1>7. /\ c \in Commands /\ c.tree = Caller /\ c.kind = "switch"
      /\ c.to \in Branches /\ c.then = switching.then
    BY <1>2, <1>6, HandlerFacts, CommandType DEF Kinds, Command
<1> HIDE DEF c
<1> QED
    BY <1>1, <1>2, <1>4, <1>5, <1>6, <1>7, HandlerFacts, NoneAssumption, IssueKeeps

\* Every step of an adoption.
LEMMA AdoptingKeeps == ASSUME IInv, Adopting PROVE IInv'
BY AdoptKeeps, SaveSiblingKeeps, HandlerFacts, AdoptionFacts, DecisionKeeps, ReleaseSiblingKeeps,
  RetrySwitchKeeps DEF SiblingClean, Skip, plans, HandlerSteps, CommandSteps, Continuations, Adopting

----------------------------------------
\* Git runs the command

\* The frames a running command finds.
LEMMA RunningFacts ==
    ASSUME IInv, pc \in CommandSteps
    PROVE  /\ pc \in HandlerSteps
           /\ cmd \in Commands /\ cmd.tree \in Worktrees
           /\ cmd.tree \in SnapshotTrees
           /\ cmd.onto \in Commits /\ cmd.edits \in SUBSET Tokens
           /\ cmd.refs \subseteq Branches /\ cmd.refs \subseteq Journaled
           /\ cmd.then \in Continuations
           /\ cmd.kind \in {"switch", "create", "push"} => cmd.to \in Branches
           /\ cmd.kind = "switch" \/ cmd.then \in {"leave", "retry"}
                => switching # None
           /\ cmd.then = "leave" => capture # None /\ capture.tree \in SnapshotTrees
           /\ cmd.then = "openParent" => chain # <<>>
<1>1. cmd \in Commands
    BY DEF IInv, TypeOK, TransactionType, FrameType, FramesOK
<1>2. pc \in HandlerSteps
    BY DEF HandlerSteps
<1> HIDE DEF HandlerSteps, CommandSteps
<1> QED
    BY <1>1, <1>2 DEF IInv, FramesOK, CoveredOK, InAdoption, Commands, Commits

\* A step of a command that changes the repository at most, and goes on where
\* the command leads or to the cleanup.
LEMMA CommandStepKeeps ==
    ASSUME IInv, pc \in CommandSteps, git' \in RepositoryType,
           published' \in BOOLEAN, ownershipLost' \in BOOLEAN,
           silent' \in BOOLEAN,
           pc' \in CommandSteps \cup {cmd.then, "cleanup"},
           UNCHANGED <<target, start, ledger, journal, mutated, phase, outcome,
                       frames, forge, request, dirty, plans, switching, outside>>
    PROVE  IInv'
BY RunningFacts, HandlerFacts, HandlerStepKeeps DEF HandlerSteps, CommandSteps, Continuations, plans

\* A command lands, and is reported or not.
LEMMA LandedKeeps ==
    ASSUME IInv, pc = "command", NEW g \in RepositoryType, Landed(g)
    PROVE  IInv'
BY RunningFacts, HandlerFacts, CommandStepKeeps DEF Landed, AfterCommand, CommandSteps, claims, handlerVars,
  world

\* Marking a checkout as conflicted, or no longer.
LEMMA ConflictType ==
    ASSUME NEW g \in RepositoryType, NEW w \in Worktrees
    PROVE  /\ [g EXCEPT !.unmerged = @ \cup {w}] \in RepositoryType
           /\ [g EXCEPT !.unmerged = @ \ {w}] \in RepositoryType
BY DEF RepositoryType

\* Every way Git may answer a command.
LEMMA RunCommandKeeps == ASSUME IInv, RunCommand PROVE IInv'
<1>0. pc = "command"
    BY DEF RunCommand, Running, RunSwitch, SwitchBusy, SwitchMissing, RunCreate, RunDetach, RunRemove,
      RunCommit, RunReset, RunStash, RunMerge, RunConclude, RunApply, MergeConflicts, ApplyConflicts,
      PushReported, PushMalformed, PushUnreported
<1>a. pc \in CommandSteps /\ pc \in HandlerSteps
    BY <1>0 DEF CommandSteps, HandlerSteps
<1> DEFINE stays == UNCHANGED <<target, start, ledger, journal, mutated, phase,
                                outcome, frames, forge, request, dirty, plans,
                                switching, outside>>
<1>1. CASE RunSwitch
    BY <1>0, <1>1, <1>a, RunningFacts, HandlerFacts, SwitchToType, LandedKeeps DEF RunSwitch, Running
<1>2. CASE SwitchBusy
    BY <1>2, <1>a, RunningFacts, HandlerFacts, DecisionKeeps DEF SwitchBusy, Running, plans, HandlerSteps,
      CommandSteps
<1>3. CASE SwitchMissing
  BY <1>3, <1>a, RunningFacts, HandlerFacts, RepositoryFields, CreateKeeps DEF SwitchMissing, Running,
    OriginTip, IInv, FramesOK, AfterSwitch, Continuations
<1>4. CASE RunCreate
    BY <1>0, <1>4, <1>a, RunningFacts, HandlerFacts, CreateBranchType, LandedKeeps DEF RunCreate, Running
<1>5. CASE RunDetach
    BY <1>0, <1>5, <1>a, RunningFacts, HandlerFacts, TipType, DetachAtType, LandedKeeps DEF RunDetach
<1>6. CASE RunRemove
    BY <1>0, <1>6, <1>a, RunningFacts, HandlerFacts, RemoveTreeType, LandedKeeps DEF RunRemove
<1>7. CASE RunCommit
    BY <1>0, <1>7, <1>a, RunningFacts, HandlerFacts, CommitEditsType, LandedKeeps DEF RunCommit
<1>8. CASE RunReset
    BY <1>0, <1>8, <1>a, RunningFacts, HandlerFacts, ResetHardType, LandedKeeps DEF RunReset
<1>9. CASE RunStash
    BY <1>0, <1>9, <1>a, RunningFacts, HandlerFacts, PushStashType, LandedKeeps DEF RunStash, StashUses
<1>10. CASE RunMerge
    BY <1>0, <1>10, <1>a, RunningFacts, HandlerFacts, MergeCommitType, LandedKeeps DEF RunMerge
<1>11. CASE RunConclude
  BY <1>11, <1>a, RunningFacts, HandlerFacts, MergeCommitType, CommandStepKeeps DEF RunConclude, CommandSteps,
    claims, handlerVars, world
<1>12. CASE RunApply
  <2>1. PICK entry \in owned : Landed(ApplyStash(git, cmd.tree, entry))
    BY <1>12 DEF RunApply
  <2>2. entry \in Entries
    BY DEF IInv, TypeOK, TransactionType
  <2> QED
    BY <1>0, <2>1, <2>2, <1>a, RunningFacts, HandlerFacts, ApplyStashType, LandedKeeps
<1>13. CASE MergeConflicts
  BY <1>13, <1>a, RunningFacts, HandlerFacts, ConflictType, CommandStepKeeps DEF MergeConflicts, CommandSteps,
    claims, handlerVars, world
<1>14. CASE ApplyConflicts
  <2>1. PICK entry \in owned :
          git' = [ApplyStash(git, cmd.tree, entry)
                    EXCEPT !.unmerged = @ \cup {cmd.tree}]
    BY <1>14 DEF ApplyConflicts
  <2>2. entry \in Entries
    BY DEF IInv, TypeOK, TransactionType
  <2>3. git' \in RepositoryType
    BY <2>1, <2>2, <1>a, RunningFacts, HandlerFacts, ApplyStashType, ConflictType
  <2>4. pc' \in CommandSteps /\ stays
          /\ UNCHANGED <<published, ownershipLost, silent>>
    BY <1>14 DEF ApplyConflicts, CommandSteps, claims, handlerVars, world
  <2> QED
    BY <2>3, <2>4, <1>a, HandlerFacts, CommandStepKeeps
<1>15. CASE PushReported
  BY <1>15, <1>a, RunningFacts, HandlerFacts, PushBranchType, CommandStepKeeps DEF PushReported, Running,
    claims, handlerVars, world
<1>16. CASE PushMalformed
  BY <1>16, <1>a, RunningFacts, HandlerFacts, PushBranchType, CommandStepKeeps DEF PushMalformed, Running,
    claims, handlerVars, world
<1>17. CASE PushUnreported
  BY <1>17, <1>a, RunningFacts, HandlerFacts, PushBranchType, CommandStepKeeps DEF PushUnreported, Running,
    claims
<1> QED
    BY <1>1, <1>2, <1>3, <1>4, <1>5, <1>6, <1>7, <1>8, <1>9, <1>10, <1>11, <1>12, <1>13, <1>14, <1>15, <1>16,
      <1>17 DEF RunCommand

----------------------------------------
\* Conflicts are resolved or the merge is abandoned

\* The conclusion of a resolved merge is one more journaled command.
LEMMA ResolveMergeKeeps == ASSUME IInv, ResolveMerge PROVE IInv'
<1> DEFINE c == [cmd EXCEPT !.kind = "conclude"]
           refs == MutatedReferences(c)
           book == Journal(refs)
<1>1. /\ pc = "resolve" /\ cmd.kind = "merge" /\ Prepare(c, "abandon")
      /\ UNCHANGED <<git, target, start, snapshots, adopted, owned, published,
                     phase, outcome, capture, dropping, seen, pending, cursor,
                     handlerVars>>
    BY DEF ResolveMerge, ledger
<1>2. pc \in CommandSteps /\ pc \in HandlerSteps
    BY <1>1 DEF CommandSteps, HandlerSteps
<1>3. /\ cmd \in Commands /\ cmd # None /\ phase = "forward"
      /\ cmd.refs \subseteq Journaled
    BY <1>2, HandlerFacts, RunningFacts DEF IInv, FramesOK
<1>4. /\ c \in Commands /\ c.kind = "conclude" /\ c.tree = cmd.tree
      /\ c.then = cmd.then /\ c.refs = cmd.refs
    BY <1>3 DEF Commands, Kinds
<1>5. refs \subseteq Branches
    BY <1>4, MutatedReferencesType DEF IInv, TypeOK, TransactionType
<1>6. /\ book \in [Branches -> {None} \cup Mutations]
      /\ \A b \in refs : book[b] # None
      /\ \A b \in Branches : journal[b] # None => book[b] # None
    BY <1>5, JournalType DEF IInv, TypeOK, TransactionType
<1>7. /\ [c EXCEPT !.refs = refs] \in Commands
      /\ [c EXCEPT !.refs = refs].refs = refs
      /\ [c EXCEPT !.refs = refs].kind = "conclude"
      /\ [c EXCEPT !.refs = refs].tree = cmd.tree
      /\ [c EXCEPT !.refs = refs].then = cmd.then
    BY <1>4, <1>5 DEF Commands
<1>8. /\ journal' = book
      /\ mutated' \subseteq mutated \cup {cmd.tree}
      /\ \/ /\ cmd' = [c EXCEPT !.refs = refs] /\ pc' = "command"
            /\ ownershipLost' = ownershipLost
         \/ cmd' = cmd /\ pc' = "abandon" /\ ownershipLost' = TRUE
    BY <1>1, <1>4 DEF Prepare
<1> HIDE DEF c, refs, book
<1>9. /\ cmd' \in Commands /\ cmd'.tree = cmd.tree /\ cmd'.then = cmd.then
      /\ cmd'.kind \in {"conclude", "merge"}
      /\ cmd'.refs \subseteq Journaled'
    BY <1>1, <1>3, <1>5, <1>6, <1>7, <1>8 DEF Journaled
<1>10. cmd' # None
    BY <1>9, RecordAssumption
<1>11. TypeOK'
  <2>1. HandlerType'
    BY <1>1 DEF IInv, TypeOK, HandlerType, handlerVars, plans, world
  <2>2. mutated' \subseteq Worktrees /\ journal' \in [Branches -> {None} \cup Mutations]
    BY <1>3, <1>6, <1>8 DEF IInv, TypeOK, TransactionType, Commands
  <2>3. TransactionType'
    BY <1>1, <1>2, <1>8, <1>9, <2>2, RunningFacts DEF IInv, TypeOK, TransactionType, FrameType
  <2> QED  BY <2>1, <2>3 DEF TypeOK
<1>12. PhaseOK'
    BY <1>1, <1>3, <1>8 DEF PhaseOK, CaptureSteps, RollbackSteps, DropSteps, HandlerSteps, CommandSteps
<1>13. FramesOK'
    BY <1>1, <1>2, <1>8, <1>9, <1>10, RunningFacts DEF FramesOK, InAdoption, CaptureSteps, DropSteps,
      CommandSteps, handlerVars, plans
<1>14. CoveredOK'
    BY <1>1, <1>2, <1>8, <1>9, RunningFacts DEF IInv, CoveredOK, SnapshotTrees, CommandSteps
<1> QED
    BY <1>11, <1>12, <1>13, <1>14 DEF IInv

\* Whatever the model answers, the merge is concluded or abandoned.
LEMMA ResolvingKeeps == ASSUME IInv, Resolving PROVE IInv'
<1>1. CASE ResolveMerge
    BY <1>1, ResolveMergeKeeps
<1>2. CASE ResolveApply
  BY <1>2, RunningFacts, HandlerFacts, ConflictType, CommandStepKeeps DEF ResolveApply, CommandSteps, claims,
    handlerVars, world
<1>3. CASE ResolveFails
    BY <1>3, HandlerFacts, DecisionKeeps DEF ResolveFails, Running, plans, HandlerSteps, CommandSteps
<1>4. CASE AbandonMerge
  <2>1. /\ pc \in CommandSteps /\ pc' = "cleanup"
        /\ git' \in {git, [git EXCEPT !.unmerged = @ \ {cmd.tree}]}
        /\ ownershipLost' \in {ownershipLost, TRUE}
        /\ UNCHANGED <<target, start, ledger, journal, mutated, published,
                       phase, outcome, frames, handlerVars>>
    BY <1>4 DEF AbandonMerge, CommandSteps
  <2>2. git' \in RepositoryType
    BY ZenonT(30), <2>1, RunningFacts, HandlerFacts, ConflictType
  <2> QED
    BY <2>1, <2>2, RunningFacts, HandlerFacts, CommandStepKeeps DEF handlerVars, world
<1> QED
    BY <1>1, <1>2, <1>3, <1>4 DEF Resolving

\* A failing call leads to the cleanup and changes nothing else.
LEMMA HandlerFailsKeeps == ASSUME IInv, HandlerFails PROVE IInv'
BY HandlerFacts, DecisionKeeps DEF HandlerFails, Failing, HandlerSteps, Continuations, CommandSteps, plans

----------------------------------------
\* Other writers

\* Another writer changes the repository and none of gix's own state.
LEMMA MeanwhileKeeps ==
    ASSUME IInv, NEW act \in OutsideActs, NEW g \in RepositoryType,
           Meanwhile(act, g)
    PROVE  IInv'
<1>1. /\ git' = g /\ outside' = outside \cup {act}
      /\ UNCHANGED <<target, start, snapshots, adopted, owned, journal, mutated,
                     ownershipLost, published, phase, pc, outcome, cmd, capture,
                     dropping, seen, pending, cursor, forge, request, dirty,
                     reviewBase, merged, record, branch, chain, switching,
                     silent>>
    BY DEF Meanwhile, ledger, claims, frames, plans
<1>2. TypeOK'
    BY <1>1 DEF IInv, TypeOK, TransactionType, FrameType, HandlerType
<1>3. PhaseOK'
    BY <1>1 DEF IInv, PhaseOK, Restoring
<1>4. FramesOK'
    BY <1>1 DEF IInv, FramesOK, InAdoption, Journaled
<1>5. CoveredOK'
    BY <1>1 DEF IInv, CoveredOK, SnapshotTrees
<1> QED
    BY <1>2, <1>3, <1>4, <1>5 DEF IInv

\* A commit, a stash, an edit or a switch by somebody else.
LEMMA OutsideKeeps == ASSUME IInv, Outside PROVE IInv'
<1>0. git \in RepositoryType /\ OutsideToken \in Tokens /\ Caller \in Worktrees
    BY StrictSyncAssumption, CallerAssumption DEF IInv, TypeOK, TransactionType
<1>1. CASE OutsideCommit
  <2>1. PICK w \in git.trees \ git.unmerged :
          /\ Tip(git, w) # None
          /\ Meanwhile(IF w = Caller THEN "callerCommit" ELSE "commit",
                       MoveTip(git, w, Tip(git, w) \cup {OutsideToken}))
    BY <1>1 DEF OutsideCommit
  <2>2. w \in Worktrees
    BY <1>0, RepositoryFields
  <2>3. Tip(git, w) \cup {OutsideToken} \in Commits
    BY <1>0, <2>1, <2>2, TipType DEF Commits
  <2>4. MoveTip(git, w, Tip(git, w) \cup {OutsideToken}) \in RepositoryType
    BY <1>0, <2>2, <2>3, MoveTipType
  <2> QED
    BY <2>1, <2>4, MeanwhileKeeps DEF OutsideActs
<1>2. CASE OutsideStash
  <2>1. PICK w \in git.trees :
          Meanwhile("stash",
            [git EXCEPT !.stashes =
                <<[tree |-> w, edits |-> {OutsideToken}, use |-> "operator"]>> \o @])
    BY <1>2 DEF OutsideStash
  <2> DEFINE entry == [tree |-> w, edits |-> {OutsideToken}, use |-> "operator"]
  <2>2. entry \in Entries
    BY <1>0, RepositoryFields DEF Entries, StashUses
  <2> HIDE DEF entry
  <2>3. <<entry>> \o git.stashes \in Seq(Entries)
    BY <1>0, <2>2, RepositoryFields
  <2>4. [git EXCEPT !.stashes = <<entry>> \o @] \in RepositoryType
    BY <1>0, <2>3 DEF RepositoryType
  <2> QED
    BY <2>1, <2>4, MeanwhileKeeps DEF OutsideActs, entry
<1>3. CASE OutsideIndex
  <2>1. Meanwhile("index", [git EXCEPT !.work[Caller] = @ \cup {OutsideToken}])
    BY <1>3 DEF OutsideIndex
  <2>2. git.work[Caller] \cup {OutsideToken} \in SUBSET Tokens
    BY <1>0, RepositoryFields
  <2>3. [git EXCEPT !.work[Caller] = @ \cup {OutsideToken}] \in RepositoryType
    BY <1>0, <2>2, WorkType
  <2> QED
    BY <2>1, <2>3, MeanwhileKeeps DEF OutsideActs
<1>4. CASE OutsideSwitch
  <2>1. PICK w \in git.trees \ {Caller}, b \in Branches :
          Meanwhile("switch", SwitchTo(git, w, b))
    BY <1>4 DEF OutsideSwitch
  <2>2. SwitchTo(git, w, b) \in RepositoryType
    BY <1>0, RepositoryFields, SwitchToType
  <2> QED
    BY <2>1, <2>2, MeanwhileKeeps DEF OutsideActs
<1> QED
    BY <1>1, <1>2, <1>3, <1>4 DEF Outside

----------------------------------------
\* The transaction: captures

\* The journal is brought up to date with a finished command.
LEMMA CompleteKeeps ==
    ASSUME IInv, Complete, UNCHANGED handlerVars PROVE IInv'
<1>1. /\ pc = "complete" /\ pc' = cmd.then
      /\ journal' = [b \in Branches |->
                       IF b \in cmd.refs
                       THEN [journal[b] EXCEPT !.expected = git.refs[b]]
                       ELSE journal[b]]
      /\ UNCHANGED <<git, target, start, snapshots, adopted, owned, mutated,
                     ownershipLost, published, phase, outcome, cmd, capture,
                     dropping, seen, pending, cursor, forge, request, dirty,
                     reviewBase, merged, record, branch, chain, switching,
                     outside, silent>>
    BY DEF Complete, ledger, frames, handlerVars, plans, world
<1>2. pc \in CommandSteps /\ pc \in HandlerSteps
    BY <1>1 DEF CommandSteps, HandlerSteps
<1>3. /\ cmd \in Commands /\ cmd.then \in Continuations
      /\ cmd.refs \subseteq Journaled
      /\ git \in RepositoryType /\ phase = "forward"
    BY <1>2, RunningFacts, HandlerFacts
<1>4. \A b \in cmd.refs : [journal[b] EXCEPT !.expected = git.refs[b]] \in Mutations
  BY <1>3, RepositoryFields DEF Journaled, IInv, TypeOK, TransactionType, Mutations
<1>5. journal' \in [Branches -> {None} \cup Mutations]
    BY <1>1, <1>4 DEF IInv, TypeOK, TransactionType
<1>6. Journaled' = Journaled
    BY <1>1, <1>3, <1>4, RecordAssumption DEF Journaled
<1>7. TypeOK'
    BY <1>1, <1>5 DEF IInv, TypeOK, TransactionType, FrameType, HandlerType
<1>8. PhaseOK'
    BY <1>1, <1>3 DEF PhaseOK, CaptureSteps, RollbackSteps, DropSteps, HandlerSteps, Continuations
<1>9. FramesOK'
    BY <1>1, <1>2, <1>3, RunningFacts DEF FramesOK, InAdoption, CaptureSteps, DropSteps, CommandSteps,
      Continuations
<1>10. CoveredOK'
    BY <1>1, <1>2, <1>3, RunningFacts DEF IInv, CoveredOK, SnapshotTrees, CommandSteps, Continuations
<1> QED
    BY <1>7, <1>8, <1>9, <1>10 DEF IInv

\* One more snapshot: the captured worktree is covered, the others stay.
LEMMA SnapshotAppended ==
    ASSUME IInv, capture \in Captures, NEW backup \in {None} \cup Entries,
           snapshots' = Append(snapshots, NewSnapshot(backup)),
           capture' = capture
    PROVE  /\ snapshots' \in Seq(Snapshots)
           /\ DOMAIN snapshots \subseteq DOMAIN snapshots'
           /\ SnapshotTrees' = SnapshotTrees \cup {capture.tree}
<1> DEFINE s == NewSnapshot(backup)
<1>1. s \in Snapshots /\ s.tree = capture.tree
    BY DEF NewSnapshot, Snapshots, Captures
<1>2. snapshots \in Seq(Snapshots)
    BY DEF IInv, TypeOK, TransactionType
<1> HIDE DEF s
<1>3. /\ snapshots' \in Seq(Snapshots)
      /\ Len(snapshots') = Len(snapshots) + 1
      /\ \A i \in 1..Len(snapshots) : snapshots'[i] = snapshots[i]
      /\ snapshots'[Len(snapshots) + 1] = s
    BY <1>1, <1>2 DEF s
<1>4. DOMAIN snapshots = 1..Len(snapshots) /\ DOMAIN snapshots' = 1..(Len(snapshots) + 1)
    BY <1>2, <1>3
<1>5. DOMAIN snapshots \subseteq DOMAIN snapshots'
    BY <1>2, <1>4
<1>6. Len(snapshots) \in Nat
    BY <1>2
<1>7. SnapshotTrees' = {snapshots'[i].tree : i \in 1..(Len(snapshots) + 1)}
    BY <1>4 DEF SnapshotTrees
<1>8. SnapshotTrees = {snapshots[i].tree : i \in 1..Len(snapshots)}
    BY <1>4 DEF SnapshotTrees
<1>9. SnapshotTrees' = SnapshotTrees \cup {capture.tree}
    BY <1>1, <1>3, <1>6, <1>7, <1>8
<1> QED
    BY <1>3, <1>5, <1>9

\* What a step of a capture finds.
LEMMA CaptureFacts ==
    ASSUME IInv, pc \in CaptureSteps \cup {"protected"}
    PROVE  /\ capture \in Captures /\ capture # None
           /\ capture.tree \in Worktrees
           /\ capture.backup \in {None} \cup Entries
           /\ phase \in {"begin", "forward"}
           /\ phase = "forward" => switching # None
           /\ phase = "forward" => Caller \in SnapshotTrees
           /\ git \in RepositoryType /\ start \in RepositoryType
           /\ Caller \in Worktrees
BY CallerAssumption DEF IInv, PhaseOK, HandlerSteps, CaptureSteps, TypeOK, TransactionType, FrameType, FramesOK,
  InAdoption, CoveredOK, Captures

\* A step of a capture that may add a snapshot and claim its worktree.
LEMMA CaptureStepKeeps ==
    ASSUME IInv, pc \in CaptureSteps \cup {"protected"},
           git' \in RepositoryType,
           \/ snapshots' = snapshots /\ mutated' = mutated
           \/ /\ \E backup \in {None} \cup Entries :
                   snapshots' = Append(snapshots, NewSnapshot(backup))
              /\ mutated' \in {mutated, mutated \cup {capture.tree}},
           capture' \in Captures, capture'.tree = capture.tree,
           snapshots' # snapshots => capture' = capture,
           phase' \in {phase, "settle", "undo"}, outcome' \in Outcomes,
           UNCHANGED <<target, start, adopted, owned, journal, ownershipLost,
                       published, cmd, dropping, seen, pending, cursor,
                       handlerVars>>,
           pc' = "begin" => phase' = "begin",
           pc' \in CaptureSteps \cup {"protected", "cleanup"} => phase' = phase,
           pc' \in {"protected", "cleanup"} => phase = "forward",
           pc' = "protected" => snapshots' # snapshots,
           pc' = "inspect" => phase' = "undo",
           pc' = "snapshotApply" => capture'.backup # None,
           pc' \in {"begin", "finalize", "inspect", "cleanup", "protected"}
                     \cup CaptureSteps
    PROVE  IInv'
<1>1. /\ snapshots' \in Seq(Snapshots) /\ SnapshotTrees \subseteq SnapshotTrees'
      /\ mutated' \subseteq SnapshotTrees'
      /\ snapshots' # snapshots => capture'.tree \in SnapshotTrees'
      /\ mutated' \subseteq Worktrees
  <2>1. CASE snapshots' = snapshots /\ mutated' = mutated
    BY <2>1 DEF IInv, TypeOK, TransactionType, CoveredOK, SnapshotTrees
  <2>2. CASE snapshots' # snapshots
    BY <2>2, CaptureFacts, SnapshotAppended DEF IInv, TypeOK, TransactionType, CoveredOK
  <2>3. CASE snapshots' = snapshots /\ mutated' # mutated
    <3>1. PICK backup \in {None} \cup Entries :
            snapshots' = Append(snapshots, NewSnapshot(backup))
      BY <2>3
    <3>2. snapshots \in Seq(Snapshots)
      BY DEF IInv, TypeOK, TransactionType
    <3>3. Len(snapshots') = Len(snapshots) + 1 /\ Len(snapshots) \in Nat
      BY <3>1, <3>2
    <3> QED
      BY <2>3, <3>3
  <2> QED
    BY <2>1, <2>2, <2>3
<1>2. capture' # None
    BY RecordAssumption
<1>3. UNCHANGED <<forge, request, dirty, reviewBase, merged, record, branch,
                  chain, switching, outside, silent>>
    BY DEF handlerVars, plans, world
<1>4. phase' \in Phases
    BY CaptureFacts DEF Phases
<1>5. TypeOK'
    BY <1>1, <1>3, <1>4 DEF IInv, TypeOK, TransactionType, FrameType, HandlerType
<1>6. PhaseOK'
    BY CaptureFacts DEF PhaseOK, CaptureSteps, RollbackSteps, DropSteps, HandlerSteps, CommandSteps,
      Continuations, Restoring
<1>7. FramesOK'
    BY <1>2, <1>3, CaptureFacts DEF FramesOK, InAdoption, CaptureSteps, DropSteps, CommandSteps
<1>8. CoveredOK'
    BY <1>1, CaptureFacts DEF CoveredOK, CommandSteps, CaptureSteps
<1> QED
    BY <1>5, <1>6, <1>7, <1>8 DEF IInv

\* BeginNext takes up one worktree after the other.
LEMMA BeginNextKeeps ==
    ASSUME IInv, BeginNext, UNCHANGED handlerVars PROVE IInv'
<1>1. /\ pc = "begin" /\ pc' = "snapshot"
      /\ \E w \in TouchedTrees : capture' = CaptureFrame(w, Listed(start, w))
      /\ UNCHANGED <<git, target, start, snapshots, adopted, owned, journal,
                     mutated, ownershipLost, published, phase, outcome, cmd,
                     dropping, seen, pending, cursor, forge, request, dirty,
                     reviewBase, merged, record, branch, chain, switching,
                     outside, silent>>
    BY DEF BeginNext, ledger, claims, handlerVars, plans, world
<1>2. PICK w \in TouchedTrees : capture' = CaptureFrame(w, Listed(start, w))
    BY <1>1
<1>3. start \in RepositoryType /\ phase = "begin"
    BY <1>1 DEF IInv, TypeOK, TransactionType, PhaseOK
<1>4. w \in Worktrees
    BY <1>3, CallerAssumption, RepositoryFields DEF TouchedTrees
<1>5. Listed(start, w) \in ListedCheckouts
    BY <1>3, <1>4, RepositoryFields, TipType DEF Listed, ListedCheckouts
<1>6. capture' \in Captures /\ capture' # None
    BY <1>2, <1>4, <1>5, RecordAssumption DEF CaptureFrame, Captures
<1>7. TypeOK'
    BY <1>1, <1>6 DEF IInv, TypeOK, TransactionType, FrameType, HandlerType
<1>8. PhaseOK'
    BY <1>1, <1>3 DEF PhaseOK, CaptureSteps, RollbackSteps, DropSteps, HandlerSteps, Continuations, CommandSteps
<1>9. FramesOK'
    BY <1>1, <1>3, <1>6 DEF FramesOK, InAdoption, CaptureSteps, DropSteps, CommandSteps
<1>10. CoveredOK'
    BY <1>1, <1>3 DEF IInv, CoveredOK, SnapshotTrees, CommandSteps
<1> QED
    BY <1>7, <1>8, <1>9, <1>10 DEF IInv

\* The handler starts once the caller is among the snapshots.
LEMMA BegunKeeps ==
    ASSUME IInv, Begun, UNCHANGED handlerVars PROVE IInv'
<1>1. /\ pc = "begin" /\ pc' = "status" /\ phase' = "forward"
      /\ TouchedTrees \subseteq SnapshotTrees
      /\ UNCHANGED <<git, target, start, snapshots, adopted, owned, journal,
                     mutated, ownershipLost, published, outcome, cmd, capture,
                     dropping, seen, pending, cursor, forge, request, dirty,
                     reviewBase, merged, record, branch, chain, switching,
                     outside, silent>>
    BY DEF Begun, ledger, claims, frames, handlerVars, plans, world
<1>2. Caller \in SnapshotTrees
    BY <1>1 DEF TouchedTrees
<1>3. TypeOK'
    BY <1>1 DEF IInv, TypeOK, TransactionType, FrameType, HandlerType, Phases
<1>4. PhaseOK'
    BY <1>1 DEF PhaseOK, CaptureSteps, RollbackSteps, DropSteps
<1>5. FramesOK'
    BY <1>1 DEF FramesOK, InAdoption, CaptureSteps, DropSteps, CommandSteps
<1>6. CoveredOK'
    BY <1>1, <1>2 DEF IInv, CoveredOK, SnapshotTrees, CommandSteps
<1> QED
    BY <1>3, <1>4, <1>5, <1>6 DEF IInv

\* ownAdoptedWorktree: the captured sibling joins the adopted worktrees.
LEMMA OwnAdoptedKeeps ==
    ASSUME IInv, OwnAdopted, UNCHANGED handlerVars PROVE IInv'
<1>1. /\ pc = "protected" /\ pc' = "save"
      /\ adopted' \in {adopted, Append(adopted, [tree |-> capture.tree,
                                                 listed |-> capture.listed])}
      /\ mutated' = mutated \cup {capture.tree}
      /\ UNCHANGED <<git, target, start, snapshots, owned, journal,
                     ownershipLost, published, phase, outcome, cmd, capture,
                     dropping, seen, pending, cursor, forge, request, dirty,
                     reviewBase, merged, record, branch, chain, switching,
                     outside, silent>>
    BY DEF OwnAdopted, frames, handlerVars, plans, world
<1>2. capture \in Captures /\ capture.tree \in SnapshotTrees /\ phase = "forward"
    BY <1>1, CaptureFacts DEF IInv, PhaseOK, CoveredOK, HandlerSteps
<1>3. [tree |-> capture.tree, listed |-> capture.listed] \in Adoptions
        /\ capture.tree \in Worktrees
    BY <1>2 DEF Captures, Adoptions
<1>4. adopted' \in Seq(Adoptions)
    BY <1>1, <1>3 DEF IInv, TypeOK, TransactionType
<1>5. TypeOK'
    BY <1>1, <1>3, <1>4 DEF IInv, TypeOK, TransactionType, FrameType, HandlerType
<1>6. PhaseOK'
    BY <1>1, <1>2 DEF PhaseOK, CaptureSteps, RollbackSteps, DropSteps
<1>7. FramesOK'
    BY <1>1 DEF IInv, FramesOK, InAdoption, CaptureSteps, DropSteps, CommandSteps
<1>8. CoveredOK'
    BY <1>1, <1>2 DEF IInv, CoveredOK, SnapshotTrees, CommandSteps
<1> QED
    BY <1>5, <1>6, <1>7, <1>8 DEF IInv

\* Every step of a capture.
LEMMA CaptureKeeps ==
    ASSUME IInv, Capture, UNCHANGED handlerVars PROVE IInv'
<1> USE DEF CaptureSteps
<1>0. outcome \in Outcomes /\ snapshots \in Seq(Snapshots)
    BY DEF IInv, TypeOK, TransactionType
<1>a. \A s : Append(snapshots, s) # snapshots
    BY <1>0
<1>1. CASE BeginNext
    BY <1>1, BeginNextKeeps
<1>2. CASE Begun
    BY <1>2, BegunKeeps
<1>3. CASE SnapshotStatus
  BY <1>3, CaptureFacts, PushStashType, <1>0, <1>a, CaptureStepKeeps DEF SnapshotStatus, StashUses, Captured,
    claims, frames
<1>4. CASE SnapshotRef
  BY <1>4, CaptureFacts, HeadStashType, RecordAssumption, <1>0, CaptureStepKeeps DEF SnapshotRef, Captures,
    ledger, claims
<1>5. CASE SnapshotApply
  BY <1>5, CaptureFacts, ApplyStashType, <1>0, <1>a, CaptureStepKeeps DEF SnapshotApply, IInv, FramesOK,
    Captured, claims, frames
<1>6. CASE CaptureFails
    BY <1>0, <1>6, CaptureFacts, CaptureStepKeeps DEF CaptureFails, ledger, claims, frames, Outcomes
<1>7. CASE CaptureApplyFails
  BY <1>7, CaptureFacts, ApplyStashType, <1>0, <1>a, CaptureStepKeeps DEF CaptureApplyFails, IInv, FramesOK,
    frames
<1>8. CASE OwnAdopted
    BY <1>8, OwnAdoptedKeeps
<1> QED
    BY <1>1, <1>2, <1>3, <1>4, <1>5, <1>6, <1>7, <1>8 DEF Capture

----------------------------------------
\* The transaction: drops and the cleanup

\* A step that ends a run, or hands it to the cleanup, the settlement or the
\* rollback, and may change the repository and the dropped entry.
LEMMA TurnKeeps ==
    ASSUME IInv, UNCHANGED handlerVars,
           git' \in RepositoryType, snapshots' \in Seq(Snapshots),
           DOMAIN snapshots' = DOMAIN snapshots, SnapshotTrees' = SnapshotTrees,
           owned' \subseteq Entries, dropping' \in {None} \cup Drops,
           phase' \in Phases, outcome' \in Outcomes,
           UNCHANGED <<target, start, adopted, claims, published, cmd, capture,
                       seen, pending, cursor>>,
           phase' = "forward" => phase = "forward",
           pc' \in {"finalize", "done", "cleanup", "cluster", "inspect",
                    "release", "list", "drop"},
           pc' \in {"cleanup", "cluster"} => phase' = "forward",
           pc' \in {"inspect", "release"} => phase' \in {"undo", "rollback"},
           pc' \in DropSteps =>
             /\ dropping' # None
             /\ IF dropping'.slot = 0
                THEN phase' \in {"forward", "undo", "rollback"}
                ELSE dropping'.slot \in DOMAIN snapshots
    PROVE  IInv'
<1>1. UNCHANGED <<journal, mutated, ownershipLost, forge, request, dirty,
                  reviewBase, merged, record, branch, chain, switching,
                  outside, silent>>
    BY DEF claims, handlerVars, plans, world
<1>2. TypeOK'
    BY <1>1 DEF IInv, TypeOK, TransactionType, FrameType, HandlerType
<1>3. PhaseOK'
    BY DEF PhaseOK, CaptureSteps, RollbackSteps, DropSteps, HandlerSteps, CommandSteps, Continuations, Restoring
<1>4. FramesOK'
    BY DEF FramesOK, InAdoption, CaptureSteps, DropSteps, CommandSteps
<1>5. CoveredOK'
    BY <1>1 DEF IInv, CoveredOK, CommandSteps
<1> QED
    BY <1>2, <1>3, <1>4, <1>5 DEF IInv

\* What a drop finds: its entry, and the snapshot it belongs to.
LEMMA DropFacts ==
    ASSUME IInv, pc \in DropSteps
    PROVE  /\ dropping \in Drops /\ dropping # None
           /\ dropping.slot # 0 => dropping.slot \in DOMAIN snapshots
           /\ dropping.slot = 0 => phase \in {"forward", "undo", "rollback"}
BY DEF IInv, TypeOK, TransactionType, FrameType, FramesOK, PhaseOK

\* Types the steps of the transaction rely on.
LEMMA TransactionFacts ==
    ASSUME IInv
    PROVE  /\ git \in RepositoryType /\ start \in RepositoryType
           /\ snapshots \in Seq(Snapshots) /\ adopted \in Seq(Adoptions)
           /\ owned \subseteq Entries /\ Caller \in Worktrees
           /\ dropping \in {None} \cup Drops
           /\ phase \in Phases /\ outcome \in Outcomes
           /\ journal \in [Branches -> {None} \cup Mutations]
           /\ seen \in {None} \cup Listings /\ pending \subseteq Branches
           /\ cursor \in Nat
BY CallerAssumption DEF IInv, TypeOK, TransactionType, FrameType

\* Marking a backup as dropped changes nothing else of the snapshots.
LEMMA ReleasedKeeps ==
    ASSUME IInv, pc \in DropSteps, Released
    PROVE  /\ owned' \subseteq Entries /\ snapshots' \in Seq(Snapshots)
           /\ DOMAIN snapshots' = DOMAIN snapshots
           /\ SnapshotTrees' = SnapshotTrees
<1>1. CASE dropping.slot = 0
    BY <1>1, TransactionFacts DEF Released, SnapshotTrees
<1>2. CASE dropping.slot # 0
  <2> DEFINE s == snapshots[dropping.slot]
  <2>1. /\ snapshots' = [snapshots EXCEPT ![dropping.slot] = [s EXCEPT !.dropped = TRUE]]
        /\ owned' = owned
    BY <1>2 DEF Released
  <2>2. s \in Snapshots /\ dropping.slot \in DOMAIN snapshots
    BY <1>2, DropFacts, TransactionFacts
  <2>3. /\ [s EXCEPT !.dropped = TRUE] \in Snapshots
        /\ [s EXCEPT !.dropped = TRUE].tree = s.tree
    BY <2>2 DEF Snapshots
  <2>4. snapshots' \in Seq(Snapshots) /\ DOMAIN snapshots' = DOMAIN snapshots
    BY <2>1, <2>2, <2>3, TransactionFacts
  <2>5. \A i \in DOMAIN snapshots : snapshots'[i].tree = snapshots[i].tree
    BY <2>1, <2>2, <2>3, TransactionFacts
  <2>6. SnapshotTrees' = {snapshots'[i].tree : i \in DOMAIN snapshots}
    BY <2>4 DEF SnapshotTrees
  <2> QED
    BY <2>1, <2>4, <2>5, <2>6, TransactionFacts DEF SnapshotTrees
<1> QED
    BY <1>1, <1>2

\* Every step of dropStrictSyncStash and finalize.
LEMMA DroppingKeeps ==
    ASSUME IInv, Dropping, UNCHANGED handlerVars PROVE IInv'
<1> USE TransactionFacts
<1>1. CASE ListEntry
  <2>1. pc \in DropSteps
    BY <1>1 DEF ListEntry, DropSteps
  <2>2. PICK i \in StashIndexes(git, dropping.entry) :
          dropping' = [dropping EXCEPT !.index = i]
    BY <1>1 DEF ListEntry
  <2>3. i \in Nat
    BY RepositoryFields DEF StashIndexes
  <2>4. dropping' \in Drops /\ dropping'.slot = dropping.slot /\ dropping' # None
    BY <2>1, <2>2, <2>3, DropFacts, RecordAssumption DEF Drops
  <2>5. /\ pc' = "drop"
        /\ UNCHANGED <<git, target, start, snapshots, adopted, owned, claims,
                       published, phase, outcome, cmd, capture, seen, pending,
                       cursor>>
    BY <1>1 DEF ListEntry, ledger
  <2>6. SnapshotTrees' = SnapshotTrees
    BY <2>5 DEF SnapshotTrees
  <2> QED
    BY <2>1, <2>4, <2>5, <2>6, DropFacts, TurnKeeps
<1>2. CASE DropEntry
  BY <1>2, DropStashType, DropFacts, ReleasedKeeps, TurnKeeps DEF DropEntry, DropSteps, AfterDrop, Restoring,
    frames
<1>3. CASE DropFails
  BY <1>3, DropStashType, TurnKeeps DEF DropFails, Fail, Outcomes, ledger, frames, SnapshotTrees, DropSteps
<1>4. CASE FinalizeNext
  <2>1. PICK i \in Undropped : dropping' = Drop(snapshots[i].backup, i)
    BY <1>4 DEF FinalizeNext
  <2>2. i \in DOMAIN snapshots /\ snapshots[i].backup # None
    BY <2>1 DEF Undropped
  <2>3. snapshots[i] \in Snapshots /\ i \in Nat /\ i # 0
    BY <2>2
  <2>4. snapshots[i].backup \in Entries
    BY <2>2, <2>3 DEF Snapshots
  <2>5. dropping' \in Drops /\ dropping'.slot = i /\ dropping' # None
    BY <2>1, <2>3, <2>4, RecordAssumption DEF Drop, Drops
  <2>6. /\ pc' = "list"
        /\ UNCHANGED <<git, target, start, snapshots, adopted, owned, claims,
                       published, phase, outcome, cmd, capture, seen, pending,
                       cursor>>
    BY <1>4 DEF FinalizeNext, ledger
  <2>7. SnapshotTrees' = SnapshotTrees
    BY <2>6 DEF SnapshotTrees
  <2> QED
    BY <2>2, <2>3, <2>5, <2>6, <2>7, TurnKeeps
<1>5. CASE Finalized
  BY <1>5, TurnKeeps DEF Finalized, Outcomes, ledger, frames, SnapshotTrees, DropSteps
<1> QED
    BY <1>1, <1>2, <1>3, <1>4, <1>5 DEF Dropping

\* The deferred cleanup chooses between settlement, handoff and rollback.
LEMMA CleanupKeeps ==
    ASSUME IInv, Cleanup, UNCHANGED handlerVars PROVE IInv'
BY TransactionFacts, TurnKeeps DEF Cleanup, CleanupPublished, CleanupOwnershipLost, CleanupRollback, ledger,
  frames, SnapshotTrees, Phases, Outcomes, DropSteps

----------------------------------------
\* The transaction: rollback

\* A step of the rollback may change the repository and rollback's own
\* listing, refs and cursor.
LEMMA RollbackStepKeeps ==
    ASSUME IInv, phase \in {"undo", "rollback"}, UNCHANGED handlerVars,
           git' \in RepositoryType, seen' \in {None} \cup Listings,
           pending' \subseteq Branches, cursor' \in Nat, outcome' \in Outcomes,
           UNCHANGED <<target, start, ledger, claims, published, phase, cmd,
                       capture, dropping>>,
           pc' \in {"clear", "checkout", "refs", "ref", "topology", "contents",
                    "backup", "release", "finalize", "done"},
           pc' \in {"clear", "checkout", "ref", "topology"} => seen' # None,
           pc' \in {"clear", "checkout"} => seen'.trees[Caller] # None,
           pc' = "ref" => pending' \subseteq Journaled,
           pc' = "backup" => cursor' \in DOMAIN snapshots
    PROVE  IInv'
<1>1. UNCHANGED <<snapshots, adopted, owned, journal, mutated, ownershipLost,
                  forge, request, dirty, reviewBase, merged, record, branch,
                  chain, switching, outside, silent>>
    BY DEF ledger, claims, handlerVars, plans, world
<1>2. TypeOK'
    BY <1>1 DEF IInv, TypeOK, TransactionType, FrameType, HandlerType
<1>3. PhaseOK'
    BY DEF PhaseOK, CaptureSteps, RollbackSteps, DropSteps, HandlerSteps, CommandSteps, Continuations, Restoring
<1>4. FramesOK'
    BY <1>1 DEF FramesOK, InAdoption, CaptureSteps, DropSteps, CommandSteps, Journaled
<1>5. CoveredOK'
    BY <1>1 DEF IInv, CoveredOK, SnapshotTrees, CommandSteps
<1> QED
    BY <1>2, <1>3, <1>4, <1>5 DEF IInv

\* What rollback finds.
LEMMA RollbackFacts ==
    ASSUME IInv, pc \in RollbackSteps
    PROVE  /\ phase \in {"undo", "rollback"}
           /\ pc \in {"clear", "checkout", "ref", "topology"}
                => seen # None /\ seen \in Listings
           /\ pc \in {"clear", "checkout"} => seen.trees[Caller] # None
           /\ pc = "ref" => pending \subseteq Journaled
           /\ pc = "backup" => cursor \in DOMAIN snapshots
BY TransactionFacts DEF IInv, PhaseOK, FramesOK, Restoring

\* The refs and checkouts rollback lists.
LEMMA ListingType ==
    ASSUME git \in RepositoryType
    PROVE  /\ Listing \in Listings /\ Listing # None
           /\ \A w \in git.trees : Listing.trees[w] # None
BY RepositoryFields, TipType, RecordAssumption DEF Listed, ListedCheckouts, Listing, Listings

\* Every step of rollback but the release of an owned stash.
LEMMA RestoringKeeps ==
    ASSUME IInv, Rollback, ~ReleaseOwned, UNCHANGED handlerVars PROVE IInv'
<1> USE TransactionFacts
<1>0. pc \in RollbackSteps
    BY DEF Rollback, Inspect, ClearCaller, RestoreCaller, ListReferences, RestoreReference, ReferencesRestored,
      RestoreAdopted, AdoptedRestored, ResetSnapshot, ApplyBackup, ContentsRestored, RollbackFails,
      RollbackSteps
<1>a. phase \in {"undo", "rollback"}
    BY <1>0, RollbackFacts
<1>1. CASE Inspect
  BY <1>1, <1>a, ListingType, RollbackStepKeeps DEF Inspect
<1>2. CASE ClearCaller
  BY <1>0, <1>2, RollbackFacts, ResetHardType, <1>a, RecordAssumption, RollbackStepKeeps DEF ClearCaller,
    Listings, ListedCheckouts, frames
<1>3. CASE RestoreCaller
  BY RepositoryFields, TipType, <1>3, RestoredType, <1>a, RollbackStepKeeps DEF Listed, ListedCheckouts,
    RestoreCaller, CanRestore, frames
<1>4. CASE ListReferences
    BY <1>4, <1>a, ListingType, RollbackStepKeeps DEF ListReferences, Journaled
<1>5. CASE RestoreReference
  <2>1. /\ pc = "ref" /\ pc' = "ref" /\ pending' \subseteq pending
        /\ UNCHANGED <<target, start, ledger, claims, published, phase,
                       outcome, cmd, capture, dropping, seen, cursor>>
    BY <1>5 DEF RestoreReference
  <2>2. pending \subseteq Journaled /\ seen # None
    BY <1>0, <2>1, RollbackFacts
  <2>3. git' \in RepositoryType
    <3>1. PICK b \in pending :
            git' = git \/ git' = [git EXCEPT !.refs[b] = journal[b].initial]
      BY <1>5 DEF RestoreReference
    <3>2. b \in Branches /\ journal[b] \in Mutations
      BY <2>2, <3>1 DEF Journaled
    <3>3. journal[b].initial \in {None} \cup Commits
      BY <3>2 DEF Mutations
    <3>4. [git EXCEPT !.refs[b] = journal[b].initial] \in RepositoryType
      BY <3>2, <3>3, RefType
    <3> QED
      BY <3>1, <3>4
  <2> QED
    BY <1>a, <2>1, <2>2, <2>3, RollbackStepKeeps
<1>6. CASE ReferencesRestored
    BY <1>6, <1>a, ListingType, RollbackStepKeeps DEF ReferencesRestored
<1>7. CASE RestoreAdopted
  <2>1. /\ cursor \in DOMAIN adopted /\ cursor' = cursor + 1
        /\ pc = "topology" /\ pc' = "topology"
        /\ UNCHANGED <<target, start, ledger, claims, published, phase,
                       outcome, cmd, capture, dropping, seen, pending>>
    BY <1>7 DEF RestoreAdopted
  <2>2. adopted[cursor] \in Adoptions
    BY <2>1
  <2>3. /\ adopted[cursor].tree \in Worktrees
        /\ adopted[cursor].listed \in
             [head: {None} \cup Branches, commit: {None} \cup Commits]
    BY <2>2 DEF Adoptions, ListedCheckouts
  <2>4. git' \in RepositoryType
    BY <1>7, <2>3, RestoredType, AddTreeType DEF RestoreAdopted, CanRestore
  <2> QED
    BY <1>0, <1>a, <2>1, <2>4, RollbackFacts, RollbackStepKeeps
<1>8. CASE AdoptedRestored
    BY <1>8, <1>a, RollbackStepKeeps DEF AdoptedRestored
<1>9. CASE ResetSnapshot
  <2>1. cursor \in DOMAIN snapshots /\ snapshots[cursor] \in Snapshots
    BY <1>9 DEF ResetSnapshot
  <2>2. /\ snapshots[cursor].tree \in Worktrees
        /\ snapshots[cursor].listed.commit \in {None} \cup Commits
    BY <2>1 DEF Snapshots, ListedCheckouts
  <2>3. git' \in RepositoryType
    BY <1>9, <2>2, ResetHardType DEF ResetSnapshot
  <2>4. /\ cursor' \in Nat /\ pc' \in {"contents", "backup"}
        /\ pc' = "backup" => cursor' = cursor
        /\ UNCHANGED <<target, start, ledger, claims, published, phase,
                       outcome, cmd, capture, dropping, seen, pending>>
    BY <1>9 DEF ResetSnapshot
  <2> QED
    BY <1>a, <2>1, <2>3, <2>4, RollbackStepKeeps
<1>10. CASE ApplyBackup
  <2>1. cursor \in DOMAIN snapshots
    BY <1>0, <1>10, RollbackFacts DEF ApplyBackup
  <2>2. snapshots[cursor] \in Snapshots
    BY <2>1
  <2>3. /\ snapshots[cursor].tree \in Worktrees
        /\ snapshots[cursor].backup \in {None} \cup Entries
    BY <2>2 DEF Snapshots
  <2>4. git' \in RepositoryType
    BY <1>10, <2>3, ApplyStashType DEF ApplyBackup
  <2> QED
    BY <1>10, <1>a, <2>4, RollbackStepKeeps DEF ApplyBackup
<1>11. CASE ContentsRestored
    BY <1>11, <1>a, RollbackStepKeeps DEF ContentsRestored, frames
<1>12. CASE RollbackFails
    BY <1>12, <1>a, RollbackStepKeeps DEF RollbackFails, Fail, Outcomes, frames
<1> QED
    BY <1>1, <1>2, <1>3, <1>4, <1>5, <1>6, <1>7, <1>8, <1>9, <1>10, <1>11,
       <1>12 DEF Rollback

\* An owned stash is dropped, or finalize takes over.
LEMMA ReleaseOwnedKeeps ==
    ASSUME IInv, ReleaseOwned, UNCHANGED handlerVars PROVE IInv'
BY RollbackFacts, TransactionFacts, RecordAssumption, TurnKeeps DEF ReleaseOwned, ledger, RollbackSteps, Drop,
  Drops, SnapshotTrees, DropSteps

\* Every step of the transaction.
LEMMA TransactionKeeps == ASSUME IInv, TransactionStep PROVE IInv'
BY CompleteKeeps, CaptureKeeps, DroppingKeeps, CleanupKeeps, RestoringKeeps, ReleaseOwnedKeeps DEF
  TransactionStep, Transaction

----------------------------------------
\* The theorems

\* A step that changes nothing.
LEMMA StutterKeeps == ASSUME IInv, UNCHANGED vars PROVE IInv'
BY DEF IInv, TypeOK, TransactionType, FrameType, HandlerType, PhaseOK, FramesOK, InAdoption, CoveredOK,
  SnapshotTrees, Journaled, Restoring, vars, transactionVars, handlerVars, ledger, claims, frames, plans, world

\* Whatever gix, Git, GitHub and the other writers do, in whatever order, no
\* step leaves the invariant: every step finds the frame it works on, runs in
\* the phase its error handling belongs to, and mutates only what is covered.
THEOREM Invariance == Spec => []IInv
<1>1. Init => IInv
    BY InitKeeps
<1>2. IInv /\ [Next]_vars => IInv'
  BY PlanningKeeps, SavingKeeps, SyncingKeeps, AdoptingKeeps, RunCommandKeeps, ResolvingKeeps,
    HandlerFailsKeeps, TransactionKeeps, OutsideKeeps, StutterKeeps DEF Ended, Next, Gix
<1> QED
    BY <1>1, <1>2, PTL DEF Spec

\* Every variable keeps its type, for any repository, forge and request an
\* invocation may start with and any behaviour of the other writers.
THEOREM TypeCorrect == Spec => []TypeOK
<1>1. IInv => TypeOK
    BY DEF IInv
<1> QED
    BY <1>1, Invariance, PTL

\* No worktree is claimed by a mutating command before the snapshot rollback
\* restores it from has been recorded.
THEOREM MutationsCovered == Spec => []MutationsAreCovered
<1>1. IInv => MutationsAreCovered
    BY DEF IInv, CoveredOK, MutationsAreCovered
<1> QED
    BY <1>1, Invariance, PTL

----------------------------------------
\* Published work is never taken back

\* Only the handler publishes, and the cleanup of a published run settles.
PublishedOK == published => phase \in {"forward", "settle"}

\* Every step of the handler runs while its cleanup is in force.
LEMMA HandlerIsForward ==
    ASSUME IInv,
           Planning \/ Saving \/ Syncing \/ Adopting \/ RunCommand
             \/ Resolving \/ HandlerFails
    PROVE  phase = "forward" /\ phase' = "forward"
<1> USE DEF HandlerSteps, CommandSteps, Continuations
<1>1. CASE Planning
    BY <1>1, HandlerFacts DEF Planning, ReadStatus, PlanDefault, PlanUnstacked, PlanMerged, PlanStored,
      PlanChild, EnterParents, ClimbToDefault, ClimbToOpen, ClimbFurther, UnwindParent, ParentsReady,
      RecordReviewBase, OpenParent, OpenPullRequest, Planned, Issue, quiet
<1>2. CASE Saving
    BY <1>2, HandlerFacts DEF Saving, StashInvocation, StashSkipped, OwnStash, Route, Isolate, PrepareExisting,
      PrepareNew, PrepareFails, RestoreOwned, NothingOwned, DropOwned, StageCluster, CommitCluster, LoseIndex,
      GenerateFails, ClustersSaved, SwitchWithAdoption, CreateAt, Issue, Skip, quiet
<1>3. CASE Syncing
    BY <1>3, HandlerFacts DEF Syncing, MergeExplicit, PushExplicit, ToBase, ToReview, TrackBase, SwitchToBase,
      CheckBase, ResetBase, ReviewOpen, ReviewMerged, ReviewRemote, SwitchToReview, ReviewLocal, ReviewNew,
      Align, AlignMerge, AlignReset, MergeBase, Publish, OpenReview, OpenPullRequest, FollowMerged, FollowEnds,
      Follow, Merge, Reset, Push, SwitchWithAdoption, CreateAt, Issue, Skip, quiet
<1>4. CASE Adopting
    BY <1>4, HandlerFacts DEF Adopting, Adopt, SaveSibling, SiblingClean, ReleaseSibling, RetrySwitch, Issue,
      Skip, quiet
<1>5. CASE RunCommand
    BY <1>5, HandlerFacts DEF RunCommand, Running, RunSwitch, SwitchBusy, SwitchMissing, RunCreate, RunDetach,
      RunRemove, RunCommit, RunReset, RunStash, RunMerge, RunConclude, RunApply, MergeConflicts, ApplyConflicts,
      PushReported, PushMalformed, PushUnreported, Landed, CreateAt, Issue, quiet
<1>6. CASE Resolving
    BY <1>6, HandlerFacts DEF Resolving, ResolveMerge, ResolveApply, ResolveFails, AbandonMerge, Running, quiet
<1>7. CASE HandlerFails
    BY <1>7 DEF HandlerFails, quiet
<1> QED
    BY <1>1, <1>2, <1>3, <1>4, <1>5, <1>6, <1>7

\* Dropping an entry changes the stash list only.
LEMMA DropLeaves ==
    ASSUME git \in RepositoryType, NEW i
    PROVE  /\ DropStashAt(git, i).refs = git.refs
           /\ DropStashAt(git, i).head = git.head
           /\ DropStashAt(git, i).work = git.work
           /\ DropStashAt(git, i).trees = git.trees
BY DEF DropStashAt, RepositoryType

\* While a run settles, the transaction only drops backups.
LEMMA SettlingLeaves ==
    ASSUME IInv, TransactionStep, phase = "settle"
    PROVE  /\ phase' = "settle" /\ published' = published
           /\ git'.refs = git.refs /\ git'.head = git.head
           /\ git'.work = git.work /\ git'.trees = git.trees
<1>1. /\ pc # "begin" /\ pc \notin CaptureSteps /\ pc \notin HandlerSteps
      /\ pc \notin RollbackSteps
    BY DEF IInv, PhaseOK, Restoring
<1>2. ~Complete /\ ~Capture
    BY <1>1 DEF Complete, Capture, BeginNext, Begun, SnapshotStatus, SnapshotRef, SnapshotApply, CaptureFails,
      CaptureApplyFails, OwnAdopted, CaptureSteps, HandlerSteps, CommandSteps
<1>3. ~Cleanup
    BY <1>1 DEF Cleanup, CleanupPublished, CleanupOwnershipLost, CleanupRollback, HandlerSteps
<1>4. ~Rollback
    BY <1>1 DEF Rollback, Inspect, ClearCaller, RestoreCaller, ListReferences, RestoreReference,
      ReferencesRestored, RestoreAdopted, AdoptedRestored, ResetSnapshot, ApplyBackup, ContentsRestored,
      ReleaseOwned, RollbackFails, RollbackSteps, Restoring
<1>5. Dropping
    BY <1>2, <1>3, <1>4 DEF TransactionStep, Transaction
<1>6. git' = git \/ git' = DropStashAt(git, dropping.index)
    BY <1>5 DEF Dropping, ListEntry, DropEntry, DropFails, FinalizeNext, Finalized
<1>7. phase' = phase /\ published' = published
    BY <1>5 DEF Dropping, ListEntry, DropEntry, DropFails, Fail, FinalizeNext, Finalized
<1> QED
    BY <1>6, <1>7, DropLeaves, TransactionFacts

\* No step of the transaction publishes, and none leaves the settlement or
\* turns a published run to its rollback.
LEMMA TransactionPublishes ==
    ASSUME IInv, PublishedOK, TransactionStep PROVE PublishedOK'
<1>1. published' = published
    BY DEF TransactionStep, Transaction, Complete, Capture, BeginNext, Begun, SnapshotStatus, SnapshotRef,
      SnapshotApply, CaptureFails, CaptureApplyFails, OwnAdopted, Dropping, ListEntry, DropEntry, DropFails,
      FinalizeNext, Finalized, Cleanup, CleanupPublished, CleanupOwnershipLost, CleanupRollback, Rollback,
      Inspect, ClearCaller, RestoreCaller, ListReferences, RestoreReference, ReferencesRestored, RestoreAdopted,
      AdoptedRestored, ResetSnapshot, ApplyBackup, ContentsRestored, ReleaseOwned, RollbackFails
<1>2. CASE published /\ phase = "settle"
    BY <1>2, SettlingLeaves DEF PublishedOK
<1>3. CASE published /\ phase = "forward"
  <2>1. CASE Complete \/ Capture \/ Dropping
    BY <1>3, <2>1 DEF PublishedOK, Complete, Capture, BeginNext, Begun, SnapshotStatus, SnapshotRef,
      SnapshotApply, CaptureFails, CaptureApplyFails, OwnAdopted, Dropping, ListEntry, DropEntry, DropFails,
      Fail, FinalizeNext, Finalized
  <2>2. CASE Cleanup
    BY <1>3, <2>2 DEF PublishedOK, Cleanup, CleanupPublished, CleanupOwnershipLost, CleanupRollback
  <2>3. CASE Rollback
    BY <1>3, <2>3 DEF PublishedOK, IInv, PhaseOK, RollbackSteps, Restoring, Rollback, Inspect, ClearCaller,
      RestoreCaller, ListReferences, RestoreReference, ReferencesRestored, RestoreAdopted, AdoptedRestored,
      ResetSnapshot, ApplyBackup, ContentsRestored, ReleaseOwned, RollbackFails
  <2> QED
    BY <2>1, <2>2, <2>3 DEF TransactionStep, Transaction
<1> QED
    BY <1>1, <1>2, <1>3 DEF PublishedOK

\* What other writers do is no step of gix.
LEMMA OutsideLeaves ==
    ASSUME Outside PROVE phase' = phase /\ published' = published
BY DEF Outside, OutsideCommit, OutsideStash, OutsideIndex, OutsideSwitch, Meanwhile

\* A reported publication keeps the run out of every rollback.
LEMMA PublishedKeeps ==
    ASSUME IInv, PublishedOK, [Next]_vars PROVE PublishedOK'
BY OutsideLeaves, TransactionPublishes, HandlerIsForward DEF Ended, vars, transactionVars, PublishedOK, Gix,
  Next

\* After a publication the failing handler takes nothing back: no ref, no
\* checkout and no edit is changed by any later step of gix.
THEOREM PublishedStands == Spec => PublishedWorkStands
<1>1. Init => PublishedOK
    BY DEF Init, PublishedOK
<1>2. IInv /\ PublishedOK /\ [Next]_vars => PublishedOK'
    BY PublishedKeeps
<1>3. IInv /\ PublishedOK /\ [Next]_vars =>
        [published /\ phase # "forward" /\ ~OutsideStep =>
           /\ git'.refs = git.refs /\ git'.head = git.head
           /\ git'.work = git.work /\ git'.trees = git.trees]_vars
  <2> SUFFICES ASSUME IInv, PublishedOK, [Next]_vars, published,
                      phase # "forward", ~OutsideStep
               PROVE  /\ git'.refs = git.refs /\ git'.head = git.head
                      /\ git'.work = git.work /\ git'.trees = git.trees
    OBVIOUS
  <2>1. phase = "settle"
    BY DEF PublishedOK
  <2>2. CASE Outside
    <3>1. PICK act \in OutsideActs : act \notin outside /\ outside' = outside \cup {act}
      BY <2>2, StrictSyncAssumption DEF Outside, OutsideCommit, OutsideStash, OutsideIndex, OutsideSwitch,
        Meanwhile, May, OutsideActs
    <3> QED
      BY <3>1 DEF OutsideStep
  <2>3. CASE TransactionStep
    BY <2>1, <2>3, SettlingLeaves
  <2>4. CASE Gix /\ ~TransactionStep
    BY <2>1, <2>4, HandlerIsForward DEF Gix
  <2>5. CASE Ended \/ UNCHANGED vars
    BY <2>5 DEF Ended, vars, transactionVars
  <2> QED
    BY <2>2, <2>3, <2>4, <2>5 DEF Next
<1> QED
    BY <1>1, <1>2, <1>3, Invariance, PTL DEF Spec, PublishedWorkStands

----------------------------------------
\* The contract about recovery objects is kept

\* Where the handler stands before it may own a stash, and the commands it
\* issues there.
EarlyThen == {"unwind", "openParent", "ownInvocation", "ownIsolation"}

EarlySteps ==
    EarlyThen \cup {"status", "plan", "parent", "climb", "record", "stash", "route", "isolate"}

BeforeOwning ==
    \/ phase = "begin"
    \/ pc \in EarlySteps
    \/ pc \in CommandSteps /\ cmd.then \in EarlyThen

\* An invocation owns one stash at a time, and what it drops as its own is that
\* one; once it drops backups it owns none, unless the result was handed over.
OwnsOne ==
    /\ BeforeOwning => owned = {}
    /\ phase = "forward" => \A e, f \in owned : e = f
    /\ pc \in DropSteps /\ dropping.slot = 0 => dropping.entry \in owned
    /\ Finalizing => owned = {} \/ phase = "settle"

\* What has been reported in which phase, and where a lost ownership leads.
ReportsInOrder ==
    /\ phase = "begin" => pc = "begin" \/ pc \in CaptureSteps
    /\ phase # "settle" /\ pc # "done" => outcome = "running"
    /\ phase = "settle" =>
         \/ outcome = "handoff" /\ published
         \/ outcome = "refused" /\ owned = {} /\ ~published /\ ~ownershipLost
    /\ phase \in {"begin", "undo", "rollback"} => ~published
    /\ ownershipLost => pc \in {"abandon", "cleanup", "done"} \/ phase = "settle"

CInv == IInv /\ OwnsOne /\ ReportsInOrder

ContractStep == [Contract!Next]_(Contract!vars)

\* What the steps of the handler have in common, as far as the contract sees
\* them: they hold no backup, own nothing and report nothing; they may publish,
\* and may find that another writer owns what they were about to change.
HandlerEffect ==
    /\ pc \in HandlerSteps \ {"cleanup"} /\ pc' \in HandlerSteps
    /\ BeforeOwning' => BeforeOwning
    /\ UNCHANGED <<snapshots, owned, phase, outcome>>
    /\ \/ UNCHANGED <<published, ownershipLost>> /\ (pc = "abandon" => pc' = "cleanup")
       \/ published' = TRUE /\ UNCHANGED ownershipLost /\ pc # "abandon"
       \/ ownershipLost' = TRUE /\ UNCHANGED published /\ pc' \in {"cleanup", "abandon"}

\* Such a step is one of the contract's: work is published, found to be
\* another's, or fails; or it is not seen.
LEMMA HandlerEffectAgrees ==
    ASSUME CInv, HandlerEffect
    PROVE  OwnsOne' /\ ReportsInOrder' /\ ContractStep
<1>1. phase = "forward" /\ phase' = "forward" /\ outcome = "running" /\ outcome' = "running"
  BY DEF CInv, HandlerEffect, IInv, PhaseOK, ReportsInOrder, HandlerSteps, Continuations, CommandSteps
<1>2. /\ pc' \notin DropSteps /\ ~Finalizing' /\ pc' # "done" /\ pc' # "finalize"
      /\ pc \notin DropSteps /\ ~Finalizing /\ pc # "done" /\ pc # "finalize" /\ pc # "cleanup"
  BY DEF HandlerEffect, HandlerSteps, Continuations, CommandSteps, DropSteps, Finalizing
<1>3. OwnsOne'
  BY <1>1, <1>2 DEF CInv, HandlerEffect, OwnsOne
<1>4. ReportsInOrder'
  BY <1>1, <1>2 DEF CInv, HandlerEffect, ReportsInOrder
<1>5. Stage = "open" /\ Stage' = (IF pc' = "cleanup" THEN "failing" ELSE "open")
  BY <1>1, <1>2 DEF Stage, Restoring
<1>6. Undropped' = Undropped
  BY DEF HandlerEffect, Undropped
<1>7. ownershipLost => pc = "abandon"
  BY <1>1, <1>2 DEF CInv, ReportsInOrder
<1>8. ContractStep
  <2>1. CASE UNCHANGED <<published, ownershipLost>> /\ (pc = "abandon" => pc' = "cleanup")
    BY <1>1, <1>5, <1>6, <2>1 DEF HandlerEffect, ContractStep, Contract!vars, Contract!Next, Contract!FailWork,
      Contract!held
  <2>2. CASE published' = TRUE /\ UNCHANGED ownershipLost /\ pc # "abandon"
    BY <1>1, <1>5, <1>6, <1>7, <2>2, TransactionFacts DEF CInv, HandlerEffect, IInv, TypeOK, TransactionType,
      ContractStep, Contract!Next, Contract!Publish, Contract!held
  <2>3. CASE ownershipLost' = TRUE /\ UNCHANGED published /\ pc' \in {"cleanup", "abandon"}
    BY <1>1, <1>5, <1>6, <2>3 DEF HandlerEffect, ContractStep, Contract!Next, Contract!LoseOwnership,
      Contract!held
  <2>4. QED
    BY <2>1, <2>2, <2>3 DEF HandlerEffect
<1>9. QED
  BY <1>3, <1>4, <1>8

\* A command is issued: it is run next, or refused.
LEMMA IssueEffect ==
    ASSUME NEW c \in Commands, Issue(c), pc \in HandlerSteps \ {"cleanup", "abandon"},
           phase = "forward", c.then \in EarlyThen => BeforeOwning
    PROVE  HandlerEffect
BY DEF Issue, Prepare, ledger, Commands, HandlerSteps, CommandSteps, BeforeOwning, EarlySteps, EarlyThen,
  HandlerEffect

\* A decision of the handler that claims, owns and publishes nothing.
LEMMA DecisionEffect ==
    ASSUME pc \in HandlerSteps \ {"cleanup", "abandon"}, pc' \in HandlerSteps,
           BeforeOwning' => BeforeOwning,
           UNCHANGED <<snapshots, owned, phase, outcome, published, ownershipLost>>
    PROVE  HandlerEffect
BY DEF HandlerEffect

\* Status and planning.
LEMMA PlanningEffect == ASSUME IInv, Planning PROVE HandlerEffect
<1> USE DEF HandlerSteps, CommandSteps, Continuations
<1>0. phase = "forward" /\ Caller \in Worktrees
  BY HandlerFacts DEF Planning, ReadStatus, PlanDefault, PlanUnstacked, PlanMerged, PlanStored, PlanChild,
    EnterParents, ClimbToDefault, ClimbToOpen, ClimbFurther, UnwindParent, ParentsReady, RecordReviewBase,
    OpenParent, OpenPullRequest, Planned, quiet
<1>1. CASE ClimbToOpen
  <2>1. [Command("push", Caller, "unwind") EXCEPT !.to = branch] \in Commands
    BY <1>0, <1>1, HandlerFacts, CommandType DEF ClimbToOpen, Kinds
  <2>2. [Command("push", Caller, "unwind") EXCEPT !.to = branch].then = "unwind"
    BY DEF Command
  <2>3. QED
    BY <1>0, <1>1, <2>1, <2>2, IssueEffect DEF ClimbToOpen, BeforeOwning, EarlySteps
<1>2. CASE UnwindParent
  <2>1. Last(chain) \in Branches
    BY <1>2, HandlerFacts DEF UnwindParent, Last
  <2>2. [Command("push", Caller, "openParent") EXCEPT !.to = Last(chain)] \in Commands
    BY <1>0, <2>1, CommandType DEF Kinds
  <2>3. [Command("push", Caller, "openParent") EXCEPT !.to = Last(chain)].then = "openParent"
    BY DEF Command
  <2>4. QED
    BY <1>0, <1>2, <2>2, <2>3, IssueEffect DEF UnwindParent, BeforeOwning, EarlySteps, EarlyThen
<1>3. CASE OpenParent
  BY <1>0, <1>3 DEF OpenParent, OpenPullRequest, HandlerEffect, BeforeOwning, EarlySteps, EarlyThen, ledger,
    claims
<1>4. CASE Planning /\ ~ClimbToOpen /\ ~UnwindParent /\ ~OpenParent
  BY <1>0, <1>4, DecisionEffect DEF Planning, ReadStatus, PlanDefault, PlanUnstacked, PlanMerged, PlanStored,
    PlanChild, EnterParents, ClimbToDefault, ClimbFurther, ParentsReady, RecordReviewBase, Planned, Skip, quiet,
    BeforeOwning, EarlySteps, EarlyThen, ledger, claims
<1> QED
  BY <1>1, <1>2, <1>3, <1>4

\* A command whose continuation is behind the point where a stash is owned.
LEMMA LateCommandEffect ==
    ASSUME IInv, pc \in HandlerSteps \ {"cleanup", "abandon"},
           NEW c \in Commands, c.then \notin EarlyThen, Issue(c)
    PROVE  HandlerEffect
BY HandlerFacts, IssueEffect

\* The branch that a creation starts at a commit.
LEMMA CreateEffect ==
    ASSUME IInv, pc \in HandlerSteps \ {"cleanup", "abandon"}, NEW b \in Branches,
           NEW commit \in {None} \cup Commits, NEW then \in Continuations,
           then \in EarlyThen => BeforeOwning, CreateAt(b, commit, then)
    PROVE  HandlerEffect
<1> DEFINE c == [Command("create", Caller, then) EXCEPT !.to = b, !.onto = commit]
<1>1. Issue(c) /\ commit \in Commits
  BY DEF CreateAt
<1>2. c \in Commands
  BY <1>1, HandlerFacts, CommandType DEF Kinds
<1>3. c.then = then
  BY DEF Command
<1> HIDE DEF c
<1> QED
  BY <1>1, <1>2, <1>3, HandlerFacts, IssueEffect

\* A switch that may adopt a sibling.
LEMMA SwitchEffect ==
    ASSUME IInv, pc \in HandlerSteps \ {"cleanup", "abandon"}, NEW b \in Branches,
           NEW then \in AfterSwitch, SwitchWithAdoption(b, then)
    PROVE  HandlerEffect
<1>1. then \in Continuations \ EarlyThen
  BY DEF AfterSwitch, Continuations, EarlyThen
<1> DEFINE c == [Command("switch", Caller, then) EXCEPT !.to = b]
<1>2. Issue(c) /\ c \in Commands /\ c.then = then
  BY <1>1, HandlerFacts, CommandType DEF SwitchWithAdoption, Kinds, Command
<1> HIDE DEF c
<1> QED
  BY <1>1, <1>2, LateCommandEffect

\* A stash is pushed for the invocation, or to carry work to another branch.
LEMMA StashEffect ==
    ASSUME IInv, StashInvocation \/ Isolate
    PROVE  HandlerEffect
<1>1. /\ pc \in {"stash", "isolate"}
      /\ \E then \in {"ownInvocation", "ownIsolation"} : Issue(Command("stash", Caller, then))
  BY DEF StashInvocation, Isolate
<1>2. PICK then \in {"ownInvocation", "ownIsolation"} : Issue(Command("stash", Caller, then))
  BY <1>1
<1>3. pc \in HandlerSteps \ {"cleanup", "abandon"} /\ BeforeOwning
  BY <1>1 DEF HandlerSteps, BeforeOwning, EarlySteps
<1>4. Command("stash", Caller, then) \in Commands
  BY <1>3, HandlerFacts, CommandType DEF Kinds, Continuations
<1> QED
  BY <1>2, <1>3, <1>4, HandlerFacts, IssueEffect

\* What the contract has a name for in the saving of dirty work.
Owning == OwnStash \/ NothingOwned \/ DropOwned

\* The rest of the saving of dirty work.
LEMMA SavingEffect == ASSUME IInv, Saving, ~Owning PROVE HandlerEffect
<1> USE DEF HandlerSteps, CommandSteps, Continuations
<1>1. CASE StashInvocation \/ Isolate
  BY <1>1, StashEffect
<1>2. CASE PrepareExisting
  BY <1>2, HandlerFacts, SwitchEffect DEF PrepareExisting, AfterSwitch
<1>3. CASE PrepareNew
  BY <1>3, HandlerFacts, RepositoryFields, TipType, CreateEffect DEF PrepareNew, OriginTip, EarlyThen
<1>4. CASE RestoreOwned
  <2>1. PICK then \in {"dropIsolation", "dropOwned"} : Issue(Command("apply", Caller, then))
    BY <1>4 DEF RestoreOwned
  <2>2. Command("apply", Caller, then) \in Commands /\ Command("apply", Caller, then).then = then
    BY ZenonT(30), <1>4, HandlerFacts, CommandType DEF RestoreOwned, Kinds, Command
  <2> QED
    BY <1>4, <2>1, <2>2, LateCommandEffect DEF RestoreOwned, EarlyThen
<1>5. CASE CommitCluster
  BY <1>5, HandlerFacts, IssueEffect DEF CommitCluster, IInv, TypeOK, TransactionType, FrameType, FramesOK,
    EarlyThen
<1>6. CASE LoseIndex
  BY <1>6, HandlerFacts DEF LoseIndex, HandlerEffect, BeforeOwning, EarlySteps, EarlyThen, ledger
<1>7. CASE StashSkipped \/ Route \/ PrepareFails \/ StageCluster \/ GenerateFails \/ ClustersSaved
  BY <1>7, HandlerFacts, DecisionEffect DEF StashSkipped, Route, PrepareFails, StageCluster, GenerateFails,
    ClustersSaved, Skip, quiet, BeforeOwning, EarlySteps, EarlyThen, ledger, claims
<1> QED
  BY <1>1, <1>2, <1>3, <1>4, <1>5, <1>6, <1>7 DEF Saving, Owning

\* A merge of a remote branch.
LEMMA MergeEffect ==
    ASSUME IInv, pc \in HandlerSteps \ {"cleanup", "abandon"}, NEW b \in Branches,
           NEW next \in Continuations \ EarlyThen, Merge(b, next)
    PROVE  HandlerEffect
<1> DEFINE c == [Command("merge", Caller, next) EXCEPT !.onto = OriginTip(b)]
<1>1. Issue(c)
  BY DEF Merge
<1>2. OriginTip(b) \in Commits
  BY HandlerFacts, RepositoryFields DEF Merge, Exists, OriginTip
<1>3. c \in Commands /\ c.then = next
  BY <1>2, HandlerFacts, CommandType DEF Kinds, Command
<1> HIDE DEF c
<1> QED
  BY <1>1, <1>3, LateCommandEffect

\* A reset to a remote branch.
LEMMA ResetEffect ==
    ASSUME IInv, pc \in HandlerSteps \ {"cleanup", "abandon"}, NEW b \in Branches,
           NEW next \in Continuations \ EarlyThen, Reset(b, next)
    PROVE  HandlerEffect
<1> DEFINE c == [Command("reset", Caller, next) EXCEPT !.onto = OriginTip(b)]
<1>1. Issue(c)
  BY DEF Reset
<1>2. OriginTip(b) \in Commits
  BY HandlerFacts, RepositoryFields DEF Reset, Exists, OriginTip
<1>3. c \in Commands /\ c.then = next
  BY <1>2, HandlerFacts, CommandType DEF Kinds, Command
<1> HIDE DEF c
<1> QED
  BY <1>1, <1>3, LateCommandEffect

\* A push.
LEMMA PushEffect ==
    ASSUME IInv, pc \in HandlerSteps \ {"cleanup", "abandon"}, NEW b \in Branches,
           NEW next \in Continuations \ EarlyThen, Push(b, next)
    PROVE  HandlerEffect
<1> DEFINE c == [Command("push", Caller, next) EXCEPT !.to = b]
<1>1. Issue(c)
  BY DEF Push
<1>2. c \in Commands /\ c.then = next
  BY HandlerFacts, CommandType DEF Kinds, Command
<1> HIDE DEF c
<1> QED
  BY <1>1, <1>2, LateCommandEffect

\* Bringing the branch up to date.
LEMMA SyncingEffect == ASSUME IInv, Syncing PROVE HandlerEffect
<1> USE DEF HandlerSteps, CommandSteps, Continuations
<1>1. CASE MergeExplicit \/ AlignMerge \/ MergeBase
  BY <1>1, HandlerFacts, MergeEffect DEF MergeExplicit, AlignMerge, MergeBase, EarlyThen
<1>2. CASE ResetBase \/ AlignReset
  BY <1>2, HandlerFacts, ResetEffect DEF ResetBase, AlignReset, EarlyThen
<1>3. CASE PushExplicit \/ Publish
  BY <1>3, HandlerFacts, PushEffect DEF PushExplicit, Publish, EarlyThen
<1>4. CASE TrackBase \/ ReviewNew
  BY <1>4, HandlerFacts, RepositoryFields, TipType, CreateEffect DEF TrackBase, ReviewNew, OriginTip, EarlyThen
<1>5. CASE SwitchToBase \/ SwitchToReview \/ ReviewLocal
  BY <1>5, HandlerFacts, SwitchEffect DEF SwitchToBase, SwitchToReview, ReviewLocal, AfterSwitch
<1>6. CASE OpenReview
  BY <1>6, HandlerFacts DEF OpenReview, OpenPullRequest, HandlerEffect, BeforeOwning, EarlySteps, EarlyThen,
    ledger, claims
<1>7. CASE ToBase \/ ToReview \/ CheckBase \/ ReviewOpen \/ ReviewMerged \/ ReviewRemote \/ Align
           \/ FollowMerged \/ FollowEnds
  BY <1>7, HandlerFacts, DecisionEffect DEF ToBase, ToReview, CheckBase, ReviewOpen, ReviewMerged, ReviewRemote,
    Align, FollowMerged, FollowEnds, Follow, Skip, quiet, BeforeOwning, EarlySteps, EarlyThen, ledger, claims
<1> QED
  BY <1>1, <1>2, <1>3, <1>4, <1>5, <1>6, <1>7 DEF Syncing


\* An adoption, except where a sibling is snapshotted first.
LEMMA AdoptingEffect ==
    ASSUME IInv, Adopting, pc' # "snapshot" PROVE HandlerEffect
<1>0. {"adopt", "protected", "save", "leave", "retry"} \subseteq HandlerSteps \ {"cleanup", "abandon"}
  BY DEF HandlerSteps, Continuations
<1>1. CASE Adopt
  BY <1>1, <1>0, DecisionEffect DEF Adopt, ledger, claims, BeforeOwning, EarlySteps, EarlyThen, CommandSteps
<1>2. CASE SaveSibling
  <2> DEFINE c == [Command("commit", capture.tree, "leave") EXCEPT !.edits = git.work[capture.tree]]
  <2>1. pc = "save" /\ Issue(c)
    BY <1>2 DEF SaveSibling
  <2>2. capture.tree \in Worktrees /\ git.work[capture.tree] \in SUBSET Tokens
    BY <1>0, <2>1, HandlerFacts, AdoptionFacts, RepositoryFields
  <2>3. c = [kind |-> "commit", tree |-> capture.tree, to |-> None, onto |-> {},
             edits |-> git.work[capture.tree], refs |-> {}, then |-> "leave"]
    BY CommitCommand
  <2> HIDE DEF c
  <2>4. c \in Commands /\ c.then = "leave"
    BY <2>2, <2>3, NoCommit DEF Commands, Kinds, Continuations
  <2> QED
    BY <1>0, <2>1, <2>4, LateCommandEffect DEF EarlyThen
<1>3. CASE SiblingClean
  BY <1>3, <1>0, DecisionEffect DEF SiblingClean, Skip, quiet, ledger, claims, BeforeOwning, EarlySteps,
    EarlyThen, CommandSteps
<1>4. CASE ReleaseSibling
  <2> DEFINE c == Command(IF capture.tree = MainWorktree THEN "detach" ELSE "remove",
                          capture.tree, "retry")
  <2>1. pc = "leave" /\ Issue(c)
    BY <1>4 DEF ReleaseSibling
  <2>2. c \in Commands /\ c.then = "retry"
    BY ZenonT(30), <2>1, AdoptionFacts, CommandType DEF Kinds, Command, Continuations
  <2> HIDE DEF c
  <2> QED
    BY <1>0, <2>1, <2>2, LateCommandEffect DEF EarlyThen
<1>5. CASE RetrySwitch
  <2> DEFINE c == [Command("switch", Caller, switching.then) EXCEPT !.to = switching.to]
  <2>1. pc \in {"retry", "adopt"} /\ Issue(c)
    BY <1>5 DEF RetrySwitch
  <2>2. switching \in Switches
    BY <1>0, <2>1, HandlerFacts DEF IInv, FramesOK, InAdoption
  <2>3. switching.to \in Branches /\ switching.then \in AfterSwitch
    BY <2>2 DEF Switches
  <2>4. switching.then \in Continuations /\ switching.then \notin EarlyThen
    BY <2>3 DEF AfterSwitch, EarlyThen, Continuations
  <2>5. c \in Commands /\ c.then = switching.then
    BY <1>0, <2>1, <2>3, <2>4, HandlerFacts, CommandType DEF Kinds, Command
  <2> HIDE DEF c
  <2> QED
    BY <1>0, <2>1, <2>4, <2>5, LateCommandEffect
<1> QED
  BY <1>1, <1>2, <1>3, <1>4, <1>5 DEF Adopting

\* A command goes on where it leads: nothing is owned yet if it leads to where
\* something will be.
LEMMA CommandStepEffect ==
    ASSUME IInv, pc \in CommandSteps \ {"abandon"},
           pc' \in CommandSteps \cup {cmd.then, "cleanup"}, cmd' = cmd,
           UNCHANGED <<snapshots, owned, phase, outcome, ownershipLost>>,
           published' \in {published, TRUE}
    PROVE  HandlerEffect
<1>1. pc \in HandlerSteps \ {"cleanup"} /\ pc' \in HandlerSteps /\ phase = "forward"
  BY RunningFacts, HandlerFacts DEF HandlerSteps, CommandSteps, Continuations
<1>2. BeforeOwning' => BeforeOwning
  BY RunningFacts, <1>1 DEF EarlySteps, EarlyThen, CommandSteps, Continuations, BeforeOwning
<1> QED
  BY <1>1, <1>2 DEF HandlerEffect

\* Every way Git may answer a command.
LEMMA RunCommandEffect == ASSUME IInv, RunCommand PROVE HandlerEffect
<1>0. pc = "command" /\ pc \in CommandSteps \ {"abandon"}
  BY DEF RunCommand, Running, RunSwitch, SwitchBusy, SwitchMissing, RunCreate, RunDetach, RunRemove, RunCommit,
    RunReset, RunStash, RunMerge, RunConclude, RunApply, MergeConflicts, ApplyConflicts, PushReported,
    PushMalformed, PushUnreported, CommandSteps
<1>1. CASE \E g : Landed(g)
  BY <1>0, <1>1, CommandStepEffect DEF Landed, AfterCommand, CommandSteps, ledger, claims, frames
<1>2. CASE SwitchBusy
  BY <1>0, <1>2, HandlerFacts, RunningFacts, DecisionEffect DEF SwitchBusy, quiet, HandlerSteps, BeforeOwning,
    EarlySteps, EarlyThen, CommandSteps, ledger, claims
<1>3. CASE SwitchMissing
  <2>1. /\ cmd.to \in Branches /\ cmd.kind = "switch" /\ cmd.then \in AfterSwitch
        /\ OriginTip(cmd.to) \in {None} \cup Commits
        /\ CreateAt(cmd.to, OriginTip(cmd.to), cmd.then)
    BY <1>0, <1>3, RunningFacts, HandlerFacts, RepositoryFields DEF SwitchMissing, Running, OriginTip, IInv,
      FramesOK
  <2>2. cmd.then \in Continuations /\ cmd.then \notin EarlyThen
    BY <2>1 DEF AfterSwitch, EarlyThen, Continuations
  <2>3. pc \in HandlerSteps \ {"cleanup", "abandon"}
    BY <1>0 DEF HandlerSteps, CommandSteps
  <2> QED
    BY <2>1, <2>2, <2>3, CreateEffect
<1>4. CASE RunConclude
  BY <1>4, <1>0, CommandStepEffect DEF RunConclude, ledger, claims, frames, CommandSteps
<1>5. CASE MergeConflicts \/ ApplyConflicts
  BY <1>5, <1>0, CommandStepEffect DEF MergeConflicts, ApplyConflicts, ledger, claims, frames, CommandSteps
<1>6. CASE PushReported \/ PushMalformed \/ PushUnreported
  BY <1>0, HandlerFacts, RunningFacts, <1>6, CommandStepEffect DEF PushReported, PushMalformed, PushUnreported,
    ledger, claims, frames
<1> QED
  BY <1>1, <1>2, <1>3, <1>4, <1>5, <1>6 DEF RunCommand, RunSwitch, RunCreate, RunDetach, RunRemove, RunCommit,
    RunReset, RunStash, RunMerge, RunApply

\* A conflict is resolved, or the merge abandoned.
LEMMA ResolvingEffect == ASSUME IInv, Resolving PROVE HandlerEffect
<1>1. CASE ResolveMerge
  <2> DEFINE c == [cmd EXCEPT !.kind = "conclude"]
             r == MutatedReferences(c)
  <2>1. /\ pc = "resolve" /\ Prepare(c, "abandon")
        /\ UNCHANGED <<snapshots, owned, phase, outcome, published>>
    BY <1>1 DEF ResolveMerge, ledger
  <2>2. pc \in CommandSteps /\ pc \in HandlerSteps /\ cmd \in Commands
    BY <2>1, RunningFacts DEF CommandSteps
  <2>3. [c EXCEPT !.refs = r].then = cmd.then
    BY <2>2 DEF Commands
  <2>4. \/ pc' = "command" /\ cmd'.then = cmd.then /\ UNCHANGED ownershipLost
        \/ pc' = "abandon" /\ cmd' = cmd /\ ownershipLost' = TRUE
    BY <2>1, <2>3 DEF Prepare
  <2> HIDE DEF c, r
  <2>5. pc' \in HandlerSteps /\ (BeforeOwning' => BeforeOwning)
    BY <2>1, <2>2, <2>4, HandlerFacts DEF HandlerSteps, CommandSteps, BeforeOwning, EarlySteps, EarlyThen
  <2> QED
    BY <2>1, <2>2, <2>4, <2>5 DEF HandlerEffect
<1>2. CASE ResolveApply
  BY <1>2, CommandStepEffect DEF ResolveApply, CommandSteps, ledger, claims, frames
<1>3. CASE ResolveFails
  BY <1>3, CommandStepEffect DEF ResolveFails, Running, CommandSteps, quiet, ledger, claims, frames
<1>4. CASE AbandonMerge
  BY <1>4, HandlerFacts DEF AbandonMerge, ledger, HandlerSteps, CommandSteps, BeforeOwning, EarlySteps,
    EarlyThen, HandlerEffect
<1> QED
  BY <1>1, <1>2, <1>3, <1>4 DEF Resolving

\* A failing call leads to the cleanup.
LEMMA HandlerFailsEffect == ASSUME IInv, HandlerFails PROVE HandlerEffect
BY DecisionEffect DEF HandlerFails, Failing, HandlerSteps, Continuations, CommandSteps, quiet, ledger, claims,
  BeforeOwning, EarlySteps, EarlyThen

\* A step the contract does not see.
LEMMA SilentAgrees ==
    ASSUME CInv, pc # "done", pc' # "done",
           UNCHANGED <<owned, phase, outcome, published, ownershipLost>>,
           Undropped' = Undropped, Stage' = Stage,
           BeforeOwning' => BeforeOwning,
           pc' \in DropSteps /\ dropping'.slot = 0 => dropping'.entry \in owned,
           Finalizing' => owned = {} \/ phase = "settle",
           phase = "begin" => pc' = "begin" \/ pc' \in CaptureSteps,
           ownershipLost => phase = "settle"
    PROVE  OwnsOne' /\ ReportsInOrder' /\ ContractStep
BY DEF CInv, OwnsOne, ReportsInOrder, ContractStep, Contract!vars

\* A stash becomes the invocation's own, the only one it has.
LEMMA OwnStashAgrees ==
    ASSUME CInv, OwnStash PROVE OwnsOne' /\ ReportsInOrder' /\ ContractStep
<1>1. /\ pc \in EarlyThen /\ pc' \in {"sync", "prepare"}
      /\ git.stashes # <<>> /\ owned' = owned \cup {Head(git.stashes)}
      /\ UNCHANGED <<snapshots, phase, outcome, published, ownershipLost>>
  BY DEF OwnStash, EarlyThen, claims
<1>2. phase = "forward" /\ owned = {} /\ ~ownershipLost /\ outcome = "running"
  BY <1>1 DEF CInv, IInv, PhaseOK, HandlerSteps, Continuations, EarlyThen, OwnsOne, BeforeOwning, EarlySteps,
    ReportsInOrder
<1>3. Head(git.stashes) \in Entries
  BY <1>1, TransactionFacts, RepositoryFields DEF CInv
<1>4. owned' = {Head(git.stashes)}
  BY <1>1, <1>2
<1>5. Stage = "open" /\ Stage' = "open" /\ Undropped' = Undropped
  BY <1>1, <1>2 DEF Stage, EarlyThen, Restoring, Finalizing, Undropped
<1>6. OwnsOne'
  BY <1>1, <1>2, <1>4 DEF OwnsOne, BeforeOwning, EarlySteps, EarlyThen, CommandSteps, DropSteps, Finalizing
<1>7. ReportsInOrder'
  BY <1>1, <1>2 DEF ReportsInOrder
<1>8. Contract!Own
  BY <1>1, <1>2, <1>3, <1>5 DEF Contract!Own
<1> QED
  BY <1>6, <1>7, <1>8 DEF ContractStep, Contract!Next

\* Nothing is owned any more: on with the clusters, or the work is complete.
LEMMA NothingOwnedAgrees ==
    ASSUME CInv, NothingOwned PROVE OwnsOne' /\ ReportsInOrder' /\ ContractStep
<1>1. /\ owned = {} /\ pc \in {"isolation", "restore"} /\ pc' \in {"cluster", "finalize"}
      /\ UNCHANGED <<snapshots, owned, phase, outcome, published, ownershipLost>>
  BY DEF NothingOwned, Skip, quiet, ledger, claims
<1>2. phase = "forward" /\ ~ownershipLost /\ outcome = "running"
  BY <1>1 DEF CInv, IInv, PhaseOK, HandlerSteps, Continuations, ReportsInOrder
<1>3. /\ Stage = "open" /\ Stage' = (IF pc' = "finalize" THEN "settling" ELSE "open")
      /\ Undropped' = Undropped
  BY <1>1, <1>2 DEF Stage, Restoring, Finalizing, Undropped
<1>4. OwnsOne' /\ ReportsInOrder'
  BY <1>1, <1>2 DEF OwnsOne, ReportsInOrder, DropSteps
<1>5. pc' = "finalize" => Contract!Settle
  BY <1>1, <1>2, <1>3 DEF Contract!Settle, Contract!held
<1> QED
  BY <1>1, <1>3, <1>4, <1>5 DEF ContractStep, Contract!Next, Contract!vars

\* The entry to drop as the invocation's own is the one it owns.
LEMMA DropOwnedAgrees ==
    ASSUME CInv, DropOwned PROVE OwnsOne' /\ ReportsInOrder' /\ ContractStep
<1>1. /\ pc \in {"dropIsolation", "dropOwned"} /\ pc' = "list"
      /\ \E entry \in owned : dropping' = Drop(entry, 0)
      /\ UNCHANGED <<snapshots, owned, phase, outcome, published, ownershipLost>>
  BY DEF DropOwned, ledger, claims
<1>2. dropping'.slot = 0 /\ dropping'.entry \in owned
  BY <1>1 DEF Drop
<1>3. phase = "forward" /\ ~ownershipLost
  BY <1>1 DEF CInv, IInv, PhaseOK, HandlerSteps, Continuations, ReportsInOrder
<1>4. Stage' = Stage /\ Undropped' = Undropped /\ ~Finalizing' /\ ~BeforeOwning'
  BY <1>1, <1>2, <1>3 DEF Stage, Restoring, Finalizing, Undropped, BeforeOwning, EarlySteps, EarlyThen,
    CommandSteps
<1> QED
  BY <1>1, <1>2, <1>3, <1>4, SilentAgrees

\* A sibling begin did not know is snapshotted before it is adopted.
LEMMA AdoptAgrees ==
    ASSUME CInv, Adopt, pc' = "snapshot" PROVE OwnsOne' /\ ReportsInOrder' /\ ContractStep
<1>1. pc = "adopt" /\ UNCHANGED <<snapshots, owned, phase, outcome, published, ownershipLost>>
  BY DEF Adopt, ledger, claims
<1>2. phase = "forward" /\ ~ownershipLost
  BY <1>1 DEF CInv, IInv, PhaseOK, HandlerSteps, ReportsInOrder
<1>3. /\ Stage' = Stage /\ Undropped' = Undropped /\ ~Finalizing' /\ ~BeforeOwning'
      /\ pc' \notin DropSteps
  BY <1>1, <1>2 DEF Stage, Restoring, Finalizing, Undropped, BeforeOwning, EarlySteps, EarlyThen, CommandSteps,
    DropSteps
<1> QED
  BY <1>1, <1>2, <1>3, SilentAgrees

\* Every step of the handler.
LEMMA HandlerAgrees ==
    ASSUME CInv, Planning \/ Saving \/ Syncing \/ Adopting \/ RunCommand \/ Resolving
                   \/ HandlerFails
    PROVE  OwnsOne' /\ ReportsInOrder' /\ ContractStep
<1>0. IInv
  BY DEF CInv
<1>1. CASE Saving /\ Owning
  BY <1>1, OwnStashAgrees, NothingOwnedAgrees, DropOwnedAgrees DEF Owning
<1>2. CASE Adopting /\ pc' = "snapshot"
  BY <1>2, AdoptAgrees DEF Adopting, SaveSibling, SiblingClean, ReleaseSibling, RetrySwitch, Issue, Prepare,
    Skip
<1>3. CASE ~(Saving /\ Owning) /\ ~(Adopting /\ pc' = "snapshot")
  BY <1>0, <1>3, PlanningEffect, SavingEffect, SyncingEffect, AdoptingEffect, RunCommandEffect, ResolvingEffect,
    HandlerFailsEffect, HandlerEffectAgrees
<1> QED
  BY <1>1, <1>2, <1>3

\* The journal is brought up to date with where the command left the refs.
LEMMA CompleteAgrees ==
    ASSUME CInv, Complete PROVE OwnsOne' /\ ReportsInOrder' /\ ContractStep
BY CommandStepEffect, HandlerEffectAgrees DEF CInv, Complete, CommandSteps, ledger, frames

\* A snapshot is added: its backup, if it has one, is held from then on.
LEMMA SnapshotHeld ==
    ASSUME IInv, NEW backup \in {None} \cup Entries,
           snapshots' = Append(snapshots, NewSnapshot(backup))
    PROVE  Undropped' = IF backup = None THEN Undropped ELSE Undropped \cup {Len(snapshots) + 1}
<1> DEFINE s == NewSnapshot(backup)
<1>1. s.backup = backup /\ s.dropped = FALSE
  BY DEF NewSnapshot
<1>2. snapshots \in Seq(Snapshots)
  BY TransactionFacts
<1> HIDE DEF s
<1>3. /\ DOMAIN snapshots = 1..Len(snapshots) /\ Len(snapshots) \in Nat
      /\ DOMAIN snapshots' = 1..(Len(snapshots) + 1)
      /\ \A i \in 1..Len(snapshots) : snapshots'[i] = snapshots[i]
      /\ snapshots'[Len(snapshots) + 1] = s
  BY <1>2 DEF s
<1> QED
  BY <1>1, <1>3 DEF Undropped

\* What begin and an adoption do before they take or fail to take a backup.
LEMMA CaptureAgrees ==
    ASSUME CInv, BeginNext \/ SnapshotStatus \/ SnapshotRef \/ OwnAdopted
    PROVE  OwnsOne' /\ ReportsInOrder' /\ ContractStep
<1>1. /\ pc \in {"begin", "protected"} \cup CaptureSteps
      /\ pc' \in {"begin", "snapshot", "snapshotRef", "snapshotApply", "protected", "save"}
      /\ UNCHANGED <<owned, phase, outcome, published, ownershipLost>>
  BY DEF BeginNext, SnapshotStatus, SnapshotRef, OwnAdopted, CaptureSteps, Captured, ledger, claims
<1>2. phase \in {"begin", "forward"} /\ (pc = "begin" => phase = "begin") /\ ~ownershipLost
  BY <1>1 DEF CInv, IInv, PhaseOK, CaptureSteps, HandlerSteps, ReportsInOrder
<1>3. phase = "begin" => pc' = "begin" \/ pc' \in CaptureSteps
  BY <1>1 DEF CInv, ReportsInOrder, BeginNext, SnapshotStatus, SnapshotRef, OwnAdopted, CaptureSteps, Captured
<1>4. pc' = "begin" => phase = "begin"
  BY <1>2 DEF BeginNext, SnapshotStatus, SnapshotRef, OwnAdopted, Captured
<1>5. Undropped' = Undropped
  BY SnapshotHeld DEF Undropped, CInv, BeginNext, SnapshotStatus, SnapshotRef, OwnAdopted, ledger
<1>6. Stage = "open" /\ Stage' = "open"
  BY <1>1, <1>2 DEF Stage, Restoring, Finalizing, CaptureSteps
<1>7. /\ ~Finalizing' /\ pc' \notin DropSteps /\ pc' # "done" /\ pc # "done"
      /\ (BeforeOwning' => BeforeOwning)
  BY <1>1, <1>2, <1>4 DEF Finalizing, DropSteps, CaptureSteps, BeforeOwning, EarlySteps, EarlyThen, CommandSteps
<1> QED
  BY <1>1, <1>2, <1>3, <1>5, <1>6, <1>7, SilentAgrees

\* Begin is complete: the handler takes over.
LEMMA BegunAgrees ==
    ASSUME CInv, Begun PROVE OwnsOne' /\ ReportsInOrder' /\ ContractStep
<1>1. /\ pc = "begin" /\ pc' = "status" /\ phase' = "forward"
      /\ UNCHANGED <<snapshots, owned, outcome, published, ownershipLost>>
  BY DEF Begun, ledger, claims
<1>2. phase = "begin" /\ owned = {} /\ outcome = "running" /\ ~ownershipLost
  BY <1>1 DEF CInv, IInv, PhaseOK, OwnsOne, BeforeOwning, ReportsInOrder
<1>3. Stage = "open" /\ Stage' = "open" /\ Undropped' = Undropped
  BY <1>1, <1>2 DEF Stage, Restoring, Finalizing, Undropped
<1>4. OwnsOne' /\ ReportsInOrder'
  BY <1>1, <1>2 DEF OwnsOne, ReportsInOrder, DropSteps
<1> QED
  BY <1>1, <1>3, <1>4 DEF ContractStep, Contract!vars

\* A capture that has pushed its stash registers the backup, whether or not
\* the edits could be put back.
LEMMA BackupAgrees ==
    ASSUME CInv, SnapshotApply \/ CaptureApplyFails
    PROVE  OwnsOne' /\ ReportsInOrder' /\ ContractStep
<1>1. /\ pc = "snapshotApply"
      /\ snapshots' = Append(snapshots, NewSnapshot(capture.backup))
      /\ UNCHANGED <<owned, outcome, published, ownershipLost>>
      /\ \/ UNCHANGED phase /\ pc' = (IF phase = "begin" THEN "begin" ELSE "protected")
         \/ phase = "begin" /\ phase' = "undo" /\ pc' = "inspect"
         \/ phase # "begin" /\ UNCHANGED phase /\ pc' = "cleanup"
  BY DEF SnapshotApply, CaptureApplyFails, Captured, claims
<1>2. /\ phase \in {"begin", "forward"} /\ ~ownershipLost /\ outcome = "running"
      /\ capture.backup \in Entries
      /\ (phase = "begin" => owned = {} /\ ~published)
  BY <1>1, CaptureFacts DEF CInv, IInv, FramesOK, CaptureSteps, ReportsInOrder, OwnsOne, BeforeOwning
<1>3. capture.backup # None
  BY <1>1 DEF CInv, IInv, FramesOK
<1>4. Undropped' = Undropped \cup {Len(snapshots) + 1}
  BY <1>1, <1>2, <1>3, SnapshotHeld DEF CInv
<1>5. /\ Stage = "open"
      /\ Stage' = (IF phase' = "undo" THEN "undoing" ELSE IF pc' = "cleanup" THEN "failing" ELSE "open")
  BY <1>1, <1>2 DEF Stage, Restoring, Finalizing
<1>6. OwnsOne'
  BY <1>1, <1>2 DEF CInv, OwnsOne, BeforeOwning, EarlySteps, EarlyThen, CommandSteps, DropSteps, Finalizing
<1>7. ReportsInOrder'
  BY <1>1, <1>2 DEF CInv, ReportsInOrder, CaptureSteps
<1>8. Contract!Protect
  BY <1>1, <1>2, <1>4, <1>5 DEF Contract!Protect
<1> QED
  BY <1>6, <1>7, <1>8 DEF ContractStep, Contract!Next

\* A capture that fails earlier is begin's refusal or the handler's failure.
LEMMA CaptureFailsAgrees ==
    ASSUME CInv, CaptureFails PROVE OwnsOne' /\ ReportsInOrder' /\ ContractStep
<1>1. /\ pc \in CaptureSteps
      /\ UNCHANGED <<snapshots, owned, published, ownershipLost>>
      /\ IF phase = "begin"
         THEN phase' = "settle" /\ outcome' = "refused" /\ pc' = "finalize"
         ELSE pc' = "cleanup" /\ UNCHANGED <<phase, outcome>>
  BY DEF CaptureFails, CaptureSteps, ledger, claims
<1>2. /\ phase \in {"begin", "forward"} /\ ~ownershipLost /\ outcome = "running"
      /\ (phase = "begin" => owned = {} /\ ~published)
  BY <1>1, CaptureFacts DEF CInv, CaptureSteps, ReportsInOrder, OwnsOne, BeforeOwning
<1>3. Stage = "open" /\ Undropped' = Undropped
  BY <1>1, <1>2 DEF Stage, Restoring, Finalizing, CaptureSteps, Undropped
<1>4. Stage' = (IF phase = "begin" THEN "settling" ELSE "failing")
  BY <1>1, <1>2 DEF Stage, Restoring, Finalizing
<1>5. OwnsOne'
  BY <1>1, <1>2 DEF CInv, OwnsOne, BeforeOwning, EarlySteps, EarlyThen, CommandSteps, DropSteps, Finalizing
<1>6. ReportsInOrder'
  BY <1>1, <1>2 DEF CInv, ReportsInOrder, CaptureSteps
<1>7. IF phase = "begin" THEN Contract!Settle ELSE Contract!FailWork
  BY <1>1, <1>2, <1>3, <1>4 DEF Contract!Settle, Contract!FailWork, Contract!held
<1> QED
  BY <1>5, <1>6, <1>7 DEF ContractStep, Contract!Next

\* What holds wherever an entry is dropped or the end is near.
LEMMA EndFacts ==
    ASSUME CInv, pc \in DropSteps \cup {"finalize"}
    PROVE  /\ phase \in {"forward", "settle", "undo", "rollback"}
           /\ ownershipLost => phase = "settle" /\ published
           /\ phase # "settle" => outcome = "running"
           /\ phase = "settle" =>
                \/ outcome = "handoff" /\ published
                \/ outcome = "refused" /\ owned = {} /\ ~ownershipLost
           /\ phase \in {"undo", "rollback"} => ~published
           /\ Stage = (IF phase \in {"undo", "rollback"} THEN "undoing"
                       ELSE IF phase = "settle" \/ Finalizing THEN "settling" ELSE "open")
           /\ ~BeforeOwning
BY DEF CInv, IInv, TypeOK, TransactionType, Phases, ReportsInOrder, CaptureSteps, DropSteps, Stage, Restoring,
  BeforeOwning, EarlySteps, EarlyThen, CommandSteps

\* The entry is looked up, or the next backup to drop is chosen.
LEMMA ListAgrees ==
    ASSUME CInv, ListEntry \/ FinalizeNext
    PROVE  OwnsOne' /\ ReportsInOrder' /\ ContractStep
<1>1. /\ pc \in {"list", "finalize"} /\ pc' \in DropSteps
      /\ UNCHANGED <<snapshots, owned, phase, outcome, published, ownershipLost>>
  BY DEF ListEntry, FinalizeNext, DropSteps, ledger, claims
<1>2. /\ dropping'.slot = 0 => dropping'.entry \in owned
      /\ (dropping'.slot # 0) = Finalizing
      /\ Finalizing => owned = {} \/ phase = "settle"
  <2>1. CASE ListEntry
    BY <2>1, DropFacts DEF CInv, ListEntry, DropSteps, Drops, OwnsOne, Finalizing
  <2>2. CASE FinalizeNext
    <3>1. PICK i \in Undropped : dropping' = Drop(snapshots[i].backup, i)
      BY <2>2 DEF FinalizeNext
    <3>2. i # 0
      BY <3>1, TransactionFacts DEF CInv, Undropped
    <3> QED
      BY <2>2, <3>1, <3>2 DEF FinalizeNext, Drop, Finalizing
  <2> QED
    BY <2>1, <2>2
<1>3. Finalizing' = Finalizing
  BY <1>1, <1>2 DEF Finalizing, DropSteps
<1>4. Stage' = Stage /\ Undropped' = Undropped /\ ~BeforeOwning' /\ phase # "begin"
  BY <1>1, <1>3, EndFacts DEF Stage, Restoring, Undropped, DropSteps, BeforeOwning, EarlySteps, EarlyThen,
    CommandSteps
<1> QED
  BY <1>1, <1>2, <1>3, <1>4, EndFacts, SilentAgrees DEF DropSteps

\* The invocation's own stash is gone: its edits are back, or the work is undone.
LEMMA RepayAgrees ==
    ASSUME CInv, DropEntry, dropping.slot = 0
    PROVE  OwnsOne' /\ ReportsInOrder' /\ ContractStep
<1>1. /\ pc = "drop" /\ pc' = AfterDrop /\ owned' = owned \ {dropping.entry}
      /\ UNCHANGED <<snapshots, phase, outcome, published, ownershipLost>>
  BY DEF DropEntry, Released, claims
<1>2. dropping.entry \in owned /\ phase \in {"forward", "undo", "rollback"} /\ ~Finalizing
  BY <1>1, DropFacts DEF CInv, OwnsOne, DropSteps, Finalizing
<1>3. /\ phase = "forward" => pc' \in {"cluster", "finalize"}
      /\ phase # "forward" => pc' = "release"
  BY <1>1, <1>2 DEF AfterDrop, Restoring
<1>4. phase = "forward" => owned' = {}
  BY <1>1, <1>2 DEF CInv, OwnsOne
<1>5. /\ Stage = (IF phase = "forward" THEN "open" ELSE "undoing")
      /\ Stage' = (IF pc' = "finalize" THEN "settling" ELSE Stage)
      /\ Undropped' = Undropped /\ ~ownershipLost
  BY <1>1, <1>2, <1>3, EndFacts DEF Stage, Restoring, Finalizing, Undropped, DropSteps
<1>6. OwnsOne'
  BY <1>1, <1>2, <1>3, <1>4 DEF BeforeOwning, EarlySteps, EarlyThen, CommandSteps, DropSteps, Finalizing,
    OwnsOne
<1>7. ReportsInOrder'
  BY <1>1, <1>2, <1>3, <1>5, EndFacts DEF ReportsInOrder, DropSteps
<1>8. Contract!Repay
  BY <1>1, <1>2, <1>3, <1>4, <1>5 DEF Contract!Repay
<1> QED
  BY <1>6, <1>7, <1>8 DEF ContractStep, Contract!Next

\* A backup is gone.
LEMMA ReleaseAgrees ==
    ASSUME CInv, DropEntry, dropping.slot # 0
    PROVE  OwnsOne' /\ ReportsInOrder' /\ ContractStep
<1>1. /\ pc = "drop" /\ pc' = "finalize" /\ pc \in DropSteps
      /\ snapshots' = [snapshots EXCEPT ![dropping.slot].dropped = TRUE]
      /\ UNCHANGED <<owned, phase, outcome, published, ownershipLost>>
  BY DEF DropEntry, Released, AfterDrop, claims, DropSteps
<1>2. dropping.slot \in DOMAIN snapshots /\ snapshots \in Seq(Snapshots)
  BY <1>1, DropFacts, TransactionFacts DEF CInv
<1>3. Finalizing /\ Finalizing' /\ (owned = {} \/ phase = "settle")
  BY <1>1 DEF CInv, OwnsOne, Finalizing
<1>4. Undropped' = Undropped \ {dropping.slot}
  <2> DEFINE s == snapshots[dropping.slot]
  <2>1. s \in Snapshots /\ snapshots' = [snapshots EXCEPT ![dropping.slot] = [s EXCEPT !.dropped = TRUE]]
    BY <1>1, <1>2
  <2>2. [s EXCEPT !.dropped = TRUE].dropped = TRUE
    BY <2>1 DEF Snapshots
  <2> HIDE DEF s
  <2>3. DOMAIN snapshots' = DOMAIN snapshots /\ snapshots'[dropping.slot].dropped = TRUE
    BY <1>2, <2>1, <2>2
  <2>4. \A i \in DOMAIN snapshots \ {dropping.slot} : snapshots'[i] = snapshots[i]
    BY <1>2, <2>1
  <2> QED
    BY <2>3, <2>4 DEF Undropped
<1>5. Stage' = Stage
  BY <1>1, <1>3, EndFacts DEF Stage, Restoring
<1>6. OwnsOne'
  BY <1>1, <1>3, EndFacts DEF CInv, OwnsOne, BeforeOwning, EarlySteps, EarlyThen, CommandSteps, DropSteps
<1>7. ReportsInOrder'
  BY <1>1, EndFacts DEF CInv, ReportsInOrder, DropSteps
<1>8. dropping.slot \in Undropped => Contract!Release
  BY <1>1, <1>3, EndFacts, <1>4, <1>5 DEF Contract!Release
<1>9. dropping.slot \notin Undropped => UNCHANGED Contract!vars
  BY <1>1, <1>4, <1>5 DEF Contract!vars
<1> QED
  BY <1>6, <1>7, <1>8, <1>9 DEF ContractStep, Contract!Next

\* A drop that fails ends the work, the rollback or the settlement.
LEMMA DropFailsAgrees ==
    ASSUME CInv, DropFails PROVE OwnsOne' /\ ReportsInOrder' /\ ContractStep
<1>1. /\ pc \in DropSteps /\ Fail
      /\ UNCHANGED <<snapshots, owned, phase, published, ownershipLost>>
  BY DEF DropFails, Fail, DropSteps, ledger, claims
<1>2. /\ pc' = (IF phase = "forward" THEN "cleanup" ELSE "done")
      /\ outcome' = (IF phase = "rollback" THEN "handoff"
                     ELSE IF phase = "undo" THEN "unreported" ELSE outcome)
  BY <1>1 DEF Fail
<1>3. Stage' = (IF phase = "forward" THEN "failing" ELSE "closed") /\ Undropped' = Undropped
  BY <1>1, <1>2 DEF Stage, Undropped
<1>4. OwnsOne'
  BY <1>1, <1>2, EndFacts DEF CInv, OwnsOne, BeforeOwning, EarlySteps, EarlyThen, CommandSteps, DropSteps,
    Finalizing
<1>5. ReportsInOrder'
  BY <1>1, <1>2, EndFacts DEF CInv, ReportsInOrder, DropSteps
<1>6. Contract!FailWork \/ Contract!UndoFails \/ Contract!Close
  BY <1>1, <1>2, <1>3, EndFacts DEF Contract!FailWork, Contract!UndoFails, Contract!Close, Contract!held
<1> QED
  BY <1>4, <1>5, <1>6 DEF ContractStep, Contract!Next

\* Success, or a complete rollback, is reported with nothing held.
LEMMA FinalizedAgrees ==
    ASSUME CInv, Finalized PROVE OwnsOne' /\ ReportsInOrder' /\ ContractStep
<1>1. /\ pc = "finalize" /\ pc' = "done" /\ Undropped = {}
      /\ owned = {} \/ phase = "settle"
      /\ UNCHANGED <<snapshots, owned, phase, published, ownershipLost>>
      /\ outcome' = (IF phase = "forward" THEN "synced"
                     ELSE IF phase \in {"undo", "rollback"} THEN "rolledBack" ELSE outcome)
  BY DEF Finalized, Restoring, ledger, claims
<1>2. Stage' = "closed" /\ Undropped' = Undropped /\ Finalizing
  BY <1>1 DEF Stage, Undropped, Finalizing
<1>3. OwnsOne'
  BY <1>1, EndFacts DEF CInv, OwnsOne, BeforeOwning, EarlySteps, EarlyThen, CommandSteps, DropSteps, Finalizing
<1>4. ReportsInOrder'
  BY <1>1, EndFacts DEF CInv, ReportsInOrder, DropSteps
<1>5. Contract!Succeed \/ Contract!Undone \/ Contract!Close
  BY <1>1, <1>2, EndFacts DEF Contract!Succeed, Contract!Undone, Contract!Close, Contract!held
<1> QED
  BY <1>3, <1>4, <1>5 DEF ContractStep, Contract!Next

\* The deferred cleanup hands over, freezes or undoes.
LEMMA CleanupAgrees ==
    ASSUME CInv, Cleanup PROVE OwnsOne' /\ ReportsInOrder' /\ ContractStep
<1>1. pc = "cleanup" /\ UNCHANGED <<snapshots, owned, published, ownershipLost>>
  BY DEF Cleanup, CleanupPublished, CleanupOwnershipLost, CleanupRollback, ledger, claims
<1>2. phase = "forward" /\ outcome = "running"
  BY <1>1 DEF CInv, IInv, PhaseOK, HandlerSteps, ReportsInOrder
<1>3. Stage = "failing" /\ Undropped' = Undropped
  BY <1>1 DEF Stage, Undropped
<1>4. \/ /\ published /\ outcome' = "handoff" /\ phase' = "settle" /\ pc' = "finalize"
      \/ /\ ~published /\ ownershipLost /\ outcome' = "handoff" /\ pc' = "done" /\ phase' = phase
      \/ /\ ~published /\ ~ownershipLost /\ phase' = "rollback" /\ pc' = "inspect"
         /\ outcome' = outcome
  BY DEF Cleanup, CleanupPublished, CleanupOwnershipLost, CleanupRollback
<1>5. Stage' = (IF pc' = "done" THEN "closed" ELSE IF pc' = "inspect" THEN "undoing" ELSE "settling")
  BY <1>2, <1>4 DEF Stage, Restoring
<1>6. OwnsOne'
  BY <1>1, <1>2, <1>4 DEF CInv, OwnsOne, BeforeOwning, EarlySteps, EarlyThen, CommandSteps, DropSteps,
    Finalizing
<1>7. ReportsInOrder'
  BY <1>1, <1>2, <1>4 DEF CInv, ReportsInOrder, CaptureSteps
<1>8. Contract!HandOver \/ Contract!Freeze \/ Contract!Undo
  BY <1>1, <1>2, <1>3, <1>4, <1>5 DEF Contract!HandOver, Contract!Freeze, Contract!Undo, Contract!held
<1> QED
  BY <1>6, <1>7, <1>8 DEF ContractStep, Contract!Next

\* A rollback holds on to everything until its own drops, or fails.
LEMMA RollbackAgrees ==
    ASSUME CInv, Rollback PROVE OwnsOne' /\ ReportsInOrder' /\ ContractStep
<1>a. /\ pc \in RollbackSteps
      /\ UNCHANGED <<snapshots, owned, phase, published, ownershipLost>>
  BY DEF Rollback, Inspect, ClearCaller, RestoreCaller, ListReferences, RestoreReference, ReferencesRestored,
    RestoreAdopted, AdoptedRestored, ResetSnapshot, ApplyBackup, ContentsRestored, ReleaseOwned, RollbackFails,
    Fail, RollbackSteps, ledger, claims
<1>1. /\ pc \in RollbackSteps /\ phase \in {"undo", "rollback"}
      /\ UNCHANGED <<snapshots, owned, phase, published, ownershipLost>>
  BY <1>a DEF CInv, IInv, PhaseOK, Restoring
<1>2. ~ownershipLost /\ ~published /\ outcome = "running" /\ Undropped' = Undropped /\ Stage = "undoing"
  BY <1>1 DEF CInv, ReportsInOrder, RollbackSteps, Stage, Restoring, Undropped
<1>3. CASE RollbackFails
  <2>1. /\ pc' = "done" /\ outcome' \in {"handoff", "unreported"} /\ Stage' = "closed"
    BY <1>1, <1>3 DEF RollbackFails, Fail, Stage
  <2>2. OwnsOne' /\ ReportsInOrder'
    BY <1>1, <1>2, <2>1 DEF OwnsOne, ReportsInOrder, BeforeOwning, EarlySteps, EarlyThen, CommandSteps,
      DropSteps, Finalizing
  <2>3. Contract!UndoFails
    BY <1>1, <1>2, <2>1 DEF Contract!UndoFails, Contract!held
  <2> QED
    BY <2>2, <2>3 DEF ContractStep, Contract!Next
<1>4. CASE ReleaseOwned
  <2>1. \/ pc' = "finalize" /\ owned = {}
        \/ pc' = "list" /\ \E entry \in owned : dropping' = Drop(entry, 0)
    BY <1>4 DEF ReleaseOwned
  <2>2. /\ pc' = "list" => dropping'.slot = 0 /\ dropping'.entry \in owned
        /\ outcome' = outcome
    BY <1>4, <2>1 DEF Drop, ReleaseOwned
  <2>3. Stage' = Stage /\ ~BeforeOwning' /\ (Finalizing' => owned = {})
    BY <1>1, <1>2, <2>1, <2>2 DEF Stage, Restoring, Finalizing, BeforeOwning, EarlySteps, EarlyThen,
      CommandSteps, DropSteps
  <2> QED
    BY <1>1, <1>2, <2>1, <2>2, <2>3, SilentAgrees DEF DropSteps, RollbackSteps
<1>5. CASE Rollback /\ ~RollbackFails /\ ~ReleaseOwned
  <2>1. pc' \in RollbackSteps /\ outcome' = outcome
    BY <1>1, <1>5 DEF Rollback, Inspect, ClearCaller, RestoreCaller, ListReferences, RestoreReference,
      ReferencesRestored, RestoreAdopted, AdoptedRestored, ResetSnapshot, ApplyBackup, ContentsRestored,
      RollbackSteps
  <2>2. Stage' = Stage /\ ~BeforeOwning' /\ ~Finalizing' /\ pc' \notin DropSteps
    BY <1>1, <1>2, <2>1 DEF Stage, Restoring, Finalizing, BeforeOwning, EarlySteps, EarlyThen, CommandSteps,
      DropSteps, RollbackSteps
  <2> QED
    BY <1>1, <1>2, <2>1, <2>2, SilentAgrees DEF RollbackSteps
<1> QED
  BY <1>3, <1>4, <1>5

\* Every step of the transaction.
LEMMA TransactionAgrees ==
    ASSUME CInv, TransactionStep PROVE OwnsOne' /\ ReportsInOrder' /\ ContractStep
BY CompleteAgrees, CaptureAgrees, BegunAgrees, BackupAgrees, CaptureFailsAgrees, ListAgrees, RepayAgrees,
  ReleaseAgrees, DropFailsAgrees, FinalizedAgrees, CleanupAgrees, RollbackAgrees DEF TransactionStep,
  Transaction, Capture, Dropping

\* What other writers do is no step of the contract, nor is it to stop.
LEMMA OthersAgree ==
    ASSUME CInv, Outside \/ Ended \/ UNCHANGED vars
    PROVE  OwnsOne' /\ ReportsInOrder' /\ ContractStep
<1>1. UNCHANGED <<snapshots, owned, phase, pc, cmd, dropping, outcome, published, ownershipLost>>
  BY DEF Outside, OutsideCommit, OutsideStash, OutsideIndex, OutsideSwitch, Meanwhile, Ended, vars,
    transactionVars, ledger, claims, frames
<1>2. UNCHANGED <<Stage, Undropped, Finalizing, BeforeOwning>>
  BY <1>1 DEF Stage, Undropped, Finalizing, BeforeOwning, Restoring
<1> QED
  BY <1>1, <1>2 DEF CInv, OwnsOne, ReportsInOrder, ContractStep, Contract!vars

\* Every step of the system is one of the contract's, or one it does not see.
LEMMA ContractKeeps ==
    ASSUME CInv, [Next]_vars PROVE OwnsOne' /\ ReportsInOrder' /\ ContractStep
BY OthersAgree, TransactionAgrees, HandlerAgrees DEF Gix, Next

\* For every repository, forge and request an invocation may start with, and
\* whatever fails or is done by other writers on the way, the handler and its
\* transaction implement the contract about recovery objects: each step is a
\* step of the contract, or one the contract does not see.
THEOREM Implements == Spec => KeepsContract
<1>1. Init => OwnsOne /\ ReportsInOrder /\ Contract!Init
  BY DEF Init, Stage, Restoring, Finalizing, Undropped, OwnsOne, ReportsInOrder, DropSteps, Contract!Init
<1>2. IInv /\ OwnsOne /\ ReportsInOrder /\ [Next]_vars => OwnsOne' /\ ReportsInOrder' /\ ContractStep
  BY ContractKeeps DEF CInv
<1> QED
  BY <1>1, <1>2, Invariance, PTL DEF Spec, ContractStep, KeepsContract, Contract!Spec

----------------------------------------
\* A lost ownership freezes the repository

\* The branch the caller is on is where the journal has it, or beyond: other
\* writers only add commits.
CallerAhead ==
    LET b == git.head[Caller]
    IN b # None =>
         /\ journal[b] # None
         /\ git.refs[b] # journal[b].expected =>
              /\ git.refs[b] # None /\ journal[b].expected # None
              /\ journal[b].expected \subseteq git.refs[b]

\* The branch of a command is not where the journal has it.
LostToAnother == ~AsExpected(journal, MutatedReferences(cmd))

\* A merge is the caller's, and where it has lost a branch to another writer it
\* stays lost: the check that git merge --abort repeats fails again.
MergeOK ==
    /\ pc \in {"command", "resolve"} /\ cmd.kind = "merge" => cmd.tree = Caller /\ CallerAhead
    /\ pc = "abandon" /\ ownershipLost =>
         cmd.kind = "merge" /\ cmd.tree = Caller /\ CallerAhead /\ LostToAnother

MergeSteps == {"command", "resolve", "abandon"}

\* A step that issues a command, a merge for the caller only, or runs none.
IssuesOrNot ==
    \/ pc' \notin MergeSteps
    \/ \E c \in Commands : Issue(c) /\ (c.kind = "merge" => c.tree = Caller)

\* What is issued is where the journal has it.
LEMMA IssuedMergeOK ==
    ASSUME IInv, IssuesOrNot PROVE MergeOK'
<1>1. CASE pc' \notin MergeSteps
  BY <1>1 DEF MergeOK, MergeSteps
<1>2. ASSUME NEW c \in Commands, Issue(c), c.kind = "merge" => c.tree = Caller, pc' \in MergeSteps
      PROVE  MergeOK'
  <2>1. /\ pc' = "command" /\ cmd' = [c EXCEPT !.refs = MutatedReferences(c)] /\ git' = git
        /\ journal' = Journal(MutatedReferences(c))
        /\ AsExpected(Journal(MutatedReferences(c)), MutatedReferences(c))
    BY <1>2 DEF Issue, Prepare, MergeSteps
  <2>2. cmd'.kind = c.kind /\ cmd'.tree = c.tree
    BY <2>1 DEF Commands
  <2>3. ASSUME c.kind = "merge" PROVE CallerAhead'
    BY <1>2, <2>3, MutatedReferencesType, JournalType, <2>1 DEF MutatedReferences, IInv, TypeOK,
      TransactionType, CallerAhead, AsExpected
  <2>4. QED BY <1>2, <2>1, <2>2, <2>3 DEF MergeOK
<1>3. QED BY <1>1, <1>2 DEF IssuesOrNot

\* Status and planning.
LEMMA PlanningIssues == ASSUME IInv, Planning PROVE IssuesOrNot
<1> USE DEF HandlerSteps, CommandSteps, Continuations
<1>0. Caller \in Worktrees
  BY CallerAssumption
<1>1. CASE ClimbToOpen
  <2>1. [Command("push", Caller, "unwind") EXCEPT !.to = branch] \in Commands
    BY <1>0, <1>1, HandlerFacts, CommandType DEF ClimbToOpen, Kinds
  <2>2. [Command("push", Caller, "unwind") EXCEPT !.to = branch].kind = "push"
    BY DEF Command
  <2>3. QED BY <1>1, <2>1, <2>2 DEF ClimbToOpen, IssuesOrNot
<1>2. CASE UnwindParent
  <2>1. Last(chain) \in Branches
    BY <1>2, HandlerFacts DEF UnwindParent, Last
  <2>2. [Command("push", Caller, "openParent") EXCEPT !.to = Last(chain)] \in Commands
    BY <1>0, <2>1, CommandType DEF Kinds
  <2>3. [Command("push", Caller, "openParent") EXCEPT !.to = Last(chain)].kind = "push"
    BY DEF Command
  <2>4. QED BY <1>2, <2>2, <2>3 DEF UnwindParent, IssuesOrNot
<1>3. CASE Planning /\ ~ClimbToOpen /\ ~UnwindParent
  BY <1>3 DEF Planning, ReadStatus, PlanDefault, PlanUnstacked, PlanMerged, PlanStored, PlanChild, EnterParents,
    ClimbToDefault, ClimbFurther, ParentsReady, OpenParent, OpenPullRequest, RecordReviewBase, Planned, Skip,
    quiet, IssuesOrNot, MergeSteps
<1> QED
  BY <1>1, <1>2, <1>3

\* A branch is created for the caller.
LEMMA CreateIssues ==
    ASSUME IInv, pc \in HandlerSteps, NEW b \in Branches, NEW commit \in {None} \cup Commits,
           NEW then \in Continuations, CreateAt(b, commit, then)
    PROVE  IssuesOrNot
<1> DEFINE c == [Command("create", Caller, then) EXCEPT !.to = b, !.onto = commit]
<1>1. Issue(c) /\ commit \in Commits
  BY DEF CreateAt
<1>2. c \in Commands
  BY <1>1, HandlerFacts, CommandType DEF Kinds
<1>3. c.kind = "create"
  BY DEF Command
<1> HIDE DEF c
<1> QED
  BY <1>1, <1>2, <1>3 DEF IssuesOrNot

\* The caller switches.
LEMMA SwitchIssues ==
    ASSUME IInv, pc \in HandlerSteps, NEW b \in Branches, NEW then \in AfterSwitch,
           SwitchWithAdoption(b, then)
    PROVE  IssuesOrNot
<1> DEFINE c == [Command("switch", Caller, then) EXCEPT !.to = b]
<1>1. then \in Continuations
  BY DEF AfterSwitch, Continuations
<1>2. Issue(c) /\ c \in Commands /\ c.kind = "switch"
  BY <1>1, HandlerFacts, CommandType DEF SwitchWithAdoption, Kinds, Command
<1> HIDE DEF c
<1> QED
  BY <1>2 DEF IssuesOrNot

\* A command without operands runs in the caller's worktree.
LEMMA CallerIssues ==
    ASSUME IInv, pc \in HandlerSteps, NEW kind \in Kinds, NEW then \in Continuations,
           Issue(Command(kind, Caller, then))
    PROVE  IssuesOrNot
BY HandlerFacts, CommandType DEF Command, IssuesOrNot

\* The saving of dirty work.
LEMMA SavingIssues == ASSUME IInv, Saving PROVE IssuesOrNot
<1> USE DEF HandlerSteps, CommandSteps, Continuations
<1>1. CASE StashInvocation
  BY <1>1, CallerIssues DEF StashInvocation, Kinds
<1>2. CASE Isolate
  BY <1>2, CallerIssues DEF Isolate, Kinds
<1>3. CASE PrepareExisting
  BY <1>3, HandlerFacts, SwitchIssues DEF PrepareExisting, AfterSwitch
<1>4. CASE PrepareNew
  BY <1>4, HandlerFacts, RepositoryFields, TipType, CreateIssues DEF PrepareNew, OriginTip
<1>5. CASE RestoreOwned
  <2>1. PICK then \in {"dropIsolation", "dropOwned"} : Issue(Command("apply", Caller, then))
    BY <1>5 DEF RestoreOwned
  <2> QED
    BY <1>5, <2>1, CallerIssues DEF RestoreOwned, Kinds
<1>6. CASE CommitCluster
  BY <1>6 DEF CommitCluster, IInv, TypeOK, TransactionType, FrameType, FramesOK, IssuesOrNot
<1>7. CASE OwnStash \/ NothingOwned \/ DropOwned \/ LoseIndex \/ StashSkipped \/ Route \/ PrepareFails
             \/ StageCluster \/ GenerateFails \/ ClustersSaved
  BY <1>7 DEF OwnStash, NothingOwned, DropOwned, LoseIndex, StashSkipped, Route, PrepareFails, StageCluster,
    GenerateFails, ClustersSaved, Skip, quiet, IssuesOrNot, MergeSteps
<1> QED
  BY <1>1, <1>2, <1>3, <1>4, <1>5, <1>6, <1>7 DEF Saving

\* Bringing the branch up to date.
LEMMA SyncingIssues == ASSUME IInv, Syncing PROVE IssuesOrNot
<1> USE DEF HandlerSteps, CommandSteps, Continuations
<1>1. ASSUME pc \in HandlerSteps, NEW b \in Branches, NEW next \in Continuations,
             Merge(b, next) \/ Reset(b, next) \/ Push(b, next)
      PROVE  IssuesOrNot
  <2>1. ASSUME NEW kind \in Kinds, NEW c,
               \/ c = [Command(kind, Caller, next) EXCEPT !.to = b]
               \/ /\ OriginTip(b) \in Commits
                  /\ c = [Command(kind, Caller, next) EXCEPT !.onto = OriginTip(b)],
               Issue(c)
        PROVE  IssuesOrNot
    <3>1. CASE c = [Command(kind, Caller, next) EXCEPT !.to = b]
      <4>1. c \in Commands
        <5>1. Caller \in Worktrees
          BY CallerAssumption
        <5>2. QED BY <1>1, <2>1, <3>1, <5>1, CommandType, ZenonT(30)
      <4>2. c.tree = Caller
        BY <3>1, ZenonT(30) DEF Command
      <4>3. QED BY <2>1, <4>1, <4>2 DEF IssuesOrNot
    <3>2. CASE OriginTip(b) \in Commits /\ c = [Command(kind, Caller, next) EXCEPT !.onto = OriginTip(b)]
      <4>1. c \in Commands
        <5>1. Caller \in Worktrees
          BY CallerAssumption
        <5>2. QED BY <1>1, <2>1, <3>2, <5>1, CommandType, ZenonT(30)
      <4>2. c.tree = Caller
        BY <3>2, ZenonT(30) DEF Command
      <4>3. QED BY <2>1, <4>1, <4>2 DEF IssuesOrNot
    <3>3. QED BY <2>1, <3>1, <3>2
  <2>2. Exists(git.origin, b) => OriginTip(b) \in Commits
    BY <1>1, HandlerFacts, RepositoryFields DEF Exists, OriginTip
  <2>3. {"merge", "reset", "push"} \subseteq Kinds
    BY DEF Kinds
  <2>4. QED BY <1>1, <2>1, <2>2, <2>3 DEF Merge, Reset, Push
<1>2. CASE MergeExplicit \/ AlignMerge \/ MergeBase \/ ResetBase \/ AlignReset \/ PushExplicit \/ Publish
  BY <1>1, <1>2, HandlerFacts DEF MergeExplicit, AlignMerge, MergeBase, ResetBase, AlignReset, PushExplicit,
    Publish
<1>3. CASE TrackBase \/ ReviewNew
  BY <1>3, HandlerFacts, RepositoryFields, TipType, CreateIssues DEF TrackBase, ReviewNew, OriginTip
<1>4. CASE SwitchToBase \/ SwitchToReview \/ ReviewLocal
  BY <1>4, HandlerFacts, SwitchIssues DEF SwitchToBase, SwitchToReview, ReviewLocal, AfterSwitch
<1>5. CASE OpenReview \/ ToBase \/ ToReview \/ CheckBase \/ ReviewOpen \/ ReviewMerged
             \/ ReviewRemote \/ Align \/ FollowMerged \/ FollowEnds
  BY <1>5 DEF OpenReview, OpenPullRequest, ToBase, ToReview, CheckBase, ReviewOpen, ReviewMerged, ReviewRemote,
    Align, FollowMerged, FollowEnds, Follow, Skip, quiet, IssuesOrNot, MergeSteps
<1> QED
  BY <1>2, <1>3, <1>4, <1>5 DEF Syncing

\* An adoption commits in the sibling and lets it go; it merges nothing.
LEMMA AdoptingIssues == ASSUME IInv, Adopting PROVE IssuesOrNot
<1>0. pc \in {"adopt", "save", "leave", "retry"} /\ pc \in HandlerSteps
  BY DEF Adopting, Adopt, SaveSibling, SiblingClean, ReleaseSibling, RetrySwitch, HandlerSteps, Continuations
<1>1. CASE Adopt \/ SiblingClean
  BY <1>1 DEF Adopt, SiblingClean, Skip, IssuesOrNot, MergeSteps
<1>2. CASE SaveSibling
  <2> DEFINE c == [Command("commit", capture.tree, "leave") EXCEPT !.edits = git.work[capture.tree]]
  <2>1. pc = "save" /\ Issue(c)
    BY <1>2 DEF SaveSibling
  <2>2. capture.tree \in Worktrees /\ git.work[capture.tree] \in SUBSET Tokens
    BY <1>0, <2>1, HandlerFacts, AdoptionFacts, RepositoryFields
  <2>3. c = [kind |-> "commit", tree |-> capture.tree, to |-> None, onto |-> {},
             edits |-> git.work[capture.tree], refs |-> {}, then |-> "leave"]
    BY CommitCommand
  <2> HIDE DEF c
  <2>4. c \in Commands /\ c.kind = "commit"
    BY <2>2, <2>3, NoCommit DEF Commands, Kinds, Continuations
  <2>5. QED BY <2>1, <2>4 DEF IssuesOrNot
<1>3. CASE ReleaseSibling
  <2>1. PICK kind \in {"detach", "remove"} :
          pc = "leave" /\ Issue(Command(kind, capture.tree, "retry"))
    BY <1>3 DEF ReleaseSibling
  <2>2. capture.tree \in Worktrees
    BY <2>1, AdoptionFacts
  <2>3. Command(kind, capture.tree, "retry") \in Commands
    BY <2>1, <2>2, CommandType DEF Kinds, Continuations
  <2>4. Command(kind, capture.tree, "retry").kind = kind
    BY DEF Command
  <2>5. QED BY <2>1, <2>3, <2>4 DEF IssuesOrNot
<1>4. CASE RetrySwitch
  <2> DEFINE c == [Command("switch", Caller, switching.then) EXCEPT !.to = switching.to]
  <2>1. pc \in {"retry", "adopt"} /\ Issue(c)
    BY <1>4 DEF RetrySwitch
  <2>2. switching \in Switches
    BY <1>0, <2>1, HandlerFacts DEF IInv, FramesOK, InAdoption
  <2>3. switching.to \in Branches /\ switching.then \in Continuations
    BY <2>2 DEF Switches, AfterSwitch, Continuations
  <2>4. c \in Commands /\ c.kind = "switch"
    BY <1>0, <2>3, HandlerFacts, CommandType DEF Kinds, Command
  <2> HIDE DEF c
  <2>5. QED BY <2>1, <2>4 DEF IssuesOrNot
<1> QED
  BY <1>1, <1>2, <1>3, <1>4 DEF Adopting

\* While a command runs, a merge that conflicts stays the caller's.
LEMMA RunCommandMergeOK == ASSUME CInv, MergeOK, RunCommand PROVE MergeOK'
<1>1. pc = "command" /\ phase = "forward"
  BY RunningFacts, HandlerFacts DEF CInv, RunCommand, Running, RunSwitch, SwitchBusy, SwitchMissing, RunCreate,
    RunDetach, RunRemove, RunCommit, RunReset, RunStash, RunMerge, RunConclude, RunApply, MergeConflicts,
    ApplyConflicts, PushReported, PushMalformed, PushUnreported, CommandSteps
<1>2. cmd \in Commands /\ cmd.then \in Continuations
  BY <1>1, RunningFacts DEF CInv, CommandSteps
<1>3. ~ownershipLost
  BY <1>1 DEF CInv, ReportsInOrder
<1>4. CASE SwitchMissing
  BY <1>1, <1>4, RunningFacts, HandlerFacts, RepositoryFields, <1>2, CreateIssues, IssuedMergeOK DEF CInv,
    SwitchMissing, Running, CommandSteps, OriginTip, HandlerSteps
<1>5. CASE MergeConflicts
  BY <1>5, TransactionFacts, RepositoryFields, <1>1 DEF MergeConflicts, Running, frames, claims, CInv,
    RepositoryType, MergeOK, CallerAhead
<1>6. CASE ApplyConflicts
  BY <1>6 DEF ApplyConflicts, Running, frames, MergeOK
<1>7. CASE RunConclude
  BY <1>3, <1>7 DEF RunConclude, claims, MergeOK
<1>8. CASE RunCommand /\ ~SwitchMissing /\ ~MergeConflicts /\ ~ApplyConflicts /\ ~RunConclude
  <2>1. pc' \in {cmd.then, "complete", "cleanup", "adopt"}
    BY <1>8 DEF RunCommand, RunSwitch, SwitchBusy, RunCreate, RunDetach, RunRemove, RunCommit, RunReset,
      RunStash, RunMerge, RunApply, PushReported, PushMalformed, PushUnreported, Landed, AfterCommand
  <2>2. QED BY <1>2, <2>1 DEF MergeOK, Continuations
<1> QED
  BY <1>4, <1>5, <1>6, <1>7, <1>8

\* A conflict is concluded, abandoned, or lost to another writer for good.
LEMMA ResolvingMergeOK == ASSUME CInv, MergeOK, Resolving PROVE MergeOK'
<1>1. pc \in CommandSteps /\ cmd \in Commands /\ cmd.then \in Continuations /\ phase = "forward"
  BY RunningFacts, HandlerFacts DEF CInv, Resolving, ResolveMerge, ResolveApply, ResolveFails, Running,
    AbandonMerge, CommandSteps, HandlerSteps
<1>2. CASE ResolveMerge
  <2> DEFINE c == [cmd EXCEPT !.kind = "conclude"]
             refs == MutatedReferences(c)
  <2>1. /\ pc = "resolve" /\ cmd.kind = "merge" /\ git' = git /\ journal' = Journal(refs)
        /\ \/ pc' = "command" /\ cmd' = [c EXCEPT !.refs = refs]
           \/ /\ pc' = "abandon" /\ cmd' = cmd /\ ~AsExpected(Journal(refs), refs)
    BY <1>2 DEF ResolveMerge, Prepare
  <2>2. c.kind = "conclude" /\ c.tree = cmd.tree /\ [c EXCEPT !.refs = refs].kind = "conclude"
    BY <1>1 DEF Commands
  <2>3. cmd.tree = Caller /\ CallerAhead /\ refs = MutatedReferences(cmd)
    BY <2>1, <2>2 DEF MergeOK, MutatedReferences
  <2>4. /\ refs = {git.head[Caller]} \ {None} /\ refs \subseteq Branches
        /\ \A b \in refs : Journal(refs)[b] = journal[b]
    BY <2>1, <2>3, <1>1, TransactionFacts, RepositoryFields DEF MutatedReferences, CInv, CallerAhead, Journal
  <2> HIDE DEF c, refs
  <2>5. CASE pc' = "command"
    BY <2>1, <2>2, <2>5 DEF MergeOK
  <2>6. CASE pc' = "abandon"
    BY <2>1, <2>3, <2>6, <2>4 DEF MutatedReferences, LostToAnother, AsExpected, CallerAhead, MergeOK
  <2>7. QED BY <2>1, <2>5, <2>6
<1>3. CASE ResolveApply
  BY <1>1, <1>3 DEF ResolveApply, MergeOK, Continuations
<1>4. CASE ResolveFails
  BY <1>1, <1>4 DEF CInv, ReportsInOrder, ResolveFails, Running, quiet, claims, MergeOK
<1>5. CASE AbandonMerge
  BY <1>5 DEF AbandonMerge, MergeOK
<1> QED
  BY <1>2, <1>3, <1>4, <1>5 DEF Resolving

\* The transaction's own steps run no command; a command that is complete goes
\* on where it leads.
LEMMA TransactionMergeOK == ASSUME CInv, TransactionStep PROVE MergeOK'
<1>1. CASE Complete
  BY <1>1, RunningFacts DEF CInv, Complete, CommandSteps, MergeOK, Continuations
<1>2. CASE Capture
  BY <1>2 DEF Capture, BeginNext, Begun, SnapshotStatus, SnapshotRef, SnapshotApply, CaptureFails,
    CaptureApplyFails, OwnAdopted, Captured, MergeOK
<1>3. CASE Dropping
  BY <1>3 DEF Dropping, ListEntry, DropEntry, DropFails, Fail, FinalizeNext, Finalized, AfterDrop, MergeOK
<1>4. CASE Cleanup
  BY <1>4 DEF Cleanup, CleanupPublished, CleanupOwnershipLost, CleanupRollback, MergeOK
<1>5. CASE Rollback
  BY <1>5 DEF Rollback, Inspect, ClearCaller, RestoreCaller, ListReferences, RestoreReference,
    ReferencesRestored, RestoreAdopted, AdoptedRestored, ResetSnapshot, ApplyBackup, ContentsRestored,
    ReleaseOwned, RollbackFails, Fail, MergeOK
<1> QED
  BY <1>1, <1>2, <1>3, <1>4, <1>5 DEF TransactionStep, Transaction

\* Other writers move a branch forward, and never the caller's checkout.
LEMMA OutsideMergeOK == ASSUME CInv, MergeOK, Outside PROVE MergeOK'
<1>1. UNCHANGED <<pc, cmd, journal, ownershipLost>>
  BY DEF Outside, OutsideCommit, OutsideStash, OutsideIndex, OutsideSwitch, Meanwhile, frames, claims
<1>2. git \in RepositoryType /\ Caller \in Worktrees
  BY TransactionFacts DEF CInv
<1>3. /\ git'.head[Caller] = git.head[Caller]
      /\ \A b \in Branches : \/ git'.refs[b] = git.refs[b]
                             \/ /\ git.refs[b] # None /\ git'.refs[b] # None
                                /\ git.refs[b] \subseteq git'.refs[b]
  <2>1. CASE OutsideCommit
    <3>1. PICK w \in git.trees \ git.unmerged :
            /\ git.head[w] # None /\ Tip(git, w) # None
            /\ git' = MoveTip(git, w, Tip(git, w) \cup {OutsideToken})
      BY <2>1 DEF OutsideCommit, Meanwhile
    <3>2. w \in Worktrees /\ git.head[w] \in Branches /\ Tip(git, w) = git.refs[git.head[w]]
      BY <1>2, <3>1, RepositoryFields DEF Tip
    <3>3. git' = [git EXCEPT !.refs[git.head[w]] = git.refs[git.head[w]] \cup {OutsideToken}]
      BY <3>1, <3>2 DEF MoveTip
    <3>4. git.refs[git.head[w]] \cup {OutsideToken} # None
      BY <1>2, <3>1, <3>2, RepositoryFields, NoneAssumption, StrictSyncAssumption DEF Commits
    <3>5. git'.head = git.head
      BY <1>2, <3>3 DEF RepositoryType
    <3>6. git'.refs = [git.refs EXCEPT ![git.head[w]] = git.refs[git.head[w]] \cup {OutsideToken}]
      BY <1>2, <3>3 DEF RepositoryType
    <3>7. git.refs \in [Branches -> {None} \cup Commits]
      BY <1>2, RepositoryFields
    <3>8. QED BY <3>1, <3>2, <3>4, <3>5, <3>6, <3>7
  <2>2. CASE OutsideStash
    BY <1>2, <2>2, RepositoryFields DEF OutsideStash, Meanwhile, RepositoryType
  <2>3. CASE OutsideIndex
    BY <1>2, <2>3, RepositoryFields DEF OutsideIndex, Meanwhile, RepositoryType
  <2>4. CASE OutsideSwitch
    BY <1>2, <2>4, RepositoryFields DEF OutsideSwitch, Meanwhile, SwitchTo, RepositoryType
  <2> QED
    BY <2>1, <2>2, <2>3, <2>4 DEF Outside
<1>4. git.head[Caller] \in {None} \cup Branches
  BY <1>2, RepositoryFields
<1>5. CallerAhead => CallerAhead'
  BY <1>1, <1>3, <1>4 DEF CallerAhead
<1>6. ASSUME CallerAhead, cmd.kind = "merge", cmd.tree = Caller, LostToAnother
      PROVE  LostToAnother'
  <2> DEFINE b == git.head[Caller]
  <2>1. b # None /\ git.refs[b] # journal[b].expected
    BY <1>6 DEF LostToAnother, AsExpected, MutatedReferences
  <2>2. b \in Branches
    BY <1>4, <2>1
  <2>3. git'.refs[b] # journal[b].expected
    BY <1>3, <1>6, <2>1, <2>2 DEF CallerAhead
  <2>4. MutatedReferences(cmd)' = {b}
    BY <1>1, <1>3, <1>6, <2>1 DEF MutatedReferences
  <2>5. QED BY <1>1, <2>3, <2>4 DEF LostToAnother, AsExpected
<1> QED
  BY <1>1, <1>5, <1>6 DEF MergeOK

\* A merge stays the caller's, and one that lost its branch stays lost.
LEMMA MergeKeepsOK == ASSUME CInv, MergeOK, [Next]_vars PROVE MergeOK'
<1>1. CASE Planning \/ Saving \/ Syncing \/ Adopting
  BY <1>1, PlanningIssues, SavingIssues, SyncingIssues, AdoptingIssues, IssuedMergeOK DEF CInv
<1>2. CASE RunCommand
  BY <1>2, RunCommandMergeOK
<1>3. CASE Resolving
  BY <1>3, ResolvingMergeOK
<1>4. CASE HandlerFails
  BY <1>4 DEF HandlerFails, MergeOK
<1>5. CASE TransactionStep
  BY <1>5, TransactionMergeOK
<1>6. CASE Outside
  BY <1>6, OutsideMergeOK
<1>7. CASE Ended \/ UNCHANGED vars
  BY <1>7 DEF Ended, vars, transactionVars, claims, frames, MergeOK, CallerAhead, LostToAnother, AsExpected,
    MutatedReferences
<1> QED
  BY <1>1, <1>2, <1>3, <1>4, <1>5, <1>6, <1>7 DEF Next, Gix

\* What is left to do where a run is given up or over.
LEMMA LastStepsAre ==
    ASSUME Gix, pc \in {"abandon", "cleanup", "done"}
    PROVE  \/ pc = "abandon" /\ AbandonMerge
           \/ pc = "cleanup" /\ Cleanup
<1>1. ~Planning
  BY DEF Planning, ReadStatus, PlanDefault, PlanUnstacked, PlanMerged, PlanStored, PlanChild, EnterParents,
    ClimbToDefault, ClimbToOpen, ClimbFurther, UnwindParent, ParentsReady, RecordReviewBase, OpenParent
<1>2. ~Saving
  BY DEF Saving, StashInvocation, StashSkipped, OwnStash, Route, Isolate, PrepareExisting, PrepareNew,
    PrepareFails, RestoreOwned, NothingOwned, DropOwned, StageCluster, CommitCluster, LoseIndex, GenerateFails,
    ClustersSaved
<1>3. ~Syncing
  BY DEF Syncing, MergeExplicit, PushExplicit, ToBase, ToReview, TrackBase, SwitchToBase, CheckBase, ResetBase,
    ReviewOpen, ReviewMerged, ReviewRemote, SwitchToReview, ReviewLocal, ReviewNew, Align, AlignMerge,
    AlignReset, MergeBase, Publish, OpenReview, FollowMerged, FollowEnds
<1>4. ~Adopting
  BY DEF Adopting, Adopt, SaveSibling, SiblingClean, ReleaseSibling, RetrySwitch
<1>5. ~RunCommand
  BY DEF RunCommand, Running, RunSwitch, SwitchBusy, SwitchMissing, RunCreate, RunDetach, RunRemove, RunCommit,
    RunReset, RunStash, RunMerge, RunConclude, RunApply, MergeConflicts, ApplyConflicts, PushReported,
    PushMalformed, PushUnreported
<1>6. Resolving => pc = "abandon" /\ AbandonMerge
  BY DEF Resolving, ResolveMerge, ResolveApply, ResolveFails, Running, AbandonMerge
<1>7. ~HandlerFails
  BY DEF HandlerFails, Failing
<1>8. TransactionStep => pc = "cleanup" /\ Cleanup
  <2>1. ~Complete
    BY DEF Complete
  <2>2. ~Capture
    BY DEF Capture, BeginNext, Begun, SnapshotStatus, SnapshotRef, SnapshotApply, CaptureFails,
      CaptureApplyFails, OwnAdopted
  <2>3. ~Dropping
    BY DEF Dropping, ListEntry, DropEntry, DropFails, FinalizeNext, Finalized
  <2>4. ~Rollback
    BY DEF Rollback, Inspect, ClearCaller, RestoreCaller, ListReferences, RestoreReference, ReferencesRestored,
      RestoreAdopted, AdoptedRestored, ResetSnapshot, ApplyBackup, ContentsRestored, ReleaseOwned, RollbackFails
  <2>5. Cleanup => pc = "cleanup"
    BY DEF Cleanup, CleanupPublished, CleanupOwnershipLost, CleanupRollback
  <2> QED
    BY <2>1, <2>2, <2>3, <2>4, <2>5 DEF TransactionStep, Transaction
<1> QED
  BY <1>1, <1>2, <1>3, <1>4, <1>5, <1>6, <1>7, <1>8 DEF Gix

\* Once another writer is known to own a ref, the handler, the abort of its
\* merge and the cleanup leave the repository alone, whoever else is at work.
THEOREM OwnershipFreezes == Spec => OwnershipLossFreezes
<1>1. Init => OwnsOne /\ ReportsInOrder /\ MergeOK
  BY DEF Init, OwnsOne, ReportsInOrder, MergeOK, DropSteps, Finalizing
<1>2. IInv /\ OwnsOne /\ ReportsInOrder /\ MergeOK /\ [Next]_vars
        => OwnsOne' /\ ReportsInOrder' /\ MergeOK'
  BY ContractKeeps, MergeKeepsOK DEF CInv
<1>3. IInv /\ OwnsOne /\ ReportsInOrder /\ MergeOK /\ [Next]_vars =>
        [ownershipLost /\ ~published /\ ~OutsideStep => git' = git]_vars
  <2> SUFFICES ASSUME CInv, MergeOK, [Next]_vars, ownershipLost, ~published, ~OutsideStep
               PROVE  git' = git
    BY DEF CInv
  <2>1. pc \in {"abandon", "cleanup", "done"}
    BY DEF CInv, ReportsInOrder
  <2>2. CASE Outside
    <3>1. PICK act \in OutsideActs : act \notin outside /\ outside' = outside \cup {act}
      BY <2>2, StrictSyncAssumption DEF Outside, OutsideCommit, OutsideStash, OutsideIndex, OutsideSwitch,
        Meanwhile, May, OutsideActs
    <3> QED
      BY <3>1 DEF OutsideStep
  <2>3. CASE Gix /\ pc = "abandon"
    BY <2>3, LastStepsAre DEF MergeOK, LostToAnother, AbandonMerge
  <2>4. CASE Gix /\ pc = "cleanup"
    BY <2>4, LastStepsAre DEF Cleanup, CleanupPublished, CleanupOwnershipLost, CleanupRollback
  <2>5. CASE Gix /\ pc = "done"
    BY <2>5, LastStepsAre
  <2>6. CASE Ended \/ UNCHANGED vars
    BY <2>6 DEF Ended, vars, transactionVars
  <2> QED
    BY <2>1, <2>2, <2>3, <2>4, <2>5, <2>6 DEF Next
<1> QED
  BY <1>1, <1>2, <1>3, Invariance, PTL DEF Spec, OwnershipLossFreezes

----------------------------------------
\* What a rollback leaves on the remote

\* The remote has changed: that was reported, or is known not to have been.
RemoteKnown == git.origin # start.origin => published \/ silent

\* No command but a push touches the remote.
LEMMA OriginKept ==
    ASSUME NEW g \in RepositoryType
    PROVE  /\ \A w, c : MoveTip(g, w, c).origin = g.origin
           /\ \A w, c : CommitEdits(g, w, c).origin = g.origin
           /\ \A w, c : MergeCommit(g, w, c).origin = g.origin
           /\ \A w, c : ResetHard(g, w, c).origin = g.origin
           /\ \A w, b : SwitchTo(g, w, b).origin = g.origin
           /\ \A w, b, c : CreateBranch(g, w, b, c).origin = g.origin
           /\ \A w, c : DetachAt(g, w, c).origin = g.origin
           /\ \A w : RemoveTree(g, w).origin = g.origin
           /\ \A w, l : Restored(g, w, l).origin = g.origin
           /\ \A w, l : AddTree(g, w, l).origin = g.origin
           /\ \A w, use : PushStash(g, w, use).origin = g.origin
           /\ \A w, e : ApplyStash(g, w, e).origin = g.origin
           /\ \A i : DropStashAt(g, i).origin = g.origin
           /\ \A b, c : RecordReview(g, b, c).origin = g.origin
BY DEF RepositoryType, MoveTip, CommitEdits, MergeCommit, ResetHard, SwitchTo, CreateBranch, DetachAt,
  RemoveTree, Restored, AddTree, PushStash, ApplyStash, DropStashAt, RecordReview

\* What a step does to the remote, it reports, or knows that it was not.
RemoteStep ==
    /\ UNCHANGED start
    /\ published => published'
    /\ silent => silent'
    /\ git'.origin = git.origin \/ published' \/ silent'

\* The steps of the handler but those of a command.
LEMMA DecisionRemote ==
    ASSUME IInv, Planning \/ Saving \/ Syncing \/ Adopting \/ HandlerFails
    PROVE  RemoteStep
<1> USE TransactionFacts
<1>0. \A b, c : RecordReview(git, b, c).origin = git.origin
  BY OriginKept
<1>1. CASE Planning
  BY <1>0, <1>1 DEF Planning, ReadStatus, PlanDefault, PlanUnstacked, PlanMerged, PlanStored, PlanChild,
    EnterParents, ClimbToDefault, ClimbToOpen, ClimbFurther, UnwindParent, ParentsReady, RecordReviewBase,
    OpenParent, OpenPullRequest, Planned, Issue, quiet, world, handlerVars, RemoteStep
<1>2. CASE Saving
  BY <1>0, <1>2 DEF Saving, StashInvocation, StashSkipped, OwnStash, Route, Isolate, PrepareExisting,
    PrepareNew, PrepareFails, RestoreOwned, NothingOwned, DropOwned, StageCluster, CommitCluster, LoseIndex,
    GenerateFails, ClustersSaved, SwitchWithAdoption, CreateAt, Issue, Skip, quiet, world, handlerVars,
    RemoteStep
<1>3. CASE Syncing
  BY <1>3 DEF Syncing, MergeExplicit, PushExplicit, ToBase, ToReview, TrackBase, SwitchToBase, CheckBase,
    ResetBase, ReviewOpen, ReviewMerged, ReviewRemote, SwitchToReview, ReviewLocal, ReviewNew, Align,
    AlignMerge, AlignReset, MergeBase, Publish, OpenReview, OpenPullRequest, FollowMerged, FollowEnds, Follow,
    Merge, Reset, Push, SwitchWithAdoption, CreateAt, Issue, Skip, quiet, world, handlerVars, RemoteStep
<1>4. CASE Adopting
  BY <1>4 DEF Adopting, Adopt, SaveSibling, SiblingClean, ReleaseSibling, RetrySwitch, Issue, Skip, quiet,
    world, handlerVars, RemoteStep
<1>5. CASE HandlerFails
  BY <1>5 DEF HandlerFails, quiet, world, RemoteStep
<1> QED
  BY <1>1, <1>2, <1>3, <1>4, <1>5

\* Marking a checkout as conflicted, or no longer.
LEMMA ConflictOrigin ==
    ASSUME NEW g \in RepositoryType, NEW w
    PROVE  /\ [g EXCEPT !.unmerged = @ \cup {w}].origin = g.origin
           /\ [g EXCEPT !.unmerged = @ \ {w}].origin = g.origin
BY DEF RepositoryType

\* A command: only a push changes the remote.
LEMMA CommandRemote ==
    ASSUME IInv, RunCommand \/ Resolving PROVE RemoteStep
<1> USE TransactionFacts
<1>1. pc \in CommandSteps /\ cmd.tree \in Worktrees
  BY RunningFacts DEF RunCommand, Running, RunSwitch, SwitchBusy, SwitchMissing, RunCreate, RunDetach,
    RunRemove, RunCommit, RunReset, RunStash, RunMerge, RunConclude, RunApply, MergeConflicts, ApplyConflicts,
    PushReported, PushMalformed, PushUnreported, Resolving, ResolveMerge, ResolveApply, ResolveFails,
    AbandonMerge, CommandSteps
<1>2. CASE RunSwitch \/ RunCreate \/ RunDetach \/ RunRemove \/ RunCommit \/ RunReset \/ RunStash \/ RunMerge
  BY <1>1, <1>2, OriginKept DEF RunSwitch, RunCreate, RunDetach, RunRemove, RunCommit, RunReset, RunStash,
    RunMerge, Landed, handlerVars, world, RemoteStep
<1>3. CASE RunConclude \/ SwitchBusy \/ SwitchMissing \/ RunApply
  BY <1>1, <1>3, OriginKept DEF RunConclude, SwitchBusy, SwitchMissing, RunApply, Landed, CreateAt, Issue,
    quiet, handlerVars, world, RemoteStep
<1>4. CASE MergeConflicts
  BY <1>1, <1>4, ConflictOrigin DEF MergeConflicts, handlerVars, world, RemoteStep
<1>5. CASE ApplyConflicts
  <2>1. PICK entry \in owned :
          git' = [ApplyStash(git, cmd.tree, entry) EXCEPT !.unmerged = @ \cup {cmd.tree}]
    BY <1>5 DEF ApplyConflicts
  <2>2. ApplyStash(git, cmd.tree, entry) \in RepositoryType
    BY <1>1, ApplyStashType
  <2>3. QED BY <1>1, <1>5, <2>1, <2>2, OriginKept, ConflictOrigin DEF ApplyConflicts, handlerVars, world,
    RemoteStep
<1>6. CASE PushReported
  BY <1>1, <1>6, RunningFacts, RepositoryFields DEF PushBranch, PushReported, Running, RepositoryType,
    OriginTip, LocalTip, handlerVars, world, RemoteStep
<1>7. CASE PushMalformed \/ PushUnreported
  BY <1>7 DEF PushMalformed, PushUnreported, handlerVars, world, RemoteStep
<1>8. CASE Resolving
  <2>1. git'.origin = git.origin
    BY <1>8, ConflictOrigin DEF Resolving, ResolveMerge, ResolveApply, ResolveFails, AbandonMerge, quiet
  <2>2. UNCHANGED <<start, published, silent>>
    BY <1>8 DEF Resolving, ResolveMerge, ResolveApply, ResolveFails, AbandonMerge, quiet, handlerVars, world
  <2>3. QED BY <2>1, <2>2 DEF RemoteStep
<1> QED
  BY <1>2, <1>3, <1>4, <1>5, <1>6, <1>7, <1>8 DEF RunCommand

\* The transaction and other writers leave the remote alone.
LEMMA TransactionRemote ==
    ASSUME IInv, TransactionStep PROVE RemoteStep
<1> USE TransactionFacts
<1>0. UNCHANGED <<start, published, silent>>
  BY DEF TransactionStep, handlerVars, world, Transaction, Complete, Capture, BeginNext, Begun, SnapshotStatus,
    SnapshotRef, SnapshotApply, CaptureFails, CaptureApplyFails, OwnAdopted, Dropping, ListEntry, DropEntry,
    DropFails, FinalizeNext, Finalized, Cleanup, CleanupPublished, CleanupOwnershipLost, CleanupRollback,
    Rollback, Inspect, ClearCaller, RestoreCaller, ListReferences, RestoreReference, ReferencesRestored,
    RestoreAdopted, AdoptedRestored, ResetSnapshot, ApplyBackup, ContentsRestored, ReleaseOwned, RollbackFails
<1>1. CASE Complete \/ Cleanup
  BY <1>0, <1>1 DEF Complete, Cleanup, CleanupPublished, CleanupOwnershipLost, CleanupRollback, RemoteStep
<1>2. CASE Capture
  <2>1. pc \in CaptureSteps => capture.tree \in Worktrees
    BY CaptureFacts
  <2>2. QED BY <1>0, <1>2, <2>1, OriginKept DEF Capture, BeginNext, Begun, SnapshotStatus, SnapshotRef,
    SnapshotApply, CaptureFails, CaptureApplyFails, OwnAdopted, CaptureSteps, RemoteStep
<1>3. CASE Dropping
  BY <1>0, <1>3, OriginKept DEF Dropping, ListEntry, DropEntry, DropFails, FinalizeNext, Finalized, RemoteStep
<1>4. CASE Rollback
  <2>1. CASE Inspect \/ ListReferences \/ ReferencesRestored \/ AdoptedRestored \/ ContentsRestored \/ ReleaseOwned
               \/ RollbackFails
    BY <1>0, <2>1 DEF Inspect, ListReferences, ReferencesRestored, AdoptedRestored, ContentsRestored,
      ReleaseOwned, RollbackFails, RemoteStep
  <2>2. CASE ClearCaller \/ RestoreCaller
    BY <1>0, <2>2, OriginKept DEF ClearCaller, RestoreCaller, RemoteStep
  <2>3. CASE RestoreReference
    <3>2. PICK b \in pending : git' = git \/ git' = [git EXCEPT !.refs[b] = journal[b].initial]
      BY <2>3 DEF RestoreReference
    <3>1. [git EXCEPT !.refs[b] = journal[b].initial].origin = git.origin
      BY DEF RepositoryType
    <3>3. git'.origin = git.origin
      BY <3>1, <3>2
    <3>4. QED BY <1>0, <3>3 DEF RemoteStep
  <2>4. CASE RestoreAdopted
    <3>1. adopted[cursor].tree \in Worktrees
      <4>1. cursor \in DOMAIN adopted
        BY <2>4 DEF RestoreAdopted
      <4>2. adopted[cursor] \in Adoptions
        BY <4>1
      <4>3. QED BY <4>2 DEF Adoptions
    <3>2. QED BY <1>0, <2>4, <3>1, OriginKept DEF RestoreAdopted, RemoteStep
  <2>5. CASE ResetSnapshot \/ ApplyBackup
    <3>1. cursor \in DOMAIN snapshots
      BY <2>5, RollbackFacts DEF ResetSnapshot, ApplyBackup, RollbackSteps
    <3>2. snapshots[cursor].tree \in Worktrees
      <4>1. snapshots[cursor] \in Snapshots
        BY <3>1
      <4>2. QED BY <4>1 DEF Snapshots
    <3>3. QED BY <1>0, <2>5, <3>2, OriginKept DEF ResetSnapshot, ApplyBackup, RemoteStep
  <2>6. QED BY <1>4, <2>1, <2>2, <2>3, <2>4, <2>5 DEF Rollback
<1> QED
  BY <1>1, <1>2, <1>3, <1>4 DEF TransactionStep, Transaction

\* What another writer does is local.
LEMMA OutsideRemote ==
    ASSUME IInv, Outside PROVE RemoteStep
<1> USE TransactionFacts
<1>1. UNCHANGED <<start, published, silent>>
  BY DEF Outside, OutsideCommit, OutsideStash, OutsideIndex, OutsideSwitch, Meanwhile
<1>2. CASE OutsideCommit
  <2>1. PICK w \in git.trees : git' = MoveTip(git, w, Tip(git, w) \cup {OutsideToken})
    BY <1>2 DEF OutsideCommit, Meanwhile
  <2>2. QED BY <1>1, <2>1, OriginKept, RepositoryFields DEF RemoteStep
<1>3. CASE OutsideStash
  BY <1>1, <1>3 DEF RepositoryType, OutsideStash, Meanwhile, RemoteStep
<1>4. CASE OutsideIndex
  BY <1>1, <1>4 DEF RepositoryType, OutsideIndex, Meanwhile, RemoteStep
<1>5. CASE OutsideSwitch
  <2>1. PICK w \in git.trees, b \in Branches : git' = SwitchTo(git, w, b)
    BY <1>5 DEF OutsideSwitch, Meanwhile
  <2>2. QED BY <1>1, <2>1, OriginKept, RepositoryFields DEF RemoteStep
<1> QED
  BY <1>2, <1>3, <1>4, <1>5 DEF Outside

\* Every step of the system keeps the account of the remote.
LEMMA RemoteIsKnown ==
    ASSUME IInv, RemoteKnown, [Next]_vars PROVE RemoteKnown'
BY DecisionRemote, CommandRemote, TransactionRemote, OutsideRemote DEF Ended, vars, transactionVars,
  handlerVars, world, RemoteKnown, RemoteStep, Next, Gix

\* A rollback is reported last, and only where nothing was published.
RolledBackByRollback == outcome = "rolledBack" => pc = "done" /\ ~published

\* An invocation that says it was rolled back has left no trace on the remote,
\* whatever failed and whoever else was at work, unless a remote write was
\* never reported to gix.
THEOREM RolledBackIsUnpublished == Spec => []RollbackMeansUnpublished
<1>1. Init => OwnsOne /\ ReportsInOrder /\ RemoteKnown /\ RolledBackByRollback
  BY DEF Init, OwnsOne, ReportsInOrder, RemoteKnown, RolledBackByRollback, DropSteps, Finalizing
<1>2. IInv /\ OwnsOne /\ ReportsInOrder /\ RemoteKnown /\ RolledBackByRollback /\ [Next]_vars
        => OwnsOne' /\ ReportsInOrder' /\ RemoteKnown' /\ RolledBackByRollback'
  <2> SUFFICES ASSUME IInv, OwnsOne, ReportsInOrder, RemoteKnown, RolledBackByRollback, [Next]_vars
               PROVE  OwnsOne' /\ ReportsInOrder' /\ RemoteKnown' /\ RolledBackByRollback'
    OBVIOUS
  <2>1. OwnsOne' /\ ReportsInOrder' /\ ContractStep
    BY ContractKeeps DEF CInv
  <2>2. RolledBackByRollback'
    <3>1. Stage = "closed" <=> pc = "done"
      BY DEF Stage
    <3>2. Stage' = "closed" <=> pc' = "done"
      BY DEF Stage
    <3>3. QED BY ONLY <2>1, <3>1, <3>2, RolledBackByRollback DEF RolledBackByRollback, ContractStep,
      Contract!Next, Contract!vars, Contract!held, Contract!Protect, Contract!Own, Contract!Publish,
      Contract!LoseOwnership, Contract!Repay, Contract!Settle, Contract!Release, Contract!FailWork,
      Contract!HandOver, Contract!Undo, Contract!Freeze, Contract!Succeed, Contract!Undone, Contract!UndoFails,
      Contract!Close
  <2> QED BY <2>1, <2>2, RemoteIsKnown
<1>3. ReportsInOrder /\ RemoteKnown /\ RolledBackByRollback => RollbackMeansUnpublished
  BY DEF RemoteKnown, RolledBackByRollback, RollbackMeansUnpublished
<1> QED
  BY <1>1, <1>2, <1>3, Invariance, PTL DEF Spec

----------------------------------------
\* What a rollback restores: the account

\* What a run may start from when no one else is at work: a repository in
\* which no merge is under way, a branch is checked out once and exists, and
\* the stashes are the operator's.
Settled(g) ==
    /\ Caller \in g.trees
    /\ g.unmerged = {}
    /\ \A w \in g.trees : g.head[w] # None => Exists(g.refs, g.head[w])
    /\ \A v, w \in g.trees : v # w /\ g.head[v] = g.head[w] => g.head[v] = None
    /\ \A i \in DOMAIN g.stashes : g.stashes[i].use = "operator"

Alone == Outsiders = {} /\ \A i \in Invocations : Settled(i.git)

\* The branches: what is not in the journal is where it was, and the journal
\* knows where the others were.
RefsKnown ==
    \A b \in Branches :
        IF journal[b] = None THEN git.refs[b] = start.refs[b]
        ELSE journal[b].initial = start.refs[b]

Elsewhere == Worktrees \ {Caller}

\* The checkouts: only the caller's and those of adopted siblings change; a
\* branch is checked out once, and the one of a sibling that is not adopted is
\* where it was.
OwnPlace(w) == git.head[w] = start.head[w] /\ git.at[w] = start.at[w]

PlacesKnown ==
    /\ Caller \in git.trees /\ Caller \in start.trees
    /\ \A w \in Elsewhere \ AdoptedTrees :
         /\ OwnPlace(w)
         /\ w \in git.trees <=> w \in start.trees
         /\ w \in git.trees /\ git.head[w] # None => git.refs[git.head[w]] = start.refs[git.head[w]]
    /\ \A w \in AdoptedTrees \ git.trees : git.head[w] = None
    /\ \A v, w \in git.trees : v # w /\ git.head[v] = git.head[w] => git.head[v] = None
    /\ phase \in {"begin", "forward"} =>
         \A w \in git.trees : git.head[w] # None => git.refs[git.head[w]] # None

Backup(w) == [tree |-> w, edits |-> start.work[w], use |-> "snapshot"]

\* The records: of each worktree one snapshot, of what was there first.
RecordsRight ==
    /\ \A i \in DOMAIN snapshots :
         LET s == snapshots[i]
         IN /\ s.listed = Listed(start, s.tree)
            /\ IF s.backup = None THEN start.work[s.tree] = {} ELSE s.backup = Backup(s.tree)
            /\ \A j \in DOMAIN snapshots : snapshots[j].tree = s.tree => i = j
    /\ \A i \in DOMAIN adopted :
         /\ adopted[i].tree \in (start.trees \ {Caller}) \cap mutated
         /\ adopted[i].tree \in SnapshotTrees
         /\ adopted[i].listed = Listed(start, adopted[i].tree)
         /\ \A j \in DOMAIN adopted : adopted[j].tree = adopted[i].tree => i = j

\* A capture under way: its worktree is not recorded yet, and is a sibling's
\* once the run has begun.
CaptureRight ==
    /\ pc \in CaptureSteps \cup {"protected"} =>
         /\ capture.tree \notin AdoptedTrees => capture.listed = Listed(start, capture.tree)
         /\ phase = "forward" => capture.tree \in start.trees \ {Caller}
    /\ pc \in CaptureSteps => capture.tree \notin SnapshotTrees /\ capture.tree \notin mutated
    /\ pc \in {"snapshotRef", "snapshotApply"} => git.work[capture.tree] = {}
    /\ pc = "snapshotRef" =>
         git.stashes # <<>> /\ Head(git.stashes) = Backup(capture.tree)
    /\ pc = "snapshotApply" => capture.backup = Backup(capture.tree)

\* Between the stash of a capture and its application.
Held(w) == pc \in {"snapshotRef", "snapshotApply"} /\ capture.tree = w

\* Where no capture is begun any more.
Ending == pc \in {"cleanup", "done"} \/ phase \notin {"begin", "forward"}

\* The edits of a worktree that is not mutated are in it, unless a capture has
\* them, or one has lost them.
WorkKnown ==
    \A w \in Worktrees \ mutated :
        Held(w) \/ git.work[w] = start.work[w] \/ (Ending /\ Unclaimed(w))

\* As long as no command ran in the caller's worktree, nothing has moved.
CallerKnown ==
    Caller \notin mutated => git.refs = start.refs /\ OwnPlace(Caller)

\* The commands: the caller's own, or those that release a sibling.
CommandRight ==
    /\ switching # None => Caller \in mutated
    /\ pc = "generate" => cmd.tree = Caller
    /\ pc = "command" => cmd.refs = MutatedReferences(cmd) /\ cmd.refs \subseteq Journaled
    /\ pc \in CommandSteps \cup {"generate"} =>
         /\ cmd.kind # "push" => cmd.tree \in mutated
         /\ IF cmd.tree = Caller THEN cmd.kind \notin {"detach", "remove"}
            ELSE cmd.tree \in AdoptedTrees /\ cmd.kind \in {"commit", "detach", "remove"}
         /\ cmd.kind # "push" => Caller \in mutated
    /\ pc \in CommandSteps /\ cmd.then = "leave" => capture.tree \in AdoptedTrees
    /\ pc \in {"save", "leave"} => capture.tree \in AdoptedTrees

UnmergedKnown ==
    git.unmerged \subseteq (IF Caller \in mutated THEN {Caller} ELSE {})

\* The stash list: of each worktree at most one backup, of a captured worktree.
StashesKnown ==
    \A i \in DOMAIN git.stashes :
        git.stashes[i].use = "snapshot" =>
            /\ git.stashes[i] = Backup(git.stashes[i].tree)
            /\ \/ git.stashes[i].tree \in SnapshotTrees
               \/ Held(git.stashes[i].tree)
               \/ Ending
            /\ \A j \in DOMAIN git.stashes :
                 git.stashes[j] = git.stashes[i] => i = j

\* A backup that has been dropped is gone.
DroppedGone ==
    \A i \in DOMAIN snapshots :
        snapshots[i].backup # None /\ snapshots[i].dropped
            => StashIndexes(git, snapshots[i].backup) = {}

OwnUses == {"invocation", "isolation"}

\* What is dropped: an owned stash, or the backup of a snapshot.
DropsRight ==
    /\ \A e \in owned : e.use \in OwnUses
    /\ pc \in CommandSteps /\ cmd.then \in {"ownInvocation", "ownIsolation"} => cmd.kind = "stash"
    /\ pc = "complete" => cmd.kind # "stash"
    /\ pc \in {"ownInvocation", "ownIsolation"} /\ git.stashes # <<>> =>
         Head(git.stashes).use \in OwnUses
    /\ pc \in DropSteps =>
         IF dropping.slot = 0 THEN dropping.entry.use \in OwnUses
         ELSE dropping.entry = snapshots[dropping.slot].backup /\ dropping.entry # None
    /\ pc = "drop" /\ dropping.index \in DOMAIN git.stashes =>
         git.stashes[dropping.index] = dropping.entry

AtPlace(w) == w \in git.trees /\ git.head[w] = start.head[w]

\* How far a rollback has come.
AfterCheckout == {"refs", "ref", "topology", "contents", "backup", "release", "list", "drop", "finalize"}
AfterRefs == {"topology", "contents", "backup", "release", "list", "drop", "finalize"}
AfterTopology == {"contents", "backup", "release", "list", "drop", "finalize"}
AfterContents == {"release", "list", "drop", "finalize"}
Succeeded == pc = "done" /\ outcome = "rolledBack"
Past(steps) == Restoring /\ (pc \in steps \/ Succeeded)

RollbackComes ==
    /\ outcome = "rolledBack" => Restoring /\ pc = "done" /\ Undropped = {}
    /\ pc = "clear" => seen.trees[Caller] = Listed(git, Caller)
    /\ pc = "checkout" => seen.trees[Caller].head = git.head[Caller]
    /\ pc = "checkout" => seen.trees[Caller].commit = Tip(git, Caller)
    /\ pc = "checkout" => git.unmerged = {}
    /\ Past(AfterCheckout) => git.unmerged = {} /\ git.head[Caller] = start.head[Caller]
    /\ pc = "ref" =>
         \A b \in Branches : IF b \in pending THEN seen.refs[b] = git.refs[b]
                             ELSE git.refs[b] = start.refs[b]
    /\ Past(AfterRefs) => git.refs = start.refs
    /\ pc = "topology" =>
         \A j \in DOMAIN adopted :
            IF j < cursor THEN AtPlace(adopted[j].tree)
            ELSE seen.trees[adopted[j].tree] =
                   (IF adopted[j].tree \in git.trees THEN Listed(git, adopted[j].tree) ELSE None)
    /\ Past(AfterTopology) => git.head = start.head /\ git.trees = start.trees
    /\ pc \in {"topology", "contents", "backup"} => cursor # 0
    /\ pc \in {"contents", "backup"} =>
         \A j \in DOMAIN snapshots :
            j < cursor /\ snapshots[j].tree \in mutated =>
                git.work[snapshots[j].tree] = start.work[snapshots[j].tree]
    /\ pc = "backup" => git.work[snapshots[cursor].tree] = {}
    /\ Past(AfterContents) => \A w \in mutated : git.work[w] = start.work[w]


Laid == RefsKnown /\ PlacesKnown /\ RecordsRight /\ CallerKnown /\ UnmergedKnown

Kept == WorkKnown /\ StashesKnown /\ DroppedGone

Framed == CaptureRight /\ CommandRight /\ DropsRight

Accounted == Laid /\ Kept /\ Framed /\ RollbackComes

\* What a command does that moves the tip of a checkout, and nothing else that
\* a rollback restores but its edits and its conflicts.
TipMoves(g, h, w) ==
    /\ h.head = g.head /\ h.trees = g.trees /\ h.stashes = g.stashes
    /\ \A v \in Worktrees \ {w} : h.work[v] = g.work[v] /\ h.at[v] = g.at[v]
    /\ \A b \in Branches :
         IF b = g.head[w] THEN h.refs[b] # None ELSE h.refs[b] = g.refs[b]
    /\ g.head[w] # None => h.at[w] = g.at[w]
    /\ h.unmerged \subseteq g.unmerged

\* The fields of a repository whose tip was moved.
LEMMA MoveTipFields ==
    ASSUME NEW g \in RepositoryType, NEW w \in Worktrees, NEW c \in Commits
    PROVE  /\ TipMoves(g, MoveTip(g, w, c), w)
           /\ MoveTip(g, w, c).work = g.work /\ MoveTip(g, w, c).unmerged = g.unmerged
           /\ g.head[w] # None => MoveTip(g, w, c).refs = [g.refs EXCEPT ![g.head[w]] = c]
           /\ g.head[w] = None => MoveTip(g, w, c).refs = g.refs
BY NoneAssumption, RepositoryFields DEF Commits, MoveTip, TipMoves, RepositoryType

\* git commit, git merge and git reset --hard move a tip.
LEMMA CommitFields ==
    ASSUME NEW g \in RepositoryType, NEW w \in Worktrees, NEW edits \in SUBSET Tokens,
           Tip(g, w) # None
    PROVE  TipMoves(g, CommitEdits(g, w, edits), w)
<1> DEFINE m == MoveTip(g, w, Tip(g, w) \cup edits)
<1>1. Tip(g, w) \cup edits \in Commits
  BY TipType DEF Commits
<1>2. m \in RepositoryType /\ TipMoves(g, m, w)
  BY <1>1, MoveTipType, MoveTipFields
<1>3. CommitEdits(g, w, edits) = [m EXCEPT !.work[w] = m.work[w] \ edits]
  BY DEF CommitEdits
<1> HIDE DEF m
<1>4. QED BY <1>2, <1>3, RepositoryFields DEF TipMoves, RepositoryType

\* So does a merge, which ends the conflicts of its worktree.
LEMMA MergeFields ==
    ASSUME NEW g \in RepositoryType, NEW w \in Worktrees, NEW c \in Commits,
           Tip(g, w) # None
    PROVE  TipMoves(g, MergeCommit(g, w, c), w)
<1> DEFINE m == MoveTip(g, w, Tip(g, w) \cup c)
<1>1. Tip(g, w) \cup c \in Commits
  BY TipType DEF Commits
<1>2. m \in RepositoryType /\ TipMoves(g, m, w)
  BY <1>1, MoveTipType, MoveTipFields
<1>3. MergeCommit(g, w, c) = [m EXCEPT !.unmerged = m.unmerged \ {w}]
  BY DEF MergeCommit
<1> HIDE DEF m
<1>4. QED BY <1>2, <1>3, RepositoryFields DEF TipMoves, RepositoryType

\* And a hard reset, which also clears the worktree.
LEMMA ResetFields ==
    ASSUME NEW g \in RepositoryType, NEW w \in Worktrees, NEW c \in Commits
    PROVE  /\ TipMoves(g, ResetHard(g, w, c), w)
           /\ ResetHard(g, w, c).work[w] = {}
           /\ ResetHard(g, w, c).unmerged = g.unmerged \ {w}
           /\ g.head[w] # None => ResetHard(g, w, c).refs = [g.refs EXCEPT ![g.head[w]] = c]
           /\ g.head[w] = None => ResetHard(g, w, c).refs = g.refs
<1> DEFINE m == MoveTip(g, w, c)
<1>2. /\ m \in RepositoryType /\ TipMoves(g, m, w) /\ m.unmerged = g.unmerged
      /\ g.head[w] # None => m.refs = [g.refs EXCEPT ![g.head[w]] = c]
      /\ g.head[w] = None => m.refs = g.refs
  BY MoveTipType, MoveTipFields
<1>3. ResetHard(g, w, c) = [m EXCEPT !.work[w] = {}, !.unmerged = m.unmerged \ {w}]
  BY DEF ResetHard
<1> HIDE DEF m
<1>4. /\ ResetHard(g, w, c).refs = m.refs /\ ResetHard(g, w, c).head = m.head
      /\ ResetHard(g, w, c).at = m.at /\ ResetHard(g, w, c).trees = m.trees
      /\ ResetHard(g, w, c).stashes = m.stashes
      /\ ResetHard(g, w, c).work = [m.work EXCEPT ![w] = {}]
      /\ ResetHard(g, w, c).unmerged = m.unmerged \ {w}
  BY <1>2, <1>3 DEF RepositoryType
<1>5. m.work \in [Worktrees -> SUBSET Tokens]
  BY <1>2, RepositoryFields
<1>6. QED BY <1>2, <1>4, <1>5 DEF TipMoves

\* A checkout goes to another branch or commit.
HeadMoves(g, h, w) ==
    /\ h.refs = g.refs /\ h.trees = g.trees /\ h.work = g.work
    /\ h.unmerged = g.unmerged /\ h.stashes = g.stashes
    /\ \A v \in Worktrees \ {w} : h.head[v] = g.head[v] /\ h.at[v] = g.at[v]

\* A switch goes to the branch it names.
LEMMA SwitchFields ==
    ASSUME NEW g \in RepositoryType, NEW w \in Worktrees, NEW b \in Branches
    PROVE  HeadMoves(g, SwitchTo(g, w, b), w) /\ SwitchTo(g, w, b).head[w] = b
BY RepositoryFields DEF HeadMoves, SwitchTo, RepositoryType

\* A detached checkout holds no branch.
LEMMA DetachFields ==
    ASSUME NEW g \in RepositoryType, NEW w \in Worktrees, NEW c \in Commits
    PROVE  HeadMoves(g, DetachAt(g, w, c), w) /\ DetachAt(g, w, c).head[w] = None
BY RepositoryFields DEF HeadMoves, DetachAt, RepositoryType

\* A checkout is restored by one or the other.
LEMMA RestoredFields ==
    ASSUME NEW g \in RepositoryType, NEW w \in Worktrees, NEW listed \in ListedCheckouts,
           listed.head = None => listed.commit # None
    PROVE  HeadMoves(g, Restored(g, w, listed), w) /\ Restored(g, w, listed).head[w] = listed.head
BY DetachFields, SwitchFields DEF ListedCheckouts, Restored

\* A removed worktree holds no branch and is in the list no more.
LEMMA RemoveFields ==
    ASSUME NEW g \in RepositoryType, NEW w \in Worktrees
    PROVE  LET h == RemoveTree(g, w)
           IN /\ h.refs = g.refs /\ h.trees = g.trees \ {w} /\ h.work = g.work
              /\ h.unmerged = g.unmerged /\ h.stashes = g.stashes /\ h.head[w] = None
              /\ \A v \in Worktrees \ {w} : h.head[v] = g.head[v] /\ h.at[v] = g.at[v]
<1> DEFINE m == DetachAt(g, w, {})
<1>1. m \in RepositoryType /\ HeadMoves(g, m, w) /\ m.head[w] = None
  BY DetachAtType, DetachFields, NoCommit
<1>2. RemoveTree(g, w) = [m EXCEPT !.trees = m.trees \ {w}]
  BY DEF RemoveTree
<1> HIDE DEF m
<1>3. QED BY <1>1, <1>2 DEF HeadMoves, RepositoryType

\* One that is added again is at the place it was listed at, and clean.
LEMMA AddFields ==
    ASSUME NEW g \in RepositoryType, NEW w \in Worktrees, NEW listed \in ListedCheckouts,
           listed.head = None => listed.commit # None
    PROVE  LET h == AddTree(g, w, listed)
           IN /\ h.refs = g.refs /\ h.trees = g.trees \cup {w} /\ h.head[w] = listed.head
              /\ h.unmerged = g.unmerged /\ h.stashes = g.stashes
              /\ \A v \in Worktrees \ {w} :
                   h.head[v] = g.head[v] /\ h.at[v] = g.at[v] /\ h.work[v] = g.work[v]
<1> DEFINE m == [g EXCEPT !.trees = @ \cup {w}, !.work[w] = {}]
<1>1. /\ m \in RepositoryType /\ m.refs = g.refs /\ m.head = g.head /\ m.at = g.at
      /\ m.trees = g.trees \cup {w} /\ m.unmerged = g.unmerged /\ m.stashes = g.stashes
      /\ \A v \in Worktrees \ {w} : m.work[v] = g.work[v]
  BY DEF RepositoryType
<1>2. AddTree(g, w, listed) = Restored(m, w, listed)
  BY DEF AddTree
<1> HIDE DEF m
<1>3. HeadMoves(m, Restored(m, w, listed), w) /\ Restored(m, w, listed).head[w] = listed.head
  BY <1>1, RestoredFields
<1>4. QED BY <1>1, <1>2, <1>3 DEF HeadMoves

\* What a stash, its application and its drop change.
LEMMA StashFields ==
    ASSUME NEW g \in RepositoryType, NEW w \in Worktrees, NEW use \in StashUses
    PROVE  LET h == PushStash(g, w, use)
               e == [tree |-> w, edits |-> g.work[w], use |-> use]
           IN /\ h.refs = g.refs /\ h.trees = g.trees /\ h.head = g.head /\ h.at = g.at
              /\ h.unmerged = g.unmerged /\ h.work = [g.work EXCEPT ![w] = {}]
              /\ e \in Entries /\ h.stashes = <<e>> \o g.stashes
BY RepositoryFields DEF PushStash, RepositoryType, Entries

\* An applied stash adds its edits.
LEMMA ApplyFields ==
    ASSUME NEW g \in RepositoryType, NEW w \in Worktrees, NEW e \in Entries
    PROVE  LET h == ApplyStash(g, w, e)
           IN /\ h.refs = g.refs /\ h.trees = g.trees /\ h.head = g.head /\ h.at = g.at
              /\ h.unmerged = g.unmerged /\ h.stashes = g.stashes
              /\ h.work = [g.work EXCEPT ![w] = g.work[w] \cup e.edits]
BY RepositoryFields DEF ApplyStash, RepositoryType

\* An entry is put in front.
LEMMA InFront ==
    ASSUME NEW s \in Seq(Entries), NEW e \in Entries
    PROVE  LET t == <<e>> \o s
           IN /\ t \in Seq(Entries) /\ t # <<>> /\ Head(t) = e
              /\ DOMAIN t = 1 .. Len(s) + 1 /\ t[1] = e
              /\ \A i \in 1 .. Len(s) : t[i + 1] = s[i]
              /\ \A i \in DOMAIN t : i # 1 => i - 1 \in DOMAIN s /\ t[i] = s[i - 1]
OBVIOUS

\* One is taken out: the others are there, in the same order.
LEMMA TakenOut ==
    ASSUME NEW g \in RepositoryType, NEW i \in DOMAIN g.stashes
    PROVE  LET h == DropStashAt(g, i)
               old(j) == IF j < i THEN j ELSE j + 1
           IN /\ h.refs = g.refs /\ h.trees = g.trees /\ h.head = g.head /\ h.at = g.at
              /\ h.unmerged = g.unmerged /\ h.work = g.work
              /\ \A j \in DOMAIN h.stashes :
                   old(j) \in DOMAIN g.stashes \ {i} /\ h.stashes[j] = g.stashes[old(j)]
              /\ \A j \in DOMAIN g.stashes \ {i} :
                   \E k \in DOMAIN h.stashes : h.stashes[k] = g.stashes[j]
<1> DEFINE s == g.stashes
           t == RemoveAt(s, i)
<1>1. s \in Seq(Entries) /\ i \in 1..Len(s) /\ Len(s) \in Nat
  BY RepositoryFields
<1>2. DropStashAt(g, i) = [g EXCEPT !.stashes = t]
  BY DEF DropStashAt
<1>3. t = SubSeq(s, 1, i - 1) \o SubSeq(s, i + 1, Len(s))
  BY DEF RemoveAt
<1> HIDE DEF s, t
<1>4. /\ Len(SubSeq(s, 1, i - 1)) = i - 1 /\ Len(SubSeq(s, i + 1, Len(s))) = Len(s) - i
      /\ SubSeq(s, 1, i - 1) \in Seq(Entries) /\ SubSeq(s, i + 1, Len(s)) \in Seq(Entries)
      /\ \A j \in 1 .. i - 1 : SubSeq(s, 1, i - 1)[j] = s[j]
      /\ \A j \in 1 .. Len(s) - i : SubSeq(s, i + 1, Len(s))[j] = s[i + j]
  BY <1>1
<1>5. /\ DOMAIN t = 1 .. Len(s) - 1
      /\ \A j \in 1 .. Len(s) - 1 : t[j] = IF j < i THEN s[j] ELSE s[j + 1]
  <2> DEFINE u == SubSeq(s, 1, i - 1)
             v == SubSeq(s, i + 1, Len(s))
  <2>1. /\ u \in Seq(Entries) /\ v \in Seq(Entries) /\ t = u \o v
        /\ Len(u) = i - 1 /\ Len(v) = Len(s) - i
        /\ \A j \in 1 .. i - 1 : u[j] = s[j]
        /\ \A j \in 1 .. Len(s) - i : v[j] = s[i + j]
    BY <1>3, <1>4
  <2> HIDE DEF u, v
  <2>2. /\ DOMAIN t = 1 .. Len(u) + Len(v)
        /\ \A j \in 1 .. Len(u) + Len(v) : t[j] = IF j <= Len(u) THEN u[j] ELSE v[j - Len(u)]
    BY <2>1
  <2>3. Len(u) + Len(v) = Len(s) - 1
    BY <1>1, <2>1
  <2>4. ASSUME NEW j \in 1 .. Len(s) - 1 PROVE t[j] = IF j < i THEN s[j] ELSE s[j + 1]
    <3>1. CASE j < i
      BY <1>1, <2>1, <2>2, <2>3, <3>1
    <3>2. CASE ~(j < i)
      <4>1. j - (i - 1) \in 1 .. Len(s) - i /\ ~(j <= Len(u))
        BY <1>1, <2>1, <3>2
      <4>2. t[j] = v[j - (i - 1)] /\ v[j - (i - 1)] = s[i + (j - (i - 1))]
        BY <2>1, <2>2, <2>3, <4>1
      <4>3. i + (j - (i - 1)) = j + 1
        BY <1>1
      <4>4. QED BY <3>2, <4>2, <4>3
    <3>3. QED BY <3>1, <3>2
  <2>5. QED BY <2>2, <2>3, <2>4
<1>6. \A j \in 1 .. Len(s) : j # i => \E k \in 1 .. Len(s) - 1 : t[k] = s[j]
  <2> SUFFICES ASSUME NEW j \in 1 .. Len(s), j # i
               PROVE  \E k \in 1 .. Len(s) - 1 : t[k] = s[j]
    OBVIOUS
  <2>1. CASE j < i
    BY <1>1, <1>5, <2>1
  <2>2. CASE j > i
    <3>1. j - 1 \in 1 .. Len(s) - 1 /\ t[j - 1] = s[j]
      BY <1>1, <1>5, <2>2
    <3>2. QED BY <3>1
  <2>3. QED BY <1>1, <2>1, <2>2
<1>7. DropStashAt(g, i).stashes = t
  BY <1>2 DEF RepositoryType
<1>8. LET h == DropStashAt(g, i)
      IN /\ h.refs = g.refs /\ h.trees = g.trees /\ h.head = g.head /\ h.at = g.at
         /\ h.unmerged = g.unmerged /\ h.work = g.work
  BY <1>2 DEF RepositoryType
<1>9. DOMAIN s = 1 .. Len(s)
  BY <1>1
<1>10. \A j \in DOMAIN t : /\ (IF j < i THEN j ELSE j + 1) \in DOMAIN s \ {i}
                           /\ t[j] = s[IF j < i THEN j ELSE j + 1]
  BY <1>1, <1>5, <1>9
<1>11. QED BY <1>5, <1>6, <1>7, <1>8, <1>9, <1>10 DEF s

----------------------------------------
\* The account: branches and checkouts

\* What the account of branches and checkouts is about.
SamePlaces ==
    /\ git'.refs = git.refs /\ git'.head = git.head /\ git'.at = git.at
    /\ git'.trees = git.trees /\ git'.unmerged = git.unmerged

SameRecords == UNCHANGED <<start, snapshots, adopted>>

\* Claims are only added.
Claims ==
    /\ mutated \subseteq mutated'
    /\ journal' = journal \/ \E refs \in SUBSET Branches : journal' = Journal(refs)

\* A handler's step stays in its phase.
Onward == phase' \in {"begin", "forward"} => phase \in {"begin", "forward"}

\* The journal keeps what it has, and enters where a branch started.
LEMMA JournalGrows ==
    ASSUME IInv, Claims
    PROVE  /\ Journaled \subseteq Journaled'
           /\ \A b \in Branches : IF journal[b] # None THEN journal'[b] = journal[b]
                                  ELSE journal'[b] = None \/ journal'[b].initial = start.refs[b]
BY DEF Journaled, Journal, Claims

\* A branch that did not move is as known as it was.
LEMMA RefsStayKnown ==
    ASSUME IInv, RefsKnown, Claims, UNCHANGED start,
           \A b \in Branches : journal'[b] = None => git'.refs[b] = git.refs[b]
    PROVE  RefsKnown'
BY JournalGrows DEF RefsKnown

\* What is adopted is a worktree.
LEMMA AdoptedWorktrees ==
    ASSUME IInv PROVE AdoptedTrees \subseteq Worktrees
<1>1. \A i \in DOMAIN adopted : adopted[i] \in Adoptions
  BY TransactionFacts
<1>2. QED BY <1>1 DEF AdoptedTrees, Adoptions

\* A claim does not disturb the records.
LEMMA RecordsStay ==
    ASSUME RecordsRight, SameRecords, mutated \subseteq mutated'
    PROVE  RecordsRight'
BY DEF RecordsRight, SameRecords, SnapshotTrees, Backup, Listed, Tip

\* A step that moves nothing.
LEMMA ClaimLaid ==
    ASSUME IInv, Laid, SamePlaces, SameRecords, Claims, Onward
    PROVE  Laid'
BY RefsStayKnown, RecordsStay DEF Laid, SamePlaces, SameRecords, Onward, PlacesKnown, OwnPlace, AdoptedTrees,
  Claims, CallerKnown, UnmergedKnown

\* A commit, a merge or a reset in a worktree that was claimed with its branch.
LEMMA TipLaid ==
    ASSUME IInv, Laid, SameRecords, UNCHANGED <<journal, mutated>>, Onward,
           NEW w \in Worktrees, TipMoves(git, git', w), Caller \in mutated,
           w = Caller \/ w \in AdoptedTrees,
           git.head[w] # None => git.head[w] \in Journaled
    PROVE  Laid'
<1>1. /\ git'.head = git.head /\ git'.trees = git.trees
      /\ \A v \in Worktrees \ {w} : git'.at[v] = git.at[v]
      /\ \A b \in Branches : IF b = git.head[w] THEN git'.refs[b] # None
                             ELSE git'.refs[b] = git.refs[b]
      /\ git'.unmerged \subseteq git.unmerged
  BY DEF TipMoves
<1>2. Claims
  BY DEF Claims
<1>3. RefsKnown'
  BY NoneAssumption, <1>1, <1>2, RefsStayKnown DEF Journaled, Laid, SameRecords
<1>4. AdoptedTrees' = AdoptedTrees
  BY DEF SameRecords, AdoptedTrees
<1>5. git.head \in [Worktrees -> {None} \cup Branches]
  BY TransactionFacts, RepositoryFields
<1>6. ASSUME NEW v \in Elsewhere \ AdoptedTrees
      PROVE  /\ OwnPlace(v)' /\ (v \in git'.trees <=> v \in start.trees)
             /\ v \in git'.trees /\ git'.head[v] # None => git'.refs[git'.head[v]] = start.refs[git'.head[v]]
  BY <1>6, <1>1, <1>5 DEF Elsewhere, Laid, PlacesKnown, OwnPlace, SameRecords
<1>7. PlacesKnown'
  BY <1>1, <1>4, <1>5, <1>6, TransactionFacts, RepositoryFields DEF Laid, PlacesKnown, Onward, SameRecords
<1>8. RecordsRight'
  BY RecordsStay DEF Laid
<1>9. CallerKnown' /\ UnmergedKnown'
  BY <1>1 DEF Laid, CallerKnown, UnmergedKnown
<1>10. QED BY <1>3, <1>7, <1>8, <1>9 DEF Laid

\* The caller goes to a branch that nobody else has, created for it if need be.
LEMMA SwitchLaid ==
    ASSUME IInv, Laid, SameRecords, UNCHANGED <<journal, mutated>>, Onward, Caller \in mutated,
           NEW b \in Branches, git'.head[Caller] = b, git'.refs[b] # None,
           git'.trees = git.trees, git'.unmerged = git.unmerged,
           \A v \in Worktrees \ {Caller} : git'.head[v] = git.head[v] /\ git'.at[v] = git.at[v],
           \A c \in Branches : c # b => git'.refs[c] = git.refs[c],
           git'.refs[b] = git.refs[b] \/ (git.refs[b] = None /\ b \in Journaled),
           \A v \in git.trees : v # Caller => git.head[v] # b,
           phase \in {"begin", "forward"}
    PROVE  Laid'
<1>2. Claims
  BY DEF Claims
<1>3. RefsKnown'
  BY <1>2, RefsStayKnown DEF Laid, SameRecords, Journaled
<1>4. AdoptedTrees' = AdoptedTrees
  BY DEF SameRecords, AdoptedTrees
<1>5. git.head \in [Worktrees -> {None} \cup Branches] /\ git.trees \subseteq Worktrees
  BY TransactionFacts, RepositoryFields
<1>6. ASSUME NEW v \in Elsewhere \ AdoptedTrees
      PROVE  /\ OwnPlace(v)' /\ (v \in git'.trees <=> v \in start.trees)
             /\ v \in git'.trees /\ git'.head[v] # None => git'.refs[git'.head[v]] = start.refs[git'.head[v]]
  BY <1>6, <1>5 DEF Elsewhere, Laid, PlacesKnown, OwnPlace, SameRecords
<1>7. PlacesKnown'
  BY AdoptedWorktrees, <1>4, <1>5, <1>6 DEF Laid, PlacesKnown, SameRecords
<1>8. RecordsRight'
  BY RecordsStay DEF Laid
<1>9. CallerKnown' /\ UnmergedKnown'
  BY DEF Laid, CallerKnown, UnmergedKnown
<1>10. QED BY <1>3, <1>7, <1>8, <1>9 DEF Laid

\* An adopted sibling lets go of its branch, and may be removed.
LEMMA ReleaseLaid ==
    ASSUME IInv, Laid, SameRecords, UNCHANGED <<journal, mutated>>, Onward, Caller \in mutated,
           NEW w \in AdoptedTrees \ {Caller}, git'.head[w] = None,
           git'.refs = git.refs, git'.trees \in {git.trees, git.trees \ {w}},
           git'.unmerged = git.unmerged,
           \A v \in Worktrees \ {w} : git'.head[v] = git.head[v] /\ git'.at[v] = git.at[v]
    PROVE  Laid'
<1>2. Claims
  BY DEF Claims
<1>3. RefsKnown'
  BY <1>2, RefsStayKnown DEF Laid, SameRecords
<1>4. AdoptedTrees' = AdoptedTrees
  BY DEF SameRecords, AdoptedTrees
<1>5. git.head \in [Worktrees -> {None} \cup Branches] /\ git.trees \subseteq Worktrees
  BY TransactionFacts, RepositoryFields
<1>6. ASSUME NEW v \in Elsewhere \ AdoptedTrees
      PROVE  /\ OwnPlace(v)' /\ (v \in git'.trees <=> v \in start.trees)
             /\ v \in git'.trees /\ git'.head[v] # None => git'.refs[git'.head[v]] = start.refs[git'.head[v]]
  BY <1>6, <1>5 DEF Elsewhere, Laid, PlacesKnown, OwnPlace, SameRecords
<1>7. PlacesKnown'
  BY AdoptedWorktrees, <1>4, <1>5, <1>6 DEF Laid, PlacesKnown, SameRecords, Onward
<1>8. RecordsRight'
  BY RecordsStay DEF Laid
<1>9. CallerKnown' /\ UnmergedKnown'
  BY DEF Laid, CallerKnown, UnmergedKnown
<1>10. QED BY <1>3, <1>7, <1>8, <1>9 DEF Laid

\* Conflicts are the caller's.
LEMMA ConflictLaid ==
    ASSUME IInv, Laid, SameRecords, UNCHANGED <<journal, mutated>>, Onward, Caller \in mutated,
           git'.refs = git.refs, git'.head = git.head, git'.at = git.at, git'.trees = git.trees,
           git'.unmerged \subseteq git.unmerged \cup {Caller}
    PROVE  Laid'
BY RefsStayKnown, RecordsStay DEF Laid, SameRecords, Claims, Onward, PlacesKnown, OwnPlace, AdoptedTrees,
  CallerKnown, UnmergedKnown

----------------------------------------
\* The account: stashes and edits

\* No capture is between its stash and the application of it.
NothingHeld == pc \notin {"snapshotRef", "snapshotApply"}

\* The stash list is as it was, and the edits of what is not claimed.
LEMMA KeptStays ==
    ASSUME Kept, NothingHeld, UNCHANGED <<start, snapshots>>, mutated \subseteq mutated',
           git'.stashes = git.stashes,
           \A v \in Worktrees \ mutated' : git'.work[v] = git.work[v],
           Ending => Ending'
    PROVE  Kept'
BY DEF SnapshotTrees, Unclaimed, NothingHeld, Held, Kept, WorkKnown, StashesKnown, Backup, DroppedGone,
  StashIndexes

\* A stash that is no backup is put in front.
LEMMA KeptInFront ==
    ASSUME IInv, Laid, Kept, NothingHeld, UNCHANGED <<start, snapshots>>, mutated \subseteq mutated',
           NEW e \in Entries, e.use # "snapshot", git'.stashes = <<e>> \o git.stashes,
           \A v \in Worktrees \ mutated' : git'.work[v] = git.work[v],
           Ending => Ending'
    PROVE  Kept'
<1>0. git.stashes \in Seq(Entries)
  BY TransactionFacts, RepositoryFields
<1>a. /\ DOMAIN git'.stashes = 1 .. Len(git.stashes) + 1 /\ git'.stashes[1] = e
      /\ \A i \in 1 .. Len(git.stashes) : git'.stashes[i + 1] = git.stashes[i]
      /\ \A i \in DOMAIN git'.stashes :
           i # 1 => i - 1 \in DOMAIN git.stashes /\ git'.stashes[i] = git.stashes[i - 1]
  BY <1>0, InFront
<1>b. DOMAIN git.stashes = 1 .. Len(git.stashes) /\ Len(git.stashes) \in Nat
  BY <1>0
<1>1. SnapshotTrees' = SnapshotTrees
  BY DEF SnapshotTrees
<1>2. ASSUME NEW w \in Worktrees, Unclaimed(w) PROVE Unclaimed(w)'
  <2>1. PICK i \in DOMAIN git.stashes :
          git.stashes[i] = [tree |-> w, edits |-> start.work[w], use |-> "snapshot"]
    BY <1>2 DEF Unclaimed
  <2>2. i + 1 \in DOMAIN git'.stashes /\ git'.stashes[i + 1] = git.stashes[i]
    BY <1>a, <1>b, <2>1
  <2>3. QED BY <1>1, <1>2, <2>1, <2>2 DEF Unclaimed
<1>3. \A w : ~Held(w)
  BY DEF NothingHeld, Held
<1>4. WorkKnown'
  BY <1>2, <1>3 DEF Kept, WorkKnown
<1>5. StashesKnown'
  <2> SUFFICES ASSUME NEW i \in DOMAIN git'.stashes, git'.stashes[i].use = "snapshot"
               PROVE  /\ git'.stashes[i] = Backup(git'.stashes[i].tree)
                      /\ \/ git'.stashes[i].tree \in SnapshotTrees' \/ Ending'
                      /\ \A j \in DOMAIN git'.stashes : git'.stashes[j] = git'.stashes[i] => i = j
    BY DEF StashesKnown, Backup
  <2>1. i # 1 /\ i - 1 \in DOMAIN git.stashes /\ git'.stashes[i] = git.stashes[i - 1] /\ i \in Nat
    BY <1>a, <1>b
  <2>2. /\ git.stashes[i - 1] = Backup(git.stashes[i - 1].tree)
        /\ git.stashes[i - 1].tree \in SnapshotTrees \/ Ending
        /\ \A j \in DOMAIN git.stashes : git.stashes[j] = git.stashes[i - 1] => i - 1 = j
    BY <1>3, <2>1 DEF Kept, StashesKnown
  <2>3. ASSUME NEW j \in DOMAIN git'.stashes, git'.stashes[j] = git'.stashes[i] PROVE i = j
    <3>1. j # 1
      BY <1>a, <2>3
    <3>2. j - 1 \in DOMAIN git.stashes /\ git'.stashes[j] = git.stashes[j - 1] /\ j \in Nat
      BY <1>a, <1>b, <2>3, <3>1
    <3>3. i - 1 = j - 1
      BY <2>1, <2>2, <2>3, <3>2
    <3>4. QED BY <2>1, <3>2, <3>3
  <2>4. QED BY <1>1, <2>1, <2>2, <2>3 DEF Backup
<1>6. DroppedGone'
  <2> SUFFICES ASSUME NEW i \in DOMAIN snapshots, snapshots[i].backup # None, snapshots[i].dropped,
                      NEW j \in DOMAIN git'.stashes, git'.stashes[j] = snapshots[i].backup
               PROVE  FALSE
    BY DEF DroppedGone, StashIndexes
  <2>1. \A k \in DOMAIN git.stashes : git.stashes[k] # snapshots[i].backup
    BY DEF Kept, DroppedGone, StashIndexes
  <2>2. j = 1 /\ snapshots[i].backup = e
    BY <1>a, <2>1
  <2>3. e.use = "snapshot"
    <3>1. snapshots[i].backup = Backup(snapshots[i].tree)
      BY DEF Laid, RecordsRight
    <3>2. QED BY <2>2, <3>1 DEF Backup
  <2>4. QED BY <2>3
<1>7. QED BY <1>4, <1>5, <1>6 DEF Kept

\* An entry is dropped: no backup, or one of a captured worktree.  If its
\* snapshot is marked, no other entry is the same.
LEMMA KeptTakenOut ==
    ASSUME IInv, Laid, Kept, NothingHeld, UNCHANGED <<start, mutated>>,
           NEW i \in DOMAIN git.stashes, git' = DropStashAt(git, i),
           git.stashes[i].use # "snapshot" \/ git.stashes[i].tree \in SnapshotTrees,
           DOMAIN snapshots' = DOMAIN snapshots,
           \A k \in DOMAIN snapshots :
             /\ snapshots'[k].tree = snapshots[k].tree /\ snapshots'[k].backup = snapshots[k].backup
             /\ \/ snapshots'[k].dropped = snapshots[k].dropped
                \/ snapshots[k].backup = git.stashes[i],
           Ending => Ending'
    PROVE  Kept'
<1> DEFINE old(j) == IF j < i THEN j ELSE j + 1
<1>a. /\ git'.work = git.work
      /\ \A j \in DOMAIN git'.stashes :
           old(j) \in DOMAIN git.stashes \ {i} /\ git'.stashes[j] = git.stashes[old(j)]
      /\ \A j \in DOMAIN git.stashes \ {i} :
           \E k \in DOMAIN git'.stashes : git'.stashes[k] = git.stashes[j]
  BY TakenOut, TransactionFacts
<1>b. /\ git.stashes \in Seq(Entries) /\ git'.stashes \in Seq(Entries)
      /\ \A j \in DOMAIN git'.stashes : j \in Nat
      /\ i \in Nat
  BY TransactionFacts, DropStashType, RepositoryFields
<1>c. \A j, k \in Nat : old(j) = old(k) => j = k
  BY <1>b
<1> HIDE DEF old
<1>1. SnapshotTrees' = SnapshotTrees
  BY DEF SnapshotTrees
<1>2. ASSUME NEW w \in Worktrees, Unclaimed(w) PROVE Unclaimed(w)'
  <2>1. PICK j \in DOMAIN git.stashes :
          git.stashes[j] = [tree |-> w, edits |-> start.work[w], use |-> "snapshot"]
    BY <1>2 DEF Unclaimed
  <2>2. j # i
    BY <1>2, <2>1 DEF Unclaimed
  <2>3. PICK k \in DOMAIN git'.stashes : git'.stashes[k] = git.stashes[j]
    BY <1>a, <2>2
  <2>4. QED BY <1>1, <1>2, <2>1, <2>3 DEF Unclaimed
<1>3. \A w : ~Held(w)
  BY DEF NothingHeld, Held
<1>4. WorkKnown'
  BY <1>2, <1>3, <1>a DEF Kept, WorkKnown
<1>5. StashesKnown'
  <2> SUFFICES ASSUME NEW j \in DOMAIN git'.stashes, git'.stashes[j].use = "snapshot"
               PROVE  /\ git'.stashes[j] = Backup(git'.stashes[j].tree)
                      /\ \/ git'.stashes[j].tree \in SnapshotTrees' \/ Ending'
                      /\ \A k \in DOMAIN git'.stashes : git'.stashes[k] = git'.stashes[j] => j = k
    BY DEF StashesKnown, Backup
  <2>1. old(j) \in DOMAIN git.stashes /\ git'.stashes[j] = git.stashes[old(j)]
    BY <1>a
  <2>2. /\ git.stashes[old(j)] = Backup(git.stashes[old(j)].tree)
        /\ git.stashes[old(j)].tree \in SnapshotTrees \/ Ending
        /\ \A k \in DOMAIN git.stashes : git.stashes[k] = git.stashes[old(j)] => old(j) = k
    BY <1>3, <2>1 DEF Kept, StashesKnown
  <2>3. ASSUME NEW k \in DOMAIN git'.stashes, git'.stashes[k] = git'.stashes[j] PROVE j = k
    BY <1>a, <2>1, <2>2, <2>3, <1>b, <1>c
  <2>4. QED BY <1>1, <2>1, <2>2, <2>3 DEF Backup
<1>6. DroppedGone'
  <2> SUFFICES ASSUME NEW k \in DOMAIN snapshots, snapshots[k].backup # None, snapshots'[k].dropped,
                      NEW j \in DOMAIN git'.stashes, git'.stashes[j] = snapshots[k].backup
               PROVE  FALSE
    BY DEF DroppedGone, StashIndexes
  <2>1. old(j) \in DOMAIN git.stashes \ {i} /\ git.stashes[old(j)] = snapshots[k].backup
    BY <1>a
  <2>2. CASE snapshots[k].dropped
    BY <2>1, <2>2 DEF Kept, DroppedGone, StashIndexes
  <2>3. CASE snapshots[k].backup = git.stashes[i]
    <3>1. git.stashes[i].use = "snapshot"
      <4>1. snapshots[k].backup = Backup(snapshots[k].tree)
        BY DEF Laid, RecordsRight
      <4>2. QED BY <2>3, <4>1 DEF Backup
    <3>2. i = old(j)
      BY <2>1, <2>3, <3>1 DEF Kept, StashesKnown
    <3>3. QED BY <2>1, <3>2
  <2>4. QED BY <2>2, <2>3
<1>7. QED BY <1>4, <1>5, <1>6 DEF Kept

----------------------------------------
\* The account: steps of the handler

\* No rollback is under way, and none has been reported.
LEMMA NotYetBack ==
    ASSUME IInv', phase' \notin {"undo", "rollback"}, outcome' # "rolledBack"
    PROVE  RollbackComes'
BY DEF IInv, PhaseOK, Restoring, RollbackComes, RollbackSteps, Past

\* What a step of the handler leaves alone.
Steady ==
    /\ pc \in HandlerSteps \ {"cleanup"}
    /\ UNCHANGED <<start, snapshots, adopted, phase, outcome>>

\* Such a step runs in the forward phase, with no capture or rollback under way.
LEMMA SteadyFacts ==
    ASSUME CInv, Steady
    PROVE  /\ phase = "forward" /\ phase' = "forward" /\ outcome' # "rolledBack"
           /\ NothingHeld /\ ~Ending /\ Onward /\ SameRecords
BY InHandler DEF CInv, Steady, HandlerSteps, CommandSteps, Continuations, ReportsInOrder, NothingHeld, Ending,
  Onward, SameRecords

\* It owes nothing to the account of the rollback.
LEMMA SteadyAccounted ==
    ASSUME CInv, IInv', Steady, Laid', Kept', Framed' PROVE Accounted'
BY SteadyFacts, NotYetBack DEF Accounted

\* A step that goes on with what the frames hold.
LEMMA ForwardFramed ==
    ASSUME IInv, Framed, UNCHANGED <<snapshots, adopted, cmd, capture, switching, owned>>,
           mutated \subseteq mutated', pc' \in HandlerSteps \cup {"finalize"},
           pc' \notin {"command", "generate", "protected"},
           pc' \in CommandSteps => pc \in CommandSteps,
           pc' = "complete" => cmd.kind # "stash",
           pc' \in {"save", "leave"} => capture.tree \in AdoptedTrees,
           pc' \in {"ownInvocation", "ownIsolation"} /\ git'.stashes # <<>>
             => Head(git'.stashes).use \in OwnUses
    PROVE  Framed'
BY DEF AdoptedTrees, CaptureRight, CaptureSteps, HandlerSteps, CommandSteps, Continuations, Framed,
  CommandRight, DropsRight, DropSteps

\* A decision: nothing moves.
LEMMA DecisionAccounted ==
    ASSUME CInv, Accounted, IInv', Steady, SamePlaces,
           git'.stashes = git.stashes, git'.work = git.work,
           UNCHANGED <<cmd, capture, switching, owned, journal, mutated>>,
           pc' \in HandlerSteps \cup {"finalize"},
           pc' \notin {"command", "complete", "generate", "protected", "ownInvocation", "ownIsolation"},
           pc' \in CommandSteps => pc \in CommandSteps,
           pc' \in {"save", "leave"} => capture.tree \in AdoptedTrees
    PROVE  Accounted'
BY SteadyFacts, ClaimLaid, KeptStays, ForwardFramed, SteadyAccounted DEF Claims, CInv, Accounted, SameRecords,
  Steady

\* A command of the caller, or one that releases an adopted sibling.
Fit(c) ==
    /\ c.kind = "create" => c.to # None
    /\ IF c.tree = Caller THEN c.kind \notin {"detach", "remove"}
       ELSE c.tree \in AdoptedTrees /\ c.kind \in {"commit", "detach", "remove"} /\ Caller \in mutated
    /\ c.then = "leave" => capture.tree \in AdoptedTrees
    /\ c.then \in {"ownInvocation", "ownIsolation"} => c.kind = "stash"

\* It is claimed with its refs before it runs.
LEMMA PreparedAccounted ==
    ASSUME CInv, Accounted, IInv', Steady, UNCHANGED <<git, capture, owned>>,
           NEW c \in Commands, NEW refused \in {"cleanup", "abandon"}, Prepare(c, refused), Fit(c),
           refused = "abandon" => pc \in CommandSteps,
           switching' = switching \/ (c.kind = "switch" /\ c.tree = Caller)
    PROVE  Accounted'
<1> DEFINE refs == MutatedReferences(c)
<1>1. refs \subseteq Branches
  BY MutatedReferencesType DEF Fit, CInv, IInv, TypeOK, TransactionType
<1>2. /\ journal' = Journal(refs)
      /\ mutated' = IF MutatesWorktree(c.kind) THEN mutated \cup {c.tree} ELSE mutated
      /\ \/ cmd' = [c EXCEPT !.refs = refs] /\ pc' = "command"
         \/ cmd' = cmd /\ pc' = refused
  BY DEF Prepare
<1>3. Claims
  BY <1>1, <1>2 DEF Claims
<1>4. Laid'
  BY <1>3, SteadyFacts, ClaimLaid DEF CInv, Accounted, SamePlaces
<1>5. Kept'
  BY <1>3, SteadyFacts, KeptStays DEF Accounted, SameRecords, Claims
<1>6. AdoptedTrees' = AdoptedTrees
  BY DEF AdoptedTrees, Steady
<1>7. AdoptedTrees \subseteq mutated
  BY DEF Accounted, Laid, RecordsRight, AdoptedTrees
<1>8. CaptureRight'
  BY <1>2 DEF CaptureRight, CaptureSteps, HandlerSteps, CommandSteps, Continuations
<1>9. switching' # None => Caller \in mutated'
  BY <1>2 DEF Accounted, Framed, CommandRight, MutatesWorktree
<1>10. CASE cmd' = cmd /\ pc' = refused
  <2>1. CommandRight'
    BY <1>3, <1>6, <1>9, <1>10 DEF Accounted, Framed, CommandRight, CommandSteps, Claims
  <2>2. DropsRight'
    BY <1>10 DEF Accounted, Framed, DropsRight, CommandSteps, DropSteps
  <2>3. QED BY <1>4, <1>5, <1>8, <2>1, <2>2, SteadyAccounted DEF Framed
<1>11. CASE cmd' = [c EXCEPT !.refs = refs] /\ pc' = "command"
  <2>1. cmd'.kind = c.kind /\ cmd'.tree = c.tree /\ cmd'.then = c.then /\ cmd'.refs = refs /\ cmd'.to = c.to
    BY <1>11 DEF Commands
  <2> HIDE DEF refs
  <2>2. MutatedReferences(cmd)' = refs
    BY <2>1 DEF MutatedReferences, refs
  <2>3. refs \subseteq Journaled'
    BY <1>1, <1>2, JournalType, TransactionFacts DEF CInv, Journaled
  <2>4. CommandRight'
    BY <1>2, <1>6, <1>7, <1>9, <1>11, <2>1, <2>2, <2>3 DEF CommandRight, CommandSteps, MutatesWorktree, Fit
  <2>5. DropsRight'
    BY <1>11, <2>1 DEF Accounted, Framed, DropsRight, CommandSteps, DropSteps, Fit
  <2>6. QED BY <1>4, <1>5, <1>8, <2>4, <2>5, SteadyAccounted DEF Framed
<1>12. QED BY <1>2, <1>10, <1>11

\* The handler issues a command.
LEMMA IssueAccounted ==
    ASSUME CInv, Accounted, IInv', pc \in HandlerSteps \ {"cleanup"},
           NEW c \in Commands, Issue(c), Fit(c),
           switching' = switching \/ (c.kind = "switch" /\ c.tree = Caller)
    PROVE  Accounted'
BY PreparedAccounted DEF Issue, Steady, ledger

\* The repository is as it was, or only a review base differs.
LEMMA QuietAccounted ==
    ASSUME CInv, Accounted, IInv', pc \in HandlerSteps \ {"cleanup"},
           git' = git \/ \E b, base : git' = RecordReview(git, b, base),
           UNCHANGED <<start, ledger, journal, mutated, phase, outcome, frames, switching>>,
           pc' \in HandlerSteps \cup {"finalize"},
           pc' \notin {"command", "complete", "generate", "protected", "ownInvocation", "ownIsolation"},
           pc' \in CommandSteps => pc \in CommandSteps,
           pc' \in {"save", "leave"} => capture.tree \in AdoptedTrees
    PROVE  Accounted'
BY TransactionFacts, DecisionAccounted DEF CInv, SamePlaces, RecordReview, RepositoryType, Steady, ledger,
  frames

\* A command of the caller whose continuation leads nowhere special.
LEMMA CallerAccounted ==
    ASSUME CInv, Accounted, IInv', pc \in HandlerSteps \ {"cleanup"},
           NEW c \in Commands, Issue(c), c.tree = Caller, c.kind \notin {"detach", "remove"},
           c.kind = "create" => c.to # None,
           c.then # "leave", c.then \in {"ownInvocation", "ownIsolation"} => c.kind = "stash",
           switching' = switching \/ c.kind = "switch"
    PROVE  Accounted'
BY IssueAccounted DEF Fit

\* A branch is created at a commit.
LEMMA CreateAccounted ==
    ASSUME CInv, Accounted, IInv', pc \in HandlerSteps \ {"cleanup"}, NEW b \in Branches,
           NEW commit \in {None} \cup Commits,
           NEW next \in Continuations \ {"ownInvocation", "ownIsolation", "leave"},
           CreateAt(b, commit, next)
    PROVE  Accounted'
<1> DEFINE c == [Command("create", Caller, next) EXCEPT !.to = b, !.onto = commit]
<1>1. commit \in Commits /\ Issue(c) /\ switching' = switching
  BY DEF CreateAt, handlerVars
<1>2. c \in Commands /\ c.tree = Caller /\ c.to = b /\ c.kind = "create" /\ c.then = next
  BY <1>1, HandlerFacts, CommandType DEF CInv, Kinds, Command
<1> HIDE DEF c
<1>3. QED BY <1>1, <1>2, NoneAssumption, CallerAccounted

\* The caller goes to a branch, which a sibling may hold.
LEMMA SwitchingAccounted ==
    ASSUME CInv, Accounted, IInv', pc \in HandlerSteps \ {"cleanup"}, NEW b \in Branches,
           NEW next \in AfterSwitch, SwitchWithAdoption(b, next)
    PROVE  Accounted'
<1> DEFINE c == [Command("switch", Caller, next) EXCEPT !.to = b]
<1>1. Issue(c) /\ next \in Continuations \ {"ownInvocation", "ownIsolation", "leave"}
  BY DEF SwitchWithAdoption, AfterSwitch, Continuations
<1>2. c \in Commands /\ c.tree = Caller /\ c.kind = "switch" /\ c.then = next
  BY <1>1, HandlerFacts, CommandType DEF CInv, Kinds, Command
<1> HIDE DEF c
<1>3. QED BY <1>1, <1>2, CallerAccounted

\* A command that names neither branch nor commit.
LEMMA PlainAccounted ==
    ASSUME CInv, Accounted, IInv', pc \in HandlerSteps \ {"cleanup"},
           NEW kind \in Kinds \ {"create", "detach", "remove"}, NEW then \in Continuations \ {"leave"},
           then \in {"ownInvocation", "ownIsolation"} => kind = "stash",
           Issue(Command(kind, Caller, then)), UNCHANGED handlerVars
    PROVE  Accounted'
<1> DEFINE c == Command(kind, Caller, then)
<1>1. c \in Commands /\ c.tree = Caller /\ c.kind = kind /\ c.then = then
  BY HandlerFacts, CommandType DEF CInv, Command
<1>2. Issue(c) /\ switching' = switching
  BY DEF handlerVars
<1> HIDE DEF c
<1>3. QED BY <1>1, <1>2, CallerAccounted

\* A push names the branch, and mutates no worktree.
LEMMA PushAccounted ==
    ASSUME CInv, Accounted, IInv', pc \in HandlerSteps \ {"cleanup"}, NEW b \in Branches,
           NEW next \in Continuations \ {"ownInvocation", "ownIsolation", "leave"},
           Issue([Command("push", Caller, next) EXCEPT !.to = b]), UNCHANGED handlerVars
    PROVE  Accounted'
<1> DEFINE c == [Command("push", Caller, next) EXCEPT !.to = b]
<1>1. c \in Commands /\ c.tree = Caller /\ c.kind = "push" /\ c.then = next
  BY HandlerFacts, CommandType DEF CInv, Kinds, Command
<1>2. Issue(c) /\ switching' = switching
  BY DEF handlerVars
<1> HIDE DEF c
<1>3. QED BY <1>1, <1>2, CallerAccounted

\* A merge or a reset names a commit.
LEMMA OntoAccounted ==
    ASSUME CInv, Accounted, IInv', pc \in HandlerSteps \ {"cleanup"}, NEW b \in Branches,
           NEW next \in Continuations \ {"ownInvocation", "ownIsolation", "leave"},
           Merge(b, next) \/ Reset(b, next)
    PROVE  Accounted'
<1>1. PICK kind \in {"merge", "reset"} :
        Issue([Command(kind, Caller, next) EXCEPT !.onto = OriginTip(b)])
  BY DEF Merge, Reset
<1> DEFINE c == [Command(kind, Caller, next) EXCEPT !.onto = OriginTip(b)]
<1>2. OriginTip(b) \in Commits /\ switching' = switching
  BY HandlerFacts, RepositoryFields DEF CInv, Merge, Reset, Exists, OriginTip, handlerVars
<1>3. kind \in Kinds
  BY DEF Kinds
<1>4. c \in Commands /\ c.tree = Caller /\ c.kind = kind /\ c.then = next
  BY <1>2, <1>3, HandlerFacts, CommandType DEF CInv, Command
<1>5. Issue(c)
  BY <1>1
<1> HIDE DEF c
<1>6. QED BY <1>2, <1>4, <1>5, CallerAccounted

\* Status, planning and the stack of parents.
LEMMA PlanningAccounted == ASSUME CInv, Accounted, IInv', Planning PROVE Accounted'
<1> USE DEF HandlerSteps, CommandSteps, Continuations, handlerVars, plans
<1>1. CASE ClimbToOpen
  BY <1>1, HandlerFacts, PushAccounted DEF CInv, ClimbToOpen
<1>2. CASE UnwindParent
  BY <1>2, HandlerFacts, PushAccounted DEF CInv, UnwindParent, Last
<1>3. CASE ReadStatus \/ PlanDefault \/ PlanUnstacked \/ PlanMerged \/ PlanStored
  BY <1>3, QuietAccounted DEF ReadStatus, PlanDefault, PlanUnstacked, PlanMerged, PlanStored, Planned, quiet,
    claims
<1>4. CASE PlanChild \/ EnterParents \/ ClimbToDefault \/ ClimbFurther \/ ParentsReady \/ RecordReviewBase
  BY <1>4, QuietAccounted DEF PlanChild, EnterParents, ClimbToDefault, ClimbFurther, ParentsReady,
    RecordReviewBase, Planned, quiet, claims
<1>5. CASE OpenParent
  BY <1>5, QuietAccounted DEF OpenParent, OpenPullRequest, claims
<1> QED
  BY <1>1, <1>2, <1>3, <1>4, <1>5 DEF Planning

\* The entry on top is the invocation's.
LEMMA OwnStashAccounted == ASSUME CInv, Accounted, IInv', OwnStash PROVE Accounted'
<1>1. /\ pc \in {"ownInvocation", "ownIsolation"} /\ git.stashes # <<>>
      /\ owned' = owned \cup {Head(git.stashes)} /\ pc' \in {"sync", "prepare"}
      /\ UNCHANGED <<git, start, snapshots, adopted, journal, mutated, phase, outcome, cmd, capture,
                     dropping, switching>>
  BY DEF OwnStash, claims, frames
<1>2. Steady
  BY <1>1 DEF Steady, HandlerSteps, Continuations
<1>3. Laid'
  BY <1>1, <1>2, SteadyFacts, ClaimLaid DEF CInv, Accounted, SamePlaces, Claims
<1>4. Kept'
  BY <1>1, <1>2, SteadyFacts, KeptStays DEF Accounted
<1>5. AdoptedTrees' = AdoptedTrees
  BY <1>1 DEF AdoptedTrees
<1>6. CaptureRight' /\ CommandRight'
  BY <1>1, <1>5 DEF Accounted, Framed, CaptureRight, CommandRight, CaptureSteps, CommandSteps
<1>7. DropsRight'
  BY <1>1 DEF Accounted, Framed, DropsRight, DropSteps, CommandSteps
<1>8. QED BY <1>2, <1>3, <1>4, <1>6, <1>7, SteadyAccounted DEF Framed

\* It is dropped again.
LEMMA DropOwnedAccounted == ASSUME CInv, Accounted, IInv', DropOwned PROVE Accounted'
<1>1. /\ pc \in {"dropIsolation", "dropOwned"} /\ pc' = "list"
      /\ UNCHANGED <<git, start, snapshots, adopted, owned, journal, mutated, phase, outcome, cmd, capture,
                     switching>>
  BY DEF DropOwned, ledger, claims, handlerVars
<1>2. PICK entry \in owned : dropping' = Drop(entry, 0)
  BY DEF DropOwned
<1>3. Steady
  BY <1>1 DEF Steady, HandlerSteps, Continuations
<1>4. Laid'
  BY <1>1, <1>3, SteadyFacts, ClaimLaid DEF CInv, Accounted, SamePlaces, Claims
<1>5. Kept'
  BY <1>1, <1>3, SteadyFacts, KeptStays DEF Accounted
<1>6. AdoptedTrees' = AdoptedTrees
  BY <1>1 DEF AdoptedTrees
<1>7. CaptureRight' /\ CommandRight'
  BY <1>1, <1>6 DEF Accounted, Framed, CaptureRight, CommandRight, CaptureSteps, CommandSteps
<1>8. DropsRight'
  BY <1>1, <1>2 DEF Accounted, Framed, DropsRight, DropSteps, CommandSteps, Drop
<1>9. QED BY <1>3, <1>4, <1>5, <1>7, <1>8, SteadyAccounted DEF Framed

\* A cluster is staged in the caller.
LEMMA StageAccounted == ASSUME CInv, Accounted, IInv', StageCluster PROVE Accounted'
<1>1. /\ pc = "cluster" /\ pc' = "generate" /\ mutated' = mutated \cup {Caller}
      /\ UNCHANGED <<git, start, snapshots, adopted, owned, journal, phase, outcome, capture, switching>>
  BY DEF StageCluster, ledger, handlerVars
<1>2. cmd'.tree = Caller /\ cmd'.kind = "commit" /\ cmd'.then = "cluster"
  <2>1. PICK edits : cmd' = [Command("commit", Caller, "cluster") EXCEPT !.edits = edits]
    BY DEF StageCluster
  <2>2. cmd' = [kind |-> "commit", tree |-> Caller, to |-> None, onto |-> {}, edits |-> edits,
                refs |-> {}, then |-> "cluster"]
    BY <2>1, CommitCommand
  <2>3. QED BY <2>2
<1>3. Steady
  BY <1>1 DEF Steady, HandlerSteps, Continuations
<1>4. Laid'
  BY <1>1, <1>3, SteadyFacts, ClaimLaid DEF CInv, Accounted, SamePlaces, Claims
<1>5. Kept'
  BY <1>1, <1>3, SteadyFacts, KeptStays DEF Accounted
<1>6. CaptureRight' /\ CommandRight'
  BY <1>1, <1>2 DEF Accounted, Framed, CaptureRight, CommandRight, CaptureSteps, CommandSteps
<1>7. DropsRight'
  BY <1>1 DEF Accounted, Framed, DropsRight, DropSteps, CommandSteps
<1>8. QED BY <1>3, <1>4, <1>5, <1>6, <1>7, SteadyAccounted DEF Framed

\* The saving of dirty work.
LEMMA SavingAccounted == ASSUME CInv, Accounted, IInv', Saving PROVE Accounted'
<1> USE DEF HandlerSteps, CommandSteps, Continuations, handlerVars, plans
<1>1. CASE StashInvocation \/ Isolate
  BY <1>1, PlainAccounted DEF StashInvocation, Isolate, Kinds
<1>2. CASE OwnStash
  BY <1>2, OwnStashAccounted
<1>3. CASE DropOwned
  BY <1>3, DropOwnedAccounted
<1>4. CASE StageCluster
  BY <1>4, StageAccounted
<1>5. CASE PrepareExisting
  BY <1>5, HandlerFacts, SwitchingAccounted DEF CInv, PrepareExisting, AfterSwitch
<1>6. CASE PrepareNew
  BY <1>6, HandlerFacts, RepositoryFields, TipType, CreateAccounted DEF CInv, PrepareNew, OriginTip
<1>7. CASE RestoreOwned
  <2>1. PICK then \in {"dropIsolation", "dropOwned"} : Issue(Command("apply", Caller, then))
    BY <1>7 DEF RestoreOwned
  <2> QED
    BY <1>7, <2>1, PlainAccounted DEF RestoreOwned, Kinds
<1>8. CASE CommitCluster
  BY <1>8, CallerAccounted DEF CommitCluster, CInv, IInv, TypeOK, TransactionType, FrameType, FramesOK,
    Accounted, Framed, CommandRight
<1>9. CASE StashSkipped \/ Route \/ PrepareFails \/ NothingOwned
  BY <1>9, QuietAccounted DEF StashSkipped, Route, PrepareFails, NothingOwned, Skip, quiet, claims
<1>10. CASE LoseIndex \/ GenerateFails \/ ClustersSaved
  BY <1>10, QuietAccounted DEF LoseIndex, GenerateFails, ClustersSaved, quiet, claims
<1> QED
  BY <1>1, <1>2, <1>3, <1>4, <1>5, <1>6, <1>7, <1>8, <1>9, <1>10 DEF Saving

\* Bringing the branch up to date.
LEMMA SyncingAccounted == ASSUME CInv, Accounted, IInv', Syncing PROVE Accounted'
<1> USE DEF HandlerSteps, CommandSteps, Continuations, handlerVars, plans
<1>1. CASE MergeExplicit \/ ResetBase \/ AlignMerge \/ AlignReset \/ MergeBase
  BY <1>1, HandlerFacts, OntoAccounted DEF CInv, MergeExplicit, ResetBase, AlignMerge, AlignReset, MergeBase
<1>2. CASE PushExplicit
  BY <1>2, HandlerFacts, PushAccounted DEF CInv, PushExplicit, Push
<1>3. CASE Publish
  <2>1. PICK next \in {"restore", "openReview"} : Push(branch, next)
    BY <1>3 DEF Publish
  <2>2. QED BY <1>3, <2>1, HandlerFacts, PushAccounted DEF CInv, Publish, Push
<1>4. CASE SwitchToBase \/ SwitchToReview \/ ReviewLocal
  BY <1>4, HandlerFacts, SwitchingAccounted DEF CInv, SwitchToBase, SwitchToReview, ReviewLocal, AfterSwitch
<1>5. CASE TrackBase \/ ReviewNew
  BY <1>5, HandlerFacts, RepositoryFields, TipType, CreateAccounted DEF CInv, TrackBase, ReviewNew, OriginTip
<1>6. CASE ToBase \/ ToReview \/ CheckBase \/ ReviewOpen \/ ReviewMerged
  BY <1>6, QuietAccounted DEF ToBase, ToReview, CheckBase, ReviewOpen, ReviewMerged, Follow, Skip, quiet, claims
<1>7. CASE ReviewRemote \/ Align \/ FollowMerged \/ FollowEnds
  BY <1>7, QuietAccounted DEF ReviewRemote, Align, FollowMerged, FollowEnds, Skip, quiet, claims
<1>8. CASE OpenReview
  BY <1>8, QuietAccounted DEF OpenReview, OpenPullRequest, claims
<1> QED
  BY <1>1, <1>2, <1>3, <1>4, <1>5, <1>6, <1>7, <1>8 DEF Syncing

\* A sibling that is not adopted is where it was when the run began.
LEMMA UnadoptedListed ==
    ASSUME IInv, Laid, NEW w \in Elsewhere \ AdoptedTrees, w \in git.trees
    PROVE  Listed(git, w) = Listed(start, w) /\ w \in start.trees
BY DEF Laid, PlacesKnown, OwnPlace, Listed, Tip

\* A sibling is found that holds the branch.
LEMMA AdoptAccounted == ASSUME CInv, Accounted, IInv', Adopt PROVE Accounted'
<1>1. /\ pc = "adopt" /\ pc' \in {"protected", "snapshot"}
      /\ UNCHANGED <<git, start, snapshots, adopted, owned, journal, mutated, phase, outcome, cmd, dropping,
                     switching>>
  BY DEF Adopt, ledger, claims, handlerVars
<1>2. PICK w \in Siblings :
        capture' = CaptureFrame(w, Listed(git, w)) /\ (pc' = "snapshot" => w \notin SnapshotTrees)
  BY DEF Adopt
<1>3. Steady
  BY <1>1 DEF Steady, HandlerSteps, Continuations
<1>4. Laid'
  BY <1>1, <1>3, SteadyFacts, ClaimLaid DEF CInv, Accounted, SamePlaces, Claims
<1>5. Kept'
  BY <1>1, <1>3, SteadyFacts, KeptStays DEF Accounted
<1>6. w \in git.trees \ {Caller} /\ w \in Elsewhere
  BY TransactionFacts, RepositoryFields DEF CInv, Siblings, Holders, Elsewhere
<1>7. w \in start.trees /\ (w \notin AdoptedTrees => Listed(git, w) = Listed(start, w))
  BY <1>6, UnadoptedListed DEF AdoptedTrees, Accounted, Laid, RecordsRight, CInv
<1>8. AdoptedTrees' = AdoptedTrees /\ SnapshotTrees' = SnapshotTrees
  BY <1>1 DEF AdoptedTrees, SnapshotTrees
<1>9. CaptureRight'
  BY <1>1, <1>2, <1>6, <1>7, <1>8 DEF CInv, IInv, CoveredOK, CaptureRight, CaptureSteps, CaptureFrame
<1>10. CommandRight' /\ DropsRight'
  BY <1>1, <1>8 DEF Accounted, Framed, CommandRight, CommandSteps, DropsRight, DropSteps
<1>11. QED BY <1>3, <1>4, <1>5, <1>9, <1>10, SteadyAccounted DEF Framed

\* The adoption of a sibling.
LEMMA AdoptingAccounted == ASSUME CInv, Accounted, IInv', Adopting PROVE Accounted'
<1> USE DEF HandlerSteps, CommandSteps, Continuations, handlerVars, plans
<1>0. pc \in {"save", "leave"} => capture.tree \in AdoptedTrees
  BY DEF Accounted, Framed, CommandRight
<1>1. CASE Adopt
  BY <1>1, AdoptAccounted
<1>2. CASE SaveSibling
  <2> DEFINE c == [Command("commit", capture.tree, "leave") EXCEPT !.edits = git.work[capture.tree]]
  <2>1. pc = "save" /\ Issue(c) /\ switching' = switching
    BY <1>2 DEF SaveSibling
  <2>2. capture.tree \in Worktrees /\ git.work[capture.tree] \in SUBSET Tokens
    BY <2>1, HandlerFacts, AdoptionFacts, RepositoryFields DEF CInv
  <2>3. c = [kind |-> "commit", tree |-> capture.tree, to |-> None, onto |-> {},
             edits |-> git.work[capture.tree], refs |-> {}, then |-> "leave"]
    BY CommitCommand
  <2>4. c \in Commands
    BY <2>2, <2>3, NoCommit DEF Commands, Kinds
  <2>5. c.tree = capture.tree /\ c.kind = "commit" /\ c.then = "leave"
    BY <2>3
  <2> HIDE DEF c
  <2>6. switching # None
    BY <2>1, AdoptionFacts DEF CInv
  <2>7. Caller \in mutated
    BY <2>6 DEF Accounted, Framed, CommandRight
  <2>8. Fit(c)
    BY <1>0, <2>1, <2>5, <2>7 DEF Fit
  <2>9. QED BY <2>1, <2>4, <2>8, IssueAccounted
<1>3. CASE SiblingClean
  BY <1>0, <1>3, QuietAccounted DEF SiblingClean, Skip, quiet, claims
<1>4. CASE ReleaseSibling
  <2>1. PICK kind \in {"detach", "remove"} : Issue(Command(kind, capture.tree, "retry"))
    BY <1>4 DEF ReleaseSibling
  <2> DEFINE c == Command(kind, capture.tree, "retry")
  <2>2. pc = "leave" /\ switching' = switching /\ Issue(c)
    BY <1>4, <2>1 DEF ReleaseSibling
  <2>3. capture.tree \in Worktrees /\ switching # None
    BY <2>2, AdoptionFacts DEF CInv
  <2>4. c \in Commands
    BY <2>3, CommandType DEF Kinds
  <2>5. c.tree = capture.tree /\ c.kind = kind /\ c.then = "retry"
    BY DEF Command
  <2> HIDE DEF c
  <2>6. Caller \in mutated
    BY <2>3 DEF Accounted, Framed, CommandRight
  <2>7. capture.tree # Caller
    BY <1>0, <2>2 DEF AdoptedTrees, Accounted, Laid, RecordsRight
  <2>8. Fit(c)
    BY <1>0, <2>2, <2>5, <2>6, <2>7 DEF Fit
  <2>9. QED BY <2>2, <2>4, <2>8, IssueAccounted
<1>5. CASE RetrySwitch
  <2> DEFINE c == [Command("switch", Caller, switching.then) EXCEPT !.to = switching.to]
  <2>1. pc \in {"retry", "adopt"} /\ Issue(c)
    BY <1>5 DEF RetrySwitch
  <2>2. switching \in Switches
    BY <2>1, HandlerFacts DEF CInv, IInv, FramesOK, InAdoption
  <2>3. /\ switching.to \in Branches
        /\ switching.then \in Continuations \ {"ownInvocation", "ownIsolation", "leave"}
    BY <2>2 DEF Switches, AfterSwitch, Continuations
  <2>4. c \in Commands /\ c.tree = Caller /\ c.kind = "switch" /\ c.then = switching.then
    <3>1. "switch" \in Kinds /\ switching.then \in Continuations
      BY <2>3 DEF Kinds
    <3>2. c \in Commands
      BY <2>3, <3>1, CallerAssumption, CommandType
    <3>3. QED BY <3>2 DEF Command
  <2> HIDE DEF c
  <2>5. QED BY <2>1, <2>3, <2>4, CallerAccounted
<1> QED
  BY <1>1, <1>2, <1>3, <1>4, <1>5 DEF Adopting

\* Any call may fail.
LEMMA FailsAccounted == ASSUME CInv, Accounted, IInv', HandlerFails PROVE Accounted'
BY QuietAccounted DEF HandlerFails, Failing, HandlerSteps, CommandSteps, Continuations, quiet, claims

\* Git has run a command, which leaves the frames to what follows it.
LEMMA RanAccounted ==
    ASSUME CInv, Accounted, IInv', pc \in CommandSteps, Laid', Kept',
           UNCHANGED <<start, ledger, mutated, phase, outcome, frames, switching>>,
           pc' \in {cmd.then, "complete", "cleanup", "resolve", "abandon"},
           pc' = "complete" => cmd.kind # "stash",
           pc' \in {"ownInvocation", "ownIsolation"} /\ git'.stashes # <<>>
             => Head(git'.stashes).use \in OwnUses
    PROVE  Accounted'
BY RunningFacts, ForwardFramed, SteadyAccounted DEF ledger, frames, Steady, HandlerSteps, CommandSteps, CInv,
  Continuations, Accounted, Framed, CommandRight

----------------------------------------
\* The account: commands

\* What the account tells of a command that is run.
LEMMA RunningRight ==
    ASSUME CInv, Accounted, pc = "command"
    PROVE  /\ cmd.kind # "push" => Caller \in mutated /\ cmd.tree \in mutated
           /\ cmd.kind \notin {"commit", "detach", "remove"} => cmd.tree = Caller
           /\ cmd.kind \in {"detach", "remove"} => cmd.tree \in AdoptedTrees \ {Caller}
           /\ cmd.tree = Caller \/ cmd.tree \in AdoptedTrees
           /\ cmd.kind \in {"commit", "merge", "conclude", "reset"} /\ git.head[cmd.tree] # None
                => git.head[cmd.tree] \in Journaled
           /\ cmd.kind = "create" => cmd.to \in Journaled
           /\ cmd.kind = "stash" => cmd.refs = {}
           /\ cmd.then \in {"ownInvocation", "ownIsolation"} => cmd.kind = "stash"
           /\ cmd.kind \in Kinds
BY RunningFacts DEF CInv, Commands, CommandSteps, Accounted, Framed, CommandRight, DropsRight, MutatedReferences

\* A command that changes neither records nor claims, but for the repository.
Ran ==
    /\ pc = "command"
    /\ UNCHANGED <<start, ledger, claims, phase, outcome, frames, switching>>
    /\ pc' \in {AfterCommand, "complete", "cleanup", "resolve", "abandon"}
    /\ cmd.kind = "stash" => pc' \in {AfterCommand, "cleanup"}

\* One that leaves the stash list alone.
LEMMA RanPlainly ==
    ASSUME CInv, Accounted, IInv', Ran, cmd.kind # "stash", Laid',
           git'.stashes = git.stashes,
           \A v \in Worktrees \ mutated : git'.work[v] = git.work[v]
    PROVE  Accounted'
BY SteadyFacts, KeptStays, RunningRight, RunningFacts, RanAccounted DEF Ran, Steady, ledger, claims,
  HandlerSteps, CommandSteps, Accounted, AfterCommand, CInv

\* A commit, a merge or a reset.
LEMMA TipAccounted ==
    ASSUME CInv, Accounted, IInv', Ran, TipMoves(git, git', cmd.tree),
           cmd.kind \in {"commit", "merge", "conclude", "reset"}
    PROVE  Accounted'
BY RunningFacts, RunningRight, SteadyFacts, TipLaid, RanPlainly DEF Ran, Steady, ledger, claims, HandlerSteps,
  CommandSteps, CInv, Accounted, TipMoves

\* A switch to a branch, which is created for it or not.
LEMMA SwitchedAccounted ==
    ASSUME CInv, Accounted, IInv', Ran, cmd.kind \in {"switch", "create"},
           git'.head[Caller] = cmd.to, git'.refs[cmd.to] # None,
           git'.trees = git.trees, git'.unmerged = git.unmerged, git'.stashes = git.stashes,
           git'.work = git.work,
           \A v \in Worktrees \ {Caller} : git'.head[v] = git.head[v] /\ git'.at[v] = git.at[v],
           \A c \in Branches : c # cmd.to => git'.refs[c] = git.refs[c],
           git'.refs[cmd.to] = git.refs[cmd.to] \/ (git.refs[cmd.to] = None /\ cmd.kind = "create"),
           \A v \in git.trees : v # Caller => git.head[v] # cmd.to
    PROVE  Accounted'
BY RunningFacts, RunningRight, SteadyFacts, SwitchLaid, RanPlainly DEF Ran, Steady, ledger, claims,
  HandlerSteps, CommandSteps, CInv, Accounted

\* An adopted sibling lets go.
LEMMA ReleasedAccounted ==
    ASSUME CInv, Accounted, IInv', Ran, cmd.kind \in {"detach", "remove"},
           git'.head[cmd.tree] = None, git'.refs = git.refs, git'.trees \in {git.trees, git.trees \ {cmd.tree}},
           git'.unmerged = git.unmerged, git'.stashes = git.stashes, git'.work = git.work,
           \A v \in Worktrees \ {cmd.tree} : git'.head[v] = git.head[v] /\ git'.at[v] = git.at[v]
    PROVE  Accounted'
BY RunningRight, SteadyFacts, ReleaseLaid, RanPlainly DEF Ran, Steady, ledger, claims, HandlerSteps,
  CommandSteps, CInv, Accounted

\* The caller's conflicts, edits or remote change.
LEMMA CallerWorkAccounted ==
    ASSUME CInv, Accounted, IInv', Ran, cmd.kind \in {"merge", "conclude", "apply", "push"},
           git'.refs = git.refs, git'.head = git.head, git'.at = git.at, git'.trees = git.trees,
           git'.stashes = git.stashes,
           IF cmd.kind = "push" THEN git'.unmerged = git.unmerged /\ git'.work = git.work
           ELSE /\ git'.unmerged \subseteq git.unmerged \cup {cmd.tree}
                /\ \A v \in Worktrees \ {cmd.tree} : git'.work[v] = git.work[v]
    PROVE  Accounted'
<1>1. Steady /\ UNCHANGED <<mutated, journal>>
  BY DEF Ran, Steady, ledger, claims, HandlerSteps, CommandSteps
<1>2. CASE cmd.kind = "push"
  BY <1>1, <1>2, SteadyFacts, ClaimLaid, RanPlainly DEF CInv, Accounted, SamePlaces, Claims
<1>3. CASE cmd.kind # "push"
  BY <1>3, RunningRight, <1>1, SteadyFacts, ConflictLaid, RanPlainly DEF Ran, CInv, Accounted
<1>4. QED BY <1>2, <1>3

\* The caller's edits are stashed for the invocation.
LEMMA StashedAccounted ==
    ASSUME CInv, Accounted, IInv', Ran, cmd.kind = "stash", NEW use \in OwnUses,
           git' = PushStash(git, cmd.tree, use)
    PROVE  Accounted'
<1>1. Steady /\ UNCHANGED <<mutated, journal>>
  BY DEF Ran, Steady, ledger, claims, HandlerSteps, CommandSteps
<1>2. cmd.tree = Caller /\ Caller \in mutated /\ cmd.refs = {}
  BY RunningRight DEF Ran
<1> DEFINE e == [tree |-> Caller, edits |-> git.work[Caller], use |-> use]
<1>3. use \in StashUses /\ use # "snapshot"
  BY DEF OwnUses, StashUses
<1>4. /\ git'.refs = git.refs /\ git'.trees = git.trees /\ git'.head = git.head /\ git'.at = git.at
      /\ git'.unmerged = git.unmerged /\ git'.work = [git.work EXCEPT ![Caller] = {}]
      /\ e \in Entries /\ git'.stashes = <<e>> \o git.stashes
  <2>1. git \in RepositoryType /\ Caller \in Worktrees /\ git' = PushStash(git, Caller, use)
    BY <1>2, TransactionFacts, CallerAssumption DEF CInv
  <2> HIDE DEF e
  <2>2. LET h == PushStash(git, Caller, use)
        IN /\ h.refs = git.refs /\ h.trees = git.trees /\ h.head = git.head /\ h.at = git.at
           /\ h.unmerged = git.unmerged /\ h.work = [git.work EXCEPT ![Caller] = {}]
           /\ e \in Entries /\ h.stashes = <<e>> \o git.stashes
    BY <1>3, <2>1, StashFields DEF e
  <2>3. QED BY <2>1, <2>2
<1>5. e.use = use
  OBVIOUS
<1> HIDE DEF e
<1>6. Laid'
  BY <1>1, <1>4, SteadyFacts, ClaimLaid DEF CInv, Accounted, SamePlaces, Claims
<1>7. \A v \in Worktrees \ mutated : git'.work[v] = git.work[v]
  BY <1>2, <1>4, TransactionFacts, RepositoryFields DEF CInv
<1>8. Kept'
  BY <1>1, <1>3, <1>4, <1>5, <1>7, SteadyFacts, KeptInFront DEF CInv, Accounted, Steady
<1>9. git.stashes \in Seq(Entries)
  BY TransactionFacts, RepositoryFields DEF CInv
<1>10. Head(git'.stashes).use \in OwnUses
  BY <1>4, <1>5, <1>9
<1>11. pc' \in {cmd.then, "cleanup"} /\ pc \in CommandSteps /\ cmd.then \in Continuations
  BY <1>2, RunningFacts DEF CInv, Ran, AfterCommand, CommandSteps
<1>12. pc' # "complete"
  BY <1>11 DEF Continuations
<1>13. QED BY <1>1, <1>6, <1>8, <1>10, <1>11, <1>12, RanAccounted DEF Ran

\* A command lands.
LEMMA LandedRan ==
    ASSUME CInv, pc = "command", NEW g, Landed(g) PROVE Ran /\ git' = g
BY DEF Landed, handlerVars, Ran

\* The tip of a checkout is known.
LEMMA TipKnown ==
    ASSUME CInv, NEW w \in Worktrees PROVE Tip(git, w) \in {None} \cup Commits
BY TransactionFacts, TipType DEF CInv

\* A branch is freed or held.
LEMMA FreeHeads ==
    ASSUME NEW w, NEW b, Free(git, w, b)
    PROVE  \A v \in git.trees : v # w => git.head[v] # b
BY DEF Free, Holders

\* The commands that move a tip.
LEMMA TipCommands ==
    ASSUME CInv, Accounted, IInv', RunCommit \/ RunReset \/ RunMerge \/ RunConclude
    PROVE  Accounted'
<1>0. pc = "command" /\ cmd.kind \in {"commit", "merge", "conclude", "reset"}
  BY DEF RunCommit, RunReset, RunMerge, RunConclude, Running
<1>1. git \in RepositoryType /\ cmd.tree \in Worktrees /\ cmd.onto \in Commits /\ cmd.edits \in SUBSET Tokens
  BY <1>0, RunningFacts, TransactionFacts DEF CInv, CommandSteps
<1>2. CASE RunCommit
  BY <1>2, <1>0, <1>1, LandedRan, CommitFields, TipAccounted DEF RunCommit
<1>3. CASE RunReset
  <2>1. Landed(ResetHard(git, cmd.tree, cmd.onto))
    BY <1>3 DEF RunReset
  <2>2. Ran /\ git' = ResetHard(git, cmd.tree, cmd.onto)
    BY <1>0, <2>1, LandedRan
  <2>3. TipMoves(git, git', cmd.tree)
    BY <1>1, <2>2, ResetFields
  <2>4. QED BY <1>0, <2>2, <2>3, TipAccounted
<1>4. CASE RunMerge
  BY <1>4, <1>0, <1>1, LandedRan, MergeFields, TipAccounted DEF RunMerge
<1>5. CASE RunConclude
  BY <1>5, <1>0, <1>1, MergeFields, TipAccounted DEF RunConclude, Running, Ran, handlerVars
<1>6. QED BY <1>2, <1>3, <1>4, <1>5

\* The switches and creations.
LEMMA SwitchCommands ==
    ASSUME CInv, Accounted, IInv', RunSwitch \/ SwitchBusy \/ SwitchMissing \/ RunCreate
    PROVE  Accounted'
<1>0. pc = "command" /\ cmd.kind \in {"switch", "create"}
  BY DEF RunSwitch, SwitchBusy, SwitchMissing, RunCreate, Running
<1>1. /\ git \in RepositoryType /\ cmd.tree = Caller /\ Caller \in Worktrees
      /\ cmd.to \in Branches /\ cmd.onto \in Commits
  BY <1>0, RunningFacts, RunningRight, TransactionFacts, CallerAssumption DEF CInv, CommandSteps
<1>2. CASE RunSwitch
  BY <1>1, <1>2, <1>0, LandedRan, SwitchFields, FreeHeads, SwitchedAccounted DEF RunSwitch, Exists, HeadMoves
<1>3. CASE SwitchBusy
  BY <1>3, <1>0, QuietAccounted DEF SwitchBusy, quiet, claims, HandlerSteps, CommandSteps, Continuations
<1>4. CASE SwitchMissing
  <2>1. cmd.kind = "switch" /\ CreateAt(cmd.to, OriginTip(cmd.to), cmd.then)
    BY <1>4 DEF SwitchMissing, Running
  <2>2. cmd.then \in AfterSwitch /\ OriginTip(cmd.to) \in {None} \cup Commits
    BY <1>0, <1>1, <2>1, RepositoryFields DEF CInv, IInv, FramesOK, CommandSteps, OriginTip
  <2>3. cmd.then \in Continuations \ {"ownInvocation", "ownIsolation", "leave"}
    BY <2>2 DEF AfterSwitch, Continuations
  <2>4. pc \in HandlerSteps \ {"cleanup"}
    BY <1>0 DEF HandlerSteps, CommandSteps
  <2>5. QED BY <1>1, <2>1, <2>2, <2>3, <2>4, CreateAccounted
<1>5. CASE RunCreate
  <2>1. /\ git.refs[cmd.to] = None /\ cmd.kind = "create"
        /\ Landed(CreateBranch(git, Caller, cmd.to, cmd.onto))
    BY <1>1, <1>5 DEF RunCreate, Running, Exists
  <2> DEFINE m == [git EXCEPT !.refs[cmd.to] = cmd.onto]
  <2>2. /\ m \in RepositoryType /\ m.refs = [git.refs EXCEPT ![cmd.to] = cmd.onto]
        /\ m.head = git.head /\ m.at = git.at /\ m.trees = git.trees
        /\ m.work = git.work /\ m.unmerged = git.unmerged /\ m.stashes = git.stashes
    BY <1>1 DEF RepositoryType
  <2>3. git' = SwitchTo(m, Caller, cmd.to) /\ Ran
    BY <1>0, <2>1, LandedRan DEF CreateBranch
  <2> HIDE DEF m
  <2>4. HeadMoves(m, git', Caller) /\ git'.head[Caller] = cmd.to
    BY <1>1, <2>2, <2>3, SwitchFields
  <2>5. cmd.onto # None
    BY <1>1, NoneAssumption DEF Commits
  <2>6. git.refs \in [Branches -> {None} \cup Commits]
    BY <1>1, RepositoryFields
  <2>7. git'.refs = [git.refs EXCEPT ![cmd.to] = cmd.onto] /\ git'.trees = git.trees
        /\ git'.unmerged = git.unmerged /\ git'.stashes = git.stashes /\ git'.work = git.work
        /\ \A v \in Worktrees \ {Caller} : git'.head[v] = git.head[v] /\ git'.at[v] = git.at[v]
    BY <2>2, <2>4 DEF HeadMoves
  <2>a. phase = "forward"
    BY <1>0, InHandler DEF CInv, HandlerSteps, CommandSteps
  <2>8. \A v \in git.trees : v # Caller => git.head[v] # cmd.to
    BY <1>1, <2>1, <2>a, NoneAssumption DEF Accounted, Laid, PlacesKnown
  <2>9. QED BY <1>1, <2>1, <2>3, <2>4, <2>5, <2>6, <2>7, <2>8, SwitchedAccounted
<1>6. QED BY <1>2, <1>3, <1>4, <1>5

\* The commands that release a sibling.
LEMMA ReleaseCommands ==
    ASSUME CInv, Accounted, IInv', RunDetach \/ RunRemove
    PROVE  Accounted'
BY RunningFacts, TransactionFacts, TipKnown, LandedRan, DetachFields, ReleasedAccounted, RemoveFields DEF
  RunDetach, RunRemove, Running, CInv, CommandSteps, HeadMoves

\* A repository in which a checkout is conflicted.
LEMMA ConflictFields ==
    ASSUME NEW g \in RepositoryType, NEW s
    PROVE  LET h == [g EXCEPT !.unmerged = s]
           IN /\ h.refs = g.refs /\ h.head = g.head /\ h.at = g.at /\ h.trees = g.trees
              /\ h.stashes = g.stashes /\ h.work = g.work /\ h.unmerged = s
BY DEF RepositoryType

\* The commands that change the caller's edits or conflicts, or the remote.
LEMMA CallerCommands ==
    ASSUME CInv, Accounted, IInv',
           RunApply \/ MergeConflicts \/ ApplyConflicts \/ PushReported \/ PushMalformed \/ PushUnreported
    PROVE  Accounted'
<1>0. /\ pc = "command" /\ cmd.kind \in {"merge", "apply", "push"}
      /\ (RunApply \/ ApplyConflicts => cmd.kind = "apply")
      /\ (MergeConflicts => cmd.kind = "merge")
      /\ (PushReported \/ PushMalformed \/ PushUnreported => cmd.kind = "push")
  BY DEF RunApply, MergeConflicts, ApplyConflicts, PushReported, PushMalformed, PushUnreported, Running
<1>1. /\ git \in RepositoryType /\ cmd.tree \in Worktrees /\ owned \subseteq Entries
      /\ git.work \in [Worktrees -> SUBSET Tokens]
  BY <1>0, RunningFacts, TransactionFacts, RepositoryFields DEF CInv, CommandSteps
<1>2. CASE RunApply
  <2>1. PICK entry \in owned : Landed(ApplyStash(git, cmd.tree, entry))
    BY <1>2 DEF RunApply
  <2>2. git' = ApplyStash(git, cmd.tree, entry) /\ Ran
    BY <1>0, <2>1, LandedRan
  <2>3. /\ git'.refs = git.refs /\ git'.trees = git.trees /\ git'.head = git.head /\ git'.at = git.at
        /\ git'.unmerged = git.unmerged /\ git'.stashes = git.stashes
        /\ git'.work = [git.work EXCEPT ![cmd.tree] = git.work[cmd.tree] \cup entry.edits]
    BY <1>1, <2>2, ApplyFields
  <2>4. QED BY <1>0, <1>1, <1>2, <2>2, <2>3, CallerWorkAccounted
<1>3. CASE MergeConflicts
  BY <1>0, <1>3, <1>1, ConflictFields, CallerWorkAccounted DEF MergeConflicts, Ran, handlerVars
<1>4. CASE ApplyConflicts
  <2>1. PICK entry \in owned :
          git' = [ApplyStash(git, cmd.tree, entry) EXCEPT !.unmerged = @ \cup {cmd.tree}]
    BY <1>4 DEF ApplyConflicts
  <2> DEFINE m == ApplyStash(git, cmd.tree, entry)
  <2>2. Ran /\ git' = [m EXCEPT !.unmerged = m.unmerged \cup {cmd.tree}]
    BY <1>0, <1>4, <2>1 DEF ApplyConflicts, Ran, handlerVars
  <2>3. /\ m.refs = git.refs /\ m.trees = git.trees /\ m.head = git.head /\ m.at = git.at
        /\ m.unmerged = git.unmerged /\ m.stashes = git.stashes
        /\ m.work = [git.work EXCEPT ![cmd.tree] = git.work[cmd.tree] \cup entry.edits]
        /\ m \in RepositoryType
    BY <1>1, ApplyFields, ApplyStashType
  <2> HIDE DEF m
  <2>4. /\ git'.refs = m.refs /\ git'.trees = m.trees /\ git'.head = m.head /\ git'.at = m.at
        /\ git'.unmerged = m.unmerged \cup {cmd.tree} /\ git'.stashes = m.stashes
        /\ git'.work = m.work
    BY <2>2, <2>3, ConflictFields
  <2>5. QED BY <1>0, <1>1, <1>4, <2>2, <2>3, <2>4, CallerWorkAccounted
<1>5. CASE PushReported \/ PushMalformed \/ PushUnreported
  <2>1. git' \in {git, PushBranch(git, cmd.to)} /\ cmd.kind = "push"
    BY <1>0, <1>5 DEF PushReported, PushMalformed, PushUnreported
  <2>2. /\ git'.refs = git.refs /\ git'.trees = git.trees /\ git'.head = git.head /\ git'.at = git.at
        /\ git'.unmerged = git.unmerged /\ git'.stashes = git.stashes /\ git'.work = git.work
    BY <1>1, <2>1 DEF PushBranch, RepositoryType
  <2>3. cmd.refs = {}
    BY <1>0, <2>1 DEF Accounted, Framed, CommandRight, MutatedReferences
  <2>4. Ran
    BY <1>0, <1>5, <2>1, <2>3 DEF PushReported, PushMalformed, PushUnreported, Ran, AfterCommand, handlerVars
  <2>5. QED BY <2>1, <2>2, <2>4, CallerWorkAccounted
<1>6. QED BY <1>2, <1>3, <1>4, <1>5

\* Whatever Git answers.
LEMMA RunCommandAccounted == ASSUME CInv, Accounted, IInv', RunCommand PROVE Accounted'
<1>1. CASE RunStash
  <2>1. pc = "command" /\ cmd.kind = "stash"
    BY <1>1 DEF RunStash, Running
  <2>2. PICK use \in OwnUses : Landed(PushStash(git, cmd.tree, use))
    BY <1>1 DEF RunStash, OwnUses
  <2>3. Ran /\ git' = PushStash(git, cmd.tree, use)
    BY <2>1, <2>2, LandedRan
  <2>4. QED BY <2>1, <2>3, StashedAccounted
<1>2. CASE ~RunStash
  BY <1>2, TipCommands, SwitchCommands, ReleaseCommands, CallerCommands DEF RunCommand
<1>3. QED BY <1>1, <1>2

\* The conflicts of the caller are gone, or still there.
LEMMA UnconflictedAccounted ==
    ASSUME CInv, Accounted, IInv', pc \in {"resolve", "abandon"},
           git' \in {git, [git EXCEPT !.unmerged = @ \ {cmd.tree}]},
           UNCHANGED <<start, ledger, journal, mutated, phase, outcome, frames, switching>>,
           pc' \in {cmd.then, "cleanup"},
           pc' \notin {"ownInvocation", "ownIsolation"}
    PROVE  Accounted'
<1>1. pc \in CommandSteps /\ git \in RepositoryType
  BY TransactionFacts DEF CInv, CommandSteps
<1>2. /\ git'.refs = git.refs /\ git'.trees = git.trees /\ git'.head = git.head /\ git'.at = git.at
      /\ git'.unmerged \subseteq git.unmerged /\ git'.stashes = git.stashes /\ git'.work = git.work
  BY <1>1 DEF RepositoryType
<1>3. Steady
  BY <1>1 DEF Steady, HandlerSteps, CommandSteps, Continuations, ledger
<1>5. Laid'
  <2>1. RefsKnown'
    BY <1>2, SteadyFacts, <1>3, RefsStayKnown DEF CInv, Accounted, Laid, SameRecords, Claims
  <2>2. PlacesKnown'
    BY <1>2, <1>3, SteadyFacts DEF Accounted, Laid, SameRecords, Onward, PlacesKnown, OwnPlace, AdoptedTrees
  <2>3. RecordsRight'
    BY <1>3, SteadyFacts, RecordsStay DEF Accounted, Laid
  <2>4. CallerKnown' /\ UnmergedKnown'
    BY <1>2, <1>3 DEF Accounted, Laid, Steady, CallerKnown, UnmergedKnown, OwnPlace
  <2>5. QED BY <2>1, <2>2, <2>3, <2>4 DEF Laid
<1>6. Kept'
  BY <1>2, <1>3, SteadyFacts, KeptStays DEF Accounted, Steady
<1>8. cmd.then \in Continuations
  BY <1>1, RunningFacts DEF CInv
<1>9. pc' # "complete"
  BY <1>8 DEF Continuations
<1>10. QED BY <1>1, <1>5, <1>6, <1>9, RanAccounted

\* A merge that is resolved, or not.
LEMMA ResolvingAccounted == ASSUME CInv, Accounted, IInv', Resolving PROVE Accounted'
<1>0. /\ pc \in CommandSteps
      /\ pc \in HandlerSteps \ {"cleanup"}
  BY DEF Resolving, ResolveMerge, ResolveApply, ResolveFails, AbandonMerge, Running, CommandSteps, HandlerSteps,
    Continuations
<1>1. cmd \in Commands /\ cmd.then \in Continuations
  BY <1>0, RunningFacts DEF CInv
<1>2. CommandRight /\ DropsRight
  BY DEF Accounted, Framed
<1>3. CASE ResolveMerge
  <2> DEFINE c == [cmd EXCEPT !.kind = "conclude"]
  <2>1. /\ cmd.kind = "merge" /\ Prepare(c, "abandon")
        /\ UNCHANGED <<git, start, snapshots, adopted, owned, phase, outcome, capture, switching>>
    BY <1>3 DEF ResolveMerge, ledger, handlerVars
  <2>2. c \in Commands /\ c.kind = "conclude" /\ c.tree = cmd.tree /\ c.then = cmd.then
    BY <1>1 DEF Commands, Kinds
  <2> HIDE DEF c
  <2>3. Fit(c)
    BY <1>0, <1>2, <2>1, <2>2 DEF Fit, CommandRight, DropsRight
  <2>4. Steady
    BY <1>0, <2>1 DEF Steady
  <2>5. QED BY <1>0, <2>1, <2>2, <2>3, <2>4, PreparedAccounted
<1>4. CASE ResolveApply
  BY <1>4, <1>0, <1>2, UnconflictedAccounted DEF ResolveApply, claims, handlerVars, DropsRight
<1>5. CASE ResolveFails
  BY <1>5, <1>0, QuietAccounted DEF ResolveFails, quiet, claims, HandlerSteps, CommandSteps
<1>6. CASE AbandonMerge
  BY <1>6, UnconflictedAccounted DEF AbandonMerge, handlerVars
<1>7. QED BY <1>3, <1>4, <1>5, <1>6 DEF Resolving

----------------------------------------
\* The account: captures

\* The account of branches and checkouts when only records are added.
LEMMA PlacesStay ==
    ASSUME IInv, Laid, SamePlaces, UNCHANGED <<start, adopted>>, Claims, Onward
    PROVE  RefsKnown' /\ PlacesKnown' /\ CallerKnown' /\ UnmergedKnown'
BY RefsStayKnown DEF Laid, SamePlaces, Onward, PlacesKnown, OwnPlace, AdoptedTrees, Claims, CallerKnown,
  UnmergedKnown

\* The journal is brought up to date.
LEMMA CompleteAccounted ==
    ASSUME CInv, Accounted, IInv', Complete, UNCHANGED handlerVars PROVE Accounted'
<1>1. /\ pc = "complete" /\ pc' = cmd.then
      /\ journal' = [b \in Branches |->
                       IF b \in cmd.refs
                       THEN [journal[b] EXCEPT !.expected = git.refs[b]]
                       ELSE journal[b]]
      /\ UNCHANGED <<git, start, ledger, mutated, phase, outcome, frames, switching>>
      /\ UNCHANGED <<snapshots, adopted>>
  BY DEF Complete, handlerVars, ledger
<1>2. pc \in CommandSteps /\ Steady
  BY <1>1 DEF CommandSteps, Steady, HandlerSteps, Continuations
<1>3. cmd.refs \subseteq Journaled /\ cmd.then \in Continuations
  BY <1>2, RunningFacts DEF CInv
<1>4. ASSUME NEW b \in Branches
      PROVE  /\ journal'[b] = None => journal[b] = None
             /\ journal[b] = None => journal'[b] = None
             /\ journal[b] # None => journal'[b].initial = journal[b].initial
  BY <1>3, TransactionFacts, RepositoryFields, RecordAssumption, <1>1 DEF CInv, Journaled, Mutations
<1>5. Laid'
  BY <1>1, <1>4, <1>2, RecordsStay DEF Accounted, Laid, RefsKnown, SameRecords, PlacesKnown, OwnPlace,
    AdoptedTrees, CallerKnown, UnmergedKnown
<1>6. Kept'
  BY <1>1, <1>2, SteadyFacts, KeptStays DEF Accounted, Steady
<1>7. pc' \notin {"ownInvocation", "ownIsolation", "complete"}
  BY <1>1, <1>2, <1>3 DEF Accounted, Framed, DropsRight, Continuations
<1>8. QED BY <1>1, <1>2, <1>5, <1>6, <1>7, RanAccounted

\* Neither a command nor a drop is under way.
LEMMA IdleFramed ==
    ASSUME Framed, UNCHANGED <<switching, owned>>, mutated \subseteq mutated',
           pc' \notin CommandSteps \cup DropSteps
             \cup {"generate", "save", "leave", "ownInvocation", "ownIsolation"}
    PROVE  CommandRight' /\ DropsRight'
BY DEF Framed, CommandRight, DropsRight, CommandSteps, DropSteps

\* One more snapshot: it is of what was there when the run began.
LEMMA SnapshotRecorded ==
    ASSUME CInv, Accounted, pc \in CaptureSteps, NEW backup \in {None} \cup Entries,
           snapshots' = Append(snapshots, NewSnapshot(backup)),
           UNCHANGED <<start, adopted, capture>>, mutated \subseteq mutated',
           IF backup = None THEN start.work[capture.tree] = {} ELSE backup = Backup(capture.tree)
    PROVE  /\ RecordsRight' /\ SnapshotTrees' = SnapshotTrees \cup {capture.tree}
           /\ \A i \in DOMAIN snapshots' : snapshots'[i].dropped =>
                i \in DOMAIN snapshots /\ snapshots'[i] = snapshots[i]
<1> DEFINE s == NewSnapshot(backup)
           n == Len(snapshots) + 1
<1>1. /\ s.tree = capture.tree /\ s.listed = capture.listed /\ s.backup = backup /\ s.dropped = FALSE
  BY DEF NewSnapshot
<1>2. snapshots \in Seq(Snapshots) /\ capture \in Captures
  BY TransactionFacts, CaptureFacts DEF CInv
<1> HIDE DEF s
<1>3. /\ DOMAIN snapshots' = 1 .. n /\ DOMAIN snapshots = 1 .. Len(snapshots) /\ Len(snapshots) \in Nat
      /\ \A i \in DOMAIN snapshots : i # n /\ i \in DOMAIN snapshots' /\ snapshots'[i] = snapshots[i]
      /\ \A i \in DOMAIN snapshots' : i # n => i \in DOMAIN snapshots
      /\ snapshots'[n] = s /\ n \in DOMAIN snapshots'
  BY <1>2 DEF s
<1> HIDE DEF n
<1>4. capture.tree \notin SnapshotTrees
  BY DEF Accounted, Framed, CaptureRight
<1>5. SnapshotTrees' = SnapshotTrees \cup {capture.tree}
  BY <1>2, SnapshotAppended DEF CInv
<1>6. capture.listed = Listed(start, capture.tree)
  BY <1>4 DEF Accounted, Framed, CaptureRight, Laid, RecordsRight, AdoptedTrees
<1>7. ASSUME NEW i \in DOMAIN snapshots'
      PROVE  LET r == snapshots'[i]
             IN /\ r.listed = Listed(start, r.tree)
                /\ IF r.backup = None THEN start.work[r.tree] = {} ELSE r.backup = Backup(r.tree)
                /\ \A j \in DOMAIN snapshots' : snapshots'[j].tree = r.tree => i = j
  <2>1. CASE i = n
    BY <1>4, <1>1, <1>3, <1>6, <2>1 DEF SnapshotTrees
  <2>2. CASE i # n
    BY <1>3, <2>2, <1>4, <1>1 DEF SnapshotTrees, Accounted, Laid, RecordsRight
  <2>3. QED BY <2>1, <2>2
<1>8. Backup(capture.tree)' = Backup(capture.tree) /\ \A w : Listed(start, w)' = Listed(start, w)
  BY DEF Backup, Listed, Tip
<1>9. RecordsRight'
  BY <1>5, <1>7 DEF Accounted, Laid, RecordsRight, Backup, Listed, Tip
<1>10. QED BY <1>1, <1>3, <1>5, <1>9

\* What a capture finds of the edits it is to record.
LEMMA CaptureWork ==
    ASSUME CInv, Accounted, pc \in CaptureSteps
    PROVE  /\ \A w \in Worktrees \ mutated : Held(w) \/ git.work[w] = start.work[w]
           /\ pc = "snapshot" => git.work[capture.tree] = start.work[capture.tree]
           /\ ~Ending /\ outcome = "running" /\ phase \in {"begin", "forward"}
           /\ capture.tree \notin SnapshotTrees \cup mutated
           /\ capture.tree \in Worktrees /\ capture \in Captures
BY CaptureFacts DEF CInv, IInv, PhaseOK, CaptureSteps, Ending, ReportsInOrder, Accounted, Framed, CaptureRight,
  Kept, WorkKnown, Held

\* begin takes up a worktree, or has taken them all.
LEMMA BeginAccounted ==
    ASSUME CInv, Accounted, IInv', BeginNext \/ Begun, UNCHANGED handlerVars PROVE Accounted'
<1>1. /\ pc = "begin" /\ phase = "begin" /\ outcome = "running"
      /\ UNCHANGED <<git, start, snapshots, adopted, owned, journal, mutated, outcome, switching>>
      /\ phase' \in {"begin", "forward"} /\ pc' \in {"snapshot", "status"}
      /\ (pc' = "snapshot" => phase' = "begin")
  BY DEF BeginNext, Begun, CInv, IInv, PhaseOK, ReportsInOrder, ledger, claims, handlerVars
<1>2. Laid'
  BY <1>1, ClaimLaid DEF CInv, Accounted, SamePlaces, SameRecords, Claims, Onward
<1>3. Kept'
  BY <1>1, KeptStays DEF Accounted, NothingHeld, Ending
<1>4. CommandRight' /\ DropsRight'
  BY <1>1, IdleFramed DEF Accounted, CommandSteps, DropSteps
<1>5. CaptureRight'
  <2>1. CASE BeginNext
    <3>1. PICK w \in TouchedTrees \ SnapshotTrees : capture' = CaptureFrame(w, Listed(start, w))
      BY <2>1 DEF BeginNext
    <3>2. capture'.tree = w /\ capture'.listed = Listed(start, w)
      BY <3>1 DEF CaptureFrame
    <3>3. w \notin mutated /\ SnapshotTrees' = SnapshotTrees
      BY <1>1, <3>1 DEF CInv, IInv, CoveredOK, SnapshotTrees
    <3>4. pc' = "snapshot"
      BY <2>1 DEF BeginNext
    <3>5. Listed(start, w)' = Listed(start, w)
      BY <1>1 DEF Listed, Tip
    <3>6. QED BY <1>1, <3>1, <3>2, <3>3, <3>4, <3>5 DEF CaptureRight, CaptureSteps
  <2>2. CASE Begun
    BY <2>2 DEF Begun, CaptureRight, CaptureSteps
  <2>3. QED BY <2>1, <2>2
<1>6. QED BY <1>1, <1>2, <1>3, <1>4, <1>5, NotYetBack DEF Accounted, Framed

\* What follows a capture, when it is not the next step of the same.
AfterCapture == pc' \in {"begin", "protected", "cleanup", "finalize", "inspect"}

\* A capture has ended.
LEMMA CapturedAccounted ==
    ASSUME CInv, Accounted, IInv', pc \in CaptureSteps, AfterCapture, Laid', Kept',
           UNCHANGED <<owned, switching>>, mutated \subseteq mutated',
           pc' = "protected" => UNCHANGED <<start, adopted, capture>> /\ phase' = phase,
           phase' \in {"undo", "rollback"} => pc' = "inspect" /\ outcome' = outcome,
           outcome' # "rolledBack"
    PROVE  Accounted'
<1>1. CommandRight' /\ DropsRight'
  BY IdleFramed DEF Accounted, AfterCapture, CommandSteps, DropSteps
<1>2. CaptureRight'
  BY DEF AdoptedTrees, Listed, Tip, Accounted, Framed, CaptureRight, CaptureSteps, AfterCapture
<1>3. RollbackComes'
  BY NotYetBack DEF RollbackComes, Past, Succeeded, AfterCheckout, AfterRefs, AfterTopology, AfterContents
<1>4. QED BY <1>1, <1>2, <1>3 DEF Accounted, Framed

\* A clean worktree is recorded without a backup.
LEMMA CleanAccounted ==
    ASSUME CInv, Accounted, IInv', SnapshotStatus, UNCHANGED handlerVars, git.work[capture.tree] = {}
    PROVE  Accounted'
<1>1. /\ pc = "snapshot" /\ snapshots' = Append(snapshots, NewSnapshot(None)) /\ pc' = Captured
      /\ UNCHANGED <<git, start, adopted, owned, journal, mutated, phase, outcome, capture, switching>>
  BY DEF SnapshotStatus, claims, frames, handlerVars
<1>2. pc \in CaptureSteps /\ AfterCapture
  BY <1>1 DEF CaptureSteps, AfterCapture, Captured
<1>3. /\ RecordsRight' /\ SnapshotTrees' = SnapshotTrees \cup {capture.tree}
      /\ \A i \in DOMAIN snapshots' : snapshots'[i].dropped =>
           i \in DOMAIN snapshots /\ snapshots'[i] = snapshots[i]
  BY <1>1, <1>2, CaptureWork, SnapshotRecorded
<1>4. Laid'
  BY <1>1, <1>3, PlacesStay DEF CInv, Accounted, Laid, SamePlaces, Claims, Onward
<1>5. Kept'
  BY <1>1, <1>2, CaptureWork, <1>3 DEF Accounted, Kept, WorkKnown, Held, StashesKnown, Backup, DroppedGone,
    StashIndexes
<1>6. outcome' # "rolledBack" /\ phase' \notin {"undo", "rollback"}
  BY <1>1, <1>2, CaptureWork
<1>7. QED BY <1>1, <1>2, <1>4, <1>5, <1>6, CapturedAccounted

\* A dirty one is stashed: the backup is on top of the list.
LEMMA BackedUpAccounted ==
    ASSUME CInv, Accounted, IInv', SnapshotStatus, UNCHANGED handlerVars, git.work[capture.tree] # {}
    PROVE  Accounted'
<1> DEFINE w == capture.tree
           e == Backup(w)
<1>1. /\ pc = "snapshot" /\ git' = PushStash(git, w, "snapshot") /\ pc' = "snapshotRef"
      /\ UNCHANGED <<start, snapshots, adopted, owned, journal, mutated, phase, outcome, capture, switching>>
  BY DEF SnapshotStatus, claims, frames, handlerVars
<1>2. pc \in CaptureSteps
  BY <1>1 DEF CaptureSteps
<1>3. /\ \A v \in Worktrees \ mutated : git.work[v] = start.work[v]
      /\ git.work[w] = start.work[w] /\ w \in Worktrees /\ w \notin SnapshotTrees \cup mutated
      /\ ~Ending /\ outcome = "running" /\ phase \in {"begin", "forward"}
  BY <1>1, <1>2, CaptureWork DEF Held
<1>4. git \in RepositoryType /\ git.stashes \in Seq(Entries) /\ git.work \in [Worktrees -> SUBSET Tokens]
  BY TransactionFacts, RepositoryFields DEF CInv
<1>5. /\ git'.refs = git.refs /\ git'.trees = git.trees /\ git'.head = git.head /\ git'.at = git.at
      /\ git'.unmerged = git.unmerged /\ git'.work = [git.work EXCEPT ![w] = {}]
      /\ e \in Entries /\ git'.stashes = <<e>> \o git.stashes
  <2>1. e = [tree |-> w, edits |-> git.work[w], use |-> "snapshot"]
    BY <1>3 DEF Backup
  <2>2. "snapshot" \in StashUses
    BY DEF StashUses
  <2> HIDE DEF e, w
  <2>3. LET h == PushStash(git, w, "snapshot")
        IN /\ h.refs = git.refs /\ h.trees = git.trees /\ h.head = git.head /\ h.at = git.at
           /\ h.unmerged = git.unmerged /\ h.work = [git.work EXCEPT ![w] = {}]
           /\ e \in Entries /\ h.stashes = <<e>> \o git.stashes
    <3>1. LET h == PushStash(git, w, "snapshot")
              f == [tree |-> w, edits |-> git.work[w], use |-> "snapshot"]
          IN /\ h.refs = git.refs /\ h.trees = git.trees /\ h.head = git.head /\ h.at = git.at
             /\ h.unmerged = git.unmerged /\ h.work = [git.work EXCEPT ![w] = {}]
             /\ f \in Entries /\ h.stashes = <<f>> \o git.stashes
      BY <1>3, <1>4, <2>2, StashFields
    <3>2. QED BY <2>1, <3>1
  <2>4. QED BY <1>1, <2>3
<1>6. e.use = "snapshot" /\ e.tree = w /\ e = Backup(w)
  BY DEF Backup
<1> HIDE DEF e, w
<1>7. /\ git'.stashes # <<>> /\ Head(git'.stashes) = e /\ 1 \in DOMAIN git'.stashes
      /\ git'.stashes[1] = e
      /\ \A i \in DOMAIN git'.stashes :
           i # 1 => i - 1 \in DOMAIN git.stashes /\ git'.stashes[i] = git.stashes[i - 1] /\ i \in Nat
  BY <1>4, <1>5, InFront
<1>8. Laid'
  BY <1>1, <1>5, ClaimLaid DEF CInv, Accounted, SamePlaces, SameRecords, Claims, Onward
<1>9. SnapshotTrees' = SnapshotTrees /\ \A v : Held(v) = FALSE /\ Held(v)' = (v = w)
  BY <1>1 DEF SnapshotTrees, Held, w
<1>10. WorkKnown'
  BY <1>1, <1>3, <1>4, <1>5, <1>9 DEF WorkKnown
<1>11. \A i \in DOMAIN git.stashes : git.stashes[i].use = "snapshot" =>
         /\ git.stashes[i] = Backup(git.stashes[i].tree) /\ git.stashes[i].tree \in SnapshotTrees
         /\ \A j \in DOMAIN git.stashes : git.stashes[j] = git.stashes[i] => i = j
  BY <1>3, <1>9 DEF Accounted, Kept, StashesKnown
<1>12. \A i \in DOMAIN git.stashes : git.stashes[i] # e
  BY <1>3, <1>6, <1>11
<1>13. StashesKnown'
  <2> SUFFICES ASSUME NEW i \in DOMAIN git'.stashes, git'.stashes[i].use = "snapshot"
               PROVE  /\ git'.stashes[i] = Backup(git'.stashes[i].tree)
                      /\ git'.stashes[i].tree \in SnapshotTrees \cup {w}
                      /\ \A j \in DOMAIN git'.stashes : git'.stashes[j] = git'.stashes[i] => i = j
    BY <1>1, <1>9 DEF StashesKnown, Backup, Held, w
  <2>1. CASE i = 1
    BY <1>6, <1>7, <1>9, <1>12, <2>1
  <2>2. CASE i # 1
    BY <1>7, <2>2, <1>12, <1>11, <1>9
  <2>3. QED BY <2>1, <2>2
<1>14. DroppedGone'
  <2> SUFFICES ASSUME NEW i \in DOMAIN snapshots, snapshots[i].backup # None, snapshots[i].dropped,
                      NEW j \in DOMAIN git'.stashes, git'.stashes[j] = snapshots[i].backup
               PROVE  FALSE
    BY <1>1 DEF DroppedGone, StashIndexes
  <2>1. \A k \in DOMAIN git.stashes : git.stashes[k] # snapshots[i].backup
    BY DEF Accounted, Kept, DroppedGone, StashIndexes
  <2>2. snapshots[i].backup = e
    BY <1>7, <2>1
  <2>3. snapshots[i].backup = Backup(snapshots[i].tree)
    BY DEF Accounted, Laid, RecordsRight
  <2>4. snapshots[i].tree = w
    BY <1>6, <2>2, <2>3 DEF Backup
  <2>5. QED BY <1>3, <2>4 DEF SnapshotTrees
<1>15. CaptureRight'
  <2>1. AdoptedTrees' = AdoptedTrees /\ Backup(w)' = Backup(w) /\ Listed(start, w)' = Listed(start, w)
    BY <1>1 DEF AdoptedTrees, Backup, Listed, Tip, w
  <2>2. git'.work[w] = {}
    BY <1>3, <1>4, <1>5
  <2>3. /\ w \notin AdoptedTrees => capture.listed = Listed(start, w)
        /\ phase = "forward" => w \in start.trees \ {Caller}
    BY <1>2 DEF Accounted, Framed, CaptureRight, w
  <2>4. capture'.tree = w
    BY <1>1 DEF w
  <2>5. QED BY <1>1, <1>3, <1>6, <1>7, <1>9, <2>1, <2>2, <2>3, <2>4 DEF CaptureRight, w
<1>16. CommandRight' /\ DropsRight'
  BY <1>1, IdleFramed DEF Accounted, CommandSteps, DropSteps
<1>17. RollbackComes'
  BY <1>1, <1>3, NotYetBack
<1>18. QED BY <1>8, <1>10, <1>13, <1>14, <1>15, <1>16, <1>17 DEF Accounted, Kept, Framed

\* The entry on top is taken for the backup, which it is.
LEMMA RefAccounted ==
    ASSUME CInv, Accounted, IInv', SnapshotRef, UNCHANGED handlerVars PROVE Accounted'
<1>1. /\ pc = "snapshotRef" /\ git.stashes # <<>> /\ capture' = [capture EXCEPT !.backup = Head(git.stashes)]
      /\ pc' = "snapshotApply"
      /\ UNCHANGED <<git, start, snapshots, adopted, owned, journal, mutated, phase, outcome, switching>>
  BY DEF SnapshotRef, ledger, claims, handlerVars
<1>2. pc \in CaptureSteps
  BY <1>1 DEF CaptureSteps
<1>3. capture \in Captures /\ ~Ending /\ outcome = "running" /\ phase \in {"begin", "forward"}
  BY <1>2, CaptureWork
<1>4. capture'.tree = capture.tree /\ capture'.listed = capture.listed /\ capture'.backup = Head(git.stashes)
  BY <1>1, <1>3 DEF Captures
<1>5. Laid'
  BY <1>1, ClaimLaid DEF CInv, Accounted, SamePlaces, SameRecords, Claims, Onward
<1>6. SnapshotTrees' = SnapshotTrees /\ AdoptedTrees' = AdoptedTrees /\ (\A v : Held(v)' = Held(v))
  BY <1>1, <1>4 DEF SnapshotTrees, AdoptedTrees, Held
<1>7. Kept'
  BY <1>1, <1>3, <1>6 DEF Accounted, Kept, WorkKnown, StashesKnown, Backup, DroppedGone, StashIndexes
<1>8. CaptureRight'
  BY <1>1, <1>4, <1>2, <1>6 DEF Accounted, Framed, CaptureRight, Backup, Listed, Tip
<1>9. CommandRight' /\ DropsRight'
  BY <1>1, IdleFramed DEF Accounted, CommandSteps, DropSteps
<1>10. RollbackComes'
  BY <1>1, <1>3, NotYetBack
<1>11. QED BY <1>5, <1>7, <1>8, <1>9, <1>10 DEF Accounted, Framed

\* The backup is registered, and applied or not: a worktree to which it was
\* not is claimed.
LEMMA RegisteredKept ==
    ASSUME CInv, Accounted, IInv', pc = "snapshotApply", AfterCapture,
           snapshots' = Append(snapshots, NewSnapshot(capture.backup)),
           UNCHANGED <<start, adopted, capture, journal>>, mutated \subseteq mutated', Onward,
           \/ git' = ApplyStash(git, capture.tree, capture.backup)
           \/ git' = git /\ capture.tree \in mutated'
    PROVE  Laid' /\ Kept'
<1> DEFINE w == capture.tree
<1>1. /\ pc \in CaptureSteps
      /\ capture.backup = Backup(w) /\ git.work[w] = {} /\ capture.backup \in {None} \cup Entries
  BY CaptureFacts DEF Accounted, Framed, CaptureRight, CaptureSteps, CInv
<1>2. Backup(w) # None
  BY <1>1 DEF CInv, IInv, FramesOK
<1>3. /\ \A v \in Worktrees \ mutated : Held(v) \/ git.work[v] = start.work[v]
      /\ ~Ending /\ w \in Worktrees /\ w \notin SnapshotTrees \cup mutated
  BY <1>1, CaptureWork
<1>4. /\ RecordsRight' /\ SnapshotTrees' = SnapshotTrees \cup {w}
      /\ \A i \in DOMAIN snapshots' : snapshots'[i].dropped =>
           i \in DOMAIN snapshots /\ snapshots'[i] = snapshots[i]
  BY <1>1, <1>2, SnapshotRecorded
<1>5. git \in RepositoryType /\ start \in RepositoryType /\ capture.backup \in Entries
  BY <1>1, <1>2, TransactionFacts DEF CInv
<1>6. /\ git'.refs = git.refs /\ git'.trees = git.trees /\ git'.head = git.head /\ git'.at = git.at
      /\ git'.unmerged = git.unmerged /\ git'.stashes = git.stashes
      /\ \/ git'.work = [git.work EXCEPT ![w] = git.work[w] \cup capture.backup.edits]
         \/ git'.work = git.work /\ w \in mutated'
  BY <1>3, <1>5, ApplyFields
<1>7. capture.backup.edits = start.work[w] /\ git.work \in [Worktrees -> SUBSET Tokens]
  BY <1>1, <1>5, RepositoryFields DEF Backup
<1>8. Laid'
  BY <1>4, <1>6, PlacesStay DEF CInv, Accounted, Laid, SamePlaces, Claims
<1>9. \A v : ~Held(v)'
  BY DEF Held, AfterCapture
<1>10. \A v \in Worktrees \ mutated' : git'.work[v] = start.work[v]
  BY <1>1, <1>3, <1>6, <1>7 DEF Held
<1>11. WorkKnown'
  BY <1>10 DEF WorkKnown
<1>12. StashesKnown'
  BY <1>6, <1>3, <1>4 DEF StashesKnown, Backup, Accounted, Kept, Held
<1>13. DroppedGone'
  BY <1>4, <1>6 DEF Accounted, Kept, DroppedGone, StashIndexes
<1>14. QED BY <1>8, <1>11, <1>12, <1>13 DEF Kept

\* The application succeeds, or fails.
LEMMA ApplyAccounted ==
    ASSUME CInv, Accounted, IInv', SnapshotApply \/ CaptureApplyFails, UNCHANGED handlerVars
    PROVE  Accounted'
BY CaptureWork, RegisteredKept, CapturedAccounted DEF SnapshotApply, CaptureApplyFails, AfterCapture, Captured,
  claims, frames, handlerVars, CaptureSteps, Onward

\* A capture fails before its backup is known: nobody will claim its entry.
LEMMA LostAccounted ==
    ASSUME CInv, Accounted, IInv', CaptureFails, UNCHANGED handlerVars PROVE Accounted'
<1>1. /\ pc \in {"snapshot", "snapshotRef"} /\ AfterCapture /\ Ending'
      /\ UNCHANGED <<git, start, snapshots, adopted, owned, journal, mutated, capture, switching>>
  BY DEF CaptureFails, AfterCapture, Ending, ledger, claims, frames, handlerVars
<1>2. pc \in CaptureSteps
  BY <1>1 DEF CaptureSteps
<1>3. /\ outcome = "running" /\ phase \in {"begin", "forward"} /\ ~Ending
      /\ \A v \in Worktrees \ mutated : Held(v) \/ git.work[v] = start.work[v]
      /\ capture.tree \notin SnapshotTrees
  BY <1>2, CaptureWork
<1>4. /\ phase' \in {phase, "settle"} /\ outcome' \in {outcome, "refused"} /\ pc' # "protected"
  BY DEF CaptureFails
<1>5. Laid'
  BY <1>1, <1>3, ClaimLaid DEF CInv, Accounted, SamePlaces, SameRecords, Claims, Onward
<1>6. SnapshotTrees' = SnapshotTrees
  BY <1>1 DEF SnapshotTrees
<1>7. Kept'
  <2>1. ASSUME NEW v \in Worktrees \ mutated, Held(v) PROVE Unclaimed(v)'
    BY <1>1, <2>1, TransactionFacts, RepositoryFields, <1>3, <1>6 DEF Held, Accounted, Framed, CaptureRight,
      CInv, Unclaimed, Backup
  <2>2. WorkKnown'
    BY <1>1, <1>3, <2>1 DEF WorkKnown
  <2>3. StashesKnown'
    BY <1>1 DEF Accounted, Kept, StashesKnown, Backup
  <2>4. DroppedGone'
    BY <1>1 DEF Accounted, Kept, DroppedGone, StashIndexes
  <2>5. QED BY <2>2, <2>3, <2>4 DEF Kept
<1>8. QED BY <1>1, <1>2, <1>3, <1>4, <1>5, <1>7, CapturedAccounted

\* A sibling is adopted: it is snapshotted, and there since the run began.
LEMMA OwnAdoptedAccounted ==
    ASSUME CInv, Accounted, IInv', OwnAdopted, UNCHANGED handlerVars PROVE Accounted'
<1> DEFINE w == capture.tree
           a == [tree |-> w, listed |-> capture.listed]
<1>1. /\ pc = "protected" /\ pc' = "save"
      /\ adopted' = IF w \in AdoptedTrees THEN adopted ELSE Append(adopted, a)
      /\ mutated' = mutated \cup {w}
      /\ UNCHANGED <<git, start, snapshots, owned, journal, phase, outcome, cmd, capture, switching>>
  BY DEF OwnAdopted, frames, handlerVars
<1>2. phase = "forward" /\ outcome = "running" /\ capture \in Captures /\ w \in Worktrees
  BY <1>1, CaptureFacts DEF CInv, IInv, PhaseOK, ReportsInOrder, HandlerSteps
<1>3. w \in start.trees \ {Caller} /\ (w \notin AdoptedTrees => capture.listed = Listed(start, w))
  BY <1>1, <1>2 DEF Accounted, Framed, CaptureRight
<1>4. w \in SnapshotTrees /\ SnapshotTrees' = SnapshotTrees
  BY <1>1 DEF CInv, IInv, CoveredOK, SnapshotTrees
<1>5. adopted \in Seq(Adoptions) /\ a.tree = w /\ a.listed = capture.listed
  BY TransactionFacts DEF CInv
<1> HIDE DEF w, a
<1>6. w \notin AdoptedTrees =>
        LET n == Len(adopted) + 1
        IN /\ DOMAIN adopted' = DOMAIN adopted \cup {n} /\ n \notin DOMAIN adopted /\ adopted'[n] = a
           /\ \A i \in DOMAIN adopted : adopted'[i] = adopted[i]
  BY <1>1, <1>5
<1>7. AdoptedTrees' = AdoptedTrees \cup {w}
  BY <1>1, <1>5, <1>6 DEF AdoptedTrees
<1>8. RefsKnown' /\ CallerKnown' /\ UnmergedKnown'
  BY <1>1 DEF Accounted, Laid, RefsKnown, CallerKnown, UnmergedKnown, OwnPlace
<1>9. PlacesKnown'
  BY <1>2, <1>3, <1>1, <1>7 DEF Accounted, Laid, PlacesKnown, Elsewhere, w, OwnPlace
<1>10. RecordsRight'
  BY <1>1, <1>4, <1>3, <1>5, <1>6 DEF Accounted, Laid, RecordsRight, AdoptedTrees, Backup, Listed, Tip
<1>11. Kept'
  BY <1>1, KeptStays DEF Accounted, NothingHeld, Ending
<1>12. Framed'
  BY <1>1, <1>7 DEF CaptureRight, CaptureSteps, Accounted, Framed, CommandRight, CommandSteps, w, DropsRight,
    DropSteps
<1>13. RollbackComes'
  BY <1>1, <1>2, NotYetBack
<1>14. QED BY <1>8, <1>9, <1>10, <1>11, <1>12, <1>13 DEF Accounted, Laid

\* Every step of a capture.
LEMMA CaptureAccounted ==
    ASSUME CInv, Accounted, IInv', Capture, UNCHANGED handlerVars PROVE Accounted'
BY CleanAccounted, BackedUpAccounted, BeginAccounted, RefAccounted, ApplyAccounted, LostAccounted,
  OwnAdoptedAccounted DEF Capture

----------------------------------------
\* The account: drops and the cleanup

\* Of the snapshots only their marks change.
MarksOnly ==
    /\ UNCHANGED <<start, adopted, mutated, journal>>
    /\ DOMAIN snapshots' = DOMAIN snapshots
    /\ \A k \in DOMAIN snapshots :
         /\ snapshots'[k].tree = snapshots[k].tree /\ snapshots'[k].listed = snapshots[k].listed
         /\ snapshots'[k].backup = snapshots[k].backup

\* The places are as they were.
LEMMA MarkedLaid ==
    ASSUME IInv, Laid, SamePlaces, MarksOnly, UNCHANGED phase
    PROVE  Laid'
BY PlacesStay DEF MarksOnly, Claims, Onward, SnapshotTrees, Listed, Tip, Backup, Laid, RecordsRight

EndSteps == {"release", "finalize"} \cup DropSteps

\* Once everything is back, drops leave it there.
LEMMA EndComes ==
    ASSUME CInv, Accounted, pc \in EndSteps, UNCHANGED <<start, mutated, phase>>,
           SamePlaces, git'.work = git.work,
           pc' \in EndSteps \cup {"cluster", "cleanup", "done"},
           outcome' = "rolledBack" => Restoring /\ pc' = "done" /\ Undropped' = {}
    PROVE  RollbackComes'
BY DEF EndSteps, DropSteps, Restoring, RollbackComes, Past, Succeeded, AfterCheckout, AfterRefs, AfterTopology,
  AfterContents, Accounted, SamePlaces

\* A step of the drops.
LEMMA EndAccounted ==
    ASSUME CInv, Accounted, IInv', pc \in EndSteps, SamePlaces, git'.work = git.work,
           MarksOnly, UNCHANGED <<phase, switching>>, Kept', owned' \subseteq owned,
           pc' \in EndSteps \cup {"cluster", "cleanup", "done"},
           outcome' = "rolledBack" => Restoring /\ pc' = "done" /\ Undropped' = {},
           pc' \in DropSteps =>
             IF dropping'.slot = 0 THEN dropping'.entry.use \in OwnUses
             ELSE dropping'.entry = snapshots'[dropping'.slot].backup /\ dropping'.entry # None,
           pc' = "drop" /\ dropping'.index \in DOMAIN git'.stashes =>
             git'.stashes[dropping'.index] = dropping'.entry
    PROVE  Accounted'
BY MarkedLaid, EndComes DEF EndSteps, DropSteps, CInv, Accounted, MarksOnly, CaptureRight, CaptureSteps, Framed,
  CommandRight, CommandSteps, DropsRight

\* One that leaves repository and records alone.
LEMMA EndQuiet ==
    ASSUME CInv, Accounted, pc \in EndSteps,
           UNCHANGED <<git, start, ledger, claims, phase>>,
           pc' \in EndSteps \cup {"cluster", "cleanup", "done"}
    PROVE  SamePlaces /\ git'.work = git.work /\ MarksOnly /\ Kept' /\ owned' = owned
BY KeptStays DEF ledger, claims, EndSteps, DropSteps, NothingHeld, Ending, Accounted, SamePlaces, MarksOnly

\* Until a rollback is done it is not reported.
LEMMA NotReported ==
    ASSUME CInv, pc # "done" PROVE outcome # "rolledBack"
BY DEF CInv, ReportsInOrder

\* The entry is looked up in the stash list.
LEMMA ListAccounted ==
    ASSUME CInv, Accounted, IInv', ListEntry, UNCHANGED handlerVars PROVE Accounted'
<1>1. /\ pc = "list" /\ pc' = "drop"
      /\ UNCHANGED <<git, start, ledger, claims, phase, outcome, switching>>
      /\ pc \in EndSteps /\ pc' \in EndSteps /\ pc \in DropSteps
  BY DEF ListEntry, EndSteps, DropSteps, handlerVars
<1>2. PICK i \in StashIndexes(git, dropping.entry) : dropping' = [dropping EXCEPT !.index = i]
  BY DEF ListEntry
<1>3. dropping'.slot = dropping.slot /\ dropping'.entry = dropping.entry /\ dropping'.index = i
  BY <1>1, <1>2, DropFacts DEF CInv, Drops
<1>4. git.stashes[i] = dropping.entry
  BY DEF StashIndexes
<1>5. outcome' # "rolledBack"
  BY <1>1, NotReported
<1>6. SamePlaces /\ git'.work = git.work /\ MarksOnly /\ Kept' /\ owned' = owned /\ snapshots' = snapshots
  BY <1>1, EndQuiet DEF ledger
<1>7. IF dropping.slot = 0 THEN dropping.entry.use \in OwnUses
      ELSE dropping.entry = snapshots[dropping.slot].backup /\ dropping.entry # None
  BY <1>1 DEF Accounted, Framed, DropsRight
<1>8. QED BY <1>1, <1>3, <1>4, <1>5, <1>6, <1>7, EndAccounted

\* An entry is dropped, and marked or not.
LEMMA DroppedKept ==
    ASSUME CInv, Accounted, pc = "drop", dropping.index \in DOMAIN git.stashes,
           git' = DropStashAt(git, dropping.index), UNCHANGED <<start, adopted, mutated, journal, phase>>,
           Released \/ UNCHANGED snapshots
    PROVE  SamePlaces /\ git'.work = git.work /\ MarksOnly /\ Kept'
<1> DEFINE i == dropping.index
<1>1. /\ pc \in DropSteps /\ git.stashes[i] = dropping.entry
      /\ IF dropping.slot = 0 THEN dropping.entry.use \in OwnUses
         ELSE dropping.entry = snapshots[dropping.slot].backup /\ dropping.entry # None
  BY DEF Accounted, Framed, DropsRight, DropSteps
<1>2. dropping.slot # 0 => dropping.slot \in DOMAIN snapshots
  BY <1>1, DropFacts DEF CInv
<1>3. git \in RepositoryType /\ snapshots \in Seq(Snapshots)
  BY TransactionFacts DEF CInv
<1>4. SamePlaces /\ git'.work = git.work
  BY <1>3, TakenOut DEF SamePlaces
<1>5. /\ DOMAIN snapshots' = DOMAIN snapshots
      /\ \A k \in DOMAIN snapshots :
           /\ snapshots'[k].tree = snapshots[k].tree /\ snapshots'[k].listed = snapshots[k].listed
           /\ snapshots'[k].backup = snapshots[k].backup
           /\ snapshots'[k].dropped = snapshots[k].dropped \/ snapshots[k].backup = git.stashes[i]
  <2>1. CASE snapshots' = snapshots
    BY <2>1
  <2>2. CASE snapshots' # snapshots
    <3>1. dropping.slot # 0 /\ snapshots' = [snapshots EXCEPT ![dropping.slot].dropped = TRUE]
      BY <2>2 DEF Released
    <3>2. \A k \in DOMAIN snapshots : snapshots[k] \in Snapshots
      BY <1>3
    <3>3. QED BY <1>1, <1>2, <3>1, <3>2 DEF Snapshots
  <2>3. QED BY <2>1, <2>2
<1>6. git.stashes[i].use # "snapshot" \/ git.stashes[i].tree \in SnapshotTrees
  <2>1. CASE dropping.slot = 0
    BY <1>1, <2>1 DEF OwnUses
  <2>2. CASE dropping.slot # 0
    <3>1. dropping.entry = Backup(snapshots[dropping.slot].tree)
      BY <1>1, <1>2, <2>2 DEF Accounted, Laid, RecordsRight
    <3>2. QED BY <1>1, <1>2, <2>2, <3>1 DEF Backup, SnapshotTrees
  <2>3. QED BY <2>1, <2>2
<1>8. NothingHeld
  BY DEF NothingHeld
<1>9. Ending => Ending'
  BY DEF Ending
<1>10. Kept'
  BY <1>5, <1>6, <1>8, <1>9, KeptTakenOut DEF CInv, Accounted
<1>11. QED BY <1>4, <1>5, <1>10 DEF MarksOnly

\* It is dropped, and marked where it belongs to a snapshot.
LEMMA DropAccounted ==
    ASSUME CInv, Accounted, IInv', DropEntry, UNCHANGED handlerVars PROVE Accounted'
BY DroppedKept, NotReported, EndAccounted DEF DropEntry, claims, handlerVars, AfterDrop, Released, EndSteps,
  DropSteps

\* Or the drop fails, before or after it took effect.
LEMMA DropFailsAccounted ==
    ASSUME CInv, Accounted, IInv', DropFails, UNCHANGED handlerVars PROVE Accounted'
BY NotReported, EndQuiet, DroppedKept, EndAccounted DEF DropFails, Fail, DropSteps, EndSteps, ledger, claims,
  handlerVars

\* The backups are dropped one by one, then the result is reported.
LEMMA FinalizingAccounted ==
    ASSUME CInv, Accounted, IInv', FinalizeNext \/ Finalized \/ ReleaseOwned, UNCHANGED handlerVars
    PROVE  Accounted'
<1>1. /\ pc \in {"finalize", "release"} /\ pc \in EndSteps
      /\ pc' \in {"list", "done", "finalize"} /\ pc' \in EndSteps \cup {"done"}
      /\ UNCHANGED <<git, start, ledger, claims, phase, switching>>
      /\ UNCHANGED <<snapshots, owned>>
  BY DEF FinalizeNext, Finalized, ReleaseOwned, EndSteps, DropSteps, ledger, handlerVars
<1>2. SamePlaces /\ git'.work = git.work /\ MarksOnly /\ Kept' /\ owned' = owned
  BY <1>1, EndQuiet
<1>3. outcome # "rolledBack"
  BY <1>1, NotReported
<1>4. outcome' = "rolledBack" => Restoring /\ pc' = "done" /\ Undropped' = {}
  BY <1>1, <1>3 DEF FinalizeNext, Finalized, ReleaseOwned, Undropped
<1>5. pc' \in DropSteps =>
        IF dropping'.slot = 0 THEN dropping'.entry.use \in OwnUses
        ELSE dropping'.entry = snapshots'[dropping'.slot].backup /\ dropping'.entry # None
  <2>1. CASE FinalizeNext
    <3>1. PICK i \in Undropped : dropping' = Drop(snapshots[i].backup, i)
      BY <2>1 DEF FinalizeNext
    <3>2. i \in DOMAIN snapshots /\ snapshots[i].backup # None
      BY DEF Undropped
    <3>3. i # 0
      BY <3>2, TransactionFacts DEF CInv
    <3>4. QED BY <1>1, <3>1, <3>2, <3>3 DEF Drop
  <2>2. CASE ReleaseOwned
    BY <2>2 DEF Accounted, Framed, DropsRight, ReleaseOwned, Drop, DropSteps
  <2>3. CASE Finalized
    BY <2>3 DEF Finalized, DropSteps
  <2>4. QED BY <2>1, <2>2, <2>3
<1>6. QED BY <1>1, <1>2, <1>4, <1>5, EndAccounted

\* The cleanup decides what becomes of a failure.
LEMMA CleanupAccounted ==
    ASSUME CInv, Accounted, IInv', Cleanup, UNCHANGED handlerVars PROVE Accounted'
<1>1. /\ pc = "cleanup" /\ pc' \in {"finalize", "done", "inspect"}
      /\ phase' \in {phase, "settle", "rollback"} /\ outcome' \in {outcome, "handoff"}
      /\ (pc' = "inspect" <=> phase' = "rollback") \/ phase = "rollback"
      /\ (pc' = "done" \/ phase' \in {"settle", "rollback"})
      /\ UNCHANGED <<git, start, snapshots, adopted, owned, journal, mutated, cmd, capture, switching>>
  BY DEF Cleanup, CleanupPublished, CleanupOwnershipLost, CleanupRollback, ledger, claims, frames, handlerVars
<1>2. phase = "forward" /\ outcome = "running"
  BY <1>1, InHandler DEF CInv, ReportsInOrder, HandlerSteps
<1>3. Laid'
  BY <1>1, <1>2, ClaimLaid DEF CInv, Accounted, SamePlaces, SameRecords, Claims, Onward
<1>4. Ending'
  BY <1>1 DEF Ending
<1>5. Kept'
  BY <1>1, <1>4, KeptStays DEF Accounted, NothingHeld
<1>6. CaptureRight'
  BY <1>1 DEF CaptureRight, CaptureSteps
<1>7. CommandRight' /\ DropsRight'
  BY <1>1, IdleFramed DEF Accounted, CommandSteps, DropSteps
<1>8. RollbackComes'
  BY <1>1, <1>2, NotYetBack DEF RollbackComes, Past, Succeeded, AfterCheckout, AfterRefs, AfterTopology,
    AfterContents
<1>9. QED BY <1>3, <1>5, <1>6, <1>7, <1>8 DEF Accounted, Framed

----------------------------------------
\* The account: the rollback

\* What a step of the rollback leaves alone.
Back ==
    /\ pc \in RollbackSteps /\ phase \in {"undo", "rollback"}
    /\ UNCHANGED <<start, snapshots, adopted, owned, journal, mutated, switching, phase>>

\* Such a step runs while the run is being taken back.
LEMMA BackFacts ==
    ASSUME CInv, Back
    PROVE  /\ Ending /\ Ending' /\ NothingHeld /\ Onward /\ SameRecords /\ Claims /\ Restoring /\ Restoring'
           /\ outcome = "running"
BY DEF Back, RollbackSteps, NothingHeld, Ending, Onward, SameRecords, Claims, Restoring, CInv, ReportsInOrder

\* It goes on to another.
LEMMA BackAccounted ==
    ASSUME CInv, Accounted, Back, pc' \in RollbackSteps \cup {"finalize"}, Laid', Kept', RollbackComes'
    PROVE  Accounted'
BY IdleFramed DEF CaptureRight, CaptureSteps, RollbackSteps, Accounted, Back, CommandSteps, DropSteps, Framed

\* A step that only looks.
LEMMA LookLaid ==
    ASSUME CInv, Accounted, Back, git' = git PROVE Laid' /\ Kept'
BY BackFacts, ClaimLaid, KeptStays DEF CInv, Accounted, SamePlaces, SameRecords, Claims

\* The rollback lists the checkouts.
LEMMA InspectAccounted ==
    ASSUME CInv, Accounted, IInv', Inspect, UNCHANGED handlerVars PROVE Accounted'
<1>1. /\ pc = "inspect" /\ pc' = "clear" /\ Caller \in git.trees /\ seen' = Listing /\ git' = git
      /\ UNCHANGED <<ledger, claims, start, phase, switching, outcome>>
  BY DEF Inspect, handlerVars
<1>2. Back
  BY <1>1, RollbackFacts DEF CInv, Back, RollbackSteps, ledger, claims
<1>3. Laid' /\ Kept'
  BY <1>1, <1>2, LookLaid
<1>4. seen'.trees[Caller] = Listed(git', Caller)
  BY <1>1, CallerAssumption DEF Listing
<1>5. RollbackComes'
  BY <1>1, <1>2, <1>4, BackFacts DEF RollbackComes, Past, Succeeded, AfterCheckout, AfterRefs, AfterTopology,
    AfterContents
<1>6. QED BY <1>1, <1>2, <1>3, <1>5, BackAccounted DEF RollbackSteps

\* The caller has moved only if it was claimed.
LEMMA CallerInPlace ==
    ASSUME CInv, Accounted, Caller \notin mutated
    PROVE  Listed(git, Caller) = Listed(start, Caller) /\ git.unmerged = {}
BY DEF Accounted, Laid, CallerKnown, OwnPlace, UnmergedKnown, Listed, Tip

\* A hard reset to the tip a checkout has moves no branch.
LEMMA ResetInPlace ==
    ASSUME NEW g \in RepositoryType, NEW w \in Worktrees, Tip(g, w) # None
    PROVE  LET h == ResetHard(g, w, Tip(g, w))
           IN /\ h.refs = g.refs /\ h.head = g.head /\ h.at = g.at /\ h.trees = g.trees
              /\ h.stashes = g.stashes /\ h.unmerged = g.unmerged \ {w} /\ h.work[w] = {}
              /\ \A v \in Worktrees \ {w} : h.work[v] = g.work[v]
<1> DEFINE h == ResetHard(g, w, Tip(g, w))
<1>1. Tip(g, w) \in Commits
  BY TipType
<1>2. /\ h \in RepositoryType /\ TipMoves(g, h, w) /\ h.work[w] = {} /\ h.unmerged = g.unmerged \ {w}
      /\ g.head[w] # None => h.refs = [g.refs EXCEPT ![g.head[w]] = Tip(g, w)]
      /\ g.head[w] = None => h.refs = g.refs
  BY <1>1, ResetHardType, ResetFields
<1>3. h.at = g.at
  <2>1. CASE g.head[w] # None
    BY <1>2, <2>1, RepositoryFields DEF TipMoves
  <2>2. CASE g.head[w] = None
    BY <2>2, RepositoryFields DEF ResetHard, MoveTip, Tip, RepositoryType
  <2>3. QED BY <2>1, <2>2
<1>4. h.refs = g.refs
  BY <1>2, RepositoryFields DEF Tip
<1>5. QED BY <1>2, <1>3, <1>4 DEF TipMoves

\* The worktree of the caller is cleared where it was touched.
LEMMA ClearAccounted ==
    ASSUME CInv, Accounted, IInv', ClearCaller, UNCHANGED handlerVars PROVE Accounted'
<1>1. /\ pc = "clear" /\ pc' \in {"checkout", "refs"}
      /\ UNCHANGED <<ledger, claims, start, phase, switching, outcome, seen>>
  BY DEF ClearCaller, handlerVars, frames
<1>2. Back
  BY <1>1, RollbackFacts DEF CInv, Back, RollbackSteps, ledger, claims
<1>3. seen.trees[Caller] = Listed(git, Caller)
  BY <1>1 DEF Accounted, RollbackComes
<1>4. CASE CallerMutated
  <2>1. /\ Tip(git, Caller) # None /\ git' = ResetHard(git, Caller, Tip(git, Caller)) /\ pc' = "checkout"
    BY <1>3, <1>4 DEF ClearCaller, Listed
  <2>2. Caller \in mutated
    BY <1>3, <1>4, CallerInPlace DEF CallerMutated
  <2>3. /\ git'.refs = git.refs /\ git'.head = git.head /\ git'.at = git.at /\ git'.trees = git.trees
        /\ git'.stashes = git.stashes /\ git'.unmerged = git.unmerged \ {Caller}
        /\ \A v \in Worktrees \ {Caller} : git'.work[v] = git.work[v]
    BY <2>1, ResetInPlace, TransactionFacts DEF CInv
  <2>4. git'.unmerged = {}
    BY <2>3 DEF Accounted, Laid, UnmergedKnown
  <2>5. Laid'
    BY <1>2, <2>2, <2>3, BackFacts, ConflictLaid DEF CInv, Accounted, Back
  <2>6. Kept'
    BY <1>2, <2>2, <2>3, BackFacts, KeptStays DEF Accounted, SameRecords, Back
  <2>7. seen'.trees[Caller].head = git'.head[Caller] /\ seen'.trees[Caller].commit = Tip(git', Caller)
    BY <1>1, <1>3, <2>3 DEF Listed, Tip
  <2>8. RollbackComes'
    BY <1>1, <1>2, <2>1, <2>4, <2>7, BackFacts DEF RollbackComes, Past, Succeeded, AfterCheckout, AfterRefs,
      AfterTopology, AfterContents
  <2>9. QED BY <1>2, <2>1, <2>5, <2>6, <2>8, BackAccounted DEF RollbackSteps
<1>5. CASE ~CallerMutated
  <2>1. git' = git /\ pc' = "refs"
    BY <1>5 DEF ClearCaller
  <2>2. Laid' /\ Kept'
    BY <1>2, <2>1, LookLaid
  <2>3. git.unmerged = {} /\ git.head[Caller] = start.head[Caller]
    BY <1>5, CallerInPlace DEF CallerMutated, Accounted, Laid, CallerKnown, OwnPlace
  <2>4. RollbackComes'
    BY <1>1, <1>2, <2>1, <2>3, BackFacts DEF RollbackComes, Past, Succeeded, AfterCheckout, AfterRefs,
      AfterTopology, AfterContents, Back
  <2>5. QED BY <1>2, <2>1, <2>2, <2>4, BackAccounted DEF RollbackSteps
<1>6. QED BY <1>4, <1>5

\* The branches are listed; what is not in the journal is where it was.
LEMMA ListReferencesAccounted ==
    ASSUME CInv, Accounted, IInv', ListReferences, UNCHANGED handlerVars PROVE Accounted'
<1>1. /\ pc = "refs" /\ pc' = "ref" /\ seen' = Listing /\ pending' = Journaled /\ git' = git
      /\ UNCHANGED <<ledger, claims, start, phase, switching, outcome>>
  BY DEF ListReferences, handlerVars
<1>2. Back
  BY <1>1, RollbackFacts DEF CInv, Back, RollbackSteps, ledger, claims
<1>3. Laid' /\ Kept'
  BY <1>1, <1>2, LookLaid
<1>4. \A b \in Branches : IF b \in pending' THEN seen'.refs[b] = git'.refs[b]
                          ELSE git'.refs[b] = start'.refs[b]
  BY <1>1 DEF Listing, Journaled, Accounted, Laid, RefsKnown
<1>5. git.unmerged = {} /\ git.head[Caller] = start.head[Caller]
  BY <1>1, <1>2, BackFacts DEF Accounted, RollbackComes, Past, AfterCheckout
<1>6. RollbackComes'
  BY <1>1, <1>2, <1>4, <1>5, BackFacts DEF RollbackComes, Past, Succeeded, AfterCheckout, AfterRefs,
    AfterTopology, AfterContents
<1>7. QED BY <1>1, <1>2, <1>3, <1>6, BackAccounted DEF RollbackSteps

\* With none pending, all branches are where they were.
LEMMA ReferencesRestoredAccounted ==
    ASSUME CInv, Accounted, IInv', ReferencesRestored, UNCHANGED handlerVars PROVE Accounted'
<1>1. /\ pc = "ref" /\ pc' = "topology" /\ seen' = Listing /\ pending = {} /\ cursor' = 1 /\ git' = git
      /\ UNCHANGED <<ledger, claims, start, phase, switching, outcome>>
  BY DEF ReferencesRestored, handlerVars
<1>2. Back
  BY <1>1, RollbackFacts DEF CInv, Back, RollbackSteps, ledger, claims
<1>3. Laid' /\ Kept'
  BY <1>1, <1>2, LookLaid
<1>4. git.refs = start.refs
  BY <1>1, TransactionFacts, RepositoryFields DEF Accounted, RollbackComes, CInv
<1>5. git.unmerged = {} /\ git.head[Caller] = start.head[Caller]
  BY <1>1, <1>2, BackFacts DEF Accounted, RollbackComes, Past, AfterCheckout
<1>6. \A j \in DOMAIN adopted : j \in Nat /\ j # 0 /\ adopted[j].tree \in Worktrees
  <2>1. adopted \in Seq(Adoptions)
    BY TransactionFacts DEF CInv
  <2>2. \A j \in DOMAIN adopted : j \in Nat /\ j # 0 /\ adopted[j] \in Adoptions
    BY <2>1
  <2>3. QED BY <2>2 DEF Adoptions
<1>7. \A j \in DOMAIN adopted : ~(j < cursor') /\ seen'.trees[adopted[j].tree] =
                   (IF adopted[j].tree \in git'.trees THEN Listed(git', adopted[j].tree) ELSE None)
  BY <1>1, <1>6 DEF Listing
<1>8. RollbackComes'
  BY <1>2, <1>7, <1>1, <1>4, <1>5, BackFacts DEF Back, RollbackComes, Past, Succeeded, AfterCheckout, AfterRefs,
    AfterTopology, AfterContents
<1>9. QED BY <1>1, <1>2, <1>3, <1>8, BackAccounted DEF RollbackSteps

\* A checkout, the caller's or an adopted sibling's, goes back to where it was.
LEMMA PlaceLaid ==
    ASSUME CInv, Accounted, Back, NEW w \in Worktrees, w = Caller \/ w \in AdoptedTrees,
           Caller \in mutated \/ w # Caller,
           git'.head[w] = start.head[w], Free(git, w, start.head[w]) \/ start.head[w] = None,
           git'.refs = git.refs, git'.trees = git.trees \cup {w}, git'.unmerged = git.unmerged,
           \A v \in Worktrees \ {w} : git'.head[v] = git.head[v] /\ git'.at[v] = git.at[v]
    PROVE  Laid'
<1>1. AdoptedTrees' = AdoptedTrees /\ phase' \notin {"begin", "forward"} /\ Claims
  BY DEF Back, AdoptedTrees, Claims
<1>2. RefsKnown'
  BY <1>1, RefsStayKnown DEF CInv, Accounted, Laid, Back
<1>3. git.head \in [Worktrees -> {None} \cup Branches] /\ git.trees \subseteq Worktrees
  BY TransactionFacts, RepositoryFields DEF CInv
<1>4. Caller \in git'.trees /\ Caller \in start'.trees
  BY DEF Accounted, Laid, PlacesKnown, Back
<1>5. ASSUME NEW v \in Elsewhere \ AdoptedTrees
      PROVE  /\ OwnPlace(v)' /\ (v \in git'.trees <=> v \in start.trees)
             /\ v \in git'.trees /\ git'.head[v] # None => git'.refs[git'.head[v]] = start.refs[git'.head[v]]
  BY <1>5 DEF Elsewhere, Accounted, Laid, PlacesKnown, OwnPlace, Back
<1>6. \A v \in AdoptedTrees \ git'.trees : git'.head[v] = None
  BY AdoptedWorktrees DEF CInv, Accounted, Laid, PlacesKnown
<1>7. ASSUME NEW u \in git'.trees, NEW v \in git'.trees, u # v, git'.head[u] = git'.head[v]
      PROVE  git'.head[u] = None
  <2>1. CASE u # w /\ v # w
    BY <1>3, <1>7, <2>1 DEF Accounted, Laid, PlacesKnown
  <2>2. CASE u = w \/ v = w
    <3>1. PICK x \in git.trees \ {w} : git'.head[x] = git'.head[u] /\ git'.head[u] = start.head[w]
      BY <1>7, <2>2
    <3>2. git.head[x] = start.head[w] /\ x # w
      BY <1>3, <3>1
    <3>3. x \in Holders(git, start.head[w])
      BY <3>1, <3>2 DEF Holders
    <3>4. start.head[w] = None
      BY <3>2, <3>3 DEF Free
    <3>5. QED BY <3>1, <3>4
  <2>3. QED BY <2>1, <2>2
<1>8. PlacesKnown'
  BY <1>1, <1>4, <1>5, <1>6, <1>7 DEF PlacesKnown, Back
<1>9. RecordsRight'
  BY BackFacts, RecordsStay DEF Accounted, Laid, Back
<1>10. CallerKnown' /\ UnmergedKnown'
  BY CallerAssumption DEF Accounted, Laid, CallerKnown, UnmergedKnown, OwnPlace, Back
<1>11. QED BY <1>2, <1>8, <1>9, <1>10 DEF Laid

\* What was listed at the start.
LEMMA StartListed ==
    ASSUME IInv, NEW w \in Worktrees
    PROVE  /\ Listed(start, w) \in ListedCheckouts /\ Listed(start, w) # None
           /\ Listed(start, w).head = start.head[w] /\ Listed(start, w).commit = Tip(start, w)
BY TransactionFacts, RepositoryFields, TipType, RecordAssumption DEF Listed, ListedCheckouts

\* The caller goes back to its branch.
LEMMA RestoreCallerAccounted ==
    ASSUME CInv, Accounted, IInv', RestoreCaller, UNCHANGED handlerVars PROVE Accounted'
<1>1. /\ pc = "checkout" /\ pc' = "refs"
      /\ UNCHANGED <<ledger, claims, start, phase, switching, outcome>>
  BY DEF RestoreCaller, handlerVars
<1>2. Back
  BY <1>1, RollbackFacts DEF CInv, Back, RollbackSteps, ledger, claims
<1>3. /\ seen.trees[Caller].head = git.head[Caller] /\ seen.trees[Caller].commit = Tip(git, Caller)
      /\ git.unmerged = {}
  BY <1>1 DEF Accounted, RollbackComes
<1>4. Laid' /\ Kept' /\ git'.unmerged = {} /\ git'.head[Caller] = start.head[Caller]
  <2>1. CASE seen.trees[Caller] = Listed(start, Caller)
    BY <2>1, <1>3, <1>2, LookLaid DEF RestoreCaller, Listed
  <2>2. CASE seen.trees[Caller] # Listed(start, Caller)
    <3> DEFINE l == Listed(start, Caller)
    <3>1. CanRestore(Caller, l) /\ git' = Restored(git, Caller, l)
      BY <2>2 DEF RestoreCaller
    <3>2. l \in ListedCheckouts /\ l.head = start.head[Caller]
      BY StartListed, CallerAssumption DEF CInv
    <3>3. HeadMoves(git, git', Caller) /\ git'.head[Caller] = start.head[Caller]
      BY <3>1, <3>2, RestoredFields, TransactionFacts DEF CInv, CanRestore
    <3>4. Caller \in mutated
      BY <2>2, CallerInPlace, <1>1, RollbackFacts, CallerAssumption, <1>3 DEF CInv, RollbackSteps, Listings,
        ListedCheckouts, Listed
    <3>5. Free(git, Caller, start.head[Caller]) \/ start.head[Caller] = None
      BY <3>1, <3>2 DEF CanRestore
    <3>6. Caller \in git.trees
      BY DEF Accounted, Laid, PlacesKnown
    <3>7. git'.trees = git.trees \cup {Caller}
      BY <3>3, <3>6 DEF HeadMoves
    <3>8. Laid'
      BY <1>2, <3>3, <3>4, <3>5, <3>7, PlaceLaid, CallerAssumption DEF HeadMoves
    <3>9. Kept'
      BY <1>2, <3>3, BackFacts, KeptStays DEF HeadMoves, Accounted, SameRecords, Claims
    <3>10. QED BY <1>3, <3>3, <3>8, <3>9 DEF HeadMoves
  <2>3. QED BY <2>1, <2>2
<1>5. RollbackComes'
  BY <1>1, <1>2, <1>4, BackFacts DEF RollbackComes, Past, Succeeded, AfterCheckout, AfterRefs, AfterTopology,
    AfterContents, Back
<1>6. QED BY <1>1, <1>2, <1>4, <1>5, BackAccounted DEF RollbackSteps

\* A journaled branch goes back to where it was.
LEMMA ReferenceLaid ==
    ASSUME CInv, Accounted, Back, NEW b \in Journaled,
           git' = [git EXCEPT !.refs[b] = start.refs[b]]
    PROVE  /\ Laid' /\ Kept' /\ git'.unmerged = git.unmerged /\ git'.head = git.head
           /\ git'.refs = [git.refs EXCEPT ![b] = start.refs[b]]
<1>1. /\ git \in RepositoryType /\ start \in RepositoryType /\ b \in Branches
      /\ git.refs \in [Branches -> {None} \cup Commits] /\ start.refs \in [Branches -> {None} \cup Commits]
      /\ git.head \in [Worktrees -> {None} \cup Branches] /\ git.trees \subseteq Worktrees
  BY TransactionFacts, RepositoryFields DEF CInv, Journaled
<1>2. /\ git'.refs = [git.refs EXCEPT ![b] = start.refs[b]]
      /\ git'.head = git.head /\ git'.at = git.at /\ git'.trees = git.trees
      /\ git'.unmerged = git.unmerged /\ git'.stashes = git.stashes /\ git'.work = git.work
  BY <1>1 DEF RepositoryType
<1>3. \A c \in Branches : git'.refs[c] = IF c = b THEN start.refs[b] ELSE git.refs[c]
  BY <1>1, <1>2
<1>4. AdoptedTrees' = AdoptedTrees /\ phase' \notin {"begin", "forward"} /\ Claims
  BY DEF Back, AdoptedTrees, Claims
<1>5. RefsKnown'
  BY <1>3 DEF Accounted, Laid, RefsKnown, Back, Journaled
<1>6. ASSUME NEW v \in Elsewhere \ AdoptedTrees
      PROVE  /\ OwnPlace(v)' /\ (v \in git'.trees <=> v \in start.trees)
             /\ v \in git'.trees /\ git'.head[v] # None => git'.refs[git'.head[v]] = start.refs[git'.head[v]]
  BY <1>6, <1>1, <1>2, <1>3 DEF Elsewhere, Accounted, Laid, PlacesKnown, OwnPlace, Back
<1>7. PlacesKnown'
  BY <1>2, <1>4, <1>6 DEF Accounted, Laid, PlacesKnown, Back
<1>8. RecordsRight'
  BY BackFacts, RecordsStay DEF Accounted, Laid, Back
<1>9. CallerKnown' /\ UnmergedKnown'
  BY <1>1, <1>2 DEF Accounted, Laid, CallerKnown, UnmergedKnown, OwnPlace, Back
<1>10. Kept'
  BY <1>2, BackFacts, KeptStays DEF Accounted, SameRecords, Claims
<1>11. QED BY <1>2, <1>5, <1>7, <1>8, <1>9, <1>10 DEF Laid

\* One branch after the other goes back.
LEMMA RestoreReferenceAccounted ==
    ASSUME CInv, Accounted, IInv', RestoreReference, UNCHANGED handlerVars PROVE Accounted'
<1>1. /\ pc = "ref" /\ pc' = "ref"
      /\ UNCHANGED <<ledger, claims, start, phase, switching, outcome, seen>>
  BY DEF RestoreReference, handlerVars
<1>2. Back
  BY <1>1, RollbackFacts DEF CInv, Back, RollbackSteps, ledger, claims
<1>3. PICK b \in pending :
         /\ seen.refs[b] = journal[b].expected
         /\ IF seen.refs[b] = journal[b].initial
            THEN UNCHANGED git
            ELSE /\ git.refs[b] = journal[b].expected
                 /\ git' = [git EXCEPT !.refs[b] = journal[b].initial]
         /\ pending' = pending \ {b}
  BY DEF RestoreReference
<1>4. b \in Journaled /\ b \in Branches /\ journal[b].initial = start.refs[b]
  BY <1>1, RollbackFacts DEF CInv, RollbackSteps, Journaled, Accounted, Laid, RefsKnown
<1>5. \A c \in Branches : IF c \in pending THEN seen.refs[c] = git.refs[c] ELSE git.refs[c] = start.refs[c]
  BY <1>1 DEF Accounted, RollbackComes
<1>6. git.unmerged = {} /\ git.head[Caller] = start.head[Caller]
  BY <1>1, <1>2, BackFacts DEF Accounted, RollbackComes, Past, AfterCheckout
<1>7. /\ Laid' /\ Kept' /\ git'.unmerged = git.unmerged /\ git'.head = git.head
      /\ \A c \in Branches : git'.refs[c] = IF c = b THEN start.refs[b] ELSE git.refs[c]
  <2>1. CASE git' = git /\ seen.refs[b] = journal[b].initial
    BY <1>2, <1>3, <1>4, <1>5, <2>1, LookLaid
  <2>2. CASE git' = [git EXCEPT !.refs[b] = journal[b].initial]
    BY <1>4, <2>2, TransactionFacts, RepositoryFields, <1>2, ReferenceLaid DEF CInv
  <2>3. QED BY <1>3, <2>1, <2>2
<1>8. \A c \in Branches : IF c \in pending' THEN seen'.refs[c] = git'.refs[c] ELSE git'.refs[c] = start'.refs[c]
  BY <1>1, <1>3, <1>5, <1>7
<1>9. RollbackComes'
  BY <1>1, <1>2, <1>6, <1>7, <1>8, BackFacts DEF RollbackComes, Past, Succeeded, AfterCheckout, AfterRefs,
    AfterTopology, AfterContents, Back
<1>10. QED BY <1>1, <1>2, <1>7, <1>9, BackAccounted DEF RollbackSteps

\* A rollback that fails reports so.
LEMMA RollbackFailsAccounted ==
    ASSUME CInv, Accounted, IInv', RollbackFails, UNCHANGED handlerVars PROVE Accounted'
<1>1. /\ pc \in RollbackSteps /\ phase \in {"undo", "rollback"} /\ pc' = "done"
      /\ outcome' \in {"handoff", "unreported"}
      /\ UNCHANGED <<git, ledger, claims, start, phase, switching>>
  BY DEF RollbackFails, Fail, Restoring, RollbackSteps, handlerVars
<1>2. Back
  BY <1>1 DEF Back, ledger, claims
<1>3. Laid' /\ Kept'
  BY <1>1, <1>2, LookLaid
<1>4. RollbackComes'
  BY <1>1 DEF RollbackComes, Past, Succeeded, AfterCheckout, AfterRefs, AfterTopology, AfterContents
<1>5. CaptureRight'
  BY <1>1 DEF CaptureRight, CaptureSteps
<1>6. CommandRight' /\ DropsRight'
  BY <1>1, <1>2, IdleFramed DEF Accounted, Back, CommandSteps, DropSteps
<1>7. QED BY <1>3, <1>4, <1>5, <1>6 DEF Accounted, Framed

\* What a rollback that has the branches back finds.
LEMMA PastRefs ==
    ASSUME CInv, Accounted, Back, pc \in {"topology", "contents", "backup"}
    PROVE  git.unmerged = {} /\ git.head[Caller] = start.head[Caller] /\ git.refs = start.refs
BY BackFacts DEF Accounted, RollbackComes, Past, AfterCheckout, AfterRefs

\* One adopted worktree after the other goes back, or is added again.
LEMMA RestoreAdoptedAccounted ==
    ASSUME CInv, Accounted, IInv', RestoreAdopted, UNCHANGED handlerVars PROVE Accounted'
<1> DEFINE w == adopted[cursor].tree
           l == adopted[cursor].listed
           current == seen.trees[w]
<1>1. /\ pc = "topology" /\ pc' = "topology" /\ cursor' = cursor + 1 /\ cursor \in DOMAIN adopted
      /\ UNCHANGED <<ledger, claims, start, phase, switching, outcome, seen>>
      /\ IF current = l THEN UNCHANGED git
         ELSE /\ CanRestore(w, l)
              /\ IF current = None THEN git' = AddTree(git, w, l) ELSE git' = Restored(git, w, l)
  BY DEF RestoreAdopted, handlerVars
<1>2. Back
  BY <1>1, RollbackFacts DEF CInv, Back, RollbackSteps, ledger, claims
<1>3. /\ w \in Worktrees \ {Caller} /\ w \in AdoptedTrees /\ w \in mutated
      /\ l = Listed(start, w)
      /\ \A j \in DOMAIN adopted : adopted[j].tree = w => j = cursor
  BY <1>1, TransactionFacts, RepositoryFields DEF Accounted, Laid, RecordsRight, CInv, AdoptedTrees
<1>4. current = IF w \in git.trees THEN Listed(git, w) ELSE None
  BY TransactionFacts, <1>1 DEF CInv, Accounted, RollbackComes
<1>5. l \in ListedCheckouts /\ l # None /\ l.head = start.head[w]
  BY <1>3, StartListed DEF CInv
<1>6. \A j \in DOMAIN adopted :
            IF j < cursor THEN AtPlace(adopted[j].tree)
            ELSE seen.trees[adopted[j].tree] =
                   (IF adopted[j].tree \in git.trees THEN Listed(git, adopted[j].tree) ELSE None)
  BY <1>1 DEF Accounted, RollbackComes
<1>7. git.unmerged = {} /\ git.head[Caller] = start.head[Caller] /\ git.refs = start.refs
  BY <1>1, <1>2, PastRefs
<1> HIDE DEF w, l, current
<1>8. /\ Laid' /\ Kept' /\ git'.refs = git.refs /\ git'.unmerged = git.unmerged
      /\ w \in git'.trees /\ git'.head[w] = start.head[w]
      /\ \A v \in Worktrees \ {w} : /\ git'.head[v] = git.head[v] /\ git'.at[v] = git.at[v]
                                    /\ v \in git'.trees <=> v \in git.trees
  <2>1. CASE current = l
    BY <1>1, <1>4, <1>5, <2>1, <1>2, LookLaid DEF Listed
  <2>2. CASE current # l
    <3>1. CanRestore(w, l)
      BY <1>1, <2>2
    <3>2. l.head = None => l.commit # None
      BY <3>1 DEF CanRestore
    <3>3. /\ git'.refs = git.refs /\ git'.trees = git.trees \cup {w} /\ git'.head[w] = start.head[w]
          /\ git'.unmerged = git.unmerged /\ git'.stashes = git.stashes
          /\ \A v \in Worktrees \ {w} : /\ git'.head[v] = git.head[v] /\ git'.at[v] = git.at[v]
                                        /\ git'.work[v] = git.work[v]
      BY <1>1, <2>2, <1>3, <1>5, <3>2, AddFields, TransactionFacts, <1>4, RestoredFields DEF CInv, HeadMoves
    <3>4. Free(git, w, start.head[w]) \/ start.head[w] = None
      BY <1>5, <3>1 DEF CanRestore
    <3>5. Laid'
      BY <1>2, <1>3, <3>3, <3>4, PlaceLaid
    <3>6. Kept'
      BY <1>2, <1>3, <3>3, BackFacts, KeptStays DEF Accounted, SameRecords, Back
    <3>7. QED BY <3>3, <3>5, <3>6
  <2>3. QED BY <2>1, <2>2
<1>9. /\ \A j \in DOMAIN adopted : j \in Nat /\ j # 0 /\ adopted[j].tree \in Worktrees
      /\ cursor \in Nat
  <2>1. adopted \in Seq(Adoptions) /\ cursor \in Nat
    BY TransactionFacts DEF CInv
  <2>2. \A j \in DOMAIN adopted : j \in Nat /\ j # 0 /\ adopted[j] \in Adoptions
    BY <2>1
  <2>3. QED BY <2>1, <2>2 DEF Adoptions
<1>10. ASSUME NEW j \in DOMAIN adopted
       PROVE  IF j < cursor' THEN AtPlace(adopted[j].tree)'
              ELSE seen'.trees[adopted[j].tree] =
                     (IF adopted[j].tree \in git'.trees THEN Listed(git', adopted[j].tree) ELSE None)
  BY <1>1, <1>2, <1>8, <1>9, <1>3, <1>6 DEF AtPlace, w, Back, Listed, Tip
<1>11. RollbackComes'
  <2>1. git'.head[Caller] = start.head[Caller] /\ cursor' # 0
    BY <1>1, <1>3, <1>7, <1>8, <1>9, CallerAssumption
  <2>2. QED BY <1>1, <1>2, <1>7, <1>8, <1>10, <2>1, BackFacts DEF RollbackComes, Past, Succeeded, AfterCheckout,
    AfterRefs, AfterTopology, AfterContents, Back
<1>12. QED BY <1>1, <1>2, <1>8, <1>11, BackAccounted DEF RollbackSteps

\* With all adopted worktrees back, every checkout is where it was.
LEMMA AdoptedRestoredAccounted ==
    ASSUME CInv, Accounted, IInv', AdoptedRestored, UNCHANGED handlerVars PROVE Accounted'
<1>1. /\ pc = "topology" /\ pc' = "contents" /\ cursor' = 1 /\ cursor \notin DOMAIN adopted
      /\ UNCHANGED <<git, ledger, claims, start, phase, switching, outcome>>
  BY DEF AdoptedRestored, handlerVars
<1>2. Back
  BY <1>1, RollbackFacts DEF CInv, Back, RollbackSteps, ledger, claims
<1>3. Laid' /\ Kept'
  BY <1>1, <1>2, LookLaid
<1>4. git.unmerged = {} /\ git.head[Caller] = start.head[Caller] /\ git.refs = start.refs
  BY <1>1, <1>2, PastRefs
<1>5. \A j \in DOMAIN adopted : AtPlace(adopted[j].tree)
  BY <1>1, TransactionFacts DEF CInv, Accounted, RollbackComes
<1>6. /\ git.head \in [Worktrees -> {None} \cup Branches] /\ start.head \in [Worktrees -> {None} \cup Branches]
      /\ git.trees \subseteq Worktrees /\ start.trees \subseteq Worktrees
  BY TransactionFacts, RepositoryFields DEF CInv
<1>7. ASSUME NEW w \in Worktrees
      PROVE  git.head[w] = start.head[w] /\ (w \in git.trees <=> w \in start.trees)
  BY <1>4, <1>5 DEF Accounted, Laid, PlacesKnown, AdoptedTrees, RecordsRight, AtPlace, Elsewhere, OwnPlace
<1>8. git.head = start.head /\ git.trees = start.trees
  BY <1>6, <1>7
<1>9. \A j \in DOMAIN snapshots : ~(j < cursor')
  BY TransactionFacts, <1>1 DEF CInv
<1>10. RollbackComes'
  BY <1>1, <1>2, <1>4, <1>8, <1>9, BackFacts DEF RollbackComes, Past, Succeeded, AfterCheckout, AfterRefs,
    AfterTopology, AfterContents, Back
<1>11. QED BY <1>1, <1>2, <1>3, <1>10, BackAccounted DEF RollbackSteps

\* What a rollback that has the checkouts back finds.
LEMMA PastTopology ==
    ASSUME CInv, Accounted, Back, pc \in {"contents", "backup"}
    PROVE  /\ git.unmerged = {} /\ git.refs = start.refs /\ git.head = start.head /\ git.trees = start.trees
           /\ cursor \in Nat /\ cursor # 0 /\ snapshots \in Seq(Snapshots)
           /\ \A j \in DOMAIN snapshots :
                /\ j \in Nat /\ j # 0 /\ snapshots[j].tree \in Worktrees
                /\ j < cursor /\ snapshots[j].tree \in mutated =>
                     git.work[snapshots[j].tree] = start.work[snapshots[j].tree]
<1>1. snapshots \in Seq(Snapshots) /\ cursor \in Nat
  BY TransactionFacts DEF CInv
<1>2. \A j \in DOMAIN snapshots : j \in Nat /\ j # 0 /\ snapshots[j] \in Snapshots
  BY <1>1
<1>3. \A j \in DOMAIN snapshots : snapshots[j].tree \in Worktrees
  BY <1>2 DEF Snapshots
<1>4. Past(AfterTopology)
  BY BackFacts DEF Past, AfterTopology
<1>5. QED BY <1>1, <1>2, <1>3, <1>4, PastRefs DEF Accounted, RollbackComes

\* The files of a worktree go, or come back.
LEMMA FilesLaid ==
    ASSUME CInv, Accounted, Back, pc \in {"contents", "backup"}, NEW w \in Worktrees,
           git'.refs = git.refs, git'.head = git.head, git'.trees = git.trees,
           git'.unmerged = git.unmerged, git'.stashes = git.stashes,
           \A v \in Worktrees : git'.at[v] = git.at[v] \/ git'.at[v] = start.at[v],
           \A v \in Worktrees \ {w} : git'.work[v] = git.work[v],
           w \in mutated \/ git'.work[w] = start.work[w]
    PROVE  Laid' /\ Kept'
<1>1. AdoptedTrees' = AdoptedTrees /\ phase' \notin {"begin", "forward"} /\ Claims /\ SnapshotTrees' = SnapshotTrees
  BY DEF Back, AdoptedTrees, Claims, SnapshotTrees
<1>2. RefsKnown'
  BY <1>1, RefsStayKnown DEF CInv, Accounted, Laid, Back
<1>3. PlacesKnown'
  BY <1>1 DEF Accounted, Laid, PlacesKnown, OwnPlace, Back, Elsewhere
<1>4. RecordsRight'
  BY BackFacts, RecordsStay DEF Accounted, Laid, Back
<1>5. CallerKnown' /\ UnmergedKnown'
  BY CallerAssumption DEF Accounted, Laid, CallerKnown, UnmergedKnown, OwnPlace, Back
<1>6. \A v : ~Held(v)
  BY DEF Held
<1>7. WorkKnown'
  BY <1>1, BackFacts, <1>6 DEF Unclaimed, Back, Accounted, Kept, WorkKnown
<1>8. StashesKnown' /\ DroppedGone'
  BY <1>1, <1>6, BackFacts DEF Accounted, Kept, StashesKnown, DroppedGone, StashIndexes, Backup, Back
<1>9. QED BY <1>2, <1>3, <1>4, <1>5, <1>7, <1>8 DEF Laid, Kept

\* A touched worktree is reset to where it was, which moves no branch.
LEMMA ResetSnapshotAccounted ==
    ASSUME CInv, Accounted, IInv', ResetSnapshot, UNCHANGED handlerVars PROVE Accounted'
<1> DEFINE s == snapshots[cursor]
<1>1. /\ pc = "contents" /\ pc' \in {"contents", "backup"} /\ cursor \in DOMAIN snapshots
      /\ UNCHANGED <<ledger, claims, start, phase, switching, outcome>>
      /\ IF s.tree \notin mutated
          THEN cursor' = cursor + 1 /\ UNCHANGED <<git, pc>>
          ELSE /\ s.listed.commit # None
               /\ git' = ResetHard(git, s.tree, s.listed.commit)
               /\ pc' = "backup"
               /\ UNCHANGED cursor
  BY DEF ResetSnapshot, handlerVars
<1>2. Back
  BY <1>1, RollbackFacts DEF CInv, Back, RollbackSteps, ledger, claims
<1>3. /\ git.unmerged = {} /\ git.refs = start.refs /\ git.head = start.head /\ git.trees = start.trees
      /\ cursor \in Nat /\ cursor # 0 /\ snapshots \in Seq(Snapshots)
      /\ \A j \in DOMAIN snapshots :
           /\ j \in Nat /\ j # 0 /\ snapshots[j].tree \in Worktrees
           /\ j < cursor /\ snapshots[j].tree \in mutated =>
                git.work[snapshots[j].tree] = start.work[snapshots[j].tree]
  BY <1>1, <1>2, PastTopology
<1>4. CASE s.tree \notin mutated
  <2>1. git' = git /\ pc' = "contents" /\ cursor' = cursor + 1
    BY <1>1, <1>4
  <2>2. Laid' /\ Kept'
    BY <1>2, <2>1, LookLaid
  <2>3. \A j \in DOMAIN snapshots : j < cursor' /\ snapshots[j].tree \in mutated =>
                git.work[snapshots[j].tree] = start.work[snapshots[j].tree]
    BY <1>4, <1>3, <2>1
  <2>4. cursor' # 0
    BY <1>3, <2>1
  <2>5. RollbackComes'
    BY <1>1, <1>2, <1>3, <2>1, <2>3, <2>4, BackFacts DEF RollbackComes, Past, Succeeded, AfterCheckout,
      AfterRefs, AfterTopology, AfterContents, Back
  <2>6. QED BY <1>2, <2>1, <2>2, <2>5, BackAccounted DEF RollbackSteps
<1>5. CASE s.tree \in mutated
  <2>1. s.listed = Listed(start, s.tree) /\ s.tree \in Worktrees
    BY <1>1, <1>3 DEF Accounted, Laid, RecordsRight
  <2>2. /\ git' = ResetHard(git, s.tree, Tip(start, s.tree)) /\ Tip(start, s.tree) # None
        /\ pc' = "backup" /\ cursor' = cursor
    BY <1>1, <1>5, <2>1 DEF Listed
  <2> DEFINE w == s.tree
  <2>3. /\ \A j \in DOMAIN snapshots : snapshots[j].tree = w => j = cursor
        /\ w \in Worktrees
    BY <1>1, <2>1 DEF Accounted, Laid, RecordsRight
  <2> HIDE DEF w
  <2>4. Tip(start, w) \in Commits
    BY <2>2, <2>3, TipType, TransactionFacts DEF CInv, w
  <2>5. /\ TipMoves(git, git', w) /\ git'.work[w] = {} /\ git'.unmerged = git.unmerged \ {w}
        /\ git.head[w] # None => git'.refs = [git.refs EXCEPT ![git.head[w]] = Tip(start, w)]
        /\ git.head[w] = None => git'.refs = git.refs
    BY <2>2, <2>3, <2>4, ResetFields, TransactionFacts DEF CInv, w
  <2>6. git'.refs = git.refs
    BY TransactionFacts, RepositoryFields, <1>3, <2>5 DEF CInv, Tip
  <2>7. \A v \in Worktrees : git'.at[v] = git.at[v] \/ git'.at[v] = start.at[v]
    <3>1. \A v \in Worktrees \ {w} : git'.at[v] = git.at[v]
      BY <2>5 DEF TipMoves
    <3>2. CASE git.head[w] # None
      BY <2>5, <3>1, <3>2 DEF TipMoves
    <3>3. CASE git.head[w] = None
      <4>1. Tip(start, w) = start.at[w]
        BY <1>3, <3>3 DEF Tip
      <4>2. MoveTip(git, w, start.at[w]) = [git EXCEPT !.at[w] = start.at[w]]
        BY <3>3 DEF MoveTip
      <4>3. /\ git.at \in [Worktrees -> Commits] /\ start.at \in [Worktrees -> Commits]
            /\ git \in RepositoryType
        BY TransactionFacts, RepositoryFields DEF CInv
      <4>4. [git EXCEPT !.at[w] = start.at[w]].at = [git.at EXCEPT ![w] = start.at[w]]
        BY <4>3 DEF RepositoryType
      <4>5. git'.at = MoveTip(git, w, start.at[w]).at
        BY <2>2, <4>1, <2>3, <2>4, <4>3, MoveTipType DEF ResetHard, w, RepositoryType
      <4>6. git'.at[w] = start.at[w]
        BY <2>3, <4>2, <4>3, <4>4, <4>5
      <4>7. QED BY <3>1, <4>6
    <3>4. QED BY <3>2, <3>3
  <2>8. /\ git'.head = git.head /\ git'.trees = git.trees /\ git'.unmerged = git.unmerged
        /\ git'.stashes = git.stashes /\ \A v \in Worktrees \ {w} : git'.work[v] = git.work[v]
    BY <1>3, <2>5 DEF TipMoves
  <2>9. Laid' /\ Kept'
    BY <1>1, <1>2, <1>5, <2>3, <2>6, <2>7, <2>8, FilesLaid DEF w
  <2>10. \A j \in DOMAIN snapshots : j < cursor /\ snapshots[j].tree \in mutated =>
                git'.work[snapshots[j].tree] = start.work[snapshots[j].tree]
    BY <1>3, <2>3, <2>8
  <2>11. git'.work[snapshots[cursor].tree] = {}
    BY <2>5 DEF w
  <2>12. RollbackComes'
    <3>1. pc' = "backup" /\ cursor' = cursor
      BY <2>2
    <3>2. QED BY <1>1, <1>2, <1>3, <2>6, <2>8, <2>10, <2>11, <3>1, BackFacts DEF RollbackComes, Past, Succeeded,
      AfterCheckout, AfterRefs, AfterTopology, AfterContents, Back
  <2>13. QED BY <1>2, <2>2, <2>9, <2>12, BackAccounted DEF RollbackSteps
<1>6. QED BY <1>4, <1>5

\* Its backup is applied.
LEMMA ApplyBackupAccounted ==
    ASSUME CInv, Accounted, IInv', ApplyBackup, UNCHANGED handlerVars PROVE Accounted'
<1> DEFINE s == snapshots[cursor]
<1>1. /\ pc = "backup" /\ pc' = "contents" /\ cursor' = cursor + 1
      /\ UNCHANGED <<ledger, claims, start, phase, switching, outcome>>
      /\ git' = IF s.backup = None THEN git ELSE ApplyStash(git, s.tree, s.backup)
  BY DEF ApplyBackup, handlerVars
<1>2. Back /\ cursor \in DOMAIN snapshots
  BY <1>1, RollbackFacts DEF CInv, Back, RollbackSteps, ledger, claims
<1>3. /\ git.unmerged = {} /\ git.refs = start.refs /\ git.head = start.head /\ git.trees = start.trees
      /\ cursor \in Nat /\ cursor # 0 /\ snapshots \in Seq(Snapshots)
      /\ \A j \in DOMAIN snapshots :
           /\ j \in Nat /\ j # 0 /\ snapshots[j].tree \in Worktrees
           /\ j < cursor /\ snapshots[j].tree \in mutated =>
                git.work[snapshots[j].tree] = start.work[snapshots[j].tree]
  BY <1>1, <1>2, PastTopology
<1>4. git.work[s.tree] = {}
  BY <1>1 DEF Accounted, RollbackComes
<1>5. /\ s.tree \in Worktrees
      /\ IF s.backup = None THEN start.work[s.tree] = {} ELSE s.backup = Backup(s.tree)
      /\ \A j \in DOMAIN snapshots : snapshots[j].tree = s.tree => j = cursor
  BY <1>2, <1>3 DEF Accounted, Laid, RecordsRight
<1> HIDE DEF s
<1>6. /\ git'.refs = git.refs /\ git'.head = git.head /\ git'.trees = git.trees /\ git'.at = git.at
      /\ git'.unmerged = git.unmerged /\ git'.stashes = git.stashes
      /\ \A v \in Worktrees \ {s.tree} : git'.work[v] = git.work[v]
      /\ git'.work[s.tree] = start.work[s.tree]
  <2>1. CASE s.backup = None
    BY <1>1, <1>4, <1>5, <2>1
  <2>2. CASE s.backup # None
    <3>1. git' = ApplyStash(git, s.tree, s.backup) /\ s.backup = Backup(s.tree)
      BY <1>1, <1>5, <2>2
    <3>2. s.backup \in Entries
      <4>1. snapshots[cursor] \in Snapshots
        BY <1>2, <1>3
      <4>2. QED BY <2>2, <4>1 DEF s, Snapshots
    <3>3. /\ git'.refs = git.refs /\ git'.trees = git.trees /\ git'.head = git.head /\ git'.at = git.at
          /\ git'.unmerged = git.unmerged /\ git'.stashes = git.stashes
          /\ git'.work = [git.work EXCEPT ![s.tree] = git.work[s.tree] \cup s.backup.edits]
      BY <1>5, <3>1, <3>2, ApplyFields, TransactionFacts DEF CInv
    <3>4. s.backup.edits = start.work[s.tree] /\ git.work \in [Worktrees -> SUBSET Tokens]
      BY <3>1, TransactionFacts, RepositoryFields DEF Backup, CInv
    <3>5. QED BY <1>4, <1>5, <3>3, <3>4
  <2>3. QED BY <2>1, <2>2
<1>7. Laid' /\ Kept'
  BY <1>1, <1>2, <1>5, <1>6, FilesLaid
<1>8. \A j \in DOMAIN snapshots : j < cursor' /\ snapshots[j].tree \in mutated =>
                git'.work[snapshots[j].tree] = start.work[snapshots[j].tree]
  BY <1>6, <1>1, <1>3, <1>5 DEF s
<1>9. cursor' # 0
  BY <1>1, <1>3
<1>10. RollbackComes'
  BY <1>1, <1>2, <1>3, <1>6, <1>8, <1>9, BackFacts DEF RollbackComes, Past, Succeeded, AfterCheckout, AfterRefs,
    AfterTopology, AfterContents, Back
<1>11. QED BY <1>1, <1>2, <1>7, <1>10, BackAccounted DEF RollbackSteps

\* Every mutated worktree has a snapshot, so all have their edits.
LEMMA ContentsRestoredAccounted ==
    ASSUME CInv, Accounted, IInv', ContentsRestored, UNCHANGED handlerVars PROVE Accounted'
<1>1. /\ pc = "contents" /\ pc' = "release" /\ cursor \notin DOMAIN snapshots
      /\ UNCHANGED <<git, ledger, claims, start, phase, switching, outcome>>
  BY DEF ContentsRestored, handlerVars
<1>2. Back
  BY <1>1, RollbackFacts DEF CInv, Back, RollbackSteps, ledger, claims
<1>3. Laid' /\ Kept'
  BY <1>1, <1>2, LookLaid
<1>4. /\ git.unmerged = {} /\ git.refs = start.refs /\ git.head = start.head /\ git.trees = start.trees
      /\ cursor \in Nat /\ cursor # 0 /\ snapshots \in Seq(Snapshots)
      /\ \A j \in DOMAIN snapshots :
           /\ j \in Nat /\ j # 0 /\ snapshots[j].tree \in Worktrees
           /\ j < cursor /\ snapshots[j].tree \in mutated =>
                git.work[snapshots[j].tree] = start.work[snapshots[j].tree]
  BY <1>1, <1>2, PastTopology
<1>5. \A w \in mutated : git.work[w] = start.work[w]
  <2> SUFFICES ASSUME NEW w \in mutated PROVE git.work[w] = start.work[w]
    OBVIOUS
  <2>1. PICK j \in DOMAIN snapshots : snapshots[j].tree = w
    BY DEF CInv, IInv, CoveredOK, SnapshotTrees
  <2>2. DOMAIN snapshots = 1 .. Len(snapshots) /\ Len(snapshots) \in Nat
    BY <1>4
  <2>3. j < cursor
    BY <1>1, <1>4, <2>2
  <2>4. QED BY <1>4, <2>1, <2>3
<1>6. RollbackComes'
  BY <1>1, <1>2, <1>4, <1>5, BackFacts DEF RollbackComes, Past, Succeeded, AfterCheckout, AfterRefs,
    AfterTopology, AfterContents, Back
<1>7. QED BY <1>1, <1>2, <1>3, <1>6, BackAccounted DEF RollbackSteps

\* Every step of a rollback is accounted for.
LEMMA RollbackAccounted ==
    ASSUME CInv, Accounted, IInv', Rollback, UNCHANGED handlerVars PROVE Accounted'
BY InspectAccounted, ClearAccounted, RestoreCallerAccounted, ListReferencesAccounted, RestoreReferenceAccounted,
  ReferencesRestoredAccounted, RestoreAdoptedAccounted, AdoptedRestoredAccounted, ResetSnapshotAccounted,
  ApplyBackupAccounted, ContentsRestoredAccounted, FinalizingAccounted, RollbackFailsAccounted DEF Rollback

----------------------------------------
\* What a rollback restores: the theorems

\* So is every step of the transaction.
LEMMA TransactionAccounted ==
    ASSUME CInv, Accounted, IInv', TransactionStep PROVE Accounted'
BY CompleteAccounted, CaptureAccounted, ListAccounted, DropAccounted, DropFailsAccounted, FinalizingAccounted,
  CleanupAccounted, RollbackAccounted DEF TransactionStep, Transaction, Dropping

\* A run starts with nothing claimed, recorded or moved.
LEMMA InitAccounted ==
    ASSUME Alone, Init PROVE Accounted
<1>1. Settled(git)
  BY DEF Init, Alone
<1>2. /\ start = git /\ snapshots = <<>> /\ adopted = <<>> /\ owned = {} /\ mutated = {}
      /\ journal = [b \in Branches |-> None] /\ phase = "begin" /\ pc = "begin" /\ outcome = "running"
      /\ switching = None
  BY DEF Init
<1>3. git \in RepositoryType
  BY InitKeeps, TransactionFacts
<1>4. AdoptedTrees = {} /\ DOMAIN snapshots = {} /\ DOMAIN adopted = {}
  BY <1>2 DEF AdoptedTrees
<1>5. RefsKnown /\ RecordsRight /\ CallerKnown
  BY <1>2, <1>4 DEF RefsKnown, RecordsRight, CallerKnown, OwnPlace
<1>6. PlacesKnown /\ UnmergedKnown
  BY <1>1, <1>2, <1>4 DEF PlacesKnown, UnmergedKnown, Settled, OwnPlace, Exists
<1>7. Kept
  BY <1>1, <1>2, <1>4 DEF Kept, WorkKnown, StashesKnown, DroppedGone, Settled
<1>8. Framed
  BY <1>2 DEF Framed, CaptureRight, CommandRight, DropsRight, CaptureSteps, CommandSteps, DropSteps
<1>9. RollbackComes
  BY <1>2 DEF RollbackComes, Past, Succeeded, Restoring
<1> QED
  BY <1>5, <1>6, <1>7, <1>8, <1>9 DEF Accounted, Laid

\* A step that changes nothing.
LEMMA StutterAccounted ==
    ASSUME Accounted, UNCHANGED vars PROVE Accounted'
<1>1. UNCHANGED <<git, start, snapshots, adopted, owned, journal, mutated, phase, pc, cmd, capture, dropping,
                  seen, pending, cursor, outcome, switching>>
  BY DEF vars, transactionVars, handlerVars, plans, ledger, claims, frames
<1>2. Laid'
  BY <1>1 DEF Accounted, Laid, RefsKnown, PlacesKnown, RecordsRight, CallerKnown, UnmergedKnown, OwnPlace,
    AdoptedTrees, SnapshotTrees, Backup, Listed, Tip
<1>3. Kept'
  BY <1>1 DEF Accounted, Kept, WorkKnown, StashesKnown, DroppedGone, Held, Ending, Unclaimed, SnapshotTrees,
    Backup, StashIndexes
<1>4. CaptureRight' /\ DropsRight'
  BY <1>1 DEF Accounted, Framed, CaptureRight, DropsRight, AdoptedTrees, SnapshotTrees, Listed, Tip, Backup
<1>5. CommandRight'
  BY <1>1 DEF Accounted, Framed, CommandRight, AdoptedTrees, Journaled, MutatedReferences
<1>6. RollbackComes'
  BY <1>1 DEF Accounted, RollbackComes, Past, Succeeded, Restoring, AtPlace, Undropped, Listed, Tip
<1> QED
  BY <1>2, <1>3, <1>4, <1>5, <1>6 DEF Accounted, Framed

\* No one else moves anything.
LEMMA NoOneElse ==
    ASSUME Alone, Outside PROVE FALSE
BY DEF Outside, OutsideCommit, OutsideStash, OutsideIndex, OutsideSwitch, Meanwhile, May, Alone

\* No step of an undisturbed run disturbs the account.
LEMMA AccountKeeps ==
    ASSUME Alone, CInv, Accounted, IInv', [Next]_vars PROVE Accounted'
BY PlanningAccounted, SavingAccounted, SyncingAccounted, AdoptingAccounted, RunCommandAccounted,
  ResolvingAccounted, FailsAccounted, TransactionAccounted, StutterAccounted, NoOneElse DEF Next, Gix, Ended

\* The account of a run that no one disturbs.
LEMMA AccountHolds == ASSUME Alone PROVE Spec => []Accounted
<1>1. Init => OwnsOne /\ ReportsInOrder /\ Accounted
  BY InitAccounted DEF Init, OwnsOne, ReportsInOrder, DropSteps, Finalizing
<1>2. IInv /\ IInv' /\ OwnsOne /\ ReportsInOrder /\ Accounted /\ [Next]_vars
        => OwnsOne' /\ ReportsInOrder' /\ Accounted'
  BY ContractKeeps, AccountKeeps DEF CInv
<1> QED
  BY <1>1, <1>2, Invariance, PTL DEF Spec

\* What has been accounted for tells what a reported rollback restored.
LEMMA AccountRestores ==
    ASSUME IInv, Accounted PROVE RollbackRestores
BY TransactionFacts, RepositoryFields DEF RollbackRestores, Accounted, RollbackComes, Succeeded, Ending, Past,
  Held, Kept, WorkKnown, DroppedGone, Undropped, AsStarted

\* A rollback that is reported restored what was there: every branch, checkout
\* and worktree, and every edit but those a lost capture has in the stash list.
THEOREM RollbackIsExact == ASSUME Alone PROVE Spec => []RollbackRestores
<1>1. IInv /\ Accounted => RollbackRestores
  BY AccountRestores
<1> QED
  BY <1>1, Invariance, AccountHolds, PTL

\* At every moment of a run a rollback would know every branch gix has moved.
THEOREM EveryMoveIsJournaled == ASSUME Alone PROVE Spec => []MovesAreJournaled
<1>1. Accounted => MovesAreJournaled
  BY DEF Accounted, Laid, RefsKnown, MovesAreJournaled, Journaled
<1> QED
  BY <1>1, AccountHolds, PTL
========================================
