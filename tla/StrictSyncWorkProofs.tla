------------------------ MODULE StrictSyncWorkProofs ------------------------
(***************************************************************************)
(* No work is lost: while no one else writes to the repository, every      *)
(* change the operator had when a run of StrictSync began can be found in  *)
(* it at any moment.  WInv says where: on a branch or on the remote, in    *)
(* the worktree it was in, in a stash of the invocation, or in a backup.   *)
(***************************************************************************)
EXTENDS StrictSyncProofs

----------------------------------------
\* Where the operator's work is

\* What is committed on the remote, on any branch, and held in the
\* invocation's own stashes.
Remote(g) == {t \in Tokens : \E b \in Branches : Exists(g.origin, b) /\ t \in g.origin[b]}

Saved(g) ==
    Remote(g) \cup {t \in Tokens : \E b \in Branches : Exists(g.refs, b) /\ t \in g.refs[b]}

OwnStashes(g) ==
    {t \in Tokens : \E i \in DOMAIN g.stashes :
        g.stashes[i].use \in OwnUses /\ t \in g.stashes[i].edits}

\* Where the edits of a worktree may have gone.
Found(g, w) ==
    (IF w \in g.trees THEN g.work[w] ELSE {}) \cup Saved(g)
        \cup (IF w = Caller THEN OwnStashes(g) ELSE {})

BackedUp(w) == \E i \in DOMAIN git.stashes : git.stashes[i] = Backup(w)

\* No checkout is detached at a commit that no branch has: switching away
\* from it would leave the commit to the reflog.
Anchored == \A i \in Invocations : \A w \in i.git.trees : i.git.at[w] \subseteq Saved(i.git)

\* What a run starts from.
Sound(g) ==
    /\ \A w \in g.trees : g.at[w] \subseteq Saved(g)
    /\ \A i \in DOMAIN g.stashes : g.stashes[i].use = "operator"

\* What was committed is still on its branch or on the remote, and the list has
\* what it had, or what of it is the operator's.
Grows(g, h) ==
    /\ Remote(g) \subseteq Remote(h)
    /\ \A b \in Branches : Exists(g.refs, b) =>
         Exists(h.refs, b) /\ g.refs[b] \subseteq h.refs[b] \cup Remote(h)

StashesStay(g, h) ==
    \A i \in DOMAIN g.stashes : \E j \in DOMAIN h.stashes : h.stashes[j] = g.stashes[i]

OperatorsStay(g, h) ==
    \A i \in DOMAIN g.stashes : g.stashes[i].use = "operator" =>
        \E j \in DOMAIN h.stashes : h.stashes[j] = g.stashes[i]

HistoryKept == Sound(start) /\ Grows(start, git) /\ OperatorsStay(start, git)

\* A sibling whose backup could not be put back: it was never adopted.
Unapplied(w) == w \notin AdoptedTrees \cup {Caller}

Claimed == mutated \cap start.trees

Traced(w) == start.work[w] \subseteq Found(git, w)

InPlace(w) == w \in git.trees /\ git.work[w] = start.work[w]

WorkTraced ==
    /\ phase = "begin" => mutated = {}
    /\ phase = "forward" =>
         \A w \in Claimed : \/ Traced(w)
                            \/ Unapplied(w) /\ pc \in {"cleanup", "done"} /\ BackedUp(w)
    /\ phase = "settle" =>
         /\ \A w \in Claimed : Traced(w) \/ Unapplied(w)
         /\ ~published => mutated = {}
    /\ phase = "undo" =>
         /\ pc \in RollbackSteps \ {"release"} => \A w \in Claimed : BackedUp(w)
         /\ (\A w \in Claimed : BackedUp(w)) \/ (\A w \in Claimed : InPlace(w))
    /\ pc = "snapshotApply" => BackedUp(capture.tree)

\* The handler is at one of these steps, or on its way there.
Toward(steps) ==
    \/ pc \in steps
    \/ pc \in CommandSteps /\ cmd.then \in steps
    \/ InAdoption /\ switching.then \in steps

LateSteps == {"sync", "base", "baseAhead", "baseReset", "review", "switch", "align", "alignReset", "follow"}

Clustering == pc \in {"cluster", "generate"} \/ (pc \in CommandSteps /\ cmd.then = "cluster")

\* Where the caller's edits are no longer needed in its worktree.
PutAway == start.work[Caller] \subseteq Saved(git) \cup OwnStashes(git)

CleanOK ==
    /\ Toward(LateSteps) => ~dirty
    /\ pc = "command" /\ cmd.kind = "reset" => ~dirty /\ cmd.then # "cluster"
    /\ pc = "ownInvocation" => git.work[Caller] = {}
    /\ phase = "forward" /\ ~dirty /\ ~Clustering
         /\ pc \notin DropSteps \cup {"status", "finalize", "cleanup", "done"}
         => PutAway

\* Where the caller's checkout holds the branch being synced.
OnBranch ==
    \/ pc \in {"isolation", "dropIsolation", "baseAhead", "baseReset", "align", "alignReset"}
    \/ Clustering
    \/ pc \in CommandSteps /\ cmd.then = "dropIsolation"
    \/ pc \in DropSteps /\ phase = "forward" /\ dropping.slot = 0 /\ cmd.then = "dropIsolation"
    \/ pc = "complete" /\ cmd.kind = "create"
    \/ pc = "command" /\ cmd.kind = "reset"

HeadOK ==
    /\ InAdoption => switching.to = branch
    /\ pc \in CommandSteps /\ cmd.kind \in {"switch", "create"} => cmd.to = branch
    /\ pc \in CommandSteps /\ cmd.then \in {"isolation", "baseAhead", "align"}
         => cmd.kind \in {"switch", "create"}
    /\ OnBranch => git.head[Caller] = branch
    /\ pc \in {"protected", "save"} \/ (pc \in CaptureSteps /\ phase = "forward")
         => git.head[capture.tree] # None
    /\ pc = "command" /\ cmd.kind = "commit" => git.head[cmd.tree] # None

ResetOK ==
    /\ pc \in {"baseReset", "alignReset"} =>
         git.refs[branch] # None /\ ~Beyond(git.refs[branch], git.origin[branch])
    /\ pc = "command" /\ cmd.kind = "reset" =>
         /\ git.refs[branch] # None /\ git.refs[branch] \subseteq cmd.onto
         /\ cmd.onto = git.origin[branch]

\* An owned stash that is dropped, or about to be, has been applied.
AppliedOK ==
    /\ pc \in CommandSteps /\ cmd.then \in {"dropIsolation", "dropOwned"} => cmd.kind = "apply"
    /\ pc = "complete" => cmd.kind \notin {"apply", "switch"}
    /\ pc \in {"dropIsolation", "dropOwned"} => cmd.then = pc
    /\ pc \in {"dropIsolation", "dropOwned"} \/ (pc = "resolve" /\ cmd.kind = "apply") =>
         \A e \in owned : e.edits \subseteq git.work[Caller]
    /\ pc \in DropSteps /\ phase = "forward" /\ dropping.slot = 0 =>
         dropping.entry.edits \subseteq git.work[Caller]

Way == CleanOK /\ HeadOK /\ ResetOK /\ AppliedOK

\* The inductive invariant: what was saved is, the edits can be traced, and the
\* handler is where it does not lose them.
WInv == HistoryKept /\ WorkTraced /\ Way

\* An adoption that could not apply the stash of a sibling, in a run that has
\* published: the cleanup settles, and drops the backup.
LostInAdoption == phase = "settle" /\ published /\ \E w \in mutated : Unapplied(w)

----------------------------------------
\* What grows

\* What grows holds what it held.
LEMMA GrowthHolds ==
    ASSUME NEW g, NEW h, Grows(g, h)
    PROVE  Remote(g) \subseteq Remote(h) /\ Saved(g) \subseteq Saved(h)
BY DEF Grows, Saved, Exists

\* Growth is transitive, and the operator's stashes stay where all do.
LEMMA GrowthGoesOn ==
    ASSUME NEW f, NEW g, NEW h, Grows(f, g), Grows(g, h)
    PROVE  Grows(f, h)
BY GrowthHolds DEF Grows

\* A stash of the operator's stays where all do, and where only theirs do.
LEMMA OperatorsStayOn ==
    ASSUME NEW f, NEW g, NEW h, OperatorsStay(f, g), StashesStay(g, h) \/ OperatorsStay(g, h)
    PROVE  OperatorsStay(f, h)
BY DEF OperatorsStay, StashesStay

\* So do the edits of the invocation's own.
LEMMA OwnStashesStay ==
    ASSUME NEW g, NEW h, StashesStay(g, h)
    PROVE  OwnStashes(g) \subseteq OwnStashes(h)
BY DEF OwnStashes, StashesStay

\* A repository that differs in its checkouts alone.
LEMMA SameGrows ==
    ASSUME NEW g, NEW h, h.refs = g.refs, h.origin = g.origin
    PROVE  Grows(g, h) /\ Saved(h) = Saved(g)
BY DEF Grows, Saved, Remote, Exists

\* The same list has the same stashes.
LEMMA SameStashes ==
    ASSUME NEW g, NEW h, h.stashes = g.stashes
    PROVE  StashesStay(g, h) /\ OwnStashes(h) = OwnStashes(g)
BY DEF StashesStay, OwnStashes

\* What is saved stays saved in a repository that grows.
LEMMA HistoryStays ==
    ASSUME HistoryKept, UNCHANGED start, Grows(git, git'), StashesStay(git, git') \/ OperatorsStay(git, git')
    PROVE  HistoryKept'
BY GrowthGoesOn, OperatorsStayOn DEF HistoryKept, Sound, Saved, Remote

\* A commit, a merge or a fast-forward moves a branch on.
LEMMA TipGrows ==
    ASSUME NEW g \in RepositoryType, NEW h, NEW w \in Worktrees, NEW c \in Commits,
           h.origin = g.origin, h.head = g.head,
           h.refs = (IF g.head[w] = None THEN g.refs ELSE [g.refs EXCEPT ![g.head[w]] = c]),
           Tip(g, w) # None /\ Tip(g, w) \subseteq c
    PROVE  Grows(g, h) /\ (g.head[w] # None => c \subseteq Saved(h))
<1>1. c # None /\ c \subseteq Tokens
  BY NoneAssumption DEF Commits
<1>2. CASE g.head[w] = None
  BY <1>2, SameGrows
<1>3. CASE g.head[w] # None
  <2>1. g.head[w] \in Branches /\ g.refs \in [Branches -> {None} \cup Commits]
    BY <1>3, RepositoryFields
  <2>2. Tip(g, w) = g.refs[g.head[w]]
    BY <1>3 DEF Tip
  <2>3. \A b \in Branches : h.refs[b] = IF b = g.head[w] THEN c ELSE g.refs[b]
    BY <1>3, <2>1
  <2>4. Remote(h) = Remote(g)
    BY DEF Remote, Exists
  <2>5. QED BY <1>1, <2>1, <2>2, <2>3, <2>4 DEF Grows, Exists, Saved
<1>4. QED BY <1>2, <1>3

\* A push brings the remote up to its branch.
LEMMA PushGrows ==
    ASSUME NEW g \in RepositoryType, NEW b \in Branches, Exists(g.refs, b), ~Beyond(g.origin[b], g.refs[b])
    PROVE  LET h == PushBranch(g, b)
           IN /\ h.refs = g.refs /\ h.trees = g.trees /\ h.head = g.head
              /\ h.work = g.work /\ h.stashes = g.stashes
              /\ Grows(g, h)
<1> DEFINE h == PushBranch(g, b)
<1>1. /\ h.refs = g.refs /\ h.trees = g.trees /\ h.head = g.head
      /\ h.work = g.work /\ h.stashes = g.stashes /\ h.origin = [g.origin EXCEPT ![b] = g.refs[b]]
  BY DEF PushBranch, RepositoryType
<1>2. g.origin \in [Branches -> {None} \cup Commits] /\ g.refs \in [Branches -> {None} \cup Commits]
  BY DEF RepositoryType
<1> HIDE DEF h
<1>3. Remote(g) \subseteq Remote(h)
  <2> SUFFICES ASSUME NEW t \in Tokens, NEW x \in Branches, Exists(g.origin, x), t \in g.origin[x]
               PROVE  Exists(h.origin, x) /\ t \in h.origin[x]
    BY DEF Remote
  <2>1. CASE x = b
    BY <1>1, <1>2, <2>1 DEF Exists, Beyond
  <2>2. CASE x # b
    BY <1>1, <1>2, <2>2 DEF Exists
  <2> QED BY <2>1, <2>2
<1>4. QED BY <1>1, <1>3 DEF Grows, h

\* One that is added in front leaves the others.
LEMMA StashesInFront ==
    ASSUME NEW g \in RepositoryType, NEW h, NEW e \in Entries, h.stashes = <<e>> \o g.stashes
    PROVE  StashesStay(g, h) /\ (e.use \in OwnUses => e.edits \subseteq OwnStashes(h))
<1>1. g.stashes \in Seq(Entries)
  BY RepositoryFields
<1>2. /\ DOMAIN h.stashes = 1 .. Len(g.stashes) + 1 /\ h.stashes[1] = e /\ Len(g.stashes) \in Nat
      /\ \A i \in 1 .. Len(g.stashes) : h.stashes[i + 1] = g.stashes[i]
  BY <1>1, InFront
<1>3. DOMAIN g.stashes = 1 .. Len(g.stashes)
  BY <1>1
<1>4. StashesStay(g, h)
  <2> SUFFICES ASSUME NEW i \in 1 .. Len(g.stashes)
               PROVE  \E j \in DOMAIN h.stashes : h.stashes[j] = g.stashes[i]
    BY <1>3 DEF StashesStay
  <2>1. i + 1 \in DOMAIN h.stashes /\ h.stashes[i + 1] = g.stashes[i]
    BY <1>2
  <2> QED BY <2>1
<1>5. 1 \in DOMAIN h.stashes /\ e.edits \subseteq Tokens
  BY <1>2 DEF Entries
<1>6. QED BY <1>2, <1>4, <1>5 DEF OwnStashes

----------------------------------------
\* The handler: history and traces

SameContents ==
    /\ git'.refs = git.refs /\ git'.origin = git.origin /\ git'.trees = git.trees
    /\ git'.work = git.work /\ git'.stashes = git.stashes

\* What is traced stays traced.
Finds == \A w \in Worktrees : Traced(w) => Traced(w)'

\* A step of the forward phase, where no capture holds edits.
Forward ==
    /\ phase = "forward" /\ phase' = "forward"
    /\ pc \notin {"cleanup", "done"}
    /\ UNCHANGED start
    /\ mutated' = mutated \/ (NothingHeld /\ mutated \subseteq mutated')
    /\ pc' = "snapshotApply" => BackedUp(capture.tree)'

\* What it claims is still there.
LEMMA ForwardTraced ==
    ASSUME CInv, IInv', Accounted, WorkTraced, Forward,
           \A w \in mutated' : Traced(w) => Traced(w)'
    PROVE  WorkTraced'
<1>1. mutated' \subseteq Worktrees
  BY DEF IInv, TypeOK, TransactionType
<1>2. Claimed' = mutated' \cap start.trees
  BY DEF Claimed, Forward
<1>3. ASSUME NEW w \in Claimed' PROVE Traced(w)'
  <2>1. CASE w \in mutated
    BY <1>1, <1>2, <1>3, <2>1 DEF WorkTraced, Forward, Claimed
  <2>2. CASE w \notin mutated
    <3>1. git.work[w] = start.work[w]
      BY <1>1, <1>2, <1>3, <2>2 DEF Forward, Accounted, Kept, WorkKnown, Held, NothingHeld, Ending
    <3>2. w \notin AdoptedTrees
      BY <2>2 DEF Accounted, Laid, RecordsRight, AdoptedTrees
    <3>3. w \in git.trees
      BY <1>1, <1>2, <1>3, <3>2 DEF Accounted, Laid, PlacesKnown, Elsewhere
    <3>4. Traced(w)
      BY <3>1, <3>3 DEF Traced, Found
    <3>5. QED BY <1>2, <1>3, <3>4
  <2>3. QED BY <2>1, <2>2
<1>4. QED BY <1>3 DEF WorkTraced, Forward

\* Where no contents move, everything is found where it was.
LEMMA SameFinds ==
    ASSUME SameContents, UNCHANGED start
    PROVE  Finds /\ Grows(git, git') /\ StashesStay(git, git') /\ Saved(git') = Saved(git)
           /\ OwnStashes(git') = OwnStashes(git)
<1>1. /\ Grows(git, git') /\ StashesStay(git, git') /\ Saved(git') = Saved(git)
      /\ OwnStashes(git') = OwnStashes(git)
  BY SameGrows, SameStashes DEF SameContents
<1>2. \A w : Found(git', w) = Found(git, w)
  BY <1>1 DEF SameContents, Found
<1>3. QED BY <1>1, <1>2 DEF Finds, Traced

\* A step that moves no contents.
LEMMA CalmKeeps ==
    ASSUME CInv, IInv', Accounted, HistoryKept, WorkTraced, Forward, SameContents
    PROVE  HistoryKept' /\ WorkTraced'
<1>1. mutated' \subseteq Worktrees
  BY DEF IInv, TypeOK, TransactionType
<1>2. QED BY <1>1, SameFinds, ForwardTraced, HistoryStays DEF Forward, Finds

\* Recording a review base moves no contents,
LEMMA ReviewContents ==
    ASSUME NEW g \in RepositoryType, NEW b, NEW base
    PROVE  LET h == RecordReview(g, b, base)
           IN /\ h.refs = g.refs /\ h.origin = g.origin /\ h.trees = g.trees
              /\ h.work = g.work /\ h.stashes = g.stashes /\ h.head = g.head
BY DEF RecordReview, RepositoryType

\* nor does a conflict that comes or goes.
LEMMA UnmergedContents ==
    ASSUME NEW g \in RepositoryType, NEW s
    PROVE  LET h == [g EXCEPT !.unmerged = s]
           IN /\ h.refs = g.refs /\ h.origin = g.origin /\ h.trees = g.trees
              /\ h.work = g.work /\ h.stashes = g.stashes /\ h.head = g.head
BY DEF RepositoryType

\* What a step that decides, or issues a command, leaves alone.
Deciding ==
    /\ pc \in HandlerSteps \ {"cleanup"}
    /\ SameContents /\ git'.head = git.head
    /\ UNCHANGED <<start, phase>> /\ mutated \subseteq mutated'
    /\ pc' \notin {"snapshotApply"}

\* A command that is issued has done nothing yet.
LEMMA IssueDeciding ==
    ASSUME NEW c \in Commands, Issue(c), pc \in HandlerSteps \ {"cleanup"}
    PROVE  Deciding
BY DEF Issue, Prepare, Deciding, SameContents

\* Planning the stack decides.
LEMMA PlanningDeciding == ASSUME IInv, Planning PROVE Deciding
<1>1. git \in RepositoryType
  BY TransactionFacts
<1>2. git' = git \/ \E b, base : git' = RecordReview(git, b, base)
  BY DEF Planning, ReadStatus, PlanDefault, PlanUnstacked, PlanMerged, PlanStored, PlanChild, EnterParents,
    ClimbToDefault, ClimbToOpen, ClimbFurther, UnwindParent, ParentsReady, RecordReviewBase, OpenParent,
    OpenPullRequest, Issue, quiet, Planned
<1>3. SameContents /\ git'.head = git.head
  BY <1>1, <1>2, ReviewContents DEF SameContents
<1>4. /\ UNCHANGED <<start, phase>> /\ mutated \subseteq mutated'
      /\ pc' # "snapshotApply"
  BY DEF Planning, ReadStatus, PlanDefault, PlanUnstacked, PlanMerged, PlanStored, PlanChild, EnterParents,
    ClimbToDefault, ClimbToOpen, ClimbFurther, UnwindParent, ParentsReady, RecordReviewBase, OpenParent,
    OpenPullRequest, Issue, Prepare, quiet, claims, Planned
<1>5. pc \in HandlerSteps \ {"cleanup"}
  BY PlanningEffect DEF HandlerEffect
<1>6. QED BY <1>3, <1>4, <1>5 DEF Deciding

\* So does saving the dirty work between its commands,
LEMMA SavingDeciding == ASSUME IInv, Saving PROVE Deciding
<1>1. git \in RepositoryType
  BY TransactionFacts
<1>2. git' = git \/ \E b, base : git' = RecordReview(git, b, base)
  BY DEF Saving, StashInvocation, StashSkipped, OwnStash, Route, Isolate, PrepareExisting, PrepareNew,
    PrepareFails, RestoreOwned, NothingOwned, DropOwned, StageCluster, CommitCluster, LoseIndex, GenerateFails,
    ClustersSaved, Skip, SwitchWithAdoption, CreateAt, Issue, quiet
<1>3. SameContents /\ git'.head = git.head
  BY <1>1, <1>2, ReviewContents DEF SameContents
<1>4. /\ UNCHANGED <<start, phase>> /\ mutated \subseteq mutated'
      /\ pc' # "snapshotApply"
  BY DEF Saving, StashInvocation, StashSkipped, OwnStash, Route, Isolate, PrepareExisting, PrepareNew,
    PrepareFails, RestoreOwned, NothingOwned, DropOwned, StageCluster, CommitCluster, LoseIndex, GenerateFails,
    ClustersSaved, Skip, SwitchWithAdoption, CreateAt, Issue, Prepare, quiet, claims
<1>5. pc \in HandlerSteps \ {"cleanup"}
  BY SavingEffect DEF HandlerEffect, Owning, OwnStash, NothingOwned, DropOwned, HandlerSteps, Continuations
<1>6. QED BY <1>3, <1>4, <1>5 DEF Deciding

\* bringing the branch up to date between its own,
LEMMA SyncingDeciding == ASSUME IInv, Syncing PROVE Deciding
<1>1. SameContents /\ git'.head = git.head
  BY DEF SameContents, Syncing, MergeExplicit, PushExplicit, ToBase, ToReview, TrackBase, SwitchToBase,
    CheckBase, ResetBase, ReviewOpen, ReviewMerged, ReviewRemote, SwitchToReview, ReviewLocal, ReviewNew, Align,
    AlignMerge, AlignReset, MergeBase, Publish, OpenReview, FollowMerged, FollowEnds, Follow, Skip, Merge,
    Reset, Push, CreateAt, SwitchWithAdoption, OpenPullRequest, Issue, quiet
<1>2. /\ UNCHANGED <<start, phase>> /\ mutated \subseteq mutated'
      /\ pc' # "snapshotApply"
  BY DEF Syncing, MergeExplicit, PushExplicit, ToBase, ToReview, TrackBase, SwitchToBase, CheckBase, ResetBase,
    ReviewOpen, ReviewMerged, ReviewRemote, SwitchToReview, ReviewLocal, ReviewNew, Align, AlignMerge,
    AlignReset, MergeBase, Publish, OpenReview, FollowMerged, FollowEnds, Follow, Skip, Merge, Reset, Push,
    CreateAt, SwitchWithAdoption, OpenPullRequest, Issue, Prepare, quiet, claims
<1>3. QED BY <1>1, <1>2, SyncingEffect DEF Deciding, HandlerEffect

\* and adopting, resolving and failing.
LEMMA OtherDeciding ==
    ASSUME IInv, Adopting \/ Resolving \/ HandlerFails \/ SwitchBusy \/ SwitchMissing
    PROVE  Deciding
<1>1. git \in RepositoryType
  BY TransactionFacts
<1>2. git' = git \/ \E s : git' = [git EXCEPT !.unmerged = s]
  BY DEF Adopting, Adopt, SaveSibling, SiblingClean, ReleaseSibling, RetrySwitch, Resolving, ResolveMerge,
    ResolveApply, ResolveFails, AbandonMerge, HandlerFails, SwitchBusy, SwitchMissing, CreateAt, Skip, Issue,
    quiet
<1>3. SameContents /\ git'.head = git.head
  <2>1. CASE git' = git
    BY <2>1 DEF SameContents
  <2>2. ASSUME NEW s, git' = [git EXCEPT !.unmerged = s] PROVE SameContents /\ git'.head = git.head
    BY <1>1, <2>2, UnmergedContents DEF SameContents
  <2>3. QED BY <1>2, <2>1, <2>2
<1>4. /\ UNCHANGED <<start, phase>> /\ mutated \subseteq mutated'
      /\ pc' # "snapshotApply"
  <2>1. pc = "resolve" => cmd.then \in Continuations
    BY RunningFacts DEF CommandSteps
  <2>2. QED BY <2>1 DEF Adopting, Adopt, SaveSibling, SiblingClean, ReleaseSibling, RetrySwitch, Resolving,
    ResolveMerge, ResolveApply, ResolveFails, AbandonMerge, HandlerFails, SwitchBusy, SwitchMissing, CreateAt,
    Skip, Issue, Prepare, quiet, claims, Continuations
<1>5. pc \in HandlerSteps \ {"cleanup"}
  BY DEF Adopting, Adopt, SaveSibling, SiblingClean, ReleaseSibling, RetrySwitch, Resolving, ResolveMerge,
    ResolveApply, ResolveFails, AbandonMerge, HandlerFails, SwitchBusy, SwitchMissing, Running, Failing,
    HandlerSteps, Continuations, CommandSteps
<1>6. QED BY <1>3, <1>4, <1>5 DEF Deciding

\* So nothing of the operator's is lost by a decision.
LEMMA DecidingKeeps ==
    ASSUME CInv, IInv', Accounted, HistoryKept, WorkTraced, Deciding
    PROVE  HistoryKept' /\ WorkTraced'
<1>1. phase = "forward" /\ NothingHeld /\ pc \notin {"cleanup", "done"}
  BY InHandler DEF CInv, Deciding, HandlerSteps, CommandSteps, Continuations, NothingHeld
<1>2. QED BY <1>1, CalmKeeps DEF Deciding, Forward

----------------------------------------
\* The commands: history and traces

\* A commit takes edits from the worktree to the branch.
LEMMA CommitFinds ==
    ASSUME NEW g \in RepositoryType, NEW w \in Worktrees, NEW edits \in SUBSET Tokens,
           Tip(g, w) # None, g.head[w] # None
    PROVE  LET h == CommitEdits(g, w, edits)
           IN /\ Grows(g, h) /\ h.stashes = g.stashes /\ h.trees = g.trees
              /\ \A v \in Worktrees : Found(g, v) \subseteq Found(h, v)
<1> DEFINE c == Tip(g, w) \cup edits
           m == MoveTip(g, w, c)
           h == CommitEdits(g, w, edits)
<1>1. c \in Commits /\ Tip(g, w) \subseteq c /\ edits \subseteq c
  BY TipType DEF Commits
<1>2. /\ m \in RepositoryType /\ m.work = g.work
      /\ m.refs = [g.refs EXCEPT ![g.head[w]] = c] /\ m.head = g.head /\ m.trees = g.trees
      /\ m.stashes = g.stashes /\ m.origin = g.origin
  <2>1. m \in RepositoryType /\ m.origin = g.origin
    BY <1>1, MoveTipType, OriginKept
  <2>2. /\ TipMoves(g, m, w) /\ m.work = g.work
        /\ m.refs = [g.refs EXCEPT ![g.head[w]] = c]
    BY <1>1, MoveTipFields
  <2>3. QED BY <2>1, <2>2 DEF TipMoves
<1>3. h = [m EXCEPT !.work[w] = m.work[w] \ edits]
  BY DEF CommitEdits
<1> HIDE DEF m, c
<1>4. /\ h.refs = m.refs /\ h.head = m.head /\ h.trees = m.trees /\ h.origin = m.origin
      /\ h.stashes = m.stashes /\ h.work = [m.work EXCEPT ![w] = m.work[w] \ edits]
  BY <1>2, <1>3 DEF RepositoryType
<1> HIDE DEF h
<1>5. Grows(g, h) /\ c \subseteq Saved(h)
  BY <1>1, <1>2, <1>4, TipGrows
<1>6. m.work \in [Worktrees -> SUBSET Tokens]
  BY <1>2, RepositoryFields
<1>7. Saved(g) \subseteq Saved(h) /\ OwnStashes(h) = OwnStashes(g)
  BY <1>2, <1>4, <1>5, GrowthHolds, SameStashes
<1>8. \A v \in Worktrees : Found(g, v) \subseteq Found(h, v)
  BY <1>1, <1>2, <1>4, <1>5, <1>6, <1>7 DEF Found
<1>9. QED BY <1>2, <1>4, <1>5, <1>8 DEF h

\* A merge adds to the branch.
LEMMA MergeFinds ==
    ASSUME NEW g \in RepositoryType, NEW w \in Worktrees, NEW onto \in Commits, Tip(g, w) # None
    PROVE  LET h == MergeCommit(g, w, onto)
           IN /\ Grows(g, h) /\ h.stashes = g.stashes /\ h.trees = g.trees
              /\ \A v \in Worktrees : Found(g, v) \subseteq Found(h, v)
<1> DEFINE c == Tip(g, w) \cup onto
           m == MoveTip(g, w, c)
           h == MergeCommit(g, w, onto)
<1>1. c \in Commits /\ Tip(g, w) \subseteq c
  BY TipType DEF Commits
<1>2. /\ m \in RepositoryType /\ m.work = g.work
      /\ m.refs = (IF g.head[w] = None THEN g.refs ELSE [g.refs EXCEPT ![g.head[w]] = c])
      /\ m.head = g.head /\ m.trees = g.trees
      /\ m.stashes = g.stashes /\ m.origin = g.origin
  <2>1. m \in RepositoryType /\ m.origin = g.origin
    BY <1>1, MoveTipType, OriginKept
  <2>2. /\ TipMoves(g, m, w) /\ m.work = g.work
        /\ m.refs = (IF g.head[w] = None THEN g.refs ELSE [g.refs EXCEPT ![g.head[w]] = c])
    BY <1>1, MoveTipFields
  <2>3. QED BY <2>1, <2>2 DEF TipMoves
<1>3. h = [m EXCEPT !.unmerged = m.unmerged \ {w}]
  BY DEF MergeCommit
<1> HIDE DEF m, c
<1>4. /\ h.refs = m.refs /\ h.head = m.head /\ h.trees = m.trees /\ h.origin = m.origin
      /\ h.stashes = m.stashes /\ h.work = m.work
  BY <1>2, <1>3 DEF RepositoryType
<1> HIDE DEF h
<1>5. Grows(g, h)
  BY <1>1, <1>2, <1>4, TipGrows
<1>7. Saved(g) \subseteq Saved(h) /\ OwnStashes(h) = OwnStashes(g)
  BY <1>2, <1>4, <1>5, GrowthHolds, SameStashes
<1>8. \A v \in Worktrees : Found(g, v) \subseteq Found(h, v)
  BY <1>2, <1>4, <1>7 DEF Found
<1>9. QED BY <1>2, <1>4, <1>5, <1>8 DEF h

\* A hard reset that moves the branch on clears one worktree.
LEMMA ResetFinds ==
    ASSUME NEW g \in RepositoryType, NEW w \in Worktrees, NEW onto \in Commits,
           Tip(g, w) # None, Tip(g, w) \subseteq onto
    PROVE  LET h == ResetHard(g, w, onto)
           IN /\ Grows(g, h) /\ h.stashes = g.stashes /\ h.trees = g.trees
              /\ \A v \in Worktrees \ {w} : Found(g, v) \subseteq Found(h, v)
<1> DEFINE h == ResetHard(g, w, onto)
<1>1. /\ TipMoves(g, h, w) /\ h.origin = g.origin
      /\ h.refs = (IF g.head[w] = None THEN g.refs ELSE [g.refs EXCEPT ![g.head[w]] = onto])
  BY ResetFields, OriginKept
<1> HIDE DEF h
<1>2. Grows(g, h)
  BY <1>1, TipGrows DEF TipMoves
<1>3. Saved(g) \subseteq Saved(h) /\ OwnStashes(h) = OwnStashes(g)
  BY <1>1, <1>2, GrowthHolds, SameStashes DEF TipMoves
<1>4. QED BY <1>1, <1>2, <1>3 DEF Found, h, TipMoves

\* What a command does to the work.
CommandFinds == Finds /\ Grows(git, git') /\ StashesStay(git, git')

\* A commit, a reset, a merge and its conclusion lose nothing.
LEMMA TipFinds ==
    ASSUME CInv, Accounted, HistoryKept, WorkTraced, Way, RunCommit \/ RunReset \/ RunMerge \/ RunConclude
    PROVE  CommandFinds
<1>0. pc = "command" /\ cmd.kind \in {"commit", "merge", "conclude", "reset"} /\ UNCHANGED start
  BY DEF RunCommit, RunReset, RunMerge, RunConclude, Running, Landed
<1>1. /\ git \in RepositoryType /\ cmd.tree \in Worktrees /\ cmd.onto \in Commits /\ cmd.edits \in SUBSET Tokens
      /\ phase = "forward" /\ Caller \in Worktrees
  BY <1>0, RunningFacts, TransactionFacts, InHandler DEF CInv, CommandSteps
<1>2. CASE RunCommit
  <2>1. /\ git' = CommitEdits(git, cmd.tree, cmd.edits) /\ Tip(git, cmd.tree) # None
        /\ git.head[cmd.tree] # None
    BY <1>2 DEF RunCommit, Running, Landed, Way, HeadOK
  <2>2. QED BY <1>0, <1>1, <2>1, CommitFinds, SameStashes DEF CommandFinds, Finds, Traced
<1>3. CASE RunReset
  <2>1. /\ git' = ResetHard(git, cmd.tree, cmd.onto) /\ Tip(git, cmd.tree) # None /\ cmd.kind = "reset"
    BY <1>3 DEF RunReset, Running, Landed
  <2>2. cmd.tree = Caller
    BY <1>0, <2>1, RunningRight
  <2>3. git.head[Caller] = branch /\ git.refs[branch] \subseteq cmd.onto /\ branch \in Branches
    <3>1. branch \in Branches
      BY DEF CInv, IInv, TypeOK, HandlerType
    <3>2. HeadOK /\ ResetOK
      BY DEF Way
    <3>3. git.head[Caller] = branch
      BY <1>0, <2>1, <3>2 DEF HeadOK, OnBranch
    <3>4. git.refs[branch] \subseteq cmd.onto
      BY <1>0, <2>1, <3>2 DEF ResetOK
    <3>5. QED BY <3>1, <3>3, <3>4
  <2>4. Tip(git, Caller) \subseteq cmd.onto
    BY <2>3, NoneAssumption DEF Tip
  <2>5. PutAway
    BY <1>0, <1>1, <2>1 DEF Way, CleanOK, Clustering, DropSteps, CommandSteps
  <2>6. /\ Grows(git, git') /\ git'.stashes = git.stashes
        /\ \A v \in Worktrees \ {Caller} : Found(git, v) \subseteq Found(git', v)
    BY <1>1, <2>1, <2>2, <2>4, ResetFinds
  <2>7. Saved(git) \subseteq Saved(git') /\ OwnStashes(git') = OwnStashes(git)
    BY <2>6, GrowthHolds, SameStashes
  <2>8. start.work[Caller] \subseteq Found(git', Caller)
    BY <2>5, <2>7 DEF PutAway, Found
  <2>9. QED BY <1>0, <2>6, <2>8, SameStashes DEF CommandFinds, Finds, Traced
<1>4. CASE RunMerge
  <2>1. git' = MergeCommit(git, cmd.tree, cmd.onto) /\ Tip(git, cmd.tree) # None
    BY <1>4 DEF RunMerge, Landed
  <2>2. QED BY <1>0, <1>1, <2>1, MergeFinds, SameStashes DEF CommandFinds, Finds, Traced
<1>5. CASE RunConclude
  <2>1. git' = MergeCommit(git, cmd.tree, cmd.onto) /\ Tip(git, cmd.tree) # None
    BY <1>5 DEF RunConclude
  <2>2. QED BY <1>0, <1>1, <2>1, MergeFinds, SameStashes DEF CommandFinds, Finds, Traced
<1>6. QED BY <1>2, <1>3, <1>4, <1>5

\* A switch leaves the work, and a new branch loses none.
LEMMA SwitchFinds ==
    ASSUME CInv, Accounted, RunSwitch \/ RunCreate \/ RunDetach \/ RunRemove
    PROVE  CommandFinds
<1>0. pc = "command" /\ cmd.kind \in {"switch", "create", "detach", "remove"} /\ UNCHANGED start
  BY DEF RunSwitch, RunCreate, RunDetach, RunRemove, Running, Landed
<1>1. /\ git \in RepositoryType /\ cmd.tree \in Worktrees /\ cmd.onto \in Commits
      /\ cmd.kind \in {"switch", "create"} => cmd.to \in Branches
  BY <1>0, RunningFacts, TransactionFacts DEF CInv, CommandSteps
<1>2. CASE RunSwitch
  <2>1. git' = SwitchTo(git, cmd.tree, cmd.to) /\ cmd.to \in Branches
    BY <1>1, <1>2 DEF RunSwitch, Running, Landed
  <2>2. SameContents
    BY <1>1, <2>1, SwitchFields, OriginKept DEF SameContents, HeadMoves
  <2>3. QED BY <1>0, <2>2, SameFinds DEF CommandFinds
<1>3. CASE RunCreate
  <2>1. /\ git' = CreateBranch(git, cmd.tree, cmd.to, cmd.onto) /\ cmd.to \in Branches
        /\ git.refs[cmd.to] = None
    BY <1>1, <1>3 DEF RunCreate, Running, Landed, Exists
  <2> DEFINE m == [git EXCEPT !.refs[cmd.to] = cmd.onto]
  <2>2. /\ m \in RepositoryType /\ m.refs = [git.refs EXCEPT ![cmd.to] = cmd.onto]
        /\ m.origin = git.origin /\ m.trees = git.trees /\ m.work = git.work /\ m.stashes = git.stashes
    BY <1>1, <2>1 DEF RepositoryType
  <2>3. git' = SwitchTo(m, cmd.tree, cmd.to)
    BY <2>1 DEF CreateBranch
  <2> HIDE DEF m
  <2>4. /\ git'.refs = [git.refs EXCEPT ![cmd.to] = cmd.onto]
        /\ git'.origin = git.origin /\ git'.trees = git.trees /\ git'.work = git.work
        /\ git'.stashes = git.stashes
    BY <1>1, <2>1, <2>2, <2>3, SwitchFields, OriginKept DEF HeadMoves
  <2>5. git.refs \in [Branches -> {None} \cup Commits]
    BY <1>1, RepositoryFields
  <2>6. \A b \in Branches : Exists(git.refs, b) => git'.refs[b] = git.refs[b]
    BY <2>1, <2>4, <2>5 DEF Exists
  <2>7. Grows(git, git')
    BY <2>4, <2>6 DEF Grows, Remote, Exists
  <2>8. Saved(git) \subseteq Saved(git') /\ OwnStashes(git') = OwnStashes(git)
        /\ StashesStay(git, git')
    BY <2>4, <2>7, GrowthHolds, SameStashes
  <2>9. QED BY <1>0, <2>4, <2>7, <2>8 DEF CommandFinds, Finds, Traced, Found
<1>4. CASE RunDetach
  <2>1. git' = DetachAt(git, cmd.tree, Tip(git, cmd.tree)) /\ Tip(git, cmd.tree) \in Commits
    BY <1>1, <1>4, TipKnown DEF RunDetach, Landed
  <2>2. SameContents
    BY <1>1, <2>1, DetachFields, OriginKept DEF SameContents, HeadMoves
  <2>3. QED BY <1>0, <2>2, SameFinds DEF CommandFinds
<1>5. CASE RunRemove
  <2>1. git' = RemoveTree(git, cmd.tree) /\ git.work[cmd.tree] = {}
    BY <1>5 DEF RunRemove, Landed
  <2>2. /\ git'.refs = git.refs /\ git'.origin = git.origin /\ git'.trees = git.trees \ {cmd.tree}
        /\ git'.work = git.work /\ git'.stashes = git.stashes
    BY <1>1, <2>1, RemoveFields, OriginKept
  <2>3. /\ Grows(git, git') /\ Saved(git') = Saved(git) /\ OwnStashes(git') = OwnStashes(git)
        /\ StashesStay(git, git')
    BY <2>2, SameGrows, SameStashes
  <2>4. \A w \in Worktrees : Found(git, w) \subseteq Found(git', w)
    BY <2>1, <2>2, <2>3 DEF Found
  <2>5. QED BY <1>0, <2>3, <2>4 DEF CommandFinds, Finds, Traced
<1>6. QED BY <1>2, <1>3, <1>4, <1>5

\* A stash of the invocation holds what it took; what is applied is added; a
\* push brings the remote up to the branch.
LEMMA WorkFinds ==
    ASSUME CInv, Accounted,
           RunStash \/ RunApply \/ MergeConflicts \/ ApplyConflicts \/ PushReported
           \/ PushMalformed \/ PushUnreported
    PROVE  CommandFinds
<1>0. /\ pc = "command" /\ UNCHANGED start
      /\ cmd.kind \in {"stash", "merge", "apply", "push"}
      /\ RunStash => cmd.kind = "stash"
      /\ RunApply \/ ApplyConflicts => cmd.kind = "apply"
      /\ PushReported \/ PushMalformed \/ PushUnreported => cmd.kind = "push"
  BY DEF RunStash, RunApply, MergeConflicts, ApplyConflicts, PushReported, PushMalformed, PushUnreported,
    Running, Landed
<1>1. /\ git \in RepositoryType /\ cmd.tree \in Worktrees /\ owned \subseteq Entries
      /\ git.work \in [Worktrees -> SUBSET Tokens] /\ (cmd.kind = "push" => cmd.to \in Branches)
  BY <1>0, RunningFacts, TransactionFacts, RepositoryFields DEF CInv, CommandSteps
<1>2. CASE RunStash
  <2>1. PICK use \in OwnUses : git' = PushStash(git, cmd.tree, use)
    BY <1>2 DEF RunStash, OwnUses, Landed
  <2>2. cmd.tree = Caller /\ use \in StashUses
    BY <1>0, <1>2, RunningRight DEF OwnUses, StashUses
  <2> DEFINE e == [tree |-> Caller, edits |-> git.work[Caller], use |-> use]
  <2>3. /\ git'.refs = git.refs /\ git'.trees = git.trees /\ git'.work = [git.work EXCEPT ![Caller] = {}]
        /\ e \in Entries /\ git'.stashes = <<e>> \o git.stashes /\ git'.origin = git.origin
    <3>1. git \in RepositoryType /\ Caller \in Worktrees /\ git' = PushStash(git, Caller, use)
      BY <1>1, <2>1, <2>2
    <3> HIDE DEF e
    <3>2. git'.origin = git.origin
      BY <3>1, OriginKept
    <3>3. LET h == PushStash(git, Caller, use)
          IN /\ h.refs = git.refs /\ h.trees = git.trees
             /\ h.work = [git.work EXCEPT ![Caller] = {}]
             /\ e \in Entries /\ h.stashes = <<e>> \o git.stashes
      BY <2>2, <3>1, StashFields DEF e
    <3>4. QED BY <3>1, <3>2, <3>3
  <2>4. e.use \in OwnUses /\ e.edits = git.work[Caller]
    OBVIOUS
  <2> HIDE DEF e
  <2>5. StashesStay(git, git') /\ e.edits \subseteq OwnStashes(git')
    BY <1>1, <2>3, <2>4, StashesInFront
  <2>6. Grows(git, git') /\ Saved(git') = Saved(git) /\ OwnStashes(git) \subseteq OwnStashes(git')
    BY <2>3, <2>5, SameGrows, OwnStashesStay
  <2>7. \A w \in Worktrees : Found(git, w) \subseteq Found(git', w)
    BY <1>1, <2>3, <2>4, <2>5, <2>6 DEF Found
  <2>8. QED BY <1>0, <2>5, <2>6, <2>7 DEF CommandFinds, Finds, Traced
<1>3. CASE RunApply \/ ApplyConflicts
  <2>1. PICK e \in owned :
          \/ git' = ApplyStash(git, cmd.tree, e)
          \/ git' = [ApplyStash(git, cmd.tree, e) EXCEPT !.unmerged = @ \cup {cmd.tree}]
    BY <1>3 DEF RunApply, ApplyConflicts, Landed
  <2> DEFINE m == ApplyStash(git, cmd.tree, e)
  <2>2. /\ m \in RepositoryType /\ m.refs = git.refs /\ m.trees = git.trees
        /\ m.origin = git.origin /\ m.stashes = git.stashes
        /\ m.work = [git.work EXCEPT ![cmd.tree] = git.work[cmd.tree] \cup e.edits]
    BY <1>1, ApplyFields, ApplyStashType, OriginKept
  <2>3. git' = m \/ git' = [m EXCEPT !.unmerged = m.unmerged \cup {cmd.tree}]
    BY <2>1
  <2> HIDE DEF m
  <2>4. /\ git'.refs = m.refs /\ git'.trees = m.trees
        /\ git'.origin = m.origin /\ git'.stashes = m.stashes /\ git'.work = m.work
    <3>1. CASE git' = m
      BY <3>1
    <3>2. CASE git' = [m EXCEPT !.unmerged = m.unmerged \cup {cmd.tree}]
      BY <2>2, <3>2, UnmergedContents
    <3>3. QED BY <2>3, <3>1, <3>2
  <2>5. /\ Grows(git, git') /\ Saved(git') = Saved(git) /\ OwnStashes(git') = OwnStashes(git)
        /\ StashesStay(git, git')
    BY <2>2, <2>4, SameGrows, SameStashes
  <2>6. \A w \in Worktrees : Found(git, w) \subseteq Found(git', w)
    BY <1>1, <2>2, <2>4, <2>5 DEF Found
  <2>7. QED BY <1>0, <2>5, <2>6 DEF CommandFinds, Finds, Traced
<1>4. CASE MergeConflicts
  <2>1. SameContents
    BY <1>1, <1>4, UnmergedContents DEF MergeConflicts, SameContents
  <2>2. QED BY <1>0, <2>1, SameFinds DEF CommandFinds
<1>5. CASE PushReported \/ PushMalformed \/ PushUnreported
  <2>1. git' = git \/ (CanPush /\ git' = PushBranch(git, cmd.to))
    BY <1>5 DEF PushReported, PushMalformed, PushUnreported
  <2>2. CASE git' = git
    BY <1>0, <2>2, SameFinds DEF SameContents, CommandFinds
  <2>3. CASE CanPush /\ git' = PushBranch(git, cmd.to)
    <3>1. /\ git'.refs = git.refs /\ git'.trees = git.trees
          /\ git'.work = git.work /\ git'.stashes = git.stashes /\ Grows(git, git')
      <4>1. cmd.to \in Branches /\ Exists(git.refs, cmd.to) /\ ~Beyond(git.origin[cmd.to], git.refs[cmd.to])
        BY <1>0, <1>1, <1>5, <2>3 DEF CanPush, OriginTip, LocalTip
      <4>2. QED BY <1>1, <2>3, <4>1, PushGrows
    <3>2. Saved(git) \subseteq Saved(git') /\ OwnStashes(git') = OwnStashes(git) /\ StashesStay(git, git')
      BY <3>1, GrowthHolds, SameStashes
    <3>3. QED BY <1>0, <3>1, <3>2 DEF CommandFinds, Finds, Traced, Found
  <2>4. QED BY <2>1, <2>2, <2>3
<1>6. QED BY <1>2, <1>3, <1>4, <1>5

\* Whatever Git answers, nothing of the operator's is lost.
LEMMA CommandKeepsWork ==
    ASSUME CInv, IInv', Accounted, HistoryKept, WorkTraced, Way, RunCommand
    PROVE  HistoryKept' /\ WorkTraced'
<1>1. CASE SwitchBusy \/ SwitchMissing
  BY <1>1, OtherDeciding, DecidingKeeps DEF CInv
<1>2. CASE ~(SwitchBusy \/ SwitchMissing)
  <2>1. CommandFinds
    BY <1>2, TipFinds, SwitchFinds, WorkFinds DEF RunCommand
  <2>2. /\ pc = "command" /\ UNCHANGED <<start, phase, mutated, cmd>>
    BY <1>2 DEF RunCommand, RunSwitch, RunCreate, RunDetach, RunRemove, RunCommit, RunReset, RunStash, RunMerge,
      RunConclude, RunApply, MergeConflicts, ApplyConflicts, PushReported, PushMalformed, PushUnreported,
      Running, Landed, claims, frames
  <2>3. phase = "forward" /\ NothingHeld /\ pc' \in HandlerSteps
    BY <2>2, RunCommandEffect, InHandler DEF CInv, HandlerEffect, NothingHeld
  <2>4. Forward
    BY <2>2, <2>3 DEF Forward, HandlerSteps, Continuations, CommandSteps
  <2>5. mutated' \subseteq Worktrees
    BY DEF IInv, TypeOK, TransactionType
  <2>6. QED BY <2>1, <2>4, <2>5, ForwardTraced, HistoryStays DEF CommandFinds, Forward, Finds
<1>3. QED BY <1>1, <1>2

\* The transaction: history and traces

\* A capture changes one worktree and adds to the list.
LEMMA CaptureFinds ==
    ASSUME CInv, Accounted, SnapshotStatus \/ SnapshotRef \/ SnapshotApply
    PROVE  /\ git'.refs = git.refs /\ git'.origin = git.origin /\ git'.trees = git.trees
           /\ git'.head = git.head /\ StashesStay(git, git')
           /\ \A w \in Worktrees \ {capture.tree} : git'.work[w] = git.work[w]
<1>1. /\ git \in RepositoryType /\ capture.tree \in Worktrees
      /\ pc = "snapshotApply" => capture.backup \in Entries
  BY TransactionFacts, CaptureFacts DEF CInv, IInv, FramesOK, CaptureSteps, SnapshotStatus, SnapshotRef, SnapshotApply
<1>2. CASE git' = git
  BY <1>2 DEF StashesStay
<1>3. CASE SnapshotStatus /\ git' # git
  <2> DEFINE e == [tree |-> capture.tree, edits |-> git.work[capture.tree], use |-> "snapshot"]
  <2>1. git' = PushStash(git, capture.tree, "snapshot") /\ "snapshot" \in StashUses
    BY <1>3 DEF SnapshotStatus, StashUses
  <2>2. /\ git'.refs = git.refs /\ git'.trees = git.trees /\ git'.head = git.head
        /\ git'.work = [git.work EXCEPT ![capture.tree] = {}]
        /\ e \in Entries /\ git'.stashes = <<e>> \o git.stashes
    BY <1>1, <2>1, StashFields
  <2>3. git'.origin = git.origin
    BY <1>1, <2>1, OriginKept
  <2> HIDE DEF e
  <2>4. QED BY <1>1, <2>2, <2>3, StashesInFront, RepositoryFields
<1>4. CASE SnapshotApply
  <2>1. git' = ApplyStash(git, capture.tree, capture.backup) /\ pc = "snapshotApply"
    BY <1>4 DEF SnapshotApply
  <2>2. /\ git'.refs = git.refs /\ git'.trees = git.trees /\ git'.stashes = git.stashes /\ git'.head = git.head
        /\ git'.work = [git.work EXCEPT ![capture.tree] = git.work[capture.tree] \cup capture.backup.edits]
    BY <1>1, <2>1, ApplyFields
  <2>3. git'.origin = git.origin
    BY <1>1, <2>1, OriginKept
  <2>4. QED BY <1>1, <2>2, <2>3, SameStashes, RepositoryFields
<1>5. QED BY <1>2, <1>3, <1>4 DEF SnapshotRef

\* A capture puts edits in the list, finds them there and takes them back.
LEMMA CaptureKeepsWork ==
    ASSUME CInv, IInv', Accounted, HistoryKept, WorkTraced, Capture
    PROVE  HistoryKept' /\ WorkTraced'
<1>1. /\ git \in RepositoryType /\ UNCHANGED start /\ phase \in {"begin", "forward"}
      /\ pc \in CaptureSteps \cup {"begin", "protected"}
  BY TransactionFacts DEF CInv, IInv, PhaseOK, HandlerSteps, CaptureSteps, Capture, BeginNext, Begun,
    SnapshotStatus, SnapshotRef, SnapshotApply, CaptureFails, CaptureApplyFails, OwnAdopted
<1>2. pc \in CaptureSteps => capture \in Captures /\ capture.tree \in Worktrees
                             /\ capture.tree \notin SnapshotTrees \cup mutated
  BY CaptureWork
<1>3. /\ pc = "snapshotRef" => git.stashes # <<>> /\ Head(git.stashes) = Backup(capture.tree)
      /\ pc = "snapshotApply" => capture.backup = Backup(capture.tree) /\ capture.backup \in Entries
  BY <1>1, CaptureFacts DEF CInv, IInv, FramesOK, Accounted, Framed, CaptureRight
<1>4. CASE BeginNext \/ Begun
  <2>1. /\ SameContents /\ mutated' = {} /\ phase' \in {"begin", "forward"}
        /\ pc' # "snapshotApply"
    BY <1>1, <1>4 DEF BeginNext, Begun, SameContents, claims, WorkTraced, CInv, IInv, PhaseOK
  <2>2. HistoryKept'
    BY <1>1, <2>1, SameFinds, HistoryStays
  <2>3. QED BY <2>1, <2>2 DEF WorkTraced, Claimed
<1>5. CASE SnapshotStatus \/ SnapshotRef \/ SnapshotApply
  <2>1. UNCHANGED <<phase, mutated>> /\ pc' \notin {"cleanup", "done"}
        /\ pc \in CaptureSteps
    BY <1>5 DEF SnapshotStatus, SnapshotRef, SnapshotApply, claims, Captured, CaptureSteps
  <2>2. /\ git'.refs = git.refs /\ git'.origin = git.origin /\ git'.trees = git.trees
        /\ StashesStay(git, git')
        /\ \A w \in Worktrees \ {capture.tree} : git'.work[w] = git.work[w]
    BY <1>5, CaptureFinds
  <2>3. Grows(git, git') /\ Saved(git') = Saved(git) /\ OwnStashes(git) \subseteq OwnStashes(git')
    BY <2>2, SameGrows, OwnStashesStay
  <2>4. HistoryKept'
    BY <1>1, <2>2, <2>3, HistoryStays
  <2>5. mutated \subseteq Worktrees /\ mutated' \subseteq Worktrees
    BY DEF CInv, IInv, TypeOK, TransactionType
  <2>6. \A w \in mutated' : Traced(w) => Traced(w)'
    BY <1>1, <1>2, <2>1, <2>2, <2>3, <2>5 DEF Traced, Found
  <2>7. pc' = "snapshotApply" => BackedUp(capture.tree)'
    <3> SUFFICES ASSUME pc' = "snapshotApply" PROVE BackedUp(capture.tree)'
      OBVIOUS
    <3>1. SnapshotRef
      BY <1>5 DEF SnapshotStatus, SnapshotApply, Captured
    <3>2. git' = git /\ capture'.tree = capture.tree /\ pc = "snapshotRef"
      BY <1>2, <2>1, <3>1 DEF SnapshotRef, Captures
    <3>3. git.stashes # <<>> /\ git.stashes \in Seq(Entries) /\ git.stashes[1] = Backup(capture.tree)
      BY <1>1, <1>3, <3>2, RepositoryFields
    <3>4. 1 \in DOMAIN git.stashes
      BY <3>3
    <3>5. Backup(capture.tree)' = Backup(capture.tree)
      BY <1>1, <3>2 DEF Backup
    <3>6. QED BY <3>2, <3>3, <3>4, <3>5 DEF BackedUp
  <2>8. CASE phase = "begin"
    BY <1>1, <2>1, <2>4, <2>7, <2>8 DEF WorkTraced
  <2>9. CASE phase = "forward"
    <3>1. Forward
      BY <1>1, <2>1, <2>7, <2>9 DEF Forward, CaptureSteps
    <3>2. QED BY <2>4, <2>6, <3>1, ForwardTraced
  <2>10. QED BY <1>1, <2>8, <2>9
<1>6. CASE CaptureFails
  <2>1. SameContents /\ mutated' = mutated /\ pc' \in {"finalize", "cleanup"} /\ published' = published
    BY <1>6 DEF CaptureFails, SameContents, claims
  <2>2. CASE phase = "begin"
    <3>1. mutated' = {} /\ phase' = "settle"
      BY <1>6, <2>1, <2>2 DEF WorkTraced, CaptureFails
    <3>2. HistoryKept'
      BY <1>1, <2>1, SameFinds, HistoryStays
    <3>3. QED BY <2>1, <3>1, <3>2 DEF WorkTraced, Claimed
  <2>3. CASE phase = "forward"
    <3>1. Forward
      BY <1>1, <1>6, <2>1, <2>3 DEF Forward, CaptureSteps, CaptureFails
    <3>2. QED BY <2>1, <3>1, CalmKeeps
  <2>4. QED BY <1>1, <2>2, <2>3
<1>7. CASE CaptureApplyFails
  <2>1. /\ pc = "snapshotApply" /\ mutated' = mutated \cup {capture.tree} /\ UNCHANGED <<start, adopted>>
        /\ pc' \in {"inspect", "cleanup"}
        /\ IF phase = "begin" THEN phase' = "undo" /\ pc' = "inspect" ELSE phase' = "forward" /\ pc' = "cleanup"
    BY <1>1, <1>7 DEF CaptureApplyFails
  <2>2. /\ git'.refs = git.refs /\ git'.origin = git.origin /\ git'.trees = git.trees
        /\ git'.stashes = git.stashes
        /\ \A w \in Worktrees \ {capture.tree} : git'.work[w] = git.work[w]
    <3>1. CASE git' = git
      BY <3>1
    <3>2. CASE git' # git
      <4>1. git' = ApplyStash(git, capture.tree, capture.backup)
        BY <1>7, <3>2 DEF CaptureApplyFails
      <4>2. /\ git'.refs = git.refs /\ git'.trees = git.trees /\ git'.stashes = git.stashes
            /\ git'.work = [git.work EXCEPT ![capture.tree] = git.work[capture.tree] \cup capture.backup.edits]
        BY <1>1, <1>2, <1>3, <2>1, <4>1, ApplyFields DEF CaptureSteps
      <4>3. git'.origin = git.origin
        BY <1>1, <1>2, <1>3, <2>1, <4>1, OriginKept DEF CaptureSteps
      <4>4. QED BY <1>1, <4>2, <4>3, RepositoryFields
    <3>3. QED BY <3>1, <3>2
  <2>3. Grows(git, git') /\ Saved(git') = Saved(git) /\ OwnStashes(git') = OwnStashes(git) /\ StashesStay(git, git')
    BY <2>2, SameGrows, SameStashes
  <2>4. HistoryKept'
    BY <1>1, <2>3, HistoryStays
  <2>5. BackedUp(capture.tree)'
    <3>1. capture' = capture
      BY <1>7 DEF CaptureApplyFails, frames
    <3>2. BackedUp(capture.tree)
      BY <2>1 DEF WorkTraced
    <3>3. QED BY <2>1, <2>2, <3>1, <3>2 DEF BackedUp, Backup
  <2>6. capture' = capture
    BY <1>7 DEF CaptureApplyFails, frames
  <2>7. CASE phase = "begin"
    <3>1. mutated' = {capture.tree}
      BY <2>1, <2>7 DEF WorkTraced
    <3>2. \A w \in mutated' : BackedUp(w)'
      BY <2>5, <2>6, <3>1 DEF BackedUp, Backup
    <3>3. QED BY <2>1, <2>4, <2>7, <3>2 DEF WorkTraced, Claimed
  <2>8. CASE phase = "forward"
    <3>1. mutated \subseteq Worktrees
      BY DEF CInv, IInv, TypeOK, TransactionType
    <3>2. \A w \in mutated \cap start.trees : Traced(w)
      BY <2>1, <2>8 DEF WorkTraced, Claimed
    <3>3. \A w \in mutated \cap start.trees : Traced(w)'
      BY <1>1, <1>2, <2>1, <2>2, <2>3, <3>1, <3>2 DEF Traced, Found, CaptureSteps
    <3>4. Unapplied(capture.tree)'
      <4>1. Caller \in SnapshotTrees /\ AdoptedTrees \subseteq SnapshotTrees
        BY <2>8 DEF CInv, IInv, CoveredOK, Accounted, Laid, RecordsRight, AdoptedTrees
      <4>2. capture.tree \notin AdoptedTrees \cup {Caller}
        BY <1>2, <2>1, <4>1 DEF CaptureSteps
      <4>3. QED BY <2>1, <2>6, <4>2 DEF Unapplied, AdoptedTrees
    <3>5. \A w \in Claimed' : Traced(w)' \/ (w = capture.tree)
      BY <2>1, <3>3 DEF Claimed
    <3>6. QED BY <2>1, <2>4, <2>5, <2>6, <2>8, <3>4, <3>5 DEF WorkTraced, Unapplied, BackedUp, Backup
  <2>9. QED BY <1>1, <2>7, <2>8
<1>8. CASE OwnAdopted
  <2>1. SameContents /\ mutated \subseteq mutated' /\ pc' = "save" /\ pc = "protected" /\ phase' = phase
    BY <1>8 DEF OwnAdopted, SameContents
  <2>2. phase = "forward"
    BY <2>1 DEF CInv, IInv, PhaseOK, HandlerSteps
  <2>3. QED BY <1>1, <2>1, <2>2, CalmKeeps DEF Forward, NothingHeld
<1> QED
  BY <1>4, <1>5, <1>6, <1>7, <1>8 DEF Capture

\* A stash that the transaction drops is its own, and has been applied or is no
\* longer needed.
LEMMA DropKeepsWork ==
    ASSUME CInv, IInv', Accounted, HistoryKept, WorkTraced, Way,
           pc = "drop", dropping.index \in DOMAIN git.stashes,
           git' = DropStashAt(git, dropping.index),
           UNCHANGED <<start, adopted, mutated, phase, published>>,
           pc' \notin (RollbackSteps \ {"release"}) \cup {"snapshotApply"}
    PROVE  HistoryKept' /\ WorkTraced'
<1> DEFINE e == git.stashes[dropping.index]
<1>1. git \in RepositoryType /\ dropping \in Drops /\ dropping # None
  BY TransactionFacts, DropFacts DEF DropSteps, CInv
<1>2. /\ git'.refs = git.refs /\ git'.trees = git.trees /\ git'.work = git.work
      /\ git'.origin = git.origin
      /\ \A j \in DOMAIN git.stashes \ {dropping.index} :
           \E k \in DOMAIN git'.stashes : git'.stashes[k] = git.stashes[j]
  BY <1>1, TakenOut, OriginKept
<1>3. e = dropping.entry /\ (dropping.slot = 0 => e.use \in OwnUses)
  BY DEF Accounted, Framed, DropsRight, DropSteps
<1>4. dropping.slot # 0 => \E w \in Worktrees : e = Backup(w)
  <2> SUFFICES ASSUME dropping.slot # 0 PROVE \E w \in Worktrees : e = Backup(w)
    OBVIOUS
  <2>1. dropping.slot \in DOMAIN snapshots /\ e = snapshots[dropping.slot].backup /\ e # None
    BY <1>3, DropFacts DEF CInv, Accounted, Framed, DropsRight, DropSteps
  <2>2. snapshots[dropping.slot] \in Snapshots
    BY <2>1, TransactionFacts DEF CInv
  <2>3. QED BY <2>1, <2>2 DEF Accounted, Laid, RecordsRight, Snapshots
<1>5. e.use # "operator" /\ (dropping.slot # 0 => e.use \notin OwnUses)
      /\ (dropping.slot = 0 => \A w : e # Backup(w))
  <2>1. CASE dropping.slot = 0
    BY <1>3, <2>1 DEF OwnUses, Backup
  <2>2. CASE dropping.slot # 0
    <3>1. PICK w \in Worktrees : e = Backup(w)
      BY <1>4, <2>2
    <3> HIDE DEF e
    <3>2. QED BY <2>2, <3>1 DEF OwnUses, Backup
  <2>3. QED BY <2>1, <2>2
<1>6. OperatorsStay(git, git')
  BY <1>2, <1>5 DEF OperatorsStay
<1>7. Grows(git, git') /\ Saved(git') = Saved(git)
  BY <1>2, SameGrows
<1>8. HistoryKept'
  BY <1>6, <1>7, HistoryStays
<1>9. mutated \subseteq Worktrees
  BY DEF CInv, IInv, TypeOK, TransactionType
<1>10. CASE phase \in {"forward", "settle"}
  <2>1. \A w \in mutated : Traced(w) => Traced(w)'
    <3>1. CASE dropping.slot # 0
      <4>1. OwnStashes(git) \subseteq OwnStashes(git')
        BY <1>2, <1>5, <3>1 DEF OwnStashes
      <4>2. QED BY <1>2, <1>7, <4>1 DEF Traced, Found
    <3>2. CASE dropping.slot = 0
      <4>1. phase = "forward"
        BY <1>10, <3>2 DEF CInv, IInv, PhaseOK, DropSteps
      <4>2. e.edits \subseteq git.work[Caller] /\ Caller \in git.trees
        BY <1>3, <3>2, <4>1 DEF Way, AppliedOK, DropSteps, Accounted, Laid, PlacesKnown
      <4>3. OwnStashes(git) \subseteq OwnStashes(git') \cup git.work[Caller]
        BY <1>2, <4>2 DEF OwnStashes
      <4>4. QED BY <1>2, <1>7, <4>2, <4>3 DEF Traced, Found
    <3>3. QED BY <3>1, <3>2
  <2>2. CASE phase = "forward"
    <3>1. Forward
      BY <2>2 DEF Forward
    <3>2. QED BY <1>8, <2>1, <3>1, ForwardTraced
  <2>3. CASE phase = "settle"
    BY <1>8, <2>1, <2>3 DEF WorkTraced, Claimed, Unapplied, AdoptedTrees
  <2>4. QED BY <1>10, <2>2, <2>3
<1>11. CASE phase = "undo"
  <2>1. Past(AfterTopology) /\ Past(AfterContents)
    BY <1>11 DEF Past, AfterTopology, AfterContents, Restoring
  <2>2. \A w \in Claimed : InPlace(w)
    BY <2>1 DEF Accounted, RollbackComes, Claimed, InPlace
  <2>3. \A w \in Claimed' : InPlace(w)'
    BY <1>2, <2>2 DEF Claimed, InPlace
  <2>4. QED BY <1>8, <1>11, <2>3 DEF WorkTraced
<1>12. CASE phase \in {"begin", "rollback"}
  BY <1>8, <1>12 DEF WorkTraced
<1> QED
  BY <1>10, <1>11, <1>12, TransactionFacts DEF CInv, Phases

\* The other steps of the end change nothing.
LEMMA DroppingKeepsWork ==
    ASSUME CInv, IInv', Accounted, HistoryKept, WorkTraced, Way, Dropping
    PROVE  HistoryKept' /\ WorkTraced'
<1>1. /\ UNCHANGED <<start, adopted, mutated, phase, published>> /\ pc \in DropSteps \cup {"finalize"}
      /\ pc' \in DropSteps \cup {"finalize", "release", "cluster", "cleanup", "done"}
  BY DEF Dropping, ListEntry, DropEntry, DropFails, FinalizeNext, Finalized, Fail, AfterDrop, claims, ledger, DropSteps
<1>2. CASE git' = git
  <2>1. SameContents
    BY <1>2 DEF SameContents
  <2>2. HistoryKept'
    BY <1>1, <2>1, SameFinds, HistoryStays
  <2>3. CASE phase = "forward"
    <3>1. Forward
      BY <1>1, <2>3 DEF Forward, DropSteps
    <3>2. QED BY <2>1, <3>1, CalmKeeps
  <2>4. CASE phase # "forward"
    <3>1. \A w : Traced(w)' = Traced(w) /\ InPlace(w)' = InPlace(w) /\ BackedUp(w)' = BackedUp(w)
                 /\ Unapplied(w)' = Unapplied(w)
      BY <1>1, <1>2 DEF Traced, InPlace, BackedUp, Unapplied, AdoptedTrees, Backup
    <3>2. Claimed' = Claimed
      BY <1>1 DEF Claimed
    <3>3. QED BY <1>1, <2>2, <2>4, <3>1, <3>2 DEF WorkTraced, DropSteps, RollbackSteps
  <2>5. QED BY <2>3, <2>4
<1>3. CASE git' # git
  <2>1. pc = "drop" /\ dropping.index \in DOMAIN git.stashes /\ git' = DropStashAt(git, dropping.index)
    BY <1>3 DEF Dropping, ListEntry, DropEntry, DropFails, FinalizeNext, Finalized
  <2>2. QED BY <1>1, <2>1, DropKeepsWork DEF DropSteps, RollbackSteps
<1> QED
  BY <1>2, <1>3

\* The cleanup finds the edits traced, or their backups in the list.
LEMMA CleanupKeepsWork ==
    ASSUME CInv, IInv', Accounted, HistoryKept, WorkTraced, Cleanup
    PROVE  HistoryKept' /\ WorkTraced'
<1>1. /\ git' = git /\ UNCHANGED <<start, adopted, mutated, published>> /\ pc = "cleanup"
      /\ \/ phase' = "settle" /\ published /\ pc' = "finalize"
         \/ phase' = phase /\ pc' = "done"
         \/ phase' = "rollback" /\ pc' = "inspect"
  BY DEF Cleanup, CleanupPublished, CleanupOwnershipLost, CleanupRollback, claims, ledger
<1>2. phase = "forward"
  BY <1>1, InHandler DEF CInv, HandlerSteps
<1>3. HistoryKept'
  BY <1>1, SameFinds, HistoryStays DEF SameContents
<1>4. \A w : Traced(w)' = Traced(w) /\ BackedUp(w)' = BackedUp(w) /\ Unapplied(w)' = Unapplied(w)
  BY <1>1 DEF Traced, BackedUp, Unapplied, AdoptedTrees, Backup
<1>5. Claimed' = Claimed
  BY <1>1 DEF Claimed
<1> QED
  BY <1>1, <1>2, <1>3, <1>4, <1>5 DEF WorkTraced

\* A rollback moves branches to where they started, and drops no stash before
\* the work is in place.
LEMMA RollbackKeepsWork ==
    ASSUME CInv, IInv', Accounted, Accounted', HistoryKept, WorkTraced, Rollback
    PROVE  HistoryKept' /\ WorkTraced'
<1>1. /\ UNCHANGED <<start, mutated, phase, snapshots, adopted, owned, journal>> /\ pc \in RollbackSteps
      /\ git \in RepositoryType /\ Caller \in Worktrees
  BY TransactionFacts DEF CInv, Rollback, Inspect, ClearCaller, RestoreCaller, ListReferences, RestoreReference,
    ReferencesRestored, RestoreAdopted, AdoptedRestored, ResetSnapshot, ApplyBackup, ContentsRestored,
    ReleaseOwned, RollbackFails, Fail, claims, ledger, RollbackSteps
<1>2. /\ pc = "release" => git' = git /\ pc' \in {"finalize", "list"}
      /\ pc' # "snapshotApply"
  BY DEF Rollback, Inspect, ClearCaller, RestoreCaller, ListReferences, RestoreReference, ReferencesRestored,
    RestoreAdopted, AdoptedRestored, ResetSnapshot, ApplyBackup, ContentsRestored, ReleaseOwned, RollbackFails,
    Fail
<1>3. phase \in {"undo", "rollback"}
  BY <1>1, RollbackFacts DEF CInv
<1>4. /\ git'.origin = git.origin /\ git'.stashes = git.stashes
      /\ \A b \in Branches : git'.refs[b] = git.refs[b] \/ git'.refs[b] = start.refs[b]
  <2>1. CASE git' = git
    BY <2>1
  <2>2. CASE ClearCaller /\ git' # git
    <3>1. /\ git' = ResetHard(git, Caller, seen.trees[Caller].commit) /\ seen.trees[Caller].commit # None
          /\ pc = "clear"
      BY <2>2 DEF ClearCaller
    <3>2. seen.trees[Caller].commit = Tip(git, Caller)
      BY <3>1 DEF Accounted, RollbackComes, Listed
    <3>3. QED BY <1>1, <3>1, <3>2, ResetInPlace, OriginKept
  <2>3. CASE RestoreCaller /\ git' # git
    <3>1. /\ git' = Restored(git, Caller, Listed(start, Caller)) /\ CanRestore(Caller, Listed(start, Caller))
      BY <2>3 DEF RestoreCaller
    <3>2. HeadMoves(git, git', Caller)
      BY <1>1, <3>1, StartListed, RestoredFields DEF CanRestore, CInv
    <3>3. QED BY <1>1, <3>1, <3>2, OriginKept DEF HeadMoves
  <2>4. CASE RestoreReference /\ git' # git
    <3>1. PICK b \in pending : git' = [git EXCEPT !.refs[b] = journal[b].initial] /\ pc = "ref"
      BY <2>4 DEF RestoreReference
    <3>2. journal[b].initial = start.refs[b] /\ b \in Branches
      BY <1>1, <3>1, RollbackFacts DEF CInv, Accounted, Laid, RefsKnown, Journaled
    <3>3. QED BY <1>1, <3>1, <3>2 DEF RepositoryType
  <2>5. CASE RestoreAdopted /\ git' # git
    <3> DEFINE w == adopted[cursor].tree
               listed == adopted[cursor].listed
    <3>1. /\ cursor \in DOMAIN adopted /\ CanRestore(w, listed)
          /\ git' = AddTree(git, w, listed) \/ git' = Restored(git, w, listed)
      BY <2>5 DEF RestoreAdopted
    <3>2. adopted[cursor] \in Adoptions
      BY <3>1, TransactionFacts DEF CInv
    <3>3. w \in Worktrees /\ listed \in ListedCheckouts /\ (listed.head = None => listed.commit # None)
      BY <3>1, <3>2 DEF Adoptions, CanRestore
    <3> HIDE DEF w, listed
    <3>4. git'.refs = git.refs /\ git'.stashes = git.stashes
      BY <1>1, <3>1, <3>3, AddFields, RestoredFields DEF HeadMoves
    <3>5. QED BY <1>1, <3>1, <3>3, <3>4, OriginKept
  <2>6. CASE ResetSnapshot /\ git' # git
    <3> DEFINE w == snapshots[cursor].tree
               c == snapshots[cursor].listed.commit
    <3>1. /\ cursor \in DOMAIN snapshots /\ git' = ResetHard(git, w, c) /\ c # None /\ pc' = "backup"
      BY <2>6 DEF ResetSnapshot
    <3>2. snapshots[cursor] \in Snapshots
      BY <3>1, TransactionFacts DEF CInv
    <3>3. w \in Worktrees /\ c \in Commits
      BY <3>1, <3>2 DEF Snapshots, ListedCheckouts
    <3> HIDE DEF w, c
    <3>4. git'.stashes = git.stashes
      <4>1. TipMoves(git, ResetHard(git, w, c), w)
        BY <1>1, <3>3, ResetFields
      <4>2. QED BY <3>1, <4>1 DEF TipMoves
    <3>7. git'.origin = git.origin
      BY <1>1, <3>1, <3>3, OriginKept
    <3>5. git'.refs = start.refs
      BY <1>1, <1>3, <3>1 DEF Accounted, RollbackComes, Past, AfterRefs, Restoring
    <3>6. QED BY <3>4, <3>5, <3>7
  <2>7. CASE ApplyBackup /\ git' # git
    <3>1. /\ pc = "backup" /\ git' = ApplyStash(git, snapshots[cursor].tree, snapshots[cursor].backup)
          /\ snapshots[cursor].backup # None
      BY <2>7 DEF ApplyBackup
    <3>2. snapshots[cursor] \in Snapshots
      BY <1>1, <3>1, RollbackFacts, TransactionFacts DEF CInv
    <3>3. snapshots[cursor].tree \in Worktrees /\ snapshots[cursor].backup \in Entries
      BY <3>1, <3>2 DEF Snapshots
    <3>4. git'.refs = git.refs /\ git'.stashes = git.stashes
      BY <1>1, <3>1, <3>3, ApplyFields
    <3>5. git'.origin = git.origin
      BY <1>1, <3>1, <3>3, OriginKept
    <3>6. QED BY <3>4, <3>5
  <2>8. QED BY <2>1, <2>2, <2>3, <2>4, <2>5, <2>6, <2>7 DEF Rollback, Inspect, ListReferences,
    ReferencesRestored, AdoptedRestored, ContentsRestored, ReleaseOwned, RollbackFails
<1>5. HistoryKept'
  BY <1>1, <1>4, SameStashes, OperatorsStayOn DEF HistoryKept, Sound, Saved, Grows, Remote, Exists
<1>6. CASE phase = "undo"
  <2>1. Claimed' = Claimed /\ \A w : BackedUp(w)' = BackedUp(w)
    BY <1>1, <1>4 DEF Claimed, BackedUp, Backup
  <2>2. CASE pc = "release"
    <3>1. \A w : InPlace(w)' = InPlace(w)
      BY <1>1, <1>2, <2>2 DEF InPlace
    <3>2. QED BY <1>1, <1>2, <1>5, <1>6, <2>1, <2>2, <3>1 DEF WorkTraced, RollbackSteps
  <2>3. CASE pc # "release"
    BY <1>1, <1>2, <1>5, <1>6, <2>1, <2>3 DEF WorkTraced
  <2>4. QED BY <2>2, <2>3
<1>7. CASE phase = "rollback"
  BY <1>1, <1>2, <1>5, <1>7 DEF WorkTraced
<1> QED
  BY <1>3, <1>6, <1>7

\* A command that returns has done its work.
LEMMA CompleteKeepsWork ==
    ASSUME CInv, IInv', Accounted, HistoryKept, WorkTraced, Complete
    PROVE  HistoryKept' /\ WorkTraced'
<1>1. pc = "complete" /\ pc' = cmd.then /\ cmd.then \in Continuations
  BY RunningFacts DEF Complete, CommandSteps, CInv
<1>2. Deciding
  BY <1>1 DEF Complete, Deciding, SameContents, Continuations, HandlerSteps, CommandSteps
<1> QED
  BY <1>2, DecidingKeeps

\* No step of the transaction loses track of the work.
LEMMA TransactionKeepsWork ==
    ASSUME CInv, IInv', Accounted, Accounted', HistoryKept, WorkTraced, Way, TransactionStep
    PROVE  HistoryKept' /\ WorkTraced'
BY CompleteKeepsWork, CaptureKeepsWork, DroppingKeepsWork, CleanupKeepsWork, RollbackKeepsWork DEF
  TransactionStep, Transaction

----------------------------------------
\* The way of the handler

\* Where a claim of Way is about the step.
Minded ==
    LateSteps \cup CommandSteps \cup CaptureSteps \cup DropSteps \cup
    {"adopt", "protected", "save", "leave", "retry", "ownInvocation", "isolation",
     "dropIsolation", "dropOwned", "cluster", "generate"}

\* Where the caller's edits may still be in its worktree alone.
Unsettled == {"status", "finalize", "cleanup", "done"}

\* A step to where Way claims nothing but that the edits are put away.
LEMMA AwayWay ==
    ASSUME pc' \notin Minded, phase' = "forward" /\ ~dirty' /\ pc' \notin Unsettled => PutAway'
    PROVE  Way'
BY DEF Way, CleanOK, HeadOK, ResetOK, AppliedOK, Toward, InAdoption, OnBranch, Clustering, Minded, Unsettled,
  LateSteps, CommandSteps, CaptureSteps, DropSteps

\* Way is about the forward phase.
LEMMA ElseWay ==
    ASSUME IInv', phase' # "forward"
    PROVE  Way'
<1>1. pc' \notin HandlerSteps
  BY DEF IInv, PhaseOK
<1>2. QED BY <1>1 DEF Way, CleanOK, HeadOK, ResetOK, AppliedOK, Toward, InAdoption, OnBranch, Clustering,
  LateSteps, CommandSteps, HandlerSteps, Continuations

\* The caller's edits are put away, and stay so.
LEMMA PutAwayStays ==
    ASSUME PutAway, UNCHANGED start, Grows(git, git'), StashesStay(git, git')
    PROVE  PutAway'
BY GrowthHolds, OwnStashesStay DEF PutAway

\* Where the caller is taken for clean, its edits are put away.
LEMMA WasPutAway ==
    ASSUME CInv, Way, pc \in HandlerSteps \ {"status", "cleanup"}, ~dirty, ~Clustering
    PROVE  PutAway
BY InHandler DEF CInv, Way, CleanOK, HandlerSteps, Continuations, CommandSteps, DropSteps

\* A clean worktree has nothing to put away.
LEMMA CallerClean ==
    ASSUME CInv, Accounted, WorkTraced, pc \in HandlerSteps \ {"cleanup"}, git.work[Caller] = {}
    PROVE  PutAway
<1>1. phase = "forward" /\ NothingHeld /\ Caller \in Worktrees /\ pc \notin {"cleanup", "done"}
  BY InHandler, TransactionFacts DEF CInv, NothingHeld, HandlerSteps, CommandSteps, Continuations
<1>2. CASE Caller \in mutated
  BY <1>1, <1>2 DEF WorkTraced, Claimed, Traced, Found, PutAway, Accounted, Laid, PlacesKnown
<1>3. CASE Caller \notin mutated
  <2>1. git.work[Caller] = start.work[Caller]
    BY <1>1, <1>3 DEF Accounted, Kept, WorkKnown, Held, NothingHeld, Ending
  <2>2. QED BY <2>1 DEF PutAway
<1>4. QED BY <1>2, <1>3

\* A decision that goes where nothing is claimed.
LEMMA DecisionWay ==
    ASSUME CInv, Way, Deciding, UNCHANGED dirty, pc # "status", ~Clustering \/ pc' = "cleanup",
           pc' \notin Minded
    PROVE  Way'
<1>1. ~dirty' /\ pc' \notin Unsettled => PutAway'
  BY WasPutAway, PutAwayStays, SameFinds DEF Deciding, Unsettled
<1>2. QED BY <1>1, AwayWay

\* What a command needs to be issued.
Sends(c) ==
    /\ c.then \in LateSteps => ~dirty
    /\ c.kind = "switch" \/ c.then \in {"leave", "retry"} =>
         switching'.to = branch /\ (switching'.then \in LateSteps => ~dirty)
    /\ c.kind = "reset" =>
         /\ ~dirty /\ c.then # "cluster" /\ git.head[Caller] = branch
         /\ git.refs[branch] # None /\ git.refs[branch] \subseteq c.onto /\ c.onto = git.origin[branch]
    /\ c.then \in {"cluster", "dropIsolation"} => git.head[Caller] = branch
    /\ c.then \in {"dropIsolation", "dropOwned"} => c.kind = "apply"
    /\ c.kind \in {"switch", "create"} => c.to = branch
    /\ c.then \in {"isolation", "baseAhead", "align"} => c.kind \in {"switch", "create"}
    /\ c.kind = "commit" => git.head[c.tree] # None
    /\ c.then # "cluster" => ~Clustering

\* A command that is prepared with what it needs,
LEMMA PreparedWay ==
    ASSUME CInv, Way, Deciding, NEW c \in Commands, Prepare(c, "cleanup"), UNCHANGED <<dirty, branch, git>>,
           pc # "status", Sends(c)
    PROVE  Way'
<1>1. CASE pc' = "cleanup"
  BY <1>1, AwayWay DEF Minded, Unsettled, LateSteps, CommandSteps, CaptureSteps, DropSteps
<1>2. CASE pc' # "cleanup"
  <2>1. PICK refs : cmd' = [c EXCEPT !.refs = refs]
    BY <1>2 DEF Prepare
  <2>2. /\ pc' = "command" /\ cmd'.kind = c.kind /\ cmd'.tree = c.tree /\ cmd'.to = c.to
        /\ cmd'.onto = c.onto /\ cmd'.then = c.then
    BY <1>2, <2>1 DEF Prepare, Commands
  <2>3. c.then # "cluster" /\ ~dirty' => PutAway'
    BY WasPutAway, PutAwayStays, SameFinds DEF Deciding, Sends
  <2>4. CleanOK'
    <3>1. Toward(LateSteps)' => ~dirty'
      BY <2>2 DEF Toward, Sends, InAdoption, LateSteps, CommandSteps, CaptureSteps
    <3>2. Clustering' <=> c.then = "cluster"
      BY <2>2 DEF Clustering, CommandSteps
    <3>3. QED BY <2>2, <2>3, <3>1, <3>2 DEF CleanOK, Sends
  <2>5. HeadOK'
    BY <2>2 DEF HeadOK, Sends, InAdoption, OnBranch, Clustering, CommandSteps, CaptureSteps, DropSteps
  <2>6. ResetOK' /\ AppliedOK'
    BY <2>2 DEF ResetOK, AppliedOK, Sends, CommandSteps, DropSteps
  <2>7. QED BY <2>4, <2>5, <2>6 DEF Way
<1>3. QED BY <1>1, <1>2

\* or issued.
LEMMA IssueWay ==
    ASSUME CInv, Way, NEW c \in Commands, Issue(c), pc \in HandlerSteps \ {"status", "cleanup"},
           UNCHANGED <<dirty, branch>>, Sends(c)
    PROVE  Way'
BY IssueDeciding, PreparedWay DEF Issue

\* The commands the handler writes.
LEMMA CommandParts ==
    ASSUME NEW kind, NEW tree, NEW then, NEW b, NEW o
    PROVE  /\ Command(kind, tree, then).kind = kind
           /\ Command(kind, tree, then).tree = tree
           /\ Command(kind, tree, then).then = then
           /\ [Command(kind, tree, then) EXCEPT !.to = b].kind = kind
           /\ [Command(kind, tree, then) EXCEPT !.to = b].then = then
           /\ [Command(kind, tree, then) EXCEPT !.to = b].to = b
           /\ [Command(kind, tree, then) EXCEPT !.onto = o].kind = kind
           /\ [Command(kind, tree, then) EXCEPT !.onto = o].then = then
           /\ [Command(kind, tree, then) EXCEPT !.onto = o].onto = o
           /\ [Command(kind, tree, then) EXCEPT !.to = b, !.onto = o].kind = kind
           /\ [Command(kind, tree, then) EXCEPT !.to = b, !.onto = o].then = then
           /\ [Command(kind, tree, then) EXCEPT !.to = b, !.onto = o].to = b
           /\ [Command(kind, tree, then) EXCEPT !.edits = o].kind = kind
           /\ [Command(kind, tree, then) EXCEPT !.edits = o].tree = tree
           /\ [Command(kind, tree, then) EXCEPT !.edits = o].then = then
BY DEF Command

\* A step that may issue a command.
Sending == pc \in HandlerSteps \ {"status", "cleanup"} /\ UNCHANGED <<dirty, branch>>

\* A command without a branch or a commit of its own,
LEMMA PlainWay ==
    ASSUME CInv, Way, Sending, ~Clustering,
           NEW kind \in Kinds \ {"switch", "create", "reset", "commit"}, NEW tree \in Worktrees,
           NEW then \in Continuations \ (LateSteps \cup {"cluster", "isolation"}),
           then \in {"dropIsolation", "dropOwned"} => kind = "apply",
           then = "dropIsolation" => git.head[Caller] = branch,
           then \in {"leave", "retry"} => switching'.to = branch /\ (switching'.then \in LateSteps => ~dirty),
           Issue(Command(kind, tree, then))
    PROVE  Way'
<1> DEFINE c == Command(kind, tree, then)
<1>1. c \in Commands /\ c.kind = kind /\ c.tree = tree /\ c.then = then
  <2>1. c \in Commands
    BY CommandType
  <2>2. QED BY <2>1, CommandParts
<1> HIDE DEF c
<1>2. Sends(c)
  BY <1>1 DEF Sends, LateSteps
<1>3. QED BY <1>1, <1>2, IssueWay DEF Sending, c

\* a push,
LEMMA PushWay ==
    ASSUME CInv, Way, Sending, ~Clustering, NEW b \in Branches,
           NEW then \in Continuations \ (LateSteps \cup {"cluster", "isolation", "dropIsolation", "dropOwned",
           "leave", "retry"}),
           Issue([Command("push", Caller, then) EXCEPT !.to = b])
    PROVE  Way'
<1> DEFINE c == [Command("push", Caller, then) EXCEPT !.to = b]
<1>1. c \in Commands /\ c.kind = "push" /\ c.then = then
  <2>1. c \in Commands
    BY CommandType, TransactionFacts DEF Kinds, CInv
  <2>2. QED BY <2>1, CommandParts
<1> HIDE DEF c
<1>2. Sends(c)
  BY <1>1 DEF Sends, LateSteps
<1>3. QED BY <1>1, <1>2, IssueWay DEF Sending, c

\* a merge,
LEMMA MergeWay ==
    ASSUME CInv, Way, Sending, ~Clustering, NEW b \in Branches,
           NEW then \in Continuations \ (LateSteps \cup {"cluster", "isolation", "dropIsolation", "dropOwned",
           "leave", "retry"}),
           Merge(b, then)
    PROVE  Way'
<1> DEFINE c == [Command("merge", Caller, then) EXCEPT !.onto = OriginTip(b)]
<1>1. OriginTip(b) \in Commits /\ Issue(c) /\ Caller \in Worktrees
  BY TransactionFacts, RepositoryFields DEF Merge, OriginTip, Exists, CInv
<1>2. c \in Commands /\ c.kind = "merge" /\ c.then = then
  <2>1. c \in Commands
    BY <1>1, CommandType DEF Kinds
  <2>2. QED BY <2>1, CommandParts
<1> HIDE DEF c
<1>3. Sends(c)
  BY <1>2 DEF Sends, LateSteps
<1>4. QED BY <1>1, <1>2, <1>3, IssueWay DEF Sending

\* a reset, which finds nothing that is not on the remote,
LEMMA ResetWay ==
    ASSUME CInv, Way, pc \in {"baseReset", "alignReset"}, UNCHANGED <<dirty, branch>>,
           NEW then \in {"restore", "mergeBase"}, Reset(branch, then)
    PROVE  Way'
<1> DEFINE c == [Command("reset", Caller, then) EXCEPT !.onto = OriginTip(branch)]
<1>1. /\ git.refs \in [Branches -> {None} \cup Commits] /\ git.origin \in [Branches -> {None} \cup Commits]
      /\ branch \in Branches /\ Caller \in Worktrees
  BY TransactionFacts, RepositoryFields DEF CInv, IInv, TypeOK, HandlerType
<1>2. OriginTip(branch) \in Commits /\ Issue(c) /\ then \in Continuations
  BY <1>1 DEF Reset, OriginTip, Exists, Continuations
<1>3. c \in Commands /\ c.kind = "reset" /\ c.then = then /\ c.onto = OriginTip(branch)
  <2>1. c \in Commands
    BY <1>1, <1>2, CommandType DEF Kinds
  <2>2. QED BY <2>1, CommandParts
<1> HIDE DEF c
<1>4. git.refs[branch] # None /\ git.refs[branch] \subseteq OriginTip(branch)
  <2>1. git.refs[branch] # None /\ ~Beyond(git.refs[branch], git.origin[branch])
    BY DEF Way, ResetOK
  <2>2. OriginTip(branch) # None
    BY <1>2, NoneAssumption DEF Commits
  <2>3. QED BY <2>1, <2>2 DEF Beyond, OriginTip
<1>5. ~dirty /\ git.head[Caller] = branch /\ ~Clustering
  BY DEF Way, CleanOK, HeadOK, Toward, LateSteps, OnBranch, Clustering, CommandSteps
<1>6. Sends(c)
  BY <1>3, <1>4, <1>5 DEF Sends, LateSteps, OriginTip
<1>7. QED BY <1>2, <1>3, <1>6, IssueWay DEF HandlerSteps

\* a new branch,
LEMMA CreateWay ==
    ASSUME CInv, Way, Sending, ~Clustering, NEW commit \in {None} \cup Commits,
           NEW then \in Continuations \ {"cluster", "dropIsolation", "dropOwned", "leave", "retry"},
           then \in LateSteps => ~dirty, CreateAt(branch, commit, then)
    PROVE  Way'
<1> DEFINE c == [Command("create", Caller, then) EXCEPT !.to = branch, !.onto = commit]
<1>1. branch \in Branches /\ Caller \in Worktrees /\ commit \in Commits /\ Issue(c)
  BY TransactionFacts DEF CInv, IInv, TypeOK, HandlerType, CreateAt
<1>2. c \in Commands /\ c.kind = "create" /\ c.then = then /\ c.to = branch
  <2>1. c \in Commands
    BY <1>1, CommandType DEF Kinds
  <2>2. QED BY <2>1, CommandParts
<1> HIDE DEF c
<1>3. Sends(c)
  BY <1>2 DEF Sends
<1>4. QED BY <1>1, <1>2, <1>3, IssueWay DEF Sending

\* and a switch.
LEMMA SwitchingWay ==
    ASSUME CInv, Way, pc \in HandlerSteps \ {"status", "cleanup"}, ~Clustering,
           NEW then \in AfterSwitch, then \in LateSteps => ~dirty, SwitchWithAdoption(branch, then)
    PROVE  Way'
<1> DEFINE c == [Command("switch", Caller, then) EXCEPT !.to = branch]
<1>1. /\ branch \in Branches /\ Caller \in Worktrees /\ Issue(c) /\ then \in Continuations
      /\ switching'.to = branch /\ switching'.then = then /\ UNCHANGED <<dirty, branch>>
  BY TransactionFacts DEF CInv, IInv, TypeOK, HandlerType, SwitchWithAdoption, AfterSwitch, Continuations, plans
<1>2. c \in Commands /\ c.kind = "switch" /\ c.then = then /\ c.to = branch
  <2>1. c \in Commands
    BY <1>1, CommandType DEF Kinds
  <2>2. QED BY <2>1, CommandParts
<1> HIDE DEF c
<1>3. Sends(c)
  BY <1>1, <1>2 DEF Sends, AfterSwitch
<1>4. QED BY <1>1, <1>2, <1>3, IssueWay

----------------------------------------
\* The way through the handler

\* Planning the stack.
LEMMA PlanningWay ==
    ASSUME CInv, IInv', Accounted, WorkTraced, Way, Planning PROVE Way'
<1>0. Deciding
  BY PlanningDeciding DEF CInv
<1>1. CASE ReadStatus
  <2>1. pc = "status" /\ pc' = "plan" /\ dirty' = (git.work[Caller] # {})
    BY <1>1 DEF ReadStatus
  <2>2. ~dirty' => PutAway
    BY <1>0, <2>1, CallerClean DEF Deciding
  <2>3. ~dirty' => PutAway'
    BY <1>0, <2>2, PutAwayStays, SameFinds DEF Deciding
  <2>4. QED BY <2>1, <2>3, AwayWay DEF Minded, LateSteps, CommandSteps, CaptureSteps, DropSteps
<1>2. CASE ClimbToOpen \/ UnwindParent
  <2>1. /\ Sending /\ ~Clustering
        /\ \E b \in Branches, then \in {"unwind", "openParent"} : Issue([Command("push", Caller, then) EXCEPT !.to = b])
    <3>1. CASE ClimbToOpen
      BY <3>1, HandlerFacts DEF ClimbToOpen, Sending, Clustering, CommandSteps, HandlerSteps, handlerVars, plans, CInv
    <3>2. CASE UnwindParent
      <4>1. Last(chain) \in Branches
        BY <3>2, HandlerFacts, LastStepsAre DEF UnwindParent, HandlerSteps, Continuations, CInv, Last
      <4>2. QED BY <3>2, <4>1 DEF UnwindParent, Sending, Clustering, CommandSteps, HandlerSteps, Continuations, handlerVars, plans
    <3>3. QED BY <1>2, <3>1, <3>2
  <2>2. QED BY <2>1, PushWay DEF Continuations, LateSteps
<1>3. CASE Planning /\ ~ReadStatus /\ ~ClimbToOpen /\ ~UnwindParent
  <2>1. /\ UNCHANGED dirty /\ pc # "status" /\ ~Clustering /\ pc' \notin Minded
    BY <1>3 DEF Planning, PlanDefault, PlanUnstacked, PlanMerged, PlanStored, PlanChild, EnterParents,
      ClimbToDefault, ClimbFurther, ParentsReady, RecordReviewBase, OpenParent, OpenPullRequest, quiet, Planned,
      handlerVars, Clustering, Minded, LateSteps, CommandSteps, CaptureSteps, DropSteps
  <2>2. QED BY <1>0, <2>1, DecisionWay
<1> QED
  BY <1>1, <1>2, <1>3

\* The stash of the invocation, or of what is carried to another branch.
LEMMA OwnStashWay ==
    ASSUME CInv, Accounted, WorkTraced, Way, OwnStash PROVE Way'
<1>1. Deciding
  BY SavingDeciding DEF Saving, CInv
<1>2. pc \in {"ownInvocation", "ownIsolation"} /\ dirty' = (dirty /\ pc = "ownIsolation")
      /\ pc' = (IF pc = "ownInvocation" THEN "sync" ELSE "prepare")
  BY DEF OwnStash
<1>3. ~dirty' => PutAway
  <2>1. CASE pc = "ownInvocation"
    <3>1. git.work[Caller] = {}
      BY <2>1 DEF Way, CleanOK
    <3>2. QED BY <2>1, <3>1, CallerClean DEF HandlerSteps, Continuations
  <2>2. CASE pc = "ownIsolation"
    BY <1>2, <2>2, WasPutAway DEF HandlerSteps, Continuations, Clustering, CommandSteps
  <2>3. QED BY <1>2, <2>1, <2>2
<1>4. ~dirty' => PutAway'
  BY <1>1, <1>3, PutAwayStays, SameFinds DEF Deciding
<1>5. CASE pc = "ownIsolation"
  BY <1>2, <1>4, <1>5, AwayWay DEF Minded, LateSteps, CommandSteps, CaptureSteps, DropSteps
<1>6. CASE pc = "ownInvocation"
  BY <1>2, <1>4, <1>6 DEF Way, CleanOK, HeadOK, ResetOK, AppliedOK, Toward, InAdoption, OnBranch, Clustering,
    LateSteps, CommandSteps, CaptureSteps, DropSteps
<1> QED
  BY <1>2, <1>5, <1>6

\* A cluster is staged where the branch is checked out.
LEMMA ClusterWay ==
    ASSUME CInv, Accounted, WorkTraced, Way, StageCluster \/ CommitCluster \/ ClustersSaved PROVE Way'
<1>0. Deciding
  BY SavingDeciding DEF Saving, CInv
<1>1. pc \in {"cluster", "generate"} /\ git.head[Caller] = branch /\ branch \in Branches
  BY DEF StageCluster, CommitCluster, ClustersSaved, Way, HeadOK, OnBranch, Clustering, CInv, IInv, TypeOK, HandlerType
<1>2. CASE StageCluster
  <2>1. PICK edits : cmd' = [Command("commit", Caller, "cluster") EXCEPT !.edits = edits]
    BY <1>2 DEF StageCluster
  <2>2. cmd'.then = "cluster" /\ pc' = "generate" /\ UNCHANGED <<dirty, branch, git>>
    BY <1>2, <2>1, CommandParts DEF StageCluster, handlerVars, plans
  <2>3. QED BY <1>1, <2>2 DEF Way, CleanOK, HeadOK, ResetOK, AppliedOK, Toward, InAdoption, OnBranch,
    Clustering, LateSteps, CommandSteps, CaptureSteps, DropSteps
<1>3. CASE CommitCluster
  <2>1. /\ pc = "generate" /\ Issue(cmd) /\ UNCHANGED <<dirty, branch>>
        /\ cmd \in Commands /\ cmd.kind = "commit" /\ cmd.then = "cluster" /\ cmd.tree = Caller
    BY <1>3 DEF CommitCluster, handlerVars, plans, CInv, IInv, FramesOK, TypeOK, TransactionType, FrameType,
      Accounted, Framed, CommandRight
  <2>2. Sends(cmd)
    BY <1>1, <2>1, NoneAssumption DEF Sends, LateSteps
  <2>3. QED BY <2>1, <2>2, IssueWay DEF HandlerSteps
<1>4. CASE ClustersSaved
  <2>1. pc = "cluster" /\ git.work[Caller] = {} /\ dirty' = FALSE /\ pc' \in {"explicit", "sync"}
    BY <1>4 DEF ClustersSaved
  <2>2. PutAway'
    BY <1>0, <2>1, CallerClean, PutAwayStays, SameFinds DEF Deciding
  <2>3. QED BY <2>1, <2>2 DEF Way, CleanOK, HeadOK, ResetOK, AppliedOK, Toward, InAdoption, OnBranch,
    Clustering, LateSteps, CommandSteps, CaptureSteps, DropSteps
<1> QED
  BY <1>2, <1>3, <1>4

\* The dirty work on its way to the right branch.
LEMMA SavingWay ==
    ASSUME CInv, IInv', Accounted, WorkTraced, Way, Saving PROVE Way'
<1>0. Deciding /\ branch \in Branches /\ Caller \in Worktrees /\ git \in RepositoryType
  BY SavingDeciding, TransactionFacts DEF CInv, IInv, TypeOK, HandlerType
<1>1. CASE StashInvocation \/ Isolate
  <2>1. Sending /\ ~Clustering /\ \E then \in {"ownInvocation", "ownIsolation"} : Issue(Command("stash", Caller, then))
    BY <1>1 DEF StashInvocation, Isolate, Sending, Clustering, CommandSteps, HandlerSteps, handlerVars, plans
  <2>2. QED BY <1>0, <2>1, PlainWay DEF Continuations, LateSteps, Kinds
<1>2. CASE StashSkipped
  <2>1. /\ pc = "stash" /\ UNCHANGED dirty /\ pc' = (IF dirty THEN "route" ELSE "sync")
    BY <1>2 DEF StashSkipped, Skip
  <2>2. CASE dirty
    BY <1>0, <2>1, <2>2, DecisionWay DEF Minded, Clustering, LateSteps, CommandSteps, CaptureSteps, DropSteps
  <2>3. CASE ~dirty
    <3>1. PutAway'
      BY <1>0, <2>1, <2>3, WasPutAway, PutAwayStays, SameFinds DEF Deciding, HandlerSteps, Clustering, CommandSteps
    <3>2. QED BY <2>1, <2>3, <3>1 DEF Way, CleanOK, HeadOK, ResetOK, AppliedOK, Toward, InAdoption, OnBranch,
      Clustering, LateSteps, CommandSteps, CaptureSteps, DropSteps
  <2>4. QED BY <2>1, <2>2, <2>3
<1>3. CASE OwnStash
  BY <1>3, OwnStashWay
<1>4. CASE PrepareExisting
  BY <1>4, SwitchingWay DEF PrepareExisting, HandlerSteps, Clustering, CommandSteps, AfterSwitch, LateSteps
<1>5. CASE PrepareNew
  <2>1. Sending /\ ~Clustering
    BY <1>5 DEF PrepareNew, CreateAt, Sending, HandlerSteps, Clustering, CommandSteps, handlerVars, plans
  <2>2. \E commit \in {None} \cup Commits : CreateAt(branch, commit, "isolation")
    <3>1. OriginTip(reviewBase) \in {None} \cup Commits /\ Tip(git, Caller) \in {None} \cup Commits
      BY <1>0, TipKnown, RepositoryFields DEF OriginTip, CInv, IInv, TypeOK, HandlerType
    <3>2. QED BY <1>5, <3>1 DEF PrepareNew
  <2>3. QED BY <2>1, <2>2, CreateWay DEF Continuations, LateSteps
<1>6. CASE RestoreOwned
  <2>1. /\ Sending /\ ~Clustering
        /\ \/ pc = "isolation" /\ Issue(Command("apply", Caller, "dropIsolation"))
           \/ pc = "restore" /\ Issue(Command("apply", Caller, "dropOwned"))
    BY <1>6 DEF RestoreOwned, Sending, Clustering, CommandSteps, HandlerSteps, Continuations, handlerVars, plans
  <2>2. pc = "isolation" => git.head[Caller] = branch
    BY DEF Way, HeadOK, OnBranch
  <2>3. QED BY <1>0, <2>1, <2>2, PlainWay DEF Continuations, LateSteps, Kinds
<1>7. CASE NothingOwned
  <2>1. /\ UNCHANGED <<dirty, branch, git, cmd>>
        /\ \/ pc = "isolation" /\ pc' = "cluster"
           \/ pc = "restore" /\ pc' = "finalize"
    BY <1>7 DEF NothingOwned, Skip, quiet, plans, frames
  <2>2. CASE pc = "isolation"
    BY <2>1, <2>2 DEF Way, CleanOK, HeadOK, ResetOK, AppliedOK, Toward, InAdoption, OnBranch, Clustering,
      LateSteps, CommandSteps, CaptureSteps, DropSteps
  <2>3. CASE pc = "restore"
    BY <2>1, <2>3, AwayWay DEF Minded, Unsettled, LateSteps, CommandSteps, CaptureSteps, DropSteps
  <2>4. QED BY <2>1, <2>2, <2>3
<1>8. CASE DropOwned
  <2>1. PICK entry \in owned : dropping' = Drop(entry, 0)
    BY <1>8 DEF DropOwned
  <2>2. dropping'.entry = entry /\ dropping'.slot = 0
    BY <2>1 DEF Drop
  <2>3. /\ pc \in {"dropIsolation", "dropOwned"} /\ pc' = "list" /\ UNCHANGED <<git, cmd, branch, dirty, phase>>
    BY <1>8 DEF DropOwned, handlerVars, plans
  <2>4. /\ cmd.then = pc /\ entry.edits \subseteq git.work[Caller]
        /\ pc = "dropIsolation" => git.head[Caller] = branch
    BY <2>3 DEF Way, AppliedOK, HeadOK, OnBranch
  <2>5. QED BY <2>2, <2>3, <2>4 DEF Way, CleanOK, HeadOK, ResetOK, AppliedOK, Toward, InAdoption, OnBranch,
    Clustering, LateSteps, CommandSteps, CaptureSteps, DropSteps
<1>9. CASE StageCluster \/ CommitCluster \/ ClustersSaved
  BY <1>9, ClusterWay
<1>10. CASE Route
  BY <1>0, <1>10, DecisionWay DEF Route, quiet, Minded, Clustering, LateSteps, CommandSteps, CaptureSteps, DropSteps
<1>11. CASE PrepareFails \/ LoseIndex \/ GenerateFails
  BY <1>11, AwayWay DEF PrepareFails, LoseIndex, GenerateFails, Minded, Unsettled, LateSteps, CommandSteps, CaptureSteps, DropSteps
<1> QED
  BY <1>1, <1>2, <1>3, <1>4, <1>5, <1>6, <1>7, <1>8, <1>9, <1>10, <1>11 DEF Saving

\* From one of the late steps to another.
LEMMA LateWay ==
    ASSUME CInv, Way, Deciding, UNCHANGED dirty, pc \in LateSteps, pc' \in LateSteps \ {"baseAhead",
           "baseReset", "align", "alignReset"}
    PROVE  Way'
<1>1. ~dirty
  BY DEF Way, CleanOK, Toward
<1>2. PutAway'
  BY <1>1, WasPutAway, PutAwayStays, SameFinds DEF Deciding, LateSteps, Clustering, CommandSteps
<1>3. QED BY <1>1, <1>2 DEF Way, CleanOK, HeadOK, ResetOK, AppliedOK, Toward, InAdoption, OnBranch, Clustering,
  LateSteps, CommandSteps, CaptureSteps, DropSteps

\* Bringing the branch up to date.
LEMMA SyncingWay ==
    ASSUME CInv, IInv', Accounted, WorkTraced, Way, Syncing PROVE Way'
<1>0. /\ Deciding /\ branch \in Branches /\ Caller \in Worktrees /\ git \in RepositoryType
      /\ reviewBase \in Branches /\ (pc \in LateSteps => ~dirty)
  BY SyncingDeciding, TransactionFacts DEF CInv, IInv, TypeOK, HandlerType, Way, CleanOK, Toward
<1>1. CASE MergeExplicit \/ AlignMerge \/ MergeBase
  <2>1. /\ Sending /\ ~Clustering
        /\ \E b \in Branches, then \in {"pushExplicit", "mergeBase", "publish"} : Merge(b, then)
    BY <1>0, <1>1 DEF MergeExplicit, AlignMerge, MergeBase, Merge, Sending, Clustering, CommandSteps,
      HandlerSteps, Continuations, handlerVars, plans
  <2>2. QED BY <2>1, MergeWay DEF Continuations, LateSteps
<1>2. CASE PushExplicit \/ Publish
  <2>1. /\ Sending /\ ~Clustering
        /\ \E then \in {"restore", "openReview"} : Issue([Command("push", Caller, then) EXCEPT !.to = branch])
    BY <1>0, <1>2 DEF PushExplicit, Publish, Push, Sending, Clustering, CommandSteps, HandlerSteps,
      Continuations, handlerVars, plans
  <2>2. QED BY <1>0, <2>1, PushWay DEF Continuations, LateSteps
<1>3. CASE TrackBase \/ ReviewNew
  <2>1. /\ Sending /\ ~Clustering /\ pc \in LateSteps
        /\ \E commit \in {None} \cup Commits, then \in {"restore", "mergeBase"} : CreateAt(branch, commit, then)
    <3>1. OriginTip(branch) \in {None} \cup Commits /\ Tip(git, Caller) \in {None} \cup Commits
      BY <1>0, TipKnown, RepositoryFields DEF OriginTip
    <3>2. QED BY <1>3, <3>1 DEF TrackBase, ReviewNew, CreateAt, Sending, Clustering, CommandSteps, HandlerSteps,
      handlerVars, plans, LateSteps
  <2>2. QED BY <1>0, <2>1, CreateWay DEF Continuations, LateSteps
<1>4. CASE SwitchToBase \/ SwitchToReview \/ ReviewLocal
  <2>1. /\ pc \in LateSteps /\ pc \in HandlerSteps \ {"status", "cleanup"} /\ ~Clustering
        /\ \E then \in AfterSwitch : SwitchWithAdoption(branch, then)
    BY <1>4 DEF SwitchToBase, SwitchToReview, ReviewLocal, AfterSwitch, Clustering, CommandSteps, HandlerSteps, LateSteps
  <2>2. QED BY <1>0, <2>1, SwitchingWay
<1>5. CASE ResetBase \/ AlignReset
  <2>1. /\ pc \in {"baseReset", "alignReset"} /\ UNCHANGED <<dirty, branch>>
        /\ \E then \in {"restore", "mergeBase"} : Reset(branch, then)
    BY <1>5 DEF ResetBase, AlignReset, Reset, handlerVars, plans
  <2>2. QED BY <2>1, ResetWay
<1>6. CASE CheckBase \/ (Align /\ pc' = "alignReset")
  <2>1. /\ pc \in {"baseAhead", "align"} /\ pc' \in {"baseReset", "alignReset"} /\ UNCHANGED <<dirty, branch, git>>
        /\ git.refs[branch] # None /\ ~Beyond(git.refs[branch], git.origin[branch])
    BY <1>6 DEF CheckBase, Align, Skip, quiet, plans, LocalTip, OriginTip
  <2>2. ~dirty /\ git.head[Caller] = branch
    BY <1>0, <2>1 DEF Way, HeadOK, OnBranch, LateSteps
  <2>3. PutAway'
    BY <1>0, <2>1, <2>2, WasPutAway, PutAwayStays, SameFinds DEF Deciding, HandlerSteps, Continuations, Clustering, CommandSteps
  <2>4. QED BY <2>1, <2>2, <2>3 DEF Way, CleanOK, HeadOK, ResetOK, AppliedOK, Toward, InAdoption, OnBranch,
    Clustering, LateSteps, CommandSteps, CaptureSteps, DropSteps
<1>7. CASE OpenReview \/ (Align /\ pc' # "alignReset")
  <2>1. UNCHANGED dirty /\ pc \in {"openReview", "align"} /\ pc' \in {"restore", "cleanup", "alignMerge"}
    BY <1>7 DEF OpenReview, OpenPullRequest, Align, Skip, quiet
  <2>2. QED BY <1>0, <2>1, DecisionWay DEF Minded, Clustering, LateSteps, CommandSteps, CaptureSteps, DropSteps
<1>8. CASE ToBase \/ ToReview \/ ReviewOpen \/ ReviewMerged \/ ReviewRemote \/ FollowMerged \/ FollowEnds
  <2>1. UNCHANGED dirty /\ pc \in LateSteps /\ pc' \in LateSteps \ {"baseAhead", "baseReset", "align", "alignReset"}
    BY <1>8 DEF ToBase, ToReview, ReviewOpen, ReviewMerged, ReviewRemote, FollowMerged, FollowEnds, Follow, Skip, quiet, LateSteps
  <2>2. QED BY <1>0, <2>1, LateWay
<1> QED
  BY <1>1, <1>2, <1>3, <1>4, <1>5, <1>6, <1>7, <1>8 DEF Syncing

----------------------------------------
\* The way through an adoption

\* From one step of an adoption to the next.
LEMMA AdoptionWay ==
    ASSUME Way, InAdoption, phase = "forward", pc \in {"adopt", "protected", "save", "leave"} \cup CaptureSteps,
           UNCHANGED <<start, dirty, branch, switching>>, Grows(git, git'), StashesStay(git, git'),
           pc' \in {"protected", "save", "leave"} \cup CaptureSteps,
           pc' # "leave" => git'.head[capture'.tree] # None
    PROVE  Way'
<1>1. Toward(LateSteps)' => Toward(LateSteps)
  BY DEF Toward, InAdoption, LateSteps, CommandSteps, CaptureSteps
<1>2. ~dirty => PutAway
  BY DEF Way, CleanOK, Clustering, CommandSteps, CaptureSteps, DropSteps
<1>3. ~dirty => PutAway'
  BY <1>2, PutAwayStays
<1>4. switching.to = branch
  BY DEF Way, HeadOK
<1>5. CleanOK'
  BY <1>1, <1>3 DEF Way, CleanOK, CaptureSteps
<1>6. HeadOK'
  BY <1>4 DEF HeadOK, OnBranch, Clustering, CommandSteps, CaptureSteps, DropSteps
<1>7. ResetOK' /\ AppliedOK'
  BY DEF ResetOK, AppliedOK, CommandSteps, CaptureSteps, DropSteps
<1> QED
  BY <1>5, <1>6, <1>7 DEF Way

\* The sibling that holds the branch is protected, saved and released, and the
\* switch tried again.
LEMMA AdoptingWay ==
    ASSUME CInv, Accounted, WorkTraced, Way, Adopting PROVE Way'
<1>0. Deciding /\ branch \in Branches /\ Caller \in Worktrees /\ git \in RepositoryType
  BY OtherDeciding, TransactionFacts DEF CInv, IInv, TypeOK, HandlerType
<1>1. pc \in {"adopt", "save", "leave", "retry"} /\ InAdoption /\ phase = "forward" /\ ~Clustering
  BY <1>0, InHandler DEF Adopting, Adopt, SaveSibling, SiblingClean, ReleaseSibling, RetrySwitch, InAdoption,
    Clustering, CommandSteps, Deciding, CInv
<1>2. /\ switching \in Switches /\ switching.to = branch /\ switching.then \in AfterSwitch
      /\ switching.then \in LateSteps => ~dirty
  <2>1. switching \in Switches
    BY <1>1 DEF CInv, IInv, TypeOK, HandlerType, FramesOK
  <2>2. QED BY <1>1, <2>1 DEF Switches, Way, HeadOK, CleanOK, Toward
<1>3. CASE Adopt
  <2>1. PICK w \in Siblings : capture' = CaptureFrame(w, Listed(git, w))
    BY <1>3 DEF Adopt
  <2>2. capture'.tree = w /\ git.head[w] = branch
    BY <1>2, <2>1 DEF CaptureFrame, Siblings, Holders
  <2>3. git'.head[capture'.tree] # None
    BY <1>0, <2>2, NoneAssumption DEF Deciding
  <2>4. /\ pc' \in {"protected", "snapshot"} /\ pc = "adopt"
        /\ UNCHANGED <<dirty, branch, switching>>
    BY <1>3 DEF Adopt, handlerVars, plans
  <2>5. UNCHANGED start /\ Grows(git, git') /\ StashesStay(git, git')
    BY <1>0, SameFinds DEF Deciding
  <2>6. QED BY <1>1, <2>3, <2>4, <2>5, AdoptionWay DEF CaptureSteps
<1>4. CASE SaveSibling
  <2> DEFINE c == [Command("commit", capture.tree, "leave") EXCEPT !.edits = git.work[capture.tree]]
  <2>1. pc = "save" /\ Issue(c) /\ UNCHANGED <<dirty, branch, switching>>
    BY <1>4 DEF SaveSibling, handlerVars, plans
  <2>2. capture.tree \in Worktrees /\ git.work[capture.tree] \in SUBSET Tokens
    BY <1>0, <2>1, AdoptionFacts, RepositoryFields DEF CInv
  <2>3. c \in Commands /\ c.kind = "commit" /\ c.tree = capture.tree /\ c.then = "leave"
    <3>1. c \in Commands
      BY <2>2, CommandType DEF Kinds, Continuations
    <3>2. QED BY <3>1, CommandParts
  <2> HIDE DEF c
  <2>4. git.head[capture.tree] # None
    BY <2>1 DEF Way, HeadOK
  <2>5. Sends(c)
    BY <1>1, <1>2, <2>1, <2>3, <2>4 DEF Sends, LateSteps
  <2>6. QED BY <2>1, <2>3, <2>5, IssueWay DEF HandlerSteps
<1>5. CASE SiblingClean
  <2>1. /\ pc' = "leave" /\ UNCHANGED <<dirty, branch, switching>>
    BY <1>5 DEF SiblingClean, Skip, quiet, plans
  <2>2. UNCHANGED start /\ Grows(git, git') /\ StashesStay(git, git')
    BY <1>0, SameFinds DEF Deciding
  <2>3. pc = "save"
    BY <1>5 DEF SiblingClean
  <2>4. QED BY <1>1, <2>1, <2>2, <2>3, AdoptionWay
<1>6. CASE ReleaseSibling
  <2>1. pc = "leave" /\ UNCHANGED <<dirty, branch, switching>>
        /\ \E kind \in {"detach", "remove"} : Issue(Command(kind, capture.tree, "retry"))
    BY <1>6 DEF ReleaseSibling, handlerVars, plans
  <2>2. capture.tree \in Worktrees
    BY <2>1, AdoptionFacts DEF CInv
  <2>3. Sending
    BY <2>1 DEF Sending, HandlerSteps, Continuations
  <2>4. QED BY <1>1, <1>2, <2>1, <2>2, <2>3, PlainWay DEF Kinds, Continuations, LateSteps
<1>7. CASE RetrySwitch
  <2> DEFINE c == [Command("switch", Caller, switching.then) EXCEPT !.to = switching.to]
  <2>1. Issue(c) /\ UNCHANGED <<dirty, branch>> /\ switching' = [switching EXCEPT !.adopted = TRUE]
    BY <1>7 DEF RetrySwitch, plans
  <2>2. switching'.to = branch /\ switching'.then = switching.then
    BY <1>2, <2>1 DEF Switches
  <2>3. switching.then \in Continuations /\ switching.to \in Branches
    BY <1>0, <1>2 DEF AfterSwitch, Continuations
  <2>4. c \in Commands /\ c.kind = "switch" /\ c.to = branch /\ c.then = switching.then
    <3>1. c \in Commands
      BY <1>0, <2>3, CommandType DEF Kinds
    <3>2. QED BY <1>2, <3>1, CommandParts
  <2> HIDE DEF c
  <2>5. Sends(c)
    BY <1>1, <1>2, <2>2, <2>4 DEF Sends, AfterSwitch
  <2>6. QED BY <1>1, <2>1, <2>4, <2>5, IssueWay DEF HandlerSteps, Continuations
<1> QED
  BY <1>3, <1>4, <1>5, <1>6, <1>7 DEF Adopting

----------------------------------------
\* The way through a command

\* A command has run, and what follows it comes.
LEMMA RanWay ==
    ASSUME CInv, Way, pc \in CommandSteps,
           UNCHANGED <<start, phase, cmd, owned, dirty, branch, switching>>,
           Grows(git, git'), StashesStay(git, git'),
           pc' \in {cmd.then, "complete", "cleanup", "resolve", "abandon"},
           pc' # "cleanup" => git'.head[Caller] = IF cmd.kind \in {"switch", "create"} THEN branch ELSE git.head[Caller],
           pc' = "ownInvocation" => git'.work[Caller] = {},
           pc' = "complete" => cmd.kind \notin {"apply", "switch"},
           pc' \in {"dropIsolation", "dropOwned"} \/ (pc' = "resolve" /\ cmd.kind = "apply") =>
             \A e \in owned : e.edits \subseteq git'.work[Caller]
    PROVE  Way'
<1>1. cmd.then \in Continuations /\ phase = "forward"
  BY RunningFacts, InHandler DEF CInv
<1>2. Toward(LateSteps)' => Toward(LateSteps)
  BY <1>1 DEF Toward, InAdoption, LateSteps, CommandSteps, CaptureSteps, Continuations
<1>3. ~dirty /\ pc' # "cleanup" /\ ~Clustering' => PutAway'
  <2>1. pc' # "cleanup" /\ ~Clustering' => ~Clustering
    BY DEF Clustering, CommandSteps
  <2>2. ~dirty /\ ~Clustering => PutAway
    BY <1>1 DEF Way, CleanOK, CommandSteps, DropSteps
  <2>3. QED BY <2>1, <2>2, PutAwayStays
<1>4. CleanOK'
  BY <1>1, <1>2, <1>3 DEF Way, CleanOK, CommandSteps, Continuations
<1>5. HeadOK'
  <2>1. InAdoption' => switching'.to = branch'
    BY <1>1 DEF Way, HeadOK, InAdoption, CommandSteps, CaptureSteps, Continuations
  <2>2. OnBranch' => git'.head[Caller] = branch'
    BY <1>1 DEF Way, HeadOK, OnBranch, AppliedOK, Clustering, CommandSteps, DropSteps, Continuations
  <2>3. QED BY <1>1, <2>1, <2>2 DEF Way, HeadOK, CommandSteps, CaptureSteps, Continuations
<1>6. ResetOK' /\ AppliedOK'
  BY <1>1 DEF Way, ResetOK, AppliedOK, CommandSteps, DropSteps, Continuations
<1> QED
  BY <1>4, <1>5, <1>6 DEF Way

\* Where the caller is after a command.
LEMMA CommandHeads ==
    ASSUME CInv, Accounted, Way, RunCommand, ~SwitchBusy, ~SwitchMissing
    PROVE  git'.head[Caller] = IF cmd.kind \in {"switch", "create"} THEN branch ELSE git.head[Caller]
<1>0. pc = "command"
  BY DEF RunCommand, RunSwitch, RunCreate, RunDetach, RunRemove, RunCommit, RunReset, RunStash, RunMerge,
    RunConclude, RunApply, MergeConflicts, ApplyConflicts, PushReported, PushMalformed, PushUnreported, Running
<1>1. /\ git \in RepositoryType /\ cmd.tree \in Worktrees /\ cmd.onto \in Commits /\ cmd.edits \in SUBSET Tokens
      /\ Caller \in Worktrees /\ owned \subseteq Entries /\ branch \in Branches
      /\ (cmd.kind \in {"switch", "create"} => cmd.to = branch)
  BY <1>0, RunningFacts, TransactionFacts DEF CInv, CommandSteps, IInv, TypeOK, HandlerType, Way, HeadOK
<1>2. CASE RunSwitch
  <2>1. cmd.kind = "switch" /\ git' = SwitchTo(git, cmd.tree, cmd.to) /\ cmd.tree = Caller
    BY <1>0, <1>2, RunningRight DEF RunSwitch, Running, Landed
  <2>2. QED BY <1>1, <2>1, SwitchFields
<1>3. CASE RunCreate
  <2>1. cmd.kind = "create" /\ git' = CreateBranch(git, cmd.tree, cmd.to, cmd.onto) /\ cmd.tree = Caller
    BY <1>0, <1>3, RunningRight DEF RunCreate, Running, Landed
  <2> DEFINE m == [git EXCEPT !.refs[cmd.to] = cmd.onto]
  <2>2. m \in RepositoryType /\ git' = SwitchTo(m, Caller, branch)
    BY <1>1, <2>1 DEF RepositoryType, CreateBranch
  <2> HIDE DEF m
  <2>3. QED BY <1>1, <2>1, <2>2, SwitchFields
<1>4. CASE RunDetach \/ RunRemove
  <2>1. /\ cmd.kind \in {"detach", "remove"} /\ cmd.tree # Caller
        /\ \/ git' = DetachAt(git, cmd.tree, Tip(git, cmd.tree)) /\ Tip(git, cmd.tree) # None
           \/ git' = RemoveTree(git, cmd.tree)
    BY <1>0, <1>4, RunningRight DEF RunDetach, RunRemove, Running, Landed
  <2>2. CASE git' = DetachAt(git, cmd.tree, Tip(git, cmd.tree)) /\ Tip(git, cmd.tree) # None
    BY <1>1, <2>1, <2>2, TipKnown, DetachFields DEF HeadMoves
  <2>3. CASE git' = RemoveTree(git, cmd.tree)
    BY <1>1, <2>1, <2>3, RemoveFields
  <2>4. QED BY <2>1, <2>2, <2>3
<1>5. CASE RunCommit \/ RunReset \/ RunMerge \/ RunConclude
  <2>1. cmd.kind \in {"commit", "reset", "merge", "conclude"}
    BY <1>5 DEF RunCommit, RunReset, RunMerge, RunConclude, Running
  <2>2. TipMoves(git, git', cmd.tree)
    <3>1. CASE RunCommit
      BY <1>1, <3>1, CommitFields DEF RunCommit, Landed
    <3>2. CASE RunReset
      <4>1. TipMoves(git, ResetHard(git, cmd.tree, cmd.onto), cmd.tree)
        BY <1>1, ResetFields
      <4>2. QED BY <3>2, <4>1 DEF RunReset, Landed
    <3>3. CASE RunMerge \/ RunConclude
      BY <1>1, <3>3, MergeFields DEF RunMerge, RunConclude, Landed
    <3>4. QED BY <1>5, <3>1, <3>2, <3>3
  <2>3. QED BY <2>1, <2>2 DEF TipMoves
<1>6. CASE RunStash
  <2>1. PICK use \in StashUses : git' = PushStash(git, cmd.tree, use)
    BY <1>6 DEF RunStash, Landed, StashUses
  <2>2. LET h == PushStash(git, cmd.tree, use) IN h.head = git.head
    BY <1>1, StashFields
  <2>3. cmd.kind = "stash"
    BY <1>6 DEF RunStash, Running
  <2>4. QED BY <2>1, <2>2, <2>3
<1>7. CASE RunApply \/ ApplyConflicts
  <2>1. PICK e \in owned :
          \/ git' = ApplyStash(git, cmd.tree, e)
          \/ git' = [ApplyStash(git, cmd.tree, e) EXCEPT !.unmerged = @ \cup {cmd.tree}]
    BY <1>7 DEF RunApply, ApplyConflicts, Landed
  <2> DEFINE m == ApplyStash(git, cmd.tree, e)
  <2>2. m \in RepositoryType /\ m.head = git.head /\ (git' = m \/ git' = [m EXCEPT !.unmerged = m.unmerged \cup {cmd.tree}])
    BY <1>1, <2>1, ApplyFields, ApplyStashType
  <2> HIDE DEF m
  <2>3. git'.head = m.head
    <3>1. CASE git' = m
      BY <3>1
    <3>2. CASE git' = [m EXCEPT !.unmerged = m.unmerged \cup {cmd.tree}]
      BY <2>2, <3>2, UnmergedContents
    <3>3. QED BY <2>2, <3>1, <3>2
  <2>4. cmd.kind = "apply"
    BY <1>7 DEF RunApply, ApplyConflicts, Running
  <2>5. QED BY <2>2, <2>3, <2>4
<1>8. CASE MergeConflicts
  BY <1>1, <1>8, UnmergedContents DEF MergeConflicts, Running
<1>9. CASE PushReported \/ PushMalformed \/ PushUnreported
  <2>1. cmd.kind = "push" /\ git' \in {git, PushBranch(git, cmd.to)}
    BY <1>9 DEF PushReported, PushMalformed, PushUnreported, Running
  <2>2. git'.head = git.head
    BY <1>1, <2>1 DEF PushBranch, RepositoryType
  <2>3. QED BY <2>1, <2>2
<1> QED
  BY <1>2, <1>3, <1>4, <1>5, <1>6, <1>7, <1>8, <1>9 DEF RunCommand

\* What a stash and its application leave in the caller's worktree.
LEMMA CommandEdits ==
    ASSUME CInv, Accounted, RunStash \/ RunApply \/ ApplyConflicts
    PROVE  /\ RunStash => git'.work[Caller] = {}
           /\ RunApply \/ ApplyConflicts => \A e \in owned : e.edits \subseteq git'.work[Caller]
<1>0. pc = "command" /\ (RunStash => cmd.kind = "stash") /\ (RunApply \/ ApplyConflicts => cmd.kind = "apply")
  BY DEF RunStash, RunApply, ApplyConflicts, Running
<1>1. /\ git \in RepositoryType /\ Caller \in Worktrees /\ owned \subseteq Entries /\ cmd.tree = Caller
      /\ git.work \in [Worktrees -> SUBSET Tokens] /\ \A e, f \in owned : e = f
  BY <1>0, RunningRight, TransactionFacts, RepositoryFields, InHandler DEF CInv, OwnsOne, HandlerSteps, CommandSteps
<1>2. CASE RunStash
  <2>1. PICK use \in StashUses : git' = PushStash(git, Caller, use)
    BY <1>1, <1>2 DEF RunStash, Running, Landed, StashUses
  <2>a. LET h == PushStash(git, Caller, use) IN h.work = [git.work EXCEPT ![Caller] = {}]
    BY <1>1, StashFields
  <2>2. git'.work = [git.work EXCEPT ![Caller] = {}]
    BY <2>1, <2>a
  <2>3. QED BY <1>0, <1>1, <1>2, <2>2
<1>3. CASE RunApply \/ ApplyConflicts
  <2>1. PICK e \in owned :
          \/ git' = ApplyStash(git, Caller, e)
          \/ git' = [ApplyStash(git, Caller, e) EXCEPT !.unmerged = @ \cup {Caller}]
    BY <1>1, <1>3 DEF RunApply, ApplyConflicts, Landed
  <2> DEFINE m == ApplyStash(git, Caller, e)
  <2>2. /\ m \in RepositoryType /\ m.work = [git.work EXCEPT ![Caller] = git.work[Caller] \cup e.edits]
        /\ (git' = m \/ git' = [m EXCEPT !.unmerged = m.unmerged \cup {Caller}])
    BY <1>1, <2>1, ApplyFields, ApplyStashType
  <2> HIDE DEF m
  <2>3. git'.work = m.work
    <3>1. CASE git' = m
      BY <3>1
    <3>2. CASE git' = [m EXCEPT !.unmerged = m.unmerged \cup {Caller}]
      BY <2>2, <3>2, UnmergedContents
    <3>3. QED BY <2>2, <3>1, <3>2
  <2>4. e.edits \subseteq git'.work[Caller]
    BY <1>1, <2>2, <2>3
  <2>5. QED BY <1>0, <1>1, <1>3, <2>4
<1> QED
  BY <1>2, <1>3

\* Whatever Git answers, the handler finds its way.
LEMMA CommandWay ==
    ASSUME CInv, Accounted, HistoryKept, WorkTraced, Way, RunCommand
    PROVE  Way'
<1>1. CASE SwitchBusy
  <2>1. /\ pc = "command" /\ cmd.kind = "switch" /\ pc' = "adopt" /\ UNCHANGED <<git, phase, dirty, branch, switching>>
    BY <1>1 DEF SwitchBusy, Running, quiet, plans
  <2>2. Deciding
    BY <1>1, OtherDeciding DEF CInv
  <2>3. /\ cmd.then \in AfterSwitch /\ switching.to = branch /\ InAdoption
        /\ Toward(LateSteps)' => Toward(LateSteps)
    BY <2>1 DEF CInv, IInv, FramesOK, CommandSteps, Way, HeadOK, InAdoption, Toward, LateSteps
  <2>4. ~dirty => PutAway'
    BY <2>1, <2>2, <2>3, WasPutAway, PutAwayStays, SameFinds DEF Deciding, Clustering, AfterSwitch, HandlerSteps, CommandSteps
  <2>5. CleanOK' /\ HeadOK'
    BY <2>1, <2>3, <2>4 DEF Way, CleanOK, HeadOK, OnBranch, Clustering, CommandSteps, CaptureSteps, DropSteps
  <2>6. QED BY <2>1, <2>5 DEF Way, ResetOK, AppliedOK, CommandSteps, DropSteps
<1>2. CASE SwitchMissing
  <2>1. /\ pc = "command" /\ cmd.kind = "switch" /\ CreateAt(cmd.to, OriginTip(cmd.to), cmd.then)
        /\ UNCHANGED <<dirty, branch>>
    BY <1>2 DEF SwitchMissing, Running, CreateAt, handlerVars, plans
  <2>2. cmd.to = branch /\ cmd.then \in AfterSwitch /\ (cmd.then \in LateSteps => ~dirty)
    BY <2>1 DEF Way, HeadOK, CleanOK, Toward, CInv, IInv, FramesOK, CommandSteps
  <2>3. OriginTip(branch) \in {None} \cup Commits
    BY TransactionFacts, RepositoryFields DEF OriginTip, CInv, IInv, TypeOK, HandlerType
  <2>4. Sending /\ ~Clustering
    BY <2>1, <2>2 DEF Sending, Clustering, AfterSwitch, HandlerSteps, CommandSteps
  <2>5. QED BY <2>1, <2>2, <2>3, <2>4, CreateWay DEF AfterSwitch, Continuations
<1>3. CASE ~SwitchBusy /\ ~SwitchMissing
  <2>0. pc = "command" /\ pc' \in {AfterCommand, cmd.then, "complete", "cleanup", "resolve", "abandon"}
        /\ UNCHANGED <<start, phase, cmd, owned, dirty, branch, switching>>
    BY <1>3 DEF RunCommand, RunSwitch, RunCreate, RunDetach, RunRemove, RunCommit, RunReset, RunStash, RunMerge,
      RunConclude, RunApply, MergeConflicts, ApplyConflicts, PushReported, PushMalformed, PushUnreported,
      Running, Landed, ledger, frames, handlerVars, plans
  <2>1. cmd.then \in Continuations /\ pc \in CommandSteps
    BY <2>0, RunningFacts DEF CInv, CommandSteps
  <2>2. Grows(git, git') /\ StashesStay(git, git')
    BY <1>3, TipFinds, SwitchFinds, WorkFinds DEF RunCommand, CommandFinds
  <2>3. git'.head[Caller] = IF cmd.kind \in {"switch", "create"} THEN branch ELSE git.head[Caller]
    BY <1>3, CommandHeads
  <2>4. pc' = "complete" => cmd.kind \notin {"apply", "switch"}
    <3>1. cmd.kind \in {"apply", "switch"} => cmd.refs = {}
      BY <2>0 DEF Accounted, Framed, CommandRight, MutatedReferences
    <3>2. pc' = "complete" => pc' = AfterCommand \/ cmd.kind = "conclude"
      BY <1>3, <2>1 DEF RunCommand, RunSwitch, RunCreate, RunDetach, RunRemove, RunCommit, RunReset, RunStash,
        RunMerge, RunConclude, RunApply, MergeConflicts, ApplyConflicts, PushReported, PushMalformed,
        PushUnreported, Running, Landed, Continuations
    <3>3. QED BY <2>1, <3>1, <3>2 DEF AfterCommand, Continuations
  <2>5. pc' = "ownInvocation" => git'.work[Caller] = {}
    <3> SUFFICES ASSUME pc' = "ownInvocation" PROVE git'.work[Caller] = {}
      OBVIOUS
    <3>1. cmd.then = "ownInvocation"
      BY <2>0 DEF AfterCommand
    <3>2. cmd.kind = "stash"
      BY <2>0, <3>1, RunningRight
    <3>3. RunStash
      BY <1>3, <3>2 DEF RunCommand, RunSwitch, RunCreate, RunDetach, RunRemove, RunCommit, RunReset, RunMerge,
        RunConclude, RunApply, MergeConflicts, ApplyConflicts, PushReported, PushMalformed, PushUnreported,
        Running
    <3>4. QED BY <3>3, CommandEdits
  <2>6. pc' \in {"dropIsolation", "dropOwned"} \/ (pc' = "resolve" /\ cmd.kind = "apply") =>
             \A e \in owned : e.edits \subseteq git'.work[Caller]
    <3> SUFFICES ASSUME pc' \in {"dropIsolation", "dropOwned"} \/ (pc' = "resolve" /\ cmd.kind = "apply")
                 PROVE \A e \in owned : e.edits \subseteq git'.work[Caller]
      OBVIOUS
    <3>1. cmd.kind = "apply"
      BY <2>0, <2>1 DEF AfterCommand, Way, AppliedOK
    <3>2. RunApply \/ ApplyConflicts
      BY <1>3, <3>1 DEF RunCommand, RunSwitch, RunCreate, RunDetach, RunRemove, RunCommit, RunReset, RunStash,
        RunMerge, RunConclude, MergeConflicts, PushReported, PushMalformed, PushUnreported, Running
    <3>3. QED BY <3>2, CommandEdits
  <2>7. pc' \in {cmd.then, "complete", "cleanup", "resolve", "abandon"}
    BY <2>0 DEF AfterCommand
  <2>8. QED BY <2>0, <2>1, <2>2, <2>3, <2>4, <2>5, <2>6, <2>7, RanWay
<1> QED
  BY <1>1, <1>2, <1>3

\* What comes of a conflict.
LEMMA ResolvingWay ==
    ASSUME CInv, Accounted, HistoryKept, WorkTraced, Way, Resolving \/ HandlerFails
    PROVE  Way'
<1>0. Deciding
  BY OtherDeciding DEF CInv
<1>1. CASE AbandonMerge \/ HandlerFails
  <2>1. pc' = "cleanup"
    BY <1>1 DEF AbandonMerge, HandlerFails
  <2>2. QED BY <2>1, AwayWay DEF Minded, Unsettled, LateSteps, CommandSteps, CaptureSteps, DropSteps
<1>2. CASE ResolveApply \/ ResolveFails
  <2>1. /\ pc \in CommandSteps /\ UNCHANGED <<start, phase, cmd, owned, dirty, branch, switching>>
        /\ \/ pc' = "abandon" /\ cmd.kind \in {"merge", "conclude"}
           \/ pc = "resolve" /\ cmd.kind = "apply" /\ pc' = cmd.then
    BY <1>2 DEF ResolveApply, ResolveFails, Running, quiet, plans, frames, ledger, handlerVars, CommandSteps
  <2>2. /\ Grows(git, git') /\ StashesStay(git, git') /\ git'.head = git.head /\ git'.work = git.work
    BY <1>0, SameFinds DEF Deciding, SameContents
  <2>3. cmd.then \in Continuations /\ (cmd.kind = "apply" => cmd.then # "ownInvocation")
    BY <2>1, RunningFacts DEF CInv, Accounted, Framed, DropsRight
  <2>4. pc = "resolve" /\ cmd.kind = "apply" => \A e \in owned : e.edits \subseteq git'.work[Caller]
    BY <2>2 DEF Way, AppliedOK
  <2>5. pc' \notin {"complete", "resolve", "ownInvocation"}
    BY <2>1, <2>3 DEF Continuations
  <2>6. QED BY <2>1, <2>2, <2>3, <2>4, <2>5, RanWay
<1>3. CASE ResolveMerge
  <2>1. /\ pc = "resolve" /\ cmd.kind = "merge" /\ Prepare([cmd EXCEPT !.kind = "conclude"], "abandon")
        /\ UNCHANGED <<git, start, phase, owned, dirty, branch, switching>>
    BY <1>3 DEF ResolveMerge, handlerVars, plans, ledger
  <2>2. cmd \in Commands /\ pc \in CommandSteps
    BY <2>1, RunningFacts DEF CInv, CommandSteps
  <2>3. CASE pc' = "abandon" /\ cmd' = cmd
    <3>1. Grows(git, git') /\ StashesStay(git, git')
      BY <1>0, SameFinds DEF Deciding
    <3>2. QED BY <2>1, <2>2, <2>3, <3>1, RanWay
  <2>4. CASE pc' = "command"
    <3>1. PICK refs : cmd' = [[cmd EXCEPT !.kind = "conclude"] EXCEPT !.refs = refs]
      BY <2>1, <2>4 DEF Prepare
    <3>2. cmd'.kind = "conclude" /\ cmd'.then = cmd.then /\ cmd'.tree = cmd.tree
      BY <2>2, <3>1 DEF Commands
    <3>3. /\ Toward(LateSteps)' => Toward(LateSteps)
          /\ Clustering' => Clustering
          /\ Clustering => Clustering'
          /\ InAdoption' => InAdoption
      BY <2>1, <2>2, <2>4, <3>2 DEF Toward, Clustering, InAdoption, CommandSteps, CaptureSteps, LateSteps
    <3>4. ~dirty /\ ~Clustering => PutAway'
      BY <1>0, <2>1, WasPutAway, PutAwayStays, SameFinds DEF Deciding, HandlerSteps, CommandSteps
    <3>5. CleanOK'
      BY <2>1, <2>4, <3>2, <3>3, <3>4 DEF Way, CleanOK
    <3>6. cmd.then \notin {"isolation", "baseAhead", "align", "dropIsolation", "dropOwned"}
      BY <2>1, <2>2 DEF Way, HeadOK, AppliedOK
    <3>7. HeadOK'
      BY <2>1, <2>2, <2>4, <3>2, <3>3, <3>6 DEF Way, HeadOK, OnBranch, CommandSteps, CaptureSteps, DropSteps
    <3>8. ResetOK' /\ AppliedOK'
      BY <2>4, <3>2, <3>6 DEF ResetOK, AppliedOK, CommandSteps, DropSteps
    <3>9. QED BY <3>5, <3>7, <3>8 DEF Way
  <2>5. QED BY <2>1, <2>3, <2>4 DEF Prepare
<1> QED
  BY <1>1, <1>2, <1>3 DEF Resolving

----------------------------------------
\* The way through the transaction

\* The capture of a sibling's worktree.
LEMMA CaptureWay ==
    ASSUME CInv, IInv', Accounted, Way, Capture, UNCHANGED <<dirty, branch, switching>> PROVE Way'
<1>1. CASE phase' # "forward"
  BY <1>1, ElseWay
<1>2. CASE Begun \/ CaptureFails \/ CaptureApplyFails
  <2>1. CASE phase' = "forward"
    <3>1. pc' \in {"status", "cleanup"}
      BY <1>2, <2>1 DEF Begun, CaptureFails, CaptureApplyFails
    <3>2. QED BY <3>1, AwayWay DEF Minded, Unsettled, LateSteps, CommandSteps, CaptureSteps, DropSteps
  <2>2. QED BY <1>1, <2>1
<1>3. CASE phase' = "forward" /\ (SnapshotStatus \/ SnapshotRef \/ SnapshotApply \/ OwnAdopted)
  <2>1. /\ phase = "forward" /\ pc \in CaptureSteps \cup {"protected"} /\ UNCHANGED start
        /\ pc' \in CaptureSteps \cup {"protected", "save"}
    BY <1>3 DEF SnapshotStatus, SnapshotRef, SnapshotApply, OwnAdopted, Captured, CaptureSteps
  <2>2. capture'.tree = capture.tree /\ capture.tree \in Worktrees
    BY <1>3, <2>1, CaptureFacts DEF SnapshotStatus, SnapshotRef, SnapshotApply, OwnAdopted, frames, Captures, CInv
  <2>3. git'.head = git.head /\ Grows(git, git') /\ StashesStay(git, git')
    <3>1. CASE OwnAdopted
      BY <3>1, SameGrows, SameStashes DEF OwnAdopted
    <3>2. CASE SnapshotStatus \/ SnapshotRef \/ SnapshotApply
      BY <3>2, CaptureFinds, SameGrows
    <3>3. QED BY <1>3, <3>1, <3>2
  <2>4. git.head[capture.tree] # None
    BY <2>1 DEF Way, HeadOK
  <2>5. InAdoption
    BY <2>1 DEF InAdoption
  <2>6. QED BY <2>1, <2>2, <2>3, <2>4, <2>5, AdoptionWay
<1>4. CASE BeginNext
  BY <1>1, <1>4 DEF BeginNext, CInv, IInv, PhaseOK
<1> QED
  BY <1>1, <1>2, <1>3, <1>4 DEF Capture

\* The drop of a stash.
LEMMA DroppingWay ==
    ASSUME CInv, IInv', Accounted, Way, Dropping, UNCHANGED <<dirty, branch, switching>> PROVE Way'
<1>0. phase' = phase
  BY DEF Dropping, ListEntry, DropEntry, DropFails, FinalizeNext, Finalized, Fail
<1>1. CASE phase # "forward"
  BY <1>0, <1>1, ElseWay
<1>2. CASE pc' \in {"cleanup", "done", "finalize"}
  BY <1>2, AwayWay DEF Minded, Unsettled, LateSteps, CommandSteps, CaptureSteps, DropSteps
<1>3. CASE phase = "forward" /\ ListEntry
  <2>1. /\ pc = "list" /\ pc' = "drop" /\ UNCHANGED <<git, cmd, owned>>
        /\ \E i : dropping' = [dropping EXCEPT !.index = i]
    BY <1>3 DEF ListEntry, ledger
  <2>2. dropping \in Drops
    BY <2>1, DropFacts DEF CInv, DropSteps
  <2>3. dropping'.entry = dropping.entry /\ dropping'.slot = dropping.slot
    BY <2>1, <2>2 DEF Drops
  <2>4. CleanOK' /\ ResetOK'
    BY <2>1 DEF CleanOK, ResetOK, Toward, InAdoption, LateSteps, CommandSteps, CaptureSteps, DropSteps
  <2>5. HeadOK'
    BY <1>3, <2>1, <2>3 DEF Way, HeadOK, OnBranch, InAdoption, Clustering, CommandSteps, CaptureSteps, DropSteps
  <2>6. AppliedOK'
    BY <1>3, <2>1, <2>3 DEF Way, AppliedOK, CommandSteps, DropSteps
  <2>7. QED BY <2>4, <2>5, <2>6 DEF Way
<1>4. CASE phase = "forward" /\ DropEntry /\ pc' # "finalize"
  <2>1. /\ pc = "drop" /\ pc' = "cluster" /\ dropping.slot = 0 /\ cmd.then = "dropIsolation"
        /\ git' = DropStashAt(git, dropping.index)
    BY <1>4 DEF DropEntry, AfterDrop, Restoring
  <2>2. git.head[Caller] = branch
    BY <1>4, <2>1 DEF Way, HeadOK, OnBranch, DropSteps
  <2>3. git'.head = git.head
    BY <2>1, TransactionFacts, DropLeaves DEF CInv
  <2>4. QED BY <2>1, <2>2, <2>3 DEF Way, CleanOK, HeadOK, ResetOK, AppliedOK, Toward, InAdoption, OnBranch,
    Clustering, LateSteps, CommandSteps, CaptureSteps, DropSteps
<1>5. CASE FinalizeNext
  <2>1. PICK i \in DOMAIN snapshots : dropping' = Drop(snapshots[i].backup, i)
    BY <1>5 DEF FinalizeNext, Undropped
  <2>2. dropping'.slot # 0 /\ pc' = "list"
    BY <1>5, <2>1, TransactionFacts DEF FinalizeNext, Drop, CInv
  <2>3. QED BY <2>2 DEF Way, CleanOK, HeadOK, ResetOK, AppliedOK, Toward, InAdoption, OnBranch, Clustering,
    LateSteps, CommandSteps, CaptureSteps, DropSteps
<1>6. CASE phase = "forward" /\ (DropFails \/ Finalized)
  BY <1>2, <1>6 DEF DropFails, Fail, Finalized
<1> QED
  BY <1>1, <1>2, <1>3, <1>4, <1>5, <1>6 DEF Dropping

\* No step of the transaction loses the way.
LEMMA TransactionWay ==
    ASSUME CInv, IInv', Accounted, HistoryKept, WorkTraced, Way, TransactionStep PROVE Way'
<1>0. UNCHANGED <<dirty, branch, switching>>
  BY DEF TransactionStep, handlerVars, plans
<1>1. CASE Complete
  <2>1. /\ pc = "complete" /\ pc \in CommandSteps /\ pc' = cmd.then /\ UNCHANGED <<git, start, phase, cmd, owned>>
    BY <1>1 DEF Complete, CommandSteps, ledger, frames
  <2>2. Grows(git, git') /\ StashesStay(git, git')
    BY <2>1, SameGrows, SameStashes
  <2>3. cmd.kind \notin {"apply", "switch", "stash"} /\ (cmd.kind = "create" => git.head[Caller] = branch)
    BY <2>1 DEF Way, AppliedOK, HeadOK, OnBranch, Accounted, Framed, DropsRight
  <2>4. pc' \notin {"ownInvocation", "dropIsolation", "dropOwned", "complete", "resolve"}
    BY <2>1, <2>3, RunningFacts DEF Way, AppliedOK, Accounted, Framed, DropsRight, CInv, Continuations
  <2>5. QED BY <1>0, <2>1, <2>2, <2>3, <2>4, RanWay
<1>2. CASE Cleanup
  <2>1. phase' # "forward" \/ pc' = "done"
    BY <1>2 DEF Cleanup, CleanupPublished, CleanupOwnershipLost, CleanupRollback
  <2>2. QED BY <2>1, ElseWay, AwayWay DEF Minded, Unsettled, LateSteps, CommandSteps, CaptureSteps, DropSteps
<1>3. CASE Rollback
  <2>1. phase' = phase /\ pc \in RollbackSteps
    BY <1>3 DEF Rollback, Inspect, ClearCaller, RestoreCaller, ListReferences, RestoreReference,
      ReferencesRestored, RestoreAdopted, AdoptedRestored, ResetSnapshot, ApplyBackup, ContentsRestored,
      ReleaseOwned, RollbackFails, Fail, RollbackSteps
  <2>2. phase' # "forward"
    BY <2>1, RollbackFacts DEF CInv
  <2>3. QED BY <2>2, ElseWay
<1> QED
  BY <1>0, <1>1, <1>2, <1>3, CaptureWay, DroppingWay DEF TransactionStep, Transaction

----------------------------------------
\* The work of a run that no one disturbs

\* A run starts from a sound repository.
LEMMA InitWay ==
    ASSUME Alone, Anchored, Init PROVE WInv
<1>1. PICK i \in Invocations : git = i.git
  BY DEF Init
<1>2. Settled(git) /\ \A w \in git.trees : git.at[w] \subseteq Saved(git)
  BY <1>1 DEF Alone, Anchored
<1>3. start = git /\ mutated = {} /\ phase = "begin" /\ pc = "begin"
  BY DEF Init
<1>4. Sound(start) /\ Grows(start, git) /\ OperatorsStay(start, git)
  BY <1>2, <1>3, SameGrows, SameStashes DEF Sound, Settled, OperatorsStay
<1>5. WorkTraced
  BY <1>3 DEF WorkTraced, Claimed
<1>6. Way
  BY <1>3 DEF Way, CleanOK, HeadOK, ResetOK, AppliedOK, Toward, InAdoption, OnBranch, Clustering, LateSteps,
    CommandSteps, CaptureSteps, DropSteps
<1> QED
  BY <1>4, <1>5, <1>6 DEF WInv, HistoryKept

\* A step that changes nothing.
LEMMA StutterWay ==
    ASSUME WInv, UNCHANGED vars PROVE WInv'
<1>1. UNCHANGED <<git, start, snapshots, adopted, owned, journal, mutated, phase, pc, cmd, capture, dropping,
                  published, branch, dirty, switching>>
  BY DEF vars, transactionVars, handlerVars, plans, ledger, claims, frames
<1>2. HistoryKept'
  BY <1>1 DEF WInv, HistoryKept
<1>3. WorkTraced'
  BY <1>1 DEF WInv, WorkTraced, Claimed, Traced, Unapplied, AdoptedTrees, BackedUp, Backup, InPlace
<1>4. CleanOK'
  BY <1>1 DEF WInv, Way, CleanOK, Toward, InAdoption, Clustering, PutAway
<1>5. HeadOK' /\ ResetOK' /\ AppliedOK'
  BY <1>1 DEF WInv, Way, HeadOK, ResetOK, AppliedOK, InAdoption, OnBranch, Clustering
<1> QED
  BY <1>2, <1>3, <1>4, <1>5 DEF WInv, Way

\* No step loses track of the work.
LEMMA WorkKeeps ==
    ASSUME Alone, CInv, IInv', Accounted, Accounted', WInv, [Next]_vars PROVE WInv'
<1> USE DEF WInv
<1>1. CASE Planning \/ Saving \/ Syncing \/ Adopting \/ Resolving \/ HandlerFails
  <2>1. Deciding
    BY <1>1, PlanningDeciding, SavingDeciding, SyncingDeciding, OtherDeciding DEF CInv
  <2>2. HistoryKept' /\ WorkTraced'
    BY <2>1, DecidingKeeps
  <2>3. Way'
    BY <1>1, PlanningWay, SavingWay, SyncingWay, AdoptingWay, ResolvingWay
  <2>4. QED BY <2>2, <2>3
<1>2. CASE RunCommand
  BY <1>2, CommandKeepsWork, CommandWay
<1>3. CASE TransactionStep
  BY <1>3, TransactionKeepsWork, TransactionWay
<1>4. CASE UNCHANGED vars
  BY <1>4, StutterWay
<1> QED
  BY <1>1, <1>2, <1>3, <1>4, NoOneElse DEF Next, Gix, Ended

\* So the work is traced in every reachable state.
LEMMA WorkHolds == ASSUME Alone, Anchored PROVE Spec => []WInv
<1>1. Init => OwnsOne /\ ReportsInOrder /\ Accounted /\ WInv
  BY InitAccounted, InitWay DEF Init, OwnsOne, ReportsInOrder, DropSteps, Finalizing
<1>2. IInv /\ IInv' /\ OwnsOne /\ ReportsInOrder /\ Accounted /\ Accounted' /\ WInv /\ [Next]_vars
        => OwnsOne' /\ ReportsInOrder' /\ WInv'
  BY ContractKeeps, WorkKeeps DEF CInv
<1> QED
  BY <1>1, <1>2, Invariance, AccountHolds, PTL DEF Spec

----------------------------------------
\* Nothing is lost

\* What is found is recoverable.
LEMMA FoundIsRecoverable ==
    ASSUME NEW g
    PROVE  /\ Saved(g) \subseteq Recoverable(g) /\ OwnStashes(g) \subseteq Recoverable(g)
           /\ \A w \in g.trees : g.work[w] \subseteq Recoverable(g)
           /\ \A i \in DOMAIN g.stashes : g.stashes[i].edits \subseteq Recoverable(g)
           /\ \A w \in Worktrees : Found(g, w) \subseteq Recoverable(g)
<1>1. /\ \A b \in Branches : Exists(g.refs, b) => g.refs[b] \subseteq Recoverable(g)
      /\ \A b \in Branches : Exists(g.origin, b) => g.origin[b] \subseteq Recoverable(g)
      /\ \A w \in g.trees : g.work[w] \subseteq Recoverable(g)
      /\ \A i \in DOMAIN g.stashes : g.stashes[i].edits \subseteq Recoverable(g)
  BY DEF Recoverable
<1>2. Saved(g) \subseteq Recoverable(g) /\ OwnStashes(g) \subseteq Recoverable(g)
  BY <1>1 DEF Saved, Remote, OwnStashes
<1> QED BY <1>1, <1>2 DEF Found

\* A backup in the list has the edits.
LEMMA BackupIsRecoverable ==
    ASSUME NEW w, \/ BackedUp(w)
                  \/ Unclaimed(w)
                  \/ git.stashes # <<>> /\ git.stashes \in Seq(Entries) /\ Head(git.stashes) = Backup(w)
    PROVE  start.work[w] \subseteq Recoverable(git)
<1>1. \E i \in DOMAIN git.stashes : git.stashes[i] = Backup(w)
  BY DEF BackedUp, Unclaimed, Backup
<1>2. PICK i \in DOMAIN git.stashes : git.stashes[i] = Backup(w)
  BY <1>1
<1>3. git.stashes[i].edits = start.work[w]
  BY <1>2 DEF Backup
<1> QED BY <1>3, FoundIsRecoverable

\* The edits of a worktree that is not claimed.
LEMMA UnclaimedIsRecoverable ==
    ASSUME IInv, Accounted, WInv, NEW w \in start.trees \ mutated
    PROVE  start.work[w] \subseteq Recoverable(git)
<1>1. w \in Worktrees /\ git.stashes \in Seq(Entries)
  BY RepositoryFields DEF IInv, TypeOK, TransactionType, RepositoryType
<1>2. w \in git.trees
  <2>1. w \notin AdoptedTrees
    BY DEF Accounted, Laid, RecordsRight, AdoptedTrees
  <2>2. QED BY <1>1, <2>1 DEF Accounted, Laid, PlacesKnown, Elsewhere
<1>3. Held(w) \/ git.work[w] = start.work[w] \/ Unclaimed(w)
  BY <1>1 DEF Accounted, Kept, WorkKnown
<1>4. CASE Held(w)
  <2>1. BackedUp(w) \/ (git.stashes # <<>> /\ Head(git.stashes) = Backup(w))
    BY <1>4 DEF Held, WInv, WorkTraced, Accounted, Framed, CaptureRight
  <2>2. QED BY <1>1, <2>1, BackupIsRecoverable
<1>5. CASE git.work[w] = start.work[w]
  BY <1>2, <1>5, FoundIsRecoverable
<1>6. CASE Unclaimed(w)
  BY <1>6, BackupIsRecoverable
<1> QED BY <1>3, <1>4, <1>5, <1>6

\* The edits of one that is.
LEMMA ClaimedIsRecoverable ==
    ASSUME IInv, Accounted, WInv, ~LostInAdoption, NEW w \in start.trees \cap mutated
    PROVE  start.work[w] \subseteq Recoverable(git)
             \cup (IF phase = "rollback" /\ outcome # "rolledBack" THEN HeldBackups ELSE {})
<1>1. w \in Worktrees /\ w \in Claimed
  BY DEF IInv, TypeOK, TransactionType, RepositoryType, Claimed
<1>2. CASE Traced(w) \/ InPlace(w) \/ BackedUp(w)
  BY <1>1, <1>2, FoundIsRecoverable, BackupIsRecoverable DEF Traced, InPlace
<1>3. CASE phase = "rollback" /\ outcome # "rolledBack"
  <2>1. PICK i \in DOMAIN snapshots : snapshots[i].tree = w
    BY DEF IInv, CoveredOK, SnapshotTrees
  <2>2. start.work[w] = {} \/ (snapshots[i].backup # None /\ snapshots[i].backup = Backup(w))
    BY <2>1 DEF Accounted, Laid, RecordsRight
  <2>3. start.work[w] \subseteq HeldBackups
    BY <2>2 DEF HeldBackups, Backup
  <2> QED BY <1>3, <2>3
<1>4. CASE outcome = "rolledBack"
  <2>1. git.trees = start.trees /\ git.work[w] = start.work[w]
    BY <1>4 DEF Accounted, RollbackComes, Past, Succeeded
  <2> QED BY <1>2, <2>1 DEF InPlace
<1>5. CASE phase \in {"begin", "forward", "settle", "undo"}
  BY <1>1, <1>2, <1>5 DEF WInv, WorkTraced, LostInAdoption, Claimed
<1> QED
  BY <1>3, <1>4, <1>5 DEF IInv, TypeOK, TransactionType, Phases

\* Where the work is known to be, it can be recovered.
LEMMA AccountedIsRecoverable ==
    ASSUME IInv, Accounted, WInv PROVE NoWorkLost \/ LostInAdoption
<1> SUFFICES ASSUME ~LostInAdoption PROVE NoWorkLost
  OBVIOUS
<1> DEFINE held == IF phase = "rollback" /\ outcome # "rolledBack" THEN HeldBackups ELSE {}
<1>1. Saved(start) \subseteq Saved(git) /\ Saved(git) \subseteq Recoverable(git)
  BY GrowthHolds, FoundIsRecoverable DEF WInv, HistoryKept
<1>2. \A w \in start.trees : start.at[w] \subseteq Recoverable(git)
  BY <1>1 DEF WInv, HistoryKept, Sound
<1>3. \A b \in Branches : /\ Exists(start.refs, b) => start.refs[b] \subseteq Recoverable(git)
                          /\ Exists(start.origin, b) => start.origin[b] \subseteq Recoverable(git)
  <2>1. start \in RepositoryType
    BY DEF IInv, TypeOK, TransactionType
  <2>2. \A b \in Branches : /\ Exists(start.refs, b) => start.refs[b] \subseteq Tokens
                            /\ Exists(start.origin, b) => start.origin[b] \subseteq Tokens
    BY <2>1, RepositoryFields DEF Exists, Commits
  <2> QED BY <1>1, <2>2 DEF Saved, Remote
<1>4. \A i \in DOMAIN start.stashes : start.stashes[i].edits \subseteq Recoverable(git)
  BY FoundIsRecoverable DEF WInv, HistoryKept, Sound, OperatorsStay
<1>5. \A w \in start.trees : start.work[w] \subseteq Recoverable(git) \cup held
  BY UnclaimedIsRecoverable, ClaimedIsRecoverable
<1> HIDE DEF held
<1>6. Recoverable(start) \subseteq Recoverable(git) \cup held
  <2> DEFINE kept == Recoverable(git) \cup held
  <2> SUFFICES \A s \in {start.work[w] : w \in start.trees}
            \cup {start.at[w] : w \in start.trees}
            \cup {start.refs[b] : b \in {x \in Branches : Exists(start.refs, x)}}
            \cup {start.origin[b] : b \in {x \in Branches : Exists(start.origin, x)}}
            \cup {start.stashes[i].edits : i \in DOMAIN start.stashes} : s \subseteq kept
    BY DEF Recoverable
  <2> QED BY <1>2, <1>3, <1>4, <1>5
<1> QED BY <1>6 DEF NoWorkLost, held

\* Whatever a run starts from, in however many worktrees and branches, and
\* wherever a call fails: while no other writer is at work and no checkout is
\* detached at a commit that no branch has, each change of the operator can be
\* found in the repository.  The one exception is an adoption that could not
\* apply the stash of a sibling, in a run that fails after a publication.
THEOREM WorkIsNotLost ==
    ASSUME Alone, Anchored
    PROVE  Spec => [](NoWorkLost \/ LostInAdoption)
<1>1. IInv /\ Accounted /\ WInv => NoWorkLost \/ LostInAdoption
  BY AccountedIsRecoverable
<1> QED
  BY <1>1, Invariance, AccountHolds, WorkHolds, PTL
========================================
