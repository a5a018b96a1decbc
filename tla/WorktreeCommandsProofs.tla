----------------------- MODULE WorktreeCommandsProofs -----------------------
(***************************************************************************)
(* What gix cd keeps of the worktree it runs in and of the sibling that    *)
(* has the branch, what a purge of merged branches reports, what the       *)
(* preflight of a strict sync lets through, and what a rename of folders   *)
(* tells, for any branches, remotes, worktrees, files and paths, whatever  *)
(* the operator and colleagues do meanwhile: one inductive invariant for   *)
(* each command.                                                           *)
(***************************************************************************)
EXTENDS BranchSwitch, WorktreeAdoption, BranchCleanup, SyncPreflight, RepositoryRename,
        SequenceTheorems, FiniteSetTheorems, NaturalsInduction, WellFoundedInduction, TLAPS

----------------------------------------
\* Every set of numbers that is not empty has a least one.
LEMMA LeastIsIn ==
    ASSUME NEW S \in SUBSET Nat, S # {}
    PROVE  Min(S) \in S /\ \A y \in S : Min(S) <= y
<1>1. \E x \in S : \A y \in S : x <= y
  <2>1. IsWellFoundedOn(OpToRel(<, Nat), Nat)
    BY NatLessThanWellFounded
  <2>2. PICK x \in S : \A y \in S : ~(<<y, x>> \in OpToRel(<, Nat))
    BY <2>1, WFMin
  <2>3. \A y \in S : ~(y < x)
    BY <2>2, Zenon DEF OpToRel
  <2>4. QED BY <2>3
<1>2. QED BY <1>1 DEF Min

----------------------------------------
\* BranchSwitch: what a step that syncs, refreshes or restores leaves

\* What a handler holds while it runs
SwitchRunType ==
    [branch: SwitchBranches \cup {SwitchNobody}, remote: SwitchRemotes \cup {SwitchNobody},
     refresh: BOOLEAN, pushed: {0, 1}, all: BOOLEAN, requested: BOOLEAN, pull: BOOLEAN,
     created: BOOLEAN, warned: BOOLEAN, error: BOOLEAN, undefined: BOOLEAN, unpopped: BOOLEAN]

\* Where no handler runs, and where one ends
SwitchIdle == {"begin", "done"}
SwitchEnding == {"pop", "end"}

\* A captured value names a branch or a commit.
SwitchValueOK(value) ==
    /\ value \in SwitchValueType
    /\ value.kind = "branch" => value.branch # SwitchNobody
    /\ value.kind = "commit" => value.at # {}

\* The types; HEAD is at something and the branches follow what they know.
SwitchTypedOK ==
    /\ switchSteps \in Seq(SwitchStepType)
    /\ switchIndex \in Nat /\ 1 <= switchIndex /\ switchIndex <= Len(switchSteps) + 1
    /\ switchAt \notin SwitchIdle => switchIndex <= Len(switchSteps)
    /\ switchAt \in SwitchPCs /\ switchRun \in SwitchRunType
    /\ switchRepository \in SwitchRepositoryType /\ switchBegan \in SwitchRepositoryType
    /\ SwitchHasHead(switchRepository) /\ SwitchFollows(switchRepository)

\* The variable of the clone is the operator's, or what is captured, or none.
SwitchValuesOK ==
    /\ SwitchValueOK(switchSeed) /\ SwitchValueOK(switchVariable)
    /\ SwitchValueOK(switchCaptured)
    /\ switchSeed.kind # "none" => switchVariable = switchSeed
    /\ switchSeed.kind = "none" => switchVariable.kind = "none" \/ switchVariable = switchCaptured

\* Which handler is where, and on which branch it works.
SwitchPlacesOK ==
    /\ switchAt \in {"status", "stash", "capture", "create", "tracking"} => switchStep.kind = "sync"
    /\ switchAt \in {"clean", "recheck", "fetchAgain", "checkoutAgain", "pullAgain"} =>
            switchStep.kind \in {"sync", "refresh"}
    /\ switchAt \in {"remotes", "fetch", "switch", "pull"} => switchStep.kind \in {"sync", "restore"}
    /\ switchAt = "checkout" => switchStep.kind = "restore" /\ switchVariable.kind = "commit"
    /\ switchAt \notin SwitchIdle \cup SwitchEnding => ~switchRun.error /\ ~switchRun.unpopped
    /\ switchAt \notin SwitchIdle /\ switchStep.kind \in {"sync", "refresh"} =>
            \/ switchRun.branch = switchStep.branch
            \/ switchAt \in SwitchEnding /\ switchRun.error
    /\ switchAt \notin SwitchIdle \cup SwitchEnding \cup {"checkout"} /\ switchStep.kind = "restore" =>
            switchVariable.kind = "branch" /\ switchRun.branch = switchVariable.branch

\* What the operator's changes are to be found as while nobody else touches them:
\* where they were, in the entry that was pushed, or in the commit.
SwitchSaved == [tracked |-> switchBegan.tree.tracked, untracked |-> {}]

\* The changes are where they were.
SwitchInPlace ==
    /\ switchRun.pushed = 0 /\ switchRepository.stash = switchBegan.stash
    /\ switchRepository.tree = switchBegan.tree
    /\ switchAt \notin {"status", "stash", "pop"} /\ switchStep.stash =>
            switchBegan.tree.tracked = {}
    /\ switchAt = "stash" => switchStep.stash /\ switchBegan.tree.tracked # {}

\* They are in the newest entry of the stash list.
SwitchInStash ==
    /\ switchAt \notin {"status", "stash"}
    /\ switchRun.pushed = 1 /\ switchStep.stash
    /\ switchRepository.stash = <<SwitchSaved>> \o switchBegan.stash
    /\ switchRepository.tree = [tracked |-> {}, untracked |-> switchBegan.tree.untracked]

\* They are in the commit of the checkpoint.
SwitchInCommit ==
    /\ switchAt \in {"recheck", "fetchAgain", "checkoutAgain", "pullAgain", "pop"}
    /\ switchRun.pushed = 0 /\ switchRepository.stash = switchBegan.stash
    /\ switchStep.commit /\ switchRepository.tree = [tracked |-> {}, untracked |-> {}]
    /\ switchRun.branch \in SwitchBranches
    /\ switchBegan.tree.tracked \subseteq switchRepository.local[switchRun.branch]

\* While nobody else touches the working tree, they are in one of the three.
SwitchStashOK ==
    /\ switchAt \notin SwitchIdle \cup {"end"} /\ switchStep.kind = "sync"
         /\ "operator" \notin switchOutside =>
            SwitchInPlace \/ SwitchInStash \/ SwitchInCommit
    /\ SwitchStashIsSettled

\* A restore that has not failed is at what the variable names.
SwitchReturnOK ==
    /\ switchAt = "pull" => switchRepository.head.branch = switchRun.branch
    /\ switchAt \in SwitchEnding /\ switchStep.kind = "restore" /\ ~switchRun.error =>
        /\ switchVariable.kind # "none"
        /\ switchVariable.kind = "branch" => switchRepository.head.branch = switchVariable.branch
        /\ switchVariable.kind = "commit" =>
              switchRepository.head = [branch |-> SwitchNobody, at |-> switchVariable.at]

\* The branch is checked out and holds what is known of its upstream.
SwitchIsCurrent ==
    LET upstream == switchRepository.upstream[switchRun.branch]
    IN /\ switchRepository.head.branch = switchRun.branch
       /\ upstream # SwitchNobody =>
            switchRepository.known[upstream][switchRun.branch]
              \subseteq switchRepository.local[switchRun.branch]

\* Where the branch is, and when it is current.
SwitchCurrentOK ==
    /\ switchAt \in {"fetch", "switch", "create"} =>
            switchRun.pull \/ switchRun.warned \/ switchRepository.remotes = {}
    /\ switchAt = "create" => switchRepository.local[switchRun.branch] = {}
    /\ switchAt \in {"tracking", "clean", "recheck", "fetchAgain", "checkoutAgain", "pullAgain"}
         /\ switchStep.kind = "sync" => switchRepository.head.branch = switchRun.branch
    /\ switchAt = "pullAgain" => switchRepository.head.branch = switchRun.branch
    /\ switchAt = "tracking" /\ ~switchRun.warned => SwitchIsCurrent
    /\ switchAt \in SwitchEnding /\ switchStep.kind \in {"sync", "refresh"}
         /\ ~switchRun.error /\ ~switchRun.warned => SwitchIsCurrent

\* The inductive invariant of the branch handlers
SwitchIInv ==
    /\ SwitchTypedOK /\ SwitchValuesOK /\ SwitchPlacesOK
    /\ SwitchStashOK /\ SwitchReturnOK /\ SwitchCurrentOK
----------------------------------------
\* Repositories

\* What an invocation may find
LEMMA SwitchInputs ==
    /\ SwitchDefaultRemote \in SwitchRemotes
    /\ SwitchNobody \notin SwitchBranches /\ SwitchNobody \notin SwitchRemotes
    /\ SwitchFiles \subseteq SwitchCommits
    /\ \A asked \in SwitchInvocations :
         /\ asked.steps \in Seq(SwitchStepType) /\ asked.repository \in SwitchRepositoryType
         /\ SwitchValueOK(asked.seed)
         /\ SwitchHasHead(asked.repository) /\ SwitchFollows(asked.repository)
BY SwitchAssumption DEF SwitchValueOK

\* The parts of a repository
LEMMA SwitchRepositoryIs ==
    ASSUME NEW repository \in SwitchRepositoryType
    PROVE  /\ repository.remotes \subseteq SwitchRemotes
           /\ repository.head \in
                [branch: SwitchBranches \cup {SwitchNobody}, at: SUBSET SwitchCommits]
           /\ repository.local \in [SwitchBranches -> SUBSET SwitchCommits]
           /\ repository.upstream \in [SwitchBranches -> SwitchRemotes \cup {SwitchNobody}]
           /\ repository.known \in [SwitchRemotes -> [SwitchBranches -> SUBSET SwitchCommits]]
           /\ repository.server \in [SwitchRemotes -> [SwitchBranches -> SUBSET SwitchCommits]]
           /\ repository.tree \in SwitchTreeType /\ repository.stash \in Seq(SwitchTreeType)
BY DEF SwitchRepositoryType

\* The parts of a repository, put together.
LEMMA SwitchRepositoryOf ==
    ASSUME NEW repository \in SwitchRepositoryType,
           NEW head \in [branch: SwitchBranches \cup {SwitchNobody}, at: SUBSET SwitchCommits],
           NEW local \in [SwitchBranches -> SUBSET SwitchCommits],
           NEW upstream \in [SwitchBranches -> SwitchRemotes \cup {SwitchNobody}],
           NEW known \in [SwitchRemotes -> [SwitchBranches -> SUBSET SwitchCommits]],
           NEW server \in [SwitchRemotes -> [SwitchBranches -> SUBSET SwitchCommits]],
           NEW tree \in SwitchTreeType, NEW stash \in Seq(SwitchTreeType)
    PROVE  [remotes |-> repository.remotes, head |-> head, local |-> local,
            upstream |-> upstream, known |-> known, server |-> server, tree |-> tree,
            stash |-> stash] \in SwitchRepositoryType
BY DEF SwitchRepositoryType

\* What git switch makes of a branch that one remote has
LEMMA SwitchTrackingIs ==
    ASSUME NEW repository \in SwitchRepositoryType, NEW branch \in SwitchBranches,
           NEW remote \in SwitchRemotes
    PROVE  LET new == SwitchTracking(repository, branch, remote)
           IN /\ new \in SwitchRepositoryType
              /\ new.head = [branch |-> branch, at |-> {}]
              /\ new.local = [repository.local EXCEPT ![branch] = repository.known[remote][branch]]
              /\ new.upstream = [repository.upstream EXCEPT ![branch] = remote]
              /\ new.remotes = repository.remotes /\ new.known = repository.known
              /\ new.tree = repository.tree /\ new.stash = repository.stash
<1> DEFINE local == [repository.local EXCEPT ![branch] = repository.known[remote][branch]]
           upstream == [repository.upstream EXCEPT ![branch] = remote]
           head == [branch |-> branch, at |-> {}]
           new == [remotes |-> repository.remotes, head |-> head, local |-> local,
                   upstream |-> upstream, known |-> repository.known,
                   server |-> repository.server, tree |-> repository.tree,
                   stash |-> repository.stash]
<1>1. /\ head \in [branch: SwitchBranches \cup {SwitchNobody}, at: SUBSET SwitchCommits]
      /\ local \in [SwitchBranches -> SUBSET SwitchCommits]
      /\ upstream \in [SwitchBranches -> SwitchRemotes \cup {SwitchNobody}]
  BY SwitchRepositoryIs
<1>2. SwitchTracking(repository, branch, remote)
         = [repository EXCEPT !.head = head, !.local = local, !.upstream = upstream]
  BY DEF SwitchTracking, SwitchBranchHead, SwitchRepositoryType
<1> HIDE DEF head, local, upstream
<1>3. SwitchTracking(repository, branch, remote) = new
  BY <1>2 DEF SwitchRepositoryType
<1>4. new \in SwitchRepositoryType
  BY <1>1, SwitchRepositoryIs, SwitchRepositoryOf
<1>5. QED BY <1>3, <1>4 DEF head, local, upstream

\* What a fetch makes of a repository
LEMMA SwitchFetchedIs ==
    ASSUME NEW repository \in SwitchRepositoryType, NEW from
    PROVE  LET new == SwitchFetched(repository, from)
           IN /\ new \in SwitchRepositoryType
              /\ new = [repository EXCEPT !.known = new.known]
              /\ \A r \in SwitchRemotes :
                    new.known[r] = IF r \in from THEN repository.server[r] ELSE repository.known[r]
              /\ new.head = repository.head /\ new.local = repository.local
              /\ new.upstream = repository.upstream /\ new.remotes = repository.remotes
              /\ new.tree = repository.tree /\ new.stash = repository.stash
<1> DEFINE known == [r \in SwitchRemotes |->
                        IF r \in from THEN repository.server[r] ELSE repository.known[r]]
           new == [remotes |-> repository.remotes, head |-> repository.head,
                   local |-> repository.local, upstream |-> repository.upstream,
                   known |-> known, server |-> repository.server,
                   tree |-> repository.tree, stash |-> repository.stash]
<1>1. known \in [SwitchRemotes -> [SwitchBranches -> SUBSET SwitchCommits]]
  BY SwitchRepositoryIs
<1>2. SwitchFetched(repository, from) = [repository EXCEPT !.known = known]
  BY DEF SwitchFetched, SwitchRepositoryType
<1>3. \A r \in SwitchRemotes :
          known[r] = IF r \in from THEN repository.server[r] ELSE repository.known[r]
  OBVIOUS
<1> HIDE DEF known
<1>4. SwitchFetched(repository, from) = new
  BY <1>2 DEF SwitchRepositoryType
<1>5. new \in SwitchRepositoryType
  BY <1>1, SwitchRepositoryIs, SwitchRepositoryOf
<1>6. QED BY <1>2, <1>3, <1>4, <1>5

\* What a fast-forward pull makes of a repository
LEMMA SwitchPulledIs ==
    ASSUME NEW repository \in SwitchRepositoryType, NEW branch \in SwitchBranches,
           repository.upstream[branch] \in SwitchRemotes
    PROVE  LET new == SwitchPulled(repository, branch)
               remote == repository.upstream[branch]
           IN /\ new \in SwitchRepositoryType
              /\ new.local = [repository.local EXCEPT ![branch] = repository.server[remote][branch]]
              /\ new.known[remote] = repository.server[remote]
              /\ new.head = repository.head
              /\ new.upstream = repository.upstream /\ new.remotes = repository.remotes
              /\ new.tree = repository.tree /\ new.stash = repository.stash
<1> DEFINE remote == repository.upstream[branch]
           fetched == SwitchFetched(repository, {remote})
           local == [repository.local EXCEPT ![branch] = repository.server[remote][branch]]
           new == [remotes |-> repository.remotes, head |-> repository.head,
                   local |-> local, upstream |-> repository.upstream,
                   known |-> fetched.known, server |-> fetched.server,
                   tree |-> repository.tree, stash |-> repository.stash]
<1>1. /\ fetched \in SwitchRepositoryType
      /\ fetched.known[remote] = repository.server[remote]
      /\ fetched.head = repository.head /\ fetched.local = repository.local
      /\ fetched.upstream = repository.upstream /\ fetched.remotes = repository.remotes
      /\ fetched.tree = repository.tree /\ fetched.stash = repository.stash
  <2>1. \A r \in SwitchRemotes :
          fetched.known[r] = IF r \in {remote} THEN repository.server[r] ELSE repository.known[r]
    BY SwitchFetchedIs
  <2>2. /\ fetched \in SwitchRepositoryType
        /\ fetched.head = repository.head /\ fetched.local = repository.local
        /\ fetched.upstream = repository.upstream /\ fetched.remotes = repository.remotes
        /\ fetched.tree = repository.tree /\ fetched.stash = repository.stash
    BY SwitchFetchedIs
  <2>3. QED BY <2>1, <2>2
<1>2. SwitchPulled(repository, branch)
         = [fetched EXCEPT !.local[branch] = fetched.known[remote][branch]]
  BY DEF SwitchPulled
<1>3. local \in [SwitchBranches -> SUBSET SwitchCommits]
  BY SwitchRepositoryIs
<1> HIDE DEF fetched
<1>4. SwitchPulled(repository, branch) = [fetched EXCEPT !.local = local]
  BY <1>1, <1>2 DEF SwitchRepositoryType
<1> HIDE DEF local, remote
<1>5. SwitchPulled(repository, branch) = new
  BY <1>1, <1>4 DEF SwitchRepositoryType
<1>6. new \in SwitchRepositoryType
  BY <1>1, <1>3, SwitchRepositoryIs, SwitchRepositoryOf
<1>7. QED BY <1>1, <1>5, <1>6 DEF local, remote

\* A stash list and a working tree put in the place of others
LEMMA SwitchStashing ==
    ASSUME NEW repository \in SwitchRepositoryType,
           NEW tree \in SwitchTreeType, NEW stash \in Seq(SwitchTreeType)
    PROVE  [repository EXCEPT !.stash = stash, !.tree = tree]
             = [remotes |-> repository.remotes, head |-> repository.head,
                local |-> repository.local, upstream |-> repository.upstream,
                known |-> repository.known, server |-> repository.server,
                tree |-> tree, stash |-> stash]
<1> DEFINE stashed == [repository EXCEPT !.stash = stash]
<1>1. /\ stashed \in SwitchRepositoryType
      /\ stashed.remotes = repository.remotes /\ stashed.head = repository.head
      /\ stashed.local = repository.local /\ stashed.upstream = repository.upstream
      /\ stashed.known = repository.known /\ stashed.server = repository.server
      /\ stashed.stash = stash
  BY DEF SwitchRepositoryType
<1>2. [repository EXCEPT !.stash = stash, !.tree = tree] = [stashed EXCEPT !.tree = tree]
  OBVIOUS
<1> HIDE DEF stashed
<1>3. [stashed EXCEPT !.tree = tree]
        = [remotes |-> stashed.remotes, head |-> stashed.head,
           local |-> stashed.local, upstream |-> stashed.upstream,
           known |-> stashed.known, server |-> stashed.server,
           tree |-> tree, stash |-> stashed.stash]
  <2> DEFINE whole == [remotes |-> stashed.remotes, head |-> stashed.head,
                       local |-> stashed.local, upstream |-> stashed.upstream,
                       known |-> stashed.known, server |-> stashed.server,
                       tree |-> stashed.tree, stash |-> stashed.stash]
  <2>1. stashed = whole
    BY <1>1 DEF SwitchRepositoryType
  <2>2. [whole EXCEPT !.tree = tree]
          = [remotes |-> stashed.remotes, head |-> stashed.head,
             local |-> stashed.local, upstream |-> stashed.upstream,
             known |-> stashed.known, server |-> stashed.server,
             tree |-> tree, stash |-> stashed.stash]
    OBVIOUS
  <2> HIDE DEF whole
  <2>3. QED BY <2>1, <2>2
<1>4. QED BY <1>1, <1>2, <1>3

\* What git stash push makes of a repository
LEMMA SwitchStashedIs ==
    ASSUME NEW repository \in SwitchRepositoryType, NEW untracked \in BOOLEAN
    PROVE  LET new == SwitchStashed(repository, untracked)
               saved == [tracked |-> repository.tree.tracked,
                         untracked |-> IF untracked THEN repository.tree.untracked ELSE {}]
           IN /\ new \in SwitchRepositoryType
              /\ new.head = repository.head /\ new.local = repository.local
              /\ new.upstream = repository.upstream /\ new.remotes = repository.remotes
              /\ new.known = repository.known
              /\ saved \in SwitchTreeType
              /\ repository.tree.tracked # {} =>
                    /\ new.stash = <<saved>> \o repository.stash
                    /\ new.tree = [tracked |-> {},
                                   untracked |-> repository.tree.untracked \ saved.untracked]
<1> DEFINE saved == [tracked |-> repository.tree.tracked,
                     untracked |-> IF untracked THEN repository.tree.untracked ELSE {}]
           stash == <<saved>> \o repository.stash
           tree == [tracked |-> {}, untracked |-> repository.tree.untracked \ saved.untracked]
           new == [remotes |-> repository.remotes, head |-> repository.head,
                   local |-> repository.local, upstream |-> repository.upstream,
                   known |-> repository.known, server |-> repository.server,
                   tree |-> tree, stash |-> stash]
<1>1. saved \in SwitchTreeType /\ tree \in SwitchTreeType
  BY SwitchRepositoryIs DEF SwitchTreeType
<1>2. stash \in Seq(SwitchTreeType)
  BY <1>1, SwitchRepositoryIs, ConcatProperties
<1>3. \/ SwitchStashed(repository, untracked) = repository /\ repository.tree.tracked = {}
      \/ SwitchStashed(repository, untracked) = [repository EXCEPT !.stash = stash, !.tree = tree]
  BY DEF SwitchStashed
<1> HIDE DEF saved, stash, tree
<1>4. [repository EXCEPT !.stash = stash, !.tree = tree] = new
  BY <1>1, <1>2, SwitchStashing
<1>5. new \in SwitchRepositoryType
  BY <1>1, <1>2, SwitchRepositoryIs, SwitchRepositoryOf
<1>6. CASE SwitchStashed(repository, untracked) = repository /\ repository.tree.tracked = {}
  BY <1>1, <1>6 DEF saved
<1>7. CASE SwitchStashed(repository, untracked) = new
  BY <1>1, <1>5, <1>7 DEF saved, stash, tree
<1>8. QED BY <1>3, <1>4, <1>6, <1>7
----------------------------------------
\* What the steps of the handler have in common

\* A handler's step stays in its workflow step.
LEMMA SwitchStaysTyped ==
    ASSUME SwitchTypedOK, UNCHANGED <<switchSteps, switchIndex, switchBegan>>,
           switchAt \notin SwitchIdle, switchAt' \in SwitchPCs,
           switchRun' \in SwitchRunType, switchRepository' \in SwitchRepositoryType,
           SwitchHasHead(switchRepository'), SwitchFollows(switchRepository')
    PROVE  SwitchTypedOK' /\ switchStep' = switchStep
BY DEF SwitchTypedOK, switchStep, SwitchHasHead, SwitchFollows

\* The step at hand is a step.
LEMMA SwitchStepTyped ==
    ASSUME SwitchTypedOK, switchIndex <= Len(switchSteps)
    PROVE  switchStep \in SwitchStepType
BY DEF SwitchTypedOK, switchStep

\* The operator's changes are where they were.
LEMMA SwitchStashStays ==
    ASSUME SwitchTypedOK, SwitchStashOK, UNCHANGED <<switchBegan, switchOutside>>,
           switchStep' = switchStep,
           switchAt \notin SwitchIdle \cup {"status", "stash", "pop", "end"},
           switchAt' \notin SwitchIdle \cup {"status", "stash", "end"},
           switchRun'.pushed = switchRun.pushed, switchRun'.branch = switchRun.branch,
           switchRepository'.tree = switchRepository.tree,
           switchRepository'.stash = switchRepository.stash,
           switchAt \in {"recheck", "fetchAgain", "checkoutAgain", "pullAgain"} =>
             /\ switchAt' \in {"recheck", "fetchAgain", "checkoutAgain", "pullAgain", "pop"}
             /\ switchRepository.local[switchRun.branch]
                  \subseteq switchRepository'.local[switchRun.branch]
    PROVE  SwitchStashOK'
BY DEF SwitchStashIsSettled, SwitchInPlace, SwitchInStash, SwitchSaved, SwitchInCommit, SwitchStashOK

\* Values nobody writes stay what they are.
LEMMA SwitchValuesStay ==
    ASSUME SwitchValuesOK, UNCHANGED <<switchSeed, switchVariable, switchCaptured>>
    PROVE  SwitchValuesOK'
BY DEF SwitchValuesOK, SwitchValueOK

\* A git command that fails
LEMMA SwitchFailsStep ==
    ASSUME SwitchIInv, switchAt \notin SwitchIdle \cup SwitchEnding, SwitchFails, SwitchWithin
    PROVE  SwitchIInv'
<1>1. /\ switchAt' = "pop" /\ switchRun' = [switchRun EXCEPT !.error = TRUE]
      /\ switchRun \in SwitchRunType /\ switchAt \in SwitchPCs
      /\ UNCHANGED <<switchRepository, switchVariable, switchCaptured, switchSteps, switchSeed,
                     switchIndex, switchBegan, switchOutside>>
      /\ SwitchTypedOK
  BY DEF SwitchFails, SwitchWithin, SwitchIInv, switchSettled, switchEnvironment, SwitchTypedOK
<1>2. /\ switchRun' \in SwitchRunType /\ switchRun'.error
      /\ switchRun'.branch = switchRun.branch /\ switchRun'.pushed = switchRun.pushed
  BY <1>1 DEF SwitchRunType
<1>3. SwitchTypedOK' /\ switchStep' = switchStep
  BY <1>1, <1>2, SwitchStaysTyped DEF SwitchTypedOK, SwitchPCs, SwitchIdle
<1>4. SwitchValuesOK'
  BY <1>1, SwitchValuesStay DEF SwitchIInv
<1>5. SwitchPlacesOK'
  BY <1>1, <1>2, <1>3 DEF SwitchIInv, SwitchPlacesOK, SwitchIdle, SwitchEnding
<1>6. SwitchStashOK'
  BY <1>1, <1>2, <1>3, SwitchStashStays DEF SwitchStashIsSettled, SwitchIInv, SwitchStashOK, SwitchInStash,
    SwitchInCommit, SwitchIdle, SwitchInPlace, SwitchEnding
<1>7. SwitchReturnOK'
  BY <1>1, <1>2 DEF SwitchReturnOK
<1>8. SwitchCurrentOK'
  BY <1>1, <1>2 DEF SwitchCurrentOK
<1>9. QED BY <1>3, <1>4, <1>5, <1>6, <1>7, <1>8 DEF SwitchIInv

----------------------------------------
\* The workflow's steps

\* A handler begins.
LEMMA SwitchBeginStep ==
    ASSUME SwitchIInv, SwitchBegin
    PROVE  SwitchIInv'
<1>1. /\ switchAt = "begin" /\ switchIndex <= Len(switchSteps) /\ switchBegan' = switchRepository
      /\ UNCHANGED <<switchRepository, switchVariable, switchCaptured, switchSteps, switchSeed,
                     switchIndex, switchOutside>>
      /\ SwitchTypedOK /\ SwitchValuesOK
      /\ switchStep' = switchStep
  BY DEF SwitchBegin, SwitchIInv, switchSettled, switchEnvironment, switchStep
<1> DEFINE step == switchStep
           value == switchVariable
<1>2. /\ step \in SwitchStepType /\ SwitchValueOK(value)
  BY <1>1, SwitchStepTyped DEF SwitchValuesOK
<1>3. /\ SwitchFresh \in SwitchRunType /\ SwitchFresh.pushed = 0
      /\ ~SwitchFresh.error /\ ~SwitchFresh.unpopped
  BY DEF SwitchFresh, SwitchRunType
<1>4. \/ /\ step.kind = "everywhere" /\ switchAt' = "end"
         /\ switchRun' \in SwitchRunType
      \/ /\ step.kind = "restore" /\ switchAt' = "pop" /\ switchRun'.error
         /\ switchRun' \in SwitchRunType
      \/ /\ step.kind = "restore" /\ value.kind = "branch" /\ switchAt' = "remotes"
         /\ switchRun' \in SwitchRunType /\ switchRun'.branch = value.branch
         /\ ~switchRun'.error /\ ~switchRun'.unpopped
      \/ /\ step.kind = "restore" /\ value.kind = "commit" /\ switchAt' = "checkout"
         /\ switchRun' \in SwitchRunType
         /\ ~switchRun'.error /\ ~switchRun'.unpopped
      \/ /\ step.kind = "refresh" /\ switchAt' = "clean"
         /\ switchRun' \in SwitchRunType /\ switchRun'.branch = step.branch
         /\ ~switchRun'.error /\ ~switchRun'.unpopped
      \/ /\ step.kind = "sync" /\ switchAt' = "pop" /\ switchRun'.error
         /\ switchRun' \in SwitchRunType /\ switchRun'.pushed = 0
      \/ /\ step.kind = "sync" /\ switchAt' = "status"
         /\ switchRun' \in SwitchRunType /\ switchRun'.branch = step.branch
         /\ ~switchRun'.error /\ ~switchRun'.unpopped /\ switchRun'.pushed = 0
  <2>1. step.branch \in SwitchBranches /\ step.refresh \in BOOLEAN /\ step.stash \in BOOLEAN
        /\ step.commit \in BOOLEAN
    BY <1>2 DEF SwitchStepType
  <2>2. value.kind = "branch" => value.branch \in SwitchBranches
    BY <1>2 DEF SwitchValueOK, SwitchValueType
  <2>3. \/ /\ step.kind = "everywhere" /\ switchAt' = "end" /\ switchRun' = SwitchFresh
        \/ /\ step.kind = "restore" /\ switchAt' = "pop"
           /\ switchRun' = [SwitchFresh EXCEPT !.error = TRUE, !.undefined = TRUE]
        \/ /\ step.kind = "restore" /\ value.kind = "branch" /\ switchAt' = "remotes"
           /\ switchRun' = [SwitchFresh EXCEPT !.branch = value.branch]
        \/ /\ step.kind = "restore" /\ value.kind = "commit" /\ switchAt' = "checkout"
           /\ switchRun' = SwitchFresh
        \/ /\ step.kind = "refresh" /\ switchAt' = "clean"
           /\ switchRun' = [SwitchFresh EXCEPT !.branch = step.branch, !.refresh = TRUE]
        \/ /\ step.kind = "sync" /\ switchAt' = "pop"
           /\ switchRun' = [SwitchFresh EXCEPT !.error = TRUE]
        \/ /\ step.kind = "sync" /\ switchAt' = "status"
           /\ switchRun' = [SwitchFresh EXCEPT
                 !.branch = step.branch, !.refresh = step.refresh \/ step.stash \/ step.commit]
    BY DEF SwitchBegin
  <2>4. \A run : run = [SwitchFresh EXCEPT !.error = TRUE, !.undefined = TRUE] =>
          run \in SwitchRunType /\ run.error
    BY DEF SwitchFresh, SwitchRunType
  <2>5. \A run : run = [SwitchFresh EXCEPT !.error = TRUE] =>
          run \in SwitchRunType /\ run.error /\ run.pushed = 0
    BY DEF SwitchFresh, SwitchRunType
  <2>6. \A branch \in SwitchBranches : \A run : run = [SwitchFresh EXCEPT !.branch = branch] =>
          /\ run \in SwitchRunType /\ run.branch = branch
          /\ ~run.error /\ ~run.unpopped
    BY DEF SwitchFresh, SwitchRunType
  <2>7. \A branch \in SwitchBranches, refresh \in BOOLEAN : \A run :
          run = [SwitchFresh EXCEPT !.branch = branch, !.refresh = refresh] =>
            /\ run \in SwitchRunType /\ run.branch = branch
            /\ ~run.error /\ ~run.unpopped /\ run.pushed = 0
    BY DEF SwitchFresh, SwitchRunType
  <2> DEFINE refreshes == step.refresh \/ step.stash \/ step.commit
  <2>8. refreshes \in BOOLEAN
    OBVIOUS
  <2>9. CASE switchAt' = "end"
    BY <1>3, <2>3, <2>9
  <2>10. CASE switchAt' = "pop"
    BY <2>3, <2>4, <2>5, <2>10
  <2>11. CASE switchAt' = "remotes"
    BY <2>2, <2>3, <2>6, <2>11
  <2>12. CASE switchAt' = "checkout"
    BY <1>3, <2>3, <2>12
  <2>13. CASE switchAt' = "clean"
    BY <2>1, <2>3, <2>7, <2>13
  <2>14. CASE switchAt' = "status"
    BY <2>1, <2>3, <2>7, <2>8, <2>14
  <2>15. QED BY <2>3, <2>9, <2>10, <2>11, <2>12, <2>13, <2>14
<1>5. SwitchTypedOK'
  BY <1>1, <1>4 DEF SwitchTypedOK, SwitchPCs, SwitchHasHead, SwitchFollows
<1>6. SwitchValuesOK'
  BY <1>1, SwitchValuesStay
<1>7. SwitchPlacesOK'
  BY <1>1, <1>4 DEF SwitchPlacesOK, SwitchIdle, SwitchEnding
<1>8. SwitchStashOK'
  BY <1>1, <1>4 DEF SwitchStashOK, SwitchStashIsSettled, SwitchInPlace
<1>9. SwitchReturnOK'
  BY <1>1, <1>4 DEF SwitchReturnOK, SwitchEnding
<1>10. SwitchCurrentOK'
  BY <1>1, <1>4 DEF SwitchCurrentOK, SwitchEnding
<1>11. QED BY <1>5, <1>6, <1>7, <1>8, <1>9, <1>10 DEF SwitchIInv

\* A handler ends, and the workflow stops or goes on.
LEMMA SwitchEndStepStep ==
    ASSUME SwitchIInv, SwitchEndStep
    PROVE  SwitchIInv'
<1>1. /\ switchAt = "end" /\ switchIndex' = SwitchAfter(switchRun.error)
      /\ switchAt' = (IF switchIndex' > Len(switchSteps) THEN "done" ELSE "begin")
      /\ switchVariable' \in {switchSeed, switchVariable}
      /\ UNCHANGED <<switchRun, switchBegan, switchRepository, switchOutside, switchCaptured,
                     switchSteps, switchSeed>>
      /\ SwitchTypedOK /\ SwitchValuesOK
  BY DEF SwitchEndStep, SwitchIInv, switchSettled
<1>2. switchIndex' \in Nat /\ 1 <= switchIndex' /\ switchIndex' <= Len(switchSteps) + 1
  <2>1. switchIndex \in Nat /\ 1 <= switchIndex /\ Len(switchSteps) \in Nat
    BY <1>1 DEF SwitchTypedOK
  <2> DEFINE later == {i \in switchIndex + 1 .. Len(switchSteps) :
                         ~switchRun.error \/ switchSteps[i].kind = "everywhere"}
  <2>2. CASE later = {}
    BY <1>1, <2>1, <2>2 DEF SwitchAfter
  <2>3. CASE later # {}
    <3>1. later \in SUBSET Nat
      BY <2>1
    <3>2. switchIndex' = Min(later)
      BY <1>1, <2>3 DEF SwitchAfter
    <3>3. Min(later) \in later
      BY <2>3, <3>1, LeastIsIn
    <3>4. QED BY <2>1, <3>2, <3>3
  <2>4. QED BY <2>2, <2>3
<1>3. switchAt' \in SwitchIdle /\ (switchAt' \in SwitchPCs)
  BY <1>1 DEF SwitchIdle, SwitchPCs
<1>4. SwitchTypedOK'
  BY <1>1, <1>2, <1>3 DEF SwitchTypedOK, SwitchHasHead, SwitchFollows
<1>5. SwitchValuesOK'
  BY <1>1 DEF SwitchValuesOK, SwitchValueOK
<1>6. SwitchPlacesOK'
  BY <1>3 DEF SwitchPlacesOK, SwitchIdle, SwitchEnding
<1>7. SwitchStashOK'
  BY <1>3 DEF SwitchStashOK, SwitchStashIsSettled, SwitchIdle
<1>8. SwitchReturnOK' /\ SwitchCurrentOK'
  BY <1>3 DEF SwitchReturnOK, SwitchCurrentOK, SwitchIdle, SwitchEnding
<1>9. QED BY <1>4, <1>5, <1>6, <1>7, <1>8 DEF SwitchIInv

----------------------------------------
\* handleBranchSyncAction, before the change

\* The status is read.
LEMMA SwitchReadStatusStep ==
    ASSUME SwitchIInv, SwitchReadStatus
    PROVE  SwitchIInv'
<1>0. CASE SwitchFails
  BY <1>0, SwitchFailsStep DEF SwitchReadStatus, SwitchIdle, SwitchEnding
<1> DEFINE dirty == switchRepository.tree.tracked # {}
           recovers == switchStep.stash \/ switchStep.commit
<1>1. CASE /\ switchRun' = [switchRun EXCEPT
                  !.refresh = @ /\ ~(switchStep.clean /\ ~recovers /\ dirty),
                  !.warned = switchRun.refresh /\ switchStep.clean /\ ~recovers /\ dirty]
           /\ switchAt' = (IF switchStep.stash /\ dirty THEN "stash" ELSE "capture")
           /\ UNCHANGED <<switchRepository, switchEnvironment>>
  <2>1. /\ switchAt = "status" /\ switchAt' \in {"stash", "capture"}
        /\ UNCHANGED <<switchRepository, switchVariable, switchCaptured, switchSteps, switchSeed,
                       switchIndex, switchBegan, switchOutside>>
        /\ SwitchTypedOK
    BY <1>1 DEF SwitchReadStatus, SwitchWithin, switchSettled, switchEnvironment, SwitchIInv
  <2>2. /\ switchRun' \in SwitchRunType /\ switchRun'.error = switchRun.error
        /\ switchRun'.unpopped = switchRun.unpopped
        /\ switchRun'.branch = switchRun.branch /\ switchRun'.pushed = switchRun.pushed
    <3>1. switchRun \in SwitchRunType
      BY <2>1 DEF SwitchTypedOK
    <3>2. \A refresh, warned \in BOOLEAN : \A run :
            run = [switchRun EXCEPT !.refresh = refresh, !.warned = warned] =>
              /\ run \in SwitchRunType /\ run.error = switchRun.error
              /\ run.unpopped = switchRun.unpopped
              /\ run.branch = switchRun.branch /\ run.pushed = switchRun.pushed
      BY <3>1 DEF SwitchRunType
    <3> DEFINE refreshes == switchRun.refresh /\ ~(switchStep.clean /\ ~recovers /\ dirty)
               warns == switchRun.refresh /\ switchStep.clean /\ ~recovers /\ dirty
    <3>3. refreshes \in BOOLEAN /\ warns \in BOOLEAN
      OBVIOUS
    <3>4. switchRun' = [switchRun EXCEPT !.refresh = refreshes, !.warned = warns]
      BY <1>1
    <3> HIDE DEF refreshes, warns
    <3>5. QED BY <3>2, <3>3, <3>4
  <2>3. SwitchTypedOK' /\ switchStep' = switchStep
    BY <2>1, <2>2, SwitchStaysTyped DEF SwitchIdle, SwitchPCs, SwitchTypedOK
  <2>4. SwitchValuesOK'
    BY <2>1, SwitchValuesStay DEF SwitchIInv
  <2>5. SwitchPlacesOK'
    BY <2>1, <2>2, <2>3 DEF SwitchIInv, SwitchPlacesOK, SwitchIdle, SwitchEnding
  <2>6. SwitchStashOK'
    BY <2>1, <1>1, <2>2, <2>3 DEF SwitchStashIsSettled, SwitchIInv, SwitchStashOK, SwitchInStash,
      SwitchInCommit, SwitchIdle, SwitchInPlace
  <2>7. SwitchReturnOK' /\ SwitchCurrentOK'
    BY <2>1 DEF SwitchReturnOK, SwitchCurrentOK, SwitchEnding
  <2>8. QED BY <2>3, <2>4, <2>5, <2>6, <2>7 DEF SwitchIInv
<1>2. QED BY <1>0, <1>1 DEF SwitchReadStatus

\* The changes are stashed, or the stash command fails.
LEMMA SwitchPushStashStep ==
    ASSUME SwitchIInv, SwitchPushStash
    PROVE  SwitchIInv'
<1>0. CASE SwitchFails
  BY <1>0, SwitchFailsStep DEF SwitchPushStash, SwitchIdle, SwitchEnding
<1>1. CASE /\ switchRepository' = SwitchStashed(switchRepository, FALSE)
           /\ switchRun' = [switchRun EXCEPT !.pushed = 1]
           /\ switchAt' = "capture"
           /\ UNCHANGED switchEnvironment
  <2>1. /\ switchAt = "stash" /\ switchAt' = "capture"
        /\ UNCHANGED <<switchVariable, switchCaptured, switchSteps, switchSeed,
                       switchIndex, switchBegan, switchOutside>>
        /\ SwitchTypedOK
    BY <1>1 DEF SwitchPushStash, SwitchWithin, switchSettled, switchEnvironment, SwitchIInv
  <2>2. /\ switchRun' \in SwitchRunType /\ switchRun'.error = switchRun.error
        /\ switchRun'.unpopped = switchRun.unpopped
        /\ switchRun'.branch = switchRun.branch /\ switchRun'.pushed = 1
    BY <1>1, <2>1 DEF SwitchTypedOK, SwitchRunType
  <2>3. /\ switchRepository' \in SwitchRepositoryType
        /\ switchRepository'.head = switchRepository.head
        /\ switchRepository'.local = switchRepository.local
        /\ switchRepository'.upstream = switchRepository.upstream
        /\ switchRepository'.remotes = switchRepository.remotes
        /\ switchRepository.tree.tracked # {} =>
             /\ switchRepository'.stash =
                  <<[tracked |-> switchRepository.tree.tracked, untracked |-> {}]>>
                    \o switchRepository.stash
             /\ switchRepository'.tree =
                  [tracked |-> {}, untracked |-> switchRepository.tree.untracked]
    <3> DEFINE saved == [tracked |-> switchRepository.tree.tracked, untracked |-> {}]
    <3>1. switchRepository \in SwitchRepositoryType /\ FALSE \in BOOLEAN
      BY <2>1 DEF SwitchTypedOK
    <3>2. /\ switchRepository' \in SwitchRepositoryType
          /\ switchRepository'.head = switchRepository.head
          /\ switchRepository'.local = switchRepository.local
          /\ switchRepository'.upstream = switchRepository.upstream
          /\ switchRepository'.remotes = switchRepository.remotes
          /\ switchRepository.tree.tracked # {} =>
               /\ switchRepository'.stash = <<saved>> \o switchRepository.stash
               /\ switchRepository'.tree =
                    [tracked |-> {},
                     untracked |-> switchRepository.tree.untracked \ saved.untracked]
      BY <1>1, <3>1, SwitchStashedIs
    <3>3. switchRepository.tree.untracked \ saved.untracked = switchRepository.tree.untracked
      OBVIOUS
    <3>4. QED BY <3>2, <3>3
  <2>4. SwitchTypedOK' /\ switchStep' = switchStep
    BY <2>1, <2>3, <2>2, SwitchStaysTyped DEF SwitchTypedOK, SwitchHasHead, SwitchFollows, SwitchIdle, SwitchPCs
  <2>5. SwitchValuesOK'
    BY <2>1, SwitchValuesStay DEF SwitchIInv
  <2>6. SwitchPlacesOK'
    BY <2>1, <2>2, <2>4 DEF SwitchIInv, SwitchPlacesOK, SwitchIdle, SwitchEnding
  <2>7. SwitchStashOK'
    BY <2>1, <2>2, <2>3, <2>4 DEF SwitchStashIsSettled, SwitchIInv, SwitchStashOK, SwitchInStash,
      SwitchInCommit, SwitchIdle, SwitchInPlace, SwitchSaved
  <2>8. SwitchReturnOK' /\ SwitchCurrentOK'
    BY <2>1 DEF SwitchReturnOK, SwitchCurrentOK, SwitchEnding
  <2>9. QED BY <2>4, <2>5, <2>6, <2>7, <2>8 DEF SwitchIInv
<1>2. QED BY <1>0, <1>1 DEF SwitchPushStash

\* The branch or the commit checked out is captured.
LEMMA SwitchCaptureStep ==
    ASSUME SwitchIInv, SwitchCapture
    PROVE  SwitchIInv'
<1>0. CASE SwitchFails
  BY <1>0, SwitchFailsStep DEF SwitchCapture, SwitchIdle, SwitchEnding
<1> DEFINE head == switchRepository.head.branch
           wanted == switchStep.capture
           value == [kind |-> wanted,
                     branch |-> IF wanted = "branch" THEN head ELSE SwitchNobody,
                     at |-> IF wanted = "branch" THEN {} ELSE SwitchHeadCommit]
<1>1. CASE /\ wanted # "branch" \/ head # SwitchNobody
           /\ IF wanted = "none" THEN UNCHANGED switchEnvironment ELSE SwitchStore(value)
           /\ switchAt' = "remotes"
           /\ UNCHANGED <<switchRun, switchRepository>>
  <2>1. /\ switchAt = "capture" /\ switchAt' = "remotes"
        /\ UNCHANGED <<switchRun, switchRepository, switchSteps, switchSeed,
                       switchIndex, switchBegan, switchOutside>>
        /\ SwitchTypedOK /\ SwitchValuesOK
    BY <1>1 DEF SwitchCapture, SwitchWithin, switchSettled, SwitchIInv
  <2>2. SwitchTypedOK' /\ switchStep' = switchStep
    BY <2>1, SwitchStaysTyped DEF SwitchIdle, SwitchPCs, SwitchTypedOK
  <2>3. SwitchValuesOK'
    <3>1. CASE UNCHANGED switchEnvironment
      BY <2>1, <3>1, SwitchValuesStay DEF switchEnvironment
    <3>2. CASE wanted # "none" /\ SwitchStore(value) /\ ~UNCHANGED switchEnvironment
      <4>1. wanted \in {"branch", "commit"}
        BY <2>1, <3>2, SwitchStepTyped DEF SwitchTypedOK, SwitchIdle, SwitchStepType
      <4>2. SwitchValueOK(value)
        BY <2>1, SwitchRepositoryIs, <1>1, <4>1 DEF SwitchTypedOK, SwitchHeadCommit, SwitchHasHead,
          SwitchValueOK, SwitchValueType
      <4>3. /\ switchCaptured' = value
            /\ switchVariable' = IF switchSeed.kind = "none" THEN value ELSE switchVariable
        BY <3>2 DEF SwitchStore
      <4> HIDE DEF value
      <4>4. QED BY <2>1, <4>2, <4>3 DEF SwitchValuesOK, SwitchValueOK
    <3>3. QED BY <1>1, <3>1, <3>2
  <2>4. SwitchPlacesOK'
    BY <2>1, <2>2 DEF SwitchIInv, SwitchPlacesOK, SwitchIdle, SwitchEnding
  <2>5. SwitchStashOK'
    BY <2>1, <2>2, SwitchStashStays DEF SwitchIInv, SwitchIdle
  <2>6. SwitchReturnOK' /\ SwitchCurrentOK'
    BY <2>1 DEF SwitchReturnOK, SwitchCurrentOK, SwitchEnding
  <2>7. QED BY <2>2, <2>3, <2>4, <2>5, <2>6 DEF SwitchIInv
<1>2. QED BY <1>0, <1>1 DEF SwitchCapture

----------------------------------------
\* Service.Change

\* A step that leaves the stash list and the working tree alone, and goes on
LEMMA SwitchGoesOn ==
    ASSUME SwitchIInv, SwitchWithin, UNCHANGED switchEnvironment,
           switchAt \in SwitchPCs \ (SwitchIdle \cup SwitchEnding \cup {"status", "stash"}),
           switchAt' \in SwitchPCs \ (SwitchIdle \cup {"status", "stash", "end"}),
           switchRun' \in SwitchRunType,
           switchRun'.branch = switchRun.branch, switchRun'.pushed = switchRun.pushed,
           switchRepository' \in SwitchRepositoryType,
           SwitchHasHead(switchRepository'), SwitchFollows(switchRepository'),
           switchRepository'.tree = switchRepository.tree,
           switchRepository'.stash = switchRepository.stash,
           switchAt \in {"recheck", "fetchAgain", "checkoutAgain", "pullAgain"} =>
             /\ switchAt' \in {"recheck", "fetchAgain", "checkoutAgain", "pullAgain", "pop"}
             /\ switchRepository.local[switchRun.branch]
                  \subseteq switchRepository'.local[switchRun.branch]
    PROVE  SwitchTypedOK' /\ SwitchValuesOK' /\ SwitchStashOK' /\ switchStep' = switchStep
BY SwitchStaysTyped, SwitchValuesStay, SwitchStashStays DEF SwitchWithin, switchSettled, switchEnvironment,
  SwitchIInv, SwitchEnding

\* The branch a handler works on
LEMMA SwitchBranchThere ==
    ASSUME SwitchIInv, switchAt \notin SwitchIdle \cup SwitchEnding \cup {"checkout"},
           switchStep.kind \in {"sync", "refresh", "restore"}
    PROVE  switchRun.branch \in SwitchBranches
BY SwitchStepTyped DEF SwitchIInv, SwitchTypedOK, SwitchValuesOK, SwitchPlacesOK, SwitchStepType, SwitchValueOK,
  SwitchValueType

\* Where the change ends
LEMMA SwitchChangeEnds ==
    ASSUME switchStep.kind \in {"sync", "restore"}
    PROVE  /\ SwitchAfterChange \in {"tracking", "pop"}
           /\ SwitchAfterChange = "tracking" <=> switchStep.kind = "sync"
BY DEF SwitchAfterChange

\* The remotes are enumerated.
LEMMA SwitchRemotesReadStep ==
    ASSUME SwitchIInv, SwitchRemotesRead
    PROVE  SwitchIInv'
<1>0. CASE SwitchFails
  BY <1>0, SwitchFailsStep DEF SwitchRemotesRead, SwitchIdle, SwitchEnding
<1> DEFINE there == switchRepository.remotes
           asked == IF switchStep.kind = "sync" THEN switchStep.remote ELSE SwitchNobody
           explicit == asked # SwitchNobody
           single == ~explicit /\ SwitchDefaultRemote \notin there /\ Cardinality(there) = 1
           selected == IF explicit THEN asked
                       ELSE IF single THEN CHOOSE r \in there : TRUE
                       ELSE SwitchDefaultRemote
<1>1. CASE /\ switchRun' = [switchRun EXCEPT
                  !.remote = selected, !.requested = selected \in there,
                  !.all = there # {} /\ selected \notin there,
                  !.pull = there # {},
                  !.warned = @ \/ (explicit /\ selected \notin there)]
           /\ switchAt' = (IF there = {} THEN "switch" ELSE "fetch")
           /\ UNCHANGED <<switchRepository, switchEnvironment>>
  <2>1. /\ switchAt = "remotes" /\ switchAt' \in {"switch", "fetch"}
        /\ UNCHANGED switchRepository /\ UNCHANGED switchEnvironment
        /\ SwitchWithin /\ SwitchTypedOK
    BY <1>1 DEF SwitchRemotesRead, SwitchIInv
  <2>2. selected \in SwitchRemotes \cup {SwitchNobody}
    BY <2>1, SwitchStepTyped, FS_EmptySet, SwitchRepositoryIs, SwitchInputs DEF SwitchTypedOK, SwitchIdle,
      SwitchStepType
  <2>3. /\ switchRun' \in SwitchRunType /\ switchRun'.error = switchRun.error
        /\ switchRun'.unpopped = switchRun.unpopped
        /\ switchRun'.branch = switchRun.branch /\ switchRun'.pushed = switchRun.pushed
        /\ switchRun'.pull = (there # {})
    <3>1. switchRun \in SwitchRunType
      BY <2>1 DEF SwitchTypedOK
    <3> DEFINE remote == selected
               requested == selected \in there
               all == there # {} /\ selected \notin there
               pull == there # {}
               warned == switchRun.warned \/ (explicit /\ selected \notin there)
    <3>2. /\ requested \in BOOLEAN /\ all \in BOOLEAN /\ pull \in BOOLEAN /\ warned \in BOOLEAN
          /\ remote \in SwitchRemotes \cup {SwitchNobody}
      BY <2>2
    <3>3. switchRun' = [switchRun EXCEPT !.remote = remote, !.requested = requested, !.all = all,
                                         !.pull = pull, !.warned = warned]
      BY <1>1, <3>1 DEF SwitchRunType
    <3>4. pull = (there # {})
      OBVIOUS
    <3> HIDE DEF remote, requested, all, pull, warned
    <3> DEFINE chosen == [switchRun EXCEPT !.remote = remote, !.requested = requested]
               widened == [chosen EXCEPT !.all = all, !.pull = pull]
    <3>5. /\ chosen \in SwitchRunType /\ chosen.error = switchRun.error
          /\ chosen.unpopped = switchRun.unpopped
          /\ chosen.branch = switchRun.branch /\ chosen.pushed = switchRun.pushed
      BY <3>1, <3>2 DEF SwitchRunType
    <3>6. switchRun' = [widened EXCEPT !.warned = warned]
      BY <3>3
    <3> HIDE DEF chosen
    <3>7. /\ widened \in SwitchRunType /\ widened.error = chosen.error
          /\ widened.unpopped = chosen.unpopped /\ widened.pull = pull
          /\ widened.branch = chosen.branch /\ widened.pushed = chosen.pushed
      BY <3>2, <3>5 DEF SwitchRunType
    <3> HIDE DEF widened
    <3>8. /\ switchRun' \in SwitchRunType /\ switchRun'.error = widened.error
          /\ switchRun'.unpopped = widened.unpopped /\ switchRun'.pull = pull
          /\ switchRun'.branch = widened.branch /\ switchRun'.pushed = widened.pushed
      BY <3>2, <3>6, <3>7 DEF SwitchRunType
    <3>9. QED BY <3>4, <3>5, <3>7, <3>8
  <2>4. /\ switchRepository' \in SwitchRepositoryType
        /\ SwitchHasHead(switchRepository') /\ SwitchFollows(switchRepository')
    BY <2>1 DEF SwitchTypedOK
  <2>5. SwitchTypedOK' /\ SwitchValuesOK' /\ SwitchStashOK' /\ switchStep' = switchStep
    BY <2>1, <2>3, <2>4, SwitchGoesOn DEF SwitchIdle, SwitchEnding, SwitchPCs
  <2>6. SwitchPlacesOK'
    BY <2>1, <2>3, <2>5 DEF SwitchIInv, SwitchPlacesOK, SwitchIdle, SwitchEnding, switchEnvironment
  <2>7. SwitchReturnOK'
    BY <2>1 DEF SwitchReturnOK, SwitchEnding
  <2>8. SwitchCurrentOK'
    BY <2>1, <2>3 DEF SwitchCurrentOK, SwitchEnding
  <2>9. QED BY <2>5, <2>6, <2>7, <2>8 DEF SwitchIInv
<1>2. QED BY <1>0, <1>1 DEF SwitchRemotesRead

\* The remotes are fetched, or a warning is kept.
LEMMA SwitchFetchStep ==
    ASSUME SwitchIInv, SwitchFetch
    PROVE  SwitchIInv'
<1>1. /\ switchAt = "fetch" /\ switchAt' = "switch"
      /\ UNCHANGED switchEnvironment /\ SwitchWithin /\ SwitchTypedOK
      /\ switchRepository \in SwitchRepositoryType /\ switchRun \in SwitchRunType
  BY DEF SwitchFetch, SwitchIInv, SwitchTypedOK
<1> DEFINE from == IF switchRun.all THEN switchRepository.remotes ELSE {switchRun.remote}
<1>2. \/ switchRepository' = SwitchFetched(switchRepository, from) /\ UNCHANGED switchRun
      \/ /\ switchRun' = [switchRun EXCEPT !.pull = FALSE, !.warned = TRUE]
         /\ UNCHANGED switchRepository
  BY DEF SwitchFetch
<1>3. /\ switchRun' \in SwitchRunType /\ switchRun'.error = switchRun.error
      /\ switchRun'.unpopped = switchRun.unpopped
      /\ switchRun'.branch = switchRun.branch /\ switchRun'.pushed = switchRun.pushed
      /\ switchRun' = switchRun \/ switchRun'.warned
  BY <1>1, <1>2 DEF SwitchRunType
<1> HIDE DEF from
<1>4. /\ switchRepository' \in SwitchRepositoryType
      /\ switchRepository'.head = switchRepository.head
      /\ switchRepository'.local = switchRepository.local
      /\ switchRepository'.upstream = switchRepository.upstream
      /\ switchRepository'.remotes = switchRepository.remotes
      /\ switchRepository'.tree = switchRepository.tree
      /\ switchRepository'.stash = switchRepository.stash
  BY <1>1, <1>2, SwitchFetchedIs
<1>5. SwitchHasHead(switchRepository') /\ SwitchFollows(switchRepository')
  BY <1>1, <1>4 DEF SwitchTypedOK, SwitchHasHead, SwitchFollows
<1>6. SwitchTypedOK' /\ SwitchValuesOK' /\ SwitchStashOK' /\ switchStep' = switchStep
  BY <1>1, <1>3, <1>4, <1>5, SwitchGoesOn DEF SwitchIdle, SwitchEnding, SwitchPCs
<1>7. SwitchPlacesOK'
  BY <1>1, <1>3, <1>6 DEF SwitchIInv, SwitchPlacesOK, SwitchIdle, SwitchEnding, switchEnvironment
<1>8. SwitchReturnOK'
  BY <1>1 DEF SwitchReturnOK, SwitchEnding
<1>9. SwitchCurrentOK'
  BY <1>1, <1>3, <1>4 DEF SwitchIInv, SwitchCurrentOK, SwitchEnding
<1>10. QED BY <1>6, <1>7, <1>8, <1>9 DEF SwitchIInv

\* git switch to a branch that exactly one remote has, and that then tracks it
LEMMA SwitchTracks ==
    ASSUME SwitchTypedOK, NEW branch \in SwitchBranches, NEW r \in SwitchKnowing(branch),
           switchRepository' = SwitchTracking(switchRepository, branch, r),
           switchRun'.branch = branch
    PROVE  /\ switchRepository' \in SwitchRepositoryType
           /\ switchRepository'.tree = switchRepository.tree
           /\ switchRepository'.stash = switchRepository.stash
           /\ switchRepository'.remotes = switchRepository.remotes
           /\ switchRepository'.head.branch = branch
           /\ SwitchHasHead(switchRepository') /\ SwitchFollows(switchRepository')
           /\ SwitchIsCurrent'
<1>1. /\ switchRepository \in SwitchRepositoryType
      /\ SwitchHasHead(switchRepository) /\ SwitchFollows(switchRepository)
  BY DEF SwitchTypedOK
<1>2. /\ r \in SwitchRemotes /\ r \in switchRepository.remotes
      /\ switchRepository.known[r][branch] # {}
  BY <1>1, SwitchRepositoryIs DEF SwitchKnowing, SwitchAbsent
<1>3. /\ switchRepository' \in SwitchRepositoryType
      /\ switchRepository'.head = [branch |-> branch, at |-> {}]
      /\ switchRepository'.local = [switchRepository.local EXCEPT
                                      ![branch] = switchRepository.known[r][branch]]
      /\ switchRepository'.upstream = [switchRepository.upstream EXCEPT ![branch] = r]
      /\ switchRepository'.remotes = switchRepository.remotes
      /\ switchRepository'.known = switchRepository.known
      /\ switchRepository'.tree = switchRepository.tree
      /\ switchRepository'.stash = switchRepository.stash
  BY <1>1, <1>2, SwitchTrackingIs
<1>4. /\ switchRepository'.local[branch] = switchRepository.known[r][branch]
      /\ switchRepository'.upstream[branch] = r
      /\ \A b \in SwitchBranches : b # branch =>
           /\ switchRepository'.local[b] = switchRepository.local[b]
           /\ switchRepository'.upstream[b] = switchRepository.upstream[b]
  BY <1>1, <1>3, SwitchRepositoryIs
<1>5. switchRepository'.head.branch = branch
  BY <1>3
<1>6. SwitchHasHead(switchRepository') /\ SwitchFollows(switchRepository')
  BY <1>1, <1>2, <1>3, <1>4, <1>5, SwitchInputs DEF SwitchHasHead, SwitchFollows
<1>7. SwitchIsCurrent'
  BY <1>3, <1>4, <1>5 DEF SwitchIsCurrent
<1>8. QED BY <1>3, <1>5, <1>6, <1>7

\* git switch to a branch that is there
LEMMA SwitchGoesTo ==
    ASSUME SwitchTypedOK, NEW branch \in SwitchBranches, switchRepository.local[branch] # {},
           switchRepository' = [switchRepository EXCEPT !.head = SwitchBranchHead(branch)]
    PROVE  /\ switchRepository' \in SwitchRepositoryType
           /\ switchRepository'.head.branch = branch
           /\ switchRepository'.local = switchRepository.local
           /\ switchRepository'.upstream = switchRepository.upstream
           /\ switchRepository'.remotes = switchRepository.remotes
           /\ switchRepository'.tree = switchRepository.tree
           /\ switchRepository'.stash = switchRepository.stash
           /\ SwitchHasHead(switchRepository') /\ SwitchFollows(switchRepository')
BY SwitchInputs DEF SwitchBranchHead, SwitchRepositoryType, SwitchTypedOK, SwitchHasHead, SwitchFollows

\* git switch to the branch
LEMMA SwitchTryStep ==
    ASSUME SwitchIInv, SwitchTry
    PROVE  SwitchIInv'
<1>0. CASE SwitchFails
  BY <1>0, SwitchFailsStep DEF SwitchTry, SwitchIdle, SwitchEnding
<1> DEFINE branch == switchRun.branch
           next == IF switchRun.pull THEN "pull" ELSE SwitchAfterChange
<1>1. CASE ~SwitchFails
  <2>1. /\ switchAt = "switch" /\ SwitchWithin /\ SwitchTypedOK
        /\ UNCHANGED switchRun /\ UNCHANGED switchEnvironment
        /\ \/ /\ switchRepository.local[branch] # {} /\ switchAt' = next
              /\ switchRepository' = [switchRepository EXCEPT !.head = SwitchBranchHead(branch)]
           \/ /\ switchRepository.local[branch] = {} /\ switchAt' = next
              /\ \E r \in SwitchKnowing(branch) :
                   switchRepository' = SwitchTracking(switchRepository, branch, r)
           \/ /\ switchRepository.local[branch] = {} /\ switchAt' = "create"
              /\ switchStep.kind = "sync" /\ UNCHANGED switchRepository
    BY <1>1 DEF SwitchTry, SwitchAbsent, SwitchIInv
  <2>2. /\ switchRepository \in SwitchRepositoryType /\ switchRun \in SwitchRunType
        /\ SwitchHasHead(switchRepository) /\ SwitchFollows(switchRepository)
    BY <2>1 DEF SwitchTypedOK
  <2>3. switchStep.kind \in {"sync", "restore"} /\ branch \in SwitchBranches
    BY <2>1, SwitchBranchThere DEF SwitchIInv, SwitchPlacesOK, SwitchIdle, SwitchEnding
  <2>4. switchRun.pull \/ switchRun.warned \/ switchRepository.remotes = {}
    BY <2>1 DEF SwitchIInv, SwitchCurrentOK
  <2>5. /\ switchRepository' \in SwitchRepositoryType
        /\ switchRepository'.tree = switchRepository.tree
        /\ switchRepository'.stash = switchRepository.stash
        /\ switchRepository'.remotes = switchRepository.remotes
        /\ SwitchHasHead(switchRepository') /\ SwitchFollows(switchRepository')
        /\ \/ /\ switchAt' = next /\ switchRepository'.head.branch = branch
           \/ /\ switchAt' = "create" /\ switchStep.kind = "sync"
              /\ switchRepository' = switchRepository /\ switchRepository.local[branch] = {}
        /\ switchAt' = next /\ ~switchRun.pull /\ ~switchRun.warned => SwitchIsCurrent'
    <3>1. CASE /\ switchRepository.local[branch] # {} /\ switchAt' = next
               /\ switchRepository' = [switchRepository EXCEPT !.head = SwitchBranchHead(branch)]
      BY <2>1, <2>3, <3>1, SwitchGoesTo, <2>4 DEF SwitchIsCurrent, SwitchFollows
    <3>2. CASE /\ switchRepository.local[branch] = {} /\ switchAt' = next
               /\ \E r \in SwitchKnowing(branch) :
                    switchRepository' = SwitchTracking(switchRepository, branch, r)
      <4>1. PICK r \in SwitchKnowing(branch) :
                   switchRepository' = SwitchTracking(switchRepository, branch, r)
        BY <3>2
      <4>2. QED BY <2>1, <2>3, <3>2, <4>1, SwitchTracks
    <3>3. CASE /\ switchRepository.local[branch] = {} /\ switchAt' = "create"
               /\ switchStep.kind = "sync" /\ UNCHANGED switchRepository
      BY <2>2, <2>3, <3>3, SwitchChangeEnds
    <3>4. QED BY <2>1, <3>1, <3>2, <3>3
  <2>6. /\ switchAt' \in {"create", "pull", "tracking", "pop"}
        /\ switchAt' = "create" => /\ switchStep.kind = "sync"
                                  /\ switchRepository' = switchRepository
                                  /\ switchRepository.local[branch] = {}
        /\ switchAt' = "tracking" => switchStep.kind = "sync" /\ switchAt' = next /\ ~switchRun.pull
        /\ switchAt' = "pop" => switchStep.kind = "restore" /\ switchAt' = next
        /\ switchAt' = "pull" => switchAt' = next /\ switchRun.pull
    BY <2>3, <2>5, SwitchChangeEnds
  <2>7. SwitchTypedOK' /\ SwitchValuesOK' /\ SwitchStashOK' /\ switchStep' = switchStep
    BY <2>1, <2>2, <2>5, <2>6, SwitchGoesOn DEF SwitchIdle, SwitchEnding, SwitchPCs
  <2>8. SwitchPlacesOK'
    BY <2>1, <2>5, <2>6, <2>7 DEF SwitchIInv, SwitchPlacesOK, SwitchIdle, SwitchEnding, switchEnvironment
  <2>9. SwitchReturnOK'
    BY <2>1, <2>5, <2>6, <2>7 DEF SwitchIInv, SwitchPlacesOK, SwitchIdle, SwitchEnding, SwitchReturnOK,
      switchEnvironment
  <2>10. SwitchCurrentOK'
    BY <2>1, <2>4, <2>5, <2>6, <2>7 DEF SwitchCurrentOK, SwitchEnding
  <2>11. QED BY <2>7, <2>8, <2>9, <2>10 DEF SwitchIInv
<1>2. QED BY <1>0, <1>1

\* git switch -c, when there is no such branch
LEMMA SwitchCreateStep ==
    ASSUME SwitchIInv, SwitchCreate
    PROVE  SwitchIInv'
<1>0. CASE SwitchFails
  BY <1>0, SwitchFailsStep DEF SwitchCreate, SwitchIdle, SwitchEnding
<1> DEFINE branch == switchRun.branch
           tracks == switchRun.requested /\ switchRun.remote \in SwitchKnowing(branch)
           local == [switchRepository.local EXCEPT ![branch] = SwitchHeadCommit]
<1>1. CASE ~SwitchFails
  <2>1. /\ switchAt = "create" /\ SwitchWithin /\ SwitchTypedOK /\ UNCHANGED switchEnvironment
        /\ switchRun' = [switchRun EXCEPT !.created = TRUE, !.pull = @ /\ tracks]
        /\ switchAt' = (IF switchRun'.pull THEN "pull" ELSE SwitchAfterChange)
        /\ switchStep.kind = "sync"
        /\ switchRepository' =
             IF tracks THEN SwitchTracking(switchRepository, branch, switchRun.remote)
             ELSE [switchRepository EXCEPT !.head = SwitchBranchHead(branch), !.local = local]
    BY <1>1 DEF SwitchCreate, SwitchIInv, SwitchPlacesOK, SwitchTypedOK, SwitchRepositoryType
  <2>2. /\ switchRepository \in SwitchRepositoryType /\ switchRun \in SwitchRunType
        /\ SwitchHasHead(switchRepository) /\ SwitchFollows(switchRepository)
        /\ branch \in SwitchBranches /\ switchRepository.local[branch] = {}
    BY <2>1, SwitchBranchThere DEF SwitchTypedOK, SwitchIdle, SwitchEnding, SwitchIInv, SwitchCurrentOK
  <2>3. /\ switchRun' \in SwitchRunType /\ switchRun'.error = switchRun.error
        /\ switchRun'.unpopped = switchRun.unpopped
        /\ switchRun'.branch = branch /\ switchRun'.pushed = switchRun.pushed
        /\ switchRun'.pull = (switchRun.pull /\ tracks)
    <3>1. \A pull \in BOOLEAN : \A run :
            run = [switchRun EXCEPT !.created = TRUE, !.pull = pull] =>
              /\ run \in SwitchRunType /\ run.error = switchRun.error
              /\ run.unpopped = switchRun.unpopped
              /\ run.branch = switchRun.branch /\ run.pushed = switchRun.pushed
              /\ run.pull = pull
      BY <2>2 DEF SwitchRunType
    <3> DEFINE pull == switchRun.pull /\ tracks
    <3>2. switchRun' = [switchRun EXCEPT !.created = TRUE, !.pull = pull] /\ pull \in BOOLEAN
      BY <2>1, <2>2 DEF SwitchRunType
    <3>3. pull = (switchRun.pull /\ tracks)
      OBVIOUS
    <3> HIDE DEF pull
    <3>4. QED BY <3>1, <3>2, <3>3
  <2>4. /\ switchRepository' \in SwitchRepositoryType
        /\ switchRepository'.tree = switchRepository.tree
        /\ switchRepository'.stash = switchRepository.stash
        /\ switchRepository'.head.branch = branch
        /\ SwitchHasHead(switchRepository') /\ SwitchFollows(switchRepository')
        /\ SwitchIsCurrent'
    <3>1. CASE tracks
      BY <2>1, <3>1, <2>2, <2>3, SwitchTracks
    <3>2. CASE ~tracks
      <4>1. /\ SwitchBranchHead(branch) \in
                 [branch: SwitchBranches \cup {SwitchNobody}, at: SUBSET SwitchCommits]
            /\ local \in [SwitchBranches -> SUBSET SwitchCommits]
            /\ local[branch] # {}
            /\ \A b \in SwitchBranches : b # branch => local[b] = switchRepository.local[b]
        <5>1. SwitchHeadCommit \subseteq SwitchCommits /\ SwitchHeadCommit # {}
          BY <2>2, SwitchRepositoryIs DEF SwitchHeadCommit, SwitchHasHead
        <5> HIDE DEF branch
        <5>2. QED BY <2>2, <5>1, SwitchRepositoryIs DEF SwitchBranchHead
      <4>2. switchRepository' = [switchRepository EXCEPT !.head = SwitchBranchHead(branch),
                                                         !.local = local]
        BY <2>1, <3>2
      <4> HIDE DEF local
      <4>3. /\ switchRepository' \in SwitchRepositoryType
            /\ switchRepository'.head = SwitchBranchHead(branch)
            /\ switchRepository'.local = local
            /\ switchRepository'.upstream = switchRepository.upstream
            /\ switchRepository'.remotes = switchRepository.remotes
            /\ switchRepository'.tree = switchRepository.tree
            /\ switchRepository'.stash = switchRepository.stash
        BY <2>2, <4>1, <4>2 DEF SwitchRepositoryType
      <4>4. switchRepository'.head.branch = branch
        BY <4>3 DEF SwitchBranchHead
      <4>5. SwitchHasHead(switchRepository') /\ SwitchFollows(switchRepository')
        BY <2>2, <4>1, <4>3, <4>4, SwitchInputs DEF SwitchHasHead, SwitchFollows
      <4>6. switchRepository.upstream[branch] = SwitchNobody
        BY <2>2 DEF SwitchFollows
      <4>7. SwitchIsCurrent'
        BY <2>3, <4>3, <4>4, <4>6 DEF SwitchIsCurrent
      <4>8. QED BY <4>3, <4>4, <4>5, <4>7
    <3>3. QED BY <3>1, <3>2
  <2>5. switchAt' \in {"pull", "tracking"}
    BY <2>1, SwitchChangeEnds
  <2>6. SwitchTypedOK' /\ SwitchValuesOK' /\ SwitchStashOK' /\ switchStep' = switchStep
    BY <2>1, <2>3, <2>4, <2>5, SwitchGoesOn DEF SwitchIdle, SwitchEnding, SwitchPCs
  <2>7. SwitchPlacesOK'
    BY <2>1, <2>3, <2>5, <2>6 DEF SwitchIInv, SwitchPlacesOK, SwitchIdle, SwitchEnding, switchEnvironment
  <2>8. SwitchReturnOK' /\ SwitchCurrentOK'
    BY <2>3, <2>4, <2>5 DEF SwitchReturnOK, SwitchCurrentOK, SwitchEnding
  <2>9. QED BY <2>6, <2>7, <2>8 DEF SwitchIInv
<1>2. QED BY <1>0, <1>1

\* git pull --ff-only of a branch that is checked out
LEMMA SwitchPulls ==
    ASSUME SwitchTypedOK, NEW branch \in SwitchBranches, SwitchCanPull(branch),
           switchRepository.head.branch = branch,
           switchRepository' = SwitchPulled(switchRepository, branch),
           switchRun'.branch = branch
    PROVE  /\ switchRepository' \in SwitchRepositoryType
           /\ switchRepository'.tree = switchRepository.tree
           /\ switchRepository'.stash = switchRepository.stash
           /\ switchRepository'.head = switchRepository.head
           /\ switchRepository.local[branch] \subseteq switchRepository'.local[branch]
           /\ SwitchHasHead(switchRepository') /\ SwitchFollows(switchRepository')
           /\ SwitchIsCurrent'
<1> DEFINE remote == switchRepository.upstream[branch]
<1>1. /\ switchRepository \in SwitchRepositoryType
      /\ SwitchHasHead(switchRepository) /\ SwitchFollows(switchRepository)
      /\ remote \in SwitchRemotes
      /\ switchRepository.local[branch] \subseteq switchRepository.server[remote][branch]
  BY SwitchRepositoryIs DEF SwitchTypedOK, SwitchCanPull
<1>2. /\ switchRepository' \in SwitchRepositoryType
      /\ switchRepository'.local = [switchRepository.local EXCEPT
                                      ![branch] = switchRepository.server[remote][branch]]
      /\ switchRepository'.known[remote] = switchRepository.server[remote]
      /\ switchRepository'.head = switchRepository.head
      /\ switchRepository'.upstream = switchRepository.upstream
      /\ switchRepository'.remotes = switchRepository.remotes
      /\ switchRepository'.tree = switchRepository.tree
      /\ switchRepository'.stash = switchRepository.stash
  BY <1>1, SwitchPulledIs
<1>3. /\ switchRepository'.local[branch] = switchRepository.server[remote][branch]
      /\ \A b \in SwitchBranches : b # branch =>
           switchRepository'.local[b] = switchRepository.local[b]
  BY <1>1, <1>2, SwitchRepositoryIs
<1>4. switchRepository.local[branch] # {}
  BY <1>1, SwitchInputs DEF SwitchHasHead
<1>5. SwitchHasHead(switchRepository') /\ SwitchFollows(switchRepository')
  BY <1>1, <1>2, <1>3, <1>4, SwitchInputs DEF SwitchHasHead, SwitchFollows
<1>6. SwitchIsCurrent'
  BY <1>2, <1>3 DEF SwitchIsCurrent
<1>7. QED BY <1>1, <1>2, <1>3, <1>5, <1>6

\* git pull, or a warning
LEMMA SwitchPullStep ==
    ASSUME SwitchIInv, SwitchPull
    PROVE  SwitchIInv'
<1> DEFINE branch == switchRun.branch
<1>1. /\ switchAt = "pull" /\ SwitchWithin /\ SwitchTypedOK /\ UNCHANGED switchEnvironment
      /\ switchAt' = SwitchAfterChange /\ switchStep.kind \in {"sync", "restore"}
      /\ switchRepository.head.branch = branch
      /\ \/ /\ SwitchCanPull(branch) /\ UNCHANGED switchRun
            /\ switchRepository' = SwitchPulled(switchRepository, branch)
         \/ /\ switchRun' = [switchRun EXCEPT !.warned = TRUE]
            /\ UNCHANGED switchRepository
  BY DEF SwitchPull, SwitchIInv, SwitchPlacesOK, SwitchReturnOK
<1>2. switchRun \in SwitchRunType /\ branch \in SwitchBranches
  BY <1>1, SwitchBranchThere DEF SwitchTypedOK, SwitchIdle, SwitchEnding
<1>3. /\ switchRun' \in SwitchRunType /\ switchRun'.error = switchRun.error
      /\ switchRun'.unpopped = switchRun.unpopped
      /\ switchRun'.branch = branch /\ switchRun'.pushed = switchRun.pushed
  BY <1>1, <1>2 DEF SwitchRunType
<1>4. /\ switchRepository' \in SwitchRepositoryType
      /\ switchRepository'.tree = switchRepository.tree
      /\ switchRepository'.stash = switchRepository.stash
      /\ switchRepository'.head = switchRepository.head
      /\ SwitchHasHead(switchRepository') /\ SwitchFollows(switchRepository')
      /\ SwitchIsCurrent' \/ switchRun'.warned
  BY <1>1, <1>2, SwitchPulls DEF SwitchTypedOK, SwitchRunType
<1>5. /\ switchAt' \in {"tracking", "pop"}
      /\ switchAt' = "tracking" <=> switchStep.kind = "sync"
  BY <1>1, SwitchChangeEnds
<1>6. SwitchTypedOK' /\ SwitchValuesOK' /\ SwitchStashOK' /\ switchStep' = switchStep
  BY <1>1, <1>3, <1>4, <1>5, SwitchGoesOn DEF SwitchIdle, SwitchEnding, SwitchPCs
<1>7. SwitchPlacesOK'
  BY <1>1, <1>3, <1>5, <1>6 DEF SwitchIInv, SwitchPlacesOK, SwitchIdle, SwitchEnding, switchEnvironment
<1>8. SwitchReturnOK'
  BY <1>1, <1>4, <1>5, <1>6 DEF SwitchIInv, SwitchPlacesOK, SwitchIdle, SwitchEnding, SwitchReturnOK,
    switchEnvironment
<1>9. SwitchCurrentOK'
  BY <1>1, <1>3, <1>4, <1>5, <1>6 DEF SwitchCurrentOK, SwitchEnding
<1>10. QED BY <1>6, <1>7, <1>8, <1>9 DEF SwitchIInv

\* git checkout of a captured commit
LEMMA SwitchCheckoutStep ==
    ASSUME SwitchIInv, SwitchCheckout
    PROVE  SwitchIInv'
<1>0. CASE SwitchFails
  BY <1>0, SwitchFailsStep DEF SwitchCheckout, SwitchIdle, SwitchEnding
<1> DEFINE head == [branch |-> SwitchNobody, at |-> switchVariable.at]
<1>1. CASE /\ switchRepository' = [switchRepository EXCEPT !.head = head]
           /\ switchAt' = "pop" /\ UNCHANGED <<switchRun, switchEnvironment>>
  <2>1. /\ switchAt = "checkout" /\ switchAt' = "pop" /\ SwitchWithin /\ SwitchTypedOK
        /\ UNCHANGED switchRun /\ UNCHANGED switchEnvironment
        /\ switchStep.kind = "restore" /\ switchVariable.kind = "commit"
        /\ switchVariable.at # {} /\ switchVariable.at \subseteq SwitchCommits
    BY <1>1 DEF SwitchCheckout, SwitchIInv, SwitchPlacesOK, SwitchValuesOK, SwitchValueOK, SwitchValueType
  <2>2. /\ head \in [branch: SwitchBranches \cup {SwitchNobody}, at: SUBSET SwitchCommits]
        /\ head.branch = SwitchNobody /\ head.at # {}
    BY <2>1
  <2>3. /\ switchRepository' \in SwitchRepositoryType /\ switchRepository'.head = head
        /\ switchRepository'.local = switchRepository.local
        /\ switchRepository'.upstream = switchRepository.upstream
        /\ switchRepository'.remotes = switchRepository.remotes
        /\ switchRepository'.tree = switchRepository.tree
        /\ switchRepository'.stash = switchRepository.stash
        /\ switchRun' \in SwitchRunType
    <3> HIDE DEF head
    <3>1. QED BY <1>1, <2>1, <2>2 DEF SwitchTypedOK, SwitchRepositoryType
  <2>4. SwitchHasHead(switchRepository') /\ SwitchFollows(switchRepository')
    BY <2>1, <2>2, <2>3 DEF SwitchTypedOK, SwitchHasHead, SwitchFollows
  <2>5. SwitchTypedOK' /\ SwitchValuesOK' /\ SwitchStashOK' /\ switchStep' = switchStep
    BY <2>1, <2>3, <2>4, SwitchGoesOn DEF SwitchIdle, SwitchEnding, SwitchPCs
  <2>6. SwitchPlacesOK'
    BY <2>1, <2>5 DEF SwitchPlacesOK, SwitchIdle, SwitchEnding
  <2>7. SwitchReturnOK'
    BY <2>1, <2>3 DEF SwitchReturnOK, SwitchEnding, switchEnvironment
  <2>8. SwitchCurrentOK'
    BY <2>1, <2>5 DEF SwitchCurrentOK, SwitchEnding
  <2>9. QED BY <2>5, <2>6, <2>7, <2>8 DEF SwitchIInv
<1>2. QED BY <1>0, <1>1 DEF SwitchCheckout

----------------------------------------
\* ensureTrackingRemote and Service.Refresh

\* The tracking reference is checked and set.
LEMMA SwitchTrackStep ==
    ASSUME SwitchIInv, SwitchTrack
    PROVE  SwitchIInv'
<1>0. CASE SwitchFails
  BY <1>0, SwitchFailsStep DEF SwitchTrack, SwitchIdle, SwitchEnding
<1> DEFINE branch == switchRun.branch
           upstream == [switchRepository.upstream EXCEPT ![branch] = switchRun.remote]
           tracked == switchRepository.upstream[branch] # SwitchNobody
           offered == switchRun.requested /\ switchRun.remote \in SwitchKnowing(branch)
<1>1. /\ switchAt = "tracking" /\ SwitchWithin /\ SwitchTypedOK
      /\ switchStep.kind = "sync" /\ switchRepository.head.branch = branch
      /\ switchRepository \in SwitchRepositoryType /\ switchRun \in SwitchRunType
      /\ SwitchHasHead(switchRepository) /\ SwitchFollows(switchRepository)
      /\ ~switchRun.warned => SwitchIsCurrent
  BY DEF SwitchTrack, SwitchIInv, SwitchPlacesOK, SwitchCurrentOK, SwitchTypedOK
<1>2. branch \in SwitchBranches
  BY <1>1, SwitchBranchThere DEF SwitchIdle, SwitchEnding
<1>3. CASE /\ offered
           /\ switchRepository' = [switchRepository EXCEPT !.upstream[branch] = switchRun.remote]
           /\ switchAt' = "clean" /\ UNCHANGED <<switchRun, switchEnvironment>>
  <2>1. /\ switchRun.remote \in SwitchRemotes /\ switchRun.remote \in switchRepository.remotes
    BY <1>1, <1>3, SwitchRepositoryIs DEF SwitchKnowing
  <2>2. /\ upstream \in [SwitchBranches -> SwitchRemotes \cup {SwitchNobody}]
        /\ upstream[branch] = switchRun.remote
        /\ \A b \in SwitchBranches : b # branch => upstream[b] = switchRepository.upstream[b]
    BY <1>1, <1>2, <2>1, SwitchRepositoryIs
  <2>3. switchRepository' = [switchRepository EXCEPT !.upstream = upstream]
    BY <1>1, <1>3 DEF SwitchRepositoryType
  <2> HIDE DEF upstream
  <2>4. /\ switchRepository' \in SwitchRepositoryType
        /\ switchRepository'.head = switchRepository.head
        /\ switchRepository'.local = switchRepository.local
        /\ switchRepository'.upstream = upstream
        /\ switchRepository'.remotes = switchRepository.remotes
        /\ switchRepository'.tree = switchRepository.tree
        /\ switchRepository'.stash = switchRepository.stash
    BY <1>1, <2>2, <2>3 DEF SwitchRepositoryType
  <2>5. SwitchHasHead(switchRepository') /\ SwitchFollows(switchRepository')
    BY <1>1, <1>2, <2>1, <2>2, <2>4, SwitchInputs DEF SwitchHasHead, SwitchFollows
  <2>6. SwitchTypedOK' /\ SwitchValuesOK' /\ SwitchStashOK' /\ switchStep' = switchStep
    BY <1>1, <1>3, <2>4, <2>5, SwitchGoesOn DEF SwitchIdle, SwitchEnding, SwitchPCs
  <2>7. SwitchPlacesOK'
    BY <1>1, <1>3, <2>6 DEF SwitchIInv, SwitchPlacesOK, SwitchIdle, SwitchEnding
  <2>8. SwitchReturnOK' /\ SwitchCurrentOK'
    BY <1>1, <1>3, <2>4 DEF SwitchReturnOK, SwitchCurrentOK, SwitchEnding
  <2>9. QED BY <2>6, <2>7, <2>8 DEF SwitchIInv
<1>4. CASE /\ switchRun' = [switchRun EXCEPT !.refresh = @ /\ tracked,
                                             !.warned = @ \/ (switchRun.refresh /\ ~tracked)]
           /\ switchAt' = (IF switchRun.refresh /\ tracked THEN "clean" ELSE "pop")
           /\ UNCHANGED <<switchRepository, switchEnvironment>>
  <2>1. /\ switchRun' \in SwitchRunType /\ switchRun'.error = switchRun.error
        /\ switchRun'.unpopped = switchRun.unpopped
        /\ switchRun'.branch = branch /\ switchRun'.pushed = switchRun.pushed
        /\ switchRun.warned => switchRun'.warned
    <3>1. \A refresh, warned \in BOOLEAN : \A run :
            run = [switchRun EXCEPT !.refresh = refresh, !.warned = warned] =>
              /\ run \in SwitchRunType /\ run.error = switchRun.error
              /\ run.unpopped = switchRun.unpopped /\ run.warned = warned
              /\ run.branch = switchRun.branch /\ run.pushed = switchRun.pushed
      BY <1>1 DEF SwitchRunType
    <3> DEFINE refresh == switchRun.refresh /\ tracked
               warned == switchRun.warned \/ (switchRun.refresh /\ ~tracked)
    <3>2. /\ switchRun' = [switchRun EXCEPT !.refresh = refresh, !.warned = warned]
          /\ refresh \in BOOLEAN /\ warned \in BOOLEAN
      BY <1>1, <1>4 DEF SwitchRunType
    <3>3. switchRun.warned => warned
      OBVIOUS
    <3> HIDE DEF refresh, warned
    <3>4. QED BY <3>1, <3>2, <3>3
  <2>2. switchAt' \in {"clean", "pop"} /\ UNCHANGED switchRepository /\ UNCHANGED switchEnvironment
    BY <1>4
  <2>3. SwitchTypedOK' /\ SwitchValuesOK' /\ SwitchStashOK' /\ switchStep' = switchStep
    BY <1>1, <2>1, <2>2, SwitchGoesOn DEF SwitchIdle, SwitchEnding, SwitchPCs
  <2>4. SwitchPlacesOK'
    BY <1>1, <2>1, <2>2, <2>3 DEF SwitchIInv, SwitchPlacesOK, SwitchIdle, SwitchEnding
  <2>5. SwitchReturnOK'
    BY <1>1, <2>2, <2>3 DEF SwitchReturnOK, SwitchEnding
  <2>6. SwitchCurrentOK'
    BY <1>1, <2>1, <2>2, <2>3 DEF SwitchCurrentOK, SwitchEnding, SwitchIsCurrent
  <2>7. QED BY <2>3, <2>4, <2>5, <2>6 DEF SwitchIInv
<1>5. QED BY <1>0, <1>3, <1>4 DEF SwitchTrack

\* Where a refresh is
LEMMA SwitchRefreshes ==
    ASSUME SwitchIInv,
           switchAt \in {"clean", "recheck", "fetchAgain", "checkoutAgain", "pullAgain"}
    PROVE  /\ SwitchTypedOK /\ switchStep.kind \in {"sync", "refresh"}
           /\ switchRepository \in SwitchRepositoryType /\ switchRun \in SwitchRunType
           /\ SwitchHasHead(switchRepository) /\ SwitchFollows(switchRepository)
           /\ switchRun.branch \in SwitchBranches
           /\ switchStep.kind = "sync" => switchRepository.head.branch = switchRun.branch
BY SwitchBranchThere DEF SwitchIInv, SwitchPlacesOK, SwitchCurrentOK, SwitchIdle, SwitchEnding, SwitchTypedOK

\* A refresh wants a clean worktree, or stashes or commits what is there.
LEMMA SwitchRefreshCleanStep ==
    ASSUME SwitchIInv, SwitchRefreshClean
    PROVE  SwitchIInv'
<1>0. CASE SwitchFails
  BY <1>0, SwitchFailsStep DEF SwitchRefreshClean, SwitchIdle, SwitchEnding
<1> DEFINE dirty == switchRepository.tree.tracked # {}
           branch == switchRepository.head.branch
<1>1. /\ switchAt = "clean" /\ SwitchWithin
  BY DEF SwitchRefreshClean
<1>2. /\ SwitchTypedOK /\ switchStep.kind \in {"sync", "refresh"}
      /\ switchRepository \in SwitchRepositoryType /\ switchRun \in SwitchRunType
      /\ SwitchHasHead(switchRepository) /\ SwitchFollows(switchRepository)
      /\ switchRun.branch \in SwitchBranches
      /\ switchStep.kind = "sync" => switchRepository.head.branch = switchRun.branch
  BY <1>1, SwitchRefreshes
<1>3. CASE /\ switchAt' = "fetchAgain"
           /\ UNCHANGED <<switchRun, switchRepository, switchEnvironment>>
  BY <1>1, <1>2, <1>3, SwitchGoesOn DEF SwitchIdle, SwitchEnding, SwitchPCs, SwitchIInv, SwitchPlacesOK,
    SwitchReturnOK, SwitchCurrentOK
<1>4. CASE /\ dirty /\ \/ /\ switchStep.stash
                          /\ switchRepository' = SwitchStashed(switchRepository, TRUE)
                       \/ /\ ~switchStep.stash /\ switchStep.commit /\ branch # SwitchNobody
                          /\ switchRepository' = [switchRepository EXCEPT
                               !.local[branch] = @ \cup switchRepository.tree.tracked
                                                   \cup switchRepository.tree.untracked,
                               !.tree = [tracked |-> {}, untracked |-> {}]]
           /\ switchAt' = "recheck" /\ UNCHANGED <<switchRun, switchEnvironment>>
  <2>1. /\ switchRepository' \in SwitchRepositoryType
        /\ switchRepository'.head = switchRepository.head
        /\ switchRepository'.upstream = switchRepository.upstream
        /\ switchRepository'.remotes = switchRepository.remotes
        /\ \A b \in SwitchBranches : switchRepository.local[b] \subseteq switchRepository'.local[b]
        /\ ~switchStep.stash =>
             /\ switchStep.commit
             /\ switchRepository'.stash = switchRepository.stash
             /\ switchRepository'.tree = [tracked |-> {}, untracked |-> {}]
             /\ branch \in SwitchBranches
             /\ switchRepository.tree.tracked \subseteq switchRepository'.local[branch]
    <3>1. CASE switchStep.stash /\ switchRepository' = SwitchStashed(switchRepository, TRUE)
      BY <1>2, <3>1, SwitchStashedIs
    <3>2. CASE /\ switchStep.commit /\ branch # SwitchNobody
               /\ switchRepository' = [switchRepository EXCEPT
                     !.local[branch] = @ \cup switchRepository.tree.tracked
                                         \cup switchRepository.tree.untracked,
                     !.tree = [tracked |-> {}, untracked |-> {}]]
      <4> DEFINE local == [switchRepository.local EXCEPT
                             ![branch] = @ \cup switchRepository.tree.tracked
                                           \cup switchRepository.tree.untracked]
                 tree == [tracked |-> {}, untracked |-> {}]
      <4>1. branch \in SwitchBranches /\ switchRepository.tree \in SwitchTreeType
            /\ switchRepository.local \in [SwitchBranches -> SUBSET SwitchCommits]
        BY <1>2, <3>2, SwitchRepositoryIs
      <4>2. /\ local \in [SwitchBranches -> SUBSET SwitchCommits]
            /\ switchRepository.tree.tracked \subseteq local[branch]
            /\ \A b \in SwitchBranches : switchRepository.local[b] \subseteq local[b]
            /\ tree \in SwitchTreeType
        BY <4>1, SwitchInputs DEF SwitchTreeType
      <4>3. switchRepository' = [switchRepository EXCEPT !.local = local, !.tree = tree]
        BY <1>2, <3>2 DEF SwitchRepositoryType
      <4> HIDE DEF local, tree
      <4>4. /\ switchRepository' \in SwitchRepositoryType
            /\ switchRepository'.head = switchRepository.head
            /\ switchRepository'.upstream = switchRepository.upstream
            /\ switchRepository'.remotes = switchRepository.remotes
            /\ switchRepository'.local = local /\ switchRepository'.tree = tree
            /\ switchRepository'.stash = switchRepository.stash
        BY <1>2, <4>2, <4>3 DEF SwitchRepositoryType
      <4>5. QED BY <3>2, <4>1, <4>2, <4>4 DEF tree
    <3>3. QED BY <1>4, <3>1, <3>2
  <2>2. SwitchHasHead(switchRepository') /\ SwitchFollows(switchRepository')
    BY <1>2, SwitchRepositoryIs, <2>1 DEF SwitchHasHead, SwitchFollows
  <2>3. /\ UNCHANGED <<switchVariable, switchCaptured, switchSteps, switchSeed, switchIndex,
                       switchBegan, switchOutside>>
        /\ SwitchValuesOK /\ SwitchStashOK
    BY <1>1, <1>4 DEF SwitchWithin, switchSettled, switchEnvironment, SwitchIInv
  <2>4. SwitchTypedOK' /\ switchStep' = switchStep
    BY <1>1, <1>2, <1>4, <2>1, <2>2, <2>3, SwitchStaysTyped DEF SwitchIdle, SwitchPCs
  <2>5. SwitchValuesOK'
    BY <2>3, SwitchValuesStay
  <2>6. SwitchStashOK'
    BY <1>4, <1>1, <2>3, <1>2, <2>1, <2>4 DEF SwitchStashIsSettled, SwitchStashOK, SwitchInStash,
      SwitchInCommit, SwitchIdle, SwitchInPlace
  <2>7. SwitchPlacesOK'
    BY <1>1, <1>2, <1>4, <2>4 DEF SwitchIInv, SwitchPlacesOK, SwitchIdle, SwitchEnding
  <2>8. SwitchReturnOK' /\ SwitchCurrentOK'
    BY <1>1, <1>2, <1>4, <2>1, <2>4 DEF SwitchReturnOK, SwitchCurrentOK, SwitchEnding
  <2>9. QED BY <2>4, <2>5, <2>6, <2>7, <2>8 DEF SwitchIInv
<1>5. QED BY <1>0, <1>3, <1>4 DEF SwitchRefreshClean

\* The worktree is checked again.
LEMMA SwitchRefreshRecheckStep ==
    ASSUME SwitchIInv, SwitchRefreshRecheck
    PROVE  SwitchIInv'
BY SwitchFailsStep, SwitchRefreshes, SwitchGoesOn DEF SwitchRefreshRecheck, SwitchIdle, SwitchEnding, SwitchPCs,
  SwitchIInv, SwitchPlacesOK, SwitchReturnOK, SwitchCurrentOK

\* A refresh fetches.
LEMMA SwitchRefreshFetchStep ==
    ASSUME SwitchIInv, SwitchRefreshFetch
    PROVE  SwitchIInv'
<1>0. CASE SwitchFails
  BY <1>0, SwitchFailsStep DEF SwitchRefreshFetch, SwitchIdle, SwitchEnding
<1>1. /\ switchAt = "fetchAgain" /\ SwitchWithin
  BY DEF SwitchRefreshFetch
<1>2. /\ SwitchTypedOK /\ switchStep.kind \in {"sync", "refresh"}
      /\ switchRepository \in SwitchRepositoryType /\ switchRun \in SwitchRunType
      /\ SwitchHasHead(switchRepository) /\ SwitchFollows(switchRepository)
      /\ switchStep.kind = "sync" => switchRepository.head.branch = switchRun.branch
  BY <1>1, SwitchRefreshes
<1>3. CASE \E r \in SwitchRemotes :
             /\ switchRepository' = SwitchFetched(switchRepository, {r})
             /\ switchAt' = "checkoutAgain" /\ UNCHANGED <<switchRun, switchEnvironment>>
  <2>1. PICK r \in SwitchRemotes :
             /\ switchRepository' = SwitchFetched(switchRepository, {r})
             /\ switchAt' = "checkoutAgain" /\ UNCHANGED <<switchRun, switchEnvironment>>
    BY <1>3
  <2>2. /\ switchRepository' \in SwitchRepositoryType
        /\ switchRepository'.head = switchRepository.head
        /\ switchRepository'.local = switchRepository.local
        /\ switchRepository'.upstream = switchRepository.upstream
        /\ switchRepository'.remotes = switchRepository.remotes
        /\ switchRepository'.tree = switchRepository.tree
        /\ switchRepository'.stash = switchRepository.stash
    BY <1>2, <2>1, SwitchFetchedIs
  <2>3. SwitchHasHead(switchRepository') /\ SwitchFollows(switchRepository')
    BY <1>2, <2>2 DEF SwitchHasHead, SwitchFollows
  <2>4. SwitchTypedOK' /\ SwitchValuesOK' /\ SwitchStashOK' /\ switchStep' = switchStep
    BY <1>1, <1>2, <2>1, <2>2, <2>3, SwitchGoesOn DEF SwitchIdle, SwitchEnding, SwitchPCs
  <2>5. SwitchPlacesOK'
    BY <1>1, <1>2, <2>1, <2>4 DEF SwitchIInv, SwitchPlacesOK, SwitchIdle, SwitchEnding
  <2>6. SwitchReturnOK' /\ SwitchCurrentOK'
    BY <1>1, <1>2, <2>1, <2>2, <2>4 DEF SwitchReturnOK, SwitchCurrentOK, SwitchEnding
  <2>7. QED BY <2>4, <2>5, <2>6 DEF SwitchIInv
<1>4. QED BY <1>0, <1>3 DEF SwitchRefreshFetch

\* A refresh checks the branch out.
LEMMA SwitchRefreshCheckoutStep ==
    ASSUME SwitchIInv, SwitchRefreshCheckout
    PROVE  SwitchIInv'
<1>0. CASE SwitchFails
  BY <1>0, SwitchFailsStep DEF SwitchRefreshCheckout, SwitchIdle, SwitchEnding
<1> DEFINE branch == switchRun.branch
<1>1. /\ switchAt = "checkoutAgain" /\ SwitchWithin
  BY DEF SwitchRefreshCheckout
<1>2. /\ SwitchTypedOK /\ switchStep.kind \in {"sync", "refresh"}
      /\ switchRepository \in SwitchRepositoryType /\ switchRun \in SwitchRunType
      /\ SwitchHasHead(switchRepository) /\ SwitchFollows(switchRepository)
      /\ branch \in SwitchBranches
  BY <1>1, SwitchRefreshes
<1>3. CASE ~SwitchFails
  <2>1. /\ switchAt' = "pullAgain" /\ UNCHANGED switchRun /\ UNCHANGED switchEnvironment
        /\ \/ /\ switchRepository.local[branch] # {}
              /\ switchRepository' = [switchRepository EXCEPT !.head = SwitchBranchHead(branch)]
           \/ /\ switchRepository.local[branch] = {}
              /\ \E r \in SwitchKnowing(branch) :
                   switchRepository' = SwitchTracking(switchRepository, branch, r)
    BY <1>3 DEF SwitchRefreshCheckout, SwitchAbsent
  <2>2. /\ switchRepository' \in SwitchRepositoryType
        /\ switchRepository'.tree = switchRepository.tree
        /\ switchRepository'.stash = switchRepository.stash
        /\ switchRepository'.head.branch = branch
        /\ SwitchHasHead(switchRepository') /\ SwitchFollows(switchRepository')
        /\ switchRepository.local[branch] \subseteq switchRepository'.local[branch]
    BY <1>2, SwitchGoesTo, <2>1, SwitchTracks
  <2>3. SwitchTypedOK' /\ SwitchValuesOK' /\ SwitchStashOK' /\ switchStep' = switchStep
    BY <1>1, <1>2, <2>1, <2>2, SwitchGoesOn DEF SwitchIdle, SwitchEnding, SwitchPCs
  <2>4. SwitchPlacesOK'
    BY <1>1, <1>2, <2>1, <2>3 DEF SwitchIInv, SwitchPlacesOK, SwitchIdle, SwitchEnding
  <2>5. SwitchReturnOK' /\ SwitchCurrentOK'
    BY <1>1, <1>2, <2>1, <2>2, <2>3 DEF SwitchReturnOK, SwitchCurrentOK, SwitchEnding
  <2>6. QED BY <2>3, <2>4, <2>5 DEF SwitchIInv
<1>4. QED BY <1>0, <1>3

\* A refresh pulls.
LEMMA SwitchRefreshPullStep ==
    ASSUME SwitchIInv, SwitchRefreshPull
    PROVE  SwitchIInv'
<1>0. CASE SwitchFails
  BY <1>0, SwitchFailsStep DEF SwitchRefreshPull, SwitchIdle, SwitchEnding
<1> DEFINE branch == switchRun.branch
<1>1. /\ switchAt = "pullAgain" /\ SwitchWithin
  BY DEF SwitchRefreshPull
<1>2. /\ SwitchTypedOK /\ switchStep.kind \in {"sync", "refresh"}
      /\ switchRepository \in SwitchRepositoryType /\ switchRun \in SwitchRunType
      /\ branch \in SwitchBranches /\ switchRepository.head.branch = branch
  BY <1>1, SwitchRefreshes DEF SwitchIInv, SwitchCurrentOK
<1>3. CASE /\ SwitchCanPull(branch)
           /\ switchRepository' = SwitchPulled(switchRepository, branch)
           /\ switchAt' = "pop" /\ UNCHANGED <<switchRun, switchEnvironment>>
  BY <1>2, <1>3, SwitchPulls, <1>1, SwitchGoesOn DEF SwitchIdle, SwitchEnding, SwitchPCs, SwitchIInv,
    SwitchPlacesOK, SwitchReturnOK, SwitchCurrentOK
<1>4. QED BY <1>0, <1>3 DEF SwitchRefreshPull

----------------------------------------
\* The deferred restoration

\* The newest entry of a stash list is the one that was pushed.
LEMMA SwitchPushedOn ==
    ASSUME SwitchTypedOK
    PROVE  LET stash == <<SwitchSaved>> \o switchBegan.stash
           IN stash # <<>> /\ Head(stash) = SwitchSaved /\ Tail(stash) = switchBegan.stash
<1>1. /\ switchBegan.stash \in Seq(SwitchTreeType) /\ SwitchSaved \in SwitchTreeType
  BY SwitchRepositoryIs DEF SwitchTypedOK, SwitchSaved, SwitchTreeType
<1>2. <<SwitchSaved>> \in Seq(SwitchTreeType) /\ Len(<<SwitchSaved>>) = 1
      /\ <<SwitchSaved>>[1] = SwitchSaved
  BY <1>1
<1> DEFINE stash == <<SwitchSaved>> \o switchBegan.stash
<1>3. /\ stash \in Seq(SwitchTreeType) /\ Len(stash) = 1 + Len(switchBegan.stash)
      /\ stash[1] = SwitchSaved
      /\ \A i \in 1 .. Len(switchBegan.stash) : stash[i + 1] = switchBegan.stash[i]
  BY <1>1, <1>2, ConcatProperties, LenProperties
<1> HIDE DEF stash
<1>4. stash # <<>> /\ Len(switchBegan.stash) \in Nat
  BY <1>1, <1>3, EmptySeq, LenProperties
<1>5. /\ Head(stash) = stash[1] /\ Tail(stash) \in Seq(SwitchTreeType)
      /\ Len(Tail(stash)) = Len(stash) - 1
      /\ \A i \in 1 .. Len(Tail(stash)) : Tail(stash)[i] = stash[i + 1]
  BY <1>3, <1>4, HeadTailProperties
<1>6. Tail(stash) = switchBegan.stash
  BY <1>1, <1>3, <1>4, <1>5, SeqEqual
<1>7. QED BY <1>3, <1>4, <1>5, <1>6 DEF stash

\* What the restoration of the stash leaves of the rest
LEMMA SwitchPopEnds ==
    ASSUME SwitchIInv, switchAt = "pop", switchAt' = "end",
           UNCHANGED <<switchVariable, switchCaptured, switchSteps, switchSeed, switchIndex>>,
           SwitchTypedOK', SwitchStashOK', switchStep' = switchStep,
           switchRun'.branch = switchRun.branch, switchRun.error => switchRun'.error,
           switchRun.warned => switchRun'.warned,
           switchRepository'.head = switchRepository.head,
           switchRepository'.local = switchRepository.local,
           switchRepository'.upstream = switchRepository.upstream,
           switchRepository'.known = switchRepository.known
    PROVE  SwitchIInv'
BY SwitchValuesStay DEF SwitchIInv, SwitchPlacesOK, SwitchIdle, SwitchEnding, SwitchReturnOK, SwitchCurrentOK,
  SwitchIsCurrent

\* git stash pop, or its failure
LEMMA SwitchPopStep ==
    ASSUME SwitchIInv, SwitchPop
    PROVE  SwitchIInv'
<1> DEFINE stash == switchRepository.stash
           tree == [tracked |-> switchRepository.tree.tracked \cup Head(stash).tracked,
                    untracked |-> switchRepository.tree.untracked \cup Head(stash).untracked]
<1>1. /\ switchAt = "pop" /\ switchAt' = "end"
      /\ UNCHANGED <<switchVariable, switchCaptured, switchSteps, switchSeed, switchIndex,
                     switchBegan, switchOutside>>
      /\ SwitchTypedOK /\ SwitchStashOK
      /\ switchRepository \in SwitchRepositoryType /\ switchRun \in SwitchRunType
      /\ SwitchHasHead(switchRepository) /\ SwitchFollows(switchRepository)
  BY DEF SwitchPop, SwitchWithin, switchSettled, switchEnvironment, SwitchIInv, SwitchTypedOK
<1>2. \/ switchRun.pushed = 0 /\ UNCHANGED <<switchRun, switchRepository>>
      \/ /\ switchRun.pushed = 1
         /\ switchRun' = [switchRun EXCEPT !.error = TRUE, !.unpopped = TRUE]
         /\ UNCHANGED switchRepository
      \/ /\ switchRun.pushed = 1 /\ stash # <<>>
         /\ switchRepository' = [switchRepository EXCEPT !.stash = Tail(stash), !.tree = tree]
         /\ UNCHANGED switchRun
  BY <1>1 DEF SwitchRepositoryType, SwitchPop
<1>3. /\ switchRun' \in SwitchRunType /\ switchRun'.branch = switchRun.branch
      /\ switchRun.error => switchRun'.error
      /\ switchRun.warned => switchRun'.warned
  BY <1>1, <1>2 DEF SwitchRunType
<1>4. CASE /\ UNCHANGED switchRepository
           /\ \/ switchRun.pushed = 0
              \/ switchRun' = [switchRun EXCEPT !.error = TRUE, !.unpopped = TRUE]
  <2>1. SwitchTypedOK' /\ switchStep' = switchStep
    BY <1>1, <1>3, <1>4, SwitchStaysTyped DEF SwitchIdle, SwitchPCs
  <2>2. SwitchStashOK'
    <3>1. ASSUME switchStep.kind = "sync", "operator" \notin switchOutside
          PROVE  LET began == switchBegan'
                     now == switchRepository'
                     committed == /\ switchStep'.commit
                                  /\ now.tree = [tracked |-> {}, untracked |-> {}]
                                  /\ began.tree.tracked \subseteq now.local[switchRun'.branch]
                 IN \/ now.stash = began.stash /\ (now.tree = began.tree \/ committed)
                    \/ /\ switchRun'.unpopped /\ switchRun'.error /\ now.stash # <<>>
                       /\ Tail(now.stash) = began.stash
                       /\ Head(now.stash).tracked = began.tree.tracked
      <4>1. SwitchInPlace \/ SwitchInStash \/ SwitchInCommit
        BY <1>1, <3>1 DEF SwitchStashOK, SwitchIdle
      <4>2. CASE SwitchInPlace
        BY <1>1, <1>4, <4>2 DEF SwitchInPlace
      <4>3. CASE SwitchInCommit
        BY <1>1, <1>3, <1>4, <2>1, <4>3 DEF SwitchInCommit
      <4>4. CASE SwitchInStash
        <5>1. /\ switchRun.pushed = 1 /\ stash = <<SwitchSaved>> \o switchBegan.stash
          BY <4>4 DEF SwitchInStash
        <5>2. switchRun'.error /\ switchRun'.unpopped
          <6>1. switchRun' = [switchRun EXCEPT !.error = TRUE, !.unpopped = TRUE]
            BY <1>4, <5>1
          <6>2. \A run : run = [switchRun EXCEPT !.error = TRUE, !.unpopped = TRUE] =>
                  run.error /\ run.unpopped
            BY <1>1 DEF SwitchRunType
          <6>3. QED BY <6>1, <6>2
        <5>3. stash # <<>> /\ Tail(stash) = switchBegan.stash /\ Head(stash) = SwitchSaved
          BY <1>1, <5>1, SwitchPushedOn DEF SwitchTypedOK
        <5>4. QED BY <1>1, <1>4, <5>2, <5>3 DEF SwitchSaved
      <4>5. QED BY <4>1, <4>2, <4>3, <4>4
    <3>2. QED BY <1>1, <2>1, <3>1 DEF SwitchStashOK, SwitchStashIsSettled
  <2>3. QED BY <1>1, <1>3, <1>4, <2>1, <2>2, SwitchPopEnds
<1>5. CASE /\ switchRun.pushed = 1 /\ stash # <<>>
           /\ switchRepository' = [switchRepository EXCEPT !.stash = Tail(stash), !.tree = tree]
           /\ UNCHANGED switchRun
  <2>1. /\ Head(stash) \in SwitchTreeType /\ Tail(stash) \in Seq(SwitchTreeType)
    BY <1>1, <1>5, SwitchRepositoryIs, HeadTailProperties
  <2>2. tree \in SwitchTreeType
    BY <1>1, <2>1, SwitchRepositoryIs DEF SwitchTreeType
  <2>3. /\ switchRepository' \in SwitchRepositoryType
        /\ switchRepository'.head = switchRepository.head
        /\ switchRepository'.local = switchRepository.local
        /\ switchRepository'.upstream = switchRepository.upstream
        /\ switchRepository'.remotes = switchRepository.remotes
        /\ switchRepository'.known = switchRepository.known
        /\ switchRepository'.tree = tree /\ switchRepository'.stash = Tail(stash)
    <3>1. switchRepository' = [remotes |-> switchRepository.remotes,
              head |-> switchRepository.head, local |-> switchRepository.local,
              upstream |-> switchRepository.upstream, known |-> switchRepository.known,
              server |-> switchRepository.server, tree |-> tree, stash |-> Tail(stash)]
      BY <1>1, <1>5, <2>1, <2>2, SwitchStashing
    <3>2. switchRepository' \in SwitchRepositoryType
      BY <1>1, <2>1, <2>2, <3>1, SwitchRepositoryIs, SwitchRepositoryOf
    <3> HIDE DEF tree
    <3>3. QED BY <3>1, <3>2
  <2>4. SwitchHasHead(switchRepository') /\ SwitchFollows(switchRepository')
    BY <1>1, <2>3 DEF SwitchHasHead, SwitchFollows
  <2>5. SwitchTypedOK' /\ switchStep' = switchStep
    BY <1>1, <1>3, <2>3, <2>4, SwitchStaysTyped DEF SwitchIdle, SwitchPCs
  <2>6. SwitchStashOK'
    <3>1. ASSUME switchStep.kind = "sync", "operator" \notin switchOutside
          PROVE  /\ switchRepository'.stash = switchBegan'.stash
                 /\ switchRepository'.tree = switchBegan'.tree
      <4>1. SwitchInStash
        BY <1>1, <1>5, <3>1 DEF SwitchStashOK, SwitchIdle, SwitchInPlace, SwitchInCommit
      <4>2. /\ stash = <<SwitchSaved>> \o switchBegan.stash
            /\ switchRepository.tree
                 = [tracked |-> {}, untracked |-> switchBegan.tree.untracked]
        BY <4>1 DEF SwitchInStash
      <4>3. Tail(stash) = switchBegan.stash /\ Head(stash) = SwitchSaved
        BY <1>1, <4>2, SwitchPushedOn DEF SwitchTypedOK
      <4>4. tree = [tracked |-> switchBegan.tree.tracked,
                    untracked |-> switchBegan.tree.untracked]
        <5>1. /\ switchRepository.tree.tracked \cup SwitchSaved.tracked
                   = switchBegan.tree.tracked
              /\ switchRepository.tree.untracked \cup SwitchSaved.untracked
                   = switchBegan.tree.untracked
          BY <4>2 DEF SwitchSaved
        <5>2. QED BY <4>3, <5>1
      <4>5. switchBegan.tree \in SwitchTreeType
        BY <1>1, SwitchRepositoryIs DEF SwitchTypedOK
      <4>6. tree = switchBegan.tree
        BY <4>4, <4>5 DEF SwitchTreeType
      <4>7. QED BY <1>1, <2>3, <4>3, <4>6
    <3>2. QED BY <1>1, <2>5, <3>1 DEF SwitchStashOK, SwitchStashIsSettled
  <2>7. QED BY <1>1, <1>3, <1>5, <2>3, <2>5, <2>6, SwitchPopEnds
<1>6. QED BY <1>2, <1>4, <1>5

----------------------------------------
\* Others

\* What others do to the working tree and the server
LEMMA SwitchOthersStep ==
    ASSUME SwitchIInv, SwitchRunning,
           UNCHANGED <<switchSettled, switchIndex, switchAt, switchRun, switchBegan,
                       switchEnvironment>>,
           switchRepository' \in SwitchRepositoryType,
           switchRepository'.head = switchRepository.head,
           switchRepository'.local = switchRepository.local,
           switchRepository'.upstream = switchRepository.upstream,
           switchRepository'.known = switchRepository.known,
           switchRepository'.remotes = switchRepository.remotes,
           \/ "operator" \in switchOutside'
           \/ /\ switchOutside \subseteq switchOutside'
              /\ switchRepository'.tree = switchRepository.tree
              /\ switchRepository'.stash = switchRepository.stash
    PROVE  SwitchIInv'
<1>1. /\ UNCHANGED <<switchAt, switchRun, switchBegan, switchVariable, switchCaptured, switchSteps,
                     switchSeed, switchIndex>>
      /\ SwitchTypedOK /\ switchAt \notin {"begin", "end", "done"}
  BY DEF SwitchRunning, switchSettled, switchEnvironment, SwitchIInv
<1>2. SwitchHasHead(switchRepository') /\ SwitchFollows(switchRepository')
  BY <1>1 DEF SwitchTypedOK, SwitchHasHead, SwitchFollows
<1>3. SwitchTypedOK' /\ switchStep' = switchStep
  BY <1>1, <1>2, SwitchStaysTyped DEF SwitchIdle, SwitchTypedOK
<1>4. SwitchValuesOK'
  BY <1>1, SwitchValuesStay DEF SwitchIInv
<1>5. SwitchPlacesOK'
  BY <1>1, <1>3 DEF SwitchIInv, SwitchPlacesOK
<1>6. SwitchStashOK'
  BY <1>1, <1>3 DEF SwitchStashIsSettled, SwitchIInv, SwitchStashOK, SwitchIdle, SwitchInPlace, SwitchInStash,
    SwitchSaved, SwitchInCommit
<1>7. SwitchReturnOK'
  BY <1>1, <1>3 DEF SwitchIInv, SwitchReturnOK
<1>8. SwitchCurrentOK'
  BY <1>1, <1>3 DEF SwitchIInv, SwitchCurrentOK, SwitchIsCurrent
<1>9. QED BY <1>3, <1>4, <1>5, <1>6, <1>7, <1>8 DEF SwitchIInv

\* The operator's working tree
LEMMA SwitchOperatorStep ==
    ASSUME SwitchIInv, NEW tracked \in SUBSET SwitchFiles, SwitchRunning,
           switchRepository' = [switchRepository EXCEPT !.tree.tracked = tracked],
           switchOutside' = switchOutside \cup {"operator"},
           UNCHANGED <<switchSettled, switchIndex, switchAt, switchRun, switchBegan,
                       switchEnvironment>>
    PROVE  SwitchIInv'
<1>1. switchRepository \in SwitchRepositoryType
  BY DEF SwitchIInv, SwitchTypedOK
<1> DEFINE tree == [switchRepository.tree EXCEPT !.tracked = tracked]
<1>2. tree \in SwitchTreeType
  BY <1>1, SwitchRepositoryIs DEF SwitchTreeType
<1>3. switchRepository' = [switchRepository EXCEPT !.tree = tree]
  BY <1>1 DEF SwitchRepositoryType
<1> HIDE DEF tree
<1>4. /\ switchRepository' \in SwitchRepositoryType
      /\ switchRepository'.head = switchRepository.head
      /\ switchRepository'.local = switchRepository.local
      /\ switchRepository'.upstream = switchRepository.upstream
      /\ switchRepository'.known = switchRepository.known
      /\ switchRepository'.remotes = switchRepository.remotes
  BY <1>1, <1>2, <1>3 DEF SwitchRepositoryType
<1>5. "operator" \in switchOutside'
  OBVIOUS
<1>6. QED BY <1>4, <1>5, SwitchOthersStep

\* A colleague pushes.
LEMMA SwitchColleagueStep ==
    ASSUME SwitchIInv, NEW r \in SwitchRemotes, NEW b \in SwitchBranches, NEW c \in SwitchCommits,
           SwitchColleaguePushes(r, b, c)
    PROVE  SwitchIInv'
<1>1. switchRepository \in SwitchRepositoryType
  BY DEF SwitchIInv, SwitchTypedOK
<1> DEFINE server == [switchRepository.server EXCEPT ![r][b] = @ \cup {c}]
<1>2. server \in [SwitchRemotes -> [SwitchBranches -> SUBSET SwitchCommits]]
  BY <1>1, SwitchRepositoryIs
<1>3. switchRepository' = [switchRepository EXCEPT !.server = server]
  BY <1>1 DEF SwitchColleaguePushes, SwitchRepositoryType
<1> HIDE DEF server
<1>4. /\ switchRepository' \in SwitchRepositoryType
      /\ switchRepository'.head = switchRepository.head
      /\ switchRepository'.local = switchRepository.local
      /\ switchRepository'.upstream = switchRepository.upstream
      /\ switchRepository'.known = switchRepository.known
      /\ switchRepository'.remotes = switchRepository.remotes
      /\ switchRepository'.tree = switchRepository.tree
      /\ switchRepository'.stash = switchRepository.stash
  BY <1>1, <1>2, <1>3 DEF SwitchRepositoryType
<1>5. /\ switchOutside \subseteq switchOutside' /\ SwitchRunning
      /\ UNCHANGED <<switchSettled, switchIndex, switchAt, switchRun, switchBegan,
                     switchEnvironment>>
  BY DEF SwitchColleaguePushes
<1>6. QED BY <1>4, <1>5, SwitchOthersStep

----------------------------------------

\* It holds at the start.
LEMMA SwitchInitially ==
    ASSUME SwitchInit PROVE SwitchIInv
<1>1. PICK asked \in SwitchInvocations :
         /\ switchSteps = asked.steps /\ switchSeed = asked.seed
         /\ switchRepository = asked.repository
  BY DEF SwitchInit
<1>2. /\ switchSteps \in Seq(SwitchStepType) /\ switchRepository \in SwitchRepositoryType
      /\ SwitchValueOK(switchSeed)
      /\ SwitchHasHead(switchRepository) /\ SwitchFollows(switchRepository)
  BY <1>1, SwitchInputs
<1>3. /\ switchIndex = 1 /\ switchAt = "begin" /\ switchRun = SwitchFresh
      /\ switchBegan = switchRepository
      /\ switchVariable = switchSeed /\ switchCaptured = SwitchNoValue
  BY DEF SwitchInit
<1>4. SwitchTypedOK
  BY <1>2, <1>3 DEF SwitchFresh, SwitchRunType, SwitchTypedOK, SwitchIdle, SwitchPCs
<1>5. SwitchValuesOK
  BY <1>2, <1>3 DEF SwitchValuesOK, SwitchValueOK, SwitchNoValue, SwitchValueType
<1>6. SwitchPlacesOK
  BY <1>3 DEF SwitchPlacesOK, SwitchIdle, SwitchEnding
<1>7. SwitchStashOK
  BY <1>3 DEF SwitchStashOK, SwitchStashIsSettled, SwitchIdle
<1>8. SwitchReturnOK /\ SwitchCurrentOK
  BY <1>3 DEF SwitchReturnOK, SwitchCurrentOK, SwitchEnding
<1>9. QED BY <1>4, <1>5, <1>6, <1>7, <1>8 DEF SwitchIInv

\* Every step keeps it.
LEMMA SwitchStaysTrue ==
    ASSUME SwitchIInv, SwitchNext PROVE SwitchIInv'
<1>1. ASSUME SwitchRuns PROVE SwitchIInv'
  BY <1>1, SwitchBeginStep, SwitchEndStepStep, SwitchReadStatusStep, SwitchPushStashStep, SwitchCaptureStep,
    SwitchRemotesReadStep, SwitchFetchStep, SwitchTryStep, SwitchCreateStep, SwitchPullStep, SwitchCheckoutStep,
    SwitchTrackStep, SwitchRefreshCleanStep, SwitchRefreshRecheckStep, SwitchRefreshFetchStep,
    SwitchRefreshCheckoutStep, SwitchRefreshPullStep, SwitchPopStep DEF SwitchRuns
<1>2. ASSUME NEW f \in SwitchFiles, SwitchOperatorSaves(f) PROVE SwitchIInv'
  <2>1. switchRepository \in SwitchRepositoryType
    BY DEF SwitchIInv, SwitchTypedOK
  <2>2. switchRepository.tree.tracked \cup {f} \in SUBSET SwitchFiles
    BY <2>1, SwitchRepositoryIs DEF SwitchTreeType
  <2>3. switchRepository'
          = [switchRepository EXCEPT !.tree.tracked = switchRepository.tree.tracked \cup {f}]
    BY <1>2, <2>1 DEF SwitchOperatorSaves, SwitchRepositoryType, SwitchTreeType
  <2>4. QED BY <1>2, <2>2, <2>3, SwitchOperatorStep DEF SwitchOperatorSaves
<1>3. ASSUME SwitchOperatorReverts PROVE SwitchIInv'
  BY <1>3, SwitchOperatorStep DEF SwitchOperatorReverts
<1>4. QED BY <1>1, <1>2, <1>3, SwitchColleagueStep DEF SwitchNext

\* What it says of the steps that ended
LEMMA SwitchKeeps ==
    ASSUME SwitchIInv PROVE SwitchKeepsPromises
BY DEF SwitchIInv, SwitchStashOK, SwitchRestoreReturns, SwitchReturnOK, SwitchEnding, SwitchValuesOK,
  SwitchCurrentOK, SwitchIsCurrent, SwitchQuietMeansCurrent, SwitchKeepsPromises

----------------------------------------
\* WorktreeAdoption: what becomes of the sibling's work

\* The sibling stays what the invocation found, but for what others do.
AdoptPlaces ==
    /\ AdoptTypeOK
    /\ adoptAsked \in AdoptInvocations
    /\ adoptSibling.locked = adoptAsked.sibling.locked
    /\ adoptSibling.prunable = adoptAsked.sibling.prunable
    /\ adoptSibling.on => adoptAsked.sibling.on

\* Wherever the command is, the work is in the sibling or committed.
AdoptWorkKept ==
    /\ adoptAsked.branch.local \subseteq adoptBranch.local
    /\ adoptAsked.sibling.work
          \cup (IF "saves" \in adoptOutside THEN {AdoptSaved} ELSE {})
         \subseteq adoptBranch.local \cup adoptBranch.other \cup adoptSibling.work

\* The branch is on the remote, with everything it has here.
AdoptPublished == adoptBranch.known # {} /\ adoptBranch.local \subseteq adoptBranch.known

\* Nobody commits in the sibling or switches it, which publishes first.
AdoptUndisturbed ==
    /\ adoptAsked.publish /\ ~adoptAsked.sibling.prunable
    /\ adoptAsked.sibling.on /\ adoptOutside \cap {"commits", "switches"} = {}

\* The branch is let go only after the release has begun.
AdoptReleaseOK ==
    AdoptUndisturbed =>
        /\ adoptAt \in {"list", "status", "stage", "commit", "compare", "push", "release"} =>
              AdoptHeld
        /\ AdoptHeld \/ AdoptPublished
        /\ adoptAt \in {"release", "prune"} => AdoptPublished
        /\ adoptAt # "pruneStale"

\* The steps that change a sibling come after the one that finds it locked.
AdoptLockedOK ==
    /\ adoptAsked.sibling.locked =>
          /\ adoptAt \in {"change", "list", "again", "done", "refused"}
          /\ adoptSibling.kind = adoptAsked.sibling.kind
          /\ adoptSibling.on <=> adoptAsked.sibling.on /\ "switches" \notin adoptOutside
    /\ ~(adoptCaller /\ AdoptHeld)

\* The inductive invariant of an adoption
AdoptIInv == AdoptPlaces /\ AdoptWorkKept /\ AdoptReleaseOK /\ AdoptLockedOK

\* What an invocation may find
LEMMA AdoptInputs ==
    ASSUME adoptAsked \in AdoptInvocations
    PROVE  /\ adoptAsked.sibling \in AdoptSiblings /\ adoptAsked.branch \in AdoptBranches
           /\ adoptAsked.publish \in BOOLEAN
           /\ adoptAsked.sibling.on =>
                 adoptAsked.sibling.kind # "none" /\ adoptAsked.branch.local # {}
           /\ AdoptSaved \in AdoptFiles /\ AdoptTheirs \in AdoptFiles
BY AdoptAssumption

\* It holds at the start.
LEMMA AdoptInitially == AdoptInit => AdoptIInv
<1>1. SUFFICES ASSUME AdoptInit PROVE AdoptIInv
  OBVIOUS
<1>2. /\ adoptAsked.sibling \in AdoptSiblings /\ adoptAsked.branch \in AdoptBranches
      /\ adoptAsked.sibling.on => adoptAsked.sibling.kind # "none"
  BY <1>1, AdoptInputs DEF AdoptInit
<1>3. AdoptPlaces
  BY <1>1, <1>2 DEF AdoptInit, AdoptPlaces, AdoptTypeOK
<1>4. AdoptWorkKept
  BY <1>1 DEF AdoptInit, AdoptWorkKept
<1>5. AdoptReleaseOK
  BY <1>1, <1>2 DEF AdoptInit, AdoptReleaseOK, AdoptUndisturbed, AdoptHeld
<1>6. AdoptLockedOK
  BY <1>1 DEF AdoptInit, AdoptLockedOK, AdoptSiblings
<1>7. QED BY <1>3, <1>4, <1>5, <1>6 DEF AdoptIInv

\* Steps that only go on to another place.
LEMMA AdoptGoStep ==
    ASSUME AdoptIInv,
           AdoptFails \/ AdoptChangeRefused \/ AdoptList \/ AdoptCompare \/ AdoptPrune
    PROVE  AdoptIInv'
<1> USE DEF AdoptIInv
<1>1. /\ UNCHANGED <<adoptRepository, adoptFrame>>
      /\ \/ adoptAt' = "refused"
         \/ adoptAt = "change" /\ AdoptHeld /\ adoptAt' = "list"
         \/ /\ adoptAt = "list"
            /\ \/ ~AdoptHeld /\ adoptAt' = "again"
               \/ AdoptHeld /\ ~adoptSibling.locked /\ adoptSibling.prunable
                    /\ adoptAt' = "pruneStale"
               \/ AdoptHeld /\ ~adoptSibling.locked /\ adoptAt' = "status"
         \/ adoptAt = "compare" /\ adoptAt' = "push"
         \/ adoptAt = "compare" /\ ~AdoptNeedsPush /\ adoptAt' = "release"
         \/ adoptAt = "prune" /\ adoptAt' = "again"
  BY DEF AdoptFails, AdoptChangeRefused, AdoptList, AdoptCompare, AdoptPrune, AdoptGo
<1>2. UNCHANGED <<adoptSibling, adoptBranch, adoptCaller, adoptAsked, adoptAgain, adoptStatus,
                  adoptOutside>>
  BY <1>1 DEF adoptRepository, adoptFrame
<1>3. AdoptPlaces'
  BY <1>1, <1>2 DEF AdoptPlaces, AdoptTypeOK
<1>4. AdoptWorkKept'
  BY <1>2 DEF AdoptWorkKept
<1>5. adoptAt' = "release" => AdoptPublished
  BY <1>1 DEF AdoptNeedsPush, AdoptPublished
<1>6. AdoptReleaseOK'
  BY <1>2, <1>1, <1>5 DEF AdoptUndisturbed, AdoptHeld, AdoptPublished, AdoptPlaces, AdoptReleaseOK
<1>7. AdoptLockedOK'
  BY <1>2, <1>1 DEF AdoptPlaces, AdoptHeld, AdoptLockedOK
<1>8. QED BY <1>3, <1>4, <1>6, <1>7

\* The status of the sibling is read, and tells whether there is work.
LEMMA AdoptStatusStep ==
    ASSUME AdoptIInv, AdoptReadStatus
    PROVE  AdoptIInv'
BY DEF AdoptIInv, AdoptPlaces, AdoptTypeOK, AdoptBranches, AdoptReadStatus, adoptRepository, AdoptWorkKept,
  AdoptUndisturbed, AdoptHeld, AdoptPublished, AdoptReleaseOK, AdoptLockedOK

\* Staging, committing and pushing leave the sibling where it is.
LEMMA AdoptSaveStep ==
    ASSUME AdoptIInv, AdoptStage \/ AdoptCommit \/ AdoptPush
    PROVE  AdoptIInv'
<1> USE DEF AdoptIInv
<1>1. /\ adoptAt \in {"stage", "commit", "push"}
      /\ UNCHANGED <<adoptCaller, adoptAsked, adoptAgain, adoptStatus, adoptOutside>>
  BY DEF AdoptStage, AdoptCommit, AdoptPush, adoptFrame
<1>2. /\ adoptSibling \in AdoptSiblings /\ adoptBranch \in AdoptBranches
      /\ adoptAsked.publish \in BOOLEAN
  BY AdoptInputs DEF AdoptPlaces, AdoptTypeOK
<1>3. ~adoptAsked.sibling.locked
  BY <1>1 DEF AdoptLockedOK
<1>4. /\ adoptSibling' \in AdoptSiblings
      /\ adoptSibling'.kind = adoptSibling.kind /\ adoptSibling'.on = adoptSibling.on
      /\ adoptSibling'.locked = adoptSibling.locked
      /\ adoptSibling'.prunable = adoptSibling.prunable
  BY <1>2 DEF AdoptStage, AdoptSiblings, AdoptCommit, AdoptPush
<1>5. /\ adoptBranch' \in AdoptBranches
      /\ adoptBranch.local \subseteq adoptBranch'.local
      /\ adoptBranch.local \cup adoptBranch.other \cup adoptSibling.work
            \subseteq adoptBranch'.local \cup adoptBranch'.other \cup adoptSibling'.work
      /\ \/ adoptAt' \in {"commit", "push", "refused"}
         \/ adoptAt' = "release" /\ ~adoptAsked.publish
         \/ adoptAt' = "release" /\ adoptBranch'.known = adoptBranch.local
              /\ adoptBranch'.local = adoptBranch.local
  <2>1. CASE AdoptStage
    BY <1>2, <2>1 DEF AdoptStage, AdoptSiblings
  <2>2. CASE AdoptCommit
    BY <2>2, <1>2 DEF AdoptCommit, AdoptCommitted, AdoptSiblings, AdoptBranches
  <2>3. CASE AdoptPush
    <3>1. PICK told \in BOOLEAN :
        /\ adoptBranch' = [adoptBranch EXCEPT !.server = adoptBranch.local,
                              !.known = IF told THEN adoptBranch.local ELSE @,
                              !.upstream = @ \/ told]
        /\ adoptAt' = IF told THEN "release" ELSE "refused"
      BY <2>3 DEF AdoptPush
    <3>2. adoptSibling' = adoptSibling
      BY <2>3 DEF AdoptPush
    <3>3. adoptBranch' = [local |-> adoptBranch.local,
                          known |-> IF told THEN adoptBranch.local ELSE adoptBranch.known,
                          server |-> adoptBranch.local,
                          upstream |-> adoptBranch.upstream \/ told, other |-> adoptBranch.other]
      BY <1>2, <3>1 DEF AdoptBranches
    <3>4. adoptBranch' \in AdoptBranches
      BY <1>2, <3>3 DEF AdoptBranches
    <3>5. QED BY <3>1, <3>2, <3>3, <3>4
  <2>4. QED BY <2>1, <2>2, <2>3
<1>6. AdoptPlaces'
  BY <1>1, <1>4, <1>5 DEF AdoptPlaces, AdoptTypeOK
<1>7. AdoptWorkKept'
  BY <1>1, <1>5 DEF AdoptWorkKept
<1>8. AdoptReleaseOK'
  BY <1>1, <1>4, AdoptInputs, <1>5 DEF AdoptUndisturbed, AdoptHeld, AdoptReleaseOK, AdoptWorkKept, AdoptPlaces,
    AdoptPublished
<1>9. AdoptLockedOK'
  BY <1>1, <1>3, <1>4 DEF AdoptLockedOK, AdoptHeld
<1>10. QED BY <1>6, <1>7, <1>8, <1>9

\* The steps that let the branch go.
LEMMA AdoptReleaseStep ==
    ASSUME AdoptIInv, AdoptDetach \/ AdoptRemove \/ AdoptPruneStale
    PROVE  AdoptIInv'
<1> USE DEF AdoptIInv
<1>1. /\ adoptAt \in {"release", "pruneStale"} /\ adoptAt' \in {"again", "prune"}
      /\ UNCHANGED <<adoptBranch, adoptCaller, adoptAsked, adoptAgain, adoptStatus, adoptOutside>>
  BY DEF AdoptDetach, AdoptRemove, AdoptPruneStale, adoptFrame
<1>2. adoptSibling \in AdoptSiblings
  BY DEF AdoptPlaces, AdoptTypeOK
<1>3. /\ adoptSibling' \in AdoptSiblings /\ adoptSibling'.work = adoptSibling.work
      /\ adoptSibling'.locked = adoptSibling.locked
      /\ adoptSibling'.prunable = adoptSibling.prunable
      /\ adoptSibling'.on => adoptSibling.on /\ adoptSibling'.kind = adoptSibling.kind
  BY <1>2 DEF AdoptDetach, AdoptRemove, AdoptPruneStale, AdoptSiblings
<1>4. ~adoptAsked.sibling.locked
  BY <1>1 DEF AdoptLockedOK
<1>5. AdoptPlaces' /\ AdoptWorkKept'
  BY <1>1, <1>3 DEF AdoptPlaces, AdoptTypeOK, AdoptWorkKept
<1>6. AdoptReleaseOK'
  BY <1>1 DEF AdoptUndisturbed, AdoptPublished, AdoptReleaseOK
<1>7. AdoptLockedOK'
  BY <1>1, <1>3, <1>4 DEF AdoptLockedOK, AdoptHeld
<1>8. QED BY <1>5, <1>6, <1>7

\* git switch in the caller, before and after the release
LEMMA AdoptChangeStep ==
    ASSUME AdoptIInv, AdoptChange \/ AdoptAgain
    PROVE  AdoptIInv'
<1> USE DEF AdoptIInv
<1>1. /\ UNCHANGED <<adoptSibling, adoptAsked, adoptStatus, adoptOutside>>
      /\ adoptAgain' \in {adoptAgain, TRUE}
      /\ \/ /\ adoptAt = "change" /\ adoptAt' = "done" /\ ~AdoptHeld
            /\ adoptCaller' = TRUE /\ adoptBranch' = adoptBranch
         \/ /\ adoptAt = "again" /\ adoptAt' = "change" /\ adoptCaller' = adoptCaller
            /\ adoptBranch' = IF adoptAsked.publish THEN adoptBranch
                              ELSE [adoptBranch EXCEPT !.known = adoptBranch.server]
  BY DEF AdoptChange, AdoptAgain, adoptFrame
<1>2. adoptBranch \in AdoptBranches
  BY DEF AdoptPlaces, AdoptTypeOK
<1>3. /\ adoptBranch' \in AdoptBranches
      /\ adoptBranch'.local = adoptBranch.local /\ adoptBranch'.other = adoptBranch.other
      /\ adoptAsked.publish => adoptBranch' = adoptBranch
  BY <1>1, <1>2 DEF AdoptBranches
<1>4. AdoptPlaces' /\ AdoptWorkKept'
  BY <1>1, <1>3 DEF AdoptPlaces, AdoptTypeOK, AdoptWorkKept
<1>5. AdoptReleaseOK'
  BY <1>1, <1>3 DEF AdoptUndisturbed, AdoptHeld, AdoptPublished, AdoptReleaseOK
<1>6. AdoptLockedOK'
  BY <1>1 DEF AdoptLockedOK, AdoptHeld
<1>7. QED BY <1>4, <1>5, <1>6

\* The operator in the sibling, and a colleague
LEMMA AdoptOthersStep ==
    ASSUME AdoptIInv, AdoptOperatorSaves \/ AdoptOperatorSwitches \/ AdoptOperatorCommits
                        \/ AdoptColleaguePushes
    PROVE  AdoptIInv'
<1> USE DEF AdoptIInv
<1>1. /\ UNCHANGED <<adoptAt, adoptCaller, adoptAsked, adoptAgain, adoptStatus>>
      /\ adoptOutside \subseteq adoptOutside'
      /\ adoptOutside' \subseteq {"saves", "switches", "commits", "pushes"}
      /\ adoptAt # "done"
  BY DEF AdoptOperatorSaves, AdoptOperatorSwitches, AdoptOperatorCommits, AdoptColleaguePushes, AdoptMeanwhile,
    AdoptPlaces, AdoptTypeOK
<1>2. /\ adoptSibling \in AdoptSiblings /\ adoptBranch \in AdoptBranches
      /\ AdoptSaved \in AdoptFiles /\ AdoptTheirs \in AdoptFiles
  BY AdoptInputs DEF AdoptPlaces, AdoptTypeOK
<1>3. /\ adoptSibling' \in AdoptSiblings /\ adoptBranch' \in AdoptBranches
      /\ adoptSibling'.kind = adoptSibling.kind
      /\ adoptSibling'.locked = adoptSibling.locked
      /\ adoptSibling'.prunable = adoptSibling.prunable
      /\ adoptSibling'.on = adoptSibling.on
            \/ ("switches" \in adoptOutside' /\ ~adoptSibling'.on)
      /\ adoptBranch.local \subseteq adoptBranch'.local
      /\ adoptBranch'.known = adoptBranch.known
      /\ adoptBranch'.local = adoptBranch.local \/ "commits" \in adoptOutside'
      /\ ("switches" \in adoptOutside' /\ "switches" \notin adoptOutside) => ~adoptSibling'.on
      /\ adoptBranch.local \cup adoptBranch.other \cup adoptSibling.work
            \subseteq adoptBranch'.local \cup adoptBranch'.other \cup adoptSibling'.work
      /\ ("saves" \in adoptOutside' /\ "saves" \notin adoptOutside) =>
            AdoptSaved \in adoptSibling'.work
  <2>1. CASE AdoptOperatorSaves
    BY <1>2, <2>1 DEF AdoptOperatorSaves, AdoptMeanwhile, AdoptSiblings
  <2>2. CASE AdoptOperatorSwitches
    BY <1>2, <2>2 DEF AdoptOperatorSwitches, AdoptMeanwhile, AdoptSiblings
  <2>3. CASE AdoptOperatorCommits
    BY <2>3, <1>2 DEF AdoptOperatorCommits, AdoptCommitted, AdoptMeanwhile, AdoptSiblings, AdoptBranches
  <2>4. CASE AdoptColleaguePushes
    BY <1>2, <2>4 DEF AdoptColleaguePushes, AdoptMeanwhile, AdoptBranches
  <2>5. QED BY <2>1, <2>2, <2>3, <2>4
<1>4. AdoptPlaces' /\ AdoptWorkKept'
  BY <1>1, <1>3 DEF AdoptPlaces, AdoptTypeOK, AdoptWorkKept
<1>5. AdoptReleaseOK'
  BY <1>1, <1>3 DEF AdoptUndisturbed, AdoptHeld, AdoptPublished, AdoptReleaseOK
<1>6. AdoptLockedOK'
  BY <1>1, <1>3, <1>2 DEF AdoptHeld, AdoptSiblings, AdoptLockedOK
<1>7. QED BY <1>4, <1>5, <1>6

\* Every step keeps it.
LEMMA AdoptStep ==
    ASSUME AdoptIInv, AdoptNext
    PROVE  AdoptIInv'
BY AdoptGoStep, AdoptStatusStep, AdoptSaveStep, AdoptReleaseStep, AdoptChangeStep, AdoptOthersStep DEF
  AdoptNext, AdoptRuns

\* What it says of the work in the sibling
LEMMA AdoptKeeps == AdoptIInv => AdoptionKeepsWork
BY DEF AdoptIInv, AdoptWorkKept, AdoptReleaseOK, AdoptUndisturbed, AdoptLockedOK, AdoptPublished,
  AdoptionKeepsWork, AdoptionLosesNothing, ReleasedMeansPublished, LockedSiblingsStay

----------------------------------------
\* BranchCleanup: the report of a purge of merged branches

\* The places of the listing that name a branch for the first time
CleanupPlaces == CleanupFirst(cleanupAsked.closed)

\* The branches that have been counted
CleanupCounted == {cleanupAsked.closed[i] : i \in CleanupPlaces \ cleanupLeft}

\* The types, and what is left of the places
CleanupTypedOK ==
    /\ cleanupAsked \in CleanupInvocations
    /\ cleanupAt \in {"list", "requests", "branch", "remote", "local", "done", "refused"}
    /\ cleanupRemote \subseteq CleanupBranches /\ cleanupLocal \subseteq CleanupBranches
    /\ cleanupLeft \subseteq CleanupPlaces
    /\ cleanupSummary \in [CleanupKinds -> SUBSET CleanupBranches]

\* Where the loop is, and what is known of the branch at hand.
CleanupLoopOK ==
    /\ cleanupAt \in {"list", "requests"} => cleanupLeft = {} /\ cleanupAllowed = {}
    /\ cleanupAt = "refused" => cleanupAllowed = {}
    /\ cleanupAt \in {"remote", "local"} => cleanupLeft # {} /\ cleanupBranch \in cleanupAllowed
    /\ cleanupAt = "done" => cleanupLeft = {}
    /\ cleanupAt \in {"list", "requests", "branch", "remote"} => ~cleanupFailed
    /\ cleanupAt = "local" /\ ~cleanupFailed /\ cleanupBranch \in cleanupRemote =>
          cleanupBranch \in cleanupRevived

\* What is gone was confirmed, and what was confirmed is counted as such.
CleanupTouchedOK ==
    /\ cleanupAsked.local \ cleanupLocal \subseteq cleanupAllowed
    /\ (cleanupAsked.remote \ cleanupRemote) \ cleanupRevived \subseteq cleanupAllowed
    /\ \A b \in cleanupAllowed :
         \/ b \in cleanupSummary["deleted"] \cup cleanupSummary["failed"]
         \/ cleanupAt \in {"remote", "local"} /\ b = cleanupBranch
    /\ cleanupAllowed \subseteq {cleanupAsked.closed[i] : i \in CleanupPlaces}

\* A branch is counted once, as what became of it.
CleanupSummaryOK ==
    /\ \A kind \in CleanupKinds : cleanupAt \in {"list", "requests", "refused"} =>
          cleanupSummary[kind] = {}
    /\ \A kind \in CleanupKinds : cleanupSummary[kind] \subseteq CleanupCounted
    /\ cleanupAt \in {"branch", "remote", "local", "done"} =>
          \A b \in CleanupCounted : \E kind \in CleanupKinds : b \in cleanupSummary[kind]
    /\ \A j, k \in CleanupKinds : j # k => cleanupSummary[j] \cap cleanupSummary[k] = {}
    /\ cleanupSummary["deleted"] \cap cleanupLocal = {}
    /\ cleanupSummary["deleted"] \cap cleanupRemote \subseteq cleanupRevived

\* The inductive invariant of a purge of merged branches
CleanupIInv == CleanupTypedOK /\ CleanupLoopOK /\ CleanupTouchedOK /\ CleanupSummaryOK

\* The places kept name different branches, and every branch listed.
LEMMA CleanupFirstIs ==
    ASSUME cleanupAsked \in CleanupInvocations
    PROVE  /\ CleanupPlaces \subseteq Nat /\ CleanupPlaces \subseteq DOMAIN cleanupAsked.closed
           /\ \A i, j \in CleanupPlaces :
                cleanupAsked.closed[i] = cleanupAsked.closed[j] => i = j
           /\ {cleanupAsked.closed[i] : i \in CleanupPlaces}
                = {cleanupAsked.closed[i] : i \in
                     {j \in DOMAIN cleanupAsked.closed : j <= CleanupLimit}}
           /\ \A i \in CleanupPlaces : cleanupAsked.closed[i] \in CleanupBranches
<1> DEFINE closed == cleanupAsked.closed
<1>1. closed \in Seq(CleanupBranches) /\ CleanupLimit \in Nat
  BY CleanupAssumption
<1>2. /\ DOMAIN closed = 1 .. Len(closed) /\ Len(closed) \in Nat
      /\ \A i \in DOMAIN closed : closed[i] \in CleanupBranches
  BY <1>1
<1> HIDE DEF closed
<1>3. CleanupPlaces \subseteq Nat /\ CleanupPlaces \subseteq DOMAIN closed
  BY <1>2 DEF CleanupPlaces, CleanupFirst, closed
<1>4. ASSUME NEW i \in CleanupPlaces, NEW j \in CleanupPlaces, closed[i] = closed[j]
      PROVE  i = j
  BY <1>2, <1>3, <1>4 DEF CleanupPlaces, CleanupFirst, closed
<1>5. ASSUME NEW i \in DOMAIN closed, i <= CleanupLimit
      PROVE  \E j \in CleanupPlaces : closed[j] = closed[i]
  <2> DEFINE same == {k \in DOMAIN closed : closed[k] = closed[i]}
             first == Min(same)
  <2>1. same \in SUBSET Nat /\ i \in same
    BY <1>2
  <2>2. first \in same /\ \A k \in same : first <= k
    BY <2>1, LeastIsIn
  <2>3. first \in DOMAIN closed /\ closed[first] = closed[i] /\ first <= i
    BY <2>1, <2>2
  <2>4. first <= CleanupLimit /\ first \in Nat
    BY <1>1, <1>2, <1>5, <2>3
  <2>5. ASSUME NEW k \in 1 .. first - 1 PROVE closed[k] # closed[first]
    <3>1. k \in DOMAIN closed /\ ~(first <= k)
      BY <1>2, <2>3, <2>4
    <3>2. QED BY <2>2, <2>3, <3>1
  <2>6. first \in CleanupPlaces
    BY <2>3, <2>4, <2>5 DEF CleanupPlaces, CleanupFirst, closed
  <2>7. QED BY <2>3, <2>6
<1>6. \A i \in CleanupPlaces : i \in DOMAIN closed /\ i <= CleanupLimit
  BY DEF CleanupPlaces, CleanupFirst, closed
<1>7. {closed[i] : i \in CleanupPlaces}
        = {closed[i] : i \in {j \in DOMAIN closed : j <= CleanupLimit}}
  BY <1>5, <1>6
<1>8. \A i \in CleanupPlaces : closed[i] \in CleanupBranches
  BY <1>2, <1>3
<1>9. \A i, j \in CleanupPlaces : closed[i] = closed[j] => i = j
  BY <1>4
<1>10. QED BY <1>3, <1>7, <1>8, <1>9 DEF closed

\* The branch at hand
LEMMA CleanupBranchIs ==
    ASSUME CleanupTypedOK, cleanupLeft # {}
    PROVE  /\ Min(cleanupLeft) \in cleanupLeft
           /\ cleanupBranch \in CleanupBranches
           /\ cleanupBranch \in {cleanupAsked.closed[i] : i \in CleanupPlaces}
           /\ cleanupBranch \notin CleanupCounted
           /\ {cleanupAsked.closed[i] : i \in
                 CleanupPlaces \ (cleanupLeft \ {Min(cleanupLeft)})}
                = CleanupCounted \cup {cleanupBranch}
<1>1. cleanupAsked \in CleanupInvocations /\ cleanupLeft \subseteq CleanupPlaces
  BY DEF CleanupTypedOK
<1>2. /\ CleanupPlaces \subseteq Nat
      /\ \A i, j \in CleanupPlaces : cleanupAsked.closed[i] = cleanupAsked.closed[j] => i = j
      /\ \A i \in CleanupPlaces : cleanupAsked.closed[i] \in CleanupBranches
  BY <1>1, CleanupFirstIs
<1>3. Min(cleanupLeft) \in cleanupLeft
  BY <1>1, <1>2, LeastIsIn
<1> DEFINE first == Min(cleanupLeft)
           closed == cleanupAsked.closed
<1>4. first \in cleanupLeft /\ cleanupBranch = closed[first]
  BY <1>3 DEF cleanupBranch
<1> HIDE DEF first
<1>5. cleanupBranch \in CleanupBranches /\ cleanupBranch \in {closed[i] : i \in CleanupPlaces}
  BY <1>1, <1>2, <1>4
<1>6. cleanupBranch \notin CleanupCounted
  BY <1>1, <1>2, <1>4 DEF CleanupCounted
<1>7. {closed[i] : i \in CleanupPlaces \ (cleanupLeft \ {first})}
        = CleanupCounted \cup {cleanupBranch}
  BY <1>1, <1>2, <1>4 DEF CleanupCounted
<1>8. QED BY <1>4, <1>5, <1>6, <1>7 DEF first

\* A branch is counted, once.
LEMMA CleanupCountHolds ==
    ASSUME CleanupIInv, NEW kind \in CleanupKinds, CleanupCount(kind),
           cleanupAt \in {"branch", "local"}, cleanupLeft # {},
           UNCHANGED <<cleanupAsked, cleanupRemote, cleanupListed, cleanupAllowed,
                       cleanupRevived>>,
           cleanupLocal' \subseteq cleanupLocal,
           cleanupLocal \subseteq cleanupLocal' \cup {cleanupBranch},
           cleanupBranch \in cleanupLocal \ cleanupLocal' => cleanupBranch \in cleanupAllowed,
           cleanupBranch \in cleanupAllowed => kind \in {"deleted", "failed"},
           kind = "deleted" => /\ cleanupBranch \notin cleanupLocal'
                               /\ cleanupBranch \in cleanupRemote => cleanupBranch \in cleanupRevived
    PROVE  CleanupIInv'
<1>1. /\ cleanupAt' = "branch" /\ cleanupFailed' = FALSE
      /\ cleanupSummary' = [cleanupSummary EXCEPT ![kind] = @ \cup {cleanupBranch}]
      /\ cleanupLeft' = cleanupLeft \ {Min(cleanupLeft)}
      /\ CleanupTypedOK /\ CleanupPlaces' = CleanupPlaces
  BY DEF CleanupCount, CleanupIInv, CleanupPlaces
<1>2. /\ cleanupBranch \in CleanupBranches
      /\ cleanupBranch \notin CleanupCounted
      /\ CleanupCounted' = CleanupCounted \cup {cleanupBranch}
      /\ cleanupBranch \in {cleanupAsked.closed[i] : i \in CleanupPlaces}
  BY <1>1, CleanupBranchIs DEF CleanupCounted
<1>3. /\ cleanupSummary \in [CleanupKinds -> SUBSET CleanupBranches]
      /\ cleanupSummary' \in [CleanupKinds -> SUBSET CleanupBranches]
      /\ cleanupSummary'[kind] = cleanupSummary[kind] \cup {cleanupBranch}
      /\ \A k \in CleanupKinds : k # kind => cleanupSummary'[k] = cleanupSummary[k]
  BY <1>1, <1>2 DEF CleanupTypedOK
<1>4. CleanupTypedOK'
  BY <1>1, <1>3 DEF CleanupTypedOK
<1>5. CleanupLoopOK'
  BY <1>1 DEF CleanupLoopOK
<1>6. CleanupTouchedOK'
  BY <1>3, <1>1 DEF CleanupIInv, CleanupTouchedOK, CleanupKinds
<1>7. CleanupSummaryOK'
  <2>1. \A k \in CleanupKinds : cleanupSummary[k] \subseteq CleanupCounted
    BY DEF CleanupIInv, CleanupSummaryOK
  <2>2. \A k \in CleanupKinds : cleanupSummary'[k] \subseteq CleanupCounted'
    BY <1>2, <1>3, <2>1
  <2>3. ASSUME NEW b \in CleanupCounted' PROVE \E k \in CleanupKinds : b \in cleanupSummary'[k]
    <3>1. CASE b = cleanupBranch
      BY <1>3, <3>1
    <3>2. CASE b # cleanupBranch
      <4>1. PICK k \in CleanupKinds : b \in cleanupSummary[k]
        BY <1>2, <3>2 DEF CleanupIInv, CleanupSummaryOK
      <4>2. QED BY <1>3, <4>1
    <3>3. QED BY <3>1, <3>2
  <2>4. ASSUME NEW j \in CleanupKinds, NEW k \in CleanupKinds, j # k
        PROVE  cleanupSummary'[j] \cap cleanupSummary'[k] = {}
    BY <2>4, <1>2, <2>1, <1>3 DEF CleanupIInv, CleanupSummaryOK
  <2>5. /\ cleanupSummary'["deleted"] \cap cleanupLocal' = {}
        /\ cleanupSummary'["deleted"] \cap cleanupRemote' \subseteq cleanupRevived'
    BY <1>3 DEF CleanupIInv, CleanupSummaryOK, CleanupKinds
  <2>6. QED BY <1>1, <2>2, <2>3, <2>4, <2>5 DEF CleanupSummaryOK
<1>8. QED BY <1>4, <1>5, <1>6, <1>7 DEF CleanupIInv

\* It holds at the start.
LEMMA CleanupInitially ==
    ASSUME CleanupInit PROVE CleanupIInv
BY CleanupAssumption DEF CleanupInit, CleanupTypedOK, CleanupLoopOK, CleanupTouchedOK, CleanupSummaryOK,
  CleanupKinds, CleanupIInv

\* The listings, and the end
LEMMA CleanupListingStep ==
    ASSUME CleanupIInv,
           CleanupListFails \/ CleanupListRemote \/ CleanupListRequests \/ CleanupEnd
    PROVE  CleanupIInv'
BY DEF CleanupListFails, CleanupListRemote, CleanupListRequests, CleanupEnd, cleanupRefs, CleanupPlaces,
  CleanupIInv, CleanupTypedOK, CleanupLoopOK, CleanupTouchedOK, CleanupSummaryOK, CleanupCounted, CleanupKinds

\* While no deletion is under way, what was confirmed has been counted.
LEMMA CleanupAllowedIs ==
    ASSUME CleanupIInv, cleanupAt = "branch", cleanupLeft # {}
    PROVE  cleanupBranch \notin cleanupAllowed
BY CleanupBranchIs DEF CleanupIInv, CleanupTouchedOK, CleanupSummaryOK, CleanupKinds

\* A branch that is neither here nor there
LEMMA CleanupMissingStep ==
    ASSUME CleanupIInv, CleanupMissing
    PROVE  CleanupIInv'
BY CleanupAllowedIs, CleanupCountHolds DEF CleanupMissing, cleanupRefs, CleanupIInv, CleanupKinds

\* The operator is asked, or has said yes to all.
LEMMA CleanupConfirmStep ==
    ASSUME CleanupIInv, CleanupConfirm
    PROVE  CleanupIInv'
<1>1. /\ cleanupAt = "branch" /\ cleanupLeft # {}
      /\ UNCHANGED <<cleanupAsked, cleanupRemote, cleanupLocal, cleanupListed, cleanupRevived>>
      /\ CleanupTypedOK /\ CleanupPlaces' = CleanupPlaces
  BY DEF CleanupConfirm, cleanupRefs, CleanupIInv, CleanupPlaces
<1>2. CASE \E kind \in {"declined", "failed"} : CleanupCount(kind) /\ UNCHANGED cleanupAllowed
  <2>1. PICK kind \in {"declined", "failed"} : CleanupCount(kind) /\ UNCHANGED cleanupAllowed
    BY <1>2
  <2>2. kind \in CleanupKinds /\ cleanupBranch \notin cleanupAllowed
    BY <1>1, <2>1, CleanupAllowedIs DEF CleanupKinds
  <2>3. QED BY <1>1, <2>1, <2>2, CleanupCountHolds
<1>3. CASE /\ cleanupAt' = "remote" /\ cleanupAllowed' = cleanupAllowed \cup {cleanupBranch}
           /\ UNCHANGED <<cleanupLeft, cleanupFailed, cleanupSummary>>
  BY <1>1, <1>3, CleanupBranchIs DEF cleanupBranch, CleanupCounted, CleanupTypedOK, CleanupIInv, CleanupLoopOK,
    CleanupTouchedOK, CleanupSummaryOK
<1>4. QED BY <1>2, <1>3 DEF CleanupConfirm

\* git push --delete, or its failure
LEMMA CleanupDeleteRemoteStep ==
    ASSUME CleanupIInv, CleanupDeleteRemote
    PROVE  CleanupIInv'
BY DEF CleanupDeleteRemote, CleanupPlaces, CleanupCounted, cleanupBranch, CleanupIInv, CleanupLoopOK,
  CleanupTypedOK, CleanupTouchedOK, CleanupSummaryOK

\* git branch -D, or its failure
LEMMA CleanupDeleteLocalStep ==
    ASSUME CleanupIInv, CleanupDeleteLocal
    PROVE  CleanupIInv'
<1> DEFINE kind == IF cleanupFailed THEN "failed" ELSE "deleted"
<1>1. /\ cleanupAt = "local" /\ cleanupLeft # {} /\ cleanupBranch \in cleanupAllowed
      /\ UNCHANGED <<cleanupAsked, cleanupRemote, cleanupListed, cleanupAllowed, cleanupRevived>>
      /\ ~cleanupFailed /\ cleanupBranch \in cleanupRemote => cleanupBranch \in cleanupRevived
  BY DEF CleanupDeleteLocal, CleanupIInv, CleanupLoopOK
<1>2. kind \in CleanupKinds /\ "failed" \in CleanupKinds
      /\ kind \in {"deleted", "failed"} /\ (kind = "deleted" => ~cleanupFailed)
  BY DEF CleanupKinds
<1>3. CASE cleanupLocal' = cleanupLocal \ {cleanupBranch} /\ CleanupCount(kind)
  <2> HIDE DEF kind
  <2>1. QED BY <1>1, <1>2, <1>3, CleanupCountHolds
<1>4. CASE CleanupCount("failed") /\ UNCHANGED cleanupLocal
  BY <1>1, <1>2, <1>4, CleanupCountHolds
<1>5. QED BY <1>3, <1>4 DEF CleanupDeleteLocal

\* A colleague pushes a branch again.
LEMMA CleanupColleagueStep ==
    ASSUME CleanupIInv, NEW b \in CleanupBranches, CleanupColleague(b)
    PROVE  CleanupIInv'
BY DEF CleanupColleague, CleanupPlaces, CleanupCounted, cleanupBranch, CleanupIInv, CleanupTypedOK,
  CleanupLoopOK, CleanupTouchedOK, CleanupSummaryOK

\* Every step keeps it.
LEMMA CleanupStaysTrue ==
    ASSUME CleanupIInv, CleanupNext PROVE CleanupIInv'
BY CleanupListingStep, CleanupMissingStep, CleanupConfirmStep, CleanupDeleteRemoteStep, CleanupDeleteLocalStep,
  CleanupColleagueStep DEF CleanupNext, CleanupRuns

\* What it says of the report
LEMMA CleanupReports ==
    ASSUME CleanupIInv PROVE CleanupReportIsTrue
<1> DEFINE summary == cleanupSummary
           touched == (cleanupAsked.local \ cleanupLocal)
                        \cup ((cleanupAsked.remote \ cleanupRemote) \ cleanupRevived)
<1>1. /\ CleanupTypedOK /\ CleanupLoopOK /\ CleanupTouchedOK /\ CleanupSummaryOK
      /\ cleanupAsked \in CleanupInvocations
  BY DEF CleanupIInv, CleanupTypedOK
<1>2. /\ {cleanupAsked.closed[i] : i \in CleanupPlaces}
           = {cleanupAsked.closed[i] : i \in
                {j \in DOMAIN cleanupAsked.closed : j <= CleanupLimit}}
      /\ CleanupPlaces \subseteq DOMAIN cleanupAsked.closed
  BY <1>1, CleanupFirstIs
<1>3. touched \subseteq cleanupAllowed \cap Range(cleanupAsked.closed)
  BY <1>2, <1>1 DEF Range, CleanupTouchedOK
<1>4. (summary["declined"] \cup summary["missing"]) \cap touched = {}
  BY <1>1, CleanupBranchIs, <1>3 DEF CleanupKinds, CleanupSummaryOK, CleanupLoopOK, CleanupTouchedOK
<1>5. ASSUME cleanupAt = "done"
      PROVE  UNION Range(summary) = {cleanupAsked.closed[i] : i \in
                {j \in DOMAIN cleanupAsked.closed : j <= CleanupLimit}}
  BY <1>1, <1>5, <1>2 DEF CleanupLoopOK, CleanupCounted, Range, CleanupTypedOK, CleanupSummaryOK
<1>6. /\ \A j, k \in CleanupKinds : j # k => summary[j] \cap summary[k] = {}
      /\ summary["deleted"] \cap cleanupLocal = {}
      /\ summary["deleted"] \cap cleanupRemote \subseteq cleanupRevived
  BY <1>1 DEF CleanupSummaryOK
<1>7. QED BY <1>3, <1>4, <1>5, <1>6 DEF CleanupReportIsTrue

----------------------------------------
\* SyncPreflight: what is changed, planned and refused

\* The places of a preflight
PreflightPCs == {"list", "common", "check", "target", "repair", "locate", "inspect",
                 "planned", "refused"}

\* The types of the state
PreflightTypedOK ==
    /\ preflightAsked \in PreflightInvocations /\ preflightAt \in PreflightPCs
    /\ preflightTrees \in [PreflightPaths -> PreflightTree]
    /\ DOMAIN preflightListed \subseteq PreflightPaths
    /\ preflightLeft \subseteq DOMAIN preflightListed
    /\ preflightMark \in 1 .. Len(PreflightMarks) + 1
    /\ preflightFailed \in BOOLEAN

\* A worktree nobody else has worked in is as it was, but for a link mended.
PreflightTreesOK ==
    \A p \in PreflightQuiet :
        \/ preflightTrees[p] = preflightAsked.trees[p]
        \/ /\ preflightAsked.trees[p].link \in {"lost", "missing"}
           /\ preflightTrees[p] = [preflightAsked.trees[p] EXCEPT !.link = "ours"]

\* What was listed is still so.
PreflightListedOK ==
    preflightAt \in {"common", "check", "target", "repair", "locate", "inspect"} =>
        \A p \in PreflightQuiet :
            /\ p \in DOMAIN preflightListed <=> preflightTrees[p].registered
            /\ p \in DOMAIN preflightListed =>
                  /\ preflightListed[p].branch = preflightTrees[p].branch
                  /\ preflightListed[p].prunable = PreflightPrunable(preflightTrees[p])

\* A worktree that was checked is ours, or is to be repaired.
PreflightCheckedOK ==
    /\ preflightAt \in {"list", "common", "locate", "inspect"} => preflightRepair = {}
    /\ preflightAt = "common" => preflightLeft = DOMAIN preflightListed
    /\ preflightAt \in {"check", "target", "repair", "locate", "inspect"} =>
          \A p \in PreflightQuiet \cap DOMAIN preflightListed :
              \/ p \in preflightLeft /\ preflightAt \in {"check", "target"}
              \/ PreflightSkipped(p) \/ preflightTrees[p].link = "ours"
              \/ p \in preflightRepair /\ preflightTrees[p].link = "lost"
    /\ preflightAt = "target" =>
          /\ preflightLeft # {} /\ ~PreflightSkipped(PreflightHere)
          /\ PreflightHere \in PreflightQuiet /\ ~preflightFailed =>
                preflightTrees[PreflightHere].link \notin {"ours", "theirs"}

\* A worktree that was inspected is idle.
PreflightInspectedOK ==
    preflightAt = "inspect" =>
        \A p \in PreflightQuiet \cap DOMAIN preflightListed :
            \/ preflightListed[p].prunable
            \/ /\ p \in preflightLeft
               /\ p = PreflightHere =>
                    \A m \in 1 .. preflightMark - 1 : m <= Len(PreflightMarks) =>
                        PreflightMarks[m] \notin preflightTrees[p].marks \cup preflightTrees[p].odd
            \/ /\ preflightTrees[p].marks \cup preflightTrees[p].odd = {}
               /\ ~preflightTrees[p].unmerged

\* The inductive invariant of a preflight
PreflightIInv ==
    /\ PreflightTypedOK /\ PreflightTreesOK /\ PreflightListedOK /\ PreflightCheckedOK
    /\ PreflightInspectedOK /\ PlansAreForIdleWorktrees /\ RefusalsHaveReasons

----------------------------------------

\* The worktree at hand is one that is left.
LEMMA PreflightHereIs ==
    ASSUME PreflightTypedOK, preflightLeft # {}
    PROVE  PreflightHere \in preflightLeft
BY LeastIsIn, PreflightAssumption DEF PreflightTypedOK, PreflightHere

\* What mending a link keeps
LEMMA PreflightMended ==
    ASSUME NEW tree \in PreflightTree
    PROVE  LET mended == [tree EXCEPT !.link = "ours"]
           IN mended \in PreflightTree /\ mended.link = "ours"
BY DEF PreflightTree, PreflightLinks

\* The caller's link is ours as long as nobody works there.
LEMMA PreflightCallerIsOurs ==
    ASSUME PreflightTypedOK, PreflightTreesOK, preflightAsked.caller \in PreflightQuiet
    PROVE  preflightTrees[preflightAsked.caller].link = "ours"
BY PreflightAssumption DEF PreflightTypedOK, PreflightTreesOK

\* A start has touched nothing.
LEMMA PreflightInitially ==
    ASSUME PreflightInit
    PROVE  PreflightIInv
<1>1. /\ preflightAsked \in PreflightInvocations /\ preflightAt = "list"
      /\ preflightTrees = preflightAsked.trees /\ preflightListed = <<>> /\ preflightLeft = {}
      /\ preflightMark = 1 /\ preflightRepair = {} /\ preflightFailed = FALSE
  BY DEF PreflightInit
<1>2. DOMAIN <<>> = {} /\ Len(PreflightMarks) = 7
  BY EmptySeq DEF PreflightMarks
<1>3. preflightTrees \in [PreflightPaths -> PreflightTree]
  BY <1>1, PreflightAssumption
<1>4. PreflightTypedOK
  <2>1. DOMAIN preflightListed = {} /\ preflightMark \in 1 .. Len(PreflightMarks) + 1
    BY <1>1, <1>2
  <2>2. QED BY <1>1, <1>3, <2>1 DEF PreflightTypedOK, PreflightPCs
<1>5. PreflightTreesOK
  BY <1>1 DEF PreflightTreesOK
<1>6. /\ PreflightListedOK /\ PreflightCheckedOK /\ PreflightInspectedOK
      /\ PlansAreForIdleWorktrees /\ RefusalsHaveReasons
  BY <1>1 DEF PreflightListedOK, PreflightCheckedOK, PreflightInspectedOK, PlansAreForIdleWorktrees,
    RefusalsHaveReasons
<1>7. QED BY <1>4, <1>5, <1>6 DEF PreflightIInv

\* A refusal needs a reason only.
LEMMA PreflightRefuses ==
    ASSUME PreflightIInv, NEW failed \in BOOLEAN, PreflightRefuse(failed),
           preflightFailed \/ failed \/ preflightOutside # {}
              \/ ~preflightTrees[preflightAsked.caller].registered
              \/ \E p \in PreflightPaths : PreflightBusy(preflightTrees[p])
    PROVE  PreflightIInv'
BY DEF PreflightRefuse, PreflightIInv, PreflightTypedOK, PreflightTreesOK, PreflightQuiet, PreflightPCs,
  PreflightListedOK, PreflightCheckedOK, PreflightInspectedOK, PlansAreForIdleWorktrees, RefusalsHaveReasons,
  PreflightBusy, PreflightPrunable

\* A worktree in the way of a sync that nobody else works in
LEMMA PreflightInTheWay ==
    ASSUME PreflightIInv, NEW p \in DOMAIN preflightListed, ~preflightListed[p].prunable,
           preflightAt \in {"common", "check", "target", "repair", "locate", "inspect"},
           \/ preflightTrees[p].link # "ours" \/ preflightTrees[p].unmerged
           \/ preflightTrees[p].marks \cup preflightTrees[p].odd # {}
    PROVE  preflightOutside # {} \/ \E q \in PreflightPaths : PreflightBusy(preflightTrees[q])
BY DEF PreflightIInv, PreflightTypedOK, PreflightQuiet, PreflightListedOK, PreflightBusy

\* A call fails.
LEMMA PreflightCallFailsStays ==
    ASSUME PreflightIInv, PreflightCallFails
    PROVE  PreflightIInv'
BY PreflightRefuses DEF PreflightCallFails

\* The worktrees are listed.
LEMMA PreflightListStays ==
    ASSUME PreflightIInv, PreflightList
    PROVE  PreflightIInv'
<1> DEFINE registered == {p \in PreflightPaths : preflightTrees[p].registered}
<1>1. /\ preflightAt = "list" /\ preflightAt' = "common"
      /\ preflightListed' = [p \in registered |->
             [branch |-> preflightTrees[p].branch,
              prunable |-> PreflightPrunable(preflightTrees[p])]]
      /\ preflightLeft' = DOMAIN preflightListed'
      /\ UNCHANGED <<preflightAsked, preflightTrees, preflightMark, preflightRepair,
                     preflightFailed, preflightOutside>>
  BY DEF PreflightList
<1>2. PreflightTypedOK /\ PreflightTreesOK /\ preflightRepair = {}
  BY <1>1 DEF PreflightIInv, PreflightCheckedOK
<1>3. PreflightTypedOK' /\ PreflightTreesOK'
  BY <1>1, <1>2 DEF PreflightTypedOK, PreflightTreesOK, PreflightQuiet, PreflightPCs
<1>4. PreflightListedOK'
  BY <1>1 DEF PreflightListedOK, PreflightQuiet, PreflightPrunable
<1>5. /\ PreflightCheckedOK' /\ PreflightInspectedOK' /\ PlansAreForIdleWorktrees'
      /\ RefusalsHaveReasons'
  BY <1>1, <1>2 DEF PreflightCheckedOK, PreflightInspectedOK, PlansAreForIdleWorktrees, RefusalsHaveReasons
<1>6. QED BY <1>3, <1>4, <1>5 DEF PreflightIInv

\* The caller's directory is resolved; a check ends.
LEMMA PreflightCommonStays ==
    ASSUME PreflightIInv, PreflightCommon
    PROVE  PreflightIInv'
BY DEF PreflightCommon, PreflightIInv, PreflightTypedOK, PreflightTreesOK, PreflightQuiet, PreflightPCs,
  PreflightListedOK, PreflightPrunable, PreflightCheckedOK, PreflightInspectedOK, PlansAreForIdleWorktrees,
  RefusalsHaveReasons

\* A worktree is passed, or is to be repaired.
LEMMA PreflightNextTreeStays ==
    ASSUME PreflightIInv, preflightAt \in {"check", "target"}, preflightAt' = "check",
           preflightLeft # {}, PreflightNextTree,
           \/ /\ preflightRepair' = preflightRepair
              /\ PreflightSkipped(PreflightHere) \/ preflightTrees[PreflightHere].link = "ours"
           \/ /\ preflightRepair' = preflightRepair \cup {PreflightHere}
              /\ preflightTrees[PreflightHere].link = "lost",
           preflightFailed' = preflightFailed
    PROVE  PreflightIInv'
BY DEF PreflightNextTree, PreflightIInv, PreflightTypedOK, PreflightTreesOK, PreflightQuiet, PreflightPCs,
  PreflightListedOK, PreflightPrunable, PreflightCheckedOK, PreflightSkipped, PreflightInspectedOK,
  PlansAreForIdleWorktrees, RefusalsHaveReasons

\* A worktree is skipped or found to be ours.
LEMMA PreflightAcceptStays ==
    ASSUME PreflightIInv, PreflightAccept
    PROVE  PreflightIInv'
BY PreflightNextTreeStays DEF PreflightAccept

\* A worktree of another repository is refused.
LEMMA PreflightForeignStays ==
    ASSUME PreflightIInv, PreflightForeign
    PROVE  PreflightIInv'
BY PreflightHereIs, PreflightInTheWay, PreflightRefuses DEF PreflightForeign, PreflightIInv, PreflightTypedOK,
  PreflightSkipped

\* A link that cannot be resolved is looked at, or refused the second time.
LEMMA PreflightUnresolvedStays ==
    ASSUME PreflightIInv, PreflightUnresolved
    PROVE  PreflightIInv'
<1> DEFINE failed == preflightTrees[PreflightHere].link \in {"ours", "theirs"}
<1>1. /\ failed \in BOOLEAN
      /\ IF preflightRepaired THEN PreflightRefuse(failed)
         ELSE /\ preflightAt' = "target" /\ preflightFailed' = (preflightFailed \/ failed)
              /\ UNCHANGED <<preflightAsked, preflightTrees, preflightListed, preflightLeft,
                             preflightMark, preflightRepair, preflightRepaired,
                             preflightHolders, preflightOutside>>
  BY DEF PreflightUnresolved
<1>2. /\ preflightAt = "check" /\ preflightLeft # {} /\ ~PreflightSkipped(PreflightHere)
      /\ PreflightHere \in DOMAIN preflightListed
  BY PreflightHereIs DEF PreflightUnresolved, PreflightIInv, PreflightTypedOK
<1>3. CASE preflightRepaired
  BY <1>1, <1>2, PreflightInTheWay, <1>3, PreflightRefuses DEF PreflightSkipped
<1>4. CASE ~preflightRepaired
  <2>1. /\ preflightAt' = "target" /\ preflightFailed' = (preflightFailed \/ failed)
        /\ UNCHANGED <<preflightAsked, preflightTrees, preflightListed, preflightLeft,
                       preflightMark, preflightRepair, preflightOutside>>
    BY <1>1, <1>4
  <2>2. PreflightTypedOK' /\ PreflightTreesOK' /\ PreflightListedOK'
    BY <1>2, <2>1 DEF PreflightIInv, PreflightTypedOK, PreflightTreesOK, PreflightQuiet, PreflightPCs,
      PreflightListedOK, PreflightPrunable
  <2>3. PreflightCheckedOK'
    BY <1>1, <1>2, <2>1 DEF PreflightIInv, PreflightCheckedOK, PreflightQuiet, PreflightSkipped, PreflightHere
  <2>4. PreflightInspectedOK' /\ PlansAreForIdleWorktrees' /\ RefusalsHaveReasons'
    BY <2>1 DEF PreflightInspectedOK, PlansAreForIdleWorktrees, RefusalsHaveReasons
  <2>5. QED BY <2>2, <2>3, <2>4 DEF PreflightIInv
<1>5. QED BY <1>3, <1>4

\* A lost link is one to repair, any other is refused.
LEMMA PreflightTargetStays ==
    ASSUME PreflightIInv, PreflightTarget
    PROVE  PreflightIInv'
BY PreflightHereIs, PreflightNextTreeStays, PreflightInTheWay, PreflightRefuses DEF PreflightTarget,
  PreflightIInv, PreflightTypedOK, PreflightCheckedOK, PreflightSkipped, PreflightQuiet

\* All are checked.
LEMMA PreflightCheckedStays ==
    ASSUME PreflightIInv, PreflightChecked
    PROVE  PreflightIInv'
BY DEF PreflightChecked, PreflightIInv, PreflightTypedOK, PreflightTreesOK, PreflightQuiet, PreflightPCs,
  PreflightListedOK, PreflightPrunable, PreflightCheckedOK, PreflightSkipped, PreflightInspectedOK,
  PlansAreForIdleWorktrees, RefusalsHaveReasons

\* What git relinks of those nobody else works in had a lost or missing link.
LEMMA PreflightMendsOnlyLost ==
    ASSUME PreflightIInv, preflightAt = "repair", NEW some \in SUBSET PreflightElsewhere,
           preflightTrees' = PreflightRelinked(some), preflightAsked' = preflightAsked,
           preflightOutside' = preflightOutside
    PROVE  PreflightTreesOK' /\ preflightTrees' \in [PreflightPaths -> PreflightTree]
<1>1. /\ \A p \in PreflightPaths : preflightTrees[p] \in PreflightTree
      /\ \A p \in PreflightPaths : preflightTrees'[p] =
            IF p \in some THEN [preflightTrees[p] EXCEPT !.link = "ours"] ELSE preflightTrees[p]
      /\ preflightTrees' = [p \in PreflightPaths |-> preflightTrees'[p]]
  BY DEF PreflightIInv, PreflightTypedOK, PreflightRelinked
<1>2. \A p \in PreflightPaths : preflightTrees'[p] \in PreflightTree
  BY <1>1, PreflightMended
<1>3. preflightTrees' \in [PreflightPaths -> PreflightTree]
  BY <1>1, <1>2
<1>4. ASSUME NEW p \in PreflightQuiet
      PROVE  \/ preflightTrees'[p] = preflightAsked.trees[p]
             \/ /\ preflightAsked.trees[p].link \in {"lost", "missing"}
                /\ preflightTrees'[p] = [preflightAsked.trees[p] EXCEPT !.link = "ours"]
  <2>1. \/ preflightTrees[p] = preflightAsked.trees[p]
        \/ /\ preflightAsked.trees[p].link \in {"lost", "missing"}
           /\ preflightTrees[p] = [preflightAsked.trees[p] EXCEPT !.link = "ours"]
    BY DEF PreflightIInv, PreflightTreesOK
  <2>2. p \in PreflightPaths
    BY DEF PreflightQuiet
  <2>3. CASE p \notin some
    BY <1>1, <2>1, <2>2, <2>3
  <2>4. CASE p \in some
    <3>1. /\ preflightTrees[p].registered /\ preflightTrees[p].link \notin {"ours", "gone"}
          /\ p \in DOMAIN preflightListed
          /\ preflightListed[p].prunable = PreflightPrunable(preflightTrees[p])
      BY <2>4 DEF PreflightElsewhere, PreflightIInv, PreflightListedOK
    <3>2. /\ preflightAsked.caller \in PreflightPaths
          /\ p # preflightAsked.caller
      BY <3>1, PreflightCallerIsOurs, PreflightAssumption DEF PreflightIInv, PreflightTypedOK
    <3>3. \/ PreflightPrunable(preflightTrees[p]) \/ preflightTrees[p].link = "lost"
      BY <3>1, <3>2 DEF PreflightIInv, PreflightCheckedOK, PreflightSkipped
    <3>4. preflightTrees[p].link \in {"lost", "missing"}
      BY <3>1, <3>3 DEF PreflightPrunable
    <3>5. [preflightAsked.trees[p] EXCEPT !.link = "ours"].link = "ours"
      BY <2>2, PreflightAssumption, PreflightMended DEF PreflightIInv, PreflightTypedOK
    <3>6. preflightTrees[p] = preflightAsked.trees[p]
      BY <2>1, <3>4, <3>5
    <3>7. QED BY <1>1, <2>2, <2>4, <3>4, <3>6
  <2>5. QED BY <2>3, <2>4
<1>5. QED BY <1>3, <1>4 DEF PreflightTreesOK, PreflightQuiet

\* git worktree repair mends the links that were lost.
LEMMA PreflightMendStays ==
    ASSUME PreflightIInv, PreflightMend \/ PreflightMendFails
    PROVE  PreflightIInv'
BY PreflightMendsOnlyLost DEF PreflightMend, PreflightMendFails, PreflightIInv, PreflightTypedOK, PreflightPCs,
  PreflightListedOK, PreflightCheckedOK, PreflightInspectedOK, PlansAreForIdleWorktrees, RefusalsHaveReasons

\* The caller is among them, or the preflight refuses.
LEMMA PreflightLocateStays ==
    ASSUME PreflightIInv, PreflightLocate
    PROVE  PreflightIInv'
<1>1. CASE preflightAsked.caller \notin DOMAIN preflightListed
  BY PreflightAssumption, <1>1, PreflightRefuses DEF PreflightQuiet, PreflightIInv, PreflightTypedOK,
    PreflightLocate, PreflightListedOK
<1>2. CASE preflightAsked.caller \in DOMAIN preflightListed
  <2>1. /\ preflightAt = "locate" /\ preflightAt' = "inspect" /\ preflightMark' = 1
        /\ preflightLeft' = DOMAIN preflightListed
        /\ UNCHANGED <<preflightAsked, preflightTrees, preflightListed, preflightRepair,
                       preflightFailed, preflightOutside>>
    BY <1>2 DEF PreflightLocate
  <2>2. PreflightTypedOK' /\ PreflightTreesOK' /\ PreflightListedOK'
    BY <2>1 DEF PreflightMarks, PreflightIInv, PreflightTypedOK, PreflightTreesOK, PreflightQuiet, PreflightPCs,
      PreflightListedOK, PreflightPrunable
  <2>3. PreflightCheckedOK'
    BY <2>1 DEF PreflightIInv, PreflightCheckedOK, PreflightQuiet, PreflightSkipped
  <2>4. PreflightInspectedOK'
    BY <2>1 DEF PreflightInspectedOK
  <2>5. PlansAreForIdleWorktrees' /\ RefusalsHaveReasons'
    BY <2>1 DEF PlansAreForIdleWorktrees, RefusalsHaveReasons
  <2>6. QED BY <2>2, <2>3, <2>4, <2>5 DEF PreflightIInv
<1>3. QED BY <1>1, <1>2

\* A worktree is inspected, by one mark.
LEMMA PreflightInspectStays ==
    ASSUME PreflightIInv, PreflightInspect
    PROVE  PreflightIInv'
<1> DEFINE here == PreflightHere
           tree == preflightTrees[here]
           fine == ~PreflightOperation(tree)
<1>1. /\ preflightAt = "inspect" /\ preflightLeft # {} /\ here \in preflightLeft
      /\ here \in DOMAIN preflightListed
      /\ preflightMark \in 1 .. Len(PreflightMarks) + 1 /\ Len(PreflightMarks) = 7
  BY PreflightHereIs DEF PreflightInspect, PreflightIInv, PreflightTypedOK, PreflightMarks
<1>2. CASE ~preflightListed[here].prunable
             /\ (PreflightOperation(tree) \/ tree.link \notin {"ours", "theirs"})
  BY <1>2, <1>1, PreflightInTheWay, PreflightRefuses DEF PreflightOperation, PreflightInspect
<1>3. CASE \/ preflightListed[here].prunable
           \/ fine /\ tree.link \in {"ours", "theirs"}
  <2>1. /\ \/ /\ preflightListed[here].prunable \/ preflightMark > Len(PreflightMarks)
              /\ preflightLeft' = preflightLeft \ {here} /\ preflightMark' = 1
           \/ /\ ~(preflightListed[here].prunable \/ preflightMark > Len(PreflightMarks))
              /\ preflightMark' = preflightMark + 1 /\ preflightLeft' = preflightLeft
        /\ UNCHANGED <<preflightAsked, preflightAt, preflightTrees, preflightListed,
                       preflightRepair, preflightFailed, preflightOutside>>
    BY <1>3 DEF PreflightInspect
  <2>2. PreflightTypedOK' /\ PreflightTreesOK' /\ PreflightListedOK'
    BY <1>1, <2>1 DEF PreflightIInv, PreflightTypedOK, PreflightTreesOK, PreflightQuiet, PreflightPCs,
      PreflightListedOK, PreflightPrunable
  <2>3. PreflightCheckedOK'
    BY <1>1, <2>1 DEF PreflightIInv, PreflightCheckedOK, PreflightQuiet, PreflightSkipped
  <2>4. PreflightInspectedOK'
    <3> SUFFICES ASSUME NEW p \in PreflightQuiet \cap DOMAIN preflightListed,
                        ~preflightListed[p].prunable
                 PROVE  \/ /\ p \in preflightLeft'
                           /\ p = PreflightHere' =>
                                \A m \in 1 .. preflightMark' - 1 : m <= Len(PreflightMarks) =>
                                   PreflightMarks[m] \notin preflightTrees[p].marks
                                                               \cup preflightTrees[p].odd
                        \/ /\ preflightTrees[p].marks \cup preflightTrees[p].odd = {}
                           /\ ~preflightTrees[p].unmerged
      BY <2>1 DEF PreflightInspectedOK, PreflightQuiet
    <3> DEFINE clear(m) == PreflightMarks[m] \notin preflightTrees[p].marks \cup preflightTrees[p].odd
    <3>1. \/ /\ p \in preflightLeft
             /\ p = here => \A m \in 1 .. preflightMark - 1 : m <= Len(PreflightMarks) => clear(m)
          \/ /\ preflightTrees[p].marks \cup preflightTrees[p].odd = {}
             /\ ~preflightTrees[p].unmerged
      BY <1>1 DEF PreflightIInv, PreflightInspectedOK
    <3>2. CASE p # here
      BY <2>1, <3>1, <3>2 DEF PreflightHere
    <3>3. CASE p = here /\ preflightMark > Len(PreflightMarks) /\ p \in preflightLeft
      BY <1>3, <3>3, <1>1, <3>1 DEF PreflightOperation, ToSet, PreflightMarks, PreflightIInv, PreflightTypedOK,
        PreflightTree
    <3>4. CASE p = here /\ ~(preflightMark > Len(PreflightMarks)) /\ p \in preflightLeft
      BY <1>3, <3>4, <2>1, <1>1, <3>1 DEF PreflightOperation
    <3>5. QED BY <3>1, <3>2, <3>3, <3>4
  <2>5. PlansAreForIdleWorktrees' /\ RefusalsHaveReasons'
    BY <1>1, <2>1 DEF PlansAreForIdleWorktrees, RefusalsHaveReasons
  <2>6. QED BY <2>2, <2>3, <2>4, <2>5 DEF PreflightIInv
<1>4. CASE preflightListed[here].prunable
  BY <1>3, <1>4
<1>5. CASE ~preflightListed[here].prunable /\ ~fine
  BY <1>2, <1>5
<1>6. CASE ~preflightListed[here].prunable /\ tree.link \notin {"ours", "theirs"}
  BY <1>2, <1>6
<1>7. CASE ~preflightListed[here].prunable /\ fine /\ tree.link \in {"ours", "theirs"}
  BY <1>3, <1>7
<1>8. QED BY <1>4, <1>5, <1>6, <1>7

\* The plan is made.
LEMMA PreflightPlanStays ==
    ASSUME PreflightIInv, PreflightPlan
    PROVE  PreflightIInv'
<1>1. /\ preflightAt = "inspect" /\ preflightLeft = {} /\ preflightAt' = "planned"
      /\ preflightHolders' =
            {p \in DOMAIN preflightListed :
                /\ ~preflightListed[p].prunable /\ p # preflightAsked.caller
                /\ preflightListed[p].branch = preflightAsked.target}
      /\ UNCHANGED <<preflightAsked, preflightTrees, preflightListed, preflightLeft,
                     preflightMark, preflightRepair, preflightFailed, preflightOutside>>
  BY DEF PreflightPlan
<1>2. PreflightTypedOK' /\ PreflightTreesOK'
  BY <1>1 DEF PreflightIInv, PreflightTypedOK, PreflightTreesOK, PreflightQuiet, PreflightPCs
<1>3. /\ PreflightListedOK' /\ PreflightCheckedOK' /\ PreflightInspectedOK'
      /\ RefusalsHaveReasons'
  BY <1>1 DEF PreflightListedOK, PreflightCheckedOK, PreflightInspectedOK, RefusalsHaveReasons
<1>4. PlansAreForIdleWorktrees'
  BY <1>1, PreflightCallerIsOurs DEF PreflightIInv, PreflightListedOK, PreflightBusy, PreflightInspectedOK,
    PreflightCheckedOK, PreflightSkipped, PreflightQuiet, PreflightPrunable, PlansAreForIdleWorktrees
<1>5. QED BY <1>2, <1>3, <1>4 DEF PreflightIInv

----------------------------------------

\* What others do in one worktree is nothing to the rest.
LEMMA PreflightDisturbed ==
    ASSUME PreflightIInv, PreflightRunning, NEW path \in PreflightPaths,
           NEW tree \in PreflightTree, PreflightDisturb(path, tree)
    PROVE  PreflightIInv'
<1>1. /\ preflightTrees' = [preflightTrees EXCEPT ![path] = tree] /\ preflightOutside' = {path}
      /\ UNCHANGED <<preflightAsked, preflightAt, preflightListed, preflightLeft, preflightMark,
                     preflightRepair, preflightFailed>>
      /\ preflightAt \notin {"planned", "refused"}
  BY DEF PreflightDisturb, PreflightRunning
<1>2. /\ PreflightQuiet' \subseteq PreflightQuiet
      /\ preflightTrees \in [PreflightPaths -> PreflightTree]
      /\ \A p \in PreflightQuiet' : preflightTrees'[p] = preflightTrees[p]
  BY <1>1 DEF PreflightQuiet, PreflightRunning, PreflightIInv, PreflightTypedOK, PreflightDisturb
<1>3. PreflightTypedOK'
  BY <1>1, <1>2 DEF PreflightIInv, PreflightTypedOK
<1>4. PreflightTreesOK'
  BY <1>1, <1>2 DEF PreflightIInv, PreflightTreesOK
<1>5. PreflightListedOK'
  BY <1>1, <1>2 DEF PreflightIInv, PreflightListedOK, PreflightPrunable
<1>6. PreflightHere' = PreflightHere /\ \A p : PreflightSkipped(p)' <=> PreflightSkipped(p)
  BY <1>1 DEF PreflightHere, PreflightSkipped
<1>7. PreflightCheckedOK'
  BY <1>1, <1>2, <1>6 DEF PreflightIInv, PreflightCheckedOK
<1>8. PreflightInspectedOK'
  BY <1>1, <1>2, <1>6 DEF PreflightIInv, PreflightInspectedOK
<1>9. PlansAreForIdleWorktrees' /\ RefusalsHaveReasons'
  BY <1>1 DEF PlansAreForIdleWorktrees, RefusalsHaveReasons
<1>10. QED BY <1>3, <1>4, <1>5, <1>7, <1>8, <1>9 DEF PreflightIInv

\* Others work in a worktree, delete one, or bring the other repository back.
LEMMA PreflightOthers ==
    ASSUME PreflightIInv,
           PreflightOthersWork \/ PreflightOthersDelete \/ PreflightOtherReturns
    PROVE  PreflightIInv'
<1>1. /\ PreflightRunning /\ \A p \in PreflightPaths : preflightTrees[p] \in PreflightTree
  BY DEF PreflightOthersWork, PreflightOthersDelete, PreflightOtherReturns, PreflightIInv, PreflightTypedOK
<1>2. ASSUME NEW tree \in PreflightTree
      PROVE  /\ [tree EXCEPT !.marks = {"MERGE_HEAD"}] \in PreflightTree
             /\ [tree EXCEPT !.branch = PreflightDetached] \in PreflightTree
             /\ \A r \in BOOLEAN : [tree EXCEPT !.link = "gone", !.registered = r] \in PreflightTree
             /\ [tree EXCEPT !.link = "theirs"] \in PreflightTree
  <2>1. "MERGE_HEAD" \in ToSet(PreflightMarks)
    BY DEF PreflightMarks, ToSet
  <2>2. QED BY <2>1 DEF PreflightTree, PreflightLinks
<1>3. PICK path \in PreflightPaths, tree \in PreflightTree : PreflightDisturb(path, tree)
  BY <1>1, <1>2 DEF PreflightOthersWork, PreflightOthersDelete, PreflightOtherReturns
<1>4. QED BY <1>1, <1>3, PreflightDisturbed

\* Every step keeps it.
LEMMA PreflightStep ==
    ASSUME PreflightIInv, [PreflightNext]_preflightVars
    PROVE  PreflightIInv'
<1>1. CASE UNCHANGED preflightVars
  BY <1>1 DEF preflightVars, PreflightIInv, PreflightTypedOK, PreflightTreesOK, PreflightListedOK,
    PreflightCheckedOK, PreflightInspectedOK, PlansAreForIdleWorktrees, RefusalsHaveReasons, PreflightQuiet,
    PreflightHere, PreflightSkipped, PreflightBusy, PreflightPrunable
<1>2. CASE PreflightRuns
  BY <1>2, PreflightCallFailsStays, PreflightListStays, PreflightCommonStays, PreflightAcceptStays,
    PreflightForeignStays, PreflightUnresolvedStays, PreflightTargetStays, PreflightCheckedStays,
    PreflightMendStays, PreflightLocateStays, PreflightInspectStays, PreflightPlanStays DEF PreflightRuns
<1>3. QED BY <1>1, <1>2, PreflightOthers DEF PreflightNext

\* What the invariant says of the end
LEMMA PreflightSafe ==
    ASSUME PreflightIInv
    PROVE  PreflightIsSafe
BY DEF PreflightIInv, PreflightTreesOK, OnlyLostLinksChange, PreflightIsSafe

\* The types of a preflight hold at the start.
LEMMA PreflightTypesFirst == PreflightInit => PreflightTypeOK
<1> SUFFICES ASSUME PreflightInit PROVE PreflightTypeOK
  OBVIOUS
<1>1. preflightAsked \in [caller: PreflightPaths, target: PreflightBranches,
                          trees: [PreflightPaths -> PreflightTree]]
  BY PreflightAssumption DEF PreflightInit
<1>2. PreflightTypedOK
  BY PreflightInitially DEF PreflightIInv
<1>3. DOMAIN preflightListed = {}
  BY DEF PreflightInit
<1>4. QED BY <1>1, <1>2, <1>3 DEF PreflightInit, PreflightTypeOK, PreflightTypedOK, PreflightPCs

\* They are kept.
LEMMA PreflightTypesStay ==
    ASSUME PreflightIInv, PreflightIInv', PreflightTypeOK, [PreflightNext]_preflightVars
    PROVE  PreflightTypeOK'
<1>1. /\ preflightAsked' \in PreflightInvocations /\ preflightAt' \in PreflightPCs
      /\ preflightTrees' \in [PreflightPaths -> PreflightTree]
      /\ DOMAIN preflightListed' \subseteq PreflightPaths
      /\ preflightLeft' \subseteq DOMAIN preflightListed'
      /\ preflightMark' \in 1 .. Len(PreflightMarks) + 1 /\ preflightFailed' \in BOOLEAN
  BY DEF PreflightIInv, PreflightTypedOK
<1>2. preflightAsked'.caller \in PreflightPaths
  BY <1>1, PreflightAssumption
<1> DEFINE Entries(listed) == \A p \in DOMAIN listed : listed[p] \in
              [branch: PreflightBranches \cup {PreflightDetached}, prunable: BOOLEAN]
<1>3. Entries(preflightListed')
  <2>1. CASE PreflightList
    BY <2>1 DEF PreflightTypeOK, PreflightTree, PreflightPrunable, PreflightList
  <2>2. CASE ~PreflightList
    <3>1. UNCHANGED preflightListed
      BY <2>2 DEF PreflightNext, PreflightRuns, PreflightCallFails, PreflightRefuse, PreflightCommon,
        PreflightAccept, PreflightNextTree, PreflightForeign, PreflightUnresolved, PreflightTarget,
        PreflightChecked, PreflightMend, PreflightMendFails, PreflightLocate, PreflightInspect, PreflightPlan,
        PreflightOthersWork, PreflightOthersDelete, PreflightOtherReturns, PreflightDisturb, preflightVars
    <3>2. QED BY <3>1 DEF PreflightTypeOK
  <2>3. QED BY <2>1, <2>2
<1>4. preflightRepair' \subseteq PreflightPaths
  <2>1. CASE PreflightTarget
    BY <2>1, PreflightHereIs DEF PreflightTarget, PreflightIInv, PreflightCheckedOK, PreflightTypedOK,
      PreflightRefuse, PreflightTypeOK
  <2>2. CASE ~PreflightTarget
    <3>1. preflightRepair' \in {preflightRepair, {}}
      BY <2>2 DEF PreflightNext, PreflightRuns, PreflightCallFails, PreflightRefuse, PreflightList,
        PreflightCommon, PreflightAccept, PreflightNextTree, PreflightForeign, PreflightUnresolved,
        PreflightChecked, PreflightMend, PreflightMendFails, PreflightLocate, PreflightInspect, PreflightPlan,
        PreflightOthersWork, PreflightOthersDelete, PreflightOtherReturns, PreflightDisturb, preflightVars
    <3>2. QED BY <3>1 DEF PreflightTypeOK
  <2>3. QED BY <2>1, <2>2
<1>5. preflightRepaired' \in BOOLEAN
  BY DEF PreflightTypeOK, PreflightNext, PreflightRuns, PreflightCallFails, PreflightRefuse, PreflightList,
    PreflightTarget, PreflightCommon, PreflightAccept, PreflightNextTree, PreflightForeign, PreflightUnresolved,
    PreflightChecked, PreflightMend, PreflightMendFails, PreflightLocate, PreflightInspect, PreflightPlan,
    PreflightOthersWork, PreflightOthersDelete, PreflightOtherReturns, PreflightDisturb, preflightVars
<1>6. preflightHolders' \subseteq PreflightPaths
  <2>1. CASE PreflightPlan
    BY <2>1 DEF PreflightPlan, PreflightTypeOK
  <2>2. CASE ~PreflightPlan
    BY <2>2 DEF PreflightTypeOK, PreflightNext, PreflightRuns, PreflightCallFails, PreflightRefuse,
      PreflightList, PreflightTarget, PreflightCommon, PreflightAccept, PreflightNextTree, PreflightForeign,
      PreflightUnresolved, PreflightChecked, PreflightMend, PreflightMendFails, PreflightLocate,
      PreflightInspect, PreflightOthersWork, PreflightOthersDelete, PreflightOtherReturns, PreflightDisturb,
      preflightVars
  <2>3. QED BY <2>1, <2>2
<1>7. preflightOutside' \subseteq PreflightPaths
  BY DEF PreflightTypeOK, PreflightNext, PreflightRuns, PreflightCallFails, PreflightRefuse, PreflightList,
    PreflightTarget, PreflightCommon, PreflightAccept, PreflightNextTree, PreflightForeign, PreflightUnresolved,
    PreflightChecked, PreflightMend, PreflightMendFails, PreflightLocate, PreflightInspect, PreflightPlan,
    PreflightOthersWork, PreflightOthersDelete, PreflightOtherReturns, PreflightDisturb, preflightVars
<1>8. QED BY <1>1, <1>2, <1>3, <1>4, <1>5, <1>6, <1>7 DEF PreflightTypeOK, PreflightPCs

----------------------------------------
\* RepositoryRename: where the repositories of a run are, and what is said of it

\* Where a repository lies at first, and its intermediate names
RenameFrom(r) == renameAsked.where[r]
RenameAsideOf(r, k) ==
    Append(Front(RenameFrom(r)), [base |-> Last(RenameFrom(r)), attempt |-> k])

\* What the file system tells apart of a name
RenameLetter(e) ==
    IF ~renameAsked.folds THEN e
    ELSE IF e \in RenameNames THEN RenameFolded[e]
    ELSE [base |-> RenameFolded[e.base], attempt |-> e.attempt]

RenameEarly == {"waiting", "check", "ask", "parent", "direct"}

RenameTyped ==
    /\ renameAsked \in RenameInvocations
    /\ renameWaiting \in Seq(RenameRun)
    /\ renameAt \in [RenameRun -> RenamePCs]
    /\ renameWhere \in [RenameRun -> Seq(RenameElement) \ {<<>>}]
    /\ renameAttempt \in [RenameRun -> 0 .. RenameAttempts - 1]
    /\ renameOutcome \in [RenameRun -> {"none", "skipped", "failed", "renamed"}]
    /\ renameDirectories \subseteq Seq(RenameElement) \ {<<>>}
    /\ renameOutside \in BOOLEAN

\* Those that wait come in order, deeper ones first; one worker has one at a time.
RenameOrdered ==
    /\ \A i \in DOMAIN renameWaiting : renameAt[renameWaiting[i]] = "waiting"
    /\ \A r \in RenameRun : renameAt[r] = "waiting" =>
          \E i \in DOMAIN renameWaiting : renameWaiting[i] = r
    /\ \A i, j \in DOMAIN renameWaiting : i < j =>
          /\ renameWaiting[i] # renameWaiting[j]
          /\ Len(RenameFrom(renameWaiting[i])) >= Len(RenameFrom(renameWaiting[j]))
    /\ \A s, r \in RenameRun : renameAt[s] # "waiting" /\ renameAt[r] = "waiting" =>
          Len(RenameFrom(s)) >= Len(RenameFrom(r))
    /\ renameAsked.workers = 1 => \A s, r \in RenameRun :
          renameAt[s] \notin {"waiting", "done"} /\ renameAt[r] \notin {"waiting", "done"} => s = r

\* The path of a state is the first one until the end, and then that or the new one.
RenameTold ==
    /\ renamePath \in [RenameRun -> Seq(RenameNames) \ {<<>>}]
    /\ \A r \in RenameRun :
         \/ renamePath[r] = RenameFrom(r)
         \/ renameAt[r] = "done" /\ renamePath[r] = RenameGoal(r)

\* What a path leads through exists.
RenameClosed ==
    \A p \in RenameOccupied : \A n \in 1 .. Len(p) : RenameExists(SubSeq(p, 1, n))

\* r lies at one of its intermediate names.
RenameIsAside(r) == \E k \in 0 .. RenameAttempts - 1 : renameWhere[r] = RenameAsideOf(r, k)

\* Nobody else moves r.
RenameAlone(r) == ~RenameEntangled(r) \/ (renameAsked.workers = 1 /\ renameAt[r] # "done")

\* A repository that nobody else moves is where its own steps have put it.
RenamePlaced(r) ==
    \/ renameAt[r] \in RenameEarly /\ renameWhere[r] = RenameFrom(r)
    \/ /\ renameAt[r] = "aside"
       /\ \/ renameWhere[r] = RenameFrom(r)
          \/ \E k \in 0 .. RenameAttempts - 1 :
                k < renameAttempt[r] /\ renameWhere[r] = RenameAsideOf(r, k)
    \/ /\ renameAt[r] = "forward"
       /\ \E k \in 0 .. RenameAttempts - 1 :
             /\ renameWhere[r] = RenameAsideOf(r, k)
             /\ k = renameAttempt[r] \/ (k < renameAttempt[r] /\ renameOutside)
    \/ /\ renameAt[r] \in {"settle", "done"} /\ renameOutcome[r] = "skipped"
       /\ renameWhere[r] = RenameFrom(r)
    \/ /\ renameAt[r] \in {"settle", "done"} /\ renameOutcome[r] = "renamed"
       /\ renameWhere[r] = RenameGoal(r) \/ (renameOutside /\ RenameIsAside(r))
    \/ /\ renameAt[r] = "done" /\ renameOutcome[r] = "failed"
       /\ renameWhere[r] = RenameFrom(r) \/ RenameIsAside(r)

RenamePlacedOK == \A r \in RenameRun : RenameAlone(r) => RenamePlaced(r)

\* What has been moved aside has left its place free.
RenameLeft(r) ==
    /\ renameAt[r] \in {"aside", "forward"} /\ renameWhere[r] # RenameFrom(r)
          => ~RenameExists(RenameFrom(r))
    /\ renameAsked.workers = 1 /\ renameAt[r] = "settle" /\ renameOutcome[r] = "renamed" =>
          ~RenameExists(RenameFrom(r)) \/ RenameSame(RenameFrom(r), RenameGoal(r))
RenameLeftOK == \A r \in RenameRun : RenameAlone(r) /\ ~renameOutside => RenameLeft(r)

\* With one worker no other repository is where one is being renamed,
RenameHolds(r) ==
    \A q \in RenameRun \ {r} :
        /\ ~RenameSame(renameWhere[q], RenameFrom(r))
        /\ renameAt[r] = "forward" => ~RenameSame(renameWhere[q], RenameAsideOf(r, renameAttempt[r]))
        /\ renameAt[r] = "settle" /\ renameOutcome[r] = "renamed" =>
              ~RenameSame(renameWhere[q], RenameGoal(r))
\* none that is to be renamed where one has been,
RenameDone(r) ==
    \A q \in RenameRun \ {r} :
        /\ renameAt[q] # "done" /\ renameOutcome[r] = "renamed" =>
              ~RenameSame(RenameGoal(r), RenameFrom(q))
        /\ RenameSame(renamePath[r], renameWhere[q]) => RenameSucceeded(r)
        /\ ~RenameCarried(r) => RenameLeftAside(r) \/ ~RenameSame(renamePath[r], renameWhere[q])
\* and what a path told leads to is there.
RenameThere(r) ==
    /\ \/ renamePath[r] = RenameFrom(r) \/ renameOutcome[r] = "renamed"
       \/ RenameSame(RenameFrom(r), RenameGoal(r))
    /\ ~RenameCarried(r) => RenameLeftAside(r) \/ RenameExists(renamePath[r])

RenameOwnOK ==
    renameAsked.workers = 1 =>
        \A r \in RenameRun :
            IF renameAt[r] = "done" THEN RenameDone(r) /\ RenameThere(r) ELSE RenameHolds(r)

\* A rename that nobody disturbs is found to be complete.
RenameFoundOK ==
    renameAsked.workers = 1 /\ ~renameOutside =>
        \A r \in RenameRun :
            renameAt[r] = "done" /\ renameOutcome[r] = "renamed" /\ ~RenameEntangled(r) =>
                renamePath[r] = RenameGoal(r)

RenameIInv ==
    /\ RenameTyped /\ RenameOrdered /\ RenameTold /\ RenameClosed /\ RenamePlacedOK
    /\ RenameLeftOK /\ RenameOwnOK /\ RenameFoundOK

\* What a run is asked
LEMMA RenameAskedRight ==
    ASSUME renameAsked \in RenameInvocations
    PROVE  /\ IsFiniteSet(RenameRun) /\ RenameRun \subseteq RenameRepositories
           /\ renameAsked.folds \in BOOLEAN /\ renameAsked.workers \in Nat \ {0}
           /\ renameAsked.owner \in BOOLEAN
           /\ renameAsked.directories \subseteq Seq(RenameNames) \ {<<>>}
           /\ renameAsked.where \in [RenameRun -> Seq(RenameNames) \ {<<>>}]
           /\ \A r \in RenameRun : /\ RenameFrom(r) \in Seq(RenameNames) /\ RenameFrom(r) # <<>>
                                   /\ renameAsked.wanted[r] \in Seq(RenameNames)
                                   /\ renameAsked.wanted[r] # <<>>
           /\ \A r, q \in RenameRun : r # q => ~RenameSame(RenameFrom(r), RenameFrom(q))
           /\ \A p \in renameAsked.directories \cup Range(renameAsked.where) : \A n \in 1 .. Len(p) :
                SubSeq(p, 1, n) \in renameAsked.directories \cup Range(renameAsked.where)
  BY RenameAssumption DEF RenameRun, RenameFrom, RenameSame

\* Names and intermediate names, and what the file system tells apart of them
LEMMA RenameLetters ==
    ASSUME renameAsked \in RenameInvocations
    PROVE  /\ RenameElement = RenameNames \cup RenameAsides
           /\ \A e \in RenameNames : RenameLetter(e) \in RenameNames
           /\ \A e \in RenameAsides : RenameLetter(e) \in RenameAsides
           /\ RenameNames \cap RenameAsides = {}
           /\ \A b \in RenameNames, k \in 0 .. RenameAttempts - 1 :
                [base |-> b, attempt |-> k] \in RenameAsides
           /\ \A b, c \in RenameNames, j, k \in 0 .. RenameAttempts - 1 :
                RenameLetter([base |-> b, attempt |-> j]) = RenameLetter([base |-> c, attempt |-> k])
                  <=> RenameLetter(b) = RenameLetter(c) /\ j = k
  BY RenameAssumption DEF RenameElement, RenameAsides, RenameLetter

\* Two paths are the same if the file system does not tell their names apart.
LEMMA RenameSameMeans ==
    ASSUME renameAsked \in RenameInvocations,
           NEW p \in Seq(RenameElement), NEW q \in Seq(RenameElement)
    PROVE  RenameSame(p, q) <=>
             Len(p) = Len(q) /\ \A i \in 1 .. Len(p) : RenameLetter(p[i]) = RenameLetter(q[i])
<1>1. CASE ~renameAsked.folds
  BY <1>1, SeqEqual DEF RenameSame, RenameLetter
<1>2. CASE renameAsked.folds
  <2> DEFINE folded(e) == IF e \in RenameNames THEN RenameFolded[e]
                          ELSE [e EXCEPT !.base = RenameFolded[@]]
  <2>1. \A e \in RenameElement : folded(e) = RenameLetter(e)
    BY <1>2 DEF RenameLetter, RenameElement, RenameAsides
  <2>2. /\ RenameFold(p) = [i \in 1 .. Len(p) |-> RenameLetter(p[i])]
        /\ RenameFold(q) = [i \in 1 .. Len(q) |-> RenameLetter(q[i])]
    <3>1. /\ RenameFold(p) = [i \in 1 .. Len(p) |-> folded(p[i])]
          /\ RenameFold(q) = [i \in 1 .. Len(q) |-> folded(q[i])]
      BY DEF RenameFold
    <3> HIDE DEF folded
    <3>2. /\ \A i \in 1 .. Len(p) : p[i] \in RenameElement
          /\ \A i \in 1 .. Len(q) : q[i] \in RenameElement
      OBVIOUS
    <3>3. QED BY <2>1, <3>1, <3>2
  <2>3. p = q => RenameFold(p) = RenameFold(q)
    OBVIOUS
  <2>4. RenameSame(p, q) <=> RenameFold(p) = RenameFold(q)
    BY <1>2, <2>3 DEF RenameSame
  <2>5. RenameFold(p) = RenameFold(q) => Len(p) = Len(q)
    BY <2>2
  <2> HIDE DEF folded
  <2>6. QED BY <2>2, <2>4, <2>5
<1>3. QED BY <1>1, <1>2, RenameAskedRight

\* A path lies in a directory if it begins with its names.
LEMMA RenameLiesMeans ==
    ASSUME renameAsked \in RenameInvocations,
           NEW p \in Seq(RenameElement), NEW d \in Seq(RenameElement)
    PROVE  RenameLies(p, d) <=>
             Len(d) <= Len(p) /\ \A i \in 1 .. Len(d) : RenameLetter(p[i]) = RenameLetter(d[i])
<1>1. CASE Len(d) <= Len(p)
  <2> DEFINE head == SubSeq(p, 1, Len(d))
  <2>1. /\ head \in Seq(RenameElement) /\ Len(head) = Len(d)
        /\ \A i \in 1 .. Len(d) : head[i] = p[i]
    BY <1>1, SubSeqProperties
  <2>2. RenameLies(p, d) <=> RenameSame(head, d)
    BY <1>1 DEF RenameLies
  <2> HIDE DEF head
  <2>3. RenameSame(head, d) <=> \A i \in 1 .. Len(d) : RenameLetter(p[i]) = RenameLetter(d[i])
    BY <2>1, RenameSameMeans
  <2>4. QED BY <1>1, <2>2, <2>3
<1>2. CASE ~(Len(d) <= Len(p))
  BY <1>2 DEF RenameLies
<1>3. QED BY <1>1, <1>2

\* What lies in a directory that is moved has its new names before its own.
LEMMA RenameMovedIs ==
    ASSUME renameAsked \in RenameInvocations, NEW p \in Seq(RenameElement),
           NEW old \in Seq(RenameElement), NEW new \in Seq(RenameElement), RenameLies(p, old)
    PROVE  LET moved == RenameMoved(p, old, new)
           IN /\ moved \in Seq(RenameElement) /\ Len(moved) = Len(new) + Len(p) - Len(old)
              /\ \A i \in 1 .. Len(moved) :
                    moved[i] = IF i <= Len(new) THEN new[i] ELSE p[i - Len(new) + Len(old)]
<1> DEFINE rest == SubSeq(p, Len(old) + 1, Len(p))
<1>1. Len(old) <= Len(p)
  BY DEF RenameLies
<1>2. rest \in Seq(RenameElement) /\ Len(rest) = Len(p) - Len(old)
      /\ \A i \in 1 .. Len(p) - Len(old) : rest[i] = p[i + Len(old)]
  BY SubSeqEmpty, SubSeqProperties, <1>1
<1>3. RenameMoved(p, old, new) = new \o rest
  BY DEF RenameMoved
<1> HIDE DEF rest
<1>4a. rest \in Seq(RenameElement) /\ Len(rest) = Len(p) - Len(old)
  BY <1>2
<1>4. /\ new \o rest \in Seq(RenameElement) /\ Len(new \o rest) = Len(new) + Len(rest)
      /\ \A i \in 1 .. Len(new) + Len(rest) :
            (new \o rest)[i] = IF i <= Len(new) THEN new[i] ELSE rest[i - Len(new)]
  BY <1>4a, ConcatProperties
<1>5. RenameMoved(p, old, new) \in Seq(RenameElement)
      /\ Len(RenameMoved(p, old, new)) = Len(new) + Len(p) - Len(old)
  BY <1>3, <1>4, <1>4a
<1>6. ASSUME NEW i \in 1 .. Len(new) + Len(p) - Len(old)
      PROVE  RenameMoved(p, old, new)[i] = IF i <= Len(new) THEN new[i] ELSE p[i - Len(new) + Len(old)]
  <2>1. i \in 1 .. Len(new) + Len(rest)
    BY <1>4a
  <2>2. CASE i <= Len(new)
    BY <2>1, <2>2, <1>3, <1>4
  <2>3. CASE ~(i <= Len(new))
    <3>1. RenameMoved(p, old, new)[i] = rest[i - Len(new)]
      BY <2>1, <2>3, <1>3, <1>4
    <3>2. i - Len(new) \in 1 .. Len(p) - Len(old)
      BY <2>3
    <3>3. rest[i - Len(new)] = p[i - Len(new) + Len(old)]
      BY <1>2, <3>2
    <3>4. QED BY <2>3, <3>1, <3>3
  <2>4. QED BY <2>2, <2>3
<1>7. QED BY <1>5, <1>6

\* The directory a path is in
LEMMA RenameFrontIs ==
    ASSUME NEW S, NEW p \in Seq(S), p # <<>>
    PROVE  /\ Front(p) \in Seq(S) /\ Len(Front(p)) = Len(p) - 1 /\ Len(p) >= 1
           /\ \A i \in 1 .. Len(p) - 1 : Front(p)[i] = p[i]
           /\ Last(p) = p[Len(p)] /\ Last(p) \in S
<1>1. Len(p) \in Nat /\ Len(p) # 0
  BY EmptySeq
<1>2. CASE Len(p) = 1
  BY <1>1, <1>2, SubSeqEmpty DEF Front, Last
<1>3. CASE Len(p) > 1
  BY <1>1, <1>3, SubSeqProperties DEF Front, Last
<1>4. Len(p) = 1 \/ Len(p) > 1
  <2> DEFINE n == Len(p)
  <2>1. n \in Nat /\ n # 0
    BY <1>1
  <2> HIDE DEF n
  <2>2. n = 1 \/ n > 1
    BY <2>1
  <2>3. QED BY <2>2 DEF n
<1>5. QED BY <1>2, <1>3, <1>4, Zenon

\* Where a repository lies, is to come to, and lies meanwhile
LEMMA RenamePathsAre ==
    ASSUME renameAsked \in RenameInvocations, NEW r \in RenameRun
    PROVE  /\ RenameFrom(r) \in Seq(RenameNames) /\ RenameFrom(r) \in Seq(RenameElement)
           /\ RenameFrom(r) # <<>> /\ Len(RenameFrom(r)) >= 1
           /\ \A i \in 1 .. Len(RenameFrom(r)) : RenameFrom(r)[i] \in RenameNames
           /\ RenameGoal(r) \in Seq(RenameNames) /\ RenameGoal(r) \in Seq(RenameElement)
           /\ RenameGoal(r) # <<>> /\ Len(RenameGoal(r)) >= Len(RenameFrom(r))
           /\ \A i \in 1 .. Len(RenameGoal(r)) : RenameGoal(r)[i] \in RenameNames
           /\ \A i \in 1 .. Len(RenameFrom(r)) - 1 : RenameGoal(r)[i] = RenameFrom(r)[i]
<1> DEFINE wanted == renameAsked.wanted[r]  from == RenameFrom(r)
<1>1. /\ from \in Seq(RenameNames) /\ from # <<>>
      /\ wanted \in Seq(RenameNames) /\ wanted # <<>>
  BY RenameAskedRight
<1>2. RenameGoal(r) = Front(from) \o wanted
  BY DEF RenameGoal, RenameFrom
<1> HIDE DEF wanted, from
<1>3. /\ Front(from) \in Seq(RenameNames) /\ Len(Front(from)) = Len(from) - 1 /\ Len(from) >= 1
      /\ \A i \in 1 .. Len(from) - 1 : Front(from)[i] = from[i]
  BY <1>1, RenameFrontIs
<1>4. Len(wanted) \in Nat \ {0}
  BY <1>1, EmptySeq
<1> DEFINE front == Front(from)
<1>5. front \in Seq(RenameNames)
  BY <1>3
<1> HIDE DEF front
<1>6. /\ front \o wanted \in Seq(RenameNames) /\ Len(front \o wanted) = Len(front) + Len(wanted)
      /\ \A i \in 1 .. Len(front) + Len(wanted) :
            (front \o wanted)[i] = IF i <= Len(front) THEN front[i] ELSE wanted[i - Len(front)]
  BY <1>1, <1>5, ConcatProperties
<1>7. Len(front) = Len(from) - 1 /\ \A i \in 1 .. Len(from) - 1 : front[i] = from[i]
  BY <1>3 DEF front
<1>8. /\ RenameGoal(r) \in Seq(RenameNames) /\ Len(RenameGoal(r)) >= Len(from)
      /\ \A i \in 1 .. Len(from) - 1 : RenameGoal(r)[i] = from[i]
  BY <1>2, <1>1, <1>3, <1>4, <1>6, <1>7 DEF front
<1>9. RenameGoal(r) # <<>>
  BY <1>3, <1>8, EmptySeq
<1>10. Seq(RenameNames) \subseteq Seq(RenameElement)
  BY SeqMonotonic DEF RenameElement
<1>11. /\ from \in Seq(RenameElement) /\ RenameGoal(r) \in Seq(RenameElement)
       /\ \A i \in 1 .. Len(from) : from[i] \in RenameNames
       /\ \A i \in 1 .. Len(RenameGoal(r)) : RenameGoal(r)[i] \in RenameNames
  BY <1>1, <1>8, <1>10
<1>12. QED BY <1>1, <1>3, <1>8, <1>9, <1>11 DEF from

\* An intermediate name is next to the repository's, and no name of a folder.
LEMMA RenameAsideIs ==
    ASSUME renameAsked \in RenameInvocations, NEW r \in RenameRun, NEW k \in 0 .. RenameAttempts - 1
    PROVE  /\ RenameAsideOf(r, k) \in Seq(RenameElement) /\ RenameAsideOf(r, k) # <<>>
           /\ Len(RenameAsideOf(r, k)) = Len(RenameFrom(r))
           /\ \A i \in 1 .. Len(RenameFrom(r)) - 1 : RenameAsideOf(r, k)[i] = RenameFrom(r)[i]
           /\ RenameAsideOf(r, k)[Len(RenameFrom(r))]
                = [base |-> RenameFrom(r)[Len(RenameFrom(r))], attempt |-> k]
           /\ RenameAsideOf(r, k)[Len(RenameFrom(r))] \in RenameAsides
           /\ Front(RenameAsideOf(r, k)) = Front(RenameFrom(r))
           /\ Last(RenameAsideOf(r, k)) \notin RenameNames
<1> DEFINE from == RenameFrom(r)  front == Front(from)
           element == [base |-> Last(from), attempt |-> k]
<1>1. from \in Seq(RenameNames) /\ from # <<>> /\ from \in Seq(RenameElement)
  BY RenamePathsAre
<1>2. RenameAsideOf(r, k) = Append(front, element)
  BY DEF RenameAsideOf
<1> HIDE DEF from
<1>3. /\ front \in Seq(RenameElement) /\ Len(front) = Len(from) - 1 /\ Len(from) >= 1
      /\ \A i \in 1 .. Len(from) - 1 : front[i] = from[i]
      /\ Last(from) = from[Len(from)]
  BY <1>1, RenameFrontIs
<1>3a. Last(from) \in RenameNames
  BY <1>1, RenameFrontIs
<1>4. element \in RenameAsides /\ element \in RenameElement /\ element \notin RenameNames
  BY <1>3a, RenameLetters
<1>4a. element = [base |-> from[Len(from)], attempt |-> k]
  BY <1>3
<1> HIDE DEF front, element
<1>5. /\ Append(front, element) \in Seq(RenameElement) /\ Append(front, element) # <<>>
      /\ Len(Append(front, element)) = Len(front) + 1
      /\ \A i \in 1 .. Len(front) : Append(front, element)[i] = front[i]
      /\ Append(front, element)[Len(front) + 1] = element
  BY <1>3, <1>4, AppendProperties
<1> DEFINE aside == Append(front, element)
<1>6. /\ aside \in Seq(RenameElement) /\ aside # <<>> /\ Len(aside) = Len(from)
      /\ \A i \in 1 .. Len(from) - 1 : aside[i] = from[i]
      /\ aside[Len(from)] = element
  BY <1>3, <1>5
<1> HIDE DEF aside
<1>7. /\ Front(aside) \in Seq(RenameElement) /\ Len(Front(aside)) = Len(from) - 1
      /\ \A i \in 1 .. Len(from) - 1 : Front(aside)[i] = from[i]
      /\ Last(aside) = element
  BY <1>6, RenameFrontIs
<1>8. Front(aside) = front
  <2>1. Len(Front(aside)) = Len(front) /\ \A i \in 1 .. Len(Front(aside)) : Front(aside)[i] = front[i]
    BY <1>3, <1>7
  <2> DEFINE it == Front(aside)
  <2>2. it \in Seq(RenameElement)
    BY <1>7
  <2> HIDE DEF it
  <2>3. Len(it) = Len(front) /\ (\A i \in 1 .. Len(it) : it[i] = front[i]) => it = front
    BY <1>3, <2>2, SeqEqual
  <2>4. QED BY <2>1, <2>3 DEF it
<1>9. RenameAsideOf(r, k) = aside
  BY <1>2 DEF aside
<1>10. QED
  BY <1>4, <1>4a, <1>6, <1>7, <1>8, <1>9 DEF from, front

\* To lie in a directory is a preorder, whose equivalence is to be the same path.
LEMMA RenameLiesOrders ==
    ASSUME renameAsked \in RenameInvocations, NEW p \in Seq(RenameElement),
           NEW q \in Seq(RenameElement), NEW d \in Seq(RenameElement)
    PROVE  /\ RenameSame(p, p) /\ RenameLies(p, p)
           /\ RenameSame(p, q) <=> RenameLies(p, q) /\ Len(p) = Len(q)
           /\ RenameSame(p, q) <=> RenameSame(q, p)
           /\ RenameSame(p, q) /\ RenameSame(q, d) => RenameSame(p, d)
           /\ RenameLies(p, q) => Len(q) <= Len(p)
           /\ RenameLies(p, q) /\ RenameLies(q, d) => RenameLies(p, d)
           /\ RenameLies(p, q) /\ RenameLies(p, d) /\ Len(d) <= Len(q) => RenameLies(q, d)
           /\ RenameLies(p, q) /\ RenameLies(p, d) /\ Len(d) = Len(q) => RenameSame(q, d)
<1> DEFINE same(a, b, n) == \A i \in 1 .. n : RenameLetter(a[i]) = RenameLetter(b[i])
<1>1. \A a, b \in Seq(RenameElement) :
        /\ RenameSame(a, b) <=> Len(a) = Len(b) /\ same(a, b, Len(a))
        /\ RenameLies(a, b) <=> Len(b) <= Len(a) /\ same(a, b, Len(b))
  BY RenameSameMeans, RenameLiesMeans
<1>2. \A a \in Seq(RenameElement) : Len(a) \in Nat
  OBVIOUS
<1>3. ASSUME NEW a, NEW b, NEW c, NEW m \in Nat, NEW n \in Nat, m <= n
      PROVE  /\ same(a, a, n) /\ (same(a, b, n) <=> same(b, a, n))
             /\ same(a, b, n) => same(a, b, m)
             /\ same(a, b, n) /\ same(b, c, m) => same(a, c, m)
  <2>1. 1 .. m \subseteq 1 .. n
    BY <1>3
  <2>2. same(a, a, n) /\ (same(a, b, n) <=> same(b, a, n))
    OBVIOUS
  <2>3. same(a, b, n) => same(a, b, m)
    BY <2>1
  <2>4. same(a, b, m) /\ same(b, c, m) => same(a, c, m)
    OBVIOUS
  <2> HIDE DEF same
  <2>5. QED BY <2>2, <2>3, <2>4
<1> HIDE DEF same
<1>4. Len(p) \in Nat /\ Len(q) \in Nat /\ Len(d) \in Nat
  OBVIOUS
<1>5. /\ same(p, p, Len(p)) /\ (same(p, q, Len(p)) <=> same(q, p, Len(p)))
      /\ Len(d) <= Len(q) /\ same(p, q, Len(q)) /\ same(q, d, Len(d)) => same(p, d, Len(d))
      /\ Len(d) <= Len(q) /\ same(p, q, Len(q)) /\ same(p, d, Len(d)) => same(q, d, Len(d))
  BY <1>3, <1>4
<1>6. /\ RenameSame(p, q) <=> Len(p) = Len(q) /\ same(p, q, Len(p))
      /\ RenameSame(q, p) <=> Len(q) = Len(p) /\ same(q, p, Len(q))
      /\ RenameSame(q, d) <=> Len(q) = Len(d) /\ same(q, d, Len(q))
      /\ RenameSame(p, d) <=> Len(p) = Len(d) /\ same(p, d, Len(p))
      /\ RenameSame(p, p) <=> Len(p) = Len(p) /\ same(p, p, Len(p))
      /\ RenameLies(p, q) <=> Len(q) <= Len(p) /\ same(p, q, Len(q))
      /\ RenameLies(q, d) <=> Len(d) <= Len(q) /\ same(q, d, Len(d))
      /\ RenameLies(p, d) <=> Len(d) <= Len(p) /\ same(p, d, Len(d))
      /\ RenameLies(p, p) <=> Len(p) <= Len(p) /\ same(p, p, Len(p))
  BY <1>1
<1>7. QED BY <1>4, <1>5, <1>6

\* What is moved with a directory lies in the new one as it lay in the old one.
LEMMA RenameMovedLies ==
    ASSUME renameAsked \in RenameInvocations, NEW p \in Seq(RenameElement),
           NEW old \in Seq(RenameElement), NEW new \in Seq(RenameElement), RenameLies(p, old)
    PROVE  /\ RenameMoved(p, old, new) \in Seq(RenameElement)
           /\ RenameLies(RenameMoved(p, old, new), new)
           /\ Len(RenameMoved(p, old, new)) = Len(new) + Len(p) - Len(old)
           /\ Len(old) <= Len(p)
           /\ RenameSame(RenameMoved(p, old, new), new) <=> RenameSame(p, old)
           /\ p = old => RenameMoved(p, old, new) = new
<1> DEFINE moved == RenameMoved(p, old, new)
<1>1. /\ moved \in Seq(RenameElement) /\ Len(moved) = Len(new) + Len(p) - Len(old)
      /\ \A i \in 1 .. Len(moved) : moved[i] = IF i <= Len(new) THEN new[i]
                                               ELSE p[i - Len(new) + Len(old)]
  BY RenameMovedIs
<1>2. Len(old) <= Len(p) /\ Len(new) \in Nat /\ Len(p) \in Nat /\ Len(old) \in Nat
  BY DEF RenameLies
<1> HIDE DEF moved
<1>3a. Len(moved) \in Nat /\ Len(new) <= Len(moved)
  BY <1>1, <1>2
<1>3. Len(new) <= Len(moved) /\ \A i \in 1 .. Len(new) : moved[i] = new[i]
  BY <1>2, <1>3a, <1>1
<1>4. RenameLies(moved, new)
  BY <1>3, <1>1, RenameLiesMeans
<1>5. RenameSame(moved, new) <=> RenameSame(p, old)
  <2>1. RenameSame(moved, new) <=> RenameLies(moved, new) /\ Len(moved) = Len(new)
    BY <1>1, RenameLiesOrders
  <2>2. RenameSame(p, old) <=> RenameLies(p, old) /\ Len(p) = Len(old)
    BY RenameLiesOrders
  <2>3. Len(moved) = Len(new) <=> Len(p) = Len(old)
    <3> DEFINE a == Len(new)  b == Len(p)  c == Len(old)
    <3>1. a \in Nat /\ b \in Nat /\ c \in Nat /\ Len(moved) = a + b - c
      BY <1>1, <1>2
    <3> HIDE DEF a, b, c
    <3>2. a + b - c = a <=> b = c
      BY <3>1
    <3>3. QED BY <3>1, <3>2 DEF a, b, c
  <2>4. QED BY <1>4, <2>1, <2>2, <2>3
<1>6. ASSUME p = old PROVE moved = new
  BY <1>1, <1>2, <1>3, <1>6, SeqEqual
<1>7. QED BY <1>1, <1>2, <1>4, <1>5, <1>6 DEF moved

\* Paths moved along differ as they did.
LEMMA RenameMovedSame ==
    ASSUME renameAsked \in RenameInvocations, NEW p \in Seq(RenameElement),
           NEW q \in Seq(RenameElement), NEW old \in Seq(RenameElement),
           NEW new \in Seq(RenameElement), RenameLies(p, old), RenameLies(q, old), RenameSame(p, q)
    PROVE  RenameSame(RenameMoved(p, old, new), RenameMoved(q, old, new))
<1> DEFINE m == RenameMoved(p, old, new)  n == RenameMoved(q, old, new)
<1>1. /\ m \in Seq(RenameElement) /\ Len(m) = Len(new) + Len(p) - Len(old)
      /\ \A i \in 1 .. Len(m) : m[i] = IF i <= Len(new) THEN new[i] ELSE p[i - Len(new) + Len(old)]
  BY RenameMovedIs
<1>2. /\ n \in Seq(RenameElement) /\ Len(n) = Len(new) + Len(q) - Len(old)
      /\ \A i \in 1 .. Len(n) : n[i] = IF i <= Len(new) THEN new[i] ELSE q[i - Len(new) + Len(old)]
  BY RenameMovedIs
<1>3. Len(p) = Len(q) /\ \A i \in 1 .. Len(p) : RenameLetter(p[i]) = RenameLetter(q[i])
  BY RenameSameMeans
<1> HIDE DEF m, n
<1>4. Len(m) = Len(n)
  BY <1>1, <1>2, <1>3
<1>5. ASSUME NEW i \in 1 .. Len(m) PROVE RenameLetter(m[i]) = RenameLetter(n[i])
  <2>1. CASE i <= Len(new)
    BY <1>1, <1>2, <1>4, <2>1
  <2>2. CASE ~(i <= Len(new))
    <3>1. m[i] = p[i - Len(new) + Len(old)] /\ n[i] = q[i - Len(new) + Len(old)]
      BY <1>1, <1>2, <1>4, <2>2
    <3>2. i - Len(new) + Len(old) \in 1 .. Len(p)
      BY <1>1, <2>2
    <3>3. QED BY <1>3, <3>1, <3>2
  <2>3. QED BY <2>1, <2>2
<1>6. QED BY <1>1, <1>2, <1>4, <1>5, RenameSameMeans DEF m, n

\* An intermediate name is nobody's but its own, and nothing lies in it that has
\* names of the run only.
LEMMA RenameAsidesApart ==
    ASSUME renameAsked \in RenameInvocations, NEW r \in RenameRun, NEW s \in RenameRun,
           NEW j \in 0 .. RenameAttempts - 1, NEW k \in 0 .. RenameAttempts - 1
    PROVE  /\ \A p \in Seq(RenameNames) : ~RenameLies(p, RenameAsideOf(s, k))
           /\ RenameLies(RenameAsideOf(r, j), RenameFrom(s)) =>
                /\ RenameLies(RenameFrom(r), RenameFrom(s))
                /\ Len(RenameFrom(s)) < Len(RenameFrom(r))
           /\ RenameLies(RenameAsideOf(r, j), RenameAsideOf(s, k)) => r = s /\ j = k
<1> DEFINE n == Len(RenameFrom(s))  m == Len(RenameFrom(r))
<1>1. /\ RenameFrom(s) \in Seq(RenameElement) /\ n \in Nat /\ n >= 1
      /\ RenameFrom(r) \in Seq(RenameElement) /\ m \in Nat /\ m >= 1
      /\ \A i \in 1 .. n : RenameFrom(s)[i] \in RenameNames
      /\ \A i \in 1 .. m : RenameFrom(r)[i] \in RenameNames
  BY RenamePathsAre
<1>2. \A e \in RenameNames, f \in RenameAsides : RenameLetter(e) # RenameLetter(f)
  BY RenameLetters
<1>3. Seq(RenameNames) \subseteq Seq(RenameElement)
  BY SeqMonotonic DEF RenameElement
<1>4. ASSUME NEW p \in Seq(RenameNames), RenameLies(p, RenameAsideOf(s, k)) PROVE FALSE
  <2>1. /\ RenameAsideOf(s, k) \in Seq(RenameElement) /\ Len(RenameAsideOf(s, k)) = n
        /\ RenameAsideOf(s, k)[n] \in RenameAsides
    BY RenameAsideIs
  <2>2. n <= Len(p) /\ RenameLetter(p[n]) = RenameLetter(RenameAsideOf(s, k)[n])
    BY <1>1, <1>3, <1>4, <2>1, RenameLiesMeans
  <2>3. p[n] \in RenameNames
    BY <1>1, <1>4, <2>2
  <2>4. QED BY <1>2, <2>1, <2>2, <2>3
<1> DEFINE a == RenameAsideOf(r, j)
<1>5. /\ a \in Seq(RenameElement) /\ Len(a) = m /\ a[m] \in RenameAsides
      /\ \A i \in 1 .. m - 1 : a[i] = RenameFrom(r)[i]
      /\ a[m] = [base |-> RenameFrom(r)[m], attempt |-> j]
  BY RenameAsideIs
<1> HIDE DEF n, m, a
<1>6. ASSUME RenameLies(a, RenameFrom(s)) PROVE RenameLies(RenameFrom(r), RenameFrom(s)) /\ n < m
  <2>1. n <= m /\ \A i \in 1 .. n : RenameLetter(a[i]) = RenameLetter(RenameFrom(s)[i])
    BY <1>1, <1>5, <1>6, RenameLiesMeans DEF n
  <2>2. n # m
    BY <1>1, <2>1, <1>2, <1>5
  <2>3. \A i \in 1 .. n : RenameLetter(RenameFrom(r)[i]) = RenameLetter(RenameFrom(s)[i])
    BY <1>1, <2>1, <2>2, <1>5
  <2>4. RenameLies(RenameFrom(r), RenameFrom(s))
    BY <1>1, <2>1, <2>3, RenameLiesMeans DEF n, m
  <2>5. QED BY <1>1, <2>1, <2>2, <2>4
<1>7. ASSUME RenameLies(a, RenameAsideOf(s, k)) PROVE r = s /\ j = k
  <2> DEFINE b == RenameAsideOf(s, k)
  <2>1. /\ b \in Seq(RenameElement) /\ Len(b) = n /\ b[n] \in RenameAsides
        /\ \A i \in 1 .. n - 1 : b[i] = RenameFrom(s)[i]
        /\ b[n] = [base |-> RenameFrom(s)[n], attempt |-> k]
    BY RenameAsideIs DEF n
  <2> HIDE DEF b
  <2>2. n <= m /\ \A i \in 1 .. n : RenameLetter(a[i]) = RenameLetter(b[i])
    BY <1>7, <1>5, <2>1, RenameLiesMeans DEF b
  <2>3. n \in 1 .. n
    BY <1>1
  <2>4. n = m
    <3>1. SUFFICES ASSUME n < m PROVE FALSE
      BY <1>1, <2>2
    <3>2. n \in 1 .. m - 1 /\ n \in 1 .. m
      BY <1>1, <3>1
    <3>3. a[n] \in RenameNames
      BY <1>1, <1>5, <3>2
    <3>4. RenameLetter(a[n]) = RenameLetter(b[n])
      BY <2>2, <2>3
    <3>5. QED BY <1>2, <2>1, <3>3, <3>4
  <2>5. RenameFrom(r)[m] \in RenameNames /\ RenameFrom(s)[n] \in RenameNames
    BY <1>1
  <2>6. RenameLetter(RenameFrom(r)[m]) = RenameLetter(RenameFrom(s)[n]) /\ j = k
    BY <2>2, <2>3, <1>5, <2>1, <2>4, <2>5, RenameLetters
  <2>7. \A i \in 1 .. m : RenameLetter(RenameFrom(r)[i]) = RenameLetter(RenameFrom(s)[i])
    <3>1. ASSUME NEW i \in 1 .. m PROVE RenameLetter(RenameFrom(r)[i]) = RenameLetter(RenameFrom(s)[i])
      <4>1. CASE i = m
        BY <2>4, <2>6, <4>1
      <4>2. CASE i # m
        <5>1. i \in 1 .. m - 1 /\ i \in 1 .. n - 1 /\ i \in 1 .. n
          BY <1>1, <2>4, <3>1, <4>2
        <5>2. QED BY <1>5, <2>1, <2>2, <5>1
      <4>3. QED BY <4>1, <4>2
    <3>2. QED BY <3>1
  <2>8. RenameSame(RenameFrom(r), RenameFrom(s))
    BY <1>1, <2>4, <2>7, RenameSameMeans DEF n, m
  <2>9. QED BY <2>6, <2>8, RenameAskedRight
<1>8. QED BY <1>4, <1>6, <1>7 DEF a, n, m

\* Nobody else's move takes along what nobody carries.
LEMMA RenameUncarried ==
    ASSUME renameAsked \in RenameInvocations, NEW r \in RenameRun, NEW s \in RenameRun \ {r},
           NEW k \in 0 .. RenameAttempts - 1, ~RenameCarried(r)
    PROVE  /\ ~RenameLies(RenameFrom(r), RenameFrom(s))
           /\ RenameLies(RenameGoal(r), RenameFrom(s)) => RenameSame(RenameGoal(r), RenameFrom(s))
           /\ ~RenameLies(RenameAsideOf(r, k), RenameFrom(s))
<1>1. ~RenameLies(RenameFrom(r), RenameFrom(s)) /\ ~RenameLies(Front(RenameGoal(r)), RenameFrom(s))
  BY DEF RenameCarried, RenameFrom
<1>2. ASSUME RenameLies(RenameGoal(r), RenameFrom(s)), ~RenameSame(RenameGoal(r), RenameFrom(s))
      PROVE  FALSE
  <2> DEFINE goal == RenameGoal(r)  from == RenameFrom(s)
  <2>1. goal \in Seq(RenameElement) /\ from \in Seq(RenameElement) /\ goal # <<>>
    BY RenamePathsAre
  <2>2. /\ Front(goal) \in Seq(RenameElement) /\ Len(Front(goal)) = Len(goal) - 1
        /\ \A i \in 1 .. Len(goal) - 1 : Front(goal)[i] = goal[i]
    BY <2>1, RenameFrontIs
  <2>3. Len(from) <= Len(goal) /\ \A i \in 1 .. Len(from) : RenameLetter(goal[i]) = RenameLetter(from[i])
    BY <1>2, <2>1, RenameLiesMeans
  <2>4. Len(from) # Len(goal)
    BY <1>2, <2>1, RenameLiesOrders
  <2> DEFINE front == Front(goal)
  <2>5. front \in Seq(RenameElement) /\ Len(from) <= Len(front)
        /\ \A i \in 1 .. Len(from) : front[i] = goal[i]
    <3>1. Len(from) \in Nat /\ Len(goal) \in Nat
      BY <2>1
    <3> DEFINE n == Len(from)  m == Len(goal)
    <3>2. n \in Nat /\ m \in Nat /\ n <= m /\ n # m
      BY <2>3, <2>4, <3>1
    <3> HIDE DEF n, m
    <3>3. n <= m - 1 /\ \A i \in 1 .. n : i \in 1 .. m - 1
      BY <3>2
    <3>4. QED BY <2>2, <3>3 DEF n, m
  <2> HIDE DEF goal, from, front
  <2>6. RenameLies(front, from)
    BY <2>1, <2>3, <2>5, RenameLiesMeans
  <2>7. QED BY <1>1, <2>6 DEF goal, from, front
<1>3. QED BY <1>1, <1>2, RenameAsidesApart

\* What is asked of a run does not change, nor what depends on it alone.
LEMMA RenameSteady ==
    ASSUME renameAsked' = renameAsked
    PROVE  /\ RenameRun' = RenameRun
           /\ \A p, q : RenameSame(p, q)' <=> RenameSame(p, q)
           /\ \A p, q : RenameLies(p, q)' <=> RenameLies(p, q)
           /\ \A r : RenameFrom(r)' = RenameFrom(r) /\ RenameGoal(r)' = RenameGoal(r)
           /\ \A r, k : RenameAsideOf(r, k)' = RenameAsideOf(r, k)
           /\ \A r : RenameCarried(r)' <=> RenameCarried(r)
           /\ \A r : RenameEntangled(r)' <=> RenameEntangled(r)
           /\ \A r : RenameSucceeded(r)' <=> RenameSucceeded(r)
BY DEF RenameRun, RenameSame, RenameLies, RenameFrom, RenameGoal, RenameAsideOf, RenameCarried, RenameEntangled,
  RenameSucceeded

\* What is occupied are paths of the run.
LEMMA RenameOccupiedIs ==
    ASSUME RenameTyped
    PROVE  /\ RenameOccupied \subseteq Seq(RenameElement) \ {<<>>}
           /\ \A r \in RenameRun : renameWhere[r] \in RenameOccupied
                                   /\ renameWhere[r] \in Seq(RenameElement) \ {<<>>}
  BY DEF RenameTyped, RenameOccupied, Range

\* A directory exists if something lies in it or is it.
LEMMA RenameExistsAbove ==
    ASSUME RenameTyped, RenameClosed, NEW z \in RenameOccupied,
           NEW p \in Seq(RenameElement) \ {<<>>}, RenameLies(z, p)
    PROVE  RenameExists(p)
<1>1. z \in Seq(RenameElement)
  BY RenameOccupiedIs
<1>2. Len(p) \in 1 .. Len(z)
  BY EmptySeq, <1>1 DEF RenameLies
<1> DEFINE head == SubSeq(z, 1, Len(p))
<1>3. RenameExists(head)
  BY <1>2 DEF RenameClosed
<1>4. RenameSame(head, p)
  BY DEF RenameLies
<1>5. head \in Seq(RenameElement) /\ Len(head) = Len(p)
  BY <1>1, <1>2, SubSeqProperties
<1> HIDE DEF head
<1>6. head # <<>>
  BY <1>2, <1>5, EmptySeq
<1>7. PICK x \in RenameOccupied : RenameSame(head, x)
  BY <1>3, <1>6 DEF RenameExists
<1>8. renameAsked \in RenameInvocations /\ x \in Seq(RenameElement)
  BY RenameOccupiedIs DEF RenameTyped
<1>9. RenameSame(p, x)
  BY <1>4, <1>5, <1>7, <1>8, RenameLiesOrders
<1>10. QED BY <1>9 DEF RenameExists

\* What exists is occupied, and so is what is the same.
LEMMA RenameExistsSame ==
    ASSUME RenameTyped, NEW p \in Seq(RenameElement) \ {<<>>}, NEW q \in Seq(RenameElement) \ {<<>>},
           RenameSame(p, q)
    PROVE  /\ RenameExists(p) <=> RenameExists(q)
           /\ RenameExists(p) <=> \E x \in RenameOccupied : RenameSame(p, x)
BY RenameOccupiedIs, RenameLiesOrders DEF RenameTyped, RenameExists

\* A directory is moved, with all that lies in it.
RenameMoving(old, new) ==
    /\ old \in Seq(RenameElement) \ {<<>>} /\ new \in Seq(RenameElement) \ {<<>>}
    /\ renameAsked' = renameAsked
    /\ RenameCan(old, new) /\ RenameMove(old, new)

\* What is occupied after a move is what was, moved.
LEMMA RenameMovingOccupies ==
    ASSUME RenameTyped, NEW old, NEW new, RenameMoving(old, new)
    PROVE  /\ RenameOccupied' = {RenameMoved(x, old, new) : x \in RenameOccupied}
           /\ \A r \in RenameRun : renameWhere'[r] = RenameMoved(renameWhere[r], old, new)
           /\ \A x \in RenameOccupied : RenameMoved(x, old, new) \in Seq(RenameElement) \ {<<>>}
           /\ renameWhere' \in [RenameRun -> Seq(RenameElement) \ {<<>>}]
           /\ renameDirectories' \subseteq Seq(RenameElement) \ {<<>>}
<1>1. /\ renameWhere' = [q \in RenameRun |-> RenameMoved(renameWhere[q], old, new)]
      /\ renameDirectories' = {RenameMoved(d, old, new) : d \in renameDirectories}
  BY DEF RenameMoving, RenameMove
<1>2. DOMAIN renameWhere = RenameRun
  BY DEF RenameTyped
<1>3. RenameOccupied' = {RenameMoved(x, old, new) : x \in RenameOccupied}
  BY <1>1, <1>2 DEF RenameOccupied, Range
<1>4. ASSUME NEW x \in RenameOccupied PROVE RenameMoved(x, old, new) \in Seq(RenameElement) \ {<<>>}
  BY RenameOccupiedIs, RenameMovedLies, EmptySeq DEF RenameTyped, RenameMoving, RenameMoved
<1>5. QED BY <1>1, <1>3, <1>4, RenameOccupiedIs DEF RenameOccupied, Range, RenameTyped

\* What comes along to where something is, or to a path that leads to something,
\* comes to the new place itself, which was free, or the new place is the old one.
LEMMA RenameArrives ==
    ASSUME RenameTyped, RenameClosed, NEW old, NEW new, RenameMoving(old, new),
           NEW x \in RenameOccupied, RenameLies(x, old), NEW p \in Seq(RenameElement) \ {<<>>},
           RenameSame(p, RenameMoved(x, old, new))
    PROVE  /\ RenameLies(p, new)
           /\ RenameExists(new) => RenameLies(p, old) /\ RenameSame(old, new)
           /\ ~RenameExists(new) =>
                 /\ RenameSame(p, new) <=> RenameSame(x, old)
                 /\ ~RenameExists(p)
                 /\ \A z \in RenameOccupied : ~RenameLies(z, p) /\ ~RenameLies(z, new)
<1> DEFINE moved == RenameMoved(x, old, new)
<1>1. /\ renameAsked \in RenameInvocations /\ x \in Seq(RenameElement)
      /\ old \in Seq(RenameElement) /\ new \in Seq(RenameElement) /\ new # <<>>
  BY RenameOccupiedIs DEF RenameMoving, RenameTyped
<1>2. /\ moved \in Seq(RenameElement) /\ RenameLies(moved, new)
      /\ RenameSame(moved, new) <=> RenameSame(x, old)
  BY <1>1, RenameMovedLies
<1> HIDE DEF moved
<1>3. RenameSame(p, moved)
  BY DEF moved
<1>4. RenameLies(p, new) /\ (RenameSame(p, new) <=> RenameSame(moved, new))
  BY <1>1, <1>2, <1>3, RenameLiesOrders
<1>5. ASSUME RenameExists(new) PROVE RenameLies(p, old) /\ RenameSame(old, new)
  BY <1>5, <1>1, RenameLiesOrders, <1>4 DEF RenameMoving, RenameCan
<1>6. ASSUME ~RenameExists(new), NEW z \in RenameOccupied PROVE ~RenameLies(z, p) /\ ~RenameLies(z, new)
  BY <1>1, <1>6, RenameExistsAbove, RenameOccupiedIs, <1>4, RenameLiesOrders
<1>7. ASSUME ~RenameExists(new) PROVE ~RenameExists(p)
  BY <1>1, RenameOccupiedIs, RenameLiesOrders, <1>6, <1>7 DEF RenameExists
<1>8. QED BY <1>2, <1>4, <1>5, <1>6, <1>7

\* The beginning of a path
LEMMA RenameHeadIs ==
    ASSUME renameAsked \in RenameInvocations, NEW p \in Seq(RenameElement), NEW n \in 1 .. Len(p)
    PROVE  /\ SubSeq(p, 1, n) \in Seq(RenameElement) \ {<<>>} /\ Len(SubSeq(p, 1, n)) = n
           /\ \A i \in 1 .. n : SubSeq(p, 1, n)[i] = p[i]
           /\ RenameLies(p, SubSeq(p, 1, n))
<1> DEFINE head == SubSeq(p, 1, n)
<1>1. head \in Seq(RenameElement) /\ Len(head) = n /\ \A i \in 1 .. n : head[i] = p[i]
  BY SubSeqProperties
<1> HIDE DEF head
<1>2. head # <<>> /\ n <= Len(p)
  BY <1>1, EmptySeq
<1>3. RenameLies(p, head)
  BY <1>1, <1>2, RenameLiesMeans
<1>4. QED BY <1>1, <1>2, <1>3 DEF head

\* A move leaves no path that leads through nothing.
LEMMA RenameMovingCloses ==
    ASSUME RenameTyped, RenameClosed, NEW old, NEW new, RenameMoving(old, new)
    PROVE  RenameClosed'
<1> USE RenameOccupiedIs
<1>1. /\ renameAsked \in RenameInvocations
      /\ old \in Seq(RenameElement) /\ old # <<>> /\ new \in Seq(RenameElement) /\ new # <<>>
  BY DEF RenameMoving, RenameTyped
<1>2. SUFFICES ASSUME NEW x \in RenameOccupied, NEW n \in 1 .. Len(RenameMoved(x, old, new))
               PROVE  \E z \in RenameOccupied :
                        RenameSame(SubSeq(RenameMoved(x, old, new), 1, n), RenameMoved(z, old, new))
  <2>1. SUFFICES ASSUME NEW y \in RenameOccupied', NEW n \in 1 .. Len(y)
                 PROVE  RenameExists(SubSeq(y, 1, n))'
    BY DEF RenameClosed
  <2>2. PICK x \in RenameOccupied : y = RenameMoved(x, old, new)
    BY RenameMovingOccupies
  <2>3. PICK z \in RenameOccupied : RenameSame(SubSeq(y, 1, n), RenameMoved(z, old, new))
    BY <1>2, <2>1, <2>2
  <2>4. PICK w \in RenameOccupied' : RenameSame(SubSeq(y, 1, n), w)
    BY <2>3, RenameMovingOccupies
  <2>5. RenameSame(SubSeq(y, 1, n), w)'
    BY <2>4, RenameSteady DEF RenameMoving
  <2>6. QED BY <2>5 DEF RenameExists
<1> DEFINE y == RenameMoved(x, old, new)  p == SubSeq(y, 1, n)
<1>3. y \in Seq(RenameElement) /\ x \in Seq(RenameElement)
  BY RenameMovingOccupies
<1>4. /\ p \in Seq(RenameElement) /\ p # <<>> /\ Len(p) = n /\ RenameLies(y, p)
      /\ \A i \in 1 .. n : p[i] = y[i]
  BY <1>1, <1>3, RenameHeadIs
<1>5. CASE ~RenameLies(x, old)
  <2>1. y = x
    BY <1>5 DEF RenameMoved
  <2>2. RenameExists(p)
    BY <1>4, <2>1, RenameExistsAbove
  <2>3. PICK z \in RenameOccupied : RenameSame(p, z)
    BY <1>4, <2>2 DEF RenameExists
  <2>4. z \in Seq(RenameElement)
    OBVIOUS
  <2> HIDE DEF p, y
  <2>5. ~RenameLies(z, old)
    BY <1>1, <1>3, <1>4, <2>1, <2>3, <2>4, RenameLiesOrders, <1>5
  <2>6. RenameMoved(z, old, new) = z
    BY <2>5 DEF RenameMoved
  <2>7. QED BY <2>3, <2>6 DEF p, y
<1>6. CASE RenameLies(x, old)
  <2>1. /\ Len(y) = Len(new) + Len(x) - Len(old) /\ Len(old) <= Len(x) /\ RenameLies(y, new)
        /\ \A i \in 1 .. Len(y) : y[i] = IF i <= Len(new) THEN new[i] ELSE x[i - Len(new) + Len(old)]
    BY <1>1, <1>3, <1>6, RenameMovedIs, RenameMovedLies
  <2>2. n \in 1 .. Len(y) /\ Len(new) \in Nat \ {0} /\ Len(old) \in Nat \ {0} /\ Len(x) \in Nat
    BY <1>1, <1>3, EmptySeq
  <2> HIDE DEF p, y
  <2>3. CASE n < Len(new)
    <3> DEFINE front == Front(new)
    <3>1. front \in Seq(RenameElement) /\ Len(front) = Len(new) - 1
          /\ \A i \in 1 .. Len(new) - 1 : front[i] = new[i]
      BY <1>1, RenameFrontIs
    <3>2. RenameExists(front) /\ ~RenameLies(front, old)
      BY DEF RenameMoving, RenameCan
    <3> HIDE DEF front
    <3>3. front # <<>>
      BY <2>2, <2>3, <3>1, EmptySeq
    <3>4. PICK f \in RenameOccupied : RenameSame(front, f)
      BY <3>2, <3>3 DEF RenameExists
    <3>5. RenameLies(front, p)
      <4>1. n <= Len(front)
            /\ \A i \in 1 .. n : i \in 1 .. Len(new) - 1 /\ i \in 1 .. Len(y) /\ i <= Len(new)
        BY <2>2, <2>3, <3>1
      <4>2. \A i \in 1 .. n : front[i] = p[i]
        BY <1>4, <2>1, <3>1, <4>1
      <4>3. QED BY <1>1, <1>4, <3>1, <4>1, <4>2, RenameLiesMeans
    <3>6. f \in Seq(RenameElement)
      OBVIOUS
    <3>7. RenameLies(f, p)
      BY <1>1, <1>4, <3>1, <3>4, <3>5, <3>6, RenameLiesOrders
    <3>8. RenameExists(p)
      BY <1>4, <3>7, RenameExistsAbove
    <3>9. PICK z \in RenameOccupied : RenameSame(p, z)
      BY <1>4, <3>8 DEF RenameExists
    <3>10. z \in Seq(RenameElement)
      OBVIOUS
    <3>11. RenameLies(front, z)
      BY <1>1, <1>4, <3>1, <3>5, <3>9, <3>10, RenameLiesOrders
    <3>12. ~RenameLies(z, old)
      BY <1>1, <3>1, <3>2, <3>10, <3>11, RenameLiesOrders
    <3>13. RenameMoved(z, old, new) = z
      BY <3>12 DEF RenameMoved
    <3>14. QED BY <3>9, <3>13 DEF p, y
  <2>4. CASE n = Len(new)
    <3>1. PICK z \in RenameOccupied : RenameSame(old, z)
      BY <1>1 DEF RenameMoving, RenameCan, RenameExists
    <3>2. z \in Seq(RenameElement)
      OBVIOUS
    <3>3. RenameLies(z, old) /\ RenameSame(z, old)
      BY <1>1, <3>1, <3>2, RenameLiesOrders
    <3> DEFINE it == RenameMoved(z, old, new)
    <3>4. it \in Seq(RenameElement) /\ RenameSame(it, new)
      BY <1>1, <3>2, <3>3, RenameMovedLies
    <3> HIDE DEF it
    <3>5. RenameSame(p, new)
      BY <1>1, <1>3, <1>4, <2>1, <2>4, RenameLiesOrders
    <3>6. RenameSame(p, it)
      BY <1>1, <1>4, <3>4, <3>5, RenameLiesOrders
    <3>7. QED BY <3>6 DEF it, p, y
  <2>5. CASE n > Len(new)
    <3> DEFINE m == n - Len(new) + Len(old)  q == SubSeq(x, 1, m)
    <3>1. m \in 1 .. Len(x) /\ Len(old) <= m
      BY <2>1, <2>2, <2>5
    <3>2. /\ q \in Seq(RenameElement) /\ q # <<>> /\ Len(q) = m /\ RenameLies(x, q)
          /\ \A i \in 1 .. m : q[i] = x[i]
      BY <1>1, <1>3, <3>1, RenameHeadIs
    <3> HIDE DEF q
    <3>3. RenameLies(q, old)
      BY <1>1, <1>3, <1>6, <3>1, <3>2, RenameLiesOrders
    <3>4. RenameExists(q)
      BY <3>2, RenameExistsAbove
    <3>5. PICK z \in RenameOccupied : RenameSame(q, z)
      BY <3>2, <3>4 DEF RenameExists
    <3>6. z \in Seq(RenameElement)
      OBVIOUS
    <3>7. RenameLies(z, old)
      BY <1>1, <3>2, <3>3, <3>5, <3>6, RenameLiesOrders
    <3>8. RenameSame(RenameMoved(q, old, new), RenameMoved(z, old, new))
      BY <1>1, <3>2, <3>3, <3>5, <3>6, <3>7, RenameMovedSame
    <3> DEFINE it == RenameMoved(q, old, new)
    <3>9. /\ it \in Seq(RenameElement) /\ Len(it) = Len(new) + Len(q) - Len(old)
          /\ \A i \in 1 .. Len(it) : it[i] = IF i <= Len(new) THEN new[i] ELSE q[i - Len(new) + Len(old)]
      BY <1>1, <3>2, <3>3, RenameMovedIs
    <3> HIDE DEF it
    <3>10. Len(it) = n
      BY <2>2, <3>2, <3>9
    <3>11. \A i \in 1 .. n : it[i] = p[i]
      <4>1. SUFFICES ASSUME NEW i \in 1 .. n PROVE it[i] = p[i]
        OBVIOUS
      <4>2. i \in 1 .. Len(y) /\ i \in 1 .. Len(it) /\ p[i] = y[i]
        BY <1>4, <2>2, <3>10
      <4>3. CASE i <= Len(new)
        BY <2>1, <3>9, <4>2, <4>3
      <4>4. CASE ~(i <= Len(new))
        <5>1. i - Len(new) + Len(old) \in 1 .. m
          BY <2>2, <4>4
        <5>2. q[i - Len(new) + Len(old)] = x[i - Len(new) + Len(old)]
          BY <3>2, <5>1
        <5>3. QED BY <2>1, <3>9, <4>2, <4>4, <5>2
      <4>5. QED BY <4>3, <4>4
    <3>12. it = p
      BY <1>4, <3>9, <3>10, <3>11, SeqEqual
    <3>13. QED BY <3>8, <3>12 DEF it, p, y
  <2>6. QED BY <2>2, <2>3, <2>4, <2>5
<1>7. QED BY <1>5, <1>6

----------------------------------------
\* Steps of RepositoryRename

\* s goes on and moves nothing.
RenameTurns(s) ==
    /\ UNCHANGED <<renameAsked, renameWaiting, renameWhere, renameOutside>>
    /\ \/ /\ renameAt[s] \in {"check", "ask"} /\ RenameEnds(s, "settle", "skipped")
          /\ UNCHANGED <<renameAttempt, renamePath>>
       \/ /\ renameAt[s] \in {"check", "ask", "parent", "aside", "forward"}
          /\ RenameEnds(s, "done", "failed") /\ UNCHANGED <<renameAttempt, renamePath>>
       \/ /\ \/ renameAt[s] = "check" /\ RenameGoes(s, "ask")
             \/ renameAt[s] = "ask" /\ RenameGoes(s, "parent")
             \/ renameAt[s] = "parent" /\ RenameGoes(s, "direct")
             \/ renameAt[s] = "direct" /\ RenameGoes(s, "aside")
          /\ UNCHANGED <<renameOutcome, renameAttempt, renamePath>>
       \/ /\ renameAt[s] \in {"aside", "forward"} /\ renameAttempt[s] + 1 < RenameAttempts
          /\ renameAttempt' = [renameAttempt EXCEPT ![s] = @ + 1]
          /\ RenameGoes(s, "aside") /\ UNCHANGED <<renameOutcome, renamePath>>
       \/ /\ renameAt[s] = "settle" /\ RenameGoes(s, "done")
          /\ renamePath' = [renamePath EXCEPT ![s] = IF RenameCompleted(s) THEN RenameGoal(s) ELSE @]
          /\ UNCHANGED <<renameOutcome, renameAttempt>>

\* The directories made lie in what is there or was made with them.
RenameMakes(made) ==
    /\ made \subseteq Seq(RenameElement) \ {<<>>}
    /\ \A d \in made : \A n \in 1 .. Len(d) :
          RenameExists(SubSeq(d, 1, n)) \/ SubSeq(d, 1, n) \in made
    /\ renameDirectories' = renameDirectories \cup made

\* s moves itself, or what is where it is believed to be.
RenameMovesAs(s, old, new) ==
    /\ RenameMoving(old, new)
    /\ UNCHANGED <<renameWaiting, renamePath, renameAttempt, renameOutside>>
    /\ \/ /\ renameAt[s] = "direct" /\ old = RenameFrom(s) /\ new = RenameGoal(s)
          /\ RenameEnds(s, "settle", "renamed")
       \/ /\ renameAt[s] = "aside" /\ old = RenameFrom(s)
          /\ new = RenameAsideOf(s, renameAttempt[s])
          /\ RenameGoes(s, "forward") /\ UNCHANGED renameOutcome
       \/ /\ renameAt[s] = "forward" /\ old = RenameAsideOf(s, renameAttempt[s])
          /\ new = RenameGoal(s) /\ RenameEnds(s, "settle", "renamed")

\* What a step of gix, or of somebody else, is
RenameStepOf(s) ==
    \/ RenameStart(s)
    \/ RenameTurns(s) /\ UNCHANGED renameDirectories
    \/ /\ RenameTurns(s) /\ renameAt[s] = "parent" /\ renameAt'[s] = "direct"
       /\ \E made : RenameMakes(made) /\ \A d \in made : RenameLies(RenameGoal(s), d)
    \/ \E old, new : RenameMovesAs(s, old, new)
    \/ /\ RenameMakes({RenameGoal(s)}) /\ renameOutside' = TRUE
       /\ UNCHANGED <<renameAsked, renameWaiting, renameAt, renameWhere, renamePath,
                      renameAttempt, renameOutcome>>

\* Until the end a repository is renamed from where it lay to where it is to come.
LEMMA RenameNewIs ==
    ASSUME RenameTold, NEW r \in RenameRun, renameAt[r] # "done"
    PROVE  /\ renamePath[r] = RenameFrom(r) /\ RenameNew(r) = RenameGoal(r)
           /\ RenameAside(r) = RenameAsideOf(r, renameAttempt[r])
  BY DEF RenameTold, RenameNew, RenameGoal, RenameFrom, RenameAside, RenameAsideOf

\* Directories are made down from the one that is there.
LEMMA RenameMakesParents ==
    ASSUME RenameTyped, RenameTold, NEW s \in RenameRun, RenameParent(s)
    PROVE  RenameStepOf(s)
<1> DEFINE parent == Front(RenameGoal(s))
           missing == {SubSeq(parent, 1, n) : n \in 1 .. Len(parent)}
           made == {p \in missing : ~RenameExists(p)}
<1>1. renameAt[s] = "parent" /\ RenameNew(s) = RenameGoal(s) /\ renameAsked \in RenameInvocations
      /\ renameAt \in [RenameRun -> RenamePCs]
  BY RenameNewIs DEF RenameParent, RenameTyped
<1>2. \/ RenameGoes(s, "direct") /\ UNCHANGED <<renameOutcome, renameDirectories>>
      \/ RenameGoes(s, "direct") /\ UNCHANGED renameOutcome
         /\ renameDirectories' = renameDirectories \cup made
      \/ RenameEnds(s, "done", "failed") /\ UNCHANGED renameDirectories
  BY <1>1 DEF RenameParent
<1>3. UNCHANGED <<renameAsked, renameWaiting, renameWhere, renamePath, renameAttempt, renameOutside>>
  BY DEF RenameParent
<1>4. CASE \/ RenameGoes(s, "direct") /\ UNCHANGED <<renameOutcome, renameDirectories>>
           \/ RenameEnds(s, "done", "failed") /\ UNCHANGED renameDirectories
  BY <1>1, <1>3, <1>4 DEF RenameStepOf, RenameTurns
<1>5. CASE RenameGoes(s, "direct") /\ UNCHANGED renameOutcome
           /\ renameDirectories' = renameDirectories \cup made
  <2>1. parent \in Seq(RenameElement) /\ RenameGoal(s) \in Seq(RenameElement)
        /\ Len(parent) = Len(RenameGoal(s)) - 1
        /\ \A i \in 1 .. Len(RenameGoal(s)) - 1 : parent[i] = RenameGoal(s)[i]
    BY <1>1, RenamePathsAre, RenameFrontIs
  <2> HIDE DEF parent
  <2>2. RenameLies(RenameGoal(s), parent)
    BY <1>1, <2>1, RenameLiesMeans, SMTT(20)
  <2>3. ASSUME NEW d \in made
        PROVE  /\ d \in Seq(RenameElement) \ {<<>>} /\ RenameLies(RenameGoal(s), d)
               /\ \A n \in 1 .. Len(d) : RenameExists(SubSeq(d, 1, n)) \/ SubSeq(d, 1, n) \in made
    <3>1. PICK m \in 1 .. Len(parent) : d = SubSeq(parent, 1, m)
      OBVIOUS
    <3>2. /\ d \in Seq(RenameElement) \ {<<>>} /\ Len(d) = m /\ RenameLies(parent, d)
          /\ \A i \in 1 .. m : d[i] = parent[i]
      BY <1>1, <2>1, <3>1, RenameHeadIs
    <3>3. RenameLies(RenameGoal(s), d)
      BY <1>1, <2>1, <2>2, <3>2, RenameLiesOrders
    <3>4. ASSUME NEW n \in 1 .. Len(d) PROVE RenameExists(SubSeq(d, 1, n)) \/ SubSeq(d, 1, n) \in made
      <4>1. n \in 1 .. Len(parent) /\ n \in 1 .. m
        BY <2>1, <3>2, <3>4
      <4> DEFINE a == SubSeq(d, 1, n)  b == SubSeq(parent, 1, n)
      <4>2. a \in Seq(RenameElement) /\ Len(a) = n /\ \A i \in 1 .. n : a[i] = d[i]
        BY <1>1, <3>2, RenameHeadIs
      <4>3. b \in Seq(RenameElement) /\ Len(b) = n /\ \A i \in 1 .. n : b[i] = parent[i]
        BY <1>1, <2>1, <4>1, RenameHeadIs
      <4>4. b \in missing
        BY <4>1
      <4> HIDE DEF a, b, missing
      <4>5. \A i \in 1 .. n : a[i] = b[i]
        BY <3>2, <4>1, <4>2, <4>3
      <4>6. a = b
        BY <4>2, <4>3, <4>5, SeqEqual
      <4>7. QED BY <4>4, <4>6 DEF a
    <3>5. QED BY <3>2, <3>3, <3>4
  <2> HIDE DEF made, missing
  <2>4. RenameMakes(made)
    BY <1>5, <2>3 DEF RenameMakes
  <2>5. RenameTurns(s) /\ renameAt'[s] = "direct"
    BY <1>1, <1>3, <1>5 DEF RenameTurns, RenameGoes
  <2>6. QED BY <1>1, <2>3, <2>4, <2>5 DEF RenameStepOf
<1>6. QED BY <1>2, <1>4, <1>5

\* The operator makes a directory where its parent is.
LEMMA RenameMakesPlace ==
    ASSUME RenameTyped, RenameTold, RenameClosed, NEW s \in RenameRun, RenameOutsider(s)
    PROVE  RenameStepOf(s)
<1> DEFINE goal == RenameGoal(s)  parent == Front(goal)
<1>1. renameAt[s] # "done" /\ RenameNew(s) = RenameGoal(s) /\ renameAsked \in RenameInvocations
  BY RenameNewIs DEF RenameOutsider, RenameTyped
<1>2. /\ RenameExists(parent) /\ renameDirectories' = renameDirectories \cup {goal}
      /\ renameOutside' = TRUE
      /\ UNCHANGED <<renameAsked, renameWaiting, renameAt, renameWhere, renamePath,
                     renameAttempt, renameOutcome>>
  BY <1>1 DEF RenameOutsider
<1>3. /\ goal \in Seq(RenameElement) \ {<<>>} /\ parent \in Seq(RenameElement)
      /\ Len(parent) = Len(goal) - 1 /\ \A i \in 1 .. Len(goal) - 1 : parent[i] = goal[i]
  BY <1>1, RenamePathsAre, RenameFrontIs
<1> HIDE DEF goal, parent
<1>4. ASSUME NEW n \in 1 .. Len(goal)
      PROVE  RenameExists(SubSeq(goal, 1, n)) \/ SubSeq(goal, 1, n) = goal
  <2> DEFINE a == SubSeq(goal, 1, n)
  <2>1. a \in Seq(RenameElement) \ {<<>>} /\ Len(a) = n /\ RenameLies(goal, a)
        /\ \A i \in 1 .. n : a[i] = goal[i]
    BY <1>1, <1>3, RenameHeadIs
  <2> HIDE DEF a
  <2>2. CASE n = Len(goal)
    BY <1>3, <2>1, <2>2, SeqEqual DEF a
  <2>3. CASE n # Len(goal)
    <3>1. n <= Len(parent) /\ parent # <<>> /\ \A i \in 1 .. n : i \in 1 .. Len(goal) - 1
      BY <1>3, <2>3, EmptySeq
    <3>2. RenameLies(parent, a)
      BY <1>1, <1>3, <2>1, <3>1, RenameLiesMeans
    <3>3. PICK f \in RenameOccupied : RenameSame(parent, f)
      BY <1>2, <3>1 DEF RenameExists
    <3>4. f \in Seq(RenameElement)
      BY RenameOccupiedIs
    <3>5. RenameLies(f, a)
      BY <1>1, <1>3, <2>1, <3>2, <3>3, <3>4, RenameLiesOrders
    <3>6. QED BY <2>1, <3>5, RenameExistsAbove DEF a
  <2>4. QED BY <2>2, <2>3
<1>5. RenameMakes({goal})
  BY <1>2, <1>3, <1>4 DEF RenameMakes
<1>6. QED BY <1>2, <1>5 DEF RenameStepOf, goal

\* Every step is one of these.
LEMMA RenameStepIs ==
    ASSUME RenameTyped, RenameTold, RenameClosed, RenameNext
    PROVE  \E s \in RenameRun : RenameStepOf(s)
<1>1. PICK s \in RenameRun :
        \/ RenameStart(s) \/ RenameCheck(s) \/ RenameAsk(s) \/ RenameParent(s)
        \/ RenameDirect(s) \/ RenameMoveAside(s) \/ RenameMoveForward(s)
        \/ RenameSettle(s) \/ RenameOutsider(s)
  BY DEF RenameNext, RenameRuns
<1>2. renameAsked \in RenameInvocations /\ renameAttempt[s] \in 0 .. RenameAttempts - 1
  BY DEF RenameTyped
<1>3. /\ RenameFrom(s) \in Seq(RenameElement) \ {<<>>} /\ RenameGoal(s) \in Seq(RenameElement) \ {<<>>}
      /\ RenameAsideOf(s, renameAttempt[s]) \in Seq(RenameElement) \ {<<>>}
  BY <1>2, RenamePathsAre, RenameAsideIs
<1>4. CASE RenameStart(s)
  BY <1>4 DEF RenameStepOf
<1>5. CASE RenameCheck(s)
  BY <1>5 DEF RenameCheck, RenameTurns, RenameEnds, RenameStepOf
<1>6. CASE RenameAsk(s)
  BY <1>6 DEF RenameAsk, RenameTurns, RenameEnds, RenameStepOf
<1>7. CASE RenameParent(s)
  BY <1>7, RenameMakesParents
<1>8. CASE RenameDirect(s)
  BY <1>8, RenameNewIs, <1>3 DEF RenameDirect, RenameTurns, RenameMovesAs, RenameMoving, RenameStepOf
<1>9. CASE RenameMoveAside(s)
  BY <1>9, RenameNewIs, <1>3 DEF RenameMoveAside, RenameNextAttempt, RenameTurns, RenameMovesAs, RenameMoving,
    RenameStepOf
<1>10. CASE RenameMoveForward(s)
  BY <1>10, RenameNewIs, <1>3 DEF RenameMoveForward, RenameNextAttempt, RenameTurns, RenameMovesAs,
    RenameMoving, RenameStepOf
<1>11. CASE RenameSettle(s)
  BY <1>11, RenameNewIs DEF RenameSettle, RenameTurns, RenameStepOf
<1>12. CASE RenameOutsider(s)
  BY <1>12, RenameMakesPlace
<1>13. QED BY <1>1, <1>4, <1>5, <1>6, <1>7, <1>8, <1>9, <1>10, <1>11, <1>12

\* A step that begins no repository leaves those that wait waiting.
LEMMA RenameStepLeaves ==
    ASSUME RenameTyped, NEW s \in RenameRun, RenameStepOf(s), ~RenameStart(s)
    PROVE  /\ renameAsked' = renameAsked /\ renameWaiting' = renameWaiting
           /\ renameAt' \in [RenameRun -> RenamePCs]
           /\ \A r \in RenameRun :
                /\ renameAt'[r] = "waiting" <=> renameAt[r] = "waiting"
                /\ renameAt[r] = "done" => renameAt'[r] = "done"
           /\ renameAttempt' \in [RenameRun -> 0 .. RenameAttempts - 1]
           /\ renameOutcome' \in [RenameRun -> {"none", "skipped", "failed", "renamed"}]
<1>1. /\ renameAt \in [RenameRun -> RenamePCs]
      /\ renameAttempt \in [RenameRun -> 0 .. RenameAttempts - 1]
      /\ renameOutcome \in [RenameRun -> {"none", "skipped", "failed", "renamed"}]
      /\ RenameAttempts \in Nat
  BY RenameAssumption DEF RenameTyped
<1>2. CASE RenameTurns(s)
  BY <1>2, <1>1 DEF RenameTurns, RenameEnds, RenamePCs, RenameGoes
<1>3. ASSUME NEW old, NEW new, RenameMovesAs(s, old, new)
      PROVE  /\ renameAsked' = renameAsked /\ renameWaiting' = renameWaiting
             /\ \E at \in RenamePCs \ {"waiting"} :
                  RenameGoes(s, at) /\ renameAt[s] \notin {"waiting", "done"}
             /\ renameAttempt' = renameAttempt
             /\ renameOutcome' \in [RenameRun -> {"none", "skipped", "failed", "renamed"}]
  BY <1>1, <1>3 DEF RenameMovesAs, RenameMoving, RenameEnds, RenamePCs
<1>4. CASE \E old, new : RenameMovesAs(s, old, new)
  BY <1>1, <1>3, <1>4 DEF RenameGoes
<1>5. CASE UNCHANGED <<renameAsked, renameWaiting, renameAt, renameWhere, renamePath,
                       renameAttempt, renameOutcome>>
  BY <1>1, <1>5
<1>6. QED BY <1>2, <1>4, <1>5 DEF RenameStepOf

\* The first of those that wait begins.
LEMMA RenameStartsWaiting ==
    ASSUME RenameTyped, RenameOrdered, NEW s \in RenameRun, RenameStart(s)
    PROVE  renameAt[s] = "waiting"
BY EmptySeq DEF RenameTyped, RenameStart, RenameOrdered

\* Begun repositories are at least as deep as those that wait.
LEMMA RenameOrderedStep ==
    ASSUME RenameTyped, RenameOrdered, NEW s \in RenameRun, RenameStepOf(s)
    PROVE  RenameOrdered'
<1>1. renameAsked \in RenameInvocations /\ renameAt \in [RenameRun -> RenamePCs]
      /\ renameWaiting \in Seq(RenameRun)
  BY DEF RenameTyped
<1>2. CASE ~RenameStart(s)
  BY <1>2, RenameStepLeaves, RenameSteady, <1>1 DEF RenameOrdered
<1>3. CASE RenameStart(s)
  <2>1. /\ renameWaiting # <<>> /\ Head(renameWaiting) = s /\ renameWaiting' = Tail(renameWaiting)
        /\ renameAt' = [renameAt EXCEPT ![s] = "check"] /\ renameAsked' = renameAsked
        /\ Cardinality({q \in RenameRun : renameAt[q] \notin {"waiting", "done"}}) < renameAsked.workers
    BY <1>3 DEF RenameStart, RenameGoes
  <2>2. RenameRun' = RenameRun /\ \A r : RenameFrom(r)' = RenameFrom(r)
    BY <2>1, RenameSteady
  <2> DEFINE n == Len(renameWaiting)
  <2>3. /\ n \in Nat \ {0} /\ DOMAIN renameWaiting = 1 .. n /\ renameWaiting[1] = s
        /\ DOMAIN Tail(renameWaiting) = 1 .. n - 1
        /\ \A i \in 1 .. n - 1 : Tail(renameWaiting)[i] = renameWaiting[i + 1]
    BY <1>1, <2>1, EmptySeq, HeadTailProperties
  <2>4. \A i \in 1 .. n : renameWaiting[i] \in RenameRun
    BY <1>1
  <2> HIDE DEF n
  <2>5. \A i \in 1 .. n - 1 : i + 1 \in 1 .. n /\ 1 \in 1 .. n /\ 1 < i + 1
    BY <2>3
  <2>6. \A i \in 1 .. n - 1 : renameWaiting[i + 1] # s /\ renameAt[renameWaiting[i + 1]] = "waiting"
    BY <2>3, <2>5 DEF RenameOrdered
  <2>7. \A i \in DOMAIN renameWaiting' : renameAt'[renameWaiting'[i]] = "waiting"
    BY <1>1, <2>1, <2>3, <2>4, <2>5, <2>6
  <2>8. ASSUME NEW r \in RenameRun, renameAt'[r] = "waiting"
        PROVE  r # s /\ \E i \in 1 .. n - 1 : renameWaiting[i + 1] = r
    <3>1. r # s /\ renameAt[r] = "waiting"
      BY <1>1, <2>1, <2>8
    <3>2. PICK i \in 1 .. n : renameWaiting[i] = r
      BY <2>3, <3>1 DEF RenameOrdered
    <3>3. i - 1 \in 1 .. n - 1 /\ (i - 1) + 1 = i
      BY <2>3, <3>1, <3>2
    <3>4. QED BY <3>1, <3>2, <3>3
  <2>9. \A r \in RenameRun : renameAt'[r] = "waiting" =>
          \E i \in DOMAIN renameWaiting' : renameWaiting'[i] = r
    BY <2>1, <2>3, <2>8
  <2>10. ASSUME NEW i \in 1 .. n - 1, NEW j \in 1 .. n - 1, i < j
         PROVE  /\ Tail(renameWaiting)[i] # Tail(renameWaiting)[j]
                /\ Len(RenameFrom(Tail(renameWaiting)[i])) >= Len(RenameFrom(Tail(renameWaiting)[j]))
    BY <2>3, <2>10 DEF RenameOrdered
  <2>11. ASSUME NEW q \in RenameRun, NEW r \in RenameRun, renameAt'[q] # "waiting",
                renameAt'[r] = "waiting"
         PROVE  Len(RenameFrom(q)) >= Len(RenameFrom(r))
    <3>1. CASE q = s
      <4>1. PICK i \in 1 .. n - 1 : renameWaiting[i + 1] = r
        BY <2>8, <2>11
      <4>2. QED BY <2>3, <2>5, <3>1, <4>1 DEF RenameOrdered
    <3>2. CASE q # s
      BY <1>1, <2>1, <2>8, <2>11, <3>2 DEF RenameOrdered
    <3>3. QED BY <3>1, <3>2
  <2>12. ASSUME renameAsked.workers = 1, NEW q \in RenameRun, NEW r \in RenameRun,
                renameAt'[q] \notin {"waiting", "done"}, renameAt'[r] \notin {"waiting", "done"}
         PROVE  q = r
    <3> DEFINE active == {t \in RenameRun : renameAt[t] \notin {"waiting", "done"}}
    <3>1. IsFiniteSet(active)
      BY <1>1, RenameAskedRight, FS_Subset
    <3>2. Cardinality(active) \in Nat /\ Cardinality(active) < 1
      BY <2>1, <2>12, <3>1, FS_CardinalityType
    <3>3. active = {}
      BY <3>1, <3>2, FS_EmptySet
    <3>4. q = s /\ r = s
      BY <1>1, <2>1, <2>12, <3>3
    <3>5. QED BY <3>4
  <2>13. \A i, j \in DOMAIN renameWaiting' : i < j =>
           /\ renameWaiting'[i] # renameWaiting'[j]
           /\ Len(RenameFrom(renameWaiting'[i])) >= Len(RenameFrom(renameWaiting'[j]))
    BY <2>1, <2>3, <2>10
  <2>14. QED BY <2>1, <2>2, <2>7, <2>9, <2>11, <2>12, <2>13 DEF RenameOrdered
<1>4. QED BY <1>2, <1>3

\* Each part of the state stays of its type.
LEMMA RenameTypedStep ==
    ASSUME RenameTyped, RenameTold, NEW s \in RenameRun, RenameStepOf(s)
    PROVE  RenameTyped' /\ renameAsked' = renameAsked
<1>1. renameAsked' = renameAsked
  BY RenameStepLeaves DEF RenameStart
<1>2. RenameRun' = RenameRun
  BY <1>1, RenameSteady
<1>3. CASE RenameStart(s)
  BY <1>3, HeadTailProperties, <1>2 DEF RenameStart, RenameTyped, RenameGoes, RenamePCs
<1>4. CASE ~RenameStart(s)
  BY RenameMovingOccupies, <1>4, <1>1, <1>2, RenameStepLeaves DEF RenameMovesAs, RenameTurns, RenameTyped,
    RenameMakes, RenameStepOf
<1>5. QED BY <1>1, <1>3, <1>4

\* A path told is that from before, and at the end perhaps the new one.
LEMMA RenameToldStep ==
    ASSUME RenameTyped, RenameOrdered, RenameTold, NEW s \in RenameRun, RenameStepOf(s)
    PROVE  RenameTold'
<1>1. /\ renameAsked' = renameAsked /\ RenameRun' = RenameRun
      /\ \A r : RenameFrom(r)' = RenameFrom(r) /\ RenameGoal(r)' = RenameGoal(r)
  BY RenameTypedStep, RenameSteady
<1>2. /\ renamePath \in [RenameRun -> Seq(RenameNames) \ {<<>>}]
      /\ \A r \in RenameRun : renamePath[r] = RenameFrom(r)
                              \/ (renameAt[r] = "done" /\ renamePath[r] = RenameGoal(r))
  BY DEF RenameTold
<1>3. RenameGoal(s) \in Seq(RenameNames) \ {<<>>} /\ renameAt \in [RenameRun -> RenamePCs]
  BY RenamePathsAre DEF RenameTyped
<1>4. \A r \in RenameRun : renameAt[r] = "done" => renameAt'[r] = "done"
  BY RenameStartsWaiting, <1>3, RenameStepLeaves DEF RenameStart, RenameGoes
<1>5. \/ renamePath' = renamePath
      \/ /\ renameAt'[s] = "done"
         /\ renamePath' = [renamePath EXCEPT ![s] = IF RenameCompleted(s) THEN RenameGoal(s) ELSE @]
  BY <1>3 DEF RenameStepOf, RenameStart, RenameTurns, RenameMovesAs, RenameGoes
<1>6. QED BY <1>1, <1>2, <1>3, <1>4, <1>5 DEF RenameTold

\* Where nothing moves, what exists goes on to exist; where nothing is made either,
\* nothing else does.
LEMMA RenameExistsStays ==
    ASSUME renameAsked' = renameAsked, renameWhere' = renameWhere,
           renameDirectories \subseteq renameDirectories'
    PROVE  /\ \A p : RenameExists(p) => RenameExists(p)'
           /\ renameDirectories' = renameDirectories => \A p : RenameExists(p)' => RenameExists(p)
<1>1. RenameOccupied \subseteq RenameOccupied'
      /\ renameDirectories' = renameDirectories => RenameOccupied' = RenameOccupied
  BY DEF RenameOccupied
<1>2. \A p, q : RenameSame(p, q)' <=> RenameSame(p, q)
  BY RenameSteady
<1>3. ASSUME NEW p, RenameExists(p) PROVE RenameExists(p)'
  <2>1. CASE p = <<>>
    BY <2>1 DEF RenameExists
  <2>2. CASE \E x \in RenameOccupied : RenameSame(p, x)
    <3>1. PICK x \in RenameOccupied : RenameSame(p, x)
      BY <2>2
    <3>2. x \in RenameOccupied'
      BY <3>1 DEF RenameOccupied
    <3>3. RenameSame(p, x)'
      BY <3>1 DEF RenameSame
    <3>4. QED BY <3>2, <3>3 DEF RenameExists
  <2>3. QED BY <1>3, <2>1, <2>2 DEF RenameExists
<1>4. ASSUME renameDirectories' = renameDirectories, NEW p, RenameExists(p)' PROVE RenameExists(p)
  BY <1>4, <1>2 DEF RenameOccupied, RenameExists
<1>5. QED BY <1>3, <1>4

\* No step leaves a path that leads through nothing.
LEMMA RenameClosedStep ==
    ASSUME RenameTyped, RenameTold, RenameClosed, NEW s \in RenameRun, RenameStepOf(s)
    PROVE  RenameClosed'
<1>1. renameAsked' = renameAsked
  BY RenameTypedStep
<1>2. ASSUME NEW old, NEW new, RenameMovesAs(s, old, new) PROVE RenameClosed'
  BY <1>2, RenameMovingCloses DEF RenameMovesAs
<1>3. CASE renameWhere' = renameWhere /\ renameDirectories' = renameDirectories
  BY <1>3, <1>1, RenameExistsStays DEF RenameOccupied, RenameClosed
<1>4. ASSUME NEW made, RenameMakes(made), renameWhere' = renameWhere PROVE RenameClosed'
  <2>1. RenameOccupied' = RenameOccupied \cup made /\ renameDirectories \subseteq renameDirectories'
    BY <1>4 DEF RenameOccupied, RenameMakes
  <2>2. \A p : RenameExists(p) => RenameExists(p)'
    BY <1>1, <1>4, <2>1, RenameExistsStays
  <2>3. \A p \in made : RenameExists(p)'
    BY <2>1 DEF RenameExists, RenameSame
  <2>4. \A z \in made : \A n \in 1 .. Len(z) :
          RenameExists(SubSeq(z, 1, n)) \/ SubSeq(z, 1, n) \in made
    BY <1>4 DEF RenameMakes
  <2>5. QED BY <2>1, <2>2, <2>3, <2>4 DEF RenameClosed
<1>5. QED
  BY <1>2, <1>3, <1>4 DEF RenameStepOf, RenameStart, RenameTurns

\* With one worker, who is not done while another is renamed waits, at most as deep.
LEMMA RenameOthersWait ==
    ASSUME RenameTyped, RenameOrdered, renameAsked.workers = 1,
           NEW s \in RenameRun, renameAt[s] \notin {"waiting", "done"},
           NEW r \in RenameRun \ {s}, renameAt[r] # "done"
    PROVE  renameAt[r] = "waiting" /\ Len(RenameFrom(s)) >= Len(RenameFrom(r))
  BY DEF RenameOrdered

\* Another one's move does not take along a repository that nobody else moves.
LEMMA RenameUnmoved ==
    ASSUME RenameTyped, RenameOrdered, RenamePlacedOK, RenameOwnOK,
           NEW s \in RenameRun, renameAt[s] \notin {"waiting", "done"},
           NEW r \in RenameRun \ {s}, RenameAlone(r), NEW k \in 0 .. RenameAttempts - 1
    PROVE  ~RenameLies(renameWhere[r], RenameFrom(s))
           /\ ~RenameLies(renameWhere[r], RenameAsideOf(s, k))
<1>1. renameAsked \in RenameInvocations /\ RenamePlaced(r) /\ renameAsked.workers \in Nat \ {0}
  BY RenameAskedRight DEF RenamePlacedOK, RenameTyped
<1>2. /\ RenameFrom(r) \in Seq(RenameNames) /\ RenameFrom(r) \in Seq(RenameElement)
      /\ RenameGoal(r) \in Seq(RenameNames) /\ RenameGoal(r) \in Seq(RenameElement)
      /\ RenameFrom(s) \in Seq(RenameElement)
  BY <1>1, RenamePathsAre
<1>3. CASE renameAsked.workers = 1 /\ renameAt[r] # "done"
  BY <1>3, RenameOthersWait, <1>1, <1>2, RenameLiesOrders, RenameAskedRight, RenameAsidesApart DEF RenamePlaced,
    RenameLies
<1>4. CASE ~RenameEntangled(r)
  BY <1>4, <1>1, <1>2, RenameUncarried, RenameAsidesApart, RenameOthersWait DEF RenameEntangled, RenamePlaced,
    RenameIsAside, RenameOwnOK, RenameDone, RenameFrom
<1>5. QED BY <1>3, <1>4 DEF RenameAlone

\* What a move is of, where it comes from and where it goes
LEMMA RenameMovesAre ==
    ASSUME RenameTyped, NEW s \in RenameRun, NEW old, NEW new, RenameMovesAs(s, old, new)
    PROVE  /\ renameAt[s] \in {"direct", "aside", "forward"}
           /\ old \in Seq(RenameElement) \ {<<>>} /\ new \in Seq(RenameElement) \ {<<>>}
           /\ renameAttempt[s] \in 0 .. RenameAttempts - 1
           /\ \/ old = RenameFrom(s) \/ old = RenameAsideOf(s, renameAttempt[s])
           /\ \/ new = RenameGoal(s) \/ new = RenameAsideOf(s, renameAttempt[s])
           /\ old # RenameFrom(s) => new = RenameGoal(s)
           /\ renameAt'[s] \in {"settle", "forward"}
           /\ \A r \in RenameRun \ {s} :
                renameAt'[r] = renameAt[r] /\ renameOutcome'[r] = renameOutcome[r]
           /\ renameAttempt' = renameAttempt /\ renamePath' = renamePath
           /\ renameOutside' = renameOutside
  BY DEF RenameMovesAs, RenameMoving, RenameEnds, RenameGoes, RenameTyped

\* A repository that nobody else moves stays while another one is moved.
LEMMA RenameMovesOthers ==
    ASSUME RenameTyped, RenameOrdered, RenamePlacedOK, RenameOwnOK,
           NEW s \in RenameRun, NEW old, NEW new, RenameMovesAs(s, old, new),
           NEW r \in RenameRun \ {s}, RenameAlone(r)
    PROVE  ~RenameLies(renameWhere[r], old) /\ renameWhere'[r] = renameWhere[r]
<1>1. ~RenameLies(renameWhere[r], old)
  BY RenameMovesAre, RenameUnmoved
<1>2. renameWhere'[r] = RenameMoved(renameWhere[r], old, new)
  BY RenameMovingOccupies DEF RenameMovesAs
<1>3. QED BY <1>1, <1>2 DEF RenameMoved

\* What a step leaves alone of the others, and who stays alone
LEMMA RenameStepOthers ==
    ASSUME RenameTyped, RenameOrdered, RenameTold, NEW s \in RenameRun, RenameStepOf(s)
    PROVE  /\ renameAsked' = renameAsked /\ (renameOutside => renameOutside')
           /\ \A r \in RenameRun \ {s} :
                /\ renameAt'[r] = renameAt[r] /\ renameAttempt'[r] = renameAttempt[r]
                /\ renameOutcome'[r] = renameOutcome[r] /\ renamePath'[r] = renamePath[r]
           /\ \A r \in RenameRun : renameAt[r] = "done" => renameAt'[r] = "done"
           /\ \A r \in RenameRun : RenameAlone(r)' => RenameAlone(r)
<1>1. renameAsked' = renameAsked
  BY RenameTypedStep
<1>2. \A r \in RenameRun : renameAt[r] = "done" => renameAt'[r] = "done"
  BY RenameStartsWaiting, RenameStepLeaves DEF RenameStart, RenameGoes, RenameTyped
<1>3. /\ renameAt \in [RenameRun -> RenamePCs]
      /\ renameAttempt \in [RenameRun -> 0 .. RenameAttempts - 1]
      /\ renameOutcome \in [RenameRun -> {"none", "skipped", "failed", "renamed"}]
      /\ renamePath \in [RenameRun -> Seq(RenameNames) \ {<<>>}]
  BY DEF RenameTyped, RenameTold
<1>4. ASSUME RenameTurns(s)
      PROVE  /\ renameOutside' = renameOutside
             /\ \A r \in RenameRun \ {s} :
                  /\ renameAt'[r] = renameAt[r] /\ renameAttempt'[r] = renameAttempt[r]
                  /\ renameOutcome'[r] = renameOutcome[r] /\ renamePath'[r] = renamePath[r]
  BY <1>3, <1>4 DEF RenameTurns, RenameEnds, RenameGoes
<1>5. ASSUME NEW old, NEW new, RenameMovesAs(s, old, new)
      PROVE  /\ renameOutside' = renameOutside
             /\ \A r \in RenameRun \ {s} :
                  /\ renameAt'[r] = renameAt[r] /\ renameAttempt'[r] = renameAttempt[r]
                  /\ renameOutcome'[r] = renameOutcome[r] /\ renamePath'[r] = renamePath[r]
  BY <1>5, RenameMovesAre
<1>6. /\ renameOutside => renameOutside'
      /\ \A r \in RenameRun \ {s} :
           /\ renameAt'[r] = renameAt[r] /\ renameAttempt'[r] = renameAttempt[r]
           /\ renameOutcome'[r] = renameOutcome[r] /\ renamePath'[r] = renamePath[r]
  BY <1>3, <1>4, <1>5 DEF RenameStart, RenameGoes, RenameStepOf
<1>7. ASSUME NEW r \in RenameRun, RenameAlone(r)' PROVE RenameAlone(r)
  BY <1>1, <1>7, RenameSteady, <1>2 DEF RenameAlone
<1>8. QED BY <1>1, <1>2, <1>6, <1>7

\* Of whom nothing changes, that stays where it is.
LEMMA RenamePlacedStays ==
    ASSUME renameAsked' = renameAsked, renameOutside => renameOutside', NEW r \in RenameRun,
           renameAt'[r] = renameAt[r], renameAttempt'[r] = renameAttempt[r],
           renameOutcome'[r] = renameOutcome[r], renameWhere'[r] = renameWhere[r], RenamePlaced(r)
    PROVE  RenamePlaced(r)'
BY RenameSteady DEF RenameIsAside, RenamePlaced, RenameEarly

\* A step of its own that moves nothing leaves a repository where it is to be.
LEMMA RenamePlacedTurns ==
    ASSUME RenameTyped, NEW s \in RenameRun, RenameTurns(s), RenamePlaced(s)
    PROVE  RenamePlaced(s)'
BY RenameSteady, RenameAssumption DEF RenameTurns, RenameIsAside, RenameTyped, RenamePlaced, RenameEnds,
  RenameGoes, RenameEarly

\* A move of its own brings a repository that nobody else moves where it says.
LEMMA RenamePlacedMoves ==
    ASSUME RenameTyped, RenameLeftOK, NEW s \in RenameRun, RenameAlone(s), RenamePlaced(s),
           NEW old, NEW new, RenameMovesAs(s, old, new)
    PROVE  /\ RenamePlaced(s)'
           /\ ~renameOutside => renameWhere[s] = old /\ renameWhere'[s] = new
<1> DEFINE attempt == renameAttempt[s]
<1>1. /\ RenameFrom(s)' = RenameFrom(s) /\ RenameGoal(s)' = RenameGoal(s)
      /\ \A k : RenameAsideOf(s, k)' = RenameAsideOf(s, k)
      /\ renameAsked \in RenameInvocations /\ renameAsked' = renameAsked
  BY RenameSteady DEF RenameMovesAs, RenameMoving, RenameTyped
<1>2. /\ renameAt \in [RenameRun -> RenamePCs] /\ attempt \in 0 .. RenameAttempts - 1
      /\ renameOutcome \in [RenameRun -> {"none", "skipped", "failed", "renamed"}]
      /\ renameAttempt' = renameAttempt /\ renameOutside' = renameOutside
  BY RenameMovesAre DEF RenameTyped, RenameMovesAs
<1>3. /\ renameWhere'[s] = RenameMoved(renameWhere[s], old, new)
      /\ RenameExists(old)
      /\ old \in Seq(RenameElement) /\ new \in Seq(RenameElement)
  BY RenameMovingOccupies DEF RenameMovesAs, RenameMoving, RenameCan
<1>4. renameWhere[s] = old => renameWhere'[s] = new
  BY <1>1, <1>3, RenameLiesOrders, RenameMovedLies
<1>5. ~RenameLies(renameWhere[s], old) => renameWhere'[s] = renameWhere[s]
  BY <1>3 DEF RenameMoved
<1>6. ASSUME NEW k \in 0 .. RenameAttempts - 1
      PROVE  /\ ~RenameLies(RenameAsideOf(s, k), RenameFrom(s))
             /\ RenameLies(RenameAsideOf(s, k), RenameAsideOf(s, attempt)) => k = attempt
  BY <1>1, <1>6, RenameAsidesApart, <1>2, RenamePathsAre
<1>7. CASE /\ renameAt[s] = "direct" /\ old = RenameFrom(s) /\ new = RenameGoal(s)
           /\ RenameEnds(s, "settle", "renamed")
  BY <1>7, <1>2, <1>4, <1>1 DEF RenamePlaced, RenameEnds, RenameGoes
<1>8. CASE /\ renameAt[s] = "aside" /\ old = RenameFrom(s)
           /\ new = RenameAsideOf(s, attempt)
           /\ RenameGoes(s, "forward") /\ UNCHANGED renameOutcome
  <2>1. renameAt'[s] = "forward"
    BY <1>2, <1>8 DEF RenameGoes
  <2>2. CASE renameWhere[s] = RenameFrom(s)
    BY <1>4, <1>8, <2>2, <1>1, <1>2, <2>1 DEF RenamePlaced
  <2>3. CASE renameWhere[s] # RenameFrom(s)
    <3>1. PICK k \in 0 .. RenameAttempts - 1 : k < attempt /\ renameWhere[s] = RenameAsideOf(s, k)
      BY <1>8, <2>3 DEF RenamePlaced, RenameEarly
    <3>2. renameOutside
      BY <1>3, <1>8, <2>3 DEF RenameLeftOK, RenameLeft
    <3>3. renameWhere'[s] = RenameAsideOf(s, k)
      BY <1>5, <1>6, <1>8, <3>1
    <3>4. QED BY <1>1, <1>2, <1>8, <2>1, <3>1, <3>2, <3>3 DEF RenamePlaced
  <2>4. QED BY <2>2, <2>3
<1>9. CASE /\ renameAt[s] = "forward" /\ old = RenameAsideOf(s, attempt)
           /\ new = RenameGoal(s) /\ RenameEnds(s, "settle", "renamed")
  <2>1. renameAt'[s] = "settle" /\ renameOutcome'[s] = "renamed"
    BY <1>2, <1>9 DEF RenameEnds, RenameGoes
  <2>2. PICK k \in 0 .. RenameAttempts - 1 :
            renameWhere[s] = RenameAsideOf(s, k) /\ (k = attempt \/ (k < attempt /\ renameOutside))
    BY <1>9 DEF RenamePlaced, RenameEarly
  <2>3. CASE k = attempt
    BY <1>4, <1>9, <2>2, <2>3, <1>1, <2>1 DEF RenamePlaced
  <2>4. CASE k < attempt /\ renameOutside
    BY <1>2, <2>2, <2>4, <1>5, <1>6, <1>9, <1>1, <2>1 DEF RenameIsAside, RenamePlaced
  <2>5. QED BY <2>2, <2>3, <2>4
<1>10. QED BY <1>7, <1>8, <1>9 DEF RenameMovesAs

\* A repository that nobody else moves stays where its own steps put it.
LEMMA RenamePlacedStep ==
    ASSUME RenameTyped, RenameOrdered, RenameTold, RenamePlacedOK, RenameLeftOK, RenameOwnOK,
           NEW s \in RenameRun, RenameStepOf(s)
    PROVE  RenamePlacedOK'
<1>1. renameAsked' = renameAsked /\ RenameRun' = RenameRun /\ (renameOutside => renameOutside')
  BY RenameStepOthers, RenameSteady
<1>2. SUFFICES ASSUME NEW r \in RenameRun, RenameAlone(r)' PROVE RenamePlaced(r)'
  BY <1>1 DEF RenamePlacedOK
<1>3. RenameAlone(r) /\ RenamePlaced(r)
  BY <1>2, RenameStepOthers DEF RenamePlacedOK
<1>4. CASE r # s
  <2>1. /\ renameAt'[r] = renameAt[r] /\ renameAttempt'[r] = renameAttempt[r]
        /\ renameOutcome'[r] = renameOutcome[r]
    BY <1>2, <1>4, RenameStepOthers
  <2>2. renameWhere'[r] = renameWhere[r]
    BY <1>2, <1>3, <1>4, RenameMovesOthers, RenameMovesAre DEF RenameStepOf, RenameStart, RenameTurns
  <2>3. QED BY <1>1, <1>2, <1>3, <2>1, <2>2, RenamePlacedStays
<1>5. CASE r = s
  BY RenameStartsWaiting, <1>1, <1>3, <1>5, RenameSteady, RenamePlacedTurns, RenamePlacedMoves,
    RenamePlacedStays DEF RenameStart, RenameGoes, RenameTyped, RenamePlaced, RenameEarly, RenameStepOf
<1>6. QED BY <1>4, <1>5

\* What lies in a directory above a repository goes on to when it is aside.
LEMMA RenameAsideLies ==
    ASSUME renameAsked \in RenameInvocations, NEW r \in RenameRun, NEW k \in 0 .. RenameAttempts - 1,
           NEW q \in Seq(RenameElement), RenameLies(RenameFrom(r), q), Len(q) < Len(RenameFrom(r))
    PROVE  RenameLies(RenameAsideOf(r, k), q)
<1> DEFINE from == RenameFrom(r)
           aside == RenameAsideOf(r, k)
<1>1. /\ from \in Seq(RenameElement) /\ aside \in Seq(RenameElement)
      /\ Len(aside) = Len(from) /\ Len(from) \in Nat /\ Len(q) \in Nat
      /\ \A i \in 1 .. Len(from) - 1 : aside[i] = from[i]
  <2>1. from \in Seq(RenameElement) /\ Len(from) \in Nat /\ Len(q) \in Nat
    BY RenamePathsAre
  <2>2. /\ aside \in Seq(RenameElement) /\ Len(aside) = Len(from)
        /\ \A i \in 1 .. Len(from) - 1 : aside[i] = from[i]
    BY RenameAsideIs
  <2>3. QED BY <2>1, <2>2
<1>2. \A i \in 1 .. Len(q) : RenameLetter(from[i]) = RenameLetter(q[i])
  BY <1>1, RenameLiesMeans
<1>3. \A i \in 1 .. Len(q) : aside[i] = from[i]
  BY <1>1
<1>4. Len(q) <= Len(aside) /\ \A i \in 1 .. Len(q) : RenameLetter(aside[i]) = RenameLetter(q[i])
  BY <1>1, <1>2, <1>3
<1> HIDE DEF aside
<1>5. QED BY <1>1, <1>4, RenameLiesMeans DEF aside

\* What exists after a move was there and has not been moved, or has.
LEMMA RenameExistsMoved ==
    ASSUME RenameTyped, NEW old, NEW new, RenameMoving(old, new),
           NEW p \in Seq(RenameElement) \ {<<>>}, \E y \in RenameOccupied' : RenameSame(p, y)
    PROVE  \/ \E x \in RenameOccupied : ~RenameLies(x, old) /\ RenameSame(p, x)
           \/ \E x \in RenameOccupied : RenameLies(x, old) /\ RenameSame(p, RenameMoved(x, old, new))
<1>1. RenameOccupied' = {RenameMoved(x, old, new) : x \in RenameOccupied}
  BY RenameMovingOccupies
<1>2. PICK y \in RenameOccupied' : RenameSame(p, y)
  OBVIOUS
<1>3. PICK x \in RenameOccupied : y = RenameMoved(x, old, new)
  BY <1>1, <1>2
<1>4. QED BY <1>2, <1>3 DEF RenameMoved

\* Something is, after a step, where a repository was at first.
LEMMA RenameFromExists ==
    ASSUME renameAsked' = renameAsked, NEW r \in RenameRun, RenameExists(RenameFrom(r))'
    PROVE  RenameFrom(r) = <<>> \/ \E y \in RenameOccupied' : RenameSame(RenameFrom(r), y)
BY RenameSteady DEF RenameExists, RenameSame, RenameFold

\* Nobody comes, in another worker, to the place a repository that is aside has left.
LEMMA RenameLeftOthers ==
    ASSUME RenameTyped, RenameClosed, RenameOrdered, RenamePlacedOK,
           NEW s \in RenameRun, NEW old, NEW new, RenameMovesAs(s, old, new),
           NEW r \in RenameRun \ {s}, ~RenameEntangled(r), renameAsked.workers # 1,
           renameAt[r] \in {"aside", "forward"}, renameWhere[r] # RenameFrom(r),
           ~RenameExists(RenameFrom(r))
    PROVE  ~RenameExists(RenameFrom(r))'
<1> DEFINE from == RenameFrom(r)
           attempt == renameAttempt[s]
<1>1. /\ renameAsked \in RenameInvocations /\ RenamePlaced(r) /\ ~RenameCarried(r)
      /\ renameAsked' = renameAsked /\ from' = from
  BY RenameSteady DEF RenameTyped, RenamePlacedOK, RenameAlone, RenameEntangled, RenameMovesAs, RenameMoving
<1>2. /\ from \in Seq(RenameElement) \ {<<>>} /\ from \in Seq(RenameNames)
      /\ RenameGoal(s) \in Seq(RenameElement) \ {<<>>} /\ Len(from) \in Nat /\ Len(RenameGoal(s)) \in Nat
      /\ RenameFrom(s) \in Seq(RenameElement)
  BY <1>1, RenamePathsAre
<1>3. ~RenameLies(RenameGoal(s), from)
  BY <1>1, RenameAskedRight DEF RenameEntangled, RenameFrom
<1>4. /\ RenameMoving(old, new) /\ attempt \in 0 .. RenameAttempts - 1
      /\ old = RenameFrom(s) \/ old = RenameAsideOf(s, attempt)
      /\ new = RenameGoal(s) \/ new = RenameAsideOf(s, attempt)
  BY RenameMovesAre DEF RenameMovesAs
<1>5. SUFFICES ASSUME RenameExists(from)' PROVE FALSE
  BY <1>1
<1>6. \A x \in RenameOccupied : ~RenameSame(from, x)
  BY <1>2, RenameExistsSame DEF RenameExists
<1>7. PICK x \in RenameOccupied : RenameLies(x, old) /\ RenameSame(from, RenameMoved(x, old, new))
  BY <1>1, <1>2, <1>4, <1>5, <1>6, RenameFromExists, RenameExistsMoved
<1>8. /\ RenameLies(from, new)
      /\ RenameExists(new) => RenameLies(from, old)
      /\ ~RenameExists(new) => \A z \in RenameOccupied : ~RenameLies(z, new)
  BY <1>2, <1>4, <1>7, RenameArrives
<1>9. new = RenameGoal(s)
  BY <1>1, <1>2, <1>4, <1>8, RenameAsidesApart
<1>10. ~RenameExists(new)
  BY <1>1, <1>2, <1>4, <1>8, RenameUncarried, RenameAsidesApart
<1>11. PICK k \in 0 .. RenameAttempts - 1 : renameWhere[r] = RenameAsideOf(r, k)
  BY <1>1 DEF RenamePlaced, RenameEarly
<1>12. ~RenameLies(RenameAsideOf(r, k), new)
  BY <1>8, <1>10, <1>11, RenameOccupiedIs
<1>13. Len(new) = Len(from)
  BY <1>8, <1>1, <1>2, <1>9, <1>12, RenameAsideLies DEF RenameLies
<1>14. RenameSame(from, new)
  BY <1>1, <1>2, <1>8, <1>9, <1>13, RenameLiesOrders
<1>15. RenameLies(new, from)
  BY <1>1, <1>2, <1>9, <1>13, <1>14, RenameLiesOrders
<1>16. QED BY <1>3, <1>9, <1>15

\* A move of its own leaves the place free from which a repository comes.
LEMMA RenameLeftMoves ==
    ASSUME RenameTyped, RenameClosed, RenamePlacedOK, RenameLeftOK,
           NEW s \in RenameRun, RenameAlone(s), ~renameOutside,
           NEW old, NEW new, RenameMovesAs(s, old, new)
    PROVE  RenameLeft(s)'
<1> DEFINE from == RenameFrom(s)
           goal == RenameGoal(s)
           attempt == renameAttempt[s]
           aside == RenameAsideOf(s, attempt)
<1>1. /\ renameAsked \in RenameInvocations /\ RenamePlaced(s) /\ RenameLeft(s)
      /\ renameAsked' = renameAsked /\ from' = from /\ goal' = goal
      /\ \A p, q : RenameSame(p, q)' <=> RenameSame(p, q)
  BY RenameSteady DEF RenameTyped, RenamePlacedOK, RenameLeftOK, RenameMovesAs, RenameMoving
<1>2. /\ from \in Seq(RenameElement) \ {<<>>} /\ from \in Seq(RenameNames)
      /\ goal \in Seq(RenameElement) \ {<<>>} /\ Len(from) \in Nat /\ Len(goal) \in Nat
      /\ Len(goal) >= Len(from)
  BY <1>1, RenamePathsAre
<1>3. /\ RenameMoving(old, new) /\ attempt \in 0 .. RenameAttempts - 1
      /\ renameAt \in [RenameRun -> RenamePCs]
      /\ aside \in Seq(RenameElement)
  BY <1>1, RenameMovesAre, RenameAsideIs DEF RenameMovesAs, RenameTyped
<1>4. ~RenameLies(from, aside)
  BY <1>1, <1>2, <1>3, RenameAsidesApart
<1>5. ASSUME RenameExists(from)', old # from => ~RenameExists(from)
      PROVE  new = goal /\ RenameSame(from, goal)
  <2>1. \A y \in RenameOccupied : ~RenameLies(y, old) => ~RenameSame(from, y)
    BY RenameOccupiedIs, <1>1, <1>2, RenameLiesOrders, <1>5 DEF RenameExists
  <2>2. PICK x \in RenameOccupied : RenameLies(x, old) /\ RenameSame(from, RenameMoved(x, old, new))
    BY <1>1, <1>2, <1>3, <1>5, <2>1, RenameFromExists, RenameExistsMoved
  <2>3. RenameLies(from, new)
    BY <1>2, <1>3, <2>2, RenameArrives
  <2>4. new = goal
    BY <1>4, <2>3, RenameMovesAre
  <2>5. Len(goal) = Len(from)
    BY <2>3, <2>4, <1>2 DEF RenameLies
  <2>6. QED BY <1>1, <1>2, <2>3, <2>4, <2>5, RenameLiesOrders
<1>6. CASE /\ renameAt[s] = "direct" /\ old = from /\ new = goal
           /\ RenameEnds(s, "settle", "renamed")
  BY <1>3, <1>6, <1>5, <1>1 DEF RenameEnds, RenameGoes, RenameLeft
<1>7. CASE /\ renameAt[s] = "aside" /\ old = from /\ new = aside
           /\ RenameGoes(s, "forward") /\ UNCHANGED renameOutcome
  BY <1>3, <1>7, <1>1, RenamePathsAre, RenameLiesOrders, RenameAsidesApart, <1>5 DEF RenameGoes, RenameLeft
<1>8. CASE /\ renameAt[s] = "forward" /\ old = aside
           /\ new = goal /\ RenameEnds(s, "settle", "renamed")
  BY <1>3, <1>8, RenamePlacedMoves, <1>1, <1>2, <1>4, RenameLiesOrders, <1>5 DEF RenameEnds, RenameGoes,
    RenameLeft
<1>9. QED BY <1>6, <1>7, <1>8 DEF RenameMovesAs

\* The place a repository has left stays free as long as nobody makes a directory.
LEMMA RenameLeftStep ==
    ASSUME RenameTyped, RenameOrdered, RenameTold, RenameClosed, RenamePlacedOK, RenameLeftOK,
           RenameOwnOK, NEW s \in RenameRun, RenameStepOf(s)
    PROVE  RenameLeftOK'
<1>1. /\ renameAsked \in RenameInvocations /\ renameAsked' = renameAsked /\ RenameRun' = RenameRun
      /\ renameAsked.workers \in Nat \ {0}
      /\ renameAt \in [RenameRun -> RenamePCs]
      /\ renameOutcome \in [RenameRun -> {"none", "skipped", "failed", "renamed"}]
      /\ \A r : RenameFrom(r)' = RenameFrom(r) /\ RenameGoal(r)' = RenameGoal(r)
      /\ \A p, q : RenameSame(p, q)' <=> RenameSame(p, q)
  BY RenameStepOthers, RenameSteady, RenameAskedRight DEF RenameTyped
<1>2. SUFFICES ASSUME NEW r \in RenameRun, RenameAlone(r)', ~renameOutside' PROVE RenameLeft(r)'
  BY <1>1 DEF RenameLeftOK
<1>3. RenameAlone(r) /\ RenamePlaced(r) /\ ~renameOutside /\ RenameLeft(r)
  BY <1>2, RenameStepOthers DEF RenamePlacedOK, RenameLeftOK
<1>4. ASSUME renameWhere' = renameWhere, renameDirectories' = renameDirectories
      PROVE  \A p : RenameExists(p)' <=> RenameExists(p)
  BY <1>1, <1>4, RenameExistsStays
<1>5. ASSUME r # s, ~RenameStart(s), NEW old, NEW new, RenameMovesAs(s, old, new)
      PROVE  RenameLeft(r)'
  BY <1>2, <1>3, <1>5, RenameMovesAre, RenameMovesOthers, RenameLeftOthers, <1>1 DEF RenameOrdered, RenameLeft,
    RenameAlone
<1>6. ASSUME r # s, RenameTurns(s), renameAt[s] = "parent",
             NEW made, RenameMakes(made), \A d \in made : RenameLies(RenameGoal(s), d)
      PROVE  RenameLeft(r)'
  <2>1. renameAt'[r] = renameAt[r] /\ renameOutcome'[r] = renameOutcome[r] /\ renameWhere' = renameWhere
    BY <1>2, <1>6, RenameStepOthers DEF RenameTurns
  <2>2. CASE renameAsked.workers = 1
    BY <1>2, <1>6, <2>2, <2>1 DEF RenameOrdered, RenameLeft
  <2>3. CASE renameAsked.workers # 1
    <3>1. ~RenameLies(RenameGoal(s), RenameFrom(r))
      BY <1>1, <1>3, <2>3, <1>2, <1>6 DEF RenameAlone, RenameEntangled, RenameFrom
    <3>2. RenameExists(RenameFrom(r))' => RenameExists(RenameFrom(r))
      <4>1. SUFFICES ASSUME RenameExists(RenameFrom(r))', ~RenameExists(RenameFrom(r)) PROVE FALSE
        OBVIOUS
      <4>2. RenameFrom(r) \in Seq(RenameElement) \ {<<>>}
        BY <1>1, RenamePathsAre
      <4>3. RenameOccupied' = RenameOccupied \cup made
        BY <1>6, <2>1 DEF RenameOccupied, RenameMakes
      <4>4. \E d \in RenameOccupied' : RenameSame(RenameFrom(r), d)
        BY <1>1, <4>1, <4>2 DEF RenameExists
      <4>5. PICK d \in made : RenameSame(RenameFrom(r), d)
        BY <4>1, <4>3, <4>4 DEF RenameExists
      <4>6. d \in Seq(RenameElement) /\ RenameGoal(s) \in Seq(RenameElement)
        BY <1>1, <1>6, RenamePathsAre DEF RenameMakes
      <4>7. RenameLies(RenameGoal(s), d)
        BY <1>6
      <4>8. RenameLies(d, RenameFrom(r))
        BY <1>1, <4>2, <4>5, <4>6, RenameLiesOrders
      <4>9. QED BY <1>1, <3>1, <4>2, <4>6, <4>7, <4>8, RenameLiesOrders
    <3>3. QED BY <1>1, <1>3, <2>1, <2>3, <3>2 DEF RenameLeft
  <2>4. QED BY <2>2, <2>3
<1>7. CASE RenameStart(s)
  BY <1>1, <1>7, <1>4, <1>3 DEF RenameStart, RenameGoes, RenameLeft
<1>8. CASE RenameTurns(s) /\ UNCHANGED renameDirectories
  BY <1>4, <1>8, <1>1, <1>2, RenameStepOthers, <1>3 DEF RenameTurns, RenameLeft, RenameEnds, RenameGoes,
    RenamePlaced
<1>9. CASE RenameTurns(s) /\ renameAt'[s] = "direct" /\ r = s
  BY <1>9 DEF RenameLeft
<1>10. ASSUME r = s, NEW old, NEW new, RenameMovesAs(s, old, new) PROVE RenameLeft(r)'
  BY <1>3, <1>10, RenameLeftMoves
<1>11. QED
  BY <1>2, <1>5, <1>6, <1>7, <1>8, <1>9, <1>10 DEF RenameStepOf

\* What is the same after a step is what the places after it are.
LEMMA RenameSameThen ==
    ASSUME renameAsked' = renameAsked, NEW r \in RenameRun, NEW q \in RenameRun
    PROVE  /\ RenameSame(renameWhere[q], RenameFrom(r))' <=> RenameSame(renameWhere'[q], RenameFrom(r))
           /\ RenameSame(renameWhere[q], RenameGoal(r))' <=> RenameSame(renameWhere'[q], RenameGoal(r))
           /\ RenameSame(RenameGoal(r), RenameFrom(q))' <=> RenameSame(RenameGoal(r), RenameFrom(q))
           /\ RenameSame(renamePath[r], renameWhere[q])' <=> RenameSame(renamePath'[r], renameWhere'[q])
           /\ RenameSame(renameWhere[q], RenameAsideOf(r, renameAttempt[r]))'
                <=> RenameSame(renameWhere'[q], RenameAsideOf(r, renameAttempt'[r]))
           /\ RenameExists(renamePath[r])' <=>
                renamePath'[r] = <<>> \/ \E y \in RenameOccupied' : RenameSame(renamePath'[r], y)
BY DEF RenameFrom, RenameGoal, RenameAsideOf, RenameSame, RenameFold, RenameExists

\* What is to be shown of a repository after a step
LEMMA RenameOwnThen ==
    ASSUME renameAsked' = renameAsked, NEW r \in RenameRun,
           renameAt'[r] # "done" => \A q \in RenameRun \ {r} :
              /\ ~RenameSame(renameWhere'[q], RenameFrom(r))
              /\ renameAt'[r] = "forward" =>
                    ~RenameSame(renameWhere'[q], RenameAsideOf(r, renameAttempt'[r]))
              /\ renameAt'[r] = "settle" /\ renameOutcome'[r] = "renamed" =>
                    ~RenameSame(renameWhere'[q], RenameGoal(r)),
           renameAt'[r] = "done" => \A q \in RenameRun \ {r} :
              /\ renameAt'[q] # "done" /\ renameOutcome'[r] = "renamed" =>
                    ~RenameSame(RenameGoal(r), RenameFrom(q))
              /\ RenameSame(renamePath'[r], renameWhere'[q]) => RenameSucceeded(r)
              /\ ~RenameCarried(r) => Last(renameWhere'[r]) \notin RenameNames
                                      \/ ~RenameSame(renamePath'[r], renameWhere'[q]),
           renameAt'[r] = "done" =>
              /\ \/ renamePath'[r] = RenameFrom(r) \/ renameOutcome'[r] = "renamed"
                 \/ RenameSame(RenameFrom(r), RenameGoal(r))
              /\ ~RenameCarried(r) =>
                    \/ Last(renameWhere'[r]) \notin RenameNames
                    \/ \E y \in RenameOccupied' : RenameSame(renamePath'[r], y)
    PROVE  IF renameAt'[r] = "done" THEN RenameDone(r)' /\ RenameThere(r)' ELSE RenameHolds(r)'
<1>1. /\ RenameRun' = RenameRun /\ RenameFrom(r)' = RenameFrom(r)
      /\ RenameCarried(r)' <=> RenameCarried(r)
      /\ RenameSucceeded(r)' <=> RenameSucceeded(r)
  BY RenameSteady
<1>2. RenameSame(RenameFrom(r), RenameGoal(r))' <=> RenameSame(RenameFrom(r), RenameGoal(r))
  BY DEF RenameSame, RenameFold, RenameFrom, RenameGoal
<1>3. CASE renameAt'[r] = "done"
  BY <1>1, <1>2, <1>3, RenameSameThen DEF RenameThere, RenameLeftAside, RenameDone
<1>4. CASE renameAt'[r] # "done"
  BY <1>1, <1>4, RenameSameThen DEF RenameHolds
<1>5. QED BY <1>3, <1>4

\* What exists where a repository's path leads, exists when nothing has moved.
LEMMA RenameThereStays ==
    ASSUME renameAsked' = renameAsked, renameWhere' = renameWhere,
           renameDirectories \subseteq renameDirectories',
           NEW p, p # <<>>, RenameExists(p)
    PROVE  \E y \in RenameOccupied' : RenameSame(p, y)
<1>1. PICK y \in RenameOccupied : RenameSame(p, y)
  BY DEF RenameExists
<1>2. y \in RenameOccupied'
  BY <1>1 DEF RenameOccupied
<1>3. QED BY <1>1, <1>2

\* With one worker, a repository whose rename ends without a move is known to be
\* where it is, and no other one is there.
LEMMA RenameOwnEnds ==
    ASSUME RenameTyped, RenameOrdered, RenameTold, RenamePlacedOK, RenameOwnOK,
           renameAsked.workers = 1, NEW s \in RenameRun, RenameTurns(s),
           renameDirectories \subseteq renameDirectories',
           renameAt[s] # "done", renameAt'[s] = "done"
    PROVE  RenameDone(s)' /\ RenameThere(s)'
<1> DEFINE from == RenameFrom(s)
           goal == RenameGoal(s)
<1>1. /\ renameAsked \in RenameInvocations /\ RenamePlaced(s) /\ RenameHolds(s)
      /\ renameAsked' = renameAsked /\ renameWhere' = renameWhere
      /\ renamePath[s] = from /\ RenameNew(s) = goal
      /\ renamePath \in [RenameRun -> Seq(RenameNames) \ {<<>>}]
      /\ renameAt \in [RenameRun -> RenamePCs]
      /\ renameOutcome \in [RenameRun -> {"none", "skipped", "failed", "renamed"}]
  BY RenameNewIs DEF RenameTyped, RenameTold, RenamePlacedOK, RenameAlone, RenameOwnOK, RenameTurns
<1>2. /\ from \in Seq(RenameElement) /\ from # <<>> /\ goal \in Seq(RenameElement) /\ goal # <<>>
      /\ renameWhere[s] \in RenameOccupied
      /\ \A q \in RenameRun : renameWhere[q] \in Seq(RenameElement)
  BY <1>1, RenamePathsAre, RenameOccupiedIs
<1>3. \A q \in RenameRun \ {s} : ~RenameSame(from, renameWhere[q])
  BY <1>1, <1>2, RenameLiesOrders DEF RenameHolds
<1>4. RenameIsAside(s) => RenameLeftAside(s)
  BY <1>1, RenameAsideIs DEF RenameIsAside, RenameLeftAside
<1>5. renameWhere[s] = from => RenameExists(from)
  BY <1>2 DEF RenameExists, RenameSame
<1>6. renameWhere[s] = goal => RenameExists(goal)
  BY <1>2 DEF RenameExists, RenameSame
<1>7. \A p : p # <<>> /\ RenameExists(p) => \E y \in RenameOccupied' : RenameSame(p, y)
  BY <1>1, RenameThereStays
<1>8. CASE RenameEnds(s, "done", "failed") /\ renamePath' = renamePath
  <2>1. renamePath'[s] = from /\ renameOutcome'[s] = "failed"
    BY <1>1, <1>8 DEF RenameEnds
  <2>2. renameAt[s] \in {"check", "ask", "parent", "aside", "forward"} \/ renameAt[s] = "settle"
    BY <1>8 DEF RenameTurns, RenameEnds, RenameGoes
  <2>3. renameWhere[s] = from \/ RenameIsAside(s) \/ renameAt[s] = "settle"
    BY <1>1, <2>2 DEF RenamePlaced, RenameIsAside, RenameEarly
  <2>4. renameAt[s] # "settle"
    BY <1>1, <2>1 DEF RenameTurns, RenamePlaced, RenameEarly
  <2>5. \/ Last(renameWhere'[s]) \notin RenameNames
        \/ \E y \in RenameOccupied' : RenameSame(renamePath'[s], y)
    BY <1>1, <1>2, <1>4, <1>5, <1>7, <2>1, <2>3, <2>4 DEF RenameLeftAside
  <2>6. \A q \in RenameRun \ {s} : ~RenameSame(renamePath'[s], renameWhere'[q])
    BY <1>1, <1>3, <2>1
  <2>7. QED BY <1>1, <2>1, <2>5, <2>6, RenameOwnThen
<1>9. CASE /\ renameAt[s] = "settle" /\ renameOutcome' = renameOutcome
           /\ renamePath' = [renamePath EXCEPT ![s] = IF RenameCompleted(s) THEN goal ELSE @]
  <2>1. renamePath'[s] = IF RenameCompleted(s) THEN goal ELSE from
    BY <1>1, <1>9
  <2>2. RenameCompleted(s) <=>
          RenameExists(goal) /\ (~RenameExists(from) \/ RenameSame(from, goal))
    BY <1>1 DEF RenameCompleted
  <2>3. CASE renameOutcome[s] = "skipped"
    <3>1. renameWhere[s] = from
      BY <1>1, <1>9, <2>3 DEF RenamePlaced, RenameEarly
    <3>2. RenameCompleted(s) => RenameSame(from, goal)
      BY <1>5, <2>2, <3>1
    <3>3. renamePath'[s] = from \/ RenameSame(from, goal)
      BY <2>1, <3>2
    <3>4. RenameExists(renamePath'[s]) /\ renamePath'[s] # <<>>
      BY <1>2, <1>5, <2>1, <2>2, <3>1
    <3>5. \A q \in RenameRun \ {s} : ~RenameSame(renamePath'[s], renameWhere'[q])
      BY <1>1, <1>2, RenameLiesOrders, <1>3, <2>1, <3>2
    <3>6. \E y \in RenameOccupied' : RenameSame(renamePath'[s], y)
      BY <1>7, <3>4
    <3>7. renameOutcome'[s] # "renamed"
      BY <1>9, <2>3
    <3>8. QED BY <1>1, <3>3, <3>5, <3>6, <3>7, RenameOwnThen
  <2>4. CASE renameOutcome[s] = "renamed"
    <3>1. renameWhere[s] = goal \/ RenameIsAside(s)
      BY <1>1, <1>9, <2>4 DEF RenamePlaced, RenameEarly
    <3>2. \A q \in RenameRun \ {s} : ~RenameSame(goal, renameWhere[q])
      BY <1>1, <1>2, <1>9, <2>4, RenameLiesOrders DEF RenameHolds
    <3>3. \A q \in RenameRun \ {s} : ~RenameSame(renamePath'[s], renameWhere'[q])
      BY <1>1, <1>3, <2>1, <3>2
    <3>4. renameWhere[s] = goal => RenameExists(renamePath'[s]) /\ renamePath'[s] # <<>>
      BY <1>2, <1>6, <2>1, <2>2
    <3>5. \/ Last(renameWhere'[s]) \notin RenameNames
          \/ \E y \in RenameOccupied' : RenameSame(renamePath'[s], y)
      BY <1>1, <1>4, <1>7, <3>1, <3>4 DEF RenameLeftAside
    <3>6. ASSUME NEW q \in RenameRun \ {s}, renameAt'[q] # "done"
          PROVE  ~RenameSame(goal, RenameFrom(q))
      BY <1>1, <3>6, <1>9, RenameOthersWait, <3>2 DEF RenameTurns, RenameEnds, RenameGoes, RenamePlacedOK,
        RenameAlone, RenamePlaced, RenameEarly
    <3>7. renameOutcome'[s] = "renamed"
      BY <1>9, <2>4
    <3>8. QED BY <1>1, <3>3, <3>5, <3>6, <3>7, RenameOwnThen
  <2>5. QED BY <1>1, <1>9, <2>3, <2>4 DEF RenamePlaced, RenameEarly
<1>10. QED
  BY <1>1, <1>8, <1>9 DEF RenameEnds, RenameGoes, RenameTurns

\* Steps that move nothing
LEMMA RenameOwnStands ==
    ASSUME RenameTyped, RenameOrdered, RenameTold, RenamePlacedOK, RenameOwnOK,
           renameAsked.workers = 1, NEW s \in RenameRun,
           RenameStart(s) \/ RenameTurns(s) \/ UNCHANGED <<renameAt, renameOutcome, renameAttempt,
                                                          renamePath, renameAsked, renameWhere>>,
           renameDirectories \subseteq renameDirectories', NEW r \in RenameRun
    PROVE  IF renameAt'[r] = "done" THEN RenameDone(r)' /\ RenameThere(r)' ELSE RenameHolds(r)'
<1>1. /\ renameAsked' = renameAsked /\ renameWhere' = renameWhere
      /\ renamePath \in [RenameRun -> Seq(RenameNames) \ {<<>>}]
      /\ renameAt \in [RenameRun -> RenamePCs]
      /\ renameAttempt \in [RenameRun -> 0 .. RenameAttempts - 1]
      /\ renameOutcome \in [RenameRun -> {"none", "skipped", "failed", "renamed"}]
  BY DEF RenameTyped, RenameTold, RenameTurns, RenameStart
<1>2. RenameStart(s) => renameAt[s] = "waiting"
  BY RenameStartsWaiting
<1>3. \A q \in RenameRun :
        \/ q = s
        \/ /\ renameAt'[q] = renameAt[q] /\ renameAttempt'[q] = renameAttempt[q]
           /\ renameOutcome'[q] = renameOutcome[q] /\ renamePath'[q] = renamePath[q]
  BY <1>1 DEF RenameTurns, RenameEnds, RenameGoes, RenameStart
<1>4. \/ /\ renameAt'[s] = renameAt[s] /\ renameAttempt'[s] = renameAttempt[s]
         /\ renameOutcome'[s] = renameOutcome[s] /\ renamePath'[s] = renamePath[s]
      \/ /\ renameAt[s] # "done" /\ renameAt'[s] # "forward"
         /\ renameAt'[s] = "settle" => renameOutcome'[s] # "renamed"
         /\ renameAt'[s] = "done" => RenameTurns(s)
  BY <1>1, <1>2 DEF RenameTurns, RenameEnds, RenameGoes, RenameStart
<1>5. \A q \in RenameRun : renameAt'[q] # "done" => renameAt[q] # "done"
  BY <1>3, <1>4
<1>6. CASE renameAt'[r] # "done"
  BY <1>5, <1>6, <1>1, <1>3, <1>4, RenameOwnThen DEF RenameOwnOK, RenameHolds
<1>7. CASE renameAt'[r] = "done" /\ renameAt[r] # "done"
  BY <1>3, <1>4, <1>7, RenameOwnEnds
<1>8. CASE renameAt'[r] = "done" /\ renameAt[r] = "done"
  <2>1. RenameDone(r) /\ RenameThere(r)
    BY <1>8 DEF RenameOwnOK
  <2>2. renamePath'[r] = renamePath[r] /\ renameOutcome'[r] = renameOutcome[r] /\ renamePath[r] # <<>>
    BY <1>1, <1>3, <1>4, <1>8
  <2>3. \A q \in RenameRun \ {r} :
          /\ renameAt'[q] # "done" /\ renameOutcome'[r] = "renamed" =>
                ~RenameSame(RenameGoal(r), RenameFrom(q))
          /\ RenameSame(renamePath'[r], renameWhere'[q]) => RenameSucceeded(r)
          /\ ~RenameCarried(r) => Last(renameWhere'[r]) \notin RenameNames
                                  \/ ~RenameSame(renamePath'[r], renameWhere'[q])
    BY <1>1, <1>5, <2>1, <2>2 DEF RenameDone, RenameLeftAside
  <2>4. /\ \/ renamePath'[r] = RenameFrom(r) \/ renameOutcome'[r] = "renamed"
           \/ RenameSame(RenameFrom(r), RenameGoal(r))
        /\ ~RenameCarried(r) =>
              \/ Last(renameWhere'[r]) \notin RenameNames
              \/ \E y \in RenameOccupied' : RenameSame(renamePath'[r], y)
    BY <1>1, <2>1, <2>2, RenameThereStays DEF RenameThere, RenameLeftAside
  <2>5. QED BY <1>1, <1>8, <2>3, <2>4, RenameOwnThen
<1>9. QED BY <1>6, <1>7, <1>8

\* With one worker, a repository that is moved comes to where no other one is.
LEMMA RenameOwnComes ==
    ASSUME RenameTyped, RenameClosed, RenameOwnOK, renameAsked.workers = 1,
           NEW s \in RenameRun, NEW old, NEW new, RenameMovesAs(s, old, new),
           NEW q \in RenameRun \ {s}
    PROVE  ~RenameSame(renameWhere'[q], new) /\ ~RenameSame(renameWhere'[q], RenameFrom(s))
<1> DEFINE x == renameWhere[q]
           from == RenameFrom(s)
           attempt == renameAttempt[s]
<1>1. /\ renameAsked \in RenameInvocations /\ RenameMoving(old, new) /\ RenameHolds(s)
      /\ renameAt[s] \in {"direct", "aside", "forward"}
      /\ old \in Seq(RenameElement) \ {<<>>} /\ new \in Seq(RenameElement) \ {<<>>}
      /\ attempt \in 0 .. RenameAttempts - 1
      /\ new = RenameGoal(s) \/ new = RenameAsideOf(s, attempt)
  BY RenameMovesAre DEF RenameTyped, RenameMovesAs, RenameOwnOK
<1>2. /\ from \in Seq(RenameElement) \ {<<>>} /\ from \in Seq(RenameNames)
      /\ Len(from) \in Nat /\ Len(RenameGoal(s)) \in Nat /\ Len(RenameGoal(s)) >= Len(from)
      /\ RenameGoal(s) \in Seq(RenameElement)
      /\ x \in RenameOccupied /\ x \in Seq(RenameElement)
  BY <1>1, RenamePathsAre, RenameOccupiedIs
<1>3. ~RenameSame(x, from) /\ ~RenameSame(x, old)
  BY <1>1 DEF RenameHolds, RenameMovesAs
<1>4. renameWhere'[q] = RenameMoved(x, old, new)
  BY <1>1, RenameMovingOccupies
<1>5. CASE RenameLies(x, old)
  BY <1>1, <1>2, <1>3, <1>5, RenameMovedLies, RenameLiesOrders, RenameArrives, RenameAsidesApart, <1>4 DEF
    RenameLies
<1>6. CASE ~RenameLies(x, old)
  BY <1>4, <1>6, <1>1, <1>2, RenameLiesOrders, <1>3 DEF RenameMoved, RenameExists, RenameMoving, RenameCan
<1>7. QED BY <1>5, <1>6

\* None comes to where one waits to be renamed.
LEMMA RenameOwnWaits ==
    ASSUME RenameTyped, RenameOrdered, RenameClosed, RenamePlacedOK, RenameOwnOK,
           renameAsked.workers = 1,
           NEW s \in RenameRun, NEW old, NEW new, RenameMovesAs(s, old, new),
           NEW r \in RenameRun \ {s}, renameAt[r] # "done", NEW q \in RenameRun \ {r}
    PROVE  ~RenameSame(renameWhere'[q], RenameFrom(r))
<1> DEFINE x == renameWhere[q]
           from == RenameFrom(r)
           attempt == renameAttempt[s]
<1>1. /\ renameAsked \in RenameInvocations /\ RenameMoving(old, new) /\ RenameHolds(r)
      /\ renameAt[s] \in {"direct", "aside", "forward"}
      /\ old \in Seq(RenameElement) \ {<<>>} /\ new \in Seq(RenameElement) \ {<<>>}
      /\ attempt \in 0 .. RenameAttempts - 1
      /\ old = RenameFrom(s) \/ old = RenameAsideOf(s, attempt)
  BY RenameMovesAre DEF RenameTyped, RenameMovesAs, RenameOwnOK
<1>2. /\ from \in Seq(RenameElement) \ {<<>>}
      /\ x \in RenameOccupied /\ x \in Seq(RenameElement)
  BY <1>1, RenamePathsAre, RenameOccupiedIs
<1>3. RenameAlone(r) /\ renameAt[r] = "waiting" /\ renameWhere[r] = from
  BY <1>1, RenameOthersWait DEF RenameAlone, RenamePlacedOK, RenamePlaced, RenameEarly
<1>4. ~RenameLies(from, old)
  BY <1>1, <1>3, RenameUnmoved
<1>5. RenameExists(from)
  BY <1>1, <1>2, <1>3, RenameOccupiedIs DEF RenameExists, RenameSame
<1>6. renameWhere'[q] = RenameMoved(x, old, new)
  BY <1>1, RenameMovingOccupies
<1>7. CASE ~RenameLies(x, old)
  BY <1>1, <1>6, <1>7 DEF RenameMoved, RenameHolds
<1>8. CASE RenameLies(x, old)
  BY <1>1, <1>2, <1>8, RenameMovedLies, RenameLiesOrders, <1>4, <1>5, RenameArrives, <1>6
<1>9. QED BY <1>7, <1>8

\* The path of one that is done does not lead into what is moved.
LEMMA RenameOwnUnmoved ==
    ASSUME RenameTyped, RenameTold, RenameOwnOK, renameAsked.workers = 1,
           NEW s \in RenameRun, NEW old, NEW new, RenameMovesAs(s, old, new),
           NEW r \in RenameRun \ {s}, renameAt[r] = "done", ~RenameCarried(r)
    PROVE  ~RenameLies(renamePath[r], old)
<1> DEFINE path == renamePath[r]
<1>1. /\ renameAsked \in RenameInvocations /\ RenameDone(r) /\ RenameThere(r)
      /\ renameAt[s] # "done" /\ renameAttempt[s] \in 0 .. RenameAttempts - 1
      /\ old = RenameFrom(s) \/ old = RenameAsideOf(s, renameAttempt[s])
      /\ path = RenameFrom(r) \/ path = RenameGoal(r)
  BY RenameMovesAre DEF RenameTyped, RenameOwnOK, RenameTold
<1>2. /\ RenameFrom(r) \in Seq(RenameElement) /\ RenameGoal(r) \in Seq(RenameElement)
      /\ RenameFrom(s) \in Seq(RenameElement)
      /\ RenameFrom(r) \in Seq(RenameNames) /\ RenameGoal(r) \in Seq(RenameNames)
  BY <1>1, RenamePathsAre
<1>3. CASE path = RenameFrom(r)
  BY <1>1, <1>2, <1>3, RenameUncarried, RenameAsidesApart
<1>4. CASE path = RenameGoal(r) /\ path # RenameFrom(r)
  BY <1>1, <1>2, <1>4, RenameAsidesApart, RenameUncarried, RenameLiesOrders, RenameAskedRight DEF RenameDone,
    RenameThere
<1>5. QED BY <1>1, <1>3, <1>4

\* What a repository's path says stays true while others are moved.
LEMMA RenameOwnStays ==
    ASSUME RenameTyped, RenameOrdered, RenameTold, RenameClosed, RenamePlacedOK, RenameOwnOK,
           renameAsked.workers = 1,
           NEW s \in RenameRun, NEW old, NEW new, RenameMovesAs(s, old, new),
           NEW r \in RenameRun \ {s}, renameAt[r] = "done"
    PROVE  RenameDone(r)' /\ RenameThere(r)'
<1> DEFINE path == renamePath[r]
           attempt == renameAttempt[s]
<1>1. /\ renameAsked \in RenameInvocations /\ RenameMoving(old, new)
      /\ RenameDone(r) /\ RenameThere(r)
      /\ renameAt[s] # "done" /\ renameAt'[r] = "done" /\ renameOutcome'[r] = renameOutcome[r]
      /\ \A q \in RenameRun : renameAt'[q] # "done" => renameAt[q] # "done"
      /\ renamePath' = renamePath /\ renameAsked' = renameAsked
      /\ old \in Seq(RenameElement) \ {<<>>} /\ new \in Seq(RenameElement) \ {<<>>}
      /\ attempt \in 0 .. RenameAttempts - 1
      /\ new = RenameGoal(s) \/ new = RenameAsideOf(s, attempt)
  BY RenameMovesAre DEF RenameTyped, RenameMovesAs, RenameMoving, RenameOwnOK
<1>2. /\ path \in Seq(RenameNames) /\ path \in Seq(RenameElement) \ {<<>>}
      /\ path = RenameFrom(r) \/ path = RenameGoal(r)
  BY <1>1, RenamePathsAre DEF RenameTold
<1>3. /\ \A q \in RenameRun : renameWhere[q] \in RenameOccupied
                              /\ renameWhere[q] \in Seq(RenameElement)
                              /\ renameWhere'[q] = RenameMoved(renameWhere[q], old, new)
      /\ RenameOccupied' = {RenameMoved(x, old, new) : x \in RenameOccupied}
      /\ RenameOccupied \subseteq Seq(RenameElement)
  BY <1>1, RenameMovingOccupies, RenameOccupiedIs
<1>4. ASSUME NEW q \in RenameRun \ {r}, RenameSame(path, renameWhere'[q])
      PROVE  RenameSucceeded(r)
  <2>1. CASE ~RenameLies(renameWhere[q], old)
    BY <1>3, <1>4, <2>1, <1>1 DEF RenameMoved, RenameDone
  <2>2. CASE RenameLies(renameWhere[q], old)
    BY <1>1, <1>2, <1>3, <1>4, <2>2, RenameArrives, RenameAsidesApart DEF RenameSucceeded, RenameFrom
  <2>3. QED BY <2>1, <2>2
<1>5. ASSUME ~RenameCarried(r)
      PROVE  renameWhere'[r] = renameWhere[r] /\ ~RenameLies(path, old)
  BY <1>1, <1>5, RenameMovesOthers, RenameOwnUnmoved DEF RenameAlone, RenameEntangled
<1>6. ASSUME ~RenameCarried(r), ~RenameLeftAside(r), NEW q \in RenameRun \ {r},
             RenameSame(path, renameWhere'[q])
      PROVE  FALSE
  BY <1>1, <1>6, <1>3, <1>2, RenameArrives, <1>5 DEF RenameDone, RenameThere, RenameMoved
<1>7. ASSUME ~RenameCarried(r), ~RenameLeftAside(r)
      PROVE  \E y \in RenameOccupied' : RenameSame(path, y)
  <2>1. RenameExists(path)
    BY <1>1, <1>7 DEF RenameThere
  <2>2. PICK y \in RenameOccupied : RenameSame(path, y)
    BY <1>2, <2>1 DEF RenameExists
  <2>3. ~RenameLies(y, old)
    BY <1>1, <1>2, <1>3, <2>2, RenameLiesOrders, <1>5, <1>7
  <2>4. y = RenameMoved(y, old, new)
    BY <2>3 DEF RenameMoved
  <2>5. y \in RenameOccupied'
    BY <1>3, <2>2, <2>4
  <2>6. QED BY <2>2, <2>5
<1>8. \A q \in RenameRun \ {r} :
        /\ renameAt'[q] # "done" /\ renameOutcome'[r] = "renamed" =>
              ~RenameSame(RenameGoal(r), RenameFrom(q))
        /\ RenameSame(renamePath'[r], renameWhere'[q]) => RenameSucceeded(r)
        /\ ~RenameCarried(r) => Last(renameWhere'[r]) \notin RenameNames
                                \/ ~RenameSame(renamePath'[r], renameWhere'[q])
  BY <1>1, <1>4, <1>5, <1>6 DEF RenameDone, RenameLeftAside
<1>9. /\ \/ renamePath'[r] = RenameFrom(r) \/ renameOutcome'[r] = "renamed"
         \/ RenameSame(RenameFrom(r), RenameGoal(r))
      /\ ~RenameCarried(r) => \/ Last(renameWhere'[r]) \notin RenameNames
                              \/ \E y \in RenameOccupied' : RenameSame(renamePath'[r], y)
  BY <1>1, <1>5, <1>7 DEF RenameThere, RenameLeftAside
<1>10. QED BY <1>1, <1>8, <1>9, RenameOwnThen

\* A path told is a repository's own after every step, with one worker.
LEMMA RenameOwnStep ==
    ASSUME RenameTyped, RenameOrdered, RenameTold, RenameClosed, RenamePlacedOK, RenameOwnOK,
           NEW s \in RenameRun, RenameStepOf(s)
    PROVE  RenameOwnOK'
<1>1. renameAsked' = renameAsked /\ RenameRun' = RenameRun
  BY RenameStepOthers, RenameSteady
<1>2. SUFFICES ASSUME renameAsked.workers = 1, NEW r \in RenameRun
               PROVE  IF renameAt'[r] = "done" THEN RenameDone(r)' /\ RenameThere(r)'
                      ELSE RenameHolds(r)'
  BY <1>1 DEF RenameOwnOK
<1>3. CASE RenameStart(s)
  BY <1>2, <1>3, RenameOwnStands DEF RenameStart
<1>4. CASE RenameTurns(s) /\ UNCHANGED renameDirectories
  BY <1>2, <1>4, RenameOwnStands
<1>5. ASSUME NEW made, RenameTurns(s), RenameMakes(made)
      PROVE  IF renameAt'[r] = "done" THEN RenameDone(r)' /\ RenameThere(r)' ELSE RenameHolds(r)'
  BY <1>2, <1>5, RenameOwnStands DEF RenameMakes
<1>6. CASE RenameMakes({RenameGoal(s)}) /\ renameOutside' = TRUE
           /\ UNCHANGED <<renameAsked, renameWaiting, renameAt, renameWhere, renamePath,
                          renameAttempt, renameOutcome>>
  BY <1>2, <1>6, RenameOwnStands DEF RenameMakes
<1>7. ASSUME NEW old, NEW new, RenameMovesAs(s, old, new)
      PROVE  IF renameAt'[r] = "done" THEN RenameDone(r)' /\ RenameThere(r)' ELSE RenameHolds(r)'
  <2>1. /\ renameAt[s] \in {"direct", "aside", "forward"} /\ renameAt'[s] \in {"settle", "forward"}
        /\ \A q \in RenameRun \ {s} : renameAt'[q] = renameAt[q]
        /\ renameAttempt' = renameAttempt
    BY <1>7, RenameMovesAre
  <2>2. CASE r = s
    <3>1. ASSUME NEW q \in RenameRun \ {s}
          PROVE  ~RenameSame(renameWhere'[q], new) /\ ~RenameSame(renameWhere'[q], RenameFrom(s))
      BY <1>2, <1>7, <3>1, RenameOwnComes
    <3>2. /\ renameAt'[s] = "forward" => new = RenameAsideOf(s, renameAttempt'[s])
          /\ renameAt'[s] = "settle" => new = RenameGoal(s)
      BY <1>7, <2>1 DEF RenameMovesAs, RenameEnds, RenameGoes, RenameTyped
    <3>3. \A q \in RenameRun \ {r} :
            /\ ~RenameSame(renameWhere'[q], RenameFrom(r))
            /\ renameAt'[r] = "forward" =>
                  ~RenameSame(renameWhere'[q], RenameAsideOf(r, renameAttempt'[r]))
            /\ renameAt'[r] = "settle" /\ renameOutcome'[r] = "renamed" =>
                  ~RenameSame(renameWhere'[q], RenameGoal(r))
      BY <2>2, <3>1, <3>2
    <3>4. QED BY <1>1, <1>2, <2>1, <2>2, <3>3, RenameOwnThen
  <2>3. CASE r # s /\ renameAt[r] # "done"
    BY <1>2, <2>1, <2>3, RenameOthersWait, <1>7, RenameOwnWaits, <1>1, RenameOwnThen
  <2>4. CASE r # s /\ renameAt[r] = "done"
    BY <1>2, <1>7, <2>1, <2>4, RenameOwnStays
  <2>5. QED BY <2>2, <2>3, <2>4
<1>8. QED BY <1>3, <1>4, <1>5, <1>6, <1>7 DEF RenameStepOf

\* A rename that nobody disturbs is found to be complete when it ends.
LEMMA RenameFoundStep ==
    ASSUME RenameTyped, RenameOrdered, RenameTold, RenamePlacedOK, RenameLeftOK, RenameFoundOK,
           NEW s \in RenameRun, RenameStepOf(s)
    PROVE  RenameFoundOK'
<1>1. /\ renameAsked' = renameAsked /\ RenameRun' = RenameRun /\ (renameOutside => renameOutside')
      /\ \A r : RenameGoal(r)' = RenameGoal(r)
      /\ \A r : RenameEntangled(r)' <=> RenameEntangled(r)
  BY RenameStepOthers, RenameSteady
<1>2. SUFFICES ASSUME renameAsked.workers = 1, ~renameOutside', NEW r \in RenameRun,
                      renameAt'[r] = "done", renameOutcome'[r] = "renamed", ~RenameEntangled(r)
               PROVE  renamePath'[r] = RenameGoal(r)
  BY <1>1 DEF RenameFoundOK
<1>3. ~renameOutside
  BY <1>1, <1>2
<1>4. CASE r # s
  BY <1>1, <1>2, <1>3, <1>4, RenameStepOthers DEF RenameFoundOK
<1>5. /\ renameAt \in [RenameRun -> RenamePCs]
      /\ renameOutcome \in [RenameRun -> {"none", "skipped", "failed", "renamed"}]
      /\ renamePath \in [RenameRun -> Seq(RenameNames) \ {<<>>}]
  BY DEF RenameTyped, RenameTold
<1>6. CASE r = s /\ RenameTurns(s) /\ renameAt[s] = "settle"
  <2>1. renameOutcome[s] = "renamed"
        /\ renamePath' = [renamePath EXCEPT ![s] = IF RenameCompleted(s) THEN RenameGoal(s) ELSE @]
    BY <1>2, <1>6 DEF RenameTurns
  <2>2. renamePath[s] = RenameFrom(s) /\ RenameNew(s) = RenameGoal(s)
    BY <1>6, RenameNewIs
  <2>3. RenameAlone(s) /\ RenamePlaced(s)
    BY <1>2, <1>6 DEF RenameAlone, RenamePlacedOK
  <2>4. renameWhere[s] = RenameGoal(s)
    BY <1>3, <1>6, <2>1, <2>3 DEF RenamePlaced, RenameEarly
  <2>5. RenameExists(RenameGoal(s))
    BY <2>4, RenameOccupiedIs DEF RenameExists, RenameSame
  <2>6. ~RenameExists(RenameFrom(s)) \/ RenameSame(RenameFrom(s), RenameGoal(s))
    BY <1>2, <1>3, <1>6, <2>1, <2>3 DEF RenameLeftOK, RenameLeft
  <2>7. RenameCompleted(s)
    BY <2>2, <2>5, <2>6 DEF RenameCompleted
  <2>8. QED BY <1>5, <1>6, <2>1, <2>7
<1>7. CASE r = s /\ RenameTurns(s) /\ renameAt[s] # "settle"
  BY <1>2, <1>5, <1>7 DEF RenameTurns, RenameEnds, RenameGoes
<1>8. ASSUME NEW old, NEW new, RenameMovesAs(s, old, new), r = s PROVE FALSE
  BY <1>2, <1>8, RenameMovesAre
<1>9. CASE RenameStart(s) /\ r = s
  BY <1>2, <1>5, <1>9 DEF RenameStart, RenameGoes
<1>10. QED BY <1>2, <1>4, <1>6, <1>7, <1>8, <1>9 DEF RenameStepOf

\* Every step keeps the invariant of the renames.
LEMMA RenameNextKeeps == RenameIInv /\ RenameNext => RenameIInv'
<1> SUFFICES ASSUME RenameIInv, RenameNext PROVE RenameIInv'
  OBVIOUS
<1>1. /\ RenameTyped /\ RenameOrdered /\ RenameTold /\ RenameClosed /\ RenamePlacedOK
      /\ RenameLeftOK /\ RenameOwnOK /\ RenameFoundOK
  BY DEF RenameIInv
<1>2. PICK s \in RenameRun : RenameStepOf(s)
  BY <1>1, RenameStepIs
<1>3. RenameTyped' /\ RenameOrdered' /\ RenameTold' /\ RenameClosed'
  BY <1>1, <1>2, RenameTypedStep, RenameOrderedStep, RenameToldStep, RenameClosedStep
<1>4. RenamePlacedOK' /\ RenameLeftOK'
  BY <1>1, <1>2, RenamePlacedStep, RenameLeftStep
<1>5. RenameOwnOK' /\ RenameFoundOK'
  BY <1>1, <1>2, RenameOwnStep, RenameFoundStep
<1>6. QED BY <1>3, <1>4, <1>5 DEF RenameIInv

\* While the renames rest, their invariant stays true.
LEMMA RenameStays == RenameIInv /\ UNCHANGED renameVars => RenameIInv'
<1> SUFFICES ASSUME RenameIInv, UNCHANGED renameVars PROVE RenameIInv'
  OBVIOUS
<1>1. /\ RenameTyped /\ RenameOrdered /\ RenameTold /\ RenameClosed /\ RenamePlacedOK
      /\ RenameLeftOK /\ RenameOwnOK /\ RenameFoundOK
  BY DEF RenameIInv
<1>2. /\ renameAsked' = renameAsked /\ renameWaiting' = renameWaiting /\ renameAt' = renameAt
      /\ renameWhere' = renameWhere /\ renamePath' = renamePath
      /\ renameAttempt' = renameAttempt /\ renameOutcome' = renameOutcome
      /\ renameDirectories' = renameDirectories /\ renameOutside' = renameOutside
  BY DEF renameVars
<1>3. /\ RenameRun' = RenameRun /\ RenameOccupied' = RenameOccupied
      /\ \A p, q : RenameSame(p, q)' <=> RenameSame(p, q)
      /\ \A r : RenameFrom(r)' = RenameFrom(r) /\ RenameGoal(r)' = RenameGoal(r)
      /\ \A r, k : RenameAsideOf(r, k)' = RenameAsideOf(r, k)
      /\ \A r : RenameCarried(r)' <=> RenameCarried(r)
      /\ \A r : RenameEntangled(r)' <=> RenameEntangled(r)
      /\ \A r : RenameSucceeded(r)' <=> RenameSucceeded(r)
  BY <1>2, RenameSteady DEF RenameOccupied
<1>4. \A p : RenameExists(p)' <=> RenameExists(p)
  BY <1>2, RenameExistsStays
<1>5. RenameTyped'
  BY <1>1, <1>2, <1>3 DEF RenameTyped
<1>6. RenameOrdered'
  BY <1>1, <1>2, <1>3 DEF RenameOrdered
<1>7. RenameTold'
  BY <1>1, <1>2, <1>3 DEF RenameTold
<1>8. RenameClosed'
  BY <1>1, <1>3, <1>4 DEF RenameClosed
<1>9. \A r : RenameAlone(r)' => RenameAlone(r)
  BY <1>2, <1>3 DEF RenameAlone
<1>10. RenamePlacedOK'
  BY <1>3, <1>1, <1>2, <1>9, RenamePlacedStays DEF RenamePlacedOK
<1>11. RenameLeftOK'
  BY <1>3, <1>1, <1>2, <1>9, <1>4 DEF RenameLeftOK, RenameLeft
<1>12. RenameOwnOK'
  BY <1>2, <1>3, <1>1, RenameOwnStands DEF RenameOwnOK
<1>13. RenameFoundOK'
  BY <1>1, <1>2, <1>3 DEF RenameFoundOK
<1>14. QED BY <1>5, <1>6, <1>7, <1>8, <1>10, <1>11, <1>12, <1>13 DEF RenameIInv

\* The repositories of a run begin deepest first, each once.
LEMMA RenameOrdersOnce ==
    ASSUME renameAsked \in RenameInvocations, NEW order \in RenameOrders(renameAsked.where)
    PROVE  /\ order \in Seq(RenameRun)
           /\ \A r \in RenameRun : \E i \in DOMAIN order : order[i] = r
           /\ \A i, j \in DOMAIN order : i < j =>
                 order[i] # order[j] /\ Len(RenameFrom(order[i])) >= Len(RenameFrom(order[j]))
<1> DEFINE n == Cardinality(RenameRun)
<1>1. IsFiniteSet(RenameRun) /\ n \in Nat
  BY RenameAskedRight, FS_CardinalityType
<1>2. /\ order \in [1 .. n -> RenameRun] /\ Range(order) = RenameRun
      /\ \A i, j \in DOMAIN order : i < j => Len(RenameFrom(order[i])) >= Len(RenameFrom(order[j]))
  BY DEF RenameOrders, RenameRun, RenameFrom
<1>3. \A r \in RenameRun : \E i \in 1 .. n : order[i] = r
  BY <1>2 DEF Range
<1>4. order \in Surjection(1 .. n, RenameRun)
  BY <1>2, <1>3 DEF Surjection
<1>5. IsFiniteSet(1 .. n) /\ Cardinality(1 .. n) = n
  BY <1>1, FS_Interval
<1>6. order \in Injection(1 .. n, RenameRun)
  BY <1>4, <1>5, FS_SurjSameCardinalityImpliesInj
<1>7. \A i, j \in 1 .. n : i < j => order[i] # order[j]
  BY <1>1, <1>6 DEF Injection, IsInjective
<1>8. order \in Seq(RenameRun)
  BY <1>1, <1>2, SeqDef
<1>9. QED BY <1>2, <1>3, <1>7, <1>8

\* It holds at first.
LEMMA RenameFirst == RenameInit => RenameIInv
<1> SUFFICES ASSUME RenameInit PROVE RenameIInv
  OBVIOUS
<1>1. /\ renameAsked \in RenameInvocations /\ renameWaiting \in RenameOrders(renameAsked.where)
      /\ renameAt = [r \in RenameRun |-> "waiting"]
      /\ renameWhere = renameAsked.where /\ renamePath = renameAsked.where
      /\ renameAttempt = [r \in RenameRun |-> 0]
      /\ renameOutcome = [r \in RenameRun |-> "none"]
      /\ renameDirectories = renameAsked.directories /\ renameOutside = FALSE
  BY DEF RenameInit
<1>2. /\ renameAsked.directories \subseteq Seq(RenameNames) \ {<<>>}
      /\ renameAsked.where \in [RenameRun -> Seq(RenameNames) \ {<<>>}]
      /\ \A r, q \in RenameRun : r # q => ~RenameSame(RenameFrom(r), RenameFrom(q))
      /\ \A p \in renameAsked.directories \cup Range(renameAsked.where) : \A n \in 1 .. Len(p) :
           SubSeq(p, 1, n) \in renameAsked.directories \cup Range(renameAsked.where)
  BY <1>1, RenameAskedRight
<1>3. Seq(RenameNames) \ {<<>>} \subseteq Seq(RenameElement) \ {<<>>}
  BY SeqMonotonic DEF RenameElement
<1>4. /\ renameWaiting \in Seq(RenameRun)
      /\ \A r \in RenameRun : \E i \in DOMAIN renameWaiting : renameWaiting[i] = r
      /\ \A i, j \in DOMAIN renameWaiting : i < j =>
            /\ renameWaiting[i] # renameWaiting[j]
            /\ Len(RenameFrom(renameWaiting[i])) >= Len(RenameFrom(renameWaiting[j]))
  BY <1>1, RenameOrdersOnce
<1>5. RenameTyped
  <2>1. 0 \in 0 .. RenameAttempts - 1
    BY RenameAssumption
  <2>2. renameWhere \in [RenameRun -> Seq(RenameElement) \ {<<>>}]
    BY <1>1, <1>2, <1>3
  <2>3. renameDirectories \subseteq Seq(RenameElement) \ {<<>>}
    BY <1>1, <1>2, <1>3
  <2>4. QED BY <1>1, <1>4, <2>1, <2>2, <2>3 DEF RenameTyped, RenamePCs
<1>6. RenameOrdered
  BY <1>4, <1>1 DEF RenameOrdered
<1>7. RenameTold
  BY <1>1, <1>2 DEF RenameTold, RenameFrom
<1>8. RenameClosed
  BY <1>1, <1>2 DEF RenameClosed, RenameOccupied, RenameExists, RenameSame
<1>9. RenamePlacedOK
  BY <1>1 DEF RenamePlacedOK, RenamePlaced, RenameEarly, RenameFrom
<1>10. RenameLeftOK
  BY <1>1 DEF RenameLeftOK, RenameLeft
<1>11. RenameOwnOK
  BY <1>1, <1>2 DEF RenameFrom, RenameOwnOK, RenameHolds
<1>12. RenameFoundOK
  BY <1>1 DEF RenameFoundOK
<1>13. QED BY <1>5, <1>6, <1>7, <1>8, <1>9, <1>10, <1>11, <1>12 DEF RenameIInv

\* From it follows what is told of the places of repositories.
LEMMA RenameKeepsFollows == RenameIInv => RenameTellsWhere
<1> SUFFICES ASSUME RenameIInv PROVE RenameTellsWhere
  OBVIOUS
<1>1. /\ RenameTyped /\ RenameTold /\ RenamePlacedOK /\ RenameOwnOK /\ RenameFoundOK
      /\ renameAsked \in RenameInvocations /\ DOMAIN renameAt = RenameRun
  BY DEF RenameIInv, RenameTyped
<1>2. RenamePathsAreOwn
  <2>1. SUFFICES ASSUME NEW r \in RenameRun, NEW q \in RenameRun, r # q, renameAsked.workers = 1,
                        RenameSame(renamePath[r], renameWhere[q])
                 PROVE  RenameSucceeded(r) /\ (RenameLeftAside(r) \/ RenameCarried(r))
    BY <1>1 DEF RenamePathsAreOwn
  <2>2. CASE renameAt[r] = "done"
    BY <1>1, <2>1, <2>2 DEF RenameOwnOK, RenameDone
  <2>3. CASE renameAt[r] # "done"
    BY <1>1, <2>1, <2>3, RenamePathsAre, RenameOccupiedIs, RenameLiesOrders DEF RenameOwnOK, RenameTold,
      RenameHolds
  <2>4. QED BY <2>2, <2>3
<1>3. RenameReportsTrue
  <2>1. ASSUME NEW r \in RenameRun, renameAt[r] = "done", ~RenameEntangled(r)
        PROVE  /\ renameOutcome[r] \in {"skipped", "failed", "renamed"}
               /\ renameOutcome[r] = "renamed" =>
                    /\ renameWhere[r] = RenameGoal(r) \/ renameOutside
                    /\ renameAsked.workers = 1 /\ ~renameOutside => renamePath[r] = renameWhere[r]
               /\ renameOutcome[r] = "skipped" => RenameSame(renameWhere[r], renameAsked.where[r])
               /\ renameOutcome[r] = "failed" =>
                    \/ renameWhere[r] = renameAsked.where[r]
                    \/ RenameLeftAside(r) /\ Front(renameWhere[r]) = Front(renameAsked.where[r])
    <3>1. RenamePlaced(r)
      BY <1>1, <2>1 DEF RenamePlacedOK, RenameAlone
    <3>2. RenameIsAside(r) =>
            RenameLeftAside(r) /\ Front(renameWhere[r]) = Front(RenameFrom(r))
      BY <1>1, <2>1, RenameAsideIs DEF RenameIsAside, RenameLeftAside
    <3>3. renameOutcome[r] = "renamed" /\ renameAsked.workers = 1 /\ ~renameOutside =>
            renamePath[r] = RenameGoal(r)
      BY <1>1, <2>1 DEF RenameFoundOK
    <3>4. QED BY <2>1, <3>1, <3>2, <3>3 DEF RenamePlaced, RenameEarly, RenameFrom, RenameSame
  <2>2. QED BY <1>1, <2>1 DEF RenameReportsTrue
<1>4. QED BY <1>2, <1>3 DEF RenameTellsWhere

========================================
