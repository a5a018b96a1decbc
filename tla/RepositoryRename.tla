--------------------------- MODULE RepositoryRename ---------------------------
(***************************************************************************)
(* folder rename: RenameOperation and the rename executor, for all         *)
(* repositories of a run.  A path is the sequence of its names; the file   *)
(* system may fold their case.  Repositories may lie in each other, run in *)
(* several workers, and a rename may fail; the operator makes directories. *)
(***************************************************************************)
EXTENDS Naturals, Sequences, FiniteSets, SequencesExt

CONSTANTS
    RenameRepositories, RenameNames,
    RenameFolded,      \* a name in lower case
    RenameEndings,     \* the pairs of names of which the first ends with the second
    RenameAttempts,    \* intermediate names tried: 5
    RenameInvocations  \* [where, wanted, owner, clean, yes, workers, folds, dirty]

\* The names of a rename under way: <name>.rename.<attempt>
RenameAsides == [base: RenameNames, attempt: 0 .. RenameAttempts - 1]
RenameElement == RenameNames \cup RenameAsides

\* A path in lower case
RenameFold(path) ==
    [i \in DOMAIN path |-> IF path[i] \in RenameNames THEN RenameFolded[path[i]]
                           ELSE [path[i] EXCEPT !.base = RenameFolded[@]]]

ASSUME RenameAssumption ==
    /\ RenameAttempts \in Nat \ {0} /\ RenameNames \cap RenameAsides = {}
    /\ RenameFolded \in [RenameNames -> RenameNames]
    /\ RenameEndings \subseteq RenameNames \X RenameNames
    /\ \A asked \in RenameInvocations :
         LET repositories == DOMAIN asked.where
             paths == Seq(RenameNames) \ {<<>>}
             places == asked.directories \cup Range(asked.where)
         IN /\ repositories \subseteq RenameRepositories /\ IsFiniteSet(repositories)
            /\ asked \in
                 [where: [repositories -> paths], wanted: [repositories -> paths],
                  directories: SUBSET paths, owner: BOOLEAN, clean: BOOLEAN, yes: BOOLEAN,
                  workers: Nat \ {0}, folds: BOOLEAN, dirty: SUBSET repositories]
            \* a directory lies in one, and a path leads to one
            /\ \A p \in places : \A n \in 1 .. Len(p) : SubSeq(p, 1, n) \in places
            /\ \A r, q \in repositories : r # q =>
                  /\ asked.where[r] # asked.where[q]
                  /\ asked.folds => RenameFold(asked.where[r]) # RenameFold(asked.where[q])

VARIABLES
    renameAsked,
    renameWaiting,    \* the repositories not begun, in order
    renameAt,         \* where each one is
    renameWhere,      \* where it lies
    renamePath,       \* repository.Path of its state
    renameAttempt,
    renameOutcome,
    renameDirectories,
    renameAll,        \* the operator has answered: all
    renameOutside

renameVars == <<renameAsked, renameWaiting, renameAt, renameWhere, renamePath, renameAttempt,
                renameOutcome, renameDirectories, renameAll, renameOutside>>

----------------------------------------
\* Paths

RenameSame(p, q) == p = q \/ (renameAsked.folds /\ RenameFold(p) = RenameFold(q))

\* The repositories of the run
RenameRun == DOMAIN renameAsked.where

\* path is directory or lies in it.
RenameLies(path, directory) ==
    Len(directory) <= Len(path) /\ RenameSame(SubSeq(path, 1, Len(directory)), directory)

RenameOccupied == renameDirectories \cup Range(renameWhere)

RenameExists(path) == path = <<>> \/ \E q \in RenameOccupied : RenameSame(path, q)

RenameMoved(path, old, new) ==
    IF RenameLies(path, old)
    THEN new \o SubSeq(path, Len(old) + 1, Len(path)) ELSE path

\* os.Rename: a directory is not moved into itself, one that holds something is
\* not replaced; whatever lies in the directory moves along.
RenameCan(old, new) ==
    /\ RenameExists(old) /\ RenameExists(Front(new)) /\ ~RenameLies(Front(new), old)
    /\ ~RenameExists(new) \/ RenameSame(old, new)

RenameMove(old, new) ==
    /\ renameWhere' = [q \in RenameRun |-> RenameMoved(renameWhere[q], old, new)]
    /\ renameDirectories' = {RenameMoved(d, old, new) : d \in renameDirectories}

RenameNew(r) == Front(renamePath[r]) \o renameAsked.wanted[r]

RenameAside(r) ==
    Append(Front(renamePath[r]), [base |-> Last(renamePath[r]), attempt |-> renameAttempt[r]])

\* DirectoryPlan.IsNoop: with the owner the path ends, as a string, with the
\* folder; without, the folder has its name already.
RenameNoop(r) ==
    LET path == renamePath[r]
        wanted == renameAsked.wanted[r]
        tail == SubSeq(path, Len(path) - Len(wanted) + 1, Len(path))
    IN IF renameAsked.owner
       THEN /\ Len(wanted) <= Len(path)
            /\ Tail(tail) = Tail(wanted)
            /\ Head(tail) = Head(wanted) \/ <<Head(tail), Head(wanted)>> \in RenameEndings
       ELSE wanted = <<Last(renameAsked.where[r])>>

----------------------------------------

RenamePCs == {"waiting", "check", "ask", "parent", "direct", "aside", "forward", "settle", "done"}

\* Deepest first: ProcessRepositoriesByDescendingDepth
RenameOrders(where) ==
    {order \in [1 .. Cardinality(DOMAIN where) -> DOMAIN where] :
        /\ Range(order) = DOMAIN where
        /\ \A i, j \in DOMAIN order : i < j => Len(where[order[i]]) >= Len(where[order[j]])}

RenameInit ==
    /\ renameAsked \in RenameInvocations
    /\ renameWaiting \in RenameOrders(renameAsked.where)
    /\ renameAt = [r \in RenameRun |-> "waiting"]
    /\ renameWhere = renameAsked.where /\ renamePath = renameAsked.where
    /\ renameAttempt = [r \in RenameRun |-> 0]
    /\ renameOutcome = [r \in RenameRun |-> "none"]
    /\ renameDirectories = renameAsked.directories
    /\ renameAll = renameAsked.yes /\ renameOutside = FALSE

RenameGoes(r, at) == renameAt' = [renameAt EXCEPT ![r] = at]

RenameEnds(r, at, outcome) ==
    /\ RenameGoes(r, at)
    /\ renameOutcome' = [renameOutcome EXCEPT ![r] = outcome]

RenameStart(r) ==
    /\ renameWaiting # <<>> /\ Head(renameWaiting) = r
    /\ Cardinality({q \in RenameRun : renameAt[q] \notin {"waiting", "done"}})
         < renameAsked.workers
    /\ renameWaiting' = Tail(renameWaiting) /\ RenameGoes(r, "check")
    /\ UNCHANGED <<renameAsked, renameWhere, renamePath, renameAttempt, renameOutcome,
                   renameDirectories, renameAll, renameOutside>>

\* evaluatePrerequisites: a status that cannot be read counts as dirty; a
\* missing parent and an existing target are errors, which are logged.
RenameCheck(r) ==
    /\ renameAt[r] = "check"
    /\ LET old == renamePath[r]
           new == RenameNew(r)
           found == {q \in RenameRun : RenameSame(old, renameWhere[q])}
           unclean == renameAsked.clean /\ (found = {} \/ found \cap renameAsked.dirty # {})
           blocked == \/ ~renameAsked.owner /\ ~RenameExists(Front(new))
                      \/ RenameExists(new) /\ RenameFold(old) # RenameFold(new)
       IN \/ RenameNoop(r) /\ RenameEnds(r, "settle", "skipped")
          \/ ~RenameNoop(r) /\ (unclean \/ renameAsked.clean) /\ RenameEnds(r, "settle", "skipped")
          \/ ~RenameNoop(r) /\ ~unclean /\ blocked /\ RenameEnds(r, "done", "failed")
          \/ ~RenameNoop(r) /\ ~unclean /\ ~blocked /\ RenameGoes(r, "ask") /\ UNCHANGED renameOutcome
    /\ UNCHANGED <<renameAsked, renameWaiting, renameWhere, renamePath, renameAttempt,
                   renameDirectories, renameAll, renameOutside>>

RenameAsk(r) ==
    /\ renameAt[r] = "ask"
    /\ \/ RenameGoes(r, "parent") /\ UNCHANGED <<renameOutcome, renameAll>>
       \/ ~renameAll /\ RenameGoes(r, "parent") /\ renameAll' = TRUE /\ UNCHANGED renameOutcome
       \/ ~renameAll /\ RenameEnds(r, "settle", "skipped") /\ UNCHANGED renameAll
       \/ ~renameAll /\ RenameEnds(r, "done", "failed") /\ UNCHANGED renameAll
    /\ UNCHANGED <<renameAsked, renameWaiting, renameWhere, renamePath, renameAttempt,
                   renameDirectories, renameOutside>>

\* ensureParentDirectory
RenameParent(r) ==
    /\ renameAt[r] = "parent"
    /\ LET parent == Front(RenameNew(r))
           missing == {SubSeq(parent, 1, n) : n \in 1 .. Len(parent)}
       IN \/ /\ ~renameAsked.owner \/ RenameExists(parent)
             /\ RenameGoes(r, "direct") /\ UNCHANGED <<renameOutcome, renameDirectories>>
          \/ /\ renameAsked.owner /\ ~RenameExists(parent)
             /\ renameDirectories' = renameDirectories \cup {p \in missing : ~RenameExists(p)}
             /\ RenameGoes(r, "direct") /\ UNCHANGED renameOutcome
          \/ /\ renameAsked.owner /\ ~RenameExists(parent)
             /\ RenameEnds(r, "done", "failed") /\ UNCHANGED renameDirectories
    /\ UNCHANGED <<renameAsked, renameWaiting, renameWhere, renamePath, renameAttempt,
                   renameAll, renameOutside>>

\* performRename, straight
RenameDirect(r) ==
    /\ renameAt[r] = "direct"
    /\ \/ /\ RenameCan(renamePath[r], RenameNew(r))
          /\ RenameMove(renamePath[r], RenameNew(r))
          /\ RenameEnds(r, "settle", "renamed")
       \/ /\ RenameGoes(r, "aside")
          /\ UNCHANGED <<renameWhere, renameDirectories, renameOutcome>>
    /\ UNCHANGED <<renameAsked, renameWaiting, renamePath, renameAttempt, renameAll, renameOutside>>

\* Faulty: the first name comes again after the last.
RenameAnyAttempt(r) ==
    /\ renameAttempt' = [renameAttempt EXCEPT ![r] = (@ + 1) % RenameAttempts]
    /\ RenameGoes(r, "aside") /\ UNCHANGED renameOutcome

\* The next intermediate name, as long as there is one
RenameNextAttempt(r) ==
    IF renameAttempt[r] + 1 < RenameAttempts
    THEN /\ renameAttempt' = [renameAttempt EXCEPT ![r] = @ + 1]
         /\ RenameGoes(r, "aside") /\ UNCHANGED renameOutcome
    ELSE RenameEnds(r, "done", "failed") /\ UNCHANGED renameAttempt

\* and through an intermediate name; what has been moved aside stays there when
\* it cannot be moved on.
RenameMoveAside(r) ==
    /\ renameAt[r] = "aside"
    /\ \/ /\ RenameCan(renamePath[r], RenameAside(r))
          /\ RenameMove(renamePath[r], RenameAside(r))
          /\ RenameGoes(r, "forward") /\ UNCHANGED <<renameAttempt, renameOutcome>>
       \/ RenameNextAttempt(r) /\ UNCHANGED <<renameWhere, renameDirectories>>
    /\ UNCHANGED <<renameAsked, renameWaiting, renamePath, renameAll, renameOutside>>

\* Faulty: a repository that could not be moved on counts as renamed.
RenameMoveForwardHopefully(r) ==
    /\ renameAt[r] = "forward"
    /\ \/ /\ RenameCan(RenameAside(r), RenameNew(r))
          /\ RenameMove(RenameAside(r), RenameNew(r))
       \/ UNCHANGED <<renameWhere, renameDirectories>>
    /\ RenameEnds(r, "settle", "renamed")
    /\ UNCHANGED <<renameAsked, renameWaiting, renamePath, renameAttempt, renameAll, renameOutside>>

RenameMoveForward(r) ==
    /\ renameAt[r] = "forward"
    /\ \/ /\ RenameCan(RenameAside(r), RenameNew(r))
          /\ RenameMove(RenameAside(r), RenameNew(r))
          /\ RenameEnds(r, "settle", "renamed") /\ UNCHANGED renameAttempt
       \/ RenameNextAttempt(r) /\ UNCHANGED <<renameWhere, renameDirectories>>
    /\ UNCHANGED <<renameAsked, renameWaiting, renamePath, renameAll, renameOutside>>

\* renameCompleted: the new path is there, and the old one is not, or they are
\* one directory.
RenameCompleted(r) ==
    /\ RenameExists(RenameNew(r))
    /\ ~RenameExists(renamePath[r]) \/ RenameSame(renamePath[r], RenameNew(r))

\* What is not an error ends here: skipped repositories too.
RenameSettle(r) ==
    /\ renameAt[r] = "settle"
    /\ renamePath' = [renamePath EXCEPT ![r] = IF RenameCompleted(r) THEN RenameNew(r) ELSE @]
    /\ RenameGoes(r, "done")
    /\ UNCHANGED <<renameAsked, renameWaiting, renameWhere, renameAttempt, renameOutcome,
                   renameDirectories, renameAll, renameOutside>>

\* Somebody makes a directory where a repository is to go, once.
RenameOutsider(r) ==
    /\ ~renameOutside /\ renameAt[r] # "done"
    /\ LET place == RenameNew(r)
       IN ~RenameExists(place) /\ RenameExists(Front(place))
          /\ renameDirectories' = renameDirectories \cup {place}
    /\ renameOutside' = TRUE
    /\ UNCHANGED <<renameAsked, renameWaiting, renameAt, renameWhere, renamePath, renameAttempt,
                   renameOutcome, renameAll>>

\* The steps of gix itself
RenameRuns ==
    \E r \in RenameRun :
        \/ RenameStart(r) \/ RenameCheck(r) \/ RenameAsk(r) \/ RenameParent(r)
        \/ RenameDirect(r) \/ RenameMoveAside(r) \/ RenameMoveForward(r)
        \/ RenameSettle(r)

RenameNext == RenameRuns \/ \E r \in RenameRun : RenameOutsider(r)

RenameSpec == RenameInit /\ [][RenameNext]_renameVars

----------------------------------------
\* Properties

RenameTypeOK ==
    /\ renameAt \in [RenameRun -> RenamePCs]
    /\ \A r \in RenameRun :
         /\ renameAttempt[r] \in 0 .. RenameAttempts - 1
         /\ renameOutcome[r] \in {"none", "skipped", "failed", "renamed"}
         /\ renameWhere[r] # <<>> /\ Range(renameWhere[r]) \subseteq RenameElement

RenameGoal(r) == Front(renameAsked.where[r]) \o renameAsked.wanted[r]

\* A repository that lies in another, or goes there, is moved with it by the
\* later rename.
RenameCarried(r) ==
    \E q \in RenameRun \ {r} : \E path \in {renameAsked.where[r], Front(RenameGoal(r))} :
        RenameLies(path, renameAsked.where[q])

\* Two workers of which one renames to where the other's repository lies, or into
\* it, can move each other's: what the one makes there is moved as if it were the
\* repository the other has moved aside.
RenameEntangled(r) ==
    \/ RenameCarried(r)
    \/ \E q \in RenameRun \ {r} :
         /\ renameAsked.workers > 1
         /\ \/ RenameLies(RenameGoal(q), renameAsked.where[r])
            \/ RenameSame(RenameGoal(r), renameAsked.where[q])

\* Another repository is to come to where this one lies or goes.
RenameSucceeded(r) ==
    \E q \in RenameRun \ {r} : \E path \in {renameAsked.where[r], RenameGoal(r)} :
        RenameLies(path, RenameGoal(q))

RenameLeftAside(r) == Last(renameWhere[r]) \notin RenameNames

\* The path a repository's state holds is its own or nobody's, whatever was
\* skipped, failed or lies in another repository: with one worker no later step
\* works on the wrong repository, unless this one is aside or carried away and
\* another one takes its place.
RenamePathsAreOwn ==
    \A r, q \in DOMAIN renameAt :
        r # q /\ renameAsked.workers = 1 /\ RenameSame(renamePath[r], renameWhere[q]) =>
            RenameSucceeded(r) /\ (RenameLeftAside(r) \/ RenameCarried(r))

\* README.md:350: workers process repositories in parallel, "each repository still
\* executes its steps sequentially": on itself.
ParallelPathsAreOwn ==
    \A r, q \in DOMAIN renameAt :
        r # q /\ renameAt[r] = "done" => ~RenameSame(renamePath[r], renameWhere[q])

\* docs/command_warning_matrix.md:18,22: the file system rename is fatal, "failures
\* abort execution": a repository of which the workflow goes on is where it was
\* or where it was to go.
RenamesSucceedOrAbort ==
    \A r \in DOMAIN renameAt :
        renameAt[r] = "done" /\ ~RenameEntangled(r) /\ ~renameOutside =>
            renameWhere[r] \in {renameAsked.where[r], RenameGoal(r)}

\* The executor reports what has become of the repository: renamed, it is at the
\* new path, unless somebody made a directory there meanwhile, and its state
\* knows; skipped, it is where it was; failed, it is
\* there or aside under an intermediate name of its own.
RenameReportsTrue ==
    \A r \in DOMAIN renameAt :
        renameAt[r] = "done" /\ ~RenameEntangled(r) =>
            LET before == renameAsked.where[r]
                now == renameWhere[r]
            IN CASE renameOutcome[r] = "renamed" ->
                      /\ \/ now = RenameGoal(r)
                         \/ renameOutside
                      /\ renameAsked.workers = 1 /\ ~renameOutside => renamePath[r] = now
                 [] renameOutcome[r] = "skipped" -> RenameSame(now, before)
                 [] OTHER -> now = before \/ (RenameLeftAside(r) /\ Front(now) = Front(before))

\* A rename tells where the repository is, to the operator and to later steps.
RenameTellsWhere == RenamePathsAreOwn /\ RenameReportsTrue
========================================
