------------------------------ MODULE Releases ------------------------------
(***************************************************************************)
(* gix release next, gix release <tag> and gix release retag, one after    *)
(* the other in one clone: the next version is chosen from the local tags, *)
(* a tag is created at HEAD and pushed, tags are deleted, created again    *)
(* and force-pushed.  Commands fail, colleagues publish tags of their own, *)
(* the operator commits and fetches in between.  What the language model   *)
(* decides is any bump it may (ModelRequests).                             *)
(***************************************************************************)
EXTENDS Naturals, Sequences, FiniteSets, FiniteSetsExt, Functions

CONSTANTS
    ReleaseCommits, ReleaseNoCommit,
    ReleaseAncestors,      \* the commits reachable from a commit, itself included
    ReleaseTags,           \* <<major, minor, patch>>, a CalVer <<second>>, or
                           \* another name, <<>>
    ReleaseInvocations     \* [commands, local, remote, head]

ReleaseCommands == UNION {Range(i.commands) : i \in ReleaseInvocations}

\* The tags of a repository that exist
ReleaseThere(tags) == {t \in ReleaseTags : tags[t] # ReleaseNoCommit}

\* A script has commands, and a retag has mappings (ErrRetagMappingsRequired).
ASSUME ReleaseAssumption ==
    /\ ReleaseNoCommit \notin ReleaseCommits /\ ReleaseTags \subseteq Seq(Nat)
    /\ \A c \in ReleaseCommits : c \in ReleaseAncestors[c] /\ ReleaseAncestors[c] \subseteq ReleaseCommits
    /\ \A i \in ReleaseInvocations :
         /\ {i.local, i.remote} \subseteq [ReleaseTags -> ReleaseCommits \cup {ReleaseNoCommit}]
         /\ IsFiniteSet(ReleaseThere(i.local)) /\ IsFiniteSet(ReleaseThere(i.remote))
         /\ i.head \in ReleaseCommits
         /\ i.commands \in Seq(ReleaseCommands) \ {<<>>}
    /\ \A command \in ReleaseCommands :
         /\ command.op \in {"next", "tag", "retag"}
         /\ command.op = "next" => {command.fixedMajor, command.time} \subseteq Nat
         /\ command.op = "tag" /\ command.tag # "next" => command.tag \in Seq(Nat)
         /\ command.op = "retag" =>
              command.mappings \in
                Seq([tag: ReleaseTags, target: ReleaseTags \cup ReleaseCommits]) \ {<<>>}

VARIABLES
    releaseAsked,
    releaseAt,
    releaseLocal, releaseRemote,   \* what each tag names, here and on the remote
    releaseHead,
    releaseLeft,        \* the commands left to run
    releaseSource, releaseListed,  \* as read by release next: HEAD and the tags
    releasePrevious, releaseNext,  \* the boundary and the version chosen
    releaseTag,         \* the tag at hand, of release <tag>
    releaseMapped,      \* mappings of release retag done
    releaseMoved,       \* history: tag and commit of each mapping pushed
    releaseReports

releaseTags == <<releaseLocal, releaseRemote>>
releaseChoice == <<releaseSource, releaseListed, releasePrevious, releaseNext>>
releaseRun == <<releaseTag, releaseMapped, releaseMoved, releaseReports>>
releaseVars == <<releaseAsked, releaseAt, releaseTags, releaseHead, releaseLeft, releaseChoice,
                 releaseRun>>

ReleaseInit ==
    /\ releaseAsked \in ReleaseInvocations
    /\ releaseAt = "start"
    /\ releaseLocal = releaseAsked.local /\ releaseRemote = releaseAsked.remote
    /\ releaseHead = releaseAsked.head /\ releaseLeft = releaseAsked.commands
    /\ releaseSource = ReleaseNoCommit /\ releaseListed = {}
    /\ releasePrevious = <<>> /\ releaseNext = <<>>
    /\ releaseTag = <<>> /\ releaseMapped = 0 /\ releaseMoved = {} /\ releaseReports = <<>>

releaseCommand == Head(releaseLeft)
ReleaseExists(tags, tag) == tag \in ReleaseTags /\ tags[tag] # ReleaseNoCommit

\* A failing command ends the script, a succeeding one is followed by the next.
ReleaseEnd(ok) ==
    /\ releaseReports' = Append(releaseReports, <<releaseCommand.op, ok>>)
    /\ releaseLeft' = Tail(releaseLeft)
    /\ releaseAt' = IF ok /\ Len(releaseLeft) > 1 THEN "start" ELSE "done"

\* Any command git or the model client runs may fail.
ReleaseFails ==
    /\ releaseAt \in {"read", "decide", "create", "push", "resolve", "delete", "recreate", "force"}
    /\ ReleaseEnd(FALSE)
    /\ UNCHANGED <<releaseAsked, releaseTags, releaseHead, releaseChoice, releaseTag, releaseMapped,
                   releaseMoved>>

ReleaseStart ==
    /\ releaseAt = "start"
    /\ releaseAt' = CASE releaseCommand.op = "next" -> "read"
                      [] releaseCommand.op = "tag" -> "create"
                      [] OTHER -> "resolve"
    /\ releaseTag' = IF releaseCommand.op # "tag" THEN <<>>
                     ELSE IF releaseCommand.tag = "next" THEN releaseNext ELSE releaseCommand.tag
    /\ releaseMapped' = 0
    /\ UNCHANGED <<releaseAsked, releaseTags, releaseHead, releaseLeft, releaseChoice, releaseMoved,
                   releaseReports>>

\* ------------------------------------------------------------- release next

\* Faulty: only the last number is compared.
ReleaseOlderByPatch(a, b) == a[Len(a)] < b[Len(b)]

\* semverValue.compare: the numbers from the left, or the CalVer second.
ReleaseOlder(a, b) ==
    \E i \in DOMAIN a : a[i] < b[i] /\ \A j \in 1 .. i - 1 : a[j] = b[j]

\* LatestSemVer, LatestFixedMajorSemVer, LatestCalVer
ReleaseLine(policy, tags) ==
    IF policy.scheme = "calver" THEN {t \in tags : Len(t) = 1}
    ELSE {t \in tags : Len(t) = 3 /\ (policy.fixedMajor > 0 => t[1] = policy.fixedMajor)}
ReleaseLatest(policy, tags) ==
    LET line == ReleaseLine(policy, tags)
    IN IF line = {} THEN <<>> ELSE CHOOSE t \in line : \A u \in line : u # t => ReleaseOlder(u, t)

\* git rev-parse HEAD and git tag --list: the tags named on the command line
\* are left out.
ReleaseRead ==
    /\ releaseAt = "read"
    /\ releaseSource' = releaseHead
    /\ releaseListed' = ReleaseThere(releaseLocal) \ releaseCommand.exclude
    /\ releasePrevious' = ReleaseLatest(releaseCommand, releaseListed')
    /\ releaseNext' = <<>>   \* of an earlier release next
    /\ releaseAt' = "decide"
    /\ UNCHANGED <<releaseAsked, releaseTags, releaseHead, releaseLeft, releaseRun>>

\* NextSemVer, NextFixedMajorSemVer
ReleaseSuccessor(version, bump) ==
    CASE bump = "major" -> <<version[1] + 1, 0, 0>>
      [] bump = "minor" -> <<version[1], version[2] + 1, 0>>
      [] OTHER -> <<version[1], version[2], version[3] + 1>>

\* The boundary is read again now, by name, and must be an ancestor of the
\* source.  A release output transition is a patch of the tagged source; the
\* model decides of a range that holds a commit.
ReleaseSemVerChoices ==
    LET fixed == releaseCommand.fixedMajor
        transition == releaseCommand.transition
        boundary == releaseLocal[releasePrevious]
    IN IF releasePrevious = <<>>
       THEN IF transition THEN {} ELSE {<<IF fixed > 0 THEN fixed ELSE 1, 0, 0>>}
       ELSE IF boundary \notin ReleaseAncestors[releaseSource] THEN {}
       ELSE IF transition
       THEN IF boundary = releaseSource THEN {ReleaseSuccessor(releasePrevious, "patch")} ELSE {}
       ELSE IF boundary = releaseSource THEN {}
       ELSE {ReleaseSuccessor(releasePrevious, bump) :
               bump \in {"patch", "minor"} \cup (IF fixed > 0 THEN {} ELSE {"major"})}

\* NextCalVer: the moment of the release, later than the latest one.
ReleaseCalVerChoices ==
    LET now == <<releaseCommand.time>>
    IN IF releasePrevious # <<>> /\ ~ReleaseOlder(releasePrevious, now) THEN {} ELSE {now}

ReleaseDecide ==
    /\ releaseAt = "decide"
    /\ \E choices \in {IF releaseCommand.scheme = "calver" THEN ReleaseCalVerChoices
                       ELSE ReleaseSemVerChoices} :
         IF choices = {} THEN ReleaseEnd(FALSE) /\ UNCHANGED releaseNext
         ELSE releaseNext' \in choices /\ ReleaseEnd(TRUE)
    /\ UNCHANGED <<releaseAsked, releaseTags, releaseHead, releaseSource, releaseListed,
                   releasePrevious, releaseTag, releaseMapped, releaseMoved>>

\* ------------------------------------------------------------ release <tag>

\* git tag -a: refused when the tag exists here
ReleaseCreate ==
    /\ releaseAt = "create" /\ releaseTag \in ReleaseTags   \* the bound on version numbers
    /\ ~ReleaseExists(releaseLocal, releaseTag)
    /\ releaseLocal' = [releaseLocal EXCEPT ![releaseTag] = releaseHead]
    /\ releaseAt' = "push"
    /\ UNCHANGED <<releaseAsked, releaseRemote, releaseHead, releaseLeft, releaseChoice, releaseRun>>

\* Faulty: the push is forced.
ReleasePushForced(tag) == TRUE

\* git push <remote> <tag>: refused when the remote has one of that name
ReleasePushAccepted(tag) == ~ReleaseExists(releaseRemote, tag)

ReleasePush ==
    /\ releaseAt = "push" /\ ReleasePushAccepted(releaseTag)
    /\ releaseRemote' = [releaseRemote EXCEPT ![releaseTag] = releaseLocal[releaseTag]]
    /\ ReleaseEnd(TRUE)
    /\ UNCHANGED <<releaseAsked, releaseLocal, releaseHead, releaseChoice, releaseTag, releaseMapped,
                   releaseMoved>>

\* ------------------------------------------------------------ release retag

releaseMapping == releaseCommand.mappings[releaseMapped + 1]

\* git rev-parse --verify <reference>: a commit, or a tag of this clone
ReleaseNamed(tags, reference) ==
    IF reference \in ReleaseCommits THEN reference
    ELSE IF ReleaseExists(tags, reference) THEN tags[reference] ELSE ReleaseNoCommit

ReleaseResolve ==
    /\ releaseAt = "resolve"
    /\ ReleaseNamed(releaseLocal, releaseMapping.target) # ReleaseNoCommit
    /\ releaseAt' = IF ReleaseExists(releaseLocal, releaseMapping.tag) THEN "delete" ELSE "recreate"
    /\ UNCHANGED <<releaseAsked, releaseTags, releaseHead, releaseLeft, releaseChoice, releaseRun>>

ReleaseDelete ==
    /\ releaseAt = "delete"
    /\ releaseLocal' = [releaseLocal EXCEPT ![releaseMapping.tag] = ReleaseNoCommit]
    /\ releaseAt' = "recreate"
    /\ UNCHANGED <<releaseAsked, releaseRemote, releaseHead, releaseLeft, releaseChoice, releaseRun>>

\* git tag -a <tag> <reference>: the reference is read again, after the delete
ReleaseRecreate ==
    /\ releaseAt = "recreate"
    /\ ReleaseNamed(releaseLocal, releaseMapping.target) # ReleaseNoCommit
    /\ ~ReleaseExists(releaseLocal, releaseMapping.tag)
    /\ releaseLocal' = [releaseLocal EXCEPT
         ![releaseMapping.tag] = ReleaseNamed(releaseLocal, releaseMapping.target)]
    /\ releaseAt' = "force"
    /\ UNCHANGED <<releaseAsked, releaseRemote, releaseHead, releaseLeft, releaseChoice, releaseRun>>

\* git push --force <remote> <tag>
ReleaseForced(tag) == [releaseRemote EXCEPT ![tag] = releaseLocal[tag]]
ReleaseForce ==
    /\ releaseAt = "force"
    /\ ReleaseExists(releaseLocal, releaseMapping.tag)
    /\ releaseRemote' = ReleaseForced(releaseMapping.tag)
    /\ releaseMoved' = {m \in releaseMoved : m[1] # releaseMapping.tag}
                         \cup {<<releaseMapping.tag, releaseLocal[releaseMapping.tag]>>}
    /\ releaseMapped' = releaseMapped + 1
    /\ IF releaseMapped + 1 = Len(releaseCommand.mappings) THEN ReleaseEnd(TRUE)
       ELSE releaseAt' = "resolve" /\ UNCHANGED <<releaseLeft, releaseReports>>
    /\ UNCHANGED <<releaseAsked, releaseLocal, releaseHead, releaseChoice, releaseTag>>

\* ------------------------------------------------------------------- others

\* A colleague publishes a release of their own.
ReleaseColleague ==
    /\ releaseAt \notin {"done", "idle"}
    /\ \E t \in ReleaseTags, c \in ReleaseCommits :
         /\ ~ReleaseExists(releaseRemote, t)
         /\ \A u \in ReleaseTags : releaseRemote[u] = releaseAsked.remote[u]
         /\ releaseRemote' = [releaseRemote EXCEPT ![t] = c]
    /\ UNCHANGED <<releaseAsked, releaseAt, releaseLocal, releaseHead, releaseLeft, releaseChoice,
                   releaseRun>>

\* The operator fetches tags, and commits.
ReleaseFetch ==
    /\ releaseAt \notin {"done", "idle"}
    /\ releaseLocal' = [t \in ReleaseTags |->
         IF ReleaseExists(releaseLocal, t) THEN releaseLocal[t] ELSE releaseRemote[t]]
    /\ releaseLocal' # releaseLocal
    /\ UNCHANGED <<releaseAsked, releaseAt, releaseRemote, releaseHead, releaseLeft, releaseChoice,
                   releaseRun>>

ReleaseOperatorCommits ==
    /\ releaseAt \notin {"done", "idle"}
    /\ \E c \in ReleaseCommits \ {releaseHead} :
         releaseHead \in ReleaseAncestors[c] /\ releaseHead' = c
    /\ UNCHANGED <<releaseAsked, releaseAt, releaseTags, releaseLeft, releaseChoice, releaseRun>>

\* The steps of gix itself
ReleaseRuns ==
    \/ ReleaseStart \/ ReleaseRead \/ ReleaseDecide \/ ReleaseCreate \/ ReleasePush
    \/ ReleaseResolve \/ ReleaseDelete \/ ReleaseRecreate \/ ReleaseForce \/ ReleaseFails

ReleaseNextStep ==
    \/ ReleaseRuns
    \/ ReleaseColleague \/ ReleaseFetch \/ ReleaseOperatorCommits

\* ---------------------------------------------------------------- properties

ReleaseTypeOK ==
    /\ releaseAsked \in ReleaseInvocations
    /\ releaseAt \in {"start", "read", "decide", "create", "push", "resolve", "delete", "recreate",
                      "force", "done"}
    /\ {releaseLocal, releaseRemote} \subseteq [ReleaseTags -> ReleaseCommits \cup {ReleaseNoCommit}]
    /\ releaseHead \in ReleaseCommits /\ releaseSource \in ReleaseCommits \cup {ReleaseNoCommit}
    /\ releaseListed \subseteq ReleaseTags /\ releasePrevious \in ReleaseTags \cup {<<>>}
    /\ releaseNext \in Seq(Nat) /\ releaseTag \in Seq(Nat)
    /\ releaseMapped \in Nat /\ releaseMoved \subseteq ReleaseTags \X ReleaseCommits

\* The version chosen comes after every version of its line among the tags
\* that were listed, whatever is tagged while the model is asked
\* (releaseversion.go; release next).
NextVersionIsNew ==
    releaseNext # <<>> =>
      \E i \in DOMAIN releaseAsked.commands :
        /\ releaseAsked.commands[i].op = "next"
        /\ \A t \in ReleaseLine(releaseAsked.commands[i], releaseListed) : ReleaseOlder(t, releaseNext)

\* A tag that is published stays where it is, unless release retag was asked
\* to move that very tag: release <tag> and a colleague's tag of the same name
\* never overwrite one another (releases/service.go, Release and Retag).
PublishedTagsStand ==
    [][\A t \in ReleaseTags :
         (ReleaseExists(releaseRemote, t) /\ releaseRemote'[t] # releaseRemote[t]) =>
           /\ releaseCommand.op = "retag"
           /\ \E i \in DOMAIN releaseCommand.mappings : releaseCommand.mappings[i].tag = t]_releaseVars

\* What retag reports as moved is what the remote has.
MovedTagsAreThere ==
    \A m \in releaseMoved : releaseRemote[m[1]] = m[2]

\* Reassigning tags moves each one to the commit its reference named when the
\* command was given.
TagsMoveToWhatWasNamed ==
    \A m \in releaseMoved : \E i \in DOMAIN releaseAsked.commands :
      /\ releaseAsked.commands[i].op = "retag"
      /\ \E j \in DOMAIN releaseAsked.commands[i].mappings :
           LET mapping == releaseAsked.commands[i].mappings[j]
           IN mapping.tag = m[1] /\ m[2] = ReleaseNamed(releaseAsked.local, mapping.target)

\* The next version is a new one, and a tag that was moved is where it was moved.
TagsAreRight == NextVersionIsNew /\ MovedTagsAreThere
========================================
